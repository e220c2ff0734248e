SPECIFICATION MCSpec
CONSTANTS
  Callers = {c1, c2, c3}
  Keys = {k1, k2, k3}
  Slots = {s1, s2, s3, s4}
  Ttl = 2
  MaxEntries = 2
  MaxTime = 4
  RaceTime = 2
  RaceKeys = 2
  NoCaller = NoCaller
  NoKey = NoKey
  NoSlot = NoSlot
  NoBody = NoBody
  Failed = Failed
SYMMETRY Symmetry
INVARIANTS TypeOK SlotIsCurrent SingleFlight LeaderFindsNothing AnswerForKey OrderSound CapacityBound
PROPERTY OldestFirst
