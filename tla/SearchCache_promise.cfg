SPECIFICATION FairSpec
CONSTANTS
  Callers = {c1, c2}
  Keys = {k1, k2}
  Slots = {s1, s2, s3}
  Ttl = 1
  MaxEntries = 1
  MaxTime = 1
  NoCaller = NoCaller
  NoKey = NoKey
  NoSlot = NoSlot
  NoBody = NoBody
  Failed = Failed
PROPERTIES KeepsPromise EveryRequestEnds
