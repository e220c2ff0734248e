SPECIFICATION HistorySpec
CONSTANTS
  Callers = {c1, c2, c3}
  Keys = {k1}
  Slots = {s1, s2, s3}
  Ttl = 1
  MaxEntries = 1
  MaxTime = 2
  NoCaller = NoCaller
  NoKey = NoKey
  NoSlot = NoSlot
  NoBody = NoBody
  Failed = Failed
SYMMETRY Symmetry
INVARIANT ServesFresh
