SPECIFICATION FairSpec
CONSTANTS
  Callers = {c1, c2, c3}
  Keys = {k1, k2}
  Locks = {l1, l2, l3, l4}
  NoCaller = NoCaller
  NoKey = NoKey
  NoLock = NoLock
INVARIANT EntryIsCurrent
PROPERTIES LastSweepPrunes KeepsLease WaitersServed
