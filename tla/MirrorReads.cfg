SPECIFICATION MCSpec
CONSTANTS
  Databases <- Versions
  Requests <- AllRequests
  DefaultLimit = 2
  MaxLimit = 3
  Callers = {c1, c2}
  MbConns = {m1}
  LocalConns = {l1}
  Kinds <- AllKinds
  Pages <- HitOrMiss
  None = None
INVARIANTS HydrationAgrees PartsAreGenuine KnownStaysKnown RunsConfigured OnlyDropsLeak QueriesReadBack
PROPERTY Served
