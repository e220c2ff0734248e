SPECIFICATION MCSpec
CONSTANTS
  Callers = {c1, c2, c3}
  Keys = {k1, k2}
  MaxFetches = 3
  Size <- Lengths
  SidecarSize = 1
  Ttl <- Ttls
  MaxBytes = 3
  MaxTime = 1
  HazardFetches = 2
  HazardKeys = 1
  CalmCallers = 2
  NoCaller = NoCaller
  NoKey = NoKey
  NoFile = NoFile
  NoJob = NoJob
  NoAnswer = NoAnswer
INVARIANTS FilesWhole PairMatches SingleFetch BudgetKept
SYMMETRY Symmetry
