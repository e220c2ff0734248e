SPECIFICATION SessionSpec
CONSTANTS
  Callers = {c1, c2}
  MbConns = {m1}
  LocalConns = {l1}
  Kinds <- AllKinds
  Pages <- AnyPage
  None = None
INVARIANT FuzzyOnlyUnmatched
