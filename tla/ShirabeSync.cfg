SPECIFICATION MCSpec
CONSTANTS
  p1 = p1
  p2 = p2
  None = None
  Jobs = {p1, p2}
  Sources <- AllSources
  Plans <- ThePlans
  Watched = {}
  Overlap = FALSE
  Chunks = 2
  Channel = 1
  MaxVersion = 2
  Datasets <- TwoDatasets
  Structural <- Episodes
  Exports <- TwoExports
  Characters <- TheCharacters
  Columns = 2
  Booleans <- Second
  LastSecond = 2147483647
INVARIANTS LiveWhole OkMeansLoaded OkMeansIndexed OkMeansEnumerated CopyLossless DatesFollowCalendar
SYMMETRY Symmetry
