SPECIFICATION Spec
CONSTANTS
  p1 = p1
  p2 = p2
  None = None
  Jobs = {p1, p2}
  Sources <- AllSources
  Plans <- Imdb
  Watched = {}
  Overlap = TRUE
  Chunks = 2
  Channel = 1
  MaxVersion = 2
  Datasets <- TwoDatasets
  Structural <- Episodes
  Exports <- TwoExports
INVARIANT LiveWhole
SYMMETRY Symmetry
