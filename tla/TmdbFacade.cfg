SPECIFICATION MCSpec
CONSTANTS
  c1 = c1
  c2 = c2
  movie = movie
  season = season
  title = title
  ids = ids
  cast = cast
  junk = junk
  tta = tta
  ttb = ttb
  ttc = ttc
  NoRow = NoRow
  Configured = TRUE
  CacheTtl = 1
  Patience = 1
  Hits <- MovieHits
  Own = {ids}
  Callers = {c1, c2}
  Titles = {movie, season}
  Linked = {movie}
  Queries = {title}
  Thin = {}
  Sections = {ids, cast}
  Appends <- SomeAppends
  MaxTime = 5
INVARIANTS TypeOK AnswerCarries BoundedStaleness LocalSearchSound
SYMMETRY Symmetry
