SPECIFICATION MCSpec
CONSTANTS
  Callers = {c1, c2}
  Rows = {series}
  Linked = {series}
  Configured = TRUE
  CacheTtl = 1
  TokenTtl = 3
  Margin = 2
  Patience = 1
  MaxTime = 3
  MaxLogins = 3
  NoRow = NoRow
  NoToken = NoToken
  Clients = {c1, c2}
  Keys = {k1}
  BadKey = BadKey
  Configs <- AllConfigs
  CallTime = 1
  Horizon = 3
  NoArt = NoArt
INVARIANTS NeverLapsed OneRetryIsEnough BoundedStaleness AnswersCurrent
SYMMETRY Symmetry
