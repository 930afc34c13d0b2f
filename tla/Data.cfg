SPECIFICATION DataSpec
CONSTANTS
  Cleaners = {k1}
  Save = 2
  Each = 2
  MaxId = 8
  LastId = 2
  Clauses <- PureClauses
  Absent = Absent
  Miss = Miss
  Clients = {r1, r2}
  Keys <- StoreKeys
  Batch = 2
  Hour = 1
  Procs = {p1, p2}
  Host <- OneHost
  Tables = {"t", "u"}
  Record = "t"
  Unique = {"u"}
  Options <- PoolOptions
  Asks = {TRUE, FALSE}
  Reqs = {r1, r2}
  Tokens = {t1, t2}
  Expire = 2
  Minute = 1
  Records = 3
  Sizes = {0, 9}
  Indexes = {0, 2, 7}
  DefaultSize = 1
  MaxSize = 2
  MaxInt = 7
  None = None
SYMMETRY Symmetry
INVARIANTS TypeOK DeletesUnlessAll AnswersOwnQuery StartRepeatable PagesMeetAll
PROPERTIES OnlyExpired  TokensEnd
CHECK_DEADLOCK FALSE
