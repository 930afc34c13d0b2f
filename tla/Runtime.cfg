SPECIFICATION RuntimeSpec
CONSTANTS
  Keys = {a, b}
  Vals = {0, 1}
  Default = 0
  Visits = {1, 2, 3}
  Limit = 2
  Cmds = {1, 2, 3}
  Servers = {"s1", "s2"}
  Msgs = {1, 2, 3}
  Users = {"user"}
  Cap = 2
  Callers = {1, 2}
  Names = {"a", "b"}
  Nested <- Loads
  Objects = {"o1", "o2", "o3"}
  Reqs = {r1, r2}
  Ctxs = {x1, x2}
  Inputs <- RpcInputs
  Receivers <- MathReceivers
  Uses <- MathUses
  Setup <- Rpc2Setup
  Calls <- Rpc2Calls
  None = None
SYMMETRY Symmetry
INVARIANTS TypeOK AppHolds OneServer OneEach OwnAnswer CallsGuarded ChainHonoured
PROPERTIES ChangesKept NothingSilent
CHECK_DEADLOCK FALSE
