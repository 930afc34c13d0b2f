SPECIFICATION LiveSpec
CONSTANTS
  Clients = {c1, c2}
  Values = {v1, v2, v3}
  Ops = {"enqueue", "dequeue", "close", "send", "sendForever"}
  Cap = 1
  Loop = Loop
  None = None
INVARIANTS NoPanic InOrder Accounted
PROPERTIES Ends
CHECK_DEADLOCK FALSE
