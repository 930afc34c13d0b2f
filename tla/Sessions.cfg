SPECIFICATION Spec
CONSTANTS
  Procs = {p1, p2}
  Requests = {r1, r2}
  Tokens = {k1, k2}
  Expire = 1
  None = None
SYMMETRY Symmetry
INVARIANTS LogoutFinal
PROPERTIES NoStaleAccept
