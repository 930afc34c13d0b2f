SPECIFICATION Spec
CONSTANTS
  Clients = {c1, c2}
  Columns = {a, b}
  Omit = {a, b}
  MaxOps = 3
  Absent = Absent
  Miss = Miss
SYMMETRY Symmetry
INVARIANTS OldFromDb
CHECK_DEADLOCK FALSE
