SPECIFICATION Spec
CONSTANTS
  Clients = {c1, c2}
  Columns = {a, b}
  Omit = {a}
  MaxOps = 4
  Absent = Absent
  Miss = Miss
SYMMETRY Symmetry
PROPERTIES NoLostUpdate GivenVersionHolds
CHECK_DEADLOCK FALSE
