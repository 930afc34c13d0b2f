SPECIFICATION Spec
CONSTANTS
  a = a
  b = b
  r1 = r1
  r2 = r2
  w1 = w1
  w2 = w2
  Ids = {1, 2}
  Vals = {a}
  Matching = {a}
  Readers = {r1, r2}
  Writers = {w1, w2}
  Queries <- FewQueries
  MaxTx = 2
  Absent = Absent
  Zero = Zero
  Miss = Miss
  Failed = Failed
SYMMETRY Symmetry
INVARIANTS EntriesFresh QuietAnswers OneFlight
