SPECIFICATION LiveSpec
CONSTANTS
  a = a
  b = b
  r1 = r1
  r2 = r2
  w1 = w1
  w2 = w2
  Ids = {1}
  Vals = {a}
  Matching = {a}
  Readers = {r1, r2}
  Writers = {w1}
  Queries <- FindQueries
  MaxTx = 1
  Absent = Absent
  Zero = Zero
  Miss = Miss
  Failed = Failed
PROPERTIES Answered EventuallyFresh
