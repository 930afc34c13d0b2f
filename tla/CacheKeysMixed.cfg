SPECIFICATION Spec
CONSTANTS
  MaxId = 2
  Clauses <- MixedClauses
  Absent = Absent
  Miss = Miss
INVARIANTS AnswersOwnQuery
