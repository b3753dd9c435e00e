\* Every register of the API, one key of each.
SPECIFICATION Spec
CONSTANTS
  Tables <- AllTables
  Unchecked <- AllUnchecked
  Wide <- AllWide
  Ids = {i1, i2, i3, i4}
  Reqs = {r1, r2, r3}
  None = None
SYMMETRY Symmetry
INVARIANT TypeOK
INVARIANT OneRowUnlessExcused
INVARIANT AnswersUnlessClash
