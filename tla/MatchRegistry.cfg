CONSTANTS
  c1 = c1
  c2 = c2
  Specs <- SomeSpecs
  Docs <- SomeDocs
  ValidDocs <- SomeValid
  Conns <- TwoConns
  MaxReg = 3
SPECIFICATION Spec
INVARIANTS
  AllOrNothing
  EarlierKeyWins
  OneTable
CHECK_DEADLOCK FALSE
