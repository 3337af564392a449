CONSTANTS
  c1 = c1
  c2 = c2
  Specs <- SomeSpecs
  Docs <- SomeDocs
  ValidDocs <- SomeValid
  Conns <- TwoConns
  MaxReg = 3
SPECIFICATION Spec
INVARIANTS
  RegistrationOrder
CHECK_DEADLOCK FALSE
