SPECIFICATION Spec
CONSTANTS
  Owners = {o1, o2}
  Cap = 2
  MaxEntered = 1
INVARIANTS
  DispositionsMatch
  OwnersLearn
  NothingForgotten
