SPECIFICATION Spec
CONSTANTS
  throttleLimit = 3
  MaxIter = 5
  MaxStage = 3
  Moves <- FreeThenPlain
INVARIANTS
  OrdersMatchDag
  ListsStay
CHECK_DEADLOCK FALSE
