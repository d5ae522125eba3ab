SPECIFICATION Spec
CONSTANTS
  NumStrands = 3
  MaxBusy = 2
  Programs <- TestMem
INVARIANT
  RacesAreFound
