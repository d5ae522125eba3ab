SPECIFICATION Spec
CONSTANTS
  NumStrands = 4
  MaxBusy = 1
  Programs <- IntOrDouble
INVARIANTS
  RacesAreFound
  ReadersAreExtreme
