SPECIFICATION Spec
CONSTANTS
  NumStrands = 3
  MaxBusy = 3
  Programs <- LastInt
INVARIANTS
  TypeOK
  NoFalseAlarm
  EntriesAreWhole
  AccessesAreKept
