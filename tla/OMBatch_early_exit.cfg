SPECIFICATION Spec
CONSTANTS
  P = 2
  EnglishLists = {e1}
  HebrewLists = {h1}
  MaxGap = 2
  HeavyGap = 1
  StartGap = 1
  CanSteal = TRUE
  MaxInserts <- FourEach
  MaxQueries <- Never
INVARIANT
  InsertFindsListWhole
