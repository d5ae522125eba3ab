SPECIFICATION FairSpec
CONSTANTS
  P = 2
  EnglishLists = {e1}
  HebrewLists = {h1}
  MaxGap = 2
  HeavyGap = 1
  StartGap = 1
  CanSteal = FALSE
  MaxInserts <- ThreeEach
  MaxQueries <- Never
INVARIANTS
  TypeOK
  RelabelExcludesInserts
  BatchCoversFailedInserts
  HeavyListsAreQueued
PROPERTIES
  InsertsReturn
