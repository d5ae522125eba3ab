SPECIFICATION FairSpec
CONSTANTS
  P = 3
  EnglishLists = {e1}
  HebrewLists = {h1}
  MaxGap = 2
  HeavyGap = 1
  StartGap = 1
  CanSteal = TRUE
  MaxInserts <- OneFails
  MaxQueries <- OneAsks
INVARIANTS
  NoFrameLeftBehind
  NoInsertDuringBatch
  AcceptedQueriesAreConsistent
PROPERTIES
  RelabelIsAtomic
