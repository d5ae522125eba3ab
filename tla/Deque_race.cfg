SPECIFICATION FairSpec
CONSTANTS
  Owner = owner
  Thieves = {t1, t2}
  ltq_limit = 3
  MaxPush = 3
INVARIANTS
  AtMostOnePasses
  ExcFollowsHead
  EmptyIsLeftAlone
PROPERTIES
  OwnerGoesOn
  ImplementsQueue
