SPECIFICATION FairSpec
\* Every connection may be gone and every event published.
CHECK_DEADLOCK FALSE
CONSTANTS
  s1 = s1
  s2 = s2
  keyed = keyed
  mine = mine
  other = other
  broken = broken
  Sockets = {s1, s2}
  Prompt = {s1}
  Filters = {keyed}
  FilterOf <- MCFilterOf
  Kinds = {mine, other, broken}
  Matches <- MCMatches
  Unserializable = {broken}
  MaxEvents = 2
  QueueCapacity = 1
  MaxGenerations = 2
INVARIANTS
  TypeOK
PROPERTIES
  ImplementsLiveTail
  PromptSocketsAreServed
  AbandonedSocketsAreReleased
  StoppedReadersFinish
