SPECIFICATION Spec
\* Every connection may be closed and every event published.
CHECK_DEADLOCK FALSE
CONSTANTS
  s1 = s1
  s2 = s2
  all = all
  keyed = keyed
  mine = mine
  other = other
  broken = broken
  Sockets = {s1, s2}
  Prompt = {s1}
  Filters = {all, keyed}
  FilterOf <- MCFilterOf
  Kinds = {mine, other, broken}
  Matches <- MCMatches
  Unserializable = {broken}
  MaxEvents = 2
INVARIANTS
  TypeOK
  SentExactlySinceSubscribed
PROPERTIES
  ImplementsLiveTail
  PromptSocketsAreServed
  GoneBrowsersAreReleased
