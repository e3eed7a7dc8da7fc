SPECIFICATION HubSpec
\* Every subscription may have been dropped and every event published.
CHECK_DEADLOCK FALSE
CONSTANTS
  s1 = s1
  s2 = s2
  s3 = s3
  all = all
  event = event
  broken = broken
  Sockets = {s1, s2, s3}
  Filters = {all}
  FilterOf <- MCFilterOf
  Kinds = {event, broken}
  Matches <- MCMatches
  Unserializable = {broken}
  MaxEvents = 2
  QueueCapacity = 1
  MaxGenerations = 3
PROPERTY OnlySlowMembersAreDropped
