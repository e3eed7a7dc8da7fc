SPECIFICATION HubSpec
\* Every subscription may have been dropped and every event published.
CHECK_DEADLOCK FALSE
SYMMETRY Symmetry
CONSTANTS
  s1 = s1
  s2 = s2
  s3 = s3
  all = all
  event = event
  broken = broken
  Sockets = {s1, s2, s3}
  Filters = {all}
  FilterOf <- MCFilterOf
  Kinds = {event}
  Matches <- MCMatches
  Unserializable = {}
  MaxEvents = 3
  QueueCapacity = 1
  MaxGenerations = 3
INVARIANTS
  HubTypeOK
  RegistryMatchesReaders
  EmptyGroupIsBeingRemoved
  MembersAreLive
  FramesAreContiguous
  MembersMissNothing
