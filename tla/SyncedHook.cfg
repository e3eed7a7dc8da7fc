SPECIFICATION Spec
\* Every change may have been made and every connection lost.
CHECK_DEADLOCK FALSE
CONSTANTS
  MaxWrites = 3
  MaxLosses = 1
  Unreadable = {2}
INVARIANTS
  SettledShowsWhatItHeard
  SettledShowsLatestPayload
  ReplaceFollowsOrderedWriters
  ListIsSnapshotThenTail
  CoveredListHasNoHole
PROPERTIES
  ReplaceFetchesOnlyForBroken
  EventsAreShown
  ItemsAreListed
