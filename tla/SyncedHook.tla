----------------------------- MODULE SyncedHook -----------------------------
(***************************************************************************)
(* A page with the hook use_<function> that the macro generated: whichever *)
(* of the client's hooks the function's attributes and return type came to *)
(* (SyncedMacro), as a resource (SyncedResource) or a list (AppendClient). *)
(***************************************************************************)
EXTENDS BrowserLink, SyncedMacro

VARIABLES
  hook,                                          \* the hook
  directValue, trigger, fetch, value, received,  \* a resource's state
  status, list, pending, load, snapshot, items, covered  \* a list's state

Resource == INSTANCE SyncedResource
AppendedList == INSTANCE AppendClient

listVars == <<status, list, pending, load, snapshot, items, covered>>
resourceVars == <<directValue, trigger, fetch, value, received>>
vars == <<linkVars, hook, resourceVars, listVars>>

IsList == hook.name = "synced_resource_append"

NoResource ==
  /\ directValue = 0 /\ trigger = FALSE /\ fetch = 0 /\ value = 0 /\ received = <<>>
NoList ==
  /\ status = "none" /\ load = "none" /\ covered = FALSE
  /\ list = <<>> /\ pending = <<>> /\ snapshot = <<>> /\ items = <<>>

Init ==
  /\ hook \in Hooks
  /\ \/ ~IsList /\ Resource!Init /\ NoList
     \/ IsList /\ AppendedList!Init /\ NoResource

Next ==
  \/ ~IsList /\ Resource!Next /\ UNCHANGED listVars
  \/ IsList /\ AppendedList!Next /\ UNCHANGED <<hook, resourceVars>>

(* The fairness of SyncedResource and of AppendClient.                     *)
Spec ==
  /\ Init /\ [][Next]_vars
  /\ WF_vars(~IsList /\ Resource!Forwards /\ UNCHANGED listVars)
  /\ WF_vars(~IsList /\ Resource!Receive /\ UNCHANGED listVars)
  /\ WF_vars(~IsList /\ Resource!Run /\ UNCHANGED listVars)
  /\ WF_vars(IsList /\ AppendedList!Forwards /\ UNCHANGED <<hook, resourceVars>>)
  /\ WF_vars(IsList /\ AppendedList!Receive /\ UNCHANGED <<hook, resourceVars>>)
  /\ WF_vars(IsList /\ AppendedList!Fetch /\ UNCHANGED <<hook, resourceVars>>)
-----------------------------------------------------------------------------
(* The properties of resources and lists, each for its hooks.              *)

(* SettledShowsWhatItHeard of SyncedResource, for Refetch.                 *)
SettledShowsWhatItHeard == ~IsList => Resource!SettledShowsWhatItHeard

(* SettledShowsLatestPayload of SyncedResource, for both Replace hooks.    *)
SettledShowsLatestPayload == ~IsList => Resource!SettledShowsLatestPayload

(* ReplaceFollowsOrderedWriters of SyncedResource, for both Replace hooks. *)
ReplaceFollowsOrderedWriters == ~IsList => Resource!ReplaceFollowsOrderedWriters

(* A Replace resource goes back to the server only for a payload that is   *)
(* broken in itself: the hook the macro chose reads the type that is       *)
(* published, for every return type but a Result by another name, although *)
(* README.md:157 has no exception ("automatically for `Result` return      *)
(* types").                                                                *)
FetchesOnlyForBroken ==
  ~IsList /\ hook.strategy = "replace" /\ Resource!StartFetch
    => received # <<>> /\ received[Len(received)] \in Unreadable
ReplaceFetchesOnlyForBroken == [][hook.known => FetchesOnlyForBroken]_vars

(* EventsAreShown of SyncedResource, for Refetch.                          *)
EventsAreShown == Resource!EventsAreShown

(* ListIsSnapshotThenTail of AppendClient, for Append.                     *)
ListIsSnapshotThenTail == IsList => AppendedList!ListIsSnapshotThenTail

(* CoveredListHasNoHole of AppendClient, for Append.                       *)
CoveredListHasNoHole == IsList => AppendedList!CoveredListHasNoHole

(* ItemsAreListed of AppendClient, for Append.                             *)
ItemsAreListed ==
  \A v \in Versions \ Unreadable :
    IsList /\ OnItsWay(v) ~>
      (status = "ok" /\ v \in Elements(list)) \/ status = "error" \/ ~Connected
=============================================================================
