---------------------------- MODULE AppendClient ----------------------------
(***************************************************************************)
(* A list with the Append strategy, synced_resource_append of              *)
(* photon-leptos/src/client/mod.rs: one snapshot of the list is fetched,   *)
(* items that arrive meanwhile are buffered, later ones appended.  The     *)
(* list on the server has one item for each change.                        *)
(***************************************************************************)
EXTENDS BrowserLink

VARIABLES
  status,    \* data_signal: None, Some(Ok), or Some(Err)
  list,      \* the list while status is "ok"
  pending,   \* the buffered items
  load,      \* the fetch of the snapshot: asked, read, or done
  snapshot,  \* the list it read
  items,     \* history: the readable items the browser took, in order
  covered    \* history: the stream ran when the snapshot was read, and since

clientVars == <<status, list, pending, load, snapshot, items, covered>>
vars == <<store, writers, log, link, tail, wire, losses,
          status, list, pending, load, snapshot, items, covered>>

Init ==
  /\ LinkInit
  /\ status = "none"
  /\ list = <<>>
  /\ pending = <<>>
  /\ load = "asked"
  /\ snapshot = <<>>
  /\ items = <<>>
  /\ covered = FALSE

ServerReads ==
  /\ load = "asked"
  /\ load' = "read"
  /\ snapshot' = [n \in 1 .. store |-> n]
  /\ covered' = (link = "tailing")
  /\ UNCHANGED <<linkVars, status, list, pending, items>>

(* Faulty variant of FetchOk: what arrived meanwhile is thought to be in   *)
(* the snapshot.                                                           *)
FetchOkForgets ==
  /\ load = "read"
  /\ load' = "done"
  /\ status' = "ok"
  /\ list' = snapshot
  /\ pending' = <<>>
  /\ UNCHANGED <<linkVars, snapshot, items, covered>>

(* The fetch returns Ok: the buffer is flushed behind the snapshot.        *)
FetchOk ==
  /\ load = "read"
  /\ load' = "done"
  /\ status' = "ok"
  /\ list' = snapshot \o pending
  /\ pending' = <<>>
  /\ UNCHANGED <<linkVars, snapshot, items, covered>>

(* It returns Err, for good: the buffer is thrown away.                    *)
FetchFails ==
  /\ load # "done"
  /\ load' = "done"
  /\ status' = "error"
  /\ pending' = <<>>
  /\ UNCHANGED <<linkVars, list, snapshot, items, covered>>

(* Faulty variant of AddItem: no buffer, an item needs a list.             *)
AddItemToList(v) ==
  /\ list' = IF status = "ok" THEN Append(list, v) ELSE list
  /\ UNCHANGED pending

AddItem(v) ==
  CASE status = "none" -> pending' = Append(pending, v) /\ UNCHANGED list
    [] status = "error" -> UNCHANGED <<pending, list>>
    [] status = "ok" -> list' = Append(list, v) /\ UNCHANGED pending

(* The callback of subscribe_ws; an unreadable payload is only logged.     *)
Receive ==
  /\ \E v \in Versions :
       /\ Take(v)
       /\ IF v \in Unreadable
          THEN UNCHANGED <<list, pending, items>>
          ELSE AddItem(v) /\ items' = Append(items, v)
  /\ UNCHANGED <<status, load, snapshot, covered>>

Disconnect ==
  /\ LoseLink \/ Close
  /\ covered' = FALSE
  /\ UNCHANGED <<status, list, pending, load, snapshot, items>>

Fetch == ServerReads \/ FetchOk \/ FetchFails

Next ==
  \/ LinkStep /\ UNCHANGED clientVars
  \/ Disconnect \/ Fetch \/ Receive

Forwards == Forward /\ UNCHANGED clientVars

(* As for the other hooks (module SyncedResource).                         *)
Spec ==
  /\ Init /\ [][Next]_vars
  /\ WF_vars(Forwards)
  /\ WF_vars(Receive)
  /\ WF_vars(Fetch)
-----------------------------------------------------------------------------
(* Properties.                                                             *)

(* The list is the snapshot followed by every readable item received since *)
(* the component was mounted, each once, in the order they came, whether   *)
(* they came before, during or after the fetch: the hand-over from the     *)
(* buffer to the list drops, repeats and reorders nothing.                 *)
ListIsSnapshotThenTail == status = "ok" => list = snapshot \o items

(* If the stream ran since before the snapshot was read, the live tail     *)
(* leaves no hole: with every event taken, the list has each item that was *)
(* published and readable, from the snapshot or from the tail.             *)
CoveredListHasNoHole ==
  status = "ok" /\ covered /\ link = "tailing" /\ tail = Len(log) /\ wire = <<>>
    => Elements(log) \ Unreadable \subseteq Elements(list)

(* An item on its way is in the list in the end, in whatever state the     *)
(* snapshot is when it comes, unless the snapshot fails or the connection  *)
(* is lost or closed.                                                      *)
ItemsAreListed ==
  \A v \in Versions \ Unreadable :
    OnItsWay(v) ~> (status = "ok" /\ v \in Elements(list)) \/ status = "error" \/ ~Connected
=============================================================================
