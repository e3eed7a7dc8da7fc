---------------------------- MODULE BrowserLink ----------------------------
(***************************************************************************)
(* What lies between an application's state on the server and one synced   *)
(* resource in a browser.  A server function changes the state and then    *)
(* publishes the change (examples/replace-and-append-demo/src/synced.rs);  *)
(* the resource's WebSocket carries the published changes as a live tail   *)
(* (module LiveTail), one connection after another.  The state is the      *)
(* number of changes made to it; the payload of an event is the change's   *)
(* number.                                                                 *)
(***************************************************************************)
EXTENDS Integers, Sequences, FiniteSets

CONSTANTS
  MaxWrites,  \* bound: changes made in a behaviour
  MaxLosses,  \* bound: connections lost in a behaviour
  Unreadable  \* the changes whose payload does not deserialize

ASSUME BrowserLinkAssumption ==
  MaxWrites \in Nat /\ MaxLosses \in Nat /\ Unreadable \subseteq 1 .. MaxWrites

VARIABLES
  store,    \* changes made to the application's state
  writers,  \* those whose server function has still to publish
  log,      \* the changes published, in order
  link,     \* the connection: down, open (handshake done), tailing, or closed
  tail,     \* position in log of its stream
  wire,     \* changes sent and not yet received, in order
  losses    \* connections lost

linkVars == <<store, writers, log, link, tail, wire, losses>>

Versions == 1 .. MaxWrites

LinkInit ==
  /\ store = 0
  /\ writers = {}
  /\ log = <<>>
  /\ link = "down"
  /\ tail = 0
  /\ wire = <<>>
  /\ losses = 0

(* The state changes under the store's lock ...                            *)
Write ==
  /\ store < MaxWrites
  /\ store' = store + 1
  /\ writers' = writers \cup {store + 1}
  /\ UNCHANGED <<log, link, tail, wire, losses>>

(* ... and is published after it, in any order with other writers.         *)
Publish(v) ==
  /\ v \in writers
  /\ writers' = writers \ {v}
  /\ log' = Append(log, v)
  /\ UNCHANGED <<store, link, tail, wire, losses>>

(* Publishing fails; the change stays.                                     *)
PublishFails(v) ==
  /\ v \in writers
  /\ writers' = writers \ {v}
  /\ UNCHANGED <<store, log, link, tail, wire, losses>>

(* The first connection, or the retry 3 s after a loss, without a limit.   *)
Handshake ==
  /\ link = "down"
  /\ link' = "open"
  /\ UNCHANGED <<store, writers, log, tail, wire, losses>>

(* The server's handler subscribes after the browser saw the connection.   *)
StartTail ==
  /\ link = "open"
  /\ link' = "tailing"
  /\ tail' = Len(log)
  /\ UNCHANGED <<store, writers, log, wire, losses>>

Forward ==
  /\ link = "tailing"
  /\ tail < Len(log)
  /\ tail' = tail + 1
  /\ wire' = Append(wire, log[tail + 1])
  /\ UNCHANGED <<store, writers, log, link, losses>>

(* The connection breaks: the network, a slow browser that the hub drops,  *)
(* a stream that ended.  What it carried is lost.                          *)
LoseLink ==
  /\ link \in {"open", "tailing"}
  /\ losses < MaxLosses
  /\ link' = "down"
  /\ wire' = <<>>
  /\ losses' = losses + 1
  /\ UNCHANGED <<store, writers, log, tail>>

(* PhotonWsHandle::close, by the application or when the component is      *)
(* unmounted: no message any more, and no reconnect.                       *)
Close ==
  /\ link # "closed"
  /\ link' = "closed"
  /\ wire' = <<>>
  /\ UNCHANGED <<store, writers, log, tail, losses>>

(* The browser takes the next message, v.                                  *)
Take(v) ==
  /\ wire # <<>>
  /\ v = Head(wire)
  /\ wire' = Tail(wire)
  /\ UNCHANGED <<store, writers, log, link, tail, losses>>

(* What happens without a client's notice.                                 *)
LinkStep ==
  \/ Write
  \/ \E v \in Versions : Publish(v) \/ PublishFails(v)
  \/ Handshake \/ StartTail \/ Forward
-----------------------------------------------------------------------------
(* Vocabulary of the clients' properties.                                  *)

Elements(s) == {s[n] : n \in 1 .. Len(s)}
Connected == link \in {"open", "tailing"}
OnItsWay(v) == link = "tailing" /\ \E n \in tail + 1 .. Len(log) : log[n] = v
=============================================================================
