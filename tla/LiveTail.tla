------------------------------ MODULE LiveTail ------------------------------
(***************************************************************************)
(* What a synced WebSocket promises its browser, whichever fanout serves   *)
(* it: a live tail.  From some event on, the connection is sent every      *)
(* event of its filter, each once, in publish order, until it is closed;   *)
(* nothing is promised about the events before the first one sent, and a   *)
(* closed connection is sent nothing more.                                 *)
(***************************************************************************)
EXTENDS Topic

CONSTANTS Sockets, FilterOf  \* as in the modules that implement this one

VARIABLES log, view, conn

vars == <<log, view, conn>>

Init ==
  /\ log = <<>>
  /\ view = [s \in Sockets |-> <<>>]
  /\ conn = [s \in Sockets |-> "none"]

Publish(e) ==
  /\ Len(log) < MaxEvents
  /\ log' = Append(log, e)
  /\ UNCHANGED <<view, conn>>

Open(s) ==
  /\ conn[s] = "none"
  /\ conn' = [conn EXCEPT ![s] = "open"]
  /\ UNCHANGED <<log, view>>

(* The first frame may be any event of the filter; each later frame is the *)
(* event right after the previous one.                                     *)
Send(s, i) ==
  /\ conn[s] = "open"
  /\ i \in Forwarded(log, FilterOf[s])
  /\ view[s] # <<>> => IsNext(Forwarded(log, FilterOf[s]), view[s][Len(view[s])], i)
  /\ view' = [view EXCEPT ![s] = Append(@, i)]
  /\ UNCHANGED <<log, conn>>

Close(s) ==
  /\ conn[s] = "open"
  /\ conn' = [conn EXCEPT ![s] = "closed"]
  /\ UNCHANGED <<log, view>>

Next ==
  \/ \E e \in Kinds : Publish(e)
  \/ \E s \in Sockets : Open(s) \/ Close(s) \/ \E i \in 1 .. Len(log) : Send(s, i)

Spec == Init /\ [][Next]_vars
=============================================================================
