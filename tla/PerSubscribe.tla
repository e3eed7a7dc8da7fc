---------------------------- MODULE PerSubscribe ----------------------------
(***************************************************************************)
(* The default fanout, handle_socket of photon-axum/src/axum_ws/ws.rs: one *)
(* handler task per connection with a Photon stream of its own.  The task  *)
(* starts when the upgrade completes, after the browser has seen its       *)
(* connection open, and subscribes in its first step.                      *)
(***************************************************************************)
EXTENDS Topic

CONSTANTS
  Sockets,   \* the connections ever made
  FilterOf,  \* the key filter of each
  Prompt     \* those whose browser keeps reading

ASSUME PerSubscribeAssumption ==
  /\ FilterOf \in [Sockets -> Filters]
  /\ Prompt \subseteq Sockets

VARIABLES
  log,     \* the topic (Photon)
  conn,    \* where the handler of the connection is
  peer,    \* whether the browser's side is still open
  start,   \* length of the log when the handler subscribed
  cursor,  \* position of its stream
  view     \* frames sent with success

vars == <<log, conn, peer, start, cursor, view>>

Wanted(s) == Forwarded(log, FilterOf[s])

Init ==
  /\ log = <<>>
  /\ conn = [s \in Sockets |-> "none"]
  /\ peer = [s \in Sockets |-> "open"]
  /\ start = [s \in Sockets |-> 0]
  /\ cursor = [s \in Sockets |-> 0]
  /\ view = [s \in Sockets |-> <<>>]

Publish(e) ==
  /\ Len(log) < MaxEvents
  /\ log' = Append(log, e)
  /\ UNCHANGED <<conn, peer, start, cursor, view>>

Goes(s, place) == conn' = [conn EXCEPT ![s] = place]

(* on_upgrade: the browser's connection is open, the task is spawned.      *)
Upgrade(s) ==
  /\ conn[s] = "none"
  /\ Goes(s, "upgraded")
  /\ UNCHANGED <<log, peer, start, cursor, view>>

(* Faulty variant of Subscribe: the stream replays the topic.              *)
SubscribeFromStart(s) ==
  /\ conn[s] = "upgraded"
  /\ Goes(s, "select")
  /\ start' = [start EXCEPT ![s] = Len(log)]
  /\ UNCHANGED <<log, peer, cursor, view>>

Subscribe(s) ==
  /\ conn[s] = "upgraded"
  /\ Goes(s, "select")
  /\ start' = [start EXCEPT ![s] = Len(log)]
  /\ cursor' = [cursor EXCEPT ![s] = Len(log)]
  /\ UNCHANGED <<log, peer, view>>

(* An event whose envelope does not serialize is logged and skipped.       *)
AfterEvent(i) == IF log[i] \in Unserializable THEN "select" ELSE "sending"

(* Faulty variants of TakeEvent.  The stream forgets its key filter ...    *)
TakeEventOfAnyKey(s) ==
  /\ conn[s] = "select"
  /\ cursor[s] < Len(log)
  /\ cursor' = [cursor EXCEPT ![s] = @ + 1]
  /\ Goes(s, "sending")
  /\ UNCHANGED <<log, peer, start, view>>

(* ... or keeps only the latest event, like a watch channel.               *)
TakeLatestEvent(s) ==
  /\ conn[s] = "select"
  /\ \E i \in Matching(log, FilterOf[s]) :
       /\ \A j \in Matching(log, FilterOf[s]) : j <= i
       /\ i > cursor[s]
       /\ cursor' = [cursor EXCEPT ![s] = i]
       /\ Goes(s, AfterEvent(i))
  /\ UNCHANGED <<log, peer, start, view>>

(* The stream arm of the select: an event.                                 *)
TakeEvent(s) ==
  /\ conn[s] = "select"
  /\ \E i \in 1 .. Len(log) :
       /\ IsNext(Matching(log, FilterOf[s]), cursor[s], i)
       /\ cursor' = [cursor EXCEPT ![s] = i]
       /\ Goes(s, AfterEvent(i))
  /\ UNCHANGED <<log, peer, start, view>>

(* The stream arm: an error, or the end of the stream.                     *)
StreamEnds(s) ==
  /\ conn[s] = "select"
  /\ Goes(s, "closing")
  /\ UNCHANGED <<log, peer, start, cursor, view>>

(* While a send is awaited neither arm of the select is polled.            *)
SendOk(s) ==
  /\ conn[s] = "sending"
  /\ Goes(s, "select")
  /\ view' = [view EXCEPT ![s] = Append(@, cursor[s])]
  /\ UNCHANGED <<log, peer, start, cursor>>

(* Faulty variant of SendFails: the handler goes on after a failed send.   *)
SendFailsAndContinues(s) ==
  /\ conn[s] = "sending"
  /\ peer[s] = "gone"
  /\ Goes(s, "select")
  /\ UNCHANGED <<log, peer, start, cursor, view>>

SendFails(s) ==
  /\ conn[s] = "sending"
  /\ peer[s] = "gone"
  /\ Goes(s, "closing")
  /\ UNCHANGED <<log, peer, start, cursor, view>>

PeerGoes(s) ==
  /\ conn[s] # "none"
  /\ peer[s] = "open"
  /\ peer' = [peer EXCEPT ![s] = "gone"]
  /\ UNCHANGED <<log, conn, start, cursor, view>>

(* Faulty variant of SeePeerGone: a close frame is ignored too.            *)
IgnorePeer(s) ==
  /\ conn[s] = "select"
  /\ peer[s] = "gone"
  /\ UNCHANGED vars

(* The client arm of the select.  Any other message is ignored.            *)
SeePeerGone(s) ==
  /\ conn[s] = "select"
  /\ peer[s] = "gone"
  /\ Goes(s, "closing")
  /\ UNCHANGED <<log, peer, start, cursor, view>>

(* sink.close() returns and the handler drops its stream.                  *)
CloseSink(s) ==
  /\ conn[s] = "closing"
  /\ Goes(s, "closed")
  /\ UNCHANGED <<log, peer, start, cursor, view>>

Handler(s) ==
  \/ Subscribe(s) \/ TakeEvent(s) \/ SendOk(s) \/ SendFails(s)
  \/ SeePeerGone(s) \/ CloseSink(s)

Next ==
  \/ \E e \in Kinds : Publish(e)
  \/ \E s \in Sockets : Upgrade(s) \/ Handler(s) \/ StreamEnds(s) \/ PeerGoes(s)

(* The runtime polls the handler of a browser that keeps reading.          *)
Spec == Init /\ [][Next]_vars /\ \A s \in Prompt : WF_vars(Handler(s))
-----------------------------------------------------------------------------
(* Properties.                                                             *)

(* Type correctness; a stream is never ahead of the topic.                 *)
TypeOK ==
  /\ log \in Seq(Kinds)
  /\ conn \in [Sockets -> {"none", "upgraded", "select", "sending", "closing", "closed"}]
  /\ peer \in [Sockets -> {"open", "gone"}]
  /\ start \in [Sockets -> Nat] /\ cursor \in [Sockets -> Nat]
  /\ view \in [Sockets -> Seq(Nat)]
  /\ \A s \in Sockets : start[s] <= cursor[s] /\ cursor[s] <= Len(log)

(* Unlike a hub member, a connection with a stream of its own has an exact *)
(* window: it was sent the events of its filter since it subscribed, all   *)
(* of them up to the last it looked at and none from before, whatever      *)
(* failed to serialize in between.                                         *)
SentExactlySinceSubscribed ==
  \A s \in Sockets :
    LET due == {i \in Wanted(s) : start[s] < i /\ i <= cursor[s]}
        got == {view[s][n] : n \in 1 .. Len(view[s])}
    IN /\ conn[s] = "select" => got = due
       /\ conn[s] = "sending" => got = due \ {cursor[s]} /\ cursor[s] \in due
       /\ conn[s] \in {"closing", "closed"} => got \subseteq due

(* What the browser was sent is a live tail.                               *)
TailConn(s) ==
  CASE conn[s] = "none" -> "none"
    [] conn[s] \in {"upgraded", "select", "sending"} -> "open"
    [] OTHER -> "closed"
Browser == INSTANCE LiveTail WITH conn <- [s \in Sockets |-> TailConn(s)]
ImplementsLiveTail == Browser!Spec

(* A prompt connection is sent each event published since it subscribed,   *)
(* or it closes; and once its browser is gone it closes and gives its      *)
(* stream back, whichever arm of the select wins and whether a send was    *)
(* awaited or not.  (The select of tokio polls its arms in random order,   *)
(* so the client arm is not starved; here MaxEvents bounds the others.)    *)
PromptSocketsAreServed ==
  \A s \in Prompt : \A i \in 1 .. MaxEvents :
    conn[s] = "select" /\ i \in Wanted(s) /\ start[s] < i
      ~> conn[s] = "closed" \/ \E n \in 1 .. Len(view[s]) : view[s][n] = i
GoneBrowsersAreReleased ==
  \A s \in Prompt : peer[s] = "gone" ~> conn[s] = "closed"
=============================================================================
