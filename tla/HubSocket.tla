----------------------------- MODULE HubSocket -----------------------------
(***************************************************************************)
(* The WebSocket handler of the broadcast-hub fanout, handle_socket_hub of *)
(* photon-axum/src/axum_ws/ws.rs, composed with the hub: each connection   *)
(* is one handler task that joins the hub, forwards the frames of its      *)
(* subscription to the browser and watches the browser's side, and leaves  *)
(* when either ends.  A browser may stop reading (a send then never        *)
(* completes), or go away (a send then may fail) at any moment.            *)
(***************************************************************************)
EXTENDS BroadcastHub

CONSTANT Prompt  \* the connections whose browser keeps reading

ASSUME HubSocketAssumption == Prompt \subseteq Sockets

VARIABLES
  conn,  \* where the handler of the connection is
  peer,  \* whether the browser's side is still open
  sent   \* frames the handler sent with success

socketVars == <<conn, peer, sent>>
vars == <<log, group, nextGeneration, reader, phase, frames, taken,
          conn, peer, sent>>

Init ==
  /\ HubInit
  /\ conn = [s \in Sockets |-> "none"]
  /\ peer = [s \in Sockets |-> "open"]
  /\ sent = [s \in Sockets |-> 0]

(* The upgrade completed: split the socket and join.                       *)
Accept(s) ==
  /\ conn[s] = "none"
  /\ Join(s)
  /\ conn' = [conn EXCEPT ![s] = "select"]
  /\ UNCHANGED <<peer, sent>>

(* The recv arm of the select: a frame, now awaiting sink.send.            *)
TakeFrame(s) ==
  /\ conn[s] = "select"
  /\ Receive(s)
  /\ conn' = [conn EXCEPT ![s] = "sending"]
  /\ UNCHANGED <<peer, sent>>

(* The recv arm: the channel yields None.                                  *)
HubClosed(s) ==
  /\ conn[s] = "select"
  /\ ChannelClosed(s)
  /\ conn' = [conn EXCEPT ![s] = "closing"]
  /\ UNCHANGED <<hubVars, peer, sent>>

(* While a send is awaited neither arm of the select is polled.            *)
SendOk(s) ==
  /\ conn[s] = "sending"
  /\ conn' = [conn EXCEPT ![s] = "select"]
  /\ sent' = [sent EXCEPT ![s] = @ + 1]
  /\ UNCHANGED <<hubVars, peer>>

SendFails(s) ==
  /\ conn[s] = "sending"
  /\ peer[s] = "gone"
  /\ conn' = [conn EXCEPT ![s] = "closing"]
  /\ UNCHANGED <<hubVars, peer, sent>>

(* The browser's side: a close frame, the end of its stream or an error.   *)
PeerGoes(s) ==
  /\ conn[s] # "none"
  /\ peer[s] = "open"
  /\ peer' = [peer EXCEPT ![s] = "gone"]
  /\ UNCHANGED <<hubVars, conn, sent>>

(* The client arm of the select.  Any other message is ignored.            *)
SeePeerGone(s) ==
  /\ conn[s] = "select"
  /\ peer[s] = "gone"
  /\ conn' = [conn EXCEPT ![s] = "closing"]
  /\ UNCHANGED <<hubVars, peer, sent>>

(* sink.close() returns, whatever its result.                              *)
CloseSink(s) ==
  /\ conn[s] = "closing"
  /\ conn' = [conn EXCEPT ![s] = "closed"]
  /\ UNCHANGED <<hubVars, peer, sent>>

(* Faulty variant of DropSubscription: the hub is left before the sink is  *)
(* closed.                                                                 *)
DropBeforeClose(s) ==
  /\ conn[s] = "closing"
  /\ Leave(s) \/ DropReceiver(s)
  /\ UNCHANGED socketVars

(* The handler returns and drops its subscription.                         *)
DropSubscription(s) ==
  /\ conn[s] = "closed"
  /\ Leave(s) \/ DropReceiver(s)
  /\ UNCHANGED socketVars

Handler(s) ==
  \/ TakeFrame(s) \/ HubClosed(s) \/ SendOk(s) \/ SendFails(s)
  \/ SeePeerGone(s) \/ CloseSink(s) \/ DropSubscription(s)

Hub == \E g \in Generations : ReaderStep(g) \/ StreamEnds(g) \/ Cancel(g)

Next ==
  \/ (\E e \in Kinds : Publish(e)) /\ UNCHANGED socketVars
  \/ Hub /\ UNCHANGED socketVars
  \/ \E s \in Sockets : Accept(s) \/ PeerGoes(s) \/ Handler(s)

(* The runtime polls every ready task: a reader takes its next step, an    *)
(* aborted one is dropped at an await, and so does the handler of every    *)
(* browser that keeps reading.  A browser that does not read owes nothing, *)
(* nor do streams (they need not end), browsers (they need not leave) and  *)
(* publishers.                                                             *)
Fairness ==
  /\ \A g \in Generations : WF_vars(ReaderStep(g) /\ UNCHANGED socketVars)
  /\ \A g \in Generations : WF_vars(Cancel(g) /\ UNCHANGED socketVars)
  /\ \A s \in Prompt : WF_vars(Handler(s))

Spec == Init /\ [][Next]_vars
FairSpec == Spec /\ Fairness
-----------------------------------------------------------------------------
(* Properties.                                                             *)

(* Type correctness, and what each place of the handler means for its      *)
(* subscription: it is held from the join until the handler returns, and   *)
(* one received frame is on its way out exactly while a send is awaited.   *)
TypeOK ==
  /\ HubTypeOK
  /\ conn \in [Sockets -> {"none", "select", "sending", "closing", "closed"}]
  /\ peer \in [Sockets -> {"open", "gone"}]
  /\ sent \in [Sockets -> Nat]
  /\ \A s \in Sockets :
       /\ phase[s] = "none" <=> conn[s] = "none"
       /\ phase[s] \in {"left", "dropped"} => conn[s] = "closed"
       /\ conn[s] \in {"none", "select"} => sent[s] = taken[s]
       /\ conn[s] = "sending" => sent[s] + 1 = taken[s]
       /\ sent[s] <= taken[s] /\ taken[s] <= sent[s] + 1

(* What the browser was sent is a live tail: the composition of handlers,  *)
(* hub, readers and channels implements LiveTail.                          *)
TailConn(s) ==
  CASE conn[s] = "none" -> "none"
    [] conn[s] \in {"select", "sending"} -> "open"
    [] OTHER -> "closed"
Browser == INSTANCE LiveTail WITH
  view <- [s \in Sockets |-> SubSeq(frames[s], 1, sent[s])],
  conn <- [s \in Sockets |-> TailConn(s)]
ImplementsLiveTail == Browser!Spec

(* One slow browser holds up nobody else: an event published after the     *)
(* group's reader subscribed, while a prompt connection is its member,     *)
(* reaches that browser, or that connection closes, although other         *)
(* connections never complete a send.                                      *)
Due(s, i) ==
  /\ Registered(s)
  /\ i \in Forwarded(log, FilterOf[s])
  /\ LET r == reader[group[FilterOf[s]].generation]
     IN \/ r.pc \in {"next", "fanout"} /\ r.cursor < i
        \/ r.pc = "snapshot" /\ r.cursor <= i
Delivered(s, i) == \E n \in 1 .. sent[s] : frames[s][n] = i
PromptSocketsAreServed ==
  \A s \in Prompt : \A i \in 1 .. MaxEvents :
    Due(s, i) ~> Delivered(s, i) \/ conn[s] = "closed"

(* A prompt connection whose browser went away, or that the hub dropped,   *)
(* gives its subscription back; and a reader whose group was taken down is *)
(* dropped in the end.  Nothing that stopped keeps a Photon subscription.  *)
Abandoned(s) == peer[s] = "gone" \/ (phase[s] = "live" /\ ~Registered(s))
AbandonedSocketsAreReleased ==
  \A s \in Prompt : Abandoned(s) ~> phase[s] = "dropped"
StoppedReadersFinish ==
  \A g \in Generations : reader[g].aborted ~> reader[g].pc = "done"
=============================================================================
