--------------------------- MODULE HubSocketProof ---------------------------
(***************************************************************************)
(* Proofs about HubSocket, for every number of connections, filters,       *)
(* events and reader generations: what a handler forwards from its hub     *)
(* subscription is a live tail, as what the default fanout sends is.       *)
(***************************************************************************)
EXTENDS HubSocket, BroadcastHubProof, SequenceTheorems

USE HubSocketAssumption, HubAssumption, TopicAssumption

(* A step of the composition is a step of the hub, or none.                *)
LEMMA HubMoves == [Next]_vars => [HubNext]_hubVars
<1> SUFFICES ASSUME [Next]_vars PROVE [HubNext]_hubVars
  OBVIOUS
<1>1. CASE UNCHANGED vars
  BY <1>1 DEF vars, hubVars
<1>2. ASSUME NEW e \in Kinds, Publish(e) PROVE HubNext
  BY <1>2 DEF HubNext
<1>3. CASE Hub
  BY <1>3 DEF Hub, HubNext
<1>4. ASSUME NEW s \in Sockets,
             Accept(s) \/ TakeFrame(s) \/ DropSubscription(s)
      PROVE  HubNext
  BY <1>4 DEF Accept, TakeFrame, DropSubscription, HubNext
<1>5. ASSUME NEW s \in Sockets,
             HubClosed(s) \/ SendOk(s) \/ SendFails(s) \/ PeerGoes(s) \/ SeePeerGone(s)
             \/ CloseSink(s)
      PROVE  UNCHANGED hubVars
  BY <1>5 DEF HubClosed, SendOk, SendFails, PeerGoes, SeePeerGone, CloseSink, hubVars
<1>6. QED BY <1>1, <1>2, <1>3, <1>4, <1>5 DEF Next, Handler

(* What the hub's own steps leave to the handlers.                         *)
LEMMA HubLeaves ==
  ASSUME Hub \/ \E e \in Kinds : Publish(e)
  PROVE  UNCHANGED <<phase, taken>>
  BY DEF Hub, ReaderStep, Publish, Subscribe, NextEvent, Snapshot, TrySend, KeepAll, Prune,
         Remove, StreamEnds, Cancel, channelVars

(* The handlers use the hub as its module says, so all that is proved of   *)
(* the hub holds of it behind them (WsBroadcastHub, hub.rs).               *)
THEOREM HandlersUseTheHub == Spec => HubSpec
<1>1. Init => HubInit
  BY DEF Init
<1>2. QED BY <1>1, HubMoves, PTL DEF Spec, HubSpec

LEMMA SocketTypeInit == Init => TypeOK
  BY TypeInit DEF Init, HubInit, TypeOK

LEMMA SocketTypeStep == TypeOK /\ [Next]_vars => TypeOK'
<1> SUFFICES ASSUME TypeOK, [Next]_vars PROVE TypeOK'
  OBVIOUS
<1>0. HubTypeOK /\ HubTypeOK'
  BY HubMoves, TypeStep DEF TypeOK
<1>1. /\ phase \in [Sockets -> {"none", "live", "left", "dropped"}]
      /\ taken \in [Sockets -> Nat]
  BY <1>0 DEF HubTypeOK
<1>2. CASE UNCHANGED <<phase, taken, socketVars>>
  BY <1>0, <1>2 DEF TypeOK, socketVars
<1>3. ASSUME NEW s \in Sockets, Accept(s) PROVE TypeOK'
  BY <1>0, <1>1, <1>3 DEF Accept, Join, channelVars, TypeOK
<1>4. ASSUME NEW s \in Sockets, TakeFrame(s) PROVE TypeOK'
  BY <1>0, <1>1, <1>4 DEF TakeFrame, Receive, TypeOK
<1>5. ASSUME NEW s \in Sockets, HubClosed(s) \/ SendFails(s) \/ SeePeerGone(s) \/ CloseSink(s)
      PROVE  TypeOK'
  BY <1>0, <1>1, <1>5 DEF HubClosed, SendFails, SeePeerGone, CloseSink, hubVars, TypeOK
<1>6. ASSUME NEW s \in Sockets, SendOk(s) PROVE TypeOK'
  BY <1>0, <1>1, <1>6 DEF SendOk, hubVars, TypeOK
<1>7. ASSUME NEW s \in Sockets, PeerGoes(s) PROVE TypeOK'
  BY <1>0, <1>1, <1>7 DEF PeerGoes, hubVars, TypeOK
<1>8. ASSUME NEW s \in Sockets, DropSubscription(s) PROVE TypeOK'
  <2>1. /\ phase' = [phase EXCEPT ![s] = phase'[s]] /\ phase'[s] \in {"left", "dropped"}
        /\ phase[s] # "none" /\ conn[s] = "closed" /\ UNCHANGED <<taken, conn, peer, sent>>
    BY <1>1, <1>8 DEF DropSubscription, Leave, DropReceiver, channelVars, socketVars
  <2>2. QED BY <1>0, <1>1, <2>1 DEF TypeOK
<1>9. QED
  BY <1>2, <1>3, <1>4, <1>5, <1>6, <1>7, <1>8, HubLeaves
  DEF Next, Handler, vars, socketVars

(* Type correctness, and what the handler of a connection has forwarded is *)
(* all it took, but for the one frame it may be sending (handle_socket_hub,*)
(* ws.rs).                                                                 *)
THEOREM SocketTypeCorrect == Spec => []TypeOK
  BY SocketTypeInit, SocketTypeStep, PTL DEF Spec
-----------------------------------------------------------------------------
(* The live tail.                                                          *)

View(s) == SubSeq(frames[s], 1, sent[s])
Views == [s \in Sockets |-> View(s)]
TailConns == [s \in Sockets |-> TailConn(s)]

(* What was forwarded does not change as more frames are queued.           *)
LEMMA PrefixStays ==
  ASSUME NEW q \in Seq(Nat), NEW e \in Nat, NEW n \in Nat, n <= Len(q)
  PROVE  SubSeq(Append(q, e), 1, n) = SubSeq(q, 1, n)
<1>1. Append(q, e) \in Seq(Nat) /\ \A i \in 1 .. n : Append(q, e)[i] = q[i]
  BY AppendProperties
<1>2. \A i \in 1 .. n : q[i] \in Nat /\ Append(q, e)[i] \in Nat
  BY <1>1
<1>3. /\ SubSeq(q, 1, n) \in Seq(Nat) /\ SubSeq(Append(q, e), 1, n) \in Seq(Nat)
      /\ Len(SubSeq(q, 1, n)) = n /\ Len(SubSeq(Append(q, e), 1, n)) = n
      /\ \A i \in 1 .. n : SubSeq(q, 1, n)[i] = SubSeq(Append(q, e), 1, n)[i]
  BY <1>1, <1>2
<1>4. QED BY <1>3, SeqEqual

(* Forwarding one more frame.                                              *)
LEMMA PrefixGrows ==
  ASSUME NEW q \in Seq(Nat), NEW n \in Nat, n < Len(q)
  PROVE  /\ SubSeq(q, 1, n + 1) = Append(SubSeq(q, 1, n), q[n + 1])
         /\ SubSeq(q, 1, n) # <<>> => n > 0 /\ SubSeq(q, 1, n)[Len(SubSeq(q, 1, n))] = q[n]
<1>1. /\ SubSeq(q, 1, n) \in Seq(Nat) /\ SubSeq(q, 1, n + 1) \in Seq(Nat)
      /\ Len(SubSeq(q, 1, n)) = n /\ Len(SubSeq(q, 1, n + 1)) = n + 1
      /\ \A i \in 1 .. n : SubSeq(q, 1, n)[i] = q[i]
      /\ \A i \in 1 .. n + 1 : SubSeq(q, 1, n + 1)[i] = q[i]
  OBVIOUS
<1>2. /\ Append(SubSeq(q, 1, n), q[n + 1]) \in Seq(Nat)
      /\ Len(Append(SubSeq(q, 1, n), q[n + 1])) = n + 1
      /\ \A i \in 1 .. n : Append(SubSeq(q, 1, n), q[n + 1])[i] = q[i]
      /\ Append(SubSeq(q, 1, n), q[n + 1])[n + 1] = q[n + 1]
  <2> DEFINE p == SubSeq(q, 1, n)
  <2>1. q[n + 1] \in Nat /\ p \in Seq(Nat) /\ Len(p) = n /\ \A i \in 1 .. n : p[i] = q[i]
    BY <1>1
  <2> HIDE DEF p
  <2>2. /\ Append(p, q[n + 1]) \in Seq(Nat) /\ Len(Append(p, q[n + 1])) = n + 1
        /\ \A i \in 1 .. n : Append(p, q[n + 1])[i] = p[i]
        /\ Append(p, q[n + 1])[n + 1] = q[n + 1]
    BY <2>1, AppendProperties
  <2>3. QED BY <2>1, <2>2 DEF p
<1>3. SubSeq(q, 1, n + 1) = Append(SubSeq(q, 1, n), q[n + 1])
  BY <1>1, <1>2, SeqEqual
<1>4. QED BY <1>1, <1>3

(* The frames queued for a subscription only grow, so its view stays.      *)
LEMMA ViewsStay ==
  ASSUME TypeOK, [HubNext]_hubVars, sent' = sent
  PROVE  Views' = Views
<1>1. \A s \in Sockets : /\ frames[s] \in Seq(Nat) /\ sent[s] \in Nat /\ sent[s] <= Len(frames[s])
                         /\ taken[s] \in Nat
  BY DEF TypeOK, HubTypeOK
<1>2. CASE frames' = frames
  BY <1>2 DEF Views, View
<1>3. ASSUME NEW g \in Generations, NEW s \in Sockets, TrySend(g, s), frames' # frames
      PROVE  Views' = Views
  <2>1. frames' = [frames EXCEPT ![s] = Append(@, reader[g].cursor)]
    BY <1>3 DEF TrySend
  <2>2. reader[g].cursor \in Nat
    BY ReaderFields DEF TypeOK
  <2>3. ASSUME NEW t \in Sockets PROVE View(t)' = View(t)
    <3>1. CASE t # s
      <4>1. frames'[t] = frames[t]
        BY <2>1, <3>1 DEF TypeOK, HubTypeOK
      <4>2. QED BY <4>1 DEF View
    <3>2. CASE t = s
      <4>1. frames'[t] = Append(frames[t], reader[g].cursor)
        BY <2>1, <3>2 DEF TypeOK, HubTypeOK
      <4>2. QED BY <1>1, <2>2, <4>1, PrefixStays DEF View
    <3>3. QED BY <3>1, <3>2
  <2>4. QED BY <2>3 DEF Views
<1>4. CASE HubNext /\ \A g \in Generations, s \in Sockets : ~TrySend(g, s)
  <2>1. frames' = frames
    BY <1>4 DEF HubNext, ReaderStep, Publish, Join, Receive, Leave, DropReceiver, Subscribe,
       NextEvent, Snapshot, KeepAll, Prune, Remove, StreamEnds, Cancel, channelVars
  <2>2. QED BY <1>2, <2>1
<1>5. CASE UNCHANGED hubVars
  BY <1>2, <1>5 DEF hubVars
<1>6. QED BY <1>2, <1>3, <1>4, <1>5

(* No handler moves but that of s, and it comes to the place c.            *)
LEMMA TailConnMoves ==
  ASSUME TypeOK, NEW s \in Sockets, NEW c, conn' = [conn EXCEPT ![s] = c]
  PROVE  TailConns' = [TailConns EXCEPT ![s] = TailConn(s)']
  BY DEF TypeOK, TailConns, TailConn

(* What a handler sends next is the frame that follows the last one sent.  *)
LEMMA SendsNext ==
  ASSUME TypeOK, FramesAreContiguous, NEW s \in Sockets, conn[s] = "sending",
         NEW i, i = frames[s][sent[s] + 1]
  PROVE  /\ i \in Forwarded(log, FilterOf[s]) /\ i \in 1 .. Len(log)
         /\ View(s) # <<>> =>
              IsNext(Forwarded(log, FilterOf[s]), View(s)[Len(View(s))], i)
         /\ SubSeq(frames[s], 1, sent[s] + 1) = Append(View(s), i)
<1> DEFINE n == sent[s]
<1>1. /\ frames[s] \in Seq(Nat) /\ n \in Nat /\ n + 1 <= Len(frames[s])
      /\ Len(frames[s]) \in Nat
  BY DEF TypeOK, HubTypeOK
<1>2. /\ \A k \in 1 .. Len(frames[s]) : frames[s][k] \in Forwarded(log, FilterOf[s])
      /\ \A k \in 1 .. Len(frames[s]) - 1 :
           IsNext(Forwarded(log, FilterOf[s]), frames[s][k], frames[s][k + 1])
  BY DEF FramesAreContiguous, Contiguous
<1>3. i \in Forwarded(log, FilterOf[s])
  <2>1. n + 1 \in 1 .. Len(frames[s])
    BY <1>1
  <2>2. QED BY <1>2, <2>1
<1>4. i \in 1 .. Len(log)
  <2>1. log \in Seq(Kinds) /\ FilterOf[s] \in Filters
    BY DEF TypeOK, HubTypeOK
  <2>2. QED BY <1>3, <2>1, Positions
<1>5. ASSUME View(s) # <<>>
      PROVE  IsNext(Forwarded(log, FilterOf[s]), View(s)[Len(View(s))], i)
  <2>1. n > 0 /\ View(s)[Len(View(s))] = frames[s][n]
    BY <1>1, <1>5, PrefixGrows DEF View
  <2>2. n \in 1 .. Len(frames[s]) - 1
    BY <1>1, <2>1
  <2>3. QED BY <1>2, <2>1, <2>2
<1>6. SubSeq(frames[s], 1, n + 1) = Append(View(s), i)
  <2>1. n < Len(frames[s])
    BY <1>1
  <2>2. QED BY <1>1, <2>1, PrefixGrows DEF View
<1>7. QED BY <1>3, <1>4, <1>5, <1>6

(* LiveTail reads the topic as HubSocket does.                             *)
LEMMA SameTopic ==
  /\ \A l, f : Browser!Forwarded(l, f) = Forwarded(l, f)
  /\ \A S, c, i : Browser!IsNext(S, c, i) <=> IsNext(S, c, i)
  BY DEF Forwarded, Matching, IsNext, Browser!Forwarded, Browser!Matching, Browser!IsNext

(* Each step of handlers and hub is a step of the live tail, or none.      *)
LEMMA TailStep ==
  TypeOK /\ FramesAreContiguous /\ [Next]_vars => [Browser!Next]_Browser!vars
<1> SUFFICES ASSUME TypeOK, FramesAreContiguous, [Next]_vars
             PROVE  [Browser!Next]_Browser!vars
  OBVIOUS
<1>0. /\ \A s \in Sockets : TailConns[s] = TailConn(s)
      /\ \A s \in Sockets : Views[s] = View(s)
  BY DEF TailConns, Views
<1>1. sent' = sent => Views' = Views
  BY HubMoves, ViewsStay
<1>2. ASSUME NEW e \in Kinds, Publish(e), UNCHANGED socketVars PROVE Browser!Next
  <2>1. Views' = Views /\ TailConns' = TailConns
    BY <1>1, <1>2 DEF socketVars, TailConns, TailConn
  <2>2. Browser!Publish(e)
    BY <1>2, <2>1 DEF Publish, Browser!Publish, TailConns, Views, View
  <2>3. QED BY <2>2 DEF Browser!Next
<1>3. ASSUME Hub, UNCHANGED socketVars PROVE UNCHANGED Browser!vars
  <2>1. log' = log
    BY <1>3 DEF Hub, ReaderStep, Subscribe, NextEvent, Snapshot, TrySend, KeepAll, Prune,
       Remove, StreamEnds, Cancel
  <2>2. Views' = Views /\ TailConns' = TailConns
    BY <1>1, <1>3 DEF socketVars, TailConns, TailConn
  <2>3. QED BY <2>1, <2>2 DEF Browser!vars, TailConns, Views, View
<1>4. ASSUME NEW s \in Sockets, Accept(s) PROVE Browser!Next
  <2>1. TailConn(s) = "none" /\ TailConn(s)' = "open" /\ log' = log
    BY <1>4 DEF Accept, Join, TailConn, TypeOK
  <2>2. TailConns' = [TailConns EXCEPT ![s] = "open"] /\ Views' = Views
    BY <1>1, <1>4, <2>1, TailConnMoves DEF Accept
  <2>3. Browser!Open(s)
    BY <1>0, <2>1, <2>2 DEF Browser!Open, TailConns, Views, View
  <2>4. QED BY <2>3 DEF Browser!Next
<1>5. ASSUME NEW s \in Sockets, SendOk(s) PROVE Browser!Next
  <2>0. PICK i : i = frames[s][sent[s] + 1]
    OBVIOUS
  <2>1. /\ TailConn(s) = "open" /\ TailConn(s)' = "open"
        /\ UNCHANGED <<log, frames>> /\ conn[s] = "sending"
    BY <1>5 DEF SendOk, TailConn, TypeOK, hubVars
  <2>2. TailConns' = TailConns
    BY <1>5, <2>1, TailConnMoves DEF SendOk, TailConns
  <2>3. Views' = [Views EXCEPT ![s] = Append(View(s), i)]
    <3>1. View(s)' = Append(View(s), i)
      <4>1. sent'[s] = sent[s] + 1
        BY <1>5 DEF SendOk, TypeOK
      <4>2. QED BY <2>0, <2>1, <4>1, SendsNext DEF View
    <3>2. \A t \in Sockets : t # s => View(t)' = View(t)
      BY <1>5, <2>1 DEF SendOk, View, TypeOK
    <3>3. QED BY <3>1, <3>2 DEF Views
  <2>4. /\ i \in Forwarded(log, FilterOf[s])
        /\ View(s) # <<>> => IsNext(Forwarded(log, FilterOf[s]), View(s)[Len(View(s))], i)
    BY <2>0, <2>1, SendsNext
  <2>5. /\ i \in Browser!Forwarded(log, FilterOf[s])
        /\ Views[s] # <<>> =>
             Browser!IsNext(Browser!Forwarded(log, FilterOf[s]), Views[s][Len(Views[s])], i)
    BY <1>0, <2>4, SameTopic
  <2>6. Views' = [Views EXCEPT ![s] = Append(Views[s], i)]
    BY <1>0, <2>3
  <2>7. Browser!Send(s, i)
    BY <1>0, <2>1, <2>2, <2>5, <2>6 DEF Browser!Send, TailConns, Views, View
  <2>8. i \in 1 .. Len(log)
    BY <2>0, <2>1, SendsNext
  <2>9. QED BY <2>7, <2>8 DEF Browser!Next
<1>6. ASSUME NEW s \in Sockets, HubClosed(s) \/ SendFails(s) \/ SeePeerGone(s)
      PROVE  Browser!Next
  <2>1. TailConn(s) = "open" /\ TailConn(s)' = "closed" /\ log' = log
    BY <1>6 DEF HubClosed, SendFails, SeePeerGone, TailConn, TypeOK, hubVars
  <2>2. TailConns' = [TailConns EXCEPT ![s] = "closed"] /\ Views' = Views
    BY <1>1, <1>6, <2>1, TailConnMoves DEF HubClosed, SendFails, SeePeerGone
  <2>3. Browser!Close(s)
    BY <1>0, <2>1, <2>2 DEF Browser!Close, TailConns, Views, View
  <2>4. QED BY <2>3 DEF Browser!Next
<1>7. ASSUME NEW s \in Sockets,
             TakeFrame(s) \/ CloseSink(s) \/ PeerGoes(s) \/ DropSubscription(s)
      PROVE  UNCHANGED Browser!vars
  <2>1. log' = log /\ sent' = sent
    BY <1>7 DEF TakeFrame, Receive, CloseSink, PeerGoes, DropSubscription, Leave,
       DropReceiver, hubVars, socketVars
  <2>2. TailConns' = TailConns
    <3>1. CASE conn' = conn
      BY <3>1 DEF TailConns, TailConn
    <3>2. CASE TakeFrame(s) \/ CloseSink(s)
      <4>1. PICK c : conn' = [conn EXCEPT ![s] = c]
        BY <3>2 DEF TakeFrame, CloseSink
      <4>2. TailConn(s)' = TailConn(s)
        BY <3>2 DEF TakeFrame, CloseSink, TailConn, TypeOK
      <4>3. QED BY <4>1, <4>2, TailConnMoves DEF TailConns
    <3>3. QED BY <1>7, <3>1, <3>2 DEF PeerGoes, DropSubscription, socketVars
  <2>3. QED BY <1>1, <2>1, <2>2 DEF Browser!vars, TailConns, Views, View
<1>8. CASE UNCHANGED vars
  BY <1>8 DEF vars, Browser!vars, TailConn
<1>9. QED
  BY <1>2, <1>3, <1>4, <1>5, <1>6, <1>7, <1>8 DEF Next, Handler

(* The broadcast-hub fanout, handlers, readers, queues and registry        *)
(* together, implements the live tail: it promises a browser what the      *)
(* default fanout promises.                                                *)
THEOREM HubIsLiveTail == Spec => ImplementsLiveTail
<1>1. Init => Browser!Init
  <2> SUFFICES ASSUME Init PROVE Browser!Init
    OBVIOUS
  <2>1. \A s \in Sockets : View(s) = <<>> /\ TailConn(s) = "none"
    BY DEF Init, HubInit, View, TailConn
  <2>2. QED BY <2>1 DEF Init, HubInit, Browser!Init, View
<1>2. Spec => []FramesAreContiguous
  BY HandlersUseTheHub, FramesCorrect, PTL
<1>3. QED
  BY <1>1, <1>2, SocketTypeCorrect, TailStep, PTL DEF Spec, ImplementsLiveTail, Browser!Spec
=============================================================================
