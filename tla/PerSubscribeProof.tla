--------------------------- MODULE PerSubscribeProof ---------------------------
(***************************************************************************)
(* Proofs about PerSubscribe, for every number of connections, filters and *)
(* events: what a connection of the default fanout was sent is exactly     *)
(* its window of the topic, and a live tail.                               *)
(***************************************************************************)
EXTENDS PerSubscribe, TopicProof

USE PerSubscribeAssumption, TopicAssumption

LEMMA TypeInit == Init => TypeOK
  BY DEF Init, TypeOK

(* Every step keeps the types, and no stream comes to be ahead of the topic. *)
LEMMA TypeStep == TypeOK /\ [Next]_vars => TypeOK'
<1> SUFFICES ASSUME TypeOK, [Next]_vars PROVE TypeOK'
  OBVIOUS
<1>1. ASSUME NEW e \in Kinds, Publish(e) PROVE TypeOK'
  BY <1>1 DEF Publish, TypeOK
<1>2. ASSUME NEW s \in Sockets, Upgrade(s) PROVE TypeOK'
  BY <1>2 DEF Upgrade, Goes, TypeOK
<1>3. ASSUME NEW s \in Sockets, Subscribe(s) PROVE TypeOK'
  <2>1. Len(log) \in Nat
    BY DEF TypeOK
  <2>2. QED BY <1>3, <2>1 DEF Subscribe, Goes, TypeOK
<1>4. ASSUME NEW s \in Sockets, TakeEvent(s) PROVE TypeOK'
  <2>1. PICK i \in 1 .. Len(log) :
          /\ IsNext(Matching(log, FilterOf[s]), cursor[s], i)
          /\ cursor' = [cursor EXCEPT ![s] = i]
          /\ Goes(s, AfterEvent(i))
    BY <1>4 DEF TakeEvent
  <2>2. i \in Nat /\ i <= Len(log) /\ cursor[s] < i
    BY <2>1 DEF IsNext, TypeOK
  <2>3. AfterEvent(i) \in {"select", "sending"}
    BY DEF AfterEvent
  <2>4. QED BY <1>4, <2>1, <2>2, <2>3 DEF TakeEvent, Goes, TypeOK
<1>5. ASSUME NEW s \in Sockets, SendOk(s) PROVE TypeOK'
  <2>1. Append(view[s], cursor[s]) \in Seq(Nat)
    BY DEF TypeOK
  <2>2. QED BY <1>5, <2>1 DEF SendOk, Goes, TypeOK
<1>6. ASSUME NEW s \in Sockets,
             SendFails(s) \/ SeePeerGone(s) \/ CloseSink(s) \/ StreamEnds(s)
      PROVE  TypeOK'
  BY <1>6 DEF SendFails, SeePeerGone, CloseSink, StreamEnds, Goes, TypeOK
<1>7. ASSUME NEW s \in Sockets, PeerGoes(s) PROVE TypeOK'
  BY <1>7 DEF PeerGoes, TypeOK
<1>8. CASE UNCHANGED vars
  BY <1>8 DEF vars, TypeOK
<1>9. QED
  BY <1>1, <1>2, <1>3, <1>4, <1>5, <1>6, <1>7, <1>8 DEF Next, Handler

(* Type correctness, and no stream is ever ahead of the topic.             *)
THEOREM TypeCorrect == Spec => []TypeOK
  BY TypeInit, TypeStep, PTL DEF Spec
-----------------------------------------------------------------------------
(* The window.                                                             *)

Sent(s) == {view[s][n] : n \in 1 .. Len(view[s])}
DueTo(s) == {i \in Wanted(s) : start[s] < i /\ i <= cursor[s]}

(* SentExactlySinceSubscribed for one connection; nothing is sent before   *)
(* the handler subscribes; and frames come in order.                       *)
Window(s) ==
  /\ conn[s] = "select" => Sent(s) = DueTo(s)
  /\ conn[s] = "sending" => Sent(s) = DueTo(s) \ {cursor[s]} /\ cursor[s] \in DueTo(s)
  /\ conn[s] \in {"closing", "closed"} => Sent(s) \subseteq DueTo(s)
  /\ conn[s] \in {"none", "upgraded"} => view[s] = <<>>
  /\ \A n \in 1 .. Len(view[s]) : view[s][n] <= view[s][Len(view[s])]
WindowInv == \A s \in Sockets : Window(s)

LEMMA WindowInit == Init => WindowInv
  BY DEF Init, WindowInv, Window, Sent

(* A step that leaves a connection's stream and frames alone, and moves    *)
(* its handler, if at all, where less is claimed, keeps its window.        *)
LEMMA WindowStays ==
  ASSUME TypeOK, WindowInv, NEW s \in Sockets,
         log' = log, start'[s] = start[s], cursor'[s] = cursor[s], view'[s] = view[s],
         \/ conn'[s] = conn[s]
         \/ conn[s] = "none" /\ conn'[s] = "upgraded"
         \/ conn[s] \in {"select", "sending", "closing"} /\ conn'[s] \in {"closing", "closed"}
  PROVE  Window(s)'
<1>1. Sent(s)' = Sent(s) /\ DueTo(s)' = DueTo(s)
  BY DEF Sent, DueTo, Wanted
<1>2. Window(s)
  BY DEF WindowInv
<1>3. QED BY <1>1, <1>2 DEF Window

LEMMA WindowStep == TypeOK /\ WindowInv /\ [Next]_vars => WindowInv'
<1> SUFFICES ASSUME TypeOK, WindowInv, [Next]_vars, NEW t \in Sockets PROVE Window(t)'
  BY DEF WindowInv
<1>0. /\ FilterOf[t] \in Filters /\ log \in Seq(Kinds) /\ Len(log) \in Nat
      /\ start[t] \in Nat /\ cursor[t] \in Nat /\ view[t] \in Seq(Nat)
      /\ start[t] <= cursor[t] /\ cursor[t] <= Len(log)
  BY DEF TypeOK
<1>1. ASSUME NEW e \in Kinds, Publish(e) PROVE Window(t)'
  <2>1. log' = Append(log, e) /\ UNCHANGED <<conn, start, cursor, view>>
    BY <1>1 DEF Publish
  <2>2. \A i \in 1 .. Len(log) : i \in Wanted(t)' <=> i \in Wanted(t)
    BY <1>0, <2>1, Published DEF Wanted
  <2>3. Wanted(t) \subseteq 1 .. Len(log) /\ Wanted(t)' \subseteq 1 .. Len(log) + 1
    BY <1>0, <2>1, Published, Positions DEF Wanted
  <2>4. DueTo(t)' = DueTo(t)
    BY <1>0, <2>1, <2>2, <2>3 DEF DueTo
  <2>5. Sent(t)' = Sent(t)
    BY <2>1 DEF Sent
  <2>6. QED BY <2>1, <2>4, <2>5 DEF WindowInv, Window
<1>2. ASSUME NEW s \in Sockets, Upgrade(s) PROVE Window(t)'
  BY <1>2, WindowStays DEF Upgrade, Goes, TypeOK
<1>3. ASSUME NEW s \in Sockets, Subscribe(s) PROVE Window(t)'
  <2>1. CASE t # s
    BY <1>3, <2>1, WindowStays DEF Subscribe, Goes, TypeOK
  <2>2. CASE t = s
    <3>1. /\ view'[t] = <<>> /\ conn'[t] = "select"
          /\ start'[t] = Len(log) /\ cursor'[t] = Len(log) /\ log' = log
      BY <1>3, <2>2 DEF Subscribe, Goes, TypeOK, WindowInv, Window
    <3>2. Sent(t)' = {} /\ DueTo(t)' = {}
      BY <1>0, <3>1, Positions DEF Sent, DueTo, Wanted
    <3>3. QED BY <3>1, <3>2 DEF Window
  <2>3. QED BY <2>1, <2>2
<1>4. ASSUME NEW s \in Sockets, TakeEvent(s) PROVE Window(t)'
  <2>0. PICK i \in 1 .. Len(log) :
          /\ IsNext(Matching(log, FilterOf[s]), cursor[s], i)
          /\ cursor' = [cursor EXCEPT ![s] = i]
          /\ conn' = [conn EXCEPT ![s] = AfterEvent(i)]
    BY <1>4 DEF TakeEvent, Goes
  <2>1. CASE t # s
    BY <1>4, <2>0, <2>1, WindowStays DEF TakeEvent, TypeOK
  <2>2. CASE t = s
    <3>1. /\ cursor'[t] = i /\ conn'[t] = AfterEvent(i) /\ conn[t] = "select"
          /\ UNCHANGED <<log, start, view>>
      BY <1>4, <2>0, <2>2 DEF TakeEvent, TypeOK
    <3>2. Sent(t)' = DueTo(t)
      BY <3>1 DEF WindowInv, Window, Sent
    <3>3. /\ i > cursor[t] /\ i \in Matching(log, FilterOf[t])
          /\ \A j \in Matching(log, FilterOf[t]) : j > cursor[t] => i <= j
      BY <2>0, <2>2 DEF IsNext
    <3>4. DueTo(t)' = DueTo(t) \cup ({i} \cap Wanted(t))
      <4>1. Wanted(t)' = Wanted(t) /\ Wanted(t) \subseteq Matching(log, FilterOf[t])
            /\ Wanted(t) \subseteq 1 .. Len(log)
        BY <1>0, <3>1, Positions DEF Wanted
      <4>2. ASSUME NEW j \in Wanted(t)
            PROVE  start[t] < j /\ j <= i <=> (start[t] < j /\ j <= cursor[t]) \/ j = i
        BY <1>0, <3>3, <4>1
      <4>3. QED BY <3>1, <4>1, <4>2 DEF DueTo
    <3>5. i \in Wanted(t) <=> log[i] \notin Unserializable
      BY <3>3 DEF Wanted, Forwarded
    <3>6. i \notin DueTo(t)
      BY <1>0, <3>3 DEF DueTo
    <3>7. CASE log[i] \in Unserializable
      BY <3>1, <3>2, <3>4, <3>5, <3>7 DEF AfterEvent, WindowInv, Window
    <3>8. CASE log[i] \notin Unserializable
      <4>1. DueTo(t)' = DueTo(t) \cup {i}
        BY <3>4, <3>5, <3>8
      <4>2. conn'[t] = "sending"
        BY <3>1, <3>8 DEF AfterEvent
      <4>3. QED BY <3>1, <3>2, <3>6, <4>1, <4>2 DEF WindowInv, Window
    <3>9. QED BY <3>7, <3>8
  <2>3. QED BY <2>1, <2>2
<1>5. ASSUME NEW s \in Sockets, SendOk(s) PROVE Window(t)'
  <2>1. CASE t # s
    BY <1>5, <2>1, WindowStays DEF SendOk, Goes, TypeOK
  <2>2. CASE t = s
    <3>1. /\ conn[t] = "sending" /\ conn'[t] = "select"
          /\ view'[t] = Append(view[t], cursor[t])
          /\ UNCHANGED <<log, start, cursor>>
      BY <1>5, <2>2 DEF SendOk, Goes, TypeOK
    <3>2. Sent(t) = DueTo(t) \ {cursor[t]} /\ cursor[t] \in DueTo(t) /\ DueTo(t)' = DueTo(t)
      BY <3>1 DEF WindowInv, Window, DueTo, Wanted
    <3>3. Sent(t)' = Sent(t) \cup {cursor[t]}
      <4>1. /\ Len(view'[t]) = Len(view[t]) + 1 /\ view'[t][Len(view[t]) + 1] = cursor[t]
            /\ \A n \in 1 .. Len(view[t]) : view'[t][n] = view[t][n]
        BY <1>0, <3>1
      <4>2. 1 .. Len(view'[t]) = (1 .. Len(view[t])) \cup {Len(view[t]) + 1}
        BY <1>0, <4>1
      <4>3. QED BY <4>1, <4>2 DEF Sent
    <3>4. \A n \in 1 .. Len(view[t]) : view[t][n] <= cursor[t]
      BY <3>2 DEF Sent, DueTo
    <3>5. \A n \in 1 .. Len(view'[t]) : view'[t][n] <= view'[t][Len(view'[t])]
      BY <1>0, <3>1, <3>4, LastIsGreatest
    <3>6. QED BY <3>1, <3>2, <3>3, <3>5 DEF Window
  <2>3. QED BY <2>1, <2>2
<1>6. ASSUME NEW s \in Sockets,
             SendFails(s) \/ SeePeerGone(s) \/ CloseSink(s) \/ StreamEnds(s)
      PROVE  Window(t)'
  BY <1>6, WindowStays DEF SendFails, SeePeerGone, CloseSink, StreamEnds, Goes, TypeOK
<1>7. ASSUME NEW s \in Sockets, PeerGoes(s) PROVE Window(t)'
  BY <1>7, WindowStays DEF PeerGoes
<1>8. CASE UNCHANGED vars
  BY <1>8, WindowStays DEF vars
<1>9. QED
  BY <1>1, <1>2, <1>3, <1>4, <1>5, <1>6, <1>7, <1>8 DEF Next, Handler

(* A connection was sent exactly the events of its filter that its stream  *)
(* passed since the handler subscribed (ws.rs, handle_socket).             *)
THEOREM WindowIsExact == Spec => []SentExactlySinceSubscribed
<1>1. WindowInv => SentExactlySinceSubscribed
  BY DEF WindowInv, Window, Sent, DueTo, SentExactlySinceSubscribed
<1>2. QED BY <1>1, TypeInit, TypeStep, WindowInit, WindowStep, PTL DEF Spec
-----------------------------------------------------------------------------
(* The live tail.                                                          *)

TailConns == [s \in Sockets |-> TailConn(s)]

(* No handler moves but that of s, and it comes to the place c.            *)
LEMMA TailConnMoves ==
  ASSUME TypeOK, NEW s \in Sockets, NEW c, conn' = [conn EXCEPT ![s] = c]
  PROVE  TailConns' = [TailConns EXCEPT ![s] = TailConn(s)']
  BY DEF TypeOK, TailConns, TailConn

(* What a handler sends next is the event that follows the last one sent.  *)
LEMMA SendsNext ==
  ASSUME TypeOK, WindowInv, NEW s \in Sockets, conn[s] = "sending"
  PROVE  /\ cursor[s] \in Forwarded(log, FilterOf[s])
         /\ view[s] # <<>> =>
              IsNext(Forwarded(log, FilterOf[s]), view[s][Len(view[s])], cursor[s])
<1>1. /\ Sent(s) = DueTo(s) \ {cursor[s]} /\ cursor[s] \in DueTo(s)
      /\ \A n \in 1 .. Len(view[s]) : view[s][n] <= view[s][Len(view[s])]
  BY DEF WindowInv, Window
<1>2. /\ FilterOf[s] \in Filters /\ log \in Seq(Kinds) /\ view[s] \in Seq(Nat)
      /\ start[s] \in Nat /\ cursor[s] \in Nat
  BY DEF TypeOK
<1>3. ASSUME view[s] # <<>>
      PROVE  IsNext(Wanted(s), view[s][Len(view[s])], cursor[s])
  <2> DEFINE last == view[s][Len(view[s])]
  <2>1. last \in Nat /\ last \in Sent(s)
    <3>1. Len(view[s]) \in 1 .. Len(view[s])
      BY <1>2, <1>3
    <3>2. QED BY <1>2, <3>1 DEF Sent
  <2>2. last < cursor[s] /\ start[s] < last
    BY <1>1, <1>2, <2>1 DEF DueTo
  <2>3. ASSUME NEW j \in Wanted(s), j > last PROVE cursor[s] <= j
    <3>1. j \in Nat
      BY <1>2, Positions DEF Wanted
    <3>2. SUFFICES ASSUME j < cursor[s] PROVE FALSE
      BY <1>2, <3>1
    <3>3. j \in Sent(s)
      BY <1>1, <1>2, <2>1, <2>2, <2>3, <3>1, <3>2 DEF DueTo
    <3>4. j <= last
      BY <1>1, <3>3 DEF Sent
    <3>5. QED BY <2>1, <2>3, <3>1, <3>4
  <2>4. QED BY <1>1, <2>2, <2>3 DEF IsNext, DueTo
<1>4. QED BY <1>1, <1>3 DEF DueTo, Wanted

(* LiveTail reads the topic as PerSubscribe does.                          *)
LEMMA SameTopic ==
  /\ \A l, f : Browser!Forwarded(l, f) = Forwarded(l, f)
  /\ \A S, c, i : Browser!IsNext(S, c, i) <=> IsNext(S, c, i)
  BY DEF Forwarded, Matching, IsNext, Browser!Forwarded, Browser!Matching, Browser!IsNext

(* Each step of a connection is a step of the live tail, or none.          *)
LEMMA TailStep ==
  TypeOK /\ WindowInv /\ [Next]_vars => [Browser!Next]_Browser!vars
<1> SUFFICES ASSUME TypeOK, WindowInv, [Next]_vars PROVE [Browser!Next]_Browser!vars
  OBVIOUS
<1>0. \A s \in Sockets : TailConns[s] = TailConn(s)
  BY DEF TailConns
<1>1. ASSUME NEW e \in Kinds, Publish(e) PROVE Browser!Next
  <2>1. Browser!Publish(e)
    BY <1>1 DEF Publish, Browser!Publish, TailConn
  <2>2. QED BY <2>1 DEF Browser!Next
<1>2. ASSUME NEW s \in Sockets, Upgrade(s) PROVE Browser!Next
  <2>1. TailConn(s) = "none" /\ TailConn(s)' = "open"
    BY <1>2 DEF Upgrade, Goes, TailConn, TypeOK
  <2>2. TailConns' = [TailConns EXCEPT ![s] = "open"]
    BY <1>2, <2>1, TailConnMoves DEF Upgrade, Goes
  <2>3. Browser!Open(s)
    BY <1>0, <1>2, <2>1, <2>2 DEF Upgrade, Browser!Open, TailConns
  <2>4. QED BY <2>3 DEF Browser!Next
<1>3. ASSUME NEW s \in Sockets, SendOk(s) PROVE Browser!Next
  <2>1. TailConn(s) = "open" /\ TailConn(s)' = "open"
    BY <1>3 DEF SendOk, Goes, TailConn, TypeOK
  <2>2. TailConns' = TailConns
    BY <1>3, <2>1, TailConnMoves DEF SendOk, Goes, TailConns
  <2>3. cursor[s] \in 1 .. Len(log)
    BY <1>3, SendsNext, Positions DEF SendOk, TypeOK
  <2>4. Browser!Send(s, cursor[s])
    BY <1>0, <1>3, <2>1, <2>2, SendsNext, SameTopic
    DEF SendOk, Browser!Send, TailConns
  <2>5. QED BY <2>3, <2>4 DEF Browser!Next
<1>4. ASSUME NEW s \in Sockets, SendFails(s) \/ SeePeerGone(s) \/ StreamEnds(s)
      PROVE  Browser!Next
  <2>1. TailConn(s) = "open" /\ TailConn(s)' = "closed"
    BY <1>4 DEF SendFails, SeePeerGone, StreamEnds, Goes, TailConn, TypeOK
  <2>2. TailConns' = [TailConns EXCEPT ![s] = "closed"]
    BY <1>4, <2>1, TailConnMoves DEF SendFails, SeePeerGone, StreamEnds, Goes
  <2>3. Browser!Close(s)
    BY <1>0, <1>4, <2>1, <2>2
    DEF SendFails, SeePeerGone, StreamEnds, Browser!Close, TailConns
  <2>4. QED BY <2>3 DEF Browser!Next
<1>5. ASSUME NEW s \in Sockets, Subscribe(s) \/ TakeEvent(s) \/ CloseSink(s)
      PROVE  UNCHANGED Browser!vars
  <2>1. PICK c : conn' = [conn EXCEPT ![s] = c]
    BY <1>5 DEF Subscribe, TakeEvent, CloseSink, Goes
  <2>2. TailConn(s)' = TailConn(s)
    BY <1>5 DEF Subscribe, TakeEvent, CloseSink, Goes, AfterEvent, TailConn, TypeOK
  <2>3. TailConns' = TailConns
    BY <2>1, <2>2, TailConnMoves DEF TailConns
  <2>4. QED BY <1>5, <2>3 DEF Subscribe, TakeEvent, CloseSink, Browser!vars, TailConns
<1>6. ASSUME NEW s \in Sockets, PeerGoes(s) PROVE UNCHANGED Browser!vars
  BY <1>6 DEF PeerGoes, Browser!vars, TailConn
<1>7. CASE UNCHANGED vars
  BY <1>7 DEF vars, Browser!vars, TailConn
<1>8. QED
  BY <1>1, <1>2, <1>3, <1>4, <1>5, <1>6, <1>7 DEF Next, Handler

(* The handler of the default fanout implements the live tail: a browser   *)
(* is sent each event of its filter from some event on, in order, until    *)
(* the connection is closed.                                               *)
THEOREM PerSubscribeIsLiveTail == Spec => ImplementsLiveTail
<1>1. Init => Browser!Init
  BY DEF Init, Browser!Init, TailConn
<1>2. QED
  BY <1>1, TypeInit, TypeStep, WindowInit, WindowStep, TailStep, PTL
  DEF Spec, ImplementsLiveTail, Browser!Spec
=============================================================================
