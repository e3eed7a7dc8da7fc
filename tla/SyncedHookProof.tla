--------------------------- MODULE SyncedHookProof ---------------------------
(***************************************************************************)
(* Proofs about SyncedHook, for every number of changes and connections    *)
(* lost and every set of unreadable payloads: what resources and lists     *)
(* show, whichever messages, fetches and reconnects they race with.        *)
(***************************************************************************)
EXTENDS SyncedHook, SequenceTheorems, TLAPS

USE BrowserLinkAssumption
-----------------------------------------------------------------------------
(* The link.                                                               *)

(* Only changes that were made are published, sent and received, and the   *)
(* stream is not ahead of the log.                                         *)
Made(s) == s \in Seq(Versions) /\ \A n \in 1 .. Len(s) : s[n] <= store
LinkInv ==
  /\ store \in 0 .. MaxWrites /\ writers \subseteq Versions /\ \A v \in writers : v <= store
  /\ Made(log) /\ Made(wire)
  /\ tail \in 0 .. Len(log)

(* What a client took and what is on the wire came from the log, and was   *)
(* in its order: across reconnects the stream only moves forward.          *)
Ascending(s) == \A m, n \in 1 .. Len(s) : m < n => s[m] < s[n]
FromLog(s) == \A n \in 1 .. Len(s) : \E k \in 1 .. tail : s[n] = log[k]
OrderInv ==
  /\ FromLog(received) /\ FromLog(wire)
  /\ Resource!PublishedInOrder =>
       /\ Ascending(log) /\ Ascending(wire) /\ Ascending(received)
       /\ \A m \in 1 .. Len(received), n \in 1 .. Len(wire) : received[m] < wire[n]

(* Resources and lists have the same link.                                 *)
LEMMA SameLink ==
  /\ Resource!LinkStep <=> LinkStep
  /\ Resource!LoseLink <=> LoseLink
  /\ Resource!Close <=> Close
  /\ \A v : Resource!Take(v) <=> Take(v)
  /\ AppendedList!LinkStep <=> LinkStep
  /\ AppendedList!LoseLink <=> LoseLink
  /\ AppendedList!Close <=> Close
  /\ \A v : AppendedList!Take(v) <=> Take(v)
  BY DEF LinkStep, Write, Publish, PublishFails, Handshake, StartTail, Forward, LoseLink,
     Close, Take, Versions,
     Resource!LinkStep, Resource!Write, Resource!Publish, Resource!PublishFails,
     Resource!Handshake, Resource!StartTail, Resource!Forward, Resource!LoseLink,
     Resource!Close, Resource!Take, Resource!Versions,
     AppendedList!LinkStep, AppendedList!Write, AppendedList!Publish,
     AppendedList!PublishFails, AppendedList!Handshake, AppendedList!StartTail,
     AppendedList!Forward, AppendedList!LoseLink, AppendedList!Close, AppendedList!Take,
     AppendedList!Versions

LEMMA LinkStart == LinkInit => LinkInv
  BY DEF LinkInit, LinkInv, Made, Versions

LEMMA TakeFirst ==
  ASSUME NEW v, Take(v), LinkInv
  PROVE  /\ v \in Versions /\ v <= store /\ v = wire[1] /\ Len(wire) \in Nat \ {0}
         /\ wire' \in Seq(Versions) /\ Len(wire') = Len(wire) - 1
         /\ \A n \in 1 .. Len(wire') : wire'[n] = wire[n + 1]
         /\ UNCHANGED <<store, writers, log, link, tail, losses>>
<1>1. wire \in Seq(Versions) /\ wire # <<>> /\ v = Head(wire) /\ wire' = Tail(wire)
      /\ UNCHANGED <<store, writers, log, link, tail, losses>>
  BY DEF Take, LinkInv, Made
<1>2. Len(wire) \in Nat \ {0} /\ Head(wire) = wire[1] /\ wire[1] \in Versions
  BY <1>1
<1>3. wire[1] <= store
  BY <1>2 DEF LinkInv, Made
<1>4. QED BY <1>1, <1>2, <1>3, HeadTailProperties

LEMMA MadeStays ==
  ASSUME NEW s, Made(s), store \in Nat, store' \in Nat, store <= store'
  PROVE  s \in Seq(Versions) /\ \A n \in 1 .. Len(s) : s[n] <= store'
<1>1. \A n \in 1 .. Len(s) : s[n] <= store /\ s[n] \in Int
  BY DEF Made, Versions
<1>2. QED BY <1>1 DEF Made

LEMMA MadeGrows ==
  ASSUME NEW s, Made(s), NEW v \in Versions, v <= store, store' = store
  PROVE  /\ Append(s, v) \in Seq(Versions)
         /\ \A n \in 1 .. Len(Append(s, v)) : Append(s, v)[n] <= store'
  BY DEF Made

LEMMA LinkStays ==
  ASSUME LinkInv, LinkStep \/ LoseLink \/ Close \/ (\E v : Take(v)) \/ UNCHANGED linkVars
  PROVE  LinkInv'
<1> USE DEF Versions
<1>1. CASE Write
  <2>1. store' = store + 1 /\ store' \in 0 .. MaxWrites /\ writers' = writers \cup {store + 1}
        /\ UNCHANGED <<log, wire, tail>>
    BY <1>1 DEF Write, LinkInv
  <2>2. ASSUME NEW s, Made(s) PROVE s \in Seq(Versions) /\ \A n \in 1 .. Len(s) : s[n] <= store'
    BY <2>1, <2>2, MadeStays DEF LinkInv
  <2>3. Made(log)' /\ Made(wire)'
    <3>1. Made(log) /\ Made(wire)
      BY DEF LinkInv
    <3>2. /\ log \in Seq(Versions) /\ \A n \in 1 .. Len(log) : log[n] <= store'
          /\ wire \in Seq(Versions) /\ \A n \in 1 .. Len(wire) : wire[n] <= store'
      BY <2>2, <3>1
    <3>3. QED BY <2>1, <3>2 DEF Made
  <2>4. QED BY <2>1, <2>3 DEF LinkInv
<1>2. ASSUME NEW v \in Versions, Publish(v) PROVE LinkInv'
  <2>1. /\ v <= store /\ log' = Append(log, v) /\ writers' = writers \ {v}
        /\ UNCHANGED <<store, wire, tail>> /\ log \in Seq(Versions)
    BY <1>2 DEF Publish, LinkInv, Made
  <2>2. Made(log)' /\ Made(wire)'
    BY <2>1, MadeGrows DEF LinkInv, Made
  <2>3. Len(log') = Len(log) + 1 /\ Len(log) \in Nat
    BY <2>1
  <2>4. QED BY <2>1, <2>2, <2>3 DEF LinkInv
<1>3. ASSUME NEW v \in Versions, PublishFails(v) PROVE LinkInv'
  BY <1>3 DEF PublishFails, LinkInv, Made
<1>4. CASE Handshake \/ StartTail
  <2>1. Len(log) \in Nat
    BY DEF LinkInv, Made
  <2>2. UNCHANGED <<store, writers, log, wire>> /\ tail' \in {tail, Len(log)}
    BY <1>4 DEF Handshake, StartTail
  <2>3. Made(log)' /\ Made(wire)'
    BY <2>2 DEF LinkInv, Made
  <2>4. tail' \in 0 .. Len(log')
    BY <2>1, <2>2 DEF LinkInv
  <2>5. QED BY <2>2, <2>3, <2>4 DEF LinkInv
<1>5. CASE Forward
  <2>1. tail \in Nat /\ Len(log) \in Nat /\ tail + 1 \in 1 .. Len(log)
    BY <1>5 DEF Forward, LinkInv, Made
  <2>2. log[tail + 1] \in Versions /\ log[tail + 1] <= store
    BY <2>1 DEF LinkInv, Made
  <2>3. /\ tail' = tail + 1 /\ wire' = Append(wire, log[tail + 1])
        /\ UNCHANGED <<store, writers, log>>
    BY <1>5 DEF Forward
  <2>4. Made(log)' /\ Made(wire)'
    BY <2>2, <2>3, MadeGrows DEF LinkInv, Made
  <2>5. QED BY <2>1, <2>3, <2>4 DEF LinkInv
<1>6. CASE LoseLink \/ Close
  <2>1. wire' = <<>> /\ UNCHANGED <<store, writers, log, tail>>
    BY <1>6 DEF LoseLink, Close
  <2>2. Made(log)' /\ Made(wire)'
    BY <2>1 DEF LinkInv, Made
  <2>3. QED BY <2>1, <2>2 DEF LinkInv
<1>7. ASSUME NEW v, Take(v) PROVE LinkInv'
  <2>1. \A n \in 1 .. Len(wire') : n + 1 \in 1 .. Len(wire)
    BY <1>7, TakeFirst
  <2>2. Made(wire)'
    BY <1>7, <2>1, TakeFirst DEF LinkInv, Made
  <2>3. QED BY <1>7, <2>2, TakeFirst DEF LinkInv, Made
<1>8. CASE UNCHANGED linkVars
  BY <1>8 DEF linkVars, LinkInv, Made
<1>9. QED BY <1>1, <1>2, <1>3, <1>4, <1>5, <1>6, <1>7, <1>8 DEF LinkStep

(* A prefix of the log that was sent stays where it is.                    *)
LEMMA FromLogLater ==
  ASSUME NEW s, FromLog(s), tail \in Nat, tail' \in Nat, tail <= tail',
         \A k \in 1 .. tail : log'[k] = log[k]
  PROVE  \A n \in 1 .. Len(s) : \E k \in 1 .. tail' : s[n] = log'[k]
<1> SUFFICES ASSUME NEW n \in 1 .. Len(s) PROVE \E k \in 1 .. tail' : s[n] = log'[k]
  OBVIOUS
<1>1. PICK k \in 1 .. tail : s[n] = log[k]
  BY DEF FromLog
<1>2. k \in 1 .. tail' /\ s[n] = log'[k]
  BY <1>1
<1>3. QED BY <1>2

LEMMA AscendingAppend ==
  ASSUME NEW s \in Seq(Versions), NEW v, Ascending(s), \A m \in 1 .. Len(s) : s[m] < v
  PROVE  Ascending(Append(s, v))
<1>1. /\ Len(Append(s, v)) = Len(s) + 1 /\ Append(s, v)[Len(s) + 1] = v /\ Len(s) \in Nat
      /\ \A n \in 1 .. Len(s) : Append(s, v)[n] = s[n]
  OBVIOUS
<1>2. ASSUME NEW m \in 1 .. Len(s) + 1, NEW n \in 1 .. Len(s) + 1, m < n
      PROVE  Append(s, v)[m] < Append(s, v)[n]
  <2>1. m \in 1 .. Len(s)
    BY <1>1, <1>2
  <2>2. CASE n = Len(s) + 1
    BY <1>1, <2>1, <2>2
  <2>3. CASE n \in 1 .. Len(s)
    BY <1>1, <1>2, <2>1, <2>3 DEF Ascending
  <2>4. QED BY <1>1, <2>2, <2>3
<1>3. QED BY <1>1, <1>2 DEF Ascending

LEMMA OrderStart == LinkInit /\ received = <<>> => OrderInv
  BY DEF LinkInit, OrderInv, FromLog, Ascending

(* Publishing, forwarding and reconnecting keep the order; so does losing  *)
(* what was on the wire.                                                   *)
LEMMA OrderStays ==
  ASSUME LinkInv, Made(received), OrderInv, received' = received,
         LinkStep \/ LoseLink \/ Close \/ UNCHANGED linkVars
  PROVE  OrderInv'
<1> USE DEF Versions
<1>0. /\ log \in Seq(Versions) /\ wire \in Seq(Versions) /\ received \in Seq(Versions)
      /\ tail \in Nat /\ tail <= Len(log) /\ Len(log) \in Nat
      /\ FromLog(received) /\ FromLog(wire)
  BY DEF LinkInv, Made, OrderInv
<1>1. CASE UNCHANGED <<log, wire, tail>>
  BY <1>1 DEF OrderInv, FromLog, Ascending, Resource!PublishedInOrder
<1>2. CASE StartTail
  <2>1. UNCHANGED <<log, wire>> /\ tail' = Len(log)
    BY <1>2 DEF StartTail
  <2>2. FromLog(received)' /\ FromLog(wire)'
    <3>1. ASSUME NEW s, FromLog(s)
          PROVE  \A n \in 1 .. Len(s) : \E k \in 1 .. tail' : s[n] = log'[k]
      BY <1>0, <2>1, <3>1, FromLogLater
    <3>2. QED BY <1>0, <2>1, <3>1 DEF FromLog
  <2>3. QED BY <2>1, <2>2 DEF OrderInv, Ascending, Resource!PublishedInOrder
<1>3. CASE LoseLink \/ Close
  <2>1. UNCHANGED <<log, tail>> /\ wire' = <<>>
    BY <1>3 DEF LoseLink, Close
  <2>2. Len(wire') = 0
    BY <2>1
  <2>3. QED BY <2>1, <2>2 DEF OrderInv, FromLog, Ascending, Resource!PublishedInOrder
<1>4. ASSUME NEW v \in Versions, Publish(v) PROVE OrderInv'
  <2>1. UNCHANGED <<wire, tail>> /\ log' = Append(log, v)
    BY <1>4 DEF Publish
  <2>2. /\ Len(log') = Len(log) + 1 /\ log'[Len(log) + 1] = v
        /\ \A k \in 1 .. Len(log) : log'[k] = log[k]
    BY <1>0, <2>1
  <2>3. FromLog(received)' /\ FromLog(wire)'
    <3>1. ASSUME NEW s, FromLog(s)
          PROVE  \A n \in 1 .. Len(s) : \E k \in 1 .. tail' : s[n] = log'[k]
      <4>1. \A k \in 1 .. tail : log'[k] = log[k]
        BY <1>0, <2>2
      <4>2. tail' \in Nat /\ tail <= tail'
        BY <1>0, <2>1
      <4>3. QED BY <1>0, <3>1, <4>1, <4>2, FromLogLater
    <3>2. /\ \A n \in 1 .. Len(received) : \E k \in 1 .. tail' : received[n] = log'[k]
          /\ \A n \in 1 .. Len(wire) : \E k \in 1 .. tail' : wire[n] = log'[k]
      BY <1>0, <3>1
    <3>3. QED BY <2>1, <3>2 DEF FromLog
  <2>4. ASSUME Resource!PublishedInOrder'
        PROVE  Resource!PublishedInOrder /\ (Len(log) > 0 => log[Len(log)] < v)
    <3>1. \A n \in 1 .. Len(log) : log'[n] < log'[n + 1]
      BY <1>0, <2>2, <2>4 DEF Resource!PublishedInOrder
    <3>2. \A n \in 1 .. Len(log) - 1 : n \in 1 .. Len(log) /\ n + 1 \in 1 .. Len(log)
      BY <1>0
    <3>3. Resource!PublishedInOrder
      <4>1. ASSUME NEW n \in 1 .. Len(log) - 1 PROVE log[n] < log[n + 1]
        <5>1. n \in 1 .. Len(log) /\ n + 1 \in 1 .. Len(log)
          BY <3>2
        <5>2. QED BY <2>2, <3>1, <5>1
      <4>2. QED BY <4>1 DEF Resource!PublishedInOrder
    <3>4. ASSUME Len(log) > 0 PROVE log[Len(log)] < v
      <4>1. Len(log) \in 1 .. Len(log)
        BY <1>0, <3>4
      <4>2. QED BY <2>2, <3>1, <4>1
    <3>5. QED BY <3>3, <3>4
  <2>5. ASSUME Resource!PublishedInOrder' PROVE Ascending(log)'
    <3>1. Ascending(log) /\ (Len(log) > 0 => log[Len(log)] < v)
      BY <2>4, <2>5 DEF OrderInv
    <3>2. \A m \in 1 .. Len(log) : log[m] < v
      <4>1. SUFFICES ASSUME NEW m \in 1 .. Len(log) PROVE log[m] < v
        OBVIOUS
      <4>2. Len(log) \in 1 .. Len(log) /\ log[m] \in Int /\ log[Len(log)] \in Int /\ v \in Int
        BY <1>0, <1>4
      <4>3. QED BY <3>1, <4>2 DEF Ascending
    <3>3. QED BY <1>0, <2>1, <3>1, <3>2, AscendingAppend DEF Ascending
  <2>6. QED BY <2>1, <2>3, <2>4, <2>5 DEF OrderInv, Ascending
<1>5. CASE Forward
  <2>1. /\ UNCHANGED log /\ tail' = tail + 1 /\ tail + 1 \in 1 .. Len(log)
        /\ wire' = Append(wire, log[tail + 1])
    BY <1>0, <1>5 DEF Forward
  <2>2. /\ Len(wire') = Len(wire) + 1 /\ wire'[Len(wire) + 1] = log[tail + 1]
        /\ \A n \in 1 .. Len(wire) : wire'[n] = wire[n]
        /\ Len(wire) \in Nat
    BY <1>0, <2>1
  <2>3. ASSUME NEW s, FromLog(s)
        PROVE  \A n \in 1 .. Len(s) : \E k \in 1 .. tail' : s[n] = log'[k]
    BY <1>0, <2>1, <2>3, FromLogLater
  <2>4. FromLog(received)'
    BY <1>0, <2>1, <2>3 DEF FromLog
  <2>5. FromLog(wire)'
    <3>1. \A n \in 1 .. Len(wire) : \E k \in 1 .. tail' : wire[n] = log'[k]
      BY <1>0, <2>3
    <3>2. tail + 1 \in 1 .. tail'
      BY <1>0, <2>1
    <3>3. ASSUME NEW n \in 1 .. Len(wire') PROVE \E k \in 1 .. tail' : wire'[n] = log'[k]
      <4>1. CASE n \in 1 .. Len(wire)
        BY <2>2, <3>1, <4>1
      <4>2. CASE n = Len(wire) + 1
        BY <2>1, <2>2, <3>2, <4>2
      <4>3. QED BY <2>2, <3>3, <4>1, <4>2
    <3>4. QED BY <3>3 DEF FromLog
  <2>6. ASSUME Resource!PublishedInOrder, NEW s, FromLog(s), NEW n \in 1 .. Len(s)
        PROVE  s[n] < log[tail + 1]
    <3>1. PICK k \in 1 .. tail : s[n] = log[k]
      BY <2>6 DEF FromLog
    <3>2. k \in 1 .. Len(log) /\ k < tail + 1 /\ Ascending(log)
      BY <1>0, <2>1, <2>6 DEF OrderInv
    <3>3. QED BY <2>1, <3>1, <3>2 DEF Ascending
  <2>7. ASSUME Resource!PublishedInOrder
        PROVE  /\ Ascending(wire)'
               /\ \A m \in 1 .. Len(received), n \in 1 .. Len(wire') : received[m] < wire'[n]
    <3>1. /\ Ascending(wire) /\ \A m \in 1 .. Len(wire) : wire[m] < log[tail + 1]
          /\ \A m \in 1 .. Len(received) : received[m] < log[tail + 1]
          /\ \A m \in 1 .. Len(received), n \in 1 .. Len(wire) : received[m] < wire[n]
      BY <1>0, <2>6, <2>7 DEF OrderInv
    <3>2. Ascending(wire)'
      BY <2>2, <3>1 DEF Ascending
    <3>3. QED BY <2>2, <3>1, <3>2
  <2>8. Resource!PublishedInOrder' <=> Resource!PublishedInOrder
    BY <2>1 DEF Resource!PublishedInOrder
  <2>9. QED BY <2>1, <2>4, <2>5, <2>7, <2>8 DEF OrderInv, Ascending
<1>6. QED
  BY <1>1, <1>2, <1>3, <1>4, <1>5
  DEF LinkStep, Write, PublishFails, Handshake, linkVars

(* The message that is taken was the first on the wire.                    *)
LEMMA OrderTakes ==
  ASSUME LinkInv, Made(received), OrderInv, NEW v, Take(v), received' = Append(received, v)
  PROVE  OrderInv'
<1> USE DEF Versions
<1>0. /\ log \in Seq(Versions) /\ wire \in Seq(Versions) /\ received \in Seq(Versions)
      /\ tail \in Nat /\ FromLog(received) /\ FromLog(wire) /\ UNCHANGED <<log, tail>>
      /\ 1 \in 1 .. Len(wire) /\ v = wire[1]
  BY TakeFirst, SMTT(30) DEF LinkInv, Made, OrderInv
<1>1. /\ Len(wire') = Len(wire) - 1 /\ \A n \in 1 .. Len(wire') : wire'[n] = wire[n + 1]
      /\ \A n \in 1 .. Len(wire') : n + 1 \in 1 .. Len(wire)
  BY <1>0, TakeFirst
<1>2. /\ Len(received') = Len(received) + 1 /\ received'[Len(received) + 1] = v
      /\ \A n \in 1 .. Len(received) : received'[n] = received[n]
      /\ Len(received) \in Nat
  BY <1>0
<1>3. FromLog(wire)'
  <2>1. ASSUME NEW n \in 1 .. Len(wire') PROVE \E k \in 1 .. tail' : wire'[n] = log'[k]
    <3>1. n + 1 \in 1 .. Len(wire) /\ wire'[n] = wire[n + 1]
      BY <1>1
    <3>2. PICK k \in 1 .. tail : wire[n + 1] = log[k]
      BY <1>0, <3>1 DEF FromLog
    <3>3. QED BY <1>0, <3>1, <3>2
  <2>2. QED BY <2>1 DEF FromLog
<1>4. FromLog(received)'
  <2>1. ASSUME NEW n \in 1 .. Len(received')
        PROVE  \E k \in 1 .. tail' : received'[n] = log'[k]
    <3>1. CASE n \in 1 .. Len(received)
      <4>1. PICK k \in 1 .. tail : received[n] = log[k]
        BY <1>0, <3>1 DEF FromLog
      <4>2. QED BY <1>0, <1>2, <3>1, <4>1
    <3>2. CASE n = Len(received) + 1
      <4>1. PICK k \in 1 .. tail : wire[1] = log[k]
        BY <1>0 DEF FromLog
      <4>2. QED BY <1>0, <1>2, <3>2, <4>1
    <3>3. QED BY <1>2, <3>1, <3>2
  <2>2. QED BY <2>1 DEF FromLog
<1>5. ASSUME Resource!PublishedInOrder
      PROVE  /\ Ascending(wire)' /\ Ascending(received)'
             /\ \A m \in 1 .. Len(received'), n \in 1 .. Len(wire') : received'[m] < wire'[n]
  <2>1. /\ Ascending(wire) /\ Ascending(received)
        /\ \A m \in 1 .. Len(received), n \in 1 .. Len(wire) : received[m] < wire[n]
    BY <1>5 DEF OrderInv
  <2>2. Ascending(wire)'
    BY <1>1, <2>1 DEF Ascending
  <2>3. Ascending(received)'
    <3>1. \A m \in 1 .. Len(received) : received[m] < v
      BY <1>0, <2>1
    <3>2. Ascending(Append(received, v))
      BY <1>0, <2>1, <3>1, AscendingAppend
    <3>3. QED BY <3>2 DEF Ascending
  <2>4. \A n \in 1 .. Len(wire') : v < wire'[n]
    <3>1. SUFFICES ASSUME NEW n \in 1 .. Len(wire') PROVE v < wire'[n]
      OBVIOUS
    <3>2. n + 1 \in 1 .. Len(wire) /\ 1 < n + 1 /\ wire'[n] = wire[n + 1]
      BY <1>0, <1>1
    <3>3. QED BY <1>0, <2>1, <3>2 DEF Ascending
  <2>5. QED BY <1>1, <1>2, <2>1, <2>2, <2>3, <2>4, SMTT(30)
<1>6. QED
  BY <1>0, <1>3, <1>4, <1>5 DEF OrderInv, Ascending, Resource!PublishedInOrder
-----------------------------------------------------------------------------
(* Resources.                                                              *)

FetchState ==
  {Resource!Idle, Resource!Asked}
  \cup [at : {"read"}, val : Nat \cup {Resource!ErrorValue}]

(* The change v is shown, or will be when what was begun has ended.        *)
Due(v) ==
  \/ trigger
  \/ fetch = Resource!Asked
  \/ fetch.at = "read" /\ (fetch.val = Resource!ErrorValue \/ fetch.val >= v)
  \/ fetch = Resource!Idle /\ Resource!Shows(v)

Latest == received[Len(received)]

RefetchInv ==
  hook.strategy = "refetch" =>
    /\ directValue = Resource!NoValue
    /\ \A n \in 1 .. Len(received) : Due(received[n])

(* A readable payload, once it is shown, is not overwritten by a fetch:    *)
(* none starts while there is a direct value.                              *)
ReplaceInv ==
  hook.strategy = "replace" =>
    /\ received = <<>> => ~trigger /\ directValue = Resource!NoValue
    /\ received # <<>> /\ Resource!Reads(Latest) =>
         /\ directValue = Latest
         /\ trigger \/ (value = Latest /\ fetch = Resource!Idle)
    /\ received # <<>> /\ ~Resource!Reads(Latest) =>
         directValue = Resource!NoValue /\ Due(Latest)

ResourceTypes ==
  /\ hook \in Hooks /\ ~IsList
  /\ trigger \in BOOLEAN /\ fetch \in FetchState
  /\ directValue \in {Resource!NoValue} \cup Versions
  /\ value \in {Resource!NoValue, Resource!ErrorValue} \cup Nat

ResourceInv ==
  ResourceTypes /\ Made(received) /\ OrderInv /\ RefetchInv /\ ReplaceInv

LEMMA HookFacts ==
  ASSUME NEW h \in Hooks
  PROVE  /\ h.strategy \in {"refetch", "replace", "append"}
         /\ h.name = "synced_resource_append" <=> h.strategy = "append"
         /\ h.strategy = "replace" /\ h.known => h.fits
<1>1. PICK f \in Functions :
        /\ Compiles(f)
        /\ h = [name |-> HookOf(f).name, strategy |-> Strategy(f),
                fits |-> Strategy(f) = "refetch" \/ HookOf(f).reads = Payload(f),
                known |-> Strategy(f) = "refetch" \/ f.returns # "alias"]
  BY DEF Hooks
<1>2. Strategy(f) \in {"refetch", "replace", "append"}
  BY <1>1 DEF Functions, Compiles, Strategy
<1>3. Strategy(f) = "append" =>
        HookOf(f).name = "synced_resource_append"
  BY DEF HookOf
<1>4. Strategy(f) # "append" =>
        HookOf(f).name \in {"synced_resource", "synced_resource_replace_result"}
  BY DEF HookOf, SyncedResourceOf
<1>5. Strategy(f) = "replace" /\ f.returns # "alias" => HookOf(f).reads = Payload(f)
  BY <1>1 DEF HookOf, SyncedResourceOf, Payload, ReturnsResult, Functions, Compiles
<1>6. QED BY <1>1, <1>2, <1>3, <1>4, <1>5

(* The places of a fetch exclude each other.                               *)
LEMMA FetchPlaces ==
  ASSUME fetch \in FetchState
  PROVE  /\ fetch.at \in {"idle", "asked", "read"}
         /\ fetch.at = "idle" <=> fetch = Resource!Idle
         /\ fetch.at = "asked" <=> fetch = Resource!Asked
         /\ fetch.at = "read" => fetch.val \in Nat \cup {Resource!ErrorValue}
  BY DEF FetchState, Resource!Idle, Resource!Asked

(* What a resource is due to show stays due, whatever it does next.        *)
LEMMA DueStays ==
  ASSUME LinkInv, fetch \in FetchState, NEW v \in Versions, v <= store, Due(v),
         \/ Resource!StartFetch \/ Resource!ServerReads \/ Resource!FetchFails
         \/ Resource!Reply
         \/ UNCHANGED <<fetch, value>> /\ (trigger' = trigger \/ trigger' = TRUE)
  PROVE  Due(v)'
<1>1. CASE Resource!StartFetch
  BY <1>1 DEF Resource!StartFetch, Due
<1>2. CASE Resource!ServerReads
  BY <1>2 DEF Resource!ServerReads, Due
<1>3. CASE Resource!FetchFails
  BY <1>3 DEF Resource!FetchFails, Due
<1>4. CASE Resource!Reply
  <2>1. /\ trigger' = trigger /\ fetch' = Resource!Idle /\ value' = fetch.val
        /\ fetch.at = "read" /\ fetch # Resource!Asked /\ fetch # Resource!Idle
    BY <1>4, FetchPlaces DEF Resource!Reply
  <2>2. QED BY <2>1 DEF Due, Resource!Shows
<1>5. CASE UNCHANGED <<fetch, value>> /\ (trigger' = trigger \/ trigger' = TRUE)
  BY <1>5 DEF Due, Resource!Shows
<1>6. QED BY <1>1, <1>2, <1>3, <1>4, <1>5

LEMMA ResourceStart ==
  ASSUME Resource!Init, hook \in Hooks, ~IsList
  PROVE  ResourceInv
<1>1. /\ received = <<>> /\ trigger = FALSE /\ directValue = Resource!NoValue
      /\ fetch \in {Resource!Idle, Resource!Asked} /\ value \in {Resource!NoValue, 0}
  BY DEF Resource!Init
<1>2. LinkInit
  BY DEF Resource!Init, Resource!LinkInit, LinkInit
<1>3. ResourceTypes
  <2>1. fetch \in FetchState
    BY <1>1 DEF FetchState
  <2>2. value \in {Resource!NoValue, Resource!ErrorValue} \cup Nat
    BY <1>1
  <2>3. directValue \in {Resource!NoValue} \cup Versions /\ trigger \in BOOLEAN
    BY <1>1
  <2>4. QED BY <2>1, <2>2, <2>3 DEF ResourceTypes
<1>4. Made(received) /\ OrderInv
  BY <1>1, <1>2, OrderStart DEF Made
<1>5. RefetchInv /\ ReplaceInv
  BY <1>1, HookFacts DEF RefetchInv, ReplaceInv
<1>6. QED BY <1>3, <1>4, <1>5 DEF ResourceInv

(* A step that takes no message.                                           *)
LEMMA ResourceMoves ==
  ASSUME LinkInv, ResourceInv, ResourceTypes', RefetchInv', ReplaceInv', received' = received,
         LinkStep \/ LoseLink \/ Close \/ UNCHANGED linkVars
  PROVE  LinkInv' /\ ResourceInv'
<1>1. LinkInv'
  BY LinkStays
<1>2. Made(received) /\ OrderInv
  BY DEF ResourceInv
<1>3. store \in Nat /\ store' \in Nat /\ store <= store'
  BY <1>1 DEF LinkInv, LinkStep, LoseLink, Close, linkVars, Write, Publish, PublishFails,
     Handshake, StartTail, Forward
<1>4. Made(received)'
  <2>1. received \in Seq(Versions) /\ \A n \in 1 .. Len(received) : received[n] <= store'
    BY <1>2, <1>3, MadeStays
  <2>2. QED BY <2>1 DEF Made
<1>5. OrderInv'
  BY <1>2, OrderStays
<1>6. QED BY <1>1, <1>4, <1>5 DEF ResourceInv

(* A message: the trigger is bumped, so all that was heard is due.         *)
LEMMA ResourceTakes ==
  ASSUME LinkInv, ResourceInv, Resource!Receive
  PROVE  LinkInv' /\ ResourceInv'
<1>1. PICK v \in Resource!Versions :
        Resource!Take(v) /\ Resource!Inject(v) /\ received' = Append(received, v)
  BY DEF Resource!Receive
<1>2. Take(v) /\ trigger' = TRUE /\ UNCHANGED <<hook, fetch, value>>
  BY <1>1, SameLink DEF Resource!Receive, Resource!Bump
<1>3. /\ ResourceTypes /\ Made(received) /\ OrderInv /\ RefetchInv /\ ReplaceInv
      /\ v \in Versions /\ v <= store /\ store' = store
  BY <1>2, TakeFirst DEF ResourceInv
<1>4. LinkInv'
  BY <1>2, LinkStays
<1>5. Made(received)'
  <2>1. received' \in Seq(Versions) /\ \A n \in 1 .. Len(received') : received'[n] <= store'
    BY <1>1, <1>3, MadeGrows
  <2>2. QED BY <2>1 DEF Made
<1>6. OrderInv'
  BY <1>1, <1>2, <1>3, OrderTakes
<1>7. /\ received' # <<>> /\ Latest' = v
  BY <1>1, <1>3 DEF Made, Latest
<1>8. directValue' = IF hook.strategy = "replace" /\ hook.fits /\ v \notin Unreadable
                     THEN v ELSE Resource!NoValue
  BY <1>1 DEF Resource!Inject, Resource!strategy, Resource!Reads
<1>9. ResourceTypes'
  BY <1>2, <1>3, <1>8 DEF ResourceTypes, IsList
<1>10. RefetchInv'
  BY <1>2, <1>8 DEF RefetchInv, Due
<1>11. ReplaceInv'
  BY <1>2, <1>3, <1>7, <1>8 DEF ReplaceInv, Resource!Reads, Due
<1>12. QED BY <1>4, <1>5, <1>6, <1>9, <1>10, <1>11 DEF ResourceInv

(* Fetches and injected values.                                            *)
LEMMA ResourceRuns ==
  ASSUME LinkInv, ResourceInv, Resource!Run
  PROVE  ResourceTypes' /\ RefetchInv' /\ ReplaceInv'
<1>0. /\ ResourceTypes /\ RefetchInv /\ ReplaceInv /\ store \in Nat
      /\ received \in Seq(Versions) /\ \A n \in 1 .. Len(received) : received[n] <= store
      /\ received # <<>> => Latest \in Versions /\ Latest <= store
  BY DEF ResourceInv, LinkInv, Made, Latest
<1>1. UNCHANGED <<hook, directValue, received>>
  BY DEF Resource!Run, Resource!ShowInjected, Resource!StartFetch, Resource!ServerReads,
     Resource!FetchFails, Resource!Reply
<1>2. CASE Resource!ShowInjected
  <2>1. /\ trigger /\ fetch = Resource!Idle /\ directValue # Resource!NoValue /\ trigger' = FALSE
        /\ value' = directValue /\ fetch' = fetch
    BY <1>0, <1>2, FetchPlaces DEF Resource!ShowInjected, ResourceTypes
  <2>2. ResourceTypes'
    <3>1. directValue \in Versions /\ directValue \in Nat
      BY <1>0, <2>1 DEF ResourceTypes, Versions
    <3>2. value' \in {Resource!NoValue, Resource!ErrorValue} \cup Nat
      BY <2>1, <3>1
    <3>3. QED BY <1>0, <1>1, <2>1, <3>2 DEF ResourceTypes, IsList
  <2>3. RefetchInv'
    BY <1>0, <1>1, <2>1 DEF RefetchInv
  <2>4. ReplaceInv'
    BY <1>0, <1>1, <2>1 DEF ReplaceInv, Resource!Reads, Latest
  <2>5. QED BY <2>2, <2>3, <2>4
<1>3. CASE Resource!StartFetch \/ Resource!ServerReads \/ Resource!FetchFails \/ Resource!Reply
  <2>1. ResourceTypes'
    <3>1. CASE Resource!StartFetch
      BY <1>0, <1>1, <3>1 DEF Resource!StartFetch, ResourceTypes, IsList, FetchState
    <3>2. CASE Resource!ServerReads \/ Resource!FetchFails
      BY <1>0, <1>1, <3>2
      DEF Resource!ServerReads, Resource!FetchFails, ResourceTypes, IsList, FetchState
    <3>3. CASE Resource!Reply
      <4>1. /\ fetch.val \in Nat \cup {Resource!ErrorValue} /\ trigger' = trigger
            /\ value' = fetch.val /\ fetch' = Resource!Idle
        BY <1>0, <3>3, FetchPlaces DEF Resource!Reply, ResourceTypes
      <4>2. QED BY <1>0, <1>1, <4>1 DEF ResourceTypes, IsList, FetchState
    <3>4. QED BY <1>3, <3>1, <3>2, <3>3
  <2>2. \A v \in Versions : v <= store /\ Due(v) => Due(v)'
    BY <1>0, <1>3, DueStays DEF ResourceTypes
  <2>3. RefetchInv'
    <3>1. \A n \in 1 .. Len(received) : received[n] \in Versions
      BY <1>0
    <3>2. \A n \in 1 .. Len(received) : Due(received[n]) => Due(received[n])'
      BY <1>0, <1>1, <2>2, <3>1
    <3>3. QED BY <1>0, <1>1, <3>2 DEF RefetchInv
  <2>4. ReplaceInv'
    <3>1. received # <<>> /\ Due(Latest) => Due(Latest)'
      BY <1>0, <1>1, <2>2 DEF Latest
    <3>2. trigger' => trigger
      BY <1>3 DEF Resource!StartFetch, Resource!ServerReads, Resource!FetchFails, Resource!Reply
    <3>3. ASSUME hook.strategy = "replace", received # <<>>, Resource!Reads(Latest)
          PROVE  trigger' \/ (value' = Latest /\ fetch' = Resource!Idle)
      <4>1. directValue # Resource!NoValue
        BY <1>0, <3>3 DEF ReplaceInv, Versions, Resource!NoValue
      <4>2. ~Resource!StartFetch
        BY <4>1 DEF Resource!StartFetch
      <4>3. trigger' = trigger /\ fetch # Resource!Idle
        BY <1>0, <1>3, <4>2, FetchPlaces
        DEF Resource!ServerReads, Resource!FetchFails, Resource!Reply, ResourceTypes
      <4>4. QED BY <1>0, <3>3, <4>3 DEF ReplaceInv
    <3>4. QED BY <1>0, <1>1, <3>1, <3>2, <3>3 DEF ReplaceInv, Resource!Reads, Latest
  <2>5. QED BY <2>1, <2>3, <2>4
<1>4. QED BY <1>2, <1>3 DEF Resource!Run

LEMMA ResourceStep ==
  ASSUME LinkInv, ResourceInv, Resource!Next
  PROVE  LinkInv' /\ ResourceInv'
<1>0. ResourceTypes /\ RefetchInv /\ ReplaceInv
  BY DEF ResourceInv
<1>1. CASE (LinkStep \/ LoseLink \/ Close) /\ UNCHANGED Resource!clientVars
  <2>1. UNCHANGED <<hook, directValue, trigger, fetch, value, received>>
    BY <1>1 DEF Resource!clientVars
  <2>2. ResourceTypes' /\ RefetchInv' /\ ReplaceInv'
    BY <1>0, <2>1
    DEF ResourceTypes, IsList, RefetchInv, ReplaceInv, Resource!Reads, Latest, Due,
        Resource!Shows
  <2>3. QED BY <1>1, <2>1, <2>2, ResourceMoves
<1>2. CASE Resource!Receive
  BY <1>2, ResourceTakes
<1>3. CASE Resource!Refetch
  <2>1. /\ trigger' = TRUE /\ hook.strategy = "refetch" /\ UNCHANGED linkVars
        /\ UNCHANGED <<hook, directValue, fetch, value, received>>
    BY <1>3 DEF Resource!Refetch, Resource!Bump, Resource!strategy, Resource!linkVars, linkVars
  <2>2. ResourceTypes' /\ RefetchInv' /\ ReplaceInv'
    BY <1>0, <2>1 DEF ResourceTypes, IsList, RefetchInv, ReplaceInv, Due
  <2>3. QED BY <2>1, <2>2, ResourceMoves
<1>4. CASE Resource!Run
  <2>1. UNCHANGED linkVars /\ received' = received
    BY <1>4 DEF Resource!Run, Resource!ShowInjected, Resource!StartFetch,
       Resource!ServerReads, Resource!FetchFails, Resource!Reply, Resource!linkVars, linkVars
  <2>2. QED BY <1>4, <2>1, ResourceRuns, ResourceMoves
<1>5. QED BY <1>1, <1>2, <1>3, <1>4, SameLink DEF Resource!Next
-----------------------------------------------------------------------------
(* Lists.                                                                  *)

Has(s, v) == \E n \in 1 .. Len(s) : s[n] = v

ListTypes ==
  /\ status \in {"none", "ok", "error"} /\ load \in {"asked", "read", "done"}
  /\ covered \in BOOLEAN
  /\ snapshot \in Seq(Versions) /\ items \in Seq(Versions)
  /\ pending \in Seq(Versions) /\ list \in Seq(Versions)

(* While the list is covered, every change its stream forwarded is in the  *)
(* snapshot or among the items taken, or is on the wire.                   *)
Covers(v) == v \in Unreadable \/ Has(snapshot, v) \/ Has(items, v) \/ Has(wire, v)
CoverInv == covered => link = "tailing" /\ \A k \in 1 .. tail : Covers(log[k])

ListInv ==
  /\ ListTypes /\ CoverInv
  /\ load = "done" <=> status # "none"
  /\ status = "none" => pending = items
  /\ status = "ok" => list = snapshot \o items
  /\ load = "asked" => ~covered

HookInv == LinkInv /\ (~IsList => ResourceInv) /\ (IsList => ListInv)

LEMMA HasAppend ==
  ASSUME NEW s \in Seq(Versions), NEW v \in Versions, NEW x
  PROVE  Has(Append(s, v), x) <=> Has(s, x) \/ x = v
<1>1. /\ Len(Append(s, v)) = Len(s) + 1 /\ Append(s, v)[Len(s) + 1] = v /\ Len(s) \in Nat
      /\ \A n \in 1 .. Len(s) : Append(s, v)[n] = s[n]
  OBVIOUS
<1>2. ASSUME Has(s, x) PROVE Has(Append(s, v), x)
  <2>1. PICK n \in 1 .. Len(s) : s[n] = x
    BY <1>2 DEF Has
  <2>2. n \in 1 .. Len(s) + 1 /\ Append(s, v)[n] = x
    BY <1>1, <2>1
  <2>3. QED BY <1>1, <2>2 DEF Has
<1>3. ASSUME x = v PROVE Has(Append(s, v), x)
  <2>1. Len(s) + 1 \in 1 .. Len(s) + 1
    BY <1>1
  <2>2. QED BY <1>1, <1>3, <2>1 DEF Has
<1>4. ASSUME Has(Append(s, v), x), x # v PROVE Has(s, x)
  <2>1. PICK n \in 1 .. Len(s) + 1 : Append(s, v)[n] = x
    BY <1>1, <1>4 DEF Has
  <2>2. n \in 1 .. Len(s)
    BY <1>1, <1>4, <2>1
  <2>3. QED BY <1>1, <2>1, <2>2 DEF Has
<1>5. QED BY <1>2, <1>3, <1>4

LEMMA HasRest ==
  ASSUME LinkInv, NEW v, Take(v), NEW x, Has(wire, x), x # v
  PROVE  Has(wire', x)
<1>1. PICK n \in 1 .. Len(wire) : wire[n] = x
  BY DEF Has
<1>2. n - 1 \in 1 .. Len(wire') /\ wire'[n - 1] = x
  <2>1. Len(wire) \in Nat /\ Len(wire') = Len(wire) - 1 /\ n # 1
    BY <1>1, TakeFirst
  <2>2. n - 1 \in 1 .. Len(wire') /\ (n - 1) + 1 = n
    BY <2>1
  <2>3. wire'[n - 1] = wire[(n - 1) + 1]
    BY <2>2, TakeFirst
  <2>4. QED BY <1>1, <2>2, <2>3
<1>3. QED BY <1>2 DEF Has

LEMMA ListStart ==
  ASSUME AppendedList!Init
  PROVE  ListInv
<1>1. /\ status = "none" /\ load = "asked" /\ covered = FALSE /\ list = <<>>
      /\ pending = <<>> /\ snapshot = <<>> /\ items = <<>>
  BY DEF AppendedList!Init
<1>2. <<>> \in Seq(Versions)
  OBVIOUS
<1>3. ListTypes
  BY <1>1, <1>2 DEF ListTypes
<1>4. QED BY <1>1, <1>3 DEF ListInv, CoverInv

(* The stream goes on behind a list that is covered.                       *)
LEMMA CoverStays ==
  ASSUME LinkInv, ListTypes, CoverInv, LinkStep, UNCHANGED AppendedList!clientVars
  PROVE  CoverInv'
<1> SUFFICES ASSUME covered, link = "tailing", \A k \in 1 .. tail : Covers(log[k])
             PROVE  CoverInv'
  BY DEF CoverInv, AppendedList!clientVars
<1>0. /\ log \in Seq(Versions) /\ wire \in Seq(Versions) /\ tail \in Nat /\ tail <= Len(log)
      /\ Len(log) \in Nat /\ UNCHANGED <<covered, snapshot, items>>
  BY DEF LinkInv, Made, AppendedList!clientVars
<1>1. CASE Write \/ \E v \in Versions : PublishFails(v)
  BY <1>0, <1>1 DEF Write, PublishFails, CoverInv, Covers, Has
<1>2. ASSUME NEW v \in Versions, Publish(v) PROVE CoverInv'
  <2>1. UNCHANGED <<link, tail, wire>> /\ \A k \in 1 .. tail : log'[k] = log[k]
    BY <1>0, <1>2 DEF Publish
  <2>2. QED BY <1>0, <2>1, SMTT(30) DEF CoverInv, Covers, Has
<1>3. CASE Forward
  <2>1. /\ UNCHANGED <<log, link>> /\ tail' = tail + 1 /\ wire' = Append(wire, log[tail + 1])
        /\ log[tail + 1] \in Versions
    BY <1>0, <1>3 DEF Forward
  <2>2. \A x : Has(wire', x) <=> Has(wire, x) \/ x = log[tail + 1]
    BY <1>0, <2>1, HasAppend
  <2>3. \A x : Covers(x) \/ x = log[tail + 1] => Covers(x)'
    BY <1>0, <2>2 DEF Covers, Has
  <2>4. \A k \in 1 .. tail' : k \in 1 .. tail \/ k = tail + 1
    BY <1>0, <2>1
  <2>5. \A k \in 1 .. tail' : Covers(log[k])'
    <3>1. ASSUME NEW k \in 1 .. tail' PROVE Covers(log[k])'
      <4>1. Covers(log[k]) \/ log[k] = log[tail + 1]
        BY <2>4
      <4>2. log' = log
        BY <2>1
      <4>3. QED BY <2>3, <4>1, <4>2, Zenon DEF Covers, Has
    <3>2. QED BY <3>1
  <2>6. QED BY <1>0, <2>1, <2>5 DEF CoverInv
<1>4. QED BY <1>1, <1>2, <1>3 DEF LinkStep, Handshake, StartTail

LEMMA ListFetches ==
  ASSUME LinkInv, ListInv, AppendedList!Fetch
  PROVE  ListInv'
<1>0. ListTypes /\ CoverInv
  BY DEF ListInv
<1>1. CASE AppendedList!ServerReads
  <2>1. /\ load = "asked" /\ load' = "read" /\ snapshot' = [n \in 1 .. store |-> n]
        /\ covered' = (link = "tailing") /\ UNCHANGED <<status, list, pending, items>>
        /\ UNCHANGED <<store, log, link, tail, wire>>
    BY <1>1 DEF AppendedList!ServerReads, AppendedList!linkVars
  <2>2. snapshot' \in Seq(Versions)
    <3>1. store \in Nat /\ \A n \in 1 .. store : n \in Versions
      BY DEF LinkInv, Versions
    <3>2. QED BY <2>1, <3>1
  <2>3. \A k \in 1 .. tail : Has(snapshot', log[k])
    <3>1. SUFFICES ASSUME NEW k \in 1 .. tail PROVE Has(snapshot', log[k])
      OBVIOUS
    <3>2. log[k] \in 1 .. store
      BY DEF LinkInv, Made, Versions
    <3>3. Len(snapshot') = store /\ snapshot'[log[k]] = log[k]
      BY <2>1, <3>2 DEF LinkInv
    <3>4. QED BY <3>2, <3>3 DEF Has
  <2>4. CoverInv'
    <3>1. tail' = tail /\ log' = log
      BY <2>1
    <3>2. ASSUME NEW k \in 1 .. tail' PROVE Covers(log[k])'
      <4>1. Has(snapshot', log'[k])
        BY <2>3, <3>1
      <4>2. QED BY <4>1 DEF Covers, Has
    <3>3. QED BY <2>1, <3>2 DEF CoverInv
  <2>5. QED BY <1>0, <2>1, <2>2, <2>4 DEF ListInv, ListTypes
<1>2. CASE AppendedList!FetchOk \/ AppendedList!FetchFails
  <2>1. /\ load # "done" /\ load' = "done" /\ pending' = <<>>
        /\ UNCHANGED <<snapshot, items, covered, log, link, tail, wire>>
        /\ \/ status' = "ok" /\ list' = snapshot \o pending /\ load = "read"
           \/ status' = "error" /\ list' = list
    BY <1>2 DEF AppendedList!FetchOk, AppendedList!FetchFails, AppendedList!linkVars
  <2>2. snapshot \o pending \in Seq(Versions)
    BY <1>0 DEF ListTypes
  <2>3. CoverInv'
    BY <1>0, <2>1 DEF CoverInv, Covers, Has
  <2>4. pending = items
    BY <2>1 DEF ListInv
  <2>5. ListTypes'
    <3>1. <<>> \in Seq(Versions)
      OBVIOUS
    <3>2. list' \in Seq(Versions) /\ status' \in {"none", "ok", "error"}
      BY <1>0, <2>1, <2>2 DEF ListTypes
    <3>3. QED BY <1>0, <2>1, <3>1, <3>2 DEF ListTypes
  <2>6. QED BY <2>1, <2>3, <2>4, <2>5 DEF ListInv
<1>3. QED BY <1>1, <1>2 DEF AppendedList!Fetch

LEMMA ListTakes ==
  ASSUME LinkInv, ListInv, AppendedList!Receive
  PROVE  LinkInv' /\ ListInv'
<1>1. PICK v \in AppendedList!Versions :
        /\ AppendedList!Take(v)
        /\ IF v \in Unreadable
           THEN UNCHANGED <<list, pending, items>>
           ELSE AppendedList!AddItem(v) /\ items' = Append(items, v)
  BY DEF AppendedList!Receive
<1>2. /\ Take(v) /\ LinkInv' /\ v \in Versions /\ UNCHANGED <<log, tail, link>>
      /\ UNCHANGED <<status, load, snapshot, covered>>
  BY <1>1, SameLink, LinkStays, TakeFirst DEF AppendedList!Receive
<1>3. ListTypes /\ CoverInv
  BY DEF ListInv
<1>4. CASE v \in Unreadable
  <2>1. \A x : Covers(x) => Covers(x)'
    BY <1>1, <1>2, <1>4, HasRest DEF Covers, Has
  <2>2. CoverInv'
    <3>1. \A k \in 1 .. tail : Covers(log[k]) => Covers(log[k])'
      BY <1>2, <2>1 DEF Covers, Has
    <3>2. QED BY <1>2, <1>3, <3>1 DEF CoverInv
  <2>3. QED BY <1>1, <1>2, <1>3, <1>4, <2>2 DEF ListInv, ListTypes
<1>5. CASE v \notin Unreadable
  <2>1. /\ items' = Append(items, v) /\ items' \in Seq(Versions)
        /\ \A x : Has(items', x) <=> Has(items, x) \/ x = v
    <3>1. items' = Append(items, v) /\ items \in Seq(Versions)
      BY <1>1, <1>3, <1>5 DEF ListTypes
    <3>2. \A x : Has(Append(items, v), x) <=> Has(items, x) \/ x = v
      BY <1>2, <3>1, HasAppend
    <3>3. QED BY <1>2, <3>1, <3>2
  <2>2. \A x : Covers(x) => Covers(x)'
    <3>1. \A x : Has(wire, x) => x = v \/ Has(wire', x)
      BY <1>2, HasRest
    <3>2. snapshot' = snapshot
      BY <1>2
    <3>3. SUFFICES ASSUME NEW x, Covers(x) PROVE Covers(x)'
      OBVIOUS
    <3>4. \/ x \in Unreadable \/ Has(snapshot', x) \/ Has(items', x) \/ Has(wire', x)
      BY <2>1, <3>1, <3>2, <3>3 DEF Covers
    <3>5. QED BY <3>4 DEF Covers, Has
  <2>3. CoverInv'
    <3>1. \A k \in 1 .. tail : Covers(log[k]) => Covers(log[k])'
      BY <1>2, <2>2 DEF Covers, Has
    <3>2. QED BY <1>2, <1>3, <3>1 DEF CoverInv
  <2>4. /\ status = "none" => pending' = Append(pending, v) /\ list' = list
        /\ status = "error" => UNCHANGED <<pending, list>>
        /\ status = "ok" => list' = Append(list, v) /\ pending' = pending
        /\ status \in {"none", "ok", "error"}
    BY <1>1, <1>3, <1>5 DEF AppendedList!AddItem, ListTypes
  <2>5. ListTypes'
    <3>1. \A s \in Seq(Versions) : Append(s, v) \in Seq(Versions)
      BY <1>2
    <3>2. pending' \in Seq(Versions)
      BY <1>3, <2>4, <3>1 DEF ListTypes
    <3>3. list' \in Seq(Versions)
      BY <1>3, <2>4, <3>1 DEF ListTypes
    <3>4. QED BY <1>2, <1>3, <2>1, <3>2, <3>3 DEF ListTypes
  <2>6. status = "ok" => list' = snapshot \o items'
    <3>1. SUFFICES ASSUME status = "ok" PROVE list' = snapshot \o items'
      OBVIOUS
    <3>2. list' = (snapshot \o items) \o <<v>>
      BY <1>2, <1>3, <2>4, <3>1, AppendIsConcat, ZenonT(30) DEF ListInv, ListTypes
    <3>3. items' = items \o <<v>>
      BY <1>2, <1>3, <2>1, AppendIsConcat DEF ListTypes
    <3>4. <<v>> \in Seq(Versions)
      BY <1>2
    <3>5. QED BY <1>3, <3>2, <3>3, <3>4, ConcatAssociative, SMTT(30) DEF ListTypes
  <2>7. QED BY <1>2, <2>1, <2>3, <2>4, <2>5, <2>6 DEF ListInv
<1>6. QED BY <1>2, <1>4, <1>5

LEMMA ListStep ==
  ASSUME LinkInv, ListInv, AppendedList!Next
  PROVE  LinkInv' /\ ListInv'
<1>0. ListTypes /\ CoverInv
  BY DEF ListInv
<1>1. CASE LinkStep /\ UNCHANGED AppendedList!clientVars
  <2>1. LinkInv' /\ CoverInv'
    BY <1>0, <1>1, LinkStays, CoverStays
  <2>2. QED BY <1>1, <2>1 DEF ListInv, ListTypes, AppendedList!clientVars
<1>2. CASE AppendedList!Disconnect
  <2>1. /\ LoseLink \/ Close
        /\ covered' = FALSE /\ UNCHANGED <<status, list, pending, load, snapshot, items>>
    BY <1>2, SameLink DEF AppendedList!Disconnect
  <2>2. LinkInv' /\ CoverInv'
    BY <2>1, LinkStays DEF CoverInv
  <2>3. QED BY <2>1, <2>2 DEF ListInv, ListTypes
<1>3. CASE AppendedList!Fetch
  <2>1. UNCHANGED linkVars
    BY <1>3 DEF AppendedList!Fetch, AppendedList!ServerReads, AppendedList!FetchOk,
       AppendedList!FetchFails, AppendedList!linkVars, linkVars
  <2>2. QED BY <1>3, <2>1, LinkStays, ListFetches
<1>4. CASE AppendedList!Receive
  BY <1>4, ListTakes
<1>5. QED BY <1>1, <1>2, <1>3, <1>4, SameLink DEF AppendedList!Next
-----------------------------------------------------------------------------
(* The hooks.                                                              *)

LEMMA HookStart == Init => HookInv
<1> SUFFICES ASSUME Init PROVE HookInv
  OBVIOUS
<1>1. CASE ~IsList /\ Resource!Init
  <2>1. LinkInv
    BY <1>1, LinkStart DEF Resource!Init, Resource!LinkInit, LinkInit
  <2>2. hook \in Hooks
    BY DEF Init
  <2>3. QED BY <1>1, <2>1, <2>2, ResourceStart DEF HookInv
<1>2. CASE IsList /\ AppendedList!Init
  <2>1. LinkInv
    BY <1>2, LinkStart DEF AppendedList!Init, AppendedList!LinkInit, LinkInit
  <2>2. QED BY <1>2, <2>1, ListStart DEF HookInv
<1>3. QED BY <1>1, <1>2 DEF Init

LEMMA HookStep == HookInv /\ [Next]_vars => HookInv'
<1> SUFFICES ASSUME HookInv, [Next]_vars PROVE HookInv'
  OBVIOUS
<1>1. CASE ~IsList /\ Resource!Next
  <2>1. LinkInv' /\ ResourceInv'
    BY <1>1, ResourceStep DEF HookInv
  <2>2. ~IsList'
    BY <2>1 DEF ResourceInv, ResourceTypes
  <2>3. QED BY <2>1, <2>2 DEF HookInv
<1>2. CASE IsList /\ AppendedList!Next /\ UNCHANGED hook
  <2>1. LinkInv' /\ ListInv' /\ IsList'
    BY <1>2, ListStep DEF HookInv, IsList
  <2>2. QED BY <2>1 DEF HookInv
<1>3. CASE UNCHANGED vars
  <2>1. UNCHANGED linkVars /\ UNCHANGED <<hook, resourceVars, listVars>>
    BY <1>3 DEF vars
  <2>2. LinkInv'
    BY <2>1, LinkStays DEF HookInv
  <2>3. ResourceInv => ResourceInv'
    BY <2>1 DEF ResourceInv, ResourceTypes, IsList, Made, OrderInv, FromLog, Ascending,
       Resource!PublishedInOrder, RefetchInv, ReplaceInv, Resource!Reads, Latest, Due,
       Resource!Shows,
       linkVars, resourceVars
  <2>4. ListInv => ListInv'
    BY <2>1 DEF ListInv, ListTypes, CoverInv, Covers, Has, linkVars, listVars
  <2>5. QED BY <2>1, <2>2, <2>3, <2>4 DEF HookInv, IsList
<1>4. QED BY <1>1, <1>2, <1>3 DEF Next

LEMMA HookCorrect == Spec => []HookInv
  BY HookStart, HookStep, PTL DEF Spec

(* What a settled resource is due to show, it shows.                       *)
LEMMA SettledShowsDue ==
  ASSUME ResourceTypes, Resource!Settled, NEW v, Due(v)
  PROVE  Resource!Shows(v)
  BY DEF Resource!Settled, Due, Resource!Idle, Resource!Asked

(* No message is lost between the trigger and the fetch of a Refetch       *)
(* resource (synced_resource, client/mod.rs).                              *)
THEOREM RefetchShowsWhatItHeard == Spec => []SettledShowsWhatItHeard
<1>1. HookInv => SettledShowsWhatItHeard
  <2> SUFFICES ASSUME ResourceInv, hook.strategy = "refetch", Resource!Settled,
                      NEW v \in Resource!Heard
               PROVE  Resource!Shows(v)
    BY DEF HookInv, SettledShowsWhatItHeard, Resource!SettledShowsWhatItHeard, Resource!strategy
  <2>1. PICK n \in 1 .. Len(received) : v = received[n]
    BY DEF Resource!Heard, Resource!Elements
  <2>2. Due(v)
    BY <2>1 DEF ResourceInv, RefetchInv
  <2>3. QED BY <2>2, SettledShowsDue DEF ResourceInv
<1>2. QED BY <1>1, HookCorrect, PTL

(* The payload that came last wins every race of a Replace resource.       *)
THEOREM ReplaceShowsLatestPayload == Spec => []SettledShowsLatestPayload
<1>1. HookInv => SettledShowsLatestPayload
  <2> SUFFICES ASSUME ResourceInv, hook.strategy = "replace", Resource!Settled, received # <<>>
               PROVE  IF Resource!Reads(Latest) THEN value = Latest ELSE Resource!Shows(Latest)
    BY DEF HookInv, SettledShowsLatestPayload, Resource!SettledShowsLatestPayload,
       Resource!strategy, Latest
  <2>1. ReplaceInv /\ ResourceTypes /\ ~trigger
    BY DEF ResourceInv, Resource!Settled
  <2>2. QED BY <2>1, SettledShowsDue DEF ReplaceInv
<1>2. QED BY <1>1, HookCorrect, PTL

(* With writers that publish in order, a Replace resource never shows what *)
(* is older than a change it heard of, across reconnects.                  *)
THEOREM ReplaceKeepsOrder == Spec => []ReplaceFollowsOrderedWriters
<1>1. HookInv => ReplaceFollowsOrderedWriters
  <2> SUFFICES ASSUME ResourceInv, hook.strategy = "replace", Resource!Settled,
                      Resource!PublishedInOrder, NEW v \in Resource!Heard
               PROVE  Resource!Shows(v)
    BY DEF HookInv, ReplaceFollowsOrderedWriters, Resource!ReplaceFollowsOrderedWriters,
       Resource!strategy
  <2>1. PICK n \in 1 .. Len(received) : v = received[n]
    BY DEF Resource!Heard, Resource!Elements
  <2>2. /\ ReplaceInv /\ ResourceTypes /\ ~trigger /\ Ascending(received)
        /\ received \in Seq(Versions)
    BY DEF ResourceInv, OrderInv, Made, Resource!Settled
  <2>3. /\ received # <<>> /\ v \in Int /\ Latest \in Versions /\ Latest \in Int /\ v <= Latest
    <3>1. Len(received) \in 1 .. Len(received) /\ \A m \in 1 .. Len(received) : received[m] \in Int
      BY <2>1, <2>2 DEF Versions
    <3>2. n = Len(received) \/ n < Len(received)
      BY <3>1
    <3>3. QED BY <2>1, <2>2, <3>1, <3>2 DEF Ascending, Latest
  <2>4. CASE Resource!Reads(Latest)
    <3>1. value = Latest
      BY <2>2, <2>3, <2>4 DEF ReplaceInv
    <3>2. QED BY <2>3, <3>1 DEF Resource!Shows
  <2>5. CASE ~Resource!Reads(Latest)
    <3>1. Resource!Shows(Latest)
      BY <2>2, <2>3, <2>5, SettledShowsDue DEF ReplaceInv
    <3>2. value \in Int
      BY <2>2 DEF ResourceTypes, Resource!NoValue, Resource!ErrorValue
    <3>3. QED BY <2>3, <3>1, <3>2 DEF Resource!Shows
  <2>6. QED BY <2>4, <2>5
<1>2. QED BY <1>1, HookCorrect, PTL

(* A Replace resource goes back to the server only for a broken payload,   *)
(* unless it is of a Result that the macro does not know for one.          *)
THEOREM ReplaceRarelyFetches == Spec => ReplaceFetchesOnlyForBroken
<1>1. ASSUME HookInv, hook.known PROVE FetchesOnlyForBroken
  <2> SUFFICES ASSUME ~IsList, hook.strategy = "replace", Resource!StartFetch
               PROVE  received # <<>> /\ Latest \in Unreadable
    BY DEF FetchesOnlyForBroken, Latest
  <2>1. /\ ReplaceInv /\ ResourceTypes /\ trigger /\ directValue = Resource!NoValue
    BY <1>1 DEF HookInv, ResourceInv, Resource!StartFetch
  <2>2. received # <<>>
    BY <2>1 DEF ReplaceInv
  <2>3. Latest \in Versions
    BY <1>1, <2>2 DEF HookInv, ResourceInv, Made, Latest
  <2>4. Latest # Resource!NoValue
    BY <2>3 DEF Versions, Resource!NoValue
  <2>5. ~Resource!Reads(Latest)
    BY <2>1, <2>2, <2>4 DEF ReplaceInv
  <2>6. hook.fits
    BY <1>1, <2>1, HookFacts DEF ResourceTypes
  <2>7. QED BY <2>2, <2>5, <2>6 DEF Resource!Reads
<1>2. HookInv /\ [Next]_vars => [hook.known => FetchesOnlyForBroken]_vars
  BY <1>1
<1>3. QED BY <1>2, HookCorrect, PTL DEF Spec, ReplaceFetchesOnlyForBroken

(* The hand-over from the buffer to the list drops, repeats and reorders   *)
(* nothing (synced_resource_append, client/mod.rs).                        *)
THEOREM AppendKeepsEveryItem == Spec => []ListIsSnapshotThenTail
<1>1. HookInv => ListIsSnapshotThenTail
  BY DEF HookInv, ListInv, ListIsSnapshotThenTail, AppendedList!ListIsSnapshotThenTail
<1>2. QED BY <1>1, HookCorrect, PTL

(* A list whose stream ran since before its snapshot was read has no hole. *)
THEOREM AppendLeavesNoHole == Spec => []CoveredListHasNoHole
<1>1. HookInv => CoveredListHasNoHole
  <2> SUFFICES ASSUME LinkInv, ListInv, status = "ok", covered, tail = Len(log), wire = <<>>,
                      NEW v \in AppendedList!Elements(log), v \notin Unreadable
               PROVE  v \in AppendedList!Elements(list)
    BY DEF HookInv, CoveredListHasNoHole, AppendedList!CoveredListHasNoHole
  <2>1. PICK k \in 1 .. Len(log) : v = log[k]
    BY DEF AppendedList!Elements
  <2>2. Has(snapshot, v) \/ Has(items, v)
    BY <2>1 DEF ListInv, CoverInv, Covers, Has
  <2>3. /\ list = snapshot \o items /\ snapshot \in Seq(Versions) /\ items \in Seq(Versions)
    BY DEF ListInv, ListTypes
  <2>4. /\ Len(list) = Len(snapshot) + Len(items)
        /\ Len(snapshot) \in Nat /\ Len(items) \in Nat
        /\ \A n \in 1 .. Len(snapshot) : list[n] = snapshot[n]
        /\ \A n \in 1 .. Len(items) : list[Len(snapshot) + n] = items[n]
    BY <2>3
  <2>5. CASE Has(snapshot, v)
    <3>1. PICK n \in 1 .. Len(snapshot) : snapshot[n] = v
      BY <2>5 DEF Has
    <3>2. n \in 1 .. Len(list) /\ list[n] = v
      BY <2>4, <3>1
    <3>3. QED BY <3>2 DEF AppendedList!Elements
  <2>6. CASE Has(items, v)
    <3>1. PICK n \in 1 .. Len(items) : items[n] = v
      BY <2>6 DEF Has
    <3>2. Len(snapshot) + n \in 1 .. Len(list) /\ list[Len(snapshot) + n] = v
      BY <2>4, <3>1
    <3>3. QED BY <3>2 DEF AppendedList!Elements
  <2>7. QED BY <2>2, <2>5, <2>6
<1>2. QED BY <1>1, HookCorrect, PTL
=============================================================================
