-------------------------- MODULE BroadcastHubProof --------------------------
(***************************************************************************)
(* Proofs about BroadcastHub, for every number of subscriptions, filters,  *)
(* events and group instances and every queue capacity.                    *)
(***************************************************************************)
EXTENDS BroadcastHub, TopicProof

USE DEF Generations, NoGeneration, registryVars, channelVars

(* The records a task moves between are task records.                      *)
LEMMA UnbornType == Unborn \in ReaderRecord
  BY TopicAssumption DEF Unborn, ReaderRecord, ReaderPC

LEMMA FinishedType ==
  ASSUME HubTypeOK, NEW g \in Generations
  PROVE  /\ Finished(g) \in ReaderRecord
         /\ Finished(g).pc = "done"
         /\ Finished(g).key = reader[g].key
         /\ Finished(g).aborted = reader[g].aborted
         /\ Finished(g).senders = {} /\ Finished(g).todo = {} /\ Finished(g).drops = {}
  BY DEF Finished, Key, Unborn, HubTypeOK, ReaderRecord, ReaderPC

LEMMA ReaderIn ==
  ASSUME HubTypeOK, NEW g \in Generations
  PROVE  reader[g] \in ReaderRecord
  BY DEF HubTypeOK

(* What each kind of step writes, field by field.                           *)
LEMMA PcUpdate ==
  ASSUME NEW r \in ReaderRecord, NEW p \in ReaderPC
  PROVE  /\ [r EXCEPT !.pc = p] \in ReaderRecord
         /\ [r EXCEPT !.pc = p].pc = p
         /\ [r EXCEPT !.pc = p].key = r.key
         /\ [r EXCEPT !.pc = p].cursor = r.cursor
         /\ [r EXCEPT !.pc = p].senders = r.senders
         /\ [r EXCEPT !.pc = p].todo = r.todo
         /\ [r EXCEPT !.pc = p].drops = r.drops
         /\ [r EXCEPT !.pc = p].aborted = r.aborted
  BY DEF ReaderRecord

LEMMA SubscribeUpdate ==
  ASSUME NEW r \in ReaderRecord, NEW p \in ReaderPC, NEW c \in Nat
  PROVE  /\ [r EXCEPT !.pc = p, !.cursor = c] \in ReaderRecord
         /\ [r EXCEPT !.pc = p, !.cursor = c].pc = p
         /\ [r EXCEPT !.pc = p, !.cursor = c].key = r.key
         /\ [r EXCEPT !.pc = p, !.cursor = c].cursor = c
         /\ [r EXCEPT !.pc = p, !.cursor = c].senders = r.senders
         /\ [r EXCEPT !.pc = p, !.cursor = c].todo = r.todo
         /\ [r EXCEPT !.pc = p, !.cursor = c].drops = r.drops
         /\ [r EXCEPT !.pc = p, !.cursor = c].aborted = r.aborted
  BY DEF ReaderRecord

LEMMA EventUpdate ==
  ASSUME NEW r \in ReaderRecord, NEW p \in ReaderPC, NEW c \in Nat
  PROVE  /\ [r EXCEPT !.cursor = c, !.pc = p] \in ReaderRecord
         /\ [r EXCEPT !.cursor = c, !.pc = p].pc = p
         /\ [r EXCEPT !.cursor = c, !.pc = p].key = r.key
         /\ [r EXCEPT !.cursor = c, !.pc = p].cursor = c
         /\ [r EXCEPT !.cursor = c, !.pc = p].senders = r.senders
         /\ [r EXCEPT !.cursor = c, !.pc = p].todo = r.todo
         /\ [r EXCEPT !.cursor = c, !.pc = p].drops = r.drops
         /\ [r EXCEPT !.cursor = c, !.pc = p].aborted = r.aborted
  BY DEF ReaderRecord

LEMMA SnapshotUpdate ==
  ASSUME NEW r \in ReaderRecord, NEW p \in ReaderPC, NEW S \in SUBSET Sockets
  PROVE  /\ [r EXCEPT !.pc = p, !.senders = S, !.todo = S] \in ReaderRecord
         /\ [r EXCEPT !.pc = p, !.senders = S, !.todo = S].pc = p
         /\ [r EXCEPT !.pc = p, !.senders = S, !.todo = S].key = r.key
         /\ [r EXCEPT !.pc = p, !.senders = S, !.todo = S].cursor = r.cursor
         /\ [r EXCEPT !.pc = p, !.senders = S, !.todo = S].senders = S
         /\ [r EXCEPT !.pc = p, !.senders = S, !.todo = S].todo = S
         /\ [r EXCEPT !.pc = p, !.senders = S, !.todo = S].drops = r.drops
         /\ [r EXCEPT !.pc = p, !.senders = S, !.todo = S].aborted = r.aborted
  BY DEF ReaderRecord

LEMMA AwaitUpdate ==
  ASSUME NEW r \in ReaderRecord, NEW p \in ReaderPC
  PROVE  /\ [r EXCEPT !.pc = p, !.senders = {}, !.drops = {}] \in ReaderRecord
         /\ [r EXCEPT !.pc = p, !.senders = {}, !.drops = {}].pc = p
         /\ [r EXCEPT !.pc = p, !.senders = {}, !.drops = {}].key = r.key
         /\ [r EXCEPT !.pc = p, !.senders = {}, !.drops = {}].cursor = r.cursor
         /\ [r EXCEPT !.pc = p, !.senders = {}, !.drops = {}].senders = {}
         /\ [r EXCEPT !.pc = p, !.senders = {}, !.drops = {}].todo = r.todo
         /\ [r EXCEPT !.pc = p, !.senders = {}, !.drops = {}].drops = {}
         /\ [r EXCEPT !.pc = p, !.senders = {}, !.drops = {}].aborted = r.aborted
  BY DEF ReaderRecord

LEMMA SentUpdate ==
  ASSUME NEW r \in ReaderRecord, NEW S \in SUBSET Sockets
  PROVE  /\ [r EXCEPT !.todo = S] \in ReaderRecord
         /\ [r EXCEPT !.todo = S].pc = r.pc
         /\ [r EXCEPT !.todo = S].key = r.key
         /\ [r EXCEPT !.todo = S].cursor = r.cursor
         /\ [r EXCEPT !.todo = S].senders = r.senders
         /\ [r EXCEPT !.todo = S].todo = S
         /\ [r EXCEPT !.todo = S].drops = r.drops
         /\ [r EXCEPT !.todo = S].aborted = r.aborted
  BY DEF ReaderRecord

LEMMA RefusedUpdate ==
  ASSUME NEW r \in ReaderRecord, NEW S \in SUBSET Sockets, NEW T \in SUBSET Sockets
  PROVE  /\ [r EXCEPT !.todo = S, !.drops = T] \in ReaderRecord
         /\ [r EXCEPT !.todo = S, !.drops = T].pc = r.pc
         /\ [r EXCEPT !.todo = S, !.drops = T].key = r.key
         /\ [r EXCEPT !.todo = S, !.drops = T].cursor = r.cursor
         /\ [r EXCEPT !.todo = S, !.drops = T].senders = r.senders
         /\ [r EXCEPT !.todo = S, !.drops = T].todo = S
         /\ [r EXCEPT !.todo = S, !.drops = T].drops = T
         /\ [r EXCEPT !.todo = S, !.drops = T].aborted = r.aborted
  BY DEF ReaderRecord

LEMMA AbortUpdate ==
  ASSUME NEW r \in ReaderRecord
  PROVE  /\ [r EXCEPT !.aborted = TRUE] \in ReaderRecord
         /\ [r EXCEPT !.aborted = TRUE].pc = r.pc
         /\ [r EXCEPT !.aborted = TRUE].key = r.key
         /\ [r EXCEPT !.aborted = TRUE].cursor = r.cursor
         /\ [r EXCEPT !.aborted = TRUE].senders = r.senders
         /\ [r EXCEPT !.aborted = TRUE].todo = r.todo
         /\ [r EXCEPT !.aborted = TRUE].drops = r.drops
         /\ [r EXCEPT !.aborted = TRUE].aborted = TRUE
  BY DEF ReaderRecord

LEMMA AwaitingType ==
  ASSUME HubTypeOK, NEW g \in Generations
  PROVE  /\ Awaiting(g) \in ReaderRecord
         /\ Awaiting(g).pc = "next" /\ Awaiting(g).key = reader[g].key
         /\ Awaiting(g).cursor = reader[g].cursor
         /\ Awaiting(g).senders = {} /\ Awaiting(g).todo = reader[g].todo
         /\ Awaiting(g).drops = {} /\ Awaiting(g).aborted = reader[g].aborted
  BY ReaderIn, AwaitUpdate DEF Awaiting, ReaderPC

LEMMA ReaderFields ==
  ASSUME HubTypeOK, NEW g \in Generations
  PROVE  /\ reader[g].pc \in ReaderPC /\ reader[g].key \in Filters
         /\ reader[g].cursor \in Nat /\ reader[g].aborted \in BOOLEAN
         /\ reader[g].senders \subseteq Sockets /\ reader[g].todo \subseteq Sockets
         /\ reader[g].drops \subseteq Sockets
  BY DEF HubTypeOK, ReaderRecord

LEMMA GroupFields ==
  ASSUME HubTypeOK, NEW f \in Filters
  PROVE  /\ group[f].generation \in {NoGeneration} \cup Generations
         /\ group[f].members \subseteq Sockets
         /\ group[f] = [generation |-> group[f].generation, members |-> group[f].members]
  BY DEF HubTypeOK, GroupRecord

LEMMA GroupUpdates ==
  ASSUME HubTypeOK, NEW f \in Filters, NEW M \in SUBSET Sockets
  PROVE  /\ group \in [Filters -> GroupRecord]
         /\ [group EXCEPT ![f].members = M] \in [Filters -> GroupRecord]
         /\ [group EXCEPT ![f] = Absent] \in [Filters -> GroupRecord]
<1>1. Absent \in GroupRecord
  BY DEF Absent, GroupRecord
<1>2. QED BY <1>1 DEF HubTypeOK, GroupRecord

(* One task moves, the others stay where they are.                         *)
LEMMA BecomesType ==
  ASSUME HubTypeOK, NEW g \in Generations, NEW r \in ReaderRecord, Becomes(g, r)
  PROVE  /\ reader' \in [Generations -> ReaderRecord]
         /\ reader'[g] = r
         /\ \A h \in Generations : h # g => reader'[h] = reader[h]
  BY DEF Becomes, HubTypeOK

LEMMA TypeInit == HubInit => HubTypeOK
  BY UnbornType, HubAssumption DEF HubInit, HubTypeOK, Absent, GroupRecord

(* Every step of the hub keeps the types, the bound on the queues          *)
(* included: a frame goes only into a channel that is not full.            *)
LEMMA TypeStep == HubTypeOK /\ [HubNext]_hubVars => HubTypeOK'
<1> SUFFICES ASSUME HubTypeOK, [HubNext]_hubVars PROVE HubTypeOK'
  OBVIOUS
<1> USE HubAssumption, TopicAssumption
<1>1. ASSUME NEW e \in Kinds, Publish(e) PROVE HubTypeOK'
  BY <1>1 DEF Publish, HubTypeOK
<1>2. ASSUME NEW s \in Sockets, Join(s) PROVE HubTypeOK'
  <2>1. phase' \in [Sockets -> {"none", "live", "left", "dropped"}]
    BY <1>2 DEF Join, HubTypeOK
  <2>2. CASE JoinExisting(s)
    <3>1. group' \in [Filters -> GroupRecord]
      <4>1. FilterOf[s] \in Filters
        OBVIOUS
      <4>2. group[FilterOf[s]].members \cup {s} \in SUBSET Sockets
        BY <4>1, GroupFields
      <4>3. [group EXCEPT ![FilterOf[s]].members = group[FilterOf[s]].members \cup {s}]
              \in [Filters -> GroupRecord]
        BY <4>1, <4>2, GroupUpdates
      <4>4. QED BY <2>2, <4>3 DEF JoinExisting
    <3>2. QED BY <1>2, <2>1, <2>2, <3>1 DEF Join, JoinExisting, HubTypeOK
  <2>3. CASE JoinNew(s)
    <3>1. nextGeneration \in Generations /\ nextGeneration' \in 1 .. MaxGenerations + 1
      BY <2>3 DEF JoinNew, HubTypeOK
    <3>2. group' \in [Filters -> GroupRecord]
      BY <2>3, <3>1 DEF JoinNew, HubTypeOK, GroupRecord
    <3>3. [Unborn EXCEPT !.pc = "spawned", !.key = FilterOf[s]] \in ReaderRecord
      BY TopicAssumption DEF Unborn, ReaderRecord, ReaderPC
    <3>4. reader' \in [Generations -> ReaderRecord]
      BY <2>3, <3>1, <3>3, BecomesType DEF JoinNew, SpawnReader
    <3>5. QED BY <1>2, <2>1, <3>1, <3>2, <3>4 DEF Join, HubTypeOK
  <2>4. QED BY <1>2, <2>2, <2>3 DEF Join
<1>3. ASSUME NEW s \in Sockets, Receive(s) PROVE HubTypeOK'
  BY <1>3 DEF Receive, HubTypeOK
<1>4. ASSUME NEW s \in Sockets, Leave(s) PROVE HubTypeOK'
  <2> DEFINE f == FilterOf[s]
  <2>1. group' \in [Filters -> GroupRecord]
    <3>1. group[f].members \ {s} \in SUBSET Sockets
      BY GroupFields
    <3>2. f \in Filters
      OBVIOUS
    <3>3. /\ group \in [Filters -> GroupRecord]
          /\ [group EXCEPT ![f].members = group[f].members \ {s}] \in [Filters -> GroupRecord]
          /\ [group EXCEPT ![f] = Absent] \in [Filters -> GroupRecord]
      BY <3>1, <3>2, GroupUpdates
    <3>4. QED BY <1>4, <3>3 DEF Leave
  <2>2. reader' \in [Generations -> ReaderRecord]
    <3>1. CASE group[f].generation # NoGeneration /\ Abort(group[f].generation)
      <4>1. group[f].generation \in Generations
        BY <3>1, GroupFields
      <4>2. [reader[group[f].generation] EXCEPT !.aborted = TRUE] \in ReaderRecord
        BY <4>1, ReaderIn, AbortUpdate DEF ReaderPC
      <4>3. QED BY <3>1, <4>1, <4>2, BecomesType DEF Abort
    <3>2. CASE UNCHANGED reader
      BY <3>2 DEF HubTypeOK
    <3>3. QED BY <1>4, <3>1, <3>2 DEF Leave
  <2>3. QED BY <1>4, <2>1, <2>2 DEF Leave, HubTypeOK
<1>5. ASSUME NEW s \in Sockets, DropReceiver(s) PROVE HubTypeOK'
  BY <1>5 DEF DropReceiver, HubTypeOK
<1>6. ASSUME NEW g \in Generations, Subscribe(g) PROVE HubTypeOK'
  <2>1. [reader[g] EXCEPT !.pc = "next", !.cursor = Len(log)] \in ReaderRecord
    <3>1. Len(log) \in Nat
      BY DEF HubTypeOK
    <3>2. QED BY <3>1, ReaderIn, SubscribeUpdate DEF ReaderPC
  <2>2. QED BY <1>6, <2>1, BecomesType DEF Subscribe, HubTypeOK
<1>7. ASSUME NEW g \in Generations, NextEvent(g) PROVE HubTypeOK'
  <2>1. ASSUME NEW i \in 1 .. Len(log), NEW p \in {"next", "snapshot"}
        PROVE  [reader[g] EXCEPT !.cursor = i, !.pc = p] \in ReaderRecord
    <3>1. i \in Nat
      BY DEF HubTypeOK
    <3>2. QED BY <3>1, ReaderIn, EventUpdate DEF ReaderPC
  <2>2. reader' \in [Generations -> ReaderRecord]
    BY <1>7, <2>1, BecomesType DEF NextEvent
  <2>3. QED BY <1>7, <2>2 DEF NextEvent, HubTypeOK
<1>8. ASSUME NEW g \in Generations, Snapshot(g) PROVE HubTypeOK'
  <2>1. ASSUME NEW M \in SUBSET Sockets
        PROVE  [reader[g] EXCEPT !.pc = "fanout", !.senders = M, !.todo = M] \in ReaderRecord
    BY ReaderIn, SnapshotUpdate DEF ReaderPC
  <2>2. group[Key(g)].members \in SUBSET Sockets
    BY ReaderFields, GroupFields DEF Key
  <2>3. reader' \in [Generations -> ReaderRecord]
    BY <1>8, <2>1, <2>2, FinishedType, BecomesType DEF Snapshot
  <2>4. QED BY <1>8, <2>3 DEF Snapshot, HubTypeOK
<1>9. ASSUME NEW g \in Generations, NEW s \in Sockets, TrySend(g, s) PROVE HubTypeOK'
  <2>1. /\ [reader[g] EXCEPT !.todo = @ \ {s}] \in ReaderRecord
        /\ [reader[g] EXCEPT !.todo = @ \ {s}, !.drops = @ \cup {s}] \in ReaderRecord
    <3>1. reader[g].todo \ {s} \in SUBSET Sockets /\ reader[g].drops \cup {s} \in SUBSET Sockets
      BY ReaderFields
    <3>2. QED BY <3>1, ReaderIn, SentUpdate, RefusedUpdate DEF ReaderPC
  <2>2. reader' \in [Generations -> ReaderRecord]
    BY <1>9, <2>1, BecomesType DEF TrySend
  <2>3. reader[g].cursor \in Nat
    BY ReaderFields
  <2>4. CASE Accepted(s)
    <3>1. frames' = [frames EXCEPT ![s] = Append(@, reader[g].cursor)]
      BY <1>9, <2>4 DEF TrySend
    <3>2. frames' \in [Sockets -> Seq(Nat)] /\ Len(frames'[s]) = Len(frames[s]) + 1
      BY <2>3, <3>1 DEF HubTypeOK
    <3>3. /\ Len(frames[s]) \in Nat /\ taken[s] \in Nat /\ taken[s] <= Len(frames[s])
          /\ Len(frames[s]) - taken[s] <= QueueCapacity
      BY DEF HubTypeOK
    <3>4. Len(frames[s]) - taken[s] < QueueCapacity
      BY <2>4, <3>3 DEF Accepted, Full
    <3>5. \A t \in Sockets : t # s => frames'[t] = frames[t]
      BY <3>1 DEF HubTypeOK
    <3>6. UNCHANGED <<log, registryVars, phase, taken>>
      BY <1>9 DEF TrySend
    <3>7. \A t \in Sockets : /\ taken'[t] <= Len(frames'[t])
                             /\ Len(frames'[t]) - taken'[t] <= QueueCapacity
      <4>1. ASSUME NEW t \in Sockets
            PROVE  taken[t] <= Len(frames'[t]) /\ Len(frames'[t]) - taken[t] <= QueueCapacity
        <5>1. CASE t = s
          BY <3>2, <3>3, <3>4, <5>1
        <5>2. CASE t # s
          BY <3>5, <5>2 DEF HubTypeOK
        <5>3. QED BY <5>1, <5>2
      <4>2. QED BY <3>6, <4>1
    <3>8. QED BY <2>2, <3>2, <3>6, <3>7 DEF HubTypeOK
  <2>5. CASE ~Accepted(s)
    BY <1>9, <2>2, <2>5 DEF TrySend, HubTypeOK
  <2>6. QED BY <2>4, <2>5
<1>10. ASSUME NEW g \in Generations, KeepAll(g) PROVE HubTypeOK'
  BY <1>10, AwaitingType, BecomesType DEF KeepAll, HubTypeOK
<1>11. ASSUME NEW g \in Generations, Prune(g) PROVE HubTypeOK'
  <2>1. [reader[g] EXCEPT !.pc = "remove"] \in ReaderRecord
    BY ReaderIn, PcUpdate DEF ReaderPC
  <2>2. reader' \in [Generations -> ReaderRecord]
    BY <1>11, <2>1, AwaitingType, FinishedType, BecomesType DEF Prune
  <2>3. group' \in [Filters -> GroupRecord]
    <3>1. group[Key(g)].members \ reader[g].drops \in SUBSET Sockets
      BY ReaderFields, GroupFields DEF Key
    <3>2. Key(g) \in Filters
      BY ReaderFields DEF Key
    <3>3. /\ group \in [Filters -> GroupRecord]
          /\ [group EXCEPT ![Key(g)].members = group[Key(g)].members \ reader[g].drops]
               \in [Filters -> GroupRecord]
      BY <3>1, <3>2, GroupUpdates
    <3>4. QED BY <1>11, <3>3 DEF Prune
  <2>4. QED BY <1>11, <2>2, <2>3 DEF Prune, HubTypeOK
<1>12. ASSUME NEW g \in Generations, Remove(g) PROVE HubTypeOK'
  <2>1. group' \in [Filters -> GroupRecord]
    BY <1>12, ReaderFields DEF Remove, Key, Absent, HubTypeOK, GroupRecord
  <2>2. QED BY <1>12, <2>1, FinishedType, BecomesType DEF Remove, HubTypeOK
<1>13. ASSUME NEW g \in Generations, StreamEnds(g) PROVE HubTypeOK'
  <2>1. [reader[g] EXCEPT !.pc = "remove"] \in ReaderRecord
    BY ReaderIn, PcUpdate DEF ReaderPC
  <2>2. QED BY <1>13, <2>1, BecomesType DEF StreamEnds, HubTypeOK
<1>14. ASSUME NEW g \in Generations, Cancel(g) PROVE HubTypeOK'
  BY <1>14, FinishedType, BecomesType DEF Cancel, HubTypeOK
<1>15. CASE UNCHANGED hubVars
  BY <1>15 DEF hubVars, HubTypeOK
<1> QED
  BY <1>1, <1>2, <1>3, <1>4, <1>5, <1>6, <1>7, <1>8, <1>9, <1>10, <1>11, <1>12,
     <1>13, <1>14, <1>15 DEF HubNext, ReaderStep

(* Type correctness of the hub, and no queue ever past its capacity        *)
(* (HUB_QUEUE_CAPACITY, hub.rs:25-26, 119).                                *)
THEOREM HubTypeCorrect == HubSpec => []HubTypeOK
  BY TypeInit, TypeStep, PTL DEF HubSpec
-----------------------------------------------------------------------------
(* The registry and the readers.                                           *)

(* The conjunction of the three registry properties is not inductive by    *)
(* itself: a new group needs a task nobody used before, and an absent      *)
(* group nobody in it.                                                     *)
RegistryInv ==
  /\ RegistryMatchesReaders
  /\ EmptyGroupIsBeingRemoved
  /\ MembersAreLive
  /\ \A f \in Filters : group[f].generation = NoGeneration => group[f].members = {}
  /\ \A g \in Generations : g >= nextGeneration => reader[g].pc = "unborn"

LEMMA RegistryInit == HubInit => RegistryInv
<1> SUFFICES ASSUME HubInit PROVE RegistryInv
  OBVIOUS
<1>1. \A f \in Filters : group[f].generation = NoGeneration /\ group[f].members = {}
  BY DEF HubInit, Absent
<1>2. \A g \in Generations : reader[g].pc = "unborn"
  BY DEF HubInit, Unborn
<1>3. QED
  BY <1>1, <1>2 DEF RegistryInv, RegistryMatchesReaders, EmptyGroupIsBeingRemoved,
                    MembersAreLive, Running

(* A task that runs goes on, for the same group, and the registry stays.   *)
LEMMA GoesOn ==
  ASSUME HubTypeOK, RegistryInv, NEW g \in Generations, NEW r \in ReaderRecord,
         Becomes(g, r), Running(g), r.pc \notin {"unborn", "done"},
         r.key = Key(g), r.aborted = reader[g].aborted,
         reader[g].pc = "remove" => r.pc = "remove",
         UNCHANGED <<group, nextGeneration, phase>>
  PROVE  RegistryInv'
<1>1. /\ reader'[g] = r
      /\ \A h \in Generations : h # g => reader'[h] = reader[h]
  BY BecomesType
<1>2. \A h \in Generations :
        /\ Running(h)' <=> Running(h)
        /\ Key(h)' = Key(h)
        /\ Owns(h)' <=> Owns(h)
        /\ reader'[h].aborted = reader[h].aborted
        /\ reader[h].pc = "remove" => reader'[h].pc = "remove"
        /\ reader[h].pc = "unborn" => reader'[h].pc = "unborn"
  BY <1>1 DEF Running, Key, Owns
<1>3. \A f \in Filters : group[f].generation # NoGeneration => group[f].generation \in Generations
  BY GroupFields
<1>4. RegistryMatchesReaders'
  BY <1>2, <1>3 DEF RegistryInv, RegistryMatchesReaders
<1>5. EmptyGroupIsBeingRemoved'
  BY <1>2, <1>3 DEF RegistryInv, EmptyGroupIsBeingRemoved
<1>6. QED
  BY <1>2, <1>4, <1>5 DEF RegistryInv, MembersAreLive

(* A task that does not own its group may stop, as far as the registry     *)
(* goes: no group has it for a reader.                                     *)
LEMMA Stops ==
  ASSUME HubTypeOK, RegistryInv, NEW g \in Generations, Running(g), ~Owns(g),
         Becomes(g, Finished(g)), UNCHANGED <<group, nextGeneration, phase>>
  PROVE  RegistryInv'
<1>1. /\ reader'[g] = Finished(g)
      /\ \A h \in Generations : h # g => reader'[h] = reader[h]
  BY FinishedType, BecomesType
<1>2. Finished(g).pc = "done"
  BY FinishedType
<1>3. \A f \in Filters : group[f].generation # NoGeneration =>
        group[f].generation \in Generations /\ group[f].generation # g
  BY GroupFields DEF RegistryInv, RegistryMatchesReaders, Owns
<1>4. RegistryMatchesReaders'
  BY <1>1, <1>2, <1>3 DEF RegistryInv, RegistryMatchesReaders, Running, Key, Owns
<1>5. EmptyGroupIsBeingRemoved'
  BY <1>1, <1>3 DEF RegistryInv, EmptyGroupIsBeingRemoved
<1>6. ASSUME NEW h \in Generations, h >= nextGeneration PROVE reader'[h].pc = "unborn"
  BY <1>1, <1>6 DEF RegistryInv, Running
<1>7. QED
  BY <1>4, <1>5, <1>6 DEF RegistryInv, MembersAreLive

(* A group may go when its own task stops or is aborted with it.           *)
LEMMA Unregister ==
  ASSUME HubTypeOK, RegistryInv, NEW g \in Generations, NEW f \in Filters, Running(g),
         group[f].generation = g,
         group'[f].generation = NoGeneration, group'[f].members = {},
         \A h \in Filters : h # f => group'[h] = group[h],
         \A h \in Generations : h # g => reader'[h] = reader[h],
         reader'[g].pc = "done" \/ (reader'[g].aborted /\ reader'[g].pc = reader[g].pc),
         nextGeneration' = nextGeneration,
         \A h \in Filters : \A m \in group[h].members : h # f => phase'[m] = "live"
  PROVE  RegistryInv'
<1>1. \A h \in Filters : h # f /\ group[h].generation # NoGeneration =>
        group[h].generation \in Generations /\ group[h].generation # g
  <2>1. g # NoGeneration /\ Key(g) = f
    BY DEF RegistryInv, RegistryMatchesReaders
  <2>2. ASSUME NEW h \in Filters, h # f, group[h].generation # NoGeneration
        PROVE  group[h].generation \in Generations /\ group[h].generation # g
    <3>1. Key(group[h].generation) = h
      BY <2>2 DEF RegistryInv, RegistryMatchesReaders
    <3>2. QED BY <2>1, <2>2, <3>1, GroupFields
  <2>3. QED BY <2>2
<1>2. RegistryMatchesReaders'
  <2>1. ASSUME NEW h \in Filters, group'[h].generation # NoGeneration
        PROVE  LET x == group'[h].generation
               IN reader'[x].pc \notin {"unborn", "done"} /\ reader'[x].key = h /\ ~reader'[x].aborted
    BY <1>1, <2>1 DEF RegistryInv, RegistryMatchesReaders, Running, Key
  <2>2. ASSUME NEW x \in Generations, reader'[x].pc \notin {"unborn", "done"}, ~reader'[x].aborted
        PROVE  group'[reader'[x].key].generation = x
    <3>1. x # g
      BY <2>2
    <3>2. reader'[x] = reader[x] /\ group[reader[x].key].generation = x
      BY <2>2, <3>1 DEF RegistryInv, RegistryMatchesReaders, Running, Key, Owns
    <3>3. reader[x].key # f
      BY <3>1, <3>2
    <3>4. QED BY <3>2, <3>3, ReaderFields
  <2>3. QED BY <2>1, <2>2 DEF RegistryMatchesReaders, Running, Key, Owns
<1>3. EmptyGroupIsBeingRemoved'
  BY <1>1 DEF RegistryInv, EmptyGroupIsBeingRemoved
<1>4. MembersAreLive'
  BY DEF RegistryInv, MembersAreLive
<1>5. ASSUME NEW x \in Generations, x >= nextGeneration PROVE reader'[x].pc = "unborn"
  BY <1>5 DEF RegistryInv, Running
<1>6. QED BY <1>2, <1>3, <1>4, <1>5 DEF RegistryInv

(* Every step of the hub keeps registry and readers in agreement.          *)
LEMMA RegistryStep == HubTypeOK /\ RegistryInv /\ [HubNext]_hubVars => RegistryInv'
<1> SUFFICES ASSUME HubTypeOK, RegistryInv, [HubNext]_hubVars PROVE RegistryInv'
  OBVIOUS
<1> USE HubAssumption
<1>0. CASE UNCHANGED <<group, nextGeneration, reader, phase>>
  BY <1>0 DEF RegistryInv, RegistryMatchesReaders, EmptyGroupIsBeingRemoved,
              MembersAreLive, Running, Key, Owns
<1>1. ASSUME NEW e \in Kinds, Publish(e) PROVE RegistryInv'
  BY <1>0, <1>1 DEF Publish
<1>2. ASSUME NEW s \in Sockets, Join(s) PROVE RegistryInv'
  <2> DEFINE f == FilterOf[s]
  <2>0. f \in Filters /\ group' \in [Filters -> GroupRecord]
    BY <1>2, TypeStep DEF HubTypeOK, HubNext
  <2>1. phase' = [phase EXCEPT ![s] = "live"] /\ phase \in [Sockets -> {"none", "live", "left", "dropped"}]
    BY <1>2 DEF Join, HubTypeOK
  <2>2. CASE JoinExisting(s)
    <3>1. /\ \A h \in Filters : group'[h].generation = group[h].generation
          /\ \A h \in Filters : h # f => group'[h] = group[h]
          /\ group'[f].members = group[f].members \cup {s}
      BY <2>0, <2>2 DEF JoinExisting, HubTypeOK, GroupRecord
    <3>2. RegistryMatchesReaders'
      BY <2>2, <3>1, ReaderFields
      DEF JoinExisting, RegistryInv, RegistryMatchesReaders, Running, Key, Owns
    <3>3. EmptyGroupIsBeingRemoved'
      BY <2>2, <3>1 DEF JoinExisting, RegistryInv, EmptyGroupIsBeingRemoved
    <3>4. MembersAreLive'
      BY <2>1, <3>1, GroupFields DEF RegistryInv, MembersAreLive
    <3>5. \A h \in Filters : group'[h].generation = NoGeneration => group'[h].members = {}
      BY <2>2, <3>1 DEF JoinExisting, RegistryInv
    <3>6. QED BY <2>2, <3>2, <3>3, <3>4, <3>5 DEF JoinExisting, RegistryInv
  <2>3. CASE JoinNew(s)
    <3> DEFINE g == nextGeneration
               r == [Unborn EXCEPT !.pc = "spawned", !.key = f]
    <3>1. g \in Generations /\ g # NoGeneration /\ g' = g + 1
      BY <2>3 DEF JoinNew, HubTypeOK
    <3>2. r \in ReaderRecord /\ r.pc = "spawned" /\ r.key = f /\ ~r.aborted
      BY <2>0, TopicAssumption DEF Unborn, ReaderRecord, ReaderPC
    <3> HIDE DEF r
    <3>3. /\ reader'[g] = r
          /\ \A h \in Generations : h # g => reader'[h] = reader[h]
      BY <2>3, <3>1, <3>2, BecomesType DEF JoinNew, SpawnReader, r
    <3>4. /\ group'[f].generation = g /\ group'[f].members = {s}
          /\ \A h \in Filters : h # f => group'[h] = group[h]
          /\ group[f].generation = NoGeneration
      BY <2>0, <2>3 DEF JoinNew, HubTypeOK
    <3>5. reader[g].pc = "unborn"
      BY <3>1, HubTypeOK DEF RegistryInv, HubTypeOK
    <3>6. \A h \in Filters : group[h].generation # g
      BY <3>1, <3>5 DEF RegistryInv, RegistryMatchesReaders, Running
    <3>7. RegistryMatchesReaders'
      <4>1. ASSUME NEW h \in Filters, group'[h].generation # NoGeneration
            PROVE  LET x == group'[h].generation
                   IN /\ reader'[x].pc \notin {"unborn", "done"}
                      /\ reader'[x].key = h /\ ~reader'[x].aborted
        <5>1. CASE h = f
          BY <3>2, <3>3, <3>4, <5>1
        <5>2. CASE h # f
          <6>1. group'[h].generation = group[h].generation /\ group[h].generation \in Generations
            BY <3>4, <4>1, <5>2, GroupFields
          <6>2. reader'[group[h].generation] = reader[group[h].generation]
            BY <3>3, <3>6, <6>1
          <6>3. QED BY <4>1, <6>1, <6>2 DEF RegistryInv, RegistryMatchesReaders, Running, Key
        <5>3. QED BY <5>1, <5>2
      <4>2. ASSUME NEW x \in Generations, reader'[x].pc \notin {"unborn", "done"}, ~reader'[x].aborted
            PROVE  group'[reader'[x].key].generation = x
        <5>1. CASE x = g
          BY <3>2, <3>3, <3>4, <5>1
        <5>2. CASE x # g
          <6>1. reader'[x] = reader[x] /\ group[reader[x].key].generation = x
            BY <3>3, <4>2, <5>2 DEF RegistryInv, RegistryMatchesReaders, Running, Key, Owns
          <6>2. reader[x].key # f
            BY <3>4, <6>1
          <6>3. QED BY <3>4, <6>1, <6>2, ReaderFields
        <5>3. QED BY <5>1, <5>2
      <4>3. QED BY <4>1, <4>2 DEF RegistryMatchesReaders, Running, Key, Owns
    <3>8. EmptyGroupIsBeingRemoved'
      <4>1. ASSUME NEW h \in Filters, group'[h].generation # NoGeneration, group'[h].members = {}
            PROVE  reader'[group'[h].generation].pc = "remove"
        <5>1. h # f
          BY <3>4, <4>1
        <5>2. /\ group'[h] = group[h] /\ group[h].generation \in Generations
              /\ group[h].generation # g
          BY <3>4, <3>6, <4>1, <5>1, GroupFields
        <5>3. reader'[group[h].generation] = reader[group[h].generation]
          BY <3>3, <5>2
        <5>4. QED BY <4>1, <5>2, <5>3 DEF RegistryInv, EmptyGroupIsBeingRemoved
      <4>2. QED BY <4>1 DEF EmptyGroupIsBeingRemoved
    <3>9. MembersAreLive'
      BY <2>0, <2>1, <3>4, GroupFields DEF RegistryInv, MembersAreLive
    <3>10. \A h \in Filters : group'[h].generation = NoGeneration => group'[h].members = {}
      BY <3>1, <3>4 DEF RegistryInv
    <3>11. \A x \in Generations : x >= g' => reader'[x].pc = "unborn"
      BY <3>1, <3>3 DEF RegistryInv, HubTypeOK
    <3>12. QED BY <3>7, <3>8, <3>9, <3>10, <3>11 DEF RegistryInv
  <2>4. QED BY <1>2, <2>2, <2>3 DEF Join
<1>3. ASSUME NEW s \in Sockets, Receive(s) PROVE RegistryInv'
  BY <1>0, <1>3 DEF Receive
<1>4. ASSUME NEW s \in Sockets, Leave(s) PROVE RegistryInv'
  <2> DEFINE f == FilterOf[s]
             g == group[f].generation
             rest == group[f].members \ {s}
  <2>0. f \in Filters /\ g \in {NoGeneration} \cup Generations /\ rest \subseteq Sockets
    BY GroupFields
  <2>1. /\ phase'[s] = "left" /\ \A m \in Sockets : m # s => phase'[m] = phase[m]
        /\ nextGeneration' = nextGeneration
    BY <1>4 DEF Leave, HubTypeOK
  <2>2. CASE g = NoGeneration
    <3>1. UNCHANGED <<group, reader>> /\ group[f].members = {}
      BY <1>4, <2>0, <2>2 DEF Leave, RegistryInv
    <3>2. \A h \in Filters : s \notin group[h].members
      BY <3>1 DEF RegistryInv, MembersAreLive
    <3>3. MembersAreLive'
      <4>1. ASSUME NEW h \in Filters, NEW m \in group'[h].members
            PROVE  FilterOf[m] = h /\ phase'[m] = "live"
        <5>1. m \in Sockets /\ m # s /\ m \in group[h].members
          BY <3>1, <3>2, GroupFields
        <5>2. QED BY <2>1, <5>1 DEF RegistryInv, MembersAreLive
      <4>2. QED BY <4>1 DEF MembersAreLive
    <3>4. QED
      BY <2>1, <3>1, <3>3 DEF RegistryInv, RegistryMatchesReaders,
                              EmptyGroupIsBeingRemoved, Running, Key, Owns
  <2>3. CASE g # NoGeneration /\ rest # {}
    <3>1. UNCHANGED reader /\ group' = [group EXCEPT ![f].members = rest]
      BY <1>4, <2>3 DEF Leave
    <3>2. /\ \A h \in Filters : group'[h].generation = group[h].generation
          /\ \A h \in Filters : h # f => group'[h] = group[h]
          /\ group'[f].members = rest
      BY <2>0, <3>1 DEF HubTypeOK, GroupRecord
    <3>3. MembersAreLive'
      <4>1. ASSUME NEW h \in Filters, NEW m \in group'[h].members
            PROVE  FilterOf[m] = h /\ phase'[m] = "live"
        <5>1. m \in group[h].members /\ m \in Sockets
          BY <3>2, GroupFields
        <5>2. FilterOf[m] = h /\ phase[m] = "live"
          BY <5>1 DEF RegistryInv, MembersAreLive
        <5>3. m # s
          BY <3>2, <5>2
        <5>4. QED BY <2>1, <5>1, <5>2, <5>3
      <4>2. QED BY <4>1 DEF MembersAreLive
    <3>4. RegistryMatchesReaders'
      BY <3>1, <3>2, ReaderFields DEF RegistryInv, RegistryMatchesReaders, Running, Key, Owns
    <3>5. EmptyGroupIsBeingRemoved'
      BY <2>3, <3>1, <3>2 DEF RegistryInv, EmptyGroupIsBeingRemoved
    <3>6. QED BY <2>1, <2>3, <3>1, <3>2, <3>3, <3>4, <3>5 DEF RegistryInv
  <2>4. CASE g # NoGeneration /\ rest = {}
    <3> DEFINE r == [reader[g] EXCEPT !.aborted = TRUE]
    <3>1. g \in Generations /\ Running(g) /\ Key(g) = f
      BY <2>0, <2>4 DEF RegistryInv, RegistryMatchesReaders
    <3>2. r \in ReaderRecord /\ r.pc = reader[g].pc /\ r.key = f /\ r.aborted
      <4>1. reader[g] \in ReaderRecord
        BY <3>1, ReaderIn
      <4>2. QED BY <3>1, <4>1, AbortUpdate DEF Key
    <3>3. Becomes(g, r) /\ group' = [group EXCEPT ![f] = Absent]
      BY <1>4, <2>4 DEF Leave, Abort
    <3> HIDE DEF r
    <3>4. /\ reader'[g] = r
          /\ \A h \in Generations : h # g => reader'[h] = reader[h]
      BY <3>1, <3>2, <3>3, BecomesType
    <3>5. /\ group'[f].generation = NoGeneration /\ group'[f].members = {}
          /\ \A h \in Filters : h # f => group'[h] = group[h]
      BY <2>0, <3>3 DEF HubTypeOK, Absent
    <3>7. \A h \in Filters : \A m \in group[h].members : h # f => phase'[m] = "live"
      <4>1. ASSUME NEW h \in Filters, NEW m \in group[h].members, h # f
            PROVE  phase'[m] = "live"
        <5>1. m \in Sockets /\ FilterOf[m] = h /\ phase[m] = "live"
          BY GroupFields DEF RegistryInv, MembersAreLive
        <5>2. m # s
          BY <4>1, <5>1
        <5>3. QED BY <2>1, <5>1, <5>2
      <4>2. QED BY <4>1
    <3>8. QED BY <2>0, <2>1, <3>1, <3>2, <3>4, <3>5, <3>7, Unregister
  <2>5. QED BY <2>2, <2>3, <2>4
<1>5. ASSUME NEW s \in Sockets, DropReceiver(s) PROVE RegistryInv'
  <2>1. \A m \in Sockets : phase[m] = "live" => phase'[m] = "live"
    BY <1>5 DEF DropReceiver, HubTypeOK
  <2>2. MembersAreLive'
    BY <1>5, <2>1, GroupFields DEF DropReceiver, RegistryInv, MembersAreLive
  <2>3. QED
    BY <1>5, <2>2 DEF DropReceiver, RegistryInv, RegistryMatchesReaders,
                      EmptyGroupIsBeingRemoved, Running, Key, Owns
<1>6. ASSUME NEW g \in Generations, Subscribe(g) PROVE RegistryInv'
  <2> DEFINE r == [reader[g] EXCEPT !.pc = "next", !.cursor = Len(log)]
  <2>1. Len(log) \in Nat
    BY DEF HubTypeOK
  <2>2. r \in ReaderRecord /\ r.pc = "next" /\ r.key = Key(g) /\ r.aborted = reader[g].aborted
    <3>1. reader[g] \in ReaderRecord /\ "next" \in ReaderPC
      BY ReaderIn DEF ReaderPC
    <3>2. r \in ReaderRecord
      BY <2>1, <3>1, SubscribeUpdate
    <3>3. QED BY <3>1, <3>2 DEF Key, ReaderRecord
  <2> HIDE DEF r
  <2>3. Becomes(g, r)
    BY <1>6 DEF Subscribe, r
  <2>4. QED BY <1>6, <2>2, <2>3, GoesOn DEF Subscribe, Running
<1>7. ASSUME NEW g \in Generations, NextEvent(g) PROVE RegistryInv'
  <2>1. PICK i \in 1 .. Len(log) :
          Becomes(g, [reader[g] EXCEPT
            !.cursor = i,
            !.pc = IF log[i] \in Unserializable THEN "next" ELSE "snapshot"])
    BY <1>7 DEF NextEvent
  <2> DEFINE p == IF log[i] \in Unserializable THEN "next" ELSE "snapshot"
  <2> DEFINE r == [reader[g] EXCEPT !.cursor = i, !.pc = p]
  <2>2. i \in Nat /\ p \in ReaderPC \ {"unborn", "done"}
    BY DEF HubTypeOK, ReaderPC
  <2> HIDE DEF p
  <2>3. r \in ReaderRecord /\ r.pc = p /\ r.key = Key(g) /\ r.aborted = reader[g].aborted
    <3>1. reader[g] \in ReaderRecord
      BY ReaderIn
    <3>2. r \in ReaderRecord
      BY <2>2, <3>1, EventUpdate
    <3>3. QED BY <3>1, <3>2 DEF Key, ReaderRecord
  <2> HIDE DEF r
  <2>4. Becomes(g, r)
    BY <2>1 DEF r, p
  <2>5. QED BY <1>7, <2>2, <2>3, <2>4, GoesOn DEF NextEvent, Running
<1>8. ASSUME NEW g \in Generations, Snapshot(g) PROVE RegistryInv'
  <2> DEFINE M == group[Key(g)].members
             r == [reader[g] EXCEPT !.pc = "fanout", !.senders = M, !.todo = M]
  <2>1. M \in SUBSET Sockets
    BY ReaderFields, GroupFields DEF Key
  <2>2. r \in ReaderRecord /\ r.pc = "fanout" /\ r.key = Key(g) /\ r.aborted = reader[g].aborted
    <3>1. reader[g] \in ReaderRecord /\ "fanout" \in ReaderPC
      BY ReaderIn DEF ReaderPC
    <3>2. r \in ReaderRecord
      BY <2>1, <3>1, SnapshotUpdate
    <3>3. QED BY <3>1, <3>2 DEF Key, ReaderRecord
  <2>3. CASE Owns(g)
    <3>1. Becomes(g, r)
      BY <1>8, <2>3 DEF Snapshot
    <3> HIDE DEF r
    <3>2. QED BY <1>8, <2>2, <3>1, GoesOn DEF Snapshot, Running
  <2>4. CASE ~Owns(g)
    BY <1>8, <2>4, Stops DEF Snapshot, Running
  <2>5. QED BY <2>3, <2>4
<1>9. ASSUME NEW g \in Generations, NEW s \in Sockets, TrySend(g, s) PROVE RegistryInv'
  <2> DEFINE r == [reader[g] EXCEPT !.todo = @ \ {s}]
             q == [reader[g] EXCEPT !.todo = @ \ {s}, !.drops = @ \cup {s}]
  <2>1. reader[g].todo \ {s} \in SUBSET Sockets /\ reader[g].drops \cup {s} \in SUBSET Sockets
    BY ReaderFields
  <2>2. /\ r \in ReaderRecord /\ r.pc = reader[g].pc /\ r.key = Key(g) /\ r.aborted = reader[g].aborted
        /\ q \in ReaderRecord /\ q.pc = reader[g].pc /\ q.key = Key(g) /\ q.aborted = reader[g].aborted
    <3>1. reader[g] \in ReaderRecord
      BY ReaderIn
    <3>2. /\ r \in ReaderRecord /\ r.pc = reader[g].pc
          /\ r.key = reader[g].key /\ r.aborted = reader[g].aborted
      BY <2>1, <3>1, SentUpdate
    <3>3. q \in ReaderRecord
      BY <2>1, <3>1, RefusedUpdate
    <3>4. QED BY <3>1, <3>2, <3>3 DEF Key, ReaderRecord
  <2>3. Becomes(g, r) \/ Becomes(g, q)
    BY <1>9 DEF TrySend
  <2> HIDE DEF r, q
  <2>4. QED BY <1>9, <2>2, <2>3, GoesOn DEF TrySend, Running
<1>10. ASSUME NEW g \in Generations, KeepAll(g) PROVE RegistryInv'
  BY <1>10, AwaitingType, GoesOn DEF KeepAll, FannedOut, Running, Key
<1>11. ASSUME NEW g \in Generations, Prune(g) PROVE RegistryInv'
  <2> DEFINE f == Key(g)
             rest == group[f].members \ reader[g].drops
  <2>0. f \in Filters /\ rest \subseteq Sockets
    BY ReaderFields, GroupFields DEF Key
  <2>1. CASE ~Owns(g)
    BY <1>11, <2>1, Stops DEF Prune, FannedOut, Running
  <2>2. CASE Owns(g)
    <3>1. /\ group' = [group EXCEPT ![f].members = rest]
          /\ UNCHANGED <<nextGeneration, phase>>
          /\ reader[g].pc = "fanout"
      BY <1>11, <2>2 DEF Prune, FannedOut
    <3>2. /\ \A h \in Filters : group'[h].generation = group[h].generation
          /\ \A h \in Filters : h # f => group'[h] = group[h]
          /\ group'[f].members = rest
      BY <2>0, <3>1 DEF HubTypeOK, GroupRecord
    <3>3. PICK r \in ReaderRecord :
            /\ Becomes(g, r) /\ r.key = f /\ r.aborted = reader[g].aborted
            /\ r.pc = IF rest = {} THEN "remove" ELSE "next"
      <4>1. CASE rest = {}
        <5> DEFINE q == [reader[g] EXCEPT !.pc = "remove"]
        <5>1. reader[g] \in ReaderRecord /\ "remove" \in ReaderPC
          BY ReaderIn DEF ReaderPC
        <5>2. /\ q \in ReaderRecord /\ q.pc = "remove" /\ q.key = f
              /\ q.aborted = reader[g].aborted
          BY <5>1, PcUpdate DEF Key
        <5>3. Becomes(g, q)
          BY <1>11, <2>2, <4>1 DEF Prune
        <5> HIDE DEF q
        <5>4. QED BY <4>1, <5>2, <5>3
      <4>2. CASE rest # {}
        BY <1>11, <2>2, <4>2, AwaitingType DEF Prune, Key
      <4>3. QED BY <4>1, <4>2
    <3>4. /\ reader'[g] = r
          /\ \A h \in Generations : h # g => reader'[h] = reader[h]
      BY <3>3, BecomesType
    <3>5. \A h \in Generations :
            /\ Running(h)' <=> Running(h)
            /\ Key(h)' = Key(h)
            /\ Owns(h)' <=> Owns(h)
            /\ reader'[h].aborted = reader[h].aborted
            /\ reader[h].pc = "unborn" => reader'[h].pc = "unborn"
      BY <3>1, <3>2, <3>3, <3>4, ReaderFields DEF Running, Key, Owns
    <3>6. RegistryMatchesReaders'
      <4>1. ASSUME NEW h \in Filters, group'[h].generation # NoGeneration
            PROVE  LET x == group'[h].generation
                   IN /\ reader'[x].pc \notin {"unborn", "done"}
                      /\ reader'[x].key = h /\ ~reader'[x].aborted
        <5>1. group'[h].generation = group[h].generation /\ group[h].generation \in Generations
          BY <3>2, <4>1, GroupFields
        <5>2. /\ Running(group[h].generation) /\ Key(group[h].generation) = h
              /\ ~reader[group[h].generation].aborted
          BY <4>1, <5>1 DEF RegistryInv, RegistryMatchesReaders
        <5>3. /\ reader'[group[h].generation].pc \notin {"unborn", "done"}
              /\ reader'[group[h].generation].key = h
              /\ ~reader'[group[h].generation].aborted
          BY <3>5, <5>1, <5>2 DEF Running, Key
        <5>4. QED BY <5>1, <5>3
      <4>2. ASSUME NEW x \in Generations, reader'[x].pc \notin {"unborn", "done"},
                   ~reader'[x].aborted
            PROVE  group'[reader'[x].key].generation = x
        <5>1. Running(x) /\ ~reader[x].aborted
          BY <3>5, <4>2 DEF Running
        <5>2. Owns(x)
          BY <5>1 DEF RegistryInv, RegistryMatchesReaders
        <5>3. QED BY <3>5, <5>2 DEF Owns, Key
      <4>3. QED BY <4>1, <4>2 DEF RegistryMatchesReaders, Running, Key, Owns
    <3>7. ASSUME NEW h \in Filters, group'[h].generation # NoGeneration, group'[h].members = {}
          PROVE  reader'[group'[h].generation].pc = "remove"
      <4>1. CASE h = f
        BY <2>2, <3>2, <3>3, <3>4, <3>7, <4>1 DEF Owns
      <4>2. CASE h # f
        <5>1. group[h].generation \in Generations /\ group[h].generation # g
          BY <3>2, <3>7, <4>2, GroupFields DEF RegistryInv, RegistryMatchesReaders
        <5>2. QED BY <3>2, <3>4, <3>7, <4>2, <5>1 DEF RegistryInv, EmptyGroupIsBeingRemoved
      <4>3. QED BY <4>1, <4>2
    <3>8. MembersAreLive'
      BY <3>1, <3>2, GroupFields DEF RegistryInv, MembersAreLive
    <3>9. \A h \in Filters : group'[h].generation = NoGeneration => group'[h].members = {}
      BY <2>0, <2>2, <3>2 DEF RegistryInv, Owns
    <3>10. QED BY <3>1, <3>5, <3>6, <3>7, <3>8, <3>9 DEF RegistryInv, EmptyGroupIsBeingRemoved
  <2>3. QED BY <2>1, <2>2
<1>12. ASSUME NEW g \in Generations, Remove(g) PROVE RegistryInv'
  <2>1. CASE ~Owns(g)
    BY <1>12, <2>1, Stops DEF Remove, Running
  <2>2. CASE Owns(g)
    <3> DEFINE f == Key(g)
    <3>1. f \in Filters /\ Running(g) /\ group[f].generation = g
      BY <1>12, <2>2, ReaderFields DEF Remove, Running, Key, Owns
    <3>2. group' = [group EXCEPT ![f] = Absent] /\ UNCHANGED <<nextGeneration, phase>>
      BY <1>12, <2>2 DEF Remove
    <3>3. /\ group'[f].generation = NoGeneration /\ group'[f].members = {}
          /\ \A h \in Filters : h # f => group'[h] = group[h]
      BY <3>1, <3>2 DEF HubTypeOK, Absent
    <3>4. /\ reader'[g] = Finished(g)
          /\ \A h \in Generations : h # g => reader'[h] = reader[h]
      BY <1>12, FinishedType, BecomesType DEF Remove
    <3>5. Finished(g).pc = "done"
      BY FinishedType
    <3>6. \A h \in Filters : \A m \in group[h].members : h # f => phase'[m] = "live"
      BY <3>2 DEF RegistryInv, MembersAreLive
    <3> HIDE DEF f
    <3>7. QED BY <3>1, <3>2, <3>3, <3>4, <3>5, <3>6, Unregister
  <2>3. QED BY <2>1, <2>2
<1>13. ASSUME NEW g \in Generations, StreamEnds(g) PROVE RegistryInv'
  <2> DEFINE r == [reader[g] EXCEPT !.pc = "remove"]
  <2>1. r \in ReaderRecord /\ r.pc = "remove" /\ r.key = Key(g) /\ r.aborted = reader[g].aborted
    BY ReaderIn, PcUpdate DEF ReaderPC, Key
  <2>2. Becomes(g, r)
    BY <1>13 DEF StreamEnds
  <2> HIDE DEF r
  <2>3. QED BY <1>13, <2>1, <2>2, GoesOn DEF StreamEnds, Running
<1>14. ASSUME NEW g \in Generations, Cancel(g) PROVE RegistryInv'
  <2>1. ~Owns(g)
    BY <1>14, ReaderFields DEF Cancel, Owns, Key, RegistryInv, RegistryMatchesReaders
  <2>2. QED BY <1>14, <2>1, Stops DEF Cancel, Running
<1> QED
  BY <1>0, <1>1, <1>2, <1>3, <1>4, <1>5, <1>6, <1>7, <1>8, <1>9, <1>10, <1>11, <1>12,
     <1>13, <1>14 DEF HubNext, ReaderStep, hubVars
(* The registry and the tasks agree in every reachable state: each group   *)
(* is served by a running task of its own generation that nobody aborted,  *)
(* and no task serves on without its group (hub.rs:8-10, 166-213).         *)
THEOREM RegistryCorrect == HubSpec => []RegistryMatchesReaders
<1>1. RegistryInv => RegistryMatchesReaders
  BY DEF RegistryInv
<1>2. QED
  BY <1>1, TypeInit, TypeStep, RegistryInit, RegistryStep, PTL DEF HubSpec

(* No group is left behind empty: whenever one has no member, its task is  *)
(* about to remove it (hub.rs:166-186, 339-354).                           *)
THEOREM NoGroupLeaks == HubSpec => []EmptyGroupIsBeingRemoved
<1>1. RegistryInv => EmptyGroupIsBeingRemoved
  BY DEF RegistryInv
<1>2. QED
  BY <1>1, TypeInit, TypeStep, RegistryInit, RegistryStep, PTL DEF HubSpec

(* A dropped subscription is in no group (Drop, hub.rs:84-88).             *)
THEOREM NoMemberLeaks == HubSpec => []MembersAreLive
<1>1. RegistryInv => MembersAreLive
  BY DEF RegistryInv
<1>2. QED
  BY <1>1, TypeInit, TypeStep, RegistryInit, RegistryStep, PTL DEF HubSpec
-----------------------------------------------------------------------------
(* The frames.                                                             *)

(* Reader g may still send to s: it is about to, or s is in its group.     *)
Serves(g, s) ==
  s \in reader[g].todo \/ (Owns(g) /\ s \in group[Key(g)].members)

Wanted(f) == Forwarded(log, f)
Last(s) == frames[s][Len(frames[s])]

(* s was sent the frames of filter f up to position c, and nothing later,  *)
(* since it was sent any; or only those before c.                          *)
UpTo(s, f, c) == Last(s) <= c /\ \A i \in Wanted(f) : i <= c => i <= Last(s)
Before(s, f, c) == Last(s) < c /\ \A i \in Wanted(f) : i < c => i <= Last(s)

(* How far s is with respect to a reader r that serves it: a subscription  *)
(* that has taken a frame has taken every one since, unless it is about to *)
(* be pruned or its group to be removed.                                   *)
Follows(s, r) ==
  frames[s] # <<>> =>
    /\ r.pc # "spawned"
    /\ r.pc = "next" => UpTo(s, r.key, r.cursor)
    /\ r.pc = "snapshot" \/ s \in r.todo => Before(s, r.key, r.cursor)
    /\ r.pc = "fanout" /\ s \notin r.todo \cup r.drops => UpTo(s, r.key, r.cursor)

(* A reader is not ahead of the topic, has an event of its filter in hand  *)
(* when it fans out, and fans it out to subscriptions of that filter.      *)
InHand(r) ==
  /\ r.cursor <= Len(log)
  /\ r.pc \in {"snapshot", "fanout"} => r.cursor \in Wanted(r.key)
  /\ \A s \in r.todo : r.pc = "fanout" /\ FilterOf[s] = r.key /\ phase[s] # "none"

(* FramesAreContiguous is not inductive: a frame follows on the last one   *)
(* because its reader has been the only one to serve the subscription,     *)
(* which it has been since the subscription joined.                        *)
FrameInv ==
  /\ FramesAreContiguous
  /\ \A g \in Generations : InHand(reader[g])
  /\ \A g \in Generations : \A s \in Sockets : Serves(g, s) => Follows(s, reader[g])
  /\ \A g, h \in Generations : \A s \in Sockets : Serves(g, s) /\ Serves(h, s) => g = h
  /\ \A s \in Sockets : phase[s] = "none" => frames[s] = <<>>

LEMMA FrameInit == HubInit => FrameInv
<1> SUFFICES ASSUME HubInit PROVE FrameInv
  OBVIOUS
<1>1. /\ log = <<>>
      /\ \A f \in Filters : group[f].members = {}
      /\ \A g \in Generations : reader[g] = Unborn
      /\ \A s \in Sockets : frames[s] = <<>>
  BY DEF HubInit, Absent
<1>2. \A g \in Generations : reader[g].key \in Filters /\ reader[g].todo = {}
                             /\ reader[g].pc = "unborn" /\ reader[g].cursor = 0
  <2>1. Unborn.todo = {} /\ Unborn.pc = "unborn" /\ Unborn.cursor = 0
    BY DEF Unborn
  <2>2. Unborn.key \in Filters
    BY UnbornType DEF ReaderRecord
  <2>3. QED BY <1>1, <2>1, <2>2
<1>3. \A g \in Generations : \A s \in Sockets : ~Serves(g, s)
  BY <1>1, <1>2 DEF Serves, Key
<1>4. \A g \in Generations : InHand(reader[g])
  BY <1>1, <1>2 DEF InHand
<1>5. FramesAreContiguous
  BY <1>1 DEF FramesAreContiguous, Contiguous
<1>6. QED BY <1>1, <1>3, <1>4, <1>5 DEF FrameInv

(* The groups of HubNext's steps other than joins: members leave.          *)
GroupsShrink ==
  \A f \in Filters : group'[f].generation # NoGeneration =>
    group'[f].generation = group[f].generation /\ group'[f].members \subseteq group[f].members

(* A step of reader g that sends nothing.                                  *)
LEMMA ReaderMoves ==
  ASSUME HubTypeOK, FrameInv, NEW g \in Generations, NEW r \in ReaderRecord,
         Becomes(g, r), r.key = Key(g), UNCHANGED <<log, frames>>, GroupsShrink,
         \A s \in Sockets : phase'[s] = "none" <=> phase[s] = "none",
         \A s \in r.todo : Serves(g, s),
         InHand(r),
         \A s \in Sockets : Serves(g, s)' /\ Follows(s, reader[g]) => Follows(s, r)
  PROVE  FrameInv'
<1>1. /\ reader'[g] = r
      /\ \A h \in Generations : h # g => reader'[h] = reader[h]
  BY BecomesType
<1>2. ASSUME NEW h \in Generations, NEW s \in Sockets, Serves(h, s)' PROVE Serves(h, s)
  <2>1. Key(h)' = Key(h) /\ Key(h) \in Filters /\ h # NoGeneration
    BY <1>1, ReaderFields DEF Key
  <2>2. Owns(h)' /\ s \in group'[Key(h)].members => Owns(h) /\ s \in group[Key(h)].members
    BY <2>1 DEF Owns, GroupsShrink
  <2>3. s \in reader'[h].todo => Serves(h, s)
    BY <1>1 DEF Serves
  <2>4. QED BY <1>2, <2>1, <2>2, <2>3 DEF Serves
<1>3. FramesAreContiguous'
  BY DEF FrameInv, FramesAreContiguous
<1>4. ASSUME NEW h \in Generations PROVE InHand(reader[h])'
  <2>1. InHand(reader'[h]) /\ reader'[h] \in ReaderRecord
    BY <1>1, ReaderIn DEF FrameInv
  <2>2. \A s \in reader'[h].todo : s \in Sockets
    BY <2>1 DEF ReaderRecord
  <2>3. QED BY <2>1, <2>2 DEF InHand, Wanted
<1>5. ASSUME NEW h \in Generations, NEW s \in Sockets, Serves(h, s)'
      PROVE  Follows(s, reader[h])'
  <2>1. Follows(s, reader'[h])
    BY <1>1, <1>2, <1>5 DEF FrameInv
  <2>2. QED BY <2>1 DEF Follows, UpTo, Before, Last, Wanted
<1>6. QED BY <1>2, <1>3, <1>4, <1>5 DEF FrameInv

(* A reader that stops serves nobody any more.                             *)
LEMMA StopsFrames ==
  ASSUME HubTypeOK, FrameInv, NEW g \in Generations, Becomes(g, Finished(g)),
         UNCHANGED <<log, phase, frames>>, GroupsShrink
  PROVE  FrameInv'
<1>1. /\ Finished(g) \in ReaderRecord /\ Finished(g).pc = "done"
      /\ Finished(g).key = Key(g) /\ Finished(g).todo = {} /\ Finished(g).cursor = 0
  BY FinishedType DEF Key, Finished, Unborn
<1>2. InHand(Finished(g))
  BY <1>1 DEF InHand, HubTypeOK
<1>3. \A s \in Sockets : Follows(s, Finished(g))
  BY <1>1 DEF Follows
<1>4. QED BY <1>1, <1>2, <1>3, ReaderMoves

(* Nor does one whose stream ended or whose group is empty send again.     *)
LEMMA RemovesFrames ==
  ASSUME HubTypeOK, FrameInv, NEW g \in Generations,
         Becomes(g, [reader[g] EXCEPT !.pc = "remove"]),
         reader[g].pc \in {"next", "fanout"}, reader[g].todo = {},
         UNCHANGED <<log, phase, frames>>, GroupsShrink
  PROVE  FrameInv'
<1> DEFINE r == [reader[g] EXCEPT !.pc = "remove"]
<1>1. reader[g] \in ReaderRecord /\ "remove" \in ReaderPC
  BY ReaderIn DEF ReaderPC
<1>2. /\ r \in ReaderRecord /\ r.pc = "remove" /\ r.key = Key(g)
      /\ r.todo = {} /\ r.cursor = reader[g].cursor
  BY <1>1, PcUpdate DEF Key
<1> HIDE DEF r
<1>3. InHand(r)
  BY <1>2 DEF FrameInv, InHand
<1>4. \A s \in Sockets : Follows(s, r)
  BY <1>2 DEF Follows
<1>5. Becomes(g, r)
  BY DEF r
<1>6. QED BY <1>2, <1>3, <1>4, <1>5, ReaderMoves

(* After a fanout the members that took the event in hand are up to date.  *)
LEMMA AwaitsFrames ==
  ASSUME HubTypeOK, FrameInv, NEW g \in Generations, Becomes(g, Awaiting(g)), FannedOut(g),
         UNCHANGED <<log, phase, frames>>, GroupsShrink,
         \A t \in Sockets : t \in group'[Key(g)].members => t \notin reader[g].drops
  PROVE  FrameInv'
<1> DEFINE r == Awaiting(g)
<1>1. /\ r \in ReaderRecord /\ r.pc = "next" /\ r.key = Key(g) /\ r.todo = {}
      /\ r.cursor = reader[g].cursor /\ reader[g].pc = "fanout" /\ reader[g].todo = {}
  BY AwaitingType DEF FannedOut, Key
<1>2. reader'[g] = r
  BY <1>1, BecomesType
<1> HIDE DEF r
<1>3. InHand(r)
  BY <1>1 DEF FrameInv, InHand
<1>4. ASSUME NEW t \in Sockets, Serves(g, t)', Follows(t, reader[g]) PROVE Follows(t, r)
  <2>1. t \notin reader[g].drops
    BY <1>1, <1>2, <1>4 DEF Serves, Key
  <2>2. QED BY <1>1, <1>4, <2>1 DEF Follows, Key
<1>5. Becomes(g, r)
  BY DEF r
<1>6. QED BY <1>1, <1>3, <1>4, <1>5, ReaderMoves

(* A step of nobody's reader that sends nothing and adds no member.        *)
LEMMA MembersMove ==
  ASSUME HubTypeOK, FrameInv, UNCHANGED <<log, reader, frames>>, GroupsShrink,
         \A s \in Sockets : phase'[s] = "none" <=> phase[s] = "none"
  PROVE  FrameInv'
<1>1. ASSUME NEW h \in Generations, NEW s \in Sockets, Serves(h, s)' PROVE Serves(h, s)
  BY <1>1, ReaderFields DEF Serves, Owns, Key, GroupsShrink
<1>2. \A h \in Generations : \A s \in reader[h].todo : s \in Sockets
  BY ReaderFields
<1>3. \A h \in Generations : InHand(reader[h])'
  BY <1>2 DEF FrameInv, InHand, Wanted
<1>4. \A h \in Generations : \A s \in Sockets : Follows(s, reader[h])' <=> Follows(s, reader[h])
  BY DEF Follows, UpTo, Before, Last, Wanted
<1>5. QED BY <1>1, <1>3, <1>4 DEF FrameInv, FramesAreContiguous

(* A new event is beyond what any reader looked at.                        *)
LEMMA PublishFrames ==
  ASSUME HubTypeOK, FrameInv, NEW e \in Kinds, Publish(e)
  PROVE  FrameInv'
<1>1. /\ log' = Append(log, e) /\ UNCHANGED <<group, reader, phase, frames>>
      /\ log \in Seq(Kinds)
  BY DEF Publish, HubTypeOK
<1>2. \A f \in Filters : \A i \in 1 .. Len(log) : i \in Wanted(f)' <=> i \in Wanted(f)
  BY <1>1, Published DEF Wanted
<1>3. \A f \in Filters : Wanted(f) \subseteq 1 .. Len(log) /\ Wanted(f)' \subseteq 1 .. Len(log) + 1
  BY <1>1, Published, Positions DEF Wanted
<1>4. Len(log) \in Nat /\ Len(log') = Len(log) + 1
  BY <1>1
<1>5. FramesAreContiguous'
  <2>1. ASSUME NEW s \in Sockets PROVE Contiguous(frames[s], Forwarded(log', FilterOf[s]))
    <3>1. Contiguous(frames[s], Forwarded(log, FilterOf[s])) /\ frames[s] \in Seq(Nat)
      BY DEF FrameInv, FramesAreContiguous, HubTypeOK
    <3>2. FilterOf[s] \in Filters
      BY HubAssumption
    <3>3. QED BY <1>1, <3>1, <3>2, ContiguousStays
  <2>2. QED BY <1>1, <2>1 DEF FramesAreContiguous
<1>6. ASSUME NEW g \in Generations PROVE InHand(reader[g])'
  <2>1. InHand(reader[g]) /\ reader[g].cursor \in Nat /\ reader[g].key \in Filters
    BY ReaderFields DEF FrameInv
  <2>2. reader[g].pc \in {"snapshot", "fanout"} => reader[g].cursor \in Wanted(reader[g].key)'
    <3>1. \A i \in Wanted(reader[g].key) : i \in Wanted(reader[g].key)'
      BY <1>1, <1>2, <1>3, <2>1
    <3>2. QED BY <2>1, <3>1 DEF InHand
  <2>3. QED BY <1>1, <1>4, <2>1, <2>2 DEF InHand
<1>7. ASSUME NEW g \in Generations, NEW s \in Sockets, Serves(g, s)
      PROVE  Follows(s, reader[g])'
  <2>1. Follows(s, reader[g]) /\ InHand(reader[g])
    BY <1>7 DEF FrameInv
  <2>2. reader[g].cursor \in Nat /\ reader[g].key \in Filters
    BY ReaderFields
  <2>3. \A i \in Wanted(reader[g].key)' : i <= reader[g].cursor => i \in Wanted(reader[g].key)
    <3>1. reader[g].cursor <= Len(log)
      BY <2>1 DEF InHand
    <3>2. \A i \in Wanted(reader[g].key)' : i \in 1 .. Len(log) + 1
      BY <1>1, <1>3, <2>2
    <3>3. \A i \in Wanted(reader[g].key)' : i \in 1 .. Len(log) => i \in Wanted(reader[g].key)
      BY <1>1, <1>2, <2>2
    <3>4. QED BY <1>4, <2>2, <3>1, <3>2, <3>3
  <2>4. \A i \in Wanted(reader[g].key)' : i \in Nat
    BY <1>1, <1>3, <1>4, <2>2
  <2>5. Last(s)' = Last(s)
    BY <1>1 DEF Last
  <2>6. /\ UpTo(s, reader[g].key, reader[g].cursor) => UpTo(s, reader[g].key, reader[g].cursor)'
        /\ Before(s, reader[g].key, reader[g].cursor) => Before(s, reader[g].key, reader[g].cursor)'
    BY <1>1, <2>2, <2>3, <2>4, <2>5 DEF UpTo, Before
  <2>7. QED BY <1>1, <2>1, <2>6 DEF Follows
<1>8. \A g \in Generations : \A s \in Sockets : Serves(g, s)' <=> Serves(g, s)
  BY <1>1 DEF Serves, Owns, Key
<1>9. QED BY <1>1, <1>5, <1>6, <1>7, <1>8 DEF FrameInv

(* A subscription that joins has been served by no reader before.          *)
LEMMA JoinFrames ==
  ASSUME HubTypeOK, RegistryInv, FrameInv, NEW s \in Sockets, Join(s)
  PROVE  FrameInv'
<1> USE HubAssumption
<1> DEFINE f == FilterOf[s]
<1>1. /\ f \in Filters /\ phase[s] = "none" /\ phase' = [phase EXCEPT ![s] = "live"]
      /\ frames[s] = <<>> /\ UNCHANGED <<log, frames>>
  BY DEF Join, FrameInv
<1>2. \A h \in Generations : ~Serves(h, s)
  BY <1>1, ReaderFields DEF FrameInv, InHand, Serves, Key, RegistryInv, MembersAreLive
<1>3. PICK g \in Generations :
        /\ \A h \in Generations, t \in Sockets :
             Serves(h, t)' => Serves(h, t) \/ (t = s /\ h = g)
        /\ \A h \in Generations : reader'[h] = reader[h] \/ (h = g /\ InHand(reader'[h]))
        /\ \A t \in Sockets : Serves(g, t) => reader'[g] = reader[g]
  <2>1. CASE JoinExisting(s)
    <3>1. /\ \A h \in Filters : group'[h].generation = group[h].generation
          /\ \A h \in Filters : h # f => group'[h] = group[h]
          /\ group'[f].members = group[f].members \cup {s}
          /\ reader' = reader /\ group[f].generation \in Generations
      BY <1>1, <2>1, GroupFields DEF JoinExisting, HubTypeOK, GroupRecord
    <3>2. ASSUME NEW h \in Generations, NEW t \in Sockets, Serves(h, t)'
          PROVE  Serves(h, t) \/ (t = s /\ h = group[f].generation)
      BY <3>1, <3>2, ReaderFields DEF Serves, Owns, Key
    <3>3. QED BY <3>1, <3>2
  <2>2. CASE JoinNew(s)
    <3> DEFINE n == nextGeneration
               r == [Unborn EXCEPT !.pc = "spawned", !.key = f]
    <3>1. n \in Generations /\ reader[n].pc = "unborn"
      BY <2>2 DEF JoinNew, HubTypeOK, RegistryInv
    <3>2. /\ r \in ReaderRecord /\ r.pc = "spawned" /\ r.key = f /\ r.cursor = 0
          /\ r.todo = {}
      BY <1>1, TopicAssumption DEF Unborn, ReaderRecord, ReaderPC
    <3> HIDE DEF r
    <3>3. /\ reader'[n] = r
          /\ \A h \in Generations : h # n => reader'[h] = reader[h]
      BY <2>2, <3>1, <3>2, BecomesType DEF JoinNew, SpawnReader, r
    <3>4. /\ group'[f].generation = n /\ group'[f].members = {s}
          /\ \A h \in Filters : h # f => group'[h] = group[h]
      BY <1>1, <2>2 DEF JoinNew, HubTypeOK
    <3>5. \A t \in Sockets : ~Serves(n, t)
      <4>1. ~Owns(n)
        <5>1. Key(n) \in Filters
          BY <3>1, ReaderFields DEF Key
        <5>2. QED BY <3>1, <5>1 DEF Owns, RegistryInv, RegistryMatchesReaders, Running
      <4>2. reader[n].todo = {}
        BY <3>1, ReaderFields DEF FrameInv, InHand
      <4>3. QED BY <4>1, <4>2 DEF Serves
    <3>6. ASSUME NEW h \in Generations, NEW t \in Sockets, Serves(h, t)'
          PROVE  Serves(h, t) \/ (t = s /\ h = n)
      <4>1. CASE h = n
        BY <3>2, <3>3, <3>4, <3>6, <4>1 DEF Serves, Key
      <4>2. CASE h # n
        BY <3>3, <3>4, <3>6, <4>2, ReaderFields DEF Serves, Owns, Key
      <4>3. QED BY <4>1, <4>2
    <3>7. InHand(reader'[n])
      <4>1. Len(log) \in Nat
        BY DEF HubTypeOK
      <4>2. QED BY <3>2, <3>3, <4>1 DEF InHand
    <3>8. QED BY <3>1, <3>3, <3>5, <3>6, <3>7
  <2>3. QED BY <2>1, <2>2 DEF Join
<1>4. ASSUME NEW h \in Generations PROVE InHand(reader[h])'
  <2>1. InHand(reader'[h])
    BY <1>3 DEF FrameInv
  <2>2. \A t : phase[t] # "none" => phase'[t] # "none"
    BY <1>1 DEF HubTypeOK
  <2>3. QED BY <1>1, <2>1, <2>2 DEF InHand, Wanted
<1>5. ASSUME NEW h \in Generations, NEW t \in Sockets, Serves(h, t)'
      PROVE  Follows(t, reader[h])'
  <2>1. CASE t = s
    BY <1>1, <2>1 DEF Follows
  <2>2. CASE t # s
    <3>1. Follows(t, reader[h]) /\ reader'[h] = reader[h]
      BY <1>3, <1>5, <2>2 DEF FrameInv
    <3>2. QED BY <1>1, <3>1 DEF Follows, UpTo, Before, Last, Wanted
  <2>3. QED BY <2>1, <2>2
<1>6. \A h, k \in Generations : \A t \in Sockets : Serves(h, t)' /\ Serves(k, t)' => h = k
  BY <1>2, <1>3 DEF FrameInv
<1>7. QED
  BY <1>1, <1>4, <1>5, <1>6 DEF FrameInv, FramesAreContiguous, HubTypeOK

(* A frame goes to a subscription that this reader alone serves, and       *)
(* follows on its last one.                                                *)
LEMMA SendFrames ==
  ASSUME HubTypeOK, FrameInv, NEW g \in Generations, NEW s \in Sockets, TrySend(g, s)
  PROVE  FrameInv'
<1> USE HubAssumption
<1> DEFINE c == reader[g].cursor
           f == reader[g].key
<1>1. /\ reader[g].pc = "fanout" /\ s \in reader[g].todo
      /\ UNCHANGED <<log, group, nextGeneration, phase, taken>>
      /\ reader[g] \in ReaderRecord /\ c \in Nat /\ f \in Filters
  BY ReaderIn, ReaderFields DEF TrySend
<1>2. /\ InHand(reader[g]) /\ FilterOf[s] = f /\ c \in Wanted(f) /\ phase[s] # "none"
      /\ Serves(g, s) /\ Follows(s, reader[g])
  BY <1>1 DEF FrameInv, InHand, Serves
<1>3. reader[g].todo \ {s} \in SUBSET Sockets /\ reader[g].drops \cup {s} \in SUBSET Sockets
  BY ReaderFields
<1>4. CASE ~Accepted(s)
  <2> DEFINE r == [reader[g] EXCEPT !.todo = @ \ {s}, !.drops = @ \cup {s}]
  <2>1. /\ r \in ReaderRecord /\ r.pc = "fanout" /\ r.key = f /\ r.cursor = c
        /\ r.todo = reader[g].todo \ {s} /\ r.drops = reader[g].drops \cup {s}
    <3>1. r \in ReaderRecord
      BY <1>1, <1>3, RefusedUpdate
    <3>2. QED BY <1>1, <3>1 DEF ReaderRecord
  <2>2. Becomes(g, r) /\ UNCHANGED frames
    BY <1>4 DEF TrySend
  <2> HIDE DEF r
  <2>3. InHand(r)
    BY <1>1, <1>2, <2>1 DEF InHand
  <2>4. \A t \in Sockets : Follows(t, reader[g]) => Follows(t, r)
    BY <1>1, <2>1 DEF Follows
  <2>5. GroupsShrink /\ r.key = Key(g) /\ \A t \in r.todo : Serves(g, t)
    BY <1>1, <2>1 DEF GroupsShrink, Key, Serves
  <2>6. QED BY <1>1, <2>1, <2>2, <2>3, <2>4, <2>5, ReaderMoves
<1>5. CASE Accepted(s)
  <2> DEFINE r == [reader[g] EXCEPT !.todo = @ \ {s}]
  <2>1. /\ r \in ReaderRecord /\ r.pc = "fanout" /\ r.key = f /\ r.cursor = c
        /\ r.todo = reader[g].todo \ {s} /\ r.drops = reader[g].drops
    BY <1>1, <1>3, SentUpdate
  <2>2. Becomes(g, r) /\ frames' = [frames EXCEPT ![s] = Append(@, c)]
    BY <1>5 DEF TrySend
  <2> HIDE DEF r
  <2>3. /\ reader'[g] = r
        /\ \A h \in Generations : h # g => reader'[h] = reader[h]
    BY <2>1, <2>2, BecomesType
  <2>4. /\ frames'[s] = Append(frames[s], c)
        /\ \A t \in Sockets : t # s => frames'[t] = frames[t]
        /\ frames[s] \in Seq(Nat) /\ log \in Seq(Kinds)
    BY <2>2 DEF HubTypeOK
  <2>5. \A i \in Wanted(f) : i \in Nat
    BY <1>1, <2>4, Positions DEF Wanted
  <2>6. frames[s] # <<>> => IsNext(Wanted(f), Last(s), c)
    <3>1. ASSUME frames[s] # <<>> PROVE Before(s, f, c) /\ Last(s) \in Nat
      <4>1. Len(frames[s]) \in 1 .. Len(frames[s])
        BY <2>4, <3>1
      <4>2. QED BY <1>1, <1>2, <2>4, <3>1, <4>1 DEF Follows, Last
    <3>2. QED BY <1>1, <1>2, <2>5, <3>1 DEF Before, IsNext
  <2>7. FramesAreContiguous'
    <3>1. Contiguous(frames'[s], Wanted(f))
      <4>1. Contiguous(frames[s], Wanted(f))
        BY <1>2 DEF FrameInv, FramesAreContiguous, Wanted
      <4>2. QED BY <1>1, <1>2, <2>4, <2>6, <4>1, ContiguousAppend DEF Last
    <3>2. QED
      BY <1>1, <1>2, <2>4, <3>1 DEF FrameInv, FramesAreContiguous, Wanted
  <2>8. ASSUME NEW h \in Generations, NEW t \in Sockets, Serves(h, t)' PROVE Serves(h, t)
    BY <1>1, <2>1, <2>3, <2>8 DEF Serves, Owns, Key
  <2>9. ASSUME NEW h \in Generations PROVE InHand(reader[h])'
    <3>1. InHand(reader[h])
      BY DEF FrameInv
    <3>2. CASE h # g
      BY <1>1, <2>3, <3>1, <3>2 DEF InHand, Wanted
    <3>3. CASE h = g
      BY <1>1, <1>2, <2>1, <2>3, <3>3 DEF InHand, Wanted
    <3>4. QED BY <3>2, <3>3
  <2>10. ASSUME NEW h \in Generations, NEW t \in Sockets, Serves(h, t)'
         PROVE  Follows(t, reader[h])'
    <3>1. Serves(h, t) /\ Follows(t, reader[h])
      BY <2>8, <2>10 DEF FrameInv
    <3>2. CASE t # s /\ h # g
      <4>1. frames'[t] = frames[t] /\ reader'[h] = reader[h]
        BY <2>3, <2>4, <3>2
      <4>2. QED BY <1>1, <3>1, <4>1 DEF Follows, UpTo, Before, Last, Wanted
    <3>3. CASE t # s /\ h = g
      <4>1. frames'[t] = frames[t] /\ reader'[h] = r
        BY <2>3, <2>4, <3>3
      <4>2. t \in r.todo <=> t \in reader[g].todo
        BY <2>1, <3>3
      <4>3. QED BY <1>1, <2>1, <3>1, <3>3, <4>1, <4>2 DEF Follows, UpTo, Before, Last, Wanted
    <3>4. CASE t = s
      <4>1. h = g
        BY <1>2, <3>1, <3>4 DEF FrameInv
      <4>2. Last(s)' = c
        BY <1>1, <2>4 DEF Last
      <4>3. UpTo(s, f, c)'
        BY <1>1, <2>1, <2>3, <4>2 DEF UpTo, Wanted
      <4>4. s \notin reader'[g].todo /\ reader'[g].pc = "fanout"
        BY <2>1, <2>3
      <4>5. /\ reader'[g].key = f' /\ reader'[g].cursor = c'
        OBVIOUS
      <4>6. QED BY <3>4, <4>1, <4>3, <4>4, <4>5 DEF Follows
    <3>5. QED BY <3>2, <3>3, <3>4
  <2>11. QED
    BY <1>1, <1>2, <2>4, <2>7, <2>8, <2>9, <2>10 DEF FrameInv
<1>6. QED BY <1>4, <1>5

(* Every step of the hub keeps the frames contiguous.                      *)
LEMMA FrameStep == HubTypeOK /\ RegistryInv /\ FrameInv /\ [HubNext]_hubVars => FrameInv'
<1> SUFFICES ASSUME HubTypeOK, RegistryInv, FrameInv, [HubNext]_hubVars PROVE FrameInv'
  OBVIOUS
<1> USE HubAssumption
<1>0. CASE UNCHANGED <<log, group, reader, phase, frames>>
  BY <1>0, MembersMove DEF GroupsShrink
<1>1. ASSUME NEW e \in Kinds, Publish(e) PROVE FrameInv'
  BY <1>1, PublishFrames
<1>2. ASSUME NEW s \in Sockets, Join(s) PROVE FrameInv'
  BY <1>2, JoinFrames
<1>3. ASSUME NEW s \in Sockets, Receive(s) PROVE FrameInv'
  BY <1>0, <1>3 DEF Receive
<1>4. ASSUME NEW s \in Sockets, Leave(s) PROVE FrameInv'
  <2> DEFINE f == FilterOf[s]
             g == group[f].generation
  <2>1. /\ UNCHANGED <<log, frames>> /\ f \in Filters
        /\ \A t \in Sockets : phase'[t] = "none" <=> phase[t] = "none"
    BY <1>4 DEF Leave, HubTypeOK
  <2>2. GroupsShrink
    <3>1. CASE group' = group
      BY <3>1 DEF GroupsShrink
    <3>2. CASE group' = [group EXCEPT ![f] = Absent]
      <4>1. /\ group'[f].generation = NoGeneration
            /\ \A h \in Filters : h # f => group'[h] = group[h]
        BY <2>1, <3>2 DEF HubTypeOK, Absent
      <4>2. QED BY <4>1 DEF GroupsShrink
    <3>3. CASE group' = [group EXCEPT ![f].members = group[f].members \ {s}]
      <4>1. /\ group'[f].generation = group[f].generation
            /\ group'[f].members = group[f].members \ {s}
            /\ \A h \in Filters : h # f => group'[h] = group[h]
        BY <2>1, <3>3 DEF HubTypeOK, GroupRecord
      <4>2. QED BY <4>1 DEF GroupsShrink
    <3>4. QED BY <1>4, <3>1, <3>2, <3>3 DEF Leave
  <2>3. CASE UNCHANGED reader
    BY <2>1, <2>2, <2>3, MembersMove
  <2>4. CASE g # NoGeneration /\ Abort(g)
    <3> DEFINE r == [reader[g] EXCEPT !.aborted = TRUE]
    <3>1. g \in Generations /\ reader[g] \in ReaderRecord
      BY <2>1, <2>4, GroupFields, ReaderIn
    <3>2. /\ r \in ReaderRecord /\ r.pc = reader[g].pc /\ r.key = Key(g)
          /\ r.cursor = reader[g].cursor /\ r.todo = reader[g].todo /\ r.drops = reader[g].drops
      BY <3>1, AbortUpdate DEF Key
    <3>3. Becomes(g, r)
      BY <2>4 DEF Abort
    <3> HIDE DEF r
    <3>4. InHand(r) /\ \A t \in r.todo : Serves(g, t)
      BY <3>1, <3>2 DEF FrameInv, InHand, Serves, Key
    <3>5. \A t \in Sockets : Follows(t, reader[g]) => Follows(t, r)
      BY <3>2 DEF Follows, Key
    <3>6. QED BY <2>1, <2>2, <3>1, <3>2, <3>3, <3>4, <3>5, ReaderMoves
  <2>5. QED BY <1>4, <2>3, <2>4 DEF Leave
<1>5. ASSUME NEW s \in Sockets, DropReceiver(s) PROVE FrameInv'
  <2>1. \A t \in Sockets : phase'[t] = "none" <=> phase[t] = "none"
    BY <1>5 DEF DropReceiver, HubTypeOK
  <2>2. QED BY <1>5, <2>1, MembersMove DEF DropReceiver, GroupsShrink
<1>6. ASSUME NEW g \in Generations, Subscribe(g) PROVE FrameInv'
  <2> DEFINE r == [reader[g] EXCEPT !.pc = "next", !.cursor = Len(log)]
  <2>1. reader[g] \in ReaderRecord /\ Len(log) \in Nat /\ reader[g].pc = "spawned"
    BY <1>6, ReaderIn DEF HubTypeOK, Subscribe
  <2>2. /\ r \in ReaderRecord /\ r.pc = "next" /\ r.key = Key(g) /\ r.cursor = Len(log)
        /\ r.todo = {}
    <3>1. "next" \in ReaderPC
      BY DEF ReaderPC
    <3>2. r \in ReaderRecord
      BY <2>1, <3>1, SubscribeUpdate
    <3>3. /\ r.pc = "next" /\ r.key = Key(g) /\ r.cursor = Len(log)
          /\ r.todo = reader[g].todo
      BY <2>1, <3>2 DEF ReaderRecord, Key
    <3>4. QED BY <2>1, <3>2, <3>3, ReaderFields DEF FrameInv, InHand
  <2>3. Becomes(g, r)
    BY <1>6 DEF Subscribe
  <2> HIDE DEF r
  <2>4. InHand(r) /\ \A t \in Sockets : Follows(t, reader[g]) => Follows(t, r)
    BY <2>1, <2>2 DEF InHand, Follows
  <2>5. QED BY <1>6, <2>2, <2>3, <2>4, ReaderMoves DEF Subscribe, GroupsShrink
<1>7. ASSUME NEW g \in Generations, NextEvent(g) PROVE FrameInv'
  <2> DEFINE k == reader[g].key
             c == reader[g].cursor
  <2>1. PICK i \in 1 .. Len(log) :
          /\ IsNext(Matching(log, k), c, i)
          /\ Becomes(g, [reader[g] EXCEPT
               !.cursor = i,
               !.pc = IF log[i] \in Unserializable THEN "next" ELSE "snapshot"])
    BY <1>7 DEF NextEvent, Key
  <2> DEFINE p == IF log[i] \in Unserializable THEN "next" ELSE "snapshot"
             r == [reader[g] EXCEPT !.cursor = i, !.pc = p]
  <2>2. /\ reader[g] \in ReaderRecord /\ reader[g].pc = "next" /\ k \in Filters /\ c \in Nat
        /\ log \in Seq(Kinds) /\ i \in Nat /\ i <= Len(log) /\ p \in ReaderPC
    BY <1>7, ReaderIn, ReaderFields DEF NextEvent, HubTypeOK, ReaderPC
  <2>3. /\ r \in ReaderRecord /\ r.pc = p /\ r.key = k /\ r.cursor = i /\ r.todo = {}
    <3>1. r \in ReaderRecord
      BY <2>2, EventUpdate
    <3>2. r.pc = p /\ r.key = k /\ r.cursor = i /\ r.todo = reader[g].todo
      BY <2>2, <3>1 DEF ReaderRecord
    <3>3. QED BY <2>2, <3>1, <3>2, ReaderFields DEF FrameInv, InHand
  <2>4. Becomes(g, r)
    BY <2>1
  <2> HIDE DEF r
  <2>5. /\ Wanted(k) \subseteq Matching(log, k) /\ i \in Matching(log, k)
        /\ i \in Wanted(k) <=> p = "snapshot"
        /\ \A j \in Wanted(k) : j \in Nat
    BY <2>1, <2>2, Positions DEF Wanted, Forwarded, IsNext
  <2>6. InHand(r)
    BY <2>2, <2>3, <2>5 DEF InHand
  <2>7. ASSUME NEW t \in Sockets, frames[t] # <<>>, UpTo(t, k, c)
        PROVE  Last(t) < i /\ \A j \in Wanted(k) : j <= i => j <= Last(t) \/ j = i
    <3>1. Last(t) \in Nat
      <4>1. frames[t] \in Seq(Nat) /\ Len(frames[t]) \in 1 .. Len(frames[t])
        BY <2>7 DEF HubTypeOK
      <4>2. QED BY <4>1 DEF Last
    <3>2. i > c /\ \A j \in Matching(log, k) : j > c => i <= j
      BY <2>1 DEF IsNext
    <3>3. QED BY <2>2, <2>5, <2>7, <3>1, <3>2 DEF UpTo
  <2>8. ASSUME NEW t \in Sockets, Follows(t, reader[g]) PROVE Follows(t, r)
    <3>1. SUFFICES ASSUME frames[t] # <<>>
                   PROVE  /\ r.pc = "next" => UpTo(t, k, i)
                          /\ r.pc = "snapshot" => Before(t, k, i)
      BY <2>3 DEF Follows
    <3>2. Last(t) < i /\ \A j \in Wanted(k) : j <= i => j <= Last(t) \/ j = i
      BY <2>2, <2>7, <2>8, <3>1 DEF Follows
    <3>3. Last(t) \in Nat
      <4>1. frames[t] \in Seq(Nat) /\ Len(frames[t]) \in 1 .. Len(frames[t])
        BY <3>1 DEF HubTypeOK
      <4>2. QED BY <4>1 DEF Last
    <3>4. QED BY <2>2, <2>3, <2>5, <3>2, <3>3 DEF UpTo, Before
  <2>9. QED
    BY <1>7, <2>3, <2>4, <2>6, <2>8, ReaderMoves DEF NextEvent, GroupsShrink, Key
<1>8. ASSUME NEW g \in Generations, Snapshot(g) PROVE FrameInv'
  <2>0. GroupsShrink /\ UNCHANGED <<log, phase, frames>>
    BY <1>8 DEF Snapshot, GroupsShrink
  <2>1. CASE ~Owns(g)
    BY <1>8, <2>0, <2>1, StopsFrames DEF Snapshot
  <2>2. CASE Owns(g)
    <3> DEFINE M == group[Key(g)].members
               r == [reader[g] EXCEPT !.pc = "fanout", !.senders = M, !.todo = M]
    <3>1. /\ reader[g] \in ReaderRecord /\ M \in SUBSET Sockets /\ reader[g].pc = "snapshot"
          /\ Key(g) \in Filters /\ "fanout" \in ReaderPC
      BY <1>8, ReaderIn, ReaderFields, GroupFields DEF Key, Snapshot, ReaderPC
    <3>2. /\ r \in ReaderRecord /\ r.pc = "fanout" /\ r.key = Key(g)
          /\ r.cursor = reader[g].cursor /\ r.todo = M
      <4>1. r \in ReaderRecord
        BY <3>1, SnapshotUpdate
      <4>2. QED BY <3>1, <4>1 DEF ReaderRecord, Key
    <3>3. Becomes(g, r)
      BY <1>8, <2>2 DEF Snapshot
    <3> HIDE DEF r
    <3>4. InHand(r)
      BY <3>1, <3>2 DEF FrameInv, InHand, Key, RegistryInv, MembersAreLive
    <3>5. \A t \in r.todo : Serves(g, t)
      BY <2>2, <3>2 DEF Serves
    <3>6. ASSUME NEW t \in Sockets, Serves(g, t)', Follows(t, reader[g]) PROVE Follows(t, r)
      <4>1. reader'[g] = r /\ group'[Key(g)] = group[Key(g)]
        BY <1>8, <3>2, <3>3, BecomesType DEF Snapshot
      <4>2. t \in r.todo
        BY <3>2, <3>6, <4>1 DEF Serves, Key
      <4>3. QED BY <3>1, <3>2, <3>6, <4>2 DEF Follows, Key
    <3>7. QED BY <2>0, <3>2, <3>3, <3>4, <3>5, <3>6, ReaderMoves
  <2>3. QED BY <2>1, <2>2
<1>9. ASSUME NEW g \in Generations, NEW s \in Sockets, TrySend(g, s) PROVE FrameInv'
  BY <1>9, SendFrames
<1>10. ASSUME NEW g \in Generations, KeepAll(g) PROVE FrameInv'
  <2>1. Becomes(g, Awaiting(g)) /\ UNCHANGED <<log, group, phase, frames>> /\ FannedOut(g)
    BY <1>10 DEF KeepAll
  <2>2. \A t \in Sockets : t \notin reader[g].drops
    BY <1>10 DEF KeepAll
  <2>3. QED BY <2>1, <2>2, AwaitsFrames DEF GroupsShrink
<1>11. ASSUME NEW g \in Generations, Prune(g) PROVE FrameInv'
  <2> DEFINE f == Key(g)
             rest == group[f].members \ reader[g].drops
  <2>0. f \in Filters /\ UNCHANGED <<log, phase, frames>> /\ FannedOut(g)
    BY <1>11, ReaderFields DEF Key, Prune
  <2>1. CASE ~Owns(g)
    BY <1>11, <2>0, <2>1, StopsFrames DEF Prune, GroupsShrink
  <2>2. CASE Owns(g)
    <3>1. group' = [group EXCEPT ![f].members = rest]
      BY <1>11, <2>2 DEF Prune
    <3>2. /\ \A h \in Filters : group'[h].generation = group[h].generation
          /\ \A h \in Filters : h # f => group'[h] = group[h]
          /\ group'[f].members = rest
      BY <2>0, <3>1 DEF HubTypeOK, GroupRecord
    <3>3. GroupsShrink
      BY <2>0, <3>2 DEF GroupsShrink
    <3>4. CASE rest = {}
      <4>1. Becomes(g, [reader[g] EXCEPT !.pc = "remove"])
        BY <1>11, <2>2, <3>4 DEF Prune
      <4>2. reader[g].pc \in {"next", "fanout"} /\ reader[g].todo = {}
        BY <2>0 DEF FannedOut
      <4>3. QED BY <2>0, <3>3, <4>1, <4>2, RemovesFrames
    <3>5. CASE rest # {}
      <4>1. Becomes(g, Awaiting(g))
        BY <1>11, <2>2, <3>5 DEF Prune
      <4>2. \A t \in Sockets : t \in group'[f].members => t \notin reader[g].drops
        BY <3>2
      <4>3. QED BY <2>0, <3>3, <4>1, <4>2, AwaitsFrames
    <3>6. QED BY <3>4, <3>5
  <2>3. QED BY <2>1, <2>2
<1>12. ASSUME NEW g \in Generations, Remove(g) PROVE FrameInv'
  <2>1. GroupsShrink
    BY <1>12, ReaderFields DEF Remove, GroupsShrink, HubTypeOK, Absent, Key
  <2>2. QED BY <1>12, <2>1, StopsFrames DEF Remove
<1>13. ASSUME NEW g \in Generations, StreamEnds(g) PROVE FrameInv'
  <2>1. reader[g].pc = "next" /\ reader[g].todo = {}
    BY <1>13, ReaderFields DEF StreamEnds, FrameInv, InHand
  <2>2. QED BY <1>13, <2>1, RemovesFrames DEF StreamEnds, GroupsShrink
<1>14. ASSUME NEW g \in Generations, Cancel(g) PROVE FrameInv'
  BY <1>14, StopsFrames DEF Cancel, GroupsShrink
<1> QED
  BY <1>0, <1>1, <1>2, <1>3, <1>4, <1>5, <1>6, <1>7, <1>8, <1>9, <1>10, <1>11, <1>12,
     <1>13, <1>14 DEF HubNext, ReaderStep, hubVars

(* What a browser gets through the hub has no gap, no repetition and no    *)
(* swap, whatever readers, leaving members and full queues do in between   *)
(* (run_group_reader, hub.rs:216-337).                                     *)
THEOREM FramesCorrect == HubSpec => []FramesAreContiguous
<1>1. FrameInv => FramesAreContiguous
  BY DEF FrameInv
<1>2. QED
  BY <1>1, TypeInit, TypeStep, RegistryInit, RegistryStep, FrameInit, FrameStep, PTL
  DEF HubSpec

(* A full queue costs membership and never a frame (hub.rs:286-300).       *)
THEOREM NoMemberMisses == HubSpec => []MembersMissNothing
<1>1. HubTypeOK /\ FrameInv => MembersMissNothing
  <2> SUFFICES ASSUME HubTypeOK, FrameInv, NEW g \in Generations, Owns(g),
                      reader[g].pc = "next", NEW s \in group[Key(g)].members,
                      frames[s] # <<>>, NEW i \in Forwarded(log, Key(g)), i <= reader[g].cursor
               PROVE  i <= frames[s][Len(frames[s])]
    BY DEF MembersMissNothing
  <2>1. s \in Sockets /\ Serves(g, s)
    BY ReaderFields, GroupFields DEF Serves, Key
  <2>2. UpTo(s, Key(g), reader[g].cursor)
    BY <2>1 DEF FrameInv, Follows, Key
  <2>3. QED BY <2>2 DEF UpTo, Wanted, Last
<1>2. QED
  BY <1>1, TypeInit, TypeStep, RegistryInit, RegistryStep, FrameInit, FrameStep, PTL
  DEF HubSpec
=============================================================================
