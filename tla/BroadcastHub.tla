---------------------------- MODULE BroadcastHub ----------------------------
(***************************************************************************)
(* The process-local broadcast hub of photon-axum/src/axum_ws/hub.rs, for  *)
(* one topic: the registry of groups behind its mutex, one reader task per *)
(* group instance ("generation"), and one subscription handle per joiner.  *)
(*                                                                         *)
(* An action is one stretch of code between two points where another       *)
(* thread can be seen: one critical section of the registry mutex, one     *)
(* try_send, one poll of the Photon stream.  A member id is the identity   *)
(* of its subscription: next_id is never reused, and a socket that         *)
(* reconnects is another member of Sockets.  The channel of a subscription *)
(* is the history of the frames sent into it and the number received.      *)
(***************************************************************************)
EXTENDS Topic

CONSTANTS
  Sockets,        \* the subscriptions ever made, each joins at most once
  FilterOf,       \* the key filter of each
  QueueCapacity,  \* HUB_QUEUE_CAPACITY, 64 in the code
  MaxGenerations  \* bound: group instances created in a behaviour

ASSUME HubAssumption ==
  /\ FilterOf \in [Sockets -> Filters]
  /\ QueueCapacity \in Nat \ {0}
  /\ MaxGenerations \in Nat

VARIABLES
  log,             \* the topic (Photon)
  group,           \* HubInner.groups
  nextGeneration,  \* WsBroadcastHub.next_generation
  reader,          \* the task of each generation, run_group_reader
  phase,           \* life of each HubSubscription
  frames,          \* frames ever sent into the subscription's channel
  taken            \* how many of them its owner has received

registryVars == <<group, nextGeneration>>
channelVars == <<frames, taken>>
hubVars == <<log, group, nextGeneration, reader, phase, frames, taken>>

Generations == 1 .. MaxGenerations
NoGeneration == 0
Absent == [generation |-> NoGeneration, members |-> {}]
Unborn ==
  [pc |-> "unborn", key |-> CHOOSE f \in Filters : TRUE, cursor |-> 0,
   senders |-> {}, todo |-> {}, drops |-> {}, aborted |-> FALSE]

HubInit ==
  /\ log = <<>>
  /\ group = [f \in Filters |-> Absent]
  /\ nextGeneration = 1
  /\ reader = [g \in Generations |-> Unborn]
  /\ phase = [s \in Sockets |-> "none"]
  /\ frames = [s \in Sockets |-> <<>>]
  /\ taken = [s \in Sockets |-> 0]
-----------------------------------------------------------------------------
(* The topic and the channels, outside this repository.                    *)

Publish(e) ==
  /\ Len(log) < MaxEvents
  /\ log' = Append(log, e)
  /\ UNCHANGED <<registryVars, reader, phase, channelVars>>

Registered(s) == s \in group[FilterOf[s]].members
HeldBy(g, s) == s \in reader[g].senders

(* Faulty variant of Full: the queue takes one frame too many.             *)
FullOneLater(s) == Len(frames[s]) - taken[s] > QueueCapacity

(* A bounded tokio channel is full at its capacity, refuses a frame once   *)
(* its receiver is dropped, and yields None once it is empty and the last  *)
(* sender, the member's or a reader's clone of it, is gone.                *)
Full(s) == Len(frames[s]) - taken[s] = QueueCapacity
ReceiverDropped(s) == phase[s] = "dropped"
ChannelClosed(s) ==
  /\ taken[s] = Len(frames[s])
  /\ ~Registered(s)
  /\ \A g \in Generations : ~HeldBy(g, s)

(* sub.rx.recv() yields a frame.                                           *)
Receive(s) ==
  /\ phase[s] = "live"
  /\ taken[s] < Len(frames[s])
  /\ taken' = [taken EXCEPT ![s] = @ + 1]
  /\ UNCHANGED <<log, registryVars, reader, phase, frames>>
-----------------------------------------------------------------------------
(* Membership.                                                             *)

(* The task of generation g comes to the state r.                          *)
Becomes(g, r) == reader' = [reader EXCEPT ![g] = r]

SpawnReader(f) ==
  Becomes(nextGeneration, [Unborn EXCEPT !.pc = "spawned", !.key = f])

JoinExisting(s) ==
  /\ group[FilterOf[s]].generation # NoGeneration
  /\ group' = [group EXCEPT ![FilterOf[s]].members = @ \cup {s}]
  /\ UNCHANGED <<nextGeneration, reader>>

JoinNew(s) ==
  /\ group[FilterOf[s]].generation = NoGeneration
  /\ nextGeneration <= MaxGenerations
  /\ nextGeneration' = nextGeneration + 1
  /\ group' = [group EXCEPT ![FilterOf[s]] =
                 [generation |-> nextGeneration, members |-> {s}]]
  /\ SpawnReader(FilterOf[s])

Join(s) ==
  /\ phase[s] = "none"
  /\ phase' = [phase EXCEPT ![s] = "live"]
  /\ JoinExisting(s) \/ JoinNew(s)
  /\ UNCHANGED <<log, channelVars>>

Abort(g) == Becomes(g, [reader[g] EXCEPT !.aborted = TRUE])

(* Faulty variants of Leave.  The last member leaves its group behind ...  *)
LeaveGroupBehind(s) ==
  /\ phase[s] = "live"
  /\ phase' = [phase EXCEPT ![s] = "left"]
  /\ group' = [group EXCEPT ![FilterOf[s]].members = @ \ {s}]
  /\ UNCHANGED <<log, nextGeneration, reader, channelVars>>

(* ... or only the last member leaves its group at all.                    *)
LeaveWhenLast(s) ==
  LET f == FilterOf[s]
      last == group[f].members = {s}
  IN /\ phase[s] = "live"
     /\ phase' = [phase EXCEPT ![s] = "left"]
     /\ group' = IF last THEN [group EXCEPT ![f] = Absent] ELSE group
     /\ IF last THEN Abort(group[f].generation) ELSE UNCHANGED reader
     /\ UNCHANGED <<log, nextGeneration, channelVars>>

(* HubSubscription::drop runs leave, then its fields are dropped.          *)
Leave(s) ==
  LET f == FilterOf[s]
      rest == group[f].members \ {s}
  IN /\ phase[s] = "live"
     /\ phase' = [phase EXCEPT ![s] = "left"]
     /\ IF group[f].generation = NoGeneration
        THEN UNCHANGED <<group, reader>>
        ELSE IF rest = {}
        THEN /\ group' = [group EXCEPT ![f] = Absent]
             /\ Abort(group[f].generation)
        ELSE /\ group' = [group EXCEPT ![f].members = rest]
             /\ UNCHANGED reader
     /\ UNCHANGED <<log, nextGeneration, channelVars>>

DropReceiver(s) ==
  /\ phase[s] = "left"
  /\ phase' = [phase EXCEPT ![s] = "dropped"]
  /\ UNCHANGED <<log, registryVars, reader, channelVars>>
-----------------------------------------------------------------------------
(* run_group_reader, the task of generation g.                             *)

Key(g) == reader[g].key

(* Faulty variant of Owns: cleanup by key, whatever the generation.        *)
OwnsAnyGeneration(g) == group[Key(g)].generation # NoGeneration

Owns(g) == group[Key(g)].generation = g

(* First poll of the task: only now does it subscribe.                     *)
Subscribe(g) ==
  /\ reader[g].pc = "spawned"
  /\ Becomes(g, [reader[g] EXCEPT !.pc = "next", !.cursor = Len(log)])
  /\ UNCHANGED <<log, registryVars, phase, channelVars>>

(* Faulty variant of NextEvent: the stream forgets its key filter.         *)
NextEventOfAnyKey(g) ==
  /\ reader[g].pc = "next"
  /\ reader[g].cursor < Len(log)
  /\ Becomes(g, [reader[g] EXCEPT !.cursor = @ + 1, !.pc = "snapshot"])
  /\ UNCHANGED <<log, registryVars, phase, channelVars>>

NextEvent(g) ==
  /\ reader[g].pc = "next"
  /\ \E i \in 1 .. Len(log) :
       /\ IsNext(Matching(log, Key(g)), reader[g].cursor, i)
       /\ Becomes(g, [reader[g] EXCEPT
            !.cursor = i,
            !.pc = IF log[i] \in Unserializable THEN "next" ELSE "snapshot"])
  /\ UNCHANGED <<log, registryVars, phase, channelVars>>

(* The stream yields an error or ends.                                     *)
StreamEnds(g) ==
  /\ reader[g].pc = "next"
  /\ Becomes(g, [reader[g] EXCEPT !.pc = "remove"])
  /\ UNCHANGED <<log, registryVars, phase, channelVars>>

(* Faulty variant of Awaiting: the clones of the senders are kept.         *)
AwaitingWithSenders(g) == [reader[g] EXCEPT !.pc = "next", !.drops = {}]

(* A task that returned or was cancelled has dropped its stream and its     *)
(* senders; awaiting the next event it holds no senders either.            *)
Finished(g) ==
  [Unborn EXCEPT !.pc = "done", !.key = Key(g), !.aborted = reader[g].aborted]
Awaiting(g) ==
  [reader[g] EXCEPT !.pc = "next", !.senders = {}, !.drops = {}]

(* Faulty variant of Cancel: only a task that never ran can be cancelled.  *)
CancelUnstarted(g) ==
  /\ reader[g].aborted
  /\ reader[g].pc = "spawned"
  /\ Becomes(g, Finished(g))
  /\ UNCHANGED <<log, registryVars, phase, channelVars>>

(* An aborted task is dropped at an await, never between two of them.      *)
Cancel(g) ==
  /\ reader[g].aborted
  /\ reader[g].pc \in {"spawned", "next"}
  /\ Becomes(g, Finished(g))
  /\ UNCHANGED <<log, registryVars, phase, channelVars>>

(* Clone the members' senders under the lock, or return.                   *)
Snapshot(g) ==
  /\ reader[g].pc = "snapshot"
  /\ IF Owns(g)
     THEN Becomes(g, [reader[g] EXCEPT !.pc = "fanout",
                                       !.senders = group[Key(g)].members,
                                       !.todo = group[Key(g)].members])
     ELSE Becomes(g, Finished(g))
  /\ UNCHANGED <<log, registryVars, phase, channelVars>>

Accepted(s) == ~ReceiverDropped(s) /\ ~Full(s)

(* Faulty variants of TrySend.  A full queue loses the frame quietly ...   *)
TrySendOrSkip(g, s) ==
  /\ reader[g].pc = "fanout"
  /\ s \in reader[g].todo
  /\ Becomes(g, [reader[g] EXCEPT !.todo = @ \ {s}])
  /\ frames' = IF Accepted(s) THEN [frames EXCEPT ![s] = Append(@, reader[g].cursor)]
                ELSE frames
  /\ UNCHANGED <<log, registryVars, phase, taken>>

(* ... or the reader waits for the slowest member first (tx.send).         *)
SendToAll(g, s) ==
  /\ reader[g].pc = "fanout"
  /\ s \in reader[g].todo
  /\ \A t \in reader[g].todo : Accepted(t)
  /\ Becomes(g, [reader[g] EXCEPT !.todo = @ \ {s}])
  /\ frames' = [frames EXCEPT ![s] = Append(@, reader[g].cursor)]
  /\ UNCHANGED <<log, registryVars, phase, taken>>

(* One tx.try_send, outside the lock.                                      *)
TrySend(g, s) ==
  /\ reader[g].pc = "fanout"
  /\ s \in reader[g].todo
  /\ IF Accepted(s)
     THEN /\ frames' = [frames EXCEPT ![s] = Append(@, reader[g].cursor)]
          /\ Becomes(g, [reader[g] EXCEPT !.todo = @ \ {s}])
     ELSE /\ Becomes(g, [reader[g] EXCEPT !.todo = @ \ {s}, !.drops = @ \cup {s}])
          /\ UNCHANGED frames
  /\ UNCHANGED <<log, registryVars, phase, taken>>

FannedOut(g) == reader[g].pc = "fanout" /\ reader[g].todo = {}

(* Every frame went in: drop the senders and await the next event.         *)
KeepAll(g) ==
  /\ FannedOut(g)
  /\ reader[g].drops = {}
  /\ Becomes(g, Awaiting(g))
  /\ UNCHANGED <<log, registryVars, phase, channelVars>>

(* Faulty variant of Prune: a member that took no frame stays a member.    *)
PruneNobody(g) ==
  /\ FannedOut(g)
  /\ reader[g].drops # {}
  /\ Becomes(g, Awaiting(g))
  /\ UNCHANGED <<log, registryVars, phase, channelVars>>

(* Remove the members that took no frame, under the lock again.  A group   *)
(* left empty stays registered until the reader takes the lock once more.  *)
Prune(g) ==
  LET rest == group[Key(g)].members \ reader[g].drops
  IN /\ FannedOut(g)
     /\ reader[g].drops # {}
     /\ IF Owns(g)
        THEN /\ group' = [group EXCEPT ![Key(g)].members = rest]
             /\ IF rest = {} THEN Becomes(g, [reader[g] EXCEPT !.pc = "remove"])
                ELSE Becomes(g, Awaiting(g))
        ELSE /\ UNCHANGED group
             /\ Becomes(g, Finished(g))
     /\ UNCHANGED <<log, nextGeneration, phase, channelVars>>

(* remove_if_generation, then the task returns.                            *)
Remove(g) ==
  /\ reader[g].pc = "remove"
  /\ group' = IF Owns(g) THEN [group EXCEPT ![Key(g)] = Absent] ELSE group
  /\ Becomes(g, Finished(g))
  /\ UNCHANGED <<log, nextGeneration, phase, channelVars>>

ReaderStep(g) ==
  \/ Subscribe(g) \/ NextEvent(g) \/ Snapshot(g)
  \/ \E s \in Sockets : TrySend(g, s)
  \/ KeepAll(g) \/ Prune(g) \/ Remove(g)
-----------------------------------------------------------------------------
HubNext ==
  \/ \E e \in Kinds : Publish(e)
  \/ \E s \in Sockets : Join(s) \/ Receive(s) \/ Leave(s) \/ DropReceiver(s)
  \/ \E g \in Generations : ReaderStep(g) \/ StreamEnds(g) \/ Cancel(g)

HubSpec == HubInit /\ [][HubNext]_hubVars
-----------------------------------------------------------------------------
(* Properties.                                                             *)

ReaderPC == {"unborn", "spawned", "next", "snapshot", "fanout", "remove", "done"}
GroupRecord ==
  [generation : {NoGeneration} \cup Generations, members : SUBSET Sockets]
ReaderRecord ==
  [pc : ReaderPC, key : Filters, cursor : Nat, senders : SUBSET Sockets,
   todo : SUBSET Sockets, drops : SUBSET Sockets, aborted : BOOLEAN]
Running(g) == reader[g].pc \notin {"unborn", "done"}

(* Type correctness, with the bound on a subscription's queue: never more  *)
(* than HUB_QUEUE_CAPACITY frames are waiting in it.                       *)
HubTypeOK ==
  /\ log \in Seq(Kinds)
  /\ group \in [Filters -> GroupRecord]
  /\ nextGeneration \in 1 .. MaxGenerations + 1
  /\ reader \in [Generations -> ReaderRecord]
  /\ phase \in [Sockets -> {"none", "live", "left", "dropped"}]
  /\ frames \in [Sockets -> Seq(Nat)]
  /\ taken \in [Sockets -> Nat]
  /\ \A s \in Sockets : /\ taken[s] <= Len(frames[s])
                        /\ Len(frames[s]) - taken[s] <= QueueCapacity

(* A registered group has a reader of its own generation that still runs   *)
(* and was not aborted, so no member waits on a dead task; and a reader    *)
(* that runs without its group was aborted, so none serves unregistered.   *)
(* This is what generation-aware cleanup (hub.rs:8-10) is for: an obsolete *)
(* reader, in any interleaving with leave and join, may not take down the  *)
(* group that replaced its own.                                            *)
RegistryMatchesReaders ==
  /\ \A f \in Filters :
       LET g == group[f].generation
       IN g # NoGeneration => Running(g) /\ Key(g) = f /\ ~reader[g].aborted
  /\ \A g \in Generations : Running(g) /\ ~reader[g].aborted => Owns(g)

(* A group without members is on its way out: its reader is about to       *)
(* remove it.  Otherwise the hub would keep a Photon subscription that     *)
(* serves nobody.                                                          *)
EmptyGroupIsBeingRemoved ==
  \A f \in Filters :
    LET g == group[f].generation
    IN g # NoGeneration /\ group[f].members = {} => reader[g].pc = "remove"

(* Every member of a group is a live subscription to its filter: a handle  *)
(* that was dropped, while a reader was sending to it or not, is in no     *)
(* group any more.                                                         *)
MembersAreLive ==
  \A f \in Filters : \A s \in group[f].members :
    FilterOf[s] = f /\ phase[s] = "live"

(* The frames put into one subscription's queue are events of its filter,  *)
(* one after the other: no gap, no repetition, no reordering, although     *)
(* readers come and go and other members are full or leave in between.     *)
FramesAreContiguous ==
  \A s \in Sockets : Contiguous(frames[s], Forwarded(log, FilterOf[s]))

(* A member that took frames and is still registered has taken all of them *)
(* when its reader awaits the next event: a full queue costs membership,   *)
(* never a frame.                                                          *)
MembersMissNothing ==
  \A g \in Generations :
    Owns(g) /\ reader[g].pc = "next" =>
      \A s \in group[Key(g)].members : frames[s] # <<>> =>
        \A i \in Forwarded(log, Key(g)) :
          i <= reader[g].cursor => i <= frames[s][Len(frames[s])]

(* "Live membership in a hub group; dropping leaves the group" (hub.rs:65) *)
(* and "queue depth before a slow client is disconnected" (hub.rs:25): a   *)
(* live member loses its membership only because it took no frame, or      *)
(* because the group's stream ended.                                       *)
LosesMembership(s) ==
  LET r == reader[group[FilterOf[s]].generation]
      streamEnded == r.pc = "remove" /\ r.drops = {}
  IN Registered(s) /\ ~Registered(s)' /\ phase'[s] = "live"
       => s \in r.drops \/ streamEnded
OnlySlowMembersAreDropped == [][\A s \in Sockets : LosesMembership(s)]_hubVars
=============================================================================
