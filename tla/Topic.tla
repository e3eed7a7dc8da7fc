------------------------------- MODULE Topic -------------------------------
(***************************************************************************)
(* A Photon topic as the WebSocket bridge uses it.  Photon itself is a     *)
(* library outside this repository: all the bridge asks of it is           *)
(* photon.subscribe(topic, key_filter, None), an ephemeral stream that     *)
(* yields the topic's later events that match the filter, in publish       *)
(* order, until it ends or reports an error.  The topic is an append-only  *)
(* log of events, an event is abstracted to its kind (its key, and whether *)
(* serde_json can serialize it), and a stream is a cursor into the log.    *)
(***************************************************************************)
EXTENDS Naturals, Sequences

CONSTANTS
  Filters,         \* the key filters connections ask for; "no filter" is one
  Kinds,           \* the kinds of event the topic carries
  Matches,         \* Matches[f]: the kinds a stream with filter f yields
  Unserializable,  \* the kinds whose envelope fails to serialize
  MaxEvents        \* bound: events published in a behaviour

ASSUME TopicAssumption ==
  /\ Filters # {}
  /\ Matches \in [Filters -> SUBSET Kinds]
  /\ Unserializable \subseteq Kinds
  /\ MaxEvents \in Nat

(* The positions of l a stream with filter f yields.                       *)
Matching(l, f) == {i \in 1 .. Len(l) : l[i] \in Matches[f]}

(* Those of them that become a frame.                                      *)
Forwarded(l, f) == {i \in Matching(l, f) : l[i] \notin Unserializable}

(* i is the first member of S after position c.                            *)
IsNext(S, c, i) == i \in S /\ i > c /\ \A j \in S : j > c => i <= j

(* The sequence fs runs through S without a gap, a repetition or a swap.   *)
Contiguous(fs, S) ==
  /\ \A n \in 1 .. Len(fs) : fs[n] \in S
  /\ \A n \in 1 .. Len(fs) - 1 : IsNext(S, fs[n], fs[n + 1])
=============================================================================
