--------------------------- MODULE MCBroadcastHub ---------------------------
(* Instance of BroadcastHub for TLC: one key filter, three subscriptions   *)
(* contending for its group.                                               *)
EXTENDS BroadcastHub, TLC
CONSTANTS s1, s2, s3, all, event, broken

MCMatches == all :> Kinds
MCFilterOf == [s \in Sockets |-> all]
Symmetry == Permutations(Sockets)
=============================================================================
