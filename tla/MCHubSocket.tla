---------------------------- MODULE MCHubSocket ----------------------------
(* Instance of HubSocket for TLC: two connections of one key filter, which *)
(* passes two of three kinds of events.                                    *)
EXTENDS HubSocket, TLC
CONSTANTS s1, s2, keyed, mine, other, broken

MCMatches == keyed :> {mine, broken}
MCFilterOf == [s \in Sockets |-> keyed]
=============================================================================
