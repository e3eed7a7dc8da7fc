--------------------------- MODULE MCPerSubscribe ---------------------------
(* Instance of PerSubscribe for TLC: a connection with a key filter whose  *)
(* browser keeps reading, and one without a filter whose browser may not.  *)
EXTENDS PerSubscribe, TLC
CONSTANTS s1, s2, all, keyed, mine, other, broken

MCMatches == (all :> {mine, other, broken}) @@ (keyed :> {mine, broken})
MCFilterOf == (s1 :> keyed) @@ (s2 :> all)
=============================================================================
