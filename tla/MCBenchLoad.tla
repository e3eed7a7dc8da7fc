---------------------------- MODULE MCBenchLoad ----------------------------
(* Instance of BenchLoad for TLC: a generator with two connections and one *)
(* with a single connection.                                               *)
EXTENDS BenchLoad, TLC
CONSTANTS c1, c2, i1, i2

MCConns == (c1 :> {i1, i2}) @@ (c2 :> {i1})
=============================================================================
