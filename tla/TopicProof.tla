----------------------------- MODULE TopicProof -----------------------------
(***************************************************************************)
(* Facts about topics and streams (module Topic) that the proofs about     *)
(* both fanouts rest on.                                                   *)
(***************************************************************************)
EXTENDS Topic, TLAPS

(* What a stream yields are positions of the topic; all that becomes a     *)
(* frame is yielded.                                                       *)
LEMMA Positions ==
  ASSUME NEW l \in Seq(Kinds), NEW f \in Filters
  PROVE  /\ Matching(l, f) \subseteq 1 .. Len(l)
         /\ Forwarded(l, f) \subseteq Matching(l, f)
         /\ Len(l) \in Nat
  BY DEF Matching, Forwarded

(* An event published to the topic changes nothing about those before it.  *)
LEMMA Published ==
  ASSUME NEW l \in Seq(Kinds), NEW e \in Kinds, NEW f \in Filters
  PROVE  /\ Append(l, e) \in Seq(Kinds) /\ Len(Append(l, e)) = Len(l) + 1
         /\ \A i \in 1 .. Len(l) :
              /\ i \in Matching(Append(l, e), f) <=> i \in Matching(l, f)
              /\ i \in Forwarded(Append(l, e), f) <=> i \in Forwarded(l, f)
         /\ Forwarded(l, f) \subseteq Forwarded(Append(l, e), f)
<1>1. \A i \in 1 .. Len(l) : Append(l, e)[i] = l[i] /\ i \in 1 .. Len(Append(l, e))
  OBVIOUS
<1>2. Append(l, e) \in Seq(Kinds) /\ Len(Append(l, e)) = Len(l) + 1
  OBVIOUS
<1>3. \A i \in 1 .. Len(l) :
        /\ i \in Matching(Append(l, e), f) <=> i \in Matching(l, f)
        /\ i \in Forwarded(Append(l, e), f) <=> i \in Forwarded(l, f)
  BY <1>1 DEF Matching, Forwarded
<1>4. QED BY <1>2, <1>3, Positions

(* So what was the next frame is still the next one.                       *)
LEMMA NextStays ==
  ASSUME NEW l \in Seq(Kinds), NEW e \in Kinds, NEW f \in Filters, NEW c, NEW i,
         IsNext(Forwarded(l, f), c, i)
  PROVE  IsNext(Forwarded(Append(l, e), f), c, i)
<1>1. i \in Forwarded(l, f) /\ i \in 1 .. Len(l) /\ i > c
  BY Positions DEF IsNext
<1>2. ASSUME NEW j \in Forwarded(Append(l, e), f), j > c PROVE i <= j
  <2>1. CASE j \in 1 .. Len(l)
    BY <1>2, <2>1, Published DEF IsNext
  <2>2. CASE j \notin 1 .. Len(l)
    <3>1. j \in 1 .. Len(l) + 1
      BY Published, Positions
    <3>2. QED BY <1>1, <2>2, <3>1, Positions
  <2>3. QED BY <2>1, <2>2
<1>3. QED BY <1>1, <1>2, Published DEF IsNext

LEMMA ContiguousStays ==
  ASSUME NEW l \in Seq(Kinds), NEW e \in Kinds, NEW f \in Filters,
         NEW fs \in Seq(Nat), Contiguous(fs, Forwarded(l, f))
  PROVE  Contiguous(fs, Forwarded(Append(l, e), f))
  BY Published, NextStays DEF Contiguous

(* A sequence stays contiguous with the next frame at its end.             *)
LEMMA ContiguousAppend ==
  ASSUME NEW S, NEW fs \in Seq(Nat), NEW i \in Nat, Contiguous(fs, S), i \in S,
         fs # <<>> => IsNext(S, fs[Len(fs)], i)
  PROVE  Contiguous(Append(fs, i), S)
<1>1. /\ Len(Append(fs, i)) = Len(fs) + 1 /\ Len(fs) \in Nat
      /\ \A n \in 1 .. Len(fs) : Append(fs, i)[n] = fs[n]
      /\ Append(fs, i)[Len(fs) + 1] = i
  OBVIOUS
<1>2. ASSUME NEW n \in 1 .. Len(fs) + 1 PROVE Append(fs, i)[n] \in S
  BY <1>1 DEF Contiguous
<1>3. ASSUME NEW n \in 1 .. Len(fs)
      PROVE  IsNext(S, Append(fs, i)[n], Append(fs, i)[n + 1])
  <2>1. CASE n = Len(fs)
    BY <1>1, <2>1
  <2>2. CASE n < Len(fs)
    BY <1>1, <2>2 DEF Contiguous
  <2>3. QED BY <2>1, <2>2
<1>4. 1 .. Len(Append(fs, i)) = 1 .. Len(fs) + 1 /\ 1 .. Len(Append(fs, i)) - 1 = 1 .. Len(fs)
  BY <1>1
<1>5. QED BY <1>2, <1>3, <1>4 DEF Contiguous

(* The elements of a contiguous sequence increase.                         *)
LEMMA LastIsGreatest ==
  ASSUME NEW fs \in Seq(Nat), NEW i \in Nat, \A n \in 1 .. Len(fs) : fs[n] <= i
  PROVE  LET gs == Append(fs, i)
         IN \A n \in 1 .. Len(gs) : gs[n] <= gs[Len(gs)]
  OBVIOUS
=============================================================================
