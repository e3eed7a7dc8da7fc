--------------------------- MODULE AdmissionProof ---------------------------
(***************************************************************************)
(* Proofs about Admission: for every set of paths, keys and users, UTF-8   *)
(* strings of any length, the key a client is configured with is the key   *)
(* the server reads, an upgraded connection has no filter but its own, and *)
(* what is logged of a key has no control characters.                      *)
(***************************************************************************)
EXTENDS Admission, SequenceTheorems, WellFoundedInduction, TLAPS

Strings == Seq(Bytes)
-----------------------------------------------------------------------------
(* Induction over the naturals, for a set.                                 *)

LEMMA EveryNatural ==
  ASSUME NEW T, 0 \in T, \A n \in Nat : n \in T => n + 1 \in T
  PROVE  Nat \subseteq T
<1> SUFFICES ASSUME Nat \ T # {} PROVE FALSE
  OBVIOUS
<1>1. PICK m \in Nat \ T : \A k \in Nat \ T : ~ (<<k, m>> \in OpToRel(<, Nat))
  BY NatLessThanWellFounded, WFMin, Zenon
<1>2. m - 1 \in Nat /\ m = (m - 1) + 1
  <2>1. m \in Nat /\ m # 0
    OBVIOUS
  <2>2. QED BY <2>1
<1>3. <<m - 1, m>> \in OpToRel(<, Nat)
  BY <1>1, <1>2 DEF OpToRel
<1>4. m - 1 \in T
  BY <1>1, <1>2, <1>3
<1>5. QED BY <1>1, <1>2, <1>4

LEMMA MinExists ==
  ASSUME NEW S \in SUBSET Nat, S # {}
  PROVE  Min(S) \in S /\ \A k \in S : Min(S) <= k
<1>1. PICK m \in S : \A k \in S : ~ (<<k, m>> \in OpToRel(<, Nat))
  BY NatLessThanWellFounded, WFMin, Zenon
<1>2. ASSUME NEW k \in S PROVE m <= k
  <2> SUFFICES ASSUME ~ (m <= k) PROVE FALSE
    OBVIOUS
  <2>1. k \in Nat /\ m \in Nat /\ k < m
    OBVIOUS
  <2>2. <<k, m>> \in OpToRel(<, Nat)
    BY <2>1 DEF OpToRel
  <2>3. QED BY <1>1, <2>2
<1>3. QED BY <1>2, Zenon DEF Min
-----------------------------------------------------------------------------
(* Splitting at the first c.                                               *)

LEMMA FirstIs ==
  ASSUME NEW s \in Strings, NEW c, NEW n \in 1 .. Len(s) + 1,
         \A i \in 1 .. n - 1 : s[i] # c, n <= Len(s) => s[n] = c
  PROVE  FirstOf(s, c) = n
<1> DEFINE S == {i \in DOMAIN s : s[i] = c} \cup {Len(s) + 1}
<1>1. Len(s) \in Nat /\ DOMAIN s = 1 .. Len(s)
  BY DEF Strings
<1>2. S \in SUBSET Nat /\ n \in S
  BY <1>1
<1>3. \A i \in S : n <= i
  BY <1>1
<1> HIDE DEF S
<1>4. Min(S) \in S /\ \A k \in S : Min(S) <= k
  BY <1>2, MinExists
<1>5. Min(S) = n
  <2>1. Min(S) \in Nat /\ n \in Nat /\ Min(S) <= n /\ n <= Min(S)
    BY <1>2, <1>3, <1>4
  <2>2. QED BY <2>1
<1>6. QED BY <1>5 DEF FirstOf, S

LEMMA SplitWithout ==
  ASSUME NEW s \in Strings, NEW c, \A i \in 1 .. Len(s) : s[i] # c
  PROVE  Before(s, c) = s /\ After(s, c) = <<>>
<1>1. Len(s) \in Nat
  BY DEF Strings
<1>2. FirstOf(s, c) = Len(s) + 1
  BY <1>1, FirstIs
<1>3. SubSeq(s, 1, Len(s)) = s
  BY DEF Strings
<1>4. SubSeq(s, Len(s) + 2, Len(s)) = <<>>
  BY DEF Strings
<1>5. QED BY <1>1, <1>2, <1>3, <1>4 DEF Before, After

LEMMA SplitAtFirst ==
  ASSUME NEW a \in Strings, NEW b \in Strings, NEW c \in Bytes,
         \A i \in 1 .. Len(a) : a[i] # c
  PROVE  /\ Before(a \o <<c>> \o b, c) = a /\ After(a \o <<c>> \o b, c) = b
         /\ a \o <<c>> \o b \in Strings
<1> DEFINE s == a \o <<c>> \o b
<1>1. a \in Seq(Bytes) /\ b \in Seq(Bytes) /\ Len(a) \in Nat /\ Len(b) \in Nat
  BY DEF Strings
<1>2. /\ s \in Seq(Bytes) /\ Len(s) = Len(a) + 1 + Len(b)
      /\ \A i \in 1 .. Len(a) : s[i] = a[i]
      /\ s[Len(a) + 1] = c
  <2> HIDE DEF Bytes
  <2> QED BY <1>1
<1>3. \A i \in 1 .. Len(b) : s[Len(a) + 1 + i] = b[i]
  <2> HIDE DEF Bytes
  <2> QED BY <1>1
<1> HIDE DEF s
<1>4. FirstOf(s, c) = Len(a) + 1
  <2>1. s \in Strings /\ Len(a) + 1 \in 1 .. Len(s) + 1
    BY <1>1, <1>2 DEF Strings
  <2>2. \A i \in 1 .. (Len(a) + 1) - 1 : s[i] # c
    BY <1>1, <1>2
  <2>3. QED BY <1>2, <2>1, <2>2, FirstIs
<1>5. SubSeq(s, 1, Len(a)) = a
  BY <1>1, <1>2
<1>6. SubSeq(s, Len(a) + 2, Len(s)) = b
  <2> DEFINE t == SubSeq(s, Len(a) + 2, Len(s))
  <2>1. t \in Seq(Bytes) /\ Len(t) = Len(b)
    BY <1>1, <1>2
  <2>2. \A i \in 1 .. Len(b) : t[i] = s[Len(a) + 1 + i]
    BY <1>1, <1>2
  <2> HIDE DEF t
  <2>3. t = b
    BY <1>1, <1>3, <2>1, <2>2, SeqEqual
  <2>4. QED BY <2>3 DEF t
<1>7. QED BY <1>1, <1>2, <1>4, <1>5, <1>6, SMTT(30) DEF Before, After, Strings, s

LEMMA Part ==
  ASSUME NEW S, NEW s \in Seq(S), NEW m \in Nat \ {0}, NEW n \in 0 .. Len(s), m <= n + 1
  PROVE  /\ SubSeq(s, m, n) \in Seq(S) /\ Len(SubSeq(s, m, n)) = n - m + 1
         /\ \A i \in 1 .. n - m + 1 : SubSeq(s, m, n)[i] = s[m + i - 1]
<1>1. Len(s) \in Nat /\ \A i \in 1 .. Len(s) : s[i] \in S
  BY ElementOfSeq, LenProperties
<1>2. n \in Nat /\ m \in Int /\ n \in Int /\ \A i \in m .. n : i \in 1 .. Len(s)
  BY <1>1
<1>3. /\ SubSeq(s, m, n) \in Seq(S)
      /\ Len(SubSeq(s, m, n)) = IF m <= n THEN n - m + 1 ELSE 0
      /\ \A i \in 1 .. n - m + 1 : SubSeq(s, m, n)[i] = s[m + i - 1]
  BY <1>1, <1>2, SubSeqProperties
<1>4. QED BY <1>2, <1>3

LEMMA SplitApart ==
  ASSUME NEW s \in Strings, NEW c \in Bytes, NEW k \in 1 .. Len(s), s[k] = c
  PROVE  /\ Before(s, c) \in Strings /\ After(s, c) \in Strings
         /\ s = Before(s, c) \o <<c>> \o After(s, c)
         /\ \A i \in 1 .. Len(Before(s, c)) : Before(s, c)[i] # c
<1> DEFINE S == {i \in DOMAIN s : s[i] = c} \cup {Len(s) + 1}
           n == FirstOf(s, c)
           a == SubSeq(s, 1, n - 1)
           b == SubSeq(s, n + 1, Len(s))
<1>1. Len(s) \in Nat /\ DOMAIN s = 1 .. Len(s)
  BY DEF Strings
<1>2. S \in SUBSET Nat /\ k \in S
  BY <1>1
<1>3. n \in S /\ \A i \in S : n <= i
  <2> HIDE DEF S
  <2>1. Min(S) \in S /\ \A i \in S : Min(S) <= i
    BY <1>2, MinExists
  <2>2. QED BY <2>1 DEF FirstOf, S
<1> HIDE DEF n
<1>4. n \in 1 .. Len(s) /\ s[n] = c /\ \A i \in 1 .. n - 1 : s[i] # c
  <2>1. n <= k
    BY <1>2, <1>3
  <2>2. n \in 1 .. Len(s) /\ s[n] = c
    BY <1>1, <1>3, <2>1
  <2>3. \A i \in 1 .. n - 1 : i \in 1 .. Len(s) /\ ~ (n <= i)
    BY <1>1, <2>2
  <2>4. QED BY <1>1, <1>3, <2>2, <2>3
<1>5. /\ a \in Strings /\ Len(a) = n - 1 /\ \A i \in 1 .. n - 1 : a[i] = s[i]
      /\ b \in Strings /\ Len(b) = Len(s) - n /\ \A i \in 1 .. Len(s) - n : b[i] = s[n + i]
  <2>1. /\ s \in Seq(Bytes) /\ Len(s) \in Nat /\ n \in Nat /\ n - 1 \in 0 .. Len(s) /\ Len(s) \in 0 .. Len(s)
        /\ n + 1 \in Nat \ {0} /\ n + 1 <= Len(s) + 1 /\ 1 \in Nat \ {0} /\ 1 <= (n - 1) + 1
    BY <1>1, <1>4 DEF Strings
  <2>2. /\ a \in Seq(Bytes) /\ Len(a) = (n - 1) - 1 + 1
        /\ \A i \in 1 .. (n - 1) - 1 + 1 : a[i] = s[1 + i - 1]
    BY <2>1, Part
  <2>3. /\ b \in Seq(Bytes) /\ Len(b) = Len(s) - (n + 1) + 1
        /\ \A i \in 1 .. Len(s) - (n + 1) + 1 : b[i] = s[(n + 1) + i - 1]
    BY <2>1, Part
  <2> HIDE DEF a, b
  <2>4. \A i \in 1 .. n - 1 : a[i] = s[i]
    <3>1. \A i \in 1 .. n - 1 : i \in 1 .. (n - 1) - 1 + 1 /\ 1 + i - 1 = i
      BY <2>1
    <3>2. QED BY <2>2, <3>1
  <2>5. \A i \in 1 .. Len(s) - n : b[i] = s[n + i]
    <3>1. \A i \in 1 .. Len(s) - n : i \in 1 .. Len(s) - (n + 1) + 1 /\ (n + 1) + i - 1 = n + i
      BY <2>1
    <3>2. QED BY <2>3, <3>1
  <2>6. QED BY <2>1, <2>2, <2>3, <2>4, <2>5 DEF Strings
<1> HIDE DEF a, b
<1>6. s = a \o <<c>> \o b
  <2> DEFINE t == a \o <<c>> \o b
             u == <<c>> \o b
  <2> HIDE DEF Bytes
  <2>1. /\ u \in Seq(Bytes) /\ Len(u) = 1 + (Len(s) - n) /\ u[1] = c
        /\ \A i \in 1 .. Len(s) - n : u[i + 1] = b[i]
    BY <1>1, <1>4, <1>5 DEF Strings
  <2>2. t = a \o u
    <3>1. a \in Seq(Bytes) /\ <<c>> \in Seq(Bytes) /\ b \in Seq(Bytes)
      BY <1>5 DEF Strings
    <3>2. (a \o <<c>>) \o b = a \o (<<c>> \o b)
      BY <3>1, ConcatAssociative
    <3>3. QED BY <3>2
  <2> HIDE DEF t, u
  <2>5. /\ a \o u \in Seq(Bytes) /\ Len(a \o u) = Len(a) + Len(u)
        /\ \A i \in 1 .. Len(a) + Len(u) : (a \o u)[i] = IF i <= Len(a) THEN a[i] ELSE u[i - Len(a)]
    BY <1>5, <2>1, ConcatProperties DEF Strings
  <2>6. /\ t \in Seq(Bytes) /\ Len(t) = Len(s)
        /\ \A i \in 1 .. Len(s) : t[i] = IF i <= n - 1 THEN a[i] ELSE u[i - (n - 1)]
    BY <1>1, <1>4, <1>5, <2>1, <2>2, <2>5
  <2>3. ASSUME NEW i \in 1 .. Len(s) PROVE t[i] = s[i]
    <3>1. CASE i < n
      BY <1>1, <1>4, <1>5, <2>6, <3>1
    <3>2. CASE i = n
      BY <1>4, <2>1, <2>6, <3>2
    <3>3. CASE i > n
      <4> DEFINE j == i - n
      <4>1. j \in 1 .. Len(s) - n /\ n + j = i /\ i - (n - 1) = j + 1
        BY <1>1, <1>4, <3>3
      <4> HIDE DEF j
      <4>2. t[i] = u[j + 1]
        BY <1>4, <2>6, <3>3, <4>1
      <4>3. QED BY <1>5, <2>1, <4>1, <4>2
    <3>4. i \in Int /\ n \in Int
      BY <1>4
    <3>5. QED BY <3>1, <3>2, <3>3, <3>4
  <2>4. t = s
    BY <2>3, <2>6, SeqEqual DEF Strings
  <2>7. QED BY <2>4 DEF t
<1>7. QED BY <1>4, <1>5, <1>6 DEF Before, After, n, a, b
-----------------------------------------------------------------------------
(* FlattenSeq, as the concatenation of ever more pieces.                   *)

Joined(ss, g, i) == IF i = 1 THEN ss[i] ELSE g[i - 1] \o ss[i]

LEMMA JoinedExists ==
  ASSUME NEW n \in Nat, NEW ss
  PROVE  \E g : g = [i \in 1 .. n |-> Joined(ss, g, i)]
<1> DEFINE T == {k \in Nat : \E g : g = [i \in 1 .. k |-> Joined(ss, g, i)]}
<1>1. 0 \in T
  <2> DEFINE g == [i \in 1 .. 0 |-> 0]
  <2>1. g = [i \in 1 .. 0 |-> Joined(ss, g, i)]
    OBVIOUS
  <2>2. QED BY <2>1
<1>2. ASSUME NEW k \in Nat, k \in T PROVE k + 1 \in T
  <2>1. PICK g : g = [i \in 1 .. k |-> Joined(ss, g, i)]
    BY <1>2
  <2> DEFINE h == [i \in 1 .. k + 1 |-> IF i \in 1 .. k THEN g[i] ELSE Joined(ss, g, i)]
  <2>2. \A i \in 1 .. k + 1 : h[i] = Joined(ss, g, i)
    BY <2>1
  <2>3. \A i \in 1 .. k + 1 : i # 1 => h[i - 1] = g[i - 1]
    OBVIOUS
  <2>4. h = [i \in 1 .. k + 1 |-> h[i]]
    OBVIOUS
  <2> HIDE DEF h
  <2>5. \A i \in 1 .. k + 1 : h[i] = Joined(ss, h, i)
    BY <2>2, <2>3 DEF Joined
  <2>6. h = [i \in 1 .. k + 1 |-> Joined(ss, h, i)]
    BY <2>4, <2>5
  <2>7. QED BY <2>6
<1>3. Nat \subseteq T
  <2> HIDE DEF T
  <2> QED BY <1>1, <1>2, EveryNatural
<1>4. QED BY <1>3

LEMMA FlattenSteps ==
  ASSUME NEW S, NEW ss \in Seq(Seq(S))
  PROVE  \E g \in [0 .. Len(ss) -> Seq(S)] :
           /\ g[0] = <<>>
           /\ \A i \in 1 .. Len(ss) : g[i] = g[i - 1] \o ss[i]
           /\ FlattenSeq(ss) = g[Len(ss)]
<1> DEFINE n == Len(ss)
<1>1. n \in Nat /\ \A i \in 1 .. n : ss[i] \in Seq(S)
  OBVIOUS
<1>2. PICK f : f = [i \in 1 .. n |-> Joined(ss, f, i)] /\ (n # 0 => FlattenSeq(ss) = f[n])
  <2> DEFINE f == CHOOSE f : f = [i \in 1 .. n |-> Joined(ss, f, i)]
  <2>1. f = [i \in 1 .. n |-> Joined(ss, f, i)]
    <3> HIDE DEF n
    <3> QED BY <1>1, JoinedExists
  <2>2. n # 0 => FlattenSeq(ss) = f[n]
    BY Zenon DEF FlattenSeq, Joined
  <2>3. QED BY <2>1, <2>2
<1>3. n = 0 => FlattenSeq(ss) = <<>>
  BY EmptySeq DEF FlattenSeq
<1> DEFINE g == [i \in 0 .. n |-> IF i = 0 THEN <<>> ELSE f[i]]
<1>4. /\ DOMAIN g = 0 .. n /\ g[0] = <<>> /\ FlattenSeq(ss) = g[n]
      /\ \A i \in 1 .. n : g[i] = Joined(ss, f, i)
  <2> HIDE DEF n
  <2>1. DOMAIN g = 0 .. n /\ g[0] = <<>>
    BY <1>1
  <2>2. \A i \in 1 .. n : i \in 0 .. n /\ i # 0
    BY <1>1
  <2>3. \A i \in 1 .. n : g[i] = f[i] /\ f[i] = Joined(ss, f, i)
    BY <1>2, <2>2
  <2>4. FlattenSeq(ss) = g[n]
    BY <1>1, <1>2, <1>3, <2>1, <2>3
  <2>5. QED BY <2>1, <2>3, <2>4
<1>5. \A i \in 1 .. n : g[i] = g[i - 1] \o ss[i]
  <2> SUFFICES ASSUME NEW i \in 1 .. n PROVE g[i] = g[i - 1] \o ss[i]
    OBVIOUS
  <2>1. CASE i = 1
    <3>1. g[i] = ss[1] /\ ss[1] \in Seq(S) /\ g[i - 1] = <<>>
      <4> HIDE DEF g, n
      <4> QED BY <1>1, <1>4, <2>1 DEF Joined
    <3>2. <<>> \o ss[1] = ss[1]
      BY <3>1, ConcatEmptySeq
    <3>3. QED BY <2>1, <3>1, <3>2
  <2>2. CASE i # 1
    <3>1. i - 1 \in 0 .. n /\ i - 1 # 0
      BY <1>1, <2>2
    <3>2. g[i - 1] = f[i - 1]
      BY <3>1
    <3>3. QED BY <1>4, <2>2, <3>2 DEF Joined
  <2>3. QED BY <2>1, <2>2
<1>9. g = [i \in 0 .. n |-> g[i]]
  OBVIOUS
<1> HIDE DEF g, n
<1>6. ASSUME NEW k \in 0 .. n PROVE g[k] \in Seq(S)
  <2> DEFINE T == {j \in Nat : j <= n => g[j] \in Seq(S)}
  <2>1. 0 \in T
    BY <1>4, EmptySeq
  <2>2. ASSUME NEW j \in Nat, j \in T PROVE j + 1 \in T
    <3> SUFFICES ASSUME j + 1 <= n PROVE g[j + 1] \in Seq(S)
      OBVIOUS
    <3>1. j + 1 \in 1 .. n /\ (j + 1) - 1 = j /\ g[j] \in Seq(S)
      BY <1>1, <2>2
    <3>2. g[j + 1] = g[j] \o ss[j + 1] /\ ss[j + 1] \in Seq(S)
      BY <1>1, <1>5, <3>1
    <3>3. QED BY <3>1, <3>2, ConcatProperties
  <2> HIDE DEF T
  <2>3. Nat \subseteq T
    BY <2>1, <2>2, EveryNatural
  <2>4. k \in T /\ k <= n
    BY <1>1, <2>3
  <2>5. QED BY <2>4 DEF T
<1>7. g \in [0 .. n -> Seq(S)]
  BY <1>6, <1>9
<1>8. QED BY <1>4, <1>5, <1>7 DEF n
-----------------------------------------------------------------------------
(* The decoder, a recursive function over the rest of the value.           *)

Push(b, rest) == IF rest = Malformed THEN Malformed ELSE <<b>> \o rest
Escaped(v, i) == i + 2 <= Len(v) /\ {v[i + 1], v[i + 2]} \subseteq DOMAIN FromHex
Decoded(v, from, i) ==
  CASE i > Len(v) -> <<>>
    [] i <= Len(v) /\ v[i] = Plus -> Push(Space, from[i + 1])
    [] i <= Len(v) /\ v[i] = Percent ->
         IF Escaped(v, i)
         THEN Push(FromHex[v[i + 1]] * 16 + FromHex[v[i + 2]], from[i + 3])
         ELSE Malformed
    [] OTHER -> Push(v[i], from[i + 1])

LEMMA DecodedExists ==
  ASSUME NEW v, Len(v) \in Nat
  PROVE  \E f : f = [i \in 1 .. Len(v) + 1 |-> Decoded(v, f, i)]
<1> DEFINE n == Len(v) + 1
           T == {k \in Nat : k <= n => \E f : f = [i \in n + 1 - k .. n |-> Decoded(v, f, i)]}
<1>1. 0 \in T
  <2> DEFINE f == [i \in n + 1 - 0 .. n |-> 0]
  <2>1. \A i : i \notin n + 1 - 0 .. n
    OBVIOUS
  <2>2. f = [i \in n + 1 - 0 .. n |-> Decoded(v, f, i)]
    BY <2>1
  <2>3. QED BY <2>2
<1>2. ASSUME NEW k \in Nat, k \in T PROVE k + 1 \in T
  <2> SUFFICES ASSUME k + 1 <= n
               PROVE  \E h : h = [i \in n + 1 - (k + 1) .. n |-> Decoded(v, h, i)]
    OBVIOUS
  <2>1. PICK f : f = [i \in n + 1 - k .. n |-> Decoded(v, f, i)]
    BY <1>2
  <2> DEFINE m == n + 1 - (k + 1)
             h == [i \in m .. n |-> IF i = m THEN Decoded(v, f, m) ELSE f[i]]
  <2>2. n \in Nat /\ m \in 1 .. n /\ n + 1 - k = m + 1 /\ Len(v) = n - 1
    OBVIOUS
  <2> HIDE DEF n, m
  <2>3. h = [i \in m .. n |-> h[i]] /\ \A i \in m + 1 .. n : h[i] = f[i]
    BY <2>2
  <2>4. \A i \in m .. n : h[i] = Decoded(v, f, i)
    BY <2>1, <2>2, SMTT(30)
  <2> HIDE DEF h
  <2>5. ASSUME NEW i \in m .. n PROVE Decoded(v, f, i) = Decoded(v, h, i)
    <3>1. CASE i > Len(v)
      BY <3>1 DEF Decoded
    <3>2. CASE i <= Len(v)
      <4>1. h[i + 1] = f[i + 1]
        <5>1. i + 1 \in m + 1 .. n
          BY <2>2, <3>2
        <5>2. QED BY <2>3, <5>1
      <4>2. ASSUME Escaped(v, i) PROVE h[i + 3] = f[i + 3]
        <5>1. i + 2 <= Len(v)
          BY <4>2, Zenon DEF Escaped
        <5>2. i + 3 \in m + 1 .. n
          BY <2>2, <5>1
        <5>3. QED BY <2>3, <5>2
      <4>3. QED BY <4>1, <4>2, Zenon DEF Decoded
    <3>3. QED BY <2>2, <3>1, <3>2
  <2>6. h = [i \in m .. n |-> Decoded(v, h, i)]
    BY <2>3, <2>4, <2>5
  <2>7. QED BY <2>6 DEF m
<1>3. Nat \subseteq T
  <2> HIDE DEF T
  <2> QED BY <1>1, <1>2, EveryNatural
<1>4. n \in T /\ n <= n /\ n + 1 - n = 1
  BY <1>3
<1>5. QED BY <1>4

LEMMA DecodeSteps ==
  ASSUME NEW v, Len(v) \in Nat
  PROVE  \E f : (\A i \in 1 .. Len(v) + 1 : f[i] = Decoded(v, f, i)) /\ PercentDecode(v) = f[1]
<1> DEFINE f == CHOOSE f : f = [i \in 1 .. Len(v) + 1 |-> Decoded(v, f, i)]
<1>1. f = [i \in 1 .. Len(v) + 1 |-> Decoded(v, f, i)]
  BY DecodedExists
<1>2. PercentDecode(v) = f[1]
  BY Zenon DEF PercentDecode, Decoded, Push, Escaped
<1>3. QED BY <1>1, <1>2
-----------------------------------------------------------------------------
(* Escaping.                                                               *)

Piece(b) == IF Unreserved(b) THEN <<b>> ELSE EscapedByte(b)

LEMMA HexRoundTrip ==
  ASSUME NEW n \in 0 .. 15
  PROVE  /\ HexDigit(n) \in DOMAIN FromHex /\ FromHex[HexDigit(n)] = n
         /\ HexDigit(n) \in (48 .. 57) \cup (65 .. 70)
  BY DEF FromHex, HexDigit

(* What is in a URL after a key: no byte that separates parameters.        *)
LEMMA PieceIs ==
  ASSUME NEW b \in Bytes
  PROVE  /\ Piece(b) \in Strings
         /\ \A i \in 1 .. Len(Piece(b)) : Piece(b)[i] \notin {Ampersand, QuestionMark, EqualSign}
         /\ \/ Piece(b) = <<b>> /\ b \notin {Plus, Percent}
            \/ \E x, y \in DOMAIN FromHex :
                 Piece(b) = <<Percent, x, y>> /\ FromHex[x] * 16 + FromHex[y] = b
<1>1. CASE Unreserved(b)
  <2>1. Piece(b) = <<b>> /\ b \notin {Plus, Percent, Ampersand, QuestionMark, EqualSign}
    BY <1>1 DEF Piece, Unreserved, Plus, Percent, Ampersand, QuestionMark, EqualSign
  <2>2. QED BY <2>1 DEF Strings
<1>2. CASE ~Unreserved(b)
  <2>1. PICK q \in 0 .. 15, r \in 0 .. 15 : q = b \div 16 /\ r = b % 16 /\ b = q * 16 + r
    <3>1. b \in 0 .. 255
      BY DEF Bytes
    <3>2. PICK q \in 0 .. 15, r \in 0 .. 15 : q = b \div 16 /\ r = b % 16
      BY <3>1
    <3>3. b = 16 * q + r
      BY <3>1, <3>2
    <3>4. q * 16 = 16 * q
      OBVIOUS
    <3>5. b = q * 16 + r
      BY <3>3, <3>4
    <3>6. QED BY <3>2, <3>5
  <2> DEFINE x == HexDigit(q)
             y == HexDigit(r)
  <2>2. Piece(b) = <<Percent, x, y>>
    BY <1>2, <2>1 DEF Piece, EscapedByte
  <2>3. /\ x \in DOMAIN FromHex /\ y \in DOMAIN FromHex
        /\ x \in (48 .. 57) \cup (65 .. 70) /\ y \in (48 .. 57) \cup (65 .. 70)
        /\ FromHex[x] = q /\ FromHex[y] = r
    BY HexRoundTrip
  <2> HIDE DEF x, y
  <2>4. Percent \in Bytes /\ x \in Bytes /\ y \in Bytes
    BY <2>3 DEF Percent, Bytes
  <2>5. {Percent, x, y} \cap {Ampersand, QuestionMark, EqualSign} = {}
    BY <2>3 DEF Percent, Ampersand, QuestionMark, EqualSign
  <2>6. /\ <<Percent, x, y>> \in Strings
        /\ \A i \in 1 .. Len(<<Percent, x, y>>) : <<Percent, x, y>>[i] \in {Percent, x, y}
    <3> HIDE DEF Bytes
    <3> QED BY <2>4 DEF Strings
  <2>7. FromHex[x] * 16 + FromHex[y] = b
    BY <2>1, <2>3
  <2>8. QED BY <2>2, <2>3, <2>5, <2>6, <2>7
<1>3. QED BY <1>1, <1>2

LEMMA EscapeSteps ==
  ASSUME NEW key \in Strings
  PROVE  \E g \in [0 .. Len(key) -> Strings] :
           /\ g[0] = <<>>
           /\ \A i \in 1 .. Len(key) : g[i] = g[i - 1] \o Piece(key[i])
           /\ Escape(key) = g[Len(key)]
<1> DEFINE ss == [i \in DOMAIN key |-> Piece(key[i])]
<1>1. Len(key) \in Nat /\ DOMAIN key = 1 .. Len(key) /\ \A i \in 1 .. Len(key) : key[i] \in Bytes
  BY DEF Strings
<1>2. \A i \in 1 .. Len(key) : Piece(key[i]) \in Strings
  BY <1>1, PieceIs
<1>3. ss \in Seq(Strings) /\ Len(ss) = Len(key) /\ \A i \in 1 .. Len(key) : ss[i] = Piece(key[i])
  <2> HIDE DEF Strings
  <2> QED BY <1>1, <1>2
<1>4. Escape(key) = FlattenSeq(ss)
  BY DEF Escape, Piece
<1> HIDE DEF ss
<1>5. PICK g \in [0 .. Len(ss) -> Seq(Bytes)] :
        /\ g[0] = <<>>
        /\ \A i \in 1 .. Len(ss) : g[i] = g[i - 1] \o ss[i]
        /\ FlattenSeq(ss) = g[Len(ss)]
  <2> HIDE DEF Bytes
  <2> QED BY <1>3, FlattenSteps DEF Strings
<1>6. /\ g \in [0 .. Len(key) -> Strings] /\ Escape(key) = g[Len(key)]
      /\ \A i \in 1 .. Len(key) : g[i] = g[i - 1] \o Piece(key[i])
  BY <1>3, <1>4, <1>5 DEF Strings
<1>7. QED BY <1>5, <1>6

LEMMA EscapeIsClean ==
  ASSUME NEW key \in Strings
  PROVE  /\ Escape(key) \in Strings
         /\ \A i \in 1 .. Len(Escape(key)) :
              Escape(key)[i] \notin {Ampersand, QuestionMark, EqualSign}
<1> DEFINE n == Len(key)
           Clean(s) == \A i \in 1 .. Len(s) : s[i] \notin {Ampersand, QuestionMark, EqualSign}
<1>1. PICK g \in [0 .. n -> Strings] :
        /\ g[0] = <<>>
        /\ \A i \in 1 .. n : g[i] = g[i - 1] \o Piece(key[i])
        /\ Escape(key) = g[n]
  BY EscapeSteps
<1>2. n \in Nat /\ \A i \in 1 .. n : key[i] \in Bytes
  BY DEF Strings
<1>3. ASSUME NEW a \in Strings, NEW b \in Strings, Clean(a), Clean(b) PROVE Clean(a \o b)
  <2>1. /\ Len(a) \in Nat /\ Len(b) \in Nat /\ Len(a \o b) = Len(a) + Len(b)
        /\ \A i \in 1 .. Len(a) + Len(b) :
             (a \o b)[i] = IF i <= Len(a) THEN a[i] ELSE b[i - Len(a)]
    BY ConcatProperties DEF Strings
  <2>2. \A i \in 1 .. Len(a) + Len(b) : i \in 1 .. Len(a) \/ (~ (i <= Len(a)) /\ i - Len(a) \in 1 .. Len(b))
    BY <2>1
  <2>3. QED BY <1>3, <2>1, <2>2
<1> DEFINE T == {k \in Nat : k <= n => Clean(g[k])}
<1>4. 0 \in T
  BY <1>1
<1>5. ASSUME NEW k \in Nat, k \in T PROVE k + 1 \in T
  <2> SUFFICES ASSUME k + 1 <= n PROVE Clean(g[k + 1])
    OBVIOUS
  <2>1. k + 1 \in 1 .. n /\ (k + 1) - 1 = k /\ k \in 0 .. n /\ Clean(g[k])
    BY <1>2, <1>5
  <2>2. g[k + 1] = g[k] \o Piece(key[k + 1]) /\ g[k] \in Strings /\ key[k + 1] \in Bytes
    BY <1>1, <1>2, <2>1
  <2>3. Piece(key[k + 1]) \in Strings /\ Clean(Piece(key[k + 1]))
    BY <2>2, PieceIs
  <2> HIDE DEF Clean
  <2>4. QED BY <1>3, <2>1, <2>2, <2>3
<1>6. Nat \subseteq T
  <2> HIDE DEF T
  <2> QED BY <1>4, <1>5, EveryNatural
<1>7. n \in T /\ n <= n /\ g[n] \in Strings
  BY <1>1, <1>2, <1>6
<1>8. QED BY <1>1, <1>7

(* What is escaped by one crate is decoded to the same key by the other.   *)
LEMMA DecodeEscape ==
  ASSUME NEW key \in Strings
  PROVE  PercentDecode(Escape(key)) = key
<1> DEFINE n == Len(key)
           v == Escape(key)
<1>1. PICK g \in [0 .. n -> Strings] :
        /\ g[0] = <<>>
        /\ \A i \in 1 .. n : g[i] = g[i - 1] \o Piece(key[i])
        /\ v = g[n]
  BY EscapeSteps
<1>2. n \in Nat /\ \A i \in 1 .. n : key[i] \in Bytes
  BY DEF Strings
<1>3. v \in Strings /\ Len(v) \in Nat
  BY EscapeIsClean DEF Strings
<1>4. PICK f : (\A i \in 1 .. Len(v) + 1 : f[i] = Decoded(v, f, i)) /\ PercentDecode(v) = f[1]
  BY <1>3, DecodeSteps
<1> HIDE DEF v, n
<1> DEFINE Rest(k) == SubSeq(key, k + 1, n)
           T == {j \in Nat : j <= n =>
                  /\ \E rest \in Strings : v = g[n - j] \o rest
                  /\ f[Len(g[n - j]) + 1] = Rest(n - j)}
<1>5. 0 \in T
  <2>1. v = v \o <<>> /\ <<>> \in Strings
    BY <1>3, ConcatEmptySeq, EmptySeq DEF Strings
  <2>2. f[Len(v) + 1] = <<>>
    <3>1. Len(v) + 1 \in 1 .. Len(v) + 1 /\ Len(v) + 1 > Len(v)
      BY <1>3
    <3>2. f[Len(v) + 1] = Decoded(v, f, Len(v) + 1)
      BY <1>4, <3>1
    <3>3. QED BY <3>1, <3>2 DEF Decoded
  <2>3. Rest(n) = <<>>
    BY <1>2, SubSeqEmpty
  <2>4. n - 0 = n
    BY <1>2
  <2>5. QED BY <1>1, <2>1, <2>2, <2>3, <2>4
<1>6. ASSUME NEW j \in Nat, j \in T PROVE j + 1 \in T
  <2> SUFFICES ASSUME j + 1 <= n
               PROVE  /\ \E rest \in Strings : v = g[n - (j + 1)] \o rest
                      /\ f[Len(g[n - (j + 1)]) + 1] = Rest(n - (j + 1))
    OBVIOUS
  <2> DEFINE k == n - j
             p == Piece(key[k])
  <2>1. k \in 1 .. n /\ n - (j + 1) = k - 1 /\ k \in 0 .. n /\ k - 1 \in 0 .. n
    BY <1>2
  <2>2. PICK rest \in Strings : v = g[k] \o rest /\ f[Len(g[k]) + 1] = Rest(k)
    <3>1. j <= n
      BY <1>2
    <3>2. /\ \E rest \in Strings : v = g[n - j] \o rest
          /\ f[Len(g[n - j]) + 1] = Rest(n - j)
      BY <1>6, <3>1
    <3>3. QED BY <3>2
  <2> HIDE DEF k
  <2>3. g[k] = g[k - 1] \o p /\ g[k - 1] \in Strings /\ key[k] \in Bytes
    BY <1>1, <1>2, <2>1
  <2>4. /\ p \in Strings
        /\ \/ p = <<key[k]>> /\ key[k] \notin {Plus, Percent}
           \/ \E x, y \in DOMAIN FromHex :
                p = <<Percent, x, y>> /\ FromHex[x] * 16 + FromHex[y] = key[k]
    BY <2>3, PieceIs
  <2> HIDE DEF p
  <2> DEFINE a == g[k - 1]
             m == Len(a)
  <2>5. v = a \o (p \o rest) /\ p \o rest \in Strings
    <3>1. a \in Seq(Bytes) /\ p \in Seq(Bytes) /\ rest \in Seq(Bytes)
      BY <2>3, <2>4 DEF Strings
    <3>2. (a \o p) \o rest = a \o (p \o rest)
      <4> HIDE DEF a
      <4> QED BY <3>1, ConcatAssociative
    <3>3. v = (a \o p) \o rest
      BY <2>2, <2>3
    <3>4. p \o rest \in Seq(Bytes)
      BY <3>1, ConcatProperties
    <3>5. QED BY <3>2, <3>3, <3>4 DEF Strings
  <2>6. /\ m \in Nat /\ Len(v) = m + Len(p) + Len(rest) /\ Len(p) \in Nat /\ Len(rest) \in Nat
        /\ Len(g[k]) = m + Len(p)
        /\ \A i \in 1 .. Len(p) : v[m + i] = p[i]
    <3> DEFINE w == p \o rest
    <3>1. /\ a \in Seq(Bytes) /\ p \in Seq(Bytes) /\ rest \in Seq(Bytes) /\ w \in Seq(Bytes)
          /\ m \in Nat /\ Len(p) \in Nat /\ Len(rest) \in Nat
      BY <2>3, <2>4, <2>5 DEF Strings
    <3>2. Len(g[k]) = m + Len(p)
      BY <2>3, <3>1, ConcatProperties
    <3>3. Len(w) = Len(p) + Len(rest) /\ \A i \in 1 .. Len(p) : w[i] = p[i]
      BY <3>1
    <3> HIDE DEF w, a
    <3>4. Len(a \o w) = m + Len(w) /\ \A i \in 1 .. Len(w) : (a \o w)[m + i] = w[i]
      BY <3>1
    <3>5. v = a \o w
      BY <2>5 DEF w
    <3>6. \A i \in 1 .. Len(p) : i \in 1 .. Len(w)
      BY <3>1, <3>3
    <3>7. QED BY <3>1, <3>2, <3>3, <3>4, <3>5, <3>6
  <2> HIDE DEF a, m
  <2>7. f[m + 1] = Decoded(v, f, m + 1)
    BY <1>4, <2>6
  <2>8. Rest(k) # Malformed /\ Rest(k - 1) = <<key[k]>> \o Rest(k)
    <3> DEFINE rk == Rest(k)
               rj == Rest(k - 1)
               u == <<key[k]>> \o rk
    <3>1. /\ key \in Seq(Bytes) /\ Len(key) = n /\ n \in 0 .. Len(key) /\ k \in Nat \ {0} /\ n \in Nat
          /\ k + 1 \in Nat \ {0} /\ k + 1 <= n + 1 /\ (k - 1) + 1 \in Nat \ {0} /\ (k - 1) + 1 <= n + 1
      BY <1>2, <2>1 DEF Strings, n
    <3>2. /\ rk \in Seq(Bytes) /\ Len(rk) = n - (k + 1) + 1
          /\ \A i \in 1 .. n - (k + 1) + 1 : rk[i] = key[(k + 1) + i - 1]
      BY <3>1, Part
    <3>3. /\ rj \in Seq(Bytes) /\ Len(rj) = n - ((k - 1) + 1) + 1
          /\ \A i \in 1 .. n - ((k - 1) + 1) + 1 : rj[i] = key[((k - 1) + 1) + i - 1]
      BY <3>1, Part
    <3> HIDE DEF rk, rj
    <3>4. /\ u \in Seq(Bytes) /\ Len(u) = Len(rk) + 1 /\ u[1] = key[k]
          /\ \A i \in 1 .. Len(rk) : u[i + 1] = rk[i]
      <4> HIDE DEF Bytes
      <4> QED BY <2>3, <3>2
    <3>5. ASSUME NEW i \in 1 .. Len(rj) PROVE rj[i] = u[i]
      <4>1. i \in 1 .. n - (k - 1) /\ rj[i] = key[(k - 1) + i]
        BY <3>1, <3>3
      <4>2. CASE i = 1
        BY <3>1, <3>4, <4>1, <4>2
      <4>3. CASE i # 1
        <5>1. i - 1 \in 1 .. n - k /\ (i - 1) + 1 = i /\ k + (i - 1) = (k - 1) + i
          BY <3>1, <4>1, <4>3
        <5>2. rk[i - 1] = key[k + (i - 1)]
          BY <3>1, <3>2, <5>1
        <5>3. u[(i - 1) + 1] = rk[i - 1]
          BY <3>1, <3>2, <3>4, <5>1
        <5>4. QED BY <4>1, <5>1, <5>2, <5>3
      <4>4. QED BY <4>2, <4>3
    <3>6. rj = u
      <4> HIDE DEF u
      <4>1. Len(rj) = Len(u)
        BY <3>1, <3>2, <3>3, <3>4
      <4>2. QED BY <3>3, <3>4, <3>5, <4>1, SeqEqual
    <3>7. rk # Malformed
      <4>1. CASE Len(rk) = 0
        BY <4>1 DEF Malformed
      <4>2. CASE Len(rk) # 0
        <5>1. rk[1] \in Bytes
          BY <3>2, <4>2, ElementOfSeq, LenProperties
        <5>2. PICK x \in 0 .. 255 : x = rk[1]
          BY <5>1 DEF Bytes
        <5>4. x # -1
          OBVIOUS
        <5>3. QED BY <5>2, <5>4 DEF Malformed
      <4>3. QED BY <4>1, <4>2
    <3>8. QED BY <3>6, <3>7 DEF rk, rj
  <2>9. f[m + 1] = Push(key[k], Rest(k))
    <3>1. CASE p = <<key[k]>> /\ key[k] \notin {Plus, Percent}
      <4>1. Len(p) = 1 /\ v[m + 1] = key[k] /\ ~ (m + 1 > Len(v)) /\ m + 1 <= Len(v)
        BY <2>6, <3>1
      <4>2. f[(m + 1) + 1] = Rest(k)
        BY <2>2, <2>6, <4>1
      <4>3. QED BY <2>7, <3>1, <4>1, <4>2 DEF Decoded
    <3>2. ASSUME NEW x \in DOMAIN FromHex, NEW y \in DOMAIN FromHex,
                 p = <<Percent, x, y>>, FromHex[x] * 16 + FromHex[y] = key[k]
          PROVE  f[m + 1] = Push(key[k], Rest(k))
      <4>1. /\ Len(p) = 3 /\ v[m + 1] = Percent /\ v[(m + 1) + 1] = x /\ v[(m + 1) + 2] = y
            /\ ~ (m + 1 > Len(v)) /\ m + 1 <= Len(v) /\ (m + 1) + 2 <= Len(v)
        <5>1. Len(p) = 3 /\ p[1] = Percent /\ p[2] = x /\ p[3] = y
          BY <3>2
        <5>2. /\ m \in Nat /\ (m + 1) + 1 = m + 2 /\ (m + 1) + 2 = m + 3
              /\ 1 \in 1 .. Len(p) /\ 2 \in 1 .. Len(p) /\ 3 \in 1 .. Len(p)
          BY <2>6, <5>1
        <5>3. v[m + 1] = p[1] /\ v[m + 2] = p[2] /\ v[m + 3] = p[3]
          BY <2>6, <5>2
        <5>4. QED BY <2>6, <5>1, <5>2, <5>3
      <4>2. f[(m + 1) + 3] = Rest(k)
        BY <2>2, <2>6, <4>1
      <4>3. Escaped(v, m + 1)
        BY <3>2, <4>1 DEF Escaped
      <4>4. Percent # Plus
        BY DEF Percent, Plus
      <4>5. QED BY <2>7, <3>2, <4>1, <4>2, <4>3, <4>4 DEF Decoded
    <3>3. QED BY <2>4, <3>1, <3>2
  <2>10. f[m + 1] = Rest(k - 1)
    BY <2>8, <2>9 DEF Push
  <2>11. QED BY <2>1, <2>5, <2>10 DEF a, m
<1>7. Nat \subseteq T
  <2> HIDE DEF T
  <2> QED BY <1>5, <1>6, EveryNatural
<1>8. f[1] = Rest(0)
  <2>1. n \in T
    <3> HIDE DEF T
    <3> QED BY <1>2, <1>7
  <2>2. n <= n /\ n - n = 0 /\ Len(<<>>) + 1 = 1
    BY <1>2
  <2>3. f[Len(g[n - n]) + 1] = Rest(n - n)
    BY <2>1, <2>2
  <2>4. QED BY <1>1, <2>2, <2>3
<1>9. Rest(0) = key
  BY <1>2 DEF Strings, n
<1>10. QED BY <1>4, <1>8, <1>9 DEF v
-----------------------------------------------------------------------------
(* Queries.                                                                *)

LEMMA Separators ==
  /\ Ampersand \in Bytes /\ QuestionMark \in Bytes /\ EqualSign \in Bytes
  /\ KeyQueryParam \in Strings /\ KeyQueryParam # <<>>
  /\ \A i \in 1 .. Len(KeyQueryParam) :
       KeyQueryParam[i] \notin {Ampersand, QuestionMark, EqualSign}
  /\ Ampersand # EqualSign
<1>1. Ampersand \in Bytes /\ QuestionMark \in Bytes /\ EqualSign \in Bytes /\ Ampersand # EqualSign
  BY DEF Ampersand, QuestionMark, EqualSign, Bytes
<1>2. 107 \in Bytes /\ 101 \in Bytes /\ 121 \in Bytes
  BY DEF Bytes
<1>3. KeyQueryParam \in Strings /\ KeyQueryParam # <<>>
  <2> HIDE DEF Bytes
  <2> QED BY <1>2 DEF KeyQueryParam, Strings
<1>4. \A i \in 1 .. Len(KeyQueryParam) : KeyQueryParam[i] \in {107, 101, 121}
  BY DEF KeyQueryParam
<1>5. {107, 101, 121} \cap {Ampersand, QuestionMark, EqualSign} = {}
  BY DEF Ampersand, QuestionMark, EqualSign
<1>6. QED BY <1>1, <1>3, <1>4, <1>5

LEMMA PartOfConcat ==
  ASSUME NEW S, NEW s \in Seq(S), NEW u \in Seq(S), NEW i \in 1 .. Len(s) + 1
  PROVE  SubSeq(s \o u, i, Len(s \o u)) = SubSeq(s, i, Len(s)) \o u
<1> DEFINE v == s \o u
           a == SubSeq(v, i, Len(v))
           b == SubSeq(s, i, Len(s))
           c == b \o u
           n == Len(s)
           m == Len(u)
<1>1. /\ v \in Seq(S) /\ n \in Nat /\ m \in Nat /\ Len(v) = n + m
      /\ \A k \in 1 .. n + m : v[k] = IF k <= n THEN s[k] ELSE u[k - n]
  BY ConcatProperties, LenProperties
<1>2. /\ i \in Nat \ {0} /\ n \in 0 .. Len(s) /\ i <= n + 1
      /\ Len(v) \in 0 .. Len(v) /\ i <= Len(v) + 1
  BY <1>1
<1> HIDE DEF n, m, v
<1>3. /\ a \in Seq(S) /\ Len(a) = Len(v) - i + 1
      /\ \A k \in 1 .. Len(v) - i + 1 : a[k] = v[i + k - 1]
  BY <1>1, <1>2, Part
<1>4. /\ b \in Seq(S) /\ Len(b) = n - i + 1
      /\ \A k \in 1 .. n - i + 1 : b[k] = s[i + k - 1]
  BY <1>1, <1>2, Part DEF n
<1> HIDE DEF a, b
<1>5. /\ c \in Seq(S) /\ Len(c) = Len(b) + m
      /\ \A k \in 1 .. Len(b) + m : c[k] = IF k <= Len(b) THEN b[k] ELSE u[k - Len(b)]
  BY <1>4, ConcatProperties DEF m
<1> HIDE DEF c
<1>6. Len(a) = Len(c)
  BY <1>1, <1>2, <1>3, <1>4, <1>5
<1>7. ASSUME NEW k \in 1 .. Len(a) PROVE a[k] = c[k]
  <2>1. k \in Nat /\ i + k - 1 \in 1 .. n + m /\ k \in 1 .. Len(b) + m /\ a[k] = v[i + k - 1]
    BY <1>1, <1>2, <1>3, <1>4
  <2>2. CASE k <= Len(b)
    <3>1. i + k - 1 <= n /\ k \in 1 .. n - i + 1
      BY <1>1, <1>2, <1>4, <2>1, <2>2
    <3>2. v[i + k - 1] = s[i + k - 1] /\ b[k] = s[i + k - 1] /\ c[k] = b[k]
      BY <1>1, <1>4, <1>5, <2>1, <2>2, <3>1
    <3>3. QED BY <2>1, <3>2
  <2>3. CASE ~ (k <= Len(b))
    <3>1. ~ (i + k - 1 <= n) /\ (i + k - 1) - n = k - Len(b)
      BY <1>1, <1>2, <1>4, <2>1, <2>3
    <3>2. v[i + k - 1] = u[(i + k - 1) - n] /\ c[k] = u[k - Len(b)]
      BY <1>1, <1>5, <2>1, <2>3, <3>1
    <3>3. QED BY <2>1, <3>1, <3>2
  <2>4. QED BY <2>2, <2>3
<1>8. a = c
  BY <1>3, <1>5, <1>6, <1>7, SeqEqual
<1>9. QED BY <1>8 DEF a, b, c, v, n

LEMMA BeforeInConcat ==
  ASSUME NEW t \in Strings, NEW w \in Strings, NEW c \in Bytes
  PROVE  Before(t \o <<c>> \o w, c) = Before(t, c)
<1>1. CASE \E k \in 1 .. Len(t) : t[k] = c
  <2> DEFINE a == Before(t, c)
             b == After(t, c)
             r == b \o <<c>> \o w
  <2>1. /\ a \in Strings /\ b \in Strings /\ t = a \o <<c>> \o b
        /\ \A i \in 1 .. Len(a) : a[i] # c
    BY <1>1, SplitApart
  <2> HIDE DEF a, b
  <2>2. a \in Seq(Bytes) /\ b \in Seq(Bytes) /\ <<c>> \in Seq(Bytes) /\ w \in Seq(Bytes)
    BY <2>1 DEF Strings
  <2>3. /\ a \o <<c>> \in Seq(Bytes) /\ b \o <<c>> \in Seq(Bytes)
        /\ (a \o <<c>>) \o b \in Seq(Bytes) /\ r \in Seq(Bytes)
    BY <2>2, ConcatProperties
  <2>4. ((a \o <<c>>) \o b) \o (<<c>> \o w) = (((a \o <<c>>) \o b) \o <<c>>) \o w
    BY <2>2, <2>3, ConcatAssociative, SMTT(30)
  <2>5. ((a \o <<c>>) \o b) \o <<c>> = (a \o <<c>>) \o (b \o <<c>>)
    BY <2>2, <2>3, ConcatAssociative, SMTT(30)
  <2>6. ((a \o <<c>>) \o (b \o <<c>>)) \o w = (a \o <<c>>) \o ((b \o <<c>>) \o w)
    BY <2>2, <2>3, ConcatAssociative, SMTT(30)
  <2>7. (t \o <<c>>) \o w = (a \o <<c>>) \o r
    BY <2>1, <2>5, <2>6
  <2>8. r \in Strings
    BY <2>3 DEF Strings
  <2> HIDE DEF r
  <2>9. Before(a \o <<c>> \o r, c) = a
    BY <2>1, <2>8, SplitAtFirst
  <2>10. QED BY <2>7, <2>9 DEF a
<1>2. CASE \A k \in 1 .. Len(t) : t[k] # c
  <2>1. Before(t \o <<c>> \o w, c) = t
    BY <1>2, SplitAtFirst
  <2>2. Before(t, c) = t
    BY <1>2, SplitWithout
  <2>3. QED BY <2>1, <2>2
<1>3. QED BY <1>1, <1>2

(* A parameter at the end of a query is one parameter more.                *)
Starts(query) == {1} \cup {i + 1 : i \in {j \in DOMAIN query : query[j] = Ampersand}}

LEMMA PairsOfQuery ==
  ASSUME NEW query
  PROVE  /\ DOMAIN Pairs(query) = Starts(query)
         /\ \A i \in Starts(query) :
              Pairs(query)[i] = Before(SubSeq(query, i, Len(query)), Ampersand)
  BY DEF Pairs, Starts

LEMMA LastPair ==
  ASSUME NEW q \in Strings, NEW w \in Strings, \A i \in 1 .. Len(w) : w[i] # Ampersand
  PROVE  LET r == q \o <<Ampersand>> \o w
         IN /\ DOMAIN Pairs(r) = DOMAIN Pairs(q) \cup {Len(q) + 2}
            /\ \A i \in DOMAIN Pairs(q) : Pairs(r)[i] = Pairs(q)[i]
            /\ Pairs(r)[Len(q) + 2] = w
            /\ Len(q) + 2 \notin DOMAIN Pairs(q)
<1> DEFINE c == Ampersand
           r == q \o <<c>> \o w
           n == Len(q)
<1>1. c \in Bytes
  BY Separators
<1>2. q \in Seq(Bytes) /\ w \in Seq(Bytes) /\ <<c>> \in Seq(Bytes) /\ n \in Nat /\ Len(w) \in Nat
  BY <1>1 DEF Strings
<1>3. /\ r \in Seq(Bytes) /\ Len(r) = n + 1 + Len(w)
      /\ \A i \in 1 .. n : r[i] = q[i]
      /\ r[n + 1] = c
  <2> HIDE DEF Bytes, c
  <2> QED BY <1>2
<1>4. \A i \in 1 .. Len(w) : r[n + 1 + i] = w[i]
  <2> HIDE DEF Bytes, c
  <2> QED BY <1>2
<1>5. DOMAIN q = 1 .. n /\ DOMAIN r = 1 .. n + 1 + Len(w)
  BY <1>2, <1>3
<1>6. r = q \o (<<c>> \o w) /\ <<c>> \o w \in Seq(Bytes)
  <2> HIDE DEF c
  <2> QED BY <1>2, ConcatAssociative, ConcatProperties
<1> HIDE DEF c, r, n
<1>7. \A j \in 1 .. n + 1 + Len(w) : r[j] = c <=> (j \in 1 .. n /\ q[j] = c) \/ j = n + 1
  <2> SUFFICES ASSUME NEW j \in 1 .. n + 1 + Len(w)
               PROVE  r[j] = c <=> (j \in 1 .. n /\ q[j] = c) \/ j = n + 1
    OBVIOUS
  <2>1. CASE j \in 1 .. n
    BY <1>2, <1>3, <2>1
  <2>2. CASE j = n + 1
    BY <1>3, <2>2
  <2>3. CASE j > n + 1
    <3>1. j - (n + 1) \in 1 .. Len(w) /\ n + 1 + (j - (n + 1)) = j
      BY <1>2, <2>3
    <3>2. r[j] = w[j - (n + 1)]
      BY <1>4, <3>1
    <3>3. QED BY <1>2, <2>3, <3>1, <3>2 DEF c
  <2>4. QED BY <1>2, <2>1, <2>2, <2>3
<1>8. Starts(r) = Starts(q) \cup {n + 2}
  <2>1. {j \in DOMAIN r : r[j] = c} = {j \in DOMAIN q : q[j] = c} \cup {n + 1}
    BY <1>2, <1>5, <1>7
  <2>2. (n + 1) + 1 = n + 2
    BY <1>2
  <2>3. QED BY <2>1, <2>2 DEF Starts, c
<1>9. \A i \in Starts(q) : i \in 1 .. n + 1
  BY <1>2, <1>5 DEF Starts
<1>10. ASSUME NEW i \in Starts(q) PROVE Pairs(r)[i] = Pairs(q)[i]
  <2> DEFINE t == SubSeq(q, i, Len(q))
  <2>1. i \in 1 .. Len(q) + 1
    BY <1>9 DEF n
  <2>2. SubSeq(r, i, Len(r)) = t \o (<<c>> \o w)
    BY <1>2, <1>6, <2>1, PartOfConcat
  <2>3. t \in Seq(Bytes)
    <3>1. i \in Nat \ {0} /\ Len(q) \in 0 .. Len(q) /\ i <= Len(q) + 1
      BY <1>2, <2>1 DEF n
    <3>2. QED BY <1>2, <3>1, Part
  <2> HIDE DEF t
  <2>4. t \o (<<c>> \o w) = (t \o <<c>>) \o w
    BY <1>2, <2>3, ConcatAssociative, SMTT(30)
  <2>5. Before((t \o <<c>>) \o w, c) = Before(t, c)
    BY <1>1, <1>2, <2>3, BeforeInConcat DEF Strings
  <2>6. Pairs(r)[i] = Before(SubSeq(r, i, Len(r)), c)
    BY <1>8, PairsOfQuery DEF c
  <2>7. Pairs(q)[i] = Before(t, c)
    BY PairsOfQuery DEF c, t
  <2>8. QED BY <2>2, <2>4, <2>5, <2>6, <2>7
<1>11. Pairs(r)[n + 2] = w
  <2>1. SubSeq(r, n + 2, Len(r)) = w
    <3> DEFINE t == SubSeq(r, n + 2, Len(r))
    <3>1. n + 2 \in Nat \ {0} /\ Len(r) \in 0 .. Len(r) /\ n + 2 <= Len(r) + 1
      BY <1>2, <1>3
    <3>2. /\ t \in Seq(Bytes) /\ Len(t) = Len(r) - (n + 2) + 1
          /\ \A k \in 1 .. Len(r) - (n + 2) + 1 : t[k] = r[(n + 2) + k - 1]
      BY <1>3, <3>1, Part, SMTT(30)
    <3> HIDE DEF t
    <3>3. Len(t) = Len(w)
      BY <1>2, <1>3, <3>2
    <3>4. ASSUME NEW k \in 1 .. Len(w) PROVE t[k] = w[k]
      <4>1. k \in 1 .. Len(r) - (n + 2) + 1 /\ (n + 2) + k - 1 = n + 1 + k
        BY <1>2, <1>3
      <4>2. QED BY <1>4, <3>2, <4>1
    <3>5. t = w
      BY <1>2, <3>2, <3>3, <3>4, SeqEqual
    <3>6. QED BY <3>5 DEF t
  <2>2. Before(w, c) = w
    BY SplitWithout DEF c
  <2>3. QED BY <1>8, <2>1, <2>2, PairsOfQuery DEF c
<1>3b. n + 2 \notin Starts(q)
  BY <1>2, <1>9
<1>13. QED BY <1>8, <1>10, <1>11, <1>3b, PairsOfQuery DEF r, n, c

LEMMA OnePair ==
  ASSUME NEW w \in Strings, \A i \in 1 .. Len(w) : w[i] # Ampersand
  PROVE  DOMAIN Pairs(w) = {1} /\ Pairs(w)[1] = w
<1>1. DOMAIN w = 1 .. Len(w)
  BY DEF Strings
<1>2. Starts(w) = {1}
  BY <1>1 DEF Starts
<1>3. SubSeq(w, 1, Len(w)) = w
  BY DEF Strings
<1>4. Before(w, Ampersand) = w
  BY SplitWithout
<1>5. QED BY <1>2, <1>3, <1>4, PairsOfQuery

Cat(a, b) == a \o b

LEMMA CatThree ==
  ASSUME NEW S, NEW a \in Seq(S), NEW b \in Seq(S), NEW c \in Seq(S)
  PROVE  Cat(Cat(a, b), c) = Cat(a, Cat(b, c))
  BY ConcatAssociative DEF Cat

LEMMA ConcatFour ==
  ASSUME NEW S, NEW a \in Seq(S), NEW b \in Seq(S), NEW c \in Seq(S), NEW d \in Seq(S)
  PROVE  Cat(Cat(Cat(a, b), c), d) = Cat(a, Cat(Cat(b, c), d))
<1>1. Cat(b, c) \in Seq(S)
  BY ConcatProperties DEF Cat
<1>2. Cat(Cat(a, b), c) = Cat(a, Cat(b, c))
  BY CatThree
<1>3. Cat(Cat(a, Cat(b, c)), d) = Cat(a, Cat(Cat(b, c), d))
  BY <1>1, CatThree
<1>4. QED BY <1>2, <1>3

(* What ws_url_with_key makes of a path: the parameters of the path, and   *)
(* one more, the key.                                                      *)
LEMMA UrlOfKey ==
  ASSUME NEW path \in Strings, NEW key \in Strings, key # NoKey
  PROVE  LET built == WsUrlWithKey(path, key)
             pairs == Pairs(After(built, QuestionMark))
         IN /\ Before(built, QuestionMark) = Before(path, QuestionMark)
            /\ \E n \in Nat : /\ Keyed(pairs) = Keyed(Pairs(After(path, QuestionMark))) \cup {n}
                              /\ After(pairs[n], EqualSign) = Escape(key)
<1> DEFINE K == KeyQueryParam
           E == Escape(key)
           w == K \o <<EqualSign>> \o E
           built == WsUrlWithKey(path, key)
           Goal == /\ Before(built, QuestionMark) = Before(path, QuestionMark)
                   /\ \E n \in Nat :
                        /\ Keyed(Pairs(After(built, QuestionMark)))
                             = Keyed(Pairs(After(path, QuestionMark))) \cup {n}
                        /\ After(Pairs(After(built, QuestionMark))[n], EqualSign) = E
<1>1. /\ K \in Strings /\ E \in Strings /\ EqualSign \in Bytes /\ Ampersand \in Bytes
      /\ QuestionMark \in Bytes /\ K # <<>>
      /\ \A i \in 1 .. Len(K) : K[i] \notin {Ampersand, QuestionMark, EqualSign}
      /\ \A i \in 1 .. Len(E) : E[i] \notin {Ampersand, QuestionMark, EqualSign}
  BY Separators, EscapeIsClean
<1> HIDE DEF K, E
<1>2. w \in Strings /\ Before(w, EqualSign) = K /\ After(w, EqualSign) = E
  BY <1>1, SplitAtFirst
<1>3. \A i \in 1 .. Len(w) : w[i] # Ampersand
  <2>1. /\ K \in Seq(Bytes) /\ E \in Seq(Bytes) /\ <<EqualSign>> \in Seq(Bytes)
        /\ Len(K) \in Nat /\ Len(E) \in Nat /\ K \o <<EqualSign>> \in Seq(Bytes)
    BY <1>1 DEF Strings
  <2>2. /\ Len(w) = Len(K) + 1 + Len(E)
        /\ \A i \in 1 .. Len(K) + 1 + Len(E) :
             w[i] = IF i <= Len(K) + 1 THEN (K \o <<EqualSign>>)[i] ELSE E[i - (Len(K) + 1)]
    <3>1. Len(K \o <<EqualSign>>) = Len(K) + 1
      BY <2>1
    <3>2. QED BY <2>1, <3>1, ConcatProperties
  <2>3. \A i \in 1 .. Len(K) : (K \o <<EqualSign>>)[i] = K[i]
    BY <2>1
  <2>4. (K \o <<EqualSign>>)[Len(K) + 1] = EqualSign
    BY <2>1
  <2> HIDE DEF w
  <2>5. ASSUME NEW i \in 1 .. Len(w) PROVE w[i] # Ampersand
    <3>1. i \in 1 .. Len(K) + 1 + Len(E)
      BY <2>2
    <3>2. CASE i \in 1 .. Len(K)
      <4>1. w[i] = K[i]
        BY <2>1, <2>2, <2>3, <3>1, <3>2
      <4>2. QED BY <1>1, <3>2, <4>1
    <3>3. CASE i = Len(K) + 1
      <4>1. w[i] = EqualSign
        BY <2>1, <2>2, <2>4, <3>1, <3>3
      <4>2. QED BY <4>1, Separators
    <3>4. CASE i > Len(K) + 1
      <4>1. i - (Len(K) + 1) \in 1 .. Len(E) /\ ~ (i <= Len(K) + 1)
        BY <2>1, <3>1, <3>4
      <4>2. w[i] = E[i - (Len(K) + 1)]
        BY <2>2, <3>1, <4>1
      <4>3. QED BY <1>1, <4>1, <4>2
    <3>5. QED BY <2>1, <3>1, <3>2, <3>3, <3>4
  <2>6. QED BY <2>5
<1>4. ASSUME NEW c \in Bytes PROVE path \o <<c>> \o K \o <<EqualSign>> \o E = path \o <<c>> \o w
  <2>1. /\ path \in Seq(Bytes) /\ <<c>> \in Seq(Bytes) /\ K \in Seq(Bytes)
        /\ <<EqualSign>> \in Seq(Bytes) /\ E \in Seq(Bytes)
    BY <1>1 DEF Strings
  <2> DEFINE a == path \o <<c>>
             e == <<EqualSign>>
  <2>2. a \in Seq(Bytes) /\ e \in Seq(Bytes) /\ K \o e \in Seq(Bytes)
    BY <2>1, ConcatProperties
  <2> HIDE DEF a, e
  <2>5. ((a \o K) \o e) \o E = a \o ((K \o e) \o E)
    <3>1. Cat(Cat(Cat(a, K), e), E) = Cat(a, Cat(Cat(K, e), E))
      BY <2>1, <2>2, ConcatFour
    <3>2. QED BY <3>1, Zenon DEF Cat
  <2>6. QED BY <2>5 DEF a, e
<1> HIDE DEF w, built, Goal
<1>5. ASSUME NEW q \in Strings
      PROVE  LET r == q \o <<Ampersand>> \o w
             IN /\ Keyed(Pairs(r)) = Keyed(Pairs(q)) \cup {Len(q) + 2}
                /\ After(Pairs(r)[Len(q) + 2], EqualSign) = E
  <2> DEFINE r == q \o <<Ampersand>> \o w
  <2>1. /\ DOMAIN Pairs(r) = DOMAIN Pairs(q) \cup {Len(q) + 2}
        /\ \A i \in DOMAIN Pairs(q) : Pairs(r)[i] = Pairs(q)[i]
        /\ Pairs(r)[Len(q) + 2] = w
        /\ Len(q) + 2 \notin DOMAIN Pairs(q)
    BY <1>2, <1>3, LastPair
  <2> HIDE DEF r
  <2>2. Keyed(Pairs(r)) = Keyed(Pairs(q)) \cup {Len(q) + 2}
    BY <1>2, <2>1 DEF Keyed, K
  <2>3. QED BY <1>2, <2>1, <2>2 DEF r
<1>6. DOMAIN path = 1 .. Len(path)
  BY DEF Strings
<1>7. ASSUME NEW k \in 1 .. Len(path), path[k] = QuestionMark PROVE Goal
  <2> DEFINE a == Before(path, QuestionMark)
             q == After(path, QuestionMark)
             r == q \o <<Ampersand>> \o w
  <2>1. /\ a \in Strings /\ q \in Strings /\ path = a \o <<QuestionMark>> \o q
        /\ \A i \in 1 .. Len(a) : a[i] # QuestionMark
    BY <1>1, <1>7, SplitApart
  <2>2. built = path \o <<Ampersand>> \o w
    <3>1. QuestionMark \in Range(path)
      BY <1>6, <1>7 DEF Range
    <3>2. built = path \o <<Ampersand>> \o K \o <<EqualSign>> \o E
      BY <3>1 DEF built, WsUrlWithKey, K, E
    <3>3. QED BY <1>1, <1>4, <3>2
  <2> HIDE DEF a, q
  <2>3. built = a \o <<QuestionMark>> \o r /\ r \in Strings
    <3> DEFINE b == a \o <<QuestionMark>>
               e == <<Ampersand>>
    <3>1. b \in Seq(Bytes) /\ q \in Seq(Bytes) /\ e \in Seq(Bytes) /\ w \in Seq(Bytes)
      BY <1>1, <1>2, <2>1 DEF Strings
    <3>2. q \o e \in Seq(Bytes) /\ (q \o e) \o w \in Seq(Bytes)
      BY <3>1, ConcatProperties
    <3> HIDE DEF b, e
    <3>4. ((b \o q) \o e) \o w = b \o ((q \o e) \o w)
      <4>1. Cat(Cat(Cat(b, q), e), w) = Cat(b, Cat(Cat(q, e), w))
        BY <3>1, ConcatFour
      <4>2. QED BY <4>1, Zenon DEF Cat
    <3>5. QED BY <2>1, <2>2, <3>2, <3>4 DEF b, e, Strings
  <2> HIDE DEF r
  <2>4. Before(built, QuestionMark) = a /\ After(built, QuestionMark) = r
    BY <1>1, <2>1, <2>3, SplitAtFirst
  <2>5. Keyed(Pairs(r)) = Keyed(Pairs(q)) \cup {Len(q) + 2} /\ After(Pairs(r)[Len(q) + 2], EqualSign) = E
    BY <1>5, <2>1 DEF r
  <2>6. Len(q) + 2 \in Nat
    BY <2>1 DEF Strings
  <2>7. \E n \in Nat : /\ Keyed(Pairs(r)) = Keyed(Pairs(q)) \cup {n}
                      /\ After(Pairs(r)[n], EqualSign) = E
    BY <2>5, <2>6, Zenon
  <2>8. QED BY <2>4, <2>7, Zenon DEF Goal, a, q
<1>8. ASSUME \A k \in 1 .. Len(path) : path[k] # QuestionMark PROVE Goal
  <2>1. built = path \o <<QuestionMark>> \o w
    <3>1. QuestionMark \notin Range(path)
      BY <1>6, <1>8 DEF Range
    <3>2. built = path \o <<QuestionMark>> \o K \o <<EqualSign>> \o E
      BY <3>1 DEF built, WsUrlWithKey, K, E
    <3>3. QED BY <1>1, <1>4, <3>2
  <2>2. Before(built, QuestionMark) = path /\ After(built, QuestionMark) = w
    BY <1>1, <1>2, <1>8, <2>1, SplitAtFirst
  <2>3. Before(path, QuestionMark) = path /\ After(path, QuestionMark) = <<>>
    BY <1>8, SplitWithout
  <2>4. Keyed(Pairs(<<>>)) = {}
    <3>1. <<>> \in Strings
      BY EmptySeq DEF Strings
    <3>2. DOMAIN Pairs(<<>>) = {1} /\ Pairs(<<>>)[1] = <<>>
      BY <3>1, OnePair
    <3>3. Before(<<>>, EqualSign) = <<>>
      BY <3>1, SplitWithout
    <3>4. QED BY <1>1, <3>2, <3>3 DEF Keyed, K
  <2>5. Keyed(Pairs(w)) = {1} /\ Pairs(w)[1] = w
    <3>1. DOMAIN Pairs(w) = {1} /\ Pairs(w)[1] = w
      BY <1>2, <1>3, OnePair
    <3>2. QED BY <1>2, <3>1 DEF Keyed, K
  <2>6. Keyed(Pairs(w)) = Keyed(Pairs(<<>>)) \cup {1} /\ After(Pairs(w)[1], EqualSign) = E
    BY <1>2, <2>4, <2>5
  <2>7. \E n \in Nat : /\ Keyed(Pairs(w)) = Keyed(Pairs(<<>>)) \cup {n}
                      /\ After(Pairs(w)[n], EqualSign) = E
    BY <2>6
  <2>8. QED BY <2>2, <2>3, <2>7, Zenon DEF Goal
<1>9. Goal
  BY <1>7, <1>8
<1>10. QED BY <1>9 DEF Goal, built, E

(* The key goes through the URL.                                           *)
LEMMA KeyRoundTrip ==
  ASSUME NEW path \in Strings, NEW key \in Strings, ~WsUrlLogFields(path).hasKey
  PROVE  ClientKeyFromUri(WsUrlWithKey(path, key)) = IF Acceptable(key) THEN key ELSE NoKey
<1> DEFINE built == WsUrlWithKey(path, key)
           pairs == Pairs(After(built, QuestionMark))
<1>1. Keyed(Pairs(After(path, QuestionMark))) = {}
  BY DEF WsUrlLogFields
<1>2. CASE key = NoKey
  <2>1. built = path
    BY <1>2 DEF WsUrlWithKey
  <2>2. QED BY <1>1, <1>2, <2>1 DEF ClientKeyFromUri
<1>3. CASE key # NoKey
  <2>1. PICK n \in Nat : Keyed(pairs) = {n} /\ After(pairs[n], EqualSign) = Escape(key)
    BY <1>1, <1>3, UrlOfKey
  <2> HIDE DEF pairs
  <2>2. Min({n}) = n
    BY MinExists
  <2>3. PercentDecode(After(pairs[Min(Keyed(pairs))], EqualSign)) = key
    BY <2>1, <2>2, DecodeEscape
  <2>4. Keyed(pairs) # {}
    BY <2>1
  <2>5. QED BY <2>3, <2>4, Zenon DEF ClientKeyFromUri, pairs
<1>4. QED BY <1>2, <1>3

(* What is logged of a URL, the one that carries a key and the one that    *)
(* does not.                                                               *)
LEMMA LoggedUrl ==
  ASSUME NEW path \in Strings, NEW key \in Strings
  PROVE  LET logged == WsUrlLogFields(WsUrlWithKey(path, key))
         IN /\ logged.path = Before(path, QuestionMark)
            /\ logged.hasKey <=> key # NoKey \/ WsUrlLogFields(path).hasKey
<1>1. CASE key = NoKey
  BY <1>1 DEF WsUrlWithKey, WsUrlLogFields
<1>2. CASE key # NoKey
  <2> DEFINE built == WsUrlWithKey(path, key)
             pairs == Pairs(After(built, QuestionMark))
  <2>1. Before(built, QuestionMark) = Before(path, QuestionMark)
    BY <1>2, UrlOfKey
  <2>2. PICK n \in Nat : Keyed(pairs) = Keyed(Pairs(After(path, QuestionMark))) \cup {n}
    BY <1>2, UrlOfKey
  <2> HIDE DEF built
  <2>3. Keyed(pairs) # {}
    BY <2>2
  <2>4. QED BY <1>2, <2>1, <2>3 DEF WsUrlLogFields, built
<1>3. QED BY <1>1, <1>2

LEMMA UnkeyedUrl ==
  ASSUME NEW u
  PROVE  ClientKeyFromUri(u) # NoKey => WsUrlLogFields(u).hasKey
  BY DEF ClientKeyFromUri, WsUrlLogFields
-----------------------------------------------------------------------------
(* The invariant: what each stage has found out, from the configuration of *)
(* the two sides alone.                                                    *)

Read == ClientKeyFromUri(WsUrlWithKey(client.path, client.key))

(* The filter that resolve_subscribe_key lets through.                     *)
Resolved ==
  /\ clientKey = Read
  /\ IF server.auth = "none"
     THEN keyFilter = clientKey
     ELSE /\ keyFilter = server.userKey /\ keyFilter # NoKey
          /\ clientKey \in {NoKey, server.userKey}

Progress ==
  /\ client \in [path : Paths, key : Keys]
  /\ server \in Servers
  /\ IF stage = "client" THEN url = <<>> ELSE url = WsUrlWithKey(client.path, client.key)
  /\ stage \in {"client", "extract", "origin", "key"} => clientKey = NoKey
  /\ stage = "resolve" => clientKey = Read
  /\ clientKey \in {NoKey, Read}
  /\ stage = "fanout" => Resolved
  /\ Admitted => Resolved
  /\ keyFilter \in {NoKey, server.userKey, clientKey}

LEMMA ProgressHolds == Spec => []Progress
<1>1. Init => Progress
  BY DEF Init, Progress, Admitted
<1>2. Progress /\ [Next]_vars => Progress'
  <2> SUFFICES ASSUME Progress, [Next]_vars PROVE Progress'
    OBVIOUS
  <2> USE DEF Progress, Resolved, Read, Admitted, Answer, Continue
  <2>1. CASE Connect
    BY <2>1 DEF Connect
  <2>2. CASE Extract
    BY <2>2 DEF Extract
  <2>3. CASE CheckOrigin
    BY <2>3 DEF CheckOrigin
  <2>4. CASE ReadKey
    BY <2>4 DEF ReadKey
  <2>5. CASE ResolveKey
    BY <2>5 DEF ResolveKey, ResolveUser, Servers
  <2>6. CASE RespondUpgrade
    BY <2>6 DEF RespondUpgrade, SyncedWsHandler, Panic
  <2>7. CASE UNCHANGED vars
    BY <2>7 DEF vars
  <2>8. QED BY <2>1, <2>2, <2>3, <2>4, <2>5, <2>6, <2>7 DEF Next
<1>3. QED BY <1>1, <1>2, PTL DEF Spec

LEMMA Configured ==
  ASSUME Progress
  PROVE  client.path \in Strings /\ client.key \in Strings
  BY AdmissionAssumption DEF Progress, Strings

(* The key a server reads is the key its client was configured with, byte  *)
(* for byte, or none if the server does not accept such keys: for every    *)
(* path without a key of its own and every key.                            *)
THEOREM KeysSurviveTheUrl == Spec => []KeySurvivesTheUrl
<1>1. Progress => KeySurvivesTheUrl
  BY Configured, KeyRoundTrip DEF Progress, Resolved, Read, KeySurvivesTheUrl, PathHasKey
<1>2. QED BY <1>1, ProgressHolds, PTL

(* An upgraded connection of a user route has its own user's filter, and   *)
(* one of an open route the filter it asked for or none.                   *)
THEOREM AdmissionKeepsScope == Spec => []AdmittedToOwnScope
<1>1. Progress => AdmittedToOwnScope
  <2> SUFFICES ASSUME Progress, Admitted, ~PathHasKey PROVE AdmittedToOwnScope
    BY DEF Progress, Resolved, AdmittedToOwnScope, Servers
  <2>1. Resolved /\ clientKey = IF Acceptable(client.key) THEN client.key ELSE NoKey
    BY Configured, KeyRoundTrip DEF Progress, Resolved, Read, PathHasKey
  <2>2. server.auth \in {"none", "user"}
    BY DEF Progress, Servers, AuthModes
  <2>3. QED BY <2>1, <2>2 DEF Resolved, AdmittedToOwnScope
<1>2. QED BY <1>1, ProgressHolds, PTL
-----------------------------------------------------------------------------
(* What is logged of a key.                                                *)

Replaced == <<239, 191, 189>>

(* What the log has in the place of the byte at i.                         *)
ShownAt(key, i) ==
  CASE C0At(key, i) \/ C1At(key, i) -> Replaced
    [] i > 1 /\ C1At(key, i - 1) -> <<>>
    [] OTHER -> <<key[i]>>

LEMMA ShownIs ==
  ASSUME NEW key \in Seq(Int), NEW i \in 1 .. Len(key)
  PROVE  /\ ShownAt(key, i) \in Seq(Int)
         /\ \/ ShownAt(key, i) = Replaced
            \/ ShownAt(key, i) = <<>> /\ i > 1 /\ C1At(key, i - 1) /\ ~C1At(key, i)
            \/ ShownAt(key, i) = <<key[i]>> /\ ~C0At(key, i) /\ ~C1At(key, i)
                 /\ (i > 1 => ~C1At(key, i - 1))
<1>1. Replaced \in Seq(Int) /\ <<key[i]>> \in Seq(Int) /\ <<>> \in Seq(Int)
  BY DEF Replaced
<1>2. CASE C0At(key, i) \/ C1At(key, i)
  <2>1. key[i] \notin 128 .. 159
    <3>2. CASE C0At(key, i)
      <4>1. \A b \in (0 .. 31) \cup {127} : b \notin 128 .. 159
        OBVIOUS
      <4>2. QED BY <3>2, <4>1, ZenonT(30) DEF C0At
    <3>3. CASE C1At(key, i)
      BY <3>3 DEF C1At
    <3>4. QED BY <1>2, <3>2, <3>3
  <2>2. (i - 1) + 1 = i
    OBVIOUS
  <2>3. ~(i > 1 /\ C1At(key, i - 1))
    BY <2>1, <2>2, Zenon DEF C1At
  <2>4. ShownAt(key, i) = Replaced
    BY <1>2, <2>3 DEF ShownAt
  <2>5. QED BY <1>1, <2>4
<1>3. CASE ~(C0At(key, i) \/ C1At(key, i)) /\ i > 1 /\ C1At(key, i - 1)
  <2>1. ShownAt(key, i) = <<>>
    BY <1>3 DEF ShownAt
  <2>2. QED BY <1>1, <1>3, <2>1
<1>4. CASE ~(C0At(key, i) \/ C1At(key, i)) /\ ~(i > 1 /\ C1At(key, i - 1))
  <2>1. ShownAt(key, i) = <<key[i]>>
    BY <1>4 DEF ShownAt
  <2>2. QED BY <1>1, <1>4, <2>1
<1>5. QED BY <1>2, <1>3, <1>4

(* The log of the first i bytes: no control characters in it, and none to  *)
(* come of its last byte, for only a lead byte that opens none is left at  *)
(* the end.                                                                *)
CleanUpTo(key, i, s) ==
  /\ \A j \in 1 .. Len(s) : ~C0At(s, j) /\ (j < Len(s) => ~C1At(s, j))
  /\ Len(s) > 0 /\ s[Len(s)] = 194 => i > 0 /\ key[i] = 194 /\ ~C1At(key, i)
  /\ i > 0 /\ C1At(key, i) => Len(s) > 0 /\ s[Len(s)] = 189

LEMMA CleanStep ==
  ASSUME NEW key \in Seq(Int), NEW i \in Nat, i < Len(key),
         NEW s \in Seq(Int), CleanUpTo(key, i, s)
  PROVE  CleanUpTo(key, i + 1, s \o ShownAt(key, i + 1))
<1> DEFINE p == ShownAt(key, i + 1)
           t == s \o p
           m == Len(s)
<1>1. i + 1 \in 1 .. Len(key) /\ (i + 1) - 1 = i /\ (i + 1 > 1 <=> i > 0)
  OBVIOUS
<1>2. /\ p \in Seq(Int)
      /\ \/ p = Replaced
         \/ p = <<>> /\ i + 1 > 1 /\ C1At(key, (i + 1) - 1) /\ ~C1At(key, i + 1)
         \/ p = <<key[i + 1]>> /\ ~C0At(key, i + 1) /\ ~C1At(key, i + 1)
              /\ (i + 1 > 1 => ~C1At(key, (i + 1) - 1))
  BY <1>1, ShownIs
<1>3. /\ m \in Nat /\ Len(p) \in Nat /\ t \in Seq(Int) /\ Len(t) = m + Len(p)
      /\ \A j \in 1 .. m : t[j] = s[j]
      /\ \A j \in 1 .. Len(p) : t[m + j] = p[j]
  BY <1>2, ConcatProperties
<1> HIDE DEF p, t
<1>4. CASE p = Replaced
  <2>1. Len(t) = m + 3 /\ t[m + 1] = 239 /\ t[m + 2] = 191 /\ t[m + 3] = 189
    <3>1. Len(p) = 3 /\ p[1] = 239 /\ p[2] = 191 /\ p[3] = 189
      BY <1>4 DEF Replaced
    <3>2. 1 \in 1 .. Len(p) /\ 2 \in 1 .. Len(p) /\ 3 \in 1 .. Len(p)
      BY <3>1
    <3>3. t[m + 1] = p[1] /\ t[m + 2] = p[2] /\ t[m + 3] = p[3]
      BY <1>3, <3>2
    <3>4. QED BY <1>3, <3>1, <3>3
  <2>2. ASSUME NEW j \in 1 .. Len(t) PROVE ~C0At(t, j) /\ (j < Len(t) => ~C1At(t, j))
    <3>0. m \in Nat /\ j \in Nat /\ 1 <= j /\ j <= Len(t) /\ Len(t) \in Nat
      BY <1>3
    <3>1. CASE j < m
      <4>0. j \in 1 .. m /\ j + 1 \in 1 .. m
        <5> HIDE DEF m
        <5> QED BY <3>1, <3>0
      <4>1. j \in 1 .. m /\ j + 1 \in 1 .. m /\ t[j] = s[j] /\ t[j + 1] = s[j + 1]
        BY <1>3, <4>0
      <4>2. QED BY <3>1, <4>1 DEF CleanUpTo, C0At, C1At
    <3>2. CASE j = m
      <4>1. j \in 1 .. m /\ t[j] = s[j] /\ t[j + 1] = 239
        BY <1>3, <2>1, <3>2
      <4>2. QED BY <4>1 DEF CleanUpTo, C0At, C1At
    <3>3. CASE j > m
      <4>1. j = m + 1 \/ j = m + 2 \/ j = m + 3
        <5> HIDE DEF m
        <5> QED BY <2>1, <3>3, <3>0
      <4>2. t[j] = 239 \/ t[j] = 191 \/ t[j] = 189
        BY <2>1, <4>1
      <4>3. ~C0At(t, j)
        <5>1. ~ (239 \in (0 .. 31) \cup {127}) /\ ~ (191 \in (0 .. 31) \cup {127})
              /\ ~ (189 \in (0 .. 31) \cup {127})
          OBVIOUS
        <5>2. C0At(t, j) <=> t[j] \in (0 .. 31) \cup {127}
          BY Zenon DEF C0At
        <5>3. CASE t[j] = 239
          BY <5>1, <5>2, <5>3
        <5>4. CASE t[j] = 191
          BY <5>1, <5>2, <5>4
        <5>5. CASE t[j] = 189
          BY <5>1, <5>2, <5>5
        <5>6. QED BY <4>2, <5>3, <5>4, <5>5
      <4>4. ~C1At(t, j)
        BY <4>2 DEF C1At
      <4>5. QED BY <4>3, <4>4
    <3>4. QED BY <1>3, <2>1, <3>1, <3>2, <3>3
  <2>3. Len(t) > 0 /\ t[Len(t)] = 189
    BY <1>3, <2>1
  <2>4. CleanUpTo(key, i + 1, t)
    BY <2>2, <2>3 DEF CleanUpTo
  <2>5. QED BY <2>4 DEF t, p
<1>5. CASE p = <<>> /\ i + 1 > 1 /\ C1At(key, (i + 1) - 1) /\ ~C1At(key, i + 1)
  <2>1. t = s
    BY <1>5, ConcatEmptySeq DEF t
  <2>2. Len(s) > 0 /\ s[Len(s)] = 189
    BY <1>1, <1>5 DEF CleanUpTo
  <2>3. CleanUpTo(key, i + 1, s)
    BY <1>5, <2>2 DEF CleanUpTo
  <2>4. QED BY <2>1, <2>3 DEF t, p
<1>6. CASE p = <<key[i + 1]>> /\ ~C0At(key, i + 1) /\ ~C1At(key, i + 1)
             /\ (i + 1 > 1 => ~C1At(key, (i + 1) - 1))
  <2>1. Len(t) = m + 1 /\ t[m + 1] = key[i + 1]
    <3>1. Len(p) = 1 /\ p[1] = key[i + 1]
      BY <1>6
    <3>2. 1 \in 1 .. Len(p)
      BY <3>1
    <3>3. t[m + 1] = p[1]
      BY <1>3, <3>2
    <3>4. QED BY <1>3, <3>1, <3>3
  <2>2. ASSUME NEW j \in 1 .. Len(t) PROVE ~C0At(t, j) /\ (j < Len(t) => ~C1At(t, j))
    <3>0. m \in Nat /\ j \in Nat /\ 1 <= j /\ j <= Len(t) /\ Len(t) \in Nat
      BY <1>3
    <3>1. CASE j < m
      <4>0. j \in 1 .. m /\ j + 1 \in 1 .. m
        <5> HIDE DEF m
        <5> QED BY <3>1, <3>0
      <4>1. j \in 1 .. m /\ j + 1 \in 1 .. m /\ t[j] = s[j] /\ t[j + 1] = s[j + 1]
        BY <1>3, <4>0
      <4>2. QED BY <3>1, <4>1 DEF CleanUpTo, C0At, C1At
    <3>2. CASE j = m
      <4>1. j \in 1 .. m /\ t[j] = s[j] /\ t[j + 1] = key[i + 1] /\ m > 0
        BY <1>3, <2>1, <3>2
      <4>2. ~C0At(t, j)
        BY <4>1 DEF CleanUpTo, C0At
      <4>3. s[m] = 194 => key[i] = 194 /\ ~C1At(key, i) /\ i > 0
        BY <4>1 DEF CleanUpTo
      <4>4. s[m] = 194 => key[i + 1] \notin 128 .. 159
        BY <4>3 DEF C1At
      <4>5. QED BY <3>2, <4>1, <4>2, <4>4 DEF C1At
    <3>3. CASE j > m
      <4>1. j = m + 1 /\ ~(j < Len(t))
        <5> HIDE DEF m
        <5> QED BY <2>1, <3>0, <3>3
      <4>2. QED BY <1>6, <2>1, <4>1 DEF C0At
    <3>4. QED BY <1>3, <2>1, <3>1, <3>2, <3>3
  <2>3. t[Len(t)] = key[i + 1] /\ i + 1 > 0
    BY <1>3, <2>1
  <2>4. CleanUpTo(key, i + 1, t)
    BY <1>6, <2>2, <2>3 DEF CleanUpTo
  <2>5. QED BY <2>4 DEF t, p
<1>7. QED BY <1>2, <1>4, <1>5, <1>6

LEMMA LastOfUtf8 ==
  ASSUME NEW s, IsUtf8(s), NEW k \in DOMAIN s, ~(k < Len(s)), Len(s) \in Nat, k \in Nat
  PROVE  s[k] # 194
<1> SUFFICES ASSUME s[k] = 194 PROVE FALSE
  OBVIOUS
<1>1. Width(s[k]) = 2 /\ ~IsTail(s[k])
  BY DEF Width, IsTail
<1>2. CharacterAt(s, k)
  BY <1>1, Zenon DEF IsUtf8
<1>3. Width(s[k]) <= Len(s) - k + 1
  BY <1>1, <1>2 DEF CharacterAt
<1>4. QED BY <1>1, <1>3

LEMMA LoggedKeyIsClean ==
  ASSUME NEW key \in Seq(Int), IsUtf8(key)
  PROVE  ~HasControl(SanitizeKeyForOpsLog(key))
<1>0. \A k \in DOMAIN key : ~(k < Len(key)) => key[k] # 194
  <2>1. Len(key) \in Nat /\ DOMAIN key \subseteq Nat
    OBVIOUS
  <2>2. QED BY <2>1, LastOfUtf8
<1> DEFINE ss == [i \in DOMAIN key |-> ShownAt(key, i)]
           n == Len(key)
<1>1. n \in Nat /\ DOMAIN key = 1 .. n
  OBVIOUS
<1>2. ss \in Seq(Seq(Int)) /\ Len(ss) = n /\ \A i \in 1 .. n : ss[i] = ShownAt(key, i)
  <2>1. \A i \in 1 .. n : ShownAt(key, i) \in Seq(Int)
    BY ShownIs
  <2> DEFINE S == Seq(Int)
  <2>2. \A i \in 1 .. n : ShownAt(key, i) \in S
    BY <2>1
  <2> HIDE DEF S, n
  <2>3. ss \in Seq(S) /\ Len(ss) = n /\ \A i \in 1 .. n : ss[i] = ShownAt(key, i)
    BY <1>1, <2>2
  <2>4. QED BY <2>3 DEF S
<1>3. SanitizeKeyForOpsLog(key) = FlattenSeq(ss)
  BY Zenon DEF SanitizeKeyForOpsLog, ShownAt, Replaced
<1> HIDE DEF ss, n
<1>3b. PICK g \in [0 .. Len(ss) -> Seq(Int)] :
        /\ g[0] = <<>>
        /\ \A i \in 1 .. Len(ss) : g[i] = g[i - 1] \o ss[i]
        /\ FlattenSeq(ss) = g[Len(ss)]
  BY <1>2, FlattenSteps
<1>4. /\ g \in [0 .. n -> Seq(Int)]
      /\ g[0] = <<>>
      /\ \A i \in 1 .. n : g[i] = g[i - 1] \o ShownAt(key, i)
      /\ SanitizeKeyForOpsLog(key) = g[n]
  BY <1>2, <1>3, <1>3b
<1> DEFINE T == {i \in Nat : i <= n => CleanUpTo(key, i, g[i])}
<1>5. 0 \in T
  <2>1. CleanUpTo(key, 0, <<>>)
    BY DEF CleanUpTo
  <2>2. QED BY <1>4, <2>1
<1>6. ASSUME NEW i \in Nat, i \in T PROVE i + 1 \in T
  <2> SUFFICES ASSUME i + 1 <= n PROVE CleanUpTo(key, i + 1, g[i + 1])
    OBVIOUS
  <2>1. i < n /\ i \in 0 .. n /\ i + 1 \in 1 .. n /\ (i + 1) - 1 = i
    BY <1>1
  <2>2. CleanUpTo(key, i, g[i]) /\ g[i] \in Seq(Int)
    <3>1. i <= n
      BY <1>1, <2>1
    <3>2. CleanUpTo(key, i, g[i])
      BY <1>6, <3>1
    <3>3. g[i] \in Seq(Int)
      BY <1>4, <2>1
    <3>4. QED BY <3>2, <3>3
  <2>3. g[i + 1] = g[i] \o ShownAt(key, i + 1)
    BY <1>4, <2>1
  <2>4. QED BY <2>1, <2>2, <2>3, CleanStep DEF n
<1>7. n \in T
  <2> HIDE DEF T
  <2> QED BY <1>1, <1>5, <1>6, EveryNatural
<1> DEFINE s == SanitizeKeyForOpsLog(key)
<1>8. CleanUpTo(key, n, s) /\ s \in Seq(Int)
  BY <1>1, <1>4, <1>7
<1> HIDE DEF s
<1>9. Len(s) > 0 => s[Len(s)] # 194
  <2> SUFFICES ASSUME Len(s) > 0, s[Len(s)] = 194 PROVE FALSE
    OBVIOUS
  <2>1. n \in 1 .. n /\ key[n] = 194
    BY <1>1, <1>8 DEF CleanUpTo
  <2>2. n \in DOMAIN key /\ ~(n < Len(key))
    BY <1>1, <2>1 DEF n
  <2>3. QED BY <1>0, <2>1, <2>2
<1>10. ASSUME NEW j \in 1 .. Len(s) PROVE ~C0At(s, j) /\ ~C1At(s, j)
  <2>1. CASE j < Len(s)
    BY <1>8, <2>1 DEF CleanUpTo
  <2>2. CASE j = Len(s)
    BY <1>8, <1>9, <2>2 DEF CleanUpTo, C1At
  <2>3. QED BY <1>8, <2>1, <2>2
<1>11. QED BY <1>8, <1>10 DEF HasControl, s
-----------------------------------------------------------------------------
(* What the server reads is a string.                                      *)

LEMMA PartsAreStrings ==
  ASSUME NEW s \in Strings, NEW c \in Bytes
  PROVE  Before(s, c) \in Strings /\ After(s, c) \in Strings
<1>1. CASE \E k \in 1 .. Len(s) : s[k] = c
  BY <1>1, SplitApart
<1>2. CASE \A k \in 1 .. Len(s) : s[k] # c
  <2>1. <<>> \in Strings
    BY EmptySeq DEF Strings
  <2>2. QED BY <1>2, <2>1, SplitWithout
<1>3. QED BY <1>1, <1>2

LEMMA StringsAreIntegers ==
  ASSUME NEW s \in Strings
  PROVE  s \in Seq(Int)
<1>1. /\ Len(s) \in Nat /\ s = [i \in 1 .. Len(s) |-> s[i]]
      /\ \A i \in 1 .. Len(s) : s[i] \in Bytes
  <2> HIDE DEF Bytes
  <2> QED BY DEF Strings
<1>2. Bytes \subseteq Int
  BY DEF Bytes
<1>3. QED BY <1>1, <1>2

LEMMA DecodedIsSequence ==
  ASSUME NEW v \in Strings
  PROVE  PercentDecode(v) \in Seq(Int)
<1> DEFINE n == Len(v) + 1
<1>1. n \in Nat \ {0} /\ Len(v) = n - 1 /\ \A i \in 1 .. Len(v) : v[i] \in Int
  BY StringsAreIntegers
<1>2. PICK f : (\A i \in 1 .. Len(v) + 1 : f[i] = Decoded(v, f, i)) /\ PercentDecode(v) = f[1]
  BY <1>1, DecodeSteps
<1> HIDE DEF n
<1> DEFINE T == {k \in Nat : k <= n => \A i \in n + 1 - k .. n : f[i] \in Seq(Int)}
<1>3. 0 \in T
  <2>1. \A i : i \notin n + 1 - 0 .. n
    BY <1>1
  <2>2. QED BY <2>1
<1>4. ASSUME NEW k \in Nat, k \in T PROVE k + 1 \in T
  <2> SUFFICES ASSUME k + 1 <= n, NEW i \in n + 1 - (k + 1) .. n PROVE f[i] \in Seq(Int)
    OBVIOUS
  <2>1. \A j \in n + 1 - k .. n : f[j] \in Seq(Int)
    BY <1>1, <1>4
  <2>2. CASE i > n - k
    <3>1. i \in n + 1 - k .. n
      BY <1>1, <2>2
    <3>2. QED BY <2>1, <3>1
  <2>3. CASE i = n - k
    <3>1. i \in 1 .. n /\ f[i] = Decoded(v, f, i)
      <4>1. i \in 1 .. n
        BY <1>1, <2>3
      <4>2. QED BY <1>2, <4>1 DEF n
    <3>2. ASSUME NEW b \in Int, NEW rest \in Seq(Int) PROVE Push(b, rest) \in Seq(Int)
      <4>1. <<b>> \in Seq(Int) /\ Malformed \in Seq(Int)
        BY DEF Malformed
      <4>2. <<b>> \o rest \in Seq(Int)
        BY <4>1, ConcatProperties
      <4>3. QED BY <4>1, <4>2 DEF Push
    <3>3. CASE i > Len(v)
      BY <3>1, <3>3 DEF Decoded
    <3>4. CASE i <= Len(v)
      <4>1. i + 1 \in n + 1 - k .. n /\ i \in 1 .. Len(v)
        BY <1>1, <2>3, <3>4
      <4>2. f[i + 1] \in Seq(Int) /\ v[i] \in Int /\ Space \in Int
        BY <1>1, <2>1, <4>1 DEF Space
      <4>3. ASSUME Escaped(v, i)
            PROVE  /\ f[i + 3] \in Seq(Int)
                   /\ FromHex[v[i + 1]] * 16 + FromHex[v[i + 2]] \in Int
        <5>1. i + 3 \in n + 1 - k .. n
          BY <1>1, <2>3, <4>1, <4>3 DEF Escaped
        <5>2. \A x \in DOMAIN FromHex : FromHex[x] \in Int
          BY DEF FromHex
        <5>3. v[i + 1] \in DOMAIN FromHex /\ v[i + 2] \in DOMAIN FromHex
          BY <4>3 DEF Escaped
        <5>4. FromHex[v[i + 1]] \in Int /\ FromHex[v[i + 2]] \in Int
          BY <5>2, <5>3
        <5>5. QED BY <2>1, <5>1, <5>4
      <4>4. /\ Push(Space, f[i + 1]) \in Seq(Int) /\ Push(v[i], f[i + 1]) \in Seq(Int)
            /\ Escaped(v, i) =>
                 Push(FromHex[v[i + 1]] * 16 + FromHex[v[i + 2]], f[i + 3]) \in Seq(Int)
            /\ Malformed \in Seq(Int)
        BY <3>2, <4>2, <4>3 DEF Malformed
      <4>5. \/ f[i] = Push(Space, f[i + 1])
            \/ f[i] = Push(v[i], f[i + 1])
            \/ Escaped(v, i) /\ f[i] = Push(FromHex[v[i + 1]] * 16 + FromHex[v[i + 2]], f[i + 3])
            \/ f[i] = Malformed
        <5>1. ~(i > Len(v))
          BY <1>1, <3>1, <3>4
        <5>2. CASE v[i] = Plus
          BY <3>1, <3>4, <5>1, <5>2 DEF Decoded, Plus, Percent
        <5>3. CASE v[i] = Percent
          BY <3>1, <3>4, <5>1, <5>3 DEF Decoded, Plus, Percent
        <5>4. CASE v[i] # Plus /\ v[i] # Percent
          BY <3>1, <3>4, <5>1, <5>4 DEF Decoded
        <5>5. QED BY <5>2, <5>3, <5>4
      <4>6. QED BY <4>4, <4>5
    <3>5. QED BY <1>1, <3>1, <3>3, <3>4
  <2>4. QED BY <1>1, <2>2, <2>3
<1>5. n \in T
  <2> HIDE DEF T
  <2> QED BY <1>1, <1>3, <1>4, EveryNatural
<1>6. f[1] \in Seq(Int)
  <2>1. 1 \in n + 1 - n .. n
    BY <1>1
  <2>2. QED BY <1>1, <1>5, <2>1
<1>7. QED BY <1>2, <1>6

LEMMA ReadKeyIs ==
  ASSUME NEW u \in Strings
  PROVE  ClientKeyFromUri(u) \in Seq(Int) /\ IsUtf8(ClientKeyFromUri(u))
<1> DEFINE q == After(u, QuestionMark)
           keyed == Keyed(Pairs(q))
           key == PercentDecode(After(Pairs(q)[Min(keyed)], EqualSign))
<1>1. NoKey \in Seq(Int) /\ IsUtf8(NoKey)
  BY DEF NoKey, IsUtf8
<1>2. CASE keyed # {} /\ Acceptable(key)
  <2>1. q \in Strings
    BY PartsAreStrings, Separators
  <2> HIDE DEF q
  <2>2. keyed \subseteq DOMAIN Pairs(q)
    BY DEF Keyed
  <2>3. Starts(q) \in SUBSET (1 .. Len(q) + 1) /\ Len(q) \in Nat
    BY <2>1 DEF Starts, Strings
  <2>4. DOMAIN Pairs(q) = Starts(q)
    BY PairsOfQuery
  <2>5. keyed \in SUBSET Nat
    BY <2>2, <2>3, <2>4
  <2> HIDE DEF keyed
  <2>6. Min(keyed) \in keyed
    BY <1>2, <2>5, MinExists
  <2> DEFINE i == Min(keyed)
             t == SubSeq(q, i, Len(q))
  <2>7. i \in 1 .. Len(q) + 1 /\ i \in Starts(q)
    BY <2>2, <2>3, <2>4, <2>6
  <2>8. Pairs(q)[i] = Before(t, Ampersand)
    BY <2>7, PairsOfQuery
  <2>9. t \in Strings
    <3> HIDE DEF i, Bytes
    <3>1. i \in Nat \ {0} /\ Len(q) \in 0 .. Len(q) /\ i <= Len(q) + 1
      BY <2>3, <2>7
    <3>2. QED BY <2>1, <3>1, Part DEF Strings
  <2> HIDE DEF t, i
  <2>10. After(Pairs(q)[i], EqualSign) \in Strings
    BY <2>8, <2>9, PartsAreStrings, Separators
  <2>11. key \in Seq(Int)
    BY <2>10, DecodedIsSequence DEF i
  <2>12. ClientKeyFromUri(u) = key
    BY <1>2, Zenon DEF ClientKeyFromUri, q, keyed
  <2>13. QED BY <1>2, <2>11, <2>12 DEF Acceptable
<1>3. CASE ~(keyed # {} /\ Acceptable(key))
  <2>1. ClientKeyFromUri(u) = NoKey
    BY <1>3, Zenon DEF ClientKeyFromUri
  <2>2. QED BY <1>1, <2>1
<1>4. QED BY <1>2, <1>3

LEMMA UrlIsString ==
  ASSUME NEW path \in Strings, NEW key \in Strings
  PROVE  WsUrlWithKey(path, key) \in Strings
<1> DEFINE E == Escape(key)
           c == IF QuestionMark \in Range(path) THEN Ampersand ELSE QuestionMark
<1>1. /\ path \in Seq(Bytes) /\ <<c>> \in Seq(Bytes) /\ KeyQueryParam \in Seq(Bytes)
      /\ <<EqualSign>> \in Seq(Bytes) /\ E \in Seq(Bytes)
  BY EscapeIsClean, Separators DEF Strings
<1> HIDE DEF E, Bytes
<1>2. path \o <<c>> \in Seq(Bytes)
  BY <1>1, ConcatProperties
<1>3. path \o <<c>> \o KeyQueryParam \in Seq(Bytes)
  BY <1>1, <1>2, ConcatProperties
<1>4. path \o <<c>> \o KeyQueryParam \o <<EqualSign>> \in Seq(Bytes)
  BY <1>1, <1>3, ConcatProperties
<1>5. path \o <<c>> \o KeyQueryParam \o <<EqualSign>> \o E \in Seq(Bytes)
  BY <1>1, <1>4, ConcatProperties
<1>6. QED BY <1>1, <1>5, Zenon DEF WsUrlWithKey, E, Strings

(* A key without control characters is logged as it is.                   *)
LEMMA CleanKeyIsLogged ==
  ASSUME NEW key \in Seq(Int), ~HasControl(key)
  PROVE  SanitizeKeyForOpsLog(key) = key
<1> DEFINE ss == [i \in DOMAIN key |-> ShownAt(key, i)]
           n == Len(key)
<1>1. n \in Nat /\ DOMAIN key = 1 .. n
  OBVIOUS
<1>2. ASSUME NEW i \in 1 .. n PROVE ShownAt(key, i) = <<key[i]>> /\ key[i] \in Int
  <2>1. ~C0At(key, i) /\ ~C1At(key, i) /\ key[i] \in Int
    BY <1>1 DEF HasControl
  <2>2. i > 1 => i - 1 \in 1 .. n
    BY <1>1
  <2>3. i > 1 => ~C1At(key, i - 1)
    BY <1>1, <2>2 DEF HasControl
  <2>4. QED BY <2>1, <2>3, Zenon DEF ShownAt
<1>3. ss \in Seq(Seq(Int)) /\ Len(ss) = n /\ \A i \in 1 .. n : ss[i] = <<key[i]>>
  <2> DEFINE S == Seq(Int)
  <2>1. \A i \in 1 .. n : ShownAt(key, i) \in S /\ ShownAt(key, i) = <<key[i]>>
    <3>1. \A i \in 1 .. n : key[i] \in Int /\ <<key[i]>> \in S
      BY <1>1
    <3>2. QED BY <1>2, <3>1
  <2> HIDE DEF S, n
  <2>2. ss \in Seq(S) /\ Len(ss) = n /\ \A i \in 1 .. n : ss[i] = <<key[i]>>
    BY <1>1, <2>1
  <2>3. QED BY <2>2 DEF S
<1>4. SanitizeKeyForOpsLog(key) = FlattenSeq(ss)
  BY Zenon DEF SanitizeKeyForOpsLog, ShownAt, Replaced
<1> HIDE DEF ss, n
<1>5. PICK g \in [0 .. Len(ss) -> Seq(Int)] :
        /\ g[0] = <<>>
        /\ \A i \in 1 .. Len(ss) : g[i] = g[i - 1] \o ss[i]
        /\ FlattenSeq(ss) = g[Len(ss)]
  BY <1>3, FlattenSteps
<1>6. \A i \in 0 .. n : g[i] \in Seq(Int)
  BY <1>3, <1>5
<1> DEFINE T == {i \in Nat : i <= n => Len(g[i]) = i /\ \A j \in 1 .. i : g[i][j] = key[j]}
<1>7. 0 \in T
  BY <1>5
<1>8. ASSUME NEW i \in Nat, i \in T PROVE i + 1 \in T
  <2> SUFFICES ASSUME i + 1 <= n
               PROVE  Len(g[i + 1]) = i + 1 /\ \A j \in 1 .. i + 1 : g[i + 1][j] = key[j]
    OBVIOUS
  <2>1. i \in 0 .. n /\ i + 1 \in 1 .. n /\ (i + 1) - 1 = i
    BY <1>1
  <2>2. /\ g[i] \in Seq(Int) /\ Len(g[i]) = i /\ \A j \in 1 .. i : g[i][j] = key[j]
        /\ g[i + 1] = g[i] \o <<key[i + 1]>> /\ key[i + 1] \in Int
    <3>1. i <= n
      BY <1>1, <2>1
    <3>2. Len(g[i]) = i /\ \A j \in 1 .. i : g[i][j] = key[j]
      BY <1>8, <3>1
    <3>3. g[i + 1] = g[(i + 1) - 1] \o ss[i + 1] /\ ss[i + 1] = <<key[i + 1]>>
      BY <1>3, <1>5, <2>1
    <3>4. QED BY <1>2, <1>6, <2>1, <3>2, <3>3
  <2>3. /\ Len(g[i + 1]) = i + 1 /\ g[i + 1][i + 1] = key[i + 1]
        /\ \A j \in 1 .. i : g[i + 1][j] = g[i][j]
    <3> DEFINE a == g[i]
               b == <<key[i + 1]>>
    <3>1. /\ a \in Seq(Int) /\ b \in Seq(Int) /\ Len(a) = i /\ Len(b) = 1 /\ b[1] = key[i + 1]
          /\ g[i + 1] = a \o b
      BY <2>2
    <3> HIDE DEF a, b
    <3>2. /\ Len(a \o b) = i + 1
          /\ \A j \in 1 .. i + 1 : (a \o b)[j] = IF j <= i THEN a[j] ELSE b[j - i]
      <4>1. /\ Len(a \o b) = Len(a) + Len(b)
            /\ \A j \in 1 .. Len(a) + Len(b) :
                 (a \o b)[j] = IF j <= Len(a) THEN a[j] ELSE b[j - Len(a)]
        BY <3>1, ConcatProperties
      <4>2. QED BY <3>1, <4>1
    <3>3. (a \o b)[i + 1] = b[1]
      BY <3>1, <3>2, SMTT(30)
    <3>4. \A j \in 1 .. i : (a \o b)[j] = a[j]
      BY <3>1, <3>2
    <3>5. QED BY <3>1, <3>2, <3>3, <3>4 DEF a
  <2>4. ASSUME NEW j \in 1 .. i + 1 PROVE g[i + 1][j] = key[j]
    <3>1. j \in 1 .. i \/ j = i + 1
      OBVIOUS
    <3>2. QED BY <2>2, <2>3, <3>1
  <2>5. QED BY <2>3, <2>4
<1>9. n \in T
  <2> HIDE DEF T
  <2> QED BY <1>1, <1>7, <1>8, EveryNatural
<1>10. g[n] \in Seq(Int) /\ Len(g[n]) = n /\ \A j \in 1 .. n : g[n][j] = key[j]
  BY <1>1, <1>6, <1>9
<1>11. g[n] = key
  BY <1>1, <1>10, SeqEqual DEF n
<1>12. QED BY <1>3, <1>4, <1>5, <1>11

(* Whatever a filter is, the log of it is free of control characters, and  *)
(* the filter itself if it has none; the log of the URL has its path and   *)
(* tells whether there is a key.                                           *)
THEOREM LogsStayClean == Spec => []LogFieldsAreClean
<1>1. Progress => LogFieldsAreClean
  <2> SUFFICES ASSUME Progress, stage # "client" PROVE LogFieldsAreClean
    BY DEF LogFieldsAreClean
  <2>1. client.path \in Strings /\ client.key \in Strings
    BY Configured
  <2>2. url = WsUrlWithKey(client.path, client.key) /\ url \in Strings
    BY <2>1, UrlIsString DEF Progress
  <2>3. /\ WsUrlLogFields(url).path = Before(client.path, QuestionMark)
        /\ WsUrlLogFields(url).hasKey <=> client.key # NoKey \/ WsUrlLogFields(client.path).hasKey
    BY <2>1, <2>2, LoggedUrl
  <2>4. clientKey # NoKey => WsUrlLogFields(url).hasKey
    BY <2>2, UnkeyedUrl DEF Progress, Read
  <2>5. keyFilter \in Seq(Int) /\ IsUtf8(keyFilter)
    <3>1. NoKey \in Seq(Int) /\ IsUtf8(NoKey)
      BY DEF NoKey, IsUtf8
    <3>2. server.userKey \in Seq(Int) /\ IsUtf8(server.userKey)
      <4>1. server.userKey \in UserKeys
        BY DEF Progress, Servers
      <4>2. server.userKey \in Seq(Bytes) /\ IsUtf8(server.userKey)
        BY <4>1, AdmissionAssumption
      <4>3. QED BY <4>2, StringsAreIntegers DEF Strings
    <3>3. Read \in Seq(Int) /\ IsUtf8(Read)
      BY <2>2, ReadKeyIs DEF Read
    <3>4. QED BY <3>1, <3>2, <3>3 DEF Progress
  <2>6. ~HasControl(SanitizeKeyForOpsLog(keyFilter))
    BY <2>5, LoggedKeyIsClean
  <2>7. ~HasControl(keyFilter) => SanitizeKeyForOpsLog(keyFilter) = keyFilter
    BY <2>5, CleanKeyIsLogged
  <2>8. QED BY <2>3, <2>4, <2>6, <2>7 DEF LogFieldsAreClean, PathHasKey
<1>2. QED BY <1>1, ProgressHolds, PTL
=============================================================================
