--------------------------- MODULE BenchLoadProof ---------------------------
(***************************************************************************)
(* Proofs about BenchLoad, for every number of load generators,            *)
(* connections and events: the server runs one publish run at a time, and  *)
(* what a step that passes can have lost is bounded.                       *)
(***************************************************************************)
EXTENDS BenchLoad, FiniteSetTheorems, WellFoundedInduction, TLAPS

USE BenchLoadAssumption
-----------------------------------------------------------------------------
(* One publish run.  A request is claimed only with the flag down, so that *)
(* a run that goes on must keep it up: FlagIsUp is what makes the claim of *)
(* one run the refusal of the next.                                        *)

Requests == [pc : {"none", "sent", "running", "refused", "answered", "dropped"},
             succeeded : Nat, failed : Nat]
ServerTypes == inFlight \in BOOLEAN /\ request \in [Clients -> Requests]

Runs(c) == request[c].pc = "running"
FlagIsUp == \A c \in Clients : Runs(c) => inFlight
AtMostOneRuns == \A c, d \in Clients : Runs(c) /\ Runs(d) => c = d

ServerInv == ServerTypes /\ FlagIsUp /\ AtMostOneRuns

LEMMA ServerInit == Init => ServerInv
<1> SUFFICES ASSUME Init PROVE ServerInv
  OBVIOUS
<1>1. NoRequest \in Requests /\ NoRequest.pc = "none"
  BY DEF NoRequest, Requests
<1>2. inFlight = FALSE /\ request = [c \in Clients |-> NoRequest]
  BY DEF Init
<1>3. ServerTypes /\ \A c \in Clients : ~Runs(c)
  BY <1>1, <1>2 DEF ServerTypes, Runs
<1>4. QED BY <1>3 DEF ServerInv, FlagIsUp, AtMostOneRuns

(* A request goes to a state in which it does not run: then fewer run.     *)
LEMMA RequestEnds ==
  ASSUME ServerInv, NEW c \in Clients,
         NEW next \in {"none", "sent", "refused", "answered", "dropped"},
         request' = [request EXCEPT ![c].pc = next], UNCHANGED inFlight
  PROVE  ServerInv'
<1>1. ServerTypes'
  BY DEF ServerInv, ServerTypes, Requests
<1>2. \A d \in Clients : Runs(d)' => Runs(d)
  BY DEF ServerInv, ServerTypes, Requests, Runs
<1>3. FlagIsUp' /\ AtMostOneRuns'
  BY <1>2 DEF ServerInv, FlagIsUp, AtMostOneRuns
<1>4. QED BY <1>1, <1>3 DEF ServerInv

LEMMA ClaimKeepsServerInv ==
  ASSUME ServerInv, NEW c \in Clients, Claim(c)
  PROVE  ServerInv'
<1>1. CASE inFlight
  <2>1. request' = [request EXCEPT ![c].pc = "refused"] /\ UNCHANGED inFlight
    BY <1>1 DEF Claim
  <2>2. QED BY <2>1, RequestEnds
<1>2. CASE ~inFlight
  <2>1. request' = [request EXCEPT ![c].pc = "running"] /\ inFlight'
    BY <1>2 DEF Claim
  <2>2. ServerTypes'
    BY <2>1, <1>2 DEF Claim, ServerInv, ServerTypes, Requests
  <2>3. \A d \in Clients : Runs(d)' => d = c
    BY <1>2, <2>1 DEF ServerInv, ServerTypes, FlagIsUp, Runs
  <2>4. QED BY <2>1, <2>2, <2>3 DEF ServerInv, FlagIsUp, AtMostOneRuns
<1>3. QED BY <1>1, <1>2

(* The run that goes on is the only one, so the flag it lowers is its own. *)
LEMMA ProgressKeepsServerInv ==
  ASSUME ServerInv, NEW c \in Clients, Runs(c), NEW ok \in BOOLEAN, Progress(c, ok)
  PROVE  ServerInv'
<1> DEFINE r == request[c]
           next == IF ok THEN [r EXCEPT !.succeeded = @ + 1] ELSE [r EXCEPT !.failed = @ + 1]
           over == ~ok \/ next.succeeded = Total
<1>1. r \in Requests /\ next \in Requests /\ next.pc = "running"
  BY DEF ServerInv, ServerTypes, Requests, Runs
<1>2. /\ request' = [request EXCEPT ![c] = IF over THEN [next EXCEPT !.pc = "answered"] ELSE next]
      /\ inFlight' = (inFlight /\ ~over)
  BY Zenon DEF Progress
<1>3. over \in BOOLEAN /\ inFlight \in BOOLEAN
  BY DEF ServerInv, ServerTypes
<1> HIDE DEF r, next, over
<1>4. [next EXCEPT !.pc = "answered"] \in Requests
  BY <1>1 DEF Requests
<1>5. ServerTypes'
  BY <1>1, <1>2, <1>3, <1>4 DEF ServerInv, ServerTypes
<1>6. \A d \in Clients : Runs(d)' => d = c /\ ~over
  BY <1>1, <1>2 DEF ServerInv, ServerTypes, AtMostOneRuns, Runs, Requests
<1>7. QED BY <1>2, <1>3, <1>5, <1>6 DEF ServerInv, FlagIsUp, AtMostOneRuns, ServerTypes

LEMMA ServerStep == ServerInv /\ [Next]_vars => ServerInv'
<1> SUFFICES ASSUME ServerInv, [Next]_vars PROVE ServerInv'
  OBVIOUS
<1>1. ASSUME NEW c \in Clients, Claim(c) PROVE ServerInv'
  BY <1>1, ClaimKeepsServerInv
<1>2. ASSUME NEW c \in Clients, PublishOne(c) \/ PublishFails(c) PROVE ServerInv'
  BY <1>2, ProgressKeepsServerInv DEF PublishOne, PublishFails, Runs
<1>3. ASSUME NEW c \in Clients, Reject(c) \/ DropRequest(c) \/ AskPublish(c) PROVE ServerInv'
  BY <1>3, RequestEnds DEF Reject, DropRequest, AskPublish
<1>4. ASSUME UNCHANGED serverVars PROVE ServerInv'
  BY <1>4 DEF serverVars, ServerInv, ServerTypes, FlagIsUp, AtMostOneRuns, Runs
<1>5. ASSUME NEW c \in Clients, Settled(c) \/ TakeAnswer(c) \/ Finish(c) \/ Die(c)
      PROVE  ServerInv'
  BY <1>4, <1>5 DEF Settled, TakeAnswer, Finish, Die
<1>6. ASSUME NEW c \in Clients, NEW i \in Conns[c], NEW p \in Clients,
             Connect(c, i) \/ Serve(c, i) \/ Cut(c, i) \/ Receive(c, i, p)
      PROVE  ServerInv'
  BY <1>4, <1>6 DEF Connect, Serve, Cut, Receive
<1>7. CASE UNCHANGED vars
  BY <1>4, <1>7 DEF vars, serverVars
<1>8. QED
  BY <1>1, <1>2, <1>3, <1>5, <1>6, <1>7 DEF Next, Generator, Server

LEMMA ServerInvariant == Spec => []ServerInv
  BY ServerInit, ServerStep, PTL DEF Spec

(* Whatever requests race for it, fail or are dropped, only one publish    *)
(* run is in flight (photon-leptos-bench/README.md:34-35).                 *)
THEOREM OneRunAtATime == Spec => []OnePublishRun
<1>1. ServerInv => OnePublishRun
  <2> SUFFICES ASSUME ServerInv PROVE OnePublishRun
    OBVIOUS
  <2> DEFINE running == {c \in Clients : request[c].pc = "running"}
  <2>1. CASE running = {}
    <3>1. Cardinality(running) = 0
      BY <2>1, FS_EmptySet
    <3>2. QED BY <3>1 DEF OnePublishRun
  <2>2. CASE running # {}
    <3>1. PICK c \in running : TRUE
      BY <2>2
    <3>2. running = {c}
      BY <3>1 DEF ServerInv, AtMostOneRuns, Runs
    <3>3. Cardinality(running) = 1
      BY <3>2, FS_Singleton
    <3>4. QED BY <3>3 DEF OnePublishRun
  <2>3. QED BY <2>1, <2>2
<1>2. QED BY <1>1, ServerInvariant, PTL
-----------------------------------------------------------------------------
(* Sums over finite sets.  The folds of the model are recursive functions; *)
(* what they compute follows from induction over the naturals, stated for  *)
(* a set of naturals.                                                      *)

LEMMA EveryNatural ==
  ASSUME NEW T, 0 \in T, \A n \in Nat : n \in T => n + 1 \in T
  PROVE  Nat \subseteq T
<1> SUFFICES ASSUME Nat \ T # {} PROVE FALSE
  OBVIOUS
<1>1. PICK m \in Nat \ T : \A k \in Nat \ T : ~ (<<k, m>> \in OpToRel(<, Nat))
  BY NatLessThanWellFounded, WFMin, Zenon
<1>2. m - 1 \in Nat /\ m = (m - 1) + 1
  <2>1. m \in Nat /\ m # 0
    OBVIOUS
  <2>2. QED BY <2>1
<1>3. <<m - 1, m>> \in OpToRel(<, Nat)
  BY <1>1, <1>2 DEF OpToRel
<1>4. m - 1 \in T
  BY <1>1, <1>2, <1>3
<1>5. QED BY <1>1, <1>2, <1>4

Chosen(s) == CHOOSE x \in s : TRUE

LEMMA ChosenIsIn == \A s : s # {} => Chosen(s) \in s
  BY DEF Chosen

LEMMA WithoutChosen ==
  ASSUME NEW s, IsFiniteSet(s), s # {}
  PROVE  /\ IsFiniteSet(s \ {Chosen(s)})
         /\ Cardinality(s) \in Nat
         /\ Cardinality(s \ {Chosen(s)}) = Cardinality(s) - 1
  BY ChosenIsIn, FS_RemoveElement, FS_CardinalityType

(* Induction over the subsets of a finite set.                             *)
LEMMA EverySubset ==
  ASSUME NEW S, IsFiniteSet(S), NEW Q, {} \in Q,
         \A s \in SUBSET S : s # {} /\ s \ {Chosen(s)} \in Q => s \in Q
  PROVE  SUBSET S \subseteq Q
<1> DEFINE T == {n \in Nat : \A s \in SUBSET S : Cardinality(s) = n => s \in Q}
<1>1. \A s \in SUBSET S : IsFiniteSet(s) /\ Cardinality(s) \in Nat
  BY FS_Subset, FS_CardinalityType
<1>2. 0 \in T
  <2>1. \A s \in SUBSET S : Cardinality(s) = 0 => s = {}
    BY <1>1, FS_EmptySet
  <2>2. QED BY <2>1
<1>3. ASSUME NEW n \in Nat, n \in T PROVE n + 1 \in T
  <2> SUFFICES ASSUME NEW s \in SUBSET S, Cardinality(s) = n + 1 PROVE s \in Q
    OBVIOUS
  <2>1. s # {}
    <3>1. Cardinality({}) = 0 /\ n + 1 # 0
      BY FS_EmptySet
    <3>2. QED BY <3>1
  <2>2. Cardinality(s \ {Chosen(s)}) = n
    BY <1>1, <2>1, WithoutChosen
  <2>3. s \ {Chosen(s)} \in Q
    BY <1>3, <2>2
  <2>4. QED BY <2>1, <2>3
<1>4. Nat \subseteq T
  <2> HIDE DEF T
  <2> QED BY <1>2, <1>3, EveryNatural
<1>5. QED BY <1>1, <1>4

(* The recursion of the folds, over the subsets in D.                      *)
Summed(f, g, s) == IF s = {} THEN 0 ELSE f[Chosen(s)] + g[s \ {Chosen(s)}]
IsSum(f, g, S) == g = [s \in SUBSET S |-> Summed(f, g, s)]

LEMMA SumExists ==
  ASSUME NEW S, IsFiniteSet(S), NEW f
  PROVE  \E g : IsSum(f, g, S)
<1> DEFINE Small(n) == {s \in SUBSET S : Cardinality(s) <= n}
           T == {n \in Nat : \E g : g = [s \in Small(n) |-> Summed(f, g, s)]}
<1>1. \A s \in SUBSET S : IsFiniteSet(s) /\ Cardinality(s) \in Nat
  BY FS_Subset, FS_CardinalityType
<1>2. 0 \in T
  <2>1. Small(0) = {{}}
    BY <1>1, FS_EmptySet
  <2> DEFINE g == [s \in Small(0) |-> 0]
  <2>2. \A s \in Small(0) : Summed(f, g, s) = 0
    BY <2>1 DEF Summed
  <2>3. g = [s \in Small(0) |-> Summed(f, g, s)]
    BY <2>2
  <2>4. QED BY <2>3
<1>3. ASSUME NEW n \in Nat, n \in T PROVE n + 1 \in T
  <2>1. PICK g : g = [s \in Small(n) |-> Summed(f, g, s)]
    BY <1>3
  <2> DEFINE h == [s \in Small(n + 1) |-> IF s \in Small(n) THEN g[s] ELSE Summed(f, g, s)]
  <2>2. ASSUME NEW s \in Small(n + 1) PROVE h[s] = Summed(f, g, s)
    BY <2>1
  <2>3. ASSUME NEW s \in Small(n + 1), s # {} PROVE s \ {Chosen(s)} \in Small(n)
    BY <1>1, <2>3, WithoutChosen
  <2>4. ASSUME NEW s \in Small(n) PROVE s \in Small(n + 1) /\ h[s] = g[s]
    BY <1>1
  <2>5. ASSUME NEW s \in Small(n + 1) PROVE h[s] = Summed(f, h, s)
    <3>1. s # {} => h[s \ {Chosen(s)}] = g[s \ {Chosen(s)}]
      BY <2>3, <2>4
    <3> HIDE DEF h
    <3>2. QED BY <2>2, <3>1 DEF Summed
  <2>6. h = [s \in Small(n + 1) |-> h[s]]
    OBVIOUS
  <2>7. h = [s \in Small(n + 1) |-> Summed(f, h, s)]
    <3> HIDE DEF h
    <3> QED BY <2>5, <2>6
  <2>8. QED
    <3> HIDE DEF h, Small
    <3> QED BY <2>7
<1>4. Nat \subseteq T
  <2> HIDE DEF T
  <2> QED BY <1>2, <1>3, EveryNatural
<1>5. Cardinality(S) \in T
  BY <1>1, <1>4
<1>6. Small(Cardinality(S)) = SUBSET S
  BY FS_Subset, FS_CardinalityType
<1>7. QED
  <2> HIDE DEF Small
  <2> QED BY <1>5, <1>6 DEF IsSum

LEMMA SumStep ==
  ASSUME NEW S, NEW f, NEW g, IsSum(f, g, S), NEW s \in SUBSET S
  PROVE  g[s] = Summed(f, g, s)
<1>1. g = [t \in SUBSET S |-> Summed(f, g, t)]
  BY DEF IsSum
<1>2. QED BY <1>1

(* Numbers of at most m sum up to at most m each, and each is short of m   *)
(* by no more than the sum is short of m each.                             *)
LEMMA SumOfBounded ==
  ASSUME NEW S, IsFiniteSet(S), NEW m \in Nat, NEW f, NEW g, IsSum(f, g, S),
         \A x \in S : f[x] \in Nat /\ f[x] <= m
  PROVE  \A s \in SUBSET S :
           /\ g[s] \in Nat /\ g[s] <= m * Cardinality(s)
           /\ \A x \in s : g[s] + m <= m * Cardinality(s) + f[x]
<1> DEFINE P(s) == /\ g[s] \in Nat /\ g[s] <= m * Cardinality(s)
                   /\ \A x \in s : g[s] + m <= m * Cardinality(s) + f[x]
           Q == {s \in SUBSET S : P(s)}
<1>1. {} \in Q
  <2>1. g[{}] = 0
    BY SumStep DEF Summed
  <2>2. Cardinality({}) = 0
    BY FS_EmptySet
  <2>3. QED BY <2>1, <2>2
<1>2. ASSUME NEW s \in SUBSET S, s # {}, s \ {Chosen(s)} \in Q PROVE s \in Q
  <2> DEFINE x == Chosen(s)
             t == s \ {x}
             k == Cardinality(t)
  <2>1. IsFiniteSet(s) /\ IsFiniteSet(t)
    BY FS_Subset
  <2>2. Cardinality(s) = k + 1 /\ k \in Nat
    <3>1. k = Cardinality(s) - 1 /\ Cardinality(s) \in Nat
      BY <1>2, <2>1, WithoutChosen
    <3>2. k \in Nat
      BY <2>1, FS_CardinalityType
    <3>3. QED BY <3>1, <3>2
  <2>3. g[s] = f[x] + g[t]
    <3>1. g[s] = Summed(f, g, s)
      BY SumStep
    <3>2. QED BY <1>2, <3>1 DEF Summed
  <2>4. x \in s /\ f[x] \in Nat /\ f[x] <= m
    BY <1>2, ChosenIsIn
  <2>5. g[t] \in Nat /\ g[t] <= m * k
    BY <1>2
  <2>6. \A y \in t : f[y] \in Nat /\ g[t] + m <= m * k + f[y]
    BY <1>2
  <2>7. m * (k + 1) = m * k + m /\ m * k \in Nat
    BY <2>2
  <2> HIDE DEF x, k
  <2>8. g[s] \in Nat /\ g[s] <= m * (k + 1)
    BY <2>3, <2>4, <2>5, <2>7
  <2>9. ASSUME NEW y \in s PROVE g[s] + m <= m * (k + 1) + f[y]
    <3>1. CASE y = x
      BY <2>3, <2>4, <2>5, <2>7, <3>1
    <3>2. CASE y \in t
      BY <2>3, <2>4, <2>5, <2>6, <2>7, <3>2
    <3>3. QED BY <2>9, <3>1, <3>2
  <2>10. QED BY <2>2, <2>8, <2>9
<1>3. SUBSET S \subseteq Q
  <2> HIDE DEF Q
  <2> QED BY <1>1, <1>2, EverySubset
<1>4. QED BY <1>3

(* If only one number of a sum is not zero, it is the sum.                 *)
LEMMA SumOfOne ==
  ASSUME NEW S, IsFiniteSet(S), NEW f, NEW g, IsSum(f, g, S),
         NEW c \in S, f[c] \in Nat, \A x \in S \ {c} : f[x] = 0
  PROVE  g[S] = f[c]
<1> DEFINE P(s) == g[s] = IF c \in s THEN f[c] ELSE 0
           Q == {s \in SUBSET S : P(s)}
<1>1. {} \in Q
  BY SumStep DEF Summed
<1>2. ASSUME NEW s \in SUBSET S, s # {}, s \ {Chosen(s)} \in Q PROVE s \in Q
  <2>1. Chosen(s) \in s
    BY <1>2, ChosenIsIn
  <2>2. g[s] = f[Chosen(s)] + g[s \ {Chosen(s)}]
    BY <1>2, SumStep DEF Summed
  <2>3. QED BY <1>2, <2>1, <2>2
<1>3. SUBSET S \subseteq Q
  <2> HIDE DEF Q
  <2> QED BY <1>1, <1>2, EverySubset
<1>4. QED BY <1>3

LEMMA FoldIsSum ==
  ASSUME NEW S, IsFiniteSet(S), NEW f
  PROVE  \E g : IsSum(f, g, S) /\ FoldFunctionOnSet(+, 0, f, S) = g[S]
<1> DEFINE g == CHOOSE g : IsSum(f, g, S)
<1>1. IsSum(f, g, S)
  BY SumExists
<1>2. FoldFunctionOnSet(+, 0, f, S) = g[S]
  BY DEF FoldFunctionOnSet, MapThenFoldSet, IsSum, Summed, Chosen
<1>3. QED BY <1>1, <1>2

(* What a generator received is the sum over its connections.              *)
OfConn(c) == [i \in Conns[c] |-> FoldFunctionOnSet(+, 0, got[c][i], Clients)]

LEMMA ReceivedIsSum ==
  ASSUME NEW c \in Clients
  PROVE  \E g : IsSum(OfConn(c), g, Conns[c]) /\ Received(c) = g[Conns[c]]
<1> DEFINE S == Conns[c]
           g == CHOOSE g : IsSum(OfConn(c), g, S)
<1>1. IsSum(OfConn(c), g, S)
  BY SumExists
<1>2. ASSUME NEW h, NEW s \in SUBSET S
      PROVE  Summed(OfConn(c), h, s) =
               IF s = {} THEN 0
               ELSE FoldFunctionOnSet(+, 0, got[c][Chosen(s)], Clients) + h[s \ {Chosen(s)}]
  BY ChosenIsIn DEF Summed, OfConn
<1> DEFINE Rule(h) == h = [s \in SUBSET S |->
               IF s = {} THEN 0
               ELSE FoldFunctionOnSet(+, 0, got[c][Chosen(s)], Clients) + h[s \ {Chosen(s)}]]
<1>3. \A h : IsSum(OfConn(c), h, S) <=> Rule(h)
  BY <1>2, ZenonT(60) DEF IsSum
<1>4. g = CHOOSE h : Rule(h)
  <2> HIDE DEF Rule
  <2> QED BY <1>3
<1>5. Received(c) = (CHOOSE h : Rule(h))[S]
  BY Zenon DEF Received, FoldFunctionOnSet, MapThenFoldSet, Chosen
<1>6. QED BY <1>1, <1>4, <1>5
-----------------------------------------------------------------------------
(* Losses are bounded.  The verdict adds up what came in; that no single   *)
(* connection made up for another one needs NoneInvented: none receives    *)
(* more than was published, as an event is on its way to it or was counted *)
(* at most once.                                                           *)

Stages == {"settle", "warm", "asking", "drain", "done", "dead"}
Matrix(x) == /\ x = [c \in Clients |-> x[c]]
             /\ \A c \in Clients : x[c] \in [Conns[c] -> [Clients -> Nat]]
LoadTypes == /\ stage \in [Clients -> Stages]
             /\ verdict \in [Clients -> {"none", "pass", "fail"}]
             /\ Matrix(wire) /\ Matrix(got)

(* A run goes on while there are events left and none failed.              *)
RequestCounts(c) ==
  LET r == request[c]
  IN /\ r.succeeded <= Total
     /\ r.pc \in {"none", "sent"} => r.succeeded = 0 /\ r.failed = 0
     /\ r.pc = "running" => r.succeeded < Total /\ r.failed = 0
     /\ r.pc = "answered" => r.failed \in {0, 1}
     /\ r.pc = "answered" /\ r.failed = 0 => r.succeeded = Total
     /\ stage[c] \in {"settle", "warm"} => r.pc = "none"
RunCounts == \A c \in Clients : RequestCounts(c)

NoneInvented ==
  \A c, p \in Clients : \A i \in Conns[c] : got[c][i][p] + wire[c][i][p] <= request[p].succeeded

LossIsBounded(c) ==
  LET published == request[c].succeeded
  IN /\ published * 100 >= Total * AchievedPercent
     /\ published < Total => OneIn <= Total
     /\ \A i \in Conns[c] :
          Lost(c, i) >= 0 /\ Lost(c, i) * OneIn <= published * Cardinality(Conns[c])
Judged ==
  \A c \in Clients : verdict[c] = "pass" =>
    /\ stage[c] = "done" /\ request[c].pc = "answered"
    /\ OnlyOwnEvents(c) => LossIsBounded(c)

LoadInv == ServerInv /\ LoadTypes /\ RunCounts /\ NoneInvented /\ Judged

LEMMA LoadInit == Init => LoadInv
<1> SUFFICES ASSUME Init PROVE LoadInv
  OBVIOUS
<1>1. ServerInv
  BY ServerInit
<1>2. \A c \in Clients : \A i \in Conns[c] : \A p \in Clients :
        got[c][i][p] = 0 /\ wire[c][i][p] = 0 /\ request[p] = NoRequest
  BY DEF Init, Nothing
<1>3. LoadTypes
  BY DEF Init, Nothing, LoadTypes, Stages, Matrix
<1>4. RunCounts /\ Judged
  BY DEF Init, NoRequest, RunCounts, RequestCounts, Judged
<1>5. NoneInvented
  BY <1>2 DEF NoneInvented, NoRequest
<1>6. QED BY <1>1, <1>3, <1>4, <1>5 DEF LoadInv

LEMMA MatrixExcept ==
  ASSUME NEW x, Matrix(x), NEW c \in Clients, NEW row \in [Conns[c] -> [Clients -> Nat]]
  PROVE  Matrix([x EXCEPT ![c] = row])
  BY DEF Matrix

LEMMA LoadTypesStep == LoadInv /\ [Next]_vars => LoadTypes'
<1> SUFFICES ASSUME LoadInv, [Next]_vars PROVE LoadTypes'
  OBVIOUS
<1> USE DEF LoadInv
<1>1. ASSUME UNCHANGED <<stage, wire, got, verdict>> PROVE LoadTypes'
  BY <1>1 DEF LoadTypes, Matrix
<1>2. ASSUME NEW c \in Clients, NEW next \in Stages, Goes(c, next),
             UNCHANGED <<wire, got, verdict>>
      PROVE  LoadTypes'
  BY <1>2 DEF LoadTypes, Goes, Matrix
<1>3. \A c \in Clients : Nothing(c) \in [Conns[c] -> [Clients -> Nat]]
  BY DEF Nothing
<1>4. ASSUME NEW c \in Clients, Finish(c) PROVE LoadTypes'
  <2>1. wire' = [wire EXCEPT ![c] = Nothing(c)] /\ UNCHANGED got
    BY <1>4 DEF Finish, CloseAll
  <2>2. Matrix(wire)' /\ Matrix(got)'
    BY <1>3, <2>1, MatrixExcept DEF LoadTypes
  <2>3. stage' \in [Clients -> Stages]
    BY <1>4 DEF Finish, Goes, LoadTypes, Stages
  <2>4. verdict' \in [Clients -> {"none", "pass", "fail"}]
    BY <1>4 DEF Finish, LoadTypes
  <2>5. QED BY <2>2, <2>3, <2>4 DEF LoadTypes
<1>5. ASSUME NEW c \in Clients, Die(c) PROVE LoadTypes'
  <2>1. /\ wire' = [wire EXCEPT ![c] = Nothing(c)]
        /\ got' = [got EXCEPT ![c] = Nothing(c)]
    BY <1>5 DEF Die, CloseAll
  <2>2. Matrix(wire)' /\ Matrix(got)'
    BY <1>3, <2>1, MatrixExcept DEF LoadTypes
  <2>3. QED BY <1>5, <2>2 DEF Die, Goes, LoadTypes, Stages
<1>6. ASSUME NEW c \in Clients, PublishOne(c) PROVE LoadTypes'
  <2>1. wire' = [d \in Clients |-> [i \in Conns[d] |->
                  IF conn[d][i] = "served" THEN [wire[d][i] EXCEPT ![c] = @ + 1] ELSE wire[d][i]]]
    BY <1>6 DEF PublishOne
  <2>2. \A d \in Clients : \A i \in Conns[d] :
          /\ wire[d][i] \in [Clients -> Nat]
          /\ [wire[d][i] EXCEPT ![c] = @ + 1] \in [Clients -> Nat]
    BY DEF LoadTypes, Matrix
  <2>3. Matrix(wire)'
    BY <2>1, <2>2 DEF Matrix
  <2>4. QED BY <1>6, <2>3 DEF PublishOne, LoadTypes, Matrix
<1>7. ASSUME NEW c \in Clients, NEW i \in Conns[c], Cut(c, i) PROVE LoadTypes'
  BY <1>7 DEF Cut, LoadTypes, Matrix
<1>8. ASSUME NEW c \in Clients, NEW i \in Conns[c], NEW p \in Clients, Receive(c, i, p)
      PROVE  LoadTypes'
  <2> DEFINE left == [wire[c] EXCEPT ![i][p] = @ - 1]
             more == [got[c] EXCEPT ![i][p] = @ + 1]
  <2>1. wire[c] \in [Conns[c] -> [Clients -> Nat]] /\ got[c] \in [Conns[c] -> [Clients -> Nat]]
    BY DEF LoadTypes, Matrix
  <2>2. wire[c][i][p] - 1 \in Nat /\ got[c][i][p] + 1 \in Nat
    BY <1>8, <2>1 DEF Receive
  <2>3. left \in [Conns[c] -> [Clients -> Nat]]
    BY <2>1, <2>2
  <2>4. more \in [Conns[c] -> [Clients -> Nat]]
    BY <2>1, <2>2
  <2>5. wire' = [wire EXCEPT ![c] = left] /\ (got' = got \/ got' = [got EXCEPT ![c] = more])
    BY <1>8 DEF Receive
  <2>6. Matrix(wire) /\ Matrix(got)
    BY DEF LoadTypes
  <2> HIDE DEF left, more
  <2>7. Matrix([wire EXCEPT ![c] = left]) /\ Matrix([got EXCEPT ![c] = more])
    BY <2>3, <2>4, <2>6, MatrixExcept
  <2>8. Matrix(wire')
    BY <2>5, <2>7
  <2>9. Matrix(got')
    BY <2>5, <2>6, <2>7
  <2>10. QED BY <1>8, <2>8, <2>9 DEF Receive, LoadTypes, Matrix
<1>9. ASSUME NEW c \in Clients, Settled(c) \/ AskPublish(c) \/ TakeAnswer(c) PROVE LoadTypes'
  BY <1>2, <1>9 DEF Settled, AskPublish, TakeAnswer, trafficVars, Stages
<1>10. ASSUME NEW c \in Clients,
              Claim(c) \/ PublishFails(c) \/ Reject(c) \/ DropRequest(c)
       PROVE  LoadTypes'
  BY <1>1, <1>10 DEF Claim, PublishFails, Reject, DropRequest, trafficVars
<1>11. ASSUME NEW c \in Clients, NEW i \in Conns[c], Connect(c, i) \/ Serve(c, i)
       PROVE  LoadTypes'
  BY <1>1, <1>11 DEF Connect, Serve, trafficVars
<1>12. CASE UNCHANGED vars
  BY <1>1, <1>12 DEF vars
<1>13. QED
  BY <1>4, <1>5, <1>6, <1>7, <1>8, <1>9, <1>10, <1>11, <1>12 DEF Next, Generator, Server

(* A request that moves on without publishing keeps its counts.            *)
LEMMA RequestMoves ==
  ASSUME ServerTypes, NEW c \in Clients,
         NEW next \in {"none", "sent", "running", "refused", "answered", "dropped"},
         request' = [request EXCEPT ![c].pc = next]
  PROVE  \A d \in Clients :
           /\ request'[d].succeeded = request[d].succeeded
           /\ request'[d].failed = request[d].failed
           /\ request'[d].pc = IF d = c THEN next ELSE request[d].pc
  BY DEF ServerTypes, Requests

LEMMA ProgressCounts ==
  ASSUME ServerTypes, NEW c \in Clients, Runs(c), NEW ok \in BOOLEAN, Progress(c, ok)
  PROVE  /\ \A d \in Clients \ {c} : request'[d] = request[d]
         /\ request'[c].succeeded = IF ok THEN request[c].succeeded + 1 ELSE request[c].succeeded
         /\ request'[c].failed = IF ok THEN request[c].failed ELSE request[c].failed + 1
         /\ request'[c].pc = IF ~ok \/ request[c].succeeded + 1 = Total
                             THEN "answered" ELSE "running"
<1> DEFINE r == request[c]
           next == IF ok THEN [r EXCEPT !.succeeded = @ + 1] ELSE [r EXCEPT !.failed = @ + 1]
           over == ~ok \/ next.succeeded = Total
<1>1. request' = [request EXCEPT ![c] = IF over THEN [next EXCEPT !.pc = "answered"] ELSE next]
  BY Zenon DEF Progress
<1>2. r \in Requests /\ r.pc = "running"
  BY DEF ServerTypes, Runs
<1>3. /\ next \in Requests /\ next.pc = "running"
      /\ next.succeeded = IF ok THEN r.succeeded + 1 ELSE r.succeeded
      /\ next.failed = IF ok THEN r.failed ELSE r.failed + 1
  BY <1>2 DEF Requests
<1>4. over <=> ~ok \/ r.succeeded + 1 = Total
  BY <1>3
<1> HIDE DEF r, next, over
<1>5. /\ [next EXCEPT !.pc = "answered"].pc = "answered"
      /\ [next EXCEPT !.pc = "answered"].succeeded = next.succeeded
      /\ [next EXCEPT !.pc = "answered"].failed = next.failed
  BY <1>3 DEF Requests
<1>6. request'[c] = IF over THEN [next EXCEPT !.pc = "answered"] ELSE next
  BY <1>1 DEF ServerTypes
<1>7. \A d \in Clients \ {c} : request'[d] = request[d]
  BY <1>1 DEF ServerTypes
<1>8. /\ request'[c].succeeded = next.succeeded
      /\ request'[c].failed = next.failed
      /\ request'[c].pc = IF over THEN "answered" ELSE "running"
  BY <1>3, <1>5, <1>6
<1>9. QED BY <1>3, <1>4, <1>7, <1>8 DEF r

LEMMA RunCountsStep == LoadInv /\ [Next]_vars => RunCounts'
<1> SUFFICES ASSUME LoadInv, [Next]_vars PROVE RunCounts'
  OBVIOUS
<1>1. ServerTypes /\ RunCounts /\ LoadTypes
  BY DEF LoadInv, ServerInv
<1>2. \A c \in Clients : request[c].succeeded \in Nat /\ request[c].failed \in Nat
  BY <1>1 DEF ServerTypes, Requests
<1>3. ASSUME UNCHANGED <<request, stage>> PROVE RunCounts'
  BY <1>1, <1>3 DEF RunCounts, RequestCounts
<1>4. ASSUME NEW c \in Clients, NEW next \in Stages, Goes(c, next), UNCHANGED request,
             next \in {"settle", "warm"} => stage[c] \in {"settle", "warm"}
      PROVE  RunCounts'
  BY <1>1, <1>4 DEF Goes, LoadTypes, RunCounts, RequestCounts
<1>5. ASSUME NEW c \in Clients, UNCHANGED stage, request[c].pc \in {"sent", "running"},
             NEW next \in {"running", "refused", "dropped"},
             next = "running" => request[c].pc = "sent",
             request' = [request EXCEPT ![c].pc = next]
      PROVE  RunCounts'
  BY <1>1, <1>2, <1>5, RequestMoves DEF RunCounts, RequestCounts
<1>6. ASSUME NEW c \in Clients, AskPublish(c) PROVE RunCounts'
  <2>1. request[c].pc = "none"
    BY <1>1, <1>6 DEF AskPublish, RunCounts, RequestCounts
  <2>2. \A d \in Clients :
           /\ request'[d].succeeded = request[d].succeeded
           /\ request'[d].failed = request[d].failed
           /\ request'[d].pc = IF d = c THEN "sent" ELSE request[d].pc
    BY <1>1, <1>6, RequestMoves DEF AskPublish
  <2>3. \A d \in Clients : stage'[d] = IF d = c THEN "asking" ELSE stage[d]
    BY <1>1, <1>6 DEF AskPublish, Goes, LoadTypes
  <2>4. QED BY <1>1, <2>1, <2>2, <2>3 DEF RunCounts, RequestCounts
<1>7. ASSUME NEW c \in Clients, Claim(c) PROVE RunCounts'
  BY <1>5, <1>7 DEF Claim
<1>8. ASSUME NEW c \in Clients, Reject(c) \/ DropRequest(c) PROVE RunCounts'
  BY <1>5, <1>8 DEF Reject, DropRequest
<1>9. ASSUME NEW c \in Clients, NEW ok \in BOOLEAN, Runs(c), Progress(c, ok), UNCHANGED stage
      PROVE  RunCounts'
  <2>1. /\ request[c].succeeded < Total /\ request[c].failed = 0
        /\ stage[c] \notin {"settle", "warm"}
    BY <1>1, <1>9 DEF RunCounts, RequestCounts, Runs
  <2>2. /\ \A d \in Clients \ {c} : request'[d] = request[d]
        /\ request'[c].succeeded = IF ok THEN request[c].succeeded + 1 ELSE request[c].succeeded
        /\ request'[c].failed = IF ok THEN request[c].failed ELSE request[c].failed + 1
        /\ request'[c].pc = IF ~ok \/ request[c].succeeded + 1 = Total
                            THEN "answered" ELSE "running"
    BY <1>1, <1>9, ProgressCounts
  <2>3. RequestCounts(c)'
    BY <1>2, <1>9, <2>1, <2>2 DEF RequestCounts
  <2>4. \A d \in Clients \ {c} : RequestCounts(d)'
    BY <1>1, <1>9, <2>2 DEF RunCounts, RequestCounts
  <2>5. QED BY <2>3, <2>4 DEF RunCounts
<1>10. ASSUME NEW c \in Clients, PublishOne(c) \/ PublishFails(c) PROVE RunCounts'
  BY <1>9, <1>10 DEF PublishOne, PublishFails, Runs
<1>11. ASSUME NEW c \in Clients, Settled(c) \/ TakeAnswer(c) \/ Finish(c) \/ Die(c)
       PROVE  RunCounts'
  BY <1>4, <1>11 DEF Settled, TakeAnswer, Finish, Die, serverVars, Stages
<1>12. ASSUME NEW c \in Clients, NEW i \in Conns[c], NEW p \in Clients,
              Connect(c, i) \/ Serve(c, i) \/ Cut(c, i) \/ Receive(c, i, p)
       PROVE  RunCounts'
  BY <1>3, <1>12 DEF Connect, Serve, Cut, Receive, serverVars
<1>13. CASE UNCHANGED vars
  BY <1>3, <1>13 DEF vars
<1>14. QED
  BY <1>6, <1>7, <1>8, <1>10, <1>11, <1>12, <1>13 DEF Next, Generator, Server

LEMMA CellTypes ==
  ASSUME LoadTypes, NEW c \in Clients, NEW i \in Conns[c], NEW p \in Clients
  PROVE  wire[c][i][p] \in Nat /\ got[c][i][p] \in Nat
  BY DEF LoadTypes, Matrix

(* No run takes back what it published.                                    *)
LEMMA RunsOnlyGrow ==
  ASSUME LoadInv, [Next]_vars
  PROVE  \A p \in Clients : request[p].succeeded <= request'[p].succeeded
<1>1. ServerTypes /\ \A c \in Clients : request[c].succeeded \in Nat
  BY DEF LoadInv, ServerInv, ServerTypes, Requests
<1>2. ASSUME NEW c \in Clients, Claim(c) \/ Reject(c) \/ DropRequest(c) \/ AskPublish(c)
      PROVE  \A p \in Clients : request[p].succeeded <= request'[p].succeeded
  <2>1. PICK next \in {"none", "sent", "running", "refused", "answered", "dropped"} :
          request' = [request EXCEPT ![c].pc = next]
    BY <1>2 DEF Claim, Reject, DropRequest, AskPublish
  <2>2. QED BY <1>1, <2>1, RequestMoves
<1>3. ASSUME NEW c \in Clients, PublishOne(c) \/ PublishFails(c)
      PROVE  \A p \in Clients : request[p].succeeded <= request'[p].succeeded
  <2>1. PICK ok \in BOOLEAN : Progress(c, ok)
    BY <1>3 DEF PublishOne, PublishFails
  <2>2. Runs(c)
    BY <1>3 DEF PublishOne, PublishFails, Runs
  <2>3. /\ \A d \in Clients \ {c} : request'[d] = request[d]
        /\ request'[c].succeeded = IF ok THEN request[c].succeeded + 1 ELSE request[c].succeeded
    BY <1>1, <2>1, <2>2, ProgressCounts
  <2>4. QED BY <1>1, <2>3
<1>4. ASSUME UNCHANGED request
      PROVE  \A p \in Clients : request[p].succeeded <= request'[p].succeeded
  BY <1>1, <1>4
<1>5. ASSUME NEW c \in Clients, Settled(c) \/ TakeAnswer(c) \/ Finish(c) \/ Die(c)
      PROVE  UNCHANGED request
  BY <1>5 DEF Settled, TakeAnswer, Finish, Die, serverVars
<1>6. ASSUME NEW c \in Clients, NEW i \in Conns[c], NEW p \in Clients,
             Connect(c, i) \/ Serve(c, i) \/ Cut(c, i) \/ Receive(c, i, p)
      PROVE  UNCHANGED request
  BY <1>6 DEF Connect, Serve, Cut, Receive, serverVars
<1>7. QED
  BY <1>2, <1>3, <1>4, <1>5, <1>6 DEF Next, Generator, Server, vars

LEMMA NoneInventedStep == LoadInv /\ [Next]_vars => NoneInvented'
<1> SUFFICES ASSUME LoadInv, [Next]_vars PROVE NoneInvented'
  OBVIOUS
<1>1. LoadTypes /\ ServerTypes /\ NoneInvented /\ LoadTypes'
  BY LoadTypesStep DEF LoadInv, ServerInv
<1>2. \A p \in Clients : request[p].succeeded <= request'[p].succeeded
  BY RunsOnlyGrow
<1>3. ServerTypes' /\ \A p \in Clients : request[p].succeeded \in Nat /\ request'[p].succeeded \in Nat
  BY ServerStep DEF LoadInv, ServerInv, ServerTypes, Requests
<1>4. ASSUME \A c, p \in Clients : \A i \in Conns[c] :
               got'[c][i][p] + wire'[c][i][p] <= got[c][i][p] + wire[c][i][p]
      PROVE  NoneInvented'
  <2> SUFFICES ASSUME NEW c \in Clients, NEW p \in Clients, NEW i \in Conns[c]
               PROVE  got'[c][i][p] + wire'[c][i][p] <= request'[p].succeeded
    BY DEF NoneInvented
  <2>1. /\ got[c][i][p] \in Nat /\ wire[c][i][p] \in Nat
        /\ got'[c][i][p] \in Nat /\ wire'[c][i][p] \in Nat
    BY <1>1 DEF LoadTypes, Matrix
  <2>2. got[c][i][p] + wire[c][i][p] <= request[p].succeeded
    BY <1>1 DEF NoneInvented
  <2>3. QED BY <1>2, <1>3, <1>4, <2>1, <2>2
<1>5. ASSUME UNCHANGED trafficVars PROVE NoneInvented'
  <2>1. \A c, p \in Clients : \A i \in Conns[c] :
           got[c][i][p] + wire[c][i][p] <= got[c][i][p] + wire[c][i][p]
    BY <1>1, CellTypes
  <2>2. QED BY <1>4, <1>5, <2>1 DEF trafficVars
<1>6. ASSUME NEW c \in Clients, PublishOne(c) PROVE NoneInvented'
  <2> SUFFICES ASSUME NEW d \in Clients, NEW p \in Clients, NEW i \in Conns[d]
               PROVE  got'[d][i][p] + wire'[d][i][p] <= request'[p].succeeded
    BY DEF NoneInvented
  <2>1. got[d][i][p] \in Nat /\ wire[d][i][p] \in Nat
    BY <1>1, CellTypes
  <2>2. got[d][i][p] + wire[d][i][p] <= request[p].succeeded
    BY <1>1 DEF NoneInvented
  <2>3. wire[d][i] \in [Clients -> Nat]
    BY <1>1 DEF LoadTypes, Matrix
  <2>4. wire'[d][i] = wire[d][i] \/ wire'[d][i] = [wire[d][i] EXCEPT ![c] = @ + 1]
    BY <1>6 DEF PublishOne
  <2>5. wire'[d][i][p] = wire[d][i][p] \/ (p = c /\ wire'[d][i][p] = wire[d][i][p] + 1)
    BY <2>3, <2>4
  <2>6. request'[c].succeeded = request[c].succeeded + 1
    BY <1>1, <1>6, ProgressCounts DEF PublishOne, Runs
  <2>7. got' = got
    BY <1>6 DEF PublishOne
  <2>8. QED BY <1>2, <1>3, <2>1, <2>2, <2>5, <2>6, <2>7
<1>7. ASSUME NEW c \in Clients, NEW i \in Conns[c], Cut(c, i) PROVE NoneInvented'
  <2>1. ASSUME NEW d \in Clients, NEW p \in Clients, NEW j \in Conns[d]
        PROVE  wire'[d][j][p] = 0 \/ wire'[d][j][p] = wire[d][j][p]
    BY <1>1, <1>7 DEF Cut, LoadTypes, Matrix
  <2>2. UNCHANGED got
    BY <1>7 DEF Cut
  <2>3. \A d, p \in Clients : \A j \in Conns[d] :
           got[d][j][p] + wire'[d][j][p] <= got[d][j][p] + wire[d][j][p]
    BY <1>1, <2>1, CellTypes
  <2>4. QED BY <1>4, <2>2, <2>3
<1>8. ASSUME NEW c \in Clients, NEW i \in Conns[c], NEW q \in Clients, Receive(c, i, q)
      PROVE  NoneInvented'
  <2>1. ASSUME NEW d \in Clients, NEW p \in Clients, NEW j \in Conns[d]
        PROVE  got'[d][j][p] + wire'[d][j][p] <= got[d][j][p] + wire[d][j][p]
    <3>1. /\ got[d][j][p] \in Nat /\ wire[d][j][p] \in Nat
          /\ wire[d] \in [Conns[d] -> [Clients -> Nat]]
          /\ got[d] \in [Conns[d] -> [Clients -> Nat]]
      BY <1>1, CellTypes DEF LoadTypes, Matrix
    <3>2. CASE d = c /\ j = i /\ p = q
      <4>1. wire'[d][j][p] = wire[d][j][p] - 1
        BY <1>1, <1>8, <3>1, <3>2 DEF Receive, LoadTypes, Matrix
      <4>2. got'[d][j][p] = got[d][j][p] \/ got'[d][j][p] = got[d][j][p] + 1
        BY <1>1, <1>8, <3>1, <3>2 DEF Receive, LoadTypes, Matrix
      <4>3. QED BY <3>1, <4>1, <4>2
    <3>3. CASE ~(d = c /\ j = i /\ p = q)
      <4> DEFINE left == [wire[c] EXCEPT ![i][q] = @ - 1]
                 more == [got[c] EXCEPT ![i][q] = @ + 1]
      <4>0. /\ wire' = [wire EXCEPT ![c] = left]
            /\ got' = got \/ got' = [got EXCEPT ![c] = more]
            /\ DOMAIN wire = Clients /\ DOMAIN got = Clients
        BY <1>1, <1>8 DEF Receive, LoadTypes, Matrix
      <4>a. d = c => left[j][p] = wire[d][j][p] /\ more[j][p] = got[d][j][p]
        BY <3>1, <3>3
      <4> HIDE DEF left, more
      <4>1. wire'[d][j][p] = wire[d][j][p]
        BY <4>0, <4>a
      <4>2. got'[d][j][p] = got[d][j][p]
        BY <4>0, <4>a
      <4>3. QED BY <3>1, <4>1, <4>2
    <3>4. QED BY <3>2, <3>3
  <2>2. QED BY <1>4, <2>1
<1>9. ASSUME NEW c \in Clients, CloseAll(c),
             got' = got \/ got' = [got EXCEPT ![c] = Nothing(c)]
      PROVE  NoneInvented'
  <2>1. ASSUME NEW d \in Clients, NEW p \in Clients, NEW j \in Conns[d]
        PROVE  got'[d][j][p] + wire'[d][j][p] <= got[d][j][p] + wire[d][j][p]
    <3>1. got[d][j][p] \in Nat /\ wire[d][j][p] \in Nat
      BY <1>1, CellTypes
    <3>2. wire'[d][j][p] = 0 \/ wire'[d][j][p] = wire[d][j][p]
      BY <1>1, <1>9 DEF CloseAll, Nothing, LoadTypes, Matrix
    <3>3. got'[d][j][p] = 0 \/ got'[d][j][p] = got[d][j][p]
      BY <1>1, <1>9 DEF Nothing, LoadTypes, Matrix
    <3>4. QED BY <3>1, <3>2, <3>3
  <2>2. QED BY <1>4, <2>1
<1>10. ASSUME NEW c \in Clients, Finish(c) \/ Die(c) PROVE NoneInvented'
  BY <1>9, <1>10 DEF Finish, Die
<1>11. ASSUME NEW c \in Clients,
              \/ Settled(c) \/ AskPublish(c) \/ TakeAnswer(c)
              \/ Claim(c) \/ PublishFails(c) \/ Reject(c) \/ DropRequest(c)
       PROVE  NoneInvented'
  BY <1>5, <1>11 DEF Settled, AskPublish, TakeAnswer, Claim, PublishFails, Reject, DropRequest
<1>12. ASSUME NEW c \in Clients, NEW i \in Conns[c], Connect(c, i) \/ Serve(c, i)
       PROVE  NoneInvented'
  BY <1>5, <1>12 DEF Connect, Serve
<1>13. CASE UNCHANGED vars
  BY <1>5, <1>13 DEF vars, trafficVars
<1>14. QED
  BY <1>6, <1>7, <1>8, <1>10, <1>11, <1>12, <1>13 DEF Next, Generator, Server

(* Products of naturals, which the provers need to be told of.             *)
LEMMA ProductsGrow ==
  ASSUME NEW a \in Nat, NEW b \in Nat, a <= b, NEW k \in Nat
  PROVE  a * k \in Nat /\ b * k \in Nat /\ a * k <= b * k
<1>1. PICK d \in Nat : b = a + d
  <2>1. b - a \in Nat /\ b = a + (b - a)
    OBVIOUS
  <2>2. QED BY <2>1
<1>2. b * k = a * k + d * k /\ a * k \in Nat /\ d * k \in Nat
  BY <1>1
<1>3. QED BY <1>2

LEMMA ProductIsPositive ==
  ASSUME NEW a \in Nat, NEW b \in Nat, a > 0, b > 0
  PROVE  a * b \in Nat /\ a * b > 0
<1>1. 1 * b <= a * b /\ a * b \in Nat
  BY ProductsGrow
<1>2. QED BY <1>1

LEMMA Sizes ==
  ASSUME NEW c \in Clients
  PROVE  /\ Cardinality(Conns[c]) \in Nat /\ Cardinality(Conns[c]) > 0
         /\ Total \in Nat /\ Total > 0 /\ OneIn \in Nat /\ OneIn > 1
         /\ AchievedPercent \in Nat /\ AchievedPercent > 0
<1>1. Cardinality(Conns[c]) \in Nat
  BY FS_CardinalityType
<1>2. Cardinality(Conns[c]) # 0
  BY FS_EmptySet
<1>3. QED BY <1>1, <1>2

(* What a generator received, if no other run's events reached it.         *)
LEMMA OwnEventsOnly ==
  ASSUME LoadInv, NEW c \in Clients, OnlyOwnEvents(c)
  PROVE  LET published == request[c].succeeded
             due == published * Cardinality(Conns[c])
         IN /\ published \in Nat
            /\ Received(c) \in Nat /\ Received(c) <= due
            /\ \A i \in Conns[c] :
                 Lost(c, i) \in Nat /\ Lost(c, i) <= due - Received(c)
<1> DEFINE m == request[c].succeeded
<1>1. ASSUME NEW i \in Conns[c]
      PROVE  /\ m \in Nat /\ got[c][i][c] \in Nat /\ got[c][i][c] <= m
             /\ OfConn(c)[i] = got[c][i][c]
  <2>1. got[c][i][c] \in Nat /\ wire[c][i][c] \in Nat
    BY CellTypes DEF LoadInv
  <2>2. got[c][i][c] + wire[c][i][c] <= m
    BY DEF LoadInv, NoneInvented
  <2>3. m \in Nat
    BY DEF LoadInv, ServerInv, ServerTypes, Requests
  <2>4. \A p \in Clients \ {c} : got[c][i][p] = 0
    BY DEF OnlyOwnEvents
  <2>5. FoldFunctionOnSet(+, 0, got[c][i], Clients) = got[c][i][c]
    <3>1. got[c][i][c] \in Nat /\ \A p \in Clients \ {c} : got[c][i][p] = 0
      BY <2>1, <2>4
    <3>2. PICK g : /\ IsSum(got[c][i], g, Clients)
                   /\ FoldFunctionOnSet(+, 0, got[c][i], Clients) = g[Clients]
      BY FoldIsSum
    <3> DEFINE f == got[c][i]
    <3>3. IsSum(f, g, Clients) /\ f[c] \in Nat /\ \A p \in Clients \ {c} : f[p] = 0
      BY <3>1, <3>2
    <3> HIDE DEF f
    <3>4. g[Clients] = f[c]
      BY <3>3, SumOfOne
    <3>5. QED BY <3>2, <3>4 DEF f
  <2>6. OfConn(c)[i] = got[c][i][c]
    BY <2>5, Zenon DEF OfConn
  <2>7. QED BY <2>1, <2>2, <2>3, <2>6
<1> DEFINE h == OfConn(c)
           due == m * Cardinality(Conns[c])
<1>2. m \in Nat /\ due \in Nat
  <2>1. m \in Nat /\ Cardinality(Conns[c]) \in Nat
    BY Sizes DEF LoadInv, ServerInv, ServerTypes, Requests
  <2>2. QED BY <2>1, ProductsGrow
<1>3. \A i \in Conns[c] : h[i] \in Nat /\ h[i] <= m
  BY <1>1
<1>4. PICK g : IsSum(h, g, Conns[c]) /\ Received(c) = g[Conns[c]]
  BY ReceivedIsSum
<1>5. \A i \in Conns[c] : h[i] = got[c][i][c]
  BY <1>1
<1> HIDE DEF h, m
<1>6. \A s \in SUBSET Conns[c] :
        /\ g[s] \in Nat /\ g[s] <= m * Cardinality(s)
        /\ \A i \in s : g[s] + m <= m * Cardinality(s) + h[i]
  BY <1>2, <1>3, <1>4, SumOfBounded
<1>7. /\ Received(c) \in Nat /\ Received(c) <= due
      /\ \A i \in Conns[c] : Received(c) + m <= due + h[i]
  BY <1>4, <1>6
<1> HIDE DEF due
<1>8. ASSUME NEW i \in Conns[c]
      PROVE  Lost(c, i) \in Nat /\ Lost(c, i) <= due - Received(c)
  <2>1. Lost(c, i) = m - h[i]
    BY <1>5 DEF Lost, m
  <2>2. QED BY <1>2, <1>3, <1>7, <2>1
<1>9. QED BY <1>2, <1>7, <1>8 DEF m, due

LEMMA PassingBoundsLoss ==
  ASSUME LoadInv, NEW c \in Clients, Passes(c)
  PROVE  /\ request[c].pc = "answered"
         /\ OnlyOwnEvents(c) => LossIsBounded(c)
<1> DEFINE m == request[c].succeeded
           k == Cardinality(Conns[c])
           due == m * k
<1>1. m \in Nat /\ m <= Total /\ request[c].failed \in Nat
  BY DEF LoadInv, ServerInv, ServerTypes, Requests, RunCounts, RequestCounts
<1>2. Failed(c) * OneIn <= Total
  BY DEF Passes, ErrorRateOk
<1>3. request[c].pc = "answered"
  <2> SUFFICES ASSUME request[c].pc # "answered" PROVE FALSE
    OBVIOUS
  <2>1. Failed(c) = Total
    BY DEF Failed
  <2>2. 2 * Total <= OneIn * Total
    BY Sizes, ProductsGrow
  <2>3. OneIn * Total = Total * OneIn
    BY Sizes
  <2>4. QED BY <1>2, <2>1, <2>2, <2>3, Sizes
<1>4. Succeeded(c) = m /\ Failed(c) = request[c].failed
  BY <1>3 DEF Succeeded, Failed
<1>5. m * 100 >= Total * AchievedPercent
  BY <1>4 DEF Passes
<1>6. m < Total => OneIn <= Total
  <2> SUFFICES ASSUME m < Total PROVE OneIn <= Total
    OBVIOUS
  <2>1. request[c].failed = 1
    BY <1>1, <1>3 DEF LoadInv, RunCounts, RequestCounts
  <2>2. QED BY <1>2, <1>4, <2>1, Sizes
<1>7. m > 0
  <2>1. Total * AchievedPercent \in Nat /\ Total * AchievedPercent > 0
    BY Sizes, ProductIsPositive
  <2>2. QED BY <1>1, <1>5, <2>1
<1>8. due \in Nat /\ due > 0
  BY <1>1, <1>7, Sizes, ProductIsPositive
<1>9. ASSUME OnlyOwnEvents(c), NEW i \in Conns[c]
      PROVE  Lost(c, i) >= 0 /\ Lost(c, i) * OneIn <= due
  <2>1. /\ Received(c) \in Nat /\ Received(c) <= due
        /\ Lost(c, i) \in Nat /\ Lost(c, i) <= due - Received(c)
    BY <1>9, OwnEventsOnly
  <2> DEFINE missing == IF Received(c) < due THEN due - Received(c) ELSE 0
  <2>2. counted[c] = Conns[c]
    BY DEF Passes
  <2>3. missing * OneIn <= due
    BY <1>4, <1>8, <2>2 DEF Passes, ErrorRateOk
  <2> HIDE DEF due
  <2>4. missing \in Nat /\ Lost(c, i) <= missing
    BY <1>8, <2>1
  <2>5. Lost(c, i) * OneIn \in Nat /\ missing * OneIn \in Nat
        /\ Lost(c, i) * OneIn <= missing * OneIn
    <3> HIDE DEF missing
    <3> QED BY <2>1, <2>4, Sizes, ProductsGrow
  <2>6. QED
    <3> HIDE DEF missing
    <3> QED BY <1>8, <2>1, <2>3, <2>5
<1>10. QED BY <1>3, <1>5, <1>6, <1>9 DEF LossIsBounded

(* A verdict stays founded while what it was founded on is left alone.     *)
LEMMA LossIsKept ==
  ASSUME NEW c \in Clients, got'[c] = got[c], request'[c] = request[c]
  PROVE  /\ OnlyOwnEvents(c)' <=> OnlyOwnEvents(c)
         /\ LossIsBounded(c)' <=> LossIsBounded(c)
<1>1. \A i \in Conns[c] : Lost(c, i)' = Lost(c, i)
  BY DEF Lost
<1>2. OnlyOwnEvents(c)' <=> OnlyOwnEvents(c)
  BY DEF OnlyOwnEvents
<1>3. LossIsBounded(c)' <=> LossIsBounded(c)
  BY <1>1 DEF LossIsBounded
<1>4. QED BY <1>2, <1>3

LEMMA JudgedStep ==
  ASSUME LoadInv, [Next]_vars
  PROVE  Judged'
<1>1. /\ LoadTypes /\ Judged /\ ServerTypes
      /\ \A c \in Clients : verdict[c] = "pass" =>
           /\ stage[c] = "done" /\ request[c].pc = "answered"
           /\ OnlyOwnEvents(c) => LossIsBounded(c)
  BY DEF LoadInv, ServerInv, Judged
<1>2. ASSUME \A c \in Clients : verdict'[c] = "pass" =>
               /\ verdict[c] = "pass"
               /\ stage'[c] = stage[c] /\ got'[c] = got[c] /\ request'[c] = request[c]
      PROVE  Judged'
  <2> SUFFICES ASSUME NEW c \in Clients, verdict'[c] = "pass"
               PROVE  /\ stage'[c] = "done" /\ request'[c].pc = "answered"
                      /\ OnlyOwnEvents(c)' => LossIsBounded(c)'
    BY DEF Judged
  <2>1. /\ verdict[c] = "pass"
        /\ stage'[c] = stage[c] /\ got'[c] = got[c] /\ request'[c] = request[c]
    BY <1>2
  <2>2. /\ stage[c] = "done" /\ request[c].pc = "answered"
        /\ OnlyOwnEvents(c) => LossIsBounded(c)
    BY <1>1, <2>1
  <2>3. QED BY <2>1, <2>2, LossIsKept
<1>3. ASSUME UNCHANGED <<request, stage, verdict, got>> PROVE Judged'
  BY <1>2, <1>3
<1>4. ASSUME NEW c \in Clients, NEW next \in Stages, Goes(c, next), stage[c] # "done",
             UNCHANGED verdict,
             \A d \in Clients \ {c} : got'[d] = got[d] /\ request'[d] = request[d]
      PROVE  Judged'
  <2>1. \A d \in Clients : verdict[d] = "pass" => d # c
    BY <1>1, <1>4
  <2>2. \A d \in Clients \ {c} : stage'[d] = stage[d]
    BY <1>1, <1>4 DEF LoadTypes, Goes
  <2>3. QED BY <1>2, <1>4, <2>1, <2>2
<1>5. ASSUME NEW c \in Clients, Finish(c) PROVE Judged'
  <2>1. stage' = [stage EXCEPT ![c] = "done"] /\ UNCHANGED <<request, got>>
    BY <1>5 DEF Finish, Goes, serverVars
  <2>2. \A d \in Clients : stage'[d] = IF d = c THEN "done" ELSE stage[d]
    BY <1>1, <2>1 DEF LoadTypes
  <2>3. PICK fast \in BOOLEAN :
          verdict' = [verdict EXCEPT ![c] = IF fast /\ Passes(c) THEN "pass" ELSE "fail"]
    BY <1>5 DEF Finish
  <2>4. \A d \in Clients \ {c} : verdict'[d] = verdict[d]
    BY <1>1, <2>3 DEF LoadTypes
  <2>5. verdict'[c] = "pass" => Passes(c)
    BY <1>1, <2>3 DEF LoadTypes
  <2>6. ASSUME NEW d \in Clients, verdict'[d] = "pass"
        PROVE  /\ stage'[d] = "done" /\ request[d].pc = "answered"
               /\ OnlyOwnEvents(d) => LossIsBounded(d)
    <3>1. CASE d = c
      BY <2>2, <2>5, <2>6, <3>1, PassingBoundsLoss
    <3>2. CASE d # c
      BY <1>1, <2>2, <2>4, <2>6, <3>2
    <3>3. QED BY <3>1, <3>2
  <2>7. \A d \in Clients : got'[d] = got[d] /\ request'[d] = request[d]
    BY <2>1
  <2>8. \A d \in Clients : /\ OnlyOwnEvents(d)' <=> OnlyOwnEvents(d)
                           /\ LossIsBounded(d)' <=> LossIsBounded(d)
    BY <2>7, LossIsKept
  <2>9. QED BY <2>6, <2>7, <2>8 DEF Judged
<1>6. ASSUME NEW c \in Clients, Die(c) PROVE Judged'
  <2>1. stage[c] # "done" /\ UNCHANGED <<request, verdict>> /\ Goes(c, "dead")
    BY <1>6 DEF Die, Lives, serverVars
  <2>2. \A d \in Clients \ {c} : got'[d] = got[d]
    BY <1>1, <1>6 DEF Die, LoadTypes, Matrix
  <2>3. QED BY <1>4, <2>1, <2>2 DEF Stages
<1>7. ASSUME NEW c \in Clients, NEW i \in Conns[c], NEW p \in Clients, Receive(c, i, p)
      PROVE  Judged'
  <2>1. stage[c] # "done" /\ UNCHANGED <<request, stage, verdict>>
    BY <1>7 DEF Receive, Lives, serverVars
  <2>2. \A d \in Clients \ {c} : got'[d] = got[d]
    BY <1>1, <1>7 DEF Receive, LoadTypes, Matrix
  <2>3. \A d \in Clients : verdict[d] = "pass" => d # c
    BY <1>1, <2>1
  <2>4. QED BY <1>2, <2>1, <2>2, <2>3
<1>8. ASSUME NEW c \in Clients, Settled(c) \/ AskPublish(c) \/ TakeAnswer(c) PROVE Judged'
  <2>1. stage[c] # "done" /\ UNCHANGED <<verdict, got>> /\ \E next \in Stages : Goes(c, next)
    BY <1>8 DEF Settled, AskPublish, TakeAnswer, trafficVars, Stages
  <2>2. \A d \in Clients \ {c} : request'[d] = request[d]
    BY <1>1, <1>8 DEF Settled, AskPublish, TakeAnswer, serverVars, ServerTypes
  <2>3. QED BY <1>4, <2>1, <2>2
<1>9. ASSUME NEW c \in Clients, \/ Claim(c) \/ Reject(c) \/ DropRequest(c)
                                \/ PublishOne(c) \/ PublishFails(c)
      PROVE  Judged'
  <2>1. request[c].pc # "answered" /\ UNCHANGED <<stage, verdict, got>>
    BY <1>9 DEF Claim, Reject, DropRequest, PublishOne, PublishFails, trafficVars
  <2>2. \A d \in Clients \ {c} : request'[d] = request[d]
    BY <1>1, <1>9 DEF Claim, Reject, DropRequest, PublishOne, PublishFails, Progress, ServerTypes
  <2>3. \A d \in Clients : verdict[d] = "pass" => d # c
    BY <1>1, <2>1
  <2>4. QED BY <1>2, <2>1, <2>2, <2>3
<1>10. ASSUME NEW c \in Clients, NEW i \in Conns[c], Connect(c, i) \/ Serve(c, i) \/ Cut(c, i)
       PROVE  Judged'
  BY <1>3, <1>10 DEF Connect, Serve, Cut, trafficVars, serverVars
<1>11. CASE UNCHANGED vars
  BY <1>3, <1>11 DEF vars
<1>12. QED
  BY <1>5, <1>6, <1>7, <1>8, <1>9, <1>10, <1>11 DEF Next, Generator, Server

(* What a step that passes can hide, for every number of events and every  *)
(* tolerance: a run that stopped early, if one failed attempt in as many   *)
(* events is tolerated and the achieved rate was reached; and on each of   *)
(* its connections no more of what was published than is tolerated of all  *)
(* deliveries.                                                             *)
THEOREM PassesBoundLoss == Spec => []PassBoundsLoss
<1>1. LoadInv /\ [Next]_vars => LoadInv'
  BY ServerStep, LoadTypesStep, RunCountsStep, NoneInventedStep, JudgedStep DEF LoadInv
<1>2. LoadInv => PassBoundsLoss
  BY DEF LoadInv, Judged, LossIsBounded, PassBoundsLoss
<1>3. QED BY LoadInit, <1>1, <1>2, PTL DEF Spec
=============================================================================
