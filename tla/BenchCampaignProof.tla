------------------------- MODULE BenchCampaignProof -------------------------
(***************************************************************************)
(* Proofs about BenchCampaign, for every fleet of servers, every set of    *)
(* profiles, all ladders, and any number of campaigns and faults.          *)
(***************************************************************************)
EXTENDS BenchCampaign, SequenceTheorems, WellFoundedInduction, TLAPS


-----------------------------------------------------------------------------
(* Slices are sequences of experiments.                                    *)

Exps == [id : Experiments, hardware : Profiles]

LEMMA EveryNatural ==
  ASSUME NEW T, 0 \in T, \A n \in Nat : n \in T => n + 1 \in T
  PROVE  Nat \subseteq T
<1> SUFFICES ASSUME Nat \ T # {} PROVE FALSE
  OBVIOUS
<1>1. PICK m \in Nat \ T : \A k \in Nat \ T : ~ (<<k, m>> \in OpToRel(<, Nat))
  BY NatLessThanWellFounded, WFMin, Zenon
<1>2. m - 1 \in Nat /\ m = (m - 1) + 1
  <2>1. m \in Nat /\ m # 0
    OBVIOUS
  <2>2. QED BY <2>1
<1>3. <<m - 1, m>> \in OpToRel(<, Nat)
  BY <1>1, <1>2 DEF OpToRel
<1>4. m - 1 \in T
  BY <1>1, <1>2, <1>3
<1>5. QED BY <1>1, <1>2, <1>4

(* FlattenSeq is a recursive function of the number of sequences joined.   *)
Joined(ss, g, i) == IF i = 1 THEN ss[i] ELSE g[i - 1] \o ss[i]

LEMMA JoinedExists ==
  ASSUME NEW n \in Nat, NEW ss
  PROVE  \E g : g = [i \in 1 .. n |-> Joined(ss, g, i)]
<1> DEFINE T == {k \in Nat : \E g : g = [i \in 1 .. k |-> Joined(ss, g, i)]}
<1>1. 0 \in T
  <2> DEFINE g == [i \in 1 .. 0 |-> 0]
  <2>1. g = [i \in 1 .. 0 |-> Joined(ss, g, i)]
    OBVIOUS
  <2>2. QED BY <2>1
<1>2. ASSUME NEW k \in Nat, k \in T PROVE k + 1 \in T
  <2>1. PICK g : g = [i \in 1 .. k |-> Joined(ss, g, i)]
    BY <1>2
  <2> DEFINE h == [i \in 1 .. k + 1 |-> IF i \in 1 .. k THEN g[i] ELSE Joined(ss, g, i)]
  <2>2. \A i \in 1 .. k + 1 : h[i] = Joined(ss, g, i)
    BY <2>1
  <2>3. \A i \in 1 .. k + 1 : i # 1 => h[i - 1] = g[i - 1]
    OBVIOUS
  <2>4. h = [i \in 1 .. k + 1 |-> h[i]]
    OBVIOUS
  <2> HIDE DEF h
  <2>5. \A i \in 1 .. k + 1 : h[i] = Joined(ss, h, i)
    BY <2>2, <2>3 DEF Joined
  <2>6. h = [i \in 1 .. k + 1 |-> Joined(ss, h, i)]
    BY <2>4, <2>5
  <2>7. QED BY <2>6
<1>3. Nat \subseteq T
  <2> HIDE DEF T
  <2> QED BY <1>1, <1>2, EveryNatural
<1>4. QED BY <1>3

LEMMA FlattenTypes ==
  ASSUME NEW S, NEW ss \in Seq(Seq(S))
  PROVE  FlattenSeq(ss) \in Seq(S)
<1>1. CASE Len(ss) = 0
  <2>1. ss = <<>>
    BY <1>1, EmptySeq
  <2>2. FlattenSeq(ss) = <<>>
    BY <1>1, <2>1 DEF FlattenSeq
  <2>3. QED BY <2>2
<1>2. CASE Len(ss) # 0
  <2> DEFINE n == Len(ss)
             g == CHOOSE g : g = [i \in 1 .. n |-> Joined(ss, g, i)]
  <2>1. n \in Nat /\ n >= 1
    BY <1>2
  <2>2. g = [i \in 1 .. n |-> Joined(ss, g, i)]
    <3> HIDE DEF n
    <3> QED BY <2>1, JoinedExists
  <2>3. FlattenSeq(ss) = g[n]
    BY <1>2, Zenon DEF FlattenSeq, Joined
  <2>4. \A i \in 1 .. n : ss[i] \in Seq(S)
    OBVIOUS
  <2> HIDE DEF g, n
  <2> DEFINE T == {k \in Nat : k + 1 <= n => g[k + 1] \in Seq(S)}
  <2>5. 0 \in T
    <3>1. g[1] = Joined(ss, g, 1)
      BY <2>1, <2>2
    <3>2. g[1] = ss[1]
      BY <3>1 DEF Joined
    <3>3. QED BY <2>1, <2>4, <3>2
  <2>6. ASSUME NEW k \in Nat, k \in T PROVE k + 1 \in T
    <3> SUFFICES ASSUME (k + 1) + 1 <= n PROVE g[(k + 1) + 1] \in Seq(S)
      OBVIOUS
    <3> DEFINE j == (k + 1) + 1
    <3>1. j \in 1 .. n /\ j # 1 /\ j - 1 = k + 1
      BY <2>1
    <3>2. g[k + 1] \in Seq(S)
      BY <2>1, <2>6
    <3> HIDE DEF j
    <3>3. g[j] = Joined(ss, g, j)
      BY <2>2, <3>1
    <3>4. g[j] = g[k + 1] \o ss[j]
      BY <3>1, <3>3 DEF Joined
    <3>5. g[j] \in Seq(S)
      BY <2>4, <3>1, <3>2, <3>4, ConcatProperties
    <3>6. QED BY <3>5 DEF j
  <2>7. Nat \subseteq T
    <3> HIDE DEF T
    <3> QED BY <2>5, <2>6, EveryNatural
  <2>8. n - 1 \in Nat /\ (n - 1) + 1 = n
    BY <2>1
  <2>9. g[n] \in Seq(S)
    <3>1. n - 1 \in T
      BY <2>7, <2>8
    <3>2. QED BY <2>1, <2>8, <3>1
  <2>10. QED BY <2>3, <2>9
<1>3. QED BY <1>1, <1>2

LEMMA OnTypes ==
  ASSUME NEW hardware \in Profiles, NEW xs \in Seq(Experiments)
  PROVE  /\ On(hardware, xs) \in Seq(Exps)
         /\ Len(On(hardware, xs)) = Len(xs)
         /\ \A n \in 1 .. Len(xs) : On(hardware, xs)[n] = [id |-> xs[n], hardware |-> hardware]
<1>1. DOMAIN xs = 1 .. Len(xs) /\ Len(xs) \in Nat
  OBVIOUS
<1>2. \A n \in 1 .. Len(xs) : [id |-> xs[n], hardware |-> hardware] \in Exps
  BY DEF Exps
<1>3. On(hardware, xs) = [n \in 1 .. Len(xs) |-> [id |-> xs[n], hardware |-> hardware]]
  BY <1>1 DEF On
<1>4. QED BY <1>1, <1>2, <1>3

LEMMA SliceTypes ==
  ASSUME NEW slice \in SliceNames, NEW hardware \in Profiles
  PROVE  SliceExperiments(slice, hardware) \in Seq(Exps)
<1>1. /\ <<"bm-pls0">> \in Seq(Experiments)
      /\ <<"bm-pls0", "bm-pls1">> \in Seq(Experiments)
      /\ <<"bm-pls0", "bm-pls5", "bm-pls0-hub", "bm-pls5-hub">> \in Seq(Experiments)
      /\ <<"bm-pls2", "bm-pls3">> \in Seq(Experiments)
      /\ <<"bm-pls4", "bm-pls5", "bm-pls6", "bm-pls7">> \in Seq(Experiments)
      /\ <<"bm-pls8">> \in Seq(Experiments)
      /\ <<"bm-pls9">> \in Seq(Experiments)
  BY DEF Experiments
<1>2. FlattenSeq([n \in DOMAIN Phase1 |-> On(Phase1[n], <<"bm-pls0", "bm-pls1">>)]) \in Seq(Exps)
  <2> DEFINE ss == [n \in DOMAIN Phase1 |-> On(Phase1[n], <<"bm-pls0", "bm-pls1">>)]
  <2>1. Phase1 \in Seq(Wired) /\ \A n \in 1 .. Len(Phase1) : Phase1[n] \in Profiles
    BY CampaignAssumption
  <2>2. \A n \in 1 .. Len(Phase1) : On(Phase1[n], <<"bm-pls0", "bm-pls1">>) \in Seq(Exps)
    BY <1>1, <2>1, OnTypes
  <2>3. DOMAIN Phase1 = 1 .. Len(Phase1) /\ Len(Phase1) \in Nat
    BY <2>1
  <2>4. ss \in Seq(Seq(Exps))
    BY <2>2, <2>3
  <2> HIDE DEF ss
  <2>5. FlattenSeq(ss) \in Seq(Exps)
    BY <2>4, FlattenTypes
  <2>6. QED BY <2>5 DEF ss
<1>3. QED BY <1>1, <1>2, OnTypes DEF SliceExperiments, SliceNames
-----------------------------------------------------------------------------
(* Types.                                                                  *)

Commands ==
  [wsMode : Modes \cup {None}, skip : BOOLEAN, connections : Nat,
   main : Servers \cup {None}, servers : SUBSET Servers, allow : BOOLEAN,
   slice : SliceNames \cup {None}, hardware : Profiles \cup {None}, from : Modes]
Sweeps ==
  [ensured : SUBSET Servers, ladder : Nat, rung : Nat, lastPass : Nat,
   failed : BOOLEAN, best : Nat, observedFail : BOOLEAN]
Histories ==
  [modes : SUBSET Modes, disturbed : BOOLEAN, verdicts : Seq(Nat \X Nat \X BOOLEAN),
   phantom : BOOLEAN]
Steps == {"idle", "next", "ensure", "load", "probe", "report", "writing"}

(* A report tells which experiment it is of.                               *)
IsReport(r, p) ==
  \/ r = Absent \/ r = Torn
  \/ \E e \in Exps, k \in Nat :
       ReportPath(e) = p /\ r = [is |-> "complete", of |-> e, start |-> k]

ServerTypes == mode \in [Servers -> Modes]
DiskTypes == DOMAIN disk = Paths /\ \A p \in Paths : IsReport(disk[p], p)
CommandTypes == cmd \in Commands /\ todo \in Seq(Exps) /\ pc \in Steps
SweepTypes == ex \in Sweeps /\ hist \in Histories
CountTypes == starts \in Nat /\ faults \in Nat

(* Between experiments nothing is left of the one before.                  *)
Busy == pc \notin {"idle", "next"}
Rests ==
  /\ pc = "idle" => cmd = Idle /\ todo = <<>>
  /\ pc # "idle" => cmd.main \in Servers
  /\ ~Busy => ex = NoSweep /\ hist = NoHistory
  /\ Busy => todo # <<>>

Core == ServerTypes /\ DiskTypes /\ CommandTypes /\ SweepTypes /\ CountTypes /\ Rests

LEMMA IdleTypes ==
  Idle \in Commands /\ NoSweep \in Sweeps /\ NoHistory \in Histories
<1>1. Boot \in Modes
  BY CampaignAssumption
<1>2. Idle \in Commands
  BY <1>1 DEF Idle, Commands
<1>3. NoSweep \in Sweeps
  BY DEF NoSweep, Sweeps
<1>4. NoHistory \in Histories
  BY DEF NoHistory, Histories
<1>5. QED BY <1>2, <1>3, <1>4

LEMMA CoreInit == Init => Core
<1> SUFFICES ASSUME Init PROVE Core
  OBVIOUS
<1>1. ServerTypes
  BY CampaignAssumption DEF Init, ServerTypes
<1>2. DiskTypes
  BY DEF Init, DiskTypes, IsReport
<1>3. CommandTypes
  BY IdleTypes DEF Init, CommandTypes, Steps
<1>4. SweepTypes
  BY IdleTypes DEF Init, SweepTypes
<1>5. CountTypes
  BY DEF Init, CountTypes
<1>6. Rests
  BY DEF Init, Rests, Busy
<1>7. QED BY <1>1, <1>2, <1>3, <1>4, <1>5, <1>6 DEF Core

(* How a campaign starts: of a slice, all of it.                           *)
Begun(c, xs) ==
  /\ c \in Commands /\ c.main \in Servers /\ xs \in Seq(Exps)
  /\ Start(c, xs)
  /\ c.slice # None =>
       /\ c.hardware \in Profiles /\ xs = SliceExperiments(c.slice, c.hardware)
       /\ c.from = mode[c.main] /\ c.slice \in SliceNames

LEMMA MatrixStarts ==
  ASSUME Core, StartMatrix
  PROVE  \E c, xs : Begun(c, xs)
<1>1. PICK slice \in Slices, hardware \in Profiles, m \in Modes \cup {None},
           skip \in BOOLEAN, main \in Servers, allow \in BOOLEAN :
        Start([Idle EXCEPT !.wsMode = m, !.skip = skip, !.allow = allow, !.slice = slice,
                           !.hardware = hardware, !.main = main, !.from = mode[main]],
              SliceExperiments(slice, hardware))
  BY ZenonT(60) DEF StartMatrix
<1> DEFINE c == [Idle EXCEPT !.wsMode = m, !.skip = skip, !.allow = allow, !.slice = slice,
                             !.hardware = hardware, !.main = main, !.from = mode[main]]
           xs == SliceExperiments(slice, hardware)
<1>2. slice \in SliceNames /\ mode[main] \in Modes
  BY CampaignAssumption DEF Core, ServerTypes
<1>3. c \in Commands
  <2>1. Idle \in Commands
    BY IdleTypes
  <2>2. QED BY <1>2, <2>1 DEF Commands
<1>4. Idle \in Commands
  BY IdleTypes
<1>5. c.slice = slice /\ c.hardware = hardware /\ c.main = main /\ c.from = mode[c.main]
  BY <1>4 DEF Commands
<1> HIDE DEF c
<1>6. xs \in Seq(Exps)
  BY <1>2, SliceTypes
<1>7. Start(c, xs)
  BY <1>1 DEF c
<1>8. Begun(c, xs)
  BY <1>2, <1>3, <1>5, <1>6, <1>7 DEF Begun
<1>9. QED BY <1>8

LEMMA RunStarts ==
  ASSUME Core, StartRun
  PROVE  \E c, xs : Begun(c, xs)
<1>1. PICK id \in Singles, hardware \in Profiles, m \in Modes \cup {None},
           n \in {0, Many}, main \in Servers, fleet \in SUBSET Servers :
        Start([Idle EXCEPT !.wsMode = m, !.connections = n, !.main = main, !.servers = fleet],
              <<[id |-> id, hardware |-> hardware]>>)
  BY DEF StartRun
<1> DEFINE c == [Idle EXCEPT !.wsMode = m, !.connections = n, !.main = main, !.servers = fleet]
           xs == <<[id |-> id, hardware |-> hardware]>>
<1>2. id \in Experiments /\ n \in Nat /\ Boot \in Modes
  <2>1. Singles \subseteq Experiments /\ Many \in Nat /\ Boot \in Modes
    BY CampaignAssumption
  <2>2. QED BY <2>1
<1>3. Idle \in Commands /\ Idle.slice = None
  BY IdleTypes DEF Idle
<1>4. c \in Commands
  BY <1>2, <1>3 DEF Commands
<1>5. c.slice = None /\ c.main \in Servers
  BY <1>3 DEF Commands
<1> HIDE DEF c
<1>6. xs \in Seq(Exps)
  BY <1>2 DEF Exps
<1>7. Start(c, xs)
  BY <1>1 DEF c
<1>8. Begun(c, xs)
  BY <1>4, <1>5, <1>6, <1>7 DEF Begun
<1>9. QED BY <1>8

LEMMA Aborts ==
  ASSUME \/ Finish \/ RejectHardware \/ EnsureFails \/ RejectFleet
         \/ LoadFails \/ WriteFails \/ Kill
  PROVE  Abort /\ UNCHANGED <<mode, disk, faults>>
  BY DEF Finish, RejectHardware, EnsureFails, RejectFleet, LoadFails, WriteFails, Kill

LEMMA EndLadderFields ==
  ASSUME NEW e \in Sweeps, NEW n \in Nat, NEW failed \in BOOLEAN
  PROVE  LET r == EndLadder(e, n, failed)
         IN /\ r \in Sweeps
            /\ r.ladder = e.ladder + 1 /\ r.rung = 1 /\ r.lastPass = 0 /\ r.failed = failed
            /\ r.best = IF n > e.best THEN n ELSE e.best
            /\ r.observedFail = (e.observedFail \/ failed)
            /\ r.ensured = e.ensured
<1>1. EndLadder(e, n, failed) \in Sweeps
  <2>1. (IF n > e.best THEN n ELSE e.best) \in Nat /\ (e.observedFail \/ failed) \in BOOLEAN
        /\ e.ladder + 1 \in Nat
    BY DEF Sweeps
  <2>2. QED BY <2>1 DEF EndLadder, Sweeps
<1>2. QED BY <1>1 DEF EndLadder, Sweeps

(* A load fails or passes, and one of the two happens to its ladder.       *)
Ended(pass) ==
  LET lastPass == IF pass THEN ex.rung ELSE ex.lastPass
  IN ex' = EndLadder(ex, lastPass, ~pass) /\ (~pass \/ ex.rung = Len(Plan[ex.ladder]))
Climbs ==
  /\ ex' = [ex EXCEPT !.rung = @ + 1, !.lastPass = ex.rung]
  /\ ex.rung # Len(Plan[ex.ladder])

LEMMA AcceptsOrNot ==
  ASSUME NEW id \in Experiments, NEW load, NEW r
  PROVE  Accepts(id, load, r) \in BOOLEAN
<1>1. Healthy(r) \in BOOLEAN
  BY DEF Healthy
<1>2. CASE id = "bm-pls0" \/ id = "bm-pls0-hub" \/ id = "bm-pls1"
  <2>1. CASE id = "bm-pls0"
    BY <2>1 DEF Accepts
  <2>2. CASE id = "bm-pls0-hub"
    BY <2>2 DEF Accepts
  <2>3. CASE id = "bm-pls1"
    BY <2>3 DEF Accepts
  <2>4. QED BY <1>2, <2>1, <2>2, <2>3
<1>3. CASE id = "bm-pls5" \/ id = "bm-pls5-hub"
  BY <1>1, <1>3 DEF Accepts
<1>4. CASE id = "bm-pls2"
  BY <1>4 DEF Accepts
<1>5. CASE id = "bm-pls6"
  BY <1>5 DEF Accepts
<1>6. CASE id = "bm-pls3"
  BY <1>6 DEF Accepts, ErrorBelow
<1>7. CASE id = "bm-pls4"
  BY <1>7 DEF Accepts
<1>8. CASE id = "bm-pls7"
  BY <1>8 DEF Accepts
<1>9. CASE id = "bm-pls8"
  BY <1>9 DEF Accepts
<1>10. CASE id = "bm-pls9"
  BY <1>10 DEF Accepts
<1>11. QED
  BY <1>2, <1>3, <1>4, <1>5, <1>6, <1>7, <1>8, <1>9, <1>10 DEF Experiments

LEMMA MeasureSteps ==
  ASSUME Core, Measure
  PROVE  \E pass \in BOOLEAN, phantom \in BOOLEAN :
           /\ (pass /\ Climbs) \/ Ended(pass)
           /\ hist' = [hist EXCEPT !.modes = @ \cup {mode[s] : s \in LoadUrls},
                                   !.verdicts = Append(@, <<ex.ladder, ex.rung, pass>>),
                                   !.phantom = phantom]
           /\ pc \in {"load", "probe"}
           /\ pc' = IF ex'.ladder > Len(Plan) THEN "report" ELSE "load"
           /\ UNCHANGED <<mode, disk, cmd, todo, starts, faults>>
<1>1. PICK r \in Results(Step) :
        LET verdict == Judged(Step, r)
        IN /\ Climb(verdict.pass)
           /\ hist' = [hist EXCEPT !.modes = @ \cup {mode[s] : s \in LoadUrls},
                                   !.verdicts = Append(@, <<ex.ladder, ex.rung, verdict.pass>>),
                                   !.phantom = verdict.phantom]
  BY Zenon DEF Measure
<1> DEFINE pass == Accepts(Id, Step, r)
           phantom == r.lost = 0 /\ r.received > 0 /\ DeliveryLoss(r)[1] > 0
<1>2. Judged(Step, r).pass = pass /\ Judged(Step, r).phantom = phantom
  BY DEF Judged
<1>3. Id \in Experiments
  <2>1. todo # <<>> /\ todo \in Seq(Exps)
    BY DEF Measure, Core, Rests, Busy, CommandTypes
  <2>2. Head(todo) \in Exps
    BY <2>1, HeadTailProperties
  <2>3. QED BY <2>2 DEF Id, Exps
<1>4. pass \in BOOLEAN /\ phantom \in BOOLEAN
  BY <1>3, AcceptsOrNot
<1> HIDE DEF pass, phantom
<1>5. Climb(pass)
  BY <1>1, <1>2
<1>6. (pass /\ Climbs) \/ Ended(pass)
  BY <1>4, <1>5 DEF Climb, Climbs, Ended
<1>7. hist' = [hist EXCEPT !.modes = @ \cup {mode[s] : s \in LoadUrls},
                           !.verdicts = Append(@, <<ex.ladder, ex.rung, pass>>),
                           !.phantom = phantom]
  BY <1>1, <1>2
<1>8. QED BY <1>4, <1>6, <1>7 DEF Measure

(* Which servers an experiment asks for its mode, and which it loads.      *)
LEMMA UrlTypes ==
  ASSUME Core, Busy
  PROVE  /\ ModeUrls \subseteq Servers /\ ModeUrls # {}
         /\ LoadUrls \subseteq Servers /\ LoadUrls # {}
<1>1. cmd.main \in Servers /\ cmd.servers \subseteq Servers
  BY DEF Core, Rests, Busy, CommandTypes, Commands
<1>2. ModeUrls \subseteq Servers /\ ModeUrls # {}
  BY <1>1 DEF ModeUrls
<1>3. QED BY <1>1, <1>2 DEF LoadUrls

LEMMA HeadIsExperiment ==
  ASSUME Core, todo # <<>>
  PROVE  /\ Head(todo) \in Exps /\ Id \in Experiments
         /\ ReportPath(Head(todo)) \in Paths /\ Tail(todo) \in Seq(Exps)
<1>1. Head(todo) \in Exps /\ Tail(todo) \in Seq(Exps)
  BY HeadTailProperties DEF Core, CommandTypes
<1>2. QED BY <1>1 DEF Exps, Id, ReportPath, Paths

LEMMA SwitchedTypes ==
  ASSUME Core, todo # <<>>, NEW S
  PROVE  Switched(mode, S) \in [Servers -> Modes]
<1>1. Wanted = None \/ Wanted \in Modes
  BY DEF Wanted, ResolveWsMode, Modes, Core, CommandTypes, Commands
<1>2. QED BY <1>1 DEF Switched, Core, ServerTypes

LEMMA CoreStep == Core /\ [Next]_vars => Core'
<1> SUFFICES ASSUME Core, [Next]_vars PROVE Core'
  OBVIOUS
<1>1. ServerTypes /\ DiskTypes /\ CommandTypes /\ SweepTypes /\ CountTypes /\ Rests
  BY DEF Core
<1>2. ASSUME StartMatrix \/ StartRun PROVE Core'
  <2>1. PICK c, xs : Begun(c, xs)
    BY <1>2, MatrixStarts, RunStarts
  <2>2. CommandTypes' /\ Rests'
    BY <1>1, <2>1 DEF Begun, Start, CommandTypes, Rests, Busy, Steps
  <2>3. ServerTypes' /\ DiskTypes' /\ SweepTypes' /\ CountTypes'
    BY <1>1, <2>1 DEF Begun, Start, ServerTypes, DiskTypes, SweepTypes, CountTypes
  <2>4. QED BY <2>2, <2>3 DEF Core
<1>3. ASSUME Abort, UNCHANGED <<mode, disk, faults>> PROVE Core'
  <2>1. CommandTypes' /\ Rests' /\ SweepTypes'
    BY <1>3, IdleTypes DEF Abort, CommandTypes, Rests, Busy, Steps, SweepTypes
  <2>2. ServerTypes' /\ DiskTypes' /\ CountTypes'
    BY <1>1, <1>3 DEF Abort, ServerTypes, DiskTypes, CountTypes
  <2>3. QED BY <2>1, <2>2 DEF Core
<1>4. ASSUME Proceed, todo # <<>> PROVE (ServerTypes /\ CommandTypes /\ SweepTypes /\ CountTypes /\ Rests)'
  <2>1. Tail(todo) \in Seq(Exps)
    BY <1>4, HeadIsExperiment
  <2>2. CommandTypes' /\ Rests' /\ SweepTypes'
    BY <1>1, <1>4, <2>1, IdleTypes DEF Proceed, CommandTypes, Rests, Busy, Steps, SweepTypes
  <2>3. ServerTypes' /\ CountTypes'
    BY <1>1, <1>4 DEF Proceed, ServerTypes, CountTypes
  <2>4. QED BY <2>2, <2>3
<1>5. ASSUME SkipExisting PROVE Core'
  <2>1. DiskTypes'
    BY <1>1, <1>5 DEF SkipExisting, DiskTypes
  <2>2. QED BY <1>4, <1>5, <2>1 DEF SkipExisting, Core
<1>6. ASSUME Begin PROVE Core'
  BY <1>1, <1>6, IdleTypes
  DEF Begin, Core, ServerTypes, DiskTypes, CommandTypes, SweepTypes, CountTypes, Rests, Busy, Steps
<1>7. ASSUME NEW s \in Servers, EnsureWsMode(s) PROVE Core'
  <2>1. todo # <<>> /\ Busy /\ Busy'
    BY <1>1, <1>7 DEF EnsureWsMode, Rests, Busy
  <2>2. ServerTypes'
    BY <1>7, <2>1, SwitchedTypes DEF EnsureWsMode, ServerTypes
  <2>3. SweepTypes'
    BY <1>1, <1>7 DEF EnsureWsMode, SweepTypes, Sweeps
  <2>4. DiskTypes' /\ CommandTypes' /\ CountTypes' /\ Rests'
    BY <1>1, <1>7, <2>1
    DEF EnsureWsMode, DiskTypes, CommandTypes, CountTypes, Rests, Busy
  <2>5. QED BY <2>2, <2>3, <2>4 DEF Core
<1>8. ASSUME ModeEnsured PROVE Core'
  BY <1>1, <1>8
  DEF ModeEnsured, Core, ServerTypes, DiskTypes, CommandTypes, SweepTypes, CountTypes, Rests,
      Busy, Steps
<1>9. ASSUME SpawnProbe PROVE Core'
  <2>1. ServerTypes'
    BY <1>1, <1>9, SwitchedTypes DEF SpawnProbe, ServerTypes, Rests, Busy
  <2>2. QED
    BY <1>1, <1>9, <2>1
    DEF SpawnProbe, Core, DiskTypes, CommandTypes, SweepTypes, CountTypes, Rests, Busy, Steps
<1>10. ASSUME Measure PROVE Core'
  <2>1. PICK pass \in BOOLEAN, phantom \in BOOLEAN :
           /\ (pass /\ Climbs) \/ Ended(pass)
           /\ hist' = [hist EXCEPT !.modes = @ \cup {mode[s] : s \in LoadUrls},
                                   !.verdicts = Append(@, <<ex.ladder, ex.rung, pass>>),
                                   !.phantom = phantom]
           /\ pc \in {"load", "probe"}
           /\ pc' = IF ex'.ladder > Len(Plan) THEN "report" ELSE "load"
           /\ UNCHANGED <<mode, disk, cmd, todo, starts, faults>>
    BY <1>10, MeasureSteps
  <2>2. ex' \in Sweeps
    <3>1. CASE Climbs
      <4>1. ex \in Sweeps /\ ex.rung \in Nat /\ ex.rung + 1 \in Nat
        BY <1>1 DEF SweepTypes, Sweeps
      <4>2. QED BY <3>1, <4>1 DEF Climbs, Sweeps
    <3>2. CASE Ended(pass)
      <4>1. (IF pass THEN ex.rung ELSE ex.lastPass) \in Nat /\ ex \in Sweeps
        BY <1>1 DEF SweepTypes, Sweeps
      <4>2. QED BY <3>2, <4>1, EndLadderFields DEF Ended
    <3>3. QED BY <2>1, <3>1, <3>2
  <2>3. hist' \in Histories
    <3>1. hist.modes \cup {mode[s] : s \in LoadUrls} \in SUBSET Modes
      <4>1. LoadUrls \subseteq Servers
        BY <2>1, UrlTypes DEF Busy
      <4>2. hist.modes \in SUBSET Modes /\ \A s \in LoadUrls : mode[s] \in Modes
        BY <1>1, <4>1 DEF SweepTypes, Histories, ServerTypes
      <4>3. QED BY <4>2
    <3>2. Append(hist.verdicts, <<ex.ladder, ex.rung, pass>>) \in Seq(Nat \X Nat \X BOOLEAN)
      <4>1. hist.verdicts \in Seq(Nat \X Nat \X BOOLEAN)
        BY <1>1 DEF SweepTypes, Histories
      <4>2. <<ex.ladder, ex.rung, pass>> \in Nat \X Nat \X BOOLEAN
        BY <1>1 DEF SweepTypes, Sweeps
      <4>3. QED BY <4>1, <4>2, AppendProperties
    <3>3. hist \in Histories
      BY <1>1 DEF SweepTypes
    <3>4. QED BY <2>1, <3>1, <3>2, <3>3 DEF Histories
  <2>4. todo # <<>> /\ Busy' /\ pc' \in Steps
    BY <1>1, <2>1 DEF Rests, Busy, Steps
  <2>5. SweepTypes' /\ Rests' /\ CommandTypes'
    BY <1>1, <2>1, <2>2, <2>3, <2>4 DEF SweepTypes, Rests, Busy, CommandTypes
  <2>6. ServerTypes' /\ DiskTypes' /\ CountTypes'
    BY <1>1, <2>1 DEF ServerTypes, DiskTypes, CountTypes
  <2>7. QED BY <2>5, <2>6 DEF Core
<1>11. ASSUME WriteReport PROVE Core'
  <2>1. DiskTypes'
    <3>1. DOMAIN disk' = Paths /\ \A p \in Paths : disk'[p] = disk[p] \/ disk'[p] = Torn
      BY <1>1, <1>11 DEF WriteReport, DiskTypes
    <3>2. QED BY <1>1, <3>1 DEF DiskTypes, IsReport
  <2>2. QED
    BY <1>1, <1>11, <2>1
    DEF WriteReport, Core, ServerTypes, CommandTypes, SweepTypes, CountTypes, Rests, Busy, Steps
<1>12. ASSUME ReportWritten PROVE Core'
  <2>1. todo # <<>>
    BY <1>1, <1>12 DEF ReportWritten, Rests, Busy
  <2>2. DiskTypes'
    <3>1. Head(todo) \in Exps
      BY <2>1, HeadIsExperiment
    <3>2. /\ DOMAIN disk' = Paths
          /\ \A p \in Paths : \/ disk'[p] = disk[p]
                              \/ p = ReportPath(Head(todo)) /\ disk'[p] = Complete(Head(todo))
      BY <1>1, <1>12 DEF ReportWritten, DiskTypes
    <3>3. starts \in Nat
      BY <1>1 DEF CountTypes
    <3>4. QED BY <1>1, <3>1, <3>2, <3>3 DEF DiskTypes, IsReport, Complete
  <2>3. QED BY <1>4, <1>12, <2>1, <2>2 DEF ReportWritten, Core
<1>13. ASSUME NEW s \in Servers, NEW m \in Modes, mode' = [mode EXCEPT ![s] = m], Fault,
              Disturb(s),
              UNCHANGED <<disk, cmd, todo, pc, ex, starts>>
       PROVE  Core'
  <2>1. ServerTypes' /\ DiskTypes' /\ CommandTypes' /\ CountTypes'
    BY <1>1, <1>13 DEF ServerTypes, DiskTypes, CommandTypes, CountTypes, Fault
  <2>2. SweepTypes'
    <3>1. hist' \in Histories
      BY <1>1, <1>13 DEF SweepTypes, Histories, Disturb
    <3>2. QED BY <1>1, <1>13, <3>1 DEF SweepTypes
  <2>3. ~Busy => hist' = NoHistory
    <3>1. [NoHistory EXCEPT !.disturbed = FALSE] = NoHistory
      <4>1. NoHistory = [x \in DOMAIN NoHistory |-> NoHistory[x]] /\ NoHistory.disturbed = FALSE
        BY DEF NoHistory
      <4>2. QED BY <4>1
    <3>2. ~Busy => hist = NoHistory /\ ~(pc \notin {"idle", "next"}) /\ NoHistory.disturbed = FALSE
      BY <1>1 DEF Rests, Busy, NoHistory
    <3>3. ~Busy => hist' = [NoHistory EXCEPT !.disturbed = FALSE]
      BY <1>13, <3>2 DEF Disturb
    <3>4. QED BY <3>1, <3>3
  <2>4. Rests'
    BY <1>1, <1>13, <2>3 DEF Rests, Busy
  <2>5. QED BY <2>1, <2>2, <2>4 DEF Core
<1>14. ASSUME NEW s \in Servers, Restart(s) PROVE Core'
  <2>1. Boot \in Modes
    BY CampaignAssumption
  <2>2. QED BY <1>13, <1>14, <2>1 DEF Restart
<1>15. ASSUME NEW s \in Servers, NEW m \in Modes, SwitchMode(s, m) PROVE Core'
  BY <1>13, <1>15 DEF SwitchMode
<1>16. CASE UNCHANGED vars
  BY <1>1, <1>16
  DEF vars, Core, ServerTypes, DiskTypes, CommandTypes, SweepTypes, CountTypes, Rests, Busy
<1>17. QED
  BY <1>2, <1>3, <1>5, <1>6, <1>7, <1>8, <1>9, <1>10, <1>11, <1>12, <1>14, <1>15, <1>16, Aborts
  DEF Next

LEMMA CoreInvariant == Spec => []Core
  BY CoreInit, CoreStep, PTL DEF Spec

(* While an experiment is under way, the campaign stays in it and its      *)
(* slice; only faults and the experiment's own switches touch a server.    *)
Stays == UNCHANGED <<cmd, todo, starts>> /\ Busy /\ Busy'

LEMMA SweepingStays ==
  ASSUME Core, \/ \E s \in Servers : EnsureWsMode(s)
               \/ ModeEnsured \/ SpawnProbe \/ Measure
  PROVE  Stays /\ UNCHANGED <<disk, faults>> /\ ~Reporting
  BY DEF EnsureWsMode, ModeEnsured, SpawnProbe, Measure, Stays, Busy, Reporting
-----------------------------------------------------------------------------
(* Skipping.  --skip-existing looks at a report only when its experiment   *)
(* begins; that it is not there any more when the report is written needs  *)
(* NotThere, which no other step of the campaign can undo.                 *)

NotThere == Busy /\ cmd.skip => disk[ReportPath(Head(todo))].is # "complete"

LEMMA NotThereStep == Core /\ NotThere /\ [Next]_vars => NotThere'
<1> SUFFICES ASSUME Core, NotThere, [Next]_vars PROVE NotThere'
  OBVIOUS
<1>1. ASSUME ~Busy' PROVE NotThere'
  BY <1>1 DEF NotThere
<1>2. ASSUME UNCHANGED <<disk, cmd, todo>>, Busy' => Busy PROVE NotThere'
  BY <1>2 DEF NotThere
<1>3. ASSUME StartMatrix \/ StartRun \/ SkipExisting \/ ReportWritten PROVE NotThere'
  BY <1>1, <1>3 DEF StartMatrix, StartRun, Start, SkipExisting, ReportWritten, Proceed, Busy
<1>4. ASSUME Abort PROVE NotThere'
  BY <1>1, <1>4 DEF Abort, Busy
<1>5. ASSUME Begin PROVE NotThere'
  <2>1. cmd.skip => disk[ReportPath(Head(todo))] = Absent
    BY <1>5 DEF Begin, Skips
  <2>2. UNCHANGED <<disk, cmd, todo>> /\ Absent.is # "complete"
    BY <1>5 DEF Begin, Absent
  <2>3. QED BY <2>1, <2>2 DEF NotThere
<1>6. ASSUME \E s \in Servers : EnsureWsMode(s) \/ Restart(s) \/ \E m \in Modes : SwitchMode(s, m)
      PROVE  NotThere'
  BY <1>2, <1>6 DEF EnsureWsMode, Restart, SwitchMode, Busy
<1>7. ASSUME ModeEnsured \/ SpawnProbe \/ Measure PROVE NotThere'
  BY <1>2, <1>7, SweepingStays DEF Stays
<1>8. ASSUME WriteReport PROVE NotThere'
  <2>1. Core' /\ todo # <<>> /\ UNCHANGED todo
    BY <1>8, CoreStep DEF WriteReport, Core, Rests, Busy
  <2>2. ReportPath(Head(todo)) \in DOMAIN disk
    BY <2>1, HeadIsExperiment DEF Core, DiskTypes
  <2>3. disk'[ReportPath(Head(todo))] = Torn
    BY <1>8, <2>2 DEF WriteReport
  <2>4. QED BY <2>1, <2>3 DEF NotThere, Torn
<1>9. CASE UNCHANGED vars
  BY <1>2, <1>9 DEF vars, Busy
<1>10. QED
  BY <1>3, <1>4, <1>5, <1>6, <1>7, <1>8, <1>9, Aborts DEF Next

Kept == \A p \in Paths : cmd.skip /\ disk[p].is = "complete" => disk'[p] = disk[p]

LEMMA StepKeeps == Core /\ NotThere /\ [Next]_vars => [Kept]_vars
<1> SUFFICES ASSUME Core, NotThere, Next PROVE Kept
  OBVIOUS
<1>1. ASSUME UNCHANGED disk PROVE Kept
  BY <1>1 DEF Kept
<1>2. ASSUME WriteReport \/ ReportWritten PROVE Kept
  <2>1. cmd.skip => disk[ReportPath(Head(todo))].is # "complete"
    BY <1>2 DEF WriteReport, ReportWritten, NotThere, Busy
  <2>2. \A p \in Paths : p # ReportPath(Head(todo)) => disk'[p] = disk[p]
    BY <1>2 DEF WriteReport, ReportWritten, Core, DiskTypes
  <2>3. QED BY <2>1, <2>2 DEF Kept
<1>3. ASSUME StartMatrix \/ StartRun \/ SkipExisting \/ Begin PROVE UNCHANGED disk
  BY <1>3 DEF StartMatrix, StartRun, Start, SkipExisting, Begin
<1>4. ASSUME \E s \in Servers : EnsureWsMode(s) \/ Restart(s) \/ \E m \in Modes : SwitchMode(s, m)
      PROVE  UNCHANGED disk
  BY <1>4 DEF EnsureWsMode, Restart, SwitchMode
<1>5. ASSUME ModeEnsured \/ SpawnProbe \/ Measure PROVE UNCHANGED disk
  BY <1>5, SweepingStays
<1>6. QED BY <1>1, <1>2, <1>3, <1>4, <1>5, Aborts DEF Next

(* A campaign with --skip-existing never touches a report that is          *)
(* complete, however often it is killed and started again.                 *)
THEOREM CompleteReportsAreKept == Spec => SkippedReportsAreKept
<1>1. Init => NotThere
  BY DEF Init, NotThere, Busy
<1>2. QED
  BY CoreInvariant, <1>1, NotThereStep, StepKeeps, PTL DEF Spec, SkippedReportsAreKept, Kept
-----------------------------------------------------------------------------
(* Modes.  What a report says of the mode is right because the servers are *)
(* in the wanted mode from the moment the last one was ensured on.         *)

Measured ==
  Busy /\ Wanted # None /\ ~hist.disturbed /\ LoadUrls \subseteq ModeUrls =>
    /\ hist.modes \subseteq {Wanted}
    /\ Reporting => hist.modes = {Wanted}
    /\ pc = "ensure" => \A s \in ex.ensured \cap LoadUrls : mode[s] = Wanted
    /\ pc # "ensure" => \A s \in LoadUrls : mode[s] = Wanted

LEMMA SameUrls ==
  ASSUME UNCHANGED <<cmd, todo>>
  PROVE  UNCHANGED <<Wanted, ModeUrls, LoadUrls>>
<1>1. UNCHANGED <<Id, ModeUrls>>
  BY DEF Id, ModeUrls
<1>2. QED BY <1>1 DEF Wanted, ResolveWsMode, LoadUrls

LEMMA MeasuredStep == Core /\ Measured /\ [Next]_vars => Measured'
<1> SUFFICES ASSUME Core, Measured, [Next]_vars PROVE Measured'
  OBVIOUS
<1>1. ASSUME ~Busy' PROVE Measured'
  BY <1>1 DEF Measured
<1>2. ASSUME StartMatrix \/ StartRun \/ SkipExisting \/ ReportWritten PROVE Measured'
  BY <1>1, <1>2 DEF StartMatrix, StartRun, Start, SkipExisting, ReportWritten, Proceed, Busy
<1>3. ASSUME Abort PROVE Measured'
  BY <1>1, <1>3 DEF Abort, Busy
<1>4. ASSUME Begin PROVE Measured'
  <2>1. ex.ensured = {} /\ hist' = NoHistory /\ pc' = "ensure" /\ UNCHANGED ex
    BY <1>4 DEF Begin, Core, Rests, Busy, NoSweep
  <2>2. QED BY <2>1 DEF Measured, NoHistory, Reporting
<1>5. mode \in [Servers -> Modes]
  BY DEF Core, ServerTypes
<1>6. ASSUME NEW s \in Servers, EnsureWsMode(s) PROVE Measured'
  <2>1. /\ UNCHANGED <<cmd, todo, pc, hist>> /\ pc = "ensure"
        /\ ex'.ensured = ex.ensured \cup {s}
        /\ mode' = Switched(mode, {s})
    BY <1>6 DEF EnsureWsMode, Core, SweepTypes, Sweeps
  <2>2. Wanted # None => mode'[s] = Wanted /\ \A t \in ex.ensured : mode[t] = Wanted => mode'[t] = Wanted
    <3>1. ex.ensured \subseteq Servers
      BY DEF Core, SweepTypes, Sweeps
    <3>2. QED BY <1>5, <2>1, <3>1 DEF Switched
  <2>3. UNCHANGED <<Wanted, ModeUrls, LoadUrls>>
    BY <2>1, SameUrls
  <2>4. QED BY <2>1, <2>2, <2>3 DEF Measured, Reporting, Busy
<1>7. ASSUME ModeEnsured PROVE Measured'
  <2>1. UNCHANGED <<mode, cmd, todo, hist>> /\ pc = "ensure" /\ ex.ensured = ModeUrls /\ pc' = "load"
    BY <1>7 DEF ModeEnsured
  <2>2. UNCHANGED <<Wanted, ModeUrls, LoadUrls>>
    BY <2>1, SameUrls
  <2>3. QED BY <2>1, <2>2 DEF Measured, Reporting, Busy
<1>8. ASSUME SpawnProbe PROVE Measured'
  <2>1. /\ UNCHANGED <<cmd, todo, hist>> /\ pc = "load" /\ pc' = "probe"
        /\ mode' = Switched(mode, ModeUrls)
    BY <1>8 DEF SpawnProbe
  <2>2. Wanted # None => \A t \in ModeUrls : mode'[t] = Wanted
    BY <1>5, <2>1, UrlTypes DEF Switched, Busy
  <2>3. UNCHANGED <<Wanted, ModeUrls, LoadUrls>>
    BY <2>1, SameUrls
  <2>4. QED BY <2>1, <2>2, <2>3 DEF Measured, Reporting, Busy
<1>9. ASSUME Measure PROVE Measured'
  <2>1. PICK pass, phantom :
          /\ hist' = [hist EXCEPT !.modes = @ \cup {mode[s] : s \in LoadUrls},
                                  !.verdicts = Append(@, <<ex.ladder, ex.rung, pass>>),
                                  !.phantom = phantom]
          /\ pc \in {"load", "probe"}
          /\ pc' \in {"report", "load"}
          /\ UNCHANGED <<mode, cmd, todo>>
    BY <1>9, MeasureSteps
  <2>2. hist'.modes = hist.modes \cup {mode[s] : s \in LoadUrls} /\ hist'.disturbed = hist.disturbed
    BY <2>1 DEF Core, SweepTypes, Histories
  <2>3. UNCHANGED <<Wanted, ModeUrls, LoadUrls>>
    BY <2>1, SameUrls
  <2>4. SUFFICES ASSUME Wanted # None, ~hist.disturbed, LoadUrls \subseteq ModeUrls
                 PROVE  hist'.modes = {Wanted} /\ \A s \in LoadUrls : mode[s] = Wanted
    BY <2>1, <2>2, <2>3 DEF Measured, Reporting, Busy
  <2>5. hist.modes \subseteq {Wanted} /\ \A s \in LoadUrls : mode[s] = Wanted
    BY <2>1, <2>4 DEF Measured, Busy
  <2>6. LoadUrls # {}
    BY <2>1, UrlTypes DEF Busy
  <2>7. QED BY <2>2, <2>5, <2>6
<1>10. ASSUME WriteReport PROVE Measured'
  <2>1. UNCHANGED <<mode, cmd, todo, hist>> /\ pc = "report" /\ pc' = "writing"
    BY <1>10 DEF WriteReport
  <2>2. UNCHANGED <<Wanted, ModeUrls, LoadUrls>>
    BY <2>1, SameUrls
  <2>3. QED BY <2>1, <2>2 DEF Measured, Reporting, Busy
<1>11. ASSUME NEW s \in Servers, Restart(s) \/ \E m \in Modes : SwitchMode(s, m) PROVE Measured'
  <2>1. /\ Disturb(s) /\ UNCHANGED <<cmd, todo, pc, ex>>
        /\ \A t \in Servers : t # s => mode'[t] = mode[t]
    BY <1>5, <1>11 DEF Restart, SwitchMode
  <2>2. UNCHANGED <<Wanted, ModeUrls, LoadUrls>>
    BY <2>1, SameUrls
  <2>3. SUFFICES ASSUME Busy, ~hist'.disturbed PROVE Measured'
    BY <1>1, <2>1 DEF Measured, Busy
  <2>4. s \notin LoadUrls /\ ~hist.disturbed /\ UNCHANGED hist.modes
    BY <2>1, <2>3 DEF Disturb, Core, SweepTypes, Histories, Busy
  <2>5. \A t \in LoadUrls : mode'[t] = mode[t]
    BY <2>1, <2>3, <2>4, UrlTypes
  <2>6. QED BY <2>1, <2>2, <2>3, <2>4, <2>5 DEF Measured, Reporting, Busy
<1>12. CASE UNCHANGED vars
  <2>1. UNCHANGED <<Wanted, ModeUrls, LoadUrls>>
    BY <1>12, SameUrls DEF vars
  <2>2. QED BY <1>12, <2>1 DEF vars, Measured, Reporting, Busy
<1>13. QED
  BY <1>2, <1>3, <1>4, <1>6, <1>7, <1>8, <1>9, <1>10, <1>11, <1>12, Aborts DEF Next

(* The mode a report names is the one every load of its experiment was     *)
(* measured in, on every server and in every probe, if the servers that    *)
(* are loaded are among those whose mode was asked for, and none of them   *)
(* was restarted or switched by someone else meanwhile.                    *)
THEOREM ReportsNameTheirMode == Spec => []MeasuredInItsMode
<1>1. Init => Measured
  BY DEF Init, Measured, Busy
<1>2. Measured => MeasuredInItsMode
  BY DEF Measured, MeasuredInItsMode, Reporting, Busy
<1>3. QED BY CoreInvariant, <1>1, <1>2, MeasuredStep, PTL DEF Spec
-----------------------------------------------------------------------------
(* Slices.  What is left to do is the end of the slice.                    *)

Slice == SliceExperiments(cmd.slice, cmd.hardware)
Dealt == Len(Slice) - Len(todo)

InSlice ==
  cmd.slice # None /\ pc # "idle" =>
    /\ cmd.slice \in SliceNames /\ cmd.hardware \in Profiles
    /\ Len(todo) <= Len(Slice)
    /\ \A n \in 1 .. Len(todo) : todo[n] = Slice[Dealt + n]

LEMMA SliceIsSeq ==
  ASSUME Core, InSlice, cmd.slice # None, pc # "idle"
  PROVE  /\ Slice \in Seq(Exps) /\ todo \in Seq(Exps)
         /\ Len(Slice) \in Nat /\ Len(todo) \in Nat /\ Dealt \in 0 .. Len(Slice)
<1>1. Slice \in Seq(Exps) /\ todo \in Seq(Exps)
  BY SliceTypes DEF InSlice, Core, CommandTypes, Slice
<1>2. Len(Slice) \in Nat /\ Len(todo) \in Nat /\ Len(todo) <= Len(Slice)
  BY <1>1 DEF InSlice
<1>3. QED BY <1>1, <1>2 DEF Dealt

(* The next experiment is dealt with.                                      *)
LEMMA NextOfSlice ==
  ASSUME Core, InSlice, cmd.slice # None, pc # "idle", todo # <<>>
  PROVE  /\ Head(todo) = Slice[Dealt + 1] /\ Dealt + 1 \in 1 .. Len(Slice)
         /\ Len(Tail(todo)) = Len(todo) - 1
         /\ \A n \in 1 .. Len(todo) - 1 : Tail(todo)[n] = Slice[Dealt + 1 + n]
<1>1. /\ todo \in Seq(Exps) /\ Len(todo) \in Nat /\ Len(Slice) \in Nat
      /\ Dealt \in 0 .. Len(Slice)
  BY SliceIsSeq
<1>2. Len(todo) >= 1 /\ Dealt = Len(Slice) - Len(todo)
  BY <1>1, EmptySeq DEF Dealt
<1>3. Head(todo) = todo[1] /\ Len(Tail(todo)) = Len(todo) - 1
      /\ \A n \in 1 .. Len(todo) - 1 : Tail(todo)[n] = todo[n + 1]
  BY <1>1, <1>2
<1>4. \A n \in 1 .. Len(todo) : todo[n] = Slice[Dealt + n]
  BY DEF InSlice
<1>5. Dealt + 1 \in 1 .. Len(Slice)
  BY <1>1, <1>2
<1> HIDE DEF Dealt
<1>6. \A n \in 1 .. Len(todo) - 1 : Dealt + (n + 1) = Dealt + 1 + n
  BY <1>1
<1>7. \A n \in 1 .. Len(todo) - 1 : Tail(todo)[n] = Slice[Dealt + 1 + n]
  BY <1>1, <1>2, <1>3, <1>4, <1>6
<1>8. QED BY <1>2, <1>3, <1>4, <1>5, <1>7

LEMMA InSliceStep == Core /\ InSlice /\ [Next]_vars => InSlice'
<1> SUFFICES ASSUME Core, InSlice, [Next]_vars PROVE InSlice'
  OBVIOUS
<1>1. ASSUME StartMatrix \/ StartRun PROVE InSlice'
  <2>1. PICK c, xs : Begun(c, xs)
    BY <1>1, MatrixStarts, RunStarts
  <2>2. cmd' = c /\ todo' = xs /\ xs \in Seq(Exps)
    BY <2>1 DEF Begun, Start
  <2>3. SUFFICES ASSUME c.slice # None PROVE InSlice'
    BY <2>2 DEF InSlice
  <2>4. Slice' = xs /\ c.slice \in SliceNames /\ c.hardware \in Profiles
    BY <2>1, <2>2, <2>3 DEF Begun, Slice
  <2>5. Dealt' = 0 /\ Len(xs) \in Nat
    BY <2>2, <2>4 DEF Dealt
  <2>6. QED BY <2>2, <2>4, <2>5 DEF InSlice
<1>2. ASSUME Abort PROVE InSlice'
  BY <1>2 DEF Abort, InSlice
<1>3. ASSUME UNCHANGED <<cmd, todo>>, pc # "idle" \/ pc' = "idle" PROVE InSlice'
  BY <1>3 DEF InSlice, Slice, Dealt
<1>4. ASSUME SkipExisting \/ ReportWritten PROVE InSlice'
  <2>1. Proceed /\ todo # <<>> /\ pc # "idle"
    BY <1>4 DEF SkipExisting, ReportWritten, Core, Rests, Busy
  <2>2. UNCHANGED cmd /\ todo' = Tail(todo)
    BY <2>1 DEF Proceed
  <2>3. SUFFICES ASSUME cmd.slice # None PROVE InSlice'
    BY <2>2 DEF InSlice
  <2>4. Len(Tail(todo)) = Len(todo) - 1 /\ Len(todo) \in Nat /\ Len(Slice) \in Nat
    BY <2>1, <2>3, NextOfSlice, SliceIsSeq
  <2>5. \A n \in 1 .. Len(todo) - 1 : Tail(todo)[n] = Slice[Dealt + 1 + n]
    BY <2>1, <2>3, NextOfSlice
  <2>6. Slice' = Slice
    BY <2>2 DEF Slice
  <2>7. Dealt' = Dealt + 1
    <3>1. Len(todo') = Len(todo) - 1 /\ Len(Slice') = Len(Slice)
      BY <2>2, <2>4, <2>6
    <3>2. QED BY <2>4, <3>1 DEF Dealt
  <2>8. Len(todo) <= Len(Slice) /\ cmd.slice \in SliceNames /\ cmd.hardware \in Profiles
    BY <2>1, <2>3 DEF InSlice
  <2>9. QED BY <2>2, <2>4, <2>5, <2>6, <2>7, <2>8 DEF InSlice
<1>5. ASSUME Begin \/ WriteReport PROVE InSlice'
  BY <1>3, <1>5 DEF Begin, WriteReport
<1>6. ASSUME ModeEnsured \/ SpawnProbe \/ Measure PROVE InSlice'
  BY <1>3, <1>6, SweepingStays DEF Stays, Busy
<1>7. ASSUME \E s \in Servers : EnsureWsMode(s) \/ Restart(s) \/ \E m \in Modes : SwitchMode(s, m)
      PROVE  InSlice'
  BY <1>3, <1>7 DEF EnsureWsMode, Restart, SwitchMode
<1>8. CASE UNCHANGED vars
  BY <1>3, <1>8 DEF vars
<1>9. QED
  BY <1>1, <1>2, <1>4, <1>5, <1>6, <1>7, <1>8, Aborts DEF Next

(* Reports.  An experiment that was dealt with has its report, unless that *)
(* is being written anew: a slice may name an experiment twice.            *)
Reported(e) ==
  LET report == disk[ReportPath(e)]
  IN \/ /\ report.is = "complete" /\ report.of = e
        /\ cmd.skip \/ report.start = starts
     \/ cmd.skip /\ report = Torn

DealtReported ==
  cmd.slice # None /\ pc # "idle" =>
    \A n \in 1 .. Dealt : Reported(Slice[n]) \/ (pc = "writing" /\ Slice[n] = Head(todo))

LEMMA ReportPathsDiffer ==
  ASSUME NEW d \in Exps, NEW e \in Exps, ReportPath(d) = ReportPath(e)
  PROVE  d = e
  BY DEF Exps, ReportPath

LEMMA DealtReportedStep == Core /\ InSlice /\ DealtReported /\ [Next]_vars => DealtReported'
<1> SUFFICES ASSUME Core, InSlice, DealtReported, [Next]_vars PROVE DealtReported'
  OBVIOUS
<1>1. ASSUME StartMatrix \/ StartRun PROVE DealtReported'
  <2>1. PICK c, xs : Begun(c, xs)
    BY <1>1, MatrixStarts, RunStarts
  <2>2. cmd' = c /\ todo' = xs /\ xs \in Seq(Exps)
    BY <2>1 DEF Begun, Start
  <2>3. SUFFICES ASSUME c.slice # None PROVE DealtReported'
    BY <2>2 DEF DealtReported
  <2>4. Slice' = xs
    BY <2>1, <2>2, <2>3 DEF Begun, Slice
  <2>5. Dealt' = 0
    BY <2>2, <2>4 DEF Dealt
  <2>6. QED BY <2>5 DEF DealtReported
<1>2. ASSUME Abort PROVE DealtReported'
  BY <1>2 DEF Abort, DealtReported
<1>3. ASSUME UNCHANGED <<disk, cmd, todo, starts>>, pc # "idle" \/ pc' = "idle",
             pc # "writing" \/ pc' = "writing"
      PROVE  DealtReported'
  BY <1>3 DEF DealtReported, Slice, Dealt, Reported
<1>4. ASSUME cmd.slice # None, pc # "idle", NEW n \in 1 .. Dealt PROVE Slice[n] \in Exps
  BY <1>4, SliceIsSeq
<1>5. ASSUME NEW e, UNCHANGED <<cmd, starts>>, disk'[ReportPath(e)] = disk[ReportPath(e)],
             Reported(e)
      PROVE  Reported(e)'
  BY <1>5 DEF Reported
<1>6. ASSUME SkipExisting \/ ReportWritten PROVE DealtReported'
  <2>1. Proceed /\ todo # <<>> /\ pc # "idle" /\ UNCHANGED <<cmd, starts>> /\ todo' = Tail(todo)
    BY <1>6 DEF SkipExisting, ReportWritten, Proceed, Core, Rests, Busy
  <2>2. SUFFICES ASSUME cmd.slice # None PROVE DealtReported'
    BY <2>1 DEF DealtReported
  <2>3. /\ Head(todo) = Slice[Dealt + 1]
        /\ Len(Tail(todo)) = Len(todo) - 1 /\ Len(todo) \in Nat /\ Len(Slice) \in Nat
    BY <2>1, <2>2, NextOfSlice, SliceIsSeq
  <2>4. Slice' = Slice /\ Dealt' = Dealt + 1 /\ Dealt \in Nat
    <3>1. Slice' = Slice
      BY <2>1 DEF Slice
    <3>2. Dealt \in Nat
      BY <2>1, <2>2, SliceIsSeq
    <3>3. QED BY <2>1, <2>3, <3>1, <3>2 DEF Dealt
  <2>5. PICK e \in Exps : e = Head(todo) /\ ReportPath(e) \in Paths
    BY <2>1, HeadIsExperiment
  <2>6. Reported(e)'
    <3>1. CASE SkipExisting
      <4>1. UNCHANGED disk /\ cmd.skip /\ disk[ReportPath(e)] # Absent
        BY <2>5, <3>1 DEF SkipExisting, Skips
      <4>2. IsReport(disk[ReportPath(e)], ReportPath(e))
        BY <2>5 DEF Core, DiskTypes
      <4>3. CASE disk[ReportPath(e)] = Torn
        BY <2>1, <4>1, <4>3 DEF Reported
      <4>4. ASSUME NEW d \in Exps, NEW k \in Nat, ReportPath(d) = ReportPath(e),
                   disk[ReportPath(e)] = [is |-> "complete", of |-> d, start |-> k]
            PROVE  Reported(e)'
        BY <2>1, <4>1, <4>4, ReportPathsDiffer DEF Reported
      <4>5. QED BY <4>1, <4>2, <4>3, <4>4 DEF IsReport
    <3>2. CASE ReportWritten
      <4>1. disk'[ReportPath(e)] = Complete(e)
        BY <2>5, <3>2 DEF ReportWritten, Core, DiskTypes
      <4>2. QED BY <2>1, <4>1 DEF Reported, Complete
    <3>3. QED BY <1>6, <3>1, <3>2
  <2>7. ASSUME NEW n \in 1 .. Dealt, NEW d \in Exps, d = Slice[n] PROVE Reported(d)'
    <3>1. CASE d = e
      BY <2>6, <3>1
    <3>2. CASE d # e
      <4>1. ReportPath(d) # ReportPath(e) /\ ReportPath(d) \in Paths
        BY <3>2, ReportPathsDiffer DEF Exps, ReportPath, Paths
      <4>2. disk'[ReportPath(d)] = disk[ReportPath(d)]
        BY <1>6, <2>5, <4>1 DEF SkipExisting, ReportWritten, Core, DiskTypes
      <4>3. Reported(d)
        BY <2>1, <2>2, <2>5, <2>7, <3>2 DEF DealtReported
      <4>4. QED BY <1>5, <2>1, <4>2, <4>3
    <3>3. QED BY <3>1, <3>2
  <2>8. ASSUME NEW n \in 1 .. Dealt + 1 PROVE Reported(Slice[n])'
    <3>1. CASE n = Dealt + 1
      BY <2>3, <2>4, <2>5, <2>6, <3>1 DEF Reported
    <3>2. CASE n # Dealt + 1
      <4>1. n \in 1 .. Dealt
        BY <2>4, <3>2
      <4>2. PICK d \in Exps : d = Slice[n]
        BY <1>4, <2>1, <2>2, <4>1
      <4>3. Reported(d)' /\ Slice'[n] = d
        BY <2>4, <2>7, <4>1, <4>2
      <4>4. QED BY <4>3 DEF Reported
    <3>3. QED BY <3>1, <3>2
  <2>9. \A n \in 1 .. Dealt' : Reported(Slice[n])'
    BY <2>4, <2>8
  <2>10. QED BY <2>9 DEF DealtReported
<1>7. ASSUME WriteReport PROVE DealtReported'
  <2>1. UNCHANGED <<cmd, todo, starts>> /\ pc # "idle" /\ pc' = "writing" /\ todo # <<>>
    BY <1>7 DEF WriteReport, Core, Rests, Busy
  <2>2. SUFFICES ASSUME cmd.slice # None PROVE DealtReported'
    BY <2>1 DEF DealtReported
  <2>3. Slice' = Slice /\ Dealt' = Dealt
    BY <2>1 DEF Slice, Dealt
  <2>4. Head(todo) \in Exps
    BY <2>1, HeadIsExperiment
  <2>5. ASSUME NEW n \in 1 .. Dealt, Slice[n] # Head(todo) PROVE Reported(Slice[n])'
    <3>1. Slice[n] \in Exps
      BY <1>4, <2>1, <2>2
    <3>2. ReportPath(Slice[n]) # ReportPath(Head(todo)) /\ ReportPath(Slice[n]) \in Paths
      BY <2>4, <2>5, <3>1, ReportPathsDiffer DEF Exps, ReportPath, Paths
    <3>3. disk'[ReportPath(Slice[n])] = disk[ReportPath(Slice[n])]
      BY <1>7, <3>2 DEF WriteReport, Core, DiskTypes
    <3>4. Reported(Slice[n])
      BY <2>1, <2>2, <2>5 DEF DealtReported
    <3>5. QED BY <1>5, <2>1, <2>3, <3>3, <3>4
  <2>6. QED BY <2>1, <2>3, <2>5 DEF DealtReported
<1>8. ASSUME Begin PROVE DealtReported'
  BY <1>3, <1>8 DEF Begin
<1>9. ASSUME ModeEnsured \/ SpawnProbe \/ Measure PROVE DealtReported'
  BY <1>3, <1>9, SweepingStays DEF Stays, Busy, Reporting
<1>10. ASSUME \E s \in Servers : EnsureWsMode(s) \/ Restart(s) \/ \E m \in Modes : SwitchMode(s, m)
       PROVE  DealtReported'
  BY <1>3, <1>10 DEF EnsureWsMode, Restart, SwitchMode
<1>11. CASE UNCHANGED vars
  BY <1>3, <1>11 DEF vars
<1>12. QED
  BY <1>1, <1>2, <1>6, <1>7, <1>8, <1>9, <1>10, <1>11, Aborts DEF Next

LEMMA SliceInvariant == Spec => [](Core /\ InSlice /\ DealtReported)
<1>1. Init => InSlice /\ DealtReported
  BY DEF Init, Idle, InSlice, DealtReported
<1>2. QED BY CoreInit, CoreStep, <1>1, InSliceStep, DealtReportedStep, PTL DEF Spec

(* A slice that was finished has a report for each of its experiments: a   *)
(* new one, or with --skip-existing maybe an old one, which may be torn if *)
(* an earlier campaign ended while writing it.                             *)
THEOREM FinishedSlicesAreReported == Spec => []FinishedSliceIsReported
<1>1. Core /\ InSlice /\ DealtReported => FinishedSliceIsReported
  <2> SUFFICES ASSUME Core, InSlice, DealtReported, Done, cmd.slice # None,
                      NEW e \in ToSet(Slice)
               PROVE  Reported(e)
    BY DEF FinishedSliceIsReported, Reported, Slice
  <2>1. pc = "next" /\ todo = <<>>
    BY DEF Done
  <2>2. Slice \in Seq(Exps) /\ Len(Slice) \in Nat /\ Dealt = Len(Slice)
    BY <2>1, SliceIsSeq, EmptySeq DEF Dealt
  <2>3. PICK n \in 1 .. Len(Slice) : e = Slice[n]
    BY <2>2 DEF ToSet
  <2>4. QED BY <2>1, <2>2, <2>3 DEF DealtReported
<1>2. QED BY <1>1, SliceInvariant, PTL

(* Baselines.  The hub experiments of pls-hub come last, so that until two *)
(* experiments are left nothing has switched the server.                   *)
Baseline ==
  /\ cmd.slice = "pls-hub" /\ cmd.wsMode = None /\ cmd.from = "per_subscribe"
  /\ faults = 0 /\ pc # "idle" /\ Len(todo) > 2

BaselineMode ==
  Baseline =>
    /\ mode[cmd.main] = "per_subscribe"
    /\ Busy => hist.modes \subseteq {"per_subscribe"}
    /\ Reporting => hist.modes = {"per_subscribe"}

LEMMA HubSlice ==
  ASSUME Core, InSlice, cmd.slice = "pls-hub", pc # "idle"
  PROVE  /\ Len(Slice) = 4
         /\ Slice[1].id = "bm-pls0" /\ Slice[2].id = "bm-pls5"
         /\ Slice[3].id = "bm-pls0-hub" /\ Slice[4].id = "bm-pls5-hub"
<1> DEFINE xs == <<"bm-pls0", "bm-pls5", "bm-pls0-hub", "bm-pls5-hub">>
<1>1. xs \in Seq(Experiments) /\ Len(xs) = 4
  BY DEF Experiments
<1>2. /\ xs[1] = "bm-pls0" /\ xs[2] = "bm-pls5"
      /\ xs[3] = "bm-pls0-hub" /\ xs[4] = "bm-pls5-hub"
  OBVIOUS
<1>3. Slice = On(cmd.hardware, xs)
  BY DEF Slice, SliceExperiments
<1>4. cmd.hardware \in Profiles
  BY DEF InSlice, None
<1> HIDE DEF xs
<1>5. /\ Len(On(cmd.hardware, xs)) = Len(xs)
      /\ \A n \in 1 .. Len(xs) :
           On(cmd.hardware, xs)[n] = [id |-> xs[n], hardware |-> cmd.hardware]
  BY <1>1, <1>4, OnTypes
<1>6. \A n \in 1 .. 4 : Slice[n].id = xs[n]
  BY <1>1, <1>3, <1>5
<1>7. QED BY <1>1, <1>2, <1>3, <1>5, <1>6

LEMMA HubPosition ==
  ASSUME Core, InSlice, cmd.slice = "pls-hub", pc # "idle", todo # <<>>
  PROVE  Len(todo) > 2 <=> Id \in {"bm-pls0", "bm-pls5"}
<1>1. /\ Len(todo) \in Nat /\ Len(Slice) = 4 /\ Dealt \in 0 .. 4
      /\ Head(todo) = Slice[Dealt + 1] /\ Dealt + 1 \in 1 .. 4
  BY SliceIsSeq, NextOfSlice, HubSlice DEF None
<1>2. Len(todo) = 4 - Dealt
  BY <1>1 DEF Dealt
<1> HIDE DEF Dealt
<1>3. Dealt = 0 \/ Dealt = 1 \/ Dealt = 2 \/ Dealt = 3
  BY <1>1
<1>4. Id = Slice[Dealt + 1].id
  BY <1>1 DEF Id
<1>5. CASE Dealt = 0
  BY <1>2, <1>4, <1>5, HubSlice
<1>6. CASE Dealt = 1
  BY <1>2, <1>4, <1>6, HubSlice
<1>7. CASE Dealt = 2
  BY <1>2, <1>4, <1>7, HubSlice
<1>8. CASE Dealt = 3
  BY <1>2, <1>4, <1>8, HubSlice
<1>9. QED BY <1>3, <1>5, <1>6, <1>7, <1>8

LEMMA BaselineWantsNothing ==
  ASSUME Core, InSlice, Baseline
  PROVE  todo # <<>> /\ Wanted = None /\ LoadUrls = {cmd.main}
<1>1. todo # <<>>
  BY EmptySeq DEF Baseline
<1>2. Id \in {"bm-pls0", "bm-pls5"}
  BY <1>1, HubPosition DEF Baseline
<1>3. Wanted = None
  BY <1>2 DEF Wanted, ResolveWsMode, Baseline
<1>4. QED BY <1>1, <1>2, <1>3 DEF LoadUrls

LEMMA BaselineStep == Core /\ InSlice /\ BaselineMode /\ [Next]_vars => BaselineMode'
<1> SUFFICES ASSUME Core, InSlice, BaselineMode, [Next]_vars, Baseline'
             PROVE  /\ mode'[cmd'.main] = "per_subscribe"
                    /\ Busy' => hist'.modes \subseteq {"per_subscribe"}
                    /\ Reporting' => hist'.modes = {"per_subscribe"}
  BY DEF BaselineMode
<1> DEFINE Goal == /\ mode'[cmd'.main] = "per_subscribe"
                   /\ Busy' => hist'.modes \subseteq {"per_subscribe"}
                   /\ Reporting' => hist'.modes = {"per_subscribe"}
<1>1. ASSUME StartMatrix \/ StartRun PROVE Goal
  <2>1. PICK c, xs : Begun(c, xs)
    BY <1>1, MatrixStarts, RunStarts
  <2>2. cmd' = c /\ pc' = "next" /\ UNCHANGED mode
    BY <2>1 DEF Begun, Start
  <2>3. c.slice # None /\ c.from = "per_subscribe"
    BY <2>2 DEF Baseline, None
  <2>4. mode[c.main] = "per_subscribe"
    BY <2>1, <2>3 DEF Begun
  <2>5. QED BY <2>2, <2>4 DEF Busy, Reporting
<1>2. ASSUME Abort PROVE Goal
  BY <1>2 DEF Abort, Baseline
<1>3. ASSUME UNCHANGED <<cmd, todo>>, pc # "idle", faults = 0 PROVE Baseline
  BY <1>3 DEF Baseline
<1>4. ASSUME SkipExisting \/ ReportWritten PROVE Goal
  <2>1. /\ pc # "idle" /\ todo # <<>> /\ todo' = Tail(todo)
        /\ UNCHANGED <<mode, cmd, faults>> /\ pc' = "next"
    BY <1>4 DEF SkipExisting, ReportWritten, Proceed, Core, Rests, Busy
  <2>2. Len(todo) > 2
    <3>1. Len(Tail(todo)) > 2 /\ todo \in Seq(Exps)
      BY <2>1 DEF Baseline, Core, CommandTypes
    <3>2. Len(Tail(todo)) = Len(todo) - 1 /\ Len(todo) \in Nat
      BY <2>1, <3>1
    <3>3. QED BY <3>1, <3>2
  <2>3. Baseline
    BY <2>1, <2>2 DEF Baseline
  <2>4. QED BY <2>1, <2>3 DEF BaselineMode, Busy, Reporting
<1>5. ASSUME Begin PROVE Goal
  <2>1. UNCHANGED <<mode, cmd, todo, faults>> /\ pc # "idle" /\ pc' = "ensure" /\ hist' = NoHistory
    BY <1>5 DEF Begin
  <2>2. Baseline
    BY <2>1 DEF Baseline
  <2>3. QED BY <2>1, <2>2 DEF BaselineMode, NoHistory, Reporting
<1>6. ASSUME UNCHANGED <<cmd, todo, faults, hist>>, Busy, mode' = mode \/ \E S : mode' = Switched(mode, S),
             Reporting' => Reporting
      PROVE  Goal
  <2>1. Baseline
    BY <1>6 DEF Baseline, Busy
  <2>2. mode' = mode
    BY <1>6, <2>1, BaselineWantsNothing DEF Switched
  <2>3. QED BY <1>6, <2>1, <2>2 DEF BaselineMode
<1>7. ASSUME NEW s \in Servers, EnsureWsMode(s) PROVE Goal
  BY <1>6, <1>7 DEF EnsureWsMode, Busy, Reporting
<1>8. ASSUME ModeEnsured PROVE Goal
  BY <1>6, <1>8 DEF ModeEnsured, Busy, Reporting
<1>9. ASSUME SpawnProbe PROVE Goal
  BY <1>6, <1>9 DEF SpawnProbe, Busy, Reporting
<1>10. ASSUME Measure PROVE Goal
  <2>1. PICK pass, phantom :
          /\ hist' = [hist EXCEPT !.modes = @ \cup {mode[s] : s \in LoadUrls},
                                  !.verdicts = Append(@, <<ex.ladder, ex.rung, pass>>),
                                  !.phantom = phantom]
          /\ pc \in {"load", "probe"}
          /\ UNCHANGED <<mode, cmd, todo, faults>>
    BY <1>10, MeasureSteps
  <2>2. hist'.modes = hist.modes \cup {mode[s] : s \in LoadUrls}
    BY <2>1 DEF Core, SweepTypes, Histories
  <2>3. Baseline
    BY <2>1 DEF Baseline
  <2>4. LoadUrls = {cmd.main}
    BY <2>3, BaselineWantsNothing
  <2>5. mode[cmd.main] = "per_subscribe" /\ hist.modes \subseteq {"per_subscribe"}
    BY <2>1, <2>3 DEF BaselineMode, Busy
  <2>6. hist'.modes = {"per_subscribe"}
    BY <2>2, <2>4, <2>5
  <2>7. QED BY <2>1, <2>5, <2>6
<1>11. ASSUME WriteReport PROVE Goal
  BY <1>6, <1>11 DEF WriteReport, Busy, Reporting
<1>12. ASSUME NEW s \in Servers, Restart(s) \/ \E m \in Modes : SwitchMode(s, m) PROVE Goal
  <2>1. faults' = faults + 1 /\ faults \in Nat
    BY <1>12 DEF Restart, SwitchMode, Fault, Core, CountTypes
  <2>2. faults' = 0
    BY DEF Baseline
  <2>3. QED BY <2>1, <2>2
<1>13. CASE UNCHANGED vars
  <2>1. Baseline
    BY <1>13 DEF vars, Baseline
  <2>2. QED BY <1>13, <2>1 DEF vars, BaselineMode, Busy, Reporting
<1>14. QED
  BY <1>1, <1>2, <1>4, <1>5, <1>7, <1>8, <1>9, <1>10, <1>11, <1>12, <1>13, Aborts DEF Next

(* pls-hub compares the hub with the default mode ("A/B vs per_subscribe", *)
(* experiments/registry.rs:26).  Nothing puts a server back into the       *)
(* default mode; still the baselines are measured in it, if the server was *)
(* in it when the slice started.                                           *)
THEOREM BaselinesAreMeasured == Spec => []BaselineIsPerSubscribe
<1>1. Init => BaselineMode
  BY DEF Init, BaselineMode, Baseline
<1>2. Core /\ InSlice /\ BaselineMode => BaselineIsPerSubscribe
  <2> SUFFICES ASSUME Core, InSlice, BaselineMode, Reporting, Id \in {"bm-pls0", "bm-pls5"},
                      cmd.slice = "pls-hub", cmd.wsMode = None,
                      cmd.from = "per_subscribe", faults = 0
               PROVE  hist.modes = {"per_subscribe"}
    BY DEF BaselineIsPerSubscribe
  <2>1. pc # "idle" /\ todo # <<>>
    BY DEF Reporting, Core, Rests, Busy
  <2>2. Baseline
    BY <2>1, HubPosition DEF Baseline
  <2>3. QED BY <2>2 DEF BaselineMode
<1>3. QED BY SliceInvariant, <1>1, <1>2, BaselineStep, PTL DEF Spec
-----------------------------------------------------------------------------
(* Sweeps.  Every experiment climbs at least one ladder, and every ladder  *)
(* has at least one rung.                                                  *)

IsLadder(s) == Len(s) \in Nat \ {0} /\ DOMAIN s = 1 .. Len(s)
IsPlan(p) == IsLadder(p) /\ \A l \in 1 .. Len(p) : IsLadder(p[l])

LEMMA LadderOf ==
  ASSUME NEW n \in Nat \ {0}, NEW S, NEW s \in [1 .. n -> S]
  PROVE  IsLadder(s) /\ Len(s) = n /\ s \in Seq(S)
<1>1. s \in Seq(S)
  OBVIOUS
<1>2. Len(s) \in Nat /\ DOMAIN s = 1 .. Len(s) /\ DOMAIN s = 1 .. n
  BY <1>1
<1>3. Len(s) = n
  BY <1>1
<1>4. QED BY <1>1, <1>2, <1>3 DEF IsLadder

LEMMA TimesIsPlan ==
  ASSUME NEW k \in Nat \ {0}, NEW s, IsLadder(s)
  PROVE  IsPlan(Times(k, s))
<1>1. Times(k, s) \in [1 .. k -> {s}]
  BY DEF Times
<1>2. IsLadder(Times(k, s)) /\ Len(Times(k, s)) = k
  BY <1>1, LadderOf
<1>3. \A l \in 1 .. k : Times(k, s)[l] = s
  BY DEF Times
<1>4. QED BY <1>2, <1>3 DEF IsPlan

LEMMA OneIsPlan ==
  ASSUME NEW s, IsLadder(s)
  PROVE  IsPlan(<<s>>)
  BY DEF IsPlan, IsLadder

LEMMA LoadsAreLadder ==
  ASSUME NEW s, s # <<>>, s \in Seq(Nat \ {0}), NEW f, NEW S,
         f = [k \in DOMAIN s |-> f[k]], \A k \in DOMAIN s : f[k] \in S
  PROVE  IsLadder(f) /\ f \in Seq(S)
<1>1. Len(s) \in Nat \ {0} /\ DOMAIN s = 1 .. Len(s)
  BY EmptySeq
<1>2. f \in [1 .. Len(s) -> S]
  BY <1>1
<1>3. QED BY <1>1, <1>2, LadderOf

LEMMA PlanShape ==
  ASSUME Core, todo # <<>>
  PROVE  IsPlan(Plan)
<1> DEFINE SomeLoads == {Plain(k) : k \in Nat} \cup {InChild(k) : k \in Nat}
<1>1. Id \in Experiments
  BY HeadIsExperiment
<1>2. /\ Rates \in Nat \ {0} /\ Rungs \in Nat \ {0} /\ Sizes \in Nat \ {0}
      /\ InProcess # <<>> /\ InProcess \in Seq(Nat \ {0})
      /\ ByProcess # <<>> /\ ByProcess \in Seq(Nat \ {0})
      /\ Sockets # <<>> /\ Sockets \in Seq(Nat \ {0})
      /\ Groups # <<>> /\ Groups \in Seq(Nat \ {0})
  BY CampaignAssumption
<1>3. \A x : IsLadder(<<x>>) /\ IsPlan(<<<<x>>>>)
  BY DEF IsLadder, IsPlan
<1>4. IsPlan(Pls0)
  <2>1. IsLadder(Each(Plain, InProcess)) /\ Each(Plain, InProcess) \in Seq(SomeLoads)
    <3> DEFINE f == Each(Plain, InProcess)
    <3>1. f = [k \in DOMAIN InProcess |-> f[k]] /\ \A k \in DOMAIN InProcess : f[k] \in SomeLoads
      BY <1>2 DEF Each
    <3> HIDE DEF f, SomeLoads
    <3>2. IsLadder(f) /\ f \in Seq(SomeLoads)
      BY <1>2, <3>1, LoadsAreLadder
    <3>3. QED BY <3>2 DEF f
  <2>2. IsLadder(Each(InChild, ByProcess)) /\ Each(InChild, ByProcess) \in Seq(SomeLoads)
    <3> DEFINE f == Each(InChild, ByProcess)
    <3>1. f = [k \in DOMAIN ByProcess |-> f[k]] /\ \A k \in DOMAIN ByProcess : f[k] \in SomeLoads
      BY <1>2 DEF Each
    <3> HIDE DEF f, SomeLoads
    <3>2. IsLadder(f) /\ f \in Seq(SomeLoads)
      BY <1>2, <3>1, LoadsAreLadder
    <3>3. QED BY <3>2 DEF f
  <2> DEFINE f == Each(Plain, InProcess)
             g == Each(InChild, ByProcess)
  <2> HIDE DEF f, g, SomeLoads
  <2>3. f \o g \in Seq(SomeLoads) /\ Len(f \o g) = Len(f) + Len(g)
    BY <2>1, <2>2, ConcatProperties DEF f, g
  <2>4. IsLadder(f \o g)
    BY <2>1, <2>2, <2>3, LenProperties DEF IsLadder, f, g
  <2>5. IsPlan(Times(Rates, f \o g))
    BY <1>2, <2>4, TimesIsPlan
  <2>6. QED BY <1>3, <2>5 DEF Pls0, f, g
<1>5. IsPlan(Pls1)
  <2>1. IsLadder(Times(Rungs, Plain(Count)))
    <3>1. Times(Rungs, Plain(Count)) \in [1 .. Rungs -> {Plain(Count)}]
      BY DEF Times
    <3>2. QED BY <1>2, <3>1, LadderOf
  <2>2. QED BY <2>1, OneIsPlan DEF Pls1
<1>6. IsPlan(Pls2)
  <2> DEFINE f == Each(Plain, Sockets)
  <2>1. f = [k \in DOMAIN Sockets |-> f[k]] /\ \A k \in DOMAIN Sockets : f[k] \in SomeLoads
    BY <1>2 DEF Each
  <2> HIDE DEF f, SomeLoads
  <2>2. IsLadder(f)
    BY <1>2, <2>1, LoadsAreLadder
  <2>3. QED BY <2>2, OneIsPlan DEF Pls2, f
<1>7. IsPlan(Pls5)
  <2> DEFINE f == [k \in DOMAIN Groups |-> Keyed(Count, Groups[k])]
             S == {Keyed(Count, k) : k \in Nat}
  <2>1. f = [k \in DOMAIN Groups |-> f[k]] /\ \A k \in DOMAIN Groups : f[k] \in S
    BY <1>2
  <2>2. Pls5 = <<f>>
    BY DEF Pls5, Each
  <2> HIDE DEF f, S
  <2>3. IsLadder(f)
    BY <1>2, <2>1, LoadsAreLadder
  <2>4. QED BY <2>2, <2>3, OneIsPlan
<1>8. IsPlan(Pls4) /\ IsPlan(Pls7)
  <2>1. IsLadder(<<Plain(Count)>>) /\ 2 \in Nat \ {0}
    BY DEF IsLadder
  <2>2. IsPlan(Times(Sizes, <<Plain(Count)>>)) /\ IsPlan(Times(2, <<Plain(Count)>>))
    BY <1>2, <2>1, TimesIsPlan
  <2>3. QED BY <2>2 DEF Pls4, Pls7
<1>9. IsPlan(Pls3) /\ IsPlan(Pls8) /\ IsPlan(Pls9)
  BY <1>3 DEF Pls3, Pls8, Pls9
<1>10. IsPlan(Pls6)
  BY DEF Pls6, IsPlan, IsLadder
<1>11. QED
  BY <1>1, <1>4, <1>5, <1>6, <1>7, <1>8, <1>9, <1>10 DEF Plan, Ladders, Experiments

(* The tops of the ladders: how far each was climbed without a failure.    *)
Tops(top, p, e) ==
  /\ top \in [1 .. Len(p) + 1 -> Nat]
  /\ e.ladder \in 1 .. Len(p) + 1
  /\ IF e.ladder <= Len(p) THEN e.rung \in 1 .. Len(p[e.ladder]) ELSE e.rung = 1
  /\ top[e.ladder] = e.rung - 1 /\ e.lastPass = e.rung - 1
  /\ \A l \in 1 .. e.ladder - 1 : top[l] <= Len(p[l])

(* A load passes up to the top of its ladder, and the next one fails.      *)
Marked(top, p, e, V) ==
  \A l, r \in Nat :
    /\ <<l, r, TRUE>> \in V <=> l \in 1 .. e.ladder /\ r \in 1 .. top[l]
    /\ <<l, r, FALSE>> \in V <=>
         l \in 1 .. e.ladder - 1 /\ top[l] < Len(p[l]) /\ r = top[l] + 1

(* What a sweep remembers of the ladders that are over.                    *)
Summed(top, p, e) ==
  /\ \A l \in 1 .. e.ladder - 1 : top[l] <= e.best
  /\ e.best > 0 => \E l \in 1 .. e.ladder - 1 : top[l] = e.best
  /\ e.observedFail <=> \E l \in 1 .. e.ladder - 1 : top[l] < Len(p[l])
  /\ e.failed <=> (e.ladder > 1 /\ top[e.ladder - 1] < Len(p[e.ladder - 1]))

Swept(top, p, e, V) == Tops(top, p, e) /\ Marked(top, p, e, V) /\ Summed(top, p, e)

LEMMA SweepStarts ==
  ASSUME NEW p, IsPlan(p)
  PROVE  Swept([l \in 1 .. Len(p) + 1 |-> 0], p, NoSweep, {})
<1> DEFINE top == [l \in 1 .. Len(p) + 1 |-> 0]
<1>1. Len(p) \in Nat \ {0} /\ Len(p[1]) \in Nat \ {0}
  BY DEF IsPlan, IsLadder
<1>2. \A l \in 1 .. Len(p) + 1 : top[l] = 0
  OBVIOUS
<1>3. top \in [1 .. Len(p) + 1 -> Nat]
  BY <1>1
<1> HIDE DEF top
<1>4. /\ NoSweep.ladder = 1 /\ NoSweep.rung = 1 /\ NoSweep.lastPass = 0 /\ NoSweep.best = 0
      /\ NoSweep.failed = FALSE /\ NoSweep.observedFail = FALSE
  BY DEF NoSweep
<1>5. Tops(top, p, NoSweep)
  BY <1>1, <1>2, <1>3, <1>4 DEF Tops
<1>6. Marked(top, p, NoSweep, {})
  BY <1>1, <1>2, <1>4 DEF Marked
<1>7. Summed(top, p, NoSweep)
  BY <1>4 DEF Summed
<1>8. QED BY <1>5, <1>6, <1>7 DEF Swept, top

(* Up the ladder.                                                          *)
LEMMA SweepClimbs ==
  ASSUME NEW p, IsPlan(p), NEW e \in Sweeps, NEW V, NEW top, Swept(top, p, e, V),
         e.ladder <= Len(p), e.rung # Len(p[e.ladder]),
         NEW f \in Sweeps, f.ladder = e.ladder, f.rung = e.rung + 1, f.lastPass = e.rung,
         f.failed = e.failed, f.best = e.best, f.observedFail = e.observedFail
  PROVE  Swept([top EXCEPT ![e.ladder] = e.rung], p, f, V \cup {<<e.ladder, e.rung, TRUE>>})
<1> DEFINE t == [top EXCEPT ![e.ladder] = e.rung]
           W == V \cup {<<e.ladder, e.rung, TRUE>>}
<1>1. Tops(top, p, e) /\ Marked(top, p, e, V) /\ Summed(top, p, e)
  BY DEF Swept
<1>2. /\ Len(p) \in Nat /\ e.ladder \in 1 .. Len(p) /\ Len(p[e.ladder]) \in Nat
      /\ e.rung \in 1 .. Len(p[e.ladder]) /\ top[e.ladder] = e.rung - 1
      /\ top \in [1 .. Len(p) + 1 -> Nat]
  BY <1>1 DEF Tops, IsPlan, IsLadder
<1>3. /\ t \in [1 .. Len(p) + 1 -> Nat] /\ t[e.ladder] = e.rung
      /\ \A l \in 1 .. Len(p) + 1 : l # e.ladder => t[l] = top[l]
  BY <1>2
<1>4. \A l, r \in Nat : \A b \in BOOLEAN :
        <<l, r, b>> \in W <=> <<l, r, b>> \in V \/ (l = e.ladder /\ r = e.rung /\ b = TRUE)
  OBVIOUS
<1> HIDE DEF t, W
<1>5. Tops(t, p, f)
  <2>1. f.ladder \in 1 .. Len(p) + 1 /\ f.rung \in 1 .. Len(p[f.ladder])
    BY <1>2
  <2>2. t[f.ladder] = f.rung - 1 /\ f.lastPass = f.rung - 1 /\ f.ladder <= Len(p)
    BY <1>2, <1>3
  <2>3. \A l \in 1 .. f.ladder - 1 : l \in 1 .. e.ladder - 1 /\ t[l] = top[l]
    BY <1>2, <1>3
  <2>4. \A l \in 1 .. e.ladder - 1 : top[l] <= Len(p[l])
    BY <1>1 DEF Tops
  <2>5. QED BY <1>3, <2>1, <2>2, <2>3, <2>4 DEF Tops
<1>6. Marked(t, p, f, W)
  <2> SUFFICES ASSUME NEW l \in Nat, NEW r \in Nat
               PROVE  /\ <<l, r, TRUE>> \in W <=> l \in 1 .. f.ladder /\ r \in 1 .. t[l]
                      /\ <<l, r, FALSE>> \in W <=>
                           l \in 1 .. f.ladder - 1 /\ t[l] < Len(p[l]) /\ r = t[l] + 1
    BY DEF Marked
  <2>1. /\ <<l, r, TRUE>> \in V <=> l \in 1 .. e.ladder /\ r \in 1 .. top[l]
        /\ <<l, r, FALSE>> \in V <=>
             l \in 1 .. e.ladder - 1 /\ top[l] < Len(p[l]) /\ r = top[l] + 1
    BY <1>1 DEF Marked
  <2>2. /\ <<l, r, TRUE>> \in W <=> <<l, r, TRUE>> \in V \/ (l = e.ladder /\ r = e.rung)
        /\ <<l, r, FALSE>> \in W <=> <<l, r, FALSE>> \in V
    BY <1>4
  <2>3. CASE l = e.ladder
    BY <1>2, <1>3, <2>1, <2>2, <2>3, SMTT(30)
  <2>4. CASE l # e.ladder
    BY <1>2, <1>3, <2>1, <2>2, <2>4
  <2>5. QED BY <2>3, <2>4
<1>7. Summed(t, p, f)
  <2>1. \A l \in 1 .. e.ladder - 1 : t[l] = top[l]
    BY <1>2, <1>3
  <2>2. e.ladder > 1 => e.ladder - 1 \in 1 .. e.ladder - 1
    BY <1>2
  <2>3. QED BY <1>1, <2>1, <2>2 DEF Summed
<1>8. QED BY <1>5, <1>6, <1>7 DEF Swept, t, W

(* To the next ladder, at the end of one or after a failure.               *)
LEMMA SweepEnds ==
  ASSUME NEW p, IsPlan(p), NEW e \in Sweeps, NEW V, NEW top, Swept(top, p, e, V),
         e.ladder <= Len(p), NEW pass \in BOOLEAN, ~pass \/ e.rung = Len(p[e.ladder]),
         NEW n, n = (IF pass THEN e.rung ELSE e.lastPass),
         NEW f \in Sweeps, f.ladder = e.ladder + 1, f.rung = 1, f.lastPass = 0, f.failed = ~pass,
         f.best = (IF n > e.best THEN n ELSE e.best), f.observedFail = (e.observedFail \/ ~pass)
  PROVE  Swept([top EXCEPT ![e.ladder] = n, ![e.ladder + 1] = 0], p, f,
               V \cup {<<e.ladder, e.rung, pass>>})
<1> DEFINE t == [top EXCEPT ![e.ladder] = n, ![e.ladder + 1] = 0]
           W == V \cup {<<e.ladder, e.rung, pass>>}
<1>1. Tops(top, p, e) /\ Marked(top, p, e, V) /\ Summed(top, p, e)
  BY DEF Swept
<1>2. /\ Len(p) \in Nat /\ e.ladder \in 1 .. Len(p) /\ Len(p[e.ladder]) \in Nat
      /\ e.rung \in 1 .. Len(p[e.ladder]) /\ top[e.ladder] = e.rung - 1
      /\ top \in [1 .. Len(p) + 1 -> Nat] /\ e.lastPass = e.rung - 1
  BY <1>1 DEF Tops, IsPlan, IsLadder
<1>3. /\ n \in Nat /\ n <= Len(p[e.ladder]) /\ (n < Len(p[e.ladder]) <=> ~pass)
      /\ (~pass => n = e.rung - 1) /\ (pass => n = e.rung)
  BY <1>2, SMTT(30)
<1>4. /\ t \in [1 .. Len(p) + 1 -> Nat] /\ t[e.ladder] = n /\ t[e.ladder + 1] = 0
      /\ \A l \in 1 .. Len(p) + 1 : l # e.ladder /\ l # e.ladder + 1 => t[l] = top[l]
  <2> DEFINE u == [top EXCEPT ![e.ladder] = n]
  <2>1. e.ladder \in 1 .. Len(p) + 1 /\ e.ladder + 1 \in 1 .. Len(p) + 1 /\ e.ladder + 1 # e.ladder
    BY <1>2
  <2>2. /\ u \in [1 .. Len(p) + 1 -> Nat] /\ u[e.ladder] = n
        /\ \A l \in 1 .. Len(p) + 1 : l # e.ladder => u[l] = top[l]
    BY <1>2, <1>3, <2>1
  <2>3. t = [u EXCEPT ![e.ladder + 1] = 0]
    OBVIOUS
  <2> HIDE DEF u, t
  <2>4. QED BY <2>1, <2>2, <2>3
<1>10. \A l \in 1 .. e.ladder - 1 :
         l \in 1 .. Len(p) + 1 /\ l # e.ladder /\ l # e.ladder + 1 /\ l \in 1 .. e.ladder
  <2>1. e.ladder \in Nat /\ Len(p) \in Nat /\ e.ladder <= Len(p)
    BY <1>2
  <2>2. QED BY <2>1
<1>11. \A l \in 1 .. e.ladder - 1 : t[l] = top[l] /\ top[l] \in Nat /\ top[l] <= Len(p[l])
  <2> HIDE DEF t
  <2>1. \A l \in 1 .. e.ladder - 1 : top[l] <= Len(p[l])
    BY <1>1 DEF Tops
  <2>2. QED BY <1>2, <1>4, <1>10, <2>1
<1>12. f.ladder = e.ladder + 1 /\ f.ladder - 1 = e.ladder /\ e.ladder \in 1 .. e.ladder
       /\ f.ladder > 1 /\ \A l \in 1 .. e.ladder : l = e.ladder \/ l \in 1 .. e.ladder - 1
  BY <1>2
<1>5. \A l, r \in Nat : \A b \in BOOLEAN :
        <<l, r, b>> \in W <=> <<l, r, b>> \in V \/ (l = e.ladder /\ r = e.rung /\ b = pass)
  OBVIOUS
<1> HIDE DEF t, W
<1>6. Tops(t, p, f)
  <2>1. f.ladder \in 1 .. Len(p) + 1 /\ t[f.ladder] = f.rung - 1 /\ f.lastPass = f.rung - 1
    BY <1>2, <1>4
  <2>2. f.ladder <= Len(p) => f.rung \in 1 .. Len(p[f.ladder])
    BY <1>2 DEF IsPlan, IsLadder
  <2>3. \A l \in 1 .. f.ladder - 1 : t[l] <= Len(p[l])
    BY <1>3, <1>4, <1>11, <1>12
  <2>4. QED BY <1>4, <2>1, <2>2, <2>3 DEF Tops
<1>7. Marked(t, p, f, W)
  <2> SUFFICES ASSUME NEW l \in Nat, NEW r \in Nat
               PROVE  /\ <<l, r, TRUE>> \in W <=> l \in 1 .. f.ladder /\ r \in 1 .. t[l]
                      /\ <<l, r, FALSE>> \in W <=>
                           l \in 1 .. f.ladder - 1 /\ t[l] < Len(p[l]) /\ r = t[l] + 1
    BY DEF Marked
  <2>1. /\ <<l, r, TRUE>> \in V <=> l \in 1 .. e.ladder /\ r \in 1 .. top[l]
        /\ <<l, r, FALSE>> \in V <=>
             l \in 1 .. e.ladder - 1 /\ top[l] < Len(p[l]) /\ r = top[l] + 1
    BY <1>1 DEF Marked
  <2>2. /\ <<l, r, TRUE>> \in W <=> <<l, r, TRUE>> \in V \/ (l = e.ladder /\ r = e.rung /\ pass)
        /\ <<l, r, FALSE>> \in W <=> <<l, r, FALSE>> \in V \/ (l = e.ladder /\ r = e.rung /\ ~pass)
    BY <1>5
  <2>3. /\ l \in 1 .. f.ladder <=> l \in 1 .. e.ladder - 1 \/ l = e.ladder \/ l = e.ladder + 1
        /\ l \in 1 .. e.ladder <=> l \in 1 .. e.ladder - 1 \/ l = e.ladder
        /\ ~ (e.ladder \in 1 .. e.ladder - 1) /\ ~ (e.ladder + 1 \in 1 .. e.ladder)
    BY <1>2, SMTT(30)
  <2>4. CASE l = e.ladder
    <3>1. r \in 1 .. n <=> r \in 1 .. top[l] \/ (r = e.rung /\ pass)
      BY <1>2, <1>3, <2>4, SMTT(30)
    <3>2. t[l] < Len(p[l]) /\ r = t[l] + 1 <=> r = e.rung /\ ~pass
      BY <1>2, <1>3, <1>4, <2>4, SMTT(30)
    <3>3. t[l] = n /\ l \in 1 .. e.ladder /\ l \in 1 .. f.ladder - 1 /\ l \notin 1 .. e.ladder - 1
          /\ l \in 1 .. f.ladder
      BY <1>4, <1>12, <2>3, <2>4
    <3>4. <<l, r, TRUE>> \in W <=> l \in 1 .. f.ladder /\ r \in 1 .. t[l]
      BY <2>1, <2>2, <2>4, <3>1, <3>3
    <3>5. <<l, r, FALSE>> \in W <=> l \in 1 .. f.ladder - 1 /\ t[l] < Len(p[l]) /\ r = t[l] + 1
      BY <2>1, <2>2, <2>4, <3>2, <3>3
    <3>6. QED BY <3>4, <3>5
  <2>5. CASE l = e.ladder + 1
    BY <1>2, <1>4, <1>12, <2>1, <2>2, <2>3, <2>5
  <2>6. CASE l # e.ladder /\ l # e.ladder + 1
    BY <1>11, <1>12, <2>1, <2>2, <2>3, <2>6
  <2>7. QED BY <2>4, <2>5, <2>6
<1>8. Summed(t, p, f)
  <2>1. e.best \in Nat
    BY DEF Sweeps
  <2>2. /\ \A l \in 1 .. e.ladder - 1 : top[l] <= e.best
        /\ e.best > 0 => \E l \in 1 .. e.ladder - 1 : top[l] = e.best
        /\ e.observedFail <=> \E l \in 1 .. e.ladder - 1 : top[l] < Len(p[l])
    BY <1>1 DEF Summed
  <2>3. \A l \in 1 .. e.ladder : t[l] <= f.best
    <3>1. n <= f.best /\ e.best <= f.best /\ f.best \in Nat
      BY <1>3, <2>1
    <3>2. \A l \in 1 .. e.ladder - 1 : t[l] <= f.best
      BY <1>11, <2>1, <2>2, <3>1
    <3>3. QED BY <1>4, <1>12, <3>1, <3>2
  <2>4. f.best > 0 => \E l \in 1 .. e.ladder : t[l] = f.best
    <3>1. CASE n > e.best
      BY <1>4, <1>12, <3>1
    <3>2. CASE ~ (n > e.best)
      BY <1>10, <1>11, <2>2, <3>2
    <3>3. QED BY <3>1, <3>2
  <2>5. f.observedFail <=> \E l \in 1 .. e.ladder : t[l] < Len(p[l])
    BY <1>3, <1>4, <1>10, <1>11, <1>12, <2>2, ZenonT(30)
  <2>6. f.failed <=> t[e.ladder] < Len(p[e.ladder])
    BY <1>3, <1>4
  <2>7. QED BY <1>12, <2>3, <2>4, <2>5, <2>6 DEF Summed
<1>9. QED BY <1>6, <1>7, <1>8 DEF Swept, t, W

Sweep ==
  Busy =>
    /\ \E top : Swept(top, Plan, ex, Verdicts)
    /\ IF Reporting THEN ex.ladder > Len(Plan) ELSE ex.ladder <= Len(Plan)

LEMMA VerdictAdded ==
  ASSUME NEW T, NEW s \in Seq(T), NEW x \in T
  PROVE  ToSet(Append(s, x)) = ToSet(s) \cup {x}
<1>1. /\ Append(s, x) \in Seq(T) /\ Len(Append(s, x)) = Len(s) + 1
      /\ \A i \in 1 .. Len(s) : Append(s, x)[i] = s[i]
      /\ Append(s, x)[Len(s) + 1] = x
  BY AppendProperties
<1>2. DOMAIN s = 1 .. Len(s) /\ DOMAIN Append(s, x) = 1 .. Len(s) + 1 /\ Len(s) \in Nat
  BY <1>1
<1>3. \A i : i \in 1 .. Len(s) + 1 <=> i \in 1 .. Len(s) \/ i = Len(s) + 1
  BY <1>2
<1>4. QED BY <1>1, <1>2, <1>3 DEF ToSet

LEMMA SamePlan ==
  ASSUME UNCHANGED <<cmd, todo>>
  PROVE  UNCHANGED Plan
  BY DEF Plan, Id, Ladders, Pls0, Pls1, Pls2, Pls3, Pls4, Pls5, Pls6, Pls7, Pls8, Pls9, Count

LEMMA SweepStep == Core /\ Sweep /\ [Next]_vars => Sweep'
<1> SUFFICES ASSUME Core, Sweep, [Next]_vars PROVE Sweep'
  OBVIOUS
<1>1. ASSUME ~Busy' PROVE Sweep'
  BY <1>1 DEF Sweep
<1>2. ASSUME StartMatrix \/ StartRun \/ SkipExisting \/ ReportWritten PROVE Sweep'
  BY <1>1, <1>2 DEF StartMatrix, StartRun, Start, SkipExisting, ReportWritten, Proceed, Busy
<1>3. ASSUME Abort PROVE Sweep'
  BY <1>1, <1>3 DEF Abort, Busy
<1>4. ASSUME Begin PROVE Sweep'
  <2>1. /\ todo # <<>> /\ UNCHANGED <<cmd, todo>> /\ ex' = NoSweep /\ hist' = NoHistory
        /\ pc' = "ensure"
    BY <1>4 DEF Begin, Core, Rests, Busy
  <2>2. Verdicts' = {}
    BY <2>1 DEF Verdicts, ToSet, NoHistory
  <2>3. IsPlan(Plan) /\ UNCHANGED Plan
    BY <2>1, PlanShape, SamePlan
  <2>4. \E top : Swept(top, Plan, NoSweep, {})
    BY <2>3, SweepStarts
  <2>5. NoSweep.ladder <= Len(Plan)
    BY <2>3 DEF NoSweep, IsPlan, IsLadder
  <2>6. QED BY <2>1, <2>2, <2>3, <2>4, <2>5 DEF Sweep, Reporting
<1>5. ASSUME UNCHANGED <<cmd, todo>>, Busy, Busy', Reporting' <=> Reporting,
             hist'.verdicts = hist.verdicts,
             \/ ex' = ex
             \/ \E S : ex' = [ex EXCEPT !.ensured = S]
      PROVE  Sweep'
  <2>1. UNCHANGED Plan
    BY <1>5, SamePlan
  <2>2. Verdicts' = Verdicts
    BY <1>5 DEF Verdicts
  <2>3. /\ ex'.ladder = ex.ladder /\ ex'.rung = ex.rung /\ ex'.lastPass = ex.lastPass
        /\ ex'.best = ex.best /\ ex'.failed = ex.failed /\ ex'.observedFail = ex.observedFail
    BY <1>5 DEF Core, SweepTypes, Sweeps
  <2>4. PICK top : Swept(top, Plan, ex, Verdicts)
    BY <1>5 DEF Sweep
  <2>5. Swept(top, Plan, ex', Verdicts)
    BY <2>3, <2>4 DEF Swept, Tops, Marked, Summed
  <2>6. QED BY <1>5, <2>1, <2>2, <2>3, <2>5 DEF Sweep
<1>6. ASSUME NEW s \in Servers, EnsureWsMode(s) PROVE Sweep'
  BY <1>5, <1>6 DEF EnsureWsMode, Busy, Reporting
<1>7. ASSUME ModeEnsured \/ SpawnProbe \/ WriteReport PROVE Sweep'
  BY <1>5, <1>7 DEF ModeEnsured, SpawnProbe, WriteReport, Busy, Reporting
<1>8. ASSUME NEW s \in Servers, Restart(s) \/ \E m \in Modes : SwitchMode(s, m) PROVE Sweep'
  <2>1. Disturb(s) /\ UNCHANGED <<cmd, todo, pc, ex>>
    BY <1>8 DEF Restart, SwitchMode
  <2>2. hist'.verdicts = hist.verdicts
    BY <2>1 DEF Disturb, Core, SweepTypes, Histories
  <2>3. CASE Busy
    BY <1>5, <2>1, <2>2, <2>3 DEF Busy, Reporting
  <2>4. QED BY <1>1, <2>1, <2>3 DEF Busy
<1>9. ASSUME Measure PROVE Sweep'
  <2>1. PICK pass \in BOOLEAN, phantom \in BOOLEAN :
          /\ (pass /\ Climbs) \/ Ended(pass)
          /\ hist' = [hist EXCEPT !.modes = @ \cup {mode[s] : s \in LoadUrls},
                                  !.verdicts = Append(@, <<ex.ladder, ex.rung, pass>>),
                                  !.phantom = phantom]
          /\ pc \in {"load", "probe"}
          /\ pc' = IF ex'.ladder > Len(Plan) THEN "report" ELSE "load"
          /\ UNCHANGED <<mode, disk, cmd, todo, starts, faults>>
    BY <1>9, MeasureSteps
  <2>2. UNCHANGED Plan /\ todo # <<>> /\ ex \in Sweeps
    BY <2>1, SamePlan DEF Core, Rests, Busy, SweepTypes
  <2>3. IsPlan(Plan)
    BY <2>2, PlanShape
  <2>4. PICK top : Swept(top, Plan, ex, Verdicts)
    BY <2>1 DEF Sweep, Busy
  <2>5. ex.ladder <= Len(Plan)
    BY <2>1 DEF Sweep, Busy, Reporting
  <2>6. Verdicts' = Verdicts \cup {<<ex.ladder, ex.rung, pass>>}
    <3>1. hist.verdicts \in Seq(Nat \X Nat \X BOOLEAN)
      BY DEF Core, SweepTypes, Histories
    <3>2. <<ex.ladder, ex.rung, pass>> \in Nat \X Nat \X BOOLEAN
      BY <2>2 DEF Sweeps
    <3>3. hist'.verdicts = Append(hist.verdicts, <<ex.ladder, ex.rung, pass>>)
      BY <2>1 DEF Core, SweepTypes, Histories
    <3>4. ToSet(Append(hist.verdicts, <<ex.ladder, ex.rung, pass>>))
            = ToSet(hist.verdicts) \cup {<<ex.ladder, ex.rung, pass>>}
      <4> DEFINE T == Nat \X Nat \X BOOLEAN
                 x == <<ex.ladder, ex.rung, pass>>
      <4>1. hist.verdicts \in Seq(T) /\ x \in T
        BY <3>1, <3>2
      <4> HIDE DEF T, x
      <4>2. ToSet(Append(hist.verdicts, x)) = ToSet(hist.verdicts) \cup {x}
        BY <4>1, VerdictAdded
      <4>3. QED BY <4>2 DEF x
    <3>5. Verdicts' = ToSet(hist'.verdicts)
      BY DEF Verdicts
    <3>6. QED BY <3>3, <3>4, <3>5, Zenon DEF Verdicts
  <2>7. ex' \in Sweeps
    BY CoreStep DEF Core, SweepTypes
  <2>8. \E t : Swept(t, Plan, ex', Verdicts')
    <3>1. CASE pass /\ Climbs
      <4>1. /\ ex.rung # Len(Plan[ex.ladder])
            /\ ex'.ladder = ex.ladder /\ ex'.rung = ex.rung + 1 /\ ex'.lastPass = ex.rung
            /\ ex'.failed = ex.failed /\ ex'.best = ex.best
            /\ ex'.observedFail = ex.observedFail
        BY <2>2, <3>1 DEF Climbs, Sweeps
      <4>2. Swept([top EXCEPT ![ex.ladder] = ex.rung], Plan, ex',
                  Verdicts \cup {<<ex.ladder, ex.rung, TRUE>>})
        BY <2>2, <2>3, <2>4, <2>5, <2>7, <4>1, SweepClimbs
      <4>3. pass = TRUE
        BY <3>1
      <4>4. QED BY <2>6, <4>2, <4>3
    <3>2. CASE Ended(pass)
      <4> DEFINE n == IF pass THEN ex.rung ELSE ex.lastPass
      <4>1. n \in Nat /\ (~pass) \in BOOLEAN
        BY <2>2 DEF Sweeps
      <4>2. ex' = EndLadder(ex, n, ~pass) /\ (~pass \/ ex.rung = Len(Plan[ex.ladder]))
        BY <3>2 DEF Ended
      <4>3. n = IF pass THEN ex.rung ELSE ex.lastPass
        OBVIOUS
      <4> HIDE DEF n
      <4>4. /\ ex'.ladder = ex.ladder + 1 /\ ex'.rung = 1 /\ ex'.lastPass = 0
            /\ ex'.failed = ~pass /\ ex'.best = (IF n > ex.best THEN n ELSE ex.best)
            /\ ex'.observedFail = (ex.observedFail \/ ~pass)
        <5>1. PICK failed \in BOOLEAN : failed = ~pass
          OBVIOUS
        <5>2. ex' = EndLadder(ex, n, failed) /\ ex \in Sweeps /\ n \in Nat
          BY <2>2, <4>1, <4>2, <5>1
        <5>3. /\ ex'.ladder = ex.ladder + 1 /\ ex'.rung = 1 /\ ex'.lastPass = 0
              /\ ex'.failed = failed /\ ex'.best = (IF n > ex.best THEN n ELSE ex.best)
              /\ ex'.observedFail = (ex.observedFail \/ failed)
          <6>1. ex'.ladder = ex.ladder + 1
            BY <5>2 DEF EndLadder, Sweeps
          <6>2. ex'.rung = 1
            BY <5>2, EndLadderFields
          <6>3. ex'.lastPass = 0
            BY <5>2, EndLadderFields
          <6>4. ex'.failed = failed
            BY <5>2, EndLadderFields
          <6>5. ex'.best = (IF n > ex.best THEN n ELSE ex.best)
            BY <5>2, EndLadderFields
          <6>6. ex'.observedFail = (ex.observedFail \/ failed)
            BY <5>2, EndLadderFields
          <6>7. QED BY <6>1, <6>2, <6>3, <6>4, <6>5, <6>6
        <5>4. QED BY <5>1, <5>3
      <4>5. Swept([top EXCEPT ![ex.ladder] = n, ![ex.ladder + 1] = 0], Plan, ex',
                  Verdicts \cup {<<ex.ladder, ex.rung, pass>>})
        BY <2>2, <2>3, <2>4, <2>5, <2>7, <4>2, <4>3, <4>4, SweepEnds
      <4>6. QED BY <2>6, <4>5
    <3>3. QED BY <2>1, <3>1, <3>2
  <2>9. (IF Reporting THEN ex.ladder > Len(Plan) ELSE ex.ladder <= Len(Plan))'
    <3>1. ex'.ladder \in Nat /\ Len(Plan) \in Nat
      BY <2>3, <2>7 DEF Sweeps, IsPlan, IsLadder
    <3>2. pc' = IF ex'.ladder > Len(Plan') THEN "report" ELSE "load"
      BY <2>1, <2>2
    <3>3. QED BY <2>2, <3>1, <3>2 DEF Reporting
  <2>10. QED BY <2>2, <2>8, <2>9 DEF Sweep
<1>10. CASE UNCHANGED vars
  <2>1. UNCHANGED <<cmd, todo, pc, ex, hist>>
    BY <1>10 DEF vars
  <2>2. CASE Busy
    BY <1>5, <2>1, <2>2 DEF Busy, Reporting
  <2>3. QED BY <1>1, <2>1, <2>2 DEF Busy
<1>11. QED
  BY <1>2, <1>3, <1>4, <1>6, <1>7, <1>8, <1>9, <1>10, Aborts DEF Next

(* What the verdicts say of a sweep that is over.                          *)
LEMMA SweepSaysWhatItSaw ==
  ASSUME NEW p, IsPlan(p), NEW e \in Sweeps, NEW V \in SUBSET (Nat \X Nat \X BOOLEAN), NEW top,
         Swept(top, p, e, V), e.ladder > Len(p)
  PROVE  /\ \A r \in Nat \ {0} :
              (\E l \in DOMAIN p : \A q \in 1 .. r : <<l, q, TRUE>> \in V) <=> r <= e.best
         /\ e.observedFail <=> \E v \in V : ~v[3]
         /\ ~e.observedFail =>
              /\ e.best > 0
              /\ \A l \in DOMAIN p : \A q \in 1 .. Len(p[l]) : <<l, q, TRUE>> \in V
         /\ e.failed => e.observedFail
         /\ e.best > 0 \/ ~e.failed => \E v \in V : v[3]
<1>1. Tops(top, p, e) /\ Marked(top, p, e, V) /\ Summed(top, p, e)
  BY DEF Swept
<1>2. /\ Len(p) \in Nat \ {0} /\ DOMAIN p = 1 .. Len(p)
      /\ \A l \in 1 .. Len(p) : Len(p[l]) \in Nat \ {0}
  BY DEF IsPlan, IsLadder
<1>3. /\ e.ladder = Len(p) + 1 /\ e.ladder - 1 = Len(p) /\ top \in [1 .. Len(p) + 1 -> Nat]
      /\ top[Len(p) + 1] = 0
  BY <1>1, <1>2 DEF Tops
<1>4. \A l \in 1 .. Len(p) : l \in 1 .. Len(p) + 1 /\ top[l] \in Nat /\ top[l] <= Len(p[l])
  BY <1>1, <1>2, <1>3 DEF Tops
<1>5. \A l, r \in Nat : <<l, r, TRUE>> \in V <=> l \in 1 .. Len(p) /\ r \in 1 .. top[l]
  <2> SUFFICES ASSUME NEW l \in Nat, NEW r \in Nat
               PROVE  <<l, r, TRUE>> \in V <=> l \in 1 .. Len(p) /\ r \in 1 .. top[l]
    OBVIOUS
  <2>1. <<l, r, TRUE>> \in V <=> l \in 1 .. Len(p) + 1 /\ r \in 1 .. top[l]
    BY <1>1, <1>3 DEF Marked
  <2>2. l = Len(p) + 1 => ~ (r \in 1 .. top[l])
    BY <1>3
  <2>3. l \in 1 .. Len(p) + 1 <=> l \in 1 .. Len(p) \/ l = Len(p) + 1
    BY <1>2
  <2>4. QED BY <2>1, <2>2, <2>3
<1>6. \A l, r \in Nat : <<l, r, FALSE>> \in V <=>
        l \in 1 .. Len(p) /\ top[l] < Len(p[l]) /\ r = top[l] + 1
  BY <1>1, <1>3 DEF Marked
<1>7. /\ \A l \in 1 .. Len(p) : top[l] <= e.best
      /\ e.best > 0 => \E l \in 1 .. Len(p) : top[l] = e.best
      /\ e.observedFail <=> \E l \in 1 .. Len(p) : top[l] < Len(p[l])
      /\ e.failed <=> top[Len(p)] < Len(p[Len(p)])
      /\ e.best \in Nat
  BY <1>1, <1>2, <1>3 DEF Summed, Sweeps
<1>8. \A v \in V : \E l, r \in Nat : \E b \in BOOLEAN : v = <<l, r, b>>
  OBVIOUS
<1>9. \A r \in Nat \ {0} :
        (\E l \in DOMAIN p : \A q \in 1 .. r : <<l, q, TRUE>> \in V) <=> r <= e.best
  <2> SUFFICES ASSUME NEW r \in Nat \ {0}
               PROVE  (\E l \in DOMAIN p : \A q \in 1 .. r : <<l, q, TRUE>> \in V) <=> r <= e.best
    OBVIOUS
  <2>1. ASSUME NEW l \in DOMAIN p, \A q \in 1 .. r : <<l, q, TRUE>> \in V PROVE r <= e.best
    <3>1. r \in 1 .. r /\ l \in 1 .. Len(p) /\ l \in Nat
      BY <1>2
    <3>4. <<l, r, TRUE>> \in V
      BY <2>1, <3>1
    <3>2. r \in 1 .. top[l]
      BY <1>5, <3>1, <3>4
    <3>3. QED BY <1>4, <1>7, <3>1, <3>2
  <2>2. ASSUME r <= e.best PROVE \E l \in DOMAIN p : \A q \in 1 .. r : <<l, q, TRUE>> \in V
    <3>1. PICK l \in 1 .. Len(p) : top[l] = e.best
      BY <1>7, <2>2
    <3>2. \A q \in 1 .. r : q \in Nat /\ q \in 1 .. top[l]
      BY <1>7, <2>2, <3>1
    <3>3. l \in Nat
      BY <1>2
    <3>4. \A q \in 1 .. r : <<l, q, TRUE>> \in V
      BY <1>5, <3>2, <3>3
    <3>5. QED BY <1>2, <3>1, <3>4
  <2>3. QED BY <2>1, <2>2
<1>10. e.observedFail <=> \E v \in V : ~v[3]
  <2>1. ASSUME e.observedFail PROVE \E v \in V : ~v[3]
    <3>1. PICK l \in 1 .. Len(p) : top[l] < Len(p[l])
      BY <1>7, <2>1
    <3>2. l \in Nat /\ top[l] + 1 \in Nat
      BY <1>2, <1>4
    <3>3. <<l, top[l] + 1, FALSE>> \in V
      BY <1>6, <3>1, <3>2
    <3>4. QED BY <3>3
  <2>2. ASSUME NEW v \in V, ~v[3] PROVE e.observedFail
    <3>1. PICK l \in Nat, r \in Nat, b \in BOOLEAN : v = <<l, r, b>>
      BY <1>8
    <3>2. <<l, r, FALSE>> \in V
      BY <2>2, <3>1
    <3>3. QED BY <1>6, <1>7, <3>2
  <2>3. QED BY <2>1, <2>2
<1>11. ASSUME NEW l \in 1 .. Len(p), ~ (top[l] < Len(p[l]))
       PROVE  top[l] > 0 /\ \A q \in 1 .. Len(p[l]) : <<l, q, TRUE>> \in V
  <2>1. top[l] = Len(p[l]) /\ Len(p[l]) \in Nat \ {0}
    BY <1>2, <1>4, <1>11
  <2>2. l \in Nat /\ \A q \in 1 .. Len(p[l]) : q \in Nat /\ q \in 1 .. top[l]
    BY <1>2, <2>1
  <2>3. \A q \in 1 .. Len(p[l]) : <<l, q, TRUE>> \in V
    BY <1>5, <2>2
  <2>4. top[l] > 0
    BY <2>1
  <2>5. QED BY <2>3, <2>4
<1>12. ~e.observedFail =>
         e.best > 0 /\ \A l \in DOMAIN p : \A q \in 1 .. Len(p[l]) : <<l, q, TRUE>> \in V
  <2> SUFFICES ASSUME ~e.observedFail
               PROVE  e.best > 0 /\ \A l \in DOMAIN p : \A q \in 1 .. Len(p[l]) : <<l, q, TRUE>> \in V
    OBVIOUS
  <2>1. \A l \in 1 .. Len(p) : top[l] > 0 /\ \A q \in 1 .. Len(p[l]) : <<l, q, TRUE>> \in V
    BY <1>7, <1>11
  <2>2. e.best > 0
    BY <1>2, <1>4, <1>7, <2>1
  <2>3. QED BY <1>2, <2>1, <2>2
<1>13. e.failed => e.observedFail
  BY <1>2, <1>7
<1>14. ASSUME e.best > 0 \/ ~e.failed PROVE \E v \in V : v[3]
  <2>1. \E l \in 1 .. Len(p) : top[l] > 0
    <3>1. Len(p) \in 1 .. Len(p)
      BY <1>2
    <3>2. QED BY <1>7, <1>11, <1>14, <3>1
  <2>2. PICK l \in 1 .. Len(p) : top[l] > 0
    BY <2>1
  <2>3. 1 \in 1 .. top[l] /\ l \in Nat
    BY <1>2, <1>4, <2>2
  <2>4. <<l, 1, TRUE>> \in V
    BY <1>5, <2>2, <2>3
  <2>5. QED BY <2>4
<1>15. QED BY <1>9, <1>10, <1>12, <1>13, <1>14

(* What a sweep reports is founded on its verdicts: the rung it names is   *)
(* the highest that was climbed to without a failure, on some ladder; a    *)
(* knee is a lower bound exactly if no load failed, and then every ladder  *)
(* was climbed to its end; a report passes if every load did, and only if  *)
(* some load did.                                                          *)
THEOREM KneesAreFounded == Spec => []KneeIsFounded
<1>1. Init => Sweep
  BY DEF Init, Sweep, Busy
<1>2. Core /\ Sweep => KneeIsFounded
  <2> SUFFICES ASSUME Core, Sweep, pc = "report" PROVE KneeIsFounded
    BY DEF KneeIsFounded
  <2>1. todo # <<>> /\ ex \in Sweeps /\ Busy /\ Reporting
    BY DEF Core, Rests, Busy, SweepTypes, Reporting
  <2>2. IsPlan(Plan) /\ Id \in Experiments
    BY <2>1, PlanShape, HeadIsExperiment
  <2>3. PICK top : Swept(top, Plan, ex, Verdicts)
    BY <2>1 DEF Sweep
  <2>4. ex.ladder > Len(Plan)
    BY <2>1 DEF Sweep
  <2>5. Verdicts \in SUBSET (Nat \X Nat \X BOOLEAN)
    BY DEF Core, SweepTypes, Histories, Verdicts, ToSet
  <2>6. /\ \A r \in Nat \ {0} : Climbed(r) <=> r <= ex.best
        /\ ex.observedFail <=> \E v \in Verdicts : ~v[3]
        /\ ~ex.observedFail => ex.best > 0 /\ \A l \in DOMAIN Plan : Climbed(Len(Plan[l]))
        /\ ex.failed => ex.observedFail
        /\ ex.best > 0 \/ ~ex.failed => \E v \in Verdicts : v[3]
    BY <2>1, <2>2, <2>3, <2>4, <2>5, SweepSaysWhatItSaw DEF Climbed
  <2>7. \A l \in DOMAIN Plan : \A r \in DOMAIN Plan[l] : r \in Nat \ {0}
    BY <2>2 DEF IsPlan, IsLadder
  <2>8. ex.best \in Nat
    BY <2>1 DEF Sweeps
  <2>9. KneeKind = "lower_bound" <=> ex.best > 0 /\ ~ex.observedFail
    BY <2>8 DEF KneeKind, None
  <2>10. (~ex.observedFail => Passed) /\ (Passed => ex.best > 0 \/ ~ex.failed)
    BY <2>2, <2>6, <2>8 DEF Passed, Experiments
  <2>11. QED BY <2>6, <2>7, <2>9, <2>10 DEF KneeIsFounded
<1>3. QED BY CoreInvariant, <1>1, <1>2, SweepStep, PTL DEF Spec
=============================================================================
