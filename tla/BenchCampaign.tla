--------------------------- MODULE BenchCampaign ----------------------------
(***************************************************************************)
(* Campaigns of the benchmark: the command line of photon-leptos-bench     *)
(* (cli.rs), which runs a slice of experiments (matrix_run.rs, matrix.rs)  *)
(* or a single one (run.rs).  An experiment (experiments/runner.rs) puts   *)
(* the servers into a fanout mode, climbs its ladders of loads, and writes *)
(* a report.  A campaign may be killed and started again; a server may be  *)
(* restarted, or switched by someone else.                                 *)
(***************************************************************************)
EXTENDS BenchVerdict, Sequences, SequencesExt

CONSTANTS
  Servers,     \* the bench servers
  Boot,        \* the mode a server starts in (BENCH_WS_MODE)
  Profiles,    \* the hardware profiles of profiles.json
  Wired,       \* those wired for benchmarks
  Phase1,      \* the list of wired AWS profiles of phase 1
  Slices,      \* the slices that are run
  Singles,     \* the experiments that are run alone
  InProcess,   \* ladder of connection counts of PLS0 in this process ...
  ByProcess,   \* ... and of those that get a process each
  Rates,       \* number of publish rates PLS0 sweeps
  Rungs,       \* length of the ladder of rates of PLS1 ...
  Sizes,       \* ... and of the payload sizes of PLS4
  Sockets,     \* ladder of connection counts of PLS2
  Groups,      \* ladder of key groups of PLS5
  Many,        \* the default connection count
  MaxStarts,   \* bound: campaigns started
  MaxFaults    \* bound: restarts and foreign switches together

Modes == {"per_subscribe", "broadcast_hub"}
Experiments ==
  {"bm-pls0", "bm-pls0-hub", "bm-pls1", "bm-pls2", "bm-pls3", "bm-pls4", "bm-pls5",
   "bm-pls5-hub", "bm-pls6", "bm-pls7", "bm-pls8", "bm-pls9"}
SliceNames ==
  {"pls-substrate", "pls-connection", "pls-hub", "pls-client", "pls-shape", "pls-soak",
   "pls-fleet", "pls-hardware"}

ASSUME CampaignAssumption ==
  /\ Boot \in Modes
  /\ Wired \subseteq Profiles /\ Phase1 \in Seq(Wired)
  /\ Slices \subseteq SliceNames /\ Singles \subseteq Experiments
  /\ {Rates, Rungs, Sizes, Many, MaxStarts} \subseteq Nat \ {0} /\ MaxFaults \in Nat
  /\ \A ladder \in {InProcess, ByProcess, Sockets, Groups} :
       ladder # <<>> /\ ladder \in Seq(Nat \ {0})

VARIABLES
  mode,    \* fanout mode of each server
  disk,    \* the reports in the reports directory
  cmd,     \* the command line of the campaign
  todo,    \* experiments of the slice not yet dealt with, the current one first
  pc,      \* where the campaign is
  ex,      \* the sweep of the current experiment
  starts,  \* campaigns started
  faults,  \* restarts and foreign switches
  hist     \* history of the current experiment

vars == <<mode, disk, cmd, todo, pc, ex, starts, faults, hist>>

None == "none"
-----------------------------------------------------------------------------
(* Slices and reports.                                                     *)

On(hardware, experiments) ==
  [n \in DOMAIN experiments |-> [id |-> experiments[n], hardware |-> hardware]]

(* Faulty variant: each experiment is followed by its hub counterpart.     *)
SliceInPairs(slice, hardware) ==
  IF slice = "pls-hub"
  THEN On(hardware, <<"bm-pls0", "bm-pls0-hub", "bm-pls5", "bm-pls5-hub">>)
  ELSE <<>>

SliceExperiments(slice, hardware) ==
  CASE slice = "pls-substrate" -> On(hardware, <<"bm-pls0">>)
    [] slice = "pls-connection" -> On(hardware, <<"bm-pls0", "bm-pls1">>)
    [] slice = "pls-hub" ->
         On(hardware, <<"bm-pls0", "bm-pls5", "bm-pls0-hub", "bm-pls5-hub">>)
    [] slice = "pls-client" -> On(hardware, <<"bm-pls2", "bm-pls3">>)
    [] slice = "pls-shape" ->
         On(hardware, <<"bm-pls4", "bm-pls5", "bm-pls6", "bm-pls7">>)
    [] slice = "pls-soak" -> On(hardware, <<"bm-pls8">>)
    [] slice = "pls-fleet" -> On(hardware, <<"bm-pls9">>)
    [] slice = "pls-hardware" ->
         FlattenSeq([n \in DOMAIN Phase1 |-> On(Phase1[n], <<"bm-pls0", "bm-pls1">>)])

(* Faulty variant: a report for each family of experiments.                *)
ReportOfFamily(e) ==
  <<CASE e.id = "bm-pls0-hub" -> "bm-pls0" [] e.id = "bm-pls5-hub" -> "bm-pls5"
      [] OTHER -> e.id, e.hardware>>

ReportPath(e) == <<e.id, e.hardware>>

Paths == Experiments \X Profiles

Absent == [is |-> "absent"]
Torn == [is |-> "torn"]
Complete(e) == [is |-> "complete", of |-> e, start |-> starts]
-----------------------------------------------------------------------------
(* The plan of an experiment: ladders of loads.  A ladder is climbed until *)
(* a load fails; the next one is climbed all the same.                     *)

Load(n, groups, child, targets) ==
  [n |-> n, groups |-> groups, child |-> child, targets |-> targets]
Plain(n) == Load(n, 1, FALSE, 1)
InChild(n) == Load(n, 1, TRUE, 1)
Keyed(n, g) == Load(n, IF g < n THEN g ELSE n, FALSE, 1)
Each(op(_), s) == [k \in DOMAIN s |-> op(s[k])]
Times(k, x) == [j \in 1 .. k |-> x]

(* The fanout mode is asked for on the servers of --server-urls, and only  *)
(* without it on the one of --server-url.                                  *)
ModeUrls == IF cmd.servers = {} THEN {cmd.main} ELSE cmd.servers

Count == IF cmd.connections = 0 THEN Many ELSE cmd.connections

(* run_pls0: a ladder for each rate, whose larger counts get a process     *)
(* each; with --connections (as in such a process) one load.               *)
Pls0 ==
  IF cmd.connections # 0
  THEN <<<<Plain(cmd.connections)>>>>
  ELSE Times(Rates, Each(Plain, InProcess) \o Each(InChild, ByProcess))

Pls1 == <<Times(Rungs, Plain(Count))>>
Pls2 == <<Each(Plain, Sockets)>>
Pls3 == <<<<Plain(Count)>>>>
Pls4 == Times(Sizes, <<Plain(Count)>>)
Pls5 == LET InGroups(g) == Keyed(Count, g) IN <<Each(InGroups, Groups)>>
Pls6 == <<<<Plain(Count)>>, <<Keyed(Count, Count)>>>>
Pls7 == Times(2, <<Plain(Count)>>)
Pls8 == <<<<Plain(Count)>>>>
Pls9 == <<<<Load(Count, 1, FALSE, Cardinality(ModeUrls))>>>>

Ladders(id) ==
  CASE id \in {"bm-pls0", "bm-pls0-hub"} -> Pls0
    [] id = "bm-pls1" -> Pls1
    [] id = "bm-pls2" -> Pls2
    [] id = "bm-pls3" -> Pls3
    [] id = "bm-pls4" -> Pls4
    [] id \in {"bm-pls5", "bm-pls5-hub"} -> Pls5
    [] id = "bm-pls6" -> Pls6
    [] id = "bm-pls7" -> Pls7
    [] id = "bm-pls8" -> Pls8
    [] id = "bm-pls9" -> Pls9

Id == Head(todo).id
Plan == Ladders(Id)

(* PLS9 loads the servers it asked for their mode; every other experiment  *)
(* the one of --server-url, whatever --server-urls says.                   *)
LoadUrls == IF Id = "bm-pls9" THEN ModeUrls ELSE {cmd.main}

Step == Plan[ex.ladder][ex.rung]

(* The mode an experiment asks for: its own, or that of the command line.  *)
ResolveWsMode(id) ==
  IF id \in {"bm-pls0-hub", "bm-pls5-hub"} THEN "broadcast_hub" ELSE cmd.wsMode

NoSweep ==
  [ensured |-> {}, ladder |-> 1, rung |-> 1, lastPass |-> 0, failed |-> FALSE,
   best |-> 0, observedFail |-> FALSE]

NoHistory ==
  [modes |-> {}, disturbed |-> FALSE, verdicts |-> <<>>, phantom |-> FALSE]

Idle == [wsMode |-> None, skip |-> FALSE, connections |-> 0, main |-> None, servers |-> {},
         allow |-> FALSE, slice |-> None, hardware |-> None, from |-> Boot]

Init ==
  /\ mode = [s \in Servers |-> Boot]
  /\ disk = [p \in Paths |-> Absent]
  /\ cmd = Idle
  /\ todo = <<>>
  /\ pc = "idle"
  /\ ex = NoSweep
  /\ starts = 0
  /\ faults = 0
  /\ hist = NoHistory
-----------------------------------------------------------------------------
(* The campaign.                                                           *)

Start(c, experiments) ==
  /\ pc = "idle" /\ starts < MaxStarts
  /\ starts' = starts + 1
  /\ cmd' = c
  /\ todo' = experiments
  /\ pc' = "next"
  /\ UNCHANGED <<mode, disk, ex, faults, hist>>

(* The subcommand matrix: one server, no fixed connection count.           *)
StartMatrix ==
  \E slice \in Slices, hardware \in Profiles, m \in Modes \cup {None}, skip \in BOOLEAN,
     main \in Servers :
  \E allow \in IF hardware \in Wired THEN {FALSE} ELSE BOOLEAN :
    Start([Idle EXCEPT !.wsMode = m, !.skip = skip, !.allow = allow, !.slice = slice,
                       !.hardware = hardware, !.main = main, !.from = mode[main]],
          SliceExperiments(slice, hardware))

(* The subcommand run: one experiment.  --server-url and --server-urls are *)
(* given independently of each other; a server is named once in the list.  *)
StartRun ==
  \E id \in Singles, hardware \in Profiles, m \in Modes \cup {None},
     n \in {0, Many}, main \in Servers, fleet \in SUBSET Servers :
    Start([Idle EXCEPT !.wsMode = m, !.connections = n, !.main = main, !.servers = fleet],
          <<[id |-> id, hardware |-> hardware]>>)

(* An error returns from the campaign, whatever is left of the slice.      *)
Abort ==
  /\ pc' = "idle"
  /\ cmd' = Idle
  /\ todo' = <<>>
  /\ ex' = NoSweep
  /\ hist' = NoHistory
  /\ UNCHANGED starts

(* The experiment is dealt with; the next one.                             *)
Proceed ==
  /\ todo' = Tail(todo)
  /\ pc' = "next"
  /\ ex' = NoSweep
  /\ hist' = NoHistory
  /\ UNCHANGED <<mode, cmd, starts, faults>>

Done == pc = "next" /\ todo = <<>>
Finish == Done /\ Abort /\ UNCHANGED <<mode, disk, faults>>

(* Faulty variant of Skips: it looks for the report of the command line's  *)
(* hardware.                                                               *)
SkipsByOption == cmd.skip /\ disk[<<Head(todo).id, cmd.hardware>>] # Absent

(* --skip-existing: any file under the report's name counts.               *)
Skips == cmd.skip /\ disk[ReportPath(Head(todo))] # Absent

SkipExisting ==
  /\ pc = "next" /\ todo # <<>>
  /\ Skips
  /\ Proceed
  /\ UNCHANGED disk

(* validate_hardware                                                       *)
Valid(hardware) == hardware \in Wired \/ cmd.allow

Begin ==
  /\ pc = "next" /\ todo # <<>>
  /\ ~Skips
  /\ Valid(Head(todo).hardware)
  /\ pc' = "ensure"
  /\ hist' = NoHistory
  /\ UNCHANGED <<mode, disk, cmd, todo, ex, starts, faults>>

RejectHardware ==
  /\ pc = "next" /\ todo # <<>>
  /\ ~Skips
  /\ ~Valid(Head(todo).hardware)
  /\ Abort
  /\ UNCHANGED <<mode, disk, faults>>
-----------------------------------------------------------------------------
(* The fanout mode: GET /api/bench/mode, and POST it if it differs.        *)

Wanted == ResolveWsMode(Id)
Switched(m, S) ==
  IF Wanted = None THEN m ELSE [s \in Servers |-> IF s \in S THEN Wanted ELSE m[s]]

EnsureWsMode(s) ==
  /\ pc = "ensure"
  /\ s \in ModeUrls \ ex.ensured
  /\ mode' = Switched(mode, {s})
  /\ ex' = [ex EXCEPT !.ensured = @ \cup {s}]
  /\ UNCHANGED <<disk, cmd, todo, pc, starts, faults, hist>>

(* Faulty variant of EnsureFails: a switch that is refused passes for one  *)
(* that was made.                                                          *)
EnsureFailsUnseen ==
  /\ pc = "ensure"
  /\ ex.ensured # ModeUrls
  /\ pc' = "load"
  /\ UNCHANGED <<mode, disk, cmd, todo, ex, starts, faults, hist>>

(* The switch is refused (401 without the control token), or there is no   *)
(* server.  Servers switched before stay as they are.                      *)
EnsureFails ==
  /\ pc = "ensure"
  /\ Wanted # None /\ ex.ensured # ModeUrls
  /\ Abort
  /\ UNCHANGED <<mode, disk, faults>>

ModeEnsured ==
  /\ pc = "ensure"
  /\ ex.ensured = ModeUrls
  /\ pc' = "load"
  /\ UNCHANGED <<mode, disk, cmd, todo, ex, starts, faults, hist>>

(* run_pls9 wants at least two servers.                                    *)
TooSmall == Id = "bm-pls9" /\ Cardinality(ModeUrls) < 2
RejectFleet ==
  /\ pc = "load"
  /\ TooSmall
  /\ Abort
  /\ UNCHANGED <<mode, disk, faults>>

(* A process of its own for the next count: it runs the same experiment    *)
(* with --connections, and so ensures the mode once more.                  *)
SpawnProbe ==
  /\ pc = "load" /\ ~TooSmall
  /\ Step.child
  /\ pc' = "probe"
  /\ mode' = Switched(mode, ModeUrls)
  /\ UNCHANGED <<disk, cmd, todo, ex, starts, faults, hist>>

(* No healthy server within the timeout, or a probe without a report.      *)
LoadFails ==
  /\ pc \in {"load", "probe"}
  /\ Abort
  /\ UNCHANGED <<mode, disk, faults>>
-----------------------------------------------------------------------------
(* The sweep.                                                              *)

(* Faulty variant of EndLadder: a later ladder's success clears a failure. *)
EndLadderAfresh(e, lastPass, failed) ==
  [e EXCEPT !.ladder = @ + 1, !.rung = 1, !.lastPass = 0, !.failed = failed,
            !.best = IF lastPass > @ THEN lastPass ELSE @,
            !.observedFail = failed]

EndLadder(e, lastPass, failed) ==
  [e EXCEPT !.ladder = @ + 1, !.rung = 1, !.lastPass = 0, !.failed = failed,
            !.best = IF lastPass > @ THEN lastPass ELSE @,
            !.observedFail = @ \/ failed]

(* One load and its verdict: up the ladder, or to the next one.            *)
Climb(pass) ==
  LET lastPass == IF pass THEN ex.rung ELSE ex.lastPass
      over == ~pass \/ ex.rung = Len(Plan[ex.ladder])
  IN ex' = IF over THEN EndLadder(ex, lastPass, ~pass)
           ELSE [ex EXCEPT !.rung = @ + 1, !.lastPass = lastPass]

(* A load is run, and judged by its result_stats.                          *)
Judged(load, r) ==
  [pass |-> Accepts(Id, load, r),
   phantom |-> r.lost = 0 /\ r.received > 0 /\ DeliveryLoss(r)[1] > 0]

Measure ==
  /\ pc \in {"load", "probe"} /\ ~TooSmall
  /\ Step.child <=> pc = "probe"
  /\ \E verdict \in {Judged(Step, r) : r \in Results(Step)} :
       /\ Climb(verdict.pass)
       /\ hist' = [hist EXCEPT !.modes = @ \cup {mode[s] : s \in LoadUrls},
                               !.verdicts = Append(@, <<ex.ladder, ex.rung, verdict.pass>>),
                               !.phantom = verdict.phantom]
  /\ pc' = IF ex'.ladder > Len(Plan) THEN "report" ELSE "load"
  /\ UNCHANGED <<mode, disk, cmd, todo, starts, faults>>

(* What the report says: whether the experiment passes, the rung it names, *)
(* and for PLS0 how far the search for the knee went.                      *)
Passed ==
  CASE Id \in {"bm-pls0", "bm-pls0-hub", "bm-pls1", "bm-pls2", "bm-pls5", "bm-pls5-hub"} ->
         ex.best > 0
    [] Id \in {"bm-pls3", "bm-pls6", "bm-pls8", "bm-pls9"} -> ~ex.observedFail
    [] Id \in {"bm-pls4", "bm-pls7"} -> ~ex.failed

KneeKind ==
  CASE ex.best = 0 -> None
    [] ex.best > 0 /\ ex.observedFail -> "observed"
    [] OTHER -> "lower_bound"

(* write_json: the old file is truncated, and the new one written.         *)
WriteReport ==
  /\ pc = "report"
  /\ disk' = [disk EXCEPT ![ReportPath(Head(todo))] = Torn]
  /\ pc' = "writing"
  /\ UNCHANGED <<mode, cmd, todo, ex, starts, faults, hist>>

(* Writing fails, with the old file gone.                                  *)
WriteFails ==
  /\ pc = "writing"
  /\ Abort
  /\ UNCHANGED <<mode, disk, faults>>

ReportWritten ==
  /\ pc = "writing"
  /\ disk' = [disk EXCEPT ![ReportPath(Head(todo))] = Complete(Head(todo))]
  /\ Proceed
-----------------------------------------------------------------------------
(* Faults.                                                                 *)

Fault == faults < MaxFaults /\ faults' = faults + 1

(* The campaign is killed.                                                 *)
Kill ==
  /\ pc # "idle"
  /\ Abort
  /\ UNCHANGED <<mode, disk, faults>>

(* It concerns the experiment that is running, if it loads the server.     *)
Disturb(s) ==
  hist' = [hist EXCEPT !.disturbed = @ \/ (pc \notin {"idle", "next"} /\ s \in LoadUrls)]

(* A server is restarted, and is in the mode of its environment again.     *)
Restart(s) ==
  /\ Fault
  /\ mode' = [mode EXCEPT ![s] = Boot]
  /\ Disturb(s)
  /\ UNCHANGED <<disk, cmd, todo, pc, ex, starts>>

(* Someone else switches a server's mode.                                  *)
SwitchMode(s, m) ==
  /\ mode[s] # m /\ Fault
  /\ mode' = [mode EXCEPT ![s] = m]
  /\ Disturb(s)
  /\ UNCHANGED <<disk, cmd, todo, pc, ex, starts>>

Next ==
  \/ StartMatrix \/ StartRun \/ Finish \/ SkipExisting \/ Begin \/ RejectHardware
  \/ \E s \in Servers :
       EnsureWsMode(s) \/ Restart(s) \/ \E m \in Modes : SwitchMode(s, m)
  \/ EnsureFails \/ ModeEnsured \/ RejectFleet \/ SpawnProbe \/ LoadFails
  \/ Measure \/ WriteReport \/ WriteFails \/ ReportWritten \/ Kill

Spec == Init /\ [][Next]_vars
-----------------------------------------------------------------------------
(* Properties.                                                             *)

Reporting == pc \in {"report", "writing"}

(* The mode a report names is the one every load of the experiment was     *)
(* measured in, on every server and in every probe, if the servers that    *)
(* are loaded are among those whose mode was asked for, and none of them   *)
(* was restarted or switched by someone else meanwhile.  (The first is not *)
(* so of a command whose --server-url is not in its --server-urls: such a  *)
(* report names a mode that was put on other servers, although the option  *)
(* is the "Fanout mode on the bench server", cli.rs:47.)                   *)
MeasuredInItsMode ==
  /\ Reporting /\ Wanted # None /\ ~hist.disturbed
  /\ LoadUrls \subseteq ModeUrls
  => hist.modes = {Wanted}

(* pls-hub compares the hub with the default mode ("A/B vs per_subscribe", *)
(* experiments/registry.rs:26).  Nothing puts a server back into the       *)
(* default mode; still the baselines are measured in it, if the server was *)
(* in it when the slice started.                                           *)
BaselineIsPerSubscribe ==
  /\ Reporting /\ Id \in {"bm-pls0", "bm-pls5"}
  /\ cmd.slice = "pls-hub" /\ cmd.wsMode = None
  /\ cmd.from = "per_subscribe" /\ faults = 0
  => hist.modes = {"per_subscribe"}

(* What a sweep reports is founded on its verdicts: the rung it names is   *)
(* the highest that was climbed to without a failure, on some ladder; a    *)
(* knee is a lower bound exactly if no load failed, and then every ladder  *)
(* was climbed to its end (report/schema.rs:47).  A report passes if every *)
(* load did, and only if some load did.  (The rung stands in the report    *)
(* after a failure too, where schema.rs:44 has it only without one:        *)
(* runner.rs:234 always sets it.)                                          *)
Verdicts == ToSet(hist.verdicts)
Climbed(r) == \E l \in DOMAIN Plan : \A q \in 1 .. r : <<l, q, TRUE>> \in Verdicts
KneeIsFounded ==
  pc = "report" =>
    /\ \A l \in DOMAIN Plan : \A r \in DOMAIN Plan[l] : Climbed(r) <=> r <= ex.best
    /\ KneeKind = "lower_bound" <=> ex.best > 0 /\ \A v \in Verdicts : v[3]
    /\ KneeKind = "lower_bound" => \A l \in DOMAIN Plan : Climbed(Len(Plan[l]))
    /\ (\A v \in Verdicts : v[3]) => Passed
    /\ Passed => \E v \in Verdicts : v[3]

(* A slice that was finished has a report for each of its experiments: a   *)
(* new one, or with --skip-existing maybe an old one, which may be torn if *)
(* an earlier campaign ended while writing it.                             *)
FinishedSliceIsReported ==
  Done /\ cmd.slice # None =>
    \A e \in ToSet(SliceExperiments(cmd.slice, cmd.hardware)) :
      LET report == disk[ReportPath(e)]
      IN \/ /\ report.is = "complete" /\ report.of = e
            /\ cmd.skip \/ report.start = starts
         \/ cmd.skip /\ report = Torn

(* A campaign with --skip-existing never touches a report that is          *)
(* complete, however often it is killed and started again.                 *)
SkippedReportsAreKept ==
  [][\A p \in Paths :
       cmd.skip /\ disk[p].is = "complete" => disk'[p] = disk[p]]_vars

(* "max(publish_fail_rate, delivery_loss)" (client/ws_load.rs:547) is the *)
(* error rate: a load that lost no delivery shows no delivery loss.        *)
LossIsLoss == ~hist.phantom
=============================================================================
