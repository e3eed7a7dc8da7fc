---------------------------- MODULE BenchVerdict ----------------------------
(***************************************************************************)
(* What the benchmark makes of one load: the figures a load generator      *)
(* brings back (LoadGenResult of photon-leptos-bench/src/client/           *)
(* ws_load.rs), the rates computed from them, and the thresholds by which  *)
(* each experiment of experiments/runner.rs accepts it.                    *)
(*                                                                         *)
(* A load opens n connections on a number of targets, spread over key      *)
(* groups, and publishes Events events.  A server passes an event only to  *)
(* its own connections, and a key filter only the events of its key.       *)
(***************************************************************************)
EXTENDS Integers, FiniteSets, FiniteSetsExt

CONSTANT Events  \* events of a load, its rate times its duration

ASSUME EventsAssumption == Events \in Nat \ {0}

Targets(load) == 0 .. load.targets - 1

(* The connections are dealt out in blocks of one size, rounded up; the    *)
(* last target gets what remains of them, if anything does ...             *)
PerTarget(load) == (load.n + load.targets - 1) \div load.targets
Connections(load) == 0 .. Max({load.n, PerTarget(load) * (load.targets - 1)}) - 1
TargetOf(load, i) == i \div PerTarget(load)

(* ... and the rate evenly, the remainder to the first (a load lasts one   *)
(* second here).                                                           *)
Share(load, t) ==
  LET share == Events \div load.targets
  IN IF t = 0 THEN Events - share * (load.targets - 1) ELSE share

(* Connection i filters key-(i % G), and event q is published on           *)
(* key-(q % G); without key groups every event matches.                    *)
SameGroup(load, i, q) == i % load.groups = q % load.groups

(* The deliveries owed, if the connections of up are open and sent[t]      *)
(* events are published on target t.                                       *)
Due(load, up, sent) ==
  MapThenSumSet(
    LAMBDA i : Cardinality({q \in 0 .. sent[TargetOf(load, i)] - 1 : SameGroup(load, i, q)}),
    up)

(* What a target was asked to publish: the events it sent, and those the   *)
(* load generator counts.  A run that fails stops there and counts one     *)
(* failure; a request that is refused, or whose answer is lost after some  *)
(* were sent, counts as a failure of all its events.                       *)
Runs(load, t) ==
  LET share == Share(load, t)
  IN {[sent |-> q, succeeded |-> q, failed |-> IF q = share THEN 0 ELSE 1] : q \in 0 .. share}
       \cup {[sent |-> q, succeeded |-> 0, failed |-> share] : q \in 0 .. share}

(* The figures a load can bring back, and how many deliveries it lost: in  *)
(* this model none, one, or all of them.  Connections that were counted as *)
(* failures and open late, and events of another generator, add messages   *)
(* that were not owed: none, one, or as many as the load has events.       *)
Results(load) ==
  UNION {
    LET due == Due(load, up, [t \in Targets(load) |-> runs[t].sent])
        succeeded == MapThenSumSet(LAMBDA t : runs[t].succeeded, Targets(load))
        failed == MapThenSumSet(LAMBDA t : runs[t].failed, Targets(load))
    IN { [connected |-> Cardinality(up),
          failures |-> Cardinality(Connections(load) \ up),
          attempted |-> Events,
          succeeded |-> succeeded,
          failed |-> failed,
          received |-> due - lost + extra,
          lost |-> lost,
          slow |-> slow] :
         lost \in {0, 1, due} \cap 0 .. due,
         extra \in {0, 1, Events},
         slow \in BOOLEAN } :
    up \in SUBSET Connections(load),
    runs \in {f \in [Targets(load) -> UNION {Runs(load, t) : t \in Targets(load)}] :
                \A t \in Targets(load) : f[t] \in Runs(load, t)} }
-----------------------------------------------------------------------------
(* Rates are fractions, <<numerator, denominator>>.                        *)

AtMost(rate, a, b) == rate[1] * b <= a * rate[2]
Below(rate, a, b) == rate[1] * b < a * rate[2]

ConnectFailRate(r) ==
  LET total == r.connected + r.failures
  IN IF total = 0 THEN <<1, 1>> ELSE <<r.failures, total>>

PublishFailRate(r) == <<r.failed, r.attempted>>

(* Every connection is expected to receive every event.                    *)
DeliveryLoss(r) ==
  LET expected == r.succeeded * r.connected
  IN IF expected = 0
     THEN IF r.received = 0 THEN <<1, 1>> ELSE <<0, 1>>
     ELSE <<IF r.received < expected THEN expected - r.received ELSE 0, expected>>

(* error_rate is the larger of the two.                                    *)
ErrorAtMost(r, a, b) == AtMost(PublishFailRate(r), a, b) /\ AtMost(DeliveryLoss(r), a, b)
ErrorBelow(r, a, b) == Below(PublishFailRate(r), a, b) /\ Below(DeliveryLoss(r), a, b)

(* evaluate_step with the default thresholds.                              *)
Healthy(r) ==
  /\ r.received > 0
  /\ ~r.slow
  /\ ErrorAtMost(r, 1, 1000)
  /\ AtMost(ConnectFailRate(r), 0, 1)

RateAchieved(r) == r.succeeded * 100 >= Events * 95

(* When a step of an experiment passes.                                    *)
Accepts(experiment, load, r) ==
  CASE experiment \in {"bm-pls0", "bm-pls0-hub", "bm-pls1"} ->
         Healthy(r) /\ RateAchieved(r) /\ r.connected = load.n
    [] experiment = "bm-pls2" -> Healthy(r) /\ r.connected >= load.n
    [] experiment \in {"bm-pls5", "bm-pls5-hub"} -> Healthy(r)
    [] experiment = "bm-pls6" -> Healthy(r) /\ r.received > 0
    [] experiment = "bm-pls3" -> ErrorBelow(r, 1, 1000)
    [] experiment = "bm-pls4" -> r.received > 0
    [] experiment = "bm-pls7" -> r.connected >= load.n \div 2
    [] experiment = "bm-pls8" ->
         ErrorBelow(r, 1, 100) /\ Below(ConnectFailRate(r), 5, 100)
    [] experiment = "bm-pls9" ->
         ErrorBelow(r, 1, 1000) /\ AtMost(ConnectFailRate(r), 0, 1)
=============================================================================
