----------------------------- MODULE BenchLoad -----------------------------
(***************************************************************************)
(* The benchmark of photon-leptos-bench: load generators (client/          *)
(* ws_load.rs) that open connections, ask the server's control API         *)
(* (server/routes.rs) for one paced publish run, count what they receive   *)
(* and judge it (experiments/knee.rs, pls0_step of experiments/runner.rs). *)
(* Generators may overlap, as when two operators share a server, and may   *)
(* be killed.                                                              *)
(***************************************************************************)
EXTENDS Integers, FiniteSets, Functions

CONSTANTS
  Clients,  \* the load generators, one step of an experiment each
  Conns,    \* Conns[c]: the connections generator c opens
  Total,    \* events of a publish run, rate times duration
  OneIn,    \* the tolerated error rate is one in OneIn, 1000 in the code
  AchievedPercent  \* ACHIEVED_RATE_RATIO, 95 in the code

ASSUME BenchLoadAssumption ==
  /\ IsFiniteSet(Clients)
  /\ \A c \in Clients : Conns[c] # {} /\ IsFiniteSet(Conns[c])
  /\ Total \in Nat \ {0}
  /\ OneIn \in Nat \ {0, 1}
  /\ AchievedPercent \in 1 .. 100

VARIABLES
  inFlight,  \* PUBLISH_IN_FLIGHT
  request,   \* the publish request of each generator, at the server
  stage,     \* how far each generator is
  conn,      \* its connections
  counted,   \* those open before the settle deadline
  wire,      \* wire[c][i][p]: events of p's run on their way to connection i of c
  got,       \* history: those it counted, a generator sums them up (received)
  verdict    \* whether the step passes

vars == <<inFlight, request, stage, conn, counted, wire, got, verdict>>
serverVars == <<inFlight, request>>
trafficVars == <<wire, got>>

NoRequest == [pc |-> "none", succeeded |-> 0, failed |-> 0]
Nothing(c) == [i \in Conns[c] |-> [p \in Clients |-> 0]]

Init ==
  /\ inFlight = FALSE
  /\ request = [c \in Clients |-> NoRequest]
  /\ stage = [c \in Clients |-> "settle"]
  /\ conn = [c \in Clients |-> [i \in Conns[c] |-> "pending"]]
  /\ counted = [c \in Clients |-> {}]
  /\ wire = [c \in Clients |-> Nothing(c)]
  /\ got = [c \in Clients |-> Nothing(c)]
  /\ verdict = [c \in Clients |-> "none"]

Lives(c) == stage[c] \notin {"done", "dead"}

(* Its connections are aborted, or end with its process.                   *)
CloseAll(c) ==
  /\ conn' = [conn EXCEPT ![c] = [i \in Conns[c] |-> "closed"]]
  /\ wire' = [wire EXCEPT ![c] = Nothing(c)]
-----------------------------------------------------------------------------
(* The connections of generator c, a task each.                            *)

(* The handshake ends.  It counts if that was before the settle deadline;  *)
(* a later one goes on all the same.                                       *)
Connect(c, i) ==
  /\ Lives(c) /\ conn[c][i] = "pending"
  /\ conn' = [conn EXCEPT ![c][i] = "open"]
  /\ counted' = IF stage[c] = "settle" THEN [counted EXCEPT ![c] = @ \cup {i}] ELSE counted
  /\ UNCHANGED <<serverVars, stage, trafficVars, verdict>>

(* The server's handler subscribes.                                        *)
Serve(c, i) ==
  /\ Lives(c) /\ conn[c][i] = "open"
  /\ conn' = [conn EXCEPT ![c][i] = "served"]
  /\ UNCHANGED <<serverVars, stage, counted, trafficVars, verdict>>

(* The handshake fails, or the connection is lost with what it carried.    *)
Cut(c, i) ==
  /\ Lives(c) /\ conn[c][i] # "closed"
  /\ conn' = [conn EXCEPT ![c][i] = "closed"]
  /\ wire' = [wire EXCEPT ![c][i] = [p \in Clients |-> 0]]
  /\ UNCHANGED <<serverVars, stage, counted, got, verdict>>

(* A message comes in.  One from the future (the clocks of server and      *)
(* generator differ) is not counted.                                       *)
Receive(c, i, p) ==
  /\ Lives(c) /\ wire[c][i][p] > 0
  /\ wire' = [wire EXCEPT ![c][i][p] = @ - 1]
  /\ got' = got \/ got' = [got EXCEPT ![c][i][p] = @ + 1]
  /\ UNCHANGED <<serverVars, stage, conn, counted, verdict>>
-----------------------------------------------------------------------------
(* The publish endpoint and its run.                                       *)

(* Faulty variants of Claim.  The flag is not looked at ...                *)
ClaimAlways(c) ==
  /\ request[c].pc = "sent"
  /\ inFlight' = TRUE
  /\ request' = [request EXCEPT ![c].pc = "running"]
  /\ UNCHANGED <<stage, conn, counted, trafficVars, verdict>>

(* ... or waited for.                                                      *)
ClaimWhenFree(c) ==
  /\ request[c].pc = "sent"
  /\ ~inFlight
  /\ inFlight' = TRUE
  /\ request' = [request EXCEPT ![c].pc = "running"]
  /\ UNCHANGED <<stage, conn, counted, trafficVars, verdict>>

(* compare_exchange: take the flag or answer 409.                          *)
Claim(c) ==
  /\ request[c].pc = "sent"
  /\ inFlight' = TRUE
  /\ request' = [request EXCEPT ![c].pc = IF inFlight THEN "refused" ELSE "running"]
  /\ UNCHANGED <<stage, conn, counted, trafficVars, verdict>>

(* require_control or one of the caps: 401 or 400.                         *)
Reject(c) ==
  /\ request[c].pc = "sent"
  /\ request' = [request EXCEPT ![c].pc = "refused"]
  /\ UNCHANGED <<inFlight, stage, conn, counted, trafficVars, verdict>>

(* One publish returned; after an error or the last event the flag is      *)
(* given back and the result is sent.                                      *)
Progress(c, ok) ==
  LET r == request[c]
      next == IF ok THEN [r EXCEPT !.succeeded = @ + 1] ELSE [r EXCEPT !.failed = @ + 1]
      over == ~ok \/ next.succeeded = Total
  IN /\ request' = [request EXCEPT ![c] = IF over THEN [next EXCEPT !.pc = "answered"] ELSE next]
     /\ inFlight' = (inFlight /\ ~over)

(* One event is published, to every connection that is served.             *)
PublishOne(c) ==
  /\ request[c].pc = "running"
  /\ Progress(c, TRUE)
  /\ wire' = [d \in Clients |-> [i \in Conns[d] |->
                IF conn[d][i] = "served" THEN [wire[d][i] EXCEPT ![c] = @ + 1] ELSE wire[d][i]]]
  /\ UNCHANGED <<stage, conn, counted, got, verdict>>

(* Publishing fails: the run stops there.                                  *)
PublishFails(c) ==
  /\ request[c].pc = "running"
  /\ Progress(c, FALSE)
  /\ UNCHANGED <<stage, conn, counted, trafficVars, verdict>>

(* The connection of a request breaks, or its generator was killed.  The   *)
(* server drops the request, in the middle of a run too, and then nothing  *)
(* gives the flag back.                                                    *)
DropRequest(c) ==
  /\ stage[c] \in {"asking", "dead"}
  /\ request[c].pc \in {"sent", "running"}
  /\ request' = [request EXCEPT ![c].pc = "dropped"]
  /\ UNCHANGED <<inFlight, stage, conn, counted, trafficVars, verdict>>
-----------------------------------------------------------------------------
(* The generator, run_sustained_load.                                      *)

Goes(c, next) == stage' = [stage EXCEPT ![c] = next]

(* The settle deadline; with every handshake over it comes early.          *)
Settled(c) ==
  /\ stage[c] = "settle"
  /\ Goes(c, "warm")
  /\ UNCHANGED <<serverVars, conn, counted, trafficVars, verdict>>

(* The warm-up is over: POST /api/bench/publish.                           *)
AskPublish(c) ==
  /\ stage[c] = "warm"
  /\ Goes(c, "asking")
  /\ request' = [request EXCEPT ![c].pc = "sent"]
  /\ UNCHANGED <<inFlight, conn, counted, trafficVars, verdict>>

TakeAnswer(c) ==
  /\ stage[c] = "asking"
  /\ request[c].pc \in {"answered", "refused", "dropped"}
  /\ Goes(c, "drain")
  /\ UNCHANGED <<serverVars, conn, counted, trafficVars, verdict>>

(* What an answer counts for; an error, for Total failed attempts.         *)
Succeeded(c) == IF request[c].pc = "answered" THEN request[c].succeeded ELSE 0
Failed(c) == IF request[c].pc = "answered" THEN request[c].failed ELSE Total

Received(c) ==
  FoldFunctionOnSet(LAMBDA ofConn, sum :
      FoldFunctionOnSet(+, 0, ofConn, Clients) + sum,
    0, got[c], Conns[c])

(* Faulty variant of ErrorRateOk: only publishing can fail.                *)
PublishRateOk(c) == Failed(c) * OneIn <= Total

(* error_rate is within the threshold: the larger of the share of failed   *)
(* attempts, where a run that stops has one, and the share of deliveries   *)
(* of what was published that are missing.                                 *)
ErrorRateOk(c) ==
  LET expected == Succeeded(c) * Cardinality(counted[c])
      missing == IF Received(c) < expected THEN expected - Received(c) ELSE 0
  IN /\ Failed(c) * OneIn <= Total
     /\ IF expected = 0 THEN Received(c) > 0 ELSE missing * OneIn <= expected

(* evaluate_step and what pls0_step adds: the rate was achieved and every  *)
(* connection was counted.  The latency may be too high at any time.       *)
Passes(c) ==
  /\ Received(c) > 0
  /\ ErrorRateOk(c)
  /\ counted[c] = Conns[c]
  /\ Succeeded(c) * 100 >= Total * AchievedPercent

(* The drain is over: finish_session aborts the connections, and the step  *)
(* is judged.                                                              *)
Finish(c) ==
  /\ stage[c] = "drain"
  /\ Goes(c, "done")
  /\ CloseAll(c)
  /\ \E fast \in BOOLEAN :
       verdict' = [verdict EXCEPT ![c] = IF fast /\ Passes(c) THEN "pass" ELSE "fail"]
  /\ UNCHANGED <<serverVars, counted, got>>

(* The process is killed, and what it knew is gone.                        *)
Die(c) ==
  /\ Lives(c)
  /\ Goes(c, "dead")
  /\ CloseAll(c)
  /\ counted' = [counted EXCEPT ![c] = {}]
  /\ got' = [got EXCEPT ![c] = Nothing(c)]
  /\ UNCHANGED <<serverVars, verdict>>

Generator(c) == Settled(c) \/ AskPublish(c) \/ TakeAnswer(c) \/ Finish(c)
Server(c) == Claim(c) \/ PublishOne(c) \/ PublishFails(c)

Next ==
  \E c \in Clients :
    \/ Generator(c) \/ Server(c) \/ Reject(c) \/ DropRequest(c) \/ Die(c)
    \/ \E i \in Conns[c] :
         Connect(c, i) \/ Serve(c, i) \/ Cut(c, i) \/ \E p \in Clients : Receive(c, i, p)

(* The server works on its requests, and a generator's timers run out.     *)
Spec ==
  /\ Init /\ [][Next]_vars
  /\ \A c \in Clients : WF_vars(Server(c)) /\ WF_vars(Generator(c))
-----------------------------------------------------------------------------
(* Properties.                                                             *)

(* "only one publish run may be in flight" (photon-leptos-bench/README.md: *)
(* 34-35), whatever requests race for it, fail or are dropped.             *)
OnePublishRun == Cardinality({c \in Clients : request[c].pc = "running"}) <= 1

(* What a step that passes can hide (knee.rs:55), if no other run's events *)
(* reached its connections.  Its run stopped early only if it asked for so *)
(* many events that the one failed attempt is within the threshold, and    *)
(* then no earlier than the achieved rate allows: the events not tried     *)
(* count nowhere else.  And of what was published, no connection counted   *)
(* more than there was or lost more than the threshold grants to all of    *)
(* them: late handshakes, connections lost and messages not counted cannot *)
(* make up for each other.                                                 *)
OnlyOwnEvents(c) == \A i \in Conns[c] : \A p \in Clients \ {c} : got[c][i][p] = 0
Lost(c, i) == request[c].succeeded - got[c][i][c]
PassBoundsLoss ==
  \A c \in Clients : verdict[c] = "pass" /\ OnlyOwnEvents(c) =>
    LET published == request[c].succeeded
    IN /\ published * 100 >= Total * AchievedPercent
       /\ published < Total => OneIn <= Total
       /\ \A i \in Conns[c] :
            Lost(c, i) >= 0 /\ Lost(c, i) * OneIn <= published * Cardinality(Conns[c])

(* A generator that asks for a run gets an answer, whatever became of the  *)
(* runs before, unless it is killed.                                       *)
EveryRequestIsAnswered ==
  \A c \in Clients : stage[c] = "asking" ~> stage[c] # "asking"

(* "(409 Conflict if busy)" (photon-leptos-bench/README.md:35): with the   *)
(* flag up, a run is in flight, so only a busy server refuses.             *)
RefusedOnlyIfBusy == inFlight => \E c \in Clients : request[c].pc = "running"
=============================================================================
