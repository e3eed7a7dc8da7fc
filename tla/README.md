# A verification project for photon-leptos

TLA+ modules that model the parts of photon-leptos where order, failure and
concurrency matter, the TLC configurations that check them, and TLAPS proofs of
every safety property that the passing runs check. `PROJECT.json` maps each
definition to the lines it translates; paths below are relative to `src/`.

    tlc -workers 2 -config MCBroadcastHub.cfg MCBroadcastHub    # check
    tlapm BroadcastHubProof.tla                                 # prove

## 1. The system

photon-leptos keeps Leptos resources of many browsers in step with one server.
A server function changes the application's state and publishes an event to a
Photon topic. Each browser holds a WebSocket. The server forwards the topic's
events to it, all of them or those of one key, and the client hook refreshes
the resource by fetching it again (Refetch), by taking the payload for the new
value (Replace) or by adding the payload to a list (Append).

    server function -> store, then Photon topic
                                   |
            one stream per socket  |  one stream per key group
                     |             |             |
              handle_socket        |    run_group_reader --> queue of each member
                     |                                             |
                     |                                    handle_socket_hub
                     +-------------- WebSocket --------------------+
                                         |
                      callback of the hook --> trigger / value / list

### Components

| component | state it keeps | operations | module |
|---|---|---|---|
| broadcast hub (`photon-axum/src/axum_ws/hub.rs`) | registry of groups by key behind a mutex, generation counter, one reader task per group instance, one bounded queue per member | `join`, `HubSubscription::drop`, the loop of `run_group_reader`, `remove_if_generation` | `BroadcastHub` |
| handler, hub fanout (`ws.rs`) | place in its `select!`, the subscription | accept, take a frame, send, see the browser leave, close | `HubSocket` |
| handler, per-subscribe fanout (`ws.rs`) | place in its `select!`, its own stream | the same, with a stream in place of the queue | `PerSubscribe` |
| admission (`routes.rs`, `key_resolve.rs`, `state.rs`, macro) | none beyond the request | origin, key, policy, fanout | `Admission` |
| key in the URL (`ws_url.rs`, `ws_query.rs`) | none | escape, find, decode, accept, log | `SubscribeKey` |
| hooks (`photon-leptos/src/client/mod.rs`) | trigger, injected value, list, buffer, fetch in flight | message, fetch, reply | `SyncedResource`, `AppendClient`, composed in `SyncedHook` |
| connection (`subscribe_ws`) | down, open, closed, what is on the wire | handshake, loss, reconnect, close | `BrowserLink` |
| application and publishers (demos) | store, writers between change and publish | write, publish, publish fails | `BrowserLink` |
| `#[synced]` macro (`synced.rs`) | none (code generator) | what compiles, choice of hook and handler | `SyncedMacro`, handler in `Admission` |
| bench control API (`photon-leptos-bench/src/server/`) | in-flight flag, a run's counts, fanout mode | publish run, its refusal, early end and loss; mode switch, restart | `BenchLoad`, `BenchCampaign` |
| bench load client (`ws_load.rs`, `knee.rs`) | connections, counts, verdict | connect, settle, ask, count, judge; key groups, several targets | `BenchLoad`, `BenchVerdict` |
| experiments and campaigns (`runner.rs`, `matrix*.rs`, `schema.rs`) | slice, sweep, report files | start, skip, ensure the mode, climb, probe process, report, abort | `BenchCampaign` |
| hardware profiles (`profiles.rs`) | a file | validate, list phase 1 | in `BenchCampaign`; capture of the machine is not modelled |
| demo UIs and hosts | pixels | | not modelled |

### Interactions and what makes them hard

- **Hub.** Joiners, leavers and reader tasks meet in one mutex, and the reader
  releases it four times per event: it clones the members' senders, sends
  outside the lock, prunes under the lock, and removes an emptied group under
  yet another lock. Between any two of those, members join, leave, or replace
  the whole group. `abort` reaches a task at its next await and no sooner. The
  generation is the only thing that tells a new group from an old one.
- **Handlers.** One task watches two sources in a `select!` and watches neither
  while a send is awaited. A queue of bounded length stands between reader and
  handler; who is too slow is cut off, and learns it only once every clone of
  its sender is dropped.
- **Admission.** Two crates agree on an escaping, and two places (route handlers
  and generated handler) on a policy. Nothing but the result can be tested end
  to end.
- **Hooks.** Messages arrive while a fetch is in flight whose answer may be
  older or newer than the message; connections are lost and made again; the
  snapshot of a list overlaps with its tail.
- **Bench.** Generators race for the one publish run of a server, and a request
  may be dropped in the middle of it. What a generator counts comes from tasks
  that connect late, break, and outlive their deadline.
- **Campaigns.** A slice runs for hours over servers that keep their fanout mode
  from one experiment to the next, may be restarted or switched, and in a fleet
  are switched one by one. It stops at the first error, may be killed while it
  writes a report, and is started again with `--skip-existing`.

What makes each of them correct is the subject of section 4. `PROJECT.json`
lists the hazards one by one with the line where they bite.

## 2. Modules

    Topic           events, key filters, matching (the Photon topic as seen by a stream)
      BroadcastHub         hub.rs
        HubSocket          + handle_socket_hub          implements LiveTail
      PerSubscribe         handle_socket                implements LiveTail
    LiveTail        what either fanout promises a browser
    SubscribeKey    bytes of a key in a URL
      Admission            one upgrade request
    SyncedMacro     what #[synced] makes of a server function
    BrowserLink     store, publishers and the connection, the tail of LiveTail assumed
      SyncedResource, AppendClient
        SyncedHook         the hook the macro chose, on a page
    BenchLoad       load generators and the publish endpoint they share, step by step
    BenchVerdict    the figures of one load and what experiments make of them
      BenchCampaign        campaigns: slices, fanout modes, sweeps, reports

The theorems about a module `M` are in `MProof`, and those about `Topic` are
lemmas of the hub's and the handlers' proofs. `MCM` gives `M` its constants for
TLC.

Parts outside this repository are modelled from their use in it and marked
`external` in the map: the Photon topic and its streams, bounded tokio channels
and task abortion, the WebSocket's two sides, the Leptos resource (one run at a
time, another one if its source changed meanwhile), leptos-use's reconnection,
and the browser, which runs the effects of one WebSocket message before the
next, so that the `message` signal of `subscribe_ws` skips none.

### BroadcastHub

One topic. `group[f]` is `HubInner.groups[f]`, with generation 0 for a key that
is not in the map; `reader[g]` is the task of generation `g`: where it is
(`pc`), its stream's position in the topic (`cursor`), and its locals
(`senders` cloned, those still `todo`, those to be dropped). `frames[s]` is the
history of a subscription's channel and `taken[s]` the number of frames its
owner has received, so `Len(frames[s]) - taken[s]` frames wait in the queue.

An action is one critical section, one `try_send`, or one poll:

| code | action |
|---|---|
| `join` | `Join` = `JoinExisting` or `JoinNew` (with `SpawnReader`) |
| `HubSubscription::drop`, `leave` | `Leave`, then `DropReceiver` when the fields go |
| first poll of the task | `Subscribe` |
| `stream.next()` yields an event / error or end | `NextEvent` / `StreamEnds` |
| cloning the senders | `Snapshot` |
| one `try_send` | `TrySend` |
| end of the loop body without, with drops | `KeepAll`, `Prune` |
| `remove_if_generation` after the loop or after `Prune` | `Remove` |
| an aborted task is dropped | `Cancel` |

A task starts nothing before its first poll, so `JoinNew` and `Subscribe` are
two actions: an event published in between is seen by nobody, which is one
reason why a live tail promises no start.

A socket joins at most once. Member ids are never reused in the code
(`next_id`), so a browser that reconnects is another member of `Sockets`.

### HubSocket and PerSubscribe

Each adds one handler task per connection. `conn[s]` is where the task is:
waiting in `select!`, awaiting `sink.send`, closing, closed. Sends that never
complete are the connections outside `Prompt`; `peer[s]` is the browser's side,
which may go at any moment, and a send may fail from then on. Both are shown to
implement `LiveTail`: a browser's view only grows, by the next event of its
filter, from some point on, without a gap, a repetition or a swap, and not at
all once its connection is closed.

### SubscribeKey and Admission

Strings are sequences of bytes. `SubscribeKey` is the escaping of the client and
the parser of the server, `Admission` one request through them: the URL is
built, the extractor runs, the origin is checked, the key is read, the policy
decides, the fanout is chosen. `server.mount` tells the handlers that
`ws_router` mounts from the one the macro generates; they differ in what an
unknown fanout does. What is logged of a URL (`ws_url_log_fields`) and of a key
filter (`sanitize_key_for_ops_log`) is computed at every stage of the request.

### BrowserLink, SyncedMacro, SyncedResource, AppendClient and SyncedHook

The store is the number of changes made to it, an event's payload the number of
its change, so "how recent" is a comparison of numbers. A change is made in one
step and published in a later one (`increment_counter` and `send_message` in
the demos), so two writers may publish in the other order, and publishing may
fail. The connection carries a live tail: it starts where the topic is when the
handler subscribes, and loses everything on the wire when it breaks. `link` is
what the `status` signal shows, and `Close` is `PhotonWsHandle::close`, called
by the application or when the component is unmounted: it ends reconnection.

`SyncedMacro` is the macro as a function from a server function's attributes and
return type to a compile error or a hook: its name, its strategy, and the type
as which it reads a payload. The macro knows a type by the last segment of its
path, so what a type is and what it is called are two things there: a Result
may have another name (`"alias"`), and is then no Result for `ReturnsResult`,
while its payloads are what they are for any Result. (The opposite, a type that
is called Result and is none, is left out.) `SyncedResource` has the two strategies of
`synced_resource`. They share everything but `Inject`: what a message makes of
`direct_value`. `AppendClient` is `synced_resource_append`, with the snapshot's
fetch, the buffer and the list. `SyncedHook` starts with any hook that the macro
can choose and goes on as a resource or as a list, so its run checks both
modules and the choice between them.

### BenchLoad

Generators connect, wait for the settle deadline, ask for a paced publish run,
drain and judge (`run_sustained_load`, `pls0_step`). The server lets one run at
a time pass (`Claim`), publishes event by event, and stops at the first error.
`wire` and `got` tell whose run an event is from, which the generator cannot.
`conn` and `counted` differ because a handshake that ends after the deadline is
counted as a failure while its connection goes on.

### BenchVerdict and BenchCampaign

`BenchVerdict` takes one load as a whole: which connections open, how many
events each target publishes and how many of them are known to the generator
(`Runs`: a run may stop early, be refused, or lose its answer), how many
deliveries are due (a keyed connection is owed the events `key-(q % G)` of its
own `key-(i % G)`, a connection the events of its own server), and how many are
lost. A connection that opens after the settle deadline, and another generator's
events, add messages to the count. `Results` has the figures all this can
come to, with none, one or all of the deliveries lost, and none, one or as many
as the load's events added; `DeliveryLoss`, `Healthy` and `Accepts` are `result_stats`, `evaluate_step` and the `pass` of each experiment
on them, rates as fractions.

`BenchCampaign` has the mode of each server (`mode`), the reports on disk, the
campaign's command line, the slice (`todo`), a program counter, and the sweep of
the current experiment (`ex`). An experiment is a sequence of ladders of loads
(`Pls0` to `Pls9`); a ladder is climbed until a load fails (`Climb`). A command
names one server (`--server-url`, `main`) and maybe others (`--server-urls`,
`servers`): the fanout mode is asked for on `ModeUrls`, the loads go to
`LoadUrls`, and one need not be part of the other.

| code | action |
|---|---|
| `matrix`, `run` | `StartMatrix`, `StartRun` |
| `--skip-existing`, `validate_hardware` | `SkipExisting`, `Begin`, `RejectHardware` |
| `ensure_ws_mode` on a server, its errors | `EnsureWsMode`, `EnsureFails`, `ModeEnsured` |
| `pls0_process_probe` | `SpawnProbe` |
| one load and its verdict | `Measure` |
| `wait_for_health`, `bail!` of `run_pls9` | `LoadFails`, `RejectFleet` |
| truncating and writing the report | `WriteReport`, then `ReportWritten` or `WriteFails` |
| the end of the campaign | `Finish`, or `Kill` |
| bench server restarted, `POST /api/bench/mode` by others | `Restart`, `SwitchMode` |

`BenchLoad` shows that the figures of a load are right as far as they can be;
`BenchCampaign` starts from them.

## 3. Runs

| run | module, cfg | question | distinct states |
|---|---|---|---|
| `hub_registry` | MCBroadcastHub | does the registry agree with its readers; does each queue get a gapless run | 1,260,162 |
| `hub_membership` | MCBroadcastHub, Membership.cfg | is a member dropped only for being slow? *violated* | |
| `hub_sockets` | MCHubSocket | handlers and hub implement the live tail; a slow browser holds up nobody; what stopped is released | 165,084 |
| `per_subscribe` | MCPerSubscribe | the default fanout, the same and an exact window | 17,133 |
| `admission` | MCAdmission | keys survive the URL; nobody gets a filter but its own; log lines are clean | 1,097,352 |
| `hooks` | SyncedHook | what was heard is shown, the latest payload wins, the hand-over from snapshot to tail is exact, whatever hook | 230,130 |
| `resource_reconnect` | SyncedResource, Reconnect.cfg | exact again after a reconnect? *violated* | |
| `bench` | MCBenchLoad | one run at a time, an answer for each request | 300,803 |
| `bench_loss` | MCBenchLoad, Loss.cfg | how much can a step that passes have lost or left unpublished | 12,494 |
| `bench_refused` | MCBenchLoad, Refused.cfg | refused only while busy? *violated* | |
| `campaign` | MCBenchCampaign | is each report measured in its mode, founded on its loads, and kept | 709,529 |
| `campaign_loss` | MCBenchCampaign, Loss.cfg | does a load that lost nothing show no loss? *violated* | |

### Bounds and why they are enough

- `MCBroadcastHub`: three subscriptions, one key, three generations, three
  events, a queue of one frame. Three subscriptions are what it takes for one
  to be pruned, one to leave and one to join between two steps of a reader, and
  three generations for an obsolete reader to meet a group that replaced a
  group that replaced its own. Groups of different keys share nothing but the
  generation counter, so one key is enough; the proofs are for any number. A
  queue of one frame is full after one event; three events fill it, prune its
  owner, and go on. Subscriptions are interchangeable there, and no property of
  the run is temporal, so they are a symmetry set.
- `MCHubSocket`: two connections of one key, so that they share a group, its
  reader and its removal, and one of them may never complete a send. Events of
  the key, of another one, and one that does not serialize. A third event puts
  liveness out of reach; the exact run of frames over three generations is
  `MCBroadcastHub`'s, and the refinement is proved for any number.
- `MCPerSubscribe`: two filters, one seeing all events and one those of its key,
  and the same kinds of events; one browser reads and one may not.
- `MCAdmission`: keys of up to two characters, and of three over a letter and
  `%`, when four bytes are allowed. The characters are a letter, `%`, `+`, `&`,
  a control character of one byte and one of two, and a character of two, three
  and four bytes each. A byte is escaped to three, also at the end of the value,
  so the decoder's bound `i + 2 < len` is met, and keys are both shorter and
  longer than the limit. Six paths: bare, with another parameter, with a
  parameter that ends in `key`, with a `key` of its own, with an empty one, and
  with one that decodes to the first byte of a character without the rest. Every
  configuration of the host is an initial state.
- Hooks: three changes, the second of them unreadable, and one loss. Two changes
  race with a fetch, a third shows what comes after; a second loss repeats the
  first. Every hook, and a close at any moment, is part of the run.
- `MCBenchLoad`: two generators are what it takes to race for the flag. A run of
  one event can fail, be dropped before it, or lose it; what a longer run adds
  to the race is a later end. What a pass can hide is the matter of the other
  instance (`Loss.cfg`): one generator with two connections, so that one of them
  can make up for the other in a sum, and a run of four events of which
  three must be published and one in three may fail. One failure in four is
  tolerated there as one in 6000 is by the code's thousandth, so a run that
  stops after three events passes, and one that stops after two does not. The
  code's own constants (1000, 95 %) are one value of those that the theorem is
  about.
- `MCBenchCampaign`: two servers, for a fleet that is half switched or a load on
  a server that nobody switched; they are interchangeable, and a symmetry set. A
  wired and an unwired profile, and loads of two connections, two key groups and
  two events in one second, so that a connection and an event can be of
  different groups and one event can be published on each server. Every server
  list without a repetition is given, together with either server to load. PLS0
  has two rates and two rungs, one in this process and one in its own: a rate
  can pass where the other fails, and fail where the other passed. The slices
  are `pls-hub`, with baseline and hub, and `pls-hardware`, with profiles of its
  own; PLS4, whose last ladder decides, and PLS9, on a fleet, run alone. What a
  sweep of the other experiments reports is proved (`KneesAreFounded`). Two
  campaigns are what it takes to find the first one's torn report or its
  server's mode. One fault: a second one repeats the first.

`CHECK_DEADLOCK FALSE` is set where the environment may stop: browsers may all
be gone and publishers be done.

### Fairness

- Readers and handlers are tokio tasks: a task that is ready is polled, so a
  step that stays possible is taken (`WF`). An aborted task is dropped at its
  next await. A handler's fairness is over all its steps together: `select!`
  polls its arms in random order, and the bounds on events keep an arm from
  winning for ever.
- Only connections in `Prompt` have a fair handler: a send to a browser that
  does not read never completes, and the code has no timeout for it.
- Nothing else on the server is fair. Streams need not end, browsers need not
  leave, nobody needs to publish or join.
- In the hooks the browser's event loop runs its callbacks (`Receive`), the
  handler forwards while the connection lasts (`Forward`), and a fetch ends
  with a value or an error (`Run`, `Fetch` of the list). Writers, reconnects,
  losses and closing are not fair.
- Campaigns have no liveness property: they may be killed at any point.
- In the bench a server works on the requests it has and a generator's timers
  run out. Connections, their messages and a request's being dropped are not
  fair: the drain ends whether or not messages have come.

## 4. What the runs show

**Hub.** `RegistryMatchesReaders`: a registered group's reader is its own
generation's, runs, and was not aborted; a reader that runs without owning its
group was aborted. This is what generations are for (hub.rs:8-10), and without
the comparison (`OwnsAnyGeneration`) TLC takes down a successor's group.
`EmptyGroupIsBeingRemoved` and `MembersAreLive`: neither groups nor members
leak. `FramesAreContiguous` and `MembersMissNothing`: what a queue got is a
gapless run of events of its filter, and who is still a member was refused none.

**Fanouts.** Both implement `LiveTail`. In the hub a prompt connection gets each
event due to it, or closes, while another browser never completes a send; with a
hub that awaited its sends (`SendToAll`) TLC finds it starved. The default
fanout has an exact window as well, from the point it subscribed at.

**Admission.** Every key over the alphabet arrives as it was or not at all. No
upgrade of a user route has a filter but the user's, whatever the URL says.
`LogFieldsAreClean`: the client's log line has the path before the query, and a
flag that is up exactly when the URL has a key, whatever stands before it in the
query. The hub's line has the key filter itself, a user's included (hub.rs:146
and others): every control character in it is replaced, and it is otherwise
unchanged.

**Hooks.** Refetch: when it has settled it shows each change whose event it
heard, and every event on its way is shown unless its connection is lost or
closed. Replace: it settles on the payload that came last, and if the writers
publish in the order of their changes, on nothing older than what it heard
(`ReplaceFollowsOrderedWriters`; the demo's writers need not, so its counter may
settle on an older value). It asks the server again only for a payload that is
broken in itself: the macro picks the hook that reads what is published, for
every return type but a Result by another name (`ReplaceFetchesOnlyForBroken`).
Append: the list is the snapshot and then each item received, once and in order
(so an item that is in both is shown twice); if the stream ran since before the
snapshot was read, no published item is missing; and an item on its way is
listed in the end, unless the snapshot fails or the connection goes.

**Bench.** One run at a time, whatever becomes of requests; and a request is
answered or its generator gone, where a 409 is an answer, also one that is due
to a flag nobody will ever reset (the third difference below).
`PassBoundsLoss` says how much a step that passes can hide, as long as the
generator heard no other run's events (it would count them as its own). A run
that stops early reports its whole length as attempted and one event as failed.
So it passes only if one failure in as many events is tolerated, and even then
only if the achieved rate was reached: with the defaults, 6000 events and a
thousandth, a step passes with 300 of them never published. Of what was
published, no connection counted more than there was, or lost more than the
threshold grants to all connections together.

**Campaigns.** `MeasuredInItsMode`: whatever was left behind by earlier
experiments, every load of a report that names a mode was measured in it, on
every server it loaded and in every probe process. Two things are excepted. The
servers loaded must be among those asked for the mode (the last difference
below); and none of them may be restarted or switched by someone else meanwhile:
the code looks at the mode once per experiment and would not notice.
`BaselineIsPerSubscribe`: nothing puts a server back after a hub experiment, so the order of the `pls-hub` slice alone
keeps its baselines in the default mode, and only if the server was in it when
the slice started: a second campaign on the same server measures them in the
hub's, and its report names no mode. `KneeIsFounded`: the number of a report is
the highest rung climbed without a failure, a lower bound means that nothing
failed, and a pass means that some load passed. The report has that number after
a failure too (runner.rs:234), where the comment on the field has it only without
one (schema.rs:44). `FinishedSliceIsReported` and
`SkippedReportsAreKept`: reports of one directory do not overwrite or stand in
for each other, and those that are complete are kept over any number of
interrupted campaigns.

Seen on the way, and part of the model as it is part of the code: a report torn
by a kill is skipped ever after by `--skip-existing`; a knee is "observed"
although the count that passed and the one that failed belong to different rates
(schema.rs:47 reads otherwise); PLS4 passes on its last payload size alone;
the slice `pls-fleet` always ends in an error, as `matrix` has one server and
`run_pls9` wants two.

### Where the code and its descriptions differ

1. `OnlySlowMembersAreDropped` (code). The reader prunes the last slow member,
   releases the lock (hub.rs:350), and takes it again to remove the group
   (hub.rs:352). `remove_if_generation` compares generations but does not look
   whether the group is still empty. A subscription that joins in between is
   removed with it: it gets no frame, sees its channel close, and its browser is
   disconnected although it was never slow. The browser reconnects, so it is a
   lost window of events rather than a lasting failure.
2. `ExactAfterReconnect` (documentation). README.md:48 recommends Refetch across
   reconnects "when exact state matters". The trigger is bumped by messages
   only, so what was published while the connection was down stays unseen until
   a later event comes.
3. `RefusedOnlyIfBusy` (code). photon-leptos-bench/README.md:34-35 promises a
   409 for a busy server. The flag is reset by the statement after the run
   (routes.rs:178); when the request's connection breaks, the run is dropped at
   an await and the flag stays up. Every later publish request is refused until
   the server is restarted.
4. `LossIsLoss` (code). `result_stats` expects every connection to receive every
   event (ws_load.rs:566). A keyed load's connection is sent the events of its
   own key only, and a fleet's servers share no events, so a load that lost
   nothing shows a loss of 1 - 1/G. PLS5 beyond one group, PLS6 and PLS9 can
   never pass.

Differences that show without a run:

- key_resolve.rs:112-113 asks for a 403 for both errors of the key policy;
  routes.rs:162 and the macro answer a missing user with 401.
- README.md:157 has the hook for Results selected "automatically for `Result`
  return types". The macro looks at the last segment of the type's path
  (synced.rs:57-73): a Replace function that returns a Result by another name
  gets `synced_resource`, which reads a payload as a whole Result, fails, and
  fetches at every event. The resource still shows the right value.
- `run` takes `--server-url` and `--server-urls` independently. The mode is put
  on the latter (runner.rs:55-59), every experiment but PLS9 loads the former
  (for example runner.rs:152), and the report names the mode that was asked for,
  in the words of cli.rs:47 the "Fanout mode on the bench server". A command
  without `--server-urls`, and so every `matrix`, is right; one with it is right
  if the list has the server of the other option, or its default.

## 5. What is proved

Each theorem holds for every value of the constants that the module's named
assumption admits, so for any number of browsers, events, generators, rungs or
bytes. Theorems are in the order of the components; an arrow gives the property
of section 3's runs that they state.

| module | theorem | property |
|---|---|---|
| `BroadcastHubProof` | `HubTypeCorrect` | `HubTypeOK`, with the bound on every queue |
| | `RegistryCorrect` | `RegistryMatchesReaders` |
| | `NoGroupLeaks`, `NoMemberLeaks` | `EmptyGroupIsBeingRemoved`, `MembersAreLive` |
| | `FramesCorrect`, `NoMemberMisses` | `FramesAreContiguous`, `MembersMissNothing` |
| `HubSocketProof` | `HandlersUseTheHub` | `Spec => HubSpec`: all of the above, behind the handlers |
| | `SocketTypeCorrect`, `HubIsLiveTail` | `TypeOK`, `ImplementsLiveTail` |
| `PerSubscribeProof` | `TypeCorrect`, `WindowIsExact` | `TypeOK`, `SentExactlySinceSubscribed` |
| | `PerSubscribeIsLiveTail` | `ImplementsLiveTail` |
| `AdmissionProof` | `KeysSurviveTheUrl` | `KeySurvivesTheUrl` |
| | `AdmissionKeepsScope`, `LogsStayClean` | `AdmittedToOwnScope`, `LogFieldsAreClean` |
| `SyncedHookProof` | `RefetchShowsWhatItHeard` | `SettledShowsWhatItHeard` |
| | `ReplaceShowsLatestPayload`, `ReplaceKeepsOrder` | `SettledShowsLatestPayload`, `ReplaceFollowsOrderedWriters` |
| | `ReplaceRarelyFetches` | `ReplaceFetchesOnlyForBroken` (of steps) |
| | `AppendKeepsEveryItem`, `AppendLeavesNoHole` | `ListIsSnapshotThenTail`, `CoveredListHasNoHole` |
| `BenchLoadProof` | `OneRunAtATime` | `OnePublishRun` |
| | `PassesBoundLoss` | `PassBoundsLoss` |
| `BenchCampaignProof` | `CompleteReportsAreKept` | `SkippedReportsAreKept` (of steps) |
| | `ReportsNameTheirMode`, `BaselinesAreMeasured` | `MeasuredInItsMode`, `BaselineIsPerSubscribe` |
| | `FinishedSlicesAreReported`, `KneesAreFounded` | `FinishedSliceIsReported`, `KneeIsFounded` |

### Along which arguments

**Registry.** None of `RegistryMatchesReaders`, `EmptyGroupIsBeingRemoved` and
`MembersAreLive` is inductive alone. A join that creates a group gives it the
next generation's task: that keeps the registry right only if the task was
never used, and an absent group's entry must have no members left over.
`RegistryInv` is the conjunction of the three with those two facts. The three
also need each other: the removal of an emptied group is right because only its
own task can find itself its owner, and that task then is the one that stops.

**Frames.** `FrameInv` relates each member's last frame to its reader's cursor,
in two forms: `UpTo` (has all up to the event in hand) for members already
served or when nothing is in hand, and `Before` (all but that event) for those
still to serve. A member without frames may follow any reader, which is where
`Subscribe` and a late join come in.

**Live tail.** Under the refinement mapping, a browser's view is the prefix of
its frames that was sent (hub), or the view itself (default fanout); `conn` is
mapped by `TailConn`. Each action is a step of `LiveTail` or a stutter
(`TailStep`), and only the completion of a send is ever a step of the view. For
that the hub's frames must be contiguous, so `HubIsLiveTail` rests on
`HandlersUseTheHub` and `FramesCorrect`. For the exact window (`WindowInv`), the
events in the view, with the one being sent, are those of the filter between
start and cursor.

**Admission.** The invariant (`Progress`) says what each stage has found out as
a function of the two configurations; the work is in the strings. The parser's
first key parameter is the one the client appended, because an escaped key has
no separator in it and appending a parameter adds one start to the query's
parameters and changes no other (`LastPair`, `UrlOfKey`). The decoder undoes the
escaping, byte by byte from the end (`DecodeEscape`), for any bytes at all. The
log of a filter has no control character by the invariant of a prefix
(`CleanUpTo`): a lead byte that opens no control character is the only thing
left at its end, and the replacement of one brings none. `PathHasKey` was first
the weaker "the server reads a key from the path". The proof of `UrlOfKey` did
not go through with it, and rightly: with the path `/w?key=`, an empty key that
counts as none still is the first parameter of that name, so the client's key is
never looked at. The property now names a path that has any parameter `key`, and
the run has that path.

**Hooks.** `LinkInv`: only changes that were made are published, sent and
received. `OrderInv`: what a client took and what is on its wire is from the
log, in its order, across reconnects. For Refetch, every change heard of is
shown, or its trigger is up, or the fetch in flight will be followed by another
(`Due`); Replace has the latest payload in `direct_value`, or a fetch due for
it. A list's `CoverInv` says that every event up to the stream's position is
unreadable, in the snapshot, received, or on the wire.

**Bench.** `FlagIsUp` (a run that is in flight holds the flag) and
`AtMostOneRuns` are inductive together. For losses: no connection has, received
or on the wire, more events of a run than the run published (`NoneInvented`),
so what is missing in one summand is missing in the sum (`LossIsBounded`), which
is the argument that one connection cannot make up for another. That a run which
stopped early needs a tolerance of one in its length comes from its counts
(`RunCounts`): it has one failure, and as many successes as it published.

**Campaigns.** `Core` types the campaign, its commands and its reports.
`Measured` says that the loads so far were in the mode wanted, and that the
servers of `LoadUrls` are in it once they were ensured.
`NotThere` (while an experiment runs under `--skip-existing` there is no
complete report of it) makes reports stay. `InSlice` and `DealtReported` walk
the slice: each experiment that was dealt with is reported, and no two of one
slice share a path. `BaselineMode` has the position in `pls-hub`: both baselines
come before both hub experiments. `Sweep` says that a sweep is, for each ladder,
a top below which every rung passed and above which nothing was loaded, except
the rung that failed; `ex.best` is the greatest top and the flags are the
disjunction and conjunction of the verdicts.

### How functions of data are reasoned about

The libraries' induction theorems take an operator as a parameter and cannot be
used here. The proofs do induction over sets instead: a set that has 0 and, with
each number, its successor contains the naturals (`EveryNatural`, from the
well-foundedness of `<`), and the same for finite sets from one element to the
next (`EverySubset`). With it they show that the recursive functions behind
`FlattenSeq`, `FoldFunctionOnSet` and `PercentDecode` exist (`JoinedExists`,
`SumExists`, `DecodedExists`), and cite the equations of each step from then on
(`FlattenSteps`, `SumStep`, `DecodeSteps`).

### Assumptions

`TopicAssumption` and `HubAssumption`: each filter matches a set of kinds, each
subscription has a filter, a queue has room for one frame. `AdmissionAssumption`:
paths, keys and user keys are byte sequences in UTF-8, as Rust strings are.
`BenchLoadAssumption`: finitely many generators, each with some and finitely many
connections, a tolerance of one in two or less (`OneIn`, 1000 in the code), and
an achieved rate between 1 % and 100 % (95 % there).
`CampaignAssumption`: ladders are not empty, rates and sizes positive, slices
and experiments are those of the registry, and phase 1 is a list of wired
profiles. Everything else is the type of a constant. TLC evaluates all of them
in the runs.

### Only model-checked

The liveness properties (`StoppedReadersFinish`, `PromptSocketsAreServed`,
`AbandonedSocketsAreReleased`, `GoneBrowsersAreReleased`, `EventsAreShown`,
`ItemsAreListed`, `EveryRequestIsAnswered`): they rest on weak fairness, hence on
`ENABLED`, which the provers here do not support. For the same reason the proofs
that the fanouts implement `LiveTail` are about its safety part, which is all it
has. The four properties that a run refutes have nothing to prove.

## 6. What is not modelled

- `try_remove_generation` (hub.rs): an entry for tests that removes a group by a
  generation it is told. Nothing in production calls it, and it can take down a
  live group.
- `last_error` of a subscription: it is written and never read here, and so are
  messages that are not a Photon envelope, which set it and nothing else.
- The demos' pages and hosts: rendering, scenario flags of the E2E tests and
  process start-up. What they do to the store and the topic is in `BrowserLink`.
- The description of the machine in a report (`harness/capture.rs`), latency
  statistics (`stats.rs`) beyond slow or not, and the check of the bench's bind
  address (`bind_guard.rs`): pure functions or I/O without a state.
- The inside of Photon (persistence, ordering across processes) and of the
  session that an `Auth` extractor reads.

## 7. Plan

Done: the topic, the hub, both fanouts with their refinement, admission and what
is logged of it, the macro and every hook it chooses, the bench's publish run,
the verdict on loads of any shape, and campaigns; and a proof of every safety
property, property of steps and refinement that the runs check. What is left:

1. Facts that the proofs show on the way and no property states yet, such as
   what a page may count on over several connections, from `OrderInv` and
   `CoverInv`.
2. Lemmas that more than one proof module has to itself (`EveryNatural`,
   `JoinedExists`) in a module they share.
3. What `BenchVerdict` computes of a keyed load, for any number of groups: which
   loads `LossIsLoss` fails for, and that it fails for no other.
