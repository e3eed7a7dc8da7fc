--------------------------- MODULE SyncedResource ---------------------------
(***************************************************************************)
(* A resource made by synced_resource of photon-leptos/src/client/mod.rs.  *)
(* With the Refetch strategy each message bumps the trigger, and the       *)
(* resource runs the server function again; so does any resource that      *)
(* depends on the trigger of a PhotonSubscription.  With Replace (also     *)
(* synced_resource_replace_result) the payload is the new value, and one   *)
(* that does not deserialize causes a fetch.  The Leptos resource, outside *)
(* this repository, runs one future at a time, and another one if its      *)
(* source changed meanwhile.                                               *)
(***************************************************************************)
EXTENDS BrowserLink, SyncedMacro

VARIABLES
  hook,         \* the hook that the macro chose for the resource
  directValue,  \* direct_value, of Replace alone
  trigger,      \* whether the source changed since the resource last ran
  fetch,        \* the fetch in flight: where it is, and what it read
  value,        \* what the resource shows
  received      \* history: the changes whose event the browser took, in order

clientVars == <<hook, directValue, trigger, fetch, value, received>>
vars == <<store, writers, log, link, tail, wire, losses,
          hook, directValue, trigger, fetch, value, received>>

NoValue == -1
ErrorValue == -2
Idle == [at |-> "idle", val |-> NoValue]
Asked == [at |-> "asked", val |-> NoValue]

(* synced_resource goes by its strategy, synced_resource_replace_result    *)
(* replaces; Append is module AppendClient.                                *)
ResourceHooks == {h \in Hooks : h.strategy # "append"}
strategy == hook.strategy

(* Whether the payload of change v deserializes as what the hook expects.  *)
Reads(v) == hook.fits /\ v \notin Unreadable

(* The page was rendered on the server and hydrated with its value, or the *)
(* browser fetches the first value itself.                                 *)
Init ==
  /\ LinkInit
  /\ hook \in ResourceHooks
  /\ directValue = NoValue
  /\ trigger = FALSE
  /\ \/ value = 0 /\ fetch = Idle
     \/ value = NoValue /\ fetch = Asked
  /\ received = <<>>

(* Faulty variant of Bump: a message during a fetch is thought answered by *)
(* that fetch.                                                             *)
BumpWhenIdle == trigger' = (trigger \/ fetch.at = "idle")

(* trigger.update(|n| *n += 1)                                             *)
Bump == trigger' = TRUE

(* Faulty variant of Inject: an unreadable payload leaves the last value.  *)
InjectReadable(v) ==
  directValue' = IF strategy = "replace" /\ Reads(v) THEN v ELSE directValue

(* direct_value is the payload, or None if it does not deserialize.        *)
Inject(v) ==
  directValue' = IF strategy = "replace" /\ Reads(v) THEN v ELSE NoValue

(* The callback of subscribe_ws.                                           *)
Receive ==
  /\ \E v \in Versions : Take(v) /\ Inject(v) /\ received' = Append(received, v)
  /\ Bump
  /\ UNCHANGED <<hook, fetch, value>>

(* PhotonSubscription::refetch, called by the application.                 *)
Refetch ==
  /\ strategy = "refetch"
  /\ Bump
  /\ UNCHANGED <<linkVars, hook, directValue, fetch, value, received>>

(* The resource runs: an injected value needs no round trip ...            *)
ShowInjected ==
  /\ trigger
  /\ fetch.at = "idle"
  /\ directValue # NoValue
  /\ trigger' = FALSE
  /\ value' = directValue
  /\ UNCHANGED <<linkVars, hook, directValue, fetch, received>>

(* ... otherwise the server function is called.                            *)
StartFetch ==
  /\ trigger
  /\ fetch.at = "idle"
  /\ directValue = NoValue
  /\ trigger' = FALSE
  /\ fetch' = Asked
  /\ UNCHANGED <<linkVars, hook, directValue, value, received>>

ServerReads ==
  /\ fetch.at = "asked"
  /\ fetch' = [at |-> "read", val |-> store]
  /\ UNCHANGED <<linkVars, hook, directValue, trigger, value, received>>

FetchFails ==
  /\ fetch.at = "asked"
  /\ fetch' = [at |-> "read", val |-> ErrorValue]
  /\ UNCHANGED <<linkVars, hook, directValue, trigger, value, received>>

(* Faulty variant of Reply: the reply also counts for the trigger.         *)
ReplyAndForget ==
  /\ fetch.at = "read"
  /\ value' = fetch.val
  /\ fetch' = Idle
  /\ trigger' = FALSE
  /\ UNCHANGED <<linkVars, hook, directValue, received>>

Reply ==
  /\ fetch.at = "read"
  /\ value' = fetch.val
  /\ fetch' = Idle
  /\ UNCHANGED <<linkVars, hook, directValue, trigger, received>>

Run == ShowInjected \/ StartFetch \/ ServerReads \/ FetchFails \/ Reply

Next ==
  \/ (LinkStep \/ LoseLink \/ Close) /\ UNCHANGED clientVars
  \/ Receive \/ Refetch \/ Run

Forwards == Forward /\ UNCHANGED clientVars

(* The server's handler forwards while the connection lasts, the browser's *)
(* event loop runs, and a fetch ends, with a value or an error.            *)
Spec ==
  /\ Init /\ [][Next]_vars
  /\ WF_vars(Forwards)
  /\ WF_vars(Receive)
  /\ WF_vars(Run)
-----------------------------------------------------------------------------
(* Properties.                                                             *)

Settled == ~trigger /\ fetch = Idle
Heard == Elements(received)
Shows(v) == value = ErrorValue \/ value >= v

(* Once it has settled, a Refetch resource shows a state that has every    *)
(* change of whose event it learned (or the error of its last fetch),      *)
(* although events come in any order, while a fetch is in flight, and over *)
(* several connections: no message is lost between trigger and fetch.      *)
SettledShowsWhatItHeard ==
  strategy = "refetch" /\ Settled => \A v \in Heard : Shows(v)

(* A settled Replace resource shows the payload that came last, whatever   *)
(* fetches and earlier payloads it raced with; and if that one was         *)
(* unreadable, a state read since, never the payload before it.            *)
SettledShowsLatestPayload ==
  strategy = "replace" /\ Settled /\ received # <<>> =>
    LET latest == received[Len(received)]
    IN IF Reads(latest) THEN value = latest ELSE Shows(latest)

(* If the server functions publish in the order of their changes, a        *)
(* settled Replace resource shows no state older than any change of which  *)
(* it heard.  (They need not: the demo publishes after releasing the lock, *)
(* and then the payload that came last is an older value.)                 *)
PublishedInOrder == \A n \in 1 .. Len(log) - 1 : log[n] < log[n + 1]
ReplaceFollowsOrderedWriters ==
  strategy = "replace" /\ Settled /\ PublishedInOrder => \A v \in Heard : Shows(v)

(* An event on its way to a Refetch resource is shown in the end, unless   *)
(* the connection that carries it is lost or closed.                       *)
EventsAreShown ==
  \A v \in Versions :
    strategy = "refetch" /\ OnItsWay(v) ~> Shows(v) \/ ~Connected

(* "Across disconnect/reconnect, prefer Refetch when exact state matters"  *)
(* (README.md:48): a Refetch resource that was kept up to date, lost its   *)
(* connection and has it again, with every change published and nothing in *)
(* flight, shows the server's state.                                       *)
Reconnected == received # <<>> /\ losses > 0 /\ link = "tailing"
NothingInFlight ==
  /\ writers = {} /\ 1 .. store \subseteq Elements(log)
  /\ tail = Len(log) /\ wire = <<>> /\ Settled
ExactAfterReconnect ==
  strategy = "refetch" /\ Reconnected /\ NothingInFlight => Shows(store)
=============================================================================
