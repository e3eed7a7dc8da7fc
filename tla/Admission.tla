----------------------------- MODULE Admission -----------------------------
(***************************************************************************)
(* From the browser's call of use_websocket to the answer of its upgrade   *)
(* request: the client builds the URL (photon-leptos/src/ws_url.rs), the   *)
(* route handlers of photon-axum/src/axum_ws/routes.rs, or the one that    *)
(* #[synced] generates, check the origin, read the key, resolve the key    *)
(* filter and choose the fanout.                                           *)
(***************************************************************************)
EXTENDS SubscribeKey

CONSTANTS
  Paths,     \* the ws_path a client is configured with
  Keys,      \* the key_filter it is configured with
  UserKeys   \* what the host's extractor returns; NoKey for None and for ""

ASSUME AdmissionAssumption ==
  /\ NoKey \in Keys /\ NoKey \in UserKeys
  /\ \A s \in Paths \cup Keys \cup UserKeys : s \in Seq(Bytes) /\ IsUtf8(s)

VARIABLES
  client,    \* the client's configuration: its path, its key filter
  server,    \* the host's: route auth, user, origin policy, fanout, hub
  url,       \* the request's URI
  stage,     \* how far the request came
  clientKey, \* client_key_from_uri
  keyFilter, \* the resolved filter
  status     \* the answer

vars == <<client, server, url, stage, clientKey, keyFilter, status>>

(* WsFanoutMode, and what from_env makes of any other setting.             *)
FanoutModes == {"per_subscribe", "broadcast_hub"}
UnknownEnvValue == "unknown"

(* apply_ws_routes (ws_router) mounts a handler for each descriptor; a     *)
(* host may mount the macro's own handler instead.                         *)
Mounts == {"router", "handler"}
AuthModes == {"none", "user"}

Servers ==
  [mount : Mounts,
   auth : AuthModes,
   extractor : {"rejects", "answers"},  \* whether extraction of Auth fails
   userKey : UserKeys,
   originAllowed : BOOLEAN,
   fanout : FanoutModes \cup {UnknownEnvValue},
   hub : BOOLEAN]

Init ==
  /\ client \in [path : Paths, key : Keys]
  /\ server \in Servers
  /\ url = <<>>
  /\ stage = "client"
  /\ clientKey = NoKey
  /\ keyFilter = NoKey
  /\ status = 0

(* subscribe_ws opens the connection.                                      *)
Connect ==
  /\ stage = "client"
  /\ url' = WsUrlWithKey(client.path, client.key)
  /\ stage' = "extract"
  /\ UNCHANGED <<client, server, clientKey, keyFilter, status>>

Continue(next) ==
  /\ stage' = next
  /\ UNCHANGED status
Panic == -1
Answer(code) ==
  /\ stage' = "answered"
  /\ status' = code

(* axum runs the Auth extractor of a user route before the handler; what a *)
(* failed extraction answers is the host's, here 0.                        *)
Extract ==
  /\ stage = "extract"
  /\ IF server.auth = "user" /\ server.extractor = "rejects"
     THEN Answer(0)
     ELSE Continue("origin")
  /\ UNCHANGED <<client, server, url, clientKey, keyFilter>>

CheckOrigin ==
  /\ stage = "origin"
  /\ IF server.originAllowed THEN Continue("key") ELSE Answer(403)
  /\ UNCHANGED <<client, server, url, clientKey, keyFilter>>

ReadKey ==
  /\ stage = "key"
  /\ clientKey' = ClientKeyFromUri(url)
  /\ Continue("resolve")
  /\ UNCHANGED <<client, server, url, keyFilter>>

(* Faulty variant of ResolveUser: the client's key wins over the user's.   *)
ResolveUserToClientKey ==
  IF server.userKey = NoKey THEN Answer(401) /\ UNCHANGED keyFilter
  ELSE /\ keyFilter' = IF clientKey # NoKey THEN clientKey ELSE server.userKey
       /\ Continue("fanout")

(* resolve_subscribe_key, with the status key_resolve_response gives.      *)
ResolveUser ==
  IF server.userKey = NoKey THEN Answer(401) /\ UNCHANGED keyFilter
  ELSE IF clientKey \notin {NoKey, server.userKey} THEN Answer(403) /\ UNCHANGED keyFilter
  ELSE keyFilter' = server.userKey /\ Continue("fanout")

ResolveKey ==
  /\ stage = "resolve"
  /\ IF server.auth = "none"
     THEN keyFilter' = clientKey /\ Continue("fanout")
     ELSE ResolveUser
  /\ UNCHANGED <<client, server, url, clientKey>>

(* A hub that is asked for and not there is an error, also behind          *)
(* respond_upgrade: no other fanout is taken in its place.                 *)
SyncedWsHandler ==
  Answer(IF server.fanout = "broadcast_hub" /\ ~server.hub THEN 503 ELSE 101)

(* An unknown mode is an error of respond_upgrade, and a panic of          *)
(* SyncedWsConfig::new in the macro's handler.                             *)
RespondUpgrade ==
  /\ stage = "fanout"
  /\ IF server.fanout = UnknownEnvValue
     THEN Answer(IF server.mount = "router" THEN 500 ELSE Panic)
     ELSE SyncedWsHandler
  /\ UNCHANGED <<client, server, url, clientKey, keyFilter>>

Next ==
  Connect \/ Extract \/ CheckOrigin \/ ReadKey \/ ResolveKey \/ RespondUpgrade

Spec == Init /\ [][Next]_vars
-----------------------------------------------------------------------------
(* Properties.                                                             *)

Admitted == stage = "answered" /\ status = 101
PathHasKey == WsUrlLogFields(client.path).hasKey

(* The key a server reads is the key its client was configured with, byte  *)
(* for byte, or none at all when the server does not accept such keys: the *)
(* escaping of one crate and the parser of the other agree on every key.   *)
KeySurvivesTheUrl ==
  stage \in {"resolve", "fanout"} /\ ~PathHasKey =>
    clientKey = IF Acceptable(client.key) THEN client.key ELSE NoKey

(* Once upgraded, a connection of a user route sees its own user's events  *)
(* and no others, whatever key the URL carries; one of an open route sees  *)
(* the key it asked for, or every key if it asked for none or for one that *)
(* the server does not accept.                                             *)
AdmittedToOwnScope ==
  Admitted =>
    IF server.auth = "user"
    THEN keyFilter = server.userKey /\ keyFilter # NoKey
         /\ (PathHasKey \/ client.key \in {NoKey, keyFilter} \/ ~Acceptable(client.key))
    ELSE PathHasKey \/ keyFilter \in {NoKey, client.key}

(* What is logged of a request: the client's line has the path before its  *)
(* query and a flag that is up exactly when the URL has a key, wherever    *)
(* among the parameters, and so whenever the server reads one.  The hub's  *)
(* line has the key filter itself, a user's included: every control        *)
(* character is replaced, and a filter without any is logged as it is.     *)
LogFieldsAreClean ==
  stage # "client" =>
    LET logged == WsUrlLogFields(url)
        filter == SanitizeKeyForOpsLog(keyFilter)
    IN /\ logged.path = Before(client.path, QuestionMark)
       /\ logged.hasKey <=> client.key # NoKey \/ PathHasKey
       /\ clientKey # NoKey => logged.hasKey
       /\ ~HasControl(filter)
       /\ ~HasControl(keyFilter) => filter = keyFilter
=============================================================================
