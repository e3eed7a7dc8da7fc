----------------------------- MODULE SyncedMacro ----------------------------
(***************************************************************************)
(* What #[photon_leptos::synced] of photon-leptos-macros/src/synced.rs     *)
(* makes of a server function: a compile error, or the call of one of the  *)
(* client hooks of photon-leptos/src/client/mod.rs.  The generated         *)
(* WebSocket handler is part of module Admission.                          *)
(***************************************************************************)

(* A server function with the attributes that matter.  Its return type is  *)
(* absent, a Result of a Vec, another Result, a Result by another name     *)
(* (a type alias, or an import under another name), or any other type.     *)
Functions ==
  [async : BOOLEAN,
   strategy : {"absent", "refetch", "replace", "append", "misspelt"},
   returns : {"nothing", "list", "result", "alias", "value"},
   auth : {"absent", "none", "user", "misspelt"}]

Strategy(f) == IF f.strategy = "absent" THEN "refetch" ELSE f.strategy

(* result_ok_type and return_type_is_result_of_vec, which go by the name:  *)
(* a Result is what is called Result.                                      *)
ReturnsResult(f) == f.returns \in {"list", "result"}
ReturnsList(f) == f.returns = "list"

Compiles(f) ==
  /\ f.async
  /\ f.strategy # "misspelt"
  /\ f.returns # "nothing"
  /\ Strategy(f) = "append" => ReturnsList(f)
  /\ f.auth # "misspelt"

(* The payload of an event is the value that the function returns, without *)
(* its Ok, or one item of its list.                                        *)
Payload(f) ==
  CASE Strategy(f) = "append" -> "item"
    [] f.returns = "value" -> "value"
    [] OTHER -> "ok value"

(* synced_resource reads a payload as the function's own return type.      *)
SyncedResourceOf(f) ==
  [name |-> "synced_resource", reads |-> IF f.returns = "value" THEN "value" ELSE "result"]

(* Faulty variant of HookOf: Replace has one hook for all types.           *)
HookOfStrategy(f) ==
  IF Strategy(f) = "append"
  THEN [name |-> "synced_resource_append", reads |-> "item"]
  ELSE SyncedResourceOf(f)

(* The hook that is called, and as what it reads a payload.                *)
HookOf(f) ==
  CASE Strategy(f) = "append" ->
         [name |-> "synced_resource_append", reads |-> "item"]
    [] Strategy(f) = "replace" /\ ReturnsResult(f) ->
         [name |-> "synced_resource_replace_result", reads |-> "ok value"]
    [] OTHER -> SyncedResourceOf(f)

(* What this comes to on a page: the hook, its strategy, whether the       *)
(* payloads are of the type it reads, and whether the macro knew a Result  *)
(* for one (neither matters to Refetch, which reads no payload).           *)
Hooks ==
  { [name |-> HookOf(f).name, strategy |-> Strategy(f),
     fits |-> Strategy(f) = "refetch" \/ HookOf(f).reads = Payload(f),
     known |-> Strategy(f) = "refetch" \/ f.returns # "alias"] :
    f \in {g \in Functions : Compiles(g)} }
=============================================================================
