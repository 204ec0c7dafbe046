------------------------------ MODULE Dispatch ------------------------------
(***************************************************************************)
(* What an application promises about its requests, whatever middlewares   *)
(* it has and in which order, and whatever they skip, repeat, throw and    *)
(* catch: a request runs only actions of its own route, each at most as    *)
(* often as the application is set up for, and is answered once, with an   *)
(* error, with nothing, or with what such an action made. Neither the      *)
(* endpoints nor the number of actions change while requests are handled.  *)
(***************************************************************************)
EXTENDS Naturals

CONSTANTS
  Requests,  \* requests handled at the same time
  Endpoints, \* what can be mapped
  Routes,    \* pairs of method and path
  RouteOf    \* the route of every endpoint

VARIABLES
  serving,  \* requests may be handled
  table,    \* endpoints that answer, one per route
  turns,    \* actions that one request may run
  work,     \* route and number of actions of every request being handled
  reply     \* what each request was answered, "empty" from its beginning on

vars == <<serving, table, turns, work, reply>>

(* The application is set up, or set up again after it has run. *)
SetUp ==
  /\ ~serving
  /\ table' \in SUBSET Endpoints
  /\ \A d, e \in table' : RouteOf[d] = RouteOf[e] => d = e
  /\ turns' \in Nat
  /\ UNCHANGED <<work, reply>>

Configure == SetUp /\ serving' = serving
Open      == SetUp /\ serving' = TRUE

Close ==
  /\ serving /\ work = <<>>
  /\ serving' = FALSE
  /\ UNCHANGED <<table, turns, work, reply>>

Begin(r, x) ==
  /\ serving /\ r \notin DOMAIN work
  /\ work' = [q \in DOMAIN work \union {r} |->
                IF q = r THEN [route |-> x, acts |-> 0] ELSE work[q]]
  /\ reply' = [reply EXCEPT ![r] = "empty"]
  /\ UNCHANGED <<serving, table, turns>>

(* A request that is none, or that nothing could be made for. *)
Reject(r) ==
  /\ serving /\ r \notin DOMAIN work
  /\ reply' = [reply EXCEPT ![r] = "error"]
  /\ UNCHANGED <<serving, table, turns, work>>

Answering(x) == {e \in table : RouteOf[e] = x}

(* An action of the request's own route. *)
Act(r) ==
  /\ r \in DOMAIN work
  /\ Answering(work[r].route) # {}
  /\ work[r].acts < turns
  /\ work' = [work EXCEPT ![r].acts = @ + 1]
  /\ UNCHANGED <<serving, table, turns, reply>>

Replies(r) ==
  {"empty", "error"} \union IF work[r].acts > 0 THEN Answering(work[r].route) ELSE {}

End(r) ==
  /\ r \in DOMAIN work
  /\ \E a \in Replies(r) : reply' = [reply EXCEPT ![r] = a]
  /\ work' = [q \in DOMAIN work \ {r} |-> work[q]]
  /\ UNCHANGED <<serving, table, turns>>

Init ==
  /\ serving = FALSE
  /\ table = {}
  /\ turns = 0
  /\ work = <<>>
  /\ reply = [r \in Requests |-> "empty"]

Next ==
  \/ Configure \/ Open \/ Close
  \/ \E r \in Requests : \/ \E x \in Routes : Begin(r, x)
                         \/ Reject(r) \/ Act(r) \/ End(r)

Spec == Init /\ [][Next]_vars
=============================================================================
