--------------------------- MODULE RequestPipeline ---------------------------
(***************************************************************************)
(* The application from map() and use() to the answers of its requests     *)
(* (Include/Engine/WebApplication.hpp,                                     *)
(* Source/Engine/WebApplicationEngine.hpp, Source/Middlewares): run()      *)
(* compiles the router, prebuilds the singletons and completes the chain   *)
(* of middlewares; then each request walks the chain with a runner of its  *)
(* own.                                                                    *)
(*                                                                         *)
(* All next() calls of a request advance the one position of its runner,   *)
(* so a middleware that calls next() twice does not repeat the rest of the *)
(* chain. What the middlewares of the user do is up to them: set routing   *)
(* data, read route parameters, call next() any number of times, throw or  *)
(* catch. The matching of paths is that of module RoutingTree.             *)
(***************************************************************************)
EXTENDS Integers, FiniteSets, Sequences, SequencesExt

CONSTANTS
  Requests,    \* requests handled at the same time
  Users,       \* the user's middlewares
  Endpoints,   \* what map() can create
  Routes,      \* pairs of method and path
  RouteOf,     \* the route of every endpoint
  NoEndpoint,  \* the null pointer
  MaxUses,     \* bound: middlewares added by the user
  MaxNext,     \* bound: calls of next() by one middleware
  MaxRuns      \* bound: calls of run()

Builtin     == {"setup", "router", "endpoints"}
Middlewares == Builtin \union Users

ASSUME KindsAssumption ==
  /\ Users \intersect Builtin = {}
  /\ NoEndpoint \notin Endpoints
  /\ Routes # {}
  /\ RouteOf \in [Endpoints -> Routes]
  /\ MaxUses \in Nat /\ MaxNext \in Nat /\ MaxRuns \in Nat

(* RoutingData: the endpoint, and the endpoint the kept route parameters   *)
(* were made for.                                                          *)
Matches     == Endpoints \union {NoEndpoint}
RoutingData == [set : BOOLEAN, endpoint : Matches, params : {"unread"} \union Matches]
NoData      == [set |-> FALSE, endpoint |-> NoEndpoint, params |-> "unread"]
FreshData   == [NoData EXCEPT !.set = TRUE]

(* A middleware under way and how often it has called next(). *)
Frames == [mw : Middlewares, nexts : Nat]

(* A request: its runner ("calling" while next() is entered), its context  *)
(* (routing data, "accessor" once the context accessor, if there is one    *)
(* among the services, points to it), the number of actions that were run  *)
(* and what the client gets.                                               *)
Contexts ==
  [state : {"idle", "running"}, route : Routes, pos : Nat, calling : BOOLEAN,
   stack : Seq(Frames), data : RoutingData, accessor : BOOLEAN, actions : Nat,
   answer : {"empty", "error"} \union Endpoints]

VARIABLES
  phase,  \* "stopped" or "serving"
  runs,   \* calls of run()
  uses,   \* calls of use(), useRouter() and useEndpoints()
  chain,  \* MiddlewareCreators
  added,  \* endpoints mapped since the router was compiled
  table,  \* endpoints of the compiled router
  req     \* requests

app  == <<phase, runs, uses, chain, added, table>>
vars == <<phase, runs, uses, chain, added, table, req>>

-----------------------------------------------------------------------------
(* The owner of the application configures it while it does not run. *)

Use(m) ==
  /\ phase = "stopped" /\ uses < MaxUses
  /\ uses' = uses + 1
  /\ chain' = Append(chain, m)
  /\ UNCHANGED <<phase, runs, added, table, req>>

Map(e) ==
  /\ phase = "stopped"
  /\ e \notin added \union table
  /\ added' = added \union {e}
  /\ UNCHANGED <<phase, runs, uses, chain, table, req>>

-----------------------------------------------------------------------------
(* run() *)

(* The tree takes one endpoint per route. *)
Compiles == \A d, e \in added : RouteOf[d] = RouteOf[e] => d = e

Ready ==
  /\ phase = "stopped" /\ runs < MaxRuns
  /\ runs' = runs + 1

(* compile() has moved the endpoints out of the router when it throws. *)
CompileThrows ==
  /\ Ready /\ ~Compiles
  /\ added' = {}
  /\ UNCHANGED <<phase, uses, chain, table, req>>

(* The compiled tree replaces the one of an earlier run. *)
Compile ==
  /\ Ready /\ Compiles
  /\ added' = {}
  /\ table' = added

PrebuildThrows ==
  /\ Compile
  /\ UNCHANGED <<phase, uses, chain, req>>

(* checkMiddlewares *)
WithRouter(c)    == IF Contains(c, "router") THEN c ELSE <<"router">> \o c
WithEndpoints(c) == IF Contains(c, "endpoints") THEN c ELSE Append(c, "endpoints")

(* Mutation: the setup middleware is added before the chain is completed. *)
CompleteSetupFirst(c) == WithEndpoints(WithRouter(<<"setup">> \o c))

(* init() of the engine, then useAsFirst(SetupMiddleware). *)
Complete(c) == <<"setup">> \o WithEndpoints(WithRouter(c))

(* A bad URL, or an address that cannot be bound. *)
StartThrows ==
  /\ Compile
  /\ chain' = Complete(chain)
  /\ UNCHANGED <<phase, uses, req>>

Serve ==
  /\ Compile
  /\ chain' = Complete(chain)
  /\ phase' = "serving"
  /\ UNCHANGED <<uses, req>>

(* Mutation: run() returns without waiting for the requests. *)
StopAtOnce ==
  /\ phase = "serving"
  /\ phase' = "stopped"
  /\ UNCHANGED <<runs, uses, chain, added, table, req>>

(* The server's threads are joined. *)
Stop ==
  /\ phase = "serving"
  /\ \A r \in Requests : req[r].state = "idle"
  /\ phase' = "stopped"
  /\ UNCHANGED <<runs, uses, chain, added, table, req>>

-----------------------------------------------------------------------------
(* The runner, the framework's middlewares and the user's, inside next(). *)

Top(r) == Last(req[r].stack)

Idle ==
  [state |-> "idle", route |-> CHOOSE x \in Routes : TRUE, pos |-> 0,
   calling |-> FALSE, stack |-> <<>>, data |-> NoData, accessor |-> FALSE,
   actions |-> 0, answer |-> "empty"]

(* Internal server error. *)
Failed == [Idle EXCEPT !.answer = "error"]

Context(r, x) ==
  [Idle EXCEPT !.state = "running", !.route = x, !.calling = TRUE]

(* handleRequest makes the context, its provider and the runner. *)
Start(r, x) ==
  /\ phase = "serving" /\ req[r].state = "idle"
  /\ req' = [req EXCEPT ![r] = Context(r, x)]
  /\ UNCHANGED app

(* The target of the request is no URL, or its provider cannot be made:    *)
(* handleRequest answers before there is a chain.                          *)
Reject(r) ==
  /\ phase = "serving" /\ req[r].state = "idle"
  /\ req' = [req EXCEPT ![r] = Failed]
  /\ UNCHANGED app

Running(r) == req[r].state = "running"

(* Control is in the body of middleware kind m, which has called next() n  *)
(* times.                                                                  *)
In(r, m) == Running(r) /\ ~req[r].calling /\ req[r].stack # <<>> /\ Top(r).mw = m
InUser(r) == \E m \in Users : In(r, m)

(* Mutation: at the end of the chain next() waits. *)
NextAtEndWaits(r) == Running(r) /\ req[r].calling /\ req[r].pos = Len(chain) /\ UNCHANGED vars

(* Mutation: next() steps on before it looks for the end. *)
NextAtEndAdvances(r) ==
  /\ Running(r) /\ req[r].calling
  /\ req[r].pos >= Len(chain)
  /\ req' = [req EXCEPT ![r].calling = FALSE, ![r].pos = @ + 1]
  /\ UNCHANGED app

(* MiddlewaresRunner::next at the end of the chain just returns. *)
NextAtEnd(r) ==
  /\ Running(r) /\ req[r].calling
  /\ req[r].pos = Len(chain)
  /\ req' = [req EXCEPT ![r].calling = FALSE]
  /\ UNCHANGED app

(* Mutation: the position is that of the calling middleware. *)
EnterDepth(r) ==
  /\ Running(r) /\ req[r].calling
  /\ Len(req[r].stack) < Len(chain)
  /\ req' = [req EXCEPT
       ![r].pos = Len(req[r].stack) + 1,
       ![r].calling = FALSE,
       ![r].stack = Append(@, [mw |-> chain[Len(@) + 1], nexts |-> 0])]
  /\ UNCHANGED app

Enter(r) ==
  /\ Running(r) /\ req[r].calling
  /\ req[r].pos < Len(chain)
  /\ req' = [req EXCEPT
       ![r].pos = @ + 1,
       ![r].calling = FALSE,
       ![r].stack = Append(@, [mw |-> chain[req[r].pos + 1], nexts |-> 0])]
  /\ UNCHANGED app

(* The frame on top calls next(). *)
CallNext(c) ==
  [c EXCEPT !.calling = TRUE, !.stack[Len(c.stack)].nexts = @ + 1]

(* The middleware on top returns to the next() it was called from, the     *)
(* first one to runMiddlewaresChain: then the response is taken.           *)
Left(c) ==
  IF Len(c.stack) = 1 THEN [Idle EXCEPT !.answer = c.answer]
  ELSE [c EXCEPT !.stack = Front(@)]

Leave(r) ==
  /\ req' = [req EXCEPT ![r] = Left(@)]
  /\ UNCHANGED app

(* An exception leaves the middleware on top: a middleware of the user     *)
(* that called next() may catch it, otherwise handleRequest answers with   *)
(* an error.                                                               *)
Thrown(c) ==
  {Failed} \union
  {[c EXCEPT !.stack = SubSeq(@, 1, k)] :
     k \in {j \in 1..(Len(c.stack) - 1) : c.stack[j].mw \in Users}}

Throw(r, c) ==
  /\ \E d \in Thrown(c) : req' = [req EXCEPT ![r] = d]
  /\ UNCHANGED app

(* SetupMiddleware::next *)
Setup(r) ==
  /\ In(r, "setup") /\ Top(r).nexts = 0
  /\ req' = [req EXCEPT ![r] = CallNext([@ EXCEPT !.accessor = TRUE])]
  /\ UNCHANGED app

(* The context accessor of the request cannot be made. *)
SetupThrows(r) == In(r, "setup") /\ Top(r).nexts = 0 /\ Throw(r, req[r])

(* A framework middleware returns after its next(). *)
Unwind(r) ==
  /\ \E m \in Builtin : In(r, m)
  /\ Top(r).nexts > 0
  /\ Leave(r)

(* Router::match *)
Match(x) ==
  IF \E e \in table : RouteOf[e] = x
  THEN CHOOSE e \in table : RouteOf[e] = x
  ELSE NoEndpoint

(* RouterMiddleware::next; without routing data getRequired throws. *)
Route(r) ==
  /\ In(r, "router") /\ Top(r).nexts = 0
  /\ IF req[r].data.set
     THEN /\ req' = [req EXCEPT ![r] =
               CallNext([@ EXCEPT !.data.endpoint = Match(req[r].route)])]
          /\ UNCHANGED app
     ELSE Throw(r, req[r])

(* RoutingData::getRouteParams keeps what it made the first time. *)
Reading(data) ==
  [data EXCEPT !.params = IF @ = "unread" THEN data.endpoint ELSE @]

(* The context once the action has run; "nexts" marks that it has.         *)
Acted(c) ==
  [c EXCEPT !.data = Reading(@), !.actions = @ + 1,
            !.stack[Len(c.stack)].nexts = 1]

AtEndpoints(r) == In(r, "endpoints") /\ Top(r).nexts = 0

(* The action, with its arguments taken from the context, and its result   *)
(* put into the response.                                                  *)
RunAction(r) ==
  /\ AtEndpoints(r)
  /\ req[r].data.endpoint # NoEndpoint
  /\ req' = [req EXCEPT ![r] = [Acted(@) EXCEPT !.answer = req[r].data.endpoint]]
  /\ UNCHANGED app

(* An argument is missing or does not convert, or the action throws.       *)
ActionThrows(r) ==
  /\ AtEndpoints(r)
  /\ req[r].data.endpoint # NoEndpoint
  /\ Throw(r, Acted(req[r]))

(* EndpointsMiddleware::next without endpoint, or without routing data.    *)
NoAction(r) ==
  /\ AtEndpoints(r)
  /\ req[r].data.endpoint = NoEndpoint
  /\ IF req[r].data.set
     THEN /\ req' = [req EXCEPT ![r] = CallNext(@)]
          /\ UNCHANGED app
     ELSE Throw(r, req[r])

-----------------------------------------------------------------------------
(* What a middleware of the user may do. *)

(* Mutation: new routing data takes over the parameters that are kept. *)
SetDataOverParams(r) ==
  /\ InUser(r)
  /\ req' = [req EXCEPT ![r].data =
       [FreshData EXCEPT !.params = IF req[r].data.set THEN req[r].data.params ELSE @]]
  /\ UNCHANGED app

SetData(r) ==
  /\ InUser(r)
  /\ req' = [req EXCEPT ![r].data = FreshData]
  /\ UNCHANGED app

ReadParams(r) ==
  /\ InUser(r)
  /\ IF req[r].data.set
     THEN /\ req' = [req EXCEPT ![r].data = Reading(@)]
          /\ UNCHANGED app
     ELSE Throw(r, req[r])

UserNext(r) ==
  /\ InUser(r) /\ Top(r).nexts < MaxNext
  /\ req' = [req EXCEPT ![r] = CallNext(@)]
  /\ UNCHANGED app

UserThrow(r) == InUser(r) /\ Throw(r, req[r])

UserLeave(r) == InUser(r) /\ Leave(r)

-----------------------------------------------------------------------------
Init ==
  /\ phase = "stopped"
  /\ runs = 0
  /\ uses = 0
  /\ chain = <<>>
  /\ added = {}
  /\ table = {}
  /\ req = [r \in Requests |-> Idle]

Owner ==
  \/ \E m \in Users \union {"router", "endpoints"} : Use(m)
  \/ \E e \in Endpoints : Map(e)
  \/ CompileThrows \/ PrebuildThrows \/ StartThrows \/ Serve \/ Stop

Framework(r) ==
  \/ NextAtEnd(r) \/ Enter(r) \/ Unwind(r)
  \/ Setup(r) \/ SetupThrows(r)
  \/ Route(r) \/ RunAction(r) \/ ActionThrows(r) \/ NoAction(r)

User(r) == SetData(r) \/ ReadParams(r) \/ UserNext(r) \/ UserThrow(r) \/ UserLeave(r)

Next ==
  \/ Owner
  \/ \E r \in Requests : \/ \E x \in Routes : Start(r, x)
                         \/ Reject(r)
                         \/ Framework(r)
                         \/ User(r)

Spec == Init /\ [][Next]_vars

(* A thread of the server runs the framework's part of a request, and the  *)
(* user's middlewares end at some time.                                    *)
FairSpec == Spec /\ \A r \in Requests : WF_vars(Framework(r) \/ UserLeave(r))

-----------------------------------------------------------------------------
TypeOK ==
  /\ phase \in {"stopped", "serving"}
  /\ runs \in 0..MaxRuns
  /\ uses \in 0..MaxUses
  /\ chain \in Seq(Middlewares)
  /\ added \subseteq Endpoints
  /\ table \subseteq Endpoints
  /\ req \in [Requests -> Contexts]
  /\ \A r \in Requests : req[r].pos <= Len(chain)

(* ContextAccessor has no initial value: no code of the user, middleware   *)
(* or action, runs before the setup middleware has set it, in whatever     *)
(* order middlewares were added and however often run() was called.        *)
AccessorReady ==
  \A r \in Requests :
    \/ req[r].accessor
    \/ \A k \in DOMAIN req[r].stack : req[r].stack[k].mw = "setup"

(* However often middlewares call next() and catch what it throws, a       *)
(* request runs an action at most once for each endpoints middleware in    *)
(* the chain: once, if the user adds none or one.                          *)
Endings == {k \in DOMAIN chain : chain[k] = "endpoints"}

OneActionEach == \A r \in Requests : req[r].actions <= Cardinality(Endings)

(* The endpoint in a request's routing data is one of the router: compile, *)
(* which destroys the endpoints of an earlier run, never meets a request.  *)
NoDanglingEndpoint ==
  \A r \in Requests : req[r].data.endpoint \in table \union {NoEndpoint}

(* Route parameters that are kept belong to the endpoint of the request's  *)
(* own route, or there are none because they were read before the router:  *)
(* they are never those of another endpoint or another request.            *)
ParamsAreOwn ==
  \A r \in Requests :
    /\ req[r].data.params \in {"unread", NoEndpoint, req[r].data.endpoint}
    /\ req[r].data.endpoint # NoEndpoint => RouteOf[req[r].data.endpoint] = req[r].route

(* Every request ends, whatever its middlewares call and throw.            *)
Answered == \A r \in Requests : req[r].state = "running" ~> req[r].state = "idle"

-----------------------------------------------------------------------------
(* The application handles its requests as Dispatch promises: each step is *)
(* one of the promise or does not touch what it speaks about. A request's  *)
(* answer and its actions are those of its own route, in the table of the  *)
(* run it came in, one action for each endpoints middleware at most.       *)
Work ==
  [r \in {q \in Requests : Running(q)} |->
     [route |-> req[r].route, acts |-> req[r].actions]]

Reply == [r \in Requests |-> IF Running(r) THEN "empty" ELSE req[r].answer]

Promise ==
  INSTANCE Dispatch
    WITH serving <- (phase = "serving"), turns <- Cardinality(Endings),
         work <- Work, reply <- Reply

Dispatched == Promise!Spec

=============================================================================
