# Formal verification of SevenBitRest

SevenBitRest is a C++ web framework: an application registers services and
endpoints, `run()` starts an HTTP server, and every request passes through a
chain of middlewares that ends in an endpoint. This directory models its core
logic in TLA+, checks the models with TLC and proves the most important
properties with TLAPS. Paths below are relative to the repository.

## 1. Inventory

| component | state | operations | where it is hard |
|---|---|---|---|
| Service provider (`Include/DI/ServiceProvider.hpp`, `ServiceList.hpp`, `ServicesContainer.hpp`, `CircularDependencyGuard.hpp`) | container of singletons shared by all providers, a container and a guard per provider | getService, getServices, createService(s), prebuildSingeletons, createScoped | recursion through user constructors, exceptions half way, requests on several threads share the singletons without a lock |
| Service collection (`Include/DI/ServiceProvider.hpp` 35-309) | map from interface to creators | add, removeAll, merge, lookups | rules between registrations (one scope per interface, no implementation twice) must survive merge |
| Engine (`Source/Engine/WebApplicationEngine.hpp`, `Include/Engine/WebApplication.hpp`, `EngineDependencies.hpp`) | dependencies, middleware creators, server | map, use, init, run, stop, handleRequest | legal calls in an unusual order: run twice, map after run, a run that throws at any of its steps |
| Server (`Source/Engine/BoostBeastServer.hpp`, `CancellationSignals.hpp`) | io context, cancellation slots, sessions, threads | start, stop, accept, read, write, signals | threads, cancellation racing with accept, shutdown |
| Router (`Include/Router/*.hpp`) | tree of routing nodes | addEndpoint, compile, match | backtracking over segments, precedences, equal templates |
| Middleware chain (`Source/Middlewares/*.hpp`, `Include/Middlewares/*.hpp`) | position in the chain | next, router, endpoints, setup | nesting, order, what a middleware leaves out |
| Context (`Source/Engine/Context.hpp`, `RoutingData.hpp`, `ContextAccessor.hpp`) | request, response, provider, routing data | accessors | pieces that nobody sets, route parameters that are kept, an accessor without initial value |
| HTTP types (`Source/Http/*.hpp`) | headers, cookies, query and route parameters | set, get, remove | conversions, what reaches the wire |
| Configuration (`Include/Configuration/*.hpp`) | list of sources, their providers, merged JSON | add, build, reload, writes to entries | which source wins, a reload that fails half way, files that change between two loads |
| Builder and settings (`Include/Engine/WebApplicationBuilder.hpp`, `EnvironmentBuilder.hpp`, `Include/Services/ServerSettingsProvider.hpp`) | options on their way to the engine | build, getSettings | moved-from captures, numeric limits |
| Logging (`Include/Log/*.hpp`) | providers with a level each, the console's mutex | log, setLogLevel | two filters that must agree, threads that write to one console |
| Claims (`Include/Claims/*.hpp`) | list of claims | addClaims, isInRole | lookups of the first match only |

How they interact: `WebApplicationBuilder` fills the service collection and
constructs `EngineDependencies`, which resolves configuration, environment,
logger and settings with the root provider. `WebApplication::run` calls `init`
(compile the router, prebuild all singletons, complete the middleware chain)
and then starts the server. The server's threads call
`WebApplicationEngine::handleRequest`, which creates a context with a scoped
provider and runs the chain of middlewares; the router middleware asks the
router, the endpoints middleware calls the endpoint.

What makes each of them correct:

* provider: one object per singleton, scoped services per request, nothing
  dangling, no race on the shared container, every call ends;
* collection: what the provider assumes of it;
* server: a signal ends `start()`, listeners and sessions can be cancelled, a
  response is lost to a shutdown only;
* router: `match` finds the endpoint of highest precedence that matches, and
  only one that matches;
* chain: every middleware at most once per `next`, the router before the
  endpoints, one response per request;
* configuration: one order of precedence of the sources.

## 2. Plan

| step | modules | question | state |
|---|---|---|---|
| 1 | `ServiceProvider`, `MCServiceProvider`, `ServiceProviderProofs` | recursion, exceptions and threads in service resolution | done |
| 2 | `ServiceCollection`, `ApplicationBuilder`, `MCApplicationBuilder`, `ApplicationBuilderProofs` | what the provider assumes of a collection, through every use of the builder | done |
| 3 | `Server`, `MCServer`, `ServerProofs`, `ServerShutdownProofs` | cancellation, shutdown and threads of the server | done |
| 4 | `SegmentMatchers`, `RoutingTree`, `MCRoutingTree`, `RoutingTreeProofs` | `compile` and `match` against a reference definition of the best match | done |
| 5 | `RequestPipeline`, `MCRequestPipeline`, `RequestPipelineProofs` | legal calls in an unusual order; middlewares that skip, repeat, throw and catch | done |
| 6 | `Configuration` and `Logging`, composed by `Hosting`, `MCHosting`; `HostingProofs` | precedence of sources, a reload that fails half way, numeric limits, log levels, threads at one console | done |
| 7 | `ServiceLifetimes`, implemented by `ServiceProvider`; `ServiceLifetimesProofs` | what the container promises, whoever calls and whatever fails | done |
| 8 | `Dispatch`, implemented by `RequestPipeline`; `RequestPipelineProofs` | what an application promises about its requests, whatever its middlewares do | done |

The order is by how hard the behaviour is to test: recursion with exceptions
and threads first, pure algorithms after it, then the parts that compose them.

Composition: `ApplicationBuilder` uses the operators of `ServiceCollection`
and proves what `ServiceProvider` assumes of a collection; `Hosting` extends
`Configuration` and `Logging` and carries what one loads to the other;
`RoutingTree` extends `SegmentMatchers`; `ServiceProvider` instantiates
`ServiceLifetimes` and `RequestPipeline` instantiates `Dispatch`, the two
abstract specifications. `RequestPipeline` uses of the router only that a compiled
set of endpoints answers each route by one endpoint, which is what the run
`router` checks, and of the server only that `run()` joins its threads.

No module has recursive operators, so that each can be proved about: the
provider's recursion through constructors is a stack in a variable, the router's
recursion down the tree a recursive function, and configurations
that a run varies (service collections, URLs and threads) are sets among the
CONSTANTS from which `Init` picks one, so that a theorem speaks of all of them.

## 3. How the modules correspond to the code

### ServiceProvider

`ServiceProvider.tla` is `Include/DI/ServiceProvider.hpp` 311-548 with the
containers and the guard, over the life of an application.

| model | code |
|---|---|
| `reg` | the `ServiceCollection`, const once the provider exists; `deps` is what constructors ask the provider for |
| `store[c][i]` | `ServiceContainer` of the singletons (`Singletons`, shared by all providers) and of each provider: a `ServiceList` with its `sealed` flag |
| `guard[p]` | `CircularDependencyGuard` of a provider |
| `stack[p]` | the C++ call stack: a frame per `getService`, `createService`, ... in progress with the creators it still has to run, the arguments not resolved yet, and the pointers received |
| `Hit`, `Absent`, `Refuse`, `Call` | the four ways a call begins: answered from a container, unknown interface, `getRequiredService` without a result, construction |
| `BeginHolder`, `Circular`, `FinishHolder`, `FailHolder` | `createHolder` 512-523 with the scoped guard: enter, throw on a cycle, return a service, constructor throws |
| `Return` | the end of `createAndRegister(All)`, `createUnique`, `createAllUnique` and `seal` |
| `Raise` | stack unwinding: releases the guards, undoes nothing else, may be caught by a factory on the way |
| `phase`, `pending`, `Built`, `Run`, `Serve`, `Stop` | `EngineDependencies`' constructor and `WebApplicationEngine::init` / `run` |
| `StartRequest`, `FinishRequest` | `createScoped` and the end of `handleRequest`, where the scoped provider goes |

One step is one entry into, or exit from, a constructor; requests interleave at
every one of them, which is what unlocked containers and several threads allow.
A service is a record of its implementation and of the pointers it was given:
that is what the properties tell apart. The typed templates in front (casts and
`IServiceHolder`) are not represented.

### ServiceCollection and ApplicationBuilder

`ServiceCollection.tla` has the operations (`Add`, `RemoveAll`, `Merge` with
what it leaves behind) as operators on a function from interface to a sequence
of creators; `ApplicationBuilder.tla` is the state machine that uses them: the
user's registrations in the builder's two collections (`Register`,
`Unregister`, each of which may be refused with an exception that the caller
survives), `build()` statement by statement (`Build`, `RegisterDefault`,
`MergeLogging`, `ConstructEngine`), and the exceptions it may end in. `left` are
the objects that have been moved out of the builder into a factory.
The console log provider is registered when the builder is made, the framework's
four services in `build()`, after the user's.

`direct` remembers which interfaces were among the services when `build()` was
called: `Merge` leaves log providers of these behind, and only of these (and of
the three interfaces that `build()` registers before it merges). `MainIsNewest`
and `AllArrive` say so of a built application.

What links the two parts is `BuiltForProvider`: the collection an application is
built with meets, clause by clause, what `ServiceProvider`'s
`CollectionsAssumption` asks for. One clause is left to the user: `add` would let
through a registration for the provider's own type, which nothing could resolve
any more, and the theorem assumes that there is none.

### Server

`Server.tla` is `BoostBeastServer.hpp` with `CancellationSignals.hpp`.

| model | code |
|---|---|
| `setup` | URLs and `threadsNumber` given to the server; the bounds on clients and calls of `stop()` |
| `Launch`, `TakeSlot(Main)`, `Spawn(Main)`, `Serve` | `start()` up to `run()` on the pool of threads |
| `LaunchThrows` | a bad address or certificate: `start()` throws between two launches, and the io_context goes with the listeners it has |
| `Listen`, `Loop`, `Accept`, `TakeSlot`, `Spawn` | `listen()`: the loop around `async_accept` and `co_spawn` |
| `Proceed`, `Respond` | `detectSession()` and `runSession()` between their operations |
| `Emit`, `emission` | `CancellationSignals::emit`, one signal at a time with the mutex held |
| `TakeSlot`, `SlotFor` | `CancellationSignals::slot`: the first slot without handler, or a new one; the mutex is released before `co_spawn` fills it |
| `Raise`, `HandleSignal` | the one `async_wait` of the signal set: it receives the first signal, and a later one is `raised` without effect |
| `Return` | `ioc.run()` returns on every thread; the wait for a signal keeps it from doing so until the handler has run, whatever `stop()` does |

External, and modelled from how the code uses it: Boost.Asio. A coroutine is
resumed by a free thread (`Resume`) and keeps it until it suspends; starting an
operation takes two steps (`Await`, `Suspend`), because another thread may run
between the look at the cancellation state and the operation being under way;
a cancellation emitted on a pool thread acts at once, one from another thread
is posted (`co_spawn`'s handler dispatches to the io_context); a handler that is
emplaced in a taken slot destroys the one before, after which what the older
coroutine reads of its cancellation state is arbitrary (`Seen`).

### SegmentMatchers and RoutingTree

`SegmentMatchers.tla` has the kinds of segments with their precedence
(`Precedence`), what each matches (`Matches`), how segments are compared
(`Same`: a parameter's name does not count) and which arguments a constraint
may have (`WellFormed`). A segment of a path is given by what the matchers see
of it: which conversions accept it and what `stoi` makes of it, which accept any
text that begins with a number.

`RoutingTree.tla` is `RoutingTree.hpp` with `RoutingNode.hpp`: `endpoints` is
`_endpoints`, `root` is `_root`; `AddEndpoint` is `add`, `Compile` is `compile`
(`CreateRoutingNodes` makes a node per distinct beginning of a template,
`AlreadyRegistered` is the repeated route, `SortByPrecedence` the sort), `Match`
and `GetMatching` the search. A node is named by the segments on the way to it
from the root; the tree says which endpoints a node has, which children, and
which of two children comes first. The search is a recursive function on the
nodes that the path is long enough for. `Orders` are the orders in which the
hash map and the unstable sort may leave siblings of one precedence.

### ServiceLifetimes

The abstract specification of the provider: containers with a list of services
per interface, made one at a time (`Make`) and closed when every registration
has one (`Complete`); a server that begins when the singletons are complete and
ends without open requests; requests that open and close. It knows no calls, no
constructors, no stack and no exceptions: a call that fails half way is a few
`Make` steps and nothing else. `ServiceProvider` maps to it by

| ServiceLifetimes | ServiceProvider |
|---|---|
| `made[c][i]` | the implementations of `store[c][i].list` |
| `final[c][i]` | `store[c][i].sealed` |
| `serving` | the application runs |
| `open` | the requests whose provider is live |

with `Shared` the singletons' container and `Owner` the root provider's. It
keeps out of the promise what the code does not keep: that a list has no
implementation twice (see the run `retry`).

### RequestPipeline

| model | code |
|---|---|
| `chain`, `Use` | `MiddlewareCreators`, filled by `use`, `useRouter`, `useEndpoints` (`WebApplication.hpp`) |
| `added`, `Map` | `mapGet` and its kin, `Router::addEndpoint` |
| `CompileThrows`, `PrebuildThrows`, `StartThrows`, `Serve`, `Stop` | `run()`: `init` with the router's `compile`, `prebuildSingeletons` and `checkMiddlewares` (`Complete`), `useAsFirst(SetupMiddleware)`, `start` of the server, and where it may throw |
| `Start`, `Reject` | `handleRequest` with a context and a runner, or its early answer |
| `pos`, `calling`, `stack` | `MiddlewaresRunner`'s position, which all `next()` calls share, and the C++ stack of middlewares |
| `Setup`, `SetupThrows`, `Route`, `RunAction`, `ActionThrows`, `NoAction` | the framework's three middlewares; making the context accessor may throw |
| `data`, `Reading` | `RoutingData`, with the route parameters made at the first look and kept |
| `Throw`, `Thrown` | the exception goes to a middleware that catches or to `handleRequest` |
| `SetData`, `ReadParams`, `UserNext`, `UserThrow`, `UserLeave` | what a middleware of the user may do, in any order |

### Dispatch

The abstract specification of the pipeline: an application that is set up
(`Configure`, `Open`), serves and ends (`Close`), and requests that begin, run
actions of endpoints of their own route, and end with one answer. It knows no
chain, no middlewares, no routing data and no exceptions: whatever those do
to a request shows only in how many of its turns it uses and in which of the
three answers it ends with. `RequestPipeline` maps to it by

| Dispatch | RequestPipeline |
|---|---|
| `serving` | `run()` has started the server |
| `table` | the endpoints that the router's compiled tree answers with |
| `turns` | the endpoints middlewares in the chain |
| `work[r]` | the route of a request in progress and the actions it has run |
| `reply[r]` | its answer once it has ended; "empty" while it is in progress |

`Act` asks that an endpoint of the request's own route answers, so an action
that some other request's routing data led to would not be a step of it; an
`End` with an endpoint's answer asks that the request ran an action.

### Configuration, Logging and Hosting

`Configuration.tla` is `EnvironmentBuilder.hpp` (`StartName`) and
`Include/Configuration`: `AddSource` for the sources' list, `Build` and `Reload`
of `ConfigurationManager`, then one step per provider (`LoadNext`,
`LoadThrows`), between which files may change (`EditFile`). `MergeMaps` is
`std::map::merge`, which keeps what is there. What variables whose keys clash
(`a` and `a:b`) do depends on the order of a hash map and is a choice. `Assign`
is what a user does with the references that `operator[]`, `at`, `find` and
`root` hand out; `direct` are the keys written that way since the configuration
was last cleared, of which the order of sources says nothing.

`Logging.tla` is `Logger::log` with `LogProviderBase` and
`ConsoleLogProvider::logImpl`: `Log` is the logger's own filter, `Skip`, `Write`,
`WriteWhole`, `Lock` a provider's, and the console writes a message in four
pieces, each a `<<` that is taken to be atomic.

`Hosting.tla` composes them over a start: while the application is set up the
configuration changes; `BuildApplication` is what `EngineDependencies` resolves
from it once, the settings (`ServerSettingsProvider.hpp`, with the widths of its
conversions) and the log levels; then threads log. `Run` and `BuildFails` forget
the configuration (`Forget`), which nothing reads any more: an abstraction that
keeps the state space a sum rather than a product, and loses only properties
that compare the two phases.

## 4. The runs

| run | configuration | what it shows |
|---|---|---|
| `provider` | `MCServiceProvider.cfg` | two concurrent requests, four collections (pointers across scopes; a service asking for all of its own interface; a cycle through three scopes; refused calls), three implementations that may throw, two factories that may catch, two exceptions per provider: guard exact, no dangling pointer, main service first, sealed lists complete, services in their scope's container, singletons untouched while serving, and every step one that `ServiceLifetimes` allows |
| `every_registration` | `MCEveryRegistration.cfg` | 200 collections, every dependency pattern of four services, every call of the API by one request, one factory that may catch, under fairness: lists without repetitions unless something threw, caught or not; every call ends; `run()` gets past prebuilding |
| `captive` | `MCCaptive.cfg` | **violated**: "Scoped services are ... different across different requests" (`Docs/DependencyInjection.md:9`) fails through a singleton that holds a scoped service |
| `retry` | `MCRetry.cfg` | **violated**: "Singleton services are the same for every object" (`Docs/DependencyInjection.md:7`) fails after a `getServices` that threw half way and was called again |
| `builder` | `MCApplicationBuilder.cfg` | all sequences of up to five registrations, and removals, in both collections, around any number of builds: collections stay well formed, a built application has the framework's services with their objects and was built by a builder whose `build()` never threw, the newest registration answers in it, log providers stay behind only where a service of their interface was there first, and `build()` loses no registration |
| `server` | `MCServer.cfg` | two http listeners on two threads and on one, one listener with `stop()` called by a user or an endpoint, an https listener with two sessions or with `stop()`, each with both signals in either order and a launch that throws: who can be cancelled, what SIGINT reaches, which responses are lost |
| `server_live` | `MCServerLive.cfg` | shutdown as liveness: one thread with one listener, a client and two calls of `stop()`; one thread with two listeners and a `stop()` that may come while only one is launched; two threads with a client. On one thread a signal ends `start()`, also a second one, and `stop()` ends every listener it finds; a first SIGTERM always ends `start()` |
| `server_lost_cancel` | `MCLostCancel.cfg` | **violated**: "Capture SIGINT and SIGTERM to perform a clean shutdown" (`BoostBeastServer.hpp:112`) fails on two threads: SIGINT arrives between a listener's check and its accept and is lost, and the SIGTERM that follows has nobody to receive it |
| `router` | `MCRoutingTree.cfg` | every set of up to three routes of two menus (two segments with dead ends and equal precedences, two methods; one segment of every kind), compiled once or repeatedly: every path gets the answer that the definition of the best endpoint gives, and no two endpoints of a compiled tree have one route |
| `pipeline` | `MCRequestPipeline.cfg` | up to three calls of `use`, `useRouter` and `useEndpoints` in every order, three endpoints of two routes, three calls of `run()` that may throw at every step, and every walk of a request whose middlewares call `next()` up to twice, throw, catch, set routing data and read parameters: accessor set, endpoint alive, parameters its own, every step one that `Dispatch` allows, and an end |
| `hello_world` | `MCHelloWorld.cfg` | **violated**: the application of the README (`README.md`, "hello world") answers its mapped route with an internal server error, since nothing makes the routing data that `RouterMiddleware.hpp:30` asks for |
| `hosting` | `MCHosting.cfg` | two environments, all sources of names and settings, one source of the user's, two loads, a file that changes or breaks at any moment and an entry written past the sources; then settings, levels and two threads that log: the first source wins also half way through a failed reload, numbers of threads survive 16 bits, messages reach exactly the providers that want them, lines stay whole and `log()` returns |

### Bounds and why they are enough

* Two requests: they meet only in the container of singletons, and a third
  does nothing to it that two do not; that it is not written at all is proved
  for any number.
* Two or three implementations per interface: the special cases are the main
  one, one that follows it and one in the middle of a list when an exception
  leaves it half filled.
* `MaxThrows` is the number of exceptions, caught by a factory or not, after
  which a provider's user makes no further call (two: one call that fails and a
  repeated one that fails again). A call in progress is not cut short.
* `MaxAdds = 5` in the builder: enough to refuse a scope, refuse a repeated
  implementation, replace a framework service and collide in merge, all in
  one behaviour.
* Two listeners, two sessions and two threads: a race for a slot takes two
  spawners; one thread (`threadsNumber` 0 or 1, both mean one) removes every
  race, and several properties hold exactly there. The sets of `Setups` name
  each combination.
* One call of `stop()` in the safety run and two in the liveness run, of the user
  and of an endpoint, which are different threads to Asio. Each signal once: of
  three signals the last two are the same to a wait that receives the first.
* Three routes of up to two segments: one that answers, a better one that is a
  dead end and a third that ties with either; two orders, which are each
  other's reverse, for the ties. Six segments of paths, one for each way in
  which the conversions disagree (`7`, `12ab`, `1e99`, `true`, `bob`, empty).
* One request in `pipeline`: requests share the chain and the table, which
  are constant while any is handled, and nothing else. Three uses and three
  runs: a router before, after and instead of the user's middleware, a chain
  completed once and then extended, and a run that throws between two that
  serve. Two calls of `next()`: one that runs the rest of the chain and one
  that finds it run.
* One edit of a file and two loads in `hosting`: a reload that sees another
  file than the one before it, or half of each. Values are at the edges of
  `stoi` and 16 bits (-1, 0, 65537) and one of every JSON kind. One value that
  may be written directly is enough to see it survive a load or not.
* Symmetry is used in runs without liveness properties only.

Deadlock is checked for the server. The others really stop (a failed
construction, a built application, no call or message any more), so their
configurations say so.

### Fairness

* Provider: `WF` on each provider's own steps and on the main thread's loop,
  that is, threads go on and constructors return. Nothing obliges clients or the
  application's owner to call anything.
* Server: `WF` on the steps of running coroutines (handlers return), on `Emit`,
  `Return` and the launching thread. `SF` on `Resume`, `DeliverPosted` and
  `HandleSignal`: the queue of an io_context is first in, first out, so what is
  ready gets a thread although threads are taken and released all the time.
  `WF` on a session's operation failing: `expires_after(30s)` ends each.
  Accepts have no timeout and clients need not connect, so no fairness there.
* Pipeline: `WF` on the framework's part of a request and on the return of a
  middleware of the user's; nobody has to call `next()`.
* Logging: `WF` on a thread's step in `log()`. A `std::mutex` does not promise
  more to a thread that waits for it; as each thread logs a bounded number of
  messages, the others cannot take it again forever.

## 5. What is proved

All theorems hold for every value of the constants under the assumptions each
module names.

* `ServiceProviderProofs`. `TypeCorrect` and `GuardIsExact` go through the
  shape of the stack: frames have creators left while they construct, and
  the guard equals the set of heads under construction, an equality that the
  unwinding in `Raise` restores for every catching frame. `PlacedByScope` needs
  that a frame of a getter only exists for the scope that it registers in.
  `FrozenSingletons` is the deepest: no step of a serving application can
  construct for an interface of singleton scope. Its invariant `FInv` says what
  a frame can be (`FramesOK`: a request never has one that makes singletons),
  where services are (`Placed`), that requests run only while the server does
  and the main thread only while it does not (`Idle`), and that prebuilding
  leaves no singleton out (`Loop`: each is still to come, being made, or
  complete and sealed, so that every request is answered from the container).
* `ServiceLifetimesProofs`. `MainFirst`, `SealedComplete` and the refinement
  `KeepsLifetimes` rest on `LInv`, which says of every call in progress what it
  still has to do for the list it works on (`WorksOK`) and of every list what it
  holds and when it is sealed (`ListsOK`): a list is not sealed while a call
  for it is open; the main service is made by a list's first creator
  exactly while the list is empty; what a `getServices` has not made yet is in
  its todo. The hard case is a nested call for the list that an outer call is
  filling: the outer constructor is still in the nested call's todo, so the
  guard ends the nested call before it can seal. `KeepsLifetimes` then maps
  each step to `Make`, `Complete`, the server's or a request's beginning or
  end, or to a stutter.
  `NothingDangles`, in the same module: a pointer leads to the shared
  container or to its holder's own (`Held`, `Owned`), a singleton is made by
  the root only, and a request that is over keeps nothing (`Gone`). So as
  long as the application lives, what a singleton holds lives too, also when it
  is a scoped service: the run `captive` shows what that costs. (The statement
  ends with the last run: when `EngineDependencies` is destroyed, the root
  provider goes before the shared singletons; see section 6.) `ScopedApart`
  says when sharing cannot happen: if some set of implementations holds those of all singletons, asks for no
  scoped service and is closed under the transients it asks for
  (`NoCaptives`, a condition on the collection alone), no two requests reach one
  scoped service. Its invariant (`CInv`) says that singletons hold no scoped
  service, and that a frame which makes a member of that set has been given none
  and asks for none, directly or through the transients below it on the stack.
  `MadeOnce` needs what a call has still to make: while one call works on a
  list, nothing in its todo is in the list already, and an unsealed list
  that no call works on has at most its main service. Nothing is claimed of a
  list that several calls work on. The inner ones ask for what the outer one is
  constructing, so the guard ends them with an exception, and from then on the
  property asks nothing. That is why its counter has to count caught exceptions
  too: with a factory that catches the guard's exception, a list may get an
  implementation twice although no user ever saw one.
  `RecursionBounded` is a count: every frame but the topmost constructs an
  implementation and the guard has each of them once (`GuardIsExact`), so the
  stack maps one to one into the implementations.
* `ApplicationBuilderProofs`. `AlwaysWellFormed` by one lemma per operation of
  the collection (an accepted creator keeps its entry good, a merge keeps or
  moves whole entries). `FailedBuildIsFinal` needs to know how far a build that
  threw came (`Control`) and what it gave away (`Emptied`). `NewestIsMain` and
  `LogProvidersArrive` need that registrations are numbered in order in each list
  and never beyond the counter (`OInv`), which interfaces are known
  at the merge and so may stay behind (`Arrive`), and that each framework service
  is newer, from its registration on, than all log providers (`Beats`). `Defaults` needs that at each step of `build()` the framework's
  services registered so far are the last of their lists (`Defaulted`), and
  `LosesNothing` is about a merge as a map of whole entries. `BuiltForProvider`
  combines them: it is about every collection an application was built with, and
  needs that only interfaces somebody offered are in it (`OnlyOffered`).
* `ServerProofs`. `ListenersKeepSlots` is about slots that are taken and not
  yet filled: `Taken` (such a slot holds no listener), `NothingRuns` and
  `MainDone` (listeners are all spawned before a pool thread runs, and by one
  thread), `Children` and `OneParent` (a spawner's child has not begun and is
  nobody else's). Without them the step that fills a slot could overwrite a
  listener. The type invariant comes with it.
* `ServerShutdownProofs`. `EveryoneReachable` and `OnlyStoppersDrop` are about
  who runs at the same time. On one thread one coroutine runs, and none while
  the signal handler emits (`OneRuns`, from the number of busy threads); a
  spawner with a slot runs until it has filled it (`SpawnerRuns`). With one URL,
  or one thread, nobody else can therefore take a slot meanwhile (`TakenFree`),
  and nobody loses one. For responses, a session that handles its request runs
  (`Handling`), so that on one thread only its own `stop()` can cancel it; and
  before a shutdown is asked for nobody who can be reached is cancelled at all.
  `InterruptReaches` follows the emission slot by slot. A listener that is not
  cancelled holds a slot that is still to come (`ToCome`). A session is missed
  when the emission has passed its slot; what is bounded is the number of missed
  sessions plus the number of listeners that may still spawn (`Accepting`), since
  a cancelled listener goes from one to the other at most once. Nobody is missed
  while a listener is not cancelled: on one thread nothing runs during the
  emission, and a single listener has the first slot (`FirstSlot`), which is
  emitted first.
* `RoutingTreeProofs`. The invariant says that the tree is the one of the
  compiled endpoints in some order and that no node has two endpoints of one
  method. `BestEndpointAnswers` is about a recursive function, whose equation
  has to be proved before it can be used (`Searchable`): for each depth, counted
  from the end of the path, there is a function that is right from there on,
  since a step of the search only uses the answers of the children. What the
  search answers at a node is proved the same way (`SearchIsBest`): the best of
  the endpoints below it whose remaining segments match. Three facts carry the
  step: the endpoints below a node are those below its children
  (`BelowChildren`), of any children one comes before the others
  (`FirstIsBefore`, from least elements of sets of numbers), and endpoints below
  different children part at the children's segments (`FirstOutranks`).
  `RoutesAreUnique` follows from the invariant: endpoints with the same segments
  end at the same node.
* `RequestPipelineProofs`. One predicate on a request, the chain and the table
  of endpoints, `Sound`, is kept by every step of a request, while the
  application changes chain and table only between requests (`AppOK`). It says
  that the position in the chain is ahead of every frame on the stack, that
  whatever runs behind `setup` has the accessor set, that each action was
  paid for by an endpoints middleware the position has passed (its frame has
  called nothing before it acts and not after), and that kept
  parameters belong to the endpoint of the request's own route.
  `KeepsPromise` is the refinement of `Dispatch`. Of each of the request's steps
  one lemma says what an onlooker sees of it (`Effect`: it runs an action, ends
  the request, or neither). That an action is of the own route and within the
  turns comes from `Sound`; that an answer was made by an action the request
  ran, and is still one of the table's, is an invariant of its own (`AnswersOK`).
* `HostingProofs`. `EarlierSourceWins` is inductive with the types of the
  configuration, one lemma per step: a load adds only keys that no source
  before it had, an edit of a file between two loads changes nothing that was
  read. `MessagesArrive` needs what each provider has of a message that is still
  on its way: of the last message of a thread exactly the providers the thread
  has passed have it (`Received`), and nothing was logged before the levels were
  set (`Silent`). `LinesStayWhole` rests on who may hold the console's lock
  (`Locked`, `Calling`) and on `Unbroken`: since a message's first piece nothing
  but whole messages, written without the lock, came between. `SettingsCorrect`
  is arithmetic on 16 bits; the number of the hardware's threads is assumed to
  fit them.

Only model-checked:

* every liveness property (`CallsReturn`, `PrebuildEnds`, `OneThreadShutdown`,
  `StopEndsListening`, `SigtermReturns`, `Answered`, `LogReturns`), which the
  prover does not reach. `RecursionBounded`, and that a runner's position is
  ahead of all its frames and never passes the end of the chain (`TypeCorrect`
  and `Sound` of the pipeline), are parts of their arguments that are safety
  and are proved.

The statements that a run shows to be violated are false of the code, so
nothing is left to prove of them but when they hold (`ScopedApart`,
`MadeOnce`).

## 6. What the models show about the code

Besides the four violated statements above, two of which hold under a condition
on the application that is proved: scoped services differ per request if no
singleton reaches one through transients (`ScopedApart`), and no service is made
twice while nothing throws (`MadeOnce`):

Services and builder

* `merge` leaves the entry of an interface that is known where it is: a user
  who registers one `ILogProvider` among the services silently loses the
  console provider and every other one of the logging builder, newer ones too.
  This is the one way to lose them (`LogProvidersArrive`).
* The framework's services are registered after the user's and are the main
  ones, so a replacement for `ILogger` or `IConfiguration` is never resolved by
  `getService`.
* `build()` is not repeatable: a build that threw has given the environment
  away, and a second one after a success works on a collection that has been
  moved from (`WebApplicationBuilder.hpp:74`).
* A singleton that holds a scoped service outlives it at the very end:
  `EngineDependencies` (lines 16-17) destroys the root provider, which owns the
  scoped ones it made, before the container of singletons.
* `ServiceProvider.hpp:260` throws a pointer to an exception, which no
  handler of `std::exception` catches.
* `remove<I, T>` and `contains<I, T>` of the collection do not compile when
  instantiated and are not modelled.

Server

* `stop()` ends listeners and sessions and does not end `start()`, which still
  waits for a signal. An endpoint that calls it loses its own response; on one
  thread nobody else does (proved). A signal or `stop()` also cuts off writes
  that are under way: what is proved is that they are begun.
* The wait for a signal is over after the first. A SIGTERM after a SIGINT that
  has not ended every coroutine does nothing; on one thread it need not, since
  the first one ends them all.
* Two listeners on two threads may get the same cancellation slot for their
  sessions; the session that loses cannot be cancelled. Listeners themselves
  are safe (proved), and so is everybody with one URL or on one thread (proved).
  This is why `ShutdownReaches` bounds the sessions that SIGINT misses only
  there: elsewhere a session that lost its slot may come on top of each
  listener's last one.
* The comment "We dont't need a strand, since the awaitable is an implicit
  strand" (`BoostBeastServer.hpp:163`) holds for a coroutine's own steps, not
  for the signal handler, which sets the cancellation state of coroutines that
  run on other threads. The lost cancellation is one effect.

Router and pipeline

* A literal template always wins over constraints, and the search comes back
  from dead ends. Among equal precedences (two ranges that overlap) the answer
  depends on the hash map, and then a worse second segment may win.
* The precedences put `bool`, `float` and `double` before `int`, and each of
  the three accepts every text that `int` does (`bool` because it falls back to
  `stoi`): beside one of them at the same place an `int` template answers only
  where that one leads nowhere.
* `compile()` moves the list away before it can throw: after
  `EndpointAlreadyRegistered` the registered endpoints are gone.
* A second `run()` puts another setup middleware in front and compiles a table
  of the endpoints mapped since the first, which replaces the old one. What is
  passed to `use` after a first run goes behind the endpoints middleware that
  the first run added, where requests come only if no endpoint matched.
* `mapPut`, `mapPatch`, `mapPost`, `mapDelete` and `mapHead` do not compile when
  instantiated; the model maps by method all the same.

Configuration and logging

* Nothing calls `ConfigurationManager::build()` or `reload()` unless the user
  does in `configureAppConfiguration`: an application that does not has an
  empty configuration, without command line and environment.
* The file `appsettings.json` wins over `appsettings.<environment>.json`, and an
  earlier source over a later one; `EnvironmentBuilder` has it the other way
  round. The name of the environment is copied when the builder is made
  (`WebApplicationBuilder.hpp:167`): a later `useEnvironment()` loads the file
  of the old one.
* Numbers in a file: the JSON parser makes integers that are not negative
  unsigned, and the settings read a signed one, so `"threadsNumber": 4` in a
  file throws where the same on the command line does not. What is read is cut
  to 16 bits: -1 becomes 65535 threads, 65536 none (the hardware's number), and
  65537 one.
* An array of URLs throws unless it is empty: the loop reads the array and not
  its element (`ServerSettingsProvider.hpp:68-71`).
* The console's mutex guards messages above the debug level only
  (`ConsoleLogProvider.hpp`); a level whose name is not known means no logging.

## 7. Not modelled

* Vendored code (`Include/tao`, `BoostExtensions.hpp`), the built-in certificate
  and the TLS engine: not this framework's logic. Boost.Asio and Beast are
  external and modelled as far as the server relies on them.
* Constructor reflection: compile time only. Its result, which services a
  constructor asks for, is `deps` of the provider.
* Websocket sessions and `Task`: nothing calls them.
* Endpoint parameters, HTTP messages, claims, data containers, results and
  utilities: each is a sequential conversion or lookup that unit tests
  reach; they keep no state that two steps share. Two things noticed on the
  way: `Headders.build()` is never called, so headers that middlewares or results
  set never reach the native response, and `Headders::remove` answers false when
  it removes the last value.
* The destruction of an application: the model's life ends with its last run.
* The lists that `ConfigurationManager::getSources` and `getProviders` hand out,
  changed by hand.
* Formatting and parsing of single values, outside the conversions that
  settings and segment matchers depend on.
* The 30 seconds of a session as time (a session's operation may fail at any
  moment instead), and a second `start()` of one server, whose behaviour the
  code leaves undefined.

`PROJECT.json` lists each component with its status, and the hazards of the
code with the properties that are about them.
