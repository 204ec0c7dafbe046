-------------------------- MODULE ServiceProvider --------------------------
(***************************************************************************)
(* Service resolution of the dependency injection container               *)
(* (Include/DI/ServiceProvider.hpp) over the life of an application: the   *)
(* root provider resolves the engine's dependencies, run() prebuilds every *)
(* singleton, and while the server runs each request resolves services     *)
(* with a provider of its own.                                             *)
(*                                                                         *)
(* The recursion of the code (a constructor asks the provider for its      *)
(* arguments, which constructs them, ...) is an explicit stack of frames   *)
(* per provider, so that constructions of concurrent requests interleave   *)
(* step by step on the unlocked container of singletons they share.        *)
(***************************************************************************)
EXTENDS Integers, Sequences, SequencesExt

CONSTANTS
  Root,          \* the provider owned by EngineDependencies
  Requests,      \* requests being handled, each owns a scoped provider
  Singletons,    \* the container of singletons that every provider shares
  Interfaces,    \* type ids services are asked by
  SelfType,      \* typeid(ServiceProvider)
  Impls,         \* implementation types
  Faulty,        \* implementations whose constructor or factory may throw
  Factories,     \* implementations made by a factory function: user code that
                 \* may also throw early or catch what its own calls throw
  Registrations, \* the service collections an application is built from
  Bootstrap,     \* interfaces that EngineDependencies resolves
  UserCalls,     \* calls that handlers and middlewares make
  MaxThrows      \* bound: exceptions of one provider until its user makes no more calls

Providers  == {Root} \union Requests
Containers == {Singletons} \union Providers
Scopes     == {"singleton", "scoped", "transient"}

Gets    == {"getService", "getRequiredService", "getServices"}
Creates == {"createService", "createServices"}
Calls   == [op : Gets \union Creates, iface : Interfaces]

(* A pointer handed out by a provider: to the services of an interface in  *)
(* one container, or (SelfType) to the provider itself.                    *)
Refs == [container : Containers, iface : Interfaces]

Instances == [impl : Impls, holds : SUBSET Refs]

(* ServiceList: an absent list is the one without items. *)
Lists  == [items : Seq(Instances), sealed : BOOLEAN]
NoList == [items |-> <<>>, sealed |-> FALSE]
Empty  == [i \in Interfaces |-> NoList]

(* One call in progress: "todo" are the creators it still has to run, the  *)
(* first of them under construction when "building", "args" the arguments  *)
(* not resolved yet and "held" the pointers received so far.               *)
Frames ==
  {f \in [op : Gets \union Creates, iface : Interfaces, todo : Seq(Impls),
          building : BOOLEAN, args : SUBSET Calls, held : SUBSET Refs] :
     f.building => f.todo # <<>>}

Collections == [creators : [Interfaces -> Seq(Impls)],
                scope    : [Interfaces -> Scopes],
                deps     : [Impls -> SUBSET Calls]]

ASSUME ContainersDistinct ==
  /\ Root \notin Requests
  /\ Singletons \notin Providers
  /\ SelfType \in Interfaces

(* What ServiceCollection guarantees: an implementation is registered once *)
(* per interface. And what it leaves to its users: add() would take the    *)
(* provider's own type like any other, but nobody registers that.          *)
ASSUME CollectionsAssumption ==
  /\ Registrations \subseteq Collections
  /\ \A g \in Registrations :
       /\ \A i \in Interfaces : IsInjective(g.creators[i])
       /\ g.creators[SelfType] = <<>>

ASSUME CallsAssumption ==
  /\ Bootstrap \subseteq Interfaces
  /\ UserCalls \subseteq Calls
  /\ MaxThrows \in Nat

VARIABLES
  reg,      \* the service collection, const once the application is built
  phase,    \* where the application's main thread is
  pending,  \* interfaces the main thread's current loop has still to resolve
  store,    \* services of every container, by interface
  guard,    \* CircularDependencyGuard of every provider
  stack,    \* calls in progress of every provider, the innermost last
  active,   \* requests being handled
  thrown    \* exceptions that a provider's calls ended in, caught or not

vars == <<reg, phase, pending, store, guard, stack, active, thrown>>

-----------------------------------------------------------------------------
(* The collection, as a provider reads it. *)

Creators(i) == reg.creators[i]
Scope(i)    == reg.scope[i]
Known(i)    == Creators(i) # <<>>
MainOf(i)   == Last(Creators(i))

(* Creators are iterated from the newest registration to the oldest. *)
NewestFirst(i) == Reverse(Creators(i))

SingletonTypes == {i \in Interfaces : Known(i) /\ Scope(i) = "singleton"}

Container(p, i) == IF Scope(i) = "singleton" THEN Singletons ELSE p

-----------------------------------------------------------------------------
(* Calls and frames. *)

Top(p) == Last(stack[p])

(* Mutation: prebuilding makes only the main service of an interface. *)
MainCallsOnlyMain ==
  CASE phase \in {"building", "prebuilding"} -> [op : {"getRequiredService"}, iface : pending]
    [] phase = "stopped" -> IF thrown[Root] < MaxThrows THEN UserCalls ELSE {}
    [] OTHER             -> {}

(* The calls p can make now: the unresolved arguments of the service under *)
(* construction, or else a call of the code that uses the provider. The    *)
(* main thread resolves "pending"; the application's owner may use the     *)
(* root provider while the server is not running.                          *)
MainCalls ==
  CASE phase = "building"    -> [op : {"getRequiredService"}, iface : pending]
    [] phase = "prebuilding" -> [op : {"getServices"}, iface : pending]
    [] phase = "stopped"     -> IF thrown[Root] < MaxThrows THEN UserCalls ELSE {}
    [] OTHER                 -> {}

OuterCalls(p) ==
  IF p = Root THEN MainCalls
  ELSE IF p \in active /\ thrown[p] < MaxThrows THEN UserCalls ELSE {}

Asks(p) ==
  IF stack[p] = <<>> THEN OuterCalls(p)
  ELSE IF Top(p).building THEN Top(p).args ELSE {}

(* p's stack once its call d has been taken. *)
Taken(p, d) ==
  IF stack[p] = <<>> THEN <<>>
  ELSE [stack[p] EXCEPT ![Len(stack[p])].args = @ \ {d}]

TakePending(p, d) ==
  pending' = IF p = Root /\ stack[p] = <<>> THEN pending \ {d.iface} ELSE pending

(* The caller of a finished call receives refs. *)
Deliver(stk, refs) ==
  IF stk = <<>> THEN <<>>
  ELSE [stk EXCEPT ![Len(stk)].held = @ \union refs]

(* Mutation: guards are not released when an exception leaves their scope. *)
RaiseKeepsGuard(p, stk, n) ==
  /\ stack' = [stack EXCEPT ![p] = <<>>]
  /\ guard' = guard
  /\ thrown' = [thrown EXCEPT ![p] = @ + 1]
  /\ phase' = IF p = Root /\ phase = "building" THEN "failed"
              ELSE IF p = Root /\ phase = "prebuilding" THEN "stopped" ELSE phase

(* An exception leaves the first n frames of p's stack stk, until a        *)
(* factory that made the call catches it or it reaches the code using the  *)
(* provider (k = 0). Every guard on the way is released, nothing else is   *)
(* undone.                                                                 *)
Raise(p, stk, n) ==
  \E k \in {0} \union {j \in 1..n : stk[j].building /\ Head(stk[j].todo) \in Factories} :
    /\ stack' = [stack EXCEPT ![p] = SubSeq(stk, 1, k)]
    /\ guard' = [guard EXCEPT ![p] = @ \
         {Head(stk[j].todo) : j \in {m \in (k+1)..Len(stk) : stk[m].building}}]
    /\ thrown' = [thrown EXCEPT ![p] = @ + 1]
    /\ phase' = IF k = 0 /\ p = Root
                THEN CASE phase = "building" -> "failed"
                       [] phase = "prebuilding" -> "stopped"
                       [] OTHER -> phase
                ELSE phase

-----------------------------------------------------------------------------
(* getService, getServices, createService, createServices. *)

(* The list c keeps answers d: getServices needs a sealed list. *)
Listed(c, d) ==
  LET list == store[c][d.iface]
  IN  list.items # <<>> /\ (d.op = "getServices" => list.sealed)

Cached(p, d) ==
  /\ d.op \in Gets
  /\ Listed(Singletons, d) \/ Listed(p, d) \/ d.iface = SelfType

Found(p, d) ==
  [container |-> IF Listed(Singletons, d) THEN Singletons ELSE p, iface |-> d.iface]

(* Mutation: getService and getServices do not refuse transient services. *)
AllowedGetsAll(d) == d.op \in Creates => Scope(d.iface) = "transient"

(* Transient services can only be created, the others only be got. *)
Allowed(d) == d.op \in Creates <=> Scope(d.iface) = "transient"

(* Mutation: getServices creates the oldest registration first. *)
CreatorsForOldestFirst(p, d) ==
  IF d.op \in {"getServices", "createServices"} THEN Creators(d.iface) ELSE <<MainOf(d.iface)>>

(* Mutation: getServices does not skip a main service that is there already. *)
CreatorsForNoSkip(p, d) ==
  IF d.op \in {"getServices", "createServices"} THEN NewestFirst(d.iface)
  ELSE <<MainOf(d.iface)>>

(* The creators to run for d: the main one (the newest), or all of them,   *)
(* but for a main service that getService has already made.                *)
CreatorsFor(p, d) ==
  CASE d.op \in {"getService", "getRequiredService", "createService"} -> <<MainOf(d.iface)>>
    [] d.op = "createServices" -> NewestFirst(d.iface)
    [] d.op = "getServices" ->
         IF store[Container(p, d.iface)][d.iface].items = <<>>
         THEN NewestFirst(d.iface) ELSE Tail(NewestFirst(d.iface))

NewFrame(p, d) ==
  [op |-> d.op, iface |-> d.iface, todo |-> CreatorsFor(p, d),
   building |-> FALSE, args |-> {}, held |-> {}]

Hit(p, d) ==
  /\ d \in Asks(p)
  /\ Cached(p, d)
  /\ stack' = [stack EXCEPT ![p] = Deliver(Taken(p, d), {Found(p, d)})]
  /\ TakePending(p, d)
  /\ UNCHANGED <<reg, phase, store, guard, active, thrown>>

(* Not registered: a null pointer or an empty vector. *)
Absent(p, d) ==
  /\ d \in Asks(p)
  /\ ~Cached(p, d) /\ ~Known(d.iface)
  /\ d.op # "getRequiredService"
  /\ stack' = [stack EXCEPT ![p] = Taken(p, d)]
  /\ TakePending(p, d)
  /\ UNCHANGED <<reg, phase, store, guard, active, thrown>>

(* ServiceNotRegistered, TransientForbid and NotTransient exceptions. *)
Refuse(p, d) ==
  /\ d \in Asks(p)
  /\ ~Cached(p, d)
  /\ IF Known(d.iface) THEN ~Allowed(d) ELSE d.op = "getRequiredService"
  /\ Raise(p, Taken(p, d), Len(stack[p]))
  /\ TakePending(p, d)
  /\ UNCHANGED <<reg, store, active>>

Call(p, d) ==
  /\ d \in Asks(p)
  /\ ~Cached(p, d) /\ Known(d.iface) /\ Allowed(d)
  /\ stack' = [stack EXCEPT ![p] = Append(Taken(p, d), NewFrame(p, d))]
  /\ TakePending(p, d)
  /\ UNCHANGED <<reg, phase, store, guard, active, thrown>>

-----------------------------------------------------------------------------
(* createHolder: the guard, the constructor's arguments, the constructor.  *)

ReadyToBuild(p) ==
  /\ stack[p] # <<>>
  /\ ~Top(p).building
  /\ Top(p).todo # <<>>

BeginHolder(p) ==
  /\ ReadyToBuild(p)
  /\ LET f == Top(p)
         T == Head(f.todo)
     IN  /\ T \notin guard[p]
         /\ guard' = [guard EXCEPT ![p] = @ \union {T}]
         /\ stack' = [stack EXCEPT ![p] = Append(Front(@),
              [f EXCEPT !.building = TRUE,
                        !.args = reg.deps[T],
                        !.held = IF f.op \in Gets THEN {} ELSE @])]
  /\ UNCHANGED <<reg, phase, pending, store, active, thrown>>

(* Mutation: the guard waits, like a lock, for the type to be free. *)
CircularWaits(p) == ReadyToBuild(p) /\ FALSE /\ UNCHANGED vars

(* CircularDependencyException *)
Circular(p) ==
  /\ ReadyToBuild(p)
  /\ Head(Top(p).todo) \in guard[p]
  /\ Raise(p, stack[p], Len(stack[p]) - 1)
  /\ UNCHANGED <<reg, pending, store, active>>

(* The constructor returns: its guard ends, and a service that is not      *)
(* transient goes to the back of its interface's list.                     *)
FinishHolder(p) ==
  /\ stack[p] # <<>>
  /\ Top(p).building /\ Top(p).args = {}
  /\ LET f == Top(p)
         T == Head(f.todo)
         c == Container(p, f.iface)
     IN  /\ guard' = [guard EXCEPT ![p] = @ \ {T}]
         /\ store' = IF f.op \in Gets
                     THEN [store EXCEPT ![c][f.iface].items =
                             Append(@, [impl |-> T, holds |-> f.held])]
                     ELSE store
         /\ stack' = [stack EXCEPT ![p] = Append(Front(@),
              [f EXCEPT !.building = FALSE, !.todo = Tail(@)])]
  /\ UNCHANGED <<reg, phase, pending, active, thrown>>

(* The constructor or factory throws, or the factory returns null. *)
FailHolder(p) ==
  /\ stack[p] # <<>>
  /\ Top(p).building
  /\ Head(Top(p).todo) \in Faulty
  /\ Top(p).args = {} \/ Head(Top(p).todo) \in Factories
  /\ Raise(p, stack[p], Len(stack[p]) - 1)
  /\ UNCHANGED <<reg, pending, store, active>>

(* Mutation: getService seals the list too. *)
ReturnSeals(p) ==
  /\ stack[p] # <<>>
  /\ ~Top(p).building /\ Top(p).todo = <<>>
  /\ LET f == Top(p)
         c == Container(p, f.iface)
     IN  /\ stack' = [stack EXCEPT ![p] = Deliver(Front(@),
              IF f.op \in Gets THEN {[container |-> c, iface |-> f.iface]} ELSE f.held)]
         /\ store' = IF f.op \in Gets
                     THEN [store EXCEPT ![c][f.iface].sealed = TRUE]
                     ELSE store
  /\ UNCHANGED <<reg, phase, pending, guard, active, thrown>>

(* The call returns: getServices seals its list; a caller of createService *)
(* owns the new service and with it the pointers that service holds.       *)
Return(p) ==
  /\ stack[p] # <<>>
  /\ ~Top(p).building /\ Top(p).todo = <<>>
  /\ LET f == Top(p)
         c == Container(p, f.iface)
     IN  /\ stack' = [stack EXCEPT ![p] = Deliver(Front(@),
              IF f.op \in Gets THEN {[container |-> c, iface |-> f.iface]} ELSE f.held)]
         /\ store' = IF f.op = "getServices"
                     THEN [store EXCEPT ![c][f.iface].sealed = TRUE]
                     ELSE store
  /\ UNCHANGED <<reg, phase, pending, guard, active, thrown>>

-----------------------------------------------------------------------------
(* The application around the providers. *)

(* EngineDependencies is constructed: the application can be run. *)
Built ==
  /\ phase = "building" /\ pending = {} /\ stack[Root] = <<>>
  /\ phase' = "stopped"
  /\ UNCHANGED <<reg, pending, store, guard, stack, active, thrown>>

(* run(): init() starts to prebuild the singletons. It may be called again *)
(* after it returned or threw.                                             *)
Run ==
  /\ phase = "stopped" /\ stack[Root] = <<>>
  /\ thrown[Root] <= MaxThrows
  /\ phase' = "prebuilding"
  /\ pending' = SingletonTypes
  /\ UNCHANGED <<reg, store, guard, stack, active, thrown>>

(* Mutation: the server starts when a singleton has been made. *)
ServeEarly ==
  /\ phase = "prebuilding" /\ pending # SingletonTypes /\ stack[Root] = <<>>
  /\ phase' = "serving"
  /\ UNCHANGED <<reg, pending, store, guard, stack, active, thrown>>

(* prebuildSingeletons is done: the server starts. *)
Serve ==
  /\ phase = "prebuilding" /\ pending = {} /\ stack[Root] = <<>>
  /\ phase' = "serving"
  /\ UNCHANGED <<reg, pending, store, guard, stack, active, thrown>>

(* The server's threads are joined and run() returns. *)
Stop ==
  /\ phase = "serving" /\ active = {}
  /\ phase' = "stopped"
  /\ UNCHANGED <<reg, pending, store, guard, stack, active, thrown>>

(* handleRequest creates a scoped provider and destroys it at its end. *)
StartRequest(r) ==
  /\ phase = "serving" /\ r \notin active
  /\ active' = active \union {r}
  /\ UNCHANGED <<reg, phase, pending, store, guard, stack, thrown>>

FinishRequest(r) ==
  /\ r \in active /\ stack[r] = <<>>
  /\ active' = active \ {r}
  /\ store' = [store EXCEPT ![r] = Empty]
  /\ thrown' = [thrown EXCEPT ![r] = 0]
  /\ UNCHANGED <<reg, phase, pending, guard, stack>>

-----------------------------------------------------------------------------
Init ==
  /\ reg \in Registrations
  /\ phase = "building"
  /\ pending = Bootstrap
  /\ store = [c \in Containers |-> Empty]
  /\ guard = [p \in Providers |-> {}]
  /\ stack = [p \in Providers |-> <<>>]
  /\ active = {}
  /\ thrown = [p \in Providers |-> 0]

Resolve(p) == \E d \in Calls : Hit(p, d) \/ Absent(p, d) \/ Refuse(p, d) \/ Call(p, d)

Construct(p) ==
  BeginHolder(p) \/ Circular(p) \/ FinishHolder(p) \/ FailHolder(p) \/ Return(p)

Next ==
  \/ \E p \in Providers : Resolve(p) \/ Construct(p)
  \/ Built \/ Run \/ Serve \/ Stop
  \/ \E r \in Requests : StartRequest(r) \/ FinishRequest(r)

Spec == Init /\ [][Next]_vars

(* A thread that is inside the provider runs on until the outermost call   *)
(* returns or throws, and the main thread runs through its loops; when     *)
(* handlers make calls and when the application is run is up to the user.  *)
Progress(p) == stack[p] # <<>> /\ (Resolve(p) \/ Construct(p))

MainThread ==
  \/ Built \/ Serve
  \/ /\ phase \in {"building", "prebuilding"}
     /\ Resolve(Root) \/ Construct(Root)

FairSpec ==
  /\ Spec
  /\ \A p \in Providers : WF_vars(Progress(p))
  /\ WF_vars(MainThread)

-----------------------------------------------------------------------------
TypeOK ==
  /\ reg \in Registrations
  /\ phase \in {"building", "failed", "stopped", "prebuilding", "serving"}
  /\ pending \subseteq Interfaces
  /\ store \in [Containers -> [Interfaces -> Lists]]
  /\ guard \in [Providers -> SUBSET Impls]
  /\ stack \in [Providers -> Seq(Frames)]
  /\ active \subseteq Requests
  /\ thrown \in [Providers -> Nat]

(* The circular dependency guard is exact: whatever has been thrown and    *)
(* caught, it holds precisely the implementations this provider is         *)
(* constructing, and none of them twice. So the recursion of a provider is *)
(* never deeper than the number of implementations.                        *)
UnderConstruction(p) == {k \in DOMAIN stack[p] : stack[p][k].building}

GuardExact ==
  \A p \in Providers :
    /\ guard[p] = {Head(stack[p][k].todo) : k \in UnderConstruction(p)}
    /\ \A j, k \in UnderConstruction(p) :
         Head(stack[p][j].todo) = Head(stack[p][k].todo) => j = k

(* Requests run on several threads and no lock protects the container of   *)
(* singletons they share: it is safe because nothing writes it while the   *)
(* server runs, everything in it was made by prebuildSingeletons.          *)
SingletonsFrozen ==
  [][phase = "serving" => store'[Singletons] = store[Singletons]]_vars

(* A pointer is live while what it points to is: the container's list of   *)
(* the interface, or the provider itself.                                  *)
Live(h) ==
  IF h.iface = SelfType THEN h.container \in active \union {Root}
  ELSE store[h.container][h.iface].items # <<>>

(* No service, finished or under construction, holds a dangling pointer:   *)
(* in particular no singleton points into a request's provider, which is   *)
(* destroyed with the request.                                             *)
NoDanglingPointer ==
  /\ \A c \in Containers, i \in Interfaces :
       \A k \in DOMAIN store[c][i].items : \A h \in store[c][i].items[k].holds : Live(h)
  /\ \A p \in Providers : \A k \in DOMAIN stack[p] : \A h \in stack[p][k].held : Live(h)

(* getService answers with the first item of a list, from the moment there *)
(* is one: it is the newest registration's service, also when getServices  *)
(* made the list, failed half way or extended it.                          *)
FirstIsMain ==
  \A c \in Containers, i \in Interfaces :
    store[c][i].items # <<>> => store[c][i].items[1].impl = MainOf(i)

(* A sealed list, which getServices answers from, is complete: every       *)
(* registered implementation is in it, even when earlier calls failed.     *)
SealedIsComplete ==
  \A c \in Containers, i \in Interfaces :
    store[c][i].sealed =>
      \A n \in DOMAIN Creators(i) : \E k \in DOMAIN store[c][i].items :
        store[c][i].items[k].impl = Creators(i)[n]

(* Services live where their scope says: a singleton only in the shared    *)
(* container, a scoped one only in a provider, a transient one nowhere.    *)
ScopePlacement ==
  \A c \in Containers, i \in Interfaces :
    store[c][i].items # <<>> =>
      Scope(i) = (IF c = Singletons THEN "singleton" ELSE "scoped")

(* A list never has two services of one implementation, as long as no call *)
(* of the provider that makes them has thrown, to its user or to a factory *)
(* that caught the exception.                                              *)
OneEach(list) ==
  \A j, k \in DOMAIN list.items : list.items[j].impl = list.items[k].impl => j = k

OneEachUnlessThrown ==
  \A p \in Providers :
    stack[p] = <<>> /\ thrown[p] = 0 =>
      \A i \in Interfaces :
        /\ OneEach(store[p][i])
        /\ p = Root => OneEach(store[Singletons][i])

(* Every call returns or throws, whatever the dependencies are: cycles end *)
(* in an exception instead of endless recursion.                           *)
CallsReturn ==
  \A p \in Providers : stack[p] # <<>> ~> stack[p] = <<>>

(* run() always gets past prebuilding: it serves or it throws. *)
PrebuildEnds == phase = "prebuilding" ~> phase \in {"serving", "stopped"}

(* Docs: a singleton service is one object for everybody. *)
OneInstancePerSingleton ==
  \A i \in SingletonTypes : OneEach(store[Singletons][i])

(* Docs: different requests get different scoped services. What a request  *)
(* reaches are its own scoped services and what singletons hold.           *)
ReachableScoped(r) ==
  {h \in Refs :
     /\ Scope(h.iface) = "scoped"
     /\ \/ h.container = r /\ store[r][h.iface].items # <<>>
        \/ \E i \in Interfaces : \E k \in DOMAIN store[Singletons][i].items :
             h \in store[Singletons][i].items[k].holds}

ScopedDifferPerRequest ==
  \A r, s \in active : r # s => ReachableScoped(r) \intersect ReachableScoped(s) = {}

-----------------------------------------------------------------------------
(* The provider keeps what ServiceLifetimes promises: its steps are those  *)
(* of the promise, or do not touch what it speaks about. In particular a   *)
(* sealed list never gets another service.                                 *)
Kept == [c \in Containers |-> [i \in Interfaces |->
          [k \in DOMAIN store[c][i].items |-> store[c][i].items[k].impl]]]

Sealed == [c \in Containers |-> [i \in Interfaces |-> store[c][i].sealed]]

Lifetimes ==
  INSTANCE ServiceLifetimes
    WITH Shared <- Singletons, Owner <- Root, made <- Kept, final <- Sealed,
         open <- active, serving <- (phase = "serving")

LifetimesKept == Lifetimes!Spec
=============================================================================
