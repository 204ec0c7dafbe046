------------------------- MODULE ApplicationBuilder ------------------------
(***************************************************************************)
(* WebApplicationBuilder (Include/Engine/WebApplicationBuilder.hpp): the   *)
(* user fills a service collection and, through LoggingBuilder, one of log *)
(* providers; build() adds the framework's own services, merges the log    *)
(* providers and hands the collection to the engine. build() may throw at  *)
(* any registration, and a user that catches that may change the           *)
(* collections and call it again.                                          *)
(***************************************************************************)
EXTENDS ServiceCollection

CONSTANTS
  UserServices,  \* <<interface, implementation>> that users may register
  MaxAdds        \* bound: registrations before a build()

Owners == {"services", "logging"}

(* The registrations of build(), in order; the fourth is the merge. *)
Merging      == 4
Constructing == 6
Default ==
  [k \in {1, 2, 3, 5} |->
     CASE k = 1 -> <<"IEnvironment", "Environment">>
       [] k = 2 -> <<"IConfiguration", "ConfigurationManager">>
       [] k = 3 -> <<"IServerSettingsProvider", "ServerSettingsProvider">>
       [] k = 5 -> <<"ILogger", "Logger">>]

(* Interfaces that build() itself registers, all of them and those it      *)
(* registers before the merge.                                             *)
Framework == {Default[k][1] : k \in DOMAIN Default}
Early     == {Default[k][1] : k \in {m \in DOMAIN Default : m < Merging}}

(* Objects the builder owns and moves into the factories of services.      *)
Owned == {"Environment", "ConfigurationManager"}

ASSUME BuilderAssumption ==
  /\ {"IEnvironment", "IConfiguration", "IServerSettingsProvider", "ILogger", "ILogProvider"}
       \subseteq Interfaces
  /\ {"Environment", "ConfigurationManager", "ServerSettingsProvider", "Logger",
      "ConsoleLogProvider"} \subseteq Impls
  /\ UserServices \subseteq Interfaces \X Impls
  /\ MaxAdds \in Nat

VARIABLES
  collections,  \* the builder's two service collections
  direct,       \* interfaces among the services when build() was called
  step,         \* 0, or the registration build() is at
  left,         \* objects the builder has not moved out yet
  count,        \* registrations so far
  result,       \* of the last build()
  threw         \* a build() has thrown

vars == <<collections, direct, step, left, count, result, threw>>

-----------------------------------------------------------------------------
Creator(T, scope, owns) == [impl |-> T, scope |-> scope, id |-> count + 1, owns |-> owns]

Services == collections["services"]

Configuring == step = 0 /\ result \in {"none", "threw"}

(* add<I, T>(scope) *)
Register(o, i, T, scope) ==
  /\ Configuring /\ count < MaxAdds
  /\ Accepts(collections[o], i, Creator(T, scope, TRUE))
  /\ collections' = [collections EXCEPT ![o] = Add(@, i, Creator(T, scope, TRUE))]
  /\ count' = count + 1
  /\ UNCHANGED <<direct, step, left, result, threw>>

(* removeAll<I>, LoggingBuilder::clearProviders *)
Unregister(o, i) ==
  /\ Configuring
  /\ i \in DOMAIN collections[o]
  /\ collections' = [collections EXCEPT ![o] = RemoveAll(@, i)]
  /\ UNCHANGED <<direct, step, left, count, result, threw>>

Build ==
  /\ Configuring /\ count <= MaxAdds
  /\ step' = 1
  /\ direct' = DOMAIN Services
  /\ UNCHANGED <<collections, left, count, result, threw>>

(* Mutation: the factories share the builder's objects. *)
LeftCopied(T) == left

(* The factory's lambda takes the object over before add is called; if add *)
(* throws, it is destroyed with the factory.                               *)
Left(T) == left \ {T}

(* registerDefaultServices: one of its addSingleton. *)
RegisterDefault ==
  /\ step \in DOMAIN Default
  /\ LET i   == Default[step][1]
         T   == Default[step][2]
         new == Creator(T, "singleton", T \in Owned => T \in left)
     IN  /\ left' = Left(T)
         /\ IF Accepts(Services, i, new)
            THEN /\ collections' = [collections EXCEPT !["services"] = Add(@, i, new)]
                 /\ count' = count + 1
                 /\ step' = step + 1
                 /\ UNCHANGED <<result, threw>>
            ELSE /\ step' = 0
                 /\ result' = "threw"
                 /\ threw' = TRUE
                 /\ UNCHANGED <<collections, count>>
  /\ UNCHANGED direct

MergeLogging ==
  /\ step = Merging
  /\ collections' =
       [collections EXCEPT !["services"] = Merge(@, collections["logging"]),
                           !["logging"]  = LeftBehind(collections["services"], @)]
  /\ step' = step + 1
  /\ UNCHANGED <<direct, left, count, result, threw>>

(* EngineDependencies takes the collection and resolves the framework's    *)
(* services: a factory without object yields a null pointer, which throws, *)
(* and so may any constructor. Then the builder has no collection left.    *)
ConstructEngine ==
  /\ step = Constructing
  /\ step' = 0
  /\ result' \in
       IF \A k \in DOMAIN Default : MainCreator(Services, Default[k][1]).owns
       THEN {"built", "failed"} ELSE {"failed"}
  /\ threw' = (threw \/ result' = "failed")
  /\ UNCHANGED <<collections, direct, left, count>>

-----------------------------------------------------------------------------
Console == [impl |-> "ConsoleLogProvider", scope |-> "singleton", id |-> 1, owns |-> TRUE]

Init ==
  /\ collections = [o \in Owners |->
       IF o = "logging" THEN Add(NoServices, "ILogProvider", Console) ELSE NoServices]
  /\ direct = {}
  /\ step = 0
  /\ left = Owned
  /\ count = 1
  /\ result = "none"
  /\ threw = FALSE

UserStep ==
  \/ \E o \in Owners, s \in UserServices, scope \in Scopes : Register(o, s[1], s[2], scope)
  \/ \E o \in Owners, i \in Interfaces : Unregister(o, i)

Next == UserStep \/ Build \/ RegisterDefault \/ MergeLogging \/ ConstructEngine

Spec == Init /\ [][Next]_vars

-----------------------------------------------------------------------------
TypeOK ==
  /\ collections \in [Owners -> Range(collections)]
  /\ \A o \in Owners : IsCollection(collections[o])
  /\ direct \subseteq Interfaces
  /\ step \in 0..Constructing
  /\ left \subseteq Owned
  /\ count \in Nat
  /\ result \in {"none", "threw", "failed", "built"}
  /\ threw \in BOOLEAN

(* Whatever is added, removed, merged and half built, a provider finds     *)
(* what it relies on: an interface that is known has a main creator, one   *)
(* scope, and no implementation twice.                                     *)
CollectionsWellFormed == \A o \in Owners : WellFormed(collections[o])

(* The service that answers in an application is the one registered last   *)
(* for its interface, among the services or among the log providers: by    *)
(* the framework for its own. The one exception are interfaces the user    *)
(* put among the services: those keep the log providers of the same        *)
(* interface out, the newer ones too.                                      *)
MainIsNewest ==
  result = "built" =>
    \A o \in Owners : \A i \in DOMAIN collections[o] :
      \/ o = "logging" /\ i \in direct \ Framework
      \/ /\ i \in DOMAIN Services
         /\ \A k \in DOMAIN collections[o][i] :
              collections[o][i][k].id <= MainCreator(Services, i).id

(* What the user registered among the log providers gets into the          *)
(* application, and nothing of it stays with the builder, unless the same  *)
(* interface was among the services already when build() was called, or is *)
(* one that build() registers before it merges.                            *)
AllArrive ==
  result = "built" => DOMAIN collections["logging"] \subseteq direct \union Early

(* A built application uses the framework's own environment, configuration,*)
(* settings and logger, whatever the user registered for these interfaces, *)
(* and each has what its factory is to hand out.                           *)
BuiltWithDefaults ==
  result = "built" =>
    \A k \in DOMAIN Default :
      /\ MainCreator(Services, Default[k][1]).impl = Default[k][2]
      /\ MainCreator(Services, Default[k][1]).owns

(* A build() that threw has given away the builder's environment: no later *)
(* one of the same builder succeeds.                                       *)
NoBuildAfterThrow == result = "built" => ~threw

(* build() loses no registration: each stays in one of the collections.    *)
Registrations(c) == UNION {{<<i, c[i][k]>> : k \in DOMAIN c[i]} : i \in DOMAIN c}

NothingLost ==
  [][step # 0 =>
       UNION {Registrations(collections[o]) : o \in Owners}
         \subseteq UNION {Registrations(collections'[o]) : o \in Owners}]_vars
=============================================================================
