------------------------- MODULE MCServiceProvider -------------------------
(***************************************************************************)
(* Instances of ServiceProvider for TLC: two singleton interfaces, a       *)
(* scoped and a transient one, and the provider itself. What they are      *)
(* implemented by and how those depend on each other ranges over sets of   *)
(* service collections.                                                    *)
(***************************************************************************)
EXTENDS ServiceProvider, TLC

CONSTANTS r1, r2

MCInterfaces == {"ISettings", "ILog", "IRepo", "ITask", "ServiceProvider"}
MCImpls ==
  {"Settings", "NetLog", "FileLog", "MainLog", "MemRepo", "SqlRepo", "MainRepo", "Task"}

One(i)  == [op |-> "getRequiredService", iface |-> i]
All(i)  == [op |-> "getServices", iface |-> i]
Find(i) == [op |-> "getService", iface |-> i]
New(i)  == [op |-> "createService", iface |-> i]
News(i) == [op |-> "createServices", iface |-> i]

Collection(logs, repos, deps) ==
  [creators |-> "ISettings" :> <<"Settings">> @@ "ILog" :> logs @@ "IRepo" :> repos @@
                "ITask" :> <<"Task">> @@ "ServiceProvider" :> <<>>,
   scope    |-> "ISettings" :> "singleton" @@ "ILog" :> "singleton" @@ "IRepo" :> "scoped" @@
                "ITask" :> "transient" @@ "ServiceProvider" :> "transient",
   deps     |-> deps @@ [T \in MCImpls |-> {}]]

Pair(deps)   == Collection(<<"FileLog", "MainLog">>, <<"SqlRepo", "MainRepo">>, deps)
Triple(deps) == Collection(<<"NetLog", "FileLog", "MainLog">>,
                           <<"SqlRepo", "MemRepo", "MainRepo">>, deps)

(* Singletons and transients that hold scoped services. *)
Layered ==
  Pair("FileLog" :> {All("IRepo")} @@ "MainLog" :> {New("ITask")} @@
       "Task" :> {One("IRepo"), One("ServiceProvider")} @@ "SqlRepo" :> {One("ILog")})

(* A service that asks for all services of its own interface. *)
SelfAll ==
  Triple("SqlRepo" :> {All("IRepo")} @@ "Task" :> {One("IRepo")})

(* A cycle through the three scopes. *)
Cycle ==
  Pair("MainLog" :> {New("ITask")} @@ "Task" :> {One("IRepo")} @@
       "MainRepo" :> {All("ILog")})

(* Calls that are refused, and calls for what is not registered. *)
Wrong ==
  Pair("FileLog" :> {New("IRepo"), News("ServiceProvider")} @@
       "SqlRepo" :> {One("ITask"), Find("ILog")} @@ "Task" :> {News("ITask")})

MCRegistrations == {Layered, SelfAll, Cycle, Wrong}
LayeredOnly == {Layered}
SelfAllOnly == {SelfAll}

(* Every way in which a singleton, two scoped services and a transient one *)
(* depend on one another.                                                  *)
Menu == {{}, {One("ILog")}, {All("IRepo")}, {New("ITask")}}

EveryRegistration ==
  {Pair("FileLog" :> a @@ "SqlRepo" :> b @@ "MainRepo" :> c @@ "Task" :> d) :
     a, c \in Menu \union {{All("ILog")}}, b \in Menu, d \in {{}, {One("IRepo")}}}

MCBootstrap == {"ISettings"}
MCUserCalls == {One("ILog"), All("ILog"), One("IRepo"), All("IRepo"), New("ITask")}
AllUserCalls ==
  [op : {"getService", "getRequiredService", "getServices", "createService", "createServices"},
   iface : MCInterfaces]

Symmetry == Permutations({r1, r2})
=============================================================================
