------------------------- MODULE ServerShutdownProofs -------------------------
(***************************************************************************)
(* For any number of connections, calls of stop() and signals: SIGINT      *)
(* reaches every listener; with one URL or one thread every coroutine can  *)
(* be cancelled, and each listener lets at most one more session begin     *)
(* once SIGINT has been emitted; responses are lost to a shutdown only, on *)
(* one thread to the own endpoint's stop() only. The argument is about who *)
(* runs at the same time (one spawner at most is between taking a slot and *)
(* filling it) and about what the emission has passed by.                  *)
(***************************************************************************)
EXTENDS ServerProofs, FiniteSetTheorems

(* On one thread one coroutine runs at a time, none while the signal       *)
(* handler emits.                                                          *)
OneRuns ==
  Threads = 1 =>
    /\ \A c, d \in Coroutines :
         mode[c] \in {"running", "arming"} /\ mode[d] \in {"running", "arming"} => c = d
    /\ emission.by = Main => \A c \in Coroutines : mode[c] \notin {"running", "arming"}

SpawnerRuns == \A p \in Listeners : spawning[p].slot # 0 => mode[p] = "running"

UrlsOnly == \A l \in Listeners : at[l] # "none" => l \in setup.urls

(* A session that handles its request runs, also while it emits. *)
Handling ==
  /\ \A c \in Coroutines : at[c] = "handle" => mode[c] = "running"
  /\ emission.by \in Sessions => at[emission.by] = "handle" /\ emission.by \in stops

(* An operation that has not ended has no outcome. *)
Fresh == \A c \in Coroutines : mode[c] \in {"arming", "waiting"} => outcome[c] = "none"

AInv == OneRuns /\ SpawnerRuns /\ UrlsOnly /\ Handling /\ Fresh

-----------------------------------------------------------------------------
(* What a running coroutine's step is: it ends, or goes to another point.  *)
Keeps == UNCHANGED <<setup, phase, spawning, shutdown>>

Ends(c) ==
  /\ Keeps /\ mode[c] = "running" /\ Over(c)
  /\ c \in Listeners => spawning[c].child = None
  /\ at[c] = "handle" => emission.by # c
  /\ IF at[c] = "handle"
     THEN dropped' = dropped \cup {c} /\ c \in Sessions /\ TRUE \in Seen(c)
     ELSE dropped' = dropped

Moves(c, point, m) ==
  /\ Keeps /\ mode[c] = "running" /\ Goto(c, point, m)
  /\ c \in Listeners => spawning[c].child = None
  /\ at[c] = "handle" => emission.by # c
  /\ point \in Points \ {"none", "over"}
  /\ IF point \in {"loop", "handle"} THEN m = "running" ELSE m = "arming"
  /\ point = "loop" => c \in Listeners
  /\ point # "loop" => FALSE \in Seen(c)
  /\ point = "handle" => c \in Sessions
  /\ dropped' = dropped

LEMMA FreeThread ==
  ASSUME Invariant, ThreadFree, Threads = 1
  PROVE  /\ \A c \in Coroutines : mode[c] \notin {"running", "arming"}
         /\ emission.by # Main
<1>1. IsFiniteSet(Coroutines)
  BY ServerAssumption, FS_Union DEF Coroutines
<1>2. IsFiniteSet(Running) /\ Cardinality(Running) \in Nat
  BY <1>1, FS_Subset, FS_CardinalityType DEF Running
<1>3. Cardinality(Running) = 0 /\ emission.by # Main
  BY <1>2 DEF ThreadFree, Busy
<1>4. Running = {}
  BY <1>2, <1>3, FS_EmptySet
<1>5. QED
  BY <1>3, <1>4 DEF Running

LEMMA ThreadsSame ==
  ASSUME setup' = setup
  PROVE  Threads' = Threads
  BY DEF Threads

LEMMA SessionWorks ==
  ASSUME Invariant, NEW s \in Sessions, Proceed(s) \/ Respond(s)
  PROVE  Ends(s) \/ \E point, m : Moves(s, point, m)
<1>1. s \in Coroutines /\ s \notin Listeners /\ Keeps /\ mode[s] = "running"
  BY Distinct DEF Proceed, Respond, Work, Keeps
<1>2. {"detect", "handshake", "read", "handle", "write", "shutdown"}
        \subseteq Points \ {"none", "over", "loop"}
  BY DEF Points
<1>3. CASE Proceed(s)
  <2>1. dropped' = dropped /\ at[s] # "handle"
    BY <1>3 DEF Proceed
  <2>2. CASE Over(s)
    BY <1>1, <2>1, <2>2 DEF Ends
  <2>3. ASSUME NEW point \in {"detect", "handshake", "read", "write", "shutdown"}, Await(s, point)
        PROVE  Ends(s) \/ \E x, m : Moves(s, x, m)
    <3>1. CASE FALSE \in Seen(s) /\ Goto(s, point, "arming")
      <4>1. Moves(s, point, "arming")
        BY <1>1, <1>2, <2>1, <3>1 DEF Moves
      <4>2. QED
        BY <4>1
    <3>2. QED
      BY <2>2, <2>3, <3>1 DEF Await
  <2>4. CASE FALSE \in Seen(s) /\ Goto(s, "handle", "running")
    <3>1. Moves(s, "handle", "running")
      BY <1>1, <1>2, <2>1, <2>4 DEF Moves
    <3>2. QED
      BY <3>1
  <2>5. QED
    BY <1>3, <2>2, <2>3, <2>4 DEF Proceed
<1>4. CASE Respond(s)
  <2>1. at[s] = "handle" /\ emission.by # s /\ Await(s, "write")
        /\ dropped' = IF at'[s] = "over" THEN dropped \cup {s} ELSE dropped
    BY <1>4 DEF Respond
  <2>2. CASE TRUE \in Seen(s) /\ Over(s)
    <3>1. at'[s] = "over"
      BY <1>1, <2>2 DEF Over, Invariant, TypeOK
    <3>2. QED
      BY <1>1, <2>1, <2>2, <3>1 DEF Ends
  <2>3. CASE FALSE \in Seen(s) /\ Goto(s, "write", "arming")
    <3>1. at'[s] = "write"
      BY <1>1, <2>3 DEF Goto, Invariant, TypeOK
    <3>2. Moves(s, "write", "arming")
      BY <1>1, <1>2, <2>1, <2>3, <3>1 DEF Moves
    <3>3. QED
      BY <3>2
  <2>4. QED
    BY <2>1, <2>2, <2>3 DEF Await
<1>5. QED
  BY <1>3, <1>4

LEMMA ListenerWorks ==
  ASSUME Invariant, NEW l \in Listeners, Listen(l) \/ Loop(l)
  PROVE  Ends(l) \/ \E point, m : Moves(l, point, m)
<1>1. l \in Coroutines /\ Keeps /\ mode[l] = "running" /\ at[l] # "handle" /\ dropped' = dropped
  BY Distinct DEF Listen, Loop, Work, Keeps
<1>2. spawning[l].child = None
  BY Distinct DEF Invariant, IInv, Children, Listen, Loop
<1>3. CASE Over(l)
  BY <1>1, <1>2, <1>3 DEF Ends
<1>4. CASE Goto(l, "loop", "running")
  <2>1. Moves(l, "loop", "running")
    BY <1>1, <1>2, <1>4 DEF Moves, Points
  <2>2. QED
    BY <2>1
<1>5. CASE FALSE \in Seen(l) /\ Goto(l, "accept", "arming")
  <2>1. Moves(l, "accept", "arming")
    BY <1>1, <1>2, <1>5 DEF Moves, Points
  <2>2. QED
    BY <2>1
<1>6. QED
  BY <1>3, <1>4, <1>5 DEF Listen, Loop, Await

(* start() ends while no coroutine runs, also when a launch throws.        *)
Quits == Returns /\ Running = {}

LEMMA QuitsIdle ==
  ASSUME Invariant, Return \/ LaunchThrows
  PROVE  Quits
<1>1. CASE Return
  BY <1>1 DEF Return, Idle, Quits
<1>2. CASE LaunchThrows
  BY <1>2 DEF LaunchThrows, Quits, Running, Invariant, IInv, NothingRuns
<1>3. QED
  BY <1>1, <1>2

(* Next, with a running coroutine's step as what it is. *)
LEMMA Steps ==
  ASSUME Invariant, [Next]_vars
  PROVE  \/ \E c \in Coroutines : Ends(c) \/ \E point, m : Moves(c, point, m)
         \/ \E p \in Spawners : TakeSlot(p) \/ Spawn(p)
         \/ \E c \in Coroutines : Suspend(c) \/ Resume(c) \/ DeliverPosted(c)
         \/ \E c \in Coroutines, result \in {"ok", "eof", "fail"} : Complete(c, result)
         \/ \E l \in Listeners, s \in Sessions : Accept(l, s)
         \/ \E sig \in Signals : Raise(sig)
         \/ \E caller \in {User} \cup Sessions : Stop(caller)
         \/ HandleSignal \/ Emit
         \/ (\E l \in Listeners : Launch(l)) \/ Serve \/ Quits
         \/ UNCHANGED vars
<1>1. ASSUME NEW c \in Coroutines, Step(c)
      PROVE  \/ Ends(c) \/ \E point, m : Moves(c, point, m)
             \/ c \in Spawners /\ (TakeSlot(c) \/ Spawn(c))
             \/ Suspend(c)
  BY <1>1, SessionWorks, ListenerWorks, Distinct DEF Step
<1>2. Main \in Spawners
  BY Distinct
<1>3. CASE \E c \in Coroutines : Step(c) \/ Resume(c) \/ DeliverPosted(c)
  BY <1>1, <1>3
<1>4. CASE Starting
  BY <1>2, <1>4, QuitsIdle DEF Starting
<1>5. QED
  BY <1>3, <1>4, QuitsIdle DEF Next, Returned

-----------------------------------------------------------------------------
(* Who runs. *)

LEMMA RunsInit == Init => AInv
  BY Distinct DEF Init, AInv, OneRuns, SpawnerRuns, UrlsOnly, Handling, Fresh, NoChild,
     NoEmission

LEMMA EndsRuns ==
  ASSUME Invariant, AInv, NEW c \in Coroutines, Ends(c)
  PROVE  AInv'
<1> USE DEF AInv, Keeps
<1>1. /\ at' = [at EXCEPT ![c] = "over"] /\ mode' = [mode EXCEPT ![c] = "gone"]
      /\ outcome' = [outcome EXCEPT ![c] = "none"]
      /\ UNCHANGED <<setup, phase, spawning, emission, stops>>
      /\ at \in [Coroutines -> Points] /\ outcome \in [Coroutines -> {"none", "ok", "eof", "fail"}]
      /\ mode \in [Coroutines -> {"gone", "ready", "running", "arming", "waiting"}]
  BY DEF Ends, Over, shutdown, Invariant, TypeOK
<1>2. OneRuns'
  BY <1>1, ThreadsSame DEF OneRuns
<1>3. SpawnerRuns'
  BY <1>1, Distinct DEF SpawnerRuns, Ends, Invariant, IInv, Children
<1>4. UrlsOnly'
  <2>1. c \in Listeners => c \in setup.urls
    <3>1. Live(c)
      BY RunsInPool DEF Ends
    <3>2. QED
      BY <3>1 DEF UrlsOnly, Live
  <2>2. QED
    BY <1>1, <2>1, Distinct DEF UrlsOnly
<1>5. Handling' /\ Fresh'
  BY <1>1, Distinct DEF Handling, Fresh, Ends
<1>6. QED
  BY <1>2, <1>3, <1>4, <1>5

LEMMA MovesRuns ==
  ASSUME Invariant, AInv, NEW c \in Coroutines, NEW point, NEW m, Moves(c, point, m)
  PROVE  AInv'
<1> USE DEF AInv, Keeps
<1>1. /\ at' = [at EXCEPT ![c] = point] /\ mode' = [mode EXCEPT ![c] = m]
      /\ outcome' = [outcome EXCEPT ![c] = "none"]
      /\ UNCHANGED <<setup, phase, spawning, emission, stops>>
      /\ at \in [Coroutines -> Points] /\ outcome \in [Coroutines -> {"none", "ok", "eof", "fail"}]
      /\ mode \in [Coroutines -> {"gone", "ready", "running", "arming", "waiting"}]
      /\ m \in {"running", "arming"} /\ mode[c] = "running"
  BY DEF Moves, Goto, shutdown, Invariant, TypeOK
<1>2. OneRuns'
  BY <1>1, ThreadsSame DEF OneRuns
<1>3. SpawnerRuns'
  BY <1>1, Distinct DEF SpawnerRuns, Moves, Invariant, IInv, Children
<1>4. UrlsOnly'
  <2>1. c \in Listeners => c \in setup.urls
    <3>1. Live(c)
      BY <1>1, RunsInPool
    <3>2. QED
      BY <3>1 DEF UrlsOnly, Live
  <2>2. QED
    BY <1>1, <2>1, Distinct DEF UrlsOnly
<1>5. at[c] # "handle" \/ c # emission.by
  BY DEF Moves
<1>6. point = "handle" => m = "running"
  <2>1. m \in {"running", "arming"} /\ (point = "handle" => c \in Sessions)
    BY <1>1 DEF Moves
  <2>2. QED
    BY <2>1 DEF Moves
<1>7. Handling'
  BY <1>1, <1>5, <1>6, Distinct DEF Handling
<1>8. Fresh'
  BY <1>1 DEF Fresh
<1>9. QED
  BY <1>2, <1>3, <1>4, <1>7, <1>8

LEMMA SpawnersRun ==
  ASSUME Invariant, AInv, NEW p \in Spawners, TakeSlot(p) \/ Spawn(p)
  PROVE  AInv'
<1> USE DEF AInv
<1>1. CASE TakeSlot(p)
  <2>1. /\ spawning' = [spawning EXCEPT ![p].slot = SlotFor]
        /\ UNCHANGED <<setup, phase, at, mode, outcome, emission, stops>>
        /\ p # Main => mode[p] = "running"
    BY <1>1 DEF TakeSlot, shutdown
  <2> HIDE DEF SlotFor
  <2>2. \A q \in Spawners : q # p => spawning'[q] = spawning[q]
    BY <2>1 DEF Invariant, TypeOK
  <2>3. SpawnerRuns'
    BY <2>1, <2>2, Distinct DEF SpawnerRuns
  <2>4. QED
    BY <2>1, <2>3, ThreadsSame DEF OneRuns, UrlsOnly, Handling, Fresh
<1>2. CASE Spawn(p)
  <2> DEFINE c == spawning[p].child
  <2>1. /\ at' = [x \in Coroutines |->
                    CASE x = c -> "start" [] x = p -> "loop" [] OTHER -> at[x]]
        /\ mode' = [mode EXCEPT ![c] = "ready"]
        /\ spawning' = [spawning EXCEPT ![p] = NoChild]
        /\ outcome' = [x \in Coroutines |-> IF x = p THEN "none" ELSE outcome[x]]
        /\ UNCHANGED <<setup, phase, emission, stops>>
        /\ spawning[p].slot # 0
    BY <1>2 DEF Spawn, shutdown
  <2>2. /\ c \in Coroutines /\ at[c] = "none" /\ mode[c] = "gone"
        /\ p = Main => c \in setup.urls
        /\ p # Main => c \in Sessions /\ at[p] = "accept" /\ p \in Listeners /\ p # c
    <3>1. c # None /\ at[c] = "none"
          /\ IF p = Main THEN c \in setup.urls ELSE c \in Sessions /\ at[p] = "accept"
      BY <2>1 DEF Invariant, IInv, Children
    <3>2. c \in Coroutines
      BY <3>1 DEF Invariant, TypeOK
    <3>3. QED
      BY <3>1, <3>2, Distinct DEF Invariant, TypeOK, Live
  <2> HIDE DEF c
  <2>3. /\ mode \in [Coroutines -> {"gone", "ready", "running", "arming", "waiting"}]
        /\ \A q \in Spawners : spawning'[q] = IF q = p THEN NoChild ELSE spawning[q]
    BY <2>1 DEF Invariant, TypeOK
  <2>4. OneRuns'
    BY <2>1, <2>2, <2>3, ThreadsSame DEF OneRuns
  <2>5. SpawnerRuns'
    BY <2>1, <2>2, <2>3, Distinct DEF SpawnerRuns, NoChild
  <2>6. UrlsOnly'
    BY <2>1, <2>2, Distinct DEF UrlsOnly
  <2>7. Handling'
    BY <2>1, <2>2, <2>3, Distinct DEF Handling
  <2>8. Fresh'
    BY <2>1, <2>2, <2>3 DEF Fresh
  <2>9. QED
    BY <2>4, <2>5, <2>6, <2>7, <2>8
<1>3. QED
  BY <1>1, <1>2

(* What a waiting or arming coroutine becomes, who runs is who ran.        *)
LEMMA SettlesRuns ==
  ASSUME Invariant, AInv, NEW c \in Coroutines, mode[c] \in {"arming", "waiting"},
         NEW m \in {"ready", "waiting"}, NEW o,
         mode' = [mode EXCEPT ![c] = m], outcome' = [outcome EXCEPT ![c] = o],
         m = "waiting" => o = outcome[c],
         UNCHANGED <<setup, phase, at, stops>>,
         \A p \in Listeners : spawning'[p].slot \in {0, spawning[p].slot},
         emission'.by \in {None, emission.by}
  PROVE  AInv'
<1> USE DEF AInv
<1>1. /\ mode \in [Coroutines -> {"gone", "ready", "running", "arming", "waiting"}]
      /\ outcome \in [Coroutines -> {"none", "ok", "eof", "fail"}]
  BY DEF Invariant, TypeOK
<1>2. OneRuns'
  BY <1>1, ThreadsSame, Distinct DEF OneRuns
<1>3. SpawnerRuns'
  BY <1>1, Distinct DEF SpawnerRuns
<1>4. UrlsOnly' /\ Handling'
  BY <1>1, Distinct DEF UrlsOnly, Handling
<1>5. Fresh'
  BY <1>1 DEF Fresh
<1>6. QED
  BY <1>2, <1>3, <1>4, <1>5

LEMMA PoolRuns ==
  ASSUME Invariant, AInv, NEW c \in Coroutines,
         \/ Suspend(c) \/ Resume(c) \/ (\E result \in {"ok", "eof", "fail"} : Complete(c, result))
         \/ (\E l \in Listeners, s \in Sessions : Accept(l, s))
  PROVE  AInv'
<1>1. CASE Suspend(c)
  <2>1. /\ mode[c] = "arming" /\ UNCHANGED <<setup, phase, at, stops, spawning, emission>>
        /\ \/ mode' = [mode EXCEPT ![c] = "waiting"] /\ UNCHANGED outcome
           \/ mode' = [mode EXCEPT ![c] = "ready"] /\ outcome' = [outcome EXCEPT ![c] = "fail"]
    BY <1>1 DEF Suspend, shutdown
  <2>2. outcome = [outcome EXCEPT ![c] = outcome[c]]
    BY DEF Invariant, TypeOK
  <2>3. QED
    BY <2>1, <2>2, SettlesRuns
<1>2. CASE Resume(c)
  <2>1. /\ ThreadFree /\ mode[c] = "ready" /\ mode' = [mode EXCEPT ![c] = "running"]
        /\ UNCHANGED <<setup, phase, at, outcome, spawning, emission, stops>>
    BY <1>2 DEF Resume, shutdown
  <2>2. mode \in [Coroutines -> {"gone", "ready", "running", "arming", "waiting"}]
    BY DEF Invariant, TypeOK
  <2>3. OneRuns'
    BY <2>1, <2>2, FreeThread, ThreadsSame DEF OneRuns
  <2>4. QED
    BY <2>1, <2>2, <2>3, Distinct DEF AInv, SpawnerRuns, UrlsOnly, Handling, Fresh
<1>3. ASSUME NEW result \in {"ok", "eof", "fail"}, Complete(c, result)
      PROVE  AInv'
  BY <1>3, SettlesRuns DEF Complete, shutdown
<1>4. ASSUME NEW l \in Listeners, NEW s \in Sessions, Accept(l, s)
      PROVE  AInv'
  <2>1. /\ mode[l] = "waiting" /\ mode' = [mode EXCEPT ![l] = "ready"]
        /\ outcome' = [outcome EXCEPT ![l] = "ok"]
        /\ spawning' = [spawning EXCEPT ![l] = [child |-> s, slot |-> 0]]
        /\ UNCHANGED <<setup, phase, at, emission, stops>>
    BY <1>4 DEF Accept, shutdown
  <2>2. \A p \in Listeners : spawning'[p].slot \in {0, spawning[p].slot}
    BY <2>1, Distinct DEF Invariant, TypeOK
  <2>3. l \in Coroutines
    BY Distinct
  <2>4. QED
    BY <2>1, <2>2, <2>3, SettlesRuns
<1>5. QED
  BY <1>1, <1>2, <1>3, <1>4

(* A cancellation only makes coroutines ready. *)
LEMMA CancelRuns ==
  ASSUME Invariant, AInv, NEW c \in Coroutines, Cancel(c),
         UNCHANGED <<setup, phase, at, spawning, stops>>, emission'.by \in {None, emission.by}
  PROVE  AInv'
<1>1. CASE mode[c] = "waiting"
  BY <1>1, SettlesRuns DEF Cancel
<1>2. CASE mode[c] # "waiting"
  <2>1. UNCHANGED <<mode, outcome>>
    BY <1>2 DEF Cancel
  <2>2. QED
    BY <2>1, ThreadsSame, Distinct
       DEF AInv, OneRuns, SpawnerRuns, UrlsOnly, Handling, Fresh
<1>3. QED
  BY <1>1, <1>2

(* What a step of an emission does. *)
LEMMA Emits ==
  ASSUME Invariant, Emit
  PROVE  /\ UNCHANGED <<setup, phase, at, slots, spawning, raised, signal, handled, stops, dropped>>
         /\ emission # NoEmission /\ emission.at \in 1..Len(slots) + 1 /\ Len(slots) \in Nat
         /\ emission.by \in {Main, User} \cup Sessions
         /\ \/ /\ emission.at > Len(slots) /\ emission' = NoEmission
               /\ UNCHANGED <<cancelled, mode, outcome, posted>>
            \/ /\ emission.at \in 1..Len(slots)
               /\ emission' = [by |-> emission.by, at |-> emission.at + 1]
               /\ slots[emission.at] \in Coroutines \cup {None}
               /\ \/ /\ slots[emission.at] = None \/ emission.by = User
                     /\ UNCHANGED <<cancelled, mode, outcome>>
                  \/ /\ slots[emission.at] \in Coroutines /\ emission.by # User
                     /\ Cancel(slots[emission.at]) /\ UNCHANGED posted
<1>1. /\ UNCHANGED <<setup, phase, at, slots, spawning, raised, signal, handled, stops, dropped>>
      /\ emission # NoEmission /\ emission.at \in 1..Len(slots) + 1 /\ Len(slots) \in Nat
      /\ emission \in [by : {Main, User} \cup Sessions, at : 1..Len(slots) + 1]
  BY DEF Emit, Invariant, TypeOK
<1>2. CASE emission.at > Len(slots)
  BY <1>1, <1>2 DEF Emit
<1>3. CASE ~(emission.at > Len(slots))
  <2> DEFINE c == slots[emission.at]
  <2>1. emission.at \in 1..Len(slots)
    BY <1>1, <1>3
  <2>2. /\ c = None => UNCHANGED <<cancelled, mode, outcome, posted>>
        /\ c # None /\ emission.by = User
             => posted' = posted \cup {c} /\ UNCHANGED <<cancelled, mode, outcome>>
        /\ c # None /\ emission.by # User => Cancel(c) /\ UNCHANGED posted
        /\ emission' = [emission EXCEPT !.at = @ + 1]
    BY <1>3, Zenon DEF Emit
  <2>3. c \in Coroutines \cup {None}
    BY <2>1 DEF Invariant, TypeOK
  <2>4. emission' = [by |-> emission.by, at |-> emission.at + 1]
    BY <1>1, <2>2
  <2> HIDE DEF c
  <2>5. \/ c = None
        \/ emission.by = User /\ UNCHANGED <<cancelled, mode, outcome>>
        \/ c \in Coroutines /\ emission.by # User /\ Cancel(c) /\ UNCHANGED posted
    BY <2>2, <2>3
  <2>6. c = None => UNCHANGED <<cancelled, mode, outcome>>
    BY <2>2
  <2>7. QED
    BY <1>1, <2>1, <2>3, <2>4, <2>5, <2>6 DEF c
<1>4. QED
  BY <1>2, <1>3

LEMMA ShutdownRuns ==
  ASSUME Invariant, AInv,
         \/ Emit \/ HandleSignal \/ (\E c \in Coroutines : DeliverPosted(c))
         \/ (\E caller \in {User} \cup Sessions : Stop(caller))
  PROVE  AInv'
<1>1. CASE Emit
  <2>1. UNCHANGED <<setup, phase, at, spawning, stops>> /\ emission'.by \in {None, emission.by}
    BY <1>1, Emits DEF NoEmission
  <2>2. CASE UNCHANGED <<mode, outcome>>
    BY <2>1, <2>2, ThreadsSame, Distinct
       DEF AInv, OneRuns, SpawnerRuns, UrlsOnly, Handling, Fresh
  <2>3. ASSUME NEW c \in Coroutines, Cancel(c)
        PROVE  AInv'
    BY <2>1, <2>3, CancelRuns
  <2>4. QED
    BY <1>1, <2>2, <2>3, Emits
<1>2. CASE HandleSignal
  <2>1. /\ ThreadFree /\ UNCHANGED <<setup, phase, at, mode, outcome, spawning, stops>>
        /\ emission' \in {emission, [by |-> Main, at |-> 1]}
    BY <1>2 DEF HandleSignal, control
  <2>2. Main \notin Sessions
    BY Distinct
  <2>3. OneRuns'
    BY <2>1, FreeThread, ThreadsSame DEF AInv, OneRuns
  <2>4. QED
    BY <2>1, <2>2, <2>3 DEF AInv, SpawnerRuns, UrlsOnly, Handling, Fresh
<1>3. ASSUME NEW c \in Coroutines, DeliverPosted(c)
      PROVE  AInv'
  <2>1. Cancel(c) /\ UNCHANGED <<setup, phase, at, spawning, stops>> /\ emission' = emission
    BY <1>3 DEF DeliverPosted
  <2>2. QED
    BY <2>1, CancelRuns
<1>4. ASSUME NEW caller \in {User} \cup Sessions, Stop(caller)
      PROVE  AInv'
  <2>1. /\ UNCHANGED <<setup, phase, at, mode, outcome, spawning>>
        /\ emission' = [by |-> caller, at |-> 1] /\ stops' = stops \cup {caller}
        /\ caller \in Sessions => caller = User \/ at[caller] = "handle"
    BY <1>4 DEF Stop, control
  <2>2. User \notin Sessions /\ caller # Main /\ User # None
    BY ServerAssumption, Distinct DEF Coroutines
  <2>3. OneRuns' /\ Handling'
    BY <2>1, <2>2, ThreadsSame DEF AInv, OneRuns, Handling
  <2>4. QED
    BY <2>1, <2>3 DEF AInv, SpawnerRuns, UrlsOnly, Fresh
<1>5. QED
  BY <1>1, <1>2, <1>3, <1>4

LEMMA RunsNext == Invariant /\ AInv /\ [Next]_vars => AInv'
<1> SUFFICES ASSUME Invariant, AInv, [Next]_vars PROVE AInv'
  OBVIOUS
<1>1. CASE \E sig \in Signals : Raise(sig)
  <2>1. UNCHANGED <<setup, phase, at, mode, outcome, spawning, emission, stops>>
    BY <1>1 DEF Raise, control
  <2>2. QED
    BY <2>1, ThreadsSame DEF AInv, OneRuns, SpawnerRuns, UrlsOnly, Handling, Fresh
<1>2. CASE UNCHANGED vars \/ Serve
  <2>1. UNCHANGED <<setup, at, mode, outcome, spawning, emission, stops>>
    BY <1>2 DEF vars, Serve, control, shutdown
  <2>2. QED
    BY <2>1, ThreadsSame DEF AInv, OneRuns, SpawnerRuns, UrlsOnly, Handling, Fresh
<1>3. ASSUME NEW l \in Listeners, Launch(l)
      PROVE  AInv'
  <2>1. /\ spawning' = [spawning EXCEPT ![Main] = [child |-> l, slot |-> 0]]
        /\ UNCHANGED <<setup, phase, at, mode, outcome, emission, stops>>
    BY <1>3 DEF Launch, control, shutdown
  <2>2. \A p \in Listeners : spawning'[p] = spawning[p]
    BY <2>1, Distinct DEF Invariant, TypeOK
  <2>3. QED
    BY <2>1, <2>2, ThreadsSame DEF AInv, OneRuns, SpawnerRuns, UrlsOnly, Handling, Fresh
<1>4. CASE Quits
  <2>1. /\ at' = [c \in Coroutines |-> IF Live(c) THEN "over" ELSE at[c]]
        /\ mode' = [c \in Coroutines |-> "gone"]
        /\ spawning' = [p \in Spawners |-> NoChild]
        /\ UNCHANGED <<setup, emission, stops>> /\ Running = {}
    BY <1>4 DEF Quits, Returns
  <2>2. emission.by \notin Sessions
    BY <2>1, Distinct DEF AInv, Handling, Running
  <2>3. UrlsOnly'
    BY <2>1, Distinct DEF AInv, UrlsOnly, Live
  <2>4. SpawnerRuns' /\ OneRuns' /\ Fresh'
    BY <2>1, Distinct DEF SpawnerRuns, OneRuns, Fresh, NoChild
  <2>5. Handling'
    BY <2>1, <2>2, Distinct DEF AInv, Handling, Live, Invariant, TypeOK
  <2>6. QED
    BY <2>3, <2>4, <2>5 DEF AInv
<1>5. QED
  BY <1>1, <1>2, <1>3, <1>4, Steps, EndsRuns, MovesRuns, SpawnersRun, PoolRuns, ShutdownRuns,
     Distinct

-----------------------------------------------------------------------------
(* Slots. *)

(* A slot that was taken stays free until it is filled. *)
TakenFree ==
  Alone => \A p \in Spawners : spawning[p].slot # 0 => slots[spawning[p].slot] = None

BInv == TakenFree /\ AllReachable

LEMMA AloneSame ==
  ASSUME setup' = setup
  PROVE  Alone' <=> Alone
  BY ThreadsSame DEF Alone

LEMMA OneUrl ==
  ASSUME Invariant, Cardinality(setup.urls) = 1
  PROVE  \A l, m \in setup.urls : l = m
<1>1. IsFiniteSet(setup.urls)
  BY Distinct, ServerAssumption, FS_Subset DEF Invariant, TypeOK
<1>2. QED
  BY <1>1, FS_Singleton

(* With one URL or one thread, who is about to spawn is alone with that.   *)
LEMMA OneTaker ==
  ASSUME Invariant, AInv, Alone, NEW p \in Spawners, NEW q \in Spawners, p # q,
         spawning[p].child # None, p # Main => mode[p] = "running"
  PROVE  spawning[q].slot = 0
<1> SUFFICES ASSUME spawning[q].slot # 0 PROVE FALSE
  OBVIOUS
<1>1. spawning[q].child # None /\ (q # Main => mode[q] = "running")
  BY Distinct DEF Invariant, IInv, Children, AInv, SpawnerRuns
<1>2. p # Main /\ q # Main
  BY <1>1, Distinct DEF Invariant, IInv, NothingRuns, MainDone, NoChild
<1>3. /\ p \in Listeners /\ q \in Listeners /\ p \in Coroutines /\ q \in Coroutines
      /\ at[p] = "accept" /\ at[q] = "accept"
  BY <1>1, <1>2, Distinct DEF Invariant, IInv, Children
<1>4. p \in setup.urls /\ q \in setup.urls
  BY <1>3 DEF AInv, UrlsOnly
<1>5. CASE Threads = 1
  BY <1>1, <1>2, <1>3, <1>5 DEF AInv, OneRuns
<1>6. CASE Cardinality(setup.urls) = 1
  BY <1>4, <1>6, OneUrl
<1>7. QED
  BY <1>5, <1>6 DEF Alone

LEMMA SlotTypes ==
  ASSUME Invariant
  PROVE  /\ slots \in Seq(Coroutines \cup {None}) /\ Len(slots) \in Nat
         /\ DOMAIN slots = 1..Len(slots)
         /\ \A p \in Spawners : spawning[p].slot # 0 => spawning[p].slot \in DOMAIN slots
<1>1. \A p \in Spawners : spawning[p].slot \in 0..Len(slots)
  BY DEF Invariant, TypeOK
<1>2. slots \in Seq(Coroutines \cup {None})
  BY DEF Invariant, TypeOK
<1>3. Len(slots) \in Nat /\ DOMAIN slots = 1..Len(slots)
  BY <1>2
<1>4. QED
  BY <1>1, <1>2, <1>3

(* A coroutine that ends takes at most itself out of its slot. *)
LEMMA EndsSlots ==
  ASSUME Invariant, NEW c \in Coroutines, Over(c)
  PROVE  /\ DOMAIN slots' = DOMAIN slots
         /\ \A i \in DOMAIN slots : slots'[i] = slots[i] \/ (slots[i] = c /\ slots'[i] = None)
         /\ \A x \in Coroutines : Live(x)' <=> Live(x) /\ x # c
<1>1. at' = [at EXCEPT ![c] = "over"] /\ at \in [Coroutines -> Points]
  BY DEF Over, Invariant, TypeOK
<1>2. \A x \in Coroutines : Live(x)' <=> Live(x) /\ x # c
  BY <1>1 DEF Live
<1>3. slots' \in {slots, [i \in DOMAIN slots |-> IF slots[i] = c THEN None ELSE slots[i]]}
  BY DEF Over
<1>4. QED
  BY <1>2, <1>3

LEMMA MovesSlots ==
  ASSUME Invariant, NEW c \in Coroutines, NEW point, NEW m, Moves(c, point, m)
  PROVE  slots' = slots /\ \A x \in Coroutines : Live(x)' <=> Live(x)
<1>1. /\ at' = [at EXCEPT ![c] = point] /\ at \in [Coroutines -> Points]
      /\ point \notin {"none", "over"} /\ slots' = slots
  BY DEF Moves, Goto, Invariant, TypeOK
<1>2. Live(c)
  BY RunsInPool DEF Moves
<1>3. QED
  BY <1>1, <1>2 DEF Live

LEMMA TakeSlots ==
  ASSUME Invariant, NEW p \in Spawners, TakeSlot(p)
  PROVE  /\ SlotFor \in DOMAIN slots' /\ slots'[SlotFor] = None
         /\ DOMAIN slots \subseteq DOMAIN slots'
         /\ \A i \in DOMAIN slots : slots'[i] = slots[i]
         /\ \A i \in DOMAIN slots' : i \notin DOMAIN slots => slots'[i] = None
         /\ \A q \in Spawners : spawning'[q].slot = IF q = p THEN SlotFor ELSE spawning[q].slot
         /\ UNCHANGED <<setup, phase, at, mode, outcome, cancelled, shutdown, dropped>>
         /\ emission = NoEmission
<1>1. /\ slots \in Seq(Coroutines \cup {None}) /\ Len(slots) \in Nat
      /\ SlotFor \in 1..(Len(slots) + 1)
      /\ SlotFor <= Len(slots) => slots[SlotFor] = None
  BY SlotTypes, SlotForFree
<1> DEFINE k == SlotFor
<1>2. /\ spawning' = [spawning EXCEPT ![p].slot = k]
      /\ slots' = IF k > Len(slots) THEN Append(slots, None) ELSE slots
      /\ UNCHANGED <<setup, phase, at, mode, outcome, cancelled, shutdown, dropped>>
      /\ emission = NoEmission
  BY DEF TakeSlot
<1>3. k \in 1..(Len(slots) + 1) /\ (k <= Len(slots) => slots[k] = None)
  BY <1>1
<1> HIDE DEF k
<1>4. spawning \in [Spawners -> [child : Coroutines \cup {None}, slot : 0..Len(slots)]]
  BY DEF Invariant, TypeOK
<1>5. \A q \in Spawners : spawning'[q].slot = IF q = p THEN k ELSE spawning[q].slot
  BY <1>2, <1>4
<1>6. /\ k \in DOMAIN slots' /\ slots'[k] = None
      /\ DOMAIN slots \subseteq DOMAIN slots'
      /\ \A i \in DOMAIN slots : slots'[i] = slots[i]
      /\ \A i \in DOMAIN slots' : i \notin DOMAIN slots => slots'[i] = None
  <2>1. CASE k > Len(slots)
    BY <1>1, <1>2, <1>3, <2>1
  <2>2. CASE ~(k > Len(slots))
    BY <1>1, <1>2, <1>3, <2>2
  <2>3. QED
    BY <2>1, <2>2
<1>7. QED
  BY <1>2, <1>5, <1>6 DEF k

LEMMA SpawnSlots ==
  ASSUME Invariant, NEW p \in Spawners, Spawn(p)
  PROVE  /\ spawning[p].slot \in DOMAIN slots /\ DOMAIN slots' = DOMAIN slots
         /\ \A i \in DOMAIN slots :
              slots'[i] = IF i = spawning[p].slot THEN spawning[p].child ELSE slots[i]
         /\ \A q \in Spawners : spawning'[q] = IF q = p THEN NoChild ELSE spawning[q]
         /\ spawning[p].child \in Coroutines
         /\ \A x \in Coroutines : Live(x)' <=> (x = spawning[p].child \/ Live(x))
         /\ \A x \in Coroutines : x # p /\ x # spawning[p].child => at'[x] = at[x]
         /\ at'[spawning[p].child] = "start"
         /\ p # Main => /\ p \in Listeners /\ spawning[p].child \in Sessions
                        /\ at[p] = "accept" /\ outcome[p] = "ok" /\ at'[p] = "loop"
         /\ p = Main <=> phase = "starting"
         /\ p = Main => spawning[p].child \in setup.urls /\ spawning[p].child \in Listeners
         /\ outcome' = [x \in Coroutines |-> IF x = p THEN "none" ELSE outcome[x]]
         /\ UNCHANGED <<setup, phase, cancelled, shutdown, dropped>>
<1> DEFINE c == spawning[p].child
           k == spawning[p].slot
<1>1. /\ slots' = [slots EXCEPT ![k] = c]
      /\ at' = [x \in Coroutines |->
                  CASE x = c -> "start" [] x = p -> "loop" [] OTHER -> at[x]]
      /\ spawning' = [spawning EXCEPT ![p] = NoChild]
      /\ outcome' = [x \in Coroutines |-> IF x = p THEN "none" ELSE outcome[x]]
      /\ UNCHANGED <<setup, phase, cancelled, shutdown, dropped>> /\ k # 0
  BY DEF Spawn
<1>2. /\ c # None /\ c \in Coroutines /\ at[c] = "none" /\ k \in DOMAIN slots
      /\ IF p = Main
         THEN c \in setup.urls
         ELSE c \in Sessions /\ at[p] = "accept" /\ outcome[p] = "ok"
  <2>1. c # None /\ c \in Coroutines \cup {None}
    BY <1>1 DEF Invariant, IInv, Children, TypeOK
  <2>2. k \in DOMAIN slots
    BY <1>1, SlotTypes
  <2>3. QED
    BY <2>1, <2>2 DEF Invariant, IInv, Children
<1>3. /\ p # Main => p \in Listeners /\ p \in Coroutines /\ p # c
      /\ p = Main => c \in Listeners
      /\ p \notin Coroutines <=> p = Main
  BY <1>2, Distinct DEF Invariant, TypeOK
<1>4. p = Main <=> phase = "starting"
  <2>1. spawning[p] # NoChild
    BY <1>1 DEF NoChild
  <2>2. QED
    BY <1>3, <2>1 DEF Invariant, IInv, NothingRuns, MainDone
<1>5. \A q \in Spawners : spawning'[q] = IF q = p THEN NoChild ELSE spawning[q]
  BY <1>1 DEF Invariant, TypeOK
<1> HIDE DEF c, k
<1>6. \A i \in DOMAIN slots : slots'[i] = IF i = k THEN c ELSE slots[i]
  BY <1>1
<1>7. /\ \A x \in Coroutines : x # p /\ x # c => at'[x] = at[x]
      /\ at'[c] = "start"
      /\ p # Main => at'[p] = "loop"
  BY <1>1, <1>2, <1>3
<1>8. \A x \in Coroutines : Live(x)' <=> (x = c \/ Live(x))
  <2>1. p # Main => at[p] = "accept"
    BY <1>2
  <2>2. QED
    BY <1>3, <1>7, <2>1 DEF Live
<1>9. DOMAIN slots' = DOMAIN slots
  BY <1>1
<1>10. QED
  BY <1>1, <1>2, <1>3, <1>4, <1>5, <1>6, <1>7, <1>8, <1>9 DEF c, k

LEMMA SlotsInit == Init => BInv
  BY DEF Init, BInv, TakenFree, AllReachable, NoChild, Live

(* Steps that leave slots, and who is live, as they are. *)
LEMMA SlotsKept ==
  ASSUME Invariant, BInv, setup' = setup, slots' = slots,
         \A p \in Spawners : spawning'[p].slot \in {0, spawning[p].slot},
         \A x \in Coroutines : Live(x)' => Live(x)
  PROVE  BInv'
<1>1. TakenFree'
  BY AloneSame DEF BInv, TakenFree
<1>2. AllReachable'
  BY AloneSame DEF BInv, AllReachable, Held
<1>3. QED
  BY <1>1, <1>2 DEF BInv

LEMMA SlotsNext == Invariant /\ AInv /\ BInv /\ [Next]_vars => BInv'
<1> SUFFICES ASSUME Invariant, AInv, BInv, [Next]_vars PROVE BInv'
  OBVIOUS
<1>1. ASSUME NEW c \in Coroutines, Ends(c)
      PROVE  BInv'
  <2>1. Over(c) /\ setup' = setup /\ spawning' = spawning
    BY <1>1 DEF Ends, Keeps
  <2>2. /\ DOMAIN slots' = DOMAIN slots
        /\ \A i \in DOMAIN slots : slots'[i] = slots[i] \/ (slots[i] = c /\ slots'[i] = None)
        /\ \A x \in Coroutines : Live(x)' <=> Live(x) /\ x # c
    BY <2>1, EndsSlots
  <2>3. TakenFree'
    BY <2>1, <2>2, AloneSame, SlotTypes DEF BInv, TakenFree
  <2>4. AllReachable'
    BY <2>1, <2>2, AloneSame DEF BInv, AllReachable, Held
  <2>5. QED
    BY <2>3, <2>4 DEF BInv
<1>2. ASSUME NEW c \in Coroutines, NEW point, NEW m, Moves(c, point, m)
      PROVE  BInv'
  BY <1>2, MovesSlots, SlotsKept DEF Moves, Keeps
<1>3. ASSUME NEW p \in Spawners, TakeSlot(p)
      PROVE  BInv'
  <2> DEFINE k == SlotFor
  <2>1. /\ k \in DOMAIN slots' /\ slots'[k] = None
        /\ DOMAIN slots \subseteq DOMAIN slots'
        /\ \A i \in DOMAIN slots : slots'[i] = slots[i]
        /\ \A q \in Spawners : spawning'[q].slot = IF q = p THEN k ELSE spawning[q].slot
        /\ UNCHANGED <<setup, at>>
    BY <1>3, TakeSlots
  <2> HIDE DEF k
  <2>2. Alone => \A q \in Spawners : q # p => spawning[q].slot = 0
    <3>1. spawning[p].child # None /\ (p # Main => mode[p] = "running")
      BY <1>3 DEF TakeSlot
    <3>2. QED
      BY <3>1, OneTaker
  <2>3. TakenFree'
    BY <2>1, <2>2, AloneSame DEF TakenFree
  <2>4. AllReachable'
    BY <2>1, AloneSame DEF BInv, AllReachable, Held, Live
  <2>5. QED
    BY <2>3, <2>4 DEF BInv
<1>4. ASSUME NEW p \in Spawners, Spawn(p)
      PROVE  BInv'
  <2> DEFINE c == spawning[p].child
             k == spawning[p].slot
  <2>1. /\ k \in DOMAIN slots /\ DOMAIN slots' = DOMAIN slots
        /\ \A i \in DOMAIN slots : slots'[i] = IF i = k THEN c ELSE slots[i]
        /\ \A q \in Spawners : spawning'[q] = IF q = p THEN NoChild ELSE spawning[q]
        /\ \A x \in Coroutines : Live(x)' <=> (x = c \/ Live(x))
        /\ setup' = setup
    BY <1>4, SpawnSlots
  <2>2. Alone => \A q \in Spawners : q # p => spawning[q].slot = 0
    <3>1. spawning[p].slot # 0
      BY <1>4 DEF Spawn
    <3>2. spawning[p].child # None /\ (p # Main => mode[p] = "running")
      BY <3>1, Distinct DEF Invariant, IInv, Children, AInv, SpawnerRuns
    <3>3. QED
      BY <3>2, OneTaker
  <2>3. Alone => slots[k] = None
    BY <1>4 DEF BInv, TakenFree, Spawn
  <2> HIDE DEF c, k
  <2>4. TakenFree'
    BY <2>1, <2>2, AloneSame DEF TakenFree, NoChild
  <2>5. AllReachable'
    <3>1. ASSUME NEW x \in Coroutines, Alone, x = c \/ Live(x)
          PROVE  \E i \in DOMAIN slots : slots'[i] = x
      <4>1. CASE x = c
        BY <2>1, <4>1
      <4>2. CASE x # c
        <5>1. PICK i \in DOMAIN slots : slots[i] = x
          BY <3>1, <4>2 DEF BInv, AllReachable, Held
        <5>2. x # None
          BY Distinct
        <5>3. QED
          BY <2>1, <2>3, <3>1, <5>1, <5>2
      <4>3. QED
        BY <4>1, <4>2
    <3>2. QED
      BY <2>1, <3>1, AloneSame DEF AllReachable, Held
  <2>6. QED
    BY <2>4, <2>5 DEF BInv
<1>5. ASSUME NEW c \in Coroutines,
             \/ Suspend(c) \/ Resume(c) \/ DeliverPosted(c)
             \/ \E result \in {"ok", "eof", "fail"} : Complete(c, result)
      PROVE  BInv'
  <2>1. UNCHANGED <<setup, at, slots, spawning>>
    BY <1>5 DEF Suspend, Resume, DeliverPosted, Complete
  <2>2. QED
    BY <2>1, SlotsKept DEF Live
<1>6. ASSUME NEW l \in Listeners, NEW s \in Sessions, Accept(l, s)
      PROVE  BInv'
  <2>1. /\ UNCHANGED <<setup, at, slots>>
        /\ spawning' = [spawning EXCEPT ![l] = [child |-> s, slot |-> 0]]
    BY <1>6 DEF Accept
  <2>2. \A p \in Spawners : spawning'[p].slot \in {0, spawning[p].slot}
    BY <2>1 DEF Invariant, TypeOK
  <2>3. QED
    BY <2>1, <2>2, SlotsKept DEF Live
<1>7. ASSUME NEW l \in Listeners, Launch(l)
      PROVE  BInv'
  <2>1. /\ UNCHANGED <<setup, at, slots>>
        /\ spawning' = [spawning EXCEPT ![Main] = [child |-> l, slot |-> 0]]
    BY <1>7 DEF Launch, control
  <2>2. \A p \in Spawners : spawning'[p].slot \in {0, spawning[p].slot}
    BY <2>1 DEF Invariant, TypeOK
  <2>3. QED
    BY <2>1, <2>2, SlotsKept DEF Live
<1>8. CASE \/ HandleSignal \/ Serve \/ UNCHANGED vars
           \/ \E sig \in Signals : Raise(sig)
           \/ \E caller \in {User} \cup Sessions : Stop(caller)
  <2>1. UNCHANGED <<setup, at, slots, spawning>>
    BY <1>8 DEF HandleSignal, Serve, vars, Raise, Stop, control
  <2>2. QED
    BY <2>1, SlotsKept DEF Live
<1>9. CASE Emit
  <2>1. UNCHANGED <<setup, at, slots, spawning>>
    BY <1>9, Emits
  <2>2. QED
    BY <2>1, SlotsKept DEF Live
<1>10. CASE Quits
  <2>1. /\ UNCHANGED <<setup, slots>> /\ \A x \in Coroutines : ~Live(x)'
        /\ \A p \in Spawners : spawning'[p].slot = 0
    BY <1>10 DEF Quits, Returns, Live, NoChild
  <2>2. QED
    BY <2>1, SlotsKept
<1>11. QED
  BY <1>1, <1>2, <1>3, <1>4, <1>5, <1>6, <1>7, <1>8, <1>9, <1>10, Steps

(* With one URL or one thread every live coroutine has a slot, however     *)
(* many connections come and go.                                           *)
THEOREM EveryoneReachable == Spec => []AllReachable
<1>1. BInv => AllReachable
  BY DEF BInv
<1>2. QED
  BY <1>1, InitOK, Inductive, RunsInit, RunsNext, SlotsInit, SlotsNext, PTL DEF Spec

-----------------------------------------------------------------------------
(* Responses. *)

(* On one thread a session that handles its request is cancelled by its    *)
(* own endpoint's stop() only.                                             *)
CInv ==
  Threads = 1 =>
    /\ \A c \in Coroutines : at[c] = "handle" /\ cancelled[c] => c \in stops
    /\ dropped \subseteq stops

LEMMA ResponsesInit == Init => CInv
  BY DEF Init, CInv

(* Who is emitting when a cancellation is delivered. *)
LEMMA CancelResponses ==
  ASSUME Invariant, AInv, CInv, NEW c \in Coroutines, Cancel(c),
         UNCHANGED <<setup, at, stops, dropped>>,
         ThreadFree \/ emission.by \in {Main} \cup Sessions
  PROVE  CInv'
<1> SUFFICES ASSUME Threads = 1 PROVE CInv'
  BY ThreadsSame DEF CInv
<1>1. at[c] = "handle" => c \in stops
  <2>1. SUFFICES ASSUME at[c] = "handle" PROVE c \in stops
    OBVIOUS
  <2>2. mode[c] = "running"
    BY <2>1 DEF AInv, Handling
  <2>3. emission.by \in Sessions
    BY <2>2, FreeThread DEF AInv, OneRuns
  <2>4. mode[emission.by] = "running" /\ emission.by \in stops
    BY <2>3, Distinct DEF AInv, Handling
  <2>5. emission.by = c
    BY <2>2, <2>3, <2>4, Distinct DEF AInv, OneRuns
  <2>6. QED
    BY <2>4, <2>5
<1>2. \A x \in Coroutines : x # c => cancelled'[x] = cancelled[x]
  BY DEF Cancel, Invariant, TypeOK
<1>3. QED
  BY <1>1, <1>2, ThreadsSame DEF CInv

LEMMA ResponsesNext == Invariant /\ AInv /\ BInv /\ CInv /\ [Next]_vars => CInv'
<1> SUFFICES ASSUME Invariant, AInv, BInv, CInv, [Next]_vars PROVE CInv'
  OBVIOUS
<1>1. ASSUME NEW c \in Coroutines, Ends(c)
      PROVE  CInv'
  <2>1. /\ at' = [at EXCEPT ![c] = "over"] /\ cancelled' = [cancelled EXCEPT ![c] = FALSE]
        /\ UNCHANGED <<setup, stops>> /\ at \in [Coroutines -> Points]
        /\ cancelled \in [Coroutines -> BOOLEAN]
    BY <1>1 DEF Ends, Keeps, shutdown, Over, Invariant, TypeOK
  <2>2. Threads = 1 => dropped' \subseteq stops
    <3>1. SUFFICES ASSUME Threads = 1, c \in Sessions, at[c] = "handle", TRUE \in Seen(c),
                          dropped' = dropped \cup {c}
                   PROVE  c \in stops
      BY <1>1 DEF Ends, CInv
    <3>2. c \in Held
      BY <3>1 DEF BInv, AllReachable, Alone, Live
    <3>3. cancelled[c]
      BY <3>1, <3>2, <2>1 DEF Seen
    <3>4. QED
      BY <3>1, <3>3 DEF CInv
  <2>3. QED
    BY <2>1, <2>2, ThreadsSame DEF CInv
<1>2. ASSUME NEW c \in Coroutines, NEW point, NEW m, Moves(c, point, m)
      PROVE  CInv'
  <2>1. /\ at' = [at EXCEPT ![c] = point] /\ UNCHANGED <<setup, stops, cancelled, dropped>>
        /\ point = "handle" => FALSE \in Seen(c)
        /\ at \in [Coroutines -> Points] /\ cancelled \in [Coroutines -> BOOLEAN]
    BY <1>2 DEF Moves, Keeps, shutdown, Goto, Invariant, TypeOK
  <2>2. Live(c)
    BY <1>2, RunsInPool DEF Moves
  <2>3. Threads = 1 /\ point = "handle" => ~cancelled[c]
    BY <2>1, <2>2 DEF BInv, AllReachable, Alone, Seen
  <2>4. QED
    BY <2>1, <2>3, ThreadsSame DEF CInv
<1>3. ASSUME NEW p \in Spawners, TakeSlot(p)
      PROVE  CInv'
  BY <1>3, TakeSlots, ThreadsSame DEF CInv, shutdown
<1>4. ASSUME NEW p \in Spawners, Spawn(p)
      PROVE  CInv'
  <2>1. /\ \A x \in Coroutines : x # p /\ x # spawning[p].child => at'[x] = at[x]
        /\ at'[spawning[p].child] = "start"
        /\ p # Main => at'[p] = "loop"
        /\ UNCHANGED <<setup, cancelled, stops, dropped>>
    BY <1>4, SpawnSlots DEF shutdown
  <2>2. \A x \in Coroutines : at'[x] = "handle" => at[x] = "handle"
    BY <2>1, Distinct
  <2>3. QED
    BY <2>1, <2>2, ThreadsSame DEF CInv
<1>5. ASSUME NEW c \in Coroutines,
             \/ Suspend(c) \/ Resume(c)
             \/ \E result \in {"ok", "eof", "fail"} : Complete(c, result)
      PROVE  CInv'
  BY <1>5, ThreadsSame DEF Suspend, Resume, Complete, CInv, shutdown
<1>6. ASSUME NEW c \in Coroutines, DeliverPosted(c)
      PROVE  CInv'
  <2>1. Cancel(c) /\ ThreadFree /\ UNCHANGED <<setup, at, stops, dropped>>
    BY <1>6 DEF DeliverPosted
  <2>2. QED
    BY <2>1, CancelResponses
<1>7. CASE Emit
  <2>1. UNCHANGED <<setup, at, stops, dropped>> /\ emission.by \in {Main, User} \cup Sessions
    BY <1>7, Emits
  <2>2. CASE UNCHANGED cancelled
    BY <2>1, <2>2, ThreadsSame DEF CInv
  <2>3. ASSUME NEW c \in Coroutines, Cancel(c), emission.by # User
        PROVE  CInv'
    BY <2>1, <2>3, CancelResponses
  <2>4. QED
    BY <1>7, <2>2, <2>3, Emits
<1>8. CASE \/ HandleSignal \/ Serve \/ UNCHANGED vars \/ (\E l \in Listeners : Launch(l))
           \/ \E sig \in Signals : Raise(sig)
           \/ \E l \in Listeners, s \in Sessions : Accept(l, s)
  <2>1. UNCHANGED <<setup, at, cancelled, stops, dropped>>
    BY <1>8 DEF HandleSignal, Serve, vars, Launch, Raise, Accept, control, shutdown
  <2>2. QED
    BY <2>1, ThreadsSame DEF CInv
<1>9. ASSUME NEW caller \in {User} \cup Sessions, Stop(caller)
      PROVE  CInv'
  <2>1. UNCHANGED <<setup, at, cancelled, dropped>> /\ stops \subseteq stops'
    BY <1>9 DEF Stop, control
  <2>2. QED
    BY <2>1, ThreadsSame DEF CInv
<1>10. CASE Quits
  <2>1. cancelled' = [c \in Coroutines |-> FALSE] /\ UNCHANGED <<setup, stops, dropped>>
    BY <1>10 DEF Quits, Returns
  <2>2. QED
    BY <2>1, ThreadsSame DEF CInv
<1>11. QED
  BY <1>1, <1>2, <1>3, <1>4, <1>5, <1>6, <1>7, <1>8, <1>9, <1>10, Steps

(* Who called stop() on one thread still handles its request, cancelled or *)
(* about to be, or has ended with its response dropped.                    *)
Coming(s) == emission.by = s /\ \E i \in DOMAIN slots : i >= emission.at /\ slots[i] = s

Stoppers ==
  Threads = 1 =>
    \A s \in stops \cap Sessions :
      IF s \in dropped
      THEN at[s] = "over"
      ELSE at[s] = "handle" /\ (cancelled[s] \/ Coming(s))

(* Nothing is cancelled before a shutdown is asked for. *)
Quiet ==
  ~handled /\ stops = {} =>
    /\ emission = NoEmission /\ posted = {} /\ \A c \in Coroutines : ~cancelled[c]
    /\ Alone => dropped = {}

EInv == Stoppers /\ Quiet

LEMMA KeptInit == Init => EInv
  BY DEF Init, EInv, Stoppers, Quiet


(* Steps by which a caller of stop() loses nothing.                        *)
LEMMA StoppersKept ==
  ASSUME Stoppers, setup' = setup, stops' = stops, dropped' = dropped,
         \A s \in stops \cap Sessions :
           /\ at'[s] = at[s]
           /\ at[s] = "handle" =>
                /\ cancelled[s] => cancelled'[s]
                /\ Coming(s) => Coming(s)' \/ cancelled'[s]
  PROVE  Stoppers'
BY ThreadsSame DEF Stoppers

(* A cancellation that is delivered to one who lives stays. *)
LEMMA CancelStays ==
  ASSUME Invariant, NEW c \in Coroutines, Cancel(c), NEW x \in Coroutines, Live(x)
  PROVE  (cancelled[x] => cancelled'[x]) /\ (x = c => cancelled'[x])
<1>1. cancelled' = [cancelled EXCEPT ![c] = Live(c)] /\ cancelled \in [Coroutines -> BOOLEAN]
  BY DEF Cancel, Invariant, TypeOK
<1>2. QED
  BY <1>1

LEMMA StoppersNext == Invariant /\ AInv /\ BInv /\ CInv /\ Stoppers /\ [Next]_vars => Stoppers'
<1> SUFFICES ASSUME Invariant, AInv, BInv, CInv, Stoppers, [Next]_vars PROVE Stoppers'
  OBVIOUS
<1>1. ASSUME NEW c \in Coroutines, Ends(c)
      PROVE  Stoppers'
  <2>1. /\ at' = [at EXCEPT ![c] = "over"] /\ at \in [Coroutines -> Points]
        /\ \A x \in Coroutines : x # c => cancelled'[x] = cancelled[x]
        /\ UNCHANGED <<setup, stops, emission>> /\ Live(c)
    BY <1>1, RunsInPool DEF Ends, Keeps, shutdown, Over, Invariant, TypeOK
  <2>2. /\ DOMAIN slots' = DOMAIN slots
        /\ \A i \in DOMAIN slots : slots'[i] = slots[i] \/ (slots[i] = c /\ slots'[i] = None)
    BY <1>1, EndsSlots DEF Ends
  <2>3. SUFFICES ASSUME Threads = 1, NEW s \in stops \cap Sessions
                 PROVE  IF s \in dropped' THEN at'[s] = "over"
                        ELSE at'[s] = "handle" /\ (cancelled'[s] \/ Coming(s)')
    BY <2>1, ThreadsSame DEF Stoppers
  <2>4. CASE s = c
    <3>1. s \notin dropped /\ at[c] = "handle"
      BY <2>1, <2>3, <2>4 DEF Stoppers, Live
    <3>2. s \in dropped'
      BY <1>1, <2>4, <3>1 DEF Ends
    <3>3. QED
      BY <2>1, <2>4, <3>2
  <2>5. CASE s # c
    <3>1. s \in Coroutines /\ (s \in dropped' <=> s \in dropped)
      BY <1>1, <2>3, <2>5, Distinct DEF Ends
    <3>2. Coming(s) => Coming(s)'
      BY <2>1, <2>2, <2>5 DEF Coming
    <3>3. QED
      BY <2>1, <2>3, <2>5, <3>1, <3>2 DEF Stoppers
  <2>6. QED
    BY <2>4, <2>5
<1>2. ASSUME NEW c \in Coroutines, NEW point, NEW m, Moves(c, point, m)
      PROVE  Stoppers'
  <2>1. /\ at' = [at EXCEPT ![c] = point] /\ at \in [Coroutines -> Points]
        /\ UNCHANGED <<setup, stops, emission, slots, cancelled, dropped>> /\ Live(c)
    BY <1>2, RunsInPool DEF Moves, Keeps, Goto, shutdown, Invariant, TypeOK
  <2>2. Threads = 1 => c \notin stops \cap Sessions
    <3>1. SUFFICES ASSUME Threads = 1, c \in stops, c \in Sessions PROVE FALSE
      OBVIOUS
    <3>2. at[c] = "handle" /\ (cancelled[c] \/ Coming(c))
      BY <2>1, <3>1 DEF Stoppers, Live
    <3>3. cancelled[c]
      BY <1>2, <3>2 DEF Moves, Coming
    <3>4. c \in Held
      BY <2>1, <3>1 DEF BInv, AllReachable, Alone
    <3>5. FALSE \notin Seen(c)
      BY <3>3, <3>4 DEF Seen
    <3>6. point # "loop"
      BY <1>2, <3>1, Distinct DEF Moves
    <3>7. QED
      BY <1>2, <3>5, <3>6 DEF Moves
  <2>3. QED
    BY <2>1, <2>2, ThreadsSame, Distinct DEF Stoppers, Coming
<1>3. ASSUME NEW p \in Spawners, TakeSlot(p)
      PROVE  Stoppers'
  <2>1. UNCHANGED <<setup, at, cancelled, stops, dropped>> /\ emission = NoEmission
    BY <1>3, TakeSlots DEF shutdown
  <2>2. \A s \in Sessions : ~Coming(s)
    BY <2>1, Distinct DEF Coming, NoEmission
  <2>3. QED
    BY <2>1, <2>2, StoppersKept
<1>4. ASSUME NEW p \in Spawners, Spawn(p)
      PROVE  Stoppers'
  <2> DEFINE c == spawning[p].child
             k == spawning[p].slot
  <2>1. /\ k \in DOMAIN slots /\ DOMAIN slots' = DOMAIN slots
        /\ \A i \in DOMAIN slots : slots'[i] = IF i = k THEN c ELSE slots[i]
        /\ \A x \in Coroutines : x # p /\ x # c => at'[x] = at[x]
        /\ p # Main => p \in Listeners
        /\ UNCHANGED <<setup, cancelled, emission, stops, dropped>>
    BY <1>4, SpawnSlots DEF shutdown
  <2>2. at[c] = "none" /\ (Alone => slots[k] = None)
    BY <1>4 DEF Spawn, Invariant, IInv, Children, BInv, TakenFree
  <2> HIDE DEF c, k
  <2>3. SUFFICES ASSUME Threads = 1 PROVE Stoppers'
    BY <2>1, ThreadsSame DEF Stoppers
  <2>4. ASSUME NEW s \in stops \cap Sessions
        PROVE  at'[s] = at[s] /\ (Coming(s) => Coming(s)')
    <3>1. at[s] # "none" /\ s \in Coroutines /\ s \notin Listeners /\ s # Main /\ s # None
      BY <2>3, <2>4, Distinct DEF Stoppers
    <3>2. at'[s] = at[s]
      BY <2>1, <2>2, <3>1
    <3>3. ASSUME Coming(s) PROVE Coming(s)'
      <4>1. PICK i \in DOMAIN slots : i >= emission.at /\ slots[i] = s
        BY <3>3 DEF Coming
      <4>2. i # k
        BY <2>2, <2>3, <3>1, <4>1 DEF Alone
      <4>3. QED
        BY <2>1, <3>3, <4>1, <4>2 DEF Coming
    <3>4. QED
      BY <3>2, <3>3
  <2>5. QED
    BY <2>1, <2>4, StoppersKept
<1>5. ASSUME NEW c \in Coroutines,
             \/ Suspend(c) \/ Resume(c)
             \/ \E result \in {"ok", "eof", "fail"} : Complete(c, result)
      PROVE  Stoppers'
  BY <1>5, StoppersKept DEF Suspend, Resume, Complete, shutdown, Coming
<1>6. ASSUME NEW c \in Coroutines, DeliverPosted(c)
      PROVE  Stoppers'
  <2>1. Cancel(c) /\ UNCHANGED <<setup, at, slots, emission, stops, dropped>>
    BY <1>6 DEF DeliverPosted
  <2>2. \A s \in Sessions : at[s] = "handle" => Live(s) /\ s \in Coroutines
    BY Distinct DEF Live
  <2>3. QED
    BY <2>1, <2>2, CancelStays, StoppersKept DEF Coming
<1>7. CASE Emit
  <2>1. UNCHANGED <<setup, at, slots, stops, dropped>>
    BY <1>7, Emits
  <2>2. SUFFICES ASSUME NEW s \in stops \cap Sessions, at[s] = "handle"
                 PROVE  /\ cancelled[s] => cancelled'[s]
                        /\ Coming(s) => Coming(s)' \/ cancelled'[s]
    BY <2>1, StoppersKept
  <2>3. s \in Coroutines /\ Live(s) /\ s # User /\ s # None
    BY <2>2, Distinct DEF Live
  <2>4. CASE emission.at > Len(slots) /\ UNCHANGED cancelled
    <3>1. emission.at \in Nat /\ DOMAIN slots = 1..Len(slots) /\ Len(slots) \in Nat
      BY <1>7, Emits, SlotTypes
    <3>2. ~Coming(s)
      BY <2>4, <3>1 DEF Coming
    <3>3. QED
      BY <2>4, <3>2
  <2>5. CASE /\ emission.at \in 1..Len(slots)
             /\ emission' = [by |-> emission.by, at |-> emission.at + 1]
             /\ slots[emission.at] = None \/ emission.by = User
             /\ UNCHANGED cancelled
    <3>1. ASSUME Coming(s) PROVE Coming(s)'
      <4>1. PICK i \in DOMAIN slots : i >= emission.at /\ slots[i] = s
        BY <3>1 DEF Coming
      <4>2. emission.by = s /\ i # emission.at
        BY <2>3, <2>5, <3>1, <4>1 DEF Coming
      <4>3. i >= emission.at + 1
        BY <2>5, <4>1, <4>2, SlotTypes
      <4>4. QED
        BY <2>1, <2>5, <4>1, <4>2, <4>3 DEF Coming
    <3>2. QED
      BY <2>5, <3>1
  <2>6. CASE /\ emission.at \in 1..Len(slots)
             /\ emission' = [by |-> emission.by, at |-> emission.at + 1]
             /\ slots[emission.at] \in Coroutines /\ Cancel(slots[emission.at])
    <3>1. /\ cancelled[s] => cancelled'[s]
          /\ s = slots[emission.at] => cancelled'[s]
      BY <2>3, <2>6, CancelStays
    <3>2. ASSUME Coming(s), s # slots[emission.at] PROVE Coming(s)'
      <4>1. PICK i \in DOMAIN slots : i >= emission.at /\ slots[i] = s
        BY <3>2 DEF Coming
      <4>2. i >= emission.at + 1
        BY <2>6, <3>2, <4>1, SlotTypes
      <4>3. QED
        BY <2>1, <2>6, <3>2, <4>1, <4>2 DEF Coming
    <3>3. QED
      BY <3>1, <3>2
  <2>7. QED
    BY <1>7, <2>4, <2>5, <2>6, Emits
<1>8. CASE HandleSignal
  <2>1. /\ UNCHANGED <<setup, at, slots, cancelled, stops, dropped>>
        /\ emission' = emission \/ emission = NoEmission
    BY <1>8 DEF HandleSignal, control
  <2>2. \A s \in Sessions : Coming(s) => Coming(s)'
    BY <2>1, Distinct DEF Coming, NoEmission
  <2>3. QED
    BY <2>1, <2>2, StoppersKept
<1>9. ASSUME NEW caller \in {User} \cup Sessions, Stop(caller)
      PROVE  Stoppers'
  <2>1. /\ UNCHANGED <<setup, at, slots, cancelled, dropped>> /\ stops' = stops \cup {caller}
        /\ emission = NoEmission /\ emission' = [by |-> caller, at |-> 1] /\ caller \notin stops
    BY <1>9 DEF Stop, control
  <2>2. SUFFICES ASSUME Threads = 1, NEW s \in stops' \cap Sessions
                 PROVE  IF s \in dropped THEN at[s] = "over"
                        ELSE at[s] = "handle" /\ (cancelled[s] \/ Coming(s)')
    BY <2>1, ThreadsSame DEF Stoppers
  <2>3. CASE s \in stops
    <3>1. ~Coming(s)
      BY <2>1, <2>2, Distinct DEF Coming, NoEmission
    <3>2. QED
      BY <2>2, <2>3, <3>1 DEF Stoppers
  <2>4. CASE s \notin stops
    <3>1. s = caller /\ s \notin dropped /\ s # User /\ s \in Coroutines
      BY <2>1, <2>2, <2>4, Distinct DEF CInv
    <3>2. at[s] = "handle"
      BY <1>9, <3>1 DEF Stop
    <3>3. s \in Held
      BY <2>2, <3>1, <3>2 DEF BInv, AllReachable, Alone, Live
    <3>4. PICK i \in DOMAIN slots : slots[i] = s
      BY <3>3 DEF Held
    <3>5. i >= 1
      BY <3>4, SlotTypes
    <3>6. Coming(s)'
      BY <2>1, <3>1, <3>4, <3>5 DEF Coming
    <3>7. QED
      BY <3>1, <3>2, <3>6
  <2>5. QED
    BY <2>3, <2>4
<1>10. CASE \/ Serve \/ UNCHANGED vars \/ (\E l \in Listeners : Launch(l))
            \/ \E sig \in Signals : Raise(sig)
            \/ \E l \in Listeners, s \in Sessions : Accept(l, s)
  <2>1. UNCHANGED <<setup, at, slots, cancelled, emission, stops, dropped>>
    BY <1>10 DEF Serve, vars, Launch, Raise, Accept, control, shutdown
  <2>2. QED
    BY <2>1, StoppersKept DEF Coming
<1>11. CASE Quits
  <2>1. /\ at' = [c \in Coroutines |-> IF Live(c) THEN "over" ELSE at[c]]
        /\ UNCHANGED <<setup, stops, dropped>> /\ Running = {}
    BY <1>11 DEF Quits, Returns
  <2>2. \A s \in Sessions : s \in Coroutines /\ at[s] # "handle"
    BY <2>1, Distinct DEF AInv, Handling, Running
  <2>3. QED
    BY <2>1, <2>2, ThreadsSame DEF Stoppers, Live
<1>12. QED
  BY <1>1, <1>2, <1>3, <1>4, <1>5, <1>6, <1>7, <1>8, <1>9, <1>10, <1>11, Steps

LEMMA QuietNext == Invariant /\ BInv /\ Quiet /\ [Next]_vars => Quiet'
<1> SUFFICES ASSUME Invariant, BInv, Quiet, [Next]_vars, ~handled', stops' = {} PROVE Quiet'
  BY DEF Quiet
<1>1. SUFFICES ASSUME ~handled, stops = {}, emission = NoEmission, posted = {},
                      \A c \in Coroutines : ~cancelled[c], Alone => dropped = {}
               PROVE  Quiet'
  <2>1. ~handled /\ stops = {}
    <3>1. CASE UNCHANGED <<handled, stops>>
      BY <3>1
    <3>2. CASE HandleSignal \/ Emit
      BY <3>2, Emits DEF HandleSignal
    <3>3. CASE \E caller \in {User} \cup Sessions : Stop(caller)
      BY <3>3 DEF Stop
    <3>4. CASE Quits
      BY <3>4 DEF Quits, Returns
    <3>5. QED
      BY <3>1, <3>2, <3>3, <3>4, Steps DEF Ends, Moves, Keeps, TakeSlot, Spawn, Suspend, Resume,
         DeliverPosted, Complete, Accept, Raise, Launch, Serve, vars, shutdown
  <2>2. QED
    BY <2>1 DEF Quiet
<1>2. ASSUME UNCHANGED <<setup, emission, posted, cancelled, dropped>> PROVE Quiet'
  BY <1>1, <1>2, AloneSame DEF Quiet, NoEmission
<1>3. ASSUME NEW c \in Coroutines, Ends(c) PROVE Quiet'
  <2>1. /\ UNCHANGED <<setup, emission, posted>>
        /\ \A x \in Coroutines : ~cancelled'[x]
    BY <1>1, <1>3 DEF Ends, Keeps, shutdown, Over, Invariant, TypeOK
  <2>2. ASSUME Alone PROVE dropped' = {}
    <3>1. Live(c)
      BY <1>3, RunsInPool DEF Ends
    <3>2. TRUE \notin Seen(c)
      BY <1>1, <2>2, <3>1 DEF BInv, AllReachable, Seen
    <3>3. QED
      BY <1>1, <1>3, <2>2, <3>2 DEF Ends
  <2>3. QED
    BY <1>1, <2>1, <2>2, AloneSame DEF Quiet, NoEmission
<1>4. ASSUME NEW c \in Coroutines, NEW point, NEW m, Moves(c, point, m) PROVE Quiet'
  BY <1>2, <1>4 DEF Moves, Keeps, Goto, shutdown
<1>5. CASE \/ \E p \in Spawners : TakeSlot(p) \/ Spawn(p)
           \/ \E c \in Coroutines : Suspend(c) \/ Resume(c)
           \/ \E c \in Coroutines, result \in {"ok", "eof", "fail"} : Complete(c, result)
           \/ \E l \in Listeners, s \in Sessions : Accept(l, s)
           \/ \E sig \in Signals : Raise(sig)
           \/ (\E l \in Listeners : Launch(l)) \/ Serve \/ UNCHANGED vars
  BY <1>2, <1>5 DEF TakeSlot, Spawn, Suspend, Resume, Complete, Accept, Raise, Launch, Serve, vars,
     control, shutdown
<1>6. CASE \/ Emit \/ HandleSignal \/ (\E c \in Coroutines : DeliverPosted(c))
           \/ \E caller \in {User} \cup Sessions : Stop(caller)
  BY <1>1, <1>6 DEF Emit, HandleSignal, DeliverPosted, Stop
<1>7. CASE Quits
  <2>1. /\ UNCHANGED <<setup, emission, dropped>> /\ posted' = {}
        /\ \A c \in Coroutines : ~cancelled'[c]
    BY <1>7 DEF Quits, Returns
  <2>2. QED
    BY <1>1, <2>1, AloneSame DEF Quiet, NoEmission
<1>8. QED
  BY <1>3, <1>4, <1>5, <1>6, <1>7, Steps

(* With one URL or one thread no response is lost, and no write under way  *)
(* cancelled, before a shutdown is asked for; on one thread the write of a *)
(* response is then begun exactly if the endpoint that made it did not     *)
(* call stop(), for any number of connections, signals and callers.        *)
THEOREM OnlyStoppersDrop == Spec => []ResponsesKept
<1> DEFINE J == Invariant /\ AInv /\ BInv /\ CInv /\ EInv
<1>1. J => ResponsesKept
  <2> SUFFICES ASSUME J PROVE ResponsesKept
    OBVIOUS
  <2>1. Alone /\ ~handled /\ stops = {} =>
          dropped = {} /\ \A s \in Sessions : at[s] = "write" => ~cancelled[s]
    BY Distinct DEF EInv, Quiet
  <2>2. Threads = 1 => dropped = {s \in stops \cap Sessions : at[s] = "over"}
    <3>1. SUFFICES ASSUME Threads = 1
                   PROVE  dropped = {s \in stops \cap Sessions : at[s] = "over"}
      OBVIOUS
    <3>2. dropped \subseteq stops \cap Sessions
      BY <3>1 DEF CInv, Invariant, TypeOK
    <3>3. \A s \in stops \cap Sessions : s \in dropped <=> at[s] = "over"
      BY <3>1 DEF EInv, Stoppers
    <3>4. QED
      BY <3>2, <3>3
  <2>3. QED
    BY <2>1, <2>2 DEF ResponsesKept
<1>2. Init => J
  BY InitOK, RunsInit, SlotsInit, ResponsesInit, KeptInit
<1>3. J /\ [Next]_vars => J'
  BY Inductive, RunsNext, SlotsNext, ResponsesNext, StoppersNext, QuietNext DEF EInv
<1>4. QED
  BY <1>1, <1>2, <1>3, PTL DEF Spec

-----------------------------------------------------------------------------
(* SIGINT. *)

Interrupted == signal = "SIGINT" /\ handled /\ phase = "serving"

(* The signal handler's emission has not come to the coroutine's slot yet. *)
ToCome(c) ==
  emission.by = Main /\ \E j \in DOMAIN slots : j >= emission.at /\ slots[j] = c

(* Sessions that the emission has passed by, listeners that may spawn      *)
(* another, and whether a listener still waits for its cancellation.       *)
Missed    == {s \in Sessions : Live(s) /\ ~cancelled[s] /\ ~ToCome(s)}
Accepting == {l \in Listeners : at[l] = "accept"}
Unreached == \E l \in Listeners : Live(l) /\ ~cancelled[l]

(* A single listener has the first slot, which is emitted first. *)
FirstSlot ==
  Cardinality(setup.urls) = 1 =>
    /\ \A l \in Listeners, j \in DOMAIN slots : slots[j] = l => j = 1
    /\ spawning[Main].slot \in {0, 1}
    /\ phase = "starting" /\ (\A l \in Listeners : at[l] = "none") /\ spawning[Main].slot = 0 =>
         slots = <<>>

SignalOnce ==
  /\ phase = "starting" => signal = "none"
  /\ handled => signal # "none"

(* While a listener is not cancelled nobody has been missed. One that is   *)
(* lets at most the session begin that it has accepted.                    *)
Reaching ==
  Interrupted =>
    /\ \A l \in Listeners : Live(l) => cancelled[l] \/ ToCome(l)
    /\ Alone => /\ Unreached => Missed = {}
                /\ Cardinality(Missed) + Cardinality(Accepting) <= Cardinality(setup.urls)

DInv == FirstSlot /\ SignalOnce /\ Reaching

LEMMA FewerMissed ==
  ASSUME NEW U, IsFiniteSet(U), NEW M, IsFiniteSet(M), NEW A \in SUBSET U,
         Cardinality(M) + Cardinality(A) <= Cardinality(U),
         NEW M2 \in SUBSET M, NEW A2 \in SUBSET A
  PROVE  Cardinality(M2) + Cardinality(A2) <= Cardinality(U)
<1>1. IsFiniteSet(A) /\ IsFiniteSet(A2) /\ IsFiniteSet(M2)
  BY FS_Subset
<1>2. Cardinality(M2) <= Cardinality(M) /\ Cardinality(A2) <= Cardinality(A)
  BY <1>1, FS_Subset
<1>3. /\ Cardinality(M) \in Nat /\ Cardinality(M2) \in Nat /\ Cardinality(A) \in Nat
      /\ Cardinality(A2) \in Nat /\ Cardinality(U) \in Nat
  BY <1>1, FS_CardinalityType
<1>4. QED
  BY <1>2, <1>3

LEMMA OneMoreMissed ==
  ASSUME NEW U, IsFiniteSet(U), NEW M, IsFiniteSet(M), NEW A \in SUBSET U,
         Cardinality(M) + Cardinality(A) <= Cardinality(U), NEW s, NEW l \in A
  PROVE  Cardinality(M \cup {s}) + Cardinality(A \ {l}) <= Cardinality(U)
<1>1. IsFiniteSet(A)
  BY FS_Subset
<1>2. /\ Cardinality(M \cup {s}) = IF s \in M THEN Cardinality(M) ELSE Cardinality(M) + 1
      /\ Cardinality(A \ {l}) = Cardinality(A) - 1
  BY <1>1, FS_AddElement, FS_RemoveElement
<1>3. Cardinality(M) \in Nat /\ Cardinality(A) \in Nat /\ Cardinality(U) \in Nat
  BY <1>1, FS_CardinalityType
<1>4. QED
  BY <1>2, <1>3

LEMMA NoneMissed ==
  ASSUME NEW U, IsFiniteSet(U), NEW A \in SUBSET U
  PROVE  Cardinality({}) + Cardinality(A) <= Cardinality(U)
<1>1. IsFiniteSet(A) /\ Cardinality(A) <= Cardinality(U)
  BY FS_Subset
<1>2. Cardinality({}) = 0 /\ Cardinality(A) \in Nat
  BY <1>1, FS_CardinalityType, FS_EmptySet
<1>3. QED
  BY <1>1, <1>2

LEMMA MissedTypes ==
  ASSUME Invariant, AInv
  PROVE  /\ IsFiniteSet(setup.urls) /\ IsFiniteSet(Missed)
         /\ Accepting \in SUBSET setup.urls
<1>1. IsFiniteSet(setup.urls)
  BY Distinct, ServerAssumption, FS_Subset DEF Invariant, TypeOK
<1>2. IsFiniteSet(Missed)
  BY ServerAssumption, FS_Subset DEF Missed
<1>3. Accepting \in SUBSET setup.urls
  BY DEF AInv, UrlsOnly, Accepting
<1>4. QED
  BY <1>1, <1>2, <1>3

(* Steps after which nobody lives who did not live before. *)
LEMMA ReachingKept ==
  ASSUME Invariant, AInv, AInv', Reaching, setup' = setup,
         Interrupted' => Interrupted,
         \A x \in Coroutines : Live(x)' =>
           /\ Live(x)
           /\ cancelled[x] => cancelled'[x]
           /\ ToCome(x) => ToCome(x)' \/ cancelled'[x],
         Interrupted /\ Alone /\ ~Unreached => Accepting' \subseteq Accepting
  PROVE  Reaching'
<1> SUFFICES ASSUME Interrupted, Interrupted' PROVE Reaching'
  BY DEF Reaching
<1>1. \A l \in Listeners : Live(l)' => (cancelled[l] \/ ToCome(l))'
  BY Distinct DEF Reaching
<1>2. Unreached' => Unreached
  BY Distinct DEF Unreached
<1>3. Missed' \in SUBSET Missed
  BY Distinct DEF Missed
<1>4. ASSUME Alone
      PROVE  /\ Unreached' => Missed' = {}
             /\ Cardinality(Missed') + Cardinality(Accepting') <= Cardinality(setup.urls)
  <2>1. CASE Unreached
    <3>1. Missed' = {}
      BY <1>3, <1>4, <2>1 DEF Reaching
    <3>2. Accepting' \in SUBSET setup.urls
      BY DEF AInv, UrlsOnly, Accepting
    <3>3. QED
      BY <3>1, <3>2, MissedTypes, NoneMissed
  <2>2. CASE ~Unreached
    <3>1. Accepting' \in SUBSET Accepting
      BY <1>4, <2>2
    <3>2. Cardinality(Missed) + Cardinality(Accepting) <= Cardinality(setup.urls)
      BY <1>4 DEF Reaching
    <3>3. QED
      BY <1>2, <1>3, <2>2, <3>1, <3>2, MissedTypes, FewerMissed
  <2>3. QED
    BY <2>1, <2>2
<1>5. QED
  BY <1>1, <1>4, AloneSame DEF Reaching

LEMMA ReachingInit == Init => DInv
  BY Distinct DEF Init, DInv, FirstSlot, SignalOnce, Reaching, Interrupted, NoChild

LEMMA SignalNext == SignalOnce /\ [Next]_vars => SignalOnce'
<1> SUFFICES ASSUME SignalOnce, [Next]_vars PROVE SignalOnce'
  OBVIOUS
<1>1. ASSUME NEW c \in Coroutines, Step(c) PROVE SignalOnce'
  <2>1. UNCHANGED <<phase, shutdown>>
    BY <1>1 DEF Step, Listen, Loop, TakeSlot, Spawn, Proceed, Respond, Suspend, Work
  <2>2. QED
    BY <2>1 DEF SignalOnce, shutdown
<1>2. ASSUME NEW c \in Coroutines, Resume(c) \/ DeliverPosted(c) PROVE SignalOnce'
  BY <1>2 DEF Resume, DeliverPosted, SignalOnce, shutdown
<1>3. ASSUME NEW c \in Coroutines, NEW result \in {"ok", "eof", "fail"}, Complete(c, result)
      PROVE  SignalOnce'
  BY <1>3 DEF Complete, SignalOnce, shutdown
<1>4. ASSUME NEW l \in Listeners, NEW s \in Sessions, Accept(l, s) PROVE SignalOnce'
  BY <1>4 DEF Accept, SignalOnce, shutdown
<1>5. CASE \/ \E sig \in Signals : Raise(sig)
           \/ \E caller \in {User} \cup Sessions : Stop(caller)
  BY <1>5 DEF Raise, Stop, SignalOnce
<1>6. CASE HandleSignal \/ Emit
  <2>1. CASE HandleSignal
    BY <2>1 DEF HandleSignal, SignalOnce, ThreadFree
  <2>2. CASE Emit
    <3>1. UNCHANGED <<phase, signal, handled>>
      BY <2>2 DEF Emit
    <3>2. QED
      BY <3>1 DEF SignalOnce
  <2>3. QED
    BY <1>6, <2>1, <2>2
<1>7. CASE Starting
  BY <1>7 DEF Starting, Launch, TakeSlot, Spawn, LaunchThrows, Returns, Serve, SignalOnce, shutdown
<1>8. CASE Return \/ Returned \/ UNCHANGED vars
  BY <1>8 DEF Return, Returns, Returned, vars, SignalOnce, shutdown
<1>9. QED
  BY <1>1, <1>2, <1>3, <1>4, <1>5, <1>6, <1>7, <1>8 DEF Next

LEMMA SetupKept == ASSUME Invariant, [Next]_vars PROVE setup' = setup
<1>1. CASE Emit
  BY <1>1, Emits
<1>2. CASE \E c \in Coroutines : Ends(c) \/ \E point, m : Moves(c, point, m)
  BY <1>2 DEF Ends, Moves, Keeps
<1>3. CASE \E p \in Spawners : TakeSlot(p) \/ Spawn(p)
  BY <1>3 DEF TakeSlot, Spawn
<1>4. CASE \/ \E c \in Coroutines : Suspend(c) \/ Resume(c) \/ DeliverPosted(c)
           \/ \E c \in Coroutines, result \in {"ok", "eof", "fail"} : Complete(c, result)
           \/ \E l \in Listeners, s \in Sessions : Accept(l, s)
  BY <1>4 DEF Suspend, Resume, DeliverPosted, Complete, Accept
<1>5. CASE \/ \E sig \in Signals : Raise(sig)
           \/ \E caller \in {User} \cup Sessions : Stop(caller)
           \/ HandleSignal
  BY <1>5 DEF Raise, Stop, HandleSignal
<1>6. CASE (\E l \in Listeners : Launch(l)) \/ Serve \/ Quits \/ UNCHANGED vars
  BY <1>6 DEF Launch, Serve, Quits, Returns, vars
<1>7. QED
  BY <1>1, <1>2, <1>3, <1>4, <1>5, <1>6, Steps

LEMMA FirstSlotNext == Invariant /\ AInv /\ FirstSlot /\ [Next]_vars => FirstSlot'
<1> SUFFICES ASSUME Invariant, AInv, FirstSlot, [Next]_vars, Cardinality(setup.urls) = 1
             PROVE  FirstSlot'
  BY SetupKept DEF FirstSlot
<1>1. /\ \A l \in Listeners, j \in DOMAIN slots : slots[j] = l => j = 1
      /\ spawning[Main].slot \in {0, 1}
      /\ phase = "starting" /\ (\A l \in Listeners : at[l] = "none")
           /\ spawning[Main].slot = 0 => slots = <<>>
  BY DEF FirstSlot
(* Steps that change nothing but who is at "none" no longer. *)
<1>2. ASSUME UNCHANGED slots, spawning'[Main].slot = spawning[Main].slot,
             phase' = "starting" => UNCHANGED <<phase, at>>
      PROVE  FirstSlot'
  BY <1>1, <1>2 DEF FirstSlot
<1>3. ASSUME NEW c \in Coroutines, Ends(c) PROVE FirstSlot'
  <2>1. Over(c) /\ spawning' = spawning /\ phase' = phase /\ phase # "starting"
    BY <1>3, RunsInPool DEF Ends, Keeps
  <2>2. /\ DOMAIN slots' = DOMAIN slots
        /\ \A i \in DOMAIN slots : slots'[i] = slots[i] \/ slots'[i] = None
    BY <2>1, EndsSlots
  <2>3. QED
    BY <1>1, <2>1, <2>2, Distinct DEF FirstSlot
<1>4. ASSUME NEW c \in Coroutines, NEW point, NEW m, Moves(c, point, m) PROVE FirstSlot'
  <2>1. slots' = slots /\ spawning' = spawning /\ phase' = phase /\ phase # "starting"
    BY <1>4, MovesSlots, RunsInPool DEF Moves, Keeps
  <2>2. QED
    BY <1>2, <2>1
<1>5. ASSUME NEW p \in Spawners, TakeSlot(p) PROVE FirstSlot'
  <2> DEFINE k == SlotFor
  <2>1. /\ DOMAIN slots \subseteq DOMAIN slots'
        /\ \A i \in DOMAIN slots : slots'[i] = slots[i]
        /\ \A i \in DOMAIN slots' : i \notin DOMAIN slots => slots'[i] = None
        /\ \A q \in Spawners : spawning'[q].slot = IF q = p THEN k ELSE spawning[q].slot
        /\ UNCHANGED <<phase, at>>
    BY <1>5, TakeSlots
  <2>2. \A l \in Listeners, j \in DOMAIN slots' : slots'[j] = l => j = 1
    BY <1>1, <2>1, Distinct
  <2>3. CASE p = Main
    <3>1. spawning[Main].child \in setup.urls /\ at[spawning[Main].child] = "none"
          /\ spawning[Main].slot = 0 /\ phase = "starting"
      BY <1>5, <2>3, Distinct DEF TakeSlot, Invariant, IInv, Children, MainDone, NoChild
    <3>2. \A l \in Listeners : at[l] = "none"
      BY <3>1, OneUrl DEF AInv, UrlsOnly
    <3>3. slots = <<>>
      BY <1>1, <3>1, <3>2
    <3>4. k = 1
      <4>1. DOMAIN slots = {} /\ Len(slots) = 0
        BY <3>3
      <4>2. QED
        BY <4>1 DEF SlotFor
    <3> HIDE DEF k
    <3>5. spawning'[Main].slot = 1
      BY <2>1, <2>3, <3>4, Distinct
    <3>6. QED
      BY <2>2, <3>5 DEF FirstSlot
  <2>4. CASE p # Main
    <3>1. spawning[p].child # None
      BY <1>5 DEF TakeSlot
    <3>2. phase # "starting"
      BY <2>4, <3>1, Distinct DEF Invariant, IInv, NothingRuns, NoChild
    <3> HIDE DEF k
    <3>3. spawning'[Main].slot = spawning[Main].slot
      BY <2>1, <2>4, Distinct
    <3>4. QED
      BY <1>1, <2>1, <2>2, <3>2, <3>3 DEF FirstSlot
  <2>5. QED
    BY <2>3, <2>4
<1>6. ASSUME NEW p \in Spawners, Spawn(p) PROVE FirstSlot'
  <2> DEFINE c == spawning[p].child
             k == spawning[p].slot
  <2>1. /\ k \in DOMAIN slots /\ DOMAIN slots' = DOMAIN slots
        /\ \A i \in DOMAIN slots : slots'[i] = IF i = k THEN c ELSE slots[i]
        /\ \A q \in Spawners : spawning'[q] = IF q = p THEN NoChild ELSE spawning[q]
        /\ c \in Coroutines /\ at'[c] = "start"
        /\ p # Main => c \in Sessions
        /\ p = Main <=> phase = "starting"
        /\ p = Main => c \in Listeners
        /\ UNCHANGED phase
    BY <1>6, SpawnSlots
  <2>2. p = Main => k = 1
    <3>1. k # 0
      BY <1>6 DEF Spawn
    <3>2. QED
      BY <1>1, <3>1
  <2> HIDE DEF c, k
  <2>3. spawning'[Main].slot \in {0, 1}
    BY <1>1, <2>1, Distinct DEF NoChild
  <2>4. \A l \in Listeners, j \in DOMAIN slots' : slots'[j] = l => j = 1
    BY <1>1, <2>1, <2>2, Distinct
  <2>5. phase' = "starting" => \E l \in Listeners : at'[l] # "none"
    BY <2>1
  <2>6. QED
    BY <2>3, <2>4, <2>5 DEF FirstSlot
<1>7. ASSUME NEW c \in Coroutines,
             \/ Suspend(c) \/ Resume(c) \/ DeliverPosted(c)
             \/ \E result \in {"ok", "eof", "fail"} : Complete(c, result)
      PROVE  FirstSlot'
  <2>1. UNCHANGED <<phase, at, slots, spawning>>
    BY <1>7 DEF Suspend, Resume, DeliverPosted, Complete
  <2>2. QED
    BY <1>2, <2>1
<1>8. ASSUME NEW l \in Listeners, NEW s \in Sessions, Accept(l, s) PROVE FirstSlot'
  <2>1. /\ UNCHANGED <<phase, at, slots>>
        /\ spawning' = [spawning EXCEPT ![l] = [child |-> s, slot |-> 0]]
    BY <1>8 DEF Accept
  <2>2. spawning'[Main] = spawning[Main]
    BY <2>1, Distinct DEF Invariant, TypeOK
  <2>3. QED
    BY <1>2, <2>1, <2>2
<1>9. ASSUME NEW l \in Listeners, Launch(l) PROVE FirstSlot'
  <2>1. /\ UNCHANGED <<phase, at, slots>> /\ spawning[Main] = NoChild
        /\ spawning' = [spawning EXCEPT ![Main] = [child |-> l, slot |-> 0]]
    BY <1>9 DEF Launch, control
  <2>2. spawning'[Main].slot = 0 /\ spawning[Main].slot = 0
    BY <2>1, Distinct DEF Invariant, TypeOK, NoChild
  <2>3. QED
    BY <1>2, <2>1, <2>2
<1>10. CASE Serve
  <2>1. UNCHANGED <<at, slots, spawning>> /\ phase' = "serving"
    BY <1>10 DEF Serve, control
  <2>2. QED
    BY <1>2, <2>1
<1>11. CASE \/ HandleSignal \/ UNCHANGED vars \/ Emit
            \/ \E sig \in Signals : Raise(sig)
            \/ \E caller \in {User} \cup Sessions : Stop(caller)
  <2>1. UNCHANGED <<phase, at, slots, spawning>>
    BY <1>11, Emits DEF HandleSignal, vars, Raise, Stop, control
  <2>2. QED
    BY <1>2, <2>1
<1>12. CASE Quits
  <2>1. slots' = slots /\ phase' = "returned" /\ spawning'[Main].slot = 0
    BY <1>12, Distinct DEF Quits, Returns, NoChild
  <2>2. QED
    BY <1>1, <2>1 DEF FirstSlot
<1>13. QED
  BY <1>3, <1>4, <1>5, <1>6, <1>7, <1>8, <1>9, <1>10, <1>11, <1>12, Steps

LEMMA ReachingNext ==
  Invariant /\ AInv /\ BInv /\ DInv /\ [Next]_vars /\ Invariant' /\ AInv' => Reaching'
<1> SUFFICES ASSUME Invariant, AInv, BInv, DInv, [Next]_vars, Invariant', AInv'
             PROVE  Reaching'
  OBVIOUS
<1> USE DEF DInv
(* Nothing but cancellations changes. *)
<1>1. ASSUME UNCHANGED <<setup, at, slots>>, Interrupted' => Interrupted,
             \A x \in Coroutines : Live(x) =>
               /\ cancelled[x] => cancelled'[x]
               /\ ToCome(x) => ToCome(x)' \/ cancelled'[x]
      PROVE  Reaching'
  <2>1. Accepting' = Accepting /\ \A x \in Coroutines : Live(x)' <=> Live(x)
    BY <1>1 DEF Accepting, Live
  <2>2. QED
    BY <1>1, <2>1, ReachingKept
<1>2. ASSUME UNCHANGED <<setup, phase, at, slots, cancelled, emission, signal, handled>>
      PROVE  Reaching'
  BY <1>1, <1>2 DEF Interrupted, ToCome
<1>3. ASSUME NEW c \in Coroutines, Ends(c)
      PROVE  Reaching'
  <2>1. /\ Over(c) /\ UNCHANGED <<setup, phase, emission, signal, handled>>
        /\ at' = [at EXCEPT ![c] = "over"]
        /\ \A x \in Coroutines : x # c => cancelled'[x] = cancelled[x]
    BY <1>3 DEF Ends, Keeps, shutdown, Over, Invariant, TypeOK
  <2>2. /\ DOMAIN slots' = DOMAIN slots
        /\ \A i \in DOMAIN slots : slots'[i] = slots[i] \/ (slots[i] = c /\ slots'[i] = None)
        /\ \A x \in Coroutines : Live(x)' <=> Live(x) /\ x # c
    BY <2>1, EndsSlots
  <2>3. \A x \in Coroutines : x # c /\ ToCome(x) => ToCome(x)'
    BY <2>1, <2>2 DEF ToCome
  <2>4. Accepting' \subseteq Accepting
    BY <2>1 DEF Accepting, Invariant, TypeOK
  <2>5. Interrupted' => Interrupted
    BY <2>1 DEF Interrupted
  <2>6. QED
    BY <2>1, <2>2, <2>3, <2>4, <2>5, ReachingKept
<1>4. ASSUME NEW c \in Coroutines, NEW point, NEW m, Moves(c, point, m)
      PROVE  Reaching'
  <2>1. /\ UNCHANGED <<setup, phase, emission, signal, handled, cancelled, slots>>
        /\ at' = [at EXCEPT ![c] = point] /\ at \in [Coroutines -> Points]
        /\ point # "loop" => FALSE \in Seen(c)
    BY <1>4 DEF Moves, Keeps, shutdown, Goto, Invariant, TypeOK
  <2>2. \A x \in Coroutines : Live(x)' <=> Live(x)
    BY <1>4, MovesSlots
  <2>3. \A x \in Coroutines : ToCome(x)' <=> ToCome(x)
    BY <2>1 DEF ToCome
  <2>4. ASSUME ~Unreached PROVE Accepting' \subseteq Accepting
    <3>1. CASE c \in Listeners
      <4>1. Live(c) /\ c \in Held
        BY <1>4, <3>1, RunsInPool DEF Moves, Invariant, IInv, ListenersReachable
      <4>2. cancelled[c]
        BY <2>4, <3>1, <4>1 DEF Unreached
      <4>3. point = "loop"
        BY <2>1, <4>1, <4>2 DEF Seen
      <4>4. QED
        BY <2>1, <4>3, Distinct DEF Accepting
    <3>2. CASE c \notin Listeners
      BY <2>1, <3>2, Distinct DEF Accepting
    <3>3. QED
      BY <3>1, <3>2
  <2>5. Interrupted' => Interrupted
    BY <2>1 DEF Interrupted
  <2>6. QED
    BY <2>1, <2>2, <2>3, <2>4, <2>5, ReachingKept
<1>5. ASSUME NEW p \in Spawners, TakeSlot(p)
      PROVE  Reaching'
  <2>1. /\ UNCHANGED <<setup, phase, at, cancelled, shutdown>> /\ emission = NoEmission
    BY <1>5, TakeSlots
  <2>2. \A x \in Coroutines : ~ToCome(x)
    BY <2>1, Distinct DEF ToCome, NoEmission
  <2>3. Accepting' = Accepting /\ \A x \in Coroutines : Live(x)' <=> Live(x)
    BY <2>1 DEF Accepting, Live
  <2>4. Interrupted' => Interrupted
    BY <2>1 DEF Interrupted, shutdown
  <2>5. QED
    BY <2>1, <2>2, <2>3, <2>4, ReachingKept
<1>6. ASSUME NEW p \in Spawners, Spawn(p)
      PROVE  Reaching'
  <2> DEFINE c == spawning[p].child
             k == spawning[p].slot
  <2>1. /\ k \in DOMAIN slots /\ DOMAIN slots' = DOMAIN slots
        /\ \A i \in DOMAIN slots : slots'[i] = IF i = k THEN c ELSE slots[i]
        /\ c \in Coroutines
        /\ \A x \in Coroutines : Live(x)' <=> (x = c \/ Live(x))
        /\ \A x \in Coroutines : x # p /\ x # c => at'[x] = at[x]
        /\ at'[c] = "start"
        /\ p # Main => p \in Listeners /\ c \in Sessions /\ at[p] = "accept" /\ at'[p] = "loop"
        /\ p = Main <=> phase = "starting"
        /\ UNCHANGED <<setup, phase, cancelled, shutdown>>
    BY <1>6, SpawnSlots
  <2>2. slots[k] \notin Listeners /\ (Alone => slots[k] = None)
    BY <1>6 DEF Spawn, Invariant, IInv, Taken, BInv, TakenFree
  <2>3. p # Main => mode[p] = "running"
    BY <1>6, Distinct DEF Spawn, AInv, SpawnerRuns
  <2> HIDE DEF c, k
  <2>4. SUFFICES ASSUME Interrupted, Interrupted', p # Main PROVE Reaching'
    <3>1. UNCHANGED <<phase, signal, handled>> /\ (p = Main => phase # "serving")
      BY <2>1 DEF shutdown
    <3>2. Interrupted' => Interrupted /\ p # Main
      BY <3>1 DEF Interrupted
    <3>3. QED
      BY <3>2 DEF Reaching
  <2>5. ASSUME NEW x \in Coroutines, x # c, ToCome(x), x \in Listeners \/ Alone
        PROVE  ToCome(x)'
    <3>1. PICK j \in DOMAIN slots : j >= emission.at /\ slots[j] = x
      BY <2>5 DEF ToCome
    <3>2. j # k
      BY <2>2, <2>5, <3>1, Distinct
    <3>3. QED
      BY <2>1, <2>5, <3>1, <3>2 DEF ToCome, shutdown
  <2>6. c \notin Listeners
    BY <2>1, <2>4, Distinct
  <2>7. \A l \in Listeners : Live(l)' => (cancelled[l] \/ ToCome(l))'
    <3>1. SUFFICES ASSUME NEW l \in Listeners, Live(l)' PROVE cancelled'[l] \/ ToCome(l)'
      OBVIOUS
    <3>2. l \in Coroutines /\ l # c /\ Live(l)
      BY <2>1, <2>6, <3>1, Distinct
    <3>3. cancelled[l] \/ ToCome(l)
      BY <2>4, <3>2 DEF Reaching
    <3>4. QED
      BY <2>1, <2>5, <3>2, <3>3
  <2>8. ASSUME Alone
        PROVE  /\ Unreached' => Missed' = {}
               /\ Cardinality(Missed') + Cardinality(Accepting') <= Cardinality(setup.urls)
    <3>1. Missed' \subseteq Missed \cup {c}
      <4>1. SUFFICES ASSUME NEW s \in Sessions, s # c, Live(s)', ~cancelled'[s], ~ToCome(s)'
                     PROVE  s \in Missed
        BY DEF Missed
      <4>2. s \in Coroutines /\ Live(s) /\ ~cancelled[s]
        BY <2>1, <4>1, Distinct
      <4>3. ~ToCome(s)
        BY <2>5, <2>8, <4>1, <4>2
      <4>4. QED
        BY <4>2, <4>3 DEF Missed
    <3>2. p \in Accepting /\ Accepting' \subseteq Accepting \ {p}
      BY <2>1, <2>4, <2>6, Distinct DEF Accepting
    <3>3. Missed \cup {c} \subseteq Missed \cup {c} /\ IsFiniteSet(Missed \cup {c})
      BY MissedTypes, FS_AddElement
    <3>4. Cardinality(Missed) + Cardinality(Accepting) <= Cardinality(setup.urls)
      BY <2>4, <2>8 DEF Reaching
    <3>5. Cardinality(Missed \cup {c}) + Cardinality(Accepting \ {p}) <= Cardinality(setup.urls)
      BY <3>2, <3>4, MissedTypes, OneMoreMissed
    <3>6. Accepting \ {p} \in SUBSET setup.urls
      BY MissedTypes
    <3>7. Cardinality(Missed') + Cardinality(Accepting') <= Cardinality(setup.urls)
      BY <3>1, <3>2, <3>3, <3>5, <3>6, MissedTypes, FewerMissed
    <3>8. ASSUME Unreached' PROVE Missed' = {}
      <4>1. PICK l \in Listeners : Live(l) /\ ~cancelled[l]
        BY <2>1, <2>6, <3>8, Distinct DEF Unreached
      <4>2. ToCome(l) /\ Missed = {}
        BY <2>4, <2>8, <4>1 DEF Reaching, Unreached
      <4>3. emission.by = Main
        BY <4>2 DEF ToCome
      <4>4. Threads # 1
        BY <2>1, <2>3, <2>4, <4>3, Distinct DEF AInv, OneRuns
      <4>5. Cardinality(setup.urls) = 1
        BY <2>8, <4>4 DEF Alone
      <4>6. 1 >= emission.at
        BY <4>2, <4>5 DEF ToCome, FirstSlot
      <4>7. k >= emission.at
        <5>1. emission.at \in Nat /\ k \in Nat /\ k >= 1
          BY <2>1, <4>3, SlotTypes, Distinct DEF Invariant, TypeOK, NoEmission
        <5>2. QED
          BY <4>6, <5>1
      <4>8. ASSUME NEW x \in Coroutines, x = c PROVE ToCome(x)'
        <5>1. emission' = emission /\ k \in DOMAIN slots' /\ slots'[k] = x
          BY <2>1, <4>8 DEF shutdown
        <5>2. emission'.by = Main /\ k >= emission'.at
          BY <4>3, <4>7, <5>1
        <5>3. QED
          BY <5>1, <5>2 DEF ToCome
      <4>9. \A x \in Missed' : ~ToCome(x)'
        BY DEF Missed
      <4>10. QED
        BY <2>1, <3>1, <4>2, <4>8, <4>9
    <3>9. QED
      BY <3>7, <3>8
  <2>9. QED
    BY <2>1, <2>7, <2>8, AloneSame DEF Reaching
<1>7. ASSUME NEW c \in Coroutines,
             Suspend(c) \/ Resume(c) \/ \E result \in {"ok", "eof", "fail"} : Complete(c, result)
      PROVE  Reaching'
  BY <1>2, <1>7 DEF Suspend, Resume, Complete, shutdown
<1>8. ASSUME NEW l \in Listeners, NEW s \in Sessions, Accept(l, s)
      PROVE  Reaching'
  BY <1>2, <1>8 DEF Accept, shutdown
<1>9. ASSUME NEW c \in Coroutines, DeliverPosted(c)
      PROVE  Reaching'
  <2>1. /\ UNCHANGED <<setup, phase, at, slots, emission, signal, handled>>
        /\ cancelled' = [cancelled EXCEPT ![c] = Live(c)]
        /\ cancelled \in [Coroutines -> BOOLEAN]
    BY <1>9 DEF DeliverPosted, Cancel, Invariant, TypeOK
  <2>2. Interrupted' => Interrupted
    BY <2>1 DEF Interrupted
  <2>3. \A x \in Coroutines : Live(x) =>
          (cancelled[x] => cancelled'[x]) /\ (ToCome(x) => ToCome(x)')
    BY <2>1 DEF ToCome
  <2>4. QED
    BY <1>1, <2>1, <2>2, <2>3
<1>10. CASE Emit
  <2>1. UNCHANGED <<setup, phase, at, slots, signal, handled>>
    BY <1>10, Emits
  <2>2. Interrupted' => Interrupted
    BY <2>1 DEF Interrupted
  <2>3. ASSUME NEW x \in Coroutines, Live(x)
        PROVE  /\ cancelled[x] => cancelled'[x]
               /\ ToCome(x) => ToCome(x)' \/ cancelled'[x]
    <3>1. CASE emission.at > Len(slots) /\ UNCHANGED cancelled
      <4>1. emission.at \in Nat /\ DOMAIN slots = 1..Len(slots) /\ Len(slots) \in Nat
        BY <1>10, Emits, SlotTypes
      <4>2. \A j \in DOMAIN slots : ~(j >= emission.at)
        BY <3>1, <4>1
      <4>3. ~ToCome(x)
        BY <4>2 DEF ToCome
      <4>4. QED
        BY <3>1, <4>3
    <3>2. CASE /\ emission.at \in 1..Len(slots)
               /\ emission' = [by |-> emission.by, at |-> emission.at + 1]
               /\ slots[emission.at] = None \/ emission.by = User
               /\ UNCHANGED cancelled
      <4>1. ASSUME ToCome(x) PROVE ToCome(x)'
        <5>1. PICK j \in DOMAIN slots : j >= emission.at /\ slots[j] = x
          BY <4>1 DEF ToCome
        <5>2. emission.by = Main /\ emission.by # User /\ x # None
          BY <4>1, Distinct, ServerAssumption DEF ToCome
        <5>3. j # emission.at
          BY <3>2, <5>1, <5>2
        <5>4. j >= emission.at + 1
          BY <3>2, <5>1, <5>3, SlotTypes
        <5>5. QED
          BY <2>1, <3>2, <5>1, <5>2, <5>4 DEF ToCome
      <4>2. QED
        BY <3>2, <4>1
    <3>3. CASE /\ emission.at \in 1..Len(slots)
               /\ emission' = [by |-> emission.by, at |-> emission.at + 1]
               /\ slots[emission.at] \in Coroutines /\ Cancel(slots[emission.at])
      <4> DEFINE c == slots[emission.at]
      <4>1. cancelled' = [cancelled EXCEPT ![c] = Live(c)] /\ c \in Coroutines
            /\ cancelled \in [Coroutines -> BOOLEAN]
        BY <3>3 DEF Cancel, Invariant, TypeOK
      <4>2. CASE x = c
        BY <2>3, <4>1, <4>2
      <4>3. CASE x # c
        <5>1. cancelled'[x] = cancelled[x]
          BY <4>1, <4>3
        <5>2. ASSUME ToCome(x) PROVE ToCome(x)'
          <6>1. PICK j \in DOMAIN slots : j >= emission.at /\ slots[j] = x
            BY <5>2 DEF ToCome
          <6>2. j # emission.at
            BY <4>3, <6>1
          <6>3. j >= emission.at + 1
            BY <3>3, <6>1, <6>2, SlotTypes
          <6>4. QED
            BY <2>1, <3>3, <5>2, <6>1, <6>3 DEF ToCome
        <5>3. QED
          BY <5>1, <5>2
      <4>4. QED
        BY <4>2, <4>3
    <3>4. QED
      BY <1>10, <3>1, <3>2, <3>3, Emits
  <2>4. QED
    BY <1>1, <2>1, <2>2, <2>3
<1>11. CASE HandleSignal
  <2>1. /\ UNCHANGED <<setup, phase, control>> /\ emission' = IF signal = "SIGINT"
                                                     THEN [by |-> Main, at |-> 1] ELSE emission
        /\ signal' = signal
    BY <1>11 DEF HandleSignal
  <2>2. SUFFICES ASSUME Interrupted' PROVE Reaching'
    BY DEF Reaching
  <2>3. emission' = [by |-> Main, at |-> 1]
    BY <2>1, <2>2 DEF Interrupted
  <2>4. \A x \in Coroutines : x \in Held => ToCome(x)'
    BY <2>1, <2>3, SlotTypes DEF ToCome, Held, control
  <2>5. \A l \in Listeners : Live(l)' => ToCome(l)'
    BY <2>1, <2>4, Distinct DEF Invariant, IInv, ListenersReachable, Live, control
  <2>6. Alone => Missed' = {}
    BY <2>1, <2>4, Distinct DEF BInv, AllReachable, Missed, Live, control
  <2>7. Accepting' \in SUBSET setup.urls
    BY <2>1 DEF AInv, UrlsOnly, Accepting, control
  <2>8. Alone => Cardinality(Missed') + Cardinality(Accepting') <= Cardinality(setup.urls)
    BY <2>6, <2>7, MissedTypes, NoneMissed
  <2>9. QED
    BY <2>1, <2>5, <2>6, <2>8, AloneSame DEF Reaching
<1>12. ASSUME NEW sig \in Signals, Raise(sig)
       PROVE  Reaching'
  <2>1. CASE handled
    <3>1. signal # "none"
      BY <2>1 DEF SignalOnce
    <3>2. UNCHANGED <<setup, phase, at, slots, cancelled, emission, signal, handled>>
      BY <1>12, <3>1 DEF Raise, control
    <3>3. QED
      BY <1>2, <3>2
  <2>2. CASE ~handled
    BY <1>12, <2>2 DEF Raise, Reaching, Interrupted
  <2>3. QED
    BY <2>1, <2>2
<1>13. ASSUME NEW caller \in {User} \cup Sessions, Stop(caller)
       PROVE  Reaching'
  <2>1. /\ UNCHANGED <<setup, phase, control, signal, handled>> /\ emission = NoEmission
    BY <1>13 DEF Stop
  <2>2. \A x \in Coroutines : ~ToCome(x)
    BY <2>1, Distinct DEF ToCome, NoEmission
  <2>3. QED
    BY <1>1, <2>1, <2>2 DEF Interrupted, control
<1>14. ASSUME NEW l \in Listeners, Launch(l)
       PROVE  Reaching'
  BY <1>14 DEF Launch, Reaching, Interrupted, shutdown
<1>15. CASE Serve
  BY <1>15 DEF Serve, Reaching, Interrupted, SignalOnce, shutdown
<1>16. CASE Quits
  BY <1>16 DEF Quits, Returns, Reaching, Interrupted
<1>17. CASE UNCHANGED vars
  BY <1>2, <1>17 DEF vars, control, shutdown
<1>18. QED
  BY <1>3, <1>4, <1>5, <1>6, <1>7, <1>8, <1>9, <1>10, <1>11, <1>12, <1>13, <1>14, <1>15, <1>16,
     <1>17, Steps

(* Once SIGINT has been emitted every listener that lives is cancelled,    *)
(* and with one URL or one thread at most as many sessions as there are    *)
(* URLs are not, for any number of connections: CancellationSignals.emit   *)
(* overlooks only what is spawned behind it.                               *)
THEOREM InterruptReaches == Spec => []ShutdownReaches
<1>1. Invariant /\ AInv /\ DInv => ShutdownReaches
  <2> SUFFICES ASSUME Invariant, AInv, DInv, Interrupted, emission.by # Main
               PROVE  /\ \A l \in Listeners : Live(l) => cancelled[l]
                      /\ Alone => Cardinality({s \in Sessions : Live(s) /\ ~cancelled[s]})
                                    <= Cardinality(setup.urls)
    BY DEF ShutdownReaches, Interrupted
  <2>1. \A c \in Coroutines : ~ToCome(c)
    BY DEF ToCome
  <2>2. Missed = {s \in Sessions : Live(s) /\ ~cancelled[s]}
    BY <2>1, Distinct DEF Missed
  <2>3. Alone => Cardinality(Missed) + Cardinality(Accepting) <= Cardinality(setup.urls)
    BY DEF DInv, Reaching
  <2>4. Cardinality(Missed) \in Nat /\ Cardinality(Accepting) \in Nat
        /\ Cardinality(setup.urls) \in Nat
    <3>1. IsFiniteSet(Accepting)
      BY MissedTypes, FS_Subset
    <3>2. QED
      BY <3>1, MissedTypes, FS_CardinalityType
  <2>5. Alone => Cardinality(Missed) <= Cardinality(setup.urls)
    BY <2>3, <2>4
  <2>6. \A l \in Listeners : Live(l) => cancelled[l]
    BY <2>1, Distinct DEF DInv, Reaching
  <2>7. QED
    BY <2>2, <2>5, <2>6
<1>2. Init => Invariant /\ AInv /\ BInv /\ DInv
  BY InitOK, RunsInit, SlotsInit, ReachingInit
<1>3. (Invariant /\ AInv /\ BInv /\ DInv) /\ [Next]_vars => (Invariant /\ AInv /\ BInv /\ DInv)'
  BY Inductive, RunsNext, SlotsNext, FirstSlotNext, SignalNext, ReachingNext DEF DInv
<1>4. QED
  BY <1>1, <1>2, <1>3, PTL DEF Spec
=============================================================================
