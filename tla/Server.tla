-------------------------------- MODULE Server --------------------------------
(***************************************************************************)
(* BoostBeastServer (Source/Engine/BoostBeastServer.hpp) and its           *)
(* CancellationSignals: start() launches a listening coroutine per URL and *)
(* runs the io_context on a pool of threads; a listener spawns a session   *)
(* per connection; a session reads one request, calls the handler and      *)
(* writes the response. SIGINT and stop() cancel the coroutines through    *)
(* their cancellation slots, SIGTERM stops the io_context.                 *)
(*                                                                         *)
(* What Boost.Asio does is modelled from how it is used here: a coroutine  *)
(* is resumed by some free thread of the pool and keeps it until it        *)
(* suspends; awaiting an operation when already cancelled throws, which    *)
(* ends the coroutine (its handler is detached); a cancellation emitted on *)
(* a pool thread is delivered at once, one from any other thread is posted *)
(* to the pool; a slot's handler holds the coroutine's cancellation state. *)
(***************************************************************************)
EXTENDS Integers, Sequences, FiniteSetsExt

CONSTANTS
  Listeners,  \* listening coroutines, one per URL
  Sessions,   \* the sessions of client connections
  Tls,        \* the listeners and sessions of https URLs
  Setups,     \* what a server is started with: its URLs, the setting threadsNumber
              \* and, as bounds, the clients' connections and the calls of stop()
  Main,       \* the thread that calls start()
  User,       \* a thread of the user's
  None        \* no coroutine

Signals    == {"SIGINT", "SIGTERM"}
Coroutines == Listeners \cup Sessions
Spawners   == Listeners \cup {Main}

ASSUME ServerAssumption ==
  /\ IsFiniteSet(Listeners) /\ IsFiniteSet(Sessions)
  /\ Listeners \cap Sessions = {}
  /\ {Main, User, None} \cap Coroutines = {}
  /\ Main # None /\ User \notin {Main, None}
  /\ Tls \subseteq Coroutines
  /\ Setups \subseteq [urls : SUBSET Listeners, threadsNumber : Int,
                       clients : SUBSET Sessions, stops : Nat]

VARIABLES
  setup,      \* const
  phase,      \* of start(): "starting", "serving" or "returned", which it is too
              \* when it has thrown
  at,         \* where a coroutine is: the operation it awaits, or a point between
  mode,       \* "ready" for a thread, "running", "arming" an operation, "waiting" for it
  outcome,    \* of the operation a coroutine awaited last
  cancelled,  \* a coroutine's cancellation state
  spawning,   \* the child a spawner is about to spawn, with the slot it took
  slots,      \* CancellationSignals.sigs: the handler of each slot
  emission,   \* CancellationSignals.emit in progress, which holds the mutex: whose it
              \* is (the signal handler's is Main's) and the slot it is at
  posted,     \* coroutines with a cancellation posted to the pool
  raised,     \* signals the process has got
  signal,     \* the one the signal wait has received
  handled,    \* its handler has run
  stops,      \* who has called stop()
  dropped     \* sessions whose response was made and its write never begun

control  == <<at, mode, outcome, slots, cancelled>>
shutdown == <<emission, posted, raised, signal, handled, stops>>
vars == <<setup, phase, control, spawning, shutdown, dropped>>

Threads == IF setup.threadsNumber < 1 THEN 1 ELSE setup.threadsNumber

NoChild    == [child |-> None, slot |-> 0]
NoEmission == [by |-> None, at |-> 0]

Live(c) == at[c] \notin {"none", "over"}
Held    == {slots[i] : i \in DOMAIN slots}
Running == {c \in Coroutines : mode[c] \in {"running", "arming"}}

(* Mutation: the handler of SIGTERM does not stop the io_context. *)
StoppedNever == FALSE

Stopped == signal = "SIGTERM" /\ handled

(* The emission that SIGINT starts occupies a thread of the pool too.      *)
Busy == Cardinality(Running) + (IF emission.by = Main THEN 1 ELSE 0)

ThreadFree == phase = "serving" /\ ~Stopped /\ Busy < Threads

-----------------------------------------------------------------------------
(* What a running coroutine does.                                          *)

(* Emplacing a handler in a slot that has one destroys the cancellation    *)
(* state of the coroutine it belonged to: what that one reads is arbitrary.*)
Seen(c) == IF c \in Held THEN {cancelled[c]} ELSE BOOLEAN

(* Whether the handler leaves the slot with its coroutine is up to Asio.   *)
Over(c) ==
  /\ at' = [at EXCEPT ![c] = "over"]
  /\ mode' = [mode EXCEPT ![c] = "gone"]
  /\ outcome' = [outcome EXCEPT ![c] = "none"]
  /\ cancelled' = [cancelled EXCEPT ![c] = FALSE]
  /\ slots' \in {slots, [i \in DOMAIN slots |-> IF slots[i] = c THEN None ELSE slots[i]]}

Goto(c, point, m) ==
  /\ at' = [at EXCEPT ![c] = point]
  /\ mode' = [mode EXCEPT ![c] = m]
  /\ outcome' = [outcome EXCEPT ![c] = "none"]
  /\ UNCHANGED <<slots, cancelled>>

Await(c, operation) ==
  \/ TRUE \in Seen(c) /\ Over(c)
  \/ FALSE \in Seen(c) /\ Goto(c, operation, "arming")

(* Mutation: a slot is taken whether or not it has a handler. *)
SlotForAny == IF slots # <<>> THEN 1 ELSE Len(slots) + 1

(* The first slot without handler, or a new one. *)
SlotFor ==
  LET free == {i \in DOMAIN slots : slots[i] = None}
  IN  IF free # {} THEN Min(free) ELSE Len(slots) + 1

(* CancellationSignals::slot() *)
TakeSlot(p) ==
  /\ emission = NoEmission
  /\ spawning[p].child # None /\ spawning[p].slot = 0
  /\ p # Main => mode[p] = "running"
  /\ spawning' = [spawning EXCEPT ![p].slot = SlotFor]
  /\ slots' = IF SlotFor > Len(slots) THEN Append(slots, None) ELSE slots
  /\ UNCHANGED <<setup, phase, at, mode, outcome, cancelled, shutdown, dropped>>

(* co_spawn with the slot bound to it: outside the mutex. *)
Spawn(p) ==
  /\ spawning[p].slot # 0
  /\ LET c == spawning[p].child
     IN  /\ slots' = [slots EXCEPT ![spawning[p].slot] = c]
         /\ at' = [x \in Coroutines |->
                     CASE x = c -> "start" [] x = p -> "loop" [] OTHER -> at[x]]
         /\ mode' = [mode EXCEPT ![c] = "ready"]
  /\ spawning' = [spawning EXCEPT ![p] = NoChild]
  /\ outcome' = [c \in Coroutines |-> IF c = p THEN "none" ELSE outcome[c]]
  /\ UNCHANGED <<setup, phase, cancelled, shutdown, dropped>>

Work(c) ==
  /\ mode[c] = "running"
  /\ UNCHANGED <<setup, phase, spawning, shutdown>>

(* listen(): initListener fails, or the loop begins. *)
Listen(l) ==
  /\ Work(l) /\ at[l] = "start"
  /\ Over(l) \/ Goto(l, "loop", "running")
  /\ UNCHANGED dropped

(* Mutation: the loop does not look at the cancellation state. *)
LoopUnchecked(l) ==
  /\ Work(l)
  /\ at[l] = "loop" \/ (at[l] = "accept" /\ outcome[l] = "fail")
  /\ Goto(l, "accept", "arming")
  /\ UNCHANGED dropped

Loop(l) ==
  /\ Work(l)
  /\ at[l] = "loop" \/ (at[l] = "accept" /\ outcome[l] = "fail")
  /\ Await(l, "accept")
  /\ UNCHANGED dropped

(* detectSession() and runSession(), between their operations. *)
Proceed(s) ==
  /\ Work(s)
  /\ \/ at[s] = "start" /\ Await(s, IF s \in Tls THEN "detect" ELSE "read")
     \/ at[s] = "detect" /\ outcome[s] = "ok" /\ Await(s, "handshake")
     \/ at[s] = "handshake" /\ outcome[s] = "ok" /\ Await(s, "read")
     \/ at[s] = "read" /\ outcome[s] = "eof" /\ s \in Tls /\ Await(s, "shutdown")
     \/ at[s] = "read" /\ outcome[s] = "ok" /\ FALSE \in Seen(s) /\ Goto(s, "handle", "running")
     \/ at[s] = "read" /\ outcome[s] = "ok" /\ TRUE \in Seen(s) /\ Over(s)
     \/ at[s] \in {"detect", "handshake", "read"} /\ outcome[s] = "fail" /\ Over(s)
     \/ at[s] = "read" /\ outcome[s] = "eof" /\ s \notin Tls /\ Over(s)
     \/ at[s] \in {"write", "shutdown"} /\ Over(s)
  /\ UNCHANGED dropped

(* The handler returns a response, and the session awaits its write. *)
Respond(s) ==
  /\ Work(s) /\ at[s] = "handle" /\ emission.by # s
  /\ Await(s, "write")
  /\ dropped' = IF at'[s] = "over" THEN dropped \cup {s} ELSE dropped

-----------------------------------------------------------------------------
(* What the io_context does.                                               *)

Resume(c) ==
  /\ ThreadFree
  /\ mode[c] = "ready"
  /\ mode' = [mode EXCEPT ![c] = "running"]
  /\ UNCHANGED <<setup, phase, at, outcome, slots, cancelled, spawning, shutdown, dropped>>

(* The operation is under way and the thread free again. A cancellation    *)
(* that came meanwhile has either reached the operation or missed it.      *)
Suspend(c) ==
  /\ mode[c] = "arming"
  /\ \/ mode' = [mode EXCEPT ![c] = "waiting"] /\ UNCHANGED outcome
     \/ /\ cancelled[c]
        /\ mode' = [mode EXCEPT ![c] = "ready"]
        /\ outcome' = [outcome EXCEPT ![c] = "fail"]
  /\ UNCHANGED <<setup, phase, at, slots, cancelled, spawning, shutdown, dropped>>

Complete(c, result) ==
  /\ phase = "serving"
  /\ mode[c] = "waiting"
  /\ result = "eof" => at[c] = "read"
  /\ result = "ok" => at[c] # "accept"
  /\ mode' = [mode EXCEPT ![c] = "ready"]
  /\ outcome' = [outcome EXCEPT ![c] = result]
  /\ UNCHANGED <<setup, phase, at, slots, cancelled, spawning, shutdown, dropped>>

Accept(l, s) ==
  /\ phase = "serving"
  /\ at[l] = "accept" /\ mode[l] = "waiting"
  /\ s \in setup.clients /\ at[s] = "none" /\ \A p \in Spawners : spawning[p].child # s
  /\ s \in Tls <=> l \in Tls
  /\ mode' = [mode EXCEPT ![l] = "ready"]
  /\ outcome' = [outcome EXCEPT ![l] = "ok"]
  /\ spawning' = [spawning EXCEPT ![l] = [child |-> s, slot |-> 0]]
  /\ UNCHANGED <<setup, phase, at, slots, cancelled, shutdown, dropped>>

(* Mutation: an operation under way is not cancelled. *)
CancelFlagOnly(c) ==
  /\ cancelled' = [cancelled EXCEPT ![c] = Live(c)]
  /\ UNCHANGED <<mode, outcome>>

(* Mutation: the coroutine is scheduled whatever it is doing. *)
CancelSchedules(c) ==
  /\ cancelled' = [cancelled EXCEPT ![c] = TRUE]
  /\ mode' = [mode EXCEPT ![c] = "ready"]
  /\ outcome' = [outcome EXCEPT ![c] = "fail"]

Cancel(c) ==
  /\ cancelled' = [cancelled EXCEPT ![c] = Live(c)]
  /\ IF mode[c] = "waiting"
     THEN /\ mode' = [mode EXCEPT ![c] = "ready"]
          /\ outcome' = [outcome EXCEPT ![c] = "fail"]
     ELSE UNCHANGED <<mode, outcome>>

DeliverPosted(c) ==
  /\ ThreadFree
  /\ c \in posted
  /\ posted' = posted \ {c}
  /\ Cancel(c)
  /\ UNCHANGED <<setup, phase, at, slots, spawning, emission, raised, signal, handled, stops,
                 dropped>>

-----------------------------------------------------------------------------
(* Shutting down.                                                          *)

(* There is one wait for a signal: it receives the first, and a later one  *)
(* has no effect any more.                                                 *)
Raise(sig) ==
  /\ phase = "serving" /\ sig \notin raised
  /\ raised' = raised \cup {sig}
  /\ signal' = IF signal = "none" THEN sig ELSE signal
  /\ UNCHANGED <<setup, phase, control, spawning, emission, posted, handled, stops, dropped>>

(* Mutation: the handler needs no thread of the pool. *)
HandleSignalAside ==
  /\ phase = "serving" /\ signal # "none" /\ ~handled
  /\ signal = "SIGINT" => emission = NoEmission
  /\ handled' = TRUE
  /\ emission' = IF signal = "SIGINT" THEN [by |-> Main, at |-> 1] ELSE emission
  /\ UNCHANGED <<setup, phase, control, spawning, posted, raised, signal, stops, dropped>>

(* The handler of the wait for a signal, on a thread of the pool. *)
HandleSignal ==
  /\ ThreadFree /\ signal # "none" /\ ~handled
  /\ signal = "SIGINT" => emission = NoEmission
  /\ handled' = TRUE
  /\ emission' = IF signal = "SIGINT" THEN [by |-> Main, at |-> 1] ELSE emission
  /\ UNCHANGED <<setup, phase, control, spawning, posted, raised, signal, stops, dropped>>

(* stop(), called on a thread of the user's or by an endpoint. *)
Stop(caller) ==
  /\ IF caller = User THEN phase # "returned" ELSE at[caller] = "handle" /\ mode[caller] = "running"
  /\ Cardinality(stops) < setup.stops /\ caller \notin stops
  /\ emission = NoEmission
  /\ stops' = stops \cup {caller}
  /\ emission' = [by |-> caller, at |-> 1]
  /\ UNCHANGED <<setup, phase, control, spawning, posted, raised, signal, handled, dropped>>

(* Mutation: only the first slot is emitted. *)
EmitFirst ==
  /\ emission # NoEmission
  /\ IF emission.at > 1 \/ slots = <<>>
     THEN emission' = NoEmission /\ UNCHANGED <<cancelled, mode, outcome, posted>>
     ELSE LET c == slots[emission.at]
          IN  /\ emission' = [emission EXCEPT !.at = @ + 1]
              /\ CASE c = None -> UNCHANGED <<cancelled, mode, outcome, posted>>
                   [] c # None /\ emission.by = User ->
                        posted' = posted \cup {c} /\ UNCHANGED <<cancelled, mode, outcome>>
                   [] c # None /\ emission.by # User -> Cancel(c) /\ UNCHANGED posted
  /\ UNCHANGED <<setup, phase, at, slots, spawning, raised, signal, handled, stops, dropped>>

(* One signal of the list; the mutex is released after the last one. *)
Emit ==
  /\ emission # NoEmission
  /\ IF emission.at > Len(slots)
     THEN emission' = NoEmission /\ UNCHANGED <<cancelled, mode, outcome, posted>>
     ELSE LET c == slots[emission.at]
          IN  /\ emission' = [emission EXCEPT !.at = @ + 1]
              /\ CASE c = None -> UNCHANGED <<cancelled, mode, outcome, posted>>
                   [] c # None /\ emission.by = User ->
                        posted' = posted \cup {c} /\ UNCHANGED <<cancelled, mode, outcome>>
                   [] c # None /\ emission.by # User -> Cancel(c) /\ UNCHANGED posted
  /\ UNCHANGED <<setup, phase, at, slots, spawning, raised, signal, handled, stops, dropped>>

-----------------------------------------------------------------------------
(* start()                                                                 *)

Launch(l) ==
  /\ phase = "starting" /\ l \in setup.urls /\ at[l] = "none" /\ spawning[Main] = NoChild
  /\ spawning' = [spawning EXCEPT ![Main] = [child |-> l, slot |-> 0]]
  /\ UNCHANGED <<setup, phase, control, shutdown, dropped>>

(* The signal wait is set up and the threads of the pool begin to run. *)
Serve ==
  /\ phase = "starting"
  /\ \A l \in setup.urls : at[l] # "none"
  /\ phase' = "serving"
  /\ UNCHANGED <<setup, control, spawning, shutdown, dropped>>

(* Nothing keeps run() from returning: the io_context is stopped, or there *)
(* is no coroutine and nothing posted.                                     *)
Idle ==
  /\ Running = {} /\ emission.by # Main
  /\ Stopped \/ (posted = {} /\ \A c \in Coroutines : ~Live(c))

Returns ==
  /\ phase' = "returned"
  /\ at' = [c \in Coroutines |-> IF Live(c) THEN "over" ELSE at[c]]
  /\ mode' = [c \in Coroutines |-> "gone"]
  /\ outcome' = [c \in Coroutines |-> "none"]
  /\ spawning' = [p \in Spawners |-> NoChild]
  /\ posted' = {}
  /\ cancelled' = [c \in Coroutines |-> FALSE]
  /\ UNCHANGED <<setup, slots, emission, raised, signal, handled, stops, dropped>>

(* The wait for a signal is work of the io_context as well. With it goes   *)
(* every coroutine that is left.                                           *)
Return ==
  /\ phase = "serving" /\ handled /\ Idle
  /\ Returns

(* A bad address or certificate: the io_context goes, and with it the      *)
(* listeners that were launched before.                                    *)
LaunchThrows ==
  /\ phase = "starting" /\ spawning[Main] = NoChild
  /\ \E l \in setup.urls : at[l] = "none"
  /\ Returns

Returned == phase = "returned" /\ UNCHANGED vars

-----------------------------------------------------------------------------
Init ==
  /\ setup \in Setups
  /\ phase = "starting"
  /\ at = [c \in Coroutines |-> "none"]
  /\ mode = [c \in Coroutines |-> "gone"]
  /\ outcome = [c \in Coroutines |-> "none"]
  /\ cancelled = [c \in Coroutines |-> FALSE]
  /\ spawning = [p \in Spawners |-> NoChild]
  /\ slots = <<>>
  /\ emission = NoEmission
  /\ posted = {}
  /\ raised = {}
  /\ signal = "none"
  /\ handled = FALSE
  /\ stops = {}
  /\ dropped = {}

Step(c) ==
  \/ c \in Listeners /\ (Listen(c) \/ Loop(c) \/ TakeSlot(c) \/ Spawn(c))
  \/ c \in Sessions /\ (Proceed(c) \/ Respond(c))
  \/ Suspend(c)

Starting ==
  \/ \E l \in Listeners : Launch(l)
  \/ TakeSlot(Main) \/ Spawn(Main) \/ LaunchThrows \/ Serve

Next ==
  \/ \E c \in Coroutines : Step(c) \/ Resume(c) \/ DeliverPosted(c)
  \/ \E c \in Coroutines, result \in {"ok", "eof", "fail"} : Complete(c, result)
  \/ \E l \in Listeners, s \in Sessions : Accept(l, s)
  \/ \E sig \in Signals : Raise(sig)
  \/ \E caller \in {User} \cup Sessions : Stop(caller)
  \/ HandleSignal \/ Emit
  \/ Starting \/ Return \/ Returned

Spec == Init /\ [][Next]_vars

(* Threads go on; the queue of the io_context is first in first out, so    *)
(* what is ready gets a thread; handlers return; a session's operation     *)
(* ends at the latest when the stream's timeout expires. Clients and users *)
(* need do nothing, and an accept may wait forever.                        *)
Fairness ==
  /\ WF_vars(Starting)
  /\ \A c \in Coroutines : WF_vars(Step(c)) /\ SF_vars(Resume(c)) /\ SF_vars(DeliverPosted(c))
  /\ \A s \in Sessions : WF_vars(Complete(s, "fail"))
  /\ SF_vars(HandleSignal)
  /\ WF_vars(Emit)
  /\ WF_vars(Return)

FairSpec == Spec /\ Fairness

-----------------------------------------------------------------------------
Points ==
  {"none", "start", "loop", "accept", "detect", "handshake", "read", "handle", "write",
   "shutdown", "over"}

TypeOK ==
  /\ setup \in Setups
  /\ phase \in {"starting", "serving", "returned"}
  /\ at \in [Coroutines -> Points]
  /\ mode \in [Coroutines -> {"gone", "ready", "running", "arming", "waiting"}]
  /\ \A c \in Coroutines : Live(c) <=> mode[c] # "gone"
  /\ outcome \in [Coroutines -> {"none", "ok", "eof", "fail"}]
  /\ cancelled \in [Coroutines -> BOOLEAN]
  /\ slots \in Seq(Coroutines \cup {None})
  /\ spawning \in [Spawners -> [child : Coroutines \cup {None}, slot : 0..Len(slots)]]
  /\ emission \in {NoEmission} \cup [by : {Main, User} \cup Sessions, at : 1..Len(slots) + 1]
  /\ posted \subseteq Coroutines
  /\ raised \subseteq Signals
  /\ signal \in {"none"} \cup Signals
  /\ handled \in BOOLEAN
  /\ stops \subseteq {User} \cup Sessions
  /\ dropped \subseteq Sessions

(* A listener can be cancelled as long as it lives, however slots are      *)
(* taken and given back.                                                   *)
ListenersReachable == \A l \in Listeners : Live(l) => l \in Held

(* With one URL, or one thread, every live coroutine can be cancelled: no  *)
(* two of them ever have the same slot.                                    *)
Alone == Threads = 1 \/ Cardinality(setup.urls) = 1

AllReachable == Alone => \A c \in Coroutines : Live(c) => c \in Held

(* Once SIGINT has been emitted every listener is cancelled, and with one  *)
(* URL or one thread each lets at most one more session begin that is not. *)
ShutdownReaches ==
  signal = "SIGINT" /\ handled /\ emission.by # Main /\ phase = "serving" =>
    /\ \A l \in Listeners : Live(l) => cancelled[l]
    /\ Alone =>
         Cardinality({s \in Sessions : Live(s) /\ ~cancelled[s]}) <= Cardinality(setup.urls)

(* With one URL or one thread no response is lost before a shutdown is     *)
(* asked for: the write of each is begun and no write under way is         *)
(* cancelled. And on one thread, whatever signals and stop() cancel, the   *)
(* write of a response is begun unless the endpoint that made it called    *)
(* stop(); then never.                                                     *)
ResponsesKept ==
  /\ Alone /\ ~handled /\ stops = {} =>
       dropped = {} /\ \A s \in Sessions : at[s] = "write" => ~cancelled[s]
  /\ Threads = 1 => dropped = {s \in stops \cap Sessions : at[s] = "over"}

(* On one thread a signal ends start(), without any help of clients, and   *)
(* also when it is not the first.                                          *)
OneThreadShutdown == Threads = 1 /\ raised # {} ~> phase = "returned"

(* The comments at the signal handler: SIGINT and SIGTERM shut the server  *)
(* down, SIGTERM makes run() return immediately.                           *)
CleanShutdown == "SIGTERM" \in raised ~> phase = "returned"

(* SIGTERM, when it comes first, ends start(), whatever was emitted and    *)
(* whatever is under way.                                                  *)
SigtermReturns == signal = "SIGTERM" ~> phase = "returned"

(* On one thread stop() ends every listener that has its slot when the     *)
(* emission begins, also while start() has not launched all of them.       *)
StopEndsListening ==
  \A l \in Listeners :
    Threads = 1 /\ emission.by \notin {None, Main} /\ emission.at = 1 /\ l \in Held ~> ~Live(l)
=============================================================================
