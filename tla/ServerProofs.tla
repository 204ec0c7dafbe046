----------------------------- MODULE ServerProofs -----------------------------
(***************************************************************************)
(* For any number of URLs, connections, threads and calls of stop():       *)
(* listeners keep their cancellation slots. The argument is about slots    *)
(* between being taken and being filled: a spawner may lose the race for a *)
(* slot, but never to or against a listener, because listeners are all     *)
(* spawned before the pool runs.                                           *)
(***************************************************************************)
EXTENDS Server, WellFoundedInduction, TLAPS

(* While listeners are launched no coroutine has run yet. *)
NothingRuns ==
  phase = "starting" =>
    /\ \A c \in Coroutines : mode[c] \in {"gone", "ready"}
    /\ \A l \in Listeners : spawning[l] = NoChild

MainDone == phase # "starting" => spawning[Main] = NoChild

(* A child has not begun, and its spawner is where it can spawn it. *)
Children ==
  \A p \in Spawners :
    /\ spawning[p].slot # 0 => spawning[p].child # None
    /\ spawning[p].child # None =>
         /\ at[spawning[p].child] = "none"
         /\ IF p = Main
            THEN spawning[p].child \in setup.urls
            ELSE /\ spawning[p].child \in Sessions
                 /\ at[p] = "accept" /\ outcome[p] = "ok" /\ mode[p] \in {"ready", "running"}

OneParent ==
  \A p, q \in Spawners :
    p # q /\ spawning[p].child # None => spawning[p].child # spawning[q].child

(* A slot that has been taken does not hold a listener. *)
Taken ==
  \A p \in Spawners : spawning[p].slot # 0 => slots[spawning[p].slot] \notin Listeners

(* Only a thread of the user's emits before the pool runs. *)
LateEmission == emission.by \notin {None, User} => phase # "starting"

IInv ==
  /\ NothingRuns /\ MainDone /\ Children /\ OneParent /\ Taken
  /\ ListenersReachable /\ LateEmission

Invariant == TypeOK /\ IInv

-----------------------------------------------------------------------------
LEMMA Distinct ==
  /\ Main \in Spawners /\ Main \notin Coroutines
  /\ None \notin Coroutines /\ User \notin Coroutines /\ Main # None
  /\ Listeners \subseteq Coroutines /\ Sessions \subseteq Coroutines
  /\ Listeners \subseteq Spawners /\ Listeners \cap Sessions = {}
  /\ \A p \in Spawners : p # Main => p \in Listeners
  /\ \A s \in Setups : s.urls \subseteq Listeners
BY ServerAssumption DEF Spawners, Coroutines

LEMMA ClearedSlots ==
  ASSUME NEW S, NEW s \in Seq(S), NEW c, NEW d \in S
  PROVE  LET t == [i \in DOMAIN s |-> IF s[i] = c THEN d ELSE s[i]]
         IN  t \in Seq(S) /\ Len(t) = Len(s) /\ DOMAIN t = DOMAIN s
<1> DEFINE t == [i \in DOMAIN s |-> IF s[i] = c THEN d ELSE s[i]]
<1>1. DOMAIN s = 1..Len(s) /\ Len(s) \in Nat /\ \A i \in DOMAIN s : s[i] \in S
  OBVIOUS
<1>2. t \in [1..Len(s) -> S]
  BY <1>1
<1>3. QED
  BY <1>1, <1>2

(* slot() gives a slot without handler. *)
LEMMA SlotForFree ==
  ASSUME NEW T, slots \in Seq(T)
  PROVE  /\ SlotFor \in 1..(Len(slots) + 1)
         /\ SlotFor <= Len(slots) => slots[SlotFor] = None
<1> DEFINE free == {i \in DOMAIN slots : slots[i] = None}
<1>1. DOMAIN slots = 1..Len(slots) /\ Len(slots) \in Nat
  OBVIOUS
<1>2. CASE free = {}
  BY <1>1, <1>2 DEF SlotFor
<1>3. CASE free # {}
  <2>1. free \subseteq Nat
    BY <1>1
  <2>2. \E n \in free : \A m \in free : n <= m
    <3>1. PICK n \in free : \A m \in free : <<m, n>> \notin OpToRel(<, Nat)
      BY <1>3, <2>1, WFMin, NatLessThanWellFounded, Zenon
    <3>2. \A m \in free : ~(m < n)
      BY <2>1, <3>1 DEF OpToRel
    <3>3. QED
      BY <2>1, <3>2
  <2>3. Min(free) \in free
    BY <2>2 DEF Min
  <2>4. SlotFor = Min(free)
    BY <1>3 DEF SlotFor
  <2>5. QED
    BY <1>1, <2>3, <2>4
<1>4. QED
  BY <1>2, <1>3

-----------------------------------------------------------------------------
LEMMA InitOK == Init => Invariant
<1> SUFFICES ASSUME Init PROVE Invariant
  OBVIOUS
<1>1. TypeOK
  <2>1. slots \in Seq(Coroutines \cup {None}) /\ Len(slots) = 0
    BY DEF Init
  <2>2. spawning \in [Spawners -> [child : Coroutines \cup {None}, slot : 0..Len(slots)]]
    BY <2>1 DEF Init, NoChild
  <2>3. emission \in {NoEmission} \cup [by : {Main, User} \cup Sessions, at : 1..Len(slots) + 1]
    BY <2>1 DEF Init, NoEmission
  <2>4. QED
    BY <2>1, <2>2, <2>3 DEF Init, TypeOK, Points, Live
<1>2. IInv
  BY Distinct DEF Init, IInv, NothingRuns, MainDone, Children, OneParent, Taken,
     ListenersReachable, LateEmission, Live, NoChild, NoEmission
<1>3. QED
  BY <1>1, <1>2 DEF Invariant

(* Pool threads run coroutines only once all listeners are launched, and a *)
(* running listener with a child to spawn has just accepted it.            *)
LEMMA RunsInPool ==
  ASSUME Invariant, NEW c \in Coroutines, mode[c] \in {"running", "arming", "waiting"}
  PROVE  phase # "starting" /\ Live(c) /\ spawning[Main] = NoChild
BY DEF Invariant, IInv, NothingRuns, MainDone, TypeOK

(* A coroutine that ends leaves everything as it should be. *)
LEMMA OverKeeps ==
  ASSUME Invariant, NEW c \in Coroutines, mode[c] = "running",
         c \in Listeners => spawning[c].child = None,
         Over(c), UNCHANGED <<setup, phase, spawning, shutdown>>, dropped' \subseteq Sessions
  PROVE  Invariant'
<1> USE DEF Invariant, IInv, shutdown
<1>1. phase # "starting" /\ Live(c)
  BY RunsInPool
<1>2. /\ slots' \in Seq(Coroutines \cup {None}) /\ Len(slots') = Len(slots)
      /\ DOMAIN slots' = DOMAIN slots
      /\ \A i \in DOMAIN slots : slots'[i] = slots[i] \/ (slots[i] = c /\ slots'[i] = None)
  <2> DEFINE cleared == [i \in DOMAIN slots |-> IF slots[i] = c THEN None ELSE slots[i]]
  <2>1. slots \in Seq(Coroutines \cup {None})
    BY DEF TypeOK
  <2>2. CASE slots' = slots
    BY <2>1, <2>2
  <2>3. CASE slots' = cleared
    <3>1. cleared \in Seq(Coroutines \cup {None}) /\ Len(cleared) = Len(slots)
      BY <2>1, ClearedSlots
    <3>2. QED
      BY <2>3, <3>1
  <2>4. QED
    BY <2>2, <2>3 DEF Over
<1>3. /\ \A x \in Coroutines : x # c => (Live(x)' <=> Live(x))
      /\ ~Live(c)'
  BY DEF Over, Live, TypeOK
<1>4. TypeOK'
  <2>1. at' \in [Coroutines -> Points]
    BY DEF TypeOK, Over, Points
  <2>2. mode' \in [Coroutines -> {"gone", "ready", "running", "arming", "waiting"}]
    BY DEF TypeOK, Over
  <2>3. \A x \in Coroutines : Live(x)' <=> mode'[x] # "gone"
    BY <1>3 DEF TypeOK, Over
  <2>4. outcome' \in [Coroutines -> {"none", "ok", "eof", "fail"}] /\ cancelled' \in [Coroutines -> BOOLEAN]
    BY DEF TypeOK, Over
  <2>5. QED
    BY <1>2, <2>1, <2>2, <2>3, <2>4 DEF TypeOK
<1>5. NothingRuns' /\ MainDone' /\ OneParent' /\ LateEmission'
  BY <1>1 DEF NothingRuns, MainDone, OneParent, LateEmission
<1>6. Children'
  BY <1>1, Distinct DEF Children, Over, TypeOK, Live
<1>7. Taken'
  <2>1. SUFFICES ASSUME NEW p \in Spawners, spawning[p].slot # 0
                 PROVE  slots'[spawning[p].slot] \notin Listeners
    BY DEF Taken
  <2>2. spawning[p].slot \in DOMAIN slots
    <3>1. spawning[p].slot \in 0..Len(slots) /\ DOMAIN slots = 1..Len(slots)
      BY DEF TypeOK
    <3>2. QED
      BY <2>1, <3>1
  <2>3. slots[spawning[p].slot] \notin Listeners
    BY <2>1 DEF Taken
  <2>4. None \notin Listeners
    BY Distinct
  <2>5. QED
    BY <1>2, <2>2, <2>3, <2>4
<1>8. ListenersReachable'
  BY <1>2, <1>3, Distinct DEF ListenersReachable, Held
<1>9. QED
  BY <1>4, <1>5, <1>6, <1>7, <1>8

LEMMA GotoKeeps ==
  ASSUME Invariant, NEW c \in Coroutines, mode[c] = "running",
         c \in Listeners => spawning[c].child = None,
         NEW point \in Points \ {"none", "over"}, NEW m \in {"running", "arming"},
         Goto(c, point, m), UNCHANGED <<setup, phase, spawning, shutdown>>, dropped' \subseteq Sessions
  PROVE  Invariant'
<1> USE DEF Invariant, IInv, shutdown
<1>1. phase # "starting" /\ Live(c)
  BY RunsInPool
<1>2. \A x \in Coroutines : Live(x)' <=> Live(x)
  BY <1>1 DEF Goto, Live, TypeOK
<1>3. TypeOK'
  BY <1>2 DEF TypeOK, Goto
<1>4. NothingRuns' /\ MainDone' /\ OneParent' /\ LateEmission' /\ Taken'
  BY <1>1 DEF NothingRuns, MainDone, OneParent, LateEmission, Taken, Goto
<1>5. Children'
  BY <1>1, Distinct DEF Children, Goto, TypeOK, Live
<1>6. ListenersReachable'
  BY <1>2, Distinct DEF ListenersReachable, Held, Goto
<1>7. QED
  BY <1>3, <1>4, <1>5, <1>6

LEMMA AwaitKeeps ==
  ASSUME Invariant, NEW c \in Coroutines, mode[c] = "running",
         c \in Listeners => spawning[c].child = None,
         NEW point \in Points \ {"none", "over"},
         Await(c, point), UNCHANGED <<setup, phase, spawning, shutdown>>, dropped' \subseteq Sessions
  PROVE  Invariant'
BY OverKeeps, GotoKeeps DEF Await

-----------------------------------------------------------------------------
(* The steps of running coroutines. *)
LEMMA SessionKeeps ==
  ASSUME Invariant, NEW s \in Sessions, Proceed(s) \/ Respond(s)
  PROVE  Invariant'
<1>1. s \in Coroutines /\ s \notin Listeners /\ mode[s] = "running"
      /\ UNCHANGED <<setup, phase, spawning, shutdown>>
  BY Distinct DEF Proceed, Respond, Work
<1>2. dropped' \subseteq Sessions
  BY DEF Proceed, Respond, Invariant, TypeOK
<1>3. {"detect", "handshake", "read", "handle", "write", "shutdown"} \subseteq Points \ {"none", "over"}
  BY DEF Points
<1>4. CASE Over(s)
  BY <1>1, <1>2, <1>4, OverKeeps
<1>5. ASSUME NEW point \in Points \ {"none", "over"}, Await(s, point)
      PROVE  Invariant'
  BY <1>1, <1>2, <1>5, AwaitKeeps
<1>6. CASE Goto(s, "handle", "running")
  BY <1>1, <1>2, <1>3, <1>6, GotoKeeps
<1>7. QED
  BY <1>3, <1>4, <1>5, <1>6 DEF Proceed, Respond

LEMMA ListenerKeeps ==
  ASSUME Invariant, NEW l \in Listeners, Listen(l) \/ Loop(l)
  PROVE  Invariant'
<1>1. l \in Coroutines /\ mode[l] = "running" /\ UNCHANGED <<setup, phase, spawning, shutdown>>
  BY Distinct DEF Listen, Loop, Work
<1>2. dropped' \subseteq Sessions
  BY DEF Listen, Loop, Invariant, TypeOK
<1>3. spawning[l].child = None
  BY Distinct DEF Invariant, IInv, Children, Listen, Loop
<1>4. {"loop", "accept"} \subseteq Points \ {"none", "over"}
  BY DEF Points
<1>5. CASE Over(l)
  BY <1>1, <1>2, <1>3, <1>5, OverKeeps
<1>6. CASE Goto(l, "loop", "running")
  BY <1>1, <1>2, <1>3, <1>4, <1>6, GotoKeeps
<1>7. CASE Await(l, "accept")
  BY <1>1, <1>2, <1>3, <1>4, <1>7, AwaitKeeps
<1>8. QED
  BY <1>5, <1>6, <1>7 DEF Listen, Loop

(* Spawners. *)
LEMMA TakeSlotKeeps ==
  ASSUME Invariant, NEW p \in Spawners, TakeSlot(p)
  PROVE  Invariant'
<1> USE DEF Invariant, IInv
<1>1. slots \in Seq(Coroutines \cup {None})
  BY DEF TypeOK
<1>2. /\ SlotFor \in 1..(Len(slots) + 1)
      /\ SlotFor <= Len(slots) => slots[SlotFor] = None
  BY <1>1, SlotForFree
<1>3. /\ slots' \in Seq(Coroutines \cup {None}) /\ SlotFor \in 1..Len(slots')
      /\ Len(slots) <= Len(slots') /\ Len(slots) \in Nat /\ Len(slots') \in Nat
      /\ \A i \in 1..Len(slots) : slots'[i] = slots[i]
      /\ slots'[SlotFor] = None
  <2>1. CASE SlotFor > Len(slots)
    <3>1. SlotFor = Len(slots) + 1 /\ slots' = Append(slots, None)
      BY <1>1, <1>2, <2>1 DEF TakeSlot
    <3>2. QED
      BY <1>1, <3>1
  <2>2. CASE ~(SlotFor > Len(slots))
    BY <1>1, <1>2, <2>2 DEF TakeSlot
  <2>3. QED
    BY <2>1, <2>2
<1> DEFINE k == SlotFor
<1>4. /\ spawning' = [spawning EXCEPT ![p].slot = k]
      /\ UNCHANGED <<setup, phase, at, mode, outcome, cancelled, shutdown, dropped>>
  BY DEF TakeSlot
<1> HIDE DEF k
<1>5. /\ k \in 1..Len(slots') /\ slots'[k] = None
      /\ \A q \in Spawners : spawning'[q] = IF q = p THEN [spawning[p] EXCEPT !.slot = k] ELSE spawning[q]
  BY <1>3, <1>4 DEF TypeOK, k
<1>6. \A q \in Spawners : /\ spawning[q].child \in Coroutines \cup {None}
                          /\ spawning[q].slot \in 0..Len(slots)
                          /\ spawning'[q].child = spawning[q].child
                          /\ q # p => spawning'[q] = spawning[q]
  BY <1>5 DEF TypeOK
<1>7. TypeOK'
  <2>1. spawning' \in [Spawners -> [child : Coroutines \cup {None}, slot : 0..Len(slots')]]
    <3>1. \A q \in Spawners : spawning[q] \in [child : Coroutines \cup {None}, slot : 0..Len(slots)]
      BY DEF TypeOK
    <3>2. \A q \in Spawners :
            spawning'[q] \in [child : Coroutines \cup {None}, slot : 0..Len(slots')]
      BY <1>3, <1>5, <3>1
    <3>3. DOMAIN spawning' = Spawners /\ spawning' = [q \in Spawners |-> spawning'[q]]
      BY <1>4 DEF TypeOK
    <3>4. QED
      BY <3>2, <3>3
  <2>2. emission' \in {NoEmission} \cup [by : {Main, User} \cup Sessions, at : 1..Len(slots') + 1]
    BY <1>3, <1>4 DEF TypeOK, shutdown
  <2>3. QED
    BY <1>3, <1>4, <2>1, <2>2 DEF TypeOK, shutdown, Live
<1>8. spawning[p].child # None
  BY DEF TakeSlot
<1>9. NothingRuns' /\ MainDone'
  <2>1. p \in Listeners => phase # "starting"
    BY <1>8, Distinct DEF NothingRuns, NoChild
  <2>2. p = Main => phase = "starting"
    BY <1>8 DEF MainDone, NoChild
  <2>3. QED
    BY <1>4, <1>6, <2>1, <2>2, Distinct DEF NothingRuns, MainDone
<1>10. Children' /\ OneParent'
  BY <1>4, <1>6, <1>8 DEF Children, OneParent
<1>11. Taken'
  <2>1. None \notin Listeners
    BY Distinct
  <2>2. ASSUME NEW q \in Spawners, spawning'[q].slot # 0
        PROVE  slots'[spawning'[q].slot] \notin Listeners
    <3>1. CASE q = p
      BY <1>5, <3>1, <2>1 DEF TypeOK
    <3>2. CASE q # p
      BY <1>3, <1>6, <2>2, <3>2 DEF Taken
    <3>3. QED
      BY <3>1, <3>2
  <2>3. QED
    BY <2>2 DEF Taken
<1>12. ListenersReachable'
  <2>1. SUFFICES ASSUME NEW l \in Listeners, Live(l)'
                 PROVE  \E i \in DOMAIN slots' : slots'[i] = l
    BY DEF ListenersReachable, Held
  <2>2. PICK i \in DOMAIN slots : slots[i] = l
    BY <1>4, <2>1 DEF ListenersReachable, Held, Live
  <2>3. i \in DOMAIN slots' /\ slots'[i] = l
    BY <1>1, <1>3, <2>2
  <2>4. QED
    BY <2>3
<1>13. QED
  BY <1>4, <1>7, <1>9, <1>10, <1>11, <1>12 DEF LateEmission, shutdown

LEMMA SpawnKeeps ==
  ASSUME Invariant, NEW p \in Spawners, Spawn(p)
  PROVE  Invariant'
<1> USE DEF Invariant, IInv
<1> DEFINE c == spawning[p].child
           k == spawning[p].slot
<1>1. /\ c \in Coroutines /\ c # None /\ at[c] = "none" /\ k \in 1..Len(slots)
      /\ slots[k] \notin Listeners /\ slots \in Seq(Coroutines \cup {None})
      /\ spawning[p] # NoChild
      /\ IF p = Main
         THEN c \in Listeners
         ELSE /\ c \in Sessions /\ p \in Listeners /\ p # c
              /\ at[p] = "accept" /\ mode[p] \in {"ready", "running"}
  <2>1. spawning[p].slot # 0 /\ spawning[p] \in [child : Coroutines \cup {None}, slot : 0..Len(slots)]
    BY DEF Spawn, TypeOK
  <2>2. c # None /\ c \in Coroutines /\ k \in 1..Len(slots) /\ slots[k] \notin Listeners
    BY <2>1, Distinct DEF Children, Taken, TypeOK
  <2>3. /\ at[c] = "none"
        /\ IF p = Main
           THEN c \in setup.urls
           ELSE c \in Sessions /\ at[p] = "accept" /\ mode[p] \in {"ready", "running"}
    BY <2>2 DEF Children
  <2>4. setup.urls \subseteq Listeners
    BY Distinct DEF TypeOK
  <2>5. p # Main => p \in Listeners /\ p # c
    BY <2>3, Distinct DEF Spawners
  <2>6. c # None /\ spawning[p] # NoChild /\ slots \in Seq(Coroutines \cup {None})
    BY <2>1, <2>2 DEF NoChild, TypeOK
  <2>7. QED
    BY <2>2, <2>3, <2>4, <2>5, <2>6
<1>2. /\ slots' = [slots EXCEPT ![k] = c]
      /\ at' = [x \in Coroutines |->
                  CASE x = c -> "start" [] x = p -> "loop" [] OTHER -> at[x]]
      /\ mode' = [mode EXCEPT ![c] = "ready"]
      /\ spawning' = [spawning EXCEPT ![p] = NoChild]
      /\ outcome' = [x \in Coroutines |-> IF x = p THEN "none" ELSE outcome[x]]
      /\ UNCHANGED <<setup, phase, cancelled, shutdown, dropped>>
  BY DEF Spawn
<1>3. \A q \in Spawners : q # p /\ spawning[q].child # None => spawning[q].child # c
  BY <1>1 DEF OneParent
<1> HIDE DEF c, k
<1>4. /\ slots' \in Seq(Coroutines \cup {None}) /\ Len(slots') = Len(slots)
      /\ \A i \in 1..Len(slots) : slots'[i] = IF i = k THEN c ELSE slots[i]
  BY <1>1, <1>2
<1>5. \A x \in Coroutines : Live(x)' <=> (x = c \/ Live(x))
  BY <1>1, <1>2, Distinct DEF Live
<1>6. \A q \in Spawners : spawning'[q] = IF q = p THEN NoChild ELSE spawning[q]
  BY <1>2 DEF TypeOK
<1>7. TypeOK'
  <2>1. spawning' \in [Spawners -> [child : Coroutines \cup {None}, slot : 0..Len(slots')]]
    <3>1. NoChild \in [child : Coroutines \cup {None}, slot : 0..Len(slots)]
      BY <1>1 DEF NoChild
    <3>2. QED
      BY <1>2, <1>4, <3>1 DEF TypeOK
  <2>2. at' \in [Coroutines -> Points] /\ mode' \in [Coroutines -> {"gone", "ready", "running", "arming", "waiting"}]
    BY <1>2 DEF TypeOK, Points
  <2>3. \A x \in Coroutines : Live(x)' <=> mode'[x] # "gone"
    BY <1>1, <1>2, <1>5 DEF TypeOK
  <2>4. outcome' \in [Coroutines -> {"none", "ok", "eof", "fail"}]
    BY <1>2 DEF TypeOK
  <2>5. QED
    BY <1>2, <1>4, <2>1, <2>2, <2>3, <2>4 DEF TypeOK, shutdown
<1>8. p \in Listeners => phase # "starting"
  BY <1>1 DEF NothingRuns
<1>9. p = Main => phase = "starting"
  BY <1>1 DEF MainDone
<1>10. NothingRuns' /\ MainDone'
  BY <1>2, <1>6, <1>8, <1>9, Distinct DEF NothingRuns, MainDone, TypeOK
<1>11. Children'
  <2>1. ASSUME NEW q \in Spawners
        PROVE  /\ spawning'[q].slot # 0 => spawning'[q].child # None
               /\ spawning'[q].child # None =>
                    /\ at'[spawning'[q].child] = "none"
                    /\ IF q = Main
                       THEN spawning'[q].child \in setup'.urls
                       ELSE /\ spawning'[q].child \in Sessions
                            /\ at'[q] = "accept" /\ outcome'[q] = "ok" /\ mode'[q] \in {"ready", "running"}
    <3>1. CASE q = p
      BY <1>6, <3>1 DEF NoChild
    <3>2. CASE q # p
      <4>1. spawning'[q] = spawning[q]
        BY <1>6, <3>2
      <4>2. ASSUME spawning[q].child # None
            PROVE  at'[spawning[q].child] = "none"
        <5>1. spawning[q].child \in Coroutines /\ spawning[q].child # c /\ at[spawning[q].child] = "none"
          BY <1>3, <3>2, <4>2 DEF TypeOK, Children
        <5>2. spawning[q].child # p
          BY <1>1, <5>1, Distinct
        <5>3. QED
          BY <1>2, <5>1, <5>2
      <4>3. ASSUME spawning[q].child # None, q # Main
            PROVE  at'[q] = at[q] /\ outcome'[q] = outcome[q] /\ mode'[q] = mode[q]
        <5>1. q \in Coroutines /\ q # c
          BY <1>1, <4>3, Distinct DEF Children
        <5>2. QED
          BY <1>2, <3>2, <5>1 DEF TypeOK
      <4>4. setup' = setup
        BY <1>2
      <4>5. QED
        BY <4>1, <4>2, <4>3, <4>4 DEF Children
    <3>3. QED
      BY <3>1, <3>2
  <2>2. QED
    BY <2>1 DEF Children
<1>12. OneParent'
  BY <1>6 DEF OneParent, NoChild
<1>13. Taken'
  <2>1. ASSUME NEW q \in Spawners, spawning'[q].slot # 0
        PROVE  slots'[spawning'[q].slot] \notin Listeners
    <3>1. q # p /\ spawning'[q] = spawning[q]
      BY <1>6, <2>1 DEF NoChild
    <3>2. spawning[q].slot \in 1..Len(slots) /\ slots[spawning[q].slot] \notin Listeners
      BY <2>1, <3>1 DEF TypeOK, Taken
    <3>3. p # Main
      BY <1>9, <2>1, <3>1, Distinct DEF NothingRuns, NoChild
    <3>4. c \notin Listeners
      BY <1>1, <3>3, Distinct
    <3>5. QED
      BY <1>4, <3>1, <3>2, <3>4
  <2>2. QED
    BY <2>1 DEF Taken
<1>14. ListenersReachable'
  <2>1. ASSUME NEW l \in Listeners, Live(l)'
        PROVE  \E i \in 1..Len(slots') : slots'[i] = l
    <3>1. CASE l = c
      BY <1>1, <1>4, <3>1
    <3>2. CASE l # c
      <4>1. \E i \in 1..Len(slots) : slots[i] = l
        BY <1>1, <1>5, <2>1, <3>2, Distinct DEF ListenersReachable, Held
      <4>2. QED
        BY <1>1, <1>4, <4>1
    <3>3. QED
      BY <3>1, <3>2
  <2>2. QED
    BY <1>4, <2>1 DEF ListenersReachable, Held
<1>15. LateEmission'
  BY <1>2 DEF LateEmission, shutdown
<1>16. QED
  BY <1>7, <1>10, <1>11, <1>12, <1>13, <1>14, <1>15

-----------------------------------------------------------------------------
(* The io_context: steps that only change what a live coroutine waits for. *)
LEMMA ScheduleKeeps ==
  ASSUME Invariant, NEW c \in Coroutines, Live(c), phase # "starting",
         NEW m \in {"ready", "running", "arming", "waiting"},
         NEW o \in {"none", "ok", "eof", "fail"},
         mode' = [mode EXCEPT ![c] = m], outcome' = [outcome EXCEPT ![c] = o],
         mode[c] \in {"waiting", "arming"} \/ (o = outcome[c] /\ m = "running"),
         UNCHANGED <<setup, phase, at, slots, spawning, raised, signal, handled, stops, dropped>>,
         cancelled' \in [Coroutines -> BOOLEAN], posted' \subseteq Coroutines,
         emission' \in {NoEmission} \cup [by : {Main, User} \cup Sessions, at : 1..Len(slots) + 1]
  PROVE  Invariant'
<1> USE DEF Invariant, IInv
<1>1. \A x \in Coroutines : Live(x)' <=> Live(x)
  BY DEF Live
<1>2. TypeOK'
  BY <1>1 DEF TypeOK
<1>3. NothingRuns' /\ MainDone' /\ OneParent' /\ Taken' /\ LateEmission'
  BY DEF NothingRuns, MainDone, OneParent, Taken, LateEmission
<1>4. Children'
  BY Distinct DEF Children, TypeOK
<1>5. ListenersReachable'
  BY <1>1, Distinct DEF ListenersReachable, Held
<1>6. QED
  BY <1>2, <1>3, <1>4, <1>5

LEMMA PoolKeeps ==
  ASSUME Invariant, NEW c \in Coroutines,
         \/ Resume(c) \/ Suspend(c)
         \/ \E result \in {"ok", "eof", "fail"} : Complete(c, result)
  PROVE  Invariant'
<1> USE DEF Invariant
<1>1. /\ cancelled' \in [Coroutines -> BOOLEAN] /\ posted' \subseteq Coroutines
      /\ emission' \in {NoEmission} \cup [by : {Main, User} \cup Sessions, at : 1..Len(slots) + 1]
      /\ UNCHANGED <<setup, phase, at, slots, spawning, raised, signal, handled, stops, dropped>>
  BY DEF Resume, Suspend, Complete, shutdown, TypeOK
<1>2. outcome = [outcome EXCEPT ![c] = outcome[c]] /\ outcome[c] \in {"none", "ok", "eof", "fail"}
  BY DEF TypeOK
<1>3. CASE Resume(c)
  <2>1. phase # "starting" /\ Live(c)
    BY <1>3 DEF Resume, ThreadFree, TypeOK
  <2>2. QED
    BY <1>1, <1>2, <1>3, <2>1, ScheduleKeeps DEF Resume
<1>4. CASE Suspend(c)
  <2>1. mode[c] = "arming" /\ phase # "starting" /\ Live(c)
    BY <1>4, RunsInPool DEF Suspend
  <2>2. CASE mode' = [mode EXCEPT ![c] = "waiting"] /\ UNCHANGED outcome
    BY <1>1, <1>2, <2>1, <2>2, ScheduleKeeps
  <2>3. CASE mode' = [mode EXCEPT ![c] = "ready"] /\ outcome' = [outcome EXCEPT ![c] = "fail"]
    BY <1>1, <2>1, <2>3, ScheduleKeeps
  <2>4. QED
    BY <1>4, <2>2, <2>3 DEF Suspend
<1>5. ASSUME NEW result \in {"ok", "eof", "fail"}, Complete(c, result)
      PROVE  Invariant'
  <2>1. mode[c] = "waiting" /\ phase # "starting" /\ Live(c)
    BY <1>5, RunsInPool DEF Complete
  <2>2. QED
    BY <1>1, <1>5, <2>1, ScheduleKeeps DEF Complete
<1>6. QED
  BY <1>3, <1>4, <1>5

LEMMA CancelKeeps ==
  ASSUME Invariant, NEW c \in Coroutines, Cancel(c),
         UNCHANGED <<setup, phase, at, slots, spawning, raised, signal, handled, stops, dropped>>,
         posted' \subseteq Coroutines,
         emission' \in {NoEmission} \cup [by : {Main, User} \cup Sessions, at : 1..Len(slots) + 1],
         emission'.by \in {None, emission.by}
  PROVE  Invariant'
<1> USE DEF Invariant, IInv
<1>1. cancelled' \in [Coroutines -> BOOLEAN]
  BY DEF Cancel, TypeOK, Live
<1>2. CASE mode[c] = "waiting"
  BY <1>1, <1>2, RunsInPool, ScheduleKeeps DEF Cancel
<1>3. CASE mode[c] # "waiting"
  <2>1. UNCHANGED <<mode, outcome>>
    BY <1>3 DEF Cancel
  <2>2. \A x \in Coroutines : Live(x)' <=> Live(x)
    BY DEF Live
  <2>3. TypeOK'
    BY <1>1, <2>1, <2>2 DEF TypeOK
  <2>4. QED
    BY <2>1, <2>2, <2>3, Distinct DEF NothingRuns, MainDone, Children, OneParent, Taken,
       ListenersReachable, Held, LateEmission
<1>4. QED
  BY <1>2, <1>3

(* Steps that leave the coroutines alone. *)
LEMMA ControlKeeps ==
  ASSUME Invariant, UNCHANGED <<setup, control, phase, spawning, dropped>>,
         posted' \subseteq Coroutines, raised' \subseteq Signals,
         signal' \in {"none"} \cup Signals,
         handled' \in BOOLEAN, handled => handled', stops' \subseteq {User} \cup Sessions,
         emission' \in {NoEmission} \cup [by : {Main, User} \cup Sessions, at : 1..Len(slots) + 1],
         emission'.by \in {None, User} \/ phase # "starting"
  PROVE  Invariant'
<1> USE DEF Invariant, IInv, control
<1>1. \A x \in Coroutines : Live(x)' <=> Live(x)
  BY DEF Live
<1>2. TypeOK'
  BY <1>1 DEF TypeOK
<1>3. QED
  BY <1>1, <1>2, Distinct DEF NothingRuns, MainDone, Children, OneParent, Taken,
     ListenersReachable, Held, LateEmission

LEMMA EmitKeeps ==
  ASSUME Invariant, Emit
  PROVE  Invariant'
<1> USE DEF Invariant
<1>1. /\ UNCHANGED <<setup, phase, at, slots, spawning, raised, signal, handled, stops, dropped>>
      /\ emission # NoEmission /\ emission.at \in 1..Len(slots) + 1 /\ Len(slots) \in Nat
  BY DEF Emit, TypeOK
<1>2. /\ emission' \in {NoEmission} \cup [by : {Main, User} \cup Sessions, at : 1..Len(slots) + 1]
      /\ emission'.by \in {None, emission.by}
  <2>1. CASE emission.at > Len(slots)
    <3>1. emission' = NoEmission
      BY <2>1, Zenon DEF Emit
    <3>2. QED
      BY <3>1 DEF NoEmission
  <2>2. CASE ~(emission.at > Len(slots))
    <3>1. emission' = [emission EXCEPT !.at = @ + 1]
      BY <2>2, Zenon DEF Emit
    <3>2. emission \in [by : {Main, User} \cup Sessions, at : 1..Len(slots) + 1]
      BY <1>1 DEF TypeOK
    <3>3. emission.at + 1 \in 1..Len(slots) + 1
      BY <1>1, <2>2
    <3>4. QED
      BY <3>1, <3>2, <3>3
  <2>3. QED
    BY <2>1, <2>2
<1>3. emission'.by \in {None, User} \/ phase # "starting"
  BY <1>2 DEF IInv, LateEmission
<1>4. CASE UNCHANGED <<cancelled, mode, outcome>> /\ posted' \subseteq Coroutines
  BY <1>1, <1>2, <1>3, <1>4, ControlKeeps DEF TypeOK, control
<1>5. ASSUME NEW c \in Coroutines, Cancel(c), UNCHANGED posted
      PROVE  Invariant'
  <2>1. posted' \subseteq Coroutines
    BY <1>5 DEF TypeOK
  <2>2. QED
    BY <1>1, <1>2, <1>5, <2>1, CancelKeeps
<1>6. CASE emission.at > Len(slots)
  BY <1>4, <1>6 DEF Emit, TypeOK
<1>7. CASE ~(emission.at > Len(slots))
  <2> DEFINE c == slots[emission.at]
  <2>1. emission.at \in 1..Len(slots)
    BY <1>1, <1>7
  <2>2. /\ c = None => UNCHANGED <<cancelled, mode, outcome, posted>>
        /\ c # None /\ emission.by = User
             => posted' = posted \cup {c} /\ UNCHANGED <<cancelled, mode, outcome>>
        /\ c # None /\ emission.by # User => Cancel(c) /\ UNCHANGED posted
    BY <1>7, Zenon DEF Emit
  <2>3. c \in Coroutines \cup {None}
    BY <2>1 DEF TypeOK
  <2> HIDE DEF c
  <2>4. CASE c = None
    BY <1>4, <2>2, <2>4 DEF TypeOK
  <2>5. CASE c # None /\ emission.by = User
    BY <1>4, <2>2, <2>3, <2>5 DEF TypeOK
  <2>6. CASE c # None /\ emission.by # User
    BY <1>5, <2>2, <2>3, <2>6
  <2>7. QED
    BY <2>4, <2>5, <2>6
<1>8. QED
  BY <1>6, <1>7

LEMMA DeliverKeeps ==
  ASSUME Invariant, NEW c \in Coroutines, DeliverPosted(c)
  PROVE  Invariant'
<1>1. /\ emission' = emission /\ posted' = posted \ {c} /\ Cancel(c)
      /\ UNCHANGED <<setup, phase, at, slots, spawning, raised, signal, handled, stops, dropped>>
  BY DEF DeliverPosted
<1>2. posted' \subseteq Coroutines
      /\ emission' \in {NoEmission} \cup [by : {Main, User} \cup Sessions, at : 1..Len(slots) + 1]
  BY <1>1 DEF Invariant, TypeOK
<1>3. QED
  BY <1>1, <1>2, CancelKeeps

LEMMA ShutdownKeeps ==
  ASSUME Invariant,
         \/ \E sig \in Signals : Raise(sig)
         \/ HandleSignal
         \/ \E caller \in {User} \cup Sessions : Stop(caller)
  PROVE  Invariant'
<1> USE DEF Invariant
<1>1. UNCHANGED <<setup, control, phase, spawning, posted, dropped>>
  BY DEF Raise, HandleSignal, Stop
<1>2. Len(slots) \in Nat
  BY DEF TypeOK
<1>3. \A who \in {Main, User} \cup Sessions :
        [by |-> who, at |-> 1] \in [by : {Main, User} \cup Sessions, at : 1..Len(slots) + 1]
  BY <1>2
<1>4. CASE \E sig \in Signals : Raise(sig)
  <2>1. /\ raised' \subseteq Signals /\ signal' \in {"none"} \cup Signals
        /\ UNCHANGED <<emission, handled, stops>>
    BY <1>4 DEF Raise, TypeOK
  <2>2. emission'.by \in {None, User} \/ phase # "starting"
    BY <2>1 DEF IInv, LateEmission
  <2>3. QED
    BY <1>1, <2>1, <2>2, ControlKeeps DEF TypeOK
<1>5. CASE HandleSignal
  <2>1. /\ phase # "starting" /\ handled' /\ handled' \in BOOLEAN /\ UNCHANGED <<raised, signal, stops>>
        /\ emission' \in {emission, [by |-> Main, at |-> 1]}
    BY <1>5 DEF HandleSignal, ThreadFree
  <2>2. emission' \in {NoEmission} \cup [by : {Main, User} \cup Sessions, at : 1..Len(slots) + 1]
    BY <1>3, <2>1 DEF TypeOK
  <2>3. QED
    BY <1>1, <2>1, <2>2, ControlKeeps DEF TypeOK
<1>6. ASSUME NEW caller \in {User} \cup Sessions, Stop(caller)
      PROVE  Invariant'
  <2>1. /\ stops' = stops \cup {caller} /\ UNCHANGED <<raised, signal, handled>>
        /\ emission' = [by |-> caller, at |-> 1]
    BY <1>6 DEF Stop
  <2>2. caller = User \/ phase # "starting"
    <3>1. CASE caller \in Sessions /\ caller # User
      <4>1. mode[caller] = "running" /\ caller \in Coroutines
        BY <1>6, <3>1, Distinct DEF Stop
      <4>2. QED
        BY <4>1, RunsInPool
    <3>2. QED
      BY <3>1
  <2>3. emission' \in {NoEmission} \cup [by : {Main, User} \cup Sessions, at : 1..Len(slots) + 1]
    BY <1>3, <2>1
  <2>4. stops' \subseteq {User} \cup Sessions
    BY <2>1 DEF TypeOK
  <2>5. emission'.by \in {None, User} \/ phase # "starting"
    BY <2>1, <2>2
  <2>6. QED
    BY <1>1, <2>1, <2>3, <2>4, <2>5, ControlKeeps DEF TypeOK
<1>7. QED
  BY <1>4, <1>5, <1>6

LEMMA AcceptKeeps ==
  ASSUME Invariant, NEW l \in Listeners, NEW s \in Sessions, Accept(l, s)
  PROVE  Invariant'
<1> USE DEF Invariant, IInv
<1> DEFINE new == [child |-> s, slot |-> 0]
<1>1. /\ at[l] = "accept" /\ mode[l] = "waiting" /\ at[s] = "none"
      /\ \A p \in Spawners : spawning[p].child # s
      /\ mode' = [mode EXCEPT ![l] = "ready"] /\ outcome' = [outcome EXCEPT ![l] = "ok"]
      /\ spawning' = [spawning EXCEPT ![l] = new]
      /\ UNCHANGED <<setup, phase, at, slots, cancelled, shutdown, dropped>>
  BY DEF Accept
<1>2. /\ l \in Coroutines /\ l \in Spawners /\ l # Main /\ s \in Coroutines /\ l # s /\ s # None
      /\ phase # "starting" /\ Live(l)
  BY <1>1, Distinct, RunsInPool
<1>3. /\ new \in [child : Coroutines \cup {None}, slot : 0..Len(slots)]
      /\ new.child = s /\ new.slot = 0
  BY <1>2 DEF TypeOK
<1> HIDE DEF new
<1>4. \A p \in Spawners : spawning'[p] = IF p = l THEN new ELSE spawning[p]
  BY <1>1 DEF TypeOK
<1>5. \A x \in Coroutines : Live(x)' <=> Live(x)
  BY <1>1 DEF Live
<1>6. TypeOK'
  <2>1. spawning' \in [Spawners -> [child : Coroutines \cup {None}, slot : 0..Len(slots)]]
    BY <1>1, <1>2, <1>3 DEF TypeOK
  <2>2. QED
    BY <1>1, <1>2, <1>5, <2>1 DEF TypeOK, shutdown
<1>7. NothingRuns' /\ MainDone' /\ LateEmission'
  BY <1>1, <1>2, <1>4, Distinct DEF NothingRuns, MainDone, LateEmission, shutdown
<1>8. Children'
  BY <1>1, <1>2, <1>3, <1>4, Distinct DEF Children, TypeOK
<1>9. OneParent'
  BY <1>1, <1>3, <1>4 DEF OneParent
<1>10. Taken'
  BY <1>1, <1>3, <1>4 DEF Taken
<1>11. ListenersReachable'
  BY <1>1, <1>5, Distinct DEF ListenersReachable, Held
<1>12. QED
  BY <1>6, <1>7, <1>8, <1>9, <1>10, <1>11

(* start() *)
LEMMA LaunchKeeps ==
  ASSUME Invariant, NEW l \in Listeners, Launch(l)
  PROVE  Invariant'
<1> USE DEF Invariant, IInv
<1> DEFINE new == [child |-> l, slot |-> 0]
<1>1. /\ phase = "starting" /\ l \in setup.urls /\ at[l] = "none" /\ spawning[Main] = NoChild
      /\ spawning' = [spawning EXCEPT ![Main] = new]
      /\ UNCHANGED <<setup, phase, control, shutdown, dropped>>
  BY DEF Launch
<1>2. /\ new \in [child : Coroutines \cup {None}, slot : 0..Len(slots)]
      /\ new.child = l /\ new.slot = 0
  BY Distinct DEF TypeOK
<1> HIDE DEF new
<1>3. \A p \in Spawners : spawning'[p] = IF p = Main THEN new ELSE spawning[p]
  BY <1>1 DEF TypeOK
<1>4. \A x \in Coroutines : Live(x)' <=> Live(x)
  BY <1>1 DEF Live, control
<1>5. TypeOK'
  <2>1. spawning' \in [Spawners -> [child : Coroutines \cup {None}, slot : 0..Len(slots)]]
    BY <1>1, <1>2, Distinct DEF TypeOK
  <2>2. QED
    BY <1>1, <1>4, <2>1 DEF TypeOK, shutdown, control
<1>6. \A p \in Listeners : spawning'[p] = NoChild
  BY <1>1, <1>3, Distinct DEF NothingRuns
<1>7. NothingRuns' /\ MainDone' /\ LateEmission'
  BY <1>1, <1>6 DEF NothingRuns, MainDone, LateEmission, shutdown, control
<1>8. Children' /\ OneParent' /\ Taken'
  BY <1>1, <1>2, <1>3, <1>6, Distinct DEF Children, OneParent, Taken, NoChild, control
<1>9. ListenersReachable'
  BY <1>1, <1>4, Distinct DEF ListenersReachable, Held, control
<1>10. QED
  BY <1>5, <1>7, <1>8, <1>9

LEMMA ServeKeeps ==
  ASSUME Invariant, Serve
  PROVE  Invariant'
<1> USE DEF Invariant, IInv
<1>1. /\ phase' = "serving" /\ UNCHANGED <<setup, control, spawning, shutdown, dropped>>
      /\ \A l \in setup.urls : at[l] # "none"
  BY DEF Serve
<1>2. \A x \in Coroutines : Live(x)' <=> Live(x)
  BY <1>1 DEF Live, control
<1>3. TypeOK'
  BY <1>1, <1>2 DEF TypeOK, shutdown, control
<1>4. spawning[Main] = NoChild
  <2>1. spawning[Main] \in [child : Coroutines \cup {None}, slot : 0..Len(slots)]
    BY Distinct DEF TypeOK
  <2>2. spawning[Main].child = None /\ spawning[Main].slot = 0
    BY <1>1, Distinct DEF Children
  <2>3. QED
    BY <2>1, <2>2 DEF NoChild
<1>5. QED
  BY <1>1, <1>2, <1>3, <1>4, Distinct DEF NothingRuns, MainDone, Children, OneParent, Taken,
     ListenersReachable, Held, LateEmission, shutdown, control

LEMMA ReturnsKeeps ==
  ASSUME Invariant, Returns
  PROVE  Invariant'
<1> USE DEF Invariant, IInv
<1>1. /\ phase' = "returned" /\ posted' = {}
      /\ at' = [c \in Coroutines |-> IF Live(c) THEN "over" ELSE at[c]]
      /\ mode' = [c \in Coroutines |-> "gone"]
      /\ outcome' = [c \in Coroutines |-> "none"]
      /\ cancelled' = [c \in Coroutines |-> FALSE]
      /\ spawning' = [p \in Spawners |-> NoChild]
      /\ UNCHANGED <<setup, slots, emission, raised, signal, handled, stops, dropped>>
  BY DEF Returns
<1>2. \A x \in Coroutines : ~Live(x)'
  BY <1>1 DEF Live
<1>3. TypeOK'
  <2>1. NoChild \in [child : Coroutines \cup {None}, slot : 0..Len(slots)]
    BY DEF TypeOK, NoChild
  <2>2. at' \in [Coroutines -> Points]
    BY <1>1 DEF TypeOK, Points
  <2>3. QED
    BY <1>1, <1>2, <2>1, <2>2 DEF TypeOK
<1>4. QED
  BY <1>1, <1>2, <1>3, Distinct DEF NothingRuns, MainDone, Children, OneParent, Taken,
     ListenersReachable, LateEmission, NoChild

-----------------------------------------------------------------------------
LEMMA Inductive == Invariant /\ [Next]_vars => Invariant'
<1> SUFFICES ASSUME Invariant, [Next]_vars PROVE Invariant'
  OBVIOUS
<1>1. ASSUME NEW c \in Coroutines, Step(c)
      PROVE  Invariant'
  <2>1. c \in Listeners => c \in Spawners
    BY Distinct
  <2>2. QED
    BY <1>1, <2>1, ListenerKeeps, SessionKeeps, TakeSlotKeeps, SpawnKeeps, PoolKeeps DEF Step
<1>2. ASSUME NEW c \in Coroutines,
             \/ Resume(c) \/ DeliverPosted(c)
             \/ \E result \in {"ok", "eof", "fail"} : Complete(c, result)
      PROVE  Invariant'
  BY <1>2, PoolKeeps, DeliverKeeps
<1>3. CASE Starting
  BY <1>3, LaunchKeeps, TakeSlotKeeps, SpawnKeeps, ReturnsKeeps, ServeKeeps, Distinct
     DEF Starting, LaunchThrows
<1>4. CASE UNCHANGED vars
  <2>1. \A x \in Coroutines : Live(x)' <=> Live(x)
    BY <1>4 DEF Live, vars, control
  <2>2. TypeOK'
    BY <1>4, <2>1 DEF Invariant, TypeOK, vars, control, shutdown
  <2>3. QED
    BY <1>4, <2>1, <2>2, Distinct DEF Invariant, IInv, vars, control, shutdown, NothingRuns,
       MainDone, Children, OneParent, Taken, ListenersReachable, Held, LateEmission
<1>5. CASE Returned
  BY <1>4, <1>5 DEF Returned
<1>6. QED
  BY <1>1, <1>2, <1>3, <1>4, <1>5, AcceptKeeps, ShutdownKeeps, EmitKeeps, ReturnsKeeps
     DEF Next, Return

(* Every variable of the server keeps to its type, for any number of       *)
(* listeners, connections and threads.                                     *)
THEOREM ServerTypes == Spec => []TypeOK
<1>1. Invariant => TypeOK
  BY DEF Invariant
<1>2. QED
  BY <1>1, InitOK, Inductive, PTL DEF Spec

(* A live listener always holds a slot, so it can be cancelled, whatever   *)
(* spawners on other threads do with slots they took at the same time.     *)
THEOREM ListenersKeepSlots == Spec => []ListenersReachable
<1>1. Invariant => ListenersReachable
  BY DEF Invariant, IInv
<1>2. QED
  BY <1>1, InitOK, Inductive, PTL DEF Spec
=============================================================================
