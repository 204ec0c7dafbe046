----------------------- MODULE ServiceProviderProofs -----------------------
(***************************************************************************)
(* Proofs about ServiceProvider, for every set of requests, every set of   *)
(* service collections and every bound.                                    *)
(***************************************************************************)
EXTENDS ServiceProvider, SequenceTheorems, TLAPS

(* The first k items of a sequence. *)
LEMMA Prefix ==
  ASSUME NEW S, NEW s \in Seq(S), NEW k \in 0..Len(s)
  PROVE  /\ SubSeq(s, 1, k) \in Seq(S)
         /\ Len(SubSeq(s, 1, k)) = k
         /\ \A j \in 1..k : SubSeq(s, 1, k)[j] = s[j]
<1>1. \A j \in 1..k : s[j] \in S
  OBVIOUS
<1>2. 1 \in Int /\ k \in Int /\ k >= 0
  OBVIOUS
<1>3. /\ SubSeq(s, 1, k) \in Seq(S)
      /\ Len(SubSeq(s, 1, k)) = IF 1 <= k THEN k - 1 + 1 ELSE 0
      /\ \A j \in 1..(k - 1 + 1) : SubSeq(s, 1, k)[j] = s[1 + j - 1]
  BY <1>1, <1>2, SubSeqProperties
<1>4. \A j \in 1..k : 1 + j - 1 = j
  BY <1>2
<1>5. QED
  BY <1>2, <1>3, <1>4

(* The last item of a sequence, and the sequence without it. *)
LEMMA LastFront ==
  ASSUME NEW S, NEW s \in Seq(S), s # <<>>
  PROVE  /\ Len(s) \in Nat /\ Len(s) >= 1
         /\ Last(s) = s[Len(s)] /\ Last(s) \in S
         /\ Front(s) \in Seq(S)
         /\ Len(Front(s)) = Len(s) - 1
         /\ \A k \in 1..(Len(s) - 1) : Front(s)[k] = s[k]
<1>1. Len(s) \in Nat /\ Len(s) >= 1 /\ s[Len(s)] \in S
  OBVIOUS
<1>2. Len(s) - 1 \in 0..Len(s)
  BY <1>1
<1>3. QED
  BY <1>1, <1>2, Prefix DEF Last, Front

(* Reversing keeps the elements and the length. *)
LEMMA ReverseSeq ==
  ASSUME NEW S, NEW s \in Seq(S)
  PROVE  /\ Reverse(s) \in Seq(S)
         /\ Len(Reverse(s)) = Len(s)
         /\ s # <<>> => Reverse(s)[1] = s[Len(s)] /\ Reverse(s) # <<>>
  BY DEF Reverse

(* A collection's parts have their types. *)
LEMMA CollectionParts ==
  ASSUME TypeOK
  PROVE  /\ \A i \in Interfaces :
              /\ Creators(i) \in Seq(Impls)
              /\ Scope(i) \in Scopes
              /\ Known(i) => /\ MainOf(i) \in Impls
                             /\ NewestFirst(i) \in Seq(Impls)
                             /\ NewestFirst(i) # <<>>
         /\ \A T \in Impls : reg.deps[T] \in SUBSET Calls
         /\ Creators(SelfType) = <<>>
<1>1. reg \in Collections /\ reg.creators[SelfType] = <<>>
  BY CollectionsAssumption DEF TypeOK
<1>2. \A i \in Interfaces : Creators(i) \in Seq(Impls) /\ Scope(i) \in Scopes
  BY <1>1 DEF Collections, Creators, Scope
<1>3. \A i \in Interfaces : Known(i) => MainOf(i) \in Impls
  BY <1>2, LastFront DEF Known, MainOf
<1>4. \A i \in Interfaces : Known(i) => NewestFirst(i) \in Seq(Impls) /\ NewestFirst(i) # <<>>
  BY <1>2, ReverseSeq DEF Known, NewestFirst
<1>5. \A T \in Impls : reg.deps[T] \in SUBSET Calls
  BY <1>1 DEF Collections
<1>6. QED
  BY <1>1, <1>2, <1>3, <1>4, <1>5 DEF Creators

(* Taking an argument and delivering a pointer change neither the length   *)
(* of a stack nor what its frames construct.                               *)
SameBuild(s, t) ==
  /\ Len(s) = Len(t)
  /\ \A k \in 1..Len(s) :
       s[k].building = t[k].building /\ s[k].todo = t[k].todo
       /\ s[k].op = t[k].op /\ s[k].iface = t[k].iface

LEMMA TakenFrames ==
  ASSUME TypeOK, NEW p \in Providers, NEW d \in Calls
  PROVE  /\ Taken(p, d) \in Seq(Frames)
         /\ SameBuild(Taken(p, d), stack[p])
         /\ Len(Taken(p, d)) = Len(stack[p])
<1> DEFINE s == stack[p]
<1>1. s \in Seq(Frames)
  BY DEF TypeOK
<1>2. CASE s = <<>>
  BY <1>2 DEF Taken, SameBuild
<1>3. CASE s # <<>>
  <2> DEFINE n == Len(s)
             f == [s[n] EXCEPT !.args = @ \ {d}]
  <2>1. Taken(p, d) = [s EXCEPT ![n] = f]
    BY <1>3 DEF Taken
  <2>2. n \in 1..Len(s) /\ s[n] \in Frames
    BY <1>1, <1>3
  <2>3. f \in Frames /\ f.building = s[n].building /\ f.todo = s[n].todo
        /\ f.op = s[n].op /\ f.iface = s[n].iface
    BY <2>2 DEF Frames
  <2>4. QED
    BY <1>1, <2>1, <2>2, <2>3 DEF SameBuild
<1>4. QED
  BY <1>2, <1>3

LEMMA DeliverFrames ==
  ASSUME NEW s \in Seq(Frames), NEW refs \in SUBSET Refs
  PROVE  /\ Deliver(s, refs) \in Seq(Frames)
         /\ SameBuild(Deliver(s, refs), s)
<1>1. CASE s = <<>>
  BY <1>1 DEF Deliver, SameBuild
<1>2. CASE s # <<>>
  <2> DEFINE n == Len(s)
             f == [s[n] EXCEPT !.held = @ \union refs]
  <2>1. Deliver(s, refs) = [s EXCEPT ![n] = f]
    BY <1>2 DEF Deliver
  <2>2. n \in 1..Len(s) /\ s[n] \in Frames
    BY <1>2
  <2>3. f \in Frames /\ f.building = s[n].building /\ f.todo = s[n].todo
        /\ f.op = s[n].op /\ f.iface = s[n].iface
    BY <2>2 DEF Frames
  <2>4. QED
    BY <2>1, <2>2, <2>3 DEF SameBuild
<1>3. QED
  BY <1>1, <1>2

LEMMA NewFrameType ==
  ASSUME TypeOK, NEW p \in Providers, NEW d \in Calls, Known(d.iface)
  PROVE  NewFrame(p, d) \in Frames
<1>1. d.op \in Gets \union Creates /\ d.iface \in Interfaces
  BY DEF Calls
<1>2. /\ MainOf(d.iface) \in Impls
      /\ NewestFirst(d.iface) \in Seq(Impls)
      /\ NewestFirst(d.iface) # <<>>
  BY <1>1, CollectionParts
<1>3. Tail(NewestFirst(d.iface)) \in Seq(Impls)
  BY <1>2
<1>4. <<MainOf(d.iface)>> \in Seq(Impls)
  BY <1>2
<1>5. CreatorsFor(p, d) \in Seq(Impls)
  BY <1>1, <1>2, <1>3, <1>4 DEF CreatorsFor, Gets, Creates
<1>6. QED
  BY <1>1, <1>5 DEF NewFrame, Frames

(* The effect of an exception: the stack is cut, guards are released. *)
LEMMA RaiseEffect ==
  ASSUME TypeOK, NEW p \in Providers, NEW stk \in Seq(Frames),
         NEW n \in Int, n <= Len(stk), Raise(p, stk, n)
  PROVE  \E k \in 0..Len(stk) :
           /\ k <= n \/ k = 0
           /\ k # 0 => stk[k].building
           /\ stack' = [stack EXCEPT ![p] = SubSeq(stk, 1, k)]
           /\ guard' = [guard EXCEPT ![p] = @ \
                {Head(stk[j].todo) : j \in {m \in (k+1)..Len(stk) : stk[m].building}}]
           /\ thrown' \in [Providers -> Nat]
           /\ phase' = IF k = 0 /\ p = Root
                       THEN IF phase = "building" THEN "failed"
                            ELSE IF phase = "prebuilding" THEN "stopped" ELSE phase
                       ELSE phase
<1>1. PICK k \in {0} \union {j \in 1..n : stk[j].building /\ Head(stk[j].todo) \in Factories} :
        /\ stack' = [stack EXCEPT ![p] = SubSeq(stk, 1, k)]
        /\ guard' = [guard EXCEPT ![p] = @ \
             {Head(stk[j].todo) : j \in {m \in (k+1)..Len(stk) : stk[m].building}}]
        /\ thrown' = [thrown EXCEPT ![p] = @ + 1]
        /\ phase' = IF k = 0 /\ p = Root
                    THEN CASE phase = "building" -> "failed"
                           [] phase = "prebuilding" -> "stopped"
                           [] OTHER -> phase
                    ELSE phase
  BY DEF Raise
<1>2. k \in 0..Len(stk) /\ (k <= n \/ k = 0) /\ (k # 0 => stk[k].building)
  BY <1>1
<1>3. thrown' \in [Providers -> Nat]
  BY <1>1 DEF TypeOK
<1>4. phase' = IF k = 0 /\ p = Root
               THEN IF phase = "building" THEN "failed"
                    ELSE IF phase = "prebuilding" THEN "stopped" ELSE phase
               ELSE phase
  BY <1>1
<1>5. QED
  BY <1>1, <1>2, <1>3, <1>4

LEMMA RaiseType ==
  ASSUME TypeOK, NEW p \in Providers, NEW stk \in Seq(Frames),
         NEW n \in Int, n <= Len(stk), Raise(p, stk, n)
  PROVE  /\ stack' \in [Providers -> Seq(Frames)]
         /\ guard' \in [Providers -> SUBSET Impls]
         /\ thrown' \in [Providers -> Nat]
         /\ phase' \in {"building", "failed", "stopped", "prebuilding", "serving"}
<1>1. PICK k \in 0..Len(stk) :
        /\ stack' = [stack EXCEPT ![p] = SubSeq(stk, 1, k)]
        /\ guard' = [guard EXCEPT ![p] = @ \
             {Head(stk[j].todo) : j \in {m \in (k+1)..Len(stk) : stk[m].building}}]
        /\ thrown' \in [Providers -> Nat]
        /\ phase' = IF k = 0 /\ p = Root
                    THEN IF phase = "building" THEN "failed"
                         ELSE IF phase = "prebuilding" THEN "stopped" ELSE phase
                    ELSE phase
  BY RaiseEffect
<1>2. SubSeq(stk, 1, k) \in Seq(Frames)
  BY Prefix
<1>3. QED
  BY <1>1, <1>2 DEF TypeOK

(* The frame on top of a provider's stack. *)
LEMMA TopFrame ==
  ASSUME TypeOK, NEW p \in Providers, stack[p] # <<>>
  PROVE  /\ stack[p] \in Seq(Frames) /\ Front(stack[p]) \in Seq(Frames)
         /\ Len(stack[p]) \in Nat \ {0}
         /\ Top(p) = stack[p][Len(stack[p])]
         /\ Top(p) \in Frames
         /\ Top(p).todo \in Seq(Impls) /\ Top(p).iface \in Interfaces
         /\ Top(p).args \subseteq Calls /\ Top(p).held \subseteq Refs
         /\ Top(p).building \in BOOLEAN
         /\ Top(p).op \in Gets \union Creates
         /\ Top(p).todo # <<>> => Head(Top(p).todo) \in Impls /\ Tail(Top(p).todo) \in Seq(Impls)
         /\ Top(p).building => Top(p).todo # <<>>
         /\ Container(p, Top(p).iface) \in Containers
<1>1. stack[p] \in Seq(Frames)
  BY DEF TypeOK
<1>2. /\ Top(p) \in Frames /\ Front(stack[p]) \in Seq(Frames)
      /\ Top(p) = stack[p][Len(stack[p])] /\ Len(stack[p]) \in Nat \ {0}
  <2>1. /\ Len(stack[p]) \in Nat /\ Len(stack[p]) >= 1
        /\ Last(stack[p]) = stack[p][Len(stack[p])] /\ Last(stack[p]) \in Frames
        /\ Front(stack[p]) \in Seq(Frames)
    BY <1>1, LastFront, Zenon
  <2>2. QED
    BY <2>1 DEF Top
<1>3. Top(p).todo \in Seq(Impls)
  BY <1>2 DEF Frames
<1>4. /\ Top(p).iface \in Interfaces /\ Top(p).op \in Gets \union Creates
      /\ Top(p).args \subseteq Calls /\ Top(p).held \subseteq Refs
      /\ Top(p).building \in BOOLEAN
      /\ Top(p).building => Top(p).todo # <<>>
  BY <1>2 DEF Frames
<1>5. Top(p).todo # <<>> => Head(Top(p).todo) \in Impls /\ Tail(Top(p).todo) \in Seq(Impls)
  BY <1>3
<1>6. Container(p, Top(p).iface) \in Containers
  BY DEF Container, Containers
<1>7. QED
  BY <1>1, <1>2, <1>3, <1>4, <1>5, <1>6

(* What a call by p can ask for. *)
LEMMA AsksCalls ==
  ASSUME TypeOK, NEW p \in Providers, NEW d \in Asks(p)
  PROVE  d \in Calls
<1>1. CASE stack[p] # <<>>
  BY <1>1, TopFrame DEF Asks
<1>2. CASE stack[p] = <<>>
  <2>1. d \in MainCalls \/ d \in UserCalls
    BY <1>2 DEF Asks, OuterCalls
  <2>2. UserCalls \subseteq Calls
    BY CallsAssumption
  <2>3. pending \subseteq Interfaces
    BY DEF TypeOK
  <2>4. [op : {"getRequiredService"}, iface : pending] \subseteq Calls
        /\ [op : {"getServices"}, iface : pending] \subseteq Calls
    BY <2>3 DEF Calls, Gets
  <2>5. MainCalls \subseteq Calls
    <3>1. CASE phase = "building"
      BY <3>1, <2>4 DEF MainCalls
    <3>2. CASE phase = "prebuilding"
      BY <3>2, <2>4 DEF MainCalls
    <3>3. CASE phase \notin {"building", "prebuilding"}
      BY <3>3, <2>2 DEF MainCalls
    <3>4. QED
      BY <3>1, <3>2, <3>3
  <2>6. QED
    BY <2>1, <2>2, <2>5
<1>3. QED
  BY <1>1, <1>2

LEMMA ListsType ==
  ASSUME TypeOK, NEW c \in Containers, NEW i \in Interfaces
  PROVE  /\ store[c][i] \in Lists
         /\ store[c][i].items \in Seq(Instances)
         /\ store[c][i].sealed \in BOOLEAN
<1>1. store[c][i] \in Lists
  BY DEF TypeOK
<1>2. QED
  BY <1>1 DEF Lists

LEMMA ListUpdate ==
  ASSUME NEW l \in Lists, NEW x \in Instances
  PROVE  [l EXCEPT !.items = Append(@, x)] \in Lists
<1>1. l.items \in Seq(Instances) /\ Append(l.items, x) \in Seq(Instances)
  BY DEF Lists
<1>2. QED
  BY <1>1 DEF Lists

-----------------------------------------------------------------------------
(* Type correctness. *)

LEMMA TypeInit == Init => TypeOK
<1> SUFFICES ASSUME Init PROVE TypeOK
  OBVIOUS
<1>1. NoList \in Lists
  BY DEF NoList, Lists
<1>2. Empty \in [Interfaces -> Lists]
  BY <1>1 DEF Empty
<1>3. pending \subseteq Interfaces
  BY CallsAssumption DEF Init
<1>4. QED
  BY <1>2, <1>3 DEF Init, TypeOK

LEMMA TypeResolve ==
  ASSUME TypeOK, NEW p \in Providers, NEW d \in Calls,
         Hit(p, d) \/ Absent(p, d) \/ Refuse(p, d) \/ Call(p, d)
  PROVE  TypeOK'
<1>1. /\ Taken(p, d) \in Seq(Frames) /\ Len(Taken(p, d)) = Len(stack[p])
  BY TakenFrames
<1>2. TakePending(p, d) => pending' \subseteq Interfaces
  BY DEF TakePending, TypeOK
<1>3. CASE Hit(p, d)
  <2>1. Found(p, d) \in Refs
    BY DEF Found, Refs, Containers, Calls
  <2>2. Deliver(Taken(p, d), {Found(p, d)}) \in Seq(Frames)
    BY <1>1, <2>1, DeliverFrames
  <2>3. QED
    BY <1>2, <1>3, <2>2 DEF Hit, TypeOK
<1>4. CASE Absent(p, d)
  BY <1>1, <1>2, <1>4 DEF Absent, TypeOK
<1>5. CASE Refuse(p, d)
  <2>1. Len(stack[p]) \in Int /\ Len(stack[p]) <= Len(Taken(p, d))
    BY <1>1 DEF TypeOK
  <2>2. Raise(p, Taken(p, d), Len(stack[p]))
    BY <1>5 DEF Refuse
  <2>3. /\ stack' \in [Providers -> Seq(Frames)]
        /\ guard' \in [Providers -> SUBSET Impls]
        /\ thrown' \in [Providers -> Nat]
        /\ phase' \in {"building", "failed", "stopped", "prebuilding", "serving"}
    BY <1>1, <2>1, <2>2, RaiseType
  <2>4. QED
    BY <1>2, <1>5, <2>3 DEF Refuse, TypeOK
<1>6. CASE Call(p, d)
  <2>1. NewFrame(p, d) \in Frames
    BY <1>6, NewFrameType DEF Call
  <2>2. Append(Taken(p, d), NewFrame(p, d)) \in Seq(Frames)
    BY <1>1, <2>1
  <2>3. QED
    BY <1>2, <1>6, <2>2 DEF Call, TypeOK
<1>7. QED
  BY <1>3, <1>4, <1>5, <1>6

LEMMA TypeConstruct ==
  ASSUME TypeOK, NEW p \in Providers,
         BeginHolder(p) \/ Circular(p) \/ FinishHolder(p) \/ FailHolder(p) \/ Return(p)
  PROVE  TypeOK'
<1>1. stack[p] # <<>>
  BY DEF BeginHolder, Circular, FinishHolder, FailHolder, Return, ReadyToBuild
<1> DEFINE f == Top(p)
           c == Container(p, f.iface)
<1>2. /\ stack[p] \in Seq(Frames) /\ Front(stack[p]) \in Seq(Frames)
      /\ Len(stack[p]) \in Nat \ {0}
      /\ f \in Frames
      /\ f.todo \in Seq(Impls) /\ f.iface \in Interfaces
      /\ f.held \subseteq Refs
      /\ f.todo # <<>> => Head(f.todo) \in Impls /\ Tail(f.todo) \in Seq(Impls)
      /\ f.building => f.todo # <<>>
      /\ c \in Containers
  BY <1>1, TopFrame
<1>3. CASE BeginHolder(p)
  <2> DEFINE T == Head(f.todo)
             g == [f EXCEPT !.building = TRUE, !.args = reg.deps[T],
                            !.held = IF f.op \in Gets THEN {} ELSE @]
  <2>1. f.todo # <<>> /\ T \in Impls
    BY <1>2, <1>3 DEF BeginHolder, ReadyToBuild
  <2>2. reg.deps[T] \in SUBSET Calls
    BY <2>1, CollectionParts
  <2>3. g \in Frames
    BY <1>2, <2>1, <2>2 DEF Frames
  <2>4. Append(Front(stack[p]), g) \in Seq(Frames)
    BY <1>2, <2>3
  <2>5. stack' = [stack EXCEPT ![p] = Append(Front(stack[p]), g)]
    BY <1>3 DEF BeginHolder, TypeOK
  <2>6. guard' = [guard EXCEPT ![p] = @ \union {T}]
    BY <1>3 DEF BeginHolder
  <2>7. QED
    BY <1>3, <2>1, <2>4, <2>5, <2>6 DEF BeginHolder, TypeOK
<1>4. CASE Circular(p) \/ FailHolder(p)
  <2>1. Raise(p, stack[p], Len(stack[p]) - 1)
        /\ UNCHANGED <<reg, pending, store, active>>
    BY <1>4 DEF Circular, FailHolder
  <2>2. Len(stack[p]) - 1 \in Int /\ Len(stack[p]) - 1 <= Len(stack[p])
    BY <1>2
  <2>3. /\ stack' \in [Providers -> Seq(Frames)]
        /\ guard' \in [Providers -> SUBSET Impls]
        /\ thrown' \in [Providers -> Nat]
        /\ phase' \in {"building", "failed", "stopped", "prebuilding", "serving"}
    BY <1>2, <2>1, <2>2, RaiseType
  <2>4. QED
    BY <2>1, <2>3 DEF TypeOK
<1>5. CASE FinishHolder(p)
  <2> DEFINE T == Head(f.todo)
             g == [f EXCEPT !.building = FALSE, !.todo = Tail(@)]
             inst == [impl |-> T, holds |-> f.held]
  <2>1. f.building /\ T \in Impls /\ Tail(f.todo) \in Seq(Impls)
    BY <1>2, <1>5 DEF FinishHolder
  <2>2. g \in Frames
    BY <1>2, <2>1 DEF Frames
  <2>3. Append(Front(stack[p]), g) \in Seq(Frames)
    BY <1>2, <2>2
  <2>4. stack' = [stack EXCEPT ![p] = Append(Front(stack[p]), g)]
    BY <1>5 DEF FinishHolder, TypeOK
  <2>5. guard' \in [Providers -> SUBSET Impls]
    BY <1>5 DEF FinishHolder, TypeOK
  <2>6. store' \in [Containers -> [Interfaces -> Lists]]
    <3>1. inst \in Instances
      BY <1>2, <2>1 DEF Instances
    <3>2. store[c][f.iface] \in Lists
      BY <1>2, ListsType
    <3>3. [store[c][f.iface] EXCEPT !.items = Append(@, inst)] \in Lists
      BY <3>1, <3>2, ListUpdate
    <3>4. store' = IF f.op \in Gets
                   THEN [store EXCEPT ![c][f.iface].items = Append(@, inst)]
                   ELSE store
      BY <1>5 DEF FinishHolder
    <3>5. QED
      BY <1>2, <3>3, <3>4 DEF TypeOK
  <2>7. QED
    BY <1>5, <2>3, <2>4, <2>5, <2>6 DEF FinishHolder, TypeOK
<1>6. CASE Return(p)
  <2> DEFINE refs == IF f.op \in Gets THEN {[container |-> c, iface |-> f.iface]} ELSE f.held
  <2>1. refs \in SUBSET Refs
    BY <1>2 DEF Refs
  <2>2. Deliver(Front(stack[p]), refs) \in Seq(Frames)
    BY <1>2, <2>1, DeliverFrames
  <2>3. stack' = [stack EXCEPT ![p] = Deliver(Front(stack[p]), refs)]
    BY <1>6 DEF Return, TypeOK
  <2>4. store' \in [Containers -> [Interfaces -> Lists]]
    <3>1. [store[c][f.iface] EXCEPT !.sealed = TRUE] \in Lists
      <4>1. store[c][f.iface] \in Lists
        BY <1>2, ListsType
      <4>2. QED
        BY <4>1 DEF Lists
    <3>2. store' = IF f.op = "getServices"
                   THEN [store EXCEPT ![c][f.iface].sealed = TRUE]
                   ELSE store
      BY <1>6 DEF Return
    <3>3. QED
      BY <1>2, <3>1, <3>2 DEF TypeOK
  <2>5. QED
    BY <1>6, <2>2, <2>3, <2>4 DEF Return, TypeOK
<1>7. QED
  BY <1>3, <1>4, <1>5, <1>6

LEMMA TypeApplication ==
  ASSUME TypeOK,
         \/ Built \/ Run \/ Serve \/ Stop
         \/ \E r \in Requests : StartRequest(r) \/ FinishRequest(r)
  PROVE  TypeOK'
<1>1. CASE Built \/ Serve \/ Stop
  BY <1>1 DEF Built, Serve, Stop, TypeOK
<1>2. CASE Run
  BY <1>2 DEF Run, SingletonTypes, TypeOK
<1>3. ASSUME NEW r \in Requests, StartRequest(r)
      PROVE  TypeOK'
  BY <1>3 DEF StartRequest, TypeOK
<1>4. ASSUME NEW r \in Requests, FinishRequest(r)
      PROVE  TypeOK'
  <2>1. Empty \in [Interfaces -> Lists]
    BY DEF Empty, NoList, Lists
  <2>2. QED
    BY <1>4, <2>1 DEF FinishRequest, TypeOK
<1>5. QED
  BY <1>1, <1>2, <1>3, <1>4

LEMMA TypeStutter == ASSUME TypeOK, UNCHANGED vars PROVE TypeOK'
  BY DEF TypeOK, vars

(* Which steps there are. *)
LEMMA Steps ==
  ASSUME TypeOK, [Next]_vars
  PROVE  \/ \E p \in Providers, d \in Calls :
              d \in Asks(p) /\ (Hit(p, d) \/ Absent(p, d) \/ Refuse(p, d) \/ Call(p, d))
         \/ \E p \in Providers :
              BeginHolder(p) \/ Circular(p) \/ FinishHolder(p) \/ FailHolder(p) \/ Return(p)
         \/ Built \/ Run \/ Serve \/ Stop
         \/ \E r \in Requests : StartRequest(r) \/ FinishRequest(r)
         \/ UNCHANGED vars
<1>1. ASSUME NEW p \in Providers, Resolve(p)
      PROVE  \E d \in Calls :
               d \in Asks(p) /\ (Hit(p, d) \/ Absent(p, d) \/ Refuse(p, d) \/ Call(p, d))
  BY <1>1 DEF Resolve, Hit, Absent, Refuse, Call
<1>2. QED
  BY <1>1, Zenon DEF Next, Construct

(* Every state of the container is well typed; in particular a frame under *)
(* construction always has a creator to run.                               *)
THEOREM TypeCorrect == Spec => []TypeOK
<1>1. Init => TypeOK
  BY TypeInit
<1>2. TypeOK /\ [Next]_vars => TypeOK'
  BY Steps, TypeResolve, TypeConstruct, TypeApplication, TypeStutter
<1>3. QED
  BY <1>1, <1>2, PTL DEF Spec

-----------------------------------------------------------------------------
(* The circular dependency guard.                                          *)
(*                                                                         *)
(* Exact(s, g) is GuardExact of one provider with stack s and guard g. The *)
(* lemmas follow it through each operation on a stack.                     *)

Building(s) == {k \in 1..Len(s) : s[k].building}

Exact(s, g) ==
  /\ g = {Head(s[k].todo) : k \in Building(s)}
  /\ \A j, k \in Building(s) : Head(s[j].todo) = Head(s[k].todo) => j = k

LEMMA ExactSame ==
  ASSUME NEW s \in Seq(Frames), NEW t \in Seq(Frames), SameBuild(t, s), NEW g, Exact(s, g)
  PROVE  Exact(t, g)
<1>1. Building(t) = Building(s)
  BY DEF SameBuild, Building
<1>2. \A k \in Building(s) : t[k].todo = s[k].todo
  BY DEF SameBuild, Building
<1>3. QED
  BY <1>1, <1>2 DEF Exact

(* A call starts: a frame that constructs nothing yet. *)
LEMMA ExactPush ==
  ASSUME NEW s \in Seq(Frames), NEW f \in Frames, ~f.building, NEW g, Exact(s, g)
  PROVE  Exact(Append(s, f), g)
<1> DEFINE t == Append(s, f)
<1>1. /\ Len(t) = Len(s) + 1 /\ Len(s) \in Nat
      /\ \A k \in 1..Len(s) : t[k] = s[k]
      /\ t[Len(s) + 1] = f
  OBVIOUS
<1>2. Building(t) = Building(s)
  BY <1>1 DEF Building
<1>3. \A k \in Building(s) : t[k] = s[k]
  BY <1>1 DEF Building
<1>4. QED
  BY <1>2, <1>3 DEF Exact

(* A call returns: its frame constructs nothing any more. *)
LEMMA ExactPop ==
  ASSUME NEW s \in Seq(Frames), s # <<>>, ~Last(s).building, NEW g, Exact(s, g)
  PROVE  Exact(Front(s), g)
<1>1. /\ Len(s) \in Nat /\ Len(s) >= 1 /\ Last(s) = s[Len(s)]
      /\ Len(Front(s)) = Len(s) - 1
      /\ \A k \in 1..(Len(s) - 1) : Front(s)[k] = s[k]
  BY LastFront
<1>2. Building(Front(s)) = Building(s)
  BY <1>1 DEF Building
<1>3. \A k \in Building(s) : Front(s)[k] = s[k]
  BY <1>1, <1>2 DEF Building
<1>4. QED
  BY <1>2, <1>3 DEF Exact

(* Replacing the top frame: all the others stay as they are. *)
LEMMA ReplaceTop ==
  ASSUME NEW s \in Seq(Frames), s # <<>>, NEW f \in Frames
  PROVE  /\ Len(Append(Front(s), f)) = Len(s)
         /\ Append(Front(s), f)[Len(s)] = f
         /\ \A k \in 1..(Len(s) - 1) : Append(Front(s), f)[k] = s[k]
<1>1. /\ Len(s) \in Nat /\ Len(s) >= 1
      /\ Front(s) \in Seq(Frames)
      /\ Len(Front(s)) = Len(s) - 1
      /\ \A k \in 1..(Len(s) - 1) : Front(s)[k] = s[k]
  BY LastFront
<1>2. QED
  BY <1>1

(* The guard is spawned: the type is not under construction yet. *)
LEMMA ExactBegin ==
  ASSUME NEW s \in Seq(Frames), s # <<>>, ~Last(s).building,
         NEW f \in Frames, f.building, NEW g, Exact(s, g), Head(f.todo) \notin g
  PROVE  Exact(Append(Front(s), f), g \union {Head(f.todo)})
<1> DEFINE t == Append(Front(s), f)
           n == Len(s)
<1>1. /\ Len(t) = n /\ t[n] = f /\ n \in Nat /\ n >= 1
      /\ \A k \in 1..(n - 1) : t[k] = s[k]
      /\ ~s[n].building
  <2>1. n \in Nat /\ n >= 1 /\ Last(s) = s[n]
    BY LastFront, Zenon
  <2>2. Len(t) = n /\ t[n] = f /\ \A k \in 1..(n - 1) : t[k] = s[k]
    BY ReplaceTop, Zenon
  <2>3. QED
    BY <2>1, <2>2, Zenon
<1> HIDE DEF t, n
<1>2. Building(t) = Building(s) \union {n} /\ n \notin Building(s)
  BY <1>1 DEF Building, n
<1>3. \A k \in Building(s) : t[k] = s[k]
  BY <1>1, <1>2 DEF Building, n
<1>4. {Head(t[k].todo) : k \in Building(t)} = g \union {Head(f.todo)}
  BY <1>1, <1>2, <1>3 DEF Exact
<1>5. \A k \in Building(s) : Head(t[k].todo) \in g
  BY <1>3 DEF Exact
<1>6. \A j, k \in Building(t) : Head(t[j].todo) = Head(t[k].todo) => j = k
  BY <1>1, <1>2, <1>3, <1>5 DEF Exact
<1>7. QED
  BY <1>4, <1>6 DEF Exact, t

(* The guard ends with the construction. *)
LEMMA ExactEnd ==
  ASSUME NEW s \in Seq(Frames), s # <<>>, Last(s).building,
         NEW f \in Frames, ~f.building, NEW g, Exact(s, g)
  PROVE  Exact(Append(Front(s), f), g \ {Head(Last(s).todo)})
<1> DEFINE t == Append(Front(s), f)
           n == Len(s)
<1>1. /\ Len(t) = n /\ t[n] = f /\ n \in Nat /\ n >= 1
      /\ \A k \in 1..(n - 1) : t[k] = s[k]
      /\ s[n].building /\ Last(s) = s[n]
  BY ReplaceTop, LastFront
<1> HIDE DEF t, n
<1>2. Building(s) = Building(t) \union {n} /\ n \notin Building(t)
  BY <1>1 DEF Building, n
<1>3. \A k \in Building(t) : t[k] = s[k]
  BY <1>1, <1>2 DEF Building, n
<1>4. \A k \in Building(t) : Head(t[k].todo) # Head(s[n].todo)
  BY <1>2, <1>3 DEF Exact
<1>5. {Head(t[k].todo) : k \in Building(t)} = g \ {Head(s[n].todo)}
  BY <1>2, <1>3, <1>4 DEF Exact
<1>6. \A j, k \in Building(t) : Head(t[j].todo) = Head(t[k].todo) => j = k
  BY <1>2, <1>3 DEF Exact
<1>7. QED
  BY <1>1, <1>5, <1>6 DEF Exact, t

(* An exception releases precisely the guards of the frames it leaves. *)
LEMMA ExactCut ==
  ASSUME NEW s \in Seq(Frames), NEW k \in 0..Len(s), NEW g, Exact(s, g)
  PROVE  Exact(SubSeq(s, 1, k),
               g \ {Head(s[j].todo) : j \in {m \in (k+1)..Len(s) : s[m].building}})
<1> DEFINE t == SubSeq(s, 1, k)
           gone == {m \in (k+1)..Len(s) : s[m].building}
<1>1. Len(t) = k /\ \A j \in 1..k : t[j] = s[j]
  BY Prefix
<1>2. Len(s) \in Nat /\ k \in Nat /\ k <= Len(s)
  OBVIOUS
<1> HIDE DEF t
<1>3. Building(s) = Building(t) \union gone /\ Building(t) \intersect gone = {}
  BY <1>1, <1>2 DEF Building
<1>4. \A j \in Building(t) : t[j] = s[j]
  BY <1>1 DEF Building
<1> HIDE DEF gone
<1>5. \A j \in Building(t), m \in gone : Head(t[j].todo) # Head(s[m].todo)
  BY <1>3, <1>4 DEF Exact
<1>6. {Head(t[j].todo) : j \in Building(t)} = g \ {Head(s[j].todo) : j \in gone}
  BY <1>3, <1>4, <1>5 DEF Exact
<1>7. \A i, j \in Building(t) : Head(t[i].todo) = Head(t[j].todo) => i = j
  BY <1>3, <1>4 DEF Exact
<1>8. QED
  BY <1>6, <1>7 DEF Exact, t, gone

AllExact == \A p \in Providers : Exact(stack[p], guard[p])

LEMMA GuardExactIff == TypeOK => (GuardExact <=> AllExact)
<1> SUFFICES ASSUME TypeOK PROVE GuardExact <=> AllExact
  OBVIOUS
<1>1. \A p \in Providers : UnderConstruction(p) = Building(stack[p])
  BY DEF TypeOK, UnderConstruction, Building
<1>2. QED
  BY <1>1 DEF GuardExact, AllExact, Exact

(* A step of p leaves the other providers alone. *)
LEMMA ExactStep ==
  ASSUME TypeOK, AllExact, NEW p \in Providers, NEW s, NEW g,
         stack' = [stack EXCEPT ![p] = s],
         guard' = [guard EXCEPT ![p] = g] \/ (guard' = guard /\ g = guard[p]),
         Exact(s, g)
  PROVE  AllExact'
<1>1. stack'[p] = s /\ guard'[p] = g
  BY DEF TypeOK
<1>2. \A q \in Providers \ {p} : stack'[q] = stack[q] /\ guard'[q] = guard[q]
  BY DEF TypeOK
<1>3. Exact(stack'[p], guard'[p])
  BY <1>1
<1>4. \A q \in Providers \ {p} : Exact(stack'[q], guard'[q])
  BY <1>2 DEF AllExact
<1>5. \A q \in Providers : Exact(stack'[q], guard'[q])
  BY <1>3, <1>4
<1>6. QED
  BY <1>5 DEF AllExact, Exact, Building

LEMMA ExactRaise ==
  ASSUME TypeOK, AllExact, NEW p \in Providers, NEW s \in Seq(Frames),
         NEW n \in Int, n <= Len(s), Raise(p, s, n), Exact(s, guard[p])
  PROVE  AllExact'
<1>1. PICK k \in 0..Len(s) :
        /\ stack' = [stack EXCEPT ![p] = SubSeq(s, 1, k)]
        /\ guard' = [guard EXCEPT ![p] = @ \
             {Head(s[j].todo) : j \in {m \in (k+1)..Len(s) : s[m].building}}]
  BY RaiseEffect
<1> DEFINE g == guard[p] \ {Head(s[j].todo) : j \in {m \in (k+1)..Len(s) : s[m].building}}
<1>2. Exact(SubSeq(s, 1, k), g)
  BY ExactCut
<1>3. guard' = [guard EXCEPT ![p] = g]
  BY <1>1 DEF TypeOK
<1> HIDE DEF g
<1>4. QED
  BY <1>1, <1>2, <1>3, ExactStep

LEMMA ExactResolve ==
  ASSUME TypeOK, AllExact, NEW p \in Providers, NEW d \in Calls,
         Hit(p, d) \/ Absent(p, d) \/ Refuse(p, d) \/ Call(p, d)
  PROVE  AllExact'
<1>1. stack[p] \in Seq(Frames) /\ Exact(stack[p], guard[p])
  BY DEF TypeOK, AllExact
<1>2. /\ Taken(p, d) \in Seq(Frames) /\ Exact(Taken(p, d), guard[p])
      /\ Len(Taken(p, d)) = Len(stack[p])
  BY <1>1, TakenFrames, ExactSame
<1>3. CASE Hit(p, d)
  <2> DEFINE refs == {Found(p, d)}
  <2>1. refs \in SUBSET Refs
    BY DEF Found, Refs, Containers, Calls
  <2>2. stack' = [stack EXCEPT ![p] = Deliver(Taken(p, d), refs)] /\ guard' = guard
    BY <1>3 DEF Hit
  <2> HIDE DEF refs
  <2>3. Exact(Deliver(Taken(p, d), refs), guard[p])
    BY <1>2, <2>1, DeliverFrames, ExactSame
  <2>4. QED
    BY <2>2, <2>3, ExactStep
<1>4. CASE Absent(p, d)
  BY <1>2, <1>4, ExactStep DEF Absent
<1>5. CASE Refuse(p, d)
  <2>1. Raise(p, Taken(p, d), Len(stack[p]))
    BY <1>5 DEF Refuse
  <2>2. Len(stack[p]) \in Int /\ Len(stack[p]) <= Len(Taken(p, d))
    BY <1>1, <1>2
  <2>3. QED
    BY <1>2, <2>1, <2>2, ExactRaise
<1>6. CASE Call(p, d)
  <2>1. NewFrame(p, d) \in Frames /\ ~NewFrame(p, d).building
    BY <1>6, NewFrameType DEF Call, NewFrame
  <2>2. Exact(Append(Taken(p, d), NewFrame(p, d)), guard[p])
    BY <1>2, <2>1, ExactPush
  <2>3. stack' = [stack EXCEPT ![p] = Append(Taken(p, d), NewFrame(p, d))] /\ guard' = guard
    BY <1>6 DEF Call
  <2>4. QED
    BY <2>2, <2>3, ExactStep
<1>7. QED
  BY <1>3, <1>4, <1>5, <1>6

LEMMA ExactConstruct ==
  ASSUME TypeOK, AllExact, NEW p \in Providers,
         BeginHolder(p) \/ Circular(p) \/ FinishHolder(p) \/ FailHolder(p) \/ Return(p)
  PROVE  AllExact'
<1>1. stack[p] # <<>>
  BY DEF BeginHolder, Circular, FinishHolder, FailHolder, Return, ReadyToBuild
<1> DEFINE s == stack[p]
           f == Top(p)
           T == Head(f.todo)
           c == Container(p, f.iface)
<1>2. /\ s \in Seq(Frames) /\ Front(s) \in Seq(Frames) /\ Len(s) \in Nat \ {0}
      /\ f \in Frames /\ Last(s) = f
      /\ f.todo \in Seq(Impls) /\ f.iface \in Interfaces /\ f.held \subseteq Refs
      /\ f.todo # <<>> => T \in Impls /\ Tail(f.todo) \in Seq(Impls)
      /\ f.building => f.todo # <<>>
      /\ c \in Containers
  BY <1>1, TopFrame DEF Top
<1>3. Exact(s, guard[p])
  BY DEF AllExact
<1>4. CASE BeginHolder(p)
  <2> DEFINE g == [f EXCEPT !.building = TRUE, !.args = reg.deps[T],
                            !.held = IF f.op \in Gets THEN {} ELSE @]
  <2>1. /\ ~f.building /\ f.todo # <<>> /\ T \in Impls /\ T \notin guard[p]
        /\ stack' = [stack EXCEPT ![p] = Append(Front(s), g)]
        /\ guard' = [guard EXCEPT ![p] = guard[p] \union {T}]
    BY <1>2, <1>4 DEF BeginHolder, ReadyToBuild, TypeOK
  <2>2. reg.deps[T] \in SUBSET Calls
    BY <2>1, CollectionParts
  <2>3. g \in Frames /\ g.building /\ g.todo = f.todo
    BY <1>2, <2>1, <2>2 DEF Frames
  <2> HIDE DEF g
  <2>4. Exact(Append(Front(s), g), guard[p] \union {Head(g.todo)})
    BY <1>1, <1>2, <1>3, <2>1, <2>3, ExactBegin
  <2>5. QED
    BY <2>1, <2>3, <2>4, ExactStep
<1>5. CASE Circular(p) \/ FailHolder(p)
  <2>1. Raise(p, s, Len(s) - 1)
    BY <1>5 DEF Circular, FailHolder
  <2>2. Len(s) - 1 \in Int /\ Len(s) - 1 <= Len(s)
    BY <1>2
  <2>3. QED
    BY <1>2, <1>3, <2>1, <2>2, ExactRaise
<1>6. CASE FinishHolder(p)
  <2> DEFINE g == [f EXCEPT !.building = FALSE, !.todo = Tail(@)]
  <2>1. /\ f.building /\ Tail(f.todo) \in Seq(Impls)
        /\ stack' = [stack EXCEPT ![p] = Append(Front(s), g)]
        /\ guard' = [guard EXCEPT ![p] = guard[p] \ {T}]
    BY <1>2, <1>6 DEF FinishHolder, TypeOK
  <2>2. g \in Frames /\ ~g.building
    BY <1>2, <2>1 DEF Frames
  <2> HIDE DEF g
  <2>3. Exact(Append(Front(s), g), guard[p] \ {T})
    BY <1>1, <1>2, <1>3, <2>1, <2>2, ExactEnd
  <2>4. QED
    BY <2>1, <2>3, ExactStep
<1>7. CASE Return(p)
  <2> DEFINE refs == IF f.op \in Gets THEN {[container |-> c, iface |-> f.iface]} ELSE f.held
  <2>1. refs \in SUBSET Refs
    BY <1>2 DEF Refs
  <2>2. /\ ~f.building /\ guard' = guard
        /\ stack' = [stack EXCEPT ![p] = Deliver(Front(s), refs)]
    BY <1>7 DEF Return, TypeOK
  <2> HIDE DEF refs
  <2>3. Exact(Front(s), guard[p])
    BY <1>1, <1>2, <1>3, <2>2, ExactPop
  <2>4. Exact(Deliver(Front(s), refs), guard[p])
    BY <1>2, <2>1, <2>3, DeliverFrames, ExactSame
  <2>5. QED
    BY <2>2, <2>4, ExactStep
<1>8. QED
  BY <1>4, <1>5, <1>6, <1>7

LEMMA ExactUnchanged ==
  ASSUME AllExact, UNCHANGED <<stack, guard>>
  PROVE  AllExact'
  BY DEF AllExact, Exact, Building

(* The guard of every provider holds exactly the implementations under     *)
(* construction, none of them twice, whatever is thrown and caught.        *)
THEOREM GuardIsExact == Spec => []GuardExact
<1>1. Init => AllExact
  <2> SUFFICES ASSUME Init, NEW p \in Providers PROVE Exact(stack[p], guard[p])
    BY DEF AllExact
  <2>1. stack[p] = <<>> /\ guard[p] = {}
    BY DEF Init
  <2>2. QED
    BY <2>1 DEF Exact, Building
<1>2. TypeOK /\ AllExact /\ [Next]_vars => AllExact'
  <2> SUFFICES ASSUME TypeOK, AllExact, [Next]_vars PROVE AllExact'
    OBVIOUS
  <2>1. CASE \/ Built \/ Run \/ Serve \/ Stop
             \/ \E r \in Requests : StartRequest(r) \/ FinishRequest(r)
             \/ UNCHANGED vars
    <3>1. UNCHANGED <<stack, guard>>
      BY <2>1 DEF Built, Run, Serve, Stop, StartRequest, FinishRequest, vars
    <3>2. QED
      BY <3>1, ExactUnchanged
  <2>2. QED
    BY <2>1, Steps, ExactResolve, ExactConstruct
<1>3. TypeOK /\ AllExact => GuardExact
  BY GuardExactIff
<1>4. QED
  BY <1>1, <1>2, <1>3, TypeCorrect, PTL DEF Spec

-----------------------------------------------------------------------------
(* The shared singletons.                                                  *)
(*                                                                         *)
(* What a frame of p can be, given the containers st: its interface is     *)
(* registered in the scope its operation is for, a call that has run all   *)
(* its creators has made a list, and a request never makes singletons.     *)

FrameOK(st, p, f) ==
  /\ Known(f.iface)
  /\ f.op \in Creates <=> Scope(f.iface) = "transient"
  /\ f.op \in Gets /\ f.todo = <<>> => st[Container(p, f.iface)][f.iface].items # <<>>
  /\ f.op \in Gets /\ p \in Requests => Scope(f.iface) = "scoped"

StackOK(st, p, s) == \A k \in 1..Len(s) : FrameOK(st, p, s[k])

FramesOK == \A p \in Providers : StackOK(store, p, stack[p])

(* Lists that p can see stay. *)
Grows(st, st2, p) ==
  \A i \in Interfaces, c \in {Singletons, p} : st[c][i].items # <<>> => st2[c][i].items # <<>>

LEMMA FrameGrows ==
  ASSUME NEW st, NEW st2, NEW p, NEW f \in Frames, Grows(st, st2, p), FrameOK(st, p, f)
  PROVE  FrameOK(st2, p, f)
<1>1. f.iface \in Interfaces /\ Container(p, f.iface) \in {Singletons, p}
  BY DEF Frames, Container
<1>2. st[Container(p, f.iface)][f.iface].items # <<>>
        => st2[Container(p, f.iface)][f.iface].items # <<>>
  BY <1>1 DEF Grows
<1>3. QED
  BY <1>2 DEF FrameOK

LEMMA StackGrows ==
  ASSUME NEW st, NEW st2, NEW p, NEW s \in Seq(Frames), Grows(st, st2, p), StackOK(st, p, s)
  PROVE  StackOK(st2, p, s)
<1>1. ASSUME NEW k \in 1..Len(s) PROVE FrameOK(st2, p, s[k])
  <2>1. s[k] \in Frames /\ FrameOK(st, p, s[k])
    BY DEF StackOK
  <2>2. QED
    BY <2>1, FrameGrows
<1>2. QED
  BY <1>1 DEF StackOK

LEMMA StackSame ==
  ASSUME NEW st, NEW p, NEW s \in Seq(Frames), NEW t \in Seq(Frames),
         SameBuild(t, s), StackOK(st, p, s)
  PROVE  StackOK(st, p, t)
  BY DEF SameBuild, StackOK, FrameOK

LEMMA StackPush ==
  ASSUME NEW st, NEW p, NEW s \in Seq(Frames), NEW f \in Frames,
         StackOK(st, p, s), FrameOK(st, p, f)
  PROVE  StackOK(st, p, Append(s, f))
<1>1. /\ Len(Append(s, f)) = Len(s) + 1 /\ Len(s) \in Nat
      /\ \A k \in 1..Len(s) : Append(s, f)[k] = s[k]
      /\ Append(s, f)[Len(s) + 1] = f
  OBVIOUS
<1>2. \A k \in 1..(Len(s) + 1) : k \in 1..Len(s) \/ k = Len(s) + 1
  BY <1>1
<1>3. QED
  BY <1>1, <1>2 DEF StackOK

LEMMA StackCut ==
  ASSUME NEW st, NEW p, NEW s \in Seq(Frames), NEW k \in 0..Len(s), StackOK(st, p, s)
  PROVE  StackOK(st, p, SubSeq(s, 1, k))
<1>1. /\ Len(SubSeq(s, 1, k)) = k
      /\ \A j \in 1..k : SubSeq(s, 1, k)[j] = s[j]
  BY Prefix
<1>2. \A j \in 1..k : j \in 1..Len(s)
  OBVIOUS
<1>3. QED
  BY <1>1, <1>2 DEF StackOK

LEMMA StackFront ==
  ASSUME NEW st, NEW p, NEW s \in Seq(Frames), s # <<>>, StackOK(st, p, s)
  PROVE  StackOK(st, p, Front(s)) /\ FrameOK(st, p, Last(s))
<1>1. /\ Len(s) \in Nat /\ Len(s) >= 1 /\ Last(s) = s[Len(s)]
      /\ Len(Front(s)) = Len(s) - 1
      /\ \A k \in 1..(Len(s) - 1) : Front(s)[k] = s[k]
  BY LastFront
<1>2. \A k \in 1..(Len(s) - 1) : k \in 1..Len(s)
  BY <1>1
<1>3. QED
  BY <1>1, <1>2 DEF StackOK

(* A step of p, when the others still see their lists. *)
LEMMA FramesStep ==
  ASSUME TypeOK, FramesOK, reg' = reg, NEW p \in Providers, NEW s,
         stack' = [stack EXCEPT ![p] = s],
         StackOK(store', p, s),
         \A q \in Providers \ {p} : Grows(store, store', q)
  PROVE  FramesOK'
<1>1. StackOK(store', p, stack'[p])
  BY DEF TypeOK
<1>2. ASSUME NEW q \in Providers \ {p} PROVE StackOK(store', q, stack'[q])
  <2>1. stack'[q] = stack[q] /\ stack[q] \in Seq(Frames) /\ StackOK(store, q, stack[q])
    BY DEF TypeOK, FramesOK
  <2>2. QED
    BY <2>1, StackGrows
<1>3. \A q \in Providers : StackOK(store', q, stack'[q])
  BY <1>1, <1>2
<1>4. QED
  BY <1>3 DEF FramesOK, StackOK, FrameOK, Known, Creators, Scope, Container

(* Services are where their scope says, and registered. *)
Placed ==
  \A c \in Containers, i \in Interfaces :
    store[c][i].items # <<>> =>
      /\ Known(i)
      /\ Scope(i) = (IF c = Singletons THEN "singleton" ELSE "scoped")

(* Requests run only while the server does, the main thread does not then. *)
Idle ==
  /\ \A r \in Requests : r \notin active => stack[r] = <<>>
  /\ active # {} => phase = "serving"
  /\ phase = "serving" => stack[Root] = <<>>

Complete(i) == store[Singletons][i].items # <<>> /\ store[Singletons][i].sealed

(* Prebuilding leaves no singleton out: its turn is to come, it is the one *)
(* being made, or it is complete.                                          *)
InTheMaking(i) ==
  stack[Root] # <<>> /\ stack[Root][1].iface = i /\ stack[Root][1].op = "getServices"

Loop ==
  /\ phase = "prebuilding" =>
       \A i \in SingletonTypes : i \in pending \/ InTheMaking(i) \/ Complete(i)
  /\ phase = "serving" => \A i \in SingletonTypes : Complete(i)

FInv == FramesOK /\ Placed /\ Idle /\ Loop

LEMMA FInvInit == Init => FInv
<1> SUFFICES ASSUME Init PROVE FInv
  OBVIOUS
<1>1. FramesOK
  BY DEF Init, FramesOK, StackOK
<1>2. Placed
  BY DEF Init, Placed, Empty, NoList
<1>3. Idle /\ Loop
  BY DEF Init, Idle, Loop, Providers
<1>4. QED
  BY <1>1, <1>2, <1>3 DEF FInv

(* Only an active request or, while no server runs, the main thread makes  *)
(* calls.                                                                  *)
LEMMA WhoAsks ==
  ASSUME TypeOK, Idle, NEW p \in Providers, NEW d \in Calls,
         d \in Asks(p) \/ stack[p] # <<>>
  PROVE  \/ p = Root /\ phase # "serving"
         \/ p \in Requests /\ p \in active /\ phase = "serving" /\ p # Root
<1>1. CASE p = Root
  <2>1. phase = "serving" => stack[p] = <<>>
    BY <1>1 DEF Idle
  <2>2. phase = "serving" => MainCalls = {}
    BY DEF MainCalls
  <2>3. QED
    BY <1>1, <2>1, <2>2 DEF Asks, OuterCalls
<1>2. CASE p # Root
  <2>1. p \in Requests
    BY <1>2 DEF Providers
  <2>2. p \in active
    BY <1>2, <2>1 DEF Asks, OuterCalls, Idle
  <2>3. QED
    BY <1>2, <2>1, <2>2 DEF Idle
<1>3. QED
  BY <1>1, <1>2

(* While a call is in progress, steps keep who is active and the phase but *)
(* for what an exception at the root does.                                 *)
LEMMA IdleStep ==
  ASSUME TypeOK, Idle, NEW p \in Providers, NEW s,
         p \in Requests => p \in active,
         p = Root => phase # "serving",
         stack' = [stack EXCEPT ![p] = s],
         active' = active,
         phase' = phase \/ (p = Root /\ phase' \in {"failed", "stopped"})
  PROVE  Idle'
<1>1. \A r \in Requests : r \notin active' => stack'[r] = <<>>
  BY DEF Idle, TypeOK, Providers
<1>2. active' # {} => phase' = "serving"
  BY DEF Idle
<1>3. phase' = "serving" => stack'[Root] = <<>>
  BY DEF Idle, TypeOK, Providers
<1>4. QED
  BY <1>1, <1>2, <1>3 DEF Idle

(* The main thread's loops when a step neither unseals singletons nor lets *)
(* one out of sight.                                                       *)
LEMMA LoopStep ==
  ASSUME TypeOK, Loop, reg' = reg,
         \A i \in SingletonTypes : Complete(i) => Complete(i)',
         phase' = phase \/ phase' \in {"failed", "stopped"},
         phase' = "prebuilding" =>
           \A i \in SingletonTypes : i \in pending => i \in pending' \/ InTheMaking(i)' \/ Complete(i)',
         phase' = "prebuilding" =>
           \A i \in SingletonTypes : InTheMaking(i) => InTheMaking(i)' \/ Complete(i)'
  PROVE  Loop'
<1>1. SingletonTypes' = SingletonTypes
  BY DEF SingletonTypes, Known, Creators, Scope
<1>2. phase' = "prebuilding" => phase = "prebuilding"
  BY DEF TypeOK
<1>3. phase' = "serving" => phase = "serving"
  BY DEF TypeOK
<1>4. QED
  BY <1>1, <1>2, <1>3 DEF Loop

LEMMA PlacedStep ==
  ASSUME Placed, reg' = reg,
         \A c \in Containers, i \in Interfaces :
           store'[c][i].items # <<>> => store[c][i].items # <<>>
  PROVE  Placed'
  BY DEF Placed, Known, Creators, Scope

(* The bottom frame stays what it is. *)
LEMMA BottomStays ==
  ASSUME TypeOK, NEW s \in Seq(Frames), s # <<>>,
         s[1].iface = stack[Root][1].iface, s[1].op = stack[Root][1].op,
         stack' = [stack EXCEPT ![Root] = s], NEW i, InTheMaking(i)
  PROVE  InTheMaking(i)'
<1>1. stack'[Root] = s
  BY DEF TypeOK, Providers
<1>2. QED
  BY <1>1 DEF InTheMaking

LEMMA SameBottom ==
  ASSUME NEW s \in Seq(Frames), s # <<>>, NEW t \in Seq(Frames), SameBuild(t, s)
  PROVE  t # <<>> /\ t[1].iface = s[1].iface /\ t[1].op = s[1].op
<1>1. Len(s) \in Nat /\ Len(s) >= 1 /\ Len(t) = Len(s)
  BY DEF SameBuild
<1>2. 1 \in 1..Len(t)
  BY <1>1
<1>3. QED
  BY <1>1, <1>2 DEF SameBuild

(* A new call's frame is a good one: requests find every singleton made.   *)
LEMMA NewFrameOK ==
  ASSUME TypeOK, FInv, NEW p \in Providers, NEW d \in Calls, Call(p, d)
  PROVE  FrameOK(store, p, NewFrame(p, d))
<1> DEFINE f == NewFrame(p, d)
           i == d.iface
<1>1. /\ d \in Asks(p) /\ ~Cached(p, d) /\ Known(i) /\ Allowed(d)
      /\ i \in Interfaces /\ d.op \in Gets \union Creates
      /\ f.iface = i /\ f.op = d.op /\ f.todo = CreatorsFor(p, d)
  BY DEF Call, Calls, NewFrame
<1>2. Scope(i) \in Scopes /\ NewestFirst(i) \in Seq(Impls) /\ NewestFirst(i) # <<>>
  BY <1>1, CollectionParts
<1>3. d.op \in Creates <=> Scope(i) = "transient"
  BY <1>1 DEF Allowed
<1>4. d.op \in Gets /\ CreatorsFor(p, d) = <<>> => store[Container(p, i)][i].items # <<>>
  BY <1>2 DEF CreatorsFor, Gets
<1>5. ASSUME d.op \in Gets, p \in Requests
      PROVE  Scope(i) = "scoped"
  <2>1. phase = "serving"
    BY <1>1, <1>5, WhoAsks, ContainersDistinct DEF FInv
  <2>2. d.op \notin Creates
    BY <1>5 DEF Gets, Creates
  <2>3. CASE Scope(i) = "singleton"
    <3>1. Complete(i)
      BY <1>1, <2>1, <2>3 DEF FInv, Loop, SingletonTypes
    <3>2. Listed(Singletons, d)
      BY <3>1 DEF Complete, Listed
    <3>3. QED
      BY <1>1, <1>5, <3>2 DEF Cached
  <2>4. QED
    BY <1>2, <1>3, <2>2, <2>3 DEF Scopes
<1>6. QED
  BY <1>1, <1>3, <1>4, <1>5 DEF FrameOK

LEMMA FInvHitAbsentCall ==
  ASSUME TypeOK, FInv, NEW p \in Providers, NEW d \in Calls, d \in Asks(p),
         Hit(p, d) \/ Absent(p, d) \/ Call(p, d)
  PROVE  FInv'
<1>1. /\ reg' = reg /\ phase' = phase /\ store' = store /\ active' = active
      /\ TakePending(p, d)
  BY DEF Hit, Absent, Call
<1>2. /\ stack[p] \in Seq(Frames) /\ StackOK(store, p, stack[p])
      /\ Taken(p, d) \in Seq(Frames) /\ SameBuild(Taken(p, d), stack[p])
      /\ StackOK(store, p, Taken(p, d))
  BY TakenFrames, StackSame DEF TypeOK, FInv, FramesOK
<1>3. /\ p = Root => phase # "serving"
      /\ p \in Requests => p \in active
  BY WhoAsks, ContainersDistinct DEF FInv
<1>4. PICK s \in Seq(Frames) :
        /\ stack' = [stack EXCEPT ![p] = s]
        /\ StackOK(store, p, s)
        /\ stack[p] # <<>> => s # <<>> /\ s[1].iface = stack[p][1].iface /\ s[1].op = stack[p][1].op
        /\ Call(p, d) /\ stack[p] = <<>> => s = <<NewFrame(p, d)>>
  <2>1. CASE Hit(p, d)
    <3> DEFINE refs == {Found(p, d)}
               s == Deliver(Taken(p, d), refs)
    <3>1. refs \in SUBSET Refs
      BY DEF Found, Refs, Containers, Calls
    <3> HIDE DEF refs
    <3>2. s \in Seq(Frames) /\ SameBuild(s, Taken(p, d)) /\ SameBuild(s, stack[p])
      BY <1>2, <3>1, DeliverFrames DEF SameBuild
    <3>3. StackOK(store, p, s)
      BY <1>2, <3>2, StackSame
    <3>4. stack[p] # <<>> => s # <<>> /\ s[1].iface = stack[p][1].iface /\ s[1].op = stack[p][1].op
      BY <1>2, <3>2, SameBottom
    <3>5. stack' = [stack EXCEPT ![p] = s] /\ ~Call(p, d)
      BY <2>1 DEF Hit, Call, refs
    <3> HIDE DEF s
    <3>6. QED
      BY <3>2, <3>3, <3>4, <3>5
  <2>2. CASE Absent(p, d)
    <3>1. stack[p] # <<>> => /\ Taken(p, d) # <<>>
                             /\ Taken(p, d)[1].iface = stack[p][1].iface
                             /\ Taken(p, d)[1].op = stack[p][1].op
      BY <1>2, SameBottom
    <3>2. stack' = [stack EXCEPT ![p] = Taken(p, d)] /\ ~Call(p, d)
      BY <2>2 DEF Absent, Call
    <3>3. QED
      BY <1>2, <3>1, <3>2
  <2>3. CASE Call(p, d)
    <3> DEFINE t == Taken(p, d)
               f == NewFrame(p, d)
    <3>1. f \in Frames /\ FrameOK(store, p, f)
      BY <2>3, NewFrameType, NewFrameOK DEF Call
    <3>2. Append(t, f) \in Seq(Frames) /\ StackOK(store, p, Append(t, f))
      BY <1>2, <3>1, StackPush
    <3>3. stack' = [stack EXCEPT ![p] = Append(t, f)]
      BY <2>3 DEF Call
    <3>4. stack[p] = <<>> => t = <<>>
      BY DEF Taken
    <3>5. stack[p] # <<>> => /\ t # <<>> /\ t[1].iface = stack[p][1].iface
                             /\ t[1].op = stack[p][1].op
      BY <1>2, SameBottom
    <3> HIDE DEF t, f
    <3>6. t \in Seq(Frames)
      BY <1>2 DEF t
    <3>7. t # <<>> => Append(t, f)[1] = t[1] /\ Append(t, f) # <<>>
      BY <3>1, <3>6
    <3>8. t = <<>> => Append(t, f) = <<f>>
      BY <3>1, <3>6
    <3>9. QED
      BY <3>2, <3>3, <3>4, <3>5, <3>7, <3>8 DEF f
  <2>4. QED
    BY <2>1, <2>2, <2>3
<1>5. FramesOK'
  <2>1. \A q \in Providers \ {p} : Grows(store, store', q)
    BY <1>1 DEF Grows
  <2>2. QED
    BY <1>1, <1>4, <2>1, FramesStep DEF FInv
<1>6. Placed'
  BY <1>1, PlacedStep DEF FInv
<1>7. Idle'
  BY <1>1, <1>3, <1>4, IdleStep DEF FInv
<1>8. Loop'
  <2>1. \A i \in SingletonTypes : Complete(i) => Complete(i)'
    BY <1>1 DEF Complete
  <2>2. ASSUME phase' = "prebuilding", NEW i \in SingletonTypes, i \in pending
        PROVE  i \in pending' \/ InTheMaking(i)' \/ Complete(i)'
    <3>1. CASE ~(p = Root /\ stack[p] = <<>> /\ i = d.iface)
      BY <1>1, <2>2, <3>1 DEF TakePending
    <3>2. CASE p = Root /\ stack[p] = <<>> /\ i = d.iface
      <4>1. d.op = "getServices" /\ Known(i) /\ i # SelfType /\ Scope(i) = "singleton" /\ i \in Interfaces
        <5>1. d \in MainCalls /\ phase = "prebuilding"
          BY <1>1, <2>2, <3>2 DEF Asks, OuterCalls
        <5>2. d.op = "getServices"
          BY <5>1 DEF MainCalls
        <5>3. QED
          BY <2>2, <5>2, CollectionParts DEF SingletonTypes, Known
      <4>2. CASE Hit(p, d)
        <5>1. Listed(Singletons, d) \/ Listed(Root, d)
          BY <3>2, <4>1, <4>2 DEF Hit, Cached
        <5>2. Listed(Root, d) => Scope(i) = "scoped"
          BY <3>2, <4>1, ContainersDistinct DEF Listed, FInv, Placed, Containers, Providers
        <5>3. Complete(i)
          BY <3>2, <4>1, <5>1, <5>2 DEF Listed, Complete
        <5>4. QED
          BY <2>1, <2>2, <5>3
      <4>3. CASE Absent(p, d)
        BY <3>2, <4>1, <4>3 DEF Absent
      <4>4. CASE Call(p, d)
        <5>1. stack'[Root] = <<NewFrame(p, d)>>
          BY <1>4, <3>2, <4>4 DEF TypeOK, Providers
        <5>2. InTheMaking(i)'
          BY <3>2, <4>1, <5>1 DEF InTheMaking, NewFrame
        <5>3. QED
          BY <5>2
      <4>5. QED
        BY <4>2, <4>3, <4>4
    <3>3. QED
      BY <3>1, <3>2
  <2>3. ASSUME phase' = "prebuilding", NEW i \in SingletonTypes, InTheMaking(i)
        PROVE  InTheMaking(i)' \/ Complete(i)'
    <3>1. CASE p = Root
      <4>1. stack[p] # <<>>
        BY <2>3, <3>1 DEF InTheMaking
      <4>2. QED
        BY <1>4, <2>3, <3>1, <4>1, BottomStays
    <3>2. CASE p # Root
      <4>1. stack'[Root] = stack[Root]
        BY <1>4, <3>2 DEF TypeOK, Providers
      <4>2. QED
        BY <2>3, <4>1 DEF InTheMaking
    <3>3. QED
      BY <3>1, <3>2
  <2>4. QED
    BY <1>1, <2>1, <2>2, <2>3, LoopStep DEF FInv
<1>9. QED
  BY <1>5, <1>6, <1>7, <1>8 DEF FInv

(* An exception, in a call that s has already been told of. *)
LEMMA FInvRaise ==
  ASSUME TypeOK, FInv, NEW p \in Providers, NEW s \in Seq(Frames),
         p \in Requests => p \in active,
         p = Root => phase # "serving",
         StackOK(store, p, s), SameBuild(s, stack[p]), s = <<>> <=> stack[p] = <<>>,
         NEW n \in Int, n <= Len(s), Raise(p, s, n),
         reg' = reg, store' = store, active' = active,
         pending' = pending \/ (p = Root /\ stack[p] = <<>>)
  PROVE  FInv'
<1>1. PICK k \in 0..Len(s) :
        /\ stack' = [stack EXCEPT ![p] = SubSeq(s, 1, k)]
        /\ phase' = IF k = 0 /\ p = Root
                    THEN IF phase = "building" THEN "failed"
                         ELSE IF phase = "prebuilding" THEN "stopped" ELSE phase
                    ELSE phase
  BY RaiseEffect
<1> DEFINE t == SubSeq(s, 1, k)
<1>2. /\ t \in Seq(Frames) /\ StackOK(store, p, t)
      /\ Len(t) = k /\ \A j \in 1..k : t[j] = s[j]
  BY <1>1, Prefix, StackCut
<1> HIDE DEF t
<1>3. FramesOK'
  <2>1. \A q \in Providers \ {p} : Grows(store, store', q)
    BY DEF Grows
  <2>2. QED
    BY <1>1, <1>2, <2>1, FramesStep DEF FInv, t
<1>4. Placed'
  BY PlacedStep DEF FInv
<1>5. phase' = phase \/ (p = Root /\ phase' \in {"failed", "stopped"})
  BY <1>1
<1>6. Idle'
  BY <1>1, <1>5, IdleStep DEF FInv, t
<1>7. Loop'
  <2>1. \A i \in SingletonTypes : Complete(i) => Complete(i)'
    BY DEF Complete
  <2>2. phase' = "prebuilding" /\ p = Root => k # 0 /\ s # <<>> /\ stack[p] # <<>>
    <3>1. phase' = "prebuilding" /\ p = Root => k # 0
      BY <1>1
    <3>2. s = <<>> => k = 0
      BY <1>1
    <3>3. QED
      BY <3>1, <3>2
  <2>3. ASSUME phase' = "prebuilding", NEW i \in SingletonTypes, InTheMaking(i)
        PROVE  InTheMaking(i)'
    <3>1. CASE p = Root
      <4>1. t # <<>> /\ t[1] = s[1] /\ s # <<>> /\ stack[p] # <<>>
        BY <1>1, <1>2, <2>2, <2>3, <3>1
      <4>2. s[1].iface = stack[Root][1].iface /\ s[1].op = stack[Root][1].op
        BY <3>1, <4>1, SameBottom DEF TypeOK
      <4>3. stack' = [stack EXCEPT ![Root] = t]
        BY <1>1, <3>1 DEF t
      <4>4. QED
        BY <1>2, <2>3, <4>1, <4>2, <4>3, BottomStays
    <3>2. CASE p # Root
      <4>1. stack'[Root] = stack[Root]
        BY <1>1, <3>2 DEF TypeOK, Providers
      <4>2. QED
        BY <2>3, <4>1 DEF InTheMaking
    <3>3. QED
      BY <3>1, <3>2
  <2>4. phase' = phase \/ phase' \in {"failed", "stopped"}
    BY <1>5
  <2>5. phase' = "prebuilding" => pending' = pending
    BY <2>2
  <2>6. QED
    BY <2>1, <2>3, <2>4, <2>5, LoopStep DEF FInv
<1>8. QED
  BY <1>3, <1>4, <1>6, <1>7 DEF FInv

LEMMA FInvRefuse ==
  ASSUME TypeOK, FInv, NEW p \in Providers, NEW d \in Calls, d \in Asks(p), Refuse(p, d)
  PROVE  FInv'
<1>1. /\ stack[p] \in Seq(Frames) /\ StackOK(store, p, stack[p])
      /\ Taken(p, d) \in Seq(Frames) /\ SameBuild(Taken(p, d), stack[p])
      /\ Len(Taken(p, d)) = Len(stack[p])
      /\ StackOK(store, p, Taken(p, d))
  BY TakenFrames, StackSame DEF TypeOK, FInv, FramesOK
<1>2. /\ p = Root => phase # "serving"
      /\ p \in Requests => p \in active
  BY WhoAsks, ContainersDistinct DEF FInv
<1>3. Taken(p, d) = <<>> <=> stack[p] = <<>>
  BY <1>1
<1>4. Len(stack[p]) \in Int /\ Len(stack[p]) <= Len(Taken(p, d))
  BY <1>1
<1>5. /\ Raise(p, Taken(p, d), Len(stack[p]))
      /\ reg' = reg /\ store' = store /\ active' = active
      /\ pending' = pending \/ (p = Root /\ stack[p] = <<>>)
  BY DEF Refuse, TakePending
<1>6. QED
  BY <1>1, <1>2, <1>3, <1>4, <1>5, FInvRaise

LEMMA SameBuildSelf == ASSUME NEW s \in Seq(Frames) PROVE SameBuild(s, s)
  BY DEF SameBuild

LEMMA FInvThrow ==
  ASSUME TypeOK, FInv, NEW p \in Providers, Circular(p) \/ FailHolder(p)
  PROVE  FInv'
<1>1. stack[p] # <<>>
  BY DEF Circular, FailHolder, ReadyToBuild
<1>2. /\ stack[p] \in Seq(Frames) /\ StackOK(store, p, stack[p])
      /\ SameBuild(stack[p], stack[p])
  BY SameBuildSelf DEF TypeOK, FInv, FramesOK
<1>3. /\ p = Root => phase # "serving"
      /\ p \in Requests => p \in active
  BY <1>1 DEF FInv, Idle
<1>4. Len(stack[p]) - 1 \in Int /\ Len(stack[p]) - 1 <= Len(stack[p])
  BY <1>2
<1>5. /\ Raise(p, stack[p], Len(stack[p]) - 1)
      /\ reg' = reg /\ store' = store /\ active' = active /\ pending' = pending
  BY DEF Circular, FailHolder
<1>6. QED
  BY <1>2, <1>3, <1>4, <1>5, FInvRaise

(* The call in progress goes on: its frame becomes g, lists may grow.      *)
LEMMA FInvReplace ==
  ASSUME TypeOK, FInv, NEW p \in Providers, stack[p] # <<>>,
         NEW g \in Frames, g.op = Top(p).op, g.iface = Top(p).iface,
         stack' = [stack EXCEPT ![p] = Append(Front(stack[p]), g)],
         UNCHANGED <<reg, phase, pending, active>>,
         FrameOK(store', p, g),
         \A q \in Providers : Grows(store, store', q),
         Placed',
         \A i \in SingletonTypes : Complete(i) => Complete(i)'
  PROVE  FInv'
<1> DEFINE s == stack[p]
           t == Append(Front(s), g)
<1>1. /\ s \in Seq(Frames) /\ s # <<>> /\ Top(p) = s[Len(s)]
      /\ Front(s) \in Seq(Frames) /\ Len(s) \in Nat \ {0}
  BY TopFrame
<1>2. /\ t \in Seq(Frames) /\ Len(t) = Len(s) /\ t[Len(s)] = g
      /\ \A k \in 1..(Len(s) - 1) : t[k] = s[k]
  <2>1. t \in Seq(Frames)
    BY <1>1
  <2>2. Len(t) = Len(s) /\ t[Len(s)] = g /\ \A k \in 1..(Len(s) - 1) : t[k] = s[k]
    BY <1>1, ReplaceTop, Zenon
  <2>3. QED
    BY <2>1, <2>2
<1>3. /\ p = Root => phase # "serving"
      /\ p \in Requests => p \in active
  BY DEF FInv, Idle
<1>4. t # <<>> /\ t[1].iface = s[1].iface /\ t[1].op = s[1].op
  <2>1. t # <<>>
    BY <1>1, <1>2
  <2>2. \A n \in Nat \ {0} : 1 \in 1..(n - 1) \/ n = 1
    OBVIOUS
  <2>3. 1 \in 1..(Len(s) - 1) \/ Len(s) = 1
    BY <1>1, <2>2
  <2> HIDE DEF t
  <2>4. QED
    BY <1>1, <1>2, <2>1, <2>3
<1>5. StackOK(store', p, t)
  <2>1. StackOK(store, p, s) /\ Grows(store, store', p)
    BY DEF FInv, FramesOK
  <2>2. StackOK(store', p, s)
    BY <1>1, <2>1, StackGrows
  <2>3. StackOK(store', p, Front(s))
    BY <1>1, <2>2, StackFront
  <2>4. QED
    BY <1>1, <2>3, StackPush
<1> HIDE DEF t
<1>6. FramesOK'
  BY <1>5, FramesStep DEF FInv, t
<1>7. Idle'
  BY <1>3, IdleStep DEF FInv
<1>8. Loop'
  <2>1. ASSUME NEW i \in SingletonTypes, InTheMaking(i)
        PROVE  InTheMaking(i)'
    <3>1. CASE p = Root
      BY <1>2, <1>4, <2>1, <3>1, BottomStays DEF t
    <3>2. CASE p # Root
      <4>1. stack'[Root] = stack[Root]
        BY <3>2 DEF TypeOK, Providers
      <4>2. QED
        BY <2>1, <4>1 DEF InTheMaking
    <3>3. QED
      BY <3>1, <3>2
  <2>2. QED
    BY <2>1, LoopStep DEF FInv
<1>9. QED
  BY <1>6, <1>7, <1>8 DEF FInv

LEMMA FInvBegin ==
  ASSUME TypeOK, FInv, NEW p \in Providers, BeginHolder(p)
  PROVE  FInv'
<1> DEFINE f == Top(p)
           T == Head(f.todo)
           g == [f EXCEPT !.building = TRUE, !.args = reg.deps[T],
                          !.held = IF f.op \in Gets THEN {} ELSE @]
<1>1. stack[p] # <<>> /\ f.todo # <<>>
  BY DEF BeginHolder, ReadyToBuild
<1>2. /\ f \in Frames /\ f.held \subseteq Refs /\ T \in Impls
      /\ stack[p] \in Seq(Frames) /\ f = Last(stack[p])
  BY <1>1, TopFrame DEF Top
<1>3. reg.deps[T] \in SUBSET Calls
  BY <1>2, CollectionParts
<1>4. g \in Frames /\ g.op = f.op /\ g.iface = f.iface /\ g.todo = f.todo
  BY <1>1, <1>2, <1>3 DEF Frames
<1>5. /\ stack' = [stack EXCEPT ![p] = Append(Front(stack[p]), g)]
      /\ UNCHANGED <<reg, phase, pending, store, active>>
  BY DEF BeginHolder, TypeOK
<1> HIDE DEF g
<1>6. FrameOK(store', p, g)
  <2>1. FrameOK(store, p, f)
    BY <1>1, <1>2, StackFront DEF FInv, FramesOK
  <2>2. QED
    BY <1>4, <1>5, <2>1 DEF FrameOK
<1>7. /\ \A q \in Providers : Grows(store, store', q)
      /\ \A i \in SingletonTypes : Complete(i) => Complete(i)'
      /\ Placed'
  BY <1>5, PlacedStep DEF Grows, Complete, FInv
<1>8. QED
  BY <1>1, <1>4, <1>5, <1>6, <1>7, FInvReplace

(* Appending to a list keeps what is there. *)
LEMMA AppendGrows ==
  ASSUME TypeOK, NEW c \in Containers, NEW i \in Interfaces, NEW x \in Instances,
         store' = [store EXCEPT ![c][i].items = Append(@, x)]
  PROVE  /\ store'[c][i].items # <<>>
         /\ \A e \in Containers, j \in Interfaces :
              /\ store[e][j].items # <<>> => store'[e][j].items # <<>>
              /\ ~(e = c /\ j = i) => store'[e][j] = store[e][j]
              /\ store'[e][j].sealed = store[e][j].sealed
<1>1. store'[c][i] = [store[c][i] EXCEPT !.items = Append(@, x)]
  BY DEF TypeOK
<1>2. store[c][i] \in Lists /\ store[c][i].items \in Seq(Instances)
  BY ListsType
<1>3. store'[c][i].items = Append(store[c][i].items, x)
      /\ store'[c][i].sealed = store[c][i].sealed
  BY <1>1, <1>2 DEF Lists
<1>4. store'[c][i].items # <<>>
  <2>1. Len(store'[c][i].items) = Len(store[c][i].items) + 1
    BY <1>2, <1>3
  <2>2. Len(store[c][i].items) \in Nat
    BY <1>2
  <2>3. Len(store'[c][i].items) # 0
    BY <2>1, <2>2
  <2>4. QED
    BY <2>3
<1>5. \A e \in Containers, j \in Interfaces : ~(e = c /\ j = i) => store'[e][j] = store[e][j]
  BY DEF TypeOK
<1>6. QED
  BY <1>3, <1>4, <1>5

LEMMA FInvFinish ==
  ASSUME TypeOK, FInv, NEW p \in Providers, FinishHolder(p)
  PROVE  FInv'
<1> DEFINE f == Top(p)
           i == f.iface
           c == Container(p, i)
           x == [impl |-> Head(f.todo), holds |-> f.held]
           g == [f EXCEPT !.building = FALSE, !.todo = Tail(@)]
<1>1. stack[p] # <<>> /\ f.building
  BY DEF FinishHolder
<1>2. /\ f \in Frames /\ f.held \subseteq Refs /\ i \in Interfaces /\ c \in Containers
      /\ Head(f.todo) \in Impls /\ Tail(f.todo) \in Seq(Impls)
      /\ stack[p] \in Seq(Frames) /\ f = Last(stack[p])
      /\ f.op \in Gets \union Creates
  BY <1>1, TopFrame DEF Top
<1>3. x \in Instances
  BY <1>2 DEF Instances
<1>4. g \in Frames /\ g.op = f.op /\ g.iface = i
  BY <1>1, <1>2 DEF Frames
<1>5. /\ stack' = [stack EXCEPT ![p] = Append(Front(stack[p]), g)]
      /\ UNCHANGED <<reg, phase, pending, active>>
      /\ store' = IF f.op \in Gets THEN [store EXCEPT ![c][i].items = Append(@, x)] ELSE store
  BY DEF FinishHolder, TypeOK
<1>6. FrameOK(store, p, f)
  BY <1>1, <1>2, StackFront DEF FInv, FramesOK
<1> HIDE DEF g, x
<1>7. /\ \A e \in Containers, j \in Interfaces :
           /\ store[e][j].items # <<>> => store'[e][j].items # <<>>
           /\ ~(f.op \in Gets /\ e = c /\ j = i) => store'[e][j] = store[e][j]
           /\ store'[e][j].sealed = store[e][j].sealed
      /\ f.op \in Gets => store'[c][i].items # <<>>
  <2>1. CASE f.op \in Gets
    <3>1. store' = [store EXCEPT ![c][i].items = Append(@, x)]
      BY <1>5, <2>1
    <3>2. c \in Containers /\ i \in Interfaces
      BY <1>2
    <3> HIDE DEF c, i
    <3>3. /\ store'[c][i].items # <<>>
          /\ \A e \in Containers, j \in Interfaces :
               /\ store[e][j].items # <<>> => store'[e][j].items # <<>>
               /\ ~(e = c /\ j = i) => store'[e][j] = store[e][j]
               /\ store'[e][j].sealed = store[e][j].sealed
      BY <1>3, <3>1, <3>2, AppendGrows, Zenon
    <3>4. QED
      BY <2>1, <3>3
  <2>2. CASE f.op \notin Gets
    BY <1>5, <2>2
  <2>3. QED
    BY <2>1, <2>2
<1>8. FrameOK(store', p, g)
  BY <1>4, <1>5, <1>6, <1>7 DEF FrameOK, Container, Scope, Known, Creators
<1>9. Placed'
  <2>1. f.op \in Gets => Known(i) /\ Scope(i) = (IF c = Singletons THEN "singleton" ELSE "scoped")
    <3>1. Known(i) /\ Scope(i) \in Scopes
      BY <1>2, <1>6, CollectionParts DEF FrameOK
    <3>2. f.op \in Gets => Scope(i) # "transient"
      BY <1>6 DEF FrameOK, Gets, Creates
    <3>3. QED
      BY <3>1, <3>2, ContainersDistinct DEF Scopes, Container
  <2>2. \A e \in Containers, j \in Interfaces :
          store'[e][j].items # <<>> =>
            /\ Known(j)
            /\ Scope(j) = (IF e = Singletons THEN "singleton" ELSE "scoped")
    BY <1>7, <2>1 DEF FInv, Placed
  <2>3. QED
    BY <1>5, <2>2 DEF Placed, Known, Creators, Scope
<1>10. \A q \in Providers : Grows(store, store', q)
  BY <1>7 DEF Grows, Containers
<1>11. \A j \in SingletonTypes : Complete(j) => Complete(j)'
  BY <1>7 DEF Complete, SingletonTypes, Containers
<1>12. QED
  BY <1>1, <1>4, <1>5, <1>8, <1>9, <1>10, <1>11, FInvReplace

(* Sealing a list keeps what is in it. *)
LEMMA SealKeeps ==
  ASSUME TypeOK, NEW c \in Containers, NEW i \in Interfaces,
         store' = [store EXCEPT ![c][i].sealed = TRUE]
  PROVE  /\ store'[c][i].sealed
         /\ \A e \in Containers, j \in Interfaces :
              /\ store'[e][j].items = store[e][j].items
              /\ store[e][j].sealed => store'[e][j].sealed
<1>1. store'[c][i] = [store[c][i] EXCEPT !.sealed = TRUE]
  BY DEF TypeOK
<1>2. store[c][i] \in Lists
  BY ListsType
<1>3. store'[c][i].items = store[c][i].items /\ store'[c][i].sealed
  BY <1>1, <1>2 DEF Lists
<1>4. \A e \in Containers, j \in Interfaces : ~(e = c /\ j = i) => store'[e][j] = store[e][j]
  BY DEF TypeOK
<1>5. QED
  BY <1>3, <1>4

LEMMA FInvReturn ==
  ASSUME TypeOK, FInv, NEW p \in Providers, Return(p)
  PROVE  FInv'
<1> DEFINE s == stack[p]
           f == Top(p)
           i == f.iface
           c == Container(p, i)
           refs == IF f.op \in Gets THEN {[container |-> c, iface |-> i]} ELSE f.held
           t == Deliver(Front(s), refs)
<1>1. s # <<>> /\ f.todo = <<>>
  BY DEF Return
<1>2. /\ f \in Frames /\ f.held \subseteq Refs /\ i \in Interfaces /\ c \in Containers
      /\ s \in Seq(Frames) /\ f = Last(s) /\ f = s[Len(s)]
      /\ Front(s) \in Seq(Frames) /\ Len(s) \in Nat \ {0}
  BY <1>1, TopFrame DEF Top
<1>3. refs \in SUBSET Refs
  BY <1>2 DEF Refs
<1>4. StackOK(store, p, Front(s)) /\ FrameOK(store, p, f)
  BY <1>1, <1>2, StackFront DEF FInv, FramesOK
<1>5. /\ stack' = [stack EXCEPT ![p] = t]
      /\ UNCHANGED <<reg, phase, pending, active>>
      /\ store' = IF f.op = "getServices" THEN [store EXCEPT ![c][i].sealed = TRUE] ELSE store
  BY DEF Return, TypeOK
<1> HIDE DEF refs
<1>6. t \in Seq(Frames) /\ SameBuild(t, Front(s)) /\ StackOK(store, p, t)
  BY <1>2, <1>3, <1>4, DeliverFrames, StackSame
<1> HIDE DEF t
<1>7. /\ \A e \in Containers, j \in Interfaces :
           /\ store'[e][j].items = store[e][j].items
           /\ store[e][j].sealed => store'[e][j].sealed
      /\ f.op = "getServices" => store'[c][i].sealed
  BY <1>2, <1>5, SealKeeps
<1>8. \A q \in Providers : Grows(store, store', q)
  BY <1>7 DEF Grows, Containers
<1>9. FramesOK'
  <2>1. StackOK(store', p, t)
    BY <1>6, <1>8, StackGrows
  <2>2. QED
    BY <1>5, <1>8, <2>1, FramesStep DEF FInv
<1>10. Placed'
  BY <1>5, <1>7, PlacedStep DEF FInv
<1>11. Idle'
  <2>1. /\ p = Root => phase # "serving"
        /\ p \in Requests => p \in active
    BY <1>1 DEF FInv, Idle
  <2>2. QED
    BY <1>5, <2>1, IdleStep DEF FInv
<1>12. Loop'
  <2>1. \A j \in SingletonTypes : Complete(j) => Complete(j)'
    BY <1>7 DEF Complete, SingletonTypes, Containers
  <2>2. ASSUME NEW j \in SingletonTypes, InTheMaking(j)
        PROVE  InTheMaking(j)' \/ Complete(j)'
    <3>1. CASE p # Root
      <4>1. stack'[Root] = stack[Root]
        BY <1>5, <3>1 DEF TypeOK, Providers
      <4>2. QED
        BY <2>2, <4>1 DEF InTheMaking
    <3>2. CASE p = Root /\ Len(s) = 1
      <4>1. f.op = "getServices" /\ i = j
        BY <1>2, <2>2, <3>2 DEF InTheMaking
      <4>2. c = Singletons
        BY <2>2, <4>1 DEF Container, SingletonTypes
      <4>3. store[c][i].items # <<>>
        BY <1>1, <1>4, <4>1 DEF FrameOK, Gets
      <4>4. QED
        BY <1>2, <1>7, <4>1, <4>2, <4>3 DEF Complete
    <3>3. CASE p = Root /\ Len(s) # 1
      <4>1. /\ Front(s) # <<>> /\ Len(Front(s)) = Len(s) - 1
            /\ \A k \in 1..(Len(s) - 1) : Front(s)[k] = s[k]
        <5>1. /\ Len(Front(s)) = Len(s) - 1
              /\ \A k \in 1..(Len(s) - 1) : Front(s)[k] = s[k]
          BY <1>1, <1>2, LastFront
        <5>2. Len(Front(s)) # 0
          BY <1>2, <3>3, <5>1
        <5>3. Front(s) # <<>>
          BY <5>2
        <5>4. QED
          BY <5>1, <5>3, Zenon
      <4>2. \A n \in Nat \ {0} : n # 1 => 1 \in 1..(n - 1)
        OBVIOUS
      <4>3. Front(s)[1] = s[1]
        BY <1>2, <3>3, <4>1, <4>2
      <4>4. t # <<>> /\ t[1].iface = s[1].iface /\ t[1].op = s[1].op
        BY <1>2, <1>6, <4>1, <4>3, SameBottom
      <4>5. QED
        BY <1>5, <1>6, <2>2, <3>3, <4>4, BottomStays
    <3>4. QED
      BY <3>1, <3>2, <3>3
  <2>3. QED
    BY <1>5, <2>1, <2>2, LoopStep DEF FInv
<1>13. QED
  BY <1>9, <1>10, <1>11, <1>12 DEF FInv

(* What the application does around the providers. *)
LEMMA FInvApplication ==
  ASSUME TypeOK, FInv,
         \/ Built \/ Run \/ Serve \/ Stop
         \/ \E r \in Requests : StartRequest(r) \/ FinishRequest(r)
         \/ UNCHANGED vars
  PROVE  FInv'
<1>1. /\ reg' = reg /\ stack' = stack
      /\ SingletonTypes' = SingletonTypes
  BY DEF Built, Run, Serve, Stop, StartRequest, FinishRequest, vars,
         SingletonTypes, Known, Creators, Scope
<1>2. FramesOK' /\ Placed' /\ (\A i \in SingletonTypes : Complete(i) => Complete(i)')
  <2>1. CASE store' = store
    <3>1. FramesOK'
      BY <1>1, <2>1 DEF FInv, FramesOK, StackOK, FrameOK, Known, Creators, Scope, Container
    <3>2. Placed'
      BY <1>1, <2>1, PlacedStep DEF FInv
    <3>3. QED
      BY <2>1, <3>1, <3>2 DEF Complete
  <2>2. ASSUME NEW r \in Requests, FinishRequest(r)
        PROVE  FramesOK' /\ Placed' /\ (\A i \in SingletonTypes : Complete(i) => Complete(i)')
    <3>1. /\ stack[r] = <<>>
          /\ store' = [store EXCEPT ![r] = Empty]
          /\ r \in Providers /\ r # Singletons
      BY <2>2, ContainersDistinct DEF FinishRequest, Providers
    <3>2. \A c \in Containers \ {r} : store'[c] = store[c]
      BY <3>1 DEF TypeOK
    <3>3. \A i \in Interfaces : store'[r][i].items = <<>>
      BY <3>1 DEF TypeOK, Containers, Empty, NoList
    <3>4. \A c \in Containers, i \in Interfaces :
            store'[c][i].items # <<>> => store[c][i].items # <<>>
      BY <3>2, <3>3
    <3>5. Placed'
      BY <1>1, <3>4, PlacedStep DEF FInv
    <3>6. \A q \in Providers \ {r} : Grows(store, store', q)
      BY <3>1, <3>2 DEF Grows, Containers
    <3>7. FramesOK'
      <4>1. StackOK(store', r, <<>>)
        BY DEF StackOK
      <4>2. stack' = [stack EXCEPT ![r] = <<>>]
        BY <1>1, <3>1 DEF TypeOK
      <4>3. QED
        BY <1>1, <3>1, <3>6, <4>1, <4>2, FramesStep DEF FInv
    <3>8. \A i \in SingletonTypes : Complete(i) => Complete(i)'
      BY <3>1, <3>2 DEF Complete, Containers
    <3>9. QED
      BY <3>5, <3>7, <3>8
  <2>3. QED
    BY <2>1, <2>2 DEF Built, Run, Serve, Stop, StartRequest, vars
<1>3. Idle'
  <2>1. CASE Built \/ Run \/ Serve \/ Stop
    BY <2>1 DEF Built, Run, Serve, Stop, FInv, Idle
  <2>2. ASSUME NEW r \in Requests, StartRequest(r) \/ FinishRequest(r)
        PROVE  Idle'
    BY <2>2 DEF StartRequest, FinishRequest, FInv, Idle
  <2>3. CASE UNCHANGED vars
    BY <2>3 DEF vars, FInv, Idle
  <2>4. QED
    BY <2>1, <2>2, <2>3
<1>4. Loop'
  <2>1. CASE Built \/ Stop
    BY <2>1 DEF Built, Stop, Loop
  <2>2. CASE Run
    BY <1>1, <2>2 DEF Run, Loop
  <2>3. CASE Serve
    <3>1. \A i \in SingletonTypes : Complete(i)
      BY <2>3 DEF Serve, FInv, Loop, InTheMaking
    <3>2. QED
      BY <1>1, <1>2, <2>3, <3>1 DEF Serve, Loop
  <2>4. CASE phase' = phase /\ pending' = pending
    <3>1. \A i : InTheMaking(i) => InTheMaking(i)'
      BY <1>1 DEF InTheMaking
    <3>2. QED
      BY <1>1, <1>2, <2>4, <3>1, LoopStep DEF FInv
  <2>5. QED
    BY <2>1, <2>2, <2>3, <2>4 DEF StartRequest, FinishRequest, vars
<1>5. QED
  BY <1>2, <1>3, <1>4 DEF FInv

LEMMA FInvNext == ASSUME TypeOK, FInv, [Next]_vars PROVE FInv'
  BY Steps, FInvHitAbsentCall, FInvRefuse, FInvBegin, FInvThrow, FInvFinish,
     FInvReturn, FInvApplication

(* The steps that write the container of singletons are those of calls for *)
(* singletons, which no request makes.                                     *)
LEMMA FrozenStep ==
  ASSUME TypeOK, FInv, [Next]_vars, phase = "serving"
  PROVE  store'[Singletons] = store[Singletons]
<1>1. Singletons \in Containers
  BY DEF Containers
<1>2. CASE UNCHANGED store
  BY <1>2
<1>3. ASSUME NEW p \in Providers, FinishHolder(p) \/ Return(p)
      PROVE  store'[Singletons] = store[Singletons]
  <2> DEFINE f == Top(p)
             c == Container(p, f.iface)
  <2>1. stack[p] # <<>>
    BY <1>3 DEF FinishHolder, Return
  <2>2. p \in Requests
    BY <2>1 DEF FInv, Idle, Providers
  <2>3. FrameOK(store, p, f)
    <3>1. f = Last(stack[p]) /\ stack[p] \in Seq(Frames)
      BY <2>1, TopFrame DEF Top
    <3>2. QED
      BY <2>1, <3>1, StackFront DEF FInv, FramesOK
  <2>4. f.op \in Gets => c # Singletons
    BY <2>2, <2>3, ContainersDistinct DEF FrameOK, Container, Providers
  <2>5. f.op = "getServices" => f.op \in Gets
    BY DEF Gets
  <2>6. QED
    BY <1>1, <1>3, <2>4, <2>5 DEF FinishHolder, Return, TypeOK
<1>4. ASSUME NEW r \in Requests, FinishRequest(r)
      PROVE  store'[Singletons] = store[Singletons]
  BY <1>1, <1>4, ContainersDistinct DEF FinishRequest, Providers, TypeOK
<1>5. QED
  BY <1>2, <1>3, <1>4, Steps DEF Hit, Absent, Refuse, Call, BeginHolder, Circular,
     FailHolder, Built, Run, Serve, Stop, StartRequest, vars

(* Nothing writes the container of singletons while the server runs, so    *)
(* the requests' threads may share it without a lock: run() has made and   *)
(* sealed the list of every registered singleton before.                   *)
THEOREM FrozenSingletons == Spec => SingletonsFrozen
<1>1. Init => FInv
  BY FInvInit
<1>2. TypeOK /\ FInv /\ [Next]_vars => FInv'
  BY FInvNext
<1>3. TypeOK /\ FInv /\ [Next]_vars
        => [phase = "serving" => store'[Singletons] = store[Singletons]]_vars
  BY FrozenStep
<1>4. QED
  BY <1>1, <1>2, <1>3, TypeCorrect, PTL DEF Spec, SingletonsFrozen

(* A service is only ever stored where its scope says: singletons in the   *)
(* container all providers share, scoped services in their provider's own. *)
THEOREM PlacedByScope == Spec => []ScopePlacement
<1>1. Init => FInv
  BY FInvInit
<1>2. TypeOK /\ FInv /\ [Next]_vars => FInv'
  BY FInvNext
<1>3. FInv => ScopePlacement
  BY DEF FInv, Placed, ScopePlacement
<1>4. QED
  BY <1>1, <1>2, <1>3, TypeCorrect, PTL DEF Spec

=============================================================================
