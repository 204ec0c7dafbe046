----------------------- MODULE ServiceLifetimesProofs -----------------------
(***************************************************************************)
(* Proofs that ServiceProvider keeps what ServiceLifetimes promises, that  *)
(* no service holds a dangling pointer, that none is made twice, that the  *)
(* recursion is bounded and when requests share no scoped service, for     *)
(* every set of requests, every service collection and every bound.        *)
(***************************************************************************)
EXTENDS ServiceProviderProofs, FiniteSetTheorems

-----------------------------------------------------------------------------
(* The elements of a sequence. *)

Elems(s) == {s[k] : k \in 1..Len(s)}

LEMMA ElemsTail ==
  ASSUME NEW S, NEW s \in Seq(S), s # <<>>
  PROVE  /\ Head(s) = s[1] /\ Head(s) \in S /\ Tail(s) \in Seq(S)
         /\ Elems(s) = {Head(s)} \union Elems(Tail(s))
<1>1. /\ Len(s) \in Nat /\ Len(s) >= 1 /\ Head(s) = s[1] /\ Head(s) \in S
      /\ Tail(s) \in Seq(S) /\ Len(Tail(s)) = Len(s) - 1
      /\ \A k \in 1..Len(Tail(s)) : Tail(s)[k] = s[k + 1]
  OBVIOUS
<1>2. ASSUME NEW k \in 1..Len(s)
      PROVE  s[k] \in {Head(s)} \union Elems(Tail(s))
  <2>1. CASE k = 1
    BY <1>1, <2>1
  <2>2. CASE k # 1
    <3>1. k - 1 \in 1..Len(Tail(s)) /\ (k - 1) + 1 = k
      BY <1>1, <2>2
    <3>2. Tail(s)[k - 1] = s[k]
      BY <1>1, <3>1
    <3>3. QED
      BY <3>1, <3>2 DEF Elems
  <2>3. QED
    BY <2>1, <2>2
<1>3. ASSUME NEW k \in 1..Len(Tail(s))
      PROVE  Tail(s)[k] \in Elems(s)
  <2>1. k + 1 \in 1..Len(s) /\ Tail(s)[k] = s[k + 1]
    BY <1>1
  <2>2. QED
    BY <2>1 DEF Elems
<1>4. Head(s) \in Elems(s)
  <2>1. 1 \in 1..Len(s)
    BY <1>1
  <2>2. QED
    BY <1>1, <2>1 DEF Elems
<1>5. Elems(s) \subseteq {Head(s)} \union Elems(Tail(s))
  BY <1>2 DEF Elems
<1>6. Elems(Tail(s)) \subseteq Elems(s)
  BY <1>3 DEF Elems
<1>7. QED
  BY <1>1, <1>4, <1>5, <1>6

LEMMA ElemsReverse ==
  ASSUME NEW S, NEW s \in Seq(S), s # <<>>
  PROVE  /\ Elems(Reverse(s)) = Elems(s)
         /\ Head(Reverse(s)) = Last(s)
         /\ IsInjective(s) => Last(s) \notin Elems(Tail(Reverse(s)))
<1> DEFINE t == Reverse(s)
<1>1. /\ Len(s) \in Nat /\ Len(s) >= 1
      /\ t \in Seq(S) /\ Len(t) = Len(s) /\ t # <<>>
      /\ Last(s) = s[Len(s)]
  BY ReverseSeq, LastFront
<1>2. \A k \in 1..Len(s) : t[k] = s[Len(s) - k + 1]
  BY <1>1 DEF Reverse
<1>3. \A k \in 1..Len(s) : Len(s) - k + 1 \in 1..Len(s) /\ Len(s) - (Len(s) - k + 1) + 1 = k
  BY <1>1
<1>4. \A k \in 1..Len(s) : t[Len(s) - k + 1] = s[k]
  BY <1>2, <1>3
<1>5. Elems(t) = Elems(s)
  BY <1>1, <1>2, <1>3, <1>4 DEF Elems
<1>6. Head(t) = t[1] /\ 1 \in 1..Len(s) /\ Len(s) - 1 + 1 = Len(s)
  BY <1>1
<1>7. Head(t) = Last(s)
  BY <1>1, <1>2, <1>6
<1>8. ASSUME IsInjective(s), Last(s) \in Elems(Tail(t))
      PROVE  FALSE
  <2>1. PICK k \in 1..Len(Tail(t)) : Tail(t)[k] = Last(s)
    BY <1>8 DEF Elems
  <2>2. Len(Tail(t)) = Len(s) - 1 /\ Tail(t)[k] = t[k + 1]
    BY <1>1, <2>1
  <2>3. k + 1 \in 1..Len(s) /\ Len(s) - (k + 1) + 1 \in 1..Len(s)
        /\ Len(s) - (k + 1) + 1 # Len(s) /\ Len(s) \in 1..Len(s)
    BY <1>1, <2>1, <2>2
  <2>4. t[k + 1] = s[Len(s) - (k + 1) + 1]
    BY <1>2, <2>3
  <2>5. DOMAIN s = 1..Len(s)
    OBVIOUS
  <2>6. QED
    BY <1>1, <1>8, <2>1, <2>2, <2>3, <2>4, <2>5 DEF IsInjective
<1>9. QED
  BY <1>5, <1>7, <1>8

(* The implementations whose services a list has. *)
Made(l) == {l.items[k].impl : k \in 1..Len(l.items)}

LEMMA MadeAppend ==
  ASSUME NEW l \in Lists, NEW x \in Instances, NEW m \in Lists, m.items = Append(l.items, x)
  PROVE  /\ Made(m) = Made(l) \union {x.impl}
         /\ m.items # <<>>
         /\ m.items[1] = IF l.items = <<>> THEN x ELSE l.items[1]
<1>1. l.items \in Seq(Instances) /\ Len(l.items) \in Nat
  BY DEF Lists
<1> DEFINE n == Len(l.items)
<1>2. /\ Len(m.items) = n + 1 /\ m.items[n + 1] = x
      /\ \A k \in 1..n : m.items[k] = l.items[k]
  BY <1>1
<1>3. \A k \in 1..(n + 1) : k \in 1..n \/ k = n + 1
  BY <1>1
<1>4. 1..n \subseteq 1..(n + 1) /\ n + 1 \in 1..(n + 1)
  BY <1>1
<1>5. Made(m) \subseteq Made(l) \union {x.impl}
  BY <1>2, <1>3 DEF Made
<1>6. Made(l) \subseteq Made(m) /\ x.impl \in Made(m)
  BY <1>2, <1>4 DEF Made
<1>7. m.items # <<>>
  BY <1>1, <1>2
<1>8. l.items = <<>> => n = 0
  OBVIOUS
<1>9. l.items # <<>> => 1 \in 1..n
  BY <1>1
<1>10. QED
  BY <1>2, <1>5, <1>6, <1>7, <1>8, <1>9

-----------------------------------------------------------------------------
(* The lists.                                                              *)
(*                                                                         *)
(* What a call of p for services it keeps knows about their list: it is    *)
(* not sealed, the main service is its first creator exactly as long as    *)
(* the list is empty, and getServices has what is not in the list still    *)
(* to do.                                                                  *)

ListOf(st, p, i) == st[Container(p, i)][i]

GetOK(st, p, f) ==
  f.op \in Gets =>
    LET l == ListOf(st, p, f.iface)
    IN  /\ ~l.sealed
        /\ Elems(f.todo) \subseteq Elems(Creators(f.iface))
        /\ f.todo # <<>> => MainOf(f.iface) \notin Elems(Tail(f.todo))
        /\ l.items = <<>> => f.todo # <<>> /\ Head(f.todo) = MainOf(f.iface)
        /\ l.items # <<>> /\ f.todo # <<>> => Head(f.todo) # MainOf(f.iface)
        /\ f.op = "getServices" => Elems(Creators(f.iface)) \subseteq Elems(f.todo) \union Made(l)

(* A call for the list of an interface, made under a constructor that runs *)
(* for the same list, has that constructor among those it is to run: the   *)
(* guard ends it before it could seal the list.                            *)
Nested(s) ==
  \A m, k \in 1..Len(s) :
    m < k /\ s[m].op \in Gets /\ s[k].op \in Gets /\ s[m].iface = s[k].iface
      => Head(s[m].todo) \in Elems(s[k].todo)

Below(s) == \A m \in 1..(Len(s) - 1) : s[m].building

GetsOK(st, p, s) == \A k \in 1..Len(s) : GetOK(st, p, s[k])

WorkOK(st, p, s) == GetsOK(st, p, s) /\ Nested(s) /\ Below(s)

ListOK(l, i) ==
  /\ l.items # <<>> => l.items[1].impl = MainOf(i)
  /\ l.sealed => l.items # <<>> /\ Elems(Creators(i)) \subseteq Made(l)

WorksOK == \A p \in Providers : WorkOK(store, p, stack[p])
ListsOK == \A c \in Containers, i \in Interfaces : ListOK(store[c][i], i)

LInv == WorksOK /\ ListsOK

(* Stacks that differ in arguments and pointers only. *)
SameWork(s, t) ==
  /\ Len(s) = Len(t)
  /\ \A k \in 1..Len(s) : s[k].todo = t[k].todo /\ s[k].op = t[k].op /\ s[k].iface = t[k].iface

LEMMA WorkSame ==
  ASSUME NEW st, NEW p, NEW s, NEW t, SameWork(t, s), WorkOK(st, p, s), Below(t)
  PROVE  WorkOK(st, p, t)
<1>1. GetsOK(st, p, t)
  <2> SUFFICES ASSUME NEW k \in 1..Len(t) PROVE GetOK(st, p, t[k])
    BY DEF GetsOK
  <2>1. k \in 1..Len(s) /\ t[k].todo = s[k].todo /\ t[k].op = s[k].op /\ t[k].iface = s[k].iface
    BY DEF SameWork
  <2>2. GetOK(st, p, s[k])
    BY <2>1 DEF WorkOK, GetsOK
  <2>3. QED
    BY <2>1, <2>2 DEF GetOK
<1>2. Nested(t)
  BY DEF SameWork, WorkOK, Nested
<1>3. QED
  BY <1>1, <1>2 DEF WorkOK

LEMMA WorkBuildSame ==
  ASSUME NEW st, NEW p, NEW s \in Seq(Frames), NEW t \in Seq(Frames),
         SameBuild(t, s), WorkOK(st, p, s)
  PROVE  WorkOK(st, p, t)
<1>1. SameWork(t, s)
  BY DEF SameBuild, SameWork
<1>2. Below(t)
  <2> SUFFICES ASSUME NEW m \in 1..(Len(t) - 1) PROVE t[m].building
    BY DEF Below
  <2>1. m \in 1..Len(s) /\ m \in 1..(Len(s) - 1) /\ Len(t) = Len(s)
    BY DEF SameBuild
  <2>2. QED
    BY <2>1 DEF SameBuild, WorkOK, Below
<1>3. QED
  BY <1>1, <1>2, WorkSame

LEMMA WorkCut ==
  ASSUME NEW st, NEW p, NEW s \in Seq(Frames), NEW k \in 0..Len(s), WorkOK(st, p, s)
  PROVE  WorkOK(st, p, SubSeq(s, 1, k))
<1> DEFINE t == SubSeq(s, 1, k)
<1>1. Len(t) = k /\ \A j \in 1..k : t[j] = s[j] /\ j \in 1..Len(s)
  BY Prefix
<1>2. \A j \in 1..(k - 1) : j \in 1..(Len(s) - 1) /\ j \in 1..k
  OBVIOUS
<1> HIDE DEF t
<1>3. GetsOK(st, p, t)
  BY <1>1 DEF WorkOK, GetsOK
<1>4. Nested(t)
  BY <1>1 DEF WorkOK, Nested
<1>5. Below(t)
  BY <1>1, <1>2 DEF WorkOK, Below
<1>6. QED
  BY <1>3, <1>4, <1>5 DEF WorkOK, t

LEMMA WorkFront ==
  ASSUME NEW st, NEW p, NEW s \in Seq(Frames), s # <<>>, WorkOK(st, p, s)
  PROVE  WorkOK(st, p, Front(s)) /\ GetOK(st, p, Last(s))
<1>1. /\ Len(s) \in Nat /\ Len(s) >= 1 /\ Last(s) = s[Len(s)]
  BY LastFront
<1>2. Len(s) - 1 \in 0..Len(s) /\ Len(s) \in 1..Len(s)
  BY <1>1
<1>3. WorkOK(st, p, SubSeq(s, 1, Len(s) - 1))
  BY <1>2, WorkCut
<1>4. GetOK(st, p, s[Len(s)])
  BY <1>2 DEF WorkOK, GetsOK
<1>5. QED
  BY <1>1, <1>3, <1>4 DEF Front

(* The lists p can see are the same. *)
SameLists(st, st2, p) ==
  \A i \in Interfaces : ListOf(st2, p, i) = ListOf(st, p, i)

LEMMA WorkLists ==
  ASSUME NEW st, NEW st2, NEW p, NEW s \in Seq(Frames), SameLists(st, st2, p), WorkOK(st, p, s)
  PROVE  WorkOK(st2, p, s)
<1>1. ASSUME NEW k \in 1..Len(s)
      PROVE  GetOK(st2, p, s[k])
  <2>1. s[k].iface \in Interfaces
    <3>1. s[k] \in Frames
      OBVIOUS
    <3>2. QED
      BY <3>1 DEF Frames
  <2>2. GetOK(st, p, s[k])
    BY DEF WorkOK, GetsOK
  <2>3. QED
    BY <2>1, <2>2 DEF SameLists, GetOK
<1>2. QED
  BY <1>1 DEF WorkOK, GetsOK

(* Only the list of interface i changes, and no call of p is for it. *)
LEMMA WorkElsewhere ==
  ASSUME NEW st, NEW st2, NEW p, NEW s \in Seq(Frames), NEW i,
         \A j \in Interfaces \ {i} : ListOf(st2, p, j) = ListOf(st, p, j),
         \A k \in 1..Len(s) : s[k].op \in Gets => s[k].iface # i,
         WorkOK(st, p, s)
  PROVE  WorkOK(st2, p, s)
<1>1. ASSUME NEW k \in 1..Len(s), s[k].op \in Gets
      PROVE  GetOK(st2, p, s[k])
  <2>1. s[k].iface \in Interfaces \ {i}
    <3>1. s[k] \in Frames
      OBVIOUS
    <3>2. QED
      BY <1>1, <3>1 DEF Frames
  <2>2. GetOK(st, p, s[k])
    BY DEF WorkOK, GetsOK
  <2>3. QED
    BY <2>1, <2>2 DEF GetOK
<1>2. QED
  BY <1>1 DEF WorkOK, GetsOK, GetOK

(* A step of p: the other providers see the same lists or do nothing. *)
LEMMA WorksStep ==
  ASSUME TypeOK, WorksOK, reg' = reg, NEW p \in Providers, NEW s,
         stack' = [stack EXCEPT ![p] = s],
         WorkOK(store', p, s),
         \A q \in Providers \ {p} : SameLists(store, store', q) \/ stack[q] = <<>>
  PROVE  WorksOK'
<1>1. stack'[p] = s /\ \A q \in Providers \ {p} : stack'[q] = stack[q]
  BY DEF TypeOK
<1>2. ASSUME NEW q \in Providers \ {p}
      PROVE  WorkOK(store', q, stack'[q])
  <2>1. stack[q] \in Seq(Frames) /\ WorkOK(store, q, stack[q])
    BY DEF TypeOK, WorksOK
  <2>2. CASE SameLists(store, store', q)
    BY <1>1, <2>1, <2>2, WorkLists
  <2>3. CASE stack[q] = <<>>
    BY <1>1, <2>3 DEF WorkOK, GetsOK, Nested, Below
  <2>4. QED
    BY <2>2, <2>3
<1>3. \A q \in Providers : WorkOK(store', q, stack'[q])
  BY <1>1, <1>2
<1>4. ASSUME NEW q \in Providers
      PROVE  WorkOK(store, q, stack[q])'
  <2>1. \A i : Creators(i)' = Creators(i) /\ MainOf(i)' = MainOf(i)
                /\ ListOf(store, q, i)' = ListOf(store', q, i)
    BY DEF Creators, MainOf, ListOf, Container, Scope
  <2>2. ASSUME NEW k \in 1..Len(stack'[q])
        PROVE  GetOK(store, q, stack[q][k])'
    <3>1. GetOK(store', q, stack'[q][k])
      BY <1>3 DEF WorkOK, GetsOK
    <3>2. QED
      BY <2>1, <3>1 DEF GetOK
  <2>3. WorkOK(store', q, stack'[q])
    BY <1>3
  <2>4. QED
    BY <2>2, <2>3 DEF WorkOK, GetsOK, Nested, Below
<1>5. QED
  BY <1>4 DEF WorksOK

LEMMA ListsSame ==
  ASSUME ListsOK, reg' = reg, store' = store
  PROVE  ListsOK'
BY DEF ListsOK, ListOK, MainOf, Creators

(* What a collection gives the provider to create. *)
LEMMA Newest ==
  ASSUME TypeOK, NEW i \in Interfaces, Known(i)
  PROVE  /\ Creators(i) \in Seq(Impls)
         /\ NewestFirst(i) \in Seq(Impls) /\ NewestFirst(i) # <<>>
         /\ Head(NewestFirst(i)) = MainOf(i)
         /\ Tail(NewestFirst(i)) \in Seq(Impls)
         /\ Elems(Creators(i)) = {MainOf(i)} \union Elems(Tail(NewestFirst(i)))
         /\ Elems(Creators(i)) = Elems(NewestFirst(i))
         /\ MainOf(i) \notin Elems(Tail(NewestFirst(i)))
<1>1. Creators(i) \in Seq(Impls) /\ Creators(i) # <<>> /\ IsInjective(Creators(i))
  BY CollectionParts, CollectionsAssumption DEF Known, Creators, TypeOK
<1>2. NewestFirst(i) \in Seq(Impls) /\ NewestFirst(i) # <<>>
  BY CollectionParts
<1>3. /\ Elems(NewestFirst(i)) = Elems(Creators(i))
      /\ Head(NewestFirst(i)) = MainOf(i)
      /\ MainOf(i) \notin Elems(Tail(NewestFirst(i)))
  BY <1>1, ElemsReverse DEF NewestFirst, MainOf
<1>4. /\ Tail(NewestFirst(i)) \in Seq(Impls)
      /\ Elems(NewestFirst(i)) = {Head(NewestFirst(i))} \union Elems(Tail(NewestFirst(i)))
  BY <1>2, ElemsTail
<1>5. QED
  BY <1>1, <1>2, <1>3, <1>4

LEMMA OneElem ==
  ASSUME NEW x
  PROVE  Elems(<<x>>) = {x} /\ Elems(Tail(<<x>>)) = {} /\ Head(<<x>>) = x /\ <<x>> # <<>>
BY DEF Elems

LEMMA NoElem == Elems(<<>>) = {}
BY DEF Elems

(* What a new call for a list is to create: the main service if there is   *)
(* none yet, else at least what the list may still lack.                   *)
LEMMA NewGet ==
  ASSUME TypeOK, ListsOK, NEW p \in Providers, NEW d \in Calls, Call(p, d), d.op \in Gets
  PROVE  LET i == d.iface
             f == NewFrame(p, d)
             l == ListOf(store, p, i)
         IN  /\ GetOK(store, p, f)
             /\ l.items = <<>> => MainOf(i) \in Elems(f.todo)
             /\ l.items # <<>> => Elems(Creators(i)) \ {MainOf(i)} \subseteq Elems(f.todo)
<1> DEFINE i == d.iface
           f == NewFrame(p, d)
           l == ListOf(store, p, i)
           N == NewestFirst(i)
<1>1. /\ i \in Interfaces /\ Known(i) /\ ~Cached(p, d)
      /\ f.op = d.op /\ f.iface = i /\ f.todo = CreatorsFor(p, d)
  BY DEF Call, Calls, NewFrame
<1>2. /\ N \in Seq(Impls) /\ N # <<>> /\ Head(N) = MainOf(i) /\ Tail(N) \in Seq(Impls)
      /\ Elems(Creators(i)) = {MainOf(i)} \union Elems(Tail(N))
      /\ Elems(Creators(i)) = Elems(N)
      /\ MainOf(i) \notin Elems(Tail(N))
  BY <1>1, Newest
<1>3. /\ Container(p, i) \in {Singletons, p} /\ Container(p, i) \in Containers
      /\ ListOK(l, i) /\ l \in Lists
  <2>1. Container(p, i) \in {Singletons, p} /\ Container(p, i) \in Containers
    BY DEF Container, Containers
  <2>2. QED
    BY <1>1, <2>1, ListsType DEF ListsOK, ListOf
<1>4. l.items # <<>> => d.op = "getServices" /\ ~l.sealed
  BY <1>1, <1>3 DEF Cached, Listed, ListOf
<1>5. ~l.sealed
  BY <1>3, <1>4 DEF ListOK
<1> HIDE DEF f, l, N
<1>6. CASE l.items = <<>> /\ d.op \in {"getService", "getRequiredService"}
  <2>1. f.todo = <<MainOf(i)>>
    BY <1>1, <1>6 DEF CreatorsFor
  <2>2. Elems(f.todo) = {MainOf(i)} /\ Elems(Tail(f.todo)) = {} /\ Head(f.todo) = MainOf(i) /\ f.todo # <<>>
    BY <2>1, OneElem
  <2>3. GetOK(store, p, f)
    BY <1>1, <1>2, <1>5, <1>6, <2>2 DEF GetOK, l
  <2>4. QED
    BY <1>6, <2>2, <2>3 DEF f, l
<1>7. CASE l.items = <<>> /\ d.op = "getServices"
  <2>1. f.todo = N
    BY <1>1, <1>7 DEF CreatorsFor, l, ListOf, N
  <2>2. GetOK(store, p, f)
    BY <1>1, <1>2, <1>5, <1>7, <2>1 DEF GetOK, l
  <2>3. QED
    BY <1>2, <1>7, <2>1, <2>2 DEF f, l
<1>8. CASE l.items # <<>>
  <2>1. f.todo = Tail(N) /\ d.op = "getServices"
    BY <1>1, <1>4, <1>8 DEF CreatorsFor, l, ListOf, N
  <2>2. MainOf(i) \in Made(l)
    <3>1. l.items \in Seq(Instances)
      BY <1>3 DEF Lists
    <3>2. 1 \in 1..Len(l.items)
      BY <1>8, <3>1
    <3>3. QED
      BY <1>3, <1>8, <3>2 DEF ListOK, Made
  <2>3. f.todo # <<>> => Head(f.todo) \in Elems(f.todo) /\ Elems(Tail(f.todo)) \subseteq Elems(f.todo)
    <3>1. f.todo \in Seq(Impls)
      BY <1>2, <2>1
    <3>2. QED
      BY <3>1, ElemsTail
  <2>4. GetOK(store, p, f)
    BY <1>1, <1>2, <1>5, <1>8, <2>1, <2>2, <2>3 DEF GetOK, l
  <2>5. QED
    BY <1>2, <1>8, <2>1, <2>4 DEF f, l
<1>9. QED
  BY <1>6, <1>7, <1>8 DEF Gets

(* The frame of a new call, on frames that all run a constructor. *)
LEMMA WorkPush ==
  ASSUME TypeOK, LInv, NEW p \in Providers, NEW d \in Calls, Call(p, d)
  PROVE  WorkOK(store, p, Append(Taken(p, d), NewFrame(p, d)))
<1> DEFINE s == Taken(p, d)
           f == NewFrame(p, d)
           t == Append(s, f)
           i == d.iface
           l == ListOf(store, p, i)
<1>1. /\ s \in Seq(Frames) /\ SameBuild(s, stack[p]) /\ Len(s) = Len(stack[p])
      /\ stack[p] \in Seq(Frames) /\ Len(s) \in Nat
      /\ WorkOK(store, p, s)
  BY TakenFrames, WorkBuildSame DEF TypeOK, LInv, WorksOK
<1>2. f \in Frames /\ f.op = d.op /\ f.iface = i
  BY NewFrameType DEF Call, NewFrame
<1>3. \A m \in 1..Len(s) : s[m].building
  <2>1. stack[p] # <<>> => stack[p][Len(stack[p])].building
    BY DEF Call, Asks, Top, Last
  <2>2. \A m \in 1..Len(s) : m = Len(s) \/ m \in 1..(Len(s) - 1)
    BY <1>1
  <2>3. s # <<>> => s[Len(s)].building
    BY <1>1, <2>1 DEF SameBuild
  <2>4. \A m \in 1..Len(s) : s # <<>>
    BY <1>1
  <2>5. QED
    BY <1>1, <2>2, <2>3, <2>4 DEF WorkOK, Below
<1>4. d.op \in Gets =>
        /\ GetOK(store, p, f)
        /\ l.items = <<>> => MainOf(i) \in Elems(f.todo)
        /\ l.items # <<>> => Elems(Creators(i)) \ {MainOf(i)} \subseteq Elems(f.todo)
  BY NewGet DEF LInv
<1> HIDE DEF f, s, l
<1>5. /\ Len(t) = Len(s) + 1 /\ t[Len(s) + 1] = f
      /\ \A k \in 1..Len(s) : t[k] = s[k]
  BY <1>1, <1>2
<1> HIDE DEF t
<1>6. \A k \in 1..Len(t) : k \in 1..Len(s) \/ k = Len(s) + 1
  BY <1>1, <1>5
<1>7. GetsOK(store, p, t)
  <2>1. GetOK(store, p, f)
    BY <1>2, <1>4 DEF GetOK
  <2>2. QED
    BY <1>1, <1>5, <1>6, <2>1 DEF WorkOK, GetsOK
<1>8. Below(t)
  <2>1. 1..(Len(t) - 1) = 1..Len(s)
    BY <1>1, <1>5
  <2>2. QED
    BY <1>3, <1>5, <2>1 DEF Below
<1>9. ASSUME NEW m \in 1..Len(s), s[m].op \in Gets, f.op \in Gets, s[m].iface = i
      PROVE  Head(s[m].todo) \in Elems(f.todo)
  <2>1. /\ GetOK(store, p, s[m]) /\ s[m] \in Frames /\ s[m].building
    BY <1>1, <1>3 DEF WorkOK, GetsOK
  <2>2. s[m].todo # <<>> /\ s[m].todo \in Seq(Impls)
    BY <2>1 DEF Frames
  <2>3. Head(s[m].todo) \in Elems(s[m].todo)
    BY <2>2, ElemsTail
  <2>4. Head(s[m].todo) \in Elems(Creators(i))
    BY <1>9, <2>1, <2>3 DEF GetOK
  <2>5. l.items = <<>> => Head(s[m].todo) = MainOf(i)
    BY <1>9, <2>1 DEF GetOK, l
  <2>6. l.items # <<>> => Head(s[m].todo) # MainOf(i)
    BY <1>9, <2>1, <2>2 DEF GetOK, l
  <2>7. QED
    BY <1>2, <1>4, <1>9, <2>4, <2>5, <2>6
<1>10. Nested(t)
  <2> SUFFICES ASSUME NEW m \in 1..Len(t), NEW k \in 1..Len(t), m < k,
                      t[m].op \in Gets, t[k].op \in Gets, t[m].iface = t[k].iface
               PROVE  Head(t[m].todo) \in Elems(t[k].todo)
    BY DEF Nested
  <2>1. m \in 1..Len(s)
    BY <1>1, <1>5
  <2>2. CASE k \in 1..Len(s)
    BY <1>1, <1>5, <2>1, <2>2 DEF WorkOK, Nested
  <2>3. CASE k = Len(s) + 1
    BY <1>2, <1>5, <1>9, <2>1, <2>3
  <2>4. QED
    BY <1>6, <2>2, <2>3
<1>11. QED
  BY <1>7, <1>8, <1>10 DEF WorkOK, t, s, f

(* When a call of p writes the list of its interface, the other providers  *)
(* do not see that list, or they do nothing.                               *)
LEMMA OthersSee ==
  ASSUME TypeOK, FInv, NEW p \in Providers, stack[p] # <<>>, Top(p).op \in Gets,
         NEW c, c = Container(p, Top(p).iface),
         \A e \in Containers, j \in Interfaces :
           ~(e = c /\ j = Top(p).iface) => store'[e][j] = store[e][j]
  PROVE  \A q \in Providers \ {p} : SameLists(store, store', q) \/ stack[q] = <<>>
<1> DEFINE i == Top(p).iface
<1>1. /\ stack[p] \in Seq(Frames) /\ i \in Interfaces /\ StackOK(store, p, stack[p])
      /\ Top(p) = Last(stack[p])
  BY TopFrame DEF Top, FInv, FramesOK
<1>2. p \in Requests => Scope(i) = "scoped"
  <2>1. FrameOK(store, p, Top(p))
    BY <1>1, StackFront
  <2>2. QED
    BY <2>1 DEF FrameOK
<1>3. CASE c = Singletons
  <2>1. Scope(i) = "singleton"
    BY <1>3, ContainersDistinct DEF Container
  <2>2. p = Root
    BY <1>2, <2>1 DEF Providers
  <2>3. phase # "serving"
    BY <2>2 DEF FInv, Idle
  <2>4. \A q \in Providers \ {p} : stack[q] = <<>>
    BY <2>2, <2>3 DEF FInv, Idle, Providers
  <2>5. QED
    BY <2>4
<1>4. CASE c = p /\ c # Singletons
  <2>1. \A q \in Providers \ {p}, j \in Interfaces :
          Container(q, j) \in Containers /\ Container(q, j) # c
    BY <1>4 DEF Container, Containers
  <2>2. QED
    BY <2>1 DEF SameLists, ListOf
<1>5. QED
  BY <1>3, <1>4 DEF Container

(* A service is done: the list grows by it. *)
LEMMA WorkFinish ==
  ASSUME TypeOK, FInv, LInv, AllExact, NEW p \in Providers, FinishHolder(p),
         Top(p).op \in Gets
  PROVE  LET f == Top(p)
             c == Container(p, f.iface)
         IN  /\ WorkOK(store', p, stack'[p])
             /\ ListOK(store'[c][f.iface], f.iface)
             /\ \A e \in Containers, j \in Interfaces :
                  ~(e = c /\ j = f.iface) => store'[e][j] = store[e][j]
<1> DEFINE s == stack[p]
           f == Top(p)
           n == Len(s)
           i == f.iface
           T == Head(f.todo)
           c == Container(p, i)
           x == [impl |-> T, holds |-> f.held]
           g == [f EXCEPT !.building = FALSE, !.todo = Tail(@)]
           t == Append(Front(s), g)
           l == store[c][i]
           l2 == store'[c][i]
<1>1. s # <<>> /\ f.building
  BY DEF FinishHolder
<1>2. /\ f \in Frames /\ f.held \subseteq Refs /\ i \in Interfaces /\ c \in Containers
      /\ T \in Impls /\ Tail(f.todo) \in Seq(Impls) /\ f.todo \in Seq(Impls) /\ f.todo # <<>>
      /\ s \in Seq(Frames) /\ f = Last(s) /\ f = s[n] /\ n \in Nat \ {0}
  BY <1>1, TopFrame DEF Top
<1>3. x \in Instances
  BY <1>2 DEF Instances
<1>4. g \in Frames /\ g.op = f.op /\ g.iface = i /\ g.todo = Tail(f.todo)
  BY <1>2 DEF Frames
<1>5. /\ stack'[p] = t
      /\ store' = [store EXCEPT ![c][i].items = Append(@, x)]
  BY DEF FinishHolder, TypeOK
<1> HIDE DEF g, x
<1>6. /\ Len(t) = n /\ t[n] = g
      /\ \A k \in 1..(n - 1) : t[k] = s[k]
  BY <1>1, <1>2, <1>4, ReplaceTop
<1> HIDE DEF t
<1>7. /\ \A e \in Containers, j \in Interfaces :
           ~(e = c /\ j = i) => store'[e][j] = store[e][j]
      /\ l2.sealed = l.sealed
  <2>1. c \in Containers /\ i \in Interfaces
        /\ store' = [store EXCEPT ![c][i].items = Append(@, x)]
    BY <1>2, <1>5
  <2> HIDE DEF c, i
  <2>2. /\ store'[c][i].items # <<>>
        /\ \A e \in Containers, j \in Interfaces :
             /\ store[e][j].items # <<>> => store'[e][j].items # <<>>
             /\ ~(e = c /\ j = i) => store'[e][j] = store[e][j]
             /\ store'[e][j].sealed = store[e][j].sealed
    BY <1>3, <2>1, AppendGrows, Zenon
  <2>3. QED
    BY <2>1, <2>2, Zenon
<1>8. l2.items = Append(l.items, x) /\ l2 \in Lists /\ l \in Lists
  <2>1. l2 = [l EXCEPT !.items = Append(@, x)]
    BY <1>2, <1>5 DEF TypeOK
  <2>2. l \in Lists
    BY <1>2, ListsType
  <2>3. QED
    BY <1>3, <2>1, <2>2, ListUpdate DEF Lists
<1>9. /\ Made(l2) = Made(l) \union {T}
      /\ l2.items # <<>>
      /\ l2.items[1] = IF l.items = <<>> THEN x ELSE l.items[1]
      /\ x.impl = T
  <2>1. x.impl = T
    BY DEF x
  <2> HIDE DEF l, l2, T
  <2>2. QED
    BY <1>3, <1>8, <2>1, MadeAppend
<1>10. /\ ListOf(store, p, i) = l /\ ListOf(store', p, i) = l2
       /\ \A j \in Interfaces \ {i} : ListOf(store', p, j) = ListOf(store, p, j)
  <2>1. \A j \in Interfaces : Container(p, j) \in Containers
    BY DEF Container, Containers
  <2>2. QED
    BY <1>7, <2>1 DEF ListOf
<1>11. WorkOK(store, p, s)
  BY DEF LInv, WorksOK
<1> HIDE DEF l, l2, c
<1>12. GetOK(store, p, f)
  BY <1>1, <1>2, <1>11, WorkFront
<1>13. /\ ~l.sealed
       /\ Elems(f.todo) \subseteq Elems(Creators(i))
       /\ MainOf(i) \notin Elems(Tail(f.todo))
       /\ l.items = <<>> => T = MainOf(i)
       /\ f.op = "getServices" => Elems(Creators(i)) \subseteq Elems(f.todo) \union Made(l)
  BY <1>2, <1>10, <1>12 DEF GetOK
<1>14. Elems(f.todo) = {T} \union Elems(Tail(f.todo))
  BY <1>2, ElemsTail
<1>15. ListOK(l2, i)
  <2>1. ListOK(l, i)
    BY <1>2 DEF LInv, ListsOK, l
  <2>2. QED
    BY <1>7, <1>9, <1>13, <2>1 DEF ListOK
(* Another frame for the same list runs another constructor. *)
<1>16. ASSUME NEW m \in 1..(n - 1), s[m].op \in Gets, s[m].iface = i
       PROVE  Head(s[m].todo) \in Elems(g.todo) /\ l.items # <<>>
  <2>1. m \in 1..n /\ n \in 1..n /\ m < n /\ m # n
    BY <1>2
  <2>2. Head(s[m].todo) \in Elems(f.todo)
    BY <1>2, <1>11, <1>16, <2>1 DEF WorkOK, Nested
  <2>3. s[m].building
    BY <1>11, <1>16 DEF WorkOK, Below
  <2>4. Head(s[m].todo) # T
    BY <1>1, <1>2, <2>1, <2>3 DEF AllExact, Exact, Building
  <2>5. GetOK(store, p, s[m])
    BY <1>11, <2>1 DEF WorkOK, GetsOK
  <2>6. l.items = <<>> => Head(s[m].todo) = MainOf(i)
    BY <1>10, <1>16, <2>5 DEF GetOK
  <2>7. QED
    BY <1>4, <1>13, <1>14, <2>2, <2>4, <2>6
<1>17. GetOK(store', p, g)
  <2>1. g.todo # <<>> => Head(g.todo) \in Elems(g.todo) /\ Elems(Tail(g.todo)) \subseteq Elems(g.todo)
    <3>1. g.todo \in Seq(Impls)
      BY <1>2, <1>4
    <3>2. QED
      BY <3>1, ElemsTail
  <2>2. QED
    BY <1>4, <1>7, <1>9, <1>10, <1>13, <1>14, <2>1 DEF GetOK
<1>18. ASSUME NEW m \in 1..(n - 1)
       PROVE  GetOK(store', p, s[m])
  <2>1. GetOK(store, p, s[m])
    <3>1. m \in 1..n
      BY <1>2
    <3>2. QED
      BY <1>11, <3>1 DEF WorkOK, GetsOK
  <2>2. s[m].iface \in Interfaces
    <3>1. m \in 1..Len(s)
      BY <1>2
    <3>2. s[m] \in Frames
      BY <1>2, <3>1
    <3>3. QED
      BY <3>2 DEF Frames
  <2>3. CASE s[m].iface # i
    BY <1>10, <2>1, <2>2, <2>3 DEF GetOK
  <2>4. CASE s[m].iface = i /\ s[m].op \in Gets
    BY <1>7, <1>9, <1>10, <1>16, <2>1, <2>4 DEF GetOK
  <2>5. CASE s[m].op \notin Gets
    BY <2>5 DEF GetOK
  <2>6. QED
    BY <2>3, <2>4, <2>5
<1>19. \A k \in 1..n : k = n \/ k \in 1..(n - 1)
  BY <1>2
<1>20. GetsOK(store', p, t)
  BY <1>6, <1>17, <1>18, <1>19 DEF GetsOK
<1>21. Below(t)
  <2>1. \A m \in 1..(n - 1) : s[m].building
    BY <1>11 DEF WorkOK, Below
  <2>2. QED
    BY <1>6, <2>1 DEF Below
<1>22. Nested(t)
  <2> SUFFICES ASSUME NEW m \in 1..n, NEW k \in 1..n, m < k,
                      t[m].op \in Gets, t[k].op \in Gets, t[m].iface = t[k].iface
               PROVE  Head(t[m].todo) \in Elems(t[k].todo)
    BY <1>6 DEF Nested
  <2>1. m \in 1..(n - 1)
    BY <1>2
  <2>2. CASE k = n
    BY <1>4, <1>6, <1>16, <2>1, <2>2
  <2>3. CASE k \in 1..(n - 1)
    BY <1>6, <1>11, <2>1, <2>3 DEF WorkOK, Nested
  <2>4. QED
    BY <1>19, <2>2, <2>3
<1>23. WorkOK(store', p, t)
  BY <1>20, <1>21, <1>22 DEF WorkOK
<1>24. QED
  BY <1>5, <1>7, <1>15, <1>23 DEF l2, c

(* A call that has run its creators: no other call of p is for its list. *)
LEMMA WorkReturn ==
  ASSUME TypeOK, FInv, LInv, NEW p \in Providers, Return(p)
  PROVE  LET f == Top(p)
             c == Container(p, f.iface)
         IN  /\ WorkOK(store', p, stack'[p])
             /\ f.op = "getServices" =>
                  /\ ListOK(store'[c][f.iface], f.iface)
                  /\ ~store[c][f.iface].sealed
                  /\ store[c][f.iface].items # <<>>
                  /\ Elems(Creators(f.iface)) \subseteq Made(store[c][f.iface])
                  /\ \A e \in Containers, j \in Interfaces :
                       ~(e = c /\ j = f.iface) => store'[e][j] = store[e][j]
<1> DEFINE s == stack[p]
           f == Top(p)
           i == f.iface
           c == Container(p, i)
           refs == IF f.op \in Gets THEN {[container |-> c, iface |-> i]} ELSE f.held
           l == store[c][i]
           l2 == store'[c][i]
<1>1. s # <<>> /\ f.todo = <<>>
  BY DEF Return
<1>2. /\ f \in Frames /\ f.held \subseteq Refs /\ i \in Interfaces /\ c \in Containers
      /\ s \in Seq(Frames) /\ f = Last(s) /\ f = s[Len(s)]
      /\ Front(s) \in Seq(Frames) /\ Len(s) \in Nat \ {0}
  BY <1>1, TopFrame DEF Top
<1>3. refs \in SUBSET Refs
  BY <1>2 DEF Refs
<1>4. /\ stack'[p] = Deliver(Front(s), refs)
      /\ store' = IF f.op = "getServices" THEN [store EXCEPT ![c][i].sealed = TRUE] ELSE store
  BY DEF Return, TypeOK
<1> HIDE DEF refs
<1>5. /\ WorkOK(store, p, s)
      /\ WorkOK(store, p, Front(s)) /\ GetOK(store, p, f)
  BY <1>1, <1>2, WorkFront DEF LInv, WorksOK
<1>6. /\ Len(Front(s)) = Len(s) - 1
      /\ \A k \in 1..(Len(s) - 1) : Front(s)[k] = s[k]
  BY <1>1, <1>2, LastFront
<1>7. ASSUME WorkOK(store', p, Front(s))
      PROVE  WorkOK(store', p, stack'[p])
  BY <1>2, <1>3, <1>4, <1>7, DeliverFrames, WorkBuildSame
<1>8. CASE f.op # "getServices"
  BY <1>4, <1>5, <1>7, <1>8
<1>9. CASE f.op = "getServices"
  <2>1. f.op \in Gets /\ store' = [store EXCEPT ![c][i].sealed = TRUE]
    BY <1>4, <1>9 DEF Gets
  <2>2. ~l.sealed /\ l.items # <<>> /\ Elems(Creators(i)) \subseteq Made(l)
    BY <1>1, <1>5, <1>9, <2>1, NoElem DEF GetOK, ListOf
  <2>3. l \in Lists /\ l2 = [l EXCEPT !.sealed = TRUE]
    BY <1>2, <2>1, ListsType DEF TypeOK
  <2>4. l2.items = l.items /\ l2.sealed
    BY <2>3 DEF Lists
  <2>5. ListOK(l2, i)
    <3>1. ListOK(l, i)
      BY <1>2 DEF LInv, ListsOK
    <3> HIDE DEF l, l2
    <3>2. QED
      BY <2>2, <2>4, <3>1 DEF ListOK, Made
  <2>6. \A e \in Containers, j \in Interfaces :
          ~(e = c /\ j = i) => store'[e][j] = store[e][j]
    BY <1>2, <2>1 DEF TypeOK
  <2>7. \A j \in Interfaces \ {i} : ListOf(store', p, j) = ListOf(store, p, j)
    <3>1. \A j \in Interfaces : Container(p, j) \in Containers
      BY DEF Container, Containers
    <3>2. QED
      BY <2>6, <3>1 DEF ListOf
  <2>8. \A k \in 1..Len(Front(s)) : Front(s)[k].op \in Gets => Front(s)[k].iface # i
    <3> SUFFICES ASSUME NEW k \in 1..(Len(s) - 1), s[k].op \in Gets, s[k].iface = i
                 PROVE  FALSE
      BY <1>6
    <3>1. k \in 1..Len(s) /\ Len(s) \in 1..Len(s) /\ k < Len(s)
      BY <1>2
    <3>2. Head(s[k].todo) \in Elems(f.todo)
      BY <1>2, <1>5, <2>1, <3>1 DEF WorkOK, Nested
    <3>3. QED
      BY <1>1, <3>2, NoElem
  <2>9. WorkOK(store', p, Front(s))
    BY <1>2, <1>5, <2>7, <2>8, WorkElsewhere
  <2>10. QED
    BY <1>7, <2>2, <2>5, <2>6, <2>9
<1>10. QED
  BY <1>8, <1>9

(* Steps that write no list. *)
LEMMA LInvQuiet ==
  ASSUME TypeOK, LInv, NEW p \in Providers, NEW s,
         reg' = reg, store' = store, stack' = [stack EXCEPT ![p] = s],
         WorkOK(store, p, s)
  PROVE  LInv'
<1>1. \A q \in Providers : SameLists(store, store', q)
  BY DEF SameLists
<1>2. WorkOK(store', p, s)
  OBVIOUS
<1>3. WorksOK'
  BY <1>1, <1>2, WorksStep DEF LInv
<1>4. QED
  BY <1>3, ListsSame DEF LInv

LEMMA LInvRaise ==
  ASSUME TypeOK, LInv, NEW p \in Providers, NEW s \in Seq(Frames),
         NEW n \in Int, n <= Len(s), Raise(p, s, n), WorkOK(store, p, s),
         reg' = reg, store' = store
  PROVE  LInv'
<1>1. PICK k \in 0..Len(s) : stack' = [stack EXCEPT ![p] = SubSeq(s, 1, k)]
  BY RaiseEffect
<1>2. WorkOK(store, p, SubSeq(s, 1, k))
  BY WorkCut
<1>3. QED
  BY <1>1, <1>2, LInvQuiet

LEMMA LInvResolve ==
  ASSUME TypeOK, LInv, NEW p \in Providers, NEW d \in Calls,
         Hit(p, d) \/ Absent(p, d) \/ Refuse(p, d) \/ Call(p, d)
  PROVE  LInv'
<1>1. /\ Taken(p, d) \in Seq(Frames) /\ stack[p] \in Seq(Frames)
      /\ Len(Taken(p, d)) = Len(stack[p])
      /\ WorkOK(store, p, Taken(p, d))
  BY TakenFrames, WorkBuildSame DEF TypeOK, LInv, WorksOK
<1>2. reg' = reg /\ store' = store
  BY DEF Hit, Absent, Refuse, Call
<1>3. CASE Hit(p, d)
  <2> DEFINE refs == {Found(p, d)}
  <2>1. refs \in SUBSET Refs
    BY DEF Found, Refs, Containers, Calls
  <2>2. stack' = [stack EXCEPT ![p] = Deliver(Taken(p, d), refs)]
    BY <1>3 DEF Hit
  <2> HIDE DEF refs
  <2>3. WorkOK(store, p, Deliver(Taken(p, d), refs))
    BY <1>1, <2>1, DeliverFrames, WorkBuildSame
  <2>4. QED
    BY <1>2, <2>2, <2>3, LInvQuiet
<1>4. CASE Absent(p, d)
  BY <1>1, <1>2, <1>4, LInvQuiet DEF Absent
<1>5. CASE Refuse(p, d)
  <2>1. Raise(p, Taken(p, d), Len(stack[p]))
    BY <1>5 DEF Refuse
  <2>2. Len(stack[p]) \in Int /\ Len(stack[p]) <= Len(Taken(p, d))
    BY <1>1
  <2>3. QED
    BY <1>1, <1>2, <2>1, <2>2, LInvRaise
<1>6. CASE Call(p, d)
  <2>1. stack' = [stack EXCEPT ![p] = Append(Taken(p, d), NewFrame(p, d))]
    BY <1>6 DEF Call
  <2>2. WorkOK(store, p, Append(Taken(p, d), NewFrame(p, d)))
    BY <1>6, WorkPush
  <2>3. QED
    BY <1>2, <2>1, <2>2, LInvQuiet
<1>7. QED
  BY <1>3, <1>4, <1>5, <1>6

(* Another frame on top that is for the same list, with the same to do. *)
LEMMA LInvBegin ==
  ASSUME TypeOK, LInv, NEW p \in Providers, BeginHolder(p)
  PROVE  LInv'
<1> DEFINE s == stack[p]
           f == Top(p)
           T == Head(f.todo)
           g == [f EXCEPT !.building = TRUE, !.args = reg.deps[T],
                          !.held = IF f.op \in Gets THEN {} ELSE @]
           t == Append(Front(s), g)
<1>1. s # <<>> /\ f.todo # <<>> /\ ~f.building
  BY DEF BeginHolder, ReadyToBuild
<1>2. /\ s \in Seq(Frames) /\ f \in Frames /\ f = Last(s) /\ f = s[Len(s)]
      /\ Len(s) \in Nat \ {0} /\ T \in Impls /\ f.held \subseteq Refs
  BY <1>1, TopFrame DEF Top
<1>3. reg.deps[T] \in SUBSET Calls
  BY <1>2, CollectionParts
<1>4. g \in Frames /\ g.todo = f.todo /\ g.op = f.op /\ g.iface = f.iface
  BY <1>1, <1>2, <1>3 DEF Frames
<1>5. stack' = [stack EXCEPT ![p] = t] /\ reg' = reg /\ store' = store
  BY DEF BeginHolder, TypeOK
<1> HIDE DEF g
<1>6. /\ Len(t) = Len(s) /\ t[Len(s)] = g
      /\ \A k \in 1..(Len(s) - 1) : t[k] = s[k]
  BY <1>1, <1>2, <1>4, ReplaceTop
<1> HIDE DEF t
<1>7. WorkOK(store, p, s)
  BY DEF LInv, WorksOK
<1>8. SameWork(t, s)
  <2>1. \A k \in 1..Len(s) : k = Len(s) \/ k \in 1..(Len(s) - 1)
    BY <1>2
  <2>2. QED
    BY <1>2, <1>4, <1>6, <2>1 DEF SameWork
<1>9. Below(t)
  BY <1>6, <1>7 DEF WorkOK, Below
<1>10. WorkOK(store, p, t)
  BY <1>7, <1>8, <1>9, WorkSame
<1>11. QED
  BY <1>5, <1>10, LInvQuiet

LEMMA LInvFinish ==
  ASSUME TypeOK, FInv, LInv, AllExact, NEW p \in Providers, FinishHolder(p)
  PROVE  LInv'
<1> DEFINE s == stack[p]
           f == Top(p)
           c == Container(p, f.iface)
           g == [f EXCEPT !.building = FALSE, !.todo = Tail(@)]
           t == Append(Front(s), g)
<1>1. s # <<>> /\ f.building /\ reg' = reg
  BY DEF FinishHolder
<1>2. /\ f \in Frames /\ f.iface \in Interfaces
      /\ s \in Seq(Frames) /\ Len(s) \in Nat \ {0} /\ Tail(f.todo) \in Seq(Impls)
  BY <1>1, TopFrame
<1>3. stack' = [stack EXCEPT ![p] = t] /\ stack'[p] = t
  BY DEF FinishHolder, TypeOK
<1>4. CASE f.op \in Gets
  <2>1. /\ WorkOK(store', p, stack'[p])
        /\ ListOK(store'[c][f.iface], f.iface)
        /\ \A e \in Containers, j \in Interfaces :
             ~(e = c /\ j = f.iface) => store'[e][j] = store[e][j]
    BY <1>4, WorkFinish
  <2>2. \A q \in Providers \ {p} : SameLists(store, store', q) \/ stack[q] = <<>>
    BY <1>1, <1>4, <2>1, OthersSee
  <2>3. WorksOK'
    <3> HIDE DEF t
    <3>1. QED
      BY <1>1, <1>3, <2>1, <2>2, WorksStep DEF LInv
  <2>4. \A e \in Containers, j \in Interfaces : ListOK(store'[e][j], j)
    BY <2>1 DEF LInv, ListsOK
  <2>5. ListsOK'
    BY <1>1, <2>4 DEF ListsOK, ListOK, MainOf, Creators
  <2>6. QED
    BY <2>3, <2>5 DEF LInv
<1>5. CASE f.op \notin Gets
  <2>1. store' = store
    BY <1>5 DEF FinishHolder
  <2>2. g \in Frames /\ g.op = f.op
    BY <1>2 DEF Frames
  <2> HIDE DEF g
  <2>3. /\ Len(t) = Len(s) /\ t[Len(s)] = g
        /\ \A k \in 1..(Len(s) - 1) : t[k] = s[k]
    BY <1>1, <1>2, <2>2, ReplaceTop
  <2> HIDE DEF t
  <2>4. WorkOK(store, p, s)
    BY DEF LInv, WorksOK
  <2>5. /\ \A k \in 1..Len(s) : k = Len(s) \/ k \in 1..(Len(s) - 1)
        /\ \A k \in 1..(Len(s) - 1) : k \in 1..Len(s)
    BY <1>2
  <2>6. GetsOK(store, p, t)
    <3>1. GetOK(store, p, g)
      BY <1>5, <2>2 DEF GetOK
    <3>2. QED
      BY <2>3, <2>4, <2>5, <3>1 DEF WorkOK, GetsOK
  <2>7. Nested(t)
    BY <1>5, <2>2, <2>3, <2>4, <2>5 DEF WorkOK, Nested
  <2>8. Below(t)
    BY <2>3, <2>4 DEF WorkOK, Below
  <2>9. QED
    BY <1>1, <1>3, <2>1, <2>6, <2>7, <2>8, LInvQuiet DEF WorkOK
<1>6. QED
  BY <1>4, <1>5

LEMMA LInvReturn ==
  ASSUME TypeOK, FInv, LInv, NEW p \in Providers, Return(p)
  PROVE  LInv'
<1> DEFINE f == Top(p)
           c == Container(p, f.iface)
           t == stack'[p]
<1>1. stack[p] # <<>> /\ reg' = reg
  BY DEF Return
<1>2. stack' = [stack EXCEPT ![p] = t]
  BY DEF Return, TypeOK
<1>3. /\ WorkOK(store', p, t)
      /\ f.op = "getServices" =>
           /\ ListOK(store'[c][f.iface], f.iface)
           /\ \A e \in Containers, j \in Interfaces :
                ~(e = c /\ j = f.iface) => store'[e][j] = store[e][j]
  BY WorkReturn
<1> HIDE DEF t
<1>4. CASE f.op = "getServices"
  <2>1. f.op \in Gets
    BY <1>4 DEF Gets
  <2>2. \A q \in Providers \ {p} : SameLists(store, store', q) \/ stack[q] = <<>>
    BY <1>1, <1>3, <1>4, <2>1, OthersSee
  <2>3. WorksOK'
    BY <1>1, <1>2, <1>3, <2>2, WorksStep DEF LInv
  <2>4. \A e \in Containers, j \in Interfaces : ListOK(store'[e][j], j)
    BY <1>3, <1>4 DEF LInv, ListsOK
  <2>5. ListsOK'
    BY <1>1, <2>4 DEF ListsOK, ListOK, MainOf, Creators
  <2>6. QED
    BY <2>3, <2>5 DEF LInv
<1>5. CASE f.op # "getServices"
  <2>1. store' = store
    BY <1>5 DEF Return
  <2>2. QED
    BY <1>1, <1>2, <1>3, <2>1, LInvQuiet
<1>6. QED
  BY <1>4, <1>5

LEMMA LInvThrow ==
  ASSUME TypeOK, LInv, NEW p \in Providers, Circular(p) \/ FailHolder(p)
  PROVE  LInv'
<1>1. /\ Raise(p, stack[p], Len(stack[p]) - 1)
      /\ reg' = reg /\ store' = store
  BY DEF Circular, FailHolder
<1>2. stack[p] \in Seq(Frames) /\ WorkOK(store, p, stack[p])
  BY DEF TypeOK, LInv, WorksOK
<1>3. Len(stack[p]) - 1 \in Int /\ Len(stack[p]) - 1 <= Len(stack[p])
  BY <1>2
<1>4. QED
  BY <1>1, <1>2, <1>3, LInvRaise

LEMMA LInvApplication ==
  ASSUME TypeOK, LInv,
         \/ Built \/ Run \/ Serve \/ Stop
         \/ \E r \in Requests : StartRequest(r) \/ FinishRequest(r)
         \/ UNCHANGED vars
  PROVE  LInv'
<1>1. reg' = reg /\ stack' = stack
  BY DEF Built, Run, Serve, Stop, StartRequest, FinishRequest, vars
<1>2. CASE store' = store
  <2>1. Root \in Providers
    BY DEF Providers
  <2>2. stack' = [stack EXCEPT ![Root] = stack[Root]]
    BY <1>1, <2>1 DEF TypeOK
  <2>3. WorkOK(store, Root, stack[Root])
    BY <2>1 DEF LInv, WorksOK
  <2>4. QED
    BY <1>1, <1>2, <2>1, <2>2, <2>3, LInvQuiet
<1>3. ASSUME NEW r \in Requests, FinishRequest(r)
      PROVE  LInv'
  <2>1. /\ stack[r] = <<>> /\ store' = [store EXCEPT ![r] = Empty]
        /\ r \in Providers /\ r \in Containers /\ r # Singletons
    BY <1>3, ContainersDistinct DEF FinishRequest, Providers, Containers
  <2>2. \A e \in Containers \ {r} : store'[e] = store[e]
    BY <2>1 DEF TypeOK
  <2>3. \A q \in Providers \ {r} : SameLists(store, store', q)
    BY <2>1, <2>2 DEF SameLists, ListOf, Container, Containers
  <2>4. WorksOK'
    <3>1. stack' = [stack EXCEPT ![r] = <<>>]
      BY <1>1, <2>1 DEF TypeOK
    <3>2. WorkOK(store', r, <<>>)
      BY DEF WorkOK, GetsOK, Nested, Below
    <3>3. QED
      BY <1>1, <2>1, <2>3, <3>1, <3>2, WorksStep DEF LInv
  <2>5. \A i \in Interfaces : store'[r][i].items = <<>> /\ ~store'[r][i].sealed
    BY <2>1 DEF TypeOK, Empty, NoList
  <2>6. \A e \in Containers, j \in Interfaces : ListOK(store'[e][j], j)
    BY <2>2, <2>5 DEF LInv, ListsOK, ListOK
  <2>7. ListsOK'
    BY <1>1, <2>6 DEF ListsOK, ListOK, MainOf, Creators
  <2>8. QED
    BY <2>4, <2>7 DEF LInv
<1>4. QED
  BY <1>2, <1>3 DEF Built, Run, Serve, Stop, StartRequest, vars

LEMMA LInvInit == Init => LInv
<1> SUFFICES ASSUME Init PROVE LInv
  OBVIOUS
<1>1. WorksOK
  BY DEF Init, WorksOK, WorkOK, GetsOK, Nested, Below
<1>2. ListsOK
  BY DEF Init, ListsOK, ListOK, Empty, NoList
<1>3. QED
  BY <1>1, <1>2 DEF LInv

LEMMA LInvNext ==
  ASSUME TypeOK, AllExact, FInv, LInv, [Next]_vars
  PROVE  LInv'
BY Steps, LInvResolve, LInvBegin, LInvThrow, LInvFinish, LInvReturn, LInvApplication

(* What is known of every list and of every call that fills it, whatever   *)
(* is thrown and caught and however requests interleave.                   *)
THEOREM ListsInvariant == Spec => [](FInv /\ LInv)
<1>1. Init => FInv /\ LInv
  BY FInvInit, LInvInit
<1>2. TypeOK /\ GuardExact /\ FInv /\ LInv /\ [Next]_vars => (FInv /\ LInv)'
  BY GuardExactIff, FInvNext, LInvNext
<1>3. QED
  BY <1>1, <1>2, TypeCorrect, GuardIsExact, PTL DEF Spec

(* getService answers with the newest registration's service, also when    *)
(* getServices made the list, failed half way or extended it.              *)
THEOREM MainFirst == Spec => []FirstIsMain
<1>1. LInv => FirstIsMain
  BY DEF LInv, ListsOK, ListOK, FirstIsMain
<1>2. QED
  BY <1>1, ListsInvariant, PTL

(* A list that getServices answers from has a service of every             *)
(* registration, also when earlier calls for it failed.                    *)
THEOREM SealedComplete == Spec => []SealedIsComplete
<1>1. TypeOK /\ LInv => SealedIsComplete
  <2> SUFFICES ASSUME TypeOK, LInv, NEW c \in Containers, NEW i \in Interfaces,
                      store[c][i].sealed, NEW n \in DOMAIN Creators(i)
               PROVE  \E k \in DOMAIN store[c][i].items :
                        store[c][i].items[k].impl = Creators(i)[n]
    BY DEF SealedIsComplete
  <2>1. Creators(i) \in Seq(Impls) /\ store[c][i].items \in Seq(Instances)
    BY CollectionParts, ListsType
  <2>2. Creators(i)[n] \in Elems(Creators(i))
    BY <2>1 DEF Elems
  <2>3. Creators(i)[n] \in Made(store[c][i])
    BY <2>2 DEF LInv, ListsOK, ListOK
  <2>4. QED
    BY <2>1, <2>3 DEF Made
<1>2. QED
  BY <1>1, TypeCorrect, ListsInvariant, PTL

-----------------------------------------------------------------------------
(* The promise of ServiceLifetimes: every step of the provider is one of   *)
(* the steps it allows, or leaves what it speaks about alone.              *)

(* The implementations of the services of a list. *)
Names(items) == [k \in DOMAIN items |-> items[k].impl]

LEMMA NamesAppend ==
  ASSUME NEW s \in Seq(Instances), NEW x \in Instances
  PROVE  /\ Names(Append(s, x)) = Append(Names(s), x.impl)
         /\ Names(s) = <<>> <=> s = <<>>
         /\ DOMAIN Names(s) = 1..Len(s)
<1>1. /\ Len(s) \in Nat /\ DOMAIN s = 1..Len(s)
      /\ DOMAIN Append(s, x) = 1..(Len(s) + 1)
      /\ Append(s, x)[Len(s) + 1] = x
      /\ \A k \in 1..Len(s) : Append(s, x)[k] = s[k] /\ s[k].impl \in Impls
      /\ x.impl \in Impls
  <2>1. \A k \in 1..Len(s) : s[k] \in Instances
    OBVIOUS
  <2>2. QED
    BY <2>1 DEF Instances
<1>2. Names(s) \in Seq(Impls) /\ Len(Names(s)) = Len(s)
  BY <1>1 DEF Names
<1>3. /\ Names(Append(s, x)) \in Seq(Impls)
      /\ DOMAIN Names(Append(s, x)) = 1..(Len(s) + 1)
  <2>1. \A k \in 1..(Len(s) + 1) : Append(s, x)[k].impl \in Impls
    BY <1>1
  <2>2. QED
    BY <1>1, <2>1 DEF Names
<1>4. /\ DOMAIN Append(Names(s), x.impl) = 1..(Len(s) + 1)
      /\ Append(Names(s), x.impl) \in Seq(Impls)
      /\ Append(Names(s), x.impl)[Len(s) + 1] = x.impl
      /\ \A k \in 1..Len(s) : Append(Names(s), x.impl)[k] = Names(s)[k]
  BY <1>1, <1>2
<1>5. \A k \in 1..(Len(s) + 1) : Names(Append(s, x))[k] = Append(Names(s), x.impl)[k]
  <2>1. \A k \in 1..Len(s) : Names(Append(s, x))[k] = s[k].impl /\ Names(s)[k] = s[k].impl
    BY <1>1 DEF Names
  <2>2. Names(Append(s, x))[Len(s) + 1] = x.impl
    BY <1>1 DEF Names
  <2>3. \A k \in 1..(Len(s) + 1) : k \in 1..Len(s) \/ k = Len(s) + 1
    BY <1>1
  <2>4. QED
    BY <1>4, <2>1, <2>2, <2>3
<1>6. Names(Append(s, x)) = Append(Names(s), x.impl)
  BY <1>3, <1>4, <1>5
<1>7. Names(s) = <<>> <=> s = <<>>
  BY <1>1, <1>2
<1>8. QED
  BY <1>1, <1>6, <1>7 DEF Names

LEMMA Mapped ==
  ASSUME TypeOK, NEW c \in Containers, NEW i \in Interfaces
  PROVE  /\ Kept[c][i] = Names(store[c][i].items)
         /\ Sealed[c][i] = store[c][i].sealed
         /\ Kept[c][i] = <<>> <=> store[c][i].items = <<>>
<1>1. /\ Kept[c][i] = Names(store[c][i].items)
      /\ Sealed[c][i] = store[c][i].sealed
  BY DEF Kept, Sealed, Names
<1>2. store[c][i].items \in Seq(Instances)
  BY ListsType
<1>3. store[c][i].items # <<>> => Names(store[c][i].items) # <<>>
  BY <1>2 DEF Names
<1>4. store[c][i].items = <<>> => Names(store[c][i].items) = <<>>
  BY DEF Names
<1>5. QED
  BY <1>1, <1>3, <1>4

(* Where a call for a kept service puts it. *)
LEMMA Keeps ==
  ASSUME TypeOK, FInv, NEW p \in Providers, stack[p] # <<>>, Top(p).op \in Gets
  PROVE  /\ Lifetimes!Keeps(Container(p, Top(p).iface), Top(p).iface)
         /\ Container(p, Top(p).iface) \in Lifetimes!Containers
         /\ Known(Top(p).iface)
<1> DEFINE i == Top(p).iface
           c == Container(p, i)
<1>1. /\ stack[p] \in Seq(Frames) /\ i \in Interfaces /\ StackOK(store, p, stack[p])
      /\ Top(p) = Last(stack[p])
  BY TopFrame DEF Top, FInv, FramesOK
<1>2. FrameOK(store, p, Top(p))
  BY <1>1, StackFront
<1>3. p \in Requests => Scope(i) = "scoped" /\ p \in active
  BY <1>2 DEF FrameOK, FInv, Idle
<1>4. p = Root => phase # "serving"
  BY DEF FInv, Idle
<1>5. c = Singletons <=> Scope(i) = "singleton"
  BY ContainersDistinct DEF Container
<1>6. c \in {Singletons, p} /\ c \in Containers /\ Singletons \notin Requests
  BY ContainersDistinct DEF Container, Containers, Providers
<1>7. c = Singletons => phase # "serving"
  BY <1>3, <1>4, <1>5 DEF Providers
<1>8. c \in Requests => c \in active
  BY <1>3, <1>6
<1>9. Lifetimes!Keeps(c, i)
  BY <1>5, <1>7, <1>8 DEF Lifetimes!Keeps, Lifetimes!Singleton, Scope
<1>10. c \in Lifetimes!Containers
  BY <1>6 DEF Lifetimes!Containers, Containers, Providers
<1>11. QED
  BY <1>2, <1>9, <1>10 DEF FrameOK

(* Two-level maps that differ in one place. *)
LEMMA MapUpdate ==
  ASSUME NEW C, NEW I, NEW f, NEW g, NEW c \in C, NEW i \in I,
         f = [e \in C |-> [j \in I |-> f[e][j]]],
         g = [e \in C |-> [j \in I |-> g[e][j]]],
         \A e \in C, j \in I : ~(e = c /\ j = i) => g[e][j] = f[e][j]
  PROVE  g = [f EXCEPT ![c][i] = g[c][i]]
<1> DEFINE h == [f EXCEPT ![c][i] = g[c][i]]
<1>1. \A e \in C : /\ DOMAIN f[e] = I /\ DOMAIN g[e] = I
                   /\ f[e] = [j \in I |-> f[e][j]] /\ g[e] = [j \in I |-> g[e][j]]
  OBVIOUS
<1>2. h = [e \in C |-> IF e = c THEN [f[c] EXCEPT ![i] = g[c][i]] ELSE f[e]]
  OBVIOUS
<1>3. \A e \in C : e # c => g[e] = f[e]
  BY <1>1
<1>4. g[c] = [f[c] EXCEPT ![i] = g[c][i]]
  BY <1>1
<1>5. g = [e \in C |-> g[e]]
  OBVIOUS
<1>6. QED
  BY <1>2, <1>3, <1>4, <1>5

LEMMA MapShape ==
  /\ Kept = [e \in Containers |-> [j \in Interfaces |-> Kept[e][j]]]
  /\ Sealed = [e \in Containers |-> [j \in Interfaces |-> Sealed[e][j]]]
BY DEF Kept, Sealed

LEMMA MapNext ==
  /\ Kept' = [e \in Containers |-> [j \in Interfaces |-> Kept'[e][j]]]
  /\ Sealed' = [e \in Containers |-> [j \in Interfaces |-> Sealed'[e][j]]]
  /\ \A e \in Containers, j \in Interfaces :
       /\ Kept'[e][j] = Names(store'[e][j].items)
       /\ Sealed'[e][j] = store'[e][j].sealed
BY DEF Kept, Sealed, Names

(* A service that is done is one the promise lets be made. *)
LEMMA MakeStep ==
  ASSUME TypeOK, FInv, LInv, NEW p \in Providers, FinishHolder(p), Top(p).op \in Gets
  PROVE  LET c == Container(p, Top(p).iface)
             T == Head(Top(p).todo)
         IN  T \in Lifetimes!Registered(Top(p).iface) /\ Lifetimes!Make(c, Top(p).iface, T)
<1> DEFINE f == Top(p)
           i == f.iface
           T == Head(f.todo)
           c == Container(p, i)
           x == [impl |-> T, holds |-> f.held]
           l == store[c][i]
           l2 == store'[c][i]
<1>1. stack[p] # <<>> /\ f.building
  BY DEF FinishHolder
<1>2. /\ f \in Frames /\ f.held \subseteq Refs /\ i \in Interfaces /\ c \in Containers
      /\ T \in Impls /\ f.todo \in Seq(Impls) /\ f.todo # <<>>
      /\ stack[p] \in Seq(Frames) /\ f = Last(stack[p])
  BY <1>1, TopFrame DEF Top
<1>3. x \in Instances /\ x.impl = T
  BY <1>2 DEF Instances
<1>4. /\ store' = [store EXCEPT ![c][i].items = Append(@, x)]
      /\ UNCHANGED <<reg, phase, active>>
  BY DEF FinishHolder
<1>5. Lifetimes!Keeps(c, i) /\ Known(i)
  BY <1>1, Keeps
<1>6. GetOK(store, p, f)
  BY <1>1, <1>2, WorkFront DEF LInv, WorksOK
<1>7. /\ ~l.sealed
      /\ l.items = <<>> => T = MainOf(i)
      /\ T \in Elems(Creators(i))
  <2>1. T \in Elems(f.todo)
    BY <1>2, ElemsTail
  <2>2. QED
    BY <1>2, <1>6, <2>1 DEF GetOK, ListOf
<1>8. Creators(i) \in Seq(Impls) /\ Creators(i) # <<>> /\ Creators(i) = reg.creators[i]
  BY <1>2, <1>5, CollectionParts DEF Known, Creators
<1>9. T \in Lifetimes!Registered(i)
  <2>1. DOMAIN Creators(i) = 1..Len(Creators(i))
    BY <1>8
  <2>2. QED
    BY <1>7, <1>8, <2>1 DEF Elems, Lifetimes!Registered
<1>10. Lifetimes!Newest(i) = MainOf(i)
  BY <1>8 DEF Lifetimes!Newest, MainOf, Last
<1> HIDE DEF c, i, T, x
<1>11. l \in Lists /\ l.items \in Seq(Instances) /\ l2.items = Append(l.items, x)
  <2>1. l2 = [l EXCEPT !.items = Append(@, x)]
    BY <1>2, <1>4 DEF TypeOK
  <2>2. l \in Lists /\ l.items \in Seq(Instances)
    BY <1>2, ListsType
  <2>3. QED
    BY <1>3, <2>1, <2>2, ListUpdate DEF Lists
<1>12. /\ store'[c][i].items # <<>>
       /\ \A e \in Containers, j \in Interfaces :
            /\ store[e][j].items # <<>> => store'[e][j].items # <<>>
            /\ ~(e = c /\ j = i) => store'[e][j] = store[e][j]
            /\ store'[e][j].sealed = store[e][j].sealed
  BY <1>2, <1>3, <1>4, AppendGrows, Zenon
<1>13. Sealed' = Sealed
  BY <1>12 DEF Sealed
<1>14. Kept'[c][i] = Append(Kept[c][i], T)
  <2>1. Kept'[c][i] = Names(store'[c][i].items) /\ Kept[c][i] = Names(store[c][i].items)
    BY <1>2, MapNext, Mapped
  <2>2. Names(Append(store[c][i].items, x)) = Append(Names(store[c][i].items), x.impl)
    BY <1>3, <1>11, NamesAppend, Zenon
  <2>3. QED
    BY <1>3, <1>11, <2>1, <2>2
<1>15. \A e \in Containers, j \in Interfaces : ~(e = c /\ j = i) => Kept'[e][j] = Kept[e][j]
  BY <1>12, MapNext, Mapped
<1>16. Kept' = [Kept EXCEPT ![c][i] = Append(@, T)]
  <2>1. Kept' = [Kept EXCEPT ![c][i] = Kept'[c][i]]
    BY <1>2, <1>15, MapShape, MapNext, MapUpdate
  <2>2. QED
    BY <1>14, <2>1
<1>17. /\ ~Sealed[c][i]
       /\ Kept[c][i] = <<>> => T = Lifetimes!Newest(i)
  BY <1>2, <1>7, <1>10, Mapped
<1>18. Lifetimes!Make(c, i, T)
  BY <1>4, <1>5, <1>9, <1>13, <1>16, <1>17 DEF Lifetimes!Make
<1>19. QED
  BY <1>9, <1>18 DEF c, i, T

(* A list that is sealed is one the promise lets be final. *)
LEMMA CompleteStep ==
  ASSUME TypeOK, FInv, LInv, NEW p \in Providers, Return(p), Top(p).op = "getServices"
  PROVE  Lifetimes!Complete(Container(p, Top(p).iface), Top(p).iface)
<1> DEFINE f == Top(p)
           i == f.iface
           c == Container(p, i)
           l == store[c][i]
<1>1. stack[p] # <<>> /\ f.op \in Gets
  BY DEF Return, Gets
<1>2. i \in Interfaces /\ c \in Containers
  BY <1>1, TopFrame
<1>3. /\ store' = [store EXCEPT ![c][i].sealed = TRUE]
      /\ UNCHANGED <<reg, phase, active>>
  BY DEF Return
<1>4. Lifetimes!Keeps(c, i)
  BY <1>1, Keeps
<1>5. ~l.sealed /\ Elems(Creators(i)) \subseteq Made(l)
  BY WorkReturn
<1>6. Creators(i) \in Seq(Impls) /\ Creators(i) = reg.creators[i]
  BY <1>2, CollectionParts DEF Creators
<1> HIDE DEF c, i
<1>7. l.items \in Seq(Instances)
  BY <1>2, ListsType
<1>8. ASSUME NEW T \in Lifetimes!Registered(i)
      PROVE  \E k \in DOMAIN Kept[c][i] : Kept[c][i][k] = T
  <2>1. T \in Elems(Creators(i))
    BY <1>6 DEF Lifetimes!Registered, Elems
  <2>2. PICK k \in 1..Len(l.items) : l.items[k].impl = T
    BY <1>5, <2>1 DEF Made
  <2>3. k \in DOMAIN l.items
    BY <1>7, <2>2
  <2>4. Kept[c][i] = Names(l.items)
    BY <1>2, Mapped
  <2>5. QED
    BY <2>2, <2>3, <2>4 DEF Names
<1>9. /\ store'[c][i].sealed
      /\ \A e \in Containers, j \in Interfaces :
           /\ store'[e][j].items = store[e][j].items
           /\ store[e][j].sealed => store'[e][j].sealed
  BY <1>2, <1>3, SealKeeps, Zenon
<1>10. \A e \in Containers, j \in Interfaces : ~(e = c /\ j = i) => store'[e][j] = store[e][j]
  BY <1>2, <1>3 DEF TypeOK
<1>11. Kept' = Kept
  BY <1>9 DEF Kept
<1>12. Sealed' = [Sealed EXCEPT ![c][i] = TRUE]
  <2>1. \A e \in Containers, j \in Interfaces : ~(e = c /\ j = i) => Sealed'[e][j] = Sealed[e][j]
    BY <1>10, MapNext, Mapped
  <2>2. Sealed' = [Sealed EXCEPT ![c][i] = Sealed'[c][i]]
    BY <1>2, <2>1, MapShape, MapNext, MapUpdate
  <2>3. store'[c][i].sealed = TRUE
    <3>1. store'[c][i] = [store[c][i] EXCEPT !.sealed = TRUE]
      BY <1>2, <1>3 DEF TypeOK
    <3>2. store[c][i] \in Lists
      BY <1>2, ListsType
    <3>3. QED
      BY <3>1, <3>2 DEF Lists
  <2>4. Sealed'[c][i] = TRUE
    BY <1>2, <2>3, MapNext
  <2>5. QED
    BY <2>2, <2>4
<1>13. ~Sealed[c][i]
  BY <1>2, <1>5, Mapped
<1>14. Lifetimes!Complete(c, i)
  BY <1>3, <1>4, <1>8, <1>11, <1>12, <1>13 DEF Lifetimes!Complete
<1>15. QED
  BY <1>14 DEF c, i

LEMMA SameMaps ==
  ASSUME store' = store
  PROVE  Kept' = Kept /\ Sealed' = Sealed
BY DEF Kept, Sealed

LEMMA RefineInit == TypeOK /\ Init => Lifetimes!Init
<1> SUFFICES ASSUME TypeOK, Init PROVE Lifetimes!Init
  OBVIOUS
<1>1. /\ reg \in Registrations /\ active = {} /\ phase # "serving"
  BY DEF Init
<1>2. /\ Containers = Lifetimes!Containers
      /\ \A c \in Containers, i \in Interfaces :
           store[c][i].items = <<>> /\ store[c][i].sealed = FALSE
  BY DEF Init, Empty, NoList, Containers, Providers, Lifetimes!Containers
<1>3. Kept = [c \in Containers |-> [i \in Interfaces |-> <<>>]]
  <2>1. \A c \in Containers, i \in Interfaces : Kept[c][i] = <<>>
    BY <1>2, Mapped
  <2>2. QED
    BY <2>1, MapShape
<1>4. Sealed = [c \in Containers |-> [i \in Interfaces |-> FALSE]]
  BY <1>2 DEF Sealed
<1>5. QED
  BY <1>1, <1>2, <1>3, <1>4 DEF Lifetimes!Init

(* Every step of the provider is a step of the promise or none. *)
LEMMA RefineNext ==
  ASSUME TypeOK, AllExact, FInv, LInv, [Next]_vars
  PROVE  [Lifetimes!Next]_(Lifetimes!vars)
<1>1. ASSUME NEW p \in Providers, FinishHolder(p), Top(p).op \in Gets
      PROVE  Lifetimes!Next
  <2>1. /\ Container(p, Top(p).iface) \in Lifetimes!Containers
        /\ Top(p).iface \in Interfaces
    BY <1>1, Keeps, TopFrame DEF FinishHolder
  <2>2. QED
    BY <1>1, <2>1, MakeStep DEF Lifetimes!Next
<1>2. ASSUME NEW p \in Providers, Return(p), Top(p).op = "getServices"
      PROVE  Lifetimes!Next
  <2>1. /\ Container(p, Top(p).iface) \in Lifetimes!Containers
        /\ Top(p).iface \in Interfaces
    BY <1>2, Keeps, TopFrame DEF Return, Gets
  <2>2. QED
    BY <1>2, <2>1, CompleteStep DEF Lifetimes!Next
<1>3. ASSUME Serve
      PROVE  Lifetimes!Next
  <2>1. \A i \in SingletonTypes : Complete(i)
    BY <1>3 DEF Serve, FInv, Loop, InTheMaking
  <2>2. ASSUME NEW i \in Interfaces, Lifetimes!Singleton(i), Lifetimes!Registered(i) # {}
        PROVE  Sealed[Singletons][i]
    <3>1. Known(i)
      <4>1. CASE Creators(i) = <<>>
        BY <2>2, <4>1 DEF Lifetimes!Registered, Creators
      <4>2. QED
        BY <4>1 DEF Known
    <3>2. i \in SingletonTypes
      BY <2>2, <3>1 DEF SingletonTypes, Scope, Lifetimes!Singleton
    <3>3. store[Singletons][i].sealed
      BY <2>1, <3>2 DEF Complete
    <3>4. QED
      BY <3>3, Mapped DEF Containers
  <2>3. Lifetimes!Begin
    BY <1>3, <2>2, SameMaps DEF Serve, Lifetimes!Begin
  <2>4. QED
    BY <2>3 DEF Lifetimes!Next
<1>4. ASSUME Stop
      PROVE  Lifetimes!Next
  BY <1>4, SameMaps DEF Stop, Lifetimes!Next, Lifetimes!End
<1>5. ASSUME NEW r \in Requests, StartRequest(r)
      PROVE  Lifetimes!Next
  BY <1>5, SameMaps DEF StartRequest, Lifetimes!Next, Lifetimes!OpenRequest
<1>6. ASSUME NEW r \in Requests, FinishRequest(r)
      PROVE  Lifetimes!Next
  <2>1. /\ store' = [store EXCEPT ![r] = Empty] /\ r \in Containers
        /\ r \in active /\ active' = active \ {r} /\ UNCHANGED <<reg, phase>>
    BY <1>6 DEF FinishRequest, Containers, Providers
  <2>2. /\ store' \in [Containers -> [Interfaces -> Lists]]
        /\ \A e \in Containers \ {r} : store'[e] = store[e]
        /\ \A j \in Interfaces : store'[r][j].items = <<>> /\ store'[r][j].sealed = FALSE
    <3>1. Empty \in [Interfaces -> Lists]
      BY DEF Empty, NoList, Lists
    <3>2. QED
      BY <2>1, <3>1 DEF TypeOK, Empty, NoList
  <2>3. Kept' = [Kept EXCEPT ![r] = [i \in Interfaces |-> <<>>]]
    <3>1. \A e \in Containers : e # r => Kept'[e] = Kept[e]
      BY <2>2 DEF Kept
    <3>2. \A j \in Interfaces : Kept'[r][j] = <<>>
      <4>1. Names(<<>>) = <<>>
        BY DEF Names
      <4>2. QED
        BY <2>1, <2>2, <4>1, MapNext
    <3>3. Kept'[r] = [i \in Interfaces |-> <<>>]
      BY <2>1, <3>2, MapNext
    <3>4. DOMAIN Kept = Containers /\ DOMAIN Kept' = Containers
          /\ Kept = [e \in Containers |-> Kept[e]] /\ Kept' = [e \in Containers |-> Kept'[e]]
      BY DEF Kept
    <3>5. QED
      BY <2>1, <3>1, <3>3, <3>4
  <2>4. Sealed' = [Sealed EXCEPT ![r] = [i \in Interfaces |-> FALSE]]
    BY <2>1, <2>2 DEF Sealed
  <2>5. Lifetimes!CloseRequest(r)
    BY <2>1, <2>3, <2>4 DEF Lifetimes!CloseRequest
  <2>6. QED
    BY <2>5 DEF Lifetimes!Next
<1>7. ASSUME UNCHANGED <<reg, store, active>>, phase' = "serving" <=> phase = "serving"
      PROVE  UNCHANGED Lifetimes!vars
  BY <1>7, SameMaps DEF Lifetimes!vars
<1>8. ASSUME NEW p \in Providers, NEW d \in Calls, d \in Asks(p),
             Hit(p, d) \/ Absent(p, d) \/ Refuse(p, d) \/ Call(p, d)
      PROVE  UNCHANGED Lifetimes!vars
  <2>1. CASE Hit(p, d) \/ Absent(p, d) \/ Call(p, d)
    BY <1>7, <2>1 DEF Hit, Absent, Call
  <2>2. CASE Refuse(p, d)
    <3>1. /\ Taken(p, d) \in Seq(Frames) /\ Len(Taken(p, d)) = Len(stack[p])
          /\ stack[p] \in Seq(Frames)
      BY TakenFrames DEF TypeOK
    <3>2. Len(stack[p]) \in Int /\ Len(stack[p]) <= Len(Taken(p, d))
      BY <3>1
    <3>3. Raise(p, Taken(p, d), Len(stack[p]))
      BY <2>2 DEF Refuse
    <3>4. phase' = "serving" <=> phase = "serving"
      BY <3>1, <3>2, <3>3, RaiseEffect
    <3>5. QED
      BY <1>7, <2>2, <3>4 DEF Refuse
  <2>3. QED
    BY <1>8, <2>1, <2>2
<1>9. ASSUME NEW p \in Providers, Circular(p) \/ FailHolder(p)
      PROVE  UNCHANGED Lifetimes!vars
  <2>1. stack[p] \in Seq(Frames) /\ Raise(p, stack[p], Len(stack[p]) - 1)
    BY <1>9 DEF TypeOK, Circular, FailHolder
  <2>2. Len(stack[p]) - 1 \in Int /\ Len(stack[p]) - 1 <= Len(stack[p])
    BY <2>1
  <2>3. phase' = "serving" <=> phase = "serving"
    BY <2>1, <2>2, RaiseEffect
  <2>4. QED
    BY <1>7, <1>9, <2>3 DEF Circular, FailHolder
<1>10. ASSUME NEW p \in Providers,
              BeginHolder(p) \/ FinishHolder(p) \/ Return(p)
       PROVE  [Lifetimes!Next]_(Lifetimes!vars)
  <2>1. CASE BeginHolder(p)
    BY <1>7, <2>1 DEF BeginHolder
  <2>2. CASE FinishHolder(p) /\ Top(p).op \notin Gets
    BY <1>7, <2>2 DEF FinishHolder
  <2>3. CASE Return(p) /\ Top(p).op # "getServices"
    BY <1>7, <2>3 DEF Return
  <2>4. QED
    BY <1>1, <1>2, <1>10, <2>1, <2>2, <2>3
<1>11. CASE Built \/ Run
  BY <1>7, <1>11 DEF Built, Run
<1>12. CASE UNCHANGED vars
  BY <1>7, <1>12 DEF vars
<1>13. QED
  BY <1>3, <1>4, <1>5, <1>6, <1>8, <1>9, <1>10, <1>11, <1>12, Steps

(* The provider keeps the promise: where services are kept, that the       *)
(* newest comes first, that final lists are complete and stay as they are, *)
(* that the shared container is closed while requests are handled and has  *)
(* every singleton by then, and that a request's services end with it.     *)
THEOREM KeepsLifetimes == Spec => LifetimesKept
<1>1. TypeOK /\ Init => Lifetimes!Init
  BY RefineInit
<1>2. TypeOK /\ GuardExact /\ FInv /\ LInv /\ [Next]_vars => [Lifetimes!Next]_(Lifetimes!vars)
  BY GuardExactIff, RefineNext
<1>3. QED
  BY <1>1, <1>2, TypeCorrect, GuardIsExact, ListsInvariant, PTL
     DEF Spec, LifetimesKept, Lifetimes!Spec


-----------------------------------------------------------------------------
(* No service holds a dangling pointer: a pointer leads to the shared      *)
(* container or to the provider that made its holder, and the singletons   *)
(* are all made by the root, which outlives them.                          *)

(* What a service that p makes can hold, given the containers st. *)
RefsOK(st, p, H) ==
  \A h \in H :
    /\ h.container \in {Singletons, p}
    /\ IF h.iface = SelfType THEN h.container = p
       ELSE st[h.container][h.iface].items # <<>>

HeldOK(st, p, s) == \A k \in 1..Len(s) : RefsOK(st, p, s[k].held)

(* The provider that makes the services of a container. *)
Maker(c) == IF c = Singletons THEN Root ELSE c

Held  == \A p \in Providers : HeldOK(store, p, stack[p])
Owned ==
  \A c \in Containers, i \in Interfaces : \A k \in 1..Len(store[c][i].items) :
    RefsOK(store, Maker(c), store[c][i].items[k].holds)

(* A request that is not handled keeps nothing. *)
Gone == \A r \in Requests : r \notin active => \A i \in Interfaces : store[r][i].items = <<>>

PInv == Held /\ Owned /\ Gone

LEMMA RefsGrow ==
  ASSUME NEW st, NEW st2, NEW p, NEW H \in SUBSET Refs, Grows(st, st2, p), RefsOK(st, p, H)
  PROVE  RefsOK(st2, p, H)
BY DEF RefsOK, Grows, Refs

LEMMA HeldGrow ==
  ASSUME NEW st, NEW st2, NEW p, NEW s \in Seq(Frames), Grows(st, st2, p), HeldOK(st, p, s)
  PROVE  HeldOK(st2, p, s)
<1> SUFFICES ASSUME NEW k \in 1..Len(s) PROVE RefsOK(st2, p, s[k].held)
  BY DEF HeldOK
<1>1. s[k] \in Frames
  OBVIOUS
<1>2. s[k].held \in SUBSET Refs
  BY <1>1 DEF Frames
<1>3. QED
  BY <1>2, RefsGrow DEF HeldOK

LEMMA HeldTaken ==
  ASSUME TypeOK, NEW p \in Providers, NEW d \in Calls, HeldOK(store, p, stack[p])
  PROVE  HeldOK(store, p, Taken(p, d))
<1> DEFINE s == stack[p]
<1>1. s \in Seq(Frames)
  BY DEF TypeOK
<1>2. CASE s = <<>>
  BY <1>2 DEF Taken, HeldOK
<1>3. CASE s # <<>>
  <2> DEFINE n == Len(s)
             f == [s[n] EXCEPT !.args = @ \ {d}]
  <2>1. Taken(p, d) = [s EXCEPT ![n] = f]
    BY <1>3 DEF Taken
  <2>2. n \in 1..Len(s) /\ s[n] \in Frames
    BY <1>1, <1>3
  <2>3. f.held = s[n].held
    BY <2>2 DEF Frames
  <2> HIDE DEF f
  <2>4. \A k \in 1..Len(s) : [s EXCEPT ![n] = f][k].held = s[k].held
    BY <1>1, <2>2, <2>3
  <2>5. Len([s EXCEPT ![n] = f]) = Len(s)
    BY <1>1
  <2>6. QED
    BY <2>1, <2>4, <2>5 DEF HeldOK
<1>4. QED
  BY <1>2, <1>3

LEMMA HeldDeliver ==
  ASSUME NEW st, NEW p, NEW s \in Seq(Frames), NEW refs, HeldOK(st, p, s), RefsOK(st, p, refs)
  PROVE  HeldOK(st, p, Deliver(s, refs))
<1>1. CASE s = <<>>
  BY <1>1 DEF Deliver, HeldOK
<1>2. CASE s # <<>>
  <2> DEFINE n == Len(s)
             f == [s[n] EXCEPT !.held = @ \union refs]
  <2>1. Deliver(s, refs) = [s EXCEPT ![n] = f]
    BY <1>2 DEF Deliver
  <2>2. n \in 1..Len(s) /\ s[n] \in Frames
    BY <1>2
  <2>3. f.held = s[n].held \union refs
    BY <2>2 DEF Frames
  <2>4. RefsOK(st, p, f.held)
    BY <2>2, <2>3 DEF HeldOK, RefsOK
  <2> HIDE DEF f
  <2>5. Len([s EXCEPT ![n] = f]) = Len(s)
    OBVIOUS
  <2>6. \A k \in 1..Len(s) : [s EXCEPT ![n] = f][k] = IF k = n THEN f ELSE s[k]
    BY <2>2
  <2>7. QED
    BY <2>1, <2>4, <2>5, <2>6 DEF HeldOK
<1>3. QED
  BY <1>1, <1>2

LEMMA HeldPush ==
  ASSUME NEW st, NEW p, NEW s \in Seq(Frames), NEW f \in Frames,
         HeldOK(st, p, s), RefsOK(st, p, f.held)
  PROVE  HeldOK(st, p, Append(s, f))
<1>1. /\ Len(Append(s, f)) = Len(s) + 1
      /\ \A k \in 1..Len(s) : Append(s, f)[k] = s[k]
      /\ Append(s, f)[Len(s) + 1] = f
  OBVIOUS
<1>2. \A k \in 1..(Len(s) + 1) : k \in 1..Len(s) \/ k = Len(s) + 1
  OBVIOUS
<1>3. QED
  BY <1>1, <1>2 DEF HeldOK

LEMMA HeldCut ==
  ASSUME NEW st, NEW p, NEW s \in Seq(Frames), NEW k \in 0..Len(s), HeldOK(st, p, s)
  PROVE  HeldOK(st, p, SubSeq(s, 1, k))
<1>1. /\ Len(SubSeq(s, 1, k)) = k
      /\ \A j \in 1..k : SubSeq(s, 1, k)[j] = s[j]
  BY Prefix
<1>2. 1..k \subseteq 1..Len(s)
  OBVIOUS
<1>3. QED
  BY <1>1, <1>2 DEF HeldOK

LEMMA HeldFront ==
  ASSUME NEW st, NEW p, NEW s \in Seq(Frames), s # <<>>, HeldOK(st, p, s)
  PROVE  HeldOK(st, p, Front(s)) /\ RefsOK(st, p, Last(s).held)
<1>1. /\ Len(s) \in Nat /\ Len(s) >= 1 /\ Last(s) = s[Len(s)]
      /\ Len(Front(s)) = Len(s) - 1
      /\ \A k \in 1..(Len(s) - 1) : Front(s)[k] = s[k]
  BY LastFront
<1>2. 1..(Len(s) - 1) \subseteq 1..Len(s) /\ Len(s) \in 1..Len(s)
  BY <1>1
<1>3. QED
  BY <1>1, <1>2 DEF HeldOK

(* A step of p that takes no service away. *)
LEMMA HeldStep ==
  ASSUME TypeOK, Held, NEW p \in Providers, NEW s,
         stack' = [stack EXCEPT ![p] = s], HeldOK(store', p, s),
         \A q \in Providers \ {p} : Grows(store, store', q)
  PROVE  Held'
<1>1. stack'[p] = s /\ \A q \in Providers \ {p} : stack'[q] = stack[q]
  BY DEF TypeOK
<1>2. ASSUME NEW q \in Providers \ {p}
      PROVE  HeldOK(store', q, stack'[q])
  <2>1. stack[q] \in Seq(Frames) /\ HeldOK(store, q, stack[q])
    BY DEF TypeOK, Held
  <2>2. QED
    BY <1>1, <2>1, HeldGrow
<1>3. QED
  BY <1>1, <1>2 DEF Held

LEMMA MakerType ==
  ASSUME NEW c \in Containers
  PROVE  Maker(c) \in Providers
BY DEF Maker, Containers, Providers

LEMMA HoldsType ==
  ASSUME TypeOK, NEW c \in Containers, NEW i \in Interfaces, NEW k \in 1..Len(store[c][i].items)
  PROVE  store[c][i].items[k].holds \in SUBSET Refs
<1>1. store[c][i].items \in Seq(Instances)
  BY ListsType
<1>2. store[c][i].items[k] \in Instances
  BY <1>1
<1>3. QED
  BY <1>2 DEF Instances

LEMMA OwnedKeep ==
  ASSUME TypeOK, Owned,
         \A e \in Containers, j \in Interfaces : store'[e][j].items = store[e][j].items
  PROVE  Owned'
<1> SUFFICES ASSUME NEW c \in Containers, NEW i \in Interfaces,
                    NEW k \in 1..Len(store[c][i].items)
             PROVE  RefsOK(store', Maker(c), store[c][i].items[k].holds)
  BY DEF Owned, Maker
<1>1. Grows(store, store', Maker(c))
  BY MakerType DEF Grows, Containers
<1>2. RefsOK(store, Maker(c), store[c][i].items[k].holds)
  BY DEF Owned
<1>3. QED
  BY <1>1, <1>2, HoldsType, RefsGrow

LEMMA GoneKeep ==
  ASSUME Gone, active' = active,
         \A e \in Containers, j \in Interfaces : store'[e][j].items = store[e][j].items
  PROVE  Gone'
BY DEF Gone, Containers, Providers

(* Steps that write no list. *)
LEMMA PQuiet ==
  ASSUME TypeOK, PInv, NEW p \in Providers, NEW s,
         store' = store, active' = active, stack' = [stack EXCEPT ![p] = s],
         HeldOK(store, p, s)
  PROVE  PInv'
<1>1. \A q \in Providers : Grows(store, store', q)
  BY DEF Grows
<1>2. HeldOK(store', p, s)
  OBVIOUS
<1>3. Held'
  BY <1>1, <1>2, HeldStep DEF PInv
<1>4. Owned' /\ Gone'
  BY OwnedKeep, GoneKeep DEF PInv
<1>5. QED
  BY <1>3, <1>4 DEF PInv

LEMMA PRaise ==
  ASSUME TypeOK, PInv, NEW p \in Providers, NEW s \in Seq(Frames),
         NEW n \in Int, n <= Len(s), Raise(p, s, n), HeldOK(store, p, s),
         store' = store, active' = active
  PROVE  PInv'
<1>1. PICK k \in 0..Len(s) : stack' = [stack EXCEPT ![p] = SubSeq(s, 1, k)]
  BY RaiseEffect
<1>2. HeldOK(store, p, SubSeq(s, 1, k))
  BY HeldCut
<1>3. QED
  BY <1>1, <1>2, PQuiet

(* What a cached answer points to is there. *)
LEMMA FoundOK ==
  ASSUME TypeOK, FInv, NEW p \in Providers, NEW d \in Calls, Cached(p, d)
  PROVE  RefsOK(store, p, {Found(p, d)})
<1>1. d.iface \in Interfaces
  BY DEF Calls
<1>2. ~Listed(Singletons, d) \/ d.iface # SelfType
  <2>1. ~Known(SelfType) /\ SelfType \in Interfaces
    BY CollectionParts, ContainersDistinct DEF Known
  <2>2. store[Singletons][SelfType].items = <<>>
    BY <2>1 DEF FInv, Placed, Containers
  <2>3. QED
    BY <2>2 DEF Listed
<1>3. CASE Listed(Singletons, d)
  BY <1>2, <1>3 DEF RefsOK, Found, Listed
<1>4. CASE ~Listed(Singletons, d)
  <2>1. d.iface # SelfType => Listed(p, d)
    BY <1>4 DEF Cached
  <2>2. QED
    BY <1>4, <2>1 DEF RefsOK, Found, Listed
<1>5. QED
  BY <1>3, <1>4

LEMMA PResolve ==
  ASSUME TypeOK, FInv, PInv, NEW p \in Providers, NEW d \in Calls,
         Hit(p, d) \/ Absent(p, d) \/ Refuse(p, d) \/ Call(p, d)
  PROVE  PInv'
<1>1. /\ Taken(p, d) \in Seq(Frames) /\ stack[p] \in Seq(Frames)
      /\ Len(Taken(p, d)) = Len(stack[p])
      /\ HeldOK(store, p, Taken(p, d))
  BY TakenFrames, HeldTaken DEF TypeOK, PInv, Held
<1>2. store' = store /\ active' = active
  BY DEF Hit, Absent, Refuse, Call
<1>3. CASE Hit(p, d)
  <2>1. stack' = [stack EXCEPT ![p] = Deliver(Taken(p, d), {Found(p, d)})] /\ Cached(p, d)
    BY <1>3 DEF Hit
  <2>2. RefsOK(store, p, {Found(p, d)})
    BY <2>1, FoundOK
  <2>3. HeldOK(store, p, Deliver(Taken(p, d), {Found(p, d)}))
    BY <1>1, <2>2, HeldDeliver
  <2>4. QED
    BY <1>2, <2>1, <2>3, PQuiet
<1>4. CASE Absent(p, d)
  BY <1>1, <1>2, <1>4, PQuiet DEF Absent
<1>5. CASE Refuse(p, d)
  <2>1. Raise(p, Taken(p, d), Len(stack[p]))
    BY <1>5 DEF Refuse
  <2>2. Len(stack[p]) \in Int /\ Len(stack[p]) <= Len(Taken(p, d))
    BY <1>1
  <2>3. QED
    BY <1>1, <1>2, <2>1, <2>2, PRaise
<1>6. CASE Call(p, d)
  <2>1. stack' = [stack EXCEPT ![p] = Append(Taken(p, d), NewFrame(p, d))]
    BY <1>6 DEF Call
  <2>2. NewFrame(p, d) \in Frames
    BY <1>6, NewFrameType DEF Call
  <2>3. RefsOK(store, p, NewFrame(p, d).held)
    BY DEF NewFrame, RefsOK
  <2>4. HeldOK(store, p, Append(Taken(p, d), NewFrame(p, d)))
    BY <1>1, <2>2, <2>3, HeldPush
  <2>5. QED
    BY <1>2, <2>1, <2>4, PQuiet
<1>7. QED
  BY <1>3, <1>4, <1>5, <1>6

LEMMA PBegin ==
  ASSUME TypeOK, PInv, NEW p \in Providers, BeginHolder(p)
  PROVE  PInv'
<1> DEFINE s == stack[p]
           f == Top(p)
           T == Head(f.todo)
           g == [f EXCEPT !.building = TRUE, !.args = reg.deps[T],
                          !.held = IF f.op \in Gets THEN {} ELSE @]
<1>1. s # <<>> /\ f.todo # <<>>
  BY DEF BeginHolder, ReadyToBuild
<1>2. /\ s \in Seq(Frames) /\ Front(s) \in Seq(Frames) /\ f \in Frames /\ f = Last(s)
      /\ T \in Impls /\ f.held \subseteq Refs
  BY <1>1, TopFrame DEF Top
<1>3. reg.deps[T] \in SUBSET Calls
  BY <1>2, CollectionParts
<1>4. g \in Frames /\ g.held \subseteq f.held
  BY <1>1, <1>2, <1>3 DEF Frames
<1>5. /\ stack' = [stack EXCEPT ![p] = Append(Front(s), g)]
      /\ store' = store /\ active' = active
  BY DEF BeginHolder, TypeOK
<1> HIDE DEF g
<1>6. HeldOK(store, p, Front(s)) /\ RefsOK(store, p, f.held)
  BY <1>1, <1>2, HeldFront DEF PInv, Held
<1>7. RefsOK(store, p, g.held)
  BY <1>4, <1>6 DEF RefsOK
<1>8. HeldOK(store, p, Append(Front(s), g))
  BY <1>2, <1>4, <1>6, <1>7, HeldPush
<1>9. QED
  BY <1>5, <1>8, PQuiet

LEMMA PThrow ==
  ASSUME TypeOK, PInv, NEW p \in Providers, Circular(p) \/ FailHolder(p)
  PROVE  PInv'
<1>1. /\ Raise(p, stack[p], Len(stack[p]) - 1)
      /\ store' = store /\ active' = active
  BY DEF Circular, FailHolder
<1>2. stack[p] \in Seq(Frames) /\ HeldOK(store, p, stack[p])
  BY DEF TypeOK, PInv, Held
<1>3. Len(stack[p]) - 1 \in Int /\ Len(stack[p]) - 1 <= Len(stack[p])
  BY <1>2
<1>4. QED
  BY <1>1, <1>2, <1>3, PRaise

(* A service is stored where its pointers may lead: only the root makes    *)
(* singletons.                                                             *)
LEMMA PFinish ==
  ASSUME TypeOK, FInv, PInv, NEW p \in Providers, FinishHolder(p)
  PROVE  PInv'
<1> DEFINE s == stack[p]
           f == Top(p)
           i == f.iface
           c == Container(p, i)
           x == [impl |-> Head(f.todo), holds |-> f.held]
           g == [f EXCEPT !.building = FALSE, !.todo = Tail(@)]
<1>1. s # <<>> /\ f.building
  BY DEF FinishHolder
<1>2. /\ f \in Frames /\ f.held \subseteq Refs /\ i \in Interfaces /\ c \in Containers
      /\ Head(f.todo) \in Impls /\ Tail(f.todo) \in Seq(Impls)
      /\ s \in Seq(Frames) /\ Front(s) \in Seq(Frames) /\ f = Last(s)
  BY <1>1, TopFrame DEF Top
<1>3. x \in Instances /\ x.holds = f.held
  BY <1>2 DEF Instances
<1>4. g \in Frames /\ g.held = f.held
  BY <1>1, <1>2 DEF Frames
<1>5. /\ stack' = [stack EXCEPT ![p] = Append(Front(s), g)]
      /\ active' = active
      /\ store' = IF f.op \in Gets THEN [store EXCEPT ![c][i].items = Append(@, x)] ELSE store
  BY DEF FinishHolder, TypeOK
<1>6. HeldOK(store, p, Front(s)) /\ RefsOK(store, p, f.held)
  BY <1>1, <1>2, HeldFront DEF PInv, Held
<1>7. FrameOK(store, p, f)
  BY <1>1, <1>2, StackFront DEF FInv, FramesOK
<1> HIDE DEF g, x
<1>8. HeldOK(store, p, Append(Front(s), g))
  BY <1>2, <1>4, <1>6, HeldPush
<1>9. CASE f.op \notin Gets
  BY <1>5, <1>8, <1>9, PQuiet
<1>10. CASE f.op \in Gets
  <2>1. Maker(c) = p /\ (p \in Requests => p \in active)
    <3>1. p \in Requests => Scope(i) = "scoped"
      BY <1>7, <1>10 DEF FrameOK
    <3>2. c = Singletons => p = Root
      <4>1. c = Singletons => Scope(i) = "singleton"
        BY ContainersDistinct DEF Container
      <4>2. QED
        BY <3>1, <4>1 DEF Providers
    <3>3. c # Singletons => c = p
      BY DEF Container
    <3>4. p \in Requests => p \in active
      BY <1>1 DEF FInv, Idle
    <3>5. QED
      BY <3>2, <3>3, <3>4 DEF Maker
  <2> HIDE DEF c, i
  <2>2. store' = [store EXCEPT ![c][i].items = Append(@, x)]
    BY <1>5, <1>10
  <2>3. /\ store'[c][i].items # <<>>
        /\ \A e \in Containers, j \in Interfaces :
             /\ store[e][j].items # <<>> => store'[e][j].items # <<>>
             /\ ~(e = c /\ j = i) => store'[e][j] = store[e][j]
             /\ store'[e][j].sealed = store[e][j].sealed
    BY <1>2, <1>3, <2>2, AppendGrows, Zenon
  <2>4. \A q \in Providers : Grows(store, store', q)
    BY <2>3 DEF Grows, Containers
  <2>5. Held'
    <3>1. Append(Front(s), g) \in Seq(Frames)
      BY <1>2, <1>4
    <3>2. HeldOK(store', p, Append(Front(s), g))
      BY <1>8, <2>4, <3>1, HeldGrow
    <3>3. QED
      BY <1>5, <2>4, <3>2, HeldStep DEF PInv
  <2>6. store[c][i].items \in Seq(Instances) /\ store'[c][i].items = Append(store[c][i].items, x)
    <3>1. store'[c][i] = [store[c][i] EXCEPT !.items = Append(@, x)]
      BY <1>2, <2>2 DEF TypeOK
    <3>2. store[c][i] \in Lists /\ store[c][i].items \in Seq(Instances)
      BY <1>2, ListsType
    <3>3. QED
      BY <3>1, <3>2 DEF Lists
  <2>7. RefsOK(store', p, x.holds)
    BY <1>2, <1>3, <1>6, <2>4, RefsGrow
  <2>8. ASSUME NEW e \in Containers, NEW j \in Interfaces,
               NEW k \in 1..Len(store[e][j].items)
        PROVE  RefsOK(store', Maker(e), store[e][j].items[k].holds)
    <3>1. RefsOK(store, Maker(e), store[e][j].items[k].holds)
      BY DEF PInv, Owned
    <3>2. Grows(store, store', Maker(e))
      BY <2>4, MakerType
    <3>3. QED
      BY <3>1, <3>2, HoldsType, RefsGrow
  <2>9. ASSUME NEW k \in 1..Len(store'[c][i].items)
        PROVE  RefsOK(store', Maker(c), store'[c][i].items[k].holds)
    <3> DEFINE n == Len(store[c][i].items)
    <3>1. /\ n \in Nat /\ Len(store'[c][i].items) = n + 1
          /\ store'[c][i].items[n + 1] = x
          /\ \A m \in 1..n : store'[c][i].items[m] = store[c][i].items[m]
      BY <1>3, <2>6
    <3>2. k \in 1..n \/ k = n + 1
      BY <3>1
    <3>3. CASE k \in 1..n
      BY <1>2, <2>8, <3>1, <3>3
    <3>4. CASE k = n + 1
      BY <2>1, <2>7, <3>1, <3>4
    <3>5. QED
      BY <3>2, <3>3, <3>4
  <2>10. ASSUME NEW e \in Containers, NEW j \in Interfaces,
                NEW k \in 1..Len(store'[e][j].items)
         PROVE  RefsOK(store', Maker(e), store'[e][j].items[k].holds)
    <3>1. CASE e = c /\ j = i
      BY <2>9, <3>1
    <3>2. CASE ~(e = c /\ j = i)
      BY <2>3, <2>8, <3>2
    <3>3. QED
      BY <3>1, <3>2
  <2>11. Owned'
    BY <2>10 DEF Owned, Maker
  <2>12. Gone'
    <3>1. \A r \in Requests : r \notin active => r # c
      <4>1. c \in Requests => c = p
        BY <2>1, ContainersDistinct DEF Maker, Providers
      <4>2. QED
        BY <2>1, <4>1
    <3>2. QED
      BY <1>5, <2>3, <3>1 DEF PInv, Gone, Containers, Providers
  <2>13. QED
    BY <2>5, <2>11, <2>12 DEF PInv
<1>11. QED
  BY <1>9, <1>10

LEMMA PReturn ==
  ASSUME TypeOK, FInv, PInv, NEW p \in Providers, Return(p)
  PROVE  PInv'
<1> DEFINE s == stack[p]
           f == Top(p)
           i == f.iface
           c == Container(p, i)
           refs == IF f.op \in Gets THEN {[container |-> c, iface |-> i]} ELSE f.held
<1>1. s # <<>> /\ f.todo = <<>>
  BY DEF Return
<1>2. /\ f.held \subseteq Refs /\ i \in Interfaces /\ c \in Containers
      /\ s \in Seq(Frames) /\ f = Last(s) /\ Front(s) \in Seq(Frames)
  BY <1>1, TopFrame DEF Top
<1>3. HeldOK(store, p, Front(s)) /\ RefsOK(store, p, f.held)
  BY <1>1, <1>2, HeldFront DEF PInv, Held
<1>4. FrameOK(store, p, f)
  BY <1>1, <1>2, StackFront DEF FInv, FramesOK
<1>5. RefsOK(store, p, refs)
  <2>1. CASE f.op \in Gets
    <3>1. store[c][i].items # <<>> /\ Known(i)
      BY <1>1, <1>4, <2>1 DEF FrameOK
    <3>2. i # SelfType
      BY <3>1, CollectionParts DEF Known
    <3>3. c \in {Singletons, p}
      BY DEF Container
    <3>4. refs = {[container |-> c, iface |-> i]}
      BY <2>1
    <3> HIDE DEF refs, c, i
    <3>5. QED
      BY <3>1, <3>2, <3>3, <3>4 DEF RefsOK
  <2>2. CASE f.op \notin Gets
    BY <1>3, <2>2
  <2>3. QED
    BY <2>1, <2>2
<1>6. /\ stack' = [stack EXCEPT ![p] = Deliver(Front(s), refs)]
      /\ active' = active
      /\ store' = IF f.op = "getServices" THEN [store EXCEPT ![c][i].sealed = TRUE] ELSE store
  BY DEF Return, TypeOK
<1>7. refs \in SUBSET Refs
  BY <1>2 DEF Refs
<1> HIDE DEF refs
<1>8. HeldOK(store, p, Deliver(Front(s), refs)) /\ Deliver(Front(s), refs) \in Seq(Frames)
  BY <1>2, <1>3, <1>5, <1>7, HeldDeliver, DeliverFrames
<1>9. \A e \in Containers, j \in Interfaces : store'[e][j].items = store[e][j].items
  <2> HIDE DEF c, i
  <2>1. CASE f.op = "getServices"
    BY <1>2, <1>6, <2>1, SealKeeps
  <2>2. QED
    BY <1>6, <2>1
<1>10. \A q \in Providers : Grows(store, store', q)
  BY <1>9 DEF Grows, Containers
<1>11. HeldOK(store', p, Deliver(Front(s), refs))
  BY <1>8, <1>10, HeldGrow
<1>12. Held'
  BY <1>6, <1>10, <1>11, HeldStep DEF PInv
<1>13. QED
  BY <1>6, <1>9, <1>12, OwnedKeep, GoneKeep DEF PInv

(* A request's services end with it; nobody else points to them. *)
LEMMA PFinishRequest ==
  ASSUME TypeOK, PInv, NEW r \in Requests, FinishRequest(r)
  PROVE  PInv'
<1>1. /\ stack' = stack /\ stack[r] = <<>> /\ active' = active \ {r}
      /\ store' = [store EXCEPT ![r] = Empty]
      /\ r \in Providers /\ r \in Containers /\ r # Singletons /\ r # Root
  BY ContainersDistinct DEF FinishRequest, Providers, Containers
<1>2. /\ \A e \in Containers \ {r} : store'[e] = store[e]
      /\ \A j \in Interfaces : store'[r][j].items = <<>>
  BY <1>1 DEF TypeOK, Empty, NoList
<1>3. \A q \in Providers \ {r} : Grows(store, store', q)
  BY <1>1, <1>2 DEF Grows, Containers
<1>4. Held'
  <2>1. stack' = [stack EXCEPT ![r] = <<>>]
    BY <1>1 DEF TypeOK
  <2>2. HeldOK(store', r, <<>>)
    BY DEF HeldOK
  <2>3. QED
    BY <1>1, <1>3, <2>1, <2>2, HeldStep DEF PInv
<1>5. Owned'
  <2>1. ASSUME NEW e \in Containers, NEW j \in Interfaces,
               NEW k \in 1..Len(store'[e][j].items)
        PROVE  RefsOK(store', Maker(e), store'[e][j].items[k].holds)
    <3>1. e # r
      <4>1. CASE e = r
        <5>1. Len(store'[e][j].items) = 0
          BY <1>2, <4>1
        <5>2. QED
          BY <5>1
      <4>2. QED
        BY <4>1
    <3>2. store'[e] = store[e] /\ k \in 1..Len(store[e][j].items)
      BY <1>2, <3>1
    <3>3. Maker(e) \in Providers \ {r}
      BY <1>1, <3>1, MakerType DEF Maker
    <3>4. RefsOK(store, Maker(e), store[e][j].items[k].holds)
      BY <3>2 DEF PInv, Owned
    <3>5. store[e][j].items[k].holds \in SUBSET Refs
      BY <3>2, HoldsType
    <3>6. QED
      BY <1>3, <3>2, <3>3, <3>4, <3>5, RefsGrow
  <2>2. QED
    BY <2>1 DEF Owned, Maker
<1>6. Gone'
  BY <1>1, <1>2 DEF PInv, Gone, Containers, Providers
<1>7. QED
  BY <1>4, <1>5, <1>6 DEF PInv

LEMMA PApplication ==
  ASSUME TypeOK, PInv,
         \/ Built \/ Run \/ Serve \/ Stop
         \/ \E r \in Requests : StartRequest(r) \/ FinishRequest(r)
         \/ UNCHANGED vars
  PROVE  PInv'
<1>1. CASE UNCHANGED <<store, stack, active>>
  <2>1. Root \in Providers
    BY DEF Providers
  <2>2. stack' = [stack EXCEPT ![Root] = stack[Root]]
    BY <1>1, <2>1 DEF TypeOK
  <2>3. HeldOK(store, Root, stack[Root])
    BY <2>1 DEF PInv, Held
  <2>4. QED
    BY <1>1, <2>1, <2>2, <2>3, PQuiet
<1>2. ASSUME NEW r \in Requests, StartRequest(r)
      PROVE  PInv'
  <2>1. UNCHANGED <<store, stack>> /\ active' = active \union {r}
    BY <1>2 DEF StartRequest
  <2>2. Held' /\ Owned'
    BY <2>1 DEF PInv, Held, Owned, HeldOK, RefsOK
  <2>3. Gone'
    BY <2>1 DEF PInv, Gone
  <2>4. QED
    BY <2>2, <2>3 DEF PInv
<1>3. QED
  BY <1>1, <1>2, PFinishRequest DEF Built, Run, Serve, Stop, vars

LEMMA PInvInit == Init => PInv
<1> SUFFICES ASSUME Init PROVE PInv
  OBVIOUS
<1>1. \A c \in Containers, i \in Interfaces : store[c][i].items = <<>>
  BY DEF Init, Empty, NoList
<1>2. \A c \in Containers, i \in Interfaces : 1..Len(store[c][i].items) = {}
  BY <1>1
<1>3. Owned
  BY <1>2 DEF Owned
<1>4. Held
  BY DEF Init, Held, HeldOK
<1>5. Gone
  BY <1>1 DEF Gone, Containers, Providers
<1>6. QED
  BY <1>3, <1>4, <1>5 DEF PInv

LEMMA PInvNext ==
  ASSUME TypeOK, FInv, PInv, [Next]_vars
  PROVE  PInv'
BY Steps, PResolve, PBegin, PThrow, PFinish, PReturn, PApplication

LEMMA PointersLive ==
  ASSUME TypeOK, FInv, PInv
  PROVE  NoDanglingPointer
<1>1. ASSUME NEW p \in Providers, p \in active \union {Root}, NEW H, RefsOK(store, p, H)
      PROVE  \A h \in H : Live(h)
  BY <1>1 DEF RefsOK, Live
<1>2. ASSUME NEW c \in Containers, NEW i \in Interfaces, NEW k \in DOMAIN store[c][i].items
      PROVE  \A h \in store[c][i].items[k].holds : Live(h)
  <2>1. store[c][i].items \in Seq(Instances)
    BY ListsType
  <2>2. k \in 1..Len(store[c][i].items) /\ store[c][i].items # <<>>
    BY <2>1
  <2>3. RefsOK(store, Maker(c), store[c][i].items[k].holds)
    BY <2>2 DEF PInv, Owned
  <2>4. Maker(c) \in active \union {Root}
    BY <2>2 DEF PInv, Gone, Maker, Containers, Providers
  <2>5. QED
    BY <1>1, <2>3, <2>4, MakerType
<1>3. ASSUME NEW p \in Providers, NEW k \in DOMAIN stack[p]
      PROVE  \A h \in stack[p][k].held : Live(h)
  <2>1. stack[p] \in Seq(Frames)
    BY DEF TypeOK
  <2>2. k \in 1..Len(stack[p]) /\ stack[p] # <<>>
    BY <2>1
  <2>3. RefsOK(store, p, stack[p][k].held)
    BY <2>2 DEF PInv, Held, HeldOK
  <2>4. p \in active \union {Root}
    BY <2>2 DEF FInv, Idle, Providers
  <2>5. QED
    BY <1>1, <2>3, <2>4
<1>4. QED
  BY <1>2, <1>3 DEF NoDanglingPointer

(* No service, finished or under construction, holds a dangling pointer:   *)
(* what it holds is kept for as long as it is.                             *)
THEOREM NothingDangles == Spec => []NoDanglingPointer
<1>1. Init => FInv /\ PInv
  BY FInvInit, PInvInit
<1>2. TypeOK /\ FInv /\ PInv /\ [Next]_vars => (FInv /\ PInv)'
  BY FInvNext, PInvNext
<1>3. TypeOK /\ FInv /\ PInv => NoDanglingPointer
  BY PointersLive
<1>4. QED
  BY <1>1, <1>2, <1>3, TypeCorrect, PTL DEF Spec

-----------------------------------------------------------------------------
(* No service is made twice. What a list's only call has still to make is  *)
(* not in the list, and a list that no call is for and that is not sealed  *)
(* has the main service at most. Nothing is claimed of a list with several *)
(* calls: the inner ones end in an exception (Nested).                     *)

FramesFor(s, i) == {k \in 1..Len(s) : s[k].op \in Gets /\ s[k].iface = i}

Single(s, i) == \A j, k \in FramesFor(s, i) : j = k

OnlyMain(S, i) == \A T \in S : T = MainOf(i)

Fresh(l, f) ==
  /\ IsInjective(f.todo)
  /\ \A T \in Elems(f.todo) : T \notin Made(l)
  /\ f.op # "getServices" => OnlyMain(Made(l) \union Elems(f.todo), f.iface)

OnceList(l, s, i) ==
  Single(s, i) =>
    /\ OneEach(l)
    /\ FramesFor(s, i) = {} /\ ~l.sealed => OnlyMain(Made(l), i)
    /\ \A k \in FramesFor(s, i) : Fresh(l, s[k])

(* The lists that p may write. *)
Writes(p, i) == p = Root \/ Scope(i) # "singleton"

OnceOK(st, p, s) == \A i \in Interfaces : Writes(p, i) => OnceList(ListOf(st, p, i), s, i)

OnceInv == \A p \in Providers : thrown[p] = 0 => OnceOK(store, p, stack[p])

(* Sequences without repetition. *)
LEMMA InjectiveTail ==
  ASSUME NEW S, NEW s \in Seq(S), s # <<>>, IsInjective(s)
  PROVE  IsInjective(Tail(s)) /\ Head(s) \notin Elems(Tail(s))
<1>1. /\ Len(s) \in Nat /\ Len(s) >= 1 /\ DOMAIN s = 1..Len(s) /\ Head(s) = s[1]
      /\ Tail(s) \in Seq(S) /\ Len(Tail(s)) = Len(s) - 1
      /\ DOMAIN Tail(s) = 1..(Len(s) - 1)
      /\ \A k \in 1..(Len(s) - 1) : Tail(s)[k] = s[k + 1]
  OBVIOUS
<1>2. \A k \in 1..(Len(s) - 1) : k + 1 \in 1..Len(s) /\ k + 1 # 1
  BY <1>1
<1>3. \A j, k \in 1..(Len(s) - 1) : j + 1 = k + 1 => j = k
  BY <1>1
<1>4. \A j, k \in 1..Len(s) : s[j] = s[k] => j = k
  BY <1>1 DEF IsInjective
<1>5. ASSUME NEW j \in 1..(Len(s) - 1), NEW k \in 1..(Len(s) - 1), Tail(s)[j] = Tail(s)[k]
      PROVE  j = k
  <2>1. s[j + 1] = s[k + 1] /\ j + 1 \in 1..Len(s) /\ k + 1 \in 1..Len(s)
    BY <1>1, <1>2, <1>5
  <2>2. j + 1 = k + 1
    BY <1>4, <2>1
  <2>3. QED
    BY <1>3, <2>2
<1>6. 1 \in 1..Len(s)
  BY <1>1
<1>7. \A k \in 1..(Len(s) - 1) : Tail(s)[k] # s[1]
  BY <1>1, <1>2, <1>4, <1>6
<1>8. QED
  BY <1>1, <1>5, <1>7 DEF IsInjective, Elems

LEMMA InjectiveReverse ==
  ASSUME NEW S, NEW s \in Seq(S), IsInjective(s)
  PROVE  IsInjective(Reverse(s))
<1> DEFINE t == Reverse(s)
<1>1. Len(s) \in Nat /\ DOMAIN s = 1..Len(s) /\ DOMAIN t = 1..Len(s)
  BY DEF Reverse
<1>2. \A k \in 1..Len(s) : t[k] = s[Len(s) - k + 1]
  BY <1>1 DEF Reverse
<1>3. \A k \in 1..Len(s) : Len(s) - k + 1 \in 1..Len(s)
  BY <1>1
<1>4. \A j, k \in 1..Len(s) : Len(s) - j + 1 = Len(s) - k + 1 => j = k
  BY <1>1
<1> HIDE DEF t
<1>5. ASSUME NEW j \in 1..Len(s), NEW k \in 1..Len(s), t[j] = t[k]
      PROVE  j = k
  <2>1. Len(s) - j + 1 \in DOMAIN s /\ Len(s) - k + 1 \in DOMAIN s
    BY <1>1, <1>3
  <2>2. s[Len(s) - j + 1] = s[Len(s) - k + 1]
    BY <1>2, <1>5
  <2>3. Len(s) - j + 1 = Len(s) - k + 1
    BY <2>1, <2>2 DEF IsInjective
  <2>4. QED
    BY <1>4, <2>3
<1>6. QED
  BY <1>1, <1>5 DEF IsInjective, t

LEMMA OneInjective ==
  ASSUME NEW x
  PROVE  IsInjective(<<x>>)
BY DEF IsInjective

(* A list grows by a service of an implementation that it lacks. *)
LEMMA OneEachAppend ==
  ASSUME NEW l \in Lists, NEW x \in Instances, NEW m \in Lists, m.items = Append(l.items, x),
         OneEach(l), x.impl \notin Made(l)
  PROVE  OneEach(m)
<1> DEFINE n == Len(l.items)
<1>1. l.items \in Seq(Instances) /\ n \in Nat /\ DOMAIN l.items = 1..n
  BY DEF Lists
<1>2. /\ DOMAIN m.items = 1..(n + 1) /\ m.items[n + 1] = x
      /\ \A k \in 1..n : m.items[k] = l.items[k]
  BY <1>1
<1>3. \A k \in 1..(n + 1) : k \in 1..n \/ k = n + 1
  BY <1>1
<1>4. \A k \in 1..n : m.items[k].impl # x.impl
  BY <1>2 DEF Made
<1>5. \A j, k \in 1..n : m.items[j].impl = m.items[k].impl => j = k
  BY <1>1, <1>2 DEF OneEach
<1> HIDE DEF n
<1>6. ASSUME NEW j \in 1..(n + 1), NEW k \in 1..(n + 1), m.items[j].impl = m.items[k].impl
      PROVE  j = k
  <2>1. CASE j \in 1..n /\ k \in 1..n
    BY <1>5, <1>6, <2>1
  <2>2. CASE j = n + 1 /\ k \in 1..n
    BY <1>2, <1>4, <1>6, <2>2
  <2>3. CASE j \in 1..n /\ k = n + 1
    BY <1>2, <1>4, <1>6, <2>3
  <2>4. QED
    BY <1>3, <2>1, <2>2, <2>3
<1>7. QED
  BY <1>2, <1>6 DEF OneEach

(* The calls for the list of i are the same in both stacks. *)
SameGets(s, t, i) ==
  /\ FramesFor(s, i) = FramesFor(t, i)
  /\ \A k \in FramesFor(s, i) :
       s[k].todo = t[k].todo /\ s[k].op = t[k].op /\ s[k].iface = t[k].iface

LEMMA OnceSame ==
  ASSUME NEW l, NEW s, NEW t, NEW i, SameGets(s, t, i), OnceList(l, s, i)
  PROVE  OnceList(l, t, i)
BY DEF SameGets, OnceList, Single, Fresh

LEMMA SameWorkGets ==
  ASSUME NEW s, NEW t, NEW i, SameWork(s, t)
  PROVE  SameGets(s, t, i)
<1>1. FramesFor(s, i) = FramesFor(t, i)
  BY DEF SameWork, FramesFor
<1>2. QED
  BY <1>1 DEF SameWork, SameGets, FramesFor

LEMMA OnceWork ==
  ASSUME NEW st, NEW p, NEW s, NEW t, SameWork(s, t), OnceOK(st, p, s)
  PROVE  OnceOK(st, p, t)
BY SameWorkGets, OnceSame DEF OnceOK

(* A step of p: the other providers' lists stay as they are. *)
LEMMA OnceStep ==
  ASSUME TypeOK, OnceInv, reg' = reg, NEW p \in Providers, NEW s,
         stack' = [stack EXCEPT ![p] = s],
         thrown'[p] = 0 => OnceOK(store', p, s),
         \A q \in Providers \ {p} :
           /\ thrown'[q] = thrown[q]
           /\ \A i \in Interfaces : Writes(q, i) => ListOf(store', q, i) = ListOf(store, q, i)
  PROVE  OnceInv'
<1>1. stack'[p] = s /\ \A q \in Providers \ {p} : stack'[q] = stack[q]
  BY DEF TypeOK
<1>2. \A q \in Providers : thrown'[q] = 0 => OnceOK(store', q, stack'[q])
  BY <1>1 DEF OnceInv, OnceOK
<1>3. /\ \A q, i : Writes(q, i)' <=> Writes(q, i)
      /\ \A q, i : ListOf(store, q, i)' = ListOf(store', q, i)
      /\ \A i : MainOf(i)' = MainOf(i)
  BY DEF Writes, Scope, ListOf, Container, MainOf, Creators
<1>4. ASSUME NEW q \in Providers, thrown'[q] = 0, NEW i \in Interfaces, Writes(q, i)'
      PROVE  OnceList(ListOf(store, q, i), stack[q], i)'
  <2>1. OnceList(ListOf(store', q, i), stack'[q], i)
    BY <1>2, <1>3, <1>4 DEF OnceOK
  <2>2. /\ Single(stack[q], i)' <=> Single(stack'[q], i)
        /\ FramesFor(stack[q], i)' = FramesFor(stack'[q], i)
        /\ OneEach(ListOf(store, q, i))' <=> OneEach(ListOf(store', q, i))
        /\ ListOf(store, q, i).sealed' = ListOf(store', q, i).sealed
    BY <1>3 DEF Single, FramesFor, OneEach
  <2>3. OnlyMain(Made(ListOf(store, q, i)), i)' <=> OnlyMain(Made(ListOf(store', q, i)), i)
    BY <1>3 DEF OnlyMain, Made
  <2>4. ASSUME NEW k
        PROVE  Fresh(ListOf(store, q, i), stack[q][k])' <=> Fresh(ListOf(store', q, i), stack'[q][k])
    <3>1. Made(ListOf(store, q, i))' = Made(ListOf(store', q, i))
      BY <1>3 DEF Made
    <3>2. /\ Elems(stack[q][k].todo)' = Elems(stack'[q][k].todo)
          /\ IsInjective(stack[q][k].todo)' <=> IsInjective(stack'[q][k].todo)
      BY DEF Elems, IsInjective
    <3>3. OnlyMain(Made(ListOf(store, q, i)) \union Elems(stack[q][k].todo), stack[q][k].iface)'
            <=> OnlyMain(Made(ListOf(store', q, i)) \union Elems(stack'[q][k].todo), stack'[q][k].iface)
      BY <1>3, <3>1, <3>2 DEF OnlyMain
    <3>4. QED
      BY <3>1, <3>2, <3>3 DEF Fresh
  <2>5. QED
    BY <2>1, <2>2, <2>3, <2>4 DEF OnceList
<1>5. QED
  BY <1>4 DEF OnceInv, OnceOK

(* Steps that write no list and do not throw. *)
LEMMA OnceQuiet ==
  ASSUME TypeOK, OnceInv, NEW p \in Providers, NEW s,
         reg' = reg, store' = store, thrown' = thrown, stack' = [stack EXCEPT ![p] = s],
         OnceOK(store, p, stack[p]) => OnceOK(store, p, s)
  PROVE  OnceInv'
BY OnceStep DEF OnceInv

LEMMA OnceRaise ==
  ASSUME TypeOK, OnceInv, NEW p \in Providers, NEW s \in Seq(Frames),
         NEW n \in Int, n <= Len(s), Raise(p, s, n), reg' = reg, store' = store
  PROVE  OnceInv'
<1>1. PICK k \in 0..Len(s) : stack' = [stack EXCEPT ![p] = SubSeq(s, 1, k)]
  BY RaiseEffect
<1>2. thrown' = [thrown EXCEPT ![p] = @ + 1] /\ thrown \in [Providers -> Nat]
  BY DEF Raise, TypeOK
<1>3. thrown'[p] # 0 /\ \A q \in Providers \ {p} : thrown'[q] = thrown[q]
  BY <1>2
<1>4. QED
  BY <1>1, <1>3, OnceStep

(* A call of p that writes a list writes one that no other provider does.  *)
LEMMA OthersWrite ==
  ASSUME TypeOK, FInv, NEW p \in Providers, stack[p] # <<>>, Top(p).op \in Gets,
         NEW c, c = Container(p, Top(p).iface),
         \A e \in Containers, j \in Interfaces :
           ~(e = c /\ j = Top(p).iface) => store'[e][j] = store[e][j]
  PROVE  /\ Writes(p, Top(p).iface)
         /\ \A q \in Providers \ {p}, i \in Interfaces :
              Writes(q, i) => ListOf(store', q, i) = ListOf(store, q, i)
<1> DEFINE i == Top(p).iface
<1>1. /\ stack[p] \in Seq(Frames) /\ i \in Interfaces /\ StackOK(store, p, stack[p])
      /\ Top(p) = Last(stack[p])
  BY TopFrame DEF Top, FInv, FramesOK
<1>2. FrameOK(store, p, Top(p))
  BY <1>1, StackFront
<1>3. p \in Requests => Scope(i) = "scoped"
  BY <1>2 DEF FrameOK
<1>4. Writes(p, i)
  BY <1>3 DEF Writes, Providers
<1>5. ASSUME NEW q \in Providers \ {p}, NEW j \in Interfaces, Writes(q, j)
      PROVE  ListOf(store', q, j) = ListOf(store, q, j)
  <2>1. Container(q, j) \in Containers
    BY DEF Container, Containers
  <2>2. CASE c = Singletons
    <3>1. Scope(i) = "singleton"
      BY <2>2, ContainersDistinct DEF Container
    <3>2. q # Root
      BY <1>3, <3>1 DEF Providers
    <3>3. Container(q, j) = q /\ q # Singletons
      BY <1>5, <3>2, ContainersDistinct DEF Writes, Container
    <3>4. QED
      BY <2>1, <2>2, <3>3 DEF ListOf
  <2>3. CASE c = p
    <3>1. Container(q, j) # p
      BY ContainersDistinct DEF Container
    <3>2. QED
      BY <2>1, <2>3, <3>1 DEF ListOf
  <2>4. QED
    BY <2>2, <2>3 DEF Container
<1>6. QED
  BY <1>4, <1>5

(* A new call makes what the list lacks.                                   *)
LEMMA FreshCall ==
  ASSUME TypeOK, ListsOK, NEW p \in Providers, NEW d \in Calls, Call(p, d), d.op \in Gets,
         LET l == ListOf(store, p, d.iface)
         IN  ~l.sealed => OnlyMain(Made(l), d.iface)
  PROVE  Fresh(ListOf(store, p, d.iface), NewFrame(p, d))
<1> DEFINE i == d.iface
           f == NewFrame(p, d)
           l == ListOf(store, p, i)
           N == NewestFirst(i)
<1>1. /\ i \in Interfaces /\ Known(i) /\ ~Cached(p, d)
      /\ f.op = d.op /\ f.iface = i /\ f.todo = CreatorsFor(p, d)
  BY DEF Call, Calls, NewFrame
<1>2. GetOK(store, p, f)
  BY NewGet
<1>3. /\ N \in Seq(Impls) /\ N # <<>> /\ Head(N) = MainOf(i) /\ IsInjective(N)
  <2>1. Creators(i) \in Seq(Impls) /\ IsInjective(Creators(i))
    BY <1>1, CollectionParts, CollectionsAssumption DEF Creators, TypeOK
  <2>2. IsInjective(N)
    BY <2>1, InjectiveReverse DEF NewestFirst
  <2>3. QED
    BY <1>1, <2>2, Newest
<1>4. IsInjective(Tail(N)) /\ MainOf(i) \notin Elems(Tail(N))
  BY <1>3, InjectiveTail
<1>5. Container(p, i) \in {Singletons, p} /\ Container(p, i) \in Containers
  BY DEF Container, Containers
<1>6. l.items # <<>> => d.op = "getServices" /\ ~l.sealed
  BY <1>1, <1>2, <1>5 DEF Cached, Listed, ListOf, GetOK
<1>7. l.items = <<>> => Made(l) = {}
  BY DEF Made
<1> HIDE DEF f, l, N
<1>8. CASE l.items = <<>> /\ d.op \in {"getService", "getRequiredService"}
  <2>1. f.todo = <<MainOf(i)>>
    BY <1>1, <1>8 DEF CreatorsFor
  <2>2. Elems(f.todo) = {MainOf(i)} /\ IsInjective(f.todo)
    BY <2>1, OneElem, OneInjective
  <2>3. Made(l) = {}
    BY <1>7, <1>8
  <2>4. QED
    BY <1>1, <2>2, <2>3 DEF Fresh, OnlyMain, f, l
<1>9. CASE l.items = <<>> /\ d.op = "getServices"
  <2>1. f.todo = N
    BY <1>1, <1>9 DEF CreatorsFor, l, ListOf, N
  <2>2. Made(l) = {}
    BY <1>7, <1>9
  <2>3. QED
    BY <1>1, <1>3, <1>9, <2>1, <2>2 DEF Fresh, f, l
<1>10. CASE l.items # <<>>
  <2>1. f.todo = Tail(N) /\ d.op = "getServices"
    BY <1>1, <1>6, <1>10 DEF CreatorsFor, l, ListOf, N
  <2>2. \A T \in Made(l) : T = MainOf(i)
    BY <1>6, <1>10 DEF OnlyMain, l
  <2>3. QED
    BY <1>1, <1>4, <2>1, <2>2 DEF Fresh, f, l
<1>11. QED
  BY <1>8, <1>9, <1>10 DEF Gets

LEMMA OncePush ==
  ASSUME TypeOK, LInv, NEW p \in Providers, NEW d \in Calls, Call(p, d),
         OnceOK(store, p, stack[p])
  PROVE  OnceOK(store, p, Append(Taken(p, d), NewFrame(p, d)))
<1> DEFINE s == Taken(p, d)
           f == NewFrame(p, d)
           t == Append(s, f)
<1>1. s \in Seq(Frames) /\ SameWork(stack[p], s) /\ Len(s) \in Nat
  <2>1. s \in Seq(Frames) /\ SameBuild(s, stack[p]) /\ Len(s) = Len(stack[p])
    BY TakenFrames
  <2>2. QED
    BY <2>1 DEF SameBuild, SameWork
<1>2. OnceOK(store, p, s)
  BY <1>1, OnceWork
<1>3. f \in Frames /\ f.op = d.op /\ f.iface = d.iface
  BY NewFrameType DEF Call, NewFrame
<1> HIDE DEF s, f
<1>4. /\ Len(t) = Len(s) + 1 /\ t[Len(s) + 1] = f
      /\ \A k \in 1..Len(s) : t[k] = s[k]
  BY <1>1, <1>3
<1> HIDE DEF t
<1>5. 1..Len(t) = 1..Len(s) \union {Len(s) + 1} /\ Len(s) + 1 \notin 1..Len(s)
  BY <1>1, <1>4
<1> SUFFICES ASSUME NEW i \in Interfaces, Writes(p, i)
             PROVE  OnceList(ListOf(store, p, i), t, i)
  BY DEF OnceOK, t, s, f
<1>6. OnceList(ListOf(store, p, i), s, i)
  BY <1>2 DEF OnceOK
<1>7. CASE ~(f.op \in Gets /\ f.iface = i)
  <2>1. FramesFor(t, i) = FramesFor(s, i)
    BY <1>4, <1>5, <1>7 DEF FramesFor
  <2>2. SameGets(s, t, i)
    BY <1>4, <2>1 DEF SameGets, FramesFor
  <2>3. QED
    BY <1>6, <2>2, OnceSame
<1>8. CASE f.op \in Gets /\ f.iface = i
  <2>1. FramesFor(t, i) = FramesFor(s, i) \union {Len(s) + 1}
    BY <1>4, <1>5, <1>8 DEF FramesFor
  <2>2. SUFFICES ASSUME Single(t, i)
                 PROVE  OnceList(ListOf(store, p, i), t, i)
    BY DEF OnceList
  <2>3. FramesFor(s, i) = {}
    <3>1. FramesFor(s, i) \subseteq 1..Len(s)
      BY DEF FramesFor
    <3>2. QED
      BY <1>5, <2>1, <2>2, <3>1 DEF Single
  <2>4. Single(s, i)
    BY <2>3 DEF Single
  <2>5. /\ OneEach(ListOf(store, p, i))
        /\ ~ListOf(store, p, i).sealed => OnlyMain(Made(ListOf(store, p, i)), i)
    BY <1>6, <2>3, <2>4 DEF OnceList
  <2>6. Fresh(ListOf(store, p, i), f)
    BY <1>3, <1>8, <2>5, FreshCall DEF LInv, f
  <2>7. QED
    BY <1>4, <2>1, <2>3, <2>5, <2>6 DEF OnceList
<1>9. QED
  BY <1>7, <1>8

LEMMA OnceResolve ==
  ASSUME TypeOK, LInv, OnceInv, NEW p \in Providers, NEW d \in Calls,
         Hit(p, d) \/ Absent(p, d) \/ Refuse(p, d) \/ Call(p, d)
  PROVE  OnceInv'
<1>1. /\ Taken(p, d) \in Seq(Frames) /\ stack[p] \in Seq(Frames)
      /\ Len(Taken(p, d)) = Len(stack[p])
      /\ SameBuild(Taken(p, d), stack[p]) /\ SameWork(stack[p], Taken(p, d))
  BY TakenFrames DEF TypeOK, SameBuild, SameWork
<1>2. reg' = reg /\ store' = store
  BY DEF Hit, Absent, Refuse, Call
<1>3. CASE Hit(p, d)
  <2> DEFINE refs == {Found(p, d)}
  <2>1. refs \in SUBSET Refs
    BY DEF Found, Refs, Containers, Calls
  <2>2. stack' = [stack EXCEPT ![p] = Deliver(Taken(p, d), refs)] /\ thrown' = thrown
    BY <1>3 DEF Hit
  <2> HIDE DEF refs
  <2>3. SameBuild(Deliver(Taken(p, d), refs), Taken(p, d))
    BY <1>1, <2>1, DeliverFrames
  <2>4. SameWork(stack[p], Deliver(Taken(p, d), refs))
    BY <1>1, <2>3 DEF SameBuild, SameWork
  <2>5. QED
    BY <1>2, <2>2, <2>4, OnceWork, OnceQuiet
<1>4. CASE Absent(p, d)
  BY <1>1, <1>2, <1>4, OnceWork, OnceQuiet DEF Absent
<1>5. CASE Refuse(p, d)
  <2>1. Raise(p, Taken(p, d), Len(stack[p]))
    BY <1>5 DEF Refuse
  <2>2. Len(stack[p]) \in Int /\ Len(stack[p]) <= Len(Taken(p, d))
    BY <1>1
  <2>3. QED
    BY <1>1, <1>2, <2>1, <2>2, OnceRaise
<1>6. CASE Call(p, d)
  <2>1. stack' = [stack EXCEPT ![p] = Append(Taken(p, d), NewFrame(p, d))] /\ thrown' = thrown
    BY <1>6 DEF Call
  <2>2. QED
    BY <1>2, <1>6, <2>1, OncePush, OnceQuiet
<1>7. QED
  BY <1>3, <1>4, <1>5, <1>6

LEMMA OnceThrow ==
  ASSUME TypeOK, OnceInv, NEW p \in Providers, Circular(p) \/ FailHolder(p)
  PROVE  OnceInv'
<1>1. /\ Raise(p, stack[p], Len(stack[p]) - 1)
      /\ reg' = reg /\ store' = store
  BY DEF Circular, FailHolder
<1>2. stack[p] \in Seq(Frames)
  BY DEF TypeOK
<1>3. Len(stack[p]) - 1 \in Int /\ Len(stack[p]) - 1 <= Len(stack[p])
  BY <1>2
<1>4. QED
  BY <1>1, <1>2, <1>3, OnceRaise

LEMMA OnceBegin ==
  ASSUME TypeOK, OnceInv, NEW p \in Providers, BeginHolder(p)
  PROVE  OnceInv'
<1> DEFINE s == stack[p]
           f == Top(p)
           T == Head(f.todo)
           g == [f EXCEPT !.building = TRUE, !.args = reg.deps[T],
                          !.held = IF f.op \in Gets THEN {} ELSE @]
           t == Append(Front(s), g)
<1>1. s # <<>> /\ f.todo # <<>> /\ ~f.building
  BY DEF BeginHolder, ReadyToBuild
<1>2. /\ s \in Seq(Frames) /\ f \in Frames /\ f = s[Len(s)]
      /\ Len(s) \in Nat \ {0} /\ T \in Impls /\ f.held \subseteq Refs
  BY <1>1, TopFrame
<1>3. reg.deps[T] \in SUBSET Calls
  BY <1>2, CollectionParts
<1>4. g \in Frames /\ g.todo = f.todo /\ g.op = f.op /\ g.iface = f.iface
  BY <1>1, <1>2, <1>3 DEF Frames
<1>5. /\ stack' = [stack EXCEPT ![p] = t] /\ reg' = reg /\ store' = store
      /\ thrown' = thrown
  BY DEF BeginHolder, TypeOK
<1> HIDE DEF g
<1>6. /\ Len(t) = Len(s) /\ t[Len(s)] = g
      /\ \A k \in 1..(Len(s) - 1) : t[k] = s[k]
  BY <1>1, <1>2, <1>4, ReplaceTop
<1> HIDE DEF t
<1>7. SameWork(s, t)
  <2>1. \A k \in 1..Len(s) : k = Len(s) \/ k \in 1..(Len(s) - 1)
    BY <1>2
  <2>2. QED
    BY <1>2, <1>4, <1>6, <2>1 DEF SameWork
<1>8. QED
  BY <1>5, <1>7, OnceWork, OnceQuiet

(* The list's only call adds a service that the list lacked. *)
LEMMA OnceGrows ==
  ASSUME NEW l \in Lists, NEW m \in Lists, NEW f \in Frames, NEW g \in Frames, NEW x \in Instances,
         f.todo # <<>>, x.impl = Head(f.todo), m.items = Append(l.items, x),
         g.todo = Tail(f.todo), g.op = f.op, g.iface = f.iface,
         OneEach(l), Fresh(l, f)
  PROVE  OneEach(m) /\ Fresh(m, g)
<1>1. f.todo \in Seq(Impls) /\ IsInjective(f.todo)
  BY DEF Frames, Fresh
<1>2. /\ IsInjective(g.todo) /\ x.impl \notin Elems(g.todo)
      /\ Elems(f.todo) = {x.impl} \union Elems(g.todo)
  BY <1>1, InjectiveTail, ElemsTail
<1>3. Made(m) = Made(l) \union {x.impl}
  BY MadeAppend
<1>4. x.impl \notin Made(l)
  BY <1>2 DEF Fresh
<1>5. OneEach(m)
  BY <1>4, OneEachAppend
<1>6. Made(m) \union Elems(g.todo) = Made(l) \union Elems(f.todo)
  BY <1>2, <1>3
<1>7. QED
  BY <1>2, <1>3, <1>5, <1>6 DEF Fresh

LEMMA OnceFinish ==
  ASSUME TypeOK, FInv, LInv, AllExact, OnceInv, NEW p \in Providers, FinishHolder(p)
  PROVE  OnceInv'
<1> DEFINE s == stack[p]
           f == Top(p)
           n == Len(s)
           T == Head(f.todo)
           c == Container(p, f.iface)
           x == [impl |-> T, holds |-> f.held]
           g == [f EXCEPT !.building = FALSE, !.todo = Tail(@)]
           t == Append(Front(s), g)
           l == store[c][f.iface]
           m == store'[c][f.iface]
<1>1. s # <<>> /\ f.building /\ reg' = reg /\ thrown' = thrown
  BY DEF FinishHolder
<1>2. /\ f \in Frames /\ f.iface \in Interfaces /\ f.held \subseteq Refs /\ T \in Impls
      /\ s \in Seq(Frames) /\ n \in Nat \ {0} /\ Tail(f.todo) \in Seq(Impls)
      /\ f = s[n] /\ f.todo # <<>> /\ c \in Containers
  BY <1>1, TopFrame
<1>3. stack' = [stack EXCEPT ![p] = t]
  BY DEF FinishHolder, TypeOK
<1>4. g \in Frames /\ g.op = f.op /\ g.iface = f.iface /\ g.todo = Tail(f.todo)
  BY <1>2 DEF Frames
<1>5. x \in Instances /\ x.impl = T
  BY <1>2 DEF Instances
<1>6. f.op \in Gets => m = [l EXCEPT !.items = Append(@, x)]
  BY <1>2 DEF FinishHolder, TypeOK
<1>7. f.op \notin Gets => store' = store
  BY DEF FinishHolder
<1> HIDE DEF g, x
<1>8. /\ Len(t) = n /\ t[n] = g
      /\ \A k \in 1..(n - 1) : t[k] = s[k]
  BY <1>1, <1>2, <1>4, ReplaceTop
<1> HIDE DEF t
<1>9. \A k \in 1..n : k = n \/ k \in 1..(n - 1)
  BY <1>2
<1>10. \A i : FramesFor(t, i) = FramesFor(s, i)
  BY <1>2, <1>4, <1>8, <1>9 DEF FramesFor
<1>11. \A i : ~(f.op \in Gets /\ f.iface = i) => SameGets(s, t, i)
  <2>1. ASSUME NEW i, ~(f.op \in Gets /\ f.iface = i), NEW k \in FramesFor(s, i)
        PROVE  s[k] = t[k]
    <3>1. k \in 1..n /\ k # n
      BY <1>2, <2>1 DEF FramesFor
    <3>2. QED
      BY <1>8, <1>9, <3>1
  <2>2. QED
    BY <1>10, <2>1 DEF SameGets
<1>12. CASE f.op \in Gets
  <2>1. \A e \in Containers, j \in Interfaces :
          ~(e = c /\ j = f.iface) => store'[e][j] = store[e][j]
    BY <1>12, WorkFinish
  <2>2. /\ Writes(p, f.iface)
        /\ \A q \in Providers \ {p}, i \in Interfaces :
             Writes(q, i) => ListOf(store', q, i) = ListOf(store, q, i)
    BY <1>1, <1>12, <2>1, OthersWrite
  <2>3. ASSUME OnceOK(store, p, s), NEW i \in Interfaces, Writes(p, i)
        PROVE  OnceList(ListOf(store', p, i), t, i)
    <3>1. OnceList(ListOf(store, p, i), s, i)
      BY <2>3 DEF OnceOK
    <3>2. CASE i # f.iface
      <4>1. Container(p, i) \in Containers
        BY DEF Container, Containers
      <4>2. ListOf(store', p, i) = ListOf(store, p, i)
        BY <2>1, <3>2, <4>1 DEF ListOf
      <4>3. QED
        BY <1>11, <3>1, <3>2, <4>2, OnceSame
    <3>3. CASE i = f.iface
      <4>1. n \in FramesFor(s, i)
        BY <1>2, <1>12, <3>3 DEF FramesFor
      <4>2. SUFFICES ASSUME Single(t, i)
                     PROVE  OnceList(ListOf(store', p, i), t, i)
        BY DEF OnceList
      <4>3. Single(s, i) /\ FramesFor(s, i) = {n}
        BY <1>10, <4>1, <4>2 DEF Single
      <4>4. ListOf(store, p, i) = l /\ ListOf(store', p, i) = m
        BY <3>3 DEF ListOf
      <4>5. OneEach(l) /\ Fresh(l, f)
        BY <1>2, <3>1, <4>3, <4>4 DEF OnceList
      <4>6. l \in Lists /\ m \in Lists /\ m.items = Append(l.items, x)
        <5>1. l \in Lists
          BY <1>2, ListsType
        <5>2. [l EXCEPT !.items = Append(@, x)] \in Lists
          BY <1>5, <5>1, ListUpdate
        <5>3. QED
          BY <1>6, <1>12, <5>1, <5>2 DEF Lists
      <4> HIDE DEF l, m
      <4>7. OneEach(m) /\ Fresh(m, g)
        BY <1>2, <1>4, <1>5, <4>5, <4>6, OnceGrows
      <4>8. QED
        BY <1>8, <1>10, <4>3, <4>4, <4>7 DEF OnceList
    <3>4. QED
      BY <3>2, <3>3
  <2>4. thrown'[p] = 0 => OnceOK(store', p, t)
    BY <1>1, <2>3 DEF OnceInv, OnceOK
  <2>5. QED
    BY <1>1, <1>3, <2>2, <2>4, OnceStep
<1>13. CASE f.op \notin Gets
  <2>1. OnceOK(store, p, s) => OnceOK(store, p, t)
    BY <1>11, <1>13, OnceSame DEF OnceOK
  <2>2. QED
    BY <1>1, <1>3, <1>7, <1>13, <2>1, OnceQuiet
<1>14. QED
  BY <1>12, <1>13

LEMMA OnceReturn ==
  ASSUME TypeOK, FInv, LInv, OnceInv, NEW p \in Providers, Return(p)
  PROVE  OnceInv'
<1> DEFINE s == stack[p]
           f == Top(p)
           n == Len(s)
           c == Container(p, f.iface)
           refs == IF f.op \in Gets THEN {[container |-> c, iface |-> f.iface]} ELSE f.held
           u == Front(s)
           t == Deliver(u, refs)
<1>1. s # <<>> /\ f.todo = <<>> /\ reg' = reg /\ thrown' = thrown
  BY DEF Return
<1>2. /\ f \in Frames /\ f.iface \in Interfaces /\ f.held \subseteq Refs
      /\ s \in Seq(Frames) /\ u \in Seq(Frames) /\ n \in Nat \ {0} /\ f = s[n]
      /\ c \in Containers
  BY <1>1, TopFrame
<1>3. stack' = [stack EXCEPT ![p] = t]
  BY DEF Return, TypeOK
<1>4. refs \in SUBSET Refs
  BY <1>2 DEF Refs
<1> HIDE DEF refs
<1>5. SameWork(u, t)
  BY <1>2, <1>4, DeliverFrames DEF SameBuild, SameWork
<1> HIDE DEF t
<1>6. Len(u) = n - 1 /\ \A k \in 1..(n - 1) : u[k] = s[k]
  BY <1>1, <1>2, LastFront
<1> HIDE DEF u
<1>7. 1..n = 1..(n - 1) \union {n} /\ n \notin 1..(n - 1) /\ \A k \in 1..(n - 1) : k < n
  BY <1>2
<1>8. \A i : FramesFor(u, i) = FramesFor(s, i) \ {n}
  BY <1>6, <1>7 DEF FramesFor
<1>9. ASSUME NEW i, ~(f.op \in Gets /\ f.iface = i)
      PROVE  SameGets(s, u, i)
  <2>1. n \notin FramesFor(s, i)
    BY <1>2, <1>9 DEF FramesFor
  <2>2. FramesFor(u, i) = FramesFor(s, i) /\ FramesFor(s, i) \subseteq 1..(n - 1)
    BY <1>7, <1>8, <2>1 DEF FramesFor
  <2>3. QED
    BY <1>6, <2>2 DEF SameGets
<1>10. CASE f.op \notin Gets
  <2>1. store' = store
    BY <1>10 DEF Return, Gets
  <2>2. OnceOK(store, p, s) => OnceOK(store, p, u)
    BY <1>9, <1>10, OnceSame DEF OnceOK
  <2>3. QED
    BY <1>1, <1>3, <1>5, <2>1, <2>2, OnceWork, OnceQuiet
<1>11. CASE f.op \in Gets
  <2> DEFINE l == store[c][f.iface]
             m == store'[c][f.iface]
  <2>1. /\ store' = IF f.op = "getServices"
                    THEN [store EXCEPT ![c][f.iface].sealed = TRUE] ELSE store
    BY DEF Return
  <2>2. /\ l \in Lists /\ m.items = l.items
        /\ f.op = "getServices" => m.sealed
        /\ f.op # "getServices" => m = l
    <3>1. l \in Lists
      BY <1>2, ListsType
    <3>2. CASE f.op = "getServices"
      <4>1. m = [l EXCEPT !.sealed = TRUE]
        BY <1>2, <2>1, <3>2 DEF TypeOK
      <4>2. QED
        BY <3>1, <3>2, <4>1 DEF Lists
    <3>3. CASE f.op # "getServices"
      BY <2>1, <3>1, <3>3
    <3>4. QED
      BY <3>2, <3>3
  <2>3. \A e \in Containers, j \in Interfaces :
          ~(e = c /\ j = f.iface) => store'[e][j] = store[e][j]
    <3>1. CASE f.op = "getServices"
      BY <3>1, WorkReturn
    <3>2. CASE f.op # "getServices"
      BY <2>1, <3>2
    <3>3. QED
      BY <3>1, <3>2
  <2>4. /\ Writes(p, f.iface)
        /\ \A q \in Providers \ {p}, i \in Interfaces :
             Writes(q, i) => ListOf(store', q, i) = ListOf(store, q, i)
    BY <1>1, <1>11, <2>3, OthersWrite
  <2>5. FramesFor(s, f.iface) = {n}
    <3>1. Nested(s)
      BY DEF LInv, WorksOK, WorkOK
    <3>2. ASSUME NEW k \in FramesFor(s, f.iface), k # n
          PROVE  FALSE
      <4>1. k \in 1..n /\ n \in 1..n /\ k < n /\ s[k].op \in Gets /\ s[k].iface = f.iface
        BY <1>7, <3>2 DEF FramesFor
      <4>2. Head(s[k].todo) \in Elems(s[n].todo)
        BY <1>2, <1>11, <3>1, <4>1 DEF Nested
      <4>3. QED
        BY <1>1, <1>2, <4>2, NoElem
    <3>3. n \in FramesFor(s, f.iface)
      BY <1>2, <1>7, <1>11 DEF FramesFor
    <3>4. QED
      BY <3>2, <3>3
  <2>6. ASSUME OnceOK(store, p, s), NEW i \in Interfaces, Writes(p, i)
        PROVE  OnceList(ListOf(store', p, i), u, i)
    <3>1. OnceList(ListOf(store, p, i), s, i)
      BY <2>6 DEF OnceOK
    <3>2. CASE i # f.iface
      <4>1. Container(p, i) \in Containers
        BY DEF Container, Containers
      <4>2. ListOf(store', p, i) = ListOf(store, p, i)
        BY <2>3, <3>2, <4>1 DEF ListOf
      <4>3. QED
        BY <1>9, <3>1, <3>2, <4>2, OnceSame
    <3>3. CASE i = f.iface
      <4>1. Single(s, i) /\ FramesFor(u, i) = {}
        BY <1>8, <2>5, <3>3 DEF Single
      <4>2. ListOf(store, p, i) = l /\ ListOf(store', p, i) = m
        BY <3>3 DEF ListOf
      <4>3. OneEach(l) /\ Fresh(l, f)
        BY <1>2, <2>5, <3>1, <3>3, <4>1, <4>2 DEF OnceList
      <4>4. OneEach(m)
        BY <2>2, <4>3 DEF OneEach
      <4>5. ~m.sealed => OnlyMain(Made(m), i)
        BY <2>2, <3>3, <4>3 DEF Fresh, OnlyMain
      <4>6. QED
        BY <4>1, <4>2, <4>4, <4>5 DEF OnceList
    <3>4. QED
      BY <3>2, <3>3
  <2>7. OnceOK(store, p, s) => OnceOK(store', p, u)
    BY <2>6 DEF OnceOK
  <2>8. thrown'[p] = 0 => OnceOK(store', p, t)
    BY <1>1, <1>5, <2>7, OnceWork DEF OnceInv
  <2>9. QED
    BY <1>1, <1>3, <2>4, <2>8, OnceStep
<1>12. QED
  BY <1>10, <1>11

LEMMA OnceApplication ==
  ASSUME TypeOK, OnceInv,
         \/ Built \/ Run \/ Serve \/ Stop
         \/ \E r \in Requests : StartRequest(r) \/ FinishRequest(r)
         \/ UNCHANGED vars
  PROVE  OnceInv'
<1>1. reg' = reg /\ stack' = stack
  BY DEF Built, Run, Serve, Stop, StartRequest, FinishRequest, vars
<1>2. CASE store' = store /\ thrown' = thrown
  <2>1. Root \in Providers /\ stack' = [stack EXCEPT ![Root] = stack[Root]]
    BY <1>1 DEF Providers, TypeOK
  <2>2. QED
    BY <1>1, <1>2, <2>1, OnceQuiet
<1>3. ASSUME NEW r \in Requests, FinishRequest(r)
      PROVE  OnceInv'
  <2>1. /\ stack[r] = <<>> /\ store' = [store EXCEPT ![r] = Empty]
        /\ thrown' = [thrown EXCEPT ![r] = 0]
        /\ r \in Providers /\ r \in Containers /\ r # Singletons /\ r # Root
    BY <1>3, ContainersDistinct DEF FinishRequest, Providers, Containers
  <2>2. /\ \A e \in Containers \ {r} : store'[e] = store[e]
        /\ store'[r] = Empty
        /\ \A q \in Providers \ {r} : thrown'[q] = thrown[q]
    BY <2>1 DEF TypeOK
  <2>3. \A q \in Providers \ {r}, i \in Interfaces : ListOf(store', q, i) = ListOf(store, q, i)
    <3>1. \A q \in Providers \ {r}, i \in Interfaces : Container(q, i) \in Containers \ {r}
      BY <2>1 DEF Container, Containers
    <3>2. QED
      BY <2>2, <3>1 DEF ListOf
  <2>4. OnceOK(store', r, <<>>)
    <3>1. SUFFICES ASSUME NEW i \in Interfaces, Writes(r, i)
                   PROVE  OnceList(ListOf(store', r, i), <<>>, i)
      BY DEF OnceOK
    <3>2. ListOf(store', r, i) = NoList
      BY <2>1, <2>2, <3>1 DEF ListOf, Container, Writes, Empty
    <3>3. OneEach(NoList) /\ Made(NoList) = {} /\ FramesFor(<<>>, i) = {}
      BY DEF OneEach, Made, NoList, FramesFor
    <3>4. QED
      BY <3>2, <3>3 DEF OnceList, OnlyMain
  <2>5. stack' = [stack EXCEPT ![r] = <<>>]
    BY <1>1, <2>1 DEF TypeOK
  <2>6. \A q \in Providers \ {r} :
          /\ thrown'[q] = thrown[q]
          /\ \A i \in Interfaces : Writes(q, i) => ListOf(store', q, i) = ListOf(store, q, i)
    BY <2>2, <2>3
  <2>7. reg' = reg /\ r \in Providers
    BY <1>1, <2>1
  <2> DEFINE none == <<>>
  <2>8. stack' = [stack EXCEPT ![r] = none] /\ OnceOK(store', r, none)
    BY <2>4, <2>5
  <2> HIDE DEF none
  <2>9. QED
    BY <2>6, <2>7, <2>8, OnceStep
<1>4. QED
  BY <1>2, <1>3 DEF Built, Run, Serve, Stop, StartRequest, vars

LEMMA OnceInit == Init => OnceInv
<1> SUFFICES ASSUME Init, NEW p \in Providers, NEW i \in Interfaces
             PROVE  OnceList(ListOf(store, p, i), stack[p], i)
  BY DEF OnceInv, OnceOK
<1>1. ListOf(store, p, i) = NoList /\ stack[p] = <<>>
  <2>1. Container(p, i) \in Containers
    BY DEF Container, Containers
  <2>2. QED
    BY <2>1 DEF Init, ListOf, Empty
<1>2. OneEach(NoList) /\ Made(NoList) = {} /\ FramesFor(<<>>, i) = {}
  BY DEF OneEach, Made, NoList, FramesFor
<1>3. QED
  BY <1>1, <1>2 DEF OnceList, OnlyMain

LEMMA OnceNext ==
  ASSUME TypeOK, AllExact, FInv, LInv, OnceInv, [Next]_vars
  PROVE  OnceInv'
BY Steps, OnceResolve, OnceBegin, OnceThrow, OnceFinish, OnceReturn, OnceApplication

(* While no call of a provider has thrown, caught or not, no list that the *)
(* provider makes has two services of one implementation, however its      *)
(* getService and getServices of one interface are nested.                 *)
THEOREM MadeOnce == Spec => []OneEachUnlessThrown
<1>1. TypeOK /\ FInv /\ OnceInv => OneEachUnlessThrown
  <2> SUFFICES ASSUME TypeOK, FInv, OnceInv, NEW p \in Providers, stack[p] = <<>>, thrown[p] = 0,
                      NEW i \in Interfaces
               PROVE  OneEach(store[p][i]) /\ (p = Root => OneEach(store[Singletons][i]))
    BY DEF OneEachUnlessThrown
  <2>1. Writes(p, i) => OneEach(ListOf(store, p, i))
    <3>1. Single(<<>>, i)
      BY DEF Single, FramesFor
    <3>2. QED
      BY <3>1 DEF OnceInv, OnceOK, OnceList
  <2>2. \A c \in Containers : store[c][i].items = <<>> => OneEach(store[c][i])
    BY DEF OneEach
  <2>3. p \in Containers /\ Singletons \in Containers /\ p # Singletons
    BY ContainersDistinct DEF Containers
  <2>4. CASE Scope(i) = "singleton"
    <3>1. store[p][i].items = <<>>
      BY <2>3, <2>4 DEF FInv, Placed
    <3>2. QED
      BY <2>1, <2>2, <2>3, <2>4, <3>1 DEF Writes, ListOf, Container
  <2>5. CASE Scope(i) # "singleton"
    <3>1. store[Singletons][i].items = <<>>
      BY <2>3, <2>5 DEF FInv, Placed
    <3>2. QED
      BY <2>1, <2>2, <2>3, <2>5, <3>1 DEF Writes, ListOf, Container
  <2>6. QED
    BY <2>4, <2>5
<1>2. TypeOK /\ GuardExact /\ FInv /\ LInv /\ OnceInv /\ [Next]_vars => OnceInv'
  BY GuardExactIff, OnceNext
<1>3. QED
  BY <1>1, <1>2, OnceInit, ListsInvariant, TypeCorrect, GuardIsExact, PTL DEF Spec

-----------------------------------------------------------------------------
(* The depth of the recursion.                                             *)

(* However services ask for each other, through any number of scopes and   *)
(* calls, and whatever factories catch: the calls of one provider nest no  *)
(* deeper than there are implementations, and one more for the call that   *)
(* the guard is about to end.                                              *)
DepthBounded ==
  \A p \in Providers : Len(stack[p]) <= Cardinality(Impls) + 1

(* Each frame but the topmost constructs an implementation of its own.     *)
LEMMA DepthOfOne ==
  ASSUME IsFiniteSet(Impls), NEW s \in Seq(Frames), NEW g \in SUBSET Impls,
         Below(s), Exact(s, g)
  PROVE  Len(s) <= Cardinality(Impls) + 1
<1> DEFINE n == Len(s)
           D == 1..(n - 1)
           f == [k \in D |-> Head(s[k].todo)]
<1>1. n \in Nat /\ n - 1 \in Int
  OBVIOUS
<1>2. \A k \in D : k \in Building(s)
  BY <1>1 DEF Below, Building
<1>3. \A k \in D : f[k] \in Impls
  BY <1>2 DEF Exact
<1>4. \A j, k \in D : f[j] = f[k] => j = k
  BY <1>2 DEF Exact
<1>5. f \in Injection(D, Impls)
  BY <1>3, <1>4 DEF Injection, IsInjective
<1>6. Cardinality(D) <= Cardinality(Impls)
  BY <1>5, FS_Injection
<1>7. /\ IsFiniteSet(1..(n - 1))
      /\ Cardinality(1..(n - 1)) = IF 1 > n - 1 THEN 0 ELSE n - 1 - 1 + 1
  BY <1>1, FS_Interval
<1>8. Cardinality(Impls) \in Nat
  BY FS_CardinalityType
<1>9. QED
  BY <1>1, <1>6, <1>7, <1>8

(* Constructors recurse through the provider, and a collection may have    *)
(* any cycles: the recursion is bounded all the same.                      *)
THEOREM RecursionBounded ==
  ASSUME IsFiniteSet(Impls)
  PROVE  Spec => []DepthBounded
<1>1. TypeOK /\ GuardExact /\ LInv => DepthBounded
  <2> SUFFICES ASSUME TypeOK, GuardExact, LInv, NEW p \in Providers
               PROVE  Len(stack[p]) <= Cardinality(Impls) + 1
    BY DEF DepthBounded
  <2>1. stack[p] \in Seq(Frames) /\ guard[p] \in SUBSET Impls
    BY DEF TypeOK
  <2>2. Exact(stack[p], guard[p])
    BY GuardExactIff DEF AllExact
  <2>3. Below(stack[p])
    BY DEF LInv, WorksOK, WorkOK
  <2>4. QED
    BY <2>1, <2>2, <2>3, DepthOfOne
<1>2. QED
  BY <1>1, TypeCorrect, GuardIsExact, ListsInvariant, PTL

-----------------------------------------------------------------------------
(* Scoped services that singletons keep. The run "captive" shows that two  *)
(* requests may share a scoped service through a singleton. Collections    *)
(* without captives are those where it cannot be: some set S of            *)
(* implementations has those of all singletons, asks for no scoped         *)
(* service, and has the implementations of the transient services that it  *)
(* asks for, which hand on the pointers they hold.                         *)

Within(S, i) == Elems(Creators(i)) \subseteq S

Harmless(S, i) ==
  Scope(i) # "scoped" /\ (Scope(i) = "transient" => Within(S, i))

Spares(S) ==
  /\ \A i \in SingletonTypes : Within(S, i)
  /\ \A T \in S : \A d \in reg.deps[T] : Harmless(S, d.iface)

NoCaptives == \E S \in SUBSET Impls : Spares(S)

(* What the services of S hold, and what their constructors ask for and    *)
(* receive.                                                                *)
NoneScoped(H) == \A h \in H : Scope(h.iface) # "scoped"

FrameSpared(S, f) ==
  /\ Elems(f.todo) \subseteq Elems(Creators(f.iface))
  /\ Within(S, f.iface) => /\ NoneScoped(f.held)
                           /\ \A d \in f.args : Harmless(S, d.iface)

Asked(S, s) ==
  \A k \in 1..(Len(s) - 1) : Within(S, s[k].iface) => Harmless(S, s[k + 1].iface)

StackSpared(S, s) == Asked(S, s) /\ \A k \in 1..Len(s) : FrameSpared(S, s[k])

SingletonsSpared(st) ==
  \A i \in Interfaces : \A k \in 1..Len(st[Singletons][i].items) :
    NoneScoped(st[Singletons][i].items[k].holds)

CInv ==
  \A S \in SUBSET Impls :
    Spares(S) => SingletonsSpared(store) /\ \A p \in Providers : StackSpared(S, stack[p])

(* A stack whose frames are for the same interfaces. *)
LEMMA SparedSame ==
  ASSUME NEW S, NEW s \in Seq(Frames), NEW t \in Seq(Frames), Len(t) = Len(s),
         \A k \in 1..Len(s) : t[k].iface = s[k].iface /\ FrameSpared(S, t[k]),
         Asked(S, s)
  PROVE  StackSpared(S, t)
<1>1. \A k \in 1..(Len(s) - 1) : k \in 1..Len(s) /\ k + 1 \in 1..Len(s)
  OBVIOUS
<1>2. Asked(S, t)
  BY <1>1 DEF Asked
<1>3. QED
  BY <1>2 DEF StackSpared

LEMMA SparedTaken ==
  ASSUME TypeOK, NEW S, NEW p \in Providers, NEW d \in Calls, StackSpared(S, stack[p])
  PROVE  StackSpared(S, Taken(p, d))
<1> DEFINE s == stack[p]
<1>1. s \in Seq(Frames)
  BY DEF TypeOK
<1>2. CASE s = <<>>
  BY <1>2 DEF Taken
<1>3. CASE s # <<>>
  <2> DEFINE n == Len(s)
             f == [s[n] EXCEPT !.args = @ \ {d}]
             t == [s EXCEPT ![n] = f]
  <2>1. Taken(p, d) = t
    BY <1>3 DEF Taken
  <2>2. n \in 1..Len(s) /\ s[n] \in Frames
    BY <1>1, <1>3
  <2>3. /\ f \in Frames /\ f.held = s[n].held /\ f.todo = s[n].todo
        /\ f.iface = s[n].iface /\ f.args \subseteq s[n].args
    BY <2>2 DEF Frames
  <2>4. FrameSpared(S, f)
    BY <2>2, <2>3 DEF StackSpared, FrameSpared
  <2> HIDE DEF f
  <2>5. t \in Seq(Frames) /\ Len(t) = Len(s) /\ \A k \in 1..Len(s) : t[k] = IF k = n THEN f ELSE s[k]
    BY <1>1, <2>2, <2>3
  <2>6. \A k \in 1..Len(s) : t[k].iface = s[k].iface /\ FrameSpared(S, t[k])
    BY <2>3, <2>4, <2>5 DEF StackSpared
  <2> HIDE DEF t
  <2>7. QED
    BY <1>1, <2>1, <2>5, <2>6, SparedSame DEF StackSpared
<1>4. QED
  BY <1>2, <1>3

LEMMA SparedDeliver ==
  ASSUME NEW S, NEW s \in Seq(Frames), NEW refs \in SUBSET Refs, StackSpared(S, s),
         s # <<>> /\ Within(S, s[Len(s)].iface) => NoneScoped(refs)
  PROVE  StackSpared(S, Deliver(s, refs))
<1>1. CASE s = <<>>
  BY <1>1 DEF Deliver
<1>2. CASE s # <<>>
  <2> DEFINE n == Len(s)
             f == [s[n] EXCEPT !.held = @ \union refs]
             t == [s EXCEPT ![n] = f]
  <2>1. Deliver(s, refs) = t
    BY <1>2 DEF Deliver
  <2>2. n \in 1..Len(s) /\ s[n] \in Frames
    BY <1>2
  <2>3. /\ f \in Frames /\ f.held = s[n].held \union refs /\ f.todo = s[n].todo
        /\ f.iface = s[n].iface /\ f.args = s[n].args
    BY <2>2 DEF Frames
  <2>4. FrameSpared(S, f)
    BY <1>2, <2>2, <2>3 DEF StackSpared, FrameSpared, NoneScoped
  <2> HIDE DEF f
  <2>5. t \in Seq(Frames) /\ Len(t) = Len(s) /\ \A k \in 1..Len(s) : t[k] = IF k = n THEN f ELSE s[k]
    BY <2>2, <2>3
  <2>6. \A k \in 1..Len(s) : t[k].iface = s[k].iface /\ FrameSpared(S, t[k])
    BY <2>3, <2>4, <2>5 DEF StackSpared
  <2> HIDE DEF t
  <2>7. QED
    BY <2>1, <2>5, <2>6, SparedSame DEF StackSpared
<1>3. QED
  BY <1>1, <1>2

LEMMA SparedPush ==
  ASSUME NEW S, NEW s \in Seq(Frames), NEW f \in Frames, StackSpared(S, s), FrameSpared(S, f),
         s # <<>> /\ Within(S, s[Len(s)].iface) => Harmless(S, f.iface)
  PROVE  StackSpared(S, Append(s, f))
<1> DEFINE t == Append(s, f)
           n == Len(s)
<1>1. /\ n \in Nat /\ Len(t) = n + 1
      /\ \A k \in 1..n : t[k] = s[k]
      /\ t[n + 1] = f
  OBVIOUS
<1>2. \A k \in 1..(n + 1) : k \in 1..n \/ k = n + 1
  BY <1>1
<1>3. \A k \in 1..Len(t) : FrameSpared(S, t[k])
  BY <1>1, <1>2 DEF StackSpared
<1>4. ASSUME NEW k \in 1..(Len(t) - 1), Within(S, t[k].iface)
      PROVE  Harmless(S, t[k + 1].iface)
  <2>1. CASE k = n
    <3>1. s # <<>> /\ t[k] = s[n] /\ t[k + 1] = f
      BY <1>1, <2>1
    <3>2. QED
      BY <1>4, <3>1
  <2>2. CASE k # n
    <3>1. k \in 1..(n - 1) /\ k \in 1..n /\ k + 1 \in 1..n
      BY <1>1, <2>2
    <3>2. t[k] = s[k] /\ t[k + 1] = s[k + 1]
      BY <1>1, <3>1
    <3>3. QED
      BY <1>4, <3>1, <3>2 DEF StackSpared, Asked
  <2>3. QED
    BY <2>1, <2>2
<1>5. Asked(S, t)
  BY <1>4 DEF Asked
<1>6. QED
  BY <1>3, <1>5 DEF StackSpared

LEMMA SparedCut ==
  ASSUME NEW S, NEW s \in Seq(Frames), NEW k \in 0..Len(s), StackSpared(S, s)
  PROVE  StackSpared(S, SubSeq(s, 1, k))
<1> DEFINE t == SubSeq(s, 1, k)
<1>1. /\ Len(t) = k /\ k \in Int
      /\ \A j \in 1..k : t[j] = s[j]
  BY Prefix
<1>2. 1..k \subseteq 1..Len(s)
  OBVIOUS
<1>3. \A j \in 1..(k - 1) : j \in 1..(Len(s) - 1) /\ j \in 1..k /\ j + 1 \in 1..k
  BY <1>1
<1> HIDE DEF t
<1>4. Asked(S, t)
  BY <1>1, <1>3 DEF StackSpared, Asked
<1>5. \A j \in 1..Len(t) : FrameSpared(S, t[j])
  BY <1>1, <1>2 DEF StackSpared
<1>6. QED
  BY <1>4, <1>5 DEF StackSpared, t

LEMMA SparedFront ==
  ASSUME NEW S, NEW s \in Seq(Frames), s # <<>>, StackSpared(S, s)
  PROVE  /\ StackSpared(S, Front(s))
         /\ FrameSpared(S, Last(s))
         /\ Front(s) # <<>> /\ Within(S, Front(s)[Len(Front(s))].iface)
              => Harmless(S, Last(s).iface)
<1> DEFINE n == Len(s)
<1>1. /\ n \in Nat /\ n >= 1 /\ Last(s) = s[n]
      /\ Front(s) = SubSeq(s, 1, n - 1) /\ n - 1 \in 0..n
      /\ Front(s) \in Seq(Frames)
      /\ Len(Front(s)) = n - 1
      /\ \A k \in 1..(n - 1) : Front(s)[k] = s[k]
  BY LastFront DEF Front
<1>2. StackSpared(S, Front(s))
  BY <1>1, SparedCut
<1>3. FrameSpared(S, s[n])
  BY <1>1 DEF StackSpared
<1>4. ASSUME Front(s) # <<>>, Within(S, Front(s)[n - 1].iface)
      PROVE  Harmless(S, s[n].iface)
  <2>1. n - 1 \in 1..(n - 1) /\ (n - 1) + 1 = n
    BY <1>1, <1>4
  <2>2. Front(s)[n - 1] = s[n - 1]
    BY <1>1, <2>1
  <2>3. QED
    BY <1>4, <2>1, <2>2 DEF StackSpared, Asked
<1>5. QED
  BY <1>1, <1>2, <1>3, <1>4

(* The topmost frame replaced by another one for the same interface. *)
LEMMA SparedReplace ==
  ASSUME NEW S, NEW s \in Seq(Frames), s # <<>>, StackSpared(S, s),
         NEW g \in Frames, g.iface = Last(s).iface, FrameSpared(S, g)
  PROVE  StackSpared(S, Append(Front(s), g))
<1>1. Front(s) \in Seq(Frames)
  BY LastFront
<1>2. QED
  BY <1>1, SparedFront, SparedPush
(* A call's creators are among those of its interface. *)
LEMMA CreatorsWithin ==
  ASSUME TypeOK, NEW p, NEW d \in Calls, Known(d.iface)
  PROVE  Elems(CreatorsFor(p, d)) \subseteq Elems(Creators(d.iface))
<1> DEFINE c == Creators(d.iface)
<1>1. c \in Seq(Impls) /\ c # <<>> /\ d.op \in Gets \union Creates
  BY CollectionParts DEF Calls, Known
<1>2. Elems(NewestFirst(d.iface)) = Elems(c)
  BY <1>1, ElemsReverse DEF NewestFirst
<1>3. Elems(Tail(NewestFirst(d.iface))) \subseteq Elems(c)
  <2>1. NewestFirst(d.iface) \in Seq(Impls) /\ NewestFirst(d.iface) # <<>>
    BY CollectionParts DEF Calls
  <2>2. QED
    BY <1>2, <2>1, ElemsTail
<1>4. Elems(<<MainOf(d.iface)>>) \subseteq Elems(c)
  <2>1. MainOf(d.iface) = Last(c)
    BY DEF MainOf
  <2>2. Last(c) = c[Len(c)] /\ Len(c) \in Nat /\ Len(c) >= 1
    BY <1>1, LastFront
  <2>3. QED
    BY <2>1, <2>2 DEF Elems
<1>5. QED
  BY <1>1, <1>2, <1>3, <1>4 DEF CreatorsFor, Gets, Creates

LEMMA RegStays ==
  ASSUME TypeOK, [Next]_vars
  PROVE  reg' = reg
<1>1. \A p \in Providers, d \in Calls :
        Hit(p, d) \/ Absent(p, d) \/ Refuse(p, d) \/ Call(p, d) => reg' = reg
  BY DEF Hit, Absent, Refuse, Call
<1>2. \A p \in Providers :
        BeginHolder(p) \/ Circular(p) \/ FinishHolder(p) \/ FailHolder(p) \/ Return(p)
          => reg' = reg
  BY DEF BeginHolder, Circular, FinishHolder, FailHolder, Return
<1>3. QED
  BY <1>1, <1>2, Steps DEF Built, Run, Serve, Stop, StartRequest, FinishRequest, vars

LEMMA SparedRaise ==
  ASSUME TypeOK, NEW S, NEW p \in Providers, NEW s \in Seq(Frames),
         NEW n \in Int, n <= Len(s), Raise(p, s, n), StackSpared(S, s)
  PROVE  StackSpared(S, stack'[p]) /\ \A q \in Providers \ {p} : stack'[q] = stack[q]
<1>1. PICK k \in 0..Len(s) : stack' = [stack EXCEPT ![p] = SubSeq(s, 1, k)]
  BY RaiseEffect
<1>2. QED
  BY <1>1, SparedCut DEF TypeOK

LEMMA SparedResolve ==
  ASSUME TypeOK, NEW S \in SUBSET Impls, Spares(S),
         NEW p \in Providers, StackSpared(S, stack[p]),
         NEW d \in Calls, d \in Asks(p),
         Hit(p, d) \/ Absent(p, d) \/ Refuse(p, d) \/ Call(p, d)
  PROVE  /\ StackSpared(S, stack'[p]) /\ \A q \in Providers \ {p} : stack'[q] = stack[q]
         /\ reg' = reg /\ store' = store
<1> DEFINE s == stack[p]
           t == Taken(p, d)
<1>1. /\ t \in Seq(Frames) /\ s \in Seq(Frames) /\ Len(t) = Len(s)
      /\ SameBuild(t, s) /\ StackSpared(S, t)
  BY TakenFrames, SparedTaken DEF TypeOK
<1>2. reg' = reg /\ store' = store
  BY DEF Hit, Absent, Refuse, Call
<1>3. t # <<>> /\ Within(S, t[Len(t)].iface) => Harmless(S, d.iface)
  <2> SUFFICES ASSUME t # <<>>, Within(S, t[Len(t)].iface) PROVE Harmless(S, d.iface)
    OBVIOUS
  <2>1. s # <<>> /\ Len(s) \in 1..Len(s) /\ t[Len(s)].iface = s[Len(s)].iface
    BY <1>1 DEF SameBuild
  <2>2. Top(p) = s[Len(s)] /\ d \in Top(p).args
    BY <2>1, TopFrame DEF Asks
  <2>3. FrameSpared(S, s[Len(s)])
    BY <2>1 DEF StackSpared
  <2>4. QED
    BY <1>1, <2>1, <2>2, <2>3 DEF FrameSpared
<1>4. d.iface \in Interfaces
  BY DEF Calls
<1> HIDE DEF t
<1>5. CASE Hit(p, d)
  <2> DEFINE h == Found(p, d)
  <2>1. stack' = [stack EXCEPT ![p] = Deliver(t, {h})]
    BY <1>5 DEF Hit, t
  <2>2. h \in Refs /\ h.iface = d.iface
    BY <1>4 DEF Found, Refs, Containers
  <2> HIDE DEF h
  <2>3. t # <<>> /\ Within(S, t[Len(t)].iface) => NoneScoped({h})
    BY <1>3, <2>2 DEF NoneScoped, Harmless
  <2>4. {h} \in SUBSET Refs
    BY <2>2
  <2>5. StackSpared(S, Deliver(t, {h}))
    BY <1>1, <2>3, <2>4, SparedDeliver
  <2>6. QED
    BY <1>2, <2>1, <2>5 DEF TypeOK
<1>6. CASE Absent(p, d)
  BY <1>1, <1>2, <1>6 DEF Absent, TypeOK, t
<1>7. CASE Refuse(p, d)
  <2>1. Raise(p, t, Len(s))
    BY <1>7 DEF Refuse, t
  <2>2. Len(s) \in Int /\ Len(s) <= Len(t)
    BY <1>1
  <2>3. QED
    BY <1>1, <1>2, <2>1, <2>2, SparedRaise
<1>8. CASE Call(p, d)
  <2> DEFINE f == NewFrame(p, d)
  <2>1. stack' = [stack EXCEPT ![p] = Append(t, f)] /\ Known(d.iface)
    BY <1>8 DEF Call, t
  <2>2. f \in Frames
    BY <2>1, NewFrameType
  <2>3. f.iface = d.iface /\ f.held = {} /\ f.args = {} /\ f.todo = CreatorsFor(p, d)
    BY DEF NewFrame
  <2>4. Elems(f.todo) \subseteq Elems(Creators(d.iface))
    BY <1>4, <2>1, <2>3, CreatorsWithin
  <2> HIDE DEF f
  <2>5. FrameSpared(S, f)
    BY <2>3, <2>4 DEF FrameSpared, NoneScoped
  <2>6. StackSpared(S, Append(t, f))
    BY <1>1, <1>3, <2>2, <2>3, <2>5, SparedPush
  <2>7. QED
    BY <1>2, <2>1, <2>6 DEF TypeOK
<1>9. QED
  BY <1>5, <1>6, <1>7, <1>8

LEMMA SparedBegin ==
  ASSUME TypeOK, NEW S \in SUBSET Impls, Spares(S),
         NEW p \in Providers, StackSpared(S, stack[p]), BeginHolder(p)
  PROVE  StackSpared(S, stack'[p]) /\ \A q \in Providers \ {p} : stack'[q] = stack[q]
<1> DEFINE s == stack[p]
           f == Top(p)
           T == Head(f.todo)
           g == [f EXCEPT !.building = TRUE, !.args = reg.deps[T],
                          !.held = IF f.op \in Gets THEN {} ELSE @]
<1>1. s # <<>> /\ f.todo # <<>>
  BY DEF BeginHolder, ReadyToBuild
<1>2. /\ s \in Seq(Frames) /\ f \in Frames /\ f = Last(s) /\ f.todo \in Seq(Impls)
      /\ T \in Impls
  BY <1>1, TopFrame DEF Top
<1>3. reg.deps[T] \in SUBSET Calls
  BY <1>2, CollectionParts
<1>4. /\ g \in Frames /\ g.held \subseteq f.held /\ g.todo = f.todo
      /\ g.iface = f.iface /\ g.args = reg.deps[T]
  BY <1>1, <1>2, <1>3 DEF Frames
<1>5. stack' = [stack EXCEPT ![p] = Append(Front(s), g)]
  BY DEF BeginHolder
<1>6. FrameSpared(S, f) /\ T \in Elems(f.todo)
  BY <1>1, <1>2, SparedFront, ElemsTail
<1> HIDE DEF g, T, f
<1>7. FrameSpared(S, g)
  <2>1. Within(S, f.iface) => T \in S
    BY <1>6 DEF FrameSpared, Within
  <2>2. QED
    BY <1>4, <1>6, <2>1 DEF FrameSpared, NoneScoped, Spares
<1>8. StackSpared(S, Append(Front(s), g))
  BY <1>1, <1>2, <1>4, <1>7, SparedReplace
<1>9. QED
  BY <1>5, <1>8 DEF TypeOK

LEMMA SparedFinish ==
  ASSUME TypeOK, FInv, NEW S \in SUBSET Impls, Spares(S), SingletonsSpared(store),
         NEW p \in Providers, StackSpared(S, stack[p]), FinishHolder(p)
  PROVE  /\ StackSpared(S, stack'[p]) /\ \A q \in Providers \ {p} : stack'[q] = stack[q]
         /\ \A i \in Interfaces : \A k \in 1..Len(store'[Singletons][i].items) :
               NoneScoped(store'[Singletons][i].items[k].holds)
<1> DEFINE s == stack[p]
           f == Top(p)
           i == f.iface
           c == Container(p, i)
           x == [impl |-> Head(f.todo), holds |-> f.held]
           g == [f EXCEPT !.building = FALSE, !.todo = Tail(@)]
<1>1. s # <<>> /\ f.building
  BY DEF FinishHolder
<1>2. /\ f \in Frames /\ f.held \subseteq Refs /\ i \in Interfaces /\ c \in Containers
      /\ Head(f.todo) \in Impls /\ Tail(f.todo) \in Seq(Impls)
      /\ f.todo # <<>> /\ f.todo \in Seq(Impls)
      /\ s \in Seq(Frames) /\ f = Last(s)
  BY <1>1, TopFrame DEF Top
<1>3. x \in Instances /\ x.holds = f.held
  BY <1>2 DEF Instances
<1>4. /\ g \in Frames /\ g.held = f.held /\ g.todo = Tail(f.todo)
      /\ g.iface = f.iface /\ g.args = f.args
  BY <1>1, <1>2 DEF Frames
<1>5. /\ stack' = [stack EXCEPT ![p] = Append(Front(s), g)]
      /\ store' = IF f.op \in Gets THEN [store EXCEPT ![c][i].items = Append(@, x)] ELSE store
  BY DEF FinishHolder, TypeOK
<1>6. FrameSpared(S, f) /\ FrameOK(store, p, f)
  BY <1>1, <1>2, SparedFront, StackFront DEF FInv, FramesOK
<1>7. Elems(Tail(f.todo)) \subseteq Elems(f.todo)
  BY <1>2, ElemsTail
<1> HIDE DEF g, x
<1>8. FrameSpared(S, g)
  BY <1>4, <1>6, <1>7 DEF FrameSpared
<1>9. StackSpared(S, Append(Front(s), g))
  BY <1>1, <1>2, <1>4, <1>8, SparedReplace
<1>10. stack'[p] = Append(Front(s), g) /\ \A q \in Providers \ {p} : stack'[q] = stack[q]
  BY <1>5 DEF TypeOK
<1>11. ASSUME NEW j \in Interfaces, NEW k \in 1..Len(store'[Singletons][j].items)
       PROVE  NoneScoped(store'[Singletons][j].items[k].holds)
  <2>1. Singletons \in Containers
    BY DEF Containers
  <2>2. CASE f.op \in Gets /\ c = Singletons /\ j = i
    <3>1. Scope(i) = "singleton" /\ Known(i)
      BY <1>6, <2>2, ContainersDistinct DEF Container, FrameOK
    <3>2. NoneScoped(x.holds)
      BY <1>2, <1>3, <1>6, <3>1 DEF FrameSpared, Spares, SingletonTypes
    <3> DEFINE l == store[Singletons][j].items
    <3>3. l \in Seq(Instances) /\ store'[Singletons][j].items = Append(l, x)
      <4>1. store[Singletons][j] \in Lists /\ l \in Seq(Instances)
        BY <2>1, ListsType
      <4> HIDE DEF c, i
      <4>2. store'[Singletons][j] = [store[Singletons][j] EXCEPT !.items = Append(@, x)]
        BY <1>2, <1>5, <2>1, <2>2 DEF TypeOK
      <4>3. QED
        BY <4>1, <4>2 DEF Lists
    <3> HIDE DEF l
    <3>4. k \in 1..(Len(l) + 1) /\ Len(l) \in Nat
      BY <1>3, <3>3
    <3>5. CASE k = Len(l) + 1
      BY <1>3, <3>2, <3>3, <3>5
    <3>6. CASE k # Len(l) + 1
      <4>1. k \in 1..Len(l) /\ Append(l, x)[k] = l[k]
        BY <1>3, <3>3, <3>4, <3>6
      <4>2. QED
        BY <3>3, <4>1 DEF SingletonsSpared, l
    <3>7. QED
      BY <3>5, <3>6
  <2>3. CASE ~(f.op \in Gets /\ c = Singletons /\ j = i)
    <3> HIDE DEF c, i
    <3>1. store'[Singletons][j] = store[Singletons][j]
      BY <1>2, <1>5, <2>1, <2>3 DEF TypeOK
    <3>2. QED
      BY <3>1 DEF SingletonsSpared
  <2>4. QED
    BY <2>2, <2>3
<1>12. QED
  BY <1>9, <1>10, <1>11

LEMMA SparedReturn ==
  ASSUME TypeOK, NEW S \in SUBSET Impls, Spares(S), SingletonsSpared(store),
         NEW p \in Providers, StackSpared(S, stack[p]), FInv, Return(p)
  PROVE  /\ StackSpared(S, stack'[p]) /\ \A q \in Providers \ {p} : stack'[q] = stack[q]
         /\ \A c \in Containers, i \in Interfaces : store'[c][i].items = store[c][i].items
<1> DEFINE s == stack[p]
           f == Top(p)
           i == f.iface
           c == Container(p, i)
           refs == IF f.op \in Gets THEN {[container |-> c, iface |-> i]} ELSE f.held
           t == Front(s)
<1>1. s # <<>> /\ f.todo = <<>>
  BY DEF Return
<1>2. /\ f.held \subseteq Refs /\ i \in Interfaces /\ c \in Containers
      /\ s \in Seq(Frames) /\ f = Last(s) /\ t \in Seq(Frames)
  BY <1>1, TopFrame DEF Top
<1>3. /\ stack' = [stack EXCEPT ![p] = Deliver(t, refs)]
      /\ store' = IF f.op = "getServices" THEN [store EXCEPT ![c][i].sealed = TRUE] ELSE store
  BY DEF Return, TypeOK
<1>4. /\ StackSpared(S, t) /\ FrameSpared(S, f)
      /\ t # <<>> /\ Within(S, t[Len(t)].iface) => Harmless(S, f.iface)
  BY <1>1, <1>2, SparedFront
<1>5. FrameOK(store, p, f)
  BY <1>1, <1>2, StackFront DEF FInv, FramesOK
<1>6. refs \in SUBSET Refs
  BY <1>2 DEF Refs
<1>7. t # <<>> /\ Within(S, t[Len(t)].iface) => NoneScoped(refs)
  <2> SUFFICES ASSUME t # <<>>, Within(S, t[Len(t)].iface) PROVE NoneScoped(refs)
    OBVIOUS
  <2>1. Harmless(S, i)
    BY <1>4
  <2>2. CASE f.op \in Gets
    BY <2>1, <2>2 DEF NoneScoped, Harmless
  <2>3. CASE f.op \notin Gets
    <3>1. f.op \in Creates
      BY <1>1, <2>3, TopFrame
    <3>2. Within(S, i)
      BY <1>5, <2>1, <3>1 DEF Harmless, FrameOK
    <3>3. QED
      BY <1>4, <2>3, <3>2 DEF FrameSpared
  <2>4. QED
    BY <2>2, <2>3
<1> HIDE DEF refs, t
<1>8. StackSpared(S, Deliver(t, refs))
  BY <1>2, <1>4, <1>6, <1>7, SparedDeliver
<1>9. stack'[p] = Deliver(t, refs) /\ \A q \in Providers \ {p} : stack'[q] = stack[q]
  BY <1>3 DEF TypeOK
<1>10. \A e \in Containers, j \in Interfaces : store'[e][j].items = store[e][j].items
  <2> HIDE DEF c, i
  <2>1. CASE f.op = "getServices"
    BY <1>2, <1>3, <2>1, SealKeeps
  <2>2. QED
    BY <1>3, <2>1
<1>11. QED
  BY <1>8, <1>9, <1>10

LEMMA SparedStep ==
  ASSUME TypeOK, FInv, NEW S \in SUBSET Impls, Spares(S), SingletonsSpared(store),
         \A p \in Providers : StackSpared(S, stack[p]), [Next]_vars
  PROVE  /\ \A i \in Interfaces : \A k \in 1..Len(store'[Singletons][i].items) :
              NoneScoped(store'[Singletons][i].items[k].holds)
         /\ \A p \in Providers : StackSpared(S, stack'[p])
         /\ reg' = reg
<1> DEFINE Goal == /\ \A i \in Interfaces :
                        \A k \in 1..Len(store'[Singletons][i].items) :
                          NoneScoped(store'[Singletons][i].items[k].holds)
                   /\ \A p \in Providers : StackSpared(S, stack'[p])
                   /\ reg' = reg
<1>1. ASSUME NEW p \in Providers, NEW d \in Calls, d \in Asks(p),
             Hit(p, d) \/ Absent(p, d) \/ Refuse(p, d) \/ Call(p, d)
      PROVE  Goal
  BY <1>1, SparedResolve DEF SingletonsSpared
<1>2. ASSUME NEW p \in Providers, BeginHolder(p)
      PROVE  Goal
  <2>1. store' = store /\ reg' = reg
    BY <1>2 DEF BeginHolder
  <2>2. QED
    BY <1>2, <2>1, SparedBegin DEF SingletonsSpared
<1>3. ASSUME NEW p \in Providers, Circular(p) \/ FailHolder(p)
      PROVE  Goal
  <2>1. store' = store /\ reg' = reg /\ Raise(p, stack[p], Len(stack[p]) - 1)
    BY <1>3 DEF Circular, FailHolder
  <2>2. /\ stack[p] \in Seq(Frames) /\ Len(stack[p]) - 1 \in Int
        /\ Len(stack[p]) - 1 <= Len(stack[p])
    BY DEF TypeOK
  <2>3. QED
    BY <2>1, <2>2, SparedRaise DEF SingletonsSpared
<1>4. ASSUME NEW p \in Providers, FinishHolder(p)
      PROVE  Goal
  <2>1. reg' = reg
    BY <1>4 DEF FinishHolder
  <2>2. QED
    BY <1>4, <2>1, SparedFinish
<1>5. ASSUME NEW p \in Providers, Return(p)
      PROVE  Goal
  <2>1. reg' = reg /\ Singletons \in Containers
    BY <1>5 DEF Return, Containers
  <2>2. QED
    BY <1>5, <2>1, SparedReturn DEF SingletonsSpared
<1>6. CASE \/ Built \/ Run \/ Serve \/ Stop
           \/ \E r \in Requests : StartRequest(r) \/ FinishRequest(r)
           \/ UNCHANGED vars
  <2>1. stack' = stack /\ reg' = reg
    BY <1>6 DEF Built, Run, Serve, Stop, StartRequest, FinishRequest, vars
  <2>2. store'[Singletons] = store[Singletons]
    BY <1>6, ContainersDistinct
       DEF Built, Run, Serve, Stop, StartRequest, FinishRequest, vars, TypeOK, Containers, Providers
  <2>3. QED
    BY <2>1, <2>2 DEF SingletonsSpared
<1>7. QED
  BY <1>1, <1>2, <1>3, <1>4, <1>5, <1>6, Steps

(* What a request reaches of another one: nothing. *)
LEMMA NoneShared ==
  ASSUME TypeOK, FInv, CInv, NoCaptives
  PROVE  ScopedDifferPerRequest
<1>1. SingletonsSpared(store)
  BY DEF CInv, NoCaptives
<1>2. ASSUME NEW r \in active, NEW h \in ReachableScoped(r)
      PROVE  h.container = r
  <2>1. Scope(h.iface) = "scoped"
    BY DEF ReachableScoped
  <2>2. ASSUME NEW i \in Interfaces, NEW k \in DOMAIN store[Singletons][i].items,
               h \in store[Singletons][i].items[k].holds
        PROVE  FALSE
    <3>1. k \in 1..Len(store[Singletons][i].items)
      <4>1. store[Singletons][i].items \in Seq(Instances)
        BY ListsType DEF Containers
      <4>2. QED
        BY <4>1
    <3>2. QED
      BY <1>1, <2>1, <2>2, <3>1 DEF SingletonsSpared, NoneScoped
  <2>3. QED
    BY <2>2 DEF ReachableScoped
<1>3. QED
  BY <1>2 DEF ScopedDifferPerRequest

(* Requests have different scoped services in every application whose      *)
(* collection has no captives, whatever its services ask for besides.      *)
THEOREM ScopedApart == Spec => [](NoCaptives => ScopedDifferPerRequest)
<1>1. Init => CInv
  <2> SUFFICES ASSUME Init PROVE CInv
    OBVIOUS
  <2>1. \A i \in Interfaces : Len(store[Singletons][i].items) = 0
    BY DEF Init, Empty, NoList, Containers
  <2>2. SingletonsSpared(store)
    BY <2>1 DEF SingletonsSpared
  <2>3. \A p \in Providers : Len(stack[p]) = 0
    BY DEF Init
  <2>4. \A S \in SUBSET Impls, p \in Providers : StackSpared(S, stack[p])
    BY <2>3 DEF StackSpared, Asked
  <2>5. QED
    BY <2>2, <2>4 DEF CInv
<1>2. TypeOK /\ FInv /\ CInv /\ [Next]_vars => (FInv /\ CInv)'
  <2> SUFFICES ASSUME TypeOK, FInv, CInv, [Next]_vars PROVE (FInv /\ CInv)'
    OBVIOUS
  <2>1. FInv'
    BY FInvNext
  <2>2. reg' = reg
    BY RegStays
  <2>3. ASSUME NEW S \in SUBSET Impls, Spares(S)'
        PROVE  /\ SingletonsSpared(store)'
               /\ \A p \in Providers : StackSpared(S, stack[p])'
    <3>1. Spares(S)
      BY <2>2, <2>3 DEF Spares, SingletonTypes, Within, Harmless, Known, Creators, Scope
    <3>2. SingletonsSpared(store) /\ \A p \in Providers : StackSpared(S, stack[p])
      BY <3>1 DEF CInv
    <3>3. /\ \A i \in Interfaces : \A k \in 1..Len(store'[Singletons][i].items) :
                NoneScoped(store'[Singletons][i].items[k].holds)
          /\ \A p \in Providers : StackSpared(S, stack'[p])
      BY <3>1, <3>2, SparedStep
    <3>4. SingletonsSpared(store)'
      BY <2>2, <3>3 DEF SingletonsSpared, NoneScoped, Scope
    <3>5. \A p \in Providers : StackSpared(S, stack[p])'
      BY <2>2, <3>3
         DEF StackSpared, Asked, FrameSpared, Within, Harmless, NoneScoped, Creators, Scope
    <3>6. QED
      BY <3>4, <3>5
  <2>4. QED
    BY <2>1, <2>3 DEF CInv
<1>3. TypeOK /\ FInv /\ CInv => (NoCaptives => ScopedDifferPerRequest)
  BY NoneShared
<1>4. QED
  BY <1>1, <1>2, <1>3, FInvInit, TypeCorrect, PTL DEF Spec

=============================================================================
