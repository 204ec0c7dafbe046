---------------------- MODULE ApplicationBuilderProofs ---------------------
(***************************************************************************)
(* Proofs about the operations of a service collection and about           *)
(* ApplicationBuilder, for all services and any number of builds.          *)
(***************************************************************************)
EXTENDS ApplicationBuilder, TLAPS

(* What the operations return is a collection again. *)
LEMMA AddIsCollection ==
  ASSUME NEW c, IsCollection(c), NEW i \in Interfaces, NEW new \in Creators
  PROVE  /\ IsCollection(Add(c, i, new))
         /\ DOMAIN Add(c, i, new) = DOMAIN c \union {i}
         /\ \A j \in DOMAIN c \ {i} : Add(c, i, new)[j] = c[j]
         /\ Add(c, i, new)[i] = Append(Entry(c, i), new)
         /\ Entry(c, i) \in Seq(Creators)
<1>1. Entry(c, i) \in Seq(Creators)
  BY DEF Entry, IsCollection
<1>2. Append(Entry(c, i), new) \in Seq(Creators)
  BY <1>1
<1>3. \A j \in DOMAIN c : c[j] \in Seq(Creators)
  BY DEF IsCollection
<1>4. DOMAIN c \union {i} \subseteq Interfaces
  BY DEF IsCollection
<1> HIDE DEF Entry
<1>5. QED
  BY <1>1, <1>2, <1>3, <1>4 DEF Add, IsCollection

LEMMA RemoveIsCollection ==
  ASSUME NEW c, IsCollection(c), NEW i
  PROVE  /\ IsCollection(RemoveAll(c, i))
         /\ \A j \in DOMAIN RemoveAll(c, i) : j \in DOMAIN c /\ RemoveAll(c, i)[j] = c[j]
  BY DEF RemoveAll, IsCollection

LEMMA MergeIsCollection ==
  ASSUME NEW c, NEW d, IsCollection(c), IsCollection(d)
  PROVE  /\ IsCollection(Merge(c, d)) /\ IsCollection(LeftBehind(c, d))
         /\ DOMAIN c \subseteq DOMAIN Merge(c, d)
         /\ \A i \in DOMAIN c : Merge(c, d)[i] = c[i]
         /\ \A i \in DOMAIN Merge(c, d) :
              i \in DOMAIN c \/ (i \in DOMAIN d /\ Merge(c, d)[i] = d[i])
         /\ \A i \in DOMAIN LeftBehind(c, d) : i \in DOMAIN d /\ LeftBehind(c, d)[i] = d[i]
  BY DEF Merge, LeftBehind, IsCollection

(* WellFormed speaks of each entry by itself. *)
GoodEntry(s) ==
  /\ s # <<>>
  /\ \A j, k \in DOMAIN s : s[j].scope = s[k].scope
  /\ \A j, k \in DOMAIN s : s[j].impl = s[k].impl => j = k

LEMMA ByEntry ==
  ASSUME NEW c
  PROVE  WellFormed(c) <=> \A i \in DOMAIN c : GoodEntry(c[i])
  BY DEF WellFormed, NoEmptyEntry, UniformScope, NoDuplicateImpl, GoodEntry

(* An accepted creator keeps its interface's entry good. *)
LEMMA AddGood ==
  ASSUME NEW c, IsCollection(c), WellFormed(c), NEW i \in Interfaces,
         NEW new \in Creators, Accepts(c, i, new)
  PROVE  WellFormed(Add(c, i, new))
<1> DEFINE s == Entry(c, i)
           t == Append(s, new)
<1>1. s \in Seq(Creators) /\ new \in Creators
  BY AddIsCollection
<1>2. /\ DOMAIN t = 1..(Len(s) + 1) /\ DOMAIN s = 1..Len(s) /\ Len(s) \in Nat
      /\ \A k \in 1..Len(s) : t[k] = s[k]
      /\ t[Len(s) + 1] = new
      /\ t # <<>>
  <2>1. Len(t) = Len(s) + 1
    BY <1>1
  <2>2. QED
    BY <1>1, <2>1
<1>3. \A k \in 1..Len(s) : s[k].impl # new.impl
  BY <1>2 DEF Accepts, IsAlreadyRegistered, Entry
<1>4. \A k \in 1..Len(s) : s[k].scope = new.scope
  <2>1. CASE i \in DOMAIN c
    <3>1. GoodEntry(s) /\ s # <<>> /\ s = c[i]
      BY <2>1, ByEntry DEF Entry, GoodEntry
    <3>2. Last(s).scope = new.scope
      BY <2>1, <3>1 DEF Accepts, ScopeMismatch, MainCreator
    <3>3. Len(s) \in DOMAIN s /\ Last(s) = s[Len(s)]
      BY <1>1, <3>1 DEF Last
    <3>4. QED
      BY <1>2, <3>1, <3>2, <3>3 DEF GoodEntry
  <2>2. CASE i \notin DOMAIN c
    BY <2>2 DEF Entry
  <2>3. QED
    BY <2>1, <2>2
<1>5. \A j, k \in 1..Len(s) : s[j].impl = s[k].impl => j = k
  <2>1. i \in DOMAIN c => GoodEntry(s)
    BY ByEntry DEF Entry
  <2>2. i \notin DOMAIN c => s = <<>>
    BY DEF Entry
  <2>3. QED
    BY <1>2, <2>1, <2>2 DEF GoodEntry
<1>6. \A k \in DOMAIN t : k \in 1..Len(s) \/ k = Len(s) + 1
  BY <1>2
<1> HIDE DEF s, t
<1>7. GoodEntry(t)
  <2>1. \A j, k \in DOMAIN t : t[j].scope = t[k].scope
    BY <1>2, <1>4, <1>6
  <2>2. \A j, k \in DOMAIN t : t[j].impl = t[k].impl => j = k
    BY <1>2, <1>3, <1>5, <1>6
  <2>3. t # <<>>
    BY <1>2
  <2>4. QED
    BY <2>1, <2>2, <2>3, Zenon DEF GoodEntry
<1>8. \A j \in DOMAIN c : GoodEntry(c[j])
  BY ByEntry
<1>9. \A j \in DOMAIN Add(c, i, new) : GoodEntry(Add(c, i, new)[j])
  <2>1. /\ DOMAIN Add(c, i, new) = DOMAIN c \union {i}
        /\ \A j \in DOMAIN c \ {i} : Add(c, i, new)[j] = c[j]
        /\ Add(c, i, new)[i] = t
    BY AddIsCollection DEF s, t
  <2>2. QED
    BY <1>7, <1>8, <2>1, Zenon
<1>10. QED
  BY <1>9, ByEntry

LEMMA RemoveGood ==
  ASSUME NEW c, IsCollection(c), WellFormed(c), NEW i
  PROVE  WellFormed(RemoveAll(c, i))
  BY RemoveIsCollection, ByEntry

LEMMA MergeGood ==
  ASSUME NEW c, NEW d, IsCollection(c), IsCollection(d), WellFormed(c), WellFormed(d)
  PROVE  WellFormed(Merge(c, d)) /\ WellFormed(LeftBehind(c, d))
<1>1. (\A i \in DOMAIN c : GoodEntry(c[i])) /\ (\A i \in DOMAIN d : GoodEntry(d[i]))
  BY ByEntry
<1>2. \A i \in DOMAIN Merge(c, d) : GoodEntry(Merge(c, d)[i])
  BY <1>1, MergeIsCollection
<1>3. \A i \in DOMAIN LeftBehind(c, d) : GoodEntry(LeftBehind(c, d)[i])
  BY <1>1, MergeIsCollection
<1>4. QED
  BY <1>2, <1>3, ByEntry

-----------------------------------------------------------------------------
(* The builder. *)

LEMMA NewCreator ==
  ASSUME TypeOK, NEW T \in Impls, NEW scope \in Scopes, NEW owns \in BOOLEAN
  PROVE  Creator(T, scope, owns) \in Creators
  BY DEF TypeOK, Creator, Creators

LEMMA DefaultTypes ==
  /\ DOMAIN Default = {1, 2, 3, 5}
  /\ \A k \in {1, 2, 3, 5} : Default[k][1] \in Interfaces /\ Default[k][2] \in Impls
  /\ Default[1] = <<"IEnvironment", "Environment">>
  /\ \A k \in {2, 3, 5} : Default[k][1] # "IEnvironment" /\ Default[k][2] # "Environment"
  BY BuilderAssumption DEF Default

(* A collection in place of another. *)
LEMMA ReplaceCollection ==
  ASSUME collections \in [Owners -> Range(collections)], NEW o \in Owners, NEW c,
         collections' = [collections EXCEPT ![o] = c]
  PROVE  /\ collections' \in [Owners -> Range(collections')]
         /\ collections'[o] = c
         /\ \A p \in Owners \ {o} : collections'[p] = collections[p]
  BY DEF Range

LEMMA MergedCollections ==
  ASSUME collections \in [Owners -> Range(collections)], MergeLogging
  PROVE  /\ collections' \in [Owners -> Range(collections')]
         /\ collections'["services"] = Merge(collections["services"], collections["logging"])
         /\ collections'["logging"] = LeftBehind(collections["services"], collections["logging"])
  BY DEF Range, MergeLogging, Owners

(* Both collections are well formed and, for the theorem on failed builds: *)
(* whoever gets past the first registration has taken the environment out  *)
(* of the builder, and once a build() has thrown the environment's factory *)
(* of every later one is empty.                                            *)
IInv ==
  /\ CollectionsWellFormed
  /\ step # 0 => result \in {"none", "threw"}
  /\ threw \/ step > 1 => "Environment" \notin left
  /\ threw /\ step > 1 =>
       "IEnvironment" \in DOMAIN Services /\ ~MainCreator(Services, "IEnvironment").owns
  /\ result = "threw" => threw
  /\ NoBuildAfterThrow

Sound ==
  /\ collections \in [Owners -> Range(collections)]
  /\ \A o \in Owners : IsCollection(collections[o]) /\ WellFormed(collections[o])

Control ==
  /\ direct \subseteq Interfaces
  /\ step \in 0..Constructing
  /\ left \subseteq Owned
  /\ count \in Nat
  /\ result \in {"none", "threw", "failed", "built"}
  /\ threw \in BOOLEAN
  /\ step # 0 => result \in {"none", "threw"}
  /\ threw \/ step > 1 => "Environment" \notin left
  /\ result = "threw" => threw
  /\ result = "built" => ~threw

Emptied ==
  threw /\ step > 1 =>
    "IEnvironment" \in DOMAIN Services /\ ~MainCreator(Services, "IEnvironment").owns

LEMMA Parts == TypeOK /\ IInv <=> Sound /\ Control /\ Emptied
  BY DEF TypeOK, IInv, CollectionsWellFormed, NoBuildAfterThrow, Sound, Control, Emptied

LEMMA PartsNext == Sound' /\ Control' /\ Emptied' => TypeOK' /\ IInv'
  BY DEF TypeOK, IInv, CollectionsWellFormed, NoBuildAfterThrow, Sound, Control, Emptied

LEMMA TypeInit == Init => TypeOK /\ IInv
<1> SUFFICES ASSUME Init PROVE TypeOK /\ IInv
  OBVIOUS
<1>1. IsCollection(NoServices) /\ WellFormed(NoServices)
  BY DEF IsCollection, NoServices, WellFormed, NoEmptyEntry, UniformScope, NoDuplicateImpl
<1>2. Console \in Creators /\ "ILogProvider" \in Interfaces
  BY BuilderAssumption DEF Console, Creators, Scopes
<1>3. Accepts(NoServices, "ILogProvider", Console)
  BY DEF Accepts, IsAlreadyRegistered, ScopeMismatch, Entry, NoServices
<1>4. \A o \in Owners : IsCollection(collections[o]) /\ WellFormed(collections[o])
  BY <1>1, <1>2, <1>3, AddIsCollection, AddGood DEF Init
<1>5. collections \in [Owners -> Range(collections)]
  BY DEF Init, Range
<1>6. Sound
  BY <1>4, <1>5 DEF Sound
<1>7. Control /\ Emptied
  <2>1. /\ direct = {} /\ step = 0 /\ left = Owned /\ count = 1 /\ result = "none" /\ ~threw /\ threw \in BOOLEAN
    BY DEF Init
  <2>2. QED
    BY <2>1 DEF Control, Emptied, Constructing
<1>8. QED
  BY <1>6, <1>7, Parts

LEMMA UserKeeps ==
  ASSUME TypeOK, IInv, UserStep
  PROVE  TypeOK' /\ IInv'
<1> DEFINE Replaced(o, c) ==
             /\ collections' = [collections EXCEPT ![o] = c]
             /\ IsCollection(c) /\ WellFormed(c)
             /\ step = 0 /\ UNCHANGED <<direct, step, left, result, threw>> /\ count' \in Nat
<1>1. \E o \in Owners : \E c : Replaced(o, c)
  <2>1. ASSUME NEW o \in Owners, NEW s \in UserServices, NEW scope \in Scopes,
               Register(o, s[1], s[2], scope)
        PROVE  \E c : Replaced(o, c)
    <3> DEFINE new == Creator(s[2], scope, TRUE)
               c == Add(collections[o], s[1], new)
    <3>1. s[1] \in Interfaces /\ s[2] \in Impls
      BY BuilderAssumption
    <3>2. new \in Creators
      BY <3>1, NewCreator
    <3>3. IsCollection(collections[o]) /\ WellFormed(collections[o])
      BY DEF TypeOK, IInv, CollectionsWellFormed
    <3>4. Accepts(collections[o], s[1], new)
      BY <2>1 DEF Register
    <3>5. IsCollection(c) /\ WellFormed(c)
      BY <3>1, <3>2, <3>3, <3>4, AddIsCollection, AddGood
    <3>6. collections' = [collections EXCEPT ![o] = c]
      BY <2>1 DEF Register
    <3> HIDE DEF c
    <3>7. step = 0 /\ UNCHANGED <<direct, step, left, result, threw>> /\ count' \in Nat
      BY <2>1 DEF Register, Configuring, TypeOK
    <3>8. QED
      BY <3>5, <3>6, <3>7
  <2>2. ASSUME NEW o \in Owners, NEW i \in Interfaces, Unregister(o, i)
        PROVE  \E c : Replaced(o, c)
    <3> DEFINE c == RemoveAll(collections[o], i)
    <3>1. IsCollection(c) /\ WellFormed(c)
      BY RemoveIsCollection, RemoveGood DEF TypeOK, IInv, CollectionsWellFormed
    <3>2. collections' = [collections EXCEPT ![o] = c]
      BY <2>2 DEF Unregister
    <3> HIDE DEF c
    <3>3. QED
      BY <2>2, <3>1, <3>2 DEF Unregister, Configuring, TypeOK
  <2>3. QED
    BY <2>1, <2>2 DEF UserStep
<1>2. PICK o \in Owners : \E c : Replaced(o, c)
  BY <1>1
<1>3. PICK c : Replaced(o, c)
  BY <1>2
<1>4. /\ collections' \in [Owners -> Range(collections')]
      /\ \A p \in Owners : IsCollection(collections'[p]) /\ WellFormed(collections'[p])
  BY <1>3, ReplaceCollection DEF TypeOK, IInv, CollectionsWellFormed
<1>5. Control' /\ Emptied'
  BY <1>3, Parts DEF Control, Emptied
<1>6. QED
  BY <1>4, <1>5, PartsNext DEF Sound

LEMMA RegisterKeeps ==
  ASSUME TypeOK, IInv, RegisterDefault
  PROVE  TypeOK' /\ IInv'
<1> DEFINE i == Default[step][1]
           T == Default[step][2]
           new == Creator(T, "singleton", T \in Owned => T \in left)
           c == Add(Services, i, new)
<1>1. /\ step \in {1, 2, 3, 5} /\ i \in Interfaces /\ T \in Impls
      /\ step = 1 => i = "IEnvironment" /\ T = "Environment"
      /\ step # 1 => i # "IEnvironment" /\ T # "Environment"
  BY DefaultTypes DEF RegisterDefault
<1>2. new \in Creators /\ new.owns = (T \in Owned => T \in left)
  BY <1>1, NewCreator DEF Scopes, Creator
<1>3. IsCollection(Services) /\ WellFormed(Services)
  BY DEF TypeOK, IInv, CollectionsWellFormed, Services, Owners
<1>4. left' = left \ {T}
  BY DEF RegisterDefault, Left
<1>5. CASE ~Accepts(Services, i, new)
  <2>1. /\ step' = 0 /\ result' = "threw" /\ threw'
        /\ UNCHANGED <<collections, direct, count>>
    BY <1>5 DEF RegisterDefault
  <2>2. "Environment" \notin left'
    BY <1>1, <1>4 DEF IInv
  <2>3. Sound' /\ Emptied'
    BY <2>1, Parts DEF Sound, Emptied
  <2>4. Control'
    BY <1>4, <2>1, <2>2, Parts DEF Control, Constructing
  <2>5. QED
    BY <2>3, <2>4, PartsNext
<1>6. CASE Accepts(Services, i, new)
  <2>1. /\ collections' = [collections EXCEPT !["services"] = c]
        /\ count' = count + 1 /\ step' = step + 1 /\ UNCHANGED <<direct, result, threw>>
    BY <1>6 DEF RegisterDefault, Services
  <2>2. IsCollection(c) /\ WellFormed(c)
    BY <1>1, <1>2, <1>3, <1>6, AddIsCollection, AddGood
  <2>3. /\ DOMAIN c = DOMAIN Services \union {i}
        /\ \A j \in DOMAIN Services \ {i} : c[j] = Services[j]
        /\ MainCreator(c, i) = new
    <3>1. /\ DOMAIN c = DOMAIN Services \union {i}
          /\ \A j \in DOMAIN Services \ {i} : c[j] = Services[j]
          /\ c[i] = Append(Entry(Services, i), new)
          /\ Entry(Services, i) \in Seq(Creators)
      <4>1. i \in Interfaces /\ new \in Creators /\ IsCollection(Services)
        BY <1>1, <1>2, <1>3
      <4> HIDE DEF i, new
      <4>2. QED
        BY <4>1, AddIsCollection
    <3>2. \A s \in Seq(Creators) : Last(Append(s, new)) = new
      BY <1>2 DEF Last
    <3>3. QED
      BY <3>1, <3>2 DEF MainCreator
  <2> HIDE DEF c
  <2>4. /\ collections' \in [Owners -> Range(collections')]
        /\ Services' = c
        /\ \A o \in Owners : IsCollection(collections'[o]) /\ WellFormed(collections'[o])
    BY <2>1, <2>2, ReplaceCollection DEF TypeOK, IInv, CollectionsWellFormed, Owners, Services
  <2>5. threw' =>
          "IEnvironment" \in DOMAIN Services' /\ ~MainCreator(Services', "IEnvironment").owns
    <3>1. CASE step = 1
      BY <1>1, <1>2, <2>1, <2>3, <2>4, <3>1 DEF IInv, Owned
    <3>2. CASE step # 1
      BY <1>1, <2>1, <2>3, <2>4, <3>2 DEF IInv, MainCreator
    <3>3. QED
      BY <3>1, <3>2
  <2>6. "Environment" \notin left'
    BY <1>1, <1>4 DEF IInv
  <2>7. Control'
    BY <1>1, <1>4, <2>1, <2>6, Parts DEF Control, Constructing
  <2>8. QED
    BY <2>4, <2>5, <2>7, PartsNext DEF Sound, Emptied
<1>7. QED
  BY <1>5, <1>6

LEMMA MergeKeeps ==
  ASSUME TypeOK, IInv, MergeLogging
  PROVE  TypeOK' /\ IInv'
<1> DEFINE c == collections["services"]
           d == collections["logging"]
<1>1. IsCollection(c) /\ WellFormed(c) /\ IsCollection(d) /\ WellFormed(d)
  BY DEF TypeOK, IInv, CollectionsWellFormed, Owners
<1>2. /\ collections' \in [Owners -> Range(collections')]
      /\ collections'["services"] = Merge(c, d) /\ collections'["logging"] = LeftBehind(c, d)
  BY MergedCollections DEF TypeOK
<1>3. \A o \in Owners : IsCollection(collections'[o]) /\ WellFormed(collections'[o])
  BY <1>1, <1>2, MergeIsCollection, MergeGood DEF Owners
<1>4. \A i \in DOMAIN c : i \in DOMAIN Services' /\ Services'[i] = c[i]
  BY <1>1, <1>2, MergeIsCollection DEF Services
<1>5. step = 4 /\ step' = 5 /\ UNCHANGED <<direct, left, count, result, threw>>
  BY DEF MergeLogging, Merging
<1>6. threw' =>
        "IEnvironment" \in DOMAIN Services' /\ ~MainCreator(Services', "IEnvironment").owns
  BY <1>4, <1>5 DEF IInv, Services, MainCreator
<1>7. Control'
  BY <1>5, Parts DEF Control, Constructing
<1>8. QED
  BY <1>2, <1>3, <1>6, <1>7, PartsNext DEF Sound, Emptied

LEMMA ConstructKeeps ==
  ASSUME TypeOK, IInv, Build \/ ConstructEngine
  PROVE  TypeOK' /\ IInv'
<1>1. CASE Build
  <2>1. Sound' /\ Emptied'
    BY <1>1, Parts DEF Build, Sound, Emptied
  <2>2. Control'
    <3>1. direct' \subseteq Interfaces
      BY <1>1 DEF Build, TypeOK, IsCollection, Services, Owners
    <3>2. QED
      BY <1>1, <3>1, Parts DEF Build, Configuring, Control, Constructing
  <2>3. QED
    BY <2>1, <2>2, PartsNext
<1>2. CASE ConstructEngine
  <2>1. /\ step = 6 /\ step' = 0 /\ UNCHANGED <<collections, direct, left, count>>
        /\ result' \in {"built", "failed"} /\ threw' = (threw \/ result' = "failed")
    BY <1>2 DEF ConstructEngine, Constructing
  <2>2. threw => result' = "failed"
    <3>1. 1 \in DOMAIN Default /\ Default[1][1] = "IEnvironment"
      BY DefaultTypes
    <3>2. threw => ~MainCreator(Services, "IEnvironment").owns
      BY <2>1 DEF IInv
    <3>3. QED
      BY <1>2, <3>1, <3>2 DEF ConstructEngine
  <2>3. threw' \in BOOLEAN /\ (result' = "failed" => threw')
    BY <2>1 DEF TypeOK
  <2>4. "Environment" \notin left'
    BY <2>1 DEF IInv
  <2>5. Sound' /\ Emptied'
    BY <2>1, Parts DEF Sound, Emptied
  <2>6. Control'
    BY <2>1, <2>2, <2>3, <2>4, Parts DEF Control, Constructing
  <2>7. QED
    BY <2>5, <2>6, PartsNext
<1>3. QED
  BY <1>1, <1>2

LEMMA Inductive == TypeOK /\ IInv /\ [Next]_vars => TypeOK' /\ IInv'
<1> SUFFICES ASSUME TypeOK, IInv, [Next]_vars PROVE TypeOK' /\ IInv'
  OBVIOUS
<1>1. CASE UNCHANGED vars
  BY <1>1 DEF vars, TypeOK, IInv, CollectionsWellFormed, NoBuildAfterThrow, Services
<1>2. QED
  BY <1>1, UserKeeps, RegisterKeeps, MergeKeeps, ConstructKeeps DEF Next

(* Through every sequence of registrations, removals and builds, whole or  *)
(* broken off, the collections are what a provider relies on.              *)
THEOREM AlwaysWellFormed == Spec => []CollectionsWellFormed
<1>1. TypeOK /\ IInv => CollectionsWellFormed
  BY DEF IInv
<1>2. QED
  BY <1>1, TypeInit, Inductive, PTL DEF Spec

(* A builder whose build() threw never builds an application any more.     *)
THEOREM FailedBuildIsFinal == Spec => []NoBuildAfterThrow
<1>1. TypeOK /\ IInv => NoBuildAfterThrow
  BY DEF IInv
<1>2. QED
  BY <1>1, TypeInit, Inductive, PTL DEF Spec

(* Every variable keeps to its type.                                       *)
THEOREM TypeCorrect == Spec => []TypeOK
<1>1. TypeOK /\ IInv => TypeOK
  OBVIOUS
<1>2. QED
  BY <1>1, TypeInit, Inductive, PTL DEF Spec

-----------------------------------------------------------------------------
(* The order of registrations: the ids of an entry grow, and none is above *)
(* the number of registrations so far.                                     *)

OrderedEntry(s, n) ==
  /\ \A k \in DOMAIN s : s[k].id <= n
  /\ \A j, k \in DOMAIN s : j < k => s[j].id < s[k].id

Ordered(c, n) == \A i \in DOMAIN c : OrderedEntry(c[i], n)

LEMMA OrderedMore ==
  ASSUME NEW s \in Seq(Creators), NEW n \in Nat, OrderedEntry(s, n)
  PROVE  OrderedEntry(s, n + 1)
<1>1. \A k \in DOMAIN s : s[k] \in Creators
  OBVIOUS
<1>2. \A k \in DOMAIN s : s[k].id \in Nat
  BY <1>1 DEF Creators
<1>3. QED
  BY <1>2 DEF OrderedEntry

LEMMA AppendOrdered ==
  ASSUME NEW s \in Seq(Creators), NEW n \in Nat, OrderedEntry(s, n),
         NEW new \in Creators, new.id = n + 1
  PROVE  OrderedEntry(Append(s, new), n + 1)
<1> DEFINE t == Append(s, new)
<1>1. /\ DOMAIN t = 1..(Len(s) + 1) /\ DOMAIN s = 1..Len(s) /\ Len(s) \in Nat
      /\ \A k \in 1..Len(s) : t[k] = s[k] /\ s[k].id \in Nat
      /\ t[Len(s) + 1] = new
  <2>1. \A k \in 1..Len(s) : s[k] \in Creators
    OBVIOUS
  <2>2. QED
    BY <2>1 DEF Creators
<1>2. \A k \in DOMAIN t : k \in 1..Len(s) \/ k = Len(s) + 1
  BY <1>1
<1>3. \A k \in 1..Len(s) : s[k].id <= n
  BY <1>1 DEF OrderedEntry
<1>4. \A j, k \in 1..Len(s) : j < k => s[j].id < s[k].id
  BY <1>1 DEF OrderedEntry
<1> HIDE DEF t
<1>5. \A k \in DOMAIN t : t[k].id <= n + 1
  BY <1>1, <1>2, <1>3
<1>6. \A j, k \in DOMAIN t : j < k => t[j].id < t[k].id
  BY <1>1, <1>2, <1>3, <1>4
<1>7. OrderedEntry(t, n + 1)
  BY <1>5, <1>6 DEF OrderedEntry
<1>8. QED
  BY <1>7 DEF t

LEMMA AddOrdered ==
  ASSUME NEW c, IsCollection(c), NEW n \in Nat, Ordered(c, n), NEW i \in Interfaces,
         NEW new \in Creators, new.id = n + 1
  PROVE  Ordered(Add(c, i, new), n + 1)
<1>1. /\ DOMAIN Add(c, i, new) = DOMAIN c \union {i}
      /\ \A j \in DOMAIN c \ {i} : Add(c, i, new)[j] = c[j]
      /\ Add(c, i, new)[i] = Append(Entry(c, i), new)
      /\ Entry(c, i) \in Seq(Creators)
  BY AddIsCollection
<1>2. OrderedEntry(Entry(c, i), n)
  BY DEF Ordered, OrderedEntry, Entry
<1>3. OrderedEntry(Append(Entry(c, i), new), n + 1)
  BY <1>1, <1>2, AppendOrdered
<1>4. \A j \in DOMAIN c : OrderedEntry(c[j], n + 1)
  BY OrderedMore DEF Ordered, IsCollection
<1>5. QED
  BY <1>1, <1>3, <1>4, Zenon DEF Ordered

LEMMA CollectionMore ==
  ASSUME NEW c, IsCollection(c), NEW n \in Nat, Ordered(c, n)
  PROVE  Ordered(c, n + 1)
  BY OrderedMore DEF Ordered, IsCollection

(* Both collections. *)
OInv == \A o \in Owners : Ordered(collections[o], count)

LEMMA OrderInit == Init => OInv
<1> SUFFICES ASSUME Init PROVE OInv
  OBVIOUS
<1>1. IsCollection(NoServices) /\ Ordered(NoServices, 0)
  BY DEF IsCollection, NoServices, Ordered
<1>2. Console \in Creators /\ "ILogProvider" \in Interfaces /\ Console.id = 0 + 1
  BY BuilderAssumption DEF Console, Creators, Scopes
<1>3. Ordered(Add(NoServices, "ILogProvider", Console), 0 + 1)
  BY <1>1, <1>2, AddOrdered
<1>4. count = 0 + 1 /\ Ordered(NoServices, 0 + 1)
  BY <1>1 DEF Init, Ordered, NoServices
<1>5. QED
  BY <1>3, <1>4 DEF Init, OInv

LEMMA OrderNext == TypeOK /\ IInv /\ OInv /\ [Next]_vars => OInv'
<1> SUFFICES ASSUME TypeOK, OInv, [Next]_vars PROVE OInv'
  OBVIOUS
<1>1. \A o \in Owners : IsCollection(collections[o]) /\ Ordered(collections[o], count)
  BY DEF TypeOK, OInv
<1>2. count \in Nat /\ collections \in [Owners -> Range(collections)]
  BY DEF TypeOK
<1>3. ASSUME NEW o \in Owners, NEW i \in Interfaces, NEW T \in Impls, NEW scope \in Scopes,
             NEW owns \in BOOLEAN,
             collections' = [collections EXCEPT ![o] = Add(@, i, Creator(T, scope, owns))],
             count' = count + 1
      PROVE  OInv'
  <2> DEFINE new == Creator(T, scope, owns)
             c == Add(collections[o], i, new)
  <2>1. new \in Creators /\ new.id = count + 1
    BY NewCreator DEF Creator
  <2> HIDE DEF new
  <2>2. Ordered(c, count + 1)
    BY <1>1, <1>2, <2>1, AddOrdered
  <2>3. collections' = [collections EXCEPT ![o] = c]
    BY <1>3 DEF new
  <2> HIDE DEF c
  <2>4. collections'[o] = c /\ \A p \in Owners \ {o} : collections'[p] = collections[p]
    BY <1>2, <2>3, ReplaceCollection
  <2>5. \A p \in Owners : Ordered(collections[p], count + 1)
    BY <1>1, <1>2, CollectionMore
  <2>6. QED
    BY <1>3, <2>2, <2>4, <2>5, Zenon DEF OInv
<1>4. ASSUME NEW o \in Owners, NEW s \in UserServices, NEW scope \in Scopes,
             Register(o, s[1], s[2], scope)
      PROVE  OInv'
  <2>1. s[1] \in Interfaces /\ s[2] \in Impls
    BY BuilderAssumption
  <2>2. QED
    BY <1>3, <1>4, <2>1 DEF Register
<1>5. ASSUME NEW o \in Owners, NEW i \in Interfaces, Unregister(o, i)
      PROVE  OInv'
  <2> DEFINE c == RemoveAll(collections[o], i)
  <2>1. Ordered(c, count)
    BY <1>1, RemoveIsCollection DEF Ordered
  <2>2. collections' = [collections EXCEPT ![o] = c] /\ count' = count
    BY <1>5 DEF Unregister
  <2> HIDE DEF c
  <2>3. collections'[o] = c /\ \A p \in Owners \ {o} : collections'[p] = collections[p]
    BY <1>2, <2>2, ReplaceCollection
  <2>4. QED
    BY <1>1, <2>1, <2>2, <2>3, Zenon DEF OInv
<1>6. CASE RegisterDefault
  <2>1. CASE UNCHANGED <<collections, count>>
    BY <2>1 DEF OInv
  <2>2. CASE ~UNCHANGED <<collections, count>>
    <3> DEFINE i == Default[step][1]
               T == Default[step][2]
               owns == T \in Owned => T \in left
    <3>1. i \in Interfaces /\ T \in Impls /\ owns \in BOOLEAN
      BY <1>6, DefaultTypes DEF RegisterDefault
    <3>2. /\ collections' =
               [collections EXCEPT !["services"] = Add(@, i, Creator(T, "singleton", owns))]
          /\ count' = count + 1
      BY <1>6, <2>2 DEF RegisterDefault, Services
    <3>3. "services" \in Owners /\ "singleton" \in Scopes
      BY DEF Owners, Scopes
    <3> HIDE DEF i, T, owns
    <3>4. QED
      BY <1>3, <3>1, <3>2, <3>3
  <2>3. QED
    BY <2>1, <2>2
<1>7. CASE MergeLogging
  <2> DEFINE c == collections["services"]
             d == collections["logging"]
  <2>1. IsCollection(c) /\ Ordered(c, count) /\ IsCollection(d) /\ Ordered(d, count)
    BY <1>1 DEF Owners
  <2>2. /\ collections'["services"] = Merge(c, d) /\ collections'["logging"] = LeftBehind(c, d)
        /\ count' = count
    BY <1>2, <1>7, MergedCollections DEF MergeLogging
  <2>3. Ordered(Merge(c, d), count) /\ Ordered(LeftBehind(c, d), count)
    BY <2>1, MergeIsCollection DEF Ordered
  <2>4. QED
    BY <2>2, <2>3 DEF OInv, Owners
<1>8. CASE Build \/ ConstructEngine \/ UNCHANGED vars
  BY <1>8 DEF Build, ConstructEngine, vars, OInv
<1>9. QED
  BY <1>4, <1>5, <1>6, <1>7, <1>8 DEF Next, UserStep

-----------------------------------------------------------------------------
(* build() moves entries, adds to them and drops none. *)

LEMMA AddLosesNothing ==
  ASSUME NEW c, IsCollection(c), NEW i \in Interfaces, NEW new \in Creators
  PROVE  Registrations(c) \subseteq Registrations(Add(c, i, new))
<1> DEFINE d == Add(c, i, new)
<1>1. /\ DOMAIN d = DOMAIN c \union {i}
      /\ \A j \in DOMAIN c \ {i} : d[j] = c[j]
      /\ d[i] = Append(Entry(c, i), new)
      /\ Entry(c, i) \in Seq(Creators)
  BY AddIsCollection
<1> HIDE DEF d
<1>2. ASSUME NEW j \in DOMAIN c, NEW k \in DOMAIN c[j]
      PROVE  j \in DOMAIN d /\ k \in DOMAIN d[j] /\ d[j][k] = c[j][k]
  <2>1. CASE j # i
    BY <1>1, <1>2, <2>1
  <2>2. CASE j = i
    <3>1. Entry(c, i) = c[j] /\ j \in DOMAIN d
      BY <1>1, <2>2 DEF Entry
    <3>2. d[j] = Append(c[j], new) /\ c[j] \in Seq(Creators)
      BY <1>1, <2>2, <3>1
    <3>3. QED
      BY <1>2, <3>1, <3>2
  <2>3. QED
    BY <2>1, <2>2
<1>3. \A x \in Registrations(c) : \E j \in DOMAIN c : \E k \in DOMAIN c[j] : x = <<j, c[j][k]>>
  BY DEF Registrations
<1>4. Registrations(c) \subseteq Registrations(d)
  BY <1>2, <1>3 DEF Registrations
<1>5. QED
  BY <1>4 DEF d

LEMMA MergeLosesNothing ==
  ASSUME NEW c, NEW d, IsCollection(c), IsCollection(d)
  PROVE  Registrations(c) \union Registrations(d)
           \subseteq Registrations(Merge(c, d)) \union Registrations(LeftBehind(c, d))
<1> DEFINE m == Merge(c, d)
           l == LeftBehind(c, d)
<1>1. /\ DOMAIN m = DOMAIN c \union DOMAIN d
      /\ \A i \in DOMAIN c : m[i] = c[i]
      /\ \A i \in DOMAIN d \ DOMAIN c : m[i] = d[i]
      /\ DOMAIN l = DOMAIN c \intersect DOMAIN d
      /\ \A i \in DOMAIN l : l[i] = d[i]
  BY DEF Merge, LeftBehind
<1> HIDE DEF m, l
<1>2. Registrations(c) \subseteq Registrations(m)
  BY <1>1 DEF Registrations
<1>3. Registrations(d) \subseteq Registrations(m) \union Registrations(l)
  BY <1>1 DEF Registrations
<1>4. QED
  BY <1>2, <1>3 DEF m, l

LEMMA AllRegistrations ==
  ASSUME NEW f
  PROVE  UNION {Registrations(f[o]) : o \in Owners} =
           Registrations(f["services"]) \union Registrations(f["logging"])
  BY DEF Owners

LEMMA StepLosesNothing ==
  ASSUME TypeOK, [Next]_vars, step # 0
  PROVE  UNION {Registrations(collections[o]) : o \in Owners}
           \subseteq UNION {Registrations(collections'[o]) : o \in Owners}
<1>1. CASE UNCHANGED collections
  BY <1>1
<1>2. CASE RegisterDefault /\ ~UNCHANGED collections
  <2> DEFINE i == Default[step][1]
             new == Creator(Default[step][2], "singleton",
                            Default[step][2] \in Owned => Default[step][2] \in left)
             c == Add(Services, i, new)
  <2>1. i \in Interfaces /\ Default[step][2] \in Impls
    BY <1>2, DefaultTypes DEF RegisterDefault
  <2>2. new \in Creators
    BY <2>1, NewCreator DEF Scopes
  <2>3. collections' = [collections EXCEPT !["services"] = c]
    BY <1>2 DEF RegisterDefault, Services
  <2>4. IsCollection(Services)
    BY DEF TypeOK, Services, Owners
  <2> HIDE DEF i, new
  <2>5. Registrations(Services) \subseteq Registrations(c)
    BY <2>1, <2>2, <2>4, AddLosesNothing
  <2> HIDE DEF c
  <2>6. collections'["services"] = c /\ collections'["logging"] = collections["logging"]
    BY <2>3, ReplaceCollection DEF TypeOK, Owners
  <2>7. QED
    BY <2>5, <2>6, AllRegistrations DEF Services
<1>3. CASE MergeLogging
  <2>1. IsCollection(collections["services"]) /\ IsCollection(collections["logging"])
    BY DEF TypeOK, Owners
  <2>2. /\ collections'["services"] = Merge(collections["services"], collections["logging"])
        /\ collections'["logging"] = LeftBehind(collections["services"], collections["logging"])
    BY <1>3, MergedCollections DEF TypeOK
  <2>3. Registrations(collections["services"]) \union Registrations(collections["logging"])
          \subseteq Registrations(collections'["services"]) \union Registrations(collections'["logging"])
    BY <2>1, <2>2, MergeLosesNothing
  <2>4. QED
    BY <2>3, AllRegistrations
<1>4. UNCHANGED collections \/ RegisterDefault \/ MergeLogging
  BY DEF Next, UserStep, Register, Unregister, Configuring, Build, ConstructEngine, vars
<1>5. QED
  BY <1>1, <1>2, <1>3, <1>4

(* build() may throw half way, and merge leaves what it cannot move: but   *)
(* no registration disappears from both collections.                       *)
THEOREM LosesNothing == Spec => NothingLost
<1>1. TypeOK /\ IInv /\ [Next]_vars
        => [step # 0 =>
              UNION {Registrations(collections[o]) : o \in Owners}
                \subseteq UNION {Registrations(collections'[o]) : o \in Owners}]_vars
  BY StepLosesNothing
<1>2. QED
  BY <1>1, TypeInit, Inductive, PTL DEF Spec, NothingLost

-----------------------------------------------------------------------------
(* Which services an application is built with. *)

Defaulted ==
  \A k \in DOMAIN Default :
    k < step => /\ Default[k][1] \in DOMAIN Services
                /\ MainCreator(Services, Default[k][1]).impl = Default[k][2]

DInv == Defaulted /\ BuiltWithDefaults

LEMMA DefaultsDiffer ==
  \A k, m \in DOMAIN Default : k # m => Default[k][1] # Default[m][1]
  BY DEF Default

LEMMA DefaultInit == Init => DInv
  BY DefaultTypes DEF Init, DInv, Defaulted, BuiltWithDefaults

LEMMA DefaultNext == TypeOK /\ IInv /\ DInv /\ [Next]_vars => DInv'
<1> SUFFICES ASSUME TypeOK, IInv, DInv, [Next]_vars PROVE DInv'
  OBVIOUS
<1>1. CASE UNCHANGED vars
  BY <1>1 DEF vars, DInv, Defaulted, BuiltWithDefaults, Services
<1>2. CASE UserStep \/ Build
  <2>1. step' \in {0, 1} /\ result' # "built"
    BY <1>2 DEF UserStep, Register, Unregister, Build, Configuring
  <2>2. QED
    BY <2>1, DefaultTypes DEF DInv, Defaulted, BuiltWithDefaults
<1>3. CASE RegisterDefault
  <2> DEFINE i == Default[step][1]
             T == Default[step][2]
             new == Creator(T, "singleton", T \in Owned => T \in left)
             c == Add(Services, i, new)
  <2>1. i \in Interfaces /\ T \in Impls /\ step \in DOMAIN Default /\ step \in Nat /\ step # 0
    BY <1>3, DefaultTypes DEF RegisterDefault
  <2>2. new \in Creators /\ new.impl = T
    BY <2>1, NewCreator DEF Scopes, Creator
  <2>3. result \in {"none", "threw"}
    BY <2>1 DEF IInv
  <2>4. CASE step' = 0 /\ result' = "threw"
    BY <2>4, DefaultTypes DEF DInv, Defaulted, BuiltWithDefaults
  <2>5. CASE ~(step' = 0 /\ result' = "threw")
    <3>1. /\ collections' = [collections EXCEPT !["services"] = c]
          /\ step' = step + 1 /\ result' = result
      BY <1>3, <2>5 DEF RegisterDefault, Services
    <3>2. IsCollection(Services)
      BY DEF TypeOK, Services, Owners
    <3> HIDE DEF i, T, new
    <3>3. /\ DOMAIN c = DOMAIN Services \union {i}
          /\ \A j \in DOMAIN Services \ {i} : c[j] = Services[j]
          /\ c[i] = Append(Entry(Services, i), new)
          /\ Entry(Services, i) \in Seq(Creators)
      BY <2>1, <2>2, <3>2, AddIsCollection
    <3>4. MainCreator(c, i) = new
      <4>1. \A s \in Seq(Creators) : Last(Append(s, new)) = new
        BY <2>2 DEF Last
      <4>2. QED
        BY <3>3, <4>1 DEF MainCreator
    <3> HIDE DEF c
    <3>5. Services' = c
      BY <3>1, ReplaceCollection DEF TypeOK, Owners, Services
    <3>6. ASSUME NEW k \in DOMAIN Default, k < step + 1
          PROVE  /\ Default[k][1] \in DOMAIN c
                 /\ MainCreator(c, Default[k][1]).impl = Default[k][2]
      <4>1. CASE k = step
        BY <2>2, <3>3, <3>4, <4>1 DEF i, T
      <4>2. CASE k # step
        <5>1. k < step /\ Default[k][1] # i
          BY <2>1, <3>6, <4>2, DefaultsDiffer, DefaultTypes DEF i
        <5>2. QED
          BY <3>3, <5>1 DEF DInv, Defaulted, MainCreator
      <4>3. QED
        BY <4>1, <4>2
    <3>7. Defaulted'
      BY <3>1, <3>5, <3>6 DEF Defaulted
    <3>8. QED
      BY <2>3, <3>1, <3>7 DEF DInv, BuiltWithDefaults
  <2>6. QED
    BY <2>4, <2>5
<1>4. CASE MergeLogging
  <2> DEFINE c == collections["services"]
             d == collections["logging"]
  <2>1. IsCollection(c) /\ IsCollection(d)
    BY DEF TypeOK, Owners
  <2>2. \A i \in DOMAIN c : i \in DOMAIN Services' /\ Services'[i] = c[i]
    BY <1>4, <2>1, MergedCollections, MergeIsCollection DEF TypeOK, Services
  <2>3. step = 4 /\ step' = 5 /\ result' = result /\ result # "built"
    BY <1>4 DEF MergeLogging, Merging, IInv
  <2>4. \A k \in DOMAIN Default : k < 5 => k < 4
    BY DefaultTypes
  <2>5. Defaulted'
    BY <2>2, <2>3, <2>4 DEF DInv, Defaulted, Services, MainCreator
  <2>6. QED
    BY <2>3, <2>5 DEF DInv, BuiltWithDefaults
<1>5. CASE ConstructEngine
  <2>1. /\ step = 6 /\ step' = 0 /\ UNCHANGED collections
        /\ result' = "built" =>
             \A k \in DOMAIN Default : MainCreator(Services, Default[k][1]).owns
    BY <1>5 DEF ConstructEngine, Constructing
  <2>2. \A k \in DOMAIN Default : MainCreator(Services, Default[k][1]).impl = Default[k][2]
    BY <2>1, DefaultTypes DEF DInv, Defaulted
  <2>3. Defaulted'
    BY <2>1, DefaultTypes DEF Defaulted
  <2>4. BuiltWithDefaults'
    BY <2>1, <2>2 DEF BuiltWithDefaults, Services
  <2>5. QED
    BY <2>3, <2>4 DEF DInv
<1>6. QED
  BY <1>1, <1>2, <1>3, <1>4, <1>5 DEF Next

(* An application that was built resolves the framework's environment,     *)
(* configuration, settings and logger to the framework's own services,     *)
(* whatever the user registered before, each with what it is to hand out.  *)
THEOREM Defaults == Spec => []BuiltWithDefaults
<1>1. DInv => BuiltWithDefaults
  BY DEF DInv
<1>2. QED
  BY <1>1, TypeInit, DefaultInit, Inductive, DefaultNext, PTL DEF Spec

-----------------------------------------------------------------------------
(* What of the log providers gets into the application, and which of two   *)
(* registrations of an interface answers there.                            *)

Logging == collections["logging"]

(* Until the merge the services are those of the user and what build() has *)
(* added; after it, only what was among them has stayed behind.            *)
Arrive ==
  /\ step \in 1..Merging => DOMAIN Services \subseteq direct \union Early
  /\ step > Merging \/ result = "built" => DOMAIN Logging \subseteq direct \union Early

(* The main creator of i is newer than all log providers. *)
Above(i) ==
  i \in DOMAIN Services /\
    \A j \in DOMAIN Logging : \A n \in DOMAIN Logging[j] :
      Logging[j][n].id <= MainCreator(Services, i).id

Beats ==
  \A k \in DOMAIN Default : k < step \/ result = "built" => Above(Default[k][1])

WInv == Arrive /\ Beats

LEMMA EarlyIs == Early = {Default[1][1], Default[2][1], Default[3][1]}
<1>1. {m \in DOMAIN Default : m < Merging} = {1, 2, 3}
  BY DefaultTypes DEF Merging
<1>2. QED
  BY <1>1 DEF Early

LEMMA ArriveInit == Init => WInv
  BY DefaultTypes DEF Init, WInv, Arrive, Beats, Merging

LEMMA ArriveRegister ==
  ASSUME TypeOK, IInv, OInv, WInv, RegisterDefault
  PROVE  WInv'
<1> DEFINE i == Default[step][1]
           T == Default[step][2]
           new == Creator(T, "singleton", T \in Owned => T \in left)
           c == Add(Services, i, new)
<1>1. /\ i \in Interfaces /\ T \in Impls /\ step \in {1, 2, 3, 5} /\ step \in DOMAIN Default
      /\ result \in {"none", "threw"}
  BY DefaultTypes DEF RegisterDefault, IInv
<1>2. new \in Creators /\ new.id = count + 1
  BY <1>1, NewCreator DEF Scopes, Creator
<1>3. CASE step' = 0 /\ result' = "threw"
  BY <1>3, DefaultTypes DEF WInv, Arrive, Beats, Merging
<1>4. CASE ~(step' = 0 /\ result' = "threw")
  <2>1. /\ collections' = [collections EXCEPT !["services"] = c]
        /\ step' = step + 1 /\ result' = result /\ direct' = direct
    BY <1>4 DEF RegisterDefault, Services
  <2>2. IsCollection(Services)
    BY DEF TypeOK, Services, Owners
  <2>3. step \in {1, 2, 3} => i \in Early
    BY EarlyIs
  <2> HIDE DEF i, T, new
  <2>4. /\ DOMAIN c = DOMAIN Services \union {i}
        /\ \A j \in DOMAIN Services \ {i} : c[j] = Services[j]
        /\ c[i] = Append(Entry(Services, i), new)
        /\ Entry(Services, i) \in Seq(Creators)
    BY <1>1, <1>2, <2>2, AddIsCollection
  <2>5. MainCreator(c, i) = new
    <3>1. \A q \in Seq(Creators) : Last(Append(q, new)) = new
      BY <1>2 DEF Last
    <3>2. QED
      BY <2>4, <3>1 DEF MainCreator
  <2> HIDE DEF c
  <2>6. Services' = c /\ Logging' = Logging
    BY <2>1, ReplaceCollection DEF TypeOK, Owners, Services, Logging
  <2>7. Arrive'
    <3>1. CASE step \in {1, 2, 3}
      <4>1. step \in 1..Merging /\ ~(step' > Merging) /\ result' # "built"
        BY <1>1, <2>1, <3>1 DEF Merging
      <4>2. DOMAIN Services' \subseteq direct \union Early
        BY <2>3, <2>4, <2>6, <3>1, <4>1 DEF WInv, Arrive
      <4>3. QED
        BY <2>1, <4>1, <4>2 DEF Arrive, Merging, Early
    <3>2. CASE step = 5
      <4>1. step > Merging /\ ~(step' \in 1..Merging)
        BY <2>1, <3>2 DEF Merging
      <4>2. QED
        BY <2>1, <2>6, <4>1 DEF WInv, Arrive, Early
    <3>3. QED
      BY <1>1, <3>1, <3>2
  <2>8. \A j \in DOMAIN Logging : \A n \in DOMAIN Logging[j] : Logging[j][n].id <= count + 1
    <3>1. \A j \in DOMAIN Logging : \A n \in DOMAIN Logging[j] :
            Logging[j][n].id <= count /\ Logging[j][n].id \in Nat
      <4>1. IsCollection(Logging) /\ Ordered(Logging, count)
        BY DEF TypeOK, OInv, Owners, Logging
      <4>2. \A j \in DOMAIN Logging : Logging[j] \in Seq(Creators)
        BY <4>1 DEF IsCollection
      <4>3. \A j \in DOMAIN Logging : \A n \in DOMAIN Logging[j] : Logging[j][n] \in Creators
        BY <4>2
      <4>4. QED
        BY <4>1, <4>3 DEF Ordered, OrderedEntry, Creators
    <3>2. count \in Nat
      BY DEF TypeOK
    <3>3. QED
      BY <3>1, <3>2
  <2>9. ASSUME NEW k \in DOMAIN Default, k < step + 1
        PROVE  Above(Default[k][1])'
    <3>1. CASE k = step
      <4>1. Default[k][1] = i
        BY <3>1 DEF i
      <4>2. QED
        BY <1>2, <2>4, <2>5, <2>6, <2>8, <4>1 DEF Above
    <3>2. CASE k # step
      <4>1. k < step /\ Default[k][1] # i
        BY <1>1, <2>9, <3>2, DefaultsDiffer, DefaultTypes DEF i
      <4>2. Above(Default[k][1])
        BY <4>1 DEF WInv, Beats
      <4>3. /\ Default[k][1] \in DOMAIN c
            /\ MainCreator(c, Default[k][1]) = MainCreator(Services, Default[k][1])
        BY <2>4, <4>1, <4>2 DEF Above, MainCreator
      <4>4. QED
        BY <2>6, <4>2, <4>3 DEF Above
    <3>3. QED
      BY <3>1, <3>2
  <2>10. Beats'
    <3>1. \A k \in DOMAIN Default : k < step' \/ result' = "built" => k < step + 1
      BY <1>1, <2>1
    <3>2. QED
      BY <2>9, <3>1 DEF Beats
  <2>11. QED
    BY <2>7, <2>10 DEF WInv
<1>5. QED
  BY <1>3, <1>4

LEMMA ArriveMerge ==
  ASSUME TypeOK, IInv, WInv, MergeLogging
  PROVE  WInv'
<1>1. /\ Services' = Merge(Services, Logging) /\ Logging' = LeftBehind(Services, Logging)
  BY MergedCollections DEF TypeOK, Services, Logging
<1>2. /\ step = 4 /\ step' = 5 /\ direct' = direct /\ result' = result /\ result # "built"
  BY DEF MergeLogging, Merging, IInv
<1>3. /\ DOMAIN Logging' \subseteq DOMAIN Services
      /\ \A j \in DOMAIN Logging' : j \in DOMAIN Logging /\ Logging'[j] = Logging[j]
  BY <1>1 DEF LeftBehind
<1>4. \A j \in DOMAIN Services : j \in DOMAIN Services' /\ Services'[j] = Services[j]
  BY <1>1 DEF Merge
<1>5. Arrive'
  <2>1. DOMAIN Services \subseteq direct \union Early
    BY <1>2 DEF WInv, Arrive, Merging
  <2>2. QED
    BY <1>2, <1>3, <2>1 DEF Arrive, Merging, Early
<1>6. ASSUME NEW k \in DOMAIN Default, k < 5
      PROVE  Above(Default[k][1])'
  <2>1. Above(Default[k][1])
    <3>1. k < 4
      BY <1>6, DefaultTypes
    <3>2. QED
      BY <1>2, <3>1 DEF WInv, Beats
  <2>2. /\ Default[k][1] \in DOMAIN Services'
        /\ MainCreator(Services', Default[k][1]) = MainCreator(Services, Default[k][1])
    BY <1>4, <2>1 DEF Above, MainCreator
  <2>3. QED
    BY <1>3, <2>1, <2>2 DEF Above
<1>7. Beats'
  BY <1>2, <1>6 DEF Beats
<1>8. QED
  BY <1>5, <1>7 DEF WInv

LEMMA ArriveNext == TypeOK /\ IInv /\ OInv /\ WInv /\ [Next]_vars => WInv'
<1> SUFFICES ASSUME TypeOK, IInv, OInv, WInv, [Next]_vars PROVE WInv'
  OBVIOUS
<1>1. CASE UNCHANGED vars
  BY <1>1 DEF vars, WInv, Arrive, Beats, Above, Services, Logging
<1>2. CASE UserStep
  <2>1. step' = 0 /\ result' # "built"
    BY <1>2 DEF UserStep, Register, Unregister, Configuring
  <2>2. QED
    BY <2>1, DefaultTypes DEF WInv, Arrive, Beats, Merging
<1>3. CASE Build
  <2>1. step' = 1 /\ result' # "built" /\ direct' = DOMAIN Services /\ Services' = Services
    BY <1>3 DEF Build, Configuring, Services
  <2>2. QED
    BY <2>1, DefaultTypes DEF WInv, Arrive, Beats, Merging
<1>4. CASE ConstructEngine
  <2>1. step = 6 /\ step' = 0 /\ UNCHANGED <<collections, direct>>
    BY <1>4 DEF ConstructEngine, Constructing
  <2>2. step > Merging /\ \A k \in DOMAIN Default : k < step
    BY <2>1, DefaultTypes DEF Merging
  <2>3. DOMAIN Logging \subseteq direct \union Early
    BY <2>2 DEF WInv, Arrive
  <2>4. \A k \in DOMAIN Default : Above(Default[k][1])
    BY <2>2 DEF WInv, Beats
  <2>5. Arrive'
    BY <2>1, <2>3 DEF Arrive, Logging, Merging, Early
  <2>6. Beats'
    BY <2>1, <2>4 DEF Beats, Above, Logging, Services
  <2>7. QED
    BY <2>5, <2>6 DEF WInv
<1>5. QED
  BY <1>1, <1>2, <1>3, <1>4, ArriveRegister, ArriveMerge DEF Next

(* No entry of the user's log providers stays behind, unless its interface *)
(* was among the services already.                                         *)
THEOREM LogProvidersArrive == Spec => []AllArrive
<1>1. WInv => AllArrive
  BY DEF WInv, Arrive, AllArrive, Logging
<1>2. QED
  BY <1>1, TypeInit, OrderInit, ArriveInit, Inductive, OrderNext, ArriveNext, PTL DEF Spec

(* The newest registration answers, of all that were made for an interface *)
(* in either collection, save the log providers that services of the same  *)
(* interface have kept out.                                                *)
THEOREM NewestIsMain == Spec => []MainIsNewest
<1>1. ASSUME TypeOK, IInv, OInv, WInv, result = "built", NEW o \in Owners,
             NEW i \in DOMAIN collections[o], ~(o = "logging" /\ i \in direct \ Framework)
      PROVE  /\ i \in DOMAIN Services
             /\ \A k \in DOMAIN collections[o][i] :
                  collections[o][i][k].id <= MainCreator(Services, i).id
  <2>1. CASE o = "services"
    <3> DEFINE s == Services[i]
    <3>1. i \in DOMAIN Services /\ collections[o][i] = s
      BY <1>1, <2>1 DEF Services
    <3>2. /\ IsCollection(Services) /\ WellFormed(Services) /\ Ordered(Services, count)
      BY <1>1 DEF TypeOK, IInv, CollectionsWellFormed, OInv, Owners, Services
    <3>3. s \in Seq(Creators) /\ s # <<>> /\ OrderedEntry(s, count)
      BY <3>1, <3>2 DEF IsCollection, WellFormed, NoEmptyEntry, Ordered
    <3>4. MainCreator(Services, i) = s[Len(s)]
      BY DEF MainCreator, Last
    <3> HIDE DEF s
    <3>5. Len(s) \in DOMAIN s /\ \A k \in DOMAIN s : k = Len(s) \/ k < Len(s)
      BY <3>3
    <3>6. s[Len(s)].id \in Nat /\ \A k \in DOMAIN s : s[k].id \in Nat
      <4>1. \A k \in DOMAIN s : s[k] \in Creators
        BY <3>3
      <4>2. QED
        BY <3>5, <4>1 DEF Creators
    <3>7. \A k \in DOMAIN s : s[k].id <= s[Len(s)].id
      BY <3>3, <3>5, <3>6 DEF OrderedEntry
    <3>8. QED
      BY <3>1, <3>4, <3>7
  <2>2. CASE o = "logging"
    <3>1. i \in Framework
      <4>1. i \in direct \union Early
        BY <1>1, <2>2 DEF WInv, Arrive, Logging
      <4>2. Early \subseteq Framework
        BY DEF Early, Framework
      <4>3. QED
        BY <1>1, <2>2, <4>1, <4>2
    <3>2. PICK k \in DOMAIN Default : i = Default[k][1]
      BY <3>1 DEF Framework
    <3>3. Above(i)
      BY <1>1, <3>2 DEF WInv, Beats
    <3>4. QED
      BY <1>1, <2>2, <3>3 DEF Above, Logging
  <2>3. QED
    BY <2>1, <2>2 DEF Owners
<1>2. TypeOK /\ IInv /\ OInv /\ WInv => MainIsNewest
  BY <1>1, Zenon DEF MainIsNewest
<1>3. QED
  BY <1>2, TypeInit, OrderInit, ArriveInit, Inductive, OrderNext, ArriveNext, PTL DEF Spec

-----------------------------------------------------------------------------
(* What module ServiceProvider assumes of the collections an application   *)
(* is built from.                                                          *)

(* The implementations of every interface, and its scope: what the         *)
(* provider reads of the collection it is made with.                       *)
Provided(c) ==
  [creators |-> [i \in Interfaces |-> [k \in DOMAIN Entry(c, i) |-> c[i][k].impl]],
   scope    |-> [i \in Interfaces |->
                   IF i \in DOMAIN c THEN MainCreator(c, i).scope ELSE "transient"]]

(* The interfaces somebody registers. *)
Offered == {s[1] : s \in UserServices} \union Framework \union {"ILogProvider"}

OnlyOffered == \A o \in Owners : DOMAIN collections[o] \subseteq Offered

LEMMA OfferedInit == Init => OnlyOffered
  BY DEF Init, OnlyOffered, Offered, Add, NoServices

LEMMA OfferedNext == TypeOK /\ OnlyOffered /\ [Next]_vars => OnlyOffered'
<1> SUFFICES ASSUME TypeOK, OnlyOffered, [Next]_vars PROVE OnlyOffered'
  OBVIOUS
<1>1. collections \in [Owners -> Range(collections)]
  BY DEF TypeOK
<1>2. ASSUME NEW o \in Owners, NEW c, collections' = [collections EXCEPT ![o] = c],
             DOMAIN c \subseteq Offered
      PROVE  OnlyOffered'
  BY <1>1, <1>2, ReplaceCollection DEF OnlyOffered, Offered
<1>3. ASSUME NEW o \in Owners, NEW s \in UserServices, NEW scope \in Scopes,
             Register(o, s[1], s[2], scope)
      PROVE  OnlyOffered'
  <2> DEFINE c == Add(collections[o], s[1], Creator(s[2], scope, TRUE))
  <2>1. collections' = [collections EXCEPT ![o] = c]
    BY <1>3 DEF Register
  <2>2. DOMAIN c = DOMAIN collections[o] \union {s[1]}
    BY DEF Add
  <2>3. DOMAIN c \subseteq Offered
    BY <2>2 DEF OnlyOffered, Offered
  <2>4. QED
    BY <1>2, <2>1, <2>3
<1>4. ASSUME NEW o \in Owners, NEW i \in Interfaces, Unregister(o, i)
      PROVE  OnlyOffered'
  <2>1. collections' = [collections EXCEPT ![o] = RemoveAll(collections[o], i)]
    BY <1>4 DEF Unregister
  <2>2. DOMAIN RemoveAll(collections[o], i) \subseteq Offered
    BY DEF RemoveAll, OnlyOffered
  <2>3. QED
    BY <1>2, <2>1, <2>2
<1>5. CASE RegisterDefault
  <2>1. CASE UNCHANGED collections
    BY <2>1 DEF OnlyOffered, Offered
  <2>2. CASE ~UNCHANGED collections
    <3> DEFINE i == Default[step][1]
               new == Creator(Default[step][2], "singleton",
                              Default[step][2] \in Owned => Default[step][2] \in left)
               c == Add(Services, i, new)
    <3>1. collections' = [collections EXCEPT !["services"] = c]
      BY <1>5, <2>2 DEF RegisterDefault, Services
    <3>2. i \in Framework
      BY <1>5 DEF RegisterDefault, Framework
    <3>3. DOMAIN c = DOMAIN Services \union {i}
      BY DEF Add
    <3>4. DOMAIN c \subseteq Offered
      BY <3>2, <3>3 DEF OnlyOffered, Offered, Services, Owners
    <3> HIDE DEF c
    <3>5. QED
      BY <1>2, <3>1, <3>4 DEF Owners
  <2>3. QED
    BY <2>1, <2>2
<1>6. CASE MergeLogging
  <2>1. /\ collections'["services"] = Merge(Services, Logging)
        /\ collections'["logging"] = LeftBehind(Services, Logging)
    BY <1>1, <1>6, MergedCollections DEF Services, Logging
  <2>2. DOMAIN Services \subseteq Offered /\ DOMAIN Logging \subseteq Offered
    BY DEF OnlyOffered, Owners, Services, Logging
  <2>3. QED
    BY <2>1, <2>2 DEF Merge, LeftBehind, OnlyOffered, Offered, Owners
<1>7. CASE Build \/ ConstructEngine \/ UNCHANGED vars
  BY <1>7 DEF Build, ConstructEngine, vars, OnlyOffered, Offered
<1>8. QED
  BY <1>3, <1>4, <1>5, <1>6, <1>7 DEF Next, UserStep

(* The collection an application is built with meets all that module       *)
(* ServiceProvider assumes, if the user registers nothing as SelfType, the *)
(* provider's own type, which add() would let through: no implementation   *)
(* twice, nothing for SelfType, one scope for all creators of an           *)
(* interface. And what the engine resolves first is there.                 *)
THEOREM BuiltForProvider ==
  ASSUME NEW SelfType \in Interfaces \ Offered
  PROVE  Spec => [](step = Constructing \/ result = "built" =>
           /\ Provided(Services).creators \in [Interfaces -> Seq(Impls)]
           /\ Provided(Services).scope \in [Interfaces -> Scopes]
           /\ \A i \in Interfaces : IsInjective(Provided(Services).creators[i])
           /\ Provided(Services).creators[SelfType] = <<>>
           /\ \A i \in DOMAIN Services : \A k \in DOMAIN Services[i] :
                Services[i][k].scope = Provided(Services).scope[i]
           /\ \A i \in Framework : Provided(Services).creators[i] # <<>>)
<1> DEFINE c == Services
           Meets ==
             /\ Provided(c).creators \in [Interfaces -> Seq(Impls)]
             /\ Provided(c).scope \in [Interfaces -> Scopes]
             /\ \A i \in Interfaces : IsInjective(Provided(c).creators[i])
             /\ Provided(c).creators[SelfType] = <<>>
             /\ \A i \in DOMAIN c : \A k \in DOMAIN c[i] :
                  c[i][k].scope = Provided(c).scope[i]
             /\ \A i \in Framework : Provided(c).creators[i] # <<>>
<1>1. ASSUME TypeOK, IInv, WInv, OnlyOffered, step = Constructing \/ result = "built"
      PROVE  Meets
  <2>1. IsCollection(c) /\ WellFormed(c) /\ DOMAIN c \subseteq Offered
    BY <1>1 DEF TypeOK, IInv, CollectionsWellFormed, OnlyOffered, Owners, Services
  <2>2. \A i \in DOMAIN c : i \in Interfaces /\ c[i] \in Seq(Creators) /\ GoodEntry(c[i])
    BY <2>1, ByEntry DEF IsCollection
  <2> HIDE DEF c
  <2>3. ASSUME NEW i \in DOMAIN c
        PROVE  /\ [k \in DOMAIN c[i] |-> c[i][k].impl] \in Seq(Impls)
               /\ [k \in DOMAIN c[i] |-> c[i][k].impl] # <<>>
               /\ IsInjective([k \in DOMAIN c[i] |-> c[i][k].impl])
               /\ MainCreator(c, i).scope \in Scopes
               /\ \A k \in DOMAIN c[i] : c[i][k].scope = MainCreator(c, i).scope
    <3>1. c[i] \in Seq(Creators) /\ GoodEntry(c[i]) /\ c[i] # <<>>
      BY <2>2 DEF GoodEntry
    <3>2. /\ Len(c[i]) \in Nat /\ DOMAIN c[i] = 1..Len(c[i]) /\ Len(c[i]) \in DOMAIN c[i]
          /\ \A k \in DOMAIN c[i] : c[i][k] \in Creators
      BY <3>1
    <3>3. \A k \in DOMAIN c[i] : c[i][k].impl \in Impls /\ c[i][k].scope \in Scopes
      BY <3>2 DEF Creators
    <3>4. MainCreator(c, i) = c[i][Len(c[i])]
      BY DEF MainCreator, Last
    <3>5. [k \in DOMAIN c[i] |-> c[i][k].impl] \in Seq(Impls)
      BY <3>2, <3>3
    <3>6. [k \in DOMAIN c[i] |-> c[i][k].impl] # <<>>
      BY <3>2
    <3>7. IsInjective([k \in DOMAIN c[i] |-> c[i][k].impl])
      BY <3>1 DEF IsInjective, GoodEntry
    <3>8. QED
      BY <3>1, <3>2, <3>3, <3>4, <3>5, <3>6, <3>7 DEF GoodEntry
  <2>4. \A i \in Interfaces :
          /\ Provided(c).creators[i] =
               IF i \in DOMAIN c THEN [k \in DOMAIN c[i] |-> c[i][k].impl] ELSE <<>>
          /\ Provided(c).scope[i] =
               IF i \in DOMAIN c THEN MainCreator(c, i).scope ELSE "transient"
    <3>1. ASSUME NEW i \in Interfaces, i \notin DOMAIN c
          PROVE  [k \in DOMAIN Entry(c, i) |-> c[i][k].impl] = <<>>
      <4>1. DOMAIN Entry(c, i) = {}
        BY <3>1 DEF Entry
      <4>2. QED
        BY <4>1
    <3>2. \A i \in DOMAIN c : Entry(c, i) = c[i]
      BY DEF Entry
    <3>3. QED
      BY <3>1, <3>2 DEF Provided
  <2>5. IsInjective(<<>>) /\ <<>> \in Seq(Impls) /\ "transient" \in Scopes
    BY DEF IsInjective, Scopes
  <2>6. SelfType \notin DOMAIN c /\ SelfType \in Interfaces
    BY <2>1
  <2>7. \A i \in Framework : i \in DOMAIN c
    <3>1. \A k \in DOMAIN Default : k < step \/ result = "built"
      BY <1>1, DefaultTypes DEF Constructing
    <3>2. QED
      BY <1>1, <3>1 DEF WInv, Beats, Above, Framework, c
  <2>8. /\ Provided(c).creators \in [Interfaces -> Seq(Impls)]
        /\ Provided(c).scope \in [Interfaces -> Scopes]
    <3>1. /\ \A i \in Interfaces :
               Provided(c).creators[i] \in Seq(Impls) /\ Provided(c).scope[i] \in Scopes
      BY <2>3, <2>4, <2>5
    <3>2. QED
      BY <3>1 DEF Provided
  <2>9. \A i \in Interfaces : IsInjective(Provided(c).creators[i])
    BY <2>3, <2>4, <2>5
  <2>10. QED
    BY <2>2, <2>3, <2>4, <2>6, <2>7, <2>8, <2>9
<1>2. TypeOK /\ IInv /\ WInv /\ OnlyOffered
        => (step = Constructing \/ result = "built" => Meets)
  BY <1>1
<1>3. QED
  BY <1>2, TypeInit, OrderInit, ArriveInit, OfferedInit, Inductive, OrderNext, ArriveNext,
     OfferedNext, PTL DEF Spec
=============================================================================
