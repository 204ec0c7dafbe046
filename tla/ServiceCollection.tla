------------------------- MODULE ServiceCollection -------------------------
(***************************************************************************)
(* The operations of a service collection (Include/DI/ServiceProvider.hpp, *)
(* class ServiceCollection): a map from interfaces to the creators         *)
(* registered for them, the newest last. A collection is a function whose  *)
(* domain are the interfaces that have an entry; getMainCreator and        *)
(* getServicesScope read the back of an entry without asking if there is   *)
(* one, so an entry must never be empty.                                   *)
(***************************************************************************)
EXTENDS Integers, Sequences, SequencesExt

CONSTANTS
  Interfaces,  \* type ids services are registered by
  Impls        \* implementation types

Scopes == {"singleton", "scoped", "transient"}

(* "id" tells registrations apart, in the order they were made; "owns" is  *)
(* false for a factory that has nothing left to hand out.                  *)
Creators == [impl : Impls, scope : Scopes, id : Nat, owns : BOOLEAN]

IsCollection(c) == DOMAIN c \subseteq Interfaces /\ c \in [DOMAIN c -> Seq(Creators)]

NoServices == [i \in {} |-> <<>>]

Entry(c, i) == IF i \in DOMAIN c THEN c[i] ELSE <<>>

MainCreator(c, i) == Last(c[i])

IsAlreadyRegistered(c, i, new) == \E k \in DOMAIN Entry(c, i) : c[i][k].impl = new.impl

ScopeMismatch(c, i, new) == i \in DOMAIN c /\ MainCreator(c, i).scope # new.scope

(* Otherwise add throws, and leaves the collection as it is. *)
Accepts(c, i, new) == ~IsAlreadyRegistered(c, i, new) /\ ~ScopeMismatch(c, i, new)

(* Mutation: the new creator is put before the others. *)
AddFirst(c, i, new) ==
  [j \in DOMAIN c \union {i} |-> IF j = i THEN <<new>> \o Entry(c, i) ELSE c[j]]

Add(c, i, new) ==
  [j \in DOMAIN c \union {i} |-> IF j = i THEN Append(Entry(c, i), new) ELSE c[j]]

(* Mutation: the creators are erased, the entry stays. *)
RemoveAllKeepsEntry(c, i) == [j \in DOMAIN c |-> IF j = i THEN <<>> ELSE c[j]]

RemoveAll(c, i) == [j \in DOMAIN c \ {i} |-> c[j]]

(* Mutation: the creators of both are put together. *)
MergeAppends(c, d) == [i \in DOMAIN c \union DOMAIN d |-> Entry(c, i) \o Entry(d, i)]

(* Entries move over from d to c whole, unless c has that interface; then  *)
(* they stay behind in d.                                                  *)
Merge(c, d) == [i \in DOMAIN c \union DOMAIN d |-> IF i \in DOMAIN c THEN c[i] ELSE d[i]]

(* Mutation: what is moved is copied. *)
LeftBehindAll(c, d) == d

(* Mutation: what is not moved is dropped. *)
LeftBehindNothing(c, d) == NoServices

LeftBehind(c, d) == [i \in DOMAIN c \intersect DOMAIN d |-> d[i]]

-----------------------------------------------------------------------------
(* What a provider relies on. *)

NoEmptyEntry(c) == \A i \in DOMAIN c : c[i] # <<>>

UniformScope(c) ==
  \A i \in DOMAIN c : \A j, k \in DOMAIN c[i] : c[i][j].scope = c[i][k].scope

NoDuplicateImpl(c) ==
  \A i \in DOMAIN c : \A j, k \in DOMAIN c[i] : c[i][j].impl = c[i][k].impl => j = k

WellFormed(c) == NoEmptyEntry(c) /\ UniformScope(c) /\ NoDuplicateImpl(c)
=============================================================================
