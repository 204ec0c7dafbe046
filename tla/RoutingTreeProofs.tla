-------------------------- MODULE RoutingTreeProofs ---------------------------
(***************************************************************************)
(* For any routes, words, methods and orders of equal precedences: match() *)
(* answers exactly the requests an endpoint fits, with one that no other   *)
(* outranks, and no two compiled endpoints are the same route.             *)
(*                                                                         *)
(* The search is a recursive function on the nodes. That it satisfies its  *)
(* equation, and what it answers, are proved from the deepest nodes up,    *)
(* with sets of natural numbers in the place of induction on the depth.    *)
(***************************************************************************)
EXTENDS RoutingTree, WellFoundedInduction, TLAPS

(* Every endpoint this application can register. *)
Registrable ==
  {[method |-> route.method, template |-> route.template, copy |-> copy] :
     route \in menu, copy \in 1..Copies}

(* The tree is that of the compiled endpoints, in some order of the nodes. *)
TreeOf(order) ==
  /\ order \in Orders \/ compiled = {}
  /\ root = CreateRoutingNodes(compiled, order)

Compiled == \E order \in Orders \cup {<<>>} : TreeOf(order)

Invariant ==
  /\ menu \in Menus
  /\ endpoints \subseteq Registrable /\ compiled \subseteq Registrable
  /\ Compiled
  /\ ~AlreadyRegistered(root)

-----------------------------------------------------------------------------
(* Natural numbers *)

LEMMA Least ==
  ASSUME NEW S \in SUBSET Nat, S # {}
  PROVE  \E n \in S : \A m \in S : n <= m
<1>1. PICK n \in S : \A m \in S : <<m, n>> \notin OpToRel(<, Nat)
  BY WFMin, NatLessThanWellFounded, Zenon
<1>2. \A m \in S : ~(m < n)
  BY <1>1 DEF OpToRel
<1>3. QED
  BY <1>2

LEMMA Greatest ==
  ASSUME NEW S \in SUBSET Nat, S # {}, NEW top \in Nat, \A n \in S : n <= top
  PROVE  \E n \in S : \A m \in S : n >= m
<1> DEFINE R == {top - n : n \in S}
<1>1. R \in SUBSET Nat /\ R # {}
  <2>1. \A n \in S : n \in Nat /\ n <= top
    OBVIOUS
  <2>2. \A n \in S : top - n \in Nat
    BY <2>1
  <2>3. QED
    BY <2>2
<1>2. PICK r \in R : \A q \in R : r <= q
  BY <1>1, Least
<1>3. PICK n \in S : r = top - n
  BY <1>2
<1>4. ASSUME NEW m \in S PROVE n >= m
  <2>1. r <= top - m
    BY <1>2
  <2>2. QED
    BY <1>3, <2>1
<1>5. QED
  BY <1>4

LEMMA EveryNat ==
  ASSUME NEW S, 0 \in S, \A n \in Nat : n \in S => n + 1 \in S
  PROVE  \A n \in Nat : n \in S
<1>1. SUFFICES ASSUME Nat \ S # {} PROVE FALSE
  OBVIOUS
<1>2. PICK n \in Nat \ S : \A m \in Nat \ S : n <= m
  <2>1. Nat \ S \in SUBSET Nat
    OBVIOUS
  <2>2. QED
    BY <1>1, <2>1, Least, Zenon
<1>3. n # 0 /\ n - 1 \in Nat /\ (n - 1) + 1 = n
  BY <1>2
<1>4. n - 1 \in S
  BY <1>2, <1>3
<1>5. QED
  BY <1>2, <1>3, <1>4

-----------------------------------------------------------------------------
(* Segments *)

Highest == 140

(* A parameter's name neither matches nor ranks. *)
LEMMA SameSegment ==
  ASSUME NEW s, WellFormed(s)
  PROVE  /\ Same(s).kind = s.kind /\ s.kind \in Kinds
         /\ Precedence(Same(s)) = Precedence(s)
         /\ Precedence(s) \in Nat /\ Precedence(s) <= Highest /\ Highest \in Nat
         /\ \A word : Matches(Same(s), word) = Matches(s, word)
<1>1. s.kind \in Kinds /\ \A field \in {"kind"} \cup Arguments(s.kind) :
        field \in DOMAIN s \ {"name"}
  BY DEF WellFormed
<1>2. \A field \in {"kind"} \cup Arguments(s.kind) : Same(s)[field] = s[field]
  BY <1>1 DEF Same
<1>3. Same(s).kind = s.kind
  BY <1>2
<1>4. Precedence(Same(s)) = Precedence(s)
  BY <1>3 DEF Precedence
<1>5. Precedence(s) \in Nat /\ Precedence(s) <= Highest /\ Highest \in Nat
  <2>1. Precedence(s) \in 0..140
    BY <1>1 DEF Kinds, Precedence
  <2>2. Highest = 140
    BY DEF Highest
  <2>3. QED
    BY <2>1, <2>2
<1>6. ASSUME NEW word PROVE Matches(Same(s), word) = Matches(s, word)
  BY <1>1, <1>2, <1>3 DEF Matches, Kinds, Arguments
<1>7. QED
  BY <1>1, <1>3, <1>4, <1>5, <1>6

(* Segments that are not the same differ in their kind or an argument.     *)
LEMMA SegmentsDiffer ==
  ASSUME NEW s, NEW t, WellFormed(s), WellFormed(t), Same(s) # Same(t)
  PROVE  \E field \in DOMAIN s \ {"name"} : field \in DOMAIN t => s[field] # t[field]
<1>1. CASE s.kind # t.kind
  BY <1>1 DEF WellFormed
<1>2. CASE s.kind = t.kind
  <2>1. DOMAIN s \ {"name"} = DOMAIN t \ {"name"}
    BY <1>2 DEF WellFormed
  <2>2. QED
    BY <2>1 DEF Same
<1>3. QED
  BY <1>1, <1>2
-----------------------------------------------------------------------------
(* Nodes *)

Segments == UNION {Range(Way(route.template)) : route \in UNION Menus}

(* The endpoint's template begins with the segments of the node. *)
OnWay(node, e) ==
  /\ Len(node) <= Len(e.template)
  /\ \A j \in 1..Len(node) : node[j] = Same(e.template[j])

LEMMA Ways ==
  ASSUME menu \in Menus, NEW e \in Registrable
  PROVE  /\ e.method \in Methods /\ e # None
         /\ Len(e.template) \in Nat /\ Len(e.template) >= 1
         /\ DOMAIN e.template = 1..Len(e.template)
         /\ \A k \in DOMAIN e.template : WellFormed(e.template[k])
         /\ Way(e.template) \in Seq(Segments)
         /\ Len(Way(e.template)) = Len(e.template)
         /\ DOMAIN Way(e.template) = 1..Len(e.template)
         /\ \A k \in DOMAIN e.template : Way(e.template)[k] = Same(e.template[k])
         /\ \A order \in Orders : Prefixes(Way(e.template)) \subseteq DOMAIN order
<1>1. PICK route \in menu, copy \in 1..Copies :
        e = [method |-> route.method, template |-> route.template, copy |-> copy]
  BY DEF Registrable
<1>2. route \in UNION Menus /\ e.method = route.method /\ e.template = route.template
  BY <1>1
<1>3. /\ e.method \in Methods /\ e # None
      /\ e.template \in Seq(Range(e.template)) \ {<<>>}
      /\ \A k \in DOMAIN e.template : WellFormed(e.template[k])
      /\ \A order \in Orders : Prefixes(Way(e.template)) \subseteq DOMAIN order
  BY <1>1, <1>2, RouterAssumption
<1>4. Len(e.template) \in Nat /\ DOMAIN e.template = 1..Len(e.template) /\ Len(e.template) >= 1
  BY <1>3
<1>5. \A k \in DOMAIN e.template : Way(e.template)[k] = Same(e.template[k])
  BY DEF Way
<1>6. DOMAIN Way(e.template) = 1..Len(e.template)
  BY <1>4 DEF Way
<1>7. \A k \in 1..Len(e.template) : Way(e.template)[k] \in Segments
  BY <1>2, <1>6 DEF Segments, Range
<1>8. Way(e.template) = [k \in 1..Len(e.template) |-> Way(e.template)[k]]
  BY <1>4 DEF Way
<1>9. Way(e.template) \in Seq(Segments) /\ Len(Way(e.template)) = Len(e.template)
  BY <1>4, <1>7, <1>8
<1>10. QED
  BY <1>3, <1>4, <1>5, <1>6, <1>9

LEMMA Beginnings ==
  ASSUME NEW S, NEW s \in Seq(S), NEW k \in 0..Len(s)
  PROVE  LET t == SubSeq(s, 1, k)
         IN  t \in Seq(S) /\ Len(t) = k /\ \A j \in 1..k : t[j] = s[j]
OBVIOUS

(* Nodes are beginnings of templates. *)
LEMMA NodeParts ==
  ASSUME Invariant, NEW n \in Nodes(compiled)
  PROVE  /\ n \in Seq(Segments)
         /\ n # <<>> => \E e \in compiled : OnWay(n, e) /\ n \in Prefixes(Way(e.template))
<1>1. CASE n = <<>>
  BY <1>1
<1>2. CASE n # <<>>
  <2>1. PICK e \in compiled : n \in Prefixes(Way(e.template))
    BY <1>2 DEF Nodes
  <2>2. e \in Registrable /\ menu \in Menus
    BY DEF Invariant
  <2>3. PICK k \in 0..Len(e.template) : n = SubSeq(Way(e.template), 1, k)
    BY <2>1, <2>2, Ways DEF Prefixes
  <2>4. n \in Seq(Segments) /\ Len(n) = k /\ \A j \in 1..k : n[j] = Way(e.template)[j]
    BY <2>2, <2>3, Ways, Beginnings
  <2>5. OnWay(n, e)
    BY <2>2, <2>4, Ways DEF OnWay
  <2>6. QED
    BY <2>1, <2>4, <2>5
<1>3. QED
  BY <1>1, <1>2

(* The beginnings of a compiled endpoint's template are nodes. *)
LEMMA WayNodes ==
  ASSUME Invariant, NEW e \in compiled, NEW k \in 0..Len(e.template)
  PROVE  LET n == SubSeq(Way(e.template), 1, k)
         IN  n \in Nodes(compiled) /\ Len(n) = k /\ OnWay(n, e)
<1> DEFINE n == SubSeq(Way(e.template), 1, k)
<1>1. e \in Registrable /\ menu \in Menus
  BY DEF Invariant
<1>2. Len(n) = k /\ \A j \in 1..k : n[j] = Way(e.template)[j]
  BY <1>1, Ways, Beginnings
<1>3. n \in Nodes(compiled)
  BY <1>1, Ways DEF Nodes, Prefixes
<1>4. OnWay(n, e)
  BY <1>1, <1>2, Ways DEF OnWay
<1>5. QED
  BY <1>2, <1>3, <1>4

LEMMA EndOfWay ==
  ASSUME Invariant, NEW e \in compiled, NEW n \in Nodes(compiled)
  PROVE  Way(e.template) = n <=> OnWay(n, e) /\ Len(n) = Len(e.template)
<1>1. e \in Registrable /\ menu \in Menus
  BY DEF Invariant
<1>2. n \in Seq(Segments) /\ Way(e.template) \in Seq(Segments)
  BY <1>1, NodeParts, Ways
<1>3. QED
  BY <1>1, <1>2, Ways DEF OnWay

LEMMA ChildParts ==
  ASSUME Invariant, NEW node, NEW n \in Children(Nodes(compiled), node)
  PROVE  /\ n \in Nodes(compiled) /\ n # <<>> /\ Front(n) = node
         /\ n \in Seq(Segments) /\ node \in Seq(Segments)
         /\ Len(n) = Len(node) + 1 /\ Last(n) = n[Len(n)]
         /\ \A j \in 1..Len(node) : n[j] = node[j]
<1>1. n \in Nodes(compiled) /\ n # <<>> /\ Front(n) = node
  BY DEF Children
<1>2. n \in Seq(Segments)
  BY <1>1, NodeParts
<1>3. QED
  BY <1>1, <1>2, Beginnings DEF Front, Last

(* Siblings have segments of their own. *)
LEMMA Siblings ==
  ASSUME Invariant, NEW node, NEW m \in Children(Nodes(compiled), node),
         NEW n \in Children(Nodes(compiled), node), Last(m) = Last(n)
  PROVE  m = n
<1>1. /\ m \in Seq(Segments) /\ n \in Seq(Segments) /\ node \in Seq(Segments)
      /\ Len(m) = Len(node) + 1 /\ Len(n) = Len(node) + 1
      /\ m[Len(node) + 1] = n[Len(node) + 1]
      /\ \A j \in 1..Len(node) : m[j] = n[j]
  BY ChildParts
<1>2. \A j \in 1..Len(m) : m[j] = n[j]
  BY <1>1
<1>3. QED
  BY <1>1, <1>2

(* From a node on the way to an endpoint one child leads further.          *)
LEMMA WayOn ==
  ASSUME Invariant, NEW e \in compiled, NEW node \in Nodes(compiled),
         OnWay(node, e), Len(node) < Len(e.template)
  PROVE  \E n \in Children(Nodes(compiled), node) : OnWay(n, e)
<1>1. e \in Registrable /\ menu \in Menus /\ node \in Seq(Segments)
  BY NodeParts DEF Invariant
<1>2. Len(node) \in Nat /\ Len(node) + 1 \in 0..Len(e.template)
  BY <1>1, Ways
<1> DEFINE n == SubSeq(Way(e.template), 1, Len(node) + 1)
<1>3. n \in Nodes(compiled) /\ Len(n) = Len(node) + 1 /\ OnWay(n, e)
  BY <1>2, WayNodes
<1>4. n \in Seq(Segments)
  BY <1>3, NodeParts
<1>5. Front(n) \in Seq(Segments) /\ Len(Front(n)) = Len(node)
      /\ \A j \in 1..Len(node) : Front(n)[j] = n[j]
  BY <1>2, <1>3, <1>4, Beginnings DEF Front
<1>6. \A j \in 1..Len(node) : n[j] = node[j]
  BY <1>2, <1>3 DEF OnWay
<1>7. Front(n) = node
  BY <1>1, <1>5, <1>6
<1>8. n # <<>>
  <2> HIDE DEF n
  <2>1. Len(<<>>) = 0
    OBVIOUS
  <2>2. QED
    BY <1>2, <1>3, <2>1
<1>9. QED
  BY <1>3, <1>7, <1>8 DEF Children

LEMMA WayBack ==
  ASSUME Invariant, NEW e \in compiled, NEW node, NEW n \in Children(Nodes(compiled), node),
         OnWay(n, e)
  PROVE  OnWay(node, e) /\ Last(n) = Same(e.template[Len(n)]) /\ Len(n) \in DOMAIN e.template
<1>1. e \in Registrable /\ menu \in Menus
  BY DEF Invariant
<1>2. QED
  BY <1>1, ChildParts, Ways DEF OnWay

-----------------------------------------------------------------------------
(* The order of children *)

LEMMA NodePrecedence ==
  ASSUME Invariant, NEW n \in Nodes(compiled), n # <<>>
  PROVE  Precedence(Last(n)) \in Nat /\ Precedence(Last(n)) <= Highest /\ Highest \in Nat
<1>1. PICK e \in compiled : OnWay(n, e)
  BY NodeParts
<1>2. e \in Registrable /\ menu \in Menus /\ n \in Seq(Segments)
  BY NodeParts DEF Invariant
<1>3. Last(n) = Same(e.template[Len(n)]) /\ WellFormed(e.template[Len(n)])
  BY <1>1, <1>2, Ways DEF OnWay, Last
<1>4. QED
  BY <1>3, SameSegment

LEMMA Parts ==
  ASSUME Invariant
  PROVE  /\ DOMAIN root.children = Nodes(compiled)
         /\ \A node \in Nodes(compiled) :
              /\ root.children[node] = Children(Nodes(compiled), node)
              /\ root.endpointsMap[node] = {e \in compiled : Way(e.template) = node}
BY DEF Invariant, Compiled, TreeOf, CreateRoutingNodes

(* Of any children of a node, one comes before the others.                 *)
LEMMA FirstIsBefore ==
  ASSUME Invariant, NEW node \in Nodes(compiled),
         NEW S \in SUBSET Children(Nodes(compiled), node), S # {}
  PROVE  /\ First(S) \in S
         /\ \A n \in S : Precedence(Last(First(S))) >= Precedence(Last(n))
<1>1. PICK order \in Orders \cup {<<>>} : TreeOf(order)
  BY DEF Invariant, Compiled
<1>2. \A n \in S : n \in Nodes(compiled) /\ n # <<>> /\ Front(n) = node
  BY DEF Children
<1>3. /\ \A n \in S : Precedence(Last(n)) \in Nat /\ Precedence(Last(n)) <= Highest
      /\ Highest \in Nat
  BY <1>2, NodePrecedence
<1>4. \A n \in S : n \in DOMAIN order /\ order[n] \in Nat
  <2>1. compiled # {}
    BY <1>2 DEF Nodes
  <2>2. order \in Orders
    BY <1>1, <2>1 DEF TreeOf
  <2>3. ASSUME NEW n \in S PROVE n \in DOMAIN order
    <3>1. PICK e \in compiled : n \in Prefixes(Way(e.template))
      BY <1>2, NodeParts
    <3>2. e \in Registrable /\ menu \in Menus
      BY DEF Invariant
    <3>3. QED
      BY <2>2, <3>1, <3>2, Ways
  <2>4. QED
    BY <2>2, <2>3, RouterAssumption
<1>5. PICK best \in S : \A n \in S : Precedence(Last(best)) >= Precedence(Last(n))
  <2> DEFINE R == {Precedence(Last(n)) : n \in S}
  <2>1. R \in SUBSET Nat /\ R # {} /\ \A r \in R : r <= Highest
    BY <1>3
  <2>2. PICK r \in R : \A q \in R : r >= q
    BY <1>3, <2>1, Greatest
  <2>3. QED
    BY <2>2
<1>6. PICK m \in S : /\ Precedence(Last(m)) = Precedence(Last(best))
                     /\ \A n \in S : Precedence(Last(n)) = Precedence(Last(best)) =>
                                       order[m] <= order[n]
  <2> DEFINE T == {n \in S : Precedence(Last(n)) = Precedence(Last(best))}
             R == {order[n] : n \in T}
  <2>1. R \in SUBSET Nat /\ R # {}
    BY <1>4, <1>5
  <2>2. PICK r \in R : \A q \in R : r <= q
    BY <2>1, Least
  <2>3. PICK m \in T : r = order[m]
    BY <2>2
  <2>4. QED
    BY <2>2, <2>3
<1>7. ASSUME NEW n \in S, n # m PROVE <<m, n>> \in root.sorted
  <2>1. order \in Orders
    BY <1>1, <1>2 DEF TreeOf, Nodes
  <2>2. Precedence(Last(m)) = Precedence(Last(n)) => order[m] # order[n]
    BY <1>2, <1>4, <1>7, <2>1, RouterAssumption
  <2>3. Before(m, n, order)
    BY <1>3, <1>4, <1>5, <1>6, <2>2 DEF Before
  <2>4. <<m, n>> \in {pair \in Children(Nodes(compiled), node) \X Children(Nodes(compiled), node) :
                        Before(pair[1], pair[2], order)}
    BY <2>3
  <2>5. QED
    BY <1>1, <2>4 DEF TreeOf, CreateRoutingNodes, SortByPrecedence
<1>8. \A n \in S \ {First(S)} : <<First(S), n>> \in root.sorted
  BY <1>7 DEF First
<1>9. First(S) \in S
  BY <1>7 DEF First
<1>10. ASSUME NEW n \in S PROVE Precedence(Last(First(S))) >= Precedence(Last(n))
  <2>1. CASE n = First(S)
    BY <1>3, <2>1
  <2>2. CASE n # First(S)
    <3>1. PICK other \in Nodes(compiled) :
            <<First(S), n>> \in {pair \in Children(Nodes(compiled), other) \X
                                            Children(Nodes(compiled), other) :
                                    Before(pair[1], pair[2], order)}
      <4>1. root.sorted = UNION {{pair \in Children(Nodes(compiled), other) \X
                                             Children(Nodes(compiled), other) :
                                     Before(pair[1], pair[2], order)} : other \in Nodes(compiled)}
        BY <1>1 DEF TreeOf, CreateRoutingNodes, SortByPrecedence
      <4>2. <<First(S), n>> \in root.sorted
        BY <1>8, <2>2
      <4>3. QED
        BY <4>1, <4>2
    <3>2. Before(First(S), n, order)
      BY <3>1
    <3>3. QED
      BY <1>3, <1>9, <3>2 DEF Before
  <2>3. QED
    BY <2>1, <2>2
<1>11. QED
  BY <1>9, <1>10
-----------------------------------------------------------------------------
(* The search: its answers at the nodes that a path is long enough for.    *)

Deep(path) == {n \in DOMAIN root.children : Len(n) < Len(path)}

Step(answer, node, method, path) ==
  IF ~MatchesNode(node, path[Len(node) + 1]) THEN None
  ELSE IF Len(node) = Len(path) - 1 THEN GetEndpoint(node, method)
  ELSE LET answering == {n \in root.children[node] : answer[n] # None}
       IN  IF answering = {} THEN None ELSE answer[First(answering)]

(* A step uses the answers of the children only. *)
LEMMA StepLooksDown ==
  ASSUME Invariant, NEW method, NEW path, Len(path) \in Nat, NEW node \in Deep(path), NEW f, NEW g,
         \A n \in Deep(path) : Len(n) = Len(node) + 1 => f[n] = g[n]
  PROVE  Step(f, node, method, path) = Step(g, node, method, path)
<1>1. node \in Nodes(compiled) /\ Len(node) < Len(path) /\ Len(node) \in Nat
  <2>1. node \in Nodes(compiled) /\ Len(node) < Len(path)
    BY Parts DEF Deep
  <2>2. QED
    BY <2>1, NodeParts
<1>2. CASE Len(node) = Len(path) - 1
  BY <1>2 DEF Step
<1>3. CASE Len(node) # Len(path) - 1
  <2>1. ASSUME NEW n \in root.children[node] PROVE f[n] = g[n]
    <3>1. n \in Children(Nodes(compiled), node)
      BY <1>1, Parts
    <3>2. n \in Nodes(compiled) /\ Len(n) = Len(node) + 1
      BY <3>1, ChildParts
    <3>3. n \in Deep(path)
      BY <1>1, <1>3, <3>2, Parts DEF Deep
    <3>4. QED
      BY <3>2, <3>3
  <2> DEFINE F == {n \in root.children[node] : f[n] # None}
             G == {n \in root.children[node] : g[n] # None}
  <2>2. F = G
    BY <2>1
  <2>3. F # {} => f[First(F)] = g[First(F)]
    <3>1. SUFFICES ASSUME F # {} PROVE First(F) \in root.children[node]
      BY <2>1
    <3>2. root.children[node] = Children(Nodes(compiled), node)
      BY <1>1, Parts
    <3>3. F \in SUBSET Children(Nodes(compiled), node)
      BY <3>2
    <3>4. First(F) \in F
      BY <1>1, <3>1, <3>3, FirstIsBefore
    <3>5. QED
      BY <3>4
  <2>4. QED
    BY <1>3, <2>2, <2>3 DEF Step
<1>4. QED
  BY <1>2, <1>3

(* There is a function whose values are steps, from the deepest nodes up.  *)
LEMMA Searchable ==
  ASSUME Invariant, NEW method, NEW path, Len(path) \in Nat
  PROVE  \E f : f = [node \in Deep(path) |-> Step(f, node, method, path)]
<1> DEFINE Right(f, k) == \A node \in Deep(path) :
                            Len(node) + k >= Len(path) => f[node] = Step(f, node, method, path)
           S == {k \in Nat : \E f : f = [node \in Deep(path) |-> f[node]] /\ Right(f, k)}
<1>1. \A node \in Deep(path) : Len(node) \in Nat /\ Len(node) < Len(path)
  <2>1. \A node \in Deep(path) : node \in Nodes(compiled) /\ Len(node) < Len(path)
    BY Parts DEF Deep
  <2>2. QED
    BY <2>1, NodeParts
<1>2. 0 \in S
  <2> DEFINE f == [node \in Deep(path) |-> None]
  <2>1. f = [node \in Deep(path) |-> f[node]]
    OBVIOUS
  <2>2. Right(f, 0)
    BY <1>1
  <2> HIDE DEF Right, f
  <2>3. QED
    BY <2>1, <2>2
<1>3. ASSUME NEW k \in Nat, k \in S PROVE k + 1 \in S
  <2>1. PICK f : f = [node \in Deep(path) |-> f[node]] /\ Right(f, k)
    BY <1>3
  <2> DEFINE g == [node \in Deep(path) |-> IF Len(node) + k >= Len(path) THEN f[node]
                                           ELSE Step(f, node, method, path)]
  <2>2. g = [node \in Deep(path) |-> g[node]]
    OBVIOUS
  <2>3. ASSUME NEW node \in Deep(path), Len(node) + (k + 1) >= Len(path)
        PROVE  g[node] = Step(g, node, method, path)
    <3>1. ASSUME NEW n \in Deep(path), Len(n) = Len(node) + 1 PROVE f[n] = g[n]
      BY <1>1, <2>3, <3>1
    <3>2. Step(f, node, method, path) = Step(g, node, method, path)
      BY <3>1, StepLooksDown
    <3>3. g[node] = Step(f, node, method, path)
      BY <2>1, <2>3
    <3>4. QED
      BY <3>2, <3>3
  <2>4. Right(g, k + 1)
    BY <2>3
  <2> HIDE DEF Right, g
  <2>5. QED
    BY <2>2, <2>4
<1>4. Len(path) \in S
  <2> HIDE DEF S
  <2>1. QED
    BY <1>2, <1>3, EveryNat
<1>5. PICK f : f = [node \in Deep(path) |-> f[node]] /\ Right(f, Len(path))
  BY <1>4
<1>6. \A node \in Deep(path) : f[node] = Step(f, node, method, path)
  BY <1>1, <1>5
<1>7. f = [node \in Deep(path) |-> Step(f, node, method, path)]
  BY <1>5, <1>6, Zenon
<1>8. QED
  BY <1>7

LEMMA SearchStep ==
  ASSUME Invariant, NEW method, NEW path, Len(path) \in Nat, NEW node \in Deep(path)
  PROVE  GetMatching(method, path)[node] = Step(GetMatching(method, path), node, method, path)
<1>1. GetMatching(method, path) = CHOOSE f : f = [n \in Deep(path) |-> Step(f, n, method, path)]
  BY DEF GetMatching, Deep, Step
<1>2. GetMatching(method, path) =
        [n \in Deep(path) |-> Step(GetMatching(method, path), n, method, path)]
  BY <1>1, Searchable
<1>3. QED
  BY <1>2
-----------------------------------------------------------------------------
(* What the search answers: at a node, the best of the endpoints below it  *)
(* whose segments from there on match.                                     *)

Below(node, method, path) ==
  {e \in compiled :
     /\ e.method = method /\ Len(path) = Len(e.template) + 1 /\ OnWay(node, e)
     /\ node = <<>> => path[1].text = Empty.text
     /\ \A k \in DOMAIN e.template : k >= Len(node) => Matches(e.template[k], path[k + 1])}

Best(answer, es) ==
  IF es = {} THEN answer = None
  ELSE answer \in es /\ \A f \in es \ {answer} : NotOutranked(answer, f)

LEMMA BelowMatches ==
  ASSUME Invariant, NEW method, NEW path, NEW node \in Deep(path),
         Below(node, method, path) # {}
  PROVE  MatchesNode(node, path[Len(node) + 1])
<1>1. PICK e \in Below(node, method, path) : TRUE
  OBVIOUS
<1>2. e \in compiled /\ e \in Registrable /\ menu \in Menus /\ node \in Nodes(compiled)
  BY <1>1, Parts DEF Below, Invariant, Deep
<1>3. CASE node = <<>>
  <2>1. Len(<<>>) = 0
    OBVIOUS
  <2>2. QED
    BY <1>1, <1>3, <2>1 DEF Below, MatchesNode
<1>4. CASE node # <<>>
  <2>1. node \in Seq(Segments) /\ Len(node) \in 1..Len(e.template)
    BY <1>1, <1>2, <1>4, NodeParts, Ways DEF Below, OnWay
  <2>2. /\ Matches(e.template[Len(node)], path[Len(node) + 1])
        /\ Last(node) = Same(e.template[Len(node)]) /\ WellFormed(e.template[Len(node)])
    BY <1>1, <1>2, <2>1, Ways DEF Below, OnWay, Last
  <2>3. Matches(Last(node), path[Len(node) + 1])
    BY <2>2, SameSegment
  <2>4. QED
    BY <1>4, <2>3 DEF MatchesNode
<1>5. QED
  BY <1>3, <1>4

(* Where a path ends at most one endpoint has its method.                  *)
LEMMA AtTheEnd ==
  ASSUME Invariant, NEW method, NEW path, Len(path) \in Nat, NEW node \in Deep(path),
         MatchesNode(node, path[Len(node) + 1]), Len(node) = Len(path) - 1
  PROVE  Best(GetEndpoint(node, method), Below(node, method, path))
<1>1. node \in Nodes(compiled) /\ Len(node) \in Nat
  <2>1. node \in Nodes(compiled)
    BY Parts DEF Deep
  <2>2. QED
    BY <2>1, NodeParts
<1> DEFINE found == {e \in root.endpointsMap[node] : e.method = method}
<1>2. ASSUME NEW e \in compiled
      PROVE  e \in found <=> e \in Below(node, method, path)
  <2>1. e \in Registrable /\ menu \in Menus
    BY DEF Invariant
  <2>2. e \in found <=> e.method = method /\ OnWay(node, e) /\ Len(node) = Len(e.template)
    BY <1>1, EndOfWay, Parts
  <2>3. ASSUME e \in found PROVE e \in Below(node, method, path)
    <3>1. e.method = method /\ OnWay(node, e) /\ Len(node) = Len(e.template) /\ node # <<>>
      BY <2>1, <2>2, <2>3, Ways
    <3>2. Last(node) = Same(e.template[Len(node)]) /\ WellFormed(e.template[Len(node)])
          /\ Len(node) \in DOMAIN e.template
      BY <2>1, <3>1, Ways DEF OnWay, Last
    <3>3. Matches(e.template[Len(node)], path[Len(node) + 1])
      BY <3>1, <3>2, SameSegment DEF MatchesNode
    <3>4. \A k \in DOMAIN e.template : k >= Len(node) => k = Len(node)
      BY <2>1, <3>1, Ways
    <3>5. Len(path) = Len(e.template) + 1
      BY <1>1, <3>1
    <3>6. QED
      BY <3>1, <3>3, <3>4, <3>5 DEF Below
  <2>4. ASSUME e \in Below(node, method, path) PROVE e \in found
    BY <1>1, <2>1, <2>2, <2>4, Ways DEF Below
  <2>5. QED
    BY <2>3, <2>4
<1>3. found \subseteq compiled /\ Below(node, method, path) \subseteq compiled
  BY <1>1, Parts DEF Below
<1>4. found = Below(node, method, path)
  BY <1>2, <1>3
<1>5. \A e, f \in found : e = f
  BY <1>1, Parts DEF Invariant, AlreadyRegistered, Compiled, TreeOf, CreateRoutingNodes
<1>6. QED
  BY <1>4, <1>5 DEF Best, GetEndpoint

(* The endpoints below a node are those below its children.                *)
LEMMA BelowChildren ==
  ASSUME Invariant, NEW method, NEW path, Len(path) \in Nat, NEW node \in Deep(path),
         MatchesNode(node, path[Len(node) + 1]), Len(node) # Len(path) - 1
  PROVE  Below(node, method, path) =
           UNION {Below(n, method, path) : n \in Children(Nodes(compiled), node)}
<1>1. node \in Nodes(compiled) /\ Len(node) \in Nat /\ Len(node) < Len(path)
  <2>1. node \in Nodes(compiled) /\ Len(node) < Len(path)
    BY Parts DEF Deep
  <2>2. QED
    BY <2>1, NodeParts
<1>2. ASSUME NEW e \in Below(node, method, path)
      PROVE  \E n \in Children(Nodes(compiled), node) : e \in Below(n, method, path)
  <2>1. e \in compiled /\ e \in Registrable /\ menu \in Menus /\ OnWay(node, e)
        /\ Len(path) = Len(e.template) + 1
    BY DEF Below, Invariant
  <2>2. Len(node) < Len(e.template)
    BY <1>1, <2>1, Ways
  <2>3. PICK n \in Children(Nodes(compiled), node) : OnWay(n, e)
    BY <1>1, <2>1, <2>2, WayOn
  <2>4. n # <<>> /\ Len(n) = Len(node) + 1
    BY <2>3, ChildParts
  <2>5. \A k \in DOMAIN e.template : k >= Len(n) => k >= Len(node)
    BY <1>1, <2>1, <2>4, Ways
  <2>6. e \in Below(n, method, path)
    BY <2>1, <2>3, <2>4, <2>5 DEF Below
  <2>7. QED
    BY <2>3, <2>6
<1>3. ASSUME NEW n \in Children(Nodes(compiled), node), NEW e \in Below(n, method, path)
      PROVE  e \in Below(node, method, path)
  <2>1. e \in compiled /\ e \in Registrable /\ menu \in Menus /\ OnWay(n, e)
        /\ Len(path) = Len(e.template) + 1
    BY DEF Below, Invariant
  <2>2. n # <<>> /\ Len(n) = Len(node) + 1
    BY ChildParts
  <2>3. OnWay(node, e)
    BY <2>1, WayBack
  <2>4. node = <<>> => path[1].text = Empty.text
    <3>1. Len(<<>>) = 0
      OBVIOUS
    <3>2. QED
      BY <3>1 DEF MatchesNode
  <2>5. ASSUME NEW k \in DOMAIN e.template, k >= Len(node)
        PROVE  Matches(e.template[k], path[k + 1])
    <3>1. CASE k >= Len(n)
      BY <3>1 DEF Below
    <3>2. CASE ~(k >= Len(n))
      <4>1. k = Len(node) /\ k # 0
        BY <1>1, <2>1, <2>2, <2>5, <3>2, Ways
      <4>2. node # <<>> /\ node \in Seq(Segments)
        BY <1>1, <4>1, NodeParts
      <4>3. Last(node) = Same(e.template[k]) /\ WellFormed(e.template[k])
        BY <1>1, <2>1, <2>3, <4>1, <4>2, Ways DEF OnWay, Last
      <4>4. Matches(Last(node), path[k + 1])
        BY <4>1, <4>2 DEF MatchesNode
      <4>5. QED
        BY <4>3, <4>4, SameSegment
    <3>3. QED
      BY <3>1, <3>2
  <2>6. QED
    BY <2>1, <2>3, <2>4, <2>5 DEF Below
<1>4. QED
  BY <1>2, <1>3

(* Siblings part at their own segment, and the first ranks highest.        *)
LEMMA FirstOutranks ==
  ASSUME Invariant, NEW method, NEW path, NEW node,
         NEW c \in Children(Nodes(compiled), node), NEW d \in Children(Nodes(compiled), node),
         c # d, Precedence(Last(c)) >= Precedence(Last(d)),
         NEW e \in Below(c, method, path), NEW f \in Below(d, method, path)
  PROVE  NotOutranked(e, f)
<1>1. /\ e \in compiled /\ e \in Registrable /\ f \in compiled /\ f \in Registrable
      /\ menu \in Menus /\ OnWay(c, e) /\ OnWay(d, f)
  BY DEF Below, Invariant
<1>2. /\ Len(c) = Len(node) + 1 /\ Len(d) = Len(c) /\ Len(node) \in Nat
      /\ \A j \in 1..Len(node) : c[j] = node[j] /\ d[j] = node[j]
  BY ChildParts
<1>3. /\ Last(c) = Same(e.template[Len(c)]) /\ Len(c) \in DOMAIN e.template
      /\ Last(d) = Same(f.template[Len(c)]) /\ Len(c) \in DOMAIN f.template
  BY <1>1, <1>2, WayBack
<1>4. Same(e.template[Len(c)]) # Same(f.template[Len(c)])
  BY <1>3, Siblings
<1>5. Precedence(e.template[Len(c)]) >= Precedence(f.template[Len(c)])
  BY <1>1, <1>3, SameSegment, Ways
<1>6. \A j \in 1..(Len(c) - 1) : Same(e.template[j]) = Same(f.template[j])
  BY <1>1, <1>2 DEF OnWay
<1>7. QED
  BY <1>3, <1>4, <1>5, <1>6 DEF NotOutranked

LEMMA StepIsBest ==
  ASSUME Invariant, NEW method, NEW path, Len(path) \in Nat, NEW node \in Deep(path), NEW answer,
         \A n \in Deep(path) :
           Len(n) = Len(node) + 1 => Best(answer[n], Below(n, method, path))
  PROVE  Best(Step(answer, node, method, path), Below(node, method, path))
<1> DEFINE B(n) == Below(n, method, path)
<1>1. node \in Nodes(compiled) /\ Len(node) \in Nat /\ Len(node) < Len(path)
  <2>1. node \in Nodes(compiled) /\ Len(node) < Len(path)
    BY Parts DEF Deep
  <2>2. QED
    BY <2>1, NodeParts
<1>2. CASE ~MatchesNode(node, path[Len(node) + 1])
  BY <1>2, BelowMatches DEF Step, Best
<1>3. CASE MatchesNode(node, path[Len(node) + 1]) /\ Len(node) = Len(path) - 1
  BY <1>3, AtTheEnd DEF Step
<1>4. CASE MatchesNode(node, path[Len(node) + 1]) /\ Len(node) # Len(path) - 1
  <2> DEFINE C == Children(Nodes(compiled), node)
             answering == {n \in root.children[node] : answer[n] # None}
  <2>1. root.children[node] = C
    BY <1>1, Parts
  <2>2. ASSUME NEW n \in C PROVE Best(answer[n], B(n)) /\ n \in Deep(path)
    <3>1. n \in Nodes(compiled) /\ Len(n) = Len(node) + 1
      BY ChildParts
    <3>2. n \in Deep(path)
      BY <1>1, <1>4, <3>1, Parts DEF Deep
    <3>3. QED
      BY <3>1, <3>2
  <2>3. ASSUME NEW n \in C PROVE None \notin B(n)
    BY Ways DEF Below, Invariant
  <2>4. \A n \in C : n \in answering <=> B(n) # {}
    BY <2>1, <2>2, <2>3 DEF Best
  <2>5. B(node) = UNION {B(n) : n \in C}
    BY <1>4, BelowChildren
  <2>6. CASE answering = {}
    <3>1. Step(answer, node, method, path) = None
      BY <1>4, <2>6 DEF Step
    <3>2. B(node) = {}
      BY <2>4, <2>5, <2>6
    <3>3. QED
      BY <3>1, <3>2 DEF Best
  <2>7. CASE answering # {}
    <3> DEFINE c == First(answering)
    <3>1. answering \in SUBSET C
      BY <2>1
    <3>2. c \in answering /\ \A d \in answering : Precedence(Last(c)) >= Precedence(Last(d))
      BY <1>1, <2>7, <3>1, FirstIsBefore
    <3>3. c \in C
      BY <3>1, <3>2
    <3> HIDE DEF c
    <3>4. Step(answer, node, method, path) = answer[c]
      BY <1>4, <2>7 DEF Step, c
    <3>5. answer[c] \in B(c) /\ \A f \in B(c) \ {answer[c]} : NotOutranked(answer[c], f)
      BY <2>2, <2>4, <3>2, <3>3 DEF Best
    <3>6. ASSUME NEW f \in B(node), f # answer[c] PROVE NotOutranked(answer[c], f)
      <4>1. PICK d \in C : f \in B(d)
        BY <2>5
      <4>2. CASE d = c
        BY <3>5, <3>6, <4>1, <4>2
      <4>3. CASE d # c
        <5>1. d \in answering
          BY <2>4, <4>1
        <5>2. Precedence(Last(c)) >= Precedence(Last(d))
          BY <3>2, <5>1
        <5>3. QED
          BY <3>3, <3>5, <4>1, <4>3, <5>2, FirstOutranks
      <4>4. QED
        BY <4>2, <4>3
    <3>7. answer[c] \in B(node)
      BY <2>5, <3>3, <3>5
    <3>8. QED
      BY <3>4, <3>6, <3>7 DEF Best
  <2>8. QED
    BY <2>6, <2>7
<1>5. QED
  BY <1>2, <1>3, <1>4

LEMMA SearchIsBest ==
  ASSUME Invariant, NEW method, NEW path, Len(path) \in Nat
  PROVE  \A node \in Deep(path) :
           Best(GetMatching(method, path)[node], Below(node, method, path))
<1> DEFINE answer == GetMatching(method, path)
           S == {k \in Nat : \A node \in Deep(path) :
                   Len(node) + k >= Len(path) => Best(answer[node], Below(node, method, path))}
<1>1. \A node \in Deep(path) : Len(node) \in Nat /\ Len(node) < Len(path)
  <2>1. \A node \in Deep(path) : node \in Nodes(compiled) /\ Len(node) < Len(path)
    BY Parts DEF Deep
  <2>2. QED
    BY <2>1, NodeParts
<1> HIDE DEF answer
<1>2. 0 \in S
  BY <1>1
<1>3. ASSUME NEW k \in Nat, k \in S PROVE k + 1 \in S
  <2>1. ASSUME NEW node \in Deep(path), Len(node) + (k + 1) >= Len(path)
        PROVE  Best(answer[node], Below(node, method, path))
    <3>1. ASSUME NEW n \in Deep(path), Len(n) = Len(node) + 1
          PROVE  Best(answer[n], Below(n, method, path))
      BY <1>1, <1>3, <2>1, <3>1
    <3>2. Best(Step(answer, node, method, path), Below(node, method, path))
      BY <3>1, StepIsBest
    <3>3. answer[node] = Step(answer, node, method, path)
      BY SearchStep DEF answer
    <3>4. QED
      BY <3>2, <3>3
  <2>2. QED
    BY <2>1
<1>4. Len(path) \in S
  <2> HIDE DEF S
  <2>1. QED
    BY <1>2, <1>3, EveryNat
<1>5. QED
  BY <1>1, <1>4 DEF answer

-----------------------------------------------------------------------------
LEMMA BestMatches == Invariant => MatchIsBest
<1> SUFFICES ASSUME Invariant, NEW method \in Methods, NEW path \in Paths
             PROVE  Best(Match(method, path), {e \in compiled : Fits(e, method, path)})
  BY DEF MatchIsBest, Best
<1>1. PICK n \in 1..(Longest + 1) : path \in [1..n -> Words]
  BY DEF Paths
<1>2. n \in Nat /\ n >= 1
  BY <1>1
<1>3. Len(path) = n
  BY <1>1, <1>2
<1>4. <<>> \in Deep(path)
  <2>1. <<>> \in Nodes(compiled) /\ Len(<<>>) = 0
    BY DEF Nodes
  <2>2. QED
    BY <1>2, <1>3, <2>1, Parts DEF Deep
<1>5. Below(<<>>, method, path) = {e \in compiled : Fits(e, method, path)}
  <2>1. ASSUME NEW e \in compiled
        PROVE  e \in Below(<<>>, method, path) <=> Fits(e, method, path)
    <3>1. e \in Registrable /\ menu \in Menus
      BY DEF Invariant
    <3>2. Len(<<>>) = 0 /\ \A k \in DOMAIN e.template : k >= 0
      BY <3>1, Ways
    <3>3. OnWay(<<>>, e)
      BY <3>1, <3>2, Ways DEF OnWay
    <3>4. QED
      BY <3>2, <3>3 DEF Below, Fits
  <2>2. QED
    BY <2>1 DEF Below
<1>6. QED
  BY <1>2, <1>3, <1>4, <1>5, SearchIsBest DEF Match

LEMMA RoutesDiffer == Invariant => OneEndpointPerRoute
<1> SUFFICES ASSUME Invariant, NEW e \in compiled, NEW f \in compiled,
                    e # f, e.method = f.method, Len(e.template) = Len(f.template)
             PROVE  \E k \in DOMAIN e.template :
                      \E field \in DOMAIN e.template[k] \ {"name"} :
                        field \in DOMAIN f.template[k] =>
                          e.template[k][field] # f.template[k][field]
  BY DEF OneEndpointPerRoute
<1>1. e \in Registrable /\ f \in Registrable /\ menu \in Menus
  BY DEF Invariant
<1>2. Way(e.template) # Way(f.template)
  <2>1. SUFFICES ASSUME Way(e.template) = Way(f.template) PROVE FALSE
    OBVIOUS
  <2>2. Way(e.template) \in Nodes(compiled)
    BY <1>1, Ways DEF Nodes, Prefixes
  <2>3. e \in root.endpointsMap[Way(e.template)] /\ f \in root.endpointsMap[Way(e.template)]
    BY <2>1, <2>2, Parts
  <2>4. Way(e.template) \in DOMAIN root.endpointsMap
    BY <2>2 DEF Invariant, Compiled, TreeOf, CreateRoutingNodes
  <2>5. QED
    BY <2>3, <2>4 DEF Invariant, AlreadyRegistered
<1>3. PICK k \in DOMAIN e.template : Same(e.template[k]) # Same(f.template[k])
  BY <1>1, <1>2, Ways DEF Way
<1>4. WellFormed(e.template[k]) /\ WellFormed(f.template[k])
  BY <1>1, Ways
<1>5. QED
  BY <1>3, <1>4, SegmentsDiffer

-----------------------------------------------------------------------------
LEMMA InitOK == Init => Invariant
<1> SUFFICES ASSUME Init PROVE Invariant
  OBVIOUS
<1>1. Compiled
  BY DEF Init, Compiled, TreeOf
<1>2. ~AlreadyRegistered(root)
  BY DEF Init, AlreadyRegistered, CreateRoutingNodes
<1>3. QED
  BY <1>1, <1>2 DEF Init, Invariant

LEMMA NextOK == Invariant /\ [Next]_vars => Invariant'
<1> SUFFICES ASSUME Invariant, [Next]_vars PROVE Invariant'
  OBVIOUS
<1>1. ASSUME NEW route \in menu, AddEndpoint(route) PROVE Invariant'
  <2>1. UNCHANGED <<menu, root, compiled>>
    BY <1>1 DEF AddEndpoint
  <2>2. endpoints' \subseteq Registrable
    BY <1>1 DEF AddEndpoint, Invariant, Registrable
  <2>3. Registrable' = Registrable
    BY <2>1 DEF Registrable
  <2>4. Compiled'
    BY <2>1 DEF Invariant, Compiled, TreeOf
  <2>5. (~AlreadyRegistered(root))'
    BY <2>1 DEF Invariant, AlreadyRegistered
  <2>6. QED
    BY <2>1, <2>2, <2>3, <2>4, <2>5 DEF Invariant
<1>2. ASSUME Compile PROVE Invariant'
  <2>1. menu' = menu /\ endpoints' = {} /\ Registrable' = Registrable
    BY <1>2 DEF Compile, Registrable
  <2>2. CASE UNCHANGED <<root, compiled>>
    <3>1. Compiled' /\ (~AlreadyRegistered(root))'
      BY <2>2 DEF Invariant, Compiled, TreeOf, AlreadyRegistered
    <3>2. QED
      BY <2>1, <2>2, <3>1 DEF Invariant
  <2>3. CASE \E order \in Orders :
               /\ root' = CreateRoutingNodes(endpoints, order) /\ compiled' = endpoints
               /\ ~AlreadyRegistered(CreateRoutingNodes(endpoints, order))
    <3>1. Compiled'
      BY <2>3 DEF Compiled, TreeOf
    <3>2. (~AlreadyRegistered(root))'
      BY <2>3 DEF AlreadyRegistered
    <3>3. QED
      BY <2>1, <2>3, <3>1, <3>2 DEF Invariant
  <2>4. QED
    BY <1>2, <2>2, <2>3 DEF Compile
<1>3. CASE UNCHANGED vars
  BY <1>3 DEF vars, Invariant, Registrable, Compiled, TreeOf, AlreadyRegistered
<1>4. QED
  BY <1>1, <1>2, <1>3 DEF Next

LEMMA Always == Spec => []Invariant
BY InitOK, NextOK, PTL DEF Spec

(* A request gets the endpoint of highest precedence among those that fit  *)
(* it, and an answer whenever one fits, for all routes, paths and orders.  *)
THEOREM BestEndpointAnswers == Spec => []MatchIsBest
BY Always, BestMatches, PTL

(* Of two compiled endpoints with one method none hides the other behind   *)
(* the same constraints.                                                   *)
THEOREM RoutesAreUnique == Spec => []OneEndpointPerRoute
BY Always, RoutesDiffer, PTL
=============================================================================
