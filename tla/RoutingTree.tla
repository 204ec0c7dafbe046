------------------------------ MODULE RoutingTree -----------------------------
(***************************************************************************)
(* The router (Include/Router/Router.hpp, RoutingTree.hpp,                 *)
(* RoutingNode.hpp): endpoints are collected in a list, compile() moves    *)
(* them into a tree with a node per distinct segment, sorted by precedence,*)
(* and match() searches the tree depth first for the segments of a path.   *)
(*                                                                         *)
(* A node is named by the segments on the way to it from the root, which   *)
(* is <<>>; its own segment is the last of them, its depth their number.   *)
(***************************************************************************)
EXTENDS SegmentMatchers, FiniteSets, FiniteSetsExt, Sequences, SequencesExt

CONSTANTS
  Methods,    \* HTTP methods
  Menus,      \* what an application registers: sets of routes, each with a method and
              \* a template, which is a sequence of segments
  Words,      \* segments of paths
  Orders,     \* the ways the hash maps and the sort may leave nodes of equal
              \* precedence in: functions from nodes to numbers
  Copies,     \* bound: registrations of one route
  MaxAdds,    \* bound: endpoints registered
  Empty,      \* the empty segment, which every path begins with
  None        \* no endpoint

VARIABLES
  menu,       \* const: the routes of this application
  endpoints,  \* _endpoints: registered and not compiled
  root,       \* _root
  added,      \* number of endpoints registered
  compiled    \* the endpoints of the last compile() that did not throw

vars == <<menu, endpoints, root, added, compiled>>

-----------------------------------------------------------------------------
(* compile() *)

Way(template) == [k \in DOMAIN template |-> Same(template[k])]

(* Endpoints whose templates begin with the same segments share nodes. *)
Nodes(es) == {<<>>} \cup UNION {Prefixes(Way(e.template)) : e \in es}

Children(nodes, node) == {n \in nodes \ {<<>>} : Front(n) = node}

(* Mutation: the children stay in the order of the hash map. *)
BeforeUnsorted(m, n, order) == order[m] < order[n]

Before(m, n, order) ==
  \/ Precedence(Last(m)) > Precedence(Last(n))
  \/ Precedence(Last(m)) = Precedence(Last(n)) /\ order[m] < order[n]

(* Of the order of children that the sort leaves: who comes before whom.   *)
SortByPrecedence(nodes, order) ==
  UNION {{pair \in Children(nodes, node) \X Children(nodes, node) :
            Before(pair[1], pair[2], order)} : node \in nodes}

(* An endpoint belongs to the node where its template ends. *)
CreateRoutingNodes(es, order) ==
  LET nodes == Nodes(es)
  IN  [endpointsMap |-> [node \in nodes |-> {e \in es : Way(e.template) = node}],
       children     |-> [node \in nodes |-> Children(nodes, node)],
       sorted       |-> SortByPrecedence(nodes, order)]

(* Two endpoints in one node with one method: addEndpoint throws. *)
AlreadyRegistered(tree) ==
  \E node \in DOMAIN tree.endpointsMap :
    \E e, f \in tree.endpointsMap[node] : e # f /\ e.method = f.method

-----------------------------------------------------------------------------
(* match() *)

GetEndpoint(node, method) ==
  LET found == {e \in root.endpointsMap[node] : e.method = method}
  IN  IF found = {} THEN None ELSE CHOOSE e \in found : TRUE

MatchesNode(node, word) ==
  IF node = <<>> THEN word.text = Empty.text ELSE Matches(Last(node), word)

First(nodes) == CHOOSE m \in nodes : \A n \in nodes \ {m} : <<m, n>> \in root.sorted

(* Mutation: the search does not come back from a child that matches. *)
GetMatchingFirst(method, path) ==
  LET answer[node \in {n \in DOMAIN root.children : Len(n) < Len(path)}] ==
        IF Len(node) = Len(path) - 1 THEN GetEndpoint(node, method)
        ELSE LET fits == {n \in root.children[node] : MatchesNode(n, path[Len(n) + 1])}
             IN  IF fits = {} THEN None ELSE answer[First(fits)]
  IN  answer

(* The first child that has an answer gives it.                            *)
GetMatching(method, path) ==
  LET answer[node \in {n \in DOMAIN root.children : Len(n) < Len(path)}] ==
        IF ~MatchesNode(node, path[Len(node) + 1]) THEN None
        ELSE IF Len(node) = Len(path) - 1 THEN GetEndpoint(node, method)
        ELSE LET answering == {n \in root.children[node] : answer[n] # None}
             IN  IF answering = {} THEN None ELSE answer[First(answering)]
  IN  answer

Match(method, path) == GetMatching(method, path)[<<>>]

-----------------------------------------------------------------------------
Init ==
  /\ menu \in Menus
  /\ endpoints = {}
  /\ root = CreateRoutingNodes({}, <<>>)
  /\ added = 0
  /\ compiled = {}

AddEndpoint(route) ==
  /\ added < MaxAdds
  /\ \E copy \in 1..Copies :
       LET e == [method |-> route.method, template |-> route.template, copy |-> copy]
       IN  e \notin endpoints \cup compiled /\ endpoints' = endpoints \cup {e}
  /\ added' = added + 1
  /\ UNCHANGED <<menu, root, compiled>>

(* The list is moved from whether or not this throws. *)
Compile ==
  /\ endpoints' = {}
  /\ \E order \in Orders :
       LET tree == CreateRoutingNodes(endpoints, order)
       IN  \/ AlreadyRegistered(tree) /\ UNCHANGED <<root, compiled>>
           \/ ~AlreadyRegistered(tree) /\ root' = tree /\ compiled' = endpoints
  /\ UNCHANGED <<menu, added>>

Next ==
  \/ \E route \in menu : AddEndpoint(route)
  \/ Compile

Spec == Init /\ [][Next]_vars

-----------------------------------------------------------------------------
ASSUME RouterAssumption ==
  /\ \A route \in UNION Menus :
       /\ route.method \in Methods
       /\ route.template \in Seq(Range(route.template)) \ {<<>>}
       /\ \A k \in DOMAIN route.template : WellFormed(route.template[k])
  /\ Empty \in Words
  /\ \A order \in Orders :
       /\ \A route \in UNION Menus : Prefixes(Way(route.template)) \subseteq DOMAIN order
       /\ \A n \in DOMAIN order : order[n] \in Nat
       /\ \A m, n \in DOMAIN order \ {<<>>} :
            /\ Front(m) = Front(n) /\ Precedence(Last(m)) = Precedence(Last(n))
            /\ order[m] = order[n]
            => m = n
  /\ \A route \in UNION Menus : \A copy \in 1..Copies :
       None # [method |-> route.method, template |-> route.template, copy |-> copy]
  /\ Copies \in Nat /\ MaxAdds \in Nat

-----------------------------------------------------------------------------
(* What a user expects of match(), in terms of the endpoints alone.        *)

Fits(e, method, path) ==
  /\ e.method = method
  /\ path[1].text = Empty.text
  /\ Len(path) = Len(e.template) + 1
  /\ \A k \in DOMAIN e.template : Matches(e.template[k], path[k + 1])

(* Where the templates of e and f part, e's segment is not outranked. They *)
(* do part: else they were one node's, and compile() had thrown.           *)
NotOutranked(e, f) ==
  \E k \in DOMAIN e.template :
    /\ Same(e.template[k]) # Same(f.template[k])
    /\ \A j \in 1..(k - 1) : Same(e.template[j]) = Same(f.template[j])
    /\ Precedence(e.template[k]) >= Precedence(f.template[k])

Longest == Max({Len(route.template) : route \in menu})

Paths == UNION {[1..n -> Words] : n \in 1..(Longest + 1)}

(* match() answers exactly the requests that some endpoint fits, with one  *)
(* that no other fitting endpoint outranks, however many dead ends the     *)
(* search has to come back from.                                           *)
MatchIsBest ==
  \A method \in Methods, path \in Paths :
    LET fitting == {e \in compiled : Fits(e, method, path)}
        answer  == Match(method, path)
    IN  IF fitting = {} THEN answer = None
        ELSE answer \in fitting /\ \A f \in fitting \ {answer} : NotOutranked(answer, f)

(* No two endpoints answer for the same method and the same constraints,   *)
(* whatever their parameters are called: one of them would never be used.  *)
OneEndpointPerRoute ==
  \A e, f \in compiled :
    e # f /\ e.method = f.method /\ Len(e.template) = Len(f.template) =>
      \E k \in DOMAIN e.template :
        \E field \in DOMAIN e.template[k] \ {"name"} :
          field \in DOMAIN f.template[k] => e.template[k][field] # f.template[k][field]
=============================================================================
