-------------------------- MODULE ServiceLifetimes --------------------------
(***************************************************************************)
(* What the dependency injection container promises about the life of the  *)
(* services it keeps, whatever asks for them, depends on what, fails or is *)
(* caught: where they are kept, which of an interface is the first, when   *)
(* the list of an interface is final and when services may come and go.    *)
(***************************************************************************)
EXTENDS Sequences

CONSTANTS
  Shared,       \* the container of singletons
  Owner,        \* the container of the application's own provider
  Requests,     \* the containers of requests
  Interfaces,   \* type ids services are asked by
  Registrations \* the service collections

VARIABLES
  reg,      \* the service collection
  made,     \* implementations of the services kept, by container and interface
  final,    \* lists that are complete
  open,     \* requests being handled
  serving   \* requests may be handled

vars == <<reg, made, final, open, serving>>

Containers == {Shared, Owner} \union Requests

Registered(i) == {reg.creators[i][n] : n \in DOMAIN reg.creators[i]}
Newest(i)     == reg.creators[i][Len(reg.creators[i])]
Singleton(i)  == reg.scope[i] = "singleton"

(* Singletons are kept in the shared container, which is closed while      *)
(* requests are handled; scoped services in those of the provider that     *)
(* makes them, for a request's as long as it is handled.                   *)
Keeps(c, i) ==
  /\ c = Shared <=> Singleton(i)
  /\ c = Shared => ~serving
  /\ c \in Requests => c \in open

(* The newest registration's service is made first, and nothing is added   *)
(* to a final list.                                                        *)
Make(c, i, T) ==
  /\ Keeps(c, i) /\ ~final[c][i]
  /\ T \in Registered(i)
  /\ made[c][i] = <<>> => T = Newest(i)
  /\ made' = [made EXCEPT ![c][i] = Append(@, T)]
  /\ UNCHANGED <<reg, final, open, serving>>

(* A final list has a service of every registration. *)
Complete(c, i) ==
  /\ Keeps(c, i) /\ ~final[c][i]
  /\ \A T \in Registered(i) : \E k \in DOMAIN made[c][i] : made[c][i][k] = T
  /\ final' = [final EXCEPT ![c][i] = TRUE]
  /\ UNCHANGED <<reg, made, open, serving>>

(* Requests are handled when all singletons are there. *)
Begin ==
  /\ \A i \in Interfaces : Singleton(i) /\ Registered(i) # {} => final[Shared][i]
  /\ ~serving
  /\ serving' = TRUE
  /\ UNCHANGED <<reg, made, final, open>>

End ==
  /\ serving /\ open = {}
  /\ serving' = FALSE
  /\ UNCHANGED <<reg, made, final, open>>

OpenRequest(r) ==
  /\ serving /\ r \notin open
  /\ open' = open \union {r}
  /\ UNCHANGED <<reg, made, final, serving>>

(* A request's services end with it. *)
CloseRequest(r) ==
  /\ r \in open
  /\ open' = open \ {r}
  /\ made' = [made EXCEPT ![r] = [i \in Interfaces |-> <<>>]]
  /\ final' = [final EXCEPT ![r] = [i \in Interfaces |-> FALSE]]
  /\ UNCHANGED <<reg, serving>>

Init ==
  /\ reg \in Registrations
  /\ made = [c \in Containers |-> [i \in Interfaces |-> <<>>]]
  /\ final = [c \in Containers |-> [i \in Interfaces |-> FALSE]]
  /\ open = {}
  /\ serving = FALSE

Next ==
  \/ \E c \in Containers, i \in Interfaces :
       Complete(c, i) \/ \E T \in Registered(i) : Make(c, i, T)
  \/ Begin \/ End
  \/ \E r \in Requests : OpenRequest(r) \/ CloseRequest(r)

Spec == Init /\ [][Next]_vars
=============================================================================
