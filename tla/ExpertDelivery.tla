--------------------------- MODULE ExpertDelivery ---------------------------
(***************************************************************************)
(* What the deadline expert loader promises its callers, with no threads,  *)
(* locks or condition variables: every accepted request is loaded exactly  *)
(* once, one queued request at a time, in the order of its latest start    *)
(* time; its outcome never changes; and it is handed to one caller.        *)
(***************************************************************************)
EXTENDS Integers, FiniteSets

CONSTANTS
  Tickets,          \* identities of the requests
  MaximumPending,   \* bound on the accepted requests that have not started
  Instants,         \* the latest start times a request can carry
  Outcomes          \* what a load can end with

VARIABLES
  waiting,      \* accepted requests that have not started
  running,      \* the request being loaded: a set of at most one
  due,          \* due[t]: <<latest start, arrival>> of an accepted request
  outcome,      \* outcome[t]: how the load of t ended, a set of at most one
  delivered     \* requests whose outcome a caller has received

deliveryVars == <<waiting, running, due, outcome, delivered>>

Init ==
  /\ waiting = {}
  /\ running = {}
  /\ due = [t \in Tickets |-> <<>>]
  /\ outcome = [t \in Tickets |-> {}]
  /\ delivered = {}

Fresh(t) == t \notin waiting \cup running /\ outcome[t] = {}

\* Lexicographic order of the <<latest start, arrival>> pairs.
Sooner(a, b) == a[1] < b[1] \/ (a[1] = b[1] /\ a[2] < b[2])

Accept(t) ==
  /\ Fresh(t)
  /\ Cardinality(waiting) < MaximumPending
  /\ waiting' = waiting \cup {t}
  /\ \E latest \in Instants, arrival \in 0..Cardinality(Tickets) :
       /\ \A other \in waiting : due[other][2] < arrival
       /\ due' = [due EXCEPT ![t] = <<latest, arrival>>]
  /\ UNCHANGED <<running, outcome, delivered>>

Start(t) ==
  /\ running = {}
  /\ t \in waiting
  /\ \A other \in waiting \ {t} : Sooner(due[t], due[other])
  /\ waiting' = waiting \ {t}
  /\ running' = {t}
  /\ UNCHANGED <<due, outcome, delivered>>

Finish(t) ==
  /\ t \in running
  /\ running' = {}
  /\ \E o \in Outcomes : outcome' = [outcome EXCEPT ![t] = {o}]
  /\ UNCHANGED <<waiting, due, delivered>>

\* A request for a resident expert is served on the spot, outside the queue.
ServeResident(t) ==
  /\ Fresh(t)
  /\ \E o \in Outcomes : outcome' = [outcome EXCEPT ![t] = {o}]
  /\ UNCHANGED <<waiting, running, due, delivered>>

Deliver(t) ==
  /\ outcome[t] # {}
  /\ t \notin delivered
  /\ delivered' = delivered \cup {t}
  /\ UNCHANGED <<waiting, running, due, outcome>>

Next ==
  \E t \in Tickets :
    Accept(t) \/ Start(t) \/ Finish(t) \/ ServeResident(t) \/ Deliver(t)

SafeSpec == Init /\ [][Next]_deliveryVars
=============================================================================
