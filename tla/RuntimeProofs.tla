---------------------------- MODULE RuntimeProofs ---------------------------
(***************************************************************************)
(* Theorems about two parts of the runtime, which share no state.           *)
(*                                                                         *)
(* The deadline expert loader, for every number of callers and submissions, *)
(* every capacity of the queue and every metadata: no load is lost, torn or *)
(* answered twice.  The drivers of official layers, for every benchmark of  *)
(* their four tools, all routes and every step that fails: what they leave  *)
(* on the device.                                                          *)
(***************************************************************************)
EXTENDS ExpertLoader, OfficialDevice, FiniteSetTheorems, SequenceTheorems, TLAPS

-----------------------------------------------------------------------------
(* The loader: its inductive invariant.                                     *)

\* What the worker holds: the job it loads is accepted, out of the queue and
\* without a result, and the loader is active until it has been announced.
Busy == worker.pc \in {"loading", "publishing", "counting"}
Loading == worker.pc \in {"loading", "publishing"}
WorkerInv ==
  /\ active <=> worker.pc \in {"loading", "publishing", "counting", "notifying", "clearing"}
  /\ Loading => /\ worker.job \in Tickets /\ worker.job \notin queue
                /\ job[worker.job] # {} /\ result[worker.job] = {}
  /\ worker.pc = "publishing" => \E o \in Outcomes : worker.loaded = {o}
  /\ worker.pc = "returned" => stopping /\ queue = {}

\* An accepted load is queued, under way, or has its result.
JobInv ==
  \A t \in Tickets :
    /\ job[t] # {} => t \in queue \/ (Loading /\ worker.job = t) \/ result[t] # {}
    /\ t \in queue => job[t] # {} /\ result[t] = {}
    /\ t \in issued => job[t] # {} \/ result[t] # {}

\* A ticket under way on a calling thread is that thread's alone, and a
\* ticket is waited for by one thread.
InlineLoading(c) == client[c].pc \in {"inline_load", "inline_publish"}
Waiting(c) == client[c].pc \in {"wait_parked", "wait_woken"}
ThreadInv(c) ==
  /\ InlineLoading(c) =>
       /\ client[c].ticket \in Tickets
       /\ job[client[c].ticket] = {} /\ result[client[c].ticket] = {}
       /\ \A d \in Clients \ {c} : client[d].ticket # client[c].ticket
  /\ client[c].pc = "inline_publish" => \E o \in Outcomes : client[c].loaded = {o}
  /\ client[c].pc \in {"submit_notify", "inline_count"} =>
       /\ client[c].ticket \in Tickets
       /\ job[client[c].ticket] # {} \/ result[client[c].ticket] # {}
  /\ Waiting(c) =>
       /\ client[c].ticket \in consumed /\ taken[client[c].ticket] = 0
       /\ \A d \in Clients \ {c} : Waiting(d) => client[d].ticket # client[c].ticket
ClientInv == \A c \in Clients : ThreadInv(c)

\* A result is taken by a wait that consumed its ticket.
TakenInv == \A t \in Tickets : taken[t] <= 1 /\ (taken[t] > 0 => t \in consumed)

Control == TypeOK /\ WorkerInv /\ JobInv /\ ClientInv /\ TakenInv

-----------------------------------------------------------------------------
(* What a step does to the calling threads.                                *)

Threads == [Clients -> [pc : ClientPc, ticket : Tickets \cup {NoTicket},
                        wasReady : BOOLEAN, loaded : SUBSET Outcomes]]
Thread(pc, ticket, wasReady, loaded) ==
  [pc |-> pc, ticket |-> ticket, wasReady |-> wasReady, loaded |-> loaded]

\* Thread c goes to pc, with the ticket t.
Moves(c, pc, t) ==
  /\ client' \in Threads /\ client'[c].pc = pc /\ client'[c].ticket = t
  /\ \A d \in Clients \ {c} : client'[d] = client[d]

\* Threads parked on a condition variable wake.
Wakes ==
  /\ client' \in Threads
  /\ \A c \in Clients :
       /\ client'[c].ticket = client[c].ticket /\ client'[c].loaded = client[c].loaded
       /\ client'[c].wasReady = client[c].wasReady
       /\ \/ client'[c].pc = client[c].pc
          \/ client[c].pc = "wait_parked" /\ client'[c].pc = "wait_woken"
          \/ client[c].pc = "idle_parked" /\ client'[c].pc = "idle_woken"

\* A thread whose record is rewritten moves, and only it.
LEMMA MovesTo ==
  ASSUME TypeOK, NEW c \in Clients, NEW pc \in ClientPc, NEW t \in Tickets \cup {NoTicket},
         NEW wasReady \in BOOLEAN, NEW loaded \in SUBSET Outcomes,
         client' = [client EXCEPT ![c] = Thread(pc, t, wasReady, loaded)]
  PROVE  Moves(c, pc, t) /\ client'[c].loaded = loaded /\ client'[c].wasReady = wasReady
  BY DEF TypeOK, Moves, Threads, Thread

LEMMA GotoMoves ==
  ASSUME TypeOK, NEW c \in Clients, NEW pc \in ClientPc, client' = Goto(c, pc)
  PROVE  Moves(c, pc, client[c].ticket) /\ client'[c].loaded = client[c].loaded
         /\ client'[c].wasReady = client[c].wasReady
<1>1. client \in Threads /\ client[c] \in [pc : ClientPc, ticket : Tickets \cup {NoTicket},
                                            wasReady : BOOLEAN, loaded : SUBSET Outcomes]
  BY DEF TypeOK, Threads
<1>2. client' = [client EXCEPT ![c] = [client[c] EXCEPT !.pc = pc]]
  BY Zenon DEF Goto
<1>3. [client[c] EXCEPT !.pc = pc] \in [pc : ClientPc, ticket : Tickets \cup {NoTicket},
                                        wasReady : BOOLEAN, loaded : SUBSET Outcomes]
  BY <1>1
<1> DEFINE moved == [client[c] EXCEPT !.pc = pc]
<1>4. moved.pc = pc /\ moved.ticket = client[c].ticket /\ moved.loaded = client[c].loaded
      /\ moved.wasReady = client[c].wasReady
  BY <1>1
<1> HIDE DEF moved
<1>5. client' \in Threads /\ client'[c] = moved /\ \A d \in Clients \ {c} : client'[d] = client[d]
  BY <1>1, <1>2, <1>3 DEF Threads, moved
<1> QED
  BY <1>4, <1>5 DEF Moves

LEMMA TicketMoves ==
  ASSUME TypeOK, NEW c \in Clients, NEW pc \in ClientPc, NEW t \in Tickets,
         client' = GotoWith(c, pc, t)
  PROVE  Moves(c, pc, t)
<1>1. client \in Threads /\ client[c] \in [pc : ClientPc, ticket : Tickets \cup {NoTicket},
                                            wasReady : BOOLEAN, loaded : SUBSET Outcomes]
  BY DEF TypeOK, Threads
<1> DEFINE moved == [client[c] EXCEPT !.pc = pc, !.ticket = t]
<1>2. moved \in [pc : ClientPc, ticket : Tickets \cup {NoTicket},
                 wasReady : BOOLEAN, loaded : SUBSET Outcomes]
      /\ moved.pc = pc /\ moved.ticket = t
  BY <1>1
<1>3. client' = [client EXCEPT ![c] = moved]
  BY <1>1 DEF GotoWith, Threads
<1> HIDE DEF moved
<1> QED
  BY <1>1, <1>2, <1>3 DEF Moves, Threads

LEMMA LoadMoves ==
  ASSUME TypeOK, NEW c \in Clients, NEW o \in Outcomes,
         client' = [client EXCEPT ![c] = [@ EXCEPT !.pc = "inline_publish", !.loaded = {o}]]
  PROVE  Moves(c, "inline_publish", client[c].ticket) /\ client'[c].loaded = {o}
<1>1. client \in Threads /\ client[c] \in [pc : ClientPc, ticket : Tickets \cup {NoTicket},
                                            wasReady : BOOLEAN, loaded : SUBSET Outcomes]
  BY DEF TypeOK, Threads
<1> DEFINE moved == [client[c] EXCEPT !.pc = "inline_publish", !.loaded = {o}]
<1>2. moved \in [pc : ClientPc, ticket : Tickets \cup {NoTicket},
                 wasReady : BOOLEAN, loaded : SUBSET Outcomes]
      /\ moved.pc = "inline_publish" /\ moved.ticket = client[c].ticket /\ moved.loaded = {o}
  BY <1>1 DEF ClientPc
<1>3. client' = [client EXCEPT ![c] = moved]
  BY <1>1 DEF Threads
<1> HIDE DEF moved
<1> QED
  BY <1>1, <1>2, <1>3 DEF Moves, Threads

LEMMA ReturnMoves ==
  ASSUME TypeOK, NEW c \in Clients, client' = Return(c)
  PROVE  Moves(c, "running", NoTicket)
<1>1. client' = [client EXCEPT ![c] = Thread("running", NoTicket, FALSE, {})]
  BY DEF Return, Running, Thread
<1>2. "running" \in ClientPc /\ FALSE \in BOOLEAN /\ {} \in SUBSET Outcomes
      /\ NoTicket \in Tickets \cup {NoTicket}
  BY DEF ClientPc
<1> QED
  BY <1>1, <1>2, MovesTo, Zenon

LEMMA TakeMoves ==
  ASSUME TypeOK, NEW c \in Clients, NEW t \in Tickets, NEW wasReady \in BOOLEAN,
         TakeResult(c, t, wasReady)
  PROVE  Moves(c, "wait_count", t) /\ client'[c].wasReady = wasReady
<1>1. client' = [client EXCEPT ![c] = Thread("wait_count", t, wasReady, result[t])]
  BY DEF TakeResult, Thread
<1>2. "wait_count" \in ClientPc /\ result[t] \in SUBSET Outcomes
  BY DEF ClientPc, TypeOK
<1> QED
  BY <1>1, <1>2, MovesTo

LEMMA WakeTicketWakes ==
  ASSUME TypeOK, NEW t, client' = WakeTicketWaiters(t, client)
  PROVE  Wakes
<1>1. client \in Threads
  BY DEF TypeOK, Threads
<1>2. ASSUME NEW c \in Clients
      PROVE  LET woken == [client[c] EXCEPT !.pc = "wait_woken"] IN
             /\ woken \in [pc : ClientPc, ticket : Tickets \cup {NoTicket},
                           wasReady : BOOLEAN, loaded : SUBSET Outcomes]
             /\ woken.pc = "wait_woken" /\ woken.ticket = client[c].ticket
             /\ woken.loaded = client[c].loaded /\ woken.wasReady = client[c].wasReady
  <2>1. client[c] \in [pc : ClientPc, ticket : Tickets \cup {NoTicket},
                       wasReady : BOOLEAN, loaded : SUBSET Outcomes]
    BY <1>1 DEF Threads
  <2> QED
    BY <2>1 DEF ClientPc
<1> QED
  BY <1>1, <1>2 DEF Wakes, WakeTicketWaiters, Threads

LEMMA WakeIdleWakes ==
  ASSUME TypeOK, client' = WakeIdleWaiters(client)
  PROVE  Wakes
<1>1. client \in Threads
  BY DEF TypeOK, Threads
<1>2. ASSUME NEW c \in Clients
      PROVE  LET woken == [client[c] EXCEPT !.pc = "idle_woken"] IN
             /\ woken \in [pc : ClientPc, ticket : Tickets \cup {NoTicket},
                           wasReady : BOOLEAN, loaded : SUBSET Outcomes]
             /\ woken.pc = "idle_woken" /\ woken.ticket = client[c].ticket
             /\ woken.loaded = client[c].loaded /\ woken.wasReady = client[c].wasReady
  <2>1. client[c] \in [pc : ClientPc, ticket : Tickets \cup {NoTicket},
                       wasReady : BOOLEAN, loaded : SUBSET Outcomes]
    BY <1>1 DEF Threads
  <2> QED
    BY <2>1 DEF ClientPc
<1> QED
  BY <1>1, <1>2 DEF Wakes, WakeIdleWaiters, Threads

LEMMA SpuriousWakes ==
  ASSUME TypeOK, NEW c \in Clients, SpuriousWakeup(c)
  PROVE  Wakes
<1>1. client \in Threads /\ "wait_woken" \in ClientPc /\ "idle_woken" \in ClientPc
  BY DEF TypeOK, Threads, ClientPc
<1>2. \/ client[c].pc = "wait_parked" /\ Moves(c, "wait_woken", client[c].ticket)
      \/ client[c].pc = "idle_parked" /\ Moves(c, "idle_woken", client[c].ticket)
  BY <1>1, GotoMoves DEF SpuriousWakeup
<1>3. client'[c].loaded = client[c].loaded /\ client'[c].wasReady = client[c].wasReady
  BY <1>1, GotoMoves DEF SpuriousWakeup
<1> QED
  BY <1>2, <1>3 DEF Wakes, Moves

\* Waking the worker changes only where it is, from parked to checking.
LEMMA WakeWorkerMoves ==
  ASSUME TypeOK, worker' = WakeWorker
  PROVE  /\ worker' \in [pc : WorkerPc, job : Tickets \cup {NoTicket}, loaded : SUBSET Outcomes]
         /\ worker'.job = worker.job /\ worker'.loaded = worker.loaded
         /\ worker'.pc = worker.pc \/ (worker.pc = "parked" /\ worker'.pc = "checking")
  BY DEF TypeOK, WakeWorker, WorkerPc

-----------------------------------------------------------------------------
(* The invariant is kept by every step.                                    *)

LEMMA TypeStep ==
  ASSUME LoaderAssumption, Control, Next
  PROVE  TypeOK'
<1>1. ASSUME NEW c \in Clients, NEW t \in Tickets, NEW m \in Metadata, SubmitQueued(c, t, m)
      PROVE  TypeOK'
  <2>1. client' \in Threads
    BY <1>1, TicketMoves DEF SubmitQueued, Control, ClientPc, Moves
  <2>2. job' \in [Tickets -> SUBSET [use : Int, latency : Nat, sequence : Nat]]
    <3> DEFINE j == [use |-> m.use, latency |-> m.latency, sequence |-> nextSequence]
    <3>1. j \in [use : Int, latency : Nat, sequence : Nat]
      BY DEF LoaderAssumption, Control, TypeOK
    <3> HIDE DEF j
    <3> QED
      BY <1>1, <3>1 DEF SubmitQueued, Control, TypeOK, j
  <2>3. queue' \in SUBSET Tickets /\ Cardinality(queue') \in Nat
    <3>1. queue' \in SUBSET Tickets
      BY <1>1 DEF SubmitQueued, Control, TypeOK
    <3>2. IsFiniteSet(queue')
      BY <3>1, FS_Subset DEF LoaderAssumption
    <3> QED
      BY <3>1, <3>2, FS_CardinalityType
  <2>4. metrics' \in [submissions : Nat, inlineHits : Nat, completions : Nat,
                      readyBeforeUse : Nat, lateAtUse : Nat, highWater : Nat]
    <3> DEFINE high == IF metrics.highWater < Cardinality(queue') THEN Cardinality(queue')
                       ELSE metrics.highWater
    <3>1. high \in Nat
      BY <2>3 DEF Control, TypeOK
    <3>2. metrics' = [metrics EXCEPT !.submissions = @ + 1, !.highWater = high]
      BY <1>1 DEF SubmitQueued
    <3>3. metrics.submissions + 1 \in Nat
      BY DEF Control, TypeOK
    <3> DEFINE more == metrics.submissions + 1
    <3>4. metrics' = [metrics EXCEPT !.submissions = more, !.highWater = high]
      BY <3>2
    <3> HIDE DEF high, more
    <3> QED
      BY <3>1, <3>3, <3>4 DEF Control, TypeOK, more
  <2> QED
    BY <1>1, <2>1, <2>2, <2>3, <2>4 DEF SubmitQueued, Control, TypeOK, Threads
<1>2. ASSUME NEW c \in Clients, NEW t \in Tickets, SubmitInline(c, t) PROVE TypeOK'
  <2>1. client' \in Threads
    BY <1>2, TicketMoves DEF SubmitInline, Control, ClientPc, Moves
  <2>2. metrics' \in [submissions : Nat, inlineHits : Nat, completions : Nat,
                      readyBeforeUse : Nat, lateAtUse : Nat, highWater : Nat]
    <3> DEFINE more == metrics.submissions + 1
               hits == metrics.inlineHits + 1
    <3>1. more \in Nat /\ hits \in Nat
      BY DEF Control, TypeOK
    <3>2. metrics' = [metrics EXCEPT !.submissions = more, !.inlineHits = hits]
      BY <1>2 DEF SubmitInline
    <3> HIDE DEF more, hits
    <3> QED
      BY <3>1, <3>2 DEF Control, TypeOK
  <2> QED
    BY <1>2, <2>1, <2>2 DEF SubmitInline, Control, TypeOK, Threads, implVars, ticketVars
<1>3. ASSUME NEW c \in Clients, NEW t \in Tickets, WaitReady(c, t) PROVE TypeOK'
  <2>1. client' \in Threads
    BY <1>3, TakeMoves DEF WaitReady, Control, Moves
  <2>2. taken' \in [Tickets -> Nat] /\ consumed' \in SUBSET Tickets
    BY <1>3 DEF WaitReady, TakeResult, Control, TypeOK
  <2> QED
    BY <1>3, <2>1, <2>2 DEF WaitReady, Control, TypeOK, Threads, implVars
<1>4. ASSUME NEW c \in Clients, NEW t \in Tickets, WaitPark(c, t) PROVE TypeOK'
  BY <1>4, TicketMoves
  DEF WaitPark, Control, TypeOK, Moves, Threads, implVars, ticketVars, ClientPc
<1>5. ASSUME NEW c \in Clients, WaitIdle(c) PROVE TypeOK'
  BY <1>5, GotoMoves, ReturnMoves
  DEF WaitIdle, Control, TypeOK, Moves, Threads, implVars, ticketVars, ClientPc,
      ClientInv, ThreadInv
<1>6. ASSUME NEW c \in Clients, DestroyStop(c) PROVE TypeOK'
  BY <1>6, GotoMoves, ReturnMoves
  DEF DestroyStop, Control, TypeOK, Moves, Threads, implVars, ticketVars, ClientPc,
      ClientInv, ThreadInv
<1>7. ASSUME NEW c \in Clients, SubmitNotify(c) PROVE TypeOK'
  BY <1>7, ReturnMoves, WakeWorkerMoves
  DEF SubmitNotify, Control, TypeOK, Moves, Threads, implVars, ticketVars, ClientInv,
      ThreadInv
<1>8. ASSUME NEW c \in Clients, InlineLoad(c) PROVE TypeOK'
  BY <1>8, LoadMoves
  DEF InlineLoad, Control, TypeOK, Moves, Threads, implVars, ticketVars
<1>9. ASSUME NEW c \in Clients, InlinePublish(c) PROVE TypeOK'
  BY <1>9, GotoMoves, ReturnMoves
  DEF InlinePublish, Control, TypeOK, Moves, Threads, implVars, ticketVars, ClientPc,
      ClientInv, ThreadInv
<1>10. ASSUME NEW c \in Clients, InlineCount(c) PROVE TypeOK'
  BY <1>10, ReturnMoves
  DEF InlineCount, Control, TypeOK, Moves, Threads, implVars, ticketVars, ClientInv,
      ThreadInv
<1>11. ASSUME NEW c \in Clients, WaitResume(c) PROVE TypeOK'
  <2>1. CASE result[client[c].ticket] # {}
    <3>1. client[c].ticket \in Tickets
      BY <1>11 DEF WaitResume, Control, ClientInv, ThreadInv, Waiting, TypeOK
    <3>2. TakeResult(c, client[c].ticket, FALSE)
      BY <1>11, <2>1 DEF WaitResume
    <3>3. client' \in Threads
      BY <3>1, <3>2, TakeMoves DEF Control, Moves
    <3>4. taken' \in [Tickets -> Nat]
      BY <3>1, <3>2 DEF TakeResult, Control, TypeOK
    <3> QED
      BY <1>11, <3>3, <3>4 DEF WaitResume, Control, TypeOK, Threads, implVars
  <2>2. CASE result[client[c].ticket] = {}
    <3>1. client' \in Threads
      BY <1>11, <2>2, GotoMoves DEF WaitResume, Control, ClientPc, Moves
    <3> QED
      BY <1>11, <2>2, <3>1 DEF WaitResume, Control, TypeOK, Threads, implVars
  <2> QED
    BY <2>1, <2>2
<1>12. ASSUME NEW c \in Clients, WaitCount(c) PROVE TypeOK'
  BY <1>12, ReturnMoves
  DEF WaitCount, Control, TypeOK, Moves, Threads, implVars, ticketVars
<1>13. ASSUME NEW c \in Clients, WaitIdleResume(c) PROVE TypeOK'
  BY <1>13, GotoMoves, ReturnMoves
  DEF WaitIdleResume, Control, TypeOK, Moves, Threads, implVars, ticketVars, ClientPc,
      ClientInv, ThreadInv
<1>14. ASSUME NEW c \in Clients, DestroyNotify(c) PROVE TypeOK'
  BY <1>14, GotoMoves, WakeWorkerMoves
  DEF DestroyNotify, Control, TypeOK, Moves, Threads, implVars, ticketVars, ClientPc
<1>15. ASSUME NEW c \in Clients, DestroyJoin(c) PROVE TypeOK'
  BY <1>15, ReturnMoves
  DEF DestroyJoin, Control, TypeOK, Moves, Threads, implVars, ticketVars
<1>16. ASSUME NEW c \in Clients, SpuriousWakeup(c) PROVE TypeOK'
  BY <1>16, SpuriousWakes
  DEF SpuriousWakeup, Control, TypeOK, Moves, Threads, implVars, ticketVars, Wakes
<1>17. ASSUME WorkerPark PROVE TypeOK'
  BY <1>17 DEF WorkerPark, Control, TypeOK, WorkerPc, implVars, ticketVars
<1>18. ASSUME WorkerReturn PROVE TypeOK'
  BY <1>18 DEF WorkerReturn, Control, TypeOK, WorkerPc, implVars, ticketVars
<1>19. ASSUME NEW t \in Tickets, WorkerPop(t) PROVE TypeOK'
  BY <1>19 DEF WorkerPop, Control, TypeOK, WorkerPc, implVars, ticketVars
<1>20. ASSUME WorkerLoad PROVE TypeOK'
  <2>1. PICK o \in Outcomes : worker' = [worker EXCEPT !.pc = "publishing", !.loaded = {o}]
    BY <1>20 DEF WorkerLoad
  <2>2. {o} \in SUBSET Outcomes /\ "publishing" \in WorkerPc
    BY DEF WorkerPc
  <2>3. worker' \in [pc : WorkerPc, job : Tickets \cup {NoTicket}, loaded : SUBSET Outcomes]
    BY <2>1, <2>2 DEF Control, TypeOK
  <2> QED
    BY <1>20, <2>3 DEF WorkerLoad, Control, TypeOK, implVars, ticketVars
<1>21. ASSUME WorkerPublish PROVE TypeOK'
  BY <1>21 DEF WorkerPublish, Control, TypeOK, WorkerPc, implVars, ticketVars
<1>22. ASSUME WorkerCount PROVE TypeOK'
  BY <1>22 DEF WorkerCount, Control, TypeOK, WorkerPc, implVars, ticketVars
<1>23. ASSUME WorkerNotify PROVE TypeOK'
  BY <1>23, WakeTicketWakes
  DEF WorkerNotify, Control, TypeOK, Moves, Threads, implVars, ticketVars, Wakes,
      WorkerPc
<1>24. ASSUME WorkerClear PROVE TypeOK'
  BY <1>24 DEF WorkerClear, Control, TypeOK, WorkerPc, implVars, ticketVars
<1>25. ASSUME WorkerIdleNotify PROVE TypeOK'
  BY <1>25, WakeIdleWakes
  DEF WorkerIdleNotify, Control, TypeOK, Moves, Threads, implVars, ticketVars, Wakes,
      WorkerPc
<1>26. ASSUME SpuriousWorkerWakeup PROVE TypeOK'
  BY <1>26, WakeWorkerMoves
  DEF SpuriousWorkerWakeup, Control, TypeOK, implVars, ticketVars
<1>27. UNCHANGED vars => TypeOK'
  BY DEF vars, Control, TypeOK, implVars, ticketVars
<1> QED
  BY <1>1, <1>2, <1>3, <1>4, <1>5, <1>6, <1>7, <1>8, <1>9, <1>10, <1>11, <1>12, <1>13,
     <1>14, <1>15, <1>16, <1>17, <1>18, <1>19, <1>20, <1>21, <1>22, <1>23, <1>24,
     <1>25, <1>26, <1>27
  DEF Next, Call, Submit, Continue, WorkerStep, SubmitRejected, WaitAgain, Ended

\* The worker holds one accepted job, and is active until it announced it.
LEMMA WorkerStepInv ==
  ASSUME LoaderAssumption, Control, Next
  PROVE  WorkerInv'
<1>1. ASSUME NEW c \in Clients, NEW t \in Tickets, NEW m \in Metadata, SubmitQueued(c, t, m)
      PROVE  WorkerInv'
  BY <1>1 DEF SubmitQueued, Control, TypeOK, WorkerInv, Loading, Fresh
<1>2. ASSUME NEW c \in Clients, NEW t \in Tickets, SubmitInline(c, t) PROVE WorkerInv'
  BY <1>2 DEF SubmitInline, Control, TypeOK, WorkerInv, Loading, implVars, ticketVars
<1>3. ASSUME NEW c \in Clients, NEW t \in Tickets, WaitReady(c, t) PROVE WorkerInv'
  BY <1>3 DEF WaitReady, Control, TypeOK, WorkerInv, Loading, implVars, ticketVars
<1>4. ASSUME NEW c \in Clients, NEW t \in Tickets, WaitPark(c, t) PROVE WorkerInv'
  BY <1>4 DEF WaitPark, Control, TypeOK, WorkerInv, Loading, implVars, ticketVars
<1>5. ASSUME NEW c \in Clients, WaitIdle(c) PROVE WorkerInv'
  BY <1>5 DEF WaitIdle, Control, TypeOK, WorkerInv, Loading, implVars, ticketVars
<1>6. ASSUME NEW c \in Clients, DestroyStop(c) PROVE WorkerInv'
  BY <1>6 DEF DestroyStop, Control, TypeOK, WorkerInv, Loading, implVars, ticketVars
<1>7. ASSUME NEW c \in Clients, SubmitNotify(c) PROVE WorkerInv'
  BY <1>7, WakeWorkerMoves
  DEF SubmitNotify, Control, WorkerInv, Loading, implVars, ticketVars
<1>8. ASSUME NEW c \in Clients, InlineLoad(c) PROVE WorkerInv'
  BY <1>8 DEF InlineLoad, Control, TypeOK, WorkerInv, Loading, implVars, ticketVars
<1>9. ASSUME NEW c \in Clients, InlinePublish(c) PROVE WorkerInv'
  BY <1>9
  DEF InlinePublish, Control, TypeOK, WorkerInv, Loading, ClientInv, ThreadInv,
      InlineLoading, implVars, ticketVars
<1>10. ASSUME NEW c \in Clients, InlineCount(c) PROVE WorkerInv'
  BY <1>10 DEF InlineCount, Control, TypeOK, WorkerInv, Loading, implVars, ticketVars
<1>11. ASSUME NEW c \in Clients, WaitResume(c) PROVE WorkerInv'
  BY <1>11 DEF WaitResume, Control, TypeOK, WorkerInv, Loading, implVars, ticketVars
<1>12. ASSUME NEW c \in Clients, WaitCount(c) PROVE WorkerInv'
  BY <1>12 DEF WaitCount, Control, TypeOK, WorkerInv, Loading, implVars, ticketVars
<1>13. ASSUME NEW c \in Clients, WaitIdleResume(c) PROVE WorkerInv'
  BY <1>13 DEF WaitIdleResume, Control, TypeOK, WorkerInv, Loading, implVars, ticketVars
<1>14. ASSUME NEW c \in Clients, DestroyNotify(c) PROVE WorkerInv'
  BY <1>14, WakeWorkerMoves
  DEF DestroyNotify, Control, WorkerInv, Loading, implVars, ticketVars
<1>15. ASSUME NEW c \in Clients, DestroyJoin(c) PROVE WorkerInv'
  BY <1>15 DEF DestroyJoin, Control, TypeOK, WorkerInv, Loading, implVars, ticketVars
<1>16. ASSUME NEW c \in Clients, SpuriousWakeup(c) PROVE WorkerInv'
  BY <1>16 DEF SpuriousWakeup, Control, TypeOK, WorkerInv, Loading, implVars, ticketVars
<1>17. ASSUME WorkerPark PROVE WorkerInv'
  BY <1>17 DEF WorkerPark, Control, TypeOK, WorkerInv, Loading, implVars, ticketVars
<1>18. ASSUME WorkerReturn PROVE WorkerInv'
  BY <1>18 DEF WorkerReturn, Control, TypeOK, WorkerInv, Loading, implVars, ticketVars
<1>19. ASSUME NEW t \in Tickets, WorkerPop(t) PROVE WorkerInv'
  BY <1>19 DEF WorkerPop, Control, TypeOK, WorkerInv, Loading, JobInv, IsTop, ticketVars
<1>20. ASSUME WorkerLoad PROVE WorkerInv'
  BY <1>20 DEF WorkerLoad, Control, TypeOK, WorkerInv, Loading, implVars, ticketVars
<1>21. ASSUME WorkerPublish PROVE WorkerInv'
  BY <1>21 DEF WorkerPublish, Control, TypeOK, WorkerInv, Loading, implVars, ticketVars
<1>22. ASSUME WorkerCount PROVE WorkerInv'
  BY <1>22 DEF WorkerCount, Control, TypeOK, WorkerInv, Loading, implVars, ticketVars
<1>23. ASSUME WorkerNotify PROVE WorkerInv'
  BY <1>23 DEF WorkerNotify, Control, TypeOK, WorkerInv, Loading, implVars, ticketVars
<1>24. ASSUME WorkerClear PROVE WorkerInv'
  BY <1>24 DEF WorkerClear, Control, TypeOK, WorkerInv, Loading, implVars, ticketVars
<1>25. ASSUME WorkerIdleNotify PROVE WorkerInv'
  BY <1>25
  DEF WorkerIdleNotify, Control, TypeOK, WorkerInv, Loading, implVars, ticketVars
<1>26. ASSUME SpuriousWorkerWakeup PROVE WorkerInv'
  BY <1>26, WakeWorkerMoves
  DEF SpuriousWorkerWakeup, Control, WorkerInv, Loading, implVars, ticketVars
<1>27. UNCHANGED vars => WorkerInv'
  BY DEF vars, Control, WorkerInv, Loading, implVars, ticketVars
<1> QED
  BY <1>1, <1>2, <1>3, <1>4, <1>5, <1>6, <1>7, <1>8, <1>9, <1>10, <1>11, <1>12, <1>13,
     <1>14, <1>15, <1>16, <1>17, <1>18, <1>19, <1>20, <1>21, <1>22, <1>23, <1>24,
     <1>25, <1>26, <1>27
  DEF Next, Call, Submit, Continue, WorkerStep, SubmitRejected, WaitAgain, Ended

\* No accepted load is lost between the queue, the worker and its result.
LEMMA JobStepInv ==
  ASSUME LoaderAssumption, Control, Next
  PROVE  JobInv'
<1>1. ASSUME NEW c \in Clients, NEW t \in Tickets, NEW m \in Metadata, SubmitQueued(c, t, m)
      PROVE  JobInv'
  BY <1>1 DEF SubmitQueued, Control, TypeOK, JobInv, Loading, Fresh
<1>2. ASSUME NEW c \in Clients, NEW t \in Tickets, SubmitInline(c, t) PROVE JobInv'
  BY <1>2 DEF SubmitInline, Control, TypeOK, JobInv, Loading, implVars, ticketVars
<1>3. ASSUME NEW c \in Clients, NEW t \in Tickets, WaitReady(c, t) PROVE JobInv'
  BY <1>3 DEF WaitReady, Control, TypeOK, JobInv, Loading, implVars, ticketVars
<1>4. ASSUME NEW c \in Clients, NEW t \in Tickets, WaitPark(c, t) PROVE JobInv'
  BY <1>4 DEF WaitPark, Control, TypeOK, JobInv, Loading, implVars, ticketVars
<1>5. ASSUME NEW c \in Clients, WaitIdle(c) PROVE JobInv'
  BY <1>5 DEF WaitIdle, Control, TypeOK, JobInv, Loading, implVars, ticketVars
<1>6. ASSUME NEW c \in Clients, DestroyStop(c) PROVE JobInv'
  BY <1>6 DEF DestroyStop, Control, TypeOK, JobInv, Loading, implVars, ticketVars
<1>7. ASSUME NEW c \in Clients, SubmitNotify(c) PROVE JobInv'
  BY <1>7, WakeWorkerMoves
  DEF SubmitNotify, Control, JobInv, Loading, ClientInv, ThreadInv, implVars,
      ticketVars
<1>8. ASSUME NEW c \in Clients, InlineLoad(c) PROVE JobInv'
  BY <1>8 DEF InlineLoad, Control, TypeOK, JobInv, Loading, implVars, ticketVars
<1>9. ASSUME NEW c \in Clients, InlinePublish(c) PROVE JobInv'
  BY <1>9
  DEF InlinePublish, Control, TypeOK, JobInv, Loading, ClientInv, ThreadInv,
      InlineLoading, implVars, ticketVars
<1>10. ASSUME NEW c \in Clients, InlineCount(c) PROVE JobInv'
  BY <1>10 DEF InlineCount, Control, JobInv, Loading, ClientInv, ThreadInv, implVars
<1>11. ASSUME NEW c \in Clients, WaitResume(c) PROVE JobInv'
  BY <1>11 DEF WaitResume, Control, TypeOK, JobInv, Loading, implVars, ticketVars
<1>12. ASSUME NEW c \in Clients, WaitCount(c) PROVE JobInv'
  BY <1>12 DEF WaitCount, Control, TypeOK, JobInv, Loading, implVars, ticketVars
<1>13. ASSUME NEW c \in Clients, WaitIdleResume(c) PROVE JobInv'
  BY <1>13 DEF WaitIdleResume, Control, TypeOK, JobInv, Loading, implVars, ticketVars
<1>14. ASSUME NEW c \in Clients, DestroyNotify(c) PROVE JobInv'
  BY <1>14, WakeWorkerMoves
  DEF DestroyNotify, Control, JobInv, Loading, ClientInv, ThreadInv, implVars,
      ticketVars
<1>15. ASSUME NEW c \in Clients, DestroyJoin(c) PROVE JobInv'
  BY <1>15 DEF DestroyJoin, Control, TypeOK, JobInv, Loading, implVars, ticketVars
<1>16. ASSUME NEW c \in Clients, SpuriousWakeup(c) PROVE JobInv'
  BY <1>16 DEF SpuriousWakeup, Control, TypeOK, JobInv, Loading, implVars, ticketVars
<1>17. ASSUME WorkerPark PROVE JobInv'
  BY <1>17 DEF WorkerPark, Control, TypeOK, JobInv, Loading, implVars, ticketVars
<1>18. ASSUME WorkerReturn PROVE JobInv'
  BY <1>18 DEF WorkerReturn, Control, TypeOK, JobInv, Loading, implVars, ticketVars
<1>19. ASSUME NEW t \in Tickets, WorkerPop(t) PROVE JobInv'
  BY <1>19 DEF WorkerPop, Control, TypeOK, Loading, JobInv, IsTop, ticketVars
<1>20. ASSUME WorkerLoad PROVE JobInv'
  BY <1>20 DEF WorkerLoad, Control, TypeOK, JobInv, Loading, implVars, ticketVars
<1>21. ASSUME WorkerPublish PROVE JobInv'
  BY <1>21 DEF WorkerPublish, Control, TypeOK, Loading, JobInv, WorkerInv, implVars
<1>22. ASSUME WorkerCount PROVE JobInv'
  BY <1>22 DEF WorkerCount, Control, TypeOK, JobInv, Loading, implVars, ticketVars
<1>23. ASSUME WorkerNotify PROVE JobInv'
  BY <1>23 DEF WorkerNotify, Control, TypeOK, JobInv, Loading, implVars, ticketVars
<1>24. ASSUME WorkerClear PROVE JobInv'
  BY <1>24 DEF WorkerClear, Control, TypeOK, JobInv, Loading, implVars, ticketVars
<1>25. ASSUME WorkerIdleNotify PROVE JobInv'
  BY <1>25 DEF WorkerIdleNotify, Control, TypeOK, JobInv, Loading, implVars, ticketVars
<1>26. ASSUME SpuriousWorkerWakeup PROVE JobInv'
  BY <1>26, WakeWorkerMoves
  DEF SpuriousWorkerWakeup, Control, JobInv, Loading, ClientInv, ThreadInv, implVars,
      ticketVars
<1>27. UNCHANGED vars => JobInv'
  BY DEF vars, Control, JobInv, Loading, implVars, ticketVars
<1> QED
  BY <1>1, <1>2, <1>3, <1>4, <1>5, <1>6, <1>7, <1>8, <1>9, <1>10, <1>11, <1>12, <1>13,
     <1>14, <1>15, <1>16, <1>17, <1>18, <1>19, <1>20, <1>21, <1>22, <1>23, <1>24,
     <1>25, <1>26, <1>27
  DEF Next, Call, Submit, Continue, WorkerStep, SubmitRejected, WaitAgain, Ended

\* No two threads use one ticket.
LEMMA ClientStepInv ==
  ASSUME LoaderAssumption, Control, Next
  PROVE  ClientInv'
<1>1. ASSUME NEW c \in Clients, NEW t \in Tickets, NEW m \in Metadata, SubmitQueued(c, t, m)
      PROVE  ClientInv'
  <2>1. Moves(c, "submit_notify", t)
    BY <1>1, TicketMoves DEF SubmitQueued, Control, ClientPc, Fresh
  <2>2. ASSUME NEW d \in Clients \ {c} PROVE ThreadInv(d)'
    BY <1>1, <2>1
    DEF SubmitQueued, Moves, Control, ClientInv, TypeOK, LoaderAssumption,
        ThreadInv, InlineLoading, Waiting, implVars, ticketVars, Fresh
  <2>3. job'[t] # {}
    BY <1>1 DEF SubmitQueued, Control, TypeOK
  <2>4. ThreadInv(c)'
    BY <2>1, <2>3 DEF Moves, ThreadInv, InlineLoading, Waiting
  <2> QED
    BY <2>2, <2>4 DEF ClientInv
<1>2. ASSUME NEW c \in Clients, NEW t \in Tickets, SubmitInline(c, t) PROVE ClientInv'
  <2>1. Moves(c, "inline_load", t)
    BY <1>2, TicketMoves DEF SubmitInline, Control, ClientPc, Fresh
  <2>2. ASSUME NEW d \in Clients \ {c} PROVE ThreadInv(d)'
    BY <1>2, <2>1
    DEF SubmitInline, Moves, Control, ClientInv, TypeOK, LoaderAssumption,
        ThreadInv, InlineLoading, Waiting, implVars, ticketVars, Fresh
  <2>3. ThreadInv(c)'
    BY <1>2, <2>1
    DEF SubmitInline, Moves, Control, ClientInv, TypeOK, LoaderAssumption,
        ThreadInv, InlineLoading, Waiting, implVars, ticketVars, Fresh
  <2> QED
    BY <2>2, <2>3 DEF ClientInv
<1>3. ASSUME NEW c \in Clients, NEW t \in Tickets, WaitReady(c, t) PROVE ClientInv'
  <2>1. Moves(c, "wait_count", t)
    BY <1>3, TakeMoves DEF WaitReady, Control, ClientPc, Fresh
  <2>2. ASSUME NEW d \in Clients \ {c} PROVE ThreadInv(d)'
    BY <1>3, <2>1
    DEF WaitReady, Moves, Control, ClientInv, TypeOK, LoaderAssumption, ThreadInv,
        InlineLoading, Waiting, implVars, ticketVars, JobInv, TakeResult
  <2>3. ThreadInv(c)'
    BY <1>3, <2>1
    DEF WaitReady, Moves, Control, ClientInv, TypeOK, LoaderAssumption, ThreadInv,
        InlineLoading, Waiting, implVars, ticketVars, JobInv, TakeResult
  <2> QED
    BY <2>2, <2>3 DEF ClientInv
<1>4. ASSUME NEW c \in Clients, NEW t \in Tickets, WaitPark(c, t) PROVE ClientInv'
  <2>1. Moves(c, "wait_parked", t)
    BY <1>4, TicketMoves DEF WaitPark, Control, ClientPc, Fresh
  <2>2. ASSUME NEW d \in Clients \ {c} PROVE ThreadInv(d)'
    BY <1>4, <2>1, SMTT(20)
    DEF WaitPark, Moves, Control, ClientInv, TypeOK, LoaderAssumption, ThreadInv,
        InlineLoading, Waiting, implVars, ticketVars, JobInv, TakenInv
  <2>3. ThreadInv(c)'
    BY <1>4, <2>1
    DEF WaitPark, Moves, Control, ClientInv, TypeOK, LoaderAssumption, ThreadInv,
        InlineLoading, Waiting, implVars, ticketVars, JobInv, TakenInv
  <2> QED
    BY <2>2, <2>3 DEF ClientInv
<1>5. ASSUME NEW c \in Clients, WaitIdle(c) PROVE ClientInv'
  <2>1. client' = client \/ Moves(c, "idle_parked", client[c].ticket)
    BY <1>5, GotoMoves DEF WaitIdle, Control, ClientPc, Fresh
  <2>2. ASSUME NEW d \in Clients \ {c} PROVE ThreadInv(d)'
    BY <1>5, <2>1
    DEF WaitIdle, Moves, Control, ClientInv, TypeOK, LoaderAssumption, ThreadInv,
        InlineLoading, Waiting, implVars, ticketVars
  <2>3. ThreadInv(c)'
    BY <1>5, <2>1
    DEF WaitIdle, Moves, Control, ClientInv, TypeOK, LoaderAssumption, ThreadInv,
        InlineLoading, Waiting, implVars, ticketVars
  <2> QED
    BY <2>2, <2>3 DEF ClientInv
<1>6. ASSUME NEW c \in Clients, DestroyStop(c) PROVE ClientInv'
  <2>1. Moves(c, "destroy_notify", client[c].ticket)
    BY <1>6, GotoMoves DEF DestroyStop, Control, ClientPc, Fresh
  <2>2. ASSUME NEW d \in Clients \ {c} PROVE ThreadInv(d)'
    BY <1>6, <2>1, SMTT(20)
    DEF DestroyStop, Moves, Control, ClientInv, TypeOK, LoaderAssumption, ThreadInv,
        InlineLoading, Waiting, implVars, ticketVars
  <2>3. ThreadInv(c)'
    BY <1>6, <2>1
    DEF DestroyStop, Moves, Control, ClientInv, TypeOK, LoaderAssumption, ThreadInv,
        InlineLoading, Waiting, implVars, ticketVars
  <2> QED
    BY <2>2, <2>3 DEF ClientInv
<1>7. ASSUME NEW c \in Clients, SubmitNotify(c) PROVE ClientInv'
  <2>1. Moves(c, "running", NoTicket)
    BY <1>7, ReturnMoves DEF SubmitNotify, Control, ClientPc, Fresh
  <2>2. ASSUME NEW d \in Clients \ {c} PROVE ThreadInv(d)'
    BY <1>7, <2>1
    DEF SubmitNotify, Moves, Control, ClientInv, TypeOK, LoaderAssumption,
        ThreadInv, InlineLoading, Waiting, implVars, ticketVars
  <2>3. ThreadInv(c)'
    BY <1>7, <2>1
    DEF SubmitNotify, Moves, Control, ClientInv, TypeOK, LoaderAssumption,
        ThreadInv, InlineLoading, Waiting, implVars, ticketVars
  <2> QED
    BY <2>2, <2>3 DEF ClientInv
<1>8. ASSUME NEW c \in Clients, InlineLoad(c) PROVE ClientInv'
  <2>0. PICK o \in Outcomes : client' = [client EXCEPT ![c] = [@ EXCEPT !.pc = "inline_publish", !.loaded = {o}]]
    BY <1>8 DEF InlineLoad
  <2>1. Moves(c, "inline_publish", client[c].ticket) /\ client'[c].loaded = {o}
    BY <2>0, LoadMoves DEF Control
  <2>2. ASSUME NEW d \in Clients \ {c} PROVE ThreadInv(d)'
    BY <1>8, <2>1
    DEF InlineLoad, Moves, Control, ClientInv, TypeOK, LoaderAssumption, ThreadInv,
        InlineLoading, Waiting, implVars, ticketVars
  <2>3. ThreadInv(c)'
    BY <1>8, <2>1
    DEF InlineLoad, Moves, Control, ClientInv, TypeOK, LoaderAssumption, ThreadInv,
        InlineLoading, Waiting, implVars, ticketVars
  <2> QED
    BY <2>2, <2>3 DEF ClientInv
<1>9. ASSUME NEW c \in Clients, InlinePublish(c) PROVE ClientInv'
  <2>1. Moves(c, "inline_count", client[c].ticket)
    BY <1>9, GotoMoves DEF InlinePublish, Control, ClientPc, Fresh
  <2>2. ASSUME NEW d \in Clients \ {c} PROVE ThreadInv(d)'
    BY <1>9, <2>1
    DEF InlinePublish, Moves, Control, ClientInv, TypeOK, LoaderAssumption,
        ThreadInv, InlineLoading, Waiting, implVars, ticketVars
  <2>3. ThreadInv(c)'
    BY <1>9, <2>1, ZenonT(40)
    DEF InlinePublish, Moves, Control, ClientInv, TypeOK, LoaderAssumption,
        ThreadInv, InlineLoading, Waiting, implVars, ticketVars
  <2> QED
    BY <2>2, <2>3 DEF ClientInv
<1>10. ASSUME NEW c \in Clients, InlineCount(c) PROVE ClientInv'
  <2>1. Moves(c, "running", NoTicket)
    BY <1>10, ReturnMoves DEF InlineCount, Control, ClientPc, Fresh
  <2>2. ASSUME NEW d \in Clients \ {c} PROVE ThreadInv(d)'
    BY <1>10, <2>1
    DEF InlineCount, Moves, Control, ClientInv, TypeOK, LoaderAssumption, ThreadInv,
        InlineLoading, Waiting, implVars, ticketVars
  <2>3. ThreadInv(c)'
    BY <1>10, <2>1
    DEF InlineCount, Moves, Control, ClientInv, TypeOK, LoaderAssumption, ThreadInv,
        InlineLoading, Waiting, implVars, ticketVars
  <2> QED
    BY <2>2, <2>3 DEF ClientInv
<1>11. ASSUME NEW c \in Clients, WaitResume(c) PROVE ClientInv'
  <2>0. client[c].ticket \in Tickets
    BY <1>11 DEF WaitResume, Control, ClientInv, ThreadInv, Waiting, TypeOK
  <2>1. CASE result[client[c].ticket] # {}
    <3>1. TakeResult(c, client[c].ticket, FALSE)
      BY <1>11, <2>1 DEF WaitResume
    <3>2. Moves(c, "wait_count", client[c].ticket)
      BY <2>0, <3>1, TakeMoves DEF Control
    <3>3. ASSUME NEW d \in Clients \ {c} PROVE ThreadInv(d)'
      BY <1>11, <2>0, <3>1, <3>2
      DEF WaitResume, TakeResult, Moves, Control, ClientInv, TypeOK, ThreadInv,
          InlineLoading, Waiting, implVars
    <3>4. ThreadInv(c)'
      BY <1>11, <3>2 DEF WaitResume, Moves, ThreadInv, InlineLoading, Waiting
    <3> QED
      BY <3>3, <3>4 DEF ClientInv
  <2>2. CASE result[client[c].ticket] = {}
    <3>1. Moves(c, "wait_parked", client[c].ticket) /\ UNCHANGED taken
      BY <1>11, <2>2, GotoMoves DEF WaitResume, Control, ClientPc
    <3>2. ASSUME NEW d \in Clients \ {c} PROVE ThreadInv(d)'
      BY <1>11, <2>2, <3>1
      DEF WaitResume, Moves, Control, ClientInv, TypeOK, ThreadInv, InlineLoading,
          Waiting, implVars
    <3>3. ThreadInv(c)'
      BY <1>11, <2>2, <3>1
      DEF WaitResume, Moves, Control, ClientInv, TypeOK, ThreadInv, InlineLoading,
          Waiting, implVars
    <3> QED
      BY <3>2, <3>3 DEF ClientInv
  <2> QED
    BY <2>1, <2>2
<1>12. ASSUME NEW c \in Clients, WaitCount(c) PROVE ClientInv'
  <2>1. Moves(c, "running", NoTicket)
    BY <1>12, ReturnMoves DEF WaitCount, Control, ClientPc, Fresh
  <2>2. ASSUME NEW d \in Clients \ {c} PROVE ThreadInv(d)'
    BY <1>12, <2>1
    DEF WaitCount, Moves, Control, ClientInv, TypeOK, LoaderAssumption, ThreadInv,
        InlineLoading, Waiting, implVars, ticketVars
  <2>3. ThreadInv(c)'
    BY <1>12, <2>1
    DEF WaitCount, Moves, Control, ClientInv, TypeOK, LoaderAssumption, ThreadInv,
        InlineLoading, Waiting, implVars, ticketVars
  <2> QED
    BY <2>2, <2>3 DEF ClientInv
<1>13. ASSUME NEW c \in Clients, WaitIdleResume(c) PROVE ClientInv'
  <2>1. Moves(c, "running", NoTicket) \/ Moves(c, "idle_parked", client[c].ticket)
    BY <1>13, GotoMoves, ReturnMoves DEF WaitIdleResume, Control, ClientPc, Fresh
  <2>2. ASSUME NEW d \in Clients \ {c} PROVE ThreadInv(d)'
    BY <1>13, <2>1
    DEF WaitIdleResume, Moves, Control, ClientInv, TypeOK, LoaderAssumption,
        ThreadInv, InlineLoading, Waiting, implVars, ticketVars
  <2>3. ThreadInv(c)'
    BY <1>13, <2>1
    DEF WaitIdleResume, Moves, Control, ClientInv, TypeOK, LoaderAssumption,
        ThreadInv, InlineLoading, Waiting, implVars, ticketVars
  <2> QED
    BY <2>2, <2>3 DEF ClientInv
<1>14. ASSUME NEW c \in Clients, DestroyNotify(c) PROVE ClientInv'
  <2>1. Moves(c, "join", client[c].ticket)
    BY <1>14, GotoMoves DEF DestroyNotify, Control, ClientPc, Fresh
  <2>2. ASSUME NEW d \in Clients \ {c} PROVE ThreadInv(d)'
    BY <1>14, <2>1
    DEF DestroyNotify, Moves, Control, ClientInv, TypeOK, LoaderAssumption,
        ThreadInv, InlineLoading, Waiting, implVars, ticketVars
  <2>3. ThreadInv(c)'
    BY <1>14, <2>1
    DEF DestroyNotify, Moves, Control, ClientInv, TypeOK, LoaderAssumption,
        ThreadInv, InlineLoading, Waiting, implVars, ticketVars
  <2> QED
    BY <2>2, <2>3 DEF ClientInv
<1>15. ASSUME NEW c \in Clients, DestroyJoin(c) PROVE ClientInv'
  <2>1. Moves(c, "running", NoTicket)
    BY <1>15, ReturnMoves DEF DestroyJoin, Control, ClientPc, Fresh
  <2>2. ASSUME NEW d \in Clients \ {c} PROVE ThreadInv(d)'
    BY <1>15, <2>1
    DEF DestroyJoin, Moves, Control, ClientInv, TypeOK, LoaderAssumption, ThreadInv,
        InlineLoading, Waiting, implVars, ticketVars
  <2>3. ThreadInv(c)'
    BY <1>15, <2>1
    DEF DestroyJoin, Moves, Control, ClientInv, TypeOK, LoaderAssumption, ThreadInv,
        InlineLoading, Waiting, implVars, ticketVars
  <2> QED
    BY <2>2, <2>3 DEF ClientInv
<1>16. ASSUME NEW c \in Clients, SpuriousWakeup(c) PROVE ClientInv'
  <2>1. Wakes
    BY <1>16, SpuriousWakes DEF SpuriousWakeup, Control
  <2>2. ASSUME NEW d \in Clients PROVE ThreadInv(d)'
    BY <1>16, <2>1
    DEF SpuriousWakeup, Wakes, Control, ClientInv, TypeOK, ThreadInv, InlineLoading,
        Waiting, implVars, ticketVars
  <2> QED
    BY <2>2 DEF ClientInv
<1>17. ASSUME WorkerPark PROVE ClientInv'
  BY <1>17
  DEF WorkerPark, Control, ClientInv, ThreadInv, InlineLoading, Waiting, implVars,
      ticketVars
<1>18. ASSUME WorkerReturn PROVE ClientInv'
  BY <1>18
  DEF WorkerReturn, Control, ClientInv, ThreadInv, InlineLoading, Waiting, implVars,
      ticketVars
<1>19. ASSUME NEW t \in Tickets, WorkerPop(t) PROVE ClientInv'
  BY <1>19
  DEF WorkerPop, Control, ClientInv, ThreadInv, InlineLoading, Waiting, implVars,
      ticketVars
<1>20. ASSUME WorkerLoad PROVE ClientInv'
  BY <1>20
  DEF WorkerLoad, Control, ClientInv, ThreadInv, InlineLoading, Waiting, implVars,
      ticketVars
<1>21. ASSUME WorkerPublish PROVE ClientInv'
  <2>1. worker.job \in Tickets /\ job[worker.job] # {}
        /\ \E o \in Outcomes : worker.loaded = {o}
    BY <1>21 DEF WorkerPublish, Control, WorkerInv, Loading
  <2>2. ASSUME NEW d \in Clients PROVE ThreadInv(d)'
    BY <1>21, <2>1
    DEF WorkerPublish, Control, ClientInv, TypeOK, ThreadInv, InlineLoading,
        Waiting, implVars, ticketVars
  <2> QED
    BY <2>2 DEF ClientInv
<1>22. ASSUME WorkerCount PROVE ClientInv'
  BY <1>22
  DEF WorkerCount, Control, ClientInv, ThreadInv, InlineLoading, Waiting, implVars,
      ticketVars
<1>23. ASSUME WorkerNotify PROVE ClientInv'
  <2>1. Wakes
    BY <1>23, WakeTicketWakes DEF WorkerNotify, Control
  <2>2. UNCHANGED <<job, result, consumed, taken>>
    BY <1>23 DEF WorkerNotify, ticketVars
  <2>3. ASSUME NEW d \in Clients PROVE ThreadInv(d)'
    BY <2>1, <2>2 DEF Wakes, Control, ClientInv, ThreadInv, InlineLoading, Waiting
  <2> QED
    BY <2>3 DEF ClientInv
<1>24. ASSUME WorkerClear PROVE ClientInv'
  BY <1>24
  DEF WorkerClear, Control, ClientInv, ThreadInv, InlineLoading, Waiting, implVars,
      ticketVars
<1>25. ASSUME WorkerIdleNotify PROVE ClientInv'
  <2>1. Wakes
    BY <1>25, WakeIdleWakes DEF WorkerIdleNotify, Control
  <2>2. ASSUME NEW d \in Clients PROVE ThreadInv(d)'
    BY <1>25, <2>1
    DEF WorkerIdleNotify, Wakes, Control, ClientInv, TypeOK, ThreadInv,
        InlineLoading, Waiting, implVars, ticketVars
  <2> QED
    BY <2>2 DEF ClientInv
<1>26. ASSUME SpuriousWorkerWakeup PROVE ClientInv'
  BY <1>26
  DEF SpuriousWorkerWakeup, Control, ClientInv, ThreadInv, InlineLoading, Waiting,
      implVars, ticketVars
<1>27. UNCHANGED vars => ClientInv'
  BY
  DEF vars, Control, ClientInv, ThreadInv, InlineLoading, Waiting, implVars,
      ticketVars
<1> QED
  BY <1>1, <1>2, <1>3, <1>4, <1>5, <1>6, <1>7, <1>8, <1>9, <1>10, <1>11, <1>12, <1>13,
     <1>14, <1>15, <1>16, <1>17, <1>18, <1>19, <1>20, <1>21, <1>22, <1>23, <1>24,
     <1>25, <1>26, <1>27
  DEF Next, Call, Submit, Continue, WorkerStep, SubmitRejected, WaitAgain, Ended

\* A result is taken at most once.
LEMMA TakenStepInv ==
  ASSUME LoaderAssumption, Control, Next
  PROVE  TakenInv'
<1>1. ASSUME NEW c \in Clients, NEW t \in Tickets, NEW m \in Metadata, SubmitQueued(c, t, m)
      PROVE  TakenInv'
  BY <1>1 DEF SubmitQueued, Control, TakenInv, ticketVars
<1>2. ASSUME NEW c \in Clients, NEW t \in Tickets, SubmitInline(c, t) PROVE TakenInv'
  BY <1>2 DEF SubmitInline, Control, TakenInv, ticketVars
<1>3. ASSUME NEW c \in Clients, NEW t \in Tickets, WaitReady(c, t) PROVE TakenInv'
  BY <1>3 DEF WaitReady, Control, TypeOK, TakenInv, TakeResult
<1>4. ASSUME NEW c \in Clients, NEW t \in Tickets, WaitPark(c, t) PROVE TakenInv'
  BY <1>4 DEF WaitPark, Control, TakenInv
<1>5. ASSUME NEW c \in Clients, WaitIdle(c) PROVE TakenInv'
  BY <1>5 DEF WaitIdle, Control, TakenInv, ticketVars
<1>6. ASSUME NEW c \in Clients, DestroyStop(c) PROVE TakenInv'
  BY <1>6 DEF DestroyStop, Control, TakenInv, ticketVars
<1>7. ASSUME NEW c \in Clients, SubmitNotify(c) PROVE TakenInv'
  BY <1>7 DEF SubmitNotify, Control, TakenInv, ticketVars
<1>8. ASSUME NEW c \in Clients, InlineLoad(c) PROVE TakenInv'
  BY <1>8 DEF InlineLoad, Control, TakenInv, ticketVars
<1>9. ASSUME NEW c \in Clients, InlinePublish(c) PROVE TakenInv'
  BY <1>9 DEF InlinePublish, Control, TakenInv, ticketVars
<1>10. ASSUME NEW c \in Clients, InlineCount(c) PROVE TakenInv'
  BY <1>10 DEF InlineCount, Control, TakenInv, ticketVars
<1>11. ASSUME NEW c \in Clients, WaitResume(c) PROVE TakenInv'
  BY <1>11
  DEF WaitResume, Control, TypeOK, TakenInv, TakeResult, ClientInv, ThreadInv, Waiting
<1>12. ASSUME NEW c \in Clients, WaitCount(c) PROVE TakenInv'
  BY <1>12 DEF WaitCount, Control, TakenInv, ticketVars
<1>13. ASSUME NEW c \in Clients, WaitIdleResume(c) PROVE TakenInv'
  BY <1>13 DEF WaitIdleResume, Control, TakenInv, ticketVars
<1>14. ASSUME NEW c \in Clients, DestroyNotify(c) PROVE TakenInv'
  BY <1>14 DEF DestroyNotify, Control, TakenInv, ticketVars
<1>15. ASSUME NEW c \in Clients, DestroyJoin(c) PROVE TakenInv'
  BY <1>15 DEF DestroyJoin, Control, TakenInv, ticketVars
<1>16. ASSUME NEW c \in Clients, SpuriousWakeup(c) PROVE TakenInv'
  BY <1>16 DEF SpuriousWakeup, Control, TakenInv, ticketVars
<1>17. ASSUME WorkerPark PROVE TakenInv'
  BY <1>17 DEF WorkerPark, Control, TakenInv, ticketVars
<1>18. ASSUME WorkerReturn PROVE TakenInv'
  BY <1>18 DEF WorkerReturn, Control, TakenInv, ticketVars
<1>19. ASSUME NEW t \in Tickets, WorkerPop(t) PROVE TakenInv'
  BY <1>19 DEF WorkerPop, Control, TakenInv, ticketVars
<1>20. ASSUME WorkerLoad PROVE TakenInv'
  BY <1>20 DEF WorkerLoad, Control, TakenInv, ticketVars
<1>21. ASSUME WorkerPublish PROVE TakenInv'
  BY <1>21 DEF WorkerPublish, Control, TakenInv, ticketVars
<1>22. ASSUME WorkerCount PROVE TakenInv'
  BY <1>22 DEF WorkerCount, Control, TakenInv, ticketVars
<1>23. ASSUME WorkerNotify PROVE TakenInv'
  BY <1>23 DEF WorkerNotify, Control, TakenInv, ticketVars
<1>24. ASSUME WorkerClear PROVE TakenInv'
  BY <1>24 DEF WorkerClear, Control, TakenInv, ticketVars
<1>25. ASSUME WorkerIdleNotify PROVE TakenInv'
  BY <1>25 DEF WorkerIdleNotify, Control, TakenInv, ticketVars
<1>26. ASSUME SpuriousWorkerWakeup PROVE TakenInv'
  BY <1>26 DEF SpuriousWorkerWakeup, Control, TakenInv, ticketVars
<1>27. UNCHANGED vars => TakenInv'
  BY DEF vars, Control, TakenInv, implVars, ticketVars
<1> QED
  BY <1>1, <1>2, <1>3, <1>4, <1>5, <1>6, <1>7, <1>8, <1>9, <1>10, <1>11, <1>12, <1>13,
     <1>14, <1>15, <1>16, <1>17, <1>18, <1>19, <1>20, <1>21, <1>22, <1>23, <1>24,
     <1>25, <1>26, <1>27
  DEF Next, Call, Submit, Continue, WorkerStep, SubmitRejected, WaitAgain, Ended

\* The invariant holds when the loader is constructed.
LEMMA ControlInitially ==
  ASSUME LoaderAssumption, Init
  PROVE  Control
<1>1. TypeOK
  BY DEF LoaderAssumption, Init, TypeOK, Running, ClientPc, WorkerPc
<1>2. WorkerInv /\ JobInv
  BY DEF Init, WorkerInv, Loading, JobInv
<1>3. ClientInv
  BY DEF Init, Running, ClientInv, ThreadInv, InlineLoading, Waiting
<1>4. TakenInv
  BY DEF Init, TakenInv
<1> QED
  BY <1>1, <1>2, <1>3, <1>4 DEF Control

LEMMA ControlStep ==
  ASSUME LoaderAssumption, Control, [Next]_vars
  PROVE  Control'
<1>1. CASE Next
  BY <1>1, TypeStep, WorkerStepInv, JobStepInv, ClientStepInv, TakenStepInv DEF Control
<1>2. CASE UNCHANGED vars
  BY <1>2
  DEF vars, implVars, ticketVars, Control, TypeOK, WorkerInv, JobInv, ClientInv,
      TakenInv,
              Loading, ThreadInv, InlineLoading, Waiting
<1> QED
  BY <1>1, <1>2

\* The loader's state keeps its types: in particular the ticket a woken thread
\* reads a result from, and the job the worker publishes, are tickets.
THEOREM Typed ==
  ASSUME LoaderAssumption
  PROVE  Spec => []TypeOK
<1>1. Init => Control
  BY ControlInitially
<1>2. Control /\ [Next]_vars => Control'
  BY ControlStep
<1>3. Control => TypeOK
  BY DEF Control
<1> QED
  BY <1>1, <1>2, <1>3, PTL DEF Spec

\* ~Impl drains the queue: when the worker has left its loop, no job is queued
\* and every accepted load has its result, so a ticket that outlives the loader
\* is never left waiting.
THEOREM Drains ==
  ASSUME LoaderAssumption
  PROVE  Spec => []StopDrainsQueue
<1>1. Init => Control
  BY ControlInitially
<1>2. Control /\ [Next]_vars => Control'
  BY ControlStep
<1>3. Control => StopDrainsQueue
  BY DEF Control, WorkerInv, JobInv, Loading, StopDrainsQueue
<1> QED
  BY <1>1, <1>2, <1>3, PTL DEF Spec

-----------------------------------------------------------------------------
(* Counting.                                                               *)

\* Every submission is one the loader has completed, one a calling thread is
\* loading, one that waits or the one the worker holds.
Held == IF Busy THEN 1 ELSE 0
Accounted ==
  metrics.completions + Cardinality(InlinePending) + Cardinality(queue) + Held
    = metrics.submissions

\* Every ticket whose result was taken is counted, or is about to be.
TakenTickets == {t \in Tickets : taken[t] > 0}
Counting == {c \in Clients : client[c].pc = "wait_count"}
TakesCounted ==
  metrics.readyBeforeUse + metrics.lateAtUse + Cardinality(Counting)
    = Cardinality(TakenTickets)

\* The sets that are counted are finite and the counters are numbers.
LEMMA Counts ==
  ASSUME LoaderAssumption, TypeOK
  PROVE  /\ IsFiniteSet(InlinePending) /\ Cardinality(InlinePending) \in Nat
         /\ IsFiniteSet(Counting) /\ Cardinality(Counting) \in Nat
         /\ IsFiniteSet(queue) /\ Cardinality(queue) \in Nat
         /\ IsFiniteSet(TakenTickets) /\ Cardinality(TakenTickets) \in Nat
         /\ metrics.submissions \in Nat /\ metrics.completions \in Nat
         /\ metrics.readyBeforeUse \in Nat /\ metrics.lateAtUse \in Nat
<1>1. InlinePending \subseteq Clients /\ Counting \subseteq Clients
      /\ queue \subseteq Tickets /\ TakenTickets \subseteq Tickets
  BY DEF InlinePending, Counting, TakenTickets, TypeOK
<1>2. IsFiniteSet(InlinePending) /\ IsFiniteSet(Counting) /\ IsFiniteSet(queue)
      /\ IsFiniteSet(TakenTickets)
  BY <1>1, FS_Subset DEF LoaderAssumption
<1> QED
  BY <1>2, FS_CardinalityType DEF TypeOK

\* Thread c does not start or end a load of its own.
LEMMA InlineKept ==
  ASSUME NEW c \in Clients, NEW pc, NEW t, Moves(c, pc, t),
         client[c].pc \in {"inline_load", "inline_publish", "inline_count"}
           <=> pc \in {"inline_load", "inline_publish", "inline_count"}
  PROVE  InlinePending' = InlinePending
  BY DEF Moves, InlinePending

\* Thread c neither takes a result nor counts one it took.
LEMMA CountingKept ==
  ASSUME NEW c \in Clients, NEW pc, NEW t, Moves(c, pc, t),
         client[c].pc = "wait_count" <=> pc = "wait_count"
  PROVE  Counting' = Counting
  BY DEF Moves, Counting

\* A wakeup changes neither set.
LEMMA WakesKeep ==
  ASSUME Wakes
  PROVE  InlinePending' = InlinePending /\ Counting' = Counting
  BY DEF Wakes, InlinePending, Counting

LEMMA AccountedStep ==
  ASSUME LoaderAssumption, Control, Accounted, Next
  PROVE  Accounted'
<1>1. ASSUME NEW c \in Clients, NEW t \in Tickets, NEW m \in Metadata, SubmitQueued(c, t, m)
      PROVE  Accounted'
  <2>1. Moves(c, "submit_notify", t)
    BY <1>1, TicketMoves DEF SubmitQueued, Control, ClientPc
  <2>2. InlinePending' = InlinePending
    BY <1>1, <2>1, InlineKept DEF SubmitQueued
  <2>3. metrics'.completions = metrics.completions /\ metrics'.submissions = metrics.submissions + 1
    BY <1>1 DEF SubmitQueued, Control, TypeOK
  <2>4. t \notin queue /\ queue' = queue \cup {t} /\ Held' = Held
    BY <1>1 DEF SubmitQueued, Held, Busy, Control, JobInv, Fresh
  <2>5. Cardinality(queue') = Cardinality(queue) + 1
    BY <2>4, Counts, FS_AddElement DEF Control
  <2> QED
    BY <2>2, <2>3, <2>4, <2>5, Counts DEF Accounted, Control, Held
<1>2. ASSUME NEW c \in Clients, NEW t \in Tickets, SubmitInline(c, t) PROVE Accounted'
  <2>1. Moves(c, "inline_load", t)
    BY <1>2, TicketMoves DEF SubmitInline, Control, ClientPc
  <2>2. c \notin InlinePending /\ InlinePending' = InlinePending \cup {c}
    BY <1>2, <2>1 DEF SubmitInline, Moves, InlinePending
  <2>3. Cardinality(InlinePending') = Cardinality(InlinePending) + 1
    BY <2>2, Counts, FS_AddElement DEF Control
  <2>4. metrics'.completions = metrics.completions /\ metrics'.submissions = metrics.submissions + 1
    BY <1>2 DEF SubmitInline, Control, TypeOK
  <2>5. queue' = queue /\ Held' = Held
    BY <1>2 DEF SubmitInline, Held, Busy, implVars
  <2> QED
    BY <2>3, <2>4, <2>5, Counts DEF Accounted, Control, Held
<1>3. ASSUME NEW c \in Clients, NEW t \in Tickets, WaitReady(c, t) PROVE Accounted'
  <2>1. Moves(c, "wait_count", t)
    BY <1>3, TakeMoves DEF WaitReady, Control, ClientPc
  <2>2. InlinePending' = InlinePending
    BY <1>3, <2>1, InlineKept DEF WaitReady
  <2> QED
    BY <1>3, <2>2 DEF WaitReady, Accounted, Held, Busy, implVars
<1>4. ASSUME NEW c \in Clients, NEW t \in Tickets, WaitPark(c, t) PROVE Accounted'
  <2>1. Moves(c, "wait_parked", t)
    BY <1>4, TicketMoves DEF WaitPark, Control, ClientPc
  <2>2. InlinePending' = InlinePending
    BY <1>4, <2>1, InlineKept DEF WaitPark
  <2> QED
    BY <1>4, <2>2 DEF WaitPark, Accounted, Held, Busy, implVars
<1>5. ASSUME NEW c \in Clients, WaitIdle(c) PROVE Accounted'
  <2>1. client' = client \/ Moves(c, "idle_parked", client[c].ticket)
    BY <1>5, GotoMoves DEF WaitIdle, Control, ClientPc
  <2>2. InlinePending' = InlinePending
    BY <1>5, <2>1, InlineKept DEF WaitIdle, InlinePending
  <2> QED
    BY <1>5, <2>2 DEF WaitIdle, Accounted, Held, Busy, implVars
<1>6. ASSUME NEW c \in Clients, DestroyStop(c) PROVE Accounted'
  <2>1. Moves(c, "destroy_notify", client[c].ticket)
    BY <1>6, GotoMoves DEF DestroyStop, Control, ClientPc
  <2>2. InlinePending' = InlinePending
    BY <1>6, <2>1, InlineKept DEF DestroyStop
  <2> QED
    BY <1>6, <2>2 DEF DestroyStop, Accounted, Held, Busy, implVars
<1>7. ASSUME NEW c \in Clients, SubmitNotify(c) PROVE Accounted'
  <2>1. Moves(c, "running", NoTicket)
    BY <1>7, ReturnMoves DEF SubmitNotify, Control, ClientPc
  <2>2. InlinePending' = InlinePending
    BY <1>7, <2>1, InlineKept DEF SubmitNotify
  <2> QED
    BY <1>7, <2>2, WakeWorkerMoves
    DEF SubmitNotify, Accounted, Held, Busy, implVars, Control, TypeOK
<1>8. ASSUME NEW c \in Clients, InlineLoad(c) PROVE Accounted'
  <2>1. Moves(c, "inline_publish", client[c].ticket)
    BY <1>8, LoadMoves DEF InlineLoad, Control, ClientPc
  <2>2. InlinePending' = InlinePending
    BY <1>8, <2>1, InlineKept DEF InlineLoad
  <2> QED
    BY <1>8, <2>2 DEF InlineLoad, Accounted, Held, Busy, implVars
<1>9. ASSUME NEW c \in Clients, InlinePublish(c) PROVE Accounted'
  <2>1. Moves(c, "inline_count", client[c].ticket)
    BY <1>9, GotoMoves DEF InlinePublish, Control, ClientPc
  <2>2. InlinePending' = InlinePending
    BY <1>9, <2>1, InlineKept DEF InlinePublish
  <2> QED
    BY <1>9, <2>2 DEF InlinePublish, Accounted, Held, Busy, implVars
<1>10. ASSUME NEW c \in Clients, InlineCount(c) PROVE Accounted'
  <2>1. Moves(c, "running", NoTicket)
    BY <1>10, ReturnMoves DEF InlineCount, Control, ClientPc
  <2>2. c \in InlinePending /\ InlinePending' = InlinePending \ {c}
    BY <1>10, <2>1 DEF InlineCount, Moves, InlinePending
  <2>3. Cardinality(InlinePending') = Cardinality(InlinePending) - 1
    BY <2>2, Counts, FS_RemoveElement DEF Control
  <2>4. metrics'.completions = metrics.completions + 1 /\ metrics'.submissions = metrics.submissions
    BY <1>10 DEF InlineCount, Control, TypeOK
  <2>5. queue' = queue /\ Held' = Held
    BY <1>10 DEF InlineCount, Held, Busy, implVars
  <2> QED
    BY <2>3, <2>4, <2>5, Counts DEF Accounted, Control, Held
<1>11. ASSUME NEW c \in Clients, WaitResume(c) PROVE Accounted'
  <2>1. \/ result[client[c].ticket] = {} /\ Moves(c, "wait_parked", client[c].ticket) /\ UNCHANGED taken
        \/ /\ result[client[c].ticket] # {} /\ client[c].ticket \in Tickets
           /\ TakeResult(c, client[c].ticket, FALSE) /\ Moves(c, "wait_count", client[c].ticket)
    <3>1. client[c].ticket \in Tickets
      BY <1>11 DEF WaitResume, Control, ClientInv, ThreadInv, Waiting, TypeOK
    <3> QED
      BY <1>11, <3>1, TakeMoves, GotoMoves DEF WaitResume, Control, ClientPc
  <2>2. InlinePending' = InlinePending
    BY <1>11, <2>1, InlineKept DEF WaitResume
  <2> QED
    BY <1>11, <2>2 DEF WaitResume, Accounted, Held, Busy, implVars
<1>12. ASSUME NEW c \in Clients, WaitCount(c) PROVE Accounted'
  <2>1. Moves(c, "running", NoTicket)
    BY <1>12, ReturnMoves DEF WaitCount, Control, ClientPc
  <2>2. InlinePending' = InlinePending
    BY <1>12, <2>1, InlineKept DEF WaitCount
  <2> QED
    BY <1>12, <2>2 DEF WaitCount, Accounted, Held, Busy, implVars, Control, TypeOK
<1>13. ASSUME NEW c \in Clients, WaitIdleResume(c) PROVE Accounted'
  <2>1. Moves(c, "running", NoTicket) \/ Moves(c, "idle_parked", client[c].ticket)
    BY <1>13, GotoMoves, ReturnMoves DEF WaitIdleResume, Control, ClientPc
  <2>2. InlinePending' = InlinePending
    BY <1>13, <2>1, InlineKept DEF WaitIdleResume
  <2> QED
    BY <1>13, <2>2 DEF WaitIdleResume, Accounted, Held, Busy, implVars
<1>14. ASSUME NEW c \in Clients, DestroyNotify(c) PROVE Accounted'
  <2>1. Moves(c, "join", client[c].ticket)
    BY <1>14, GotoMoves DEF DestroyNotify, Control, ClientPc
  <2>2. InlinePending' = InlinePending
    BY <1>14, <2>1, InlineKept DEF DestroyNotify
  <2> QED
    BY <1>14, <2>2, WakeWorkerMoves
    DEF DestroyNotify, Accounted, Held, Busy, implVars, Control, TypeOK
<1>15. ASSUME NEW c \in Clients, DestroyJoin(c) PROVE Accounted'
  <2>1. Moves(c, "running", NoTicket)
    BY <1>15, ReturnMoves DEF DestroyJoin, Control, ClientPc
  <2>2. InlinePending' = InlinePending
    BY <1>15, <2>1, InlineKept DEF DestroyJoin
  <2> QED
    BY <1>15, <2>2 DEF DestroyJoin, Accounted, Held, Busy, implVars
<1>16. ASSUME NEW c \in Clients, SpuriousWakeup(c) PROVE Accounted'
  <2>1. Wakes
    BY <1>16, SpuriousWakes DEF SpuriousWakeup, Control
  <2>2. InlinePending' = InlinePending
    BY <1>16, <2>1, WakesKeep DEF SpuriousWakeup
  <2> QED
    BY <1>16, <2>2 DEF SpuriousWakeup, Accounted, Held, Busy, implVars
<1>17. ASSUME WorkerPark PROVE Accounted'
  BY <1>17 DEF WorkerPark, InlinePending, Accounted, Held, Busy, implVars
<1>18. ASSUME WorkerReturn PROVE Accounted'
  BY <1>18 DEF WorkerReturn, InlinePending, Accounted, Held, Busy, implVars
<1>19. ASSUME NEW t \in Tickets, WorkerPop(t) PROVE Accounted'
  <2>1. InlinePending' = InlinePending /\ UNCHANGED metrics
    BY <1>19 DEF WorkerPop, InlinePending
  <2>2. t \in queue /\ queue' = queue \ {t} /\ Held = 0 /\ Held' = 1
    BY <1>19 DEF WorkerPop, IsTop, Held, Busy
  <2>3. Cardinality(queue') = Cardinality(queue) - 1
    BY <2>2, Counts, FS_RemoveElement DEF Control
  <2> QED
    BY <2>1, <2>2, <2>3, Counts DEF Accounted, Control
<1>20. ASSUME WorkerLoad PROVE Accounted'
  BY <1>20 DEF WorkerLoad, InlinePending, Accounted, Held, Busy, implVars
<1>21. ASSUME WorkerPublish PROVE Accounted'
  BY <1>21 DEF WorkerPublish, InlinePending, Accounted, Held, Busy, implVars
<1>22. ASSUME WorkerCount PROVE Accounted'
  <2>1. InlinePending' = InlinePending /\ queue' = queue
    BY <1>22 DEF WorkerCount, InlinePending, implVars
  <2>2. Held = 1 /\ Held' = 0
    BY <1>22 DEF WorkerCount, Held, Busy, Control, TypeOK
  <2>3. metrics'.completions = metrics.completions + 1 /\ metrics'.submissions = metrics.submissions
    BY <1>22 DEF WorkerCount, Control, TypeOK
  <2> QED
    BY <2>1, <2>2, <2>3, Counts DEF Accounted, Control
<1>23. ASSUME WorkerNotify PROVE Accounted'
  <2>1. Wakes
    BY <1>23, WakeTicketWakes DEF WorkerNotify, Control
  <2>2. InlinePending' = InlinePending
    BY <1>23, <2>1, WakesKeep DEF WorkerNotify
  <2> QED
    BY <1>23, <2>2 DEF WorkerNotify, Accounted, Held, Busy, implVars
<1>24. ASSUME WorkerClear PROVE Accounted'
  BY <1>24 DEF WorkerClear, InlinePending, Accounted, Held, Busy, implVars
<1>25. ASSUME WorkerIdleNotify PROVE Accounted'
  <2>1. Wakes
    BY <1>25, WakeIdleWakes DEF WorkerIdleNotify, Control
  <2>2. InlinePending' = InlinePending
    BY <1>25, <2>1, WakesKeep DEF WorkerIdleNotify
  <2> QED
    BY <1>25, <2>2 DEF WorkerIdleNotify, Accounted, Held, Busy, implVars
<1>26. ASSUME SpuriousWorkerWakeup PROVE Accounted'
  BY <1>26, WakeWorkerMoves
  DEF SpuriousWorkerWakeup, InlinePending, Accounted, Held, Busy, implVars, Control
<1>27. UNCHANGED vars => Accounted'
  BY DEF vars, Accounted, Held, Busy, InlinePending, implVars
<1> QED
  BY <1>1, <1>2, <1>3, <1>4, <1>5, <1>6, <1>7, <1>8, <1>9, <1>10, <1>11, <1>12, <1>13,
     <1>14, <1>15, <1>16, <1>17, <1>18, <1>19, <1>20, <1>21, <1>22, <1>23, <1>24,
     <1>25, <1>26, <1>27
  DEF Next, Call, Submit, Continue, WorkerStep, SubmitRejected, WaitAgain, Ended

LEMMA TakesCountedStep ==
  ASSUME LoaderAssumption, Control, TakesCounted, Next
  PROVE  TakesCounted'
<1>1. ASSUME NEW c \in Clients, NEW t \in Tickets, NEW m \in Metadata, SubmitQueued(c, t, m)
      PROVE  TakesCounted'
  <2>1. Moves(c, "submit_notify", t)
    BY <1>1, TicketMoves DEF SubmitQueued, Control, ClientPc
  <2>2. Counting' = Counting
    BY <1>1, <2>1, CountingKept DEF SubmitQueued
  <2> QED
    BY <1>1, <2>2
    DEF SubmitQueued, TakesCounted, TakenTickets, ticketVars, Control, TypeOK
<1>2. ASSUME NEW c \in Clients, NEW t \in Tickets, SubmitInline(c, t) PROVE TakesCounted'
  <2>1. Moves(c, "inline_load", t)
    BY <1>2, TicketMoves DEF SubmitInline, Control, ClientPc
  <2>2. Counting' = Counting
    BY <1>2, <2>1, CountingKept DEF SubmitInline
  <2> QED
    BY <1>2, <2>2
    DEF SubmitInline, TakesCounted, TakenTickets, ticketVars, Control, TypeOK
<1>3. ASSUME NEW c \in Clients, NEW t \in Tickets, WaitReady(c, t) PROVE TakesCounted'
  <2>1. Moves(c, "wait_count", t)
    BY <1>3, TakeMoves DEF WaitReady, Control, ClientPc
  <2>2. c \notin Counting /\ Counting' = Counting \cup {c} /\ UNCHANGED metrics
    BY <1>3, <2>1 DEF WaitReady, Moves, Counting
  <2>3. t \notin TakenTickets /\ TakenTickets' = TakenTickets \cup {t}
    BY <1>3 DEF WaitReady, TakeResult, TakenTickets, Control, TakenInv, TypeOK
  <2>4. /\ Cardinality(Counting') = Cardinality(Counting) + 1
        /\ Cardinality(TakenTickets') = Cardinality(TakenTickets) + 1
    BY <2>2, <2>3, Counts, FS_AddElement DEF Control
  <2> QED
    BY <2>2, <2>4, Counts DEF TakesCounted, Control
<1>4. ASSUME NEW c \in Clients, NEW t \in Tickets, WaitPark(c, t) PROVE TakesCounted'
  <2>1. Moves(c, "wait_parked", t)
    BY <1>4, TicketMoves DEF WaitPark, Control, ClientPc
  <2>2. Counting' = Counting
    BY <1>4, <2>1, CountingKept DEF WaitPark
  <2> QED
    BY <1>4, <2>2 DEF WaitPark, TakesCounted, TakenTickets, ticketVars
<1>5. ASSUME NEW c \in Clients, WaitIdle(c) PROVE TakesCounted'
  <2>1. client' = client \/ Moves(c, "idle_parked", client[c].ticket)
    BY <1>5, GotoMoves DEF WaitIdle, Control, ClientPc
  <2>2. Counting' = Counting
    BY <1>5, <2>1, CountingKept DEF WaitIdle, Counting
  <2> QED
    BY <1>5, <2>2 DEF WaitIdle, TakesCounted, TakenTickets, ticketVars
<1>6. ASSUME NEW c \in Clients, DestroyStop(c) PROVE TakesCounted'
  <2>1. Moves(c, "destroy_notify", client[c].ticket)
    BY <1>6, GotoMoves DEF DestroyStop, Control, ClientPc
  <2>2. Counting' = Counting
    BY <1>6, <2>1, CountingKept DEF DestroyStop
  <2> QED
    BY <1>6, <2>2 DEF DestroyStop, TakesCounted, TakenTickets, ticketVars
<1>7. ASSUME NEW c \in Clients, SubmitNotify(c) PROVE TakesCounted'
  <2>1. Moves(c, "running", NoTicket)
    BY <1>7, ReturnMoves DEF SubmitNotify, Control, ClientPc
  <2>2. Counting' = Counting
    BY <1>7, <2>1, CountingKept DEF SubmitNotify
  <2> QED
    BY <1>7, <2>2 DEF SubmitNotify, TakesCounted, TakenTickets, ticketVars
<1>8. ASSUME NEW c \in Clients, InlineLoad(c) PROVE TakesCounted'
  <2>1. Moves(c, "inline_publish", client[c].ticket)
    BY <1>8, LoadMoves DEF InlineLoad, Control, ClientPc
  <2>2. Counting' = Counting
    BY <1>8, <2>1, CountingKept DEF InlineLoad
  <2> QED
    BY <1>8, <2>2 DEF InlineLoad, TakesCounted, TakenTickets, ticketVars
<1>9. ASSUME NEW c \in Clients, InlinePublish(c) PROVE TakesCounted'
  <2>1. Moves(c, "inline_count", client[c].ticket)
    BY <1>9, GotoMoves DEF InlinePublish, Control, ClientPc
  <2>2. Counting' = Counting
    BY <1>9, <2>1, CountingKept DEF InlinePublish
  <2> QED
    BY <1>9, <2>2 DEF InlinePublish, TakesCounted, TakenTickets, ticketVars
<1>10. ASSUME NEW c \in Clients, InlineCount(c) PROVE TakesCounted'
  <2>1. Moves(c, "running", NoTicket)
    BY <1>10, ReturnMoves DEF InlineCount, Control, ClientPc
  <2>2. Counting' = Counting
    BY <1>10, <2>1, CountingKept DEF InlineCount
  <2> QED
    BY <1>10, <2>2
    DEF InlineCount, TakesCounted, TakenTickets, ticketVars, Control, TypeOK
<1>11. ASSUME NEW c \in Clients, WaitResume(c) PROVE TakesCounted'
  <2>1. \/ result[client[c].ticket] = {} /\ Moves(c, "wait_parked", client[c].ticket) /\ UNCHANGED taken
        \/ /\ result[client[c].ticket] # {} /\ client[c].ticket \in Tickets
           /\ TakeResult(c, client[c].ticket, FALSE) /\ Moves(c, "wait_count", client[c].ticket)
    <3>1. client[c].ticket \in Tickets
      BY <1>11 DEF WaitResume, Control, ClientInv, ThreadInv, Waiting, TypeOK
    <3> QED
      BY <1>11, <3>1, TakeMoves, GotoMoves DEF WaitResume, Control, ClientPc
  <2>2. UNCHANGED metrics /\ client[c].pc = "wait_woken"
    BY <1>11 DEF WaitResume
  <2>3. CASE result[client[c].ticket] = {}
    <3>1. Counting' = Counting
      BY <2>1, <2>2, <2>3, CountingKept
    <3>2. TakenTickets' = TakenTickets
      BY <2>1, <2>3 DEF TakenTickets
    <3> QED
      BY <2>2, <3>1, <3>2 DEF TakesCounted
  <2>4. CASE result[client[c].ticket] # {}
    <3>1. c \notin Counting /\ Counting' = Counting \cup {c}
      BY <2>1, <2>2, <2>4 DEF Moves, Counting
    <3>2. client[c].ticket \in Tickets /\ taken[client[c].ticket] = 0
      BY <2>1, <2>2, <2>4 DEF Control, ClientInv, ThreadInv, Waiting
    <3>3. client[c].ticket \notin TakenTickets /\ TakenTickets' = TakenTickets \cup {client[c].ticket}
      BY <2>1, <2>4, <3>2 DEF TakeResult, TakenTickets, Control, TypeOK
    <3>4. /\ Cardinality(Counting') = Cardinality(Counting) + 1
          /\ Cardinality(TakenTickets') = Cardinality(TakenTickets) + 1
      BY <3>1, <3>3, Counts, FS_AddElement DEF Control
    <3> QED
      BY <2>2, <3>4, Counts DEF TakesCounted, Control
  <2> QED
    BY <2>3, <2>4
<1>12. ASSUME NEW c \in Clients, WaitCount(c) PROVE TakesCounted'
  <2>1. Moves(c, "running", NoTicket)
    BY <1>12, ReturnMoves DEF WaitCount, Control, ClientPc
  <2>2. c \in Counting /\ Counting' = Counting \ {c} /\ TakenTickets' = TakenTickets
    BY <1>12, <2>1 DEF WaitCount, Moves, Counting, TakenTickets, ticketVars
  <2>3. Cardinality(Counting') = Cardinality(Counting) - 1
    BY <2>2, Counts, FS_RemoveElement DEF Control
  <2>4. metrics'.readyBeforeUse + metrics'.lateAtUse = metrics.readyBeforeUse + metrics.lateAtUse + 1
    BY <1>12 DEF WaitCount, Control, TypeOK
  <2> QED
    BY <2>2, <2>3, <2>4, Counts DEF TakesCounted, Control
<1>13. ASSUME NEW c \in Clients, WaitIdleResume(c) PROVE TakesCounted'
  <2>1. Moves(c, "running", NoTicket) \/ Moves(c, "idle_parked", client[c].ticket)
    BY <1>13, GotoMoves, ReturnMoves DEF WaitIdleResume, Control, ClientPc
  <2>2. Counting' = Counting
    BY <1>13, <2>1, CountingKept DEF WaitIdleResume
  <2> QED
    BY <1>13, <2>2 DEF WaitIdleResume, TakesCounted, TakenTickets, ticketVars
<1>14. ASSUME NEW c \in Clients, DestroyNotify(c) PROVE TakesCounted'
  <2>1. Moves(c, "join", client[c].ticket)
    BY <1>14, GotoMoves DEF DestroyNotify, Control, ClientPc
  <2>2. Counting' = Counting
    BY <1>14, <2>1, CountingKept DEF DestroyNotify
  <2> QED
    BY <1>14, <2>2 DEF DestroyNotify, TakesCounted, TakenTickets, ticketVars
<1>15. ASSUME NEW c \in Clients, DestroyJoin(c) PROVE TakesCounted'
  <2>1. Moves(c, "running", NoTicket)
    BY <1>15, ReturnMoves DEF DestroyJoin, Control, ClientPc
  <2>2. Counting' = Counting
    BY <1>15, <2>1, CountingKept DEF DestroyJoin
  <2> QED
    BY <1>15, <2>2 DEF DestroyJoin, TakesCounted, TakenTickets, ticketVars
<1>16. ASSUME NEW c \in Clients, SpuriousWakeup(c) PROVE TakesCounted'
  <2>1. Wakes
    BY <1>16, SpuriousWakes DEF SpuriousWakeup, Control
  <2>2. Counting' = Counting
    BY <1>16, <2>1, WakesKeep DEF SpuriousWakeup
  <2> QED
    BY <1>16, <2>2 DEF SpuriousWakeup, TakesCounted, TakenTickets, ticketVars
<1>17. ASSUME WorkerPark PROVE TakesCounted'
  BY <1>17 DEF WorkerPark, Counting, TakesCounted, TakenTickets, ticketVars
<1>18. ASSUME WorkerReturn PROVE TakesCounted'
  BY <1>18 DEF WorkerReturn, Counting, TakesCounted, TakenTickets, ticketVars
<1>19. ASSUME NEW t \in Tickets, WorkerPop(t) PROVE TakesCounted'
  BY <1>19 DEF WorkerPop, Counting, TakesCounted, TakenTickets, ticketVars
<1>20. ASSUME WorkerLoad PROVE TakesCounted'
  BY <1>20 DEF WorkerLoad, Counting, TakesCounted, TakenTickets, ticketVars
<1>21. ASSUME WorkerPublish PROVE TakesCounted'
  BY <1>21 DEF WorkerPublish, Counting, TakesCounted, TakenTickets, ticketVars
<1>22. ASSUME WorkerCount PROVE TakesCounted'
  BY <1>22 DEF WorkerCount, Counting, TakesCounted, TakenTickets, ticketVars
<1>23. ASSUME WorkerNotify PROVE TakesCounted'
  <2>1. Wakes
    BY <1>23, WakeTicketWakes DEF WorkerNotify, Control
  <2>2. Counting' = Counting
    BY <1>23, <2>1, WakesKeep DEF WorkerNotify
  <2> QED
    BY <1>23, <2>2 DEF WorkerNotify, TakesCounted, TakenTickets, ticketVars
<1>24. ASSUME WorkerClear PROVE TakesCounted'
  BY <1>24 DEF WorkerClear, Counting, TakesCounted, TakenTickets, ticketVars
<1>25. ASSUME WorkerIdleNotify PROVE TakesCounted'
  <2>1. Wakes
    BY <1>25, WakeIdleWakes DEF WorkerIdleNotify, Control
  <2>2. Counting' = Counting
    BY <1>25, <2>1, WakesKeep DEF WorkerIdleNotify
  <2> QED
    BY <1>25, <2>2 DEF WorkerIdleNotify, TakesCounted, TakenTickets, ticketVars
<1>26. ASSUME SpuriousWorkerWakeup PROVE TakesCounted'
  BY <1>26 DEF SpuriousWorkerWakeup, Counting, TakesCounted, TakenTickets, ticketVars
<1>27. UNCHANGED vars => TakesCounted'
  BY DEF vars, TakesCounted, Counting, TakenTickets, ticketVars
<1> QED
  BY <1>1, <1>2, <1>3, <1>4, <1>5, <1>6, <1>7, <1>8, <1>9, <1>10, <1>11, <1>12, <1>13,
     <1>14, <1>15, <1>16, <1>17, <1>18, <1>19, <1>20, <1>21, <1>22, <1>23, <1>24,
     <1>25, <1>26, <1>27
  DEF Next, Call, Submit, Continue, WorkerStep, SubmitRejected, WaitAgain, Ended

\* wait_idle and the destructor return only when every callable has run and
\* every submission is published and counted (Impl::run, submit).
THEOREM Quiescent ==
  ASSUME LoaderAssumption
  PROVE  Spec => []IdleMeansQuiescent
<1>1. Init => Control /\ Accounted
  <2>1. ASSUME Init PROVE Accounted
    <3>1. InlinePending = {} /\ queue = {} /\ Held = 0
          /\ metrics.completions = 0 /\ metrics.submissions = 0
      BY <2>1 DEF Init, InlinePending, Running, Held, Busy
    <3> QED
      BY <3>1, FS_EmptySet DEF Accounted
  <2> QED
    BY <2>1, ControlInitially
<1>2. Control /\ Accounted /\ [Next]_vars => (Control /\ Accounted)'
  <2>1. ASSUME Control, Accounted, UNCHANGED vars PROVE Accounted'
    BY <2>1 DEF vars, implVars, Accounted, Held, Busy, InlinePending
  <2> QED
    BY <2>1, ControlStep, AccountedStep
<1>3. Control /\ Accounted => IdleMeansQuiescent
  <2> SUFFICES ASSUME Control, Accounted, Idle
               PROVE  /\ worker.pc \in {"checking", "parked", "idle_notifying", "returned"}
                      /\ \A t \in Tickets : job[t] # {} => result[t] # {}
                      /\ metrics.completions + Cardinality(InlinePending) = metrics.submissions
    BY DEF IdleMeansQuiescent
  <2>1. queue = {} /\ worker.pc \in {"checking", "parked", "idle_notifying", "returned"}
    BY DEF Idle, Control, WorkerInv, TypeOK, WorkerPc
  <2>2. \A t \in Tickets : job[t] # {} => result[t] # {}
    BY <2>1 DEF Control, JobInv, Loading
  <2>3. Cardinality(queue) = 0 /\ Held = 0
    BY <2>1, FS_EmptySet DEF Held, Busy
  <2> QED
    BY <2>1, <2>2, <2>3, Counts DEF Accounted, Control
<1> QED
  BY <1>1, <1>2, <1>3, PTL DEF Spec

\* ExpertLoadTicket::wait moves a result out once, whichever threads wait on the
\* ticket, and counts each of them once, as ready before use or as late.
THEOREM ConsumedOnce ==
  ASSUME LoaderAssumption
  PROVE  Spec => []SingleConsumption
<1>1. Init => Control /\ TakesCounted
  <2>1. ASSUME Init PROVE TakesCounted
    <3>1. Counting = {} /\ TakenTickets = {}
          /\ metrics.readyBeforeUse = 0 /\ metrics.lateAtUse = 0
      BY <2>1 DEF Init, Counting, TakenTickets, Running
    <3> QED
      BY <3>1, FS_EmptySet DEF TakesCounted
  <2> QED
    BY <2>1, ControlInitially
<1>2. Control /\ TakesCounted /\ [Next]_vars => (Control /\ TakesCounted)'
  <2>1. ASSUME Control, TakesCounted, UNCHANGED vars PROVE TakesCounted'
    BY <2>1 DEF vars, ticketVars, TakesCounted, Counting, TakenTickets
  <2> QED
    BY <2>1, ControlStep, TakesCountedStep
<1>3. Control /\ TakesCounted => SingleConsumption
  BY DEF Control, TakenInv, TakesCounted, Counting, TakenTickets, SingleConsumption
<1> QED
  BY <1>1, <1>2, <1>3, PTL DEF Spec

\* The loader is safe: what wait_idle, the destructor and wait return on holds
\* whichever way callers, worker and wakeups interleave.
THEOREM Safe ==
  ASSUME LoaderAssumption
  PROVE  Spec => []LoaderIsSafe
  BY Typed, Quiescent, Drains, ConsumedOnce, PTL DEF LoaderIsSafe

-----------------------------------------------------------------------------
(* The refinement.                                                         *)

\* Arrivals are numbered in the order of acceptance, one number each.
Accepted == {t \in Tickets : job[t] # {}}
Sequenced ==
  /\ nextSequence = Cardinality(Accepted)
  /\ \A t \in Tickets : job[t] # {} =>
       \E m \in Metadata, n \in 0 .. nextSequence - 1 :
         job[t] = {[use |-> m.use, latency |-> m.latency, sequence |-> n]}

\* CHOOSE on a set with one member.
LEMMA OnlyMember == ASSUME NEW j PROVE (CHOOSE i \in {j} : TRUE) = j
  OBVIOUS

\* What the order of the queue reads of an accepted load.
LEMMA Numbered ==
  ASSUME LoaderAssumption, TypeOK, Sequenced, NEW t \in Tickets, job[t] # {}
  PROVE  Job(t).sequence \in 0 .. nextSequence - 1 /\ LatestStart(t) \in Int
<1>1. PICK m \in Metadata, n \in 0 .. nextSequence - 1 :
        job[t] = {[use |-> m.use, latency |-> m.latency, sequence |-> n]}
  BY DEF Sequenced
<1>2. Job(t) = [use |-> m.use, latency |-> m.latency, sequence |-> n]
  BY <1>1, OnlyMember DEF Job
<1> QED
  BY <1>2 DEF LatestStart, LoaderAssumption, TypeOK

\* Only an accepted submission takes a sequence number, the next one.
LEMMA SequencedStep ==
  ASSUME LoaderAssumption, Control, Sequenced, [Next]_vars
  PROVE  Sequenced'
<1>1. ASSUME NEW c \in Clients, NEW t \in Tickets, NEW m \in Metadata, SubmitQueued(c, t, m)
      PROVE  Sequenced'
  <2>1. nextSequence \in Nat /\ nextSequence' = nextSequence + 1
    BY <1>1 DEF SubmitQueued, Control, TypeOK
  <2>2. job[t] = {} /\ job' = [job EXCEPT ![t] = {[use |-> m.use, latency |-> m.latency,
                                                 sequence |-> nextSequence]}]
    BY <1>1 DEF SubmitQueued, Fresh
  <2>3. t \notin Accepted /\ Accepted' = Accepted \cup {t}
    BY <2>2, ZenonT(40) DEF Accepted, Control, TypeOK
  <2>4. IsFiniteSet(Accepted)
    BY FS_Subset DEF Accepted, LoaderAssumption
  <2>5. nextSequence' = Cardinality(Accepted')
    BY <2>1, <2>3, <2>4, FS_AddElement DEF Sequenced
  <2>6. ASSUME NEW s \in Tickets, job'[s] # {}
        PROVE  \E q \in Metadata, n \in 0 .. nextSequence' - 1 :
                 job'[s] = {[use |-> q.use, latency |-> q.latency, sequence |-> n]}
    <3>1. CASE s = t
      <4>1. job'[t] = {[use |-> m.use, latency |-> m.latency, sequence |-> nextSequence]}
        BY <2>2 DEF Control, TypeOK
      <4>2. nextSequence \in 0 .. nextSequence' - 1
        BY <2>1
      <4> QED
        BY <3>1, <4>1, <4>2
    <3>2. CASE s # t
      <4>1. job'[s] = job[s]
        BY <2>2, <3>2 DEF Control, TypeOK
      <4>2. PICK q \in Metadata, n \in 0 .. nextSequence - 1 :
              job[s] = {[use |-> q.use, latency |-> q.latency, sequence |-> n]}
        BY <2>6, <4>1 DEF Sequenced
      <4>3. n \in 0 .. nextSequence' - 1
        BY <2>1
      <4> QED
        BY <4>1, <4>2, <4>3
    <3> QED
      BY <3>1, <3>2
  <2> QED
    BY <2>5, <2>6 DEF Sequenced
<1>2. CASE UNCHANGED <<job, nextSequence>>
  BY <1>2 DEF Sequenced, Accepted
<1> QED
  BY <1>1, <1>2, ZenonT(40)
  DEF Next, Call, Submit, Continue, WorkerStep, Ended, vars, implVars, ticketVars,
      SubmitInline, SubmitRejected, WaitAgain, WaitReady, WaitPark, WaitIdle, DestroyStop,
      SubmitNotify, InlineLoad, InlinePublish, InlineCount, WaitResume, WaitCount,
      WaitIdleResume, DestroyNotify, DestroyJoin, SpuriousWakeup, SpuriousWorkerWakeup,
      WorkerPark, WorkerReturn, WorkerPop, WorkerLoad, WorkerPublish, WorkerCount,
      WorkerNotify, WorkerClear, WorkerIdleNotify

\* The state of the abstract service, as the INSTANCE names it.
RunningJob == IF worker.pc \in {"loading", "publishing"} THEN {worker.job} ELSE {}
Due == [t \in Tickets |-> IF job[t] = {} THEN <<>> ELSE <<LatestStart(t), Job(t).sequence>>]
Instants == {metadata.use - metadata.latency : metadata \in Metadata}

\* A step that leaves the queue, the jobs, the results and what was taken alone,
\* and neither starts nor ends a load, is a step of the threads only.
LEMMA Stutters ==
  ASSUME UNCHANGED <<queue, job, result, taken>>, RunningJob' = RunningJob
  PROVE  UNCHANGED Delivery!deliveryVars
  BY DEF RunningJob, Delivery!deliveryVars, LatestStart, Job

\* The abstract module counts as this one does.
LEMMA SameCardinality ==
  ASSUME NEW S
  PROVE  Delivery!Cardinality(S) = Cardinality(S)
  BY Zenon DEF Cardinality, Delivery!Cardinality

\* A queued submission is an abstract Accept: its number is above those that wait.
LEMMA AcceptMaps ==
  ASSUME LoaderAssumption, Control, Sequenced,
         NEW c \in Clients, NEW t \in Tickets, NEW m \in Metadata, SubmitQueued(c, t, m)
  PROVE  Delivery!Next
<1>1. t \notin queue \cup RunningJob /\ result[t] = {}
  BY DEF SubmitQueued, Fresh, RunningJob, Control, JobInv, WorkerInv, Loading
<1>2. Cardinality(queue) < MaximumPending /\ queue' = queue \cup {t}
      /\ UNCHANGED <<RunningJob, result, taken>>
  BY DEF SubmitQueued, HasRoom, RunningJob
<1>3. m.use - m.latency \in Instants
  BY DEF Instants
<1>4. nextSequence \in 0 .. Cardinality(Tickets)
  <2>1. Accepted \subseteq Tickets
    BY DEF Accepted
  <2> QED
    BY <2>1, FS_Subset, FS_CardinalityType
    DEF Sequenced, LoaderAssumption, Control, TypeOK
<1>5. ASSUME NEW other \in queue PROVE Due[other][2] < nextSequence
  <2>1. other \in Tickets /\ job[other] # {}
    BY DEF Control, TypeOK, JobInv
  <2>2. Due[other] = <<LatestStart(other), Job(other).sequence>>
    BY <2>1 DEF Due
  <2> QED
    BY <2>1, <2>2, Numbered DEF Control, TypeOK
<1>6. Due' = [Due EXCEPT ![t] = <<m.use - m.latency, nextSequence>>]
  <2> DEFINE j == [use |-> m.use, latency |-> m.latency, sequence |-> nextSequence]
  <2>1. job'[t] = {j} /\ \A s \in Tickets \ {t} : job'[s] = job[s]
    BY DEF SubmitQueued, Control, TypeOK
  <2>2. Job(t)' = j
    BY <2>1, OnlyMember DEF Job
  <2>3. LatestStart(t)' = m.use - m.latency /\ Job(t)'.sequence = nextSequence
    BY <2>2 DEF LatestStart
  <2>4. \A s \in Tickets \ {t} : LatestStart(s)' = LatestStart(s) /\ Job(s)' = Job(s)
    BY <2>1 DEF LatestStart, Job
  <2> HIDE DEF j
  <2> QED
    BY <2>1, <2>3, <2>4 DEF Due
<1>7. \E latest \in Instants, arrival \in 0 .. Cardinality(Tickets) :
        /\ \A other \in queue : Due[other][2] < arrival
        /\ Due' = [Due EXCEPT ![t] = <<latest, arrival>>]
  BY <1>3, <1>4, <1>5, <1>6
<1>8. Delivery!Accept(t)
  BY <1>1, <1>2, <1>7, SameCardinality, Zenon
  DEF Delivery!Accept, Delivery!Fresh, RunningJob, Due, Instants
<1> QED
  BY <1>8 DEF Delivery!Next

\* The top of the heap is the waiting request that is due first.
LEMMA StartMaps ==
  ASSUME LoaderAssumption, Control, Sequenced, NEW t \in Tickets, WorkerPop(t)
  PROVE  Delivery!Next
<1>1. RunningJob = {} /\ RunningJob' = {t} /\ t \in queue /\ queue' = queue \ {t}
      /\ UNCHANGED <<job, result, taken>>
  BY DEF WorkerPop, IsTop, RunningJob, ticketVars
<1>2. Due' = Due
  BY <1>1 DEF Due, LatestStart, Job
<1>3. ASSUME NEW other \in queue \ {t}
      PROVE  \/ Due[t][1] < Due[other][1]
             \/ Due[t][1] = Due[other][1] /\ Due[t][2] < Due[other][2]
  <2>1. Earlier(t, other)
    BY DEF WorkerPop, IsTop
  <2>2. other \in Tickets /\ job[other] # {} /\ job[t] # {}
    BY <1>1 DEF Control, TypeOK, JobInv
  <2>3. Due[t] = <<LatestStart(t), Job(t).sequence>>
        /\ Due[other] = <<LatestStart(other), Job(other).sequence>>
    BY <2>2 DEF Due
  <2> QED
    BY <2>1, <2>3 DEF Earlier
<1>4. Delivery!Start(t)
  BY <1>1, <1>2, <1>3 DEF Delivery!Start, Delivery!Sooner, RunningJob, Due
<1> QED
  BY <1>4 DEF Delivery!Next

\* Publishing the worker's result finishes the running request.
LEMMA FinishMaps ==
  ASSUME LoaderAssumption, Control, WorkerPublish
  PROVE  Delivery!Next
<1>1. worker.job \in Tickets /\ RunningJob = {worker.job} /\ RunningJob' = {}
      /\ UNCHANGED <<queue, job, taken>>
  BY DEF WorkerPublish, Control, TypeOK, WorkerInv, Loading, RunningJob, implVars
<1>2. Due' = Due
  BY <1>1 DEF Due, LatestStart, Job
<1>3. \E o \in Outcomes : result' = [result EXCEPT ![worker.job] = {o}]
  BY DEF WorkerPublish, Control, WorkerInv
<1>4. Delivery!Finish(worker.job)
  BY <1>1, <1>2, <1>3 DEF Delivery!Finish, RunningJob, Due
<1> QED
  BY <1>1, <1>4 DEF Delivery!Next

\* An inline load serves a request that never waited.
LEMMA ServeMaps ==
  ASSUME LoaderAssumption, Control, NEW c \in Clients, InlinePublish(c)
  PROVE  Delivery!Next
<1> DEFINE t == client[c].ticket
<1>1. t \in Tickets /\ job[t] = {} /\ result[t] = {}
  BY DEF InlinePublish, Control, ClientInv, ThreadInv, InlineLoading
<1>2. t \notin queue \cup RunningJob
  BY <1>1 DEF RunningJob, Control, JobInv, WorkerInv, Loading
<1>3. UNCHANGED <<queue, job, taken, RunningJob>>
  BY DEF InlinePublish, implVars, RunningJob
<1>4. Due' = Due
  BY <1>3 DEF Due, LatestStart, Job
<1>5. \E o \in Outcomes : result' = [result EXCEPT ![t] = {o}]
  BY DEF InlinePublish, Control, ClientInv, ThreadInv
<1> HIDE DEF t
<1>6. Delivery!ServeResident(t)
  BY <1>1, <1>2, <1>3, <1>4, <1>5
  DEF Delivery!ServeResident, Delivery!Fresh, RunningJob, Due
<1> QED
  BY <1>1, <1>6 DEF Delivery!Next

\* A wait that moves the result of t out delivers t.
LEMMA DeliverMaps ==
  ASSUME Control, NEW t \in Tickets, result[t] # {}, taken[t] = 0,
         taken' = [taken EXCEPT ![t] = @ + 1],
         UNCHANGED <<queue, job, result, worker>>
  PROVE  Delivery!Next
<1>1. t \notin TakenTickets /\ TakenTickets' = TakenTickets \cup {t}
  BY DEF TakenTickets, Control, TypeOK
<1>2. Due' = Due /\ RunningJob' = RunningJob
  BY DEF Due, LatestStart, Job, RunningJob
<1>3. Delivery!Deliver(t)
  BY <1>1, <1>2 DEF Delivery!Deliver, TakenTickets, Due, RunningJob
<1> QED
  BY <1>3 DEF Delivery!Next

Mapped == Delivery!Next \/ UNCHANGED Delivery!deliveryVars

\* Every step of the threads maps to a step of the service, or to none.
LEMMA StepMaps ==
  ASSUME LoaderAssumption, Control, Sequenced, [Next]_vars
  PROVE  Mapped
<1> USE DEF Mapped
<1>1. ASSUME NEW c \in Clients, NEW t \in Tickets, NEW m \in Metadata, SubmitQueued(c, t, m)
      PROVE  Mapped
  BY <1>1, AcceptMaps
<1>2. ASSUME NEW c \in Clients, NEW t \in Tickets, SubmitInline(c, t) PROVE Mapped
  BY <1>2, Stutters DEF SubmitInline, RunningJob, implVars, ticketVars
<1>3. ASSUME NEW c \in Clients, NEW t \in Tickets, WaitReady(c, t) PROVE Mapped
  <2>1. result[t] # {} /\ taken[t] = 0 /\ taken' = [taken EXCEPT ![t] = @ + 1]
    BY <1>3 DEF WaitReady, TakeResult, Control, TakenInv, TypeOK
  <2> QED
    BY <1>3, <2>1, DeliverMaps DEF WaitReady, implVars
<1>4. ASSUME NEW c \in Clients, NEW t \in Tickets, WaitPark(c, t) PROVE Mapped
  BY <1>4, Stutters DEF WaitPark, RunningJob, implVars, ticketVars
<1>5. ASSUME NEW c \in Clients, WaitIdle(c) PROVE Mapped
  BY <1>5, Stutters DEF WaitIdle, RunningJob, implVars, ticketVars
<1>6. ASSUME NEW c \in Clients, DestroyStop(c) PROVE Mapped
  BY <1>6, Stutters DEF DestroyStop, RunningJob, implVars, ticketVars
<1>7. ASSUME NEW c \in Clients, SubmitNotify(c) PROVE Mapped
  <2>1. RunningJob' = RunningJob
    BY <1>7, WakeWorkerMoves DEF SubmitNotify, Control, RunningJob
  <2> QED
    BY <1>7, <2>1, Stutters DEF SubmitNotify, implVars, ticketVars
<1>8. ASSUME NEW c \in Clients, InlineLoad(c) PROVE Mapped
  BY <1>8, Stutters DEF InlineLoad, RunningJob, implVars, ticketVars
<1>9. ASSUME NEW c \in Clients, InlinePublish(c) PROVE Mapped
  BY <1>9, ServeMaps
<1>10. ASSUME NEW c \in Clients, InlineCount(c) PROVE Mapped
  BY <1>10, Stutters DEF InlineCount, RunningJob, implVars, ticketVars
<1>11. ASSUME NEW c \in Clients, WaitResume(c) PROVE Mapped
  <2>1. client[c].ticket \in Tickets /\ taken[client[c].ticket] = 0
    BY <1>11 DEF WaitResume, Control, ClientInv, ThreadInv, Waiting, TypeOK
  <2>2. UNCHANGED <<queue, job, result, worker>>
    BY <1>11 DEF WaitResume, implVars
  <2>3. CASE result[client[c].ticket] = {}
    BY <1>11, <2>2, <2>3, Stutters DEF WaitResume, RunningJob
  <2>4. CASE result[client[c].ticket] # {}
    <3>1. taken' = [taken EXCEPT ![client[c].ticket] = @ + 1]
      BY <1>11, <2>4 DEF WaitResume, TakeResult
    <3> QED
      BY <2>1, <2>2, <2>4, <3>1, DeliverMaps
  <2> QED
    BY <2>3, <2>4
<1>12. ASSUME NEW c \in Clients, WaitCount(c) PROVE Mapped
  BY <1>12, Stutters DEF WaitCount, RunningJob, implVars, ticketVars
<1>13. ASSUME NEW c \in Clients, WaitIdleResume(c) PROVE Mapped
  BY <1>13, Stutters DEF WaitIdleResume, RunningJob, implVars, ticketVars
<1>14. ASSUME NEW c \in Clients, DestroyNotify(c) PROVE Mapped
  <2>1. RunningJob' = RunningJob
    BY <1>14, WakeWorkerMoves DEF DestroyNotify, Control, RunningJob
  <2> QED
    BY <1>14, <2>1, Stutters DEF DestroyNotify, implVars, ticketVars
<1>15. ASSUME NEW c \in Clients, DestroyJoin(c) PROVE Mapped
  BY <1>15, Stutters DEF DestroyJoin, RunningJob, implVars, ticketVars
<1>16. ASSUME NEW c \in Clients, SpuriousWakeup(c) PROVE Mapped
  BY <1>16, Stutters DEF SpuriousWakeup, RunningJob, implVars, ticketVars
<1>17. ASSUME WorkerPark PROVE Mapped
  <2>1. RunningJob' = RunningJob
    BY <1>17 DEF WorkerPark, Control, TypeOK, RunningJob
  <2> QED
    BY <1>17, <2>1, Stutters DEF WorkerPark, implVars, ticketVars
<1>18. ASSUME WorkerReturn PROVE Mapped
  <2>1. RunningJob' = RunningJob
    BY <1>18 DEF WorkerReturn, Control, TypeOK, RunningJob
  <2> QED
    BY <1>18, <2>1, Stutters DEF WorkerReturn, implVars, ticketVars
<1>19. ASSUME NEW t \in Tickets, WorkerPop(t) PROVE Mapped
  BY <1>19, StartMaps
<1>20. ASSUME WorkerLoad PROVE Mapped
  <2>1. RunningJob' = RunningJob
    BY <1>20 DEF WorkerLoad, Control, TypeOK, RunningJob
  <2> QED
    BY <1>20, <2>1, Stutters DEF WorkerLoad, implVars, ticketVars
<1>21. ASSUME WorkerPublish PROVE Mapped
  BY <1>21, FinishMaps
<1>22. ASSUME WorkerCount PROVE Mapped
  <2>1. RunningJob' = RunningJob
    BY <1>22 DEF WorkerCount, Control, TypeOK, RunningJob
  <2> QED
    BY <1>22, <2>1, Stutters DEF WorkerCount, implVars, ticketVars
<1>23. ASSUME WorkerNotify PROVE Mapped
  <2>1. RunningJob' = RunningJob
    BY <1>23 DEF WorkerNotify, Control, TypeOK, RunningJob
  <2> QED
    BY <1>23, <2>1, Stutters DEF WorkerNotify, implVars, ticketVars
<1>24. ASSUME WorkerClear PROVE Mapped
  <2>1. RunningJob' = RunningJob
    BY <1>24 DEF WorkerClear, Control, TypeOK, RunningJob
  <2> QED
    BY <1>24, <2>1, Stutters DEF WorkerClear, implVars, ticketVars
<1>25. ASSUME WorkerIdleNotify PROVE Mapped
  <2>1. RunningJob' = RunningJob
    BY <1>25 DEF WorkerIdleNotify, Control, TypeOK, RunningJob
  <2> QED
    BY <1>25, <2>1, Stutters DEF WorkerIdleNotify, implVars, ticketVars
<1>26. ASSUME SpuriousWorkerWakeup PROVE Mapped
  <2>1. RunningJob' = RunningJob
    BY <1>26, WakeWorkerMoves DEF SpuriousWorkerWakeup, Control, RunningJob
  <2> QED
    BY <1>26, <2>1, Stutters DEF SpuriousWorkerWakeup, implVars, ticketVars
<1>27. UNCHANGED vars => Mapped
  BY Stutters DEF vars, implVars, ticketVars, RunningJob
<1> QED
  BY <1>1, <1>2, <1>3, <1>4, <1>5, <1>6, <1>7, <1>8, <1>9, <1>10, <1>11, <1>12, <1>13,
     <1>14, <1>15, <1>16, <1>17, <1>18, <1>19, <1>20, <1>21, <1>22, <1>23, <1>24,
     <1>25, <1>26, <1>27
  DEF Next, Call, Submit, Continue, WorkerStep, SubmitRejected, WaitAgain, Ended

\* Impl::run, submit and wait, with their threads and condition variables,
\* implement the abstract service: loads run one at a time in the order of their
\* latest start, each accepted load runs once and is delivered once.
THEOREM Implements ==
  ASSUME LoaderAssumption
  PROVE  Spec => ImplementsDelivery
<1>1. Init => Control /\ Sequenced
  <2>1. ASSUME Init PROVE Sequenced
    <3>1. Accepted = {} /\ nextSequence = 0
      BY <2>1 DEF Init, Accepted
    <3> QED
      BY <2>1, <3>1, FS_EmptySet DEF Init, Sequenced
  <2> QED
    BY <2>1, ControlInitially
<1>2. Control /\ Sequenced /\ [Next]_vars => (Control /\ Sequenced)'
  BY ControlStep, SequencedStep
<1>3. Init => Delivery!Init
  BY DEF Init, Delivery!Init
<1>4. Control /\ Sequenced /\ [Next]_vars => [Delivery!Next]_(Delivery!deliveryVars)
  BY StepMaps DEF Mapped
<1> QED
  BY <1>1, <1>2, <1>3, <1>4, PTL DEF Spec, ImplementsDelivery, Delivery!SafeSpec

-----------------------------------------------------------------------------
(* The device: an execution is a path of steps.                             *)

TwoLayers == bench.tool = "closure"
OnDevice == TwoLayers /\ bench.case = "device-closure"
\* Whether inputs are routed on the device, and so prepared there.
Prepares == TwoLayers \/ (bench.tool = "layer" /\ bench.route = "device")

Ops == {"kda", "prepare", "route", "ffn", "return", "front", "tail", "group"}
Steps == [op : Ops, layer : {1, 2}, mode : {"roundtrip", "seed", "publish"},
          inputs : {<< 1 >>, << 2 >>, <<1, 2>>}, prepared : BOOLEAN, retain : BOOLEAN]

\* The steps of each driver.
LayerOps == {"kda", "prepare", "route", "ffn", "return"}
StepOk(s) ==
  /\ s \in Steps
  /\ bench.tool = "layer" => s.layer = 1 /\ s.op \in LayerOps
  /\ bench.tool = "moe" => s.op = "ffn" /\ s.layer = 1 /\ s.mode = "roundtrip"
  /\ bench.tool = "expert" => s.op = "group" /\ s.layer = 1 /\ s.mode = "roundtrip"
  /\ TwoLayers => /\ s.mode # "roundtrip"
                  /\ s.op \in (IF OnDevice THEN {"front", "route", "tail"} ELSE LayerOps)
  /\ s.op = "prepare" => Prepares
  /\ s.op = "ffn" => s.prepared = Prepares
  /\ s.op = "tail" => s.prepared /\ s.retain = (s.layer = 1)

\* A step may be the first or the last of a call of a layer.
SingleSteps == bench.tool \in {"moe", "expert"}
Opens(s) == s.op \in {"kda", "front"} \/ SingleSteps
Closes(s) == s.op \in {"return", "tail"} \/ SingleSteps

\* The steps that follow one another, in a call and from call to call.
InCall(s, t) ==
  /\ s.layer = t.layer /\ s.mode = t.mode
  /\ \/ s.op = "kda" /\ t.op = (IF Prepares THEN "prepare" ELSE "route")
     \/ s.op = "prepare" /\ t.op = "route"
     \/ s.op = "route" /\ t.op = (IF OnDevice THEN "tail" ELSE "ffn")
     \/ s.op = "ffn" /\ t.op \in {"return", IF Prepares THEN "prepare" ELSE "route"}
     \/ s.op = "front" /\ t.op = "route"
BetweenCalls(s, t) ==
  /\ Closes(s) /\ Opens(t)
  /\ \/ s.mode = "roundtrip" /\ t.mode = "roundtrip"
     \/ s.mode = t.mode /\ TwoLayers /\ s.layer = 1 /\ t.layer = 2
     \/ /\ s.mode = "seed" /\ t.mode = "publish" /\ t.layer = 1
        /\ s.layer = IF TwoLayers THEN 2 ELSE 1
Follows(s, t) == InCall(s, t) \/ BetweenCalls(s, t)
IsFirst(s) == Opens(s) /\ s.mode # "publish" /\ s.layer = 1
IsLast(s) == Closes(s) /\ s.mode # "seed" /\ s.layer = IF TwoLayers THEN 2 ELSE 1

\* A path of steps from a to z.
Path(p, a, z) ==
  /\ p \in Seq(Steps) /\ p # <<>> /\ p[1] = a /\ p[Len(p)] = z
  /\ \A i \in 1..Len(p) : StepOk(p[i])
  /\ \A i \in 1..(Len(p) - 1) : Follows(p[i], p[i + 1])

LEMMA PathOfOne ==
  ASSUME NEW a, StepOk(a)
  PROVE  Path(<<a>>, a, a)
<1>1. a \in Steps
  BY DEF StepOk
<1>2. <<a>> \in Seq(Steps) /\ <<a>> # <<>> /\ Len(<<a>>) = 1 /\ <<a>>[1] = a
  BY <1>1
<1> QED
  BY <1>2 DEF Path

LEMMA PathsJoin ==
  ASSUME NEW p, NEW q, NEW a, NEW b, NEW c, NEW d,
         Path(p, a, b), Path(q, c, d), Follows(b, c)
  PROVE  Path(p \o q, a, d)
<1> DEFINE r == p \o q
           m == Len(p)
           n == Len(q)
<1>1. /\ p \in Seq(Steps) /\ q \in Seq(Steps) /\ m \in Nat \ {0} /\ n \in Nat \ {0}
      /\ p[1] = a /\ p[m] = b /\ q[1] = c /\ q[n] = d
      /\ \A i \in 1..m : StepOk(p[i])
      /\ \A i \in 1..n : StepOk(q[i])
      /\ \A i \in 1..(m - 1) : Follows(p[i], p[i + 1])
      /\ \A i \in 1..(n - 1) : Follows(q[i], q[i + 1])
  BY DEF Path
<1>2. /\ r \in Seq(Steps) /\ Len(r) = m + n
      /\ \A i \in 1..m : r[i] = p[i]
      /\ \A i \in (m + 1)..(m + n) : r[i] = q[i - m]
  BY <1>1
<1> HIDE DEF r, m, n
<1>3. r # <<>> /\ r[1] = a /\ r[Len(r)] = d
  <2>1. r[m + n] = q[n] /\ 1 \in 1..m
    BY <1>1, <1>2
  <2>2. Len(r) # 0
    BY <1>1, <1>2
  <2> QED
    BY <1>1, <1>2, <2>1, <2>2
<1>4. \A i \in 1..(m + n) : StepOk(r[i])
  <2> TAKE i \in 1..(m + n)
  <2>1. i \in 1..m \/ (i \in (m + 1)..(m + n) /\ i - m \in 1..n)
    BY <1>1
  <2> QED
    BY <1>1, <1>2, <2>1
<1>5. \A i \in 1..(m + n - 1) : Follows(r[i], r[i + 1])
  <2> TAKE i \in 1..(m + n - 1)
  <2>1. CASE i < m
    <3>1. i \in 1..(m - 1) /\ i \in 1..m /\ i + 1 \in 1..m
      BY <1>1, <2>1
    <3> QED
      BY <1>1, <1>2, <3>1
  <2>2. CASE i = m
    <3>1. m \in 1..m /\ m + 1 \in (m + 1)..(m + n) /\ (m + 1) - m = 1
      BY <1>1
    <3>2. r[m] = b /\ r[m + 1] = c
      BY <1>1, <1>2, <3>1
    <3> QED
      BY <2>2, <3>2
  <2>3. CASE i > m
    <3> DEFINE j == i - m
    <3>1. /\ j \in 1..(n - 1) /\ i \in (m + 1)..(m + n) /\ i + 1 \in (m + 1)..(m + n)
          /\ (i + 1) - m = j + 1
      BY <1>1, <2>3
    <3>2. r[i] = q[j] /\ r[i + 1] = q[j + 1]
      BY <1>2, <3>1
    <3> HIDE DEF j
    <3> QED
      BY <1>1, <3>1, <3>2
  <2> QED
    BY <1>1, <2>1, <2>2, <2>3
<1> QED
  BY <1>2, <1>3, <1>4, <1>5 DEF Path, r, m, n

\* The steps after the first.
LEMMA PathRest ==
  ASSUME NEW p, NEW a, NEW z, Path(p, a, z), Tail(p) # <<>>
  PROVE  Path(Tail(p), Tail(p)[1], z) /\ Follows(a, Tail(p)[1]) /\ StepOk(Tail(p)[1])
<1> DEFINE r == Tail(p)
           m == Len(p)
<1>1. p \in Seq(Steps) /\ m \in Nat \ {0} /\ p[1] = a /\ p[m] = z
  BY DEF Path
<1>2. /\ r \in Seq(Steps) /\ Len(r) = m - 1 /\ r # <<>>
      /\ \A i \in 1..(m - 1) : r[i] = p[i + 1]
  BY <1>1
<1>3. m - 1 \in Nat \ {0}
  BY <1>1, <1>2
<1>4. r[m - 1] = p[m] /\ r[1] = p[2] /\ 1 \in 1..(m - 1)
  BY <1>1, <1>2, <1>3
<1>5. /\ \A i \in 1..m : StepOk(p[i])
      /\ \A i \in 1..(m - 1) : Follows(p[i], p[i + 1])
  BY DEF Path
<1> HIDE DEF r, m
<1>6. \A i \in 1..(m - 1) : StepOk(r[i])
  <2> TAKE i \in 1..(m - 1)
  <2>1. i + 1 \in 1..m
    BY <1>1
  <2> QED
    BY <1>2, <1>5, <2>1
<1>7. \A i \in 1..(m - 1 - 1) : Follows(r[i], r[i + 1])
  <2> TAKE i \in 1..(m - 1 - 1)
  <2>1. i + 1 \in 1..(m - 1) /\ i \in 1..(m - 1) /\ (i + 1) + 1 = i + 2
    BY <1>1
  <2>2. Follows(p[i + 1], p[(i + 1) + 1])
    BY <1>5, <2>1
  <2> QED
    BY <1>2, <2>1, <2>2
<1>8. Follows(a, r[1])
  <2>1. Follows(p[1], p[1 + 1]) /\ 1 + 1 = 2
    BY <1>4, <1>5
  <2> QED
    BY <1>1, <1>4, <2>1
<1>9. Path(r, r[1], z)
  BY <1>1, <1>2, <1>4, <1>6, <1>7 DEF Path
<1>10. StepOk(r[1])
  BY <1>4, <1>6
<1> QED
  BY <1>8, <1>9, <1>10 DEF r

-----------------------------------------------------------------------------
(* The executions of the drivers are paths.                                 *)

BenchOk ==
  /\ <<bench.tool, bench.case>> \in
       ({"layer"} \X {"a", "ab-full", "ab-incremental"}) \cup ({"moe"} \X {"a", "alternating"})
         \cup {<<"expert", "a">>} \cup ({"closure"} \X {"host-round-trip", "device-closure"})
  /\ bench.warmups \in Nat /\ bench.iterations \in Nat \ {0}

LEMMA BenchCases ==
  ASSUME bench \in Benches
  PROVE  /\ bench.tool \in {"layer", "moe", "expert", "closure"}
         /\ bench.tool = "layer" => bench.case \in {"a", "ab-full", "ab-incremental"}
         /\ bench.tool = "moe" => bench.case \in {"a", "alternating"}
         /\ bench.tool = "closure" => bench.case \in {"host-round-trip", "device-closure"}
         /\ Executions \in Nat \ {0}
<1>1. BenchOk
  BY DeviceAssumption DEF BenchOk
<1>2. /\ bench.tool \in {"layer", "moe", "expert", "closure"}
      /\ bench.tool = "layer" => bench.case \in {"a", "ab-full", "ab-incremental"}
      /\ bench.tool = "moe" => bench.case \in {"a", "alternating"}
      /\ bench.tool = "closure" => bench.case \in {"host-round-trip", "device-closure"}
  BY <1>1 DEF BenchOk
<1>3. Executions \in Nat \ {0}
  BY <1>1 DEF BenchOk, Executions
<1> QED
  BY <1>2, <1>3

\* The driver of a layer runs: one layer at a time, from the host.
OnHost == bench.tool = "layer" \/ (TwoLayers /\ ~OnDevice)
Modes == {"roundtrip", "seed", "publish"}
CallOk(layer, mode, route) ==
  /\ OnHost /\ layer \in {1, 2} /\ mode \in Modes /\ (route = "device" <=> Prepares)
  /\ bench.tool = "layer" => layer = 1
  /\ TwoLayers => mode # "roundtrip"

LEMMA StepIsOk ==
  ASSUME NEW layer, NEW mode, NEW route, CallOk(layer, mode, route),
         NEW op \in LayerOps, op = "prepare" => Prepares,
         NEW inputs \in {<< 1 >>, << 2 >>, <<1, 2>>}
  PROVE  StepOk(Step(op, layer, mode, inputs, op = "ffn" /\ route = "device", FALSE))
<1> DEFINE s == Step(op, layer, mode, inputs, op = "ffn" /\ route = "device", FALSE)
<1>1. /\ s.op = op /\ s.layer = layer /\ s.mode = mode
      /\ s.prepared = (op = "ffn" /\ route = "device")
      /\ s \in Steps
  <2>1. (op = "ffn" /\ route = "device") \in BOOLEAN
    OBVIOUS
  <2>2. op \in Ops
    BY DEF LayerOps, Ops
  <2> DEFINE flag == (op = "ffn" /\ route = "device")
  <2> HIDE DEF flag
  <2>3. flag \in BOOLEAN
    BY <2>1 DEF flag
  <2>4. Step(op, layer, mode, inputs, flag, FALSE) \in Steps
    BY <2>2, <2>3 DEF Steps, Step, CallOk, Modes
  <2>5. LET r == Step(op, layer, mode, inputs, flag, FALSE)
        IN  r.op = op /\ r.layer = layer /\ r.mode = mode /\ r.prepared = flag
    BY DEF Step
  <2> QED
    BY <2>4, <2>5 DEF flag
<1> HIDE DEF s
<1>2. s.op # "tail" /\ (op = "ffn" => s.prepared = Prepares)
  <2>1. s.op # "tail"
    BY <1>1 DEF LayerOps
  <2>2. op = "ffn" => s.prepared = (route = "device")
    BY <1>1
  <2>3. (route = "device") = Prepares
    BY DEF CallOk, Prepares
  <2> QED
    BY <2>1, <2>2, <2>3
<1> QED
  BY <1>1, <1>2 DEF StepOk, CallOk, OnHost, OnDevice, TwoLayers, s

LEMMA PairJoins ==
  ASSUME NEW a, NEW b
  PROVE  <<a>> \o <<b>> = <<a, b>>
<1> DEFINE S == {a, b}
           p == <<a>>
           q == <<b>>
           r == <<a, b>>
<1>1. p \in Seq(S) /\ Len(p) = 1 /\ p[1] = a
  OBVIOUS
<1>2. q \in Seq(S) /\ Len(q) = 1 /\ q[1] = b
  OBVIOUS
<1>3. r \in Seq(S) /\ Len(r) = 2 /\ r[1] = a /\ r[2] = b
  OBVIOUS
<1> HIDE DEF p, q, r, S
<1>4. p \o q \in Seq(S) /\ Len(p \o q) = 2 /\ (p \o q)[1] = a /\ (p \o q)[2] = b
  BY <1>1, <1>2, ConcatProperties
<1>5. p \o q = r
  BY <1>3, <1>4, SeqEqual
<1> QED
  BY <1>5 DEF p, q, r

LEMMA TripleJoins ==
  ASSUME NEW a, NEW b, NEW c
  PROVE  <<a>> \o <<b>> \o <<c>> = <<a, b, c>>
<1> DEFINE S == {a, b, c}
           p == <<a, b>>
           q == <<c>>
           r == <<a, b, c>>
<1>1. p \in Seq(S) /\ Len(p) = 2 /\ p[1] = a /\ p[2] = b
  OBVIOUS
<1>2. q \in Seq(S) /\ Len(q) = 1 /\ q[1] = c
  OBVIOUS
<1>3. r \in Seq(S) /\ Len(r) = 3 /\ r[1] = a /\ r[2] = b /\ r[3] = c
  OBVIOUS
<1> HIDE DEF p, q, r, S
<1>4. p \o q \in Seq(S) /\ Len(p \o q) = Len(p) + Len(q)
  BY <1>1, <1>2, ConcatProperties
<1>5. Len(p \o q) = 3
  BY <1>1, <1>2, <1>4
<1>6. (p \o q)[1] = a /\ (p \o q)[2] = b /\ (p \o q)[3] = c
  <2> DEFINE w == p \o q
  <2>1. \A i \in 1..3 : w[i] = IF i <= 2 THEN p[i] ELSE q[i - 2]
    BY <1>1, <1>2, <1>5, ConcatProperties
  <2> HIDE DEF w
  <2>2. w[1] = p[1]
    BY <2>1
  <2>3. w[2] = p[2]
    BY <2>1
  <2>4. w[3] = q[1]
    BY <2>1
  <2> QED
    BY <1>1, <1>2, <2>2, <2>3, <2>4 DEF w
<1>7. \A i \in 1..Len(p \o q) : (p \o q)[i] = r[i]
  <2> TAKE i \in 1..Len(p \o q)
  <2>1. i \in {1, 2, 3}
    BY <1>5
  <2> QED
    BY <1>3, <1>6, <2>1
<1>8. p \o q = r
  BY <1>3, <1>4, <1>5, <1>7, SeqEqual
<1> QED
  BY <1>8, PairJoins DEF p, q, r
\* A path through a call of a layer, by the operations of its ends.
Run(p, layer, mode, first, last) ==
  \E a, z \in Steps :
    /\ Path(p, a, z)
    /\ a.layer = layer /\ a.mode = mode /\ a.op = first
    /\ z.layer = layer /\ z.mode = mode /\ z.op = last

\* The operations that follow one another in a call.
OpFollows(first, then) ==
  \/ first = "kda" /\ then = (IF Prepares THEN "prepare" ELSE "route")
  \/ first = "prepare" /\ then = "route"
  \/ first = "route" /\ then = (IF OnDevice THEN "tail" ELSE "ffn")
  \/ first = "ffn" /\ then \in {"return", IF Prepares THEN "prepare" ELSE "route"}
  \/ first = "front" /\ then = "route"

LEMMA RunOfOne ==
  ASSUME NEW s, StepOk(s)
  PROVE  Run(<<s>>, s.layer, s.mode, s.op, s.op)
<1>1. s \in Steps /\ Path(<<s>>, s, s)
  BY PathOfOne DEF StepOk
<1> QED
  BY <1>1 DEF Run

LEMMA RunsJoin ==
  ASSUME NEW p, NEW q, NEW layer, NEW mode, NEW first, NEW last, NEW then, NEW final,
         Run(p, layer, mode, first, last), Run(q, layer, mode, then, final),
         OpFollows(last, then)
  PROVE  Run(p \o q, layer, mode, first, final)
<1>1. PICK a, b \in Steps :
        /\ Path(p, a, b)
        /\ a.layer = layer /\ a.mode = mode /\ a.op = first
        /\ b.layer = layer /\ b.mode = mode /\ b.op = last
  BY DEF Run
<1>2. PICK c, d \in Steps :
        /\ Path(q, c, d)
        /\ c.layer = layer /\ c.mode = mode /\ c.op = then
        /\ d.layer = layer /\ d.mode = mode /\ d.op = final
  BY DEF Run
<1>3. Follows(b, c)
  BY <1>1, <1>2 DEF Follows, InCall, OpFollows
<1>4. Path(p \o q, a, d)
  BY <1>1, <1>2, <1>3, PathsJoin
<1> QED
  BY <1>1, <1>2, <1>4 DEF Run

\* One step of the driver of a layer.
LEMMA StepRuns ==
  ASSUME NEW layer, NEW mode, NEW route, CallOk(layer, mode, route),
         NEW op \in LayerOps, op = "prepare" => Prepares,
         NEW inputs \in {<< 1 >>, << 2 >>, <<1, 2>>}
  PROVE  Run(<<Step(op, layer, mode, inputs, op = "ffn" /\ route = "device", FALSE)>>,
             layer, mode, op, op)
<1> DEFINE s == Step(op, layer, mode, inputs, op = "ffn" /\ route = "device", FALSE)
<1>1. s.op = op /\ s.layer = layer /\ s.mode = mode
  BY DEF Step
<1>2. StepOk(s)
  BY StepIsOk
<1> HIDE DEF s
<1>3. Run(<<s>>, s.layer, s.mode, s.op, s.op)
  BY <1>2, RunOfOne
<1> QED
  BY <1>1, <1>3 DEF s

\* The steps an input begins with and ends with.
Begins == IF Prepares THEN "prepare" ELSE "route"

LEMMA InputRuns ==
  ASSUME NEW layer, NEW mode, NEW route, CallOk(layer, mode, route), NEW input \in {1, 2}
  PROVE  Run(InputSteps(layer, mode, route, input), layer, mode, Begins, "ffn")
<1> DEFINE one == <<Step("prepare", layer, mode, <<input>>, FALSE, FALSE)>>
           two == <<Step("route", layer, mode, <<input>>, FALSE, FALSE)>>
           three == <<Step("ffn", layer, mode, <<input>>, route = "device", FALSE)>>
<1>1. <<input>> \in {<< 1 >>, << 2 >>, <<1, 2>>}
  OBVIOUS
<1>2. Prepares => Run(one, layer, mode, "prepare", "prepare")
  <2> HAVE Prepares
  <2>1. Run(<<Step("prepare", layer, mode, <<input>>, "prepare" = "ffn" /\ route = "device", FALSE)>>,
            layer, mode, "prepare", "prepare")
    BY <1>1, StepRuns DEF LayerOps
  <2>2. ("prepare" = "ffn" /\ route = "device") = FALSE
    OBVIOUS
  <2> QED
    BY <2>1, <2>2
<1>3. Run(two, layer, mode, "route", "route")
  <2>1. Run(<<Step("route", layer, mode, <<input>>, "route" = "ffn" /\ route = "device", FALSE)>>,
            layer, mode, "route", "route")
    BY <1>1, StepRuns DEF LayerOps
  <2>2. ("route" = "ffn" /\ route = "device") = FALSE
    OBVIOUS
  <2> QED
    BY <2>1, <2>2
<1>4. Run(three, layer, mode, "ffn", "ffn")
  <2>1. Run(<<Step("ffn", layer, mode, <<input>>, "ffn" = "ffn" /\ route = "device", FALSE)>>,
            layer, mode, "ffn", "ffn")
    BY <1>1, StepRuns DEF LayerOps
  <2>2. ("ffn" = "ffn" /\ route = "device") = (route = "device")
    OBVIOUS
  <2> QED
    BY <2>1, <2>2
<1>5. ~OnDevice
  BY DEF CallOk, OnHost, OnDevice, TwoLayers
<1>6. two \o three = <<Step("route", layer, mode, <<input>>, FALSE, FALSE),
                       Step("ffn", layer, mode, <<input>>, route = "device", FALSE)>>
  BY PairJoins
<1> HIDE DEF one, two, three
<1>7. Run(two \o three, layer, mode, "route", "ffn")
  BY <1>3, <1>4, <1>5, RunsJoin DEF OpFollows
<1>8. CASE Prepares
  <2>1. Run(one \o (two \o three), layer, mode, "prepare", "ffn")
    BY <1>2, <1>7, <1>8, RunsJoin DEF OpFollows
  <2>2. route = "device"
    BY <1>8 DEF CallOk
  <2>3. InputSteps(layer, mode, route, input) = one \o (two \o three)
    BY <1>6, <2>2 DEF InputSteps, one
  <2> QED
    BY <1>8, <2>1, <2>3 DEF Begins
<1>9. CASE ~Prepares
  <2>1. route # "device"
    BY <1>9 DEF CallOk
  <2>2. two \o three \in Seq(Steps)
    BY <1>7 DEF Run, Path
  <2>3. InputSteps(layer, mode, route, input) = <<>> \o (two \o three)
    BY <1>6, <2>1 DEF InputSteps
  <2>4. <<>> \o (two \o three) = two \o three
    BY <2>2
  <2> QED
    BY <1>7, <1>9, <2>3, <2>4 DEF Begins
<1> QED
  BY <1>8, <1>9

LEMMA CallRuns ==
  ASSUME NEW layer, NEW mode, NEW route, CallOk(layer, mode, route),
         NEW inputs \in {<< 1 >>, << 2 >>, <<1, 2>>}
  PROVE  Run(LayerCall(layer, inputs, mode, route), layer, mode, "kda", "return")
<1> DEFINE one == <<Step("kda", layer, mode, inputs, FALSE, FALSE)>>
           two == InputSteps(layer, mode, route, inputs[1])
           three == InputSteps(layer, mode, route, inputs[2])
           four == <<Step("return", layer, mode, inputs, FALSE, FALSE)>>
<1>1. Run(one, layer, mode, "kda", "kda")
  <2>1. Run(<<Step("kda", layer, mode, inputs, "kda" = "ffn" /\ route = "device", FALSE)>>,
            layer, mode, "kda", "kda")
    BY StepRuns DEF LayerOps
  <2>2. ("kda" = "ffn" /\ route = "device") = FALSE
    OBVIOUS
  <2> QED
    BY <2>1, <2>2
<1>2. Run(four, layer, mode, "return", "return")
  <2>1. Run(<<Step("return", layer, mode, inputs, "return" = "ffn" /\ route = "device", FALSE)>>,
            layer, mode, "return", "return")
    BY StepRuns DEF LayerOps
  <2>2. ("return" = "ffn" /\ route = "device") = FALSE
    OBVIOUS
  <2> QED
    BY <2>1, <2>2
<1>3. Run(two, layer, mode, Begins, "ffn")
  <2>1. inputs[1] \in {1, 2}
    OBVIOUS
  <2> QED
    BY <2>1, InputRuns
<1>4. Len(inputs) > 1 => Run(three, layer, mode, Begins, "ffn")
  <2>1. Len(inputs) > 1 => inputs[2] \in {1, 2}
    OBVIOUS
  <2> QED
    BY <2>1, InputRuns
<1>5. LayerCall(layer, inputs, mode, route) =
        one \o two \o (IF Len(inputs) > 1 THEN three ELSE <<>>) \o four
  BY DEF LayerCall
<1> HIDE DEF one, two, three, four
<1>6. OpFollows("kda", Begins) /\ OpFollows("ffn", Begins) /\ OpFollows("ffn", "return")
  BY DEF OpFollows, Begins
<1>7. Run(one \o two, layer, mode, "kda", "ffn")
  BY <1>1, <1>3, <1>6, RunsJoin
<1>8. Run(one \o two \o (IF Len(inputs) > 1 THEN three ELSE <<>>), layer, mode, "kda", "ffn")
  <2>1. CASE Len(inputs) > 1
    <3>1. Run(one \o two \o three, layer, mode, "kda", "ffn")
      BY <1>4, <1>6, <1>7, <2>1, RunsJoin
    <3> QED
      BY <2>1, <3>1
  <2>2. CASE ~(Len(inputs) > 1)
    <3>1. one \o two \in Seq(Steps)
      BY <1>7 DEF Run, Path
    <3>2. one \o two \o <<>> = one \o two
      BY <3>1
    <3> QED
      BY <1>7, <2>2, <3>2
  <2> QED
    BY <2>1, <2>2
<1> QED
  BY <1>2, <1>5, <1>6, <1>8, RunsJoin

\* A position through a layer, in the two-layer driver.
LEMMA LayerRuns ==
  ASSUME TwoLayers, NEW p \in {1, 2}, NEW layer \in {1, 2}
  PROVE  Run(LayerAt(OnDevice, p, layer), layer, IF p = 1 THEN "seed" ELSE "publish",
             IF OnDevice THEN "front" ELSE "kda", IF OnDevice THEN "tail" ELSE "return")
<1> DEFINE mode == IF p = 1 THEN "seed" ELSE "publish"
<1>1. mode \in {"seed", "publish"} /\ <<p>> \in {<< 1 >>, << 2 >>, <<1, 2>>}
  OBVIOUS
<1>2. CASE ~OnDevice
  <2>1. CallOk(layer, mode, "device")
    BY <1>1, <1>2 DEF CallOk, OnHost, Modes, Prepares, TwoLayers
  <2>2. LayerAt(OnDevice, p, layer) = LayerCall(layer, <<p>>, mode, "device")
    BY <1>2 DEF LayerAt
  <2> HIDE DEF mode
  <2>3. Run(LayerCall(layer, <<p>>, mode, "device"), layer, mode, "kda", "return")
    BY <1>1, <2>1, CallRuns
  <2> QED
    BY <1>2, <2>2, <2>3 DEF mode
<1>3. CASE OnDevice
  <2> DEFINE a == Step("front", layer, mode, <<p>>, TRUE, FALSE)
             b == Step("route", layer, mode, <<p>>, TRUE, FALSE)
             c == Step("tail", layer, mode, <<p>>, TRUE, layer = 1)
  <2>1. /\ a.op = "front" /\ a.layer = layer /\ a.mode = mode
        /\ b.op = "route" /\ b.layer = layer /\ b.mode = mode
        /\ c.op = "tail" /\ c.layer = layer /\ c.mode = mode
        /\ c.prepared = TRUE /\ c.retain = (layer = 1)
    BY DEF Step
  <2>2. a \in Steps /\ b \in Steps
    BY <1>1 DEF Step, Steps, Ops
  <2>3. c \in Steps
    BY <1>1 DEF Step, Steps, Ops
  <2>4. LayerAt(OnDevice, p, layer) = <<a, b, c>>
    BY <1>3 DEF LayerAt
  <2> HIDE DEF mode, a, b, c
  <2>5. bench.tool = "closure"
    BY DEF TwoLayers
  <2>6. StepOk(a) /\ StepOk(b) /\ StepOk(c)
    BY <1>1, <1>3, <2>1, <2>2, <2>3, <2>5 DEF StepOk
  <2>7. Run(<<a>>, layer, mode, "front", "front")
    BY <2>1, <2>6, RunOfOne
  <2>8. Run(<<b>>, layer, mode, "route", "route")
    BY <2>1, <2>6, RunOfOne
  <2>9. Run(<<c>>, layer, mode, "tail", "tail")
    BY <2>1, <2>6, RunOfOne
  <2>10. Run(<<a>> \o <<b>>, layer, mode, "front", "route")
    BY <2>7, <2>8, RunsJoin DEF OpFollows
  <2>11. Run(<<a>> \o <<b>> \o <<c>>, layer, mode, "front", "tail")
    BY <1>3, <2>9, <2>10, RunsJoin DEF OpFollows
  <2>12. <<a>> \o <<b>> \o <<c>> = <<a, b, c>>
    BY TripleJoins
  <2> QED
    BY <1>3, <2>4, <2>11, <2>12 DEF mode
<1> QED
  BY <1>2, <1>3

\* A path from a step that may be the first, to the end of a call.
Reaches(p, layer, mode, last) ==
  \E a, z \in Steps :
    Path(p, a, z) /\ IsFirst(a) /\ z.layer = layer /\ z.mode = mode /\ z.op = last

LEMMA RunReaches ==
  ASSUME NEW p, NEW layer, NEW mode, NEW first, NEW last, Run(p, layer, mode, first, last),
         first \in {"kda", "front"} \/ SingleSteps, mode # "publish", layer = 1
  PROVE  Reaches(p, layer, mode, last)
<1>1. PICK a, z \in Steps :
        /\ Path(p, a, z)
        /\ a.layer = layer /\ a.mode = mode /\ a.op = first
        /\ z.layer = layer /\ z.mode = mode /\ z.op = last
  BY DEF Run
<1>2. IsFirst(a)
  BY <1>1 DEF IsFirst, Opens
<1> QED
  BY <1>1, <1>2 DEF Reaches

\* A call after another.
LEMMA ReachesOn ==
  ASSUME NEW p, NEW q, NEW k, NEW l, NEW m, NEW n, NEW last, NEW first, NEW final,
         Reaches(p, k, m, last), Run(q, l, n, first, final),
         last \in {"return", "tail"} \/ SingleSteps, first \in {"kda", "front"} \/ SingleSteps,
         \/ m = "roundtrip" /\ n = "roundtrip"
         \/ m = n /\ TwoLayers /\ k = 1 /\ l = 2
         \/ m = "seed" /\ n = "publish" /\ l = 1 /\ k = IF TwoLayers THEN 2 ELSE 1
  PROVE  Reaches(p \o q, l, n, final)
<1>1. PICK a, b \in Steps :
        Path(p, a, b) /\ IsFirst(a) /\ b.layer = k /\ b.mode = m /\ b.op = last
  BY DEF Reaches
<1>2. PICK c, d \in Steps :
        /\ Path(q, c, d)
        /\ c.layer = l /\ c.mode = n /\ c.op = first
        /\ d.layer = l /\ d.mode = n /\ d.op = final
  BY DEF Run
<1>3. Follows(b, c)
  BY <1>1, <1>2 DEF Follows, BetweenCalls, Opens, Closes
<1>4. Path(p \o q, a, d)
  BY <1>1, <1>2, <1>3, PathsJoin
<1> QED
  BY <1>1, <1>2, <1>4 DEF Reaches

LEMMA ReachesEnd ==
  ASSUME NEW p, NEW layer, NEW mode, NEW last, Reaches(p, layer, mode, last),
         last \in {"return", "tail"} \/ SingleSteps, mode # "seed",
         layer = IF TwoLayers THEN 2 ELSE 1
  PROVE  \E a, z \in Steps : Path(p, a, z) /\ IsFirst(a) /\ IsLast(z)
<1>1. PICK a, z \in Steps :
        Path(p, a, z) /\ IsFirst(a) /\ z.layer = layer /\ z.mode = mode /\ z.op = last
  BY DEF Reaches
<1>2. IsLast(z)
  BY <1>1 DEF IsLast, Closes
<1> QED
  BY <1>1, <1>2

LEMMA LayerExecution ==
  ASSUME bench \in Benches, bench.tool = "layer"
  PROVE  \E a, z \in Steps : Path(Execution, a, z) /\ IsFirst(a) /\ IsLast(z)
<1>1. bench.case \in {"a", "ab-full", "ab-incremental"}
  BY BenchCases
<1>2. ~TwoLayers /\ OnHost /\ ~SingleSteps /\ (Prepares <=> bench.route = "device")
  BY DEF TwoLayers, OnHost, Prepares, SingleSteps
<1>3. \A mode \in Modes : CallOk(1, mode, bench.route)
  BY <1>2 DEF CallOk
<1>4. \A mode \in Modes : \A inputs \in {<< 1 >>, << 2 >>, <<1, 2>>} :
        Run(LayerCall(1, inputs, mode, bench.route), 1, mode, "kda", "return")
  BY <1>3, CallRuns
<1>5. \A mode \in {"roundtrip", "seed"} : \A inputs \in {<< 1 >>, << 2 >>, <<1, 2>>} :
        Reaches(LayerCall(1, inputs, mode, bench.route), 1, mode, "return")
  <2> TAKE mode \in {"roundtrip", "seed"}, inputs \in {<< 1 >>, << 2 >>, <<1, 2>>}
  <2> DEFINE p == LayerCall(1, inputs, mode, bench.route)
  <2>1. Run(p, 1, mode, "kda", "return")
    BY <1>4 DEF Modes
  <2> HIDE DEF p
  <2>2. Reaches(p, 1, mode, "return")
    BY <2>1, RunReaches
  <2> QED
    BY <2>2 DEF p
<1> DEFINE call(inputs, mode) == LayerCall(1, inputs, mode, bench.route)
<1>6. \A mode \in {"roundtrip", "seed"} :
        Reaches(call(<< 1 >>, mode) \o call(<< 2 >>, IF mode = "seed" THEN "publish" ELSE mode),
                1, IF mode = "seed" THEN "publish" ELSE mode, "return")
  <2> TAKE mode \in {"roundtrip", "seed"}
  <2> DEFINE then == IF mode = "seed" THEN "publish" ELSE mode
             p == call(<< 1 >>, mode)
             q == call(<< 2 >>, then)
  <2>1. Reaches(p, 1, mode, "return")
    BY <1>5
  <2>2. Run(q, 1, then, "kda", "return")
    BY <1>4 DEF Modes
  <2>3. (mode = "roundtrip" /\ then = "roundtrip") \/ (mode = "seed" /\ then = "publish")
    OBVIOUS
  <2> HIDE DEF p, q, then
  <2>4. Reaches(p \o q, 1, then, "return")
    BY <1>2, <2>1, <2>2, <2>3, ReachesOn
  <2> QED
    BY <2>4 DEF p, q, then
<1>7. CASE bench.case = "a"
  <2> DEFINE p == call(<< 1 >>, "roundtrip")
  <2>1. Execution = p
    BY <1>7 DEF Execution
  <2>2. Reaches(p, 1, "roundtrip", "return")
    BY <1>5
  <2> HIDE DEF p
  <2> QED
    BY <1>2, <2>1, <2>2, ReachesEnd
<1>8. CASE bench.case = "ab-full"
  <2> DEFINE p == call(<<1, 2>>, "roundtrip")
  <2>1. Execution = p
    BY <1>8 DEF Execution
  <2>2. Reaches(p, 1, "roundtrip", "return")
    BY <1>5
  <2> HIDE DEF p
  <2> QED
    BY <1>2, <2>1, <2>2, ReachesEnd
<1>9. CASE bench.case = "ab-incremental" /\ bench.state = "device"
  <2> DEFINE p == call(<< 1 >>, "seed") \o call(<< 2 >>, "publish")
  <2>1. Execution = p
    BY <1>9 DEF Execution
  <2>2. Reaches(p, 1, "publish", "return")
    BY <1>6
  <2> HIDE DEF p
  <2> QED
    BY <1>2, <2>1, <2>2, ReachesEnd
<1>10. CASE bench.case = "ab-incremental" /\ bench.state # "device"
  <2> DEFINE p == call(<< 1 >>, "roundtrip") \o call(<< 2 >>, "roundtrip")
  <2>1. Execution = p
    BY <1>10 DEF Execution
  <2>2. Reaches(p, 1, "roundtrip", "return")
    BY <1>6
  <2> HIDE DEF p
  <2> QED
    BY <1>2, <2>1, <2>2, ReachesEnd
<1> QED
  BY <1>1, <1>7, <1>8, <1>9, <1>10

LEMMA SingleRuns ==
  ASSUME SingleSteps, NEW s \in Steps, StepOk(s), s.layer = 1, s.mode = "roundtrip"
  PROVE  Run(<<s>>, 1, "roundtrip", s.op, s.op) /\ Reaches(<<s>>, 1, "roundtrip", s.op)
<1>1. Run(<<s>>, 1, "roundtrip", s.op, s.op)
  BY RunOfOne
<1> QED
  BY <1>1, RunReaches

LEMMA SingleExecution ==
  ASSUME bench \in Benches, SingleSteps
  PROVE  \E a, z \in Steps : Path(Execution, a, z) /\ IsFirst(a) /\ IsLast(z)
<1>1. ~TwoLayers /\ ~Prepares /\ bench.tool # "layer" /\ bench.tool \in {"moe", "expert"}
  BY DEF TwoLayers, Prepares, SingleSteps
<1>2. CASE bench.tool = "expert"
  <2> DEFINE s == Step("group", 1, "roundtrip", << 1 >>, FALSE, FALSE)
  <2>1. s \in Steps /\ s.layer = 1 /\ s.mode = "roundtrip" /\ s.op = "group"
    BY DEF Step, Steps, Ops
  <2>2. Execution = <<s>>
    BY <1>2 DEF Execution
  <2> HIDE DEF s
  <2>3. StepOk(s)
    BY <1>1, <1>2, <2>1 DEF StepOk
  <2>4. Reaches(<<s>>, 1, "roundtrip", s.op)
    BY <2>1, <2>3, SingleRuns
  <2> QED
    BY <1>1, <2>2, <2>4, ReachesEnd
<1>3. CASE bench.tool = "moe"
  <2> DEFINE s(i) == Step("ffn", 1, "roundtrip", <<i>>, FALSE, FALSE)
             a == s(1)
             b == s(2)
  <2>1. /\ a \in Steps /\ a.layer = 1 /\ a.mode = "roundtrip" /\ a.op = "ffn" /\ a.prepared = FALSE
        /\ b \in Steps /\ b.layer = 1 /\ b.mode = "roundtrip" /\ b.op = "ffn" /\ b.prepared = FALSE
    BY DEF Step, Steps, Ops
  <2>2. Execution = <<a>> \o (IF bench.case = "alternating" THEN <<b>> ELSE <<>>)
    BY <1>3 DEF Execution
  <2> HIDE DEF s, a, b
  <2>3. StepOk(a) /\ StepOk(b)
    <3>1. Prepares = FALSE
      BY <1>1 DEF Prepares, TwoLayers
    <3> QED
      BY <1>1, <1>3, <2>1, <3>1 DEF StepOk
  <2>4. Reaches(<<a>>, 1, "roundtrip", "ffn") /\ Run(<<b>>, 1, "roundtrip", "ffn", "ffn")
    BY <2>1, <2>3, SingleRuns
  <2>5. Reaches(<<a>> \o <<b>>, 1, "roundtrip", "ffn")
    BY <2>4, ReachesOn
  <2>6. <<a>> \o <<>> = <<a>>
    OBVIOUS
  <2>7. Reaches(Execution, 1, "roundtrip", "ffn")
    BY <2>2, <2>4, <2>5, <2>6
  <2> QED
    BY <1>1, <2>7, ReachesEnd
<1> QED
  BY <1>1, <1>2, <1>3

LEMMA TwoLayerExecution ==
  ASSUME bench \in Benches, TwoLayers
  PROVE  \E a, z \in Steps : Path(Execution, a, z) /\ IsFirst(a) /\ IsLast(z)
<1> DEFINE p(i, l) == LayerAt(OnDevice, i, l)
           first == IF OnDevice THEN "front" ELSE "kda"
           last == IF OnDevice THEN "tail" ELSE "return"
<1>1. bench.tool = "closure"
  BY DEF TwoLayers
<1>2. Execution = p(1, 1) \o p(1, 2) \o p(2, 1) \o p(2, 2)
  <2>1. Execution = TwoLayerCall(bench.case = "device-closure")
    BY <1>1 DEF Execution
  <2>2. (bench.case = "device-closure") = OnDevice
    BY DEF OnDevice
  <2> QED
    BY <2>1, <2>2 DEF TwoLayerCall
<1>3. \A l \in {1, 2} : /\ Run(p(1, l), l, "seed", first, last)
                        /\ Run(p(2, l), l, "publish", first, last)
  BY LayerRuns
<1>4. first \in {"kda", "front"} /\ last \in {"return", "tail"}
  OBVIOUS
<1> HIDE DEF p, first, last
<1>5. Reaches(p(1, 1), 1, "seed", last)
  BY <1>3, <1>4, RunReaches
<1>6. Reaches(p(1, 1) \o p(1, 2), 2, "seed", last)
  BY <1>3, <1>4, <1>5, ReachesOn
<1>7. Reaches(p(1, 1) \o p(1, 2) \o p(2, 1), 1, "publish", last)
  BY <1>3, <1>4, <1>6, ReachesOn
<1>8. Reaches(p(1, 1) \o p(1, 2) \o p(2, 1) \o p(2, 2), 2, "publish", last)
  BY <1>3, <1>4, <1>7, ReachesOn
<1> QED
  BY <1>2, <1>4, <1>8, ReachesEnd

\* What a benchmark executes is a path, from a first step to a last one.
LEMMA ExecutionIsPath ==
  ASSUME bench \in Benches
  PROVE  \E a, z \in Steps : Path(Execution, a, z) /\ IsFirst(a) /\ IsLast(z)
<1>1. bench.tool \in {"layer", "moe", "expert", "closure"}
  BY BenchCases
<1> QED
  BY <1>1, LayerExecution, SingleExecution, TwoLayerExecution DEF SingleSteps, TwoLayers

-----------------------------------------------------------------------------
(* What the calls of the backend do to the slots.                           *)

PreparedCounters ==
  {"prepared_seeds", "prepared_consumes", "prepared_discards", "prepared_invalidations"}
Parts == {"kda", "prepared", "hidden", "generations", "resident", "validated", "stats"}
States == [Layers -> Nat]
PreparedInputs == [active : BOOLEAN, layer : {0, 1, 2}, slot : {0, 1, 2}]
HiddenSlots ==
  [{1, 2} -> [state : {"free", "prepared", "live"}, generation : Nat, layer : {0, 1, 2}]]
Generations == [kda : Nat, prepared : Nat, hidden : Nat]

\* The prepared inputs that are in use still, by the counters.
InUse(b) ==
  b.stats["prepared_seeds"] - b.stats["prepared_consumes"] - b.stats["prepared_discards"]
    - b.stats["prepared_invalidations"]

\* A backend with these slots and generations.
Holds(b, kda, prepared, hidden, generations, inUse) ==
  /\ DOMAIN b = Parts /\ DOMAIN b.stats = Counters
  /\ \A c \in PreparedCounters : b.stats[c] \in Nat
  /\ b.kda = kda /\ b.prepared = prepared /\ b.hidden = hidden /\ b.generations = generations
  /\ InUse(b) = inUse

LEMMA AddHolds ==
  ASSUME NEW b, NEW k, NEW p, NEW h, NEW g, NEW n, Holds(b, k, p, h, g, n),
         NEW more, \A c \in PreparedCounters : c \notin DOMAIN more
  PROVE  Holds(Add(b, more), k, p, h, g, n)
<1> DEFINE c == Add(b, more)
           new == [i \in Counters |-> b.stats[i] + (IF i \in DOMAIN more THEN more[i] ELSE 0)]
<1>1. DOMAIN b = Parts /\ DOMAIN b.stats = Counters
  BY DEF Holds
<1>2. c = [b EXCEPT !.stats = new]
  BY DEF Add
<1>3. \A i \in PreparedCounters : new[i] = b.stats[i] + 0
  BY DEF Counters, PreparedCounters
<1>4. DOMAIN new = Counters
  OBVIOUS
<1> HIDE DEF c, new
<1>5. /\ DOMAIN c = Parts /\ c.stats = new /\ c.kda = b.kda /\ c.prepared = b.prepared
      /\ c.hidden = b.hidden /\ c.generations = b.generations
  BY <1>1, <1>2 DEF Parts
<1>6. \A i \in PreparedCounters : b.stats[i] \in Nat
  BY DEF Holds
<1>7. \A i \in PreparedCounters : new[i] = b.stats[i]
  BY <1>3, <1>6
<1>8. InUse(c) = InUse(b)
  BY <1>5, <1>7 DEF InUse, PreparedCounters
<1> QED
  BY <1>4, <1>5, <1>6, <1>7, <1>8 DEF Holds, c

\* A prepared input is counted as one that is in use, or as one that was.
LEMMA CountHolds ==
  ASSUME NEW b, NEW k, NEW p, NEW h, NEW g, NEW n, Holds(b, k, p, h, g, n),
         NEW counter \in PreparedCounters, NEW more, counter \in DOMAIN more, more[counter] = 1,
         \A c \in PreparedCounters : c # counter => c \notin DOMAIN more
  PROVE  Holds(Add(b, more), k, p, h, g, IF counter = "prepared_seeds" THEN n + 1 ELSE n - 1)
<1> DEFINE c == Add(b, more)
           new == [i \in Counters |-> b.stats[i] + (IF i \in DOMAIN more THEN more[i] ELSE 0)]
<1>1. DOMAIN b = Parts /\ DOMAIN b.stats = Counters
  BY DEF Holds
<1>2. c = [b EXCEPT !.stats = new]
  BY DEF Add
<1>3. \A i \in PreparedCounters : new[i] = b.stats[i] + (IF i = counter THEN 1 ELSE 0)
  BY DEF Counters, PreparedCounters
<1>4. DOMAIN new = Counters
  OBVIOUS
<1> HIDE DEF c, new
<1>5. /\ DOMAIN c = Parts /\ c.stats = new /\ c.kda = b.kda /\ c.prepared = b.prepared
      /\ c.hidden = b.hidden /\ c.generations = b.generations
  BY <1>1, <1>2 DEF Parts
<1>6. \A i \in PreparedCounters : b.stats[i] \in Nat
  BY DEF Holds
<1>7. \A i \in PreparedCounters : new[i] \in Nat
  BY <1>3, <1>6
<1>8. InUse(c) = IF counter = "prepared_seeds" THEN InUse(b) + 1 ELSE InUse(b) - 1
  <2>1. /\ "prepared_seeds" \in PreparedCounters /\ "prepared_consumes" \in PreparedCounters
        /\ "prepared_discards" \in PreparedCounters
        /\ "prepared_invalidations" \in PreparedCounters
        /\ counter \in {"prepared_seeds", "prepared_consumes", "prepared_discards",
                        "prepared_invalidations"}
    BY DEF PreparedCounters
  <2>2. /\ b.stats["prepared_seeds"] \in Nat /\ b.stats["prepared_consumes"] \in Nat
        /\ b.stats["prepared_discards"] \in Nat /\ b.stats["prepared_invalidations"] \in Nat
    BY <1>6, <2>1
  <2>3. /\ new["prepared_seeds"] = b.stats["prepared_seeds"] + (IF "prepared_seeds" = counter THEN 1 ELSE 0)
        /\ new["prepared_consumes"] = b.stats["prepared_consumes"] + (IF "prepared_consumes" = counter THEN 1 ELSE 0)
        /\ new["prepared_discards"] = b.stats["prepared_discards"] + (IF "prepared_discards" = counter THEN 1 ELSE 0)
        /\ new["prepared_invalidations"] = b.stats["prepared_invalidations"] + (IF "prepared_invalidations" = counter THEN 1 ELSE 0)
    BY <1>3, <2>1
  <2> QED
    BY <1>5, <2>1, <2>2, <2>3 DEF InUse
<1> QED
  BY <1>4, <1>5, <1>7, <1>8 DEF Holds, c

LEMMA AcquireHolds ==
  ASSUME NEW b, NEW k, NEW p, NEW h, NEW g, NEW n, Holds(b, k, p, h, g, n), NEW groups
  PROVE  Holds(Acquire(b, groups), k, p, h, g, n) /\ Holds(Validated(b, groups), k, p, h, g, n)
<1>1. \A x : /\ Holds([b EXCEPT !.resident = x], k, p, h, g, n)
             /\ Holds([b EXCEPT !.validated = x], k, p, h, g, n)
  BY DEF Holds, Parts, InUse
<1>2. \A x, y, z : \A i \in PreparedCounters :
        i \notin DOMAIN [hits |-> x, misses |-> y, weight_h2d |-> z]
  BY DEF PreparedCounters
<1>3. \A x, y : \A i \in PreparedCounters :
        i \notin DOMAIN [weight_h2d |-> x, allocations |-> y]
  BY DEF PreparedCounters
<1>4. \A x, y, z : \A i \in PreparedCounters :
        i \notin DOMAIN [scans |-> x, scan_bytes |-> y, scan_hits |-> z]
  BY DEF PreparedCounters
<1>5. Holds(Acquire(b, groups), k, p, h, g, n)
  <2> DEFINE c == [b EXCEPT !.resident = @ \cup groups]
             one == [hits |-> ViewsOf(groups \cap b.resident),
                     misses |-> ViewsOf(groups \ b.resident),
                     weight_h2d |-> BytesOf(groups \ b.resident)]
             two == [weight_h2d |-> BytesOf(groups), allocations |-> AllocationsOf(groups)]
  <2>1. Acquire(b, groups) = IF bench.weights = "resident" THEN Add(c, one) ELSE Add(b, two)
    BY DEF Acquire
  <2>2. Holds(c, k, p, h, g, n)
    BY <1>1
  <2>3. /\ \A i \in PreparedCounters : i \notin DOMAIN one
        /\ \A i \in PreparedCounters : i \notin DOMAIN two
    BY <1>2, <1>3
  <2> HIDE DEF c, one, two
  <2>4. Holds(Add(c, one), k, p, h, g, n) /\ Holds(Add(b, two), k, p, h, g, n)
    BY <2>2, <2>3, AddHolds
  <2> QED
    BY <2>1, <2>4
<1>6. Holds(Validated(b, groups), k, p, h, g, n)
  <2> DEFINE scanned == IF bench.validation = "per-call" THEN groups ELSE groups \ b.validated
             c == [b EXCEPT !.validated = IF bench.validation = "per-call" THEN @ ELSE @ \cup groups]
             more == [scans |-> ViewsOf(scanned), scan_bytes |-> BytesOf(scanned),
                      scan_hits |-> ViewsOf(groups \ scanned)]
  <2>1. Validated(b, groups) = Add(c, more)
    BY DEF Validated
  <2>2. Holds(c, k, p, h, g, n)
    BY <1>1
  <2>3. \A i \in PreparedCounters : i \notin DOMAIN more
    BY <1>4
  <2> HIDE DEF c, more
  <2> QED
    BY <2>1, <2>2, <2>3, AddHolds
<1> QED
  BY <1>5, <1>6

\* A hidden slot that is given back.
Freed(hidden, slot) ==
  [i \in {1, 2} |-> IF i = slot THEN [hidden[i] EXCEPT !.state = "free"] ELSE hidden[i]]

LEMMA FreeHolds ==
  ASSUME NEW b, NEW k, NEW p, NEW h \in HiddenSlots, NEW g, NEW n, Holds(b, k, p, h, g, n),
         NEW slot \in {0, 1, 2}
  PROVE  Holds(FreeHidden(b, slot), k, p, Freed(h, slot), g, n) /\ Freed(h, slot) \in HiddenSlots
<1>1. Freed(h, slot) \in HiddenSlots
  BY DEF Freed, HiddenSlots
<1>2. CASE slot = 0
  <2>1. Freed(h, slot) = h
    BY <1>2 DEF Freed, HiddenSlots
  <2> QED
    BY <1>1, <1>2, <2>1 DEF FreeHidden
<1>3. CASE slot # 0
  <2> DEFINE c == [b EXCEPT !.hidden[slot].state = "free"]
  <2>1. DOMAIN b = Parts /\ b.hidden = h
    BY DEF Holds
  <2>2. c.hidden = [h EXCEPT ![slot].state = "free"]
    BY <2>1 DEF Parts
  <2>3. [h EXCEPT ![slot].state = "free"] = Freed(h, slot)
    BY <1>3 DEF Freed, HiddenSlots
  <2>4. /\ DOMAIN c = Parts /\ c.stats = b.stats /\ c.kda = b.kda /\ c.prepared = b.prepared
        /\ c.generations = b.generations
    BY <2>1 DEF Parts
  <2>5. FreeHidden(b, slot) = c
    BY <1>3 DEF FreeHidden
  <2> HIDE DEF c
  <2>6. Holds(c, k, p, Freed(h, slot), g, n)
    BY <2>2, <2>3, <2>4 DEF Holds, InUse
  <2> QED
    BY <1>1, <2>5, <2>6
<1> QED
  BY <1>2, <1>3

Ends == {"prepared_consumes", "prepared_discards", "prepared_invalidations"}

\* A prepared input that is dropped, if there is one.
LEMMA DropHolds ==
  ASSUME NEW b, NEW k, NEW p \in PreparedInputs, NEW h \in HiddenSlots, NEW g, NEW n,
         Holds(b, k, p, h, g, n), NEW counter \in Ends
  PROVE  /\ p.active => Holds(DropPrepared(b, counter), k, NotPrepared, Freed(h, p.slot), g, n - 1)
         /\ ~p.active => DropPrepared(b, counter) = b
<1>1. b.prepared = p
  BY DEF Holds
<1>2. ~p.active => DropPrepared(b, counter) = b
  BY <1>1 DEF DropPrepared
<1>3. ASSUME p.active
      PROVE  Holds(DropPrepared(b, counter), k, NotPrepared, Freed(h, p.slot), g, n - 1)
  <2> DEFINE c == FreeHidden(b, p.slot)
             d == [c EXCEPT !.prepared = NotPrepared]
             one == [i \in {counter} |-> 1]
  <2>1. DropPrepared(b, counter) = Add(d, one)
    BY <1>1, <1>3 DEF DropPrepared
  <2>2. p.slot \in {0, 1, 2}
    BY DEF PreparedInputs
  <2>3. Holds(c, k, p, Freed(h, p.slot), g, n)
    BY <2>2, FreeHolds
  <2>4. counter \in DOMAIN one /\ one[counter] = 1 /\ \A i : i # counter => i \notin DOMAIN one
    OBVIOUS
  <2> HIDE DEF c, one
  <2>5. Holds(d, k, NotPrepared, Freed(h, p.slot), g, n)
    BY <2>3 DEF Holds, Parts, InUse
  <2> HIDE DEF d
  <2>6. counter \in PreparedCounters /\ counter # "prepared_seeds"
    BY DEF Ends, PreparedCounters
  <2>7. Holds(Add(d, one), k, NotPrepared, Freed(h, p.slot), g,
              IF counter = "prepared_seeds" THEN n + 1 ELSE n - 1)
    BY <2>4, <2>5, <2>6, CountHolds
  <2> QED
    BY <2>1, <2>6, <2>7
<1> QED
  BY <1>2, <1>3

LEMMA ConsumeHolds ==
  ASSUME NEW b, NEW k, NEW p \in PreparedInputs, NEW h, NEW g, NEW n, Holds(b, k, p, h, g, n)
  PROVE  Holds(Consume(b), k, [p EXCEPT !.active = FALSE], h, g, n - 1)
<1> DEFINE d == [b EXCEPT !.prepared.active = FALSE]
           one == [prepared_consumes |-> 1]
           q == [p EXCEPT !.active = FALSE]
           x == "prepared_consumes"
<1>1. Consume(b) = Add(d, one)
  BY DEF Consume
<1>2. Holds(d, k, q, h, g, n)
  BY DEF Holds, Parts, InUse
<1>3. x \in DOMAIN one /\ one[x] = 1 /\ \A i : i # x => i \notin DOMAIN one
  OBVIOUS
<1>4. x \in PreparedCounters /\ x # "prepared_seeds"
  BY DEF PreparedCounters
<1> HIDE DEF d, one, q, x
<1>5. Holds(Add(d, one), k, q, h, g, IF x = "prepared_seeds" THEN n + 1 ELSE n - 1)
  BY <1>2, <1>3, <1>4, CountHolds
<1> QED
  BY <1>1, <1>4, <1>5 DEF q

\* A state that is given back, by its token.
Dropped(kda, token) == [l \in Layers |-> IF token # 0 /\ kda[l] = token THEN 0 ELSE kda[l]]

LEMMA DiscardKdaHolds ==
  ASSUME NEW b, NEW k \in States, NEW p, NEW h, NEW g, NEW n, Holds(b, k, p, h, g, n), NEW token
  PROVE  Holds(DiscardKda(b, token), Dropped(k, token), p, h, g, n) /\ Dropped(k, token) \in States
<1> DEFINE slots == {l \in Layers : token # 0 /\ b.kda[l] = token}
           new == [l \in Layers |-> IF l \in slots THEN 0 ELSE b.kda[l]]
           c == [b EXCEPT !.kda = [l \in Layers |-> IF l \in slots THEN 0 ELSE @[l]]]
           one == [state_invalidations |-> 1]
<1>1. DiscardKda(b, token) = IF slots = {} THEN b ELSE Add(c, one)
  BY DEF DiscardKda
<1>2. b.kda = k /\ DOMAIN b = Parts
  BY DEF Holds
<1>3. Dropped(k, token) \in States
  BY DEF Dropped, States
<1>4. new = Dropped(k, token)
  BY <1>2 DEF Dropped
<1>5. slots = {} => Dropped(k, token) = k
  BY <1>2 DEF Dropped, States
<1>6. c = [b EXCEPT !.kda = new]
  BY <1>2 DEF Parts
<1>7. \A i \in PreparedCounters : i \notin DOMAIN one
  BY DEF PreparedCounters
<1> HIDE DEF slots, new, c, one
<1>8. Holds(c, new, p, h, g, n)
  BY <1>6 DEF Holds, Parts, InUse
<1>9. Holds(Add(c, one), new, p, h, g, n)
  BY <1>7, <1>8, AddHolds
<1> QED
  BY <1>1, <1>3, <1>4, <1>5, <1>9

LEMMA DiscardHiddenHolds ==
  ASSUME NEW b, NEW k, NEW p, NEW h \in HiddenSlots, NEW g, NEW n, Holds(b, k, p, h, g, n),
         NEW token, token.slot \in {0, 1, 2}
  PROVE  LET mine == /\ token.slot # 0 /\ h[token.slot].state = "live"
                     /\ h[token.slot].generation = token.generation
                     /\ h[token.slot].layer = token.layer
         IN  /\ mine => Holds(DiscardHidden(b, token), k, p, Freed(h, token.slot), g, n)
             /\ ~mine => DiscardHidden(b, token) = b
<1>1. b.hidden = h
  BY DEF Holds
<1>2. Holds(FreeHidden(b, token.slot), k, p, Freed(h, token.slot), g, n)
  BY FreeHolds
<1> QED
  BY <1>1, <1>2 DEF DiscardHidden

\* Counters of other kinds leave the slots alone.
LEMMA OtherCounters ==
  /\ \A a, b, c, d, e, f, m, n, o, p, q, r : \A i \in PreparedCounters :
       i \notin DOMAIN [syncs |-> a, activation_h2d |-> b, d2h |-> c, kda_calls |-> d,
                        kda_launches |-> e, state_h2d |-> f, state_d2h |-> m, output_d2h |-> n,
                        state_seeds |-> o, state_continuations |-> p, state_publications |-> q,
                        state_invalidations |-> r]
  /\ \A a, b, c : \A i \in PreparedCounters :
       i \notin DOMAIN [syncs |-> a, d2h |-> b, activation_h2d |-> c]
  /\ \A a, b, c : \A i \in PreparedCounters :
       i \notin DOMAIN [syncs |-> a, activation_h2d |-> b, d2h |-> c]
  /\ \A a : \A i \in PreparedCounters : i \notin DOMAIN [activation_h2d |-> a]
  /\ \A a : \A i \in PreparedCounters : i \notin DOMAIN [weight_h2d |-> a]
  /\ \A a : \A i \in PreparedCounters : i \notin DOMAIN [state_invalidations |-> a]
BY DEF PreparedCounters

\* The state slots and the generations after KDA.
StatesAfter(kda, generations, s) ==
  [l \in Layers |-> IF l # s.layer THEN kda[l]
                    ELSE IF Retains(s.mode) THEN generations.kda + 1 ELSE 0]
KdaGenerations(generations, s) ==
  IF Retains(s.mode) THEN [generations EXCEPT !.kda = @ + 1] ELSE generations

LEMMA AfterKdaTyped ==
  ASSUME NEW k \in States, NEW g \in Generations, NEW s \in Steps
  PROVE  StatesAfter(k, g, s) \in States /\ KdaGenerations(g, s) \in Generations
BY DEF States, Generations, StatesAfter, KdaGenerations

LEMMA KdaHolds ==
  ASSUME NEW b, NEW k \in States, NEW p, NEW h, NEW g \in Generations, NEW n,
         Holds(b, k, p, h, g, n), NEW s \in Steps, NEW onDevice
  PROVE  Holds(Kda(b, s, onDevice), StatesAfter(k, g, s), p, h, KdaGenerations(g, s), n)
<1> DEFINE weights == KdaWeights(s.layer)
           len == Len(s.inputs)
           stateIn == IF Continues(s.mode) THEN 0 ELSE State
           stateOut == IF Publishes(s.mode) THEN State ELSE 0
           io == IF onDevice THEN 0 ELSE len * HiddenBytes
           ran1 == Acquire(Validated(b, weights), weights)
           more == [syncs |-> 1, activation_h2d |-> io + stateIn, d2h |-> io + stateOut,
                    kda_calls |-> 1, kda_launches |-> 8 + 8 * len, state_h2d |-> stateIn,
                    state_d2h |-> stateOut, output_d2h |-> io,
                    state_seeds |-> IF s.mode = "seed" THEN 1 ELSE 0,
                    state_continuations |-> ContinuationsOf(s),
                    state_publications |-> IF s.mode = "publish" THEN 1 ELSE 0,
                    state_invalidations |->
                      IF s.mode = "roundtrip" /\ b.kda[s.layer] # 0 THEN 1 ELSE 0]
           counted == Add(ran1, more)
           c == [counted EXCEPT !.kda[s.layer] = SlotAfterKda(b, s),
                                !.generations.kda = IF Retains(s.mode) THEN @ + 1 ELSE @]
<1>1. Kda(b, s, onDevice) = c
  BY DEF Kda
<1>2. \A i \in PreparedCounters : i \notin DOMAIN more
  BY OtherCounters
<1> HIDE DEF more, weights
<1>3. Holds(Validated(b, weights), k, p, h, g, n)
  BY AcquireHolds
<1>4. Holds(ran1, k, p, h, g, n)
  BY <1>3, AcquireHolds
<1> HIDE DEF ran1
<1>5. Holds(counted, k, p, h, g, n)
  BY <1>2, <1>4, AddHolds
<1> HIDE DEF counted
<1> DEFINE v == SlotAfterKda(b, s)
           w == IF Retains(s.mode) THEN g.kda + 1 ELSE g.kda
<1>6. DOMAIN counted = Parts /\ counted.kda = k /\ counted.generations = g /\ b.generations = g
  BY <1>5 DEF Holds
<1>7. c.kda = [k EXCEPT ![s.layer] = v] /\ c.generations = [g EXCEPT !.kda = w]
  BY <1>6 DEF Parts
<1>8. /\ DOMAIN c = Parts /\ c.stats = counted.stats /\ c.prepared = counted.prepared
      /\ c.hidden = counted.hidden
  BY <1>6 DEF Parts
<1>9. v = IF Retains(s.mode) THEN g.kda + 1 ELSE 0
  BY <1>6 DEF SlotAfterKda
<1> HIDE DEF c, v
<1>10. [k EXCEPT ![s.layer] = v] = StatesAfter(k, g, s)
  BY <1>9 DEF StatesAfter, States
<1>11. [g EXCEPT !.kda = w] = KdaGenerations(g, s)
  <2>1. CASE Retains(s.mode)
    BY <2>1 DEF KdaGenerations
  <2>2. CASE ~Retains(s.mode)
    BY <2>2 DEF KdaGenerations, Generations
  <2> QED
    BY <2>1, <2>2
<1>12. Holds(c, StatesAfter(k, g, s), p, h, KdaGenerations(g, s), n)
  BY <1>5, <1>7, <1>8, <1>10, <1>11 DEF Holds, InUse
<1> QED
  BY <1>1, <1>12

PreparedAs(layer, slot) == [active |-> TRUE, layer |-> layer, slot |-> slot]
PreparedOnce(generations) == [generations EXCEPT !.prepared = @ + 1]

LEMMA PrepareHolds ==
  ASSUME NEW b, NEW k, NEW p \in PreparedInputs, NEW h \in HiddenSlots, NEW g \in Generations,
         Holds(b, k, p, h, g, 0), ~p.active, NEW s \in Steps, NEW onDevice
  PROVE  Holds(Prepare(b, s, onDevice), k, PreparedAs(s.layer, 0), h, PreparedOnce(g), 1)
<1> DEFINE weights == {<<"route", s.layer>>}
           ran1 == Acquire(Validated(b, weights), weights)
           clear == DropPrepared(ran1, "prepared_invalidations")
           more == [syncs |-> 1, activation_h2d |-> IF onDevice THEN 0 ELSE 2 * HiddenBytes,
                    d2h |-> LogitsBytes, route_calls |-> 1, route_launches |-> 2,
                    logit_d2h |-> LogitsBytes, prepared_seeds |-> 1]
           counted == Add(clear, more)
           x == "prepared_seeds"
           c == [counted EXCEPT !.prepared = [active |-> TRUE, layer |-> s.layer, slot |-> 0],
                                !.generations.prepared = @ + 1]
<1>1. Prepare(b, s, onDevice) = c
  BY DEF Prepare
<1>2. /\ x \in DOMAIN more /\ more[x] = 1
      /\ \A i \in PreparedCounters : i # x => i \notin DOMAIN more
  BY DEF PreparedCounters
<1> HIDE DEF more, weights
<1>3. Holds(Validated(b, weights), k, p, h, g, 0)
  BY AcquireHolds
<1>4. Holds(ran1, k, p, h, g, 0)
  BY <1>3, AcquireHolds
<1> HIDE DEF ran1
<1>5. clear = ran1
  <2>1. "prepared_invalidations" \in Ends
    BY DEF Ends
  <2> QED
    BY <1>4, <2>1, DropHolds
<1>6. x \in PreparedCounters /\ x = "prepared_seeds"
  BY DEF PreparedCounters
<1> HIDE DEF clear, x
<1>7. Holds(counted, k, p, h, g, 1)
  <2>1. Holds(Add(clear, more), k, p, h, g, IF x = "prepared_seeds" THEN 0 + 1 ELSE 0 - 1)
    BY <1>2, <1>4, <1>5, <1>6, CountHolds
  <2> QED
    BY <1>6, <2>1
<1> HIDE DEF counted
<1>8. Holds(c, k, PreparedAs(s.layer, 0), h, PreparedOnce(g), 1)
  BY <1>7 DEF Holds, Parts, InUse, PreparedAs, PreparedOnce
<1> QED
  BY <1>1, <1>8

\* One input through its experts.
LEMMA FfnHolds ==
  ASSUME NEW b, NEW k, NEW p \in PreparedInputs, NEW h \in HiddenSlots, NEW g,
         Holds(b, k, p, h, g, IF p.active THEN 1 ELSE 0), NEW s \in Steps, s.prepared = p.active,
         NEW retain
  PROVE  Holds(Ffn(b, s, retain), k, [p EXCEPT !.active = FALSE], h, g, 0)
<1> DEFINE usedUp == IF s.prepared THEN Consume(b) ELSE DropPrepared(b, "prepared_invalidations")
           weights == FfnWeights(s.layer, s.inputs[1])
           more == [syncs |-> 1, d2h |-> IF retain THEN 0 ELSE HiddenBytes,
                    activation_h2d |-> (IF s.prepared THEN 0 ELSE 2 * HiddenBytes) + Contribution]
<1>1. Ffn(b, s, retain) = Add(Acquire(usedUp, weights), more)
  BY DEF Ffn
<1>2. \A i \in PreparedCounters : i \notin DOMAIN more
  BY OtherCounters
<1> HIDE DEF more, weights
<1> DEFINE q == [p EXCEPT !.active = FALSE]
<1>3. Holds(usedUp, k, q, h, g, 0)
  <2>1. CASE p.active
    <3>1. Holds(Consume(b), k, q, h, g, 1 - 1)
      BY <2>1, ConsumeHolds
    <3> QED
      BY <2>1, <3>1
  <2>2. CASE ~p.active
    <3>1. "prepared_invalidations" \in Ends
      BY DEF Ends
    <3>2. usedUp = b
      BY <2>2, <3>1, DropHolds
    <3>3. q = p
      BY <2>2 DEF PreparedInputs
    <3> QED
      BY <2>2, <3>2, <3>3
  <2> QED
    BY <2>1, <2>2
<1> HIDE DEF usedUp, q
<1>4. Holds(Acquire(usedUp, weights), k, q, h, g, 0)
  BY <1>3, AcquireHolds
<1>5. Holds(Add(Acquire(usedUp, weights), more), k, q, h, g, 0)
  BY <1>2, <1>4, AddHolds
<1> QED
  BY <1>1, <1>5 DEF q

LEMMA GroupHolds ==
  ASSUME NEW b, NEW k, NEW p, NEW h, NEW g, NEW n, Holds(b, k, p, h, g, n)
  PROVE  Holds(Group(b), k, p, h, g, n)
<1> DEFINE one == [weight_h2d |-> Expert]
           more == [syncs |-> 1, activation_h2d |-> ExpertIo, d2h |-> ExpertIo]
           usedUp == IF bench.weights = "resident" THEN Acquire(b, {<<"expert", 1, 0>>})
                                                  ELSE Add(b, one)
<1>1. Group(b) = Add(usedUp, more)
  BY DEF Group
<1>2. /\ \A i \in PreparedCounters : i \notin DOMAIN one
      /\ \A i \in PreparedCounters : i \notin DOMAIN more
  BY OtherCounters
<1> HIDE DEF one, more
<1>3. Holds(usedUp, k, p, h, g, n)
  BY <1>2, AcquireHolds, AddHolds
<1> QED
  BY <1>1, <1>2, <1>3, AddHolds

\* A hidden slot that a layer has taken as its input.
Taken(hidden, slot) ==
  [i \in {1, 2} |-> IF i = slot THEN [hidden[i] EXCEPT !.state = "prepared"] ELSE hidden[i]]

LEMMA FrontHolds ==
  ASSUME NEW b, NEW k \in States, NEW p \in PreparedInputs, NEW h \in HiddenSlots,
         NEW g \in Generations, Holds(b, k, p, h, g, 0), ~p.active, NEW s \in Steps, NEW token,
         HiddenSlotFor(b, s, token) \in {1, 2}
  PROVE  LET slot == HiddenSlotFor(b, s, token)
         IN  Holds(LayerFront(b, s, token), StatesAfter(k, g, s), PreparedAs(s.layer, slot),
                   Taken(h, slot), PreparedOnce(KdaGenerations(g, s)), 1)
<1> DEFINE slot == HiddenSlotFor(b, s, token)
           self == {<<"front", s.layer>>}
           ran1 == Acquire(Validated(b, self), self)
           usedUp == [ran1 EXCEPT !.hidden[slot].state = "prepared"]
           mixed == Kda(usedUp, s, TRUE)
           routed == Prepare(mixed, s, TRUE)
           c == [routed EXCEPT !.prepared.slot = slot]
           more == [activation_h2d |-> IF s.layer = 1 THEN 2 * HiddenBytes ELSE 0]
           kda == StatesAfter(k, g, s)
           first == KdaGenerations(g, s)
           hidden == Taken(h, slot)
<1>1. LayerFront(b, s, token) = Add(c, more)
  BY DEF LayerFront
<1>2. \A i \in PreparedCounters : i \notin DOMAIN more
  BY OtherCounters
<1>3. kda \in States /\ first \in Generations
  BY AfterKdaTyped
<1>4. slot \in {1, 2}
  OBVIOUS
<1>5. hidden \in HiddenSlots
  BY DEF Taken, HiddenSlots
<1> HIDE DEF more, self, kda, first, slot
<1>6. Holds(Validated(b, self), k, p, h, g, 0)
  BY AcquireHolds
<1>7. Holds(ran1, k, p, h, g, 0)
  BY <1>6, AcquireHolds
<1> HIDE DEF ran1
<1>8. Holds(usedUp, k, p, hidden, g, 0)
  <2>1. DOMAIN ran1 = Parts /\ ran1.hidden = h
    BY <1>7 DEF Holds
  <2>2. usedUp.hidden = [h EXCEPT ![slot].state = "prepared"]
    BY <2>1 DEF Parts
  <2>3. [h EXCEPT ![slot].state = "prepared"] = hidden
    BY <1>4 DEF Taken, HiddenSlots
  <2>4. /\ DOMAIN usedUp = Parts /\ usedUp.stats = ran1.stats /\ usedUp.kda = ran1.kda
        /\ usedUp.prepared = ran1.prepared /\ usedUp.generations = ran1.generations
    BY <2>1 DEF Parts
  <2> HIDE DEF usedUp, hidden
  <2> QED
    BY <1>7, <2>2, <2>3, <2>4 DEF Holds, InUse
<1> HIDE DEF usedUp, hidden
<1>9. Holds(mixed, kda, p, hidden, first, 0)
  BY <1>8, KdaHolds DEF kda, first
<1> HIDE DEF mixed
<1>10. Holds(routed, kda, PreparedAs(s.layer, 0), hidden, PreparedOnce(first), 1)
  BY <1>3, <1>5, <1>9, PrepareHolds
<1> HIDE DEF routed
<1>11. Holds(c, kda, PreparedAs(s.layer, slot), hidden, PreparedOnce(first), 1)
  <2>1. DOMAIN routed = Parts /\ routed.prepared = PreparedAs(s.layer, 0)
    BY <1>10 DEF Holds
  <2>2. c.prepared = [PreparedAs(s.layer, 0) EXCEPT !.slot = slot]
    BY <2>1 DEF Parts
  <2>3. c.prepared = PreparedAs(s.layer, slot)
    BY <2>2 DEF PreparedAs
  <2>4. /\ DOMAIN c = Parts /\ c.stats = routed.stats /\ c.kda = routed.kda
        /\ c.hidden = routed.hidden /\ c.generations = routed.generations
    BY <2>1 DEF Parts
  <2> HIDE DEF c
  <2> QED
    BY <1>10, <2>3, <2>4 DEF Holds, InUse
<1> HIDE DEF c
<1>12. Holds(Add(c, more), kda, PreparedAs(s.layer, slot), hidden, PreparedOnce(first), 1)
  BY <1>2, <1>11, AddHolds
<1> QED
  BY <1>1, <1>12 DEF kda, first, slot, hidden

\* The hidden slots and the generations after the tail of a layer.
HiddenAfterTail(hidden, generations, source, s) ==
  [i \in {1, 2} |->
     IF i = source THEN [hidden[i] EXCEPT !.state = "free"]
     ELSE IF s.retain
          THEN [state |-> "live", generation |-> generations.hidden + 1, layer |-> s.layer]
          ELSE hidden[i]]
HiddenOnce(generations, s) ==
  IF s.retain THEN [generations EXCEPT !.hidden = @ + 1] ELSE generations

LEMMA TailHolds ==
  ASSUME NEW b, NEW k, NEW p \in PreparedInputs, NEW h \in HiddenSlots,
         NEW g \in Generations, Holds(b, k, p, h, g, 1), p.active, p.slot \in {1, 2},
         NEW s \in Steps, s.prepared
  PROVE  Holds(LayerTail(b, s), k, NotPrepared, HiddenAfterTail(h, g, p.slot, s),
               HiddenOnce(g, s), 0)
<1> DEFINE source == p.slot
           q == [p EXCEPT !.active = FALSE]
           fed == Ffn(b, s, s.retain)
           freed == FreeHidden(fed, source)
           mixed == [freed EXCEPT !.prepared = NotPrepared]
           generation == g.hidden + 1
           live == [state |-> "live", generation |-> generation, layer |-> s.layer]
           c == [mixed EXCEPT !.hidden[3 - source] = live, !.generations.hidden = generation]
<1>1. b.prepared = p /\ b.generations = g
  BY DEF Holds
<1>2. LayerTail(b, s) = IF s.retain THEN c ELSE mixed
  BY <1>1 DEF LayerTail
<1>3. Holds(fed, k, q, h, g, 0)
  <2>1. p.active = TRUE /\ s.prepared = TRUE
    BY DEF PreparedInputs, Steps
  <2> QED
    BY <2>1, FfnHolds
<1> HIDE DEF fed, q
<1>4. Holds(freed, k, q, Freed(h, source), g, 0) /\ Freed(h, source) \in HiddenSlots
  BY <1>3, FreeHolds
<1> HIDE DEF freed
<1>5. Holds(mixed, k, NotPrepared, Freed(h, source), g, 0)
  BY <1>4 DEF Holds, Parts, InUse
<1> HIDE DEF mixed
<1>6. CASE ~s.retain
  <2>1. Freed(h, source) = HiddenAfterTail(h, g, source, s)
    BY <1>6 DEF Freed, HiddenAfterTail
  <2> QED
    BY <1>2, <1>5, <1>6, <2>1 DEF HiddenOnce
<1>7. CASE s.retain
  <2>1. DOMAIN mixed = Parts /\ mixed.hidden = Freed(h, source) /\ mixed.generations = g
    BY <1>5 DEF Holds
  <2>2. /\ c.hidden = [Freed(h, source) EXCEPT ![3 - source] = live]
        /\ c.generations = [g EXCEPT !.hidden = generation]
    BY <2>1 DEF Parts
  <2>3. [Freed(h, source) EXCEPT ![3 - source] = live] = HiddenAfterTail(h, g, source, s)
    <3>1. 3 - source \in {1, 2} /\ \A i \in {1, 2} : i = 3 - source <=> i # source
      OBVIOUS
    <3> HIDE DEF live
    <3>2. [Freed(h, source) EXCEPT ![3 - source] = live]
            = [i \in {1, 2} |-> IF i = 3 - source THEN live ELSE Freed(h, source)[i]]
      BY DEF Freed
    <3>3. HiddenAfterTail(h, g, source, s)
            = [i \in {1, 2} |-> IF i = source THEN Freed(h, source)[i] ELSE live]
      BY <1>7 DEF HiddenAfterTail, Freed, live
    <3> QED
      BY <3>1, <3>2, <3>3
  <2>4. [g EXCEPT !.hidden = generation] = HiddenOnce(g, s)
    BY <1>7 DEF HiddenOnce
  <2>5. /\ DOMAIN c = Parts /\ c.stats = mixed.stats /\ c.kda = mixed.kda
        /\ c.prepared = mixed.prepared
    BY <2>1 DEF Parts
  <2> HIDE DEF c
  <2>6. Holds(c, k, NotPrepared, HiddenAfterTail(h, g, source, s), HiddenOnce(g, s), 0)
    BY <1>5, <2>2, <2>3, <2>4, <2>5 DEF Holds, InUse
  <2> QED
    BY <1>2, <1>7, <2>6
<1> QED
  BY <1>6, <1>7

\* A state that is lost.
Lost(kda, layer) == [l \in Layers |-> IF l = layer THEN 0 ELSE kda[l]]

LEMMA KdaLostHolds ==
  ASSUME NEW b, NEW k \in States, NEW p, NEW h, NEW g, NEW n, Holds(b, k, p, h, g, n),
         NEW s \in Steps
  PROVE  /\ s.mode = "roundtrip" => Holds(KdaLost(b, s), Dropped(k, k[s.layer]), p, h, g, n)
         /\ s.mode # "roundtrip" => Holds(KdaLost(b, s), Lost(k, s.layer), p, h, g, n)
<1>1. b.kda = k /\ DOMAIN b = Parts
  BY DEF Holds
<1>2. ASSUME s.mode = "roundtrip"
      PROVE  Holds(KdaLost(b, s), Dropped(k, k[s.layer]), p, h, g, n)
  <2>1. KdaLost(b, s) = DiscardKda(b, k[s.layer])
    BY <1>1, <1>2 DEF KdaLost
  <2> QED
    BY <2>1, DiscardKdaHolds
<1>3. ASSUME s.mode # "roundtrip"
      PROVE  Holds(KdaLost(b, s), Lost(k, s.layer), p, h, g, n)
  <2> DEFINE c == [b EXCEPT !.kda[s.layer] = 0]
             one == [state_invalidations |-> 1]
  <2>1. KdaLost(b, s) = Add(c, one)
    BY <1>3 DEF KdaLost
  <2>2. \A i \in PreparedCounters : i \notin DOMAIN one
    BY OtherCounters
  <2>3. c.kda = [k EXCEPT ![s.layer] = 0]
    BY <1>1 DEF Parts
  <2>4. [k EXCEPT ![s.layer] = 0] = Lost(k, s.layer)
    BY DEF Lost, States
  <2>5. /\ DOMAIN c = Parts /\ c.stats = b.stats /\ c.prepared = b.prepared
        /\ c.hidden = b.hidden /\ c.generations = b.generations
    BY <1>1 DEF Parts
  <2> HIDE DEF c, one
  <2>6. Holds(c, Lost(k, s.layer), p, h, g, n)
    BY <2>3, <2>4, <2>5 DEF Holds, InUse
  <2> QED
    BY <2>1, <2>2, <2>6, AddHolds
<1> QED
  BY <1>2, <1>3

-----------------------------------------------------------------------------
(* What is on the device before a step and after it.                        *)

Tokens ==
  [call : Nat, state : [Layers -> Nat], prepared : Nat,
   hidden : [generation : Nat, slot : {0, 1, 2}, layer : {0, 1, 2}]]

\* Whether layer l has its state on the device: from its seed to its publication.
InLayers(l) == l = 1 \/ TwoLayers
ActiveBefore(s, l) ==
  \/ s.mode = "seed" /\ (IF Opens(s) THEN l < s.layer ELSE l <= s.layer)
  \/ s.mode = "publish" /\ InLayers(l) /\ (IF Opens(s) THEN l >= s.layer ELSE l > s.layer)
ActiveAfter(s, l) ==
  \/ s.mode = "seed" /\ l <= s.layer
  \/ s.mode = "publish" /\ InLayers(l) /\ l > s.layer

\* Its token is the layer driver's own until that returns.
Withheld(s, l, ops) == l = s.layer /\ s.op \in ops /\ ~OnDevice /\ s.mode = "seed"
TokenBefore(s, l, t) ==
  IF Withheld(s, l, {"prepare", "route", "ffn", "return"}) THEN t.call ELSE t.state[l]
TokenAfter(s, l, t) ==
  IF Withheld(s, l, {"kda", "prepare", "route", "ffn"}) THEN t.call ELSE t.state[l]
StatesBefore(s, k, t) ==
  \A l \in Layers : IF ActiveBefore(s, l) THEN k[l] # 0 /\ k[l] = TokenBefore(s, l, t)
                                          ELSE k[l] = 0
StatesLeft(s, k, t) ==
  \A l \in Layers : IF ActiveAfter(s, l) THEN k[l] # 0 /\ k[l] = TokenAfter(s, l, t)
                                         ELSE k[l] = 0

\* The input prepared for the experts.
Ready(s, p, g, t) ==
  /\ p = PreparedAs(s.layer, IF OnDevice THEN s.layer ELSE 0)
  /\ t.prepared = g.prepared /\ t.prepared # 0
Unprepared(p) == ~p.active /\ p.slot = 0
PreparedBefore(s, p, g, t) ==
  IF Prepares /\ s.op \in {"route", "ffn", "tail"} THEN Ready(s, p, g, t) ELSE Unprepared(p)
PreparedLeft(s, p, g, t) ==
  IF Prepares /\ s.op \in {"prepare", "route", "front"} THEN Ready(s, p, g, t) ELSE Unprepared(p)

\* The hidden vector on the device: an input that a layer has taken, or the
\* first layer's output that the driver has the token of.
Free(h) == \A i \in {1, 2} : h[i].state = "free"
Given(h, layer) == h[layer].state = "prepared" /\ h[3 - layer].state = "free"
Carried(h, t) ==
  /\ t.hidden.slot = 2 /\ t.hidden.layer = 1
  /\ h[2] = [state |-> "live", generation |-> t.hidden.generation, layer |-> 1]
  /\ h[1].state = "free"
HiddenBefore(s, h, t) ==
  /\ OnDevice /\ s.op # "front" => Given(h, s.layer)
  /\ OnDevice /\ s.op = "front" /\ s.layer = 2 => Carried(h, t)
  /\ ~OnDevice \/ (s.op = "front" /\ s.layer = 1) => Free(h)
HiddenLeft(s, h, t) ==
  /\ OnDevice /\ s.op # "tail" => Given(h, s.layer)
  /\ OnDevice /\ s.op = "tail" /\ s.layer = 1 => Carried(h, t)
  /\ ~OnDevice \/ (s.op = "tail" /\ s.layer = 2) => Free(h)

Before(s, k, p, h, g, t) ==
  StatesBefore(s, k, t) /\ PreparedBefore(s, p, g, t) /\ HiddenBefore(s, h, t)
After(s, k, p, h, g, t) ==
  StatesLeft(s, k, t) /\ PreparedLeft(s, p, g, t) /\ HiddenLeft(s, h, t)
Clean(k, p, h) == (\A l \in Layers : k[l] = 0) /\ Unprepared(p) /\ Free(h)

\* The shape of a step.
LEMMA StepShape ==
  ASSUME NEW s, StepOk(s), bench \in Benches
  PROVE  /\ s \in Steps /\ s.op \in Ops /\ s.layer \in {1, 2}
         /\ s.mode \in {"roundtrip", "seed", "publish"}
         /\ s.op \in {"front", "tail"} => OnDevice
         /\ OnDevice => s.op \in {"front", "route", "tail"} /\ TwoLayers
         /\ TwoLayers => Prepares /\ ~SingleSteps /\ s.mode # "roundtrip"
         /\ s.op \in {"kda", "prepare", "return", "front", "tail"} => ~SingleSteps
         /\ ~TwoLayers => s.layer = 1
         /\ SingleSteps => s.mode = "roundtrip" /\ ~Prepares
<1>1. s \in Steps /\ s.op \in Ops /\ s.layer \in {1, 2} /\ s.mode \in {"roundtrip", "seed", "publish"}
  BY DEF StepOk, Steps
<1>2. bench.tool \in {"layer", "moe", "expert", "closure"}
  BY BenchCases
<1>3. OnDevice => s.op \in {"front", "route", "tail"} /\ TwoLayers
  BY DEF StepOk, OnDevice
<1>4. TwoLayers => Prepares /\ ~SingleSteps /\ s.mode # "roundtrip"
  BY DEF StepOk, TwoLayers, Prepares, SingleSteps
<1>5. SingleSteps => s.mode = "roundtrip" /\ ~Prepares /\ s.op \in {"ffn", "group"}
  BY DEF StepOk, TwoLayers, Prepares, SingleSteps
<1>6. ~TwoLayers => s.layer = 1
  BY <1>2 DEF StepOk, TwoLayers
<1>7. s.op \in {"front", "tail"} => OnDevice
  BY <1>2 DEF StepOk, TwoLayers, LayerOps
<1> QED
  BY <1>1, <1>3, <1>4, <1>5, <1>6, <1>7

\* What a step leaves is what the next one needs.
LEMMA LeftIsNeeded ==
  ASSUME NEW s, NEW u, StepOk(s), StepOk(u), bench \in Benches, Follows(s, u),
         NEW k, NEW p, NEW h, NEW g, NEW t, After(s, k, p, h, g, t)
  PROVE  Before(u, k, p, h, g, t)
<1>1. /\ s.layer \in {1, 2} /\ u.layer \in {1, 2} /\ s.op \in Ops /\ u.op \in Ops
      /\ s.mode \in {"roundtrip", "seed", "publish"} /\ u.mode \in {"roundtrip", "seed", "publish"}
  BY StepShape
<1>2. InCall(s, u) \/ BetweenCalls(s, u)
  BY DEF Follows
<1>3. /\ s.op \in {"front", "tail"} => OnDevice
      /\ u.op \in {"front", "tail"} => OnDevice
      /\ OnDevice => s.op \in {"front", "route", "tail"} /\ u.op \in {"front", "route", "tail"}
      /\ OnDevice => TwoLayers
      /\ TwoLayers => Prepares /\ ~SingleSteps /\ s.mode # "roundtrip" /\ u.mode # "roundtrip"
      /\ SingleSteps => ~Prepares /\ s.mode = "roundtrip" /\ u.mode = "roundtrip"
      /\ ~TwoLayers => s.layer = 1 /\ u.layer = 1
  BY StepShape
<1>4. CASE InCall(s, u)
  <2>1. s.layer = u.layer /\ s.mode = u.mode
    BY <1>4 DEF InCall
  <2>2. /\ s.op \in {"kda", "prepare", "route", "ffn", "front"}
        /\ u.op \in {"prepare", "route", "ffn", "return", "tail"}
    BY <1>4 DEF InCall
  <2>3. \A l \in Layers : (ActiveBefore(u, l) <=> ActiveAfter(s, l))
    BY <1>1, <1>3, <2>1, <2>2 DEF ActiveBefore, ActiveAfter, Opens
  <2>4. \A l \in Layers : TokenBefore(u, l, t) = TokenAfter(s, l, t)
    BY <1>1, <1>3, <2>1, <2>2 DEF TokenBefore, TokenAfter, Withheld
  <2>5. StatesBefore(u, k, t)
    BY <2>3, <2>4 DEF StatesBefore, StatesLeft, After
  <2>6. PreparedBefore(u, p, g, t)
    BY <1>1, <1>3, <1>4, <2>1 DEF PreparedBefore, PreparedLeft, After, InCall, Ready
  <2>7. HiddenBefore(u, h, t)
    BY <1>1, <1>3, <2>1, <2>2 DEF HiddenBefore, HiddenLeft, After
  <2> QED
    BY <2>5, <2>6, <2>7 DEF Before
<1>5. CASE BetweenCalls(s, u)
  <2>1. Closes(s) /\ Opens(u)
    BY <1>5 DEF BetweenCalls
  <2>2. /\ s.op \in {"return", "tail"} \/ SingleSteps
        /\ u.op \in {"kda", "front"} \/ SingleSteps
    BY <2>1 DEF Closes, Opens
  <2>3. \A l \in Layers : (ActiveBefore(u, l) <=> ActiveAfter(s, l))
    BY <1>1, <1>3, <1>5, <2>1 DEF ActiveBefore, ActiveAfter, BetweenCalls, InLayers, Layers
  <2>4. \A l \in Layers : ActiveAfter(s, l) => TokenBefore(u, l, t) = TokenAfter(s, l, t)
    BY <1>1, <1>3, <2>2 DEF TokenBefore, TokenAfter, Withheld, ActiveAfter
  <2>5. StatesBefore(u, k, t)
    BY <2>3, <2>4 DEF StatesBefore, StatesLeft, After
  <2>6. PreparedBefore(u, p, g, t)
    BY <1>1, <1>3, <2>2 DEF PreparedBefore, PreparedLeft, After
  <2>7. HiddenBefore(u, h, t)
    <3>1. OnDevice => s.op = "tail" /\ u.op = "front"
      BY <1>3, <2>2
    <3>2. OnDevice => u.layer = 3 - s.layer
      BY <1>1, <1>3, <1>5 DEF BetweenCalls
    <3> QED
      BY <1>1, <3>1, <3>2 DEF HiddenBefore, HiddenLeft, After
  <2> QED
    BY <2>5, <2>6, <2>7 DEF Before
<1> QED
  BY <1>2, <1>4, <1>5

\* The first step needs nothing, and the last one leaves nothing.
LEMMA NothingIsNeeded ==
  ASSUME NEW s, StepOk(s), bench \in Benches, IsFirst(s),
         NEW k, NEW p, NEW h, NEW g, NEW t, Clean(k, p, h)
  PROVE  Before(s, k, p, h, g, t)
<1>1. /\ s.layer = 1 /\ s.mode # "publish" /\ Opens(s) /\ s.op \in Ops
      /\ SingleSteps => ~Prepares /\ s.mode = "roundtrip"
      /\ OnDevice => ~SingleSteps
  BY StepShape DEF IsFirst
<1>2. s.op \in {"kda", "front"} \/ SingleSteps
  BY <1>1 DEF Opens
<1>3. \A l \in Layers : ~ActiveBefore(s, l)
  BY <1>1 DEF ActiveBefore, Layers
<1>4. OnDevice => s.op = "front"
  BY <1>1, <1>2, StepShape
<1> QED
  BY <1>1, <1>2, <1>3, <1>4
     DEF Before, StatesBefore, PreparedBefore, HiddenBefore, Clean, Unprepared

LEMMA NothingIsLeft ==
  ASSUME NEW s, StepOk(s), bench \in Benches, IsLast(s),
         NEW k, NEW p, NEW h, NEW g, NEW t, After(s, k, p, h, g, t)
  PROVE  Clean(k, p, h)
<1>1. /\ s.layer = (IF TwoLayers THEN 2 ELSE 1) /\ s.mode # "seed" /\ Closes(s) /\ s.op \in Ops
      /\ SingleSteps => ~Prepares /\ s.mode = "roundtrip"
      /\ OnDevice => ~SingleSteps /\ TwoLayers
  BY StepShape DEF IsLast
<1>2. s.op \in {"return", "tail"} \/ SingleSteps
  BY <1>1 DEF Closes
<1>3. \A l \in Layers : ~ActiveAfter(s, l)
  BY <1>1 DEF ActiveAfter, Layers, InLayers
<1>4. OnDevice => s.op = "tail"
  BY <1>1, <1>2, StepShape
<1> QED
  BY <1>1, <1>2, <1>3, <1>4
     DEF After, StatesLeft, PreparedLeft, HiddenLeft, Clean, Unprepared

\* Each step, from what is there before it to what it leaves.
LEMMA KdaGoesOn ==
  ASSUME NEW s, StepOk(s), bench \in Benches, s.op = "kda",
         NEW k \in States, NEW p, NEW h, NEW g \in Generations, NEW t \in Tokens,
         Before(s, k, p, h, g, t)
  PROVE  After(s, StatesAfter(k, g, s), p, h, KdaGenerations(g, s),
               [t EXCEPT !.call = IF Retains(s.mode) THEN KdaGenerations(g, s).kda ELSE 0])
<1> DEFINE new == IF Retains(s.mode) THEN KdaGenerations(g, s).kda ELSE 0
           u == [t EXCEPT !.call = new]
           m == StatesAfter(k, g, s)
<1>1. /\ s.layer \in {1, 2} /\ s.mode \in {"roundtrip", "seed", "publish"} /\ ~SingleSteps /\ ~OnDevice
  BY StepShape
<1>2. Opens(s) /\ (Retains(s.mode) <=> s.mode = "seed")
  BY <1>1 DEF Opens, Retains
<1>3. s.mode = "seed" => new = g.kda + 1 /\ new # 0
  BY <1>2 DEF KdaGenerations, Generations
<1>4. u.call = new /\ u.state = t.state /\ u.prepared = t.prepared /\ u.hidden = t.hidden
  BY DEF Tokens
<1>5. \A l \in Layers : m[l] = IF l # s.layer THEN k[l] ELSE IF s.mode = "seed" THEN g.kda + 1 ELSE 0
  BY <1>2 DEF StatesAfter
<1> HIDE DEF new, u, m
<1>6. StatesLeft(s, m, u)
  <2> SUFFICES ASSUME NEW l \in Layers
               PROVE  IF ActiveAfter(s, l) THEN m[l] # 0 /\ m[l] = TokenAfter(s, l, u) ELSE m[l] = 0
    BY DEF StatesLeft
  <2>1. IF ActiveBefore(s, l) THEN k[l] # 0 /\ k[l] = TokenBefore(s, l, t) ELSE k[l] = 0
    BY DEF Before, StatesBefore
  <2>2. CASE l = s.layer
    <3>1. ActiveAfter(s, l) <=> s.mode = "seed"
      BY <1>1, <2>2 DEF ActiveAfter
    <3>2. s.mode = "seed" => TokenAfter(s, l, u) = new
      BY <1>1, <1>4, <2>2 DEF TokenAfter, Withheld
    <3> QED
      BY <1>3, <1>5, <2>2, <3>1, <3>2
  <2>3. CASE l # s.layer
    <3>1. ActiveAfter(s, l) <=> ActiveBefore(s, l)
      BY <1>1, <1>2, <2>3 DEF ActiveAfter, ActiveBefore, Layers
    <3>2. TokenAfter(s, l, u) = t.state[l] /\ TokenBefore(s, l, t) = t.state[l]
      BY <1>4, <2>3 DEF TokenAfter, TokenBefore, Withheld
    <3> QED
      BY <1>5, <2>1, <2>3, <3>1, <3>2
  <2> QED
    BY <2>2, <2>3
<1>7. PreparedLeft(s, p, KdaGenerations(g, s), u)
  BY DEF PreparedLeft, PreparedBefore, Before
<1>8. HiddenLeft(s, h, u)
  BY <1>1 DEF HiddenLeft, HiddenBefore, Before
<1> QED
  BY <1>6, <1>7, <1>8 DEF After, u, new, m

\* Past the step that makes the state, a call leaves it alone.
LEMMA StatesStay ==
  ASSUME NEW s, StepOk(s), bench \in Benches, s.op \notin {"kda", "front", "return"},
         NEW k, NEW t, StatesBefore(s, k, t), NEW u, u.call = t.call, u.state = t.state,
         s.op = "tail" => OnDevice
  PROVE  StatesLeft(s, k, u)
<1>1. /\ s.layer \in {1, 2} /\ s.mode \in {"roundtrip", "seed", "publish"}
      /\ SingleSteps => s.mode = "roundtrip"
      /\ s.op = "group" => SingleSteps
  BY StepShape, BenchCases DEF StepOk, SingleSteps, TwoLayers, LayerOps
<1> SUFFICES ASSUME NEW l \in Layers
             PROVE  IF ActiveAfter(s, l) THEN k[l] # 0 /\ k[l] = TokenAfter(s, l, u) ELSE k[l] = 0
  BY DEF StatesLeft
<1>2. IF ActiveBefore(s, l) THEN k[l] # 0 /\ k[l] = TokenBefore(s, l, t) ELSE k[l] = 0
  BY DEF StatesBefore
<1>3. ActiveAfter(s, l) <=> ActiveBefore(s, l)
  BY <1>1 DEF ActiveAfter, ActiveBefore, Opens
<1>4. s.op \in Ops
  BY StepShape
<1>5. ActiveAfter(s, l) => TokenAfter(s, l, u) = TokenBefore(s, l, t)
  BY <1>1, <1>4 DEF TokenAfter, TokenBefore, Withheld, Ops, ActiveAfter
<1> QED
  BY <1>2, <1>3, <1>5

LEMMA PrepareGoesOn ==
  ASSUME NEW s, StepOk(s), bench \in Benches, s.op = "prepare",
         NEW k, NEW p, NEW h, NEW g \in Generations, NEW t \in Tokens,
         Before(s, k, p, h, g, t)
  PROVE  After(s, k, PreparedAs(s.layer, 0), h, PreparedOnce(g),
               [t EXCEPT !.prepared = PreparedOnce(g).prepared])
<1> DEFINE f == PreparedOnce(g)
           u == [t EXCEPT !.prepared = f.prepared]
<1>1. /\ u.call = t.call /\ u.state = t.state /\ u.prepared = f.prepared /\ u.hidden = t.hidden
      /\ f.prepared # 0
  BY DEF Tokens, PreparedOnce, Generations
<1>2. ~OnDevice /\ Prepares
  BY StepShape DEF StepOk
<1> HIDE DEF f, u
<1>3. StatesLeft(s, k, u)
  BY <1>1, StatesStay DEF Before
<1>4. PreparedLeft(s, PreparedAs(s.layer, 0), f, u)
  BY <1>1, <1>2 DEF PreparedLeft, Ready
<1>5. HiddenLeft(s, h, u)
  BY <1>1, <1>2 DEF HiddenLeft, HiddenBefore, Before
<1> QED
  BY <1>3, <1>4, <1>5 DEF After, u, f

LEMMA RouteGoesOn ==
  ASSUME NEW s, StepOk(s), bench \in Benches, s.op = "route",
         NEW k, NEW p, NEW h, NEW g, NEW t, Before(s, k, p, h, g, t)
  PROVE  After(s, k, p, h, g, t)
<1>1. StatesLeft(s, k, t)
  BY StatesStay DEF Before
<1>2. PreparedLeft(s, p, g, t)
  BY DEF PreparedLeft, PreparedBefore, Before
<1>3. HiddenLeft(s, h, t)
  BY DEF HiddenLeft, HiddenBefore, Before
<1> QED
  BY <1>1, <1>2, <1>3 DEF After

LEMMA FfnGoesOn ==
  ASSUME NEW s, StepOk(s), bench \in Benches, s.op = "ffn",
         NEW k, NEW p \in PreparedInputs, NEW h, NEW g, NEW t \in Tokens,
         Before(s, k, p, h, g, t)
  PROVE  /\ After(s, k, [p EXCEPT !.active = FALSE], h, g, [t EXCEPT !.prepared = 0])
         /\ s.prepared = p.active
<1> DEFINE u == [t EXCEPT !.prepared = 0]
           q == [p EXCEPT !.active = FALSE]
<1>1. u.call = t.call /\ u.state = t.state /\ u.hidden = t.hidden
  BY DEF Tokens
<1>2. ~OnDevice /\ (s.prepared = Prepares)
  BY StepShape DEF StepOk
<1>3. ~q.active /\ q.slot = p.slot
  BY DEF PreparedInputs
<1>4. IF Prepares THEN p = PreparedAs(s.layer, 0) ELSE ~p.active /\ p.slot = 0
  BY <1>2 DEF Before, PreparedBefore, Ready, Unprepared
<1>5. p.slot = 0 /\ (p.active <=> Prepares)
  BY <1>4 DEF PreparedAs
<1> HIDE DEF u, q
<1>6. StatesLeft(s, k, u)
  BY <1>1, StatesStay DEF Before
<1>7. PreparedLeft(s, q, g, u)
  BY <1>3, <1>5 DEF PreparedLeft, Unprepared
<1>8. HiddenLeft(s, h, u)
  BY <1>1, <1>2 DEF HiddenLeft, HiddenBefore, Before
<1>9. s.prepared = p.active
  <2>1. p.active \in BOOLEAN /\ Prepares \in BOOLEAN
    BY DEF PreparedInputs, Prepares, TwoLayers
  <2> QED
    BY <1>2, <1>5, <2>1
<1> QED
  BY <1>6, <1>7, <1>8, <1>9 DEF After, u, q

LEMMA ReturnGoesOn ==
  ASSUME NEW s, StepOk(s), bench \in Benches, s.op = "return",
         NEW k, NEW p, NEW h, NEW g, NEW t \in Tokens, Before(s, k, p, h, g, t)
  PROVE  After(s, k, p, h, g, [t EXCEPT !.call = 0, !.state[s.layer] = t.call])
<1> DEFINE u == [t EXCEPT !.call = 0, !.state[s.layer] = t.call]
<1>1. /\ s.layer \in {1, 2} /\ s.mode \in {"roundtrip", "seed", "publish"}
      /\ ~SingleSteps /\ ~OnDevice
  BY StepShape
<1>2. /\ u.prepared = t.prepared /\ u.hidden = t.hidden
      /\ u.state = [t.state EXCEPT ![s.layer] = t.call]
  BY DEF Tokens
<1>3. \A l \in Layers : u.state[l] = IF l = s.layer THEN t.call ELSE t.state[l]
  <2>1. t.state \in [Layers -> Nat]
    BY DEF Tokens
  <2> QED
    BY <1>1, <1>2, <2>1 DEF Layers
<1> HIDE DEF u
<1>4. StatesLeft(s, k, u)
  <2> SUFFICES ASSUME NEW l \in Layers
               PROVE  IF ActiveAfter(s, l) THEN k[l] # 0 /\ k[l] = TokenAfter(s, l, u)
                                           ELSE k[l] = 0
    BY DEF StatesLeft
  <2>1. IF ActiveBefore(s, l) THEN k[l] # 0 /\ k[l] = TokenBefore(s, l, t) ELSE k[l] = 0
    BY DEF Before, StatesBefore
  <2>2. ActiveAfter(s, l) <=> ActiveBefore(s, l)
    BY <1>1 DEF ActiveAfter, ActiveBefore, Opens
  <2>3. TokenAfter(s, l, u) = u.state[l]
    BY DEF TokenAfter, Withheld
  <2>4. ActiveAfter(s, l) => TokenBefore(s, l, t) = u.state[l]
    BY <1>1, <1>3 DEF TokenBefore, Withheld, ActiveAfter
  <2> QED
    BY <2>1, <2>2, <2>3, <2>4
<1>5. PreparedLeft(s, p, g, u)
  BY DEF PreparedLeft, PreparedBefore, Before
<1>6. HiddenLeft(s, h, u)
  BY <1>1, <1>2 DEF HiddenLeft, HiddenBefore, Before
<1> QED
  BY <1>4, <1>5, <1>6 DEF After, u

LEMMA GroupGoesOn ==
  ASSUME NEW s, StepOk(s), bench \in Benches, s.op = "group",
         NEW k, NEW p, NEW h, NEW g, NEW t, Before(s, k, p, h, g, t)
  PROVE  After(s, k, p, h, g, t)
<1>1. StatesLeft(s, k, t)
  BY StatesStay DEF Before
<1>2. ~OnDevice
  BY StepShape
<1>3. PreparedLeft(s, p, g, t)
  BY DEF PreparedLeft, PreparedBefore, Before
<1>4. HiddenLeft(s, h, t)
  BY <1>2 DEF HiddenLeft, HiddenBefore, Before
<1> QED
  BY <1>1, <1>3, <1>4 DEF After

\* A layer takes the hidden slot of its number.
LEMMA SlotIsLayer ==
  ASSUME NEW s, StepOk(s), bench \in Benches, s.op = "front", NEW h, NEW t, HiddenBefore(s, h, t),
         NEW b
  PROVE  HiddenSlotFor(b, s, t.hidden) = s.layer
<1>1. OnDevice /\ s.layer \in {1, 2}
  BY StepShape
<1> QED
  BY <1>1 DEF HiddenSlotFor, HiddenBefore, Carried

LEMMA FrontGoesOn ==
  ASSUME NEW s, StepOk(s), bench \in Benches, s.op = "front",
         NEW k \in States, NEW p, NEW h \in HiddenSlots, NEW g \in Generations, NEW t \in Tokens,
         Before(s, k, p, h, g, t),
         NEW f, f = PreparedOnce(KdaGenerations(g, s))
  PROVE  After(s, StatesAfter(k, g, s), PreparedAs(s.layer, s.layer), Taken(h, s.layer), f,
               [t EXCEPT !.prepared = f.prepared,
                         !.hidden = IF s.layer = 2 THEN NoTokens.hidden ELSE @,
                         !.state[s.layer] = IF Retains(s.mode) THEN f.kda ELSE 0])
<1> DEFINE new == IF Retains(s.mode) THEN f.kda ELSE 0
           u == [t EXCEPT !.prepared = f.prepared,
                          !.hidden = IF s.layer = 2 THEN NoTokens.hidden ELSE @,
                          !.state[s.layer] = new]
           m == StatesAfter(k, g, s)
           q == PreparedAs(s.layer, s.layer)
           o == Taken(h, s.layer)
<1>1. /\ s.layer \in {1, 2} /\ s.mode \in {"seed", "publish"} /\ ~SingleSteps /\ OnDevice /\ Prepares
  BY StepShape
<1>2. Opens(s) /\ (Retains(s.mode) <=> s.mode = "seed")
  BY <1>1 DEF Opens, Retains
<1>3. s.mode = "seed" => new = g.kda + 1 /\ new # 0
  BY <1>2 DEF KdaGenerations, PreparedOnce, Generations
<1>4. f.prepared # 0
  BY DEF KdaGenerations, PreparedOnce, Generations
<1>5. u.call = t.call /\ u.prepared = f.prepared /\ u.state = [t.state EXCEPT ![s.layer] = new]
  BY DEF Tokens
<1>6. \A l \in Layers : u.state[l] = IF l = s.layer THEN new ELSE t.state[l]
  <2>1. t.state \in [Layers -> Nat]
    BY DEF Tokens
  <2> HIDE DEF u, new
  <2> QED
    BY <1>1, <1>5, <2>1 DEF Layers
<1>7. \A l \in Layers : m[l] = IF l # s.layer THEN k[l] ELSE IF s.mode = "seed" THEN g.kda + 1 ELSE 0
  BY <1>2 DEF StatesAfter
<1> HIDE DEF new, u, m, q, o
<1>8. StatesLeft(s, m, u)
  <2> SUFFICES ASSUME NEW l \in Layers
               PROVE  IF ActiveAfter(s, l) THEN m[l] # 0 /\ m[l] = TokenAfter(s, l, u) ELSE m[l] = 0
    BY DEF StatesLeft
  <2>1. IF ActiveBefore(s, l) THEN k[l] # 0 /\ k[l] = TokenBefore(s, l, t) ELSE k[l] = 0
    BY DEF Before, StatesBefore
  <2>2. TokenAfter(s, l, u) = u.state[l] /\ TokenBefore(s, l, t) = t.state[l]
    BY <1>1 DEF TokenAfter, TokenBefore, Withheld
  <2>3. CASE l = s.layer
    <3>1. ActiveAfter(s, l) <=> s.mode = "seed"
      BY <1>1, <2>3 DEF ActiveAfter
    <3> QED
      BY <1>3, <1>6, <1>7, <2>2, <2>3, <3>1
  <2>4. CASE l # s.layer
    <3>1. ActiveAfter(s, l) <=> ActiveBefore(s, l)
      BY <1>1, <1>2, <2>4 DEF ActiveAfter, ActiveBefore, Layers
    <3> QED
      BY <1>6, <1>7, <2>1, <2>2, <2>4, <3>1
  <2> QED
    BY <2>3, <2>4
<1>9. PreparedLeft(s, q, f, u)
  BY <1>1, <1>4, <1>5 DEF PreparedLeft, Ready, q
<1>10. HiddenLeft(s, o, u)
  <2>1. h[3 - s.layer].state = "free"
    BY <1>1 DEF Before, HiddenBefore, Carried, Free
  <2>2. Given(o, s.layer)
    BY <1>1, <2>1 DEF Given, o, Taken, HiddenSlots
  <2> QED
    BY <1>1, <2>2 DEF HiddenLeft
<1> QED
  BY <1>8, <1>9, <1>10 DEF After, u, new, m, q, o

LEMMA TailGoesOn ==
  ASSUME NEW s, StepOk(s), bench \in Benches, s.op = "tail",
         NEW k, NEW p, NEW h \in HiddenSlots, NEW g \in Generations, NEW t \in Tokens,
         Before(s, k, p, h, g, t),
         NEW f, f = HiddenOnce(g, s)
  PROVE  /\ p.active /\ p.slot = s.layer /\ s.prepared
         /\ After(s, k, NotPrepared, HiddenAfterTail(h, g, p.slot, s), f,
                  [t EXCEPT !.prepared = 0,
                            !.hidden = IF s.retain
                                       THEN [generation |-> f.hidden, layer |-> s.layer,
                                             slot |-> 3 - p.slot]
                                       ELSE NoTokens.hidden])
<1> DEFINE hidden == IF s.retain
                     THEN [generation |-> f.hidden, layer |-> s.layer, slot |-> 3 - p.slot]
                     ELSE NoTokens.hidden
           u == [t EXCEPT !.prepared = 0, !.hidden = hidden]
           o == HiddenAfterTail(h, g, p.slot, s)
<1>1. /\ s.layer \in {1, 2} /\ OnDevice /\ Prepares /\ s.prepared /\ (s.retain <=> s.layer = 1)
  <2>1. s.retain \in BOOLEAN /\ s.retain = (s.layer = 1) /\ s.prepared
    BY DEF StepOk, Steps
  <2>2. s.retain <=> s.layer = 1
    BY <2>1
  <2> QED
    BY <2>1, <2>2, StepShape
<1>2. p = PreparedAs(s.layer, s.layer)
  BY <1>1 DEF Before, PreparedBefore, Ready
<1>3. p.active /\ p.slot = s.layer
  BY <1>2 DEF PreparedAs
<1>4. u.call = t.call /\ u.state = t.state /\ u.hidden = hidden
  BY DEF Tokens
<1>5. h[s.layer].state = "prepared" /\ h[3 - s.layer].state = "free"
  BY <1>1 DEF Before, HiddenBefore, Given
<1> HIDE DEF u
<1>6. StatesLeft(s, k, u)
  BY <1>1, <1>4, StatesStay DEF Before
<1>7. PreparedLeft(s, NotPrepared, f, u)
  BY DEF PreparedLeft, Unprepared, NotPrepared
<1>8. CASE s.layer = 1
  <2>1. s.retain /\ hidden.slot = 2 /\ hidden.layer = 1 /\ hidden.generation = g.hidden + 1
    BY <1>1, <1>3, <1>8 DEF HiddenOnce, Generations
  <2>2. /\ o[2] = [state |-> "live", generation |-> g.hidden + 1, layer |-> 1]
        /\ o[1].state = "free"
    BY <1>3, <1>8, <2>1 DEF HiddenAfterTail, HiddenSlots
  <2> HIDE DEF hidden, o
  <2>3. Carried(o, u)
    BY <1>4, <2>1, <2>2 DEF Carried
  <2> QED
    BY <1>1, <1>3, <1>6, <1>7, <1>8, <2>3 DEF After, HiddenLeft, u, hidden, o
<1>9. CASE s.layer = 2
  <2>1. ~s.retain
    BY <1>1, <1>9
  <2>2. o[2].state = "free" /\ o[1].state = "free"
    BY <1>3, <1>5, <1>9, <2>1 DEF HiddenAfterTail, HiddenSlots
  <2> HIDE DEF hidden, o
  <2>3. Free(o)
    BY <2>2 DEF Free
  <2> QED
    BY <1>1, <1>3, <1>6, <1>7, <1>9, <2>3 DEF After, HiddenLeft, u, hidden, o
<1> QED
  BY <1>1, <1>8, <1>9

\* No call is refused.
LEMMA CallsAreAdmitted ==
  ASSUME NEW s, StepOk(s), bench \in Benches,
         Before(s, backend.kda, backend.prepared, backend.hidden, backend.generations, held)
  PROVE  Admits(backend, s)
<1> DEFINE b == backend
<1>1. /\ s.layer \in {1, 2} /\ s.op \in Ops /\ s.mode \in {"roundtrip", "seed", "publish"}
      /\ s.op \in {"front", "tail"} => OnDevice
      /\ TwoLayers => Prepares
      /\ OnDevice => TwoLayers
      /\ ~TwoLayers => s.layer = 1
  BY StepShape
<1>2. s.op \in {"kda", "front"} => KdaAdmits(b, s, held.state[s.layer])
  <2> HAVE s.op \in {"kda", "front"}
  <2>1. Opens(s) /\ s.layer \in Layers /\ InLayers(s.layer)
    BY <1>1 DEF Opens, Layers, InLayers
  <2>2. ActiveBefore(s, s.layer) <=> s.mode = "publish"
    BY <1>1, <2>1 DEF ActiveBefore
  <2>3. TokenBefore(s, s.layer, held) = held.state[s.layer]
    BY DEF TokenBefore, Withheld
  <2>4. IF ActiveBefore(s, s.layer)
        THEN b.kda[s.layer] # 0 /\ b.kda[s.layer] = TokenBefore(s, s.layer, held)
        ELSE b.kda[s.layer] = 0
    BY <2>1 DEF Before, StatesBefore
  <2> QED
    BY <1>1, <2>2, <2>3, <2>4 DEF KdaAdmits, Continues
<1>3. s.op = "ffn" => (s.prepared => PreparedAdmits(b, s, held.prepared))
  <2> HAVE s.op = "ffn"
  <2>1. s.prepared = Prepares
    BY DEF StepOk
  <2>2. s.prepared => Prepares
    BY <2>1
  <2>3. Prepares => PreparedAdmits(b, s, held.prepared)
    BY DEF Before, PreparedBefore, Ready, PreparedAs, PreparedAdmits
  <2> QED
    BY <2>2, <2>3
<1>4. s.op = "front" => FrontAdmits(b, s, held.hidden)
  <2> HAVE s.op = "front"
  <2>1. ~b.prepared.active
    BY DEF Before, PreparedBefore, Unprepared
  <2>2. CASE s.layer = 1
    BY <2>1, <2>2 DEF FrontAdmits, Before, HiddenBefore, Free
  <2>3. CASE s.layer = 2
    <3>1. Carried(b.hidden, held)
      BY <1>1, <2>3 DEF Before, HiddenBefore
    <3> QED
      BY <2>1, <2>3, <3>1 DEF FrontAdmits, Carried
  <2> QED
    BY <1>1, <2>2, <2>3
<1>5. s.op = "tail" => TailAdmits(b, s, held.prepared)
  <2> HAVE s.op = "tail"
  <2>1. Ready(s, b.prepared, b.generations, held) /\ Given(b.hidden, s.layer)
    BY <1>1 DEF Before, PreparedBefore, HiddenBefore
  <2>2. b.prepared.active /\ b.prepared.layer = s.layer /\ b.prepared.slot = s.layer
    BY <1>1, <2>1 DEF Ready, PreparedAs
  <2> QED
    BY <1>1, <2>1, <2>2 DEF TailAdmits, PreparedAdmits, Ready, Given
<1> QED
  BY <1>1, <1>2, <1>3, <1>4, <1>5 DEF Admits, Ops

-----------------------------------------------------------------------------
(* What a step that fails leaves.                                           *)

\* A state whose token is still held, a hidden slot that is free or whose token
\* is, and a prepared input that the driver of a layer is about to discard.
StatesKept(k, t) == \A l \in Layers : k[l] # 0 => k[l] = t.state[l] \/ k[l] = t.call
Vacant(h, i, t) ==
  \/ h[i].state = "free"
  \/ /\ t.hidden.slot = i
     /\ h[i] = [state |-> "live", generation |-> t.hidden.generation, layer |-> t.hidden.layer]
Kept(s, k, p, h, g, t) ==
  /\ StatesKept(k, t)
  /\ Unprepared(p) \/ (s.op \in {"route", "ffn"} /\ Ready(s, p, g, t))
  /\ ~OnDevice => Free(h)
  /\ OnDevice /\ p.active => Given(h, s.layer)
  /\ OnDevice /\ ~p.active => \A i \in {1, 2} : Vacant(h, i, t)
\* A backend that keeps no more than that after step s.
Keeps(b, s, t) ==
  \E k \in States, p \in PreparedInputs, h \in HiddenSlots, g \in Generations :
    Holds(b, k, p, h, g, IF p.active THEN 1 ELSE 0) /\ Kept(s, k, p, h, g, t)

LEMMA StatesAreKept ==
  ASSUME NEW s, NEW k, NEW t, StatesBefore(s, k, t)
  PROVE  StatesKept(k, t)
BY DEF StatesBefore, StatesKept, TokenBefore

LEMMA FewerAreKept ==
  ASSUME NEW k \in States, NEW t, StatesKept(k, t)
  PROVE  /\ \A token : Dropped(k, token) \in States /\ StatesKept(Dropped(k, token), t)
         /\ \A layer : Lost(k, layer) \in States /\ StatesKept(Lost(k, layer), t)
BY DEF States, StatesKept, Dropped, Lost

LEMMA KdaFails ==
  ASSUME NEW s, StepOk(s), bench \in Benches, s.op = "kda",
         NEW b, NEW k \in States, NEW p \in PreparedInputs, NEW h \in HiddenSlots,
         NEW g \in Generations, Holds(b, k, p, h, g, IF p.active THEN 1 ELSE 0),
         NEW t \in Tokens, Before(s, k, p, h, g, t), NEW point
  PROVE  Keeps(Failed(b, s, point), s, t)
<1>1. /\ StatesKept(k, t) /\ Unprepared(p) /\ Free(h) /\ ~OnDevice /\ s \in Steps
  BY StatesAreKept, StepShape DEF Before, PreparedBefore, HiddenBefore
<1>2. \A m : StatesKept(m, t) => Kept(s, m, p, h, g, t)
  BY <1>1 DEF Kept
<1>3. Failed(b, s, point) \in {b, KdaLost(b, s)}
  BY DEF Failed
<1>4. CASE Failed(b, s, point) = b
  BY <1>1, <1>2, <1>4 DEF Keeps
<1>5. CASE Failed(b, s, point) = KdaLost(b, s)
  <2>1. PICK m \in States : StatesKept(m, t)
                            /\ Holds(KdaLost(b, s), m, p, h, g, IF p.active THEN 1 ELSE 0)
    BY <1>1, KdaLostHolds, FewerAreKept
  <2> QED
    BY <1>2, <1>5, <2>1 DEF Keeps
<1> QED
  BY <1>3, <1>4, <1>5

LEMMA PrepareFails ==
  ASSUME NEW s, StepOk(s), bench \in Benches, s.op = "prepare",
         NEW b, NEW k \in States, NEW p \in PreparedInputs, NEW h \in HiddenSlots,
         NEW g \in Generations, Holds(b, k, p, h, g, IF p.active THEN 1 ELSE 0),
         NEW t \in Tokens, Before(s, k, p, h, g, t), NEW point
  PROVE  Keeps(Failed(b, s, point), s, t)
<1>1. /\ StatesKept(k, t) /\ Unprepared(p) /\ Free(h) /\ ~OnDevice
  BY StatesAreKept, StepShape DEF Before, PreparedBefore, HiddenBefore
<1>2. Kept(s, k, p, h, g, t)
  BY <1>1 DEF Kept
<1>3. ~p.active /\ "prepared_invalidations" \in Ends
  BY <1>1 DEF Unprepared, Ends
<1>4. DropPrepared(b, "prepared_invalidations") = b
  BY <1>3, DropHolds
<1>5. Failed(b, s, point) = b
  BY <1>4 DEF Failed
<1> QED
  BY <1>2, <1>5 DEF Keeps

LEMMA RouteFails ==
  ASSUME NEW s, StepOk(s), bench \in Benches, s.op \in {"route", "group"},
         NEW b, NEW k \in States, NEW p \in PreparedInputs, NEW h \in HiddenSlots,
         NEW g \in Generations, Holds(b, k, p, h, g, IF p.active THEN 1 ELSE 0),
         NEW t \in Tokens, Before(s, k, p, h, g, t), NEW point
  PROVE  Keeps(Failed(b, s, point), s, t)
<1>1. /\ OnDevice => s.op = "route" /\ Prepares
  BY StepShape
<1>2. StatesKept(k, t)
  BY StatesAreKept DEF Before
<1>3. Unprepared(p) \/ (s.op = "route" /\ Ready(s, p, g, t))
  BY DEF Before, PreparedBefore
<1>4. OnDevice => p.active /\ Given(h, s.layer)
  BY <1>1 DEF Before, PreparedBefore, HiddenBefore, Ready, PreparedAs
<1>5. ~OnDevice => Free(h)
  BY DEF Before, HiddenBefore
<1>6. Kept(s, k, p, h, g, t)
  BY <1>2, <1>3, <1>4, <1>5 DEF Kept
<1>7. Failed(b, s, point) = b
  BY DEF Failed
<1> QED
  BY <1>6, <1>7 DEF Keeps

LEMMA FfnFails ==
  ASSUME NEW s, StepOk(s), bench \in Benches, s.op = "ffn",
         NEW b, NEW k \in States, NEW p \in PreparedInputs, NEW h \in HiddenSlots,
         NEW g \in Generations, Holds(b, k, p, h, g, IF p.active THEN 1 ELSE 0),
         NEW t \in Tokens, Before(s, k, p, h, g, t), NEW point
  PROVE  Keeps(Failed(b, s, point), s, t)
<1> DEFINE q == [p EXCEPT !.active = FALSE]
<1>1. /\ StatesKept(k, t) /\ Free(h) /\ ~OnDevice
  BY StatesAreKept, StepShape DEF Before, HiddenBefore
<1>2. s.prepared = p.active
  BY FfnGoesOn
<1>3. Unprepared(p) \/ Ready(s, p, g, t)
  BY DEF Before, PreparedBefore
<1>4. Kept(s, k, p, h, g, t)
  BY <1>1, <1>3 DEF Kept
<1>5. Unprepared(q) /\ q \in PreparedInputs
  <2>1. p.slot = 0
    BY <1>1, <1>3 DEF Unprepared, Ready, PreparedAs
  <2>2. q.slot = p.slot /\ q.active = FALSE /\ q \in PreparedInputs
    BY DEF PreparedInputs
  <2> QED
    BY <2>1, <2>2 DEF Unprepared
<1>6. Kept(s, k, q, h, g, t)
  BY <1>1, <1>5 DEF Kept
<1>7. CASE ~p.active
  <2>1. "prepared_invalidations" \in Ends
    BY DEF Ends
  <2>2. DropPrepared(b, "prepared_invalidations") = b
    BY <1>7, <2>1, DropHolds
  <2>3. Failed(b, s, point) = b
    BY <1>2, <1>7, <2>2 DEF Failed
  <2> QED
    BY <1>4, <2>3 DEF Keeps
<1>8. CASE p.active
  <2>1. Failed(b, s, point) \in {b, Consume(b)}
    BY <1>2, <1>8 DEF Failed
  <2>2. Holds(b, k, p, h, g, 1)
    BY <1>8
  <2>3. Holds(Consume(b), k, q, h, g, 1 - 1)
    BY <2>2, ConsumeHolds
  <2>4. ~q.active
    BY <1>5 DEF Unprepared
  <2> HIDE DEF q
  <2>5. Holds(Consume(b), k, q, h, g, IF q.active THEN 1 ELSE 0)
    BY <2>3, <2>4
  <2> QED
    BY <1>4, <1>5, <1>6, <2>1, <2>5 DEF Keeps
<1> QED
  BY <1>7, <1>8

LEMMA FrontFails ==
  ASSUME NEW s, StepOk(s), bench \in Benches, s.op = "front",
         NEW b, NEW k \in States, NEW p \in PreparedInputs, NEW h \in HiddenSlots,
         NEW g \in Generations, Holds(b, k, p, h, g, IF p.active THEN 1 ELSE 0),
         held \in Tokens, Before(s, k, p, h, g, held), NEW point \in FaultPoints(s)
  PROVE  Keeps(Failed(b, s, point), s, held)
<1> DEFINE slot == s.layer
           o == Freed(h, slot)
           n == IF p.active THEN 1 ELSE 0
<1>1. /\ s \in Steps /\ s.layer \in {1, 2} /\ s.mode \in {"seed", "publish"} /\ OnDevice
  BY StepShape
<1>2. StatesKept(k, held) /\ Unprepared(p) /\ HiddenBefore(s, h, held)
  BY StatesAreKept DEF Before, PreparedBefore
<1>3. HiddenSlotFor(b, s, held.hidden) = slot /\ slot \in {0, 1, 2}
  BY <1>1, <1>2, SlotIsLayer
<1>4. \A i \in {1, 2} : Vacant(h, i, held)
  BY <1>1, <1>2 DEF HiddenBefore, Carried, Free, Vacant
<1>5. o \in HiddenSlots /\ \A i \in {1, 2} : Vacant(o, i, held)
  <2>1. o \in HiddenSlots
    BY <1>1 DEF Freed, HiddenSlots
  <2>2. \A i \in {1, 2} : IF i = slot THEN o[i].state = "free" ELSE o[i] = h[i]
    BY DEF Freed, HiddenSlots
  <2> HIDE DEF o
  <2> QED
    BY <1>4, <2>1, <2>2 DEF Vacant
<1>6. \A m, e, f : StatesKept(m, held) /\ (\A i \in {1, 2} : Vacant(e, i, held))
                     => Kept(s, m, p, e, f, held)
  BY <1>1, <1>2 DEF Kept, Unprepared
<1> HIDE DEF slot, o, n
<1>7. Failed(b, s, point) = FrontFailed(b, s, point, slot)
  <2>1. point # "refused"
    BY DEF FaultPoints
  <2> QED
    BY <1>3, <2>1 DEF Failed
<1>8. \A c : \A m \in States, f \in Generations :
        Holds(c, m, p, h, f, n) /\ StatesKept(m, held) => Keeps(FreeHidden(c, slot), s, held)
  <2> SUFFICES ASSUME NEW c, NEW m \in States, NEW f \in Generations,
                      Holds(c, m, p, h, f, n), StatesKept(m, held)
               PROVE  Keeps(FreeHidden(c, slot), s, held)
    OBVIOUS
  <2>1. Holds(FreeHidden(c, slot), m, p, o, f, n)
    BY <1>3, FreeHolds DEF o
  <2>2. Kept(s, m, p, o, f, held)
    BY <1>5, <1>6
  <2> QED
    BY <1>5, <2>1, <2>2 DEF Keeps, n
<1>9. Holds(b, k, p, h, g, n)
  BY DEF n
<1>10. point \in {"early", "input", "kda early", "kda late", "after kda"}
  BY DEF FaultPoints
<1>11. CASE point = "early"
  <2>1. Failed(b, s, point) = b
    BY <1>7, <1>11 DEF FrontFailed
  <2>2. Kept(s, k, p, h, g, held)
    BY <1>2, <1>4, <1>6
  <2> QED
    BY <1>9, <2>1, <2>2 DEF Keeps, n
<1>12. CASE point \in {"input", "kda early"}
  <2>1. Failed(b, s, point) = FreeHidden(b, slot)
    BY <1>7, <1>12 DEF FrontFailed
  <2> QED
    BY <1>2, <1>8, <1>9, <2>1
<1>13. CASE point = "kda late"
  <2>1. Failed(b, s, point) = FreeHidden(KdaLost(b, s), slot)
    BY <1>7, <1>13 DEF FrontFailed
  <2>2. Holds(KdaLost(b, s), Lost(k, s.layer), p, h, g, n)
    BY <1>1, <1>9, KdaLostHolds
  <2>3. Lost(k, s.layer) \in States /\ StatesKept(Lost(k, s.layer), held)
    BY <1>2, FewerAreKept
  <2> QED
    BY <1>8, <2>1, <2>2, <2>3
<1>14. CASE point = "after kda"
  <2> DEFINE c == Kda(b, s, TRUE)
             m == StatesAfter(k, g, s)
             f == KdaGenerations(g, s)
             token == m[s.layer]
  <2>1. Holds(c, m, p, h, f, n) /\ m \in States /\ f \in Generations
    BY <1>1, <1>9, KdaHolds, AfterKdaTyped
  <2>2. Failed(b, s, point) = FreeHidden(DiscardKda(c, token), slot)
    <3>1. c.kda[s.layer] = token
      BY <2>1 DEF Holds
    <3>2. Failed(b, s, point) = FreeHidden(DiscardKda(c, c.kda[s.layer]), slot)
      BY <1>7, <1>14 DEF FrontFailed
    <3> QED
      BY <3>1, <3>2
  <2>3. \A l \in Layers : l # s.layer => m[l] = k[l]
    BY DEF StatesAfter
  <2> HIDE DEF c, m, f
  <2>4. Holds(DiscardKda(c, token), Dropped(m, token), p, h, f, n) /\ Dropped(m, token) \in States
    BY <2>1, DiscardKdaHolds
  <2>5. StatesKept(Dropped(m, token), held)
    <3> SUFFICES ASSUME NEW l \in Layers, Dropped(m, token)[l] # 0
                 PROVE  Dropped(m, token)[l] = held.state[l] \/ Dropped(m, token)[l] = held.call
      BY DEF StatesKept
    <3>1. Dropped(m, token)[l] = m[l] /\ ~(token # 0 /\ m[l] = token)
      BY DEF Dropped
    <3>2. l # s.layer
      BY <3>1
    <3> QED
      BY <1>2, <2>3, <3>1, <3>2 DEF StatesKept
  <2> QED
    BY <1>8, <2>1, <2>2, <2>4, <2>5
<1> QED
  BY <1>10, <1>11, <1>12, <1>13, <1>14

\* A prepared input that is dropped frees the hidden slot it was made from.
LEMMA GivenIsFreed ==
  ASSUME NEW h \in HiddenSlots, NEW layer \in {1, 2}, Given(h, layer)
  PROVE  Free(Freed(h, layer)) /\ Freed(h, layer) \in HiddenSlots
<1>1. /\ \A i \in {1, 2} : i = layer \/ i = 3 - layer
      /\ 3 - layer \in {1, 2} /\ 3 - layer # layer
  OBVIOUS
<1>2. Freed(h, layer)[layer].state = "free" /\ Freed(h, layer)[3 - layer] = h[3 - layer]
  BY <1>1 DEF Freed, HiddenSlots
<1>3. Freed(h, layer) \in HiddenSlots
  BY DEF Freed, HiddenSlots
<1> QED
  BY <1>1, <1>2, <1>3 DEF Free, Given

LEMMA TailFails ==
  ASSUME NEW s, StepOk(s), bench \in Benches, s.op = "tail",
         NEW b, NEW k \in States, NEW p \in PreparedInputs, NEW h \in HiddenSlots,
         NEW g \in Generations, Holds(b, k, p, h, g, IF p.active THEN 1 ELSE 0),
         held \in Tokens, Before(s, k, p, h, g, held), NEW point \in FaultPoints(s)
  PROVE  Keeps(Failed(b, s, point), s, held)
<1> DEFINE o == Freed(h, s.layer)
           q == [p EXCEPT !.active = FALSE]
           left == [FreeHidden(Consume(b), b.prepared.slot) EXCEPT !.prepared = NotPrepared]
<1>1. s.layer \in {1, 2} /\ OnDevice /\ Prepares
  BY StepShape
<1>2. /\ StatesKept(k, held) /\ p = PreparedAs(s.layer, s.layer)
      /\ held.prepared = g.prepared /\ Given(h, s.layer)
  BY <1>1, StatesAreKept DEF Before, PreparedBefore, HiddenBefore, Ready
<1>3. p.active /\ p.slot = s.layer /\ Holds(b, k, p, h, g, 1)
  BY <1>2 DEF PreparedAs
<1>4. Free(o) /\ o \in HiddenSlots
  BY <1>1, <1>2, GivenIsFreed
<1>5. NotPrepared \in PreparedInputs /\ Unprepared(NotPrepared) /\ ~NotPrepared.active
  BY DEF NotPrepared, PreparedInputs, Unprepared
<1> HIDE DEF o
<1>6. Kept(s, k, NotPrepared, o, g, held)
  BY <1>2, <1>4, <1>5 DEF Kept, Free, Vacant
<1>7. \A c : Holds(c, k, NotPrepared, o, g, 0) => Keeps(c, s, held)
  BY <1>4, <1>5, <1>6 DEF Keeps
<1>8. b.prepared = p /\ b.generations = g
  BY DEF Holds
<1>9. CASE point = "early"
  <2>1. Failed(b, s, point) = DropPrepared(b, "prepared_discards")
    BY <1>2, <1>8, <1>9 DEF Failed, DiscardPrepared
  <2>2. "prepared_discards" \in Ends
    BY DEF Ends
  <2>3. Holds(DropPrepared(b, "prepared_discards"), k, NotPrepared, Freed(h, p.slot), g, 1 - 1)
    BY <1>3, <2>2, DropHolds
  <2> QED
    BY <1>3, <1>7, <2>1, <2>3 DEF o
<1>10. CASE point = "late"
  <2>1. Failed(b, s, point) = left
    BY <1>10 DEF Failed
  <2>2. Holds(Consume(b), k, q, h, g, 1 - 1)
    BY <1>3, ConsumeHolds
  <2> DEFINE freed == FreeHidden(Consume(b), s.layer)
  <2>3. Holds(freed, k, q, o, g, 0)
    BY <1>1, <2>2, FreeHolds DEF o
  <2>4. left = [freed EXCEPT !.prepared = NotPrepared]
    BY <1>3, <1>8
  <2> HIDE DEF freed, left
  <2>5. Holds(left, k, NotPrepared, o, g, 0)
    BY <2>3, <2>4 DEF Holds, Parts, InUse
  <2> QED
    BY <1>7, <2>1, <2>5
<1>11. point \in {"early", "late"}
  BY DEF FaultPoints
<1> QED
  BY <1>9, <1>10, <1>11

\* A step that fails keeps no more than what its driver can discard.
LEMMA FailureKeeps ==
  ASSUME NEW s, StepOk(s), bench \in Benches,
         NEW b, NEW k \in States, NEW p \in PreparedInputs, NEW h \in HiddenSlots,
         NEW g \in Generations, Holds(b, k, p, h, g, IF p.active THEN 1 ELSE 0),
         held \in Tokens, Before(s, k, p, h, g, held), NEW point \in FaultPoints(s)
  PROVE  Keeps(Failed(b, s, point), s, held)
<1>1. s.op \in {"kda", "prepare", "route", "ffn", "return", "front", "tail", "group"}
  BY StepShape DEF Ops
<1>2. s.op # "return"
  BY DEF FaultPoints
<1> QED
  BY <1>1, <1>2, KdaFails, PrepareFails, RouteFails, FfnFails, FrontFails, TailFails

\* What the driver of a layer leaves: states and hidden vectors whose tokens
\* its caller holds.
Remnant(k, p, h, t) ==
  /\ \A l \in Layers : k[l] # 0 => k[l] = t.state[l]
  /\ Unprepared(p)
  /\ ~OnDevice => Free(h)
  /\ \A i \in {1, 2} : Vacant(h, i, t)

LEMMA LayerCleanupLeaves ==
  ASSUME NEW s, StepOk(s), bench \in Benches, held \in Tokens, NEW b, Keeps(b, s, held)
  PROVE  \E k \in States, p \in PreparedInputs, h \in HiddenSlots, g \in Generations :
           Holds(LayerCleanup(b, s), k, p, h, g, 0) /\ Remnant(k, p, h, held)
<1>1. PICK k \in States, p \in PreparedInputs, h \in HiddenSlots, g \in Generations :
        Holds(b, k, p, h, g, IF p.active THEN 1 ELSE 0) /\ Kept(s, k, p, h, g, held)
  BY DEF Keeps
<1> DEFINE unprepared == IF s.op \in {"route", "ffn"} /\ held.prepared # 0
                         THEN DiscardPrepared(b, held.prepared) ELSE b
<1>2. LayerCleanup(b, s) = DiscardKda(unprepared, held.call)
  BY DEF LayerCleanup
<1>3. "prepared_discards" \in Ends /\ b.generations = g
  BY <1>1 DEF Ends, Holds
<1>4. \E q \in PreparedInputs, o \in HiddenSlots :
        /\ Holds(unprepared, k, q, o, g, 0)
        /\ Unprepared(q) /\ (~OnDevice => Free(o)) /\ \A i \in {1, 2} : Vacant(o, i, held)
  <2>1. Free(h) => \A i \in {1, 2} : Vacant(h, i, held)
    BY DEF Free, Vacant
  <2>2. CASE ~p.active
    <3>1. DropPrepared(b, "prepared_discards") = b
      BY <1>1, <1>3, <2>2, DropHolds
    <3>2. unprepared = b
      BY <3>1 DEF DiscardPrepared
    <3>3. Holds(b, k, p, h, g, 0)
      BY <1>1, <2>2
    <3>4. Unprepared(p)
      BY <1>1, <2>2 DEF Kept, Ready, PreparedAs
    <3>5. (~OnDevice => Free(h)) /\ \A i \in {1, 2} : Vacant(h, i, held)
      BY <1>1, <2>1, <2>2 DEF Kept
    <3> HIDE DEF unprepared
    <3> QED
      BY <3>2, <3>3, <3>4, <3>5
  <2>3. CASE p.active
    <3>1. s.op \in {"route", "ffn"} /\ Ready(s, p, g, held)
      BY <1>1, <2>3 DEF Kept, Unprepared
    <3>2. held.prepared = g.prepared /\ held.prepared # 0
          /\ p.slot = (IF OnDevice THEN s.layer ELSE 0) /\ s.layer \in {1, 2}
      BY <3>1, StepShape DEF Ready, PreparedAs
    <3>3. unprepared = DropPrepared(b, "prepared_discards")
      BY <1>3, <3>1, <3>2 DEF DiscardPrepared
    <3> DEFINE o == Freed(h, p.slot)
    <3>4. Holds(unprepared, k, NotPrepared, o, g, 0)
      <4>1. Holds(b, k, p, h, g, 1)
        BY <1>1, <2>3
      <4>2. Holds(DropPrepared(b, "prepared_discards"), k, NotPrepared, o, g, 1 - 1)
        BY <1>3, <2>3, <4>1, DropHolds
      <4> QED
        BY <3>3, <4>2
    <3>5. NotPrepared \in PreparedInputs /\ Unprepared(NotPrepared)
      BY DEF NotPrepared, PreparedInputs, Unprepared
    <3>6. o \in HiddenSlots /\ Free(o)
      <4>1. CASE OnDevice
        <5>1. Given(h, s.layer) /\ p.slot = s.layer
          BY <1>1, <2>3, <3>2, <4>1 DEF Kept
        <5> QED
          BY <3>2, <5>1, GivenIsFreed
      <4>2. CASE ~OnDevice
        <5>1. Free(h) /\ p.slot = 0
          BY <1>1, <3>2, <4>2 DEF Kept
        <5>2. o = h
          BY <5>1 DEF Freed, HiddenSlots
        <5> HIDE DEF o
        <5> QED
          BY <5>1, <5>2
      <4> QED
        BY <4>1, <4>2
    <3> HIDE DEF o, unprepared
    <3>7. \A i \in {1, 2} : Vacant(o, i, held)
      BY <3>6 DEF Free, Vacant
    <3> QED
      BY <3>4, <3>5, <3>6, <3>7
  <2> QED
    BY <2>2, <2>3
<1> HIDE DEF unprepared
<1>5. PICK q \in PreparedInputs, o \in HiddenSlots :
        /\ Holds(unprepared, k, q, o, g, 0)
        /\ Unprepared(q) /\ (~OnDevice => Free(o)) /\ \A i \in {1, 2} : Vacant(o, i, held)
  BY <1>4
<1> DEFINE m == Dropped(k, held.call)
<1>6. Holds(LayerCleanup(b, s), m, q, o, g, 0) /\ m \in States
  BY <1>2, <1>5, DiscardKdaHolds
<1>7. \A l \in Layers : m[l] # 0 => m[l] = held.state[l]
  <2> SUFFICES ASSUME NEW l \in Layers, m[l] # 0 PROVE m[l] = held.state[l]
    OBVIOUS
  <2>1. m[l] = k[l] /\ ~(held.call # 0 /\ k[l] = held.call)
    BY DEF Dropped
  <2>2. k[l] = held.state[l] \/ k[l] = held.call
    BY <1>1, <2>1 DEF Kept, StatesKept
  <2> QED
    BY <2>1, <2>2
<1> HIDE DEF m
<1>8. Remnant(m, q, o, held)
  BY <1>5, <1>7 DEF Remnant
<1> QED
  BY <1>6, <1>8

LEMMA TwoLayerCleanupLeaves ==
  ASSUME NEW b, NEW k \in States, NEW p \in PreparedInputs, NEW h \in HiddenSlots,
         NEW g \in Generations, Holds(b, k, p, h, g, 0), held \in Tokens, Remnant(k, p, h, held)
  PROVE  \E m \in States, o \in HiddenSlots :
           Holds(TwoLayerCleanup(b), m, p, o, g, 0) /\ Clean(m, p, o)
<1> DEFINE c == DiscardHidden(b, held.hidden)
           slot == held.hidden.slot
           mine == /\ slot # 0 /\ h[slot].state = "live"
                   /\ h[slot].generation = held.hidden.generation
                   /\ h[slot].layer = held.hidden.layer
<1>1. slot \in {0, 1, 2}
  BY DEF Tokens
<1>2. /\ mine => Holds(c, k, p, Freed(h, slot), g, 0)
      /\ ~mine => c = b
  BY <1>1, DiscardHiddenHolds
<1>3. \A i \in {1, 2} : h[i].state = "free" \/ (i = slot /\ mine)
  BY DEF Remnant, Vacant
<1>4. \E o \in HiddenSlots : Holds(c, k, p, o, g, 0) /\ Free(o)
  <2>1. CASE mine
    <3>1. Freed(h, slot) \in HiddenSlots
      BY DEF Freed, HiddenSlots
    <3>2. \A i \in {1, 2} : Freed(h, slot)[i].state = "free"
      BY <1>3 DEF Freed, HiddenSlots
    <3> HIDE DEF mine, c, slot
    <3> QED
      BY <1>2, <2>1, <3>1, <3>2 DEF Free
  <2>2. CASE ~mine
    <3>1. Free(h)
      BY <1>3, <2>2 DEF Free
    <3> HIDE DEF mine, c, slot
    <3> QED
      BY <1>2, <2>2, <3>1
  <2> QED
    BY <2>1, <2>2
<1>5. PICK o \in HiddenSlots : Holds(c, k, p, o, g, 0) /\ Free(o)
  BY <1>4
<1> DEFINE first == Dropped(k, held.state[1])
           second == Dropped(first, held.state[2])
<1>6. TwoLayerCleanup(b) = DiscardKda(DiscardKda(c, held.state[1]), held.state[2])
  BY DEF TwoLayerCleanup
<1> HIDE DEF c
<1>7. Holds(DiscardKda(c, held.state[1]), first, p, o, g, 0) /\ first \in States
  BY <1>5, DiscardKdaHolds
<1> HIDE DEF first
<1>8. Holds(TwoLayerCleanup(b), second, p, o, g, 0) /\ second \in States
  BY <1>6, <1>7, DiscardKdaHolds
<1>9. \A l \in Layers : second[l] = 0
  <2>1. \A l \in Layers : k[l] = 0 \/ k[l] = held.state[l]
    BY DEF Remnant
  <2>2. \A l \in Layers : first[l] = 0 \/ (first[l] = k[l] /\ k[l] # held.state[1])
    BY DEF first, Dropped
  <2>3. \A l \in Layers : second[l] = 0 \/ (second[l] = first[l] /\ first[l] # held.state[2])
    BY DEF Dropped
  <2> HIDE DEF second
  <2> QED
    BY <2>1, <2>2, <2>3 DEF Layers
<1> HIDE DEF second
<1>10. Clean(second, p, o)
  BY <1>5, <1>9 DEF Clean, Remnant
<1> QED
  BY <1>8, <1>10

-----------------------------------------------------------------------------
(* The invariant of the device.                                             *)

\* The backend is typed, and its counters account for the prepared input.
BackendOk ==
  /\ backend.kda \in States /\ backend.prepared \in PreparedInputs
  /\ backend.hidden \in HiddenSlots /\ backend.generations \in Generations
  /\ Holds(backend, backend.kda, backend.prepared, backend.hidden, backend.generations,
           IF backend.prepared.active THEN 1 ELSE 0)

\* During an execution the steps left are a path to its end, and what is on the
\* device is what the next of them needs; between executions it is clean.
Underway ==
  /\ outcome = "running" /\ ran < Executions
  /\ IF todo = <<>>
     THEN Clean(backend.kda, backend.prepared, backend.hidden)
     ELSE /\ \E z \in Steps : IsLast(z) /\ Path(todo, todo[1], z)
          /\ Before(todo[1], backend.kda, backend.prepared, backend.hidden,
                    backend.generations, held)

\* A driver that has ended, or has not begun, has left what it may.
Resting ==
  /\ outcome \in {"ready", "done", "failed"} /\ todo = <<>>
  /\ Unprepared(backend.prepared) /\ Free(backend.hidden)
  /\ \A l \in Layers : backend.kda[l] # 0 =>
       outcome = "failed" /\ ~TwoLayers /\ backend.kda[l] = held.state[l]
DeviceInv ==
  /\ bench \in Benches /\ faults \in 0..MaxFaults /\ ran \in 0..Executions
  /\ held \in Tokens /\ BackendOk
  /\ Underway \/ Resting

LEMMA SameBench ==
  ASSUME bench' = bench
  PROVE  /\ \A z : IsLast(z)' <=> IsLast(z)
         /\ \A q, a, z : Path(q, a, z)' <=> Path(q, a, z)
         /\ \A s, k, p, h, g, t : Before(s, k, p, h, g, t)' <=> Before(s, k, p, h, g, t)
         /\ TwoLayers' <=> TwoLayers
         /\ Executions' = Executions
<1>1. /\ TwoLayers' <=> TwoLayers
      /\ OnDevice' <=> OnDevice
      /\ Prepares' <=> Prepares
      /\ SingleSteps' <=> SingleSteps
      /\ Executions' = Executions
  BY DEF TwoLayers, OnDevice, Prepares, SingleSteps, Executions
<1>2. \A s : (Opens(s)' <=> Opens(s)) /\ (Closes(s)' <=> Closes(s))
  BY <1>1 DEF Opens, Closes
<1>3. \A z : IsLast(z)' <=> IsLast(z)
  BY <1>1, <1>2 DEF IsLast
<1>4. \A s : StepOk(s)' <=> StepOk(s)
  <2>1. TwoLayers' = TwoLayers /\ OnDevice' = OnDevice /\ Prepares' = Prepares
    BY DEF TwoLayers, OnDevice, Prepares
  <2> QED
    BY <2>1 DEF StepOk
<1>5. \A s, u : Follows(s, u)' <=> Follows(s, u)
  BY <1>1, <1>2 DEF Follows, InCall, BetweenCalls
<1>6. \A q, a, z : Path(q, a, z)' <=> Path(q, a, z)
  BY <1>4, <1>5 DEF Path
<1>7. \A s, k, t : StatesBefore(s, k, t)' <=> StatesBefore(s, k, t)
  <2>1. \A l : InLayers(l)' <=> InLayers(l)
    BY <1>1 DEF InLayers
  <2>2. \A s, l : ActiveBefore(s, l)' <=> ActiveBefore(s, l)
    BY <1>2, <2>1 DEF ActiveBefore
  <2>3. \A s, l, t : TokenBefore(s, l, t)' = TokenBefore(s, l, t)
    BY <1>1 DEF TokenBefore, Withheld
  <2> QED
    BY <2>2, <2>3 DEF StatesBefore
<1>8. \A s, p, g, t : PreparedBefore(s, p, g, t)' <=> PreparedBefore(s, p, g, t)
  BY <1>1 DEF PreparedBefore, Ready
<1>9. \A s, h, t : HiddenBefore(s, h, t)' <=> HiddenBefore(s, h, t)
  BY <1>1 DEF HiddenBefore
<1>10. \A s, k, p, h, g, t : Before(s, k, p, h, g, t)' <=> Before(s, k, p, h, g, t)
  BY <1>7, <1>8, <1>9 DEF Before
<1> QED
  BY <1>1, <1>3, <1>6, <1>10

LEMMA OneIsLeft ==
  ASSUME NEW p \in Seq(Steps), p # <<>>, Tail(p) = <<>>
  PROVE  Len(p) = 1
<1> DEFINE r == Tail(p)
           n == Len(p)
<1>1. Len(r) = n - 1 /\ n \in Nat
  BY HeadTailProperties
<1>2. r = <<>>
  OBVIOUS
<1> HIDE DEF r, n
<1>3. Len(r) = 0
  BY <1>2
<1>4. n = 1
  BY <1>1, <1>3
<1> QED
  BY <1>4 DEF n

\* A step that leaves what the next one needs keeps the invariant.
LEMMA StepGoesOn ==
  ASSUME DeviceInv, outcome = "running", todo # <<>>,
         UNCHANGED <<bench, ran, faults, outcome>>, todo' = Tail(todo),
         NEW k \in States, NEW p \in PreparedInputs, NEW h \in HiddenSlots, NEW g \in Generations,
         Holds(backend', k, p, h, g, IF p.active THEN 1 ELSE 0),
         held' \in Tokens, After(todo[1], k, p, h, g, held')
  PROVE  DeviceInv'
<1>1. /\ bench \in Benches /\ bench' = bench /\ ran < Executions
      /\ faults' \in 0..MaxFaults /\ ran' \in 0..Executions /\ ran' = ran /\ outcome' = "running"
  BY DEF DeviceInv, Underway, Resting
<1>2. PICK z \in Steps : IsLast(z) /\ Path(todo, todo[1], z)
  BY DEF DeviceInv, Underway, Resting
<1>3. /\ backend'.kda = k /\ backend'.prepared = p /\ backend'.hidden = h
      /\ backend'.generations = g
  BY DEF Holds
<1>4. BackendOk'
  BY <1>3 DEF BackendOk, Holds, InUse
<1>5. todo \in Seq(Steps) /\ Len(todo) # 0 /\ StepOk(todo[1]) /\ todo[Len(todo)] = z
  BY <1>2 DEF Path
<1>6. Executions' = Executions /\ \A q : IsLast(q)' <=> IsLast(q)
  BY <1>1, SameBench
<1>7. CASE todo' = <<>>
  <2>1. Len(todo) = 1
    BY <1>5, <1>7, OneIsLeft
  <2>2. IsLast(todo[1])
    BY <1>2, <1>5, <2>1
  <2>3. Clean(k, p, h)
    BY <1>1, <1>5, <2>2, NothingIsLeft
  <2>4. Underway'
    BY <1>1, <1>3, <1>6, <1>7, <2>3 DEF Underway, Clean, Unprepared, Free
  <2> QED
    BY <1>1, <1>4, <1>6, <2>4 DEF DeviceInv
<1>8. CASE todo' # <<>>
  <2> DEFINE r == Tail(todo)
             u == r[1]
  <2>1. Path(r, u, z) /\ Follows(todo[1], u) /\ StepOk(u)
    BY <1>2, <1>8, PathRest
  <2> HIDE DEF u, r
  <2>2. Before(u, k, p, h, g, held')
    BY <1>1, <1>5, <2>1, LeftIsNeeded
  <2>3. /\ \A q, a, y : Path(q, a, y)' <=> Path(q, a, y)
        /\ \A s, c, d, e, f, t : Before(s, c, d, e, f, t)' <=> Before(s, c, d, e, f, t)
    BY <1>1, SameBench
  <2>4. todo' = r /\ u = r[1]
    BY DEF r, u
  <2>5. Underway'
    BY <1>1, <1>2, <1>3, <1>6, <1>8, <2>1, <2>2, <2>3, <2>4 DEF Underway
  <2> QED
    BY <1>1, <1>4, <1>6, <2>5 DEF DeviceInv
<1> QED
  BY <1>7, <1>8

\* What is known of the step that is next.
LEMMA NextStep ==
  ASSUME DeviceInv, outcome = "running", todo # <<>>
  PROVE  /\ bench \in Benches /\ held \in Tokens /\ BackendOk
         /\ Head(todo) = todo[1] /\ StepOk(todo[1]) /\ todo[1] \in Steps
         /\ Before(todo[1], backend.kda, backend.prepared, backend.hidden,
                   backend.generations, held)
<1>1. PICK z \in Steps : Path(todo, todo[1], z)
  BY DEF DeviceInv, Underway, Resting
<1>2. todo \in Seq(Steps) /\ Len(todo) # 0 /\ StepOk(todo[1])
  BY <1>1 DEF Path
<1> QED
  BY <1>2 DEF DeviceInv, Underway, Resting, StepOk

LEMMA KdaCallKeeps ==
  ASSUME DeviceInv, KdaCall
  PROVE  DeviceInv'
<1> DEFINE s == todo[1]
           k == backend.kda
           p == backend.prepared
           h == backend.hidden
           g == backend.generations
           b == Kda(backend, s, FALSE)
           m == StatesAfter(k, g, s)
           f == KdaGenerations(g, s)
           t == [held EXCEPT !.call = IF Retains(s.mode) THEN f.kda ELSE 0]
<1>1. outcome = "running" /\ todo # <<>> /\ Head(todo).op = "kda"
  BY DEF KdaCall, Proceeds
<1>2. /\ bench \in Benches /\ held \in Tokens /\ Head(todo) = s /\ StepOk(s) /\ s \in Steps
      /\ s.op = "kda" /\ Before(s, k, p, h, g, held)
      /\ k \in States /\ p \in PreparedInputs /\ h \in HiddenSlots /\ g \in Generations
      /\ Holds(backend, k, p, h, g, IF p.active THEN 1 ELSE 0)
  BY <1>1, NextStep DEF BackendOk
<1>3. /\ backend' = b /\ held' = [held EXCEPT !.call = IF Retains(s.mode) THEN b.generations.kda ELSE 0]
      /\ todo' = Tail(todo) /\ UNCHANGED <<bench, ran, faults, outcome>>
  BY <1>2 DEF KdaCall, Advance
<1> HIDE DEF s, k, p, h, g
<1>4. Holds(b, m, p, h, f, IF p.active THEN 1 ELSE 0)
  BY <1>2, KdaHolds
<1>5. m \in States /\ f \in Generations
  BY <1>2, AfterKdaTyped
<1>6. held' = t
  BY <1>3, <1>4 DEF Holds
<1>7. After(s, m, p, h, f, t)
  BY <1>2, KdaGoesOn
<1>8. t \in Tokens
  <2>1. f.kda \in Nat
    BY <1>5 DEF Generations
  <2> QED
    BY <1>2, <2>1 DEF Tokens
<1> HIDE DEF b, m, f, t
<1> QED
  BY <1>1, <1>2, <1>3, <1>4, <1>5, <1>6, <1>7, <1>8, StepGoesOn DEF s

LEMMA PrepareCallKeeps ==
  ASSUME DeviceInv, PrepareCall
  PROVE  DeviceInv'
<1> DEFINE s == todo[1]
           k == backend.kda
           p == backend.prepared
           h == backend.hidden
           g == backend.generations
           b == Prepare(backend, s, FALSE)
           q == PreparedAs(s.layer, 0)
           f == PreparedOnce(g)
           t == [held EXCEPT !.prepared = f.prepared]
<1>1. outcome = "running" /\ todo # <<>> /\ Head(todo).op = "prepare"
  BY DEF PrepareCall, Proceeds
<1>2. /\ bench \in Benches /\ held \in Tokens /\ Head(todo) = s /\ StepOk(s) /\ s \in Steps
      /\ s.op = "prepare" /\ Before(s, k, p, h, g, held)
      /\ k \in States /\ p \in PreparedInputs /\ h \in HiddenSlots /\ g \in Generations
      /\ Holds(backend, k, p, h, g, IF p.active THEN 1 ELSE 0)
  BY <1>1, NextStep DEF BackendOk
<1>3. /\ backend' = b /\ held' = [held EXCEPT !.prepared = b.generations.prepared]
      /\ todo' = Tail(todo) /\ UNCHANGED <<bench, ran, faults, outcome>>
  BY <1>2 DEF PrepareCall, Advance
<1> HIDE DEF s, k, p, h, g
<1>4. ~p.active /\ Holds(backend, k, p, h, g, 0)
  BY <1>2 DEF Before, PreparedBefore, Unprepared
<1>5. Holds(b, k, q, h, f, 1)
  BY <1>2, <1>4, PrepareHolds
<1>6. q \in PreparedInputs /\ q.active /\ f \in Generations /\ f.prepared \in Nat
  <2>1. s.layer \in {1, 2}
    BY <1>2, StepShape
  <2> QED
    BY <1>2, <2>1 DEF PreparedAs, PreparedInputs, PreparedOnce, Generations
<1>7. held' = t
  BY <1>3, <1>5 DEF Holds
<1>8. After(s, k, q, h, f, t)
  BY <1>2, PrepareGoesOn
<1> HIDE DEF b, q, f
<1>9. t \in Tokens
  BY <1>2, <1>6 DEF Tokens
<1>10. Holds(b, k, q, h, f, IF q.active THEN 1 ELSE 0)
  BY <1>5, <1>6
<1> HIDE DEF t
<1> QED
  BY <1>1, <1>2, <1>3, <1>6, <1>7, <1>8, <1>9, <1>10, StepGoesOn DEF s

LEMMA RouteExpertsKeeps ==
  ASSUME DeviceInv, RouteExperts
  PROVE  DeviceInv'
<1>1. outcome = "running" /\ todo # <<>> /\ Head(todo).op = "route"
  BY DEF RouteExperts, Proceeds
<1>2. /\ bench \in Benches /\ held \in Tokens /\ StepOk(todo[1]) /\ todo[1].op = "route"
      /\ Before(todo[1], backend.kda, backend.prepared, backend.hidden, backend.generations, held)
      /\ backend.kda \in States /\ backend.prepared \in PreparedInputs
      /\ backend.hidden \in HiddenSlots /\ backend.generations \in Generations
      /\ Holds(backend, backend.kda, backend.prepared, backend.hidden, backend.generations,
               IF backend.prepared.active THEN 1 ELSE 0)
  BY <1>1, NextStep DEF BackendOk
<1>3. /\ backend' = backend /\ held' = held
      /\ todo' = Tail(todo) /\ UNCHANGED <<bench, ran, faults, outcome>>
  BY DEF RouteExperts, Advance
<1>4. After(todo[1], backend.kda, backend.prepared, backend.hidden, backend.generations, held)
  BY <1>2, RouteGoesOn
<1> QED
  BY <1>1, <1>2, <1>3, <1>4, StepGoesOn

LEMMA FfnCallKeeps ==
  ASSUME DeviceInv, FfnCall
  PROVE  DeviceInv'
<1> DEFINE s == todo[1]
           k == backend.kda
           p == backend.prepared
           h == backend.hidden
           g == backend.generations
           b == Ffn(backend, s, FALSE)
           q == [p EXCEPT !.active = FALSE]
           t == [held EXCEPT !.prepared = 0]
<1>1. outcome = "running" /\ todo # <<>> /\ Head(todo).op = "ffn"
  BY DEF FfnCall, Proceeds
<1>2. /\ bench \in Benches /\ held \in Tokens /\ Head(todo) = s /\ StepOk(s) /\ s \in Steps
      /\ s.op = "ffn" /\ Before(s, k, p, h, g, held)
      /\ k \in States /\ p \in PreparedInputs /\ h \in HiddenSlots /\ g \in Generations
      /\ Holds(backend, k, p, h, g, IF p.active THEN 1 ELSE 0)
  BY <1>1, NextStep DEF BackendOk
<1>3. /\ backend' = b /\ held' = t
      /\ todo' = Tail(todo) /\ UNCHANGED <<bench, ran, faults, outcome>>
  BY <1>2 DEF FfnCall, Advance
<1> HIDE DEF s, k, p, h, g
<1>4. After(s, k, q, h, g, t) /\ s.prepared = p.active
  BY <1>2, FfnGoesOn
<1>5. Holds(b, k, q, h, g, 0)
  BY <1>2, <1>4, FfnHolds
<1>6. q \in PreparedInputs /\ ~q.active /\ t \in Tokens
  BY <1>2 DEF PreparedInputs, Tokens
<1> HIDE DEF b, q, t
<1>7. Holds(b, k, q, h, g, IF q.active THEN 1 ELSE 0)
  BY <1>5, <1>6
<1> QED
  BY <1>1, <1>2, <1>3, <1>4, <1>6, <1>7, StepGoesOn DEF s

LEMMA ReturnLayerKeeps ==
  ASSUME DeviceInv, ReturnLayer
  PROVE  DeviceInv'
<1> DEFINE s == todo[1]
           t == [held EXCEPT !.call = 0, !.state[s.layer] = held.call]
<1>1. outcome = "running" /\ todo # <<>> /\ Head(todo).op = "return"
  BY DEF ReturnLayer, Proceeds
<1>2. /\ bench \in Benches /\ held \in Tokens /\ Head(todo) = s /\ StepOk(s) /\ s.op = "return"
      /\ Before(s, backend.kda, backend.prepared, backend.hidden, backend.generations, held)
      /\ backend.kda \in States /\ backend.prepared \in PreparedInputs
      /\ backend.hidden \in HiddenSlots /\ backend.generations \in Generations
      /\ Holds(backend, backend.kda, backend.prepared, backend.hidden, backend.generations,
               IF backend.prepared.active THEN 1 ELSE 0)
  BY <1>1, NextStep DEF BackendOk
<1>3. /\ backend' = backend /\ held' = t
      /\ todo' = Tail(todo) /\ UNCHANGED <<bench, ran, faults, outcome>>
  BY <1>2 DEF ReturnLayer, Advance
<1> HIDE DEF s
<1>4. t \in Tokens
  BY <1>2 DEF Tokens
<1>5. After(s, backend.kda, backend.prepared, backend.hidden, backend.generations, t)
  BY <1>2, ReturnGoesOn
<1> HIDE DEF t
<1> QED
  BY <1>1, <1>2, <1>3, <1>4, <1>5, StepGoesOn DEF s

LEMMA GroupCallKeeps ==
  ASSUME DeviceInv, GroupCall
  PROVE  DeviceInv'
<1> DEFINE b == Group(backend)
<1>1. outcome = "running" /\ todo # <<>> /\ Head(todo).op = "group"
  BY DEF GroupCall, Proceeds
<1>2. /\ bench \in Benches /\ held \in Tokens /\ StepOk(todo[1]) /\ todo[1].op = "group"
      /\ Before(todo[1], backend.kda, backend.prepared, backend.hidden, backend.generations, held)
      /\ backend.kda \in States /\ backend.prepared \in PreparedInputs
      /\ backend.hidden \in HiddenSlots /\ backend.generations \in Generations
      /\ Holds(backend, backend.kda, backend.prepared, backend.hidden, backend.generations,
               IF backend.prepared.active THEN 1 ELSE 0)
  BY <1>1, NextStep DEF BackendOk
<1>3. /\ backend' = b /\ held' = held
      /\ todo' = Tail(todo) /\ UNCHANGED <<bench, ran, faults, outcome>>
  BY DEF GroupCall, Advance
<1>4. Holds(b, backend.kda, backend.prepared, backend.hidden, backend.generations,
            IF backend.prepared.active THEN 1 ELSE 0)
  BY <1>2, GroupHolds
<1>5. After(todo[1], backend.kda, backend.prepared, backend.hidden, backend.generations, held)
  BY <1>2, GroupGoesOn
<1> HIDE DEF b
<1> QED
  BY <1>1, <1>2, <1>3, <1>4, <1>5, StepGoesOn

LEMMA FrontCallKeeps ==
  ASSUME DeviceInv, FrontCall
  PROVE  DeviceInv'
<1> DEFINE s == todo[1]
           k == backend.kda
           p == backend.prepared
           h == backend.hidden
           g == backend.generations
           b == LayerFront(backend, s, held.hidden)
           m == StatesAfter(k, g, s)
           q == PreparedAs(s.layer, s.layer)
           o == Taken(h, s.layer)
           f == PreparedOnce(KdaGenerations(g, s))
           hidden == IF s.layer = 2 THEN NoTokens.hidden ELSE held.hidden
           new == IF Retains(s.mode) THEN f.kda ELSE 0
           t == [held EXCEPT !.prepared = f.prepared,
                             !.hidden = IF s.layer = 2 THEN NoTokens.hidden ELSE @,
                             !.state[s.layer] = new]
<1>1. outcome = "running" /\ todo # <<>> /\ Head(todo).op = "front"
  BY DEF FrontCall, Proceeds
<1>2. /\ bench \in Benches /\ held \in Tokens /\ Head(todo) = s /\ StepOk(s) /\ s \in Steps
      /\ s.op = "front" /\ Before(s, k, p, h, g, held)
      /\ k \in States /\ p \in PreparedInputs /\ h \in HiddenSlots /\ g \in Generations
      /\ Holds(backend, k, p, h, g, IF p.active THEN 1 ELSE 0)
  BY <1>1, NextStep DEF BackendOk
<1>3. /\ backend' = b
      /\ held' = [held EXCEPT !.prepared = b.generations.prepared,
                              !.hidden = IF s.layer = 2 THEN NoTokens.hidden ELSE @,
                              !.state[s.layer] = IF Retains(s.mode) THEN b.generations.kda ELSE 0]
      /\ todo' = Tail(todo) /\ UNCHANGED <<bench, ran, faults, outcome>>
  BY <1>2 DEF FrontCall, Advance
<1> HIDE DEF s, k, p, h, g
<1>4. ~p.active /\ Holds(backend, k, p, h, g, 0)
  BY <1>2 DEF Before, PreparedBefore, Unprepared
<1>5. HiddenSlotFor(backend, s, held.hidden) = s.layer /\ s.layer \in {1, 2}
  BY <1>2, SlotIsLayer, StepShape DEF Before
<1>6. Holds(b, m, q, o, f, 1)
  <2> DEFINE slot == HiddenSlotFor(backend, s, held.hidden)
  <2>1. slot \in {1, 2}
    BY <1>5
  <2>2. Holds(b, m, PreparedAs(s.layer, slot), Taken(h, slot), f, 1)
    BY <1>2, <1>4, <2>1, FrontHolds
  <2> QED
    BY <1>5, <2>2
<1>7. m \in States /\ KdaGenerations(g, s) \in Generations
  BY <1>2, AfterKdaTyped
<1>8. q \in PreparedInputs /\ q.active /\ o \in HiddenSlots
  BY <1>2, <1>5 DEF PreparedAs, PreparedInputs, Taken, HiddenSlots
<1>9. f \in Generations /\ f.prepared \in Nat /\ new \in Nat
  BY <1>7 DEF PreparedOnce, Generations
<1>10. held' = t
  BY <1>3, <1>6 DEF Holds
<1>11. After(s, m, q, o, f, t)
  BY <1>2, FrontGoesOn
<1> HIDE DEF b, m, q, o, f, new
<1>12. t \in Tokens
  <2>1. hidden \in [generation : Nat, slot : {0, 1, 2}, layer : {0, 1, 2}]
    BY <1>2 DEF NoTokens, Tokens
  <2>2. t = [held EXCEPT !.prepared = f.prepared, !.hidden = hidden, !.state[s.layer] = new]
    BY <1>2 DEF Tokens
  <2> HIDE DEF hidden, t
  <2> QED
    BY <1>2, <1>9, <2>1, <2>2 DEF Tokens
<1>13. Holds(b, m, q, o, f, IF q.active THEN 1 ELSE 0)
  BY <1>6, <1>8
<1> HIDE DEF t
<1> QED
  BY <1>1, <1>2, <1>3, <1>7, <1>8, <1>9, <1>10, <1>11, <1>12, <1>13, StepGoesOn DEF s

LEMMA TailCallKeeps ==
  ASSUME DeviceInv, TailCall
  PROVE  DeviceInv'
<1> DEFINE s == todo[1]
           k == backend.kda
           p == backend.prepared
           h == backend.hidden
           g == backend.generations
           b == LayerTail(backend, s)
           q == NotPrepared
           o == HiddenAfterTail(h, g, p.slot, s)
           f == HiddenOnce(g, s)
           hidden == IF s.retain
                     THEN [generation |-> f.hidden, layer |-> s.layer, slot |-> 3 - p.slot]
                     ELSE NoTokens.hidden
           t == [held EXCEPT !.prepared = 0, !.hidden = hidden]
<1>1. outcome = "running" /\ todo # <<>> /\ Head(todo).op = "tail"
  BY DEF TailCall, Proceeds
<1>2. /\ bench \in Benches /\ held \in Tokens /\ Head(todo) = s /\ StepOk(s) /\ s \in Steps
      /\ s.op = "tail" /\ Before(s, k, p, h, g, held)
      /\ k \in States /\ p \in PreparedInputs /\ h \in HiddenSlots /\ g \in Generations
      /\ Holds(backend, k, p, h, g, IF p.active THEN 1 ELSE 0)
  BY <1>1, NextStep DEF BackendOk
<1>3. /\ backend' = b
      /\ held' = [held EXCEPT !.prepared = 0,
                              !.hidden = IF s.retain
                                         THEN [generation |-> b.generations.hidden,
                                               layer |-> s.layer, slot |-> 3 - p.slot]
                                         ELSE NoTokens.hidden]
      /\ todo' = Tail(todo) /\ UNCHANGED <<bench, ran, faults, outcome>>
  BY <1>2 DEF TailCall, Advance
<1> HIDE DEF s, k, p, h, g
<1>4. /\ p.active /\ p.slot = s.layer /\ s.prepared /\ s.layer \in {1, 2}
      /\ After(s, k, q, o, f, t)
  BY <1>2, TailGoesOn, StepShape
<1>5. Holds(b, k, q, o, f, 0)
  <2>1. Holds(backend, k, p, h, g, 1) /\ p.slot \in {1, 2}
    BY <1>2, <1>4
  <2> QED
    BY <1>2, <1>4, <2>1, TailHolds
<1>6. q \in PreparedInputs /\ ~q.active
  BY DEF NotPrepared, PreparedInputs
<1>7. o \in HiddenSlots
  <2>1. g.hidden + 1 \in Nat
    BY <1>2 DEF Generations
  <2> QED
    BY <1>2, <1>4, <2>1 DEF HiddenAfterTail, HiddenSlots
<1>8. f \in Generations /\ f.hidden \in Nat
  BY <1>2 DEF HiddenOnce, Generations
<1>9. held' = t
  BY <1>3, <1>5 DEF Holds
<1> HIDE DEF b, q, o, f
<1>10. t \in Tokens
  <2>1. hidden \in [generation : Nat, slot : {0, 1, 2}, layer : {0, 1, 2}]
    BY <1>4, <1>8 DEF NoTokens
  <2> HIDE DEF hidden
  <2> QED
    BY <1>2, <2>1 DEF Tokens
<1>11. Holds(b, k, q, o, f, IF q.active THEN 1 ELSE 0)
  BY <1>5, <1>6
<1> HIDE DEF t
<1> QED
  BY <1>1, <1>2, <1>3, <1>4, <1>6, <1>7, <1>8, <1>9, <1>10, <1>11, StepGoesOn DEF s

LEMMA ExecuteKeeps ==
  ASSUME DeviceInv, Execute
  PROVE  DeviceInv'
<1>1. /\ bench \in Benches /\ held \in Tokens /\ BackendOk /\ Resting
      /\ faults \in 0..MaxFaults /\ ran \in 0..Executions
  BY DEF DeviceInv, Underway, Execute
<1>2. /\ outcome' = "running" /\ ran < Executions /\ todo' = Execution
      /\ UNCHANGED <<bench, backend, held, ran, faults>>
  BY DEF Execute
<1>3. Clean(backend.kda, backend.prepared, backend.hidden)
  <2>1. outcome = "ready" \/ TwoLayers
    BY DEF Execute, TwoLayers, TwoLayer
  <2> QED
    BY <1>1, <2>1 DEF Resting, Clean
<1>4. PICK a, z \in Steps : Path(Execution, a, z) /\ IsFirst(a) /\ IsLast(z)
  BY <1>1, ExecutionIsPath
<1>5. Execution # <<>> /\ Execution[1] = a /\ StepOk(a)
  <2>1. /\ Execution \in Seq(Steps) /\ Execution # <<>> /\ Execution[1] = a
        /\ \A i \in 1..Len(Execution) : StepOk(Execution[i])
    BY <1>4 DEF Path
  <2> DEFINE e == Execution
  <2> HIDE DEF e
  <2>2. e \in Seq(Steps) /\ e # <<>>
    BY <2>1 DEF e
  <2>3. 1 \in 1..Len(e)
    BY <2>2
  <2> QED
    BY <2>1, <2>3 DEF e
<1>6. Before(a, backend.kda, backend.prepared, backend.hidden, backend.generations, held)
  BY <1>1, <1>3, <1>4, <1>5, NothingIsNeeded
<1>7. /\ Executions' = Executions
      /\ \A q : IsLast(q)' <=> IsLast(q)
      /\ \A q, x, y : Path(q, x, y)' <=> Path(q, x, y)
      /\ \A s, c, d, e, f, t : Before(s, c, d, e, f, t)' <=> Before(s, c, d, e, f, t)
  BY <1>2, SameBench
<1>8. BackendOk'
  BY <1>1, <1>2 DEF BackendOk, Holds, InUse
<1>9. Underway'
  BY <1>2, <1>4, <1>5, <1>6, <1>7 DEF Underway
<1> QED
  BY <1>1, <1>2, <1>7, <1>8, <1>9 DEF DeviceInv

LEMMA CompletedKeeps ==
  ASSUME DeviceInv, Completed
  PROVE  DeviceInv'
<1>1. /\ bench \in Benches /\ held \in Tokens /\ BackendOk /\ Underway
      /\ faults \in 0..MaxFaults /\ ran \in 0..Executions
  BY DEF DeviceInv, Resting, Completed
<1>2. /\ ran' = ran + 1 /\ outcome' \in {"ready", "done"} /\ todo = <<>>
      /\ UNCHANGED <<bench, backend, held, todo, faults>>
  BY DEF Completed
<1>3. Clean(backend.kda, backend.prepared, backend.hidden) /\ ran < Executions
  BY <1>1, <1>2 DEF Underway
<1>4. Executions' = Executions /\ Executions \in Nat
  BY <1>1, <1>2, SameBench, BenchCases
<1>5. ran' \in 0..Executions
  BY <1>1, <1>2, <1>3, <1>4
<1>6. BackendOk'
  BY <1>1, <1>2 DEF BackendOk, Holds, InUse
<1>7. Resting'
  BY <1>2, <1>3 DEF Resting, Clean, Unprepared, Free
<1> QED
  BY <1>1, <1>2, <1>4, <1>5, <1>6, <1>7 DEF DeviceInv

LEMMA StepFailsKeeps ==
  ASSUME DeviceInv, StepFails
  PROVE  DeviceInv'
<1> DEFINE s == todo[1]
           k == backend.kda
           p == backend.prepared
           h == backend.hidden
           g == backend.generations
           left(point) == LayerCleanup(Failed(backend, s, point), s)
<1>1. outcome = "running" /\ todo # <<>>
  BY DEF StepFails
<1>2. /\ bench \in Benches /\ held \in Tokens /\ Head(todo) = s /\ StepOk(s) /\ s \in Steps
      /\ Before(s, k, p, h, g, held)
      /\ k \in States /\ p \in PreparedInputs /\ h \in HiddenSlots /\ g \in Generations
      /\ Holds(backend, k, p, h, g, IF p.active THEN 1 ELSE 0)
      /\ faults \in 0..MaxFaults /\ ran \in 0..Executions
  BY <1>1, NextStep DEF BackendOk, DeviceInv
<1>3. Admits(backend, s)
  BY <1>2, CallsAreAdmitted
<1>4. PICK point \in FaultPoints(s) :
        /\ faults < MaxFaults /\ point # "refused"
        /\ backend' = IF bench.tool \in TwoLayer THEN TwoLayerCleanup(left(point)) ELSE left(point)
        /\ held' = IF bench.tool \in TwoLayer THEN NoTokens
                   ELSE [held EXCEPT !.call = 0, !.prepared = 0]
        /\ faults' = faults + 1 /\ outcome' = "failed"
        /\ todo' = <<>> /\ UNCHANGED <<bench, ran>>
  <2>1. "refused" \notin FaultPoints(s)
    <3>1. s.op \in {"kda", "prepare", "route", "ffn", "return", "front", "tail", "group"}
      BY <1>2, StepShape DEF Ops
    <3> HIDE DEF s
    <3> QED
      BY <3>1 DEF FaultPoints
  <2>2. Head(todo) = s
    BY <1>2
  <2> HIDE DEF s
  <2> QED
    BY <1>3, <2>1, <2>2 DEF StepFails
<1> HIDE DEF s, k, p, h, g
<1>5. Keeps(Failed(backend, s, point), s, held)
  BY <1>2, FailureKeeps
<1>6. PICK m \in States, q \in PreparedInputs, o \in HiddenSlots, f \in Generations :
        Holds(left(point), m, q, o, f, 0) /\ Remnant(m, q, o, held)
  BY <1>2, <1>5, LayerCleanupLeaves
<1> HIDE DEF left
<1>7. MaxFaults \in Nat
  BY DeviceAssumption
<1>8. faults' \in 0..MaxFaults
  BY <1>2, <1>4, <1>7
<1>9. Executions' = Executions /\ (TwoLayers' <=> TwoLayers) /\ (TwoLayers <=> bench.tool \in TwoLayer)
  BY <1>4, SameBench DEF TwoLayers, TwoLayer
<1>10. Unprepared(q) /\ ~q.active
  BY <1>6 DEF Remnant, Unprepared
<1>11. \A c : \A r \in States, e \in HiddenSlots :
         backend' = c /\ Holds(c, r, q, e, f, 0) => BackendOk' /\ backend'.kda = r
                                                      /\ backend'.prepared = q /\ backend'.hidden = e
  <2> SUFFICES ASSUME NEW c, NEW r \in States, NEW e \in HiddenSlots,
                      backend' = c, Holds(c, r, q, e, f, 0)
               PROVE  BackendOk' /\ backend'.kda = r /\ backend'.prepared = q /\ backend'.hidden = e
    OBVIOUS
  <2>1. c.kda = r /\ c.prepared = q /\ c.hidden = e /\ c.generations = f
    BY DEF Holds
  <2> QED
    BY <1>10, <2>1 DEF BackendOk, Holds, InUse
<1>12. CASE TwoLayers
  <2>1. backend' = TwoLayerCleanup(left(point)) /\ held' = NoTokens
    BY <1>4, <1>9, <1>12
  <2>2. PICK r \in States, e \in HiddenSlots :
          Holds(backend', r, q, e, f, 0) /\ Clean(r, q, e)
    BY <1>2, <1>6, <2>1, TwoLayerCleanupLeaves
  <2>3. /\ BackendOk' /\ backend'.kda = r /\ backend'.prepared = q /\ backend'.hidden = e
    BY <1>11, <2>2
  <2>4. Resting'
    BY <1>4, <2>2, <2>3 DEF Resting, Clean, Unprepared, Free
  <2>5. held' \in Tokens
    BY <2>1 DEF NoTokens, Tokens, Layers
  <2> QED
    BY <1>2, <1>4, <1>8, <1>9, <2>3, <2>4, <2>5 DEF DeviceInv
<1>13. CASE ~TwoLayers
  <2>1. backend' = left(point) /\ held' = [held EXCEPT !.call = 0, !.prepared = 0]
    BY <1>4, <1>9, <1>13
  <2>2. /\ BackendOk' /\ backend'.kda = m /\ backend'.prepared = q /\ backend'.hidden = o
    BY <1>6, <1>11, <2>1
  <2>3. held' \in Tokens /\ held'.state = held.state
    BY <1>2, <2>1 DEF Tokens
  <2>4. ~OnDevice
    BY <1>13 DEF OnDevice
  <2>5. Resting'
    BY <1>4, <1>6, <1>9, <1>13, <2>2, <2>3, <2>4 DEF Resting, Remnant, Unprepared, Free
  <2> QED
    BY <1>2, <1>4, <1>8, <1>9, <2>2, <2>3, <2>5 DEF DeviceInv
<1> QED
  BY <1>12, <1>13

LEMMA DeviceInitKeeps ==
  ASSUME DeviceInit
  PROVE  DeviceInv
<1>1. /\ bench \in Benches /\ backend = IdleBackend /\ held = NoTokens /\ todo = <<>> /\ ran = 0
      /\ faults = 0 /\ outcome = "ready"
  BY DEF DeviceInit, Start
<1>2. faults \in 0..MaxFaults /\ ran \in 0..Executions
  BY <1>1, BenchCases, DeviceAssumption
<1>3. held \in Tokens
  BY <1>1 DEF NoTokens, Tokens, Layers
<1>4. /\ backend.kda \in States /\ backend.prepared \in PreparedInputs
      /\ backend.hidden \in HiddenSlots /\ backend.generations \in Generations
      /\ Unprepared(backend.prepared) /\ Free(backend.hidden)
      /\ \A l \in Layers : backend.kda[l] = 0
  BY <1>1 DEF IdleBackend, FreeSlot, States, PreparedInputs, HiddenSlots, Generations,
              Unprepared, Free
<1>5. /\ DOMAIN backend = Parts /\ DOMAIN backend.stats = Counters
      /\ \A c \in PreparedCounters : backend.stats[c] = 0
  BY <1>1 DEF IdleBackend, Parts, Zero, Counters, PreparedCounters
<1>6. InUse(backend) = 0 /\ \A c \in PreparedCounters : backend.stats[c] \in Nat
  BY <1>5 DEF InUse, PreparedCounters
<1>7. BackendOk
  BY <1>4, <1>5, <1>6 DEF BackendOk, Holds, Unprepared
<1>8. Resting
  BY <1>1, <1>4 DEF Resting
<1> QED
  BY <1>1, <1>2, <1>3, <1>7, <1>8 DEF DeviceInv

LEMMA DeviceNextKeeps ==
  ASSUME DeviceInv, [DeviceNext]_deviceVars
  PROVE  DeviceInv'
<1>1. CASE DeviceNext
  BY <1>1, ExecuteKeeps, CompletedKeeps, StepFailsKeeps, KdaCallKeeps, PrepareCallKeeps,
     RouteExpertsKeeps, FfnCallKeeps, ReturnLayerKeeps, FrontCallKeeps, TailCallKeeps,
     GroupCallKeeps
     DEF DeviceNext
<1>2. CASE UNCHANGED deviceVars
  <2>1. UNCHANGED <<bench, backend, held, todo, ran, faults, outcome>>
    BY <1>2 DEF deviceVars
  <2>2. /\ Executions' = Executions /\ (TwoLayers' <=> TwoLayers)
        /\ \A q : IsLast(q)' <=> IsLast(q)
        /\ \A q, x, y : Path(q, x, y)' <=> Path(q, x, y)
        /\ \A s, c, d, e, f, t : Before(s, c, d, e, f, t)' <=> Before(s, c, d, e, f, t)
    BY <2>1, SameBench
  <2>3. BackendOk' <=> BackendOk
    BY <2>1 DEF BackendOk, Holds, InUse
  <2>4. Underway => Underway'
    BY <2>1, <2>2 DEF Underway, Clean, Unprepared, Free
  <2>5. Resting => Resting'
    BY <2>1, <2>2 DEF Resting, Unprepared, Free
  <2> QED
    BY <2>1, <2>2, <2>3, <2>4, <2>5 DEF DeviceInv
<1> QED
  BY <1>1, <1>2

LEMMA InvLeavesFree ==
  ASSUME DeviceInv
  PROVE  DeviceIsLeftFree
<1>1. /\ bench \in Benches /\ faults \in 0..MaxFaults /\ ran \in 0..Executions /\ BackendOk
      /\ Underway \/ Resting
  BY DEF DeviceInv
<1>2. outcome \in {"ready", "running", "done", "failed"}
  BY <1>1 DEF Underway, Resting
<1>3. DeviceTypeOK
  <2>1. DOMAIN backend.stats = Counters /\ \A c \in PreparedCounters : backend.stats[c] \in Nat
    BY <1>1 DEF BackendOk, Holds
  <2>2. \A i \in {1, 2} : backend.hidden[i].state \in {"free", "prepared", "live"}
    BY <1>1 DEF BackendOk, HiddenSlots
  <2> QED
    BY <1>1, <1>2, <2>1, <2>2 DEF DeviceTypeOK, PreparedCounters
<1>4. outcome \in {"ready", "done", "failed"} =>
        /\ ~backend.prepared.active /\ backend.prepared.slot = 0
        /\ \A i \in {1, 2} : backend.hidden[i].state = "free"
        /\ \A l \in Layers : backend.kda[l] # 0 =>
             outcome = "failed" /\ bench.tool \notin TwoLayer /\ backend.kda[l] = held.state[l]
  BY <1>1 DEF Underway, Resting, Unprepared, Free, TwoLayers, TwoLayer
<1>5. backend.stats.prepared_seeds =
        backend.stats.prepared_consumes + backend.stats.prepared_discards
          + backend.stats.prepared_invalidations + (IF backend.prepared.active THEN 1 ELSE 0)
  <2>1. /\ backend.stats["prepared_seeds"] \in Nat /\ backend.stats["prepared_consumes"] \in Nat
        /\ backend.stats["prepared_discards"] \in Nat
        /\ backend.stats["prepared_invalidations"] \in Nat
    BY <1>1 DEF BackendOk, Holds, PreparedCounters
  <2>2. InUse(backend) = IF backend.prepared.active THEN 1 ELSE 0
    BY <1>1 DEF BackendOk, Holds
  <2> QED
    BY <2>1, <2>2 DEF InUse
<1> QED
  BY <1>2, <1>3, <1>4, <1>5 DEF DeviceIsLeftFree

\* Whatever fails, and however often, the drivers of the official layers leave
\* nothing on the device but a state whose token the caller has; none of their
\* calls is refused, and every input that was prepared is used up once.
THEOREM DeviceIsAlwaysLeftFree == DeviceSpec => []DeviceIsLeftFree
<1>1. DeviceInit => DeviceInv
  BY DeviceInitKeeps
<1>2. DeviceInv /\ [DeviceNext]_deviceVars => DeviceInv'
  BY DeviceNextKeeps
<1>3. DeviceInv => DeviceIsLeftFree
  BY InvLeavesFree
<1> QED
  BY <1>1, <1>2, <1>3, PTL DEF DeviceSpec
=============================================================================
