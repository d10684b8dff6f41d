---------------------------- MODULE ExpertLoader ----------------------------
(***************************************************************************)
(* DeadlineExpertLoader and ExpertLoadTicket of runtime/src/               *)
(* expert_scheduler.cpp: one worker thread that takes queued expert loads  *)
(* in the order of their latest start time, callers that submit loads,     *)
(* wait on tickets, wait for the loader to be idle and destroy it.         *)
(*                                                                         *)
(* A step is what one thread does while it holds a mutex, or between two   *)
(* of them.  A thread parked on a condition variable re-examines its       *)
(* condition when a notification, or nothing at all (a spurious wakeup),   *)
(* wakes it.  Clock readings, byte and nanosecond counters are left out.   *)
(***************************************************************************)
EXTENDS Integers, FiniteSets

CONSTANTS
  Clients,          \* threads that use the loader
  Tickets,          \* identities of the submissions; each is used once
  NoTicket,         \* no ticket at hand
  MaximumPending,   \* maximum_pending of the constructor
  Metadata          \* the ExpertLoadMetadata of non-resident submissions:
                    \* estimated_use_time and estimated_fetch_latency

\* The constructor rejects a zero capacity with std::invalid_argument.
LoaderAssumption ==
  /\ MaximumPending \in Nat \ {0}
  /\ IsFiniteSet(Tickets) /\ NoTicket \notin Tickets
  /\ IsFiniteSet(Clients)
  /\ Metadata \subseteq [use : Int, latency : Nat]

Outcomes == {"payload", "failure"}   \* a loader that throws is a failure

VARIABLES
  job,          \* job[t]: the metadata of t once accepted: a set of at most one
  queue,        \* Impl::queue, the tickets whose job has not started
  nextSequence, \* Impl::next_sequence
  stopping,     \* Impl::stopping
  active,       \* Impl::active
  destroyed,    \* ~Impl has returned
  result,       \* ExpertLoadState::result: a set of at most one outcome
  consumed,     \* tickets whose ExpertLoadState::consumed is true
  metrics,      \* the counters of ExpertLoadMetrics
  worker,       \* the worker thread: [pc, job, loaded]
  client,       \* client[c]: a calling thread: [pc, ticket, wasReady, loaded]
  issued,       \* tickets submit has returned to a caller
  taken         \* history: taken[t] is the number of waits that took t's result

implVars == <<queue, nextSequence, stopping, active, destroyed>>
ticketVars == <<job, result, consumed, issued, taken>>
vars == <<implVars, ticketVars, metrics, worker, client>>

Running == [pc |-> "running", ticket |-> NoTicket, wasReady |-> FALSE,
            loaded |-> {}]

ClientPc ==
  {"running", "submit_notify", "inline_load", "inline_publish",
   "inline_count", "wait_parked", "wait_woken", "wait_count",
   "idle_parked", "idle_woken", "destroy_notify", "join"}
WorkerPc ==
  {"checking", "parked", "loading", "publishing", "counting", "notifying",
   "clearing", "idle_notifying", "returned"}

TypeOK ==
  /\ job \in [Tickets -> SUBSET [use : Int, latency : Nat, sequence : Nat]]
  /\ queue \in SUBSET Tickets
  /\ nextSequence \in Nat
  /\ stopping \in BOOLEAN /\ active \in BOOLEAN /\ destroyed \in BOOLEAN
  /\ result \in [Tickets -> SUBSET Outcomes]
  /\ consumed \in SUBSET Tickets
  /\ metrics \in [submissions : Nat, inlineHits : Nat, completions : Nat,
                  readyBeforeUse : Nat, lateAtUse : Nat, highWater : Nat]
  /\ worker \in [pc : WorkerPc, job : Tickets \cup {NoTicket},
                 loaded : SUBSET Outcomes]
  /\ client \in [Clients -> [pc : ClientPc, ticket : Tickets \cup {NoTicket},
                             wasReady : BOOLEAN, loaded : SUBSET Outcomes]]
  /\ issued \in SUBSET Tickets
  /\ taken \in [Tickets -> Nat]

Init ==
  /\ job = [t \in Tickets |-> {}]
  /\ queue = {}
  /\ nextSequence = 0
  /\ stopping = FALSE /\ active = FALSE /\ destroyed = FALSE
  /\ result = [t \in Tickets |-> {}]
  /\ consumed = {}
  /\ metrics = [submissions |-> 0, inlineHits |-> 0, completions |-> 0,
                readyBeforeUse |-> 0, lateAtUse |-> 0, highWater |-> 0]
  /\ worker = [pc |-> "checking", job |-> NoTicket, loaded |-> {}]
  /\ client = [c \in Clients |-> Running]
  /\ issued = {}
  /\ taken = [t \in Tickets |-> 0]

-----------------------------------------------------------------------------
(* The priority queue.                                                     *)

Job(t) == CHOOSE j \in job[t] : TRUE
LatestStart(t) == Job(t).use - Job(t).latency

\* Mutant: the fetch latency is forgotten.
EarlierUse(a, b) ==
  \/ Job(a).use < Job(b).use
  \/ Job(a).use = Job(b).use /\ Job(a).sequence < Job(b).sequence
\* LaterDeadline, read the other way: a is popped before b.
Earlier(a, b) ==
  \/ LatestStart(a) < LatestStart(b)
  \/ LatestStart(a) = LatestStart(b) /\ Job(a).sequence < Job(b).sequence

IsTop(t) == t \in queue /\ \A other \in queue \ {t} : Earlier(t, other)

-----------------------------------------------------------------------------
(* Condition variables: a notification moves parked threads to "woken".    *)

Goto(c, pc) == [client EXCEPT ![c].pc = pc]
GotoWith(c, pc, t) == [client EXCEPT ![c] = [@ EXCEPT !.pc = pc, !.ticket = t]]
Return(c) == [client EXCEPT ![c] = Running]

WakeTicketWaiters(t, threads) ==
  [c \in Clients |->
     IF threads[c].pc = "wait_parked" /\ threads[c].ticket = t
     THEN [threads[c] EXCEPT !.pc = "wait_woken"] ELSE threads[c]]
WakeIdleWaiters(threads) ==
  [c \in Clients |->
     IF threads[c].pc = "idle_parked"
     THEN [threads[c] EXCEPT !.pc = "idle_woken"] ELSE threads[c]]
WakeWorker == 
  IF worker.pc = "parked" THEN [worker EXCEPT !.pc = "checking"] ELSE worker

SpuriousWakeup(c) ==
  /\ \/ client[c].pc = "wait_parked" /\ client' = Goto(c, "wait_woken")
     \/ client[c].pc = "idle_parked" /\ client' = Goto(c, "idle_woken")
  /\ UNCHANGED <<implVars, ticketVars, metrics, worker>>

SpuriousWorkerWakeup ==
  /\ worker.pc = "parked"
  /\ worker' = WakeWorker
  /\ UNCHANGED <<implVars, ticketVars, metrics, client>>

-----------------------------------------------------------------------------
(* submit                                                                  *)

\* No caller may be inside submit or wait_idle when the destructor starts,
\* and none may enter them afterwards.
InsideLoader(c) ==
  client[c].pc \notin {"running", "wait_parked", "wait_woken", "wait_count"}
Usable ==
  ~destroyed /\ \A c \in Clients : client[c].pc \notin {"destroy_notify", "join"}

Fresh(t) ==
  job[t] = {} /\ result[t] = {} /\ \A c \in Clients : client[c].ticket # t

HasRoom == Cardinality(queue) < MaximumPending

\* The queue has room: the job is pushed under the mutex and the caller goes
\* on to notify the worker after it has released it.
SubmitQueued(c, t, metadata) ==
  /\ client[c].pc = "running" /\ Usable /\ Fresh(t)
  /\ ~stopping /\ HasRoom
  /\ job' = [job EXCEPT ![t] = {[use |-> metadata.use, latency |-> metadata.latency,
                                 sequence |-> nextSequence]}]
  /\ nextSequence' = nextSequence + 1
  /\ queue' = queue \cup {t}
  /\ metrics' = [metrics EXCEPT
       !.submissions = @ + 1,
       !.highWater = IF @ < Cardinality(queue') THEN Cardinality(queue') ELSE @]
  /\ client' = GotoWith(c, "submit_notify", t)
  /\ UNCHANGED <<stopping, active, destroyed, result, consumed, issued, taken,
                 worker>>

\* notify_one, then the ticket is returned.
SubmitNotify(c) ==
  /\ client[c].pc = "submit_notify"
  /\ worker' = WakeWorker
  /\ issued' = issued \cup {client[c].ticket}
  /\ client' = Return(c)
  /\ UNCHANGED <<implVars, job, result, consumed, taken, metrics>>

\* A full queue, or a stopping loader, rejects the submission and changes
\* nothing: storage_unavailable.
SubmitRejected(c) ==
  /\ client[c].pc = "running" /\ Usable
  /\ stopping \/ ~HasRoom
  /\ UNCHANGED vars

\* A resident expert is loaded on the calling thread.
SubmitInline(c, t) ==
  /\ client[c].pc = "running" /\ Usable /\ Fresh(t)
  /\ metrics' = [metrics EXCEPT !.submissions = @ + 1, !.inlineHits = @ + 1]
  /\ client' = GotoWith(c, "inline_load", t)
  /\ UNCHANGED <<implVars, ticketVars, worker>>

InlineLoad(c) ==
  /\ client[c].pc = "inline_load"
  /\ \E o \in Outcomes :
       client' = [client EXCEPT ![c] = [@ EXCEPT !.pc = "inline_publish", !.loaded = {o}]]
  /\ UNCHANGED <<implVars, ticketVars, metrics, worker>>

InlinePublish(c) ==
  /\ client[c].pc = "inline_publish"
  /\ result' = [result EXCEPT ![client[c].ticket] = client[c].loaded]
  /\ client' = Goto(c, "inline_count")
  /\ UNCHANGED <<implVars, job, consumed, issued, taken, metrics, worker>>

\* The counter, a notification nobody can be waiting for yet, the return.
InlineCount(c) ==
  /\ client[c].pc = "inline_count"
  /\ metrics' = [metrics EXCEPT !.completions = @ + 1]
  /\ client' = Return(c)
  /\ issued' = issued \cup {client[c].ticket}
  /\ UNCHANGED <<implVars, job, result, consumed, taken, worker>>

-----------------------------------------------------------------------------
(* ExpertLoadTicket::wait                                                  *)

\* The result is moved out of the shared state.
TakeResult(c, t, wasReady) ==
  /\ taken' = [taken EXCEPT ![t] = @ + 1]
  /\ client' = [client EXCEPT ![c] = [pc |-> "wait_count", ticket |-> t,
                                      wasReady |-> wasReady,
                                      loaded |-> result[t]]]

\* A second wait on the same ticket fails with invalid_state.
WaitAgain(c, t) ==
  /\ client[c].pc = "running" /\ t \in issued /\ t \in consumed
  /\ UNCHANGED vars

WaitReady(c, t) ==
  /\ client[c].pc = "running" /\ t \in issued \ consumed
  /\ result[t] # {}
  /\ consumed' = consumed \cup {t}
  /\ TakeResult(c, t, TRUE)
  /\ UNCHANGED <<implVars, job, result, issued, metrics, worker>>

WaitPark(c, t) ==
  /\ client[c].pc = "running" /\ t \in issued \ consumed
  /\ result[t] = {}
  /\ consumed' = consumed \cup {t}
  /\ client' = GotoWith(c, "wait_parked", t)
  /\ UNCHANGED <<implVars, job, result, issued, taken, metrics, worker>>

WaitResume(c) ==
  LET t == client[c].ticket IN
  /\ client[c].pc = "wait_woken"
  /\ IF result[t] # {}
     THEN TakeResult(c, t, FALSE)
     ELSE client' = Goto(c, "wait_parked") /\ UNCHANGED taken
  /\ UNCHANGED <<implVars, job, result, consumed, issued, metrics, worker>>

WaitCount(c) ==
  /\ client[c].pc = "wait_count"
  /\ metrics' = IF client[c].wasReady
                THEN [metrics EXCEPT !.readyBeforeUse = @ + 1]
                ELSE [metrics EXCEPT !.lateAtUse = @ + 1]
  /\ client' = Return(c)
  /\ UNCHANGED <<implVars, ticketVars, worker>>

-----------------------------------------------------------------------------
(* wait_idle and the destructor                                            *)

Idle == queue = {} /\ ~active

WaitIdle(c) ==
  /\ client[c].pc = "running" /\ Usable
  /\ client' = IF Idle THEN client ELSE Goto(c, "idle_parked")
  /\ UNCHANGED <<implVars, ticketVars, metrics, worker>>

WaitIdleResume(c) ==
  /\ client[c].pc = "idle_woken"
  /\ client' = IF Idle THEN Return(c) ELSE Goto(c, "idle_parked")
  /\ UNCHANGED <<implVars, ticketVars, metrics, worker>>

DestroyStop(c) ==
  /\ client[c].pc = "running" /\ ~destroyed
  /\ \A other \in Clients : ~InsideLoader(other)
  /\ stopping' = TRUE
  /\ client' = Goto(c, "destroy_notify")
  /\ UNCHANGED <<queue, nextSequence, active, destroyed, ticketVars, metrics,
                 worker>>

DestroyNotify(c) ==
  /\ client[c].pc = "destroy_notify"
  /\ worker' = WakeWorker
  /\ client' = Goto(c, "join")
  /\ UNCHANGED <<implVars, ticketVars, metrics>>

DestroyJoin(c) ==
  /\ client[c].pc = "join"
  /\ worker.pc = "returned"
  /\ destroyed' = TRUE
  /\ client' = Return(c)
  /\ UNCHANGED <<queue, nextSequence, stopping, active, ticketVars, metrics,
                 worker>>

-----------------------------------------------------------------------------
(* Impl::run                                                               *)

WorkerPark ==
  /\ worker.pc = "checking"
  /\ ~stopping /\ queue = {}
  /\ worker' = [worker EXCEPT !.pc = "parked"]
  /\ UNCHANGED <<implVars, ticketVars, metrics, client>>

WorkerReturn ==
  /\ worker.pc = "checking"
  /\ stopping /\ queue = {}
  /\ worker' = [worker EXCEPT !.pc = "returned"]
  /\ UNCHANGED <<implVars, ticketVars, metrics, client>>

\* Mutant: the popped job does not make the loader active.
WorkerPopInactive(t) ==
  /\ worker.pc = "checking"
  /\ IsTop(t)
  /\ queue' = queue \ {t}
  /\ worker' = [pc |-> "loading", job |-> t, loaded |-> {}]
  /\ UNCHANGED <<nextSequence, stopping, active, destroyed, ticketVars, metrics,
                 client>>
WorkerPop(t) ==
  /\ worker.pc = "checking"
  /\ IsTop(t)
  /\ queue' = queue \ {t}
  /\ active' = TRUE
  /\ worker' = [pc |-> "loading", job |-> t, loaded |-> {}]
  /\ UNCHANGED <<nextSequence, stopping, destroyed, ticketVars, metrics, client>>

\* invoke_loader: the callable returns a payload, returns a failure or throws.
WorkerLoad ==
  /\ worker.pc = "loading"
  /\ \E o \in Outcomes :
       worker' = [worker EXCEPT !.pc = "publishing", !.loaded = {o}]
  /\ UNCHANGED <<implVars, ticketVars, metrics, client>>

WorkerPublish ==
  /\ worker.pc = "publishing"
  /\ result' = [result EXCEPT ![worker.job] = worker.loaded]
  /\ worker' = [worker EXCEPT !.pc = "counting"]
  /\ UNCHANGED <<implVars, job, consumed, issued, taken, metrics, client>>

WorkerCount ==
  /\ worker.pc = "counting"
  /\ metrics' = [metrics EXCEPT !.completions = @ + 1]
  /\ worker' = [worker EXCEPT !.pc = "notifying"]
  /\ UNCHANGED <<implVars, ticketVars, client>>

WorkerNotify ==
  /\ worker.pc = "notifying"
  /\ client' = WakeTicketWaiters(worker.job, client)
  /\ worker' = [worker EXCEPT !.pc = "clearing"]
  /\ UNCHANGED <<implVars, ticketVars, metrics>>

WorkerClear ==
  /\ worker.pc = "clearing"
  /\ active' = FALSE
  /\ worker' = [worker EXCEPT !.pc = "idle_notifying"]
  /\ UNCHANGED <<queue, nextSequence, stopping, destroyed, ticketVars, metrics,
                 client>>

\* Mutant: threads in wait_idle are not notified.
WorkerIdleSilently ==
  /\ worker.pc = "idle_notifying"
  /\ worker' = [pc |-> "checking", job |-> NoTicket, loaded |-> {}]
  /\ UNCHANGED <<implVars, ticketVars, metrics, client>>
WorkerIdleNotify ==
  /\ worker.pc = "idle_notifying"
  /\ client' = WakeIdleWaiters(client)
  /\ worker' = [pc |-> "checking", job |-> NoTicket, loaded |-> {}]
  /\ UNCHANGED <<implVars, ticketVars, metrics>>

-----------------------------------------------------------------------------
Submit(c) ==
  \/ \E t \in Tickets :
       \/ \E metadata \in Metadata : SubmitQueued(c, t, metadata)
       \/ SubmitInline(c, t)
  \/ SubmitRejected(c)

Call(c) ==    \* a caller enters the loader or a ticket
  \/ Submit(c)
  \/ \E t \in Tickets : WaitAgain(c, t) \/ WaitReady(c, t) \/ WaitPark(c, t)
  \/ WaitIdle(c)
  \/ DestroyStop(c)

Continue(c) ==    \* a caller inside a call goes on
  \/ SubmitNotify(c) \/ InlineLoad(c) \/ InlinePublish(c) \/ InlineCount(c)
  \/ WaitResume(c) \/ WaitCount(c)
  \/ WaitIdleResume(c)
  \/ DestroyNotify(c) \/ DestroyJoin(c)

WorkerStep ==
  \/ WorkerPark \/ WorkerReturn
  \/ \E t \in Tickets : WorkerPop(t)
  \/ WorkerLoad \/ WorkerPublish \/ WorkerCount \/ WorkerNotify
  \/ WorkerClear \/ WorkerIdleNotify

\* The loader is gone and no caller is inside a call: the end of a session.
Ended ==
  /\ destroyed
  /\ \A c \in Clients : client[c].pc = "running"
  /\ UNCHANGED vars

Next ==
  \/ \E c \in Clients : Call(c) \/ Continue(c) \/ SpuriousWakeup(c)
  \/ WorkerStep \/ SpuriousWorkerWakeup
  \/ Ended

Spec == Init /\ [][Next]_vars

\* The operating system runs every thread that can run, and the storage
\* read behind a load returns.  Nothing obliges a caller to make a call, and
\* no wakeup is owed to a thread nobody notifies.
Fairness ==
  /\ WF_vars(WorkerStep)
  /\ \A c \in Clients : WF_vars(Continue(c))

FairSpec == Spec /\ Fairness

-----------------------------------------------------------------------------
(* Properties                                                              *)

\* wait_idle returns, and the destructor has joined, only when no callable is
\* queued or running and every accepted load has been published and counted:
\* the raw Reader and store pointers a callable captures are used no more.
InlinePending ==
  {c \in Clients : client[c].pc \in {"inline_load", "inline_publish",
                                     "inline_count"}}
IdleMeansQuiescent ==
  Idle =>
    /\ worker.pc \in {"checking", "parked", "idle_notifying", "returned"}
    /\ \A t \in Tickets : job[t] # {} => result[t] # {}
    /\ metrics.completions + Cardinality(InlinePending) = metrics.submissions

\* ~Impl drains: when the worker has returned, every accepted load has run,
\* so a ticket that outlives the loader never waits for ever.
StopDrainsQueue ==
  worker.pc = "returned" =>
    /\ queue = {}
    /\ \A t \in Tickets : job[t] # {} => result[t] # {}

\* A ticket is consumed once: two waits, of one thread or of two, never both
\* move the payload out, and every wait that got a payload is counted as
\* exactly one of ready before use and late at use.
SingleConsumption ==
  /\ \A t \in Tickets : taken[t] <= 1
  /\ metrics.readyBeforeUse + metrics.lateAtUse
       + Cardinality({c \in Clients : client[c].pc = "wait_count"})
     = Cardinality({t \in Tickets : taken[t] > 0})

\* wait_idle returns, and the destructor has joined, only when no callable is
\* queued or running, every accepted load has been published and counted, and a
\* result has been taken by one wait at most; and a worker that has returned has
\* drained the queue, so that a ticket that outlives the loader never waits for
\* ever.
LoaderIsSafe == TypeOK /\ IdleMeansQuiescent /\ StopDrainsQueue /\ SingleConsumption

\* Every call returns: ticket waits, wait_idle and the destructor included.
CallsReturn ==
  \A c \in Clients : client[c].pc # "running" ~> client[c].pc = "running"

\* The loader implements the thread-free service of ExpertDelivery: the order,
\* the bound on what waits, and the exactly-once service.
Delivery ==
  INSTANCE ExpertDelivery WITH
    Instants <- {metadata.use - metadata.latency : metadata \in Metadata},
    waiting <- queue,
    running <- IF worker.pc \in {"loading", "publishing"} THEN {worker.job}
               ELSE {},
    due <- [t \in Tickets |->
              IF job[t] = {} THEN <<>>
              ELSE <<LatestStart(t), Job(t).sequence>>],
    outcome <- result,
    delivered <- {t \in Tickets : taken[t] > 0}
ImplementsDelivery == Delivery!SafeSpec
=============================================================================
