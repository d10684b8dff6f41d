------------------------------ MODULE ReadBatch ------------------------------
(***************************************************************************)
(* How the Reader fetches extents of the K3X file: one batch of requests at *)
(* a time, through pread or an io_uring, buffered or with direct I/O.       *)
(*                                                                         *)
(* Each request has a buffer of its own, which lives until read_extents     *)
(* returns.  The kernel writes into it whenever an operation in flight      *)
(* lands: before that moment the program must not give the buffer up.       *)
(*                                                                         *)
(* External: a file is read as far as it goes (faults: less than that, or   *)
(* an error); completions come in any order; leaving a ring ends whatever   *)
(* is in flight in it.  The byte at offset o of the file is o.  Reads       *)
(* interrupted by a signal, which are repeated, and the clock are left out. *)
(***************************************************************************)
EXTENDS Integers, Sequences

CONSTANTS
  FileLength,     \* superblock_.file_length
  MaximumRead,    \* the most bytes of one read operation
  Alignment,      \* of offsets and lengths in direct I/O
  QueueDepth,     \* of the ring, and of a batch
  RequestLists,   \* what read_extents may be asked for
  MaxReads,       \* bound on the calls
  MaxFaults       \* bound on what the kernel refuses or cuts short

ReadAssumption ==
  /\ FileLength \in Nat /\ MaximumRead \in Nat /\ QueueDepth \in Nat
  /\ Alignment \in Nat \ {0}
  /\ RequestLists \subseteq Seq([offset : Nat, length : Nat])
  /\ MaxReads \in Nat /\ MaxFaults \in Nat
ASSUME ReadConstants == ReadAssumption

VARIABLES
  plane,      \* DataPlane: engine, cache mode, and whether the ring is there
  ring,       \* the entries queued, in flight and completed
  reading,    \* the call under way
  counters,   \* ReadCounters, and calls and faults until now
  answer      \* of the last call

readVars == <<plane, ring, reading, counters, answer>>

Unread == -1
EmptyRing == [queue |-> <<>>, inFlight |-> {}, completed |-> <<>>]
NotReading ==
  [pc |-> "idle", requests |-> <<>>, operations |-> <<>>, base |-> 0, buffers |-> <<>>,
   planned |-> 1, position |-> 0, submitted |-> 0, reaped |-> 0, failed |-> FALSE, error |-> "ok"]

ReadInit ==
  /\ \E engine \in {"pread", "io_uring"}, cache \in {"buffered", "direct"} :
       plane = [engine |-> engine, cache |-> cache, initialized |-> engine = "io_uring"]
  /\ ring = EmptyRing
  /\ reading = NotReading
  /\ counters = [submitted |-> 0, completed |-> 0, completions |-> 0, reads |-> 0, faults |-> 0]
  /\ answer = [error |-> "ok", values |-> <<>>, requests |-> <<>>]

-----------------------------------------------------------------------------
(* Requests and the operations they are read by                            *)

Least(m, n) == IF m < n THEN m ELSE n
RoundedUp(n, unit) == unit * ((n + unit - 1) \div unit)
Direct == plane.cache = "direct"
Valid(r) == r.length > 0 /\ r.offset + r.length <= FileLength

\* What is read for a request: direct I/O begins and ends on boundaries.
Aligned(r) ==
  LET first == IF Direct THEN Alignment * (r.offset \div Alignment) ELSE r.offset
      end == IF Direct THEN RoundedUp(r.offset + r.length, Alignment) ELSE r.offset + r.length
  IN  [offset |-> first, length |-> end - first, required |-> r.offset + r.length - first]

MaximumChunk ==
  CASE plane.engine = "pread" /\ ~Direct -> FileLength
    [] Direct -> Alignment * (MaximumRead \div Alignment)
    [] OTHER -> MaximumRead

\* Mutant of Minimum: the padding has to be there too.
MinimumWhole(position, length, required) == length

\* The least an operation must bring: the padding after a request may be
\* missing, for the file may end in it.
Minimum(position, length, required) ==
  IF position >= required THEN 0 ELSE Least(length, required - position)

\* The next operation for a request, from a position of its buffer on.
Chunk(index, r, position) ==
  LET length == Least(MaximumChunk, Aligned(r).length - position) IN
  [request |-> index, position |-> position, offset |-> Aligned(r).offset + position,
   length |-> length, minimum |-> Minimum(position, length, Aligned(r).required)]

Buffers(requests) ==
  [i \in DOMAIN requests |-> [k \in 1..Aligned(requests[i]).length |-> Unread]]

\* The buffers once an operation has brought its first bytes, from byte "from" on.
Landed(operation, from, bytes) ==
  [reading.buffers EXCEPT ![operation.request] =
     [k \in DOMAIN @ |->
        LET byte == k - 1 - operation.position
        IN  IF byte \in from..(from + bytes - 1) THEN operation.offset + byte ELSE @[k]]]

Values ==
  [i \in DOMAIN reading.requests |->
     LET r == reading.requests[i]
         prefix == r.offset - Aligned(r).offset
     IN  SubSeq(reading.buffers[i], prefix + 1, prefix + r.length)]

\* What the file holds of an operation from a byte on.
Available(operation, from) ==
  LET end == Least(FileLength, operation.offset + operation.length) IN
  IF operation.offset + from < end THEN end - operation.offset - from ELSE 0

-----------------------------------------------------------------------------
(* Calls                                                                    *)

Answered(error, values) ==
  /\ answer' = [error |-> error, values |-> values, requests |-> reading.requests]
  /\ reading' = NotReading

\* read_extents refuses without a trace what does not lie in the file, and
\* every batch once the ring is gone.
Read(requests) ==
  LET refusal ==
        IF \E i \in DOMAIN requests : ~Valid(requests[i]) THEN "invalid_extent"
        ELSE IF plane.engine = "io_uring" /\ ~plane.initialized THEN "storage_unavailable" ELSE "ok"
  IN
  /\ reading.pc = "idle" /\ counters.reads < MaxReads
  /\ counters' = [counters EXCEPT !.reads = @ + 1]
  /\ IF requests = <<>> \/ refusal # "ok"
     THEN /\ answer' = [error |-> refusal, values |-> <<>>, requests |-> requests]
          /\ UNCHANGED reading
     ELSE /\ reading' = [NotReading EXCEPT !.pc = "plan", !.requests = requests,
                                           !.buffers = Buffers(requests)]
          /\ UNCHANGED answer
  /\ UNCHANGED <<plane, ring>>

\* The operations are laid out one by one, request by request.
PlanChunk ==
  /\ reading.pc = "plan"
  /\ LET r == reading.requests[reading.planned]
         chunk == Chunk(reading.planned, r, reading.position)
     IN
     /\ reading.position < Aligned(r).length
     /\ reading' = [reading EXCEPT !.operations = Append(@, chunk), !.position = @ + chunk.length]
  /\ UNCHANGED <<plane, ring, counters, answer>>

PlanNext ==
  /\ reading.pc = "plan"
  /\ reading.position >= Aligned(reading.requests[reading.planned]).length
  /\ reading' =
       IF reading.planned < Len(reading.requests)
       THEN [reading EXCEPT !.planned = @ + 1, !.position = 0]
       ELSE [reading EXCEPT !.pc = IF plane.engine = "pread" THEN "pread" ELSE "prepare"]
  /\ UNCHANGED <<plane, ring, counters, answer>>

Fault == counters.faults < MaxFaults

Finish ==
  /\ reading.pc \in {"pread", "prepare"}
  /\ reading.base = Len(reading.operations)
  /\ Answered("ok", Values)
  /\ counters' = [counters EXCEPT !.completions = @ + Len(reading.requests)]
  /\ UNCHANGED <<plane, ring>>

\* A pread has brought some bytes: the operation goes on, or the call ends.
Counted(asked, bytes, faults) ==
  counters' = [counters EXCEPT !.submitted = @ + asked, !.completed = @ + bytes,
                               !.faults = @ + faults]
Brings(operation, from, whole, bytes) ==
  LET short == IF Direct THEN bytes < whole ELSE bytes = 0 /\ whole > 0
      enough == IF Direct THEN bytes >= operation.minimum ELSE bytes > 0
  IN
  /\ short => Fault
  /\ Counted(operation.length - from, bytes, IF short THEN 1 ELSE 0)
  /\ \/ /\ enough /\ UNCHANGED answer
        /\ reading' = IF Direct \/ from + bytes = operation.length
                      THEN [reading EXCEPT !.buffers = Landed(operation, from, bytes),
                                           !.base = @ + 1, !.reaped = 0]
                      ELSE [reading EXCEPT !.buffers = Landed(operation, from, bytes),
                                           !.reaped = @ + bytes]
     \/ ~enough /\ Answered("truncated_file", <<>>)

\* One pread.  A buffered read goes on where the last one stopped; a direct
\* one has to bring its minimum at once.
Pread ==
  /\ reading.pc = "pread" /\ reading.base < Len(reading.operations)
  /\ LET operation == reading.operations[reading.base + 1]
         from == reading.reaped
         whole == Available(operation, from)
     IN
     \/ \E bytes \in 0..whole : Brings(operation, from, whole, bytes)
     \/ Fault /\ Counted(operation.length - from, 0, 1) /\ Answered("io_error", <<>>)
  /\ UNCHANGED <<plane, ring>>

-----------------------------------------------------------------------------
(* The ring: a batch of as many operations as the queue holds               *)

Count == Least(QueueDepth, Len(reading.operations) - reading.base)

\* IoRingBatchGuard: a batch that does not come to its end takes the ring with
\* it, before the buffers go.
Abandon ==
  /\ plane' = [plane EXCEPT !.initialized = FALSE]
  /\ ring' = EmptyRing

Prepare ==
  /\ reading.pc = "prepare" /\ reading.base < Len(reading.operations)
  /\ IF Len(ring.queue) + Count > QueueDepth
     THEN Abandon /\ Answered("io_error", <<>>)
     ELSE /\ ring' = [ring EXCEPT !.queue = @ \o [k \in 1..Count |->
                        [index |-> reading.base + k, read |-> counters.reads]]]
          /\ reading' = [reading EXCEPT !.pc = "submit", !.submitted = 0, !.reaped = 0,
                                        !.failed = FALSE, !.error = "ok"]
          /\ UNCHANGED <<plane, answer>>
  /\ UNCHANGED counters

\* The kernel takes entries one by one, in order, as many as it likes in a call;
\* the loop asks until it has them all.
SubmitEntry ==
  /\ reading.pc = "submit" /\ ring.queue # <<>>
  /\ ring' = [ring EXCEPT !.queue = Tail(@), !.inFlight = @ \cup {Head(ring.queue)}]
  /\ counters' = [counters EXCEPT
       !.submitted = @ + reading.operations[reading.base + reading.submitted + 1].length]
  /\ reading' = [reading EXCEPT !.submitted = @ + 1,
                   !.pc = IF reading.submitted + 1 = Count THEN "reap" ELSE "submit"]
  /\ UNCHANGED <<plane, answer>>

\* Nothing submitted ends the batch; what was submitted is still waited for.
SubmitFails ==
  /\ reading.pc = "submit" /\ Fault
  /\ counters' = [counters EXCEPT !.faults = @ + 1]
  /\ IF reading.submitted = 0 THEN Abandon /\ Answered("io_error", <<>>)
     ELSE /\ reading' = [reading EXCEPT !.pc = "reap", !.failed = TRUE]
          /\ UNCHANGED <<plane, ring, answer>>

\* The kernel: an operation in flight lands.
Land(entry) ==
  LET operation == reading.operations[entry.index]
      whole == Available(operation, 0)
      Completes(result, faults) ==
        /\ ring' = [ring EXCEPT !.inFlight = @ \ {entry},
                                !.completed = Append(@, [entry |-> entry, result |-> result])]
        /\ counters' = [counters EXCEPT !.faults = @ + faults]
  IN
  /\ entry \in ring.inFlight
  /\ IF reading.pc # "idle" /\ entry.read = counters.reads
     THEN \/ /\ Completes(whole, 0)
             /\ reading' = [reading EXCEPT !.buffers = Landed(operation, 0, whole)]
          \/ \E result \in -1..(whole - 1) :
               /\ Fault /\ Completes(result, 1)
               /\ reading' = [reading EXCEPT !.buffers = Landed(operation, 0, result)]
     ELSE Completes(0, 0) /\ UNCHANGED reading   \* into memory that is no longer the call's
  /\ UNCHANGED <<plane, answer>>

\* A completion names its operation by index; the first error is kept, and
\* the rest of the batch is still awaited.
Reap ==
  /\ reading.pc = "reap" /\ reading.reaped < reading.submitted /\ ring.completed # <<>>
  /\ LET completion == Head(ring.completed)
         operation == reading.operations[completion.entry.index]
         error == IF completion.result < 0 THEN "io_error"
                  ELSE IF completion.result < operation.minimum THEN "truncated_file" ELSE "ok"
     IN
     /\ ring' = [ring EXCEPT !.completed = Tail(@)]
     /\ reading' = [reading EXCEPT !.reaped = @ + 1, !.error = IF @ = "ok" THEN error ELSE @]
     /\ counters' = [counters EXCEPT !.completed =
                       @ + IF completion.result < 0 THEN 0 ELSE completion.result]
  /\ UNCHANGED <<plane, answer>>

WaitFails ==
  /\ reading.pc = "reap" /\ reading.reaped < reading.submitted /\ Fault
  /\ counters' = [counters EXCEPT !.faults = @ + 1]
  /\ Abandon /\ Answered("io_error", <<>>)

BatchEnds ==
  /\ reading.pc = "reap" /\ reading.reaped = reading.submitted
  /\ IF reading.failed THEN Abandon /\ Answered("io_error", <<>>)
     ELSE /\ IF reading.error # "ok" THEN Answered(reading.error, <<>>)
             ELSE /\ reading' = [reading EXCEPT !.pc = "prepare", !.base = @ + Count]
                  /\ UNCHANGED answer
          /\ UNCHANGED <<plane, ring>>
  /\ UNCHANGED counters

ReadStep ==
  \/ PlanChunk \/ PlanNext \/ Finish \/ Pread
  \/ Prepare \/ SubmitEntry \/ SubmitFails \/ Reap \/ WaitFails \/ BatchEnds
Lands == \E entry \in ring.inFlight : Land(entry)

ReadNext == (\E requests \in RequestLists : Read(requests)) \/ ReadStep \/ Lands

ReadSpec == ReadInit /\ [][ReadNext]_readVars

-----------------------------------------------------------------------------
(* Properties                                                              *)

\* Nothing the kernel may still write or report belongs to another call than
\* the one under way: no read in flight outlives its buffer, and a ring that is
\* kept is clean for the next batch.
RingIsOfThisRead ==
  \A entry \in {ring.queue[k] : k \in DOMAIN ring.queue} \cup ring.inFlight
                 \cup {ring.completed[k].entry : k \in DOMAIN ring.completed} :
    /\ reading.pc # "idle" /\ plane.initialized
    /\ entry.read = counters.reads

\* A successful answer is the bytes of the file, extent by extent, whatever the
\* order of completions and however the extents were cut and aligned; and what
\* lies in the file is only refused after a fault.
AnswersAreRight ==
  /\ answer.error = "ok" =>
       /\ DOMAIN answer.values = DOMAIN answer.requests
       /\ \A i \in DOMAIN answer.requests :
            answer.values[i] =
              [k \in 1..answer.requests[i].length |-> answer.requests[i].offset + k - 1]
  /\ answer.error = "invalid_extent" <=>
       \E i \in DOMAIN answer.requests : ~Valid(answer.requests[i])
  /\ answer.error \in {"io_error", "truncated_file", "storage_unavailable"} => counters.faults > 0

\* Never more bytes are counted as read than were asked for.
BytesAreAskedFor == counters.completed <= counters.submitted

\* What read_extents answers is what the file holds, however extents were cut,
\* aligned and completed; no read in flight outlives the buffer it writes to; and
\* the bytes counted as read were asked for.
ReadsAreRight == RingIsOfThisRead /\ AnswersAreRight /\ BytesAreAskedFor
=============================================================================
