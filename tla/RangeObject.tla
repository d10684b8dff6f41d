----------------------------- MODULE RangeObject -----------------------------
(***************************************************************************)
(* materialize_official_range_object (converter/k3x_converter/             *)
(* official_moe.py): byte ranges of a published shard are fetched chunk by *)
(* chunk into <range>.partial, progress and its digest are kept beside it, *)
(* and a complete range becomes a content-named blob with a record.  The   *)
(* process can be killed between any two file operations, a request can    *)
(* fail, and stored bytes can go bad while nobody runs.                    *)
(*                                                                         *)
(* A range is the sequence of its chunks; a digest is the text it digests. *)
(***************************************************************************)
EXTENDS Naturals, Sequences

CONSTANTS Ranges,      \* identities: revision, shard, start and length
          Data,        \* Data[r]: the chunks the server has for r
          None, Bad,   \* no file; a chunk whose stored bytes went bad
          MaxKills, MaxFailures, MaxDamage

RangeAssumption ==
  /\ \A x \in Ranges : Data[x] \in Seq(STRING) \ {<<>>}
  /\ Bad \notin STRING /\ None \notin Seq(STRING \cup {Bad})
  /\ MaxKills \in Nat /\ MaxFailures \in Nat /\ MaxDamage \in Nat
ASSUME RangeConstants == RangeAssumption

VARIABLES partial,   \* <range>.partial: its chunks, or None
          progress,  \* <range>.progress.json: digest of a prefix, or None
          record,    \* <range>.object.json: digest of the object, or None
          blobs,     \* <digest>.blob: digest -> stored chunks, for the blobs there are
          run,       \* the call in progress
          answer,    \* last answer for each range: "none", "object" or "error"
          fetched,   \* chunks received so far for each range
          kills, failures, damage

files == <<partial, progress, record, blobs>>
bounds == <<kills, failures, damage>>
vars == <<partial, progress, record, blobs, run, answer, fetched, kills, failures, damage>>

Idle == [pc |-> "idle", range |-> None, digest |-> None]

r == run.range
Goto(pc) == run' = [run EXCEPT !.pc = pc]
Drop(f) == [f EXCEPT ![r] = None]

Init ==
  /\ partial = [x \in Ranges |-> None]
  /\ progress = [x \in Ranges |-> None]
  /\ record = [x \in Ranges |-> None]
  /\ blobs = <<>>
  /\ run = Idle
  /\ answer = [x \in Ranges |-> "none"]
  /\ fetched = [x \in Ranges |-> 0]
  /\ kills = 0 /\ failures = 0 /\ damage = 0

Call(x) ==
  /\ run.pc = "idle"
  /\ run' = [pc |-> "record", range |-> x, digest |-> None]
  /\ answer' = [answer EXCEPT ![x] = "none"]
  /\ UNCHANGED <<files, fetched, bounds>>

HasBlob(d) == d \in DOMAIN blobs

Answer(how) == run' = Idle /\ answer' = [answer EXCEPT ![r] = how]

(* Mutant: the recorded object is reused for being there.                  *)
ReuseUnchecked ==
  /\ run.pc = "record" /\ record[r] # None /\ HasBlob(record[r])
  /\ Answer("object")
  /\ UNCHANGED <<files, fetched, bounds>>
(* The recorded object is reused when its bytes still have its digest.    *)
Reuse ==
  /\ run.pc = "record" /\ record[r] # None
  /\ HasBlob(record[r]) /\ blobs[record[r]] = record[r]
  /\ Answer("object")
  /\ UNCHANGED <<files, fetched, bounds>>

Without(d) == [x \in DOMAIN blobs \ {d} |-> blobs[x]]

(* A recorded object that is missing or damaged is forgotten, the object  *)
(* before its record.                                                     *)
ForgetBlob ==
  /\ run.pc = "record" /\ record[r] # None
  /\ HasBlob(record[r]) /\ blobs[record[r]] # record[r]
  /\ blobs' = Without(record[r])
  /\ UNCHANGED <<partial, progress, record, run, answer, fetched, bounds>>

ForgetRecord ==
  /\ run.pc = "record" /\ record[r] # None /\ ~HasBlob(record[r])
  /\ record' = Drop(record)
  /\ UNCHANGED <<partial, progress, blobs, run, answer, fetched, bounds>>

(* Mutant: the size of the partial file is checked, its digest is not.    *)
ProgressOfSize ==
  partial[r] # None /\ progress[r] # None /\ Len(partial[r]) = Len(progress[r])
(* The partial file is continued only when size and digest are the ones   *)
(* the progress file names.                                               *)
ValidProgress ==
  partial[r] # None /\ progress[r] # None /\ partial[r] = progress[r]

DropPartial ==
  /\ run.pc = "record" /\ record[r] = None
  /\ ~ValidProgress /\ partial[r] # None
  /\ partial' = Drop(partial)
  /\ UNCHANGED <<progress, record, blobs, run, answer, fetched, bounds>>

(* Mutant: progress without its partial file is an error. *)
DropProgressRefuses ==
  /\ run.pc = "record" /\ record[r] = None
  /\ partial[r] = None /\ progress[r] # None
  /\ Answer("error")
  /\ UNCHANGED <<files, fetched, bounds>>
DropProgress ==
  /\ run.pc = "record" /\ record[r] = None
  /\ partial[r] = None /\ progress[r] # None
  /\ progress' = Drop(progress)
  /\ UNCHANGED <<partial, record, blobs, run, answer, fetched, bounds>>

(* open(partial, "ab" if completed else "wb") *)
OpenPartial ==
  /\ run.pc = "record" /\ record[r] = None
  /\ \/ ValidProgress /\ UNCHANGED partial
     \/ partial[r] = None /\ progress[r] = None
        /\ partial' = [partial EXCEPT ![r] = <<>>]
  /\ Goto("fetch")
  /\ UNCHANGED <<progress, record, blobs, answer, fetched, bounds>>

(* One exact range is fetched, appended and synced. *)
Fetch ==
  /\ run.pc = "fetch" /\ Len(partial[r]) < Len(Data[r])
  /\ partial' = [partial EXCEPT ![r] = Append(@, Data[r][Len(@) + 1])]
  /\ fetched' = [fetched EXCEPT ![r] = @ + 1]
  /\ Goto("progress")
  /\ UNCHANGED <<progress, record, blobs, answer, bounds>>

(* The request fails or its answer is not the exact range: what was       *)
(* fetched before stays for the next call.                                *)
FetchFails ==
  /\ run.pc = "fetch" /\ Len(partial[r]) < Len(Data[r])
  /\ failures < MaxFailures /\ failures' = failures + 1
  /\ Answer("error")
  /\ UNCHANGED <<files, fetched, kills, damage>>

WriteProgress ==
  /\ run.pc = "progress"
  /\ progress' = [progress EXCEPT ![r] = partial[r]]
  /\ Goto("fetch")
  /\ UNCHANGED <<partial, record, blobs, answer, fetched, bounds>>

(* The complete file takes its content's name unless that name already    *)
(* holds exactly this content.                                            *)
StoreBlob ==
  /\ run.pc = "fetch" /\ Len(partial[r]) = Len(Data[r])
  /\ LET digest == partial[r] IN
     blobs' = [d \in DOMAIN blobs \cup {digest} |->
                 IF d = digest THEN digest ELSE blobs[d]]
  /\ run' = [run EXCEPT !.pc = "store", !.digest = partial[r]]
  /\ partial' = Drop(partial)
  /\ UNCHANGED <<progress, record, answer, fetched, bounds>>

WriteRecord ==
  /\ run.pc = "store"
  /\ record' = [record EXCEPT ![r] = run.digest]
  /\ Goto("scrap")
  /\ UNCHANGED <<partial, progress, blobs, answer, fetched, bounds>>

RemoveProgress ==
  /\ run.pc = "scrap"
  /\ progress' = Drop(progress)
  /\ Answer("object")
  /\ UNCHANGED <<partial, record, blobs, fetched, bounds>>

Step ==
  \/ Reuse \/ ForgetBlob \/ ForgetRecord \/ DropPartial \/ DropProgress \/ OpenPartial
  \/ Fetch \/ WriteProgress \/ StoreBlob \/ WriteRecord \/ RemoveProgress

Kill ==
  /\ run.pc # "idle" /\ kills < MaxKills /\ kills' = kills + 1
  /\ run' = Idle
  /\ UNCHANGED <<files, answer, fetched, failures, damage>>

(* Stored bytes go bad between two runs. *)
DamageBlob ==
  /\ run.pc = "idle" /\ damage < MaxDamage /\ damage' = damage + 1
  /\ \E d \in DOMAIN blobs : blobs' = [blobs EXCEPT ![d] = [@ EXCEPT ![1] = Bad]]
  /\ UNCHANGED <<partial, progress, record, run, answer, fetched, kills, failures>>

DamagePartial ==
  /\ run.pc = "idle" /\ damage < MaxDamage /\ damage' = damage + 1
  /\ \E x \in Ranges : /\ partial[x] \notin {None, <<>>}
                       /\ partial' = [partial EXCEPT ![x][1] = Bad]
  /\ UNCHANGED <<progress, record, blobs, run, answer, fetched, kills, failures>>

Next ==
  \/ \E x \in Ranges : Call(x)
  \/ Step \/ FetchFails \/ Kill \/ DamageBlob \/ DamagePartial

Spec == Init /\ [][Next]_vars

(* A range without an answer, or with an error, is asked for again. *)
FairSpec ==
  /\ Spec /\ WF_vars(Step)
  /\ \A x \in Ranges : SF_vars(answer[x] # "object" /\ Call(x))

------------------------------------------------------------------------------
(* Properties *)

IsPrefixOfData(x, chunks) ==
  Len(chunks) <= Len(Data[x]) /\ \A i \in 1..Len(chunks) : chunks[i] = Data[x][i]

(* Types of the variables. *)
TypeOK ==
  /\ \A x \in Ranges :
       /\ partial[x] # None => Len(partial[x]) <= Len(Data[x])
       /\ record[x] # None => Len(record[x]) = Len(Data[x])
       /\ fetched[x] \in Nat
       /\ answer[x] \in {"none", "object", "error"}
  /\ run.range \in Ranges \cup {None}
  /\ kills \in 0..MaxKills /\ failures \in 0..MaxFailures /\ damage \in 0..MaxDamage

(* Whatever was interrupted or damaged before, a record only ever names    *)
(* the published bytes of its range.                                       *)
RecordsAreRight == \A x \in Ranges : record[x] # None => record[x] = Data[x]

(* A call that answers with an object answers with the right bytes, even   *)
(* when the same blob serves two ranges and went bad in between.           *)
AnswersRight ==
  \A x \in Ranges :
    answer'[x] = "object" /\ answer[x] # "object" =>
      record'[x] = Data[x] /\ record'[x] \in DOMAIN blobs' /\ blobs'[record'[x]] = Data[x]
(* While a call appends to the partial file, what is already there is a    *)
(* true prefix: a damaged or half-written file is never continued.         *)
ContinuesTruePrefix ==
  run.pc \in {"fetch", "progress"} => IsPrefixOfData(r, partial[r])

(* Once a range is recorded no partial file of it is left to be picked up. *)
RecordEndsDownload == \A x \in Ranges : record[x] # None => partial[x] = None

(* Chunks are fetched again only because a kill or damage lost them: a     *)
(* failed request costs none of the chunks fetched before it.              *)
RefetchBounded ==
  \A x \in Ranges : fetched[x] <= Len(Data[x]) * (1 + kills + damage)

(* A download only ever continues a true prefix of its range, a record     *)
(* names the published bytes and ends the download, and no chunk is asked  *)
(* for again unless a kill or damage lost it.                              *)
RangesAreRight ==
  TypeOK /\ ContinuesTruePrefix /\ RecordsAreRight /\ RecordEndsDownload /\ RefetchBounded

(* Seen from outside: a store in which ranges become available, each with  *)
(* its published bytes, and can be lost again by damage; a call answers    *)
(* with an object only when its range is available.                        *)
Available(x) == record[x] # None /\ HasBlob(record[x]) /\ blobs[record[x]] = record[x]
Store == INSTANCE ObjectStore WITH
  available <- {x \in Ranges : Available(x)},
  bytes <- [x \in {y \in Ranges : Available(y)} |-> record[x]],
  losses <- damage
ImplementsStore == Store!Spec /\ [][AnswersRight]_vars
===============================================================================
