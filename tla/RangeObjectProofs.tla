-------------------------- MODULE RangeObjectProofs --------------------------
(***************************************************************************)
(* Theorems about what is fetched from a published checkpoint.             *)
(*                                                                         *)
(* Resumable ranges, for every set of ranges and all their data, ranges    *)
(* with equal bytes included, and every number of kills, failed requests   *)
(* and damaged files.  Slices of experts, for every set of experts that    *)
(* share a directory and every number of calls, kills, failures and damaged*)
(* files, and the transport below them, for every set of hosts, every      *)
(* limit and every number of redirects and calls.                          *)
(***************************************************************************)
EXTENDS RangeObject, ExpertSlice, FiniteSetTheorems, SequenceTheorems, TLAPS

-----------------------------------------------------------------------------
(* The inductive invariant.                                                *)

Size(x) == Len(Data[x])
File == Seq(STRING \cup {Bad})
Stages == {"idle", "record", "fetch", "progress", "store", "scrap"}

RangeTypes ==
  /\ partial \in [Ranges -> File \cup {None}]
  /\ progress \in [Ranges -> File \cup {None}]
  /\ record \in [Ranges -> File \cup {None}]
  /\ \A d \in DOMAIN blobs : blobs[d] \in File /\ \E x \in Ranges : d = Data[x]
  /\ run \in [pc : Stages, range : Ranges \cup {None}, digest : File \cup {None}]
  /\ run.pc # "idle" => r \in Ranges
  /\ answer \in [Ranges -> {"none", "object", "error"}]
  /\ fetched \in [Ranges -> Nat]
  /\ kills \in 0..MaxKills /\ failures \in 0..MaxFailures /\ damage \in 0..MaxDamage

\* Whatever happened to a partial file, it is no longer than its range; the
\* files that name digests name those of published bytes.
FilesAreSound ==
  \A x \in Ranges :
    /\ partial[x] # None => Len(partial[x]) <= Size(x)
    /\ progress[x] # None => IsPrefixOfData(x, progress[x])
    /\ record[x] # None => record[x] = Data[x] /\ partial[x] = None

\* How far the call under way is.
CallIsSound ==
  /\ run.pc \in {"fetch", "progress", "store"} => record[r] = None
  /\ run.pc \in {"fetch", "progress"} => partial[r] # None /\ IsPrefixOfData(r, partial[r])
  /\ run.pc = "fetch" =>
       \/ partial[r] = progress[r]
       \/ partial[r] = <<>> /\ progress[r] = None
  /\ run.pc = "store" => run.digest = Data[r] /\ partial[r] = None
  /\ run.pc = "scrap" => record[r] = Data[r]
  /\ run.pc \in {"store", "scrap"} => HasBlob(Data[r]) /\ blobs[Data[r]] = Data[r]

\* The chunks of a range that need not be fetched again if nothing goes wrong.
Stored(x) ==
  IF record[x] # None THEN (IF Available(x) THEN Size(x) ELSE 0)
  ELSE IF run.pc = "store" /\ r = x THEN Size(x)
  ELSE IF run.pc = "progress" /\ r = x THEN Len(partial[x])
  ELSE IF partial[x] # None /\ partial[x] = progress[x] THEN Len(partial[x])
  ELSE 0

\* Each kill and each damage costs at most one whole range.
Losses == kills + damage
FetchesAreKept == \A x \in Ranges : fetched[x] <= Size(x) * Losses + Stored(x)

RangeInv == RangeTypes /\ FilesAreSound /\ CallIsSound /\ FetchesAreKept

-----------------------------------------------------------------------------
(* What the types say.                                                     *)

LEMMA DataFacts ==
  ASSUME RangeAssumption, NEW x \in Ranges
  PROVE  /\ Data[x] \in File /\ Data[x] # None /\ Size(x) \in Nat \ {0}
         /\ \A i \in 1..Size(x) : Data[x][i] \in STRING /\ Data[x][i] # Bad
<1>1. Data[x] \in Seq(STRING) /\ Data[x] # <<>> /\ None \notin File /\ Bad \notin STRING
  BY DEF RangeAssumption, File
<1>2. Size(x) \in Nat \ {0}
  BY <1>1, EmptySeq DEF Size
<1>3. \A i \in 1..Size(x) : Data[x][i] \in STRING
  BY <1>1, ElementOfSeq DEF Size
<1>4. Data[x] \in Seq(STRING \cup {Bad})
  BY <1>1, <1>2, <1>3, SeqMonotonic DEF Size
<1> QED BY <1>1, <1>2, <1>3, <1>4 DEF File

LEMMA FileFacts ==
  ASSUME RangeAssumption, NEW f \in File
  PROVE  f # None /\ Len(f) \in Nat /\ DOMAIN f = 1..Len(f)
BY LenProperties DEF RangeAssumption, File

LEMMA WholePrefix ==
  ASSUME RangeAssumption, NEW x \in Ranges, NEW f \in File, IsPrefixOfData(x, f),
         Len(f) = Size(x)
  PROVE  f = Data[x]
<1>1. Data[x] \in File
  BY DataFacts
<1>2. Len(f) = Len(Data[x]) /\ \A i \in 1..Len(f) : f[i] = Data[x][i]
  BY DEF IsPrefixOfData, Size
<1> QED BY <1>1, <1>2, SeqEqual DEF File

\* What is stored of a range is no more than the range.
LEMMA StoredIsBounded ==
  ASSUME RangeAssumption, RangeTypes, FilesAreSound, CallIsSound, NEW x \in Ranges
  PROVE  Stored(x) \in Nat /\ Stored(x) <= Size(x)
<1>1. Size(x) \in Nat
  BY DataFacts
<1>2. partial[x] # None => Len(partial[x]) \in Nat /\ Len(partial[x]) <= Size(x)
  BY FileFacts DEF RangeTypes, FilesAreSound
<1>3. run.pc = "progress" /\ r = x => partial[x] # None
  BY DEF CallIsSound
<1> QED BY <1>1, <1>2, <1>3 DEF Stored

LEMMA DamagedFile ==
  ASSUME RangeAssumption, NEW f \in File
  PROVE  [f EXCEPT ![1] = Bad] \in File /\ Len([f EXCEPT ![1] = Bad]) = Len(f)
<1>1. Len(f) \in Nat
  BY FileFacts
<1>2. CASE Len(f) = 0
  <2>1. f = <<>>
    BY <1>2, EmptySeq DEF File
  <2>2. [f EXCEPT ![1] = Bad] = f
    BY <2>1
  <2> QED BY <2>2
<1>3. CASE Len(f) # 0
  <2>1. 1 \in 1..Len(f) /\ Bad \in STRING \cup {Bad}
    BY <1>1, <1>3
  <2> QED BY <2>1, ExceptSeq DEF File
<1> QED BY <1>2, <1>3

LEMMA StoredNext ==
  ASSUME RangeAssumption, RangeTypes', CallIsSound', NEW x \in Ranges
  PROVE  Stored(x)' \in Nat
<1>1. partial' \in [Ranges -> File \cup {None}]
  BY DEF RangeTypes
<1>2. partial'[x] # None => Len(partial'[x]) \in Nat
  BY <1>1, FileFacts
<1>3. run'.pc = "progress" /\ r' = x => partial'[x] # None
  BY DEF CallIsSound
<1>4. Size(x) \in Nat
  BY DataFacts
<1> QED BY <1>2, <1>3, <1>4 DEF Stored, Size

LEMMA FetchesStay ==
  ASSUME RangeAssumption, RangeInv, RangeTypes', CallIsSound', UNCHANGED <<kills, damage>>,
         \A x \in Ranges :
           \/ fetched'[x] = fetched[x] /\ Stored(x)' \in {Stored(x), Size(x)}
           \/ fetched'[x] = fetched[x] + 1 /\ Stored(x)' = Stored(x) + 1
  PROVE  FetchesAreKept'
<1> SUFFICES ASSUME NEW x \in Ranges
             PROVE  fetched'[x] <= Size(x) * Losses' + Stored(x)'
  BY DEF FetchesAreKept, Size
<1>1. kills \in Nat /\ damage \in Nat
  BY DEF RangeInv, RangeTypes, RangeAssumption
<1>2. Losses' = Losses /\ Losses \in Nat
  BY <1>1 DEF Losses
<1>3. /\ Stored(x) \in Nat /\ Stored(x) <= Size(x) /\ fetched[x] \in Nat
      /\ Size(x) \in Nat /\ Stored(x)' \in Nat
  BY StoredIsBounded, StoredNext, DataFacts DEF RangeInv, RangeTypes
<1> DEFINE whole == Size(x) * Losses
<1>4. whole \in Nat /\ fetched[x] <= whole + Stored(x) /\ Size(x) * Losses' = whole
  BY <1>2, <1>3 DEF RangeInv, FetchesAreKept
<1> HIDE DEF whole
<1> QED BY <1>3, <1>4

\* One more kill or damage pays for all that may be lost of every range.
LEMMA FetchesLost ==
  ASSUME RangeAssumption, RangeInv, RangeTypes', CallIsSound',
         kills' + damage' = kills + damage + 1, UNCHANGED fetched
  PROVE  FetchesAreKept'
<1> SUFFICES ASSUME NEW x \in Ranges
             PROVE  fetched'[x] <= Size(x) * Losses' + Stored(x)'
  BY DEF FetchesAreKept, Size
<1>1. kills \in Nat /\ damage \in Nat
  BY DEF RangeInv, RangeTypes, RangeAssumption
<1>2. Losses' = Losses + 1 /\ Losses \in Nat
  BY <1>1 DEF Losses
<1>3. /\ Stored(x) \in Nat /\ Stored(x) <= Size(x) /\ fetched[x] \in Nat /\ Size(x) \in Nat
      /\ Stored(x)' \in Nat /\ fetched'[x] = fetched[x]
  BY StoredIsBounded, StoredNext, DataFacts DEF RangeInv, RangeTypes
<1> DEFINE whole == Size(x) * Losses
<1>4. whole \in Nat /\ fetched[x] <= whole + Stored(x) /\ Size(x) * Losses' = whole + Size(x)
  BY <1>2, <1>3 DEF RangeInv, FetchesAreKept
<1> HIDE DEF whole
<1> QED BY <1>3, <1>4

-----------------------------------------------------------------------------
(* The actions, one by one.                                                *)

LEMMA RangeBegins == RangeAssumption /\ Init => RangeInv
<1> SUFFICES ASSUME RangeAssumption, Init PROVE RangeInv
  OBVIOUS
<1> USE DEF Init, Idle
<1>1. RangeTypes
  BY DEF RangeTypes, RangeAssumption, r, Stages
<1>2. FilesAreSound /\ CallIsSound
  BY DEF FilesAreSound, CallIsSound
<1>3. FetchesAreKept
  <2> SUFFICES ASSUME NEW x \in Ranges PROVE fetched[x] <= Size(x) * Losses + Stored(x)
    BY DEF FetchesAreKept
  <2>1. fetched[x] = 0 /\ Losses = 0 /\ Stored(x) = 0
    BY DEF Losses, Stored
  <2>2. Size(x) \in Nat
    BY DataFacts
  <2> QED BY <2>1, <2>2
<1> QED BY <1>1, <1>2, <1>3 DEF RangeInv

LEMMA CallKeeps ==
  ASSUME RangeAssumption, RangeInv, NEW x \in Ranges, Call(x)
  PROVE  RangeInv'
<1>1. /\ run.pc = "idle" /\ run' = [pc |-> "record", range |-> x, digest |-> None]
      /\ answer' = [answer EXCEPT ![x] = "none"]
      /\ UNCHANGED <<partial, progress, record, blobs, fetched, kills, failures, damage>>
  BY DEF Call, files, bounds
<1>2. RangeTypes'
  BY <1>1 DEF RangeInv, RangeTypes, r, Stages
<1>3. FilesAreSound' /\ CallIsSound'
  BY <1>1 DEF RangeInv, FilesAreSound, CallIsSound
<1>4. \A y \in Ranges : Stored(y)' = Stored(y)
  BY <1>1 DEF Stored, Available, HasBlob, Size
<1> QED BY <1>1, <1>2, <1>3, <1>4, FetchesStay DEF RangeInv

LEMMA ReuseKeeps == ASSUME RangeAssumption, RangeInv, Reuse PROVE RangeInv'
<1>1. /\ run.pc = "record" /\ run' = Idle /\ answer' = [answer EXCEPT ![r] = "object"]
      /\ UNCHANGED <<partial, progress, record, blobs, fetched, kills, failures, damage>>
  BY DEF Reuse, Answer, files, bounds
<1>2. RangeTypes'
  BY <1>1 DEF RangeInv, RangeTypes, r, Idle, Stages
<1>3. FilesAreSound' /\ CallIsSound'
  BY <1>1 DEF RangeInv, FilesAreSound, CallIsSound, Idle
<1>4. \A y \in Ranges : Stored(y)' = Stored(y)
  BY <1>1 DEF Stored, Available, HasBlob, Size, Idle
<1> QED BY <1>1, <1>2, <1>3, <1>4, FetchesStay DEF RangeInv

\* A blob that is forgotten was damaged: no range is stored in it.
LEMMA ForgetBlobKeeps == ASSUME RangeAssumption, RangeInv, ForgetBlob PROVE RangeInv'
<1>1. /\ run.pc = "record" /\ HasBlob(record[r]) /\ blobs[record[r]] # record[r]
      /\ blobs' = [d \in DOMAIN blobs \ {record[r]} |-> blobs[d]]
      /\ UNCHANGED <<partial, progress, record, run, answer, fetched, kills, failures, damage>>
  BY DEF ForgetBlob, Without, bounds
<1>2. RangeTypes'
  BY <1>1 DEF RangeInv, RangeTypes, r
<1>3. FilesAreSound' /\ CallIsSound'
  BY <1>1 DEF RangeInv, FilesAreSound, CallIsSound, r
<1>4. \A y \in Ranges : Available(y)' = Available(y)
  BY <1>1 DEF Available, HasBlob
<1>5. \A y \in Ranges : Stored(y)' = Stored(y)
  BY <1>1, <1>4 DEF Stored, Size, r
<1> QED BY <1>1, <1>2, <1>3, <1>5, FetchesStay DEF RangeInv

LEMMA ForgetRecordKeeps == ASSUME RangeAssumption, RangeInv, ForgetRecord PROVE RangeInv'
<1>1. /\ run.pc = "record" /\ record[r] # None /\ ~HasBlob(record[r])
      /\ record' = [record EXCEPT ![r] = None]
      /\ UNCHANGED <<partial, progress, blobs, run, answer, fetched, kills, failures, damage>>
  BY DEF ForgetRecord, Drop, bounds
<1>2. r \in Ranges /\ r' = r
  BY <1>1 DEF RangeInv, RangeTypes, r
<1>3. RangeTypes'
  BY <1>1, <1>2 DEF RangeInv, RangeTypes
<1>4. FilesAreSound' /\ CallIsSound'
  BY <1>1, <1>2 DEF RangeInv, RangeTypes, FilesAreSound, CallIsSound
<1>5. ASSUME NEW y \in Ranges PROVE Stored(y)' = Stored(y)
  <2>1. CASE y = r
    BY <1>1, <1>2, <2>1 DEF RangeInv, RangeTypes, FilesAreSound, Stored, Available
  <2>2. CASE y # r
    BY <1>1, <1>2, <2>2 DEF RangeInv, RangeTypes, Stored, Available, HasBlob, Size
  <2> QED BY <2>1, <2>2
<1> QED BY <1>1, <1>3, <1>4, <1>5, FetchesStay DEF RangeInv

LEMMA DropPartialKeeps == ASSUME RangeAssumption, RangeInv, DropPartial PROVE RangeInv'
<1>1. /\ run.pc = "record" /\ record[r] = None /\ ~ValidProgress /\ partial[r] # None
      /\ partial' = [partial EXCEPT ![r] = None]
      /\ UNCHANGED <<progress, record, blobs, run, answer, fetched, kills, failures, damage>>
  BY DEF DropPartial, Drop, bounds
<1>2. r \in Ranges /\ r' = r
  BY <1>1 DEF RangeInv, RangeTypes, r
<1>3. RangeTypes'
  BY <1>1, <1>2 DEF RangeInv, RangeTypes
<1>4. FilesAreSound' /\ CallIsSound'
  BY <1>1, <1>2 DEF RangeInv, RangeTypes, FilesAreSound, CallIsSound
<1>5. ASSUME NEW y \in Ranges PROVE Stored(y)' = Stored(y)
  <2>1. Available(y)' = Available(y)
    BY <1>1 DEF Available, HasBlob
  <2>2. CASE y = r
    BY <1>1, <1>2, <2>1, <2>2 DEF RangeInv, RangeTypes, Stored, ValidProgress
  <2>3. CASE y # r
    BY <1>1, <1>2, <2>1, <2>3 DEF RangeInv, RangeTypes, Stored, Size
  <2> QED BY <2>2, <2>3
<1> QED BY <1>1, <1>3, <1>4, <1>5, FetchesStay DEF RangeInv

LEMMA DropProgressKeeps == ASSUME RangeAssumption, RangeInv, DropProgress PROVE RangeInv'
<1>1. /\ run.pc = "record" /\ record[r] = None /\ partial[r] = None
      /\ progress' = [progress EXCEPT ![r] = None]
      /\ UNCHANGED <<partial, record, blobs, run, answer, fetched, kills, failures, damage>>
  BY DEF DropProgress, Drop, bounds
<1>2. r \in Ranges /\ r' = r
  BY <1>1 DEF RangeInv, RangeTypes, r
<1>3. RangeTypes'
  BY <1>1, <1>2 DEF RangeInv, RangeTypes
<1>4. FilesAreSound' /\ CallIsSound'
  BY <1>1, <1>2 DEF RangeInv, RangeTypes, FilesAreSound, CallIsSound
<1>5. ASSUME NEW y \in Ranges PROVE Stored(y)' = Stored(y)
  <2>1. Available(y)' = Available(y)
    BY <1>1 DEF Available, HasBlob
  <2> QED BY <1>1, <1>2, <2>1 DEF RangeInv, RangeTypes, Stored, Size
<1> QED BY <1>1, <1>3, <1>4, <1>5, FetchesStay DEF RangeInv

\* A download goes on from a file whose digest is the one last written.
LEMMA OpenPartialKeeps == ASSUME RangeAssumption, RangeInv, OpenPartial PROVE RangeInv'
<1>1. /\ run.pc = "record" /\ record[r] = None /\ run' = [run EXCEPT !.pc = "fetch"]
      /\ \/ ValidProgress /\ UNCHANGED partial
         \/ /\ partial[r] = None /\ progress[r] = None
            /\ partial' = [partial EXCEPT ![r] = <<>>]
      /\ UNCHANGED <<progress, record, blobs, answer, fetched, kills, failures, damage>>
  BY DEF OpenPartial, Goto, bounds
<1>2. /\ run \in [pc : Stages, range : Ranges \cup {None}, digest : File \cup {None}]
      /\ r \in Ranges /\ <<>> \in File /\ <<>> # None /\ Len(<<>>) = 0
  <2>1. <<>> \in File /\ Len(<<>>) = 0
    BY EmptySeq DEF File
  <2> QED BY <1>1, <2>1, FileFacts DEF RangeInv, RangeTypes
<1>3. r' = r /\ run'.pc = "fetch"
  BY <1>1, <1>2 DEF r
<1>4. RangeTypes'
  <2>1. run' \in [pc : Stages, range : Ranges \cup {None}, digest : File \cup {None}]
    BY <1>1, <1>2 DEF Stages
  <2>2. partial' \in [Ranges -> File \cup {None}]
    BY <1>1, <1>2 DEF RangeInv, RangeTypes
  <2> QED BY <1>1, <1>2, <1>3, <2>1, <2>2 DEF RangeInv, RangeTypes
<1>5. /\ \A y \in Ranges : y # r => partial'[y] = partial[y]
      /\ partial'[r] # None /\ (partial'[r] = partial[r] \/ partial'[r] = <<>>)
      /\ partial'[r] = progress[r] \/ (partial'[r] = <<>> /\ progress[r] = None)
  BY <1>1, <1>2 DEF RangeInv, RangeTypes, ValidProgress
<1>6. FilesAreSound'
  <2>1. \A y \in Ranges : Size(y) \in Nat
    BY DataFacts
  <2> QED BY <1>1, <1>2, <1>5, <2>1 DEF RangeInv, FilesAreSound, Size, IsPrefixOfData
<1>7. CallIsSound'
  <2>1. IsPrefixOfData(r, partial'[r])
    <3>1. Size(r) \in Nat
      BY <1>2, DataFacts
    <3> QED BY <1>2, <1>5, <3>1 DEF RangeInv, FilesAreSound, IsPrefixOfData, Size
  <2> QED BY <1>1, <1>2, <1>3, <1>5, <2>1 DEF CallIsSound, IsPrefixOfData
<1>8. ASSUME NEW y \in Ranges PROVE Stored(y)' = Stored(y)
  <2>1. Available(y)' = Available(y)
    BY <1>1 DEF Available, HasBlob
  <2>2. CASE y = r
    BY <1>1, <1>2, <1>3, <2>1, <2>2 DEF RangeInv, RangeTypes, Stored, ValidProgress
  <2>3. CASE y # r
    BY <1>1, <1>3, <1>5, <2>1, <2>3 DEF Stored, Size
  <2> QED BY <2>2, <2>3
<1> QED BY <1>1, <1>4, <1>6, <1>7, <1>8, FetchesStay DEF RangeInv

\* A chunk is appended to a true prefix.
LEMMA FetchKeeps == ASSUME RangeAssumption, RangeInv, Fetch PROVE RangeInv'
<1> DEFINE chunk == Data[r][Len(partial[r]) + 1]
           more == Append(partial[r], chunk)
<1>1. /\ run.pc = "fetch" /\ Len(partial[r]) < Size(r) /\ run' = [run EXCEPT !.pc = "progress"]
      /\ partial' = [partial EXCEPT ![r] = more] /\ fetched' = [fetched EXCEPT ![r] = @ + 1]
      /\ UNCHANGED <<progress, record, blobs, answer, kills, failures, damage>>
  BY DEF Fetch, Goto, bounds, Size
<1>2. /\ run \in [pc : Stages, range : Ranges \cup {None}, digest : File \cup {None}]
      /\ r \in Ranges /\ partial[r] \in File /\ IsPrefixOfData(r, partial[r])
      /\ record[r] = None
  BY <1>1 DEF RangeInv, RangeTypes, CallIsSound
<1>3. r' = r /\ run'.pc = "progress"
  BY <1>1, <1>2 DEF r
<1>4. Len(partial[r]) \in Nat /\ Size(r) \in Nat /\ chunk \in STRING \cup {Bad}
  <2>1. Len(partial[r]) \in Nat
    BY <1>2, FileFacts
  <2>2. Size(r) \in Nat /\ \A i \in 1..Size(r) : Data[r][i] \in STRING
    BY <1>2, DataFacts
  <2>3. Len(partial[r]) + 1 \in 1..Size(r)
    BY <1>1, <2>1, <2>2
  <2> QED BY <2>1, <2>2, <2>3
<1>5. /\ more \in File /\ Len(more) = Len(partial[r]) + 1
      /\ \A i \in 1..Len(more) : more[i] = IF i <= Len(partial[r]) THEN partial[r][i] ELSE chunk
  BY <1>2, <1>4, AppendProperties DEF File
<1>6. IsPrefixOfData(r, more)
  <2>1. Len(more) <= Len(Data[r])
    BY <1>1, <1>4, <1>5 DEF Size
  <2>2. \A i \in 1..Len(more) : i \in 1..Len(partial[r]) \/ i = Len(partial[r]) + 1
    BY <1>4, <1>5
  <2>3. \A i \in 1..Len(more) : more[i] = Data[r][i]
    BY <1>2, <1>4, <1>5, <2>2 DEF IsPrefixOfData
  <2> QED BY <2>1, <2>3 DEF IsPrefixOfData
<1>7. more # None
  BY <1>5, FileFacts
<1> HIDE DEF more, chunk
<1>8. RangeTypes'
  <2>1. run' \in [pc : Stages, range : Ranges \cup {None}, digest : File \cup {None}]
    BY <1>1, <1>2 DEF Stages
  <2>2. partial' \in [Ranges -> File \cup {None}] /\ fetched' \in [Ranges -> Nat]
    BY <1>1, <1>2, <1>5 DEF RangeInv, RangeTypes
  <2> QED BY <1>1, <1>2, <1>3, <2>1, <2>2 DEF RangeInv, RangeTypes
<1>9. partial'[r] = more /\ \A y \in Ranges : y # r => partial'[y] = partial[y]
  BY <1>1, <1>2 DEF RangeInv, RangeTypes
<1>10. FilesAreSound'
  BY <1>1, <1>2, <1>6, <1>9 DEF RangeInv, FilesAreSound, Size, IsPrefixOfData
<1>11. CallIsSound'
  BY <1>1, <1>2, <1>3, <1>6, <1>7, <1>9 DEF CallIsSound, IsPrefixOfData
<1>12. ASSUME NEW y \in Ranges
       PROVE  \/ fetched'[y] = fetched[y] /\ Stored(y)' = Stored(y)
              \/ fetched'[y] = fetched[y] + 1 /\ Stored(y)' = Stored(y) + 1
  <2>1. Available(y)' = Available(y)
    BY <1>1 DEF Available, HasBlob
  <2>2. CASE y = r
    <3>1. Stored(y)' = Len(more)
      BY <1>1, <1>2, <1>3, <1>9, <2>2 DEF Stored
    <3>2. Stored(y) = Len(partial[r])
      <4>1. /\ partial[r] # None
            /\ progress[r] = None /\ partial[r] = <<>> => Len(partial[r]) = 0
        BY <1>1, <1>2, EmptySeq DEF RangeInv, CallIsSound
      <4> QED BY <1>1, <1>2, <2>2, <4>1 DEF RangeInv, CallIsSound, Stored
    <3>3. fetched'[y] = fetched[y] + 1
      BY <1>1, <1>2, <2>2 DEF RangeInv, RangeTypes
    <3> QED BY <3>1, <3>2, <3>3, <1>5
  <2>3. CASE y # r
    <3>1. Stored(y)' = Stored(y)
      BY <1>1, <1>3, <1>9, <2>1, <2>3 DEF Stored, Size
    <3>2. fetched'[y] = fetched[y]
      BY <1>1, <1>2, <2>3 DEF RangeInv, RangeTypes
    <3> QED BY <3>1, <3>2
  <2> QED BY <2>2, <2>3
<1> QED BY <1>1, <1>8, <1>10, <1>11, <1>12, FetchesStay DEF RangeInv

LEMMA FetchFailsKeeps == ASSUME RangeAssumption, RangeInv, FetchFails PROVE RangeInv'
<1>1. /\ run.pc = "fetch" /\ run' = Idle /\ answer' = [answer EXCEPT ![r] = "error"]
      /\ failures < MaxFailures /\ failures' = failures + 1
      /\ UNCHANGED <<partial, progress, record, blobs, fetched, kills, damage>>
  BY DEF FetchFails, Answer, files
<1>2. RangeTypes'
  <2>1. failures' \in 0..MaxFailures
    BY <1>1 DEF RangeInv, RangeTypes, RangeAssumption
  <2> QED BY <1>1, <2>1 DEF RangeInv, RangeTypes, r, Idle, Stages
<1>3. FilesAreSound' /\ CallIsSound'
  BY <1>1 DEF RangeInv, FilesAreSound, CallIsSound, Idle
<1>4. \A y \in Ranges : Stored(y)' = Stored(y)
  BY <1>1 DEF Stored, Available, HasBlob, Size, Idle
<1> QED BY <1>1, <1>2, <1>3, <1>4, FetchesStay DEF RangeInv

LEMMA WriteProgressKeeps == ASSUME RangeAssumption, RangeInv, WriteProgress PROVE RangeInv'
<1>1. /\ run.pc = "progress" /\ run' = [run EXCEPT !.pc = "fetch"]
      /\ progress' = [progress EXCEPT ![r] = partial[r]]
      /\ UNCHANGED <<partial, record, blobs, answer, fetched, kills, failures, damage>>
  BY DEF WriteProgress, Goto, bounds
<1>2. /\ run \in [pc : Stages, range : Ranges \cup {None}, digest : File \cup {None}]
      /\ r \in Ranges /\ partial[r] # None /\ IsPrefixOfData(r, partial[r]) /\ record[r] = None
  BY <1>1 DEF RangeInv, RangeTypes, CallIsSound
<1>3. r' = r /\ run'.pc = "fetch"
  BY <1>1, <1>2 DEF r
<1>4. RangeTypes'
  <2>1. run' \in [pc : Stages, range : Ranges \cup {None}, digest : File \cup {None}]
    BY <1>1, <1>2 DEF Stages
  <2>2. progress' \in [Ranges -> File \cup {None}]
    BY <1>1, <1>2 DEF RangeInv, RangeTypes
  <2> QED BY <1>1, <1>2, <1>3, <2>1, <2>2 DEF RangeInv, RangeTypes
<1>5. progress'[r] = partial[r] /\ \A y \in Ranges : y # r => progress'[y] = progress[y]
  BY <1>1, <1>2 DEF RangeInv, RangeTypes
<1>6. FilesAreSound' /\ CallIsSound'
  BY <1>1, <1>2, <1>3, <1>5 DEF RangeInv, FilesAreSound, CallIsSound, Size, IsPrefixOfData
<1>7. ASSUME NEW y \in Ranges PROVE Stored(y)' = Stored(y)
  <2>1. Available(y)' = Available(y)
    BY <1>1 DEF Available, HasBlob
  <2> QED BY <1>1, <1>2, <1>3, <1>5, <2>1 DEF Stored, Size
<1> QED BY <1>1, <1>4, <1>6, <1>7, FetchesStay DEF RangeInv

\* The blob holds the published bytes, also for other ranges that have them.
LEMMA StoreBlobFacts ==
  ASSUME RangeAssumption, RangeInv, StoreBlob
  PROVE  /\ run.pc = "fetch" /\ r \in Ranges /\ partial[r] = Data[r] /\ record[r] = None
         /\ blobs' = [d \in DOMAIN blobs \cup {Data[r]} |-> IF d = Data[r] THEN d ELSE blobs[d]]
         /\ run' = [run EXCEPT !.pc = "store", !.digest = Data[r]]
         /\ partial' = [partial EXCEPT ![r] = None]
         /\ UNCHANGED <<progress, record, answer, fetched, kills, failures, damage>>
<1>1. /\ run.pc = "fetch" /\ Len(partial[r]) = Len(Data[r])
      /\ blobs' = [d \in DOMAIN blobs \cup {partial[r]} |->
                     IF d = partial[r] THEN partial[r] ELSE blobs[d]]
      /\ run' = [run EXCEPT !.pc = "store", !.digest = partial[r]]
      /\ partial' = [partial EXCEPT ![r] = None]
      /\ UNCHANGED <<progress, record, answer, fetched, kills, failures, damage>>
  BY DEF StoreBlob, Drop, bounds
<1>2. r \in Ranges /\ partial[r] \in File /\ IsPrefixOfData(r, partial[r]) /\ record[r] = None
  BY <1>1 DEF RangeInv, RangeTypes, CallIsSound
<1>3. partial[r] = Data[r]
  BY <1>1, <1>2, WholePrefix DEF Size
<1> QED BY <1>1, <1>2, <1>3

LEMMA StoreBlobKeeps == ASSUME RangeAssumption, RangeInv, StoreBlob PROVE RangeInv'
<1>1. /\ run.pc = "fetch" /\ r \in Ranges /\ record[r] = None
      /\ blobs' = [d \in DOMAIN blobs \cup {Data[r]} |-> IF d = Data[r] THEN d ELSE blobs[d]]
      /\ run' = [run EXCEPT !.pc = "store", !.digest = Data[r]]
      /\ partial' = [partial EXCEPT ![r] = None]
      /\ UNCHANGED <<progress, record, answer, fetched, kills, failures, damage>>
  BY StoreBlobFacts
<1>2. /\ run \in [pc : Stages, range : Ranges \cup {None}, digest : File \cup {None}]
      /\ Data[r] \in File
  BY <1>1, DataFacts DEF RangeInv, RangeTypes
<1>3. r' = r /\ run'.pc = "store" /\ run'.digest = Data[r]
  BY <1>1, <1>2 DEF r
<1>4. RangeTypes'
  <2>1. run' \in [pc : Stages, range : Ranges \cup {None}, digest : File \cup {None}]
    BY <1>1, <1>2 DEF Stages
  <2>2. partial' \in [Ranges -> File \cup {None}]
    BY <1>1, <1>2 DEF RangeInv, RangeTypes
  <2>3. \A d \in DOMAIN blobs' : blobs'[d] \in File /\ \E x \in Ranges : d = Data[x]
    BY <1>1, <1>2 DEF RangeInv, RangeTypes
  <2> QED BY <1>1, <1>2, <1>3, <2>1, <2>2, <2>3 DEF RangeInv, RangeTypes
<1>5. partial'[r] = None /\ \A y \in Ranges : y # r => partial'[y] = partial[y]
  BY <1>1, <1>2 DEF RangeInv, RangeTypes
<1>6. FilesAreSound'
  BY <1>1, <1>5 DEF RangeInv, FilesAreSound, Size, IsPrefixOfData
<1>7. CallIsSound'
  BY <1>1, <1>3, <1>5 DEF CallIsSound, HasBlob
<1>8. ASSUME NEW y \in Ranges PROVE Stored(y)' \in {Stored(y), Size(y)}
  <2>1. CASE y = r
    BY <1>1, <1>3, <2>1 DEF Stored, Size
  <2>2. CASE y # r /\ record[y] # None
    <3>1. record[y] = Data[r] => Available(y)'
      BY <1>1, <2>2 DEF Available, HasBlob
    <3>2. record[y] # Data[r] => Available(y)' = Available(y)
      BY <1>1, <2>2 DEF Available, HasBlob
    <3> QED BY <1>1, <2>2, <3>1, <3>2 DEF Stored, Size
  <2>3. CASE y # r /\ record[y] = None
    BY <1>1, <1>3, <1>5, <2>3 DEF Stored, Size
  <2> QED BY <2>1, <2>2, <2>3
<1> QED BY <1>1, <1>4, <1>6, <1>7, <1>8, FetchesStay DEF RangeInv

LEMMA WriteRecordKeeps == ASSUME RangeAssumption, RangeInv, WriteRecord PROVE RangeInv'
<1>1. /\ run.pc = "store" /\ run' = [run EXCEPT !.pc = "scrap"]
      /\ record' = [record EXCEPT ![r] = run.digest]
      /\ UNCHANGED <<partial, progress, blobs, answer, fetched, kills, failures, damage>>
  BY DEF WriteRecord, Goto, bounds
<1>2. /\ run \in [pc : Stages, range : Ranges \cup {None}, digest : File \cup {None}]
      /\ r \in Ranges /\ partial[r] = None /\ record[r] = None /\ run.digest = Data[r]
      /\ HasBlob(Data[r]) /\ blobs[Data[r]] = Data[r] /\ Data[r] \in File /\ Data[r] # None
  BY <1>1, DataFacts DEF RangeInv, RangeTypes, CallIsSound
<1>3. r' = r /\ run'.pc = "scrap"
  BY <1>1, <1>2 DEF r
<1>4. RangeTypes'
  <2>1. run' \in [pc : Stages, range : Ranges \cup {None}, digest : File \cup {None}]
    BY <1>1, <1>2 DEF Stages
  <2>2. record' \in [Ranges -> File \cup {None}]
    BY <1>1, <1>2 DEF RangeInv, RangeTypes
  <2> QED BY <1>1, <1>2, <1>3, <2>1, <2>2 DEF RangeInv, RangeTypes
<1>5. record'[r] = Data[r] /\ \A y \in Ranges : y # r => record'[y] = record[y]
  BY <1>1, <1>2 DEF RangeInv, RangeTypes
<1>6. FilesAreSound' /\ CallIsSound'
  BY <1>1, <1>2, <1>3, <1>5
     DEF RangeInv, FilesAreSound, CallIsSound, Size, IsPrefixOfData, HasBlob
<1>7. ASSUME NEW y \in Ranges PROVE Stored(y)' = Stored(y)
  <2>1. CASE y = r
    BY <1>1, <1>2, <1>5, <2>1 DEF Stored, Available, HasBlob, Size
  <2>2. CASE y # r
    BY <1>1, <1>3, <1>5, <2>2 DEF Stored, Available, HasBlob, Size
  <2> QED BY <2>1, <2>2
<1> QED BY <1>1, <1>4, <1>6, <1>7, FetchesStay DEF RangeInv

LEMMA RemoveProgressKeeps == ASSUME RangeAssumption, RangeInv, RemoveProgress PROVE RangeInv'
<1>1. /\ run.pc = "scrap" /\ run' = Idle /\ answer' = [answer EXCEPT ![r] = "object"]
      /\ progress' = [progress EXCEPT ![r] = None]
      /\ UNCHANGED <<partial, record, blobs, fetched, kills, failures, damage>>
  BY DEF RemoveProgress, Drop, Answer, bounds
<1>2. r \in Ranges /\ record[r] = Data[r] /\ Data[r] # None
  BY <1>1, DataFacts DEF RangeInv, RangeTypes, CallIsSound
<1>3. RangeTypes'
  BY <1>1, <1>2 DEF RangeInv, RangeTypes, r, Idle, Stages
<1>4. progress'[r] = None /\ \A y \in Ranges : y # r => progress'[y] = progress[y]
  BY <1>1, <1>2 DEF RangeInv, RangeTypes
<1>5. FilesAreSound' /\ CallIsSound'
  BY <1>1, <1>4 DEF RangeInv, FilesAreSound, CallIsSound, Idle, Size, IsPrefixOfData
<1>6. \A y \in Ranges : Stored(y)' = Stored(y)
  BY <1>1, <1>2, <1>4 DEF Stored, Available, HasBlob, Size, Idle
<1> QED BY <1>1, <1>3, <1>5, <1>6, FetchesStay DEF RangeInv

\* What is killed, or goes bad, costs at most what was stored.
LEMMA KillKeeps == ASSUME RangeAssumption, RangeInv, Kill PROVE RangeInv'
<1>1. /\ kills < MaxKills /\ kills' = kills + 1 /\ run' = Idle
      /\ UNCHANGED <<partial, progress, record, blobs, answer, fetched, failures, damage>>
  BY DEF Kill, files
<1>2. kills \in Nat /\ damage \in Nat /\ kills' \in 0..MaxKills
  BY <1>1 DEF RangeInv, RangeTypes, RangeAssumption
<1>3. RangeTypes'
  BY <1>1, <1>2 DEF RangeInv, RangeTypes, r, Idle, Stages
<1>4. FilesAreSound' /\ CallIsSound'
  BY <1>1 DEF RangeInv, FilesAreSound, CallIsSound, Idle
<1> QED BY <1>1, <1>2, <1>3, <1>4, FetchesLost DEF RangeInv

LEMMA DamageBlobKeeps == ASSUME RangeAssumption, RangeInv, DamageBlob PROVE RangeInv'
<1>1. PICK d \in DOMAIN blobs : blobs' = [blobs EXCEPT ![d] = [@ EXCEPT ![1] = Bad]]
  BY DEF DamageBlob
<1>2. /\ run.pc = "idle" /\ damage < MaxDamage /\ damage' = damage + 1
      /\ UNCHANGED <<partial, progress, record, run, answer, fetched, kills, failures>>
  BY DEF DamageBlob
<1>3. kills \in Nat /\ damage \in Nat /\ damage' \in 0..MaxDamage
  BY <1>2 DEF RangeInv, RangeTypes, RangeAssumption
<1>4. [blobs[d] EXCEPT ![1] = Bad] \in File
  BY <1>1, DamagedFile DEF RangeInv, RangeTypes
<1>5. \A e \in DOMAIN blobs' : blobs'[e] \in File /\ \E x \in Ranges : e = Data[x]
  BY <1>1, <1>4 DEF RangeInv, RangeTypes
<1>6. RangeTypes'
  BY <1>2, <1>3, <1>5 DEF RangeInv, RangeTypes, r
<1>7. FilesAreSound' /\ CallIsSound'
  BY <1>2 DEF RangeInv, FilesAreSound, CallIsSound
<1> QED BY <1>2, <1>3, <1>6, <1>7, FetchesLost DEF RangeInv

LEMMA DamagePartialKeeps == ASSUME RangeAssumption, RangeInv, DamagePartial PROVE RangeInv'
<1>1. PICK x \in Ranges : /\ partial[x] \notin {None, <<>>}
                          /\ partial' = [partial EXCEPT ![x][1] = Bad]
  BY DEF DamagePartial
<1>2. /\ run.pc = "idle" /\ damage < MaxDamage /\ damage' = damage + 1
      /\ UNCHANGED <<progress, record, blobs, run, answer, fetched, kills, failures>>
  BY DEF DamagePartial
<1>3. kills \in Nat /\ damage \in Nat /\ damage' \in 0..MaxDamage
  BY <1>2 DEF RangeInv, RangeTypes, RangeAssumption
<1> DEFINE bad == [partial[x] EXCEPT ![1] = Bad]
<1>4. partial[x] \in File /\ bad \in File /\ Len(bad) = Len(partial[x])
  BY <1>1, DamagedFile DEF RangeInv, RangeTypes
<1>5. partial' = [partial EXCEPT ![x] = bad]
  BY <1>1
<1> HIDE DEF bad
<1>6. RangeTypes'
  <2>1. partial' \in [Ranges -> File \cup {None}]
    BY <1>4, <1>5 DEF RangeInv, RangeTypes
  <2> QED BY <1>2, <1>3, <2>1 DEF RangeInv, RangeTypes, r
<1>7. FilesAreSound'
  <2>1. /\ partial'[x] = bad /\ partial[x] # None
        /\ \A y \in Ranges : y # x => partial'[y] = partial[y]
    BY <1>1, <1>5 DEF RangeInv, RangeTypes
  <2>2. Len(partial'[x]) <= Size(x) /\ record[x] = None
    BY <1>4, <2>1 DEF RangeInv, FilesAreSound
  <2> QED BY <1>2, <2>1, <2>2 DEF RangeInv, FilesAreSound, Size, IsPrefixOfData
<1>8. CallIsSound'
  BY <1>2 DEF CallIsSound
<1> QED BY <1>2, <1>3, <1>6, <1>7, <1>8, FetchesLost DEF RangeInv

LEMMA RangeNextKeeps == RangeAssumption /\ RangeInv /\ [Next]_vars => RangeInv'
<1> SUFFICES ASSUME RangeAssumption, RangeInv, [Next]_vars PROVE RangeInv'
  OBVIOUS
<1>1. ASSUME NEW x \in Ranges, Call(x) PROVE RangeInv'
  BY <1>1, CallKeeps
<1>2. CASE Step
  BY <1>2, ReuseKeeps, ForgetBlobKeeps, ForgetRecordKeeps, DropPartialKeeps, DropProgressKeeps,
     OpenPartialKeeps, FetchKeeps, WriteProgressKeeps, StoreBlobKeeps, WriteRecordKeeps,
     RemoveProgressKeeps DEF Step
<1>3. CASE FetchFails \/ Kill \/ DamageBlob \/ DamagePartial
  BY <1>3, FetchFailsKeeps, KillKeeps, DamageBlobKeeps, DamagePartialKeeps
<1>4. CASE UNCHANGED vars
  <2>1. /\ UNCHANGED <<partial, progress, record, blobs, run, answer, fetched>>
        /\ UNCHANGED <<kills, failures, damage>>
    BY <1>4 DEF vars
  <2>2. RangeTypes' /\ FilesAreSound' /\ CallIsSound'
    BY <2>1 DEF RangeInv, RangeTypes, FilesAreSound, CallIsSound, r, HasBlob, Size,
                IsPrefixOfData
  <2>3. \A y \in Ranges : Stored(y)' = Stored(y)
    BY <2>1 DEF Stored, Available, HasBlob, Size, r
  <2> QED BY <2>1, <2>2, <2>3, FetchesStay DEF RangeInv
<1> QED BY <1>1, <1>2, <1>3, <1>4 DEF Next

-----------------------------------------------------------------------------
(* What the invariant says.                                                *)

LEMMA RangeInvariant == RangeAssumption => (Spec => []RangeInv)
<1> SUFFICES ASSUME RangeAssumption PROVE Spec => []RangeInv
  OBVIOUS
<1>1. Init => RangeInv
  BY RangeBegins
<1>2. RangeInv /\ [Next]_vars => RangeInv'
  BY RangeNextKeeps
<1> QED BY <1>1, <1>2, PTL DEF Spec

LEMMA RangeSafety == RangeAssumption /\ RangeInv => RangesAreRight
<1> SUFFICES ASSUME RangeAssumption, RangeInv PROVE RangesAreRight
  OBVIOUS
<1>1. ContinuesTruePrefix /\ RecordsAreRight /\ RecordEndsDownload
  BY DEF RangeInv, FilesAreSound, CallIsSound, ContinuesTruePrefix, RecordsAreRight,
         RecordEndsDownload
<1>2. RefetchBounded
  <2> SUFFICES ASSUME NEW x \in Ranges PROVE fetched[x] <= Size(x) * (1 + kills + damage)
    BY DEF RefetchBounded, Size
  <2>1. kills \in Nat /\ damage \in Nat /\ fetched[x] \in Nat /\ Size(x) \in Nat
    BY DataFacts DEF RangeInv, RangeTypes, RangeAssumption
  <2>2. Stored(x) \in Nat /\ Stored(x) <= Size(x) /\ fetched[x] <= Size(x) * Losses + Stored(x)
    BY StoredIsBounded DEF RangeInv, FetchesAreKept
  <2> DEFINE whole == Size(x) * Losses
  <2>3. whole \in Nat /\ Size(x) * (1 + kills + damage) = whole + Size(x)
    BY <2>1 DEF Losses
  <2> HIDE DEF whole
  <2> QED BY <2>1, <2>2, <2>3 DEF whole
<1>3. TypeOK
  BY DEF RangeInv, RangeTypes, FilesAreSound, TypeOK, Size, r
<1> QED BY <1>1, <1>2, <1>3 DEF RangesAreRight

-----------------------------------------------------------------------------
(* Seen from outside.                                                      *)

\* A call that answers with an object has it.
LEMMA StepAnswersRight == RangeAssumption /\ RangeInv /\ [Next]_vars => [AnswersRight]_vars
<1> SUFFICES ASSUME RangeAssumption, RangeInv, Next,
                    NEW x \in Ranges, answer'[x] = "object", answer[x] # "object"
             PROVE  /\ record'[x] = Data[x] /\ record'[x] \in DOMAIN blobs'
                    /\ blobs'[record'[x]] = Data[x]
  BY DEF AnswersRight
<1>1. answer \in [Ranges -> {"none", "object", "error"}]
  BY DEF RangeInv, RangeTypes
<1>2. CASE Reuse
  BY <1>1, <1>2 DEF Reuse, Answer, files, RangeInv, FilesAreSound, HasBlob
<1>3. CASE RemoveProgress
  BY <1>1, <1>3 DEF RemoveProgress, Answer, RangeInv, CallIsSound, HasBlob
<1>4. CASE FetchFails
  BY <1>1, <1>4 DEF FetchFails, Answer
<1>5. ASSUME NEW y \in Ranges, Call(y) PROVE FALSE
  BY <1>1, <1>5 DEF Call
<1>6. CASE Kill \/ DamageBlob \/ DamagePartial \/ UNCHANGED answer
  BY <1>6 DEF Kill, DamageBlob, DamagePartial
<1>7. CASE ForgetBlob \/ ForgetRecord \/ DropPartial \/ DropProgress \/ OpenPartial
             \/ Fetch \/ WriteProgress \/ StoreBlob \/ WriteRecord
  BY <1>7 DEF ForgetBlob, ForgetRecord, DropPartial, DropProgress, OpenPartial, Fetch,
              WriteProgress, StoreBlob, WriteRecord
<1> QED BY <1>2, <1>3, <1>4, <1>5, <1>6, <1>7 DEF Next, Step

Ready == {x \in Ranges : Available(x)}

LEMMA ReadyFacts ==
  ASSUME RangeInv
  PROVE  [x \in {y \in Ranges : Available(y)} |-> record[x]] = [x \in Ready |-> Data[x]]
<1>1. \A x \in Ready : record[x] = Data[x]
  BY DEF RangeInv, FilesAreSound, Ready, Available
<1>2. [x \in Ready |-> record[x]] = [x \in Ready |-> Data[x]]
  BY <1>1
<1> QED BY <1>2 DEF Ready

LEMMA ReadyNext ==
  ASSUME RangeInv', NEW xs, Ready' = xs
  PROVE  /\ {x \in Ranges : Available(x)}' = xs
         /\ [x \in {y \in Ranges : Available(y)} |-> record[x]]' = [x \in xs |-> Data[x]]
<1>1. {x \in Ranges : Available(x)}' = xs
  BY DEF Ready
<1>2. \A x \in xs : record'[x] = Data[x]
  BY <1>1 DEF RangeInv, FilesAreSound, Available
<1>3. [x \in {y \in Ranges : Available(y)} |-> record[x]]' = [x \in xs |-> record'[x]]
  BY <1>1
<1> QED BY <1>1, <1>2, <1>3

LEMMA StoreStutters ==
  ASSUME RangeInv, RangeInv', Ready' = Ready, damage' = damage
  PROVE  UNCHANGED Store!vars
<1>1. [x \in {y \in Ranges : Available(y)} |-> record[x]]' = [x \in Ready |-> Data[x]]
  BY ReadyNext
<1>2. {x \in Ranges : Available(x)}' = Ready
  BY ReadyNext
<1>3. [x \in {y \in Ranges : Available(y)} |-> record[x]] = [x \in Ready |-> Data[x]]
  BY ReadyFacts
<1>4. {x \in Ranges : Available(x)} = Ready
  BY DEF Ready
<1> QED BY <1>1, <1>2, <1>3, <1>4 DEF Store!vars

LEMMA StoreMaterializes ==
  ASSUME RangeInv, RangeInv', damage' = damage, NEW x \in Ranges, x \notin Ready, NEW twins,
         twins \in SUBSET {y \in Ranges : Data[y] = Data[x]}, twins # {},
         Ready' = Ready \cup twins
  PROVE  Store!Next
<1>1. PICK xs : xs = Ready \cup twins
  OBVIOUS
<1>2. /\ {y \in Ranges : Available(y)}' = xs
      /\ [y \in {z \in Ranges : Available(z)} |-> record[y]]' = [y \in xs |-> Data[y]]
  BY <1>1, ReadyNext
<1>3. {y \in Ranges : Available(y)} = Ready
  BY DEF Ready
<1>4. \E others \in SUBSET {y \in Ranges : Data[y] = Data[x]} :
        /\ {y \in Ranges : Available(y)}' = {y \in Ranges : Available(y)} \cup others
        /\ [y \in {z \in Ranges : Available(z)} |-> record[y]]'
             = [y \in {z \in Ranges : Available(z)} \cup others |-> Data[y]]
        /\ others # {}
  <2>1. WITNESS twins \in SUBSET {y \in Ranges : Data[y] = Data[x]}
  <2> QED BY <1>1, <1>2, <1>3
<1>5. Store!Materialize(x)
  BY <1>3, <1>4 DEF Store!Materialize, Store!Holds
<1> QED BY <1>5 DEF Store!Next

LEMMA StoreLoses ==
  ASSUME RangeInv, RangeInv', damage' = damage + 1, NEW lost \in SUBSET Ready,
         Ready' = Ready \ lost, \A x, y \in lost : Data[x] = Data[y]
  PROVE  Store!Next
<1>1. PICK xs : xs = Ready \ lost
  OBVIOUS
<1>2. /\ {x \in Ranges : Available(x)}' = xs
      /\ [x \in {y \in Ranges : Available(y)} |-> record[x]]' = [x \in xs |-> Data[x]]
  BY <1>1, ReadyNext
<1>3. {x \in Ranges : Available(x)} = Ready
  BY DEF Ready
<1>4. Store!Holds({x \in Ranges : Available(x)} \ lost)
  BY <1>1, <1>2, <1>3 DEF Store!Holds
<1>5. Store!Lose
  BY <1>3, <1>4 DEF Store!Lose
<1> QED BY <1>5 DEF Store!Next

LEMMA StepImplements ==
  RangeAssumption /\ RangeInv /\ RangeInv' /\ [Next]_vars => [Store!Next]_(Store!vars)
<1> SUFFICES ASSUME RangeAssumption, RangeInv, RangeInv', [Next]_vars
             PROVE  [Store!Next]_(Store!vars)
  OBVIOUS
<1>1. CASE UNCHANGED <<record, blobs, damage>>
  <2>1. Ready' = Ready
    BY <1>1 DEF Ready, Available, HasBlob
  <2> QED BY <1>1, <2>1, StoreStutters
<1>2. CASE ForgetBlob
  <2>1. /\ HasBlob(record[r]) /\ blobs[record[r]] # record[r]
        /\ blobs' = [d \in DOMAIN blobs \ {record[r]} |-> blobs[d]]
        /\ UNCHANGED <<record, damage>>
    BY <1>2 DEF ForgetBlob, Without, bounds
  <2>2. Ready' = Ready
    BY <2>1 DEF Ready, Available, HasBlob
  <2> QED BY <2>1, <2>2, StoreStutters
<1>3. CASE ForgetRecord
  <2>1. /\ ~HasBlob(record[r]) /\ record' = [record EXCEPT ![r] = None]
        /\ UNCHANGED <<blobs, damage>>
    BY <1>3 DEF ForgetRecord, Drop, bounds
  <2>2. Ready' = Ready
    BY <2>1 DEF Ready, Available, HasBlob, RangeInv, RangeTypes
  <2> QED BY <2>1, <2>2, StoreStutters
<1>4. CASE StoreBlob
  <2>1. /\ r \in Ranges /\ UNCHANGED <<record, damage>>
        /\ blobs' = [d \in DOMAIN blobs \cup {Data[r]} |-> IF d = Data[r] THEN d ELSE blobs[d]]
    BY <1>4, StoreBlobFacts
  <2>2. /\ Ready \subseteq Ready'
        /\ \A y \in Ready' \ Ready : record[y] = Data[r] /\ record[y] # None
    BY <2>1 DEF Ready, Available, HasBlob
  <2>3. PICK twins : twins = Ready' \ Ready
    OBVIOUS
  <2>4. \A x, y \in twins : x \in Ranges /\ Data[x] = Data[y]
    BY <2>2, <2>3 DEF RangeInv, FilesAreSound, Ready
  <2>5. CASE twins = {}
    <3>1. Ready' = Ready
      BY <2>2, <2>3, <2>5
    <3> QED BY <2>1, <3>1, StoreStutters
  <2>6. CASE twins # {}
    <3>1. PICK x : x \in twins
      BY <2>6
    <3>2. x \in Ranges /\ x \notin Ready /\ twins \in SUBSET {y \in Ranges : Data[y] = Data[x]}
      BY <2>3, <2>4, <3>1
    <3>3. Ready' = Ready \cup twins
      BY <2>2, <2>3
    <3> QED BY <2>1, <2>6, <3>2, <3>3, StoreMaterializes
  <2> QED BY <2>5, <2>6
<1>5. CASE WriteRecord
  <2>1. /\ run.pc = "store" /\ record' = [record EXCEPT ![r] = run.digest]
        /\ UNCHANGED <<blobs, damage>>
    BY <1>5 DEF WriteRecord, bounds
  <2>2. /\ r \in Ranges /\ record[r] = None /\ run.digest = Data[r] /\ Data[r] # None
        /\ HasBlob(Data[r]) /\ blobs[Data[r]] = Data[r]
    BY <2>1, DataFacts DEF RangeInv, RangeTypes, CallIsSound
  <2>3. record'[r] = Data[r] /\ \A y \in Ranges : y # r => record'[y] = record[y]
    BY <2>1, <2>2 DEF RangeInv, RangeTypes
  <2>4. r \notin Ready
    BY <2>2 DEF Ready, Available
  <2>5. Ready' = Ready \cup {r}
    BY <2>1, <2>2, <2>3, <2>4 DEF Ready, Available, HasBlob
  <2>6. {r} \in SUBSET {y \in Ranges : Data[y] = Data[r]}
    BY <2>2
  <2> QED BY <2>1, <2>2, <2>4, <2>5, <2>6, StoreMaterializes
<1>6. CASE DamageBlob
  <2>1. PICK d \in DOMAIN blobs : blobs' = [blobs EXCEPT ![d] = [@ EXCEPT ![1] = Bad]]
    BY <1>6 DEF DamageBlob
  <2>2. damage' = damage + 1 /\ UNCHANGED record
    BY <1>6 DEF DamageBlob
  <2>3. \A x \in Ranges : record[x] # d => Available(x)' = Available(x)
    BY <2>1, <2>2 DEF Available, HasBlob
  <2>4. ASSUME NEW x \in Ranges, record[x] = d PROVE ~Available(x)'
    <3>1. d \in File /\ d # None /\ 1 \in 1..Len(d) /\ d[1] # Bad
      <4>1. PICK y \in Ranges : d = Data[y]
        BY <2>1 DEF RangeInv, RangeTypes
      <4>2. Data[y] \in File /\ Data[y] # None /\ Size(y) \in Nat \ {0}
            /\ \A i \in 1..Size(y) : Data[y][i] # Bad
        BY DataFacts
      <4> QED BY <4>1, <4>2 DEF Size
    <3>2. blobs'[d] = [blobs[d] EXCEPT ![1] = Bad] /\ blobs[d] \in File
      BY <2>1 DEF RangeInv, RangeTypes
    <3>3. blobs'[d] # d
      <4> SUFFICES ASSUME blobs'[d] = d PROVE FALSE
        OBVIOUS
      <4>1. Len(blobs[d]) = Len(d)
        BY <3>2, DamagedFile
      <4>2. 1 \in 1..Len(blobs[d]) /\ Bad \in STRING \cup {Bad}
        BY <3>1, <4>1
      <4>3. [blobs[d] EXCEPT ![1] = Bad][1] = Bad
        BY <3>2, <4>2, ExceptSeq DEF File
      <4> QED BY <3>1, <3>2, <4>3
    <3> QED BY <2>2, <2>4, <3>3 DEF Available
  <2>5. Ready' \subseteq Ready /\ \A x \in Ready \ Ready' : record[x] = d /\ record[x] # None
    BY <2>3, <2>4 DEF Ready, Available
  <2>6. PICK lost : lost = Ready \ Ready'
    OBVIOUS
  <2>7. \A x, y \in lost : Data[x] = Data[y]
    BY <2>5, <2>6 DEF RangeInv, FilesAreSound, Ready
  <2>8. lost \in SUBSET Ready /\ Ready' = Ready \ lost
    BY <2>5, <2>6
  <2> QED BY <2>2, <2>7, <2>8, StoreLoses
<1>7. CASE DamagePartial
  <2>1. damage' = damage + 1 /\ UNCHANGED <<record, blobs>>
    BY <1>7 DEF DamagePartial
  <2>2. Ready' = Ready
    BY <2>1 DEF Ready, Available, HasBlob
  <2>3. {} \in SUBSET Ready /\ Ready' = Ready \ {}
    BY <2>2
  <2> QED BY <2>1, <2>3, StoreLoses
<1>8. ASSUME NEW x \in Ranges, Call(x) PROVE UNCHANGED <<record, blobs, damage>>
  BY <1>8 DEF Call, files, bounds
<1>9. CASE Reuse \/ DropPartial \/ DropProgress \/ OpenPartial \/ Fetch \/ WriteProgress
             \/ RemoveProgress \/ FetchFails \/ Kill \/ UNCHANGED vars
  <2>1. UNCHANGED <<record, blobs, damage>>
    BY <1>9 DEF Reuse, DropPartial, DropProgress, OpenPartial, Fetch, WriteProgress,
                RemoveProgress, FetchFails, Kill, vars, files, bounds
  <2> QED BY <1>1, <2>1
<1> QED BY <1>1, <1>2, <1>3, <1>4, <1>5, <1>6, <1>7, <1>8, <1>9 DEF Next, Step

-----------------------------------------------------------------------------
(* Theorems.                                                               *)

\* Whatever was killed, failed or went bad, and whichever ranges share their
\* bytes: a download goes on from a true prefix of its range only, a record
\* names the published bytes and leaves no partial file behind, and a range is
\* fetched once more at most for every kill and every damage
\* (materialize_official_range_object).
THEOREM DownloadsAreSound == Spec => []RangesAreRight
<1>1. Spec => []RangeInv
  BY RangeInvariant, RangeConstants
<1>2. RangeInv => RangesAreRight
  BY RangeSafety, RangeConstants
<1> QED BY <1>1, <1>2, PTL

\* A call of materialize_official_range_object that answers with an object
\* leaves the published bytes under the name it answers with.
THEOREM AnswersHoldTheirBytes == Spec => [][AnswersRight]_vars
<1>1. Spec => []RangeInv
  BY RangeInvariant, RangeConstants
<1>2. RangeInv /\ [Next]_vars => [AnswersRight]_vars
  BY StepAnswersRight, RangeConstants
<1> QED BY <1>1, <1>2, PTL DEF Spec

\* Seen from outside, materialize_official_range_object is a store in which
\* ranges become available with their published bytes, and are lost by damage
\* alone, together with those that share the object; a call that answers with
\* an object finds its range available.
THEOREM RangesImplementStore == Spec => ImplementsStore
<1>1. Init => Store!Init
  BY DEF Init, Store!Init, Available
<1>2. RangeInv /\ RangeInv' /\ [Next]_vars => [Store!Next]_(Store!vars)
  BY StepImplements, RangeConstants
<1>3. Spec => []RangeInv
  BY RangeInvariant, RangeConstants
<1>4. Spec => [][AnswersRight]_vars
  BY AnswersHoldTheirBytes
<1> QED BY <1>1, <1>2, <1>3, <1>4, PTL DEF Spec, ImplementsStore, Store!Spec

-----------------------------------------------------------------------------
(* The transport: its inductive invariant.                                 *)

TransportTypes ==
  /\ pc \in {"idle", "open", "check"} /\ host \in Hosts \cup {Nothing}
  /\ pc # "idle" => call \in [kind : {"file", "range"}, wanted : Nat]
  /\ pc # "idle" /\ call.kind = "file" => call.wanted <= Limit
  /\ redirects \in 0..MaxRedirects + 1
  /\ stats \in [requests : Nat, responseBytes : Nat, maximumResponseBytes : Nat]
  /\ pc = "check" => body \in [sent : Nat, got : Nat]
  /\ connected \in Seq(Trusted) /\ delivered \in Seq(Nat)
  /\ accepted \in Seq([wanted : Nat, sent : Nat])
  /\ gets \in 0..MaxGets

\* The redirects of calls that are over; a call that is open has connected
\* once more than it was redirected, and each earlier call refused at most one.
Calls == IF pc = "open" THEN gets - 1 ELSE gets
Hops == IF pc = "open" THEN redirects + 1 ELSE 0
ConnectionsAreCounted ==
  /\ pc = "open" => gets # 0 /\ redirects <= MaxRedirects
  /\ Len(connected) <= stats.requests /\ stats.requests <= Len(connected) + Calls
  /\ Len(connected) <= Calls * (MaxRedirects + 1) + Hops

\* A body that was handed out is all that the server sent.
BodyIsWhole == pc = "check" => body.sent = body.got /\ body.got <= MaxBytes

TransportInv ==
  /\ TransportTypes /\ ConnectionsAreCounted /\ BodyIsWhole
  /\ BytesAreDelivered /\ AcceptedIsComplete

-----------------------------------------------------------------------------
(* A slice: its inductive invariant.                                       *)

SliceStages ==
  {"idle", "fetch", "shard", "manifest", "publish", "k3x", "convert", "return", "undo"}
Named(f) == f[1] \in {"shard", "manifest", "k3x"}

SliceTypes ==
  /\ slice \in [pc : SliceStages, expert : Experts \cup {Nobody},
                created : SUBSET {Shard(Asked), Manifest, K3x(Asked)}, undo : 0..8]
  /\ Asked = Nobody <=> slice.pc = "idle"
  /\ There(Manifest) => dir[Manifest] \in Experts
  /\ late \subseteq Experts

SliceCounts ==
  /\ sliceKills \in 0..MaxSliceKills /\ sliceFailures \in 0..MaxSliceFailures
  /\ sliceDamage \in 0..MaxSliceDamage

\* The final names of a directory lean on each other.
Leans(d) ==
  /\ Manifest \in DOMAIN d => Shard(d[Manifest]) \in DOMAIN d
  /\ \A e \in Experts \ late : K3x(e) \in DOMAIN d => Manifest \in DOMAIN d /\ d[Manifest] = e

\* What is still to be taken back, if the call is taking back.
Pending(f) == slice.pc = "undo" => \E i \in slice.undo..7 : UndoneFiles[i] = f

\* The files with final names: those the call found, and those it made.
FilesAreAccounted ==
  slice.pc # "idle" =>
    /\ \A f \in DOMAIN before : Named(f) /\ There(f) /\ dir[f] = before[f]
    /\ Leans(before)
    /\ slice.created \cap DOMAIN before = {}
    /\ \A f \in Final(dir) : \/ f \in DOMAIN before
                             \/ f \in slice.created /\ Pending(f)
                             \/ \E e \in late : f = K3x(e)
    /\ Manifest \in slice.created /\ There(Manifest) => dir[Manifest] = Asked

\* A partial file and the file it becomes are never there together.
PartialsAreAlone ==
  /\ There(ManifestPartial) => ~There(Manifest)
  /\ \A e \in Experts : There(K3xPartial(e)) => ~There(K3x(e))

\* How far the call is.
ShardIsThere == There(Shard(Asked)) /\ dir[Shard(Asked)] = "good"
ManifestIsThere == There(Manifest) /\ dir[Manifest] = Asked
K3xIsThere == There(K3x(Asked)) /\ dir[K3x(Asked)] = "good"
SliceIsAt ==
  /\ slice.pc \in {"manifest", "publish", "k3x", "convert", "return"} => ShardIsThere
  /\ slice.pc = "publish" => ~There(Manifest)
  /\ slice.pc \in {"k3x", "convert", "return"} => ManifestIsThere
  /\ slice.pc = "convert" => ~There(K3x(Asked))
  /\ slice.pc = "return" => K3xIsThere
  /\ slice.pc = "undo" => slice.undo \in 1..8

SliceInv ==
  /\ SliceTypes /\ SliceCounts /\ Leans(dir) /\ FilesAreAccounted
  /\ PartialsAreAlone /\ SliceIsAt

-----------------------------------------------------------------------------
(* Byte counts.                                                            *)

LEMMA BytesAreFinite ==
  ASSUME NEW s \in Seq(Nat)
  PROVE  IsFiniteSet(Bytes(s)) /\ Total(s) \in Nat
<1>1. DOMAIN s = 1..Len(s) /\ Len(s) \in Nat /\ \A i \in DOMAIN s : s[i] \in Nat
  BY LenProperties, ElementOfSeq
<1>2. PICK bodies : bodies = {{i} \X (1..s[i]) : i \in DOMAIN s}
  OBVIOUS
<1>3. IsFiniteSet(bodies)
  <2>1. PICK f : f = [i \in DOMAIN s |-> {i} \X (1..s[i])]
    OBVIOUS
  <2>2. f \in Surjection(DOMAIN s, bodies)
    <3>1. \A i \in DOMAIN s : f[i] = {i} \X (1..s[i])
      BY <2>1
    <3>2. f \in [DOMAIN s -> bodies]
      BY <2>1, <1>2
    <3>3. \A b \in bodies : \E i \in DOMAIN s : f[i] = b
      BY <3>1, <1>2
    <3> QED BY <3>2, <3>3 DEF Surjection
  <2>3. IsFiniteSet(1..Len(s))
    <3>1. 1 \in Int /\ Len(s) \in Int
      BY <1>1
    <3> QED BY <3>1, FS_Interval
  <2> QED BY <2>2, <2>3, <1>1, FS_Surjection
<1>4. ASSUME NEW b \in bodies PROVE IsFiniteSet(b)
  <2>1. PICK i \in DOMAIN s : b = {i} \X (1..s[i])
    BY <1>2
  <2>2. 1 \in Int /\ s[i] \in Int
    BY <1>1
  <2>3. IsFiniteSet(1..s[i]) /\ IsFiniteSet({i})
    BY <2>2, FS_Interval, FS_Singleton
  <2> QED BY <2>1, <2>3, FS_Product
<1>5. IsFiniteSet(UNION bodies)
  BY <1>3, <1>4, FS_UNION
<1> QED BY <1>2, <1>5, FS_CardinalityType DEF Bytes, Total

\* One more body adds its length.
LEMMA TotalOfAppend ==
  ASSUME NEW s \in Seq(Nat), NEW n \in Nat
  PROVE  Total(Append(s, n)) = Total(s) + n
<1> DEFINE last == {Len(s) + 1} \X (1..n)
<1>1. DOMAIN s = 1..Len(s) /\ Len(s) \in Nat
  BY LenProperties
<1>2. PICK t : t = Append(s, n)
  OBVIOUS
<1>3. /\ DOMAIN t = DOMAIN s \cup {Len(s) + 1} /\ t[Len(s) + 1] = n
      /\ \A i \in DOMAIN s : t[i] = s[i]
  <2>1. t \in Seq(Nat) /\ Len(t) = Len(s) + 1 /\ \A i \in 1..Len(s) : t[i] = s[i]
    BY <1>2, AppendProperties
  <2>2. t[Len(s) + 1] = n
    BY <1>2, AppendProperties
  <2>3. DOMAIN t = 1..(Len(s) + 1)
    BY <2>1, LenProperties
  <2> QED BY <2>1, <2>2, <2>3, <1>1
<1>4. Bytes(t) = Bytes(s) \cup last
  <2>1. Bytes(t) = (UNION {{i} \X (1..t[i]) : i \in DOMAIN s}) \cup last
    BY <1>3 DEF Bytes
  <2> QED BY <2>1, <1>3 DEF Bytes
<1>5. Bytes(s) \cap last = {}
  <2>1. Len(s) + 1 \notin DOMAIN s
    BY <1>1
  <2> QED BY <2>1 DEF Bytes
<1>6. IsFiniteSet(last) /\ Cardinality(last) = n
  <2>1. 1 \in Int /\ n \in Int
    OBVIOUS
  <2>2. IsFiniteSet(1..n) /\ Cardinality(1..n) = n
    BY <2>1, FS_Interval
  <2>3. IsFiniteSet({Len(s) + 1}) /\ Cardinality({Len(s) + 1}) = 1
    BY FS_Singleton
  <2>4. IsFiniteSet(last) /\ Cardinality(last) = 1 * n
    BY <2>2, <2>3, FS_Product, ZenonT(40)
  <2> QED BY <2>4
<1>7. IsFiniteSet(Bytes(s)) /\ Cardinality(Bytes(s)) \in Nat
  BY BytesAreFinite DEF Total
<1>8. Cardinality(Bytes(s) \cup last) = Cardinality(Bytes(s)) + n
  <2> HIDE DEF last
  <2>1. Cardinality(Bytes(s) \cup last)
          = Cardinality(Bytes(s)) + Cardinality(last) - Cardinality(Bytes(s) \cap last)
    BY <1>6, <1>7, FS_Union
  <2>2. Cardinality(Bytes(s) \cap last) = 0
    BY <1>5, FS_EmptySet
  <2> QED BY <2>1, <2>2, <1>6, <1>7
<1> QED BY <1>2, <1>4, <1>8 DEF Total

-----------------------------------------------------------------------------
(* The transport's actions, one by one.                                    *)

LEMMA TransportBegins == TransportInit => TransportInv
<1> SUFFICES ASSUME TransportInit PROVE TransportInv
  OBVIOUS
<1> USE TransportConstants DEF TransportInit, TransportAssumption
<1>1. <<>> \in Seq(Trusted) /\ <<>> \in Seq(Nat) /\ <<>> \in Seq([wanted : Nat, sent : Nat])
      /\ Len(<<>>) = 0
  BY EmptySeq
<1>2. TransportTypes
  BY <1>1 DEF TransportTypes
<1>3. ConnectionsAreCounted
  BY <1>1 DEF ConnectionsAreCounted, Calls, Hops
<1>4. BytesAreDelivered
  <2>1. Bytes(delivered) = {}
    BY DEF Bytes
  <2>2. Total(delivered) = 0
    BY <2>1, FS_EmptySet DEF Total
  <2> QED BY <2>2, <1>1 DEF BytesAreDelivered
<1> QED BY <1>1, <1>2, <1>3, <1>4 DEF TransportInv, BodyIsWhole, AcceptedIsComplete

\* One more request counts, and nothing else.
LEMMA RequestCounts ==
  ASSUME TransportTypes, stats' = [stats EXCEPT !.requests = @ + 1]
  PROVE  /\ stats' \in [requests : Nat, responseBytes : Nat, maximumResponseBytes : Nat]
         /\ stats.requests \in Nat /\ stats'.requests = stats.requests + 1
         /\ stats'.responseBytes = stats.responseBytes
         /\ stats'.maximumResponseBytes = stats.maximumResponseBytes
<1>1. stats \in [requests : Nat, responseBytes : Nat, maximumResponseBytes : Nat]
  BY DEF TransportTypes
<1> QED BY <1>1

\* One more connection for one more request.
LEMMA Connects ==
  ASSUME TransportTypes, NEW h \in Trusted
  PROVE  /\ Append(connected, h) \in Seq(Trusted)
         /\ Len(Append(connected, h)) = Len(connected) + 1
BY AppendProperties DEF TransportTypes

LEMMA GetKeeps ==
  ASSUME TransportInv, NEW kind \in {"file", "range"}, NEW size \in Sizes, NEW h \in Hosts,
         Get(kind, size, h)
  PROVE  TransportInv'
<1> USE TransportConstants DEF TransportAssumption
<1>1. /\ pc = "idle" /\ pc' = "open" /\ gets < MaxGets /\ gets' = gets + 1
      /\ kind = "file" => size <= Limit
      /\ call' = [kind |-> kind, wanted |-> size] /\ h \in Trusted /\ host' = h
      /\ redirects' = 0 /\ stats' = [stats EXCEPT !.requests = @ + 1]
      /\ connected' = Append(connected, h) /\ UNCHANGED <<delivered, accepted>>
  BY DEF Get, Valid
<1>2. connected' \in Seq(Trusted) /\ Len(connected') = Len(connected) + 1
  BY <1>1, Connects DEF TransportInv
<1>3. TransportTypes'
  <2>1. stats' \in [requests : Nat, responseBytes : Nat, maximumResponseBytes : Nat]
    BY <1>1, RequestCounts DEF TransportInv
  <2>2. call' \in [kind : {"file", "range"}, wanted : Nat] /\ call'.kind = kind
        /\ call'.wanted = size
    BY <1>1
  <2>3. gets' \in 0..MaxGets /\ redirects' \in 0..MaxRedirects + 1
    BY <1>1, SMTT(20) DEF TransportInv, TransportTypes
  <2> QED BY <1>1, <1>2, <2>1, <2>2, <2>3 DEF TransportInv, TransportTypes
<1>4. ConnectionsAreCounted'
  <2> DEFINE room == gets * (MaxRedirects + 1)
  <2>1. /\ Len(connected) \in Nat /\ gets \in Nat /\ stats.requests \in Nat
        /\ stats'.requests = stats.requests + 1
    BY <1>1, RequestCounts, LenProperties DEF TransportInv, TransportTypes
  <2>2. Calls' = gets /\ Hops' = 1 /\ Calls = gets /\ Hops = 0
    BY <1>1, <2>1 DEF Calls, Hops
  <2>3. room \in Nat /\ Len(connected) <= room /\ Calls' * (MaxRedirects' + 1) = room
    BY <2>1, <2>2 DEF TransportInv, ConnectionsAreCounted
  <2> HIDE DEF room
  <2>4. Len(connected') <= Calls' * (MaxRedirects' + 1) + Hops'
    BY <1>2, <2>1, <2>2, <2>3
  <2>5. Len(connected') <= stats'.requests /\ stats'.requests <= Len(connected') + Calls'
    BY <1>2, <2>1, <2>2 DEF TransportInv, ConnectionsAreCounted
  <2>6. gets' # 0 /\ redirects' <= MaxRedirects
    BY <1>1, <2>1
  <2> QED BY <2>4, <2>5, <2>6 DEF ConnectionsAreCounted
<1>5. BytesAreDelivered'
  <2>1. stats'.responseBytes = stats.responseBytes
        /\ stats'.maximumResponseBytes = stats.maximumResponseBytes
    BY <1>1 DEF TransportInv, TransportTypes
  <2> QED BY <2>1, <1>1 DEF TransportInv, BytesAreDelivered, Total, Bytes
<1>6. BodyIsWhole' /\ AcceptedIsComplete'
  BY <1>1 DEF TransportInv, BodyIsWhole, AcceptedIsComplete
<1> QED BY <1>3, <1>4, <1>5, <1>6 DEF TransportInv

\* A request that is refused, and one that is followed.
LEMMA RedirectKeeps ==
  ASSUME TransportInv, NEW h \in Hosts, Redirect(h)
  PROVE  TransportInv'
<1> USE TransportConstants DEF TransportAssumption
<1>1. /\ pc = "open" /\ redirects' = redirects + 1
      /\ stats' = [stats EXCEPT !.requests = @ + 1]
      /\ UNCHANGED <<call, gets, body, delivered, accepted>>
  BY DEF Redirect, GetRaises
<1>2. /\ Len(connected) \in Nat /\ gets \in Nat \ {0} /\ redirects \in Nat /\ stats.requests \in Nat
      /\ redirects <= MaxRedirects
      /\ stats'.requests = stats.requests + 1
      /\ stats'.responseBytes = stats.responseBytes
      /\ stats'.maximumResponseBytes = stats.maximumResponseBytes
  BY <1>1, LenProperties DEF TransportInv, TransportTypes, ConnectionsAreCounted
<1>3. BytesAreDelivered'
  BY <1>1, <1>2 DEF TransportInv, BytesAreDelivered, Total, Bytes
<1>4. AcceptedIsComplete'
  BY <1>1 DEF TransportInv, AcceptedIsComplete
<1> DEFINE room == (gets - 1) * (MaxRedirects + 1)
<1>5. /\ room \in Nat /\ Calls = gets - 1 /\ Hops = redirects + 1
      /\ Len(connected) <= room + redirects + 1
      /\ Len(connected) <= stats.requests /\ stats.requests <= Len(connected) + gets - 1
  <2>1. Calls = gets - 1 /\ Hops = redirects + 1 /\ gets - 1 \in Nat
    BY <1>1, <1>2 DEF Calls, Hops
  <2>2. room \in Nat /\ Calls * (MaxRedirects + 1) = room
    BY <2>1
  <2> HIDE DEF room
  <2> QED BY <2>1, <2>2, <1>2 DEF TransportInv, ConnectionsAreCounted
<1>6. CASE redirects' > MaxRedirects \/ ~Valid(h)
  <2>1. pc' = "idle" /\ UNCHANGED <<host, connected>>
    BY <1>6 DEF Redirect, GetRaises
  <2>2. TransportTypes'
    <3>1. stats' \in [requests : Nat, responseBytes : Nat, maximumResponseBytes : Nat]
      BY <1>1, RequestCounts DEF TransportInv
    <3>2. redirects' \in 0..MaxRedirects + 1
      BY <1>1, <1>2
    <3> QED BY <1>1, <2>1, <3>1, <3>2 DEF TransportInv, TransportTypes
  <2>3. Calls' = gets /\ Hops' = 0
    BY <1>1, <2>1 DEF Calls, Hops
  <2>4. gets * (MaxRedirects + 1) = room + MaxRedirects + 1
    BY <1>2
  <2>5. ConnectionsAreCounted'
    <3> HIDE DEF room
    <3>1. Calls' * (MaxRedirects + 1) + Hops' = room + MaxRedirects + 1
      BY <2>3, <2>4, <1>5
    <3>2. Len(connected') <= Calls' * (MaxRedirects' + 1) + Hops'
      BY <3>1, <2>1, <1>2, <1>5
    <3>3. Len(connected') <= stats'.requests /\ stats'.requests <= Len(connected') + Calls'
      BY <2>1, <2>3, <1>2, <1>5
    <3> QED BY <3>2, <3>3, <2>1 DEF ConnectionsAreCounted
  <2>6. BodyIsWhole'
    BY <2>1 DEF BodyIsWhole
  <2> QED BY <2>2, <2>5, <2>6, <1>3, <1>4 DEF TransportInv
<1>7. CASE redirects' <= MaxRedirects /\ Valid(h)
  <2>1. pc' = "open" /\ host' = h /\ connected' = Append(connected, h) /\ h \in Trusted
    <3>1. ~(redirects' > MaxRedirects \/ ~Valid(h))
      BY <1>7, <1>1, <1>2
    <3> QED BY <3>1, <1>1, <1>7 DEF Redirect, Valid
  <2>2. connected' \in Seq(Trusted) /\ Len(connected') = Len(connected) + 1
    BY <2>1, Connects DEF TransportInv
  <2>3. TransportTypes'
    <3>1. stats' \in [requests : Nat, responseBytes : Nat, maximumResponseBytes : Nat]
      BY <1>1, RequestCounts DEF TransportInv
    <3>2. redirects' \in 0..MaxRedirects + 1
      BY <1>1, <1>2, <1>7
    <3> QED BY <1>1, <2>1, <2>2, <3>1, <3>2 DEF TransportInv, TransportTypes
  <2>4. Calls' = gets - 1 /\ Hops' = redirects + 2
    BY <1>1, <1>2, <2>1 DEF Calls, Hops
  <2>5. ConnectionsAreCounted'
    <3>1. Calls' * (MaxRedirects + 1) = room
      BY <2>4
    <3> HIDE DEF room
    <3>2. Len(connected') <= Calls' * (MaxRedirects' + 1) + Hops'
      BY <3>1, <2>2, <2>4, <1>2, <1>5
    <3>3. Len(connected') <= stats'.requests /\ stats'.requests <= Len(connected') + Calls'
      BY <2>2, <2>4, <1>2, <1>5
    <3> QED BY <3>2, <3>3, <1>1, <1>2, <1>7 DEF ConnectionsAreCounted
  <2>6. BodyIsWhole'
    BY <2>1 DEF BodyIsWhole
  <2> QED BY <2>3, <2>5, <2>6, <1>3, <1>4 DEF TransportInv
<1>8. redirects' \in Nat
  BY <1>1, <1>2
<1> QED BY <1>2, <1>6, <1>7, <1>8

\* A call that is over leaves its redirects' connections behind.
LEMMA CallEnds ==
  ASSUME TransportInv, pc = "open", pc' \in {"idle", "check"},
         UNCHANGED <<redirects, connected, gets>>, stats'.requests = stats.requests
  PROVE  ConnectionsAreCounted'
<1> USE TransportConstants DEF TransportAssumption
<1>1. /\ Len(connected) \in Nat /\ gets \in Nat \ {0} /\ redirects \in Nat /\ stats.requests \in Nat
      /\ redirects <= MaxRedirects
  BY LenProperties DEF TransportInv, TransportTypes, ConnectionsAreCounted
<1> DEFINE room == (gets - 1) * (MaxRedirects + 1)
<1>2. room \in Nat /\ gets * (MaxRedirects + 1) = room + MaxRedirects + 1
  BY <1>1
<1>3. Calls = gets - 1 /\ Hops = redirects + 1 /\ Calls' = gets /\ Hops' = 0
  BY DEF Calls, Hops
<1>4. Calls * (MaxRedirects + 1) = room /\ Calls' * (MaxRedirects' + 1) = room + MaxRedirects + 1
  BY <1>2, <1>3
<1> HIDE DEF room
<1>5. Len(connected) <= room + redirects + 1
      /\ Len(connected) <= stats.requests /\ stats.requests <= Len(connected) + gets - 1
  BY <1>1, <1>2, <1>3, <1>4 DEF TransportInv, ConnectionsAreCounted
<1> QED BY <1>1, <1>2, <1>3, <1>4, <1>5 DEF ConnectionsAreCounted

LEMMA GetFailsKeeps ==
  ASSUME TransportInv, GetFails
  PROVE  TransportInv'
<1>1. pc = "open" /\ pc' = "idle"
      /\ UNCHANGED <<host, call, redirects, stats, connected, gets, body, delivered, accepted>>
  BY DEF GetFails, GetRaises
<1>2. ConnectionsAreCounted'
  BY <1>1, CallEnds
<1>3. TransportTypes' /\ BodyIsWhole' /\ AcceptedIsComplete'
  BY <1>1 DEF TransportInv, TransportTypes, BodyIsWhole, AcceptedIsComplete
<1>4. BytesAreDelivered'
  BY <1>1 DEF TransportInv, BytesAreDelivered, Total, Bytes
<1> QED BY <1>2, <1>3, <1>4 DEF TransportInv

LEMMA RespondKeeps ==
  ASSUME TransportInv, NEW declared, NEW sent \in Nat, Respond(declared, sent)
  PROVE  TransportInv'
<1> USE TransportConstants DEF TransportAssumption
<1>1. pc = "open" /\ UNCHANGED <<host, call, redirects, connected, gets, accepted>>
  BY DEF Respond, GetRaises
<1>2. MaxBytes \in Nat
  BY <1>1 DEF TransportInv, TransportTypes, MaxBytes
<1>3. AcceptedIsComplete'
  BY <1>1 DEF TransportInv, AcceptedIsComplete
<1> DEFINE read == Least(sent, MaxBytes + 1)
<1>4. read \in Nat /\ (read <= MaxBytes => read = sent)
  BY <1>2 DEF Least
<1>5. CASE (declared # Nothing /\ declared > MaxBytes) \/ read > MaxBytes
  <2>1. pc' = "idle" /\ UNCHANGED <<stats, body, delivered>>
    BY <1>5 DEF Respond, GetRaises
  <2>2. TransportTypes' /\ BodyIsWhole'
    BY <1>1, <2>1 DEF TransportInv, TransportTypes, BodyIsWhole
  <2>3. BytesAreDelivered'
    BY <2>1 DEF TransportInv, BytesAreDelivered, Total, Bytes
  <2>4. ConnectionsAreCounted'
    BY <1>1, <2>1, CallEnds
  <2> QED BY <1>3, <2>2, <2>3, <2>4 DEF TransportInv
<1>6. CASE ~((declared # Nothing /\ declared > MaxBytes) \/ read > MaxBytes)
  <2>1. /\ body' = [sent |-> sent, got |-> read] /\ pc' = "check"
        /\ delivered' = Append(delivered, read)
        /\ stats' = [stats EXCEPT !.responseBytes = @ + read,
                                  !.maximumResponseBytes = Most(@, read)]
    BY <1>6 DEF Respond
  <2>2. read \in Nat /\ read <= MaxBytes /\ read = sent
    BY <1>2, <1>4, <1>6
  <2> HIDE DEF read
  <2>3. /\ stats.responseBytes \in Nat /\ stats.maximumResponseBytes \in Nat
        /\ stats'.requests = stats.requests /\ stats.requests \in Nat
        /\ stats'.responseBytes = stats.responseBytes + read
        /\ stats'.maximumResponseBytes = Most(stats.maximumResponseBytes, read)
    BY <2>1 DEF TransportInv, TransportTypes
  <2>4. /\ Most(stats.maximumResponseBytes, read) \in {stats.maximumResponseBytes, read}
        /\ stats.maximumResponseBytes <= Most(stats.maximumResponseBytes, read)
        /\ read <= Most(stats.maximumResponseBytes, read)
    BY <2>2, <2>3 DEF Most
  <2>5. /\ delivered \in Seq(Nat) /\ Len(delivered) \in Nat
        /\ delivered' \in Seq(Nat) /\ Len(delivered') = Len(delivered) + 1
        /\ \A i \in 1..Len(delivered) : delivered'[i] = delivered[i] /\ delivered[i] \in Nat
        /\ delivered'[Len(delivered) + 1] = read
    <3>1. delivered \in Seq(Nat)
      BY DEF TransportInv, TransportTypes
    <3>2. \A i \in 1..Len(delivered) : delivered[i] \in Nat
      BY <3>1, ElementOfSeq
    <3> QED BY <3>1, <3>2, <2>1, <2>2, AppendProperties, LenProperties
  <2>6. Total(delivered)' = Total(delivered) + read
    BY <2>1, <2>2, <2>5, TotalOfAppend, SMTT(20) DEF Total, Bytes
  <2>7. BytesAreDelivered'
    <3>1. stats'.responseBytes = Total(delivered)'
      BY <2>3, <2>6 DEF TransportInv, BytesAreDelivered
    <3>2. ASSUME NEW i \in 1..Len(delivered') PROVE delivered'[i] <= stats'.maximumResponseBytes
      <4>1. CASE i = Len(delivered) + 1
        BY <4>1, <2>3, <2>4, <2>5
      <4>2. CASE i \in 1..Len(delivered)
        <5>1. delivered'[i] = delivered[i] /\ delivered[i] <= stats.maximumResponseBytes
              /\ delivered[i] \in Nat
          BY <4>2, <2>5 DEF TransportInv, BytesAreDelivered
        <5>2. stats'.maximumResponseBytes \in Nat
          BY <2>2, <2>3, <2>4
        <5> QED BY <5>1, <5>2, <2>3, <2>4
      <4> QED BY <4>1, <4>2, <2>5
    <3>3. ASSUME stats'.maximumResponseBytes # 0
          PROVE  \E i \in 1..Len(delivered') : delivered'[i] = stats'.maximumResponseBytes
      <4>1. CASE stats'.maximumResponseBytes = read
        <5>1. Len(delivered) + 1 \in 1..Len(delivered')
          BY <2>5
        <5> QED BY <4>1, <5>1, <2>5
      <4>2. CASE stats'.maximumResponseBytes = stats.maximumResponseBytes
        <5>1. PICK i \in 1..Len(delivered) : delivered[i] = stats.maximumResponseBytes
          BY <3>3, <4>2 DEF TransportInv, BytesAreDelivered
        <5>2. i \in 1..Len(delivered') /\ delivered'[i] = delivered[i]
          BY <2>5
        <5> QED BY <4>2, <5>1, <5>2
      <4> QED BY <4>1, <4>2, <2>3, <2>4
    <3> QED BY <3>1, <3>2, <3>3 DEF BytesAreDelivered
  <2>8. TransportTypes'
    <3>1. stats' \in [requests : Nat, responseBytes : Nat, maximumResponseBytes : Nat]
      <4>1. stats \in [requests : Nat, responseBytes : Nat, maximumResponseBytes : Nat]
        BY DEF TransportInv, TransportTypes
      <4>2. stats.responseBytes + read \in Nat /\ Most(stats.maximumResponseBytes, read) \in Nat
        BY <2>2, <2>3, <2>4
      <4> QED BY <4>1, <4>2, <2>1
    <3> QED BY <1>1, <2>1, <2>2, <2>5, <3>1 DEF TransportInv, TransportTypes
  <2>9. BodyIsWhole'
    <3>1. MaxBytes' = MaxBytes
      BY <1>1 DEF MaxBytes
    <3> QED BY <2>1, <2>2, <3>1 DEF BodyIsWhole
  <2>10. ConnectionsAreCounted'
    BY <1>1, <2>1, <2>3, CallEnds
  <2> QED BY <1>3, <2>7, <2>8, <2>9, <2>10 DEF TransportInv
<1> QED BY <1>5, <1>6

LEMMA CheckKeeps ==
  ASSUME TransportInv, NEW range \in BOOLEAN, Check(range)
  PROVE  TransportInv'
<1>1. /\ pc = "check" /\ pc' = "idle"
      /\ UNCHANGED <<host, call, redirects, stats, body, connected, delivered, gets>>
  BY DEF Check
<1>2. ConnectionsAreCounted'
  <2>1. Calls' = Calls /\ Hops' = Hops
    BY <1>1 DEF Calls, Hops
  <2> QED BY <1>1, <2>1 DEF TransportInv, ConnectionsAreCounted
<1>3. BytesAreDelivered' /\ BodyIsWhole'
  BY <1>1 DEF TransportInv, BytesAreDelivered, BodyIsWhole, Total, Bytes
<1>4. accepted' \in Seq([wanted : Nat, sent : Nat]) /\ AcceptedIsComplete'
  <2>1. accepted \in Seq([wanted : Nat, sent : Nat])
    BY DEF TransportInv, TransportTypes
  <2>2. CASE accepted' = accepted
    BY <2>1, <2>2 DEF TransportInv, AcceptedIsComplete
  <2>3. CASE accepted' # accepted
    <3> DEFINE taken == [wanted |-> call.wanted, sent |-> body.sent]
    <3>1. accepted' = Append(accepted, taken) /\ body.got = call.wanted
      BY <2>3 DEF Check
    <3>2. taken \in [wanted : Nat, sent : Nat] /\ taken.sent = taken.wanted
      BY <1>1, <3>1 DEF TransportInv, TransportTypes, BodyIsWhole
    <3> HIDE DEF taken
    <3>3. /\ accepted' \in Seq([wanted : Nat, sent : Nat]) /\ Len(accepted) \in Nat
          /\ Len(accepted') = Len(accepted) + 1
          /\ \A i \in 1..Len(accepted) : accepted'[i] = accepted[i]
          /\ accepted'[Len(accepted) + 1] = taken
      BY <2>1, <3>1, <3>2, AppendProperties, LenProperties
    <3>4. AcceptedIsComplete'
      <4> SUFFICES ASSUME NEW i \in 1..Len(accepted')
                   PROVE  accepted'[i].sent = accepted'[i].wanted
        BY DEF AcceptedIsComplete
      <4>1. CASE i = Len(accepted) + 1
        BY <4>1, <3>2, <3>3
      <4>2. CASE i \in 1..Len(accepted)
        BY <4>2, <3>3 DEF TransportInv, AcceptedIsComplete
      <4> QED BY <4>1, <4>2, <3>3
    <3> QED BY <3>3, <3>4
  <2> QED BY <2>2, <2>3
<1>5. TransportTypes'
  BY <1>1, <1>4 DEF TransportInv, TransportTypes
<1> QED BY <1>2, <1>3, <1>4, <1>5 DEF TransportInv

LEMMA TransportStays ==
  ASSUME TransportInv, UNCHANGED transportVars
  PROVE  TransportInv'
BY DEF transportVars, TransportInv, TransportTypes, ConnectionsAreCounted, Calls, Hops,
       BodyIsWhole, MaxBytes, BytesAreDelivered, Total, Bytes, AcceptedIsComplete

LEMMA TransportInvariant == TransportSpec => []TransportInv
<1>1. TransportInit => TransportInv
  BY TransportBegins
<1>2. TransportInv /\ [TransportNext]_transportVars => TransportInv'
  <2> SUFFICES ASSUME TransportInv, [TransportNext]_transportVars PROVE TransportInv'
    OBVIOUS
  <2>1. ASSUME NEW kind \in {"file", "range"}, NEW size \in Sizes, NEW h \in Hosts,
               Get(kind, size, h)
        PROVE  TransportInv'
    BY <2>1, GetKeeps
  <2>2. ASSUME NEW h \in Hosts, Redirect(h) PROVE TransportInv'
    BY <2>2, RedirectKeeps
  <2>3. ASSUME GetFails PROVE TransportInv'
    BY <2>3, GetFailsKeeps
  <2>4. ASSUME NEW declared, NEW sent \in 0..Limit + 2, Respond(declared, sent)
        PROVE  TransportInv'
    <3>1. sent \in Nat
      BY TransportConstants DEF TransportAssumption
    <3> QED BY <2>4, <3>1, RespondKeeps
  <2>5. ASSUME NEW range \in BOOLEAN, Check(range) PROVE TransportInv'
    BY <2>5, CheckKeeps
  <2>6. CASE UNCHANGED transportVars
    BY <2>6, TransportStays
  <2> QED BY <2>1, <2>2, <2>3, <2>4, <2>5, <2>6 DEF TransportNext, Answers
<1> QED BY <1>1, <1>2, PTL DEF TransportSpec

LEMMA TransportSafety == TransportInv => TransportIsExact
<1> SUFFICES ASSUME TransportInv PROVE TransportIsExact
  OBVIOUS
<1> USE TransportConstants DEF TransportAssumption
<1>1. /\ Len(connected) \in Nat /\ gets \in Nat /\ stats.requests \in Nat /\ redirects \in Nat
      /\ connected \in Seq(Trusted)
  BY LenProperties DEF TransportInv, TransportTypes
<1>2. TransportTypeOK
  BY DEF TransportTypeOK, TransportInv, TransportTypes, BodyIsWhole, MaxBytes
<1>3. ConnectsToTrusted
  BY <1>1, ElementOfSeq DEF ConnectsToTrusted
<1>4. RequestsCoverConnections
  <2> DEFINE room == (gets - 1) * (MaxRedirects + 1)
  <2>1. CASE pc # "open"
    <3>1. Calls = gets /\ Hops = 0
      BY <2>1 DEF Calls, Hops
    <3>2. gets * (MaxRedirects + 1) \in Nat
      BY <1>1
    <3> QED BY <1>1, <3>1, <3>2 DEF TransportInv, ConnectionsAreCounted, RequestsCoverConnections
  <2>2. CASE pc = "open"
    <3>1. Calls = gets - 1 /\ Hops = redirects + 1 /\ redirects <= MaxRedirects /\ gets # 0
      BY <2>2 DEF Calls, Hops, TransportInv, ConnectionsAreCounted
    <3>2. room \in Nat /\ gets * (MaxRedirects + 1) = room + MaxRedirects + 1
          /\ Calls * (MaxRedirects + 1) = room
      BY <1>1, <3>1
    <3> HIDE DEF room
    <3> QED BY <1>1, <3>1, <3>2 DEF TransportInv, ConnectionsAreCounted, RequestsCoverConnections
  <2> QED BY <2>1, <2>2
<1> QED BY <1>2, <1>3, <1>4 DEF TransportIsExact, TransportInv

-----------------------------------------------------------------------------
(* Files and directories.                                                  *)

\* Files of different kinds or of different experts are different files.
LEMMA NamesDiffer ==
  /\ \A e : Shard(e)[1] = "shard" /\ K3x(e)[1] = "k3x" /\ K3xPartial(e)[1] = "k3x.partial"
            /\ Ledger(e)[1] = "k3x.resume.json"
  /\ Manifest[1] = "manifest" /\ Partial[1] = "shard.partial"
  /\ ManifestPartial[1] = "manifest.partial"
  /\ \A e, f : Shard(e) = Shard(f) => e = f
  /\ \A e, f : K3x(e) = K3x(f) => e = f
  /\ \A e, f : K3xPartial(e) = K3xPartial(f) => e = f
<1>1. \A e : Shard(e)[2] = e /\ K3x(e)[2] = e /\ K3xPartial(e)[2] = e
  BY DEF Shard, K3x, K3xPartial
<1> QED BY <1>1 DEF Shard, K3x, K3xPartial, Ledger, Manifest, Partial, ManifestPartial

LEMMA WithFile ==
  ASSUME NEW d, NEW f, NEW content
  PROVE  /\ DOMAIN With(d, f, content) = DOMAIN d \cup {f} /\ With(d, f, content)[f] = content
         /\ \A g \in DOMAIN d : g # f => With(d, f, content)[g] = d[g]
BY DEF With

LEMMA RemovedFile ==
  ASSUME NEW d, NEW f
  PROVE  /\ DOMAIN Removed(d, f) = DOMAIN d \ {f}
         /\ \A g \in DOMAIN d : g # f => Removed(d, f)[g] = d[g]
BY DEF Removed

\* A call that runs has an expert.
LEMMA AskedFor ==
  ASSUME SliceTypes
  PROVE  /\ slice.pc \in SliceStages /\ Asked \in Experts \cup {Nobody}
         /\ slice.created \subseteq {Shard(Asked), Manifest, K3x(Asked)}
         /\ slice.undo \in 0..8
         /\ slice.pc # "idle" => Asked \in Experts
BY SliceConstants DEF SliceAssumption, SliceTypes, Asked

\* How a call's record changes.
LEMMA GoesOn ==
  ASSUME SliceTypes, slice.pc # "idle", NEW stage \in SliceStages \ {"idle"}, GoTo(stage)
  PROVE  /\ slice' \in [pc : SliceStages, expert : Experts \cup {Nobody},
                        created : SUBSET {Shard(Asked)', Manifest, K3x(Asked)'}, undo : 0..8]
         /\ slice'.pc = stage /\ Asked' = Asked /\ slice'.created = slice.created
         /\ (Asked' = Nobody <=> slice'.pc = "idle")
<1>1. /\ slice \in [pc : SliceStages, expert : Experts \cup {Nobody},
                    created : SUBSET {Shard(Asked), Manifest, K3x(Asked)}, undo : 0..8]
      /\ Asked # Nobody
  BY DEF SliceTypes
<1>2. slice' = [slice EXCEPT !.pc = stage]
  BY DEF GoTo
<1>3. slice'.pc = stage /\ slice'.expert = slice.expert /\ slice'.created = slice.created
  BY <1>1, <1>2
<1>4. Asked' = Asked
  BY <1>3 DEF Asked
<1>5. slice' \in [pc : SliceStages, expert : Experts \cup {Nobody},
                  created : SUBSET {Shard(Asked), Manifest, K3x(Asked)}, undo : 0..8]
  BY <1>1, <1>2
<1> QED BY <1>1, <1>3, <1>4, <1>5 DEF Shard, K3x

LEMMA Creates ==
  ASSUME SliceTypes, slice.pc # "idle", NEW stage \in SliceStages \ {"idle"},
         NEW f \in {Shard(Asked), Manifest, K3x(Asked)}, Created(f, stage)
  PROVE  /\ slice' \in [pc : SliceStages, expert : Experts \cup {Nobody},
                        created : SUBSET {Shard(Asked)', Manifest, K3x(Asked)'}, undo : 0..8]
         /\ slice'.pc = stage /\ Asked' = Asked /\ slice'.created = slice.created \cup {f}
         /\ (Asked' = Nobody <=> slice'.pc = "idle")
<1>1. /\ slice \in [pc : SliceStages, expert : Experts \cup {Nobody},
                    created : SUBSET {Shard(Asked), Manifest, K3x(Asked)}, undo : 0..8]
      /\ Asked # Nobody
  BY DEF SliceTypes
<1>2. slice' = [slice EXCEPT !.pc = stage, !.created = @ \cup {f}]
  BY DEF Created
<1>3. slice'.pc = stage /\ slice'.expert = slice.expert
      /\ slice'.created = slice.created \cup {f}
  BY <1>1, <1>2
<1>4. Asked' = Asked
  BY <1>3 DEF Asked
<1>5. slice' \in [pc : SliceStages, expert : Experts \cup {Nobody},
                  created : SUBSET {Shard(Asked), Manifest, K3x(Asked)}, undo : 0..8]
  <2>1. slice.created \cup {f} \in SUBSET {Shard(Asked), Manifest, K3x(Asked)}
    BY <1>1
  <2> QED BY <1>1, <1>2, <2>1
<1> QED BY <1>1, <1>3, <1>4, <1>5 DEF Shard, K3x

LEMMA TakesBack ==
  ASSUME SliceTypes, slice.pc # "idle", Undo
  PROVE  /\ slice' \in [pc : SliceStages, expert : Experts \cup {Nobody},
                        created : SUBSET {Shard(Asked)', Manifest, K3x(Asked)'}, undo : 0..8]
         /\ slice'.pc = "undo" /\ slice'.undo = 1
         /\ Asked' = Asked /\ slice'.created = slice.created
         /\ (Asked' = Nobody <=> slice'.pc = "idle")
<1>1. /\ slice \in [pc : SliceStages, expert : Experts \cup {Nobody},
                    created : SUBSET {Shard(Asked), Manifest, K3x(Asked)}, undo : 0..8]
      /\ Asked # Nobody
  BY DEF SliceTypes
<1>2. slice' = [slice EXCEPT !.pc = "undo", !.undo = 1]
  BY DEF Undo
<1>3. slice'.pc = "undo" /\ slice'.expert = slice.expert /\ slice'.created = slice.created
      /\ slice'.undo = 1
  BY <1>1, <1>2
<1>4. Asked' = Asked
  BY <1>3 DEF Asked
<1>5. slice' \in [pc : SliceStages, expert : Experts \cup {Nobody},
                  created : SUBSET {Shard(Asked), Manifest, K3x(Asked)}, undo : 0..8]
  <2>1. "undo" \in SliceStages /\ 1 \in 0..8
    BY DEF SliceStages
  <2> QED BY <1>1, <1>2, <2>1
<1> QED BY <1>1, <1>3, <1>4, <1>5 DEF Shard, K3x

\* A step that builds: it leaves what the call found, and what it adds to the
\* final names it has created.
LEMMA Builds ==
  ASSUME SliceInv, slice.pc \notin {"idle", "undo"}, slice'.pc \notin {"idle", "undo"},
         Asked' = Asked, UNCHANGED <<before, late>>,
         \A f \in DOMAIN before : f \in DOMAIN dir' /\ dir'[f] = dir[f],
         slice.created \subseteq slice'.created,
         \A f \in slice'.created : f \in slice.created \/ f \notin DOMAIN dir,
         Final(dir)' \subseteq Final(dir) \cup slice'.created,
         Manifest \in slice'.created /\ Manifest \in DOMAIN dir' => dir'[Manifest] = Asked
  PROVE  FilesAreAccounted'
<1> SUFFICES
      /\ \A f \in DOMAIN before : Named(f) /\ f \in DOMAIN dir' /\ dir'[f] = before[f]
      /\ Leans(before)'
      /\ slice'.created \cap DOMAIN before = {}
      /\ \A f \in Final(dir)' : f \in DOMAIN before \/ f \in slice'.created
                                  \/ \E e \in late : f = K3x(e)
  BY DEF FilesAreAccounted, Pending, There, Manifest, K3x, Named
<1>1. /\ \A f \in DOMAIN before : Named(f) /\ f \in DOMAIN dir /\ dir[f] = before[f]
      /\ Leans(before) /\ slice.created \cap DOMAIN before = {}
      /\ \A f \in Final(dir) : f \in DOMAIN before \/ f \in slice.created
                                 \/ \E e \in late : f = K3x(e)
  BY DEF SliceInv, FilesAreAccounted, There
<1>2. Leans(before)'
  BY <1>1 DEF Leans, Manifest, Shard, K3x
<1> QED BY <1>1, <1>2

\* A call that is over, however it ended, owes nothing.
LEMMA Over ==
  ASSUME SliceInv, slice' = NoSlice, UNCHANGED <<dir, late>>, SliceCounts'
  PROVE  SliceInv'
<1> USE DEF NoSlice
<1>1. slice'.pc = "idle" /\ Asked' = Nobody /\ slice'.created = {} /\ slice'.undo = 0
  BY DEF Asked
<1>2. SliceTypes'
  BY <1>1 DEF SliceInv, SliceTypes, There, Manifest, SliceStages
<1>3. Leans(dir)' /\ PartialsAreAlone'
  BY DEF SliceInv, Leans, PartialsAreAlone, There, Manifest, Shard, K3x, ManifestPartial,
         K3xPartial
<1>4. FilesAreAccounted' /\ SliceIsAt'
  BY <1>1 DEF FilesAreAccounted, SliceIsAt
<1> QED BY <1>2, <1>3, <1>4 DEF SliceInv

\* A call that goes to take back what it made, with nothing done to the files.
LEMMA UndoKeeps ==
  ASSUME SliceInv, slice.pc \notin {"idle", "undo"}, Undo, UNCHANGED <<dir, before, late>>,
         SliceCounts'
  PROVE  SliceInv'
<1>1. /\ slice' \in [pc : SliceStages, expert : Experts \cup {Nobody},
                     created : SUBSET {Shard(Asked)', Manifest, K3x(Asked)'}, undo : 0..8]
      /\ slice'.pc = "undo" /\ slice'.undo = 1 /\ Asked' = Asked
      /\ slice'.created = slice.created /\ (Asked' = Nobody <=> slice'.pc = "idle")
  BY TakesBack DEF SliceInv
<1>2. SliceTypes'
  BY <1>1 DEF SliceInv, SliceTypes, There, Manifest
<1>3. Leans(dir)' /\ Leans(before)' = Leans(before) /\ PartialsAreAlone'
  BY DEF SliceInv, Leans, PartialsAreAlone, There, Manifest, Shard, K3x, ManifestPartial,
         K3xPartial
<1>4. SliceIsAt'
  BY <1>1 DEF SliceIsAt
<1>5. ASSUME NEW f \in slice'.created PROVE Pending(f)'
  <2>1. f \in {Shard(Asked), Manifest, K3x(Asked)}
    BY <1>1, AskedFor DEF SliceInv
  <2>2. /\ UndoneFiles'[5] = K3x(Asked) /\ UndoneFiles'[6] = Manifest
        /\ UndoneFiles'[7] = Shard(Asked)
    BY <1>1 DEF UndoneFiles, K3x, Manifest, Shard
  <2>3. 5 \in 1..7 /\ 6 \in 1..7 /\ 7 \in 1..7
    OBVIOUS
  <2> QED BY <1>1, <2>1, <2>2, <2>3 DEF Pending
<1>6. FilesAreAccounted'
  <2>1. /\ \A f \in DOMAIN before : Named(f) /\ There(f) /\ dir[f] = before[f]
        /\ Leans(before) /\ slice.created \cap DOMAIN before = {}
        /\ \A f \in Final(dir) : f \in DOMAIN before \/ f \in slice.created
                                   \/ \E e \in late : f = K3x(e)
        /\ Manifest \in slice.created /\ There(Manifest) => dir[Manifest] = Asked
    BY DEF SliceInv, FilesAreAccounted
  <2> QED BY <1>1, <1>3, <1>5, <2>1 DEF FilesAreAccounted, There, Named, Manifest, K3x, Final
<1> QED BY <1>2, <1>3, <1>4, <1>6 DEF SliceInv

-----------------------------------------------------------------------------
(* The actions of a slice, one by one.                                     *)

LEMMA SliceBegins == SliceInit => SliceInv
<1> SUFFICES ASSUME SliceInit PROVE SliceInv
  OBVIOUS
<1> USE SliceConstants DEF SliceInit, NoSlice, SliceAssumption
<1>1. DOMAIN dir = {} /\ slice.pc = "idle" /\ Asked = Nobody /\ slice.created = {}
  BY DEF Asked
<1>2. SliceTypes
  BY <1>1 DEF SliceTypes, SliceStages, There
<1>3. SliceCounts
  BY DEF SliceCounts
<1> QED BY <1>1, <1>2, <1>3
        DEF SliceInv, Leans, FilesAreAccounted, PartialsAreAlone, SliceIsAt, There

LEMMA CountsKeep ==
  ASSUME SliceInv, [SliceNext]_sliceVars
  PROVE  SliceCounts'
<1> USE SliceConstants DEF SliceAssumption, SliceInv, SliceCounts
<1>1. CASE UNCHANGED sliceVars
  BY <1>1 DEF sliceVars, sliceBounds
<1>2. ASSUME NEW e \in Experts, AskFor(e) PROVE SliceCounts'
  BY <1>2 DEF AskFor, sliceBounds
<1>3. CASE FetchSlice \/ StoreShard \/ WriteManifest \/ PublishManifest \/ UseK3x
             \/ StartConvert \/ Convert \/ Return \/ TakeBack \/ Raise
  BY <1>3 DEF FetchSlice, StoreShard, WriteManifest, PublishManifest, UseK3x, StartConvert,
              Convert, Return, TakeBack, Raise, Stay, sliceBounds
<1>4. CASE FetchSliceFails \/ ConvertFailsLate \/ SliceFails
  BY <1>4 DEF FetchSliceFails, ConvertFailsLate, SliceFails
<1>5. CASE KillSlice
  BY <1>5 DEF KillSlice
<1>6. CASE DamageSlice
  BY <1>6 DEF DamageSlice
<1> QED BY <1>1, <1>2, <1>3, <1>4, <1>5, <1>6 DEF SliceNext, SliceStep

LEMMA AskForKeeps ==
  ASSUME SliceInv, NEW e \in Experts, AskFor(e), SliceCounts'
  PROVE  SliceInv'
<1>1. /\ slice.pc = "idle" /\ UNCHANGED <<dir, late>>
      /\ slice' = [pc |-> "fetch", expert |-> e, created |-> {}, undo |-> 0]
      /\ before' = [f \in Final(dir) |-> dir[f]]
  BY DEF AskFor, NoSlice
<1>2. slice'.pc = "fetch" /\ Asked' = e /\ slice'.created = {}
  BY <1>1 DEF Asked
<1>3. SliceTypes'
  <2>1. e # Nobody
    BY SliceConstants DEF SliceAssumption
  <2> QED BY <1>1, <1>2, <2>1 DEF SliceInv, SliceTypes, SliceStages, There, Manifest
<1>4. DOMAIN before' = Final(dir) /\ \A f \in Final(dir) : before'[f] = dir[f]
  BY <1>1
<1>5. \A f : f \in Final(dir) <=> f \in DOMAIN dir /\ Named(f)
  BY DEF Final, Named
<1>6. Named(Manifest) /\ \A d : Named(Shard(d)) /\ Named(K3x(d))
  BY NamesDiffer DEF Named
<1>7. Leans(before)'
  <2>1. Manifest \in DOMAIN before' => Shard(before'[Manifest]) \in DOMAIN before'
    BY <1>4, <1>5, <1>6 DEF SliceInv, Leans
  <2>2. \A d \in Experts \ late :
          K3x(d) \in DOMAIN before' => Manifest \in DOMAIN before' /\ before'[Manifest] = d
    BY <1>4, <1>5, <1>6 DEF SliceInv, Leans
  <2> QED BY <1>1, <2>1, <2>2 DEF Leans, Manifest, Shard, K3x
<1>8. FilesAreAccounted'
  <2>1. \A f \in DOMAIN before' : Named(f) /\ f \in DOMAIN dir' /\ dir'[f] = before'[f]
    BY <1>1, <1>4, <1>5
  <2>2. \A f \in Final(dir)' : f \in DOMAIN before'
    BY <1>1, <1>4 DEF Final
  <2> QED BY <1>2, <1>7, <2>1, <2>2 DEF FilesAreAccounted, There, Named
<1>9. Leans(dir)' /\ PartialsAreAlone'
  BY <1>1 DEF SliceInv, Leans, PartialsAreAlone, There, Manifest, Shard, K3x, ManifestPartial,
              K3xPartial
<1>10. SliceIsAt'
  BY <1>2 DEF SliceIsAt
<1> QED BY <1>3, <1>7, <1>8, <1>9, <1>10 DEF SliceInv

\* What the invariant says while a call runs, with the definitions expanded.
LEMMA Running ==
  ASSUME SliceInv, slice.pc # "idle"
  PROVE  /\ Asked \in Experts /\ slice.created \subseteq {Shard(Asked), Manifest, K3x(Asked)}
         /\ \A f \in DOMAIN before : Named(f) /\ f \in DOMAIN dir /\ dir[f] = before[f]
         /\ Leans(before) /\ slice.created \cap DOMAIN before = {}
         /\ \A f \in Final(dir) : \/ f \in DOMAIN before
                                  \/ f \in slice.created /\ Pending(f)
                                  \/ \E e \in late : f = K3x(e)
         /\ Manifest \in slice.created /\ There(Manifest) => dir[Manifest] = Asked
         /\ There(Manifest) => dir[Manifest] \in Experts
BY AskedFor DEF SliceInv, FilesAreAccounted, There, SliceTypes

\* A call that runs on, and what it has created.
Continues ==
  /\ slice' \in [pc : SliceStages, expert : Experts \cup {Nobody},
                 created : SUBSET {Shard(Asked)', Manifest, K3x(Asked)'}, undo : 0..8]
  /\ slice'.pc # "idle" /\ Asked' = Asked
  /\ (Asked' = Nobody <=> slice'.pc = "idle")

\* The files with final names are the same as before.
SameNames ==
  \A f : Named(f) => /\ f \in DOMAIN dir' <=> f \in DOMAIN dir
                     /\ f \in DOMAIN dir => dir'[f] = dir[f]

\* Only files without a final name come or go.
LEMMA BesideNames ==
  ASSUME SliceInv, slice.pc \notin {"idle", "undo"}, Continues, slice'.pc # "undo",
         slice'.created = slice.created, UNCHANGED <<before, late>>, SameNames
  PROVE  /\ SliceTypes' /\ Leans(dir)' /\ FilesAreAccounted'
         /\ There(Manifest)' <=> There(Manifest)
         /\ \A e : K3x(e) \in DOMAIN dir' <=> K3x(e) \in DOMAIN dir
<1>1. Named(Manifest) /\ \A e : Named(Shard(e)) /\ Named(K3x(e))
  BY NamesDiffer DEF Named
<1>2. \A f : Named(f) => (f \in DOMAIN dir' <=> f \in DOMAIN dir)
                           /\ (f \in DOMAIN dir => dir'[f] = dir[f])
  BY DEF SameNames
<1>3. SliceTypes'
  BY <1>1, <1>2 DEF SliceInv, SliceTypes, There, Manifest, Continues
<1>4. Leans(dir)'
  BY <1>1, <1>2 DEF SliceInv, Leans, Manifest, Shard, K3x
<1>5. FilesAreAccounted'
  <2>1. \A f \in DOMAIN before : f \in DOMAIN dir' /\ dir'[f] = dir[f]
    BY <1>2, Running
  <2>2. Final(dir)' \subseteq Final(dir)
    BY <1>2 DEF Final, Named
  <2>3. Manifest \in slice'.created /\ Manifest \in DOMAIN dir' => dir'[Manifest] = Asked
    BY <1>1, <1>2, Running DEF There
  <2> QED BY <2>1, <2>2, <2>3, Builds DEF Continues
<1>6. There(Manifest)' <=> There(Manifest)
  BY <1>1, <1>2 DEF There, Manifest
<1>7. \A e : K3x(e) \in DOMAIN dir' <=> K3x(e) \in DOMAIN dir
  BY <1>1, <1>2
<1> QED BY <1>3, <1>4, <1>5, <1>6, <1>7

LEMMA FetchSliceKeeps ==
  ASSUME SliceInv, FetchSlice, SliceCounts'
  PROVE  SliceInv'
<1>1. /\ slice.pc = "fetch" /\ dir' = With(dir, Partial, "good") /\ GoTo("shard")
      /\ UNCHANGED <<before, late>>
  BY DEF FetchSlice, Stay
<1>2. Continues /\ slice'.pc = "shard" /\ slice'.created = slice.created
  <2>1. "shard" \in SliceStages \ {"idle"}
    BY DEF SliceStages
  <2> QED BY <1>1, <2>1, GoesOn DEF SliceInv, Continues
<1>3. /\ DOMAIN dir' = DOMAIN dir \cup {Partial}
      /\ \A f \in DOMAIN dir : f # Partial => dir'[f] = dir[f]
  BY <1>1 DEF With
<1>4. SameNames
  <2>1. ~Named(Partial)
    BY NamesDiffer DEF Named
  <2> QED BY <1>3, <2>1 DEF SameNames
<1>5. /\ SliceTypes' /\ Leans(dir)' /\ FilesAreAccounted'
      /\ There(Manifest)' <=> There(Manifest)
      /\ \A e : K3x(e) \in DOMAIN dir' <=> K3x(e) \in DOMAIN dir
  BY <1>1, <1>2, <1>4, BesideNames
<1>6. PartialsAreAlone'
  <2>1. Partial # ManifestPartial /\ \A e : Partial # K3xPartial(e)
    BY NamesDiffer
  <2> QED BY <1>3, <1>5, <2>1
          DEF SliceInv, PartialsAreAlone, There, Manifest, ManifestPartial, K3x, K3xPartial
<1>7. SliceIsAt'
  BY <1>2 DEF SliceIsAt
<1> QED BY <1>5, <1>6, <1>7 DEF SliceInv

LEMMA StoreShardKeeps ==
  ASSUME SliceInv, StoreShard, SliceCounts'
  PROVE  SliceInv'
<1>1. slice.pc = "shard" /\ UNCHANGED <<before, late>> /\ "manifest" \in SliceStages \ {"idle"}
  BY DEF StoreShard, Stay, SliceStages
<1>2. Asked \in Experts
  BY <1>1, Running
<1>3. Partial # ManifestPartial /\ Partial # Manifest
      /\ \A e : Partial # K3xPartial(e) /\ Partial # Shard(e) /\ Partial # K3x(e)
  BY NamesDiffer
<1>4. CASE ~There(Shard(Asked))
  <2>1. dir' = With(Removed(dir, Partial), Shard(Asked), "good")
        /\ Created(Shard(Asked), "manifest")
    BY <1>4 DEF StoreShard
  <2>2. Continues /\ slice'.pc = "manifest"
        /\ slice'.created = slice.created \cup {Shard(Asked)}
    BY <1>1, <2>1, Creates DEF SliceInv, Continues
  <2>3. /\ DOMAIN dir' = (DOMAIN dir \ {Partial}) \cup {Shard(Asked)}
        /\ dir'[Shard(Asked)] = "good"
        /\ \A f \in DOMAIN dir : f \notin {Partial, Shard(Asked)} => dir'[f] = dir[f]
    BY <2>1 DEF With, Removed
  <2>4. /\ Shard(Asked) \notin DOMAIN dir /\ Shard(Asked) # Manifest
        /\ \A e : Shard(Asked) # K3x(e)
        /\ \A e : Shard(Asked) # K3xPartial(e) /\ Shard(Asked) # ManifestPartial
    BY <1>4, NamesDiffer DEF There
  <2>5. /\ Manifest \in DOMAIN dir' <=> Manifest \in DOMAIN dir
        /\ Manifest \in DOMAIN dir => dir'[Manifest] = dir[Manifest]
        /\ \A e : K3x(e) \in DOMAIN dir' <=> K3x(e) \in DOMAIN dir
        /\ \A e : Shard(e) \in DOMAIN dir => Shard(e) \in DOMAIN dir'
    BY <1>3, <2>3, <2>4
  <2>6. SliceTypes'
    BY <1>1, <2>2, <2>5 DEF SliceInv, SliceTypes, There, Manifest, Continues
  <2>7. Leans(dir)'
    BY <1>1, <2>5 DEF SliceInv, Leans, Manifest, Shard, K3x
  <2>8. FilesAreAccounted'
    <3>1. \A f \in DOMAIN before : f \in DOMAIN dir' /\ dir'[f] = dir[f]
      <4>1. \A f \in DOMAIN before : f \in DOMAIN dir /\ f # Partial
        BY <1>1, Running, NamesDiffer DEF Named
      <4> QED BY <4>1, <2>3, <2>4
    <3>2. Final(dir)' \subseteq Final(dir) \cup slice'.created
      BY <2>2, <2>3 DEF Final
    <3>3. Manifest \in slice'.created /\ Manifest \in DOMAIN dir' => dir'[Manifest] = Asked
      BY <1>1, <2>2, <2>4, <2>5, Running DEF There
    <3> QED BY <1>1, <2>2, <2>4, <3>1, <3>2, <3>3, Builds DEF Continues
  <2>9. PartialsAreAlone'
    <3>1. /\ ManifestPartial \in DOMAIN dir' => ManifestPartial \in DOMAIN dir
          /\ \A e : K3xPartial(e) \in DOMAIN dir' => K3xPartial(e) \in DOMAIN dir
      BY <2>3, <2>4
    <3> QED BY <3>1, <2>5
            DEF SliceInv, PartialsAreAlone, There, Manifest, ManifestPartial, K3x, K3xPartial
  <2>10. SliceIsAt'
    BY <2>2, <2>3 DEF SliceIsAt, ShardIsThere, There, Continues, Shard
  <2> QED BY <2>6, <2>7, <2>8, <2>9, <2>10 DEF SliceInv
<1>5. CASE There(Shard(Asked)) /\ dir[Shard(Asked)] = "good"
  <2>1. dir' = Removed(dir, Partial) /\ GoTo("manifest")
    BY <1>5 DEF StoreShard
  <2>2. Continues /\ slice'.pc = "manifest" /\ slice'.created = slice.created
    BY <1>1, <2>1, GoesOn DEF SliceInv, Continues
  <2>3. /\ DOMAIN dir' = DOMAIN dir \ {Partial}
        /\ \A f \in DOMAIN dir : f # Partial => dir'[f] = dir[f]
    BY <2>1 DEF Removed
  <2>4. SameNames
    <3>1. ~Named(Partial)
      BY NamesDiffer DEF Named
    <3> QED BY <2>3, <3>1 DEF SameNames
  <2>5. /\ SliceTypes' /\ Leans(dir)' /\ FilesAreAccounted'
        /\ There(Manifest)' <=> There(Manifest)
        /\ \A e : K3x(e) \in DOMAIN dir' <=> K3x(e) \in DOMAIN dir
    BY <1>1, <2>2, <2>4, BesideNames
  <2>6. PartialsAreAlone'
    BY <2>3, <2>5
       DEF SliceInv, PartialsAreAlone, There, Manifest, ManifestPartial, K3x, K3xPartial
  <2>7. SliceIsAt'
    BY <1>3, <1>5, <2>2, <2>3 DEF SliceIsAt, ShardIsThere, There, Continues, Shard
  <2> QED BY <2>5, <2>6, <2>7 DEF SliceInv
<1>6. CASE There(Shard(Asked)) /\ dir[Shard(Asked)] # "good"
  <2>1. Undo /\ UNCHANGED dir
    BY <1>6 DEF StoreShard
  <2> QED BY <1>1, <2>1, UndoKeeps
<1> QED BY <1>4, <1>5, <1>6

LEMMA WriteManifestKeeps ==
  ASSUME SliceInv, WriteManifest, SliceCounts'
  PROVE  SliceInv'
<1>1. /\ slice.pc = "manifest" /\ UNCHANGED <<before, late>>
      /\ "publish" \in SliceStages \ {"idle"} /\ "k3x" \in SliceStages \ {"idle"}
      /\ ShardIsThere
  BY DEF WriteManifest, Stay, SliceStages, SliceInv, SliceIsAt
<1>2. CASE ~There(Manifest)
  <2>1. dir' = With(dir, ManifestPartial, Asked) /\ GoTo("publish")
    BY <1>2 DEF WriteManifest
  <2>2. Continues /\ slice'.pc = "publish" /\ slice'.created = slice.created
    BY <1>1, <2>1, GoesOn DEF SliceInv, Continues
  <2>3. /\ DOMAIN dir' = DOMAIN dir \cup {ManifestPartial}
        /\ \A f \in DOMAIN dir : f # ManifestPartial => dir'[f] = dir[f]
    BY <2>1 DEF With
  <2>4. SameNames
    <3>1. ~Named(ManifestPartial)
      BY NamesDiffer DEF Named
    <3> QED BY <2>3, <3>1 DEF SameNames
  <2>5. /\ SliceTypes' /\ Leans(dir)' /\ FilesAreAccounted'
        /\ There(Manifest)' <=> There(Manifest)
        /\ \A e : K3x(e) \in DOMAIN dir' <=> K3x(e) \in DOMAIN dir
    BY <1>1, <2>2, <2>4, BesideNames
  <2>6. PartialsAreAlone'
    <3>1. \A e : K3xPartial(e) # ManifestPartial
      BY NamesDiffer
    <3> QED BY <1>2, <2>3, <2>5, <3>1
            DEF SliceInv, PartialsAreAlone, There, Manifest, ManifestPartial, K3x, K3xPartial
  <2>7. ShardIsThere'
    <3>1. \A e : Shard(e) # ManifestPartial
      BY NamesDiffer
    <3> QED BY <1>1, <2>2, <2>3, <3>1 DEF ShardIsThere, There, Continues, Shard
  <2>8. SliceIsAt'
    BY <1>2, <2>2, <2>5, <2>7 DEF SliceIsAt
  <2> QED BY <2>5, <2>6, <2>8 DEF SliceInv
<1>3. CASE There(Manifest) /\ dir[Manifest] = Asked
  <2>1. UNCHANGED dir /\ GoTo("k3x")
    BY <1>3 DEF WriteManifest
  <2>2. Continues /\ slice'.pc = "k3x" /\ slice'.created = slice.created
    BY <1>1, <2>1, GoesOn DEF SliceInv, Continues
  <2>3. /\ SliceTypes' /\ Leans(dir)' /\ FilesAreAccounted'
        /\ There(Manifest)' <=> There(Manifest)
        /\ \A e : K3x(e) \in DOMAIN dir' <=> K3x(e) \in DOMAIN dir
    BY <1>1, <2>1, <2>2, BesideNames DEF SameNames
  <2>4. PartialsAreAlone'
    BY <2>1
       DEF SliceInv, PartialsAreAlone, There, Manifest, ManifestPartial, K3x, K3xPartial
  <2>5. SliceIsAt'
    BY <1>1, <1>3, <2>1, <2>2
       DEF SliceIsAt, ShardIsThere, ManifestIsThere, There, Continues, Shard, Manifest
  <2> QED BY <2>3, <2>4, <2>5 DEF SliceInv
<1>4. CASE There(Manifest) /\ dir[Manifest] # Asked
  <2>1. Undo /\ UNCHANGED dir
    BY <1>4 DEF WriteManifest
  <2> QED BY <1>1, <2>1, UndoKeeps
<1> QED BY <1>2, <1>3, <1>4

LEMMA PublishManifestKeeps ==
  ASSUME SliceInv, PublishManifest, SliceCounts'
  PROVE  SliceInv'
<1>1. /\ slice.pc = "publish" /\ UNCHANGED <<before, late>>
      /\ dir' = With(Removed(dir, ManifestPartial), Manifest, Asked) /\ Created(Manifest, "k3x")
      /\ "k3x" \in SliceStages \ {"idle"} /\ ShardIsThere /\ ~There(Manifest)
  BY DEF PublishManifest, Stay, SliceStages, SliceInv, SliceIsAt
<1>2. Asked \in Experts
  BY <1>1, Running
<1>3. Continues /\ slice'.pc = "k3x" /\ slice'.created = slice.created \cup {Manifest}
  BY <1>1, Creates DEF SliceInv, Continues
<1>4. /\ DOMAIN dir' = (DOMAIN dir \ {ManifestPartial}) \cup {Manifest}
      /\ dir'[Manifest] = Asked
      /\ \A f \in DOMAIN dir : f \notin {ManifestPartial, Manifest} => dir'[f] = dir[f]
  BY <1>1 DEF With, Removed
<1>5. /\ ManifestPartial # Manifest /\ Manifest \notin DOMAIN dir
      /\ \A e : /\ Manifest # Shard(e) /\ Manifest # K3x(e) /\ Manifest # K3xPartial(e)
                /\ ManifestPartial # Shard(e) /\ ManifestPartial # K3x(e)
                /\ ManifestPartial # K3xPartial(e)
  BY <1>1, NamesDiffer DEF There
<1>6. /\ \A e : K3x(e) \in DOMAIN dir' <=> K3x(e) \in DOMAIN dir
      /\ \A e : Shard(e) \in DOMAIN dir' <=> Shard(e) \in DOMAIN dir
      /\ \A e : K3xPartial(e) \in DOMAIN dir' <=> K3xPartial(e) \in DOMAIN dir
      /\ Shard(Asked) \in DOMAIN dir /\ dir'[Shard(Asked)] = "good"
  BY <1>1, <1>4, <1>5 DEF ShardIsThere, There
<1>7. SliceTypes'
  BY <1>1, <1>2, <1>3, <1>4 DEF SliceInv, SliceTypes, There, Manifest, Continues
<1>8. Leans(dir)'
  <2>1. \A e \in Experts \ late : K3x(e) \notin DOMAIN dir
    BY <1>5 DEF SliceInv, Leans
  <2>2. Shard(dir'[Manifest]) \in DOMAIN dir'
    BY <1>4, <1>6
  <2> QED BY <1>1, <1>6, <2>1, <2>2 DEF Leans, Manifest, Shard, K3x
<1>9. FilesAreAccounted'
  <2>1. \A f \in DOMAIN before : f \in DOMAIN dir' /\ dir'[f] = dir[f]
    <3>1. \A f \in DOMAIN before : f \in DOMAIN dir /\ f # ManifestPartial
      BY <1>1, Running, NamesDiffer DEF Named
    <3> QED BY <3>1, <1>4, <1>5
  <2>2. Final(dir)' \subseteq Final(dir) \cup slice'.created
    BY <1>3, <1>4 DEF Final
  <2> QED BY <1>1, <1>3, <1>4, <1>5, <2>1, <2>2, Builds DEF Continues
<1>10. PartialsAreAlone'
  <2>1. ManifestPartial \notin DOMAIN dir'
    BY <1>4, <1>5
  <2> QED BY <2>1, <1>6
          DEF SliceInv, PartialsAreAlone, There, Manifest, ManifestPartial, K3x, K3xPartial
<1>11. SliceIsAt'
  BY <1>3, <1>4, <1>6
     DEF SliceIsAt, ShardIsThere, ManifestIsThere, There, Continues, Shard, Manifest
<1> QED BY <1>7, <1>8, <1>9, <1>10, <1>11 DEF SliceInv

LEMMA UseK3xKeeps ==
  ASSUME SliceInv, UseK3x, SliceCounts'
  PROVE  SliceInv'
<1>1. /\ slice.pc = "k3x" /\ UNCHANGED <<dir, before, late>> /\ There(K3x(Asked))
      /\ "return" \in SliceStages \ {"idle"} /\ ShardIsThere /\ ManifestIsThere
  BY DEF UseK3x, Stay, SliceStages, SliceInv, SliceIsAt
<1>2. CASE dir[K3x(Asked)] = "good"
  <2>1. GoTo("return")
    BY <1>2 DEF UseK3x
  <2>2. Continues /\ slice'.pc = "return" /\ slice'.created = slice.created
    BY <1>1, <2>1, GoesOn DEF SliceInv, Continues
  <2>3. /\ SliceTypes' /\ Leans(dir)' /\ FilesAreAccounted'
    BY <1>1, <2>2, BesideNames DEF SameNames
  <2>4. PartialsAreAlone'
    BY <1>1
       DEF SliceInv, PartialsAreAlone, There, Manifest, ManifestPartial, K3x, K3xPartial
  <2>5. SliceIsAt'
    BY <1>1, <1>2, <2>2
       DEF SliceIsAt, ShardIsThere, ManifestIsThere, K3xIsThere, There, Continues, Shard,
           Manifest, K3x
  <2> QED BY <2>3, <2>4, <2>5 DEF SliceInv
<1>3. CASE dir[K3x(Asked)] # "good"
  <2>1. Undo
    BY <1>3 DEF UseK3x
  <2> QED BY <1>1, <2>1, UndoKeeps
<1> QED BY <1>2, <1>3

LEMMA StartConvertKeeps ==
  ASSUME SliceInv, StartConvert, SliceCounts'
  PROVE  SliceInv'
<1>1. /\ slice.pc = "k3x" /\ UNCHANGED <<before, late>> /\ ~There(K3x(Asked))
      /\ dir' = With(With(dir, K3xPartial(Asked), "good"), Ledger(Asked), "good")
      /\ GoTo("convert")
      /\ "convert" \in SliceStages \ {"idle"} /\ ShardIsThere /\ ManifestIsThere
  BY DEF StartConvert, Stay, SliceStages, SliceInv, SliceIsAt
<1>2. Continues /\ slice'.pc = "convert" /\ slice'.created = slice.created
  BY <1>1, GoesOn DEF SliceInv, Continues
<1>3. /\ DOMAIN dir' = DOMAIN dir \cup {K3xPartial(Asked), Ledger(Asked)}
      /\ \A f \in DOMAIN dir : f \notin {K3xPartial(Asked), Ledger(Asked)} => dir'[f] = dir[f]
  BY <1>1 DEF With
<1>4. SameNames
  <2>1. ~Named(K3xPartial(Asked)) /\ ~Named(Ledger(Asked))
    BY NamesDiffer DEF Named
  <2> QED BY <1>3, <2>1 DEF SameNames
<1>5. /\ SliceTypes' /\ Leans(dir)' /\ FilesAreAccounted'
      /\ There(Manifest)' <=> There(Manifest)
      /\ \A e : K3x(e) \in DOMAIN dir' <=> K3x(e) \in DOMAIN dir
  BY <1>1, <1>2, <1>4, BesideNames
<1>6. PartialsAreAlone'
  <2>1. /\ ManifestPartial # K3xPartial(Asked) /\ ManifestPartial # Ledger(Asked)
        /\ \A e : K3xPartial(e) # Ledger(Asked)
        /\ \A e : K3xPartial(e) = K3xPartial(Asked) => e = Asked
    BY NamesDiffer
  <2>2. /\ ManifestPartial \in DOMAIN dir' => ManifestPartial \in DOMAIN dir
        /\ \A e : K3xPartial(e) \in DOMAIN dir' => K3xPartial(e) \in DOMAIN dir \/ e = Asked
    BY <1>3, <2>1
  <2> QED BY <1>1, <1>5, <2>2
          DEF SliceInv, PartialsAreAlone, There, Manifest, ManifestPartial, K3x, K3xPartial
<1>7. SliceIsAt'
  <2>1. Named(Shard(Asked)) /\ Named(Manifest)
    BY NamesDiffer DEF Named
  <2>2. /\ Shard(Asked) \in DOMAIN dir' /\ dir'[Shard(Asked)] = "good"
        /\ Manifest \in DOMAIN dir' /\ dir'[Manifest] = Asked
    BY <1>1, <1>4, <2>1 DEF ShardIsThere, ManifestIsThere, There, SameNames
  <2>3. K3x(Asked) \notin DOMAIN dir'
    BY <1>1, <1>5 DEF There
  <2> QED BY <1>2, <2>2, <2>3
          DEF SliceIsAt, ShardIsThere, ManifestIsThere, There, Continues, Shard, Manifest, K3x
<1> QED BY <1>5, <1>6, <1>7 DEF SliceInv

\* The files after a conversion has published.
Converted ==
  /\ DOMAIN dir' \subseteq (DOMAIN dir \ {K3xPartial(Asked)}) \cup {K3x(Asked)}
  /\ K3x(Asked) \in DOMAIN dir' /\ dir'[K3x(Asked)] = "good"
  /\ \A f \in DOMAIN dir : f \notin {K3xPartial(Asked), Ledger(Asked), K3x(Asked)} =>
       f \in DOMAIN dir' /\ dir'[f] = dir[f]

LEMMA ConvertedFiles ==
  ASSUME SliceInv, slice.pc = "convert", Converted, Asked' = Asked,
         late \subseteq late'
  PROVE  /\ Leans(dir)' /\ PartialsAreAlone'
         /\ ShardIsThere' /\ ManifestIsThere' /\ K3xIsThere'
         /\ There(Manifest)' /\ dir'[Manifest] = dir[Manifest]
         /\ \A f \in DOMAIN before : f \in DOMAIN dir' /\ dir'[f] = dir[f]
         /\ Final(dir)' \subseteq Final(dir) \cup {K3x(Asked)}
<1>1. Asked \in Experts /\ ShardIsThere /\ ManifestIsThere /\ ~There(K3x(Asked))
  BY Running DEF SliceInv, SliceIsAt
<1>2. /\ \A e : K3x(e) # K3xPartial(Asked) /\ K3x(e) # Ledger(Asked)
      /\ \A e : Shard(e) \notin {K3xPartial(Asked), Ledger(Asked), K3x(Asked)}
      /\ Manifest \notin {K3xPartial(Asked), Ledger(Asked), K3x(Asked)}
      /\ ManifestPartial # K3x(Asked)
      /\ \A e : K3xPartial(e) # K3x(Asked)
      /\ \A e : K3x(e) = K3x(Asked) => e = Asked
      /\ ~Named(K3xPartial(Asked)) /\ ~Named(Ledger(Asked))
  BY NamesDiffer DEF Named
<1>3. /\ \A e : K3x(e) \in DOMAIN dir' => K3x(e) \in DOMAIN dir \/ e = Asked
      /\ \A e : Shard(e) \in DOMAIN dir => Shard(e) \in DOMAIN dir' /\ dir'[Shard(e)] = dir[Shard(e)]
      /\ Manifest \in DOMAIN dir /\ Manifest \in DOMAIN dir' /\ dir'[Manifest] = dir[Manifest]
      /\ ManifestPartial \in DOMAIN dir' => ManifestPartial \in DOMAIN dir
      /\ \A e : K3xPartial(e) \in DOMAIN dir' => K3xPartial(e) \in DOMAIN dir /\ e # Asked
  BY <1>1, <1>2 DEF Converted, ManifestIsThere, There
<1>4. dir[Manifest] = Asked /\ Shard(Asked) \in DOMAIN dir /\ dir[Shard(Asked)] = "good"
  BY <1>1 DEF ManifestIsThere, ShardIsThere, There
<1>5. Leans(dir)'
  BY <1>1, <1>3, <1>4 DEF SliceInv, Leans, Manifest, Shard, K3x
<1>6. PartialsAreAlone'
  BY <1>3 DEF SliceInv, PartialsAreAlone, There, Manifest, ManifestPartial, K3x, K3xPartial
<1>7. ShardIsThere' /\ ManifestIsThere' /\ K3xIsThere'
  BY <1>3, <1>4
     DEF Converted, ShardIsThere, ManifestIsThere, K3xIsThere, There, Manifest, Shard, K3x
<1>8. \A f \in DOMAIN before : f \in DOMAIN dir' /\ dir'[f] = dir[f]
  <2> SUFFICES ASSUME NEW f \in DOMAIN before PROVE f \in DOMAIN dir' /\ dir'[f] = dir[f]
    OBVIOUS
  <2>1. f \in DOMAIN dir /\ Named(f)
    BY Running
  <2>2. f \notin {K3xPartial(Asked), Ledger(Asked), K3x(Asked)}
    BY <1>1, <1>2, <2>1 DEF There
  <2> QED BY <2>1, <2>2 DEF Converted
<1>9. Final(dir)' \subseteq Final(dir) \cup {K3x(Asked)}
  BY DEF Converted, Final
<1> QED BY <1>3, <1>5, <1>6, <1>7, <1>8, <1>9 DEF There, Manifest

LEMMA ConvertKeeps ==
  ASSUME SliceInv, Convert, SliceCounts'
  PROVE  SliceInv'
<1>1. /\ slice.pc = "convert" /\ UNCHANGED <<before, late>>
      /\ dir' = With(Removed(Removed(dir, K3xPartial(Asked)), Ledger(Asked)), K3x(Asked), "good")
      /\ Created(K3x(Asked), "return") /\ "return" \in SliceStages \ {"idle"}
      /\ ~There(K3x(Asked)) /\ ManifestIsThere
  BY DEF Convert, Stay, SliceStages, SliceInv, SliceIsAt
<1>2. Continues /\ slice'.pc = "return" /\ slice'.created = slice.created \cup {K3x(Asked)}
  BY <1>1, Creates DEF SliceInv, Continues
<1>3. Converted
  BY <1>1 DEF With, Removed, Converted
<1>4. /\ Leans(dir)' /\ PartialsAreAlone'
      /\ ShardIsThere' /\ ManifestIsThere' /\ K3xIsThere'
      /\ There(Manifest)' /\ dir'[Manifest] = dir[Manifest]
      /\ \A f \in DOMAIN before : f \in DOMAIN dir' /\ dir'[f] = dir[f]
      /\ Final(dir)' \subseteq Final(dir) \cup {K3x(Asked)}
  BY <1>1, <1>2, <1>3, ConvertedFiles DEF Continues
<1>5. SliceTypes'
  <2>1. dir'[Manifest] \in Experts
    BY <1>1, <1>4, Running DEF ManifestIsThere
  <2> QED BY <1>1, <1>2, <2>1 DEF SliceInv, SliceTypes, There, Manifest, Continues
<1>6. FilesAreAccounted'
  <2>1. dir'[Manifest] = Asked
    BY <1>1, <1>4 DEF ManifestIsThere
  <2>2. Final(dir)' \subseteq Final(dir) \cup slice'.created
    BY <1>2, <1>4
  <2> QED BY <1>1, <1>2, <1>4, <2>1, <2>2, Builds DEF Continues, There
<1>7. SliceIsAt'
  BY <1>2, <1>4 DEF SliceIsAt
<1> QED BY <1>4, <1>5, <1>6, <1>7 DEF SliceInv

LEMMA ConvertFailsLateKeeps ==
  ASSUME SliceInv, ConvertFailsLate, SliceCounts'
  PROVE  SliceInv'
<1>1. /\ slice.pc = "convert" /\ UNCHANGED before /\ late' = late \cup {Asked} /\ Undo
      /\ dir' = With(Removed(dir, K3xPartial(Asked)), K3x(Asked), "good")
      /\ ~There(K3x(Asked)) /\ ManifestIsThere
  BY DEF ConvertFailsLate, SliceInv, SliceIsAt
<1>2. Asked \in Experts
  BY <1>1, Running
<1>3. Converted
  BY <1>1 DEF With, Removed, Converted
<1>4. /\ slice' \in [pc : SliceStages, expert : Experts \cup {Nobody},
                     created : SUBSET {Shard(Asked)', Manifest, K3x(Asked)'}, undo : 0..8]
      /\ slice'.pc = "undo" /\ slice'.undo = 1 /\ Asked' = Asked
      /\ slice'.created = slice.created /\ (Asked' = Nobody <=> slice'.pc = "idle")
  BY <1>1, TakesBack DEF SliceInv
<1>5. /\ Leans(dir)' /\ PartialsAreAlone'
      /\ There(Manifest)' /\ dir'[Manifest] = dir[Manifest]
      /\ \A f \in DOMAIN before : f \in DOMAIN dir' /\ dir'[f] = dir[f]
      /\ Final(dir)' \subseteq Final(dir) \cup {K3x(Asked)}
  BY <1>1, <1>3, <1>4, ConvertedFiles
<1>6. dir'[Manifest] = Asked
  BY <1>1, <1>5 DEF ManifestIsThere
<1>7. SliceTypes'
  <2>1. late' \subseteq Experts
    BY <1>1, <1>2 DEF SliceInv, SliceTypes
  <2> QED BY <1>2, <1>4, <1>6, <2>1 DEF SliceTypes, There, Manifest
<1>8. Leans(before)'
  BY <1>1, Running DEF Leans, Manifest, Shard, K3x
<1>9. ASSUME NEW f \in slice'.created PROVE Pending(f)'
  <2>1. f \in {Shard(Asked), Manifest, K3x(Asked)}
    BY <1>4, AskedFor DEF SliceInv
  <2>2. /\ UndoneFiles'[5] = K3x(Asked) /\ UndoneFiles'[6] = Manifest
        /\ UndoneFiles'[7] = Shard(Asked)
    BY <1>4 DEF UndoneFiles, K3x, Manifest, Shard
  <2>3. 5 \in 1..7 /\ 6 \in 1..7 /\ 7 \in 1..7
    OBVIOUS
  <2> QED BY <1>4, <2>1, <2>2, <2>3 DEF Pending
<1>10. FilesAreAccounted'
  <2>1. \A f \in DOMAIN before : Named(f) /\ f \in DOMAIN dir' /\ dir'[f] = before[f]
    BY <1>1, <1>5, Running
  <2>2. ASSUME NEW f \in Final(dir)'
        PROVE  f \in DOMAIN before \/ f \in slice'.created \/ \E e \in late' : f = K3x(e)
    <3>1. CASE f = K3x(Asked)
      BY <1>1, <3>1
    <3>2. CASE f \in Final(dir)
      BY <1>1, <1>4, <3>2, Running
    <3> QED BY <3>1, <3>2, <1>5
  <2>3. slice'.created \cap DOMAIN before = {}
    BY <1>1, <1>4, Running
  <2> QED BY <1>1, <1>4, <1>6, <1>8, <1>9, <2>1, <2>2, <2>3
          DEF FilesAreAccounted, There, Named, Manifest, K3x
<1>11. SliceIsAt'
  BY <1>4 DEF SliceIsAt
<1> QED BY <1>5, <1>7, <1>10, <1>11 DEF SliceInv

LEMMA DamageSliceKeeps ==
  ASSUME SliceInv, DamageSlice, SliceCounts'
  PROVE  SliceInv'
<1>1. PICK f \in Final(dir) : f # Manifest /\ dir' = With(dir, f, "bad")
  BY DEF DamageSlice
<1>2. slice.pc = "idle" /\ UNCHANGED <<slice, late>>
  BY DEF DamageSlice
<1>3. f \in DOMAIN dir
  BY DEF Final
<1>4. DOMAIN dir' = DOMAIN dir /\ \A g \in DOMAIN dir : g # f => dir'[g] = dir[g]
  BY <1>1, <1>3 DEF With
<1>5. dir'[Manifest] = dir[Manifest] \/ ~There(Manifest)
  BY <1>1, <1>4 DEF There
<1>6. SliceTypes'
  BY <1>2, <1>4, <1>5 DEF SliceInv, SliceTypes, There, Manifest, Asked, Shard, K3x
<1>7. Leans(dir)'
  <2>1. Manifest \in DOMAIN dir => dir'[Manifest] = dir[Manifest]
    BY <1>5 DEF There
  <2> QED BY <1>2, <1>4, <2>1 DEF SliceInv, Leans, Manifest, Shard, K3x
<1>8. FilesAreAccounted' /\ SliceIsAt'
  BY <1>2 DEF FilesAreAccounted, SliceIsAt
<1>9. PartialsAreAlone'
  BY <1>4 DEF SliceInv, PartialsAreAlone, There, Manifest, ManifestPartial, K3x, K3xPartial
<1> QED BY <1>6, <1>7, <1>8, <1>9 DEF SliceInv

\* Where the final names are in the order of the except block.
LEMMA UndoneOrder ==
  /\ \A i \in 1..7 : UndoneFiles[i] = K3x(Asked) => i = 5
  /\ \A i \in 1..7 : UndoneFiles[i] = Manifest => i = 6
  /\ \A i \in 1..7 : \A e : UndoneFiles[i] = Shard(e) => i = 7 /\ e = Asked
<1>1. /\ UndoneFiles[1] = Partial /\ UndoneFiles[2] = ManifestPartial
      /\ UndoneFiles[3] = K3xPartial(Asked) /\ UndoneFiles[4] = Ledger(Asked)
      /\ UndoneFiles[5] = K3x(Asked) /\ UndoneFiles[6] = Manifest /\ UndoneFiles[7] = Shard(Asked)
  BY DEF UndoneFiles
<1>2. \A i \in 1..7 : i = 1 \/ i = 2 \/ i = 3 \/ i = 4 \/ i = 5 \/ i = 6 \/ i = 7
  OBVIOUS
<1>3. ASSUME NEW i \in 1..7, UndoneFiles[i] = K3x(Asked) PROVE i = 5
  BY <1>1, <1>2, <1>3, NamesDiffer
<1>4. ASSUME NEW i \in 1..7, UndoneFiles[i] = Manifest PROVE i = 6
  BY <1>1, <1>2, <1>4, NamesDiffer
<1>5. ASSUME NEW i \in 1..7, NEW e, UndoneFiles[i] = Shard(e) PROVE i = 7 /\ e = Asked
  BY <1>1, <1>2, <1>5, NamesDiffer
<1> QED BY <1>3, <1>4, <1>5

LEMMA TakeBackKeeps ==
  ASSUME SliceInv, TakeBack, SliceCounts'
  PROVE  SliceInv'
<1>1. /\ slice.pc = "undo" /\ slice.undo \in 1..7 /\ UNCHANGED <<before, late>>
      /\ slice' = [slice EXCEPT !.undo = @ + 1]
  BY DEF TakeBack, Stay
<1>2. PICK f : f = UndoneFiles[slice.undo]
  OBVIOUS
<1>3. dir' = IF f \in Final(dir) \ slice.created THEN dir ELSE Removed(dir, f)
  BY <1>2 DEF TakeBack
<1>4. /\ slice' \in [pc : SliceStages, expert : Experts \cup {Nobody},
                     created : SUBSET {Shard(Asked)', Manifest, K3x(Asked)'}, undo : 0..8]
      /\ slice'.pc = "undo" /\ slice'.undo = slice.undo + 1 /\ Asked' = Asked
      /\ slice'.created = slice.created /\ (Asked' = Nobody <=> slice'.pc = "idle")
  <2>1. /\ slice \in [pc : SliceStages, expert : Experts \cup {Nobody},
                      created : SUBSET {Shard(Asked), Manifest, K3x(Asked)}, undo : 0..8]
        /\ Asked # Nobody
    BY <1>1 DEF SliceInv, SliceTypes
  <2>2. /\ slice'.pc = "undo" /\ slice'.undo = slice.undo + 1
        /\ slice'.expert = slice.expert /\ slice'.created = slice.created
    BY <1>1, <2>1
  <2>3. slice.undo + 1 \in 0..8
    BY <1>1
  <2>4. slice' \in [pc : SliceStages, expert : Experts \cup {Nobody},
                    created : SUBSET {Shard(Asked), Manifest, K3x(Asked)}, undo : 0..8]
    BY <1>1, <2>1, <2>3
  <2>5. Asked' = Asked
    BY <2>2 DEF Asked
  <2> QED BY <2>1, <2>2, <2>4, <2>5 DEF Shard, K3x
<1>5. /\ \A g \in DOMAIN dir' : g \in DOMAIN dir /\ dir'[g] = dir[g]
      /\ \A g \in DOMAIN dir : g \in DOMAIN dir' \/ (g = f /\ (Named(f) => f \in slice.created))
      /\ f \in slice.created => f \notin DOMAIN dir'
  <2>1. CASE f \in Final(dir) \ slice.created
    BY <1>3, <2>1
  <2>2. CASE f \notin Final(dir) \ slice.created
    <3>1. dir' = Removed(dir, f)
      BY <1>3, <2>2
    <3>2. DOMAIN dir' = DOMAIN dir \ {f} /\ \A g \in DOMAIN dir : g # f => dir'[g] = dir[g]
      BY <3>1 DEF Removed
    <3>3. f \in DOMAIN dir /\ Named(f) => f \in slice.created
      BY <2>2 DEF Final, Named
    <3> QED BY <3>2, <3>3
  <2> QED BY <2>1, <2>2
<1>6. /\ Asked \in Experts
      /\ \A g \in DOMAIN before : Named(g) /\ g \in DOMAIN dir /\ dir[g] = before[g]
      /\ Leans(before) /\ slice.created \cap DOMAIN before = {}
      /\ Manifest \in slice.created /\ There(Manifest) => dir[Manifest] = Asked
      /\ There(Manifest) => dir[Manifest] \in Experts
  BY <1>1, Running
<1>7. ASSUME NEW g \in Final(dir)
      PROVE  \/ g \in DOMAIN before
             \/ g \in slice.created /\ \E i \in slice.undo..7 : UndoneFiles[i] = g
             \/ \E e \in late : g = K3x(e)
  BY <1>1, Running DEF Pending
<1>8. SliceTypes'
  BY <1>1, <1>4, <1>5, <1>6 DEF SliceInv, SliceTypes, There, Manifest
<1>9. UndoneFiles' = UndoneFiles
  BY <1>4 DEF UndoneFiles, Partial, ManifestPartial, K3xPartial, Ledger, K3x, Manifest, Shard
<1>10. FilesAreAccounted'
  <2>1. \A g \in DOMAIN before : g \in DOMAIN dir' /\ dir'[g] = before[g]
    BY <1>5, <1>6
  <2>2. Leans(before)'
    BY <1>1, <1>6 DEF Leans, Manifest, Shard, K3x
  <2>3. ASSUME NEW g \in Final(dir)'
        PROVE  \/ g \in DOMAIN before
               \/ g \in slice.created /\ \E i \in (slice.undo + 1)..7 : UndoneFiles[i] = g
               \/ \E e \in late : g = K3x(e)
    <3>1. g \in Final(dir) /\ g \in DOMAIN dir'
      BY <1>5 DEF Final
    <3>2. ASSUME g \in slice.created, NEW i \in slice.undo..7, UndoneFiles[i] = g
          PROVE  i \in (slice.undo + 1)..7
      <4>1. i # slice.undo
        BY <1>2, <1>5, <3>1, <3>2
      <4> QED BY <4>1, <1>1
    <3> QED BY <1>7, <3>1, <3>2
  <2>4. Manifest \in slice.created /\ Manifest \in DOMAIN dir' => dir'[Manifest] = Asked
    BY <1>5, <1>6 DEF There
  <2> QED BY <1>1, <1>4, <1>6, <1>9, <2>1, <2>2, <2>3, <2>4
          DEF FilesAreAccounted, Pending, There, Named, Manifest, K3x
<1>11. Manifest \in DOMAIN dir' => Shard(dir'[Manifest]) \in DOMAIN dir'
  <2> SUFFICES ASSUME Manifest \in DOMAIN dir', Shard(dir[Manifest]) \notin DOMAIN dir'
               PROVE  FALSE
    BY <1>5
  <2>1. Manifest \in DOMAIN dir /\ Shard(dir[Manifest]) \in DOMAIN dir
    BY <1>5 DEF SliceInv, Leans
  <2>2. f = Shard(dir[Manifest]) /\ f \in slice.created
    BY <1>5, <2>1, NamesDiffer DEF Named
  <2>3. slice.undo = 7 /\ dir[Manifest] = Asked
    BY <1>1, <1>2, <2>2, UndoneOrder
  <2>4. Manifest \in Final(dir)
    BY <2>1, NamesDiffer DEF Final
  <2>5. Manifest \notin DOMAIN before
    BY <1>6, <2>2 DEF Leans
  <2>6. \A e : Manifest # K3x(e)
    BY NamesDiffer
  <2>7. PICK i \in slice.undo..7 : UndoneFiles[i] = Manifest
    BY <1>7, <2>4, <2>5, <2>6
  <2>8. i = 7 /\ i \in 1..7
    BY <2>3, <2>7
  <2> QED BY <2>7, <2>8, UndoneOrder
<1>12. ASSUME NEW e \in Experts \ late, K3x(e) \in DOMAIN dir'
       PROVE  Manifest \in DOMAIN dir' /\ dir'[Manifest] = e
  <2>1. K3x(e) \in DOMAIN dir /\ Manifest \in DOMAIN dir /\ dir[Manifest] = e
    BY <1>5, <1>12 DEF SliceInv, Leans
  <2> SUFFICES ASSUME Manifest \notin DOMAIN dir' PROVE FALSE
    BY <1>5, <2>1
  <2>2. f = Manifest /\ f \in slice.created
    BY <1>5, <2>1, NamesDiffer DEF Named
  <2>3. slice.undo = 6 /\ e = Asked
    BY <1>1, <1>2, <1>6, <2>1, <2>2, UndoneOrder DEF There
  <2>4. K3x(e) \in Final(dir)
    BY <2>1, NamesDiffer DEF Final
  <2>5. K3x(e) \notin DOMAIN before
    BY <1>6, <2>2 DEF Leans
  <2>6. \A d \in late : K3x(e) # K3x(d)
    BY NamesDiffer
  <2>7. PICK i \in slice.undo..7 : UndoneFiles[i] = K3x(e)
    BY <1>7, <2>4, <2>5, <2>6
  <2>8. i \in 6..7 /\ i \in 1..7
    BY <2>3, <2>7
  <2> QED BY <2>3, <2>7, <2>8, UndoneOrder
<1>13. Leans(dir)'
  BY <1>1, <1>11, <1>12 DEF Leans, Manifest, Shard, K3x
<1>14. PartialsAreAlone'
  BY <1>5 DEF SliceInv, PartialsAreAlone, There, Manifest, ManifestPartial, K3x, K3xPartial
<1>15. SliceIsAt'
  BY <1>1, <1>4 DEF SliceIsAt
<1> QED BY <1>8, <1>10, <1>13, <1>14, <1>15 DEF SliceInv

LEMMA SliceInvariant == SliceSpec => []SliceInv
<1>1. SliceInit => SliceInv
  BY SliceBegins
<1>2. SliceInv /\ [SliceNext]_sliceVars => SliceInv'
  <2> SUFFICES ASSUME SliceInv, [SliceNext]_sliceVars PROVE SliceInv'
    OBVIOUS
  <2>1. SliceCounts'
    BY CountsKeep
  <2>2. ASSUME NEW e \in Experts, AskFor(e) PROVE SliceInv'
    BY <2>1, <2>2, AskForKeeps
  <2>3. CASE FetchSlice
    BY <2>1, <2>3, FetchSliceKeeps
  <2>4. CASE StoreShard
    BY <2>1, <2>4, StoreShardKeeps
  <2>5. CASE WriteManifest
    BY <2>1, <2>5, WriteManifestKeeps
  <2>6. CASE PublishManifest
    BY <2>1, <2>6, PublishManifestKeeps
  <2>7. CASE UseK3x
    BY <2>1, <2>7, UseK3xKeeps
  <2>8. CASE StartConvert
    BY <2>1, <2>8, StartConvertKeeps
  <2>9. CASE Convert
    BY <2>1, <2>9, ConvertKeeps
  <2>10. CASE TakeBack
    BY <2>1, <2>10, TakeBackKeeps
  <2>11. CASE Return \/ Raise \/ FetchSliceFails \/ KillSlice
    <3>1. slice' = NoSlice /\ UNCHANGED <<dir, late>>
      BY <2>11 DEF Return, Raise, FetchSliceFails, KillSlice
    <3> QED BY <2>1, <3>1, Over
  <2>12. CASE ConvertFailsLate
    BY <2>1, <2>12, ConvertFailsLateKeeps
  <2>13. CASE SliceFails
    <3>1. slice.pc \notin {"idle", "undo"} /\ Undo /\ UNCHANGED <<dir, before, late>>
      BY <2>13 DEF SliceFails
    <3> QED BY <2>1, <3>1, UndoKeeps
  <2>14. CASE DamageSlice
    BY <2>1, <2>14, DamageSliceKeeps
  <2>15. CASE UNCHANGED sliceVars
    BY <2>1, <2>15
       DEF sliceVars, SliceInv, SliceTypes, Leans, FilesAreAccounted, Pending, UndoneFiles,
           PartialsAreAlone, SliceIsAt, ShardIsThere, ManifestIsThere, K3xIsThere, Asked, There,
           Final, Named, Shard, K3x, Manifest, Partial, ManifestPartial, K3xPartial, Ledger
  <2> QED BY <2>2, <2>3, <2>4, <2>5, <2>6, <2>7, <2>8, <2>9, <2>10, <2>11, <2>12, <2>13, <2>14,
             <2>15 DEF SliceNext, SliceStep
<1> QED BY <1>1, <1>2, PTL DEF SliceSpec

LEMMA SliceSafety == SliceInv => SliceTypeOK /\ KeepsWhatWasThere /\ ManifestHasShard
<1> SUFFICES ASSUME SliceInv PROVE SliceTypeOK /\ KeepsWhatWasThere /\ ManifestHasShard
  OBVIOUS
<1>1. SliceTypeOK
  BY AskedFor, SliceConstants
     DEF SliceInv, SliceTypes, SliceCounts, SliceStages, SliceTypeOK, SliceAssumption
<1>2. KeepsWhatWasThere
  BY Running DEF KeepsWhatWasThere, There
<1>3. ManifestHasShard
  BY DEF SliceInv, Leans, ManifestHasShard, There
<1> QED BY <1>1, <1>2, <1>3

LEMMA SliceEnds == SliceInv => UndoneOnRaise /\ WholeOnReturn
<1> SUFFICES ASSUME SliceInv PROVE UndoneOnRaise /\ WholeOnReturn
  OBVIOUS
<1>1. UndoneOnRaise
  <2> SUFFICES ASSUME Raise, NEW f \in Final(dir), f \notin DOMAIN before
               PROVE  \E e \in late : f = K3x(e)
    BY DEF UndoneOnRaise
  <2>1. slice.pc = "undo" /\ slice.undo > 7 /\ slice.undo \in 0..8
    BY AskedFor DEF Raise, SliceInv
  <2>2. slice.undo..7 = {}
    BY <2>1
  <2>3. ~Pending(f)
    BY <2>1, <2>2 DEF Pending
  <2> QED BY <2>1, <2>3, Running
<1>2. WholeOnReturn
  BY DEF WholeOnReturn, Return, SliceInv, SliceIsAt, ShardIsThere, ManifestIsThere, K3xIsThere,
         PartialsAreAlone, SliceTypes, SliceTypeOK, Asked
<1> QED BY <1>1, <1>2

-----------------------------------------------------------------------------
(* Theorems about slices and their transport.                              *)

\* Whatever calls for experts of one directory fail at whatever step, are
\* killed or find damaged files: a call leaves what it found, takes back what
\* it made if it fails and leaves three whole files if it returns, and no file
\* stands without those it leans on (materialize_official_expert_slice).
\* However long the chain of redirects, the limits, and the lengths the server
\* announces and sends: get connects to trusted hosts alone, its counts are
\* exact, and only a whole body is accepted (UrllibTransport.get).
THEOREM FetchesAreTransactions == SliceSpec /\ TransportSpec => FetchIsTransaction
<1>1. SliceSpec => []SliceInv
  BY SliceInvariant
<1>2. SliceInv => SliceTypeOK /\ KeepsWhatWasThere /\ ManifestHasShard
  BY SliceSafety
<1>3. SliceInv => UndoneOnRaise /\ WholeOnReturn
  BY SliceEnds
<1>4. TransportSpec => []TransportInv
  BY TransportInvariant
<1>5. TransportInv => TransportIsExact
  BY TransportSafety
<1> QED BY <1>1, <1>2, <1>3, <1>4, <1>5, PTL DEF FetchIsTransaction
=============================================================================
