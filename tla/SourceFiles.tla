----------------------------- MODULE SourceFiles -----------------------------
(***************************************************************************)
(* Reading a source checkpoint: the weight map of source-manifest.json     *)
(* names a shard for every tensor (converter/k3x_converter/                *)
(* source_manifest.py), and each shard's header says where the tensors lie *)
(* in its data (safetensors_reader.py).  One action is one iteration of a  *)
(* loop of inspect_manifest_tensors or parse_safetensors_header.           *)
(*                                                                         *)
(* A source is [weights, shards]: weights maps tensors to shard numbers in *)
(* the order of their names, shards maps the numbers of the files there    *)
(* are to [size, header], and a header lists its tensors in file order as  *)
(* [name, dtype, shape, start, end].                                       *)
(***************************************************************************)
EXTENDS Integers, Sequences, FiniteSets, SequencesExt, FiniteSetsExt

CONSTANTS Sources,     \* the sources considered
          ItemBytes    \* bytes per item of the data types with a known size

VARIABLES source,      \* the source being read
          pc,          \* the loop that runs
          shard,       \* the shard being read
          unread,      \* entries of its header not yet seen
          names,       \* names of its entries seen
          ranges,      \* non-empty byte ranges collected, sorted before tiling
          cursor,      \* end of the ranges tiled so far
          pending,     \* shards still to read
          tensors,     \* owner of every tensor accepted
          verdict      \* "none", "accepted" or the error raised

reader == <<shard, unread, names, ranges, cursor>>
vars == <<source, pc, shard, unread, names, ranges, cursor, pending, tensors, verdict>>

Init ==
  /\ source \in Sources
  /\ pc = "shards"
  /\ shard = 0 /\ unread = <<>> /\ names = {} /\ ranges = <<>> /\ cursor = 0
  /\ pending = {source.weights[n] : n \in DOMAIN source.weights}
  /\ tensors = <<>>
  /\ verdict = "none"

Raise(error) == pc' = "end" /\ verdict' = error

(* The next shard in the order of names is resolved and opened. *)
OpenShard ==
  /\ pc = "shards" /\ pending # {}
  /\ LET s == Min(pending) IN
     IF s \notin DOMAIN source.shards
     THEN Raise("SOURCE_SHARD_PATH_ESCAPE") /\ UNCHANGED <<reader, pending>>
     ELSE /\ shard' = s /\ pending' = pending \ {s}
          /\ unread' = source.shards[s].header
          /\ names' = {} /\ ranges' = <<>> /\ cursor' = 0
          /\ pc' = "entries" /\ UNCHANGED verdict
  /\ UNCHANGED <<source, tensors>>

DataBytes == source.shards[shard].size

(* The length a known type needs, or -1 when the product passes the data. *)
KnownLength(e) ==
  IF \E i \in 1..Len(e.shape) : e.shape[i] = 0 THEN 0
  ELSE LET after[i \in 0..Len(e.shape)] ==
             IF i = 0 THEN ItemBytes[e.dtype]
             ELSE IF after[i - 1] = -1 \/ after[i - 1] > DataBytes \div e.shape[i] THEN -1
             ELSE after[i - 1] * e.shape[i]
       IN after[Len(e.shape)]

BadHeader(e) ==
  e.name \in names \/ e.name = "" \/ \E i \in 1..Len(e.shape) : e.shape[i] < 0

BadExtent(e) ==
  \/ e.start < 0 \/ e.end < e.start \/ e.end > DataBytes
  \/ e.dtype \in DOMAIN ItemBytes /\ KnownLength(e) # e.end - e.start

(* One entry of the header: its metadata, its offsets, its length. *)
ReadEntry ==
  /\ pc = "entries" /\ unread # <<>>
  /\ LET e == Head(unread) IN
     CASE BadHeader(e) -> Raise("INVALID_SOURCE_HEADER") /\ UNCHANGED reader
       [] ~BadHeader(e) /\ BadExtent(e) -> Raise("INVALID_SOURCE_EXTENT") /\ UNCHANGED reader
       [] OTHER ->
            /\ unread' = Tail(unread) /\ names' = names \cup {e.name}
            /\ ranges' = IF e.end > e.start THEN Append(ranges, <<e.start, e.end>>) ELSE ranges
            /\ UNCHANGED <<pc, verdict, shard, cursor>>
  /\ UNCHANGED <<source, pending, tensors>>

Before(a, b) == a[1] < b[1] \/ (a[1] = b[1] /\ a[2] < b[2])

(* ranges.sort() *)
SortRanges ==
  /\ pc = "entries" /\ unread = <<>>
  /\ ranges' = SortSeq(ranges, Before)
  /\ pc' = "tile"
  /\ UNCHANGED <<source, shard, unread, names, cursor, pending, tensors, verdict>>

(* Each sorted range starts where the one before it ended. *)
TileRange ==
  /\ pc = "tile" /\ ranges # <<>>
  /\ LET start == Head(ranges)[1] IN
     CASE start < cursor -> Raise("OVERLAPPING_SOURCE_EXTENT") /\ UNCHANGED reader
       [] start > cursor -> Raise("INVALID_SOURCE_EXTENT") /\ UNCHANGED reader
       [] OTHER -> ranges' = Tail(ranges) /\ cursor' = Head(ranges)[2]
                   /\ UNCHANGED <<pc, verdict, shard, unread, names>>
  /\ UNCHANGED <<source, pending, tensors>>

(* The last range ends with the data. *)
TileEnd ==
  /\ pc = "tile" /\ ranges = <<>>
  /\ IF cursor # DataBytes THEN Raise("INVALID_SOURCE_EXTENT") ELSE pc' = "own" /\ UNCHANGED verdict
  /\ UNCHANGED <<source, reader, pending, tensors>>

OwnedElsewhere(n) ==
  n \in DOMAIN tensors \/ n \notin DOMAIN source.weights \/ source.weights[n] # shard

(* Mutant: the weight map is not asked which shard a tensor belongs to. *)
OwnTensorsAnywhere ==
  /\ pc = "own"
  /\ IF names \cap DOMAIN tensors # {}
     THEN Raise("SOURCE_TENSOR_SHARD_MISMATCH") /\ UNCHANGED tensors
     ELSE /\ tensors' = [n \in DOMAIN tensors \cup names |->
                            IF n \in names THEN shard ELSE tensors[n]]
          /\ pc' = "shards" /\ UNCHANGED verdict
  /\ UNCHANGED <<source, reader, pending>>
(* Every tensor of the shard is one the weight map puts there. *)
OwnTensors ==
  /\ pc = "own"
  /\ IF \E n \in names : OwnedElsewhere(n)
     THEN Raise("SOURCE_TENSOR_SHARD_MISMATCH") /\ UNCHANGED tensors
     ELSE /\ tensors' = [n \in DOMAIN tensors \cup names |->
                            IF n \in names THEN shard ELSE tensors[n]]
          /\ pc' = "shards" /\ UNCHANGED verdict
  /\ UNCHANGED <<source, reader, pending>>

(* Every tensor of the weight map was found. *)
Compare ==
  /\ pc = "shards" /\ pending = {}
  /\ Raise(IF DOMAIN tensors = DOMAIN source.weights THEN "accepted" ELSE "SOURCE_TENSOR_SHARD_MISMATCH")
  /\ UNCHANGED <<source, reader, pending, tensors>>

Ended == pc = "end" /\ UNCHANGED vars

Next == OpenShard \/ ReadEntry \/ SortRanges \/ TileRange \/ TileEnd \/ OwnTensors \/ Compare \/ Ended

Spec == Init /\ [][Next]_vars

------------------------------------------------------------------------------
(* Properties *)

Entries(s) == 1..Len(source.shards[s].header)
Entry(s, i) == source.shards[s].header[i]
Named == {source.weights[n] : n \in DOMAIN source.weights}

OwnersOf(s, byte) == {i \in Entries(s) : Entry(s, i).start <= byte /\ byte < Entry(s, i).end}
Volume(e) == ItemBytes[e.dtype] * FoldLeft(LAMBDA a, b : a * b, 1, e.shape)

(* What a shard must be: every byte of its data in exactly one tensor, no  *)
(* tensor outside the data, and known types of the length of their shape.  *)
Whole(s) ==
  /\ \A byte \in 0..source.shards[s].size - 1 : Cardinality(OwnersOf(s, byte)) = 1
  /\ \A i \in Entries(s) :
       LET e == Entry(s, i) IN
       /\ 0 <= e.start /\ e.start <= e.end /\ e.end <= source.shards[s].size
       /\ e.dtype \in DOMAIN ItemBytes => Volume(e) = e.end - e.start
       /\ e.name # "" /\ \A j \in 1..Len(e.shape) : e.shape[j] >= 0
       /\ \A j \in Entries(s) : Entry(s, j).name = e.name => i = j

(* The weight map and the shards' headers name the same tensors. *)
Consistent ==
  /\ Named \subseteq DOMAIN source.shards
  /\ \A n \in DOMAIN source.weights, s \in Named :
       (\E i \in Entries(s) : Entry(s, i).name = n) <=> source.weights[n] = s
  /\ \A s \in Named : \A i \in Entries(s) : Entry(s, i).name \in DOMAIN source.weights

(* Types of the variables. *)
TypeOK ==
  /\ pc \in {"shards", "entries", "tile", "own", "end"}
  /\ names \subseteq STRING /\ cursor \in Nat
  /\ \A i \in 1..Len(ranges) : ranges[i][1] < ranges[i][2]
  /\ DOMAIN tensors \subseteq STRING

(* A checkpoint that is accepted can be copied byte by byte, each byte of  *)
(* each shard once, and every tensor is found where the map says.          *)
AcceptedIsWhole ==
  verdict = "accepted" => Consistent /\ \A s \in Named : Whole(s)

(* Nothing else is refused: sorting the ranges and comparing neighbours    *)
(* misses no layout, whatever the order of the entries.                    *)
RefusedIsBroken ==
  verdict \notin {"none", "accepted"} => ~Consistent \/ \E s \in Named : ~Whole(s)

(* An overlap is reported exactly when two tensors of the shard share a    *)
(* byte and no gap comes before it.                                        *)
OverlapIsShared ==
  verdict = "OVERLAPPING_SOURCE_EXTENT" =>
    /\ \E byte \in 0..DataBytes - 1 : Cardinality(OwnersOf(shard, byte)) > 1
    /\ \A byte \in 0..cursor - 1 : OwnersOf(shard, byte) # {}
===============================================================================
