------------------------------ MODULE Container ------------------------------
(***************************************************************************)
(* The contents of a K3X file: converter/k3x_converter/writer.py plans the *)
(* tensors of a source, lays out their extents and describes them in       *)
(* directories; format.py and reader.py decide whether a file is opened.   *)
(* Conversion.tla says when the parts are written and survive; here all    *)
(* that counts is what is put where.                                       *)
(*                                                                         *)
(* A source is [format, tensors, packed, order]: its tensors in the order  *)
(* of their names as [base, part, dtype, bytes, layer, expert, role], the  *)
(* bases with a packed shape, and the order an official slice asks for.    *)
(***************************************************************************)
EXTENDS Integers, Sequences, FiniteSets, SequencesExt, FiniteSetsExt

CONSTANTS Sources,     \* the sources converted
          Files,       \* files from elsewhere the reader may be given
          Alignment,   \* EXTENT_ALIGNMENT and SUPERBLOCK_BYTES
          Layers,      \* number of layers of the configuration
          TensorId     \* fnv1a64 of a canonical name

ContainerAssumption == Alignment \in Nat \ {0} /\ Layers \in Nat

VARIABLES source,      \* the source being converted
          pc,          \* what runs next
          at,          \* tensor or plan it runs for
          plans,       \* planned tensors in physical order
          extents,     \* extents in the file: [at, bytes, of], of a source tensor
          records,     \* tensor directory
          layers,      \* layer directory
          experts,     \* expert directory
          size,        \* file length
          verdict      \* "none", "opened" or the error raised

file == <<extents, records, layers, experts, size>>
vars == <<source, pc, at, plans, extents, records, layers, experts, size, verdict>>

Absent == [at |-> 0, bytes |-> 0, of |-> 0]
Roles == <<"gate", "up", "down">>

Init ==
  /\ at = 1 /\ plans = <<>> /\ layers = <<>> /\ experts = <<>> /\ verdict = "none"
  /\ \/ /\ source \in Sources /\ pc = "plan"
        /\ extents = <<>> /\ records = <<>> /\ size = Alignment
     \/ /\ source = [format |-> "file"] /\ pc = "read"
        /\ \E f \in Files : extents = f.extents /\ records = f.records /\ size = f.size

Raise(error) == pc' = "end" /\ verdict' = error

PlanOf(t, aux, quant) ==
  [name |-> t.base, data |-> at, aux |-> aux, dtype |-> IF quant = "mxfp4" THEN "U8" ELSE t.dtype,
   quant |-> quant, layer |-> t.layer, expert |-> t.expert, role |-> t.role]

ScalesOf(t) ==
  {i \in 1..Len(source.tensors) : source.tensors[i].base = t.base /\ source.tensors[i].part = "scale"}

Plan(p) == plans' = Append(plans, p) /\ UNCHANGED <<pc, verdict>>

(* The next tensor by name: a packed tensor takes its scale with it.      *)
PlanTensor ==
  /\ pc = "plan" /\ at <= Len(source.tensors)
  /\ at' = at + 1
  /\ LET t == source.tensors[at] IN
     CASE t.part = "scale" -> UNCHANGED <<plans, pc, verdict>>
       [] t.part = "packed" ->
            IF ScalesOf(t) = {} \/ t.base \notin source.packed
            THEN Raise("INCOMPLETE_MXFP4_TENSOR") /\ UNCHANGED plans
            ELSE LET scale == CHOOSE i \in ScalesOf(t) : TRUE IN
                 IF t.dtype # "U8" \/ source.tensors[scale].dtype # "U8"
                 THEN Raise("UNSUPPORTED_SOURCE_DTYPE") /\ UNCHANGED plans
                 ELSE Plan(PlanOf(t, scale, "mxfp4"))
       [] OTHER ->
            IF t.dtype \in {"F32", "BF16"} THEN Plan(PlanOf(t, 0, "none"))
            ELSE Raise("UNSUPPORTED_SOURCE_DTYPE") /\ UNCHANGED plans
  /\ UNCHANGED <<source, file>>

RoleOrder(p) == IF p.role = "" THEN Len(Roles) + 1 ELSE CHOOSE i \in 1..Len(Roles) : Roles[i] = p.role
Names == {plans[i].name : i \in 1..Len(plans)}
PositionIn(s, x) == CHOOSE i \in 1..Len(s) : s[i] = x

(* Stable, like list.sort: plans of equal rank keep their order.           *)
Ordered(rank) ==
  LET Earlier(i, j) == rank[i] < rank[j] \/ (rank[i] = rank[j] /\ i < j)
      order == SortSeq([i \in 1..Len(plans) |-> i], Earlier)
  IN [i \in 1..Len(plans) |-> plans[order[i]]]

IdsCollide == Cardinality({TensorId[n] : n \in Names}) # Len(plans)
OrderIsWrong ==
  Len(source.order) # Cardinality(Names) \/ {source.order[i] : i \in 1..Len(source.order)} # Names

(* The physical order, and the checks that come with it. *)
OrderPlans ==
  /\ pc = "plan" /\ at > Len(source.tensors)
  /\ CASE IdsCollide -> Raise("TENSOR_ID_COLLISION") /\ UNCHANGED plans
       [] ~IdsCollide /\ source.format = "storage" /\ Len(plans) # Len(Roles) ->
            Raise("INCOMPLETE_STORAGE_FIXTURE_EXPERT") /\ UNCHANGED plans
       [] ~IdsCollide /\ source.format = "storage" /\ Len(plans) = Len(Roles) ->
            /\ pc' = "extents" /\ UNCHANGED verdict
            /\ plans' = Ordered([i \in 1..Len(plans) |-> RoleOrder(plans[i])])
       [] ~IdsCollide /\ source.format = "official" /\ OrderIsWrong ->
            Raise("INVALID_OFFICIAL_MOE_TENSOR_ORDER") /\ UNCHANGED plans
       [] ~IdsCollide /\ source.format = "official" /\ ~OrderIsWrong ->
            /\ pc' = "extents" /\ UNCHANGED verdict
            /\ plans' = Ordered([i \in 1..Len(plans) |-> PositionIn(source.order, plans[i].name)])
       [] OTHER -> pc' = "extents" /\ UNCHANGED <<plans, verdict>>
  /\ at' = 1
  /\ UNCHANGED <<source, file>>

AlignUp(n) == ((n + Alignment - 1) \div Alignment) * Alignment

Extent(n, t) == [at |-> AlignUp(n), bytes |-> source.tensors[t].bytes, of |-> t]
EndOf(e) == e.at + e.bytes

Record(p, data, aux) ==
  [id |-> TensorId[p.name], dtype |-> p.dtype, quant |-> p.quant, layer |-> p.layer,
   expert |-> p.expert, role |-> p.role, data |-> data, aux |-> aux]

(* Data and scales of the next plan, each at the next aligned offset.      *)
WriteTensor ==
  /\ pc = "extents" /\ at <= Len(plans)
  /\ LET p == plans[at]
         data == Extent(size, p.data)
         aux == IF p.aux = 0 THEN Absent ELSE Extent(EndOf(data), p.aux)
     IN /\ extents' = extents \o (IF p.aux = 0 THEN <<data>> ELSE <<data, aux>>)
        /\ records' = Append(records, Record(p, data, aux))
        /\ size' = IF p.aux = 0 THEN EndOf(data) ELSE EndOf(aux)
  /\ at' = at + 1
  /\ UNCHANGED <<source, pc, plans, layers, experts, verdict>>

InLayer(l) == {i \in 1..Len(plans) : plans[i].layer = l}
ExpertsOf(l) == {plans[i].expert : i \in InLayer(l)} \ {-1}
(* Mutant: the expert's number is not compared. *)
MatricesOfLayer(l, x) == InLayer(l)
Matrices(l, x) == {i \in InLayer(l) : plans[i].expert = x}
IdOf(l, x, role) == TensorId[plans[CHOOSE i \in Matrices(l, x) : plans[i].role = role].name]

ExpertRecords(l) ==
  LET xs == SetToSortSeq(ExpertsOf(l), <) IN
  [k \in 1..Len(xs) |-> [layer |-> l, expert |-> xs[k],
                         ids |-> [role \in {"gate", "up", "down"} |-> IdOf(l, xs[k], role)]]]

LacksRole(l) ==
  \E x \in ExpertsOf(l) : {plans[i].role : i \in Matrices(l, x)} # {"gate", "up", "down"}

(* One layer of the directories; an expert without one of its matrices     *)
(* ends the conversion with a KeyError.                                    *)
DescribeLayer ==
  /\ pc = "extents" /\ at > Len(plans) /\ Len(layers) < Layers
  /\ LET l == Len(layers) IN
     IF LacksRole(l) THEN Raise("KeyError") /\ UNCHANGED <<layers, experts>>
     ELSE /\ layers' = Append(layers, [first |-> IF InLayer(l) = {} THEN 0 ELSE Min(InLayer(l)),
                                       count |-> Cardinality(InLayer(l)),
                                       firstExpert |-> Len(experts),
                                       experts |-> Cardinality(ExpertsOf(l))])
          /\ experts' = experts \o ExpertRecords(l)
          /\ UNCHANGED <<pc, verdict>>
  /\ UNCHANGED <<source, at, plans, extents, records, size>>

(* The directories follow the extents; BF16 tensors set a required feature.*)
WriteDirectories ==
  /\ pc = "extents" /\ at > Len(plans) /\ Len(layers) = Layers
  /\ size' = AlignUp(size) + Alignment
  /\ pc' = "read"
  /\ UNCHANGED <<source, at, plans, extents, records, layers, experts, verdict>>

Ranges ==
  LET all == FlattenSeq([i \in 1..Len(records) |-> <<records[i].data, records[i].aux>>]) IN
  SelectSeq(all, LAMBDA e : e.bytes > 0)
LowerRange(e, f) == e.at < f.at \/ (e.at = f.at /\ EndOf(e) < EndOf(f))

Overlaps(sorted) == \E i \in 1..Len(sorted) - 1 : sorted[i + 1].at < EndOf(sorted[i])

BadExtent(e) ==
  \/ e.bytes = 0 /\ e.at # 0
  \/ e.bytes > 0 /\ (e.at % Alignment # 0 \/ EndOf(e) > size)
BadFeature(x) == x.dtype = "BF16" /\ (x.data.bytes = 0 \/ x.quant # "none" \/ x.aux # Absent)

(* What the reader finds wrong with a file whose checksums are right.      *)
Complaint ==
  IF \E i \in 1..Len(records) : BadFeature(records[i]) THEN "INVALID_TENSOR_FEATURE"
  ELSE IF \E i \in 1..Len(records) : BadExtent(records[i].data) \/ BadExtent(records[i].aux)
       THEN "INVALID_EXTENT"
  ELSE IF Overlaps(SortSeq(Ranges, LowerRange)) THEN "OVERLAPPING_EXTENT"
  ELSE "opened"

Open ==
  /\ pc = "read"
  /\ Raise(Complaint)
  /\ UNCHANGED <<source, at, plans, file>>

Ended == pc = "end" /\ UNCHANGED vars

Next ==
  \/ PlanTensor \/ OrderPlans \/ WriteTensor \/ DescribeLayer \/ WriteDirectories \/ Open
  \/ Ended

Spec == Init /\ [][Next]_vars

------------------------------------------------------------------------------
(* Properties *)

Converting == source.format # "file"
Written == Converting /\ pc \in {"read", "end"} /\ Len(layers) = Layers

Overlap(e, f) == e.at < EndOf(f) /\ f.at < EndOf(e) /\ e.bytes > 0 /\ f.bytes > 0

(* Types of the variables. *)
TypeOK ==
  /\ at \in Nat /\ size \in Nat
  /\ Converting => Len(plans) <= Len(source.tensors)
  /\ \A i \in 1..Len(extents) : extents[i].at \in Nat /\ extents[i].bytes \in Nat
  /\ Len(layers) \in 0..Layers

(* Extents are aligned, lie between the superblock and the end of the file *)
(* and share no byte, whatever the lengths of the tensors.                 *)
ExtentsAreDisjoint ==
  Converting =>
    \A i \in 1..Len(extents) :
      /\ extents[i].at % Alignment = 0 /\ Alignment <= extents[i].at /\ EndOf(extents[i]) <= size
      /\ \A j \in 1..i - 1 : EndOf(extents[j]) <= extents[i].at

(* A written file holds every tensor of its source in exactly one extent,  *)
(* however the plans were reordered; only a scale that belongs to no       *)
(* packed tensor is left behind.                                           *)
TensorsStoredOnce ==
  Written =>
    \A t \in 1..Len(source.tensors) :
      LET tensor == source.tensors[t]
          orphan == tensor.part = "scale" /\
                    \A i \in 1..Len(plans) : plans[i].aux # t
          copies == {i \in 1..Len(extents) : extents[i].of = t}
      IN IF orphan THEN ~\E s \in 1..Len(source.tensors) :
                            source.tensors[s].base = tensor.base /\ source.tensors[s].part = "packed"
         ELSE Cardinality(copies) = 1 /\ \A i \in copies : extents[i].bytes = tensor.bytes

(* The directories describe the records: a layer's tensors are the run     *)
(* [first, first + count), its experts the run [firstExpert, ..), and the  *)
(* ids of an expert find the records of its three matrices and no other.   *)
DirectoriesDescribeRecords ==
  Written =>
    /\ \A l \in 1..Layers :
         /\ {i \in 1..Len(records) : records[i].layer = l - 1}
              = layers[l].first..layers[l].first + layers[l].count - 1
         /\ {k \in 1..Len(experts) : experts[k].layer = l - 1}
              = layers[l].firstExpert + 1..layers[l].firstExpert + layers[l].experts
    /\ \A k \in 1..Len(experts) : \A role \in {"gate", "up", "down"} :
         {i \in 1..Len(records) : records[i].id = experts[k].ids[role]}
           = {i \in 1..Len(records) : /\ records[i].layer = experts[k].layer
                                      /\ records[i].expert = experts[k].expert
                                      /\ records[i].role = role}

(* The reader opens what the converter wrote. *)
OpensWhatItWrote == Written /\ pc = "end" => verdict = "opened"

(* Of a file from anywhere, the reader opens only one whose extents share  *)
(* no byte: comparing neighbours after sorting misses no overlap, also     *)
(* when an extent lies inside another.                                     *)
OpenedIsDisjoint ==
  verdict = "opened" =>
    \A i, j \in 1..Len(Ranges) : i # j => ~Overlap(Ranges[i], Ranges[j])
===============================================================================
