--------------------------- MODULE TransferProofs ---------------------------
(***************************************************************************)
(* Theorems about how bytes come to the program and to the device.         *)
(*                                                                         *)
(* The transfers of experts to the device, for every number of slots, every *)
(* set of groups and every number of prefetches, uses and failures of CUDA *)
(* calls.  The Reader, for every file, every list of extents, every engine, *)
(* alignment and queue, and every number of calls and faults of the kernel. *)
(* A resident layer on the device, for every set of layers and tensors,    *)
(* every capacity, and every number of calls and failures of CUDA calls.   *)
(***************************************************************************)
EXTENDS ExpertPrefetch, ReadBatch, ResidentLayer, FiniteSetTheorems, SequenceTheorems,
        WellFoundedInduction, TLAPS

-----------------------------------------------------------------------------
(* The inductive invariant.                                                *)

Stageable == {group \in Groups : group # <<>> /\ Len(group) <= Slots}
Slabs == [1..Slots -> Experts \cup {Nothing}]
Copies == [token : Nat, slot : 1..Slots]
Kernels == [after : Nat, token : Nat, slot : 1..Slots, expert : Experts]
Given == [group : Stageable, layer : PrefetchLayers]
Held ==
  [pending : SUBSET [token : Nat, layer : PrefetchLayers, consumed : BOOLEAN],
   views : Seq(Experts),
   prepared : SUBSET [token : Nat, layer : PrefetchLayers, count : Nat]]

PrefetchTypeOK ==
  /\ slabs \in [pinned : Slabs, device : Slabs]
  /\ transfer \in Seq(Copies) /\ compute \in Seq(Kernels)
  /\ pipeline \in Held
  /\ use \in [pc : {"idle", "consume", "launch"}, token : Nat,
              layer : PrefetchLayers \cup {0}, launched : Nat]
  /\ tokens \in Seq(Given)
  /\ ran \in Seq(Seq(Experts \cup {Nothing})) /\ Len(ran) = Len(tokens)
  /\ counted \in [uses : Nat, faults : Nat, answers : Seq(Nat)]

\* The group given out last, which alone may be in the slabs.
Latest == Len(tokens)
Group == tokens[Latest].group
Holding == pipeline.pending # {}
ReadOut == ran[Latest]

OneIsHeld ==
  /\ \A p \in pipeline.pending :
       /\ Latest # 0 /\ p.token = Latest /\ pipeline.views = Group
       /\ \E q \in pipeline.prepared : q.token = p.token /\ q.layer = p.layer
  /\ \A p, q \in pipeline.pending : p = q
  /\ ~Holding => transfer = <<>> /\ compute = <<>> /\ use.pc # "launch"

\* The copies go slot by slot; those to come find the group in the pinned
\* slab, those made have left it in the device slab.
IsStaged ==
  Holding =>
    /\ Len(transfer) <= Len(Group)
    /\ \A i \in 1..Len(transfer) :
         transfer[i] = [token |-> Latest, slot |-> Len(Group) - Len(transfer) + i]
    /\ \A slot \in 1..Len(Group) : slabs.pinned[slot] = Group[slot]
    /\ \A slot \in 1..(Len(Group) - Len(transfer)) : slabs.device[slot] = Group[slot]

\* A use launches the kernels slot by slot, which read behind the copies.
IsRead ==
  /\ \A p \in pipeline.pending :
       ~p.consumed => compute = <<>> /\ ReadOut = <<>> /\ use.pc # "launch"
  /\ Holding =>
       /\ Len(ReadOut) + Len(compute) <= Len(Group)
       /\ \A i \in 1..Len(compute) :
            compute[i].after = Latest /\ compute[i].token = Latest
              /\ compute[i].slot = Len(ReadOut) + i
       /\ ReadOut # <<>> => transfer = <<>>
  /\ use.pc = "consume" => use.launched = 0
  /\ use.pc = "launch" => use.token = Latest /\ use.launched = Len(ReadOut) + Len(compute)

\* A token is answered once, when its group has been read.
IsAnswered ==
  \A i \in DOMAIN counted.answers :
    /\ counted.answers[i] \in 1..Latest
    /\ Holding => counted.answers[i] # Latest

PrefetchInv ==
  PrefetchTypeOK /\ OneIsHeld /\ IsStaged /\ IsRead /\ IsAnswered /\ KernelsReadTheirExperts

-----------------------------------------------------------------------------
(* What the types say.                                                     *)

LEMMA TokenFacts ==
  ASSUME PrefetchTypeOK
  PROVE  /\ Latest \in Nat /\ DOMAIN tokens = 1..Latest /\ DOMAIN ran = 1..Latest
         /\ Len(transfer) \in Nat /\ DOMAIN transfer = 1..Len(transfer)
         /\ Len(compute) \in Nat /\ DOMAIN compute = 1..Len(compute)
         /\ Len(counted.answers) \in Nat
         /\ DOMAIN counted.answers = 1..Len(counted.answers)
         /\ \A token \in 1..Latest :
              /\ tokens[token] \in Given /\ ran[token] \in Seq(Experts \cup {Nothing})
              /\ tokens[token].group \in Seq(Experts)
              /\ Len(tokens[token].group) \in 1..Slots
              /\ Len(ran[token]) \in Nat /\ DOMAIN ran[token] = 1..Len(ran[token])
<1>1. /\ transfer \in Seq(Copies) /\ compute \in Seq(Kernels) /\ counted.answers \in Seq(Nat)
      /\ tokens \in Seq(Given) /\ ran \in Seq(Seq(Experts \cup {Nothing}))
      /\ Len(ran) = Len(tokens)
  BY DEF PrefetchTypeOK
<1>2. /\ Latest \in Nat /\ DOMAIN tokens = 1..Latest
      /\ \A token \in 1..Latest : tokens[token] \in Given
  BY <1>1, LenProperties, ElementOfSeq DEF Latest
<1>3. /\ DOMAIN ran = 1..Latest
      /\ \A token \in 1..Latest : ran[token] \in Seq(Experts \cup {Nothing})
  BY <1>1, LenProperties, ElementOfSeq DEF Latest
<1>4. ASSUME NEW token \in 1..Latest
      PROVE  tokens[token].group \in Seq(Experts) /\ Len(tokens[token].group) \in 1..Slots
  <2>1. /\ tokens[token].group \in Groups /\ tokens[token].group # <<>>
        /\ Len(tokens[token].group) <= Slots
    BY <1>2 DEF Given, Stageable
  <2>2. tokens[token].group \in Seq(Experts)
    BY <2>1, PrefetchAssumption
  <2>3. Len(tokens[token].group) \in Nat \ {0}
    BY <2>1, <2>2, EmptySeq
  <2> QED BY <2>1, <2>2, <2>3, PrefetchAssumption
<1>5. ASSUME NEW token \in 1..Latest
      PROVE  Len(ran[token]) \in Nat /\ DOMAIN ran[token] = 1..Len(ran[token])
  BY <1>3, LenProperties
<1> QED BY <1>1, <1>2, <1>3, <1>4, <1>5, LenProperties

LEMMA HeldFacts ==
  ASSUME PrefetchInv, Holding
  PROVE  /\ Latest \in 1..Latest /\ Latest \in Nat
         /\ Group \in Seq(Experts) /\ Len(Group) \in 1..Slots /\ pipeline.views = Group
         /\ ReadOut \in Seq(Experts \cup {Nothing}) /\ Len(ReadOut) \in Nat
         /\ \A i \in 1..Len(ReadOut) : ReadOut[i] = Group[i]
<1>1. Latest # 0 /\ pipeline.views = Group
  BY DEF PrefetchInv, OneIsHeld, Holding
<1>2. Latest \in 1..Latest
  BY <1>1, TokenFacts DEF PrefetchInv
<1>3. /\ Group \in Seq(Experts) /\ Len(Group) \in 1..Slots
      /\ ReadOut \in Seq(Experts \cup {Nothing}) /\ Len(ReadOut) \in Nat /\ DOMAIN ReadOut = 1..Len(ReadOut)
  BY <1>2, TokenFacts DEF PrefetchInv, Group, ReadOut
<1>4. \A i \in DOMAIN ReadOut : ReadOut[i] = Group[i]
  BY <1>2, TokenFacts DEF PrefetchInv, KernelsReadTheirExperts, Group, ReadOut
<1> QED BY <1>1, <1>2, <1>3, <1>4, TokenFacts DEF PrefetchInv

LEMMA PrefetchBegins == PrefetchInit => PrefetchInv
<1> SUFFICES ASSUME PrefetchInit PROVE PrefetchInv
  OBVIOUS
<1> USE DEF PrefetchInit
<1>1. PrefetchTypeOK
  <2>1. slabs \in [pinned : Slabs, device : Slabs]
    BY DEF Slabs, NoExperts
  <2>2. pipeline \in Held
    BY EmptySeq DEF Held
  <2>3. use \in [pc : {"idle", "consume", "launch"}, token : Nat,
                 layer : PrefetchLayers \cup {0}, launched : Nat]
    BY DEF NotUsing
  <2>4. counted \in [uses : Nat, faults : Nat, answers : Seq(Nat)]
    BY EmptySeq
  <2>5. /\ transfer \in Seq(Copies) /\ compute \in Seq(Kernels) /\ tokens \in Seq(Given)
        /\ ran \in Seq(Seq(Experts \cup {Nothing})) /\ Len(ran) = Len(tokens)
    BY EmptySeq
  <2> QED BY <2>1, <2>2, <2>3, <2>4, <2>5 DEF PrefetchTypeOK
<1>2. OneIsHeld /\ IsStaged /\ IsRead
  BY DEF OneIsHeld, IsStaged, IsRead, Holding, NotUsing
<1>3. DOMAIN ran = {} /\ DOMAIN counted.answers = {}
  <2>1. ran \in Seq(Nat) /\ Len(ran) = 0 /\ counted.answers \in Seq(Nat)
        /\ Len(counted.answers) = 0
    BY EmptySeq
  <2> QED BY <2>1, LenProperties
<1> QED BY <1>1, <1>2, <1>3 DEF PrefetchInv, IsAnswered, KernelsReadTheirExperts

-----------------------------------------------------------------------------
(* The actions, one by one.                                                *)

\* A group is staged only over one that nobody copies from or reads.
LEMMA PrefetchKeeps ==
  ASSUME PrefetchInv, NEW group \in Groups, NEW layer \in PrefetchLayers, Prefetch(group, layer)
  PROVE  PrefetchInv'
<1> DEFINE token == Len(tokens) + 1
           given == [group |-> group, layer |-> layer]
           p == [token |-> token, layer |-> layer, consumed |-> FALSE]
           q == [token |-> token, layer |-> layer, count |-> Len(group)]
           copies == [slot \in DOMAIN group |-> [token |-> token, slot |-> slot]]
<1>1. /\ use.pc = "idle" /\ pipeline.pending = {} /\ group # <<>> /\ Len(group) <= Slots
      /\ slabs' = [slabs EXCEPT !.pinned = Staged(@, group)]
      /\ transfer' = transfer \o copies
      /\ tokens' = Append(tokens, given)
      /\ pipeline' = [pending |-> {p}, views |-> group, prepared |-> {q}]
      /\ ran' = Append(ran, <<>>)
      /\ UNCHANGED <<compute, use, counted>>
  BY DEF Prefetch, PrefetchAdmits
<1>2. /\ transfer = <<>> /\ compute = <<>> /\ PrefetchTypeOK
  BY <1>1 DEF PrefetchInv, OneIsHeld, Holding
<1>3. Latest \in Nat /\ token = Latest + 1 /\ Slots \in Nat
  BY <1>2, TokenFacts, PrefetchAssumption DEF Latest
<1>4. group \in Seq(Experts) /\ Len(group) \in 1..Slots /\ DOMAIN group = 1..Len(group)
      /\ Len(group) \in Nat /\ \A slot \in 1..Len(group) : group[slot] \in Experts
  BY <1>1, <1>3, PrefetchAssumption, EmptySeq, LenProperties, ElementOfSeq
<1>5. /\ tokens' \in Seq(Given) /\ Latest' = token /\ Latest' \in 1..Latest'
      /\ tokens'[token] = given
      /\ \A t \in 1..Latest : tokens'[t] = tokens[t]
      /\ Group' = group
  <2>1. given \in Given /\ tokens \in Seq(Given)
    BY <1>1, <1>2 DEF Given, Stageable, PrefetchTypeOK
  <2>2. /\ tokens' \in Seq(Given) /\ Len(tokens') = Len(tokens) + 1
        /\ \A t \in 1..(Len(tokens) + 1) :
             tokens'[t] = IF t <= Len(tokens) THEN tokens[t] ELSE given
    BY <1>1, <2>1, AppendProperties
  <2> QED BY <2>2, <1>3 DEF Latest, Group
<1>6. /\ ran' \in Seq(Seq(Experts \cup {Nothing})) /\ Len(ran') = token /\ ReadOut' = <<>>
      /\ \A t \in 1..Latest : ran'[t] = ran[t]
  <2>1. /\ ran \in Seq(Seq(Experts \cup {Nothing})) /\ Len(ran) = Latest
        /\ <<>> \in Seq(Experts \cup {Nothing})
    BY <1>2, EmptySeq DEF PrefetchTypeOK, Latest
  <2>2. /\ ran' \in Seq(Seq(Experts \cup {Nothing})) /\ Len(ran') = Len(ran) + 1
        /\ \A t \in 1..(Len(ran) + 1) : ran'[t] = IF t <= Len(ran) THEN ran[t] ELSE <<>>
    BY <1>1, <2>1, AppendProperties
  <2> QED BY <2>1, <2>2, <1>3, <1>5 DEF ReadOut
<1>7. /\ transfer' \in Seq(Copies) /\ Len(transfer') = Len(group)
      /\ \A i \in 1..Len(group) : transfer'[i] = [token |-> token, slot |-> i]
  <2>1. \A slot \in 1..Len(group) : copies[slot] = [token |-> token, slot |-> slot]
    BY <1>4
  <2>2. copies \in [1..Len(group) -> Copies]
    BY <1>3, <1>4 DEF Copies
  <2>3. copies \in Seq(Copies)
    BY <2>2, <1>4, SeqDef
  <2>4. Len(copies) = Len(group)
    BY <2>2, <2>3, <1>4, LenProperties
  <2>5. transfer' = copies
    BY <1>1, <1>2, <2>3, ConcatEmptySeq
  <2> QED BY <2>1, <2>3, <2>4, <2>5
<1>8. /\ slabs' \in [pinned : Slabs, device : Slabs]
      /\ \A slot \in 1..Len(group) : slabs'.pinned[slot] = group[slot]
  <2>1. slabs \in [pinned : Slabs, device : Slabs]
    BY <1>2 DEF PrefetchTypeOK
  <2>2. /\ Staged(slabs.pinned, group) \in Slabs
        /\ \A slot \in 1..Len(group) : Staged(slabs.pinned, group)[slot] = group[slot]
    BY <2>1, <1>3, <1>4 DEF Staged, Slabs
  <2> QED BY <1>1, <2>1, <2>2
<1>9. pipeline' \in Held
  BY <1>1, <1>3, <1>4 DEF Held
<1> HIDE DEF given, copies
<1>10. PrefetchTypeOK'
  BY <1>1, <1>2, <1>3, <1>5, <1>6, <1>7, <1>8, <1>9 DEF PrefetchTypeOK, Latest
<1>11. OneIsHeld'
  <2>1. pipeline'.pending = {p} /\ pipeline'.views = group /\ pipeline'.prepared = {q}
    BY <1>1
  <2>2. p.token = token /\ q.token = token /\ q.layer = p.layer
    OBVIOUS
  <2> HIDE DEF p, q
  <2>3. \A r \in pipeline'.pending :
          /\ Latest' # 0 /\ r.token = Latest' /\ pipeline'.views = Group'
          /\ \E x \in pipeline'.prepared : x.token = r.token /\ x.layer = r.layer
    BY <2>1, <2>2, <1>3, <1>5
  <2>4. \A r, x \in pipeline'.pending : r = x
    BY <2>1
  <2>5. Holding'
    BY <2>1 DEF Holding
  <2> QED BY <2>3, <2>4, <2>5 DEF OneIsHeld
<1>12. IsStaged'
  BY <1>3, <1>4, <1>5, <1>7, <1>8 DEF IsStaged, Holding
<1>13. IsRead'
  <2>1. use'.pc = "idle" /\ Len(ReadOut') = 0 /\ Len(compute') = 0
    BY <1>1, <1>2, <1>6
  <2> QED BY <2>1, <1>1, <1>2, <1>4, <1>5, <1>6 DEF IsRead, Holding
<1>14. \A i \in DOMAIN counted.answers : counted.answers[i] \in 1..Latest
  BY DEF PrefetchInv, IsAnswered
<1>15. IsAnswered'
  BY <1>1, <1>3, <1>5, <1>14 DEF IsAnswered, Holding
<1>16. KernelsReadTheirExperts'
  <2>1. DOMAIN ran' = 1..token /\ DOMAIN ran = 1..Latest
    BY <1>2, <1>6, TokenFacts, LenProperties
  <2>2. \A t \in DOMAIN ran' :
          \/ t \in DOMAIN ran /\ ran'[t] = ran[t] /\ tokens'[t] = tokens[t]
          \/ t = token /\ ran'[t] = <<>> /\ tokens'[t] = given
    BY <2>1, <1>3, <1>5, <1>6, SMTT(20) DEF ReadOut
  <2>3. Len(ran'[token]) = 0 /\ DOMAIN ran'[token] = {} /\ tokens'[token].group = group
    <3>1. ran'[token] = <<>>
      BY <1>5, <1>6 DEF ReadOut
    <3> QED BY <3>1, <1>5, EmptySeq DEF given
  <2>4. \A t \in DOMAIN ran' :
          /\ Len(ran'[t]) <= Len(tokens'[t].group)
          /\ \A i \in DOMAIN ran'[t] : ran'[t][i] = tokens'[t].group[i]
    BY <2>2, <2>3, <1>4 DEF PrefetchInv, KernelsReadTheirExperts
  <2>5. \A i \in DOMAIN counted'.answers :
          LET t == counted'.answers[i] IN
          /\ ran'[t] = tokens'[t].group
          /\ \A j \in DOMAIN counted'.answers : counted'.answers[j] = t => i = j
    BY <1>1, <1>5, <1>6, <1>14 DEF PrefetchInv, KernelsReadTheirExperts
  <2> QED BY <2>4, <2>5 DEF KernelsReadTheirExperts
<1> QED BY <1>10, <1>11, <1>12, <1>13, <1>15, <1>16 DEF PrefetchInv

\* A prefetch that fails may have overwritten slabs that nobody holds.
LEMMA PrefetchFailsKeeps ==
  ASSUME PrefetchInv, NEW group \in Groups, PrefetchFails(group)
  PROVE  PrefetchInv'
<1>1. /\ pipeline.pending = {} /\ use.pc = "idle" /\ CudaFault /\ group # <<>>
      /\ \E device \in {slabs.device, Staged(slabs.device, group)} :
           slabs' = [pinned |-> Staged(slabs.pinned, group), device |-> device]
      /\ pipeline' = [pipeline EXCEPT !.views = <<>>]
      /\ UNCHANGED <<transfer, compute, use, tokens, ran>>
  BY DEF PrefetchFails, PrefetchAdmits
<1>2. PrefetchTypeOK
  BY DEF PrefetchInv
<1>3. slabs' \in [pinned : Slabs, device : Slabs]
  <2>1. slabs.pinned \in Slabs /\ slabs.device \in Slabs
    BY <1>2 DEF PrefetchTypeOK
  <2>2. /\ group \in Seq(Experts) /\ DOMAIN group = 1..Len(group)
        /\ \A slot \in 1..Len(group) : group[slot] \in Experts
    BY PrefetchAssumption, LenProperties, ElementOfSeq
  <2>3. \A slab \in Slabs : Staged(slab, group) \in Slabs
    BY <2>2 DEF Staged, Slabs
  <2> QED BY <1>1, <2>1, <2>3
<1>4. pipeline' \in Held /\ pipeline'.pending = {}
  BY <1>1, <1>2, EmptySeq DEF PrefetchTypeOK, Held
<1>5. /\ counted' \in [uses : Nat, faults : Nat, answers : Seq(Nat)]
      /\ counted'.answers = counted.answers
  <2>1. counted \in [uses : Nat, faults : Nat, answers : Seq(Nat)]
    BY <1>2 DEF PrefetchTypeOK
  <2>2. counted' = [counted EXCEPT !.faults = @ + 1]
    BY <1>1 DEF CudaFault
  <2> QED BY <2>1, <2>2
<1>6. PrefetchTypeOK'
  BY <1>1, <1>2, <1>3, <1>4, <1>5 DEF PrefetchTypeOK
<1>7. OneIsHeld' /\ IsStaged' /\ IsRead'
  BY <1>1, <1>4 DEF PrefetchInv, OneIsHeld, IsStaged, IsRead, Holding
<1>8. IsAnswered' /\ KernelsReadTheirExperts'
  BY <1>1, <1>4, <1>5 DEF PrefetchInv, IsAnswered, KernelsReadTheirExperts, Holding, Latest
<1> QED BY <1>6, <1>7, <1>8 DEF PrefetchInv

\* What leaves slabs, streams and tokens alone keeps what is said of them.
Untouched == UNCHANGED <<slabs, transfer, compute, tokens, ran>>

LEMMA OthersKeep ==
  ASSUME PrefetchInv, Untouched, pipeline' \in Held, counted'.answers = counted.answers,
         counted' \in [uses : Nat, faults : Nat, answers : Seq(Nat)],
         use' \in [pc : {"idle", "consume", "launch"}, token : Nat,
                   layer : PrefetchLayers \cup {0}, launched : Nat]
  PROVE  /\ PrefetchTypeOK' /\ KernelsReadTheirExperts'
         /\ Latest' = Latest /\ Group' = Group /\ ReadOut' = ReadOut
         /\ (Holding' => Holding) => IsStaged' /\ IsAnswered'
<1> USE DEF Untouched
<1>1. PrefetchTypeOK'
  BY DEF PrefetchInv, PrefetchTypeOK
<1>2. KernelsReadTheirExperts'
  BY DEF PrefetchInv, KernelsReadTheirExperts
<1>3. Latest' = Latest /\ Group' = Group /\ ReadOut' = ReadOut
  BY DEF Latest, Group, ReadOut
<1>4. ASSUME Holding' => Holding PROVE IsStaged' /\ IsAnswered'
  BY <1>3, <1>4 DEF PrefetchInv, IsStaged, IsAnswered
<1> QED BY <1>1, <1>2, <1>3, <1>4

\* Calls that leave the pipeline alone: the use begins, is refused or fails.
LEMMA CallsKeep ==
  ASSUME PrefetchInv, Untouched, UNCHANGED pipeline, counted'.answers = counted.answers,
         counted' \in [uses : Nat, faults : Nat, answers : Seq(Nat)],
         use' \in [pc : {"idle", "consume"}, token : Nat, layer : PrefetchLayers \cup {0},
                   launched : {0}]
  PROVE  PrefetchInv'
<1>1. pipeline' \in Held /\ (Holding' <=> Holding)
  BY DEF PrefetchInv, PrefetchTypeOK, Holding
<1>2. use' \in [pc : {"idle", "consume", "launch"}, token : Nat,
                layer : PrefetchLayers \cup {0}, launched : Nat]
  OBVIOUS
<1>3. /\ PrefetchTypeOK' /\ KernelsReadTheirExperts' /\ IsStaged' /\ IsAnswered'
      /\ Latest' = Latest /\ Group' = Group /\ ReadOut' = ReadOut
  BY <1>1, <1>2, OthersKeep
<1>4. use'.pc # "launch" /\ use'.launched = 0
  OBVIOUS
<1>5. OneIsHeld' /\ IsRead'
  BY <1>1, <1>3, <1>4 DEF PrefetchInv, OneIsHeld, IsRead, Untouched
<1> QED BY <1>3, <1>5 DEF PrefetchInv

LEMMA CudaFaultCounts ==
  ASSUME PrefetchTypeOK, CudaFault
  PROVE  /\ counted' \in [uses : Nat, faults : Nat, answers : Seq(Nat)]
         /\ counted'.answers = counted.answers
<1>1. counted \in [uses : Nat, faults : Nat, answers : Seq(Nat)]
  BY DEF PrefetchTypeOK
<1>2. counted' = [counted EXCEPT !.faults = @ + 1]
  BY DEF CudaFault
<1> QED BY <1>1, <1>2

LEMMA UseKeeps ==
  ASSUME PrefetchInv, NEW token \in DOMAIN tokens, NEW layer \in PrefetchLayers,
         Use(token, layer)
  PROVE  PrefetchInv'
<1>1. PrefetchTypeOK /\ token \in Nat
  BY TokenFacts DEF PrefetchInv
<1>2. /\ counted \in [uses : Nat, faults : Nat, answers : Seq(Nat)]
      /\ counted' = [counted EXCEPT !.uses = @ + 1]
  BY <1>1 DEF Use, PrefetchTypeOK
<1>3. /\ counted' \in [uses : Nat, faults : Nat, answers : Seq(Nat)]
      /\ counted'.answers = counted.answers
  BY <1>2
<1>4. use' \in [pc : {"idle", "consume"}, token : Nat, layer : PrefetchLayers \cup {0},
                launched : {0}]
  BY <1>1 DEF Use, NotUsing
<1>5. Untouched /\ UNCHANGED pipeline
  BY DEF Use, Untouched
<1> QED BY <1>3, <1>4, <1>5, CallsKeep

\* A use that fails after kernels were launched leaves its group held.
LEMMA FailuresKeep ==
  ASSUME PrefetchInv, UseFails \/ LaunchExpertFails
  PROVE  PrefetchInv'
<1>1. CudaFault /\ use' = NotUsing /\ Untouched /\ UNCHANGED pipeline
  BY DEF UseFails, LaunchExpertFails, Returns, Untouched
<1>2. use' \in [pc : {"idle", "consume"}, token : Nat, layer : PrefetchLayers \cup {0},
                launched : {0}]
  BY <1>1 DEF NotUsing
<1> QED BY <1>1, <1>2, CudaFaultCounts, CallsKeep DEF PrefetchInv

LEMMA ConsumeKeeps == ASSUME PrefetchInv, Consume PROVE PrefetchInv'
<1>1. /\ counted' = counted /\ Untouched
      /\ counted \in [uses : Nat, faults : Nat, answers : Seq(Nat)]
  BY DEF Consume, Untouched, PrefetchInv, PrefetchTypeOK
<1>2. CASE ~Consumes
  <2>1. use' = NotUsing /\ UNCHANGED pipeline
    BY <1>2 DEF Consume, Returns
  <2>2. use' \in [pc : {"idle", "consume"}, token : Nat, layer : PrefetchLayers \cup {0},
                  launched : {0}]
    BY <2>1 DEF NotUsing
  <2> QED BY <1>1, <2>1, <2>2, CallsKeep
<1>3. CASE Consumes
  <2>1. /\ pipeline' = [pipeline EXCEPT !.pending = {[p EXCEPT !.consumed = TRUE] : p \in @}]
        /\ use' = [use EXCEPT !.pc = "launch"]
    BY <1>3 DEF Consume
  <2>2. PICK p \in pipeline.pending : ~p.consumed /\ p.token = use.token /\ p.layer = use.layer
    BY <1>3 DEF Consumes
  <2>3. /\ pipeline \in Held /\ p \in [token : Nat, layer : PrefetchLayers, consumed : BOOLEAN]
        /\ use \in [pc : {"idle", "consume", "launch"}, token : Nat,
                    layer : PrefetchLayers \cup {0}, launched : Nat]
    BY <2>2 DEF PrefetchInv, PrefetchTypeOK, Held
  <2> DEFINE c == [p EXCEPT !.consumed = TRUE]
  <2>4. c \in [token : Nat, layer : PrefetchLayers, consumed : BOOLEAN]
        /\ c.token = p.token /\ c.layer = p.layer /\ c.consumed
    BY <2>3
  <2>5. pipeline.pending = {p}
    BY <2>2 DEF PrefetchInv, OneIsHeld
  <2>6. {[r EXCEPT !.consumed = TRUE] : r \in pipeline.pending} = {c}
    BY <2>5
  <2> HIDE DEF c
  <2>7. /\ pipeline'.pending = {c} /\ pipeline'.views = pipeline.views
        /\ pipeline'.prepared = pipeline.prepared /\ pipeline' \in Held
    BY <2>1, <2>3, <2>4, <2>6 DEF Held
  <2>8. use' \in [pc : {"idle", "consume", "launch"}, token : Nat,
                  layer : PrefetchLayers \cup {0}, launched : Nat]
    BY <2>1, <2>3
  <2>9. Holding /\ Holding'
    BY <2>2, <2>7 DEF Holding
  <2>10. /\ PrefetchTypeOK' /\ KernelsReadTheirExperts' /\ IsStaged' /\ IsAnswered'
         /\ Latest' = Latest /\ Group' = Group /\ ReadOut' = ReadOut
    BY <1>1, <2>7, <2>8, <2>9, OthersKeep
  <2>11. /\ Latest # 0 /\ p.token = Latest /\ pipeline.views = Group
         /\ \E q \in pipeline.prepared : q.token = p.token /\ q.layer = p.layer
    BY <2>2 DEF PrefetchInv, OneIsHeld
  <2>12. OneIsHeld'
    BY <2>4, <2>7, <2>9, <2>10, <2>11 DEF OneIsHeld
  <2>13. compute = <<>> /\ ReadOut = <<>>
    BY <2>2 DEF PrefetchInv, IsRead
  <2>14. Len(ReadOut) = 0 /\ Len(compute) = 0
    BY <2>13
  <2>15. use'.pc = "launch" /\ use'.token = Latest /\ use'.launched = 0
    BY <2>1, <2>2, <2>3, <2>11 DEF Consume, PrefetchInv, IsRead
  <2>16. compute' = compute /\ transfer' = transfer
    BY <1>1 DEF Untouched
  <2>17. Len(Group) \in Nat
    BY <2>9, HeldFacts, PrefetchAssumption
  <2>18. IsRead'
    BY <2>4, <2>7, <2>10, <2>13, <2>14, <2>15, <2>16, <2>17 DEF IsRead
  <2> QED BY <2>10, <2>12, <2>18 DEF PrefetchInv
<1> QED BY <1>2, <1>3

LEMMA LaunchExpertKeeps == ASSUME PrefetchInv, LaunchExpert PROVE PrefetchInv'
<1> DEFINE slot == use.launched + 1
           kernel == [after |-> Len(tokens), token |-> use.token, slot |-> slot,
                      expert |-> pipeline.views[slot]]
<1>1. /\ use.pc = "launch" /\ use.launched < Len(pipeline.views)
      /\ compute' = Append(compute, kernel) /\ use' = [use EXCEPT !.launched = slot]
      /\ UNCHANGED <<slabs, transfer, pipeline, tokens, ran, counted>>
  BY DEF LaunchExpert
<1>2. /\ PrefetchTypeOK /\ Holding
  BY <1>1 DEF PrefetchInv, OneIsHeld
<1>3. /\ Latest \in Nat /\ Group \in Seq(Experts) /\ Len(Group) \in 1..Slots /\ Slots \in Nat
      /\ pipeline.views = Group /\ Len(ReadOut) \in Nat /\ Len(compute) \in Nat
  BY <1>2, HeldFacts, TokenFacts, PrefetchAssumption
<1>4. use.token = Latest /\ use.launched = Len(ReadOut) + Len(compute)
  BY <1>1 DEF PrefetchInv, IsRead
<1>5. use.launched \in Nat /\ slot \in 1..Len(Group) /\ slot \in 1..Slots
  BY <1>1, <1>3, <1>4
<1>6. Group[slot] \in Experts
  BY <1>3, <1>5, ElementOfSeq
<1>7. kernel \in Kernels /\ kernel.after = Latest /\ kernel.token = Latest /\ kernel.slot = slot
  BY <1>3, <1>4, <1>5, <1>6 DEF Kernels, Latest
<1>8. use' \in [pc : {"idle", "consume", "launch"}, token : Nat,
                layer : PrefetchLayers \cup {0}, launched : Nat]
      /\ use'.pc = "launch" /\ use'.token = use.token /\ use'.launched = slot
  <2>1. use \in [pc : {"idle", "consume", "launch"}, token : Nat,
                 layer : PrefetchLayers \cup {0}, launched : Nat]
    BY <1>2 DEF PrefetchTypeOK
  <2>2. slot \in Nat
    BY <1>5
  <2> HIDE DEF slot
  <2> QED BY <1>1, <2>1, <2>2
<1> HIDE DEF kernel
<1>9. /\ compute' \in Seq(Kernels) /\ Len(compute') = Len(compute) + 1
      /\ \A i \in 1..(Len(compute) + 1) :
           compute'[i] = IF i <= Len(compute) THEN compute[i] ELSE kernel
  BY <1>1, <1>2, <1>7, AppendProperties DEF PrefetchTypeOK
<1>10. PrefetchTypeOK'
  BY <1>1, <1>2, <1>8, <1>9 DEF PrefetchTypeOK
<1>11. Latest' = Latest /\ Group' = Group /\ ReadOut' = ReadOut /\ Holding'
  BY <1>1, <1>2 DEF Latest, Group, ReadOut, Holding
<1>12. OneIsHeld' /\ IsStaged' /\ IsAnswered' /\ KernelsReadTheirExperts'
  BY <1>1, <1>11 DEF PrefetchInv, OneIsHeld, IsStaged, IsAnswered, KernelsReadTheirExperts
<1>13. IsRead'
  <2>1. \A p \in pipeline.pending : p.consumed
    BY <1>1 DEF PrefetchInv, IsRead
  <2>2. Len(ReadOut) + Len(compute') <= Len(Group)
    BY <1>3, <1>4, <1>5, <1>9
  <2>3. \A i \in 1..Len(compute') :
          compute'[i].after = Latest /\ compute'[i].token = Latest
            /\ compute'[i].slot = Len(ReadOut) + i
    <3> SUFFICES ASSUME NEW i \in 1..Len(compute')
                 PROVE  compute'[i].after = Latest /\ compute'[i].token = Latest
                          /\ compute'[i].slot = Len(ReadOut) + i
      OBVIOUS
    <3>1. CASE i <= Len(compute)
      <4>1. i \in 1..Len(compute) /\ compute'[i] = compute[i]
        BY <3>1, <1>3, <1>9
      <4> QED BY <4>1, <1>2 DEF PrefetchInv, IsRead
    <3>2. CASE ~(i <= Len(compute))
      <4>1. i = Len(compute) + 1 /\ compute'[i] = kernel
        BY <3>2, <1>3, <1>9
      <4>2. slot = Len(ReadOut) + i
        BY <4>1, <1>3, <1>4
      <4> QED BY <4>1, <4>2, <1>7
    <3> QED BY <3>1, <3>2
  <2>4. ReadOut # <<>> => transfer = <<>>
    BY <1>2 DEF PrefetchInv, IsRead
  <2>5. slot = Len(ReadOut) + Len(compute')
    BY <1>3, <1>4, <1>9
  <2> QED BY <2>1, <2>2, <2>3, <2>4, <2>5, <1>1, <1>4, <1>8, <1>11 DEF IsRead
<1> QED BY <1>10, <1>12, <1>13 DEF PrefetchInv

\* When all kernels were launched and none is left, the group has been read.
LEMMA WholeGroupRead ==
  ASSUME PrefetchInv, use.pc = "launch", use.launched = Len(pipeline.views), compute = <<>>
  PROVE  Holding /\ use.token = Latest /\ ReadOut = Group /\ transfer = <<>>
<1>1. Holding
  BY DEF PrefetchInv, OneIsHeld
<1>2. /\ Group \in Seq(Experts) /\ Len(Group) \in 1..Slots /\ Slots \in Nat
      /\ pipeline.views = Group /\ ReadOut \in Seq(Experts \cup {Nothing}) /\ Len(ReadOut) \in Nat
      /\ \A i \in 1..Len(ReadOut) : ReadOut[i] = Group[i]
  BY <1>1, HeldFacts, PrefetchAssumption
<1>3. Len(compute) = 0 /\ use.token = Latest /\ use.launched = Len(ReadOut) + Len(compute)
  BY DEF PrefetchInv, IsRead
<1>4. Len(ReadOut) = Len(Group) /\ Len(ReadOut) # 0
  BY <1>2, <1>3
<1>5. Group \in Seq(Experts \cup {Nothing})
  BY <1>2, SeqMonotonic
<1>6. ReadOut = Group
  BY <1>2, <1>4, <1>5, SeqEqual
<1>7. transfer = <<>>
  BY <1>1, <1>4 DEF PrefetchInv, IsRead
<1> QED BY <1>1, <1>3, <1>6, <1>7

LEMMA CompleteKeeps == ASSUME PrefetchInv, Complete PROVE PrefetchInv'
<1>1. /\ use.pc = "launch" /\ use.launched = Len(pipeline.views) /\ compute = <<>>
      /\ pipeline' = [pipeline EXCEPT !.pending = {}, !.prepared = {}]
      /\ counted' = [counted EXCEPT !.answers = Append(@, use.token)]
      /\ use' = NotUsing
      /\ UNCHANGED <<slabs, transfer, compute, tokens, ran>>
  BY DEF Complete, Returns
<1>2. Holding /\ use.token = Latest /\ ReadOut = Group /\ transfer = <<>>
  BY <1>1, WholeGroupRead
<1>3. PrefetchTypeOK /\ Latest \in 1..Latest /\ Latest \in Nat
  BY <1>2, HeldFacts DEF PrefetchInv
<1>4. /\ counted'.answers \in Seq(Nat)
      /\ Len(counted'.answers) = Len(counted.answers) + 1
      /\ Len(counted.answers) \in Nat
      /\ \A i \in 1..(Len(counted.answers) + 1) :
           counted'.answers[i] = IF i <= Len(counted.answers) THEN counted.answers[i] ELSE Latest
      /\ counted' \in [uses : Nat, faults : Nat, answers : Seq(Nat)]
  <2>1. counted \in [uses : Nat, faults : Nat, answers : Seq(Nat)]
    BY <1>3 DEF PrefetchTypeOK
  <2>2. counted'.answers = Append(counted.answers, Latest)
    BY <1>1, <1>2, <2>1
  <2>3. counted' = [counted EXCEPT !.answers = counted'.answers]
    BY <1>1, <2>1
  <2>4. counted.answers \in Seq(Nat)
    BY <2>1
  <2>5. /\ Append(counted.answers, Latest) \in Seq(Nat)
        /\ Len(Append(counted.answers, Latest)) = Len(counted.answers) + 1
        /\ \A i \in 1..(Len(counted.answers) + 1) :
             Append(counted.answers, Latest)[i] =
               IF i <= Len(counted.answers) THEN counted.answers[i] ELSE Latest
    BY <1>3, <2>4, AppendProperties
  <2>6. counted' \in [uses : Nat, faults : Nat, answers : Seq(Nat)]
    BY <2>1, <2>2, <2>3, <2>5
  <2> QED BY <2>2, <2>4, <2>5, <2>6, LenProperties
<1>5. pipeline' \in Held /\ pipeline'.pending = {}
  BY <1>1, <1>3 DEF PrefetchTypeOK, Held
<1>6. use' \in [pc : {"idle", "consume", "launch"}, token : Nat,
                layer : PrefetchLayers \cup {0}, launched : Nat]
      /\ use'.pc = "idle"
  BY <1>1 DEF NotUsing
<1>7. PrefetchTypeOK'
  BY <1>1, <1>3, <1>4, <1>5, <1>6 DEF PrefetchTypeOK
<1>8. OneIsHeld' /\ IsStaged' /\ IsRead'
  BY <1>1, <1>2, <1>5, <1>6 DEF OneIsHeld, IsStaged, IsRead, Holding
<1>9. \A i \in 1..Len(counted.answers) :
        /\ counted.answers[i] \in 1..Latest /\ counted.answers[i] # Latest
        /\ ran[counted.answers[i]] = tokens[counted.answers[i]].group
        /\ \A j \in 1..Len(counted.answers) : counted.answers[j] = counted.answers[i] => i = j
  BY <1>2, <1>3, TokenFacts DEF PrefetchInv, IsAnswered, KernelsReadTheirExperts
<1>10. DOMAIN counted'.answers = 1..(Len(counted.answers) + 1)
  BY <1>4, LenProperties
<1>11. IsAnswered'
  BY <1>1, <1>3, <1>4, <1>5, <1>9, <1>10, SMTT(20) DEF IsAnswered, Holding, Latest
<1>12. KernelsReadTheirExperts'
  <2>1. \A i \in DOMAIN counted'.answers :
          LET t == counted'.answers[i] IN
          /\ ran[t] = tokens[t].group
          /\ \A j \in DOMAIN counted'.answers : counted'.answers[j] = t => i = j
    <3>1. ran[Latest] = tokens[Latest].group
      BY <1>2 DEF ReadOut, Group
    <3>2. \A i \in DOMAIN counted'.answers :
            \/ i \in 1..Len(counted.answers) /\ counted'.answers[i] = counted.answers[i]
            \/ i = Len(counted.answers) + 1 /\ counted'.answers[i] = Latest
      BY <1>4, <1>10
    <3> QED BY <3>1, <3>2, <1>9
  <2> QED BY <2>1, <1>1 DEF PrefetchInv, KernelsReadTheirExperts
<1> QED BY <1>7, <1>8, <1>11, <1>12 DEF PrefetchInv

LEMMA CompleteFailsKeeps == ASSUME PrefetchInv, CompleteFails PROVE PrefetchInv'
<1>1. /\ use.pc = "launch" /\ use.launched = Len(pipeline.views) /\ compute = <<>>
      /\ CudaFault /\ use' = NotUsing /\ Untouched
      /\ pipeline' \in {pipeline, [pipeline EXCEPT !.pending = {}]}
  BY DEF CompleteFails, Returns, Untouched
<1>2. /\ counted' \in [uses : Nat, faults : Nat, answers : Seq(Nat)]
      /\ counted'.answers = counted.answers
  BY <1>1, CudaFaultCounts DEF PrefetchInv
<1>3. /\ use' \in [pc : {"idle", "consume"}, token : Nat, layer : PrefetchLayers \cup {0},
                   launched : {0}]
      /\ use' \in [pc : {"idle", "consume", "launch"}, token : Nat,
                   layer : PrefetchLayers \cup {0}, launched : Nat]
      /\ use'.pc = "idle"
  BY <1>1 DEF NotUsing
<1>4. CASE UNCHANGED pipeline
  BY <1>1, <1>2, <1>3, <1>4, CallsKeep
<1>5. CASE pipeline' = [pipeline EXCEPT !.pending = {}]
  <2>1. pipeline' \in Held /\ pipeline'.pending = {}
    BY <1>5 DEF PrefetchInv, PrefetchTypeOK, Held
  <2>2. ~Holding'
    BY <2>1 DEF Holding
  <2>3. /\ PrefetchTypeOK' /\ KernelsReadTheirExperts' /\ IsStaged' /\ IsAnswered'
    BY <1>1, <1>2, <1>3, <2>1, <2>2, OthersKeep
  <2>4. transfer' = <<>> /\ compute' = <<>>
    BY <1>1, WholeGroupRead DEF Untouched
  <2>5. OneIsHeld' /\ IsRead'
    BY <1>3, <2>1, <2>2, <2>4 DEF OneIsHeld, IsRead
  <2> QED BY <2>3, <2>5 DEF PrefetchInv
<1> QED BY <1>1, <1>4, <1>5

\* A copy takes what was staged for its slot, which comes next in the group.
LEMMA CopyKeeps == ASSUME PrefetchInv, Copy PROVE PrefetchInv'
<1> DEFINE slot == Head(transfer).slot
<1>1. /\ transfer # <<>> /\ transfer' = Tail(transfer)
      /\ slabs' = [slabs EXCEPT !.device[slot] = slabs.pinned[slot]]
      /\ UNCHANGED <<compute, pipeline, use, tokens, ran, counted>>
  BY DEF Copy
<1>2. PrefetchTypeOK /\ Holding
  BY <1>1 DEF PrefetchInv, OneIsHeld
<1>3. /\ Latest \in Nat /\ Len(Group) \in 1..Slots /\ Slots \in Nat
  BY <1>2, HeldFacts, PrefetchAssumption
<1>4. /\ transfer' \in Seq(Copies) /\ Len(transfer') = Len(transfer) - 1
      /\ \A i \in 1..Len(transfer') : transfer'[i] = transfer[i + 1]
      /\ Len(transfer) \in Nat \ {0} /\ Head(transfer) = transfer[1]
  BY <1>1, <1>2, HeadTailProperties, EmptySeq DEF PrefetchTypeOK
<1>5. /\ Len(transfer) <= Len(Group)
      /\ \A i \in 1..Len(transfer) :
           transfer[i] = [token |-> Latest, slot |-> Len(Group) - Len(transfer) + i]
      /\ \A s \in 1..Len(Group) : slabs.pinned[s] = Group[s]
      /\ \A s \in 1..(Len(Group) - Len(transfer)) : slabs.device[s] = Group[s]
  BY <1>2 DEF PrefetchInv, IsStaged
<1>6. slot = Len(Group) - Len(transfer) + 1 /\ slot \in 1..Len(Group) /\ slot \in 1..Slots
  <2>1. 1 \in 1..Len(transfer)
    BY <1>4
  <2> DEFINE next == Len(Group) - Len(transfer) + 1
  <2>2. transfer[1] = [token |-> Latest, slot |-> next]
    BY <2>1, <1>5
  <2> HIDE DEF next
  <2>3. Head(transfer) = [token |-> Latest, slot |-> next]
    BY <2>2, <1>4
  <2>4. slot = next
    BY <2>3
  <2> HIDE DEF slot
  <2> QED BY <2>4, <1>3, <1>4, <1>5 DEF next
<1> HIDE DEF slot
<1>7. /\ slabs' \in [pinned : Slabs, device : Slabs] /\ slabs'.pinned = slabs.pinned
      /\ \A s \in 1..Slots :
           slabs'.device[s] = IF s = slot THEN slabs.pinned[s] ELSE slabs.device[s]
  <2>1. slabs \in [pinned : Slabs, device : Slabs]
    BY <1>2 DEF PrefetchTypeOK
  <2>2. slabs' = [slabs EXCEPT !.device = [@ EXCEPT ![slot] = slabs.pinned[slot]]]
    BY <1>1
  <2> QED BY <1>6, <2>1, <2>2 DEF Slabs
<1>8. PrefetchTypeOK'
  BY <1>1, <1>2, <1>4, <1>7 DEF PrefetchTypeOK
<1>9. Latest' = Latest /\ Group' = Group /\ ReadOut' = ReadOut /\ Holding'
  BY <1>1, <1>2 DEF Latest, Group, ReadOut, Holding
<1>10. OneIsHeld' /\ IsAnswered' /\ KernelsReadTheirExperts'
  BY <1>1, <1>2, <1>9 DEF PrefetchInv, OneIsHeld, IsAnswered, KernelsReadTheirExperts
<1>11. IsStaged'
  <2>1. \A i \in 1..Len(transfer') :
          transfer'[i] = [token |-> Latest, slot |-> Len(Group) - Len(transfer') + i]
    <3> SUFFICES ASSUME NEW i \in 1..Len(transfer')
                 PROVE  transfer'[i] =
                          [token |-> Latest, slot |-> Len(Group) - Len(transfer') + i]
      OBVIOUS
    <3>1. /\ i + 1 \in 1..Len(transfer)
          /\ Len(Group) - Len(transfer) + (i + 1) = Len(Group) - Len(transfer') + i
      BY <1>3, <1>4
    <3> QED BY <3>1, <1>4, <1>5
  <2>2. \A s \in 1..(Len(Group) - Len(transfer')) : slabs'.device[s] = Group[s]
    <3> SUFFICES ASSUME NEW s \in 1..(Len(Group) - Len(transfer'))
                 PROVE  slabs'.device[s] = Group[s]
      OBVIOUS
    <3>1. /\ Len(Group) \in Nat /\ Len(Group) <= Slots /\ Len(transfer') \in Nat
          /\ Len(Group) - Len(transfer') = Len(Group) - Len(transfer) + 1
      BY <1>3, <1>4
    <3>2. s \in 1..Len(Group) /\ s \in 1..Slots
      BY <3>1, <1>3
    <3>3. s = slot \/ s \in 1..(Len(Group) - Len(transfer))
      BY <3>1, <1>3, <1>4, <1>6
    <3> QED BY <3>2, <3>3, <1>5, <1>7
  <2>3. Len(transfer') <= Len(Group)
    BY <1>3, <1>4, <1>5
  <2> QED BY <2>1, <2>2, <2>3, <1>5, <1>7, <1>9 DEF IsStaged
<1>12. IsRead'
  <2>1. ReadOut = <<>>
    BY <1>1, <1>2 DEF PrefetchInv, IsRead
  <2> QED BY <2>1, <1>1, <1>9 DEF PrefetchInv, IsRead, Holding
<1> QED BY <1>8, <1>10, <1>11, <1>12 DEF PrefetchInv

\* A kernel runs behind all copies of its group, and reads the next slot.
LEMMA RunKeeps == ASSUME PrefetchInv, Run PROVE PrefetchInv'
<1> DEFINE kernel == Head(compute)
           item == slabs.device[kernel.slot]
           more == Append(ReadOut, item)
<1>1. /\ compute # <<>> /\ compute' = Tail(compute) /\ Ready(kernel.after)
      /\ ran' = [ran EXCEPT ![kernel.token] = Append(@, item)]
      /\ UNCHANGED <<slabs, transfer, pipeline, use, tokens, counted>>
  BY DEF Run
<1>2. PrefetchTypeOK /\ Holding
  BY <1>1 DEF PrefetchInv, OneIsHeld
<1>3. /\ Latest \in Nat /\ Latest \in 1..Latest /\ Len(Group) \in 1..Slots /\ Slots \in Nat
      /\ ReadOut \in Seq(Experts \cup {Nothing}) /\ Len(ReadOut) \in Nat
      /\ Group \in Seq(Experts) /\ \A i \in 1..Len(ReadOut) : ReadOut[i] = Group[i]
  BY <1>2, HeldFacts, PrefetchAssumption
<1>4. /\ compute' \in Seq(Kernels) /\ Len(compute') = Len(compute) - 1
      /\ \A i \in 1..Len(compute') : compute'[i] = compute[i + 1]
      /\ Len(compute) \in Nat \ {0} /\ kernel = compute[1]
  BY <1>1, <1>2, HeadTailProperties, EmptySeq DEF PrefetchTypeOK
<1>5. /\ Len(ReadOut) + Len(compute) <= Len(Group)
      /\ \A i \in 1..Len(compute) :
           compute[i].after = Latest /\ compute[i].token = Latest
             /\ compute[i].slot = Len(ReadOut) + i
  BY <1>2 DEF PrefetchInv, IsRead
<1>6. /\ kernel.after = Latest /\ kernel.token = Latest /\ kernel.slot = Len(ReadOut) + 1
      /\ kernel.slot \in 1..Len(Group) /\ kernel.slot \in 1..Slots
  BY <1>3, <1>4, <1>5
<1> HIDE DEF kernel
<1>7. transfer = <<>>
  <2>1. /\ \A i \in DOMAIN transfer : transfer[i].token > Latest
        /\ \A i \in 1..Len(transfer) : transfer[i].token = Latest
        /\ DOMAIN transfer = 1..Len(transfer) /\ Len(transfer) \in Nat
    BY <1>1, <1>2, <1>6, TokenFacts DEF Ready, PrefetchInv, IsStaged
  <2>2. Len(transfer) = 0
    <3>1. ~(1 \in 1..Len(transfer))
      BY <2>1, <1>3
    <3> QED BY <3>1, <2>1
  <2> QED BY <2>2, <1>2, EmptySeq DEF PrefetchTypeOK
<1>8. item = Group[Len(ReadOut) + 1] /\ item \in Experts \cup {Nothing}
  <2>1. Len(transfer) = 0
    BY <1>7
  <2>2. kernel.slot \in 1..(Len(Group) - Len(transfer))
    BY <2>1, <1>3, <1>6
  <2>3. item = Group[kernel.slot]
    BY <2>2, <1>2 DEF PrefetchInv, IsStaged
  <2> QED BY <2>3, <1>3, <1>6, ElementOfSeq
<1> HIDE DEF item
<1>9. /\ more \in Seq(Experts \cup {Nothing}) /\ Len(more) = Len(ReadOut) + 1
      /\ \A i \in 1..(Len(ReadOut) + 1) : more[i] = IF i <= Len(ReadOut) THEN ReadOut[i] ELSE item
  BY <1>3, <1>8, AppendProperties
<1>10. \A i \in 1..Len(more) : more[i] = Group[i]
  BY <1>3, <1>8, <1>9
<1> HIDE DEF more
<1>11. /\ ran' \in Seq(Seq(Experts \cup {Nothing})) /\ Len(ran') = Len(tokens)
       /\ \A t \in 1..Latest : ran'[t] = IF t = Latest THEN more ELSE ran[t]
  <2>1. ran \in Seq(Seq(Experts \cup {Nothing})) /\ Len(ran) = Latest /\ Latest \in 1..Len(ran)
    BY <1>2, <1>3 DEF PrefetchTypeOK, Latest
  <2>2. ran' = [ran EXCEPT ![Latest] = more]
    BY <1>1, <1>6 DEF ReadOut, more
  <2> QED BY <2>1, <2>2, <1>9, ExceptSeq DEF Latest
<1>12. PrefetchTypeOK'
  BY <1>1, <1>2, <1>4, <1>11 DEF PrefetchTypeOK
<1>13. Latest' = Latest /\ Group' = Group /\ ReadOut' = more /\ Holding'
  <2>1. Latest' = Latest /\ Group' = Group /\ Holding'
    BY <1>1, <1>2 DEF Latest, Group, Holding
  <2>2. ReadOut' = ran'[Latest]
    BY <2>1 DEF ReadOut
  <2> QED BY <2>1, <2>2, <1>3, <1>11
<1>14. OneIsHeld' /\ IsStaged'
  BY <1>1, <1>2, <1>13 DEF PrefetchInv, OneIsHeld, IsStaged
<1>15. IsAnswered'
  BY <1>1, <1>2, <1>13 DEF PrefetchInv, IsAnswered
<1>16. IsRead'
  <2>1. \A p \in pipeline.pending : p.consumed
    BY <1>1 DEF PrefetchInv, IsRead
  <2>2. Len(more) + Len(compute') = Len(ReadOut) + Len(compute)
    BY <1>3, <1>4, <1>9
  <2>3. \A i \in 1..Len(compute') :
          compute'[i].after = Latest /\ compute'[i].token = Latest
            /\ compute'[i].slot = Len(more) + i
    <3> SUFFICES ASSUME NEW i \in 1..Len(compute')
                 PROVE  compute'[i].after = Latest /\ compute'[i].token = Latest
                          /\ compute'[i].slot = Len(more) + i
      OBVIOUS
    <3>1. i + 1 \in 1..Len(compute) /\ Len(ReadOut) + (i + 1) = Len(more) + i
      BY <1>3, <1>4, <1>9
    <3> QED BY <3>1, <1>4, <1>5
  <2>4. /\ use.pc = "consume" => use.launched = 0
        /\ use.pc = "launch" => use.token = Latest /\ use.launched = Len(ReadOut) + Len(compute)
    BY DEF PrefetchInv, IsRead
  <2> QED BY <2>1, <2>2, <2>3, <2>4, <1>1, <1>5, <1>7, <1>13 DEF IsRead
<1>17. KernelsReadTheirExperts'
  <2>1. DOMAIN ran' = 1..Latest /\ DOMAIN ran = 1..Latest /\ DOMAIN more = 1..Len(more)
    BY <1>2, <1>9, <1>11, TokenFacts, LenProperties DEF Latest
  <2>2. \A t \in DOMAIN ran' :
          /\ Len(ran'[t]) <= Len(tokens[t].group)
          /\ \A i \in DOMAIN ran'[t] : ran'[t][i] = tokens[t].group[i]
    <3> SUFFICES ASSUME NEW t \in 1..Latest
                 PROVE  /\ Len(ran'[t]) <= Len(tokens[t].group)
                        /\ \A i \in DOMAIN ran'[t] : ran'[t][i] = tokens[t].group[i]
      BY <2>1
    <3>1. CASE t = Latest
      <4>1. ran'[t] = more /\ tokens[t].group = Group
        BY <3>1, <1>11 DEF Group
      <4>2. Len(more) <= Len(Group)
        BY <1>3, <1>4, <1>5, <1>9
      <4> QED BY <4>1, <4>2, <2>1, <1>10
    <3>2. CASE t # Latest
      BY <3>2, <2>1, <1>11, SMTT(20) DEF PrefetchInv, KernelsReadTheirExperts
    <3> QED BY <3>1, <3>2
  <2>3. \A i \in DOMAIN counted.answers :
          counted.answers[i] \in 1..Latest /\ counted.answers[i] # Latest
    BY <1>2 DEF PrefetchInv, IsAnswered
  <2>4. \A i \in DOMAIN counted.answers :
          LET t == counted.answers[i] IN
          /\ ran'[t] = tokens[t].group
          /\ \A j \in DOMAIN counted.answers : counted.answers[j] = t => i = j
    BY <2>3, <1>11 DEF PrefetchInv, KernelsReadTheirExperts
  <2> QED BY <2>2, <2>4, <1>1 DEF KernelsReadTheirExperts
<1> QED BY <1>12, <1>14, <1>15, <1>16, <1>17 DEF PrefetchInv

LEMMA PrefetchNextKeeps == PrefetchInv /\ [PrefetchNext]_prefetchVars => PrefetchInv'
<1> SUFFICES ASSUME PrefetchInv, [PrefetchNext]_prefetchVars PROVE PrefetchInv'
  OBVIOUS
<1>1. ASSUME NEW group \in Groups, NEW layer \in PrefetchLayers, Prefetch(group, layer)
      PROVE  PrefetchInv'
  BY <1>1, PrefetchKeeps
<1>2. ASSUME NEW token \in DOMAIN tokens, NEW layer \in PrefetchLayers, Use(token, layer)
      PROVE  PrefetchInv'
  BY <1>2, UseKeeps
<1>3. CASE UseStep
  BY <1>3, ConsumeKeeps, LaunchExpertKeeps, CompleteKeeps DEF UseStep
<1>4. CASE PrefetchFault
  BY <1>4, PrefetchFailsKeeps, FailuresKeep, CompleteFailsKeeps DEF PrefetchFault
<1>5. CASE Streams
  BY <1>5, CopyKeeps, RunKeeps DEF Streams
<1>6. CASE UNCHANGED prefetchVars
  <2>1. /\ UNCHANGED <<slabs, transfer, compute, pipeline, use, tokens, ran, counted>>
    BY <1>6 DEF prefetchVars
  <2>2. PrefetchTypeOK' /\ KernelsReadTheirExperts'
    BY <2>1 DEF PrefetchInv, PrefetchTypeOK, KernelsReadTheirExperts
  <2>3. Latest' = Latest /\ Group' = Group /\ ReadOut' = ReadOut /\ (Holding' <=> Holding)
    BY <2>1 DEF Latest, Group, ReadOut, Holding
  <2>4. OneIsHeld' /\ IsStaged' /\ IsRead' /\ IsAnswered'
    BY <2>1, <2>3 DEF PrefetchInv, OneIsHeld, IsStaged, IsRead, IsAnswered
  <2> QED BY <2>2, <2>4 DEF PrefetchInv
<1> QED BY <1>1, <1>2, <1>3, <1>4, <1>5, <1>6 DEF PrefetchNext

LEMMA PrefetchIsSafe == PrefetchInv => KernelsReadTheirGroup
<1> SUFFICES ASSUME PrefetchInv PROVE KernelsReadTheirGroup
  OBVIOUS
<1>1. PrefetchTypeOK
  BY DEF PrefetchInv
<1>2. StagingIsKept
  <2> SUFFICES ASSUME NEW i \in DOMAIN transfer
               PROVE  slabs.pinned[transfer[i].slot] =
                        tokens[transfer[i].token].group[transfer[i].slot]
    BY DEF StagingIsKept
  <2>1. i \in 1..Len(transfer) /\ Len(transfer) \in Nat
    BY <1>1, TokenFacts
  <2>2. transfer # <<>>
    BY <2>1
  <2>3. Holding
    BY <2>2 DEF PrefetchInv, OneIsHeld
  <2> DEFINE slot == Len(Group) - Len(transfer) + i
  <2>4. Len(Group) \in Nat
    BY <2>3, HeldFacts, PrefetchAssumption
  <2>5. Len(transfer) <= Len(Group) /\ transfer[i] = [token |-> Latest, slot |-> slot]
        /\ \A s \in 1..Len(Group) : slabs.pinned[s] = Group[s]
    BY <2>1, <2>3 DEF PrefetchInv, IsStaged
  <2>6. slot \in 1..Len(Group)
    BY <2>1, <2>4, <2>5
  <2> HIDE DEF slot
  <2> QED BY <2>5, <2>6 DEF Group
<1>3. OneGroupAtATime
  <2>1. \A p \in pipeline.pending :
          p.token = Latest /\ \E q \in pipeline.prepared : q.token = p.token /\ q.layer = p.layer
    BY DEF PrefetchInv, OneIsHeld
  <2>2. ASSUME NEW i \in DOMAIN transfer
        PROVE  \E p \in pipeline.pending : p.token = transfer[i].token
    <3>1. i \in 1..Len(transfer)
      BY <1>1, TokenFacts
    <3>2. Holding
      BY <3>1 DEF PrefetchInv, OneIsHeld
    <3>3. \E slot : transfer[i] = [token |-> Latest, slot |-> slot]
      BY <3>1, <3>2, Zenon DEF PrefetchInv, IsStaged
    <3> QED BY <3>2, <3>3, <2>1 DEF Holding
  <2>3. ASSUME NEW i \in DOMAIN compute
        PROVE  \E p \in pipeline.pending : p.token = compute[i].token /\ p.consumed
    <3>1. i \in 1..Len(compute)
      BY <1>1, TokenFacts
    <3>2. compute # <<>>
      BY <3>1
    <3>3. Holding
      BY <3>2 DEF PrefetchInv, OneIsHeld
    <3>4. compute[i].token = Latest /\ \A p \in pipeline.pending : p.consumed
      BY <3>1, <3>2, <3>3 DEF PrefetchInv, IsRead
    <3> QED BY <3>3, <3>4, <2>1 DEF Holding
  <2> QED BY <2>1, <2>2, <2>3 DEF OneGroupAtATime
<1> QED BY <1>2, <1>3 DEF PrefetchInv, KernelsReadTheirGroup

-----------------------------------------------------------------------------
(* Theorems.                                                               *)

\* However prefetches, uses, streams and failures of CUDA calls interleave,
\* the kernels of a prefetched group read the experts of that group, and a
\* slab is not refilled while it is copied from or is still to be read
\* (prepare, consume and complete in async_mxfp4_pipeline.cu).
THEOREM PrefetchedIsRead == PrefetchSpec => []KernelsReadTheirGroup
<1>1. PrefetchInit => PrefetchInv
  BY PrefetchBegins
<1>2. PrefetchInv /\ [PrefetchNext]_prefetchVars => PrefetchInv'
  BY PrefetchNextKeeps
<1>3. PrefetchInv => KernelsReadTheirGroup
  BY PrefetchIsSafe
<1> QED BY <1>1, <1>2, <1>3, PTL DEF PrefetchSpec

-----------------------------------------------------------------------------
(* The Reader.                                                             *)

Operation == [request : Nat, position : Nat, offset : Nat, length : Nat, minimum : Nat]
Entry == [index : Nat, read : Nat]
Rings ==
  [queue : Seq(Entry), inFlight : SUBSET Entry, completed : Seq([entry : Entry, result : Int])]
Calls ==
  [pc : {"idle", "plan", "pread", "prepare", "submit", "reap"},
   requests : Seq([offset : Nat, length : Nat]), operations : Seq(Operation), base : Nat,
   buffers : Seq(Seq(Int)), planned : Nat, position : Nat, submitted : Nat, reaped : Nat,
   failed : BOOLEAN, error : {"ok", "io_error", "truncated_file"}]

ReadTypeOK ==
  /\ plane \in [engine : {"pread", "io_uring"}, cache : {"buffered", "direct"},
                initialized : BOOLEAN]
  /\ ring \in Rings
  /\ reading \in Calls
  /\ counters \in [submitted : Nat, completed : Nat, completions : Nat, reads : Nat, faults : Nat]

\* The engine works in its own states, and is only lost to a fault.
EngineWorks ==
  /\ reading.pc = "pread" => plane.engine = "pread"
  /\ reading.pc \in {"prepare", "submit", "reap"} => plane.engine = "io_uring"
  /\ plane.engine = "io_uring" /\ reading.pc # "idle" => plane.initialized
  /\ plane.engine = "io_uring" /\ ~plane.initialized => counters.faults > 0

\* The call reads what lies in the file, into a buffer for each request.
RequestsAreSound ==
  /\ DOMAIN reading.buffers = DOMAIN reading.requests
  /\ \A i \in DOMAIN reading.requests :
       /\ Valid(reading.requests[i])
       /\ Len(reading.buffers[i]) = Aligned(reading.requests[i]).length

\* An operation reads a part of its request, and its minimum lies in the file.
IsOperation(operation) ==
  /\ operation.request \in DOMAIN reading.requests
  /\ LET read == Aligned(reading.requests[operation.request]) IN
     /\ operation.offset = read.offset + operation.position
     /\ operation.position + operation.length <= read.length
     /\ operation.minimum = Minimum(operation.position, operation.length, read.required)
  /\ plane.engine = "pread" /\ ~Direct => operation.length > 0

\* The bytes of a request before a position are read by some operation.
IsPlanned(i, position) ==
  \A byte \in 0..(position - 1) :
    byte < Aligned(reading.requests[i]).required =>
      \E k \in DOMAIN reading.operations :
        /\ reading.operations[k].request = i
        /\ reading.operations[k].position <= byte
        /\ byte < reading.operations[k].position + reading.operations[k].minimum

PlanIsSound ==
  /\ \A k \in DOMAIN reading.operations : IsOperation(reading.operations[k])
  /\ reading.base <= Len(reading.operations)
  /\ reading.pc = "plan" =>
       /\ reading.base = 0 /\ reading.reaped = 0
       /\ reading.planned \in DOMAIN reading.requests
       /\ \A i \in 1..(reading.planned - 1) :
            IsPlanned(i, Aligned(reading.requests[i]).required)
       /\ IsPlanned(reading.planned, reading.position)
  /\ reading.pc \notin {"idle", "plan"} =>
       \A i \in DOMAIN reading.requests : IsPlanned(i, Aligned(reading.requests[i]).required)

\* The first bytes of an operation are where they belong.
Holds(buffers, operation, bytes) ==
  \A byte \in 0..(bytes - 1) :
    buffers[operation.request][operation.position + byte + 1] = operation.offset + byte
IsDone(k) == Holds(reading.buffers, reading.operations[k], reading.operations[k].minimum)

BuffersAreSound ==
  /\ \A k \in 1..reading.base : IsDone(k)
  /\ reading.pc = "pread" =>
       /\ Direct \/ reading.base = Len(reading.operations) => reading.reaped = 0
       /\ reading.base < Len(reading.operations) =>
            /\ ~Direct => reading.reaped < reading.operations[reading.base + 1].length
            /\ Holds(reading.buffers, reading.operations[reading.base + 1], reading.reaped)

\* The entries the program has to wait for, and the bytes they may bring.
Unreaped ==
  ring.inFlight \cup {ring.completed[m].entry : m \in DOMAIN ring.completed}
OwedBy(entries, operations) ==
  {owed \in entries \X Nat : owed[2] \in 1..operations[owed[1].index].length}
Owed == OwedBy(Unreaped, reading.operations)

InBatch == reading.pc \in {"submit", "reap"}
IsOfBatch(entry) ==
  /\ entry.index \in (reading.base + 1)..(reading.base + reading.submitted)
  /\ entry.read = counters.reads
CompletionIsSound(m) ==
  LET completion == ring.completed[m]
      operation == reading.operations[completion.entry.index]
  IN
  /\ completion.entry \notin ring.inFlight
  /\ completion.result <= operation.length
  /\ completion.result < operation.minimum => counters.faults > 0
  /\ Holds(reading.buffers, operation, completion.result)

RingIsSound ==
  /\ ~InBatch => ring = EmptyRing
  /\ InBatch =>
       /\ reading.submitted + Len(ring.queue) = Count
       /\ \A k \in DOMAIN ring.queue :
            ring.queue[k] = [index |-> reading.base + reading.submitted + k,
                             read |-> counters.reads]
       /\ \A entry \in Unreaped : IsOfBatch(entry)
       /\ \A m \in DOMAIN ring.completed : CompletionIsSound(m)
       /\ \A m, n \in DOMAIN ring.completed :
            m # n => ring.completed[m].entry # ring.completed[n].entry
       /\ IsFiniteSet(Unreaped)
       /\ Cardinality(Unreaped) + reading.reaped = reading.submitted
       /\ reading.error = "ok" =>
            \A k \in (reading.base + 1)..(reading.base + reading.submitted) :
              IsDone(k) \/ \E entry \in Unreaped : entry.index = k
       /\ reading.failed \/ reading.error # "ok" => counters.faults > 0
       /\ reading.pc = "reap" /\ ~reading.failed => reading.submitted = Count

BytesAreOwed ==
  /\ IsFiniteSet(Owed)
  /\ counters.completed + Cardinality(Owed) <= counters.submitted

ReadInv ==
  /\ ReadTypeOK /\ EngineWorks /\ RequestsAreSound /\ PlanIsSound /\ BuffersAreSound
  /\ RingIsSound /\ BytesAreOwed /\ AnswersAreRight

-----------------------------------------------------------------------------
(* Numbers: rounding, and what is read for a request.                      *)

LEMMA Division ==
  ASSUME NEW n \in Nat, NEW unit \in Nat \ {0}
  PROVE  /\ n \div unit \in Nat
         /\ unit * (n \div unit) \in Nat
         /\ unit * (n \div unit) <= n
         /\ n < unit * (n \div unit) + unit
BY SMT

LEMMA RoundingUp ==
  ASSUME NEW n \in Nat, NEW unit \in Nat \ {0}
  PROVE  RoundedUp(n, unit) \in Nat /\ n <= RoundedUp(n, unit)
<1>1. n + unit - 1 \in Nat
  OBVIOUS
<1> QED BY <1>1, Division DEF RoundedUp

LEMMA AlignedIsSound ==
  ASSUME NEW x \in [offset : Nat, length : Nat], NEW read, read = Aligned(x)
  PROVE  /\ read \in [offset : Nat, length : Nat, required : Nat]
         /\ read.offset <= x.offset /\ read.required <= read.length
         /\ read.offset + read.required = x.offset + x.length
         /\ ~Direct => read.length = read.required
<1> DEFINE first == Alignment * (x.offset \div Alignment)
           end == RoundedUp(x.offset + x.length, Alignment)
<1>1. Alignment \in Nat \ {0} /\ x.offset \in Nat /\ x.length \in Nat
  BY ReadConstants DEF ReadAssumption
<1>2. first \in Nat /\ first <= x.offset
  BY <1>1, Division
<1>3. x.offset + x.length \in Nat
  BY <1>1
<1>4. end \in Nat /\ x.offset + x.length <= end
  BY <1>1, <1>3, RoundingUp
<1> HIDE DEF first, end
<1>5. CASE Direct
  <2>1. read = [offset |-> first, length |-> end - first,
                required |-> x.offset + x.length - first]
    BY <1>5 DEF Aligned, first, end
  <2> QED BY <2>1, <1>1, <1>2, <1>4, <1>5
<1>6. CASE ~Direct
  <2>1. read = [offset |-> x.offset, length |-> x.offset + x.length - x.offset,
                required |-> x.offset + x.length - x.offset]
    BY <1>6 DEF Aligned
  <2> QED BY <2>1, <1>1
<1> QED BY <1>5, <1>6

LEMMA ChunkLength == MaximumChunk \in Nat
<1>1. MaximumRead \in Nat /\ FileLength \in Nat /\ Alignment \in Nat \ {0}
  BY ReadConstants DEF ReadAssumption
<1>2. Alignment * (MaximumRead \div Alignment) \in Nat
  BY <1>1, Division
<1> QED BY <1>1, <1>2 DEF MaximumChunk

LEMMA MinimumIsBounded ==
  ASSUME NEW position \in Nat, NEW length \in Nat, NEW required \in Nat,
         NEW least, least = Minimum(position, length, required)
  PROVE  /\ least \in Nat /\ least <= length
         /\ least # 0 => position + least <= required
         /\ \A byte \in Nat : byte < required /\ byte < position + length => byte < position + least
BY DEF Minimum, Least

-----------------------------------------------------------------------------
(* Buffers: what an operation brings lands where it belongs, and takes     *)
(* nothing from what others brought.                                       *)

LEMMA OperationReads ==
  ASSUME ReadTypeOK, RequestsAreSound, NEW operation \in Operation, IsOperation(operation),
         NEW read, read = Aligned(reading.requests[operation.request])
  PROVE  /\ operation.request \in DOMAIN reading.requests
         /\ read \in [offset : Nat, length : Nat, required : Nat]
         /\ operation.offset = read.offset + operation.position
         /\ operation.position + operation.length <= read.length
         /\ reading.buffers[operation.request] \in Seq(Int)
         /\ Len(reading.buffers[operation.request]) = read.length
         /\ read.offset + read.required <= FileLength
         /\ ~Direct => read.length = read.required
         /\ operation.minimum = Minimum(operation.position, operation.length, read.required)
<1> DEFINE i == operation.request
<1>1. i \in DOMAIN reading.requests
  BY DEF IsOperation
<1>2. reading.requests \in Seq([offset : Nat, length : Nat]) /\ reading.buffers \in Seq(Seq(Int))
  BY DEF ReadTypeOK, Calls
<1>3. reading.requests[i] \in [offset : Nat, length : Nat] /\ reading.buffers[i] \in Seq(Int)
  <2>1. i \in 1..Len(reading.requests) /\ i \in 1..Len(reading.buffers)
    BY <1>1, <1>2, SMTT(20) DEF RequestsAreSound
  <2> QED BY <1>2, <2>1, ElementOfSeq
<1>4. reading.requests[i].offset + reading.requests[i].length <= FileLength
  BY <1>1 DEF RequestsAreSound, Valid
<1>5. /\ read \in [offset : Nat, length : Nat, required : Nat]
      /\ read.offset + read.required = reading.requests[i].offset + reading.requests[i].length
      /\ ~Direct => read.length = read.required
  BY <1>3, AlignedIsSound
<1> QED BY <1>1, <1>3, <1>4, <1>5 DEF IsOperation, RequestsAreSound

LEMMA LandedIsSound ==
  ASSUME ReadTypeOK, RequestsAreSound, NEW operation \in Operation, IsOperation(operation),
         NEW from \in Nat, NEW bytes \in Int, from + bytes <= operation.length,
         NEW after, after = Landed(operation, from, bytes)
  PROVE  /\ after \in Seq(Seq(Int)) /\ DOMAIN after = DOMAIN reading.buffers
         /\ \A i \in DOMAIN after : Len(after[i]) = Len(reading.buffers[i])
         /\ \A other \in Operation, n \in Int :
              IsOperation(other) /\ n <= other.length /\ Holds(reading.buffers, other, n) =>
                Holds(after, other, n)
         /\ Holds(reading.buffers, operation, from) => Holds(after, operation, from + bytes)
<1> DEFINE i == operation.request
           old == reading.buffers[i]
           Byte(k) == k - 1 - operation.position
           new == [k \in DOMAIN old |-> IF Byte(k) \in from..(from + bytes - 1)
                                        THEN operation.offset + Byte(k) ELSE old[k]]
<1>1. PICK read : read = Aligned(reading.requests[i])
  OBVIOUS
<1>2. /\ i \in DOMAIN reading.requests
      /\ read \in [offset : Nat, length : Nat, required : Nat]
      /\ operation.offset = read.offset + operation.position
      /\ operation.position + operation.length <= read.length
      /\ old \in Seq(Int) /\ Len(old) = read.length
  BY <1>1, OperationReads
<1>3. operation.position \in Nat /\ operation.offset \in Nat /\ operation.length \in Nat
  BY DEF Operation
<1>4. reading.buffers \in Seq(Seq(Int)) /\ i \in DOMAIN reading.buffers
  BY <1>2 DEF ReadTypeOK, Calls, RequestsAreSound
<1>5. /\ read.length \in Nat /\ read.offset \in Nat /\ DOMAIN old = 1..read.length
      /\ \A k \in 1..read.length : old[k] \in Int
  BY <1>2
<1>6. after = [reading.buffers EXCEPT ![i] = new]
  BY DEF Landed
<1>7. new \in Seq(Int) /\ Len(new) = read.length
  <2>1. \A k \in 1..read.length : new[k] \in Int
    <3> TAKE k \in 1..read.length
    <3>1. old[k] \in Int /\ operation.offset + Byte(k) \in Int
      BY <1>3, <1>5, SMTT(20)
    <3>2. new[k] = IF Byte(k) \in from..(from + bytes - 1)
                   THEN operation.offset + Byte(k) ELSE old[k]
      BY <1>5
    <3> QED BY <3>1, <3>2
  <2>2. new = [k \in 1..read.length |-> new[k]]
    BY <1>5
  <2> HIDE DEF new
  <2>3. new \in [1..read.length -> Int]
    BY <2>1, <2>2
  <2> QED BY <2>3, <1>5
<1>8. \A k \in 1..read.length :
        new[k] = IF Byte(k) \in from..(from + bytes - 1) THEN read.offset + k - 1 ELSE old[k]
  <2> TAKE k \in 1..read.length
  <2>1. operation.offset + Byte(k) = read.offset + k - 1
    BY <1>2, <1>3, <1>5, SMTT(30)
  <2>2. new[k] = IF Byte(k) \in from..(from + bytes - 1)
                 THEN operation.offset + Byte(k) ELSE old[k]
    BY <1>5
  <2> QED BY <2>1, <2>2
<1> HIDE DEF new
<1>9. /\ after[i] = new
      /\ \A j \in DOMAIN reading.buffers : j # i => after[j] = reading.buffers[j]
      /\ DOMAIN after = DOMAIN reading.buffers
  BY <1>4, <1>6
<1>10. after \in Seq(Seq(Int))
  BY <1>4, <1>6, <1>7, ExceptSeq
<1>11. \A j \in DOMAIN after : Len(after[j]) = Len(reading.buffers[j])
  BY <1>2, <1>7, <1>9
<1>12. ASSUME NEW other \in Operation, NEW n \in Int, IsOperation(other), n <= other.length,
              Holds(reading.buffers, other, n)
       PROVE  Holds(after, other, n)
  <2>1. CASE other.request # i
    <3>1. other.request \in DOMAIN reading.buffers
      BY <1>12, OperationReads DEF RequestsAreSound
    <3> QED BY <2>1, <3>1, <1>9, <1>12 DEF Holds
  <2>2. CASE other.request = i
    <3>1. /\ other.offset = read.offset + other.position
          /\ other.position + other.length <= read.length
      BY <1>1, <1>12, <2>2, OperationReads
    <3>2. other.position \in Nat /\ other.length \in Nat
      BY DEF Operation
    <3>3. ASSUME NEW byte \in 0..(n - 1)
          PROVE  new[other.position + byte + 1] = other.offset + byte
      <4>1. other.position + byte + 1 \in 1..read.length
        BY <3>1, <3>2, <1>12, <1>5, SMTT(20)
      <4>2. old[other.position + byte + 1] = other.offset + byte
        BY <1>12, <2>2 DEF Holds
      <4>3. read.offset + (other.position + byte + 1) - 1 = other.offset + byte
        BY <3>1, <3>2, <1>5
      <4> QED BY <4>1, <4>2, <4>3, <1>8
    <3> QED BY <3>3, <1>9, <2>2 DEF Holds
  <2> QED BY <2>1, <2>2
<1>13. ASSUME Holds(reading.buffers, operation, from)
       PROVE  Holds(after, operation, from + bytes)
  <2>1. ASSUME NEW byte \in 0..(from + bytes - 1)
        PROVE  new[operation.position + byte + 1] = operation.offset + byte
    <3>0. byte \in Nat /\ byte < operation.length
      BY <1>3
    <3>5. operation.position + operation.length <= read.length
      BY <1>2
    <3>6. read.offset + operation.position = operation.offset
      BY <1>2
    <3>7. read.length \in Nat /\ read.offset \in Nat
      BY <1>5
    <3>1. operation.position + byte + 1 \in 1..read.length
      BY <3>0, <3>5, <3>7, <1>3
    <3>2. byte < from => old[operation.position + byte + 1] = operation.offset + byte
      BY <1>13 DEF Holds
    <3>3. /\ read.offset + (operation.position + byte + 1) - 1 = operation.offset + byte
          /\ Byte(operation.position + byte + 1) = byte
      BY <3>0, <3>6, <3>7, <1>3
    <3>4. byte \in from..(from + bytes - 1) \/ byte < from
      OBVIOUS
    <3> QED BY <3>1, <3>2, <3>3, <3>4, <1>8
  <2> QED BY <2>1, <1>9 DEF Holds
<1> QED BY <1>9, <1>10, <1>11, <1>12, <1>13

-----------------------------------------------------------------------------
(* What holds between calls, and when a call ends.                         *)

LEMMA NothingUnreaped ==
  ASSUME ring = EmptyRing
  PROVE  Unreaped = {} /\ Owed = {}
BY DEF EmptyRing, Unreaped, Owed, OwedBy

LEMMA CompletedWasSubmitted ==
  ASSUME ReadTypeOK, BytesAreOwed
  PROVE  counters.completed <= counters.submitted
<1>1. Cardinality(Owed) \in Nat
  BY FS_CardinalityType DEF BytesAreOwed
<1>2. counters.completed \in Nat /\ counters.submitted \in Nat
  BY DEF ReadTypeOK
<1> QED BY <1>1, <1>2 DEF BytesAreOwed

LEMMA NothingOwed ==
  ASSUME ring'.inFlight = {}, ring'.completed = <<>>, ReadTypeOK',
         counters'.completed <= counters'.submitted
  PROVE  BytesAreOwed'
<1>1. Owed' = {}
  BY DEF Unreaped, Owed, OwedBy
<1>2. IsFiniteSet({}) /\ Cardinality({}) = 0
  BY FS_EmptySet
<1>3. counters'.completed \in Nat
  BY DEF ReadTypeOK
<1> QED BY <1>1, <1>2, <1>3 DEF BytesAreOwed

LEMMA EmptyRingOwesNothing ==
  ASSUME ring' = EmptyRing, ReadTypeOK', counters'.completed <= counters'.submitted
  PROVE  BytesAreOwed'
BY NothingOwed DEF EmptyRing

LEMMA NotReadingIsTyped == NotReading \in Calls
<1>1. <<>> \in Seq([offset : Nat, length : Nat]) /\ <<>> \in Seq(Operation) /\ <<>> \in Seq(Seq(Int))
  OBVIOUS
<1> QED BY <1>1 DEF NotReading, Calls

LEMMA EmptyRingIsTyped == EmptyRing \in Rings
BY DEF EmptyRing, Rings

LEMMA Idling ==
  ASSUME reading' = NotReading, ring' = EmptyRing
  PROVE  RequestsAreSound' /\ PlanIsSound' /\ BuffersAreSound' /\ RingIsSound'
<1>1. /\ reading'.pc = "idle" /\ reading'.requests = <<>> /\ reading'.operations = <<>>
      /\ reading'.base = 0 /\ reading'.buffers = <<>>
  BY DEF NotReading
<1>2. RequestsAreSound'
  BY <1>1 DEF RequestsAreSound
<1>3. PlanIsSound'
  BY <1>1 DEF PlanIsSound
<1>4. BuffersAreSound'
  BY <1>1 DEF BuffersAreSound
<1>5. RingIsSound'
  BY <1>1 DEF RingIsSound, InBatch
<1> QED BY <1>2, <1>3, <1>4, <1>5

LEMMA AnswerStays ==
  ASSUME AnswersAreRight, answer' = answer, ReadTypeOK, ReadTypeOK',
         counters.faults <= counters'.faults
  PROVE  AnswersAreRight'
<1>1. counters.faults \in Nat /\ counters'.faults \in Nat
  BY DEF ReadTypeOK
<1> QED BY <1>1 DEF AnswersAreRight, Valid

\* A call that ends with an error has had a fault.
LEMMA FailureIsRight ==
  ASSUME RequestsAreSound, NEW error \in {"io_error", "truncated_file"}, counters'.faults > 0,
         answer' = [error |-> error, values |-> <<>>, requests |-> reading.requests]
  PROVE  AnswersAreRight'
BY DEF AnswersAreRight, RequestsAreSound, Valid

LEMMA CallFails ==
  ASSUME ReadInv, NEW error \in {"io_error", "truncated_file"}, Answered(error, <<>>),
         ring' = EmptyRing, plane' \in {plane, [plane EXCEPT !.initialized = FALSE]},
         counters' \in [submitted : Nat, completed : Nat, completions : Nat, reads : Nat, faults : Nat],
         counters'.completed <= counters'.submitted, counters'.faults > 0
  PROVE  ReadInv'
<1>1. reading' = NotReading
  BY DEF Answered
<1>2. ReadTypeOK'
  <2>1. plane' \in [engine : {"pread", "io_uring"}, cache : {"buffered", "direct"},
                    initialized : BOOLEAN]
    BY DEF ReadInv, ReadTypeOK
  <2> QED BY <2>1, <1>1, NotReadingIsTyped, EmptyRingIsTyped DEF ReadTypeOK
<1>3. EngineWorks'
  BY <1>1 DEF EngineWorks, NotReading
<1>4. AnswersAreRight'
  BY FailureIsRight DEF Answered, ReadInv
<1> QED BY <1>1, <1>2, <1>3, <1>4, Idling, EmptyRingOwesNothing DEF ReadInv

LEMMA ReadBegins == ReadInit => ReadInv
<1> SUFFICES ASSUME ReadInit PROVE ReadInv
  OBVIOUS
<1>1. reading = NotReading /\ ring = EmptyRing
  BY DEF ReadInit
<1>2. ReadTypeOK
  BY NotReadingIsTyped, EmptyRingIsTyped DEF ReadInit, ReadTypeOK
<1>3. EngineWorks
  <2>1. PICK engine \in {"pread", "io_uring"}, cache \in {"buffered", "direct"} :
          plane = [engine |-> engine, cache |-> cache, initialized |-> engine = "io_uring"]
    BY DEF ReadInit
  <2>2. plane.engine = "io_uring" => plane.initialized
    BY <2>1
  <2>3. reading.pc = "idle"
    BY <1>1 DEF NotReading
  <2> QED BY <2>2, <2>3 DEF EngineWorks
<1>4. /\ reading.pc = "idle" /\ reading.requests = <<>> /\ reading.operations = <<>>
      /\ reading.base = 0 /\ reading.buffers = <<>>
  BY <1>1 DEF NotReading
<1>5. RequestsAreSound /\ PlanIsSound /\ BuffersAreSound
  BY <1>4 DEF RequestsAreSound, PlanIsSound, BuffersAreSound
<1>6. RingIsSound
  BY <1>1, <1>4 DEF RingIsSound, InBatch
<1>7. BytesAreOwed
  BY <1>1, NothingUnreaped, FS_EmptySet DEF BytesAreOwed, ReadInit
<1>8. AnswersAreRight
  BY DEF AnswersAreRight, ReadInit
<1> QED BY <1>2, <1>3, <1>5, <1>6, <1>7, <1>8 DEF ReadInv

-----------------------------------------------------------------------------
(* A call begins, and lays out its operations.                             *)

LEMMA FunctionIsSeq ==
  ASSUME NEW S, NEW n \in Nat, NEW f \in [1..n -> S]
  PROVE  f \in Seq(S)
BY SeqDef

LEMMA BuffersAreTyped ==
  ASSUME NEW requests \in Seq([offset : Nat, length : Nat]), NEW buffers,
         buffers = Buffers(requests)
  PROVE  /\ buffers \in Seq(Seq(Int)) /\ DOMAIN buffers = DOMAIN requests
         /\ \A i \in DOMAIN requests : Len(buffers[i]) = Aligned(requests[i]).length
<1>1. DOMAIN requests = 1..Len(requests) /\ Len(requests) \in Nat
  OBVIOUS
<1>2. ASSUME NEW i \in DOMAIN requests
      PROVE  buffers[i] \in Seq(Int) /\ Len(buffers[i]) = Aligned(requests[i]).length
  <2>1. PICK read : read = Aligned(requests[i])
    OBVIOUS
  <2>2. requests[i] \in [offset : Nat, length : Nat]
    BY <1>1, ElementOfSeq
  <2>3. read.length \in Nat
    BY <2>1, <2>2, AlignedIsSound
  <2>4. buffers[i] = [k \in 1..read.length |-> Unread]
    BY <2>1 DEF Buffers
  <2>5. buffers[i] \in [1..read.length -> Int]
    BY <2>4 DEF Unread
  <2>6. PICK buffer : buffer = buffers[i]
    OBVIOUS
  <2>7. buffer \in Seq(Int) /\ Len(buffer) = read.length
    BY <2>3, <2>5, <2>6, SMTT(20)
  <2> QED BY <2>1, <2>6, <2>7
<1>3. buffers = [i \in 1..Len(requests) |-> buffers[i]]
  BY <1>1 DEF Buffers
<1>4. buffers \in [1..Len(requests) -> Seq(Int)]
  BY <1>1, <1>2, <1>3
<1>5. DOMAIN buffers = DOMAIN requests
  BY <1>1, <1>4
<1>6. buffers \in Seq(Seq(Int))
  BY <1>1, <1>4, FunctionIsSeq
<1> QED BY <1>2, <1>5, <1>6

LEMMA ReadKeeps ==
  ASSUME ReadInv, NEW requests \in RequestLists, Read(requests)
  PROVE  ReadInv'
<1>1. requests \in Seq([offset : Nat, length : Nat])
  BY ReadConstants DEF ReadAssumption
<1>2. /\ reading.pc = "idle" /\ ring' = ring /\ plane' = plane
      /\ counters' = [counters EXCEPT !.reads = @ + 1]
  BY DEF Read
<1>3. ring' = EmptyRing
  BY <1>2 DEF ReadInv, RingIsSound, InBatch
<1>4. /\ counters' \in [submitted : Nat, completed : Nat, completions : Nat, reads : Nat, faults : Nat]
      /\ counters'.completed = counters.completed /\ counters'.submitted = counters.submitted
      /\ counters'.faults = counters.faults /\ counters.faults \in Nat
  BY <1>2 DEF ReadInv, ReadTypeOK
<1>5. counters'.completed <= counters'.submitted
  BY <1>4, CompletedWasSubmitted DEF ReadInv
<1>6. CASE UNCHANGED reading
  <2>1. ReadTypeOK'
    BY <1>2, <1>4, <1>6 DEF ReadInv, ReadTypeOK
  <2>2. EngineWorks'
    BY <1>2, <1>4, <1>6 DEF ReadInv, EngineWorks
  <2>3. RequestsAreSound' /\ PlanIsSound' /\ BuffersAreSound'
    <3>1. RequestsAreSound'
      BY <1>2, <1>6 DEF ReadInv, RequestsAreSound, Aligned, Direct, Valid
    <3>2. PlanIsSound'
      BY <1>2, <1>6, ZenonT(40) DEF ReadInv, PlanIsSound, IsOperation, IsPlanned, Aligned, Direct
    <3>3. BuffersAreSound'
      BY <1>2, <1>6 DEF ReadInv, BuffersAreSound, IsDone, Holds, Direct
    <3> QED BY <3>1, <3>2, <3>3
  <2>4. RingIsSound'
    BY <1>2, <1>3, <1>6 DEF RingIsSound, InBatch
  <2>5. AnswersAreRight'
    <3>1. CASE answer' = answer
      BY <3>1, <2>1, <1>4, AnswerStays DEF ReadInv
    <3>2. CASE answer' # answer
      <4> DEFINE refusal == IF \E i \in DOMAIN requests : ~Valid(requests[i])
                            THEN "invalid_extent"
                            ELSE IF plane.engine = "io_uring" /\ ~plane.initialized
                                 THEN "storage_unavailable" ELSE "ok"
      <4>0. /\ answer' = [error |-> refusal, values |-> <<>>, requests |-> requests]
            /\ requests = <<>> \/ refusal # "ok"
        BY <3>2 DEF Read
      <4>1. PICK error : error = refusal
        OBVIOUS
      <4>2. error = "storage_unavailable" => counters.faults > 0
        BY <4>1 DEF ReadInv, EngineWorks
      <4>3. /\ answer'.error = error /\ answer'.values = <<>> /\ answer'.requests = requests
            /\ requests = <<>> \/ error # "ok"
        BY <4>0, <4>1
      <4>4. error = "invalid_extent" <=> \E i \in DOMAIN requests : ~Valid(requests[i])
        BY <4>1
      <4>5. error = "ok" => requests = <<>>
        BY <4>3
      <4>9. error \in {"invalid_extent", "storage_unavailable", "ok"}
        BY <4>1
      <4> HIDE DEF refusal
      <4>6. answer'.error = "ok" =>
              /\ DOMAIN answer'.values = DOMAIN answer'.requests
              /\ \A i \in DOMAIN answer'.requests :
                   answer'.values[i] = [k \in 1..answer'.requests[i].length |->
                                          answer'.requests[i].offset + k - 1]
        BY <4>3, <4>5
      <4>7. answer'.error = "invalid_extent" <=>
              \E i \in DOMAIN answer'.requests : ~Valid(answer'.requests[i])
        BY <4>3, <4>4
      <4>8. answer'.error \notin {"io_error", "truncated_file"} /\
            (answer'.error = "storage_unavailable" => counters'.faults > 0)
        BY <4>2, <4>3, <4>9, <1>4
      <4> QED BY <4>6, <4>7, <4>8 DEF AnswersAreRight, Valid
    <3> QED BY <3>1, <3>2
  <2> QED BY <2>1, <2>2, <2>3, <2>4, <2>5, <1>3, <1>5, EmptyRingOwesNothing DEF ReadInv
<1>7. CASE ~ UNCHANGED reading
  <2>1. PICK buffers : buffers = Buffers(requests)
    OBVIOUS
  <2>2. /\ reading' = [NotReading EXCEPT !.pc = "plan", !.requests = requests, !.buffers = buffers]
        /\ answer' = answer /\ requests # <<>>
        /\ \A i \in DOMAIN requests : Valid(requests[i])
        /\ plane.engine = "io_uring" => plane.initialized
    BY <1>7, <2>1 DEF Read
  <2>3. /\ reading'.pc = "plan" /\ reading'.requests = requests /\ reading'.operations = <<>>
        /\ reading'.base = 0 /\ reading'.buffers = buffers /\ reading'.planned = 1
        /\ reading'.position = 0 /\ reading'.reaped = 0
    BY <2>2 DEF NotReading
  <2>4. /\ buffers \in Seq(Seq(Int)) /\ DOMAIN buffers = DOMAIN requests
        /\ \A i \in DOMAIN requests : Len(buffers[i]) = Aligned(requests[i]).length
    BY <1>1, <2>1, BuffersAreTyped
  <2>5. reading' \in Calls
    BY <1>1, <2>2, <2>4, NotReadingIsTyped DEF Calls, NotReading
  <2>6. ReadTypeOK'
    BY <1>2, <1>4, <2>5 DEF ReadInv, ReadTypeOK
  <2>7. EngineWorks'
    BY <1>2, <2>2, <2>3 DEF EngineWorks
  <2>8. RequestsAreSound'
    BY <1>2, <2>2, <2>3, <2>4 DEF RequestsAreSound, Aligned, Direct, Valid
  <2>9. PlanIsSound'
    <3>1. 1 \in DOMAIN requests
      BY <1>1, <2>2
    <3> QED BY <2>3, <3>1 DEF PlanIsSound, IsPlanned
  <2>10. BuffersAreSound'
    BY <2>3 DEF BuffersAreSound
  <2>11. RingIsSound'
    BY <1>3, <2>3 DEF RingIsSound, InBatch
  <2>12. AnswersAreRight'
    BY <1>4, <2>2, <2>6, AnswerStays DEF ReadInv
  <2> QED BY <2>6, <2>7, <2>8, <2>9, <2>10, <2>11, <2>12, <1>3, <1>5, EmptyRingOwesNothing DEF ReadInv
<1> QED BY <1>6, <1>7

\* A step that touches neither ring nor counters nor answer, outside a batch.
LEMMA OutsideKeeps ==
  ASSUME ReadInv, ~InBatch, ~InBatch', UNCHANGED <<ring, counters, answer>>, ReadTypeOK'
  PROVE  RingIsSound' /\ BytesAreOwed' /\ AnswersAreRight'
<1>1. ring' = EmptyRing
  BY DEF ReadInv, RingIsSound
<1>2. RingIsSound'
  BY <1>1 DEF RingIsSound
<1>3. BytesAreOwed'
  BY <1>1, EmptyRingOwesNothing, CompletedWasSubmitted DEF ReadInv
<1>4. counters.faults \in Nat
  BY DEF ReadInv, ReadTypeOK
<1>5. AnswersAreRight'
  BY <1>4, AnswerStays DEF ReadInv
<1> QED BY <1>2, <1>3, <1>5

LEMMA PlanChunkKeeps == ASSUME ReadInv, PlanChunk PROVE ReadInv'
<1>1. reading.pc = "plan" /\ UNCHANGED <<plane, ring, counters, answer>>
  BY DEF PlanChunk
<1>2. /\ reading \in Calls /\ reading.requests \in Seq([offset : Nat, length : Nat])
      /\ reading.operations \in Seq(Operation) /\ reading.position \in Nat
      /\ reading.base = 0 /\ reading.reaped = 0
      /\ reading.planned \in DOMAIN reading.requests
  BY <1>1 DEF ReadInv, ReadTypeOK, PlanIsSound, Calls
<1>3. PICK x : x = reading.requests[reading.planned]
  OBVIOUS
<1>4. PICK read : read = Aligned(x)
  OBVIOUS
<1>5. x \in [offset : Nat, length : Nat] /\ Valid(x)
  <2>1. reading.planned \in 1..Len(reading.requests)
    BY <1>2
  <2> QED BY <2>1, <1>2, <1>3, ElementOfSeq DEF ReadInv, RequestsAreSound
<1>6. /\ read.offset \in Nat /\ read.length \in Nat /\ read.required \in Nat
      /\ read.required <= read.length
  BY <1>4, <1>5, AlignedIsSound
<1>7. reading.position < read.length
  BY <1>3, <1>4 DEF PlanChunk
<1>8. PICK length : length = Least(MaximumChunk, read.length - reading.position)
  OBVIOUS
<1>9. length \in Nat /\ reading.position + length <= read.length
  BY <1>2, <1>6, <1>7, <1>8, ChunkLength DEF Least
<1>10. PICK least : least = Minimum(reading.position, length, read.required)
  OBVIOUS
<1>11. /\ least \in Nat
       /\ \A byte \in Nat : byte < read.required /\ byte < reading.position + length =>
            byte < reading.position + least
  <2>1. reading.position \in Nat /\ length \in Nat /\ read.required \in Nat
    BY <1>2, <1>6, <1>9
  <2> QED BY <2>1, <1>10, MinimumIsBounded
<1>12. PICK chunk : chunk = Chunk(reading.planned, x, reading.position)
  OBVIOUS
<1>13. chunk = [request |-> reading.planned, position |-> reading.position,
                offset |-> read.offset + reading.position, length |-> length, minimum |-> least]
  BY <1>4, <1>8, <1>10, <1>12 DEF Chunk
<1>14. chunk \in Operation
  <2>1. reading.planned \in Nat
    BY <1>2
  <2> QED BY <2>1, <1>2, <1>6, <1>9, <1>11, <1>13, SMTT(20) DEF Operation
<1>15. PICK operations : operations = Append(reading.operations, chunk)
  OBVIOUS
<1>16. /\ operations \in Seq(Operation) /\ Len(operations) = Len(reading.operations) + 1
       /\ \A k \in DOMAIN reading.operations :
            k \in DOMAIN operations /\ operations[k] = reading.operations[k]
       /\ operations[Len(operations)] = chunk /\ Len(operations) \in DOMAIN operations
       /\ \A k \in DOMAIN operations : k \in DOMAIN reading.operations \/ operations[k] = chunk
  <2>1. /\ operations \in Seq(Operation) /\ Len(operations) = Len(reading.operations) + 1
        /\ \A k \in 1..Len(reading.operations) : operations[k] = reading.operations[k]
        /\ operations[Len(reading.operations) + 1] = chunk
    BY <1>2, <1>14, <1>15, AppendProperties
  <2>2. DOMAIN operations = 1..Len(operations)
        /\ DOMAIN reading.operations = 1..Len(reading.operations)
        /\ Len(reading.operations) \in Nat
    BY <1>2, <2>1
  <2> QED BY <2>1, <2>2
<1>17. reading' = [reading EXCEPT !.operations = operations, !.position = @ + length]
  <2>1. reading' = [reading EXCEPT !.operations = Append(@, chunk), !.position = @ + chunk.length]
    BY <1>3, <1>12 DEF PlanChunk
  <2>2. chunk.length = length
    BY <1>13
  <2> QED BY <2>1, <2>2, <1>15
<1>18. /\ reading' \in Calls
       /\ reading'.pc = "plan" /\ reading'.requests = reading.requests
       /\ reading'.operations = operations /\ reading'.base = 0 /\ reading'.reaped = 0
       /\ reading'.buffers = reading.buffers /\ reading'.planned = reading.planned
       /\ reading'.position = reading.position + length
  <2>1. reading.position + length \in Nat
    BY <1>2, <1>9
  <2> QED BY <2>1, <1>1, <1>2, <1>16, <1>17 DEF Calls
<1>19. ReadTypeOK'
  BY <1>1, <1>18 DEF ReadInv, ReadTypeOK
<1>20. EngineWorks'
  BY <1>1, <1>18 DEF ReadInv, EngineWorks
<1>21. RequestsAreSound'
  BY <1>1, <1>18 DEF ReadInv, RequestsAreSound, Aligned, Direct, Valid
<1>22. PlanIsSound'
  <2>1. \A k \in DOMAIN operations : IsOperation(operations[k])
    <3>1. plane.engine = "pread" /\ ~Direct => length > 0
      <4>1. x.length > 0 /\ x.offset + x.length <= FileLength
        BY <1>5 DEF Valid
      <4>2. FileLength > 0 /\ FileLength \in Nat
        BY <4>1, <1>5, ReadConstants DEF ReadAssumption
      <4>3. plane.engine = "pread" /\ ~Direct => MaximumChunk = FileLength
        BY DEF MaximumChunk
      <4> QED BY <4>2, <4>3, <1>2, <1>6, <1>7, <1>8 DEF Least
    <3>2. IsOperation(chunk)
      BY <3>1, <1>2, <1>3, <1>4, <1>9, <1>10, <1>13 DEF IsOperation
    <3> QED BY <3>2, <1>16 DEF ReadInv, PlanIsSound
  <2>2. \A k \in DOMAIN operations : IsOperation(operations[k])'
    BY <2>1, <1>1, <1>18 DEF IsOperation, Aligned, Direct
  <2>3. ASSUME NEW i \in DOMAIN reading.requests, NEW position, IsPlanned(i, position)
        PROVE  IsPlanned(i, position)'
    BY <2>3, <1>1, <1>16, <1>18 DEF IsPlanned, Aligned, Direct
  <2>4. IsPlanned(reading.planned, reading.position)
    BY <1>1 DEF ReadInv, PlanIsSound
  <2>5. ASSUME NEW byte \in 0..(reading.position + length - 1), byte < read.required
        PROVE  \E k \in DOMAIN operations :
                 /\ operations[k].request = reading.planned /\ operations[k].position <= byte
                 /\ byte < operations[k].position + operations[k].minimum
    <3>1. CASE byte < reading.position
      <4>1. byte \in 0..(reading.position - 1)
        BY <3>1, <1>2
      <4> QED BY <4>1, <2>4, <2>5, <1>3, <1>4, <1>16 DEF IsPlanned
    <3>2. CASE ~(byte < reading.position)
      <4>1. reading.position <= byte /\ byte < reading.position + least
        <5>1. byte \in Nat /\ byte < reading.position + length /\ reading.position \in Nat
          BY <1>2, <1>9
        <5>2. byte < reading.position + least
          BY <5>1, <2>5, <1>11
        <5> QED BY <5>1, <5>2, <3>2
      <4>2. /\ chunk.request = reading.planned /\ chunk.position = reading.position
            /\ chunk.minimum = least
        BY <1>13
      <4> QED BY <4>1, <4>2, <1>16
    <3> QED BY <3>1, <3>2
  <2>6. IsPlanned(reading.planned, reading.position)'
    <3>1. reading'.position = reading.position + length /\ reading'.planned = reading.planned
      BY <1>18
    <3>2. reading'.requests[reading'.planned] = x /\ plane' = plane
      BY <1>1, <1>3, <1>18
    <3>3. Aligned(reading.requests[reading.planned])' = read
      BY <3>2, <1>4 DEF Aligned, Direct
    <3>4. ASSUME NEW byte \in 0..(reading'.position - 1),
                 byte < Aligned(reading.requests[reading.planned])'.required
          PROVE  \E k \in DOMAIN reading'.operations :
                   /\ reading'.operations[k].request = reading'.planned
                   /\ reading'.operations[k].position <= byte
                   /\ byte < reading'.operations[k].position + reading'.operations[k].minimum
      <4>0. byte \in 0..(reading.position + length - 1)
        BY <3>1, <1>2, <1>9
      <4>1. byte < read.required
        BY <3>3, <3>4
      <4> QED BY <4>0, <4>1, <2>5, <3>1, <1>18
    <3> QED BY <3>4 DEF IsPlanned
  <2>7. \A i \in 1..(reading.planned - 1) : i \in DOMAIN reading.requests
    BY <1>2
  <2>8. \A i \in 1..(reading.planned - 1) :
          IsPlanned(i, Aligned(reading.requests[i]).required)'
    BY <2>3, <2>7, <1>1, <1>18 DEF ReadInv, PlanIsSound, IsPlanned, Aligned, Direct
  <2>9. reading'.base <= Len(reading'.operations)
    BY <1>16, <1>18
  <2> QED BY <2>2, <2>6, <2>8, <2>9, <1>2, <1>18 DEF PlanIsSound
<1>23. BuffersAreSound'
  BY <1>18 DEF BuffersAreSound
<1> QED BY <1>1, <1>18, <1>19, <1>20, <1>21, <1>22, <1>23, OutsideKeeps DEF ReadInv, InBatch

\* Operations of the same requests on the same plane are sound as they were.
LEMMA OperationsStay ==
  ASSUME \A k \in DOMAIN reading.operations : IsOperation(reading.operations[k]),
         reading'.requests = reading.requests, reading'.operations = reading.operations,
         plane' = plane
  PROVE  \A k \in DOMAIN reading.operations : IsOperation(reading.operations[k])'
<1>1. \A operation : IsOperation(operation) => IsOperation(operation)'
  <2> SUFFICES ASSUME NEW operation, IsOperation(operation) PROVE IsOperation(operation)'
    OBVIOUS
  <2>1. Direct' = Direct
    BY DEF Direct
  <2>2. Aligned(reading.requests[operation.request])' = Aligned(reading.requests[operation.request])
    BY <2>1 DEF Aligned
  <2> QED BY <2>1, <2>2 DEF IsOperation
<1>2. ASSUME NEW k \in DOMAIN reading.operations
      PROVE  IsOperation(reading.operations[k])'
  <2>1. PICK operation : operation = reading.operations[k]
    OBVIOUS
  <2>2. IsOperation(operation)'
    BY <1>1, <2>1
  <2>3. (reading.operations[k])' = operation
    BY <2>1
  <2> QED BY <2>2, <2>3 DEF IsOperation
<1> QED BY <1>2

LEMMA PlanNextKeeps == ASSUME ReadInv, PlanNext PROVE ReadInv'
<1>1. reading.pc = "plan" /\ UNCHANGED <<plane, ring, counters, answer>>
  BY DEF PlanNext
<1>2. /\ reading \in Calls /\ reading.requests \in Seq([offset : Nat, length : Nat])
      /\ reading.position \in Nat /\ reading.base = 0 /\ reading.reaped = 0
      /\ reading.planned \in DOMAIN reading.requests /\ reading.planned \in Nat
  BY <1>1 DEF ReadInv, ReadTypeOK, PlanIsSound, Calls
<1>3. PICK read : read = Aligned(reading.requests[reading.planned])
  OBVIOUS
<1>4. read.length \in Nat /\ read.required \in Nat /\ read.required <= read.length
  <2>1. reading.planned \in 1..Len(reading.requests)
    BY <1>2
  <2>2. reading.requests[reading.planned] \in [offset : Nat, length : Nat]
    BY <2>1, <1>2, ElementOfSeq
  <2> QED BY <2>2, <1>3, AlignedIsSound
<1>5. IsPlanned(reading.planned, Aligned(reading.requests[reading.planned]).required)
  <2>1. IsPlanned(reading.planned, reading.position) /\ read.length <= reading.position
    BY <1>1, <1>2, <1>3, <1>4 DEF ReadInv, PlanIsSound, PlanNext
  <2>2. \A byte \in 0..(read.required - 1) : byte \in 0..(reading.position - 1)
    BY <2>1, <1>2, <1>4
  <2> QED BY <2>1, <2>2, <1>3 DEF IsPlanned
<1>6. \A i \in 1..reading.planned : IsPlanned(i, Aligned(reading.requests[i]).required)
  <2>1. \A i \in 1..(reading.planned - 1) : IsPlanned(i, Aligned(reading.requests[i]).required)
    BY <1>1 DEF ReadInv, PlanIsSound
  <2>2. \A i \in 1..reading.planned : i \in 1..(reading.planned - 1) \/ i = reading.planned
    BY <1>2
  <2> QED BY <2>1, <2>2, <1>5
<1>7. PICK pc, planned, position :
        /\ reading' = [reading EXCEPT !.pc = pc, !.planned = planned, !.position = position]
        /\ \/ /\ pc = "plan" /\ planned = reading.planned + 1 /\ position = 0
              /\ planned <= Len(reading.requests)
           \/ /\ pc = IF plane.engine = "pread" THEN "pread" ELSE "prepare"
              /\ planned = reading.planned /\ position = reading.position
              /\ reading.planned = Len(reading.requests)
  <2>1. CASE reading.planned < Len(reading.requests)
    <3>1. reading' = [reading EXCEPT !.pc = "plan", !.planned = reading.planned + 1,
                                     !.position = 0]
      BY <2>1, <1>1, <1>2 DEF PlanNext, Calls
    <3>2. reading.planned + 1 <= Len(reading.requests)
      BY <2>1, <1>2
    <3> QED BY <3>1, <3>2
  <2>2. CASE ~(reading.planned < Len(reading.requests))
    <3>1. reading' = [reading EXCEPT !.pc = IF plane.engine = "pread" THEN "pread" ELSE "prepare",
                                     !.planned = reading.planned, !.position = reading.position]
      BY <2>2, <1>1, <1>2 DEF PlanNext, Calls
    <3>2. reading.planned = Len(reading.requests)
      BY <2>2, <1>2
    <3> QED BY <3>1, <3>2
  <2> QED BY <2>1, <2>2
<1>8. /\ reading' \in Calls /\ reading'.pc = pc /\ reading'.requests = reading.requests
      /\ reading'.operations = reading.operations /\ reading'.base = 0 /\ reading'.reaped = 0
      /\ reading'.buffers = reading.buffers /\ reading'.planned = planned
      /\ reading'.position = position
  <2>1. planned \in Nat /\ position \in Nat /\ pc \in {"plan", "pread", "prepare"}
    BY <1>2, <1>7, SMTT(30)
  <2> QED BY <2>1, <1>2, <1>7 DEF Calls
<1>9. ReadTypeOK'
  BY <1>1, <1>8 DEF ReadInv, ReadTypeOK
<1>10. EngineWorks'
  BY <1>1, <1>7, <1>8 DEF ReadInv, EngineWorks, ReadTypeOK
<1>11. RequestsAreSound'
  BY <1>1, <1>8 DEF ReadInv, RequestsAreSound, Aligned, Direct, Valid
<1>12. PlanIsSound'
  <2>1. \A k \in DOMAIN reading.operations : IsOperation(reading.operations[k])'
    <3>1. \A k \in DOMAIN reading.operations : IsOperation(reading.operations[k])
      BY <1>1 DEF ReadInv, PlanIsSound
    <3> QED BY <3>1, <1>1, <1>8, OperationsStay
  <2>2. \A i \in 1..reading.planned : IsPlanned(i, Aligned(reading.requests[i]).required)'
    BY <1>1, <1>6, <1>8 DEF IsPlanned, Aligned, Direct
  <2>3. reading'.base <= Len(reading'.operations)
    BY <1>1, <1>2, <1>8 DEF ReadInv, PlanIsSound
  <2>4. CASE pc = "plan"
    <3>1. planned \in DOMAIN reading.requests /\ planned - 1 = reading.planned /\ position = 0
      BY <2>4, <1>2, <1>7, SMTT(20)
    <3>2. IsPlanned(planned, 0)'
      BY DEF IsPlanned
    <3> QED BY <2>1, <2>2, <2>3, <2>4, <3>1, <3>2, <1>8 DEF PlanIsSound
  <2>5. CASE pc # "plan"
    <3>1. DOMAIN reading.requests = 1..reading.planned
      BY <2>5, <1>2, <1>7
    <3> QED BY <2>1, <2>2, <2>3, <2>5, <3>1, <1>8 DEF PlanIsSound
  <2> QED BY <2>4, <2>5
<1>13. BuffersAreSound'
  <2>1. ASSUME pc = "pread", 0 < Len(reading.operations), ~Direct
        PROVE  0 < reading.operations[1].length
    <3>1. 1 \in DOMAIN reading.operations
      BY <2>1, <1>2 DEF Calls
    <3>2. plane.engine = "pread"
      BY <2>1, <1>7
    <3> QED BY <3>1, <3>2, <2>1 DEF ReadInv, PlanIsSound, IsOperation
  <2>2. Direct' <=> Direct
    BY <1>1 DEF Direct
  <2> QED BY <2>1, <2>2, <1>8 DEF BuffersAreSound, Holds
<1> QED BY <1>1, <1>7, <1>8, <1>9, <1>10, <1>11, <1>12, <1>13, OutsideKeeps DEF ReadInv, InBatch

-----------------------------------------------------------------------------
(* Reads by pread, and the end of a call.                                  *)

LEMMA OperationIsTyped ==
  ASSUME ReadInv, NEW k \in DOMAIN reading.operations, NEW operation,
         operation = reading.operations[k]
  PROVE  /\ operation \in Operation /\ IsOperation(operation)
         /\ operation.request \in Nat /\ operation.position \in Nat /\ operation.offset \in Nat
         /\ operation.length \in Nat /\ operation.minimum \in Nat
<1>1. reading.operations \in Seq(Operation)
  BY DEF ReadInv, ReadTypeOK, Calls
<1>2. k \in 1..Len(reading.operations)
  BY <1>1
<1>3. operation \in Operation
  BY <1>1, <1>2, ElementOfSeq
<1> QED BY <1>3 DEF ReadInv, PlanIsSound, Operation

LEMMA AvailableIsBounded ==
  ASSUME ReadInv, NEW k \in DOMAIN reading.operations, NEW operation,
         operation = reading.operations[k], NEW from \in Nat, from <= operation.length,
         NEW whole, whole = Available(operation, from)
  PROVE  /\ whole \in Nat /\ from + whole <= operation.length
         /\ operation.minimum <= operation.length
         /\ from = 0 => operation.minimum <= whole
         /\ ~Direct /\ from < operation.length => whole > 0
<1>1. /\ operation \in Operation /\ IsOperation(operation)
      /\ operation.request \in Nat /\ operation.position \in Nat /\ operation.offset \in Nat
      /\ operation.length \in Nat /\ operation.minimum \in Nat
  BY OperationIsTyped
<1>2. PICK read : read = Aligned(reading.requests[operation.request])
  OBVIOUS
<1>3. /\ read \in [offset : Nat, length : Nat, required : Nat]
      /\ operation.offset = read.offset + operation.position
      /\ operation.position + operation.length <= read.length
      /\ read.offset + read.required <= FileLength
      /\ ~Direct => read.length = read.required
      /\ operation.minimum = Minimum(operation.position, operation.length, read.required)
  BY <1>1, <1>2, OperationReads DEF ReadInv
<1>4. read.offset \in Nat /\ read.length \in Nat /\ read.required \in Nat
  BY <1>3
<1>5. FileLength \in Nat
  BY ReadConstants DEF ReadAssumption
<1>6. /\ operation.minimum <= operation.length
      /\ operation.minimum # 0 => operation.position + operation.minimum <= read.required
  BY <1>1, <1>3, <1>4, MinimumIsBounded
<1>7. operation.minimum # 0 => operation.offset + operation.minimum <= FileLength
  BY <1>1, <1>3, <1>4, <1>5, <1>6
<1>8. ~Direct => operation.offset + operation.length <= FileLength
  BY <1>1, <1>3, <1>4, <1>5
<1>9. whole = IF operation.offset + from < Least(FileLength, operation.offset + operation.length)
              THEN Least(FileLength, operation.offset + operation.length) - operation.offset - from
              ELSE 0
  BY DEF Available
<1>10. whole \in Nat /\ from + whole <= operation.length
  BY <1>1, <1>5, <1>9 DEF Least
<1>11. from = 0 => operation.minimum <= whole
  BY <1>1, <1>5, <1>6, <1>7, <1>9 DEF Least
<1>12. ~Direct /\ from < operation.length => whole > 0
  BY <1>1, <1>5, <1>8, <1>9 DEF Least
<1> QED BY <1>6, <1>10, <1>11, <1>12

\* The plan stands while its operations are worked on.
LEMMA PlanStays ==
  ASSUME ReadInv, reading.pc \notin {"idle", "plan"}, reading'.pc \notin {"idle", "plan"},
         reading'.requests = reading.requests, reading'.operations = reading.operations,
         DOMAIN reading'.buffers = DOMAIN reading.buffers,
         \A i \in DOMAIN reading.buffers : Len(reading'.buffers[i]) = Len(reading.buffers[i]),
         plane' = plane, reading'.base <= Len(reading.operations)
  PROVE  RequestsAreSound' /\ PlanIsSound'
<1>1. RequestsAreSound'
  BY DEF ReadInv, RequestsAreSound, Aligned, Direct, Valid
<1>2. PlanIsSound'
  <2>1. \A k \in DOMAIN reading.operations : IsOperation(reading.operations[k])'
    <3>1. \A k \in DOMAIN reading.operations : IsOperation(reading.operations[k])
      BY DEF ReadInv, PlanIsSound
    <3> QED BY <3>1, OperationsStay
  <2>2. \A i \in DOMAIN reading.requests : IsPlanned(i, Aligned(reading.requests[i]).required)'
    BY DEF ReadInv, PlanIsSound, IsPlanned, Aligned, Direct
  <2> QED BY <2>1, <2>2 DEF PlanIsSound
<1> QED BY <1>1, <1>2

LEMMA BytesAreThere ==
  ASSUME ReadInv, reading.pc \notin {"idle", "plan"}, reading.base = Len(reading.operations),
         NEW i \in DOMAIN reading.requests, NEW read, read = Aligned(reading.requests[i]),
         NEW byte \in Nat, byte < read.required
  PROVE  reading.buffers[i][byte + 1] = read.offset + byte
<1>1. /\ reading.requests \in Seq([offset : Nat, length : Nat])
      /\ reading.operations \in Seq(Operation)
  BY DEF ReadInv, ReadTypeOK, Calls
<1>2. read.required \in Nat /\ read.offset \in Nat
  <2>1. i \in 1..Len(reading.requests)
    BY <1>1
  <2>2. reading.requests[i] \in [offset : Nat, length : Nat]
    BY <2>1, <1>1, ElementOfSeq
  <2> QED BY <2>2, AlignedIsSound
<1>3. PICK k \in DOMAIN reading.operations :
        /\ reading.operations[k].request = i /\ reading.operations[k].position <= byte
        /\ byte < reading.operations[k].position + reading.operations[k].minimum
  <2>1. IsPlanned(i, read.required)
    BY DEF ReadInv, PlanIsSound
  <2>2. byte \in 0..(read.required - 1)
    BY <1>2
  <2> QED BY <2>1, <2>2 DEF IsPlanned
<1>4. PICK operation : operation = reading.operations[k]
  OBVIOUS
<1>5. /\ operation.position \in Nat /\ operation.minimum \in Nat
      /\ operation.offset = read.offset + operation.position
  BY <1>3, <1>4, OperationIsTyped DEF IsOperation
<1>6. Holds(reading.buffers, operation, operation.minimum)
  <2>1. k \in 1..reading.base
    BY <1>1
  <2> QED BY <2>1, <1>4 DEF ReadInv, BuffersAreSound, IsDone
<1>7. PICK rest : rest = byte - operation.position
  OBVIOUS
<1>8. rest \in 0..(operation.minimum - 1)
  BY <1>3, <1>4, <1>5, <1>7, SMTT(20)
<1>9. reading.buffers[i][operation.position + rest + 1] = operation.offset + rest
  BY <1>3, <1>4, <1>6, <1>8 DEF Holds
<1>10. /\ operation.position + rest + 1 = byte + 1
       /\ operation.offset + rest = read.offset + byte
  BY <1>2, <1>5, <1>7
<1> QED BY <1>9, <1>10

LEMMA FinishKeeps == ASSUME ReadInv, Finish PROVE ReadInv'
<1>1. /\ reading.pc \in {"pread", "prepare"} /\ reading.base = Len(reading.operations)
      /\ Answered("ok", Values) /\ plane' = plane /\ ring' = ring
      /\ counters' = [counters EXCEPT !.completions = @ + Len(reading.requests)]
  BY DEF Finish
<1>2. reading' = NotReading
  BY <1>1 DEF Answered
<1>3. ring' = EmptyRing
  BY <1>1 DEF ReadInv, RingIsSound, InBatch
<1>4. reading.requests \in Seq([offset : Nat, length : Nat]) /\ reading.buffers \in Seq(Seq(Int))
  BY DEF ReadInv, ReadTypeOK, Calls
<1>5. /\ counters' \in [submitted : Nat, completed : Nat, completions : Nat, reads : Nat, faults : Nat]
      /\ counters'.completed = counters.completed /\ counters'.submitted = counters.submitted
  <2>1. Len(reading.requests) \in Nat
    BY <1>4
  <2> QED BY <2>1, <1>1, SMTT(20) DEF ReadInv, ReadTypeOK
<1>6. ReadTypeOK'
  BY <1>1, <1>2, <1>3, <1>5, NotReadingIsTyped, EmptyRingIsTyped DEF ReadInv, ReadTypeOK
<1>7. EngineWorks'
  <2>1. counters'.faults = counters.faults
    BY <1>1 DEF ReadInv, ReadTypeOK
  <2> QED BY <2>1, <1>1, <1>2 DEF ReadInv, EngineWorks, NotReading
<1>8. PICK values : values = Values
  OBVIOUS
<1>9. answer' = [error |-> "ok", values |-> values, requests |-> reading.requests]
  BY <1>1, <1>8 DEF Answered
<1>10. ASSUME NEW i \in DOMAIN reading.requests
       PROVE  values[i] = [k \in 1..reading.requests[i].length |-> reading.requests[i].offset + k - 1]
  <2>1. PICK x : x = reading.requests[i]
    OBVIOUS
  <2>2. PICK read : read = Aligned(x)
    OBVIOUS
  <2>3. x \in [offset : Nat, length : Nat]
    <3>1. i \in 1..Len(reading.requests)
      BY <1>4
    <3> QED BY <3>1, <2>1, <1>4, ElementOfSeq
  <2>4. /\ read.offset \in Nat /\ read.required \in Nat /\ read.offset <= x.offset
        /\ read.offset + read.required = x.offset + x.length
        /\ x.offset \in Nat /\ x.length \in Nat
    BY <2>2, <2>3, AlignedIsSound
  <2>5. PICK prefix : prefix = x.offset - read.offset
    OBVIOUS
  <2>6. PICK buffer : buffer = reading.buffers[i]
    OBVIOUS
  <2>7. values[i] = SubSeq(buffer, prefix + 1, prefix + x.length)
    BY <1>8, <2>1, <2>2, <2>5, <2>6 DEF Values
  <2>8. \A k \in 1..x.length : buffer[prefix + k] = x.offset + k - 1
    <3> TAKE k \in 1..x.length
    <3>1. prefix + k - 1 \in Nat /\ prefix + k - 1 < read.required
      BY <2>4, <2>5
    <3>2. buffer[prefix + k - 1 + 1] = read.offset + (prefix + k - 1)
      BY <3>1, <1>1, <2>1, <2>2, <2>6, BytesAreThere
    <3> QED BY <3>2, <2>4, <2>5
  <2>9. SubSeq(buffer, prefix + 1, prefix + x.length) = [k \in 1..x.length |-> buffer[prefix + k]]
    <3>1. buffer \in Seq(Int)
      <4>1. i \in 1..Len(reading.buffers)
        BY <1>4 DEF ReadInv, RequestsAreSound
      <4> QED BY <4>1, <1>4, <2>6, ElementOfSeq
    <3>2. Len(buffer) = read.length /\ read.length \in Nat /\ read.required <= read.length
      BY <2>1, <2>2, <2>3, <2>6, AlignedIsSound DEF ReadInv, RequestsAreSound
    <3>3. prefix \in Nat /\ prefix + x.length <= Len(buffer) /\ x.length > 0
      <4>1. x.length > 0
        BY <2>1 DEF ReadInv, RequestsAreSound, Valid
      <4>2. prefix \in Nat /\ prefix + x.length = read.required
        <5>1. PICK start, end, first, length :
                start = read.offset /\ end = read.required /\ first = x.offset /\ length = x.length
          OBVIOUS
        <5>2. /\ start \in Nat /\ end \in Nat /\ first \in Nat /\ length \in Nat
              /\ start <= first /\ start + end = first + length /\ prefix = first - start
          BY <5>1, <2>4, <2>5
        <5>3. prefix \in Nat /\ prefix + length = end
          BY <5>2
        <5> QED BY <5>1, <5>3
      <4>3. prefix + x.length <= Len(buffer)
        BY <4>2, <3>2
      <4> QED BY <4>1, <4>2, <4>3
    <3> QED BY <3>1, <3>2, <3>3, <2>4
  <2> QED BY <2>1, <2>7, <2>8, <2>9
<1>11. DOMAIN values = DOMAIN reading.requests
  BY <1>8 DEF Values
<1>12. AnswersAreRight'
  <2>1. answer'.error = "ok" /\ answer'.values = values /\ answer'.requests = reading.requests
    BY <1>9
  <2>2. \A i \in DOMAIN reading.requests : Valid(reading.requests[i])
    BY DEF ReadInv, RequestsAreSound
  <2> QED BY <2>1, <2>2, <1>10, <1>11 DEF AnswersAreRight, Valid
<1>13. BytesAreOwed'
  BY <1>3, <1>5, <1>6, EmptyRingOwesNothing, CompletedWasSubmitted DEF ReadInv
<1> QED BY <1>2, <1>3, <1>6, <1>7, <1>12, <1>13, Idling DEF ReadInv

LEMMA PreadKeeps == ASSUME ReadInv, Pread PROVE ReadInv'
<1>1. /\ reading.pc = "pread" /\ reading.base < Len(reading.operations)
      /\ UNCHANGED <<plane, ring>>
  BY DEF Pread
<1>2. /\ reading \in Calls /\ reading.base \in Nat /\ reading.reaped \in Nat
      /\ reading.operations \in Seq(Operation)
      /\ counters \in [submitted : Nat, completed : Nat, completions : Nat, reads : Nat, faults : Nat]
  BY DEF ReadInv, ReadTypeOK, Calls
<1>3. PICK k : k = reading.base + 1
  OBVIOUS
<1>4. k \in DOMAIN reading.operations /\ k \in Nat
  BY <1>1, <1>2, <1>3
<1>5. PICK operation : operation = reading.operations[k]
  OBVIOUS
<1>6. /\ operation \in Operation /\ IsOperation(operation)
      /\ operation.length \in Nat /\ operation.minimum \in Nat
  BY <1>4, <1>5, OperationIsTyped
<1>7. PICK from : from = reading.reaped
  OBVIOUS
<1>8. /\ from \in Nat /\ from <= operation.length /\ Holds(reading.buffers, operation, from)
      /\ Direct => from = 0
      /\ ~Direct => from < operation.length
  <2>1. /\ Direct => reading.reaped = 0
        /\ ~Direct => reading.reaped < reading.operations[reading.base + 1].length
        /\ Holds(reading.buffers, reading.operations[reading.base + 1], reading.reaped)
    BY <1>1 DEF ReadInv, BuffersAreSound
  <2> QED BY <2>1, <1>2, <1>3, <1>5, <1>6, <1>7, SMTT(20)
<1>9. PICK whole : whole = Available(operation, from)
  OBVIOUS
<1>10. /\ whole \in Nat /\ from + whole <= operation.length
       /\ operation.minimum <= operation.length
       /\ Direct => operation.minimum <= whole
       /\ ~Direct => whole > 0
  BY <1>4, <1>5, <1>8, <1>9, AvailableIsBounded
<1>11. ring = EmptyRing /\ ring' = EmptyRing
  BY <1>1 DEF ReadInv, RingIsSound, InBatch
<1>12. ASSUME NEW bytes \in 0..whole, NEW faults \in {0, 1},
              Counted(operation.length - from, bytes, faults)
       PROVE  /\ counters' \in [submitted : Nat, completed : Nat, completions : Nat,
                                reads : Nat, faults : Nat]
              /\ counters'.completed <= counters'.submitted
              /\ counters'.faults = counters.faults + faults /\ counters.faults \in Nat
  <2>1. /\ counters.submitted \in Nat /\ counters.completed \in Nat /\ counters.faults \in Nat
        /\ counters.completed <= counters.submitted
    BY <1>2, CompletedWasSubmitted DEF ReadInv
  <2>2. PICK submitted, completed : submitted = counters.submitted + operation.length - from
                                 /\ completed = counters.completed + bytes
    OBVIOUS
  <2>3. submitted \in Nat /\ completed \in Nat /\ completed <= submitted
    BY <2>1, <2>2, <1>6, <1>8, <1>10
  <2>4. counters' = [counters EXCEPT !.submitted = submitted, !.completed = completed,
                                     !.faults = counters.faults + faults]
    BY <1>12, <2>2, <1>2 DEF Counted
  <2>5. counters.faults + faults \in Nat
    BY <2>1
  <2> QED BY <2>1, <2>3, <2>4, <2>5, <1>2
<1>13. ASSUME NEW error \in {"truncated_file", "io_error"}, Answered(error, <<>>),
              counters' \in [submitted : Nat, completed : Nat, completions : Nat,
                             reads : Nat, faults : Nat],
              counters'.completed <= counters'.submitted, counters'.faults > 0
       PROVE  ReadInv'
  BY <1>1, <1>11, <1>13, CallFails
<1>14. CASE Fault /\ Counted(operation.length - from, 0, 1) /\ Answered("io_error", <<>>)
  <2>1. 0 \in 0..whole
    BY <1>10
  <2>2. /\ counters' \in [submitted : Nat, completed : Nat, completions : Nat,
                           reads : Nat, faults : Nat]
        /\ counters'.completed <= counters'.submitted
        /\ counters'.faults = counters.faults + 1 /\ counters.faults \in Nat
    BY <2>1, <1>12, <1>14
  <2>3. counters'.faults > 0
    BY <2>2
  <2> QED BY <2>2, <2>3, <1>13, <1>14
<1>16. ASSUME NEW bytes \in 0..whole, NEW faults \in {0, 1},
              IF Direct THEN bytes >= operation.minimum ELSE bytes > 0,
              Counted(operation.length - from, bytes, faults),
              answer' = answer, NEW after, after = Landed(operation, from, bytes),
              reading' = IF Direct \/ from + bytes = operation.length
                         THEN [reading EXCEPT !.buffers = after, !.base = @ + 1, !.reaped = 0]
                         ELSE [reading EXCEPT !.buffers = after, !.reaped = @ + bytes]
       PROVE  ReadInv'
  <2>1. from + bytes <= operation.length /\ bytes \in Nat
    BY <1>6, <1>8, <1>10
  <2>2. /\ after \in Seq(Seq(Int)) /\ DOMAIN after = DOMAIN reading.buffers
        /\ \A i \in DOMAIN after : Len(after[i]) = Len(reading.buffers[i])
        /\ \A other \in Operation, n \in Int :
             IsOperation(other) /\ n <= other.length /\ Holds(reading.buffers, other, n) =>
               Holds(after, other, n)
        /\ Holds(after, operation, from + bytes)
    BY <2>1, <1>6, <1>8, <1>16, LandedIsSound DEF ReadInv
  <2>3. /\ counters' \in [submitted : Nat, completed : Nat, completions : Nat,
                          reads : Nat, faults : Nat]
        /\ counters'.completed <= counters'.submitted
        /\ counters.faults <= counters'.faults /\ counters.faults \in Nat
        /\ counters.faults > 0 => counters'.faults > 0
    <3>1. /\ counters' \in [submitted : Nat, completed : Nat, completions : Nat,
                             reads : Nat, faults : Nat]
          /\ counters'.completed <= counters'.submitted
          /\ counters'.faults = counters.faults + faults /\ counters.faults \in Nat
      BY <1>12, <1>16
    <3> QED BY <3>1
  <2>4. PICK base, reaped :
          /\ reading' = [reading EXCEPT !.buffers = after, !.base = base, !.reaped = reaped]
          /\ \/ /\ base = k /\ reaped = 0
                /\ Direct \/ from + bytes = operation.length
             \/ /\ base = reading.base /\ reaped = from + bytes
                /\ ~Direct /\ from + bytes # operation.length
    <3>1. CASE Direct \/ from + bytes = operation.length
      <4>1. reading' = [reading EXCEPT !.buffers = after, !.base = k, !.reaped = 0]
        BY <3>1, <1>2, <1>3, <1>16 DEF Calls
      <4> QED BY <4>1, <3>1
    <3>2. CASE ~(Direct \/ from + bytes = operation.length)
      <4>1. reading' = [reading EXCEPT !.buffers = after, !.base = reading.base,
                                       !.reaped = from + bytes]
        BY <3>2, <1>2, <1>7, <1>16 DEF Calls
      <4> QED BY <4>1, <3>2
    <3> QED BY <3>1, <3>2
  <2>5. base \in Nat /\ reaped \in Nat /\ base <= Len(reading.operations)
    <3>1. Len(reading.operations) \in Nat
      BY <1>2
    <3>2. from + bytes \in Nat /\ k <= Len(reading.operations)
      BY <3>1, <2>1, <1>1, <1>2, <1>3, <1>8
    <3>3. reaped = 0 \/ reaped = from + bytes
      BY <2>4
    <3>4. base = k \/ base = reading.base
      BY <2>4
    <3>5. base \in Nat /\ base <= Len(reading.operations)
      BY <3>1, <3>2, <3>4, <1>1, <1>2, <1>4
    <3> QED BY <3>2, <3>3, <3>5
  <2>6. /\ reading' \in Calls /\ reading'.pc = "pread"
        /\ reading'.requests = reading.requests /\ reading'.operations = reading.operations
        /\ reading'.buffers = after /\ reading'.base = base /\ reading'.reaped = reaped
    BY <2>2, <2>4, <2>5, <1>1, <1>2 DEF Calls
  <2>7. ReadTypeOK'
    BY <1>1, <2>3, <2>6 DEF ReadInv, ReadTypeOK
  <2>8. EngineWorks'
    BY <1>1, <2>3, <2>6 DEF ReadInv, EngineWorks
  <2>9. RequestsAreSound' /\ PlanIsSound'
    BY <1>1, <2>2, <2>5, <2>6, PlanStays
  <2>10. ASSUME NEW j \in 1..base
         PROVE  Holds(after, reading.operations[j], reading.operations[j].minimum)
    <3>1. j \in DOMAIN reading.operations
      BY <2>5, <1>2
    <3>2. PICK other : other = reading.operations[j]
      OBVIOUS
    <3>3. /\ other \in Operation /\ IsOperation(other) /\ other.minimum \in Nat
          /\ other.minimum <= other.length
      <4>1. other.length \in Nat /\ 0 \in Nat /\ 0 <= other.length
        BY <3>1, <3>2, OperationIsTyped
      <4> QED BY <4>1, <3>1, <3>2, OperationIsTyped, AvailableIsBounded
    <3>4. CASE j \in 1..reading.base
      <4>1. Holds(reading.buffers, other, other.minimum)
        BY <3>2, <3>4 DEF ReadInv, BuffersAreSound, IsDone
      <4>2. Holds(after, other, other.minimum)
        BY <4>1, <3>3, <2>2
      <4> QED BY <4>2, <3>2
    <3>5. CASE j \notin 1..reading.base
      <4>1. j = k /\ (Direct \/ from + bytes = operation.length)
        BY <3>5, <2>4, <1>2, <1>3
      <4>2. other.minimum <= from + bytes
        <5>1. other = operation
          BY <4>1, <3>2, <1>5
        <5>2. CASE Direct
          BY <5>1, <5>2, <1>8, <1>16, <2>1
        <5>3. CASE ~Direct
          BY <5>1, <5>3, <4>1, <1>10
        <5> QED BY <5>2, <5>3
      <4>3. Holds(after, other, from + bytes)
        BY <4>1, <3>2, <1>5, <2>2
      <4>4. \A byte \in 0..(other.minimum - 1) : byte \in 0..(from + bytes - 1)
        BY <4>2, <3>3, <2>1, <1>8
      <4>5. Holds(after, other, other.minimum)
        BY <4>3, <4>4, <3>3, <2>1, <1>8 DEF Holds
      <4> QED BY <4>5, <3>2
    <3> QED BY <3>4, <3>5
  <2>11. BuffersAreSound'
    <3>1. \A j \in 1..reading'.base : IsDone(j)'
      BY <2>6, <2>10 DEF IsDone
    <3>2. Direct' <=> Direct
      BY <1>1 DEF Direct
    <3>3. Direct \/ base = Len(reading.operations) => reaped = 0
      BY <2>4, <1>1
    <3>4. ASSUME base < Len(reading.operations)
          PROVE  /\ ~Direct => reaped < reading.operations[base + 1].length
                 /\ Holds(after, reading.operations[base + 1], reaped)
      <4>1. CASE reaped = 0
        <5>1. Holds(after, reading.operations[base + 1], 0)
          BY DEF Holds
        <5>2. ASSUME ~Direct PROVE 0 < reading.operations[base + 1].length
          <6>1. base + 1 \in DOMAIN reading.operations
            BY <3>4, <2>5, <1>2
          <6>2. plane.engine = "pread"
            BY <1>1 DEF ReadInv, EngineWorks
          <6> QED BY <6>1, <6>2, <5>2 DEF ReadInv, PlanIsSound, IsOperation
        <5> QED BY <5>1, <5>2, <4>1
      <4>2. CASE reaped # 0
        <5>1. base + 1 = k /\ reaped = from + bytes /\ from + bytes # operation.length
          BY <4>2, <2>4, <1>3
        <5>2. reaped < operation.length
          BY <5>1, <2>1, <1>6, <1>8
        <5> QED BY <5>1, <5>2, <2>2, <1>5
      <4> QED BY <4>1, <4>2
    <3> QED BY <3>1, <3>2, <3>3, <3>4, <2>6 DEF BuffersAreSound
  <2>12. RingIsSound'
    BY <1>11, <2>6 DEF RingIsSound, InBatch
  <2>13. BytesAreOwed'
    BY <1>11, <2>3, <2>7, EmptyRingOwesNothing
  <2>14. AnswersAreRight'
    BY <1>16, <2>3, <2>7, AnswerStays DEF ReadInv
  <2> QED BY <2>7, <2>8, <2>9, <2>11, <2>12, <2>13, <2>14 DEF ReadInv
<1>17. ASSUME NEW bytes \in 0..whole, Brings(operation, from, whole, bytes)
       PROVE  ReadInv'
  <2> DEFINE short == IF Direct THEN bytes < whole ELSE bytes = 0 /\ whole > 0
             enough == IF Direct THEN bytes >= operation.minimum ELSE bytes > 0
  <2>1. PICK faults \in {0, 1} : faults = IF short THEN 1 ELSE 0
    OBVIOUS
  <2>2. PICK after : after = Landed(operation, from, bytes)
    OBVIOUS
  <2>3. Counted(operation.length - from, bytes, faults)
    BY <1>17, <2>1 DEF Brings
  <2>4. CASE enough
    <3>1. /\ answer' = answer
          /\ reading' = IF Direct \/ from + bytes = operation.length
                        THEN [reading EXCEPT !.buffers = after, !.base = @ + 1, !.reaped = 0]
                        ELSE [reading EXCEPT !.buffers = after, !.reaped = @ + bytes]
      BY <1>17, <2>2, <2>4 DEF Brings
    <3> QED BY <3>1, <2>2, <2>3, <2>4, <1>16
  <2>5. CASE ~enough
    <3>1. Answered("truncated_file", <<>>)
      BY <1>17, <2>5 DEF Brings
    <3>2. short
      BY <2>5, <1>10
    <3>3. faults = 1
      BY <2>1, <3>2
    <3> QED BY <3>1, <3>3, <2>3, <1>12, <1>13
  <2> QED BY <2>4, <2>5
<1>18. \/ Fault /\ Counted(operation.length - from, 0, 1) /\ Answered("io_error", <<>>)
       \/ \E bytes \in 0..whole : Brings(operation, from, whole, bytes)
  BY <1>3, <1>5, <1>7, <1>9 DEF Pread
<1> QED BY <1>14, <1>17, <1>18

-----------------------------------------------------------------------------
(* The ring.                                                               *)

LEMMA OwedGrows ==
  ASSUME NEW entries, NEW operations, IsFiniteSet(OwedBy(entries, operations)),
         NEW entry, entry \notin entries,
         NEW length \in Nat, length = operations[entry.index].length
  PROVE  /\ IsFiniteSet(OwedBy(entries \cup {entry}, operations))
         /\ Cardinality(OwedBy(entries \cup {entry}, operations)) =
              Cardinality(OwedBy(entries, operations)) + length
<1> DEFINE new == {entry} \X (1..length)
           old == OwedBy(entries, operations)
<1>1. OwedBy(entries \cup {entry}, operations) = old \cup new
  BY DEF OwedBy
<1>2. old \cap new = {}
  BY DEF OwedBy
<1>3. IsFiniteSet({entry}) /\ Cardinality({entry}) = 1
  BY FS_Singleton
<1>4. IsFiniteSet(1..length) /\ Cardinality(1..length) = length
  <2>1. 1 \in Int /\ length \in Int
    OBVIOUS
  <2>2. IsFiniteSet(1..length) /\ Cardinality(1..length) = IF 1 > length THEN 0 ELSE length - 1 + 1
    BY <2>1, FS_Interval, Zenon
  <2> QED BY <2>2
<1>5. IsFiniteSet(new) /\ Cardinality(new) = length
  <2>1. IsFiniteSet(new) /\ Cardinality(new) = Cardinality({entry}) * Cardinality(1..length)
    BY <1>3, <1>4, FS_Product
  <2> QED BY <2>1, <1>3, <1>4
<1>6. Cardinality(old) \in Nat /\ Cardinality({}) = 0
  BY FS_CardinalityType, FS_EmptySet
<1> HIDE DEF new, old
<1>7. /\ IsFiniteSet(old \cup new)
      /\ Cardinality(old \cup new) = Cardinality(old) + Cardinality(new) - Cardinality(old \cap new)
  <2>1. IsFiniteSet(old)
    BY DEF old
  <2> QED BY <2>1, <1>5, FS_Union
<1>8. Cardinality(old \cup new) = Cardinality(old) + length
  <2>1. Cardinality(old \cup new) = Cardinality(old) + length - 0
    BY <1>2, <1>5, <1>6, <1>7
  <2> QED BY <2>1, <1>6
<1> QED BY <1>1, <1>7, <1>8 DEF old

LEMMA OwedShrinks ==
  ASSUME NEW entries, NEW operations, IsFiniteSet(OwedBy(entries, operations)),
         NEW entry \in entries, NEW length \in Nat, length = operations[entry.index].length
  PROVE  /\ IsFiniteSet(OwedBy(entries \ {entry}, operations))
         /\ Cardinality(OwedBy(entries, operations)) =
              Cardinality(OwedBy(entries \ {entry}, operations)) + length
<1>1. OwedBy(entries \ {entry}, operations) \subseteq OwedBy(entries, operations)
  BY DEF OwedBy
<1>2. IsFiniteSet(OwedBy(entries \ {entry}, operations))
  BY <1>1, FS_Subset
<1>3. PICK rest : rest = entries \ {entry}
  OBVIOUS
<1>4. entry \notin rest /\ rest \cup {entry} = entries
  BY <1>3
<1> QED BY <1>2, <1>3, <1>4, OwedGrows

LEMMA CountIsBounded ==
  ASSUME ReadInv
  PROVE  Count \in Nat /\ Count <= QueueDepth /\ reading.base + Count <= Len(reading.operations)
<1>1. reading.base \in Nat /\ reading.operations \in Seq(Operation)
  BY DEF ReadInv, ReadTypeOK, Calls
<1>2. Len(reading.operations) \in Nat /\ reading.base <= Len(reading.operations)
  BY <1>1 DEF ReadInv, PlanIsSound
<1>3. QueueDepth \in Nat
  BY ReadConstants DEF ReadAssumption
<1> QED BY <1>1, <1>2, <1>3 DEF Count, Least

\* A step inside a batch that changes no more of the call than its buffers.
LEMMA BatchGoesOn ==
  ASSUME ReadInv, InBatch, InBatch', ReadTypeOK', UNCHANGED <<plane, answer>>,
         reading'.requests = reading.requests, reading'.operations = reading.operations,
         reading'.base = reading.base, DOMAIN reading'.buffers = DOMAIN reading.buffers,
         \A i \in DOMAIN reading.buffers : Len(reading'.buffers[i]) = Len(reading.buffers[i]),
         \A k \in 1..reading.base : IsDone(k)', counters.faults <= counters'.faults
  PROVE  EngineWorks' /\ RequestsAreSound' /\ PlanIsSound' /\ BuffersAreSound' /\ AnswersAreRight'
<1>1. /\ reading.pc \in {"submit", "reap"} /\ reading'.pc \in {"submit", "reap"}
      /\ plane' = plane
  BY DEF InBatch
<1>2. EngineWorks'
  BY <1>1 DEF ReadInv, EngineWorks
<1>3. reading.base <= Len(reading.operations)
  BY DEF ReadInv, PlanIsSound
<1>4. RequestsAreSound' /\ PlanIsSound'
  BY <1>1, <1>3, PlanStays
<1>5. BuffersAreSound'
  BY <1>1 DEF BuffersAreSound
<1>6. AnswersAreRight'
  BY AnswerStays DEF ReadInv
<1> QED BY <1>2, <1>4, <1>5, <1>6

LEMMA PrepareKeeps == ASSUME ReadInv, Prepare PROVE ReadInv'
<1>1. reading.pc = "prepare" /\ ring = EmptyRing /\ counters' = counters
  BY DEF Prepare, ReadInv, RingIsSound, InBatch
<1>2. reading \in Calls /\ reading.base \in Nat /\ reading.operations \in Seq(Operation)
      /\ counters.reads \in Nat
  BY DEF ReadInv, ReadTypeOK, Calls
<1>3. PICK count : count = Count
  OBVIOUS
<1>4. count \in Nat /\ count <= QueueDepth /\ QueueDepth \in Nat
  BY <1>3, CountIsBounded, ReadConstants DEF ReadAssumption
<1>5. PICK queue : queue = [k \in 1..count |-> [index |-> reading.base + k, read |-> counters.reads]]
  OBVIOUS
<1>6. queue \in Seq(Entry) /\ Len(queue) = count
  <2>1. \A k \in 1..count : [index |-> reading.base + k, read |-> counters.reads] \in Entry
    BY <1>2, <1>4 DEF Entry
  <2>2. queue \in [1..count -> Entry]
    BY <2>1, <1>5
  <2> QED BY <2>2, <1>4, FunctionIsSeq
<1>7. /\ ring.queue = <<>> /\ ring.inFlight = {} /\ ring.completed = <<>>
      /\ Len(ring.queue) + count <= QueueDepth
  BY <1>1, <1>4 DEF EmptyRing
<1>8. /\ ring' = [ring EXCEPT !.queue = queue]
      /\ reading' = [reading EXCEPT !.pc = "submit", !.submitted = 0, !.reaped = 0,
                                    !.failed = FALSE, !.error = "ok"]
      /\ UNCHANGED <<plane, answer>>
  <2>1. ~(Len(ring.queue) + Count > QueueDepth)
    BY <1>3, <1>4, <1>7
  <2>2. ring' = [ring EXCEPT !.queue = <<>> \o queue]
    BY <2>1, <1>1, <1>3, <1>5, <1>7 DEF Prepare, EmptyRing
  <2>3. <<>> \o queue = queue
    BY <1>6
  <2> QED BY <2>1, <2>2, <2>3 DEF Prepare
<1>9. ring'.queue = queue /\ ring'.inFlight = {} /\ ring'.completed = <<>> /\ ring' \in Rings
  <2>1. ring \in Rings
    BY DEF ReadInv, ReadTypeOK
  <2> QED BY <2>1, <1>6, <1>7, <1>8 DEF Rings
<1>10. /\ reading' \in Calls /\ reading'.pc = "submit" /\ reading'.requests = reading.requests
       /\ reading'.operations = reading.operations /\ reading'.base = reading.base
       /\ reading'.buffers = reading.buffers /\ reading'.submitted = 0 /\ reading'.reaped = 0
       /\ reading'.failed = FALSE /\ reading'.error = "ok"
  BY <1>2, <1>8 DEF Calls
<1>11. ReadTypeOK'
  BY <1>1, <1>8, <1>9, <1>10 DEF ReadInv, ReadTypeOK
<1>12. EngineWorks'
  BY <1>1, <1>8, <1>10 DEF ReadInv, EngineWorks
<1>13. RequestsAreSound' /\ PlanIsSound'
  <2>1. reading.base <= Len(reading.operations)
    BY DEF ReadInv, PlanIsSound
  <2> QED BY <2>1, <1>1, <1>8, <1>10, PlanStays
<1>14. BuffersAreSound'
  BY <1>10 DEF ReadInv, BuffersAreSound, IsDone
<1>15. AnswersAreRight'
  <2>1. counters.faults <= counters'.faults
    BY <1>1 DEF ReadInv, ReadTypeOK
  <2> QED BY <2>1, <1>8, <1>11, AnswerStays DEF ReadInv
<1>16. BytesAreOwed'
  BY <1>1, <1>9, <1>11, NothingOwed, CompletedWasSubmitted DEF ReadInv
<1>17. RingIsSound'
  <2>1. Unreaped' = {}
    BY <1>9 DEF Unreaped
  <2>2. IsFiniteSet({}) /\ Cardinality({}) = 0
    BY FS_EmptySet
  <2>3. Count' = count
    BY <1>3, <1>10 DEF Count
  <2>4. \A k \in 1..count : queue[k] = [index |-> reading.base + 0 + k, read |-> counters.reads]
    BY <1>2, <1>5
  <2>5. DOMAIN queue = 1..count /\ 0 + Len(queue) = count
    BY <1>4, <1>5, <1>6
  <2>6. (reading.base + 1)..(reading.base + 0) = {}
    BY <1>2
  <2>7. 0 + 0 = 0
    OBVIOUS
  <2> QED BY <2>1, <2>2, <2>3, <2>4, <2>5, <2>6, <2>7, <1>1, <1>9, <1>10 DEF RingIsSound, InBatch
<1> QED BY <1>11, <1>12, <1>13, <1>14, <1>15, <1>16, <1>17 DEF ReadInv

LEMMA SubmitEntryKeeps == ASSUME ReadInv, SubmitEntry PROVE ReadInv'
<1>1. /\ reading.pc = "submit" /\ ring.queue # <<>> /\ UNCHANGED <<plane, answer>>
      /\ ring' = [ring EXCEPT !.queue = Tail(@), !.inFlight = @ \cup {Head(ring.queue)}]
  BY DEF SubmitEntry
<1>2. /\ reading \in Calls /\ reading.base \in Nat /\ reading.submitted \in Nat
      /\ reading.reaped \in Nat /\ reading.operations \in Seq(Operation)
      /\ ring \in Rings /\ ring.queue \in Seq(Entry) /\ ring.inFlight \in SUBSET Entry
      /\ ring.completed \in Seq([entry : Entry, result : Int])
      /\ counters \in [submitted : Nat, completed : Nat, completions : Nat, reads : Nat, faults : Nat]
  BY DEF ReadInv, ReadTypeOK, Calls, Rings
<1>0. reading.base \in Nat /\ reading.submitted \in Nat /\ reading.reaped \in Nat
  BY <1>2
<1>3. PICK next : next = reading.base + reading.submitted + 1
  OBVIOUS
<1>4. PICK entry : entry = [index |-> next, read |-> counters.reads]
  OBVIOUS
<1>5. /\ reading.submitted + Len(ring.queue) = Count
      /\ \A k \in DOMAIN ring.queue :
           ring.queue[k] = [index |-> reading.base + reading.submitted + k, read |-> counters.reads]
      /\ \A other \in Unreaped : IsOfBatch(other)
      /\ \A m \in DOMAIN ring.completed : CompletionIsSound(m)
      /\ \A m, n \in DOMAIN ring.completed :
           m # n => ring.completed[m].entry # ring.completed[n].entry
      /\ IsFiniteSet(Unreaped)
      /\ Cardinality(Unreaped) + reading.reaped = reading.submitted
      /\ reading.error = "ok" =>
           \A k \in (reading.base + 1)..(reading.base + reading.submitted) :
             IsDone(k) \/ \E other \in Unreaped : other.index = k
      /\ reading.failed \/ reading.error # "ok" => counters.faults > 0
  BY <1>1 DEF ReadInv, RingIsSound, InBatch
<1>6. /\ Len(ring.queue) \in Nat /\ Len(ring.queue) > 0 /\ 1 \in DOMAIN ring.queue
      /\ Tail(ring.queue) \in Seq(Entry) /\ Len(Tail(ring.queue)) = Len(ring.queue) - 1
      /\ \A k \in 1..Len(Tail(ring.queue)) : Tail(ring.queue)[k] = ring.queue[k + 1]
  BY <1>1, <1>2, HeadTailProperties
<1>7. Head(ring.queue) = entry
  <2>1. Head(ring.queue) = ring.queue[1]
    BY <1>1, <1>2
  <2> QED BY <2>1, <1>3, <1>4, <1>5, <1>6
<1>8. PICK count : count = Count
  OBVIOUS
<1>9. /\ count \in Nat /\ reading.base + count <= Len(reading.operations)
      /\ reading.submitted + 1 <= count /\ next \in DOMAIN reading.operations /\ next \in Nat
  <2>1. count \in Nat /\ reading.base + count <= Len(reading.operations)
    BY <1>8, CountIsBounded
  <2>2. reading.submitted + 1 <= count
    BY <1>2, <1>5, <1>6, <1>8
  <2>3. next \in 1..Len(reading.operations)
    <3>1. Len(reading.operations) \in Nat
      BY <1>2
    <3> QED BY <3>1, <2>1, <2>2, <1>0, <1>3
  <2>4. next \in Nat
    BY <1>0, <1>3
  <2>5. reading.operations \in Seq(Operation)
    BY <1>2
  <2>6. DOMAIN reading.operations = 1..Len(reading.operations)
    BY <2>5
  <2> QED BY <2>1, <2>2, <2>3, <2>4, <2>6
<1>10. PICK operation : operation = reading.operations[next]
  OBVIOUS
<1>11. operation \in Operation /\ operation.length \in Nat
  BY <1>9, <1>10, OperationIsTyped
<1>12. entry \in Entry /\ entry.index = next /\ entry.read = counters.reads
  BY <1>2, <1>4, <1>9 DEF Entry
<1>13. PICK pc \in {"submit", "reap"} :
         /\ pc = IF reading.submitted + 1 = count THEN "reap" ELSE "submit"
         /\ reading' = [reading EXCEPT !.submitted = reading.submitted + 1, !.pc = pc]
  BY <1>2, <1>8 DEF SubmitEntry, Calls
<1>14. /\ reading' \in Calls /\ reading'.pc = pc /\ reading'.requests = reading.requests
       /\ reading'.operations = reading.operations /\ reading'.base = reading.base
       /\ reading'.buffers = reading.buffers /\ reading'.submitted = reading.submitted + 1
       /\ reading'.reaped = reading.reaped /\ reading'.failed = reading.failed
       /\ reading'.error = reading.error
  <2>1. reading.submitted + 1 \in Nat
    BY <1>0
  <2> QED BY <2>1, <1>2, <1>13 DEF Calls
<1>15. /\ ring' \in Rings /\ ring'.queue = Tail(ring.queue)
       /\ ring'.inFlight = ring.inFlight \cup {entry} /\ ring'.completed = ring.completed
  BY <1>1, <1>2, <1>6, <1>7, <1>12 DEF Rings
<1>16. /\ counters' \in [submitted : Nat, completed : Nat, completions : Nat,
                         reads : Nat, faults : Nat]
       /\ counters'.submitted = counters.submitted + operation.length
       /\ counters'.completed = counters.completed /\ counters'.reads = counters.reads
       /\ counters'.faults = counters.faults /\ counters.faults \in Nat
  <2>1. counters' = [counters EXCEPT !.submitted = @ + operation.length]
    BY <1>3, <1>10 DEF SubmitEntry
  <2>2. counters.submitted + operation.length \in Nat
    BY <1>2, <1>11, SMTT(30)
  <2> QED BY <2>1, <2>2, <1>2
<1>17. ReadTypeOK'
  BY <1>1, <1>14, <1>15, <1>16 DEF ReadInv, ReadTypeOK
<1>18. EngineWorks' /\ RequestsAreSound' /\ PlanIsSound' /\ BuffersAreSound' /\ AnswersAreRight'
  <2>1. \A k \in 1..reading.base : IsDone(k)'
    BY <1>14 DEF ReadInv, BuffersAreSound, IsDone
  <2>2. InBatch /\ InBatch'
    BY <1>1, <1>14 DEF InBatch
  <2> QED BY <2>1, <2>2, <1>1, <1>14, <1>16, <1>17, BatchGoesOn
<1>19. Unreaped' = Unreaped \cup {entry}
  BY <1>15 DEF Unreaped
<1>20. entry \notin Unreaped
  <2>1. \A other \in Unreaped : other.index # next
    BY <1>2, <1>3, <1>5, SMTT(20) DEF IsOfBatch
  <2> QED BY <2>1, <1>12
<1>21. BytesAreOwed'
  <2>1. Owed' = OwedBy(Unreaped \cup {entry}, reading.operations)
    BY <1>14, <1>19 DEF Owed, OwedBy
  <2>2. /\ IsFiniteSet(OwedBy(Unreaped, reading.operations))
        /\ counters.completed + Cardinality(OwedBy(Unreaped, reading.operations)) <=
             counters.submitted
    BY DEF ReadInv, BytesAreOwed, Owed
  <2>3. PICK entries, operations : entries = Unreaped /\ operations = reading.operations
    OBVIOUS
  <2>4. /\ IsFiniteSet(OwedBy(entries \cup {entry}, operations))
        /\ Cardinality(OwedBy(entries \cup {entry}, operations)) =
             Cardinality(OwedBy(entries, operations)) + operation.length
    BY <2>2, <2>3, <1>10, <1>11, <1>12, <1>20, OwedGrows
  <2>5. Cardinality(OwedBy(entries, operations)) \in Nat
    BY <2>2, <2>3, FS_CardinalityType
  <2>6. counters.completed \in Nat /\ counters.submitted \in Nat
    BY <1>2
  <2>7. counters'.completed + Cardinality(OwedBy(entries \cup {entry}, operations))
          <= counters'.submitted
    BY <2>2, <2>3, <2>4, <2>5, <2>6, <1>11, <1>16
  <2> QED BY <2>1, <2>3, <2>4, <2>7 DEF BytesAreOwed
<1>22. RingIsSound'
  <2>1. Count' = count
    BY <1>8, <1>14 DEF Count
  <2>2. reading.submitted + 1 + Len(Tail(ring.queue)) = count
    <3>1. /\ Len(Tail(ring.queue)) = Len(ring.queue) - 1 /\ Len(ring.queue) \in Nat
          /\ reading.submitted + Len(ring.queue) = count
      BY <1>5, <1>6, <1>8
    <3> QED BY <3>1, <1>0
  <2>3. \A k \in DOMAIN Tail(ring.queue) :
          Tail(ring.queue)[k] =
            [index |-> reading.base + (reading.submitted + 1) + k, read |-> counters.reads]
    <3> TAKE k \in DOMAIN Tail(ring.queue)
    <3>1. k \in 1..Len(Tail(ring.queue)) /\ k + 1 \in DOMAIN ring.queue
      BY <1>2, <1>6
    <3>2. Tail(ring.queue)[k] = [index |-> reading.base + reading.submitted + (k + 1),
                                 read |-> counters.reads]
      BY <3>1, <1>5, <1>6
    <3>3. reading.base + reading.submitted + (k + 1) = reading.base + (reading.submitted + 1) + k
      <4>1. Len(Tail(ring.queue)) \in Nat
        BY <1>2, <1>6
      <4>2. k \in Nat
        BY <4>1, <3>1
      <4>3. reading.base \in Nat /\ reading.submitted \in Nat
        BY <1>2
      <4> QED BY <4>2, <4>3
    <3> QED BY <3>2, <3>3
  <2>4. \A other \in Unreaped' : IsOfBatch(other)'
    <3>1. \A other \in Unreaped :
            /\ other.index \in (reading.base + 1)..(reading.base + (reading.submitted + 1))
            /\ other.read = counters.reads
      <4> TAKE other \in Unreaped
      <4>1. /\ other.index \in (reading.base + 1)..(reading.base + reading.submitted)
            /\ other.read = counters.reads
        BY <1>5 DEF IsOfBatch
      <4>2. reading.base + reading.submitted <= reading.base + (reading.submitted + 1)
        BY <1>0
      <4> QED BY <4>1, <4>2, <1>0
    <3>2. next \in (reading.base + 1)..(reading.base + (reading.submitted + 1))
      BY <1>2, <1>3, SMTT(20)
    <3> QED BY <3>1, <3>2, <1>12, <1>14, <1>16, <1>19 DEF IsOfBatch
  <2>5. \A m \in DOMAIN ring.completed : CompletionIsSound(m)'
    <3> TAKE m \in DOMAIN ring.completed
    <3>1. ring.completed[m].entry \in Unreaped
      BY DEF Unreaped
    <3>2. ring.completed[m].entry # entry
      BY <3>1, <1>20
    <3> QED BY <3>2, <1>5, <1>14, <1>15, <1>16 DEF CompletionIsSound
  <2>6. IsFiniteSet(Unreaped \cup {entry})
        /\ Cardinality(Unreaped \cup {entry}) = Cardinality(Unreaped) + 1
    BY <1>5, <1>20, FS_AddElement
  <2>7. Cardinality(Unreaped \cup {entry}) + reading.reaped = reading.submitted + 1
    <3>1. Cardinality(Unreaped) \in Nat
      BY <1>5, FS_CardinalityType
    <3>2. Cardinality(Unreaped) + reading.reaped = reading.submitted
      BY <1>5
    <3> QED BY <3>1, <3>2, <2>6, <1>0
  <2>8. reading.error = "ok" =>
          \A k \in (reading.base + 1)..(reading.base + (reading.submitted + 1)) :
            IsDone(k)' \/ \E other \in Unreaped' : other.index = k
    <3> SUFFICES ASSUME reading.error = "ok",
                        NEW k \in (reading.base + 1)..(reading.base + (reading.submitted + 1))
                 PROVE  IsDone(k)' \/ \E other \in Unreaped' : other.index = k
      OBVIOUS
    <3>1. CASE k = next
      BY <3>1, <1>12, <1>19
    <3>2. CASE k # next
      <4>1. k \in (reading.base + 1)..(reading.base + reading.submitted)
        BY <3>2, <1>0, <1>3
      <4>2. IsDone(k) \/ \E other \in Unreaped : other.index = k
        BY <4>1, <1>5
      <4> QED BY <4>2, <1>14, <1>19 DEF IsDone
    <3> QED BY <3>1, <3>2
  <2>9. pc = "reap" => reading.submitted + 1 = count
    BY <1>13
  <2> QED BY <2>1, <2>2, <2>3, <2>4, <2>5, <2>6, <2>7, <2>8, <2>9, <1>5, <1>14, <1>15, <1>16, <1>19
          DEF RingIsSound, InBatch
<1> QED BY <1>17, <1>18, <1>21, <1>22 DEF ReadInv

\* An error of the kernel that ends the call takes the ring with it.
LEMMA AbandonKeeps ==
  ASSUME ReadInv, Abandon, Answered("io_error", <<>>),
         counters' \in {counters, [counters EXCEPT !.faults = @ + 1]}, counters'.faults > 0
  PROVE  ReadInv'
<1>1. /\ counters' \in [submitted : Nat, completed : Nat, completions : Nat,
                        reads : Nat, faults : Nat]
      /\ counters'.completed = counters.completed /\ counters'.submitted = counters.submitted
  BY DEF ReadInv, ReadTypeOK
<1>2. counters'.completed <= counters'.submitted
  BY <1>1, CompletedWasSubmitted DEF ReadInv
<1> QED BY <1>1, <1>2, CallFails DEF Abandon

LEMMA SubmitFailsKeeps == ASSUME ReadInv, SubmitFails PROVE ReadInv'
<1>1. reading.pc = "submit" /\ counters' = [counters EXCEPT !.faults = @ + 1]
  BY DEF SubmitFails
<1>2. /\ reading \in Calls
      /\ counters \in [submitted : Nat, completed : Nat, completions : Nat, reads : Nat, faults : Nat]
  BY DEF ReadInv, ReadTypeOK
<1>3. /\ counters' \in [submitted : Nat, completed : Nat, completions : Nat,
                        reads : Nat, faults : Nat]
      /\ counters'.faults > 0 /\ counters.faults <= counters'.faults
      /\ counters'.completed = counters.completed /\ counters'.submitted = counters.submitted
      /\ counters'.reads = counters.reads
  BY <1>1, <1>2
<1>4. CASE reading.submitted = 0
  <2>1. Abandon /\ Answered("io_error", <<>>)
    BY <1>4 DEF SubmitFails
  <2> QED BY <2>1, <1>1, <1>3, AbandonKeeps
<1>5. CASE reading.submitted # 0
  <2>1. /\ reading' = [reading EXCEPT !.pc = "reap", !.failed = TRUE]
        /\ UNCHANGED <<plane, ring, answer>>
    BY <1>5 DEF SubmitFails
  <2>2. /\ reading' \in Calls /\ reading'.pc = "reap" /\ reading'.requests = reading.requests
        /\ reading'.operations = reading.operations /\ reading'.base = reading.base
        /\ reading'.buffers = reading.buffers /\ reading'.submitted = reading.submitted
        /\ reading'.reaped = reading.reaped /\ reading'.failed = TRUE
        /\ reading'.error = reading.error
    BY <2>1, <1>2 DEF Calls
  <2>3. ReadTypeOK'
    BY <2>1, <2>2, <1>3 DEF ReadInv, ReadTypeOK
  <2>4. InBatch /\ InBatch'
    BY <2>2, <1>1 DEF InBatch
  <2>5. EngineWorks' /\ RequestsAreSound' /\ PlanIsSound' /\ BuffersAreSound' /\ AnswersAreRight'
    <3>1. \A k \in 1..reading.base : IsDone(k)'
      BY <2>2 DEF ReadInv, BuffersAreSound, IsDone
    <3> QED BY <3>1, <2>1, <2>2, <2>3, <2>4, <1>3, BatchGoesOn
  <2>6. Unreaped' = Unreaped /\ Owed' = Owed /\ Count' = Count
    BY <2>1, <2>2 DEF Unreaped, Owed, OwedBy, Count
  <2>7. BytesAreOwed'
    BY <2>6, <1>3 DEF ReadInv, BytesAreOwed
  <2>8. RingIsSound'
    <3>1. \A entry \in Unreaped : IsOfBatch(entry)'
      BY <2>2, <2>4, <1>3 DEF ReadInv, RingIsSound, IsOfBatch
    <3>2. \A m \in DOMAIN ring.completed : CompletionIsSound(m)'
      BY <2>1, <2>2, <2>4, <1>3 DEF ReadInv, RingIsSound, CompletionIsSound
    <3>3. \A k \in (reading.base + 1)..(reading.base + reading.submitted) : IsDone(k)' <=> IsDone(k)
      BY <2>2 DEF IsDone
    <3> QED BY <3>1, <3>2, <3>3, <2>1, <2>2, <2>4, <2>6, <1>3 DEF ReadInv, RingIsSound
  <2> QED BY <2>3, <2>5, <2>7, <2>8 DEF ReadInv
<1> QED BY <1>4, <1>5

LEMMA WaitFailsKeeps == ASSUME ReadInv, WaitFails PROVE ReadInv'
<1>1. counters' = [counters EXCEPT !.faults = @ + 1] /\ Abandon /\ Answered("io_error", <<>>)
  BY DEF WaitFails
<1>2. counters'.faults > 0
  BY <1>1 DEF ReadInv, ReadTypeOK
<1> QED BY <1>1, <1>2, AbandonKeeps

LEMMA BatchEndsKeeps == ASSUME ReadInv, BatchEnds PROVE ReadInv'
<1>1. reading.pc = "reap" /\ reading.reaped = reading.submitted /\ counters' = counters
  BY DEF BatchEnds
<1>2. /\ reading \in Calls /\ reading.base \in Nat /\ reading.submitted \in Nat
      /\ reading.operations \in Seq(Operation) /\ reading.error \in {"ok", "io_error", "truncated_file"}
      /\ ring \in Rings /\ ring.queue \in Seq(Entry)
      /\ ring.completed \in Seq([entry : Entry, result : Int])
      /\ counters \in [submitted : Nat, completed : Nat, completions : Nat, reads : Nat, faults : Nat]
  BY DEF ReadInv, ReadTypeOK, Calls, Rings
<1>3. /\ reading.submitted + Len(ring.queue) = Count
      /\ IsFiniteSet(Unreaped) /\ Cardinality(Unreaped) + reading.reaped = reading.submitted
      /\ reading.error = "ok" =>
           \A k \in (reading.base + 1)..(reading.base + reading.submitted) :
             IsDone(k) \/ \E entry \in Unreaped : entry.index = k
      /\ reading.failed \/ reading.error # "ok" => counters.faults > 0
      /\ ~reading.failed => reading.submitted = Count
  BY <1>1 DEF ReadInv, RingIsSound, InBatch
<1>4. Unreaped = {}
  <2>1. Cardinality(Unreaped) \in Nat
    BY <1>3, FS_CardinalityType
  <2>2. Cardinality(Unreaped) = 0
    BY <2>1, <1>1, <1>2, <1>3
  <2> QED BY <2>2, <1>3, FS_EmptySet
<1>5. CASE reading.failed
  <2>1. Abandon /\ Answered("io_error", <<>>)
    BY <1>5 DEF BatchEnds
  <2> QED BY <2>1, <1>1, <1>3, <1>5, AbandonKeeps
<1>6. CASE ~reading.failed
  <2>1. UNCHANGED <<plane, ring>>
    BY <1>6 DEF BatchEnds
  <2>2. ring = EmptyRing
    <3>1. ring.inFlight = {} /\ DOMAIN ring.completed = {}
      BY <1>4 DEF Unreaped
    <3>2. ring.completed = <<>>
      <4>1. DOMAIN ring.completed = 1..Len(ring.completed) /\ Len(ring.completed) \in Nat
        BY <1>2
      <4>2. Len(ring.completed) = 0
        <5>1. Len(ring.completed) > 0 => 1 \in DOMAIN ring.completed
          BY <4>1
        <5>2. ~(Len(ring.completed) > 0)
          BY <5>1, <3>1
        <5> QED BY <5>2, <4>1
      <4> QED BY <4>2, <1>2, EmptySeq
    <3>3. Len(ring.queue) = 0
      <4>1. Len(ring.queue) \in Nat
        BY <1>2
      <4> QED BY <4>1, <1>2, <1>3, <1>6
    <3>4. ring.queue = <<>>
      BY <3>3, <1>2
    <3> QED BY <3>1, <3>2, <3>4, <1>2 DEF Rings, EmptyRing
  <2>3. CASE reading.error # "ok"
    <3>1. Answered(reading.error, <<>>) /\ reading.error \in {"io_error", "truncated_file"}
      BY <2>3, <1>2, <1>6 DEF BatchEnds
    <3>2. counters'.completed <= counters'.submitted
      BY <1>1, CompletedWasSubmitted DEF ReadInv
    <3> QED BY <3>1, <3>2, <2>1, <2>2, <2>3, <1>1, <1>2, <1>3, CallFails
  <2>4. CASE reading.error = "ok"
    <3>1. PICK count : count = Count
      OBVIOUS
    <3>2. /\ count \in Nat /\ reading.base + count <= Len(reading.operations)
          /\ count = reading.submitted
      BY <3>1, <1>3, <1>6, CountIsBounded
    <3>3. /\ reading' = [reading EXCEPT !.pc = "prepare", !.base = reading.base + count]
          /\ answer' = answer
      BY <2>4, <3>1, <1>2, <1>6 DEF BatchEnds, Calls
    <3>4. /\ reading' \in Calls /\ reading'.pc = "prepare" /\ reading'.requests = reading.requests
          /\ reading'.operations = reading.operations /\ reading'.base = reading.base + count
          /\ reading'.buffers = reading.buffers
      <4>1. reading.base + count \in Nat
        BY <3>2, <1>2
      <4> QED BY <4>1, <3>3, <1>2 DEF Calls
    <3>5. ReadTypeOK'
      BY <3>4, <2>1, <1>1 DEF ReadInv, ReadTypeOK
    <3>6. EngineWorks'
      BY <3>4, <2>1, <1>1 DEF ReadInv, EngineWorks
    <3>7. RequestsAreSound' /\ PlanIsSound'
      BY <3>2, <3>4, <2>1, <1>1, PlanStays
    <3>8. BuffersAreSound'
      <4>1. ASSUME NEW k \in 1..(reading.base + count) PROVE IsDone(k)
        <5>1. k \in 1..reading.base
              \/ k \in (reading.base + 1)..(reading.base + reading.submitted)
          BY <3>2, <1>2
        <5> QED BY <5>1, <2>4, <1>3, <1>4 DEF ReadInv, BuffersAreSound
      <4> QED BY <4>1, <3>4 DEF BuffersAreSound, IsDone
    <3>9. RingIsSound'
      BY <3>4, <2>1, <2>2 DEF RingIsSound, InBatch
    <3>10. BytesAreOwed'
      BY <3>5, <2>1, <2>2, <1>1, EmptyRingOwesNothing, CompletedWasSubmitted DEF ReadInv
    <3>11. AnswersAreRight'
      <4>1. counters.faults <= counters'.faults
        BY <1>1, <1>2
      <4> QED BY <4>1, <3>3, <3>5, AnswerStays DEF ReadInv
    <3> QED BY <3>5, <3>6, <3>7, <3>8, <3>9, <3>10, <3>11 DEF ReadInv
  <2> QED BY <2>3, <2>4
<1> QED BY <1>5, <1>6

LEMMA BatchIsPlanned ==
  ASSUME ReadInv, InBatch
  PROVE  /\ (reading.base + 1)..(reading.base + reading.submitted) \subseteq DOMAIN reading.operations
         /\ \A entry \in Unreaped : entry.index \in DOMAIN reading.operations
<1>1. /\ reading.base \in Nat /\ reading.submitted \in Nat
      /\ reading.operations \in Seq(Operation) /\ ring.queue \in Seq(Entry)
  BY DEF ReadInv, ReadTypeOK, Calls, Rings
<1>2. Len(ring.queue) \in Nat /\ Len(reading.operations) \in Nat
  BY <1>1
<1>3. PICK count : count = Count
  OBVIOUS
<1>4. reading.submitted + Len(ring.queue) = count
  BY <1>3 DEF ReadInv, RingIsSound
<1>5. count \in Nat /\ reading.base + count <= Len(reading.operations)
  BY <1>3, CountIsBounded
<1>6. reading.base \in Nat /\ reading.submitted \in Nat
  BY <1>1
<1>7. (reading.base + 1)..(reading.base + reading.submitted) \subseteq 1..Len(reading.operations)
  BY <1>2, <1>4, <1>5, <1>6, SMTT(20)
<1>8. DOMAIN reading.operations = 1..Len(reading.operations)
  BY <1>1
<1> QED BY <1>7, <1>8 DEF ReadInv, RingIsSound, IsOfBatch

\* What an operation brings takes nothing from what others brought.
LEMMA LandingKeeps ==
  ASSUME ReadInv, NEW k \in DOMAIN reading.operations, NEW operation,
         operation = reading.operations[k], NEW result \in Int, result <= operation.length,
         NEW after, after = Landed(operation, 0, result)
  PROVE  /\ after \in Seq(Seq(Int)) /\ DOMAIN after = DOMAIN reading.buffers
         /\ \A i \in DOMAIN after : Len(after[i]) = Len(reading.buffers[i])
         /\ Holds(after, operation, result)
         /\ \A j \in DOMAIN reading.operations, n \in Int :
              n <= reading.operations[j].length /\ Holds(reading.buffers, reading.operations[j], n)
                => Holds(after, reading.operations[j], n)
         /\ \A j \in DOMAIN reading.operations :
              IsDone(j) => Holds(after, reading.operations[j], reading.operations[j].minimum)
<1>1. operation \in Operation /\ IsOperation(operation) /\ operation.length \in Nat
  BY OperationIsTyped
<1>2. 0 + result = result
  OBVIOUS
<1>3. Holds(reading.buffers, operation, 0)
  BY DEF Holds
<1>4. /\ after \in Seq(Seq(Int)) /\ DOMAIN after = DOMAIN reading.buffers
      /\ \A i \in DOMAIN after : Len(after[i]) = Len(reading.buffers[i])
      /\ \A other \in Operation, n \in Int :
           IsOperation(other) /\ n <= other.length /\ Holds(reading.buffers, other, n) =>
             Holds(after, other, n)
      /\ Holds(after, operation, result)
  BY <1>1, <1>2, <1>3, LandedIsSound DEF ReadInv
<1>5. ASSUME NEW j \in DOMAIN reading.operations, NEW n \in Int,
             n <= reading.operations[j].length, Holds(reading.buffers, reading.operations[j], n)
      PROVE  Holds(after, reading.operations[j], n)
  <2>1. reading.operations[j] \in Operation /\ IsOperation(reading.operations[j])
    BY OperationIsTyped
  <2> QED BY <2>1, <1>4, <1>5
<1>6. ASSUME NEW j \in DOMAIN reading.operations, IsDone(j)
      PROVE  Holds(after, reading.operations[j], reading.operations[j].minimum)
  <2>1. PICK other : other = reading.operations[j]
    OBVIOUS
  <2>2. other.minimum \in Nat /\ other.length \in Nat
    BY <2>1, OperationIsTyped
  <2>3. 0 \in Nat /\ 0 <= other.length
    BY <2>2
  <2>4. other.minimum <= other.length
    BY <2>1, <2>3, AvailableIsBounded
  <2>5. other.minimum \in Int
    BY <2>2
  <2> QED BY <2>1, <2>4, <2>5, <1>5, <1>6 DEF IsDone
<1> QED BY <1>4, <1>5, <1>6

LEMMA LandKeeps == ASSUME ReadInv, NEW entry \in ring.inFlight, Land(entry) PROVE ReadInv'
<1>1. InBatch /\ entry \in Unreaped
  <2>1. ring # EmptyRing
    BY DEF EmptyRing
  <2> QED BY <2>1 DEF ReadInv, RingIsSound, Unreaped
<1>2. /\ reading \in Calls /\ reading.base \in Nat /\ reading.submitted \in Nat
      /\ reading.operations \in Seq(Operation)
      /\ ring \in Rings /\ ring.inFlight \in SUBSET Entry
      /\ ring.completed \in Seq([entry : Entry, result : Int])
      /\ counters \in [submitted : Nat, completed : Nat, completions : Nat, reads : Nat, faults : Nat]
  BY DEF ReadInv, ReadTypeOK, Calls, Rings
<1>3. /\ reading.submitted + Len(ring.queue) = Count
      /\ \A k \in DOMAIN ring.queue :
           ring.queue[k] = [index |-> reading.base + reading.submitted + k, read |-> counters.reads]
      /\ \A other \in Unreaped : IsOfBatch(other)
      /\ \A m \in DOMAIN ring.completed : CompletionIsSound(m)
      /\ \A m, n \in DOMAIN ring.completed :
           m # n => ring.completed[m].entry # ring.completed[n].entry
      /\ IsFiniteSet(Unreaped)
      /\ Cardinality(Unreaped) + reading.reaped = reading.submitted
      /\ reading.error = "ok" =>
           \A k \in (reading.base + 1)..(reading.base + reading.submitted) :
             IsDone(k) \/ \E other \in Unreaped : other.index = k
      /\ reading.failed \/ reading.error # "ok" => counters.faults > 0
      /\ reading.pc = "reap" /\ ~reading.failed => reading.submitted = Count
  BY <1>1 DEF ReadInv, RingIsSound
<1>4. /\ (reading.base + 1)..(reading.base + reading.submitted) \subseteq DOMAIN reading.operations
      /\ \A other \in Unreaped : other.index \in DOMAIN reading.operations
  BY <1>1, BatchIsPlanned
<1>5. PICK operation : operation = reading.operations[entry.index]
  OBVIOUS
<1>6. operation.length \in Nat /\ operation.minimum \in Nat
  BY <1>1, <1>4, <1>5, OperationIsTyped
<1>7. PICK whole : whole = Available(operation, 0)
  OBVIOUS
<1>8. whole \in Nat /\ whole <= operation.length /\ operation.minimum <= whole
  <2>1. 0 \in Nat /\ 0 <= operation.length
    BY <1>6
  <2>2. whole \in Nat /\ 0 + whole <= operation.length /\ operation.minimum <= whole
    BY <2>1, <1>1, <1>4, <1>5, <1>7, AvailableIsBounded
  <2> QED BY <2>2, <1>6
<1>9. PICK result \in -1..whole, faults \in {0, 1} :
        /\ result < whole => faults = 1
        /\ ring' = [ring EXCEPT !.inFlight = @ \ {entry},
                                !.completed = Append(@, [entry |-> entry, result |-> result])]
        /\ counters' = [counters EXCEPT !.faults = @ + faults]
        /\ reading' = [reading EXCEPT !.buffers = Landed(operation, 0, result)]
  <2>1. reading.pc # "idle" /\ entry.read = counters.reads
    BY <1>1, <1>3 DEF InBatch, IsOfBatch
  <2>2. CASE /\ ring' = [ring EXCEPT !.inFlight = @ \ {entry},
                           !.completed = Append(@, [entry |-> entry, result |-> whole])]
             /\ counters' = [counters EXCEPT !.faults = @ + 0]
             /\ reading' = [reading EXCEPT !.buffers = Landed(operation, 0, whole)]
    <3>1. whole \in -1..whole /\ ~(whole < whole)
      BY <1>8
    <3> QED BY <3>1, <2>2
  <2>3. CASE \E result \in -1..(whole - 1) :
               /\ ring' = [ring EXCEPT !.inFlight = @ \ {entry},
                             !.completed = Append(@, [entry |-> entry, result |-> result])]
               /\ counters' = [counters EXCEPT !.faults = @ + 1]
               /\ reading' = [reading EXCEPT !.buffers = Landed(operation, 0, result)]
    <3>1. \A result \in -1..(whole - 1) : result \in -1..whole
      BY <1>8
    <3> QED BY <3>1, <2>3
  <2> QED BY <2>1, <2>2, <2>3, <1>5, <1>7 DEF Land
<1>10. PICK after : after = Landed(operation, 0, result)
  OBVIOUS
<1>11. PICK completion : completion = [entry |-> entry, result |-> result]
  OBVIOUS
<1>12. result \in Int /\ result <= operation.length /\ UNCHANGED <<plane, answer>>
  <2>1. result \in Int /\ result <= operation.length
    BY <1>6, <1>8
  <2>2. UNCHANGED <<plane, answer>>
    BY DEF Land
  <2> QED BY <2>1, <2>2
<1>13. /\ after \in Seq(Seq(Int)) /\ DOMAIN after = DOMAIN reading.buffers
       /\ \A i \in DOMAIN after : Len(after[i]) = Len(reading.buffers[i])
       /\ Holds(after, operation, result)
       /\ \A j \in DOMAIN reading.operations, n \in Int :
            n <= reading.operations[j].length /\ Holds(reading.buffers, reading.operations[j], n)
              => Holds(after, reading.operations[j], n)
       /\ \A j \in DOMAIN reading.operations :
            IsDone(j) => Holds(after, reading.operations[j], reading.operations[j].minimum)
  BY <1>1, <1>4, <1>5, <1>10, <1>12, LandingKeeps
<1>14. /\ completion \in [entry : Entry, result : Int]
       /\ completion.entry = entry /\ completion.result = result
  BY <1>2, <1>11, <1>12
<1>15. PICK last : last = Len(ring.completed) + 1
  OBVIOUS
<1>16. PICK completed \in Seq([entry : Entry, result : Int]) :
         /\ completed = Append(ring.completed, completion)
         /\ DOMAIN completed = DOMAIN ring.completed \cup {last} /\ completed[last] = completion
         /\ \A m \in DOMAIN ring.completed : completed[m] = ring.completed[m] /\ m # last
  <2>1. PICK completed : completed = Append(ring.completed, completion)
    OBVIOUS
  <2>2. /\ completed \in Seq([entry : Entry, result : Int])
        /\ Len(completed) = Len(ring.completed) + 1 /\ completed[last] = completion
        /\ \A m \in 1..Len(ring.completed) : completed[m] = ring.completed[m]
    BY <2>1, <1>2, <1>14, <1>15, AppendProperties
  <2>3. /\ DOMAIN ring.completed = 1..Len(ring.completed) /\ Len(ring.completed) \in Nat
        /\ DOMAIN completed = 1..Len(completed)
    BY <2>2, <1>2, SMTT(20)
  <2>4. /\ 1..(Len(ring.completed) + 1) = (1..Len(ring.completed)) \cup {last}
        /\ last \notin 1..Len(ring.completed)
    BY <2>3, <1>15
  <2> QED BY <2>1, <2>2, <2>3, <2>4
<1>17. /\ ring' \in Rings /\ ring'.queue = ring.queue /\ ring'.completed = completed
       /\ ring'.inFlight = ring.inFlight \ {entry}
  BY <1>2, <1>9, <1>11, <1>16 DEF Rings
<1>18. /\ counters' \in [submitted : Nat, completed : Nat, completions : Nat,
                         reads : Nat, faults : Nat]
       /\ counters'.faults = counters.faults + faults /\ counters.faults \in Nat
       /\ counters'.completed = counters.completed /\ counters'.submitted = counters.submitted
       /\ counters'.reads = counters.reads
  <2>1. counters.faults + faults \in Nat
    BY <1>2
  <2> QED BY <2>1, <1>2, <1>9
<1>19. /\ counters.faults <= counters'.faults
       /\ counters.faults > 0 => counters'.faults > 0
       /\ result < whole => counters'.faults > 0
  <2>1. counters'.faults = counters.faults + faults /\ counters.faults \in Nat /\ faults \in {0, 1}
    BY <1>18
  <2>2. result < whole => faults = 1
    BY <1>9
  <2> QED BY <2>1, <2>2
<1>20. /\ reading' \in Calls /\ reading'.pc = reading.pc /\ reading'.requests = reading.requests
       /\ reading'.operations = reading.operations /\ reading'.base = reading.base
       /\ reading'.buffers = after /\ reading'.submitted = reading.submitted
       /\ reading'.reaped = reading.reaped /\ reading'.failed = reading.failed
       /\ reading'.error = reading.error
  BY <1>2, <1>9, <1>10, <1>13 DEF Calls
<1>21. ReadTypeOK'
  BY <1>12, <1>17, <1>18, <1>20 DEF ReadInv, ReadTypeOK
<1>22. \A k \in DOMAIN reading.operations : IsDone(k) => IsDone(k)'
  BY <1>13, <1>20 DEF IsDone
<1>23. EngineWorks' /\ RequestsAreSound' /\ PlanIsSound' /\ BuffersAreSound' /\ AnswersAreRight'
  <2>1. InBatch'
    BY <1>1, <1>20 DEF InBatch
  <2>2. \A k \in 1..reading.base : k \in DOMAIN reading.operations
    <3>1. reading.base <= Len(reading.operations)
      BY DEF ReadInv, PlanIsSound
    <3> QED BY <3>1, <1>2
  <2>3. \A k \in 1..reading.base : IsDone(k)'
    BY <2>2, <1>22 DEF ReadInv, BuffersAreSound
  <2> QED BY <2>1, <2>3, <1>1, <1>12, <1>13, <1>19, <1>20, <1>21, BatchGoesOn
<1>24. Unreaped' = Unreaped
  <2>1. {completed[m].entry : m \in DOMAIN completed} =
          {ring.completed[m].entry : m \in DOMAIN ring.completed} \cup {entry}
    BY <1>14, <1>16
  <2>2. Unreaped' = (ring.inFlight \ {entry}) \cup {completed[m].entry : m \in DOMAIN completed}
    BY <1>17 DEF Unreaped
  <2> QED BY <2>1, <2>2 DEF Unreaped
<1>25. BytesAreOwed'
  <2>1. Owed' = Owed
    BY <1>20, <1>24 DEF Owed, OwedBy
  <2> QED BY <2>1, <1>18 DEF ReadInv, BytesAreOwed
<1>26. RingIsSound'
  <2>1. Count' = Count
    BY <1>20 DEF Count
  <2>2. \A other \in Unreaped : IsOfBatch(other)'
    BY <1>3, <1>18, <1>20 DEF IsOfBatch
  <2>3. \A m \in DOMAIN ring.completed : CompletionIsSound(m)'
    <3> TAKE m \in DOMAIN ring.completed
    <3>1. PICK old : old = ring.completed[m]
      OBVIOUS
    <3>2. PICK other : other = reading.operations[old.entry.index]
      OBVIOUS
    <3>3. /\ old.entry \notin ring.inFlight /\ old.result <= other.length
          /\ old.result < other.minimum => counters.faults > 0
          /\ Holds(reading.buffers, other, old.result)
      BY <3>1, <3>2, <1>3 DEF CompletionIsSound
    <3>4. old.entry.index \in DOMAIN reading.operations
      BY <3>1, <1>4 DEF Unreaped
    <3>5. old.result \in Int
      <4>0. ring.completed \in Seq([entry : Entry, result : Int])
        BY <1>2
      <4>1. m \in 1..Len(ring.completed)
        BY <4>0
      <4>2. old \in [entry : Entry, result : Int]
        BY <4>1, <3>1, <1>2, ElementOfSeq
      <4> QED BY <4>2
    <3>6. Holds(after, other, old.result)
      BY <3>2, <3>3, <3>4, <3>5, <1>13
    <3>7. completed[m] = old
      BY <3>1, <1>16
    <3> QED BY <3>2, <3>3, <3>6, <3>7, <1>17, <1>19, <1>20 DEF CompletionIsSound
  <2>4. CompletionIsSound(last)'
    <3>1. result < operation.minimum => counters'.faults > 0
      <4>1. result < operation.minimum => result < whole
        BY <1>6, <1>8, <1>12
      <4> QED BY <4>1, <1>19
    <3>2. completed[last] = completion
      BY <1>16
    <3> QED BY <3>1, <3>2, <1>5, <1>12, <1>13, <1>14, <1>17, <1>20 DEF CompletionIsSound
  <2>5. \A m, n \in DOMAIN completed : m # n => completed[m].entry # completed[n].entry
    <3>1. \A m \in DOMAIN ring.completed : ring.completed[m].entry # entry
      BY <1>3 DEF CompletionIsSound
    <3> QED BY <3>1, <1>3, <1>14, <1>16
  <2>6. reading.error = "ok" =>
          \A k \in (reading.base + 1)..(reading.base + reading.submitted) :
            IsDone(k)' \/ \E other \in Unreaped : other.index = k
    BY <1>3, <1>4, <1>22
  <2>7. \A m \in DOMAIN completed : CompletionIsSound(m)'
    BY <2>3, <2>4, <1>16
  <2>8. InBatch' <=> InBatch
    BY <1>20 DEF InBatch
  <2> QED BY <2>1, <2>2, <2>5, <2>6, <2>7, <2>8, <1>1, <1>3, <1>17, <1>18, <1>19, <1>20, <1>24
          DEF RingIsSound
<1> QED BY <1>21, <1>23, <1>25, <1>26 DEF ReadInv

LEMMA ReapKeeps == ASSUME ReadInv, Reap PROVE ReadInv'
<1>1. /\ reading.pc = "reap" /\ ring.completed # <<>> /\ UNCHANGED <<plane, answer>> /\ InBatch
  BY DEF Reap, InBatch
<1>2. /\ reading \in Calls /\ reading.base \in Nat /\ reading.submitted \in Nat
      /\ reading.reaped \in Nat /\ reading.operations \in Seq(Operation)
      /\ reading.error \in {"ok", "io_error", "truncated_file"}
      /\ ring \in Rings /\ ring.completed \in Seq([entry : Entry, result : Int])
      /\ counters \in [submitted : Nat, completed : Nat, completions : Nat, reads : Nat, faults : Nat]
  BY DEF ReadInv, ReadTypeOK, Calls, Rings
<1>3. /\ reading.submitted + Len(ring.queue) = Count
      /\ \A k \in DOMAIN ring.queue :
           ring.queue[k] = [index |-> reading.base + reading.submitted + k, read |-> counters.reads]
      /\ \A other \in Unreaped : IsOfBatch(other)
      /\ \A m \in DOMAIN ring.completed : CompletionIsSound(m)
      /\ \A m, n \in DOMAIN ring.completed :
           m # n => ring.completed[m].entry # ring.completed[n].entry
      /\ IsFiniteSet(Unreaped)
      /\ Cardinality(Unreaped) + reading.reaped = reading.submitted
      /\ reading.error = "ok" =>
           \A k \in (reading.base + 1)..(reading.base + reading.submitted) :
             IsDone(k) \/ \E other \in Unreaped : other.index = k
      /\ reading.failed \/ reading.error # "ok" => counters.faults > 0
      /\ reading.pc = "reap" /\ ~reading.failed => reading.submitted = Count
  BY <1>1 DEF ReadInv, RingIsSound
<1>4. PICK rest : rest = Tail(ring.completed)
  OBVIOUS
<1>5. /\ Len(ring.completed) \in Nat /\ Len(ring.completed) > 0 /\ 1 \in DOMAIN ring.completed
      /\ rest \in Seq([entry : Entry, result : Int]) /\ Len(rest) = Len(ring.completed) - 1
      /\ \A m \in 1..Len(rest) : rest[m] = ring.completed[m + 1]
  <2>1. /\ rest \in Seq([entry : Entry, result : Int]) /\ Len(rest) = Len(ring.completed) - 1
        /\ \A m \in 1..Len(rest) : rest[m] = ring.completed[m + 1]
    BY <1>1, <1>2, <1>4, HeadTailProperties
  <2>2. /\ Len(ring.completed) \in Nat /\ Len(ring.completed) > 0
        /\ DOMAIN ring.completed = 1..Len(ring.completed)
    BY <1>1, <1>2, EmptySeq
  <2>3. 1 \in DOMAIN ring.completed
    BY <2>2
  <2> QED BY <2>1, <2>2, <2>3
<1>6. PICK completion : completion = ring.completed[1]
  OBVIOUS
<1>7. PICK entry, result : entry = completion.entry /\ result = completion.result
  OBVIOUS
<1>8. completion = Head(ring.completed) /\ entry \in Entry /\ result \in Int
  <2>1. 1 \in 1..Len(ring.completed)
    BY <1>5
  <2>2. completion \in [entry : Entry, result : Int]
    BY <2>1, <1>2, <1>6, ElementOfSeq
  <2>3. completion = Head(ring.completed)
    BY <1>1, <1>2, <1>6
  <2> QED BY <2>2, <2>3, <1>7
<1>9. /\ DOMAIN rest = 1..(Len(ring.completed) - 1)
      /\ DOMAIN ring.completed = 1..Len(ring.completed)
  BY <1>2, <1>5
<1>10. \A m \in DOMAIN rest : m + 1 \in DOMAIN ring.completed /\ m + 1 # 1 /\ m \in Nat
  BY <1>5, <1>9
<1>11. entry \in Unreaped
  BY <1>5, <1>6, <1>7 DEF Unreaped
<1>12. PICK operation : operation = reading.operations[entry.index]
  OBVIOUS
<1>13. operation.length \in Nat /\ operation.minimum \in Nat
  BY <1>1, <1>11, <1>12, BatchIsPlanned, OperationIsTyped
<1>14. /\ entry \notin ring.inFlight /\ result <= operation.length
       /\ result < operation.minimum => counters.faults > 0
       /\ Holds(reading.buffers, operation, result)
  BY <1>3, <1>5, <1>6, <1>7, <1>12 DEF CompletionIsSound
<1>15. PICK bytes : bytes = IF result < 0 THEN 0 ELSE result
  OBVIOUS
<1>16. PICK error \in {"ok", "io_error", "truncated_file"} :
         error = IF reading.error = "ok"
                 THEN IF result < 0 THEN "io_error"
                      ELSE IF result < operation.minimum THEN "truncated_file" ELSE "ok"
                 ELSE reading.error
  BY <1>2
<1>17. /\ ring' = [ring EXCEPT !.completed = rest]
       /\ reading' = [reading EXCEPT !.reaped = reading.reaped + 1, !.error = error]
       /\ counters' = [counters EXCEPT !.completed = counters.completed + bytes]
  <2>1. ring' = [ring EXCEPT !.completed = rest]
    BY <1>4 DEF Reap
  <2>2. PICK found : found = IF result < 0 THEN "io_error"
                             ELSE IF result < operation.minimum THEN "truncated_file" ELSE "ok"
    OBVIOUS
  <2>3. reading' = [reading EXCEPT !.reaped = @ + 1, !.error = IF @ = "ok" THEN found ELSE @]
    BY <2>2, <1>7, <1>8, <1>12 DEF Reap
  <2>4. reading' = [reading EXCEPT !.reaped = reading.reaped + 1, !.error = error]
    BY <2>2, <2>3, <1>2, <1>16 DEF Calls
  <2>5. counters' = [counters EXCEPT !.completed = counters.completed + bytes]
    BY <1>2, <1>7, <1>8, <1>15 DEF Reap
  <2> QED BY <2>1, <2>4, <2>5
<1>18. bytes \in Nat /\ bytes <= operation.length
  BY <1>8, <1>13, <1>14, <1>15
<1>19. /\ ring' \in Rings /\ ring'.queue = ring.queue /\ ring'.completed = rest
       /\ ring'.inFlight = ring.inFlight
  BY <1>2, <1>5, <1>17 DEF Rings
<1>20. /\ reading' \in Calls /\ reading'.pc = reading.pc /\ reading'.requests = reading.requests
       /\ reading'.operations = reading.operations /\ reading'.base = reading.base
       /\ reading'.buffers = reading.buffers /\ reading'.submitted = reading.submitted
       /\ reading'.reaped = reading.reaped + 1 /\ reading'.failed = reading.failed
       /\ reading'.error = error
  <2>1. reading.reaped + 1 \in Nat
    BY <1>2
  <2> QED BY <2>1, <1>2, <1>17 DEF Calls
<1>21. /\ counters' \in [submitted : Nat, completed : Nat, completions : Nat,
                         reads : Nat, faults : Nat]
       /\ counters'.faults = counters.faults /\ counters.faults \in Nat
       /\ counters'.completed = counters.completed + bytes
       /\ counters'.submitted = counters.submitted /\ counters'.reads = counters.reads
  <2>1. counters.completed + bytes \in Nat
    BY <1>2, <1>18
  <2> QED BY <2>1, <1>2, <1>17
<1>22. ReadTypeOK'
  BY <1>1, <1>19, <1>20, <1>21 DEF ReadInv, ReadTypeOK
<1>23. EngineWorks' /\ RequestsAreSound' /\ PlanIsSound' /\ BuffersAreSound' /\ AnswersAreRight'
  <2>1. InBatch'
    BY <1>1, <1>20 DEF InBatch
  <2>2. \A k \in 1..reading.base : IsDone(k)'
    BY <1>20 DEF ReadInv, BuffersAreSound, IsDone
  <2>3. counters.faults <= counters'.faults
    BY <1>21
  <2> QED BY <2>1, <2>2, <2>3, <1>1, <1>20, <1>22, BatchGoesOn
<1>24. Unreaped' = Unreaped \ {entry}
  <2>1. \A m \in DOMAIN rest : rest[m].entry # entry
    BY <1>3, <1>5, <1>6, <1>7, <1>9, <1>10, SMTT(20)
  <2>2. \A m \in DOMAIN ring.completed : m # 1 => m - 1 \in DOMAIN rest /\ rest[m - 1] = ring.completed[m]
    <3> SUFFICES ASSUME NEW m \in DOMAIN ring.completed, m # 1
                 PROVE  m - 1 \in DOMAIN rest /\ rest[m - 1] = ring.completed[m]
      OBVIOUS
    <3>1. m - 1 \in 1..(Len(ring.completed) - 1) /\ m - 1 + 1 = m
      BY <1>5, <1>9
    <3> QED BY <3>1, <1>5, <1>9
  <2>3. {rest[m].entry : m \in DOMAIN rest} =
          {ring.completed[m].entry : m \in DOMAIN ring.completed} \ {entry}
    <3>1. ASSUME NEW m \in DOMAIN rest
          PROVE  rest[m].entry \in {ring.completed[n].entry : n \in DOMAIN ring.completed} \ {entry}
      <4>1. rest[m] = ring.completed[m + 1]
        BY <1>5, <1>9
      <4> QED BY <4>1, <2>1, <1>10
    <3>2. ASSUME NEW m \in DOMAIN ring.completed, ring.completed[m].entry # entry
          PROVE  ring.completed[m].entry \in {rest[n].entry : n \in DOMAIN rest}
      <4>1. m # 1
        BY <3>2, <1>6, <1>7
      <4> QED BY <4>1, <2>2
    <3> QED BY <3>1, <3>2
  <2>4. Unreaped' = ring.inFlight \cup {rest[m].entry : m \in DOMAIN rest}
    BY <1>19 DEF Unreaped
  <2> QED BY <2>3, <2>4, <1>14 DEF Unreaped
<1>25. BytesAreOwed'
  <2>1. Owed' = OwedBy(Unreaped \ {entry}, reading.operations)
    BY <1>20, <1>24 DEF Owed, OwedBy
  <2>2. /\ IsFiniteSet(OwedBy(Unreaped, reading.operations))
        /\ counters.completed + Cardinality(OwedBy(Unreaped, reading.operations)) <=
             counters.submitted
    BY DEF ReadInv, BytesAreOwed, Owed
  <2>3. PICK entries, operations : entries = Unreaped /\ operations = reading.operations
    OBVIOUS
  <2>4. /\ IsFiniteSet(OwedBy(entries \ {entry}, operations))
        /\ Cardinality(OwedBy(entries, operations)) =
             Cardinality(OwedBy(entries \ {entry}, operations)) + operation.length
    BY <2>2, <2>3, <1>11, <1>12, <1>13, OwedShrinks
  <2>5. Cardinality(OwedBy(entries \ {entry}, operations)) \in Nat
    BY <2>4, FS_CardinalityType
  <2>6. counters.completed \in Nat /\ counters.submitted \in Nat
    BY <1>2
  <2>7. counters'.completed + Cardinality(OwedBy(entries \ {entry}, operations))
          <= counters'.submitted
    BY <2>2, <2>3, <2>4, <2>5, <2>6, <1>13, <1>18, <1>21
  <2> QED BY <2>1, <2>3, <2>4, <2>7 DEF BytesAreOwed
<1>26. RingIsSound'
  <2>1. Count' = Count
    BY <1>20 DEF Count
  <2>2. \A other \in Unreaped \ {entry} : IsOfBatch(other)'
    BY <1>3, <1>20, <1>21 DEF IsOfBatch
  <2>3. \A m \in DOMAIN rest : CompletionIsSound(m)'
    <3> TAKE m \in DOMAIN rest
    <3>1. rest[m] = ring.completed[m + 1] /\ m + 1 \in DOMAIN ring.completed
      BY <1>5, <1>9, <1>10
    <3>2. CompletionIsSound(m + 1)
      BY <3>1, <1>3
    <3> QED BY <3>1, <3>2, <1>19, <1>20, <1>21 DEF CompletionIsSound
  <2>4. ASSUME NEW m \in DOMAIN rest, NEW n \in DOMAIN rest, m # n
        PROVE  rest[m].entry # rest[n].entry
    <3>1. /\ rest[m] = ring.completed[m + 1] /\ m + 1 \in DOMAIN ring.completed
          /\ rest[n] = ring.completed[n + 1] /\ n + 1 \in DOMAIN ring.completed
      BY <1>5, <1>9, <1>10
    <3>2. m + 1 # n + 1
      <4>1. m \in Nat /\ n \in Nat
        BY <1>10
      <4> QED BY <4>1, <2>4
    <3> QED BY <3>1, <3>2, <1>3
  <2>5. /\ IsFiniteSet(Unreaped \ {entry})
        /\ Cardinality(Unreaped \ {entry}) + (reading.reaped + 1) = reading.submitted
    <3>1. /\ IsFiniteSet(Unreaped \ {entry})
          /\ Cardinality(Unreaped \ {entry}) = Cardinality(Unreaped) - 1
      BY <1>3, <1>11, FS_RemoveElement
    <3>2. Cardinality(Unreaped) \in Nat /\ reading.reaped \in Nat
      BY <1>2, <1>3, FS_CardinalityType
    <3>3. Cardinality(Unreaped) + reading.reaped = reading.submitted
      BY <1>3
    <3> QED BY <3>1, <3>2, <3>3
  <2>6. ASSUME error = "ok", NEW k \in (reading.base + 1)..(reading.base + reading.submitted)
        PROVE  IsDone(k)' \/ \E other \in Unreaped \ {entry} : other.index = k
    <3>1. reading.error = "ok" /\ ~(result < 0) /\ ~(result < operation.minimum)
      BY <2>6, <1>16
    <3>2. CASE IsDone(k)
      BY <3>2, <1>20 DEF IsDone
    <3>3. CASE k = entry.index
      <4>1. operation.minimum <= result
        BY <3>1, <1>8, <1>13
      <4>2. \A byte \in 0..(operation.minimum - 1) : byte \in 0..(result - 1)
        BY <4>1, <1>8, <1>13
      <4>3. Holds(reading.buffers, operation, operation.minimum)
        BY <4>2, <1>14 DEF Holds
      <4> QED BY <4>3, <3>3, <1>12, <1>20 DEF IsDone
    <3>4. CASE ~IsDone(k) /\ k # entry.index
      <4>1. PICK other \in Unreaped : other.index = k
        BY <3>1, <3>4, <1>3
      <4> QED BY <4>1, <3>4
    <3> QED BY <3>2, <3>3, <3>4
  <2>7. reading.failed \/ error # "ok" => counters'.faults > 0
    <3>1. CASE reading.failed \/ reading.error # "ok"
      BY <3>1, <1>3, <1>21
    <3>2. CASE reading.error = "ok" /\ error # "ok"
      <4>1. result < 0 \/ result < operation.minimum
        BY <3>2, <1>16
      <4>2. result < operation.minimum
        BY <4>1, <1>8, <1>13
      <4> QED BY <4>2, <1>14, <1>21
    <3> QED BY <3>1, <3>2
  <2>8. InBatch' <=> InBatch
    BY <1>20 DEF InBatch
  <2> QED BY <2>1, <2>2, <2>3, <2>4, <2>5, <2>6, <2>7, <2>8, <1>1, <1>3, <1>19, <1>20, <1>21, <1>24
          DEF RingIsSound
<1> QED BY <1>22, <1>23, <1>25, <1>26 DEF ReadInv

-----------------------------------------------------------------------------

LEMMA ReadStutters == ASSUME ReadInv, UNCHANGED readVars PROVE ReadInv'
<1>1. UNCHANGED <<plane, ring, reading, counters, answer>>
  BY DEF readVars
<1>2. ReadTypeOK'
  BY <1>1 DEF ReadInv, ReadTypeOK
<1>3. EngineWorks'
  BY <1>1 DEF ReadInv, EngineWorks
<1>4. RequestsAreSound'
  BY <1>1 DEF ReadInv, RequestsAreSound, Aligned, Direct, Valid
<1>5. PlanIsSound'
  <2>1. \A k \in DOMAIN reading.operations : IsOperation(reading.operations[k])'
    BY <1>1, ZenonT(40) DEF ReadInv, PlanIsSound, IsOperation, Aligned, Direct
  <2>2. reading.base <= Len(reading.operations)
    BY DEF ReadInv, PlanIsSound
  <2>3. CASE reading.pc \in {"idle", "plan"}
    BY <2>1, <2>2, <2>3, <1>1, SMTT(20) DEF ReadInv, PlanIsSound, IsPlanned, Aligned, Direct
  <2>4. CASE reading.pc \notin {"idle", "plan"}
    BY <2>2, <2>4, <1>1, PlanStays
  <2> QED BY <2>3, <2>4
<1>6. BuffersAreSound'
  BY <1>1 DEF ReadInv, BuffersAreSound, IsDone, Holds, Direct
<1>7. RingIsSound'
  <2>1. Unreaped' = Unreaped /\ Count' = Count
    BY <1>1 DEF Unreaped, Count
  <2> QED BY <2>1, <1>1, ZenonT(40)
          DEF ReadInv, RingIsSound, InBatch, IsOfBatch, CompletionIsSound, IsDone, Holds
<1>8. BytesAreOwed'
  <2>1. Owed' = Owed
    BY <1>1 DEF Owed, OwedBy, Unreaped
  <2> QED BY <2>1, <1>1 DEF ReadInv, BytesAreOwed
<1>9. AnswersAreRight'
  BY <1>1 DEF ReadInv, AnswersAreRight, Valid
<1> QED BY <1>2, <1>3, <1>4, <1>5, <1>6, <1>7, <1>8, <1>9 DEF ReadInv

\* The Reader keeps its invariant: the engine works in its own states, the plan
\* covers what was asked for, what came is where it belongs, and the ring holds
\* what the batch under way still waits for.
THEOREM ReaderKeepsItsInvariant == ReadSpec => []ReadInv
<1>1. ReadInit => ReadInv
  BY ReadBegins
<1>2. ReadInv /\ [ReadNext]_readVars => ReadInv'
  <2> SUFFICES ASSUME ReadInv, [ReadNext]_readVars
               PROVE  ReadInv'
    OBVIOUS
  <2>1. CASE \E requests \in RequestLists : Read(requests)
    BY <2>1, ReadKeeps
  <2>2. CASE ReadStep
    BY <2>2, PlanChunkKeeps, PlanNextKeeps, FinishKeeps, PreadKeeps, PrepareKeeps,
       SubmitEntryKeeps, SubmitFailsKeeps, ReapKeeps, WaitFailsKeeps, BatchEndsKeeps DEF ReadStep
  <2>3. CASE Lands
    BY <2>3, LandKeeps DEF Lands
  <2>4. CASE UNCHANGED readVars
    BY <2>4, ReadStutters
  <2> QED BY <2>1, <2>2, <2>3, <2>4 DEF ReadNext
<1> QED BY <1>1, <1>2, PTL DEF ReadSpec

LEMMA ReaderIsRight == ReadInv => ReadsAreRight
<1> SUFFICES ASSUME ReadInv PROVE ReadsAreRight
  OBVIOUS
<1>1. RingIsOfThisRead
  <2>1. CASE ~InBatch
    <3>1. ring.queue = <<>> /\ ring.inFlight = {} /\ ring.completed = <<>>
      BY <2>1 DEF ReadInv, RingIsSound, EmptyRing
    <3> QED BY <3>1 DEF RingIsOfThisRead
  <2>2. CASE InBatch
    <3>1. reading.pc # "idle" /\ plane.initialized
      BY <2>2 DEF InBatch, ReadInv, EngineWorks
    <3>2. \A k \in DOMAIN ring.queue : ring.queue[k].read = counters.reads
      <4>1. \A k \in DOMAIN ring.queue :
              ring.queue[k] = [index |-> reading.base + reading.submitted + k,
                               read |-> counters.reads]
        BY <2>2 DEF ReadInv, RingIsSound
      <4> TAKE k \in DOMAIN ring.queue
      <4>2. PICK index : index = reading.base + reading.submitted + k
        OBVIOUS
      <4>3. ring.queue[k] = [index |-> index, read |-> counters.reads]
        BY <4>1, <4>2
      <4> QED BY <4>3
    <3>3. \A entry \in Unreaped : entry.read = counters.reads
      BY <2>2 DEF ReadInv, RingIsSound, IsOfBatch
    <3> QED BY <3>1, <3>2, <3>3 DEF RingIsOfThisRead, Unreaped
  <2> QED BY <2>1, <2>2
<1>2. BytesAreAskedFor
  BY CompletedWasSubmitted DEF ReadInv, BytesAreAskedFor
<1> QED BY <1>1, <1>2 DEF ReadInv, ReadsAreRight

\* Whatever is asked of read_extents, by whichever engine (read_pread,
\* read_io_uring) and cache mode, in whatever order completions come and wherever
\* the kernel fails: an answer is the bytes of the file, a valid request only fails
\* after a fault, no read in flight outlives its buffer, and no more bytes are
\* counted as read than were asked for.
THEOREM ReadsBringTheFile == ReadSpec => []ReadsAreRight
BY ReaderKeepsItsInvariant, ReaderIsRight, PTL

-----------------------------------------------------------------------------
(* The resident layer.                                                     *)

TensorNames == DOMAIN TensorBytes
Capacities == [input : Nat, descriptors : Nat]
Captures == [key : Layers, scratch : Capacities]
Partial(keys, values) == UNION {[some -> values] : some \in SUBSET keys}
Graphs ==
  [entries : Partial(Layers, Captures), lastUse : [sequence : Nat, of : Partial(Layers, Nat)],
   update : SUBSET [executable : SUBSET Captures], identity : SUBSET Capacities]
LayerCalls ==
  [pc : {"idle", "acquire", "reserve", "identify", "graph", "launch", "settle"},
   request : Layers \cup {<<>>}, acquired : Nat, bypass : BOOLEAN, candidate : SUBSET Captures]

Spendings == [calls : Nat, faults : Nat]
LayerTypeOK ==
  /\ mode \in {"disabled", "update", "cache"}
  /\ resident \in [tensors : SUBSET TensorNames, bytes : Nat]
  /\ scratch \in Capacities /\ graphs \in Graphs /\ layerCall \in LayerCalls
  /\ touched \in Seq(Layers) /\ spent \in Spendings

\* The table holds what its account says, and all that a kept graph names.
TableIsSound ==
  /\ IsFiniteSet(BytesOf(resident.tensors))
  /\ resident.bytes = Cardinality(BytesOf(resident.tensors)) /\ resident.bytes <= WeightCapacity
  /\ \A key \in DOMAIN graphs.entries : AreResident(key)

\* A call has found every tensor it asked for until now, unless one was bypassed;
\* past that it has all of them.  It has a graph of its own or one that is kept.
CallIsSound ==
  /\ layerCall.pc # "idle" => layerCall.request \in Layers
  /\ layerCall.pc = "acquire" =>
       /\ layerCall.acquired <= Len(Asked)
       /\ ~layerCall.bypass => \A k \in 1..layerCall.acquired : Asked[k] \in resident.tensors
  /\ layerCall.pc \notin {"idle", "acquire"} => AreResident(layerCall.request)
  /\ layerCall.pc \in {"identify", "graph"} => mode # "disabled"
  /\ layerCall.pc \in {"graph", "launch", "settle"} /\ mode # "disabled" => graphs.identity = {scratch}
  /\ layerCall.pc \notin {"launch", "settle"} => layerCall.candidate = {}
  /\ layerCall.candidate # {} => mode # "disabled" /\ layerCall.candidate = {Captured}
  /\ layerCall.pc = "launch" /\ mode # "disabled" => Cached \/ layerCall.candidate # {}

\* A kept graph is of its key and of the buffers of the identity.
EntriesAreSound ==
  \A key \in DOMAIN graphs.entries :
    graphs.entries[key].key = key /\ graphs.identity = {graphs.entries[key].scratch}

\* The index knows when each of its keys was used last; a key it does not know was
\* used before all of those, of which there are as many as it has room for.
At(index, uses, key) == index.of[key] - (index.sequence - Len(uses))
Knows(index, uses) ==
  /\ IsFiniteSet(DOMAIN index.of) /\ Cardinality(DOMAIN index.of) <= GraphCapacity
  /\ Len(uses) <= index.sequence
  /\ \A key \in DOMAIN index.of :
       /\ At(index, uses, key) \in DOMAIN uses /\ uses[At(index, uses, key)] = key
       /\ \A j \in DOMAIN uses : uses[j] = key => j <= At(index, uses, key)
  /\ \A j \in DOMAIN uses :
       uses[j] \notin DOMAIN index.of =>
         /\ Cardinality(DOMAIN index.of) = GraphCapacity
         /\ \A key \in DOMAIN index.of : j < At(index, uses, key)
IndexIsSound ==
  /\ DOMAIN graphs.entries = DOMAIN graphs.lastUse.of
  /\ Knows(graphs.lastUse, touched)

LayerInv ==
  /\ LayerTypeOK /\ TableIsSound /\ CallIsSound /\ EntriesAreSound /\ IndexIsSound
  /\ LaunchesAreCurrent

-----------------------------------------------------------------------------
(* The index.                                                              *)

LEMMA LeastIsFirst ==
  ASSUME NEW S, S # {}, NEW f \in [S -> Nat]
  PROVE  \E v \in S : \A k \in S : f[v] <= f[k]
<1> DEFINE before == {pair \in Nat \X Nat : pair[1] < pair[2]}
           values == {f[k] : k \in S}
<1>1. IsWellFoundedOn(before, Nat)
  BY NatLessThanWellFounded DEF OpToRel
<1>2. values \subseteq Nat /\ values # {}
  OBVIOUS
<1>3. PICK x \in values : \A y \in values : ~(<<y, x>> \in before)
  <2> HIDE DEF before, values
  <2> QED BY <1>1, <1>2, WFMin
<1>4. \A y \in values : x <= y
  <2> TAKE y \in values
  <2>1. x \in Nat /\ y \in Nat
    BY <1>2
  <2>2. ~(y < x)
    BY <2>1, <1>3
  <2> QED BY <2>1, <2>2
<1>5. PICK v \in S : f[v] = x
  OBVIOUS
<1>6. \A k \in S : f[k] \in values
  OBVIOUS
<1> QED BY <1>4, <1>5, <1>6

LEMMA PartialFunctions ==
  ASSUME NEW keys, NEW values, NEW f
  PROVE  f \in Partial(keys, values) <=> f \in [DOMAIN f -> values] /\ DOMAIN f \subseteq keys
BY DEF Partial

LEMMA WithIsPartial ==
  ASSUME NEW keys, NEW values, NEW f \in Partial(keys, values), NEW key \in keys, NEW value \in values
  PROVE  With(f, key, value) \in Partial(keys, values)
<1> DEFINE after == With(f, key, value)
<1>1. f \in [DOMAIN f -> values] /\ DOMAIN f \subseteq keys
  BY PartialFunctions
<1>2. /\ DOMAIN after = DOMAIN f \cup {key}
      /\ \A k \in DOMAIN after : after[k] = IF k = key THEN value ELSE f[k]
      /\ after = [k \in DOMAIN f \cup {key} |-> after[k]]
  BY DEF With
<1>3. after \in [DOMAIN after -> values]
  BY <1>1, <1>2
<1> QED BY <1>1, <1>2, <1>3, PartialFunctions

LEMMA WithoutIsPartial ==
  ASSUME NEW keys, NEW values, NEW f \in Partial(keys, values), NEW gone,
         NEW after, after = [k \in DOMAIN f \ gone |-> f[k]]
  PROVE  /\ after \in Partial(keys, values) /\ DOMAIN after = DOMAIN f \ gone
         /\ \A k \in DOMAIN after : after[k] = f[k]
<1>1. f \in [DOMAIN f -> values] /\ DOMAIN f \subseteq keys
  BY PartialFunctions
<1>2. after \in [DOMAIN after -> values] /\ DOMAIN after = DOMAIN f \ gone
  BY <1>1
<1> QED BY <1>1, <1>2, PartialFunctions

\* A touch puts its key last, and takes away the key used longest ago if there
\* is no room.
LEMMA TouchKeeps ==
  ASSUME NEW index \in [sequence : Nat, of : Partial(Layers, Nat)], NEW uses \in Seq(Layers),
         Knows(index, uses), NEW key \in Layers, NEW touch, touch = Touch(index, key)
  PROVE  /\ touch.index \in [sequence : Nat, of : Partial(Layers, Nat)]
         /\ DOMAIN touch.index.of = (DOMAIN index.of \ touch.evicted) \cup {key}
         /\ Append(uses, key) \in Seq(Layers) /\ Knows(touch.index, Append(uses, key))
         /\ key \in DOMAIN index.of => touch.evicted = {}
<1>1. PICK of : of = index.of
  OBVIOUS
<1>2. /\ of \in Partial(Layers, Nat) /\ of \in [DOMAIN of -> Nat] /\ DOMAIN of \subseteq Layers
      /\ index.sequence \in Nat
  BY <1>1, PartialFunctions
<1>3. PICK full \in BOOLEAN : full <=> key \notin DOMAIN of /\ Cardinality(DOMAIN of) = GraphCapacity
  OBVIOUS
<1>4. PICK victim :
        victim = CHOOSE k \in DOMAIN index.of : \A j \in DOMAIN index.of : index.of[k] <= index.of[j]
  OBVIOUS
<1>5. PICK kept : kept = IF full THEN Without(of, victim) ELSE of
  OBVIOUS
<1>6. PICK evicted : evicted = IF full THEN {victim} ELSE {}
  OBVIOUS
<1>7. PICK next : next = index.sequence + 1
  OBVIOUS
<1>8. PICK after : after = With(kept, key, next)
  OBVIOUS
<1>9. touch = [index |-> [sequence |-> next, of |-> after], evicted |-> evicted]
  <2>1. CASE full
    <3>1. key \notin DOMAIN index.of /\ Cardinality(DOMAIN index.of) = GraphCapacity
      BY <2>1, <1>1, <1>3
    <3>2. kept = Without(index.of, victim) /\ evicted = {victim}
      BY <2>1, <1>1, <1>5, <1>6
    <3> QED BY <3>1, <3>2, <1>4, <1>7, <1>8 DEF Touch
  <2>2. CASE ~full
    <3>1. ~(key \notin DOMAIN index.of /\ Cardinality(DOMAIN index.of) = GraphCapacity)
      BY <2>2, <1>1, <1>3
    <3>2. kept = index.of /\ evicted = {}
      BY <2>2, <1>1, <1>5, <1>6
    <3> QED BY <3>1, <3>2, <1>7, <1>8 DEF Touch
  <2> QED BY <2>1, <2>2
<1>10. GraphCapacity \in Nat /\ GraphCapacity # 0
  BY LayerConstants DEF LayerAssumption
<1>11. IsFiniteSet(DOMAIN of) /\ Cardinality(DOMAIN of) \in Nat /\ Cardinality(DOMAIN of) <= GraphCapacity
  BY <1>1, FS_CardinalityType DEF Knows
<1>12. full => victim \in DOMAIN of /\ \A j \in DOMAIN of : of[victim] <= of[j]
  <2> SUFFICES ASSUME full
               PROVE  victim \in DOMAIN of /\ \A j \in DOMAIN of : of[victim] <= of[j]
    OBVIOUS
  <2>1. DOMAIN of # {}
    BY <1>3, <1>10, FS_EmptySet
  <2>2. \E v \in DOMAIN of : \A k \in DOMAIN of : of[v] <= of[k]
    BY <2>1, <1>2, LeastIsFirst
  <2>3. \E v \in DOMAIN index.of : \A k \in DOMAIN index.of : index.of[v] <= index.of[k]
    BY <2>2, <1>1
  <2>4. victim \in DOMAIN index.of /\ \A k \in DOMAIN index.of : index.of[victim] <= index.of[k]
    BY <2>3, <1>4
  <2> QED BY <2>4, <1>1
<1>13. /\ kept \in Partial(Layers, Nat) /\ DOMAIN kept = DOMAIN of \ evicted
       /\ \A k \in DOMAIN kept : kept[k] = of[k]
  <2>1. CASE full
    <3>1. kept = [k \in DOMAIN of \ evicted |-> of[k]]
      BY <2>1, <1>5, <1>6 DEF Without
    <3> QED BY <3>1, <1>2, WithoutIsPartial
  <2>2. CASE ~full
    BY <2>2, <1>2, <1>5, <1>6
  <2> QED BY <2>1, <2>2
<1>14. next \in Nat
  BY <1>2, <1>7
<1>15. /\ after \in Partial(Layers, Nat) /\ DOMAIN after = (DOMAIN of \ evicted) \cup {key}
       /\ after[key] = next /\ \A k \in DOMAIN of \ evicted : k # key => after[k] = of[k]
  <2>1. /\ after \in Partial(Layers, Nat) /\ DOMAIN after = DOMAIN kept \cup {key}
        /\ after[key] = next /\ \A k \in DOMAIN kept : k # key => after[k] = kept[k]
    <3>1. kept \in Partial(Layers, Nat)
      BY <1>13
    <3>2. With(kept, key, next) \in Partial(Layers, Nat)
      BY <3>1, <1>14, WithIsPartial
    <3>3. /\ DOMAIN With(kept, key, next) = DOMAIN kept \cup {key}
          /\ With(kept, key, next)[key] = next
          /\ \A k \in DOMAIN kept : k # key => With(kept, key, next)[k] = kept[k]
      BY DEF With
    <3> QED BY <3>2, <3>3, <1>8
  <2> QED BY <2>1, <1>13
<1>16. PICK used : used = Append(uses, key)
  OBVIOUS
<1>17. PICK n : n = Len(uses)
  OBVIOUS
<1>18. /\ used \in Seq(Layers) /\ Len(used) = n + 1 /\ n \in Nat /\ used[n + 1] = key
       /\ DOMAIN used = 1..(n + 1) /\ DOMAIN uses = 1..n
       /\ \A j \in 1..n : used[j] = uses[j]
  <2>1. /\ used \in Seq(Layers) /\ Len(used) = n + 1 /\ used[n + 1] = key
        /\ \A j \in 1..n : used[j] = uses[j]
    BY <1>16, <1>17, AppendProperties
  <2>2. n \in Nat /\ DOMAIN uses = 1..n
    BY <1>17
  <2> QED BY <2>1, <2>2
<1>19. PICK offset : offset = index.sequence - n
  OBVIOUS
<1>20. offset \in Nat /\ next - (n + 1) = offset
  <2>1. n <= index.sequence
    BY <1>17 DEF Knows
  <2> QED BY <2>1, <1>2, <1>7, <1>18, <1>19
<1>21. \A k \in DOMAIN of :
         /\ of[k] - offset \in 1..n /\ uses[of[k] - offset] = k /\ of[k] \in Nat
         /\ \A j \in 1..n : uses[j] = k => j <= of[k] - offset
  BY <1>1, <1>2, <1>17, <1>18, <1>19 DEF Knows, At
<1>22. \A j \in 1..n :
         uses[j] \notin DOMAIN of =>
           /\ Cardinality(DOMAIN of) = GraphCapacity
           /\ \A k \in DOMAIN of : j < of[k] - offset
  BY <1>1, <1>17, <1>18, <1>19 DEF Knows, At
<1>23. IsFiniteSet(DOMAIN after) /\ Cardinality(DOMAIN after) <= GraphCapacity
       /\ (full => Cardinality(DOMAIN after) = GraphCapacity)
       /\ (key \in DOMAIN of => Cardinality(DOMAIN after) = Cardinality(DOMAIN of))
  <2>1. CASE key \in DOMAIN of
    <3>1. evicted = {} /\ DOMAIN after = DOMAIN of /\ ~full
      BY <2>1, <1>3, <1>6, <1>15
    <3> QED BY <3>1, <1>11
  <2>2. CASE key \notin DOMAIN of /\ ~full
    <3>1. DOMAIN after = DOMAIN of \cup {key}
      BY <2>2, <1>6, <1>15
    <3>2. IsFiniteSet(DOMAIN after) /\ Cardinality(DOMAIN after) = Cardinality(DOMAIN of) + 1
      BY <2>2, <3>1, <1>11, FS_AddElement
    <3>3. Cardinality(DOMAIN of) # GraphCapacity
      BY <2>2, <1>3
    <3>4. Cardinality(DOMAIN of) + 1 <= GraphCapacity
      BY <3>3, <1>10, <1>11
    <3> QED BY <2>2, <3>2, <3>4
  <2>3. CASE full
    <3>1. DOMAIN after = (DOMAIN of \ {victim}) \cup {key} /\ key \notin DOMAIN of
      BY <2>3, <1>3, <1>6, <1>15
    <3>2. /\ IsFiniteSet(DOMAIN of \ {victim})
          /\ Cardinality(DOMAIN of \ {victim}) = Cardinality(DOMAIN of) - 1
      BY <2>3, <1>11, <1>12, FS_RemoveElement
    <3>3. key \notin DOMAIN of \ {victim}
      BY <3>1
    <3>4. /\ IsFiniteSet(DOMAIN after)
          /\ Cardinality(DOMAIN after) = Cardinality(DOMAIN of \ {victim}) + 1
      <4>1. PICK rest : rest = DOMAIN of \ {victim}
        OBVIOUS
      <4>2. IsFiniteSet(rest) /\ key \notin rest /\ DOMAIN after = rest \cup {key}
        BY <4>1, <3>1, <3>2, <3>3
      <4>3. /\ IsFiniteSet(rest \cup {key})
            /\ Cardinality(rest \cup {key}) = Cardinality(rest) + 1
        BY <4>2, FS_AddElement
      <4> QED BY <4>1, <4>2, <4>3
    <3>5. Cardinality(DOMAIN after) = Cardinality(DOMAIN of)
      BY <3>2, <3>4, <1>11
    <3> QED BY <3>1, <3>4, <3>5, <2>3, <1>3, <1>10
  <2> QED BY <2>1, <2>2, <2>3
<1>24. \A k \in DOMAIN after :
         /\ after[k] - offset \in 1..(n + 1) /\ used[after[k] - offset] = k
         /\ \A j \in 1..(n + 1) : used[j] = k => j <= after[k] - offset
  <2> TAKE k \in DOMAIN after
  <2>1. CASE k = key
    <3>1. after[k] - offset = n + 1
      BY <2>1, <1>14, <1>15, <1>18, <1>20
    <3>2. n + 1 \in 1..(n + 1) /\ \A j \in 1..(n + 1) : j <= n + 1
      BY <1>18
    <3> QED BY <2>1, <3>1, <3>2, <1>18
  <2>2. CASE k # key
    <3>1. k \in DOMAIN of /\ after[k] = of[k]
      BY <2>2, <1>15
    <3>2. PICK at : at = of[k] - offset
      OBVIOUS
    <3>3. /\ at \in 1..n /\ uses[at] = k
          /\ \A j \in 1..n : uses[j] = k => j <= at
      BY <3>1, <3>2, <1>21
    <3>4. at \in 1..(n + 1) /\ used[at] = k
      BY <3>3, <1>18
    <3>5. ASSUME NEW j \in 1..(n + 1), used[j] = k PROVE j <= at
      <4>1. j # n + 1
        BY <2>2, <3>5, <1>18
      <4>2. j \in 1..n
        BY <4>1, <1>18
      <4> QED BY <4>2, <3>3, <3>5, <1>18
    <3> QED BY <3>1, <3>2, <3>4, <3>5
  <2> QED BY <2>1, <2>2
<1>25. ASSUME NEW j \in 1..(n + 1), used[j] \notin DOMAIN after
       PROVE  /\ Cardinality(DOMAIN after) = GraphCapacity
              /\ \A k \in DOMAIN after : j < after[k] - offset
  <2>1. j \in 1..n
    <3>1. j # n + 1
      BY <1>15, <1>18, <1>25
    <3> QED BY <3>1, <1>18
  <2>2. used[j] = uses[j] /\ used[j] # key
    BY <2>1, <1>15, <1>18, <1>25
  <2>3. j < after[key] - offset
    <3>1. after[key] - offset = n + 1
      BY <1>14, <1>15, <1>18, <1>20
    <3>2. j < n + 1
      BY <2>1, <1>18
    <3> QED BY <3>1, <3>2
  <2>4. CASE uses[j] \notin DOMAIN of
    <3>1. Cardinality(DOMAIN of) = GraphCapacity /\ \A k \in DOMAIN of : j < of[k] - offset
      BY <2>1, <2>4, <1>22
    <3>2. full \/ key \in DOMAIN of
      BY <3>1, <1>3
    <3>3. Cardinality(DOMAIN after) = GraphCapacity
      BY <3>1, <3>2, <1>23
    <3>4. \A k \in DOMAIN after : k # key => k \in DOMAIN of /\ after[k] = of[k]
      BY <1>15
    <3> QED BY <3>1, <3>3, <3>4, <2>3
  <2>5. CASE uses[j] \in DOMAIN of
    <3>1. full /\ uses[j] = victim
      BY <2>2, <2>5, <1>6, <1>15, <1>25
    <3>2. Cardinality(DOMAIN after) = GraphCapacity
      BY <3>1, <1>23
    <3>3. j <= of[victim] - offset
      BY <2>1, <3>1, <1>12, <1>21
    <3>4. ASSUME NEW k \in DOMAIN after, k # key PROVE j < after[k] - offset
      <4>1. k \in DOMAIN of /\ k # victim /\ after[k] = of[k]
        BY <3>1, <3>4, <1>6, <1>15
      <4>2. of[victim] <= of[k] /\ of[victim] \in Nat /\ of[k] \in Nat
        BY <3>1, <4>1, <1>12, <1>21
      <4>3. of[victim] # of[k]
        BY <3>1, <4>1, <1>12, <1>21
      <4>4. j \in Int /\ offset \in Int
        BY <2>1, <1>20
      <4>5. j < of[k] - offset
        BY <3>3, <4>2, <4>3, <4>4
      <4> QED BY <4>1, <4>5
    <3> QED BY <3>2, <3>4, <2>3
  <2> QED BY <2>4, <2>5
<1>26. Knows([sequence |-> next, of |-> after], used)
  <2>1. n + 1 <= next
    BY <1>2, <1>7, <1>18, <1>19, <1>20
  <2>2. PICK new : new = [sequence |-> next, of |-> after]
    OBVIOUS
  <2>3. new.sequence = next /\ new.of = after
    BY <2>2
  <2>4. \A k : At(new, used, k) = after[k] - offset
    BY <2>3, <1>18, <1>20 DEF At
  <2> QED BY <2>1, <2>2, <2>3, <2>4, <1>18, <1>23, <1>24, <1>25 DEF Knows
<1>27. key \in DOMAIN index.of => evicted = {}
  BY <1>1, <1>3, <1>6
<1> QED BY <1>1, <1>9, <1>14, <1>15, <1>16, <1>18, <1>26, <1>27

\* What an index knows are the keys used last.
LEMMA KnownAreUsedLast ==
  ASSUME LayerTypeOK, Knows(graphs.lastUse, touched)
  PROVE  UsedLast = DOMAIN graphs.lastUse.of
<1> DEFINE of == graphs.lastUse.of
           offset == graphs.lastUse.sequence - Len(touched)
           n == Len(touched)
           Later(k) == {touched[j] : j \in (k + 1)..n}
<1>1. n \in Nat /\ DOMAIN touched = 1..n
  BY DEF LayerTypeOK
<1>2. \A k \in DOMAIN of :
        /\ of[k] - offset \in 1..n /\ touched[of[k] - offset] = k
        /\ \A j \in 1..n : touched[j] = k => j <= of[k] - offset
  BY <1>1 DEF Knows, At
<1>3. \A j \in 1..n :
        touched[j] \notin DOMAIN of =>
          /\ Cardinality(DOMAIN of) = GraphCapacity
          /\ \A k \in DOMAIN of : j < of[k] - offset
  BY <1>1 DEF Knows, At
<1>4. /\ IsFiniteSet(DOMAIN of) /\ Cardinality(DOMAIN of) \in Nat
      /\ Cardinality(DOMAIN of) <= GraphCapacity /\ GraphCapacity \in Nat
  BY FS_CardinalityType, LayerConstants DEF Knows, LayerAssumption
<1>5. UsedLast = {touched[k] : k \in {i \in 1..n : Cardinality(Later(i) \ {touched[i]}) < GraphCapacity}}
  BY <1>1 DEF UsedLast
<1>6. \A i \in 1..n : IsFiniteSet(Later(i) \ {touched[i]})
  <2> TAKE i \in 1..n
  <2>1. i + 1 \in Int /\ n \in Int
    BY <1>1
  <2>2. IsFiniteSet((i + 1)..n)
    BY <2>1, FS_Interval
  <2>3. IsFiniteSet(Later(i))
    <3>1. PICK when : when = (i + 1)..n
      OBVIOUS
    <3>2. PICK used : used = [j \in when |-> touched[j]]
      OBVIOUS
    <3>3. \A j \in when : used[j] = touched[j]
      BY <3>2
    <3>4. used \in Surjection(when, Later(i))
      BY <3>1, <3>2, <3>3 DEF Surjection
    <3>5. IsFiniteSet(when)
      BY <2>2, <3>1
    <3> QED BY <3>4, <3>5, FS_Surjection
  <2> QED BY <2>3, FS_Subset
<1> HIDE DEF of, offset, n
<1>7. ASSUME NEW key \in DOMAIN of PROVE key \in UsedLast
  <2>1. PICK i : i = of[key] - offset
    OBVIOUS
  <2>2. i \in 1..n /\ touched[i] = key /\ \A j \in 1..n : touched[j] = key => j <= i
    BY <2>1, <1>2
  <2>3. Later(i) \ {key} \subseteq DOMAIN of \ {key}
    <3> SUFFICES ASSUME NEW j \in (i + 1)..n PROVE touched[j] \in DOMAIN of
      OBVIOUS
    <3>1. j \in 1..n /\ ~(j < i)
      BY <2>2, <1>1
    <3> QED BY <3>1, <2>1, <1>3
  <2>4. /\ IsFiniteSet(DOMAIN of \ {key})
        /\ Cardinality(DOMAIN of \ {key}) = Cardinality(DOMAIN of) - 1
    BY <1>4, FS_RemoveElement
  <2>5. Cardinality(Later(i) \ {key}) <= Cardinality(DOMAIN of \ {key})
        /\ Cardinality(Later(i) \ {key}) \in Nat
    <3>1. IsFiniteSet(Later(i) \ {key})
      BY <2>3, <2>4, FS_Subset
    <3> QED BY <3>1, <2>3, <2>4, FS_Subset, FS_CardinalityType
  <2>6. Cardinality(Later(i) \ {touched[i]}) < GraphCapacity
    <3>1. Cardinality(Later(i) \ {key}) < GraphCapacity
      BY <2>4, <2>5, <1>4
    <3> QED BY <3>1, <2>2
  <2> HIDE DEF Later
  <2> QED BY <2>2, <2>6, <1>5
<1>8. ASSUME NEW i \in 1..n, Cardinality(Later(i) \ {touched[i]}) < GraphCapacity
      PROVE  touched[i] \in DOMAIN of
  <2> SUFFICES ASSUME touched[i] \notin DOMAIN of PROVE FALSE
    OBVIOUS
  <2>1. Cardinality(DOMAIN of) = GraphCapacity /\ \A k \in DOMAIN of : i < of[k] - offset
    BY <1>3
  <2>2. DOMAIN of \subseteq Later(i) \ {touched[i]}
    <3> SUFFICES ASSUME NEW k \in DOMAIN of PROVE k \in Later(i)
      OBVIOUS
    <3>1. PICK j : j = of[k] - offset
      OBVIOUS
    <3>2. j \in 1..n /\ touched[j] = k /\ i < j
      BY <3>1, <2>1, <1>2
    <3>3. j \in (i + 1)..n
      BY <3>2, <1>1
    <3> QED BY <3>2, <3>3
  <2>3. /\ Cardinality(DOMAIN of) <= Cardinality(Later(i) \ {touched[i]})
        /\ Cardinality(Later(i) \ {touched[i]}) \in Nat
    BY <2>2, <1>6, FS_Subset, FS_CardinalityType
  <2> QED BY <2>1, <2>3, <1>4, <1>8
<1>9. UsedLast \subseteq DOMAIN of
  <2> HIDE DEF Later
  <2> QED BY <1>5, <1>8
<1> QED BY <1>7, <1>9 DEF of

-----------------------------------------------------------------------------
(* Types.                                                                  *)

LEMMA TensorsAreNamed ==
  ASSUME NEW request \in Layers
  PROVE  /\ Tensors(request) \in Seq(TensorNames) /\ Len(Tensors(request)) \in Nat
         /\ DOMAIN Tensors(request) = 1..Len(Tensors(request))
         /\ \A k \in 1..Len(Tensors(request)) : Tensors(request)[k] \in TensorNames
<1>1. request.dense \in TensorNames /\ request.experts \in Seq(TensorNames)
  BY LayerConstants DEF LayerAssumption, TensorNames
<1>2. <<request.dense>> \in Seq(TensorNames)
  BY <1>1
<1>3. Tensors(request) \in Seq(TensorNames)
  BY <1>1, <1>2, ConcatProperties DEF Tensors
<1> HIDE DEF Tensors
<1> QED BY <1>3, LenProperties, ElementOfSeq

LEMMA NoCallIsTyped == NoCall \in LayerCalls /\ NoCall.pc = "idle" /\ NoCall.candidate = {}
BY DEF NoCall, LayerCalls

LEMMA NothingKept ==
  /\ \A values : <<>> \in Partial(Layers, values) /\ DOMAIN <<>> = {}
  /\ \A n \in Nat : Knows([sequence |-> n, of |-> <<>>], <<>>)
<1>1. DOMAIN <<>> = {} /\ Len(<<>>) = 0
  OBVIOUS
<1>2. ASSUME NEW values PROVE <<>> \in Partial(Layers, values)
  <2>1. <<>> \in [DOMAIN <<>> -> values]
    BY <1>1
  <2> QED BY <1>1, <2>1, PartialFunctions
<1>3. ASSUME NEW n \in Nat PROVE Knows([sequence |-> n, of |-> <<>>], <<>>)
  <2>1. PICK index : index = [sequence |-> n, of |-> <<>>]
    OBVIOUS
  <2>2. index.sequence = n /\ index.of = <<>> /\ DOMAIN index.of = {}
    BY <2>1, <1>1
  <2>3. IsFiniteSet({}) /\ Cardinality({}) = 0 /\ 0 <= GraphCapacity
    BY FS_EmptySet, LayerConstants DEF LayerAssumption
  <2>4. Knows(index, <<>>)
    BY <2>2, <2>3, <1>1 DEF Knows
  <2> QED BY <2>1, <2>4
<1> QED BY <1>1, <1>2, <1>3

LEMMA BytesGrow ==
  ASSUME NEW tensors, IsFiniteSet(BytesOf(tensors)), NEW tensor \in TensorNames, tensor \notin tensors
  PROVE  /\ IsFiniteSet(BytesOf(tensors \cup {tensor}))
         /\ Cardinality(BytesOf(tensors \cup {tensor})) =
              Cardinality(BytesOf(tensors)) + TensorBytes[tensor]
<1>1. PICK length : length = TensorBytes[tensor]
  OBVIOUS
<1>2. length \in Nat
  BY <1>1, LayerConstants DEF LayerAssumption, TensorNames
<1>3. PICK new : new = {tensor} \X (1..length)
  OBVIOUS
<1>4. PICK old : old = BytesOf(tensors)
  OBVIOUS
<1>5. BytesOf(tensors \cup {tensor}) = old \cup new
  BY <1>1, <1>3, <1>4 DEF BytesOf
<1>6. old \cap new = {}
  BY <1>3, <1>4 DEF BytesOf
<1>7. IsFiniteSet({tensor}) /\ Cardinality({tensor}) = 1
  BY FS_Singleton
<1>8. IsFiniteSet(1..length) /\ Cardinality(1..length) = length
  <2>1. 1 \in Int /\ length \in Int
    BY <1>2
  <2>2. IsFiniteSet(1..length) /\ Cardinality(1..length) = IF 1 > length THEN 0 ELSE length - 1 + 1
    BY <2>1, FS_Interval, Zenon
  <2> QED BY <2>2, <1>2
<1>9. IsFiniteSet(new) /\ Cardinality(new) = length
  <2>1. IsFiniteSet(new) /\ Cardinality(new) = Cardinality({tensor}) * Cardinality(1..length)
    BY <1>3, <1>7, <1>8, FS_Product
  <2> QED BY <2>1, <1>2, <1>7, <1>8
<1>10. IsFiniteSet(old) /\ Cardinality(old) \in Nat /\ Cardinality({}) = 0
  BY <1>4, FS_CardinalityType, FS_EmptySet
<1>11. /\ IsFiniteSet(old \cup new)
       /\ Cardinality(old \cup new) = Cardinality(old) + Cardinality(new) - Cardinality(old \cap new)
  BY <1>9, <1>10, FS_Union
<1>12. Cardinality(old \cup new) = Cardinality(old) + length
  <2>1. Cardinality(old \cap new) = 0
    BY <1>6, <1>10
  <2>2. Cardinality(old \cup new) = Cardinality(old) + length - 0
    BY <2>1, <1>9, <1>11
  <2> QED BY <2>2, <1>2, <1>10
<1> QED BY <1>1, <1>4, <1>5, <1>11, <1>12

-----------------------------------------------------------------------------
(* The steps.                                                              *)

LEMMA LayerBegins == LayerInit => LayerInv
<1> SUFFICES ASSUME LayerInit PROVE LayerInv
  OBVIOUS
<1> USE DEF LayerInit
<1>1. /\ graphs = NoGraphs /\ graphs.entries = <<>> /\ DOMAIN graphs.entries = {}
      /\ graphs.lastUse = [sequence |-> 0, of |-> <<>>] /\ DOMAIN graphs.lastUse.of = {}
  BY NothingKept DEF NoGraphs
<1>2. LayerTypeOK
  <2>1. graphs \in Graphs
    <3>1. <<>> \in Partial(Layers, Captures) /\ <<>> \in Partial(Layers, Nat)
      BY NothingKept
    <3> QED BY <3>1 DEF NoGraphs, Graphs
  <2>2. resident \in [tensors : SUBSET TensorNames, bytes : Nat]
    OBVIOUS
  <2>3. scratch \in Capacities
    BY DEF Capacities
  <2>4. spent \in Spendings /\ touched \in Seq(Layers)
    BY DEF Spendings
  <2> QED BY <2>1, <2>2, <2>3, <2>4, NoCallIsTyped DEF LayerTypeOK
<1>3. TableIsSound
  <2>1. BytesOf({}) = {}
    BY DEF BytesOf
  <2>2. IsFiniteSet({}) /\ Cardinality({}) = 0
    BY FS_EmptySet
  <2>3. 0 <= WeightCapacity
    BY LayerConstants DEF LayerAssumption
  <2> QED BY <2>1, <2>2, <2>3, <1>1 DEF TableIsSound
<1>4. CallIsSound
  BY NoCallIsTyped DEF CallIsSound
<1>5. IndexIsSound
  BY <1>1, NothingKept DEF IndexIsSound
<1> QED BY <1>1, <1>2, <1>3, <1>4, <1>5 DEF LayerInv, EntriesAreSound, LaunchesAreCurrent

\* A step of a call that leaves the table, the graphs and the launches alone.
LEMMA CallMoves ==
  ASSUME LayerInv, UNCHANGED <<mode, resident, graphs, launched, touched>>, scratch' \in Capacities,
         layerCall' \in LayerCalls, spent' \in Spendings, CallIsSound'
  PROVE  LayerInv'
<1>1. LayerTypeOK'
  BY DEF LayerInv, LayerTypeOK
<1>2. TableIsSound'
  BY DEF LayerInv, TableIsSound, AreResident
<1>3. EntriesAreSound'
  BY DEF LayerInv, EntriesAreSound
<1>4. IndexIsSound'
  BY DEF LayerInv, IndexIsSound
<1>5. LaunchesAreCurrent'
  BY DEF LayerInv, LaunchesAreCurrent
<1> QED BY <1>1, <1>2, <1>3, <1>4, <1>5 DEF LayerInv

LEMMA IdleIsSound ==
  ASSUME layerCall'.pc = "idle", layerCall'.candidate = {} PROVE CallIsSound'
BY DEF CallIsSound

LEMMA LayerFaultCounts == ASSUME LayerInv, CudaFails PROVE spent' \in Spendings
BY DEF CudaFails, LayerInv, LayerTypeOK, Spendings

LEMMA CallGivesUp ==
  ASSUME LayerInv, CudaFails, Gives, UNCHANGED <<mode, resident, graphs, launched, touched>>,
         scratch' \in Capacities
  PROVE  LayerInv'
<1>1. layerCall' \in LayerCalls /\ CallIsSound'
  BY NoCallIsTyped, IdleIsSound DEF Gives
<1>2. spent' \in Spendings
  BY LayerFaultCounts
<1> QED BY <1>1, <1>2, CallMoves

LEMMA ScratchGrows ==
  ASSUME LayerInv, NEW needs \in Capacities, NEW which
  PROVE  Grown(scratch, needs, which) \in Capacities
<1>1. scratch \in Capacities
  BY DEF LayerInv, LayerTypeOK
<1>2. \A b \in DOMAIN scratch : needs[b] \in Nat /\ scratch[b] \in Nat
  BY <1>1 DEF Capacities
<1>3. DOMAIN scratch = {"input", "descriptors"}
  BY <1>1 DEF Capacities
<1> QED BY <1>1, <1>2, <1>3 DEF Grown, Capacities

LEMMA RequestIsCounted ==
  ASSUME LayerInv, spent' = [spent EXCEPT !.calls = @ + 1] PROVE spent' \in Spendings
BY DEF LayerInv, LayerTypeOK, Spendings

LEMMA AskKeeps == ASSUME LayerInv, NEW request \in Layers, Ask(request) PROVE LayerInv'
<1> USE DEF Ask
<1>1. PICK call : call = layerCall'
  OBVIOUS
<1>2. /\ call \in LayerCalls /\ call.pc = "acquire" /\ call.request = request /\ call.acquired = 0
      /\ call.candidate = {}
  BY <1>1 DEF NoCall, LayerCalls
<1>3. Len(Tensors(request)) \in Nat /\ 1..0 = {}
  BY TensorsAreNamed
<1>4. CallIsSound'
  <2>1. Asked' = Tensors(request)
    BY <1>1, <1>2 DEF Asked
  <2>2. 0 <= Len(Asked') /\ \A k \in 1..0 : Asked'[k] \in resident'.tensors
    BY <2>1, <1>3
  <2> QED BY <2>2, <1>1, <1>2 DEF CallIsSound
<1>5. spent' \in Spendings
  BY RequestIsCounted
<1>6. scratch' \in Capacities
  BY DEF LayerInv, LayerTypeOK
<1> QED BY <1>1, <1>2, <1>4, <1>5, <1>6, CallMoves

LEMMA NeedsAreTyped ==
  ASSUME NEW request \in Layers
  PROVE  Needs(request) \in Capacities /\ [Needs(request) EXCEPT !.input = 2] \in Capacities
<1>1. Len(request.experts) \in Nat
  BY LayerConstants DEF LayerAssumption
<1> QED BY <1>1 DEF Needs, Capacities

LEMMA OfficialReserveKeeps ==
  ASSUME LayerInv, NEW request \in Layers, OfficialReserve(request) PROVE LayerInv'
<1> USE DEF OfficialReserve
<1>1. PICK which : scratch' = Grown(scratch, [Needs(request) EXCEPT !.input = 2], which)
  OBVIOUS
<1>2. scratch' \in Capacities
  BY <1>1, ScratchGrows, NeedsAreTyped
<1>3. layerCall' \in LayerCalls /\ layerCall'.pc = "idle" /\ layerCall'.candidate = {}
  BY DEF LayerInv, LayerTypeOK, CallIsSound
<1>4. spent' \in Spendings
  <2>1. spent \in Spendings
    BY DEF LayerInv, LayerTypeOK
  <2>2. PICK faults \in {0, 1} : spent' = [calls |-> spent.calls + 1, faults |-> spent.faults + faults]
    OBVIOUS
  <2> QED BY <2>1, <2>2 DEF Spendings
<1>5. CallIsSound'
  BY <1>3, IdleIsSound
<1> QED BY <1>2, <1>3, <1>4, <1>5, CallMoves

LEMMA AcquireKeeps == ASSUME LayerInv, Acquire PROVE LayerInv'
<1> USE DEF Acquire
<1>1. PICK request : request = layerCall.request
  OBVIOUS
<1>2. PICK n : n = layerCall.acquired
  OBVIOUS
<1>3. PICK tensor : tensor = Asked[n + 1]
  OBVIOUS
<1>4. /\ layerCall \in LayerCalls /\ request \in Layers /\ n \in Nat /\ layerCall.candidate = {}
      /\ resident \in [tensors : SUBSET TensorNames, bytes : Nat]
      /\ ~layerCall.bypass => \A k \in 1..n : Asked[k] \in resident.tensors
  BY <1>1, <1>2 DEF LayerInv, LayerTypeOK, CallIsSound, LayerCalls
<1>5. Asked = Tensors(request) /\ n < Len(Asked) /\ Len(Asked) \in Nat
  BY <1>1, <1>2, <1>4, TensorsAreNamed DEF Asked
<1>6. n + 1 \in 1..Len(Asked)
  BY <1>4, <1>5
<1>7. tensor \in TensorNames
  BY <1>3, <1>4, <1>5, <1>6, TensorsAreNamed
<1>8. TensorBytes[tensor] \in Nat /\ WeightCapacity \in Nat
  BY <1>7, LayerConstants DEF LayerAssumption, TensorNames
<1>9. PICK admitted \in BOOLEAN : admitted <=> tensor \notin resident.tensors /\ Fits(tensor)
  OBVIOUS
<1>10. PICK bypass \in BOOLEAN :
         bypass <=> layerCall.bypass \/ ~(tensor \in resident.tensors \/ Fits(tensor))
  OBVIOUS
<1>11. resident' = IF admitted THEN [tensors |-> resident.tensors \cup {tensor},
                                     bytes |-> resident.bytes + TensorBytes[tensor]]
                   ELSE resident
  <2>1. resident' = IF tensor \in resident.tensors \/ ~Fits(tensor) THEN resident
                    ELSE [tensors |-> resident.tensors \cup {tensor},
                          bytes |-> resident.bytes + TensorBytes[tensor]]
    BY <1>2, <1>3
  <2> QED BY <2>1, <1>9
<1>12. /\ layerCall'.pc = "acquire" /\ layerCall'.request = request /\ layerCall'.acquired = n + 1
       /\ layerCall'.candidate = {} /\ layerCall' \in LayerCalls
       /\ ~layerCall'.bypass => ~layerCall.bypass /\ (tensor \in resident.tensors \/ Fits(tensor))
  <2>1. layerCall' = [layerCall EXCEPT !.acquired = n + 1,
                        !.bypass = layerCall.bypass \/ ~(tensor \in resident.tensors \/ Fits(tensor))]
    BY <1>2, <1>3
  <2>2. (layerCall.bypass \/ ~(tensor \in resident.tensors \/ Fits(tensor))) = bypass
    BY <1>10, <1>4 DEF LayerCalls
  <2>3. layerCall' = [layerCall EXCEPT !.acquired = n + 1, !.bypass = bypass]
    BY <2>1, <2>2, Zenon
  <2>4. layerCall.pc = "acquire" /\ n + 1 \in Nat
    BY <1>4
  <2>5. /\ layerCall'.pc = "acquire" /\ layerCall'.request = request /\ layerCall'.acquired = n + 1
        /\ layerCall'.candidate = {} /\ layerCall' \in LayerCalls /\ layerCall'.bypass = bypass
    BY <2>3, <2>4, <1>1, <1>4 DEF LayerCalls
  <2>6. ~bypass => ~layerCall.bypass /\ (tensor \in resident.tensors \/ Fits(tensor))
    BY <1>10
  <2> QED BY <2>5, <2>6
<1>13. /\ resident.tensors \subseteq resident'.tensors
       /\ tensor \in resident.tensors \/ Fits(tensor) => tensor \in resident'.tensors
  BY <1>9, <1>11
<1>14. /\ resident' \in [tensors : SUBSET TensorNames, bytes : Nat]
       /\ IsFiniteSet(BytesOf(resident'.tensors))
       /\ resident'.bytes = Cardinality(BytesOf(resident'.tensors))
       /\ resident'.bytes <= WeightCapacity
  <2>1. /\ IsFiniteSet(BytesOf(resident.tensors))
        /\ resident.bytes = Cardinality(BytesOf(resident.tensors))
        /\ resident.bytes <= WeightCapacity
    BY DEF LayerInv, TableIsSound
  <2>2. CASE ~admitted
    BY <2>1, <2>2, <1>4, <1>11
  <2>3. CASE admitted
    <3>1. /\ resident'.tensors = resident.tensors \cup {tensor}
          /\ resident'.bytes = resident.bytes + TensorBytes[tensor]
          /\ resident' = [tensors |-> resident'.tensors, bytes |-> resident'.bytes]
      <4>1. resident' = [tensors |-> resident.tensors \cup {tensor},
                         bytes |-> resident.bytes + TensorBytes[tensor]]
        BY <2>3, <1>11
      <4>2. PICK tensors : tensors = resident.tensors \cup {tensor}
        OBVIOUS
      <4>3. PICK bytes : bytes = resident.bytes + TensorBytes[tensor]
        OBVIOUS
      <4>4. resident' = [tensors |-> tensors, bytes |-> bytes]
        BY <4>1, <4>2, <4>3
      <4>5. resident'.tensors = tensors /\ resident'.bytes = bytes
        BY <4>4
      <4>6. resident' = [tensors |-> resident'.tensors, bytes |-> resident'.bytes]
        BY <4>4, <4>5
      <4> QED BY <4>2, <4>3, <4>5, <4>6
    <3>2. resident.bytes \in Nat /\ resident.tensors \subseteq TensorNames
      BY <1>4
    <3>3. resident'.bytes \in Nat /\ resident'.tensors \subseteq TensorNames
      BY <3>1, <3>2, <1>7, <1>8
    <3>4. resident'.bytes <= WeightCapacity
      BY <3>1, <2>3, <1>9 DEF Fits
    <3>5. /\ IsFiniteSet(BytesOf(resident.tensors \cup {tensor}))
          /\ Cardinality(BytesOf(resident.tensors \cup {tensor})) =
               Cardinality(BytesOf(resident.tensors)) + TensorBytes[tensor]
      BY <2>1, <2>3, <1>7, <1>9, BytesGrow
    <3> QED BY <3>1, <3>3, <3>4, <3>5, <2>1
  <2> QED BY <2>2, <2>3
<1>15. LayerTypeOK'
  BY <1>12, <1>14 DEF LayerInv, LayerTypeOK
<1>16. TableIsSound'
  <2>1. \A key \in DOMAIN graphs'.entries : AreResident(key)'
    BY <1>13 DEF LayerInv, TableIsSound, AreResident
  <2> QED BY <2>1, <1>14 DEF TableIsSound
<1>17. CallIsSound'
  <2>1. Asked' = Asked
    BY <1>5, <1>12 DEF Asked
  <2>2. n + 1 <= Len(Asked')
    BY <2>1, <1>4, <1>5
  <2>3. ASSUME ~layerCall'.bypass, NEW k \in 1..(n + 1) PROVE Asked'[k] \in resident'.tensors
    <3>1. CASE k = n + 1
      BY <3>1, <2>1, <2>3, <1>3, <1>12, <1>13
    <3>2. CASE k # n + 1
      <4>1. k \in 1..n
        BY <3>2, <1>4
      <4> QED BY <4>1, <2>1, <2>3, <1>4, <1>12, <1>13
    <3> QED BY <3>1, <3>2
  <2>4. layerCall'.acquired <= Len(Asked') /\
          (~layerCall'.bypass => \A k \in 1..layerCall'.acquired : Asked'[k] \in resident'.tensors)
    BY <2>2, <2>3, <1>12
  <2> QED BY <2>4, <1>4, <1>12 DEF CallIsSound
<1>18. EntriesAreSound' /\ LaunchesAreCurrent'
  BY DEF LayerInv, EntriesAreSound, LaunchesAreCurrent
<1>19. IndexIsSound'
  BY DEF LayerInv, IndexIsSound
<1> QED BY <1>15, <1>16, <1>17, <1>18, <1>19 DEF LayerInv

LEMMA AcquiredKeeps == ASSUME LayerInv, Acquired PROVE LayerInv'
<1> USE DEF Acquired
<1>1. PICK request : request = layerCall.request
  OBVIOUS
<1>2. /\ layerCall \in LayerCalls /\ request \in Layers /\ layerCall.candidate = {}
      /\ spent' \in Spendings /\ scratch' \in Capacities
  BY <1>1 DEF LayerInv, LayerTypeOK, CallIsSound
<1>3. CASE layerCall.bypass
  <2>1. layerCall' = NoCall
    BY <1>3 DEF Gives
  <2>2. layerCall' \in LayerCalls /\ CallIsSound'
    BY <2>1, NoCallIsTyped, IdleIsSound
  <2> QED BY <2>2, <1>2, CallMoves
<1>4. CASE ~layerCall.bypass
  <2>1. AreResident(request)'
    <3>1. \A k \in 1..Len(Asked) : Asked[k] \in resident.tensors
      BY <1>4 DEF LayerInv, CallIsSound
    <3>2. Asked = Tensors(request) /\ DOMAIN Tensors(request) = 1..Len(Tensors(request))
      BY <1>1, <1>2, TensorsAreNamed DEF Asked
    <3> QED BY <3>1, <3>2 DEF AreResident
  <2>2. layerCall' = [layerCall EXCEPT !.pc = "reserve"]
    BY <1>4
  <2>3. /\ layerCall' \in LayerCalls /\ layerCall'.pc = "reserve" /\ layerCall'.request = request
        /\ layerCall'.candidate = {}
    BY <2>2, <1>1, <1>2 DEF LayerCalls
  <2>4. CallIsSound'
    BY <2>1, <2>3, <1>2 DEF CallIsSound
  <2> QED BY <2>3, <2>4, <1>2, CallMoves
<1> QED BY <1>3, <1>4

LEMMA ReserveKeeps == ASSUME LayerInv, Reserve PROVE LayerInv'
<1> USE DEF Reserve
<1>1. PICK request : request = layerCall.request
  OBVIOUS
<1>2. /\ layerCall \in LayerCalls /\ request \in Layers /\ layerCall.candidate = {}
      /\ spent' \in Spendings /\ AreResident(request)
  BY <1>1 DEF LayerInv, LayerTypeOK, CallIsSound
<1>3. scratch' \in Capacities
  BY <1>1, <1>2, ScratchGrows, NeedsAreTyped
<1>4. PICK pc : pc = IF mode = "disabled" THEN "launch" ELSE "identify"
  OBVIOUS
<1>5. /\ layerCall' \in LayerCalls /\ layerCall'.pc = pc /\ layerCall'.request = request
      /\ layerCall'.candidate = {}
  <2>1. layerCall' = [layerCall EXCEPT !.pc = pc]
    BY <1>4
  <2> QED BY <2>1, <1>1, <1>2, <1>4 DEF LayerCalls
<1>6. AreResident(request)'
  BY <1>2 DEF AreResident
<1>7. CallIsSound'
  BY <1>2, <1>4, <1>5, <1>6 DEF CallIsSound
<1> QED BY <1>2, <1>3, <1>5, <1>7, CallMoves

LEMMA FailuresGiveUp ==
  ASSUME LayerInv, AcquireFails \/ ReserveFails \/ RecordFails \/ LaunchFails PROVE LayerInv'
<1>1. CASE AcquireFails \/ RecordFails \/ LaunchFails
  <2>1. scratch' \in Capacities
    BY <1>1 DEF AcquireFails, RecordFails, LaunchFails, LayerInv, LayerTypeOK
  <2> QED BY <2>1, <1>1, CallGivesUp DEF AcquireFails, RecordFails, LaunchFails
<1>2. CASE ReserveFails
  <2>1. layerCall.request \in Layers
    BY <1>2 DEF ReserveFails, LayerInv, CallIsSound
  <2>2. scratch' \in Capacities
    BY <2>1, <1>2, ScratchGrows, NeedsAreTyped DEF ReserveFails
  <2> QED BY <2>2, <1>2, CallGivesUp DEF ReserveFails
<1> QED BY <1>1, <1>2

LEMMA GraphsAreTyped ==
  ASSUME LayerInv
  PROVE  /\ graphs \in Graphs /\ graphs.entries \in Partial(Layers, Captures)
         /\ graphs.lastUse \in [sequence : Nat, of : Partial(Layers, Nat)]
         /\ graphs.lastUse = [sequence |-> graphs.lastUse.sequence, of |-> graphs.lastUse.of]
         /\ graphs.update \in SUBSET [executable : SUBSET Captures]
         /\ scratch \in Capacities /\ layerCall \in LayerCalls /\ touched \in Seq(Layers)
BY DEF LayerInv, LayerTypeOK, Graphs

LEMMA CaptureIsTyped == ASSUME LayerInv, layerCall.pc # "idle" PROVE Captured \in Captures
<1>1. layerCall.request \in Layers
  BY DEF LayerInv, CallIsSound
<1> QED BY <1>1, GraphsAreTyped DEF Captured, Captures, Key

LEMMA IdentifyKeeps == ASSUME LayerInv, Identify PROVE LayerInv'
<1> USE DEF Identify
<1>1. PICK request : request = layerCall.request
  OBVIOUS
<1>2. /\ request \in Layers /\ layerCall.candidate = {} /\ mode # "disabled"
      /\ AreResident(request)
  BY <1>1 DEF LayerInv, CallIsSound
<1>3. /\ layerCall' \in LayerCalls /\ layerCall'.pc = "graph" /\ layerCall'.request = request
      /\ layerCall'.candidate = {}
  <2>1. layerCall' = [layerCall EXCEPT !.pc = "graph"]
    OBVIOUS
  <2> QED BY <2>1, <1>1, <1>2, GraphsAreTyped DEF LayerCalls
<1>4. graphs'.identity = {scratch}
  <2>1. CASE graphs.identity \notin {{}, {scratch}}
    BY <2>1
  <2>2. CASE graphs.identity \in {{}, {scratch}}
    <3>1. graphs' = [graphs EXCEPT !.identity = {scratch}]
      BY <2>2
    <3> QED BY <3>1, GraphsAreTyped DEF Graphs
  <2> QED BY <2>1, <2>2
<1>5. /\ graphs' \in Graphs /\ touched' \in Seq(Layers) /\ IndexIsSound' /\ EntriesAreSound'
      /\ DOMAIN graphs'.entries \subseteq DOMAIN graphs.entries
  <2>1. CASE graphs.identity \notin {{}, {scratch}}
    <3>1. PICK n : n = graphs.lastUse.sequence
      OBVIOUS
    <3>2. n \in Nat /\ graphs.lastUse = [sequence |-> n, of |-> graphs.lastUse.of]
      BY <3>1, GraphsAreTyped
    <3>3. PICK lastUse : lastUse = [sequence |-> n, of |-> <<>>]
      OBVIOUS
    <3>4. [graphs.lastUse EXCEPT !.of = <<>>] = lastUse
      BY <3>2, <3>3
    <3>5. /\ graphs' = [entries |-> <<>>, update |-> {}, identity |-> {scratch}, lastUse |-> lastUse]
          /\ touched' = <<>>
      BY <2>1, <3>4
    <3>6. /\ <<>> \in Partial(Layers, Captures) /\ <<>> \in Partial(Layers, Nat) /\ DOMAIN <<>> = {}
          /\ Knows(lastUse, <<>>)
      BY <3>2, <3>3, NothingKept
    <3>7. lastUse \in [sequence : Nat, of : Partial(Layers, Nat)] /\ lastUse.of = <<>>
      BY <3>2, <3>3, <3>6
    <3>8. graphs' \in Graphs
      BY <3>5, <3>6, <3>7, GraphsAreTyped DEF Graphs
    <3>9. graphs'.entries = <<>> /\ graphs'.lastUse = lastUse
      BY <3>5
    <3>10. IndexIsSound'
      BY <3>5, <3>6, <3>7, <3>9 DEF IndexIsSound
    <3>11. EntriesAreSound'
      BY <3>6, <3>9 DEF EntriesAreSound
    <3> QED BY <3>5, <3>6, <3>8, <3>9, <3>10, <3>11
  <2>2. CASE graphs.identity \in {{}, {scratch}}
    <3>1. graphs' = [graphs EXCEPT !.identity = {scratch}] /\ touched' = touched
      BY <2>2
    <3>2. /\ graphs' \in Graphs /\ graphs'.entries = graphs.entries
          /\ graphs'.lastUse = graphs.lastUse
      BY <3>1, GraphsAreTyped DEF Graphs
    <3>3. IndexIsSound'
      BY <3>1, <3>2 DEF LayerInv, IndexIsSound
    <3>4. EntriesAreSound'
      BY <2>2, <3>2, <1>4 DEF LayerInv, EntriesAreSound
    <3> QED BY <3>1, <3>2, <3>3, <3>4, GraphsAreTyped
  <2> QED BY <2>1, <2>2
<1>6. LayerTypeOK'
  BY <1>3, <1>5 DEF LayerInv, LayerTypeOK
<1>7. TableIsSound'
  BY <1>5 DEF LayerInv, TableIsSound, AreResident
<1>8. AreResident(request)'
  BY <1>2 DEF AreResident
<1>9. CallIsSound'
  BY <1>2, <1>3, <1>4, <1>8 DEF CallIsSound
<1>10. LaunchesAreCurrent'
  BY DEF LayerInv, LaunchesAreCurrent
<1> QED BY <1>5, <1>6, <1>7, <1>9, <1>10 DEF LayerInv

LEMMA HitKeeps == ASSUME LayerInv, Hit PROVE LayerInv'
<1> USE DEF Hit
<1>1. PICK request : request = layerCall.request
  OBVIOUS
<1>2. /\ request \in Layers /\ layerCall.candidate = {} /\ mode # "disabled"
      /\ AreResident(request) /\ Key = request /\ graphs.identity = {scratch}
  BY <1>1 DEF LayerInv, CallIsSound, Key
<1>3. /\ layerCall' \in LayerCalls /\ layerCall'.pc = "launch" /\ layerCall'.request = request
      /\ layerCall'.candidate = {}
  <2>1. layerCall' = [layerCall EXCEPT !.pc = "launch"]
    OBVIOUS
  <2> QED BY <2>1, <1>1, <1>2, GraphsAreTyped DEF LayerCalls
<1>4. request \in DOMAIN graphs.entries /\ DOMAIN graphs.entries = DOMAIN graphs.lastUse.of
  BY <1>2 DEF Cached, LayerInv, IndexIsSound
<1>5. PICK touch : touch = Touch(graphs.lastUse, request)
  OBVIOUS
<1>6. /\ touch.index \in [sequence : Nat, of : Partial(Layers, Nat)]
      /\ DOMAIN touch.index.of = (DOMAIN graphs.lastUse.of \ touch.evicted) \cup {request}
      /\ Append(touched, request) \in Seq(Layers)
      /\ Knows(touch.index, Append(touched, request)) /\ touch.evicted = {}
  <2>1. Knows(graphs.lastUse, touched)
    BY DEF LayerInv, IndexIsSound
  <2> QED BY <2>1, <1>2, <1>4, <1>5, GraphsAreTyped, TouchKeeps
<1>7. /\ graphs' = [graphs EXCEPT !.lastUse = touch.index]
      /\ touched' = Append(touched, request)
  BY <1>2, <1>5
<1>8. /\ graphs' \in Graphs /\ graphs'.entries = graphs.entries /\ graphs'.lastUse = touch.index
      /\ graphs'.identity = graphs.identity
  BY <1>6, <1>7, GraphsAreTyped DEF Graphs
<1>9. IndexIsSound'
  <2>1. DOMAIN graphs'.entries = DOMAIN graphs'.lastUse.of
    BY <1>4, <1>6, <1>8
  <2> QED BY <2>1, <1>6, <1>7, <1>8 DEF IndexIsSound
<1>10. EntriesAreSound' /\ LaunchesAreCurrent'
  BY <1>8 DEF LayerInv, EntriesAreSound, LaunchesAreCurrent
<1>11. LayerTypeOK'
  BY <1>3, <1>6, <1>7, <1>8 DEF LayerInv, LayerTypeOK
<1>12. TableIsSound'
  BY <1>8 DEF LayerInv, TableIsSound, AreResident
<1>13. CallIsSound'
  <2>1. AreResident(request)'
    BY <1>2 DEF AreResident
  <2>2. Cached'
    BY <1>1, <1>3, <1>4, <1>8 DEF Cached, Key
  <2> QED BY <2>1, <2>2, <1>2, <1>3, <1>8 DEF CallIsSound
<1> QED BY <1>9, <1>10, <1>11, <1>12, <1>13 DEF LayerInv

LEMMA RecordKeeps == ASSUME LayerInv, Record PROVE LayerInv'
<1> USE DEF Record
<1>1. PICK request : request = layerCall.request
  OBVIOUS
<1>2. /\ request \in Layers /\ mode # "disabled" /\ AreResident(request)
      /\ graphs.identity = {scratch}
  BY <1>1 DEF LayerInv, CallIsSound
<1>3. PICK graph : graph = Captured
  OBVIOUS
<1>4. graph \in Captures
  BY <1>3, CaptureIsTyped
<1>5. /\ layerCall' \in LayerCalls /\ layerCall'.pc = "launch" /\ layerCall'.request = request
      /\ layerCall'.candidate = {graph}
  <2>1. layerCall' = [layerCall EXCEPT !.pc = "launch", !.candidate = {graph}]
    BY <1>3
  <2>2. layerCall \in LayerCalls /\ {graph} \in SUBSET Captures
    BY <1>4, GraphsAreTyped
  <2>3. layerCall' \in LayerCalls
    BY <2>1, <2>2 DEF LayerCalls
  <2> QED BY <2>1, <2>2, <2>3, <1>1 DEF LayerCalls
<1>6. Captured' = graph
  BY <1>1, <1>3, <1>5 DEF Captured, Key
<1>7. /\ graphs' \in Graphs /\ graphs'.entries = graphs.entries
      /\ graphs'.lastUse = graphs.lastUse /\ graphs'.identity = graphs.identity
  <2>1. CASE graphs' = graphs
    BY <2>1, GraphsAreTyped
  <2>2. CASE graphs' = [graphs EXCEPT !.update = {[executable |-> {}]}]
    BY <2>2, GraphsAreTyped DEF Graphs
  <2> QED BY <2>1, <2>2
<1>8. IndexIsSound'
  BY <1>7 DEF LayerInv, IndexIsSound
<1>9. EntriesAreSound' /\ LaunchesAreCurrent'
  BY <1>7 DEF LayerInv, EntriesAreSound, LaunchesAreCurrent
<1>10. LayerTypeOK'
  BY <1>5, <1>7 DEF LayerInv, LayerTypeOK
<1>11. TableIsSound'
  BY <1>7 DEF LayerInv, TableIsSound, AreResident
<1>12. CallIsSound'
  <2>1. AreResident(request)'
    BY <1>2 DEF AreResident
  <2> QED BY <2>1, <1>2, <1>5, <1>6, <1>7 DEF CallIsSound
<1> QED BY <1>8, <1>9, <1>10, <1>11, <1>12 DEF LayerInv

LEMMA LaunchKeeps == ASSUME LayerInv, Launch PROVE LayerInv'
<1> USE DEF Launch
<1>1. PICK graph : graph = Captured
  OBVIOUS
<1>2. /\ layerCall.request \in Layers /\ AreResident(layerCall.request)
      /\ mode # "disabled" => graphs.identity = {scratch} /\ (Cached \/ layerCall.candidate # {})
      /\ layerCall.candidate # {} => mode # "disabled" /\ layerCall.candidate = {graph}
  BY <1>1 DEF LayerInv, CallIsSound
<1>3. /\ layerCall' \in LayerCalls /\ layerCall'.pc = "settle"
      /\ layerCall'.request = layerCall.request /\ layerCall'.candidate = layerCall.candidate
  <2>1. layerCall' = [layerCall EXCEPT !.pc = "settle"]
    OBVIOUS
  <2> QED BY <2>1, GraphsAreTyped DEF LayerCalls
<1>4. Captured' = graph
  BY <1>1, <1>3 DEF Captured, Key
<1>5. LaunchesAreCurrent'
  <2>1. PICK found : found = IF mode = "disabled" THEN Captured
                             ELSE IF Cached THEN graphs.entries[Key]
                             ELSE CHOOSE g \in layerCall.candidate : TRUE
    OBVIOUS
  <2>2. launched' = {[asked |-> graph, ran |-> found]}
    BY <2>1, <1>1
  <2>3. found = graph
    <3>1. CASE mode = "disabled"
      BY <3>1, <2>1, <1>1
    <3>2. CASE mode # "disabled" /\ Cached
      <4>1. found = graphs.entries[Key] /\ Key \in DOMAIN graphs.entries
        BY <3>2, <2>1 DEF Cached
      <4>2. found.key = Key /\ graphs.identity = {found.scratch}
        BY <4>1 DEF LayerInv, EntriesAreSound
      <4>3. found.scratch = scratch
        BY <4>2, <3>2, <1>2
      <4>4. found \in Captures
        BY <4>1, GraphsAreTyped, PartialFunctions
      <4>5. found = [key |-> found.key, scratch |-> found.scratch]
        BY <4>4 DEF Captures
      <4> QED BY <4>2, <4>3, <4>5, <1>1 DEF Captured
    <3>3. CASE mode # "disabled" /\ ~Cached
      <4>1. layerCall.candidate = {graph} /\ found = CHOOSE g \in layerCall.candidate : TRUE
        BY <3>3, <2>1, <1>2
      <4> QED BY <4>1
    <3> QED BY <3>1, <3>2, <3>3
  <2> QED BY <2>2, <2>3 DEF LaunchesAreCurrent
<1>6. LayerTypeOK'
  BY <1>3 DEF LayerInv, LayerTypeOK
<1>7. TableIsSound'
  BY DEF LayerInv, TableIsSound, AreResident
<1>8. CallIsSound'
  <2>1. AreResident(layerCall.request)'
    BY <1>2, <1>3 DEF AreResident
  <2> QED BY <2>1, <1>2, <1>3, <1>4 DEF CallIsSound
<1>9. EntriesAreSound'
  BY DEF LayerInv, EntriesAreSound
<1>10. IndexIsSound'
  BY DEF LayerInv, IndexIsSound
<1> QED BY <1>5, <1>6, <1>7, <1>8, <1>9, <1>10 DEF LayerInv

LEMMA SettleKeeps == ASSUME LayerInv, Settle PROVE LayerInv'
<1> USE DEF Settle
<1>1. PICK graph : graph = Captured
  OBVIOUS
<1>2. PICK request : request = layerCall.request
  OBVIOUS
<1>3. /\ request \in Layers /\ AreResident(request) /\ Key = request
      /\ mode # "disabled" => graphs.identity = {scratch}
      /\ layerCall.candidate # {} => mode # "disabled" /\ layerCall.candidate = {graph}
  BY <1>1, <1>2 DEF LayerInv, CallIsSound, Key
<1>4. graph \in Captures /\ graph.key = request /\ graph.scratch = scratch
  BY <1>1, <1>3, CaptureIsTyped DEF Captured
<1>5. layerCall' \in LayerCalls /\ CallIsSound'
  <2>1. layerCall' = NoCall
    BY DEF Gives
  <2> QED BY <2>1, NoCallIsTyped, IdleIsSound
<1>6. LaunchesAreCurrent'
  BY DEF LayerInv, LaunchesAreCurrent
<1>7. CASE layerCall.candidate = {} \/ mode = "update"
  <2>1. /\ graphs' \in Graphs /\ graphs'.entries = graphs.entries
        /\ graphs'.lastUse = graphs.lastUse /\ graphs'.identity = graphs.identity
        /\ touched' = touched
    <3>1. CASE layerCall.candidate = {}
      BY <3>1, GraphsAreTyped
    <3>2. CASE layerCall.candidate # {} /\ mode = "update"
      <4>1. /\ graphs' = [graphs EXCEPT !.update = {[executable |-> {graph}]}]
            /\ touched' = touched
        BY <3>2, <1>3
      <4> QED BY <4>1, <1>4, GraphsAreTyped DEF Graphs
    <3> QED BY <3>1, <3>2, <1>7
  <2>2. IndexIsSound'
    BY <2>1 DEF LayerInv, IndexIsSound
  <2>3. EntriesAreSound'
    BY <2>1 DEF LayerInv, EntriesAreSound
  <2>4. LayerTypeOK'
    BY <2>1, <1>5 DEF LayerInv, LayerTypeOK
  <2>5. TableIsSound'
    BY <2>1 DEF LayerInv, TableIsSound, AreResident
  <2> QED BY <2>2, <2>3, <2>4, <2>5, <1>5, <1>6 DEF LayerInv
<1>8. CASE layerCall.candidate # {} /\ mode # "update"
  <2>1. layerCall.candidate = {graph} /\ graphs.identity = {scratch}
    BY <1>3, <1>8
  <2>2. PICK touch : touch = Touch(graphs.lastUse, request)
    OBVIOUS
  <2>3. /\ touch.index \in [sequence : Nat, of : Partial(Layers, Nat)]
        /\ DOMAIN touch.index.of = (DOMAIN graphs.lastUse.of \ touch.evicted) \cup {request}
        /\ Append(touched, request) \in Seq(Layers)
        /\ Knows(touch.index, Append(touched, request))
    <3>1. Knows(graphs.lastUse, touched)
      BY DEF LayerInv, IndexIsSound
    <3> QED BY <3>1, <2>2, <1>3, GraphsAreTyped, TouchKeeps
  <2>4. PICK kept : kept = [k \in DOMAIN graphs.entries \ touch.evicted |-> graphs.entries[k]]
    OBVIOUS
  <2>5. PICK entries : entries = With(kept, request, graph)
    OBVIOUS
  <2>6. /\ graphs' = [graphs EXCEPT !.lastUse = touch.index, !.entries = entries]
        /\ touched' = Append(touched, request)
    <3>1. (CHOOSE g \in layerCall.candidate : TRUE) = graph
      BY <2>1
    <3> QED BY <3>1, <2>2, <2>4, <2>5, <1>3, <1>8
  <2>7. /\ kept \in Partial(Layers, Captures)
        /\ DOMAIN kept = DOMAIN graphs.entries \ touch.evicted
        /\ \A k \in DOMAIN kept : kept[k] = graphs.entries[k]
    BY <2>4, GraphsAreTyped, WithoutIsPartial, ZenonT(40)
  <2>8. entries \in Partial(Layers, Captures)
    BY <2>5, <2>7, <1>3, <1>4, WithIsPartial
  <2>9. /\ DOMAIN entries = DOMAIN kept \cup {request} /\ entries[request] = graph
        /\ \A k \in DOMAIN kept : k # request => entries[k] = kept[k]
    BY <2>5 DEF With
  <2>10. /\ graphs' \in Graphs /\ graphs'.entries = entries /\ graphs'.lastUse = touch.index
         /\ graphs'.identity = graphs.identity
    BY <2>3, <2>6, <2>8, GraphsAreTyped DEF Graphs
  <2>11. IndexIsSound'
    <3>1. DOMAIN graphs.entries = DOMAIN graphs.lastUse.of
      BY DEF LayerInv, IndexIsSound
    <3>2. DOMAIN entries = DOMAIN touch.index.of
      BY <3>1, <2>3, <2>7, <2>9
    <3> QED BY <3>2, <2>3, <2>6, <2>10 DEF IndexIsSound
  <2>12. EntriesAreSound'
    <3>1. ASSUME NEW k \in DOMAIN entries
          PROVE  entries[k].key = k /\ graphs.identity = {entries[k].scratch}
      <4>1. CASE k = request
        BY <4>1, <2>1, <2>9, <1>4
      <4>2. CASE k # request
        <5>1. k \in DOMAIN graphs.entries /\ entries[k] = graphs.entries[k]
          BY <4>2, <2>7, <2>9
        <5> QED BY <5>1 DEF LayerInv, EntriesAreSound
      <4> QED BY <4>1, <4>2
    <3> QED BY <3>1, <2>10 DEF EntriesAreSound
  <2>13. LayerTypeOK'
    BY <2>3, <2>6, <2>10, <1>5 DEF LayerInv, LayerTypeOK
  <2>14. TableIsSound'
    <3>1. \A key \in DOMAIN entries : AreResident(key)
      BY <2>7, <2>9, <1>3 DEF LayerInv, TableIsSound
    <3>2. \A key \in DOMAIN graphs'.entries : AreResident(key)'
      BY <3>1, <2>10 DEF AreResident
    <3> QED BY <3>2 DEF LayerInv, TableIsSound
  <2> QED BY <2>11, <2>12, <2>13, <2>14, <1>5, <1>6 DEF LayerInv
<1> QED BY <1>7, <1>8

LEMMA LayerStutters == ASSUME LayerInv, UNCHANGED layerVars PROVE LayerInv'
<1> USE DEF layerVars
<1>1. LayerTypeOK'
  BY DEF LayerInv, LayerTypeOK
<1>2. TableIsSound'
  BY DEF LayerInv, TableIsSound, AreResident
<1>3. CallIsSound'
  BY DEF LayerInv, CallIsSound, AreResident, Asked, Captured, Cached, Key
<1>4. EntriesAreSound' /\ LaunchesAreCurrent'
  BY DEF LayerInv, EntriesAreSound, LaunchesAreCurrent
<1>5. IndexIsSound'
  BY DEF LayerInv, IndexIsSound
<1> QED BY <1>1, <1>2, <1>3, <1>4, <1>5 DEF LayerInv

\* The invariant of the resident layer: its table holds what it accounts for, a
\* kept graph is of its key, of the buffers where they are and of weights in the
\* table, and the index knows when each key was used last.
THEOREM LayerKeepsItsInvariant == LayerSpec => []LayerInv
<1>1. LayerInit => LayerInv
  BY LayerBegins
<1>2. LayerInv /\ [LayerNext]_layerVars => LayerInv'
  <2> SUFFICES ASSUME LayerInv, [LayerNext]_layerVars PROVE LayerInv'
    OBVIOUS
  <2>1. ASSUME NEW request \in Layers, Ask(request) \/ OfficialReserve(request) PROVE LayerInv'
    BY <2>1, AskKeeps, OfficialReserveKeeps
  <2>2. CASE Acquire \/ Acquired \/ Reserve
    BY <2>2, AcquireKeeps, AcquiredKeeps, ReserveKeeps
  <2>3. CASE AcquireFails \/ ReserveFails \/ RecordFails \/ LaunchFails
    BY <2>3, FailuresGiveUp
  <2>4. CASE Identify \/ Hit \/ Record
    BY <2>4, IdentifyKeeps, HitKeeps, RecordKeeps
  <2>5. CASE Launch \/ Settle
    BY <2>5, LaunchKeeps, SettleKeeps
  <2>6. CASE UNCHANGED layerVars
    BY <2>6, LayerStutters
  <2> QED BY <2>1, <2>2, <2>3, <2>4, <2>5, <2>6 DEF LayerNext
<1> QED BY <1>1, <1>2, PTL DEF LayerSpec

LEMMA LayerIsCurrent == LayerInv => GraphsAreCurrent
<1> SUFFICES ASSUME LayerInv PROVE GraphsAreCurrent
  OBVIOUS
<1>1. WeightsAreResident
  BY DEF LayerInv, TableIsSound, WeightsAreResident
<1>2. CacheIsUsedLast
  <2>1. /\ LayerTypeOK /\ Knows(graphs.lastUse, touched)
        /\ DOMAIN graphs.entries = DOMAIN graphs.lastUse.of
    BY DEF LayerInv, IndexIsSound
  <2>2. UsedLast = DOMAIN graphs.lastUse.of
    BY <2>1, KnownAreUsedLast
  <2>3. Cardinality(DOMAIN graphs.lastUse.of) <= GraphCapacity
    BY <2>1 DEF Knows
  <2> QED BY <2>1, <2>2, <2>3 DEF CacheIsUsedLast
<1> QED BY <1>1, <1>2 DEF LayerInv, GraphsAreCurrent

\* What resident_moe_layer launches was recorded for the ordered experts asked for
\* and for the scratch buffers where they are now, also when the official layer
\* moved them, or a call failed, in between; what a kept graph names is in the table
\* of weights; and BoundedCudaGraphIndex keeps the graphs used last.
THEOREM GraphsStayCurrent == LayerSpec => []GraphsAreCurrent
BY LayerKeepsItsInvariant, LayerIsCurrent, PTL
====
