----------------------------- MODULE MCConverter -----------------------------
(***************************************************************************)
(* The converter for TLC.  The first state picks the part that runs: the   *)
(* reading of a source (SourceFiles), the layout and the directories of    *)
(* the file (Container), or the conversion with its kills and restarts     *)
(* (Conversion).  The variables of the other parts stay where they start.  *)
(***************************************************************************)
EXTENDS Conversion, Integers, FiniteSets, TLC

CONSTANTS Parts,
          WithEmptyTensors   \* lay out sources with tensors of no elements instead

VARIABLES part, given,   \* the part, and the source that is read or laid out
          pc, verdict, shard, unread, names, ranges, cursor, pending, tensors,
          at, plans, extents, records, layers, experts, size

reading == <<shard, unread, names, ranges, cursor, pending, tensors>>
layout == <<at, plans, extents, records, layers, experts, size>>
converterVars == <<part, given, pc, verdict, vars, reading, layout>>

(* Conversion: two sources that share their first extent.                  *)
SharedFirst == ("s1" :> <<"a", "b">>) @@ ("s2" :> <<"a", "c">>)

(* SourceFiles: one shard with every small header, and two shards with     *)
(* every small weight map.                                                 *)
TwoBytes == ("BF16" :> 2)

EntriesOf(ns) ==
  [name : ns, dtype : {"BF16", "other"}, shape : {<<>>, <<0, 2>>, <<2>>, <<-1>>}, start : -1..2, end : 0..4]
Likely == {e \in EntriesOf({"a", "b", ""}) :
             /\ e.dtype = "other" => e.shape = <<2>>
             /\ e.shape = <<-1>> => e.start = 0 /\ e.end = 2
             /\ e.name = "" => e.start = 0 /\ e.end = 2}
Headers == {<<>>} \cup {<<e>> : e \in Likely}
           \cup {<<e, f>> : e \in {x \in Likely : x.name = "a"}, f \in {x \in Likely : x.name # ""}}
One(n) == n :> 1
OneShardSources ==
  {[weights |-> One("a") @@ One("b"), shards |-> (1 :> [size |-> 4, header |-> h])] : h \in Headers}
  \cup {[weights |-> One("a") @@ One("b"), shards |-> (1 :> [size |-> 3, header |-> h])] :
          h \in {<<e, f>> : e \in {x \in Likely : x.name = "a" /\ x.dtype = "other"},
                            f \in {x \in Likely : x.name = "b" /\ x.dtype = "other"}}}

(* Three tensors of one byte in every arrangement. *)
Byte(n, i) == [name |-> n, dtype |-> "other", shape |-> <<1>>, start |-> i, end |-> i + 1]
ThreeBytes ==
  {[weights |-> One("a") @@ One("b") @@ One("c"),
    shards |-> (1 :> [size |-> 3, header |-> <<Byte("a", i), Byte("b", j), Byte("c", k)>>])] :
      i, j, k \in 0..2}

Holding(s) == CASE s = {} -> [size |-> 0, header |-> <<>>]
                [] s = {"a"} -> [size |-> 1, header |-> <<Byte("a", 0)>>]
                [] s = {"b"} -> [size |-> 1, header |-> <<Byte("b", 0)>>]
                [] s = {"a", "b"} -> [size |-> 2, header |-> <<Byte("b", 0), Byte("a", 1)>>]
TwoShards ==
  {[weights |-> w, shards |-> [s \in d |-> Holding(h[s])]] :
     w \in UNION {[ns -> 1..2] : ns \in {{"a"}, {"a", "b"}}},
     d \in {{1}, {1, 2}}, h \in [1..2 -> SUBSET {"a", "b"}]}

ReadSources == OneShardSources \cup ThreeBytes \cup TwoShards

Read == INSTANCE SourceFiles WITH source <- given, Sources <- ReadSources, ItemBytes <- TwoBytes

(* Container: sources of two layers with extents of every length around    *)
(* the alignment, and foreign files.                                       *)
Bases == {"a", "b", "g0", "u0", "d0", "g1", "u1", "d1"}
Distinct == [n \in Bases |-> CASE n = "a" -> 1 [] n = "b" -> 2 [] n = "d0" -> 3 [] n = "d1" -> 4
                               [] n = "g0" -> 5 [] n = "g1" -> 6 [] n = "u0" -> 7 [] OTHER -> 1]

Plain(b, dtype, bytes, l) ==
  [base |-> b, part |-> "plain", dtype |-> dtype, bytes |-> bytes, layer |-> l, expert |-> -1, role |-> ""]
Half(b, half, dtype, bytes, l, x, role) ==
  [base |-> b, part |-> half, dtype |-> dtype, bytes |-> bytes, layer |-> l, expert |-> x, role |-> role]
Pair(b, bytes, l, x, role) ==
  <<Half(b, "packed", "U8", bytes, l, x, role), Half(b, "scale", "U8", 1, l, x, role)>>

Source(format, ts, packed, order) ==
  [format |-> format, tensors |-> ts, packed |-> packed, order |-> order]

(* Plain sources: two layers, an expert of either with any of its matrices,*)
(* and tensors of no layer.                                                *)
Down(n, l) == Pair("d0", n, l, 0, "down")
Gate(n, l) == Pair("g0", n, l, 0, "gate")
Up(n, l) == Pair("u0", n, l, 0, "up")
Lengths == 1..4
PlainSources ==
  {Source("plain", <<Plain("a", "F32", m, 0)>> \o Down(n, 1) \o Gate(k, 1) \o Up(2, 1), {"d0", "g0", "u0"}, <<>>) :
     m, n, k \in Lengths}
  \cup {Source("plain", Down(n, 0) \o Gate(2, 0) \o Up(3, 0) \o <<Plain("a", "BF16", m, 1), Plain("b", d, 1, 1)>>,
               {"d0", "g0", "u0"}, <<>>) : m, n \in Lengths, d \in {"F32", "BF16", "I16"}}
  \cup {Source("plain", Down(1, 0) \o Gate(2, 0), {"d0", "g0"}, <<>>),
        Source("plain", Down(1, 1) \o Gate(2, 1) \o Up(3, 1) \o Pair("d1", 2, 1, 1, "down")
               \o Pair("g1", 1, 1, 1, "gate") \o Pair("u1", 1, 1, 1, "up"), Bases, <<>>),
        Source("plain", Down(1, 0), {}, <<>>),
        Source("plain", <<Plain("a", "F32", 2, -1), Plain("u1", "F32", 1, 0)>>, {}, <<>>),
        Source("plain", <<Plain("a", "F32", 2, -1), Half("b", "scale", "U8", 1, 0, -1, "")>>, {}, <<>>),
        Source("plain", <<Half("b", "packed", "U8", 2, 0, -1, "")>>, {"b"}, <<>>),
        Source("plain", <<Half("b", "packed", "BF16", 2, 0, -1, ""), Half("b", "scale", "U8", 1, 0, -1, "")>>,
               {"b"}, <<>>)}

Expert == Down(1, 1) \o Gate(2, 1) \o Up(3, 1)
StorageSources ==
  {Source("storage", Expert, {"d0", "g0", "u0"}, <<>>),
   Source("storage", Down(1, 1) \o Gate(2, 1), {"d0", "g0"}, <<>>)}

Orders == {<<"g0", "u0", "d0", "a">>, <<"a", "g0", "u0", "d0">>, <<"u0", "a", "d0", "g0">>,
           <<"g0", "u0", "d0">>, <<"g0", "g0", "u0", "d0">>}
OfficialSources ==
  {Source("official", <<Plain("a", "BF16", n, 1)>> \o Expert, {"d0", "g0", "u0"}, o) :
     n \in Lengths, o \in Orders}

ConvertedSources == PlainSources \cup StorageSources \cup OfficialSources

(* Files of three tensors with extents anywhere. *)
At(a, n) == [at |-> a, bytes |-> n, of |-> 0]
Ranges == {At(0, 0), At(2, 0)} \cup {At(a, n) : a \in {2, 3, 4, 6}, n \in {1, 2, 4, 6}}
Rec(d, x) == [id |-> 0, dtype |-> "U8", quant |-> "none", layer |-> 0, expert |-> -1, role |-> "",
              data |-> d, aux |-> x]
ForeignFiles ==
  {[extents |-> <<>>, records |-> <<Rec(d, x), Rec(e, At(0, 0))>>, size |-> 10] :
     d, x, e \in Ranges}

EmptySources ==
  {Source("plain", <<Plain("a", "F32", n, 0), Plain("b", "F32", m, 0)>>, {}, <<>>) : n, m \in 0..12}

Cont == INSTANCE Container WITH
  source <- given, Sources <- IF WithEmptyTensors THEN EmptySources ELSE ConvertedSources,
  Files <- ForeignFiles, Alignment <- 2, Layers <- 2, TensorId <- Distinct

ASSUME Cont!ContainerAssumption

------------------------------------------------------------------------------
ReadingParked ==
  /\ shard = None /\ unread = None /\ names = None /\ ranges = None /\ cursor = None
  /\ pending = None /\ tensors = None
LayoutParked ==
  /\ at = None /\ plans = None /\ extents = None /\ records = None /\ layers = None
  /\ experts = None /\ size = None

ConverterInit ==
  /\ part \in Parts
  /\ Init /\ (part # "conversion" => source = "s1" /\ tool = "t1")
  /\ \/ part = "conversion" /\ given = None /\ pc = None /\ verdict = None /\ ReadingParked /\ LayoutParked
     \/ part = "reading" /\ Read!Init /\ LayoutParked
     \/ part = "layout" /\ Cont!Init /\ ReadingParked

Converting == part = "conversion" /\ UNCHANGED <<part, given, pc, verdict, reading, layout>>
Reading == part = "reading" /\ Read!Next /\ UNCHANGED <<part, vars, layout>>
LayingOut == part = "layout" /\ Cont!Next /\ UNCHANGED <<part, vars, reading>>

ConverterNext == (Converting /\ Next) \/ Reading \/ LayingOut

(* The operator reruns what was interrupted; the machine boots again.      *)
ConverterSpec ==
  /\ ConverterInit /\ [][ConverterNext]_converterVars
  /\ WF_converterVars(Converting /\ Retry) /\ WF_converterVars(Converting /\ Convert)
  /\ WF_converterVars(Converting /\ Boot)

------------------------------------------------------------------------------
(* Properties *)

(* However often a run is killed, stopped or hit by a power loss, the      *)
(* operator who reruns it gets an artifact, or a refusal of changed input. *)
ConversionsAreDecided == part = "conversion" => EventuallyDecided

(* A checkpoint is accepted if and only if its shards can be copied byte   *)
(* by byte, each byte once, with every tensor where the weight map says;   *)
(* and an overlap is reported exactly where two tensors share a byte.      *)
SourceIsJudged ==
  part = "reading" =>
    Read!TypeOK /\ Read!AcceptedIsWhole /\ Read!RefusedIsBroken /\ Read!OverlapIsShared

(* A written file holds every tensor of its source once in extents that    *)
(* share no byte, its directories describe them, and the reader opens it;  *)
(* of foreign files it opens only those whose extents are disjoint.        *)
FileDescribesSource ==
  part = "layout" =>
    /\ Cont!TypeOK /\ Cont!ExtentsAreDisjoint /\ Cont!TensorsStoredOnce /\ Cont!DirectoriesDescribeRecords
    /\ Cont!OpensWhatItWrote /\ Cont!OpenedIsDisjoint

(* What the converter has written, the reader opens (Container).           *)
OpensWhatItWrote == part = "layout" => Cont!OpensWhatItWrote
==============================================================================
