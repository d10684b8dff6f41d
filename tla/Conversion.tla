------------------------------ MODULE Conversion ------------------------------
(***************************************************************************)
(* The conversion transaction of converter/k3x_converter/writer.py and     *)
(* resume.py: a source directory is copied extent by extent into           *)
(* <output>.partial, a JSON ledger names the extents already verified, and *)
(* the finished file is renamed to <output>.  The process can be killed    *)
(* between any two steps, the machine can lose power (the unsynced tail of *)
(* the partial file is then lost or damaged and the latest directory       *)
(* operations may be undone), the source and the converter version can     *)
(* change between two runs.                                                *)
(*                                                                         *)
(* A file is a superblock and a sequence of pieces, one piece per extent   *)
(* and a last one for the directories; offsets are modelled by positions   *)
(* (module ExtentLayout has the arithmetic).  A digest or a checksum of a  *)
(* text is the text itself.                                                *)
(***************************************************************************)
EXTENDS Naturals, Sequences

CONSTANTS Sources,      \* contents the source directory can have
          Tools,        \* converter versions
          Extents,      \* number of extents of the plan
          Chunks,       \* reads of at most chunk_bytes per extent
          Data,         \* Data[s][i]: what each read of extent i of s returns
          Empty,        \* the extents of zero length
          Uuids,        \* file identities
          None, Junk,
          QuietSource,  \* TRUE: nobody edits the source during a run
          MaxPending,   \* bound on directory operations held back
          MaxKills,     \* bound on kills of the process
          MaxLosses,    \* bound on power losses
          MaxEdits      \* bound on edits of the source and upgrades

(* What is on the disk: texts as they were read or as a power loss leaves  *)
(* them, extents and directories, superblocks, files and ledgers.          *)
Texts == STRING \cup {Junk}
Entries == [id : 1..Extents, pos : 1..Extents, crc : Seq(Texts)]
Pieces ==
  [id : 0..Extents, chunks : Seq(Texts)]
  \cup [id : {0}, records : Seq(Entries), config : Sources, chunks : {<<>>}]
Superblocks ==
  [state : {1}, uuid : Uuids, source : Sources, length : Nat,
   directory : Pieces, root : Seq(Pieces) \cup {None}]
Blocks == Superblocks \cup {None, Junk}
Files == [super : Blocks, durable : Blocks, body : Seq(Pieces), synced : Nat]
Ledgers == [source : Sources, tool : Tools, uuid : Uuids, completed : Seq(Entries)]

ASSUME ConversionAssumption ==
  /\ Extents \in Nat /\ Chunks \in Nat \ {0} /\ MaxKills \in Nat /\ MaxLosses \in Nat
  /\ MaxPending \in Nat /\ MaxEdits \in Nat
  /\ Empty \subseteq 1..Extents
  /\ Data \in [Sources -> [1..Extents -> STRING]]
  /\ QuietSource \in BOOLEAN
  /\ None \notin Sources \cup Tools \cup Uuids \cup Files \cup Ledgers
  /\ None \notin Superblocks /\ Junk \notin Superblocks

VARIABLES source,   \* content of the source directory
          tool,     \* CONVERTER_VERSION of the installed converter
          partial,  \* <output>.partial, or None
          output,   \* <output>, or None
          ledger,   \* <output>.resume.json, or None
          undo,     \* directory operations a power loss may still undo
          run,      \* locals of convert
          result,   \* how the last run ended
          kills, losses, edits

disk == <<partial, output, ledger, undo>>
world == <<source, tool, kills, losses, edits>>
vars == <<source, tool, partial, output, ledger, undo, run, result, kills, losses, edits>>

Idle == [pc |-> "idle", src |-> None, uuid |-> None, done |-> <<>>, new |-> 0, stop |-> 0]

Content(s, i) == IF i \in Empty THEN <<>> ELSE [c \in 1..Chunks |-> Data[s][i]]

Entry(i, crc) == [id |-> i, pos |-> i, crc |-> crc]

(* A directory operation that has not reached the disk, with what it      *)
(* replaced; the file system holds back at most MaxPending of them.       *)
Pending(kind, was) ==
  LET all == Append(undo, [kind |-> kind, was |-> was])
  IN  IF Len(all) > MaxPending THEN Tail(all) ELSE all

------------------------------------------------------------------------------
(* Reading files. *)

Directory(p) == p.body[Extents + 1]

(* K3XReader.open: the file is finalized, complete, every extent has the  *)
(* bytes its directory record promises, no absent extent has an offset,   *)
(* and the directory and root digests agree.                              *)
Opens(f) ==
  /\ f.super # None /\ f.super # Junk
  /\ f.super.state = 1
  /\ Len(f.body) = f.super.length
  /\ Len(f.body) = Extents + 1
  /\ \A i \in 1..Extents :
        LET record == Directory(f).records[i]
        IN  /\ record.crc # <<>>
            /\ f.body[record.pos].chunks = record.crc
  /\ f.super.directory = Directory(f)
  /\ f.super.root = f.body

(* _validate_resume_extents: the completed extents are a prefix of the    *)
(* plan, none is empty, and each still has the bytes of the source.       *)
ExtentsFollowPlan(completed) ==
  /\ Len(completed) <= Extents
  /\ \A i \in 1..Len(completed) :
        completed[i].id = i /\ completed[i].pos = i /\ completed[i].crc # <<>>

ExtentsMatchSource(completed) ==
  \A i \in 1..Len(completed) : completed[i].crc = Content(source, i)

(* The finished artifact is the one the ledger describes. *)
IsFinishedBy(f, src) ==
  Opens(f) /\ f.super.source = src /\ f.super.uuid = ledger.uuid /\ Directory(f).config = src

HasExtents(p, completed) ==
  \A i \in 1..Len(completed) :
     i <= Len(p.body) /\ p.body[i].chunks = completed[i].crc

------------------------------------------------------------------------------
(* convert *)

Init ==
  /\ source \in Sources /\ tool \in Tools
  /\ partial = None /\ output = None /\ ledger = None /\ undo = <<>>
  /\ run = Idle /\ result = "none"
  /\ kills = 0 /\ losses = 0 /\ edits = 0

Finish(outcome) == run' = Idle /\ result' = outcome

(* The plans are loaded and the source is fingerprinted. *)
Start ==
  /\ run.pc = "idle"
  /\ \E stop \in 0..Extents :   \* 0 stands for stop_after_extents = None
        run' = [Idle EXCEPT !.pc = "open", !.src = source, !.stop = stop]
  /\ result' = "none"
  /\ UNCHANGED <<world, disk>>

DryRun ==
  /\ run.pc = "idle"
  /\ result' = "planned"
  /\ UNCHANGED <<world, disk, run>>

(* The first check of the ledger that fails. *)
Refusal ==
  IF ledger.source # run.src THEN "SOURCE_FINGERPRINT_MISMATCH"
  ELSE IF ledger.tool # tool THEN "RESUME_CONFIGURATION_MISMATCH"
  ELSE IF ~ExtentsFollowPlan(ledger.completed) THEN "INVALID_RESUME_EXTENT"
  ELSE IF ~ExtentsMatchSource(ledger.completed) THEN "RESUME_SOURCE_EXTENT_MISMATCH"
  ELSE "none"

LedgerAccepted == ledger # None /\ Refusal = "none"

Refuse ==
  /\ run.pc = "open" /\ ledger # None /\ ~LedgerAccepted
  /\ Finish(Refusal)
  /\ UNCHANGED <<world, disk>>

(* The rename happened, the ledger was left behind. *)
AcceptFinished ==
  /\ run.pc = "open" /\ LedgerAccepted /\ partial = None
  /\ IF output = None
     THEN Finish("MISSING_PARTIAL_FILE") /\ UNCHANGED disk
     ELSE IF IsFinishedBy(output, run.src)
          THEN /\ ledger' = None /\ undo' = Pending("ledger", ledger)
               /\ Finish("finalized")
               /\ UNCHANGED <<partial, output>>
          ELSE Finish("FINAL_ARTIFACT_MISMATCH") /\ UNCHANGED disk
  /\ UNCHANGED world

(* Every committed extent is read back, what follows them is cut off. *)
Resume ==
  /\ run.pc = "open" /\ LedgerAccepted /\ partial # None
  /\ IF ~HasExtents(partial, ledger.completed)
     THEN Finish("RESUME_EXTENT_CRC_MISMATCH") /\ UNCHANGED disk
     ELSE /\ run' = [run EXCEPT !.pc = "copy", !.uuid = ledger.uuid,
                                !.done = ledger.completed]
          /\ LET kept == Len(ledger.completed) IN
             partial' = IF Len(partial.body) > kept
                        THEN [partial EXCEPT !.body = SubSeq(@, 1, kept), !.synced = kept,
                                             !.durable = partial.super]
                        ELSE partial
          /\ UNCHANGED <<output, ledger, undo, result>>
  /\ UNCHANGED world

UuidOf(f) == IF f = None \/ f.super \in {None, Junk} THEN None ELSE f.super.uuid

(* uuid4 never repeats an identity that is still in use. *)
KnownUuids ==
  {UuidOf(partial), UuidOf(output)} \cup
  {undo[n].was.uuid : n \in {m \in DOMAIN undo : undo[m].kind = "ledger" /\ undo[m].was # None}}

WriteLedger(completed) ==
  /\ ledger' = [source |-> run.src, tool |-> tool, uuid |-> run.uuid, completed |-> completed]
  /\ undo' = Pending("ledger", ledger)

CreatePartial ==
  /\ run.pc = "open" /\ ledger = None
  /\ \E uuid \in Uuids :
        /\ uuid \notin KnownUuids
        /\ run' = [run EXCEPT !.pc = "ledger", !.uuid = uuid]
  /\ partial' = [super |-> None, durable |-> None, body |-> <<>>, synced |-> 0]
  /\ undo' = IF partial = None THEN Pending("create", None) ELSE undo
  /\ UNCHANGED <<world, output, ledger, result>>

CreateLedger ==
  /\ run.pc = "ledger"
  /\ WriteLedger(<<>>)
  /\ run' = [run EXCEPT !.pc = "copy"]
  /\ UNCHANGED <<world, partial, output, result>>

Following == Len(run.done) + 1

Copied == IF Len(partial.body) < Following THEN <<>> ELSE partial.body[Following].chunks

(* One chunk of the next extent; the extent is padded into place first. *)
CopyChunk ==
  /\ run.pc = "copy" /\ Following <= Extents
  /\ Following \notin Empty /\ Len(Copied) < Chunks
  /\ LET piece == [id |-> Following, chunks |-> Append(Copied, Data[source][Following])]
     IN  partial' = [partial EXCEPT !.body = Append(SubSeq(@, 1, Len(run.done)), piece)]
  /\ UNCHANGED <<world, output, ledger, undo, run, result>>

(* Mutant: the extent is not flushed. *)
SyncExtentLater ==
  /\ run.pc = "copy" /\ Following <= Extents
  /\ Following \in Empty \/ Len(Copied) = Chunks
  /\ run' = [run EXCEPT !.pc = "record"]
  /\ UNCHANGED <<world, disk, result>>
(* The extent is flushed and read back. *)
SyncExtent ==
  /\ run.pc = "copy" /\ Following <= Extents
  /\ Following \in Empty \/ Len(Copied) = Chunks
  /\ partial' = [partial EXCEPT
        !.body = IF Following \in Empty THEN Append(@, [id |-> Following, chunks |-> <<>>])
                                          ELSE @,
        !.synced = Following, !.durable = partial.super]
  /\ run' = [run EXCEPT !.pc = "record"]
  /\ UNCHANGED <<world, output, ledger, undo, result>>

(* Mutant: a run that stops here leaves the last extent out of the ledger. *)
RecordExtentUnlessStopping ==
  /\ run.pc = "record"
  /\ LET done == Append(run.done, Entry(Following, Copied)) IN
     IF run.stop # 0 /\ run.new + 1 >= run.stop
     THEN Finish("stopped") /\ UNCHANGED <<ledger, undo>>
     ELSE /\ WriteLedger(done)
          /\ run' = [run EXCEPT !.pc = "copy", !.done = done, !.new = @ + 1]
          /\ UNCHANGED result
  /\ UNCHANGED <<world, partial, output>>
(* The verified extent enters the ledger. *)
RecordExtent ==
  /\ run.pc = "record"
  /\ LET done == Append(run.done, Entry(Following, Copied)) IN
     /\ WriteLedger(done)
     /\ IF run.stop # 0 /\ run.new + 1 >= run.stop
        THEN Finish("stopped")
        ELSE /\ run' = [run EXCEPT !.pc = "copy", !.done = done, !.new = @ + 1]
             /\ UNCHANGED result
  /\ UNCHANGED <<world, partial, output>>

WriteDirectories ==
  /\ run.pc = "copy" /\ Following > Extents
  /\ LET directory == [id |-> 0, records |-> run.done, config |-> run.src,
                       chunks |-> <<>>]
         body == Append(partial.body, directory)
     IN  partial' = [partial EXCEPT !.body = body,
            !.super = [state |-> 1, uuid |-> run.uuid, source |-> run.src,
                       length |-> Extents + 1, directory |-> directory, root |-> None]]
  /\ run' = [run EXCEPT !.pc = "directories"]
  /\ UNCHANGED <<world, output, ledger, undo, result>>

Synced(p) == [p EXCEPT !.synced = Len(p.body), !.durable = p.super]

(* The rootless superblock is synced, the root digest is computed over it. *)
WriteRoot ==
  /\ run.pc = "directories"
  /\ partial' = [Synced(partial) EXCEPT !.super.root = partial.body]
  /\ run' = [run EXCEPT !.pc = "root"]
  /\ UNCHANGED <<world, output, ledger, undo, result>>

(* Mutant: the file is renamed before its last write is flushed. *)
SyncRootLater ==
  /\ run.pc = "root"
  /\ run' = [run EXCEPT !.pc = "publish"]
  /\ UNCHANGED <<world, disk, result>>
SyncRoot ==
  /\ run.pc = "root"
  /\ partial' = Synced(partial)
  /\ run' = [run EXCEPT !.pc = "publish"]
  /\ UNCHANGED <<world, output, ledger, undo, result>>

(* os.replace(partial, output) *)
Publish ==
  /\ run.pc = "publish"
  /\ output' = partial /\ partial' = None
  /\ undo' = Pending("publish", output)
  /\ run' = [run EXCEPT !.pc = "unlink"]
  /\ UNCHANGED <<world, ledger, result>>

RemoveLedger ==
  /\ run.pc = "unlink"
  /\ ledger' = None /\ undo' = Pending("ledger", ledger)
  /\ Finish("finalized")
  /\ UNCHANGED <<world, partial, output>>

Convert ==
  \/ Refuse \/ AcceptFinished \/ Resume \/ CreatePartial \/ CreateLedger
  \/ CopyChunk \/ SyncExtent \/ RecordExtent
  \/ WriteDirectories \/ WriteRoot \/ SyncRoot \/ Publish \/ RemoveLedger

------------------------------------------------------------------------------
(* The world around the converter. *)

Kill ==
  /\ run.pc \notin {"idle", "down"} /\ kills < MaxKills
  /\ kills' = kills + 1
  /\ Finish("killed")
  /\ UNCHANGED <<source, tool, losses, edits, disk>>

(* What a power loss leaves of a file: the synced pieces, and any length  *)
(* of the others with or without their bytes; an unsynced superblock can  *)
(* be the old one, the new one or torn.                                   *)
Remnant(f, block, n, intact) ==
  [f EXCEPT !.super = block, !.durable = block, !.synced = n,
            !.body = [k \in 1..n |-> IF k <= f.synced \/ intact THEN f.body[k]
                                     ELSE [id |-> f.body[k].id, chunks |-> <<Junk>>]]]

Remains(f) ==
  IF f = None THEN {None}
  ELSE {Remnant(f, block, n, intact) :
          block \in {f.super, f.durable} \cup {Junk : x \in {f.super} \ {f.durable}},
          n \in f.synced..Len(f.body), intact \in BOOLEAN}

PowerLoss ==
  /\ run.pc # "down" /\ losses < MaxLosses
  /\ losses' = losses + 1
  /\ run' = [Idle EXCEPT !.pc = "down"] /\ result' = "killed"
  /\ partial' \in Remains(partial) /\ output' \in Remains(output)
  /\ UNCHANGED <<source, tool, kills, edits, ledger, undo>>

LastPending == undo[Len(undo)]

(* The last directory operation never reached the disk. *)
LoseOperation ==
  /\ run.pc = "down" /\ undo # <<>>
  /\ undo' = SubSeq(undo, 1, Len(undo) - 1)
  /\ \/ /\ LastPending.kind = "ledger"
        /\ ledger' = LastPending.was /\ UNCHANGED <<partial, output>>
     \/ /\ LastPending.kind = "create"
        /\ partial' = None /\ UNCHANGED <<ledger, output>>
     \/ /\ LastPending.kind = "publish"
        /\ partial' = output /\ output' = LastPending.was /\ UNCHANGED ledger
  /\ UNCHANGED <<world, run, result>>

Boot ==
  /\ run.pc = "down"
  /\ undo' = <<>> /\ run' = Idle
  /\ UNCHANGED <<world, partial, output, ledger, result>>

EditSource ==
  /\ edits < MaxEdits /\ edits' = edits + 1
  /\ QuietSource => run.pc = "idle"
  /\ source' \in Sources \ {source}
  /\ UNCHANGED <<tool, kills, losses, disk, run, result>>

UpgradeTool ==
  /\ edits < MaxEdits /\ edits' = edits + 1
  /\ run.pc = "idle"
  /\ tool' \in Tools \ {tool}
  /\ UNCHANGED <<source, kills, losses, disk, run, result>>

World == Kill \/ PowerLoss \/ LoseOperation \/ EditSource \/ UpgradeTool

Next == Start \/ DryRun \/ Convert \/ Boot \/ World

Spec == Init /\ [][Next]_vars

(* The operator reruns a conversion that was interrupted. *)
Retry == result \in {"none", "planned", "killed", "stopped"} /\ Start

FairSpec == Spec /\ WF_vars(Retry) /\ WF_vars(Convert) /\ WF_vars(Boot)

------------------------------------------------------------------------------
(* Properties *)

Completed == IF ledger = None THEN <<>> ELSE ledger.completed

FileOK(f) == f = None \/
  /\ f.synced \in 0..Len(f.body)
  /\ Len(f.body) <= Extents + 1

Steps == {"idle", "open", "ledger", "copy", "record", "directories", "root",
          "publish", "unlink", "down"}
Operations ==
  [kind : {"ledger"}, was : Ledgers \cup {None}]
  \cup [kind : {"create", "publish"}, was : Files \cup {None}]

(* Types of the variables. *)
TypeOK ==
  /\ source \in Sources /\ tool \in Tools
  /\ partial \in Files \cup {None} /\ FileOK(partial)
  /\ output \in Files \cup {None} /\ FileOK(output)
  /\ ledger \in Ledgers \cup {None} /\ Len(Completed) <= Extents
  /\ undo \in Seq(Operations)
  /\ run \in [pc : Steps, src : Sources \cup {None}, uuid : Uuids \cup {None},
              done : Seq(Entries), new : Nat, stop : 0..Extents]
  /\ kills \in 0..MaxKills /\ losses \in 0..MaxLosses /\ edits \in 0..MaxEdits

(* Whatever was interrupted before, a file under the output name opens     *)
(* and holds exactly the extents of the source it names (os.replace is     *)
(* the only writer of that name).                                          *)
PublishedIsWhole ==
  output # None =>
    /\ Opens(output)
    /\ \A i \in 1..Extents : output.body[i].chunks = Content(output.super.source, i)

(* An extent the ledger names is on the disk, synced and with the bytes of *)
(* the ledger's source, so no power loss can take it back (extent synced   *)
(* and read back before write_resume_manifest).                            *)
ExtentsAreBacked ==
  ledger # None /\ partial # None =>
    \A i \in 1..Len(ledger.completed) :
       /\ ledger.completed[i] = Entry(i, Content(ledger.source, i))
       /\ i <= partial.synced
       /\ partial.body[i].chunks = ledger.completed[i].crc

(* A ledger is never orphaned: the file it describes exists under one of   *)
(* its two names.                                                          *)
LedgerHasItsFile ==
  ledger # None /\ partial = None =>
    output # None /\ output.super.uuid = ledger.uuid /\ output.super.source = ledger.source

Refusals == {"SOURCE_FINGERPRINT_MISMATCH", "RESUME_CONFIGURATION_MISMATCH"}

(* An interrupted conversion can always be resumed: the only runs that are *)
(* refused are those of another source or another converter version.       *)
RefusesOnlyChangedInput ==
  result \in {"none", "planned", "killed", "stopped", "finalized"} \cup Refusals

(* No power loss takes back an extent the ledger names, no ledger is       *)
(* without its file, and what was interrupted can be resumed: only changed *)
(* input is refused, and what is published holds the source it names.      *)
LedgerIsBacked ==
  TypeOK /\ ExtentsAreBacked /\ LedgerHasItsFile /\ RefusesOnlyChangedInput /\ PublishedIsWhole

(* However often a run is killed, stopped or hit by a power loss, the      *)
(* operator who reruns it gets an artifact, or a refusal of changed input. *)
EventuallyDecided ==
  []<>(result \in {"finalized"} \cup Refusals)

(* What a reader of the output name relies on. *)
Published(f) == IF f = None THEN None
                ELSE IF Opens(f) THEN f.super.source ELSE Junk

Promise == INSTANCE Publication WITH
  published <- Published(output),
  recent <- {Published(undo[n].was) : n \in {m \in DOMAIN undo : undo[m].kind = "publish"}}

(* A reader of the output name finds nothing or the whole conversion of a  *)
(* source that was asked for, and a power loss brings back only what the   *)
(* name held shortly before: the conversion implements Publication.        *)
ImplementsPublication == Promise!Spec
===============================================================================
