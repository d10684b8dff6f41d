------------------------------ MODULE Evidence ------------------------------
(***************************************************************************)
(* The tools that leave evidence of a measurement: each runs its cases,    *)
(* checks every row, and writes the rows, a table and a summary with the   *)
(* digests of the inputs and of the files, into one directory; its         *)
(* verifier later accepts that directory or not.  Seven tools publish the   *)
(* directory whole, under its name, by renaming a partial one; the others  *)
(* write into it.  Runs fail and are killed, and inputs are rebuilt.       *)
(*                                                                         *)
(* A digest is the content it is of.  What rows hold is told apart by the  *)
(* run and the inputs that made them, by whether the formulas of the tool  *)
(* hold of them (OfficialDevice) and by their results.                     *)
(***************************************************************************)
EXTENDS Integers, Sequences, FiniteSets

CONSTANTS
  Settings,          \* what a behaviour may be of, see SettingsAssumption
  MaxRows            \* bounds on the rows of a table, one for each tool

AllTools == {"layer", "validation", "state", "routing", "closure", "attribution", "operation",
             "moe", "expert", "graph", "audit", "discovery"}
\* The tools that publish the directory whole.
Atomic == AllTools \ {"moe", "expert", "graph", "audit", "discovery"}
\* The tools that do not verify what they wrote.
Unverified == {"graph", "audit", "discovery"}

\* A setting says which processes run one of which tools over one directory,
\* bounds their runs, kills and the rebuilds of inputs, and says whether
\* formulas may hold, and fail, of a row, which digests outputs may have, and
\* whether inputs are rebuilt while a process runs.
ASSUME SettingsAssumption ==
  \A s \in Settings :
    /\ DOMAIN s = {"processes", "tools", "runs", "kills", "rebuilds", "soundness", "results",
                   "rebuildsDuringRuns"}
    /\ s.tools \subseteq AllTools
ASSUME MaxRowsAssumption == MaxRows \in [AllTools -> Nat \ {0}]

\* What a file holds that is not whole: one only partly written, or written by
\* two at once; and one that was opened, and truncated, and not written yet.
Torn == [torn |-> TRUE]
Empty == [torn |-> FALSE]
\* A directory holds the contents of its files.  The one that stands for none
\* has a file that no tool writes.
NoFiles == [f \in {} |-> Torn]
NoDirectory == [f \in {<<"none", 0>>} |-> Torn]

-----------------------------------------------------------------------------
(* Cases, cut to the first n                                                *)

Cut(cases, n) == [i \in 1..(IF Len(cases) < n THEN Len(cases) ELSE n) |-> cases[i]]

LayerCases == <<"a-transient", "ab-incremental-resident", "ab-full-resident">>
MoeCases == <<"a-transient", "a-resident", "alternating-resident">>
ExpertCases == <<"transient", "resident">>
ValidationCases == <<"incremental-per-call", "incremental-admission",
                     "full-per-call", "full-admission">>
StateCases == <<"incremental-host", "incremental-device", "full-host">>
RoutingCases == <<"host-route", "device-route">>
ClosureCases == <<"host-round-trip", "device-closure">>
Traces == <<"constant-1", "alternating-2", "rotating-5">>
CacheModes == <<"disabled", "update-1", "cache-1", "cache-2", "cache-4">>
GraphCases == [i \in 1..15 |-> <<Traces[((i - 1) \div 5) + 1], CacheModes[((i - 1) % 5) + 1]>>]
AuditCases == <<"fresh", "resume-clean", "resume-orphan">>

CasesOf ==
  [t \in AllTools |->
    CASE t = "layer" -> Cut(LayerCases, MaxRows[t])
      [] t = "validation" -> Cut(ValidationCases, MaxRows[t])
      [] t = "state" -> Cut(StateCases, MaxRows[t]) [] t = "routing" -> Cut(RoutingCases, MaxRows[t])
      [] t \in {"closure", "attribution", "operation"} -> Cut(ClosureCases, MaxRows[t])
      [] t = "moe" -> Cut(MoeCases, MaxRows[t]) [] t = "expert" -> Cut(ExpertCases, MaxRows[t])
      [] t = "graph" -> Cut(GraphCases, MaxRows[t]) [] t = "audit" -> Cut(AuditCases, MaxRows[t])
      [] t = "discovery" -> <<"expert">>]
Cases(t) == CasesOf[t]

-----------------------------------------------------------------------------
(* What a run does after each of its steps; more says whether there are     *)
(* cases left.  A row is measured and checked, then written, then digested  *)
(* from the file.                                                           *)

SummaryRun(s) ==
  CASE s = "name" -> "write table" [] s = "write table" -> "digest table"
    [] s = "digest table" -> "write summary"

AtomicRun(s, more) ==
  CASE s = "start" -> "identify" [] s = "identify" -> "refuse" [] s = "refuse" -> "clear"
    [] s = "clear" -> "make" [] s = "make" -> "measure"
    [] s = "measure" -> "write row" [] s = "write row" -> "digest row"
    [] s = "digest row" -> IF more THEN "measure" ELSE "parity"
    [] s = "parity" -> "name" [] s \in {"name", "write table", "digest table"} -> SummaryRun(s)
    [] s = "write summary" -> "publish" [] s = "publish" -> "verify" [] s = "verify" -> "idle"
OracleRun(s, more) ==
  CASE s = "identify" -> "oracle" [] s = "oracle" -> "refuse" [] OTHER -> AtomicRun(s, more)
InPlaceRun(s, more) ==
  CASE s = "mkdir" -> "measure" [] s = "measure" -> "write row" [] s = "write row" -> "digest row"
    [] s = "digest row" -> IF more THEN "measure" ELSE "name"
    [] s \in {"name", "write table", "digest table"} -> SummaryRun(s)
    [] s = "write summary" -> "verify" [] s = "verify" -> "idle"

LayerRun(s, more) == AtomicRun(s, more)
ValidationRun(s, more) == AtomicRun(s, more)
StateRun(s, more) == AtomicRun(s, more)
RoutingRun(s, more) == AtomicRun(s, more)
ClosureRun(s, more) == OracleRun(s, more)
AttributionRun(s, more) == OracleRun(s, more)
OperationRun(s, more) == OracleRun(s, more)
MoeRun(s, more) ==
  CASE s = "start" -> "identify" [] s = "identify" -> "mkdir" [] OTHER -> InPlaceRun(s, more)
ExpertRun(s, more) == IF s = "start" THEN "mkdir" ELSE InPlaceRun(s, more)
\* Mutant: the summary is written before the table it has the digest of.
GraphRunSummaryFirst(s, more) ==
  CASE s = "start" -> "mkdir" [] s = "digest row" -> "write row table"
    [] s = "write row table" -> "digest row table"
    [] s = "digest row table" -> IF more THEN "measure" ELSE "name"
    [] s = "name" -> "write summary" [] s = "write summary" -> "write table"
    [] s = "write table" -> "digest table" [] s = "digest table" -> "idle"
    [] OTHER -> InPlaceRun(s, more)
\* A row has a file and a table of its own.
GraphRun(s, more) ==
  CASE s = "start" -> "mkdir" [] s = "digest row" -> "write row table"
    [] s = "write row table" -> "digest row table"
    [] s = "digest row table" -> IF more THEN "measure" ELSE "name"
    [] s = "write summary" -> "idle" [] OTHER -> InPlaceRun(s, more)
AuditRun(s, more) ==
  CASE s = "start" -> "mkdir" [] s = "mkdir" -> "measure"
    [] s = "measure" -> IF more THEN "measure" ELSE "parity"
    [] s = "parity" -> "write table" [] s = "write table" -> "name" [] s = "name" -> "digest table"
    [] s = "digest table" -> "write summary" [] s = "write summary" -> "idle"
\* discover --scope expert.
DiscoveryRun(s, more) ==
  CASE s = "start" -> "mkdir" [] s = "mkdir" -> "measure" [] s = "measure" -> "write table"
    [] s = "write table" -> "digest table" [] s = "digest table" -> "name"
    [] s = "name" -> "write summary" [] s = "write summary" -> "idle"

After(t, s, more) ==
  CASE t = "layer" -> LayerRun(s, more) [] t = "validation" -> ValidationRun(s, more)
    [] t = "state" -> StateRun(s, more) [] t = "routing" -> RoutingRun(s, more)
    [] t = "closure" -> ClosureRun(s, more) [] t = "attribution" -> AttributionRun(s, more)
    [] t = "operation" -> OperationRun(s, more) [] t = "moe" -> MoeRun(s, more)
    [] t = "expert" -> ExpertRun(s, more) [] t = "graph" -> GraphRun(s, more)
    [] t = "audit" -> AuditRun(s, more) [] t = "discovery" -> DiscoveryRun(s, more)

\* The file a step writes or digests, in row i.
Csv == <<"summary.csv", 0>>
Json == <<"summary.json", 0>>
FileOf(s, i) ==
  CASE s \in {"write row", "digest row"} -> <<"json", i>>
    [] s \in {"write row table", "digest row table"} -> <<"csv", i>>
    [] s \in {"write table", "digest table"} -> Csv
    [] s = "write summary" -> Json
Writes == {"write row", "write row table", "write table", "write summary"}
Digests == {"digest row", "digest row table", "digest table"}

-----------------------------------------------------------------------------
(* What rows must agree on across the table                                 *)

LayerParity(rows) == Len(rows) < 3 \/ rows[2].result = rows[3].result
ValidationParity(rows) == \A i \in DOMAIN rows : rows[i].result = rows[1].result
StateParity(rows) == \A i \in DOMAIN rows : rows[i].result = rows[1].result
RoutingParity(rows) == Len(rows) < 2 \/ rows[2].result = rows[1].result
\* Here the results compared are the order of the routes: their outputs are
\* recorded, and may differ.
ClosureParity(rows) == Len(rows) < 2 \/ rows[2].result = rows[1].result
\* Sizes of the finished artifacts.
AuditParity(rows) == \A i \in DOMAIN rows : rows[i].result = rows[1].result

Parity(t, rows) ==
  CASE t = "layer" -> LayerParity(rows) [] t = "validation" -> ValidationParity(rows)
    [] t = "state" -> StateParity(rows) [] t = "routing" -> RoutingParity(rows)
    [] t \in {"closure", "attribution", "operation"} -> ClosureParity(rows)
    [] t = "audit" -> AuditParity(rows) [] OTHER -> TRUE

-----------------------------------------------------------------------------
(* What the verifiers accept                                                *)

InputNames == {"artifact", "manifest", "oracle", "runner"}

Holds(d, f) == f \in DOMAIN d /\ d[f] \notin {Empty, Torn}
Summary(d) == d[Json]
Rows(d) == Summary(d).rows
\* The file is there, with the digest the summary has of it.
Digested(d, f) ==
  Holds(d, f) /\ f \in DOMAIN Summary(d).digests /\ Summary(d).digests[f] = d[f]
Summarised(t, d) == Holds(d, Json) /\ Summary(d).tool = t /\ Len(Rows(d)) = Len(Cases(t))
Names(d, ins, names) == \A n \in names : Summary(d).named[n] = ins[n]
\* The manifest that identifies the rows is the one there is.
Identifies(d, ins) == Summary(d).identity = ins["manifest"]
\* The formulas hold, and the root of the artifact is that of the manifest, or
\* of the one artifact the tool is for.
Accepted(t, row, identity) ==
  /\ row.sound
  /\ CASE t \in {"expert", "discovery"} -> row.with["artifact"] = 1
       [] t \in {"graph", "audit"} -> TRUE
       [] OTHER -> row.with["artifact"] = identity
RowsHold(t, d) ==
  \A i \in DOMAIN Rows(d) :
    Rows(d)[i].case = Cases(t)[i] /\ Accepted(t, Rows(d)[i], Summary(d).identity)
RowsAre(d) ==
  \A i \in DOMAIN Rows(d) :
    Digested(d, <<"json", i>>) /\ d[<<"json", i>>] = Rows(d)[i]
TableIs(d) == Digested(d, Csv) /\ d[Csv].rows = Rows(d)

\* Mutant: the raw rows are not read again.
LayerVerifiesSummary(d, ins) ==
  /\ Summarised("layer", d) /\ Names(d, ins, {"artifact", "manifest", "runner"})
  /\ Identifies(d, ins) /\ RowsHold("layer", d) /\ LayerParity(Rows(d)) /\ TableIs(d)
LayerVerifies(d, ins) ==
  /\ Summarised("layer", d) /\ Names(d, ins, {"artifact", "manifest", "runner"})
  /\ Identifies(d, ins) /\ RowsHold("layer", d) /\ RowsAre(d) /\ LayerParity(Rows(d)) /\ TableIs(d)
ValidationVerifies(d, ins) ==
  /\ Summarised("validation", d) /\ Names(d, ins, {"artifact", "manifest", "runner"})
  /\ Identifies(d, ins) /\ RowsHold("validation", d) /\ RowsAre(d)
  /\ ValidationParity(Rows(d)) /\ TableIs(d)
StateVerifies(d, ins) ==
  /\ Summarised("state", d) /\ Names(d, ins, {"artifact", "manifest", "runner"})
  /\ Identifies(d, ins) /\ RowsHold("state", d) /\ RowsAre(d) /\ StateParity(Rows(d)) /\ TableIs(d)
RoutingVerifies(d, ins) ==
  /\ Summarised("routing", d) /\ Names(d, ins, {"artifact", "manifest", "runner"})
  /\ Identifies(d, ins) /\ RowsHold("routing", d) /\ RowsAre(d) /\ RoutingParity(Rows(d)) /\ TableIs(d)
\* The oracle named is also the one the manifest describes.
ClosureVerifies(d, ins) ==
  /\ Summarised("closure", d) /\ Names(d, ins, InputNames) /\ Identifies(d, ins)
  /\ Summary(d).named["oracle"] = Summary(d).identity
  /\ RowsHold("closure", d) /\ RowsAre(d) /\ ClosureParity(Rows(d)) /\ TableIs(d)
AttributionVerifies(d, ins) ==
  /\ Summarised("attribution", d) /\ Names(d, ins, InputNames) /\ Identifies(d, ins)
  /\ Summary(d).named["oracle"] = Summary(d).identity
  /\ RowsHold("attribution", d) /\ RowsAre(d) /\ ClosureParity(Rows(d)) /\ TableIs(d)
OperationVerifies(d, ins) ==
  /\ Summarised("operation", d) /\ Names(d, ins, InputNames) /\ Identifies(d, ins)
  /\ Summary(d).named["oracle"] = Summary(d).identity
  /\ RowsHold("operation", d) /\ RowsAre(d) /\ ClosureParity(Rows(d)) /\ TableIs(d)
MoeVerifies(d, ins) ==
  /\ Summarised("moe", d) /\ Names(d, ins, {"artifact", "manifest", "runner"})
  /\ Identifies(d, ins) /\ RowsHold("moe", d) /\ RowsAre(d) /\ TableIs(d)
\* The artifact is the one the tool was made for, the first.
ExpertVerifies(d, ins) ==
  /\ Summarised("expert", d) /\ Names(d, ins, {"artifact", "runner"})
  /\ Summary(d).named["artifact"] = 1
  /\ RowsHold("expert", d) /\ RowsAre(d) /\ TableIs(d)
\* Of the table only the digest and the names are compared.
GraphVerifies(d, ins) ==
  /\ Summarised("graph", d) /\ RowsHold("graph", d) /\ RowsAre(d)
  /\ \A i \in DOMAIN Rows(d) :
       Digested(d, <<"csv", i>>) /\ d[<<"csv", i>>] = Rows(d)[i]
  /\ Digested(d, Csv)
  /\ \A i \in DOMAIN Rows(d) : d[Csv].rows[i].case = Cases("graph")[i]
  /\ Names(d, ins, {"artifact", "runner"})
AuditVerifies(d, ins) ==
  /\ Summarised("audit", d) /\ RowsHold("audit", d) /\ AuditParity(Rows(d))
  /\ TableIs(d) /\ Names(d, ins, {"runner"})
DiscoveryVerifies(d, ins) ==
  /\ Summarised("discovery", d) /\ RowsHold("discovery", d) /\ TableIs(d)

Verifies(t, d, ins) ==
  CASE t = "layer" -> LayerVerifies(d, ins) [] t = "validation" -> ValidationVerifies(d, ins)
    [] t = "state" -> StateVerifies(d, ins) [] t = "routing" -> RoutingVerifies(d, ins)
    [] t = "closure" -> ClosureVerifies(d, ins) [] t = "attribution" -> AttributionVerifies(d, ins)
    [] t = "operation" -> OperationVerifies(d, ins) [] t = "moe" -> MoeVerifies(d, ins)
    [] t = "expert" -> ExpertVerifies(d, ins) [] t = "graph" -> GraphVerifies(d, ins)
    [] t = "audit" -> AuditVerifies(d, ins) [] t = "discovery" -> DiscoveryVerifies(d, ins)

-----------------------------------------------------------------------------
VARIABLES setting,     \* the setting of this behaviour,
          tool,        \* and its tool
          inputs,      \* version of each input file; manifest v describes artifact and oracle v
          out,         \* the output directory
          unpublished, \* the partial directory, or discovery's partial files: one for all processes
          opened,      \* what each process has open, see Closed
          work,        \* the run of each process
          started, kills, rebuilds

vars == <<setting, tool, inputs, out, unpublished, opened, work, started, kills, rebuilds>>
held == <<out, unpublished, opened>>
counts == <<started, kills, rebuilds>>

Idle(p) == work[p].pc = "idle"
Begun(id, pc) == [id |-> id, pc |-> pc, row |-> 1, end |-> "", identity |-> 0,
                  rows |-> <<>>, named |-> inputs, digests |-> NoFiles,
                  seen |-> NoFiles, against |-> inputs]
\* A process has one file open, to write it, or a directory, to remove it.
\* What is open is in a directory, which a rename takes along: one of the two,
\* or "nowhere", when it was unlinked.  files is the file, or what is left of
\* the listing of the directory; done says that the file is written or the
\* directory listed.
\* Found is only the name of a directory that was there.
Closed == [in |-> "closed", files |-> {}, done |-> FALSE]
Found == [in |-> "found", files |-> {}, done |-> FALSE]

Init ==
  /\ setting \in Settings /\ tool \in setting.tools
  /\ inputs = [n \in InputNames |-> 1]
  /\ out = NoDirectory /\ unpublished = NoDirectory
  /\ opened = [p \in setting.processes |-> Closed]
  /\ work = [p \in setting.processes |-> Begun(0, "idle")]
  /\ started = 0 /\ kills = 0 /\ rebuilds = 0

Start(p) ==
  /\ p \in setting.processes /\ Idle(p) /\ started < setting.runs
  /\ started' = started + 1
  /\ work' = [work EXCEPT ![p] = Begun(started', After(tool, "start", TRUE))]
  /\ UNCHANGED <<setting, tool, inputs, held, kills, rebuilds>>

At(p, steps) == p \in setting.processes /\ work[p].pc \in steps

\* The process goes on to the next step of its program, or ends well; the
\* first step of a row that follows another is to measure it.
Advanced(r) ==
  LET next == After(tool, r.pc, r.row < Len(Cases(tool)))
  IN  [r EXCEPT !.pc = next,
                !.row = IF next = "measure" /\ Len(r.rows) = @ THEN @ + 1 ELSE @,
                !.end = IF next = "idle" THEN "ok" ELSE @]
Goes(p, r) == work' = [work EXCEPT ![p] = Advanced(r)]

\* Once it has made the partial directory, a failing run of an atomic tool
\* removes it, whoever made it since.
Made(p) ==
  tool \in Atomic /\ work[p].pc \notin {"identify", "oracle", "refuse", "clear", "make", "verify"}
Fails(p) ==
  work' = [work EXCEPT ![p].pc = IF Made(p) THEN "clean" ELSE "idle", ![p].end = "failed"]

Identify(p) ==
  /\ At(p, {"identify"})
  /\ Goes(p, [work[p] EXCEPT !.identity = inputs["manifest"]])
  /\ UNCHANGED <<setting, tool, inputs, held, counts>>

CheckOracle(p) ==
  /\ At(p, {"oracle"})
  /\ IF inputs["oracle"] = work[p].identity THEN Goes(p, work[p]) ELSE Fails(p)
  /\ UNCHANGED <<setting, tool, inputs, held, counts>>

RefuseExisting(p) ==
  /\ At(p, {"refuse"})
  /\ IF out = NoDirectory THEN Goes(p, work[p]) ELSE Fails(p)
  /\ UNCHANGED <<setting, tool, inputs, held, counts>>

-----------------------------------------------------------------------------
(* The partial directory is removed before a run, where there is one, and   *)
(* after a run that failed: opened, listed, unlinked file by file, and      *)
(* removed by its name.                                                     *)

Contents(place) ==
  CASE place = "out" /\ out # NoDirectory -> out
    [] place = "unpublished" /\ unpublished # NoDirectory -> unpublished
    [] OTHER -> NoFiles
Put(place, d) ==
  /\ out' = IF place = "out" THEN d ELSE out
  /\ unpublished' = IF place = "unpublished" THEN d ELSE unpublished
Writing(dir, f, content) == [g \in DOMAIN dir \cup {f} |-> IF g = f THEN content ELSE dir[g]]
Without(dir, f) == [g \in DOMAIN dir \ {f} |-> dir[g]]
\* Process q has file f open in that place, to write it.
WritesTo(q, f, place) == At(q, Writes) /\ opened[q].in = place /\ f \in opened[q].files
Close(p) == opened' = [opened EXCEPT ![p] = Closed]

\* Errors are ignored after a run that failed.
Clears(p) == At(p, {"clear", "clean"})
Cleared(p) ==
  IF At(p, {"clear"}) THEN Goes(p, work[p]) ELSE work' = [work EXCEPT ![p].pc = "idle"]

\* Mutant: a partial directory a killed run left is an error.
FindPartialRefuses(p) ==
  /\ At(p, {"clear"}) /\ IF unpublished = NoDirectory THEN Goes(p, work[p]) ELSE Fails(p)
  /\ UNCHANGED <<setting, tool, inputs, held, counts>>
FindPartial(p) ==
  /\ At(p, {"clear"}) /\ opened[p] = Closed
  /\ IF unpublished = NoDirectory THEN Goes(p, work[p]) /\ UNCHANGED opened
     ELSE opened' = [opened EXCEPT ![p] = Found] /\ UNCHANGED work
  /\ UNCHANGED <<setting, tool, inputs, out, unpublished, counts>>

\* What was found may be gone: another process removed it, or published it.
OpenPartial(p) ==
  /\ Clears(p) /\ opened[p] = IF At(p, {"clear"}) THEN Found ELSE Closed
  /\ IF unpublished = NoDirectory THEN Close(p) /\ IF At(p, {"clear"}) THEN Fails(p) ELSE Cleared(p)
     ELSE /\ opened' = [opened EXCEPT ![p] = [in |-> "unpublished", files |-> {}, done |-> FALSE]]
          /\ UNCHANGED work
  /\ UNCHANGED <<setting, tool, inputs, out, unpublished, counts>>

ListPartial(p) ==
  /\ Clears(p) /\ opened[p] \notin {Closed, Found} /\ ~opened[p].done
  /\ opened' = [opened EXCEPT ![p].files = DOMAIN Contents(opened[p].in), ![p].done = TRUE]
  /\ UNCHANGED <<setting, tool, inputs, out, unpublished, work, counts>>

\* Wherever the directory is by now.  That another process removed the file is
\* an error before Python 3.13, and ignored since.
RemoveFile(p) ==
  /\ Clears(p)
  /\ \E f \in opened[p].files :
       LET place == opened[p].in
           left == [opened[p] EXCEPT !.files = @ \ {f}]
       IN  IF f \in DOMAIN Contents(place)
           THEN /\ Put(place, Without(Contents(place), f))
                /\ opened' = [q \in setting.processes |->
                     IF q = p THEN left
                     ELSE IF WritesTo(q, f, place) THEN [opened[q] EXCEPT !.in = "nowhere"]
                     ELSE opened[q]]
                /\ UNCHANGED work
           ELSE /\ \/ opened' = [opened EXCEPT ![p] = left] /\ UNCHANGED work
                   \/ At(p, {"clear"}) /\ Fails(p) /\ Close(p)
                /\ UNCHANGED <<out, unpublished>>
  /\ UNCHANGED <<setting, tool, inputs, counts>>

\* It may not be the one that was listed: another process may have renamed that
\* one, and made another.
RemoveDirectory(p) ==
  /\ Clears(p) /\ opened[p].done /\ opened[p].files = {}
  /\ IF unpublished # NoDirectory /\ DOMAIN unpublished = {}
     THEN /\ unpublished' = NoDirectory /\ Cleared(p)
          /\ opened' = [q \in setting.processes |->
               IF q = p THEN Closed
               ELSE IF opened[q].in = "unpublished" THEN [opened[q] EXCEPT !.in = "nowhere"]
               ELSE opened[q]]
     ELSE /\ IF At(p, {"clear"}) THEN Fails(p) ELSE Cleared(p)
          /\ Close(p) /\ UNCHANGED unpublished
  /\ UNCHANGED <<setting, tool, inputs, out, counts>>

MakePartial(p) ==
  /\ At(p, {"make"})
  /\ IF unpublished = NoDirectory THEN unpublished' = NoFiles /\ Goes(p, work[p])
     ELSE Fails(p) /\ UNCHANGED unpublished
  /\ UNCHANGED <<setting, tool, inputs, out, opened, counts>>

\* Discovery's partial files are beside the files they become.
MakeDirectory(p) ==
  /\ At(p, {"mkdir"})
  /\ out' = IF out = NoDirectory THEN NoFiles ELSE out
  /\ unpublished' = IF tool = "discovery" /\ unpublished = NoDirectory THEN NoFiles ELSE unpublished
  /\ Goes(p, work[p])
  /\ UNCHANGED <<setting, tool, inputs, opened, counts>>

-----------------------------------------------------------------------------
\* A case runs the runner there is on the artifact there is; the run ends
\* where the runner fails, or the row is not accepted.
Measure(p) ==
  /\ At(p, {"measure"})
  /\ \E sound \in setting.soundness, result \in setting.results :
       LET row == [case |-> Cases(tool)[work[p].row], id |-> work[p].id, with |-> inputs,
                   sound |-> sound, result |-> result]
       IN  IF Accepted(tool, row, work[p].identity)
           THEN Goes(p, [work[p] EXCEPT !.rows = Append(@, row)])
           ELSE Fails(p)
  /\ UNCHANGED <<setting, tool, inputs, held, counts>>

CheckParity(p) ==
  /\ At(p, {"parity"})
  /\ IF Parity(tool, work[p].rows) THEN Goes(p, work[p]) ELSE Fails(p)
  /\ UNCHANGED <<setting, tool, inputs, held, counts>>

NameInputs(p) ==
  /\ At(p, {"name"})
  /\ Goes(p, [work[p] EXCEPT !.named = inputs])
  /\ UNCHANGED <<setting, tool, inputs, held, counts>>

-----------------------------------------------------------------------------
File(p) == FileOf(work[p].pc, work[p].row)
Content(r, f) ==
  CASE f = Csv -> [rows |-> r.rows]
    [] f = Json -> [tool |-> tool, rows |-> r.rows, named |-> r.named,
                    identity |-> r.identity, digests |-> r.digests]
    [] OTHER -> r.rows[f[2]]
Directory == Contents(IF tool \in Atomic THEN "unpublished" ELSE "out")

\* Files are written where they stay, in the partial directory, or, by
\* discovery, under another name.  A file of a directory that another process
\* renamed or removed cannot be opened; one that is there is truncated, whoever
\* else has it open.
Place == IF tool \in Atomic \cup {"discovery"} THEN "unpublished" ELSE "out"
Open(p) ==
  /\ At(p, Writes) /\ opened[p] = Closed
  /\ IF Place = "unpublished" /\ unpublished = NoDirectory THEN Fails(p) /\ UNCHANGED held
     ELSE /\ Put(Place, Writing(Contents(Place), File(p), Empty))
          /\ opened' = [opened EXCEPT ![p] = [in |-> Place, files |-> {File(p)}, done |-> FALSE]]
          /\ UNCHANGED work
  /\ UNCHANGED <<setting, tool, inputs, counts>>

\* The bytes go to the file that was opened, wherever it is by now; into one
\* that another process has written meanwhile, or has open, perhaps among its.
WriteOut(p) ==
  /\ At(p, Writes) /\ opened[p] # Closed /\ ~opened[p].done
  /\ LET f == File(p)
         place == opened[p].in
         dir == Contents(place)
         mine == \A q \in setting.processes \ {p} : ~WritesTo(q, f, place)
     IN  IF f \in DOMAIN dir
         THEN \E content \in {Content(work[p], f)} \cup
                             (IF mine /\ dir[f] = Empty THEN {} ELSE {Torn}) :
                Put(place, Writing(dir, f, content))
         ELSE UNCHANGED <<out, unpublished>>
  /\ IF tool = "discovery"
     THEN /\ opened' = [opened EXCEPT ![p] = [in |-> "closed", files |-> {File(p)}, done |-> TRUE]]
          /\ UNCHANGED work
     ELSE Close(p) /\ Goes(p, work[p])
  /\ UNCHANGED <<setting, tool, inputs, counts>>

\* A rename takes along what is open, and unlinks what had the name.
Moved(h) ==
  [h EXCEPT !.in = CASE @ = "unpublished" -> "out" [] @ = "out" -> "nowhere" [] OTHER -> @]

\* Discovery renames what it wrote, under one partial name for all processes.
Rename(p) ==
  /\ At(p, Writes) /\ opened[p].done
  /\ LET f == File(p)
         partial == Contents("unpublished")
     IN  IF f \in DOMAIN partial
         THEN /\ out' = Writing(Contents("out"), f, partial[f]) /\ unpublished' = Without(partial, f)
              /\ opened' = [q \in setting.processes |->
                   IF q = p THEN Closed
                   ELSE IF f \in opened[q].files THEN Moved(opened[q]) ELSE opened[q]]
              /\ Goes(p, work[p])
         ELSE Fails(p) /\ Close(p) /\ UNCHANGED <<out, unpublished>>
  /\ UNCHANGED <<setting, tool, inputs, counts>>

\* What is digested is the file, read again.
Digest(p) ==
  /\ At(p, Digests)
  /\ LET f == File(p)
     IN  IF f \in DOMAIN Directory
         THEN Goes(p, [work[p] EXCEPT !.digests = Writing(@, f, Directory[f])])
         ELSE Fails(p)
  /\ UNCHANGED <<setting, tool, inputs, held, counts>>

\* A directory is renamed over one that has no files, never over another.
Publish(p) ==
  /\ At(p, {"publish"})
  /\ IF unpublished # NoDirectory /\ DOMAIN Contents("out") = {}
     THEN /\ out' = unpublished /\ unpublished' = NoDirectory
          /\ opened' = [q \in setting.processes |-> Moved(opened[q])]
          /\ Goes(p, work[p])
     ELSE Fails(p) /\ UNCHANGED held
  /\ UNCHANGED <<setting, tool, inputs, counts>>

\* The verifier reads the summary, and the inputs, then the rows one by one, and
\* then the table, and judges what it has read.  One it reads twice, for the
\* digest and for what it holds, is read once here.
NextFile(r) ==
  IF Json \notin DOMAIN r.seen THEN Json
  ELSE LET unread == {i \in DOMAIN r.rows : <<"json", i>> \notin DOMAIN r.seen}
       IN  IF unread = {} THEN Csv ELSE <<"json", CHOOSE i \in unread : \A j \in unread : i <= j>>
Read(r, f) == [r EXCEPT !.seen = Writing(@, f, out[f]), !.against = IF f = Json THEN inputs ELSE @]
ReadBack(p) ==
  /\ At(p, {"verify"})
  /\ LET f == NextFile(work[p])
         read == Read(work[p], f)
     IN  IF f \notin DOMAIN Contents("out") THEN Fails(p)
         ELSE IF f # Csv THEN work' = [work EXCEPT ![p] = read]
         ELSE IF Verifies(tool, read.seen, read.against) THEN Goes(p, read)
         ELSE Fails(p)
  /\ UNCHANGED <<setting, tool, inputs, held, counts>>

\* A killed process leaves the file it had open torn, and a directory it was
\* removing with the files it had not come to.
Kill(p) ==
  /\ p \in setting.processes /\ ~Idle(p) /\ kills < setting.kills
  /\ kills' = kills + 1
  /\ work' = [work EXCEPT ![p].pc = "idle", ![p].end = "killed"]
  /\ Close(p)
  /\ LET place == opened[p].in
     IN  IF At(p, Writes) /\ File(p) \in DOMAIN Contents(place)
         THEN Put(place, Writing(Contents(place), File(p), Torn))
         ELSE UNCHANGED <<out, unpublished>>
  /\ UNCHANGED <<setting, tool, inputs, started, rebuilds>>

\* The runner is built again, or the fixture made again with its manifest and
\* oracle.
Rebuild ==
  /\ rebuilds < setting.rebuilds
  /\ setting.rebuildsDuringRuns \/ \A p \in setting.processes : Idle(p)
  /\ rebuilds' = rebuilds + 1
  /\ \E names \in {{"runner"}, InputNames \ {"runner"}} :
       inputs' = [n \in InputNames |-> IF n \in names THEN inputs[n] + 1 ELSE inputs[n]]
  /\ UNCHANGED <<setting, tool, held, work, started, kills>>

Steps(p) ==
  \/ Identify(p) \/ CheckOracle(p) \/ RefuseExisting(p)
  \/ FindPartial(p) \/ OpenPartial(p) \/ ListPartial(p) \/ RemoveFile(p) \/ RemoveDirectory(p)
  \/ MakePartial(p)
  \/ MakeDirectory(p) \/ Measure(p) \/ CheckParity(p) \/ NameInputs(p)
  \/ Open(p) \/ WriteOut(p) \/ Rename(p) \/ Digest(p) \/ Publish(p) \/ ReadBack(p)
Next == Rebuild \/ \E p \in setting.processes : Start(p) \/ Steps(p) \/ Kill(p)
Spec == Init /\ [][Next]_vars
-----------------------------------------------------------------------------
\* No two processes share the directory.
Alone == \A p, q \in setting.processes : p = q

\* Once started, a process runs; and whoever wants evidence starts it again.
\* This is assumed of one that has the directory to itself.
FairSpec ==
  Spec /\ \A p \in UNION {s.processes : s \in Settings} :
            WF_vars(Alone /\ Steps(p)) /\ WF_vars(Alone /\ Start(p))

\* Types: a run holds the rows its steps have measured, and only an atomic tool
\* has a partial directory, and discovery partial files.
TypeOK ==
  /\ setting \in Settings /\ tool \in setting.tools /\ DOMAIN inputs = InputNames
  /\ unpublished # NoDirectory => tool \in Atomic \cup {"discovery"}
  /\ DOMAIN work = setting.processes /\ DOMAIN opened = setting.processes
  /\ \A p \in setting.processes : work[p].pc \notin {"idle", "clean"} =>
       /\ work[p].row \in 1..Len(Cases(tool))
       /\ Len(work[p].rows) =
            IF work[p].pc \in {"identify", "oracle", "refuse", "clear", "make", "mkdir", "measure"}
            THEN work[p].row - 1 ELSE work[p].row

\* Evidence that verifies, against whatever inputs, is of one run: a rerun into
\* the same directory that was killed or failed, or another process that wrote
\* into it, cannot make up rows, files and table of two.
OneRun ==
  out # NoDirectory =>
    \A v \in 1..inputs["manifest"], w \in 1..inputs["runner"] :
      LET ins == [n \in InputNames |-> IF n = "runner" THEN w ELSE v] IN
      Verifies(tool, out, ins) =>
        \E id \in 1..started :
          /\ \A i \in DOMAIN Rows(out) : Rows(out)[i].id = id
          /\ \A f \in DOMAIN out : f # Json =>
               /\ Holds(out, f)
               /\ IF f = Csv THEN \A i \in DOMAIN out[f].rows : out[f].rows[i].id = id
                  ELSE out[f].id = id

\* Evidence that verifies for a fixture was measured on that fixture, also where
\* the fixture was made again while the run was measuring: the root every row
\* carries, the manifest identified and the files named must be of one another.
RowsAreOfArtifact ==
  (out # NoDirectory /\ tool \notin Unverified) =>
    (Verifies(tool, out, inputs) =>
       \A i \in DOMAIN Rows(out) : Rows(out)[i].with["artifact"] = inputs["artifact"])

\* A directory an atomic tool publishes is whole and verifies, for the inputs
\* it names, from the moment it appears.
PublishedVerifies ==
  tool \in Atomic /\ out # NoDirectory =>
    Holds(out, Json) /\ Verifies(tool, out, Summary(out).named)

\* Evidence that verifies is of one run, over all the files it holds: after
\* kills and reruns into the same directory, and with two processes writing into
\* it; except that of the table of a graph only the digest and the names are
\* read, so that there it takes one process.  Evidence that verifies for a
\* fixture was measured on that fixture, also where the fixture was made again
\* while the run was measuring.  A directory published under its name by a
\* process that is alone, its inputs at rest, verifies for the inputs it names
\* from the moment it appears: no reader, and no kill, meets a half of it.
EvidenceIsOfOneRun ==
  /\ TypeOK
  /\ tool # "graph" \/ Alone => OneRun
  /\ RowsAreOfArtifact
  /\ Alone /\ ~setting.rebuildsDuringRuns => PublishedVerifies

\* A process that is alone over the directory: a run of it that ends well leaves
\* evidence its verifier accepts for the inputs it names, also where the tool does
\* not call the verifier itself; and no later run of it touches a directory that
\* an atomic tool published, however it ends.  Two processes lose both: what one
\* has open, to write it or to remove it, the other's rename takes into the
\* published directory, and the files read back may be written again meanwhile.
EndsWell(p) == ~Idle(p) /\ Idle(p)' /\ work'[p].end = "ok"
SuccessVouches ==
  [][Alone =>
     /\ \A p \in setting.processes : EndsWell(p) => Verifies(tool, out', Summary(out').named)
     /\ tool \in Atomic /\ out # NoDirectory => out' = out]_vars
=============================================================================
