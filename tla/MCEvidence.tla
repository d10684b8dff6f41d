----------------------------- MODULE MCEvidence -----------------------------
(***************************************************************************)
(* The evidence tools for TLC, in four settings:                           *)
(*   killed    one process of any tool, which is killed, started again and *)
(*             whose rows may be refused or disagree;                      *)
(*   shared    two processes of one tool over one directory;               *)
(*   rebuilt   inputs are made again while a run measures;                 *)
(*   certain   a run that is killed is started again, under fairness.      *)
(* Rows are cut to two, so that a table has a row before and a row after;   *)
(* to one where two processes write in place, for the sake of the bound.   *)
(***************************************************************************)
EXTENDS Evidence

Setting(processes, tools, runs, killed, rebuilt, soundness, results, during) ==
  [processes |-> processes, tools |-> tools, runs |-> runs, kills |-> killed,
   rebuilds |-> rebuilt, soundness |-> soundness, results |-> results,
   rebuildsDuringRuns |-> during]
Killed == Setting({"a"}, AllTools, 3, 1, 1, BOOLEAN, {1, 2}, FALSE)
Shared == Setting({"a", "b"}, {"layer", "moe", "audit", "discovery"}, 2, 0, 0, {TRUE}, {1}, FALSE)
Rebuilt == Setting({"a"}, AllTools, 2, 0, 2, {TRUE}, {1}, TRUE)
Certain == Setting({"a"}, Atomic, 3, 2, 1, {TRUE}, {1}, FALSE)
MCRows == [t \in AllTools |-> IF t = "moe" THEN 1 ELSE 2]
MCSettings == {Killed, Shared, Rebuilt, Certain}

\* However often a run of an atomic tool was killed, the next one that is left
\* to itself has its evidence published, where no row is refused.
EvidenceArrives == <>(setting = Certain => out # NoDirectory)
=============================================================================
