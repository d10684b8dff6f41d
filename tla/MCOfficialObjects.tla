-------------------------- MODULE MCOfficialObjects --------------------------
(***************************************************************************)
(* Fetching from a published checkpoint, for TLC.  The first state picks   *)
(* the part that runs: ranges with equal bytes ("twins") or different ones *)
(* ("apart") in the object store, two experts that compete for a directory *)
(* ("slices") or one that is asked for until it is there ("alone"), or the *)
(* transport below them.  The parts that do not run stay as they began.    *)
(***************************************************************************)
EXTENDS RangeObject, ExpertSlice, TLC

VARIABLE part

objectsVars == <<part, vars, sliceVars, transportVars>>

(* Two ranges of two chunks with the same bytes, and ranges of three chunks*)
(* and of two, which share their first.                                    *)
TwinRanges == {"r1", "r2"}
ApartRanges == {"r3", "r4"}
MCRanges == TwinRanges \cup ApartRanges
MCData ==
  ("r1" :> <<"a", "b">>) @@ ("r2" :> <<"a", "b">>) @@
  ("r3" :> <<"a", "b", "c">>) @@ ("r4" :> <<"a", "d">>)

------------------------------------------------------------------------------
ObjectsInit ==
  /\ part \in {"twins", "apart", "slices", "alone", "transport"}
  /\ Init /\ SliceInit /\ TransportInit

(* Twins see two kills, ranges apart from each other one.  Two experts are *)
(* asked for four times; one alone meets no damage and is asked for until  *)
(* kills and failures are used up.                                         *)
InTwins ==
  /\ part = "twins" /\ run'.range \in TwinRanges \cup {None}
  /\ UNCHANGED <<part, sliceVars, transportVars>>
InApart ==
  /\ part = "apart" /\ run'.range \in ApartRanges \cup {None} /\ kills' <= 1
  /\ UNCHANGED <<part, sliceVars, transportVars>>
InSlices == part = "slices" /\ calls' <= 4 /\ UNCHANGED <<part, vars, transportVars>>
InAlone ==
  /\ part = "alone" /\ slice'.expert \in {"e1", Nobody} /\ sliceDamage' = 0
  /\ UNCHANGED <<part, vars, transportVars>>
InTransport == part = "transport" /\ UNCHANGED <<part, vars, sliceVars>>

ObjectsNext ==
  \/ Next /\ (InTwins \/ InApart)
  \/ SliceNext /\ (InSlices \/ InAlone)
  \/ TransportNext /\ InTransport

(* A call that began goes on, and who has no answer calls again.           *)
ObjectsSpec ==
  /\ ObjectsInit /\ [][ObjectsNext]_objectsVars
  /\ WF_objectsVars(Step /\ InApart)
  /\ \A x \in ApartRanges : SF_objectsVars(answer[x] # "object" /\ Call(x) /\ InApart)
  /\ WF_objectsVars(SliceStep /\ InAlone)
  /\ WF_objectsVars(outcome["e1"] # "returned" /\ AskFor("e1") /\ InAlone)

------------------------------------------------------------------------------
(* Properties; the others are those of the modules.                        *)

(* Once kills, failures and damage stop, every range is materialized, and  *)
(* so is an expert that has its directory to itself.                       *)
ObjectsArrive ==
  /\ \A x \in ApartRanges : []<>(part = "apart" => answer[x] = "object")
  /\ <>(part = "alone" => outcome["e1"] = "returned")
==============================================================================
