----------------------------- MODULE ObjectStore -----------------------------
(***************************************************************************)
(* What materialize_official_range_object (converter/k3x_converter/        *)
(* official_moe.py) promises its callers: ranges become available one by   *)
(* one, with the published bytes, and stay so unless stored bytes go bad.  *)
(* Ranges with equal bytes share one object and are lost together.         *)
(***************************************************************************)
EXTENDS Naturals

CONSTANTS Ranges, Data

VARIABLES available, bytes, losses

vars == <<available, bytes, losses>>

Init == available = {} /\ bytes = <<>> /\ losses = 0

Holds(xs) == available' = xs /\ bytes' = [x \in xs |-> Data[x]]

(* A download completes; the other recorded ranges with the same bytes get *)
(* their object back with it.                                              *)
Materialize(x) ==
  /\ x \notin available
  /\ \E twins \in SUBSET {y \in Ranges : Data[y] = Data[x]} :
        Holds(available \cup twins) /\ twins # {}
  /\ UNCHANGED losses

Lose ==
  /\ losses' = losses + 1
  /\ \E lost \in SUBSET available :
        /\ \A x, y \in lost : Data[x] = Data[y]
        /\ Holds(available \ lost)

Next == (\E x \in Ranges : Materialize(x)) \/ Lose

Spec == Init /\ [][Next]_vars
===============================================================================
