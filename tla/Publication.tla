----------------------------- MODULE Publication -----------------------------
(***************************************************************************)
(* What converter/k3x_converter/writer.py promises about the output name:  *)
(* a reader finds nothing, or the whole conversion of one source; the name *)
(* changes only to the conversion of the source that was asked for, and a  *)
(* power loss can at most bring back what it held shortly before.          *)
(***************************************************************************)
CONSTANTS Sources, None

VARIABLES source,     \* the source directory
          published,  \* the source whose conversion the output name holds
          recent      \* what a power loss may bring back

vars == <<source, published, recent>>

Init == source \in Sources /\ published = None /\ recent = {}

Publish ==
  /\ published' = source
  /\ recent' \subseteq recent \cup {published}
  /\ UNCHANGED source

Settle == recent' \subseteq recent /\ UNCHANGED <<source, published>>

Restore ==
  /\ published' \in recent /\ recent' \subseteq recent
  /\ UNCHANGED source

Edit == source' \in Sources /\ UNCHANGED <<published, recent>>

Next == Publish \/ Settle \/ Restore \/ Edit

Spec == Init /\ [][Next]_vars
===============================================================================
