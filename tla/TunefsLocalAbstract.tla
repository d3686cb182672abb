------------------------- MODULE TunefsLocalAbstract -------------------------
(***************************************************************************)
(* What the local-mount feature of tunefs.ocfs2 promises about a volume:  *)
(* it is either single-node ("local") or cluster-aware on one stack, and  *)
(* a conversion flips it from one kind to the other in one step.  Turning *)
(* a cluster-aware volume into one on another stack is not a conversion   *)
(* this feature makes.                                                    *)
(***************************************************************************)
CONSTANTS Stacks

VARIABLES mode   \* "local", or the stack the volume is cluster-aware on

\* The single-node volume becomes cluster-aware on some stack.
MakeClustered == mode = "local" /\ mode' \in Stacks

\* A cluster-aware volume becomes single-node.
MakeLocal == mode \in Stacks /\ mode' = "local"

Init == mode \in {"local"} \cup Stacks

Spec == Init /\ [][MakeClustered \/ MakeLocal]_mode
=============================================================================
