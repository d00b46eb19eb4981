----------------------------- MODULE MCBugGauge -----------------------------
(***************************************************************************)
(* Three bugs, as one can be open before and after a pass, one only        *)
(* before and one only after it.  A change of the team label and one of    *)
(* the other labels are the same to the gauge: two teams, one detail.      *)
(***************************************************************************)
EXTENDS BugGauge, TLC

Symmetry == Permutations(ID) \cup Permutations(Names)
=============================================================================
