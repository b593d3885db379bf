---------------------------- MODULE MCLocalRunner ----------------------------
(***************************************************************************)
(* Instances of LocalRunner for TLC: fragments that feed each other in a   *)
(* line, the last one being the cursor's.                                  *)
(***************************************************************************)
EXTENDS LocalRunner

\* A leaf fragment of two tasks and the cursor's.
TwoFragments == <<2, 1>>

\* Two fragments before the cursor's.
ThreeFragments == <<1, 1, 1>>

\* A write the connector carries out by itself.
NoFragments == <<>>
=============================================================================
