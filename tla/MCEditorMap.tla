----------------------------- MODULE MCEditorMap -----------------------------
(***************************************************************************)
(* EditorMap for TLC: two packages, one with a checked-in index file.      *)
(***************************************************************************)
EXTENDS EditorMap

CONSTANTS p1, p2

TwoPackages == {p1, p2}
\* p1's target depends on p2's, so that its fragment names both.
ChainClosure == [p \in TwoPackages |-> IF p = p1 THEN {p1, p2} ELSE {p2}]
=============================================================================
