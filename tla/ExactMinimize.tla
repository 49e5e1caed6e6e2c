---------------------------- MODULE ExactMinimize -----------------------------
(***************************************************************************)
(* What minimizeDependencies promises: the dependencies are tried in their  *)
(* order, and each is judged by the supply of the others, computed anew.    *)
(* The consumer is any.                                                     *)
(***************************************************************************)
EXTENDS Supply

vars == <<input, retained, todo, called>>

Init == MinimizeStart
Try(c) == Candidate(c) /\ TryExact(c)
Next == (\E c \in Labels : Try(c)) \/ (Tried /\ UNCHANGED vars)
Spec == Init /\ [][Next]_vars

=============================================================================
