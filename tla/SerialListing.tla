--------------------------- MODULE SerialListing ---------------------------
(***************************************************************************)
(* What compilerListing promises its caller, the Gazelle walk: ask for the *)
(* compiler listing of one tsconfig.json at a time, get a complete listing *)
(* of it.  Nothing here says whether a background worker ran the listing.  *)
(***************************************************************************)
CONSTANTS Cfgs,   \* the tsconfig.json files of the repository
          None    \* no configuration

VARIABLES asking, \* the configuration the walk waits for, or None
          answer  \* per configuration, the last answer the walk received

vars == <<asking, answer>>

Init ==
    /\ asking = None
    /\ answer = [c \in Cfgs |-> "none"]

Ask(c) ==
    /\ asking = None
    /\ asking' = c
    /\ UNCHANGED answer

Answer ==
    /\ asking # None
    /\ answer' = [answer EXCEPT ![asking] = "listed"]
    /\ asking' = None

Next == (\E c \in Cfgs : Ask(c)) \/ Answer

\* The walk is single-threaded and a listing terminates, so it is answered.
Spec == Init /\ [][Next]_vars /\ WF_vars(Answer)
=============================================================================
