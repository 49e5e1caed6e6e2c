----------------------------- MODULE MCLaunchers -----------------------------
(***************************************************************************)
(* What launchers leave behind in the file system, for TLC: the link of a   *)
(* dev server and the signals that end its life, or a runtime view.         *)
(***************************************************************************)
EXTENDS MCDevServerLink, MCRuntimeView

VARIABLE part    \* what the behaviour is about

\* The signals of which any launcher may be sent one, in the part "link".
LinkSignals == {"INT", "TERM", "KILL"}

\* Launchers hear nothing of each other's signals: in the part "signals" there
\* is one of them and every signal.
Within ==
    CASE part = "link"    -> \A l \in Launchers :
                                received[l] \cup ({code[l]} \cap Signals) \subseteq LinkSignals
      [] part = "signals" -> \A l \in Launchers \ {l1} : pc[l] = "off"
      [] OTHER            -> TRUE

NoView ==
    /\ view = none /\ phase = "" /\ left = <<>> /\ parent = none /\ tree = <<>>
    /\ overwritten = {} /\ declared = NoOutputs

LaunchersInit ==
    \/ part = "link" /\ Init /\ NoView
    \/ part = "signals" /\ Init /\ link = Absent /\ NoView
    \/ part = "view" /\ Init /\ link = Absent /\ ViewInit

\* A view that is made, or could not be, stays.
ViewStays == phase \in {"done", "failed"} /\ UNCHANGED viewVars

LaunchersNext ==
    \/ part \in {"link", "signals"} /\ Next /\ UNCHANGED <<part, viewVars>> /\ Within'
    \/ part = "view" /\ (ViewNext \/ ViewStays) /\ UNCHANGED <<part, vars>>

LaunchersSpec == LaunchersInit /\ [][LaunchersNext]_<<part, vars, viewVars>> /\ Fairness
=============================================================================
