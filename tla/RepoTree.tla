------------------------------ MODULE RepoTree ------------------------------
(* The repository's directories and files, as parentDir walks them.          *)
EXTENDS Naturals, FiniteSets

CONSTANTS
    Dirs, Root,
    Up,         \* directory -> its parent; Root is its own
    Files,
    DirOf,      \* file -> the directory it is in
    None

ASSUME TreeAssumption ==
    /\ Root \in Dirs /\ Up \in [Dirs -> Dirs] /\ Up[Root] = Root
    /\ DirOf \in [Files -> Dirs]
    /\ None \notin Dirs \cup Files

\* d and its ancestors, up to the root.
above[d \in Dirs] == IF d = Root THEN {Root} ELSE {d} \cup above[Up[d]]

\* They are a line: of any of them one is met first, and none is met again.
ASSUME LineAssumption ==
    \A d \in Dirs :
       /\ \A S \in SUBSET above[d] : S # {} => \E e \in S : S \subseteq above[e]
       /\ \A e \in above[d] : d \in above[e] => e = d

\* From a directory above another there is nothing else on the way up.
ASSUME AboveAssumption ==
    \A d \in Dirs : above[d] \subseteq Dirs /\ \A e \in above[d] : above[e] \subseteq above[d]

AtOrAbove(d) == above[d]
Inside(d, e) == e \in above[d]

\* The first of S met on the way up from d.
Nearest(d, S) ==
    LET met == S \cap above[d]
    IN  IF met = {} THEN None
        ELSE CHOOSE e \in met : \A o \in met : Inside(e, o)

\* What edges between elements of U lead to from some of them, in any number of steps.
LedTo(U, starts, edges) ==
    LET step(S) == S \cup {e.to : e \in {d \in edges : d.from \in S}}
        led[n \in Nat] == IF n = 0 THEN starts ELSE step(led[n - 1])
    IN  led[Cardinality(U)]
=============================================================================
