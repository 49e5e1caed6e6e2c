----------------------------- MODULE RuntimeTree -----------------------------
(***************************************************************************)
(* A directory tree with links, as the stager of runtime views              *)
(* (ts/tools/runtimeview) and Node see it.  Outside of it are the artifacts *)
(* it is made of: files, and directories of files.  A path is a sequence of *)
(* names below the root; the names are numbers, in the order they sort when *)
(* a slash follows.                                                         *)
(***************************************************************************)
EXTENDS Naturals, FiniteSets, Sequences, SequencesExt

CONSTANTS
    Paths,          \* closed under prefixes
    NodeModules,    \* the name node_modules
    Names,          \* npm packages
    Files,          \* artifacts
    TreeArtifacts,  \* those that are directories
    Inside,         \* what a directory artifact holds: tree -> name -> file
    None

Nothing == [kind |-> "absent", to |-> None]
Directory == [kind |-> "directory", to |-> None]
Regular(f) == [kind |-> "regular", to |-> f]
LinkTo(x) == [kind |-> "link", to |-> x]   \* a file, a directory, a path

Hops == 12   \* bound: names and links a path leads through
In(d, n) == IF n \in DOMAIN Inside[d] THEN Inside[d][n] ELSE None

\* Where p leads: a path of t that is no link, an artifact, or None.
Real(t, p) ==
    LET real[k \in 0..Hops, q \in Paths] ==
          IF q = <<>> THEN q
          ELSE IF k = 0 THEN None
          ELSE LET d == real[k - 1, Front(q)]
                   at == Append(d, Last(q))
               IN  IF d \in TreeArtifacts THEN In(d, Last(q))
                   ELSE IF d \notin Paths \/ at \notin Paths THEN None
                   ELSE CASE t[at].kind = "absent" -> None
                          [] t[at].kind = "link"   ->
                               IF t[at].to \in Paths THEN real[k - 1, t[at].to]
                               ELSE t[at].to
                          [] OTHER                 -> at
    IN  IF p \in Paths THEN real[Hops, p] ELSE None

Exists(t, p) == Real(t, p) # None
IsDir(t, p) ==
    LET r == Real(t, p)
    IN  r \in TreeArtifacts \/ (r \in Paths /\ t[r].kind = "directory")

\* The artifact whose bytes a reader finds at p.
Content(t, p) ==
    LET r == Real(t, p) IN
    IF r \in Files THEN r
    ELSE IF r \in Paths /\ t[r].kind = "regular" THEN t[r].to ELSE None

\* What stands at p itself, a link not followed.
StandsAt(t, p) ==
    LET d == Real(t, Front(p))
        at == Append(d, Last(p))
    IN  IF d \in TreeArtifacts
        THEN IF In(d, Last(p)) = None THEN Nothing ELSE Regular(In(d, Last(p)))
        ELSE IF d \in Paths /\ at \in Paths THEN t[at] ELSE Nothing

\* The last directory above p that is there.
Parent(t, p) ==
    LET above == {i \in 0..(Len(p) - 1) : Exists(t, SubSeq(p, 1, i))}
    IN  SubSeq(p, 1, CHOOSE i \in above : \A j \in above : j <= i)
Outside(t, p) == Real(t, Parent(t, p)) \in TreeArtifacts

\* Creating p makes the directories above it, through whatever is there.
Put(t, p, node) ==
    LET above == Parent(t, p)
        at == Real(t, above) \o SubSeq(p, Len(above) + 1, Len(p))
    IN  IF Outside(t, p) THEN t
        ELSE [q \in Paths |-> IF q = at THEN node
                              ELSE IF IsStrictPrefix(q, at) /\ t[q] = Nothing
                              THEN Directory ELSE t[q]]

\* Node's lookup of a package from a directory (external).
Lookup(t, d, n) ==
    LET at(i) == SubSeq(d, 1, i) \o <<NodeModules, n>>
        found == {i \in 0..Len(d) : /\ i = 0 \/ d[i] # NodeModules
                                    /\ Exists(t, at(i))}
    IN  IF found = {} THEN None
        ELSE Real(t, at(CHOOSE i \in found : \A j \in found : j <= i))

\* The order entries are staged in.
Before(p, q) ==
    \/ IsStrictPrefix(p, q)
    \/ \E i \in DOMAIN p \cap DOMAIN q :
          p[i] < q[i] /\ \A j \in 1..(i - 1) : p[j] = q[j]
Rank == [p \in Paths |-> Cardinality({q \in Paths : Before(q, p)})]
InOrder(S, sooner(_, _)) ==
    [i \in 1..Cardinality(S) |->
       CHOOSE p \in S : Cardinality({q \in S : sooner(q, p)}) = i - 1]
Sorted(S) == InOrder(S, LAMBDA p, q : Rank[p] < Rank[q])

Above == [p \in Paths |-> {q \in Paths : IsStrictPrefix(q, p)}]
Visible(S) == {p \in S : Above[p] \cap S = {}}

=============================================================================
