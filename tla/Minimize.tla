------------------------------- MODULE Minimize -------------------------------
(***************************************************************************)
(* How minimizeDependencies computes it (gazelle/resolve.go): the supply is *)
(* counted once (newFixedSupply), when the owners left can say nothing new, *)
(* and each candidate is taken out of the counts.  Only dropped             *)
(* dependencies that read what the candidate alone supplied are looked at   *)
(* again (drop), and no owner is asked any more.                            *)
(***************************************************************************)
EXTENDS Supply

VARIABLES
    supply,        \* the fixed supply, if there is one
    walkComplete   \* walkSettled was once true

minimizeVars == <<input, retained, todo, called, supply, walkComplete>>

NoSupply == [on |-> FALSE, blocked |-> FALSE, indexed |-> {}]

MinimizeInit ==
    /\ input \in Inputs
    /\ MinimizeStart /\ supply = NoSupply /\ walkComplete = FALSE

\* No edge reads a scope that a dependency could claim.
ClaimsFree ==
    \A d \in input.deps : \A e \in input.edges[d] :
        {e[1], e[2]} \cap Wanted \subseteq input.roots

AllAskedAlways == TRUE
AllAsked == ProgramsOf(retained) \subseteq called

\* The counts are those of the dependencies still retained.
Counted(D) == FilesOf(D) \ input.roots

BlockedByAny ==
    \E d \in input.deps :
        Unsupplied(d, TargetsOf(retained), Counted(retained))
Blocked ==
    \E d \in input.deps \ retained :
        Unsupplied(d, TargetsOf(retained), Counted(retained))

NewSupply ==
    [on |-> TRUE, blocked |-> Blocked, indexed |-> input.deps \ retained]

\* The supply this round works with.
Current ==
    IF ClaimsFree /\ ~supply.on /\ AllAsked THEN NewSupply ELSE supply

\* walks: without c, the exact round would walk for some scope.
WalksWithout(c) == Unclaimed(retained \ {c}) # {}

WalkSettledDirect == walkComplete \/ ProgramsOf(retained) \subseteq called
WalkSettled == walkComplete \/ Reach(retained, {}) \subseteq called

\* Files of which the index knows the readers.
Read(d) ==
    {e[1] : e \in input.edges[d]}
      \cup {e[2] : e \in {x \in input.edges[d] :
              /\ d \notin input.static /\ x[2] \notin input.npm
              /\ x[2] \notin input.declaration \cup input.json}}

AffectedAlone(c, indexed) == {c}
Affected(c, indexed) ==
    LET rest == retained \ {c} IN
    {c} \cup {d \in indexed :
                 \/ Read(d) \cap (FilesOf(retained) \ FilesOf(rest)) # {}
                 \/ input.key[d] \in TargetsOf(retained) \ TargetsOf(rest)}

\* drop: take c out of the counts, and put it back if something misses it.
Drops(c, s) ==
    /\ ~s.blocked
    /\ LET rest == retained \ {c} IN
       \A d \in Affected(c, s.indexed) :
          ~Unsupplied(d, TargetsOf(rest), Counted(rest))

TryFixed(c) ==
    /\ Candidate(c)
    /\ Current.on
    /\ ~WalksWithout(c) \/ WalkSettled
    /\ walkComplete' = (walkComplete \/ WalksWithout(c))
    /\ IF Drops(c, Current)
       THEN /\ retained' = retained \ {c}
            /\ supply' = [Current EXCEPT !.indexed = @ \cup {c}]
       ELSE UNCHANGED retained /\ supply' = Current
    /\ todo' = todo \ {c}
    /\ UNCHANGED <<input, called>>

TryAgain(c) ==
    /\ Candidate(c)
    /\ ~Current.on \/ (WalksWithout(c) /\ ~WalkSettled)
    /\ supply' = NoSupply
    /\ TryExact(c)
    /\ UNCHANGED walkComplete

MinimizeNext ==
    \/ \E c \in Labels : TryFixed(c) \/ TryAgain(c)
    \/ Tried /\ UNCHANGED minimizeVars
MinimizeSpec == MinimizeInit /\ [][MinimizeNext]_minimizeVars

------------------------------------------------------------------------------

(* The index of a fixed supply holds the dropped dependencies and no other:  *)
(* an unindexed one would be dropped without being looked at again.          *)
MinimizeTypeOK ==
    /\ todo \subseteq input.deps /\ retained \subseteq input.deps
    /\ todo \subseteq retained
    /\ called \subseteq Programs
    /\ walkComplete \in BOOLEAN
    /\ supply \in [on : BOOLEAN, blocked : BOOLEAN, indexed : SUBSET Labels]
    /\ supply.on => supply.indexed = input.deps \ retained

(* resolve_test.go:3073: the fast minimization is correct only while its     *)
(* supply is the exact one.  Each round drops or keeps what the exact round  *)
(* would, and leaves no owner unasked that it would ask.                     *)
Exact == INSTANCE ExactMinimize
ImplementsExact == Exact!Spec

(* A dropped dependency is supplied by those that stay, however many were    *)
(* dropped after it.                                                         *)
DroppedAreSupplied ==
    ClaimsFree =>
        \A d \in input.deps \ retained :
            ~Unsupplied(d, TargetsOf(retained), Counted(retained))

(* No single dependency that stays could still be dropped in the end.        *)
Irredundant ==
    ClaimsFree /\ Tried =>
        \A c \in retained : \E d \in (input.deps \ retained) \cup {c} :
            Unsupplied(d, TargetsOf(retained \ {c}), Counted(retained \ {c}))

=============================================================================
