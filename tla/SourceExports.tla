---------------------------- MODULE SourceExports ----------------------------
(***************************************************************************)
(* gazelle/generate.go and emission.go: a BUILD file that Gazelle adds      *)
(* splits the package above it, whose exports_files then name files that    *)
(* are no longer its own.  The declarations move to the new package, and a  *)
(* package.json that compilers of other packages read is exported.          *)
(*                                                                         *)
(* A run x is                                                               *)
(*   built    directories whose BUILD file was there before                 *)
(*   added    directories Gazelle generated rules for and that had none     *)
(*   holds    those of them that keep a rule besides exports                *)
(*   updated  directories this run writes                                   *)
(*   old      declarations [dir, srcs, vis, keep] of the files in built     *)
(*   default  directory -> its package's default_visibility, or None        *)
(*   reads    [by, scope]: a rule of package "by" reads a package.json      *)
(***************************************************************************)
EXTENDS RepoTree, Sequences

CONSTANTS
    Order,        \* the directories, sorted
    Visibilities,
    Grants,       \* visibility -> the packages it admits
    Subpackages   \* //:__subpackages__

VARIABLE split    \* a run that adds packages, or None

\* What a run starts from: every export is of the package that owns the file,
\* and a new BUILD file is where none was.
Declarations == [dir : Dirs, srcs : SUBSET Files, vis : Visibilities, keep : BOOLEAN]
Splitting(x) ==
    /\ x = [built |-> x.built, added |-> x.added, holds |-> x.holds, updated |-> x.updated,
            old |-> x.old, default |-> x.default, reads |-> x.reads]
    /\ x.built \subseteq Dirs /\ x.holds \subseteq x.added /\ x.added \cap x.built = {}
    /\ x.added \subseteq Dirs /\ Order \in Seq(Dirs) /\ Dirs = {Order[i] : i \in 1..Len(Order)}
    /\ x.old \subseteq Declarations
    /\ \A e \in x.old : /\ e.dir \in x.built
                        /\ \A f \in e.srcs : e.dir = Nearest(DirOf[f], x.built \cup {Root})

BazelPackages(x) == {Root} \cup x.built \cup x.holds

\* sourceExportOwner, and configSrcPackage for a source.
ExportOwner(x, f) == Nearest(DirOf[f], BazelPackages(x))

\* sourceExportAncestor.
Ancestor(x, d) == IF d = Root THEN None ELSE Nearest(Up[d], x.built)

Within(S, d) == {f \in S : Inside(DirOf[f], d)}

\* withSourceExports: a new file repeats what the ancestor exports inside it.
Relocated(x, d) ==
    {[dir |-> d, srcs |-> Within(e.srcs, d), vis |-> e.vis, keep |-> e.keep] :
        e \in {o \in x.old : o.dir = Ancestor(x, d) /\ Within(o.srcs, d) # {}}}

OwnedSrcs(x, e, d) == {f \in e.srcs : ExportOwner(x, f) = d}

\* Variant: whatever lies inside the new package moves to it.
RelocateAll(x, d) ==
    {e \in x.old : e.dir # Ancestor(x, d)}
      \cup {[e EXCEPT !.srcs = e.srcs \ Within(e.srcs, d)] : e \in {o \in x.old : o.dir = Ancestor(x, d)}}
      \cup (IF d \in x.holds THEN Relocated(x, d) ELSE {})

\* relocateSourceExports: the new package keeps what it owns, the ancestor
\* gives it up; nothing moves if the new file will not be a package.
Relocate(x, d) ==
    {e \in x.old : e.dir # Ancestor(x, d)}
      \cup {[e EXCEPT !.srcs = e.srcs \ OwnedSrcs(x, e, d)] : e \in {o \in x.old : o.dir = Ancestor(x, d)}}
      \cup {[e EXCEPT !.srcs = OwnedSrcs(x, e, d)] : e \in IF d \in x.holds THEN Relocated(x, d) ELSE {}}

Moves(x, d) ==
    {e \in x.old : e.dir = Ancestor(x, d) /\ d \in x.holds /\ OwnedSrcs(x, e, d) # {}}

\* What stops the run: a declaration kept by hand, or an ancestor that this
\* run does not write.
MoveFails(x, d) == \E e \in Moves(x, d) : e.keep \/ Ancestor(x, d) \notin x.updated

\* Each new package in turn.
Moved(x) ==
    LET after[i \in 0..Len(Order)] ==
          IF i = 0 THEN [run |-> x, failed |-> FALSE]
          ELSE LET was == after[i - 1]  d == Order[i]
               IN  IF d \notin x.added \/ was.failed THEN was
                   ELSE [run |-> [was.run EXCEPT !.old = Relocate(was.run, d)],
                         failed |-> MoveFails(was.run, d)]
    IN  after[Len(Order)]

\* sourceVisibility: what exports give a file, or else its package, or the
\* ancestor the package was split from.
Policies(x, d, f) == {e.vis : e \in {o \in x.old : o.dir = d /\ f \in o.srcs}}
DefaultOf(x, d) == IF x.default[d] = None THEN Subpackages ELSE x.default[d]
FallbackVisibility(x, d, f) ==
    IF d \in x.added /\ Ancestor(x, d) # None
    THEN LET policies == Policies(x, Ancestor(x, d), f)
         IN  IF policies # {} THEN CHOOSE v \in policies : TRUE ELSE Subpackages
    ELSE DefaultOf(x, d)

ScopeVisibility(x, d, f) ==
    IF Policies(x, d, f) # {} THEN CHOOSE v \in Policies(x, d, f) : TRUE
    ELSE FallbackVisibility(x, d, f)

\* Variant: access is not looked at.
ScopeUnchecked(x, r) == FALSE

\* exportPackageScopes ends the run: two policies, access denied, or a package
\* without an export that this run does not write.
ScopeFails(x, r) ==
    LET d == ExportOwner(x, r.scope)
        policies == Policies(x, d, r.scope)
    IN  d # r.by /\
          \/ Cardinality(policies) > 1
          \/ r.by \notin Grants[ScopeVisibility(x, d, r.scope)]
          \/ policies = {} /\ d \notin x.updated

Scopes(x) ==
    {[dir |-> ExportOwner(x, r.scope), srcs |-> {r.scope}, keep |-> FALSE,
      vis |-> ScopeVisibility(x, ExportOwner(x, r.scope), r.scope)] :
        r \in {q \in x.reads : /\ ExportOwner(x, q.scope) # q.by
                               /\ Policies(x, ExportOwner(x, q.scope), q.scope) = {}}}

\* Whether the run ends, and the declarations it leaves.
Published(x) ==
    LET moved == Moved(x)
    IN  [failed |-> moved.failed \/ \E r \in x.reads : ScopeFails(moved.run, r),
         exports |-> {e \in moved.run.old \cup Scopes(moved.run) : e.srcs # {}}]

-----------------------------------------------------------------------------
\* A run that ends well leaves every export to the package that owns the file,
\* as visible as it was and to nobody else, and every scope read across
\* packages exported to its reader.
StayWithOwner(x) ==
    LET p == Published(x)
        now(f) == {[dir |-> e.dir, vis |-> e.vis] : e \in {o \in p.exports : f \in o.srcs}}
    IN  ~p.failed =>
          /\ \A e \in x.old, f \in Files : f \in e.srcs =>
                [dir |-> ExportOwner(x, f), vis |-> e.vis] \in now(f)
          /\ \A f \in Files : \A v \in now(f) :
                /\ v.dir = ExportOwner(x, f)
                /\ (\E e \in x.old : f \in e.srcs) => \E e \in x.old : f \in e.srcs /\ e.vis = v.vis
          /\ \A r \in x.reads : ExportOwner(x, r.scope) # r.by =>
                \E v \in now(r.scope) : r.by \in Grants[v.vis]

(* relocateSourceExports (generate.go) and exportPackageScopes (emission.go):*)
(* exports go to the package that owns the file and keep their visibility.   *)
ExportsStayWithOwner == split # None => StayWithOwner(split)
=============================================================================
