----------------------------- MODULE RuntimeView -----------------------------
(***************************************************************************)
(* How a runtime view is made.  A native view is declared by a rule         *)
(* (tools/launcher/launcher.bzl, _declare_native_view) and built by an      *)
(* action (ts/tools/runtimeview, Build); the view of a test is staged by    *)
(* its launcher (Resolver.Stage and what follows it in vitest.go).  Both    *)
(* place the entries, then the npm packages each module has to find.        *)
(***************************************************************************)
EXTENDS RuntimeTree

CONSTANTS
    Workspace,   \* the first name of every path of the main repository
    Blank,       \* the target of an empty file
    Views        \* what may be asked for

(* A view is a record:                                                       *)
(*   native       built by an action, or staged by a launcher                *)
(*   entries      path -> file, directory, Blank, or the path it links to    *)
(*   modules      paths, each of an entry                                    *)
(*   alias        the file that each file stands for, itself for most        *)
(*   nodeModules  the node_modules of the importer chain's root, or None     *)
(*   contexts     a sequence: a module, the store path it was compiled       *)
(*                against for each name or None, the manifest of its package *)
(*                scope or None, and the scope's store paths                 *)

VARIABLES
    view,
    phase, left,     \* the loop that runs, and what is left of it
    parent,          \* the entry last placed
    tree,
    overwritten,     \* directory artifacts written to
    declared         \* the outputs of a native view

viewVars == <<view, phase, left, parent, tree, overwritten, declared>>

Entries == DOMAIN view.entries
NoOutputs == [links |-> {}, regular |-> {}, directories |-> {}]

------------------------------------------------------------------------------
(* What the rule makes of the entries of a native view.                      *)

\* The module paths that a file, or what it stands for, is selected at.
Selected(x) == {m \in view.modules : /\ view.entries[m] \in Files
                                      /\ view.alias[view.entries[m]] = view.alias[x]}
IsAlias(x) == x \in Files /\ (view.alias[x] # x \/ Selected(x) # {})
Refs(x) == Cardinality({p \in Entries : view.entries[p] = x})
Aliased == {view.alias[x] : x \in {y \in Files : view.alias[y] # y /\ Refs(y) > 0}}

\* An artifact of one visible path is made there, with no copy elsewhere.
Placed(p) ==
    LET x == view.entries[p] IN
    /\ view.native /\ p \in Visible(Entries)
    /\ x \in Paths \/ (x # Blank /\ Refs(x) = 1 /\ ~IsAlias(x) /\ x \notin Aliased)

\* The entries Stage is given, and their targets.
Staged == {p \in IF view.native THEN Visible(Entries) ELSE Entries : ~Placed(p)}
Target(p) ==
    LET x == view.entries[p] IN
    IF ~view.native \/ p \in view.modules \/ ~(x \in Files /\ IsAlias(x)) THEN x
    ELSE IF Selected(x) = {} THEN view.alias[x]
    ELSE CHOOSE m \in Selected(x) : TRUE

\* The lookups of the contexts: what is to be found from where.
Lookups ==
    UNION {{[from |-> Front(c.module), name |-> n, store |-> c.bindings[n]] :
               n \in {m \in Names : c.bindings[m] # None}}
             \cup {[from |-> Front(c.scope), name |-> n, store |-> c.scoped[n]] :
               n \in {m \in Names : c.scope # None /\ c.scoped[m] # None}} :
           c \in {view.contexts[i] : i \in DOMAIN view.contexts}}
Destination(l) == l.from \o <<NodeModules, l.name>>

\* _available_destination.
AvailableHere(occupied, p) == p \notin occupied
Available(occupied, p) ==
    \A q \in occupied : ~IsPrefix(q, p) /\ ~IsPrefix(p, q)
Occupy(occupied, p) ==
    IF Available(occupied, p) THEN occupied \cup {p} ELSE occupied

WorkspaceModules == <<Workspace, NodeModules>>
Chain ==
    IF view.nodeModules # None /\ Available(Entries, WorkspaceModules)
    THEN {WorkspaceModules} ELSE {}

RegularEntries ==
    {p \in Visible(Entries) : \/ p \in view.modules \/ view.entries[p] = Blank
                              \/ Placed(p) /\ view.entries[p] \notin Paths}
DeclaredLinks ==
    LET occupied == FoldLeft(Occupy, Entries \cup Chain,
                             SetToSeq({Destination(l) : l \in Lookups}))
    IN  (Visible(Entries) \ RegularEntries) \cup (occupied \ Entries)

\* _view_outputs: the widest directories with no link beneath become one.
OutputOf(links, p) ==
    LET whole == {i \in 1..(Len(p) - 1) :
                    \A q \in links : ~IsStrictPrefix(SubSeq(p, 1, i), q)}
    IN  IF whole = {} THEN p
        ELSE SubSeq(p, 1, CHOOSE i \in whole : \A j \in whole : i <= j)
ViewOutputs ==
    LET at == {OutputOf(DeclaredLinks, p) : p \in RegularEntries}
        isDirectory(p) == p \notin Entries \/ view.entries[p] \in TreeArtifacts
    IN  [links       |-> DeclaredLinks,
         regular     |-> {p \in at : ~isDirectory(p)},
         directories |-> {p \in at : isDirectory(p)}]

------------------------------------------------------------------------------

ViewInit ==
    /\ view \in Views
    /\ phase = "declare" /\ left = <<>> /\ parent = None
    /\ tree = [p \in Paths |-> IF p = <<>> THEN Directory ELSE Nothing]
    /\ overwritten = {} /\ declared = NoOutputs

GoOn(next, rest) == phase' = next /\ left' = rest
Fail == GoOn("failed", <<>>) /\ UNCHANGED <<view, parent, tree, declared>>

\* Creates what is not there; a regular file above or anything at p refuses.
WriteAbove(p) ==
    overwritten' = IF Outside(tree, p)
                   THEN overwritten \cup {Real(tree, Parent(tree, p))}
                   ELSE overwritten
Create(p, node) == tree' = Put(tree, p, node) /\ WriteAbove(p)
CanCreate(p) == IsDir(tree, Parent(tree, p)) /\ StandsAt(tree, p) = Nothing

Declare ==
    /\ phase = "declare"
    /\ IF /\ view.native
          /\ \/ \E m \in view.modules : view.entries[m] \notin Files
             \/ \E p \in Entries : /\ view.entries[p] \in Files
                                   /\ Cardinality(Selected(view.entries[p])) > 1
       THEN Fail
       ELSE /\ GoOn(IF view.native THEN "validate" ELSE "stage",
                    IF view.native THEN <<>> ELSE Sorted(Staged))
            /\ declared' = IF view.native THEN ViewOutputs ELSE NoOutputs
            /\ UNCHANGED <<view, parent, tree>>
    /\ UNCHANGED overwritten

\* What an entry's target leads to: in the execroot for Build, in the tree
\* for a launcher.
Leads(x) ==
    IF x \notin Paths THEN x
    ELSE IF ~view.native THEN Real(tree, x)
    ELSE IF x \in Entries THEN view.entries[x] ELSE None
LeadsBelow(x, rest) ==
    IF x \in Paths /\ ~view.native THEN Real(tree, x \o rest)
    ELSE IF Leads(x) \in TreeArtifacts /\ Len(rest) = 1 THEN In(Leads(x), rest[1])
    ELSE None

\* validateEntries: a path beneath a directory entry is in that directory.
Agrees(p, q) ==
    LET x == LeadsBelow(view.entries[p], SubSeq(q, Len(p) + 1, Len(q)))
    IN  /\ view.entries[p] # Blank /\ view.entries[q] # Blank
        /\ x # None /\ x = Leads(view.entries[q])
        /\ q \notin view.modules
Valid ==
    /\ \A m, o \in view.modules :
          m # o /\ view.entries[m] # Blank => view.entries[m] # view.entries[o]
    /\ \A p \in Visible(Entries), q \in Entries :
          IsStrictPrefix(p, q) => Agrees(p, q)

Validate ==
    /\ phase = "validate"
    /\ IF ~Valid THEN Fail
       ELSE /\ IF view.native THEN GoOn("stage", Sorted(Staged))
               ELSE GoOn("canonical", Sorted(Visible(Staged)))
            /\ UNCHANGED <<view, parent, tree, declared>>
    /\ UNCHANGED overwritten

BelowNone(p) == FALSE
BelowLast(p) == parent # None /\ IsStrictPrefix(parent, p)

\* Stage: never an exact child entry through a directory alias.
Stage ==
    /\ phase = "stage" /\ left # <<>>
    /\ LET p == Head(left) IN
       IF BelowLast(p)
       THEN GoOn("stage", Tail(left)) /\ UNCHANGED <<view, parent, tree, declared, overwritten>>
       ELSE IF ~IsDir(tree, Parent(tree, p))
       THEN Fail /\ UNCHANGED overwritten
       ELSE /\ Create(p, IF Target(p) = Blank THEN Regular(Blank)
                         ELSE LinkTo(Target(p)))
            /\ parent' = p
            /\ GoOn("stage", Tail(left))
            /\ UNCHANGED <<view, declared>>

\* linkCanonicalModules: an alias of a module's artifact leads to the module.
LinkCanonical ==
    /\ phase = "canonical" /\ left # <<>>
    /\ LET p == Head(left)
           candidates == {m \in view.modules :
                            Target(p) # Blank /\ Target(p) \in {Target(m), m}}
       IN  IF p \in view.modules \/ candidates = {}
           THEN /\ GoOn("canonical", Tail(left))
                /\ UNCHANGED <<view, parent, tree, declared>>
           ELSE IF Cardinality(candidates) > 1 THEN Fail
           ELSE /\ tree' = [tree EXCEPT
                              ![p] = LinkTo(CHOOSE m \in candidates : TRUE)]
                /\ GoOn("canonical", Tail(left))
                /\ UNCHANGED <<view, parent, declared>>
    /\ UNCHANGED overwritten

\* materializeModule: a copy takes the place of the link.
Materialize ==
    /\ phase = "materialize" /\ left # <<>>
    /\ LET m == Head(left) IN
       IF Content(tree, m) = None THEN Fail
       ELSE /\ tree' = [tree EXCEPT ![m] = Regular(Content(tree, m))]
            /\ GoOn("materialize", Tail(left))
            /\ UNCHANGED <<view, parent, declared>>
    /\ UNCHANGED overwritten

\* copyRegular, and copyDirectory: the directory and each file in it.
Copied(p, x) ==
    IF x \notin TreeArtifacts THEN Put(tree, p, Regular(x))
    ELSE [q \in Paths |-> IF \E n \in DOMAIN Inside[x] : q = Append(p, n)
                          THEN Regular(Inside[x][Last(q)])
                          ELSE Put(tree, p, Directory)[q]]

\* place: a copy of a file or directory, or the text of a link.
PlaceInput ==
    /\ phase = "place" /\ left # <<>>
    /\ LET p == Head(left)
           x == view.entries[p]
       IN  IF ~CanCreate(p) THEN Fail /\ UNCHANGED overwritten
           ELSE /\ tree' = IF x \in Paths THEN Put(tree, p, LinkTo(x)) ELSE Copied(p, x)
                /\ WriteAbove(p)
                /\ GoOn("place", Tail(left))
                /\ UNCHANGED <<view, parent, declared>>

\* The root of the importer chain at the workspace: Build's links, or
\* installNodeModules.
LinkChain ==
    /\ phase = "chain"
    /\ LET linked == IF view.native THEN Chain # {}
                     ELSE view.nodeModules # None /\ IsDir(tree, view.nodeModules)
           workspace == StandsAt(tree, <<Workspace>>).kind
           free == StandsAt(tree, WorkspaceModules) = Nothing
       IN  IF linked /\ (IF view.native THEN ~CanCreate(WorkspaceModules)
                         ELSE free /\ workspace = "link")
           THEN Fail /\ UNCHANGED overwritten
           ELSE /\ IF linked /\ free /\ (view.native \/ workspace = "directory")
                   THEN Create(WorkspaceModules, LinkTo(view.nodeModules))
                   ELSE UNCHANGED <<tree, overwritten>>
                /\ GoOn("collect", <<>>)
                /\ UNCHANGED <<view, parent, declared>>

\* PlaceNpmContexts: every store is a directory, and a directory is asked for
\* one store of a name.
Collectable ==
    /\ \A l \in Lookups : IsDir(tree, l.store)
    /\ \A l, k \in Lookups :
          l.from = k.from /\ l.name = k.name =>
             Real(tree, l.store) = Real(tree, k.store)
Demands ==
    {[from |-> l.from, name |-> l.name, store |-> Real(tree, l.store)] : l \in Lookups}

\* Directories in their order, so that one above comes before one below.
ByDestination(d, e) == Before(Destination(d), Destination(e))
Sooner(d, e) ==
    IF d.from = e.from THEN d.name < e.name ELSE Before(d.from, e.from)

Collect ==
    /\ phase = "collect"
    /\ IF ~Collectable THEN Fail
       ELSE /\ GoOn("contexts", InOrder(Demands, Sooner))
            /\ UNCHANGED <<view, parent, tree, declared>>
    /\ UNCHANGED overwritten

\* Something that is no directory is on the way to p, or anything at p.
Occupied(p) ==
    \/ StandsAt(tree, p) # Nothing
    \/ \E i \in 1..(Len(p) - 1) :
          StandsAt(tree, SubSeq(p, 1, i)).kind \in {"regular", "link"}

\* The entry a lookup from the directory meets is the store.
Met(p) ==
    LET d == SubSeq(p, 1, Len(p) - 2)
        at(i) == SubSeq(d, 1, i) \o <<NodeModules, Last(p)>>
        found == {i \in 1..Len(d) :
                    /\ d[i] # NodeModules
                    /\ \/ StandsAt(tree, at(i)) # Nothing
                       \/ Content(tree, Front(at(i))) # None}
    IN  IF found = {} THEN None
        ELSE Real(tree, at(CHOOSE i \in found : \A j \in found : j <= i))

PlaceDemand ==
    /\ phase = "contexts" /\ left # <<>>
    /\ LET d == Head(left)
           at == Destination(d)
       IN
       IF Occupied(at) /\ Met(at) # d.store
       THEN Fail /\ UNCHANGED overwritten
       ELSE /\ IF Occupied(at) THEN UNCHANGED <<tree, overwritten>>
               ELSE Create(at, LinkTo(d.store))
            /\ GoOn("contexts", Tail(left))
            /\ UNCHANGED <<view, parent, declared>>

\* A loop that is done gives way to the next.
NextPhase ==
    /\ left = <<>>
    /\ CASE phase = "stage" ->
              IF view.native THEN GoOn("canonical", Sorted(Staged))
              ELSE GoOn("validate", <<>>)
         [] phase = "canonical" -> GoOn("materialize", Sorted(view.modules))
         [] phase = "materialize" ->
              GoOn("place", Sorted({p \in Entries : Placed(p)}))
         [] phase = "place" -> GoOn("chain", <<>>)
         [] phase = "contexts" -> GoOn("done", <<>>)
         [] OTHER -> FALSE
    /\ UNCHANGED <<view, parent, tree, overwritten, declared>>

ViewNext ==
    \/ Declare \/ Validate \/ Stage \/ LinkCanonical \/ Materialize
    \/ PlaceInput \/ LinkChain \/ Collect \/ PlaceDemand \/ NextPhase
ViewSpec == ViewInit /\ [][ViewNext]_viewVars

------------------------------------------------------------------------------

\* p shows x: the file, all that is in the directory, where the link leads.
Shows(p, x) ==
    IF x \in TreeArtifacts
    THEN \A n \in DOMAIN Inside[x] : Content(tree, Append(p, n)) = Inside[x][n]
    ELSE IF x \in Paths THEN Real(tree, p) = Real(tree, x)
    ELSE IF x = Blank THEN Content(tree, p) = Blank
    ELSE /\ Content(tree, p) \in Files
         /\ view.alias[Content(tree, p)] = view.alias[x]

(* In a finished view each entry shows its artifact, whatever entries lie    *)
(* above or beside it; a module's artifact has one path, however many        *)
(* entries lead to it; and no artifact was written to.                       *)
EntriesShown ==
    phase = "done" =>
        /\ overwritten = {}
        /\ \A p \in Entries : Shows(p, view.entries[p])
        /\ \A p \in Visible(Entries) :
              view.entries[p] \in Files =>
                 \A m \in Selected(view.entries[p]) : Real(tree, p) = m

(* From each module, and from its package scope, Node finds the store that   *)
(* the module was compiled against, though packages are placed one after     *)
(* another and a later one may come between.                                 *)
LookupsFindStores ==
    phase = "done" =>
        \A l \in Lookups : Lookup(tree, l.from, l.name) = Real(tree, l.store)

(* The action makes what the rule declared, output by output, and nothing    *)
(* outside of it: each decides by its own means which links there will be.   *)
DeclaredIsBuilt ==
    phase = "done" /\ view.native =>
        /\ \A p \in declared.links : tree[p].kind = "link"
        /\ \A p \in declared.regular : tree[p].kind = "regular"
        /\ \A p \in declared.directories : tree[p].kind = "directory"
        /\ \A p \in Paths : tree[p].kind \in {"link", "regular"} =>
              \/ p \in declared.links \cup declared.regular
              \/ \E q \in declared.directories : IsStrictPrefix(q, p)

=============================================================================
