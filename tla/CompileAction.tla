---------------------------- MODULE CompileAction ----------------------------
(***************************************************************************)
(* The tsgo action (ts/tools/tsaction, runTsgo): it lays the program root   *)
(* out one link at a time, runs the tool from it, checks what the tool read *)
(* and creates the stamp.  Each step may fail, and the build may kill the   *)
(* action at any of them and start it again, for other inputs, over the     *)
(* root it left.                                                            *)
(***************************************************************************)
EXTENDS ProgramRoot

CONSTANTS
    Later,        \* bound: what a later start may declare
    MaxAttempts   \* bound: starts of the action

ASSUME LaterAssumption == \A a \in Later : WellDeclared(a)

VARIABLES
    act,        \* what the action declares
    phase,      \* what it lays out or does next
    left,       \* what is left to lay out in this phase
    tree,       \* coordinate -> what is linked or copied there
    modules,    \* directory -> name -> the store tree its node_modules links
    changed,    \* copies the tool wrote to
    listing,    \* what the tool printed: the files of the program, the edges
    stamp, attempts

vars == <<act, phase, left, tree, modules, changed, listing, stamp,
          attempts>>

Empty == [file |-> None, copy |-> FALSE]
Link(f) == [file |-> f, copy |-> FALSE]
NoLinks == [n \in Names |-> None]
NoListing == [files |-> {}, edges |-> {}]
Running == {"sources", "inherited", "importers", "overlays", "manifests",
            "copies", "discover", "tool", "check", "verify", "stamp"}

Init ==
    /\ act \in Actions
    /\ phase = "sources" /\ left = act.sources
    /\ tree = [p \in Paths |-> Empty]
    /\ modules = [d \in Dirs |-> NoLinks]
    /\ changed = {} /\ listing = NoListing
    /\ stamp = FALSE /\ attempts = 1

Goto(next, rest) == phase' = next /\ left' = rest
Fail == /\ Goto("failed", <<>>)
        /\ UNCHANGED <<act, modules, changed, listing, stamp, attempts>>
\* Once the root is laid out it is removed however the action returns.
RemoveRoot == /\ tree' = [p \in Paths |-> Empty]
              /\ modules' = [d \in Dirs |-> NoLinks]

\* Bazel deletes the stamp before it runs the action; RemoveAll the root.
StartOver(a) ==
    /\ phase = "failed" /\ attempts < MaxAttempts
    /\ attempts' = attempts + 1 /\ act' = a /\ stamp' = FALSE
    /\ changed' = {} /\ listing' = NoListing
    /\ Goto("sources", a.sources)
    /\ UNCHANGED <<tree, modules>>
Start(a) ==
    /\ phase = "failed" /\ attempts < MaxAttempts
    /\ attempts' = attempts + 1 /\ act' = a /\ stamp' = FALSE
    /\ RemoveRoot
    /\ changed' = {} /\ listing' = NoListing
    /\ Goto("sources", a.sources)

LinkSource ==
    /\ phase = "sources" /\ left # <<>>
    /\ LET f == Head(left)
           there == tree[At[f]].file
       IN  /\ tree' = IF there = None THEN [tree EXCEPT ![At[f]] = Link(f)]
                      ELSE tree
           /\ IF there \notin {None, f} THEN Fail
              ELSE /\ Goto("sources", Tail(left))
                   /\ UNCHANGED <<act, modules, changed, listing, stamp,
                                  attempts>>

\* mergeImporters: the first importer that links a name wins.
Merge(s) == [n \in Names |-> FirstLink(s, n)]

Inherit ==
    /\ phase = "inherited" /\ left # <<>>
    /\ LET imp == Head(left) IN
       modules' = [modules EXCEPT ![imp.dir] =
                     IF Len(act.importers) > 1
                     THEN Merge(<<imp>> \o AllButRoot(act)) ELSE imp.links]
    /\ Goto("inherited", Tail(left))
    /\ UNCHANGED <<act, tree, changed, listing, stamp, attempts>>

SkipsNone == FALSE
\* skipsAncestors: the walk from the nearest importer would miss one.
SkipsAncestors ==
    /\ Len(act.importers) > 2
    /\ \E i \in 2..(Len(act.importers) - 1) :
          ~IsPrefix(act.importers[i].dir, act.importers[1].dir)

LinkImporter ==
    /\ phase = "importers" /\ left # <<>>
    /\ LET i == Len(act.importers) - Len(left) + 1
           imp == Head(left)
           dir == IF i < Len(act.importers) THEN imp.dir ELSE Root
       IN  modules' = [modules EXCEPT ![dir] =
                         IF i = 1 /\ SkipsAncestors THEN Merge(AllButRoot(act))
                         ELSE imp.links]
    /\ Goto("importers", Tail(left))
    /\ UNCHANGED <<act, tree, changed, listing, stamp, attempts>>

KeptJavaScript(o) == o.file \in JavaScript
Kept(o) ==
    \/ o.file \in JavaScript
    \/ \E f \in AsSet(act.sources) : At[f] = o.at

Distinct(o) ==
    /\ o.at \in Declaration /\ tree[o.at] # Empty
    /\ tree[o.at].file # o.file
Same(o) == o.at \in Declaration /\ tree[o.at] # Empty

Overlay ==
    /\ phase = "overlays" /\ left # <<>>
    /\ LET o == Head(left) IN
       IF ~Kept(o) /\ Distinct(o) THEN Fail /\ UNCHANGED tree
       ELSE /\ tree' = IF Kept(o) \/ Same(o) THEN tree
                       ELSE [tree EXCEPT ![o.at] = Link(o.file)]
            /\ Goto("overlays", Tail(left))
            /\ UNCHANGED <<act, modules, changed, listing, stamp,
                           attempts>>

Manifest ==
    /\ phase = "manifests" /\ left # <<>>
    /\ LET o == Head(left) IN
       tree' = IF Kept(o) THEN tree ELSE [tree EXCEPT ![o.at] = Link(o.file)]
    /\ Goto("manifests", Tail(left))
    /\ UNCHANGED <<act, modules, changed, listing, stamp, attempts>>

Copy ==
    /\ phase = "copies" /\ left # <<>>
    /\ LET f == Head(left) IN
       IF f \in Generated
       THEN /\ RemoveRoot /\ Goto("failed", <<>>)
            /\ UNCHANGED <<act, changed, listing, stamp, attempts>>
       ELSE /\ tree' = [tree EXCEPT ![At[f]] = [file |-> f, copy |-> TRUE]]
            /\ Goto("copies", Tail(left))
            /\ UNCHANGED <<act, modules, changed, listing, stamp,
                           attempts>>

Discover ==
    /\ phase = "discover"
    /\ tree' = IF act.discover
               THEN [tree EXCEPT ![ConfigPath] = [file |-> Config, copy |-> TRUE]]
               ELSE tree
    /\ Goto("tool", <<>>)
    /\ UNCHANGED <<act, modules, changed, listing, stamp, attempts>>

\* A phase whose list is done gives way to the next.
After == [sources   |-> "inherited", inherited |-> "importers",
          importers |-> "overlays",  overlays  |-> "manifests",
          manifests |-> "copies",    copies    |-> "discover"]
NextPhase ==
    /\ phase \in DOMAIN After /\ left = <<>>
    /\ LET next == After[phase] IN
       Goto(next, IF next = "discover" THEN <<>> ELSE act[next])
    /\ UNCHANGED <<act, tree, modules, changed, listing, stamp, attempts>>

------------------------------------------------------------------------------
(* The tool, which reads the root: node resolution walks up from a source.   *)

Lookup(d, n) ==
    LET linking == {a \in Above(d) : modules[a][n] # None}
    IN  IF linking = {} THEN None
        ELSE modules[CHOOSE a \in linking : \A b \in linking : Len(b) <= Len(a)][n]

\* What an import of f leads to: a coordinate, or a store tree.
Reads(f) == {w \in act.imports[f] \cap Paths : tree[w] # Empty}
              \cup ({Lookup(act.home[f], n) : n \in act.imports[f] \cap Names}
                      \ {None})
Program ==
    ReachedFrom(ProgramRoots(act),
        [p \in Paths |-> IF tree[p].file \in {None, Config} THEN {}
                         ELSE Reads(tree[p].file) \cap Paths])

\* A file is listed at its coordinate, or where the link there leads to.
Listed(p, real) == IF p \in real /\ ~tree[p].copy THEN tree[p].file ELSE p

Tool ==
    /\ phase = "tool"
    /\ \E touched \in SUBSET {p \in Paths : tree[p].copy /\ p # ConfigPath} :
          changed' = touched
    /\ \/ \* tsgo's diagnostics, or any other failure
          /\ RemoveRoot /\ Goto("failed", <<>>) /\ UNCHANGED listing
       \/ /\ \E real \in SUBSET Program :
               listing' =
                 [files |-> {Listed(p, real) : p \in Program},
                  edges |-> UNION {{<<Listed(p, real),
                                     IF r \in Paths THEN Listed(r, real) ELSE r>> :
                                       r \in Reads(tree[p].file)} :
                                 p \in {q \in Program : tree[q].file # Config}}]
          /\ Goto(IF act.check THEN "check" ELSE "verify", <<>>)
          /\ UNCHANGED <<tree, modules>>
    /\ UNCHANGED <<act, stamp, attempts>>

------------------------------------------------------------------------------
(* checkedRun and what follows it.                                           *)

\* throughRoot: the exec-root file of what was listed.
ThroughNothing(l) == l
ThroughRoot(l) == IF l \in Paths THEN tree[l].file ELSE l

\* excludedSrcs: own Files that are in no program because of an exclude.
ExcludedNone == {}
ExcludedSrcs ==
    {f \in (act.own \cap act.exclude) \ act.json :
        At[f] \notin {At[ThroughRoot(l)] : l \in listing.files}}

Undeclared ==
    {e \in listing.edges : /\ ThroughRoot(e[1]) \in act.own
                           /\ ~Usable(act, ThroughRoot(e[2]))}

Check ==
    /\ phase = "check"
    /\ IF ExcludedSrcs = {} /\ Undeclared = {}
       THEN Goto("verify", <<>>) /\ UNCHANGED <<tree, modules>>
       ELSE Goto("failed", <<>>) /\ RemoveRoot
    /\ UNCHANGED <<act, changed, listing, stamp, attempts>>

Verify ==
    /\ phase = "verify"
    /\ IF act.verify /\ changed # {}
       THEN Goto("failed", <<>>) /\ RemoveRoot
       ELSE Goto("stamp", <<>>) /\ UNCHANGED <<tree, modules>>
    /\ UNCHANGED <<act, changed, listing, stamp, attempts>>

Stamp ==
    /\ phase = "stamp"
    /\ stamp' = TRUE /\ Goto("done", <<>>) /\ RemoveRoot
    /\ UNCHANGED <<act, changed, listing, attempts>>

\* The build is stopped: the root stays, for the next run to remove.
Kill ==
    /\ phase \in Running
    /\ Goto("failed", <<>>)
    /\ UNCHANGED <<act, tree, modules, changed, listing, stamp, attempts>>

Next ==
    \/ \E a \in Later : Start(a)
    \/ LinkSource \/ Inherit \/ LinkImporter \/ Overlay \/ Manifest \/ Copy
    \/ Discover \/ NextPhase \/ Tool \/ Check \/ Verify \/ Stamp \/ Kill
Spec == Init /\ [][Next]_vars

------------------------------------------------------------------------------

(* When the tool starts, each coordinate leads to the file declared for it,  *)
(* whatever the order of overlays, manifests and copies: an explicit source  *)
(* is never replaced, and nothing is left of an earlier run. The walk up     *)
(* from a source finds what the importers are declared to link, nearest      *)
(* first, though the root importer is laid at the top, a chain may leave the *)
(* ancestors, and inherited importers are merged with it.                    *)
RootIsDeclared ==
    phase = "tool" =>
        /\ WellPlaced(act)
        /\ \A p \in Paths : tree[p].file = DeclaredAt(act, p)
        /\ \A d \in Readers(act), n \in Names :
            Lookup(d, n) = DeclaredName(act, d, n)

(* With a stamp, every own source was read, or could not be, and all it      *)
(* reaches belongs to the target or a direct dependency.                     *)
StampedIsChecked ==
    stamp /\ act.check =>
        /\ \A f \in act.own \ act.json : At[f] \in DeclaredProgram(act)
        /\ \A f \in act.own : \A g \in Reached(act, f) : Usable(act, g)

=============================================================================
