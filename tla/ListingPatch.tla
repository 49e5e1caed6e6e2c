---------------------------- MODULE ListingPatch ----------------------------
(***************************************************************************)
(* gazelle/listing_patch.go: a cached compiler listing made stale by       *)
(* import edits alone is patched, each added specifier resolved as an      *)
(* unedited file of the same directory and extension class resolves it,    *)
(* instead of being listed again by tsgo.                                  *)
(*                                                                         *)
(* A source's content is its specifiers (mode and text, as Specifiers      *)
(* scans them) and its rest, reduced to what matters here: whether it      *)
(* holds a reference directive.  Resolution is a function of the group     *)
(* (directory and class), mode and text.                                   *)
(***************************************************************************)
EXTENDS RepoTree

CONSTANTS Sources,    \* those patchableSource admits
          Roots,      \* the program's roots
          Class,      \* per source, extensionClass
          Specs,      \* records [mode, text]
          Resolves,   \* per group and specifier, the file it names or None
          Directive,  \* the text of a reference directive
          Referenced  \* and the file it names

Group == [f \in Sources |-> <<DirOf[f], Class[f]>>]

ASSUME SourcesAssumption ==
    /\ Sources \subseteq Files /\ Roots \subseteq Files /\ IsFiniteSet(Files)
    /\ Referenced \in Files
    /\ \A f \in Sources, s \in Specs : Resolves[Group[f], s] \in Files \cup {None}

VARIABLES
    content, \* the sources as they are: [specs, rest]
    touched, \* the sources whose stat line changed since the last run
    entry    \* the cached listing, once there is one: files, edges, probes
             \* and its sources

patchVars == <<content, touched, entry>>

Contents == [specs : SUBSET Specs, rest : BOOLEAN]

-----------------------------------------------------------------------------
(* What tsgo lists.                                                        *)

\* What a specifier names in a source.
Named(f, s) == Resolves[Group[f], s]

\* ... with the outcome, as the trace has it.
Resolution(f, s) == [from |-> f, text |-> s.text, to |-> Named(f, s)]

\* The resolution trace of a source.
ProbesOf(f, c) == {Resolution(f, s) : s \in c.specs}

\* The edge of a reference directive.
ReferenceOf(f) == [from |-> f, text |-> Directive, to |-> Referenced]

\* The edges of a source: its resolved specifiers and its directive.
EdgesOf(f, c) ==
    {e \in ProbesOf(f, c) : e.to # None}
    \cup (IF c.rest THEN {ReferenceOf(f)} ELSE {})

\* What the roots reach along edges, as reachable() walks it.
Reachable(edges) ==
    LET step(S) == S \cup {e.to : e \in {d \in edges : d.from \in S}}
        reach[n \in Nat] == IF n = 0 THEN Roots ELSE step(reach[n - 1])
    IN  reach[Cardinality(Files)]

\* A listing of the tree by tsgo, with the state recordPatchState adds.
FreshListing(tree) ==
    LET all == UNION {EdgesOf(f, tree[f]) : f \in Sources}
        files == Reachable(all)
    IN  [files  |-> files,
         edges  |-> {e \in all : e.from \in files},
         probes |-> UNION {ProbesOf(f, tree[f]) : f \in Sources \cap files},
         specs  |-> [f \in Sources \cap files |-> tree[f]]]

\* The specifications of one text mean one file in a group of sources.
ModesAgree ==
    \A f \in Sources, s \in Specs, t \in Specs :
        s.text = t.text => Resolves[Group[f], s] = Resolves[Group[f], t]

\* A reference directive reads like no import.
DirectivesApart == \A s \in Specs : s.text # Directive

-----------------------------------------------------------------------------
(* patchListing.                                                           *)

\* The listed sources whose stat line differs: a file that left the program
\* in an earlier patch stays among the reads.
Changed == touched \cap DOMAIN entry.specs

Added(f) == content[f].specs \ entry.specs[f].specs
Removed(f) == entry.specs[f].specs \ content[f].specs

\* Variant: a file is a precedent whatever its directory.
PrecedentsAnywhere(f, s) ==
    {g \in DOMAIN entry.specs \ Changed : s \in entry.specs[g].specs}

\* The unedited files whose resolution of s is taken over.
Precedents(f, s) ==
    {g \in DOMAIN entry.specs \ Changed :
        Group[g] = Group[f] /\ s \in entry.specs[g].specs}

\* An import text kept in another mode.
KeepsText(f) == \E s \in Removed(f), k \in content[f].specs : k.text = s.text

\* Variant: the rest of the source is not compared.
RestIgnored(f) == TRUE

\* Nothing but the imports of f changed.
RestKept(f) == content[f].rest = entry.specs[f].rest

At(S, f, text) == {e \in S : e.from = f /\ e.text = text}

\* Edges or probes without those of removed specifiers.
Kept(S) == {e \in S : ~(e.from \in Changed /\ \E s \in Removed(e.from) : s.text = e.text)}

Needed == {n \in Changed \X Specs : n[2] \in Added(n[1])}

\* What resolves the added specifier n: the precedent the map iteration met
\* and, when it has an edge for the text, the first such edge.
Answers(n) ==
    UNION {LET candidates == At(Kept(entry.edges), g, n[2].text)
           IN  [by : {g}, edge : IF candidates = {} THEN {None} ELSE candidates] :
             g \in Precedents(n[1], n[2])}

Picks ==
    {pick \in [Needed -> UNION {Answers(n) : n \in Needed}] : \A n \in Needed : pick[n] \in Answers(n)}

CopiedEdges(pick) ==
    {[pick[n].edge EXCEPT !.from = n[1]] : n \in {m \in Needed : pick[m].edge # None}}
CopiedProbes(pick) ==
    UNION {{[e EXCEPT !.from = n[1]] : e \in At(Kept(entry.probes), pick[n].by, n[2].text)} : n \in Needed}

\* The resolution the precedent's last probe names must be a listed edge.
PickListed(pick) ==
    \A n \in Needed :
        \E last \in {e.to : e \in At(entry.probes, pick[n].by, n[2].text)} :
            last # None => pick[n].edge # None /\ last \in entry.files

PatchedEdges(pick) == Kept(entry.edges) \cup CopiedEdges(pick)

Patched(pick) ==
    [files  |-> entry.files \cap Reachable(PatchedEdges(pick)),
     edges  |-> PatchedEdges(pick),
     probes |-> Kept(entry.probes) \cup CopiedProbes(pick),
     specs  |-> [f \in DOMAIN entry.specs |-> IF f \in Changed THEN content[f] ELSE entry.specs[f]]]

\* Every file the patched edges reach was listed: none entered the program.
Closed(edges) == Reachable(edges) \subseteq entry.files

\* unreached: a listing that is not what its edges reach is not modelled.
Unreached == (entry.files \ Reachable(entry.edges)) \cup (Reachable(entry.edges) \ entry.files)

\* The patches patchListing may return, none when it refuses.
Patches ==
    IF /\ \A f \in Changed : RestKept(f) /\ ~KeepsText(f)
       /\ Unreached = {}
    THEN {Patched(pick) : pick \in
             {p \in Picks : PickListed(p) /\ Closed(PatchedEdges(p))}}
    ELSE {}

-----------------------------------------------------------------------------
PatchInit ==
    /\ content \in [Sources -> Contents]
    /\ touched = {}
    /\ entry = FreshListing(content)

\* An editor saves a source.
Edit(f) ==
    /\ \E c \in Contents : content' = [content EXCEPT ![f] = c]
    /\ touched' = touched \cup {f}
    /\ UNCHANGED entry

\* A gazelle run: loadListing patches the entry.
Patch ==
    /\ Changed # {}
    /\ entry' \in Patches
    /\ touched' = {}
    /\ UNCHANGED content

\* A gazelle run: the patch is refused and tsgo lists again.
Relist ==
    /\ Changed # {}
    /\ entry' = FreshListing(content)
    /\ touched' = {}
    /\ UNCHANGED content

PatchNext == (\E f \in Sources : Edit(f)) \/ Patch \/ Relist

PatchSpec == PatchInit /\ [][PatchNext]_patchVars

-----------------------------------------------------------------------------
(* Properties.                                                             *)

\* A listing of what the program holds: the edges of files that left are
\* not looked at.
InProgram(listing, S) == {e \in S : e.from \in listing.files}

\* However often it was patched, an entry that validates lists the files tsgo
\* would list.
PatchedFilesAreFresh == entry.files = FreshListing(content).files

\* ... and, for the files of the program, the edges and the resolution trace.
PatchedImportsAreFresh ==
    LET fresh == FreshListing(content)
    IN  /\ InProgram(entry, entry.edges) = fresh.edges
        /\ InProgram(entry, entry.probes) = fresh.probes

(* patchListing (listing_patch.go): however often it was patched, a valid    *)
(* entry has the files, edges and resolutions that tsgo would list.          *)
PatchesAreFresh ==
    entry # None /\ Changed = {} => PatchedFilesAreFresh /\ PatchedImportsAreFresh
=============================================================================
