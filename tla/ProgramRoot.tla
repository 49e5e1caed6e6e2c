----------------------------- MODULE ProgramRoot -----------------------------
(***************************************************************************)
(* What a compile action declares and what its program root has to be       *)
(* (ts/tools/tsaction): the Files it links at their compiler coordinates,   *)
(* the node_modules of its importers, and who owns what its sources reach.  *)
(***************************************************************************)
EXTENDS Naturals, Sequences, SequencesExt

CONSTANTS
    Paths,        \* compiler coordinates
    Files,        \* exec-root files, store trees among them
    Dirs,         \* directories, sequences of their components
    Names,        \* package names
    Labels,
    None,
    At,           \* the coordinate a File is linked at
    Within,       \* the tree artifact that holds a File, or None
    Generated,    \* Files under bazel-out
    JavaScript,   \* Files
    Declaration,  \* coordinates of declarations and JSON
    Config,       \* what discoverProgramConfig writes
    ConfigPath,   \* and where
    Actions       \* what may be declared, each of ActionType

Importer == [dir : Dirs, links : [Names -> Files \cup {None}]]
Placed == [file : Files, at : Paths]

ActionType ==
    [sources   : Seq(Files),
     importers : Seq(Importer),    \* nearest first, the lockfile's root last
     inherited : Seq(Importer),
     overlays  : Seq(Placed),      \* in the order the directories are walked
     manifests : Seq(Placed),
     copies    : Seq(Files),
     verify    : BOOLEAN,          \* fail if the tool changes a copy
     discover  : BOOLEAN,
     imports   : [Files -> SUBSET (Paths \cup Names)],
     home      : [Files -> Dirs],  \* where a source looks names up
     exclude   : SUBSET Files,     \* own Files an exclude entry names
     json      : SUBSET Files,
     check     : BOOLEAN,
     own       : SUBSET Files,
     direct    : SUBSET Labels,
     owners    : [Files -> SUBSET Labels]]

Root == <<>>
AsSet(s) == {s[i] : i \in DOMAIN s}
LastOf(s) == s[Len(s)]
Above(d) == {a \in Dirs : IsPrefix(a, d)}

------------------------------------------------------------------------------
(* The program root a declaration asks for, whatever the order of its parts. *)

SourcesAt(a, p) == {f \in AsSet(a.sources) : At[f] = p}
\* The publications at p: JavaScript is never one.
Publishing(s, p) == {j \in DOMAIN s : s[j].at = p /\ s[j].file \notin JavaScript}
Published(s, p) == {s[j].file : j \in Publishing(s, p)}
LastPublished(s, p) ==
    s[CHOOSE j \in Publishing(s, p) : \A i \in Publishing(s, p) : i <= j].file

\* One compiler coordinate, one File; a declaration is published once.
WellPlaced(a) ==
    /\ \A p \in Paths : \A f, g \in SourcesAt(a, p) : f = g
    /\ \A p \in Declaration : SourcesAt(a, p) = {} =>
          \A f, g \in Published(a.overlays, p) : f = g

\* The file that a reader finds at p.
DeclaredAt(a, p) ==
    IF a.discover /\ p = ConfigPath THEN Config
    ELSE IF \E f \in AsSet(a.copies) : At[f] = p
    THEN CHOOSE f \in AsSet(a.copies) : At[f] = p
    ELSE IF SourcesAt(a, p) # {}
    THEN CHOOSE f \in SourcesAt(a, p) : TRUE
    ELSE IF Published(a.manifests, p) # {}
    THEN LastPublished(a.manifests, p)
    ELSE IF Published(a.overlays, p) # {} THEN LastPublished(a.overlays, p)
    ELSE None

\* The first importer of a sequence that links the name.
FirstLink(s, n) ==
    LET linking == {i \in DOMAIN s : s[i].links[n] # None}
    IN  IF linking = {} THEN None
        ELSE s[CHOOSE i \in linking : \A j \in linking : i <= j].links[n]

\* The importer of a line of directories that is nearest and links the name.
NearestLink(S, n) ==
    LET linking == {i \in S : i.links[n] # None}
    IN  IF linking = {} THEN None
        ELSE (CHOOSE i \in linking : \A j \in linking :
                Len(j.dir) <= Len(i.dir)).links[n]

OrElse(x, y) == IF x # None THEN x ELSE y

AllButRoot(a) == SubSeq(a.importers, 1, Len(a.importers) - 1)
Inherited(a, d) == {i \in AsSet(a.inherited) : IsPrefix(i.dir, d)}
\* The nearest inherited importer of d, and those of the chain below it.
Inner(a, d) ==
    {i \in AsSet(AllButRoot(a)) \cup AsSet(a.inherited) :
        /\ IsPrefix(i.dir, d)
        /\ \A h \in Inherited(a, d) : IsPrefix(h.dir, i.dir)}

\* Each importer has a directory of its own, the importer above is above, and
\* what a dependency brings is not above the target.
WellChained(a) ==
    /\ \A i, j \in DOMAIN AllButRoot(a) :
          /\ a.importers[i].dir # Root
          /\ i < j => ~IsPrefix(a.importers[i].dir, a.importers[j].dir)
    /\ \A i, j \in DOMAIN a.inherited :
          a.inherited[i].dir = a.inherited[j].dir => i = j
    /\ \A i \in AsSet(a.inherited) :
          /\ ~IsPrefix(i.dir, a.importers[1].dir)
          /\ \A j \in DOMAIN a.importers : i.dir # a.importers[j].dir

\* What a name means in d: the chain's links, nearest importer first; under an
\* inherited importer what it links, then what the chain does, then the
\* inherited importers above. The chain's root is the last resort.
DeclaredName(a, d, n) ==
    IF Inherited(a, d) = {} THEN FirstLink(a.importers, n)
    ELSE OrElse(NearestLink(Inner(a, d), n),
         OrElse(FirstLink(AllButRoot(a), n),
         OrElse(NearestLink(Inherited(a, d), n), LastOf(a.importers).links[n])))

\* The directories whose lookups are declared.
Readers(a) ==
    {d \in Dirs : \/ IsPrefix(a.importers[1].dir, d)
                  \/ Inherited(a, d) # {}}

\* What the rules declare. Files outside bazel-out are copied, each to its own
\* coordinate; a publication that was moved is not from an own coordinate; a
\* checked program is neither copied nor given a config to discover.
WellDeclared(a) ==
    /\ a \in ActionType
    /\ \A f \in AsSet(a.sources) \cup (AsSet(a.copies) \ Generated) : At[f] \in Paths
    /\ \A f, g \in AsSet(a.copies) \ Generated : At[f] = At[g] => f = g
    /\ \A o \in AsSet(a.overlays) \cup AsSet(a.manifests), f \in a.own :
          At[o.file] = At[f] => o.at = At[f]
    /\ \A f \in a.json : a.imports[f] = {}
    /\ a.check => a.copies = <<>> /\ ~a.discover
    /\ a.own \subseteq AsSet(a.sources)
    /\ a.importers # <<>> /\ WellChained(a)
    /\ \A f \in a.own : a.home[f] \in Readers(a)

ASSUME ActionsAssumption == \A a \in Actions : WellDeclared(a)

\* Directories are sequences; Files, coordinates and what is neither differ.
ASSUME DirsAssumption == Root \in Dirs /\ \A d \in Dirs : d \in Seq(AsSet(d))
ASSUME FilesAssumption ==
    /\ Files \cap Paths = {} /\ ConfigPath \in Paths
    /\ None \notin Files \cup Paths \cup {Config}
    /\ Config \notin Files \cup Paths

------------------------------------------------------------------------------
(* The program: what can be read from the sources no exclude entry names.    *)

ProgramRoots(a) == {At[f] : f \in AsSet(a.sources) \ (a.exclude \cup a.json)}

\* The coordinates reached from them; reads says what a coordinate leads to.
ReachedFrom(roots, reads) ==
    {p \in Paths : \A S \in SUBSET Paths :
        roots \subseteq S /\ (\A q \in S : reads[q] \subseteq S) => p \in S}

DeclaredProgram(a) ==
    ReachedFrom(ProgramRoots(a),
        [p \in Paths |-> IF DeclaredAt(a, p) \in {None, Config} THEN {}
                         ELSE {q \in a.imports[DeclaredAt(a, p)] \cap Paths :
                                 DeclaredAt(a, q) # None}])

Reached(a, f) ==
    ({DeclaredAt(a, p) : p \in a.imports[f] \cap Paths}
       \cup {DeclaredName(a, a.home[f], n) : n \in a.imports[f] \cap Names})
     \ {None}

------------------------------------------------------------------------------
(* The strict-deps check: who owns a file, and may this target use it.       *)

\* The nearest owned path at or above f.
Holder(a, f) ==
    IF a.owners[f] # {} THEN f
    ELSE IF Within[f] # None THEN Within[f] ELSE None

Usable(a, f) ==
    \/ f \in a.own
    \/ /\ Holder(a, f) # None
       /\ a.owners[Holder(a, f)] \cap a.direct # {}

=============================================================================
