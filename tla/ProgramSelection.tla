-------------------------- MODULE ProgramSelection --------------------------
(***************************************************************************)
(* gazelle/owner.go, selectProgram: the compiler lists a program over a     *)
(* tree whose generated files are not there, and the listing is turned into *)
(* the one it would give were they there.                                   *)
(*                                                                         *)
(* A block is one resolution of a specifier: a source that imports a module *)
(* in two modes has two, of which the listing shows the outcomes alone.     *)
(* Its probes are the places the compiler looked at, in order: a file, a    *)
(* directory it skipped because it is missing, or a package.json.           *)
(*                                                                         *)
(* A world w is                                                             *)
(*   roots, disk          sources of the program, files that exist          *)
(*   blocks               [from, spec, n, type, probes]                     *)
(*   links                edges no resolution made (reference directives)   *)
(*   retained             sources a kept rule adds to the program           *)
(*   early, final         knowledge of outputs: what the rules read so far  *)
(*                        say, and what all of them say                     *)
(* and knowledge k is [scalar, tree, overridden]: files that are outputs,   *)
(* the label whose output directory holds a file, or Nowhere, and the files *)
(* a gazelle:resolve directive names.                                       *)
(***************************************************************************)
EXTENDS Naturals, Sequences, FiniteSets

CONSTANTS
    FirstParties, \* first-party files
    Library,      \* files of node_modules
    Config,       \* the program's tsconfig.json, which type entries are from
    Nowhere       \* no file, no label, no selection

VARIABLE world    \* the listing of a run, or Nowhere

Located == FirstParties \cup Library

\* The first probe of S, or 0.
FirstProbe(probes, S) ==
    LET hit == {i \in DOMAIN probes : i \in S}
    IN  IF hit = {} THEN 0 ELSE CHOOSE i \in hit : \A j \in hit : i <= j

Edge(b, f) == [from |-> b.from, spec |-> b.spec, type |-> b.type, to |-> f]

ReachedBy(starts, edges, stop) ==
    LET step(S) == S \cup ({e.to : e \in {d \in edges : d.from \in S}} \ stop)
        reach[n \in Nat] == IF n = 0 THEN starts \ stop ELSE step(reach[n - 1])
    IN  reach[Cardinality(Located) + 1]

-----------------------------------------------------------------------------
(* What the compiler lists and traces, over the files of a disk.            *)

\* The file a block resolves to; a skipped directory and a package.json give
\* nothing over a tree without outputs.
Outcome(b, disk) ==
    LET i == FirstProbe(b.probes, {j \in DOMAIN b.probes :
                  b.probes[j].what = "file" /\ b.probes[j].path \in disk})
    IN  IF i = 0 THEN Nowhere ELSE b.probes[i].path

\* splitResolutionTrace: the probes that failed, and the outcome.
Candidates(b, disk) ==
    LET to == Outcome(b, disk)
        i == FirstProbe(b.probes, {j \in DOMAIN b.probes :
                 b.probes[j] = [what |-> "file", path |-> to]})
    IN  IF to = Nowhere THEN b.probes ELSE SubSeq(b.probes, 1, i)

CompilerListing(w) ==
    LET edges == {Edge(b, Outcome(b, w.disk)) :
                    b \in {c \in w.blocks : Outcome(c, w.disk) # Nowhere}} \cup w.links
        files == ReachedBy(w.roots \cup {Config}, edges, {})
    IN  [files |-> files \ {Config}, roots |-> w.roots,
         edges |-> {e \in edges : e.from \in files},
         blocks |-> {b \in w.blocks : b.from \in files}]

\* What a world is. A directory is not a file, an edge that no resolution made is
\* not of a resolution's kind, and the kept sources are listed.
World(w) ==
    /\ IsFiniteSet(Located) /\ {Config, Nowhere} \cap Located = {}
    /\ \A f, g \in Located : [to |-> f, probe |-> g] # Nowhere
    /\ w.roots \subseteq Located /\ w.disk \subseteq Located
    /\ w.retained \subseteq CompilerListing(w).files
    /\ \A b \in w.blocks :
          /\ b.from \in Located \cup {Config} /\ (b.from = Config => b.type = TRUE)
          /\ b.probes \in Seq([what : {"file", "directory", "package"}, path : Located])
          /\ \A i \in DOMAIN b.probes :
                b.probes[i].what = "directory" => b.probes[i].path \notin w.disk \cup w.final.scalar
    /\ \A e \in w.links :
          /\ e.from \in Located /\ e.to \in Located
          /\ \A b \in w.blocks : ~ (b.from = e.from /\ b.spec = e.spec /\ b.type = e.type)

-----------------------------------------------------------------------------
(* selectProgram.                                                           *)

Generated(k, f, scalar) ==
    f \in FirstParties /\ (k.tree[f] # Nowhere \/ (scalar /\ f \in k.scalar))

\* inputIdentity is not unavailableInput.
Available(w, k, f) == f \in FirstParties /\ (f \in w.disk \/ Generated(k, f, TRUE))

\* The first candidate under an output directory.
TreeBoundary(k, cands) ==
    FirstProbe(cands, {i \in DOMAIN cands : cands[i].path \in FirstParties /\ k.tree[cands[i].path] # Nowhere})

\* An overridden file is taken as it is, but not past an output directory
\* that may hold the module.
Overrides(w, k, cands, f) ==
    f \in k.overridden /\ Available(w, k, f)
StopsAt(k, cands, f) ==
    LET i == TreeBoundary(k, cands)
    IN  i = 0 \/ k.tree[f] = k.tree[cands[i].path]

\* What candidate i of a block selects: the file and the probe it stands at.
Chosen(w, k, to, cands, at, i) ==
    LET c == cands[i]
    IN  IF c.path \notin FirstParties \/ (c.what = "package" /\ at # i) THEN {}
        ELSE IF to # Nowhere /\ Overrides(w, k, cands, to) /\ StopsAt(k, cands, to)
        THEN {[to |-> to, probe |-> IF at = 0 THEN to ELSE cands[at].path]}
        ELSE IF Overrides(w, k, cands, c.path) \/ Generated(k, c.path, c.what = "file")
        THEN {[to |-> c.path, probe |-> c.path]}
        ELSE {}

FirstChosen(w, k, to, cands, at) ==
    LET i == FirstProbe(cands, {j \in DOMAIN cands : Chosen(w, k, to, cands, at, j) # {}})
    IN  IF i = 0 THEN Nowhere ELSE CHOOSE s \in Chosen(w, k, to, cands, at, i) : TRUE
SelectionAmong(w, k, to, cands) == FirstChosen(w, k, to, cands, TreeBoundary(k, cands))
Selection(w, k, b) == SelectionAmong(w, k, Outcome(b, w.disk), Candidates(b, w.disk))

Matching(w, p, e) ==
    {b \in p.blocks : /\ b.from = e.from /\ b.spec = e.spec /\ b.type = e.type
                      /\ Outcome(b, w.disk) = e.to}

\* Variant: one mode that is replaced takes the edge of the other with it.
ReplacedByAny(w, k, p, e) == \E b \in Matching(w, p, e) : Selection(w, k, b) # Nowhere

\* The listing omits modes: every one must have been replaced.
Replaced(w, k, p, e) ==
    /\ Matching(w, p, e) # {}
    /\ \A b \in Matching(w, p, e) : Selection(w, k, b) # Nowhere

KeptEdges(w, k, p) == {e \in p.edges : ~Replaced(w, k, p, e)}

\* The specifiers' edges after the selection, and what they still reach; an
\* output has no imports.
Restricted(p, edges, reached) ==
    [files |-> p.files \cap reached, roots |-> p.roots,
     edges |-> {e \in edges : e.from \in reached},
     blocks |-> {b \in p.blocks : b.from \in reached}]
Starts(w, p, kept, edges) ==
    p.roots \cup (w.retained \cap p.files)
        \cup (IF \E e \in edges : e.from = Config /\ e.type THEN {Config} ELSE {})
        \cup {e.to : e \in {d \in kept : d.from = Config /\ d.type}}
SelectEdges(w, k, p, kept, edges) ==
    Restricted(p, edges, ReachedBy(Starts(w, p, kept, edges), edges,
                                   {f \in FirstParties : Generated(k, f, TRUE)}))
Select(w, k, p) ==
    LET kept == KeptEdges(w, k, p)
        selected == {<<b, Selection(w, k, b)>> : b \in p.blocks}
    IN  SelectEdges(w, k, p, kept,
            kept \cup {Edge(s[1], s[2].to) : s \in {c \in selected : c[2] # Nowhere}})

\* Variant: the second selection starts from the first.
SelectAgain(w) == Select(w, w.final, Select(w, w.early, CompilerListing(w)))

\* selectInput, with every rule known: from the compiler's own listing.
SelectInput(w) == Select(w, w.final, CompilerListing(w))

-----------------------------------------------------------------------------
(* The reference: the compiler run over the sources and the outputs, whose   *)
(* imports are not the program's, each block on its own.                     *)
IsThere(w, k, p) ==
    \/ p.what = "file" /\ (p.path \in w.disk \/ Generated(k, p.path, TRUE))
    \/ p.path \in FirstParties /\ k.tree[p.path] # Nowhere
BuiltFile(w, k, b) ==
    LET to == Outcome(b, w.disk)
        i == FirstProbe(b.probes, {j \in DOMAIN b.probes : IsThere(w, k, b.probes[j])})
        pinned == /\ to # Nowhere /\ Overrides(w, k, b.probes, to)
                  /\ StopsAt(k, Candidates(b, w.disk), to)
    IN  IF pinned THEN to ELSE IF i = 0 THEN Nowhere ELSE b.probes[i].path
BuiltListing(w, k) ==
    LET edges == {Edge(b, BuiltFile(w, k, b)) :
                    b \in {c \in w.blocks : BuiltFile(w, k, c) # Nowhere}} \cup w.links
        outputs == {f \in FirstParties : Generated(k, f, TRUE)}
        typed == {e \in edges : e.from = Config /\ e.type}
        files == ReachedBy(w.roots \cup w.retained \cup {e.to : e \in typed}, edges, outputs)
    IN  [files |-> files, edges |-> {e \in edges : e.from \in files}]

\* The selection agrees with the compiler: with its files, and with what each
\* of them imports.
Agree(s, t) == s.files = t.files /\ {e \in s.edges : e.from # Config} = t.edges
IsTheCompilers(w) == Agree(SelectInput(w), BuiltListing(w, w.final))

(* selectProgram (owner.go): the listing over a tree without outputs becomes *)
(* the compiler's listing with them, whatever was known the first time.      *)
SelectionIsTheCompilers == world # Nowhere => IsTheCompilers(world)
=============================================================================
