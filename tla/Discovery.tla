------------------------------ MODULE Discovery ------------------------------
(***************************************************************************)
(* gazelle/program.go: which files are of a directory's program, in a        *)
(* checkout that may hold outputs copied there by earlier builds.            *)
(*                                                                         *)
(* A world y is                                                             *)
(*   home, manifests, importers   the directory; those with a package.json,  *)
(*                 and of them the lockfile's                                *)
(*   config        "authored", "unreadable", "refused" by metadata of an     *)
(*                 output, "unbounded" without files and include, "manifest" *)
(*                 "broken" where tsgo lists nothing but errors, "manifest"  *)
(*                 if a package.json stands for it, or "none"                *)
(*   tsgo          whether there is a compiler to ask                        *)
(*   disk          files of the checkout                                     *)
(*   producer      file -> the package whose rule declares it, or None       *)
(*   trees         <<directory, package of the rule that fills it>>          *)
(*   listed, hidden   files of the config's files, and of its exclude        *)
(*   imports       <<from, to>>                                              *)
(*   wild          files whose names have a wildcard                         *)
(*   asked         sources a rule of the package has or keeps                *)
(*   chosen        the tsconfig of that rule: "own", "other", "absent",      *)
(*                 "generated" or None                                       *)
(***************************************************************************)
EXTENDS RepoTree

CONSTANTS
    Programmable,   \* extensions a program may list
    Hides           \* file -> files of its stem that tsgo leaves out beside it

VARIABLE checkout   \* the checkout of a run, or None

Program(roots, files) == [answer |-> "program", roots |-> roots, files |-> files]
NoProgram(answer) == [answer |-> answer, roots |-> {}, files |-> {}]

Checkout(y) ==
    /\ y \in [home : Dirs, manifests : SUBSET Dirs, importers : SUBSET Dirs,
              config : {"authored", "unreadable", "refused", "unbounded", "manifest", "broken", "none"},
              tsgo : BOOLEAN, disk : SUBSET Files, producer : [Files -> Dirs \cup {None}],
              trees : SUBSET (Dirs \X Dirs), listed : SUBSET Files, hidden : SUBSET Files,
              imports : SUBSET (Files \X Files), wild : SUBSET Files, asked : SUBSET Files,
              chosen : {"own", "other", "absent", "generated", None}]
    \* A rule declares outputs in its own package.
    /\ \A f \in Files : y.producer[f] # None => Inside(DirOf[f], y.producer[f])
    /\ \A t \in y.trees : Inside(t[1], t[2])

\* The files of a stem stand beside each other, and one is before the others.
StemsAreOrdered ==
    /\ \A f \in Files : \A g \in Hides[f] :
          g \in Files /\ DirOf[g] = DirOf[f] /\ Hides[g] \subseteq Hides[f]
    /\ \A S \in SUBSET Files : S # {} => \E g \in S : \A h \in S : g \notin Hides[h]

-----------------------------------------------------------------------------
(* tsgo: files given by name, those that include finds, and what they import.*)
Found(y, excluded) ==
    LET found == {f \in y.disk \cap Programmable : Inside(DirOf[f], y.home)} \ (y.hidden \cup excluded)
    IN  {f \in found : ~ \E g \in found : f \in Hides[g]}

Closure(y, roots) ==
    LET step(S) == S \cup {i[2] : i \in {k \in y.imports : k[1] \in S /\ k[2] \in y.disk}}
        reach[n \in Nat] == IF n = 0 THEN roots ELSE step(reach[n - 1])
    IN  reach[Cardinality(Files)]

Listing(y, roots) == Program(roots, Closure(y, roots))
Enumerated(y, excluded) == Listing(y, (y.listed \cap y.disk) \cup Found(y, excluded))

-----------------------------------------------------------------------------
InTree(y, f, packages) == \E t \in y.trees : Inside(DirOf[f], t[1]) /\ t[2] \in packages
GeneratedProgramFile(y, f) == y.producer[f] # None \/ InTree(y, f, Dirs)

\* The packages a root of p may be declared in.
Owners(p) == UNION {above[DirOf[f]] : f \in p.roots}

\* Variant: the roots that are outputs are excluded, what they hid is not.
ExcludedRoots(y, p) == {f \in p.roots : GeneratedProgramFile(y, f)}

\* The outputs of those packages that are there, and their trees.
Excluded(y, p) ==
    {f \in p.roots : GeneratedProgramFile(y, f)}
        \cup {f \in y.disk : y.producer[f] \in Owners(p)}
        \cup {f \in Files : InTree(y, f, Owners(p))}

\* reconcileCompilerProgram: a listing whose roots hold an output is made anew.
Reconcile(y) ==
    LET p == Enumerated(y, {})
        outputs == Excluded(y, p)
    IN  IF y.config = "broken" THEN NoProgram("refused")
        ELSE IF \A f \in p.roots : ~GeneratedProgramFile(y, f) THEN p
        ELSE IF outputs \cap y.wild # {} THEN NoProgram("error")
        ELSE Enumerated(y, outputs)

-----------------------------------------------------------------------------
\* configureTsConfig: pnpm installs nothing below a manifest without importer.
Foreign(y) ==
    LET m == Nearest(y.home, y.manifests) IN m # None /\ m \notin y.importers

\* listManifestProgram: the files a package.json without tsconfig names.
ManifestProgram(y) ==
    IF Foreign(y) \/ ~y.tsgo \/ y.listed \cap y.disk = {} THEN NoProgram("none")
    ELSE Listing(y, y.listed \cap y.disk)

\* configureTsConfig's choice, and listTsConfigProgram.
Discover(y) ==
    CASE y.config \in {"authored", "unreadable", "refused", "unbounded", "broken"} ->
           IF Foreign(y) THEN NoProgram("refused")
           ELSE IF y.config = "refused" THEN NoProgram("error")
           ELSE IF y.config = "unreadable" \/ (y.config = "unbounded" /\ y.home = Root) THEN NoProgram("refused")
           ELSE IF ~y.tsgo THEN NoProgram("none")
           ELSE Reconcile(y)
      [] y.config = "manifest" -> ManifestProgram(y)
      [] OTHER -> NoProgram("none")

\* withSources: the sources that are missing become roots beside p's.
WithSources(y, p) ==
    LET missing == {f \in (y.asked \cap Programmable) \ p.files : ~GeneratedProgramFile(y, f)}
    IN  IF p.answer = "refused" \/ missing = {} THEN p
        ELSE Listing(y, (p.roots \cup missing) \cap y.disk)

\* compilerProgram: of a rule that need not use the package's own tsconfig.
\* Without a program, compilerClosureError ends the run.
CompilerProgram(y) ==
    LET own == Discover(y)
    IN  CASE y.chosen \in {None, "generated", "absent"} -> NoProgram("none")
          [] y.chosen = "own" /\ own.answer # "none" ->
               IF y.config = "manifest" \/ own.answer = "refused" THEN NoProgram("none")
               ELSE IF own.answer = "error" THEN own ELSE WithSources(y, own)
          [] OTHER ->
               IF ~y.tsgo THEN NoProgram("error")
               ELSE LET p == Reconcile(y) IN IF p.answer = "error" THEN p ELSE WithSources(y, p)

-----------------------------------------------------------------------------
\* The roots of a program are those of a checkout without outputs, but for what
\* its tsconfig names; the program of a rule has every source of it that is
\* there, and no root that is an output.
IsOfSources(y) ==
    LET outputs == {f \in Files : GeneratedProgramFile(y, f)}
        p == Discover(y)
        clean == Discover([y EXCEPT !.disk = @ \ outputs])
        q == CompilerProgram(y)
    IN  /\ y.config # "manifest" /\ p.answer # "error" =>
             /\ p.roots \ (outputs \cap y.listed) = clean.roots
             /\ y.listed \cap outputs = {} => p.answer = clean.answer
        /\ q.answer = "program" =>
             /\ (y.asked \cap Programmable \cap y.disk) \ outputs \subseteq q.files
             /\ q.roots \cap outputs \subseteq y.listed

(* discoverCompilerProgram, withSources and compilerProgram (program.go):    *)
(* outputs left in the checkout do not change what a program is made of.     *)
DiscoveryIsOfSources == checkout # None => IsOfSources(checkout)
=============================================================================
