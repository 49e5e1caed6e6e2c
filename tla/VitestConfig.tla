----------------------------- MODULE VitestConfig -----------------------------
(***************************************************************************)
(* gazelle/generate.go: which config a ts_test names, and which file that    *)
(* label leads to: the runner reads the config, so Gazelle adds what the     *)
(* config imports to the test.                                               *)
(*                                                                         *)
(* A label is a pair <<package, name>>, as is the file it names without a    *)
(* rule.  A tree x is                                                        *)
(*   configs     directory -> the config names there, sources or outputs     *)
(*               (the run stops at a name that an unread output may be)      *)
(*   manifests   directories that hold a package.json                        *)
(*   packages    directories that are packages                               *)
(*   targets     label -> None or the rule of that name before the run:      *)
(*               [kind, keep, to], to being the labels it forwards to, or    *)
(*               Expression; a filegroup with an output group is "grouped".  *)
(*               Of srcs a merge cannot change only the log speaks (keep.go) *)
(*   stored      the config of the test as it is: None, Absent (written as   *)
(*               None), Expression, or a label; hold if it is marked # keep  *)
(***************************************************************************)
EXTENDS RepoTree

CONSTANTS
    ConfigNames,    \* vitestConfigNames, as numbers in order of preference
    ConfigGroup,    \* "vitest_config", the name of the filegroup
    Hidden,         \* directories named vitest_config: the name is taken
    Expression,     \* a value Gazelle cannot follow
    Absent          \* config = None

VARIABLE configured \* the repository of a run, or None

\* The rule that Gazelle writes for the config f.
Filegroup(f) == [kind |-> "filegroup", keep |-> FALSE, to |-> {f}]

\* What a repository is. No rule has the name of a config.
Repository(x) ==
    LET labels == DOMAIN x.targets
        values == {None, Expression, Absent}
    IN  /\ IsFiniteSet(labels) /\ ConfigNames \subseteq Nat /\ None \notin ConfigNames
        /\ x.configs \in [Dirs -> SUBSET ConfigNames]
        /\ x.manifests \subseteq Dirs /\ x.packages \subseteq Dirs
        /\ \A l \in labels : l[1] \in Dirs /\ l = <<l[1], l[2]>> /\ l \notin values
        /\ \A d \in Dirs :
              /\ <<d, ConfigGroup>> \in labels
              /\ \A n \in ConfigNames : <<d, n>> \in labels /\ x.targets[<<d, n>>] = None
        /\ ConfigGroup \notin ConfigNames
        /\ \A l \in labels :
              /\ Expression # {l} /\ Filegroup(l) # None
              /\ x.targets[l] # None =>
                   x.targets[l].to = Expression \/ x.targets[l].to \subseteq labels
        /\ x.stored \in labels \cup values

Unknown == [what |-> "unknown"]
NoConfig == [what |-> "none"]
File(f) == [what |-> "file", file |-> f]

\* vitestConfigIn: the preferred name.
ConfigIn(x, d) ==
    IF x.configs[d] = {} THEN None
    ELSE CHOOSE n \in x.configs[d] : \A o \in x.configs[d] : n <= o

\* exportedVitestConfig: beside a package.json or at the root.
Exported(x, d) ==
    IF (d # Root /\ d \notin x.manifests) \/ d \in Hidden THEN None ELSE ConfigIn(x, d)

\* vitestRootAbove.
RootAbove(x, d) ==
    IF d = Root \/ d \in x.manifests THEN None ELSE Nearest(Up[d], x.manifests \cup {Root})

\* defaultVitestConfigFor.
Default(x, d) ==
    LET root == RootAbove(x, d)
    IN  IF ConfigIn(x, d) # None THEN <<d, ConfigIn(x, d)>>
        ELSE IF root = None \/ Exported(x, root) = None
                \/ (root # Root /\ root \notin x.packages) THEN None
        ELSE <<root, ConfigGroup>>

\* Variant: Gazelle's own filegroup is read as it was before the run.
NotRewritten(x, l) == FALSE

\* The filegroup of a package's exported config is Gazelle's to write, unless
\* it is kept or the name is a rule of another kind.
Rewritten(x, l) ==
    /\ l[2] = ConfigGroup /\ (l[1] = Root \/ l[1] \in x.packages)
    /\ \/ x.targets[l] = None
       \/ x.targets[l].kind = "filegroup" /\ ~x.targets[l].keep
    /\ Exported(x, l[1]) # None

\* One turn of the loop: a file, the label forwarded to, or unknown.
Forward(x, l) ==
    LET t == x.targets[l]
    IN  CASE Rewritten(x, l) -> File(<<l[1], Exported(x, l[1])>>)
          [] ~Rewritten(x, l) /\ t = None -> File(l)
          [] ~Rewritten(x, l) /\ t # None ->
               IF t.to # Expression /\ Cardinality(t.to) = 1
               THEN [what |-> "label", label |-> CHOOSE o \in t.to : TRUE]
               ELSE Unknown

\* The loop ends after as many turns as there are labels: one seen twice is a
\* cycle.
Selected(x, l) ==
    LET turn[n \in Nat] ==
          IF n = 0 THEN [what |-> "label", label |-> l]
          ELSE LET s == turn[n - 1] IN IF s.what = "label" THEN Forward(x, s.label) ELSE s
        last == turn[Cardinality(DOMAIN x.targets) + 1]
    IN  IF last.what = "label" THEN Unknown ELSE last

\* rule.MergeRules of the stored config with the default: a literal gives way,
\* an expression stays if there is nothing to replace it.
Merged(x, d) ==
    IF Default(x, d) # None THEN Default(x, d)
    ELSE IF x.stored = Expression THEN Expression ELSE None

\* vitestConfigFor and selectedVitestConfig: the attribute and the file whose
\* imports the test is given.
ConfigFor(x, d) ==
    LET attr == IF x.hold THEN x.stored ELSE Merged(x, d)
    IN  [attr |-> attr,
         cfg  |-> CASE attr \in {None, Absent} -> NoConfig
                    [] attr = Expression                -> Unknown
                    [] OTHER                     -> Selected(x, attr)]

-----------------------------------------------------------------------------
(* The reference: the rules as the run leaves them, followed by Bazel, and   *)
(* the file plain vitest reads in the directory.                             *)
TargetsAfter(x) ==
    [l \in DOMAIN x.targets |->
       LET t == x.targets[l]
           written == /\ l[2] = ConfigGroup /\ (l[1] = Root \/ l[1] \in x.packages)
                      /\ Exported(x, l[1]) # None
       IN  IF written /\ (t = None \/ (t.kind = "filegroup" /\ ~t.keep))
           THEN Filegroup(<<l[1], Exported(x, l[1])>>)
           ELSE t]

Supplies(x, l, f) ==
    LET after == TargetsAfter(x)
        reach[n \in Nat] ==
          IF n = 0 THEN {l}
          ELSE UNION {IF o \notin DOMAIN after \/ after[o] = None THEN {o}
                      ELSE IF after[o].to = Expression THEN {} ELSE after[o].to : o \in reach[n - 1]}
    IN  reach[Cardinality(DOMAIN after) + 1] = {f}

PlainVitest(x, d) ==
    LET at == IF ConfigIn(x, d) # None \/ d \in x.manifests THEN d ELSE Nearest(d, x.manifests \cup {Root})
    IN  IF ConfigIn(x, at) = None THEN None ELSE <<at, ConfigIn(x, at)>>

\* The file whose imports a test is given is the file its config label supplies
\* when the rules are written, through groups and aliases of other packages,
\* and a default one is the file vitest would read by itself.
LabelSupplies(x, d) ==
    LET c == ConfigFor(x, d)
    IN  /\ c.cfg.what = "file" => Supplies(x, c.attr, c.cfg.file)
        /\ ~x.hold /\ c.cfg.what = "file" /\ ConfigIn(x, d) = None
             /\ x.targets[<<RootAbove(x, d), ConfigGroup>>] = None
             => c.cfg.file = PlainVitest(x, d)
        /\ ~x.hold /\ c.attr = None /\ RootAbove(x, d) = Root /\ Root \notin Hidden
             => PlainVitest(x, d) = None

(* vitestConfigFor (generate.go): a test is given the imports of the file    *)
(* that its config label supplies once the rules are written.                *)
ConfigLabelSupplies == configured # None => \A d \in Dirs : LabelSupplies(configured, d)
=============================================================================
