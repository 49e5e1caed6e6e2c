------------------------------ MODULE Forwarding ------------------------------
(***************************************************************************)
(* gazelle/resolve.go: the files that labels lead to, through the rules of   *)
(* the BUILD files: declaredSourceImports for the srcs of a rule,            *)
(* compilerConfigSource for its tsconfig.                                    *)
(*                                                                         *)
(* The attributes y of a rule, and those they lead to, are                   *)
(*   targets  label -> None for a file, or the rule of that name:            *)
(*            [kind, to, grouped, outs, tree]: "filegroup", "alias",         *)
(*            "ts_config" or "other"; the labels of srcs, actual or src, or  *)
(*            Computed; whether a group of outputs is chosen; the declared   *)
(*            outputs, or Computed; whether the rule fills a directory       *)
(*   srcs     labels of the rule, or Computed                                *)
(*   config   label of its tsconfig                                          *)
(*   listed   tsconfig -> the file the package's program was listed by, for  *)
(*            the labels Gazelle gives a package's ts_config                 *)
(***************************************************************************)
EXTENDS RepoTree

CONSTANTS
    Labels, External,   \* those of other repositories
    Computed            \* a value Gazelle cannot read, as a select

VARIABLE attributes     \* those of a rule, or None

Source(files, whole) == [files |-> files, whole |-> whole]
Unsupported == Source({}, FALSE)
Joined(S) == Source(UNION {s.files : s \in S}, \A s \in S : s.whole)

\* ruleOutputs: out, outs and out_dir.
OutputsOf(t) ==
    IF t.outs = Computed THEN Unsupported ELSE Source(t.outs, ~t.tree /\ t.outs # {})

\* visit: a label, and those on the way to it; `again' is the answer for one of them.
Visiting(y, again) ==
    LET visit[p \in Labels \X SUBSET Labels] ==
          LET t == y.targets[p[1]]
          IN  IF p[1] \in External THEN Unsupported
              ELSE IF p[1] \in p[2] THEN again
              ELSE IF t = None THEN Source({p[1]}, TRUE)
              ELSE IF t.kind \notin {"filegroup", "alias"} THEN OutputsOf(t)
              ELSE IF t.grouped \/ t.to = Computed THEN Unsupported
              ELSE Joined({visit[<<o, p[2] \cup {p[1]}>>] : o \in t.to})
    IN  visit

\* Variant: a label met again was counted where it was met first.
VisitOnce(y) == Visiting(y, Source({}, TRUE))

Visit(y) == Visiting(y, Unsupported)

\* declaredSourceImports; automaticProgramImports ends the run of a rule it is
\* to complete whose sources are not whole.
Declared(y) ==
    IF y.srcs = Computed THEN Unsupported ELSE Joined({Visit(y)[<<l, {}>>] : l \in y.srcs})

\* compilerConfigSource, one turn: a file, the next label, or nothing.
Turn(y, l) ==
    LET t == y.targets[l]
        next == IF t.kind = "ts_config" /\ l \in DOMAIN y.listed THEN {y.listed[l]} ELSE t.to
    IN  IF l \in External THEN [at |-> "end", label |-> None]
        ELSE IF t = None THEN [at |-> "end", label |-> IF l \in DOMAIN y.listed THEN y.listed[l] ELSE l]
        ELSE IF t.kind \in {"ts_config", "alias"} /\ next # Computed /\ Cardinality(next) = 1
        THEN [at |-> "label", label |-> CHOOSE o \in next : TRUE]
        ELSE [at |-> "end", label |-> None]

\* A label seen before ends the chain with nothing: one is, in more turns than labels.
ConfigSource(y) ==
    LET turn[n \in Nat] ==
          IF n = 0 THEN [at |-> "label", label |-> y.config]
          ELSE LET s == turn[n - 1] IN IF s.at = "label" THEN Turn(y, s.label) ELSE s
        last == turn[Cardinality(Labels) + 1]
    IN  IF last.at = "label" THEN None ELSE last.label

-----------------------------------------------------------------------------
\* Bazel's view: the labels that l forwards to, in any number of steps.
Forwards(y) ==
    {e \in [from : Labels, to : Labels] :
       LET t == y.targets[e.from]
       IN  /\ e.from \notin External /\ t # None
           /\ t.kind \in {"filegroup", "alias"} /\ t.to # Computed /\ ~t.grouped
           /\ e.to \in t.to}
Reached(y, S) == LedTo(Labels, S, Forwards(y))

\* What the label names can be read; the label leads to itself.
Readable(y, l) ==
    /\ l \notin External
    /\ y.targets[l] # None =>
         LET t == y.targets[l]
         IN  IF t.kind \in {"filegroup", "alias"} THEN ~t.grouped /\ t.to # Computed
             ELSE ~t.tree /\ t.outs \notin {Computed, {}}
Cyclic(y, l) == l \in Reached(y, {e.to : e \in {d \in Forwards(y) : d.from = l}})
FilesAt(y, l) ==
    LET t == y.targets[l]
    IN  IF l \in External THEN {} ELSE IF t = None THEN {l}
        ELSE IF t.kind \in {"filegroup", "alias"} \/ t.outs = Computed THEN {} ELSE t.outs

\* The labels of a config, up to a file; the rule of a listed program stands for
\* the file it was listed by.
Configs(y) ==
    {e \in [from : Labels, to : Labels] :
       LET t == y.targets[e.from]
       IN  /\ e.from \notin External /\ t # None
           /\ IF t.kind = "ts_config" /\ e.from \in DOMAIN y.listed THEN e.to = y.listed[e.from]
              ELSE t.kind \in {"ts_config", "alias"} /\ t.to # Computed /\ e.to \in t.to}
ConfigFiles(y) ==
    {IF l \in DOMAIN y.listed THEN y.listed[l] ELSE l :
       l \in {k \in LedTo(Labels, {y.config}, Configs(y)) \ External : y.targets[k] = None}}

\* What attributes are. An alias names one label, a ts_config at most one.
Attributed(y) ==
    /\ IsFiniteSet(Labels) /\ None \notin Labels
    /\ \A l \in Labels : Computed # {l}
    /\ y.srcs = Computed \/ y.srcs \subseteq Labels
    /\ y.config \in Labels /\ DOMAIN y.listed \subseteq Labels
    /\ \A l \in DOMAIN y.listed : y.listed[l] \in Labels
    /\ \A l \in {k \in Labels : y.targets[k] # None} :
         LET t == y.targets[l]
         IN  /\ t.to = Computed \/ t.to \subseteq Labels
             /\ t.kind \in {"alias", "ts_config"} =>
                  \/ t.to = Computed \/ (t.kind = "ts_config" /\ t.to = {})
                  \/ \E o \in Labels : t.to = {o}
             /\ t.tree \in BOOLEAN /\ t.grouped \in BOOLEAN

\* The sources of a rule are said to be whole exactly if Bazel's view of its
\* srcs holds no cycle and nothing Gazelle cannot read, and are then what Bazel
\* stages; a config is found exactly if its chain of labels ends in a file.
LabelsReachTheirFiles(y) ==
    /\ LET d == Declared(y)
           led == Reached(y, y.srcs)
       IN  y.srcs # Computed =>
             /\ d.whole <=> \A l \in led : Readable(y, l) /\ ~Cyclic(y, l)
             /\ d.files = UNION {FilesAt(y, l) : l \in led}
    /\ {ConfigSource(y)} \ {None} = ConfigFiles(y)

(* declaredSourceImports and compilerConfigSource (gazelle/resolve.go): the  *)
(* labels of srcs and tsconfig lead to the files that Bazel will stage.      *)
LabelsReachFiles == attributes # None => LabelsReachTheirFiles(attributes)
=============================================================================
