------------------------------ MODULE Resolution ------------------------------
(***************************************************************************)
(* gazelle/resolve.go: the dependencies and inputs of one rule, from the     *)
(* edges the compiler listed.  Where the owner of an imported file is read   *)
(* in its sources, or nobody owns the file, the walk goes on to the edges of *)
(* that file: they are compiled with the rule.                               *)
(*                                                                         *)
(* A world x is                                                             *)
(*   me, roots     the rule and the sources whose edges start the walk       *)
(*   kind, home    rule -> "compile", "test", "codegen", "other"; its package*)
(*   lists, kept   rule -> the files its srcs name; those marked # keep      *)
(*   indexed       rule -> the files it had when Gazelle's index was made    *)
(*   managed       rules Gazelle writes, in packages it generates            *)
(*   mode          rule -> "emitted", "source", "opaque", "unknown"          *)
(*   packages, manifests   directories with a program; with a package.json   *)
(*   withheld      files not walked, excluded, foreign or disabled           *)
(*   producer, tree, over  file -> the rule that declares it; whose output   *)
(*                 directory holds it; that gazelle:resolve names; or None   *)
(*   twins         JavaScript exported to me beside its declaration          *)
(*   edges         [from, to, module, member]: module if it is an import;    *)
(*                 member the workspace member's rule it goes through        *)
(*   config        the vitest config of a test, or None                      *)
(***************************************************************************)
EXTENDS RepoTree

CONSTANTS
    Targets,            \* rules, numbered as their labels sort
    Installed,          \* files of node_modules
    DeclarationFiles,
    Compilable,         \* TypeScript, JavaScript and JSON that ts_compile takes
    Refused,            \* .mts, .cts, .jsx
    TwinOf              \* declaration -> the JavaScript beside it, or None

VARIABLE consumer       \* the rule that is resolved and what is known, or None

Ours == Files \ Installed

IsGenerated(x, f) == x.producer[f] # None \/ x.tree[f] # None
IsAvailable(x, f) == IsGenerated(x, f) \/ f \notin x.withheld

\* Variant: what the srcs name now counts.
SelectedRuleImportsStale(x, k) == x.lists[k]

\* selectedRuleImports: a managed rule keeps what this run will give it.
SelectedRuleImports(x, k) ==
    IF k \notin x.managed THEN x.lists[k]
    ELSE x.kept[k] \cup
         {f \in x.lists[k] \ x.withheld :
            /\ ~IsGenerated(x, f) /\ Inside(DirOf[f], x.home[k])
            /\ LET near == Nearest(DirOf[f], x.packages \cup {Root}) IN Inside(x.home[k], near)}

\* ruleHolding of a source: only a ts_compile or the rule itself is asked; the
\* index first, then every rule.
Holders(x, f, held) ==
    {k \in Targets : (k = x.me \/ x.kind[k] = "compile") /\ f \in SelectedRuleImports(x, k) /\ f \in held[k]}
MineOrFirst(x, owners) ==
    IF x.me \in owners THEN {x.me} ELSE {k \in owners : \A o \in owners : k <= o}
Holding(x, f) ==
    LET found == Holders(x, f, x.indexed)
    IN  MineOrFirst(x, IF found # {} THEN found ELSE Holders(x, f, x.lists))

Dep(x, k) == {k} \ {x.me}
SourceProducer(x, k) == IF x.kind[k] = "codegen" THEN Dep(x, k) ELSE {}

\* generatedDep: who is asked for the file, and whether the file is his to give.
Produced(x, f, k, held) ==
    IF held # {} THEN [deps |-> held \ {x.me}, given |-> TRUE]
    ELSE IF f \in Compilable \ DeclarationFiles \/ x.kind[k] # "codegen"
    THEN [deps |-> SourceProducer(x, k), given |-> FALSE]
    ELSE [deps |-> Dep(x, k), given |-> TRUE]
GeneratedDep(x, f) ==
    IF x.over[f] # None /\ IsAvailable(x, f)
    THEN [deps |-> {x.over[f]}, given |-> IsGenerated(x, f)]
    ELSE IF x.producer[f] # None THEN Produced(x, f, x.producer[f], Holding(x, f))
    ELSE IF x.tree[f] # None THEN [deps |-> Dep(x, x.tree[f]), given |-> TRUE]
    ELSE [deps |-> {}, given |-> FALSE]

-----------------------------------------------------------------------------
(* edgeDep.                                                                 *)
Nothing == [deps |-> {}, source |-> FALSE, inputs |-> {}, reported |-> FALSE, fatal |-> FALSE]

\* readsSources: a declaration is read as it is unless its owner is opaque.
ReadsSources(x, k, f) ==
    x.mode[k] = "source" \/ (x.mode[k] # "opaque" /\ f \in DeclarationFiles)

\* An owner has the file; whether he emits may not be known.
FromOwner(x, k, f) ==
    [Nothing EXCEPT !.deps = {k}, !.source = ReadsSources(x, k, f),
                    !.fatal = x.mode[k] = "unknown" /\ f \notin DeclarationFiles]

\* The file of nobody becomes an input, with its exported twin.
AsInput(x, f, deps) ==
    CASE f \in Compilable ->
           [Nothing EXCEPT
              !.deps = deps, !.source = TRUE,
              !.inputs = {f} \cup (IF x.producer[f] = None THEN {TwinOf[f]} \cap x.twins ELSE {})]
      [] f \in Refused -> [Nothing EXCEPT !.fatal = TRUE]
      [] OTHER -> [Nothing EXCEPT !.reported = TRUE]

\* A source that is not generated: the import's member, its owner, or nobody.
SourceDep(x, f, member, owner) ==
    IF ~IsAvailable(x, f) THEN [Nothing EXCEPT !.fatal = TRUE]
    ELSE IF member # None THEN FromOwner(x, member, f)
    ELSE IF owner = {} THEN AsInput(x, f, {})
    ELSE IF owner = {x.me} THEN [Nothing EXCEPT !.source = TRUE]
    ELSE FromOwner(x, CHOOSE k \in owner : TRUE, f)

ImportDep(x, f, member, g) ==
    CASE g.given -> [Nothing EXCEPT !.deps = g.deps]
      [] ~g.given /\ x.producer[f] # None -> AsInput(x, f, g.deps)
      [] ~g.given /\ x.producer[f] = None ->
           SourceDep(x, f, IF g.deps = {} THEN member ELSE None,
                     IF g.deps # {} THEN g.deps ELSE Holding(x, f))

EdgeDep(x, e) ==
    IF e.to \in Installed THEN Nothing
    ELSE ImportDep(x, e.to, e.member, GeneratedDep(x, e.to))

\* The config is loaded, not compiled: its modules are staged and walked
\* whoever owns them, declarations not at all.
ConfigImport(x, f, member, g) ==
    IF x.producer[f] # None THEN [Nothing EXCEPT !.deps = g.deps, !.inputs = {f} \ DeclarationFiles]
    ELSE IF g.given THEN [Nothing EXCEPT !.deps = g.deps]
    ELSE IF ~IsAvailable(x, f) THEN [Nothing EXCEPT !.fatal = TRUE]
    ELSE [Nothing EXCEPT
            !.deps = IF g.deps # {} THEN g.deps
                     ELSE IF member # None THEN {member} ELSE Holding(x, f) \ {x.me},
            !.source = f \notin DeclarationFiles,
            !.inputs = IF member = None \/ g.deps # {} THEN {f} \ DeclarationFiles ELSE {}]

ConfigDep(x, e) ==
    IF e.to \in Installed \/ ~e.module \/ e.from \in DeclarationFiles THEN Nothing
    ELSE ConfigImport(x, e.to, e.member, GeneratedDep(x, e.to))

-----------------------------------------------------------------------------
(* resolveEdges.                                                            *)

\* Variant: the walk ends at the rule's own edges.
FollowsOwn(x, e) == e.to \in x.roots

\* The edges of a file read in its source are the rule's to resolve, those of
\* an output are not.
Follows(x, e) == EdgeDep(x, e).source /\ ~IsGenerated(x, e.to)

\* The edges of the files that the followed ones lead to.
Walked(x, starts, followed) == {e \in x.edges : e.from \in LedTo(Files, starts, followed)}

\* requiredInputScope: the authored package.json a module's format is read
\* from, of an output as of a source.
Scope(x, f) ==
    IF f \in Compilable \cup DeclarationFiles THEN Nearest(DirOf[f], x.manifests) ELSE None

\* Generated sources bring their producers.
RootDeps(x) ==
    UNION {SourceProducer(x, x.producer[f]) : f \in {s \in x.lists[x.me] : x.producer[s] # None}}

Compiled(x) == Walked(x, x.roots, {e \in x.edges : Follows(x, e)})

\* A generated config is its own only module.
Loaded(x) ==
    CASE x.config = None -> {}
      [] x.config # None /\ IsGenerated(x, x.config) ->
           {[from |-> x.config, to |-> x.config, module |-> TRUE, member |-> None]}
      [] OTHER -> Walked(x, {x.config},
                         {e \in x.edges : e.module /\ ConfigDep(x, e).source /\ ~IsGenerated(x, e.to)})

\* What was answered for the edges that were walked makes the rule.
Written(x, answers, loads) ==
    LET all == {l.dep : l \in answers} \cup loads
        read == x.lists[x.me] \cup {l.to : l \in {c \in answers : c.dep.source}}
        staged == (UNION {l.inputs : l \in loads}) \ {x.config}
    IN  [fatal    |-> \/ \E l \in all : l.fatal
                      \/ x.config # None /\ ~IsAvailable(x, x.config),
         deps     |-> (UNION {l.deps : l \in all}) \cup RootDeps(x),
         srcs     |-> x.lists[x.me] \cup UNION {l.dep.inputs : l \in answers},
         scopes   |-> {Scope(x, f) : f \in read} \ {None},
         reported |-> {l.to : l \in {c \in answers : c.dep.reported}},
         config   |-> {f \in staged : Inside(DirOf[f], DirOf[x.config])},
         outside  |-> {f \in staged : ~Inside(DirOf[f], DirOf[x.config])}]

Resolve(x) ==
    Written(x, {[to |-> e.to, dep |-> EdgeDep(x, e)] : e \in Compiled(x)},
               {ConfigDep(x, e) : e \in Loaded(x)})

\* retainTestRoots: the sources of the rule that are tests, once others joined.
TestRoots(x, srcs) == IF x.kind[x.me] = "test" /\ srcs \ x.roots # {} THEN x.roots ELSE srcs

-----------------------------------------------------------------------------
(* What the written rules supply.                                           *)
Has(x, k, f) ==
    /\ f \in x.lists[k]
    /\ k \in x.managed /\ f \notin x.kept[k] =>
          /\ f \notin x.withheld /\ ~IsGenerated(x, f)
          /\ Nearest(DirOf[f], x.packages) = x.home[k]
HandsOn(x, k, f) == Has(x, k, f) \/ k \in {x.producer[f], x.tree[f], x.over[f]}

\* Files the compiler reads in their source: the rule's own, and from them on,
\* those its dependencies do not publish as declarations.
HandedRaw(x, a, e) ==
    LET k == IF e.member # None THEN {e.member} ELSE Holding(x, e.to)
    IN  \/ e.to \in a.srcs
        \/ \E o \in k \cap a.deps : ReadsSources(x, o, e.to)
ReadRaw(x, a) ==
    LedTo(Files, x.roots, {e \in x.edges : e.to \in Ours /\ ~IsGenerated(x, e.to) /\ HandedRaw(x, a, e)})

\* A directive names a rule that hands its sources on, or that alone has the file.
Directed(x, e, k) ==
    \/ ReadsSources(x, k, e.to)
    \/ (IF e.member # None THEN {e.member} ELSE Holding(x, e.to)) \subseteq {k}

\* What is resolved. The walk starts at all sources of the rule. Gazelle manages
\* rules of packages with a program. No directive or workspace member names the
\* rule itself. The listing names a declaration, never the JavaScript beside it.
\* A config is a module, and was not read if it is an output.
Resolvable(x) ==
    /\ IsFiniteSet(Files) /\ Targets \subseteq Nat /\ None \notin Targets
    /\ x.me \in Targets /\ x.packages \subseteq Dirs
    /\ x.lists \in [Targets -> SUBSET Files] /\ x.roots = x.lists[x.me]
    /\ \A k \in Targets : x.kept[k] \subseteq x.lists[k]
    /\ \A k \in x.managed : x.home[k] \in x.packages
    /\ x.producer \in [Files -> Targets \cup {None}] /\ x.tree \in [Files -> Targets \cup {None}]
    /\ x.over \in [Files -> (Targets \ {x.me}) \cup {None}]
    /\ x.edges \subseteq [from : Files, to : Files \ x.twins, module : BOOLEAN,
                         member : (Targets \ {x.me}) \cup {None}]
    /\ x.config # None =>
         /\ x.config \in Files \ DeclarationFiles
         /\ IsGenerated(x, x.config) => \A e \in x.edges : e.from # x.config
    /\ \A e \in x.edges : x.over[e.to] # None => Directed(x, e, x.over[e.to])

\* Every import of a file compiled with the rule is one of its inputs, comes
\* from a dependency that will have it when the rules are written, is the
\* rule's own output, or is named in the log.  What becomes an input is no
\* other compiler rule's, and each file brings the package.json it is read by.
CompilesAlone(x, a, read) ==
    ~a.fatal =>
        /\ \A e \in x.edges : e.from \in read /\ e.to \in Ours =>
              \/ e.to \in a.srcs \cup a.reported
              \/ \E k \in a.deps : HandsOn(x, k, e.to) \/ k = e.member
              \/ HandsOn(x, x.me, e.to)
        /\ \A f \in a.srcs \ x.lists[x.me], k \in Targets \ {x.me} :
              x.kind[k] = "compile" /\ f \notin x.twins => ~Has(x, k, f)
        /\ \A f \in read : Scope(x, f) \in a.scopes \cup {None}
        /\ x.me \notin a.deps
        /\ x.kind[x.me] = "test" => TestRoots(x, a.srcs) \subseteq x.roots

\* Every module the config loads is staged beside it or named in the log.
LoadsAlone(x, a) ==
    LET loading == {e \in x.edges : /\ e.module /\ e.to \in Ours \ DeclarationFiles
                                   /\ e.member = None /\ ~IsGenerated(x, e.to)}
    IN  ~a.fatal /\ x.config # None =>
          \A f \in LedTo(Files, {x.config}, loading) \ {x.config} : f \in a.config \cup a.outside

IsSelfContained(x) ==
    LET a == Resolve(x) IN CompilesAlone(x, a, ReadRaw(x, a)) /\ LoadsAlone(x, a)

(* resolveEdges, edgeDep and configDep (gazelle/resolve.go): what a rule    *)
(* compiles or loads is among its inputs, its deps have it, or a log says so.*)
CompilationsAreSelfContained == consumer # None => IsSelfContained(consumer)
=============================================================================
