---------------------------- MODULE MCResolving ----------------------------
(***************************************************************************)
(* What Gazelle settles when it resolves dependencies: the published rules  *)
(* of one update, or the dependencies of one rule that stay.                *)
(* Emission runs over every graph on three labels of the shapes named       *)
(* below.  Minimize has three dependencies, the last of them behind a link  *)
(* of node_modules, and a program that only the walk for scopes reaches;    *)
(* the owners form any graph without cycles.                               *)
(***************************************************************************)
EXTENDS Emission, Minimize

CONSTANTS
    ra, rb, rc,                     \* labels
    k1, k2, k3, k4, link, none,     \* programs, the link, no key
    f1, f2, scope                   \* files

Nodes == {ra, rb, rc}
LabelGraphs == {d \in [Nodes -> SUBSET Nodes] : \A t \in Nodes : t \notin d[t]}

\* Three programs of the update; ra runs, or package.json names its output.
CompilerPrograms ==
    {[kind |-> [t \in Nodes |-> "compiler"], written |-> Nodes, pinned |-> {},
      mode |-> [t \in Nodes |-> "source"], raw |-> Nodes, vague |-> {},
      deps |-> d, programs |-> Nodes, asks |-> k, live |-> k,
      consumers |-> IF run THEN {ra} ELSE {}, roots |-> IF run THEN {} ELSE {ra}]
       : d \in LabelGraphs, k \in LabelGraphs, run \in BOOLEAN}

\* What a label may be: what the update writes, keeps, or only reads.
Classes == {"program", "kept emit", "kept library", "kept raw", "foreign",
            "expression", "proto", "alias", "select", "binary"}
Rules(Cls) ==
    {[kind |-> [t \in Nodes |->
                   CASE cl[t] \in {"proto", "alias"} -> cl[t]
                     [] cl[t] = "binary" -> "other"
                     [] OTHER -> "compiler"],
      written |-> {t \in Nodes : cl[t] \in {"program", "kept emit", "select",
                                         "binary"}},
      pinned |-> {t \in Nodes : cl[t] = "kept emit"},
      mode |-> [t \in Nodes |->
                   CASE cl[t] = "foreign" -> "emitted"
                     [] cl[t] = "expression" -> "unknown"
                     [] OTHER -> "source"],
      raw |-> {t \in Nodes : cl[t] \in {"program", "kept raw", "foreign",
                                     "select"}},
      vague |-> {t \in Nodes : cl[t] = "select"},
      deps |-> d,
      programs |-> {t \in Nodes : cl[t] \in {"program", "kept emit"}},
      asks |-> d, live |-> d,
      consumers |-> {ra}, roots |-> r]
       : cl \in {f \in [Nodes -> Classes] : f[ra] \in Cls},
         d \in LabelGraphs, r \in {{}, {rb}}}
\* An alias has one actual.
Aliased(S) == {x \in S : \A t \in Nodes :
                  x.kind[t] = "alias" => \A u, v \in x.deps[t] : u = v}
Mixed  == Aliased(Rules({"program", "binary"}))

Every == CompilerPrograms \cup Mixed

------------------------------------------------------------------------------
Three == 1..3
AllPrograms == {k1, k2, k3, k4}
AllFiles == {f1, f2, scope}
Reading(f) == [d \in Three |-> {<<f, f1>>}]

Below == {<<k1, k2>>, <<k1, k3>>, <<k2, k3>>}
Graphs == {[k \in AllPrograms |-> {l \in AllPrograms : <<k, l>> \in e}] :
             e \in SUBSET Below}

Base ==
    [deps |-> Three, unconditional |-> {}, edges |-> Reading(f1),
     key |-> <<k1, k2, link>>, program |-> <<k1, k2, k3>>,
     static |-> Three, npm |-> {}, declaration |-> {}, json |-> {},
     codegen |-> [f \in AllFiles |-> none],
     joined |-> AllPrograms, borrowed |-> [k \in AllPrograms |-> {}],
     inputs |-> [k \in AllPrograms |-> [f \in AllFiles |-> Absent]],
     targets |-> [k \in AllPrograms |-> {}],
     children |-> [k \in AllPrograms |-> {}], self |-> none, roots |-> {},
     demands |-> [f \in AllFiles |-> Unasked]]

\* Owners with the graph g, sources s and scopes c; k4 is under k3.
With(g, s, cl) ==
    [Base EXCEPT
        !.targets = [k \in AllPrograms |->
                       g[k] \cup (IF k3 \in g[k] THEN {link} ELSE {})],
        !.children = [k \in AllPrograms |->
                       g[k] \cup (IF k = k3 THEN {k4} ELSE {})],
        !.inputs = [k \in AllPrograms |-> [f \in AllFiles |->
                       IF f = scope THEN cl[k]
                       ELSE IF f \in s[k] THEN Source ELSE Absent]]]

Deps3 == {k1, k2, k3}
Over(S) == {[k \in AllPrograms |-> IF k = k4 THEN {} ELSE x[k]] : x \in [Deps3 -> S]}
Scopes(S) == {[k \in AllPrograms |-> IF k = k4 THEN Scope ELSE x[k]] : x \in [Deps3 -> S]}
All(v) == [k \in AllPrograms |-> v]

\* No edge reads the scope.
Free ==
    {[With(g, s, cl) EXCEPT !.joined = j, !.demands[scope] = Scope] :
        g \in Graphs, s \in Over({{}, {f1}}), cl \in Scopes({Scope, Absent}),
        j \in {AllPrograms, {k1, k3}}}
\* Some may, so that the first claim counts.
Ordered ==
    {[With(g, All({f1}), cl) EXCEPT !.edges = e, !.demands[scope] = CompilerInput] :
        g \in Graphs, cl \in Scopes({Source, Scope, Absent}),
        e \in [Three -> {{<<f1, f2>>}, {<<scope, f2>>}}]}
\* Dependencies that read different files; the second may be needed anyway.
Apart ==
    {[With(g, s, All(Absent)) EXCEPT !.edges = e, !.unconditional = u] :
        g \in Graphs, s \in Over({{f1}, {f1, f2}}),
        e \in [Three -> {{<<f1, f1>>}, {<<f2, f1>>}}], u \in {{}, {2}}}
\* The third dependency is a ts_codegen; it writes what the first reads, which
\* is JSON or a source.  Sources may also be declarations, or borrowed.
Generated ==
    {[With(g, s, All(Absent)) EXCEPT
        !.program[3] = none, !.static = {1, 2}, !.json = j, !.codegen[f2] = link,
        !.targets = All({k2, link}), !.joined = {}, !.declaration = d,
        !.borrowed = [k \in AllPrograms |-> w], !.edges[3] = {<<f1, f2>>},
        !.roots = r] :
        r \in {{}, {f2}}, g \in Graphs, s \in Over({{f1}, {f1, f2}}), j \in {{}, {f2}},
        d \in {{}, {f1}}, w \in {{}, {f2}}}
\* The consumer is met again below one of its dependencies.
Again ==
    {[i EXCEPT !.self = k3] : i \in {f \in Free : f.joined = AllPrograms}}

AllInputs == Free \cup Ordered \cup Apart \cup Generated \cup Again

------------------------------------------------------------------------------
\* The part that does not run has finished.
NoUpdate ==
    /\ build = None /\ seen = {} /\ required = {} /\ emit = {} /\ work = {} /\ pending = {}
    /\ running = << >> /\ phase = "none" /\ verdict = "none" /\ read = {}
NoConsumer ==
    /\ input = [deps |-> {}] /\ retained = {} /\ todo = {} /\ called = {}
    /\ supply = NoSupply /\ walkComplete = FALSE

ResolvingInit ==
    \/ Init /\ NoConsumer
    \/ MinimizeInit /\ NoUpdate

ResolvingNext ==
    \/ build # None /\ Next /\ UNCHANGED minimizeVars
    \/ build = None /\ MinimizeNext /\ UNCHANGED vars

Resolving ==
    ResolvingInit /\ [][ResolvingNext]_<<vars, minimizeVars>>
        /\ WF_<<vars, minimizeVars>>(ResolvingNext)
===============================================================================
