---------------------------- MODULE MCRuntimeView ----------------------------
(* Two families of views: entries that overlap or lead to one artifact, and  *)
(* modules in nested directories that ask for a package.  The numbers are    *)
(* names, in the order they sort.                                            *)
EXTENDS RuntimeView, TLC

CONSTANTS f1, f2, alias1, pkg1, pkg2, tree1, tree2, tree3, blank, none

ws == 1  app == 2  sub == 3  x == 4  nm == 5  n == 6  st == 7  y == 8

W == <<ws>>  App == <<ws, app>>  Sub == <<ws, app, sub>>
AllFiles == {f1, f2, alias1, pkg1, pkg2}
Held == [t \in {tree1, tree2, tree3} |->
           IF t = tree1 THEN [i \in {x} |-> f1] ELSE [i \in {y} |-> pkg1]]

At(p, i) == Append(p, i)
ModulesOf(d) == {At(d, nm), At(d, nm) \o <<n>>, At(d, nm) \o <<n, y>>, At(d, nm) \o <<n, x>>, At(d, nm) \o <<y>>,
                 At(d, nm) \o <<x>>}
AllPaths ==
    {<<>>, W, App, Sub, <<ws, st>>, <<ws, st, 1>>, <<ws, st, 1, x>>, <<ws, st, 2>>,
     <<ws, st, 2, y>>, <<ws, x>>, <<ws, x, x>>, <<ws, y>>, <<ws, y, x>>}
      \cup {At(d, i) : d \in {App, Sub}, i \in {x, y}}
      \cup UNION {ModulesOf(d) : d \in {W, App, Sub}}

\* The entries at the paths d: the targets o, where there is one.
Given(d, o) ==
    [p \in {d[i] : i \in {j \in DOMAIN o : o[j] # none}} |->
       o[CHOOSE i \in DOMAIN o : d[i] = p]]
Bound(s) == [i \in {n} |-> s]
Base ==
    [native |-> TRUE, entries |-> <<>>, modules |-> {}, nodeModules |-> none,
     alias |-> [f \in AllFiles |-> IF f = alias1 THEN f1 ELSE f], contexts |-> <<>>]

\* A directory or file, what lies beneath it, and two that may lead there.
A == <<ws, x>>  AX == <<ws, x, x>>  B == <<ws, y>>  BX == At(App, x)
Overlapping ==
    {[Base EXCEPT !.native = v, !.modules = m,
        !.entries = Given(<<A, AX, B, BX>>, o)] :
        v \in BOOLEAN, m \in SUBSET {A, B, BX} \cup {{AX}},
        o \in {none, blank, f1, tree1} \X {none, blank, f1, f2}
                \X {none, f1, f2, A, tree1, alias1} \X {none, f1, alias1, A, B}}
Sound(v) ==
    /\ \A m \in v.modules : m \in DOMAIN v.entries /\ v.entries[m] \notin {tree1, A, B}
    /\ ~v.native => \A p \in DOMAIN v.entries : v.entries[p] # alias1

\* A module in each directory, a package scope, links and directories in the
\* places of node_modules.
S1 == <<ws, st, 1>>  S2 == <<ws, st, 2>>
WN == At(W, nm)  AN == At(App, nm)  SN == At(Sub, nm)
Modules3 == <<<<ws, x>>, At(App, x), At(Sub, x)>>
AskingPaths ==
    <<S1, S2>> \o Modules3 \o <<At(App, y), WN \o <<n>>, AN, AN \o <<n>>, SN>>
AsSet(q) == {q[i] : i \in DOMAIN q}
Asking ==
    {[Base EXCEPT
        !.native = v, !.modules = AsSet(Modules3), !.nodeModules = c,
        !.entries = Given(AskingPaths,
                          <<tree1, tree2, f1, f2, pkg2, pkg1>> \o o),
        !.contexts = [i \in 1..3 |->
            [module |-> Modules3[i], bindings |-> Bound(b[i]),
             scope |-> IF i = 3 /\ e # none THEN At(App, y) ELSE none,
             scoped |-> Bound(e)]]] :
        v \in BOOLEAN, c \in {none, AN},
        o \in {none, S1, S2} \X {none, tree3, blank, WN}
                \X {none, S1} \X {none, tree3, AN},
        b \in {none, S1} \X {none, S1, S2} \X {none, S1, S2},
        e \in {none, S2}}

AllViews == {v \in Overlapping : Sound(v)} \cup {v \in Asking : v.nodeModules = none \/ v.contexts[3].scope = none}

=============================================================================
