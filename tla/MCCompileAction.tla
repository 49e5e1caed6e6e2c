--------------------------- MODULE MCCompileAction ---------------------------
(* Three families of compile actions: those that place files at the same    *)
(* coordinates, those that look a name up along chains of importers, and     *)
(* those whose sources are excluded or reach what others own; and the editor      *)
(* projects of programs with a generated directory or file.                  *)
EXTENDS CompileAction, Naturals

CONSTANTS
    A, B, D, M, X, C,               \* coordinates: two sources, a declaration,
                                    \* a manifest, an output, tsconfig.json
    a, b, genA, genB, d, m,         \* sources and generated ones
    outD, outD2, outX, outX2, js, outM, asBuilt, asBuilt2,
    tree1, tree2, tree3, tree4, treeDir,
    n, dep, far, none, config

CoordinateOf ==
    [f \in {a, b, genA, genB, d, m, outD, outD2, outX, outX2, js, outM, asBuilt,
            asBuilt2, tree1, tree2, tree3, tree4, treeDir, none, config} |->
       CASE f \in {a, genA} -> A [] f \in {b, genB} -> B [] f = config -> C
         [] f \in {d, outD, outD2} -> D [] f \in {m, outM, asBuilt, asBuilt2} -> M
         [] f \in {outX, outX2, js} -> X [] OTHER -> none]
AllFiles == DOMAIN CoordinateOf \ {none, config}
In == [f \in AllFiles |-> IF f \in {outX, outX2} THEN treeDir ELSE none]

DirA == <<"a">>  DirAB == <<"a", "b">>  DirC == <<"c">>  DirCD == <<"c", "d">>
AllDirs == {<<>>, DirA, DirAB, DirC, DirCD}

Lists(S, k) == UNION {{s \in [1..i -> S] : \A x, y \in 1..i : x # y => s[x] # s[y]} :
                        i \in 0..k}
Imp(where, t) == [dir |-> where, links |-> [x \in {n} |-> t]]

Base ==
    [sources |-> <<a>>, importers |-> <<Imp(<<>>, tree1)>>, inherited |-> <<>>,
     overlays |-> <<>>, manifests |-> <<>>, copies |-> <<>>, verify |-> FALSE,
     discover |-> FALSE,
     imports |-> [f \in AllFiles |-> IF f = a THEN {D, M, X} ELSE {}],
     home |-> [f \in AllFiles |-> DirAB], exclude |-> {}, json |-> {m},
     check |-> TRUE, own |-> {a}, direct |-> {dep},
     owners |-> [f \in AllFiles |->
                   IF f \in {outD2, asBuilt2, tree4} THEN {far}
                   ELSE IF f \in {outX, outX2, a, b, genA, genB} THEN {} ELSE {dep}]]

On(f) == [file |-> f, at |-> CoordinateOf[f]]

Placing ==
    {[Base EXCEPT !.sources = s, !.overlays = o, !.manifests = p, !.copies = c,
                  !.verify = v, !.discover = v, !.check = (c = <<>> /\ ~v),
                  !.own = {a, b, genA} \cap AsSet(s)] :
        s \in {<<a>>, <<b, a>>, <<d, a, m>>, <<a, genA>>, <<genA, d>>},
        o \in Lists({On(f) : f \in {outD, outD2, genA, outM, outX, outX2, js}}, 2),
        p \in Lists({On(asBuilt), On(asBuilt2)}, 2),
        c \in {<<>>, <<b>>, <<m, d>>, <<genB, b>>}, v \in BOOLEAN}

Chains ==
    {[Base EXCEPT !.importers = i, !.inherited = h, !.imports[a] = {n},
                  !.home = [f \in AllFiles |-> e]] :
        i \in UNION {{<<Imp(<<>>, r)>>, <<Imp(DirAB, s), Imp(<<>>, r)>>,
                      <<Imp(DirAB, s), Imp(DirA, t), Imp(<<>>, r)>>,
                      <<Imp(DirAB, s), Imp(DirC, t), Imp(<<>>, r)>>,
                      <<Imp(DirAB, s), Imp(DirC, none), Imp(DirA, t), Imp(<<>>, r)>>,
                      <<Imp(DirAB, none), Imp(DirC, s), Imp(DirA, t), Imp(<<>>, r)>>,
                      <<Imp(DirAB, s), Imp(DirCD, t), Imp(<<>>, r)>>,
                      <<Imp(DirA, s), Imp(DirC, t), Imp(DirA, r)>>} :
                        r \in {tree1, none}, s \in {tree2, none}, t \in {tree3, none}},
        h \in UNION {{<<>>, <<Imp(DirCD, t)>>, <<Imp(DirCD, t), Imp(DirC, u)>>,
                      <<Imp(DirC, t), Imp(DirCD, u)>>} :
                        t \in {tree4, none}, u \in {tree1, none}},
        e \in {DirAB, DirCD}}

Owning ==
    {[Base EXCEPT !.sources = <<a, b, m>>, !.overlays = <<On(outD), On(outX)>>,
                  !.own = w, !.exclude = e, !.imports[a] = i, !.imports[b] = j,
                  !.owners[outD] = o, !.owners[treeDir] = x, !.check = k] :
        w \in {{a, b}, {a, b, m}}, e \in SUBSET {a, b, m}, i \in {{D}, {B}, {X}},
        j \in {{}, {X}, {A, D}}, o \in SUBSET {dep, far}, x \in {{far}, {far, dep}, {}},
        k \in BOOLEAN}

AllActions ==
    Placing \cup Owning
      \cup {x \in Chains : WellDeclared(x)}

\* Bound: what the action may declare when it starts again.
Again == {[Base EXCEPT !.overlays = <<On(outD)>>],
          [Base EXCEPT !.sources = <<genA>>, !.own = {genA}, !.importers = <<Imp(<<>>, tree2)>>]}

-----------------------------------------------------------------------------
VARIABLE project    \* a program an editor project is written for, or none

Editor == INSTANCE EditorProject WITH
    FileNamed <- [i \in {"v", "a", "g", "gen", "own"} |-> i \o ".d"], Index <- "index.d", None <- none

Src(i) == <<"src", i>>
Gen(i) == <<"src", "gen", i>>
One == Editor!Source(<<"one.d">>)
Two == Editor!Source(<<"two.d">>)

\* Aliases of the sources, of the generated directory and of the generated file.
Aliases ==
    LET S(i) == Editor!Source(Src(i))  G(i) == Editor!Source(Gen(i))  O(i) == Editor!Out(Src(i)) IN
    {<<<<"#s", "*">>, v>> : v \in {<<S("*")>>, <<Editor!Source(<<"lib", "*">>), S("*")>>,
                                  <<Editor!Source(<<"src", "*", "v">>)>>}}
    \cup {<<<<"#s", "gen", "*">>, <<G("*"), S("*")>>>>}
    \cup {<<<<"#g">>, v>> : v \in {<<S("g")>>, <<S("g.d")>>, <<G("v"), S("g")>>, <<O("g"), S("a")>>,
                                  <<O("a"), S("g")>>, <<S("gen")>>, <<S("gen.d"), S("gen")>>}}
Texts == {<<"#g">>} \cup {<<"#s">> \o t :
            t \in {<<"gen", "v">>, <<"gen">>, <<"g">>, <<"a">>, <<"gen", "own">>, <<"g.d">>, <<"gen", "v.d">>,
                    <<"a", "..", "gen", "v">>, <<"gen", "..", "a">>}}
Import(f, r, t, s) == [from |-> f, relative |-> r, text |-> t, strict |-> s, package |-> FALSE]

\* One import, and perhaps another by the same name in a stricter mode.
Aliased ==
    UNION {{[imports |-> {Import(One, FALSE, t, FALSE)} \cup (IF s THEN {Import(Two, FALSE, t, TRUE)} ELSE {}),
              paths |-> [i \in {x[1]} |-> x[2]], nodenext |-> s] :
              t \in {u \in Texts : Head(u) = Head(x[1])}, s \in BOOLEAN} : x \in Aliases}
Relative ==
    {[imports |-> {Import(f, TRUE, t, FALSE)}, paths |-> <<>>, nodenext |-> FALSE] :
       f \in {Editor!Source(Gen("x.d")), Editor!Out(Gen("x.d")), Editor!Source(Src("c.d"))},
       t \in {<<"gen", "v">>, <<"v">>, <<"..", "a">>, <<"g">>, <<"own">>, <<"a">>, <<"..", "gen">>}}


\* An authored file beside the generated directory, in it, and elsewhere; what
\* is built and what an earlier build left.
ProjectInit ==
    \E g \in SUBSET {Src("g.d")}, t \in SUBSET {Src("gen")}, s \in SUBSET {Src("a.d"), Src("gen.d"), Gen("own.d")},
       p \in Aliased \cup Relative, o \in BOOLEAN :
       LET within == IF t = {} THEN {} ELSE {Gen("v.d"), Gen("index.d")}
           x == IF t = {} THEN {} ELSE {Gen("x.d")} \cup ({Gen("own.d")} \cap s)
       IN \E w \in SUBSET (g \cup within) :
            /\ project = [srcs |-> {<<"one.d">>, <<"two.d">>, Src("c.d")} \cup s, files |-> g, trees |-> t,
                          built |-> w \cup x, gone |-> (g \cup within) \ w, overlaid |-> o,
                          paths |-> p.paths, imports |-> p.imports, nodenext |-> p.nodenext]
            /\ \A i \in p.imports : Editor!InProgram(project, i.from)

ToolInit ==
    \/ project = none /\ Init
    \/ ProjectInit /\ act = None /\ phase = "" /\ left = <<>> /\ tree = <<>> /\ modules = <<>>
       /\ changed = {} /\ listing = NoListing /\ stamp = FALSE /\ attempts = 0
ToolNext == project = none /\ Next /\ UNCHANGED project
ToolSpec == ToolInit /\ [][ToolNext]_<<project, vars>>

(* The alias projection of the editor (editor.go): see SelectsWhatIsBuilt.   *)
EditorSelectsTheCompilers == project # none => Editor!SelectsWhatIsBuilt(project)
=============================================================================
