------------------------------ MODULE MCGazelle ------------------------------
(***************************************************************************)
(* What Gazelle computes between its callbacks, on one small repository.    *)
(* A state is either of a history - of edits and patched listings, or of    *)
(* merges and the questions asked of the output index - or one input of an   *)
(* algorithm, which the state keeps.                                        *)
(***************************************************************************)
EXTENDS OutputIndex, SourceOwners, Generation, ListingPatch, Discovery, VitestConfig,
        SourceExports, ProgramSelection, Resolution, Forwarding

CONSTANTS
    top, pkg, inner, away,       \* the root, a package, one inside it, another
    src, dts, js,                \* a source, a declaration, the JavaScript beside it
    beside, ts,                  \* a source beside src, the one beside dts and js
    libfile, datfile,            \* a library's file, a data file
    m0, ma, mb,                  \* the package.json files of top, pkg and inner
    gen, handmade, gentree,      \* an output, another output, an output directory
    pkgjson, x, cfg,             \* a scope, a library, a configuration
    lib, tst, dat, hand, e, v, wr,
    pub, priv, sub,              \* visibilities
    group, other, expr, absent, unset, f1, f2, dep, p1, p2

VARIABLE subject

Inner == {top, pkg, inner}
Parents == [i \in Dirs |-> IF i = inner THEN pkg ELSE top]
Homes == [f \in Files |-> CASE f \in {src, beside, ma} -> pkg [] f \in {ts, dts, js, mb, datfile, p1, p2, gen} -> inner [] OTHER -> top]

-----------------------------------------------------------------------------
Shadows == [f \in Files |-> IF f = dts THEN js ELSE None]
\* Walked, unread and excluded directories; programs that list each other's files.
Trees ==
    {w \in [listed   : {l \in [Dirs -> {{}, {src}, {src, dts}, {src, js, libfile}, {dts, ma, datfile}}] :
                          l[away] = {} /\ l[inner] # {src, dts}},
            present  : {Files \ {libfile, ts}, {dts, datfile}},
            observed : {Dirs, Dirs \ {inner}},
            walked   : {[i \in Dirs |-> CASE i = pkg -> z [] i = inner -> u [] OTHER -> y] :
                          y \in {"yes", "unset"}, z \in {"yes", "no", "unset"}, u \in {"yes", "no"}},
            foreign  : {{}, {inner}},
            outputs  : {{}, {js}},
            trees    : {{}, {datfile}, {src}},
            build    : {[i \in Dirs |-> IF i = pkg THEN y ELSE "none"] : y \in {"none", "ignore"}}] :
       \A i \in w.observed \ {away} : w.walked[i] # "unset"}

-----------------------------------------------------------------------------
Importable == {top, pkg, gen, handmade, gentree, pkgjson}
Probe(f) ==
    [what |-> IF f = pkgjson THEN "package" ELSE IF f = gentree THEN "directory" ELSE "file", path |-> f]
ProbeLists ==
    {[i \in DOMAIN l |-> Probe(l[i])] :
       l \in {<<pkg>>, <<gen, pkg>>, <<gentree, pkg>>, <<pkgjson, gen, pkg>>, <<handmade, gen>>,
              <<pkgjson, gentree, handmade>>, <<handmade, pkgjson, pkg>>}}
Block(f, n, p, ty) == [from |-> f, spec |-> "p", n |-> n, type |-> ty, probes |-> p]
Know(scalar, tree, over) ==
    [scalar |-> scalar, overridden |-> over,
     tree |-> [f \in Importable |-> IF f \in tree THEN dep ELSE None]]
\* The root imports a module in two modes, the module and the config one each.
Worlds ==
    {[roots |-> {top}, disk |-> {top, pkg, x} \cup y, retained |-> IF y = {} THEN {} ELSE {handmade},
      links |-> {[from |-> top, spec |-> "link", type |-> FALSE, to |-> z] : z \in y},
      blocks |-> {Block(top, 0, p[1], FALSE), Block(top, 1, p[2], FALSE),
                  Block(pkg, 0, <<Probe(gen), Probe(x)>>, FALSE), Block(cfg, 0, p[3], TRUE)},
      early |-> Know(k[1], {}, {}), final |-> Know(k[2], tr, ov)] :
        y \in {{}, {handmade}}, p \in ProbeLists \X ProbeLists \X {<<Probe(x)>>, <<Probe(gen), Probe(pkg)>>},
        k \in {<<{}, {gen}>>, <<{gen}, {}>>, <<{handmade}, {gen, handmade}>>},
        tr \in {{}, {gentree, pkgjson}}, ov \in {{}, {pkg}, {gen}}}

-----------------------------------------------------------------------------
Knowledge ==
    {k \in [program : BOOLEAN, package : BOOLEAN, library : {{}, {lib}}, test : {{}, {tst}},
            declaration : {{}}, data : {{}, {dat}}, app : {TRUE}, manifest : BOOLEAN,
            extended : {TRUE}, root : {TRUE}, vitest : {TRUE}, wrangler : {FALSE}] :
        k.package => k.program}
Old ==
    {None, [other |-> TRUE, keep |-> FALSE, vals |-> {hand}, kept |-> {}],
           [other |-> FALSE, keep |-> TRUE, vals |-> {hand}, kept |-> {}],
           [other |-> FALSE, keep |-> FALSE, vals |-> {lib, hand}, kept |-> {}],
           [other |-> FALSE, keep |-> FALSE, vals |-> {lib, hand}, kept |-> {hand}]}
BuildFiles ==
    {[n \in Owned |-> CASE n = "compile" -> y[1] [] n = "test" -> y[2]
                                [] n = "config" -> y[3] [] OTHER -> None] : y \in Old \X Old \X Old}
Rewrites ==
    {y \in [file : BuildFiles, early : Knowledge, final : Knowledge] :
       y.early.program /\ y.final.program /\ y.early.manifest = y.final.manifest /\ (y.early.data = {} \/ y.final.data = {})}

-----------------------------------------------------------------------------
Sorted == <<top, pkg, inner, away>>
Admitted == [i \in {pub, priv, sub} |-> IF i = priv THEN {} ELSE Dirs]
Export(i, f, vis, keep) == [dir |-> i, srcs |-> f, vis |-> vis, keep |-> keep]
\* The declarations of the root's file name what a new file's package will own.
ExportLists ==
    {{}} \cup {{Export(pkg, {mb, datfile}, vis, FALSE)} : vis \in {priv, pub}}
         \cup {{Export(top, y, vis, keep), Export(top, z, vis2, FALSE)} :
                 y \in {{ma, mb}, {datfile}}, z \in {{mb, datfile}, {m0}}, vis \in {priv, pub},
                 vis2 \in {priv, pub}, keep \in BOOLEAN}
Splits ==
    {y \in {[built |-> bu, added |-> ad, holds |-> ho, updated |-> ad \cup up, old |-> ex,
             default |-> [i \in Dirs |-> IF i = pkg THEN priv ELSE None], reads |-> rd] :
               bu \in {{top}, {top, pkg}, {}}, ad \in {{pkg}, {inner}, {pkg, inner}, {pkg, inner, away}},
               ho \in SUBSET {pkg, inner, away}, up \in {{}, {top}, {top, pkg}}, ex \in ExportLists,
               rd \in {{}, {[by |-> away, scope |-> mb]},
                       {[by |-> pkg, scope |-> mb], [by |-> top, scope |-> mb]}}} :
       /\ y.holds \subseteq y.added /\ y.added \cap y.built = {}
       /\ \A i \in y.old : /\ i.dir \in y.built
                           /\ \A f \in i.srcs : i.dir = Nearest(DirOf[f], y.built \cup {Root})}

-----------------------------------------------------------------------------
Rule(kind, keep, to) == [kind |-> kind, keep |-> keep, to |-> to]
Groups(i) ==
    {None, Rule("filegroup", FALSE, {<<i, 2>>}), Rule("filegroup", TRUE, {<<i, 2>>}),
     Rule("alias", FALSE, {<<i, other>>}), Rule("grouped", FALSE, expr),
     Rule("filegroup", TRUE, {<<i, 1>>, <<i, 2>>})}
Configured ==
    {[configs |-> [i \in Dirs |-> CASE i = top -> n[1] [] i = pkg -> n[2] [] i = inner -> n[3] [] OTHER -> {}],
      manifests |-> mm, packages |-> p,
      targets |-> [l \in Dirs \X {1, 2, group, other} |->
         CASE l = <<top, group>> -> gr [] l = <<pkg, group>> -> ga [] l = <<pkg, other>> -> al
           [] OTHER -> None],
      stored |-> w[1], hold |-> w[2]] :
        n \in {{}, {1, 2}} \X {{}, {2}} \X {{}, {1}}, mm \in {{}, {pkg}, {pkg, inner}}, p \in {{inner}, {pkg, inner}},
        gr \in Groups(top), ga \in Groups(pkg),
        al \in {None, Rule("alias", FALSE, {<<pkg, group>>}), Rule("output", FALSE, {<<inner, 1>>})},
        w \in {<<None, FALSE>>, <<expr, FALSE>>, <<expr, TRUE>>, <<absent, TRUE>>,
               <<<<pkg, other>>, TRUE>>, <<<<pkg, group>>, TRUE>>}}

-----------------------------------------------------------------------------
\* Rule 1 is resolved: it has src; rule 2 compiles inner, rule 3 generates gen.
Import(f, to, module, member) == [from |-> f, to |-> to, module |-> module, member |-> member]
Edges(member) ==
    {Import(src, p1, TRUE, member), Import(p1, p2, TRUE, None), Import(p1, dts, FALSE, None),
     Import(src, gen, TRUE, None), Import(p2, src, TRUE, None), Import(dts, p2, TRUE, None),
     Import(p2, handmade, TRUE, None)}
OneFile(f, n) == [i \in Files |-> IF i = f THEN n ELSE None]
Compilations ==
    {y \in {[me |-> 1, roots |-> {src},
      kind |-> <<IF cf = None THEN "compile" ELSE "test", "compile", "codegen", "other">>,
      home |-> <<pkg, inner, inner, inner>>, lists |-> <<{src}, li, {}, {}>>, kept |-> <<{}, ke, {}, {}>>,
      indexed |-> <<{src}, {p1}, {}, {}>>, managed |-> mg, mode |-> <<"emitted", mo, "opaque", "source">>,
      packages |-> {pkg, inner}, manifests |-> {top, inner}, withheld |-> wi, producer |-> pr,
      tree |-> OneFile(libfile, 3), over |-> OneFile(ov, 4), twins |-> {js}, edges |-> ed, config |-> cf] :
        ed \in UNION {{y \in SUBSET Edges(k) : Cardinality(y) \in {5, 7}} : k \in {None, 2}},
        mo \in {"emitted", "source", "unknown"}, li \in {{p1}, {p1, p2}, {p2, dts}, {gen, p1}},
        ke \in {{}, {p2}}, mg \in {{1}, {1, 2}}, wi \in {{}, {p2}},
        pr \in {OneFile(gen, 3), OneFile(libfile, 3)}, ov \in {libfile, p2}, cf \in {None, src}} :
       y.kept[2] \subseteq y.lists[2]}

-----------------------------------------------------------------------------
Following(kind, to, grouped) == [kind |-> kind, to |-> to, grouped |-> grouped, outs |-> {}, tree |-> FALSE]
Writing(outs, tree) == [kind |-> "other", to |-> {}, grouped |-> FALSE, outs |-> outs, tree |-> tree]
ForwardsOf(l) == {Following("alias", {l}, FALSE), Following("filegroup", {l}, FALSE), Following("ts_config", {l}, FALSE)}
FirstTargets == ForwardsOf(other) \cup {Following("filegroup", {other, lib}, FALSE), Following("filegroup", {other, lib}, TRUE),
                                        Following("filegroup", {x, f1}, FALSE)}
OtherTargets ==
    {None, Following("alias", expr, FALSE), Following("filegroup", {lib, f1}, FALSE), Writing({f2}, FALSE)}
        \cup ForwardsOf(group) \cup ForwardsOf(lib)
LastTargets ==
    {None, Following("filegroup", {f1, x}, FALSE), Writing({}, FALSE), Writing(expr, FALSE), Writing({f2}, TRUE)}
        \cup ForwardsOf(f1) \cup ForwardsOf(group) \cup ForwardsOf(other)
Attributes ==
    {[targets |-> [l \in Labels |->
         CASE l = group -> y [] l = other -> z [] l = lib -> u [] OTHER -> None],
      srcs |-> sr, config |-> group, listed |-> li] :
        y \in FirstTargets, z \in OtherTargets, u \in LastTargets,
        sr \in {{group}, {group, lib}, {other, x}, expr}, li \in {<<>>, [l \in {lib} |-> f1]}}

-----------------------------------------------------------------------------
\* A source with its declaration and its JavaScript, and a module of the package.
Modules == {ts, dts, js, src}
Stems == [f \in Files |-> CASE f = ts -> {dts, js} [] f = dts -> {js} [] OTHER -> {}]

Checkouts ==
    {[home |-> i, manifests |-> {top, pkg}, importers |-> im, config |-> co, tsgo |-> TRUE,
      disk |-> di, producer |-> [f \in Files |-> IF f \in ge[1] THEN ge[2] ELSE None],
      trees |-> tr, listed |-> li, hidden |-> hi, imports |-> {<<src, ts>>, <<src, dts>>},
      wild |-> wi, asked |-> {ts, dts, src}, chosen |-> ch] :
        i \in {top, pkg}, im \in {{top, pkg}, {top}},
        co \in {"authored", "unbounded", "manifest", "broken"},
        di \in {Modules, {dts, js, src}, {ts, js}, {src}},
        ge \in (SUBSET {ts, dts, js}) \X {pkg, inner}, tr \in {{}, {<<inner, pkg>>}},
        li \in {{}, {src}, {dts, src}}, hi \in {{}, {ts}}, wi \in {{}, {js}}, ch \in {"own", "other"}}

-----------------------------------------------------------------------------
\* Two rules of a package, one of which the root may take a file from; an
\* output lies below the package.
RuleHomes == <<top, pkg, pkg>>
OutputPlaces == [f \in {f1, f2} |-> IF f = f1 THEN inner ELSE pkg]
RuleOutputs == <<{{}, {f1}}, {{}, {f1}, {f1, f2}}, {{f1}}>>

-----------------------------------------------------------------------------
\* src and beside are roots, js is reached by an import alone and lives in a
\* directory of its own, where "helper" means nothing.
Classes == [f \in {src, beside, js} |-> "x"]
spec(mode, text) == [mode |-> mode, text |-> text]
OneMode == {spec("import", "dep"), spec("import", "helper")}
\* A package whose exports tell import from require.
TwoModes == {spec("import", "dep"), spec("require", "dep")}
Answer ==
    [y \in {<<pkg, "x">>, <<inner, "x">>} \X (OneMode \cup TwoModes) |->
       CASE y[2] = spec("import", "dep") -> libfile
         [] y[2] = spec("require", "dep") -> datfile
         [] OTHER -> IF y[1] = <<pkg, "x">> THEN js ELSE None]

-----------------------------------------------------------------------------
\* What the theorems suppose of an input, and of what all inputs share.
ASSUME InputsAssumption ==
    /\ StemsAreOrdered /\ \A y \in Checkouts : Checkout(y)
    /\ \A y \in Worlds : World(y)
    /\ \A y \in Splits : Splitting(y)
    /\ \A y \in Configured : Repository(y)
    /\ \A y \in Compilations : Resolvable(y)
    /\ \A y \in Attributes : Attributed(y)

-----------------------------------------------------------------------------
inputs == <<found, directory, checkout, configured, split, world, consumer, attributes>>
Only(t, d, c, r, s, w, q, a) ==
    /\ found = t /\ directory = d /\ checkout = c /\ configured = r /\ split = s /\ world = w
    /\ consumer = q /\ attributes = a
NoInput == Only(None, None, None, None, None, None, None, None)
NoIndex ==
    /\ list = None /\ decl = None /\ cache = None /\ running = FALSE /\ imports = {} /\ asked = None
NoPatch == content = None /\ touched = {} /\ entry = None

\* An input of an algorithm, one of all.
Input ==
    \/ \E y \in Trees : Only(y, None, None, None, None, None, None, None) /\ subject = [of |-> "owners"]
    \/ \E y \in Rewrites : Only(None, y, None, None, None, None, None, None) /\ subject = [of |-> "rules"]
    \/ \E y \in Checkouts : Only(None, None, y, None, None, None, None, None) /\ subject = [of |-> "discovery"]
    \/ \E y \in Configured : Only(None, None, None, y, None, None, None, None) /\ subject = [of |-> "vitest"]
    \/ \E y \in Splits : Only(None, None, None, None, y, None, None, None) /\ subject = [of |-> "exports"]
    \/ \E y \in Worlds : Only(None, None, None, None, None, y, None, None) /\ subject = [of |-> "program"]
    \/ \E y \in Compilations : Only(None, None, None, None, None, None, y, None) /\ subject = [of |-> "deps"]
    \/ \E y \in Attributes : Only(None, None, None, None, None, None, None, y) /\ subject = [of |-> "labels"]

GazelleInit ==
    \/ subject = [of |-> "index"] /\ Init /\ NoPatch /\ NoInput
    \/ subject = [of |-> "patch"] /\ PatchInit /\ NoIndex /\ NoInput
    \/ Input /\ NoIndex /\ NoPatch

GazelleNext ==
    /\ UNCHANGED <<subject, inputs>>
    /\ \/ subject.of = "index" /\ Next /\ UNCHANGED patchVars
       \/ subject.of = "patch" /\ PatchNext /\ UNCHANGED vars

\* The histories of one patched listing.
PatchHistories ==
    /\ subject = [of |-> "patch"] /\ PatchInit /\ NoIndex /\ NoInput
    /\ [][GazelleNext]_<<subject, inputs, vars, patchVars>>
GazelleSpec == GazelleInit /\ [][GazelleNext]_<<subject, inputs, vars, patchVars>>

=============================================================================
