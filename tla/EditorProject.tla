---------------------------- MODULE EditorProject ----------------------------
(***************************************************************************)
(* The project an editor opens (ts/tools/tsaction/editor.go): the compiler   *)
(* finds generated files in its program root and in the output tree; the     *)
(* editor sees the checkout, where outputs of earlier builds may lie at the  *)
(* same coordinates.  The aliases of the tsconfig are pointed at the output  *)
(* tree so that both select the same files, or the project is refused.       *)
(* A path is a sequence of names, "*" one of them; a location is a path of   *)
(* the sources or of the output tree.                                        *)
(***************************************************************************)
EXTENDS Naturals, Sequences, SequencesExt

CONSTANTS
    FileNamed,   \* the last name of an import -> the name of the file it means
    Index,       \* the file a directory is imported as
    None

Source(p)  == [out |-> FALSE, path |-> p]
Out(p) == [out |-> TRUE, path |-> p]
Npm    == Source(<<"node_modules">>)

\* path.Join cleans what it joins.
Clean(p) ==
    FoldLeft(LAMBDA done, n : IF n = "." THEN done
                              ELSE IF n = ".." THEN Front(done) ELSE Append(done, n), <<>>, p)
Replaced(p, middle) == FlattenSeq([i \in DOMAIN p |-> IF p[i] = "*" THEN middle ELSE <<p[i]>>])
Relocated(v, middle) == [v EXCEPT !.path = Clean(Replaced(@, middle))]
Under(dir, p) == IsPrefix(dir, p)

-----------------------------------------------------------------------------
(* What the action knows: w.srcs, the authored sources; w.files and w.trees, *)
(* the generated files and directories; w.paths, the aliases of the config,  *)
(* each with its values in order; w.built, what is in the output tree.       *)
Authored(w, l) == ~l.out /\ l.path \in w.srcs
IsGenerated(w, l) == ~l.out /\ (l.path \in w.files \/ \E d \in w.trees : Under(d, l.path))
GeneratedPathOfAll(w, l) == IF IsGenerated(w, l) THEN Out(l.path) ELSE l
GeneratedPath(w, l) == IF IsGenerated(w, l) /\ ~Authored(w, l) THEN Out(l.path) ELSE l

\* An exact key, or the pattern of the longest prefix.
AliasOwner(keys, s) ==
    IF s \in keys THEN s
    ELSE LET matching == {k \in keys : /\ Last(k) = "*" /\ Len(k) <= Len(s)
                                       /\ IsPrefix(Front(k), s)}
         IN  IF matching = {} THEN None
             ELSE CHOOSE k \in matching : \A o \in matching : Len(o) <= Len(k)
Middle(k, s) == IF k = s THEN <<"*">> ELSE SubSeq(s, Len(k), Len(s))
Values(paths, s) ==
    LET k == AliasOwner(DOMAIN paths, s)
    IN  IF k = None THEN <<>> ELSE [i \in DOMAIN paths[k] |-> Relocated(paths[k][i], Middle(k, s))]

-----------------------------------------------------------------------------
(* Module resolution.  An import i has the importer's location, as seen by   *)
(* the compiler, whether it is relative, its text, and whether its mode      *)
(* demands file names in full.                                               *)
FileNames == {FileNamed[n] : n \in DOMAIN FileNamed} \cup {Index}

Probes(l, strict) ==
    LET last == Last(l.path)
    IN  IF last \in FileNames THEN <<l>>
        ELSE IF strict THEN <<>>
        ELSE (IF last \in DOMAIN FileNamed
              THEN <<[l EXCEPT !.path = Append(Front(@), FileNamed[last])]>> ELSE <<>>)
             \o <<[l EXCEPT !.path = Append(@, Index)]>>

\* Which file, for which place that was asked for.
Tries(places, strict) ==
    FlattenSeq([i \in DOMAIN places |->
                  [j \in DOMAIN Probes(places[i], strict) |->
                     [file |-> Probes(places[i], strict)[j], place |-> places[i], nth |-> i]]])

\* paths: a value, then its twin in the output tree, unless it names that.
WithTwins(places) ==
    FlattenSeq([i \in DOMAIN places |->
                  IF places[i].out THEN <<places[i]>> ELSE <<places[i], Out(places[i].path)>>])
FirstOf(found) == IF found = {} THEN 0 ELSE Min(found)
Joined(from, text) == [from EXCEPT !.path = Clean(Front(@) \o text)]

CompilerPlaces(w, i) ==
    IF i.relative
    THEN LET l == Joined(i.from, i.text) IN <<l, [l EXCEPT !.out = ~@]>>
    ELSE WithTwins(Values(w.paths, i.text))

\* Outputs of dependencies are linked beside the sources, but never over one.
Overlaid(w, l) == ~l.out /\ w.overlaid /\ l.path \in w.built \ w.srcs
Listed(w, l) == IF Overlaid(w, l) THEN Out(l.path) ELSE l
InProgram(w, l) == IF l.out THEN l.path \in w.built ELSE Authored(w, l) \/ Overlaid(w, l)

\* What the compiler lists of an import.
Resolution(w, i, tries, k) ==
    [from |-> Listed(w, i.from), relative |-> i.relative, text |-> i.text,
     to |-> IF k # 0 THEN Listed(w, tries[k].file)
            ELSE IF i.package /\ ~i.relative THEN Npm ELSE None,
     \* The values are counted in pairs, as if each had its twin.
     implicit |-> /\ k # 0
                  /\ \/ tries[k].nth % 2 = 0
                     \/ Overlaid(w, tries[k].file) /\ GeneratedPath(w, tries[k].file).out,
     missed |-> {tries[n] : n \in IF k = 0 THEN DOMAIN tries ELSE 1..(k - 1)}]
ResolutionAmong(w, i, tries) ==
    Resolution(w, i, tries, FirstOf({n \in DOMAIN tries : InProgram(w, tries[n].file)}))
Resolved(w, i) == ResolutionAmong(w, i, Tries(CompilerPlaces(w, i), i.strict))

-----------------------------------------------------------------------------
(* The refusals.                                                            *)

\* checkEditorReferenceCandidates, and the boundary relative imports cross.
RelativeRefused(w, r) ==
    /\ r.relative
    /\ \/ \E t \in r.missed : GeneratedPath(w, t.file) # t.file
       \/ r.to = None /\ GeneratedPath(w, Joined(r.from, r.text)) # Joined(r.from, r.text)
       \/ r.to # None /\ r.from.out # r.to.out

\* A generated directory was asked for and an authored file beside it found.
SiblingRefused(w, r) ==
    LET places == Values(w.paths, r.text)
    IN  \E i \in DOMAIN places :
          /\ \A j \in 1..i : places[j] # r.to
          /\ ~places[i].out /\ places[i].path \in w.trees
          /\ Last(places[i].path) \in DOMAIN FileNamed
          /\ r.to = Source(Append(Front(places[i].path), FileNamed[Last(places[i].path)]))

\* checkEditorAliasBoundary: text that leaves or enters a directory by "..".
BoundaryRefused(w, paths, text) ==
    LET k == AliasOwner(DOMAIN paths, text)
    IN  k # None /\ \E d \in w.trees, i \in DOMAIN paths[k] :
          LET v == paths[k][i]
              target == Relocated(v, Middle(k, text))
          IN  /\ ~Authored(w, target)
              /\ \/ ~v.out /\ Under(d, target.path)
                 \/ v.out /\ Under(d, Clean(v.path)) /\ ~Under(d, target.path)

CandidatesAccepted(w, paths, r) == FALSE
\* checkEditorAliasCandidates: a generated file was missing where the editor
\* will still look in the checkout.
CandidatesRefused(w, paths, r) ==
    \E t \in r.missed :
       /\ ~t.file.out /\ t.file.path \in w.files /\ ~Authored(w, t.file)
       /\ t.place \in ToSet(Values(paths, r.text))

-----------------------------------------------------------------------------
(* The aliases of the project.                                              *)
EditorCandidates(w, places) == [i \in DOMAIN places |-> GeneratedPath(w, places[i])]
Changed(w, places) == \E i \in DOMAIN places : IsGenerated(w, places[i])

\* projectGeneratedAliases: a pattern that reaches into a generated directory
\* gets a key for what lies in it, and one for the directory itself.
KeysInto(k, v, d) ==
    LET star == CHOOSE n \in 1..(Len(v.path) + 1) : n > Len(v.path) \/ v.path[n] = "*"
        before == SubSeq(v.path, 1, star - 1)
        after  == SubSeq(v.path, star + 1, Len(v.path))
        rest   == SubSeq(d, star, Len(d))
    IN  IF Last(k) # "*" \/ star > Len(v.path) \/ v.out \/ ~Under(before, d) THEN {}
        ELSE {Replaced(k, Append(rest, "*"))}
               \cup {Replaced(k, SubSeq(rest, 1, n)) :
                       n \in {n \in DOMAIN rest : IsPrefix(SubSeq(rest, n + 1, Len(rest)), after)}}
Keys(w) ==
    DOMAIN w.paths
      \cup UNION {UNION {KeysInto(k, w.paths[k][i], d) : i \in DOMAIN w.paths[k], d \in w.trees} :
                    k \in DOMAIN w.paths}

GeneratedAliases(w) ==
    [k \in DOMAIN w.paths \cup {n \in Keys(w) : Changed(w, Values(w.paths, n))} |->
       IF Changed(w, Values(w.paths, k)) THEN EditorCandidates(w, Values(w.paths, k)) ELSE w.paths[k]]

\* projectEditorEdges: what one text selects, for all its importers.
NeedsProjectionOfOutputs(w, r) ==
    r.to \notin {None, Npm} /\ r.to.out /\ r.to.path \in w.files /\ r.implicit
NeedsProjection(w, r) ==
    /\ r.to \notin {None, Npm}
    /\ \/ Authored(w, r.to) /\ IsGenerated(w, r.to)
       \/ r.to.out /\ r.to.path \in w.files /\ r.implicit
Exact(w, text, rs) ==
    \E r \in rs : NeedsProjection(w, r) /\ r.to \notin ToSet(EditorCandidates(w, Values(w.paths, text)))
EdgeRefused(w, text, rs) ==
    /\ AliasOwner(DOMAIN w.paths, text) # None /\ Exact(w, text, rs)
    /\ w.nodenext \/ \E r, o \in rs : {r.to, o.to} \cap {None} = {} /\ r.to # o.to
EdgeAlias(w, text, rs) ==
    IF Exact(w, text, rs)
    THEN <<(CHOOSE r \in rs : r.to # None).to>>
    ELSE EditorCandidates(w, Values(w.paths, text))
EdgeAliases(w, paths, rs) ==
    LET set == {r.text : r \in {o \in rs : AliasOwner(DOMAIN w.paths, o.text) # None /\ NeedsProjection(w, o)}}
    IN  [k \in DOMAIN paths \cup set |->
           IF k \in set THEN EdgeAlias(w, k, {r \in rs : r.text = k}) ELSE paths[k]]

\* The refusals of editorRun, with the aliases before and after the edges'.
Refused(w, before, after, rs, aliased) ==
    \/ \E r \in rs : RelativeRefused(w, r)
    \/ \E r \in aliased :
         \/ BoundaryRefused(w, before, r.text)
         \/ r.to # None /\ SiblingRefused(w, r)
         \/ CandidatesRefused(w, IF r.to = None THEN before ELSE after, r)
         \/ EdgeRefused(w, r.text, {o \in aliased : o.text = r.text})

-----------------------------------------------------------------------------
(* The editor.                                                              *)
EditorPlaces(paths, r) ==
    IF r.relative THEN <<Joined(r.from, r.text)>> ELSE Values(paths, r.text)
InCheckout(w, stale, l) == l.path \in IF l.out THEN w.built ELSE w.srcs \cup stale

EditorFile(tries, k, npm) == IF k # 0 THEN tries[k].file ELSE IF npm THEN Npm ELSE None
EditorSelects(w, stale, tries, npm) ==
    EditorFile(tries, FirstOf({n \in DOMAIN tries : InCheckout(w, stale, tries[n].file)}), npm)

\* What earlier builds may have left in the checkout.
Twins(w) == {p \in w.built \cup w.gone : IsGenerated(w, Source(p))} \ w.srcs

Same(w, paths, i, r) ==
    \A stale \in SUBSET Twins(w) :
       EditorSelects(w, stale, Tries(EditorPlaces(paths, r), i.strict), i.package /\ ~i.relative) = r.to

\* An output may come or go where a candidate moves together with all it finds.
Follows(w, i) ==
    \A t \in ToSet(Tries(CompilerPlaces(w, i), i.strict)) :
       GeneratedPath(w, t.place).out = GeneratedPath(w, t.file).out
Rebuilds(w, i) ==
    {w} \cup (IF ~Follows(w, i) THEN {}
              ELSE {[w EXCEPT !.built = @ \ {p}, !.gone = @ \cup {p}] : p \in w.built}
                     \cup {[w EXCEPT !.built = @ \cup {p}, !.gone = @ \ {p}] : p \in w.gone})

Faithful(w, before, after, rs) ==
    \/ Refused(w, before, after, rs, {r \in rs : ~r.relative})
    \/ \A i \in w.imports : \A now \in {n \in Rebuilds(w, i) : InProgram(n, i.from)} :
          Same(now, after, i, Resolved(now, i))
FaithfulAfter(w, before, rs) ==
    Faithful(w, before, EdgeAliases(w, before, {r \in rs : ~r.relative}), rs)

(* The project is refused, or whatever earlier builds left in the checkout,  *)
(* each import selects in the editor what it selected in the compiler's      *)
(* listing: an output in the output tree and no stale twin of it, an         *)
(* authored file that the relocation of its directory would hide, the next   *)
(* candidate, or nothing at all.  Where no exact file stands for an alias it *)
(* goes on to select what the compiler would as outputs come and go.         *)
SelectsWhatIsBuilt(w) ==
    FaithfulAfter(w, GeneratedAliases(w), {Resolved(w, i) : i \in w.imports})
=============================================================================
