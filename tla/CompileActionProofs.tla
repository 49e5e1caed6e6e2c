------------------------- MODULE CompileActionProofs -------------------------
(***************************************************************************)
(* Proofs about the tsgo action: a root that is laid out one link at a time *)
(* is the declared one when the tool starts, and a stamp means that what    *)
(* the own sources reach may be used.                                       *)
(***************************************************************************)
EXTENDS CompileAction, WellFoundedInduction, TLAPS

------------------------------------------------------------------------------
(* Prefixes of one directory are in a line.                                  *)

LEMMA PrefixIs ==
    ASSUME NEW S, NEW s \in Seq(S), NEW t \in Seq(S)
    PROVE  IsPrefix(s, t) <=> Len(s) <= Len(t) /\ \A i \in 1..Len(s) : s[i] = t[i]
<1>1. ASSUME Len(s) <= Len(t)
      PROVE /\ SubSeq(s, 1, Len(s)) \in Seq(S) /\ SubSeq(t, 1, Len(s)) \in Seq(S)
            /\ Len(SubSeq(s, 1, Len(s))) = Len(s) /\ Len(SubSeq(t, 1, Len(s))) = Len(s)
            /\ \A i \in 1..Len(s) : /\ SubSeq(s, 1, Len(s))[i] = s[i]
                                    /\ SubSeq(t, 1, Len(s))[i] = t[i]
  BY <1>1
<1>2. ASSUME Len(s) <= Len(t)
      PROVE (SubSeq(s, 1, Len(s)) = SubSeq(t, 1, Len(s)))
              <=> \A i \in 1..Len(s) : s[i] = t[i]
  BY <1>1, <1>2
<1> QED BY <1>2 DEF IsPrefix

\* Directories are sequences over one set.
Parts == UNION {AsSet(d) : d \in Dirs}

LEMMA DirsAreSequences == \A d \in Dirs : d \in Seq(Parts) /\ Len(d) \in Nat
<1> SUFFICES ASSUME NEW d \in Dirs PROVE d \in Seq(Parts) /\ Len(d) \in Nat
  OBVIOUS
<1>1. d \in Seq(AsSet(d)) BY DirsAssumption
<1>2. AsSet(d) \subseteq Parts BY DEF Parts
<1> HIDE DEF Parts
<1>3. \A i \in 1..Len(d) : d[i] \in Parts BY <1>1, <1>2
<1> QED BY <1>1, <1>3

LEMMA PrefixSelf == \A d \in Dirs : IsPrefix(d, d)
BY DirsAreSequences, PrefixIs

LEMMA RootIsPrefix == Root \in Dirs /\ Len(Root) = 0 /\ \A d \in Dirs : IsPrefix(Root, d)
<1>1. Root \in Dirs /\ Len(Root) = 0 BY DirsAssumption DEF Root
<1> QED BY <1>1, DirsAreSequences, PrefixIs

LEMMA PrefixTrans ==
    ASSUME NEW d \in Dirs, NEW e \in Dirs, NEW f \in Dirs,
           IsPrefix(d, e), IsPrefix(e, f)
    PROVE  IsPrefix(d, f)
<1>1. d \in Seq(Parts) /\ e \in Seq(Parts) /\ f \in Seq(Parts) BY DirsAreSequences
<1>2. Len(d) <= Len(e) /\ \A i \in 1..Len(d) : d[i] = e[i] BY <1>1, PrefixIs
<1>3. Len(e) <= Len(f) /\ \A i \in 1..Len(e) : e[i] = f[i] BY <1>1, PrefixIs
<1>4. Len(d) <= Len(f) /\ \A i \in 1..Len(d) : d[i] = f[i] BY <1>1, <1>2, <1>3
<1> QED BY <1>1, <1>4, PrefixIs

\* Of two prefixes the shorter is a prefix of the longer.
LEMMA PrefixLine ==
    ASSUME NEW d \in Dirs, NEW e \in Dirs, NEW f \in Dirs,
           IsPrefix(d, f), IsPrefix(e, f), Len(d) <= Len(e)
    PROVE  IsPrefix(d, e)
<1>1. d \in Seq(Parts) /\ e \in Seq(Parts) /\ f \in Seq(Parts) BY DirsAreSequences
<1>2. Len(d) <= Len(f) /\ \A i \in 1..Len(d) : d[i] = f[i] BY <1>1, PrefixIs
<1>3. Len(e) <= Len(f) /\ \A i \in 1..Len(e) : e[i] = f[i] BY <1>1, PrefixIs
<1>4. \A i \in 1..Len(d) : d[i] = e[i] BY <1>1, <1>2, <1>3
<1> QED BY <1>1, <1>4, PrefixIs

LEMMA PrefixBoth ==
    ASSUME NEW d \in Dirs, NEW e \in Dirs, IsPrefix(d, e), Len(e) <= Len(d)
    PROVE  d = e
<1>1. d \in Seq(Parts) /\ e \in Seq(Parts) BY DirsAreSequences
<1>2. Len(d) <= Len(e) /\ \A i \in 1..Len(d) : d[i] = e[i] BY <1>1, PrefixIs
<1> QED BY <1>1, <1>2

LEMMA PrefixLength ==
    ASSUME NEW d \in Dirs, NEW e \in Dirs, IsPrefix(d, e)
    PROVE  Len(d) \in Nat /\ Len(e) \in Nat /\ Len(d) <= Len(e)
BY DirsAreSequences, PrefixIs

------------------------------------------------------------------------------
(* What a search finds: the first of a sequence, the nearest on a line.      *)

LEMMA LeastNat ==
    ASSUME NEW T \in SUBSET Nat, T # {}
    PROVE  \E x \in T : \A y \in T : x <= y
<1> DEFINE Less == {ss \in Nat \X Nat : ss[1] < ss[2]}
<1>1. IsWellFoundedOn(Less, Nat) BY NatLessThanWellFounded DEF OpToRel
<1>2. \E x \in T : \A y \in T : ~ (<<y, x>> \in Less)
  <2> HIDE DEF Less
  <2> QED BY <1>1, WFMin
<1>3. PICK x \in T : \A y \in T : ~ (y < x) BY <1>2
<1>4. \A y \in T : x <= y BY <1>3
<1> QED BY <1>4

\* Of the directories on the way up from d one is nearest.
LEMMA NearestDir ==
    ASSUME NEW d \in Dirs, NEW T \in SUBSET Above(d), T # {}
    PROVE  \E e \in T : \A f \in T : Len(f) <= Len(e)
<1> DEFINE Far(e) == Len(d) - Len(e)
           Lens == {Far(e) : e \in T}
<1>1. \A e \in T : e \in Dirs /\ Far(e) \in Nat /\ Len(e) \in Nat /\ Len(d) \in Nat
  BY PrefixLength DEF Above
<1>2. PICK x \in Lens : \A y \in Lens : x <= y
  <2>1. Lens \in SUBSET Nat /\ Lens # {} BY <1>1
  <2> HIDE DEF Lens
  <2> QED BY <2>1, LeastNat
<1>3. PICK e \in T : x = Far(e) BY <1>2
<1>4. \A f \in T : Far(e) <= Far(f) BY <1>2, <1>3
<1> QED BY <1>1, <1>3, <1>4

\* v is what the first importer of s that links n links.
FirstIs(s, n, v) ==
    \/ v = None /\ \A i \in DOMAIN s : s[i].links[n] = None
    \/ \E i \in DOMAIN s :
         /\ v = s[i].links[n] /\ v # None
         /\ \A j \in DOMAIN s : j < i => s[j].links[n] = None

LEMMA FirstLinkIs ==
    ASSUME NEW S, NEW s \in Seq(S), NEW n PROVE FirstIs(s, n, FirstLink(s, n))
<1> DEFINE L == {i \in DOMAIN s : s[i].links[n] # None}
           First(i) == \A j \in L : i <= j
<1>1. CASE L = {} BY <1>1 DEF FirstIs, FirstLink
<1>2. CASE L # {}
  <2>1. L \in SUBSET Nat OBVIOUS
  <2>2. \E i \in L : First(i)
    <3> HIDE DEF L
    <3> QED BY <1>2, <2>1, LeastNat
  <2> DEFINE i == CHOOSE i \in L : First(i)
  <2>3. i \in L /\ First(i) BY <2>2
  <2>4. FirstLink(s, n) = s[i].links[n] BY <1>2 DEF FirstLink
  <2> HIDE DEF i
  <2>5. \A j \in DOMAIN s : j < i => s[j].links[n] = None BY <2>3, <2>1
  <2> QED BY <2>3, <2>4, <2>5 DEF FirstIs
<1> QED BY <1>1, <1>2

LEMMA FirstIsOne ==
    ASSUME NEW S, NEW s \in Seq(S), NEW n, NEW v, NEW w, FirstIs(s, n, v), FirstIs(s, n, w)
    PROVE  v = w
<1>1. ASSUME NEW i \in DOMAIN s, NEW j \in DOMAIN s,
             s[i].links[n] # None, \A k \in DOMAIN s : k < i => s[k].links[n] = None,
             s[j].links[n] # None, \A k \in DOMAIN s : k < j => s[k].links[n] = None
      PROVE  i = j
  <2>1. i \in Nat /\ j \in Nat OBVIOUS
  <2>2. ~(i < j) /\ ~(j < i) BY <1>1
  <2> QED BY <2>1, <2>2
<1> QED BY <1>1 DEF FirstIs

\* v is what the importer of S that is nearest and links n links.
NearestIs(S, n, v) ==
    \/ v = None /\ \A i \in S : i.links[n] = None
    \/ \E i \in S : /\ v = i.links[n] /\ v # None
                    /\ \A j \in S : Len(j.dir) > Len(i.dir) => j.links[n] = None

LEMMA NearestLinkIs ==
    ASSUME NEW d \in Dirs, NEW S, \A i \in S : i.dir \in Above(d), NEW n
    PROVE  NearestIs(S, n, NearestLink(S, n))
<1> DEFINE L == {i \in S : i.links[n] # None}
           Ds == {i.dir : i \in L}
           Nearest(i) == \A j \in L : Len(j.dir) <= Len(i.dir)
<1>1. CASE L = {} BY <1>1 DEF NearestIs, NearestLink
<1>2. CASE L # {}
  <2>1. PICK e \in Ds : \A f \in Ds : Len(f) <= Len(e)
    <3>1. Ds \in SUBSET Above(d) /\ Ds # {} BY <1>2
    <3> HIDE DEF Ds
    <3> QED BY <3>1, NearestDir
  <2>2. \E i \in L : Nearest(i) BY <2>1
  <2> DEFINE i == CHOOSE i \in L : Nearest(i)
  <2>3. i \in L /\ Nearest(i) BY <2>2
  <2>4. NearestLink(S, n) = i.links[n] BY <1>2 DEF NearestLink
  <2> HIDE DEF i
  <2>5. \A j \in S : j.dir \in Dirs /\ Len(j.dir) \in Nat BY DirsAreSequences DEF Above
  <2>6. \A j \in S : Len(j.dir) > Len(i.dir) => j.links[n] = None BY <2>3, <2>5
  <2> QED BY <2>3, <2>4, <2>6 DEF NearestIs
<1> QED BY <1>1, <1>2

\* v is what the walk up from d finds under the name.
WalkFinds(d, n, v) ==
    \/ v = None /\ \A e \in Above(d) : modules[e][n] = None
    \/ \E e \in Above(d) : /\ v = modules[e][n] /\ v # None
                           /\ \A f \in Above(d) : Len(f) > Len(e) => modules[f][n] = None

LEMMA LookupIs ==
    ASSUME NEW d \in Dirs, NEW n, NEW v, WalkFinds(d, n, v) PROVE Lookup(d, n) = v
<1> DEFINE L == {e \in Above(d) : modules[e][n] # None}
           Nearest(e) == \A f \in L : Len(f) <= Len(e)
<1>1. CASE L = {} BY <1>1 DEF WalkFinds, Lookup
<1>2. CASE L # {}
  <2>1. PICK e \in L : v = modules[e][n] /\ \A f \in Above(d) : Len(f) > Len(e) => modules[f][n] = None
    BY <1>2 DEF WalkFinds
  <2>2. \A f \in L : f \in Dirs /\ Len(f) \in Nat BY DirsAreSequences DEF Above
  <2>3. Nearest(e) BY <2>1, <2>2
  <2> DEFINE c == CHOOSE c \in L : Nearest(c)
  <2>4. c \in L /\ Nearest(c) BY <2>1, <2>3
  <2>5. Lookup(d, n) = modules[c][n] BY <1>2 DEF Lookup
  <2> HIDE DEF c
  <2>6. Len(c) = Len(e) BY <2>1, <2>2, <2>3, <2>4
  <2>7. c = e
    <3>1. c \in Dirs /\ e \in Dirs /\ IsPrefix(c, d) /\ IsPrefix(e, d) BY <2>1, <2>4 DEF Above
    <3>2. IsPrefix(c, e) BY <3>1, <2>6, <2>2, <2>1, <2>4, PrefixLine
    <3> QED BY <3>1, <3>2, <2>6, <2>2, <2>1, <2>4, PrefixBoth
  <2> QED BY <2>5, <2>7, <2>1
<1> QED BY <1>1, <1>2

------------------------------------------------------------------------------
(* The node_modules that are laid, and what the walk finds in them.          *)

Chain == AllButRoot(act)
ChainLink(n) == FirstLink(Chain, n)
LinkedAt(i) == IF i < Len(act.importers) THEN act.importers[i].dir ELSE Root

\* What an inherited importer and one of the chain come to link.
Brought(j) ==
    IF Len(act.importers) > 1 THEN Merge(<<act.inherited[j]>> \o Chain)
    ELSE act.inherited[j].links
Chained(i) ==
    IF i = 1 /\ SkipsAncestors THEN Merge(Chain) ELSE act.importers[i].links

\* The first k inherited importers and the first c of the chain are laid.
ModulesLaid(k, c) ==
    /\ \A j \in 1..k : modules[act.inherited[j].dir] = Brought(j)
    /\ \A i \in 1..c : modules[LinkedAt(i)] = Chained(i)
    /\ \A d \in Dirs : modules[d] # NoLinks =>
         \/ \E j \in 1..k : d = act.inherited[j].dir
         \/ \E i \in 1..c : d = LinkedAt(i)

LEMMA ImporterTypes ==
    ASSUME WellDeclared(act)
    PROVE  /\ act.importers \in Seq(Importer) /\ act.inherited \in Seq(Importer)
           /\ Len(act.importers) \in Nat \ {0} /\ Len(act.inherited) \in Nat
           /\ Chain \in Seq(Importer) /\ Len(Chain) = Len(act.importers) - 1
           /\ \A i \in 1..Len(Chain) : Chain[i] = act.importers[i]
           /\ \A i \in 1..Len(act.importers) : act.importers[i] \in Importer
           /\ \A j \in 1..Len(act.inherited) : act.inherited[j] \in Importer
<1>1. act.importers \in Seq(Importer) /\ act.inherited \in Seq(Importer) /\ act.importers # <<>>
  BY DEF WellDeclared, ActionType
<1>2. Len(act.importers) \in Nat \ {0} BY <1>1
<1> QED BY <1>1, <1>2 DEF Chain, AllButRoot

LEMMA ImporterIs ==
    ASSUME NEW i \in Importer
    PROVE  i.dir \in Dirs /\ \A n \in Names : i.links[n] \in Files \cup {None}
BY DEF Importer

\* Where the chain and what is inherited lie.
LEMMA ChainFacts ==
    ASSUME WellDeclared(act)
    PROVE  /\ \A i, j \in 1..Len(Chain) :
                /\ act.importers[i].dir # Root
                /\ i < j => ~IsPrefix(act.importers[i].dir, act.importers[j].dir)
           /\ \A i, j \in 1..Len(act.inherited) :
                act.inherited[i].dir = act.inherited[j].dir => i = j
           /\ \A i \in 1..Len(act.inherited) :
                /\ ~IsPrefix(act.inherited[i].dir, act.importers[1].dir)
                /\ act.inherited[i].dir # Root
                /\ \A j \in 1..Len(act.importers) : act.inherited[i].dir # act.importers[j].dir
<1>1. WellChained(act) BY DEF WellDeclared
<1>2. DOMAIN Chain = 1..Len(Chain) /\ DOMAIN act.inherited = 1..Len(act.inherited)
      /\ DOMAIN act.importers = 1..Len(act.importers) /\ 1 \in 1..Len(act.importers)
  BY ImporterTypes
<1>3. \A i \in 1..Len(act.inherited) : act.inherited[i] \in AsSet(act.inherited)
  BY <1>2 DEF AsSet
<1>4. IsPrefix(Root, act.importers[1].dir) BY <1>2, ImporterTypes, ImporterIs, RootIsPrefix
<1> QED BY <1>1, <1>2, <1>3, <1>4 DEF WellChained, Chain

LEMMA Consed ==
    ASSUME NEW S, NEW s \in Seq(S), NEW i \in S, NEW n
    PROVE  FirstLink(<<i>> \o s, n) = OrElse(i.links[n], FirstLink(s, n))
<1> DEFINE t == <<i>> \o s
           v == OrElse(i.links[n], FirstLink(s, n))
<1>1. t \in Seq(S) /\ Len(t) = Len(s) + 1 /\ t[1] = i OBVIOUS
<1>2. \A k \in 1..Len(s) : t[k + 1] = s[k] OBVIOUS
<1>3. ASSUME NEW k \in 1..Len(t), k # 1 PROVE k - 1 \in 1..Len(s) /\ t[k] = s[k - 1]
  <2>1. k - 1 \in 1..Len(s) /\ k - 1 + 1 = k BY <1>1, <1>3
  <2> QED BY <2>1, <1>2
<1>4. DOMAIN t = 1..Len(t) /\ DOMAIN s = 1..Len(s) BY <1>1
<1> HIDE DEF t
<1>5. FirstIs(t, n, v)
  <2>1. CASE i.links[n] # None
    BY <2>1, <1>1, <1>4 DEF FirstIs, OrElse
  <2>2. CASE i.links[n] = None
    <3>1. v = FirstLink(s, n) BY <2>2 DEF OrElse
    <3>2. FirstIs(s, n, v) BY <3>1, FirstLinkIs
    <3> HIDE DEF v
    <3>3. CASE v = None /\ \A k \in DOMAIN s : s[k].links[n] = None
      BY <3>3, <1>3, <1>4, <1>1, <2>2 DEF FirstIs
    <3>4. ASSUME NEW k \in DOMAIN s, v = s[k].links[n], v # None,
                 \A j \in DOMAIN s : j < k => s[j].links[n] = None
          PROVE  FirstIs(t, n, v)
      <4>1. k + 1 \in DOMAIN t /\ t[k + 1] = s[k] BY <1>1, <1>2, <1>4
      <4>2. ASSUME NEW j \in DOMAIN t, j < k + 1 PROVE t[j].links[n] = None
        <5>1. CASE j = 1 BY <5>1, <1>1, <2>2
        <5>2. CASE j # 1
          <6>1. j - 1 \in DOMAIN s /\ t[j] = s[j - 1] /\ j - 1 < k BY <5>2, <1>3, <1>4, <4>2
          <6> QED BY <6>1, <3>4
        <5> QED BY <5>1, <5>2
      <4> QED BY <4>1, <4>2, <3>4 DEF FirstIs
    <3> QED BY <3>2, <3>3, <3>4 DEF FirstIs
  <2> QED BY <2>1, <2>2
<1>6. FirstIs(t, n, FirstLink(t, n)) BY <1>1, FirstLinkIs
<1>7. FirstLink(t, n) = v BY <1>1, <1>5, <1>6, FirstIsOne
<1> QED BY <1>7 DEF t

\* Under each name, what each directory links.
LinksAre(n) ==
    /\ \A j \in 1..Len(act.inherited) :
         modules[act.inherited[j].dir][n] = OrElse(act.inherited[j].links[n], ChainLink(n))
    /\ \A i \in 1..Len(Chain) :
         modules[act.importers[i].dir][n] =
           IF i = 1 /\ SkipsAncestors THEN ChainLink(n) ELSE act.importers[i].links[n]
    /\ modules[Root][n] = LastOf(act.importers).links[n]
    /\ \A e \in Dirs :
         \/ modules[e][n] = None
         \/ e = Root
         \/ \E j \in 1..Len(act.inherited) : e = act.inherited[j].dir
         \/ \E i \in 1..Len(Chain) : e = act.importers[i].dir

LEMMA LinksLaid ==
    ASSUME WellDeclared(act), ModulesLaid(Len(act.inherited), Len(act.importers)),
           NEW n \in Names
    PROVE  LinksAre(n)
<1> USE ImporterTypes
<1>1. ASSUME NEW j \in 1..Len(act.inherited)
      PROVE  modules[act.inherited[j].dir][n] = OrElse(act.inherited[j].links[n], ChainLink(n))
  <2>1. modules[act.inherited[j].dir] = Brought(j) BY DEF ModulesLaid
  <2>2. CASE Len(act.importers) > 1
    <3>1. Brought(j)[n] = FirstLink(<<act.inherited[j]>> \o Chain, n) BY <2>2 DEF Brought, Merge
    <3> QED BY <2>1, <3>1, Consed DEF ChainLink
  <2>3. CASE ~(Len(act.importers) > 1)
    <3>1. DOMAIN Chain = {} BY <2>3
    <3>2. ChainLink(n) = None BY <3>1 DEF ChainLink, FirstLink
    <3> QED BY <2>1, <2>3, <3>2 DEF Brought, OrElse
  <2> QED BY <2>2, <2>3
<1>2. ASSUME NEW i \in 1..Len(Chain)
      PROVE  modules[act.importers[i].dir][n] =
               IF i = 1 /\ SkipsAncestors THEN ChainLink(n) ELSE act.importers[i].links[n]
  <2>1. i \in 1..Len(act.importers) /\ LinkedAt(i) = act.importers[i].dir BY DEF LinkedAt
  <2>2. modules[act.importers[i].dir] = Chained(i) BY <2>1 DEF ModulesLaid
  <2> QED BY <2>2 DEF Chained, Merge, ChainLink
<1>3. modules[Root][n] = LastOf(act.importers).links[n]
  <2> DEFINE l == Len(act.importers)
  <2>1. l \in 1..l /\ LinkedAt(l) = Root BY DEF LinkedAt
  <2>2. modules[Root] = Chained(l) BY <2>1 DEF ModulesLaid
  <2>3. ~(l = 1 /\ SkipsAncestors) BY DEF SkipsAncestors
  <2> QED BY <2>2, <2>3 DEF Chained, LastOf
<1>4. ASSUME NEW e \in Dirs, modules[e][n] # None, e # Root
      PROVE  \/ \E j \in 1..Len(act.inherited) : e = act.inherited[j].dir
             \/ \E i \in 1..Len(Chain) : e = act.importers[i].dir
  <2>1. modules[e] # NoLinks BY <1>4 DEF NoLinks
  <2>2. PICK i \in 1..Len(act.importers) :
          e = LinkedAt(i) \/ \E j \in 1..Len(act.inherited) : e = act.inherited[j].dir
    BY <2>1 DEF ModulesLaid
  <2>3. i < Len(act.importers) => i \in 1..Len(Chain) OBVIOUS
  <2> QED BY <1>4, <2>2, <2>3 DEF LinkedAt
<1> QED BY <1>1, <1>2, <1>3, <1>4 DEF LinksAre

\* The chain's links are its first importers' and then the root's.
LEMMA ChainIs ==
    ASSUME WellDeclared(act), NEW n
    PROVE  /\ FirstLink(act.importers, n) = OrElse(ChainLink(n), LastOf(act.importers).links[n])
           /\ FirstIs(Chain, n, ChainLink(n))
           /\ FirstIs(act.importers, n, FirstLink(act.importers, n))
           /\ ChainLink(n) = None => \A i \in 1..Len(Chain) : act.importers[i].links[n] = None
<1> USE ImporterTypes
<1> DEFINE c == ChainLink(n)
           l == Len(act.importers)
           r == act.importers[l].links[n]
<1>1. FirstIs(Chain, n, c) BY FirstLinkIs DEF ChainLink
<1>2. FirstIs(act.importers, n, FirstLink(act.importers, n)) BY FirstLinkIs
<1>3. DOMAIN Chain = 1..Len(Chain) /\ DOMAIN act.importers = 1..l /\ l \in 1..l OBVIOUS
<1>4. \A i \in 1..l : i # l => i \in 1..Len(Chain) OBVIOUS
<1> HIDE DEF c
<1>5. c = None => \A i \in 1..Len(Chain) : act.importers[i].links[n] = None
  BY <1>1, <1>3 DEF FirstIs
<1>6. FirstIs(act.importers, n, OrElse(c, r))
  <2>1. CASE c = None
    <3>1. \A j \in 1..l : j < l => act.importers[j].links[n] = None BY <2>1, <1>4, <1>5
    <3> QED BY <2>1, <1>3, <1>4, <1>5, <3>1 DEF FirstIs, OrElse
  <2>2. CASE c # None
    <3>1. PICK i \in DOMAIN Chain : /\ c = Chain[i].links[n]
                                    /\ \A j \in DOMAIN Chain : j < i => Chain[j].links[n] = None
      BY <2>2, <1>1 DEF FirstIs
    <3>2. i \in DOMAIN act.importers /\ i < l /\ c = act.importers[i].links[n] BY <3>1, <1>3
    <3>3. ASSUME NEW j \in DOMAIN act.importers, j < i PROVE act.importers[j].links[n] = None
      <4>1. j \in DOMAIN Chain BY <3>2, <3>3, <1>3
      <4> QED BY <4>1, <3>1, <3>3
    <3> QED BY <2>2, <3>2, <3>3 DEF FirstIs, OrElse
  <2> QED BY <2>1, <2>2
<1>7. FirstLink(act.importers, n) = OrElse(c, r) BY <1>2, <1>6, FirstIsOne
<1> QED BY <1>1, <1>2, <1>5, <1>7 DEF c, LastOf

\* If no directory between d and e links the name, e answers.
LEMMA EndOfWalk ==
    ASSUME WellDeclared(act), NEW n \in Names, LinksAre(n), NEW d \in Dirs,
           \A e \in Above(d) : e # Root => modules[e][n] = None
    PROVE  WalkFinds(d, n, LastOf(act.importers).links[n])
<1>1. Root \in Above(d) /\ Len(Root) = 0 BY RootIsPrefix DEF Above
<1>2. modules[Root][n] = LastOf(act.importers).links[n] BY DEF LinksAre
<1> QED BY <1>1, <1>2 DEF WalkFinds

\* A directory of the chain alone.
LEMMA ChainDeclared ==
    ASSUME WellDeclared(act), NEW n \in Names, LinksAre(n), NEW d \in Dirs,
           Inherited(act, d) = {}, IsPrefix(act.importers[1].dir, d)
    PROVE  WalkFinds(d, n, FirstLink(act.importers, n))
<1> USE ImporterTypes
<1> DEFINE c == ChainLink(n)
<1>1. \A e \in Above(d) : e \in Dirs /\ IsPrefix(e, d) /\ Len(e) \in Nat
  BY DirsAreSequences DEF Above
<1>2. \A e \in Above(d) : \A j \in 1..Len(act.inherited) : e # act.inherited[j].dir
  <2> SUFFICES ASSUME NEW e \in Above(d), NEW j \in 1..Len(act.inherited), e = act.inherited[j].dir
               PROVE  FALSE
    OBVIOUS
  <2>1. act.inherited[j] \in AsSet(act.inherited)
    BY DEF AsSet
  <2> QED BY <1>1, <2>1 DEF Inherited
<1>3. \A i \in 1..Len(Chain) : i \in 1..Len(act.importers) /\ act.importers[i].dir \in Dirs
  BY ImporterIs
<1>4. ASSUME NEW e \in Above(d), modules[e][n] # None, e # Root
      PROVE  \E i \in 1..Len(Chain) : e = act.importers[i].dir
  BY <1>1, <1>2, <1>4 DEF LinksAre
\* An importer above d that is longer than one above d comes before it.
<1>5. ASSUME NEW i \in 1..Len(Chain), NEW k \in 1..Len(Chain),
             act.importers[i].dir \in Above(d), act.importers[k].dir \in Above(d),
             Len(act.importers[k].dir) > Len(act.importers[i].dir)
      PROVE  k < i
  <2>1. IsPrefix(act.importers[i].dir, act.importers[k].dir) BY <1>1, <1>5, PrefixLine
  <2>2. i # k BY <1>1, <1>5
  <2>3. ~(i < k) BY <2>1, ChainFacts
  <2> QED BY <2>2, <2>3
<1>6. CASE c = None
  <2>1. FirstLink(act.importers, n) = LastOf(act.importers).links[n] BY <1>6, ChainIs DEF OrElse
  <2>2. \A i \in 1..Len(Chain) : modules[act.importers[i].dir][n] = None
    BY <1>6, ChainIs DEF LinksAre
  <2>3. \A e \in Above(d) : e # Root => modules[e][n] = None BY <1>4, <2>2
  <2> QED BY <2>1, <2>3, EndOfWalk
<1>7. CASE c # None
  <2>1. FirstLink(act.importers, n) = c BY <1>7, ChainIs DEF OrElse
  <2>2. PICK i \in 1..Len(Chain) : /\ c = act.importers[i].links[n]
                                   /\ \A j \in 1..Len(Chain) : j < i => act.importers[j].links[n] = None
    <3>1. DOMAIN Chain = 1..Len(Chain) OBVIOUS
    <3>2. FirstIs(Chain, n, c) BY ChainIs
    <3> HIDE DEF c
    <3> QED BY <3>1, <3>2, <1>7 DEF FirstIs
  <2> DEFINE m == IF SkipsAncestors THEN 1 ELSE i
             e == act.importers[m].dir
  <2>3. m \in 1..Len(Chain) /\ modules[e][n] = c BY <2>2, <1>7 DEF LinksAre
  <2>4. e \in Above(d)
    <3>1. CASE m = 1 BY <3>1, <2>3, <1>3 DEF Above
    <3>2. CASE m # 1
      <4>1. ~SkipsAncestors /\ m \in 2..(Len(act.importers) - 1) BY <3>2, <2>3
      <4>2. IsPrefix(e, act.importers[1].dir) BY <4>1 DEF SkipsAncestors
      <4>3. e \in Dirs /\ act.importers[1].dir \in Dirs BY <2>3, <1>3
      <4> QED BY <4>2, <4>3, PrefixTrans DEF Above
    <3> QED BY <3>1, <3>2
  <2> HIDE DEF c
  <2>5. ASSUME NEW f \in Above(d), Len(f) > Len(e), modules[f][n] # None PROVE FALSE
    <3>1. f # Root
      <4> HIDE DEF e
      <4>1. Len(f) \in Nat /\ Len(e) \in Nat BY <1>1, <2>4, <2>5
      <4>2. Len(f) # 0 BY <2>5, <4>1
      <4> QED BY <4>2, RootIsPrefix
    <3>2. PICK k \in 1..Len(Chain) : f = act.importers[k].dir BY <2>5, <3>1, <1>4
    <3>3. k < m
      <4>1. Len(act.importers[k].dir) > Len(act.importers[m].dir) /\ m \in 1..Len(Chain)
        BY <2>3, <2>5, <3>2
      <4>2. act.importers[k].dir \in Above(d) /\ act.importers[m].dir \in Above(d)
        BY <2>4, <3>2
      <4> HIDE DEF m
      <4> QED BY <1>5, <4>1, <4>2
    <3>4. m = i /\ ~SkipsAncestors BY <3>3, <3>2
    <3>5. modules[f][n] = act.importers[k].links[n] BY <3>2, <3>4 DEF LinksAre
    <3> QED BY <2>2, <2>5, <3>3, <3>4, <3>5
  <2> HIDE DEF m
  <2> QED BY <1>7, <2>1, <2>3, <2>4, <2>5 DEF WalkFinds
<1> QED BY <1>6, <1>7

\* What the importers above d link: the inherited ones, then the chain.
LEMMA AboveFacts ==
    ASSUME WellDeclared(act), NEW n \in Names, LinksAre(n), NEW d \in Dirs
    PROVE  /\ \A m \in Inherited(act, d) :
                /\ m.dir \in Above(d) /\ ~IsPrefix(m.dir, act.importers[1].dir)
                /\ modules[m.dir][n] = OrElse(m.links[n], ChainLink(n))
           /\ \A f \in Above(d) :
                \/ modules[f][n] = None
                \/ f = Root
                \/ \E m \in Inherited(act, d) : f = m.dir
                \/ \E i \in 1..Len(Chain) : f = act.importers[i].dir
<1> USE ImporterTypes
<1>1. ASSUME NEW m \in Inherited(act, d)
      PROVE  /\ m.dir \in Above(d) /\ ~IsPrefix(m.dir, act.importers[1].dir)
             /\ modules[m.dir][n] = OrElse(m.links[n], ChainLink(n))
  <2>1. PICK j \in 1..Len(act.inherited) : m = act.inherited[j] BY DEF Inherited, AsSet
  <2>2. m.dir \in Dirs BY <2>1, ImporterIs
  <2> QED BY <2>1, <2>2, ChainFacts DEF LinksAre, Inherited, Above
<1>2. ASSUME NEW f \in Above(d), NEW j \in 1..Len(act.inherited), f = act.inherited[j].dir
      PROVE  \E m \in Inherited(act, d) : f = m.dir
  <2>1. act.inherited[j] \in Inherited(act, d) BY <1>2 DEF Inherited, AsSet, Above
  <2> QED BY <2>1, <1>2
<1>3. \A f \in Above(d) : f \in Dirs BY DEF Above
<1> QED BY <1>1, <1>2, <1>3 DEF LinksAre

\* Inner is what lies below every inherited importer of d, or is the nearest.
LEMMA InnerFacts ==
    ASSUME WellDeclared(act), NEW n \in Names, LinksAre(n), NEW d \in Dirs,
           NEW h \in Inherited(act, d)
    PROVE  /\ \A m \in Inner(act, d) :
                /\ m.dir \in Above(d) /\ IsPrefix(h.dir, m.dir)
                /\ m.links[n] # None => modules[m.dir][n] = m.links[n]
           /\ \A i \in 1..Len(Chain) :
                /\ act.importers[i] \in Inner(act, d)
                => modules[act.importers[i].dir][n] = act.importers[i].links[n]
<1> USE ImporterTypes
<1>1. \A m \in Inner(act, d) : IsPrefix(m.dir, d) /\ IsPrefix(h.dir, m.dir)
  BY DEF Inner
<1>2. DOMAIN Chain = 1..Len(Chain) /\ AllButRoot(act) = Chain
      /\ DOMAIN act.inherited = 1..Len(act.inherited)
  BY DEF Chain
<1>3. ASSUME NEW i \in 1..Len(Chain), act.importers[i] \in Inner(act, d)
      PROVE  modules[act.importers[i].dir][n] = act.importers[i].links[n]
  <2>1. i # 1 BY <1>1, <1>3, AboveFacts
  <2> QED BY <2>1 DEF LinksAre
<1>4. ASSUME NEW m \in Inner(act, d)
      PROVE  /\ m.dir \in Above(d) /\ IsPrefix(h.dir, m.dir)
             /\ m.links[n] # None => modules[m.dir][n] = m.links[n]
  <2>1. CASE m \in AsSet(Chain)
    <3>1. PICK i \in 1..Len(Chain) : m = act.importers[i] BY <2>1, <1>2 DEF AsSet
    <3>2. m \in Importer BY <3>1
    <3> QED BY <3>1, <3>2, <1>1, <1>3, ImporterIs DEF Above
  <2>2. CASE m \in AsSet(act.inherited)
    <3>1. m \in Inherited(act, d) BY <2>2, <1>1 DEF Inherited
    <3> QED BY <3>1, <1>1, AboveFacts DEF OrElse
  <2> QED BY <2>1, <2>2, <1>2 DEF Inner
<1> QED BY <1>3, <1>4

\* A directory beneath an inherited importer.
LEMMA InheritedDeclared ==
    ASSUME WellDeclared(act), NEW n \in Names, LinksAre(n), NEW d \in Dirs,
           Inherited(act, d) # {}
    PROVE  WalkFinds(d, n, DeclaredName(act, d, n))
<1> USE ImporterTypes
<1> DEFINE I == Inherited(act, d)
           x == NearestLink(Inner(act, d), n)
           c == ChainLink(n)
           y == NearestLink(I, n)
           r == LastOf(act.importers).links[n]
<1>1. \A e \in Above(d) : e \in Dirs /\ IsPrefix(e, d) /\ Len(e) \in Nat
  BY DirsAreSequences DEF Above
\* The nearest inherited importer.
<1>2. PICK h \in I : \A m \in I : IsPrefix(m.dir, h.dir)
  <2> DEFINE Ds == {m.dir : m \in I}
  <2>1. PICK e \in Ds : \A f \in Ds : Len(f) <= Len(e)
    <3>1. Ds \in SUBSET Above(d) /\ Ds # {} BY AboveFacts
    <3> HIDE DEF Ds
    <3> QED BY <3>1, NearestDir
  <2>2. PICK h \in I : e = h.dir BY <2>1
  <2>3. \A m \in I : IsPrefix(m.dir, h.dir) BY <1>1, <2>1, <2>2, AboveFacts, PrefixLine
  <2> QED BY <2>2, <2>3
<1>3. h \in Inner(act, d) BY <1>2 DEF Inherited, Inner
<1>4. h.dir \in Above(d) /\ h.dir # Root
  <2>1. ~IsPrefix(h.dir, act.importers[1].dir) BY AboveFacts
  <2>2. act.importers[1].dir \in Dirs BY ImporterIs
  <2> QED BY <2>1, <2>2, AboveFacts, RootIsPrefix
\* What links the name below it is an importer of Inner.
<1>5. ASSUME NEW f \in Above(d), modules[f][n] # None, Len(f) > Len(h.dir)
      PROVE  \E k \in Inner(act, d) : f = k.dir /\ modules[f][n] = k.links[n]
  <2>1. f # Root BY <1>1, <1>4, <1>5, RootIsPrefix
  <2>2. ASSUME NEW m \in I, f = m.dir PROVE FALSE
    BY <2>2, <1>2, <1>1, <1>4, <1>5, PrefixLength
  <2>3. PICK i \in 1..Len(Chain) : f = act.importers[i].dir BY <2>1, <2>2, <1>5, AboveFacts
  <2>4. IsPrefix(h.dir, f) BY <1>1, <1>4, <1>5, PrefixLine
  <2>5. \A m \in I : IsPrefix(m.dir, f) BY <1>1, <1>2, <1>4, <2>4, AboveFacts, PrefixTrans
  <2>6. act.importers[i] \in AsSet(AllButRoot(act)) BY DEF AsSet, Chain
  <2>7. act.importers[i] \in Inner(act, d) BY <1>1, <2>3, <2>5, <2>6 DEF Inner
  <2> QED BY <2>3, <2>7, InnerFacts
<1>6. \A m \in Inner(act, d) : m.dir \in Above(d) /\ Len(h.dir) <= Len(m.dir)
  BY <1>1, <1>4, InnerFacts, PrefixLength
<1>7. NearestIs(Inner(act, d), n, x) BY <1>6, NearestLinkIs
<1>8. NearestIs(I, n, y) BY AboveFacts, NearestLinkIs
<1>9. DeclaredName(act, d, n) = OrElse(x, OrElse(c, OrElse(y, r)))
  BY DEF DeclaredName, ChainLink, Chain
<1> HIDE DEF I, x, c, y, r
<1>10. CASE x # None
  <2>1. PICK m \in Inner(act, d) : /\ x = m.links[n]
                                   /\ \A j \in Inner(act, d) : Len(j.dir) > Len(m.dir) => j.links[n] = None
    BY <1>7, <1>10 DEF NearestIs
  <2>2. m.dir \in Above(d) /\ modules[m.dir][n] = x BY <2>1, <1>10, InnerFacts DEF I
  <2>3. ASSUME NEW f \in Above(d), Len(f) > Len(m.dir) PROVE modules[f][n] = None
    <3>1. Len(f) > Len(h.dir) BY <1>1, <1>4, <1>6, <2>2, <2>3
    <3> QED BY <3>1, <1>5, <2>1, <2>3
  <2> QED BY <1>9, <1>10, <2>2, <2>3 DEF OrElse, WalkFinds
<1>11. CASE x = None
  <2>1. \A m \in Inner(act, d) : m.links[n] = None BY <1>7, <1>11 DEF NearestIs
  <2>2. \A f \in Above(d) : Len(f) > Len(h.dir) => modules[f][n] = None BY <1>5, <2>1
  <2>3. modules[h.dir][n] = c
    <3>1. modules[h.dir][n] = OrElse(h.links[n], ChainLink(n)) BY AboveFacts DEF I
    <3> QED BY <3>1, <2>1, <1>3 DEF OrElse, c
  <2>4. CASE c # None BY <1>4, <1>9, <1>11, <2>2, <2>3, <2>4 DEF OrElse, WalkFinds
  <2>5. CASE c = None
    <3>1. \A i \in 1..Len(Chain) : modules[act.importers[i].dir][n] = None
      BY <2>5, ChainIs DEF LinksAre, c
    <3>2. \A m \in I : m.dir \in Above(d) /\ modules[m.dir][n] = m.links[n]
      BY <2>5, AboveFacts DEF I, OrElse, c
    <3>3. CASE y # None
      <4>1. PICK m \in I : /\ y = m.links[n]
                           /\ \A j \in I : Len(j.dir) > Len(m.dir) => j.links[n] = None
        BY <1>8, <3>3 DEF NearestIs
      <4>2. ASSUME NEW f \in Above(d), Len(f) > Len(m.dir) PROVE modules[f][n] = None
        <5>1. f # Root BY <1>1, <3>2, <4>1, <4>2, RootIsPrefix
        <5>2. modules[f][n] = None \/ \E k \in I : f = k.dir BY <3>1, <5>1, AboveFacts DEF I
        <5>3. ASSUME NEW k \in I, f = k.dir PROVE modules[f][n] = None
          <6>1. k.links[n] = None BY <4>1, <4>2, <5>3
          <6> QED BY <3>2, <5>3, <6>1
        <5> QED BY <5>2, <5>3
      <4>3. OrElse(x, OrElse(c, OrElse(y, r))) = y BY <1>11, <2>5, <3>3 DEF OrElse
      <4>4. m.dir \in Above(d) /\ modules[m.dir][n] = y BY <3>2, <4>1
      <4>5. WalkFinds(d, n, y) BY <3>3, <4>2, <4>4 DEF WalkFinds
      <4> QED BY <1>9, <4>3, <4>5
    <3>4. CASE y = None
      <4>1. \A m \in I : m.links[n] = None BY <1>8, <3>4 DEF NearestIs
      <4>2. ASSUME NEW e \in Above(d), e # Root PROVE modules[e][n] = None
        <5>1. \/ modules[e][n] = None
              \/ \E m \in I : e = m.dir
              \/ \E i \in 1..Len(Chain) : e = act.importers[i].dir
          BY <4>2, AboveFacts DEF I
        <5> QED BY <5>1, <3>1, <3>2, <4>1
      <4>3. WalkFinds(d, n, r) BY <4>2, EndOfWalk DEF r
      <4> QED BY <1>9, <1>11, <2>5, <3>4, <4>3 DEF OrElse
    <3> QED BY <3>3, <3>4
  <2> QED BY <2>4, <2>5
<1> QED BY <1>10, <1>11

\* Names mean what the importers declare once all are laid.
LEMMA NamesDeclared ==
    ASSUME WellDeclared(act), ModulesLaid(Len(act.inherited), Len(act.importers)),
           NEW d \in Readers(act), NEW n \in Names
    PROVE  Lookup(d, n) = DeclaredName(act, d, n)
<1>1. LinksAre(n) BY LinksLaid
<1>2. d \in Dirs BY DEF Readers
<1>3. WalkFinds(d, n, DeclaredName(act, d, n))
  <2>1. CASE Inherited(act, d) # {} BY <1>1, <1>2, <2>1, InheritedDeclared
  <2>2. CASE Inherited(act, d) = {}
    <3>1. IsPrefix(act.importers[1].dir, d) BY <2>2 DEF Readers
    <3>2. DeclaredName(act, d, n) = FirstLink(act.importers, n) BY <2>2 DEF DeclaredName
    <3> QED BY <1>1, <1>2, <2>2, <3>1, <3>2, ChainDeclared
  <2> QED BY <2>1, <2>2
<1> QED BY <1>2, <1>3, LookupIs

------------------------------------------------------------------------------
(* How far a phase is: left is what is not laid yet of its list.             *)

Suffix(s, list) ==
    /\ s \in Seq(AsSet(list)) /\ Len(s) <= Len(list)
    /\ \A i \in 1..Len(s) : s[i] = list[Len(list) - Len(s) + i]
Laid(list) == Len(list) - Len(left)

LEMMA SuffixWhole ==
    ASSUME NEW S, NEW list \in Seq(S) PROVE Suffix(list, list) /\ Len(list) - Len(list) = 0
BY DEF Suffix, AsSet

LEMMA SuffixStep ==
    ASSUME NEW S, NEW list \in Seq(S), NEW s, Suffix(s, list), s # <<>>
    PROVE  /\ Len(list) - Len(s) \in Nat /\ Len(list) - Len(s) + 1 \in 1..Len(list)
           /\ Head(s) = list[Len(list) - Len(s) + 1] /\ Head(s) \in S
           /\ Suffix(Tail(s), list)
           /\ Len(list) - Len(Tail(s)) = Len(list) - Len(s) + 1
<1>1. s \in Seq(AsSet(list)) /\ Len(s) \in Nat /\ Len(s) # 0 /\ Len(list) \in Nat
  BY DEF Suffix
<1>2. Len(s) <= Len(list) BY DEF Suffix
<1>3. Tail(s) \in Seq(AsSet(list)) /\ Len(Tail(s)) = Len(s) - 1
      /\ \A i \in 1..Len(Tail(s)) : Tail(s)[i] = s[i + 1]
  BY <1>1
<1>4. \A i \in 1..Len(s) : s[i] = list[Len(list) - Len(s) + i] BY DEF Suffix
<1>5. Head(s) = s[1] /\ 1 \in 1..Len(s) BY <1>1
<1>6. ASSUME NEW i \in 1..Len(Tail(s))
      PROVE  Tail(s)[i] = list[Len(list) - Len(Tail(s)) + i]
  <2>1. i + 1 \in 1..Len(s) /\ Len(list) - Len(s) + (i + 1) = Len(list) - Len(Tail(s)) + i
    BY <1>1, <1>3
  <2> QED BY <2>1, <1>3, <1>4
<1>7. Suffix(Tail(s), list) BY <1>1, <1>2, <1>3, <1>6 DEF Suffix
<1> QED BY <1>1, <1>2, <1>3, <1>4, <1>5, <1>7

LEMMA SuffixDone ==
    ASSUME NEW S, NEW list \in Seq(S) PROVE Len(list) - Len(<<>>) = Len(list)
OBVIOUS

------------------------------------------------------------------------------
(* What lies at a coordinate, by how far the phases are.                     *)

Copied(f) == [file |-> f, copy |-> TRUE]
Entries == [file : Files \cup {None, Config}, copy : BOOLEAN]

\* Of the first k sources.
SourcedTo(a, k, p, e) ==
    /\ \A j \in 1..k : At[a.sources[j]] = p => e = Link(a.sources[j])
    /\ (\A j \in 1..k : At[a.sources[j]] # p) => e = Empty
OnSource(a, p) == \E j \in 1..Len(a.sources) : At[a.sources[j]] = p
Sourced(a, p, e) == SourcedTo(a, Len(a.sources), p, e)

\* Of the first k of a list the last that publishes at p, or none.
Puts(s, j, p) == s[j].at = p /\ s[j].file \notin JavaScript
LastPut(s, k, p, e) ==
    \E j \in 1..k : /\ Puts(s, j, p) /\ e = Link(s[j].file)
                    /\ \A i \in 1..k : i > j => ~Puts(s, i, p)
NonePut(s, k, p) == \A j \in 1..k : ~Puts(s, j, p)

OverlaidTo(a, k, p, e) ==
    IF OnSource(a, p) THEN Sourced(a, p, e)
    ELSE /\ \/ NonePut(a.overlays, k, p) /\ e = Empty
            \/ LastPut(a.overlays, k, p, e)
         /\ p \in Declaration =>
              \A j \in 1..k : (Puts(a.overlays, j, p) => e = Link(a.overlays[j].file))
Overlaid(a, p, e) == OverlaidTo(a, Len(a.overlays), p, e)
ManifestedTo(a, k, p, e) ==
    IF OnSource(a, p) THEN Sourced(a, p, e)
    ELSE \/ LastPut(a.manifests, k, p, e)
         \/ NonePut(a.manifests, k, p) /\ Overlaid(a, p, e)
Manifested(a, p, e) == ManifestedTo(a, Len(a.manifests), p, e)
CopiedTo(a, k, p, e) ==
    \/ \E j \in 1..k : At[a.copies[j]] = p /\ e = Copied(a.copies[j])
    \/ (\A j \in 1..k : At[a.copies[j]] # p) /\ Manifested(a, p, e)
Final(a, p, e) ==
    IF a.discover /\ p = ConfigPath THEN e = Copied(Config)
    ELSE CopiedTo(a, Len(a.copies), p, e)

NotGenerated(a, k) == \A j \in 1..k : a.copies[j] \notin Generated

LEMMA ListTypes ==
    ASSUME NEW a, WellDeclared(a)
    PROVE  /\ a.sources \in Seq(Files) /\ a.copies \in Seq(Files)
           /\ a.importers \in Seq(Importer) /\ a.inherited \in Seq(Importer)
           /\ a.overlays \in Seq(Placed) /\ a.manifests \in Seq(Placed)
           /\ a.check \in BOOLEAN /\ a.verify \in BOOLEAN /\ a.discover \in BOOLEAN
BY DEF WellDeclared, ActionType

LEMMA ListCoordinates ==
    ASSUME NEW a, WellDeclared(a)
    PROVE  /\ \A j \in 1..Len(a.sources) : a.sources[j] \in Files /\ At[a.sources[j]] \in Paths
           /\ \A j \in 1..Len(a.copies) :
                /\ a.copies[j] \in Files
                /\ a.copies[j] \notin Generated => At[a.copies[j]] \in Paths
           /\ \A j \in 1..Len(a.overlays) : a.overlays[j] \in Placed
           /\ \A j \in 1..Len(a.manifests) : a.manifests[j] \in Placed
           /\ \A o \in Placed : o.file \in Files /\ o.at \in Paths
<1>1. \A j \in 1..Len(a.sources) : a.sources[j] \in AsSet(a.sources) /\ a.sources[j] \in Files
  BY ListTypes DEF AsSet
<1>2. \A j \in 1..Len(a.copies) : a.copies[j] \in AsSet(a.copies) /\ a.copies[j] \in Files
  BY ListTypes DEF AsSet
<1>3. \A f \in AsSet(a.sources) \cup (AsSet(a.copies) \ Generated) : At[f] \in Paths
  BY DEF WellDeclared
<1>4. /\ \A j \in 1..Len(a.overlays) : a.overlays[j] \in Placed
      /\ \A j \in 1..Len(a.manifests) : a.manifests[j] \in Placed
  BY ListTypes
<1>5. \A o \in Placed : o.file \in Files /\ o.at \in Paths BY DEF Placed
<1> QED BY <1>1, <1>2, <1>3, <1>4, <1>5

LEMMA EntryTypes ==
    /\ Empty \in Entries /\ Empty.file = None
    /\ Copied(Config) \in Entries
    /\ \A f \in Files : /\ Link(f) \in Entries /\ Copied(f) \in Entries /\ f # None
                        /\ Link(f).file = f /\ Copied(f).file = f /\ Link(f) # Empty
                        /\ \A g \in Files : Link(f) = Link(g) => f = g
BY FilesAssumption DEF Empty, Link, Copied, Entries

\* One source more: it lies at its coordinate or lay there already.
LEMMA SourceStep ==
    ASSUME NEW a, WellDeclared(a), NEW t \in [Paths -> Entries], NEW k \in Nat,
           k + 1 \in 1..Len(a.sources), \A p \in Paths : SourcedTo(a, k, p, t[p]),
           NEW f, f = a.sources[k + 1], t[At[f]].file \in {None, f},
           NEW u, u = IF t[At[f]].file = None THEN [t EXCEPT ![At[f]] = Link(f)] ELSE t
    PROVE  \A p \in Paths : SourcedTo(a, k + 1, p, u[p])
<1>1. f \in Files /\ At[f] \in Paths BY ListCoordinates
<1>2. \A j \in 1..(k + 1) : j \in 1..k \/ j = k + 1 OBVIOUS
<1>3. \A j \in 1..k : j \in 1..Len(a.sources) /\ j \in 1..(k + 1)
  <2>1. Len(a.sources) \in Nat BY ListTypes
  <2> QED BY <2>1
<1>4. u[At[f]] = Link(f) /\ \A p \in Paths : p # At[f] => u[p] = t[p]
  <2>1. CASE t[At[f]].file = None BY <2>1, <1>1
  <2>2. CASE t[At[f]].file # None
    <3>1. t[At[f]] # Empty BY <2>2, EntryTypes
    <3>2. PICK j \in 1..k : At[a.sources[j]] = At[f] BY <3>1, <1>1 DEF SourcedTo
    <3>3. t[At[f]] = Link(a.sources[j]) /\ a.sources[j] \in Files
      BY <3>2, <1>1, <1>3, ListCoordinates DEF SourcedTo
    <3>4. a.sources[j] = f BY <2>2, <3>3, EntryTypes
    <3> QED BY <2>2, <3>3, <3>4
  <2> QED BY <2>1, <2>2
<1> SUFFICES ASSUME NEW p \in Paths PROVE SourcedTo(a, k + 1, p, u[p])
  OBVIOUS
<1>5. CASE p = At[f]
  <2>1. ASSUME NEW j \in 1..k, At[a.sources[j]] = p PROVE u[p] = Link(a.sources[j])
    <3>1. t[p] = Link(a.sources[j]) /\ a.sources[j] \in Files
      BY <2>1, <1>3, ListCoordinates DEF SourcedTo
    <3>2. a.sources[j] = f BY <3>1, <1>5, EntryTypes
    <3> QED BY <3>2, <1>4, <1>5
  <2> QED BY <2>1, <1>2, <1>4, <1>5 DEF SourcedTo
<1>6. CASE p # At[f] BY <1>2, <1>3, <1>4, <1>6 DEF SourcedTo
<1> QED BY <1>5, <1>6

\* One publication more: at its coordinate it is the last, elsewhere none.
LEMMA PutStep ==
    ASSUME NEW S, NEW s \in Seq(S), NEW k \in Nat, k + 1 \in 1..Len(s), NEW p, NEW e
    PROVE  /\ Puts(s, k + 1, p) => LastPut(s, k + 1, p, Link(s[k + 1].file))
           /\ ~Puts(s, k + 1, p) =>
                /\ LastPut(s, k, p, e) => LastPut(s, k + 1, p, e)
                /\ NonePut(s, k, p) => NonePut(s, k + 1, p)
<1>1. \A j \in 1..(k + 1) : j \in 1..k \/ j = k + 1 OBVIOUS
<1>2. k + 1 \in 1..(k + 1) /\ \A i \in 1..(k + 1) : ~(i > k + 1) OBVIOUS
<1>3. Puts(s, k + 1, p) => LastPut(s, k + 1, p, Link(s[k + 1].file)) BY <1>2 DEF LastPut
<1>4. ASSUME ~Puts(s, k + 1, p), LastPut(s, k, p, e) PROVE LastPut(s, k + 1, p, e)
  <2>1. PICK j \in 1..k : /\ Puts(s, j, p) /\ e = Link(s[j].file)
                          /\ \A i \in 1..k : i > j => ~Puts(s, i, p)
    BY <1>4 DEF LastPut
  <2>2. j \in 1..(k + 1) /\ \A i \in 1..(k + 1) : i > j => ~Puts(s, i, p) BY <1>1, <1>4, <2>1
  <2> QED BY <2>1, <2>2 DEF LastPut
<1>5. ASSUME ~Puts(s, k + 1, p), NonePut(s, k, p) PROVE NonePut(s, k + 1, p)
  BY <1>1, <1>5 DEF NonePut
<1> QED BY <1>3, <1>4, <1>5

\* What Overlay asks of o, and what it leaves at the coordinate.
LEMMA OverlayStep ==
    ASSUME NEW a, WellDeclared(a), NEW t \in [Paths -> Entries], NEW k \in Nat,
           k + 1 \in 1..Len(a.overlays), \A p \in Paths : OverlaidTo(a, k, p, t[p]),
           NEW o, o = a.overlays[k + 1],
           NEW kept, kept <=> o.file \in JavaScript \/ OnSource(a, o.at),
           NEW same, same <=> o.at \in Declaration /\ t[o.at] # Empty,
           kept \/ ~same \/ t[o.at].file = o.file,
           NEW u, u = IF kept \/ same THEN t ELSE [t EXCEPT ![o.at] = Link(o.file)]
    PROVE  \A p \in Paths : OverlaidTo(a, k + 1, p, u[p])
<1>1. o \in Placed /\ o.file \in Files /\ o.at \in Paths BY ListCoordinates
<1>2. \A j \in 1..(k + 1) : j \in 1..k \/ j = k + 1 OBVIOUS
<1>3. \A p : Puts(a.overlays, k + 1, p) <=> p = o.at /\ o.file \notin JavaScript BY DEF Puts
<1>4. a.overlays \in Seq(Placed) BY ListTypes
<1>5. \A j \in 1..k : j \in 1..Len(a.overlays) BY <1>4
<1> SUFFICES ASSUME NEW p \in Paths PROVE OverlaidTo(a, k + 1, p, u[p])
  OBVIOUS
<1>6. CASE OnSource(a, p)
  <2>1. u[p] = t[p] BY <1>1, <1>6
  <2> QED BY <1>6, <2>1 DEF OverlaidTo
<1>7. CASE ~OnSource(a, p) /\ ~Puts(a.overlays, k + 1, p)
  <2>1. u[p] = t[p] BY <1>1, <1>3, <1>7
  <2>2. OverlaidTo(a, k, p, u[p]) BY <2>1
  <2>3. \/ NonePut(a.overlays, k + 1, p) /\ u[p] = Empty
        \/ LastPut(a.overlays, k + 1, p, u[p])
    BY <1>4, <1>7, <2>2, PutStep DEF OverlaidTo
  <2>4. p \in Declaration =>
          \A j \in 1..(k + 1) : (Puts(a.overlays, j, p) => u[p] = Link(a.overlays[j].file))
    BY <1>2, <1>7, <2>2 DEF OverlaidTo
  <2> QED BY <1>7, <2>3, <2>4 DEF OverlaidTo
<1>8. CASE ~OnSource(a, p) /\ Puts(a.overlays, k + 1, p)
  <2>1. p = o.at /\ ~kept BY <1>3, <1>8
  <2>2. OverlaidTo(a, k, p, t[p]) OBVIOUS
  <2>3. u[p] = Link(o.file)
    <3>1. CASE same
      <4>1. u[p] = t[p] /\ t[p].file = o.file /\ t[p] # Empty BY <2>1, <3>1
      <4>2. LastPut(a.overlays, k, p, t[p]) BY <1>8, <2>2, <4>1 DEF OverlaidTo
      <4>3. PICK j \in 1..k : t[p] = Link(a.overlays[j].file) BY <4>2 DEF LastPut
      <4>4. a.overlays[j].file \in Files BY <1>5, ListCoordinates
      <4> QED BY <4>1, <4>3, <4>4, EntryTypes
    <3>2. CASE ~same BY <1>1, <2>1, <3>2
    <3> QED BY <3>1, <3>2
  <2>4. LastPut(a.overlays, k + 1, p, u[p]) BY <1>4, <1>8, <2>3, PutStep
  <2>5. ASSUME p \in Declaration, NEW j \in 1..(k + 1), Puts(a.overlays, j, p)
        PROVE  u[p] = Link(a.overlays[j].file)
    <3>1. CASE j = k + 1 BY <2>3, <3>1
    <3>2. CASE j \in 1..k
      <4>1. t[p] = Link(a.overlays[j].file) BY <1>8, <2>2, <2>5, <3>2 DEF OverlaidTo
      <4>2. a.overlays[j].file \in Files BY <1>5, <3>2, ListCoordinates
      <4>3. same BY <2>1, <2>5, <4>1, <4>2, EntryTypes
      <4> QED BY <2>1, <4>1, <4>3
    <3> QED BY <1>2, <3>1, <3>2
  <2> QED BY <1>8, <2>4, <2>5 DEF OverlaidTo
<1> QED BY <1>6, <1>7, <1>8

LEMMA ManifestStep ==
    ASSUME NEW a, WellDeclared(a), NEW t \in [Paths -> Entries], NEW k \in Nat,
           k + 1 \in 1..Len(a.manifests), \A p \in Paths : ManifestedTo(a, k, p, t[p]),
           NEW o, o = a.manifests[k + 1],
           NEW kept, kept <=> o.file \in JavaScript \/ OnSource(a, o.at),
           NEW u, u = IF kept THEN t ELSE [t EXCEPT ![o.at] = Link(o.file)]
    PROVE  \A p \in Paths : ManifestedTo(a, k + 1, p, u[p])
<1>1. o \in Placed /\ o.file \in Files /\ o.at \in Paths BY ListCoordinates
<1>2. \A p : Puts(a.manifests, k + 1, p) <=> p = o.at /\ o.file \notin JavaScript BY DEF Puts
<1>3. a.manifests \in Seq(Placed) BY ListTypes
<1> SUFFICES ASSUME NEW p \in Paths PROVE ManifestedTo(a, k + 1, p, u[p])
  OBVIOUS
<1>4. CASE OnSource(a, p)
  <2>1. u[p] = t[p] BY <1>1, <1>4
  <2> QED BY <1>4, <2>1 DEF ManifestedTo
<1>5. CASE ~OnSource(a, p) /\ ~Puts(a.manifests, k + 1, p)
  <2>1. u[p] = t[p] BY <1>1, <1>2, <1>5
  <2>2. ManifestedTo(a, k, p, u[p]) BY <2>1
  <2> QED BY <1>3, <1>5, <2>2, PutStep DEF ManifestedTo
<1>6. CASE ~OnSource(a, p) /\ Puts(a.manifests, k + 1, p)
  <2>1. u[p] = Link(o.file) BY <1>1, <1>2, <1>6
  <2> QED BY <1>3, <1>6, <2>1, PutStep DEF ManifestedTo
<1> QED BY <1>4, <1>5, <1>6

LEMMA CopyStep ==
    ASSUME NEW a, WellDeclared(a), NEW t \in [Paths -> Entries], NEW k \in Nat,
           k + 1 \in 1..Len(a.copies), \A p \in Paths : CopiedTo(a, k, p, t[p]),
           NEW f, f = a.copies[k + 1], f \notin Generated, NotGenerated(a, k),
           NEW u, u = [t EXCEPT ![At[f]] = Copied(f)]
    PROVE  NotGenerated(a, k + 1) /\ \A p \in Paths : CopiedTo(a, k + 1, p, u[p])
<1>1. f \in Files /\ At[f] \in Paths BY ListCoordinates
<1>2. \A j \in 1..(k + 1) : j \in 1..k \/ j = k + 1 OBVIOUS
<1>3. \A j \in 1..k : j \in 1..(k + 1) OBVIOUS
<1>4. ASSUME NEW p \in Paths PROVE CopiedTo(a, k + 1, p, u[p])
  <2>1. CASE p = At[f] BY <1>1, <2>1 DEF CopiedTo
  <2>2. CASE p # At[f]
    <3>1. u[p] = t[p] /\ CopiedTo(a, k, p, t[p]) BY <1>1, <2>2
    <3> QED BY <1>2, <1>3, <2>2, <3>1 DEF CopiedTo
  <2> QED BY <2>1, <2>2
<1> QED BY <1>2, <1>4 DEF NotGenerated

\* A root that was laid without an error is well placed.
LEMMA OverlaidWell ==
    ASSUME NEW a, WellDeclared(a), NEW t, \A p \in Paths : Overlaid(a, p, t[p])
    PROVE  WellPlaced(a)
<1>1. DOMAIN a.sources = 1..Len(a.sources) /\ DOMAIN a.overlays = 1..Len(a.overlays)
  BY ListTypes
<1>2. \A p \in Paths : OnSource(a, p) <=> SourcesAt(a, p) # {}
  BY <1>1 DEF OnSource, SourcesAt, AsSet
<1>3. ASSUME NEW p \in Paths, NEW f \in SourcesAt(a, p), NEW g \in SourcesAt(a, p) PROVE f = g
  <2>1. Sourced(a, p, t[p]) BY <1>2, <1>3 DEF Overlaid, OverlaidTo
  <2>2. \A h \in SourcesAt(a, p) : h \in Files /\ t[p] = Link(h)
    BY <1>1, <2>1, ListCoordinates DEF Sourced, SourcedTo, SourcesAt, AsSet
  <2> QED BY <2>2, EntryTypes
<1>4. ASSUME NEW p \in Declaration, SourcesAt(a, p) = {},
             NEW f \in Published(a.overlays, p), NEW g \in Published(a.overlays, p)
      PROVE  f = g
  <2>1. PICK i \in 1..Len(a.overlays) : f = a.overlays[i].file /\ Puts(a.overlays, i, p)
    BY <1>1, <1>4 DEF Published, Publishing, Puts
  <2>2. PICK j \in 1..Len(a.overlays) : g = a.overlays[j].file /\ Puts(a.overlays, j, p)
    BY <1>1, <1>4 DEF Published, Publishing, Puts
  <2>3. p \in Paths BY <2>1, ListCoordinates DEF Puts
  <2>4. ~OnSource(a, p) /\ Overlaid(a, p, t[p]) BY <1>2, <1>4, <2>3
  <2>5. t[p] = Link(f) /\ t[p] = Link(g) BY <1>4, <2>1, <2>2, <2>4 DEF Overlaid, OverlaidTo
  <2>6. f \in Files /\ g \in Files BY <2>1, <2>2, ListCoordinates
  <2> QED BY <2>5, <2>6, EntryTypes
<1> QED BY <1>3, <1>4 DEF WellPlaced

LEMMA LastPublishedIs ==
    ASSUME NEW s \in Seq(Placed), NEW p, NEW e, LastPut(s, Len(s), p, e)
    PROVE  Published(s, p) # {} /\ e = Link(LastPublished(s, p))
<1> DEFINE P == Publishing(s, p)
           IsLast(j) == \A i \in P : i <= j
<1>1. P = {j \in 1..Len(s) : Puts(s, j, p)} /\ \A j \in P : j \in Nat BY DEF Publishing, Puts
<1>2. PICK j \in 1..Len(s) : /\ Puts(s, j, p) /\ e = Link(s[j].file)
                             /\ \A i \in 1..Len(s) : i > j => ~Puts(s, i, p)
  BY DEF LastPut
<1>3. j \in P /\ IsLast(j) BY <1>1, <1>2
<1> DEFINE c == CHOOSE c \in P : IsLast(c)
<1>4. c \in P /\ IsLast(c) BY <1>3
<1>5. c = j BY <1>1, <1>3, <1>4
<1>6. LastPublished(s, p) = s[c].file BY DEF LastPublished
<1>7. Published(s, p) # {} BY <1>3 DEF Published
<1> QED BY <1>2, <1>5, <1>6, <1>7

LEMMA NonePublished ==
    ASSUME NEW s \in Seq(Placed), NEW p, NonePut(s, Len(s), p) PROVE Published(s, p) = {}
<1>1. DOMAIN s = 1..Len(s) OBVIOUS
<1> QED BY <1>1 DEF NonePut, Published, Publishing, Puts

\* What lies at a coordinate in the end is what is declared for it.
LEMMA FinalIs ==
    ASSUME NEW a, WellDeclared(a), WellPlaced(a), NotGenerated(a, Len(a.copies)),
           NEW p \in Paths, NEW e, Final(a, p, e)
    PROVE  e.file = DeclaredAt(a, p)
<1> DEFINE C == {f \in AsSet(a.copies) : At[f] = p}
<1>1. /\ DOMAIN a.sources = 1..Len(a.sources) /\ DOMAIN a.copies = 1..Len(a.copies)
      /\ a.overlays \in Seq(Placed) /\ a.manifests \in Seq(Placed)
  BY ListTypes
<1>2. CASE a.discover /\ p = ConfigPath BY <1>2 DEF Final, DeclaredAt, Copied
<1>3. CASE ~(a.discover /\ p = ConfigPath) /\ C # {}
  <2>1. PICK j \in 1..Len(a.copies) : At[a.copies[j]] = p /\ e = Copied(a.copies[j])
    BY <1>1, <1>3 DEF Final, CopiedTo, AsSet
  <2>2. \A f \in C : f \in AsSet(a.copies) \ Generated /\ At[f] = p
    BY <1>1 DEF NotGenerated, AsSet
  <2>3. a.copies[j] \in C BY <1>1, <2>1 DEF AsSet
  <2>4. \A f \in C : f = a.copies[j] BY <2>2, <2>3 DEF WellDeclared
  <2>5. DeclaredAt(a, p) = CHOOSE f \in AsSet(a.copies) : At[f] = p
    BY <1>3, <2>3 DEF DeclaredAt
  <2>6. DeclaredAt(a, p) = a.copies[j] BY <2>3, <2>4, <2>5
  <2> QED BY <2>1, <2>6 DEF Copied
<1>4. CASE ~(a.discover /\ p = ConfigPath) /\ C = {}
  <2>1. Manifested(a, p, e) BY <1>1, <1>4 DEF Final, CopiedTo, AsSet
  <2>2. OnSource(a, p) <=> SourcesAt(a, p) # {} BY <1>1 DEF OnSource, SourcesAt, AsSet
  <2>3. ~\E f \in AsSet(a.copies) : At[f] = p BY <1>4
  <2>4. CASE OnSource(a, p)
    <3>1. Sourced(a, p, e) BY <2>1, <2>4 DEF Manifested, ManifestedTo
    <3>2. \A f \in SourcesAt(a, p) : e = Link(f) BY <1>1, <3>1 DEF Sourced, SourcedTo, SourcesAt, AsSet
    <3>3. DeclaredAt(a, p) = CHOOSE f \in SourcesAt(a, p) : TRUE
      BY <1>4, <2>2, <2>3, <2>4 DEF DeclaredAt
    <3>4. DeclaredAt(a, p) \in SourcesAt(a, p) BY <2>2, <2>4, <3>3
    <3> QED BY <3>2, <3>4 DEF Link
  <2>5. CASE ~OnSource(a, p) /\ LastPut(a.manifests, Len(a.manifests), p, e)
    <3>1. Published(a.manifests, p) # {} /\ e = Link(LastPublished(a.manifests, p))
      BY <1>1, <2>5, LastPublishedIs
    <3> QED BY <1>4, <2>2, <2>3, <2>5, <3>1 DEF DeclaredAt, Link
  <2>6. CASE ~OnSource(a, p) /\ NonePut(a.manifests, Len(a.manifests), p) /\ Overlaid(a, p, e)
    <3>1. Published(a.manifests, p) = {} BY <1>1, <2>6, NonePublished
    <3>2. CASE LastPut(a.overlays, Len(a.overlays), p, e)
      <4>1. Published(a.overlays, p) # {} /\ e = Link(LastPublished(a.overlays, p))
        BY <1>1, <3>2, LastPublishedIs
      <4> QED BY <1>4, <2>2, <2>3, <2>6, <3>1, <4>1 DEF DeclaredAt, Link
    <3>3. CASE NonePut(a.overlays, Len(a.overlays), p) /\ e = Empty
      <4>1. Published(a.overlays, p) = {} BY <1>1, <3>3, NonePublished
      <4> QED BY <1>4, <2>2, <2>3, <2>6, <3>1, <3>3, <4>1 DEF DeclaredAt, Empty
    <3> QED BY <2>6, <3>2, <3>3 DEF Overlaid, OverlaidTo
  <2> QED BY <2>1, <2>4, <2>5, <2>6 DEF Manifested, ManifestedTo
<1> QED BY <1>2, <1>3, <1>4

------------------------------------------------------------------------------
(* Laying one importer more.                                                 *)

\* What a directory comes to link is a link of some importer.
LEMMA FirstLinkType ==
    ASSUME NEW s \in Seq(Importer), NEW n \in Names PROVE FirstLink(s, n) \in Files \cup {None}
<1>1. FirstIs(s, n, FirstLink(s, n)) BY FirstLinkIs
<1>2. \A i \in DOMAIN s : s[i] \in Importer OBVIOUS
<1> QED BY <1>1, <1>2, ImporterIs DEF FirstIs

LEMMA BroughtType ==
    ASSUME WellDeclared(act)
    PROVE  /\ \A j \in 1..Len(act.inherited) : Brought(j) \in [Names -> Files \cup {None}]
           /\ \A i \in 1..Len(act.importers) : Chained(i) \in [Names -> Files \cup {None}]
<1>1. ASSUME NEW s \in Seq(Importer) PROVE Merge(s) \in [Names -> Files \cup {None}]
  BY FirstLinkType DEF Merge
<1>2. \A i \in Importer : i.links \in [Names -> Files \cup {None}] BY DEF Importer
<1>3. \A i \in Importer : <<i>> \o Chain \in Seq(Importer) BY ImporterTypes
<1> QED BY <1>1, <1>2, <1>3, ImporterTypes DEF Brought, Chained

LEMMA BroughtStays ==
    ASSUME act' = act, NEW j PROVE Brought(j)' = Brought(j) /\ Chained(j)' = Chained(j) /\ LinkedAt(j)' = LinkedAt(j)
BY DEF Brought, Chained, LinkedAt, Chain, SkipsAncestors

LEMMA ModulesStay ==
    ASSUME act' = act, modules' = modules, NEW k, NEW c, ModulesLaid(k, c)
    PROVE  ModulesLaid(k, c)'
BY BroughtStays DEF ModulesLaid

LEMMA LayInherited ==
    ASSUME WellDeclared(act), modules \in [Dirs -> [Names -> Files \cup {None}]], act' = act,
           NEW k \in Nat, k + 1 \in 1..Len(act.inherited), ModulesLaid(k, 0),
           modules' = [modules EXCEPT ![act.inherited[k + 1].dir] = Brought(k + 1)]
    PROVE  ModulesLaid(k + 1, 0)'
<1> DEFINE dir(j) == act.inherited[j].dir
<1>1. \A j \in 1..(k + 1) : j \in 1..k \/ j = k + 1 OBVIOUS
<1>2. \A j \in 1..(k + 1) : j \in 1..Len(act.inherited)
  <2>1. Len(act.inherited) \in Nat BY ImporterTypes
  <2> QED BY <2>1
<1>3. \A j \in 1..(k + 1) : dir(j) \in Dirs BY <1>2, ImporterTypes, ImporterIs
<1>4. \A j \in 1..k : dir(j) # dir(k + 1) BY <1>2, ChainFacts
<1>5. \A j \in 1..(k + 1) : modules'[dir(j)] = Brought(j)
  BY <1>1, <1>3, <1>4 DEF ModulesLaid
<1>6. ASSUME NEW d \in Dirs, modules'[d] # NoLinks PROVE \E j \in 1..(k + 1) : d = dir(j)
  <2>1. CASE d = dir(k + 1) BY <2>1
  <2>2. CASE d # dir(k + 1)
    <3>1. modules[d] # NoLinks BY <1>3, <1>6, <2>2
    <3>2. PICK j \in 1..k : d = dir(j) BY <3>1 DEF ModulesLaid
    <3> QED BY <3>2
  <2> QED BY <2>1, <2>2
<1>7. \A d \in Dirs : modules'[d] # NoLinks' => \E j \in 1..(k + 1) : d = dir(j)
  BY <1>6 DEF NoLinks
<1> QED BY <1>5, <1>7, BroughtStays DEF ModulesLaid

LEMMA LayImporter ==
    ASSUME WellDeclared(act), modules \in [Dirs -> [Names -> Files \cup {None}]], act' = act,
           NEW l, l = Len(act.inherited),
           NEW k \in Nat, k + 1 \in 1..Len(act.importers), ModulesLaid(l, k),
           modules' = [modules EXCEPT ![LinkedAt(k + 1)] = Chained(k + 1)]
    PROVE  ModulesLaid(l, k + 1)'
<1>1. \A j \in 1..(k + 1) : j \in 1..k \/ j = k + 1 OBVIOUS
<1>2. \A j \in 1..(k + 1) : j \in 1..Len(act.importers)
  <2>1. Len(act.importers) \in Nat BY ImporterTypes
  <2> QED BY <2>1
<1>3. \A j \in 1..Len(act.importers) :
         /\ LinkedAt(j) \in Dirs
         /\ j < Len(act.importers) => j \in 1..Len(Chain) /\ LinkedAt(j) = act.importers[j].dir
         /\ ~(j < Len(act.importers)) => LinkedAt(j) = Root
  BY ImporterTypes, ImporterIs, RootIsPrefix DEF LinkedAt
<1>4. \A j \in 1..k : LinkedAt(j) # LinkedAt(k + 1)
  <2> SUFFICES ASSUME NEW j \in 1..k PROVE LinkedAt(j) # LinkedAt(k + 1)
    OBVIOUS
  <2>1. j < k + 1 /\ j \in 1..Len(act.importers) /\ j < Len(act.importers)
    BY <1>2, ImporterTypes
  <2>2. CASE k + 1 < Len(act.importers)
    <3>1. ~IsPrefix(act.importers[j].dir, act.importers[k + 1].dir)
      BY <1>3, <2>1, <2>2, ChainFacts
    <3> QED BY <1>2, <1>3, <2>1, <2>2, <3>1, PrefixSelf
  <2>3. CASE ~(k + 1 < Len(act.importers)) BY <1>3, <2>1, <2>3, ChainFacts
  <2> QED BY <2>2, <2>3
<1>5. \A j \in 1..l : act.inherited[j].dir # LinkedAt(k + 1)
  BY <1>3, ChainFacts
<1>6. \A j \in 1..(k + 1) : modules'[LinkedAt(j)] = Chained(j)
  BY <1>1, <1>2, <1>3, <1>4 DEF ModulesLaid
<1>7. \A j \in 1..l : modules'[act.inherited[j].dir] = Brought(j)
  <2>1. \A j \in 1..l : act.inherited[j].dir \in Dirs BY ImporterTypes, ImporterIs
  <2> QED BY <1>5, <2>1 DEF ModulesLaid
<1>8. ASSUME NEW d \in Dirs, modules'[d] # NoLinks
      PROVE  \/ \E j \in 1..l : d = act.inherited[j].dir
             \/ \E j \in 1..(k + 1) : d = LinkedAt(j)
  <2>1. CASE d = LinkedAt(k + 1) BY <2>1
  <2>2. CASE d # LinkedAt(k + 1)
    <3>1. modules[d] # NoLinks BY <1>3, <1>8, <2>2
    <3>2. \A j \in 1..k : j \in 1..(k + 1) OBVIOUS
    <3> QED BY <3>1, <3>2 DEF ModulesLaid
  <2> QED BY <2>1, <2>2
<1>9. \A d \in Dirs : modules'[d] # NoLinks' =>
         \/ \E j \in 1..l : d = act.inherited[j].dir
         \/ \E j \in 1..(k + 1) : d = LinkedAt(j)
  BY <1>8 DEF NoLinks
<1> QED BY <1>6, <1>7, <1>9, BroughtStays DEF ModulesLaid

------------------------------------------------------------------------------
(* What a checked program reads.                                             *)

\* The tool's listing, which realpaths some of the coordinates it read.
ListingOf(real) ==
    [files |-> {Listed(p, real) : p \in Program},
     edges |-> UNION {{<<Listed(p, real), IF r \in Paths THEN Listed(r, real) ELSE r>> :
                         r \in Reads(tree[p].file)} :
                      p \in {q \in Program : tree[q].file # Config}}]
Checked ==
    /\ \A f \in act.own \ act.json : At[f] \in DeclaredProgram(act)
    /\ \A f \in act.own : \A g \in Reached(act, f) : Usable(act, g)

\* With neither copies nor a discovered config all is linked.
LEMMA FinalLinks ==
    ASSUME NEW a, WellDeclared(a), a.check, NEW p \in Paths, NEW e, Final(a, p, e)
    PROVE  \/ e = Empty /\ ~OnSource(a, p)
           \/ \E f \in AsSet(a.sources) : At[f] = p /\ e = Link(f)
           \/ \E o \in AsSet(a.overlays) \cup AsSet(a.manifests) :
                o.at = p /\ e = Link(o.file) /\ ~OnSource(a, p)
<1>1. a.copies = <<>> /\ ~a.discover BY DEF WellDeclared
<1>2. Manifested(a, p, e) BY <1>1 DEF Final, CopiedTo
<1>3. /\ DOMAIN a.sources = 1..Len(a.sources) /\ DOMAIN a.overlays = 1..Len(a.overlays)
      /\ DOMAIN a.manifests = 1..Len(a.manifests)
  BY ListTypes
<1>4. CASE OnSource(a, p)
  BY <1>2, <1>3, <1>4 DEF Manifested, ManifestedTo, Sourced, SourcedTo, OnSource, AsSet
<1>5. CASE ~OnSource(a, p)
  <2>1. CASE LastPut(a.manifests, Len(a.manifests), p, e)
    BY <1>3, <1>5, <2>1 DEF LastPut, Puts, AsSet
  <2>2. CASE LastPut(a.overlays, Len(a.overlays), p, e)
    BY <1>3, <1>5, <2>2 DEF LastPut, Puts, AsSet
  <2> QED BY <1>2, <1>5, <2>1, <2>2 DEF Manifested, ManifestedTo, Overlaid, OverlaidTo
<1> QED BY <1>4, <1>5

LEMMA LookupType ==
    ASSUME modules \in [Dirs -> [Names -> Files \cup {None}]], NEW d \in Dirs, NEW n \in Names
    PROVE  Lookup(d, n) \in Files \cup {None}
<1> DEFINE L == {e \in Above(d) : modules[e][n] # None}
           Nearest(e) == \A f \in L : Len(f) <= Len(e)
<1>1. CASE L = {} BY <1>1 DEF Lookup
<1>2. CASE L # {}
  <2>1. \E e \in L : Nearest(e)
    <3>1. L \in SUBSET Above(d) OBVIOUS
    <3> HIDE DEF L
    <3> QED BY <1>2, <3>1, NearestDir
  <2> DEFINE c == CHOOSE c \in L : Nearest(c)
  <2>2. c \in L BY <2>1
  <2>3. Lookup(d, n) = modules[c][n] BY <1>2 DEF Lookup
  <2> HIDE DEF c
  <2> QED BY <2>2, <2>3 DEF Above
<1> QED BY <1>1, <1>2

\* The root that is declared: what it takes for a check.
RootDeclared ==
    /\ WellDeclared(act) /\ act.check
    /\ tree \in [Paths -> Entries] /\ modules \in [Dirs -> [Names -> Files \cup {None}]]
    /\ \A p \in Paths : Final(act, p, tree[p]) /\ tree[p].file = DeclaredAt(act, p)
    /\ \A d \in Readers(act), n \in Names : Lookup(d, n) = DeclaredName(act, d, n)

LEMMA TreeFiles ==
    ASSUME RootDeclared, NEW p \in Paths
    PROVE  /\ tree[p] = Empty <=> tree[p].file = None
           /\ tree[p].file \in Files \cup {None}
           /\ \A f \in AsSet(act.sources) : At[f] = p => tree[p] # Empty
<1>1. WellDeclared(act) /\ act.check /\ Final(act, p, tree[p]) BY DEF RootDeclared
<1>2. /\ DOMAIN act.sources = 1..Len(act.sources) /\ DOMAIN act.overlays = 1..Len(act.overlays)
      /\ DOMAIN act.manifests = 1..Len(act.manifests)
  BY <1>1, ListTypes
<1>3. /\ \A f \in AsSet(act.sources) : f \in Files
      /\ \A o \in AsSet(act.overlays) \cup AsSet(act.manifests) : o.file \in Files
  BY <1>1, <1>2, ListCoordinates DEF AsSet
<1>4. tree[p] = Empty \/ \E f \in Files : tree[p] = Link(f) BY <1>1, <1>3, FinalLinks
<1>5. \A f \in AsSet(act.sources) : At[f] = p => OnSource(act, p) BY <1>2 DEF OnSource, AsSet
<1>6. OnSource(act, p) => tree[p] # Empty BY <1>1, <1>3, FinalLinks, EntryTypes
<1> QED BY <1>4, <1>5, <1>6, EntryTypes

LEMMA ReadsAre ==
    ASSUME RootDeclared, NEW f \in Files
    PROVE  /\ Reads(f) \cap Paths = {q \in act.imports[f] \cap Paths : DeclaredAt(act, q) # None}
           /\ \A w \in Reads(f) : w \in Paths \/ w \in Files
<1>1. \A q \in Paths : tree[q] # Empty <=> DeclaredAt(act, q) # None
  BY TreeFiles DEF RootDeclared
<1>2. act.home[f] \in Dirs BY DEF RootDeclared, WellDeclared, ActionType
<1>3. \A n \in Names : Lookup(act.home[f], n) \in Files \cup {None}
  BY <1>2, LookupType DEF RootDeclared
<1>4. \A w \in Reads(f) : \/ w \in act.imports[f] \cap Paths /\ tree[w] # Empty
                          \/ w \in Files
  BY <1>3 DEF Reads
<1>5. \A w \in act.imports[f] \cap Paths : tree[w] # Empty => w \in Reads(f)
  BY DEF Reads
<1> QED BY <1>1, <1>4, <1>5, FilesAssumption

LEMMA ProgramIsDeclared ==
    ASSUME RootDeclared PROVE Program = DeclaredProgram(act)
<1> DEFINE f == [p \in Paths |-> IF tree[p].file \in {None, Config} THEN {}
                                ELSE Reads(tree[p].file) \cap Paths]
           g == [p \in Paths |-> IF DeclaredAt(act, p) \in {None, Config} THEN {}
                                ELSE {q \in act.imports[DeclaredAt(act, p)] \cap Paths :
                                        DeclaredAt(act, q) # None}]
<1>1. ASSUME NEW p \in Paths PROVE f[p] = g[p]
  <2>1. tree[p].file = DeclaredAt(act, p) BY DEF RootDeclared
  <2>2. CASE tree[p].file \in {None, Config} BY <2>1, <2>2
  <2>3. CASE tree[p].file \notin {None, Config}
    <3>1. tree[p].file \in Files BY <2>3, TreeFiles
    <3>2. Reads(tree[p].file) \cap Paths
            = {q \in act.imports[tree[p].file] \cap Paths : DeclaredAt(act, q) # None}
      BY <3>1, ReadsAre
    <3> QED BY <2>1, <2>3, <3>2
  <2> QED BY <2>2, <2>3
<1>2. f = g BY <1>1
<1>3. Program = ReachedFrom(ProgramRoots(act), f) BY DEF Program
<1>4. DeclaredProgram(act) = ReachedFrom(ProgramRoots(act), g) BY DEF DeclaredProgram
<1> QED BY <1>2, <1>3, <1>4

\* Roots are in the program, and what is in it is there.
LEMMA ProgramIsThere ==
    ASSUME RootDeclared
    PROVE  /\ \A f \in AsSet(act.sources) \ (act.exclude \cup act.json) : At[f] \in Program
           /\ \A p \in Program : p \in Paths /\ tree[p] # Empty
<1> DEFINE reads == [p \in Paths |-> IF tree[p].file \in {None, Config} THEN {}
                                    ELSE Reads(tree[p].file) \cap Paths]
           There == {p \in Paths : tree[p] # Empty}
<1>1. \A f \in AsSet(act.sources) : At[f] \in Paths BY DEF RootDeclared, WellDeclared
<1>2. ProgramRoots(act) \subseteq There BY <1>1, TreeFiles DEF ProgramRoots
<1>3. ASSUME NEW q \in There PROVE reads[q] \subseteq There
  <2>1. CASE tree[q].file \in {None, Config} BY <2>1
  <2>2. CASE tree[q].file \notin {None, Config}
    <3>1. tree[q].file \in Files BY <2>2, TreeFiles
    <3>2. \A w \in Reads(tree[q].file) \cap Paths : DeclaredAt(act, w) # None BY <3>1, ReadsAre
    <3>3. \A w \in Paths : DeclaredAt(act, w) # None => w \in There BY TreeFiles DEF RootDeclared
    <3> QED BY <2>2, <3>2, <3>3
  <2> QED BY <2>1, <2>2
<1>4. Program = ReachedFrom(ProgramRoots(act), reads) BY DEF Program
<1>5. There \in SUBSET Paths OBVIOUS
<1> HIDE DEF reads, There
<1>6. \A p \in Program : p \in Paths /\ p \in There BY <1>2, <1>3, <1>4, <1>5 DEF ReachedFrom
<1>7. ProgramRoots(act) \subseteq Program BY <1>2, <1>4, <1>5 DEF ReachedFrom
<1>8. \A f \in AsSet(act.sources) \ (act.exclude \cup act.json) : At[f] \in ProgramRoots(act)
  BY DEF ProgramRoots
<1> QED BY <1>6, <1>7, <1>8 DEF There

\* Wherever it was listed, a file is followed back to what was declared.
LEMMA ThroughListed ==
    ASSUME RootDeclared, NEW p \in Paths, NEW real
    PROVE  ThroughRoot(Listed(p, real)) = tree[p].file
BY TreeFiles, FilesAssumption DEF ThroughRoot, Listed

LEMMA CheckedPasses ==
    ASSUME RootDeclared, NEW real, listing = ListingOf(real), ExcludedSrcs = {}, Undeclared = {}
    PROVE  Checked
<1>1. /\ WellDeclared(act) /\ act.own \subseteq AsSet(act.sources)
      /\ \A f \in AsSet(act.sources) : At[f] \in Paths
      /\ DOMAIN act.sources = 1..Len(act.sources)
  BY ListTypes DEF RootDeclared, WellDeclared
<1>2. \A f \in AsSet(act.sources) : f \in Files BY <1>1, ListCoordinates DEF AsSet
\* Every own source is in the program.
<1>3. ASSUME NEW f \in act.own \ act.json PROVE At[f] \in Program
  <2>1. CASE f \notin act.exclude BY <1>1, <2>1, ProgramIsThere
  <2>2. CASE f \in act.exclude
    <3>1. At[f] \in {At[ThroughRoot(l)] : l \in listing.files} BY <1>3, <2>2 DEF ExcludedSrcs
    <3>2. listing.files = {Listed(p, real) : p \in Program} BY DEF ListingOf
    <3>3. PICK p \in Program : At[f] = At[ThroughRoot(Listed(p, real))] BY <3>1, <3>2
    <3>4. p \in Paths /\ tree[p] # Empty BY ProgramIsThere
    <3>5. At[f] = At[tree[p].file] BY <3>3, <3>4, ThroughListed
    <3>6. \/ \E g \in AsSet(act.sources) : At[g] = p /\ tree[p] = Link(g)
          \/ \E o \in AsSet(act.overlays) \cup AsSet(act.manifests) : o.at = p /\ tree[p] = Link(o.file)
      BY <3>4, FinalLinks DEF RootDeclared
    <3>7. CASE \E g \in AsSet(act.sources) : At[g] = p /\ tree[p] = Link(g)
      BY <3>5, <3>7 DEF Link
    <3>8. CASE \E o \in AsSet(act.overlays) \cup AsSet(act.manifests) : o.at = p /\ tree[p] = Link(o.file)
      <4>1. PICK o \in AsSet(act.overlays) \cup AsSet(act.manifests) : o.at = p /\ tree[p] = Link(o.file)
        BY <3>8
      <4>2. At[o.file] = At[f] BY <3>5, <4>1 DEF Link
      <4>3. o.at = At[f] BY <1>1, <1>3, <4>2 DEF WellDeclared
      <4> QED BY <4>1, <4>3
    <3> QED BY <3>6, <3>7, <3>8
  <2> QED BY <2>1, <2>2
\* What it reaches is among the edges.
<1>4. ASSUME NEW f \in act.own, NEW g \in Reached(act, f) PROVE Usable(act, g)
  <2>1. f \notin act.json BY <1>1, <1>4 DEF WellDeclared, Reached
  <2>2. At[f] \in Program /\ At[f] \in Paths /\ f \in Files BY <1>1, <1>2, <1>3, <2>1
  <2>3. tree[At[f]].file = f
    <3>1. PICK j \in 1..Len(act.sources) : f = act.sources[j] BY <1>1 DEF AsSet
    <3>2. OnSource(act, At[f]) BY <3>1 DEF OnSource
    <3>3. Manifested(act, At[f], tree[At[f]])
      BY <1>1, <2>2 DEF RootDeclared, Final, CopiedTo, WellDeclared
    <3>4. tree[At[f]] = Link(f)
      BY <3>1, <3>2, <3>3 DEF Manifested, ManifestedTo, Sourced, SourcedTo
    <3> QED BY <3>4 DEF Link
  <2>4. f # Config BY <2>2, FilesAssumption
  <2> DEFINE edge(r) == <<Listed(At[f], real), IF r \in Paths THEN Listed(r, real) ELSE r>>
  <2>5. \A r \in Reads(f) : edge(r) \in listing.edges BY <2>2, <2>3, <2>4 DEF ListingOf
  <2>6. ThroughRoot(Listed(At[f], real)) = f BY <2>2, <2>3, ThroughListed
  <2>7. ASSUME NEW r \in Reads(f)
        PROVE  Usable(act, ThroughRoot(IF r \in Paths THEN Listed(r, real) ELSE r))
    <3>1. edge(r) \in listing.edges /\ ThroughRoot(edge(r)[1]) \in act.own BY <2>5, <2>6
    <3>2. Usable(act, ThroughRoot(edge(r)[2])) BY <3>1 DEF Undeclared
    <3> QED BY <3>2
  <2>8. g # None BY <1>4 DEF Reached
  <2>9. CASE \E p \in act.imports[f] \cap Paths : g = DeclaredAt(act, p)
    <3>1. PICK p \in act.imports[f] \cap Paths : g = DeclaredAt(act, p) BY <2>9
    <3>2. p \in Reads(f) BY <2>2, <2>8, <3>1, ReadsAre
    <3>3. ThroughRoot(Listed(p, real)) = g BY <3>1, ThroughListed DEF RootDeclared
    <3> QED BY <2>7, <3>1, <3>2, <3>3
  <2>10. CASE \E n \in act.imports[f] \cap Names : g = DeclaredName(act, act.home[f], n)
    <3>1. PICK n \in act.imports[f] \cap Names : g = DeclaredName(act, act.home[f], n) BY <2>10
    <3>2. act.home[f] \in Readers(act) /\ act.home[f] \in Dirs BY <1>1, <1>4 DEF WellDeclared, Readers
    <3>3. g = Lookup(act.home[f], n) BY <3>1, <3>2 DEF RootDeclared
    <3>4. g \in Files BY <2>8, <3>1, <3>2, <3>3, LookupType DEF RootDeclared
    <3>5. g \in Reads(f) BY <2>8, <3>1, <3>3 DEF Reads
    <3>6. g \notin Paths BY <3>4, FilesAssumption
    <3>7. ThroughRoot(g) = g BY <3>6 DEF ThroughRoot
    <3> QED BY <2>7, <3>5, <3>6, <3>7
  <2> QED BY <1>4, <2>9, <2>10 DEF Reached
<1>5. \A f \in act.own \ act.json : At[f] \in DeclaredProgram(act) BY <1>3, ProgramIsDeclared
<1> QED BY <1>4, <1>5 DEF Checked

------------------------------------------------------------------------------
(* The inductive invariant.                                                  *)

Laying == {"overlays", "manifests", "copies", "discover"}

TypeInv ==
    /\ WellDeclared(act)
    /\ phase \in Running \cup {"failed", "done"}
    /\ tree \in [Paths -> Entries]
    /\ modules \in [Dirs -> [Names -> Files \cup {None}]]
    /\ phase \in {"sources", "inherited", "importers", "overlays", "manifests", "copies"}
         => Suffix(left, act[phase])

TreeInv ==
    /\ phase = "sources" => \A p \in Paths : SourcedTo(act, Laid(act.sources), p, tree[p])
    /\ phase \in {"inherited", "importers"} => \A p \in Paths : Sourced(act, p, tree[p])
    /\ phase = "overlays" => \A p \in Paths : OverlaidTo(act, Laid(act.overlays), p, tree[p])
    /\ phase = "manifests" => \A p \in Paths : ManifestedTo(act, Laid(act.manifests), p, tree[p])
    /\ phase = "copies" => /\ \A p \in Paths : CopiedTo(act, Laid(act.copies), p, tree[p])
                           /\ NotGenerated(act, Laid(act.copies))
    /\ phase = "discover" => \A p \in Paths : CopiedTo(act, Len(act.copies), p, tree[p])
    /\ phase \in {"tool", "check"} => \A p \in Paths : Final(act, p, tree[p])
    /\ phase \in {"discover", "tool", "check"} => NotGenerated(act, Len(act.copies))
    /\ phase \in {"manifests", "copies", "discover", "tool", "check"} => WellPlaced(act)

ModulesInv ==
    /\ phase = "sources" => ModulesLaid(0, 0)
    /\ phase = "inherited" => ModulesLaid(Laid(act.inherited), 0)
    /\ phase = "importers" => ModulesLaid(Len(act.inherited), Laid(act.importers))
    /\ phase \in Laying \cup {"tool", "check"} =>
         ModulesLaid(Len(act.inherited), Len(act.importers))

CheckInv ==
    /\ phase = "check" => act.check /\ \E real \in SUBSET Program : listing = ListingOf(real)
    /\ phase \in {"verify", "stamp", "done"} /\ act.check => Checked
    /\ stamp => phase = "done"

IInv == TypeInv /\ TreeInv /\ ModulesInv /\ CheckInv

LEMMA Lists ==
    /\ act["sources"] = act.sources /\ act["inherited"] = act.inherited
    /\ act["importers"] = act.importers /\ act["overlays"] = act.overlays
    /\ act["manifests"] = act.manifests /\ act["copies"] = act.copies
OBVIOUS

\* An empty root is the start.
LEMMA InitInv == Init => IInv
<1> SUFFICES ASSUME Init PROVE IInv
  OBVIOUS
<1>1. WellDeclared(act) BY ActionsAssumption DEF Init
<1>2. phase = "sources" /\ left = act.sources /\ stamp = FALSE BY DEF Init
<1>3. Suffix(left, act.sources) /\ Laid(act.sources) = 0
  BY <1>1, <1>2, ListTypes, SuffixWhole DEF Laid
<1>4. TypeInv
  <2>1. tree \in [Paths -> Entries] BY EntryTypes DEF Init
  <2>2. modules \in [Dirs -> [Names -> Files \cup {None}]] BY DEF Init, NoLinks
  <2> QED BY <1>1, <1>2, <1>3, <2>1, <2>2 DEF TypeInv, Running
<1>5. TreeInv
  <2>1. \A p \in Paths : SourcedTo(act, 0, p, tree[p]) BY DEF Init, SourcedTo
  <2> QED BY <1>2, <1>3, <2>1 DEF TreeInv
<1>6. ModulesInv
  <2>1. ModulesLaid(0, 0) BY DEF Init, ModulesLaid
  <2> QED BY <1>2, <2>1 DEF ModulesInv, Laying
<1>7. CheckInv BY <1>2 DEF CheckInv
<1> QED BY <1>4, <1>5, <1>6, <1>7 DEF IInv

LEMMA StartInv == ASSUME IInv, NEW a \in Later, Start(a) PROVE IInv'
<1>1. act' = a /\ WellDeclared(act') BY LaterAssumption DEF Start
<1>2. phase' = "sources" /\ left' = act'.sources /\ stamp' = FALSE BY DEF Start, Goto
<1>3. Suffix(left', act'.sources) /\ Len(act'.sources) - Len(left') = 0
  BY <1>1, <1>2, ListTypes, SuffixWhole
<1>4. tree' = [p \in Paths |-> Empty] /\ modules' = [d \in Dirs |-> NoLinks]
  BY DEF Start, RemoveRoot
<1>5. TypeInv'
  <2>1. tree' \in [Paths -> Entries] BY <1>4, EntryTypes
  <2>2. modules' \in [Dirs -> [Names -> Files \cup {None}]] BY <1>4 DEF NoLinks
  <2> QED BY <1>1, <1>2, <1>3, <2>1, <2>2 DEF TypeInv, Running
<1>6. TreeInv'
  <2>1. \A p \in Paths : SourcedTo(act', 0, p, tree'[p]) BY <1>4 DEF SourcedTo
  <2> QED BY <1>2, <1>3, <2>1 DEF TreeInv, Laid
<1>7. ModulesInv'
  <2>1. ModulesLaid(0, 0)' BY <1>4 DEF ModulesLaid, NoLinks
  <2> QED BY <1>2, <1>3, <2>1 DEF ModulesInv, Laying, Laid
<1>8. CheckInv' BY <1>2 DEF CheckInv
<1> QED BY <1>5, <1>6, <1>7, <1>8 DEF IInv

\* A failure leaves nothing to be said but what the state is made of.
LEMMA FailedInv ==
    ASSUME IInv, phase # "done", phase' = "failed", act' = act, stamp' = stamp,
           tree' \in [Paths -> Entries], modules' \in [Dirs -> [Names -> Files \cup {None}]]
    PROVE  IInv'
<1>1. TypeInv' BY DEF IInv, TypeInv
<1>2. TreeInv' BY DEF TreeInv
<1>3. ModulesInv' BY DEF ModulesInv, Laying
<1>4. CheckInv' BY DEF IInv, CheckInv
<1> QED BY <1>1, <1>2, <1>3, <1>4 DEF IInv

\* A root that is removed is a root.
LEMMA RemovedTypes ==
    ASSUME RemoveRoot
    PROVE  tree' \in [Paths -> Entries] /\ modules' \in [Dirs -> [Names -> Files \cup {None}]]
BY EntryTypes DEF RemoveRoot, NoLinks

LEMMA LinkSourceInv == ASSUME IInv, LinkSource PROVE IInv'
<1> DEFINE f == Head(left)
           there == tree[At[f]].file
           k == Laid(act.sources)
<1>1. WellDeclared(act) /\ phase = "sources" /\ left # <<>> /\ Suffix(left, act.sources)
      /\ tree \in [Paths -> Entries] /\ modules \in [Dirs -> [Names -> Files \cup {None}]]
  BY Lists DEF LinkSource, IInv, TypeInv
<1>2. /\ k \in Nat /\ k + 1 \in 1..Len(act.sources) /\ f = act.sources[k + 1]
      /\ Suffix(Tail(left), act.sources) /\ Len(act.sources) - Len(Tail(left)) = k + 1
  BY <1>1, ListTypes, SuffixStep DEF Laid
<1>3. f \in Files /\ At[f] \in Paths BY <1>1, <1>2, ListCoordinates
<1>4. tree' = IF there = None THEN [tree EXCEPT ![At[f]] = Link(f)] ELSE tree
  BY DEF LinkSource
<1>5. tree' \in [Paths -> Entries] BY <1>1, <1>3, <1>4, EntryTypes
<1>6. CASE there \notin {None, f}
  <2>1. Fail BY <1>6 DEF LinkSource
  <2> QED BY <1>1, <1>5, <2>1, FailedInv DEF Fail, Goto
<1>7. CASE there \in {None, f}
  <2>1. /\ phase' = "sources" /\ left' = Tail(left)
        /\ act' = act /\ modules' = modules /\ stamp' = stamp
    BY <1>7, <1>1 DEF LinkSource, Goto
  <2>2. \A p \in Paths : SourcedTo(act, k, p, tree[p]) BY <1>1 DEF IInv, TreeInv
  <2>3. \A p \in Paths : SourcedTo(act, k + 1, p, tree'[p])
    <3> HIDE DEF k, f
    <3> QED BY <1>1, <1>2, <1>4, <1>7, <2>2, SourceStep
  <2>4. TypeInv' BY <1>1, <1>2, <1>5, <2>1, Lists DEF TypeInv, Running
  <2>5. TreeInv' BY <1>2, <2>1, <2>3 DEF TreeInv, Laid
  <2>6. ModulesInv'
    <3>1. ModulesLaid(0, 0)' BY <1>1, <2>1, ModulesStay DEF IInv, ModulesInv
    <3> QED BY <2>1, <3>1 DEF ModulesInv, Laying
  <2>7. CheckInv' BY <1>1, <2>1 DEF IInv, CheckInv
  <2> QED BY <2>4, <2>5, <2>6, <2>7 DEF IInv
<1> QED BY <1>6, <1>7

LEMMA InheritInv == ASSUME IInv, Inherit PROVE IInv'
<1> DEFINE imp == Head(left)
<1> PICK k : k = Laid(act.inherited) OBVIOUS
<1>1. WellDeclared(act) /\ phase = "inherited" /\ left # <<>> /\ Suffix(left, act.inherited)
      /\ tree \in [Paths -> Entries] /\ modules \in [Dirs -> [Names -> Files \cup {None}]]
  BY Lists DEF Inherit, IInv, TypeInv
<1>2. /\ k \in Nat /\ k + 1 \in 1..Len(act.inherited) /\ imp = act.inherited[k + 1]
      /\ Suffix(Tail(left), act.inherited) /\ Len(act.inherited) - Len(Tail(left)) = k + 1
  BY <1>1, ListTypes, SuffixStep DEF Laid
<1>3. /\ phase' = "inherited" /\ left' = Tail(left)
      /\ act' = act /\ tree' = tree /\ stamp' = stamp
  BY <1>1 DEF Inherit, Goto
<1>4. modules' = [modules EXCEPT ![imp.dir] = Brought(k + 1)]
  BY <1>2 DEF Inherit, Brought, Chain
<1>5. modules' \in [Dirs -> [Names -> Files \cup {None}]]
  <2>1. Brought(k + 1) \in [Names -> Files \cup {None}]
    BY <1>1, <1>2, BroughtType
  <2> QED BY <1>1, <1>4, <2>1
<1>6. TypeInv' BY <1>1, <1>2, <1>3, <1>5, Lists DEF TypeInv, Running
<1>7. TreeInv' BY <1>1, <1>3 DEF IInv, TreeInv
<1>8. ModulesInv'
  <2>1. ModulesLaid(k, 0) BY <1>1 DEF IInv, ModulesInv
  <2>2. ModulesLaid(k + 1, 0)' BY <1>1, <1>2, <1>3, <1>4, <2>1, LayInherited
  <2>3. Laid(act.inherited)' = k + 1 BY <1>2, <1>3 DEF Laid
  <2> QED BY <1>3, <2>2, <2>3 DEF ModulesInv, Laying
<1>9. CheckInv' BY <1>1, <1>3 DEF IInv, CheckInv
<1> QED BY <1>6, <1>7, <1>8, <1>9 DEF IInv

LEMMA LinkImporterInv == ASSUME IInv, LinkImporter PROVE IInv'
<1> DEFINE imp == Head(left)
<1> PICK k : k = Laid(act.importers) OBVIOUS
<1> PICK l : l = Len(act.inherited) OBVIOUS
<1>1. WellDeclared(act) /\ phase = "importers" /\ left # <<>> /\ Suffix(left, act.importers)
      /\ tree \in [Paths -> Entries] /\ modules \in [Dirs -> [Names -> Files \cup {None}]]
  BY Lists DEF LinkImporter, IInv, TypeInv
<1>2. /\ k \in Nat /\ k + 1 \in 1..Len(act.importers) /\ imp = act.importers[k + 1]
      /\ Suffix(Tail(left), act.importers) /\ Len(act.importers) - Len(Tail(left)) = k + 1
  BY <1>1, ListTypes, SuffixStep DEF Laid
<1>3. /\ phase' = "importers" /\ left' = Tail(left)
      /\ act' = act /\ tree' = tree /\ stamp' = stamp
  BY <1>1 DEF LinkImporter, Goto
<1>4. modules' = [modules EXCEPT ![LinkedAt(k + 1)] = Chained(k + 1)]
  BY <1>2 DEF LinkImporter, Chained, Chain, LinkedAt, Laid
<1>5. modules' \in [Dirs -> [Names -> Files \cup {None}]]
  <2>1. Chained(k + 1) \in [Names -> Files \cup {None}]
    BY <1>1, <1>2, BroughtType
  <2> QED BY <1>1, <1>4, <2>1
<1>6. TypeInv' BY <1>1, <1>2, <1>3, <1>5, Lists DEF TypeInv, Running
<1>7. TreeInv' BY <1>1, <1>3 DEF IInv, TreeInv
<1>8. ModulesInv'
  <2>1. ModulesLaid(l, k) BY <1>1 DEF IInv, ModulesInv
  <2>2. ModulesLaid(l, k + 1)' BY <1>1, <1>2, <1>3, <1>4, <2>1, LayImporter
  <2>3. Laid(act.importers)' = k + 1 BY <1>2, <1>3 DEF Laid
  <2> QED BY <1>3, <2>2, <2>3 DEF ModulesInv, Laying
<1>9. CheckInv' BY <1>1, <1>3 DEF IInv, CheckInv
<1> QED BY <1>6, <1>7, <1>8, <1>9 DEF IInv

\* What Overlay and Manifest leave alone is what the sources say.
LEMMA KeptIs ==
    ASSUME WellDeclared(act), NEW o
    PROVE  Kept(o) <=> o.file \in JavaScript \/ OnSource(act, o.at)
<1>1. DOMAIN act.sources = 1..Len(act.sources) BY ListTypes
<1>2. (\E f \in AsSet(act.sources) : At[f] = o.at) <=> OnSource(act, o.at)
  BY <1>1 DEF OnSource, AsSet
<1> QED BY <1>2 DEF Kept

LEMMA OverlayInv == ASSUME IInv, Overlay PROVE IInv'
<1> DEFINE o == Head(left)
<1> PICK k : k = Laid(act.overlays) OBVIOUS
<1> PICK l : l = Len(act.inherited) OBVIOUS
<1>1. WellDeclared(act) /\ phase = "overlays" /\ left # <<>> /\ Suffix(left, act.overlays)
      /\ tree \in [Paths -> Entries] /\ modules \in [Dirs -> [Names -> Files \cup {None}]]
  BY Lists DEF Overlay, IInv, TypeInv
<1>2. /\ k \in Nat /\ k + 1 \in 1..Len(act.overlays) /\ o = act.overlays[k + 1]
      /\ Suffix(Tail(left), act.overlays) /\ Len(act.overlays) - Len(Tail(left)) = k + 1
  BY <1>1, ListTypes, SuffixStep DEF Laid
<1>3. o.at \in Paths /\ o.file \in Files BY <1>1, <1>2, ListCoordinates
<1>4. CASE ~Kept(o) /\ Distinct(o)
  BY <1>1, <1>4, FailedInv DEF Overlay, Fail, Goto
<1>5. CASE ~(~Kept(o) /\ Distinct(o))
  <2>1. /\ phase' = "overlays" /\ left' = Tail(left)
        /\ act' = act /\ modules' = modules /\ stamp' = stamp
        /\ tree' = IF Kept(o) \/ Same(o) THEN tree ELSE [tree EXCEPT ![o.at] = Link(o.file)]
    BY <1>1, <1>5 DEF Overlay, Goto
  <2>2. \A p \in Paths : OverlaidTo(act, k, p, tree[p]) BY <1>1 DEF IInv, TreeInv
  <2>3. Kept(o) <=> o.file \in JavaScript \/ OnSource(act, o.at) BY <1>1, KeptIs
  <2>4. Same(o) <=> o.at \in Declaration /\ tree[o.at] # Empty BY DEF Same
  <2>5. Kept(o) \/ ~Same(o) \/ tree[o.at].file = o.file BY <1>5 DEF Same, Distinct
  <2>6. \A p \in Paths : OverlaidTo(act, k + 1, p, tree'[p])
    <3> HIDE DEF o
    <3> QED BY <1>1, <1>2, <2>1, <2>2, <2>3, <2>4, <2>5, OverlayStep
  <2>7. tree' \in [Paths -> Entries] BY <1>1, <1>3, <2>1, EntryTypes
  <2>8. TypeInv' BY <1>1, <1>2, <2>1, <2>7, Lists DEF TypeInv, Running
  <2>9. TreeInv' BY <1>2, <2>1, <2>6 DEF TreeInv, Laid
  <2>10. ModulesInv'
    <3>1. PICK m : m = Len(act.importers) OBVIOUS
    <3>2. ModulesLaid(l, m) BY <1>1, <3>1 DEF IInv, ModulesInv, Laying
    <3>3. ModulesLaid(l, m)' BY <2>1, <3>2, ModulesStay
    <3> QED BY <2>1, <3>1, <3>3 DEF ModulesInv, Laying
  <2>11. CheckInv' BY <1>1, <2>1 DEF IInv, CheckInv
  <2> QED BY <2>8, <2>9, <2>10, <2>11 DEF IInv
<1> QED BY <1>4, <1>5

\* Beyond the importers node_modules stay as they are.
LEMMA ModulesKept ==
    ASSUME IInv, phase \in Laying \cup {"tool"}, act' = act, modules' = modules,
           phase' \in Laying \cup {"tool", "check", "verify"}
    PROVE  ModulesInv'
<1>1. PICK k : k = Len(act.inherited) OBVIOUS
<1>2. PICK c : c = Len(act.importers) OBVIOUS
<1>3. ModulesLaid(k, c) BY <1>1, <1>2 DEF IInv, ModulesInv
<1>4. ModulesLaid(k, c)' BY <1>3, ModulesStay
<1>5. phase' \notin {"sources", "inherited", "importers"} BY DEF Laying
<1> QED BY <1>1, <1>2, <1>4, <1>5 DEF ModulesInv

LEMMA ManifestInv == ASSUME IInv, Manifest PROVE IInv'
<1> DEFINE o == Head(left)
<1> PICK k : k = Laid(act.manifests) OBVIOUS
<1>1. WellDeclared(act) /\ phase = "manifests" /\ left # <<>> /\ Suffix(left, act.manifests)
      /\ tree \in [Paths -> Entries] /\ modules \in [Dirs -> [Names -> Files \cup {None}]]
  BY Lists DEF Manifest, IInv, TypeInv
<1>2. /\ k \in Nat /\ k + 1 \in 1..Len(act.manifests) /\ o = act.manifests[k + 1]
      /\ Suffix(Tail(left), act.manifests) /\ Len(act.manifests) - Len(Tail(left)) = k + 1
  BY <1>1, ListTypes, SuffixStep DEF Laid
<1>3. o.at \in Paths /\ o.file \in Files BY <1>1, <1>2, ListCoordinates
<1>4. /\ phase' = "manifests" /\ left' = Tail(left)
      /\ act' = act /\ modules' = modules /\ stamp' = stamp
      /\ tree' = IF Kept(o) THEN tree ELSE [tree EXCEPT ![o.at] = Link(o.file)]
  BY <1>1 DEF Manifest, Goto
<1>5. (\A p \in Paths : ManifestedTo(act, k, p, tree[p])) /\ WellPlaced(act)
  BY <1>1 DEF IInv, TreeInv
<1>6. Kept(o) <=> o.file \in JavaScript \/ OnSource(act, o.at) BY <1>1, KeptIs
<1>7. \A p \in Paths : ManifestedTo(act, k + 1, p, tree'[p])
  <2> HIDE DEF o
  <2> QED BY <1>1, <1>2, <1>4, <1>5, <1>6, ManifestStep
<1>8. tree' \in [Paths -> Entries] BY <1>1, <1>3, <1>4, EntryTypes
<1>9. TypeInv' BY <1>1, <1>2, <1>4, <1>8, Lists DEF TypeInv, Running
<1>10. TreeInv' BY <1>2, <1>4, <1>5, <1>7 DEF TreeInv, Laid
<1>11. ModulesInv' BY <1>1, <1>4, ModulesKept DEF Laying
<1>12. CheckInv' BY <1>1, <1>4 DEF IInv, CheckInv
<1> QED BY <1>9, <1>10, <1>11, <1>12 DEF IInv

LEMMA CopyInv == ASSUME IInv, Copy PROVE IInv'
<1> DEFINE f == Head(left)
<1> PICK k : k = Laid(act.copies) OBVIOUS
<1>1. WellDeclared(act) /\ phase = "copies" /\ left # <<>> /\ Suffix(left, act.copies)
      /\ tree \in [Paths -> Entries] /\ modules \in [Dirs -> [Names -> Files \cup {None}]]
  BY Lists DEF Copy, IInv, TypeInv
<1>2. /\ k \in Nat /\ k + 1 \in 1..Len(act.copies) /\ f = act.copies[k + 1]
      /\ Suffix(Tail(left), act.copies) /\ Len(act.copies) - Len(Tail(left)) = k + 1
  BY <1>1, ListTypes, SuffixStep DEF Laid
<1>3. CASE f \in Generated
  BY <1>1, <1>3, RemovedTypes, FailedInv DEF Copy, Goto
<1>4. CASE f \notin Generated
  <2>1. /\ phase' = "copies" /\ left' = Tail(left)
        /\ act' = act /\ modules' = modules /\ stamp' = stamp
        /\ tree' = [tree EXCEPT ![At[f]] = Copied(f)]
    BY <1>1, <1>4 DEF Copy, Goto, Copied
  <2>2. /\ \A p \in Paths : CopiedTo(act, k, p, tree[p])
        /\ NotGenerated(act, k) /\ WellPlaced(act)
    BY <1>1 DEF IInv, TreeInv
  <2>3. NotGenerated(act, k + 1) /\ \A p \in Paths : CopiedTo(act, k + 1, p, tree'[p])
    <3> HIDE DEF f
    <3> QED BY <1>1, <1>2, <1>4, <2>1, <2>2, CopyStep
  <2>4. tree' \in [Paths -> Entries]
    <3>1. f \in Files /\ At[f] \in Paths BY <1>1, <1>2, <1>4, ListCoordinates
    <3> QED BY <1>1, <2>1, <3>1, EntryTypes
  <2>5. TypeInv' BY <1>1, <1>2, <2>1, <2>4, Lists DEF TypeInv, Running
  <2>6. TreeInv' BY <1>2, <2>1, <2>2, <2>3 DEF TreeInv, Laid
  <2>7. ModulesInv' BY <1>1, <2>1, ModulesKept DEF Laying
  <2>8. CheckInv' BY <1>1, <2>1 DEF IInv, CheckInv
  <2> QED BY <2>5, <2>6, <2>7, <2>8 DEF IInv
<1> QED BY <1>3, <1>4

LEMMA DiscoverInv == ASSUME IInv, Discover PROVE IInv'
<1>1. /\ WellDeclared(act) /\ phase = "discover" /\ tree \in [Paths -> Entries]
      /\ modules \in [Dirs -> [Names -> Files \cup {None}]]
  BY DEF Discover, IInv, TypeInv
<1>2. /\ phase' = "tool" /\ act' = act /\ modules' = modules /\ stamp' = stamp
      /\ tree' = IF act.discover THEN [tree EXCEPT ![ConfigPath] = Copied(Config)] ELSE tree
  BY DEF Discover, Goto, Copied
<1>3. /\ \A p \in Paths : CopiedTo(act, Len(act.copies), p, tree[p])
      /\ NotGenerated(act, Len(act.copies)) /\ WellPlaced(act)
  BY <1>1 DEF IInv, TreeInv
<1>4. \A p \in Paths : Final(act, p, tree'[p]) BY <1>1, <1>2, <1>3 DEF Final
<1>5. tree' \in [Paths -> Entries] BY <1>1, <1>2, EntryTypes
<1>6. TypeInv' BY <1>1, <1>2, <1>5 DEF TypeInv, Running
<1>7. TreeInv' BY <1>2, <1>3, <1>4 DEF TreeInv
<1>8. ModulesInv' BY <1>1, <1>2, ModulesKept DEF Laying
<1>9. CheckInv' BY <1>1, <1>2 DEF IInv, CheckInv
<1> QED BY <1>6, <1>7, <1>8, <1>9 DEF IInv

\* The next phase starts with the whole of its list.
LEMMA NextList ==
    ASSUME WellDeclared(act), NEW next \in {"inherited", "importers", "overlays", "manifests", "copies"}
    PROVE  Suffix(act[next], act[next]) /\ Len(act[next]) - Len(act[next]) = 0
<1>1. CASE next = "inherited" BY <1>1, Lists, ListTypes, SuffixWhole
<1>2. CASE next = "importers" BY <1>2, Lists, ListTypes, SuffixWhole
<1>3. CASE next = "overlays" BY <1>3, Lists, ListTypes, SuffixWhole
<1>4. CASE next = "manifests" BY <1>4, Lists, ListTypes, SuffixWhole
<1>5. CASE next = "copies" BY <1>5, Lists, ListTypes, SuffixWhole
<1> QED BY <1>1, <1>2, <1>3, <1>4, <1>5

LEMMA AfterIs ==
    /\ DOMAIN After = {"sources", "inherited", "importers", "overlays", "manifests", "copies"}
    /\ After["sources"] = "inherited" /\ After["inherited"] = "importers"
    /\ After["importers"] = "overlays" /\ After["overlays"] = "manifests"
    /\ After["manifests"] = "copies" /\ After["copies"] = "discover"
BY DEF After

\* What the last of a list leaves is where the next list begins.
LEMMA ListBegins ==
    ASSUME NEW a, NEW p, NEW e
    PROVE  /\ Sourced(a, p, e) => OverlaidTo(a, 0, p, e)
           /\ Overlaid(a, p, e) => ManifestedTo(a, 0, p, e)
           /\ Manifested(a, p, e) => CopiedTo(a, 0, p, e)
           /\ NotGenerated(a, 0)
<1>1. Sourced(a, p, e) => OverlaidTo(a, 0, p, e)
  BY DEF Sourced, SourcedTo, OnSource, OverlaidTo, NonePut
<1>2. Overlaid(a, p, e) => ManifestedTo(a, 0, p, e)
  BY DEF Overlaid, OverlaidTo, ManifestedTo, NonePut
<1>3. Manifested(a, p, e) => CopiedTo(a, 0, p, e) BY DEF CopiedTo
<1> QED BY <1>1, <1>2, <1>3 DEF NotGenerated

LEMMA NextPhaseInv == ASSUME IInv, NextPhase PROVE IInv'
<1> USE DEF Laying
<1> PICK k : k = Len(act.inherited) OBVIOUS
<1> PICK c : c = Len(act.importers) OBVIOUS
<1>1. /\ WellDeclared(act) /\ tree \in [Paths -> Entries] /\ left = <<>>
      /\ modules \in [Dirs -> [Names -> Files \cup {None}]]
      /\ phase \in DOMAIN After
  BY DEF NextPhase, IInv, TypeInv
<1>2. /\ act' = act /\ tree' = tree /\ modules' = modules /\ stamp' = stamp
      /\ phase' = After[phase]
      /\ phase' # "discover" => left' = act[phase']
  BY DEF NextPhase, Goto
<1>3. /\ Laid(act.sources) = Len(act.sources) /\ Laid(act.inherited) = k
      /\ Laid(act.importers) = c /\ Laid(act.overlays) = Len(act.overlays)
      /\ Laid(act.manifests) = Len(act.manifests) /\ Laid(act.copies) = Len(act.copies)
  BY <1>1, ListTypes DEF Laid
<1>4. phase' # "discover" => Suffix(left', act[phase']) /\ Len(act[phase']) - Len(left') = 0
  <2>1. phase' # "discover" =>
          phase' \in {"inherited", "importers", "overlays", "manifests", "copies"}
    BY <1>1, <1>2, AfterIs
  <2> QED BY <1>1, <1>2, <2>1, NextList
<1>5. phase' \in {"inherited", "importers", "overlays", "manifests", "copies", "discover"}
  BY <1>1, <1>2, AfterIs
<1>6. TypeInv' BY <1>1, <1>2, <1>4, <1>5 DEF TypeInv, Running
<1>7. CheckInv' BY <1>1, <1>2, <1>5, AfterIs DEF IInv, CheckInv
<1>8. TreeInv'
  <2>1. CASE phase = "sources"
    <3>1. \A p \in Paths : Sourced(act, p, tree[p])
      BY <1>3, <2>1 DEF IInv, TreeInv, Sourced
    <3> QED BY <1>2, <2>1, <3>1, AfterIs DEF TreeInv
  <2>2. CASE phase = "inherited"
    <3>1. \A p \in Paths : Sourced(act, p, tree[p]) BY <2>2 DEF IInv, TreeInv
    <3> QED BY <1>2, <2>2, <3>1, AfterIs DEF TreeInv
  <2>3. CASE phase = "importers"
    <3>1. \A p \in Paths : OverlaidTo(act, 0, p, tree[p])
      BY <2>3, ListBegins DEF IInv, TreeInv
    <3>2. phase' = "overlays" /\ Laid(act.overlays)' = 0
      BY <1>2, <1>4, <2>3, AfterIs, Lists DEF Laid
    <3> QED BY <1>2, <3>1, <3>2 DEF TreeInv
  <2>4. CASE phase = "overlays"
    <3>1. \A p \in Paths : Overlaid(act, p, tree[p])
      BY <1>3, <2>4 DEF IInv, TreeInv, Overlaid
    <3>2. WellPlaced(act) BY <1>1, <3>1, OverlaidWell
    <3>3. \A p \in Paths : ManifestedTo(act, 0, p, tree[p]) BY <3>1, ListBegins
    <3>4. phase' = "manifests" /\ Laid(act.manifests)' = 0
      BY <1>2, <1>4, <2>4, AfterIs, Lists DEF Laid
    <3> QED BY <1>2, <3>2, <3>3, <3>4 DEF TreeInv
  <2>5. CASE phase = "manifests"
    <3>1. (\A p \in Paths : Manifested(act, p, tree[p])) /\ WellPlaced(act)
      BY <1>3, <2>5 DEF IInv, TreeInv, Manifested
    <3>2. (\A p \in Paths : CopiedTo(act, 0, p, tree[p])) /\ NotGenerated(act, 0)
      BY <3>1, ListBegins
    <3>3. phase' = "copies" /\ Laid(act.copies)' = 0
      BY <1>2, <1>4, <2>5, AfterIs, Lists DEF Laid
    <3> QED BY <1>2, <3>1, <3>2, <3>3 DEF TreeInv
  <2>6. CASE phase = "copies"
    <3>1. /\ \A p \in Paths : CopiedTo(act, Len(act.copies), p, tree[p])
          /\ NotGenerated(act, Len(act.copies)) /\ WellPlaced(act)
      BY <1>3, <2>6 DEF IInv, TreeInv
    <3>2. phase' = "discover" BY <1>2, <2>6, AfterIs
    <3> QED BY <1>2, <3>1, <3>2 DEF TreeInv
  <2> QED BY <1>1, <2>1, <2>2, <2>3, <2>4, <2>5, <2>6, AfterIs
<1>9. ModulesInv'
  <2>1. CASE phase = "sources"
    <3>1. ModulesLaid(0, 0) BY <2>1 DEF IInv, ModulesInv
    <3>2. ModulesLaid(0, 0)' BY <1>2, <3>1, ModulesStay
    <3>3. phase' = "inherited" /\ Laid(act.inherited)' = 0
      BY <1>2, <1>4, <2>1, AfterIs, Lists DEF Laid
    <3> QED BY <3>2, <3>3 DEF ModulesInv
  <2>2. CASE phase = "inherited"
    <3>1. ModulesLaid(k, 0) BY <1>3, <2>2 DEF IInv, ModulesInv
    <3>2. ModulesLaid(k, 0)' BY <1>2, <3>1, ModulesStay
    <3>3. phase' = "importers" /\ Laid(act.importers)' = 0
      BY <1>2, <1>4, <2>2, AfterIs, Lists DEF Laid
    <3> QED BY <1>2, <3>2, <3>3 DEF ModulesInv
  <2>3. CASE phase \notin {"sources", "inherited"}
    <3>1. phase \in {"importers"} \cup Laying /\ phase' \in Laying
      BY <1>1, <1>2, <2>3, AfterIs
    <3>2. ModulesLaid(k, c) BY <1>3, <3>1 DEF IInv, ModulesInv
    <3>3. ModulesLaid(k, c)' BY <1>2, <3>2, ModulesStay
    <3> QED BY <1>2, <3>1, <3>3 DEF ModulesInv
  <2> QED BY <2>1, <2>2, <2>3
<1> QED BY <1>6, <1>7, <1>8, <1>9 DEF IInv

LEMMA ListingStays ==
    ASSUME act' = act, tree' = tree, modules' = modules
    PROVE  Program' = Program /\ \A real : ListingOf(real)' = ListingOf(real)
BY DEF Program, ListingOf, Listed, Reads, Lookup

\* The listing is of the program root, which a check then follows it through.
LEMMA ToolInv == ASSUME IInv, Tool PROVE IInv'
<1>1. /\ WellDeclared(act) /\ phase = "tool" /\ tree \in [Paths -> Entries]
      /\ modules \in [Dirs -> [Names -> Files \cup {None}]]
      /\ act' = act /\ stamp' = stamp
  BY DEF Tool, IInv, TypeInv
<1>2. CASE RemoveRoot /\ phase' = "failed"
  BY <1>1, <1>2, RemovedTypes, FailedInv
<1>3. ASSUME NEW real \in SUBSET Program, listing' = ListingOf(real),
             phase' = (IF act.check THEN "check" ELSE "verify"),
             tree' = tree, modules' = modules
      PROVE  IInv'
  <2>1. TypeInv' BY <1>1, <1>3 DEF TypeInv, Running
  <2>2. TreeInv'
    <3>1. (\A p \in Paths : Final(act, p, tree[p])) /\ WellPlaced(act)
          /\ NotGenerated(act, Len(act.copies))
      BY <1>1 DEF IInv, TreeInv
    <3>2. phase' \in {"check", "verify"} BY <1>3
    <3> QED BY <1>1, <1>3, <3>1, <3>2 DEF TreeInv
  <2>3. ModulesInv' BY <1>1, <1>3, ModulesKept
  <2>4. CheckInv'
    <3>1. Program' = Program /\ ListingOf(real)' = ListingOf(real) BY <1>1, <1>3, ListingStays
    <3>2. phase' = "check" => act'.check BY <1>1, <1>3
    <3>3. \E r \in SUBSET Program' : listing' = ListingOf(r)' BY <1>3, <3>1
    <3>4. phase' \in {"verify", "stamp", "done"} => ~act'.check BY <1>1, <1>3
    <3>5. ~stamp' BY <1>1 DEF IInv, CheckInv
    <3> QED BY <3>2, <3>3, <3>4, <3>5 DEF CheckInv
  <2> QED BY <2>1, <2>2, <2>3, <2>4 DEF IInv
<1>4. \/ RemoveRoot /\ phase' = "failed"
      \/ /\ \E real \in SUBSET Program : listing' = ListingOf(real)
         /\ phase' = (IF act.check THEN "check" ELSE "verify")
         /\ tree' = tree /\ modules' = modules
  BY DEF Tool, Goto, ListingOf
<1> QED BY <1>2, <1>3, <1>4

\* What the laid out root says when the layout is done.
LEMMA RootIsLaid ==
    ASSUME IInv, phase \in {"tool", "check"}
    PROVE  /\ WellPlaced(act)
           /\ \A p \in Paths : Final(act, p, tree[p]) /\ tree[p].file = DeclaredAt(act, p)
           /\ \A d \in Readers(act), n \in Names : Lookup(d, n) = DeclaredName(act, d, n)
<1>1. WellDeclared(act) BY DEF IInv, TypeInv
<1>2. WellPlaced(act) /\ NotGenerated(act, Len(act.copies))
      /\ \A p \in Paths : Final(act, p, tree[p])
  BY DEF IInv, TreeInv
<1>3. \A p \in Paths : tree[p].file = DeclaredAt(act, p) BY <1>1, <1>2, FinalIs
<1>4. ModulesLaid(Len(act.inherited), Len(act.importers)) BY DEF IInv, ModulesInv
<1>5. \A d \in Readers(act), n \in Names : Lookup(d, n) = DeclaredName(act, d, n)
  BY <1>1, <1>4, NamesDeclared
<1> QED BY <1>2, <1>3, <1>5

LEMMA CheckStepInv == ASSUME IInv, Check PROVE IInv'
<1>1. /\ WellDeclared(act) /\ phase = "check" /\ tree \in [Paths -> Entries]
      /\ modules \in [Dirs -> [Names -> Files \cup {None}]]
      /\ act' = act /\ stamp' = stamp
  BY DEF Check, IInv, TypeInv
<1>2. CASE ~(ExcludedSrcs = {} /\ Undeclared = {})
  BY <1>1, <1>2, RemovedTypes, FailedInv DEF Check, Goto
<1>3. CASE ExcludedSrcs = {} /\ Undeclared = {}
  <2>1. phase' = "verify" /\ tree' = tree /\ modules' = modules BY <1>3 DEF Check, Goto
  <2>2. RootDeclared BY <1>1, RootIsLaid DEF RootDeclared, IInv, CheckInv
  <2>3. PICK real : listing = ListingOf(real) BY <1>1 DEF IInv, CheckInv
  <2>4. Checked BY <1>3, <2>2, <2>3, CheckedPasses
  <2>5. Checked' BY <1>1, <2>4 DEF Checked
  <2>6. TypeInv' BY <1>1, <2>1 DEF TypeInv, Running
  <2>7. TreeInv' BY <2>1 DEF TreeInv
  <2>8. ModulesInv' BY <2>1 DEF ModulesInv, Laying
  <2>9. CheckInv' BY <1>1, <2>1, <2>5 DEF IInv, CheckInv
  <2> QED BY <2>6, <2>7, <2>8, <2>9 DEF IInv
<1> QED BY <1>2, <1>3

LEMMA VerifyInv == ASSUME IInv, Verify PROVE IInv'
<1>1. /\ WellDeclared(act) /\ phase = "verify" /\ tree \in [Paths -> Entries]
      /\ modules \in [Dirs -> [Names -> Files \cup {None}]]
      /\ act' = act /\ stamp' = stamp
  BY DEF Verify, IInv, TypeInv
<1>2. CASE act.verify /\ changed # {}
  BY <1>1, <1>2, RemovedTypes, FailedInv DEF Verify, Goto
<1>3. CASE ~(act.verify /\ changed # {})
  <2>1. phase' = "stamp" /\ tree' = tree /\ modules' = modules BY <1>3 DEF Verify, Goto
  <2>2. TypeInv' BY <1>1, <2>1 DEF TypeInv, Running
  <2>3. TreeInv' BY <2>1 DEF TreeInv
  <2>4. ModulesInv' BY <2>1 DEF ModulesInv, Laying
  <2>5. Checked' <=> Checked BY <1>1 DEF Checked
  <2>6. CheckInv' BY <1>1, <2>1, <2>5 DEF IInv, CheckInv
  <2> QED BY <2>2, <2>3, <2>4, <2>6 DEF IInv
<1> QED BY <1>2, <1>3

LEMMA StampInv == ASSUME IInv, Stamp PROVE IInv'
<1>1. WellDeclared(act) /\ phase = "stamp" /\ act' = act /\ phase' = "done"
  BY DEF Stamp, Goto, IInv, TypeInv
<1>2. tree' \in [Paths -> Entries] /\ modules' \in [Dirs -> [Names -> Files \cup {None}]]
  BY RemovedTypes DEF Stamp
<1>3. TypeInv' BY <1>1, <1>2 DEF TypeInv, Running
<1>4. TreeInv' BY <1>1 DEF TreeInv
<1>5. ModulesInv' BY <1>1 DEF ModulesInv, Laying
<1>6. Checked' <=> Checked BY <1>1 DEF Checked
<1>7. CheckInv' BY <1>1, <1>6 DEF IInv, CheckInv
<1> QED BY <1>3, <1>4, <1>5, <1>7 DEF IInv

LEMMA KillInv == ASSUME IInv, Kill PROVE IInv'
<1>1. /\ phase # "done" /\ phase' = "failed"
      /\ act' = act /\ stamp' = stamp /\ tree' = tree /\ modules' = modules
  BY DEF Kill, Goto, Running
<1>2. tree \in [Paths -> Entries] /\ modules \in [Dirs -> [Names -> Files \cup {None}]]
  BY DEF IInv, TypeInv
<1> QED BY <1>1, <1>2, FailedInv

LEMMA StutterInv == ASSUME IInv, UNCHANGED vars PROVE IInv'
<1> USE DEF vars
<1> PICK k : k = Len(act.inherited) OBVIOUS
<1> PICK c : c = Len(act.importers) OBVIOUS
<1> PICK j : j = Laid(act.inherited) OBVIOUS
<1> PICK i : i = Laid(act.importers) OBVIOUS
<1>1. TypeInv' BY DEF IInv, TypeInv
<1>2. TreeInv' BY DEF IInv, TreeInv, Laid
<1>3. ModulesInv'
  <2>1. /\ ModulesLaid(0, 0) => ModulesLaid(0, 0)'
        /\ ModulesLaid(j, 0) => ModulesLaid(j, 0)'
        /\ ModulesLaid(k, i) => ModulesLaid(k, i)'
        /\ ModulesLaid(k, c) => ModulesLaid(k, c)'
    BY ModulesStay
  <2>2. Laid(act.inherited)' = j /\ Laid(act.importers)' = i BY DEF Laid
  <2> QED BY <2>1, <2>2 DEF IInv, ModulesInv
<1>4. CheckInv'
  <2>1. Program' = Program /\ (\A real : ListingOf(real)' = ListingOf(real)) BY ListingStays
  <2>2. Checked' <=> Checked BY DEF Checked
  <2> QED BY <2>1, <2>2 DEF IInv, CheckInv
<1> QED BY <1>1, <1>2, <1>3, <1>4 DEF IInv

LEMMA NextInv == ASSUME IInv, [Next]_vars PROVE IInv'
<1>1. ASSUME NEW a \in Later, Start(a) PROVE IInv' BY <1>1, StartInv
<1>2. CASE LinkSource \/ Inherit \/ LinkImporter \/ Overlay \/ Manifest \/ Copy
  BY <1>2, LinkSourceInv, InheritInv, LinkImporterInv, OverlayInv, ManifestInv, CopyInv
<1>3. CASE Discover \/ NextPhase \/ Tool \/ Check \/ Verify \/ Stamp \/ Kill
  BY <1>3, DiscoverInv, NextPhaseInv, ToolInv, CheckStepInv, VerifyInv, StampInv, KillInv
<1>4. CASE UNCHANGED vars BY <1>4, StutterInv
<1> QED BY <1>1, <1>2, <1>3, <1>4 DEF Next

(* layOutProgramRoot and checkedRun (ts/tools/tsaction): at every step, kill *)
(* and restart the root is the part of the declared one that is laid out,    *)
(* and a checked action that gets to its stamp has met every edge it reads.  *)
THEOREM ActionInvariant == Spec => []IInv
BY InitInv, NextInv, PTL DEF Spec

------------------------------------------------------------------------------

(* runTsgo (ts/tools/tsaction): whatever is declared, in whatever order the  *)
(* sources, importers, overlays, manifests and copies are laid out, over     *)
(* whatever a killed run left, the tool starts in a root where each          *)
(* coordinate is the declared file and each name leads where it should.      *)
THEOREM RootAsDeclared == Spec => []RootIsDeclared
<1>1. IInv => RootIsDeclared BY RootIsLaid DEF RootIsDeclared
<1> QED BY <1>1, ActionInvariant, PTL

(* checkedRun and the stamp of runTsgo: no order of failures, kills and      *)
(* restarts leaves a stamp over a checked target one of whose own sources    *)
(* was not read, or reaches what neither it nor a direct dependency owns.    *)
THEOREM StampMeansChecked == Spec => []StampedIsChecked
<1>1. IInv => StampedIsChecked BY DEF IInv, CheckInv, Checked, StampedIsChecked
<1> QED BY <1>1, ActionInvariant, PTL

=============================================================================
