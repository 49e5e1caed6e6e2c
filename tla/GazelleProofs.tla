---------------------------- MODULE GazelleProofs ----------------------------
(***************************************************************************)
(* What Gazelle computes between its callbacks, for any tree of directories, *)
(* any BUILD files and any listings: the answers of the output index are     *)
(* those of a scan, a file has one place, and the rules written twice are    *)
(* the rules written once.                                                  *)
(***************************************************************************)
EXTENDS OutputIndex, SourceOwners, Generation, ListingPatch, Discovery, VitestConfig,
        SourceExports, ProgramSelection, Resolution, Forwarding,
        FiniteSetTheorems, WellFoundedInduction, TLAPS

-----------------------------------------------------------------------------
(* The directories above one.                                               *)

\* The recursion that defines the ancestors has a solution: what every set
\* that is closed under Up below the root has in common.
LEMMA Ancestors ==
  ASSUME NEW d \in Dirs
  PROVE  above[d] = IF d = Root THEN {Root} ELSE {d} \cup above[Up[d]]
<1> DEFINE ClosedUp(S) == \A e \in S : e # Root => Up[e] \in S
           up == [e \in Dirs |-> {a \in Dirs : \A S \in SUBSET Dirs : e \in S /\ ClosedUp(S) => a \in S}]
           Step(g) == [e \in Dirs |-> IF e = Root THEN {Root} ELSE {e} \cup g[Up[e]]]
<1>1. ASSUME NEW e \in Dirs PROVE up[e] = IF e = Root THEN {Root} ELSE {e} \cup up[Up[e]]
  <2>0. Root \in Dirs /\ Up[e] \in Dirs
    BY TreeAssumption
  <2>1. CASE e = Root
    <3>1. ClosedUp({Root})
      OBVIOUS
    <3> QED BY <2>0, <2>1, <3>1
  <2>2. CASE e # Root
    <3>1. e \in up[e] /\ up[Up[e]] \subseteq up[e]
      BY <2>0, <2>2
    <3>2. ClosedUp({e} \cup up[Up[e]]) /\ {e} \cup up[Up[e]] \subseteq Dirs
      BY <2>0, TreeAssumption
    <3>3. up[e] \subseteq {e} \cup up[Up[e]]
      BY <3>2
    <3> QED BY <2>2, <3>1, <3>3
  <2> QED BY <2>1, <2>2
<1>2. up = Step(up)
  BY <1>1
<1>3. above = CHOOSE g : g = Step(g)
  BY DEF above
<1>4. above = Step(above)
  BY <1>2, <1>3
<1> QED BY <1>4

\* The nearest of a set, seen from one of its directories, from below one that
\* is not in it, and from a root that is not.
LEMMA NearestHere ==
  ASSUME NEW d \in Dirs, NEW S, d \in S
  PROVE  Nearest(d, S) = d
<1>1. d \in above[d]
  BY Ancestors
<1>2. \A e \in S \cap above[d] : d \in above[e] => e = d
  BY LineAssumption
<1> QED BY <1>1, <1>2 DEF Nearest, Inside

LEMMA NearestAbove ==
  ASSUME NEW d \in Dirs, NEW S, d \notin S, d # Root
  PROVE  Nearest(d, S) = Nearest(Up[d], S)
<1> DEFINE FirstOf(met) ==
      IF met = {} THEN None ELSE CHOOSE e \in met : \A o \in met : Inside(e, o)
<1>1. S \cap above[d] = S \cap above[Up[d]]
  BY Ancestors
<1>2. Nearest(d, S) = FirstOf(S \cap above[d]) /\ Nearest(Up[d], S) = FirstOf(S \cap above[Up[d]])
  BY DEF Nearest
<1> HIDE DEF FirstOf
<1> QED BY <1>1, <1>2

LEMMA NearestNone ==
  ASSUME NEW S, Root \notin S
  PROVE  Nearest(Root, S) = None
<1>1. S \cap above[Root] = {}
  BY Ancestors, TreeAssumption
<1> QED BY <1>1 DEF Nearest

\* The nearest is met before the others.
LEMMA NearestIsFirst ==
  ASSUME NEW d \in Dirs, NEW S, S \cap above[d] # {}
  PROVE  /\ Nearest(d, S) \in S \cap above[d]
         /\ \A o \in S \cap above[d] : o \in above[Nearest(d, S)]
<1> DEFINE met == S \cap above[d]
           Nearer(e) == \A o \in met : Inside(e, o)
<1>1. \E e \in met : Nearer(e)
  <2>1. met \in SUBSET above[d] /\ met # {}
    OBVIOUS
  <2>2. \A T \in SUBSET above[d] : T # {} => \E e \in T : T \subseteq above[e]
    BY LineAssumption
  <2> HIDE DEF met
  <2>3. PICK e \in met : met \subseteq above[e]
    BY <2>1, <2>2
  <2> QED BY <2>3 DEF Inside
<1>2. Nearest(d, S) = CHOOSE e \in met : Nearer(e)
  BY DEF Nearest
<1>3. Nearest(d, S) \in met /\ Nearer(Nearest(d, S))
  <2> HIDE DEF Nearer, met
  <2> QED BY <1>1, <1>2
<1> QED BY <1>3 DEF Inside

\* There is a nearest as soon as one of the set is above.
LEMMA NearestIsMet ==
  ASSUME NEW d \in Dirs, NEW S, S \cap above[d] # {}
  PROVE  Nearest(d, S) \in S \cap above[d]
BY NearestIsFirst

\* What is met first is the nearest, and there is no other.
LEMMA NearestIs ==
  ASSUME NEW d \in Dirs, NEW S, NEW m \in S \cap above[d], \A o \in S \cap above[d] : Inside(m, o)
  PROVE  Nearest(d, S) = m
<1> DEFINE met == S \cap above[d]
           Only(e) == e \in met /\ \A o \in met : Inside(e, o)
<1>1. \A e : Only(e) => e = m
  <2> SUFFICES ASSUME NEW e, Only(e) PROVE e = m
    OBVIOUS
  <2>1. e \in above[m] /\ m \in above[e] /\ m \in Dirs
    BY AboveAssumption DEF Inside
  <2> QED BY <2>1, LineAssumption
<1>2. Only(m)
  OBVIOUS
<1>3. Nearest(d, S) = CHOOSE e \in met : \A o \in met : Inside(e, o)
  BY DEF Nearest
<1> QED BY <1>1, <1>2, <1>3

\* Beyond the nearest of S, the nearest of its subset B is what it is from there.
LEMMA NearestBeyond ==
  ASSUME NEW g \in Dirs, NEW S, NEW B \in SUBSET S, NEW d \in Dirs, Nearest(g, S) = d, None \notin Dirs
  PROVE  Nearest(g, B) = Nearest(d, B)
<1> DEFINE FirstOf(met) ==
      IF met = {} THEN None ELSE CHOOSE e \in met : \A o \in met : Inside(e, o)
<1>1. S \cap above[g] # {}
  BY DEF Nearest
<1>2. d \in above[g] /\ \A o \in S \cap above[g] : o \in above[d]
  BY <1>1, NearestIsFirst
<1>3. above[d] \subseteq above[g]
  BY <1>2, AboveAssumption
<1>4. B \cap above[g] = B \cap above[d]
  BY <1>2, <1>3
<1>5. Nearest(g, B) = FirstOf(B \cap above[g]) /\ Nearest(d, B) = FirstOf(B \cap above[d])
  BY DEF Nearest
<1> HIDE DEF FirstOf
<1> QED BY <1>4, <1>5

\* Of a set that has the nearest of a larger one it is the nearest as well.
LEMMA NearestWithin ==
  ASSUME NEW g \in Dirs, NEW S, NEW B \in SUBSET S, Nearest(g, S) \in B, None \notin B
  PROVE  Nearest(g, B) = Nearest(g, S)
<1> DEFINE m == Nearest(g, S)
<1>1. S \cap above[g] # {}
  BY DEF Nearest
<1>2. m \in B \cap above[g] /\ \A o \in B \cap above[g] : Inside(m, o)
  BY <1>1, NearestIsFirst DEF Inside
<1> HIDE DEF m
<1> QED BY <1>2, NearestIs DEF m

-----------------------------------------------------------------------------
(* The caches of the output index.                                          *)

\* Rules and outputs lie in directories, and the rules the language manages are
\* rules.
Placed ==
    /\ BuildDirs \subseteq Dirs
    /\ Home \in [Rules -> BuildDirs] /\ PlaceOf \in [OutputFiles -> Dirs] /\ Managed \subseteq Rules

\* Lists and caches are what they look like.
ListsAreRules == list \in [BuildDirs -> SUBSET Rules] /\ \A d \in BuildDirs : \A r \in list[d] : Home[r] = d

Entry3(e) == e = [rules |-> e.rules, epoch |-> e.epoch, by |-> e.by] /\ e.epoch \in BOOLEAN
Entry2(e) == e = [rules |-> e.rules, epoch |-> e.epoch] /\ e.epoch \in BOOLEAN
CacheOK(c) ==
    /\ c = [registered |-> c.registered, index |-> c.index, recorded |-> c.recorded, memo |-> c.memo]
    /\ c.index = [d \in BuildDirs |-> c.index[d]]
    /\ c.recorded = [d \in BuildDirs |-> c.recorded[d]]
    /\ c.memo = [o \in OutputFiles |-> c.memo[o]]
    /\ \A d \in BuildDirs : c.index[d] # None => Entry3(c.index[d])
    /\ \A d \in BuildDirs : c.recorded[d] # None => Entry2(c.recorded[d])

\* An index answers for the rules it was made for, as they declare today.
RightIn(ix, d) ==
    /\ ix.rules \subseteq {r \in Rules : Home[r] = d}
    /\ \A o \in OutputFiles : ix.by[o] = First({r \in ix.rules : o \in decl[r]})
IndexRight(c, D) == \A d \in D : c.index[d] # None => RightIn(c.index[d], d)

\* The rules of a record are registered, and of its directory.
RecordRight(c) ==
    \A d \in BuildDirs : c.recorded[d] # None =>
       c.recorded[d].rules \subseteq c.registered /\ \A r \in c.recorded[d].rules : Home[r] = d

\* What was compared since the lists changed has the lists' rules.
Timely(c) ==
    \A d \in BuildDirs :
       /\ c.index[d] # None /\ c.index[d].epoch => c.index[d].rules = list[d]
       /\ c.recorded[d] # None /\ c.recorded[d].epoch => c.recorded[d].rules = list[d]

MemoRight(c) == \A o \in OutputFiles : c.memo[o] \in {Unset, Writer(o)}

\* What holds of the caches while a callback runs.
Sound(c) == CacheOK(c) /\ IndexRight(c, BuildDirs) /\ RecordRight(c) /\ Timely(c) /\ MemoRight(c)

\* A question on its way has passed no directory that has the answer.
Writers(o) == {e \in BuildDirs : Declaring(e, o) # None}
OnItsWay ==
    /\ asked = [for |-> asked.for, at |-> asked.at, registered |-> asked.registered]
    /\ asked.for \in OutputFiles /\ asked.at \in Dirs
    /\ Writer(asked.for) = LET d == Nearest(asked.at, Writers(asked.for))
                           IN  IF d = None THEN None ELSE Declaring(d, asked.for)

\* Between the callbacks only the index of a merged file may be wrong, and the
\* callback that is to come is of one of its rules.
Pending == {Home[r] : r \in imports}
IInv ==
    /\ ListsAreRules
    /\ imports \subseteq Rules /\ \A r, q \in imports : Home[r] = Home[q]
    /\ CacheOK(cache) /\ RecordRight(cache) /\ IndexRight(cache, BuildDirs \ Pending)
    /\ running => Sound(cache)
    /\ running \in BOOLEAN
    /\ asked # None => running /\ OnItsWay

LEMMA Doubt ==
  ASSUME NEW e, NEW b \in BOOLEAN
  PROVE  /\ Entry3(e) => LET f == [e EXCEPT !.epoch = b]
                         IN  Entry3(f) /\ f.epoch = b /\ f.rules = e.rules /\ f.by = e.by
         /\ Entry2(e) => LET f == [e EXCEPT !.epoch = b]
                         IN  Entry2(f) /\ f.epoch = b /\ f.rules = e.rules
<1>1. ASSUME Entry3(e)
      PROVE  [e EXCEPT !.epoch = b] = [rules |-> e.rules, epoch |-> b, by |-> e.by]
  BY <1>1 DEF Entry3
<1>2. ASSUME Entry2(e)
      PROVE  [e EXCEPT !.epoch = b] = [rules |-> e.rules, epoch |-> b]
  BY <1>2 DEF Entry2
<1> QED BY <1>1, <1>2 DEF Entry3, Entry2

\* Caches that no question was asked of since the lists changed.
Fresh(c) ==
    /\ CacheOK(c) /\ RecordRight(c)
    /\ \A o \in OutputFiles : c.memo[o] = Unset
    /\ \A d \in BuildDirs : (c.index[d] # None => ~c.index[d].epoch)
                       /\ (c.recorded[d] # None => ~c.recorded[d].epoch)

LEMMA EpochIsFresh ==
  ASSUME NEW c, NEW D \in SUBSET BuildDirs, CacheOK(c), RecordRight(c), IndexRight(c, D)
  PROVE  Fresh(NextEpoch(c)) /\ IndexRight(NextEpoch(c), D)
<1> DEFINE n == NextEpoch(c)
<1>1. /\ n = [registered |-> n.registered, index |-> n.index, recorded |-> n.recorded, memo |-> n.memo]
      /\ n.registered = c.registered /\ n.memo = NoMemo
      /\ n.index = [d \in BuildDirs |-> IF c.index[d] = None THEN None ELSE [c.index[d] EXCEPT !.epoch = FALSE]]
      /\ n.recorded =
            [d \in BuildDirs |-> IF c.recorded[d] = None THEN None ELSE [c.recorded[d] EXCEPT !.epoch = FALSE]]
  BY DEF NextEpoch, Doubted
<1> HIDE DEF n
<1>2. ASSUME NEW d \in BuildDirs, n.index[d] # None
      PROVE  /\ c.index[d] # None /\ Entry3(n.index[d]) /\ ~n.index[d].epoch
             /\ n.index[d].rules = c.index[d].rules /\ n.index[d].by = c.index[d].by
  <2>1. c.index[d] # None /\ n.index[d] = [c.index[d] EXCEPT !.epoch = FALSE]
    BY <1>1, <1>2
  <2>2. Entry3(c.index[d])
    BY <2>1 DEF CacheOK
  <2> QED BY <2>1, <2>2, Doubt
<1>3. ASSUME NEW d \in BuildDirs, n.recorded[d] # None
      PROVE  /\ c.recorded[d] # None /\ Entry2(n.recorded[d]) /\ ~n.recorded[d].epoch
             /\ n.recorded[d].rules = c.recorded[d].rules
  <2>1. c.recorded[d] # None /\ n.recorded[d] = [c.recorded[d] EXCEPT !.epoch = FALSE]
    BY <1>1, <1>3
  <2>2. Entry2(c.recorded[d])
    BY <2>1 DEF CacheOK
  <2> QED BY <2>1, <2>2, Doubt
<1>4. n.memo = [o \in OutputFiles |-> n.memo[o]] /\ \A o \in OutputFiles : n.memo[o] = Unset
  BY <1>1 DEF NoMemo
<1>5. n.index = [d \in BuildDirs |-> n.index[d]] /\ n.recorded = [d \in BuildDirs |-> n.recorded[d]]
  BY <1>1
<1>6. CacheOK(n)
  BY <1>1, <1>2, <1>3, <1>4, <1>5 DEF CacheOK
<1>7. RecordRight(n)
  BY <1>1, <1>3 DEF RecordRight
<1>8. IndexRight(n, D)
  BY <1>2 DEF IndexRight, RightIn
<1> QED BY <1>2, <1>3, <1>4, <1>6, <1>7, <1>8 DEF Fresh, n

\* Registering or deleting a rule takes with it what was made of its directory.
LEMMA BumpKeeps ==
  ASSUME NEW c, NEW r \in Rules, NEW outputs \in BOOLEAN, NEW registered, NEW D \in SUBSET BuildDirs,
         Placed, Fresh(c), IndexRight(c, D), c.registered \ {r} \subseteq registered
  PROVE  LET n == Bump(c, r, outputs, registered)
         IN  Fresh(n) /\ IndexRight(n, D \cup {Home[r]})
<1> DEFINE n == Bump(c, r, outputs, registered)
<1>0. Home[r] \in BuildDirs
  BY DEF Placed
<1>1. /\ n = [registered |-> n.registered, index |-> n.index, recorded |-> n.recorded, memo |-> n.memo]
      /\ n.registered = registered
      /\ n.memo = IF outputs THEN NoMemo ELSE c.memo
      /\ n.index = [c.index EXCEPT ![Home[r]] = None]
      /\ n.recorded = [c.recorded EXCEPT ![Home[r]] = None]
  BY DEF Bump
<1> HIDE DEF n
<1>2. \A d \in BuildDirs : /\ n.index[d] = (IF d = Home[r] THEN None ELSE c.index[d])
                      /\ n.recorded[d] = (IF d = Home[r] THEN None ELSE c.recorded[d])
  BY <1>1 DEF Fresh, CacheOK
<1>3. n.index = [d \in BuildDirs |-> n.index[d]] /\ n.recorded = [d \in BuildDirs |-> n.recorded[d]]
  BY <1>1 DEF Fresh, CacheOK
<1>4. n.memo = [o \in OutputFiles |-> n.memo[o]] /\ \A o \in OutputFiles : n.memo[o] = Unset
  BY <1>1 DEF NoMemo, Fresh, CacheOK
<1>5. CacheOK(n)
  BY <1>1, <1>2, <1>3, <1>4 DEF Fresh, CacheOK
<1>6. RecordRight(n)
  <2> SUFFICES ASSUME NEW d \in BuildDirs, n.recorded[d] # None
               PROVE  n.recorded[d].rules \subseteq registered /\ \A q \in n.recorded[d].rules : Home[q] = d
    BY <1>1 DEF RecordRight
  <2>1. d # Home[r] /\ n.recorded[d] = c.recorded[d]
    BY <1>2
  <2>2. c.recorded[d].rules \subseteq c.registered /\ \A q \in c.recorded[d].rules : Home[q] = d
    BY <2>1 DEF Fresh, RecordRight
  <2> QED BY <2>1, <2>2
<1>7. IndexRight(n, D \cup {Home[r]})
  BY <1>0, <1>2 DEF IndexRight
<1> QED BY <1>2, <1>4, <1>5, <1>6, <1>7 DEF Fresh, n

LEMMA setRuleKeeps ==
  ASSUME NEW c, NEW r \in Rules, NEW D \in SUBSET BuildDirs, Placed, Fresh(c), IndexRight(c, D)
  PROVE  Fresh(setRule(c, r)) /\ IndexRight(setRule(c, r), D \cup {Home[r]})
BY BumpKeeps DEF setRule

LEMMA deleteRuleKeeps ==
  ASSUME NEW c, NEW r \in Rules, Placed, Fresh(c), IndexRight(c, BuildDirs)
  PROVE  Fresh(deleteRule(c, r)) /\ IndexRight(deleteRule(c, r), BuildDirs)
<1>1. BuildDirs \cup {Home[r]} = BuildDirs
  BY DEF Placed
<1>2. (r \in c.registered /\ decl[r] # {}) \in BOOLEAN /\ c.registered \ {r} \subseteq c.registered \ {r}
  OBVIOUS
<1> DEFINE outputs == r \in c.registered /\ decl[r] # {}
           n == Bump(c, r, outputs, c.registered \ {r})
<1>3. Fresh(n) /\ IndexRight(n, BuildDirs \cup {Home[r]})
  <2> HIDE DEF outputs
  <2> QED BY <1>2, BumpKeeps DEF outputs
<1>4. deleteRule(c, r) = n
  BY DEF deleteRule
<1> QED BY <1>1, <1>3, <1>4

-----------------------------------------------------------------------------
(* A callback's questions.                                                  *)

\* What is current was made for the rules that the file has.
LEMMA CurrentIsListed ==
  ASSUME NEW c, Sound(c), NEW d \in BuildDirs
  PROVE  /\ Current(c.index[d], d) =>
               /\ c.index[d] # None /\ c.index[d].rules = list[d]
               /\ \A o \in OutputFiles : c.index[d].by[o] = Declaring(d, o)
         /\ Current(c.recorded[d], d) => c.recorded[d] # None /\ c.recorded[d].rules = list[d]
BY DEF Current, Sound, Timely, IndexRight, RightIn, Declaring

LEMMA ObservedIsSound ==
  ASSUME NEW c, Sound(c), ListsAreRules, NEW d
  PROVE  Sound(Observed(c, d))
<1> DEFINE n == Observed(c, d)
           dirs == {e \in BuildDirs \cap AtOrAbove(d) : ~Current(c.recorded[e], e)}
           new == (UNION {list[e] : e \in dirs}) \ c.registered
<1>1. /\ n = [registered |-> n.registered, index |-> n.index, recorded |-> n.recorded, memo |-> n.memo]
      /\ n.registered = c.registered \cup new
      /\ n.memo \in {NoMemo, c.memo}
      /\ n.index = [e \in BuildDirs |-> IF \E r \in new : Home[r] = e THEN None ELSE c.index[e]]
      /\ n.recorded = [e \in BuildDirs |->
            IF e \in dirs THEN [rules |-> list[e], epoch |-> TRUE]
            ELSE IF e \in AtOrAbove(d) THEN [c.recorded[e] EXCEPT !.epoch = TRUE] ELSE c.recorded[e]]
  BY DEF Observed
<1>2. ASSUME NEW e \in dirs PROVE list[e] \subseteq c.registered \cup new
  <2> SUFFICES ASSUME NEW r \in list[e], r \notin c.registered PROVE r \in new
    OBVIOUS
  <2> HIDE DEF dirs
  <2>1. r \in UNION {list[a] : a \in dirs}
    OBVIOUS
  <2> QED BY <2>1
<1>3. \A e \in (BuildDirs \cap AtOrAbove(d)) \ dirs : Current(c.recorded[e], e)
  OBVIOUS
<1> HIDE DEF n, dirs, new
<1>4. \A e \in BuildDirs : n.index[e] # None => n.index[e] = c.index[e] /\ c.index[e] # None
  BY <1>1
<1>5. ASSUME NEW e \in BuildDirs, n.recorded[e] # None
      PROVE  /\ Entry2(n.recorded[e])
             /\ n.recorded[e].rules \subseteq n.registered /\ \A r \in n.recorded[e].rules : Home[r] = e
             /\ n.recorded[e].epoch => n.recorded[e].rules = list[e]
  <2>1. CASE e \in dirs
    <3>1. n.recorded[e] = [rules |-> list[e], epoch |-> TRUE]
      BY <1>1, <2>1
    <3>2. Entry2(n.recorded[e]) /\ n.recorded[e].rules = list[e]
      BY <3>1 DEF Entry2
    <3>3. list[e] \subseteq n.registered
      BY <1>1, <1>2, <2>1
    <3>4. \A r \in list[e] : Home[r] = e
      BY DEF ListsAreRules
    <3> QED BY <3>2, <3>3, <3>4
  <2>2. CASE e \in AtOrAbove(d) /\ e \notin dirs
    <3>1. n.recorded[e] = [c.recorded[e] EXCEPT !.epoch = TRUE]
      BY <1>1, <2>2
    <3>2. c.recorded[e] # None /\ c.recorded[e].rules = list[e]
      BY <1>3, <2>2, CurrentIsListed
    <3>3. Entry2(c.recorded[e]) /\ c.recorded[e].rules \subseteq c.registered
      BY <3>2 DEF Sound, CacheOK, RecordRight
    <3>4. Entry2(n.recorded[e]) /\ n.recorded[e].rules = list[e]
      BY <3>1, <3>2, <3>3, Doubt
    <3>5. list[e] \subseteq n.registered
      BY <1>1, <3>2, <3>3
    <3>6. \A r \in list[e] : Home[r] = e
      BY DEF ListsAreRules
    <3> QED BY <3>4, <3>5, <3>6
  <2>3. CASE e \notin AtOrAbove(d) /\ e \notin dirs
    <3>1. n.recorded[e] = c.recorded[e]
      BY <1>1, <2>3
    <3>2. c.recorded[e] # None
      BY <1>5, <3>1
    <3>3. /\ Entry2(c.recorded[e]) /\ c.recorded[e].rules \subseteq c.registered
          /\ \A r \in c.recorded[e].rules : Home[r] = e
          /\ c.recorded[e].epoch => c.recorded[e].rules = list[e]
      BY <3>2 DEF Sound, CacheOK, RecordRight, Timely
    <3>4. c.registered \subseteq n.registered
      BY <1>1
    <3> QED BY <3>1, <3>3, <3>4
  <2> QED BY <2>1, <2>2, <2>3
<1>6. n.memo = [o \in OutputFiles |-> n.memo[o]] /\ \A o \in OutputFiles : n.memo[o] \in {Unset, c.memo[o]}
  <2>1. CASE n.memo = NoMemo
    BY <2>1 DEF NoMemo
  <2>2. CASE n.memo = c.memo
    BY <2>2 DEF Sound, CacheOK
  <2> QED BY <1>1, <2>1, <2>2
<1>7. CacheOK(n)
  <2>1. n.index = [e \in BuildDirs |-> n.index[e]] /\ n.recorded = [e \in BuildDirs |-> n.recorded[e]]
    BY <1>1
  <2> QED BY <1>1, <1>4, <1>5, <1>6, <2>1 DEF CacheOK, Sound
<1>8. IndexRight(n, BuildDirs) /\ RecordRight(n) /\ Timely(n)
  BY <1>4, <1>5 DEF Sound, IndexRight, RecordRight, Timely
<1>9. MemoRight(n)
  BY <1>6 DEF Sound, MemoRight
<1> QED BY <1>7, <1>8, <1>9 DEF Sound, n

LEMMA IndexedIsSound ==
  ASSUME NEW c, Sound(c), ListsAreRules, NEW d \in BuildDirs
  PROVE  Sound(Indexed(c, d)) /\ \A o \in OutputFiles : IndexOf(c, d).by[o] = Declaring(d, o)
<1> DEFINE n == Indexed(c, d)
<1>1. /\ Entry3(IndexOf(c, d)) /\ IndexOf(c, d).rules = list[d]
      /\ \A o \in OutputFiles : IndexOf(c, d).by[o] = Declaring(d, o)
  <2>1. CASE Current(c.index[d], d)
    <3>1. IndexOf(c, d) = [c.index[d] EXCEPT !.epoch = TRUE]
      BY <2>1 DEF IndexOf
    <3>2. /\ c.index[d] # None /\ c.index[d].rules = list[d]
          /\ \A o \in OutputFiles : c.index[d].by[o] = Declaring(d, o)
      BY <2>1, CurrentIsListed
    <3>3. Entry3(c.index[d])
      BY <3>2 DEF Sound, CacheOK
    <3>4. /\ Entry3(IndexOf(c, d)) /\ IndexOf(c, d).rules = c.index[d].rules
          /\ IndexOf(c, d).by = c.index[d].by
      BY <3>1, <3>3, Doubt
    <3> QED BY <3>2, <3>4
  <2>2. CASE ~Current(c.index[d], d)
    BY <2>2 DEF IndexOf, Entry3
  <2> QED BY <2>1, <2>2
<1>2. n = [registered |-> c.registered, index |-> [c.index EXCEPT ![d] = IndexOf(c, d)],
           recorded |-> c.recorded, memo |-> c.memo]
  BY DEF Indexed, Sound, CacheOK
<1> HIDE DEF n
<1>3. \A e \in BuildDirs : n.index[e] = IF e = d THEN IndexOf(c, d) ELSE c.index[e]
  BY <1>2 DEF Sound, CacheOK
<1>4. n.index = [e \in BuildDirs |-> n.index[e]]
  BY <1>2 DEF Sound, CacheOK
<1>5. CacheOK(n)
  BY <1>1, <1>2, <1>3, <1>4 DEF Sound, CacheOK
<1>6. RightIn(IndexOf(c, d), d)
  <2>1. list[d] \subseteq {r \in Rules : Home[r] = d}
    BY DEF ListsAreRules
  <2> QED BY <1>1, <2>1 DEF RightIn, Declaring
<1>7. IndexRight(n, BuildDirs) /\ RecordRight(n) /\ Timely(n) /\ MemoRight(n)
  BY <1>1, <1>2, <1>3, <1>6 DEF Sound, IndexRight, RecordRight, Timely, MemoRight
<1> QED BY <1>1, <1>5, <1>7 DEF Sound, n

LEMMA LookIsSound ==
  ASSUME NEW c, Sound(c), ListsAreRules, NEW d \in Dirs, NEW o \in OutputFiles
  PROVE  /\ Sound(Look(c, d, o).cache)
         /\ Look(c, d, o).by = IF d \in BuildDirs THEN Declaring(d, o) ELSE None
<1>1. CASE d \in BuildDirs /\ HasIndex(c, d)
  BY <1>1, IndexedIsSound DEF Look
<1>2. CASE d \in BuildDirs /\ ~HasIndex(c, d)
  BY <1>2, ObservedIsSound DEF Look
<1>3. CASE d \notin BuildDirs
  BY <1>3 DEF Look
<1> QED BY <1>1, <1>2, <1>3

LEMMA RememberIsSound ==
  ASSUME NEW c, Sound(c), NEW before, NEW o \in OutputFiles
  PROVE  Sound(Remember(c, before, o, Writer(o)))
<1>1. CASE \E n \in c.registered \ before : decl[n] # {}
  BY <1>1 DEF Remember
<1>2. CASE ~\E n \in c.registered \ before : decl[n] # {}
  <2> DEFINE n == [c EXCEPT !.memo[o] = Writer(o)]
  <2>1. n = [registered |-> c.registered, index |-> c.index, recorded |-> c.recorded,
             memo |-> [c.memo EXCEPT ![o] = Writer(o)]]
    BY DEF Sound, CacheOK
  <2>2. Remember(c, before, o, Writer(o)) = n
    BY <1>2 DEF Remember
  <2> HIDE DEF n
  <2>3. /\ n.memo = [q \in OutputFiles |-> n.memo[q]]
        /\ \A q \in OutputFiles : n.memo[q] = IF q = o THEN Writer(o) ELSE c.memo[q]
    BY <2>1 DEF Sound, CacheOK
  <2>4. CacheOK(n)
    BY <2>1, <2>3 DEF Sound, CacheOK
  <2>5. IndexRight(n, BuildDirs) /\ RecordRight(n) /\ Timely(n) /\ MemoRight(n)
    BY <2>1, <2>3 DEF Sound, IndexRight, RecordRight, Timely, MemoRight
  <2> QED BY <2>2, <2>4, <2>5 DEF Sound
<1> QED BY <1>1, <1>2

-----------------------------------------------------------------------------
(* The steps of Gazelle and of its callbacks.                               *)

\* An epoch begins: whatever became of the lists, the caches are sound.
LEMMA FreshIsSound ==
  ASSUME Fresh(cache)', IndexRight(cache, BuildDirs)'
  PROVE  Sound(cache)'
BY DEF Fresh, Sound, Timely, MemoRight

\* Between the callbacks.
LEMMA MergeKeeps ==
  ASSUME Placed, IInv, NEW d \in BuildDirs, Merge(d)
  PROVE  IInv'
<1>1. PICK rules \in SUBSET {r \in Rules : Home[r] = d}, to \in [Managed -> UNION {Declarable[r] : r \in Managed}] :
         /\ \A r \in Managed : to[r] \in (IF r \in rules THEN Declarable[r] ELSE {decl[r]})
         /\ list' = [list EXCEPT ![d] = rules]
         /\ decl' = [r \in Rules |-> IF r \in Managed THEN to[r] ELSE decl[r]]
         /\ imports' = rules \cap Managed
  BY DEF Merge
<1>2. ~running /\ imports = {} /\ cache' = cache /\ running' = running /\ asked' = asked
  BY DEF Merge
<1>3. ListsAreRules'
  BY <1>1 DEF IInv, ListsAreRules
<1>4. imports' \subseteq Rules /\ \A r, q \in imports' : Home[r] = Home[q]
  BY <1>1
<1>5. IndexRight(cache, BuildDirs) /\ RecordRight(cache) /\ CacheOK(cache)
  BY <1>2 DEF IInv, Pending
<1>6. ASSUME NEW r \in Rules, Home[r] \notin Pending' PROVE decl'[r] = decl[r]
  <2>1. r \notin rules \/ r \notin Managed
    BY <1>1, <1>6 DEF Pending
  <2> QED BY <1>1, <2>1
<1>7. IndexRight(cache, BuildDirs \ Pending)'
  <2> SUFFICES ASSUME NEW e \in BuildDirs, e \notin Pending', cache.index[e] # None
               PROVE  RightIn(cache.index[e], e)'
    BY <1>2 DEF IndexRight
  <2> DEFINE ix == cache.index[e]
  <2>1. RightIn(ix, e)
    BY <1>5 DEF IndexRight
  <2>2. \A r \in ix.rules : decl'[r] = decl[r]
    BY <1>6, <2>1 DEF RightIn
  <2>3. ASSUME NEW o \in OutputFiles
        PROVE  {r \in ix.rules : o \in decl'[r]} = {r \in ix.rules : o \in decl[r]}
    BY <2>2
  <2> HIDE DEF ix
  <2>4. ix' = ix
    BY <1>2 DEF ix
  <2>5. \A o \in OutputFiles : ix.by[o] = First({r \in ix.rules : o \in decl'[r]})
    BY <2>1, <2>3 DEF RightIn
  <2> QED BY <1>2, <2>1, <2>4, <2>5 DEF RightIn, ix
<1> QED BY <1>2, <1>3, <1>4, <1>5, <1>7 DEF IInv, RecordRight, CacheOK

LEMMA EnterKeeps ==
  ASSUME IInv, Enter
  PROVE  IInv'
<1>1. IndexRight(cache, BuildDirs)
  BY DEF Enter, IInv, Pending
<1>2. Fresh(cache') /\ IndexRight(cache', BuildDirs)
  BY <1>1, EpochIsFresh DEF Enter, IInv
<1>3. list' = list /\ decl' = decl /\ imports' = imports /\ asked' = asked /\ asked = None /\ running'
  BY DEF Enter, IInv
<1>4. Fresh(cache)' /\ IndexRight(cache, BuildDirs)'
  BY <1>2, <1>3 DEF Fresh, IndexRight, RightIn, CacheOK, RecordRight
<1>5. Sound(cache)'
  BY <1>4, FreshIsSound
<1> QED BY <1>3, <1>5 DEF Enter, IInv, ListsAreRules, Sound, IndexRight

LEMMA ImportsKeeps ==
  ASSUME Placed, IInv, NEW r \in Rules, Imports(r)
  PROVE  IInv'
<1>1. Pending = {Home[r]} /\ Home[r] \in BuildDirs
  BY DEF Imports, IInv, Pending, Placed
<1> DEFINE n == NextEpoch(cache)
<1>2. Fresh(n) /\ IndexRight(n, BuildDirs \ Pending)
  BY EpochIsFresh DEF IInv
<1>3. cache' = setRule(n, r)
  BY DEF Imports
<1> HIDE DEF n
<1>4. Fresh(cache') /\ IndexRight(cache', BuildDirs)
  <2>1. (BuildDirs \ Pending) \cup {Home[r]} = BuildDirs
    BY <1>1
  <2> QED BY <1>2, <1>3, <2>1, setRuleKeeps
<1>5. /\ list' = list /\ decl' = decl /\ imports' = imports \ {r} /\ asked' = asked /\ asked = None
      /\ running'
  BY DEF Imports, IInv
<1>6. Fresh(cache)' /\ IndexRight(cache, BuildDirs)'
  BY <1>4, <1>5 DEF Fresh, IndexRight, RightIn, CacheOK, RecordRight
<1>7. Sound(cache)'
  BY <1>6, FreshIsSound
<1>8. ListsAreRules' /\ imports' \subseteq Rules /\ \A p, q \in imports' : Home[p] = Home[q]
  BY <1>5 DEF IInv, ListsAreRules
<1> QED BY <1>5, <1>7, <1>8 DEF Imports, IInv, Sound, IndexRight

\* A callback's own changes to the lists begin an epoch.
LEMMA ReplaceKeeps ==
  ASSUME IInv, NEW d \in BuildDirs, Replace(d)
  PROVE  IInv'
<1>1. /\ Sound(cache) /\ cache' = NextEpoch(cache) /\ running /\ running' = running /\ asked' = asked
      /\ asked = None /\ decl' = decl /\ imports' = imports
  BY DEF Replace, Free, IInv
<1>2. Fresh(cache') /\ IndexRight(cache', BuildDirs)
  BY <1>1, EpochIsFresh DEF Sound
<1>3. Fresh(cache)' /\ IndexRight(cache, BuildDirs)'
  BY <1>1, <1>2 DEF Fresh, IndexRight, RightIn, CacheOK, RecordRight
<1>4. Sound(cache)'
  BY <1>3, FreshIsSound
<1>5. ListsAreRules'
  BY DEF Replace, IInv, ListsAreRules
<1> QED BY <1>1, <1>4, <1>5 DEF IInv, Sound, IndexRight

LEMMA WithdrawKeeps ==
  ASSUME Placed, IInv, NEW r \in Rules, Withdraw(r)
  PROVE  IInv'
<1> DEFINE n == NextEpoch(cache)
<1>1. /\ Sound(cache) /\ cache' = deleteRule(n, r) /\ running /\ running' = running /\ asked' = asked
      /\ asked = None /\ decl' = decl /\ imports' = imports
  BY DEF Withdraw, Free, IInv
<1>2. Fresh(n) /\ IndexRight(n, BuildDirs)
  BY <1>1, EpochIsFresh DEF Sound
<1> HIDE DEF n
<1>3. Fresh(cache') /\ IndexRight(cache', BuildDirs)
  BY <1>1, <1>2, deleteRuleKeeps
<1>4. Fresh(cache)' /\ IndexRight(cache, BuildDirs)'
  BY <1>1, <1>3 DEF Fresh, IndexRight, RightIn, CacheOK, RecordRight
<1>5. Sound(cache)'
  BY <1>4, FreshIsSound
<1>6. ListsAreRules'
  BY DEF Withdraw, IInv, ListsAreRules
<1> QED BY <1>1, <1>5, <1>6 DEF IInv, Sound, IndexRight

\* What is sound stays so while lists and declarations stay as they are.
LEMMA SoundLater ==
  ASSUME list' = list, decl' = decl, Sound(cache')
  PROVE  Sound(cache)'
<1>1. \A d \in BuildDirs, o \in OutputFiles : Declaring(d, o)' = Declaring(d, o)
  BY DEF Declaring
<1>2. \A o \in OutputFiles : Writer(o)' = Writer(o)
  BY DEF Writer, Declaring
<1> QED BY <1>2 DEF Sound, CacheOK, IndexRight, RightIn, RecordRight, Timely, MemoRight

LEMMA ObserveKeeps ==
  ASSUME IInv, NEW d \in BuildDirs, Observe(d)
  PROVE  IInv'
<1>1. /\ Sound(cache) /\ cache' = Observed(cache, d) /\ running /\ running' = running /\ asked' = asked
      /\ asked = None /\ decl' = decl /\ list' = list /\ imports' = imports
  BY DEF Observe, Free, IInv
<1>2. Sound(cache)'
  BY <1>1, ObservedIsSound, SoundLater DEF IInv
<1> QED BY <1>1, <1>2 DEF IInv, ListsAreRules, Sound, IndexRight

LEMMA AskKeeps ==
  ASSUME Placed, IInv, NEW o \in OutputFiles, Ask(o)
  PROVE  IInv'
<1>1. /\ asked' = [for |-> o, at |-> PlaceOf[o], registered |-> cache.registered]
      /\ list' = list /\ decl' = decl /\ cache' = cache /\ running' = running /\ imports' = imports
      /\ running /\ Sound(cache)
  BY DEF Ask, Free, IInv
<1>2. OnItsWay'
  BY <1>1 DEF OnItsWay, Writer, Writers, Placed
<1>3. Sound(cache)'
  BY <1>1, SoundLater
<1> QED BY <1>1, <1>2, <1>3 DEF IInv, ListsAreRules, Sound, IndexRight

\* A question goes up a directory, or ends where it is.
LEMMA LookUpKeeps ==
  ASSUME IInv, LookUp
  PROVE  IInv'
<1> DEFINE o == asked.for
           d == asked.at
           here == Look(cache, d, o)
<1>1. /\ asked # None /\ running /\ Sound(cache) /\ OnItsWay /\ ListsAreRules
      /\ list' = list /\ decl' = decl /\ running' = running /\ imports' = imports
  BY DEF LookUp, IInv
<1>2. o \in OutputFiles /\ d \in Dirs
  BY <1>1 DEF OnItsWay
<1>3. Sound(here.cache) /\ here.by = IF d \in BuildDirs THEN Declaring(d, o) ELSE None
  BY <1>1, <1>2, LookIsSound
<1>4. d \in Writers(o) <=> here.by # None
  BY <1>2, <1>3 DEF Writers
<1>5. Writer(o) = LET e == Nearest(d, Writers(o)) IN IF e = None THEN None ELSE Declaring(e, o)
  BY <1>1 DEF OnItsWay
<1>6. /\ here.by = None /\ d # Root =>
            cache' = here.cache /\ asked' = [asked EXCEPT !.at = Up[@]]
      /\ ~(here.by = None /\ d # Root) =>
            cache' = Remember(here.cache, asked.registered, o, here.by) /\ asked' = None
  BY DEF LookUp
<1> HIDE DEF o, d, here
<1>7. CASE here.by = None /\ d # Root
  <2>1. Nearest(d, Writers(o)) = Nearest(Up[d], Writers(o)) /\ Up[d] \in Dirs
    BY <1>2, <1>4, <1>7, NearestAbove, TreeAssumption
  <2>2. asked' = [for |-> o, at |-> Up[d], registered |-> asked.registered]
    BY <1>1, <1>6, <1>7 DEF OnItsWay, o, d
  <2>3. Sound(cache)'
    BY <1>1, <1>3, <1>6, <1>7, SoundLater
  <2>4. OnItsWay'
    BY <1>1, <1>2, <1>5, <2>1, <2>2 DEF OnItsWay, Writer, Writers, Declaring
  <2>5. IndexRight(cache, BuildDirs)' /\ Pending' = Pending
    BY <1>1, <2>3 DEF Sound, Pending
  <2> QED BY <1>1, <2>2, <2>3, <2>4, <2>5 DEF IInv, ListsAreRules, Sound, IndexRight
<1>8. CASE ~(here.by = None /\ d # Root)
  <2>1. Writer(o) = here.by
    <3>1. CASE here.by # None
      <4>1. Nearest(d, Writers(o)) = d
        BY <1>2, <1>4, <3>1, NearestHere
      <4>2. here.by = Declaring(d, o)
        BY <1>3, <3>1
      <4>3. d # None
        BY <1>2, TreeAssumption
      <4> QED BY <1>5, <4>1, <4>2, <4>3
    <3>2. CASE here.by = None
      <4>1. Nearest(Root, Writers(o)) = None
        BY <1>4, <1>8, <3>2, NearestNone
      <4> QED BY <1>5, <1>8, <3>2, <4>1
    <3> QED BY <3>1, <3>2
  <2>2. Sound(cache') /\ asked' = None
    BY <1>2, <1>3, <1>6, <1>8, <2>1, RememberIsSound
  <2>3. Sound(cache)'
    BY <1>1, <2>2, SoundLater
  <2> QED BY <1>1, <2>2, <2>3 DEF IInv, ListsAreRules, Sound, IndexRight
<1> QED BY <1>7, <1>8

\* A callback ends; and nothing happens.
LEMMA LeaveKeeps ==
  ASSUME IInv, Leave \/ UNCHANGED vars
  PROVE  IInv'
<1>1. list' = list /\ decl' = decl /\ cache' = cache /\ imports' = imports /\ asked' = asked
  BY DEF Leave, vars
<1>2. running' = running \/ (running' = FALSE /\ asked = None /\ Sound(cache))
  BY DEF Leave, vars, Free, IInv
<1>3. Sound(cache) => Sound(cache)'
  BY <1>1, SoundLater
<1>4. Pending' = Pending
  BY <1>1 DEF Pending
<1>5. IndexRight(cache, BuildDirs \ Pending) => IndexRight(cache, BuildDirs \ Pending)'
  BY <1>1, <1>4 DEF IndexRight, RightIn
<1>6. OnItsWay => OnItsWay'
  BY <1>1 DEF OnItsWay, Writer, Writers, Declaring
<1>7. ListsAreRules' /\ CacheOK(cache)' /\ RecordRight(cache)' /\ imports' \subseteq Rules
      /\ \A r, q \in imports' : Home[r] = Home[q]
  BY <1>1 DEF IInv, ListsAreRules, CacheOK, RecordRight
<1>8. IndexRight(cache, BuildDirs \ Pending)' /\ (running' => Sound(cache)')
  BY <1>2, <1>3, <1>5 DEF IInv
<1>9. asked' # None => running' /\ OnItsWay'
  BY <1>1, <1>2, <1>6 DEF IInv
<1>10. running' \in BOOLEAN
  BY <1>2 DEF IInv
<1> QED BY <1>7, <1>8, <1>9, <1>10 DEF IInv

LEMMA InitIsSound ==
  ASSUME Placed, Init
  PROVE  IInv
<1>1. ListsAreRules
  BY DEF Init, ListsAreRules, Placed
<1>2. cache = [registered |-> {}, index |-> [d \in BuildDirs |-> None],
               recorded |-> [d \in BuildDirs |-> None], memo |-> NoMemo]
  BY DEF Init
<1>3. CacheOK(cache) /\ RecordRight(cache) /\ IndexRight(cache, BuildDirs)
  BY <1>2 DEF NoMemo, CacheOK, RecordRight, IndexRight
<1> QED BY <1>1, <1>3 DEF Init, IInv, Pending, IndexRight

LEMMA NextKeeps ==
  ASSUME Placed, IInv, [Next]_vars
  PROVE  IInv'
BY MergeKeeps, ReplaceKeeps, ObserveKeeps, ImportsKeeps, WithdrawKeeps, AskKeeps, LookUpKeeps, EnterKeeps,
   LeaveKeeps DEF Next

\* The inductive invariant: when no callback runs, an index is right about its
\* rules in every file but one that was just merged.
THEOREM IndexInvariant == ASSUME Placed PROVE Spec => []IInv
<1>1. Init => IInv
  BY InitIsSound
<1>2. IInv /\ [Next]_vars => IInv'
  BY NextKeeps
<1> QED BY <1>1, <1>2, PTL DEF Spec

\* While a callback runs, what is kept about the writers of files is what a scan
\* of the BUILD files finds (resolve.go, outputProducer).
THEOREM IndexIsTheScan == ASSUME Placed PROVE Spec => []IndexAnswersMatch
<1>1. IInv => IndexAnswersMatch
  <2> SUFFICES ASSUME IInv, running PROVE
         /\ \A o \in OutputFiles : cache.memo[o] \in {Unset, Writer(o)}
         /\ \A d \in BuildDirs :
               /\ Current(cache.index[d], d) => \A o \in OutputFiles : cache.index[d].by[o] = Declaring(d, o)
               /\ Current(cache.recorded[d], d) => list[d] \subseteq cache.registered
    BY DEF IndexAnswersMatch
  <2>1. Sound(cache)
    BY DEF IInv
  <2> QED BY <2>1, CurrentIsListed DEF Sound, MemoRight, RecordRight
<1> QED BY <1>1, IndexInvariant, PTL
-----------------------------------------------------------------------------
(* The package of a file.                                                   *)

\* A declaration hides the JavaScript beside it.
Beside == \A f \in FirstParty : Twin[f] # None => Twin[f] \in FirstParty /\ DirOf[Twin[f]] = DirOf[f]

LEMMA NearestIsOne ==
  ASSUME NEW d \in Dirs, NEW S, Nearest(d, S) # None
  PROVE  Nearest(d, S) \in S \cap above[d]
<1>1. S \cap above[d] # {}
  BY DEF Nearest
<1> QED BY <1>1, NearestIsMet

LEMMA OwnerIsNearest ==
  ASSUME NEW t, NEW f \in FirstParty, Owner(t, f) # None
  PROVE  /\ Owner(t, f) = Nearest(DirOf[f], Packages(t))
         /\ Owner(t, f) \in Packages(t) /\ f \in PackageFiles(t, Owner(t, f))
<1>1. DirOf[f] \in Dirs
  BY TreeAssumption DEF FirstParty
<1> DEFINE d == Nearest(DirOf[f], Packages(t))
<1>2. Owner(t, f) = d /\ d # None /\ f \in PackageFiles(t, d)
  BY DEF Owner
<1> QED BY <1>1, <1>2, NearestIsOne

LEMMA SourceIsNearest ==
  ASSUME Beside, NEW t, NEW f, NEW d \in Dirs, f \in Srcs(t, d)
  PROVE  d = Nearest(DirOf[f], Packages(t))
<1> DEFINE own == {g \in PackageFiles(t, d) : Owner(t, g) = d /\ ~GeneratedFile(t, g)}
<1>1. ASSUME NEW g \in own PROVE g \in FirstParty /\ d = Nearest(DirOf[g], Packages(t))
  <2>1. g \in FirstParty /\ Owner(t, g) = d
    BY DEF PackageFiles
  <2> QED BY <2>1, OwnerIsNearest, TreeAssumption
<1>2. f \in own \/ \E g \in own : f = Twin[g] /\ Twin[g] # None
  BY DEF Srcs
<1> HIDE DEF own
<1>3. CASE f \in own
  BY <1>1, <1>3
<1>4. ASSUME NEW g \in own, f = Twin[g], Twin[g] # None PROVE d = Nearest(DirOf[f], Packages(t))
  BY <1>1, <1>4 DEF Beside
<1> QED BY <1>2, <1>3, <1>4

LEMMA DataIsNearest ==
  ASSUME NEW t, NEW f \in Files, NEW d \in Packages(t), f \in Data(t, d)
  PROVE  d = Nearest(DirOf[f], Packages(t))
<1>1. DirOf[f] \in Dirs
  BY TreeAssumption
<1>2. d \in above[DirOf[f]] /\ d = NearestPackage(t, DirOf[f])
  BY DEF Data, Inside
<1>3. Nearest(DirOf[f], Packages(t)) \in Packages(t) \cap above[DirOf[f]]
  BY <1>1, <1>2, NearestIsMet
<1>4. Nearest(DirOf[f], Packages(t)) # None
  BY <1>3, TreeAssumption DEF Packages
<1> QED BY <1>2, <1>4 DEF NearestPackage

\* Whatever the programs list and the walk met, a file has one place, the
\* nearest package, and what has none is in the log (owner.go, dataFiles).
THEOREM PlacesAreUnique == ASSUME Beside, NEW t PROVE HaveOnePlace(t)
<1> SUFFICES ASSUME NEW f \in FirstParty
             PROVE  /\ \A d \in Places(t, f) : Places(t, f) = {d} /\ d = Nearest(DirOf[f], Packages(t))
                    /\ t.walked[Root] = "yes" =>
                          \A d \in Packages(t) :
                             f \in PackageFiles(t, d) => Places(t, f) # {} \/ f \in Reported(t)
  BY DEF HaveOnePlace
<1>1. \A d \in Places(t, f) : d = Nearest(DirOf[f], Packages(t))
  <2> SUFFICES ASSUME NEW d \in Packages(t), f \in Srcs(t, d) \cup Data(t, d)
               PROVE  d = Nearest(DirOf[f], Packages(t))
    BY DEF Places
  <2>1. d \in Dirs /\ f \in Files
    BY DEF Packages, FirstParty
  <2> QED BY <2>1, SourceIsNearest, DataIsNearest
<1>2. ASSUME t.walked[Root] = "yes", NEW d \in Packages(t), f \in PackageFiles(t, d)
      PROVE  Places(t, f) # {} \/ f \in Reported(t)
  <2>1. d \in Dirs /\ ~GeneratedFile(t, f)
    BY <1>2 DEF Packages, PackageFiles
  <2>2. CASE Owner(t, f) = None
    <3>1. f \notin t.outputs
      BY <2>1 DEF GeneratedFile
    <3> QED BY <1>2, <2>1, <2>2, <3>1 DEF Reported
  <2>3. CASE Owner(t, f) # None
    <3>1. Owner(t, f) \in Packages(t) /\ f \in PackageFiles(t, Owner(t, f))
      BY <2>3, OwnerIsNearest
    <3>2. f \in Srcs(t, Owner(t, f))
      BY <2>1, <3>1 DEF Srcs
    <3> QED BY <3>1, <3>2 DEF Places
  <2> QED BY <2>2, <2>3
<1> QED BY <1>1, <1>2

\* So in the tree of every run.
THEOREM TreesHavePlaces == ASSUME Beside PROVE FilesHaveOnePlace
BY PlacesAreUnique DEF FilesHaveOnePlace

-----------------------------------------------------------------------------
(* The rules of a directory.                                                *)

BuildRule == [other : BOOLEAN, keep : BOOLEAN, vals : SUBSET Values, kept : SUBSET Values]
Rewritable ==
    /\ None \notin BuildRule
    /\ {Entry, ConfigFile, VitestFile, WranglerFile} \subseteq Values
\* What is known of a directory's program.
Known(k) == \A v \in {k.library, k.declaration, k.data, k.test} : v \subseteq Values

\* Sets of values are wanted, and what is not generated is wanted empty.
LEMMA WantedIsValues ==
  ASSUME Rewritable, NEW k, Known(k), NEW n \in Owned
  PROVE  /\ Wanted(k)[n] \in SUBSET Values
         /\ n \in Gen(k) <=> Wanted(k)[n] # {}
<1>1. packageRules(k)[n] \in SUBSET Values
  BY DEF Rewritable, Known, packageRules, Owned
<1>2. nonPackageRules(k)[n] \in SUBSET Values
  BY DEF Rewritable, nonPackageRules, Owned
<1> QED BY <1>1, <1>2 DEF Wanted, Gen

\* What the first of two writings left of a rule does not matter.
LEMMA MergedTwice ==
  ASSUME Rewritable, NEW r \in BuildRule, NEW v \in SUBSET Values, NEW w \in SUBSET Values
  PROVE  /\ MergeRules(r, v) \in BuildRule
         /\ MergeRules(MergeRules(r, v), w) = MergeRules(r, w)
         /\ MergeRules(r, v).other = r.other /\ MergeRules(r, v).keep = r.keep
         /\ ~r.keep => MergeRules(r, v).vals = v \cup r.kept
BY DEF BuildRule, MergeRules

LEMMA NewMerged ==
  ASSUME Rewritable, NEW v \in SUBSET Values, NEW w \in SUBSET Values
  PROVE  /\ New(v) # None /\ New(v) \in BuildRule /\ ~New(v).other /\ ~New(v).keep
         /\ MergeRules(New(v), w) = New(w)
         /\ New(v).vals = v
<1> DEFINE r == New(v)
<1>1. r = [other |-> FALSE, keep |-> FALSE, vals |-> v, kept |-> {}] /\ r \in BuildRule
  BY DEF New, BuildRule
<1> HIDE DEF r
<1>2. r.other = FALSE /\ r.keep = FALSE /\ r.vals = v /\ r.kept = {} /\ r # None
  BY <1>1 DEF Rewritable
<1>3. MergeRules(r, w) = [other |-> FALSE, keep |-> FALSE, vals |-> w \cup {}, kept |-> {}]
  <2>1. MergeRules(r, w) = [r EXCEPT !.vals = w \cup r.kept]
    BY <1>2 DEF MergeRules
  <2> QED BY <1>1, <1>2, <2>1 DEF BuildRule
<1>4. MergeRules(r, w) = New(w)
  BY <1>3 DEF New
<1> QED BY <1>1, <1>2, <1>4 DEF r

\* What a name holds at the end, by what it held and what is wanted.
Settled(have, w) ==
    CASE have = None                -> IF w = {} THEN None ELSE New(w)
      [] have # None /\ have.other  -> have
      [] have # None /\ ~have.other ->
           IF w = {} /\ ~have.keep /\ have.kept = {} THEN None ELSE MergeRules(have, w)

LEMMA OnceSettles ==
  ASSUME Rewritable, NEW file \in [Owned -> {None} \cup BuildRule], NEW k, Known(k), NEW n \in Owned
  PROVE  Once(file, k)[n] = Settled(file[n], Wanted(k)[n])
<1> DEFINE w == Wanted(k)[n]
           have == file[n]
           emptied == MergeRules(have, {})
<1>1. w \in SUBSET Values /\ (n \in Gen(k) <=> w # {})
  BY WantedIsValues
<1>2. Once(file, k)[n] =
        CASE n \in Gen(k) /\ have = None -> New(w)
          [] n \in Gen(k) /\ have # None /\ ~have.other -> MergeRules(have, w)
          [] n \in Owned \ Gen(k) /\ have # None /\ ~have.other ->
               IF IsEmpty(emptied) /\ ~have.keep THEN None ELSE emptied
          [] OTHER -> have
  BY DEF Once, MergeFile
<1>3. have = None \/ have \in BuildRule
  OBVIOUS
<1>4. have # None => (IsEmpty(emptied) /\ ~have.keep <=> ~have.keep /\ have.kept = {})
  BY <1>3, MergedTwice DEF IsEmpty
<1> HIDE DEF w, have, emptied
<1>5. CASE have = None
  BY <1>1, <1>2, <1>5 DEF Settled, w, have
<1>6. CASE have # None /\ have.other
  BY <1>1, <1>2, <1>6 DEF Settled, w, have
<1>7. CASE have # None /\ ~have.other
  <2>1. CASE w = {}
    BY <1>1, <1>2, <1>4, <1>7, <2>1 DEF Settled, w, have, emptied
  <2>2. CASE w # {}
    BY <1>1, <1>2, <1>7, <2>2 DEF Settled, w, have
  <2> QED BY <2>1, <2>2
<1> QED BY <1>5, <1>6, <1>7

LEMMA TwiceSettles ==
  ASSUME Rewritable, NEW file \in [Owned -> {None} \cup BuildRule], NEW early, Known(early),
         early.program, NEW final, Known(final), NEW n \in Owned
  PROVE  Run(file, early, final)[n] = Settled(file[n], Wanted(final)[n])
<1> DEFINE v == Wanted(early)[n]
           w == Wanted(final)[n]
           have == file[n]
           first == Register(file, early)[n]
           effective == MergeRules(first, w)
<1>1. v \in SUBSET Values /\ w \in SUBSET Values /\ (n \in Gen(final) <=> w # {})
  BY WantedIsValues
<1>2. first = IF have = None THEN New(v)
              ELSE IF have.other THEN have ELSE MergeRules(have, v)
  BY DEF Register, MergeFile
<1>3. Run(file, early, final)[n] =
        IF first = None \/ first.other THEN first
        ELSE IF n \notin Gen(final) /\ ~effective.keep /\ IsEmpty(effective) THEN None ELSE effective
  BY DEF Run, Refresh
<1>4. have = None \/ have \in BuildRule
  OBVIOUS
<1> HIDE DEF v, w, have, first, effective
<1>5. CASE have = None
  <2>1. first # None /\ ~first.other /\ effective = New(w) /\ ~effective.keep /\ effective.vals = w
    BY <1>1, <1>2, <1>5, NewMerged DEF effective
  <2> QED BY <1>1, <1>3, <1>5, <2>1 DEF Settled, IsEmpty, w, have
<1>6. CASE have # None /\ have.other
  BY <1>2, <1>3, <1>6 DEF Settled, have
<1>7. CASE have # None /\ ~have.other
  <2>1. /\ first # None /\ ~first.other /\ effective = MergeRules(have, w)
        /\ effective.keep = have.keep /\ (~have.keep => effective.vals = w \cup have.kept)
    BY <1>1, <1>2, <1>4, <1>7, MergedTwice DEF Rewritable, effective
  <2> QED BY <1>1, <1>3, <1>7, <2>1 DEF Settled, IsEmpty, w, have
<1> QED BY <1>5, <1>6, <1>7

LEMMA SettledIsStable ==
  ASSUME Rewritable, NEW have \in {None} \cup BuildRule, NEW w \in SUBSET Values
  PROVE  /\ Settled(have, w) \in {None} \cup BuildRule /\ Settled(Settled(have, w), w) = Settled(have, w)
         /\ w # {} /\ (have = None \/ ~have.other) =>
              Settled(have, w) # None /\ (Settled(have, w).keep \/ w \subseteq Settled(have, w).vals)
<1> DEFINE after == Settled(have, w)
<1>1. CASE have = None
  <2>1. Settled(have, w) = IF w = {} THEN None ELSE New(w)
    BY <1>1 DEF Settled
  <2>2. w # {} => Settled(New(w), w) = New(w)
    BY NewMerged DEF Settled
  <2> QED BY <1>1, <2>1, <2>2, NewMerged
<1>2. CASE have # None /\ have.other
  BY <1>2 DEF Settled
<1>3. CASE have # None /\ ~have.other
  <2> DEFINE m == MergeRules(have, w)
  <2>1. /\ m \in BuildRule /\ MergeRules(m, w) = m /\ ~m.other /\ m.keep = have.keep /\ m.kept = have.kept
        /\ ~have.keep => m.vals = w \cup have.kept
    BY <1>3, MergedTwice DEF BuildRule, MergeRules
  <2>2. m # None
    BY <2>1 DEF Rewritable
  <2>3. after = IF w = {} /\ ~have.keep /\ have.kept = {} THEN None ELSE m
    BY <1>3 DEF Settled
  <2> HIDE DEF m
  <2>4. Settled(m, w) = IF w = {} /\ ~m.keep /\ m.kept = {} THEN None ELSE MergeRules(m, w)
    BY <2>1, <2>2 DEF Settled
  <2>5. w = {} => Settled(None, w) = None
    BY DEF Settled
  <2> QED BY <1>3, <2>1, <2>2, <2>3, <2>4, <2>5
<1> QED BY <1>1, <1>2, <1>3

\* Whatever the rules were when Gazelle asked first, and whatever the user wrote
\* into the file, a directory's rules are those that one run would have written
\* that knew everything, and stay (generate.go, refreshProgramRules).
THEOREM TwiceIsOnce ==
  ASSUME Rewritable, NEW file \in [Owned -> {None} \cup BuildRule],
         NEW early, Known(early), NEW final, Known(final)
  PROVE  Regenerates(file, early, final)
<1> SUFFICES ASSUME early.program PROVE
      LET after == Run(file, early, final)
      IN  /\ after = Once(file, final)
          /\ Run(after, early, final) = after
          /\ \A n \in Gen(final) \ Taken(file, final) :
                after[n] # None /\ (after[n].keep \/ Wanted(final)[n] \subseteq after[n].vals)
  BY DEF Regenerates
<1> DEFINE after == Run(file, early, final)
           W(n) == Wanted(final)[n]
<1>1. /\ after = [n \in Owned |-> after[n]]
      /\ \A g \in [Owned -> {None} \cup BuildRule] :
            Run(g, early, final) = [n \in Owned |-> Run(g, early, final)[n]]
  BY DEF Run, Refresh
<1>2. Once(file, final) = [n \in Owned |-> Once(file, final)[n]]
  BY DEF Once, MergeFile
<1>3. \A n \in Owned : after[n] = Settled(file[n], W(n)) /\ Once(file, final)[n] = Settled(file[n], W(n))
  BY OnceSettles, TwiceSettles
<1>4. \A n \in Owned : W(n) \in SUBSET Values
  BY WantedIsValues
<1> HIDE DEF after, W
<1>5. after = Once(file, final)
  BY <1>1, <1>2, <1>3
<1>6. after \in [Owned -> {None} \cup BuildRule]
  BY <1>1, <1>3, <1>4, SettledIsStable
<1>7. \A n \in Owned : Run(after, early, final)[n] = after[n]
  <2> SUFFICES ASSUME NEW n \in Owned PROVE Run(after, early, final)[n] = after[n]
    OBVIOUS
  <2>1. Run(after, early, final)[n] = Settled(after[n], W(n))
    BY <1>6, TwiceSettles DEF W
  <2> QED BY <1>3, <1>4, <2>1, SettledIsStable
<1>8. Run(after, early, final) = after
  BY <1>1, <1>6, <1>7
<1>9. ASSUME NEW n \in Gen(final) \ Taken(file, final)
      PROVE  after[n] # None /\ (after[n].keep \/ W(n) \subseteq after[n].vals)
  <2>1. n \in Owned /\ W(n) # {} /\ (file[n] = None \/ ~file[n].other)
    BY DEF Gen, Taken, W
  <2> QED BY <1>3, <1>4, <2>1, SettledIsStable
<1> QED BY <1>5, <1>8, <1>9 DEF after, W

\* So of every directory of a run.
THEOREM DirectoriesRegenerate ==
  ASSUME Rewritable,
         directory # None =>
            /\ directory.file \in [Owned -> {None} \cup BuildRule]
            /\ Known(directory.early) /\ Known(directory.final)
  PROVE  RefreshRegenerates
BY TwiceIsOnce DEF RefreshRegenerates

-----------------------------------------------------------------------------
(* Functions on the natural numbers.                                       *)

\* A set of numbers that has 0 and with each its successor has them all: the
\* least that it lacks would have a predecessor.
LEMMA Counting ==
  ASSUME NEW S, 0 \in S, \A n \in S \cap Nat : n + 1 \in S
  PROVE  Nat \subseteq S
<1> DEFINE Missing == Nat \ S
           Less == {ss \in Nat \X Nat : ss[1] < ss[2]}
<1> SUFFICES ASSUME Missing # {} PROVE FALSE
  OBVIOUS
<1>1. IsWellFoundedOn(Less, Nat)
  BY NatLessThanWellFounded DEF OpToRel
<1>2. \E x \in Missing : \A y \in Missing : ~ (<<y, x>> \in Less)
  <2>1. Missing \subseteq Nat
    OBVIOUS
  <2> HIDE DEF Missing, Less
  <2> QED BY <2>1, <1>1, WFMin
<1>3. PICK x \in Missing : \A y \in Missing : ~ (y < x)
  BY <1>2
<1>4. x # 0 /\ x - 1 \in Nat /\ x - 1 + 1 = x
  BY <1>3
<1>5. x - 1 \in S
  BY <1>3, <1>4
<1> QED BY <1>3, <1>4, <1>5

\* A function can be applied any number of times.
LEMMA Iterated ==
  ASSUME NEW S, NEW a \in S, NEW F \in [S -> S]
  PROVE  \E g \in [Nat -> S] : \A n \in Nat : g[n] = IF n = 0 THEN a ELSE F[g[n - 1]]
<1> DEFINE Is(h, m) == h \in [0..m -> S] /\ h[0] = a /\ \A i \in 1..m : h[i] = F[h[i - 1]]
           Built == {m \in Nat : \E h \in [0..m -> S] : Is(h, m)}
<1>1. Nat \subseteq Built
  <2>1. 0 \in Built
    <3>1. Is([i \in 0..0 |-> a], 0)
      OBVIOUS
    <3> QED BY <3>1
  <2>2. ASSUME NEW m \in Built \cap Nat PROVE m + 1 \in Built
    <3>1. PICK h \in [0..m -> S] : Is(h, m)
      OBVIOUS
    <3> DEFINE k == [i \in 0..(m + 1) |-> IF i = m + 1 THEN F[h[m]] ELSE h[i]]
    <3>2. k \in [0..(m + 1) -> S]
      BY <3>1
    <3>3. k[0] = a
      BY <3>1
    <3>4. ASSUME NEW i \in 1..(m + 1) PROVE k[i] = F[k[i - 1]]
      <4>1. CASE i = m + 1
        BY <4>1
      <4>2. CASE i # m + 1
        BY <3>1, <4>2
      <4> QED BY <4>1, <4>2
    <3> HIDE DEF k
    <3>5. Is(k, m + 1)
      BY <3>2, <3>3, <3>4
    <3> QED BY <3>5
  <2> HIDE DEF Built
  <2> QED BY <2>1, <2>2, Counting
<1>2. ASSUME NEW m \in Nat, NEW l \in Nat, NEW h, NEW k, Is(h, m), Is(k, l)
      PROVE  \A i \in Nat : i <= m /\ i <= l => h[i] = k[i]
  <2> DEFINE Same == {i \in Nat : i <= m /\ i <= l => h[i] = k[i]}
  <2>1. 0 \in Same
    BY <1>2
  <2>2. ASSUME NEW i \in Same \cap Nat PROVE i + 1 \in Same
    BY <1>2
  <2>3. Nat \subseteq Same
    <3> HIDE DEF Same
    <3> QED BY <2>1, <2>2, Counting
  <2> QED BY <2>3
<1> DEFINE Of == [m \in Nat |-> CHOOSE h \in [0..m -> S] : Is(h, m)]
           g == [m \in Nat |-> Of[m][m]]
<1>3. \A m \in Nat : Is(Of[m], m)
  BY <1>1
<1>4. g \in [Nat -> S]
  <2> HIDE DEF Of
  <2>1. ASSUME NEW m \in Nat PROVE Of[m][m] \in S
    <3>1. Of[m] \in [0..m -> S]
      BY <1>3
    <3>2. m \in 0..m
      OBVIOUS
    <3> QED BY <3>1, <3>2
  <2> QED BY <2>1
<1>5. ASSUME NEW n \in Nat PROVE g[n] = IF n = 0 THEN a ELSE F[g[n - 1]]
  <2>1. CASE n = 0
    BY <1>3, <2>1
  <2>2. CASE n # 0
    <3>1. n - 1 \in Nat /\ n \in 1..n /\ n - 1 <= n
      BY <2>2
    <3>2. Is(Of[n], n) /\ Is(Of[n - 1], n - 1)
      BY <3>1, <1>3
    <3>3. Of[n][n] = F[Of[n][n - 1]]
      BY <3>1, <3>2
    <3> HIDE DEF Of, Is
    <3>4. Of[n][n - 1] = Of[n - 1][n - 1]
      BY <3>1, <3>2, <1>2
    <3> QED BY <2>2, <3>1, <3>3, <3>4
  <2> QED BY <2>1, <2>2
<1> HIDE DEF g
<1> QED BY <1>4, <1>5

\* A function of the turn can be applied in each of a number of turns.
LEMMA Stepped ==
  ASSUME NEW S, NEW a \in S, NEW N \in Nat,
         NEW D, D = (1..N) \X S, NEW F \in [D -> S]
  PROVE  \E g \in [0..N -> S] : \A i \in 0..N : g[i] = IF i = 0 THEN a ELSE F[<<i, g[i - 1]>>]
<1> DEFINE P == (0..N) \X S
           turn == [p \in P |-> IF p[1] < N THEN <<p[1] + 1, F[<<p[1] + 1, p[2]>>]>> ELSE p]
<1>1. turn \in [P -> P]
  <2>1. ASSUME NEW p \in P, p[1] < N PROVE <<p[1] + 1, F[<<p[1] + 1, p[2]>>]>> \in P
    <3>1. <<p[1] + 1, p[2]>> \in D /\ p[1] + 1 \in 0..N
      BY <2>1
    <3>2. F[<<p[1] + 1, p[2]>>] \in S
      BY <3>1
    <3> QED BY <3>1, <3>2
  <2>2. \A p \in P : (IF p[1] < N THEN <<p[1] + 1, F[<<p[1] + 1, p[2]>>]>> ELSE p) \in P
    BY <2>1
  <2> HIDE DEF P
  <2> QED BY <2>2
<1>2. \A i \in 0..N, s \in S : i < N => turn[<<i, s>>] = <<i + 1, F[<<i + 1, s>>]>>
  BY DEF turn
<1> DEFINE start == <<0, a>>
<1>3. start \in P
  OBVIOUS
<1>4. PICK h \in [Nat -> P] : \A n \in Nat : h[n] = IF n = 0 THEN start ELSE turn[h[n - 1]]
  <2> HIDE DEF turn, P, start
  <2> QED BY <1>1, <1>3, Iterated
<1> HIDE DEF turn
<1> DEFINE There == {n \in Nat : n <= N => h[n][1] = n}
<1>5. \A n \in Nat : h[n] = <<h[n][1], h[n][2]>> /\ h[n][1] \in 0..N /\ h[n][2] \in S
  OBVIOUS
<1>6. ASSUME NEW n \in Nat, n + 1 <= N, h[n][1] = n
      PROVE  h[n + 1] = <<n + 1, F[<<n + 1, h[n][2]>>]>>
  <2>1. n + 1 # 0 /\ n + 1 - 1 = n /\ n + 1 \in Nat /\ n < N /\ n \in 0..N
    BY <1>6
  <2>2. h[n + 1] = turn[h[n]]
    BY <1>4, <2>1
  <2>3. h[n] = <<n, h[n][2]>> /\ h[n][2] \in S
    BY <1>5, <1>6
  <2> QED BY <1>2, <2>1, <2>2, <2>3
<1>7. 0 \in There
  BY <1>4
<1>8. ASSUME NEW n \in There \cap Nat PROVE n + 1 \in There
  <2> SUFFICES ASSUME n + 1 <= N PROVE h[n + 1][1] = n + 1
    OBVIOUS
  <2>1. n \in Nat /\ h[n][1] = n
    OBVIOUS
  <2>2. h[n + 1] = <<n + 1, F[<<n + 1, h[n][2]>>]>>
    BY <1>6, <2>1
  <2> QED BY <2>2
<1>9. Nat \subseteq There
  <2> HIDE DEF There
  <2> QED BY <1>7, <1>8, Counting
<1> DEFINE g == [i \in 0..N |-> h[i][2]]
<1>10. g \in [0..N -> S]
  BY <1>5
<1>11. ASSUME NEW i \in 0..N PROVE g[i] = IF i = 0 THEN a ELSE F[<<i, g[i - 1]>>]
  <2>1. CASE i = 0
    <3>1. h[0] = <<0, a>>
      BY <1>4
    <3> QED BY <2>1, <3>1
  <2>2. CASE i # 0
    <3>1. i - 1 \in Nat /\ i - 1 + 1 = i /\ i <= N /\ i - 1 <= N /\ i - 1 \in 0..N
      BY <2>2
    <3>2. h[i - 1][1] = i - 1
      BY <1>9, <3>1
    <3>3. h[i] = <<i, F[<<i, h[i - 1][2]>>]>>
      BY <1>6, <3>1, <3>2
    <3> QED BY <2>2, <3>1, <3>3
  <2> QED BY <2>1, <2>2
<1> HIDE DEF g
<1> QED BY <1>10, <1>11

\* What grows within a finite set stops growing before it has all of it.
LEMMA GrowthEnds ==
  ASSUME NEW U, IsFiniteSet(U), NEW g \in [Nat -> SUBSET U],
         \A n \in Nat : g[n] \subseteq g[n + 1],
         \A n \in Nat : g[n] = g[n + 1] => g[n + 1] = g[n + 2],
         NEW m \in Nat, Cardinality(U) <= m
  PROVE  g[m + 1] = g[m]
<1>0. Cardinality(U) \in Nat
  BY FS_CardinalityType
<1> SUFFICES ASSUME g[m] # g[m + 1] PROVE FALSE
  OBVIOUS
<1>1. \A i \in Nat : i <= m => g[m - i] # g[m - i + 1]
  <2> DEFINE Growing == {i \in Nat : i <= m => g[m - i] # g[m - i + 1]}
  <2>1. 0 \in Growing
    BY m - 0 = m
  <2>2. ASSUME NEW i \in Growing \cap Nat PROVE i + 1 \in Growing
    <3> SUFFICES ASSUME i + 1 <= m PROVE g[m - (i + 1)] # g[m - (i + 1) + 1]
      OBVIOUS
    <3>1. m - (i + 1) \in Nat /\ m - (i + 1) + 1 = m - i /\ m - (i + 1) + 2 = m - i + 1 /\ i <= m
      OBVIOUS
    <3>2. g[m - i] # g[m - i + 1]
      BY <3>1
    <3> QED BY <3>1, <3>2
  <2> HIDE DEF Growing
  <2>3. Nat \subseteq Growing
    BY <2>1, <2>2, Counting
  <2> QED BY <2>3 DEF Growing
<1>2. \A n \in Nat : n <= m => g[n] # g[n + 1]
  <2> TAKE n \in Nat
  <2> HAVE n <= m
  <2>1. m - n \in Nat /\ m - n <= m /\ m - (m - n) = n
    OBVIOUS
  <2> QED BY <2>1, <1>1
<1>3. \A n \in Nat : IsFiniteSet(g[n]) /\ Cardinality(g[n]) \in Nat /\ Cardinality(g[n]) <= Cardinality(U)
  BY FS_Subset, FS_CardinalityType
<1> DEFINE Large == {n \in Nat : n <= m + 1 => n <= Cardinality(g[n])}
<1>4. 0 \in Large
  BY <1>3
<1>5. ASSUME NEW n \in Large \cap Nat PROVE n + 1 \in Large
  <2> SUFFICES ASSUME n + 1 <= m + 1 PROVE n + 1 <= Cardinality(g[n + 1])
    OBVIOUS
  <2>0. n \in Nat /\ n <= m /\ n <= Cardinality(g[n])
    OBVIOUS
  <2>1. g[n] \subseteq g[n + 1] /\ g[n] # g[n + 1]
    BY <1>2, <2>0
  <2>2. IsFiniteSet(g[n + 1]) /\ g[n] \in SUBSET g[n + 1]
    BY <2>1, <1>3
  <2>3. Cardinality(g[n]) <= Cardinality(g[n + 1]) /\ Cardinality(g[n]) # Cardinality(g[n + 1])
    <3> HIDE DEF Large
    <3> QED BY <2>1, <2>2, FS_Subset
  <2>4. n + 1 \in Nat /\ Cardinality(g[n]) \in Nat /\ Cardinality(g[n + 1]) \in Nat
    BY <2>0, <1>3
  <2> QED BY <2>0, <2>3, <2>4
<1>6. Nat \subseteq Large
  <2> HIDE DEF Large
  <2> QED BY <1>4, <1>5, Counting
<1> QED BY <1>0, <1>3, <1>6

\* g goes from start by the growing F, on the subsets of the finite U.
Climbs(U, start, F, g) ==
    /\ IsFiniteSet(U) /\ start \in SUBSET U /\ F \in [SUBSET U -> SUBSET U]
    /\ \A X \in SUBSET U : X \subseteq F[X]
    /\ g[0] = start /\ \A n \in Nat : g[n] \in SUBSET U => g[n + 1] = F[g[n]]

\* R is the least set that has start and that F does not leave.
IsLeast(U, start, F, R) ==
    /\ R \in SUBSET U /\ start \subseteq R /\ F[R] = R
    /\ \A Y \in SUBSET U : start \subseteq Y /\ (\A X \in SUBSET Y : F[X] \subseteq Y) => R \subseteq Y

\* In as many turns as there are elements it is reached.
LEMMA Reaching ==
  ASSUME NEW U, NEW start, NEW F, NEW g, Climbs(U, start, F, g)
  PROVE  IsLeast(U, start, F, g[Cardinality(U)])
<1> DEFINE P == SUBSET U
           m == Cardinality(U)
<1> USE DEF Climbs
<1>0. m \in Nat /\ Cardinality(U) <= m
  BY FS_CardinalityType
<1>1. ASSUME NEW Y \in P, start \subseteq Y, \A X \in P : X \subseteq Y => F[X] \subseteq Y
      PROVE  \A n \in Nat : g[n] \subseteq Y
  <2> DEFINE In == {n \in Nat : g[n] \subseteq Y}
  <2>1. 0 \in In
    BY <1>1
  <2>2. ASSUME NEW n \in In \cap Nat PROVE n + 1 \in In
    <3>1. g[n] \subseteq Y /\ g[n] \in P
      OBVIOUS
    <3>2. g[n + 1] = F[g[n]]
      BY <3>1
    <3> QED BY <1>1, <3>1, <3>2
  <2>3. Nat \subseteq In
    <3> HIDE DEF In
    <3> QED BY <2>1, <2>2, Counting
  <2> QED BY <2>3
<1>2. \A n \in Nat : g[n] \in P
  BY <1>1
<1>3. \A n \in Nat : g[n + 1] = F[g[n]] /\ g[n] \subseteq g[n + 1]
  BY <1>2
<1> DEFINE k == [n \in Nat |-> g[n]]
<1>4. k \in [Nat -> SUBSET U] /\ \A n \in Nat : k[n] \subseteq k[n + 1]
  BY <1>2, <1>3
<1>5. \A n \in Nat : k[n] = k[n + 1] => k[n + 1] = k[n + 2]
  <2> TAKE n \in Nat
  <2>1. n + 1 \in Nat /\ n + 2 \in Nat /\ n + 2 = n + 1 + 1
    OBVIOUS
  <2> QED BY <1>3, <2>1
<1>6. k[m + 1] = k[m]
  <2> HIDE DEF k
  <2> QED BY <1>0, <1>4, <1>5, GrowthEnds
<1>7. F[g[m]] = g[m]
  BY <1>0, <1>3, <1>6
<1>8. \A n \in Nat : start \subseteq g[n]
  <2> DEFINE Holds == {n \in Nat : start \subseteq g[n]}
  <2>1. 0 \in Holds
    OBVIOUS
  <2>2. ASSUME NEW n \in Holds \cap Nat PROVE n + 1 \in Holds
    BY <1>3
  <2>3. Nat \subseteq Holds
    <3> HIDE DEF Holds
    <3> QED BY <2>1, <2>2, Counting
  <2> QED BY <2>3
<1> QED BY <1>0, <1>1, <1>2, <1>7, <1>8 DEF IsLeast

-----------------------------------------------------------------------------
(* Patched listings.                                                       *)

\* The files of a listing are the least that hold the roots and what they import.
LEMMA ReachableIsLeast ==
  ASSUME NEW edges, \A e \in edges : e.to \in Files
  PROVE  /\ Roots \subseteq Reachable(edges) /\ Reachable(edges) \subseteq Files
         /\ \A e \in edges : e.from \in Reachable(edges) => e.to \in Reachable(edges)
         /\ \A S \in SUBSET Files : /\ Roots \subseteq S
                                    /\ \A e \in edges : e.from \in S => e.to \in S
                                    => Reachable(edges) \subseteq S
<1> DEFINE step(S) == S \cup {e.to : e \in {d \in edges : d.from \in S}}
           Def(g) == [n \in Nat |-> IF n = 0 THEN Roots ELSE step(g[n - 1])]
           reach == CHOOSE g : g = Def(g)
           P == SUBSET Files
<1>1. Reachable(edges) = reach[Cardinality(Files)]
  BY DEF Reachable
<1>2. Roots \in P /\ IsFiniteSet(Files)
  BY SourcesAssumption
<1>3. PICK F \in [P -> P] : \A X \in P : F[X] = step(X)
  <2>1. [S \in P |-> step(S)] \in [P -> P]
    OBVIOUS
  <2> HIDE DEF step
  <2> QED BY <2>1
<1>4. reach = Def(reach)
  <2>1. PICK g \in [Nat -> P] : \A n \in Nat : g[n] = IF n = 0 THEN Roots ELSE F[g[n - 1]]
    <3> HIDE DEF step, P
    <3> QED BY <1>2, Iterated
  <2>2. \A n \in Nat : n # 0 => n - 1 \in Nat /\ g[n - 1] \in P
    OBVIOUS
  <2>3. g = Def(g)
    <3> HIDE DEF step
    <3> QED BY <2>1, <2>2, <1>3
  <2> HIDE DEF Def
  <2> QED BY <2>3
<1>5. reach[0] = Roots /\ \A n \in Nat : reach[n] \in P => reach[n + 1] = F[reach[n]]
  <2>1. \A n \in Nat : n + 1 \in Nat /\ n + 1 # 0 /\ n + 1 - 1 = n
    OBVIOUS
  <2> HIDE DEF reach
  <2>2. \A n \in Nat : reach[n] = IF n = 0 THEN Roots ELSE step(reach[n - 1])
    <3> HIDE DEF step
    <3> QED BY <1>4
  <2>3. \A n \in Nat : reach[n + 1] = step(reach[n])
    <3> HIDE DEF step
    <3> QED BY <2>1, <2>2
  <2>4. reach[0] = Roots
    BY <2>2
  <2> HIDE DEF step
  <2> QED BY <2>3, <2>4, <1>3
<1>6. Climbs(Files, Roots, F, reach)
  <2>1. \A X \in P : X \subseteq F[X]
    BY <1>3
  <2> HIDE DEF reach, step
  <2> QED BY <1>2, <1>5, <2>1 DEF Climbs
<1> DEFINE R == Reachable(edges)
<1>7. IsLeast(Files, Roots, F, R)
  <2> HIDE DEF reach, step
  <2> QED BY <1>1, <1>6, Reaching
<1> HIDE DEF R, reach
<1>8. /\ R \in SUBSET Files /\ Roots \subseteq R /\ F[R] = R
  BY <1>7 DEF IsLeast
<1>9. \A e \in edges : e.from \in R => e.to \in R
  BY <1>3, <1>8
<1>10. ASSUME NEW S \in SUBSET Files, Roots \subseteq S, \A e \in edges : e.from \in S => e.to \in S
       PROVE  R \subseteq S
  <2>1. \A X \in SUBSET S : F[X] \subseteq S
    BY <1>3, <1>10
  <2> QED BY <1>7, <1>10, <2>1 DEF IsLeast
<1> QED BY <1>8, <1>9, <1>10 DEF R

\* The entry is a listing of the sources it has, as they were then.
PatchInv ==
    /\ content \in [Sources -> Contents] /\ touched \subseteq Sources
    /\ DOMAIN entry.specs \subseteq Sources
    /\ \A f \in DOMAIN entry.specs :
          entry.specs[f] \in Contents /\ (f \notin touched => entry.specs[f] = content[f])
    /\ entry.edges = UNION {EdgesOf(f, entry.specs[f]) : f \in DOMAIN entry.specs}
    /\ entry.probes = UNION {ProbesOf(f, entry.specs[f]) : f \in DOMAIN entry.specs}
    /\ entry.files = Reachable(entry.edges)
    /\ entry.files \cap Sources \subseteq DOMAIN entry.specs

LEMMA ResolutionFrom == ASSUME NEW f, NEW s PROVE Resolution(f, s).from = f
BY DEF Resolution

LEMMA ResolutionText == ASSUME NEW f, NEW s PROVE Resolution(f, s).text = s.text
BY DEF Resolution

LEMMA ResolutionTo == ASSUME NEW f, NEW s PROVE Resolution(f, s).to = Named(f, s)
BY DEF Resolution

LEMMA ReferenceFrom == ASSUME NEW f PROVE ReferenceOf(f).from = f
BY DEF ReferenceOf

LEMMA ReferenceText == ASSUME NEW f PROVE ReferenceOf(f).text = Directive
BY DEF ReferenceOf

LEMMA ReferenceTo == ASSUME NEW f PROVE ReferenceOf(f).to = Referenced
BY DEF ReferenceOf

LEMMA ProbeIs ==
  ASSUME NEW f, NEW c, NEW e
  PROVE  e \in ProbesOf(f, c) <=> \E s \in c.specs : e = Resolution(f, s)
BY DEF ProbesOf

LEMMA EdgeIs ==
  ASSUME NEW f, NEW c, NEW e
  PROVE  e \in EdgesOf(f, c) <=> \/ \E s \in c.specs : e = Resolution(f, s) /\ Named(f, s) # None
                                 \/ c.rest /\ e = ReferenceOf(f)
<1>1. e \in EdgesOf(f, c) <=> \/ \E s \in c.specs : e = Resolution(f, s) /\ e.to # None
                              \/ c.rest /\ e = ReferenceOf(f)
  BY ProbeIs DEF EdgesOf
<1> QED BY <1>1, ResolutionTo

LEMMA EdgesLeadToFiles ==
  ASSUME NEW f \in Sources, NEW c \in Contents
  PROVE  /\ \A e \in EdgesOf(f, c) : e.from = f /\ e.to \in Files
         /\ \A e \in ProbesOf(f, c) : e.from = f
<1>1. \A s \in c.specs : Named(f, s) \in Files \cup {None}
  BY SourcesAssumption DEF Contents, Named
<1>2. Referenced \in Files
  BY SourcesAssumption
<1> QED BY <1>1, <1>2, ProbeIs, EdgeIs, ResolutionFrom, ResolutionText, ResolutionTo, ReferenceFrom, ReferenceText, ReferenceTo

\* Edges from elsewhere reach nothing more.
LEMMA SameReach ==
  ASSUME NEW few, NEW all, few \subseteq all, \A e \in all : e.to \in Files,
         \A e \in all : e.from \in Reachable(few) => e \in few
  PROVE  Reachable(all) = Reachable(few)
<1>1. \A e \in few : e.to \in Files
  OBVIOUS
<1>2. Roots \subseteq Reachable(few) /\ Reachable(few) \in SUBSET Files
  BY <1>1, ReachableIsLeast
<1>3. Roots \subseteq Reachable(all) /\ Reachable(all) \in SUBSET Files
  BY ReachableIsLeast
<1>4. \A e \in few : e.from \in Reachable(all) => e.to \in Reachable(all)
  BY ReachableIsLeast
<1>5. \A e \in all : e.from \in Reachable(few) => e.to \in Reachable(few)
  BY <1>1, ReachableIsLeast
<1>6. Reachable(few) \subseteq Reachable(all)
  BY <1>1, <1>3, <1>4, ReachableIsLeast
<1>7. Reachable(all) \subseteq Reachable(few)
  BY <1>2, <1>5, ReachableIsLeast
<1> QED BY <1>6, <1>7

\* A listing of tsgo is one of the sources that it has.
LEMMA FreshIsListing ==
  ASSUME NEW tree \in [Sources -> Contents]
  PROVE  LET entry0 == FreshListing(tree) IN
         /\ DOMAIN entry0.specs = Sources \cap entry0.files
         /\ \A f \in Sources \cap entry0.files : entry0.specs[f] = tree[f]
         /\ entry0.edges = UNION {EdgesOf(f, tree[f]) : f \in Sources \cap entry0.files}
         /\ entry0.probes = UNION {ProbesOf(f, tree[f]) : f \in Sources \cap entry0.files}
         /\ entry0.files = Reachable(entry0.edges)
<1> DEFINE all == UNION {EdgesOf(f, tree[f]) : f \in Sources}
           files == Reachable(all)
           few == {e \in all : e.from \in files}
<1>1. FreshListing(tree) = [files |-> files, edges |-> few,
                            probes |-> UNION {ProbesOf(f, tree[f]) : f \in Sources \cap files},
                            specs |-> [f \in Sources \cap files |-> tree[f]]]
  BY DEF FreshListing
<1>2. \A f \in Sources : \A e \in EdgesOf(f, tree[f]) : e.from = f /\ e.to \in Files
  BY EdgesLeadToFiles
<1>3. few = UNION {EdgesOf(f, tree[f]) : f \in Sources \cap files}
  <2> HIDE DEF files
  <2> QED BY <1>2
<1>4. Reachable(few) = files
  <2>1. few \subseteq all /\ (\A e \in all : e.to \in Files) /\ \A e \in few : e.to \in Files
    BY <1>2
  <2>2. /\ Roots \subseteq files /\ files \in SUBSET Files
        /\ \A e \in all : e.from \in files => e.to \in files
        /\ Roots \subseteq Reachable(few) /\ Reachable(few) \in SUBSET Files
        /\ \A e \in few : e.from \in Reachable(few) => e.to \in Reachable(few)
    <3> HIDE DEF all, few
    <3> QED BY <2>1, ReachableIsLeast
  <2>3. Reachable(few) \subseteq files
    <3>1. \A e \in few : e.from \in files => e.to \in files
      BY <2>2
    <3> HIDE DEF all, few, files
    <3> QED BY <2>1, <2>2, <3>1, ReachableIsLeast
  <2>4. \A e \in all : e.from \in Reachable(few) => e \in few
    <3> HIDE DEF all, files
    <3> QED BY <2>3
  <2> HIDE DEF all, few
  <2> QED BY <2>1, <2>4, SameReach
<1> HIDE DEF files, few
<1> QED BY <1>1, <1>3, <1>4

LEMMA FreshKeeps ==
  ASSUME NEW tree \in [Sources -> Contents], entry = FreshListing(tree), content = tree, touched = {}
  PROVE  PatchInv
BY FreshIsListing DEF PatchInv

LEMMA PatchInitially == PatchInit => PatchInv
BY FreshKeeps DEF PatchInit

\* What a patch drops and takes over are the edges of what changed.
LEMMA TakenOver ==
  ASSUME ModesAgree, DirectivesApart, PatchInv, NEW pick \in Picks, PickListed(pick), NEW n \in Needed
  PROVE  /\ n[1] \in Changed /\ n[2] \in content[n[1]].specs /\ n[2] \notin entry.specs[n[1]].specs
         /\ Named(n[1], n[2]) = None <=> pick[n].edge = None
         /\ pick[n].edge # None => [pick[n].edge EXCEPT !.from = n[1]] = Resolution(n[1], n[2])
         /\ {[e EXCEPT !.from = n[1]] : e \in At(Kept(entry.probes), pick[n].by, n[2].text)}
              = {Resolution(n[1], n[2])}
<1>1. PICK f, s : /\ n = <<f, s>> /\ f \in Changed /\ s \in Specs
                  /\ s \in content[f].specs /\ s \notin entry.specs[f].specs
  BY DEF Needed, Added
<1>2. n[1] = f /\ n[2] = s
  BY <1>1
<1>3. f \in Sources
  BY <1>1 DEF Changed, PatchInv
<1>4. pick[n] \in Answers(n)
  BY DEF Picks
<1>5. PICK g \in Precedents(f, s) :
        LET candidates == At(Kept(entry.edges), g, s.text)
        IN  pick[n] \in [by : {g}, edge : IF candidates = {} THEN {None} ELSE candidates]
  BY <1>2, <1>4 DEF Answers
<1>6. /\ g \in DOMAIN entry.specs /\ g \notin Changed /\ Group[g] = Group[f] /\ s \in entry.specs[g].specs
      /\ g \in Sources /\ entry.specs[g].specs \subseteq Specs
  BY <1>5 DEF Precedents, PatchInv, Contents
<1>a. Named(g, s) = Named(f, s)
  BY <1>6 DEF Named
<1>7. /\ pick[n].by = g
      /\ LET candidates == At(Kept(entry.edges), g, s.text)
         IN  pick[n].edge \in IF candidates = {} THEN {None} ELSE candidates
  BY <1>5
<1>8. \A t \in entry.specs[g].specs : t.text = s.text => Resolution(g, t) = Resolution(g, s)
  BY <1>1, <1>6 DEF ModesAgree, Resolution, Named
<1>9. \A e : /\ e \in entry.probes /\ e.from = g => e \in ProbesOf(g, entry.specs[g])
             /\ e \in entry.edges /\ e.from = g => e \in EdgesOf(g, entry.specs[g])
             /\ e \in ProbesOf(g, entry.specs[g]) => e \in entry.probes
  BY <1>6, EdgesLeadToFiles DEF PatchInv
<1>10. At(entry.probes, g, s.text) = {Resolution(g, s)}
  BY <1>6, <1>8, <1>9, ProbeIs, ResolutionFrom, ResolutionText, ResolutionTo, ReferenceFrom, ReferenceText, ReferenceTo DEF At
<1>11. At(Kept(entry.probes), g, s.text) = {Resolution(g, s)}
  BY <1>6, <1>10, ResolutionFrom, ResolutionText, ResolutionTo, ReferenceFrom, ReferenceText, ReferenceTo DEF At, Kept
<1>12. \A e \in At(Kept(entry.edges), g, s.text) : e = Resolution(g, s) /\ Named(g, s) # None
  <2> TAKE e \in At(Kept(entry.edges), g, s.text)
  <2>1. e \in EdgesOf(g, entry.specs[g]) /\ e.text = s.text
    BY <1>9 DEF At, Kept
  <2>2. s.text # Directive
    BY <1>1 DEF DirectivesApart
  <2>3. PICK t \in entry.specs[g].specs : e = Resolution(g, t) /\ Named(g, t) # None
    BY <2>1, <2>2, EdgeIs, ResolutionFrom, ResolutionText, ResolutionTo, ReferenceFrom, ReferenceText, ReferenceTo
  <2>4. t.text = s.text
    BY <2>1, <2>3, ResolutionFrom, ResolutionText, ResolutionTo, ReferenceFrom, ReferenceText, ReferenceTo
  <2>5. Resolution(g, t) = Resolution(g, s)
    BY <1>8, <2>4
  <2>6. Named(g, t) = Named(g, s)
    BY <2>5, ResolutionFrom, ResolutionText, ResolutionTo, ReferenceFrom, ReferenceText, ReferenceTo
  <2> QED BY <2>3, <2>5, <2>6
<1>13. Named(f, s) # None => pick[n].edge # None
  <2>1. \E last \in {e.to : e \in At(entry.probes, g, s.text)} : last # None => pick[n].edge # None
    BY <1>2, <1>7 DEF PickListed
  <2>2. {e.to : e \in At(entry.probes, g, s.text)} = {Named(f, s)}
    BY <1>a, <1>10, ResolutionFrom, ResolutionText, ResolutionTo, ReferenceFrom, ReferenceText, ReferenceTo
  <2> QED BY <2>1, <2>2
<1>14. pick[n].edge # None => pick[n].edge = Resolution(g, s) /\ Named(f, s) # None
  BY <1>a, <1>7, <1>12
<1>15. [Resolution(g, s) EXCEPT !.from = f] = Resolution(f, s)
  BY <1>a DEF Resolution
<1>16. {[e EXCEPT !.from = f] : e \in At(Kept(entry.probes), g, s.text)} = {Resolution(f, s)}
  BY <1>11, <1>15
<1> QED BY <1>1, <1>2, <1>7, <1>13, <1>14, <1>15, <1>16

LEMMA PatchedEntry ==
  ASSUME ModesAgree, DirectivesApart, PatchInv, NEW pick \in Picks, PickListed(pick),
         \A f \in Changed : RestKept(f) /\ ~KeepsText(f),
         NEW specs, specs = [f \in DOMAIN entry.specs |-> IF f \in Changed THEN content[f] ELSE entry.specs[f]]
  PROVE  /\ PatchedEdges(pick) = UNION {EdgesOf(f, specs[f]) : f \in DOMAIN specs}
         /\ Kept(entry.probes) \cup CopiedProbes(pick) = UNION {ProbesOf(f, specs[f]) : f \in DOMAIN specs}
<1> DEFINE D == DOMAIN entry.specs
           Gone(f, s) == f \in Changed /\ \E r \in Removed(f) : r.text = s.text
<1>1. /\ D \subseteq Sources /\ Changed \subseteq D
      /\ \A f \in D : entry.specs[f].specs \subseteq Specs /\ content[f].specs \subseteq Specs
  BY DEF PatchInv, Changed, Contents
<1>2. ASSUME NEW e
      PROVE  e \in entry.probes <=> \E f \in D : \E s \in entry.specs[f].specs : e = Resolution(f, s)
  BY ProbeIs DEF PatchInv
<1>3. ASSUME NEW e
      PROVE  e \in entry.edges <=>
               \E f \in D : \/ \E s \in entry.specs[f].specs : e = Resolution(f, s) /\ Named(f, s) # None
                            \/ entry.specs[f].rest /\ e = ReferenceOf(f)
  <2>1. e \in entry.edges <=> \E f \in D : e \in EdgesOf(f, entry.specs[f])
    BY DEF PatchInv
  <2> QED BY <2>1, EdgeIs
<1>4. CopiedEdges(pick) = {Resolution(n[1], n[2]) : n \in {m \in Needed : Named(m[1], m[2]) # None}}
  <2>1. \A n \in Needed : /\ Named(n[1], n[2]) = None <=> pick[n].edge = None
                          /\ pick[n].edge # None => [pick[n].edge EXCEPT !.from = n[1]] = Resolution(n[1], n[2])
    BY TakenOver
  <2>2. {m \in Needed : pick[m].edge # None} = {m \in Needed : Named(m[1], m[2]) # None}
    BY <2>1
  <2>3. \A n \in {m \in Needed : pick[m].edge # None} :
          [pick[n].edge EXCEPT !.from = n[1]] = Resolution(n[1], n[2])
    BY <2>1
  <2> DEFINE taken(n) == [pick[n].edge EXCEPT !.from = n[1]]
             own(n) == Resolution(n[1], n[2])
             some == {m \in Needed : pick[m].edge # None}
  <2>4. CopiedEdges(pick) = {taken(n) : n \in some}
    BY DEF CopiedEdges
  <2>5. \A n \in some : taken(n) = own(n)
    BY <2>3
  <2>6. some = {m \in Needed : Named(m[1], m[2]) # None}
    BY <2>2
  <2> HIDE DEF taken, own, some
  <2>7. CopiedEdges(pick) = {own(n) : n \in some}
    BY <2>4, <2>5
  <2> QED BY <2>6, <2>7 DEF own
<1>5. CopiedProbes(pick) = {Resolution(n[1], n[2]) : n \in Needed}
  <2>1. \A n \in Needed : {[e EXCEPT !.from = n[1]] : e \in At(Kept(entry.probes), pick[n].by, n[2].text)}
                            = {Resolution(n[1], n[2])}
    BY TakenOver
  <2> QED BY <2>1 DEF CopiedProbes
<1>6. ASSUME NEW f \in D, NEW s \in entry.specs[f].specs
      PROVE  ~Gone(f, s) <=> s \in specs[f].specs
  BY <1>1 DEF KeepsText, Removed
<1>7. ASSUME NEW f \in D PROVE \A r \in Removed(f) : r.text # Directive
  BY <1>1 DEF Removed, DirectivesApart
<1>8. \A f \in D : specs[f].rest = entry.specs[f].rest
  BY DEF RestKept
<1>9. \A n \in Needed : /\ n[1] \in D /\ n[1] \in Changed
                        /\ n[2] \in content[n[1]].specs /\ n[2] \notin entry.specs[n[1]].specs
  BY <1>1, TakenOver
<1>10. ASSUME NEW f \in D, NEW s
       PROVE  s \in specs[f].specs <=> \/ s \in entry.specs[f].specs /\ ~Gone(f, s)
                                       \/ \E n \in Needed : n[1] = f /\ n[2] = s
  <2>1. ASSUME s \in specs[f].specs, s \notin entry.specs[f].specs
        PROVE  \E n \in Needed : n[1] = f /\ n[2] = s
    <3>1. <<f, s>> \in Needed
      BY <1>1, <2>1 DEF Needed, Added
    <3> QED BY <3>1
  <2>2. ASSUME NEW n \in Needed, n[1] = f, n[2] = s
        PROVE  s \in specs[f].specs
    BY <1>9, <2>2
  <2> HIDE DEF Gone
  <2> QED BY <1>6, <2>1, <2>2
<1>11. ASSUME NEW e
       PROVE  e \in Kept(entry.probes) \cup CopiedProbes(pick)
                <=> \E f \in D : \E s \in specs[f].specs : e = Resolution(f, s)
  <2>1. e \in Kept(entry.probes) <=> \E f \in D : \E s \in entry.specs[f].specs : e = Resolution(f, s) /\ ~Gone(f, s)
    BY <1>2, ResolutionFrom, ResolutionText, ResolutionTo, ReferenceFrom, ReferenceText, ReferenceTo DEF Kept
  <2>2. e \in CopiedProbes(pick) <=> \E n \in Needed : e = Resolution(n[1], n[2])
    BY <1>5
  <2>3. \A f \in D : \A s : s \in specs[f].specs <=> \/ s \in entry.specs[f].specs /\ ~Gone(f, s)
                                                  \/ \E n \in Needed : n[1] = f /\ n[2] = s
    BY <1>10
  <2> DEFINE now(f) == specs[f].specs
             old(f) == entry.specs[f].specs
  <2> HIDE DEF Gone, D, now, old
  <2> QED BY <1>9, <2>1, <2>2, <2>3 DEF now, old
<1>12. ASSUME NEW e
       PROVE  e \in PatchedEdges(pick)
                <=> \E f \in D : \/ \E s \in specs[f].specs : e = Resolution(f, s) /\ Named(f, s) # None
                                 \/ specs[f].rest /\ e = ReferenceOf(f)
  <2>1. e \in Kept(entry.edges) <=>
          \E f \in D : \/ \E s \in entry.specs[f].specs : /\ e = Resolution(f, s) /\ Named(f, s) # None
                                                          /\ ~Gone(f, s)
                       \/ entry.specs[f].rest /\ e = ReferenceOf(f)
    BY <1>3, <1>7, ResolutionFrom, ResolutionText, ResolutionTo, ReferenceFrom, ReferenceText, ReferenceTo DEF Kept
  <2>2. e \in CopiedEdges(pick) <=> \E n \in Needed : e = Resolution(n[1], n[2]) /\ Named(n[1], n[2]) # None
    BY <1>4
  <2>3. \A f \in D : \A s : s \in specs[f].specs <=> \/ s \in entry.specs[f].specs /\ ~Gone(f, s)
                                                  \/ \E n \in Needed : n[1] = f /\ n[2] = s
    BY <1>10
  <2> DEFINE now(f) == specs[f].specs
             old(f) == entry.specs[f].specs
             last(f) == specs[f].rest /\ e = ReferenceOf(f)
             own(f, s) == e = Resolution(f, s) /\ Named(f, s) # None
  <2>4. e \in Kept(entry.edges) <=> \E f \in D : (\E s \in old(f) : own(f, s) /\ ~Gone(f, s)) \/ last(f)
    BY <1>8, <2>1
  <2>5. e \in CopiedEdges(pick) <=> \E n \in Needed : own(n[1], n[2])
    BY <2>2
  <2>6. e \in PatchedEdges(pick) <=> e \in Kept(entry.edges) \/ e \in CopiedEdges(pick)
    BY DEF PatchedEdges
  <2> HIDE DEF Gone, D, now, old, last, own
  <2>7. e \in PatchedEdges(pick) <=> \E f \in D : (\E s \in now(f) : own(f, s)) \/ last(f)
    BY <1>9, <2>3, <2>4, <2>5, <2>6 DEF now, old
  <2> QED BY <2>7 DEF now, last, own
<1>13. DOMAIN specs = D
  OBVIOUS
<1>14. PatchedEdges(pick) = UNION {EdgesOf(f, specs[f]) : f \in D}
  <2>1. \A e : e \in PatchedEdges(pick) <=> \E f \in D : e \in EdgesOf(f, specs[f])
    BY <1>12, EdgeIs
  <2> QED BY <2>1
<1>15. Kept(entry.probes) \cup CopiedProbes(pick) = UNION {ProbesOf(f, specs[f]) : f \in D}
  <2>1. \A e : e \in Kept(entry.probes) \cup CopiedProbes(pick) <=> \E f \in D : e \in ProbesOf(f, specs[f])
    BY <1>11, ProbeIs
  <2> QED BY <2>1
<1> QED BY <1>13, <1>14, <1>15

LEMMA PatchedKeeps ==
  ASSUME ModesAgree, DirectivesApart, PatchInv, Patch
  PROVE  PatchInv'
<1>1. PICK pick \in Picks : /\ entry' = Patched(pick) /\ PickListed(pick) /\ Closed(PatchedEdges(pick))
                            /\ \A f \in Changed : RestKept(f) /\ ~KeepsText(f)
  BY DEF Patch, Patches
<1> DEFINE D == DOMAIN entry.specs
           specs == [f \in D |-> IF f \in Changed THEN content[f] ELSE entry.specs[f]]
           files == entry.files \cap Reachable(PatchedEdges(pick))
<1>2. /\ entry'.specs = specs /\ entry'.edges = PatchedEdges(pick) /\ entry'.files = files
      /\ entry'.probes = Kept(entry.probes) \cup CopiedProbes(pick)
  BY <1>1 DEF Patched
<1>3. /\ PatchedEdges(pick) = UNION {EdgesOf(f, specs[f]) : f \in DOMAIN specs}
      /\ Kept(entry.probes) \cup CopiedProbes(pick) = UNION {ProbesOf(f, specs[f]) : f \in DOMAIN specs}
  BY <1>1, PatchedEntry
<1>4. files = Reachable(PatchedEdges(pick)) /\ files \cap Sources \subseteq D
  BY <1>1 DEF Closed, PatchInv
<1>5. \A f \in D : specs[f] \in Contents /\ specs[f] = content[f]
  BY DEF PatchInv, Changed
<1>6. content' = content /\ touched' = {} /\ DOMAIN specs = D /\ D \subseteq Sources /\ content \in [Sources -> Contents]
  BY DEF Patch, PatchInv
<1> HIDE DEF specs, files, D
<1> QED BY <1>2, <1>3, <1>4, <1>5, <1>6 DEF PatchInv

LEMMA PatchStep ==
  ASSUME ModesAgree, DirectivesApart, PatchInv, [PatchNext]_patchVars
  PROVE  PatchInv'
<1>1. ASSUME NEW f \in Sources, Edit(f) PROVE PatchInv'
  <2>1. PICK c \in Contents : content' = [content EXCEPT ![f] = c]
    BY <1>1 DEF Edit
  <2>2. content' \in [Sources -> Contents] /\ touched' \subseteq Sources
    BY <1>1, <2>1 DEF Edit, PatchInv
  <2>3. \A g \in DOMAIN entry.specs : g \notin touched' => entry.specs[g] = content'[g]
    BY <1>1, <2>1 DEF Edit, PatchInv
  <2>4. entry' = entry
    BY <1>1 DEF Edit
  <2> QED BY <2>2, <2>3, <2>4 DEF PatchInv
<1>2. ASSUME Relist PROVE PatchInv'
  <2>1. content' = content /\ touched' = {} /\ entry' = FreshListing(content) /\ content \in [Sources -> Contents]
    BY <1>2 DEF Relist, PatchInv
  <2> QED BY <2>1, FreshIsListing DEF PatchInv
<1>3. CASE UNCHANGED patchVars
  BY <1>3 DEF patchVars, PatchInv
<1> QED BY <1>1, <1>2, <1>3, PatchedKeeps DEF PatchNext

LEMMA ListedIsFresh ==
  ASSUME PatchInv, Changed = {}
  PROVE  PatchedFilesAreFresh /\ PatchedImportsAreFresh
<1> DEFINE D == DOMAIN entry.specs
           all == UNION {EdgesOf(f, content[f]) : f \in Sources}
           few == entry.edges
           fresh == FreshListing(content)
<1>1. /\ D \subseteq Sources /\ content \in [Sources -> Contents] /\ entry.files = Reachable(few)
      /\ entry.files \cap Sources \subseteq D
  BY DEF PatchInv
<1>2. \A f \in D : entry.specs[f] = content[f]
  BY DEF PatchInv, Changed
<1>3. /\ few = UNION {EdgesOf(f, content[f]) : f \in D}
      /\ entry.probes = UNION {ProbesOf(f, content[f]) : f \in D}
  BY <1>2 DEF PatchInv
<1>4. \A f \in Sources : /\ \A e \in EdgesOf(f, content[f]) : e.from = f /\ e.to \in Files
                         /\ \A e \in ProbesOf(f, content[f]) : e.from = f
  BY <1>1, EdgesLeadToFiles
<1>5. few \subseteq all /\ \A e \in all : e.to \in Files
  BY <1>1, <1>3, <1>4
<1>6. \A e \in all : e.from \in Reachable(few) => e \in few
  BY <1>1, <1>3, <1>4
<1>7. Reachable(all) = entry.files
  <2> HIDE DEF all, few
  <2> QED BY <1>1, <1>5, <1>6, SameReach
<1>8. /\ fresh.files = Reachable(all) /\ fresh.edges = {e \in all : e.from \in Reachable(all)}
      /\ fresh.probes = UNION {ProbesOf(f, content[f]) : f \in Sources \cap Reachable(all)}
  BY DEF FreshListing
<1>9. InProgram(entry, few) = {e \in all : e.from \in entry.files}
  BY <1>1, <1>5, <1>6 DEF InProgram
<1>10. InProgram(entry, entry.probes) = UNION {ProbesOf(f, content[f]) : f \in Sources \cap entry.files}
  <2>1. \A e : e \in entry.probes <=> \E f \in D : e \in ProbesOf(f, content[f])
    BY <1>3
  <2>2. \A e : e \in entry.probes /\ e.from \in entry.files
                 <=> \E f \in Sources \cap entry.files : e \in ProbesOf(f, content[f])
    BY <1>1, <1>4, <2>1
  <2> QED BY <2>2 DEF InProgram
<1> HIDE DEF all
<1> QED BY <1>7, <1>8, <1>9, <1>10 DEF PatchedFilesAreFresh, PatchedImportsAreFresh

\* listing_patch.go: whatever the repository and however often a cached listing
\* was patched, it lists what tsgo would - when the import modes of a text agree
\* and no import reads like a reference directive.
THEOREM PatchedIsFresh ==
  ASSUME ModesAgree, DirectivesApart
  PROVE  PatchSpec => []PatchesAreFresh
<1>1. PatchInv => PatchesAreFresh
  BY ListedIsFresh DEF PatchesAreFresh
<1>2. PatchInv /\ [PatchNext]_patchVars => PatchInv'
  BY PatchStep
<1> QED BY <1>1, <1>2, PatchInitially, PTL DEF PatchSpec

-----------------------------------------------------------------------------
(* Programs in a checkout.                                                  *)

Outputs(y) == {f \in Files : GeneratedProgramFile(y, f)}
Clean(y) == [y EXCEPT !.disk = @ \ Outputs(y)]
Findable(y, excluded) ==
    {f \in y.disk \cap Programmable : Inside(DirOf[f], y.home)} \ (y.hidden \cup excluded)

LEMMA FoundIs ==
  ASSUME NEW y, NEW E, NEW f
  PROVE  f \in Found(y, E) <=> /\ f \in Findable(y, E)
                               /\ \A g \in Findable(y, E) : f \notin Hides[g]
BY DEF Found, Findable

\* What is hidden is hidden by a file that is not.
LEMMA HiddenByFirst ==
  ASSUME StemsAreOrdered, NEW S \in SUBSET Files, NEW f \in Files, NEW g \in S, f \in Hides[g]
  PROVE  \E h \in S : (\A k \in S : h \notin Hides[k]) /\ f \in Hides[h]
<1> DEFINE T == {h \in S : h = g \/ g \in Hides[h]}
<1>1. T \in SUBSET Files /\ T # {}
  OBVIOUS
<1>2. PICK h \in T : \A k \in T : h \notin Hides[k]
  BY <1>1 DEF StemsAreOrdered
<1>3. f \in Hides[h]
  BY <1>2 DEF StemsAreOrdered
<1>4. ASSUME NEW k \in S, h \in Hides[k] PROVE k \in T
  BY <1>2, <1>4 DEF StemsAreOrdered
<1> QED BY <1>2, <1>3, <1>4

LEMMA CheckoutTypes ==
  ASSUME NEW y, Checkout(y)
  PROVE  /\ y.disk \in SUBSET Files /\ y.home \in Dirs /\ y.listed \in SUBSET Files
         /\ y.producer \in [Files -> Dirs \cup {None}] /\ y.trees \in SUBSET (Dirs \X Dirs)
         /\ y.imports \in SUBSET (Files \X Files) /\ y.asked \in SUBSET Files
BY DEF Checkout

LEMMA CleanIs ==
  ASSUME NEW y, Checkout(y)
  PROVE  /\ Clean(y).disk = y.disk \ Outputs(y)
         /\ Clean(y).home = y.home /\ Clean(y).manifests = y.manifests
         /\ Clean(y).importers = y.importers /\ Clean(y).config = y.config
         /\ Clean(y).tsgo = y.tsgo /\ Clean(y).producer = y.producer /\ Clean(y).trees = y.trees
         /\ Clean(y).listed = y.listed /\ Clean(y).hidden = y.hidden
BY DEF Checkout, Clean

LEMMA CleanOutputs ==
  ASSUME NEW y, Checkout(y)
  PROVE  /\ \A f : GeneratedProgramFile(Clean(y), f) <=> GeneratedProgramFile(y, f)
         /\ Findable(Clean(y), {}) = Findable(y, {}) \ Outputs(y)
BY CleanIs DEF GeneratedProgramFile, InTree, Findable

\* A search that finds no output finds what there is to find without them.
LEMMA FoundClean ==
  ASSUME StemsAreOrdered, NEW y, Checkout(y), NEW E, E \cap Files \subseteq Outputs(y),
         Found(y, E) \cap Outputs(y) = {}
  PROVE  Found(y, E) = Found(Clean(y), {})
<1> DEFINE A == Findable(Clean(y), {})
           B == Findable(y, E)
<1>1. B \in SUBSET Files
  BY CheckoutTypes DEF Findable
<1>2. A = B \ Outputs(y)
  <2>1. Findable(y, {}) \ Outputs(y) = B \ Outputs(y)
    BY CheckoutTypes DEF Findable
  <2> QED BY <2>1, CleanOutputs
<1> HIDE DEF A, B
<1>3. \A f : f \in Found(y, E) <=> f \in B /\ \A g \in B : f \notin Hides[g]
  BY FoundIs DEF B
<1>4. \A f : f \in Found(Clean(y), {}) <=> f \in A /\ \A g \in A : f \notin Hides[g]
  BY FoundIs DEF A
<1>5. ASSUME NEW f \in Found(Clean(y), {}) PROVE f \in Found(y, E)
  <2> SUFFICES ASSUME NEW g \in B, f \in Hides[g] PROVE FALSE
    BY <1>2, <1>3, <1>4
  <2>1. PICK h \in B : (\A k \in B : h \notin Hides[k]) /\ f \in Hides[h]
    BY <1>1, <1>2, <1>4, HiddenByFirst
  <2>2. h \in Found(y, E)
    BY <2>1, <1>3
  <2>3. h \in A
    BY <2>2, <1>2
  <2> QED BY <2>1, <2>3, <1>4
<1>6. ASSUME NEW f \in Found(y, E) PROVE f \in Found(Clean(y), {})
  BY <1>2, <1>3, <1>4, <1>6
<1> QED BY <1>5, <1>6

\* Without the outputs of the packages its roots may be declared in, the
\* search finds none: what an output hid lies beside it.
LEMMA ExcludedIsAll ==
  ASSUME StemsAreOrdered, NEW y, Checkout(y), NEW p, p.roots \in SUBSET Files,
         Found(y, {}) \subseteq p.roots
  PROVE  /\ Excluded(y, p) \cap Files \subseteq Outputs(y)
         /\ Found(y, Excluded(y, p)) \cap Outputs(y) = {}
<1> DEFINE E == Excluded(y, p)
           B == Findable(y, {})
<1>0. Owners(p) \subseteq Dirs
  BY TreeAssumption, AboveAssumption DEF Owners
<1>1. E \cap Files \subseteq Outputs(y)
  <2> SUFFICES ASSUME NEW f \in Files, f \in E PROVE GeneratedProgramFile(y, f)
    BY DEF Outputs
  <2>1. CASE y.producer[f] \in Owners(p)
    BY <2>1, <1>0, TreeAssumption DEF GeneratedProgramFile
  <2>2. CASE InTree(y, f, Owners(p))
    BY <2>2, CheckoutTypes DEF InTree, GeneratedProgramFile
  <2> QED BY <2>1, <2>2 DEF Excluded
<1>2. ASSUME NEW f \in Found(y, E), f \in Outputs(y) PROVE FALSE
  <2>1. f \in B /\ f \in Files /\ f \in y.disk /\ f \notin E
    BY <1>2, FoundIs, CheckoutTypes DEF Findable
  <2>2. f \notin p.roots
    BY <1>2, <2>1 DEF Excluded, Outputs
  <2>3. PICK g \in B : f \in Hides[g]
    BY <2>1, <2>2, FoundIs
  <2>4. B \in SUBSET Files
    BY CheckoutTypes DEF Findable
  <2> HIDE DEF B, E
  <2>5. PICK h \in B : (\A k \in B : h \notin Hides[k]) /\ f \in Hides[h]
    BY <2>1, <2>3, <2>4, HiddenByFirst
  <2>6. h \in Files /\ DirOf[h] = DirOf[f]
    BY <2>4, <2>5 DEF StemsAreOrdered
  <2>7. h \in p.roots
    BY <2>5, FoundIs DEF B
  <2>8. above[DirOf[f]] \subseteq Owners(p)
    BY <2>6, <2>7 DEF Owners
  <2>9. CASE y.producer[f] # None
    <3>1. y.producer[f] \in Owners(p)
      BY <2>1, <2>8, <2>9 DEF Checkout, Inside
    <3> QED BY <2>1, <3>1 DEF Excluded, E
  <2>10. CASE InTree(y, f, Dirs)
    <3>1. PICK t \in y.trees : Inside(DirOf[f], t[1])
      BY <2>10 DEF InTree
    <3>2. t[2] \in above[DirOf[f]]
      BY <2>1, <3>1, TreeAssumption, AboveAssumption DEF Checkout, Inside
    <3>3. InTree(y, f, Owners(p))
      BY <2>8, <3>1, <3>2 DEF InTree
    <3> QED BY <2>1, <3>3 DEF Excluded, E
  <2> QED BY <1>2, <2>9, <2>10 DEF Outputs, GeneratedProgramFile
<1> QED BY <1>1, <1>2

LEMMA ListingIs ==
  ASSUME NEW y, NEW roots
  PROVE  /\ Listing(y, roots).answer = "program" /\ Listing(y, roots).roots = roots
         /\ Listing(y, roots).files = Closure(y, roots)
BY DEF Listing, Program

LEMMA NoProgramIs ==
  ASSUME NEW a PROVE NoProgram(a).answer = a /\ NoProgram(a).roots = {}
BY DEF NoProgram

\* A listing that is made is one of the sources, and of what is listed by name.
LEMMA ReconcileIs ==
  ASSUME StemsAreOrdered, NEW y, Checkout(y)
  PROVE  \/ Reconcile(y) = NoProgram("refused") /\ y.config = "broken"
         \/ Reconcile(y) = NoProgram("error")
         \/ /\ y.config # "broken"
            /\ Reconcile(y) = Listing(y, (y.listed \cap y.disk) \cup Found(Clean(y), {}))
<1> DEFINE p == Enumerated(y, {})
           E == Excluded(y, p)
           N == y.listed \cap y.disk
<1>1. \A f \in Found(y, {}) : f \in Files
  BY FoundIs, CheckoutTypes DEF Findable
<1>2. p.roots = N \cup Found(y, {})
  BY ListingIs DEF Enumerated
<1>3. p.roots \in SUBSET Files /\ Found(y, {}) \subseteq p.roots
  BY <1>1, <1>2, CheckoutTypes
<1>4. CASE \A f \in p.roots : ~GeneratedProgramFile(y, f)
  <2>1. Found(y, {}) \cap Outputs(y) = {}
    BY <1>2, <1>4 DEF Outputs
  <2>2. Found(y, {}) = Found(Clean(y), {})
    BY <2>1, FoundClean
  <2> QED BY <1>4, <2>2 DEF Reconcile, Enumerated
<1>5. CASE ~ \A f \in p.roots : ~GeneratedProgramFile(y, f)
  <2>1. E \cap Files \subseteq Outputs(y) /\ Found(y, E) \cap Outputs(y) = {}
    <3> HIDE DEF p
    <3> QED BY <1>3, ExcludedIsAll
  <2>2. Found(y, E) = Found(Clean(y), {})
    <3> HIDE DEF E
    <3> QED BY <2>1, FoundClean
  <2>3. Reconcile(y) \in {NoProgram("refused"), NoProgram("error"), Enumerated(y, E)}
        /\ (Reconcile(y) = NoProgram("refused") \/ y.config # "broken" )
    BY <1>5 DEF Reconcile
  <2> QED BY <1>5, <2>2 DEF Reconcile, Enumerated
<1> QED BY <1>4, <1>5

LEMMA ReconcileClean ==
  ASSUME NEW y, Checkout(y)
  PROVE  Reconcile(Clean(y)) =
           IF y.config = "broken" THEN NoProgram("refused")
           ELSE Listing(Clean(y), ((y.listed \cap y.disk) \ Outputs(y)) \cup Found(Clean(y), {}))
<1> DEFINE q == Enumerated(Clean(y), {})
<1>1. q = Listing(Clean(y), ((y.listed \cap y.disk) \ Outputs(y)) \cup Found(Clean(y), {}))
  <2>1. Clean(y).listed \cap Clean(y).disk = (y.listed \cap y.disk) \ Outputs(y)
    BY CleanIs
  <2> QED BY <2>1 DEF Enumerated
<1>2. \A f \in q.roots : ~GeneratedProgramFile(Clean(y), f)
  <2>1. \A f \in Found(Clean(y), {}) : f \in Findable(y, {}) \ Outputs(y) /\ f \in Files
    BY FoundIs, CleanOutputs, CheckoutTypes DEF Findable
  <2>2. \A f \in q.roots : f \in Files \ Outputs(y)
    BY <1>1, <2>1, ListingIs, CheckoutTypes
  <2> QED BY <2>2, CleanOutputs DEF Outputs
<1>3. Clean(y).config = y.config
  BY CleanIs
<1> HIDE DEF q
<1> QED BY <1>1, <1>2, <1>3 DEF Reconcile, q

\* The choice of the directory's config does not look at the checkout.
LEMMA DiscoverBoth ==
  ASSUME NEW y, Checkout(y), y.config # "manifest"
  PROVE  \/ Discover(y) = Reconcile(y) /\ Discover(Clean(y)) = Reconcile(Clean(y))
         \/ \E a \in {"refused", "error", "none"} : Discover(y) = NoProgram(a) /\ Discover(Clean(y)) = NoProgram(a)
<1>1. Foreign(Clean(y)) <=> Foreign(y)
  BY CleanIs DEF Foreign
<1>2. y.config \in {"authored", "unreadable", "refused", "unbounded", "broken", "none"}
  BY DEF Checkout
<1>3. Clean(y).config = y.config /\ Clean(y).home = y.home /\ Clean(y).tsgo = y.tsgo
  BY CleanIs
<1>4. CASE y.config = "none"
  BY <1>3, <1>4 DEF Discover
<1>5. CASE y.config # "none"
  BY <1>1, <1>2, <1>3, <1>5 DEF Discover
<1> QED BY <1>4, <1>5

\* The files of a listing hold its roots, and more roots list more.
LEMMA ClosureIsLeast ==
  ASSUME NEW y, Checkout(y), IsFiniteSet(Files), NEW roots \in SUBSET Files
  PROVE  /\ roots \subseteq Closure(y, roots) /\ Closure(y, roots) \subseteq Files
         /\ \A i \in y.imports : i[1] \in Closure(y, roots) /\ i[2] \in y.disk => i[2] \in Closure(y, roots)
         /\ \A S \in SUBSET Files :
              /\ roots \subseteq S /\ \A i \in y.imports : i[1] \in S /\ i[2] \in y.disk => i[2] \in S
              => Closure(y, roots) \subseteq S
<1> DEFINE step(S) == S \cup {i[2] : i \in {k \in y.imports : k[1] \in S /\ k[2] \in y.disk}}
           Def(g) == [n \in Nat |-> IF n = 0 THEN roots ELSE step(g[n - 1])]
           reach == CHOOSE g : g = Def(g)
           P == SUBSET Files
<1>1. Closure(y, roots) = reach[Cardinality(Files)]
  BY DEF Closure
<1>3. PICK F \in [P -> P] : \A X \in P : F[X] = step(X)
  <2>1. \A X \in P : step(X) \in P
    BY CheckoutTypes
  <2>2. [S \in P |-> step(S)] \in [P -> P]
    <3> HIDE DEF step
    <3> QED BY <2>1
  <2> HIDE DEF step
  <2> QED BY <2>2
<1>4. reach = Def(reach)
  <2>1. PICK g \in [Nat -> P] : \A n \in Nat : g[n] = IF n = 0 THEN roots ELSE F[g[n - 1]]
    <3> HIDE DEF step, P
    <3>1. roots \in P
      BY DEF P
    <3> QED BY <3>1, Iterated
  <2>2. \A n \in Nat : n # 0 => n - 1 \in Nat /\ g[n - 1] \in P
    OBVIOUS
  <2>3. g = Def(g)
    <3> HIDE DEF step
    <3> QED BY <2>1, <2>2, <1>3
  <2> HIDE DEF Def
  <2> QED BY <2>3
<1>5. reach[0] = roots /\ \A n \in Nat : reach[n] \in P => reach[n + 1] = F[reach[n]]
  <2>1. \A n \in Nat : n + 1 \in Nat /\ n + 1 # 0 /\ n + 1 - 1 = n
    OBVIOUS
  <2> HIDE DEF reach
  <2>2. \A n \in Nat : reach[n] = IF n = 0 THEN roots ELSE step(reach[n - 1])
    <3> HIDE DEF step
    <3> QED BY <1>4
  <2>3. \A n \in Nat : reach[n + 1] = step(reach[n])
    <3> HIDE DEF step
    <3> QED BY <2>1, <2>2
  <2>4. reach[0] = roots
    BY <2>2
  <2> HIDE DEF step
  <2> QED BY <2>3, <2>4, <1>3
<1>6. Climbs(Files, roots, F, reach)
  <2>1. \A X \in P : X \subseteq F[X]
    BY <1>3
  <2> HIDE DEF reach, step
  <2> QED BY <1>5, <2>1 DEF Climbs
<1> DEFINE R == Closure(y, roots)
<1>7. IsLeast(Files, roots, F, R)
  <2> HIDE DEF reach, step
  <2> QED BY <1>1, <1>6, Reaching
<1> HIDE DEF R, reach
<1>8. R \in SUBSET Files /\ roots \subseteq R /\ F[R] = R
  BY <1>7 DEF IsLeast
<1>9. \A i \in y.imports : i[1] \in R /\ i[2] \in y.disk => i[2] \in R
  BY <1>3, <1>8
<1>10. ASSUME NEW S \in SUBSET Files, roots \subseteq S,
              \A i \in y.imports : i[1] \in S /\ i[2] \in y.disk => i[2] \in S
       PROVE  R \subseteq S
  <2>1. \A X \in SUBSET S : F[X] \subseteq S
    BY <1>3, <1>10
  <2> QED BY <1>7, <1>10, <2>1 DEF IsLeast
<1> QED BY <1>8, <1>9, <1>10 DEF R

\* Sources that are asked for join a listing made of what is there.
LEMMA WithSourcesIs ==
  ASSUME NEW y, Checkout(y), IsFiniteSet(Files),
         NEW roots \in SUBSET y.disk, roots \cap Outputs(y) \subseteq y.listed
  PROVE  /\ (y.asked \cap Programmable \cap y.disk) \ Outputs(y)
              \subseteq WithSources(y, Listing(y, roots)).files
         /\ WithSources(y, Listing(y, roots)).roots \cap Outputs(y) \subseteq y.listed
<1> DEFINE q == WithSources(y, Listing(y, roots))
           p == Listing(y, roots)
           missing == {f \in (y.asked \cap Programmable) \ p.files : ~GeneratedProgramFile(y, f)}
           more == (p.roots \cup missing) \cap y.disk
<1>0. p.answer # "refused" /\ p.roots = roots /\ p.files = Closure(y, roots)
  BY ListingIs
<1>1. \A f \in (y.asked \cap Programmable \cap y.disk) \ Outputs(y) : f \in p.files \/ f \in missing
  BY CheckoutTypes DEF Outputs
<1>2. CASE missing = {}
  <2>1. q = p
    BY <1>2 DEF WithSources
  <2> QED BY <1>0, <1>1, <1>2, <2>1
<1>3. CASE missing # {}
  <2>1. q = Listing(y, more)
    BY <1>0, <1>3 DEF WithSources
  <2>2. q.roots = more /\ q.files = Closure(y, more)
    BY <2>1, ListingIs
  <2>3. more \in SUBSET Files /\ roots \subseteq more /\ roots \in SUBSET Files
    BY <1>0, CheckoutTypes
  <2>4. more \cap Outputs(y) \subseteq y.listed
    BY <1>0 DEF Outputs
  <2>5. \A f \in missing \cap y.disk : f \in more
    OBVIOUS
  <2> HIDE DEF more, missing, p
  <2>6. more \subseteq Closure(y, more)
    BY <2>3, ClosureIsLeast
  <2>7. Closure(y, roots) \subseteq Closure(y, more)
    BY <2>3, <2>6, ClosureIsLeast
  <2> QED BY <1>0, <1>1, <2>2, <2>4, <2>5, <2>6, <2>7
<1> QED BY <1>2, <1>3

\* program.go: whatever outputs of earlier builds lie in the checkout, a program
\* is made of the sources, and a rule's has all of its own.
LEMMA CheckoutIsOfSources ==
  ASSUME StemsAreOrdered, IsFiniteSet(Files), NEW y, Checkout(y)
  PROVE  IsOfSources(y)
<1> DEFINE p == Discover(y)
           clean == Discover(Clean(y))
           q == CompilerProgram(y)
           roots == (y.listed \cap y.disk) \cup Found(Clean(y), {})
<1>1. Found(Clean(y), {}) \subseteq y.disk \ Outputs(y)
  BY FoundIs, CleanOutputs DEF Findable
<1>2. \/ Reconcile(y) = NoProgram("refused") /\ y.config = "broken"
      \/ Reconcile(y) = NoProgram("error")
      \/ y.config # "broken" /\ Reconcile(y) = Listing(y, roots)
  BY ReconcileIs
<1>3. ASSUME y.config # "manifest", p.answer # "error"
      PROVE  /\ p.roots \ (Outputs(y) \cap y.listed) = clean.roots
             /\ p.answer = clean.answer
  <2>1. CASE \E a \in {"refused", "error", "none"} : p = NoProgram(a) /\ clean = NoProgram(a)
    BY <2>1, NoProgramIs
  <2>2. CASE p = Reconcile(y) /\ clean = Reconcile(Clean(y))
    <3>1. CASE p = NoProgram("refused") /\ y.config = "broken"
      <4>1. clean = NoProgram("refused")
        BY <2>2, <3>1, ReconcileClean
      <4> HIDE DEF p, clean
      <4> QED BY <3>1, <4>1, NoProgramIs
    <3>2. CASE y.config # "broken" /\ p = Listing(y, roots)
      <4>1. clean = Listing(Clean(y), ((y.listed \cap y.disk) \ Outputs(y)) \cup Found(Clean(y), {}))
        BY <2>2, <3>2, ReconcileClean
      <4>2. /\ p.roots = roots /\ p.answer = clean.answer
            /\ clean.roots = ((y.listed \cap y.disk) \ Outputs(y)) \cup Found(Clean(y), {})
        BY <3>2, <4>1, ListingIs
      <4> QED BY <1>1, <4>2
    <3>3. p # NoProgram("error")
      BY <1>3, NoProgramIs
    <3> QED BY <1>2, <2>2, <3>1, <3>2, <3>3
  <2> QED BY <1>3, <2>1, <2>2, DiscoverBoth
<1>4. ASSUME q.answer = "program"
      PROVE  /\ (y.asked \cap Programmable \cap y.disk) \ Outputs(y) \subseteq q.files
             /\ q.roots \cap Outputs(y) \subseteq y.listed
  <2>1. WithSources(y, Reconcile(y)) = Reconcile(y) \/ Reconcile(y).answer # "refused"
    BY DEF WithSources
  <2>2. ASSUME y.chosen = "own", p.answer # "none"
        PROVE  q = WithSources(y, Reconcile(y)) /\ Reconcile(y).answer \notin {"refused", "error"}
    <3>1. q = WithSources(y, p) /\ y.config # "manifest" /\ p.answer \notin {"none", "refused", "error"}
      BY <1>4, <2>2, NoProgramIs DEF CompilerProgram
    <3>2. p = Reconcile(y)
      BY <3>1, DiscoverBoth, NoProgramIs
    <3> QED BY <3>1, <3>2
  <2>3. ASSUME ~(y.chosen = "own" /\ p.answer # "none")
        PROVE  q = WithSources(y, Reconcile(y)) /\ Reconcile(y).answer \notin {"refused", "error"}
    <3>1. y.chosen \notin {None, "generated", "absent"}
      BY <1>4, <2>3, NoProgramIs DEF CompilerProgram
    <3>2. q = WithSources(y, Reconcile(y)) /\ Reconcile(y).answer # "error"
      BY <1>4, <2>3, <3>1, NoProgramIs DEF CompilerProgram
    <3>3. Reconcile(y).answer # "refused"
      BY <1>4, <2>1, <3>2
    <3> QED BY <3>2, <3>3
  <2>4. q = WithSources(y, Listing(y, roots))
    BY <1>2, <2>2, <2>3, NoProgramIs
  <2>5. roots \in SUBSET y.disk /\ roots \cap Outputs(y) \subseteq y.listed
    BY <1>1
  <2> HIDE DEF q, roots
  <2> QED BY <2>4, <2>5, WithSourcesIs
<1> QED BY <1>3, <1>4 DEF IsOfSources, Clean, Outputs

\* So in every run (program.go): outputs of earlier builds in its checkout do not
\* change what its programs are made of.
THEOREM ProgramsAreOfSources ==
  ASSUME StemsAreOrdered, IsFiniteSet(Files), checkout # None => Checkout(checkout)
  PROVE  DiscoveryIsOfSources
BY CheckoutIsOfSources DEF DiscoveryIsOfSources
-----------------------------------------------------------------------------
(* Which config a test is given.                                           *)

Configurable(x) == DOMAIN x.targets

LEMMA RepositoryIs ==
  ASSUME NEW x, Repository(x)
  PROVE  /\ IsFiniteSet(Configurable(x)) /\ Cardinality(Configurable(x)) \in Nat
         /\ \A d \in Dirs : x.configs[d] \in SUBSET ConfigNames
         /\ \A l \in Configurable(x) :
              /\ l[1] \in Dirs /\ l # None /\ l # Expression /\ l # Absent
              /\ Expression # {l} /\ Filegroup(l) # None
              /\ x.targets[l] # None =>
                   x.targets[l].to = Expression \/ x.targets[l].to \in SUBSET Configurable(x)
         /\ \A d \in Dirs :
              /\ <<d, ConfigGroup>> \in Configurable(x)
              /\ \A n \in ConfigNames : <<d, n>> \in Configurable(x) /\ x.targets[<<d, n>>] = None
         /\ x.stored \in Configurable(x) \cup {None, Expression, Absent}
         /\ ConfigGroup \notin ConfigNames /\ None \notin ConfigNames /\ ConfigNames \subseteq Nat
BY FS_CardinalityType DEF Repository, Configurable

\* The preferred config of a directory is one of its configs.
LEMMA ConfigInIs ==
  ASSUME NEW x, Repository(x), NEW d \in Dirs
  PROVE  ConfigIn(x, d) # None => ConfigIn(x, d) \in ConfigNames
<1> DEFINE C == x.configs[d]
           Less == {ss \in Nat \X Nat : ss[1] < ss[2]}
<1> SUFFICES ASSUME C # {} PROVE ConfigIn(x, d) \in C
  BY RepositoryIs DEF ConfigIn
<1>1. C \subseteq Nat
  BY RepositoryIs
<1>2. IsWellFoundedOn(Less, Nat)
  BY NatLessThanWellFounded DEF OpToRel
<1>3. \E n \in C : \A o \in C : ~ (<<o, n>> \in Less)
  <2> HIDE DEF C, Less
  <2> QED BY <1>1, <1>2, WFMin
<1>4. \E n \in C : \A o \in C : n <= o
  <2>1. PICK n \in C : \A o \in C : ~ (o < n)
    BY <1>1, <1>3
  <2> QED BY <1>1, <2>1
<1> QED BY <1>4 DEF ConfigIn

\* What Gazelle writes for a label it writes: its directory's config.
LEMMA RewrittenIs ==
  ASSUME NEW x, Repository(x), NEW l \in Configurable(x), Rewritten(x, l)
  PROVE  /\ <<l[1], Exported(x, l[1])>> \in Configurable(x)
         /\ x.targets[<<l[1], Exported(x, l[1])>>] = None
         /\ ~Rewritten(x, <<l[1], Exported(x, l[1])>>)
<1> DEFINE n == Exported(x, l[1])
<1>1. n = ConfigIn(x, l[1]) /\ n # None
  BY DEF Rewritten, Exported
<1>2. l[1] \in Dirs
  BY RepositoryIs
<1>3. n \in ConfigNames
  BY <1>1, <1>2, ConfigInIs
<1> HIDE DEF n
<1>4. n # ConfigGroup /\ <<l[1], n>> \in Configurable(x) /\ x.targets[<<l[1], n>>] = None
  BY <1>2, <1>3, RepositoryIs
<1>5. ~Rewritten(x, <<l[1], n>>)
  BY <1>4 DEF Rewritten
<1> QED BY <1>4, <1>5 DEF n

\* The rules as the run leaves them.
LEMMA AfterIs ==
  ASSUME NEW x, Repository(x)
  PROVE  /\ DOMAIN TargetsAfter(x) = Configurable(x)
         /\ \A l \in Configurable(x) :
              TargetsAfter(x)[l] = IF Rewritten(x, l) THEN Filegroup(<<l[1], Exported(x, l[1])>>) ELSE x.targets[l]
BY DEF TargetsAfter, Rewritten, Configurable

\* What one label stands for when Bazel follows it.
Stands(x, o) ==
    IF o \notin DOMAIN TargetsAfter(x) \/ TargetsAfter(x)[o] = None THEN {o}
    ELSE IF TargetsAfter(x)[o].to = Expression THEN {} ELSE TargetsAfter(x)[o].to

\* One turn of Gazelle's loop goes where Bazel goes.
Turns(x) == {[what |-> "label", label |-> o] : o \in Configurable(x)}
            \cup {File(o) : o \in Configurable(x)} \cup {Unknown}
Right(x, s, R) ==
    /\ s \in Turns(x)
    /\ s.what = "label" => R = {s.label}
    /\ s.what = "file" => R = {s.file} /\ Stands(x, s.file) = {s.file}

LEMMA ForwardIsRight ==
  ASSUME NEW x, Repository(x), NEW l \in Configurable(x)
  PROVE  Right(x, Forward(x, l), Stands(x, l))
<1> DEFINE t == x.targets[l]
           f == <<l[1], Exported(x, l[1])>>
<1>1. CASE Rewritten(x, l)
  <2>1. Forward(x, l) = File(f)
    BY <1>1 DEF Forward
  <2>2. f \in Configurable(x) /\ x.targets[f] = None /\ ~Rewritten(x, f)
    BY <1>1, RewrittenIs
  <2> HIDE DEF f
  <2>3. Stands(x, f) = {f}
    BY <2>2, AfterIs DEF Stands
  <2>4. TargetsAfter(x)[l] = Filegroup(f)
    BY <1>1, AfterIs DEF f
  <2>5. Filegroup(f) # None /\ Filegroup(f).to = {f} /\ {f} # Expression
    BY <2>2, RepositoryIs DEF Filegroup
  <2>6. Stands(x, l) = {f}
    BY <2>4, <2>5, AfterIs DEF Stands
  <2> QED BY <2>1, <2>2, <2>3, <2>6 DEF Right, Turns, File
<1>2. CASE ~Rewritten(x, l) /\ t = None
  <2>1. Forward(x, l) = File(l)
    BY <1>2 DEF Forward
  <2>2. Stands(x, l) = {l}
    BY <1>2, AfterIs DEF Stands
  <2> QED BY <2>1, <2>2 DEF Right, Turns, File
<1>3. CASE ~Rewritten(x, l) /\ t # None /\ t.to # Expression /\ Cardinality(t.to) = 1
  <2> DEFINE o == CHOOSE q \in t.to : TRUE
  <2>1. t.to \in SUBSET Configurable(x) /\ IsFiniteSet(t.to)
    BY <1>3, RepositoryIs, FS_Subset
  <2>2. \E q : t.to = {q}
    BY <1>3, <2>1, FS_Singleton
  <2>3. t.to = {o} /\ o \in Configurable(x)
    BY <2>1, <2>2
  <2>4. Forward(x, l) = [what |-> "label", label |-> o]
    BY <1>3 DEF Forward
  <2> HIDE DEF o
  <2>5. Stands(x, l) = {o}
    BY <1>3, <2>3, AfterIs DEF Stands
  <2> QED BY <2>3, <2>4, <2>5 DEF Right, Turns
<1>4. CASE ~Rewritten(x, l) /\ t # None /\ ~ (t.to # Expression /\ Cardinality(t.to) = 1)
  <2>1. Forward(x, l) = Unknown
    BY <1>4 DEF Forward
  <2> QED BY <2>1 DEF Right, Turns, Unknown
<1> QED BY <1>1, <1>2, <1>3, <1>4

\* The loop, and Bazel's reading of the same label.
IsLoop(x, l, turn) ==
    /\ turn[0] = [what |-> "label", label |-> l]
    /\ \A n \in Nat : turn[n + 1] = IF turn[n].what = "label" THEN Forward(x, turn[n].label) ELSE turn[n]
IsReading(x, l, reach) ==
    /\ reach[0] = {l}
    /\ \A n \in Nat : reach[n + 1] = UNION {Stands(x, o) : o \in reach[n]}

LEMMA LoopIs ==
  ASSUME NEW x, Repository(x), NEW l \in Configurable(x)
  PROVE  \E turn : /\ IsLoop(x, l, turn)
                   /\ Selected(x, l) = LET last == turn[Cardinality(Configurable(x)) + 1]
                                       IN  IF last.what = "label" THEN Unknown ELSE last
<1> DEFINE start == [what |-> "label", label |-> l]
           step(s) == IF s.what = "label" THEN Forward(x, s.label) ELSE s
           Def(g) == [n \in Nat |-> IF n = 0 THEN start ELSE step(g[n - 1])]
           turn == CHOOSE g : g = Def(g)
           T == Turns(x)
<1>1. Selected(x, l) = LET last == turn[Cardinality(Configurable(x)) + 1]
                       IN  IF last.what = "label" THEN Unknown ELSE last
  BY DEF Selected, Configurable
<1>2. \A s \in T : step(s) \in T
  <2> TAKE s \in T
  <2>1. CASE s.what = "label"
    <3>1. PICK o \in Configurable(x) : s = [what |-> "label", label |-> o]
      BY <2>1 DEF Turns, File, Unknown
    <3>2. step(s) = Forward(x, o)
      BY <3>1
    <3>3. Forward(x, o) \in T
      BY ForwardIsRight DEF Right
    <3> QED BY <3>2, <3>3
  <2>2. CASE s.what # "label"
    BY <2>2
  <2> QED BY <2>1, <2>2
<1>3. PICK F \in [T -> T] : \A s \in T : F[s] = step(s)
  <2>1. [s \in T |-> step(s)] \in [T -> T]
    <3> HIDE DEF step, T
    <3> QED BY <1>2
  <2> HIDE DEF step, T
  <2> QED BY <2>1
<1>4. turn = Def(turn)
  <2>0. start \in T
    BY DEF Turns
  <2>1. PICK g \in [Nat -> T] : \A n \in Nat : g[n] = IF n = 0 THEN start ELSE F[g[n - 1]]
    <3> HIDE DEF start, step, T
    <3> QED BY <2>0, Iterated
  <2>2. \A n \in Nat : n # 0 => n - 1 \in Nat /\ g[n - 1] \in T
    OBVIOUS
  <2>3. g = Def(g)
    <3> HIDE DEF step, start, T
    <3> QED BY <2>1, <2>2, <1>3
  <2> HIDE DEF Def
  <2> QED BY <2>3
<1> HIDE DEF turn
<1>5. \A n \in Nat : turn[n] = IF n = 0 THEN start ELSE step(turn[n - 1])
  <2> HIDE DEF step, start
  <2> QED BY <1>4
<1>6. \A n \in Nat : n + 1 \in Nat /\ n + 1 # 0 /\ n + 1 - 1 = n
  OBVIOUS
<1>7. \A n \in Nat : turn[n + 1] = step(turn[n])
  <2> HIDE DEF step, start
  <2> QED BY <1>5, <1>6
<1>8. turn[0] = start
  <2> HIDE DEF step, start
  <2> QED BY <1>5
<1>9. IsLoop(x, l, turn)
  BY <1>7, <1>8 DEF IsLoop
<1> QED BY <1>1, <1>9

LEMMA ReadingIs ==
  ASSUME NEW x, Repository(x), NEW l \in Configurable(x), NEW f
  PROVE  \E reach : /\ IsReading(x, l, reach)
                    /\ Supplies(x, l, f) <=> reach[Cardinality(Configurable(x)) + 1] = {f}
<1> DEFINE step(S) == UNION {Stands(x, o) : o \in S}
           Def(g) == [n \in Nat |-> IF n = 0 THEN {l} ELSE step(g[n - 1])]
           reach == CHOOSE g : g = Def(g)
           L == Configurable(x)
           P == SUBSET L
<1>0. DOMAIN TargetsAfter(x) = L
  BY AfterIs
<1>1. Supplies(x, l, f) <=> reach[Cardinality(L) + 1] = {f}
  BY <1>0 DEF Supplies, Stands
<1>2. \A o \in L : Stands(x, o) \subseteq L
  <2> TAKE o \in L
  <2>1. CASE Rewritten(x, o)
    <3> DEFINE e == <<o[1], Exported(x, o[1])>>
    <3>1. TargetsAfter(x)[o] = Filegroup(e) /\ e \in L
      BY <2>1, AfterIs, RewrittenIs
    <3> HIDE DEF e
    <3>2. Filegroup(e).to = {e}
      BY DEF Filegroup
    <3> QED BY <3>1, <3>2 DEF Stands
  <2>2. CASE ~Rewritten(x, o)
    BY <2>2, AfterIs, RepositoryIs DEF Stands
  <2> QED BY <2>1, <2>2
<1>3. PICK F \in [P -> P] : \A X \in P : F[X] = step(X)
  <2>1. \A X \in P : step(X) \in P
    <3> HIDE DEF L
    <3> QED BY <1>2
  <2>2. [X \in P |-> step(X)] \in [P -> P]
    <3> HIDE DEF step, P
    <3> QED BY <2>1
  <2> HIDE DEF step, P
  <2> QED BY <2>2
<1>4. reach = Def(reach)
  <2>1. PICK g \in [Nat -> P] : \A n \in Nat : g[n] = IF n = 0 THEN {l} ELSE F[g[n - 1]]
    <3>1. {l} \in P
      OBVIOUS
    <3> HIDE DEF step, P
    <3> QED BY <3>1, Iterated
  <2>2. \A n \in Nat : n # 0 => n - 1 \in Nat /\ g[n - 1] \in P
    OBVIOUS
  <2>3. g = Def(g)
    <3> HIDE DEF step, P
    <3> QED BY <2>1, <2>2, <1>3
  <2> HIDE DEF Def
  <2> QED BY <2>3
<1> HIDE DEF reach
<1>5. \A n \in Nat : reach[n] = IF n = 0 THEN {l} ELSE step(reach[n - 1])
  <2> HIDE DEF step
  <2> QED BY <1>4
<1>6. \A n \in Nat : n + 1 \in Nat /\ n + 1 # 0 /\ n + 1 - 1 = n
  OBVIOUS
<1>7. \A n \in Nat : reach[n + 1] = step(reach[n])
  <2> HIDE DEF step
  <2> QED BY <1>5, <1>6
<1>8. reach[0] = {l}
  <2> HIDE DEF step
  <2> QED BY <1>5
<1>9. IsReading(x, l, reach)
  BY <1>7, <1>8 DEF IsReading
<1> QED BY <1>1, <1>9

\* A file that the loop ends at is the one that Bazel's reading ends at.
LEMMA SelectedIsSupplied ==
  ASSUME NEW x, Repository(x), NEW l \in Configurable(x), Selected(x, l).what = "file"
  PROVE  Supplies(x, l, Selected(x, l).file)
<1> DEFINE m == Cardinality(Configurable(x)) + 1
           f == Selected(x, l).file
<1>1. PICK turn : /\ IsLoop(x, l, turn)
                  /\ Selected(x, l) = IF turn[m].what = "label" THEN Unknown ELSE turn[m]
  <2> HIDE DEF f
  <2> QED BY LoopIs, Zenon
<1>2. PICK reach : IsReading(x, l, reach) /\ (Supplies(x, l, f) <=> reach[m] = {f})
  <2> HIDE DEF f, m
  <2> QED BY ReadingIs, Zenon DEF m
<1> DEFINE Same == {n \in Nat : Right(x, turn[n], reach[n])}
<1>3. 0 \in Same
  BY <1>1, <1>2 DEF IsLoop, IsReading, Right, Turns
<1>4. ASSUME NEW n \in Same \cap Nat PROVE n + 1 \in Same
  <2>0. Right(x, turn[n], reach[n])
    OBVIOUS
  <2>1. turn[n + 1] = IF turn[n].what = "label" THEN Forward(x, turn[n].label) ELSE turn[n]
    BY <1>1 DEF IsLoop
  <2>2. reach[n + 1] = UNION {Stands(x, o) : o \in reach[n]}
    BY <1>2 DEF IsReading
  <2>3. CASE turn[n].what = "label"
    <3>1. PICK o \in Configurable(x) : turn[n] = [what |-> "label", label |-> o]
      BY <2>0, <2>3 DEF Right, Turns, File, Unknown
    <3>2. turn[n + 1] = Forward(x, o) /\ reach[n] = {o}
      BY <2>0, <2>1, <3>1 DEF Right
    <3>3. reach[n + 1] = Stands(x, o)
      BY <2>2, <3>2
    <3> QED BY <3>2, <3>3, ForwardIsRight
  <2>4. CASE turn[n].what # "label"
    <3>1. turn[n + 1] = turn[n]
      BY <2>1, <2>4
    <3>2. turn[n].what = "file" => reach[n + 1] = {turn[n].file}
      BY <2>0, <2>2 DEF Right
    <3> QED BY <2>0, <2>4, <3>1, <3>2 DEF Right
  <2> QED BY <2>3, <2>4
<1>5. Nat \subseteq Same
  <2> HIDE DEF Same
  <2> QED BY <1>3, <1>4, Counting
<1>6. m \in Nat
  BY RepositoryIs
<1>7. Right(x, turn[m], reach[m])
  BY <1>5, <1>6
<1> HIDE DEF m
<1>8. Selected(x, l) = turn[m] /\ turn[m].what = "file"
  BY <1>1 DEF Unknown
<1> QED BY <1>2, <1>7, <1>8 DEF Right

\* The loop ends at once at a label that Gazelle writes.
LEMMA SelectedRewritten ==
  ASSUME NEW x, Repository(x), NEW l \in Configurable(x), Rewritten(x, l)
  PROVE  Selected(x, l) = File(<<l[1], Exported(x, l[1])>>)
<1> DEFINE m == Cardinality(Configurable(x))
           e == File(<<l[1], Exported(x, l[1])>>)
<1>1. PICK turn : /\ IsLoop(x, l, turn)
                  /\ Selected(x, l) = IF turn[m + 1].what = "label" THEN Unknown ELSE turn[m + 1]
  BY LoopIs
<1>2. Forward(x, l) = e /\ e.what = "file"
  BY DEF Forward, File
<1> HIDE DEF e
<1> DEFINE There == {n \in Nat : turn[n + 1] = e}
<1>3. 0 \in There
  <2>1. turn[0] = [what |-> "label", label |-> l] /\ turn[0 + 1] = IF turn[0].what = "label" THEN Forward(x, turn[0].label) ELSE turn[0]
    BY <1>1 DEF IsLoop
  <2> QED BY <2>1, <1>2
<1>4. ASSUME NEW n \in There \cap Nat PROVE n + 1 \in There
  <2>1. n + 1 \in Nat
    OBVIOUS
  <2>2. turn[n + 1 + 1] = IF turn[n + 1].what = "label" THEN Forward(x, turn[n + 1].label) ELSE turn[n + 1]
    BY <1>1, <2>1 DEF IsLoop
  <2> QED BY <1>2, <2>1, <2>2
<1>5. Nat \subseteq There
  <2> HIDE DEF There
  <2> QED BY <1>3, <1>4, Counting
<1>6. turn[m + 1] = e
  BY <1>5, RepositoryIs
<1> HIDE DEF m
<1> QED BY <1>1, <1>2, <1>6 DEF e

\* A default is a label, of the config beside the test or of the group of the
\* directory that plain vitest would go to.
LEMMA DefaultIs ==
  ASSUME NEW x, Repository(x), NEW d \in Dirs
  PROVE  /\ Default(x, d) \in Configurable(x) \cup {None}
         /\ Default(x, d) # None /\ ConfigIn(x, d) = None =>
              /\ Default(x, d) = <<RootAbove(x, d), ConfigGroup>>
              /\ RootAbove(x, d) = Root \/ RootAbove(x, d) \in x.packages
              /\ Exported(x, RootAbove(x, d)) # None
         /\ RootAbove(x, d) # None =>
              /\ RootAbove(x, d) \in Dirs /\ d # Root /\ d \notin x.manifests
              /\ RootAbove(x, d) = Nearest(d, x.manifests \cup {Root})
<1> DEFINE r == RootAbove(x, d)
           S == x.manifests \cup {Root}
<1>1. ASSUME r # None PROVE r \in Dirs /\ d # Root /\ d \notin x.manifests /\ r = Nearest(d, S)
  <2>1. d # Root /\ d \notin x.manifests /\ r = Nearest(Up[d], S)
    BY <1>1 DEF RootAbove
  <2>2. r = Nearest(d, S)
    BY <2>1, NearestAbove
  <2>3. S \cap above[d] # {}
    BY <1>1, <2>2 DEF Nearest
  <2>4. r \in S
    BY <2>2, <2>3, NearestIsMet
  <2>5. S \subseteq Dirs
    BY TreeAssumption DEF Repository
  <2> QED BY <2>1, <2>2, <2>4, <2>5
<1>2. CASE ConfigIn(x, d) # None
  <2>1. ConfigIn(x, d) \in ConfigNames /\ Default(x, d) = <<d, ConfigIn(x, d)>>
    BY <1>2, ConfigInIs DEF Default
  <2>2. <<d, ConfigIn(x, d)>> \in Configurable(x)
    BY <2>1, RepositoryIs
  <2> QED BY <1>1, <1>2, <2>1, <2>2
<1>3. CASE ConfigIn(x, d) = None
  <2>1. \/ Default(x, d) = None
        \/ /\ r # None /\ Default(x, d) = <<r, ConfigGroup>> /\ Exported(x, r) # None
           /\ r = Root \/ r \in x.packages
    BY <1>3 DEF Default
  <2>2. r # None => <<r, ConfigGroup>> \in Configurable(x)
    BY <1>1, RepositoryIs
  <2> HIDE DEF r, S
  <2> QED BY <1>1, <1>3, <2>1, <2>2 DEF r, S
<1> QED BY <1>2, <1>3

\* vitestConfigFor and selectedVitestConfig: for any repository, the file whose
\* imports a test is given is the one its config label supplies once the rules
\* are written; a default one is the file that plain vitest reads there.
LEMMA TestReadsItsConfig ==
  ASSUME NEW x, Repository(x), NEW d \in Dirs
  PROVE  LabelSupplies(x, d)
<1> DEFINE c == ConfigFor(x, d)
           a == c.attr
           r == RootAbove(x, d)
           gl == <<r, ConfigGroup>>
<1>0. /\ a = IF x.hold THEN x.stored ELSE Merged(x, d)
      /\ a \in {None, Absent, Expression} => c.cfg.what # "file"
      /\ a \notin {None, Absent, Expression} => c.cfg = Selected(x, a)
  BY DEF ConfigFor, NoConfig, Unknown
<1> HIDE DEF c
<1>1. a \in Configurable(x) \cup {None, Absent, Expression}
  BY <1>0, DefaultIs, RepositoryIs DEF Merged
<1>2. c.cfg.what = "file" => a \in Configurable(x) /\ c.cfg = Selected(x, a)
  BY <1>0, <1>1
<1>3. c.cfg.what = "file" => Supplies(x, a, c.cfg.file)
  BY <1>2, SelectedIsSupplied
<1>4. ASSUME ~x.hold, c.cfg.what = "file", ConfigIn(x, d) = None, x.targets[gl] = None
      PROVE  c.cfg.file = PlainVitest(x, d)
  <2>1. a \in Configurable(x) /\ c.cfg = Selected(x, a) /\ a = Merged(x, d)
    BY <1>0, <1>2, <1>4
  <2>2. a # None /\ a # Expression
    BY <2>1, RepositoryIs
  <2>3. a = Default(x, d) /\ Default(x, d) # None
    BY <2>1, <2>2 DEF Merged
  <2>4. a = gl /\ (r = Root \/ r \in x.packages) /\ Exported(x, r) # None
    BY <1>4, <2>3, DefaultIs
  <2>5. r # None
    <3>1. None \notin Dirs
      BY TreeAssumption
    <3>2. gl \in Configurable(x) /\ gl[1] \in Dirs
      BY <2>1, <2>4, RepositoryIs
    <3> QED BY <3>1, <3>2
  <2>6. r \in Dirs /\ d \notin x.manifests /\ r = Nearest(d, x.manifests \cup {Root})
    BY <2>5, DefaultIs
  <2> HIDE DEF r
  <2>7. Rewritten(x, gl)
    BY <1>4, <2>4 DEF Rewritten
  <2>8. Selected(x, gl) = File(<<r, Exported(x, r)>>)
    BY <2>1, <2>4, <2>7, SelectedRewritten
  <2>9. Exported(x, r) = ConfigIn(x, r) /\ ConfigIn(x, r) # None
    BY <2>4 DEF Exported
  <2>10. PlainVitest(x, d) = <<r, ConfigIn(x, r)>>
    BY <1>4, <2>6, <2>9 DEF PlainVitest
  <2> QED BY <2>1, <2>4, <2>8, <2>9, <2>10 DEF File
<1>5. ASSUME ~x.hold, a = None, r = Root, Root \notin Hidden
      PROVE  PlainVitest(x, d) = None
  <2>0. None # Root /\ Root \in Dirs
    BY TreeAssumption
  <2>1. Default(x, d) = None
    <3>1. a = Merged(x, d)
      BY <1>0, <1>5
    <3> QED BY <1>5, <3>1 DEF Merged
  <2>2. ConfigIn(x, d) = None
    <3>1. ASSUME ConfigIn(x, d) # None PROVE FALSE
      <4>1. ConfigIn(x, d) \in ConfigNames /\ Default(x, d) = <<d, ConfigIn(x, d)>>
        BY <3>1, ConfigInIs DEF Default
      <4>2. <<d, ConfigIn(x, d)>> # None
        BY <4>1, RepositoryIs
      <4> QED BY <2>1, <4>1, <4>2
    <3> QED BY <3>1
  <2>3. d # Root /\ d \notin x.manifests /\ Nearest(d, x.manifests \cup {Root}) = Root
    BY <1>5, <2>0, DefaultIs
  <2>4. Exported(x, Root) = None
    <3>1. ASSUME Exported(x, Root) # None PROVE FALSE
      <4>1. Default(x, d) = <<Root, ConfigGroup>>
        BY <1>5, <2>0, <2>2, <3>1 DEF Default
      <4>2. <<Root, ConfigGroup>> # None
        BY <2>0, RepositoryIs
      <4> QED BY <2>1, <4>1, <4>2
    <3> QED BY <3>1
  <2>5. ConfigIn(x, Root) = None
    BY <1>5, <2>4 DEF Exported
  <2> QED BY <2>2, <2>3, <2>5 DEF PlainVitest
<1> QED BY <1>3, <1>4, <1>5 DEF LabelSupplies, c

\* So in every run (generate.go): a test's config label supplies the file whose
\* imports the test is given.
THEOREM TestsReadTheirConfig ==
  ASSUME configured # None => Repository(configured)
  PROVE  ConfigLabelSupplies
BY TestReadsItsConfig DEF ConfigLabelSupplies

-----------------------------------------------------------------------------
(* Exports of a package that is split.                                      *)

\* What a declaration becomes.
Becomes(e, d, S) == [dir |-> d, srcs |-> S, vis |-> e.vis, keep |-> e.keep]

LEMMA DeclarationIs ==
  ASSUME NEW e \in Declarations
  PROVE  /\ \A S : [e EXCEPT !.srcs = S] = Becomes(e, e.dir, S)
         /\ e = Becomes(e, e.dir, e.srcs)
         /\ e.dir \in Dirs /\ e.srcs \in SUBSET Files /\ e.vis \in Visibilities /\ e.keep \in BOOLEAN
         /\ \A d \in Dirs, S \in SUBSET Files : Becomes(e, d, S) \in Declarations
<1>1. e = Becomes(e, e.dir, e.srcs) /\ e.dir \in Dirs /\ e.srcs \in SUBSET Files
      /\ e.vis \in Visibilities /\ e.keep \in BOOLEAN
  BY DEF Declarations, Becomes
<1>2. ASSUME NEW S PROVE [e EXCEPT !.srcs = S] = Becomes(e, e.dir, S)
  <2>1. \A a, b, v, k : LET r == [dir |-> a, srcs |-> b, vis |-> v, keep |-> k]
                       IN  [r EXCEPT !.srcs = S] = [dir |-> a, srcs |-> S, vis |-> v, keep |-> k]
    OBVIOUS
  <2>2. e = [dir |-> e.dir, srcs |-> e.srcs, vis |-> e.vis, keep |-> e.keep]
    BY <1>1 DEF Becomes
  <2> QED BY <2>1, <2>2 DEF Becomes
<1>3. ASSUME NEW d \in Dirs, NEW S \in SUBSET Files PROVE Becomes(e, d, S) \in Declarations
  BY <1>1 DEF Becomes, Declarations
<1> QED BY <1>1, <1>2, <1>3

\* A run that has moved some declarations.
After(x, O) == [x EXCEPT !.old = O]

LEMMA AfterRun ==
  ASSUME NEW x, Splitting(x), NEW O
  PROVE  /\ After(x, O).built = x.built /\ After(x, O).added = x.added /\ After(x, O).holds = x.holds
         /\ After(x, O).updated = x.updated /\ After(x, O).old = O /\ After(x, O).reads = x.reads
         /\ After(x, O).default = x.default
         /\ \A P : [After(x, O) EXCEPT !.old = P] = After(x, P)
         /\ After(x, x.old) = x
BY DEF Splitting, After

LEMMA AfterOwners ==
  ASSUME NEW x, Splitting(x), NEW O
  PROVE  /\ \A f : ExportOwner(After(x, O), f) = ExportOwner(x, f)
         /\ \A d : Ancestor(After(x, O), d) = Ancestor(x, d)
BY AfterRun DEF ExportOwner, BazelPackages, Ancestor

\* Which declarations a new package leaves and makes.
Gives(x, d, o) == {f \in o.srcs : ExportOwner(x, f) = d}
Leaves(x, d, o) == Becomes(o, o.dir, o.srcs \ Gives(x, d, o))
Made(x, d, o) == Becomes(o, d, {f \in o.srcs : Inside(DirOf[f], d) /\ ExportOwner(x, f) = d})

LEMMA RelocateIs ==
  ASSUME NEW x, Splitting(x), NEW O \in SUBSET Declarations, NEW d \in Dirs, NEW e
  PROVE  e \in Relocate(After(x, O), d) <=>
           \E o \in O :
              \/ o.dir # Ancestor(x, d) /\ e = o
              \/ o.dir = Ancestor(x, d) /\ e = Leaves(x, d, o)
              \/ /\ d \in x.holds /\ o.dir = Ancestor(x, d) /\ Within(o.srcs, d) # {}
                 /\ e = Made(x, d, o)
<1> DEFINE y == After(x, O)
           A == Ancestor(x, d)
<1>1. y.old = O /\ y.holds = x.holds /\ Ancestor(y, d) = A /\ \A f : ExportOwner(y, f) = ExportOwner(x, f)
  BY AfterRun, AfterOwners
<1>2. \A o \in O : [o EXCEPT !.srcs = o.srcs \ OwnedSrcs(y, o, d)] = Leaves(x, d, o)
  <2> TAKE o \in O
  <2>1. OwnedSrcs(y, o, d) = Gives(x, d, o)
    BY <1>1 DEF OwnedSrcs, Gives
  <2> HIDE DEF y
  <2>2. [o EXCEPT !.srcs = o.srcs \ Gives(x, d, o)] = Becomes(o, o.dir, o.srcs \ Gives(x, d, o))
    BY DeclarationIs
  <2> QED BY <2>1, <2>2 DEF Leaves
<1>3. \A o \in O : LET r == Becomes(o, d, Within(o.srcs, d))
                   IN  [r EXCEPT !.srcs = OwnedSrcs(y, r, d)] = Made(x, d, o)
  <2> TAKE o \in O
  <2> DEFINE r == Becomes(o, d, Within(o.srcs, d))
  <2>2. o.srcs \in SUBSET Files
    BY DeclarationIs
  <2>3. r \in Declarations /\ r.srcs = Within(o.srcs, d) /\ r.dir = d /\ r.vis = o.vis /\ r.keep = o.keep
    <3>1. Within(o.srcs, d) \in SUBSET Files
      BY <2>2 DEF Within
    <3> QED BY <3>1, DeclarationIs DEF Becomes
  <2>4. OwnedSrcs(y, r, d) = {f \in o.srcs : Inside(DirOf[f], d) /\ ExportOwner(x, f) = d}
    BY <1>1, <2>3 DEF OwnedSrcs, Within
  <2> HIDE DEF r
  <2>5. [r EXCEPT !.srcs = OwnedSrcs(y, r, d)] = Becomes(r, d, OwnedSrcs(y, r, d))
    BY <2>3, DeclarationIs
  <2>6. Becomes(r, d, OwnedSrcs(y, r, d)) = Made(x, d, o)
    BY <2>3, <2>4 DEF Becomes, Made
  <2> QED BY <2>5, <2>6 DEF r
<1> HIDE DEF y, A
<1>4. Relocate(y, d) =
         {o \in O : o.dir # A}
         \cup {Leaves(x, d, o) : o \in {p \in O : p.dir = A}}
         \cup (IF d \in x.holds THEN {Made(x, d, o) : o \in {p \in O : p.dir = A /\ Within(p.srcs, d) # {}}} ELSE {})
  <2>1. {[o EXCEPT !.srcs = o.srcs \ OwnedSrcs(y, o, d)] : o \in {p \in O : p.dir = A}}
          = {Leaves(x, d, o) : o \in {p \in O : p.dir = A}}
    BY <1>2
  <2>2. {[r EXCEPT !.srcs = OwnedSrcs(y, r, d)] : r \in Relocated(y, d)}
          = {Made(x, d, o) : o \in {p \in O : p.dir = A /\ Within(p.srcs, d) # {}}}
    <3> DEFINE form(o) == Becomes(o, d, Within(o.srcs, d))
               S == {p \in O : p.dir = A /\ Within(p.srcs, d) # {}}
    <3>1. Relocated(y, d) = {form(o) : o \in S}
      BY <1>1 DEF Relocated, Becomes
    <3>2. \A o \in S : [form(o) EXCEPT !.srcs = OwnedSrcs(y, form(o), d)] = Made(x, d, o)
      BY <1>3
    <3> HIDE DEF form, S
    <3>3. {[r EXCEPT !.srcs = OwnedSrcs(y, r, d)] : r \in {form(o) : o \in S}} = {Made(x, d, o) : o \in S}
      BY <3>2
    <3> QED BY <3>1, <3>3 DEF S
  <2>3. {[r EXCEPT !.srcs = OwnedSrcs(y, r, d)] : r \in IF d \in x.holds THEN Relocated(y, d) ELSE {}}
          = IF d \in x.holds THEN {Made(x, d, o) : o \in {p \in O : p.dir = A /\ Within(p.srcs, d) # {}}} ELSE {}
    BY <2>2
  <2> QED BY <1>1, <2>1, <2>3 DEF Relocate
<1> QED BY <1>4 DEF y, A

\* The package a file was of before the run, and the one that has its exports
\* when the directories in done have had their turn.
Before(x, f) == Nearest(DirOf[f], x.built \cup {Root})
Holder(x, done, f) == IF ExportOwner(x, f) \in done THEN ExportOwner(x, f) ELSE Before(x, f)

\* What has moved has kept its visibility and is of that package.
ExportsSettled(x, done, O) ==
    /\ O \in SUBSET Declarations
    /\ \A e \in O : \A f \in e.srcs : e.dir = Holder(x, done, f)
    /\ \A o \in x.old : \A f \in o.srcs : \E e \in O : f \in e.srcs /\ e.vis = o.vis
    /\ \A e \in O : \A f \in e.srcs : \E o \in x.old : f \in o.srcs /\ o.vis = e.vis

\* A file is of a new package only if that was not one before.
LEMMA OwnerIsNew ==
  ASSUME NEW x, Splitting(x), NEW f \in Files, NEW d \in Dirs, ExportOwner(x, f) = d
  PROVE  /\ d \notin x.holds => Before(x, f) = d
         /\ d = Root \/ d \in x.built => Before(x, f) = d
         /\ d \in above[DirOf[f]] /\ d \in x.built \cup x.holds \cup {Root}
<1> DEFINE S == BazelPackages(x)
           B == x.built \cup {Root}
<1>1. DirOf[f] \in Dirs /\ None \notin Dirs /\ Root \in Dirs
  BY TreeAssumption
<1>2. B \in SUBSET S /\ None \notin B /\ Nearest(DirOf[f], S) = d
  BY <1>1 DEF Splitting, BazelPackages, ExportOwner
<1>3. S \cap above[DirOf[f]] # {}
  BY <1>1, <1>2 DEF Nearest
<1>4. d \in S \cap above[DirOf[f]]
  BY <1>1, <1>2, <1>3, NearestIsMet
<1>5. d \in B => Before(x, f) = d
  <2> HIDE DEF S
  <2> QED BY <1>1, <1>2, NearestWithin DEF Before
<1>6. d \notin x.holds => d \in B
  BY <1>4 DEF BazelPackages
<1> QED BY <1>4, <1>5, <1>6 DEF BazelPackages

\* What a new package owns was exported by the package above it.
LEMMA AncestorHadIt ==
  ASSUME NEW x, Splitting(x), NEW f \in Files, NEW d \in Dirs, ExportOwner(x, f) = d,
         d # Root, d \notin x.built, Before(x, f) \in x.built
  PROVE  Before(x, f) = Ancestor(x, d)
<1> DEFINE S == BazelPackages(x)
           B == x.built \cup {Root}
           b == Before(x, f)
<1>1. DirOf[f] \in Dirs /\ None \notin Dirs /\ Root \in Dirs /\ Up[d] \in Dirs
  BY TreeAssumption
<1>2. B \in SUBSET S /\ Nearest(DirOf[f], S) = d
  BY DEF BazelPackages, ExportOwner
<1>3. b = Nearest(d, B)
  <2> HIDE DEF S, B
  <2>1. b = Nearest(DirOf[f], B)
    BY DEF Before, B
  <2> QED BY <1>1, <1>2, <2>1, NearestBeyond
<1>4. b = Nearest(Up[d], B)
  BY <1>3, NearestAbove
<1>5. x.built \in SUBSET B /\ None \notin x.built
  BY <1>1 DEF Splitting
<1>6. Nearest(Up[d], x.built) = Nearest(Up[d], B)
  <2> HIDE DEF B, b
  <2>1. Nearest(Up[d], B) \in x.built
    BY <1>4 DEF b
  <2> QED BY <1>1, <1>5, <2>1, NearestWithin
<1> QED BY <1>4, <1>6 DEF Ancestor

\* One directory's turn.
LEMMA TurnSettles ==
  ASSUME NEW x, Splitting(x), NEW done, NEW O, ExportsSettled(x, done, O), NEW d \in Dirs
  PROVE  ExportsSettled(x, done \cup {d}, IF d \in x.added THEN Relocate(After(x, O), d) ELSE O)
<1> DEFINE now == done \cup {d}
           R == Relocate(After(x, O), d)
           A == Ancestor(x, d)
<1>0. O \in SUBSET Declarations /\ \A e \in O : e \in Declarations /\ e.srcs \in SUBSET Files
  BY DeclarationIs DEF ExportsSettled
<1>10. \A e : e \in R <=> \E o \in O :
           \/ o.dir # A /\ e = o
           \/ o.dir = A /\ e = Leaves(x, d, o)
           \/ d \in x.holds /\ o.dir = A /\ Within(o.srcs, d) # {} /\ e = Made(x, d, o)
  BY <1>0, RelocateIs
<1>1. ASSUME NEW f \in Files, ExportOwner(x, f) # d \/ d \notin x.holds \/ d = Root
      PROVE  Holder(x, now, f) = Holder(x, done, f)
  BY <1>1, OwnerIsNew DEF Holder
<1>2. ASSUME d \notin x.holds \/ d = Root PROVE ExportsSettled(x, now, O)
  <2>1. \A e \in O : \A f \in e.srcs : e.dir = Holder(x, now, f)
    BY <1>0, <1>1, <1>2 DEF ExportsSettled
  <2> HIDE DEF now
  <2> QED BY <2>1 DEF ExportsSettled
<1>3. ASSUME d \in x.added, d \notin x.holds \/ d = Root PROVE R = O
  <2>1. ASSUME NEW o \in O, o.dir = A PROVE Leaves(x, d, o) = o /\ d \notin x.holds
    <3>0. o.dir \in Dirs /\ None \notin Dirs /\ o.srcs \in SUBSET Files
      BY <1>0, DeclarationIs, TreeAssumption
    <3>1. d # Root
      BY <2>1, <3>0 DEF Ancestor
    <3>2. d \notin x.holds /\ d \notin x.built
      BY <1>3, <3>1 DEF Splitting
    <3>3. Gives(x, d, o) = {}
      BY <3>0, <3>1, <3>2, OwnerIsNew DEF Gives
    <3>4. o = Becomes(o, o.dir, o.srcs)
      BY <1>0, DeclarationIs
    <3> QED BY <3>2, <3>3, <3>4 DEF Leaves
  <2> HIDE DEF A
  <2>2. ASSUME NEW e PROVE e \in R <=> e \in O
    <3> HIDE DEF R
    <3> QED BY <1>10, <2>1
  <2> HIDE DEF R
  <2> QED BY <2>2
<1>4. ASSUME d \in x.added, d \in x.holds, d # Root PROVE ExportsSettled(x, now, R)
  <2>0. d \notin x.built
    BY <1>4 DEF Splitting
  <2>1. \A f \in Files : ExportOwner(x, f) = d => Holder(x, now, f) = d
    BY DEF Holder
  <2>2. \A o \in O : o.srcs \in SUBSET Files /\ o.dir \in Dirs
    BY <1>0, DeclarationIs
  <2>3. ASSUME NEW o \in O, NEW f \in o.srcs, ExportOwner(x, f) = d
        PROVE  o.dir = A \/ o.dir = d
    <3>1. o.dir = Holder(x, done, f)
      BY DEF ExportsSettled
    <3>2. PICK q \in x.old : f \in q.srcs
      BY DEF ExportsSettled
    <3>3. Before(x, f) \in x.built
      BY <3>2 DEF Splitting, Before
    <3>4. f \in Files
      BY <2>2
    <3>5. Before(x, f) = A
      BY <1>4, <2>0, <2>3, <3>3, <3>4, AncestorHadIt
    <3> QED BY <2>3, <3>1, <3>5 DEF Holder
  <2> HIDE DEF A
  <2> HIDE DEF R, now
  <2>5. \A o \in O : /\ Leaves(x, d, o).dir = o.dir /\ Leaves(x, d, o).vis = o.vis
                     /\ Leaves(x, d, o).srcs = o.srcs \ Gives(x, d, o)
                     /\ Made(x, d, o).dir = d /\ Made(x, d, o).vis = o.vis
                     /\ Made(x, d, o).srcs = {f \in o.srcs : Inside(DirOf[f], d) /\ ExportOwner(x, f) = d}
                     /\ Leaves(x, d, o) \in Declarations /\ Made(x, d, o) \in Declarations
    <3> TAKE o \in O
    <3>1. o \in Declarations /\ o.srcs \ Gives(x, d, o) \in SUBSET Files
          /\ {f \in o.srcs : Inside(DirOf[f], d) /\ ExportOwner(x, f) = d} \in SUBSET Files
      BY <1>0, <2>2
    <3>2. Leaves(x, d, o) \in Declarations /\ Made(x, d, o) \in Declarations
      BY <2>2, <3>1, DeclarationIs DEF Leaves, Made
    <3> QED BY <3>2 DEF Leaves, Made, Becomes
  <2>6. \A e \in R : e \in Declarations
    BY <1>0, <1>10, <2>5
  <2>7. ASSUME NEW e \in R, NEW f \in e.srcs
        PROVE  e.dir = Holder(x, now, f) /\ \E o \in O : f \in o.srcs /\ o.vis = e.vis
    <3>1. PICK o \in O :
              \/ o.dir # A /\ e = o
              \/ o.dir = A /\ e = Leaves(x, d, o)
              \/ d \in x.holds /\ o.dir = A /\ Within(o.srcs, d) # {} /\ e = Made(x, d, o)
      BY <1>10
    <3>2. CASE o.dir # A /\ e = o
      <4>1. f \in Files /\ e.dir = Holder(x, done, f)
        BY <2>2, <3>2 DEF ExportsSettled
      <4>2. ExportOwner(x, f) = d => e.dir = d
        BY <2>3, <3>2
      <4> QED BY <1>1, <2>1, <3>2, <4>1, <4>2
    <3>3. CASE o.dir = A /\ e = Leaves(x, d, o)
      <4>1. f \in o.srcs /\ ExportOwner(x, f) # d /\ e.dir = o.dir /\ e.vis = o.vis
        BY <2>5, <3>3 DEF Gives
      <4>2. f \in Files /\ o.dir = Holder(x, done, f)
        BY <2>2, <4>1 DEF ExportsSettled
      <4> QED BY <1>1, <4>1, <4>2
    <3>4. CASE e = Made(x, d, o)
      <4>1. f \in o.srcs /\ ExportOwner(x, f) = d /\ e.dir = d /\ e.vis = o.vis
        BY <2>5, <3>4
      <4> QED BY <2>1, <2>2, <4>1
    <3> QED BY <3>1, <3>2, <3>3, <3>4
  <2>8. ASSUME NEW o \in O, NEW f \in o.srcs
        PROVE  \E e \in R : f \in e.srcs /\ e.vis = o.vis
    <3>1. CASE o.dir # A
      BY <1>10, <3>1
    <3>2. CASE o.dir = A /\ ExportOwner(x, f) # d
      <4>1. Leaves(x, d, o) \in R
        BY <1>10, <3>2
      <4>2. f \in Leaves(x, d, o).srcs /\ Leaves(x, d, o).vis = o.vis
        BY <2>5, <3>2 DEF Gives
      <4> QED BY <4>1, <4>2
    <3>3. CASE o.dir = A /\ ExportOwner(x, f) = d
      <4>1. f \in Files
        BY <2>2
      <4>2. Inside(DirOf[f], d)
        BY <3>3, <4>1, OwnerIsNew DEF Inside
      <4>3. Within(o.srcs, d) # {}
        BY <4>2 DEF Within
      <4>4. Made(x, d, o) \in R
        BY <1>4, <1>10, <3>3, <4>3
      <4>5. f \in Made(x, d, o).srcs /\ Made(x, d, o).vis = o.vis
        BY <2>5, <3>3, <4>2
      <4> QED BY <4>4, <4>5
    <3> QED BY <3>1, <3>2, <3>3
  <2>9. \A q \in x.old : \A f \in q.srcs : \E e \in R : f \in e.srcs /\ e.vis = q.vis
    BY <2>8 DEF ExportsSettled
  <2>10. \A e \in R : \A f \in e.srcs : \E q \in x.old : f \in q.srcs /\ q.vis = e.vis
    BY <2>7 DEF ExportsSettled
  <2> QED BY <2>6, <2>7, <2>9, <2>10 DEF ExportsSettled
<1>5. d \notin x.added => d \notin x.holds
  BY DEF Splitting
<1> HIDE DEF R, now
<1> QED BY <1>2, <1>3, <1>4, <1>5 DEF R, now

LEMMA RelocateTyped ==
  ASSUME NEW x, Splitting(x), NEW O \in SUBSET Declarations, NEW d \in Dirs
  PROVE  Relocate(After(x, O), d) \in SUBSET Declarations
<1>1. \A o \in O : Leaves(x, d, o) \in Declarations /\ Made(x, d, o) \in Declarations
  <2> TAKE o \in O
  <2>1. o.srcs \in SUBSET Files /\ o.dir \in Dirs
    BY DeclarationIs
  <2>2. /\ o.srcs \ Gives(x, d, o) \in SUBSET Files
        /\ {f \in o.srcs : Inside(DirOf[f], d) /\ ExportOwner(x, f) = d} \in SUBSET Files
    BY <2>1
  <2> QED BY <2>1, <2>2, DeclarationIs DEF Leaves, Made
<1>2. \A e \in Relocate(After(x, O), d) :
         \E o \in O : e = o \/ e = Leaves(x, d, o) \/ e = Made(x, d, o)
  BY RelocateIs
<1> QED BY <1>1, <1>2

\* One turn, and what the turns go through.
MoveStep(x, i, was) ==
    IF Order[i] \notin x.added \/ was.failed THEN was
    ELSE [run |-> [was.run EXCEPT !.old = Relocate(was.run, Order[i])],
          failed |-> MoveFails(was.run, Order[i])]
MoveState(x, O, b) == [run |-> After(x, O), failed |-> b]
MoveStates(x) == {MoveState(x, O, b) : O \in SUBSET Declarations, b \in BOOLEAN}

LEMMA MoveStepIs ==
  ASSUME NEW x, Splitting(x), NEW i \in 1..Len(Order), NEW O \in SUBSET Declarations, NEW b \in BOOLEAN
  PROVE  LET s == MoveStep(x, i, MoveState(x, O, b))
             R == Relocate(After(x, O), Order[i])
         IN  /\ Order[i] \in Dirs
             /\ b \/ Order[i] \notin x.added => s = MoveState(x, O, b)
             /\ ~b /\ Order[i] \in x.added =>
                  R \in SUBSET Declarations /\ \E c \in BOOLEAN : s = MoveState(x, R, c)
<1> DEFINE R == Relocate(After(x, O), Order[i])
           c == MoveFails(After(x, O), Order[i])
<1>0. Order[i] \in Dirs
  BY DEF Splitting
<1>1. R \in SUBSET Declarations
  BY <1>0, RelocateTyped
<1>2. c \in BOOLEAN
  BY DEF MoveFails
<1>3. [After(x, O) EXCEPT !.old = R] = After(x, R)
  BY AfterRun
<1>4. ~b /\ Order[i] \in x.added => MoveStep(x, i, MoveState(x, O, b)) = MoveState(x, R, c)
  BY <1>3 DEF MoveStep, MoveState
<1>5. b \/ Order[i] \notin x.added => MoveStep(x, i, MoveState(x, O, b)) = MoveState(x, O, b)
  BY DEF MoveStep, MoveState
<1> HIDE DEF c
<1> QED BY <1>0, <1>1, <1>2, <1>4, <1>5

LEMMA MoveStart ==
  ASSUME NEW x, Splitting(x)
  PROVE  /\ [run |-> x, failed |-> FALSE] = MoveState(x, x.old, FALSE)
         /\ x.old \in SUBSET Declarations
BY AfterRun DEF MoveState, Splitting

LEMMA TurnsAre ==
  ASSUME NEW x, Splitting(x)
  PROVE  \E after : /\ after[0] = MoveState(x, x.old, FALSE)
                    /\ \A i \in 1..Len(Order) : after[i] = MoveStep(x, i, after[i - 1])
                    /\ Moved(x) = after[Len(Order)]
<1> DEFINE N == Len(Order)
           start == [run |-> x, failed |-> FALSE]
           T == MoveStates(x)
           Def(g) == [i \in 0..N |-> IF i = 0 THEN start ELSE MoveStep(x, i, g[i - 1])]
           after == CHOOSE g : g = Def(g)
<1>1. Moved(x) = after[N]
  BY DEF Moved, MoveStep
<1>2. N \in Nat
  BY DEF Splitting
<1>3. \A i \in 1..N, s \in T : MoveStep(x, i, s) \in T
  <2> TAKE i \in 1..N, s \in T
  <2>1. PICK O \in SUBSET Declarations, b \in BOOLEAN : s = MoveState(x, O, b)
    BY DEF MoveStates
  <2>2. \E P \in SUBSET Declarations, c \in BOOLEAN : MoveStep(x, i, s) = MoveState(x, P, c)
    BY <2>1, MoveStepIs
  <2> QED BY <2>2 DEF MoveStates
<1> DEFINE D == (1..N) \X T
<1>4. PICK F \in [D -> T] : \A i \in 1..N : \A s \in T : F[<<i, s>>] = MoveStep(x, i, s)
  <2>1. [p \in D |-> MoveStep(x, p[1], p[2])] \in [D -> T]
    <3> HIDE DEF N, T
    <3> QED BY <1>3
  <2> HIDE DEF N, T
  <2> QED BY <2>1
<1>5. start \in T
  <2>1. start = MoveState(x, x.old, FALSE) /\ x.old \in SUBSET Declarations /\ FALSE \in BOOLEAN
    BY MoveStart
  <2>2. \E O \in SUBSET Declarations, b \in BOOLEAN : start = MoveState(x, O, b)
    BY <2>1
  <2> HIDE DEF start
  <2> QED BY <2>2 DEF MoveStates
<1>6. PICK g \in [0..N -> T] : \A i \in 0..N : g[i] = IF i = 0 THEN start ELSE F[<<i, g[i - 1]>>]
  <2>1. D = (1..N) \X T
    OBVIOUS
  <2> HIDE DEF T, start, N, D
  <2> QED BY <1>2, <1>5, <2>1, Stepped
<1>7. \A i \in 0..N : i # 0 => i - 1 \in 0..N /\ i \in 1..N
  BY <1>2
<1>8. \A i \in 0..N : g[i] = IF i = 0 THEN start ELSE MoveStep(x, i, g[i - 1])
  <2> HIDE DEF start, T, N
  <2> QED BY <1>4, <1>6, <1>7
<1>9. g = Def(g)
  <2> HIDE DEF start, T, N
  <2> QED BY <1>8
<1>10. after = Def(after)
  <2> HIDE DEF Def
  <2> QED BY <1>9
<1> HIDE DEF after
<1>11. \A i \in 0..N : after[i] = IF i = 0 THEN start ELSE MoveStep(x, i, after[i - 1])
  <2> HIDE DEF start, N
  <2> QED BY <1>10
<1>12. 0 \in 0..N /\ \A i \in 1..N : i \in 0..N /\ i # 0
  BY <1>2
<1>13. after[0] = start /\ \A i \in 1..N : after[i] = MoveStep(x, i, after[i - 1])
  <2> HIDE DEF start, N
  <2> QED BY <1>11, <1>12
<1> QED BY <1>1, <1>13, MoveStart

\* The turns of the new packages, until one stops the run.
Turned(i) == {Order[j] : j \in 1..i}
Moving(x, i, s) ==
    \E O \in SUBSET Declarations, b \in BOOLEAN :
       s = MoveState(x, O, b) /\ (~b => ExportsSettled(x, Turned(i), O))

LEMMA MovingStep ==
  ASSUME NEW x, Splitting(x), NEW i \in Nat, i + 1 <= Len(Order), NEW s, Moving(x, i, s)
  PROVE  Moving(x, i + 1, MoveStep(x, i + 1, s))
<1> DEFINE k == i + 1
           d == Order[k]
<1>1. PICK O \in SUBSET Declarations, b \in BOOLEAN :
         s = MoveState(x, O, b) /\ (~b => ExportsSettled(x, Turned(i), O))
  BY DEF Moving
<1>2. k \in 1..Len(Order)
  BY DEF Splitting
<1>3. Turned(k) = Turned(i) \cup {d}
  <2>1. 1..k = (1..i) \cup {k}
    OBVIOUS
  <2> QED BY <2>1 DEF Turned
<1> DEFINE R == Relocate(After(x, O), d)
<1> HIDE DEF k, d
<1>4. /\ d \in Dirs
      /\ b \/ d \notin x.added => MoveStep(x, k, s) = MoveState(x, O, b)
      /\ ~b /\ d \in x.added =>
           R \in SUBSET Declarations /\ \E c \in BOOLEAN : MoveStep(x, k, s) = MoveState(x, R, c)
  BY <1>1, <1>2, MoveStepIs DEF d
<1>5. ~b => ExportsSettled(x, Turned(k), IF d \in x.added THEN R ELSE O)
  BY <1>1, <1>3, <1>4, TurnSettles
<1> HIDE DEF R
<1>6. Moving(x, k, MoveStep(x, k, s))
  <2>1. CASE b \/ d \notin x.added
    BY <1>4, <1>5, <2>1 DEF Moving
  <2>2. CASE ~b /\ d \in x.added
    BY <1>4, <1>5, <2>2 DEF Moving
  <2> QED BY <2>1, <2>2
<1> QED BY <1>6 DEF k

LEMMA MovedIs ==
  ASSUME NEW x, Splitting(x)
  PROVE  \E O : Moved(x).run = After(x, O) /\ (~Moved(x).failed => ExportsSettled(x, Dirs, O))
<1> DEFINE N == Len(Order)
<1>1. PICK after : /\ after[0] = MoveState(x, x.old, FALSE)
                   /\ \A i \in 1..N : after[i] = MoveStep(x, i, after[i - 1])
                   /\ Moved(x) = after[N]
  BY TurnsAre
<1>2. N \in Nat
  BY DEF Splitting
<1> DEFINE Good == {i \in Nat : i <= N => Moving(x, i, after[i])}
<1>3. 0 \in Good
  <2>1. Turned(0) = {}
    BY DEF Turned
  <2>2. ExportsSettled(x, {}, x.old)
    <3>1. \A e \in x.old : \A f \in e.srcs : e.dir = Holder(x, {}, f)
      BY DEF Splitting, Holder, Before
    <3>2. x.old \in SUBSET Declarations
      BY DEF Splitting
    <3> QED BY <3>1, <3>2 DEF ExportsSettled
  <2> QED BY <1>1, <2>1, <2>2, MoveStart DEF Moving
<1>4. ASSUME NEW i \in Good \cap Nat PROVE i + 1 \in Good
  <2> HIDE DEF N
  <2> SUFFICES ASSUME i + 1 <= N PROVE Moving(x, i + 1, after[i + 1])
    OBVIOUS
  <2>1. i \in Nat /\ i + 1 \in 1..N /\ i + 1 - 1 = i /\ Moving(x, i, after[i])
    BY <1>2
  <2>2. after[i + 1] = MoveStep(x, i + 1, after[i])
    BY <1>1, <2>1
  <2> QED BY <2>1, <2>2, MovingStep DEF N
<1>5. Nat \subseteq Good
  <2> HIDE DEF Good
  <2> QED BY <1>3, <1>4, Counting
<1>6. Moving(x, N, Moved(x))
  <2> HIDE DEF N
  <2> QED BY <1>1, <1>2, <1>5
<1>7. Turned(N) = Dirs
  BY DEF Splitting, Turned
<1>8. PICK O \in SUBSET Declarations, b \in BOOLEAN :
         Moved(x) = MoveState(x, O, b) /\ (~b => ExportsSettled(x, Dirs, O))
  BY <1>6, <1>7 DEF Moving
<1> QED BY <1>8 DEF MoveState

\* relocateSourceExports and exportPackageScopes: in any tree, a run that ends
\* well leaves every export to the package that owns the file, as visible as it
\* was, and every package.json that is read exported to its readers.
LEMMA SplitKeepsExports ==
  ASSUME NEW x, Splitting(x)
  PROVE  StayWithOwner(x)
<1> DEFINE p == Published(x)
<1> SUFFICES ASSUME ~p.failed
             PROVE  LET now(f) == {[dir |-> e.dir, vis |-> e.vis] : e \in {o \in p.exports : f \in o.srcs}}
                    IN  /\ \A e \in x.old, f \in Files : f \in e.srcs =>
                              [dir |-> ExportOwner(x, f), vis |-> e.vis] \in now(f)
                        /\ \A f \in Files : \A v \in now(f) :
                              /\ v.dir = ExportOwner(x, f)
                              /\ (\E e \in x.old : f \in e.srcs) => \E e \in x.old : f \in e.srcs /\ e.vis = v.vis
                        /\ \A r \in x.reads : ExportOwner(x, r.scope) # r.by =>
                              \E v \in now(r.scope) : r.by \in Grants[v.vis]
  BY DEF StayWithOwner
<1>1. PICK O : Moved(x).run = After(x, O) /\ (~Moved(x).failed => ExportsSettled(x, Dirs, O))
  BY MovedIs
<1> DEFINE y == After(x, O)
           Q == {e \in O \cup Scopes(y) : e.srcs # {}}
<1>2. /\ ExportsSettled(x, Dirs, O) /\ p.exports = Q
      /\ \A r \in x.reads : ~ScopeFails(y, r)
  <2>1. p = [failed |-> Moved(x).failed \/ \E r \in x.reads : ScopeFails(Moved(x).run, r),
             exports |-> {e \in Moved(x).run.old \cup Scopes(Moved(x).run) : e.srcs # {}}]
    BY DEF Published
  <2>2. y.old = O
    BY AfterRun
  <2> HIDE DEF p, y
  <2> QED BY <1>1, <2>1, <2>2 DEF y
<1> HIDE DEF p
<1>3. y.old = O /\ y.reads = x.reads /\ \A f : ExportOwner(y, f) = ExportOwner(x, f)
  BY AfterRun, AfterOwners
<1> HIDE DEF y
<1>4. ASSUME NEW e \in O, NEW f \in e.srcs PROVE f \in Files /\ e.dir = ExportOwner(x, f)
  <2>1. O \in SUBSET Declarations /\ e.dir = Holder(x, Dirs, f)
    BY <1>2 DEF ExportsSettled
  <2>2. PICK o \in x.old : f \in o.srcs
    BY <1>2 DEF ExportsSettled
  <2>3. f \in Files
    BY <2>1, DeclarationIs
  <2>4. Before(x, f) \in x.built /\ x.built \subseteq Dirs
    BY <2>2 DEF Splitting, Before
  <2>5. ExportOwner(x, f) \in Dirs
    <3> DEFINE S == BazelPackages(x)
               B == x.built \cup {Root}
               g == DirOf[f]
    <3>1. g \in Dirs /\ None \notin Dirs /\ Root \in Dirs
      BY <2>3, TreeAssumption
    <3>2. B \cap above[g] # {}
      BY <2>4, <3>1 DEF Before, Nearest
    <3>3. B \subseteq S /\ S \subseteq Dirs
      BY <3>1 DEF BazelPackages, Splitting
    <3>4. S \cap above[g] # {}
      BY <3>2, <3>3
    <3> HIDE DEF S, B, g
    <3>5. Nearest(g, S) \in S
      BY <3>1, <3>4, NearestIsMet
    <3> QED BY <3>3, <3>5 DEF ExportOwner, g, S
  <2> QED BY <2>1, <2>3, <2>5 DEF Holder
<1>5. \A d, f : \A v : v \in Policies(y, d, f) <=> \E e \in O : e.dir = d /\ f \in e.srcs /\ e.vis = v
  BY <1>3 DEF Policies
<1>6. \A s \in Scopes(y) : \E r \in x.reads :
         /\ s.srcs = {r.scope} /\ s.dir = ExportOwner(x, r.scope)
         /\ Policies(y, ExportOwner(x, r.scope), r.scope) = {}
  BY <1>3 DEF Scopes
<1>7. ASSUME NEW e \in x.old, NEW f \in e.srcs
      PROVE  \E o \in Q : f \in o.srcs /\ o.dir = ExportOwner(x, f) /\ o.vis = e.vis
  <2>1. PICK o \in O : f \in o.srcs /\ o.vis = e.vis
    BY <1>2 DEF ExportsSettled
  <2> QED BY <1>4, <2>1
<1>8. ASSUME NEW o \in Q, NEW f \in o.srcs
      PROVE  /\ o.dir = ExportOwner(x, f)
             /\ (\E e \in x.old : f \in e.srcs) => \E e \in x.old : f \in e.srcs /\ e.vis = o.vis
  <2>1. CASE o \in O
    BY <1>2, <1>4, <2>1 DEF ExportsSettled
  <2>2. CASE o \in Scopes(y)
    <3>1. o.dir = ExportOwner(x, f) /\ Policies(y, ExportOwner(x, f), f) = {}
      BY <1>6, <2>2
    <3>2. ASSUME NEW e \in x.old, f \in e.srcs PROVE FALSE
      <4>1. PICK q \in O : f \in q.srcs /\ q.vis = e.vis
        BY <1>2, <3>2 DEF ExportsSettled
      <4>2. q.dir = ExportOwner(x, f)
        BY <1>4, <4>1
      <4>3. q.vis \in Policies(y, ExportOwner(x, f), f)
        BY <1>5, <4>1, <4>2
      <4> QED BY <3>1, <4>3
    <3> QED BY <3>1, <3>2
  <2> QED BY <2>1, <2>2
<1>9. ASSUME NEW r \in x.reads, ExportOwner(x, r.scope) # r.by
      PROVE  \E o \in Q : r.scope \in o.srcs /\ r.by \in Grants[o.vis]
  <2> DEFINE d == ExportOwner(x, r.scope)
             policies == Policies(y, d, r.scope)
  <2>1. r.by \in Grants[ScopeVisibility(y, d, r.scope)]
    BY <1>2, <1>3, <1>9 DEF ScopeFails
  <2>2. CASE policies = {}
    <3> DEFINE s == [dir |-> d, srcs |-> {r.scope}, keep |-> FALSE, vis |-> ScopeVisibility(y, d, r.scope)]
    <3>1. s \in Scopes(y)
      BY <1>3, <1>9, <2>2 DEF Scopes
    <3> QED BY <2>1, <3>1
  <2>3. CASE policies # {}
    <3>1. ScopeVisibility(y, d, r.scope) \in policies
      BY <2>3 DEF ScopeVisibility
    <3>2. PICK e \in O : r.scope \in e.srcs /\ e.vis = ScopeVisibility(y, d, r.scope)
      BY <1>5, <3>1
    <3> QED BY <2>1, <3>2
  <2> QED BY <2>2, <2>3
<1> HIDE DEF Q
<1> DEFINE now(f) == {[dir |-> e.dir, vis |-> e.vis] : e \in {o \in p.exports : f \in o.srcs}}
<1>10. \A f : \A v : v \in now(f) <=> \E e \in Q : f \in e.srcs /\ v = [dir |-> e.dir, vis |-> e.vis]
  BY <1>2
<1> HIDE DEF now
<1>11. ASSUME NEW e \in x.old, NEW f \in e.srcs
       PROVE  [dir |-> ExportOwner(x, f), vis |-> e.vis] \in now(f)
  BY <1>7, <1>10
<1>12. ASSUME NEW f, NEW v \in now(f)
       PROVE  /\ v.dir = ExportOwner(x, f)
              /\ (\E e \in x.old : f \in e.srcs) => \E e \in x.old : f \in e.srcs /\ e.vis = v.vis
  <2>1. PICK o \in Q : f \in o.srcs /\ v = [dir |-> o.dir, vis |-> o.vis]
    BY <1>10
  <2> QED BY <1>8, <2>1
<1>13. ASSUME NEW r \in x.reads, ExportOwner(x, r.scope) # r.by
       PROVE  \E v \in now(r.scope) : r.by \in Grants[v.vis]
  <2>1. PICK o \in Q : r.scope \in o.srcs /\ r.by \in Grants[o.vis]
    BY <1>9, <1>13
  <2>2. [dir |-> o.dir, vis |-> o.vis] \in now(r.scope)
    BY <1>10, <2>1
  <2> QED BY <2>1, <2>2
<1> QED BY <1>11, <1>12, <1>13 DEF now

\* So in every run that adds packages (generate.go, emission.go): an export stays
\* with the package that owns the file.
THEOREM ExportsFollowOwners ==
  ASSUME split # None => Splitting(split)
  PROVE  ExportsStayWithOwner
BY SplitKeepsExports DEF ExportsStayWithOwner

-----------------------------------------------------------------------------
(* The program of a directory.                                              *)

\* The first of a sequence's places.
LEMMA FirstProbeIs ==
  ASSUME NEW probes, NEW n \in Nat, DOMAIN probes = 1..n, NEW S
  PROVE  \/ FirstProbe(probes, S) = 0 /\ \A j \in 1..n : j \notin S
         \/ /\ FirstProbe(probes, S) \in 1..n /\ FirstProbe(probes, S) \in S
            /\ \A j \in 1..n : j \in S => FirstProbe(probes, S) <= j
<1> DEFINE hit == {i \in 1..n : i \in S}
           Less == {ss \in Nat \X Nat : ss[1] < ss[2]}
<1>0. FirstProbe(probes, S) = IF hit = {} THEN 0 ELSE CHOOSE i \in hit : \A j \in hit : i <= j
  BY DEF FirstProbe
<1>1. CASE hit = {}
  BY <1>0, <1>1
<1>2. CASE hit # {}
  <2>1. IsWellFoundedOn(Less, Nat)
    BY NatLessThanWellFounded DEF OpToRel
  <2>2. hit \subseteq Nat
    OBVIOUS
  <2>3. \E i \in hit : \A j \in hit : ~ (<<j, i>> \in Less)
    <3> HIDE DEF hit, Less
    <3> QED BY <1>2, <2>1, <2>2, WFMin
  <2>4. \E i \in hit : \A j \in hit : i <= j
    <3>1. PICK i \in hit : \A j \in hit : ~ (j < i)
      BY <2>2, <2>3
    <3> QED BY <2>2, <3>1
  <2> QED BY <1>0, <1>2, <2>4
<1> QED BY <1>1, <1>2

\* The parts of a world.
OnDisk(w, p) == p.what = "file" /\ p.path \in w.disk
LEMMA BlockIs ==
  ASSUME NEW w, World(w), NEW b \in w.blocks
  PROVE  /\ Len(b.probes) \in Nat /\ DOMAIN b.probes = 1..Len(b.probes)
         /\ \A j \in 1..Len(b.probes) :
              /\ b.probes[j].path \in Located /\ b.probes[j].path # Nowhere
              /\ b.probes[j].what \in {"file", "directory", "package"}
              /\ b.probes[j] = [what |-> b.probes[j].what, path |-> b.probes[j].path]
              /\ b.probes[j].what = "directory" => b.probes[j].path \notin w.disk \cup w.final.scalar
<1> DEFINE R == [what : {"file", "directory", "package"}, path : Located]
<1>1. b.probes \in Seq(R)
  BY DEF World
<1>2. Len(b.probes) \in Nat /\ DOMAIN b.probes = 1..Len(b.probes)
      /\ \A j \in 1..Len(b.probes) : b.probes[j] \in R
  <2> HIDE DEF R
  <2> DEFINE q == b.probes
  <2>1. q \in Seq(R)
    BY <1>1
  <2> HIDE DEF q
  <2>2. Len(q) \in Nat /\ DOMAIN q = 1..Len(q) /\ \A j \in 1..Len(q) : q[j] \in R
    BY <2>1
  <2> QED BY <2>2 DEF q
<1>3. \A j \in 1..Len(b.probes) :
         b.probes[j].what = "directory" => b.probes[j].path \notin w.disk \cup w.final.scalar
  BY <1>2 DEF World
<1>4. Nowhere \notin Located
  BY DEF World
<1> QED BY <1>2, <1>3, <1>4

\* The outcome is the first probe that is a file on disk.
LEMMA OutcomeIs ==
  ASSUME NEW w, World(w), NEW b \in w.blocks
  PROVE  \/ Outcome(b, w.disk) = Nowhere /\ \A j \in 1..Len(b.probes) : ~OnDisk(w, b.probes[j])
         \/ \E o \in 1..Len(b.probes) :
              /\ Outcome(b, w.disk) = b.probes[o].path /\ OnDisk(w, b.probes[o])
              /\ \A j \in 1..Len(b.probes) : OnDisk(w, b.probes[j]) => o <= j
<1> DEFINE P == b.probes
           n == Len(P)
           D == {j \in DOMAIN P : P[j].what = "file" /\ P[j].path \in w.disk}
           o == FirstProbe(P, D)
<1>1. Outcome(b, w.disk) = IF o = 0 THEN Nowhere ELSE P[o].path
  BY DEF Outcome
<1>2. n \in Nat /\ DOMAIN P = 1..n
  BY BlockIs
<1>3. \A j \in 1..n : j \in D <=> OnDisk(w, P[j])
  BY <1>2 DEF OnDisk
<1>4. \/ o = 0 /\ \A j \in 1..n : j \notin D
      \/ o \in 1..n /\ o \in D /\ \A j \in 1..n : j \in D => o <= j
  <2> HIDE DEF D, P, n
  <2> QED BY <1>2, FirstProbeIs
<1> HIDE DEF D, o
<1>5. o \in 1..n => o # 0
  BY <1>2
<1> QED BY <1>1, <1>3, <1>4, <1>5

\* The candidates are the probes up to the outcome.
AreCandidates(w, b, m) ==
    /\ m \in Nat /\ m <= Len(b.probes) /\ DOMAIN Candidates(b, w.disk) = 1..m
    /\ \A j \in 1..m : Candidates(b, w.disk)[j] = b.probes[j]
    /\ \A j \in 1..m : j < m \/ Outcome(b, w.disk) = Nowhere => ~OnDisk(w, b.probes[j])
    /\ Outcome(b, w.disk) = Nowhere => m = Len(b.probes)
    /\ Outcome(b, w.disk) # Nowhere =>
         m \in 1..Len(b.probes) /\ OnDisk(w, b.probes[m]) /\ Outcome(b, w.disk) = b.probes[m].path
LEMMA CandidatesAre ==
  ASSUME NEW w, World(w), NEW b \in w.blocks
  PROVE  \E m \in Nat : AreCandidates(w, b, m)
<1> DEFINE P == b.probes
           n == Len(P)
           to == Outcome(b, w.disk)
           S == {j \in DOMAIN P : P[j] = [what |-> "file", path |-> to]}
           i == FirstProbe(P, S)
<1>0. n \in Nat /\ DOMAIN P = 1..n /\ P \in Seq([what : {"file", "directory", "package"}, path : Located])
  BY BlockIs DEF World
<1>1. Candidates(b, w.disk) = IF to = Nowhere THEN P ELSE SubSeq(P, 1, i)
  BY DEF Candidates
<1>2. CASE to = Nowhere
  <2>1. \A j \in 1..n : ~OnDisk(w, P[j])
    <3>1. \A o \in 1..n : to # P[o].path
      BY <1>2, BlockIs
    <3> HIDE DEF to
    <3> QED BY <3>1, OutcomeIs DEF to
  <2>2. AreCandidates(w, b, n)
    BY <1>0, <1>1, <1>2, <2>1 DEF AreCandidates
  <2> QED BY <1>0, <2>2
<1>3. CASE to # Nowhere
  <2>1. PICK o \in 1..n : /\ to = P[o].path /\ OnDisk(w, P[o])
                          /\ \A j \in 1..n : OnDisk(w, P[j]) => o <= j
    BY <1>3, OutcomeIs
  <2>2. o \in S
    BY <1>0, <2>1, BlockIs DEF OnDisk
  <2>3. \A j \in 1..n : j \in S => OnDisk(w, P[j])
    BY <2>1 DEF OnDisk
  <2>4. \/ i = 0 /\ \A j \in 1..n : j \notin S
        \/ i \in 1..n /\ i \in S /\ \A j \in 1..n : j \in S => i <= j
    <3> HIDE DEF S, P, n, to
    <3> QED BY <1>0, FirstProbeIs
  <2> HIDE DEF S, i
  <2>5. i = o
    BY <1>0, <2>1, <2>2, <2>3, <2>4
  <2>6. DOMAIN SubSeq(P, 1, o) = 1..o /\ \A j \in 1..o : SubSeq(P, 1, o)[j] = P[j]
    <3> HIDE DEF P
    <3> QED BY <1>0, <2>1
  <2>7. Candidates(b, w.disk) = SubSeq(P, 1, o)
    BY <1>1, <1>3, <2>5
  <2> HIDE DEF P, to
  <2>8. \A j \in 1..o : j < o => ~OnDisk(w, P[j])
    BY <1>0, <2>1
  <2>9. o \in Nat /\ o <= n
    BY <1>0
  <2>10. AreCandidates(w, b, o)
    BY <1>3, <2>1, <2>6, <2>7, <2>8, <2>9 DEF P, to, AreCandidates
  <2> QED BY <2>9, <2>10
<1> QED BY <1>2, <1>3

\* What is reached is the least set that holds the starts and is closed.
LEMMA ReachedIs ==
  ASSUME NEW w, World(w), NEW starts \in SUBSET (Located \cup {Config}), NEW stop, NEW edges,
         \A e \in edges : e.to \in Located \cup {Config}
  PROVE  /\ starts \ stop \subseteq ReachedBy(starts, edges, stop)
         /\ ReachedBy(starts, edges, stop) \subseteq Located \cup {Config}
         /\ \A e \in edges : e.from \in ReachedBy(starts, edges, stop) /\ e.to \notin stop
                               => e.to \in ReachedBy(starts, edges, stop)
         /\ \A S \in SUBSET (Located \cup {Config}) :
              /\ starts \ stop \subseteq S
              /\ \A e \in edges : e.from \in S /\ e.to \notin stop => e.to \in S
              => ReachedBy(starts, edges, stop) \subseteq S
<1> DEFINE U == Located \cup {Config}
           start == starts \ stop
           step(S) == S \cup ({e.to : e \in {d \in edges : d.from \in S}} \ stop)
           Def(g) == [n \in Nat |-> IF n = 0 THEN start ELSE step(g[n - 1])]
           reach == CHOOSE g : g = Def(g)
           P == SUBSET U
<1>1. ReachedBy(starts, edges, stop) = reach[Cardinality(Located) + 1]
  BY DEF ReachedBy
<1>2. IsFiniteSet(U) /\ Cardinality(U) = Cardinality(Located) + 1
  <2>1. IsFiniteSet(Located) /\ Config \notin Located
    BY DEF World
  <2> QED BY <2>1, FS_AddElement
<1>3. PICK F \in [P -> P] : \A X \in P : F[X] = step(X)
  <2>1. \A X \in P : step(X) \in P
    OBVIOUS
  <2>2. [S \in P |-> step(S)] \in [P -> P]
    <3> HIDE DEF step
    <3> QED BY <2>1
  <2> HIDE DEF step
  <2> QED BY <2>2
<1>4. reach = Def(reach)
  <2>1. PICK g \in [Nat -> P] : \A n \in Nat : g[n] = IF n = 0 THEN start ELSE F[g[n - 1]]
    <3>1. start \in P
      OBVIOUS
    <3> HIDE DEF step, P, start
    <3> QED BY <3>1, Iterated
  <2>2. \A n \in Nat : n # 0 => n - 1 \in Nat /\ g[n - 1] \in P
    OBVIOUS
  <2>3. g = Def(g)
    <3> HIDE DEF step, start
    <3> QED BY <2>1, <2>2, <1>3
  <2> HIDE DEF Def
  <2> QED BY <2>3
<1>5. reach[0] = start /\ \A n \in Nat : reach[n] \in P => reach[n + 1] = F[reach[n]]
  <2>1. \A n \in Nat : n + 1 \in Nat /\ n + 1 # 0 /\ n + 1 - 1 = n
    OBVIOUS
  <2> HIDE DEF reach
  <2>2. \A n \in Nat : reach[n] = IF n = 0 THEN start ELSE step(reach[n - 1])
    <3> HIDE DEF step, start
    <3> QED BY <1>4
  <2>3. \A n \in Nat : reach[n + 1] = step(reach[n])
    <3> HIDE DEF step, start
    <3> QED BY <2>1, <2>2
  <2>4. reach[0] = start
    BY <2>2
  <2> HIDE DEF step, start
  <2> QED BY <2>3, <2>4, <1>3
<1>6. Climbs(U, start, F, reach)
  <2>1. \A X \in P : X \subseteq F[X]
    BY <1>3
  <2>2. start \in SUBSET U
    OBVIOUS
  <2> HIDE DEF reach, step, start, U
  <2> QED BY <1>2, <1>5, <2>1, <2>2 DEF Climbs
<1> DEFINE R == ReachedBy(starts, edges, stop)
<1>7. IsLeast(U, start, F, R)
  <2> HIDE DEF reach, step, start, U
  <2> QED BY <1>1, <1>2, <1>6, Reaching
<1> HIDE DEF R, reach
<1>8. R \in SUBSET U /\ start \subseteq R /\ F[R] = R
  <2> HIDE DEF start, U
  <2> QED BY <1>7 DEF IsLeast
<1>9. \A e \in edges : e.from \in R /\ e.to \notin stop => e.to \in R
  <2>1. R = step(R)
    <3> HIDE DEF step
    <3> QED BY <1>3, <1>8
  <2> QED BY <2>1
<1>10. ASSUME NEW S \in P, start \subseteq S,
              \A e \in edges : e.from \in S /\ e.to \notin stop => e.to \in S
       PROVE  R \subseteq S
  <2>1. \A X \in P : X \subseteq S => F[X] \subseteq S
    <3>1. \A X \in P : X \subseteq S => step(X) \subseteq S
      BY <1>10
    <3> HIDE DEF step
    <3> QED BY <1>3, <3>1
  <2> HIDE DEF start, U, step
  <2> QED BY <1>7, <1>10, <2>1 DEF IsLeast
<1> HIDE DEF step
<1> QED BY <1>8, <1>9, <1>10 DEF R

\* The first candidate under an output directory.
UnderTree(w, p) == p.path \in FirstParties /\ w.final.tree[p.path] # Nowhere
IsFirst(i, m, S) ==
    \/ i = 0 /\ \A j \in 1..m : j \notin S
    \/ i \in 1..m /\ i \in S /\ \A j \in 1..m : j \in S => i <= j
Boundary(w, b) == TreeBoundary(w.final, Candidates(b, w.disk))
UnderTrees(w, b) == {j \in DOMAIN b.probes : UnderTree(w, b.probes[j])}
LEMMA BoundaryIs ==
  ASSUME NEW w, World(w), NEW b \in w.blocks, NEW m, AreCandidates(w, b, m)
  PROVE  IsFirst(Boundary(w, b), m, UnderTrees(w, b))
<1> DEFINE C == Candidates(b, w.disk)
           T == {i \in DOMAIN C : C[i].path \in FirstParties /\ w.final.tree[C[i].path] # Nowhere}
<1>1. Boundary(w, b) = FirstProbe(C, T)
  BY DEF Boundary, TreeBoundary
<1>2. m \in Nat /\ DOMAIN C = 1..m /\ \A j \in 1..m : C[j] = b.probes[j]
  BY DEF AreCandidates
<1>3. \A j \in 1..m : j \in T <=> j \in UnderTrees(w, b)
  <2>1. \A j \in 1..m : j \in DOMAIN b.probes
    BY BlockIs DEF AreCandidates
  <2> QED BY <1>2, <2>1 DEF UnderTrees, UnderTree
<1> HIDE DEF C, T
<1> QED BY <1>1, <1>2, <1>3, FirstProbeIs DEF IsFirst

\* The first candidate that selects something.
ChosenBy(w, b, j) ==
    Chosen(w, w.final, Outcome(b, w.disk), Candidates(b, w.disk), Boundary(w, b), j)
Choosing(w, b) == {j \in DOMAIN Candidates(b, w.disk) : ChosenBy(w, b, j) # {}}
LEMMA SelectionIsFirst ==
  ASSUME NEW w, World(w), NEW b \in w.blocks, NEW m, AreCandidates(w, b, m)
  PROVE  \E i : /\ IsFirst(i, m, Choosing(w, b))
                /\ i = 0 => Selection(w, w.final, b) = Nowhere
                /\ i # 0 => Selection(w, w.final, b) \in ChosenBy(w, b, i)
<1> DEFINE C == Candidates(b, w.disk)
           S == Choosing(w, b)
           i == FirstProbe(C, S)
           s == Selection(w, w.final, b)
<1>1. s = IF i = 0 THEN Nowhere ELSE CHOOSE x \in ChosenBy(w, b, i) : TRUE
  BY DEF Selection, SelectionAmong, FirstChosen, Choosing, ChosenBy, Boundary
<1>2. m \in Nat /\ DOMAIN C = 1..m
  BY DEF AreCandidates
<1> HIDE DEF C, S, i, s
<1>3. IsFirst(i, m, S)
  BY <1>2, FirstProbeIs DEF IsFirst, i
<1>4. i # 0 => ChosenBy(w, b, i) # {}
  BY <1>3 DEF IsFirst, S, Choosing
<1> QED BY <1>1, <1>3, <1>4 DEF S, s

\* An overridden outcome is all that can be selected.
Pinned(w, b) ==
    LET to == Outcome(b, w.disk)
    IN  /\ to # Nowhere /\ Overrides(w, w.final, b.probes, to)
        /\ StopsAt(w.final, Candidates(b, w.disk), to)
LEMMA PinnedChoice ==
  ASSUME NEW w, World(w), NEW b \in w.blocks, NEW m, AreCandidates(w, b, m), Pinned(w, b),
         NEW j \in 1..m
  PROVE  \A s \in ChosenBy(w, b, j) : s # Nowhere /\ s.to = Outcome(b, w.disk)
<1> DEFINE to == Outcome(b, w.disk)
           C == Candidates(b, w.disk)
           at == Boundary(w, b)
<1>1. to \in Located
  BY BlockIs DEF AreCandidates, Pinned
<1>2. at # 0 => C[at].path \in Located
  <2>1. \A i \in 1..m : C[i].path \in Located
    <3>1. \A i \in 1..m : i \in 1..Len(b.probes) /\ C[i] = b.probes[i]
      BY BlockIs DEF AreCandidates
    <3> HIDE DEF C
    <3> QED BY <3>1, BlockIs
  <2>2. at # 0 => at \in 1..m
    BY BoundaryIs DEF IsFirst
  <2> HIDE DEF C, at
  <2> QED BY <2>1, <2>2
<1>3. Overrides(w, w.final, C, to) /\ StopsAt(w.final, C, to) /\ to # Nowhere
  BY DEF Pinned, Overrides
<1>4. \A s \in ChosenBy(w, b, j) : s = [to |-> to, probe |-> IF at = 0 THEN to ELSE C[at].path]
  BY <1>3 DEF ChosenBy, Chosen
<1>5. \A f, g \in Located : [to |-> f, probe |-> g] # Nowhere
  BY DEF World
<1> HIDE DEF to, C, at
<1> QED BY <1>1, <1>2, <1>4, <1>5 DEF to

\* Otherwise what is selected is what is there.
LEMMA FreeChoice ==
  ASSUME NEW w, World(w), NEW b \in w.blocks, NEW m, AreCandidates(w, b, m), ~Pinned(w, b),
         NEW j \in 1..m
  PROVE  /\ \A s \in ChosenBy(w, b, j) : s # Nowhere /\ s.to = b.probes[j].path
         /\ (Boundary(w, b) = 0 \/ j <= Boundary(w, b))
              /\ (j < m \/ Outcome(b, w.disk) = Nowhere \/ j = Boundary(w, b))
             => (ChosenBy(w, b, j) # {} <=> IsThere(w, w.final, b.probes[j]))
<1> DEFINE to == Outcome(b, w.disk)
           C == Candidates(b, w.disk)
           at == Boundary(w, b)
           p == b.probes[j]
           k == w.final
           May == /\ p.path \in FirstParties /\ ~ (p.what = "package" /\ at # j)
                  /\ Overrides(w, k, C, p.path) \/ Generated(k, p.path, p.what = "file")
<1>0. C[j] = p /\ m \in Nat /\ j \in 1..Len(b.probes) /\ j \in DOMAIN b.probes
  BY BlockIs DEF AreCandidates
<1>1. ~ (to # Nowhere /\ Overrides(w, k, C, to) /\ StopsAt(k, C, to))
  BY DEF Pinned, Overrides
<1>2. ChosenBy(w, b, j) = IF May THEN {[to |-> p.path, probe |-> p.path]} ELSE {}
  BY <1>0, <1>1 DEF ChosenBy, Chosen
<1>3. p.path \in Located
  BY <1>0, BlockIs
<1>4. \A s \in ChosenBy(w, b, j) : s # Nowhere /\ s.to = p.path
  <2>1. \A f, g \in Located : [to |-> f, probe |-> g] # Nowhere
    BY DEF World
  <2> HIDE DEF May, p
  <2> QED BY <1>2, <1>3, <2>1
<1>5. ASSUME at = 0 \/ j <= at, j < m \/ to = Nowhere \/ j = at
      PROVE  May <=> IsThere(w, k, p)
  <2>1. at = j => UnderTree(w, p)
    BY <1>0, BoundaryIs DEF IsFirst, UnderTrees
  <2>2. UnderTree(w, p) => at = j
    <3>1. UnderTree(w, p) => j \in UnderTrees(w, b)
      BY <1>0 DEF UnderTrees
    <3> HIDE DEF p, at
    <3> QED BY <1>0, <1>5, <3>1, BoundaryIs DEF IsFirst, at
  <2>3. p.what = "directory" => p.path \notin w.disk /\ p.path \notin k.scalar
    BY <1>0, BlockIs
  <2>4. p.what \in {"file", "directory", "package"}
    BY <1>0, BlockIs
  <2>5. OnDisk(w, p) => at = j
    BY <1>5 DEF AreCandidates
  <2>6. May => IsThere(w, k, p)
    <3> HIDE DEF p, at
    <3> QED BY <2>1, <2>3, <2>4 DEF Overrides, Available, Generated, IsThere, UnderTree
  <2>7. IsThere(w, k, p) => May
    <3> HIDE DEF p, at
    <3> QED BY <2>1, <2>2, <2>4, <2>5 DEF Generated, IsThere, UnderTree, OnDisk
  <2> QED BY <2>6, <2>7
<1>6. ChosenBy(w, b, j) # {} <=> May
  <2> HIDE DEF May, p
  <2> QED BY <1>2
<1> HIDE DEF May
<1> QED BY <1>4, <1>5, <1>6

\* What a block selects is what the compiler finds among the outputs.
LEMMA BlockSelected ==
  ASSUME NEW w, World(w), NEW b \in w.blocks
  PROVE  \/ /\ Selection(w, w.final, b) = Nowhere
            /\ BuiltFile(w, w.final, b) = Outcome(b, w.disk)
         \/ /\ Selection(w, w.final, b) # Nowhere
            /\ Selection(w, w.final, b).to = BuiltFile(w, w.final, b)
<1> DEFINE P == b.probes
           n == Len(P)
           to == Outcome(b, w.disk)
           s == Selection(w, w.final, b)
           There == {j \in DOMAIN P : IsThere(w, w.final, P[j])}
           h == FirstProbe(P, There)
<1>1. BuiltFile(w, w.final, b) = IF Pinned(w, b) THEN to ELSE IF h = 0 THEN Nowhere ELSE P[h].path
  BY DEF BuiltFile, Pinned
<1>2. PICK m \in Nat : AreCandidates(w, b, m)
  BY CandidatesAre
<1>3. PICK i : /\ IsFirst(i, m, Choosing(w, b))
               /\ i = 0 => s = Nowhere
               /\ i # 0 => s \in ChosenBy(w, b, i)
  BY <1>2, SelectionIsFirst
<1>4. n \in Nat /\ DOMAIN P = 1..n /\ m <= n
  BY <1>2, BlockIs DEF AreCandidates
<1>5. IsFirst(h, n, There)
  <2> HIDE DEF There, P, n
  <2> QED BY <1>4, FirstProbeIs DEF IsFirst
<1>6. \A j \in 1..n : j \in There <=> IsThere(w, w.final, P[j])
  BY <1>4
<1>7. \A j \in 1..m : j \in Choosing(w, b) <=> ChosenBy(w, b, j) # {}
  BY <1>2 DEF Choosing, AreCandidates
<1>8. CASE Pinned(w, b)
  <2>1. BuiltFile(w, w.final, b) = to
    BY <1>1, <1>8
  <2>2. i # 0 => s # Nowhere /\ s.to = to
    BY <1>2, <1>3, <1>8, PinnedChoice DEF IsFirst
  <2> HIDE DEF s, to
  <2> QED BY <1>3, <2>1, <2>2 DEF s, to
<1>9. CASE ~Pinned(w, b)
  <2> DEFINE at == Boundary(w, b)
  <2>1. BuiltFile(w, w.final, b) = IF h = 0 THEN Nowhere ELSE P[h].path
    BY <1>1, <1>9
  <2>2. \A j \in 1..m : \A x \in ChosenBy(w, b, j) : x # Nowhere /\ x.to = P[j].path
    BY <1>2, <1>9, FreeChoice
  <2>3. i # 0 => s # Nowhere /\ s.to = P[i].path
    BY <1>3, <2>2 DEF IsFirst
  <2>4. \A j \in 1..m : (at = 0 \/ j <= at) /\ (j < m \/ to = Nowhere \/ j = at)
                         => (j \in Choosing(w, b) <=> j \in There)
    <3>1. \A j \in 1..m : (at = 0 \/ j <= at) /\ (j < m \/ to = Nowhere \/ j = at)
                         => (ChosenBy(w, b, j) # {} <=> IsThere(w, w.final, P[j]))
      BY <1>2, <1>9, FreeChoice
    <3>2. \A j \in 1..m : j \in 1..n
      BY <1>4
    <3> HIDE DEF There, P, n, to, at
    <3> QED BY <1>6, <1>7, <3>1, <3>2
  <2>5. at = 0 \/ (at \in 1..m /\ at \in There)
    <3>1. at = 0 \/ (at \in 1..m /\ at \in UnderTrees(w, b))
      BY <1>2, BoundaryIs DEF IsFirst
    <3> HIDE DEF at
    <3> QED BY <3>1 DEF UnderTrees, UnderTree, IsThere
  <2>6. to # Nowhere => m \in 1..n /\ m \in There /\ to = P[m].path
    BY <1>2, <1>4 DEF AreCandidates, OnDisk, IsThere
  <2>7. to = Nowhere => m = n
    BY <1>2 DEF AreCandidates
  <2> HIDE DEF There, P, n, to, h, s, at
  <2>8. CASE at # 0
    <3>1. at \in Choosing(w, b) /\ \A j \in 1..at : j \in Choosing(w, b) <=> j \in There
      BY <1>4, <2>4, <2>5, <2>8
    <3>2. i # 0 /\ i = h
      BY <1>3, <1>4, <1>5, <2>5, <2>8, <3>1 DEF IsFirst
    <3> QED BY <2>1, <2>3, <3>2 DEF s
  <2>9. CASE at = 0 /\ to = Nowhere
    <3>1. i = h
      BY <1>3, <1>4, <1>5, <2>4, <2>7, <2>9 DEF IsFirst
    <3> QED BY <1>3, <2>1, <2>3, <2>9, <3>1 DEF s, to
  <2>10. CASE at = 0 /\ to # Nowhere
    <3>1. h # 0 /\ h \in 1..m /\ (i = h \/ (i = 0 /\ h = m))
      BY <1>3, <1>4, <1>5, <2>4, <2>6, <2>10 DEF IsFirst
    <3> QED BY <1>3, <2>1, <2>3, <2>6, <2>10, <3>1 DEF s, to
  <2> QED BY <2>8, <2>9, <2>10
<1> QED BY <1>8, <1>9

\* What the compiler finds that is no output, it found without the outputs.
LEMMA BuiltOrListed ==
  ASSUME NEW w, World(w), NEW b \in w.blocks
  PROVE  LET f == BuiltFile(w, w.final, b)
         IN  f # Nowhere => /\ f \in Located
                            /\ ~Generated(w.final, f, TRUE) => f = Outcome(b, w.disk)
<1> DEFINE P == b.probes
           n == Len(P)
           to == Outcome(b, w.disk)
           There == {j \in DOMAIN P : IsThere(w, w.final, P[j])}
           h == FirstProbe(P, There)
           f == BuiltFile(w, w.final, b)
<1>1. f = IF Pinned(w, b) THEN to ELSE IF h = 0 THEN Nowhere ELSE P[h].path
  BY DEF BuiltFile, Pinned
<1>2. n \in Nat /\ DOMAIN P = 1..n /\ \A j \in 1..n : P[j].path \in Located
  BY BlockIs
<1>3. IsFirst(h, n, There)
  <2> HIDE DEF There, P, n
  <2> QED BY <1>2, FirstProbeIs DEF IsFirst
<1>4. \/ to = Nowhere /\ \A j \in 1..n : ~OnDisk(w, P[j])
      \/ \E o \in 1..n : to = P[o].path /\ OnDisk(w, P[o]) /\ \A j \in 1..n : OnDisk(w, P[j]) => o <= j
  BY OutcomeIs
<1>5. \A j \in 1..n : j \in There <=> IsThere(w, w.final, P[j])
  BY <1>2
<1> HIDE DEF There, h, P, n, to, f
<1>6. CASE Pinned(w, b)
  BY <1>1, <1>2, <1>4, <1>6 DEF f, Pinned, to
<1>7. CASE ~Pinned(w, b) /\ h # 0
  <2>1. h \in 1..n /\ f = P[h].path /\ h \in There
    BY <1>1, <1>3, <1>7 DEF IsFirst
  <2>2. ASSUME ~Generated(w.final, f, TRUE) PROVE f = to
    <3>1. OnDisk(w, P[h])
      BY <1>5, <2>1, <2>2 DEF IsThere, Generated, OnDisk
    <3>2. \A j \in 1..n : OnDisk(w, P[j]) => j \in There
      BY <1>5 DEF OnDisk, IsThere
    <3>3. PICK o \in 1..n : to = P[o].path /\ OnDisk(w, P[o]) /\ \A j \in 1..n : OnDisk(w, P[j]) => o <= j
      BY <1>4, <2>1, <3>1
    <3>4. o = h
      BY <1>2, <1>3, <2>1, <3>1, <3>2, <3>3 DEF IsFirst
    <3> QED BY <2>1, <3>3, <3>4
  <2> QED BY <1>2, <2>1, <2>2 DEF f, to
<1>8. CASE ~Pinned(w, b) /\ h = 0
  BY <1>1, <1>8 DEF f
<1> QED BY <1>6, <1>7, <1>8

\* The edges before the selection, after it and with the outputs.
Traced(w) ==
    {Edge(b, Outcome(b, w.disk)) : b \in {c \in w.blocks : Outcome(c, w.disk) # Nowhere}} \cup w.links
TracedFiles(w) == ReachedBy(w.roots \cup {Config}, Traced(w), {})
BuiltEdges(w) ==
    {Edge(b, BuiltFile(w, w.final, b)) :
       b \in {c \in w.blocks : BuiltFile(w, w.final, c) # Nowhere}} \cup w.links
BuiltOutputs(w) == {f \in FirstParties : Generated(w.final, f, TRUE)}
BuiltStarts(w) ==
    w.roots \cup w.retained \cup {e.to : e \in {d \in BuiltEdges(w) : d.from = Config /\ d.type}}
BuiltFiles(w) == ReachedBy(BuiltStarts(w), BuiltEdges(w), BuiltOutputs(w))
OfferedEdges(w) ==
    LET p == CompilerListing(w)
    IN  KeptEdges(w, w.final, p)
          \cup {Edge(s[1], s[2].to) :
                  s \in {c \in {<<b, Selection(w, w.final, b)>> : b \in p.blocks} : c[2] # Nowhere}}
OfferedStarts(w) ==
    Starts(w, CompilerListing(w), KeptEdges(w, w.final, CompilerListing(w)), OfferedEdges(w))
OfferedFiles(w) == ReachedBy(OfferedStarts(w), OfferedEdges(w), BuiltOutputs(w))

LEMMA ListingBefore ==
  ASSUME NEW w
  PROVE  /\ CompilerListing(w).files = TracedFiles(w) \ {Config}
         /\ CompilerListing(w).roots = w.roots
         /\ CompilerListing(w).edges = {e \in Traced(w) : e.from \in TracedFiles(w)}
         /\ CompilerListing(w).blocks = {b \in w.blocks : b.from \in TracedFiles(w)}
<1> DEFINE files == ReachedBy(w.roots \cup {Config}, Traced(w), {})
           L == [files |-> files \ {Config}, roots |-> w.roots,
                 edges |-> {e \in Traced(w) : e.from \in files},
                 blocks |-> {b \in w.blocks : b.from \in files}]
<1>1. CompilerListing(w) = L
  BY DEF CompilerListing, Traced
<1>2. files = TracedFiles(w)
  BY DEF TracedFiles
<1> HIDE DEF files
<1> QED BY <1>1, <1>2

LEMMA SelectedIs ==
  ASSUME NEW w
  PROVE  /\ SelectInput(w).files = CompilerListing(w).files \cap OfferedFiles(w)
         /\ SelectInput(w).edges = {e \in OfferedEdges(w) : e.from \in OfferedFiles(w)}
         /\ BuiltListing(w, w.final).files = BuiltFiles(w)
         /\ BuiltListing(w, w.final).edges = {e \in BuiltEdges(w) : e.from \in BuiltFiles(w)}
<1> DEFINE p == CompilerListing(w)
<1>1. SelectInput(w) = Restricted(p, OfferedEdges(w), OfferedFiles(w))
  BY DEF SelectInput, Select, SelectEdges, OfferedEdges, OfferedStarts, OfferedFiles, BuiltOutputs
<1>2. BuiltListing(w, w.final) =
        [files |-> BuiltFiles(w), edges |-> {e \in BuiltEdges(w) : e.from \in BuiltFiles(w)}]
  BY DEF BuiltListing, BuiltEdges, BuiltStarts, BuiltFiles, BuiltOutputs
<1> HIDE DEF p
<1> QED BY <1>1, <1>2 DEF Restricted, p

\* An edge of a block.
LEMMA BlockEdge ==
  ASSUME NEW b, NEW f
  PROVE  /\ Edge(b, f).from = b.from /\ Edge(b, f).to = f
         /\ Edge(b, f).spec = b.spec /\ Edge(b, f).type = b.type
BY DEF Edge

LEMMA EdgesLead ==
  ASSUME NEW w, World(w)
  PROVE  /\ \A e \in Traced(w) \cup BuiltEdges(w) :
              e.to \in Located /\ e.from \in Located \cup {Config} /\ (e.from = Config => e.type = TRUE)
         /\ \A e \in BuiltEdges(w) : e.to \in BuiltOutputs(w) \/ e \in Traced(w)
<1>1. \A b \in w.blocks : b.from \in Located \cup {Config} /\ (b.from = Config => b.type = TRUE)
  BY DEF World
<1>2. \A e \in w.links : e.to \in Located /\ e.from \in Located /\ e.from # Config
  BY DEF World
<1>3. \A b \in w.blocks : Outcome(b, w.disk) # Nowhere => Outcome(b, w.disk) \in Located
  <2> TAKE b \in w.blocks
  <2>1. \A j \in 1..Len(b.probes) : b.probes[j].path \in Located
    BY BlockIs
  <2> QED BY <2>1, OutcomeIs
<1>4. ASSUME NEW e \in Traced(w)
      PROVE  e.to \in Located /\ e.from \in Located \cup {Config} /\ (e.from = Config => e.type = TRUE)
  <2>1. e \in w.links \/ \E b \in w.blocks : Outcome(b, w.disk) # Nowhere /\ e = Edge(b, Outcome(b, w.disk))
    BY DEF Traced
  <2> QED BY <1>1, <1>2, <1>3, <2>1, BlockEdge
<1>5. ASSUME NEW e \in BuiltEdges(w)
      PROVE  /\ e.to \in Located /\ e.from \in Located \cup {Config} /\ (e.from = Config => e.type = TRUE)
             /\ e.to \in BuiltOutputs(w) \/ e \in Traced(w)
  <2>1. e \in w.links \/ \E b \in w.blocks :
            BuiltFile(w, w.final, b) # Nowhere /\ e = Edge(b, BuiltFile(w, w.final, b))
    BY DEF BuiltEdges
  <2>2. CASE e \in w.links
    BY <1>2, <2>2 DEF Traced
  <2>3. CASE \E b \in w.blocks : BuiltFile(w, w.final, b) # Nowhere /\ e = Edge(b, BuiltFile(w, w.final, b))
    <3>1. PICK b \in w.blocks : BuiltFile(w, w.final, b) # Nowhere /\ e = Edge(b, BuiltFile(w, w.final, b))
      BY <2>3
    <3>2. e.to = BuiltFile(w, w.final, b) /\ e.from = b.from /\ e.type = b.type
      BY <3>1, BlockEdge
    <3>3. e.to \in Located /\ (~Generated(w.final, e.to, TRUE) => e.to = Outcome(b, w.disk))
      BY <3>1, <3>2, BuiltOrListed
    <3>4. e.to \in BuiltOutputs(w) \/ e.to = Outcome(b, w.disk)
      BY <3>3 DEF BuiltOutputs, Generated
    <3>5. e.to = Outcome(b, w.disk) => e \in Traced(w)
      BY <3>1, <3>2 DEF Traced
    <3> QED BY <1>1, <3>2, <3>3, <3>4, <3>5
  <2> QED BY <2>1, <2>2, <2>3
<1> QED BY <1>4, <1>5

\* What is selected was looked for.
LEMMA SelectionIsFound ==
  ASSUME NEW w, World(w), NEW b \in w.blocks, Selection(w, w.final, b) # Nowhere
  PROVE  BuiltFile(w, w.final, b) # Nowhere
<1>1. PICK m \in Nat : AreCandidates(w, b, m)
  BY CandidatesAre
<1>2. PICK i \in 1..m : Selection(w, w.final, b) \in ChosenBy(w, b, i)
  BY <1>1, SelectionIsFirst DEF IsFirst
<1>3. \A j \in 1..m : b.probes[j].path # Nowhere
  <2>1. \A j \in 1..m : j \in 1..Len(b.probes)
    BY <1>1, BlockIs DEF AreCandidates
  <2> QED BY <2>1, BlockIs
<1>4. Selection(w, w.final, b).to # Nowhere
  BY <1>1, <1>2, <1>3, PinnedChoice, FreeChoice DEF Pinned
<1> QED BY <1>4, BlockSelected

\* What the selection offers is what the compiler finds from what was listed.
LEMMA OfferedAreBuilt ==
  ASSUME NEW w, World(w)
  PROVE  OfferedEdges(w) = {e \in BuiltEdges(w) : e.from \in TracedFiles(w)}
<1> DEFINE p == CompilerListing(w)
           k == w.final
<1>1. /\ p.edges = {e \in Traced(w) : e.from \in TracedFiles(w)}
      /\ p.blocks = {b \in w.blocks : b.from \in TracedFiles(w)}
  BY ListingBefore
<1> HIDE DEF p
<1>2. \A e : e \in OfferedEdges(w) <=>
             \/ e \in p.edges /\ ~Replaced(w, k, p, e)
             \/ \E b \in p.blocks : Selection(w, k, b) # Nowhere /\ e = Edge(b, Selection(w, k, b).to)
  <2> TAKE e
  <2> DEFINE All == {<<b, Selection(w, k, b)>> : b \in p.blocks}
             Some == {c \in All : c[2] # Nowhere}
             Taking == {Edge(s[1], s[2].to) : s \in Some}
  <2>1. OfferedEdges(w) = KeptEdges(w, k, p) \cup Taking
    BY DEF OfferedEdges, p
  <2>2. e \in KeptEdges(w, k, p) <=> e \in p.edges /\ ~Replaced(w, k, p, e)
    BY DEF KeptEdges
  <2>3. \A s : s \in All <=> \E b \in p.blocks : s = <<b, Selection(w, k, b)>>
    OBVIOUS
  <2> HIDE DEF All
  <2>4. \A s : s \in Some <=> \E b \in p.blocks : s = <<b, Selection(w, k, b)>> /\ Selection(w, k, b) # Nowhere
    BY <2>3
  <2>5. e \in Taking <=> \E s \in Some : e = Edge(s[1], s[2].to)
    OBVIOUS
  <2> HIDE DEF Some, Taking
  <2>6. e \in Taking <=> \E b \in p.blocks : Selection(w, k, b) # Nowhere /\ e = Edge(b, Selection(w, k, b).to)
    <3>1. ASSUME e \in Taking
          PROVE  \E b \in p.blocks : Selection(w, k, b) # Nowhere /\ e = Edge(b, Selection(w, k, b).to)
      BY <2>4, <2>5, <3>1
    <3>2. ASSUME NEW b \in p.blocks, Selection(w, k, b) # Nowhere, e = Edge(b, Selection(w, k, b).to)
          PROVE  e \in Taking
      <4>1. <<b, Selection(w, k, b)>> \in Some
        BY <2>4, <3>2
      <4> QED BY <2>5, <3>2, <4>1
    <3> QED BY <3>1, <3>2
  <2> QED BY <2>1, <2>2, <2>6
<1>3. \A e : e \in BuiltEdges(w) <=>
             \/ e \in w.links
             \/ \E b \in w.blocks : BuiltFile(w, k, b) # Nowhere /\ e = Edge(b, BuiltFile(w, k, b))
  BY DEF BuiltEdges
<1>4. \A e : e \in Traced(w) <=>
             \/ e \in w.links
             \/ \E b \in w.blocks : Outcome(b, w.disk) # Nowhere /\ e = Edge(b, Outcome(b, w.disk))
  BY DEF Traced
<1>5. ASSUME NEW e, e \in OfferedEdges(w) PROVE e \in BuiltEdges(w) /\ e.from \in TracedFiles(w)
  <2>1. CASE e \in p.edges /\ ~Replaced(w, k, p, e)
    <3>1. e \in Traced(w) /\ e.from \in TracedFiles(w)
      BY <1>1, <2>1
    <3>2. CASE e \in w.links
      BY <1>3, <3>1, <3>2
    <3>3. CASE e \notin w.links
      <4>1. PICK b \in w.blocks : Outcome(b, w.disk) # Nowhere /\ e = Edge(b, Outcome(b, w.disk))
        BY <1>4, <3>1, <3>3
      <4>2. b \in Matching(w, p, e)
        BY <1>1, <3>1, <4>1, BlockEdge DEF Matching
      <4>3. PICK c \in Matching(w, p, e) : Selection(w, k, c) = Nowhere
        BY <2>1, <4>2 DEF Replaced
      <4>4. c \in w.blocks /\ Outcome(c, w.disk) = Outcome(b, w.disk) /\ c.from = b.from
            /\ c.spec = b.spec /\ c.type = b.type
        BY <1>1, <4>1, <4>3, BlockEdge DEF Matching
      <4>5. BuiltFile(w, k, c) = Outcome(c, w.disk)
        BY <4>3, <4>4, BlockSelected
      <4>6. e = Edge(c, BuiltFile(w, k, c)) /\ BuiltFile(w, k, c) # Nowhere
        BY <4>1, <4>4, <4>5 DEF Edge
      <4> QED BY <1>3, <3>1, <4>4, <4>6
    <3> QED BY <3>2, <3>3
  <2>2. CASE \E b \in p.blocks : Selection(w, k, b) # Nowhere /\ e = Edge(b, Selection(w, k, b).to)
    <3>1. PICK b \in p.blocks : Selection(w, k, b) # Nowhere /\ e = Edge(b, Selection(w, k, b).to)
      BY <2>2
    <3>2. b \in w.blocks /\ b.from \in TracedFiles(w)
      BY <1>1
    <3>3. Selection(w, k, b).to = BuiltFile(w, k, b)
      BY <3>1, <3>2, BlockSelected
    <3>4. BuiltFile(w, k, b) # Nowhere
      BY <3>1, <3>2, <3>3, SelectionIsFound
    <3> QED BY <1>3, <3>1, <3>2, <3>3, <3>4, BlockEdge
  <2> QED BY <1>2, <1>5, <2>1, <2>2
<1>6. ASSUME NEW e, e \in BuiltEdges(w), e.from \in TracedFiles(w) PROVE e \in OfferedEdges(w)
  <2>1. CASE e \in w.links
    <3>1. e \in p.edges
      BY <1>1, <1>4, <1>6, <2>1
    <3>2. \A b \in w.blocks : ~ (b.from = e.from /\ b.spec = e.spec /\ b.type = e.type)
      BY <2>1 DEF World
    <3>3. Matching(w, p, e) = {}
      BY <1>1, <3>2 DEF Matching
    <3> QED BY <1>2, <3>1, <3>3 DEF Replaced
  <2>2. CASE \E b \in w.blocks : BuiltFile(w, k, b) # Nowhere /\ e = Edge(b, BuiltFile(w, k, b))
    <3>1. PICK b \in w.blocks : BuiltFile(w, k, b) # Nowhere /\ e = Edge(b, BuiltFile(w, k, b))
      BY <2>2
    <3>2. b \in p.blocks
      BY <1>1, <1>6, <3>1, BlockEdge
    <3>3. CASE Selection(w, k, b) # Nowhere
      BY <1>2, <3>1, <3>2, <3>3, BlockSelected
    <3>4. CASE Selection(w, k, b) = Nowhere
      <4>1. BuiltFile(w, k, b) = Outcome(b, w.disk)
        BY <3>1, <3>4, BlockSelected
      <4>2. e \in p.edges
        BY <1>1, <1>4, <1>6, <3>1, <4>1
      <4>3. b \in Matching(w, p, e)
        BY <3>1, <3>2, <4>1, BlockEdge DEF Matching
      <4> QED BY <1>2, <3>4, <4>2, <4>3 DEF Replaced
    <3> QED BY <3>3, <3>4
  <2> QED BY <1>3, <1>6, <2>1, <2>2
<1> QED BY <1>5, <1>6

-----------------------------------------------------------------------------
(* selectProgram (gazelle/owner.go): from a listing of the compiler's made    *)
(* while no output was there, the selection has the files, and the imports of *)
(* each, that the compiler would list with every output there.                *)
LEMMA WorldIsTheCompilers ==
  ASSUME NEW w, World(w)
  PROVE  IsTheCompilers(w)
<1> DEFINE F == TracedFiles(w)
           O == BuiltOutputs(w)
           R == BuiltFiles(w)
           S == OfferedFiles(w)
           E == OfferedEdges(w)
           B == BuiltEdges(w)
           V == Located \cup {Config}
<1>1. /\ Config \notin Located /\ w.roots \subseteq Located /\ w.retained \subseteq F \ {Config}
      /\ O \subseteq Located
  <2>1. Config \notin Located /\ w.roots \subseteq Located /\ w.retained \subseteq CompilerListing(w).files
    BY DEF World
  <2>2. w.retained \subseteq F \ {Config}
    <3> HIDE DEF F
    <3> QED BY <2>1, ListingBefore DEF F
  <2>3. O \subseteq Located
    BY DEF BuiltOutputs, Located
  <2> QED BY <2>1, <2>2, <2>3
<1>2. E = {e \in B : e.from \in F}
  BY OfferedAreBuilt
<1>3. \A e \in B : /\ e.to \in Located /\ e.from \in V /\ (e.from = Config => e.type = TRUE)
                   /\ e.to \in O \/ e \in Traced(w)
  BY EdgesLead
<1>4. /\ w.roots \cup {Config} \subseteq F /\ F \subseteq V
      /\ \A e \in Traced(w) : e.from \in F => e.to \in F
  <2> DEFINE starts == w.roots \cup {Config}
  <2>1. starts \in SUBSET V /\ \A e \in Traced(w) : e.to \in V
    BY <1>1, EdgesLead
  <2> HIDE DEF starts
  <2>2. /\ starts \ {} \subseteq ReachedBy(starts, Traced(w), {})
        /\ ReachedBy(starts, Traced(w), {}) \subseteq V
        /\ \A e \in Traced(w) : e.from \in ReachedBy(starts, Traced(w), {}) /\ e.to \notin {}
                                   => e.to \in ReachedBy(starts, Traced(w), {})
    BY <2>1, ReachedIs
  <2>3. F = ReachedBy(starts, Traced(w), {})
    BY DEF TracedFiles, starts
  <2>4. starts \subseteq F /\ F \subseteq V /\ \A e \in Traced(w) : e.from \in F => e.to \in F
    BY <2>2, <2>3
  <2> QED BY <2>4 DEF starts
<1>5. /\ BuiltStarts(w) \in SUBSET V /\ Config \notin BuiltStarts(w)
      /\ \A e \in B : e.from = Config => e.to \in BuiltStarts(w)
      /\ \A f \in BuiltStarts(w) :
            f \in w.roots \cup w.retained \/ \E e \in B : e.from = Config /\ f = e.to
  BY <1>1, <1>3, <1>4 DEF BuiltStarts
<1>6. /\ BuiltStarts(w) \ O \subseteq R /\ R \subseteq V
      /\ \A e \in B : e.from \in R /\ e.to \notin O => e.to \in R
      /\ \A X \in SUBSET V : BuiltStarts(w) \ O \subseteq X /\ (\A e \in B : e.from \in X /\ e.to \notin O => e.to \in X)
                               => R \subseteq X
  <2>1. \A e \in B : e.to \in V
    BY <1>3
  <2> HIDE DEF B, O
  <2>2. R = ReachedBy(BuiltStarts(w), B, O)
    BY DEF BuiltFiles, B, O
  <2> HIDE DEF R
  <2> QED BY <1>5, <2>1, <2>2, ReachedIs
<1>7. \A f : f \in OfferedStarts(w) <=>
               \/ f \in w.roots \cup w.retained
               \/ f = Config /\ \E e \in E : e.from = Config
               \/ \E e \in KeptEdges(w, w.final, CompilerListing(w)) : e.from = Config /\ f = e.to
  BY <1>1, <1>2, <1>3, ListingBefore DEF OfferedStarts, Starts, OfferedEdges
<1>8. \A e \in KeptEdges(w, w.final, CompilerListing(w)) : e \in E
  BY DEF OfferedEdges
<1>9. OfferedStarts(w) \in SUBSET V
  BY <1>1, <1>2, <1>3, <1>4, <1>7, <1>8
<1>10. /\ OfferedStarts(w) \ O \subseteq S /\ S \subseteq V
       /\ \A e \in E : e.from \in S /\ e.to \notin O => e.to \in S
       /\ \A X \in SUBSET V : OfferedStarts(w) \ O \subseteq X /\ (\A e \in E : e.from \in X /\ e.to \notin O => e.to \in X)
                                => S \subseteq X
  <2>1. \A e \in E : e.to \in V
    BY <1>2, <1>3
  <2> HIDE DEF E, O
  <2>2. S = ReachedBy(OfferedStarts(w), E, O)
    BY DEF OfferedFiles, E, O
  <2> HIDE DEF S
  <2> QED BY <1>9, <2>1, <2>2, ReachedIs
<1> HIDE DEF F, O, R, S, E, B, V
<1>11. R \subseteq F \ {Config}
  <2>1. BuiltStarts(w) \ O \subseteq F \ {Config}
    <3>1. ASSUME NEW f \in BuiltStarts(w), f \notin O PROVE f \in F
      <4>1. CASE f \in w.roots \cup w.retained
        BY <1>1, <1>4, <4>1
      <4>2. CASE \E e \in B : e.from = Config /\ f = e.to
        BY <1>3, <1>4, <3>1, <4>2
      <4> QED BY <1>5, <3>1, <4>1, <4>2
    <3> QED BY <1>5, <3>1
  <2>2. \A e \in B : e.from \in F \ {Config} /\ e.to \notin O => e.to \in F \ {Config}
    BY <1>1, <1>3, <1>4
  <2>3. F \ {Config} \in SUBSET V
    BY <1>4
  <2> QED BY <1>6, <2>1, <2>2, <2>3
<1>12. R \subseteq S
  <2>1. BuiltStarts(w) \ O \subseteq S \cap F
    <3>1. ASSUME NEW f \in BuiltStarts(w), f \notin O PROVE f \in S /\ f \in F
      <4>0. f \in F
        BY <1>6, <1>11, <3>1
      <4>1. CASE f \in w.roots \cup w.retained
        BY <1>7, <1>10, <3>1, <4>0, <4>1
      <4>2. CASE \E e \in B : e.from = Config /\ f = e.to
        <5>1. PICK e \in B : e.from = Config /\ f = e.to
          BY <4>2
        <5>2. e \in E
          BY <1>2, <1>4, <5>1
        <5>3. Config \in S
          BY <1>1, <1>7, <1>10, <5>1, <5>2
        <5> QED BY <1>10, <3>1, <4>0, <5>1, <5>2, <5>3
      <4> QED BY <1>5, <3>1, <4>1, <4>2
    <3> QED BY <3>1
  <2>2. \A e \in B : e.from \in S \cap F /\ e.to \notin O => e.to \in S \cap F
    BY <1>2, <1>3, <1>4, <1>10
  <2>3. S \cap F \in SUBSET V
    BY <1>4
  <2> QED BY <1>6, <2>1, <2>2, <2>3
<1>13. S \subseteq R \cup {Config}
  <2>1. OfferedStarts(w) \ O \subseteq R \cup {Config}
    <3>1. ASSUME NEW f \in OfferedStarts(w), f # Config PROVE f \in BuiltStarts(w)
      BY <1>2, <1>5, <1>7, <1>8, <3>1 DEF BuiltStarts
    <3> QED BY <1>6, <3>1
  <2>2. \A e \in E : e.from \in R \cup {Config} /\ e.to \notin O => e.to \in R \cup {Config}
    BY <1>2, <1>5, <1>6
  <2>3. R \cup {Config} \in SUBSET V
    BY <1>6 DEF V
  <2> QED BY <1>10, <2>1, <2>2, <2>3
<1>14. CompilerListing(w).files \cap S = R
  BY <1>11, <1>12, <1>13, ListingBefore DEF F
<1>15. {e \in E : e.from \in S /\ e.from # Config} = {e \in B : e.from \in R}
  BY <1>2, <1>11, <1>12, <1>13
<1> QED BY <1>14, <1>15, SelectedIs DEF IsTheCompilers, Agree, E, S, R, B

\* So in every run (owner.go): a program selected without its outputs is the one
\* the compiler lists with them.
THEOREM ProgramsAreTheCompilers ==
  ASSUME world # Nowhere => World(world)
  PROVE  SelectionIsTheCompilers
BY WorldIsTheCompilers DEF SelectionIsTheCompilers

-----------------------------------------------------------------------------
(* What a rule needs when it is written.                                    *)

\* One step along edges.
Onto(edges, S) == S \cup {e.to : e \in {d \in edges : d.from \in S}}

\* What edges lead to is reached in as many steps as there are elements.
LEMMA LedSteps ==
  ASSUME NEW U, NEW starts \in SUBSET U, NEW edges, \A e \in edges : e.to \in U
  PROVE  \E g : /\ LedTo(U, starts, edges) = g[Cardinality(U)] /\ g[0] = starts
                /\ \A n \in Nat : g[n + 1] = Onto(edges, g[n])
<1> DEFINE step(S) == S \cup {e.to : e \in {d \in edges : d.from \in S}}
           Def(g) == [n \in Nat |-> IF n = 0 THEN starts ELSE step(g[n - 1])]
           led == CHOOSE g : g = Def(g)
           P == SUBSET U
<1>1. LedTo(U, starts, edges) = led[Cardinality(U)]
  BY DEF LedTo
<1>2. PICK F \in [P -> P] : \A X \in P : F[X] = step(X)
  <2>1. \A X \in P : step(X) \in P
    OBVIOUS
  <2>2. [S \in P |-> step(S)] \in [P -> P]
    <3> HIDE DEF step
    <3> QED BY <2>1
  <2> HIDE DEF step
  <2> QED BY <2>2
<1>3. led = Def(led)
  <2>1. PICK g \in [Nat -> P] : \A n \in Nat : g[n] = IF n = 0 THEN starts ELSE F[g[n - 1]]
    <3>1. starts \in P
      OBVIOUS
    <3> HIDE DEF step, P
    <3> QED BY <3>1, Iterated
  <2>2. \A n \in Nat : n # 0 => n - 1 \in Nat /\ g[n - 1] \in P
    OBVIOUS
  <2>3. g = Def(g)
    <3> HIDE DEF step
    <3> QED BY <2>1, <2>2, <1>2
  <2> HIDE DEF Def
  <2> QED BY <2>3
<1>4. led[0] = starts /\ \A n \in Nat : led[n + 1] = step(led[n])
  <2>1. \A n \in Nat : n + 1 \in Nat /\ n + 1 # 0 /\ n + 1 - 1 = n
    OBVIOUS
  <2> HIDE DEF led
  <2>2. \A n \in Nat : led[n] = IF n = 0 THEN starts ELSE step(led[n - 1])
    <3> HIDE DEF step
    <3> QED BY <1>3
  <2>3. \A n \in Nat : led[n + 1] = step(led[n])
    <3> HIDE DEF step
    <3> QED BY <2>1, <2>2
  <2>4. led[0] = starts
    BY <2>2
  <2> QED BY <2>3, <2>4
<1> HIDE DEF led
<1>5. \A n \in Nat : led[n + 1] = Onto(edges, led[n])
  BY <1>4 DEF Onto
<1> QED BY <1>1, <1>4, <1>5

\* It is the least set that holds the starts and is closed.
LEMMA LedIs ==
  ASSUME NEW U, IsFiniteSet(U), NEW starts \in SUBSET U, NEW edges, \A e \in edges : e.to \in U
  PROVE  /\ starts \subseteq LedTo(U, starts, edges) /\ LedTo(U, starts, edges) \subseteq U
         /\ \A e \in edges : e.from \in LedTo(U, starts, edges) => e.to \in LedTo(U, starts, edges)
         /\ \A S \in SUBSET U :
              starts \subseteq S /\ (\A e \in edges : e.from \in S => e.to \in S)
                => LedTo(U, starts, edges) \subseteq S
<1> DEFINE step(S) == S \cup {e.to : e \in {d \in edges : d.from \in S}}
           P == SUBSET U
           R == LedTo(U, starts, edges)
<1>1. PICK g : /\ R = g[Cardinality(U)] /\ g[0] = starts
               /\ \A n \in Nat : g[n + 1] = Onto(edges, g[n])
  BY LedSteps
<1>2. PICK F \in [P -> P] : \A X \in P : F[X] = step(X)
  <2>1. \A X \in P : step(X) \in P
    OBVIOUS
  <2>2. [S \in P |-> step(S)] \in [P -> P]
    <3> HIDE DEF step
    <3> QED BY <2>1
  <2> HIDE DEF step
  <2> QED BY <2>2
<1> HIDE DEF R
<1>3. Climbs(U, starts, F, g)
  <2>1. \A X \in P : X \subseteq F[X]
    BY <1>2
  <2>2. \A n \in Nat : g[n] \in P => g[n + 1] = F[g[n]]
    <3>1. \A S : Onto(edges, S) = step(S)
      BY DEF Onto
    <3> HIDE DEF step
    <3> QED BY <1>1, <1>2, <3>1
  <2> HIDE DEF step
  <2> QED BY <1>1, <2>1, <2>2 DEF Climbs
<1>4. IsLeast(U, starts, F, R)
  <2> HIDE DEF step
  <2> QED BY <1>1, <1>3, Reaching
<1>5. R \in SUBSET U /\ starts \subseteq R /\ F[R] = R
  BY <1>4 DEF IsLeast
<1>6. \A e \in edges : e.from \in R => e.to \in R
  <2>1. R = step(R)
    <3> HIDE DEF step
    <3> QED BY <1>2, <1>5
  <2> QED BY <2>1
<1>7. ASSUME NEW S \in SUBSET U, starts \subseteq S, \A e \in edges : e.from \in S => e.to \in S
      PROVE  R \subseteq S
  <2>1. \A X \in SUBSET S : F[X] \subseteq S
    BY <1>2, <1>7
  <2> QED BY <1>4, <1>7, <2>1 DEF IsLeast
<1> QED BY <1>5, <1>6, <1>7 DEF R

LEMMA LeastNumber ==
  ASSUME NEW S \in SUBSET Nat, S # {}
  PROVE  \E m \in S : \A n \in S : m <= n
<1> DEFINE Less == {ss \in Nat \X Nat : ss[1] < ss[2]}
<1>1. IsWellFoundedOn(Less, Nat)
  BY NatLessThanWellFounded DEF OpToRel
<1>2. \E m \in S : \A n \in S : ~ (<<n, m>> \in Less)
  <2> HIDE DEF Less
  <2> QED BY <1>1, WFMin
<1>3. PICK m \in S : \A n \in S : ~ (n < m)
  BY <1>2
<1>4. \A n \in S : n \in Nat
  OBVIOUS
<1>5. \A n \in S : m <= n
  BY <1>3, <1>4
<1> QED BY <1>5

\* A file is held by the rule itself, by one other rule, or by nobody.
LEMMA HoldingIs ==
  ASSUME NEW x, Resolvable(x), NEW f
  PROVE  /\ \A k \in Holding(x, f) : /\ k \in Targets /\ Holding(x, f) = {k}
                                     /\ f \in SelectedRuleImports(x, k)
         /\ Holding(x, f) = {} => Holders(x, f, x.lists) = {}
<1>1. ASSUME NEW owners \in SUBSET Targets
      PROVE  /\ MineOrFirst(x, owners) \subseteq owners
             /\ \A k \in MineOrFirst(x, owners) : MineOrFirst(x, owners) = {k}
             /\ owners # {} => MineOrFirst(x, owners) # {}
  <2>1. owners \in SUBSET Nat
    BY DEF Resolvable
  <2>2. owners # {} => \E k \in owners : \A o \in owners : k <= o
    BY <2>1, LeastNumber
  <2>3. \A k, o \in owners : k <= o /\ o <= k => k = o
    BY <2>1
  <2> QED BY <2>2, <2>3 DEF MineOrFirst
<1>2. \A held : Holders(x, f, held) \in SUBSET Targets
  BY DEF Holders
<1>3. \A held : \A k \in Holders(x, f, held) : f \in SelectedRuleImports(x, k)
  BY DEF Holders
<1> QED BY <1>1, <1>2, <1>3 DEF Holding

\* What a rule is expected to keep it will have, and the other way round.
LEMMA SelectedIsHad ==
  ASSUME NEW x, Resolvable(x), NEW k \in Targets, NEW f \in Files
  PROVE  f \in SelectedRuleImports(x, k) <=> Has(x, k, f)
<1>1. x.kept[k] \subseteq x.lists[k]
  BY DEF Resolvable
<1> SUFFICES ASSUME k \in x.managed, f \in x.lists[k], f \notin x.withheld, ~IsGenerated(x, f)
    PROVE  Inside(DirOf[f], x.home[k]) /\ Inside(x.home[k], Nearest(DirOf[f], x.packages \cup {Root}))
             <=> Nearest(DirOf[f], x.packages) = x.home[k]
  BY <1>1 DEF SelectedRuleImports, Has
<1> DEFINE d == DirOf[f]
           h == x.home[k]
           B == x.packages
           S == x.packages \cup {Root}
           near == Nearest(d, S)
<1>2. d \in Dirs /\ h \in B /\ B \in SUBSET Dirs /\ S \in SUBSET Dirs /\ B \in SUBSET S
      /\ None \notin Dirs /\ Root \in S
  BY TreeAssumption DEF Resolvable
<1> HIDE DEF d, h, B, S
<1>3. ASSUME h \in above[d], near \in above[h] PROVE Nearest(d, B) = h
  <2>1. S \cap above[d] # {} /\ h \in S \cap above[d]
    BY <1>2, <1>3
  <2>2. near \in S /\ h \in above[near]
    BY <1>2, <2>1, NearestIsFirst
  <2>3. near = h
    BY <1>2, <1>3, <2>2, LineAssumption
  <2> QED BY <1>2, <2>3, NearestWithin
<1>4. ASSUME Nearest(d, B) = h PROVE h \in above[d] /\ near \in above[h]
  <2>1. B \cap above[d] # {}
    BY <1>2, <1>4 DEF Nearest
  <2>2. h \in B \cap above[d] /\ \A o \in B \cap above[d] : o \in above[h]
    BY <1>2, <1>4, <2>1, NearestIsFirst
  <2>3. near \in S \cap above[d] /\ h \in above[near]
    BY <1>2, <2>1, <2>2, NearestIsFirst
  <2>4. near # Root => near \in B
    BY <2>3 DEF S, B
  <2>5. Root \in Dirs /\ h \in Dirs
    BY <1>2, TreeAssumption
  <2>6. above[Root] = {Root}
    BY <2>5, Ancestors
  <2>7. h \in above[h]
    BY <2>5, Ancestors
  <2> QED BY <2>2, <2>3, <2>4, <2>6, <2>7
<1>5. (h \in above[d] /\ near \in above[h]) <=> Nearest(d, B) = h
  BY <1>3, <1>4
<1> QED BY <1>5 DEF d, h, B, S, Inside

\* Who is asked for a file, by a directive or because he writes it.
LEMMA GeneratedDepIs ==
  ASSUME NEW x, Resolvable(x), NEW f \in Files
  PROVE  LET g == GeneratedDep(x, f)
         IN  /\ x.me \notin g.deps
             /\ g.given => HandsOn(x, x.me, f) \/ \E k \in g.deps : HandsOn(x, k, f)
             /\ ~g.given /\ x.producer[f] # None => Holders(x, f, x.lists) = {}
             /\ ~g.given /\ x.producer[f] = None => x.tree[f] = None
             /\ ~g.given /\ x.producer[f] = None /\ g.deps # {} =>
                  x.over[f] # None /\ g.deps = {x.over[f]}
             /\ ~IsGenerated(x, f) => ~g.given
<1> DEFINE g == GeneratedDep(x, f)
           over == x.over[f]
           k == x.producer[f]
<1>1. over # x.me /\ k \in Targets \cup {None} /\ x.tree[f] \in Targets \cup {None} /\ x.me \in Targets
      /\ None \notin Targets
  BY DEF Resolvable
<1>2. CASE over # None /\ IsAvailable(x, f)
  <2>1. g = [deps |-> {over}, given |-> IsGenerated(x, f)]
    BY <1>2 DEF GeneratedDep
  <2>2. g.deps = {over} /\ g.given = IsGenerated(x, f)
    BY <2>1
  <2>3. HandsOn(x, over, f)
    BY DEF HandsOn
  <2> HIDE DEF g, over
  <2>4. ~IsGenerated(x, f) <=> k = None /\ x.tree[f] = None
    BY DEF IsGenerated
  <2> QED BY <1>1, <1>2, <2>2, <2>3, <2>4 DEF g, over
<1>3. CASE ~(over # None /\ IsAvailable(x, f)) /\ k # None
  <2>1. g = Produced(x, f, k, Holding(x, f))
    BY <1>3 DEF GeneratedDep
  <2>2. CASE Holding(x, f) # {}
    <3>1. g = [deps |-> Holding(x, f) \ {x.me}, given |-> TRUE]
      BY <2>1, <2>2 DEF Produced
    <3>2. PICK o \in Holding(x, f) : TRUE
      BY <2>2
    <3>3. Has(x, o, f)
      BY <3>2, HoldingIs, SelectedIsHad
    <3> QED BY <1>3, <3>1, <3>2, <3>3 DEF HandsOn, IsGenerated
  <2>3. CASE Holding(x, f) = {} /\ (f \in Compilable \ DeclarationFiles \/ x.kind[k] # "codegen")
    <3>1. g = [deps |-> SourceProducer(x, k), given |-> FALSE]
      BY <2>1, <2>3 DEF Produced
    <3>2. x.me \notin SourceProducer(x, k)
      BY DEF SourceProducer, Dep
    <3> QED BY <1>3, <2>3, <3>1, <3>2, HoldingIs DEF IsGenerated
  <2>4. CASE Holding(x, f) = {} /\ ~(f \in Compilable \ DeclarationFiles \/ x.kind[k] # "codegen")
    <3>1. g = [deps |-> Dep(x, k), given |-> TRUE]
      BY <2>1, <2>4 DEF Produced
    <3> QED BY <1>3, <3>1 DEF Dep, HandsOn, IsGenerated
  <2> QED BY <2>2, <2>3, <2>4
<1>4. CASE ~(over # None /\ IsAvailable(x, f)) /\ k = None /\ x.tree[f] # None
  <2>1. g = [deps |-> Dep(x, x.tree[f]), given |-> TRUE]
    BY <1>4 DEF GeneratedDep
  <2> QED BY <1>4, <2>1 DEF Dep, HandsOn, IsGenerated
<1>5. CASE ~(over # None /\ IsAvailable(x, f)) /\ k = None /\ x.tree[f] = None
  <2>1. g = [deps |-> {}, given |-> FALSE]
    BY <1>5 DEF GeneratedDep
  <2> QED BY <1>5, <2>1
<1> QED BY <1>2, <1>3, <1>4, <1>5

\* The answers edgeDep is made of.
LEMMA FromOwnerIs ==
  ASSUME NEW x, NEW k, NEW f
  PROVE  LET a == FromOwner(x, k, f)
         IN  /\ a.deps = {k} /\ a.inputs = {} /\ a.source = ReadsSources(x, k, f)
BY DEF FromOwner, Nothing

LEMMA AsInputIs ==
  ASSUME NEW x, NEW f, NEW deps
  PROVE  LET a == AsInput(x, f, deps)
         IN  /\ a.deps \subseteq deps
             /\ a.inputs \subseteq {f} \cup x.twins /\ (a.inputs # {} => a.source)
             /\ ~a.fatal => f \in a.inputs \/ a.reported
<1>1. CASE f \in Compilable
  BY <1>1 DEF AsInput, Nothing
<1>2. CASE f \notin Compilable /\ f \in Refused
  BY <1>2 DEF AsInput, Nothing
<1>3. CASE f \notin Compilable /\ f \notin Refused
  BY <1>3 DEF AsInput, Nothing
<1> QED BY <1>1, <1>2, <1>3

\* An edge: its file is given by someone who has it, or it is nobody's.
Answered(x, e, a) ==
    /\ x.me \notin a.deps
    /\ ~a.fatal /\ e.to \in Ours =>
         \/ e.to \in a.inputs \/ a.reported \/ HandsOn(x, x.me, e.to)
         \/ \E k \in a.deps : HandsOn(x, k, e.to) \/ k = e.member
    /\ a.inputs \subseteq {e.to} \cup x.twins
    /\ a.inputs # {} => a.source /\ Holders(x, e.to, x.lists) = {}

LEMMA SourceDepIs ==
  ASSUME NEW x, Resolvable(x), NEW e \in x.edges, NEW deps, NEW member, member = (IF deps = {} THEN e.member ELSE None),
         deps = {} \/ (deps = {x.over[e.to]} /\ x.over[e.to] # None),
         NEW owner, owner = (IF deps # {} THEN deps ELSE Holding(x, e.to))
  PROVE  Answered(x, e, SourceDep(x, e.to, member, owner))
<1> DEFINE f == e.to
           a == SourceDep(x, f, member, owner)
<1>1. f \in Files /\ e.member # x.me /\ x.over[f] # x.me /\ None # x.me
  BY DEF Resolvable
<1>2. CASE ~IsAvailable(x, f)
  BY <1>2 DEF SourceDep, Nothing, Answered
<1>3. CASE IsAvailable(x, f) /\ member # None
  <2>1. a = FromOwner(x, member, f) /\ member = e.member
    BY <1>3 DEF SourceDep
  <2> QED BY <1>1, <2>1, FromOwnerIs DEF Answered
<1>4. CASE IsAvailable(x, f) /\ member = None /\ owner = {}
  <2>1. a = AsInput(x, f, {}) /\ Holding(x, f) = {}
    BY <1>4 DEF SourceDep
  <2>2. Holders(x, f, x.lists) = {}
    BY <2>1, HoldingIs
  <2> QED BY <2>1, <2>2, AsInputIs DEF Answered
<1>5. CASE IsAvailable(x, f) /\ member = None /\ owner # {}
  <2>1. PICK k \in owner : owner = {k} /\ (k = x.over[f] \/ (k \in Targets /\ f \in SelectedRuleImports(x, k)))
    BY <1>5, HoldingIs
  <2>2. HandsOn(x, k, f)
    BY <1>1, <2>1, SelectedIsHad DEF HandsOn
  <2>3. CASE k = x.me
    <3>1. a = [Nothing EXCEPT !.source = TRUE]
      BY <1>5, <2>1, <2>3 DEF SourceDep
    <3> QED BY <2>2, <2>3, <3>1 DEF Answered, Nothing
  <2>4. CASE k # x.me
    <3>1. a = FromOwner(x, k, f)
      BY <1>5, <2>1, <2>4 DEF SourceDep
    <3> QED BY <2>2, <2>4, <3>1, FromOwnerIs DEF Answered
  <2> QED BY <2>3, <2>4
<1> QED BY <1>2, <1>3, <1>4, <1>5

LEMMA EdgeDepIs ==
  ASSUME NEW x, Resolvable(x), NEW e \in x.edges
  PROVE  Answered(x, e, EdgeDep(x, e))
<1> DEFINE f == e.to
           g == GeneratedDep(x, f)
           a == EdgeDep(x, e)
<1>1. f \in Files
  BY DEF Resolvable
<1>2. CASE f \in Installed
  BY <1>2 DEF EdgeDep, Answered, Nothing, Ours
<1>3. CASE f \notin Installed /\ g.given
  <2>1. a = [Nothing EXCEPT !.deps = g.deps]
    BY <1>3 DEF EdgeDep, ImportDep
  <2>2. a.deps = g.deps /\ a.inputs = {}
    BY <2>1 DEF Nothing
  <2> QED BY <1>1, <1>3, <2>2, GeneratedDepIs DEF Answered
<1>4. CASE f \notin Installed /\ ~g.given /\ x.producer[f] # None
  <2>1. a = AsInput(x, f, g.deps)
    BY <1>4 DEF EdgeDep, ImportDep
  <2>2. x.me \notin g.deps /\ Holders(x, f, x.lists) = {}
    BY <1>1, <1>4, GeneratedDepIs
  <2> QED BY <2>1, <2>2, AsInputIs DEF Answered
<1>5. CASE f \notin Installed /\ ~g.given /\ x.producer[f] = None
  <2> DEFINE member == IF g.deps = {} THEN e.member ELSE None
             owner == IF g.deps # {} THEN g.deps ELSE Holding(x, f)
  <2>1. a = SourceDep(x, f, member, owner)
    BY <1>5 DEF EdgeDep, ImportDep
  <2>2. g.deps = {} \/ (g.deps = {x.over[f]} /\ x.over[f] # None)
    BY <1>1, <1>5, GeneratedDepIs
  <2>3. f = e.to /\ member = (IF g.deps = {} THEN e.member ELSE None)
        /\ owner = (IF g.deps # {} THEN g.deps ELSE Holding(x, f))
    OBVIOUS
  <2> HIDE DEF member, owner, g, f
  <2>4. Answered(x, e, SourceDep(x, f, member, owner))
    BY <2>2, <2>3, SourceDepIs
  <2> QED BY <2>1, <2>4
<1> QED BY <1>2, <1>3, <1>4, <1>5

\* What a dependency hands on in source is read in source.
LEMMA HandedIsSource ==
  ASSUME NEW x, Resolvable(x), NEW e \in x.edges, e.to \in Ours, ~IsGenerated(x, e.to), ~EdgeDep(x, e).fatal,
         NEW o, o # x.me, ReadsSources(x, o, e.to),
         o \in (IF e.member # None THEN {e.member} ELSE Holding(x, e.to))
  PROVE  EdgeDep(x, e).source
<1> DEFINE f == e.to
           g == GeneratedDep(x, f)
           over == x.over[f]
           member == IF g.deps = {} THEN e.member ELSE None
           owner == IF g.deps # {} THEN g.deps ELSE Holding(x, f)
<1>1. f \in Files /\ f \notin Installed /\ x.producer[f] = None
  BY DEF Resolvable, Ours, IsGenerated
<1>2. ~g.given /\ (g.deps # {} => over # None /\ g.deps = {over})
  BY <1>1, GeneratedDepIs
<1>3. EdgeDep(x, e) = SourceDep(x, f, member, owner)
  BY <1>1, <1>2 DEF EdgeDep, ImportDep
<1>4. IsAvailable(x, f)
  BY <1>3 DEF SourceDep, Nothing
<1>5. CASE g.deps # {}
  <2>1. member = None /\ owner = {over} /\ over # x.me /\ over # None
    BY <1>1, <1>2, <1>5 DEF Resolvable
  <2>2. EdgeDep(x, e) = FromOwner(x, over, f)
    BY <1>3, <1>4, <2>1 DEF SourceDep
  <2>3. Directed(x, e, over)
    BY <2>1 DEF Resolvable
  <2>4. ReadsSources(x, over, f)
    BY <2>3 DEF Directed
  <2> QED BY <2>2, <2>4, FromOwnerIs
<1>6. CASE g.deps = {} /\ e.member # None
  <2>1. EdgeDep(x, e) = FromOwner(x, o, f)
    BY <1>3, <1>4, <1>6 DEF SourceDep
  <2> QED BY <2>1, FromOwnerIs
<1>7. CASE g.deps = {} /\ e.member = None
  <2>1. owner = {o}
    BY <1>7, HoldingIs
  <2>2. EdgeDep(x, e) = FromOwner(x, o, f)
    BY <1>3, <1>4, <1>7, <2>1 DEF SourceDep
  <2> QED BY <2>2, FromOwnerIs
<1> QED BY <1>5, <1>6, <1>7

\* A module of the config is staged, whoever owns it.
LEMMA ConfigDepIs ==
  ASSUME NEW x, Resolvable(x), NEW e, e.to \in Files, e.member # x.me
  PROVE  LET a == ConfigDep(x, e)
         IN  /\ x.me \notin a.deps
             /\ /\ e.module /\ e.from \notin DeclarationFiles /\ e.to \in Ours \ DeclarationFiles
                /\ e.member = None /\ ~IsGenerated(x, e.to) /\ ~a.fatal
                => a.source /\ e.to \in a.inputs
<1> DEFINE f == e.to
           g == GeneratedDep(x, f)
           a == ConfigDep(x, e)
<1>1. x.me \notin g.deps /\ (~IsGenerated(x, f) => ~g.given)
  BY GeneratedDepIs
<1>2. CASE f \in Installed \/ ~e.module \/ e.from \in DeclarationFiles
  BY <1>2 DEF ConfigDep, Nothing, Ours
<1>3. CASE ~(f \in Installed \/ ~e.module \/ e.from \in DeclarationFiles)
  <2>1. a = ConfigImport(x, f, e.member, g)
    BY <1>3 DEF ConfigDep
  <2>2. CASE x.producer[f] # None
    <3>1. a = [Nothing EXCEPT !.deps = g.deps, !.inputs = {f} \ DeclarationFiles]
      BY <2>1, <2>2 DEF ConfigImport
    <3>2. a.deps = g.deps
      BY <3>1 DEF Nothing
    <3> QED BY <1>1, <2>2, <3>2 DEF IsGenerated
  <2>3. CASE x.producer[f] = None /\ g.given
    <3>1. a = [Nothing EXCEPT !.deps = g.deps]
      BY <2>1, <2>3 DEF ConfigImport
    <3>2. a.deps = g.deps
      BY <3>1 DEF Nothing
    <3> QED BY <1>1, <2>3, <3>2
  <2>4. CASE x.producer[f] = None /\ ~g.given /\ ~IsAvailable(x, f)
    <3>1. a = [Nothing EXCEPT !.fatal = TRUE]
      BY <2>1, <2>4 DEF ConfigImport
    <3>2. a.deps = {} /\ a.fatal
      BY <3>1 DEF Nothing
    <3> QED BY <3>2
  <2>5. CASE x.producer[f] = None /\ ~g.given /\ IsAvailable(x, f)
    <3> DEFINE deps == IF g.deps # {} THEN g.deps
                       ELSE IF e.member # None THEN {e.member} ELSE Holding(x, f) \ {x.me}
               inputs == IF e.member = None \/ g.deps # {} THEN {f} \ DeclarationFiles ELSE {}
    <3>1. a = [Nothing EXCEPT !.deps = deps, !.source = f \notin DeclarationFiles, !.inputs = inputs]
      BY <2>1, <2>5 DEF ConfigImport
    <3>2. a.deps = deps /\ a.source = (f \notin DeclarationFiles) /\ a.inputs = inputs
      BY <3>1 DEF Nothing
    <3>3. x.me \notin deps
      BY <1>1
    <3> QED BY <3>2, <3>3
  <2> QED BY <2>2, <2>3, <2>4, <2>5
<1> QED BY <1>2, <1>3

\* What the walk writes, part by part.
LEMMA ResolveIs ==
  ASSUME NEW x
  PROVE  LET a == Resolve(x)
             C == Compiled(x)
             L == Loaded(x)
         IN  /\ ~a.fatal => /\ \A e \in C : ~EdgeDep(x, e).fatal
                            /\ \A e \in L : ~ConfigDep(x, e).fatal
             /\ a.deps = (UNION {EdgeDep(x, e).deps : e \in C}) \cup (UNION {ConfigDep(x, e).deps : e \in L})
                            \cup RootDeps(x)
             /\ a.srcs = x.lists[x.me] \cup UNION {EdgeDep(x, e).inputs : e \in C}
             /\ a.scopes = {Scope(x, f) : f \in x.lists[x.me] \cup {e.to : e \in {d \in C : EdgeDep(x, d).source}}} \ {None}
             /\ \A e \in C : EdgeDep(x, e).reported => e.to \in a.reported
             /\ \A e \in L : ConfigDep(x, e).inputs \ {x.config} \subseteq a.config \cup a.outside
<1> DEFINE C == Compiled(x)
           L == Loaded(x)
           answers == {[to |-> e.to, dep |-> EdgeDep(x, e)] : e \in C}
           loads == {ConfigDep(x, e) : e \in L}
<1>1. Resolve(x) = Written(x, answers, loads)
  BY DEF Resolve
<1>2. \A e \in C : \E l \in answers : l.to = e.to /\ l.dep = EdgeDep(x, e)
  <2>1. \A e \in C : [to |-> e.to, dep |-> EdgeDep(x, e)] \in answers
    OBVIOUS
  <2> HIDE DEF answers
  <2> QED BY <2>1
<1>3. \A l \in answers : \E e \in C : l.to = e.to /\ l.dep = EdgeDep(x, e)
  OBVIOUS
<1>4. \A e \in L : ConfigDep(x, e) \in loads
  OBVIOUS
<1>5. \A l \in loads : \E e \in L : l = ConfigDep(x, e)
  OBVIOUS
<1> HIDE DEF answers, loads, C, L
<1> DEFINE a == Written(x, answers, loads)
           all == {l.dep : l \in answers} \cup loads
           staged == (UNION {l.inputs : l \in loads}) \ {x.config}
<1>6. (\A e \in C : EdgeDep(x, e) \in all) /\ (\A e \in L : ConfigDep(x, e) \in all)
  BY <1>2, <1>4
<1>7. ~a.fatal => (\A e \in C : ~EdgeDep(x, e).fatal) /\ (\A e \in L : ~ConfigDep(x, e).fatal)
  <2>1. ~a.fatal => \A l \in all : ~l.fatal
    BY DEF Written
  <2> QED BY <1>6, <2>1
<1>8. a.deps = (UNION {EdgeDep(x, e).deps : e \in C}) \cup (UNION {ConfigDep(x, e).deps : e \in L}) \cup RootDeps(x)
  <2>1. a.deps = (UNION {l.deps : l \in all}) \cup RootDeps(x)
    BY DEF Written
  <2>2. \A k : (\E l \in all : k \in l.deps) <=>
                (\E e \in C : k \in EdgeDep(x, e).deps) \/ (\E e \in L : k \in ConfigDep(x, e).deps)
    BY <1>2, <1>3, <1>4, <1>5
  <2> QED BY <2>1, <2>2
<1>9. a.srcs = x.lists[x.me] \cup UNION {EdgeDep(x, e).inputs : e \in C}
  <2>1. a.srcs = x.lists[x.me] \cup UNION {l.dep.inputs : l \in answers}
    BY DEF Written
  <2>2. \A f : (\E l \in answers : f \in l.dep.inputs) <=> \E e \in C : f \in EdgeDep(x, e).inputs
    BY <1>2, <1>3
  <2> QED BY <2>1, <2>2
<1>10. a.scopes = {Scope(x, f) : f \in x.lists[x.me] \cup {e.to : e \in {d \in C : EdgeDep(x, d).source}}} \ {None}
  <2>1. a.scopes = {Scope(x, f) : f \in x.lists[x.me] \cup {l.to : l \in {c \in answers : c.dep.source}}} \ {None}
    BY DEF Written
  <2>2. \A f : (\E l \in answers : l.dep.source /\ f = l.to) <=> \E e \in C : EdgeDep(x, e).source /\ f = e.to
    BY <1>2, <1>3
  <2>3. {l.to : l \in {c \in answers : c.dep.source}} = {e.to : e \in {d \in C : EdgeDep(x, d).source}}
    BY <2>2
  <2> QED BY <2>1, <2>3
<1>11. \A e \in C : EdgeDep(x, e).reported => e.to \in a.reported
  <2>1. a.reported = {l.to : l \in {c \in answers : c.dep.reported}}
    BY DEF Written
  <2> QED BY <1>2, <2>1
<1>12. \A e \in L : ConfigDep(x, e).inputs \ {x.config} \subseteq a.config \cup a.outside
  <2>1. a.config \cup a.outside = staged
    BY DEF Written
  <2> QED BY <1>4, <2>1
<1> HIDE DEF a
<1> QED BY <1>1, <1>7, <1>8, <1>9, <1>10, <1>11, <1>12 DEF a, C, L

\* The rule itself is none of its dependencies.
LEMMA NotItself ==
  ASSUME NEW x, Resolvable(x)
  PROVE  x.me \notin Resolve(x).deps
<1>1. \A e \in Compiled(x) : x.me \notin EdgeDep(x, e).deps
  BY EdgeDepIs DEF Compiled, Walked, Answered
<1>2. \A e \in Loaded(x) : x.me \notin ConfigDep(x, e).deps
  <2>1. \A e \in x.edges : e.to \in Files /\ e.member # x.me
    BY DEF Resolvable
  <2>2. x.config # None => x.config \in Files
    BY DEF Resolvable
  <2>3. None # x.me
    BY DEF Resolvable
  <2>4. ASSUME NEW e \in Loaded(x) PROVE e.to \in Files /\ e.member # x.me
    <3>1. CASE x.config = None
      BY <3>1 DEF Loaded
    <3>2. CASE x.config # None /\ IsGenerated(x, x.config)
      BY <2>2, <2>3, <3>2 DEF Loaded
    <3>3. CASE x.config # None /\ ~IsGenerated(x, x.config)
      BY <2>1, <3>3 DEF Loaded, Walked
    <3> QED BY <3>1, <3>2, <3>3
  <2> QED BY <2>4, ConfigDepIs
<1>3. x.me \notin RootDeps(x)
  BY DEF RootDeps, SourceProducer, Dep
<1> QED BY <1>1, <1>2, <1>3, ResolveIs

\* What the compiler reads in source, the walk has come to.
LEMMA ReadIsWalked ==
  ASSUME NEW x, Resolvable(x), ~Resolve(x).fatal
  PROVE  /\ \A e \in x.edges : e.from \in ReadRaw(x, Resolve(x)) => e \in Compiled(x)
         /\ \A f \in ReadRaw(x, Resolve(x)) :
              f \in x.lists[x.me] \/ \E c \in Compiled(x) : c.to = f /\ EdgeDep(x, c).source
<1> DEFINE a == Resolve(x)
           C == Compiled(x)
           followed == {e \in x.edges : Follows(x, e)}
           raw == {e \in x.edges : e.to \in Ours /\ ~IsGenerated(x, e.to) /\ HandedRaw(x, a, e)}
           T == LedTo(Files, x.roots, followed)
           R == LedTo(Files, x.roots, raw)
<1>1. x.roots \in SUBSET Files /\ IsFiniteSet(Files) /\ x.roots = x.lists[x.me]
      /\ \A e \in x.edges : e.to \in Files /\ e.to \notin x.twins
  BY DEF Resolvable
<1>2. C = {e \in x.edges : e.from \in T} /\ ReadRaw(x, a) = R
  BY DEF Compiled, Walked, ReadRaw
<1>3. x.roots \subseteq T /\ T \subseteq Files /\ \A e \in followed : e.from \in T => e.to \in T
  <2>1. \A e \in followed : e.to \in Files
    BY <1>1
  <2> HIDE DEF followed
  <2> QED BY <1>1, <2>1, LedIs
<1>4. \A S \in SUBSET Files :
        x.roots \subseteq S /\ (\A e \in followed : e.from \in S => e.to \in S) => T \subseteq S
  <2>1. (\A e \in followed : e.to \in Files) /\ IsFiniteSet(Files) /\ x.roots \in SUBSET Files
    BY <1>1
  <2> HIDE DEF followed
  <2>2. \A S \in SUBSET Files :
          x.roots \subseteq S /\ (\A e \in followed : e.from \in S => e.to \in S)
            => LedTo(Files, x.roots, followed) \subseteq S
    BY <2>1, LedIs
  <2> QED BY <2>2
<1>5. \A S \in SUBSET Files :
        x.roots \subseteq S /\ (\A e \in raw : e.from \in S => e.to \in S) => R \subseteq S
  <2>1. (\A e \in raw : e.to \in Files) /\ IsFiniteSet(Files) /\ x.roots \in SUBSET Files
    BY <1>1
  <2> HIDE DEF raw
  <2>2. \A S \in SUBSET Files :
          x.roots \subseteq S /\ (\A e \in raw : e.from \in S => e.to \in S)
            => LedTo(Files, x.roots, raw) \subseteq S
    BY <2>1, LedIs
  <2> QED BY <2>2
<1> HIDE DEF T, R, a, C
<1>6. \A e \in C : e \in x.edges /\ e.from \in T /\ ~EdgeDep(x, e).fatal
  BY <1>2, ResolveIs DEF C, a
<1>7. ASSUME NEW e \in raw, e.from \in T PROVE e.to \in T
  <2>1. e \in C
    BY <1>2, <1>7
  <2>2. CASE e.to \in x.lists[x.me]
    BY <1>1, <1>3, <2>2
  <2>3. CASE \E c \in C : e.to \in EdgeDep(x, c).inputs
    <3>1. PICK c \in C : e.to \in EdgeDep(x, c).inputs
      BY <2>3
    <3>2. Answered(x, c, EdgeDep(x, c))
      BY <1>6, EdgeDepIs
    <3>3. e.to = c.to /\ EdgeDep(x, c).source
      BY <1>1, <3>1, <3>2 DEF Answered
    <3>4. c \in followed
      BY <1>6, <3>3 DEF Follows
    <3> QED BY <1>3, <1>6, <3>3, <3>4
  <2>4. CASE e.to \notin a.srcs
    <3>1. PICK o \in a.deps : /\ o \in (IF e.member # None THEN {e.member} ELSE Holding(x, e.to))
                             /\ ReadsSources(x, o, e.to)
      BY <2>4 DEF HandedRaw
    <3>2. o # x.me
      BY <3>1, NotItself DEF a
    <3>3. EdgeDep(x, e).source
      BY <1>6, <2>1, <3>1, <3>2, HandedIsSource
    <3>4. e \in followed
      BY <3>3 DEF Follows
    <3> QED BY <1>3, <1>7, <3>4
  <2>5. a.srcs = x.lists[x.me] \cup UNION {EdgeDep(x, c).inputs : c \in C}
    BY ResolveIs DEF a, C
  <2> QED BY <2>2, <2>3, <2>4, <2>5
<1>8. R \subseteq T
  BY <1>3, <1>5, <1>7
<1> DEFINE S == {f \in T : f \in x.roots \/ \E c \in C : c.to = f /\ EdgeDep(x, c).source}
<1>9. T \subseteq S
  <2>1. ASSUME NEW e \in followed, e.from \in S PROVE e.to \in S
    <3>1. e.from \in T
      BY <2>1
    <3>2. e.to \in T /\ e \in C
      BY <1>2, <1>3, <3>1
    <3>3. EdgeDep(x, e).source
      BY DEF Follows
    <3> QED BY <3>2, <3>3
  <2>2. x.roots \subseteq S /\ S \in SUBSET Files
    BY <1>3
  <2> HIDE DEF S, followed
  <2> QED BY <1>4, <2>1, <2>2
<1> HIDE DEF S
<1>10. \A e \in x.edges : e.from \in R => e \in C
  BY <1>2, <1>8
<1>11. \A f \in R : f \in S
  BY <1>8, <1>9
<1> QED BY <1>1, <1>2, <1>10, <1>11 DEF a, C, S

LEMMA CompiledAlone ==
  ASSUME NEW x, Resolvable(x)
  PROVE  CompilesAlone(x, Resolve(x), ReadRaw(x, Resolve(x)))
<1> DEFINE a == Resolve(x)
           C == Compiled(x)
           read == ReadRaw(x, a)
<1> SUFFICES ASSUME ~a.fatal PROVE CompilesAlone(x, a, read)
  BY DEF CompilesAlone
<1>1. \A e \in C : e \in x.edges /\ e.to \in Files /\ ~EdgeDep(x, e).fatal /\ Answered(x, e, EdgeDep(x, e))
  <2>1. \A e \in C : e \in x.edges
    BY DEF Compiled, Walked
  <2>2. \A e \in C : ~EdgeDep(x, e).fatal
    BY ResolveIs
  <2>3. \A e \in x.edges : e.to \in Files
    BY DEF Resolvable
  <2> HIDE DEF C
  <2> QED BY <2>1, <2>2, <2>3, EdgeDepIs
<1>2. /\ \A e \in x.edges : e.from \in read => e \in C
      /\ \A f \in read : f \in x.lists[x.me] \/ \E c \in C : c.to = f /\ EdgeDep(x, c).source
  BY ReadIsWalked
<1>3. /\ \A e \in C : EdgeDep(x, e).deps \subseteq a.deps /\ EdgeDep(x, e).inputs \subseteq a.srcs
      /\ \A f \in a.srcs : f \in x.lists[x.me] \/ \E e \in C : f \in EdgeDep(x, e).inputs
      /\ \A e \in C : EdgeDep(x, e).reported => e.to \in a.reported
  BY ResolveIs
<1>4. a.scopes = {Scope(x, f) : f \in x.lists[x.me] \cup {e.to : e \in {d \in C : EdgeDep(x, d).source}}} \ {None}
  BY ResolveIs
<1>5. x.me \notin a.deps
  BY NotItself
<1> HIDE DEF a, C, read
<1>6. ASSUME NEW e \in x.edges, e.from \in read, e.to \in Ours
      PROVE  \/ e.to \in a.srcs \cup a.reported
             \/ \E k \in a.deps : HandsOn(x, k, e.to) \/ k = e.member
             \/ HandsOn(x, x.me, e.to)
  <2>1. e \in C
    BY <1>2, <1>6
  <2>2. Answered(x, e, EdgeDep(x, e)) /\ ~EdgeDep(x, e).fatal
    BY <1>1, <2>1
  <2>3. \/ e.to \in EdgeDep(x, e).inputs \/ EdgeDep(x, e).reported \/ HandsOn(x, x.me, e.to)
        \/ \E k \in EdgeDep(x, e).deps : HandsOn(x, k, e.to) \/ k = e.member
    BY <1>6, <2>2 DEF Answered
  <2> QED BY <1>3, <2>1, <2>3
<1>7. ASSUME NEW f \in a.srcs \ x.lists[x.me], NEW k \in Targets \ {x.me}, x.kind[k] = "compile", f \notin x.twins
      PROVE  ~Has(x, k, f)
  <2>1. PICK e \in C : f \in EdgeDep(x, e).inputs
    BY <1>3
  <2>2. f = e.to /\ Holders(x, f, x.lists) = {} /\ f \in Files
    BY <1>1, <1>7, <2>1 DEF Answered
  <2>3. Has(x, k, f) => f \in SelectedRuleImports(x, k) /\ f \in x.lists[k]
    BY <2>2, SelectedIsHad DEF Has
  <2> QED BY <1>7, <2>2, <2>3 DEF Holders
<1>8. ASSUME NEW f \in read PROVE Scope(x, f) \in a.scopes \cup {None}
  <2>1. f \in x.lists[x.me] \cup {e.to : e \in {d \in C : EdgeDep(x, d).source}}
    BY <1>2
  <2> QED BY <1>4, <2>1
<1>9. TestRoots(x, a.srcs) \subseteq x.roots \/ x.kind[x.me] # "test"
  BY DEF TestRoots
<1> QED BY <1>5, <1>6, <1>7, <1>8, <1>9 DEF CompilesAlone

LEMMA LoadedAlone ==
  ASSUME NEW x, Resolvable(x)
  PROVE  LoadsAlone(x, Resolve(x))
<1> DEFINE a == Resolve(x)
           L == Loaded(x)
           loading == {e \in x.edges : /\ e.module /\ e.to \in Ours \ DeclarationFiles
                                      /\ e.member = None /\ ~IsGenerated(x, e.to)}
           loads == LedTo(Files, {x.config}, loading)
<1> SUFFICES ASSUME ~a.fatal, x.config # None
    PROVE  \A f \in loads \ {x.config} : f \in a.config \cup a.outside
  BY DEF LoadsAlone
<1>1. /\ IsFiniteSet(Files) /\ x.config \in Files \ DeclarationFiles
      /\ \A e \in x.edges : e.to \in Files /\ e.member # x.me
      /\ IsGenerated(x, x.config) => \A e \in x.edges : e.from # x.config
  BY DEF Resolvable
<1>2. \A S \in SUBSET Files :
        {x.config} \subseteq S /\ (\A e \in loading : e.from \in S => e.to \in S) => loads \subseteq S
  <2>1. (\A e \in loading : e.to \in Files) /\ {x.config} \in SUBSET Files
    BY <1>1
  <2> HIDE DEF loading
  <2> QED BY <1>1, <2>1, LedIs
<1>3. CASE IsGenerated(x, x.config)
  <2>1. loads \subseteq {x.config}
    <3>1. \A e \in loading : e.from \in {x.config} => e.to \in {x.config}
      BY <1>1, <1>3
    <3> HIDE DEF loading, loads
    <3> QED BY <1>1, <1>2, <3>1
  <2> QED BY <2>1
<1>4. CASE ~IsGenerated(x, x.config)
  <2> DEFINE followed == {e \in x.edges : e.module /\ ConfigDep(x, e).source /\ ~IsGenerated(x, e.to)}
             T == LedTo(Files, {x.config}, followed)
             S == {f \in T \ DeclarationFiles : f = x.config \/ \E e \in L : f \in ConfigDep(x, e).inputs}
  <2>1. L = {e \in x.edges : e.from \in T}
    BY <1>4 DEF Loaded, Walked
  <2>2. {x.config} \subseteq T /\ T \subseteq Files /\ \A e \in followed : e.from \in T => e.to \in T
    <3>1. (\A e \in followed : e.to \in Files) /\ {x.config} \in SUBSET Files
      BY <1>1
    <3> HIDE DEF followed
    <3>2. /\ {x.config} \subseteq LedTo(Files, {x.config}, followed)
          /\ LedTo(Files, {x.config}, followed) \subseteq Files
          /\ \A e \in followed : e.from \in LedTo(Files, {x.config}, followed)
                                    => e.to \in LedTo(Files, {x.config}, followed)
      <4> HIDE DEF T
      <4> QED BY <1>1, <3>1, LedIs
    <3> QED BY <3>2
  <2>3. \A e \in L : ~ConfigDep(x, e).fatal /\ ConfigDep(x, e).inputs \ {x.config} \subseteq a.config \cup a.outside
    BY ResolveIs
  <2> HIDE DEF T, L, a
  <2>4. ASSUME NEW e \in loading, e.from \in S PROVE e.to \in S
    <3>1. e \in L /\ e.from \notin DeclarationFiles
      BY <2>1, <2>4
    <3>2. ConfigDep(x, e).source /\ e.to \in ConfigDep(x, e).inputs
      BY <1>1, <2>3, <3>1, ConfigDepIs
    <3>3. e.to \in T
      BY <2>1, <2>2, <3>1, <3>2
    <3> QED BY <3>1, <3>2, <3>3
  <2>5. loads \subseteq S
    <3>1. {x.config} \subseteq S /\ S \in SUBSET Files
      BY <1>1, <2>2
    <3> HIDE DEF S, loads, loading
    <3> QED BY <1>2, <2>4, <3>1
  <2> HIDE DEF loads
  <2> QED BY <2>3, <2>5
<1> QED BY <1>3, <1>4

(* resolveEdges (gazelle/resolve.go): for any rules, owners, directives and    *)
(* imports, every file compiled with a rule has each import among the rule's *)
(* inputs, from a dependency that will have it, from the rule itself or in   *)
(* the log, and every module of a test's config is staged.                    *)
THEOREM RulesAreSelfContained ==
  ASSUME consumer # None => Resolvable(consumer)
  PROVE  CompilationsAreSelfContained
<1>1. \A x : Resolvable(x) => IsSelfContained(x)
  BY CompiledAlone, LoadedAlone DEF IsSelfContained
<1> QED BY <1>1 DEF CompilationsAreSelfContained

-----------------------------------------------------------------------------
(* Where labels lead.                                                       *)

\* The labels met from l on, without those of A.
Past(y, A) == {e \in Forwards(y) : e.to \notin A}
Beyond(y, l, A) == LedTo(Labels, {l}, Past(y, A))
\* From l on nothing is met again, nothing of A is, and everything can be read.
Onward(y, l) == {e.to : e \in {d \in Forwards(y) : d.from = l}}
Clear(y, l, A) ==
    \A m \in Beyond(y, l, A) :
       /\ Readable(y, m) /\ Onward(y, m) \cap A = {}
       /\ \A n \in Onward(y, m) : m \notin Beyond(y, n, A)

LEMMA BeyondIs ==
  ASSUME IsFiniteSet(Labels), NEW y, NEW l \in Labels, NEW A
  PROVE  /\ l \in Beyond(y, l, A) /\ Beyond(y, l, A) \subseteq Labels
         /\ \A m \in Beyond(y, l, A) : \A n \in Onward(y, m) \ A : n \in Beyond(y, l, A)
         /\ \A S \in SUBSET Labels :
              l \in S /\ (\A m \in S : \A n \in Onward(y, m) \ A : n \in S) => Beyond(y, l, A) \subseteq S
<1>1. {l} \in SUBSET Labels /\ \A e \in Past(y, A) : e.to \in Labels /\ e.from \in Labels
  BY DEF Past, Forwards
<1>2. /\ {l} \subseteq Beyond(y, l, A) /\ Beyond(y, l, A) \subseteq Labels
      /\ \A e \in Past(y, A) : e.from \in Beyond(y, l, A) => e.to \in Beyond(y, l, A)
      /\ \A S \in SUBSET Labels :
           {l} \subseteq S /\ (\A e \in Past(y, A) : e.from \in S => e.to \in S)
             => Beyond(y, l, A) \subseteq S
  BY <1>1, LedIs DEF Beyond
<1>3. \A m, n : n \in Onward(y, m) \ A <=> \E e \in Past(y, A) : e.from = m /\ e.to = n
  BY DEF Onward, Past
<1> QED BY <1>2, <1>3

LEMMA OnwardIs ==
  ASSUME NEW y, NEW l
  PROVE  Onward(y, l) \subseteq Labels
BY DEF Onward, Forwards

\* What is beyond l is beyond what follows it, but l is not met again.
LEMMA BeyondSplits ==
  ASSUME IsFiniteSet(Labels), NEW y, NEW l \in Labels, NEW A
  PROVE  Beyond(y, l, A) = {l} \cup UNION {Beyond(y, o, A \cup {l}) : o \in Onward(y, l) \ (A \cup {l})}
<1> DEFINE N == Onward(y, l) \ (A \cup {l})
           B == {l} \cup UNION {Beyond(y, o, A \cup {l}) : o \in N}
<1>1. \A o \in N : o \in Labels /\ o \in Beyond(y, l, A)
  BY OnwardIs, BeyondIs
<1>2. ASSUME NEW o \in N PROVE Beyond(y, o, A \cup {l}) \subseteq Beyond(y, l, A)
  <2>1. Beyond(y, l, A) \in SUBSET Labels
    BY BeyondIs
  <2>2. \A m \in Beyond(y, l, A) : \A n \in Onward(y, m) \ (A \cup {l}) : n \in Beyond(y, l, A)
    BY BeyondIs
  <2> QED BY <1>1, <2>1, <2>2, BeyondIs
<1>3. B \in SUBSET Labels
  BY <1>1, BeyondIs
<1>4. ASSUME NEW m \in B, NEW n \in Onward(y, m) \ A PROVE n \in B
  <2>1. CASE n = l
    BY <2>1
  <2>2. CASE n # l /\ m = l
    <3>1. n \in N /\ n \in Labels
      BY <2>2, OnwardIs
    <3> QED BY <3>1, BeyondIs
  <2>3. CASE n # l /\ m # l
    <3>1. PICK o \in N : m \in Beyond(y, o, A \cup {l})
      BY <2>3
    <3>2. n \in Beyond(y, o, A \cup {l})
      BY <1>1, <2>3, <3>1, BeyondIs
    <3> QED BY <3>2
  <2> QED BY <2>1, <2>2, <2>3
<1>5. Beyond(y, l, A) \subseteq B
  <2>1. l \in B
    OBVIOUS
  <2> HIDE DEF B
  <2> QED BY <1>3, <1>4, <2>1, BeyondIs
<1>6. B \subseteq Beyond(y, l, A)
  BY <1>2, BeyondIs
<1> QED BY <1>5, <1>6

\* Fewer labels are met past more.
LEMMA BeyondShrinks ==
  ASSUME IsFiniteSet(Labels), NEW y, NEW l \in Labels, NEW A, NEW C, A \subseteq C
  PROVE  Beyond(y, l, C) \subseteq Beyond(y, l, A)
<1>1. Beyond(y, l, A) \in SUBSET Labels /\ l \in Beyond(y, l, A)
  BY BeyondIs
<1>2. \A m \in Beyond(y, l, A) : \A n \in Onward(y, m) \ C : n \in Beyond(y, l, A)
  BY BeyondIs
<1> QED BY <1>1, <1>2, BeyondIs

\* It is clear beyond l if it is beyond what follows, l among what was met.
LEMMA ClearSplits ==
  ASSUME IsFiniteSet(Labels), NEW y, NEW l \in Labels, NEW A, l \notin A
  PROVE  Clear(y, l, A) <=>
           /\ Readable(y, l) /\ Onward(y, l) \cap (A \cup {l}) = {}
           /\ \A o \in Onward(y, l) : Clear(y, o, A \cup {l})
<1> DEFINE N == Onward(y, l)
           C == A \cup {l}
<1>0. N \subseteq Labels
  BY OnwardIs
<1>1. ASSUME Clear(y, l, A)
      PROVE  /\ Readable(y, l) /\ N \cap C = {}
             /\ \A o \in N : Clear(y, o, C)
  <2>1. l \in Beyond(y, l, A)
    BY BeyondIs
  <2>2. Readable(y, l) /\ N \cap A = {} /\ \A n \in N : l \notin Beyond(y, n, A)
    BY <1>1, <2>1 DEF Clear
  <2>3. N \cap C = {}
    <3>1. \A n \in N : n \in Beyond(y, n, A)
      BY <1>0, BeyondIs
    <3> QED BY <2>2, <3>1
  <2>4. ASSUME NEW o \in N, NEW m \in Beyond(y, o, C)
        PROVE  /\ Readable(y, m) /\ Onward(y, m) \cap C = {}
               /\ \A n \in Onward(y, m) : m \notin Beyond(y, n, C)
    <3>1. m \in Beyond(y, l, A) /\ m \in Beyond(y, o, A) /\ m \in Labels
      <4>1. m \in Beyond(y, l, A)
        BY <2>3, BeyondSplits
      <4>2. m \in Beyond(y, o, A)
        BY <1>0, BeyondShrinks
      <4> QED BY <4>1, <4>2, BeyondIs
    <3>2. /\ Readable(y, m) /\ Onward(y, m) \cap A = {}
          /\ \A n \in Onward(y, m) : m \notin Beyond(y, n, A)
      BY <1>1, <3>1 DEF Clear
    <3>3. l \notin Onward(y, m)
      <4>1. l \in Onward(y, m) => l \in Beyond(y, o, A)
        BY <1>0, <3>1, BeyondIs
      <4> QED BY <2>2, <4>1
    <3>4. \A n \in Onward(y, m) : Beyond(y, n, C) \subseteq Beyond(y, n, A)
      BY OnwardIs, BeyondShrinks
    <3> QED BY <3>2, <3>3, <3>4
  <2> QED BY <2>2, <2>3, <2>4 DEF Clear
<1>2. ASSUME Readable(y, l), N \cap C = {}, \A o \in N : Clear(y, o, C)
      PROVE  Clear(y, l, A)
  <2> DEFINE T == UNION {Beyond(y, o, C) : o \in N}
  <2>1. T \in SUBSET Labels /\ N \subseteq T
    BY <1>0, BeyondIs
  <2>2. \A m \in T : Readable(y, m) /\ Onward(y, m) \cap C = {}
    BY <1>2 DEF Clear
  <2>3. \A m \in T : \A n \in Onward(y, m) : n \in T
    <3> SUFFICES ASSUME NEW o \in N, NEW m \in Beyond(y, o, C), NEW n \in Onward(y, m) PROVE n \in T
      OBVIOUS
    <3>1. n \notin C
      BY <2>2
    <3>2. n \in Beyond(y, o, C)
      BY <1>0, <3>1, BeyondIs
    <3> QED BY <3>2
  <2>4. l \notin T
    <3> SUFFICES ASSUME NEW o \in N, l \in Beyond(y, o, C) PROVE FALSE
      OBVIOUS
    <3>1. Labels \ {l} \in SUBSET Labels /\ o \in Labels \ {l}
      BY <1>0, <1>2
    <3>2. \A m \in Labels \ {l} : \A n \in Onward(y, m) \ C : n \in Labels \ {l}
      BY OnwardIs
    <3> DEFINE S == Labels \ {l}
    <3>3. Beyond(y, o, C) \subseteq S
      <4>1. o \in S /\ S \in SUBSET Labels /\ \A m \in S : \A n \in Onward(y, m) \ C : n \in S
        BY <3>1, <3>2
      <4> HIDE DEF S
      <4> QED BY <1>0, <4>1, BeyondIs
    <3> QED BY <3>3
  <2>5. ASSUME NEW m \in Beyond(y, l, A)
        PROVE  /\ Readable(y, m) /\ Onward(y, m) \cap A = {}
               /\ \A n \in Onward(y, m) : m \notin Beyond(y, n, A)
    <3>1. m = l \/ m \in T
      BY <1>2, BeyondSplits
    <3>2. CASE m = l
      <4>1. ASSUME NEW n \in N PROVE Beyond(y, n, A) \subseteq T
        <5>1. n \in T /\ n \in Labels
          BY <2>1
        <5> HIDE DEF T
        <5> QED BY <2>1, <2>3, <5>1, BeyondIs
      <4> QED BY <1>2, <2>4, <3>2, <4>1
    <3>3. CASE m \in T
      <4>1. PICK o \in N : m \in Beyond(y, o, C)
        BY <3>3
      <4>2. /\ Readable(y, m) /\ Onward(y, m) \cap C = {}
            /\ \A n \in Onward(y, m) : m \notin Beyond(y, n, C)
        BY <1>2, <4>1 DEF Clear
      <4>3. ASSUME NEW n \in Onward(y, m) PROVE Beyond(y, n, A) \subseteq Beyond(y, n, C)
        <5> DEFINE S == T \cap Beyond(y, n, C)
        <5>1. n \in S /\ S \in SUBSET Labels
          BY <2>1, <2>3, <3>3, BeyondIs
        <5>2. \A k \in S : \A q \in Onward(y, k) \ A : q \in S
          <6> SUFFICES ASSUME NEW k \in S, NEW q \in Onward(y, k) PROVE q \in S
            OBVIOUS
          <6>1. q \in T /\ q \notin C
            BY <2>2, <2>3
          <6>2. n \in Labels /\ k \in Beyond(y, n, C)
            BY <2>1, <5>1
          <6>3. q \in Beyond(y, n, C)
            BY <6>1, <6>2, BeyondIs
          <6> QED BY <6>1, <6>3
        <5>3. Beyond(y, n, A) \subseteq S
          <6> HIDE DEF S
          <6> QED BY <5>1, <5>2, BeyondIs
        <5> QED BY <5>3
      <4> QED BY <4>2, <4>3
    <3> QED BY <3>1, <3>2, <3>3
  <2> QED BY <2>5 DEF Clear
<1> QED BY <1>1, <1>2

-----------------------------------------------------------------------------
\* The answer for a label, those of A being on the way to it.
AnswerAt(y, l, A) ==
    IF l \in A THEN Unsupported
    ELSE Source(UNION {FilesAt(y, m) : m \in Beyond(y, l, A)}, Clear(y, l, A))

LEMMA SourcesAgree ==
  ASSUME NEW F, NEW G, NEW W \in BOOLEAN, NEW V \in BOOLEAN, F = G, W <=> V
  PROVE  Source(F, W) = Source(G, V)
<1>1. W = V
  OBVIOUS
<1> QED BY <1>1

LEMMA SourceIs ==
  ASSUME NEW F, NEW W
  PROVE  Source(F, W).files = F /\ Source(F, W).whole = W
BY DEF Source

LEMMA Truths ==
  ASSUME NEW y, NEW l, NEW A
  PROVE  Readable(y, l) \in BOOLEAN /\ Clear(y, l, A) \in BOOLEAN
<1>1. Readable(y, l) \in BOOLEAN
  BY Zenon DEF Readable
<1>2. Clear(y, l, A) \in BOOLEAN
  BY Zenon DEF Clear
<1> QED BY <1>1, <1>2

\* A label that forwards to nothing answers for itself.
LEMMA AnswerEnds ==
  ASSUME IsFiniteSet(Labels), NEW y, NEW l \in Labels, NEW A, l \notin A, Onward(y, l) = {}
  PROVE  AnswerAt(y, l, A) = Source(FilesAt(y, l), Readable(y, l))
<1>1. Beyond(y, l, A) = {l}
  <2> DEFINE rest(o) == Beyond(y, o, A \cup {l})
  <2>1. Beyond(y, l, A) = {l} \cup UNION {rest(o) : o \in Onward(y, l) \ (A \cup {l})}
    BY BeyondSplits
  <2> HIDE DEF rest
  <2> QED BY <2>1
<1>2. UNION {FilesAt(y, m) : m \in Beyond(y, l, A)} = FilesAt(y, l)
  BY <1>1
<1>3. Clear(y, l, A) <=> Readable(y, l)
  BY ClearSplits
<1>4. AnswerAt(y, l, A) = Source(UNION {FilesAt(y, m) : m \in Beyond(y, l, A)}, Clear(y, l, A))
  BY DEF AnswerAt
<1> QED BY <1>2, <1>3, <1>4, SourcesAgree, Truths

\* One that forwards joins the answers of those it names.
LEMMA AnswerForwards ==
  ASSUME IsFiniteSet(Labels), NEW y, NEW l \in Labels, NEW A, l \notin A,
         Readable(y, l), FilesAt(y, l) = {}
  PROVE  AnswerAt(y, l, A) = Joined({AnswerAt(y, o, A \cup {l}) : o \in Onward(y, l)})
<1> DEFINE N == Onward(y, l)
           C == A \cup {l}
           all == {AnswerAt(y, o, C) : o \in N}
           F == UNION {FilesAt(y, m) : m \in Beyond(y, l, A)}
           G == UNION {s.files : s \in all}
           V == \A s \in all : s.whole
<1>1. \A o : /\ o \in C => AnswerAt(y, o, C).files = {} /\ AnswerAt(y, o, C).whole = FALSE
             /\ o \notin C => /\ AnswerAt(y, o, C).files = UNION {FilesAt(y, m) : m \in Beyond(y, o, C)}
                              /\ AnswerAt(y, o, C).whole = Clear(y, o, C)
  BY SourceIs DEF AnswerAt, Unsupported
<1>2. Beyond(y, l, A) = {l} \cup UNION {Beyond(y, o, C) : o \in N \ C}
  BY BeyondSplits
<1>3. F = G
  <2>3. ASSUME NEW f PROVE f \in F <=> \E o \in N \ C : \E m \in Beyond(y, o, C) : f \in FilesAt(y, m)
    BY <1>2
  <2>4. ASSUME NEW f PROVE f \in G <=> \E o \in N \ C : \E m \in Beyond(y, o, C) : f \in FilesAt(y, m)
    <3>1. f \in G <=> \E o \in N : f \in AnswerAt(y, o, C).files
      OBVIOUS
    <3>2. ASSUME NEW o \in C PROVE f \notin AnswerAt(y, o, C).files
      BY <1>1
    <3>3. ASSUME NEW o, o \notin C
          PROVE  f \in AnswerAt(y, o, C).files <=> \E m \in Beyond(y, o, C) : f \in FilesAt(y, m)
      <4>1. AnswerAt(y, o, C).files = UNION {FilesAt(y, m) : m \in Beyond(y, o, C)}
        BY <1>1, <3>3
      <4> QED BY <4>1
    <3> HIDE DEF G
    <3> QED BY <3>1, <3>2, <3>3
  <2> HIDE DEF F, G
  <2> QED BY <2>3, <2>4
<1>4. Clear(y, l, A) <=> V
  <2>1. V <=> \A o \in N : AnswerAt(y, o, C).whole
    OBVIOUS
  <2>2. V <=> \A o \in N : o \notin C /\ Clear(y, o, C)
    BY <1>1, <2>1
  <2>3. Clear(y, l, A) <=> N \cap C = {} /\ \A o \in N : Clear(y, o, C)
    BY ClearSplits
  <2> QED BY <2>2, <2>3
<1>5. AnswerAt(y, l, A) = Source(F, Clear(y, l, A))
  BY DEF AnswerAt
<1>6. Joined(all) = Source(G, V)
  BY DEF Joined
<1>7. V \in BOOLEAN
  OBVIOUS
<1> HIDE DEF F, G, V
<1>8. AnswerAt(y, l, A) = Joined(all)
  BY <1>3, <1>4, <1>5, <1>6, <1>7, SourcesAgree, Truths
<1> QED BY <1>8

\* One visit, from the answers of the labels the rule names.
Visited(l, A, t, answers) ==
    IF l \in External THEN Unsupported
    ELSE IF l \in A THEN Unsupported
    ELSE IF t = None THEN Source({l}, TRUE)
    ELSE IF t.kind \notin {"filegroup", "alias"} THEN OutputsOf(t)
    ELSE IF t.grouped \/ t.to = Computed THEN Unsupported
    ELSE Joined(answers)

\* What the labels that l names answer, l being on the way to them too.
NamedAnswers(y, l, A) == {AnswerAt(y, o, A \cup {l}) : o \in y.targets[l].to}
NamedVisits(y, l, A) == {Visit(y)[<<o, A \cup {l}>>] : o \in y.targets[l].to}

\* What a label answers follows from the answers of those it names.
LEMMA AnswerTurns ==
  ASSUME NEW y, Attributed(y), NEW l \in Labels, NEW A
  PROVE  AnswerAt(y, l, A) = Visited(l, A, y.targets[l], NamedAnswers(y, l, A))
<1>t. PICK t : t = y.targets[l]
  OBVIOUS
<1> SUFFICES AnswerAt(y, l, A) = Visited(l, A, t, {AnswerAt(y, o, A \cup {l}) : o \in t.to})
  BY <1>t DEF NamedAnswers
<1>0. IsFiniteSet(Labels) /\ (t # None => t.to = Computed \/ t.to \subseteq Labels)
  BY <1>t DEF Attributed
<1>1. \A n : n \in Onward(y, l) <=>
        /\ n \in Labels /\ l \notin External /\ t # None
        /\ t.kind \in {"filegroup", "alias"} /\ t.to # Computed /\ ~t.grouped /\ n \in t.to
  <2> TAKE n
  <2> DEFINE e == [from |-> l, to |-> n]
             Names == /\ n \in Labels /\ l \notin External /\ t # None
                      /\ t.kind \in {"filegroup", "alias"} /\ t.to # Computed /\ ~t.grouped /\ n \in t.to
  <2>1. ASSUME n \in Onward(y, l) PROVE Names
    <3>1. PICK d \in Forwards(y) : d.from = l /\ d.to = n
      BY <2>1 DEF Onward
    <3> QED BY <1>t, <3>1 DEF Forwards
  <2>2. ASSUME Names PROVE n \in Onward(y, l)
    <3>1. e \in [from : Labels, to : Labels] /\ e.from = l /\ e.to = n
      BY <2>2
    <3> HIDE DEF e
    <3>2. e \in Forwards(y)
      BY <1>t, <2>2, <3>1 DEF Forwards
    <3> QED BY <3>1, <3>2 DEF Onward
  <2> QED BY <2>1, <2>2
<1>2. CASE l \in A
  BY <1>2 DEF AnswerAt, Visited
<1>3. CASE l \in External /\ l \notin A
  <2>1. Onward(y, l) = {} /\ FilesAt(y, l) = {} /\ ~Readable(y, l)
    BY <1>t, <1>1, <1>3 DEF FilesAt, Readable
  <2>2. AnswerAt(y, l, A) = Source(FilesAt(y, l), Readable(y, l))
    BY <1>0, <1>3, <2>1, AnswerEnds
  <2>3. Source(FilesAt(y, l), Readable(y, l)) = Source({}, FALSE)
    BY <2>1, SourcesAgree, Truths
  <2> QED BY <1>3, <2>2, <2>3 DEF Visited, Unsupported
<1>4. CASE l \notin External /\ l \notin A /\ t = None
  <2>1. Onward(y, l) = {} /\ FilesAt(y, l) = {l} /\ Readable(y, l)
    BY <1>t, <1>1, <1>4 DEF FilesAt, Readable
  <2>2. AnswerAt(y, l, A) = Source(FilesAt(y, l), Readable(y, l))
    BY <1>0, <1>4, <2>1, AnswerEnds
  <2>3. Source(FilesAt(y, l), Readable(y, l)) = Source({l}, TRUE)
    BY <2>1, SourcesAgree, Truths
  <2> QED BY <1>4, <2>2, <2>3 DEF Visited
<1>5. CASE l \notin External /\ l \notin A /\ t # None /\ t.kind \notin {"filegroup", "alias"}
  <2>1. Onward(y, l) = {} /\ FilesAt(y, l) = IF t.outs = Computed THEN {} ELSE t.outs
    BY <1>t, <1>1, <1>5 DEF FilesAt
  <2>2. Readable(y, l) <=> ~t.tree /\ t.outs \notin {Computed, {}}
    BY <1>t, <1>5 DEF Readable
  <2>3. AnswerAt(y, l, A) = Source(FilesAt(y, l), Readable(y, l))
    BY <1>0, <1>5, <2>1, AnswerEnds
  <2>4. CASE t.outs = Computed
    <3>1. Source(FilesAt(y, l), Readable(y, l)) = Source({}, FALSE)
      BY <2>1, <2>2, <2>4, SourcesAgree, Truths
    <3> QED BY <1>5, <2>3, <2>4, <3>1 DEF Visited, OutputsOf, Unsupported
  <2>5. CASE t.outs # Computed
    <3> DEFINE W == ~t.tree /\ t.outs # {}
    <3>1. W \in BOOLEAN /\ (Readable(y, l) <=> W)
      BY <2>2, <2>5
    <3>2. OutputsOf(t) = Source(t.outs, W)
      BY <2>5 DEF OutputsOf
    <3> HIDE DEF W
    <3>3. Source(FilesAt(y, l), Readable(y, l)) = Source(t.outs, W)
      BY <2>1, <2>5, <3>1, SourcesAgree, Truths
    <3> QED BY <1>5, <2>3, <3>2, <3>3 DEF Visited
  <2> QED BY <2>4, <2>5
<1>6. CASE /\ l \notin External /\ l \notin A /\ t # None /\ t.kind \in {"filegroup", "alias"}
           /\ t.grouped \/ t.to = Computed
  <2>1. Onward(y, l) = {} /\ FilesAt(y, l) = {} /\ ~Readable(y, l)
    BY <1>t, <1>1, <1>6 DEF FilesAt, Readable
  <2>2. AnswerAt(y, l, A) = Source(FilesAt(y, l), Readable(y, l))
    BY <1>0, <1>6, <2>1, AnswerEnds
  <2>3. Source(FilesAt(y, l), Readable(y, l)) = Source({}, FALSE)
    BY <2>1, SourcesAgree, Truths
  <2> QED BY <1>6, <2>2, <2>3 DEF Visited, Unsupported
<1>7. CASE /\ l \notin External /\ l \notin A /\ t # None /\ t.kind \in {"filegroup", "alias"}
           /\ ~t.grouped /\ t.to # Computed
  <2>1. FilesAt(y, l) = {} /\ Readable(y, l)
    BY <1>t, <1>7 DEF FilesAt, Readable
  <2>2. Onward(y, l) = t.to
    BY <1>0, <1>1, <1>7
  <2>3. AnswerAt(y, l, A) = Joined({AnswerAt(y, o, A \cup {l}) : o \in t.to})
    BY <1>0, <1>7, <2>1, <2>2, AnswerForwards
  <2> QED BY <1>7, <2>3 DEF Visited
<1> QED BY <1>2, <1>3, <1>4, <1>5, <1>6, <1>7

\* The recursion that defines a visit has a solution.
LEMMA VisitTurns ==
  ASSUME NEW y, Attributed(y), NEW l \in Labels, NEW A \in SUBSET Labels
  PROVE  Visit(y)[<<l, A>>] = Visited(l, A, y.targets[l], NamedVisits(y, l, A))
<1> DEFINE D == Labels \X SUBSET Labels
           Body(g, p, r) == Visited(p[1], p[2], r, {g[<<o, p[2] \cup {p[1]}>>] : o \in r.to})
           Def(g) == [p \in D |-> Body(g, p, y.targets[p[1]])]
           visit == CHOOSE g : g = Def(g)
           all == [p \in D |-> AnswerAt(y, p[1], p[2])]
<1>1. Visit(y) = visit
  BY DEF Visit, Visiting, Visited
<1>2. ASSUME NEW p \in D PROVE AnswerAt(y, p[1], p[2]) = Body(all, p, y.targets[p[1]])
  <2> DEFINE r == y.targets[p[1]]
             C == p[2] \cup {p[1]}
  <2>1. p[1] \in Labels /\ p[2] \in SUBSET Labels
    OBVIOUS
  <2>2. r # None /\ r.to # Computed => \A o \in r.to : all[<<o, C>>] = AnswerAt(y, o, C)
    <3> SUFFICES ASSUME r # None, r.to # Computed, NEW o \in r.to PROVE all[<<o, C>>] = AnswerAt(y, o, C)
      OBVIOUS
    <3>1. <<o, C>> \in D
      BY <2>1 DEF Attributed
    <3> QED BY <3>1
  <2>3. r # None /\ r.to # Computed =>
          {all[<<o, C>>] : o \in r.to} = {AnswerAt(y, o, C) : o \in r.to}
    <3> HIDE DEF all, r
    <3> QED BY <2>2
  <2>4. AnswerAt(y, p[1], p[2]) = Visited(p[1], p[2], r, {AnswerAt(y, o, C) : o \in r.to})
    <3>1. AnswerAt(y, p[1], p[2]) = Visited(p[1], p[2], r, NamedAnswers(y, p[1], p[2]))
      BY <2>1, AnswerTurns
    <3> QED BY <3>1 DEF NamedAnswers
  <2> HIDE DEF all, r
  <2>5. AnswerAt(y, p[1], p[2]) = Body(all, p, r)
    BY <2>3, <2>4 DEF Visited
  <2> QED BY <2>5 DEF r
<1>3. all = Def(all)
  <2> HIDE DEF Body, D
  <2> QED BY <1>2
<1>4. visit = Def(visit)
  <2> HIDE DEF Def, all
  <2> QED BY <1>3
<1>5. <<l, A>> \in D /\ <<l, A>>[1] = l /\ <<l, A>>[2] = A
  OBVIOUS
<1>6. visit[<<l, A>>] = Body(visit, <<l, A>>, y.targets[l])
  <2> HIDE DEF Body, D, visit
  <2> QED BY <1>4, <1>5
<1> HIDE DEF visit
<1> QED BY <1>1, <1>5, <1>6 DEF NamedVisits

LEMMA VisitIs ==
  ASSUME NEW y, Attributed(y), NEW l \in Labels
  PROVE  Visit(y)[<<l, {}>>] = AnswerAt(y, l, {})
<1> DEFINE v == Visit(y)
           Agreeing(A) == \A k \in Labels : v[<<k, A>>] = AnswerAt(y, k, A)
           Done == {n \in Nat : \A A \in SUBSET Labels : Cardinality(Labels \ A) <= n => Agreeing(A)}
<1>0. IsFiniteSet(Labels) /\ \A k \in Labels : y.targets[k] # None =>
        y.targets[k].to = Computed \/ y.targets[k].to \subseteq Labels
  BY DEF Attributed
<1>1. ASSUME NEW k \in Labels, NEW A \in SUBSET Labels,
             k \notin A => Agreeing(A \cup {k})
      PROVE  v[<<k, A>>] = AnswerAt(y, k, A)
  <2> DEFINE t == y.targets[k]
             C == A \cup {k}
  <2>1. v[<<k, A>>] = Visited(k, A, t, NamedVisits(y, k, A))
    BY VisitTurns
  <2>2. AnswerAt(y, k, A) = Visited(k, A, t, NamedAnswers(y, k, A))
    BY AnswerTurns
  <2>3. k \notin A /\ t # None /\ t.to # Computed => NamedVisits(y, k, A) = NamedAnswers(y, k, A)
    <3> SUFFICES ASSUME k \notin A, t # None, t.to # Computed
                 PROVE  NamedVisits(y, k, A) = NamedAnswers(y, k, A)
      OBVIOUS
    <3>1. \A o \in t.to : v[<<o, C>>] = AnswerAt(y, o, C)
      BY <1>0, <1>1
    <3>2. {v[<<o, C>>] : o \in t.to} = {AnswerAt(y, o, C) : o \in t.to}
      <4> HIDE DEF v, t
      <4> QED BY <3>1
    <3> QED BY <3>2 DEF NamedVisits, NamedAnswers
  <2>4. CASE k \notin A /\ t # None /\ t.to # Computed
    BY <2>1, <2>2, <2>3, <2>4
  <2>5. CASE ~ (k \notin A /\ t # None /\ t.to # Computed)
    <3> HIDE DEF t
    <3>1. \A S, T : Visited(k, A, t, S) = Visited(k, A, t, T)
      BY <2>5 DEF Visited
    <3> HIDE DEF v
    <3> QED BY <2>1, <2>2, <3>1
  <2> QED BY <2>4, <2>5
<1>2. 0 \in Done
  <2> SUFFICES ASSUME NEW A \in SUBSET Labels, Cardinality(Labels \ A) <= 0 PROVE Agreeing(A)
    OBVIOUS
  <2>1. Labels \ A = {}
    <3>1. IsFiniteSet(Labels \ A)
      BY <1>0, FS_Subset
    <3>2. Cardinality(Labels \ A) = 0
      BY <3>1, FS_CardinalityType
    <3> QED BY <3>1, <3>2, FS_EmptySet
  <2> HIDE DEF v
  <2> QED BY <1>1, <2>1
<1>3. ASSUME NEW n \in Done \cap Nat PROVE n + 1 \in Done
  <2> SUFFICES ASSUME NEW A \in SUBSET Labels, Cardinality(Labels \ A) <= n + 1 PROVE Agreeing(A)
    OBVIOUS
  <2>1. ASSUME NEW k \in Labels, k \notin A PROVE Agreeing(A \cup {k})
    <3>1. IsFiniteSet(Labels \ A) /\ k \in Labels \ A
      BY <1>0, <2>1, FS_Subset
    <3>2. Cardinality((Labels \ A) \ {k}) = Cardinality(Labels \ A) - 1 /\ Cardinality(Labels \ A) \in Nat
      BY <3>1, FS_RemoveElement, FS_CardinalityType
    <3>3. (Labels \ A) \ {k} = Labels \ (A \cup {k})
      OBVIOUS
    <3>4. Cardinality(Labels \ (A \cup {k})) <= n
      BY <3>2, <3>3
    <3>5. A \cup {k} \in SUBSET Labels
      BY <2>1
    <3> HIDE DEF Agreeing
    <3> QED BY <3>4, <3>5
  <2> HIDE DEF v
  <2> QED BY <1>1, <2>1
<1>4. Nat \subseteq Done
  <2> HIDE DEF Done
  <2> QED BY <1>2, <1>3, Counting
<1>5. Cardinality(Labels \ {}) \in Nat /\ {} \in SUBSET Labels
  <2>1. Labels \ {} = Labels
    OBVIOUS
  <2> QED BY <1>0, <2>1, FS_CardinalityType
<1>6. Agreeing({})
  <2> HIDE DEF Agreeing
  <2>1. Cardinality(Labels \ {}) \in Done
    <3> HIDE DEF Done
    <3> QED BY <1>4, <1>5
  <2> QED BY <1>5, <2>1
<1> QED BY <1>6

LEMMA LabelsReached ==
  ASSUME IsFiniteSet(Labels), NEW y, NEW S \in SUBSET Labels
  PROVE  Reached(y, S) = UNION {Beyond(y, l, {}) : l \in S}
<1> DEFINE R == Reached(y, S)
           B == UNION {Beyond(y, l, {}) : l \in S}
<1>0. \A e \in Forwards(y) : e.to \in Labels /\ e.from \in Labels
  BY DEF Forwards
<1>1. /\ S \subseteq R /\ R \subseteq Labels
      /\ \A e \in Forwards(y) : e.from \in R => e.to \in R
      /\ \A T \in SUBSET Labels :
           S \subseteq T /\ (\A e \in Forwards(y) : e.from \in T => e.to \in T) => R \subseteq T
  BY <1>0, LedIs DEF Reached
<1>2. \A m, n : n \in Onward(y, m) <=> \E e \in Forwards(y) : e.from = m /\ e.to = n
  BY DEF Onward
<1>3. \A l \in Labels : /\ l \in Beyond(y, l, {}) /\ Beyond(y, l, {}) \subseteq Labels
                        /\ \A m \in Beyond(y, l, {}) : \A n \in Onward(y, m) : n \in Beyond(y, l, {})
                        /\ \A T \in SUBSET Labels :
                             l \in T /\ (\A m \in T : \A n \in Onward(y, m) : n \in T)
                               => Beyond(y, l, {}) \subseteq T
  BY BeyondIs
<1>4. R \subseteq B
  <2>1. B \in SUBSET Labels /\ S \subseteq B
    BY <1>3
  <2>2. \A e \in Forwards(y) : e.from \in B => e.to \in B
    BY <1>2, <1>3
  <2> HIDE DEF B
  <2> QED BY <1>1, <2>1, <2>2
<1>5. B \subseteq R
  <2> SUFFICES ASSUME NEW l \in S PROVE Beyond(y, l, {}) \subseteq R
    OBVIOUS
  <2>1. l \in R /\ R \in SUBSET Labels /\ \A m \in R : \A n \in Onward(y, m) : n \in R
    BY <1>1, <1>2
  <2> HIDE DEF R
  <2> QED BY <1>3, <2>1
<1> QED BY <1>4, <1>5

\* The sources of a rule are whole and what Bazel stages.
LEMMA DeclaredIs ==
  ASSUME NEW y, Attributed(y), y.srcs # Computed
  PROVE  /\ Declared(y).whole <=> \A l \in Reached(y, y.srcs) : Readable(y, l) /\ ~Cyclic(y, l)
         /\ Declared(y).files = UNION {FilesAt(y, l) : l \in Reached(y, y.srcs)}
<1> DEFINE S == y.srcs
           all == {Visit(y)[<<l, {}>>] : l \in S}
<1>0. IsFiniteSet(Labels) /\ S \in SUBSET Labels
  BY DEF Attributed
<1>1. Declared(y) = Source(UNION {s.files : s \in all}, \A s \in all : s.whole)
  BY DEF Declared, Joined
<1>2. Declared(y).files = UNION {s.files : s \in all} /\ Declared(y).whole = (\A s \in all : s.whole)
  <2> DEFINE F == UNION {s.files : s \in all}
             W == \A s \in all : s.whole
  <2>1. Declared(y) = Source(F, W)
    BY <1>1
  <2> HIDE DEF F, W
  <2>2. Declared(y).files = F /\ Declared(y).whole = W
    BY <2>1, SourceIs
  <2> QED BY <2>2 DEF F, W
<1>3. \A l \in S : /\ Visit(y)[<<l, {}>>].files = UNION {FilesAt(y, m) : m \in Beyond(y, l, {})}
                   /\ Visit(y)[<<l, {}>>].whole = Clear(y, l, {})
  <2> SUFFICES ASSUME NEW l \in S
               PROVE  /\ Visit(y)[<<l, {}>>].files = UNION {FilesAt(y, m) : m \in Beyond(y, l, {})}
                      /\ Visit(y)[<<l, {}>>].whole = Clear(y, l, {})
    OBVIOUS
  <2>1. Visit(y)[<<l, {}>>] = AnswerAt(y, l, {})
    BY <1>0, VisitIs
  <2>2. AnswerAt(y, l, {}) = Source(UNION {FilesAt(y, m) : m \in Beyond(y, l, {})}, Clear(y, l, {}))
    BY DEF AnswerAt
  <2> QED BY <2>1, <2>2, SourceIs
<1>4. Reached(y, S) = UNION {Beyond(y, l, {}) : l \in S}
  BY <1>0, LabelsReached
<1>5. Declared(y).files = UNION {FilesAt(y, m) : m \in Reached(y, S)}
  <2>1. ASSUME NEW f PROVE f \in Declared(y).files <=> \E l \in S : f \in Visit(y)[<<l, {}>>].files
    BY <1>2
  <2>2. ASSUME NEW f, NEW l \in S
        PROVE  f \in Visit(y)[<<l, {}>>].files <=> \E m \in Beyond(y, l, {}) : f \in FilesAt(y, m)
    <3>1. Visit(y)[<<l, {}>>].files = UNION {FilesAt(y, m) : m \in Beyond(y, l, {})}
      BY <1>3
    <3> QED BY <3>1
  <2>3. ASSUME NEW f
        PROVE  f \in UNION {FilesAt(y, m) : m \in Reached(y, S)}
                 <=> \E l \in S : \E m \in Beyond(y, l, {}) : f \in FilesAt(y, m)
    BY <1>4
  <2>4. ASSUME NEW f PROVE f \in Declared(y).files <=> f \in UNION {FilesAt(y, m) : m \in Reached(y, S)}
    <3>1. f \in Declared(y).files <=> \E l \in S : \E m \in Beyond(y, l, {}) : f \in FilesAt(y, m)
      <4> HIDE DEF S
      <4> QED BY <2>1, <2>2
    <3> QED BY <2>3, <3>1
  <2>5. Declared(y).files = UNION {s.files : s \in all}
    BY <1>2
  <2> QED BY <2>4, <2>5
<1>6. ASSUME NEW m \in Labels
      PROVE  Cyclic(y, m) <=> \E n \in Onward(y, m) : m \in Beyond(y, n, {})
  <2>1. Cyclic(y, m) <=> m \in Reached(y, Onward(y, m))
    BY DEF Cyclic, Onward
  <2>2. Reached(y, Onward(y, m)) = UNION {Beyond(y, n, {}) : n \in Onward(y, m)}
    BY <1>0, OnwardIs, LabelsReached
  <2> QED BY <2>1, <2>2
<1>7. Declared(y).whole <=> \A l \in Reached(y, S) : Readable(y, l) /\ ~Cyclic(y, l)
  <2>1. Declared(y).whole <=> \A l \in S : Clear(y, l, {})
    <3>1. Declared(y).whole <=> \A l \in S : Visit(y)[<<l, {}>>].whole
      BY <1>2
    <3> QED BY <1>3, <3>1
  <2>2. ASSUME NEW l \in S
        PROVE  Clear(y, l, {}) <=> \A m \in Beyond(y, l, {}) : Readable(y, m) /\ ~Cyclic(y, m)
    <3>1. l \in Labels /\ Beyond(y, l, {}) \subseteq Labels
      BY <1>0, BeyondIs
    <3> QED BY <1>6, <3>1 DEF Clear
  <2> HIDE DEF S
  <2> QED BY <1>4, <2>1, <2>2
<1> QED BY <1>5, <1>7

-----------------------------------------------------------------------------
\* The file a label stands for, and the label that follows it, if one does.
Listed(y, l) == IF l \in DOMAIN y.listed THEN y.listed[l] ELSE l
ConfigStates(y) ==
    [at : {"label"}, label : Labels] \cup [at : {"end"}, label : Labels \cup {None}]

\* What a turn from l comes to: the label that follows l, or the end.
TurnsTo(y, l, s) ==
    /\ s \in ConfigStates(y)
    /\ s.at = "label" => /\ y.targets[l] # None
                         /\ \A e \in Configs(y) : e.from = l => e.to = s.label
                         /\ \E e \in Configs(y) : e.from = l /\ e.to = s.label
    /\ s.at = "end" => /\ \A e \in Configs(y) : e.from # l
                       /\ s.label = IF l \notin External /\ y.targets[l] = None THEN Listed(y, l) ELSE None

LEMMA ConfigTurn ==
  ASSUME NEW y, Attributed(y), NEW l \in Labels
  PROVE  TurnsTo(y, l, Turn(y, l))
<1> DEFINE s == Turn(y, l)
           t == y.targets[l]
           file == Listed(y, l)
           End(o) == [at |-> "end", label |-> o]
           Goes(o) == [at |-> "label", label |-> o]
           next == IF t.kind = "ts_config" /\ l \in DOMAIN y.listed THEN {y.listed[l]} ELSE t.to
           Forwarding == t.kind \in {"ts_config", "alias"} /\ next # Computed /\ Cardinality(next) = 1
<1>0. /\ file \in Labels /\ (l \in DOMAIN y.listed => y.listed[l] \in Labels)
      /\ \A o \in Labels : Computed # {o}
  BY DEF Attributed, Listed
<1>1. \A n : [from |-> l, to |-> n] \in Configs(y) <=>
         /\ n \in Labels /\ l \notin External /\ t # None
         /\ IF t.kind = "ts_config" /\ l \in DOMAIN y.listed THEN n = y.listed[l]
            ELSE t.kind \in {"ts_config", "alias"} /\ t.to # Computed /\ n \in t.to
  BY DEF Configs
<1>2. \A e \in Configs(y) : e.from = l => e = [from |-> l, to |-> e.to]
  BY DEF Configs
<1>3. \A o \in Labels : Goes(o) \in ConfigStates(y) /\ End(o) \in ConfigStates(y) /\ End(None) \in ConfigStates(y)
  BY DEF ConfigStates
<1>4. CASE l \in External
  <2>1. s = End(None)
    BY <1>4 DEF Turn
  <2>2. \A e \in Configs(y) : e.from # l
    BY <1>1, <1>2, <1>4
  <2>3. TurnsTo(y, l, End(None))
    BY <1>0, <1>3, <1>4, <2>2 DEF TurnsTo
  <2> QED BY <2>1, <2>3
<1>5. CASE l \notin External /\ t = None
  <2>1. s = End(file)
    BY <1>5 DEF Turn, Listed
  <2>2. \A e \in Configs(y) : e.from # l
    BY <1>1, <1>2, <1>5
  <2>3. TurnsTo(y, l, End(file))
    BY <1>0, <1>3, <1>5, <2>2 DEF TurnsTo
  <2> QED BY <2>1, <2>3
<1>6. CASE l \notin External /\ t # None /\ Forwarding
  <2>1. s = Goes(CHOOSE o \in next : TRUE)
    BY <1>6 DEF Turn
  <2>2. PICK o \in Labels : next = {o}
    <3>1. CASE t.kind = "ts_config" /\ l \in DOMAIN y.listed
      BY <1>0, <3>1
    <3>2. CASE ~ (t.kind = "ts_config" /\ l \in DOMAIN y.listed)
      <4>1. next = t.to /\ t.to # Computed
        BY <1>6, <3>2
      <4>2. (t.kind = "ts_config" /\ t.to = {}) \/ \E o \in Labels : t.to = {o}
        BY <1>6, <4>1 DEF Attributed
      <4>3. t.to # {}
        BY <1>6, <4>1, FS_EmptySet
      <4> QED BY <4>1, <4>2, <4>3
    <3> QED BY <3>1, <3>2
  <2>3. s = Goes(o)
    <3>1. (CHOOSE q \in next : TRUE) = o
      BY <2>2
    <3> QED BY <2>1, <3>1
  <2>4. ASSUME NEW n PROVE [from |-> l, to |-> n] \in Configs(y) <=> n = o
    BY <1>1, <1>6, <2>2
  <2>5. /\ \A e \in Configs(y) : e.from = l => e.to = o
        /\ \E e \in Configs(y) : e.from = l /\ e.to = o
    <3>1. [from |-> l, to |-> o] \in Configs(y)
      BY <2>4
    <3> QED BY <1>2, <2>4, <3>1
  <2>6. TurnsTo(y, l, Goes(o))
    BY <1>3, <1>6, <2>5 DEF TurnsTo
  <2> QED BY <2>3, <2>6
<1>7. CASE l \notin External /\ t # None /\ ~Forwarding
  <2>1. s = End(None)
    BY <1>7 DEF Turn
  <2>2. ASSUME NEW n PROVE [from |-> l, to |-> n] \notin Configs(y)
    <3> SUFFICES ASSUME [from |-> l, to |-> n] \in Configs(y) PROVE FALSE
      OBVIOUS
    <3>1. CASE t.kind = "ts_config" /\ l \in DOMAIN y.listed
      <4>1. next = {y.listed[l]} /\ Cardinality({y.listed[l]}) = 1
        BY <3>1, FS_Singleton
      <4>2. {y.listed[l]} # Computed
        BY <1>0, <3>1
      <4> QED BY <1>7, <3>1, <4>1, <4>2
    <3>2. CASE ~ (t.kind = "ts_config" /\ l \in DOMAIN y.listed)
      <4>1. t.kind \in {"ts_config", "alias"} /\ t.to # Computed /\ n \in t.to
        BY <1>1, <3>2
      <4>2. \E o \in Labels : t.to = {o}
        BY <1>7, <4>1 DEF Attributed
      <4>3. Cardinality(t.to) = 1 /\ next = t.to
        BY <3>2, <4>2, FS_Singleton
      <4> QED BY <1>7, <4>1, <4>3
    <3> QED BY <3>1, <3>2
  <2>3. \A e \in Configs(y) : e.from # l
    BY <1>2, <2>2
  <2>4. TurnsTo(y, l, End(None))
    BY <1>0, <1>3, <1>7, <2>3 DEF TurnsTo
  <2> QED BY <2>1, <2>4
<1> QED BY <1>4, <1>5, <1>6, <1>7

\* The turns from a config: there is a run of them.
LEMMA ConfigTurns ==
  ASSUME NEW y, Attributed(y)
  PROVE  \E g : /\ g \in [Nat -> ConfigStates(y)]
                /\ g[0] = [at |-> "label", label |-> y.config]
                /\ \A n \in Nat : g[n + 1] = IF g[n].at = "label" THEN Turn(y, g[n].label) ELSE g[n]
                /\ ConfigSource(y) = IF g[Cardinality(Labels) + 1].at = "label" THEN None
                                     ELSE g[Cardinality(Labels) + 1].label
<1> DEFINE P == ConfigStates(y)
           start == [at |-> "label", label |-> y.config]
           Def(g) == [n \in Nat |-> IF n = 0 THEN start
                                    ELSE LET s == g[n - 1] IN IF s.at = "label" THEN Turn(y, s.label) ELSE s]
           turn == CHOOSE g : g = Def(g)
<1>1. ConfigSource(y) = IF turn[Cardinality(Labels) + 1].at = "label" THEN None
                        ELSE turn[Cardinality(Labels) + 1].label
  BY DEF ConfigSource
<1>2. start \in P
  BY DEF Attributed, ConfigStates
<1>3. PICK F \in [P -> P] : \A s \in P : F[s] = IF s.at = "label" THEN Turn(y, s.label) ELSE s
  <2> DEFINE step(s) == IF s.at = "label" THEN Turn(y, s.label) ELSE s
  <2>1. ASSUME NEW s \in P PROVE step(s) \in P
    <3>1. CASE s.at = "label"
      <4>1. s.label \in Labels
        BY <3>1 DEF ConfigStates
      <4> QED BY <3>1, <4>1, ConfigTurn DEF TurnsTo
    <3>2. CASE s.at # "label"
      BY <3>2
    <3> QED BY <3>1, <3>2
  <2>2. [s \in P |-> step(s)] \in [P -> P]
    <3> HIDE DEF P, step
    <3> QED BY <2>1
  <2> HIDE DEF P
  <2> QED BY <2>2
<1>4. turn = Def(turn) /\ turn \in [Nat -> P]
  <2>1. PICK g \in [Nat -> P] : \A n \in Nat : g[n] = IF n = 0 THEN start ELSE F[g[n - 1]]
    <3> HIDE DEF P, start
    <3> QED BY <1>2, <1>3, Iterated
  <2>2. \A n \in Nat : n # 0 => n - 1 \in Nat /\ g[n - 1] \in P
    OBVIOUS
  <2>3. g = Def(g)
    <3> HIDE DEF P, start
    <3> QED BY <1>3, <2>1, <2>2
  <2>4. turn = Def(turn)
    <3> HIDE DEF Def
    <3> QED BY <2>3
  <2>5. ASSUME NEW h, h = Def(h) PROVE h \in [Nat -> P]
    <3> DEFINE Typed == {n \in Nat : h[n] \in P}
    <3>0. \A n \in Nat : h[n] = IF n = 0 THEN start
                                ELSE IF h[n - 1].at = "label" THEN Turn(y, h[n - 1].label) ELSE h[n - 1]
      <4> HIDE DEF P, start
      <4> QED BY <2>5
    <3>1. 0 \in Typed
      <4> HIDE DEF P, start
      <4> QED BY <1>2, <3>0
    <3>2. ASSUME NEW n \in Typed \cap Nat PROVE n + 1 \in Typed
      <4>1. h[n + 1] = IF h[n].at = "label" THEN Turn(y, h[n].label) ELSE h[n]
        <5> HIDE DEF P, start
        <5>1. n + 1 \in Nat /\ n + 1 # 0 /\ n + 1 - 1 = n
          OBVIOUS
        <5>2. ASSUME NEW m \in Nat, m # 0, m - 1 = n
              PROVE  h[m] = IF h[n].at = "label" THEN Turn(y, h[n].label) ELSE h[n]
          BY <3>0, <5>2
        <5> QED BY <5>1, <5>2
      <4>2. h[n + 1] = F[h[n]] /\ h[n] \in P
        <5> HIDE DEF P
        <5> QED BY <1>3, <4>1
      <4>3. h[n + 1] \in P
        <5> HIDE DEF P
        <5> QED BY <4>2
      <4> QED BY <4>3
    <3>3. Nat \subseteq Typed
      <4> HIDE DEF Typed
      <4> QED BY <3>1, <3>2, Counting
    <3>4. DOMAIN h = Nat /\ h = [n \in Nat |-> h[n]]
      <4> DEFINE body(n) == IF n = 0 THEN start
                            ELSE LET s == h[n - 1] IN IF s.at = "label" THEN Turn(y, s.label) ELSE s
      <4>1. h = [n \in Nat |-> body(n)]
        BY <2>5
      <4> HIDE DEF body
      <4> QED BY <4>1
    <3> HIDE DEF P
    <3> QED BY <3>3, <3>4
  <2> HIDE DEF turn, P, Def
  <2> QED BY <2>4, <2>5
<1> HIDE DEF turn
<1>5. turn[0] = start /\ \A n \in Nat : turn[n + 1] = IF turn[n].at = "label" THEN Turn(y, turn[n].label) ELSE turn[n]
  <2>1. \A n \in Nat : n + 1 \in Nat /\ n + 1 # 0 /\ n + 1 - 1 = n
    OBVIOUS
  <2>2. \A n \in Nat : turn[n] = IF n = 0 THEN start
                                 ELSE IF turn[n - 1].at = "label" THEN Turn(y, turn[n - 1].label) ELSE turn[n - 1]
    <3> HIDE DEF start
    <3> QED BY <1>4
  <2> HIDE DEF start
  <2>3. turn[0] = start
    BY <2>2
  <2>4. ASSUME NEW n \in Nat
        PROVE  turn[n + 1] = IF turn[n].at = "label" THEN Turn(y, turn[n].label) ELSE turn[n]
    <3>1. n + 1 \in Nat /\ n + 1 # 0 /\ n + 1 - 1 = n
      BY <2>1
    <3> QED BY <2>2, <3>1
  <2> QED BY <2>3, <2>4
<1> QED BY <1>1, <1>4, <1>5

\* A config is found exactly if its labels lead to a file.
LEMMA ConfigIsFound ==
  ASSUME NEW y, Attributed(y)
  PROVE  {ConfigSource(y)} \ {None} = ConfigFiles(y)
<1> DEFINE N == Cardinality(Labels)
           C == LedTo(Labels, {y.config}, Configs(y))
<1>0. /\ IsFiniteSet(Labels) /\ None \notin Labels /\ y.config \in Labels
      /\ \A l \in Labels : Listed(y, l) \in Labels
      /\ \A e \in Configs(y) : e.to \in Labels /\ e.from \in Labels
  BY DEF Attributed, Listed, Configs
<1>00. N \in Nat
  BY <1>0, FS_CardinalityType
<1>1. PICK g : /\ g \in [Nat -> ConfigStates(y)]
               /\ g[0] = [at |-> "label", label |-> y.config]
               /\ \A n \in Nat : g[n + 1] = IF g[n].at = "label" THEN Turn(y, g[n].label) ELSE g[n]
               /\ ConfigSource(y) = IF g[N + 1].at = "label" THEN None ELSE g[N + 1].label
  BY ConfigTurns
<1>2. \A n \in Nat : g[n].at \in {"label", "end"} /\ (g[n].at = "label" => g[n].label \in Labels)
  <2>1. \A s \in ConfigStates(y) : s.at \in {"label", "end"} /\ (s.at = "label" => s.label \in Labels)
    BY DEF ConfigStates
  <2> QED BY <1>1, <2>1
<1>3. ASSUME NEW n \in Nat, g[n].at = "label"
      PROVE  TurnsTo(y, g[n].label, g[n + 1])
  BY <1>1, <1>2, <1>3, ConfigTurn
\* Once a turn was the end, all are.
<1>4. \A m \in Nat, n \in Nat : n <= m /\ g[m].at = "label" => g[n].at = "label"
  <2> DEFINE Earlier == {m \in Nat : g[m].at = "label" => \A n \in 0..m : g[n].at = "label"}
  <2>1. 0 \in Earlier
    OBVIOUS
  <2>2. ASSUME NEW m \in Earlier \cap Nat PROVE m + 1 \in Earlier
    <3> SUFFICES ASSUME g[m + 1].at = "label", NEW n \in 0..(m + 1) PROVE g[n].at = "label"
      OBVIOUS
    <3>1. g[m].at = "label"
      BY <1>1
    <3>2. \A i \in 0..m : g[i].at = "label"
      BY <3>1
    <3> QED BY <3>2
  <2>3. Nat \subseteq Earlier
    <3> HIDE DEF Earlier
    <3> QED BY <2>1, <2>2, Counting
  <2> QED BY <2>3
<1>5. ConfigFiles(y) = {Listed(y, l) : l \in {k \in C \ External : y.targets[k] = None}}
  BY DEF ConfigFiles, Listed
<1>6. /\ y.config \in C /\ C \subseteq Labels
      /\ \A e \in Configs(y) : e.from \in C => e.to \in C
      /\ \A S \in SUBSET Labels : y.config \in S /\ (\A e \in Configs(y) : e.from \in S => e.to \in S) => C \subseteq S
  <2>1. {y.config} \in SUBSET Labels
    BY <1>0
  <2>2. /\ {y.config} \subseteq C /\ C \subseteq Labels
        /\ \A e \in Configs(y) : e.from \in C => e.to \in C
        /\ \A S \in SUBSET Labels :
             {y.config} \subseteq S /\ (\A e \in Configs(y) : e.from \in S => e.to \in S) => C \subseteq S
    BY <1>0, <2>1, LedIs
  <2> HIDE DEF C
  <2> QED BY <2>2
\* If all turns were labels, all that is led to was met, and none is a file.
<1>7. CASE g[N + 1].at = "label"
  <2>1. PICK h : /\ C = h[N] /\ h[0] = {y.config}
                 /\ \A n \in Nat : h[n + 1] = Onto(Configs(y), h[n])
    <3>1. {y.config} \in SUBSET Labels
      BY <1>0
    <3>2. \A e \in Configs(y) : e.to \in Labels
      BY <1>0
    <3> QED BY <3>1, <3>2, LedSteps
  <2> DEFINE Met(n) == {g[i].label : i \in 0..n}
             Covered == {n \in Nat : n <= N => h[n] \subseteq Met(n)}
  <2>2. \A i \in 0..(N + 1) : g[i].at = "label"
    BY <1>00, <1>4, <1>7
  <2>3. 0 \in Covered
    BY <1>1, <2>1
  <2>4. ASSUME NEW n \in Covered \cap Nat PROVE n + 1 \in Covered
    <3> SUFFICES ASSUME n + 1 <= N, NEW l \in h[n + 1] PROVE l \in Met(n + 1)
      OBVIOUS
    <3>1. h[n] \subseteq Met(n) /\ n \in Nat
      BY <1>00
    <3>2. h[n + 1] = Onto(Configs(y), h[n])
      BY <2>1, <3>1
    <3>3. l \in h[n] \/ \E e \in Configs(y) : e.from \in h[n] /\ e.to = l
      BY <3>2 DEF Onto
    <3>4. CASE l \in h[n]
      <4>1. PICK i \in 0..n : l = g[i].label
        BY <3>1, <3>4
      <4>2. i \in 0..(n + 1)
        BY <3>1
      <4> QED BY <4>1, <4>2
    <3>5. CASE \E e \in Configs(y) : e.from \in h[n] /\ e.to = l
      <4>1. PICK e \in Configs(y) : e.from \in h[n] /\ e.to = l
        BY <3>5
      <4>2. PICK i \in 0..n : e.from = g[i].label
        BY <3>1, <4>1
      <4>3. i \in Nat /\ i + 1 \in 0..(n + 1) /\ i \in 0..(N + 1) /\ i + 1 \in 0..(N + 1)
        BY <1>00, <3>1
      <4>4. g[i].at = "label" /\ g[i + 1].at = "label"
        BY <2>2, <4>3
      <4>5. TurnsTo(y, g[i].label, g[i + 1])
        BY <1>3, <4>3, <4>4
      <4>6. l = g[i + 1].label
        BY <4>1, <4>2, <4>4, <4>5 DEF TurnsTo
      <4> QED BY <4>3, <4>6
    <3> QED BY <3>3, <3>4, <3>5
  <2>5. C \subseteq Met(N)
    <3>1. Nat \subseteq Covered
      <4> HIDE DEF Covered
      <4> QED BY <2>3, <2>4, Counting
    <3> QED BY <1>00, <2>1, <3>1
  <2>6. ASSUME NEW k \in C PROVE y.targets[k] # None
    <3>1. PICK i \in 0..N : k = g[i].label
      BY <2>5
    <3>2. i \in Nat /\ i \in 0..(N + 1) /\ i + 1 \in 0..(N + 1)
      BY <1>00
    <3>3. g[i].at = "label" /\ g[i + 1].at = "label"
      BY <2>2, <3>2
    <3>4. TurnsTo(y, g[i].label, g[i + 1])
      BY <1>3, <3>2, <3>3
    <3> QED BY <3>1, <3>3, <3>4 DEF TurnsTo
  <2>7. ConfigFiles(y) = {} /\ ConfigSource(y) = None
    BY <1>1, <1>5, <1>7, <2>6
  <2> QED BY <2>7
\* The first end is that of the last label met.
<1>8. CASE g[N + 1].at # "label"
  <2>1. PICK m \in Nat : g[m].at # "label" /\ \A n \in Nat : g[n].at # "label" => m <= n
    <3> DEFINE Ends == {n \in Nat : g[n].at # "label"}
    <3>1. N + 1 \in Ends /\ Ends \in SUBSET Nat
      BY <1>00, <1>8
    <3>2. \E n \in Ends : \A k \in Ends : n <= k
      <4> HIDE DEF Ends
      <4> QED BY <3>1, LeastNumber
    <3> QED BY <3>2
  <2>2. m # 0 /\ m - 1 \in Nat /\ m - 1 + 1 = m /\ m <= N + 1
    BY <1>00, <1>1, <1>8, <2>1
  <2>3. \A i \in 0..(m - 1) : g[i].at = "label" /\ g[i].label \in Labels
    BY <1>2, <2>1, <2>2
  <2> DEFINE l == g[m - 1].label
             T == {g[i].label : i \in 0..(m - 1)}
  <2>4. TurnsTo(y, l, g[m]) /\ g[m].at = "end"
    <3>1. g[m - 1].at = "label"
      BY <2>2, <2>3
    <3> QED BY <1>2, <1>3, <2>1, <2>2, <3>1
  <2>5. \A e \in Configs(y) : e.from # l
    BY <2>4 DEF TurnsTo
  <2>6. ASSUME NEW i \in 0..(m - 1), i # m - 1
        PROVE  /\ y.targets[g[i].label] # None
               /\ \A e \in Configs(y) : e.from = g[i].label => e.to = g[i + 1].label
               /\ \E e \in Configs(y) : e.from = g[i].label /\ e.to = g[i + 1].label
    <3>1. i \in Nat /\ i + 1 \in 0..(m - 1)
      BY <2>2, <2>6
    <3>2. g[i].at = "label" /\ g[i + 1].at = "label"
      BY <2>3, <3>1
    <3> QED BY <1>3, <3>1, <3>2 DEF TurnsTo
  <2>7. C \subseteq T
    <3>1. T \in SUBSET Labels
      BY <2>3
    <3>2. y.config \in T
      <4>1. 0 \in 0..(m - 1) /\ g[0].label = y.config
        BY <1>1, <2>2
      <4> QED BY <4>1
    <3>3. \A e \in Configs(y) : e.from \in T => e.to \in T
      <4> SUFFICES ASSUME NEW e \in Configs(y), NEW i \in 0..(m - 1), e.from = g[i].label PROVE e.to \in T
        OBVIOUS
      <4>1. i # m - 1
        BY <2>5
      <4>2. e.to = g[i + 1].label /\ i + 1 \in 0..(m - 1)
        BY <2>2, <2>6, <4>1
      <4> QED BY <4>2
    <3> HIDE DEF T, C
    <3> QED BY <1>6, <3>1, <3>2, <3>3
  <2>8. l \in C
    <3> DEFINE In == {n \in Nat : n <= m - 1 => g[n].label \in C}
    <3>1. 0 \in In
      <4> HIDE DEF C
      <4> QED BY <1>1, <1>6
    <3>2. ASSUME NEW n \in In \cap Nat PROVE n + 1 \in In
      <4> SUFFICES ASSUME n + 1 <= m - 1 PROVE g[n + 1].label \in C
        OBVIOUS
      <4>1. n \in 0..(m - 1) /\ n # m - 1 /\ g[n].label \in C
        BY <2>2
      <4> HIDE DEF C
      <4> QED BY <1>6, <2>6, <4>1
    <3>3. Nat \subseteq In
      <4> HIDE DEF In
      <4> QED BY <3>1, <3>2, Counting
    <3>4. m - 1 \in In
      <4> HIDE DEF In
      <4> QED BY <2>2, <3>3
    <3> QED BY <3>4
  <2>9. ASSUME NEW k \in C, y.targets[k] = None PROVE k = l
    <3>1. PICK i \in 0..(m - 1) : k = g[i].label
      BY <2>7
    <3> QED BY <2>6, <2>9, <3>1
  <2>10. g[N + 1] = g[m]
    <3> DEFINE Stays == {n \in Nat : g[m + n] = g[m]}
    <3>1. 0 \in Stays
      BY m + 0 = m
    <3>2. ASSUME NEW n \in Stays \cap Nat PROVE n + 1 \in Stays
      <4>1. m + n \in Nat /\ m + (n + 1) = m + n + 1
        OBVIOUS
      <4>2. g[m + n] = g[m]
        OBVIOUS
      <4>3. g[m + n + 1] = g[m + n]
        BY <1>1, <2>1, <4>1, <4>2
      <4> QED BY <4>1, <4>2, <4>3
    <3>3. Nat \subseteq Stays
      <4> HIDE DEF Stays
      <4> QED BY <3>1, <3>2, Counting
    <3>4. N + 1 - m \in Nat /\ m + (N + 1 - m) = N + 1
      BY <1>00, <2>2
    <3>5. N + 1 - m \in Stays
      <4> HIDE DEF Stays
      <4> QED BY <3>3, <3>4
    <3> QED BY <3>4, <3>5
  <2>11. ConfigSource(y) = IF l \notin External /\ y.targets[l] = None THEN Listed(y, l) ELSE None
    BY <1>1, <2>1, <2>4, <2>10 DEF TurnsTo
  <2>12. l \in Labels
    BY <1>6, <2>8
  <2>13. CASE l \notin External /\ y.targets[l] = None
    <3>1. {k \in C \ External : y.targets[k] = None} = {l}
      <4> HIDE DEF l, C
      <4> QED BY <2>8, <2>9, <2>13
    <3>2. ConfigFiles(y) = {Listed(y, l)}
      <4> HIDE DEF l, C
      <4> QED BY <1>5, <3>1
    <3>3. ConfigSource(y) = Listed(y, l) /\ Listed(y, l) # None
      BY <1>0, <2>11, <2>12, <2>13
    <3> HIDE DEF l
    <3> QED BY <3>2, <3>3
  <2>14. CASE ~ (l \notin External /\ y.targets[l] = None)
    <3>1. {k \in C \ External : y.targets[k] = None} = {}
      <4> HIDE DEF l, C
      <4> QED BY <2>9, <2>14
    <3>2. ConfigFiles(y) = {}
      <4> HIDE DEF C
      <4> QED BY <1>5, <3>1
    <3>3. ConfigSource(y) = None
      BY <2>11, <2>14
    <3> QED BY <3>2, <3>3
  <2> QED BY <2>13, <2>14
<1> QED BY <1>7, <1>8

(* declaredSourceImports and compilerConfigSource (gazelle/resolve.go): for   *)
(* any rules, however they forward to each other, the sources of a rule and  *)
(* the file of its tsconfig are those that Bazel will stage.                  *)
THEOREM LabelsReachTheirEnds ==
  ASSUME attributes # None => Attributed(attributes)
  PROVE  LabelsReachFiles
<1>1. ASSUME NEW y, Attributed(y) PROVE LabelsReachTheirFiles(y)
  <2>1. y.srcs # Computed =>
          /\ Declared(y).whole <=> \A l \in Reached(y, y.srcs) : Readable(y, l) /\ ~Cyclic(y, l)
          /\ Declared(y).files = UNION {FilesAt(y, l) : l \in Reached(y, y.srcs)}
    BY <1>1, DeclaredIs
  <2>2. {ConfigSource(y)} \ {None} = ConfigFiles(y)
    BY <1>1, ConfigIsFound
  <2> QED BY <2>1, <2>2 DEF LabelsReachTheirFiles
<1> QED BY <1>1 DEF LabelsReachFiles
=============================================================================
