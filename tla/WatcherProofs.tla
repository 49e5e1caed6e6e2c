----------------------------- MODULE WatcherProofs -----------------------------
(***************************************************************************)
(* The plugin's two watchers.  However bazel rewrites the output tree under  *)
(* the handlers, at rest every path is watched as it is and every output was *)
(* reported; and what the config was generated from is watched without a gap, *)
(* whatever the inputs, their directories and the changes to them.           *)
(***************************************************************************)
EXTENDS OutputWatch, ConfigWatch, TLAPS

\* A link's file is not replaced while its handle attaches.
Steady == Unsteady = {}

-----------------------------------------------------------------------------
(* The calls *)

FramesOf(s) == {s[i] : i \in 1..Len(s)}
Deep(s)     == {s[i] : i \in 2..Len(s)}

\* The paths whose handles a frame may close, with those below them.
Acts(fr)    == IF fr.op = "each" THEN fr.kids ELSE {fr.path}
Clear(a, b) == \A k \in Acts(a) : b.path \notin Below[k]

\* A frame closes no handle that a frame under it is about.
Nested(s) == \A i, j \in 1..Len(s) : i < j => Clear(s[i], s[j])

\* What a frame says of the watches while it is there.
Founded(fr) ==
    /\ fr.op \in {"scan", "each"} => fr.path \in Dirs /\ watch[fr.path].ino # Absent
    /\ fr.op = "each" => fr.kids \subseteq Children(fr.path)
    /\ fr.op \in {"entry", "watch", "restat"} /\ fr.path # Root => watch[Up[fr.path]].ino # Absent
    /\ fr.op \in {"watch", "restat"} =>
          /\ fr.path \in Watchable /\ fr.ino \in 1..(edits + 1)
          /\ fr.path = Root => fr.ino = ino[Root]
    /\ fr.op = "watch" => watch[fr.path].ino = Absent
    /\ fr.op = "restat" => watch[fr.path].ino = fr.ino
    /\ mode = "serving" => fr.notify = TRUE

\* Only the running call is in the middle of a path.
StackInv ==
    /\ stack \in Seq(Frames) /\ Nested(stack)
    /\ \A fr \in Deep(stack) : fr.op \in {"scan", "each"}
    /\ \A fr \in FramesOf(stack) : Founded(fr)
    /\ mode = "stopped" => stack = <<>>
    /\ handling # {} => mode = "serving"
    /\ \A a, b \in handling : a = b

-----------------------------------------------------------------------------
(* The tree and the watches *)

TreeInv ==
    /\ ino \in [Paths -> Nat] /\ content \in [Files -> Nat] /\ edits \in 0..MaxEdits
    /\ \A p \in Paths : ino[p] <= edits + 1
    /\ \A f \in Files : content[f] <= edits + 1
    /\ \A f \in Files : content[f] = Absent <=> ino[f] = Absent
    /\ ino[Root] # Absent
    /\ \A p \in Inner : ino[p] # Absent => ino[Up[p]] # Absent

Handles == [ino : Nat, live : BOOLEAN]

WatchInv ==
    /\ watch \in [Paths -> Handles]
    /\ \A p \in Paths :
          /\ watch[p].ino <= edits + 1
          /\ watch[p].live => watch[p].ino # Absent /\ ino[p] # Absent
          /\ watch[p].ino # Absent /\ watch[p].live = FALSE => watch[p].ino # ino[p]
          /\ watch[p].ino # Absent => p \in Watchable
    /\ \A p \in Inner : watch[p].ino # Absent => watch[Up[p]].ino # Absent
    /\ events \subseteq Named /\ handling \subseteq Named
    /\ \A e \in events \cup handling : watch[e[1]].ino # Absent

LoopInv ==
    /\ pending \subseteq Inner /\ timer \in BOOLEAN
    /\ pending # {} <=> timer
    /\ mode \in {"starting", "serving", "stopped"}
    /\ loaded \in [Files -> Inodes \cup {Absent}]

-----------------------------------------------------------------------------
(* What is still to come *)

Standing(p) == watch[p].live /\ watch[p].ino = ino[p]

Right(p) ==
    p \in Watchable => IF ino[p] = Absent THEN watch[p].ino = Absent ELSE Standing(p)

\* An event of p's directory that will have p looked at.
Tells(E, p) == \E e \in E : e[1] = Up[p] /\ e[2] \in {p, NoName}
Announced(p) == (\E e \in events : e[1] = p) \/ Tells(events \cup handling, p)

\* A frame that looks at p, or reads its directory while p is there.
Leads(fr, p) ==
    \/ fr.op = "entry" /\ fr.path = p
    \/ fr.op = "each" /\ p \in fr.kids
    \/ fr.op \in {"restat", "scan"} /\ fr.path = Up[p] /\ ino[p] # Absent
    \/ fr.op \in {"watch", "restat"} /\ fr.path = p /\ fr.ino = ino[p]

Visit(p) == Announced(p) \/ \E fr \in FramesOf(stack) : Leads(fr, p)

\* Under a directory that is watched as it is, a path is right or looked at.
Watching == \A p \in Inner : Standing(Up[p]) => Right(p) \/ Visit(p)

\* A path replaced since its stat is announced by its directory.
Replaced ==
    \A fr \in FramesOf(stack) :
       /\ fr.op \in {"watch", "restat"} /\ fr.path # Root /\ fr.ino # ino[fr.path]
       /\ Standing(Up[fr.path])
       => Tells(events, fr.path)

\* An output that the browser does not have as it is will be reported.
Reporting ==
    mode = "serving" =>
       \A f \in Files :
          Standing(Up[f]) /\ content[f] # Absent /\ loaded[f] # content[f]
             => f \in pending \/ pending \cap Dirs # {} \/ Visit(f)

RootHeld ==
    /\ watch[Root].ino \in {Absent, ino[Root]}
    /\ mode # "stopped" =>
          Standing(Root) \/ \E fr \in FramesOf(stack) : fr.op \in {"entry", "watch"} /\ fr.path = Root

IInv ==
    /\ TreeInv /\ WatchInv /\ LoopInv /\ StackInv
    /\ Watching /\ Replaced /\ Reporting /\ RootHeld

-----------------------------------------------------------------------------
(* The calls that a step makes in the place of the running one *)

LEMMA Popped ==
  ASSUME NEW s \in Seq(Frames), s # <<>>
  PROVE  /\ Head(s) \in Frames /\ Tail(s) \in Seq(Frames) /\ FramesOf(Tail(s)) \subseteq Frames
         /\ FramesOf(s) = {Head(s)} \cup FramesOf(Tail(s))
         /\ Deep(s) = FramesOf(Tail(s))
         /\ Nested(s) => Nested(Tail(s)) /\ \A b \in FramesOf(Tail(s)) : Clear(Head(s), b)
<1> DEFINE r == Tail(s)
<1>1. /\ r \in Seq(Frames) /\ Len(r) = Len(s) - 1 /\ Len(s) \in Nat /\ Len(s) >= 1 /\ Len(r) \in Nat
      /\ Head(s) = s[1] /\ \A i \in 1..Len(r) : r[i] = s[i + 1]
  OBVIOUS
<1>2. \A i \in 1..Len(s) : s[i] \in Frames
  OBVIOUS
<1>3. \A i \in 1..Len(r) : r[i] \in Frames
  BY <1>1
<1> HIDE DEF r
<1>4. FramesOf(s) = {s[1]} \cup FramesOf(r)
  <2>1. ASSUME NEW i \in 1..Len(s) PROVE s[i] \in {s[1]} \cup FramesOf(r)
    <3>1. CASE i = 1
      BY <3>1
    <3>2. CASE i # 1
      <4>1. i - 1 \in 1..Len(r) /\ r[i - 1] = s[i]
        BY <1>1, <3>2
      <4> QED BY <4>1 DEF FramesOf
    <3> QED BY <3>1, <3>2
  <2>2. ASSUME NEW i \in 1..Len(r) PROVE r[i] \in FramesOf(s)
    <3>1. i + 1 \in 1..Len(s)
      BY <1>1
    <3> QED BY <1>1, <3>1 DEF FramesOf
  <2>3. s[1] \in FramesOf(s)
    BY <1>1 DEF FramesOf
  <2> QED BY <2>1, <2>2, <2>3 DEF FramesOf
<1>5. Deep(s) = FramesOf(r)
  <2>1. ASSUME NEW i \in 2..Len(s) PROVE s[i] \in FramesOf(r)
    <3>1. i - 1 \in 1..Len(r) /\ r[i - 1] = s[i]
      BY <1>1
    <3> QED BY <3>1 DEF FramesOf
  <2>2. ASSUME NEW i \in 1..Len(r) PROVE r[i] \in Deep(s)
    <3>1. i + 1 \in 2..Len(s)
      BY <1>1
    <3> QED BY <1>1, <3>1 DEF Deep
  <2> QED BY <2>1, <2>2 DEF Deep, FramesOf
<1>6. ASSUME Nested(s) PROVE Nested(r) /\ \A b \in FramesOf(r) : Clear(s[1], b)
  <2>1. ASSUME NEW i \in 1..Len(r), NEW j \in 1..Len(r), i < j PROVE Clear(r[i], r[j])
    <3>1. i + 1 \in 1..Len(s) /\ j + 1 \in 1..Len(s) /\ i + 1 < j + 1
      BY <1>1, <2>1
    <3> QED BY <3>1, <1>1, <1>6 DEF Nested
  <2>2. ASSUME NEW i \in 1..Len(r) PROVE Clear(s[1], r[i])
    <3>1. 1 \in 1..Len(s) /\ i + 1 \in 1..Len(s) /\ 1 < i + 1
      BY <1>1
    <3> QED BY <3>1, <1>1, <1>6 DEF Nested
  <2> QED BY <2>1, <2>2 DEF Nested, FramesOf
<1>7. Head(s) \in Frames /\ FramesOf(r) \subseteq Frames
  <2>1. Head(s) = s[1] /\ 1 \in 1..Len(s)
    BY <1>1
  <2> QED BY <2>1, <1>2, <1>3 DEF FramesOf
<1>8. s[1] = Head(s) /\ r \in Seq(Frames)
  BY <1>1
<1>9. /\ FramesOf(s) = {Head(s)} \cup FramesOf(r) /\ Deep(s) = FramesOf(r)
      /\ Nested(s) => Nested(r) /\ \A b \in FramesOf(r) : Clear(Head(s), b)
  BY <1>4, <1>5, <1>6, <1>8
<1> QED BY <1>7, <1>8, <1>9 DEF r

LEMMA Pushed ==
  ASSUME NEW r \in Seq(Frames), NEW a \in Frames
  PROVE  /\ <<a>> \o r \in Seq(Frames) /\ <<a>> \o r # <<>>
         /\ FramesOf(<<a>> \o r) = {a} \cup FramesOf(r)
         /\ Deep(<<a>> \o r) = FramesOf(r)
         /\ Nested(r) /\ (\A b \in FramesOf(r) : Clear(a, b)) => Nested(<<a>> \o r)
<1> DEFINE s == <<a>> \o r
<1>1. s \in Seq(Frames) /\ s # <<>> /\ Len(s) = Len(r) + 1 /\ Len(r) \in Nat
  OBVIOUS
<1>2. Head(s) = a /\ s[1] = a
  BY <1>1
<1>3. \A i \in 2..Len(s) : s[i] = r[i - 1]
  BY <1>1
<1>4. Tail(s) = r
  BY <1>1
<1>5. FramesOf(s) = {a} \cup FramesOf(r) /\ Deep(s) = FramesOf(r)
  BY <1>1, <1>2, <1>4, Popped
<1>6. ASSUME Nested(r), \A b \in FramesOf(r) : Clear(a, b) PROVE Nested(s)
  <2> SUFFICES ASSUME NEW i \in 1..Len(s), NEW j \in 1..Len(s), i < j PROVE Clear(s[i], s[j])
    BY DEF Nested
  <2>1. j \in 2..Len(s) /\ s[j] = r[j - 1] /\ j - 1 \in 1..Len(r)
    BY <1>1, <1>3
  <2>2. CASE i = 1
    BY <2>1, <2>2, <1>2, <1>6 DEF FramesOf
  <2>3. CASE i # 1
    <3>1. s[i] = r[i - 1] /\ i - 1 \in 1..Len(r) /\ i - 1 < j - 1
      BY <1>1, <1>3, <2>3
    <3> QED BY <3>1, <2>1, <1>6 DEF Nested
  <2> QED BY <2>2, <2>3
<1> QED BY <1>1, <1>5, <1>6

LEMMA InStack ==
  ASSUME NEW s \in Seq(Frames), NEW fr \in FramesOf(s)
  PROVE  fr \in Frames /\ s # <<>>
<1>1. PICK i \in 1..Len(s) : fr = s[i]
  BY DEF FramesOf
<1> QED BY <1>1

LEMMA NoFrames == <<>> \in Seq(Frames) /\ FramesOf(<<>>) = {} /\ Deep(<<>>) = {} /\ Nested(<<>>)
BY DEF FramesOf, Deep, Nested

-----------------------------------------------------------------------------
(* The tree of directories *)

LEMMA Tree ==
  /\ Root \in Dirs /\ Dirs \subseteq Paths /\ Files \subseteq Inner /\ Inner \subseteq Paths
  /\ Links \subseteq Files /\ Dirs \cap Files = {} /\ Root \in Watchable /\ Watchable \subseteq Paths
  /\ \A p \in Inner : Up[p] \in Dirs /\ Up[p] \in Paths
  /\ \A p \in Paths : p \in Below[p] /\ Below[p] \subseteq Paths
  /\ \A p \in Paths : \A q \in Below[p] : q = p \/ (q \in Inner /\ Up[q] \in Below[p])
  /\ \A p \in Paths : \A q \in Inner : Up[q] \in Below[p] => q \in Below[p]
BY TreeAssumption DEF Paths, Inner, Watchable

\* A directory is not below what it holds, and has all below it that a
\* directory in it has.
LEMMA TreeDown ==
  ASSUME NEW p \in Inner
  PROVE  Root \notin Below[p] /\ Up[p] \notin Below[p] /\ Up[p] # p /\ Below[p] \subseteq Below[Up[p]]
<1>1. Root \notin Below[p]
  BY Tree DEF Inner
<1>2. Up[p] \notin Below[p]
  <2> SUFFICES ASSUME Up[p] \in Below[p] PROVE FALSE
    OBVIOUS
  <2> DEFINE S == {q \in Inner : q \in Below[p]}
  <2>1. S \in SUBSET Inner /\ S # {}
    BY Tree
  <2>2. PICK q \in S : Up[q] \notin S
    <3> HIDE DEF S
    <3> QED BY <2>1, TreeAssumption
  <2>3. Up[q] \in Below[p]
    BY Tree
  <2>4. Up[q] \in Inner
    BY <2>3, <1>1, Tree DEF Inner
  <2> QED BY <2>2, <2>3, <2>4
<1>3. Up[p] # p
  BY <1>2, Tree
<1>4. Below[p] \subseteq Below[Up[p]]
  <2> SUFFICES ASSUME NEW x \in Below[p], x \notin Below[Up[p]] PROVE FALSE
    OBVIOUS
  <2> DEFINE S == {q \in Inner : q \in Below[p] /\ q \notin Below[Up[p]]}
  <2>0. p \in Below[Up[p]]
    BY Tree
  <2>1. S \in SUBSET Inner /\ S # {}
    BY Tree, <2>0
  <2>2. PICK q \in S : Up[q] \notin S
    <3> HIDE DEF S
    <3> QED BY <2>1, TreeAssumption
  <2>3. q # p /\ Up[q] \in Below[p]
    BY <2>0, Tree
  <2>4. Up[q] \notin Below[Up[p]]
    BY Tree
  <2>5. Up[q] \in Inner
    BY <2>3, <1>1, Tree DEF Inner
  <2> QED BY <2>2, <2>3, <2>4, <2>5
<1> QED BY <1>1, <1>2, <1>3, <1>4

-----------------------------------------------------------------------------
(* An edit of the tree: the paths of T, r and what lies in others of T, lead *)
(* elsewhere or nowhere; files of C hold something else.                    *)

EditStep(r, T, C) ==
    /\ r \in Inner /\ T \subseteq Paths /\ C \subseteq Files
    /\ \A q \in T : q = r \/ (q \in Inner /\ Up[q] \in T)
    /\ edits' = edits + 1
    /\ \A q \in Paths \ T : ino'[q] = ino[q] /\ watch'[q] = watch[q]
    /\ \A q \in T : ino'[q] \in {Absent, edits' + 1}
    /\ watch' \in [Paths -> Handles]
    /\ \A q \in T : watch'[q].ino = watch[q].ino /\ watch'[q].live = FALSE
    /\ \A f \in Files : f \notin T /\ f \notin C => content'[f] = content[f]
    /\ events \subseteq events' /\ events' \subseteq Named
    /\ \A e \in events' : e \in events \/ watch[e[1]].live
    /\ r \in T /\ watch[Up[r]].live =>
          \/ Tells(events', r)
          \/ /\ r \in Links /\ ino[r] # Absent /\ ino'[r] # Absent /\ ~Attaching(r)
             /\ watch[r].live => \E e \in events' : e[1] = r
    /\ \A f \in C : f \notin T =>
          /\ ino[f] # Absent
          /\ IF f \in Links THEN watch[f].live => \E e \in events' : e[1] = f
             ELSE watch[Up[f]].live => Tells(events', f)
    /\ UNCHANGED <<stack, handling, pending, timer, mode, loaded>>

LEMMA EditKeeps ==
  ASSUME IInv, NEW r, NEW T, NEW C, EditStep(r, T, C), TreeInv'
  PROVE  IInv'
<1> DEFINE F == FramesOf(stack)
<1>0. /\ r \in Inner /\ T \subseteq Paths /\ C \subseteq Files /\ edits' = edits + 1 /\ edits \in Nat
      /\ stack' = stack /\ handling' = handling /\ mode' = mode /\ loaded' = loaded
      /\ pending' = pending /\ timer' = timer
      /\ FramesOf(stack') = F
  BY DEF EditStep, IInv, TreeInv
<1>1. /\ \A q \in Paths \ T : ino'[q] = ino[q] /\ watch'[q] = watch[q]
      /\ \A q \in T : watch'[q].ino = watch[q].ino /\ watch'[q].live = FALSE
      /\ \A q \in Paths : watch'[q].ino = watch[q].ino
      /\ \A q \in Paths : watch'[q].live => watch[q].live /\ q \notin T
  BY DEF EditStep
<1>2. Root \notin T
  <2> SUFFICES ASSUME Root \in T PROVE FALSE
    OBVIOUS
  <2>1. Root = r \/ Root \in Inner
    BY DEF EditStep
  <2> QED BY <2>1, <1>0 DEF Inner
<1>3. \A q \in Inner : Standing(Up[q])' => Standing(Up[q]) /\ Up[q] \notin T /\ (q = r \/ q \notin T)
  <2> SUFFICES ASSUME NEW q \in Inner, Standing(Up[q])'
               PROVE  Standing(Up[q]) /\ Up[q] \notin T /\ (q = r \/ q \notin T)
    OBVIOUS
  <2>1. Up[q] \in Paths
    BY Tree
  <2>2. Up[q] \notin T
    BY <2>1, <1>1 DEF Standing
  <2>3. Standing(Up[q])
    BY <2>1, <2>2, <1>1 DEF Standing
  <2> QED BY <2>2, <2>3 DEF EditStep
<1>4. \A q \in Inner : \A fr \in F : q \notin T => (Leads(fr, q)' <=> Leads(fr, q))
  BY <1>1, Tree DEF Leads
<1>5. events \subseteq events' /\ \A q \in Inner : Announced(q) => Announced(q)'
  BY <1>0 DEF EditStep, Announced, Tells
<1>6. \A q \in Inner : q \notin T /\ Visit(q) => Visit(q)'
  BY <1>0, <1>4, <1>5 DEF Visit
<1>7. /\ \A fr \in Deep(stack) : fr.op \in {"scan", "each"}
      /\ \A fr \in F : Founded(fr)
      /\ stack \in Seq(Frames) /\ Nested(stack)
      /\ Watching /\ Replaced /\ Reporting /\ RootHeld
  BY DEF IInv, StackInv
<1>8. \A fr \in F : fr.op \in {"watch", "restat"} => Attaching(fr.path)
  <2> SUFFICES ASSUME NEW fr \in F, fr.op \in {"watch", "restat"} PROVE Attaching(fr.path)
    OBVIOUS
  <2>1. stack # <<>>
    BY DEF FramesOf
  <2>2. fr = Head(stack)
    BY <1>7, <2>1, Popped
  <2> QED BY <2>1, <2>2 DEF Attaching
\* The path of the edit itself.
<1>9. r \in T /\ Standing(Up[r])' => Visit(r)'
  <2> SUFFICES ASSUME r \in T, Standing(Up[r])' PROVE Visit(r)'
    OBVIOUS
  <2>1. Standing(Up[r]) /\ watch[Up[r]].live
    BY <1>0, <1>3 DEF Standing
  <2>2. CASE Tells(events', r)
    BY <2>2 DEF Visit, Announced, Tells
  <2>3. CASE ~Tells(events', r)
    <3>1. /\ r \in Links /\ ino[r] # Absent /\ ino'[r] # Absent /\ ~Attaching(r)
          /\ watch[r].live => \E e \in events' : e[1] = r
      BY <2>1, <2>3 DEF EditStep
    <3>2. CASE watch[r].live
      BY <3>1, <3>2 DEF Visit, Announced
    <3>3. CASE ~watch[r].live
      <4>1. ~Right(r)
        BY <3>1, <3>3, Tree DEF Right, Standing, Watchable
      <4>2. Visit(r)
        BY <4>1, <2>1, <1>0, <1>7 DEF Watching
      <4>3. CASE Announced(r)
        BY <4>3, <1>0, <1>5 DEF Visit
      <4>4. CASE \E fr \in F : Leads(fr, r)
        <5>1. PICK fr \in F : Leads(fr, r)
          BY <4>4
        <5>2. Leads(fr, r)'
          BY <5>1, <1>8, <3>1 DEF Leads
        <5> QED BY <5>2, <1>0 DEF Visit
      <4> QED BY <4>2, <4>3, <4>4 DEF Visit
    <3> QED BY <3>2, <3>3
  <2> QED BY <2>2, <2>3
<1>10. WatchInv'
  <2>1. watch' \in [Paths -> Handles] /\ events' \subseteq Named /\ handling' \subseteq Named
    BY <1>0 DEF EditStep, IInv, WatchInv
  <2>2. ASSUME NEW p \in Paths
        PROVE  /\ watch'[p].ino <= edits' + 1
               /\ watch'[p].live => watch'[p].ino # Absent /\ ino'[p] # Absent
               /\ watch'[p].ino # Absent /\ watch'[p].live = FALSE => watch'[p].ino # ino'[p]
               /\ watch'[p].ino # Absent => p \in Watchable
    <3>1. /\ watch[p].ino <= edits + 1 /\ watch[p].ino \in Nat
          /\ watch[p].live => watch[p].ino # Absent /\ ino[p] # Absent
          /\ watch[p].ino # Absent /\ watch[p].live = FALSE => watch[p].ino # ino[p]
          /\ watch[p].ino # Absent => p \in Watchable
      BY DEF IInv, WatchInv, Handles
    <3>2. CASE p \notin T
      BY <3>1, <3>2, <1>0, <1>1
    <3>3. CASE p \in T
      <4>1. ino'[p] \in {Absent, edits' + 1}
        BY <3>3 DEF EditStep
      <4> QED BY <4>1, <3>1, <3>3, <1>0, <1>1 DEF Absent
    <3> QED BY <3>2, <3>3
  <2>3. \A p \in Inner : watch'[p].ino # Absent => watch'[Up[p]].ino # Absent
    BY <1>1, Tree DEF IInv, WatchInv
  <2>4. \A e \in events' \cup handling' : watch'[e[1]].ino # Absent
    <3> SUFFICES ASSUME NEW e \in events' \cup handling' PROVE watch'[e[1]].ino # Absent
      OBVIOUS
    <3>1. e[1] \in Paths
      BY <2>1, Tree DEF Named
    <3>2. e \in events \cup handling \/ watch[e[1]].live
      BY <1>0 DEF EditStep
    <3> QED BY <3>1, <3>2, <1>1 DEF IInv, WatchInv
  <2> QED BY <2>1, <2>2, <2>3, <2>4 DEF WatchInv
<1>11. LoopInv'
  BY <1>0 DEF IInv, LoopInv
<1>12. StackInv'
  <2>1. ASSUME NEW fr \in F PROVE Founded(fr)'
    <3>1. Founded(fr) /\ fr.path \in Paths
      BY <1>7, InStack DEF Frames
    <3>2. ino'[Root] = ino[Root]
      BY <1>1, <1>2, Tree
    <3>3. fr.path # Root => Up[fr.path] \in Paths
      BY <3>1, Tree DEF Inner
    <3> QED BY <3>1, <3>2, <3>3, <1>0, <1>1 DEF Founded
  <2>2. \A fr \in FramesOf(stack') : Founded(fr)'
    BY <2>1, <1>0
  <2> QED BY <2>2, <1>0, <1>7 DEF StackInv, IInv
<1>13. Watching'
  <2> SUFFICES ASSUME NEW q \in Inner, Standing(Up[q])' PROVE Right(q)' \/ Visit(q)'
    BY DEF Watching
  <2>1. CASE q \in T
    BY <2>1, <1>3, <1>9
  <2>2. CASE q \notin T
    <3>1. Right(q) => Right(q)'
      BY <2>2, <1>1, Tree DEF Right, Standing
    <3> QED BY <3>1, <2>2, <1>3, <1>6, <1>7 DEF Watching
  <2> QED BY <2>1, <2>2
<1>14. Replaced'
  <2> SUFFICES ASSUME NEW fr \in F, fr.op \in {"watch", "restat"}, fr.path # Root,
                      fr.ino # ino'[fr.path], Standing(Up[fr.path])'
               PROVE  Tells(events', fr.path)
    BY <1>0 DEF Replaced
  <2>1. fr.path \in Inner
    BY <1>7, InStack DEF Frames, Inner
  <2>2. Standing(Up[fr.path]) /\ (fr.path = r \/ fr.path \notin T)
    BY <2>1, <1>3
  <2>3. CASE fr.path \notin T
    <3>1. Tells(events, fr.path)
      BY <2>1, <2>2, <2>3, <1>1, <1>7, Tree DEF Replaced
    <3> QED BY <3>1, <1>5 DEF Tells
  <2>4. CASE fr.path = r /\ r \in T
    BY <2>2, <2>4, <1>8 DEF EditStep, Standing
  <2> QED BY <2>2, <2>3, <2>4
<1>15. Reporting'
  <2> SUFFICES ASSUME mode = "serving", NEW f \in Files, Standing(Up[f])',
                      content'[f] # Absent, loaded[f] # content'[f]
               PROVE  f \in pending \/ pending \cap Dirs # {} \/ Visit(f)'
    BY <1>0 DEF Reporting
  <2>0. f \in Inner
    BY Tree
  <2>1. Standing(Up[f]) /\ (f = r \/ f \notin T)
    BY <2>0, <1>3
  <2>2. CASE f \in T
    BY <2>1, <2>2, <1>9
  <2>3. CASE f \notin T /\ f \notin C
    <3>1. content'[f] = content[f]
      BY <2>3 DEF EditStep
    <3>2. f \in pending \/ pending \cap Dirs # {} \/ Visit(f)
      BY <3>1, <2>1, <1>7 DEF Reporting
    <3> QED BY <3>2, <2>0, <2>3, <1>6
  <2>4. CASE f \notin T /\ f \in C
    <3>1. /\ ino[f] # Absent
          /\ IF f \in Links THEN watch[f].live => \E e \in events' : e[1] = f
             ELSE watch[Up[f]].live => Tells(events', f)
      BY <2>4 DEF EditStep
    <3>2. CASE f \notin Links
      BY <3>1, <3>2, <2>1 DEF Standing, Visit, Announced, Tells
    <3>3. CASE f \in Links /\ watch[f].live
      BY <3>1, <3>3 DEF Visit, Announced
    <3>4. CASE f \in Links /\ ~watch[f].live
      <4>1. ~Right(f)
        BY <3>1, <3>4 DEF Right, Standing, Watchable
      <4>2. Visit(f)
        BY <4>1, <2>0, <2>1, <1>7 DEF Watching
      <4> QED BY <4>2, <2>0, <2>4, <1>6
    <3> QED BY <3>2, <3>3, <3>4
  <2> QED BY <2>2, <2>3, <2>4
<1>16. RootHeld'
  <2>1. /\ Standing(Root) => Standing(Root)'
        /\ watch'[Root].ino = watch[Root].ino /\ ino'[Root] = ino[Root]
    BY <1>1, <1>2, Tree DEF Standing
  <2> QED BY <2>1, <1>0, <1>7 DEF RootHeld
<1> QED BY <1>10, <1>11, <1>12, <1>13, <1>14, <1>15, <1>16 DEF IInv

LEMMA Hearing ==
  ASSUME WatchInv, NEW d \in Watchable, NEW p \in Paths, p = d \/ p \in Children(d)
  PROVE  /\ Heard(d, p) \subseteq Named
         /\ \A e \in Heard(d, p) : e[1] = d /\ watch[d].live
         /\ watch[d].live => \E e \in Heard(d, p) : e[1] = d
         /\ watch[d].live /\ d = Up[p] => Tells(Heard(d, p), p)
<1>1. CASE watch[d].live
  <2> DEFINE e == <<d, IF d \in Nameless THEN NoName ELSE p>>
  <2>1. Heard(d, p) = {e}
    BY <1>1 DEF Heard
  <2>2. e \in Named /\ e[1] = d /\ e[2] \in {p, NoName}
    BY DEF Named
  <2> HIDE DEF e
  <2> QED BY <1>1, <2>1, <2>2 DEF Tells
<1>2. CASE ~watch[d].live
  <2>1. Heard(d, p) = {}
    BY <1>2 DEF Heard
  <2> QED BY <1>2, <2>1
<1> QED BY <1>1, <1>2

LEMMA PutKeepsTree ==
  ASSUME TreeInv, NEW T \in SUBSET Paths, Root \notin T, NEW x, Edited, x \in {Absent, edits' + 1},
         ino' = Put(ino, T, x), content' = Put(content, T, x),
         \A q \in Inner : ino'[q] # Absent => ino'[Up[q]] # Absent
  PROVE  TreeInv'
<1>1. edits' \in 0..MaxEdits /\ edits' = edits + 1 /\ edits \in Nat /\ x \in Nat /\ x <= edits' + 1
  BY BoundAssumption DEF TreeInv, Edited, Absent
<1>2. ino' = [p \in Paths |-> IF p \in T THEN x ELSE ino[p]]
  BY DEF Put, TreeInv
<1>3. content' = [f \in Files |-> IF f \in T THEN x ELSE content[f]]
  BY DEF Put, TreeInv
<1>4. ino' \in [Paths -> Nat] /\ content' \in [Files -> Nat]
  BY <1>1, <1>2, <1>3 DEF TreeInv
<1>5. /\ \A p \in Paths : ino'[p] <= edits' + 1
      /\ \A f \in Files : content'[f] <= edits' + 1
  BY <1>1, <1>2, <1>3 DEF TreeInv
<1>6. \A f \in Files : content'[f] = Absent <=> ino'[f] = Absent
  BY <1>2, <1>3, Tree DEF TreeInv
<1>7. ino'[Root] # Absent
  BY <1>2, Tree DEF TreeInv
<1> QED BY <1>1, <1>4, <1>5, <1>6, <1>7 DEF TreeInv

LEMMA WriteKeeps ==
  ASSUME IInv, NEW f \in Files, Write(f)
  PROVE  IInv'
<1> DEFINE d == IF f \in Links THEN f ELSE Up[f]
<1>0. f \in Inner /\ f \in Paths /\ d \in Watchable /\ TreeInv /\ WatchInv
  BY Tree DEF Watchable, IInv
<1>1. /\ Edited /\ ino[f] # Absent /\ ino' = ino /\ watch' = watch
      /\ content' = Put(content, {f}, edits' + 1) /\ events' = events \cup Heard(d, f)
  BY DEF Write
<1>2. edits' \in 0..MaxEdits /\ edits' = edits + 1 /\ edits \in Nat
  BY <1>0, <1>1, BoundAssumption DEF TreeInv, Edited
<1>3. content' = [g \in Files |-> IF g = f THEN edits + 2 ELSE content[g]]
  BY <1>0, <1>1, <1>2 DEF Put, TreeInv
<1>4. TreeInv'
  <2>1. content' \in [Files -> Nat] /\ \A g \in Files : content'[g] <= edits' + 1
    BY <1>0, <1>2, <1>3 DEF TreeInv
  <2>2. \A p \in Paths : ino'[p] <= edits' + 1
    BY <1>0, <1>1, <1>2 DEF TreeInv
  <2>3. ASSUME NEW g \in Files PROVE content'[g] = Absent <=> ino'[g] = Absent
    <3>1. (content[g] = Absent <=> ino[g] = Absent) /\ ino'[g] = ino[g]
      BY <1>0, <1>1 DEF TreeInv
    <3>2. CASE g = f
      <4>1. content'[f] = edits + 2 /\ edits + 2 # Absent
        BY <1>2, <1>3 DEF Absent
      <4> QED BY <3>1, <3>2, <4>1, <1>1
    <3>3. CASE g # f
      BY <3>1, <3>3, <1>3
    <3> QED BY <3>2, <3>3
  <2> QED BY <2>1, <2>2, <2>3, <1>0, <1>1, <1>2 DEF TreeInv
<1>5. /\ Heard(d, f) \subseteq Named
      /\ \A e \in Heard(d, f) : e[1] = d /\ watch[d].live
      /\ watch[d].live => \E e \in Heard(d, f) : e[1] = d
      /\ watch[d].live /\ d = Up[f] => Tells(Heard(d, f), f)
  <2>1. f = d \/ f \in Children(d)
    BY <1>0 DEF Children
  <2> HIDE DEF d
  <2> QED BY <2>1, <1>0, Hearing
<1>6. /\ events \subseteq events' /\ events' \subseteq Named
      /\ \A e \in events' : e \in events \/ watch[e[1]].live
  BY <1>0, <1>1, <1>5 DEF WatchInv
<1>7. IF f \in Links THEN watch[f].live => \E e \in events' : e[1] = f
      ELSE watch[Up[f]].live => Tells(events', f)
  BY <1>1, <1>5 DEF Tells
<1>8. EditStep(f, {}, {f})
  BY <1>0, <1>1, <1>2, <1>3, <1>6, <1>7 DEF EditStep, Edited, WatchInv
<1> QED BY <1>4, <1>8, EditKeeps

LEMMA PlaceKeeps ==
  ASSUME IInv, NEW f \in Files, Place(f)
  PROVE  IInv'
<1>0. f \in Inner /\ f \in Paths /\ f \notin Dirs /\ Up[f] \in Watchable /\ TreeInv /\ WatchInv /\ Root \notin {f}
  BY Tree DEF Watchable, IInv
<1>1. /\ Edited /\ ino[Up[f]] # Absent
      /\ ino' = Put(ino, {f}, edits' + 1) /\ content' = Put(content, {f}, edits' + 1)
      /\ watch' = [watch EXCEPT ![f].live = FALSE] /\ events' = events \cup Heard(Up[f], f)
  BY DEF Place
<1>2. edits' \in 0..MaxEdits /\ edits' = edits + 1 /\ edits \in Nat
  BY <1>0, <1>1, BoundAssumption DEF TreeInv, Edited
<1>3. /\ content' = [g \in Files |-> IF g = f THEN edits + 2 ELSE content[g]]
      /\ ino' = [p \in Paths |-> IF p = f THEN edits + 2 ELSE ino[p]]
  BY <1>0, <1>1, <1>2 DEF Put, TreeInv
<1>4. TreeInv'
  <2>1. ASSUME NEW q \in Inner, ino'[q] # Absent PROVE ino'[Up[q]] # Absent
    <3>0. q \in Paths /\ Up[q] \in Paths /\ Up[q] # f
      BY <1>0, Tree
    <3>1. Up[q] # f /\ ino'[Up[q]] = ino[Up[q]]
      BY <3>0, <1>3
    <3>2. CASE q = f
      BY <3>1, <3>2, <1>0, <1>1 DEF TreeInv
    <3>3. CASE q # f
      BY <2>1, <3>0, <3>1, <3>3, <1>0, <1>3 DEF TreeInv
    <3> QED BY <3>2, <3>3
  <2> QED BY <2>1, <1>0, <1>1, PutKeepsTree
<1>5. /\ watch' \in [Paths -> Handles] /\ watch'[f].ino = watch[f].ino /\ watch'[f].live = FALSE
      /\ \A q \in Paths : q # f => watch'[q] = watch[q]
  BY <1>0, <1>1 DEF WatchInv, Handles
<1>6. /\ events \subseteq events' /\ events' \subseteq Named
      /\ \A e \in events' : e \in events \/ watch[e[1]].live
      /\ watch[Up[f]].live => Tells(events', f)
  <2>0. f \in Children(Up[f])
    BY <1>0 DEF Children
  <2>1. /\ Heard(Up[f], f) \subseteq Named
        /\ \A e \in Heard(Up[f], f) : e[1] = Up[f] /\ watch[Up[f]].live
        /\ watch[Up[f]].live => Tells(Heard(Up[f], f), f)
    BY <2>0, <1>0, Hearing
  <2>2. watch[Up[f]].live => Tells(events', f)
    BY <2>1, <1>1 DEF Tells
  <2> QED BY <2>1, <2>2, <1>0, <1>1 DEF WatchInv
<1>7. EditStep(f, {f}, {})
  <2>1. \A q \in Paths \ {f} : ino'[q] = ino[q] /\ watch'[q] = watch[q]
    BY <1>3, <1>5
  <2>2. \A q \in {f} : ino'[q] \in {Absent, edits' + 1} /\ watch'[q].ino = watch[q].ino /\ watch'[q].live = FALSE
    BY <1>0, <1>2, <1>3, <1>5
  <2>3. \A g \in Files : g \notin {f} /\ g \notin {} => content'[g] = content[g]
    BY <1>3
  <2>4. UNCHANGED <<stack, handling, pending, timer, mode, loaded>>
    BY <1>1 DEF Edited
  <2> QED BY <1>0, <1>1, <1>2, <1>5, <1>6, <2>1, <2>2, <2>3, <2>4 DEF EditStep
<1> QED BY <1>4, <1>7, EditKeeps

LEMMA RetargetKeeps ==
  ASSUME IInv, Steady, NEW f \in Files, Retarget(f)
  PROVE  IInv'
<1>0. f \in Inner /\ f \in Paths /\ f \notin Dirs /\ f \in Links /\ f \in Watchable
      /\ TreeInv /\ WatchInv /\ Root \notin {f}
  BY Tree DEF Watchable, IInv, Retarget
<1>1. /\ Edited /\ ino[f] # Absent /\ ~Attaching(f)
      /\ ino' = Put(ino, {f}, edits' + 1) /\ content' = Put(content, {f}, edits' + 1)
      /\ watch' = [watch EXCEPT ![f].live = FALSE] /\ events' = events \cup Heard(f, f)
  BY DEF Retarget, Steady
<1>2. edits' \in 0..MaxEdits /\ edits' = edits + 1 /\ edits \in Nat
  BY <1>0, <1>1, BoundAssumption DEF TreeInv, Edited
<1>3. /\ content' = [g \in Files |-> IF g = f THEN edits + 2 ELSE content[g]]
      /\ ino' = [p \in Paths |-> IF p = f THEN edits + 2 ELSE ino[p]]
  BY <1>0, <1>1, <1>2 DEF Put, TreeInv
<1>4. TreeInv'
  <2>1. ASSUME NEW q \in Inner, ino'[q] # Absent PROVE ino'[Up[q]] # Absent
    <3>0. q \in Paths /\ Up[q] \in Paths /\ Up[q] # f
      BY <1>0, Tree
    <3>1. Up[q] # f /\ ino'[Up[q]] = ino[Up[q]]
      BY <3>0, <1>3
    <3>2. CASE q = f
      BY <3>1, <3>2, <1>0, <1>1 DEF TreeInv
    <3>3. CASE q # f
      BY <2>1, <3>0, <3>1, <3>3, <1>0, <1>3 DEF TreeInv
    <3> QED BY <3>2, <3>3
  <2> QED BY <2>1, <1>0, <1>1, PutKeepsTree
<1>5. /\ watch' \in [Paths -> Handles] /\ watch'[f].ino = watch[f].ino /\ watch'[f].live = FALSE
      /\ \A q \in Paths : q # f => watch'[q] = watch[q]
  BY <1>0, <1>1 DEF WatchInv, Handles
<1>6. /\ events \subseteq events' /\ events' \subseteq Named
      /\ \A e \in events' : e \in events \/ watch[e[1]].live
      /\ watch[f].live => \E e \in events' : e[1] = f
  <2>1. /\ Heard(f, f) \subseteq Named
        /\ \A e \in Heard(f, f) : e[1] = f /\ watch[f].live
        /\ watch[f].live => \E e \in Heard(f, f) : e[1] = f
    BY <1>0, Hearing
  <2>2. watch[f].live => \E e \in events' : e[1] = f
    BY <2>1, <1>1
  <2> QED BY <2>1, <2>2, <1>0, <1>1 DEF WatchInv
<1>7. ino'[f] # Absent
  BY <1>0, <1>2, <1>3 DEF Absent
<1>8. EditStep(f, {f}, {})
  <2>1. \A q \in Paths \ {f} : ino'[q] = ino[q] /\ watch'[q] = watch[q]
    BY <1>3, <1>5
  <2>2. \A q \in {f} : ino'[q] \in {Absent, edits' + 1} /\ watch'[q].ino = watch[q].ino /\ watch'[q].live = FALSE
    BY <1>0, <1>2, <1>3, <1>5
  <2>3. \A g \in Files : g \notin {f} /\ g \notin {} => content'[g] = content[g]
    BY <1>3
  <2>4. UNCHANGED <<stack, handling, pending, timer, mode, loaded>>
    BY <1>1 DEF Edited
  <2> QED BY <1>0, <1>1, <1>2, <1>5, <1>6, <1>7, <2>1, <2>2, <2>3, <2>4 DEF EditStep
<1> QED BY <1>4, <1>8, EditKeeps

LEMMA MakeKeeps ==
  ASSUME IInv, NEW d \in Dirs, Make(d)
  PROVE  IInv'
<1>0. d \in Inner /\ d \in Paths /\ Up[d] \in Watchable /\ TreeInv /\ WatchInv
  BY Tree DEF Watchable, IInv, Make, Inner
<1>1. /\ ino[d] = Absent /\ ino[Up[d]] # Absent
      /\ events' = events \cup Heard(Up[d], d) /\ watch' = watch
  BY DEF Make
<1>2. PICK S \in SUBSET Below[d] :
         /\ d \in S /\ \A p \in S \ {d} : Up[p] \in S
         /\ Edited
         /\ ino' = Put(ino, S, edits' + 1) /\ content' = Put(content, S, edits' + 1)
  BY DEF Make
<1>3. edits' \in 0..MaxEdits /\ edits' = edits + 1 /\ edits \in Nat
  BY <1>0, <1>2, BoundAssumption DEF TreeInv, Edited
<1>4. S \subseteq Inner /\ Root \notin S /\ S \subseteq Paths
  BY <1>0, TreeDown, Tree DEF Inner
<1>5. /\ content' = [g \in Files |-> IF g \in S THEN edits + 2 ELSE content[g]]
      /\ ino' = [p \in Paths |-> IF p \in S THEN edits + 2 ELSE ino[p]]
  BY <1>0, <1>2, <1>3 DEF Put, TreeInv
<1>6. TreeInv'
  <2>1. \A q \in Inner : ino'[q] # Absent => ino'[Up[q]] # Absent
    BY <1>0, <1>1, <1>2, <1>3, <1>4, <1>5, Tree DEF TreeInv, Absent
  <2> QED BY <2>1, <1>0, <1>2, <1>4, PutKeepsTree
<1>7. \A q \in S : ino[q] = Absent
  <2> SUFFICES ASSUME NEW q0 \in S, ino[q0] # Absent PROVE FALSE
    OBVIOUS
  <2> DEFINE Q == {q \in S : ino[q] # Absent}
  <2>1. Q \in SUBSET Inner /\ Q # {}
    BY <1>4
  <2>2. PICK q \in Q : Up[q] \notin Q
    <3> HIDE DEF Q
    <3> QED BY <2>1, TreeAssumption
  <2> QED BY <2>2, <1>0, <1>1, <1>2, <1>4 DEF TreeInv
<1>8. \A q \in S : watch'[q].ino = watch[q].ino /\ watch'[q].live = FALSE
  BY <1>0, <1>1, <1>4, <1>7 DEF WatchInv, Handles
<1>9. /\ events \subseteq events' /\ events' \subseteq Named
      /\ \A e \in events' : e \in events \/ watch[e[1]].live
      /\ watch[Up[d]].live => Tells(events', d)
  <2>0. d \in Children(Up[d])
    BY <1>0 DEF Children
  <2>1. /\ Heard(Up[d], d) \subseteq Named
        /\ \A e \in Heard(Up[d], d) : e[1] = Up[d] /\ watch[Up[d]].live
        /\ watch[Up[d]].live => Tells(Heard(Up[d], d), d)
    BY <2>0, <1>0, Hearing
  <2>2. watch[Up[d]].live => Tells(events', d)
    BY <2>1, <1>1 DEF Tells
  <2> QED BY <2>1, <2>2, <1>0, <1>1 DEF WatchInv
<1>10. \A q \in S : q = d \/ (q \in Inner /\ Up[q] \in S)
  BY <1>2, <1>4
<1>11. EditStep(d, S, {})
  BY <1>0, <1>1, <1>2, <1>3, <1>4, <1>5, <1>8, <1>9, <1>10 DEF EditStep, Edited, WatchInv
<1> QED BY <1>6, <1>11, EditKeeps

LEMMA RemoveKeeps ==
  ASSUME IInv, NEW p \in Inner, Remove(p)
  PROVE  IInv'
<1> DEFINE S == Below[p]
<1>0. /\ p \in Paths /\ Up[p] \in Watchable /\ TreeInv /\ WatchInv
      /\ S \subseteq Paths /\ Root \notin S
      /\ \A q \in S : q = p \/ (q \in Inner /\ Up[q] \in S)
      /\ \A q \in Inner : Up[q] \in S => q \in S
  BY Tree, TreeDown DEF Watchable, IInv
<1>1. /\ Edited /\ ino' = Put(ino, S, Absent) /\ content' = Put(content, S, Absent)
      /\ watch' = [q \in Paths |-> IF q \in S /\ watch[q] # Unwatched
                                   THEN [watch[q] EXCEPT !.live = FALSE] ELSE watch[q]]
      /\ events' = events \cup Heard(Up[p], p)
  BY DEF Remove
<1> HIDE DEF S
<1>2. edits' \in 0..MaxEdits /\ edits' = edits + 1 /\ edits \in Nat
  BY <1>0, <1>1, BoundAssumption DEF TreeInv, Edited
<1>3. /\ content' = [g \in Files |-> IF g \in S THEN Absent ELSE content[g]]
      /\ ino' = [q \in Paths |-> IF q \in S THEN Absent ELSE ino[q]]
  BY <1>0, <1>1, <1>2 DEF Put, TreeInv
<1>4. TreeInv'
  <2>1. \A q \in Inner : ino'[q] # Absent => ino'[Up[q]] # Absent
    BY <1>0, <1>3, Tree DEF TreeInv
  <2> QED BY <2>1, <1>0, <1>1, PutKeepsTree
<1>5. ASSUME NEW q \in Paths
      PROVE  /\ watch'[q] \in Handles
             /\ q \notin S => watch'[q] = watch[q]
             /\ q \in S => watch'[q].ino = watch[q].ino /\ watch'[q].live = FALSE
  <2>1. watch[q] \in Handles
    BY <1>0 DEF WatchInv
  <2>2. CASE q \in S /\ watch[q] # Unwatched
    BY <2>1, <2>2, <1>1 DEF Handles
  <2>3. CASE q \notin S \/ watch[q] = Unwatched
    BY <2>1, <2>3, <1>1 DEF Unwatched
  <2> QED BY <2>2, <2>3
<1>6. watch' \in [Paths -> Handles]
  BY <1>1, <1>5
<1>7. /\ events \subseteq events' /\ events' \subseteq Named
      /\ \A e \in events' : e \in events \/ watch[e[1]].live
      /\ watch[Up[p]].live => Tells(events', p)
  <2>0. p \in Children(Up[p])
    BY <1>0 DEF Children
  <2>1. /\ Heard(Up[p], p) \subseteq Named
        /\ \A e \in Heard(Up[p], p) : e[1] = Up[p] /\ watch[Up[p]].live
        /\ watch[Up[p]].live => Tells(Heard(Up[p], p), p)
    BY <2>0, <1>0, Hearing
  <2>2. watch[Up[p]].live => Tells(events', p)
    BY <2>1, <1>1 DEF Tells
  <2> QED BY <2>1, <2>2, <1>0, <1>1 DEF WatchInv
<1>8. EditStep(p, S, {})
  BY <1>0, <1>1, <1>2, <1>3, <1>5, <1>6, <1>7 DEF EditStep, Edited
<1> QED BY <1>4, <1>8, EditKeeps

LEMMA EditsKeep ==
  ASSUME IInv, Steady, Edit
  PROVE  IInv'
BY WriteKeeps, PlaceKeeps, RetargetKeeps, MakeKeeps, RemoveKeeps DEF Edit

-----------------------------------------------------------------------------
(* A step of the running call hd: the handles of S close, and the frames of  *)
(* N take its place.                                                        *)

LEMMA Kept ==
  ASSUME WatchInv, UNCHANGED <<watch, events, handling>>
  PROVE  Unwatch({})
BY DEF WatchInv, Unwatch

HandlerStep(hd, S, N) ==
    /\ stack # <<>> /\ hd = Head(stack)
    /\ S = {} \/ (hd.op # "each" /\ hd.path \in Inner /\ S = Below[hd.path])
    /\ Unwatch(S) /\ UNCHANGED <<tree, mode, loaded>>
    /\ pending \subseteq pending' /\ LoopInv'
    /\ stack' \in Seq(Frames) /\ Nested(stack')
    /\ FramesOf(stack') = N \cup FramesOf(Tail(stack))
    /\ \A fr \in Deep(stack') : fr.op \in {"scan", "each"}
    /\ \A fr \in N : Founded(fr)'

\* What the call looked at, or closed the handle of.
InHand(hd, S, q) == Leads(hd, q) \/ (S # {} /\ q = hd.path)

\* It is right now, or for a new call or an event to look at.
LooksOn(hd, S, N) ==
    /\ \A q \in Inner :
          InHand(hd, S, q) /\ Standing(Up[q])' =>
             Right(q)' \/ (\E fr \in N : Leads(fr, q)') \/ Tells(events, q)
    /\ mode = "serving" =>
          \A f \in Files :
             InHand(hd, S, f) /\ Standing(Up[f])' /\ content[f] # Absent =>
                f \in pending' \/ pending' \cap Dirs # {} \/ \E fr \in N : Leads(fr, f)'
    /\ hd.op \in {"entry", "watch"} /\ hd.path = Root =>
          Standing(Root)' \/ \E fr \in N : fr.op \in {"entry", "watch"} /\ fr.path = Root
    /\ \A fr \in N : fr.op \in {"watch", "restat"} => fr.ino = ino[fr.path]

LEMMA HandlerKeeps ==
  ASSUME IInv, NEW hd, NEW S, NEW N, HandlerStep(hd, S, N), LooksOn(hd, S, N)
  PROVE  IInv'
<1> DEFINE R == FramesOf(Tail(stack))
<1>0. /\ ino' = ino /\ content' = content /\ edits' = edits /\ mode' = mode /\ loaded' = loaded
      /\ stack # <<>> /\ hd = Head(stack) /\ stack \in Seq(Frames)
      /\ TreeInv /\ WatchInv /\ StackInv /\ Watching /\ Replaced /\ Reporting /\ RootHeld
      /\ pending \subseteq pending' /\ LoopInv'
  BY DEF HandlerStep, IInv, StackInv, tree
<1>1. /\ watch' = [p \in Paths |-> IF p \in S THEN Unwatched ELSE watch[p]]
      /\ events' = {e \in events : e[1] \notin S}
      /\ handling' = {e \in handling : e[1] \notin S}
  BY DEF HandlerStep, Unwatch
<1>2. /\ FramesOf(stack) = {hd} \cup R /\ Deep(stack) = R
      /\ FramesOf(stack') = N \cup R
      /\ \A fr \in R : fr.op \in {"scan", "each"} /\ Clear(hd, fr)
      /\ \A fr \in R : Founded(fr) /\ fr \in Frames
  BY <1>0, Popped DEF HandlerStep, StackInv
<1>3. /\ Root \notin S
      /\ \A q \in S : q = hd.path \/ (q \in Inner /\ Up[q] \in S)
      /\ \A q \in Inner : Up[q] \in S => q \in S
      /\ S # {} => hd.op # "each" /\ hd.path \in Inner /\ S = Below[hd.path]
  <2>1. CASE S = {}
    BY <2>1
  <2>2. CASE S # {}
    <3>1. hd.op # "each" /\ hd.path \in Inner /\ hd.path \in Paths /\ S = Below[hd.path]
      BY <2>2, Tree DEF HandlerStep
    <3>2. Root \notin S
      BY <3>1, TreeDown
    <3> QED BY <3>1, <3>2, Tree
  <2> QED BY <2>1, <2>2
<1> HIDE DEF R
<1>4. /\ \A q \in Paths : q \notin S => watch'[q] = watch[q]
      /\ \A q \in Paths : q \in S => watch'[q].ino = Absent /\ watch'[q].live = FALSE
      /\ \A q \in Paths : watch'[q].ino # Absent \/ watch'[q].live => q \notin S
  BY <1>1 DEF Unwatched
<1>5. \A q \in Inner : Standing(Up[q])' =>
         Standing(Up[q]) /\ Up[q] \notin S /\ (q \notin S \/ (S # {} /\ q = hd.path))
  <2> SUFFICES ASSUME NEW q \in Inner, Standing(Up[q])'
               PROVE  Standing(Up[q]) /\ Up[q] \notin S /\ (q \notin S \/ (S # {} /\ q = hd.path))
    OBVIOUS
  <2>1. Up[q] \in Paths /\ Up[q] \notin S
    BY <1>4, Tree DEF Standing
  <2>2. Standing(Up[q])
    BY <2>1, <1>0, <1>4 DEF Standing
  <2> QED BY <2>1, <2>2, <1>3
<1>6. \A q \in Inner : q \notin S /\ Right(q) => Right(q)'
  BY <1>0, <1>4, Tree DEF Right, Standing
<1>7. \A q \in Inner : Up[q] \notin S /\ Tells(events \cup handling, q) => Announced(q)'
  BY <1>1 DEF Announced, Tells
<1>8. \A q \in Inner : q \notin S /\ Up[q] \notin S /\ Announced(q) => Announced(q)'
  BY <1>1, <1>7 DEF Announced
<1>9. \A fr, q : Leads(fr, q)' <=> Leads(fr, q)
  BY <1>0 DEF Leads
<1>10. \A q \in Inner : q \notin S /\ Up[q] \notin S /\ Visit(q) => Visit(q)' \/ Leads(hd, q)
  BY <1>2, <1>8, <1>9 DEF Visit
<1>11. \A q \in Inner : (\E fr \in N : Leads(fr, q)') => Visit(q)'
  BY <1>2 DEF Visit
<1>12. WatchInv'
  <2>1. watch' \in [Paths -> Handles]
    BY <1>0, <1>1 DEF WatchInv, Handles, Unwatched, Absent
  <2>2. ASSUME NEW p \in Paths
        PROVE  /\ watch'[p].ino <= edits' + 1
               /\ watch'[p].live => watch'[p].ino # Absent /\ ino'[p] # Absent
               /\ watch'[p].ino # Absent /\ watch'[p].live = FALSE => watch'[p].ino # ino'[p]
               /\ watch'[p].ino # Absent => p \in Watchable
    <3>1. CASE p \in S
      BY <3>1, <1>0, <1>4 DEF Absent, TreeInv
    <3>2. CASE p \notin S
      BY <3>2, <1>0, <1>4 DEF WatchInv
    <3> QED BY <3>1, <3>2
  <2>3. \A p \in Inner : watch'[p].ino # Absent => watch'[Up[p]].ino # Absent
    <3> SUFFICES ASSUME NEW p \in Inner, watch'[p].ino # Absent PROVE watch'[Up[p]].ino # Absent
      OBVIOUS
    <3>1. p \notin S /\ Up[p] \notin S /\ p \in Paths /\ Up[p] \in Paths
      BY <1>3, <1>4, Tree
    <3> QED BY <3>1, <1>0, <1>4 DEF WatchInv
  <2>4. /\ events' \subseteq Named /\ handling' \subseteq Named
        /\ \A e \in events' \cup handling' : watch'[e[1]].ino # Absent
    <3>1. events' \subseteq events /\ handling' \subseteq handling
      BY <1>1
    <3>2. ASSUME NEW e \in events' \cup handling' PROVE watch'[e[1]].ino # Absent
      <4>1. e \in events \cup handling /\ e[1] \notin S
        BY <1>1
      <4>2. e[1] \in Paths
        BY <4>1, <1>0, Tree DEF WatchInv, Named
      <4> QED BY <4>1, <4>2, <1>0, <1>4 DEF WatchInv
    <3> QED BY <3>1, <3>2, <1>0 DEF WatchInv
  <2> QED BY <2>1, <2>2, <2>3, <2>4 DEF WatchInv
<1>13. StackInv'
  <2>1. ASSUME NEW fr \in R PROVE Founded(fr)'
    <3>1. fr.op \in {"scan", "each"} /\ Clear(hd, fr) /\ Founded(fr) /\ fr.path \in Paths
      BY <1>2 DEF Frames
    <3>2. fr.path \notin S
      BY <3>1, <1>3 DEF Clear, Acts
    <3>3. watch'[fr.path] = watch[fr.path]
      BY <3>1, <3>2, <1>4
    <3> QED BY <3>1, <3>3, <1>0 DEF Founded
  <2>2. \A fr \in FramesOf(stack') : Founded(fr)'
    BY <2>1, <1>2 DEF HandlerStep
  <2>3. mode' # "stopped"
    BY <1>0 DEF StackInv
  <2>4. (handling' # {} => mode' = "serving") /\ \A a, b \in handling' : a = b
    BY <1>0, <1>1 DEF StackInv
  <2> QED BY <2>2, <2>3, <2>4 DEF StackInv, HandlerStep
<1>14. Watching'
  <2> SUFFICES ASSUME NEW q \in Inner, Standing(Up[q])' PROVE Right(q)' \/ Visit(q)'
    BY DEF Watching
  <2>1. Standing(Up[q]) /\ Up[q] \notin S /\ (q \notin S \/ InHand(hd, S, q))
    BY <1>5 DEF InHand
  <2>2. CASE InHand(hd, S, q)
    <3>1. Right(q)' \/ (\E fr \in N : Leads(fr, q)') \/ Tells(events, q)
      BY <2>2 DEF LooksOn
    <3>2. Tells(events, q) => Visit(q)'
      BY <2>1, <1>7 DEF Visit, Tells
    <3> QED BY <3>1, <3>2, <1>11
  <2>3. CASE ~InHand(hd, S, q)
    <3>1. q \notin S /\ ~Leads(hd, q)
      BY <2>1, <2>3 DEF InHand
    <3> QED BY <3>1, <2>1, <1>0, <1>6, <1>10 DEF Watching
  <2> QED BY <2>2, <2>3
<1>15. Replaced'
  <2> SUFFICES ASSUME NEW fr \in FramesOf(stack'), fr.op \in {"watch", "restat"}
               PROVE  fr.ino = ino'[fr.path]
    BY DEF Replaced
  <2> QED BY <1>0, <1>2 DEF LooksOn
<1>16. Reporting'
  <2> SUFFICES ASSUME mode = "serving", NEW f \in Files, Standing(Up[f])',
                      content[f] # Absent, loaded[f] # content[f]
               PROVE  f \in pending' \/ pending' \cap Dirs # {} \/ Visit(f)'
    BY <1>0 DEF Reporting
  <2>0. f \in Inner
    BY Tree
  <2>1. Standing(Up[f]) /\ Up[f] \notin S /\ (f \notin S \/ InHand(hd, S, f))
    BY <2>0, <1>5 DEF InHand
  <2>2. CASE InHand(hd, S, f)
    BY <2>0, <2>2, <1>11 DEF LooksOn
  <2>3. CASE ~InHand(hd, S, f)
    <3>1. f \notin S /\ ~Leads(hd, f)
      BY <2>1, <2>3 DEF InHand
    <3>2. f \in pending \/ pending \cap Dirs # {} \/ Visit(f)
      BY <2>1, <1>0 DEF Reporting
    <3> QED BY <3>1, <3>2, <2>0, <2>1, <1>0, <1>10
  <2> QED BY <2>2, <2>3
<1>17. RootHeld'
  <2>0. watch'[Root] = watch[Root]
    BY <1>3, <1>4, Tree
  <2> SUFFICES ASSUME mode # "stopped"
               PROVE  Standing(Root)' \/ \E fr \in N : fr.op \in {"entry", "watch"} /\ fr.path = Root
    BY <2>0, <1>0, <1>2 DEF RootHeld
  <2>1. CASE Standing(Root)
    BY <2>1, <1>0, <1>3, <1>4, Tree DEF Standing
  <2>2. CASE ~Standing(Root)
    <3>1. hd.op \in {"entry", "watch"} /\ hd.path = Root
      BY <2>2, <1>0, <1>2 DEF RootHeld
    <3> QED BY <3>1 DEF LooksOn
  <2> QED BY <2>1, <2>2
<1>18. TreeInv'
  BY <1>0 DEF TreeInv
<1> QED BY <1>0, <1>12, <1>13, <1>14, <1>15, <1>16, <1>17, <1>18 DEF IInv

LEMMA Calls0 ==
  ASSUME StackInv, stack # <<>>, Calls(<<>>)
  PROVE  /\ stack' \in Seq(Frames) /\ Nested(stack')
         /\ FramesOf(stack') = {} \cup FramesOf(Tail(stack))
         /\ \A fr \in Deep(stack') : fr.op \in {"scan", "each"}
<1>1. stack' = Tail(stack)
  BY Popped DEF Calls, StackInv
<1>2. \A fr \in FramesOf(Tail(stack)) : fr.op \in {"scan", "each"}
  BY Popped DEF StackInv
<1>3. Deep(Tail(stack)) \subseteq FramesOf(Tail(stack))
  BY DEF Deep, FramesOf
<1> QED BY <1>1, <1>2, <1>3, Popped DEF StackInv

LEMMA Calls1 ==
  ASSUME StackInv, stack # <<>>, NEW a \in Frames, Calls(<<a>>),
         \A b \in FramesOf(Tail(stack)) : Clear(a, b)
  PROVE  /\ stack' \in Seq(Frames) /\ Nested(stack')
         /\ FramesOf(stack') = {a} \cup FramesOf(Tail(stack))
         /\ \A fr \in Deep(stack') : fr.op \in {"scan", "each"}
<1>1. Tail(stack) \in Seq(Frames) /\ Nested(Tail(stack))
      /\ \A fr \in FramesOf(Tail(stack)) : fr.op \in {"scan", "each"}
  BY Popped DEF StackInv
<1> DEFINE r == Tail(stack)
<1>2. stack' = <<a>> \o r
  BY DEF Calls
<1> HIDE DEF r
<1>3. /\ <<a>> \o r \in Seq(Frames) /\ FramesOf(<<a>> \o r) = {a} \cup FramesOf(r)
      /\ Deep(<<a>> \o r) = FramesOf(r)
      /\ Nested(r) /\ (\A b \in FramesOf(r) : Clear(a, b)) => Nested(<<a>> \o r)
  BY <1>1, Pushed DEF r
<1> QED BY <1>1, <1>2, <1>3 DEF r

LEMMA Calls2 ==
  ASSUME StackInv, stack # <<>>, NEW a \in Frames, NEW b \in Frames, Calls(<<a, b>>),
         b.op \in {"scan", "each"}, Clear(a, b),
         \A c \in FramesOf(Tail(stack)) : Clear(a, c) /\ Clear(b, c)
  PROVE  /\ stack' \in Seq(Frames) /\ Nested(stack')
         /\ FramesOf(stack') = {a, b} \cup FramesOf(Tail(stack))
         /\ \A fr \in Deep(stack') : fr.op \in {"scan", "each"}
<1> DEFINE r == Tail(stack)
           t == <<b>> \o r
<1>1. r \in Seq(Frames) /\ Nested(r) /\ \A fr \in FramesOf(r) : fr.op \in {"scan", "each"}
  BY Popped DEF StackInv
<1>2. stack' = <<a, b>> \o r
  BY DEF Calls
<1>3. \A c \in FramesOf(r) : Clear(a, c) /\ Clear(b, c)
  OBVIOUS
<1> HIDE DEF r
<1>4. stack' = <<a>> \o t
  <2>1. r \in Seq(Frames) /\ Len(r) \in Nat
    BY <1>1
  <2>2. t \in Seq(Frames) /\ Len(t) = Len(r) + 1 /\ t[1] = b /\ \A i \in 1..Len(r) : t[i + 1] = r[i]
    BY <2>1
  <2> DEFINE u == <<a>> \o t
             v == <<a, b>> \o r
  <2>3. u \in Seq(Frames) /\ Len(u) = Len(t) + 1 /\ u[1] = a /\ \A i \in 1..Len(t) : u[i + 1] = t[i]
    <3> HIDE DEF t
    <3> QED BY <2>2
  <2>4. <<a, b>> \in Seq(Frames) /\ Len(<<a, b>>) = 2 /\ <<a, b>>[1] = a /\ <<a, b>>[2] = b
    OBVIOUS
  <2>5. v \in Seq(Frames) /\ Len(v) = Len(r) + 2 /\ v[1] = a /\ v[2] = b
        /\ \A i \in 1..Len(r) : v[i + 2] = r[i]
    BY <2>1
  <2> HIDE DEF u, v, t
  <2>6. \A i \in 1..Len(u) : u[i] = v[i]
    <3> SUFFICES ASSUME NEW i \in 1..Len(u) PROVE u[i] = v[i]
      OBVIOUS
    <3>1. CASE i = 1
      BY <3>1, <2>3, <2>5
    <3>2. CASE i = 2
      <4>1. 1 \in 1..Len(t) /\ u[1 + 1] = t[1]
        BY <2>1, <2>2, <2>3
      <4> QED BY <3>2, <4>1, <2>2, <2>5
    <3>3. CASE i > 2
      <4>1. i - 1 \in 1..Len(t) /\ u[(i - 1) + 1] = t[i - 1]
        BY <3>3, <2>1, <2>2, <2>3
      <4>2. i - 2 \in 1..Len(r) /\ t[(i - 2) + 1] = r[i - 2] /\ v[(i - 2) + 2] = r[i - 2]
        BY <3>3, <2>1, <2>2, <2>3, <2>5
      <4>3. (i - 1) + 1 = i /\ (i - 2) + 1 = i - 1 /\ (i - 2) + 2 = i
        OBVIOUS
      <4> QED BY <4>1, <4>2, <4>3
    <3> QED BY <3>1, <3>2, <3>3
  <2>7. u = v
    BY <2>1, <2>2, <2>3, <2>5, <2>6
  <2> QED BY <2>7, <1>2 DEF u, v
<1>5. t \in Seq(Frames) /\ FramesOf(t) = {b} \cup FramesOf(r) /\ Nested(t)
  BY <1>1, <1>3, Pushed
<1> HIDE DEF t
<1>6. /\ <<a>> \o t \in Seq(Frames) /\ FramesOf(<<a>> \o t) = {a} \cup FramesOf(t)
      /\ Deep(<<a>> \o t) = FramesOf(t)
      /\ Nested(t) /\ (\A c \in FramesOf(t) : Clear(a, c)) => Nested(<<a>> \o t)
  BY <1>5, Pushed
<1>7. \A c \in FramesOf(t) : Clear(a, c) /\ c.op \in {"scan", "each"}
  BY <1>1, <1>3, <1>5
<1>8. FramesOf(stack') = {a, b} \cup FramesOf(r)
  BY <1>4, <1>5, <1>6
<1> QED BY <1>4, <1>5, <1>6, <1>7, <1>8 DEF r

LEMMA Enqueued ==
  ASSUME LoopInv, NEW Q, Q \subseteq Paths, Enqueue(Q), UNCHANGED <<mode, loaded>>
  PROVE  LoopInv' /\ pending \subseteq pending' /\ Q \ {Root} \subseteq pending'
<1>1. pending' = pending \cup (Q \ {Root}) /\ timer' = (timer \/ Q \ {Root} # {})
  BY DEF Enqueue
<1>2. pending' # {} <=> timer'
  BY <1>1 DEF LoopInv
<1>3. timer' \in BOOLEAN
  BY <1>1
<1>4. pending' \subseteq Inner
  BY <1>1 DEF LoopInv, Inner
<1> QED BY <1>1, <1>2, <1>3, <1>4 DEF LoopInv

\* The running call, of which the steps speak.
LEMMA TheCall ==
  ASSUME IInv, stack # <<>>
  PROVE  /\ Head(stack) \in Frames /\ Head(stack).path \in Paths
         /\ Head(stack) \in FramesOf(stack) /\ Founded(Head(stack))
         /\ \A b \in FramesOf(Tail(stack)) : Clear(Head(stack), b)
         /\ \A fr \in FramesOf(Tail(stack)) : Founded(fr) /\ fr.op \in {"scan", "each"}
         /\ mode # "stopped" /\ Head(stack).notify \in BOOLEAN
<1>1. stack \in Seq(Frames) /\ Nested(stack) /\ StackInv
  BY DEF IInv, StackInv
<1>2. /\ Head(stack) \in Frames /\ FramesOf(stack) = {Head(stack)} \cup FramesOf(Tail(stack))
      /\ Deep(stack) = FramesOf(Tail(stack))
      /\ \A b \in FramesOf(Tail(stack)) : Clear(Head(stack), b)
  BY <1>1, Popped
<1> QED BY <1>1, <1>2 DEF StackInv, Frames

LEMMA Watched ==
  ASSUME WatchInv, NEW p \in Paths
  PROVE  /\ watch[p] # Unwatched <=> watch[p].ino # Absent
         /\ watch[p].ino \in Nat /\ watch[p].live \in BOOLEAN
         /\ watch[p].ino # Absent /\ watch[p].ino = ino[p] => Standing(p)
<1>1. watch[p] \in Handles /\ (watch[p].live => watch[p].ino # Absent)
  BY DEF WatchInv
<1>2. watch[p] = Unwatched <=> watch[p].ino = Absent
  <2>1. watch[p] = [ino |-> watch[p].ino, live |-> watch[p].live] /\ watch[p].live \in BOOLEAN
    BY <1>1 DEF Handles
  <2>2. CASE watch[p].ino = Absent
    <3>1. watch[p].live = FALSE
      BY <1>1, <2>1, <2>2
    <3> QED BY <2>1, <2>2, <3>1 DEF Unwatched
  <2>3. CASE watch[p].ino # Absent
    BY <2>3 DEF Unwatched
  <2> QED BY <2>2, <2>3
<1> QED BY <1>1, <1>2 DEF WatchInv, Handles, Standing

-----------------------------------------------------------------------------
(* The calls, one by one *)

LEMMA EntryKeeps ==
  ASSUME IInv, EntryStep
  PROVE  IInv'
<1>a. PICK hd : hd = Head(stack)
  OBVIOUS
<1> DEFINE p == hd.path
<1>b. PICK i : i = ino[p]
  OBVIOUS
<1> DEFINE needs == p \in Watchable /\ ino[p] # Absent
           retire == watch[p] # Unwatched /\ (~needs \/ watch[p].ino # ino[p])
           attach == needs /\ (retire \/ watch[p] = Unwatched)
<1>c. PICK S : S = IF retire THEN Below[p] ELSE {}
  OBVIOUS
<1> DEFINE a == Frame("watch", p, i, {}, hd.notify)
<1>d. PICK N : N = IF attach THEN {a} ELSE {}
  OBVIOUS
<1> DEFINE Q == IF ~hd.notify THEN {}
                ELSE (IF retire THEN {p} \cap Dirs ELSE {}) \cup (IF attach THEN {} ELSE {p} \cap Files)
<1>0. /\ stack # <<>> /\ hd.op = "entry" /\ Unwatch(S)
      /\ Calls(IF attach THEN <<a>> ELSE <<>>) /\ Enqueue(Q)
      /\ UNCHANGED <<tree, mode, loaded>>
  BY <1>a, <1>b, <1>c DEF EntryStep, Doing, Top
<1>1. /\ hd \in Frames /\ p \in Paths /\ Founded(hd) /\ hd.notify \in BOOLEAN /\ mode # "stopped"
      /\ \A b \in FramesOf(Tail(stack)) : Clear(hd, b)
  BY <1>0, <1>a, TheCall
<1>2. TreeInv /\ WatchInv /\ LoopInv /\ StackInv /\ Watching /\ RootHeld
  BY DEF IInv
<1>3. ino' = ino /\ content' = content /\ edits' = edits /\ mode' = mode
      /\ watch' = [q \in Paths |-> IF q \in S THEN Unwatched ELSE watch[q]]
  BY <1>0 DEF tree, Unwatch
<1>4. /\ watch[p] # Unwatched <=> watch[p].ino # Absent
      /\ watch[p].ino # Absent /\ watch[p].ino = ino[p] => Standing(p)
  BY <1>1, <1>2, Watched
<1>5. p = Root => needs /\ ~retire
  BY <1>2, <1>4, Tree DEF RootHeld, TreeInv
<1>6. /\ retire => p \in Inner /\ S = Below[p] /\ p \in S /\ Up[p] \notin S /\ Up[p] \in Paths
      /\ ~retire => S = {} /\ watch' = watch
  BY <1>1, <1>2, <1>3, <1>5, <1>c, Tree, TreeDown DEF Inner, WatchInv
<1>7. /\ p # Root => p \in Inner /\ Up[p] \in Paths /\ watch'[Up[p]] = watch[Up[p]]
      /\ needs /\ ~attach => ~retire /\ watch[p].ino = ino[p] /\ watch[p].ino # Absent
      /\ ~needs /\ p \in Watchable => watch'[p].ino = Absent
      /\ attach => watch'[p].ino = Absent
  <2>1. p # Root => p \in Inner /\ Up[p] \in Paths /\ watch'[Up[p]] = watch[Up[p]]
    BY <1>1, <1>3, <1>6, Tree DEF Inner
  <2>2. retire => watch'[p].ino = Absent
    BY <1>1, <1>3, <1>6 DEF Unwatched
  <2>3. ~retire => watch'[p] = watch[p]
    BY <1>6
  <2> QED BY <2>1, <2>2, <2>3, <1>4
<1>8. attach => a \in Frames /\ \A b \in FramesOf(Tail(stack)) : Clear(a, b)
  <2> SUFFICES ASSUME attach PROVE a \in Frames /\ \A b \in FramesOf(Tail(stack)) : Clear(a, b)
    OBVIOUS
  <2>1. i \in Inodes
    BY <1>1, <1>2, <1>b, BoundAssumption DEF TreeInv, Inodes, Absent
  <2> QED BY <2>1, <1>0, <1>1 DEF Frame, Frames, Clear, Acts
<1>9. /\ stack' \in Seq(Frames) /\ Nested(stack')
      /\ FramesOf(stack') = N \cup FramesOf(Tail(stack))
      /\ \A fr \in Deep(stack') : fr.op \in {"scan", "each"}
  <2>1. CASE attach
    <3> HIDE DEF attach, a
    <3>1. Calls(<<a>>) /\ N = {a}
      BY <2>1, <1>0, <1>d
    <3> QED BY <2>1, <3>1, <1>0, <1>2, <1>8, Calls1
  <2>2. CASE ~attach
    <3> HIDE DEF attach, a
    <3>1. Calls(<<>>) /\ N = {}
      BY <2>2, <1>0, <1>d
    <3> QED BY <3>1, <1>0, <1>2, Calls0
  <2> QED BY <2>1, <2>2
<1>10. attach => Founded(a)'
  <2> SUFFICES ASSUME attach PROVE Founded(a)'
    OBVIOUS
  <2>1. a.op = "watch" /\ a.path = p /\ a.ino = i /\ a.notify = hd.notify /\ a.kids = {}
    BY DEF Frame
  <2>2. i \in 1..(edits + 1)
    BY <1>1, <1>2, <1>b DEF TreeInv, Absent
  <2>3. p # Root => watch'[Up[p]].ino # Absent
    BY <1>0, <1>1, <1>7 DEF Founded
  <2>4. mode = "serving" => hd.notify = TRUE
    BY <1>1 DEF Founded
  <2>5. p = Root => i = ino'[Root]
    BY <1>3, <1>b
  <2>6. p \in Watchable /\ watch'[p].ino = Absent
    BY <1>7
  <2> HIDE DEF a, p, attach
  <2> QED BY <2>1, <2>2, <2>3, <2>4, <2>5, <2>6, <1>3 DEF Founded
<1>11. LoopInv' /\ pending \subseteq pending' /\ Q \ {Root} \subseteq pending'
  <2>1. Q \subseteq Paths
    BY Tree DEF Inner
  <2> HIDE DEF Q
  <2> QED BY <2>1, <1>0, <1>2, Enqueued
<1>12. HandlerStep(hd, S, N)
  <2>1. S = {} \/ (hd.op # "each" /\ hd.path \in Inner /\ S = Below[hd.path])
    BY <1>0, <1>6
  <2>2. \A fr \in N : Founded(fr)'
    BY <1>10, <1>d
  <2> QED BY <2>1, <2>2, <1>0, <1>9, <1>11, <1>a DEF HandlerStep
<1>13. \A q : InHand(hd, S, q) => q = p
  BY <1>0 DEF InHand, Leads
<1>14. a.op = "watch" /\ a.path = p /\ a.ino = ino[p] /\ (attach => a \in N) /\ \A fr \in N : fr = a
  BY <1>b, <1>d DEF Frame
<1>15. Leads(a, p)'
  BY <1>3, <1>14 DEF Leads
<1>16. LooksOn(hd, S, N)
  <2>1. ASSUME NEW q \in Inner, InHand(hd, S, q)
        PROVE  Right(q)' \/ \E fr \in N : Leads(fr, q)'
    <3>1. q = p
      BY <2>1, <1>13
    <3>2. CASE attach
      BY <3>1, <3>2, <1>14, <1>15
    <3>3. CASE ~attach /\ needs
      <4>1. Standing(p) /\ watch' = watch
        BY <3>3, <1>4, <1>6, <1>7
      <4>2. Standing(p)'
        BY <4>1, <1>3 DEF Standing
      <4> QED BY <3>1, <3>3, <4>2, <1>3 DEF Right
    <3>4. CASE ~needs
      BY <3>1, <3>4, <1>3, <1>7 DEF Right
    <3> QED BY <3>2, <3>3, <3>4
  <2>2. ASSUME mode = "serving", NEW f \in Files, InHand(hd, S, f)
        PROVE  f \in pending' \/ \E fr \in N : Leads(fr, f)'
    <3>1. f = p /\ hd.notify /\ f # Root
      BY <2>2, <1>1, <1>13, Tree DEF Founded, Inner
    <3>2. CASE attach
      BY <3>1, <3>2, <1>14, <1>15
    <3>3. CASE ~attach
      <4>1. f \in Q \ {Root}
        BY <3>1, <3>3
      <4> QED BY <4>1, <1>11
    <3> QED BY <3>2, <3>3
  <2>3. hd.path = Root => Standing(Root)' \/ \E fr \in N : fr.op \in {"entry", "watch"} /\ fr.path = Root
    <3> SUFFICES ASSUME p = Root PROVE Standing(Root)' \/ \E fr \in N : fr.op \in {"entry", "watch"} /\ fr.path = Root
      OBVIOUS
    <3>1. CASE attach
      BY <3>1, <1>14
    <3>2. CASE ~attach
      <4>1. Standing(p) /\ watch' = watch
        BY <3>2, <1>4, <1>5, <1>6, <1>7
      <4> QED BY <4>1, <1>3 DEF Standing
    <3> QED BY <3>1, <3>2
  <2>4. \A fr \in N : fr.op \in {"watch", "restat"} => fr.ino = ino[fr.path]
    BY <1>14
  <2> QED BY <2>1, <2>2, <2>3, <2>4 DEF LooksOn
<1> QED BY <1>12, <1>16, HandlerKeeps

\* A call that ends in closing the handles from its path down.
LEMMA ClosingKeeps ==
  ASSUME IInv, NEW hd, hd = Head(stack), stack # <<>>, hd.op # "each", hd.path \in Inner,
         Calls(<<>>), Unwatch(Below[hd.path]), NEW Q, Q \subseteq Paths, Enqueue(Q),
         UNCHANGED <<tree, mode, loaded>>,
         Standing(Up[hd.path])' => Right(hd.path)' \/ Tells(events, hd.path),
         hd.path \in Files /\ mode = "serving" /\ content[hd.path] # Absent => hd.path \in Q
  PROVE  IInv'
<1> DEFINE p == hd.path
           S == Below[p]
<1>0. /\ ino' = ino /\ TreeInv /\ WatchInv /\ LoopInv /\ StackInv
      /\ watch' = [q \in Paths |-> IF q \in S THEN Unwatched ELSE watch[q]]
      /\ p \in S /\ p \in Paths /\ p # Root
  BY Tree DEF tree, Unwatch, IInv, Inner
<1>1. /\ stack' \in Seq(Frames) /\ Nested(stack')
      /\ FramesOf(stack') = {} \cup FramesOf(Tail(stack))
      /\ \A fr \in Deep(stack') : fr.op \in {"scan", "each"}
  BY <1>0, Calls0
<1>2. LoopInv' /\ pending \subseteq pending' /\ Q \ {Root} \subseteq pending'
  BY <1>0, Enqueued
<1>3. HandlerStep(hd, S, {})
  BY <1>1, <1>2 DEF HandlerStep
\* What is below the path is not under a directory that is watched.
<1>5. \A q \in Inner : InHand(hd, S, q) /\ Standing(Up[q])' => q = p
  <2> SUFFICES ASSUME NEW q \in Inner, InHand(hd, S, q), Standing(Up[q])' PROVE q = p
    OBVIOUS
  <2>1. Up[q] # p
    <3> SUFFICES ASSUME Up[q] = p PROVE FALSE
      OBVIOUS
    <3>1. watch'[p].live = FALSE
      BY <1>0 DEF Unwatched
    <3> QED BY <3>1 DEF Standing
  <2> QED BY <2>1 DEF InHand, Leads
<1>6. LooksOn(hd, S, {})
  <2>1. \A f \in Files : mode = "serving" /\ InHand(hd, S, f) /\ Standing(Up[f])' /\ content[f] # Absent => f \in pending'
    BY <1>0, <1>2, <1>5, Tree
  <2>2. \A q \in Inner : InHand(hd, S, q) /\ Standing(Up[q])' => Right(q)' \/ Tells(events, q)
    BY <1>5
  <2> HIDE DEF S
  <2> QED BY <2>1, <2>2, <1>0 DEF LooksOn
<1> HIDE DEF S
<1> QED BY <1>3, <1>6, HandlerKeeps

LEMMA RestatKeeps ==
  ASSUME IInv, Restat
  PROVE  IInv'
<1>a. PICK hd : hd = Head(stack)
  OBVIOUS
<1> DEFINE p == hd.path
<1>0. /\ stack # <<>> /\ hd.op = "restat" /\ UNCHANGED <<tree, mode, loaded>>
      /\ TreeInv /\ WatchInv /\ LoopInv /\ StackInv /\ Watching /\ Replaced /\ RootHeld
      /\ ino' = ino
  BY <1>a DEF Restat, Doing, Top, IInv, tree
<1>1. /\ hd \in Frames /\ p \in Paths /\ Founded(hd) /\ hd.notify \in BOOLEAN /\ mode # "stopped"
      /\ \A b \in FramesOf(Tail(stack)) : Clear(hd, b)
      /\ hd \in FramesOf(stack)
  BY <1>0, <1>a, TheCall
<1>2. /\ mode = "serving" => hd.notify
      /\ p \in Watchable /\ hd.ino \in Nat /\ hd.ino # Absent /\ watch[p].ino = hd.ino
      /\ p = Root => hd.ino = ino[Root]
  BY <1>0, <1>1 DEF Founded, TreeInv, Absent
<1>3. CASE ino[p] # hd.ino
  <2> DEFINE Q == IF hd.notify THEN {p} ELSE {}
  <2>1. /\ Calls(<<>>) /\ Unwatch(Below[p]) /\ Enqueue(Q) /\ Q \subseteq Paths
    BY <1>1, <1>3, <1>a DEF Restat, Top
  <2>2. p \in Inner /\ Up[p] \in Paths /\ Up[p] \notin Below[p]
    BY <1>1, <1>2, <1>3, Tree, TreeDown DEF Inner
  <2>3. Standing(Up[p])' => Tells(events, p)
    <3> SUFFICES ASSUME Standing(Up[p])' PROVE Tells(events, p)
      OBVIOUS
    <3>1. watch'[Up[p]] = watch[Up[p]]
      BY <2>1, <2>2 DEF Unwatch
    <3>2. Standing(Up[p])
      BY <3>1, <1>0 DEF Standing
    <3> QED BY <3>2, <2>2, <1>0, <1>1, <1>3 DEF Replaced, Inner
  <2>4. p \in Files /\ mode = "serving" => p \in Q
    BY <1>2
  <2> HIDE DEF Q
  <2> QED BY <2>1, <2>2, <2>3, <2>4, <1>0, <1>a, ClosingKeeps
<1>4. CASE ino[p] = hd.ino
  <2> DEFINE Q == IF hd.notify THEN {p} \cap Files ELSE {}
             a == Scanning(p, hd.notify)
  <2>a. PICK N : N = IF p \in Dirs THEN {a} ELSE {}
    OBVIOUS
  <2>1. /\ Calls(IF p \in Dirs THEN <<a>> ELSE <<>>) /\ Enqueue(Q) /\ Q \subseteq Paths
        /\ UNCHANGED <<watch, events, handling>>
    BY <1>1, <1>4, <1>a DEF Restat, Top
  <2>2. Unwatch({})
    BY <2>1, <1>0, Kept
  <2>3. LoopInv' /\ pending \subseteq pending' /\ Q \ {Root} \subseteq pending'
    <3> HIDE DEF Q
    <3> QED BY <2>1, <1>0, Enqueued
  <2>4. /\ a.op = "scan" /\ a.path = p /\ a.kids = {} /\ a.notify = hd.notify
        /\ a \in Frames /\ \A b \in FramesOf(Tail(stack)) : Clear(a, b)
    BY <1>0, <1>1 DEF Scanning, Frame, Frames, Clear, Acts
  <2> HIDE DEF a
  <2>5. /\ stack' \in Seq(Frames) /\ Nested(stack')
        /\ FramesOf(stack') = N \cup FramesOf(Tail(stack))
        /\ \A fr \in Deep(stack') : fr.op \in {"scan", "each"}
    <3>1. CASE p \in Dirs
      BY <3>1, <2>a, <2>1, <2>4, <1>0, Calls1
    <3>2. CASE p \notin Dirs
      BY <3>2, <2>a, <2>1, <1>0, Calls0
    <3> QED BY <3>1, <3>2
  <2>6. \A fr \in N : Founded(fr)'
    BY <2>a, <2>1, <2>4, <1>0, <1>2 DEF Founded
  <2>7. HandlerStep(hd, {}, N)
    BY <2>2, <2>3, <2>5, <2>6, <1>0, <1>a DEF HandlerStep
  <2>8. Standing(p)'
    <3>1. Standing(p)
      BY <1>0, <1>1, <1>2, <1>4, Watched
    <3> QED BY <3>1, <2>1, <1>0 DEF Standing
  <2>9. ASSUME NEW q \in Inner, InHand(hd, {}, q)
        PROVE  q = p \/ \E fr \in N : Leads(fr, q)'
    <3>1. CASE q # p
      <4>1. p = Up[q] /\ ino[q] # Absent
        BY <2>9, <3>1, <1>0 DEF InHand, Leads
      <4>2. p \in Dirs /\ a \in N
        BY <4>1, <2>a, Tree
      <4> QED BY <4>1, <4>2, <2>4, <1>0 DEF Leads
    <3> QED BY <3>1
  <2>10. Right(p)'
    BY <2>8, <1>0, <1>2, <1>4 DEF Right
  <2>11. ASSUME mode = "serving", p \in Files PROVE p \in pending'
    BY <2>11, <2>3, <1>2, Tree DEF Inner
  <2>12. LooksOn(hd, {}, N)
    <3>1. \A q \in Inner : InHand(hd, {}, q) => Right(q)' \/ \E fr \in N : Leads(fr, q)'
      BY <2>9, <2>10
    <3>2. mode = "serving" => \A f \in Files : InHand(hd, {}, f) => f \in pending' \/ \E fr \in N : Leads(fr, f)'
      BY <2>9, <2>11, Tree
    <3>3. \A fr \in N : fr.op \notin {"watch", "restat"}
      BY <2>a, <2>4
    <3> QED BY <3>1, <3>2, <3>3, <1>0 DEF LooksOn
  <2> QED BY <2>7, <2>12, HandlerKeeps
<1> QED BY <1>3, <1>4

LEMMA ScanKeeps ==
  ASSUME IInv, Scan
  PROVE  IInv'
<1>a. PICK hd : hd = Head(stack)
  OBVIOUS
<1> DEFINE d == hd.path
<1>0. /\ stack # <<>> /\ hd.op = "scan" /\ UNCHANGED <<tree, mode, loaded>>
      /\ TreeInv /\ WatchInv /\ LoopInv /\ StackInv
      /\ ino' = ino /\ mode' = mode
  BY <1>a DEF Scan, Doing, Top, IInv, tree
<1>1. /\ hd \in Frames /\ d \in Paths /\ Founded(hd) /\ hd.notify \in BOOLEAN
      /\ \A b \in FramesOf(Tail(stack)) : Clear(hd, b)
  BY <1>0, <1>a, TheCall
<1>2. d \in Dirs /\ watch[d].ino # Absent /\ (mode = "serving" => hd.notify = TRUE)
  BY <1>0, <1>1 DEF Founded
<1>3. CASE ino[d] = Absent
  <2> DEFINE Q == IF hd.notify THEN {d} ELSE {}
  <2>1. /\ Calls(<<>>) /\ Unwatch(Below[d]) /\ Enqueue(Q) /\ Q \subseteq Paths
    BY <1>1, <1>3, <1>a DEF Scan, Top
  <2>2. d \in Inner /\ d \in Below[d] /\ d \notin Files
    BY <1>0, <1>1, <1>2, <1>3, Tree DEF Inner, TreeInv
  <2>3. Right(d)'
    <3>1. watch'[d].ino = Absent
      BY <2>1, <2>2, <1>1 DEF Unwatch, Unwatched
    <3> QED BY <3>1, <1>0, <1>3 DEF Right
  <2> HIDE DEF Q
  <2> QED BY <2>1, <2>2, <2>3, <1>0, <1>a, ClosingKeeps
<1>4. CASE ino[d] # Absent
  <2>a. PICK K : K = Present(d)
    OBVIOUS
  <2> DEFINE a == Each(d, K, hd.notify)
  <2>1. Calls(<<a>>) /\ UNCHANGED <<watch, events, handling, pending, timer>>
    BY <2>a, <1>4, <1>a DEF Scan, Top
  <2>2. Unwatch({}) /\ LoopInv' /\ pending \subseteq pending'
    BY <2>1, <1>0, Kept DEF LoopInv
  <2>3. K \subseteq Children(d) /\ K \subseteq Paths
    BY <2>a, Tree DEF Present, Children
  <2>4. \A k \in K : Below[k] \subseteq Below[d]
    BY <2>3, TreeDown DEF Children
  <2>5. /\ a.op = "each" /\ a.path = d /\ a.kids = K /\ a.notify = hd.notify
        /\ a \in Frames
    BY <1>1, <2>3 DEF Each, Frame, Frames
  <2> HIDE DEF a
  <2>6. \A b \in FramesOf(Tail(stack)) : Clear(a, b)
    BY <2>4, <2>5, <1>0, <1>1 DEF Clear, Acts
  <2>7. /\ stack' \in Seq(Frames) /\ Nested(stack')
        /\ FramesOf(stack') = {a} \cup FramesOf(Tail(stack))
        /\ \A fr \in Deep(stack') : fr.op \in {"scan", "each"}
    BY <2>1, <2>5, <2>6, <1>0, Calls1
  <2>8. Founded(a)'
    <3>1. a.kids \subseteq Children(a.path)
      BY <2>3, <2>5
    <3>2. watch'[a.path].ino # Absent /\ a.path \in Dirs
      BY <2>1, <2>5, <1>2
    <3> QED BY <3>1, <3>2, <2>5, <1>0, <1>2 DEF Founded, Children
  <2>9. HandlerStep(hd, {}, {a})
    BY <2>2, <2>7, <2>8, <1>0, <1>a DEF HandlerStep
  <2>10. ASSUME NEW q \in Inner, InHand(hd, {}, q) PROVE Leads(a, q)'
    <3>1. q \in K
      BY <2>10, <2>a, <1>0 DEF InHand, Leads, Present, Children
    <3> QED BY <3>1, <2>5 DEF Leads
  <2>11. LooksOn(hd, {}, {a})
    BY <2>5, <2>10, <1>0, Tree DEF LooksOn
  <2> QED BY <2>9, <2>11, HandlerKeeps
<1> QED BY <1>3, <1>4

LEMMA NextChildKeeps ==
  ASSUME IInv, NextChild
  PROVE  IInv'
<1>a. PICK hd : hd = Head(stack)
  OBVIOUS
<1> DEFINE d == hd.path
<1>0. /\ stack # <<>> /\ hd.op = "each" /\ UNCHANGED <<tree, mode, loaded>>
      /\ UNCHANGED <<watch, events, handling, pending, timer>>
      /\ TreeInv /\ WatchInv /\ LoopInv /\ StackInv
      /\ ino' = ino /\ mode' = mode
  BY <1>a DEF NextChild, Doing, Top, IInv, tree
<1>1. /\ hd \in Frames /\ d \in Paths /\ Founded(hd) /\ hd.notify \in BOOLEAN
      /\ \A b \in FramesOf(Tail(stack)) : Clear(hd, b)
  BY <1>0, <1>a, TheCall
<1>2. /\ d \in Dirs /\ watch[d].ino # Absent /\ (mode = "serving" => hd.notify = TRUE)
      /\ hd.kids \subseteq Children(d) /\ hd.kids \subseteq Inner
  BY <1>0, <1>1 DEF Founded, Children
<1>3. Unwatch({}) /\ LoopInv' /\ pending \subseteq pending'
  BY <1>0, Kept DEF LoopInv
<1>4. CASE hd.kids = {} /\ Calls(<<>>)
  <2>1. HandlerStep(hd, {}, {})
    BY <1>0, <1>3, <1>4, <1>a, Calls0 DEF HandlerStep
  <2>2. LooksOn(hd, {}, {})
    BY <1>0, <1>4 DEF LooksOn, InHand, Leads
  <2> QED BY <2>1, <2>2, HandlerKeeps
<1>5. ASSUME NEW p \in hd.kids, Calls(<<Entry(p, hd.notify), Each(d, hd.kids \ {p}, hd.notify)>>)
      PROVE  IInv'
  <2> DEFINE a == Entry(p, hd.notify)
             b == Each(d, hd.kids \ {p}, hd.notify)
  <2>1. Calls(<<a, b>>)
    BY <1>5
  <2>2. p \in Inner /\ p \in Paths /\ Up[p] = d /\ d \notin Below[p]
    BY <1>2, Tree, TreeDown DEF Children
  <2>3. /\ a.op = "entry" /\ a.path = p /\ a.kids = {} /\ a.notify = hd.notify
        /\ b.op = "each" /\ b.path = d /\ b.kids = hd.kids \ {p} /\ b.notify = hd.notify
        /\ a \in Frames /\ b \in Frames
    BY <1>1, <1>2, <2>2, Tree DEF Entry, Each, Frame, Frames
  <2> HIDE DEF a, b
  <2>4. Clear(a, b) /\ \A c \in FramesOf(Tail(stack)) : Clear(a, c) /\ Clear(b, c)
    BY <2>2, <2>3, <1>0, <1>1 DEF Clear, Acts
  <2>5. /\ stack' \in Seq(Frames) /\ Nested(stack')
        /\ FramesOf(stack') = {a, b} \cup FramesOf(Tail(stack))
        /\ \A fr \in Deep(stack') : fr.op \in {"scan", "each"}
    BY <2>1, <2>3, <2>4, <1>0, Calls2
  <2>6. Founded(a)' /\ Founded(b)'
    BY <2>2, <2>3, <1>0, <1>2 DEF Founded, Children
  <2>7. HandlerStep(hd, {}, {a, b})
    BY <2>5, <2>6, <1>0, <1>3, <1>a DEF HandlerStep
  <2>8. ASSUME NEW q \in Inner, InHand(hd, {}, q) PROVE Leads(a, q)' \/ Leads(b, q)'
    BY <2>3, <2>8, <1>0 DEF InHand, Leads
  <2>9. LooksOn(hd, {}, {a, b})
    BY <2>3, <2>8, <1>0, Tree DEF LooksOn
  <2> QED BY <2>7, <2>9, HandlerKeeps
<1> QED BY <1>4, <1>5, <1>a DEF NextChild, Top

LEMMA AttachKeeps ==
  ASSUME IInv, Attach
  PROVE  IInv'
<1>a. PICK hd : hd = Head(stack)
  OBVIOUS
<1> DEFINE p == hd.path
           R == FramesOf(Tail(stack))
<1>0. /\ stack # <<>> /\ hd.op = "watch" /\ UNCHANGED <<tree, mode, loaded>>
      /\ TreeInv /\ WatchInv /\ LoopInv /\ StackInv
      /\ Watching /\ Replaced /\ Reporting /\ RootHeld
      /\ ino' = ino /\ content' = content /\ edits' = edits
      /\ mode' = mode /\ loaded' = loaded
  BY <1>a DEF Attach, Doing, Top, IInv, tree
<1>1. /\ hd \in Frames /\ p \in Paths /\ Founded(hd) /\ hd.notify \in BOOLEAN /\ mode # "stopped"
      /\ hd \in FramesOf(stack)
      /\ \A b \in R : Clear(hd, b) /\ Founded(b) /\ b.op \in {"scan", "each"}
  BY <1>0, <1>a, TheCall
<1>2. /\ p \in Watchable /\ hd.ino \in 1..(edits + 1) /\ watch[p].ino = Absent
      /\ p # Root => p \in Inner /\ Up[p] \in Paths /\ Up[p] # p /\ watch[Up[p]].ino # Absent
      /\ p = Root => hd.ino = ino[Root]
      /\ mode = "serving" => hd.notify = TRUE
  BY <1>0, <1>1, Tree, TreeDown DEF Founded, Inner
<1>3. CASE ino[p] = Absent
  <2> DEFINE Q == IF hd.notify THEN {p} \cap Files ELSE {}
  <2>1. /\ Calls(<<>>) /\ Unwatch(Below[p]) /\ Enqueue(Q) /\ Q \subseteq Paths
    BY <1>1, <1>3, <1>a DEF Attach, Top
  <2>2. p \in Inner /\ p \in Below[p]
    BY <1>0, <1>1, <1>3, Tree DEF Inner, TreeInv
  <2>3. Right(p)'
    <3>1. watch'[p].ino = Absent
      BY <2>1, <2>2, <1>1 DEF Unwatch, Unwatched
    <3> QED BY <3>1, <1>0, <1>3 DEF Right
  <2>4. p \in Files => content[p] = Absent
    BY <1>0, <1>3 DEF TreeInv
  <2> HIDE DEF Q
  <2> QED BY <2>1, <2>2, <2>3, <2>4, <1>0, <1>a, ClosingKeeps
<1>4. CASE ino[p] # Absent
  <2>a. PICK a : a = Frame("restat", p, hd.ino, {}, hd.notify)
    OBVIOUS
  <2>1. /\ Calls(<<a>>) /\ UNCHANGED <<events, handling, pending, timer>>
        /\ watch' = [watch EXCEPT ![p] = [ino |-> hd.ino, live |-> TRUE]]
    BY <2>a, <1>4, <1>a DEF Attach, Top
  <2>2. /\ watch'[p].ino = hd.ino /\ watch'[p].live = TRUE
        /\ \A q \in Paths : q # p => watch'[q] = watch[q]
        /\ watch' \in [Paths -> Handles]
        /\ hd.ino \in Nat /\ hd.ino # Absent
    BY <2>1, <1>0, <1>1, <1>2 DEF WatchInv, Handles, TreeInv, Absent
  <2>3. /\ a.op = "restat" /\ a.path = p /\ a.ino = hd.ino /\ a.kids = {} /\ a.notify = hd.notify
        /\ a \in Frames /\ \A b \in R : Clear(a, b)
    BY <2>a, <1>0, <1>1 DEF Frame, Frames, Clear, Acts
  <2>4. /\ stack' \in Seq(Frames) /\ Nested(stack')
        /\ FramesOf(stack') = {a} \cup R
        /\ \A fr \in Deep(stack') : fr.op \in {"scan", "each"}
    BY <2>1, <2>3, <1>0, Calls1
  <2>5. FramesOf(stack) = {hd} \cup R
    BY <1>0, <1>a, Popped DEF StackInv
  <2> HIDE DEF p, R
\* The tree of watches.
  <2>6. WatchInv'
    <3>1. ASSUME NEW q \in Paths
          PROVE  /\ watch'[q].ino <= edits' + 1
                 /\ watch'[q].live => watch'[q].ino # Absent /\ ino'[q] # Absent
                 /\ watch'[q].ino # Absent /\ watch'[q].live = FALSE => watch'[q].ino # ino'[q]
                 /\ watch'[q].ino # Absent => q \in Watchable
      <4>1. CASE q = p
        BY <4>1, <2>2, <1>0, <1>2, <1>4 DEF TreeInv
      <4>2. CASE q # p
        BY <4>2, <2>2, <1>0 DEF WatchInv
      <4> QED BY <4>1, <4>2
    <3>2. ASSUME NEW q \in Inner, watch'[q].ino # Absent PROVE watch'[Up[q]].ino # Absent
      <4>1. q \in Paths /\ Up[q] \in Paths
        BY Tree
      <4>2. CASE Up[q] = p
        BY <4>2, <2>2
      <4>3. CASE Up[q] # p /\ q # p
        BY <3>2, <4>1, <4>3, <2>2, <1>0 DEF WatchInv
      <4>4. CASE Up[q] # p /\ q = p
        BY <4>1, <4>4, <2>2, <1>2 DEF Inner
      <4> QED BY <4>2, <4>3, <4>4
    <3>3. ASSUME NEW e \in events \cup handling PROVE watch'[e[1]].ino # Absent
      <4>1. e[1] \in Paths /\ watch[e[1]].ino # Absent
        BY <1>0, Tree DEF WatchInv, Named
      <4> QED BY <4>1, <2>2
    <3> QED BY <3>1, <3>2, <3>3, <2>1, <2>2, <1>0 DEF WatchInv
  <2>7. StackInv'
    <3>1. Founded(a)'
      BY <2>2, <2>3, <1>0, <1>2 DEF Founded
    <3>2. ASSUME NEW fr \in R PROVE Founded(fr)'
      <4>1. fr.op \in {"scan", "each"} /\ Founded(fr)
        BY <1>1
      <4>2. fr.path \in Paths /\ watch[fr.path].ino # Absent
        BY <4>1, Tree DEF Founded
      <4>3. watch'[fr.path].ino # Absent
        BY <4>2, <2>2
      <4> QED BY <4>1, <4>3, <1>0 DEF Founded
    <3>3. \A fr \in FramesOf(stack') : Founded(fr)'
      BY <3>1, <3>2, <2>4
    <3> QED BY <3>3, <2>1, <2>4, <1>0, <1>1 DEF StackInv
\* A path replaced since its stat is announced, and stays so.
  <2>8. p # Root /\ hd.ino # ino[p] /\ Standing(Up[p])' => Tells(events', p)
    <3> SUFFICES ASSUME p # Root, hd.ino # ino[p], Standing(Up[p])' PROVE Tells(events', p)
      OBVIOUS
    <3>1. Standing(Up[p])
      BY <2>2, <1>0, <1>2 DEF Standing
    <3> QED BY <3>1, <2>1, <1>0, <1>1 DEF Replaced, p
  <2>9. Replaced'
    BY <2>3, <2>4, <2>8, <1>0, <1>1 DEF Replaced
  <2>10. ASSUME NEW q \in Inner, Standing(Up[q])', q = p PROVE Visit(q)'
    <3>1. CASE hd.ino = ino[p]
      <4>1. Leads(a, q)'
        BY <3>1, <2>3, <2>10, <1>0 DEF Leads
      <4> QED BY <4>1, <2>4 DEF Visit
    <3>2. CASE hd.ino # ino[p]
      BY <3>2, <2>8, <2>10 DEF Visit, Announced, Tells, Inner
    <3> QED BY <3>1, <3>2
  <2>11. ASSUME NEW q \in Inner, Up[q] = p, ino[q] # Absent PROVE Visit(q)'
    <3>1. Leads(a, q)'
      BY <2>3, <2>11, <1>0 DEF Leads
    <3> QED BY <3>1, <2>4 DEF Visit
  <2>12. ASSUME NEW q \in Inner, Standing(Up[q])', q # p, Up[q] # p
         PROVE  Standing(Up[q]) /\ (Right(q) => Right(q)') /\ (Visit(q) => Visit(q)')
    <3>1. q \in Paths /\ Up[q] \in Paths /\ watch'[q] = watch[q] /\ watch'[Up[q]] = watch[Up[q]]
      BY <2>2, <2>12, Tree
    <3>2. Standing(Up[q]) /\ (Right(q) => Right(q)')
      BY <3>1, <2>12, <1>0 DEF Standing, Right
    <3>3. Announced(q) => Announced(q)'
      BY <2>1 DEF Announced, Tells
    <3>4. ~Leads(hd, q)
      BY <2>12, <1>0 DEF Leads, p
    <3>5. \A fr \in R : Leads(fr, q) => Leads(fr, q)'
      BY <1>0 DEF Leads
    <3> QED BY <3>2, <3>3, <3>4, <3>5, <2>4, <2>5 DEF Visit
  <2>13. Watching'
    <3> SUFFICES ASSUME NEW q \in Inner, Standing(Up[q])' PROVE Right(q)' \/ Visit(q)'
      BY DEF Watching
    <3>1. CASE q = p
      BY <3>1, <2>10
    <3>2. CASE q # p /\ Up[q] = p
      <4>1. q \in Paths /\ watch'[q].ino = Absent
        BY <3>2, <2>2, <1>0, <1>2, Tree DEF WatchInv
      <4>2. CASE ino[q] = Absent
        BY <4>1, <4>2, <1>0 DEF Right
      <4>3. CASE ino[q] # Absent
        BY <3>2, <4>3, <2>11
      <4> QED BY <4>2, <4>3
    <3>3. CASE q # p /\ Up[q] # p
      BY <3>3, <2>12, <1>0 DEF Watching
    <3> QED BY <3>1, <3>2, <3>3
  <2>14. Reporting'
    <3> SUFFICES ASSUME mode = "serving", NEW f \in Files, Standing(Up[f])',
                        content[f] # Absent, loaded[f] # content[f]
                 PROVE  f \in pending \/ pending \cap Dirs # {} \/ Visit(f)'
      BY <2>1, <1>0 DEF Reporting
    <3>0. f \in Inner /\ ino[f] # Absent
      BY <1>0, Tree DEF TreeInv
    <3>1. CASE f = p
      BY <3>0, <3>1, <2>10
    <3>2. CASE f # p /\ Up[f] = p
      BY <3>0, <3>2, <2>11
    <3>3. CASE f # p /\ Up[f] # p
      BY <3>0, <3>3, <2>12, <1>0 DEF Reporting
    <3> QED BY <3>1, <3>2, <3>3
  <2>15. RootHeld'
    <3>1. CASE p = Root
      BY <3>1, <2>2, <1>0, <1>2 DEF RootHeld, Standing
    <3>2. CASE p # Root
      <4>1. watch'[Root] = watch[Root]
        BY <3>2, <2>2, Tree
      <4>2. \A fr \in FramesOf(stack) : fr.op \in {"entry", "watch"} => fr.path # Root
        BY <3>2, <2>5, <1>1 DEF p
      <4>3. Standing(Root)
        BY <4>2, <1>0, <1>1 DEF RootHeld
      <4> QED BY <4>1, <4>3, <1>0 DEF RootHeld, Standing
    <3> QED BY <3>1, <3>2
  <2>16. TreeInv' /\ LoopInv'
    BY <2>1, <1>0 DEF TreeInv, LoopInv
  <2> QED BY <2>6, <2>7, <2>9, <2>13, <2>14, <2>15, <2>16 DEF IInv
<1> QED BY <1>3, <1>4

-----------------------------------------------------------------------------
(* The event loop *)

LEMMA OneFrame ==
  ASSUME NEW a \in Frames
  PROVE  /\ <<a>> \in Seq(Frames) /\ Nested(<<a>>)
         /\ FramesOf(<<a>>) = {a} /\ Deep(<<a>>) = {}
BY DEF Nested, FramesOf, Deep

LEMMA TwoFrames ==
  ASSUME NEW a \in Frames, NEW b \in Frames, Clear(a, b)
  PROVE  /\ <<a, b>> \in Seq(Frames) /\ Nested(<<a, b>>)
         /\ FramesOf(<<a, b>>) = {a, b} /\ Deep(<<a, b>>) = {b}
<1> DEFINE s == <<a, b>>
<1>1. s \in Seq(Frames) /\ Len(s) = 2 /\ s[1] = a /\ s[2] = b
  OBVIOUS
<1> HIDE DEF s
<1>2. 1..Len(s) = {1, 2} /\ 2..Len(s) = {2}
  BY <1>1
<1>3. FramesOf(s) = {a, b} /\ Deep(s) = {b}
  BY <1>1, <1>2 DEF FramesOf, Deep
<1>4. Nested(s)
  <2> SUFFICES ASSUME NEW i \in {1, 2}, NEW j \in {1, 2}, i < j PROVE Clear(s[i], s[j])
    BY <1>2 DEF Nested
  <2>1. i = 1 /\ j = 2
    OBVIOUS
  <2> QED BY <2>1, <1>1
<1> QED BY <1>1, <1>3, <1>4 DEF s

\* Handling starts or goes on: an event goes, and the calls of N are made.
StartStep(N) ==
    /\ stack = <<>> /\ mode = "serving" /\ UNCHANGED <<tree, watch, mode, loaded>>
    /\ stack' \in Seq(Frames) /\ Nested(stack') /\ FramesOf(stack') = N
    /\ \A fr \in Deep(stack') : fr.op \in {"scan", "each"}
    /\ \A fr \in N : Founded(fr)' /\ fr.op \in {"entry", "scan", "each"}
    /\ events' \subseteq events /\ handling' \subseteq events \cup handling
    /\ \A a, b \in handling' : a = b
    /\ pending \subseteq pending' /\ LoopInv'
    /\ \A q \in Inner : Announced(q) =>
          \/ Announced(q)' \/ \E fr \in N : Leads(fr, q)
          \/ Right(q) /\ (q \in Files => ino[q] = Absent)

LEMMA StartKeeps ==
  ASSUME IInv, NEW N, StartStep(N)
  PROVE  IInv'
<1>0. /\ stack = <<>> /\ mode = "serving" /\ mode' = mode /\ loaded' = loaded
      /\ ino' = ino /\ content' = content /\ edits' = edits /\ watch' = watch
      /\ FramesOf(stack') = N /\ pending \subseteq pending' /\ LoopInv'
      /\ events' \subseteq events /\ handling' \subseteq events \cup handling
      /\ TreeInv /\ WatchInv /\ Watching /\ Reporting /\ RootHeld
      /\ FramesOf(stack) = {}
  BY NoFrames DEF StartStep, IInv, tree
<1>1. TreeInv'
  BY <1>0 DEF TreeInv
<1>2. WatchInv'
  <2>1. events' \cup handling' \subseteq events \cup handling
    BY <1>0
  <2> QED BY <2>1, <1>0 DEF WatchInv
<1>3. StackInv'
  BY <1>0 DEF StackInv, StartStep
<1>4. \A q \in Inner : Visit(q) => Visit(q)' \/ (Right(q) /\ (q \in Files => ino[q] = Absent))
  <2> SUFFICES ASSUME NEW q \in Inner, Visit(q)
               PROVE  Visit(q)' \/ (Right(q) /\ (q \in Files => ino[q] = Absent))
    OBVIOUS
  <2>1. Announced(q)
    BY <1>0 DEF Visit
  <2>2. \A fr \in N : Leads(fr, q) => Leads(fr, q)'
    BY <1>0 DEF Leads
  <2> QED BY <2>1, <2>2, <1>0 DEF StartStep, Visit
<1>5. Watching'
  BY <1>0, <1>4 DEF Watching, Standing, Right
<1>6. Reporting'
  <2> SUFFICES ASSUME NEW f \in Files, Standing(Up[f])', content[f] # Absent, loaded[f] # content[f]
               PROVE  f \in pending' \/ pending' \cap Dirs # {} \/ Visit(f)'
    BY <1>0 DEF Reporting
  <2>1. f \in Inner /\ ino[f] # Absent
    BY <1>0, Tree DEF TreeInv
  <2>2. f \in pending \/ pending \cap Dirs # {} \/ Visit(f)
    BY <1>0 DEF Reporting, Standing
  <2> QED BY <2>1, <2>2, <1>0, <1>4
<1>7. Replaced'
  BY <1>0 DEF Replaced, StartStep
<1>8. RootHeld'
  BY <1>0 DEF RootHeld, Standing
<1> QED BY <1>0, <1>1, <1>2, <1>3, <1>5, <1>6, <1>7, <1>8 DEF IInv

LEMMA DeliverKeeps ==
  ASSUME IInv, Deliver
  PROVE  IInv'
<1>1. PICK e \in events : events' = events \ {e} /\ stack' = <<Entry(e[1], TRUE)>> /\ handling' = {e}
  BY DEF Deliver
<1>2. PICK a : a = Entry(e[1], TRUE)
  OBVIOUS
<1>0. /\ stack = <<>> /\ handling = {} /\ mode = "serving"
      /\ UNCHANGED <<tree, watch, pending, timer, mode, loaded>>
      /\ WatchInv /\ LoopInv
  BY DEF Deliver, Idle, IInv
<1>3. e[1] \in Watchable /\ e[1] \in Paths /\ watch[e[1]].ino # Absent
  BY <1>0, Tree DEF WatchInv, Named
<1>4. e[1] # Root => watch[Up[e[1]]].ino # Absent
  BY <1>0, <1>3 DEF WatchInv, Inner
<1>5. /\ a.op = "entry" /\ a.path = e[1] /\ a.notify = TRUE /\ a.kids = {}
      /\ a \in Frames
  BY <1>2, <1>3 DEF Entry, Frame, Frames
<1>6. Founded(a)'
  BY <1>0, <1>4, <1>5 DEF Founded
<1>7. stack' = <<a>>
  BY <1>1, <1>2
<1>8. \A q \in Inner : Announced(q) => Announced(q)' \/ Leads(a, q)
  BY <1>0, <1>1, <1>5 DEF Announced, Tells, Leads
<1>9. LoopInv'
  BY <1>0 DEF LoopInv
<1>10. StartStep({a})
  BY <1>0, <1>1, <1>5, <1>6, <1>7, <1>8, <1>9, OneFrame DEF StartStep
<1> QED BY <1>10, StartKeeps

LEMMA AfterKeeps ==
  ASSUME IInv, After
  PROVE  IInv'
<1>1. PICK e \in handling :
         \/ /\ e[1] \notin Dirs
            /\ UNCHANGED <<stack, pending, timer>>
         \/ /\ e[1] \in Dirs /\ e[2] = NoName
            /\ stack' = <<Each(e[1], {p \in Children(e[1]) : watch[p] # Unwatched}, TRUE),
                          Scanning(e[1], TRUE)>>
            /\ Enqueue({e[1]})
         \/ /\ e[1] \in Dirs /\ e[2] # NoName
            /\ stack' = IF e[2] \in Files \/ ino[e[2]] # Absent \/ watch[e[2]] # Unwatched
                        THEN <<Entry(e[2], TRUE)>> ELSE <<>>
            /\ UNCHANGED <<pending, timer>>
  BY DEF After
<1>2. PICK d : d = e[1]
  OBVIOUS
<1>3. PICK name : name = e[2]
  OBVIOUS
<1>0. /\ stack = <<>> /\ handling' = {} /\ mode = "serving" /\ handling = {e}
      /\ UNCHANGED <<tree, watch, events, mode, loaded>>
      /\ TreeInv /\ WatchInv /\ LoopInv
  BY DEF After, IInv, StackInv
<1>4. /\ d \in Watchable /\ d \in Paths /\ watch[d].ino # Absent
      /\ name \in Children(d) \cup {d, NoName}
  BY <1>0, <1>2, <1>3, Tree DEF WatchInv, Named
<1>5. \A q \in Inner : Announced(q) => Announced(q)' \/ (d = Up[q] /\ name \in {q, NoName})
  BY <1>0, <1>2, <1>3 DEF Announced, Tells
<1>6. CASE d \notin Dirs
  <2>1. stack' = <<>> /\ UNCHANGED <<pending, timer>>
    BY <1>0, <1>1, <1>2, <1>6
  <2>2. \A q \in Inner : Announced(q) => Announced(q)'
    BY <1>5, <1>6, Tree
  <2>3. LoopInv' /\ pending \subseteq pending'
    BY <2>1, <1>0 DEF LoopInv
  <2>4. StartStep({})
    BY <2>1, <2>2, <2>3, <1>0, NoFrames DEF StartStep
  <2> QED BY <2>4, StartKeeps
<1>7. CASE d \in Dirs /\ name = NoName
  <2>a. PICK K : K = {p \in Children(d) : watch[p] # Unwatched}
    OBVIOUS
  <2>b. PICK a : a = Each(d, K, TRUE)
    OBVIOUS
  <2>c. PICK b : b = Scanning(d, TRUE)
    OBVIOUS
  <2>1. stack' = <<a, b>> /\ Enqueue({d})
    BY <2>a, <2>b, <2>c, <1>1, <1>2, <1>3, <1>7
  <2>2. LoopInv' /\ pending \subseteq pending'
    BY <2>1, <1>0, <1>4, Enqueued
  <2>3. K \subseteq Children(d) /\ K \subseteq Paths /\ \A k \in K : d \notin Below[k]
    BY <2>a, Tree, TreeDown DEF Children
  <2>4. /\ a.op = "each" /\ a.path = d /\ a.kids = K /\ a.notify = TRUE /\ a \in Frames
        /\ b.op = "scan" /\ b.path = d /\ b.notify = TRUE /\ b \in Frames
    BY <2>b, <2>c, <2>3, <1>4 DEF Each, Scanning, Frame, Frames
  <2>5. Clear(a, b)
    BY <2>3, <2>4 DEF Clear, Acts
  <2>6. Founded(a)' /\ Founded(b)'
    BY <2>3, <2>4, <1>0, <1>4, <1>7 DEF Founded, Children
  <2>7. ASSUME NEW q \in Inner, d = Up[q]
        PROVE  \/ Leads(a, q) \/ Leads(b, q)
               \/ Right(q) /\ (q \in Files => ino[q] = Absent)
    <3>1. CASE ino[q] # Absent
      BY <2>4, <2>7, <3>1 DEF Leads
    <3>2. CASE watch[q] # Unwatched
      BY <2>4, <2>7, <2>a, <3>2 DEF Leads, Children
    <3>3. CASE ino[q] = Absent /\ watch[q] = Unwatched
      BY <3>3 DEF Right, Unwatched
    <3> QED BY <3>1, <3>2, <3>3
  <2>8. StartStep({a, b})
    <3>1. /\ stack' \in Seq(Frames) /\ Nested(stack') /\ FramesOf(stack') = {a, b}
          /\ \A fr \in Deep(stack') : fr.op \in {"scan", "each"}
      BY <2>1, <2>4, <2>5, TwoFrames
    <3>2. \A fr \in {a, b} : Founded(fr)' /\ fr.op \in {"entry", "scan", "each"}
      BY <2>4, <2>6
    <3>3. \A q \in Inner : Announced(q) =>
             \/ Announced(q)' \/ \E fr \in {a, b} : Leads(fr, q)
             \/ Right(q) /\ (q \in Files => ino[q] = Absent)
      BY <2>7, <1>5
    <3> QED BY <3>1, <3>2, <3>3, <2>2, <1>0 DEF StartStep
  <2> QED BY <2>8, StartKeeps
<1>8. CASE d \in Dirs /\ name # NoName
  <2>1. /\ stack' = IF name \in Files \/ ino[name] # Absent \/ watch[name] # Unwatched
                    THEN <<Entry(name, TRUE)>> ELSE <<>>
        /\ UNCHANGED <<pending, timer>>
    BY <1>1, <1>2, <1>3, <1>8
  <2>2. LoopInv' /\ pending \subseteq pending'
    BY <2>1, <1>0 DEF LoopInv
  <2>3. \A q \in Inner : Announced(q) => Announced(q)' \/ q = name
    BY <1>5, <1>8
  <2>4. CASE name \in Files \/ ino[name] # Absent \/ watch[name] # Unwatched
    <3>a. PICK a : a = Entry(name, TRUE)
      OBVIOUS
    <3>1. name \in Paths /\ (name # Root => watch[Up[name]].ino # Absent)
      BY <1>0, <1>4, <1>8, Tree DEF Children, WatchInv, Inner
    <3>2. /\ a.op = "entry" /\ a.path = name /\ a.notify = TRUE /\ a.kids = {} /\ a \in Frames
      BY <3>a, <3>1 DEF Entry, Frame, Frames
    <3>3. Founded(a)'
      BY <3>1, <3>2, <1>0 DEF Founded
    <3>4. stack' = <<a>>
      BY <3>a, <2>1, <2>4
    <3>5. \A q \in Inner : Announced(q) => Announced(q)' \/ Leads(a, q)
      BY <2>3, <3>2 DEF Leads
    <3>6. StartStep({a})
      BY <3>2, <3>3, <3>4, <3>5, <2>2, <1>0, OneFrame DEF StartStep
    <3> QED BY <3>6, StartKeeps
  <2>5. CASE ~(name \in Files \/ ino[name] # Absent \/ watch[name] # Unwatched)
    <3>1. stack' = <<>>
      BY <2>1, <2>5
    <3>2. Right(name)
      BY <2>5 DEF Right, Unwatched
    <3>3. StartStep({})
      BY <3>1, <3>2, <2>2, <2>3, <2>5, <1>0, NoFrames DEF StartStep
    <3> QED BY <3>3, StartKeeps
  <2> QED BY <2>4, <2>5
<1> QED BY <1>6, <1>7, <1>8

LEMMA Numbered ==
  ASSUME TreeInv
  PROVE  /\ ino \in [Paths -> Inodes \cup {Absent}]
         /\ content \in [Files -> Inodes \cup {Absent}]
<1>1. /\ edits \in Nat /\ edits + 1 <= MaxEdits + 1 /\ MaxEdits \in Nat
  BY BoundAssumption DEF TreeInv
<1>2. ASSUME NEW n \in Nat, n <= edits + 1 PROVE n \in Inodes \cup {Absent}
  BY <1>1, <1>2 DEF Inodes, Absent
<1> QED BY <1>1, <1>2 DEF TreeInv

LEMMA ServeKeeps ==
  ASSUME IInv, Serve
  PROVE  IInv'
<1>0. /\ mode = "starting" /\ mode' = "serving" /\ stack = <<>> /\ loaded' = content
      /\ UNCHANGED <<tree, watch, events, stack, handling, pending, timer>>
      /\ TreeInv /\ WatchInv /\ LoopInv /\ StackInv /\ Watching /\ RootHeld
      /\ FramesOf(stack) = {}
  BY NoFrames DEF Serve, IInv
<1>1. TreeInv' /\ WatchInv' /\ LoopInv'
  BY <1>0, Numbered DEF TreeInv, WatchInv, LoopInv, tree
<1>2. StackInv'
  BY <1>0 DEF StackInv
<1>3. Watching' /\ Replaced'
  BY <1>0 DEF Watching, Replaced, Standing, Right, Visit, Announced, Tells, tree
<1>4. Reporting' /\ RootHeld'
  BY <1>0 DEF Reporting, RootHeld, Standing, tree
<1> QED BY <1>1, <1>2, <1>3, <1>4 DEF IInv

\* What the browser is not told of lay in no change that was reported.
LEMMA FlushKeeps ==
  ASSUME IInv, Flush
  PROVE  IInv'
<1>1. PICK S : S = IF pending \subseteq Files THEN pending ELSE Files
  OBVIOUS
<1>0. /\ stack = <<>> /\ mode = "serving" /\ timer' = FALSE /\ pending' = {}
      /\ loaded' = [f \in Files |-> IF f \in S THEN content[f] ELSE loaded[f]]
      /\ UNCHANGED <<tree, watch, events, stack, handling, mode>>
      /\ TreeInv /\ WatchInv /\ LoopInv /\ StackInv /\ Watching /\ RootHeld /\ Reporting
      /\ FramesOf(stack) = {}
  BY <1>1, NoFrames DEF Flush, Idle, IInv, Told
<1>2. TreeInv' /\ WatchInv' /\ LoopInv' /\ StackInv'
  <2>1. loaded' \in [Files -> Inodes \cup {Absent}]
    BY <1>0, Numbered DEF LoopInv
  <2> QED BY <2>1, <1>0 DEF TreeInv, WatchInv, LoopInv, StackInv, tree
<1>3. Watching' /\ Replaced' /\ RootHeld'
  BY <1>0 DEF Watching, Replaced, RootHeld, Standing, Right, Visit, Announced, Tells, tree
<1>4. Reporting'
  <2> SUFFICES ASSUME NEW f \in Files, Standing(Up[f])', content[f] # Absent, loaded'[f] # content[f]
               PROVE  Visit(f)'
    BY <1>0 DEF Reporting, tree
  <2>1. f \notin S /\ loaded'[f] = loaded[f]
    BY <1>0
  <2>2. f \notin pending /\ pending \subseteq Files
    BY <1>1, <2>1
  <2>3. pending \cap Dirs = {}
    BY <2>2, Tree
  <2>4. Visit(f)
    BY <2>1, <2>2, <2>3, <1>0 DEF Reporting, Standing, tree
  <2> QED BY <2>4, <1>0 DEF Visit, Announced, Tells
<1> QED BY <1>2, <1>3, <1>4 DEF IInv

LEMMA StopKeeps ==
  ASSUME IInv, Stop
  PROVE  IInv'
<1>0. /\ stack = <<>> /\ mode' = "stopped" /\ pending' = {} /\ timer' = FALSE
      /\ Unwatch(Paths) /\ UNCHANGED <<tree, stack, loaded>>
      /\ TreeInv /\ WatchInv /\ LoopInv /\ StackInv
  BY DEF Stop, Idle, IInv
<1>1. /\ watch' \in [Paths -> Handles]
      /\ \A p \in Paths : watch'[p].ino = Absent /\ watch'[p].live = FALSE
  BY <1>0 DEF Unwatch, Unwatched, Handles, Absent
<1>2. events' = {} /\ handling' = {}
  BY <1>0, Tree DEF Unwatch, WatchInv, Named
<1>3. TreeInv' /\ LoopInv' /\ StackInv'
  <2>1. TreeInv'
    BY <1>0 DEF TreeInv, tree
  <2>2. LoopInv'
    BY <1>0 DEF LoopInv
  <2>3. stack' = <<>> /\ FramesOf(stack') = {} /\ Deep(stack') = {} /\ Nested(stack')
    BY <1>0, NoFrames
  <2>4. StackInv'
    BY <1>0, <1>2, <2>3, NoFrames DEF StackInv
  <2> QED BY <2>1, <2>2, <2>4
<1>4. WatchInv'
  BY <1>0, <1>1, <1>2, Tree DEF WatchInv, TreeInv, tree, Absent
<1>5. Watching' /\ Replaced' /\ Reporting' /\ RootHeld'
  BY <1>0, <1>1, Tree DEF Watching, Replaced, Reporting, RootHeld, Standing, FramesOf
<1> QED BY <1>3, <1>4, <1>5 DEF IInv

LEMMA NextKeeps ==
  ASSUME IInv, Steady, [Next]_vars
  PROVE  IInv'
<1>1. CASE Edit
  BY <1>1, EditsKeep
<1>2. CASE Handler
  BY <1>2, EntryKeeps, AttachKeeps, RestatKeeps, ScanKeeps, NextChildKeeps, AfterKeeps DEF Handler
<1>3. CASE Loop
  BY <1>3, ServeKeeps, DeliverKeeps, FlushKeeps DEF Loop
<1>4. CASE Stop
  BY <1>4, StopKeeps
<1>5. CASE UNCHANGED vars
  <2>1. TreeInv' /\ WatchInv' /\ LoopInv'
    BY <1>5 DEF vars, tree, IInv, TreeInv, WatchInv, LoopInv
  <2>2. StackInv'
    BY <1>5 DEF vars, tree, IInv, StackInv, Founded
  <2>3. \A p : Visit(p)' <=> Visit(p)
    BY <1>5 DEF vars, tree, Visit, Leads, Announced, Tells
  <2>4. Watching'
    BY <1>5, <2>3 DEF vars, tree, IInv, Watching, Right, Standing
  <2>5. Replaced'
    BY <1>5 DEF vars, tree, IInv, Replaced, Standing, Tells
  <2>6. Reporting'
    BY <1>5, <2>3 DEF vars, tree, IInv, Reporting, Standing
  <2>7. RootHeld'
    BY <1>5 DEF vars, tree, IInv, RootHeld, Standing
  <2> QED BY <2>1, <2>2, <2>4, <2>5, <2>6, <2>7 DEF IInv
<1> QED BY <1>1, <1>2, <1>3, <1>4, <1>5 DEF Next

LEMMA InitHolds ==
  ASSUME Init
  PROVE  IInv
<1>a. PICK a : a = Entry(Root, FALSE)
  OBVIOUS
<1>0. /\ ino \in [Paths -> {Absent, 1}] /\ ino[Root] = 1 /\ edits = 0
      /\ content = [f \in Files |-> ino[f]] /\ watch = [p \in Paths |-> Unwatched]
      /\ events = {} /\ stack = <<a>> /\ handling = {} /\ mode = "starting"
  BY <1>a DEF Init
<1>1. /\ a.op = "entry" /\ a.path = Root /\ a \in Frames
  BY <1>a, Tree DEF Entry, Frame, Frames
<1>2. /\ stack \in Seq(Frames) /\ Nested(stack) /\ FramesOf(stack) = {a} /\ Deep(stack) = {}
  BY <1>0, <1>1, OneFrame
<1>3. TreeInv
  <2>1. ino \in [Paths -> Nat] /\ \A p \in Paths : ino[p] <= edits + 1
    BY <1>0 DEF Absent
  <2>2. content \in [Files -> Nat] /\ \A f \in Files : content[f] = ino[f]
    BY <1>0, <2>1, Tree
  <2>3. edits \in 0..MaxEdits
    BY <1>0, BoundAssumption
  <2>4. \A f \in Files : content[f] <= edits + 1
    BY <2>1, <2>2, Tree
  <2>5. ino[Root] # Absent
    BY <1>0 DEF Absent
  <2>6. \A p \in Inner : ino[p] # Absent => ino[Up[p]] # Absent
    BY DEF Init
  <2> QED BY <2>1, <2>2, <2>3, <2>4, <2>5, <2>6 DEF TreeInv
<1>4. WatchInv
  BY <1>0, Tree DEF WatchInv, Handles, Unwatched, Absent
<1>5. LoopInv
  BY <1>0 DEF Init, LoopInv, Absent
<1>6. StackInv
  BY <1>0, <1>1, <1>2 DEF StackInv, Founded
<1>7. Watching /\ Replaced /\ Reporting /\ RootHeld
  BY <1>0, <1>1, <1>2, Tree DEF Watching, Replaced, Reporting, RootHeld, Standing, Unwatched
<1> QED BY <1>3, <1>4, <1>5, <1>6, <1>7 DEF IInv

-----------------------------------------------------------------------------
(* The theorems *)

\* Through every change of the tree between two system calls, whatever a
\* handler has still to look at is on the stack of its calls or announced by
\* an event, and an output that the browser lacks is there too or enqueued.
THEOREM OutputInvariant ==
  ASSUME Steady
  PROVE  Spec => []IInv
<1>1. Init => IInv
  BY InitHolds
<1>2. IInv /\ [Next]_vars => IInv'
  BY NextKeeps
<1> QED BY <1>1, <1>2, PTL DEF Spec

\* The types, with what the code takes of the watches for granted: a path that
\* is no directory and no link has none, an event is of one that is there.
THEOREM OutputTypes ==
  ASSUME Steady
  PROVE  Spec => []TypeOK
<1>1. ASSUME IInv PROVE TypeOK
  <2>0. TreeInv /\ WatchInv /\ LoopInv /\ StackInv
    BY <1>1 DEF IInv
  <2>1. /\ ino \in [Paths -> Inodes \cup {Absent}]
        /\ content \in [Files -> Inodes \cup {Absent}]
    BY <2>0, Numbered
  <2>2. ASSUME NEW p \in Paths
        PROVE  /\ watch[p] \in [ino : Inodes, live : BOOLEAN] \cup {Unwatched}
               /\ p \notin Watchable => watch[p] = Unwatched
    <3>1. /\ watch[p] # Unwatched <=> watch[p].ino # Absent
          /\ watch[p].ino # Absent => p \in Watchable
          /\ watch[p].ino <= edits + 1 /\ watch[p] \in Handles
          /\ edits \in Nat /\ edits <= MaxEdits /\ MaxEdits \in Nat
      <4>1. watch[p] # Unwatched <=> watch[p].ino # Absent
        BY <2>0, Watched
      <4> QED BY <4>1, <2>0, BoundAssumption DEF WatchInv, TreeInv
    <3>2. watch[p].ino # Absent => watch[p].ino \in Inodes
      BY <3>1 DEF Handles, Inodes, Absent
    <3>3. watch[p].ino # Absent => watch[p] \in [ino : Inodes, live : BOOLEAN]
      BY <3>1, <3>2 DEF Handles
    <3> QED BY <3>1, <3>3
  <2>3. watch \in [Paths -> [ino : Inodes, live : BOOLEAN] \cup {Unwatched}]
    BY <2>0, <2>2 DEF WatchInv
  <2>4. \A e \in events \cup handling : watch[e[1]] # Unwatched
    BY <2>0 DEF WatchInv, Unwatched
  <2> QED BY <2>0, <2>1, <2>2, <2>3, <2>4 DEF TypeOK, TreeInv, WatchInv, LoopInv, StackInv
<1> QED BY <1>1, OutputInvariant, PTL

LEMMA AtRest ==
  ASSUME IInv
  PROVE  SettledIsReported
<1> SUFFICES ASSUME Settled
             PROVE  /\ Fresh
                    /\ \A p \in Watchable :
                          IF ino[p] = Absent THEN watch[p] = Unwatched
                          ELSE watch[p].live /\ watch[p].ino = ino[p]
  BY DEF SettledIsReported
<1>0. /\ TreeInv /\ WatchInv /\ LoopInv /\ Watching /\ Reporting /\ RootHeld
      /\ stack = <<>> /\ handling = {} /\ mode = "serving" /\ events = {} /\ pending = {}
  BY DEF IInv, Settled, Idle, LoopInv
<1>1. \A p \in Inner : ~Visit(p)
  BY <1>0, NoFrames DEF Visit, Announced, Tells
<1>2. \A p \in Inner : Standing(Up[p]) => Right(p)
  BY <1>0, <1>1 DEF Watching
<1>3. Standing(Root)
  BY <1>0, NoFrames DEF RootHeld
<1>4. \A d \in Dirs : ino[d] # Absent => Standing(d)
  <2> SUFFICES ASSUME NEW d0 \in Dirs, ino[d0] # Absent, ~Standing(d0) PROVE FALSE
    OBVIOUS
  <2> DEFINE S == {d \in Inner : d \in Dirs /\ ino[d] # Absent /\ ~Standing(d)}
  <2>1. S \in SUBSET Inner /\ d0 \in S
    BY <1>3, Tree DEF Inner
  <2>2. PICK d \in S : Up[d] \notin S
    <3> HIDE DEF S
    <3> QED BY <2>1, TreeAssumption
  <2>3. Up[d] \in Dirs /\ ino[Up[d]] # Absent
    BY <2>2, <1>0, Tree DEF TreeInv
  <2>4. Standing(Up[d])
    BY <2>2, <2>3, <1>3, Tree DEF Inner
  <2>5. Right(d)
    BY <2>2, <2>4, <1>2
  <2> QED BY <2>2, <2>5 DEF Right, Watchable
<1>5. \A p \in Watchable : ino[p] # Absent => Standing(p)
  <2> SUFFICES ASSUME NEW p \in Watchable, ino[p] # Absent, p \notin Dirs PROVE Standing(p)
    BY <1>4
  <2>1. p \in Inner /\ Up[p] \in Dirs /\ ino[Up[p]] # Absent
    BY <1>0, Tree DEF Watchable, TreeInv
  <2> QED BY <2>1, <1>2, <1>4 DEF Right
<1>6. \A p \in Watchable : ino[p] = Absent => watch[p].ino = Absent
  <2> SUFFICES ASSUME NEW p0 \in Watchable, ino[p0] = Absent, watch[p0].ino # Absent PROVE FALSE
    OBVIOUS
  <2> DEFINE S == {p \in Inner : ino[p] = Absent /\ watch[p].ino # Absent}
  <2>1. S \in SUBSET Inner /\ p0 \in S
    BY <1>0, Tree DEF Inner, TreeInv
  <2>2. PICK p \in S : Up[p] \notin S
    <3> HIDE DEF S
    <3> QED BY <2>1, TreeAssumption
  <2>3. p \in Watchable /\ Up[p] \in Dirs /\ Up[p] \in Watchable /\ watch[Up[p]].ino # Absent
    BY <2>2, <1>0, Tree DEF WatchInv, Watchable
  <2>4. CASE ino[Up[p]] # Absent
    <3>1. Right(p)
      BY <2>2, <2>3, <2>4, <1>2, <1>5
    <3> QED BY <3>1, <2>2, <2>3 DEF Right
  <2>5. CASE ino[Up[p]] = Absent
    BY <2>2, <2>3, <2>5, <1>0, Tree DEF TreeInv, Inner
  <2> QED BY <2>4, <2>5
<1>7. ASSUME NEW p \in Watchable
      PROVE  IF ino[p] = Absent THEN watch[p] = Unwatched
             ELSE watch[p].live /\ watch[p].ino = ino[p]
  <2>1. p \in Paths
    BY Tree
  <2> QED BY <2>1, <1>0, <1>5, <1>6, Watched DEF Standing
<1>8. Fresh
  <2> SUFFICES ASSUME NEW f \in Files, content[f] # Absent PROVE loaded[f] = content[f]
    BY DEF Fresh
  <2>1. f \in Inner /\ ino[Up[f]] # Absent /\ Up[f] \in Dirs
    BY <1>0, Tree DEF TreeInv
  <2> QED BY <2>1, <1>0, <1>1, <1>4 DEF Reporting
<1> QED BY <1>7, <1>8

\* When bazel and the handlers have come to rest, however their steps fell,
\* the browser was told of every output as it is, every directory and link is
\* watched as it is, and no handle is left on what went.
THEOREM OutputsSettle ==
  ASSUME Steady
  PROVE  Spec => []SettledIsReported
<1>1. IInv => SettledIsReported
  BY AtRest
<1> QED BY <1>1, OutputInvariant, PTL

-----------------------------------------------------------------------------
(* The servers and their config's inputs *)

Servers ==
    [at : {"loading", "read", "attaching", "serving"},
     read : [Inputs -> Versions], digests : [Inputs -> Versions],
     handles : SUBSET Places, events : SUBSET (Inputs \cup {None}),
     timer : BOOLEAN, missed : SUBSET Inputs]

\* The value that stands for no server is none, and what is read by hand is an
\* input.
Distinct == None \notin Servers /\ Manual \subseteq Inputs

ServersOK ==
    /\ disk \in [Inputs -> Versions]
    /\ now \in Servers \cup {None}
    /\ next \in Servers \cup {None}
    /\ warned \subseteq Manual
    /\ now = None => next = None

\* A watcher that has not started has heard nothing, and only one that serves
\* has a timer.
Quiet(s) ==
    /\ s.at \in {"loading", "read"} => s.handles = {} /\ s.events = {}
    /\ s.timer => s.at = "serving"
    /\ s.at = "read" => s.digests = s.read

\* What will have the watcher look at input i again.
Coming(s, i) == i \in s.events \/ None \in s.events \/ s.timer

\* A fingerprint behind d, what the inputs hold, has a check on its way.
Caught(s, d) ==
    s.at \in {"attaching", "serving"} =>
       \A i \in Inputs \ s.missed : s.digests[i] = d[i] \/ Coming(s, i)

\* Before the fingerprints are taken, the config holds what the inputs of S do.
FreshlyRead(s, d, S) ==
    s.at = "read" => \A i \in S \ s.missed : s.read[i] = d[i]

\* The server that answers: a fingerprint that moved on from what its config
\* was read from has a restart under way, or is in the log.
NowKnows ==
    /\ now.at # "loading"
    /\ FreshlyRead(now, disk, Inputs)
    /\ \A i \in Inputs \ now.missed :
          now.digests[i] = now.read[i] \/ i \in warned \/ (i \notin Manual /\ next # None)

\* The server a restart makes: the same of the inputs it has read itself; the
\* others are as the running server read them.
NextKnows ==
    next.at # "loading" =>
       /\ FreshlyRead(next, disk, Inputs \ Manual)
       /\ \A i \in Inputs \cap Manual : next.read[i] = now.read[i]
       /\ \A i \in Inputs \ (next.missed \cup Manual) : next.digests[i] = next.read[i]

ConfigInv ==
    /\ ServersOK
    /\ now # None => Quiet(now) /\ Caught(now, disk) /\ NowKnows
    /\ next # None => Quiet(next) /\ Caught(next, disk) /\ NextKnows

-----------------------------------------------------------------------------
(* What one server's steps do to its part of the invariant.                 *)

Same(s, t) ==
    t.at = s.at /\ t.read = s.read /\ t.digests = s.digests /\ s.missed \subseteq t.missed

\* A change to an input is an event, or is missed.
LEMMA HeardIsCaught ==
  ASSUME NEW s \in Servers, NEW i \in Inputs, NEW v \in Versions, NEW d \in [Inputs -> Versions],
         s # None, Quiet(s), Caught(s, d)
  PROVE  /\ Noticed(s, i) \in Servers /\ Same(s, Noticed(s, i)) /\ Quiet(Noticed(s, i))
         /\ Caught(Noticed(s, i), [d EXCEPT ![i] = v])
         /\ \A S \in SUBSET Inputs :
               FreshlyRead(s, d, S) => FreshlyRead(Noticed(s, i), [d EXCEPT ![i] = v], S)
<1>1. CASE PlaceOf[i] \in s.handles
  <2>1. PICK e \in {i, None} : Noticed(s, i) = [s EXCEPT !.events = @ \cup {e}]
    BY <1>1 DEF Noticed
  <2>2. s.at \notin {"loading", "read"}
    BY <1>1 DEF Quiet
  <2>3. Noticed(s, i) \in Servers /\ Same(s, Noticed(s, i)) /\ Quiet(Noticed(s, i))
    BY <2>1, <2>2 DEF Servers, Same, Quiet
  <2>4. Caught(Noticed(s, i), [d EXCEPT ![i] = v])
    <3>1. /\ e \in Noticed(s, i).events /\ s.events \subseteq Noticed(s, i).events
          /\ Noticed(s, i).timer = s.timer /\ Noticed(s, i).missed = s.missed
      BY <2>1 DEF Servers
    <3>2. \A j \in Inputs : j # i => [d EXCEPT ![i] = v][j] = d[j]
      OBVIOUS
    <3> QED BY <2>3, <3>1, <3>2 DEF Same, Caught, Coming
  <2>5. Noticed(s, i).at # "read"
    BY <2>1, <2>2 DEF Servers
  <2> QED BY <2>3, <2>4, <2>5 DEF FreshlyRead
<1>2. CASE PlaceOf[i] \notin s.handles /\ s.at = "loading"
  BY <1>2 DEF Noticed, Servers, Same, Quiet, Caught, FreshlyRead
<1>3. CASE PlaceOf[i] \notin s.handles /\ s.at # "loading"
  <2>1. Noticed(s, i) = [s EXCEPT !.missed = @ \cup {i}]
    BY <1>3 DEF Noticed
  <2>2. Noticed(s, i) \in Servers /\ Same(s, Noticed(s, i)) /\ Quiet(Noticed(s, i))
    BY <2>1 DEF Servers, Same, Quiet
  <2>3. Caught(Noticed(s, i), [d EXCEPT ![i] = v])
    BY <2>1 DEF Servers, Caught, Coming
  <2> QED BY <2>1, <2>2, <2>3 DEF Servers, FreshlyRead
<1> QED BY <1>1, <1>2, <1>3

\* A directory that is made again loses its handles with an event for each.
LEMMA LostIsCaught ==
  ASSUME NEW s \in Servers, NEW p \in Places, NEW d \in [Inputs -> Versions],
         s # None, Quiet(s), Caught(s, d)
  PROVE  /\ Lost(s, p) \in Servers /\ Same(s, Lost(s, p)) /\ Lost(s, p).missed = s.missed
         /\ Quiet(Lost(s, p)) /\ Caught(Lost(s, p), d)
<1>1. CASE p \notin s.handles
  <2>1. Lost(s, p) = s
    BY <1>1 DEF Lost
  <2> QED BY <2>1 DEF Same
<1>2. CASE p \in s.handles
  <2>1. PICK E \in SUBSET Inputs : Lost(s, p) = [s EXCEPT !.handles = @ \ {p}, !.events = @ \cup E]
    BY <1>2 DEF Lost
  <2>2. s.at \notin {"loading", "read"}
    BY <1>2 DEF Quiet
  <2>3. /\ Lost(s, p) \in Servers /\ Same(s, Lost(s, p)) /\ Lost(s, p).missed = s.missed
        /\ s.events \subseteq Lost(s, p).events /\ Lost(s, p).timer = s.timer
    BY <2>1 DEF Servers, Same
  <2>4. Quiet(Lost(s, p)) /\ Caught(Lost(s, p), d)
    BY <2>2, <2>3 DEF Same, Quiet, Caught, Coming
  <2> QED BY <2>3, <2>4
<1> QED BY <1>1, <1>2

\* A step of its own never forgets a fingerprint that is behind.
LEMMA RunningIsCaught ==
  ASSUME NEW s \in Servers, NEW t, disk \in [Inputs -> Versions],
         Running(s, t), Quiet(s), Caught(s, disk)
  PROVE  /\ t \in Servers /\ Quiet(t) /\ Caught(t, disk) /\ t.at \notin {"loading", "read"}
         /\ s.at # "loading" /\ t.read = s.read /\ t.missed = s.missed
         /\ \/ s.at = "read" /\ t.digests = disk
            \/ s.at # "read" /\ t.digests = s.digests
<1>1. CASE Snapshot(s, t)
  <2>1. s.at = "read" /\ t = [s EXCEPT !.at = "attaching", !.digests = disk]
    BY <1>1 DEF Snapshot
  <2>2. ~s.timer
    BY <2>1 DEF Quiet
  <2> QED BY <2>1, <2>2 DEF Servers, Quiet, Caught
<1>2. CASE Handle(s, t)
  <2>1. PICK all \in SUBSET Places, at \in {"attaching", "serving"} :
           t = [s EXCEPT !.handles = all, !.at = at]
    BY <1>2 DEF Handle, Servers
  <2>2. s.at = "attaching" /\ ~s.timer
    BY <1>2 DEF Handle, Quiet
  <2> QED BY <2>1, <2>2 DEF Servers, Quiet, Caught, Coming
<1>3. CASE OnFileEvent(s, t)
  <2>1. PICK event \in s.events :
           t = [s EXCEPT !.events = @ \ {event}, !.timer = @ \/ Matching(event)]
    BY <1>3 DEF OnFileEvent
  <2>2. s.at = "serving" /\ Matching(event)
    BY <1>3, <2>1 DEF OnFileEvent, Servers, Matching
  <2>3. t = [s EXCEPT !.events = @ \ {event}, !.timer = TRUE]
    BY <2>1, <2>2
  <2> QED BY <2>2, <2>3 DEF Servers, Quiet, Caught, Coming
<1> QED BY <1>1, <1>2, <1>3 DEF Running, Starting

-----------------------------------------------------------------------------
(* The two servers together.                                                *)

\* When no server's config, fingerprints or place in its start change, and the
\* inputs that are missed stay missed, what the servers know stays known.
LEMMA SameKnows ==
  ASSUME ServersOK, NEW t \in Servers, NEW u \in Servers \cup {None}, NEW d \in [Inputs -> Versions],
         now # None, Same(now, t), u = None <=> next = None, next # None => Same(next, u),
         now' = t, next' = u, disk' = d, warned' = warned,
         ConfigInv, FreshlyRead(t, d, Inputs), u # None => FreshlyRead(u, d, Inputs \ Manual)
  PROVE  NowKnows' /\ (next' # None => NextKnows')
<1>1. NowKnows'
  BY DEF NowKnows, Same, ConfigInv
<1>2. ASSUME next' # None PROVE NextKnows'
  BY <1>2 DEF NextKnows, Same, ConfigInv
<1> QED BY <1>1, <1>2

LEMMA ChangeKeeps ==
  ASSUME Distinct, ConfigInv, NEW i \in Inputs, Change(i)
  PROVE  ConfigInv'
<1>1. PICK v \in Versions : disk' = [disk EXCEPT ![i] = v]
  BY DEF Change
<1>2. now # None /\ now \in Servers /\ next \in Servers \cup {None} /\ disk \in [Inputs -> Versions]
  BY DEF Change, Changed, ConfigInv, ServersOK
<1>3. now' = Noticed(now, i) /\ next' = Noticed(next, i) /\ warned' = warned
  BY DEF Change, Changed
<1>4. /\ now' \in Servers /\ Same(now, now') /\ Quiet(now') /\ Caught(now', disk')
      /\ FreshlyRead(now', disk', Inputs)
  BY <1>1, <1>2, <1>3, HeardIsCaught DEF ConfigInv, NowKnows
<1>5. next # None => /\ next' \in Servers /\ Same(next, next') /\ Quiet(next') /\ Caught(next', disk')
                     /\ FreshlyRead(next, disk, Inputs \ Manual)
                           => FreshlyRead(next', disk', Inputs \ Manual)
  BY <1>1, <1>2, <1>3, HeardIsCaught DEF ConfigInv
<1>6. next # None => FreshlyRead(next, disk, Inputs \ Manual)
  BY DEF ConfigInv, NextKnows, FreshlyRead
<1>7. next = None => next' = None
  BY <1>3 DEF Noticed
<1>8. ServersOK'
  BY <1>1, <1>2, <1>3, <1>4, <1>5, <1>7 DEF ConfigInv, ServersOK, Distinct
<1>9. NowKnows' /\ (next' # None => NextKnows')
  <2>1. next' = None <=> next = None
    BY <1>5, <1>7 DEF Distinct
  <2> QED BY <1>2, <1>3, <1>4, <1>5, <1>6, <1>8, <2>1, SameKnows DEF ConfigInv, ServersOK
<1> QED BY <1>4, <1>5, <1>7, <1>8, <1>9 DEF ConfigInv

LEMMA ReplaceKeeps ==
  ASSUME Distinct, ConfigInv, NEW p \in Places, Replace(p)
  PROVE  ConfigInv'
<1>1. now # None /\ now \in Servers /\ next \in Servers \cup {None} /\ disk \in [Inputs -> Versions]
  BY DEF Replace, Changed, ConfigInv, ServersOK
<1>2. now' = Lost(now, p) /\ next' = Lost(next, p) /\ warned' = warned /\ disk' = disk
  BY DEF Replace, Changed
<1>3. /\ now' \in Servers /\ Same(now, now') /\ now'.missed = now.missed
      /\ Quiet(now') /\ Caught(now', disk')
  BY <1>1, <1>2, LostIsCaught DEF ConfigInv
<1>4. next # None => /\ next' \in Servers /\ Same(next, next') /\ next'.missed = next.missed
                     /\ Quiet(next') /\ Caught(next', disk')
  BY <1>1, <1>2, LostIsCaught DEF ConfigInv
<1>5. next = None => next' = None
  BY <1>2 DEF Lost
<1>6. ServersOK'
  BY <1>1, <1>2, <1>3, <1>4, <1>5 DEF ConfigInv, ServersOK, Distinct
<1>7. NowKnows' /\ (next' # None => NextKnows')
  <2>1. next' = None <=> next = None
    BY <1>4, <1>5 DEF Distinct
  <2>2. FreshlyRead(now', disk', Inputs)
    BY <1>1, <1>2, <1>3 DEF ConfigInv, NowKnows, FreshlyRead, Same
  <2>3. next' # None => FreshlyRead(next', disk', Inputs \ Manual)
    BY <1>2, <1>4, <1>5 DEF ConfigInv, NextKnows, FreshlyRead, Same
  <2> QED BY <1>1, <1>2, <1>3, <1>4, <1>6, <2>1, <2>2, <2>3, SameKnows DEF ConfigInv, ServersOK
<1> QED BY <1>3, <1>4, <1>5, <1>6, <1>7 DEF ConfigInv

LEMMA StepKeeps ==
  ASSUME Distinct, ConfigInv, Step
  PROVE  ConfigInv'
<1>1. disk' = disk /\ warned' = warned /\ disk \in [Inputs -> Versions]
  BY DEF Step, ConfigInv, ServersOK
<1>2. CASE Running(now, now') /\ next' = next
  <2>1. now # None /\ now \in Servers
    BY <1>2 DEF Running, Starting, Snapshot, Handle, OnFileEvent, ConfigInv, ServersOK
  <2>2. /\ now' \in Servers /\ Quiet(now') /\ Caught(now', disk) /\ now'.at \notin {"loading", "read"}
        /\ now'.read = now.read /\ now'.missed = now.missed
        /\ \/ now.at = "read" /\ now'.digests = disk
           \/ now.at # "read" /\ now'.digests = now.digests
    BY <1>1, <1>2, <2>1, RunningIsCaught DEF ConfigInv
  <2>3. ServersOK'
    BY <1>1, <1>2, <2>2 DEF ConfigInv, ServersOK, Distinct
  <2>4. NowKnows'
    BY <1>1, <1>2, <2>1, <2>2 DEF ConfigInv, NowKnows, FreshlyRead
  <2>5. next # None => NextKnows'
    BY <1>1, <1>2, <2>2 DEF ConfigInv, NextKnows, FreshlyRead
  <2> QED BY <1>1, <1>2, <2>2, <2>3, <2>4, <2>5 DEF ConfigInv
<1>3. CASE Running(next, next') /\ now' = now
  <2>1. next # None /\ next \in Servers
    BY <1>3 DEF Running, Starting, Snapshot, Handle, OnFileEvent, ConfigInv, ServersOK
  <2>2. /\ next' \in Servers /\ Quiet(next') /\ Caught(next', disk)
        /\ next'.at \notin {"loading", "read"} /\ next.at # "loading"
        /\ next'.read = next.read /\ next'.missed = next.missed
        /\ \/ next.at = "read" /\ next'.digests = disk
           \/ next.at # "read" /\ next'.digests = next.digests
    BY <1>1, <1>3, <2>1, RunningIsCaught DEF ConfigInv
  <2>3. ServersOK' /\ next' # None
    BY <1>1, <1>3, <2>1, <2>2 DEF ConfigInv, ServersOK, Distinct
  <2>4. now # None => NowKnows'
    BY <1>1, <1>3, <2>1, <2>3 DEF ConfigInv, NowKnows, FreshlyRead
  <2>5. NextKnows'
    BY <1>1, <1>3, <2>1, <2>2 DEF ConfigInv, NextKnows, FreshlyRead
  <2> QED BY <1>1, <1>3, <2>2, <2>3, <2>4, <2>5 DEF ConfigInv
<1> QED BY <1>2, <1>3 DEF Step

\* The check, which moves the fingerprints on, begins a restart or finds one
\* under way when one of them was behind.
LEMMA CheckKeeps ==
  ASSUME Distinct, ConfigInv, CheckNow
  PROVE  ConfigInv'
<1>1. /\ now # None /\ now \in Servers /\ now.timer /\ now.at = "serving"
      /\ disk' = disk /\ disk \in [Inputs -> Versions]
  BY DEF CheckNow, ConfigInv, ServersOK, Quiet
<1>2. /\ now' \in Servers /\ now' # None /\ now'.at = "serving" /\ ~now'.timer
      /\ now'.digests = disk /\ now'.read = now.read /\ now'.missed = now.missed
  BY <1>1 DEF CheckNow, Checked, Servers, Distinct
<1>3. warned' = warned \cup (Stale(now) \cap Manual) /\ warned' \subseteq Manual
  BY DEF CheckNow, ConfigInv, ServersOK
<1>4. Stale(now) # {} => next' # None
  BY <1>1 DEF CheckNow, Server, Servers, Distinct
<1>5. NowKnows'
  <2>1. ASSUME NEW i \in Inputs, i \notin now.missed, disk[i] # now.read[i], i \notin warned'
        PROVE  i \notin Manual /\ next' # None
    <3>1. CASE i \in Stale(now)
      BY <1>3, <1>4, <2>1, <3>1
    <3>2. CASE i \notin Stale(now)
      <4>1. now.digests[i] = disk[i]
        BY <3>2 DEF Stale
      <4>2. i \notin Manual /\ next # None
        BY <1>1, <1>3, <2>1, <4>1 DEF ConfigInv, NowKnows
      <4> QED BY <4>2 DEF CheckNow
    <3> QED BY <3>1, <3>2
  <2> QED BY <1>1, <1>2, <2>1 DEF NowKnows, FreshlyRead
<1>6. Quiet(now') /\ Caught(now', disk')
  BY <1>1, <1>2 DEF Quiet, Caught
<1>7. CASE next' = next
  <2>1. ServersOK'
    BY <1>1, <1>2, <1>3, <1>7 DEF ConfigInv, ServersOK
  <2>2. next # None => NextKnows'
    BY <1>1, <1>2, <1>7 DEF ConfigInv, NextKnows, FreshlyRead
  <2> QED BY <1>1, <1>2, <1>5, <1>6, <1>7, <2>1, <2>2 DEF ConfigInv
<1>8. CASE next' = [Server(now.read) EXCEPT !.at = "loading"]
  <2>1. /\ next' \in Servers /\ next'.at = "loading"
        /\ next'.handles = {} /\ next'.events = {} /\ ~next'.timer
    BY <1>1, <1>8 DEF Server, Servers
  <2>2. ServersOK'
    BY <1>1, <1>2, <1>3, <2>1 DEF ServersOK
  <2>3. Quiet(next') /\ Caught(next', disk') /\ NextKnows'
    BY <2>1 DEF Quiet, Caught, NextKnows
  <2> QED BY <1>2, <1>5, <1>6, <2>2, <2>3 DEF ConfigInv
<1> QED BY <1>7, <1>8 DEF CheckNow

LEMMA LoadKeeps ==
  ASSUME Distinct, ConfigInv, Load
  PROVE  ConfigInv'
<1>1. /\ next # None /\ now # None /\ now \in Servers /\ disk \in [Inputs -> Versions]
      /\ disk' = disk /\ now' = now /\ warned' = warned
  BY DEF Load, ConfigInv, ServersOK
<1> DEFINE read == [i \in Inputs |-> IF i \in Manual THEN now.read[i] ELSE disk[i]]
<1>2. read \in [Inputs -> Versions]
  BY <1>1 DEF Servers
<1>3. /\ next'.at = "read" /\ next'.read = read /\ next'.digests = read
      /\ next'.handles = {} /\ next'.events = {} /\ ~next'.timer /\ next'.missed = {}
  BY DEF Load, Server
<1>4. next' \in Servers
  BY <1>2 DEF Load, Server, Servers
<1>5. ServersOK'
  BY <1>1, <1>4 DEF ConfigInv, ServersOK
<1>6. NowKnows'
  BY <1>1, <1>4 DEF ConfigInv, NowKnows, FreshlyRead, Distinct
<1>7. Quiet(next') /\ Caught(next', disk')
  BY <1>3 DEF Quiet, Caught
<1>8. NextKnows'
  BY <1>1, <1>3 DEF NextKnows, FreshlyRead
<1> QED BY <1>1, <1>5, <1>6, <1>7, <1>8 DEF ConfigInv

\* The new server answers with the runtime the old one had loaded: what was
\* missed of it then, or since, stays missed.
LEMMA SwitchKeeps ==
  ASSUME Distinct, ConfigInv, Switch
  PROVE  ConfigInv'
<1>1. /\ next # None /\ next \in Servers /\ next.at = "serving" /\ now # None /\ now \in Servers
      /\ disk' = disk /\ warned' = warned /\ next' = None
  BY DEF Switch, ConfigInv, ServersOK
<1>2. PICK more \in SUBSET Inputs :
         /\ now' = [next EXCEPT !.missed = @ \cup more]
         /\ \A i \in Inputs \cap Manual :
               i \in now.missed \/ now.digests[i] # next.digests[i] => i \in more
  <2> DEFINE more == {i \in Manual : i \in now.missed \/ now.digests[i] # next.digests[i]}
  <2>1. now' = [next EXCEPT !.missed = @ \cup more] /\ more \subseteq Inputs
    BY DEF Switch, Distinct
  <2>2. \A i \in Inputs \cap Manual :
          i \in now.missed \/ now.digests[i] # next.digests[i] => i \in more
    OBVIOUS
  <2> HIDE DEF more
  <2> QED BY <2>1, <2>2
<1>3. /\ now' \in Servers /\ now'.at = next.at /\ now'.read = next.read /\ now'.digests = next.digests
      /\ now'.handles = next.handles /\ now'.events = next.events /\ now'.timer = next.timer
      /\ now'.missed = next.missed \cup more
  BY <1>1, <1>2 DEF Servers
<1>4. ServersOK' /\ Quiet(now')
  BY <1>1, <1>3 DEF ConfigInv, ServersOK, Quiet
<1>5. Caught(now', disk')
  BY <1>1, <1>3 DEF ConfigInv, Caught, Coming
<1>6. ASSUME NEW i \in Inputs, i \notin now'.missed
      PROVE  now'.digests[i] = now'.read[i] \/ i \in warned
  <2>1. CASE i \in Manual
    <3>1. i \notin now.missed /\ now.digests[i] = next.digests[i]
      BY <1>2, <1>3, <1>6, <2>1
    <3>2. now.digests[i] = now.read[i] \/ i \in warned
      BY <1>1, <2>1, <3>1 DEF ConfigInv, NowKnows
    <3>3. next.read[i] = now.read[i]
      BY <1>1, <2>1 DEF ConfigInv, NextKnows
    <3> QED BY <1>3, <3>1, <3>2, <3>3
  <2>2. CASE i \notin Manual
    BY <1>1, <1>3, <1>6, <2>2 DEF ConfigInv, NextKnows
  <2> QED BY <2>1, <2>2
<1>7. NowKnows'
  BY <1>1, <1>3, <1>6 DEF NowKnows, FreshlyRead
<1> QED BY <1>1, <1>4, <1>5, <1>7 DEF ConfigInv

LEMMA FailKeeps ==
  ASSUME Distinct, ConfigInv, RestartFails
  PROVE  ConfigInv'
<1>1. /\ now # None /\ now \in Servers /\ next' = None /\ disk' = disk /\ warned' = warned
  BY DEF RestartFails, ConfigInv, ServersOK
<1>2. /\ now' \in Servers /\ now'.at = now.at /\ now'.read = now.read /\ now'.digests = now.digests
      /\ now'.handles = now.handles /\ now'.events = now.events /\ now'.timer = now.timer
      /\ now'.missed = now.missed \cup {i \in Inputs : now.digests[i] # now.read[i]}
  BY <1>1 DEF RestartFails, Servers
<1>3. ServersOK' /\ Quiet(now') /\ Caught(now', disk')
  BY <1>1, <1>2 DEF ConfigInv, ServersOK, Quiet, Caught, Coming
<1>4. NowKnows'
  BY <1>1, <1>2 DEF ConfigInv, NowKnows, FreshlyRead
<1> QED BY <1>1, <1>3, <1>4 DEF ConfigInv

\* Every reachable state keeps the invariant, for every distinct None.
THEOREM ConfigInvariant == ASSUME Distinct PROVE ConfigSpec => []ConfigInv
<1>1. ConfigInit => ConfigInv
  <2> SUFFICES ASSUME ConfigInit PROVE ConfigInv
    OBVIOUS
  <2>1. /\ now \in Servers /\ now.at = "read" /\ now.read = disk /\ now.digests = disk
        /\ now.handles = {} /\ now.events = {} /\ ~now.timer
    BY DEF ConfigInit, Server, Servers
  <2> QED BY <2>1 DEF ConfigInit, ConfigInv, ServersOK, Quiet, Caught, NowKnows, FreshlyRead, Distinct
<1>2. ConfigInv /\ [ConfigNext]_configVars => ConfigInv'
  <2> SUFFICES ASSUME ConfigInv, [ConfigNext]_configVars PROVE ConfigInv'
    OBVIOUS
  <2>1. ASSUME NEW i \in Inputs, Change(i) PROVE ConfigInv'
    BY <2>1, ChangeKeeps
  <2>2. ASSUME NEW d \in Places, Replace(d) PROVE ConfigInv'
    BY <2>2, ReplaceKeeps
  <2>3. CASE Close
    BY <2>3 DEF Close, ConfigInv, ServersOK
  <2>4. CASE UNCHANGED configVars
    BY <2>4 DEF configVars, ConfigInv, ServersOK, NowKnows, NextKnows
  <2> QED BY <2>1, <2>2, <2>3, <2>4, StepKeeps, CheckKeeps, LoadKeeps, SwitchKeeps, FailKeeps
          DEF ConfigNext
<1> QED BY <1>1, <1>2, PTL DEF ConfigSpec

\* At rest the dev server's config was made from what its inputs hold or the
\* log says to run it again, but for inputs that changed with nobody to tell,
\* whatever the inputs, directories and changes.
THEOREM ConfigSettles == ASSUME Distinct PROVE ConfigSpec => []SettledConfigIsCurrent
<1>1. ConfigInv => SettledConfigIsCurrent
  <2> SUFFICES ASSUME ConfigInv, now # None, now.at = "serving", next = None, now.events = {}, ~now.timer,
                      NEW i \in Inputs \ now.missed
               PROVE  now.read[i] = disk[i] \/ i \in warned
    BY DEF SettledConfigIsCurrent
  <2>1. now.digests[i] = disk[i]
    BY DEF ConfigInv, Caught, Coming
  <2>2. now.digests[i] = now.read[i] \/ i \in warned
    BY DEF ConfigInv, NowKnows
  <2> QED BY <2>1, <2>2
<1> QED BY <1>1, ConfigInvariant, PTL
=============================================================================
