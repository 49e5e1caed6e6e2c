---------------------------- MODULE EditorMapProofs ----------------------------
(***************************************************************************)
(* However builds change the tree under the worker, a map at rest is that    *)
(* of the tree, and every later change will be heard.                        *)
(***************************************************************************)
EXTENDS EditorMap, SequenceTheorems, TLAPS

\* A watch whose directory is not the one recorded hears nothing of the one
\* that is there, and a directory that is there as recorded is heard.
WatchInv ==
    \A p \in Packages :
       /\ watch[p].live => dir[p] # NoDir
       /\ dir[p] # NoDir /\ watch[p].ino = dir[p] => watch[p].live

\* The package in the worker's hand is no longer to be visited.
Attaching == at.step \in {"watch", "restat"}
StepInv ==
    /\ at.step = "next" => at = Away
    /\ at.step # "next" => phase # "idle" /\ at.pkg \in Packages \ todo
    /\ Attaching => at.pkg \in watched /\ at.ino \in Inodes
    /\ at.step = "restat" => watch[at.pkg].ino = at.ino

\* Another build follows this one: what it waits for outlives the build.
Surely ==
    timer \/ Parent \in events \/ HookData \in events \/ \E p \in watched : p \in events

\* The packages this build has met, and those it has done with in its loop.
Met(p) ==
    \/ phase = "data" /\ p \in data /\ p \notin todo
    \/ phase = "fragments" /\ (p \in data \/ p \notin todo)
    \/ phase = "merge"
Done(p) == p \notin todo /\ (at.step = "next" \/ p # at.pkg)

\* The directories that were there are there, and what was met is watched.
Heeded ==
    /\ \A p \in watched : dir[p] # NoDir /\ (watch[p].ino = dir[p] \/ (Attaching /\ at.pkg = p))
    /\ Attaching => at.ino = dir[at.pkg]
    /\ \A p \in Packages : Met(p) /\ dir[p] # NoDir => p \in watched
    /\ Attaching => phase = "data" \/ (phase = "fragments" /\ at.pkg \notin data)

\* What was read so far is as it was read.
DataRead ==
    /\ todo \subseteq data /\ (at.step # "next" => at.pkg \in data)
    /\ named = {}
    /\ \A p \in Packages : map[p] = IF p \in data /\ Done(p) THEN Index(p) ELSE None
FragmentsRead ==
    /\ named = UNION {Closure[q] : q \in {r \in frag : Done(r)}}
    /\ \A p \in Packages : map[p] = IF p \in data THEN Index(p) ELSE None
Merged ==
    /\ todo \subseteq named /\ (at.step # "next" => at.pkg \in named)
    /\ named = UNION {Closure[q] : q \in frag}
    /\ \A p \in Packages :
          /\ p \in data \/ (p \in named /\ Done(p)) => map[p] = Index(p)
          /\ p \notin data /\ p \notin named => map[p] = None

Building ==
    phase # "idle" /\ ~Surely =>
        /\ Heeded
        /\ phase = "data" => DataRead
        /\ phase = "fragments" => FragmentsRead
        /\ phase = "merge" => Merged

\* The map posted last, or the main thread's when it has received them all.
Latest == IF mail = <<>> THEN cache ELSE mail[Len(mail)]

Resting ==
    phase = "idle" /\ ~timer /\ events = {} =>
        /\ Latest = Resolution
        /\ \A p \in Packages : dir[p] # NoDir => watch[p].live

IInv == TypeOK /\ WatchInv /\ StepInv /\ Building /\ Resting

-----------------------------------------------------------------------------
(* What the constants are *)

LEMMA Names ==
  /\ Parent \notin Packages /\ HookData \notin Packages /\ None \notin Packages
  /\ NoDir \notin Inodes
  /\ Away.pkg = None /\ Away.step = "next" /\ Away.ino = NoDir
  /\ Unwatched.ino = NoDir /\ Unwatched.live = FALSE
BY NamesAssumption, InodesAssumption DEF Away, Unwatched

LEMMA WatchTypes ==
  ASSUME TypeOK, NEW p \in Packages
  PROVE  /\ watch[p].ino \in Inodes \cup {NoDir} /\ watch[p].live \in BOOLEAN
         /\ watch[p] \in Watches \/ watch[p] = Unwatched
         /\ watch[p].live => watch[p] \in Watches
         /\ dir[p] \in Inodes \cup {NoDir}
BY Names DEF TypeOK, Watches, Unwatched

-----------------------------------------------------------------------------
(* Changes to the tree.  What the build relies on is heard of. *)

\* A change to the files of p is an event, or p is not relied on yet.
LEMMA WriteKeeps ==
  ASSUME IInv, NEW p \in Packages, Write(p)
  PROVE  IInv'
<1>0. /\ TypeOK /\ WatchInv /\ StepInv /\ Building /\ Resting
      /\ dir[p] # NoDir /\ edits < MaxEdits /\ edits' = edits + 1
      /\ events' = events \cup Heard(p)
      /\ UNCHANGED <<dir, data, watch, timer, build, mail, cache>>
  BY DEF Write, Edited, IInv
<1>1. /\ decl' \subseteq Packages /\ frag' \subseteq Packages
      /\ \A q \in Packages : q # p => (q \in decl' <=> q \in decl) /\ (q \in frag' <=> q \in frag)
      /\ \A q \in decl' \cup frag' : dir[q] # NoDir
  BY <1>0 DEF Write, TypeOK
<1>2. TypeOK'
  BY <1>0, <1>1, BoundsAssumption DEF TypeOK, build, Heard
<1>3. WatchInv' /\ StepInv'
  BY <1>0 DEF WatchInv, StepInv, build, Attaching
<1>4. \A q \in Packages : q # p => Index(q)' = Index(q)
  BY <1>1 DEF Index
<1>5. Building'
  <2> SUFFICES ASSUME phase # "idle", ~Surely'
               PROVE  /\ Heeded'
                      /\ phase = "data" => DataRead'
                      /\ phase = "fragments" => FragmentsRead'
                      /\ phase = "merge" => Merged'
    BY <1>0 DEF Building, build
  <2>1. ~Surely /\ (watch[p].live => p \notin watched)
    BY <1>0 DEF Surely, Heard, build
  <2>2. Heeded
    BY <2>1 DEF Building, IInv
  <2>3. Heeded'
    BY <2>2, <1>0 DEF Heeded, Attaching, Met, build
  <2>4. p \in watched => Attaching /\ at.pkg = p
    BY <2>1, <2>2, <1>0 DEF Heeded, WatchInv
  <2>5. Met(p) => p \in watched
    BY <2>2, <1>0 DEF Heeded
  <2>6. \A q : Done(q)' <=> Done(q)
    BY <1>0 DEF Done, build
  <2>7. CASE phase = "data"
    <3>1. DataRead
      BY <2>1, <2>7, <1>0 DEF Building
    <3>2. ~(p \in data /\ Done(p))
      BY <2>4, <2>5, <2>7 DEF Met, Done, Attaching
    <3> QED BY <3>1, <3>2, <2>6, <2>3, <2>7, <1>0, <1>4 DEF DataRead, build
  <2>8. CASE phase = "fragments"
    <3>1. FragmentsRead
      BY <2>1, <2>8, <1>0 DEF Building
    <3>2. p \notin data
      BY <2>2, <2>4, <2>5, <2>8 DEF Met, Heeded
    <3>3. ~Done(p)
      BY <2>4, <2>5, <2>8 DEF Met, Done, Attaching
    <3>4. {r \in frag' : Done(r)} = {r \in frag : Done(r)}
      BY <3>3, <1>0, <1>1 DEF TypeOK
    <3>5. {r \in frag' : Done(r)'} = {r \in frag : Done(r)}
      BY <3>4, <2>6
    <3>6. named' = UNION {Closure[q] : q \in {r \in frag' : Done(r)'}}
      BY <3>1, <3>5, <1>0 DEF FragmentsRead, build
    <3>7. \A q \in Packages : map'[q] = IF q \in data' THEN Index(q)' ELSE None
      BY <3>1, <3>2, <1>0, <1>4 DEF FragmentsRead, build
    <3> QED BY <3>6, <3>7, <2>3, <2>8 DEF FragmentsRead
  <2>9. CASE phase = "merge"
    BY <2>2, <2>4, <2>5, <2>9 DEF Met, Heeded
  <2> QED BY <2>7, <2>8, <2>9, <1>0 DEF TypeOK
<1>6. Resting'
  BY <1>0 DEF Resting, Heard, build
<1> QED BY <1>2, <1>3, <1>5, <1>6 DEF IInv

\* What else happens to the tree is an event that outlives the build.
LEMMA LoudKeeps ==
  ASSUME IInv, Parent \in events' \/ HookData \in events', TypeOK', WatchInv',
         \A q \in Packages : watch'[q].ino = watch[q].ino,
         UNCHANGED build
  PROVE  IInv'
<1>1. StepInv'
  BY DEF IInv, StepInv, TypeOK, Attaching, build
<1>2. Building' /\ Resting'
  BY DEF Building, Surely, Resting
<1> QED BY <1>1, <1>2 DEF IInv

LEMMA RemoveKeeps ==
  ASSUME IInv, NEW p \in Packages, Remove(p)
  PROVE  IInv'
<1>0. /\ TypeOK /\ WatchInv /\ edits < MaxEdits /\ edits' = edits + 1
      /\ dir' = [dir EXCEPT ![p] = NoDir]
      /\ decl' = decl \ {p} /\ frag' = frag \ {p}
      /\ watch' = [watch EXCEPT ![p].live = FALSE] /\ events' = events \cup {Parent}
      /\ UNCHANGED <<data, timer, build, mail, cache>>
  BY DEF Remove, Edited, IInv
<1>1. watch'[p] \in Watches \cup {Unwatched} /\ watch'[p].ino = watch[p].ino /\ watch'[p].live = FALSE
  <2>1. watch'[p] = [watch[p] EXCEPT !.live = FALSE]
    BY <1>0 DEF TypeOK
  <2>2. CASE watch[p] \in Watches
    BY <2>1, <2>2 DEF Watches
  <2>3. CASE watch[p] = Unwatched
    <3>1. watch[p] = [ino |-> NoDir, live |-> FALSE]
      BY <2>3 DEF Unwatched
    <3>2. watch[p] \in [ino : {NoDir}, live : {FALSE}]
      BY <3>1
    <3>3. watch'[p] \in [ino : {NoDir}, live : {FALSE}]
      BY <2>1, <3>2
    <3>4. watch'[p] = [ino |-> NoDir, live |-> FALSE]
      BY <3>3
    <3> QED BY <3>1, <3>4 DEF Unwatched
  <2> QED BY <2>2, <2>3, <1>0 DEF TypeOK
<1>2. \A q \in Packages : q # p => watch'[q] = watch[q] /\ dir'[q] = dir[q]
  BY <1>0 DEF TypeOK
<1>3. dir'[p] = NoDir
  BY <1>0 DEF TypeOK
<1>4. TypeOK'
  <2>1. watch' \in [Packages -> Watches \cup {Unwatched}]
    BY <1>0, <1>1, <1>2 DEF TypeOK
  <2>2. dir' \in [Packages -> Inodes \cup {NoDir}]
    BY <1>0 DEF TypeOK
  <2>3. \A q \in decl' \cup frag' : dir'[q] # NoDir
    BY <1>0, <1>2 DEF TypeOK
  <2> QED BY <2>1, <2>2, <2>3, <1>0, BoundsAssumption DEF TypeOK, build
<1>5. WatchInv'
  BY <1>0, <1>1, <1>2, <1>3 DEF WatchInv
<1> QED BY <1>0, <1>1, <1>2, <1>4, <1>5, LoudKeeps

LEMMA MakeKeeps ==
  ASSUME IInv, NEW p \in Packages, Make(p)
  PROVE  IInv'
<1>0. /\ TypeOK /\ WatchInv /\ edits < MaxEdits /\ edits' = edits + 1 /\ dir[p] = NoDir
      /\ decl' \in {decl, decl \cup {p}} /\ frag' \in {frag, frag \cup {p}}
      /\ events' = events \cup {Parent}
      /\ UNCHANGED <<data, watch, timer, build, mail, cache>>
  BY DEF Make, Edited, IInv
<1>1. PICK i \in Inodes : i # watch[p].ino /\ dir' = [dir EXCEPT ![p] = i]
  BY DEF Make
<1>2. dir'[p] = i /\ i # NoDir /\ \A q \in Packages : q # p => dir'[q] = dir[q]
  BY <1>0, <1>1, Names DEF TypeOK
<1>3. TypeOK'
  <2>1. dir' \in [Packages -> Inodes \cup {NoDir}]
    BY <1>0, <1>1 DEF TypeOK
  <2>2. decl' \subseteq Packages /\ frag' \subseteq Packages
    BY <1>0 DEF TypeOK
  <2>3. \A q \in decl' \cup frag' : dir'[q] # NoDir
    BY <1>0, <1>2, <2>2 DEF TypeOK
  <2> QED BY <2>1, <2>2, <2>3, <1>0, BoundsAssumption DEF TypeOK, build
<1>4. WatchInv'
  BY <1>0, <1>1, <1>2 DEF WatchInv
<1> QED BY <1>0, <1>3, <1>4, LoudKeeps

LEMMA RefreshKeeps ==
  ASSUME IInv, Refresh
  PROVE  IInv'
<1>0. /\ TypeOK /\ WatchInv /\ edits < MaxEdits /\ edits' = edits + 1
      /\ data' \in SUBSET Packages /\ events' = events \cup {HookData}
      /\ UNCHANGED <<dir, decl, frag, watch, timer, build, mail, cache>>
  BY DEF Refresh, Edited, IInv
<1>1. TypeOK' /\ WatchInv'
  BY <1>0, BoundsAssumption DEF TypeOK, WatchInv, build
<1> QED BY <1>0, <1>1, LoudKeeps

-----------------------------------------------------------------------------
(* The build *)

\* What was read so far stays read while the tree and the reading stand.
LEMMA ReadsKeep ==
  ASSUME UNCHANGED <<decl, frag, data, phase, named, map>>, todo' \subseteq todo,
         at'.step # "next" => at'.pkg \in todo \/ (at.step # "next" /\ at'.pkg = at.pkg),
         \A q : Done(q)' <=> Done(q)
  PROVE  /\ DataRead => DataRead'
         /\ FragmentsRead => FragmentsRead'
         /\ Merged => Merged'
<1>1. \A q : Index(q)' = Index(q)
  BY DEF Index
<1>2. DataRead => DataRead'
  BY <1>1 DEF DataRead
<1>3. ASSUME FragmentsRead PROVE FragmentsRead'
  <2>1. {r \in frag' : Done(r)'} = {r \in frag : Done(r)}
    OBVIOUS
  <2>2. named' = UNION {Closure[q] : q \in {r \in frag' : Done(r)'}}
    BY <2>1, <1>3 DEF FragmentsRead
  <2>3. \A p \in Packages : map'[p] = IF p \in data' THEN Index(p)' ELSE None
    BY <1>1, <1>3 DEF FragmentsRead
  <2> QED BY <2>2, <2>3 DEF FragmentsRead
<1>4. Merged => Merged'
  BY <1>1 DEF Merged
<1> QED BY <1>2, <1>3, <1>4

LEMMA VisitKeeps ==
  ASSUME IInv, NEW p \in Packages, Visit(p)
  PROVE  IInv'
<1>0. /\ TypeOK /\ WatchInv /\ StepInv /\ Building /\ Resting
      /\ phase # "idle" /\ at.step = "next" /\ p \in todo /\ todo' = todo \ {p}
      /\ dir' = dir /\ decl' = decl /\ frag' = frag /\ data' = data /\ edits' = edits
      /\ UNCHANGED <<timer, phase, named, map, mail, cache>>
  BY DEF Visit, tree, IInv
<1>1. \/ /\ p \in watched \/ dir[p] = NoDir
         /\ at' = [pkg |-> p, step |-> "read", ino |-> NoDir]
         /\ UNCHANGED <<watched, watch, events>>
      \/ /\ p \notin watched /\ dir[p] # NoDir /\ watch[p].ino = dir[p]
         /\ watched' = watched \cup {p}
         /\ at' = [pkg |-> p, step |-> "read", ino |-> NoDir]
         /\ UNCHANGED <<watch, events>>
      \/ /\ p \notin watched /\ dir[p] # NoDir /\ watch[p].ino # dir[p]
         /\ watched' = watched \cup {p}
         /\ at' = [pkg |-> p, step |-> "watch", ino |-> dir[p]]
         /\ watch' = [watch EXCEPT ![p] = Unwatched]
         /\ events' = events \ {p}
  BY DEF Visit
<1>2. /\ at'.pkg = p /\ at'.step \in {"read", "watch"} /\ at'.ino \in Inodes \cup {NoDir}
      /\ at' \in [pkg : Packages \cup {None}, step : {"next", "watch", "restat", "read"},
                  ino : Inodes \cup {NoDir}]
      /\ at'.step = "watch" => at'.ino = dir[p] /\ p \in watched' /\ p \notin watched /\ dir[p] # NoDir
      /\ dir[p] # NoDir => p \in watched'
      /\ watched' = watched \/ (watched' = watched \cup {p} /\ dir[p] # NoDir)
      /\ events' = events \/ (events' = events \ {p} /\ p \notin watched)
  BY <1>0, <1>1 DEF TypeOK
<1>3. /\ \A q \in Packages : q # p => watch'[q] = watch[q]
      /\ watch'[p] = watch[p] \/ (watch'[p] = Unwatched /\ at'.step = "watch")
      /\ at'.step = "read" /\ p \in watched' /\ p \notin watched => watch[p].ino = dir[p] /\ watch'[p] = watch[p]
      /\ at'.step = "read" => watch' = watch
  BY <1>0, <1>1 DEF TypeOK
<1>4. TypeOK'
  <2>1. watch' \in [Packages -> Watches \cup {Unwatched}]
    BY <1>0, <1>1 DEF TypeOK
  <2>2. watched' \subseteq Packages /\ events' \subseteq Packages \cup {Parent, HookData}
        /\ todo' \subseteq Packages
    BY <1>0, <1>2 DEF TypeOK
  <2> QED BY <2>1, <2>2, <1>0, <1>2 DEF TypeOK
<1>5. WatchInv'
  <2> SUFFICES ASSUME NEW q \in Packages
               PROVE  /\ watch'[q].live => dir[q] # NoDir
                      /\ dir[q] # NoDir /\ watch'[q].ino = dir[q] => watch'[q].live
    BY <1>0 DEF WatchInv
  <2>1. CASE watch'[q] = watch[q]
    BY <2>1, <1>0 DEF WatchInv
  <2>2. CASE watch'[q] = Unwatched
    BY <2>2, Names
  <2> QED BY <2>1, <2>2, <1>3
<1>6. StepInv'
  BY <1>0, <1>2 DEF StepInv, Attaching
<1>7. Building'
  <2> SUFFICES ASSUME ~Surely'
               PROVE  /\ Heeded'
                      /\ phase = "data" => DataRead'
                      /\ phase = "fragments" => FragmentsRead'
                      /\ phase = "merge" => Merged'
    BY <1>0 DEF Building
  <2>1. ~Surely
    BY <1>0, <1>2, Names DEF Surely
  <2>2. Heeded
    BY <2>1, <1>0 DEF Building
  <2>3. ~Attaching /\ (Attaching' <=> at'.step = "watch")
    BY <1>0, <1>2 DEF Attaching
  <2>4. \A q \in Packages : q # p => (Met(q)' <=> Met(q))
    BY <1>0 DEF Met
  <2>5. \A q : Done(q)' <=> q # p /\ Done(q)
    BY <1>0, <1>2 DEF Done
  <2>6. Heeded'
    <3>1. ASSUME NEW q \in watched'
          PROVE  dir[q] # NoDir /\ (watch'[q].ino = dir[q] \/ (Attaching' /\ p = q))
      <4>0. q \in Packages
        BY <1>4 DEF TypeOK
      <4>1. CASE q \in watched
        <5>1. dir[q] # NoDir /\ watch[q].ino = dir[q]
          BY <4>1, <2>2, <2>3 DEF Heeded
        <5>2. watch'[q] = watch[q]
          BY <4>0, <4>1, <1>2, <1>3
        <5> QED BY <5>1, <5>2
      <4>2. CASE q \notin watched
        BY <3>1, <4>2, <2>3, <1>2, <1>3
      <4> QED BY <4>1, <4>2
    <3>2. \A q \in Packages : Met(q)' /\ dir[q] # NoDir => q \in watched'
      BY <2>2, <2>4, <1>2 DEF Heeded
    <3>3. Attaching' => phase = "data" \/ (phase = "fragments" /\ p \notin data)
      <4>1. Attaching' => ~Met(p)
        BY <2>2, <2>3, <1>2 DEF Heeded
      <4> QED BY <4>1, <1>0 DEF Met, TypeOK
    <3> QED BY <3>1, <3>2, <3>3, <2>3, <1>0, <1>2 DEF Heeded
  <2>7. \A q : Done(q)' <=> Done(q)
    BY <2>5, <1>0 DEF Done
  <2> QED BY <2>1, <2>6, <2>7, <1>0, <1>2, ReadsKeep DEF Building
<1>8. Resting'
  BY <1>0 DEF Resting
<1> QED BY <1>4, <1>5, <1>6, <1>7, <1>8 DEF IInv

LEMMA AttachKeeps ==
  ASSUME IInv, Attach
  PROVE  IInv'
<1>a. PICK p : p = at.pkg
  OBVIOUS
<1>b. PICK n : n = at.ino
  OBVIOUS
<1>0. /\ TypeOK /\ WatchInv /\ StepInv /\ Building /\ Resting
      /\ at.step = "watch" /\ phase # "idle" /\ p \in Packages \ todo /\ p \in watched
      /\ dir' = dir /\ decl' = decl /\ frag' = frag /\ data' = data /\ edits' = edits
      /\ UNCHANGED <<events, timer, phase, todo, watched, named, map, mail, cache>>
  BY <1>a DEF Attach, tree, IInv, StepInv, Attaching
<1>1. \/ /\ dir[p] = NoDir /\ at' = [at EXCEPT !.step = "read", !.ino = NoDir] /\ watch' = watch
      \/ /\ dir[p] # NoDir /\ at' = [at EXCEPT !.step = "restat"]
         /\ watch' = [watch EXCEPT ![p] = [ino |-> n, live |-> TRUE]]
  BY <1>a, <1>b DEF Attach
<1>2. /\ at'.pkg = p /\ (at'.step = "read" \/ (at'.step = "restat" /\ at'.ino = n /\ dir[p] # NoDir))
      /\ at' \in [pkg : Packages \cup {None}, step : {"next", "watch", "restat", "read"},
                  ino : Inodes \cup {NoDir}]
      /\ n \in Inodes \cup {NoDir}
  BY <1>0, <1>1, <1>a, <1>b DEF TypeOK
<1>3. /\ \A q \in Packages : q # p => watch'[q] = watch[q]
      /\ at'.step = "restat" => watch'[p] = [ino |-> n, live |-> TRUE]
      /\ at'.step = "read" => watch' = watch /\ dir[p] = NoDir
  BY <1>0, <1>1, <1>2 DEF TypeOK
<1>c. n \in Inodes
  BY <1>0, <1>b DEF StepInv, Attaching
<1>4. TypeOK'
  <2>1. watch' \in [Packages -> Watches \cup {Unwatched}]
    <3>1. [ino |-> n, live |-> TRUE] \in Watches
      BY <1>c DEF Watches
    <3> QED BY <3>1, <1>0, <1>1 DEF TypeOK
  <2> QED BY <2>1, <1>0, <1>2 DEF TypeOK
<1>5. WatchInv'
  <2> SUFFICES ASSUME NEW q \in Packages
               PROVE  /\ watch'[q].live => dir[q] # NoDir
                      /\ dir[q] # NoDir /\ watch'[q].ino = dir[q] => watch'[q].live
    BY <1>0 DEF WatchInv
  <2>1. CASE q # p \/ at'.step = "read"
    BY <2>1, <1>0, <1>3 DEF WatchInv
  <2>2. CASE q = p /\ at'.step = "restat"
    BY <2>2, <1>2, <1>3
  <2> QED BY <2>1, <2>2, <1>2
<1>6. StepInv'
  BY <1>0, <1>2, <1>3, <1>c DEF StepInv, Attaching
<1>7. Building'
  <2> SUFFICES ASSUME ~Surely'
               PROVE  /\ Heeded'
                      /\ phase = "data" => DataRead'
                      /\ phase = "fragments" => FragmentsRead'
                      /\ phase = "merge" => Merged'
    BY <1>0 DEF Building
  <2>1. ~Surely
    BY <1>0 DEF Surely
  <2>2. Heeded /\ Attaching
    BY <2>1, <1>0 DEF Building, Attaching
  <2>3. dir[p] # NoDir /\ n = dir[p]
    BY <2>2, <1>0, <1>a, <1>b DEF Heeded
  <2>4. at'.step = "restat" /\ Attaching' /\ at'.ino = n
    BY <2>3, <1>2, <1>3 DEF Attaching
  <2>5. \A q : (Met(q)' <=> Met(q)) /\ (Done(q)' <=> Done(q))
    BY <2>4, <1>0, <1>2, <1>a DEF Met, Done
  <2>6. Heeded'
    <3>1. \A q \in watched : dir[q] # NoDir /\ (watch'[q].ino = dir[q] \/ q = p)
      BY <2>2, <1>0, <1>3, <1>a DEF Heeded, TypeOK
    <3> QED BY <3>1, <2>2, <2>3, <2>4, <2>5, <1>0, <1>2, <1>a DEF Heeded
  <2> QED BY <2>1, <2>5, <2>6, <1>0, <1>2, <1>a, ReadsKeep DEF Building
<1>8. Resting'
  BY <1>0 DEF Resting
<1> QED BY <1>4, <1>5, <1>6, <1>7, <1>8 DEF IInv

LEMMA RestatKeeps ==
  ASSUME IInv, Restat
  PROVE  IInv'
<1>a. PICK p : p = at.pkg
  OBVIOUS
<1>0. /\ TypeOK /\ WatchInv /\ StepInv /\ Building /\ Resting
      /\ at.step = "restat" /\ phase # "idle" /\ p \in Packages \ todo /\ p \in watched
      /\ watch[p].ino = at.ino
      /\ dir' = dir /\ decl' = decl /\ frag' = frag /\ data' = data /\ edits' = edits
      /\ UNCHANGED <<watch, events, phase, todo, watched, named, map, mail, cache>>
      /\ timer' = (timer \/ dir[p] # at.ino)
  BY <1>a DEF Restat, tree, IInv, StepInv, Attaching
<1>1. /\ at'.pkg = p /\ at'.step = "read"
      /\ at' \in [pkg : Packages \cup {None}, step : {"next", "watch", "restat", "read"},
                  ino : Inodes \cup {NoDir}]
  BY <1>0, <1>a DEF Restat, TypeOK
<1>2. TypeOK'
  <2>1. timer' \in BOOLEAN
    BY <1>0
  <2> QED BY <2>1, <1>0, <1>1 DEF TypeOK
<1>3. WatchInv' /\ StepInv'
  BY <1>0, <1>1 DEF WatchInv, StepInv, Attaching
<1>4. Building'
  <2> SUFFICES ASSUME ~Surely'
               PROVE  /\ Heeded'
                      /\ phase = "data" => DataRead'
                      /\ phase = "fragments" => FragmentsRead'
                      /\ phase = "merge" => Merged'
    BY <1>0 DEF Building
  <2>1. ~Surely /\ dir[p] = at.ino
    BY <1>0 DEF Surely
  <2>2. Heeded /\ Attaching
    BY <2>1, <1>0 DEF Building, Attaching
  <2>3. ~Attaching'
    BY <1>1 DEF Attaching
  <2>4. \A q : (Met(q)' <=> Met(q)) /\ (Done(q)' <=> Done(q))
    BY <1>0, <1>1, <1>a DEF Met, Done
  <2>5. Heeded'
    <3>1. \A q \in watched : dir[q] # NoDir /\ watch[q].ino = dir[q]
      BY <2>1, <2>2, <1>0, <1>a DEF Heeded
    <3> QED BY <3>1, <2>2, <2>3, <2>4, <1>0 DEF Heeded
  <2> QED BY <2>1, <2>4, <2>5, <1>0, <1>1, <1>a, ReadsKeep DEF Building
<1>5. Resting'
  BY <1>0 DEF Resting
<1> QED BY <1>2, <1>3, <1>4, <1>5 DEF IInv

LEMMA ReadKeeps ==
  ASSUME IInv, Read
  PROVE  IInv'
<1>a. PICK p : p = at.pkg
  OBVIOUS
<1>0. /\ TypeOK /\ WatchInv /\ StepInv /\ Building /\ Resting
      /\ at.step = "read" /\ phase # "idle" /\ p \in Packages \ todo
      /\ dir' = dir /\ decl' = decl /\ frag' = frag /\ data' = data /\ edits' = edits
      /\ UNCHANGED <<watch, events, timer, phase, todo, watched, mail, cache>>
      /\ at' = Away
  BY <1>a DEF Read, tree, IInv, StepInv
<1>1. IF phase = "fragments"
      THEN named' = (IF p \in frag THEN named \cup Closure[p] ELSE named) /\ map' = map
      ELSE map' = [map EXCEPT ![p] = Index(p)] /\ named' = named
  BY <1>a DEF Read
<1>2. TypeOK'
  <2>1. named' \subseteq Packages
    BY <1>0, <1>1, ClosureAssumption DEF TypeOK
  <2>2. map' \in Maps
    BY <1>0, <1>1 DEF TypeOK, Maps, Index
  <2>3. at' \in [pkg : Packages \cup {None}, step : {"next", "watch", "restat", "read"},
                 ino : Inodes \cup {NoDir}]
    BY <1>0 DEF Away
  <2> QED BY <2>1, <2>2, <2>3, <1>0 DEF TypeOK
<1>3. WatchInv' /\ StepInv'
  BY <1>0, Names DEF WatchInv, StepInv, Attaching
<1>4. Building'
  <2> SUFFICES ASSUME ~Surely'
               PROVE  /\ Heeded'
                      /\ phase = "data" => DataRead'
                      /\ phase = "fragments" => FragmentsRead'
                      /\ phase = "merge" => Merged'
    BY <1>0 DEF Building
  <2>1. ~Surely
    BY <1>0 DEF Surely
  <2>2. Heeded /\ ~Attaching /\ ~Attaching'
    BY <2>1, <1>0, Names DEF Building, Attaching
  <2>3. \A q : Met(q)' <=> Met(q)
    BY <1>0 DEF Met
  <2>4. \A q : Done(q)' <=> Done(q) \/ q = p
    BY <1>0, <1>a, Names DEF Done
  <2>a. \A q : Index(q)' = Index(q)
    BY <1>0 DEF Index
  <2>5. Heeded'
    BY <2>2, <2>3, <1>0 DEF Heeded
  <2>6. CASE phase = "data"
    <3>1. DataRead /\ p \in data
      BY <2>1, <2>6, <1>0, <1>a DEF Building, DataRead
    <3>2. \A q \in Packages : map'[q] = IF q = p THEN Index(p) ELSE map[q]
      BY <2>6, <1>0, <1>1 DEF TypeOK, Maps
    <3>3. named' = named
      BY <2>6, <1>1
    <3>4. \A q \in Packages : map'[q] = IF q \in data' /\ Done(q)' THEN Index(q)' ELSE None
      BY <3>1, <3>2, <2>4, <2>a, <1>0 DEF DataRead
    <3> QED BY <3>1, <3>3, <3>4, <2>5, <2>6, <1>0, Names DEF DataRead
  <2>7. CASE phase = "fragments"
    <3>1. FragmentsRead
      BY <2>1, <2>7, <1>0 DEF Building
    <3>2. {r \in frag : Done(r)'} = {r \in frag : Done(r)} \cup (IF p \in frag THEN {p} ELSE {})
      BY <2>4
    <3>5. named' = UNION {Closure[q] : q \in {r \in frag' : Done(r)'}}
      <4> DEFINE D == {r \in frag : Done(r)}
      <4>1. named = UNION {Closure[q] : q \in D}
        BY <3>1 DEF FragmentsRead
      <4> HIDE DEF D
      <4>2. UNION {Closure[q] : q \in D \cup {p}} = (UNION {Closure[q] : q \in D}) \cup Closure[p]
        OBVIOUS
      <4>3. D \cup {} = D
        OBVIOUS
      <4>4. {r \in frag' : Done(r)'} = D \cup (IF p \in frag THEN {p} ELSE {})
        BY <3>2, <1>0 DEF D
      <4>5. CASE p \in frag
        BY <4>1, <4>2, <4>4, <4>5, <2>7, <1>1
      <4>6. CASE p \notin frag
        BY <4>1, <4>3, <4>4, <4>6, <2>7, <1>1
      <4> QED BY <4>5, <4>6
    <3>4. \A q \in Packages : map'[q] = IF q \in data' THEN Index(q)' ELSE None
      BY <3>1, <2>7, <2>a, <1>0, <1>1 DEF FragmentsRead
    <3> QED BY <3>4, <3>5, <2>5, <2>7 DEF FragmentsRead
  <2>8. CASE phase = "merge"
    <3>1. Merged /\ p \in named
      BY <2>1, <2>8, <1>0, <1>a DEF Building, Merged
    <3>2. \A q \in Packages : map'[q] = IF q = p THEN Index(p) ELSE map[q]
      BY <2>8, <1>0, <1>1 DEF TypeOK, Maps
    <3>3. named' = named
      BY <2>8, <1>1
    <3>4. \A q \in Packages :
             /\ q \in data' \/ (q \in named' /\ Done(q)') => map'[q] = Index(q)'
             /\ q \notin data' /\ q \notin named' => map'[q] = None
      BY <3>1, <3>2, <3>3, <2>4, <2>a, <1>0 DEF Merged
    <3>5. named' = UNION {Closure[q] : q \in frag'}
      BY <3>1, <3>3, <1>0 DEF Merged
    <3>6. todo' \subseteq named' /\ at'.step = "next"
      BY <3>1, <3>3, <1>0, Names DEF Merged
    <3> QED BY <3>4, <3>5, <3>6, <2>5, <2>8 DEF Merged
  <2> QED BY <2>5, <2>6, <2>7, <2>8
<1>5. Resting'
  BY <1>0 DEF Resting
<1> QED BY <1>2, <1>3, <1>4, <1>5 DEF IInv

LEMMA NextLoopKeeps ==
  ASSUME IInv, NextLoop
  PROVE  IInv'
<1>0. /\ TypeOK /\ WatchInv /\ StepInv /\ Building /\ Resting
      /\ phase \in {"data", "fragments"} /\ at.step = "next" /\ todo = {}
      /\ dir' = dir /\ decl' = decl /\ frag' = frag /\ data' = data /\ edits' = edits
      /\ UNCHANGED <<watch, events, timer, at, watched, named, map, mail, cache>>
  BY DEF NextLoop, tree, IInv
<1>1. /\ phase = "data" => phase' = "fragments" /\ todo' = Packages
      /\ phase = "fragments" => phase' = "merge" /\ todo' = {p \in named : map[p] = None}
  BY DEF NextLoop
<1>2. TypeOK'
  <2>1. todo' \subseteq Packages /\ phase' \in {"fragments", "merge"}
    BY <1>0, <1>1 DEF TypeOK
  <2> QED BY <2>1, <1>0 DEF TypeOK
<1>3. WatchInv' /\ StepInv'
  BY <1>0 DEF WatchInv, StepInv, Attaching
<1>4. Building'
  <2> SUFFICES ASSUME ~Surely'
               PROVE  /\ Heeded'
                      /\ phase' = "data" => DataRead'
                      /\ phase' = "fragments" => FragmentsRead'
                      /\ phase' = "merge" => Merged'
    BY <1>0 DEF Building
  <2>1. ~Surely
    BY <1>0 DEF Surely
  <2>2. Heeded /\ ~Attaching /\ ~Attaching'
    BY <2>1, <1>0 DEF Building, Attaching
  <2>3. \A q : Done(q)
    BY <1>0 DEF Done
  <2>a. \A q : Index(q)' = Index(q)
    BY <1>0 DEF Index
  <2>4. \A q \in Packages : Met(q)' => Met(q)
    BY <1>0, <1>1 DEF Met
  <2>5. Heeded'
    BY <2>2, <2>4, <1>0 DEF Heeded
  <2>6. CASE phase = "data"
    <3>1. DataRead
      BY <2>1, <2>6, <1>0 DEF Building
    <3>2. \A q \in Packages : ~Done(q)'
      BY <2>6, <1>1 DEF Done
    <3>3. {r \in frag' : Done(r)'} = {}
      BY <3>2, <1>2 DEF TypeOK
    <3>4. named' = UNION {Closure[q] : q \in {r \in frag' : Done(r)'}}
      BY <3>1, <3>3, <1>0 DEF DataRead
    <3>5. \A q \in Packages : map'[q] = IF q \in data' THEN Index(q)' ELSE None
      BY <3>1, <2>3, <2>a, <1>0 DEF DataRead
    <3> QED BY <3>4, <3>5, <2>5, <2>6, <1>1 DEF FragmentsRead
  <2>7. CASE phase = "fragments"
    <3>1. FragmentsRead
      BY <2>1, <2>7, <1>0 DEF Building
    <3>2. {r \in frag : Done(r)} = frag
      BY <2>3
    <3>3. named' = UNION {Closure[q] : q \in frag'}
      BY <3>1, <3>2, <1>0 DEF FragmentsRead
    <3>4. \A q \in Packages : Done(q)' <=> ~(q \in named /\ map[q] = None)
      BY <2>7, <1>0, <1>1 DEF Done
    <3>5. \A q \in Packages : map[q] = IF q \in data THEN Index(q) ELSE None
      BY <3>1 DEF FragmentsRead
    <3>6. \A q \in Packages :
             /\ q \in data' \/ (q \in named' /\ Done(q)') => map'[q] = Index(q)'
             /\ q \notin data' /\ q \notin named' => map'[q] = None
      BY <3>4, <3>5, <2>a, <1>0
    <3>7. todo' \subseteq named' /\ at'.step = "next"
      BY <2>7, <1>0, <1>1
    <3> QED BY <3>3, <3>6, <3>7, <2>5, <2>7, <1>1 DEF Merged
  <2> QED BY <2>6, <2>7, <1>0
<1>5. Resting'
  BY <1>0, <1>1 DEF Resting
<1> QED BY <1>2, <1>3, <1>4, <1>5 DEF IInv

\* A map that nothing has disturbed is that of the tree.
LEMMA PostKeeps ==
  ASSUME IInv, Post
  PROVE  IInv'
<1>0. /\ TypeOK /\ WatchInv /\ StepInv /\ Building
      /\ phase = "merge" /\ at.step = "next" /\ todo = {} /\ Len(mail) < MaxMail
      /\ watch' = [p \in Packages |-> IF p \in watched THEN watch[p] ELSE Unwatched]
      /\ events' = events \cap (watched \cup {Parent, HookData})
      /\ mail' = Append(mail, map) /\ phase' = "idle"
      /\ dir' = dir /\ decl' = decl /\ frag' = frag /\ data' = data /\ edits' = edits
      /\ UNCHANGED <<timer, todo, at, watched, named, map, cache>>
  BY DEF Post, tree, IInv
<1>1. mail' \in Seq(Maps) /\ Len(mail') = Len(mail) + 1 /\ mail'[Len(mail')] = map /\ mail' # <<>>
  BY <1>0 DEF TypeOK
<1>2. \A p \in Packages : watch'[p] = IF p \in watched THEN watch[p] ELSE Unwatched
  BY <1>0
<1>3. TypeOK'
  <2>1. watch' \in [Packages -> Watches \cup {Unwatched}]
    BY <1>0 DEF TypeOK
  <2>2. events' \subseteq Packages \cup {Parent, HookData}
    BY <1>0 DEF TypeOK
  <2>3. Len(mail') <= MaxMail
    BY <1>0, <1>1, BoundsAssumption DEF TypeOK
  <2> QED BY <2>1, <2>2, <2>3, <1>0, <1>1 DEF TypeOK
<1>4. WatchInv'
  <2> SUFFICES ASSUME NEW p \in Packages
               PROVE  /\ watch'[p].live => dir[p] # NoDir
                      /\ dir[p] # NoDir /\ watch'[p].ino = dir[p] => watch'[p].live
    BY <1>0 DEF WatchInv
  <2>1. CASE p \in watched
    BY <2>1, <1>0, <1>2 DEF WatchInv
  <2>2. CASE p \notin watched
    BY <2>2, <1>2, Names
  <2> QED BY <2>1, <2>2
<1>5. StepInv' /\ Building'
  BY <1>0 DEF StepInv, Attaching, Building
<1>6. Resting'
  <2> SUFFICES ASSUME ~timer', events' = {}
               PROVE  /\ Latest' = Resolution'
                      /\ \A p \in Packages : dir'[p] # NoDir => watch'[p].live
    BY DEF Resting
  <2>1. ~Surely
    BY <1>0 DEF Surely
  <2>2. Heeded /\ Merged /\ ~Attaching
    BY <2>1, <1>0 DEF Building, Attaching
  <2>3. Latest' = map
    BY <1>1 DEF Latest
  <2>4. map = Resolution
    <3>1. map = [p \in Packages |-> map[p]]
      BY <1>0 DEF TypeOK, Maps
    <3>2. \A p \in Packages : map[p] = IF p \in data \cup named THEN Index(p) ELSE None
      BY <2>2, <1>0 DEF Merged, Done
    <3>3. named = UNION {Closure[q] : q \in frag}
      BY <2>2 DEF Merged
    <3>4. Resolution = [p \in Packages |-> IF p \in data \cup named THEN Index(p) ELSE None]
      BY <3>3 DEF Resolution
    <3> QED BY <3>1, <3>2, <3>4
  <2>5. Resolution' = Resolution
    BY <1>0 DEF Resolution, Index
  <2>6. ASSUME NEW p \in Packages, dir[p] # NoDir
        PROVE  watch'[p].live
    <3>1. p \in watched
      BY <2>2, <2>6, <1>0 DEF Heeded, Met
    <3>2. watch[p].ino = dir[p]
      BY <3>1, <2>2 DEF Heeded
    <3> QED BY <3>1, <3>2, <2>6, <1>0, <1>2 DEF WatchInv
  <2> QED BY <2>3, <2>4, <2>5, <2>6, <1>0
<1> QED BY <1>3, <1>4, <1>5, <1>6 DEF IInv

-----------------------------------------------------------------------------
(* The event loops *)

LEMMA DeliverKeeps ==
  ASSUME IInv, NEW d \in Packages \cup {Parent, HookData}, Deliver(d)
  PROVE  IInv'
<1>0. /\ TypeOK /\ WatchInv /\ StepInv
      /\ phase = "idle" /\ timer' = TRUE /\ events' = events \ {d}
      /\ dir' = dir /\ decl' = decl /\ frag' = frag /\ data' = data /\ edits' = edits
      /\ UNCHANGED <<watch, phase, todo, at, watched, named, map, mail, cache>>
  BY DEF Deliver, tree, build, IInv
<1>1. TypeOK' /\ WatchInv' /\ StepInv'
  BY <1>0 DEF TypeOK, WatchInv, StepInv, Attaching
<1>2. Building' /\ Resting'
  BY <1>0 DEF Building, Resting
<1> QED BY <1>1, <1>2 DEF IInv

LEMMA RebuildKeeps ==
  ASSUME IInv, Rebuild
  PROVE  IInv'
<1>0. /\ TypeOK /\ WatchInv /\ StepInv
      /\ timer' = FALSE /\ phase' = "data" /\ todo' = data /\ at' = Away
      /\ watched' = {} /\ named' = {} /\ map' = Empty
      /\ dir' = dir /\ decl' = decl /\ frag' = frag /\ data' = data /\ edits' = edits
      /\ UNCHANGED <<watch, events, mail, cache>>
  BY DEF Rebuild, tree, IInv
<1>1. TypeOK'
  <2>1. map' \in Maps
    BY <1>0 DEF Empty, Maps
  <2>2. at' \in [pkg : Packages \cup {None}, step : {"next", "watch", "restat", "read"},
                 ino : Inodes \cup {NoDir}]
    BY <1>0 DEF Away
  <2> QED BY <2>1, <2>2, <1>0 DEF TypeOK
<1>2. WatchInv' /\ StepInv' /\ Resting'
  BY <1>0, Names DEF WatchInv, StepInv, Attaching, Resting
<1>3. Building'
  <2>1. Heeded'
    BY <1>0, Names DEF Heeded, Attaching, Met
  <2>2. \A p \in Packages : map'[p] = None /\ ~(p \in data' /\ Done(p)')
    BY <1>0 DEF Empty, Done
  <2>3. DataRead'
    BY <2>2, <1>0, Names DEF DataRead
  <2> QED BY <2>1, <2>3, <1>0 DEF Building
<1> QED BY <1>1, <1>2, <1>3 DEF IInv

LEMMA ReceiveKeeps ==
  ASSUME IInv, Receive
  PROVE  IInv'
<1>0. /\ TypeOK /\ WatchInv /\ StepInv /\ Building /\ Resting
      /\ mail # <<>> /\ cache' = Head(mail) /\ mail' = Tail(mail)
      /\ dir' = dir /\ decl' = decl /\ frag' = frag /\ data' = data /\ edits' = edits
      /\ UNCHANGED <<watch, events, timer, phase, todo, at, watched, named, map>>
  BY DEF Receive, tree, build, IInv
<1>1. mail \in Seq(Maps) /\ Len(mail) \in Nat /\ Len(mail) <= MaxMail
  BY <1>0 DEF TypeOK
<1>2. /\ cache' \in Maps /\ mail' \in Seq(Maps) /\ Len(mail') = Len(mail) - 1
      /\ Latest' = Latest
  <2>1. Len(mail) > 0 /\ cache' = mail[1] /\ mail[1] \in Maps
    BY <1>0, <1>1
  <2>2. mail' \in Seq(Maps) /\ Len(mail') = Len(mail) - 1
    BY <1>0, <1>1
  <2>3. CASE Len(mail) = 1
    <3>1. mail' = <<>>
      BY <2>2, <2>3
    <3>2. Latest' = cache' /\ Latest = mail[1]
      BY <3>1, <2>3, <1>0 DEF Latest
    <3> QED BY <3>2, <2>1, <2>2
  <2>4. CASE Len(mail) > 1
    <3>1. mail' # <<>>
      BY <2>2, <2>4, <1>1
    <3>2. mail'[Len(mail')] = mail[Len(mail)]
      <4>1. \A i \in 1..Len(Tail(mail)) : Tail(mail)[i] = mail[i + 1]
        BY <1>0, <1>1, HeadTailProperties
      <4>2. Len(mail') \in 1..Len(Tail(mail)) /\ Len(mail') + 1 = Len(mail)
        BY <2>2, <2>4, <1>0, <1>1
      <4>3. Tail(mail)[Len(mail')] = mail[Len(mail') + 1]
        BY <4>1, <4>2
      <4> QED BY <4>2, <4>3, <1>0
    <3>3. Latest' = mail'[Len(mail')] /\ Latest = mail[Len(mail)]
      BY <3>1, <1>0 DEF Latest
    <3>4. Latest' = Latest
      BY <3>2, <3>3
    <3> QED BY <3>4, <2>1, <2>2
  <2>5. Len(mail) = 1 \/ Len(mail) > 1
    <3>1. \A n \in Nat : n > 0 => n = 1 \/ n > 1
      OBVIOUS
    <3>2. Len(mail) \in Nat /\ Len(mail) > 0
      BY <2>1, <1>1
    <3> QED BY <3>1, <3>2
  <2> QED BY <2>3, <2>4, <2>5
<1>3. Len(mail') <= MaxMail
  BY <1>1, <1>2, BoundsAssumption
<1>4. TypeOK'
  BY <1>0, <1>2, <1>3 DEF TypeOK
<1>5. WatchInv' /\ StepInv'
  BY <1>0 DEF WatchInv, StepInv, Attaching
<1>6. Building'
  <2>1. Surely' <=> Surely
    BY <1>0 DEF Surely
  <2>2. Heeded => Heeded'
    BY <1>0 DEF Heeded, Attaching, Met
  <2>3. \A q : Done(q)' <=> Done(q)
    BY <1>0 DEF Done
  <2>4. (DataRead => DataRead') /\ (FragmentsRead => FragmentsRead') /\ (Merged => Merged')
    <3>1. UNCHANGED <<decl, frag, data, phase, named, map>> /\ todo' \subseteq todo
          /\ at' = at
      BY <1>0
    <3>2. at.step # "next" => at.pkg \in todo \/ (at.step # "next" /\ at.pkg = at.pkg)
      OBVIOUS
    <3> QED BY <3>1, <3>2, <2>3, ReadsKeep
  <2> QED BY <2>1, <2>2, <2>4, <1>0 DEF Building
<1>7. Resting'
  <2>1. Resolution' = Resolution
    BY <1>0 DEF Resolution, Index
  <2> QED BY <2>1, <1>0, <1>2 DEF Resting
<1> QED BY <1>4, <1>5, <1>6, <1>7 DEF IInv

-----------------------------------------------------------------------------
(* The theorems *)

LEMMA StutterKeeps ==
  ASSUME IInv, UNCHANGED vars
  PROVE  IInv'
<1>0. /\ TypeOK /\ WatchInv /\ StepInv /\ Building /\ Resting
      /\ dir' = dir /\ decl' = decl /\ frag' = frag /\ data' = data /\ edits' = edits
      /\ UNCHANGED <<watch, events, timer, phase, todo, at, watched, named, map, mail, cache>>
  BY DEF IInv, vars, tree, build
<1>1. TypeOK' /\ WatchInv' /\ StepInv'
  BY <1>0 DEF TypeOK, WatchInv, StepInv, Attaching
<1>2. \A q : (Done(q)' <=> Done(q)) /\ Index(q)' = Index(q)
  BY <1>0 DEF Done, Index
<1>3. Surely' <=> Surely
  BY <1>0 DEF Surely
<1>4. Heeded => Heeded'
  BY <1>0 DEF Heeded, Attaching, Met
<1>5. (DataRead => DataRead') /\ (FragmentsRead => FragmentsRead') /\ (Merged => Merged')
  <2>1. UNCHANGED <<decl, frag, data, phase, named, map>> /\ todo' \subseteq todo /\ at' = at
    BY <1>0
  <2> QED BY <2>1, <1>2, ReadsKeep
<1>6. Building'
  BY <1>0, <1>3, <1>4, <1>5 DEF Building
<1>7. Resting'
  BY <1>0 DEF Resting, Latest, Resolution, Index
<1> QED BY <1>1, <1>6, <1>7 DEF IInv

\* The worker's first build has met nothing and relies on nothing.
LEMMA InitHolds == Init => IInv
<1> SUFFICES ASSUME Init PROVE IInv
  OBVIOUS
<1>1. TypeOK
  <2>1. map \in Maps /\ cache \in Maps
    BY DEF Init, Empty, Maps
  <2>2. at \in [pkg : Packages \cup {None}, step : {"next", "watch", "restat", "read"},
                ino : Inodes \cup {NoDir}]
    BY DEF Init, Away
  <2>3. watch \in [Packages -> Watches \cup {Unwatched}]
    BY DEF Init
  <2>4. mail \in Seq(Maps) /\ Len(mail) <= MaxMail /\ edits \in 0..MaxEdits
    BY BoundsAssumption DEF Init
  <2>5. /\ dir \in [Packages -> Inodes \cup {NoDir}] /\ data \subseteq Packages
        /\ decl \subseteq Packages /\ frag \subseteq Packages
        /\ \A p \in decl \cup frag : dir[p] # NoDir
    BY DEF Init
  <2> QED BY <2>1, <2>2, <2>3, <2>4, <2>5 DEF Init, TypeOK
<1>2. WatchInv
  <2>1. \A p \in Packages : watch[p] = Unwatched
    BY DEF Init
  <2>2. \A p \in Packages : dir[p] # watch[p].ino \/ dir[p] = NoDir
    BY <2>1, Names
  <2> QED BY <2>1, <2>2, Names DEF WatchInv
<1>3. StepInv
  BY Names DEF Init, StepInv, Attaching
<1>4. Building
  <2>1. Heeded
    BY Names DEF Init, Heeded, Attaching, Met
  <2>2. \A p \in Packages : map[p] = None /\ ~(p \in data /\ Done(p))
    BY DEF Init, Empty, Done
  <2>3. DataRead
    BY <2>2, Names DEF Init, DataRead
  <2> QED BY <2>1, <2>3 DEF Init, Building
<1>5. Resting
  BY DEF Init, Resting
<1> QED BY <1>1, <1>2, <1>3, <1>4, <1>5 DEF IInv

LEMMA StepHolds == IInv /\ [Next]_vars => IInv'
<1> SUFFICES ASSUME IInv, [Next]_vars PROVE IInv'
  OBVIOUS
<1>1. CASE Refresh
  BY <1>1, RefreshKeeps
<1>2. ASSUME NEW p \in Packages, Write(p) PROVE IInv'
  BY <1>2, WriteKeeps
<1>3. ASSUME NEW p \in Packages, Remove(p) PROVE IInv'
  BY <1>3, RemoveKeeps
<1>4. ASSUME NEW p \in Packages, Make(p) PROVE IInv'
  BY <1>4, MakeKeeps
<1>5. ASSUME NEW p \in Packages, Visit(p) PROVE IInv'
  BY <1>5, VisitKeeps
<1>6. CASE Attach
  BY <1>6, AttachKeeps
<1>7. CASE Restat
  BY <1>7, RestatKeeps
<1>8. CASE Read
  BY <1>8, ReadKeeps
<1>9. CASE NextLoop
  BY <1>9, NextLoopKeeps
<1>10. CASE Post
  BY <1>10, PostKeeps
<1>11. ASSUME NEW d \in Packages \cup {Parent, HookData}, Deliver(d) PROVE IInv'
  BY <1>11, DeliverKeeps
<1>12. CASE Rebuild
  BY <1>12, RebuildKeeps
<1>13. CASE Receive
  BY <1>13, ReceiveKeeps
<1>14. CASE UNCHANGED vars
  BY <1>14, StutterKeeps
<1> QED
  BY <1>1, <1>2, <1>3, <1>4, <1>5, <1>6, <1>7, <1>8, <1>9, <1>10, <1>11, <1>12, <1>13, <1>14
  DEF Next, Edit, Worker

\* A build that nothing will follow has read the tree as it is and watches
\* what it has met: the invariant buildResolutionMap keeps.
THEOREM EditorInvariant == Spec => []IInv
<1>1. Init => IInv
  BY InitHolds
<1>2. IInv /\ [Next]_vars => IInv'
  BY StepHolds
<1> QED BY <1>1, <1>2, PTL DEF Spec

\* The state of the worker and the main thread has its type.
THEOREM EditorTypes == Spec => []TypeOK
<1>1. IInv => TypeOK
  BY DEF IInv
<1> QED BY <1>1, EditorInvariant, PTL

\* SettledIsCurrent: when nothing is under way the editor's map is that of
\* the tree, and every directory that is there is heard, whatever changed
\* between the watch, the second stat and the read of a build.
THEOREM EditorsSettle == Spec => []SettledIsCurrent
<1>1. IInv => SettledIsCurrent
  BY DEF IInv, Resting, SettledIsCurrent, Settled, Latest
<1> QED BY <1>1, EditorInvariant, PTL
=============================================================================
