------------------------------ MODULE EditorMap ------------------------------
(***************************************************************************)
(* The editor's resolution map (tools/tsserver-hook-worker.js and          *)
(* tsserver-hook-resolver.js).  A worker thread reads the package list     *)
(* refresh_tsconfig wrote, the fragments builds leave, and the index files *)
(* of the packages named there, posts the map to the main thread, and      *)
(* builds it again half a second after a directory it watches changed.     *)
(*                                                                         *)
(* The file system changes at any moment, also between two system calls of *)
(* one build; events wait until the build has returned to the event loop.  *)
(* A package's output directory can be removed and made again, under an    *)
(* inode number the worker has not recorded for it.                        *)
(***************************************************************************)
EXTENDS Naturals, Sequences

CONSTANTS
    Packages,   \* first-party package paths
    Inodes,     \* inode numbers of output directories
    Authored,   \* packages whose checkout directory has an index file
    Closure,    \* Closure[p] is what p's fragment names
    MaxEdits,   \* bound on the changes to the tree
    MaxMail     \* bound on the maps the main thread has not received

ASSUME ClosureAssumption == Closure \in [Packages -> SUBSET Packages]
ASSUME AuthoredAssumption == Authored \subseteq Packages

None  == "none"
NoDir == 0

ASSUME InodesAssumption == Inodes \subseteq Nat \ {NoDir}
ASSUME BoundsAssumption == MaxEdits \in Nat /\ MaxMail \in Nat \ {0}

VARIABLES
    dir,      \* the inode of each package's output directory, or NoDir
    decl,     \* packages whose output directory holds index.d.ts
    frag,     \* packages whose output directory holds a fragment
    data,     \* the packages tsserver-hook-data.json lists
    watch,    \* directoryWatchers: the inode recorded, and whether the
              \* kernel's watch is on the directory that is there now
    events,   \* directories with undelivered events
    timer,    \* rebuildTimer is set
    phase,    \* which loop of buildResolutionMap the worker is in
    todo,     \* packages that loop has still to visit
    at,       \* [pkg, step, ino]: the system call it is about to make
    watched,  \* directories this build has watched
    named,    \* packages named by the fragments this build has read
    map,      \* the map under construction
    mail,     \* maps posted and not received
    cache,    \* the main thread's map
    edits     \* history: changes made to the tree

tree   == <<dir, decl, frag, data, edits>>
build  == <<phase, todo, at, watched, named, map>>
vars   == <<tree, watch, events, timer, build, mail, cache>>

Maps     == [Packages -> {"bin", "src", None}]
Watches  == [ino : Inodes, live : BOOLEAN]
Unwatched == [ino |-> NoDir, live |-> FALSE]
Parent   == "bazel-bin"     \* the directory above the packages' outputs
HookData == ".bazel"        \* the directory of the data file
Away     == [pkg |-> None, step |-> "next", ino |-> NoDir]

ASSUME NamesAssumption == {None, Parent, HookData} \cap Packages = {}

TypeOK ==
    /\ dir \in [Packages -> Inodes \cup {NoDir}]
    /\ decl \subseteq Packages /\ frag \subseteq Packages /\ data \subseteq Packages
    /\ \A p \in decl \cup frag : dir[p] # NoDir
    /\ watch \in [Packages -> Watches \cup {Unwatched}]
    /\ events \subseteq Packages \cup {Parent, HookData}
    /\ timer \in BOOLEAN
    /\ phase \in {"idle", "data", "fragments", "merge"}
    /\ todo \subseteq Packages
    /\ at \in [pkg : Packages \cup {None}, step : {"next", "watch", "restat", "read"},
               ino : Inodes \cup {NoDir}]
    /\ watched \subseteq Packages /\ named \subseteq Packages
    /\ map \in Maps /\ cache \in Maps
    /\ mail \in Seq(Maps) /\ Len(mail) <= MaxMail
    /\ edits \in 0..MaxEdits

Empty == [p \in Packages |-> None]

\* scanPackageForResolution: the output tree before the checkout.
Index(p) ==
    IF p \in decl THEN "bin" ELSE IF p \in Authored THEN "src" ELSE None

\* What a map of the tree as it stands holds.
Resolution ==
    [p \in Packages |->
        IF p \in data \cup UNION {Closure[q] : q \in frag} THEN Index(p) ELSE None]

\* The worker starts in its first build and has read the data file.
Init ==
    /\ dir \in [Packages -> Inodes \cup {NoDir}]
    /\ \A p, q \in Packages : dir[p] = dir[q] => p = q \/ dir[p] = NoDir
    /\ decl \in SUBSET {p \in Packages : dir[p] # NoDir}
    /\ frag \in SUBSET {p \in Packages : dir[p] # NoDir}
    /\ data \in SUBSET Packages
    /\ edits = 0
    /\ watch = [p \in Packages |-> Unwatched]
    /\ events = {}
    /\ timer = FALSE
    /\ phase = "data" /\ todo = data /\ at = Away
    /\ watched = {} /\ named = {} /\ map = Empty
    /\ mail = <<>>
    /\ cache = Empty

-----------------------------------------------------------------------------
(* The tree: builds, refresh_tsconfig.  A live watch sees what happens in   *)
(* its directory, the parent's what happens to the directory.               *)

Edited ==
    /\ edits < MaxEdits
    /\ edits' = edits + 1

Heard(p) == IF watch[p].live THEN {p} ELSE {}

Write(p) ==
    /\ Edited
    /\ dir[p] # NoDir
    /\ \/ /\ decl' = IF p \in decl THEN decl \ {p} ELSE decl \cup {p}
          /\ UNCHANGED frag
       \/ /\ frag' = IF p \in frag THEN frag \ {p} ELSE frag \cup {p}
          /\ UNCHANGED decl
    /\ events' = events \cup Heard(p)
    /\ UNCHANGED <<dir, data, watch, timer, build, mail, cache>>

Remove(p) ==
    /\ Edited
    /\ dir[p] # NoDir
    /\ dir' = [dir EXCEPT ![p] = NoDir]
    /\ decl' = decl \ {p} /\ frag' = frag \ {p}
    /\ watch' = [watch EXCEPT ![p].live = FALSE]
    /\ events' = events \cup {Parent}
    /\ UNCHANGED <<data, timer, build, mail, cache>>

\* A directory appears, empty or renamed in with its files.
Make(p) ==
    /\ Edited
    /\ dir[p] = NoDir
    /\ \E i \in Inodes \ {dir[q] : q \in Packages} :
          /\ i \notin {watch[p].ino, at.ino}
          /\ dir' = [dir EXCEPT ![p] = i]
    /\ decl' \in {decl, decl \cup {p}} /\ frag' \in {frag, frag \cup {p}}
    /\ events' = events \cup {Parent}
    /\ UNCHANGED <<data, watch, timer, build, mail, cache>>

Refresh ==
    /\ Edited
    /\ data' \in (SUBSET Packages) \ {data}
    /\ events' = events \cup {HookData}
    /\ UNCHANGED <<dir, decl, frag, watch, timer, build, mail, cache>>

-----------------------------------------------------------------------------
(* buildResolutionMap: each package is watched, then read. *)

\* Variant: the inode of a known watcher is not compared.
VisitOnce(p) ==
    /\ phase # "idle" /\ at.step = "next" /\ p \in todo
    /\ todo' = todo \ {p}
    /\ IF p \in watched \/ dir[p] = NoDir \/ watch[p] # Unwatched
       THEN /\ at' = [pkg |-> p, step |-> "read", ino |-> NoDir]
            /\ watched' = IF dir[p] = NoDir THEN watched ELSE watched \cup {p}
            /\ UNCHANGED <<watch, events>>
       ELSE /\ watched' = watched \cup {p}
            /\ at' = [pkg |-> p, step |-> "watch", ino |-> dir[p]]
            /\ UNCHANGED <<watch, events>>
    /\ UNCHANGED <<tree, timer, phase, named, map, mail, cache>>

\* watchDirectory stats the directory: one already watched by this build is
\* left alone, one whose recorded inode is there keeps its watcher, and any
\* other loses the old watcher before it gets a new one.
Visit(p) ==
    /\ phase # "idle" /\ at.step = "next" /\ p \in todo
    /\ todo' = todo \ {p}
    /\ IF p \in watched \/ dir[p] = NoDir
       THEN /\ at' = [pkg |-> p, step |-> "read", ino |-> NoDir]
            /\ UNCHANGED <<watched, watch, events>>
       ELSE /\ watched' = watched \cup {p}
            /\ IF watch[p].ino = dir[p]
               THEN /\ at' = [pkg |-> p, step |-> "read", ino |-> NoDir]
                    /\ UNCHANGED <<watch, events>>
               ELSE /\ at' = [pkg |-> p, step |-> "watch", ino |-> dir[p]]
                    /\ watch' = [watch EXCEPT ![p] = Unwatched]
                    /\ events' = events \ {p}
    /\ UNCHANGED <<tree, timer, phase, named, map, mail, cache>>

\* fs.watch attaches to what is there now, under the inode of the stat; it
\* throws, and nothing is recorded, when nothing is there.
Attach ==
    /\ at.step = "watch"
    /\ IF dir[at.pkg] = NoDir
       THEN /\ at' = [at EXCEPT !.step = "read", !.ino = NoDir]
            /\ UNCHANGED watch
       ELSE /\ at' = [at EXCEPT !.step = "restat"]
            /\ watch' = [watch EXCEPT ![at.pkg] = [ino |-> at.ino, live |-> TRUE]]
    /\ UNCHANGED <<tree, events, timer, phase, todo, watched, named, map, mail, cache>>

\* A directory replaced meanwhile is built again.
Restat ==
    /\ at.step = "restat"
    /\ timer' = (timer \/ dir[at.pkg] # at.ino)
    /\ at' = [at EXCEPT !.step = "read", !.ino = NoDir]
    /\ UNCHANGED <<tree, watch, events, phase, todo, watched, named, map, mail, cache>>

\* The index files in the first and the last loop, the fragments between.
Read ==
    /\ at.step = "read"
    /\ IF phase = "fragments"
       THEN /\ named' = IF at.pkg \in frag THEN named \cup Closure[at.pkg] ELSE named
            /\ UNCHANGED map
       ELSE /\ map' = [map EXCEPT ![at.pkg] = Index(at.pkg)]
            /\ UNCHANGED named
    /\ at' = Away
    /\ UNCHANGED <<tree, watch, events, timer, phase, todo, watched, mail, cache>>

\* From the data's packages to the fragments of every package, and on to
\* the packages they name that the data has not resolved.
NextLoop ==
    /\ phase \in {"data", "fragments"} /\ at.step = "next" /\ todo = {}
    /\ phase' = IF phase = "data" THEN "fragments" ELSE "merge"
    /\ todo' = IF phase = "data" THEN Packages
               ELSE {p \in named : map[p] = None}
    /\ UNCHANGED <<tree, watch, events, timer, at, watched, named, map, mail, cache>>

\* Variant: a map that resolves nothing is not posted.
PostFound ==
    /\ phase = "merge" /\ at.step = "next" /\ todo = {}
    /\ Len(mail) < MaxMail
    /\ watch' = [p \in Packages |-> IF p \in watched THEN watch[p] ELSE Unwatched]
    /\ events' = events \cap (watched \cup {Parent, HookData})
    /\ mail' = IF map = Empty THEN mail ELSE Append(mail, map)
    /\ phase' = "idle"
    /\ UNCHANGED <<tree, timer, todo, at, watched, named, map, cache>>

\* Watchers of directories this build has not met are closed, and the map
\* goes to the main thread.
Post ==
    /\ phase = "merge" /\ at.step = "next" /\ todo = {}
    /\ Len(mail) < MaxMail
    /\ watch' = [p \in Packages |-> IF p \in watched THEN watch[p] ELSE Unwatched]
    /\ events' = events \cap (watched \cup {Parent, HookData})
    /\ mail' = Append(mail, map)
    /\ phase' = "idle"
    /\ UNCHANGED <<tree, timer, todo, at, watched, named, map, cache>>

-----------------------------------------------------------------------------
(* The worker's event loop and the main thread *)

\* Variant: a directory that comes or goes is no reason to rebuild.
DeliverFiltered(d) ==
    /\ phase = "idle"
    /\ d \in events
    /\ events' = events \ {d}
    /\ timer' = (timer \/ d # Parent)
    /\ UNCHANGED <<tree, watch, build, mail, cache>>

Deliver(d) ==
    /\ phase = "idle"
    /\ d \in events
    /\ events' = events \ {d}
    /\ timer' = TRUE
    /\ UNCHANGED <<tree, watch, build, mail, cache>>

Rebuild ==
    /\ phase = "idle"
    /\ timer
    /\ timer' = FALSE
    /\ phase' = "data" /\ todo' = data /\ at' = Away
    /\ watched' = {} /\ named' = {} /\ map' = Empty
    /\ UNCHANGED <<tree, watch, events, mail, cache>>

\* receiveMap replaces the cache, and the plugin invalidates its projects.
Receive ==
    /\ mail # <<>>
    /\ cache' = Head(mail)
    /\ mail' = Tail(mail)
    /\ UNCHANGED <<tree, watch, events, timer, build>>

Edit   == Refresh \/ \E p \in Packages : Write(p) \/ Remove(p) \/ Make(p)
Worker ==
    \/ \E p \in Packages : Visit(p)
    \/ Attach \/ Restat \/ Read \/ NextLoop \/ Post
    \/ \E d \in Packages \cup {Parent, HookData} : Deliver(d)
    \/ Rebuild

Next == Edit \/ Worker \/ Receive

\* The worker's thread runs, its timer fires, the main thread receives.
Fairness == WF_vars(Worker) /\ WF_vars(Receive)

Spec     == Init /\ [][Next]_vars
FairSpec == Spec /\ Fairness

-----------------------------------------------------------------------------
(* Properties *)

Settled ==
    phase = "idle" /\ ~timer /\ events = {} /\ mail = <<>>

\* When nothing is under way the main thread's map is that of the tree, and
\* every later change will be heard: no change falls between a directory's
\* read and its watch, or is forgotten with a watcher that was closed.
SettledIsCurrent ==
    Settled =>
        /\ cache = Resolution
        /\ \A p \in Packages : dir[p] # NoDir => watch[p].live

\* Once the tree rests, editors get its map.
EventuallyCurrent == <>[](cache = Resolution)
=============================================================================
