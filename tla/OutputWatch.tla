----------------------------- MODULE OutputWatch -----------------------------
(***************************************************************************)
(* The dev server's watch over bazel-bin (vite/src/watcher.ts, BazelWatcher *)
(* and its use in plugin.ts), one fs.watch handle per directory and per     *)
(* symlinked file, as on Linux.                                            *)
(*                                                                         *)
(* A handler runs to its end before the next event is delivered, but the    *)
(* tree changes between any two of its system calls: bazel removes and      *)
(* makes directories, renames populated ones in, and rewrites or repoints   *)
(* files.  The calls that watchEntry and scanDirectory have still to make    *)
(* are a stack of frames, and what the event's handler does then is its     *)
(* event.                                                                  *)
(***************************************************************************)
EXTENDS Naturals, Sequences

CONSTANTS
    Dirs,      \* directories under bazel-bin, and Root
    Root,      \* bazel-bin, which stands as long as the server
    Files,     \* .js outputs, each loaded by the browser while it is there
    Links,     \* the files that are symlinks to a file elsewhere
    Up,        \* the directory of every other path
    Below,     \* path -> that path and the paths under it
    Nameless,  \* directories whose events come without a filename
    Unsteady,  \* links whose file may be replaced while a handle attaches
    MaxEdits   \* bound on the changes to the tree

Paths == Dirs \cup Files
Inner == Paths \ {Root}

ASSUME TreeAssumption ==
    /\ Root \in Dirs /\ Links \subseteq Files /\ Nameless \subseteq Dirs
    /\ Unsteady \subseteq Links
    /\ Dirs \cap Files = {}
    /\ Up \in [Inner -> Dirs]
    /\ Below \in [Paths -> SUBSET Paths]
    /\ \A p \in Paths :
          Below[p] = {q \in Paths : q = p \/ (q \in Inner /\ Up[q] \in Below[p])}
    /\ \A S \in SUBSET Inner : S # {} => \E p \in S : Up[p] \notin S
ASSUME BoundAssumption == MaxEdits \in Nat

VARIABLES
    ino,      \* the inode a path leads to, or Absent
    content,  \* what each file holds, Absent where there is none
    edits,    \* history: changes made to the tree
    watch,    \* watches: the inode recorded, and whether the kernel's watch
              \* is on what is there now
    events,   \* <<directory or link, what changed in it>>, undelivered
    stack,    \* the calls that are running or still to be made
    handling, \* the event whose handler goes on after them, if one does
    pending,  \* pendingChanges
    timer,    \* debounceTimer is set
    mode,     \* start() runs, the server serves, stop() was called
    loaded    \* history: what the browser was last told a file holds

tree == <<ino, content, edits>>
vars == <<tree, watch, events, stack, handling, pending, timer, mode, loaded>>

Absent    == 0
Inodes    == 1..(MaxEdits + 1)
Unwatched == [ino |-> Absent, live |-> FALSE]
NoName    == "null"
Watchable == Dirs \cup Links


Children(d) == {p \in Inner : Up[p] = d}

\* The events there are: of what is in a directory, or of a link's own file.
Named ==
    {e \in Watchable \X (Paths \cup {NoName}) : e[2] \in Children(e[1]) \cup {e[1], NoName}}

\* watchEntry, its fs.watch with the inode of its stat, its second stat,
\* scanDirectory's reading of the names, and a loop over children.
Frames ==
    [op : {"entry", "watch", "restat", "scan", "each"}, path : Paths,
     ino : Inodes \cup {Absent}, kids : SUBSET Paths, notify : BOOLEAN]

TypeOK ==
    /\ ino \in [Paths -> Inodes \cup {Absent}]
    /\ content \in [Files -> Inodes \cup {Absent}]
    /\ \A f \in Files : content[f] = Absent <=> ino[f] = Absent
    /\ edits \in 0..MaxEdits
    /\ \A p \in Inner : ino[p] # Absent => ino[Up[p]] # Absent
    /\ watch \in [Paths -> [ino : Inodes, live : BOOLEAN] \cup {Unwatched}]
    /\ \A p \in Paths \ Watchable : watch[p] = Unwatched
    /\ events \subseteq Named /\ handling \subseteq Named
    /\ \A e \in events \cup handling : watch[e[1]] # Unwatched
    /\ stack \in Seq(Frames)
    /\ pending \subseteq Inner /\ timer \in BOOLEAN
    /\ pending # {} <=> timer
    /\ mode \in {"starting", "serving", "stopped"}
    /\ loaded \in [Files -> Inodes \cup {Absent}]

Frame(op, p, i, kids, notify) ==
    [op |-> op, path |-> p, ino |-> i, kids |-> kids, notify |-> notify]
Entry(p, notify)      == Frame("entry", p, Absent, {}, notify)
Scanning(d, notify)   == Frame("scan", d, Absent, {}, notify)
Each(d, kids, notify) == Frame("each", d, Absent, kids, notify)

Init ==
    /\ ino \in [Paths -> {Absent, 1}]
    /\ ino[Root] = 1
    /\ \A p \in Inner : ino[p] # Absent => ino[Up[p]] # Absent
    /\ content = [f \in Files |-> ino[f]]
    /\ edits = 0
    /\ watch = [p \in Paths |-> Unwatched]
    /\ events = {}
    /\ stack = <<Entry(Root, FALSE)>> /\ handling = {}
    /\ pending = {} /\ timer = FALSE
    /\ mode = "starting"
    /\ loaded = [f \in Files |-> Absent]

-----------------------------------------------------------------------------
(* The tree *)

\* What a change of p adds to the events: the directory hears of it, by name
\* or not, and a link's own watch of a change to the file it leads to.
Heard(d, p) ==
    IF watch[d].live THEN {<<d, IF d \in Nameless THEN NoName ELSE p>>} ELSE {}

Put(f, S, x) == [p \in DOMAIN f |-> IF p \in S THEN x ELSE f[p]]

Edited ==
    /\ edits < MaxEdits
    /\ edits' = edits + 1
    /\ UNCHANGED <<stack, handling, pending, timer, mode, loaded>>

\* A regular file is written in place, or the file a link leads to is.
Write(f) ==
    /\ ino[f] # Absent
    /\ Edited
    /\ content' = Put(content, {f}, edits' + 1)
    /\ events' = events \cup Heard(IF f \in Links THEN f ELSE Up[f], f)
    /\ UNCHANGED <<ino, watch>>

\* A file appears, or another is renamed over it; a link is repointed.  No
\* inode number comes back while the server runs.
Place(f) ==
    /\ ino[Up[f]] # Absent
    /\ Edited
    /\ ino' = Put(ino, {f}, edits' + 1) /\ content' = Put(content, {f}, edits' + 1)
    /\ watch' = [watch EXCEPT ![f].live = FALSE]
    /\ events' = events \cup Heard(Up[f], f)

Attaching(f) ==
    stack # <<>> /\ Head(stack).op \in {"watch", "restat"} /\ Head(stack).path = f

\* The file a link leads to is replaced: the link's directory hears nothing.
Retarget(f) ==
    /\ f \in Links /\ ino[f] # Absent
    /\ f \in Unsteady \/ ~Attaching(f)
    /\ Edited
    /\ ino' = Put(ino, {f}, edits' + 1) /\ content' = Put(content, {f}, edits' + 1)
    /\ watch' = [watch EXCEPT ![f].live = FALSE]
    /\ events' = events \cup Heard(f, f)

\* A directory is made, or renamed in with files and directories of its own.
Make(d) ==
    /\ d # Root /\ ino[d] = Absent /\ ino[Up[d]] # Absent
    /\ \E S \in SUBSET Below[d] :
          /\ d \in S
          /\ \A p \in S \ {d} : Up[p] \in S
          /\ Edited
          /\ ino' = Put(ino, S, edits' + 1) /\ content' = Put(content, S, edits' + 1)
    /\ events' = events \cup Heard(Up[d], d)
    /\ UNCHANGED watch

\* A path goes, with all below it; the handles on it hear no more.
Remove(p) ==
    /\ p # Root /\ ino[p] # Absent
    /\ Edited
    /\ ino' = Put(ino, Below[p], Absent) /\ content' = Put(content, Below[p], Absent)
    /\ watch' = [q \in Paths |-> IF q \in Below[p] /\ watch[q] # Unwatched
                                 THEN [watch[q] EXCEPT !.live = FALSE] ELSE watch[q]]
    /\ events' = events \cup Heard(Up[p], p)

Edit ==
    \/ \E f \in Files : Write(f) \/ Place(f) \/ Retarget(f)
    \/ \E d \in Dirs : Make(d)
    \/ \E p \in Inner : Remove(p)

-----------------------------------------------------------------------------
(* The handlers *)

Doing(op) == stack # <<>> /\ Head(stack).op = op
Top == Head(stack)

\* The running call makes these calls before those that wait.
Calls(frames) == stack' = frames \o Tail(stack)

\* enqueueChange, from which bazel-bin itself is left out.
Enqueue(S) ==
    /\ pending' = pending \cup (S \ {Root})
    /\ timer' = (timer \/ S \ {Root} # {})

\* unwatchTree: the handles of S close with what they had heard, and a
\* handler of one of them does no more than its running call.
Unwatch(S) ==
    /\ watch' = [p \in Paths |-> IF p \in S THEN Unwatched ELSE watch[p]]
    /\ events' = {e \in events : e[1] \notin S}
    /\ handling' = {e \in handling : e[1] \notin S}

\* Variant: a handle is kept whatever its path leads to.
EntryKeeping ==
    /\ Doing("entry")
    /\ LET p == Top.path
           attach == p \in Watchable /\ ino[p] # Absent /\ watch[p] = Unwatched
       IN  /\ Calls(IF attach THEN <<Frame("watch", p, ino[p], {}, Top.notify)>> ELSE <<>>)
           /\ Enqueue(IF Top.notify /\ ~attach THEN {p} \cap Files ELSE {})
    /\ UNCHANGED <<tree, watch, events, handling, mode, loaded>>

\* watchEntry up to fs.watch: a path that is gone or leads to another inode
\* loses its handle, and a directory or link without one gets one.
EntryStep ==
    /\ Doing("entry")
    /\ LET p      == Top.path
           needs  == p \in Watchable /\ ino[p] # Absent
           retire == watch[p] # Unwatched /\ (~needs \/ watch[p].ino # ino[p])
           attach == needs /\ (retire \/ watch[p] = Unwatched)
       IN  /\ Unwatch(IF retire THEN Below[p] ELSE {})
           /\ Calls(IF attach THEN <<Frame("watch", p, ino[p], {}, Top.notify)>> ELSE <<>>)
           /\ Enqueue(IF ~Top.notify THEN {}
                      ELSE (IF retire THEN {p} \cap Dirs ELSE {})
                           \cup (IF attach THEN {} ELSE {p} \cap Files))
    /\ UNCHANGED <<tree, mode, loaded>>

\* fs.watch attaches to what is there now, under the inode of the stat; it
\* throws when nothing is there.
Attach ==
    /\ Doing("watch")
    /\ LET p == Top.path
       IN  IF ino[p] = Absent
           THEN /\ Calls(<<>>)
                /\ Unwatch(Below[p])
                /\ Enqueue(IF Top.notify THEN {p} \cap Files ELSE {})
           ELSE /\ Calls(<<Frame("restat", p, Top.ino, {}, Top.notify)>>)
                /\ watch' = [watch EXCEPT ![p] = [ino |-> Top.ino, live |-> TRUE]]
                /\ UNCHANGED <<events, handling, pending, timer>>
    /\ UNCHANGED <<tree, mode, loaded>>

\* An inode replaced meanwhile is left to the directory above; a directory
\* that stands is scanned.
Restat ==
    /\ Doing("restat")
    /\ LET p == Top.path
       IN  IF ino[p] # Top.ino
           THEN /\ Calls(<<>>)
                /\ Unwatch(Below[p])
                /\ Enqueue(IF Top.notify THEN {p} ELSE {})
           ELSE /\ Calls(IF p \in Dirs THEN <<Scanning(p, Top.notify)>> ELSE <<>>)
                /\ Enqueue(IF Top.notify THEN {p} \cap Files ELSE {})
                /\ UNCHANGED <<watch, events, handling>>
    /\ UNCHANGED <<tree, mode, loaded>>

Present(d) == {p \in Children(d) : ino[p] # Absent}

\* Variant: what a new directory came with is watched and not reported.
ScanQuiet ==
    /\ Doing("scan")
    /\ Calls(<<Each(Top.path, Present(Top.path), FALSE)>>)
    /\ UNCHANGED <<tree, watch, events, handling, pending, timer, mode, loaded>>

\* scanDirectory reads the names that are there now.
Scan ==
    /\ Doing("scan")
    /\ LET d == Top.path
       IN  IF ino[d] = Absent
           THEN /\ Calls(<<>>)
                /\ Unwatch(Below[d])
                /\ Enqueue(IF Top.notify THEN {d} ELSE {})
           ELSE /\ Calls(<<Each(d, Present(d), Top.notify)>>)
                /\ UNCHANGED <<watch, events, handling, pending, timer>>
    /\ UNCHANGED <<tree, mode, loaded>>

NextChild ==
    /\ Doing("each")
    /\ \/ Top.kids = {} /\ Calls(<<>>)
       \/ \E p \in Top.kids :
              Calls(<<Entry(p, Top.notify), Each(Top.path, Top.kids \ {p}, Top.notify)>>)
    /\ UNCHANGED <<tree, watch, events, handling, pending, timer, mode, loaded>>

\* The rest of onEvent for a directory whose handle is still there: an event
\* without a name stands for every child that is watched or there.
After ==
    /\ stack = <<>>
    /\ \E e \in handling :
          LET d == e[1]
              name == e[2]
          IN  \/ /\ d \notin Dirs
                 /\ UNCHANGED <<stack, pending, timer>>
              \/ /\ d \in Dirs /\ name = NoName
                 /\ stack' = <<Each(d, {p \in Children(d) : watch[p] # Unwatched}, TRUE),
                               Scanning(d, TRUE)>>
                 /\ Enqueue({d})
              \/ /\ d \in Dirs /\ name # NoName
                 /\ stack' = IF name \in Files \/ ino[name] # Absent \/ watch[name] # Unwatched
                             THEN <<Entry(name, TRUE)>> ELSE <<>>
                 /\ UNCHANGED <<pending, timer>>
    /\ handling' = {}
    /\ UNCHANGED <<tree, watch, events, mode, loaded>>

-----------------------------------------------------------------------------
(* The event loop *)

Idle == stack = <<>> /\ handling = {} /\ mode = "serving"

\* start() has returned, and the browser loads what is there.
Serve ==
    /\ mode = "starting" /\ stack = <<>>
    /\ mode' = "serving"
    /\ loaded' = content
    /\ UNCHANGED <<tree, watch, events, stack, handling, pending, timer>>

\* The event of a handle first sees to the handle's own path.
Deliver ==
    /\ Idle
    /\ \E e \in events :
          /\ events' = events \ {e}
          /\ stack' = <<Entry(e[1], TRUE)>>
          /\ handling' = {e}
    /\ UNCHANGED <<tree, watch, pending, timer, mode, loaded>>

Told(S) == [f \in Files |-> IF f \in S THEN content[f] ELSE loaded[f]]

\* A path no module was loaded from reloads the page, with everything.
Flush ==
    /\ Idle /\ timer
    /\ timer' = FALSE
    /\ pending' = {}
    /\ loaded' = Told(IF pending \subseteq Files THEN pending ELSE Files)
    /\ UNCHANGED <<tree, watch, events, stack, handling, mode>>

\* closeBundle.
Stop ==
    /\ Idle
    /\ mode' = "stopped"
    /\ pending' = {} /\ timer' = FALSE
    /\ Unwatch(Paths)
    /\ UNCHANGED <<tree, stack, loaded>>

Handler == EntryStep \/ Attach \/ Restat \/ Scan \/ NextChild \/ After
Loop    == Serve \/ Deliver \/ Flush

Next == Edit \/ Handler \/ Loop \/ Stop

\* The thread runs, its events are delivered and its timer fires.
Spec     == Init /\ [][Next]_vars
FairSpec == Spec /\ WF_vars(Handler \/ Loop)

-----------------------------------------------------------------------------
(* Properties *)

Settled == Idle /\ events = {} /\ ~timer

Fresh == \A f \in Files : content[f] # Absent => loaded[f] = content[f]

\* At rest the browser has been told of every file there is that was written,
\* placed or repointed since it loaded it, every directory and link is watched
\* as it is, so that the next change is heard, and handles of what was replaced
\* or removed are closed.
SettledIsReported ==
    Settled =>
        /\ Fresh
        /\ \A p \in Watchable :
              IF ino[p] = Absent THEN watch[p] = Unwatched
              ELSE watch[p].live /\ watch[p].ino = ino[p]

\* Once the tree rests, the browser is told.
EventuallyReported == <>[](Fresh \/ mode = "stopped")
=============================================================================
