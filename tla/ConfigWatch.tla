------------------------------ MODULE ConfigWatch ------------------------------
(***************************************************************************)
(* The dev server's watch over what its Vite config was generated from       *)
(* (vite/src/watcher.ts, ConfigWatcher, and startConfigWatcher in plugin.ts):*)
(* a changed input restarts Vite, which makes a new server with a watcher of *)
(* its own before it closes the old one.                                    *)
(***************************************************************************)
EXTENDS Naturals

CONSTANTS
    Inputs,      \* configInputs, each a file of a directory
    Manual,      \* the inputs a restart does not read again
    Places,      \* their directories
    PlaceOf,
    Versions,    \* contents, or what a link resolves to, or "absent"
    Unnamed,     \* directories whose events come without a filename
    None,
    MaxChanges   \* bound on the changes made to the files

VARIABLES
    disk, changes,
    now,         \* the server that answers, or None
    next,        \* the server that a restart is making, or None
    warned       \* the manual inputs named in the log

configVars == <<disk, changes, now, next, warned>>

\* read is what the config was made from, digests the watcher's fingerprints,
\* missed a history of the inputs that changed while nothing would tell.
Server(read) ==
    [at |-> "read", read |-> read, digests |-> read, handles |-> {}, events |-> {},
     timer |-> FALSE, missed |-> {}]

ConfigInit ==
    /\ disk \in [Inputs -> Versions] /\ changes = 0
    /\ now = Server(disk) /\ next = None /\ warned = {}

-----------------------------------------------------------------------------
(* The files.                                                               *)

\* An event of a directory carries the name of what changed, or none.
Noticed(s, i) ==
    LET d == PlaceOf[i]
    IN  IF s = None THEN None
        ELSE IF d \in s.handles
        THEN [s EXCEPT !.events = @ \cup {IF d \in Unnamed THEN None ELSE i}]
        ELSE IF s.at = "loading" THEN s ELSE [s EXCEPT !.missed = @ \cup {i}]

Changed ==
    /\ now # None /\ changes < MaxChanges /\ changes' = changes + 1
    /\ UNCHANGED warned

Change(i) ==
    /\ Changed
    /\ \E v \in Versions \ {disk[i]} : disk' = [disk EXCEPT ![i] = v]
    /\ now' = Noticed(now, i) /\ next' = Noticed(next, i)

\* A directory is removed and made again: its handles hear that and no more.
Lost(s, d) ==
    IF s = None \/ d \notin s.handles THEN s
    ELSE [s EXCEPT !.handles = @ \ {d}, !.events = @ \cup {i \in Inputs : PlaceOf[i] = d}]
Replace(d) ==
    /\ Changed
    /\ now' = Lost(now, d) /\ next' = Lost(next, d)
    /\ UNCHANGED disk

-----------------------------------------------------------------------------
(* One server's watcher.  None is no server.                                *)

\* start(): the digests, then a handle for each directory.
Snapshot(s, t) ==
    /\ s # None /\ s.at = "read"
    /\ t = [s EXCEPT !.at = "attaching", !.digests = disk]
Handle(s, t) ==
    /\ s # None /\ s.at = "attaching"
    /\ \E d \in Places \ s.handles :
          LET all == s.handles \cup {d}
          IN  t = [s EXCEPT !.handles = all, !.at = IF all = Places THEN "serving" ELSE @]

\* Variant: an event without a name is nobody's.
MatchingNamed(event) == event \in Inputs

\* A directory's event counts if it is of an input or says nothing.
Matching(event) == event \in Inputs \cup {None}

\* onFileEvent and scheduleCheck: the timer starts anew.
OnFileEvent(s, t) ==
    /\ s # None /\ s.at = "serving"
    /\ \E event \in s.events :
          t = [s EXCEPT !.events = @ \ {event}, !.timer = @ \/ Matching(event)]

Starting(s, t) == Snapshot(s, t) \/ Handle(s, t)
Running(s, t)  == Starting(s, t) \/ OnFileEvent(s, t)

Step ==
    /\ \/ Running(now, now') /\ UNCHANGED next
       \/ Running(next, next') /\ UNCHANGED now
    /\ UNCHANGED <<disk, changes, warned>>

\* check(): the digests move on whatever becomes of the restart.
Stale(s) == {i \in Inputs : s.digests[i] # disk[i]}
Checked(s) == [s EXCEPT !.timer = FALSE, !.digests = disk]

\* onStale: a restart that is under way is not begun again.
CheckNow ==
    /\ now # None /\ now.timer
    /\ now' = Checked(now)
    /\ warned' = warned \cup (Stale(now) \cap Manual)
    /\ next' = IF Stale(now) = {} \/ next # None THEN next
               ELSE [Server(now.read) EXCEPT !.at = "loading"]
    /\ UNCHANGED <<disk, changes>>

-----------------------------------------------------------------------------
(* Vite's restart.                                                          *)
Load ==
    /\ next # None /\ next.at = "loading"
    /\ next' = Server([i \in Inputs |-> IF i \in Manual THEN now.read[i] ELSE disk[i]])
    /\ UNCHANGED <<disk, changes, now, warned>>

\* The old server's closeBundle stops its watcher with its timer and events.
\* What it was still to report of an input the restart did not read again,
\* the new server has in its first digests and nobody reports.
Switch ==
    /\ next # None /\ next.at = "serving"
    /\ now' = [next EXCEPT !.missed =
                 @ \cup {i \in Manual : i \in now.missed \/ now.digests[i] # next.digests[i]}]
    /\ next' = None
    /\ UNCHANGED <<disk, changes, warned>>

\* The failure is logged; nothing tries again.
RestartFails ==
    /\ next # None
    /\ next' = None
    /\ now' = [now EXCEPT !.missed = @ \cup {i \in Inputs : now.digests[i] # now.read[i]}]
    /\ UNCHANGED <<disk, changes, warned>>

Close ==
    /\ now # None /\ now.at = "serving"
    /\ now' = None /\ next' = None
    /\ UNCHANGED <<disk, changes, warned>>

ConfigNext ==
    \/ \E i \in Inputs : Change(i)
    \/ \E d \in Places : Replace(d)
    \/ Step \/ CheckNow \/ Load \/ Switch \/ RestartFails \/ Close

ConfigSpec == ConfigInit /\ [][ConfigNext]_configVars

-----------------------------------------------------------------------------
\* At rest the server's config was made from what the inputs hold, or the log
\* says to run it again, for all but inputs that changed with nobody to tell:
\* between the reading of the config and the handles, under a handle whose
\* directory was replaced, before a restart that failed, or, of an input that
\* a restart does not read again, while a restart was under way (watcher.ts:411
\* stop drops what the old server had heard).
SettledConfigIsCurrent ==
    now # None /\ now.at = "serving" /\ next = None /\ now.events = {} /\ ~now.timer =>
       \A i \in Inputs \ now.missed : now.read[i] = disk[i] \/ i \in warned
=============================================================================
