---------------------------- MODULE ListingCache ----------------------------
(***************************************************************************)
(* gazelle/listing_cache.go and listing_patch.go: compiler listings kept   *)
(* on disk across gazelle runs.  An entry holds the listing and, per read, *)
(* the stat line it was saved under; a later run reuses the entry when     *)
(* every stat line still matches, patches it when only sources changed,    *)
(* and lists again otherwise.                                              *)
(*                                                                         *)
(* A path is a source, config or include directory; its version stands for *)
(* its content, its stat line and its name digest alike: an edit moves all *)
(* three.  Version 0 means "not among the reads".  A run is a gazelle      *)
(* process: its memos (listingStats with listingNames, sourceSpecs,        *)
(* loadedListings) live as long as it does, and its program listings are   *)
(* taken one after the other.                                              *)
(***************************************************************************)
EXTENDS Naturals, FiniteSets

CONSTANTS Runs,        \* gazelle processes, possibly concurrent
          Programs,    \* listing keys
          Paths,       \* what tsgo reads
          Reads,       \* per program, the paths its listing reads
          Sources,     \* the paths that are patchable sources
          Diagnosed,   \* the programs whose listing prints a diagnostic
          MaxVersion,  \* bound on the edits of a path
          NoEntry      \* the absence of a cache entry

ASSUME CacheAssumption ==
    /\ Reads \in [Programs -> SUBSET Paths]
    /\ Sources \subseteq Paths
    /\ MaxVersion \in Nat \ {0}

VARIABLES
    tree,    \* the version of each path in the source tree
    disk,    \* -ts_listing_cache: the entry of each program
    pc,      \* where each run is
    prog,    \* the program each run is listing
    entry,   \* the entry a run read from disk, or builds
    got,     \* what the run's tsgo has read, per path
    stats,   \* per run, listingStats: memo of stat lines
    scans,   \* per run, sourceSpecs: memo of scanned sources
    loaded,  \* per run, loadedListings: what the run answered
    pending, \* per run, pendingWrites: patched entries not yet on disk
    quiet,   \* history: no edit since the run started
    unwritten \* history: per run, the programs whose entry could not be written

mem == <<stats, scans, loaded, pending>>
vars == <<tree, disk, pc, prog, entry, got, mem, quiet, unwritten>>

Versions == 0 .. MaxVersion
Snapshot == [Paths -> Versions]
Nothing == [x \in Paths |-> 0]

\* calm: no edit fell into the run that listed it (prefetch.go assumes so).
Entry == [listing : Snapshot, lines : Snapshot, specs : Snapshot, calm : BOOLEAN]

ASSUME NoEntryAssumption == NoEntry \notin Entry

ReadSet(e) == {x \in Paths : e.listing[x] # 0}

\* A memo extended, as StatCache.line and scanSpecs do, with the paths of S.
Extended(memo, S) == [x \in Paths |-> IF x \in S /\ memo[x] = 0 THEN tree[x] ELSE memo[x]]
Restricted(memo, S) == [x \in Paths |-> IF x \in S THEN memo[x] ELSE 0]

Init ==
    /\ tree = [x \in Paths |-> 1]
    /\ disk = [p \in Programs |-> NoEntry]
    /\ pc = [r \in Runs |-> "idle"]
    /\ prog \in [Runs -> Programs]
    /\ entry = [r \in Runs |-> NoEntry]
    /\ got = [r \in Runs |-> Nothing]
    /\ stats = [r \in Runs |-> Nothing]
    /\ scans = [r \in Runs |-> Nothing]
    /\ loaded = [r \in Runs |-> [p \in Programs |-> NoEntry]]
    /\ pending = [r \in Runs |-> {}]
    /\ quiet = [r \in Runs |-> TRUE]
    /\ unwritten = [r \in Runs |-> {}]

-----------------------------------------------------------------------------
(* The environment: an editor, and processes that start, end and die.      *)

Edit(x) ==
    /\ tree[x] < MaxVersion
    /\ tree' = [tree EXCEPT ![x] = @ + 1]
    /\ quiet' = [r \in Runs |-> FALSE]
    /\ UNCHANGED <<disk, pc, prog, entry, got, mem, unwritten>>

\* A process begins with empty memos.
Start(r) ==
    /\ pc[r] = "idle"
    /\ pc' = [pc EXCEPT ![r] = "walk"]
    /\ quiet' = [quiet EXCEPT ![r] = TRUE]
    /\ UNCHANGED <<tree, disk, prog, entry, got, mem, unwritten>>

\* Variant: listingStats outlives the process.
GoneKeepingStats(r) ==
    /\ pc' = [pc EXCEPT ![r] = "idle"]
    /\ entry' = [entry EXCEPT ![r] = NoEntry]
    /\ got' = [got EXCEPT ![r] = Nothing]
    /\ scans' = [scans EXCEPT ![r] = Nothing]
    /\ loaded' = [loaded EXCEPT ![r] = [p \in Programs |-> NoEntry]]
    /\ pending' = [pending EXCEPT ![r] = {}]
    /\ unwritten' = [unwritten EXCEPT ![r] = {}]
    /\ UNCHANGED <<tree, disk, prog, stats, quiet>>

\* What a process leaves behind when it is gone.
Gone(r) ==
    /\ pc' = [pc EXCEPT ![r] = "idle"]
    /\ entry' = [entry EXCEPT ![r] = NoEntry]
    /\ got' = [got EXCEPT ![r] = Nothing]
    /\ stats' = [stats EXCEPT ![r] = Nothing]
    /\ scans' = [scans EXCEPT ![r] = Nothing]
    /\ loaded' = [loaded EXCEPT ![r] = [p \in Programs |-> NoEntry]]
    /\ pending' = [pending EXCEPT ![r] = {}]
    /\ unwritten' = [unwritten EXCEPT ![r] = {}]
    /\ UNCHANGED <<tree, disk, prog, quiet>>

\* Variant: logListingCache without pendingWrites.Wait.
EndAtOnce(r) ==
    /\ pc[r] = "walk"
    /\ Gone(r)

\* logListingCache waits for the background writes.
End(r) ==
    /\ pc[r] = "walk"
    /\ pending[r] = {}
    /\ Gone(r)

\* The process is killed, anywhere.
Crash(r) == pc[r] # "idle" /\ Gone(r)

-----------------------------------------------------------------------------
(* loadListing.                                                            *)

Goto(r, state) == pc' = [pc EXCEPT ![r] = state]

\* The run answers the program from e, and keeps it in memory.
Answer(r, e) ==
    /\ loaded' = [loaded EXCEPT ![r][prog[r]] = e]
    /\ entry' = [entry EXCEPT ![r] = NoEntry]

\* A program already answered in this run is answered from memory: no step.
\* An entry on disk is validated first; without one, tsgo lists.
Ask(r, p) ==
    /\ pc[r] = "walk"
    /\ loaded[r][p] = NoEntry
    /\ prog' = [prog EXCEPT ![r] = p]
    /\ entry' = [entry EXCEPT ![r] = disk[p]]
    /\ Goto(r, IF disk[p] = NoEntry THEN "list" ELSE "validate")
    /\ UNCHANGED <<tree, disk, got, mem, quiet, unwritten>>

Changed(r) == {x \in ReadSet(entry[r]) : stats[r][x] # entry[r].lines[x]}

\* The fingerprint stats every read of the entry, each once per run.
Stat(r) ==
    /\ pc[r] = "validate"
    /\ stats' = [stats EXCEPT ![r] = Extended(@, ReadSet(entry[r]))]
    /\ Goto(r, "compare")
    /\ UNCHANGED <<tree, disk, prog, entry, got, scans, loaded, pending, quiet, unwritten>>

\* Variant: the entry is reused without its fingerprint.
HitUnchecked(r) ==
    /\ pc[r] = "compare"
    /\ Answer(r, entry[r])
    /\ Goto(r, "walk")
    /\ UNCHANGED <<tree, disk, prog, got, stats, scans, pending, quiet, unwritten>>

Hit(r) ==
    /\ pc[r] = "compare"
    /\ Changed(r) = {}
    /\ Answer(r, entry[r])
    /\ Goto(r, "walk")
    /\ UNCHANGED <<tree, disk, prog, got, stats, scans, pending, quiet, unwritten>>

\* Variant: the entry keeps its old listing under the new fingerprint.
PatchedFingerprintOnly(e, S, stat, scan) ==
    [e EXCEPT !.specs = [x \in Paths |-> IF x \in S THEN scan[x] ELSE e.specs[x]],
              !.lines = Restricted(stat, ReadSet(e))]

\* The edited sources, scanned, bring a listing up to date: ListingPatch.  A
\* source listed at the version it was scanned at follows the scan.
Patched(e, S, stat, scan) ==
    [e EXCEPT !.listing = [x \in Paths |-> IF x \in S /\ e.listing[x] = e.specs[x]
                                             THEN scan[x] ELSE e.listing[x]],
              !.specs = [x \in Paths |-> IF x \in S THEN scan[x] ELSE e.specs[x]],
              !.lines = Restricted(stat, ReadSet(e))]

\* patchListing: only sources changed, and the patch is accepted.  The entry
\* is written by a goroutine of its own.
Patch(r) ==
    /\ pc[r] = "compare"
    /\ Changed(r) # {}
    /\ Changed(r) \subseteq Sources
    /\ LET scan == Extended(scans[r], Changed(r)) IN
          /\ scans' = [scans EXCEPT ![r] = scan]
          /\ Answer(r, Patched(entry[r], Changed(r), stats[r], scan))
    /\ pending' = [pending EXCEPT ![r] = @ \cup {prog[r]}]
    /\ Goto(r, "walk")
    /\ UNCHANGED <<tree, disk, prog, got, stats, quiet, unwritten>>

\* The patch is refused, possibly after sources were scanned: tsgo lists again.
Stale(r) ==
    /\ pc[r] = "compare"
    /\ Changed(r) # {}
    /\ \E S \in SUBSET (Changed(r) \cap Sources) :
          scans' = [scans EXCEPT ![r] = Extended(@, S)]
    /\ entry' = [entry EXCEPT ![r] = NoEntry]
    /\ Goto(r, "list")
    /\ UNCHANGED <<tree, disk, prog, got, stats, loaded, pending, quiet, unwritten>>

\* writeListing: a temporary file renamed over the entry, so atomic.  A
\* directory or a file that cannot be made is given up without a word.
Written(r, p) ==
    \/ /\ disk' = [disk EXCEPT ![p] = loaded[r][p]]
       /\ UNCHANGED unwritten
    \/ /\ unwritten' = [unwritten EXCEPT ![r] = @ \cup {p}]
       /\ UNCHANGED disk

\* The background write of a patched entry.
WritePending(r, p) ==
    /\ p \in pending[r]
    /\ Written(r, p)
    /\ pending' = [pending EXCEPT ![r] = @ \ {p}]
    /\ UNCHANGED <<tree, pc, prog, entry, got, stats, scans, loaded, quiet>>

-----------------------------------------------------------------------------
(* uncachedListing and saveListing.                                        *)

\* tsgo reads its files one after the other.
Read(r, x) ==
    /\ pc[r] = "list"
    /\ x \in Reads[prog[r]]
    /\ got[r][x] = 0
    /\ got' = [got EXCEPT ![r][x] = tree[x]]
    /\ UNCHANGED <<tree, disk, pc, prog, entry, mem, quiet, unwritten>>

Listed(r) ==
    /\ pc[r] = "list"
    /\ \A x \in Reads[prog[r]] : got[r][x] # 0
    /\ Goto(r, "save")
    /\ UNCHANGED <<tree, disk, prog, entry, got, mem, quiet, unwritten>>

\* Variant: whatever a killed tsgo printed is its listing.
KillKept(r) ==
    /\ pc[r] = "list"
    /\ got[r] # Nothing
    /\ Goto(r, "save")
    /\ UNCHANGED <<tree, disk, prog, entry, got, mem, quiet, unwritten>>

\* stopPrefetch kills the tsgo of a prefetched program.  What it printed is an
\* error, unless it holds a diagnostic and a file: runListingUncached then
\* returns it as the listing, whatever the exit, and it is saved.
Kill(r) ==
    /\ pc[r] = "list"
    /\ IF prog[r] \in Diagnosed /\ got[r] # Nothing
         THEN Goto(r, "save") /\ UNCHANGED got
         ELSE Goto(r, "walk") /\ got' = [got EXCEPT ![r] = Nothing]
    /\ UNCHANGED <<tree, disk, prog, entry, mem, quiet, unwritten>>

GotSet(r) == {x \in Paths : got[r][x] # 0}

\* A config chain that cannot be read leaves the listing unsaved.
SaveAbandoned(r) ==
    /\ pc[r] = "save"
    /\ got' = [got EXCEPT ![r] = Nothing]
    /\ Goto(r, "walk")
    /\ UNCHANGED <<tree, disk, prog, entry, mem, quiet, unwritten>>

\* saveListing: the fingerprint, taken after tsgo ended.
SaveStat(r) ==
    /\ pc[r] = "save"
    /\ stats' = [stats EXCEPT ![r] = Extended(@, GotSet(r))]
    /\ Goto(r, "scan")
    /\ UNCHANGED <<tree, disk, prog, entry, got, scans, loaded, pending, quiet, unwritten>>

\* recordPatchState, and the entry kept in memory.
SaveScan(r) ==
    /\ pc[r] = "scan"
    /\ scans' = [scans EXCEPT ![r] = Extended(@, GotSet(r) \cap Sources)]
    /\ loaded' = [loaded EXCEPT ![r][prog[r]] =
          [listing |-> got[r],
           lines   |-> Restricted(stats[r], GotSet(r)),
           specs   |-> Restricted(scans'[r], GotSet(r) \cap Sources),
           calm    |-> quiet[r]]]
    /\ got' = [got EXCEPT ![r] = Nothing]
    /\ Goto(r, "write")
    /\ UNCHANGED <<tree, disk, prog, entry, stats, pending, quiet, unwritten>>

\* The listing is the run's answer, whatever becomes of its entry.
SaveWrite(r) ==
    /\ pc[r] = "write"
    /\ Written(r, prog[r])
    /\ Goto(r, "walk")
    /\ UNCHANGED <<tree, prog, entry, got, mem, quiet>>

-----------------------------------------------------------------------------
Load(r) == Stat(r) \/ Hit(r) \/ Patch(r) \/ Stale(r)
List(r) == Listed(r) \/ Kill(r) \/ \E x \in Paths : Read(r, x)
Save(r) == SaveAbandoned(r) \/ SaveStat(r) \/ SaveScan(r) \/ SaveWrite(r)

Step(r) ==
    \/ Start(r) \/ End(r) \/ Crash(r)
    \/ \E p \in Programs : Ask(r, p) \/ WritePending(r, p)
    \/ Load(r) \/ List(r) \/ Save(r)

Next == (\E x \in Paths : Edit(x)) \/ (\E r \in Runs : Step(r))

Spec == Init /\ [][Next]_vars

-----------------------------------------------------------------------------
(* Properties.                                                             *)

TypeOK ==
    /\ tree \in [Paths -> 1 .. MaxVersion]
    /\ disk \in [Programs -> Entry \cup {NoEntry}]
    /\ pc \in [Runs -> {"idle", "walk", "validate", "compare", "list", "save", "scan", "write"}]
    /\ prog \in [Runs -> Programs]
    /\ entry \in [Runs -> Entry \cup {NoEntry}]
    /\ got \in [Runs -> Snapshot]
    /\ stats \in [Runs -> Snapshot]
    /\ scans \in [Runs -> Snapshot]
    /\ loaded \in [Runs -> [Programs -> Entry \cup {NoEntry}]]
    /\ pending \in [Runs -> SUBSET Programs]
    /\ quiet \in [Runs -> BOOLEAN]
    /\ unwritten \in [Runs -> SUBSET Programs]
    /\ \A r \in Runs : pc[r] \in {"validate", "compare"} => entry[r] # NoEntry

Current(e) == \A x \in ReadSet(e) : e.listing[x] = tree[x]
Validates(e) == \A x \in ReadSet(e) : e.lines[x] = tree[x]

\* An entry listed in a run no edit fell into never validates against a tree it
\* does not describe, whatever edits, crashes, patches and other runs came since,
\* during later runs too (listingFingerprint, patchListing).
CalmEntriesAreSound ==
    \A p \in Programs :
        disk[p] # NoEntry => (disk[p].calm /\ Validates(disk[p]) => Current(disk[p]))

\* A run during which nothing is edited answers with the tree's listing, from
\* tsgo, memory, disk or a patch.
QuietRunAnswersCurrent ==
    \A r \in Runs, p \in Programs :
        quiet[r] /\ loaded[r][p] # NoEntry => (loaded[r][p].calm => Current(loaded[r][p]))

\* Every entry on disk is the listing of a tsgo that ran to its end.
EntriesAreWhole ==
    \A p \in Programs : disk[p] # NoEntry => Reads[p] \subseteq ReadSet(disk[p])

\* A run that ends in a tree nobody edited leaves, for each program it
\* answered, an entry the next run validates: nothing is listed or patched twice,
\* unless the entry could not be written (pendingWrites.Wait in logListingCache).
EndedRunIsReused ==
    [][\A r \in Runs : pc[r] = "walk" /\ End(r) /\ quiet[r] =>
          \A p \in Programs \ unwritten[r] :
              loaded[r][p] # NoEntry => disk[p] # NoEntry /\ Validates(disk[p])]_vars
=============================================================================
