-------------------------- MODULE ListingPrefetch --------------------------
(***************************************************************************)
(* gazelle/prefetch.go: background workers list the tsconfig.json programs *)
(* of subdirectories before the walk reaches them.  The walk (Main, one    *)
(* goroutine) requests listings, takes them, writes projection configs     *)
(* under an exclusive lock and finally stops the prefetch; each worker is  *)
(* a goroutine running work().                                             *)
(*                                                                         *)
(* f.mu is held for whole critical sections, so each section is one step.  *)
(* A configuration is requested once at most, so a job is named by its     *)
(* configuration.  projectionConfigs, a sync.RWMutex, is the pc of its     *)
(* holders: a reader is at "listing", the writer (only Main) at "lock"     *)
(* while it waits and at "projecting" while it holds.                      *)
(***************************************************************************)
EXTENDS Naturals, Sequences, FiniteSets

CONSTANTS Cfgs,     \* the tsconfig.json files of the repository
          Workers,  \* the goroutines prefetchWorkers() allows
          Main,     \* the goroutine of the Gazelle walk
          None      \* no configuration

ASSUME PrefetchAssumption ==
    /\ Workers # {} /\ IsFiniteSet(Workers)
    /\ Main \notin Workers
    /\ None \notin Cfgs

VARIABLES
    jobs,       \* f.jobs: the configurations whose job no one has taken
    requested,  \* f.requested
    queue,      \* f.queue
    stopped,    \* f.stopped, and f.ctx is cancelled
    once,       \* per job, the state of its sync.Once
    outcome,    \* per job, what its listing left in p and err
    pc,         \* where each goroutine is
    job,        \* the job or configuration each goroutine works on
    result      \* per configuration, what compilerListing last returned

vars == <<jobs, requested, queue, stopped, once, outcome, pc, job, result>>

Procs == Workers \cup {Main}
RunStates == {"once", "rlock", "rwait", "listing"}
WorkerStates == RunStates \cup {"unborn", "ready", "waiting", "exited"}
MainStates == RunStates \cup {"walk", "direct", "lock", "projecting", "exited"}

In(states) == {p \in Procs : pc[p] \in states}
Unborn == {w \in Workers : pc[w] = "unborn"}
Sleepers == {w \in Workers : pc[w] = "waiting"}

\* Where a goroutine continues after job.run.
Home(p) == IF p = Main THEN "walk" ELSE "ready"

\* One element of S, as a singleton, or nothing when S is empty.
OneOf(S) == IF S = {} THEN {{}} ELSE {{x} : x \in S}

\* The goroutines of S continue at state s.
Goto(S, s) == pc' = [p \in Procs |-> IF p \in S THEN s ELSE pc[p]]

Init ==
    /\ jobs = {} /\ requested = {} /\ queue = <<>> /\ stopped = FALSE
    /\ once = [c \in Cfgs |-> "new"]
    /\ outcome = [c \in Cfgs |-> "none"]
    /\ pc = [p \in Procs |-> IF p = Main THEN "walk" ELSE "unborn"]
    /\ job = [p \in Procs |-> None]
    /\ result = [c \in Cfgs |-> "none"]

-----------------------------------------------------------------------------
(* The walk: prefetchListing, compilerListing, stopPrefetch, projections.  *)

\* Variant: cond.Signal is forgotten.
RequestUnsignalled(c) ==
    /\ pc[Main] = "walk"
    /\ ~stopped
    /\ c \notin requested
    /\ requested' = requested \cup {c}
    /\ jobs' = jobs \cup {c}
    /\ queue' = Append(queue, c)
    /\ \E started \in OneOf(Unborn) : Goto(started, "ready")
    /\ UNCHANGED <<stopped, once, outcome, job, result>>

\* prefetchListing: queue a job, start a worker if there is room, signal one.
Request(c) ==
    /\ pc[Main] = "walk"
    /\ ~stopped
    /\ c \notin requested
    /\ requested' = requested \cup {c}
    /\ jobs' = jobs \cup {c}
    /\ queue' = Append(queue, c)
    /\ \E started \in OneOf(Unborn), signalled \in OneOf(Sleepers) :
          Goto(started \cup signalled, "ready")
    /\ UNCHANGED <<stopped, once, outcome, job, result>>

\* compilerListing: take the job out of the map; a job for another tsgo or
\* repository (~same) and a missing one are listed directly.
Take(c, same) ==
    /\ pc[Main] = "walk"
    /\ jobs' = jobs \ {c}
    /\ job' = [job EXCEPT ![Main] = c]
    /\ pc' = [pc EXCEPT ![Main] = IF c \in jobs /\ same THEN "once" ELSE "direct"]
    /\ UNCHANGED <<requested, queue, stopped, once, outcome, result>>

\* runCompilerListing on the walk's own, never cancelled, context.
Direct ==
    /\ pc[Main] = "direct"
    /\ result' = [result EXCEPT ![job[Main]] = "listed"]
    /\ job' = [job EXCEPT ![Main] = None]
    /\ pc' = [pc EXCEPT ![Main] = "walk"]
    /\ UNCHANGED <<jobs, requested, queue, stopped, once, outcome>>

\* Variant: the jobs map is not cleared.
StopKeepingJobs ==
    /\ pc[Main] = "walk" /\ ~stopped
    /\ stopped' = TRUE
    /\ queue' = <<>>
    /\ Goto(Sleepers, "ready")
    /\ UNCHANGED <<jobs, requested, once, outcome, job, result>>

\* Variant: cond.Broadcast is forgotten.
StopWithoutBroadcast ==
    /\ pc[Main] = "walk" /\ ~stopped
    /\ stopped' = TRUE
    /\ jobs' = {}
    /\ queue' = <<>>
    /\ UNCHANGED <<requested, once, outcome, pc, job, result>>

\* stopPrefetch: cancel the context, drop every job, wake every worker.
Stop ==
    /\ pc[Main] = "walk"
    /\ ~stopped
    /\ stopped' = TRUE
    /\ jobs' = {}
    /\ queue' = <<>>
    /\ Goto(Sleepers, "ready")
    /\ UNCHANGED <<requested, once, outcome, job, result>>

\* listCompilerProgramContext with exclusions or roots: projectionConfigs.Lock().
LockProjection ==
    /\ pc[Main] = "walk"
    /\ Goto({Main}, "lock")
    /\ UNCHANGED <<jobs, requested, queue, stopped, once, outcome, job, result>>

\* The readers have drained: the projection config is created and listed.
WriteProjection ==
    /\ pc[Main] = "lock"
    /\ In({"listing"}) = {}
    /\ Goto({Main}, "projecting")
    /\ UNCHANGED <<jobs, requested, queue, stopped, once, outcome, job, result>>

\* Variant: a reader that came while the writer held is never woken.
RemoveProjectionSilently ==
    /\ pc[Main] = "projecting"
    /\ Goto({Main}, "walk")
    /\ UNCHANGED <<jobs, requested, queue, stopped, once, outcome, job, result>>

\* The projection is removed, then the lock is released to the waiting readers.
RemoveProjection ==
    /\ pc[Main] = "projecting"
    /\ pc' = [p \in Procs |-> CASE p = Main        -> "walk"
                                [] pc[p] = "rwait" -> "listing"
                                [] OTHER           -> pc[p]]
    /\ UNCHANGED <<jobs, requested, queue, stopped, once, outcome, job, result>>

\* The process ends, by the end of the run or by log.Fatal.
Exit ==
    /\ pc[Main] = "walk"
    /\ Goto(Procs, "exited")
    /\ UNCHANGED <<jobs, requested, queue, stopped, once, outcome, job, result>>

-----------------------------------------------------------------------------
(* A worker: work().                                                       *)

WorkerWait(w) ==
    /\ pc[w] = "ready"
    /\ queue = <<>> /\ ~stopped
    /\ Goto({w}, "waiting")
    /\ UNCHANGED <<jobs, requested, queue, stopped, once, outcome, job, result>>

WorkerExit(w) ==
    /\ pc[w] = "ready"
    /\ stopped
    /\ Goto({w}, "exited")
    /\ UNCHANGED <<jobs, requested, queue, stopped, once, outcome, job, result>>

\* Pop the oldest job; one the walk took meanwhile is skipped.
WorkerPop(w) ==
    /\ pc[w] = "ready"
    /\ queue # <<>> /\ ~stopped
    /\ queue' = Tail(queue)
    /\ IF Head(queue) \in jobs
         THEN /\ job' = [job EXCEPT ![w] = Head(queue)]
              /\ Goto({w}, "once")
         ELSE UNCHANGED <<job, pc>>
    /\ UNCHANGED <<jobs, requested, stopped, once, outcome, result>>

-----------------------------------------------------------------------------
(* job.run(), by a worker or by the walk.                                  *)

\* The goroutine returns from job.run; the walk receives job.p and job.err.
Return(p, left) ==
    /\ pc' = [pc EXCEPT ![p] = Home(p)]
    /\ job' = [job EXCEPT ![p] = None]
    /\ result' = IF p = Main THEN [result EXCEPT ![job[p]] = left] ELSE result

OnceEnter(p) ==
    /\ pc[p] = "once"
    /\ once[job[p]] = "new"
    /\ once' = [once EXCEPT ![job[p]] = "running"]
    /\ Goto({p}, "rlock")
    /\ UNCHANGED <<jobs, requested, queue, stopped, outcome, job, result>>

\* Another goroutine ran the job: its result is the one returned.
OnceReturn(p) ==
    /\ pc[p] = "once"
    /\ once[job[p]] = "done"
    /\ Return(p, outcome[job[p]])
    /\ UNCHANGED <<jobs, requested, queue, stopped, once, outcome>>

\* Variant: job.run without projectionConfigs.
RunUnlocked(p) ==
    /\ pc[p] = "rlock"
    /\ Goto({p}, "listing")
    /\ UNCHANGED <<jobs, requested, queue, stopped, once, outcome, job, result>>

\* projectionConfigs.RLock(): a waiting or holding writer goes first.
RLock(p) ==
    /\ pc[p] = "rlock"
    /\ Goto({p}, IF pc[Main] \in {"lock", "projecting"} THEN "rwait" ELSE "listing")
    /\ UNCHANGED <<jobs, requested, queue, stopped, once, outcome, job, result>>

\* The listing ends and the read lock is released; under a cancelled context
\* tsgo was killed, unless it had already finished.
Finish(p) ==
    /\ pc[p] = "listing"
    /\ \E left \in {"listed"} \cup (IF stopped THEN {"killed"} ELSE {}) :
          /\ outcome' = [outcome EXCEPT ![job[p]] = left]
          /\ Return(p, left)
    /\ once' = [once EXCEPT ![job[p]] = "done"]
    /\ UNCHANGED <<jobs, requested, queue, stopped>>

Run(p) == OnceEnter(p) \/ OnceReturn(p) \/ RLock(p) \/ Finish(p)
Work(w) == WorkerWait(w) \/ WorkerExit(w) \/ WorkerPop(w) \/ Run(w)
MainStep == Direct \/ WriteProjection \/ RemoveProjection \/ Run(Main)
MainChoice ==
    \/ \E c \in Cfgs : Request(c)
    \/ \E c \in Cfgs, same \in BOOLEAN : Take(c, same)
    \/ Stop \/ LockProjection \/ Exit

Terminated == pc[Main] = "exited" /\ UNCHANGED vars

Next == MainChoice \/ MainStep \/ (\E w \in Workers : Work(w)) \/ Terminated

Spec == Init /\ [][Next]_vars

\* The Go scheduler runs every runnable goroutine and tsgo terminates; which
\* directory the walk turns to next, and whether it ends, is left open.
FairSpec ==
    /\ Spec
    /\ WF_vars(MainStep)
    /\ \A w \in Workers : WF_vars(Work(w))

-----------------------------------------------------------------------------
(* Properties.                                                             *)

\* Every variable keeps its type, and only the walk is at the walk's states.
TypeOK ==
    /\ jobs \in SUBSET Cfgs
    /\ requested \in SUBSET Cfgs
    /\ queue \in Seq(Cfgs)
    /\ stopped \in BOOLEAN
    /\ once \in [Cfgs -> {"new", "running", "done"}]
    /\ outcome \in [Cfgs -> {"none", "listed", "killed"}]
    /\ pc \in [Procs -> WorkerStates \cup MainStates]
    /\ pc[Main] \in MainStates
    /\ \A w \in Workers : pc[w] \in WorkerStates
    /\ job \in [Procs -> Cfgs \cup {None}]
    /\ \A p \in Procs : pc[p] \in RunStates => job[p] \in Cfgs
    /\ pc[Main] = "direct" => job[Main] \in Cfgs
    /\ result \in [Cfgs -> {"none", "listed", "killed"}]

\* No prefetched listing runs while a projection config exists beside its
\* tsconfig.json: tsgo would enumerate the projection (program.go, the comment
\* on projectionConfigs).
NoListingBesideProjection ==
    pc[Main] = "projecting" => In({"listing"}) = {}

\* A job's listing is run by one goroutine at a time, and the walk and the
\* worker that both reached it share one run (listingJob.once).
OneRunPerJob ==
    \A p, q \in In({"rlock", "rwait", "listing"}) : job[p] = job[q] => p = q

\* compilerListing never hands a directory a listing that stopPrefetch killed.
NoCancelledResult == \A c \in Cfgs : result[c] # "killed"

\* While some worker sleeps in cond.Wait, every queued job has a worker of its
\* own on its way to the queue: no request is left to a sleeper (cond.Signal).
NoLostWakeup ==
    Sleepers # {} /\ ~stopped => Len(queue) <= Cardinality(In({"ready"}))

\* After stopPrefetch every worker goroutine ends; none is left asleep.
StopEndsWorkers ==
    stopped ~> \A w \in Workers : pc[w] \in {"unborn", "exited"}

\* The walk cannot tell the prefetch from listing each program itself, and a
\* directory that asks for its listing gets it (prefetch.go, listingPrefetch).
Serial == INSTANCE SerialListing WITH asking <- job[Main], answer <- result
ImplementsSerialListing == Serial!Spec
=============================================================================
