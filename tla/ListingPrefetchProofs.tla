------------------------ MODULE ListingPrefetchProofs ------------------------
(***************************************************************************)
(* The safety of the listing prefetch for every number of programs and     *)
(* workers.  The invariant strengthens the properties with what they rest  *)
(* on: a stop happens between two directories and leaves no job behind, so *)
(* a killed listing exists only where the walk no longer looks.            *)
(***************************************************************************)
EXTENDS ListingPrefetch, FiniteSetTheorems, TLAPS

USE DEF Procs, RunStates, WorkerStates, MainStates

LEMMA InitTypeOK == Init => TypeOK
<1> SUFFICES ASSUME Init PROVE TypeOK
  OBVIOUS
<1>1. \A p \in Procs : pc[p] \in {"walk", "unborn"} /\ job[p] = None
  BY DEF Init
<1>2. pc[Main] = "walk" /\ \A w \in Workers : pc[w] = "unborn"
  BY PrefetchAssumption DEF Init
<1>3. pc \in [Procs -> WorkerStates \cup MainStates] /\ job \in [Procs -> Cfgs \cup {None}]
  BY DEF Init
<1>4. queue \in Seq(Cfgs)
  BY DEF Init
<1>5. stopped \in BOOLEAN
  BY DEF Init
<1> QED BY <1>1, <1>2, <1>3, <1>4, <1>5 DEF Init, TypeOK

\* The steps of the walk that are no part of job.run keep the types.
LEMMA WalkTypeOK ==
  ASSUME TypeOK, MainChoice \/ Direct \/ WriteProjection \/ RemoveProjection
  PROVE  TypeOK'
<1> USE PrefetchAssumption DEF TypeOK
<1>1. ASSUME NEW c \in Cfgs, Request(c) PROVE TypeOK'
  <2>1. PICK started \in OneOf(Unborn), signalled \in OneOf(Sleepers) :
            Goto(started \cup signalled, "ready")
    BY <1>1 DEF Request
  <2>2. started \cup signalled \subseteq Workers
    BY <2>1 DEF OneOf, Unborn, Sleepers
  <2>3. \A p \in Procs : pc'[p] = "ready" \/ pc'[p] = pc[p]
    BY <2>1 DEF Goto
  <2>4. pc'[Main] = pc[Main]
    BY <2>1, <2>2 DEF Goto
  <2>5. pc' \in [Procs -> WorkerStates \cup MainStates]
    BY <2>1 DEF Goto
  <2>6. queue' \in Seq(Cfgs)
    BY <1>1 DEF Request
  <2> QED BY <1>1, <2>3, <2>4, <2>5, <2>6 DEF Request
<1>2. ASSUME NEW c \in Cfgs, NEW same \in BOOLEAN, Take(c, same) PROVE TypeOK'
  BY <1>2 DEF Take
<1>3. CASE Stop
  BY <1>3 DEF Stop, Goto, Sleepers
<1>4. CASE LockProjection
  BY <1>4 DEF LockProjection, Goto
<1>5. CASE Exit
  BY <1>5 DEF Exit, Goto
<1>6. CASE Direct
  BY <1>6 DEF Direct
<1>7. CASE WriteProjection
  BY <1>7 DEF WriteProjection, Goto
<1>8. CASE RemoveProjection
  BY <1>8 DEF RemoveProjection
<1> QED BY <1>1, <1>2, <1>3, <1>4, <1>5, <1>6, <1>7, <1>8 DEF MainChoice

\* The steps of job.run keep the types, whoever runs the job.
LEMMA RunTypeOK ==
  ASSUME TypeOK, NEW p \in Procs, Run(p)
  PROVE  TypeOK'
<1> USE PrefetchAssumption DEF TypeOK
<1>1. CASE OnceEnter(p)
  BY <1>1 DEF OnceEnter, Goto
<1>2. CASE OnceReturn(p)
  BY <1>2 DEF OnceReturn, Return, Home
<1>3. CASE RLock(p)
  BY <1>3 DEF RLock, Goto
<1>4. CASE Finish(p)
  <2>1. PICK left \in {"listed"} \cup (IF stopped THEN {"killed"} ELSE {}) :
          /\ outcome' = [outcome EXCEPT ![job[p]] = left]
          /\ Return(p, left)
    BY <1>4 DEF Finish
  <2> QED BY <1>4, <2>1 DEF Finish, Return, Home
<1> QED BY <1>1, <1>2, <1>3, <1>4 DEF Run

\* A worker's own loop keeps the types.
LEMMA WorkTypeOK ==
  ASSUME TypeOK, NEW w \in Workers, WorkerWait(w) \/ WorkerExit(w) \/ WorkerPop(w)
  PROVE  TypeOK'
<1> USE PrefetchAssumption DEF TypeOK
<1>1. CASE WorkerWait(w)
  BY <1>1 DEF WorkerWait, Goto
<1>2. CASE WorkerExit(w)
  BY <1>2 DEF WorkerExit, Goto
<1>3. CASE WorkerPop(w)
  <2>1. queue' \in Seq(Cfgs)
    BY <1>3 DEF WorkerPop
  <2>2. CASE Head(queue) \in jobs
    BY <1>3, <2>1, <2>2 DEF WorkerPop, Goto
  <2>3. CASE Head(queue) \notin jobs
    BY <1>3, <2>1, <2>3 DEF WorkerPop
  <2> QED BY <2>2, <2>3
<1> QED BY <1>1, <1>2, <1>3

LEMMA NextTypeOK == TypeOK /\ [Next]_vars => TypeOK'
<1> SUFFICES ASSUME TypeOK, [Next]_vars PROVE TypeOK'
  OBVIOUS
<1>1. CASE MainChoice \/ MainStep
  BY <1>1, WalkTypeOK, RunTypeOK DEF MainStep
<1>2. ASSUME NEW w \in Workers, Work(w) PROVE TypeOK'
  BY <1>2, RunTypeOK, WorkTypeOK DEF Work
<1>3. CASE UNCHANGED vars
  BY <1>3 DEF vars, TypeOK
<1> QED BY <1>1, <1>2, <1>3 DEF Next, Terminated

\* Every variable keeps its type, for any number of programs and workers.
THEOREM TypeCorrect == Spec => []TypeOK
  BY InitTypeOK, NextTypeOK, PTL DEF Spec

-----------------------------------------------------------------------------
(* The inductive invariant.                                                *)

Running == {"rlock", "rwait", "listing"}

\* After the stop no job is left to take, and the walk is inside none.
StoppedIsEmpty ==
    stopped => /\ jobs = {}
               /\ pc[Main] \notin RunStates

\* Only the stop kills a listing.
KilledAfterStop == \A c \in Cfgs : outcome[c] = "killed" => stopped

\* A goroutine that runs a job is inside its sync.Once, and one that is done
\* has left an outcome.
OnceGuards ==
    /\ \A p \in In(Running) : once[job[p]] = "running"
    /\ \A c \in Cfgs : once[c] = "done" => outcome[c] # "none"

\* The walk waits for a listing exactly while it runs one.
WalkIdle == pc[Main] \in RunStates \cup {"direct"} \/ job[Main] = None

IInv ==
    /\ TypeOK
    /\ StoppedIsEmpty
    /\ KilledAfterStop
    /\ OnceGuards
    /\ WalkIdle
    /\ OneRunPerJob
    /\ NoListingBesideProjection
    /\ NoCancelledResult


LEMMA InitIInv == Init => IInv
<1> SUFFICES ASSUME Init PROVE IInv
  OBVIOUS
<1>1. TypeOK
  BY InitTypeOK
<1>2. \A p \in Procs : pc[p] \in {"walk", "unborn"}
  BY DEF Init
<1>3. In(Running) = {} /\ In({"listing"}) = {}
  BY <1>2 DEF In, Running
<1>4. job[Main] = None
  BY DEF Init
<1>5. pc[Main] # "projecting"
  BY <1>2
<1> QED BY <1>1, <1>3, <1>4, <1>5 DEF Init, IInv, StoppedIsEmpty, KilledAfterStop,
           OnceGuards, WalkIdle, OneRunPerJob, NoListingBesideProjection, NoCancelledResult, Running

\* The steps of the walk keep the invariant.
LEMMA WalkIInv ==
  ASSUME IInv, MainChoice \/ Direct \/ WriteProjection \/ RemoveProjection
  PROVE  IInv'
<1> USE PrefetchAssumption DEF IInv, StoppedIsEmpty, KilledAfterStop, OnceGuards, WalkIdle,
        OneRunPerJob, NoListingBesideProjection, NoCancelledResult, In, Running
<1> TypeOK'
  BY WalkTypeOK
<1>1. ASSUME NEW c \in Cfgs, Request(c) PROVE IInv'
  <2>1. PICK started \in OneOf(Unborn), signalled \in OneOf(Sleepers) :
            Goto(started \cup signalled, "ready")
    BY <1>1 DEF Request
  <2>2. started \cup signalled \subseteq Workers
    BY <2>1 DEF OneOf, Unborn, Sleepers
  <2>3. \A p \in Procs : pc'[p] = "ready" \/ pc'[p] = pc[p]
    BY <2>1 DEF Goto
  <2>4. pc'[Main] = "walk"
    BY <1>1, <2>1, <2>2 DEF Goto, Request, TypeOK
  <2> QED BY <1>1, <2>3, <2>4 DEF Request, TypeOK
<1>2. ASSUME NEW c \in Cfgs, NEW same \in BOOLEAN, Take(c, same) PROVE IInv'
  BY <1>2 DEF Take, TypeOK
<1>3. CASE Stop
  BY <1>3 DEF Stop, Goto, Sleepers, TypeOK
<1>4. CASE LockProjection
  BY <1>4 DEF LockProjection, Goto, TypeOK
<1>5. CASE Exit
  BY <1>5 DEF Exit, Goto, TypeOK
<1>6. CASE Direct
  BY <1>6 DEF Direct, TypeOK
<1>7. CASE WriteProjection
  BY <1>7 DEF WriteProjection, Goto, TypeOK
<1>8. CASE RemoveProjection
  BY <1>8 DEF RemoveProjection, TypeOK
<1> QED BY <1>1, <1>2, <1>3, <1>4, <1>5, <1>6, <1>7, <1>8 DEF MainChoice

\* The steps of job.run keep the invariant.
LEMMA RunIInv ==
  ASSUME IInv, NEW p \in Procs, Run(p)
  PROVE  IInv'
<1> USE PrefetchAssumption DEF IInv, StoppedIsEmpty, KilledAfterStop, OnceGuards, WalkIdle,
        OneRunPerJob, NoListingBesideProjection, NoCancelledResult, In, Running
<1> TypeOK'
  BY RunTypeOK
<1>1. CASE OnceEnter(p)
  BY <1>1 DEF OnceEnter, Goto, TypeOK
<1>2. CASE OnceReturn(p)
  BY <1>2 DEF OnceReturn, Return, Home, TypeOK
<1>3. CASE RLock(p)
  BY <1>3 DEF RLock, Goto, TypeOK
<1>4. CASE Finish(p)
  <2>1. PICK left \in {"listed"} \cup (IF stopped THEN {"killed"} ELSE {}) :
          /\ outcome' = [outcome EXCEPT ![job[p]] = left]
          /\ Return(p, left)
    BY <1>4 DEF Finish
  <2>2. left \in {"listed", "killed"} /\ (left = "killed" => stopped)
    OBVIOUS
  <2> QED BY <1>4, <2>1, <2>2 DEF Finish, Return, Home, TypeOK
<1> QED BY <1>1, <1>2, <1>3, <1>4 DEF Run

\* A worker's own loop keeps the invariant.
LEMMA WorkIInv ==
  ASSUME IInv, NEW w \in Workers, WorkerWait(w) \/ WorkerExit(w) \/ WorkerPop(w)
  PROVE  IInv'
<1> USE PrefetchAssumption DEF IInv, StoppedIsEmpty, KilledAfterStop, OnceGuards, WalkIdle,
        OneRunPerJob, NoListingBesideProjection, NoCancelledResult, In, Running
<1> TypeOK'
  BY WorkTypeOK
<1>1. CASE WorkerWait(w)
  BY <1>1 DEF WorkerWait, Goto, TypeOK
<1>2. CASE WorkerExit(w)
  BY <1>2 DEF WorkerExit, Goto, TypeOK
<1>3. CASE WorkerPop(w)
  <2>1. CASE Head(queue) \in jobs
    BY <1>3, <2>1 DEF WorkerPop, Goto, TypeOK
  <2>2. CASE Head(queue) \notin jobs
    BY <1>3, <2>2 DEF WorkerPop, TypeOK
  <2> QED BY <2>1, <2>2
<1> QED BY <1>1, <1>2, <1>3

LEMMA NextIInv == IInv /\ [Next]_vars => IInv'
<1> SUFFICES ASSUME IInv, [Next]_vars PROVE IInv'
  OBVIOUS
<1>1. CASE MainChoice \/ MainStep
  BY <1>1, WalkIInv, RunIInv DEF MainStep
<1>2. ASSUME NEW w \in Workers, Work(w) PROVE IInv'
  BY <1>2, RunIInv, WorkIInv DEF Work
<1>3. CASE UNCHANGED vars
  BY <1>3 DEF vars, IInv, TypeOK, StoppedIsEmpty, KilledAfterStop, OnceGuards, WalkIdle,
     OneRunPerJob, NoListingBesideProjection, NoCancelledResult, In, Running
<1> QED BY <1>1, <1>2, <1>3 DEF Next, Terminated

LEMMA IInvCorrect == Spec => []IInv
  BY InitIInv, NextIInv, PTL DEF Spec

\* No prefetched listing runs beside a projection config.
THEOREM ProjectionExclusive == Spec => []NoListingBesideProjection
<1>1. IInv => NoListingBesideProjection
  BY DEF IInv
<1> QED BY <1>1, IInvCorrect, PTL

\* The walk and the workers share one run of a job.
THEOREM RunsOnce == Spec => []OneRunPerJob
<1>1. IInv => OneRunPerJob
  BY DEF IInv
<1> QED BY <1>1, IInvCorrect, PTL

\* No directory receives a listing that stopPrefetch killed.
THEOREM NeverCancelled == Spec => []NoCancelledResult
<1>1. IInv => NoCancelledResult
  BY DEF IInv
<1> QED BY <1>1, IInvCorrect, PTL

-----------------------------------------------------------------------------
(* No wakeup is lost: the goroutines that are ready are counted.             *)

Ready == In({"ready"})

LEMMA ReadyIsFinite ==
  ASSUME TypeOK
  PROVE  IsFiniteSet(Ready) /\ Cardinality(Ready) \in Nat /\ Ready \subseteq Workers
<1>1. Ready \subseteq Workers
  BY DEF TypeOK, Ready, In
<1> QED BY <1>1, PrefetchAssumption, FS_Subset, FS_CardinalityType

LEMMA ReadyIsFiniteNext ==
  ASSUME TypeOK'
  PROVE  IsFiniteSet(Ready') /\ Cardinality(Ready') \in Nat /\ Ready' \subseteq Workers
<1>1. Ready' \subseteq Workers
  BY DEF TypeOK, Ready, In
<1> QED BY <1>1, PrefetchAssumption, FS_Subset, FS_CardinalityType

\* A goroutine more, and no sleeper more, for a queue that does not grow.
LEMMA NoneLost ==
  ASSUME TypeOK, TypeOK', NoLostWakeup, Ready \subseteq Ready', Sleepers' \subseteq Sleepers,
         stopped' = stopped, queue' = queue \/ (queue # <<>> /\ queue' = Tail(queue))
  PROVE  NoLostWakeup'
<1>1. IsFiniteSet(Ready') /\ Cardinality(Ready') \in Nat
  BY ReadyIsFiniteNext
<1>2. Cardinality(Ready) \in Nat /\ Cardinality(Ready) <= Cardinality(Ready')
  BY <1>1, FS_Subset, ReadyIsFinite
<1>3. Len(queue') \in Nat /\ Len(queue) \in Nat /\ Len(queue') <= Len(queue)
  BY DEF TypeOK
<1> QED BY <1>1, <1>2, <1>3 DEF NoLostWakeup, Ready

LEMMA RequestWakes ==
  ASSUME TypeOK, TypeOK', NoLostWakeup, NEW c \in Cfgs, Request(c)
  PROVE  NoLostWakeup'
<1>1. PICK started \in OneOf(Unborn), signalled \in OneOf(Sleepers) :
          Goto(started \cup signalled, "ready")
  BY DEF Request
<1>2. Sleepers' \subseteq Sleepers /\ Ready \cup signalled \subseteq Ready'
  BY <1>1, PrefetchAssumption DEF Goto, Ready, In, Sleepers, OneOf, TypeOK
<1>3. CASE Sleepers = {}
  BY <1>2, <1>3 DEF NoLostWakeup
<1>4. CASE Sleepers # {}
  <2>1. PICK w \in Sleepers : signalled = {w}
    BY <1>1, <1>4 DEF OneOf
  <2>2. w \notin Ready
    BY <2>1 DEF Ready, In, Sleepers
  <2>3. IsFiniteSet(Ready) /\ Cardinality(Ready) \in Nat
    BY ReadyIsFinite
  <2>4. Cardinality(Ready \cup {w}) = Cardinality(Ready) + 1
    BY <2>2, <2>3, FS_AddElement
  <2>5. IsFiniteSet(Ready') /\ Cardinality(Ready') \in Nat
    BY ReadyIsFiniteNext
  <2>6. Cardinality(Ready \cup {w}) <= Cardinality(Ready')
    BY <1>2, <2>1, <2>5, FS_Subset
  <2>7. Len(queue') = Len(queue) + 1 /\ Len(queue) \in Nat /\ stopped' = stopped
    BY DEF Request, TypeOK
  <2> QED BY <1>4, <2>3, <2>4, <2>5, <2>6, <2>7 DEF NoLostWakeup, Ready
<1> QED BY <1>3, <1>4

LEMMA PopWakes ==
  ASSUME TypeOK, TypeOK', NoLostWakeup, NEW w \in Workers, WorkerPop(w)
  PROVE  NoLostWakeup'
<1>1. CASE Head(queue) \in jobs
  <2>1. Sleepers' = Sleepers /\ Ready' = Ready \ {w} /\ w \in Ready
    BY <1>1, PrefetchAssumption DEF WorkerPop, Goto, Ready, In, Sleepers, TypeOK
  <2>2. IsFiniteSet(Ready) /\ Cardinality(Ready) \in Nat
    BY ReadyIsFinite
  <2>3. Cardinality(Ready') = Cardinality(Ready) - 1
    BY <2>1, <2>2, FS_RemoveElement
  <2>4. Len(queue) \in Nat /\ Len(queue') = Len(queue) - 1 /\ stopped' = stopped
    BY DEF WorkerPop, TypeOK
  <2> QED BY <2>1, <2>2, <2>3, <2>4 DEF NoLostWakeup, Ready
<1>2. CASE Head(queue) \notin jobs
  <2>1. Sleepers' = Sleepers /\ Ready' = Ready
    BY <1>2 DEF WorkerPop, Ready, In, Sleepers
  <2> QED BY <2>1, NoneLost DEF WorkerPop
<1> QED BY <1>1, <1>2

LEMMA GotoOne ==
  ASSUME TypeOK, NEW p \in Procs, NEW s, Goto({p}, s)
  PROVE  pc' = [pc EXCEPT ![p] = s]
BY DEF Goto, TypeOK

\* A goroutine that runs a job was not ready, and none falls asleep.
LEMMA RunWakes ==
  ASSUME TypeOK, TypeOK', NoLostWakeup, NEW p \in Procs, Run(p)
  PROVE  NoLostWakeup'
<1>1. pc[p] \in RunStates /\ queue' = queue /\ stopped' = stopped
  BY DEF Run, OnceEnter, OnceReturn, RLock, Finish
<1>2. \E s \in RunStates \cup {"walk", "ready"} : pc' = [pc EXCEPT ![p] = s]
  <2>1. CASE OnceEnter(p)
    BY <2>1, GotoOne DEF OnceEnter
  <2>2. CASE OnceReturn(p)
    BY <2>2 DEF OnceReturn, Return, Home
  <2>3. CASE RLock(p)
    BY <2>3, GotoOne DEF RLock
  <2>4. CASE Finish(p)
    BY <2>4 DEF Finish, Return, Home
  <2> QED BY <2>1, <2>2, <2>3, <2>4 DEF Run
<1>3. Ready \subseteq Ready' /\ Sleepers' \subseteq Sleepers
  BY <1>1, <1>2, PrefetchAssumption DEF Ready, In, Sleepers, TypeOK
<1> QED BY <1>1, <1>3, NoneLost

LEMMA NextWakes == TypeOK /\ TypeOK' /\ NoLostWakeup /\ [Next]_vars => NoLostWakeup'
<1> SUFFICES ASSUME TypeOK, TypeOK', NoLostWakeup, [Next]_vars PROVE NoLostWakeup'
  OBVIOUS
<1>1. ASSUME NEW c \in Cfgs, Request(c) PROVE NoLostWakeup'
  BY <1>1, RequestWakes
<1>2. CASE Stop \/ \E w \in Workers : WorkerExit(w)
  <2>1. stopped' = TRUE
    <3>1. CASE Stop
      BY <3>1 DEF Stop
    <3>2. ASSUME NEW w \in Workers, WorkerExit(w) PROVE stopped' = TRUE
      BY <3>2 DEF WorkerExit, TypeOK
    <3> QED BY <1>2, <3>1, <3>2
  <2> QED BY <2>1 DEF NoLostWakeup
<1>3. CASE Exit
  BY <1>3 DEF Exit, Goto, Sleepers, NoLostWakeup
<1>4. ASSUME NEW w \in Workers, WorkerWait(w) PROVE NoLostWakeup'
  <2>1. Len(queue') = 0
    BY <1>4 DEF WorkerWait
  <2>2. Cardinality(Ready') \in Nat
    BY ReadyIsFiniteNext
  <2> QED BY <2>1, <2>2 DEF NoLostWakeup, Ready
<1>5. ASSUME NEW w \in Workers, WorkerPop(w) PROVE NoLostWakeup'
  BY <1>5, PopWakes
<1>6. ASSUME NEW p \in Procs, Run(p) PROVE NoLostWakeup'
  BY <1>6, RunWakes
<1>7. CASE \/ \E c \in Cfgs, same \in BOOLEAN : Take(c, same)
           \/ Direct \/ LockProjection \/ WriteProjection \/ RemoveProjection
  <2>1. /\ queue' = queue /\ stopped' = stopped
        /\ \A w \in Workers : pc[w] \in {"ready", "waiting"} \/ pc'[w] = "waiting" => pc'[w] = pc[w]
    BY <1>7, PrefetchAssumption DEF Take, Direct, LockProjection, WriteProjection, RemoveProjection, Goto, TypeOK
  <2>2. Ready \subseteq Ready' /\ Sleepers' \subseteq Sleepers
    BY <2>1, ReadyIsFinite DEF Ready, In, Sleepers
  <2> QED BY <2>1, <2>2, NoneLost
<1>8. CASE UNCHANGED vars
  BY <1>8 DEF vars, NoLostWakeup, Sleepers, In
<1> QED BY <1>1, <1>2, <1>3, <1>4, <1>5, <1>6, <1>7, <1>8
        DEF Next, MainChoice, MainStep, Work, Terminated

\* While a worker sleeps in cond.Wait, each queued job has a worker awake that
\* comes to the queue, for any number of programs and workers.
THEOREM WakeupsArrive == Spec => []NoLostWakeup
<1>1. Init => NoLostWakeup
  <2> SUFFICES ASSUME Init PROVE Sleepers = {}
    BY DEF NoLostWakeup
  <2> QED BY PrefetchAssumption DEF Init, Sleepers
<1>2. TypeOK /\ TypeOK' /\ NoLostWakeup /\ [Next]_vars => NoLostWakeup'
  BY NextWakes
<1> QED BY <1>1, <1>2, TypeCorrect, PTL DEF Spec

-----------------------------------------------------------------------------
(* The prefetch implements the serial listing, but for its liveness.       *)

\* The walk, returning from a job with a listing, answers its question.
LEMMA AnswerOfReturn ==
  ASSUME job \in [Procs -> Cfgs \cup {None}], job[Main] \in Cfgs, Return(Main, "listed")
  PROVE  Serial!Answer
<1>1. job[Main] # None
  BY PrefetchAssumption
<1>2. job'[Main] = None
  BY DEF Return
<1>3. result' = [result EXCEPT ![job[Main]] = "listed"]
  BY DEF Return
<1> QED BY <1>1, <1>2, <1>3 DEF Serial!Answer

LEMMA StepRefines == IInv /\ [Next]_vars => [Serial!Next]_(Serial!vars)
<1> SUFFICES ASSUME IInv, [Next]_vars PROVE [Serial!Next]_(Serial!vars)
  OBVIOUS
<1> USE PrefetchAssumption DEF Serial!vars
<1>0. job \in [Procs -> Cfgs \cup {None}]
  BY DEF IInv, TypeOK
<1>1. ASSUME NEW c \in Cfgs, NEW same \in BOOLEAN, Take(c, same) PROVE Serial!Ask(c)
  BY <1>1 DEF Take, Serial!Ask, IInv, WalkIdle, TypeOK
<1>2. ASSUME Direct PROVE Serial!Answer
  BY <1>2 DEF Direct, Serial!Answer, IInv, TypeOK
<1>3. ASSUME OnceReturn(Main) PROVE Serial!Answer
  <2>1. pc[Main] = "once" /\ once[job[Main]] = "done" /\ ~stopped
    BY <1>3 DEF OnceReturn, IInv, StoppedIsEmpty
  <2>2. job[Main] \in Cfgs
    BY <2>1 DEF IInv, TypeOK
  <2>3. outcome[job[Main]] = "listed"
    BY <2>1, <2>2 DEF IInv, TypeOK, OnceGuards, KilledAfterStop
  <2>4. Return(Main, "listed")
    BY <1>3, <2>3 DEF OnceReturn
  <2> QED BY <1>0, <2>2, <2>4, AnswerOfReturn
<1>4. ASSUME Finish(Main) PROVE Serial!Answer
  <2>1. pc[Main] = "listing" /\ ~stopped
    BY <1>4 DEF Finish, IInv, StoppedIsEmpty
  <2>2. job[Main] \in Cfgs
    BY <2>1 DEF IInv, TypeOK
  <2>3. Return(Main, "listed")
    BY <1>4, <2>1 DEF Finish
  <2> QED BY <1>0, <2>2, <2>3, AnswerOfReturn
<1>5. ASSUME NEW w \in Workers, Work(w) PROVE UNCHANGED Serial!vars
  BY <1>5 DEF Work, WorkerWait, WorkerExit, WorkerPop, Run, OnceEnter, OnceReturn, RLock, Finish,
     Return, IInv, TypeOK
<1>6. ASSUME NEW c \in Cfgs, Request(c) PROVE UNCHANGED Serial!vars
  BY <1>6 DEF Request
<1>7. CASE Stop \/ LockProjection \/ Exit \/ WriteProjection \/ RemoveProjection
  BY <1>7 DEF Stop, LockProjection, Exit, WriteProjection, RemoveProjection
<1>8. CASE OnceEnter(Main) \/ RLock(Main)
  BY <1>8 DEF OnceEnter, RLock
<1>9. CASE UNCHANGED vars
  BY <1>9 DEF vars
<1> QED BY <1>1, <1>2, <1>3, <1>4, <1>5, <1>6, <1>7, <1>8, <1>9
           DEF Next, MainChoice, MainStep, Run, Terminated, Serial!Next

\* The walk, seen by what it asks and what it is answered, takes only steps of
\* the serial listing (compilerListing with and without the prefetch).
THEOREM RefinesSerial == Spec => Serial!Init /\ [][Serial!Next]_(Serial!vars)
<1>1. Init => Serial!Init
  BY PrefetchAssumption DEF Init, Serial!Init
<1> QED BY <1>1, IInvCorrect, StepRefines, PTL DEF Spec

=============================================================================
