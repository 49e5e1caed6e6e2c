--------------------------- MODULE ResolvingProofs ---------------------------
(***************************************************************************)
(* Proofs about what Gazelle settles when it resolves dependencies.         *)
(* Emission, for every set of labels and every BUILD graph: a mode a        *)
(* completion has read stands until the end, and what the run publishes is  *)
(* a function of the graph, whatever the order of its walk.  Minimize, for  *)
(* every set of labels, programs, files and consumers: a round over the     *)
(* fixed supply is a round of ExactMinimize, what was dropped stays         *)
(* supplied, and what stays is needed.                                      *)
(***************************************************************************)
EXTENDS Emission, Minimize, SequenceTheorems, TLAPS

\* The visits that are made, or wait to be made.
Met == work \cup {v \in Visits : v[1] \in seen /\ (v[2] => v[1] \in required)}

\* The update's own compiler rules are required as soon as they are seen.
SelfRequired ==
    /\ emit = {t \in required : Managed(t)}
    /\ \A t \in seen : Compiler(t) /\ t \in build.written => t \in required

\* Phases: the walk belongs to the first three, completions to the middle two.
PhaseInv ==
    /\ phase \in {"unrooted", "done"} => work = {}
    /\ phase \in {"consumers", "roots", "done"} => running = << >>
    /\ phase \in {"consumers", "roots"} => pending = build.programs /\ read = {}
    /\ phase = "done" => verdict = "open"

\* While the walk can grow, only required programs are completed, and what a
\* completion asks has been put into the walk.
FrameInv ==
    phase \in {"consumers", "roots", "rooted"} =>
        /\ \A t \in build.programs \ pending : t \in required
        /\ \A i \in 1..Len(running) :
              /\ running[i].key \in build.programs
              /\ running[i].key \in required
              /\ running[i].todo \subseteq build.asks[running[i].key]
              /\ running[i].asking \subseteq build.asks[running[i].key]
              /\ verdict = "open" =>
                    \A e \in running[i].asking : <<e, TRUE>> \in Met

\* The walk has its seeds.
SeedsMet ==
    /\ {<<t, t \in build.written>> : t \in build.consumers} \subseteq Met
    /\ phase # "consumers" => build.roots \X {FALSE} \subseteq Met

\* What has been visited has had its dependencies put into the walk.
DepsMet ==
    \A t \in seen :
        /\ t \in required => build.deps[t] \X {TRUE} \subseteq Met
        /\ t \notin required => build.deps[t] \X {FALSE} \subseteq Met

\* So has a program that is completed, or is left to ask for them.
AskedOrLeft(t, d) ==
    \/ <<d, TRUE>> \in Met
    \/ \E i \in 1..Len(running) : running[i].key = t /\ d \in running[i].todo
LiveOrLeft(t) ==
    \/ (\A e \in build.live[t] : <<e, TRUE>> \in Met)
    \/ \E i \in 1..Len(running) : running[i].key = t
AsksMet ==
    /\ phase = "rooted" => \A t \in build.programs \ pending :
          (\A d \in build.asks[t] : AskedOrLeft(t, d)) /\ LiveOrLeft(t)
    /\ phase \in {"unrooted", "done"} => \A t \in build.programs \cap required :
          \A d \in build.asks[t] \cup build.live[t] : <<d, TRUE>> \in Met

Complete == verdict = "open" => SeedsMet /\ DepsMet /\ AsksMet

\* Nothing is visited that some closed set does not have.
Within(W) ==
    /\ work \subseteq W
    /\ \A t \in required : \E v \in W : v[1] = t /\ Demanding(t, v[2])
Sound == \A W \in SUBSET Visits : Closed(W) => Within(W)

\* The verdict so far.
VerdictInv ==
    /\ verdict = "open" => \A t \in required : ~Refused(emit, t)
    /\ verdict = "refused" => \E t \in required : Refused(emit, t)

ReadInv ==
    /\ ModesReadStand
    /\ phase = "rooted" => \A x \in read : x.owner \in required

IInv ==
    /\ TypeOK
    /\ SelfRequired
    /\ PhaseInv
    /\ FrameInv
    /\ Complete
    /\ Sound
    /\ VerdictInv
    /\ ReadInv


USE DEF Kinds, Modes, Phases, Visits, Frames, Reads, BuildType, Compiler, Managed, Demanding

------------------------------------------------------------------------------

\* Which sets are closed depends on the graph alone, and the graph stands.
LEMMA SameClosed ==
    ASSUME NEW W, build' = build PROVE Closed(W)' <=> Closed(W)
BY DEF Closed, Seeds, Onward

\* What a program has asked stays in the walk while the walk goes on.
LEMMA AsksKept ==
    ASSUME AsksMet, Met \subseteq Met', UNCHANGED <<build, pending, running, phase>>,
           phase \in {"consumers", "roots", "rooted"}
    PROVE  AsksMet'
<1>1. \A t, d : AskedOrLeft(t, d) => AskedOrLeft(t, d)'
    BY DEF AskedOrLeft
<1>2. \A t : LiveOrLeft(t) => LiveOrLeft(t)'
    BY DEF LiveOrLeft
<1> QED BY <1>1, <1>2 DEF AsksMet

\* visit keeps the invariant: what it does to a label it sees for the first
\* time, or again and now required.
LEMMA VisitStep ==
    ASSUME IInv, NEW t \in Targets, NEW req \in BOOLEAN, Visit(t, req)
    PROVE  IInv'
<1> DEFINE old == t \in seen /\ (t \in required \/ ~req)
           now == Demanding(t, req)
<1>1. /\ verdict = "open" /\ <<t, req>> \in work
      /\ UNCHANGED <<build, pending, running, phase, read>>
      /\ phase \in {"consumers", "roots", "rooted"}
    BY DEF Visit, IInv, PhaseInv, TypeOK
<1>2. CASE old
    <2>1. /\ work' = work \ {<<t, req>>}
          /\ UNCHANGED <<seen, required, emit, verdict>>
        BY <1>2 DEF Visit
    <2>2. Met \subseteq Met'
        BY <1>2, <2>1 DEF Met
    <2>3. TypeOK'
        BY <1>1, <2>1 DEF IInv, TypeOK
    <2>4. SelfRequired' /\ PhaseInv'
        BY <1>1, <2>1 DEF IInv, SelfRequired, PhaseInv
    <2>5. FrameInv'
        BY <1>1, <2>1, <2>2 DEF IInv, FrameInv
    <2>6. Complete'
        <3> SUFFICES ASSUME verdict' = "open" PROVE SeedsMet' /\ DepsMet' /\ AsksMet'
            BY DEF Complete
        <3>1. SeedsMet /\ DepsMet /\ AsksMet
            BY <1>1 DEF IInv, Complete
        <3>2. SeedsMet'
            BY <1>1, <2>2, <3>1 DEF SeedsMet
        <3>3. DepsMet'
            BY <1>1, <2>1, <2>2, <3>1 DEF DepsMet
        <3>4. AsksMet'
            BY <1>1, <2>2, <3>1, AsksKept
        <3> QED BY <3>2, <3>3, <3>4
    <2>7. Sound'
        <3> SUFFICES ASSUME NEW W \in SUBSET Visits, Closed(W)' PROVE Within(W)'
            BY DEF Sound
        <3>1. Closed(W) /\ Within(W)
            BY <1>1, SameClosed DEF IInv, Sound
        <3> QED BY <1>1, <2>1, <3>1 DEF Within
    <2>8. VerdictInv' /\ ReadInv'
        BY <1>1, <2>1 DEF IInv, VerdictInv, ReadInv, ModesReadStand, ModeIn, Refused
    <2> QED BY <2>3, <2>4, <2>5, <2>6, <2>7, <2>8 DEF IInv
<1>3. CASE ~old
    <2>1. /\ seen' = seen \cup {t}
          /\ required' = IF now THEN required \cup {t} ELSE required
          /\ emit' = IF Managed(t) THEN emit \cup {t} ELSE emit
        BY <1>3 DEF Visit
    <2>2. \/ /\ now /\ Refused(emit', t)
             /\ verdict' = "refused" /\ work' = work
          \/ /\ ~(now /\ Refused(emit', t))
             /\ work' = (work \ {<<t, req>>}) \cup (DepsNow(t) \X {now})
             /\ verdict' = verdict
        BY <1>3, <2>1 DEF Visit
    \* A program that is completed is required, so its rule still has the
    \* dependencies it was read with.
    <2>3. DepsNow(t) = build.deps[t]
        <3>1. Completed(t) => t \in required /\ t \in seen
            BY <1>1 DEF IInv, FrameInv, Completed, TypeOK
        <3> QED BY <3>1, <1>3 DEF DepsNow
    <2>4. build.deps[t] \subseteq Targets /\ now \in BOOLEAN /\ build \in BuildType
        BY DEF IInv, TypeOK
    <2>5. work' \subseteq Visits
        <3>1. work \subseteq Visits
            BY DEF IInv, TypeOK
        <3>2. DepsNow(t) \X {now} \subseteq Visits
            <4>1. DepsNow(t) \subseteq Targets /\ {now} \subseteq BOOLEAN
                BY <2>3, <2>4
            <4> QED BY <4>1, Zenon DEF Visits
        <3> QED BY <2>2, <3>1, <3>2
    <2>6. TypeOK'
        BY <1>1, <2>1, <2>2, <2>5 DEF IInv, TypeOK
    <2>7. SelfRequired'
        BY <1>1, <2>1 DEF IInv, SelfRequired
    <2>8. PhaseInv'
        BY <1>1, <2>2 DEF IInv, PhaseInv
    <2>9. verdict' = "open" => Met \subseteq Met'
        BY <1>1, <2>1, <2>2 DEF Met
    <2>10. FrameInv'
        BY <1>1, <2>1, <2>9 DEF IInv, FrameInv
    <2>11. Complete'
        <3> SUFFICES ASSUME verdict' = "open" PROVE SeedsMet' /\ DepsMet' /\ AsksMet'
            BY DEF Complete
        <3>1. work' = (work \ {<<t, req>>}) \cup (build.deps[t] \X {now})
            BY <2>2, <2>3
        <3>2. (build.deps[t] \X {now}) \subseteq Met'
            BY <3>1 DEF Met
        <3>3. t \in required' <=> now
            BY <1>3, <2>1 DEF IInv, TypeOK
        <3>4. /\ SeedsMet /\ DepsMet /\ AsksMet
              /\ Met \subseteq Met'
            BY <1>1, <2>9 DEF IInv, Complete
        <3>5. SeedsMet'
            BY <1>1, <3>4 DEF SeedsMet
        <3>6. DepsMet'
            <4>1. /\ t \in required' => build.deps[t] \X {TRUE} \subseteq Met'
                  /\ t \notin required' => build.deps[t] \X {FALSE} \subseteq Met'
                BY <2>4, <3>2, <3>3
            <4>2. \A u \in seen : u # t => (u \in required' <=> u \in required)
                BY <2>1
            <4>3. \A u \in seen' : u = t \/ u \in seen
                BY <2>1
            <4> QED BY <1>1, <3>4, <4>1, <4>2, <4>3 DEF DepsMet
        <3>7. AsksMet'
            BY <1>1, <3>4, AsksKept
        <3> QED BY <3>5, <3>6, <3>7
    <2>12. Sound'
        <3> SUFFICES ASSUME NEW W \in SUBSET Visits, Closed(W)' PROVE Within(W)'
            BY DEF Sound
        <3>1. Closed(W) /\ Within(W)
            BY <1>1, SameClosed DEF IInv, Sound
        <3>2. <<t, req>> \in W
            BY <1>1, <3>1 DEF Within
        <3>3. build.deps[t] \X {now} \subseteq W
            BY <3>1, <3>2 DEF Closed, Onward
        <3>4. work' \subseteq W
            BY <2>2, <2>3, <3>1, <3>3 DEF Within
        <3>5. \A u \in required' : \E v \in W : v[1] = u /\ Demanding(u, v[2])
            BY <2>1, <3>1, <3>2 DEF Within
        <3> QED BY <1>1, <3>4, <3>5 DEF Within
    <2>13. VerdictInv'
        <3>1. \A u \in Targets : Refused(emit', u) => Refused(emit, u)
            BY <2>1 DEF Refused, ModeIn
        <3>2. required \subseteq Targets
            BY DEF IInv, TypeOK
        <3>3. \A u \in Targets : Refused(emit, u)' <=> Refused(emit', u)
            BY <1>1 DEF Refused, ModeIn
        <3> QED BY <1>1, <2>1, <2>2, <3>1, <3>2, <3>3 DEF IInv, VerdictInv
    <2>14. ReadInv'
        <3>1. phase \in {"consumers", "roots"} => read = {}
            BY <1>1 DEF IInv, PhaseInv
        <3>2. \A x \in read : x.owner = t => t \in required
            BY <1>1, <3>1 DEF IInv, ReadInv
        <3>3. \A x \in read : x.owner \in emit' <=> x.owner \in emit
            BY <2>1, <3>2 DEF IInv, SelfRequired
        <3>4. required \subseteq required'
            BY <2>1
        <3> QED BY <1>1, <3>3, <3>4 DEF IInv, ReadInv, ModesReadStand, ModeIn
    <2> QED BY <2>6, <2>7, <2>8, <2>10, <2>11, <2>12, <2>13, <2>14 DEF IInv
<1> QED BY <1>2, <1>3

\* VisitRoots hands the walk its other seeds.
LEMMA VisitRootsStep == ASSUME IInv, VisitRoots PROVE IInv'
<1>1. /\ verdict = "open" /\ work = {} /\ phase = "consumers" /\ phase' = "roots"
      /\ work' = build.roots \X {FALSE}
      /\ UNCHANGED <<build, seen, required, emit, pending, running, verdict, read>>
      /\ build \in BuildType
    BY DEF VisitRoots, Idle, IInv, TypeOK
<1>2. Met \subseteq Met' /\ build.roots \X {FALSE} \subseteq Met'
    BY <1>1 DEF Met
<1>3. running = << >> /\ pending = build.programs /\ read = {}
    BY <1>1 DEF IInv, PhaseInv
<1>4. TypeOK'
    <2>1. work' \subseteq Visits
        BY <1>1
    <2> QED BY <1>1, <2>1 DEF IInv, TypeOK
<1>5. SelfRequired' /\ VerdictInv' /\ ReadInv'
    BY <1>1 DEF IInv, SelfRequired, VerdictInv, ReadInv, ModesReadStand, ModeIn, Refused
<1>6. PhaseInv' /\ FrameInv'
    BY <1>1, <1>3 DEF PhaseInv, FrameInv
<1>7. Complete'
    <2>1. SeedsMet'
        BY <1>1, <1>2 DEF IInv, Complete, SeedsMet
    <2>2. DepsMet'
        BY <1>1, <1>2 DEF IInv, Complete, DepsMet
    <2>3. AsksMet'
        BY <1>1 DEF AsksMet
    <2> QED BY <2>1, <2>2, <2>3 DEF Complete
<1>8. Sound'
    <2> SUFFICES ASSUME NEW W \in SUBSET Visits, Closed(W)' PROVE Within(W)'
        BY DEF Sound
    <2>1. Closed(W) /\ Within(W)
        BY <1>1, SameClosed DEF IInv, Sound
    <2>2. build.roots \X {FALSE} \subseteq W
        BY <2>1 DEF Closed, Seeds
    <2> QED BY <1>1, <2>1, <2>2 DEF Within
<1> QED BY <1>4, <1>5, <1>6, <1>7, <1>8 DEF IInv

\* A phase ends when it has no program left to complete.
LEMMA NextPhaseStep == ASSUME IInv, NextPhase PROVE IInv'
<1>1. /\ verdict = "open" /\ work = {} /\ running = << >> /\ Eligible = {}
      /\ \/ phase = "roots" /\ phase' = "rooted"
         \/ phase = "rooted" /\ phase' = "unrooted"
         \/ phase = "unrooted" /\ phase' = "done"
      /\ UNCHANGED <<build, seen, required, emit, work, pending, running, verdict,
                     read>>
    BY DEF NextPhase, Idle
<1>2. Met' = Met
    BY <1>1 DEF Met
<1>3. TypeOK' /\ SelfRequired'
    BY <1>1 DEF IInv, TypeOK, SelfRequired
<1>9. VerdictInv'
    BY <1>1 DEF IInv, VerdictInv, ModeIn, Refused
<1>4. PhaseInv'
    BY <1>1 DEF IInv, PhaseInv
<1>5. FrameInv'
    BY <1>1 DEF IInv, FrameInv, PhaseInv
<1>6. ReadInv'
    <2>1. phase = "roots" => read = {}
        BY DEF IInv, PhaseInv
    <2> QED BY <1>1, <2>1 DEF IInv, ReadInv, ModesReadStand, ModeIn
<1>7. Complete'
    <2>1. SeedsMet /\ DepsMet /\ AsksMet
        BY <1>1 DEF IInv, Complete
    <2>2. SeedsMet' /\ DepsMet'
        BY <1>1, <1>2, <2>1 DEF SeedsMet, DepsMet
    <2>3. AsksMet'
        <3>1. CASE phase = "roots"
            BY <1>1, <3>1 DEF AsksMet, IInv, PhaseInv
        <3>2. CASE phase = "rooted"
            <4>1. \A t \in build.programs \cap required : t \in build.programs \ pending
                BY <1>1, <3>2 DEF Eligible
            <4>2. \A t \in build.programs \cap required :
                      \A d \in build.asks[t] \cup build.live[t] : <<d, TRUE>> \in Met
                <5> SUFFICES ASSUME NEW t \in build.programs \cap required
                             PROVE  \A d \in build.asks[t] \cup build.live[t] :
                                        <<d, TRUE>> \in Met
                    OBVIOUS
                <5>1. ~ \E i \in 1..Len(running) : running[i].key = t
                    BY <1>1
                <5>2. (\A d \in build.asks[t] : AskedOrLeft(t, d)) /\ LiveOrLeft(t)
                    BY <2>1, <3>2, <4>1 DEF AsksMet
                <5>3. \A d \in build.asks[t] : <<d, TRUE>> \in Met
                    BY <5>1, <5>2 DEF AskedOrLeft
                <5>4. \A e \in build.live[t] : <<e, TRUE>> \in Met
                    BY <5>1, <5>2 DEF LiveOrLeft
                <5> QED BY <5>3, <5>4
            <4> QED BY <1>1, <1>2, <3>2, <4>2 DEF AsksMet
        <3>3. CASE phase = "unrooted"
            BY <1>1, <1>2, <2>1, <3>3 DEF AsksMet
        <3> QED BY <1>1, <3>1, <3>2, <3>3
    <2> QED BY <2>2, <2>3 DEF Complete
<1>8. Sound'
    <2> SUFFICES ASSUME NEW W \in SUBSET Visits, Closed(W)' PROVE Within(W)'
        BY DEF Sound
    <2>1. Closed(W) /\ Within(W)
        BY <1>1, SameClosed DEF IInv, Sound
    <2> QED BY <1>1, <2>1 DEF Within
<1> QED BY <1>3, <1>4, <1>5, <1>6, <1>7, <1>8, <1>9 DEF IInv

------------------------------------------------------------------------------

\* A completion leaves the labels the walk has seen as they are.
LEMMA WalkKept ==
    ASSUME IInv, Idle, UNCHANGED <<build, seen, required, emit, phase>>
    PROVE  /\ Met \subseteq Met'
           /\ SelfRequired' /\ SeedsMet' /\ DepsMet'
           /\ (verdict' = "open" => VerdictInv')
<1>1. Met \subseteq Met'
    BY DEF Met, Idle
<1>2. SelfRequired'
    BY DEF IInv, SelfRequired
<1>3. SeedsMet /\ DepsMet
    BY DEF IInv, Complete, Idle
<1>4. SeedsMet' /\ DepsMet'
    BY <1>1, <1>3 DEF SeedsMet, DepsMet
<1>5. verdict' = "open" => VerdictInv'
    BY DEF IInv, VerdictInv, Idle, ModeIn, Refused
<1> QED BY <1>1, <1>2, <1>4, <1>5

\* A stack with one frame more, and with one frame less.
LEMMA Push ==
    ASSUME NEW s \in Seq(Frames), NEW f \in Frames
    PROVE  /\ <<f>> \o s \in Seq(Frames)
           /\ Len(<<f>> \o s) = Len(s) + 1
           /\ (<<f>> \o s)[1] = f
           /\ \A i \in 1..Len(s) : (<<f>> \o s)[i + 1] = s[i]
           /\ \A i \in 2..(Len(s) + 1) : (<<f>> \o s)[i] = s[i - 1]
OBVIOUS

LEMMA Pop ==
    ASSUME NEW s \in Seq(Frames), s # << >>
    PROVE  /\ Tail(s) \in Seq(Frames)
           /\ Len(Tail(s)) = Len(s) - 1
           /\ Head(s) = s[1] /\ Head(s) \in Frames /\ 1 \in 1..Len(s)
           /\ \A i \in 1..Len(Tail(s)) : Tail(s)[i] = s[i + 1]
           /\ \A i \in 2..Len(s) : s[i] = Tail(s)[i - 1]
<1>1. Len(s) \in Nat /\ Len(s) > 0 /\ 1 \in 1..Len(s) /\ s[1] \in Frames
    <2>1. Len(s) # 0
        BY EmptySeq
    <2>2. Len(s) \in Nat /\ (\A i \in 1..Len(s) : s[i] \in Frames)
        BY ElementOfSeq, LenProperties
    <2>3. 1 \in 1..Len(s)
        BY <2>1, <2>2
    <2> QED BY <2>1, <2>2, <2>3
<1>2. Tail(s) \in Seq(Frames) /\ Len(Tail(s)) = Len(s) - 1 /\ Head(s) = s[1]
    OBVIOUS
<1>3. \A i \in 1..(Len(s) - 1) : Tail(s)[i] = s[i + 1]
    BY <1>1
<1>4. ASSUME NEW i \in 2..Len(s) PROVE s[i] = Tail(s)[i - 1]
    <2>1. i - 1 \in 1..(Len(s) - 1) /\ (i - 1) + 1 = i
        BY <1>1
    <2> QED BY <1>3, <2>1
<1> QED BY <1>1, <1>2, <1>3, <1>4

\* A completion is under way in the middle phases only.
LEMMA Busy ==
    ASSUME IInv, running # << >> PROVE phase \in {"rooted", "unrooted"}
BY DEF IInv, PhaseInv, TypeOK

\* Where the walk is over, the rule an alias ends in is required with it.
LEMMA RequiredOwner ==
    ASSUME IInv, Idle, NEW d \in required PROVE Owners(d) \subseteq required
<1>1. required \subseteq Targets /\ required \in SUBSET Targets /\ d \in seen
    BY DEF IInv, TypeOK
<1>2. \A a \in required : build.deps[a] \subseteq required
    <2> SUFFICES ASSUME NEW a \in required, NEW e \in build.deps[a] PROVE e \in required
        OBVIOUS
    <2>1. build.deps[a] \X {TRUE} \subseteq Met
        BY DEF IInv, Complete, DepsMet, Idle, TypeOK
    <2>3. <<e, TRUE>> \in Met
        BY <2>1
    <2> QED BY <2>3 DEF Met, Idle
<1> QED BY <1>1, <1>2 DEF Owners, Chain

\* What a required program asks and depends on is in every closed set.
LEMMA AsksWithin ==
    ASSUME IInv, NEW W \in SUBSET Visits, Closed(W), Within(W),
           NEW k \in required \cap build.programs
    PROVE  \A e \in build.asks[k] \cup build.live[k] : <<e, TRUE>> \in W
<1>1. PICK v \in W : v[1] = k /\ Demanding(k, v[2])
    BY DEF Within
<1>2. Onward(v) \subseteq W
    BY DEF Closed
<1> QED BY <1>1, <1>2 DEF Onward

\* Start and Descend put a frame on the stack.
LEMMA PushStep ==
    ASSUME IInv, Idle, NEW t \in pending, phase \in {"rooted", "unrooted"},
           phase = "rooted" => t \in required,
           pending' = pending \ {t}, running' = <<Frame(t)>> \o running,
           UNCHANGED <<build, seen, required, emit, work, phase, verdict, read>>
    PROVE  IInv'
<1> DEFINE f == Frame(t)
<1>1. /\ t \in Targets /\ t \in build.programs /\ f \in Frames
      /\ running \in Seq(Frames) /\ build \in BuildType
    BY DEF IInv, TypeOK, Frame
<1>2. /\ running' \in Seq(Frames) /\ Len(running') = Len(running) + 1
      /\ running'[1] = f
      /\ \A i \in 1..Len(running) : running'[i + 1] = running[i]
      /\ \A i \in 2..Len(running') : running'[i] = running[i - 1]
    BY <1>1, Push
<1>3. /\ f.key = t /\ f.todo = build.asks[t] /\ f.asking = {}
    BY DEF Frame
<1>4. \A i \in 1..Len(running') : i = 1 \/ (i \in 2..Len(running') /\ i - 1 \in 1..Len(running))
    BY <1>1, <1>2
<1>5. \A i \in 1..Len(running) : i + 1 \in 1..Len(running')
    BY <1>1, <1>2
<1> HIDE DEF f
<1>6. TypeOK'
    <2>1. \A i \in 1..Len(running') : running'[i].key \notin pending'
        BY <1>2, <1>3, <1>4 DEF IInv, TypeOK
    <2> QED BY <1>2, <2>1 DEF IInv, TypeOK
<1>7. PhaseInv' /\ ReadInv'
    BY DEF IInv, PhaseInv, ReadInv, ModesReadStand, ModeIn
<1>8. SelfRequired' /\ VerdictInv' /\ Met \subseteq Met' /\ SeedsMet' /\ DepsMet'
    BY WalkKept DEF Idle
<1>9. FrameInv'
    <2> SUFFICES ASSUME phase = "rooted" PROVE FrameInv'
        BY DEF FrameInv
    <2>1. \A u \in build.programs \ pending' : u \in required
        BY DEF IInv, FrameInv
    <2>2. ASSUME NEW i \in 1..Len(running')
          PROVE  /\ running'[i].key \in build.programs
                 /\ running'[i].key \in required
                 /\ running'[i].todo \subseteq build.asks[running'[i].key]
                 /\ running'[i].asking \subseteq build.asks[running'[i].key]
                 /\ \A e \in running'[i].asking : <<e, TRUE>> \in Met
        <3>1. CASE i = 1
            BY <1>1, <1>2, <1>3, <3>1
        <3>2. CASE i - 1 \in 1..Len(running) /\ running'[i] = running[i - 1]
            BY <3>2 DEF IInv, FrameInv, Idle
        <3> QED BY <1>2, <1>4, <3>1, <3>2
    <2> QED BY <1>8, <2>1, <2>2 DEF FrameInv
<1>10. AsksMet'
    <2>1. AsksMet
        BY DEF IInv, Complete, Idle
    <2>2. CASE phase = "rooted"
        <3> SUFFICES ASSUME NEW u \in build.programs \ pending'
                     PROVE  (\A d \in build.asks[u] : AskedOrLeft(u, d)') /\ LiveOrLeft(u)'
            BY <2>2 DEF AsksMet
        <3>1. CASE u = t
            <4>1. 1 \in 1..Len(running')
                BY <1>1, <1>2
            <4> QED BY <1>2, <1>3, <3>1, <4>1 DEF AskedOrLeft, LiveOrLeft
        <3>2. CASE u # t
            <4>1. (\A d \in build.asks[u] : AskedOrLeft(u, d)) /\ LiveOrLeft(u)
                BY <2>1, <2>2, <3>2 DEF AsksMet
            <4>2. \A k \in 1..Len(running) : \E i \in 1..Len(running') :
                      running'[i] = running[k]
                BY <1>2, <1>5
            <4>3. \A d \in build.asks[u] : AskedOrLeft(u, d)'
                <5> SUFFICES ASSUME NEW d \in build.asks[u] PROVE AskedOrLeft(u, d)'
                    OBVIOUS
                <5>1. CASE <<d, TRUE>> \in Met
                    BY <1>8, <5>1 DEF AskedOrLeft
                <5>2. CASE \E k \in 1..Len(running) : running[k].key = u /\ d \in running[k].todo
                    BY <4>2, <5>2 DEF AskedOrLeft
                <5> QED BY <4>1, <5>1, <5>2 DEF AskedOrLeft
            <4>4. LiveOrLeft(u)'
                <5>1. CASE \A e \in build.live[u] : <<e, TRUE>> \in Met
                    BY <1>8, <5>1 DEF LiveOrLeft
                <5>2. CASE \E k \in 1..Len(running) : running[k].key = u
                    BY <4>2, <5>2 DEF LiveOrLeft
                <5> QED BY <4>1, <5>1, <5>2 DEF LiveOrLeft
            <4> QED BY <4>3, <4>4
        <3> QED BY <3>1, <3>2
    <2>3. CASE phase = "unrooted"
        BY <1>8, <2>1, <2>3 DEF AsksMet
    <2> QED BY <2>2, <2>3
<1>11. Sound'
    <2> SUFFICES ASSUME NEW W \in SUBSET Visits, Closed(W)' PROVE Within(W)'
        BY DEF Sound
    <2>1. Closed(W) /\ Within(W)
        BY SameClosed DEF IInv, Sound
    <2> QED BY <2>1 DEF Within
<1> QED BY <1>6, <1>7, <1>8, <1>9, <1>10, <1>11 DEF IInv, Complete

LEMMA StartStep == ASSUME IInv, NEW t \in Targets, Start(t) PROVE IInv'
<1>1. running' = <<Frame(t)>> \o running
    BY DEF Start
<1>2. t \in pending /\ phase \in {"rooted", "unrooted"} /\ (phase = "rooted" => t \in required)
    BY DEF Start, Eligible
<1> QED BY <1>1, <1>2, PushStep DEF Start

LEMMA DescendStep == ASSUME IInv, NEW u \in Targets, Descend(u) PROVE IInv'
<1>1. phase \in {"rooted", "unrooted"} /\ Idle /\ running # << >>
    BY Busy DEF Descend
<1>2. ASSUME phase = "rooted" PROVE u \in required
    <2>1. PICK d \in Head(running).asking : u \in Owners(d)
        BY DEF Descend
    <2>2. 1 \in 1..Len(running) /\ Head(running) = running[1]
        BY <1>1, Pop DEF IInv, TypeOK
    <2>3. <<d, TRUE>> \in Met
        BY <1>1, <1>2, <2>1, <2>2 DEF IInv, FrameInv, Idle
    <2>4. d \in required
        BY <1>1, <2>3 DEF Met, Idle
    <2> QED BY <1>1, <2>1, <2>4, RequiredOwner
<1> QED BY <1>1, <1>2, PushStep DEF Descend

\* A completion asks for an owner, and a required one is put into the walk.
LEMMA AskStep == ASSUME IInv, NEW d \in Targets, Ask(d) PROVE IInv'
<1> DEFINE old == running[1]
           new == [old EXCEPT !.todo = @ \ {d}, !.asking = {d}]
<1>1. /\ Idle /\ verdict = "open" /\ work = {} /\ running # << >>
      /\ running \in Seq(Frames) /\ phase \in {"rooted", "unrooted"}
      /\ UNCHANGED <<build, seen, required, emit, pending, phase, verdict, read>>
    BY Busy DEF Ask, Idle, IInv, TypeOK
<1>2. /\ Head(running) = old /\ old \in Frames /\ 1 \in 1..Len(running)
      /\ d \in old.todo /\ Len(running) \in Nat
    BY <1>1, Pop, LenProperties DEF Ask
<1>3. /\ new \in Frames /\ new.key = old.key /\ new.todo = old.todo \ {d}
      /\ new.asking = {d}
    BY <1>2
<1>4. running' = [running EXCEPT ![1] = new]
    BY <1>1, <1>2 DEF Ask
<1> HIDE DEF old, new
<1>5. /\ running' \in Seq(Frames) /\ Len(running') = Len(running)
      /\ running'[1] = new
      /\ \A i \in 1..Len(running) : i # 1 => running'[i] = running[i]
    <2>1. 1 \in 1..Len(running) /\ new \in Frames /\ running \in Seq(Frames)
        BY <1>1, <1>2, <1>3
    <2> QED BY <2>1, <1>4, ExceptSeq
<1>6. \A i \in 1..Len(running) : running'[i].key = running[i].key
    BY <1>3, <1>5 DEF old
<1>7. work' = IF phase = "rooted" THEN {<<e, TRUE>> : e \in {d}} ELSE {}
    BY <1>1 DEF Ask, Promote, Promoting
<1>8. TypeOK'
    <2>1. work' \subseteq Visits
        <3>1. <<d, TRUE>> \in Visits
            BY Zenon
        <3> QED BY <1>7, <3>1
    <2>2. \A i \in 1..Len(running') : running'[i].key \notin pending'
        BY <1>1, <1>5, <1>6 DEF IInv, TypeOK
    <2> QED BY <1>1, <1>5, <2>1, <2>2 DEF IInv, TypeOK
<1>9. PhaseInv' /\ ReadInv'
    BY <1>1, <1>7 DEF IInv, PhaseInv, ReadInv, ModesReadStand, ModeIn
<1>10. SelfRequired' /\ VerdictInv' /\ Met \subseteq Met' /\ SeedsMet' /\ DepsMet'
    BY <1>1, WalkKept
<1>11. phase = "rooted" => <<d, TRUE>> \in Met'
    BY <1>7 DEF Met
<1>12. FrameInv'
    <2> SUFFICES ASSUME phase = "rooted" PROVE FrameInv'
        BY <1>1 DEF FrameInv
    <2>1. /\ \A u \in build.programs \ pending : u \in required
          /\ old.key \in build.programs /\ old.key \in required
          /\ old.todo \subseteq build.asks[old.key]
        BY <1>2 DEF IInv, FrameInv, old
    <2>2. ASSUME NEW i \in 1..Len(running')
          PROVE  /\ running'[i].key \in build.programs
                 /\ running'[i].key \in required
                 /\ running'[i].todo \subseteq build.asks[running'[i].key]
                 /\ running'[i].asking \subseteq build.asks[running'[i].key]
                 /\ \A e \in running'[i].asking : <<e, TRUE>> \in Met'
        <3>1. CASE i = 1
            <4>1. /\ running'[i].key = old.key
                  /\ running'[i].todo \subseteq old.todo
                  /\ running'[i].asking = {d}
                BY <1>3, <1>5, <3>1
            <4>2. d \in old.todo
                BY <1>2
            <4> QED BY <1>11, <2>1, <4>1, <4>2, Zenon
        <3>2. CASE i # 1
            BY <1>1, <1>5, <1>10, <3>2 DEF IInv, FrameInv
        <3> QED BY <3>1, <3>2
    <2> QED BY <1>1, <2>1, <2>2 DEF FrameInv
<1>13. AsksMet'
    <2>1. AsksMet
        BY <1>1 DEF IInv, Complete
    <2>2. CASE phase = "rooted"
        <3>1. \A u, e : AskedOrLeft(u, e) => AskedOrLeft(u, e)'
            <4> SUFFICES ASSUME NEW u, NEW e, NEW k \in 1..Len(running),
                                running[k].key = u, e \in running[k].todo
                         PROVE  AskedOrLeft(u, e)'
                BY <1>10 DEF AskedOrLeft
            <4>1. CASE k = 1 /\ e = d
                BY <1>11, <2>2, <4>1 DEF AskedOrLeft
            <4>2. CASE ~(k = 1 /\ e = d)
                <5>1. running'[k].key = u /\ e \in running'[k].todo
                    BY <1>3, <1>5, <1>6, <4>2 DEF old
                <5> QED BY <1>5, <5>1 DEF AskedOrLeft
            <4> QED BY <4>1, <4>2
        <3>2. \A u : LiveOrLeft(u) => LiveOrLeft(u)'
            BY <1>1, <1>5, <1>6, <1>10 DEF LiveOrLeft
        <3> QED BY <1>1, <2>1, <2>2, <3>1, <3>2 DEF AsksMet
    <2>3. CASE phase = "unrooted"
        BY <1>1, <1>10, <2>1, <2>3 DEF AsksMet
    <2> QED BY <1>1, <2>2, <2>3
<1>14. Sound'
    <2> SUFFICES ASSUME NEW W \in SUBSET Visits, Closed(W)' PROVE Within(W)'
        BY DEF Sound
    <2>1. Closed(W) /\ Within(W)
        BY <1>1, SameClosed DEF IInv, Sound
    <2>2. phase = "rooted" => <<d, TRUE>> \in W
        <3> SUFFICES ASSUME phase = "rooted" PROVE <<d, TRUE>> \in W
            OBVIOUS
        <3>1. old.key \in required \cap build.programs /\ d \in build.asks[old.key]
            BY <1>2 DEF IInv, FrameInv, old
        <3> QED BY <2>1, <3>1, AsksWithin
    <2>3. work' \subseteq W
        BY <1>7, <2>2
    <2> QED BY <1>1, <2>1, <2>3 DEF Within
<1> QED BY <1>8, <1>9, <1>10, <1>12, <1>13, <1>14 DEF IInv, Complete

\* A completion reads the mode of an owner that is completed.
LEMMA ReadModeStep == ASSUME IInv, NEW d \in Targets, ReadMode(d) PROVE IInv'
<1> DEFINE old == running[1]
           new == [old EXCEPT !.asking = {}]
           modes == {[owner |-> u, mode |-> ModeIn(emit, u)] :
                        u \in {o \in Owners(d) : Compiler(o)}}
<1>1. /\ Idle /\ verdict = "open" /\ work = {} /\ running # << >>
      /\ running \in Seq(Frames) /\ phase \in {"rooted", "unrooted"}
      /\ UNCHANGED <<build, seen, required, emit, work, pending, phase>>
    BY Busy DEF ReadMode, Idle, IInv, TypeOK
<1>2. /\ Head(running) = old /\ old \in Frames /\ 1 \in 1..Len(running)
      /\ d \in old.asking /\ Len(running) \in Nat
    BY <1>1, Pop, LenProperties DEF ReadMode
<1>3. new \in Frames /\ new.key = old.key /\ new.todo = old.todo /\ new.asking = {}
    BY <1>2
<1>4. /\ running' = [running EXCEPT ![1] = new]
      /\ read' = read \cup modes /\ verdict' \in {"open", "unclear"}
    BY <1>1, <1>2 DEF ReadMode
<1>5. modes \subseteq Reads
    BY <1>1 DEF Owners, Chain, ModeIn, IInv, TypeOK
<1>6. \A x \in modes : x.owner \in Owners(d) /\ x.mode = ModeIn(emit, x.owner)
    OBVIOUS
<1> HIDE DEF old, new, modes
<1>7. /\ running' \in Seq(Frames) /\ Len(running') = Len(running)
      /\ running'[1] = new
      /\ \A i \in 1..Len(running) : i # 1 => running'[i] = running[i]
    BY <1>1, <1>2, <1>3, <1>4, ExceptSeq
<1>8. \A i \in 1..Len(running) : /\ running'[i].key = running[i].key
                                 /\ running'[i].todo = running[i].todo
                                 /\ running'[i].asking \subseteq running[i].asking
    BY <1>3, <1>7 DEF old
<1>9. TypeOK'
    <2>1. \A i \in 1..Len(running') : running'[i].key \notin pending'
        BY <1>1, <1>7, <1>8 DEF IInv, TypeOK
    <2> QED BY <1>1, <1>4, <1>5, <1>7, <2>1 DEF IInv, TypeOK
<1>10. PhaseInv'
    BY <1>1 DEF IInv, PhaseInv
<1>11. SelfRequired' /\ VerdictInv' /\ Met \subseteq Met' /\ SeedsMet' /\ DepsMet'
    BY <1>1, <1>4, WalkKept DEF VerdictInv
<1>12. FrameInv'
    <2> SUFFICES ASSUME phase = "rooted" PROVE FrameInv'
        BY <1>1 DEF FrameInv
    <2> QED BY <1>1, <1>7, <1>8, <1>11 DEF IInv, FrameInv
<1>13. ReadInv'
    <2>1. phase = "rooted" => Owners(d) \subseteq required
        <3> SUFFICES ASSUME phase = "rooted" PROVE Owners(d) \subseteq required
            OBVIOUS
        <3>1. <<d, TRUE>> \in Met
            BY <1>1, <1>2 DEF IInv, FrameInv, old
        <3>2. d \in required
            BY <1>1, <3>1 DEF Met
        <3> QED BY <1>1, <3>2, RequiredOwner
    <2>2. \A x \in read' : x.mode = ModeIn(emit, x.owner)
        BY <1>4, <1>6 DEF IInv, ReadInv, ModesReadStand
    <2>3. phase = "rooted" => \A x \in read' : x.owner \in required
        BY <1>4, <1>6, <2>1 DEF IInv, ReadInv
    <2> QED BY <1>1, <2>2, <2>3 DEF ReadInv, ModesReadStand, ModeIn
<1>14. AsksMet'
    <2>1. AsksMet
        BY <1>1 DEF IInv, Complete
    <2>2. \A u, e : AskedOrLeft(u, e) => AskedOrLeft(u, e)'
        BY <1>7, <1>8, <1>11 DEF AskedOrLeft
    <2>3. \A u : LiveOrLeft(u) => LiveOrLeft(u)'
        BY <1>1, <1>7, <1>8, <1>11 DEF LiveOrLeft
    <2> QED BY <1>1, <1>11, <2>1, <2>2, <2>3 DEF AsksMet
<1>15. Sound'
    <2> SUFFICES ASSUME NEW W \in SUBSET Visits, Closed(W)' PROVE Within(W)'
        BY DEF Sound
    <2>1. Closed(W) /\ Within(W)
        BY <1>1, SameClosed DEF IInv, Sound
    <2> QED BY <1>1, <2>1 DEF Within
<1> QED BY <1>9, <1>10, <1>11, <1>12, <1>13, <1>14, <1>15 DEF IInv, Complete

\* A completion ends, and a required one puts its rule's dependencies into
\* the walk.
LEMMA FinishStep == ASSUME IInv, Finish PROVE IInv'
<1> DEFINE old == running[1]
           dep == build.live[old.key]
<1>1. /\ Idle /\ verdict = "open" /\ work = {} /\ running # << >>
      /\ running \in Seq(Frames) /\ phase \in {"rooted", "unrooted"}
      /\ running' = Tail(running)
      /\ UNCHANGED <<build, seen, required, emit, pending, phase, verdict, read>>
    BY Busy DEF Finish, Idle, IInv, TypeOK
<1>2. /\ Head(running) = old /\ old \in Frames /\ 1 \in 1..Len(running)
      /\ old.todo = {} /\ Len(running) \in Nat
    BY <1>1, Pop, LenProperties DEF Finish
<1>3. /\ running' \in Seq(Frames) /\ Len(running') = Len(running) - 1
      /\ \A i \in 1..Len(running') : running'[i] = running[i + 1]
      /\ \A i \in 2..Len(running) : running[i] = running'[i - 1]
    BY <1>1, Pop
<1>4. /\ \A i \in 1..Len(running') : i + 1 \in 1..Len(running)
      /\ \A i \in 1..Len(running) : i = 1 \/ (i - 1 \in 1..Len(running') /\ i \in 2..Len(running))
    BY <1>2, <1>3
<1>5. work' = IF phase = "rooted" THEN {<<e, TRUE>> : e \in dep} ELSE {}
    BY <1>1, <1>2 DEF Finish, Promote, Promoting
<1>6. build \in BuildType /\ dep \subseteq Targets
    BY <1>2 DEF IInv, TypeOK
<1> HIDE DEF old, dep
<1>7. TypeOK'
    <2>1. work' \subseteq Visits
        <3>1. \A e \in dep : <<e, TRUE>> \in Visits
            BY <1>6, Zenon
        <3> QED BY <1>5, <3>1
    <2>2. \A i \in 1..Len(running') : running'[i].key \notin pending'
        BY <1>1, <1>3, <1>4 DEF IInv, TypeOK
    <2> QED BY <1>1, <1>3, <2>1, <2>2 DEF IInv, TypeOK
<1>8. PhaseInv' /\ ReadInv'
    BY <1>1, <1>5 DEF IInv, PhaseInv, ReadInv, ModesReadStand, ModeIn
<1>9. SelfRequired' /\ VerdictInv' /\ Met \subseteq Met' /\ SeedsMet' /\ DepsMet'
    BY <1>1, WalkKept
<1>10. FrameInv'
    <2> SUFFICES ASSUME phase = "rooted" PROVE FrameInv'
        BY <1>1 DEF FrameInv
    <2> QED BY <1>1, <1>3, <1>4, <1>9 DEF IInv, FrameInv
<1>11. phase = "rooted" => \A e \in dep : <<e, TRUE>> \in Met'
    BY <1>5 DEF Met
<1>12. AsksMet'
    <2>1. AsksMet
        BY <1>1 DEF IInv, Complete
    <2>2. CASE phase = "rooted"
        <3>1. ASSUME NEW u, NEW e, AskedOrLeft(u, e) PROVE AskedOrLeft(u, e)'
            <4>1. CASE <<e, TRUE>> \in Met
                BY <1>9, <4>1 DEF AskedOrLeft
            <4>2. ASSUME NEW k \in 1..Len(running), running[k].key = u, e \in running[k].todo
                  PROVE  AskedOrLeft(u, e)'
                <5>1. k # 1
                    BY <1>2, <4>2 DEF old
                <5> QED BY <1>3, <1>4, <4>2, <5>1 DEF AskedOrLeft
            <4> QED BY <3>1, <4>1, <4>2 DEF AskedOrLeft
        <3>2. ASSUME NEW u, LiveOrLeft(u) PROVE LiveOrLeft(u)'
            <4>1. CASE \A e \in build.live[u] : <<e, TRUE>> \in Met
                BY <1>1, <1>9, <4>1 DEF LiveOrLeft
            <4>2. ASSUME NEW k \in 1..Len(running), running[k].key = u
                  PROVE  LiveOrLeft(u)'
                <5>1. CASE k = 1
                    BY <1>1, <1>11, <2>2, <4>2, <5>1 DEF LiveOrLeft, old, dep
                <5>2. CASE k # 1
                    BY <1>3, <1>4, <4>2, <5>2 DEF LiveOrLeft
                <5> QED BY <5>1, <5>2
            <4> QED BY <3>2, <4>1, <4>2 DEF LiveOrLeft
        <3> QED BY <1>1, <2>1, <2>2, <3>1, <3>2 DEF AsksMet
    <2>3. CASE phase = "unrooted"
        BY <1>1, <1>9, <2>1, <2>3 DEF AsksMet
    <2> QED BY <1>1, <2>2, <2>3
<1>13. Sound'
    <2> SUFFICES ASSUME NEW W \in SUBSET Visits, Closed(W)' PROVE Within(W)'
        BY DEF Sound
    <2>1. Closed(W) /\ Within(W)
        BY <1>1, SameClosed DEF IInv, Sound
    <2>2. phase = "rooted" => \A e \in dep : <<e, TRUE>> \in W
        <3> SUFFICES ASSUME phase = "rooted" PROVE \A e \in dep : <<e, TRUE>> \in W
            OBVIOUS
        <3>1. old.key \in required \cap build.programs
            BY <1>2 DEF IInv, FrameInv, old
        <3> QED BY <2>1, <3>1, AsksWithin DEF dep
    <2>3. work' \subseteq W
        BY <1>5, <2>2
    <2> QED BY <1>1, <2>1, <2>3 DEF Within
<1> QED BY <1>7, <1>8, <1>9, <1>10, <1>12, <1>13 DEF IInv, Complete

------------------------------------------------------------------------------

LEMMA InitInv == Init => IInv
<1> SUFFICES ASSUME Init PROVE IInv
    OBVIOUS
<1> USE DEF Init
<1>1. build \in BuildType /\ (\A t \in build.programs : build.kind[t] = "compiler")
    BY BuildsAssumption
<1>2. TypeOK
    <2>1. ASSUME NEW t \in build.consumers PROVE <<t, t \in build.written>> \in Visits
        <3>1. t \in Targets
            BY <1>1
        <3>2. (t \in build.written) \in BOOLEAN
            OBVIOUS
        <3> QED BY <3>1, <3>2, Zenon
    <2>2. work \subseteq Visits
        BY <2>1
    <2> QED BY <1>1, <2>2 DEF TypeOK
<1>3. SelfRequired /\ PhaseInv /\ FrameInv
    BY DEF SelfRequired, PhaseInv, FrameInv
<1>4. Complete
    BY DEF Complete, SeedsMet, DepsMet, AsksMet, Met
<1>5. Sound
    BY DEF Sound, Within, Closed, Seeds
<1>6. VerdictInv /\ ReadInv
    BY DEF VerdictInv, ReadInv, ModesReadStand
<1> QED BY <1>2, <1>3, <1>4, <1>5, <1>6 DEF IInv

LEMMA NextInv == IInv /\ [Next]_vars => IInv'
<1> SUFFICES ASSUME IInv, [Next]_vars PROVE IInv'
    OBVIOUS
<1>1. ASSUME NEW t \in Targets, NEW req \in BOOLEAN, Visit(t, req) PROVE IInv'
    BY <1>1, VisitStep
<1>2. ASSUME VisitRoots PROVE IInv'
    BY <1>2, VisitRootsStep
<1>3. ASSUME NextPhase PROVE IInv'
    BY <1>3, NextPhaseStep
<1>4. ASSUME NEW t \in Targets, Start(t) \/ Ask(t) \/ Descend(t) \/ ReadMode(t) PROVE IInv'
    BY <1>4, StartStep, AskStep, DescendStep, ReadModeStep
<1>5. ASSUME Finish PROVE IInv'
    BY <1>5, FinishStep
<1>6. CASE UNCHANGED vars
    <2>1. /\ UNCHANGED <<build, seen, required, emit, work, pending, running>>
          /\ UNCHANGED <<phase, verdict, read>>
        BY <1>6 DEF vars
    <2>2. Met' = Met
        BY <2>1 DEF Met
    <2>3. TypeOK' /\ SelfRequired' /\ PhaseInv'
        BY <2>1 DEF IInv, TypeOK, SelfRequired, PhaseInv
    <2>4. FrameInv'
        BY <2>1, <2>2 DEF IInv, FrameInv
    <2>5. SeedsMet' <=> SeedsMet
        BY <2>1, <2>2 DEF SeedsMet
    <2>6. DepsMet' <=> DepsMet
        BY <2>1, <2>2 DEF DepsMet
    <2>7. AsksMet' <=> AsksMet
        BY <2>1, <2>2 DEF AsksMet, AskedOrLeft, LiveOrLeft
    <2>8. Sound'
        <3> SUFFICES ASSUME NEW W \in SUBSET Visits, Closed(W)' PROVE Within(W)'
            BY DEF Sound
        <3>1. Closed(W) /\ Within(W)
            BY <2>1, SameClosed DEF IInv, Sound
        <3> QED BY <2>1, <3>1 DEF Within
    <2>9. VerdictInv' /\ ReadInv'
        BY <2>1 DEF IInv, VerdictInv, ReadInv, ModesReadStand, ModeIn, Refused
    <2> QED BY <2>1, <2>3, <2>4, <2>5, <2>6, <2>7, <2>8, <2>9 DEF IInv, Complete
<1> QED BY <1>1, <1>2, <1>3, <1>4, <1>5, <1>6 DEF Next, Stop

\* What the run requires is demanded: the walk stays within every closed set.
LEMMA RequiredIsDemanded == IInv => required \subseteq Demanded
BY DEF IInv, TypeOK, Sound, Within, Demanded

\* And once it is done its visits are a closed set themselves.
LEMMA DoneIsClosed == IInv /\ phase = "done" => required = Demanded
<1> SUFFICES ASSUME IInv, phase = "done" PROVE Demanded \subseteq required
    BY RequiredIsDemanded
<1>1. /\ verdict = "open" /\ work = {}
      /\ SeedsMet /\ DepsMet /\ AsksMet
      /\ build \in BuildType /\ required \subseteq seen /\ seen \subseteq Targets
    BY DEF IInv, PhaseInv, Complete, TypeOK
<1> DEFINE W0 == {v \in Visits : v[1] \in seen /\ (v[2] => v[1] \in required)}
<1>2. Met = W0
    BY <1>1 DEF Met
<1>3. \A v \in W0 : Demanding(v[1], v[2]) => v[1] \in required
    BY DEF IInv, SelfRequired
<1>4. Seeds \subseteq W0
    BY <1>1, <1>2 DEF SeedsMet, Seeds
<1>5. ASSUME NEW v \in W0 PROVE Onward(v) \subseteq W0
    <2>1. v[1] \in seen /\ v[1] \in Targets
        BY <1>1
    <2>2. CASE Demanding(v[1], v[2])
        <3>1. v[1] \in required
            BY <1>3, <2>2
        <3>2. build.deps[v[1]] \X {TRUE} \subseteq W0
            BY <1>1, <1>2, <2>1, <3>1 DEF DepsMet
        <3>3. v[1] \in build.programs =>
                 \A d \in build.asks[v[1]] \cup build.live[v[1]] : <<d, TRUE>> \in W0
            BY <1>1, <1>2, <3>1 DEF AsksMet
        <3> HIDE DEF W0
        <3> QED BY <2>2, <3>2, <3>3 DEF Onward
    <2>3. CASE ~Demanding(v[1], v[2])
        <3>1. build.deps[v[1]] \X {FALSE} \subseteq W0
            <4>1. CASE v[1] \notin required
                BY <1>1, <1>2, <2>1, <4>1 DEF DepsMet
            <4>2. CASE v[1] \in required
                <5>1. build.deps[v[1]] \X {TRUE} \subseteq W0
                    BY <1>1, <1>2, <2>1, <4>2 DEF DepsMet
                <5>2. \A d \in build.deps[v[1]] : <<d, TRUE>> \in W0
                    BY <5>1
                <5>3. \A d \in build.deps[v[1]] : <<d, FALSE>> \in W0
                    BY <5>2
                <5> QED BY <5>3
            <4> QED BY <4>1, <4>2
        <3> HIDE DEF W0
        <3> QED BY <2>3, <3>1 DEF Onward
    <2> QED BY <2>2, <2>3
<1>6. Closed(W0) /\ W0 \in SUBSET Visits
    BY <1>4, <1>5 DEF Closed
<1>7. ASSUME NEW t \in Demanded PROVE t \in required
    <2>1. \E v \in W0 : v[1] = t /\ Demanding(t, v[2])
        BY <1>6 DEF Demanded
    <2> QED BY <1>3, <2>1
<1> QED BY <1>7

LEMMA InvOrderFree == IInv => OrderFree
<1> SUFFICES ASSUME IInv, phase = "done"
             PROVE  required = Demanded /\ emit = {t \in Demanded : Managed(t)}
    BY DEF OrderFree
<1>1. required = Demanded
    BY DoneIsClosed
<1> QED BY <1>1 DEF IInv, SelfRequired

LEMMA InvPublished == IInv => PublishedClosure
<1> SUFFICES ASSUME IInv PROVE PublishedClosure
    OBVIOUS
<1>1. ASSUME phase = "done" PROVE \A t \in Demanded : ~Refused(emit, t)
    BY <1>1, DoneIsClosed DEF IInv, PhaseInv, VerdictInv
<1>2. ASSUME verdict = "refused"
      PROVE  \E t \in Demanded : Refused({u \in Demanded : Managed(u)}, t)
    <2>1. PICK t \in required : Refused(emit, t)
        BY <1>2 DEF IInv, VerdictInv
    <2>2. t \in Demanded /\ (t \in emit <=> Managed(t))
        BY RequiredIsDemanded DEF IInv, SelfRequired
    <2>3. Refused({u \in Demanded : Managed(u)}, t)
        BY <2>1, <2>2 DEF Refused, ModeIn
    <2> QED BY <2>2, <2>3
<1> QED BY <1>1, <1>2 DEF PublishedClosure

\* Every variable keeps its type, whatever graph the update starts from.
THEOREM TypeCorrect == Spec => []TypeOK
<1>1. IInv => TypeOK
    BY DEF IInv
<1> QED BY <1>1, InitInv, NextInv, PTL DEF Spec

\* A mode a completion has read stands until the BUILD files are written,
\* whatever the graph and the order of the walk.
THEOREM ModesStand == Spec => []ModesReadStand
<1>1. IInv => ModesReadStand
    BY DEF IInv, ReadInv
<1> QED BY <1>1, InitInv, NextInv, PTL DEF Spec

\* The rules a finished update publishes are a function of the graph: those in
\* every closed set of visits.
THEOREM OrderIndependent == Spec => []OrderFree
BY InitInv, NextInv, InvOrderFree, PTL DEF Spec

\* A finished update demands nothing that cannot publish, and a refused one
\* was refused for something the graph demands.
THEOREM ClosurePublished == Spec => []PublishedClosure
BY InitInv, NextInv, InvPublished, PTL DEF Spec

------------------------------------------------------------------------------
(* Minimize.                                                                *)

USE DEF Source, Scope, CompilerInput, Absent, Unasked

------------------------------------------------------------------------------
(* The supply grows with the set of dependencies.                            *)

LEMMA ProgramsGrow ==
    ASSUME NEW D, NEW E, D \subseteq E
    PROVE  ProgramsOf(D) \subseteq ProgramsOf(E)
BY DEF ProgramsOf

LEMMA FilesGrow ==
    ASSUME NEW D, NEW E, D \subseteq E
    PROVE  FilesOf(D) \subseteq FilesOf(E) /\ Counted(D) \subseteq Counted(E)
BY ProgramsGrow DEF FilesOf, Counted

LEMMA TargetsGrow ==
    ASSUME NEW D, NEW E, D \subseteq E
    PROVE  TargetsOf(D) \subseteq TargetsOf(E)
BY DEF TargetsOf

LEMMA ReachGrows ==
    ASSUME NEW D, NEW E, D \subseteq E, NEW stop
    PROVE  Reach(D, stop) \subseteq Reach(E, {})
BY ProgramsGrow DEF Reach

LEMMA UnsuppliedShrinks ==
    ASSUME NEW d, NEW T, NEW U, T \subseteq U, NEW F, NEW G, F \subseteq G,
           Unsupplied(d, U, G)
    PROVE  Unsupplied(d, T, F)
BY DEF Unsupplied, EdgeSupplied

LEMMA RetainedShrinks ==
    ASSUME NEW d, NEW D, NEW E, D \subseteq E,
           Unsupplied(d, TargetsOf(E), Counted(E))
    PROVE  Unsupplied(d, TargetsOf(D), Counted(D))
BY FilesGrow, TargetsGrow, UnsuppliedShrinks

------------------------------------------------------------------------------
(* Without an edge that reads a claimable scope, the exact supply and the    *)
(* counted one judge alike.                                                  *)

LEMMA SuppliesAgree ==
    ASSUME ClaimsFree, NEW d \in input.deps, NEW D, NEW roles, NEW T
    PROVE  Unsupplied(d, T, SourcesOf(D, roles)) <=> Unsupplied(d, T, Counted(D))
<1>1. ASSUME NEW f, f \notin Wanted \/ f \in input.roots
      PROVE  f \in SourcesOf(D, roles) <=> f \in Counted(D)
  <2>1. f \in Counted(D) => f \in Files
    BY DEF Counted, FilesOf, Provided, Borrowed
  <2> QED BY <1>1, <2>1 DEF SourcesOf, Counted
<1>2. ASSUME NEW e \in input.edges[d]
      PROVE  /\ e[1] \in SourcesOf(D, roles) <=> e[1] \in Counted(D)
             /\ e[2] \in SourcesOf(D, roles) <=> e[2] \in Counted(D)
  BY <1>1 DEF ClaimsFree
<1>3. ASSUME NEW e \in input.edges[d]
      PROVE  EdgeSupplied(d, e, SourcesOf(D, roles))
               <=> EdgeSupplied(d, e, Counted(D))
  BY <1>2 DEF EdgeSupplied
<1> QED BY <1>3 DEF Unsupplied

------------------------------------------------------------------------------
(* The inductive invariant.                                                  *)

Missing(D) == \E d \in input.deps \ D : Unsupplied(d, TargetsOf(D), Counted(D))

SupplyInv ==
    supply.on => /\ ClaimsFree
                 /\ ProgramsOf(retained) \subseteq called
                 /\ supply.blocked <=> Missing(retained)

WalkInv == walkComplete => Reach(retained, {}) \subseteq called

\* What was tried and stays is needed by something.
NeededInv ==
    ClaimsFree => \A c \in retained \ todo : Missing(retained \ {c})

MinimizeInv ==
    /\ input \in InputType
    /\ MinimizeTypeOK
    /\ SupplyInv /\ WalkInv
    /\ DroppedAreSupplied
    /\ NeededInv

------------------------------------------------------------------------------
(* A round over the fixed supply.                                            *)

LEMMA CurrentSupply ==
    ASSUME MinimizeInv, Current.on
    PROVE  /\ ClaimsFree
           /\ ProgramsOf(retained) \subseteq called
           /\ Current.blocked <=> Missing(retained)
           /\ Current.indexed = input.deps \ retained
BY DEF MinimizeInv, MinimizeTypeOK, SupplyInv, Current, NewSupply, AllAsked, Blocked, Missing

\* The affected dependencies are all that can have lost their supply.
LEMMA DropsExactly ==
    ASSUME MinimizeInv, Current.on, NEW c \in retained, retained \subseteq input.deps
    PROVE  Drops(c, Current) <=> ~Missing(retained \ {c})
<1> DEFINE rest == retained \ {c}
<1>1. /\ Current.blocked <=> Missing(retained)
      /\ Current.indexed = input.deps \ retained
  BY CurrentSupply
<1>2. rest \subseteq retained /\ input.deps \ rest = (input.deps \ retained) \cup {c}
  OBVIOUS
<1>3. ASSUME ~Missing(rest) PROVE Drops(c, Current)
  <2>1. ~Missing(retained)
    BY <1>2, <1>3, RetainedShrinks DEF Missing
  <2>2. Affected(c, Current.indexed) \subseteq input.deps \ rest
    BY <1>1, <1>2 DEF Affected
  <2> QED BY <1>1, <1>3, <2>1, <2>2 DEF Drops, Missing
<1>4. ASSUME Drops(c, Current) PROVE ~Missing(rest)
  <2>1. ~Missing(retained)
    BY <1>1, <1>4 DEF Drops
  <2>2. SUFFICES ASSUME NEW d \in input.deps \ rest,
                        Unsupplied(d, TargetsOf(rest), Counted(rest))
                 PROVE  FALSE
    BY DEF Missing
  <2>3. d \notin Affected(c, Current.indexed)
    BY <1>4, <2>2 DEF Drops
  <2>4. d # c /\ d \in input.deps \ retained
    BY <1>2, <2>2, <2>3 DEF Affected
  <2>5. /\ Read(d) \cap (FilesOf(retained) \ FilesOf(rest)) = {}
        /\ input.key[d] \notin TargetsOf(retained) \ TargetsOf(rest)
    BY <1>1, <2>3, <2>4 DEF Affected
  <2>6. ~Unsupplied(d, TargetsOf(retained), Counted(retained))
    BY <2>1, <2>4 DEF Missing
  <2>7. ASSUME NEW e \in input.edges[d] PROVE EdgeSupplied(d, e, Counted(rest))
    <3>1. EdgeSupplied(d, e, Counted(retained))
      BY <2>6 DEF Unsupplied
    <3>2. e[1] \in Read(d)
      BY DEF Read
    <3>3. \/ d \in input.static \/ e[2] \in input.npm
          \/ e[2] \in input.declaration \cup input.json \/ e[2] \in Read(d)
      BY DEF Read
    <3>4. \A f \in Read(d) : f \in Counted(retained) => f \in Counted(rest)
      BY <2>5 DEF Counted
    <3> QED BY <3>1, <3>2, <3>3, <3>4 DEF EdgeSupplied
  <2>8. d \notin input.unconditional /\ input.key[d] \in TargetsOf(rest)
    BY <2>5, <2>6 DEF Unsupplied
  <2> QED BY <2>2, <2>7, <2>8 DEF Unsupplied
<1> QED BY <1>3, <1>4

\* With nothing for the walk to say, or nobody left to ask, such a round is one
\* of the exact minimisation.
LEMMA FixedIsExact ==
    ASSUME MinimizeInv, NEW c, TryFixed(c)
    PROVE  TryExact(c)
<1> DEFINE rest == retained \ {c}
<1>1. /\ c \in retained /\ retained \subseteq input.deps
      /\ input \in InputType
  BY DEF TryFixed, Candidate, MinimizeInv, MinimizeTypeOK
<1>2. /\ Current.on /\ ClaimsFree /\ ProgramsOf(retained) \subseteq called
      /\ ~WalksWithout(c) \/ WalkSettled
  BY CurrentSupply DEF TryFixed
<1>3. PICK W \in Walks(rest) : W \subseteq called
  <2>1. CASE Unclaimed(rest) = {}
    BY <2>1 DEF Walks
  <2>2. CASE Unclaimed(rest) # {}
    <3>1. Reach(retained, {}) \subseteq called
      BY <1>2, <2>2 DEF WalksWithout, WalkSettled, MinimizeInv, WalkInv
    <3>2. Reach(rest, {input.self}) \subseteq Reach(retained, {})
      BY ReachGrows
    <3>3. Reach(rest, {input.self}) \in Walks(rest)
      BY <2>2 DEF Walks
    <3> QED BY <3>1, <3>2, <3>3
  <2> QED BY <2>1, <2>2
<1>4. PICK roles : roles \in Roles(rest, W)
  <2> DEFINE claimer(f) == CHOOSE k \in W : f \in Claims(k)
             r == [f \in Unclaimed(rest) |->
                     IF \E k \in W : f \in Claims(k)
                     THEN input.inputs[claimer(f)][f] ELSE Absent]
  <2>1. W \subseteq Programs
    BY <1>3 DEF Walks, Reach
  <2>2. input.inputs \in [Programs -> [Files -> Source..Absent]]
    BY <1>1 DEF InputType
  <2>3. Unclaimed(rest) \subseteq Files
    BY DEF Unclaimed, Wanted
  <2>4. ASSUME NEW f \in Unclaimed(rest), \E k \in W : f \in Claims(k)
        PROVE  /\ claimer(f) \in W /\ f \in Claims(claimer(f))
               /\ input.inputs[claimer(f)][f] \in Source..Absent
    <3>1. claimer(f) \in W /\ f \in Claims(claimer(f))
      BY <2>4
    <3> HIDE DEF claimer
    <3> QED BY <2>1, <2>2, <2>3, <3>1
  <2>5. Absent \in Source..Absent
    OBVIOUS
  <2>6. r \in Roles(rest, W)
    <3> HIDE DEF claimer
    <3>1. r \in [Unclaimed(rest) -> Source..Absent]
      BY <2>4, <2>5
    <3>2. ASSUME NEW f \in Unclaimed(rest)
          PROVE  IF \E k \in W : f \in Claims(k)
                 THEN \E k \in W : f \in Claims(k) /\ r[f] = input.inputs[k][f]
                 ELSE r[f] = Absent
      BY <2>4
    <3> QED BY <3>1, <3>2 DEF Roles
  <2> QED BY <2>6
<1>5. called' = called \cup ProgramsOf(rest) \cup W
  <2>1. ProgramsOf(rest) \subseteq called
    BY <1>2, ProgramsGrow
  <2> QED BY <1>3, <2>1 DEF TryFixed
<1>6. (\E d \in input.deps \ rest :
          Unsupplied(d, TargetsOf(rest), SourcesOf(rest, roles))) <=> Missing(rest)
  BY <1>2, SuppliesAgree DEF Missing
<1>7. retained' = IF Missing(rest) THEN retained ELSE rest
  BY <1>1, <1>2, DropsExactly DEF TryFixed
<1> QED BY <1>3, <1>4, <1>5, <1>6, <1>7 DEF TryExact, TryFixed

------------------------------------------------------------------------------
(* The consumer does not change, and what was missing stays missing.         *)

LEMMA MissingGrows ==
    ASSUME NEW D, NEW E, D \subseteq E, Missing(E)
    PROVE  Missing(D)
BY RetainedShrinks DEF Missing

LEMMA OrderStands ==
    ASSUME input' = input
    PROVE  ClaimsFree' <=> ClaimsFree
BY DEF ClaimsFree, Wanted

\* The supply of the dependencies after a round, seen from before it.
LEMMA SupplyStands ==
    ASSUME input' = input, NEW R, retained' = R, NEW X
    PROVE  /\ FilesOf(retained \ X)' = FilesOf(R \ X)
           /\ TargetsOf(retained \ X)' = TargetsOf(R \ X)
           /\ FilesOf(retained)' = FilesOf(R)
           /\ TargetsOf(retained)' = TargetsOf(R)
<1>1. \A k : Provided(k)' = Provided(k) /\ Borrowed(k)' = Borrowed(k)
  BY DEF Provided, Borrowed
<1>2. /\ ProgramsOf(retained \ X)' = ProgramsOf(R \ X)
      /\ ProgramsOf(retained)' = ProgramsOf(R)
  BY DEF ProgramsOf
<1>3. /\ FilesOf(retained \ X)' = FilesOf(R \ X)
      /\ FilesOf(retained)' = FilesOf(R)
  BY <1>1, <1>2 DEF FilesOf
<1>4. /\ TargetsOf(retained \ X)' = TargetsOf(R \ X)
      /\ TargetsOf(retained)' = TargetsOf(R)
  BY <1>1 DEF TargetsOf
<1> QED BY <1>3, <1>4

LEMMA MissingStands ==
    ASSUME input' = input, NEW R, retained' = R, NEW X
    PROVE  /\ Missing(retained \ X)' <=> Missing(R \ X)
           /\ Missing(retained)' <=> Missing(R)
<1>1. /\ Counted(retained \ X)' = Counted(R \ X)
      /\ TargetsOf(retained \ X)' = TargetsOf(R \ X)
      /\ Counted(retained)' = Counted(R)
      /\ TargetsOf(retained)' = TargetsOf(R)
  BY SupplyStands DEF Counted
<1>2. ASSUME NEW d
      PROVE  /\ Unsupplied(d, TargetsOf(retained \ X), Counted(retained \ X))'
                   <=> Unsupplied(d, TargetsOf(R \ X), Counted(R \ X))
             /\ Unsupplied(d, TargetsOf(retained), Counted(retained))'
                   <=> Unsupplied(d, TargetsOf(R), Counted(R))
  BY <1>1 DEF Unsupplied, EdgeSupplied
<1> QED BY <1>2 DEF Missing

LEMMA ReachStands ==
    ASSUME input' = input, retained' \subseteq retained
    PROVE  Reach(retained, {})' \subseteq Reach(retained, {})
<1>1. ProgramsOf(retained)' \subseteq ProgramsOf(retained)
  BY DEF ProgramsOf
<1> QED BY <1>1 DEF Reach

------------------------------------------------------------------------------
(* Every round keeps the invariant.                                          *)

\* A round that judges c by the counted supply of the others.
Judged(c) ==
    retained' = IF Missing(retained \ {c}) THEN retained ELSE retained \ {c}

LEMMA RoundKeeps ==
    ASSUME MinimizeInv, ClaimsFree, NEW c \in todo, input' = input,
           todo' = todo \ {c}, Judged(c)
    PROVE  /\ ~Missing(retained)'
           /\ \A x \in (retained \ todo)' : Missing(retained \ {x})'
<1> DEFINE R == IF Missing(retained \ {c}) THEN retained ELSE retained \ {c}
<1>1. retained' = R /\ R \subseteq retained
  BY DEF Judged
<1>2. ~Missing(R)
  <2>1. ~Missing(retained)
    BY DEF MinimizeInv, DroppedAreSupplied, Missing
  <2> QED BY <2>1
<1>3. ASSUME NEW x \in R \ (todo \ {c}) PROVE Missing(R \ {x})
  <2>1. CASE x = c
    BY <2>1, <1>3
  <2>2. CASE x # c
    <3>1. Missing(retained \ {x})
      BY <2>2, <1>1, <1>3 DEF MinimizeInv, NeededInv
    <3>2. R \ {x} \subseteq retained \ {x}
      BY <1>1
    <3> HIDE DEF R
    <3> QED BY <3>1, <3>2, MissingGrows
  <2> QED BY <2>1, <2>2
<1> HIDE DEF R
<1>4. ~Missing(retained)'
  BY <1>1, <1>2, MissingStands
<1>5. ASSUME NEW x \in (retained \ todo)' PROVE Missing(retained \ {x})'
  <2>1. x \in R \ (todo \ {c})
    BY <1>1
  <2>2. Missing(retained \ {x})' <=> Missing(R \ {x})
    BY <1>1, MissingStands
  <2> QED BY <1>3, <2>1, <2>2
<1> QED BY <1>4, <1>5

LEMMA FixedKeeps ==
    ASSUME MinimizeInv, NEW c, TryFixed(c)
    PROVE  MinimizeInv'
<1>1. /\ c \in todo /\ c \in retained /\ retained \subseteq input.deps
      /\ todo \subseteq retained /\ input' = input /\ called' = called
      /\ todo' = todo \ {c} /\ Current.on
  BY DEF TryFixed, Candidate, MinimizeInv, MinimizeTypeOK
<1>2. /\ ClaimsFree
      /\ ProgramsOf(retained) \subseteq called
      /\ Current.blocked <=> Missing(retained)
      /\ Current.indexed = input.deps \ retained
  BY <1>1, CurrentSupply
<1>3. Drops(c, Current) <=> ~Missing(retained \ {c})
  BY <1>1, DropsExactly
<1>4. Judged(c)
  BY <1>3 DEF TryFixed, Judged
<1>5. /\ ~Missing(retained)'
      /\ \A x \in (retained \ todo)' : Missing(retained \ {x})'
  BY <1>1, <1>2, <1>4, RoundKeeps
<1>6. ClaimsFree'
  BY <1>1, <1>2, OrderStands
<1>7. retained' \subseteq retained
  BY <1>4 DEF Judged
<1>8. Current \in [on : BOOLEAN, blocked : BOOLEAN, indexed : SUBSET Labels]
  <2>1. input.deps \subseteq Labels
    BY DEF MinimizeInv, InputType
  <2> QED BY <1>1, <2>1 DEF Current, NewSupply, Blocked, MinimizeInv, MinimizeTypeOK
<1>9. /\ supply' \in [on : BOOLEAN, blocked : BOOLEAN, indexed : SUBSET Labels]
      /\ supply'.indexed = input.deps \ retained'
      /\ supply'.blocked = Current.blocked
  <2>1. c \in Labels
    BY <1>1 DEF MinimizeInv, InputType
  <2>2. CASE Drops(c, Current)
    BY <1>1, <1>2, <1>8, <2>1, <2>2 DEF TryFixed
  <2>3. CASE ~Drops(c, Current)
    BY <1>1, <1>2, <1>8, <2>3 DEF TryFixed
  <2> QED BY <2>2, <2>3
<1>10. MinimizeTypeOK'
  <2>1. walkComplete' \in BOOLEAN
    BY DEF TryFixed, MinimizeInv, MinimizeTypeOK
  <2>2. retained' \subseteq input.deps /\ todo' \subseteq retained'
    BY <1>1, <1>7, <1>4 DEF Judged
  <2> QED BY <1>1, <1>9, <2>1, <2>2 DEF MinimizeInv, MinimizeTypeOK
<1>11. SupplyInv'
  <2>1. ~Current.blocked
    BY <1>2 DEF MinimizeInv, DroppedAreSupplied, Missing
  <2>2. ProgramsOf(retained)' \subseteq called'
    BY <1>1, <1>2, <1>7 DEF ProgramsOf
  <2> QED BY <1>5, <1>6, <1>8, <1>9, <2>1, <2>2 DEF SupplyInv
<1>12. WalkInv'
  <2>1. ASSUME walkComplete' PROVE Reach(retained, {}) \subseteq called
    BY <2>1 DEF TryFixed, MinimizeInv, WalkInv, WalkSettled
  <2> QED BY <1>1, <1>7, <2>1, ReachStands DEF WalkInv
<1>13. (input \in InputType)'
  BY <1>1 DEF MinimizeInv, InputType
<1>14. DroppedAreSupplied' /\ NeededInv'
  BY <1>5 DEF DroppedAreSupplied, NeededInv, Missing
<1> QED BY <1>10, <1>11, <1>12, <1>13, <1>14 DEF MinimizeInv

LEMMA ExactKeeps ==
    ASSUME MinimizeInv, NEW c, TryAgain(c)
    PROVE  MinimizeInv'
<1>1. /\ c \in todo /\ todo \subseteq retained /\ retained \subseteq input.deps
      /\ input' = input /\ todo' = todo \ {c} /\ supply' = NoSupply
      /\ walkComplete' = walkComplete
  BY DEF TryAgain, TryExact, Candidate, MinimizeInv, MinimizeTypeOK
<1> DEFINE rest == retained \ {c}
<1>0. PICK W \in Walks(rest) : \E roles \in Roles(rest, W) :
        /\ called' = called \cup ProgramsOf(rest) \cup W
        /\ retained' =
              IF \E d \in input.deps \ rest :
                    Unsupplied(d, TargetsOf(rest), SourcesOf(rest, roles))
              THEN retained ELSE rest
  BY DEF TryAgain, TryExact
<1>2. PICK roles \in Roles(rest, W) :
        /\ called' = called \cup ProgramsOf(rest) \cup W
        /\ retained' =
              IF \E d \in input.deps \ rest :
                    Unsupplied(d, TargetsOf(rest), SourcesOf(rest, roles))
              THEN retained ELSE rest
  BY <1>0
<1>3. ClaimsFree => Judged(c)
  <2>1. ClaimsFree => (Missing(rest) <=>
          \E d \in input.deps \ rest :
             Unsupplied(d, TargetsOf(rest), SourcesOf(rest, roles)))
    BY SuppliesAgree DEF Missing
  <2> QED BY <1>2, <2>1 DEF Judged
<1>4. ClaimsFree => /\ ~Missing(retained)'
                   /\ \A x \in (retained \ todo)' : Missing(retained \ {x})'
  BY <1>1, <1>3, RoundKeeps
<1>5. ClaimsFree' <=> ClaimsFree
  BY <1>1, OrderStands
<1>6. retained' \subseteq retained /\ rest \subseteq retained'
  BY <1>2
<1>7. W \subseteq Programs /\ ProgramsOf(rest) \subseteq Programs
  <2>1. rest \subseteq Labels /\ input.program \in [Labels -> Programs \cup {None}]
    BY <1>1 DEF MinimizeInv, InputType
  <2> QED BY <2>1 DEF Walks, Reach, ProgramsOf
<1>8. MinimizeTypeOK'
  BY <1>1, <1>2, <1>6, <1>7 DEF MinimizeInv, MinimizeTypeOK, NoSupply
<1>9. SupplyInv'
  BY <1>1 DEF SupplyInv, NoSupply
<1>10. WalkInv'
  BY <1>1, <1>2, <1>6, ReachStands DEF MinimizeInv, WalkInv
<1>11. (input \in InputType)'
  BY <1>1 DEF MinimizeInv, InputType
<1>12. DroppedAreSupplied' /\ NeededInv'
  BY <1>4, <1>5 DEF DroppedAreSupplied, NeededInv, Missing
<1> QED BY <1>8, <1>9, <1>10, <1>11, <1>12 DEF MinimizeInv

LEMMA InitKeeps == MinimizeInit => MinimizeInv
<1> SUFFICES ASSUME MinimizeInit PROVE MinimizeInv
  OBVIOUS
<1>1. input \in InputType
  BY InputsAssumption DEF MinimizeInit
<1>2. retained \ todo = {} /\ input.deps \ retained = {}
  BY DEF MinimizeInit, MinimizeStart
<1> QED BY <1>1, <1>2 DEF MinimizeInit, MinimizeStart, NoSupply, MinimizeInv, MinimizeTypeOK, SupplyInv, WalkInv,
                       DroppedAreSupplied, NeededInv

LEMMA StutterKeeps == ASSUME MinimizeInv, UNCHANGED minimizeVars PROVE MinimizeInv'
<1>1. /\ input' = input /\ retained' = retained /\ todo' = todo
      /\ called' = called /\ supply' = supply /\ walkComplete' = walkComplete
  BY DEF minimizeVars
<1>2. /\ Missing(retained)' <=> Missing(retained)
      /\ \A x : Missing(retained \ {x})' <=> Missing(retained \ {x})
      /\ ClaimsFree' <=> ClaimsFree
  BY <1>1, MissingStands, OrderStands
<1>3. ProgramsOf(retained)' \subseteq ProgramsOf(retained)
      /\ Reach(retained, {})' \subseteq Reach(retained, {})
  BY <1>1, ReachStands DEF ProgramsOf
<1>4. (input \in InputType)' /\ MinimizeTypeOK'
  BY <1>1 DEF MinimizeInv, MinimizeTypeOK, InputType
<1>5. SupplyInv' /\ WalkInv'
  BY <1>1, <1>2, <1>3 DEF MinimizeInv, SupplyInv, WalkInv
<1>6. DroppedAreSupplied' /\ NeededInv'
  BY <1>1, <1>2 DEF MinimizeInv, DroppedAreSupplied, NeededInv, Missing
<1> QED BY <1>4, <1>5, <1>6 DEF MinimizeInv

THEOREM Invariance == MinimizeSpec => []MinimizeInv
<1>1. ASSUME MinimizeInv, [MinimizeNext]_minimizeVars PROVE MinimizeInv'
  <2>1. ASSUME NEW c \in Labels, TryFixed(c) PROVE MinimizeInv'
    BY <1>1, <2>1, FixedKeeps
  <2>2. ASSUME NEW c \in Labels, TryAgain(c) PROVE MinimizeInv'
    BY <1>1, <2>2, ExactKeeps
  <2>3. CASE UNCHANGED minimizeVars
    BY <1>1, <2>3, StutterKeeps
  <2> QED BY <1>1, <2>1, <2>2, <2>3 DEF MinimizeNext
<1> QED BY <1>1, InitKeeps, PTL DEF MinimizeSpec

------------------------------------------------------------------------------

(* The index of a fixed supply is always that of the dropped dependencies.   *)
THEOREM MinimizeTypes == MinimizeSpec => []MinimizeTypeOK
BY Invariance, PTL DEF MinimizeInv

(* A dropped dependency is supplied by those that stay (drop in              *)
(* gazelle/resolve.go looks at the affected ones only).                      *)
THEOREM DroppedStaySupplied == MinimizeSpec => []DroppedAreSupplied
BY Invariance, PTL DEF MinimizeInv

(* In the end every dependency that stays is needed.                         *)
THEOREM NoneIsRedundant == MinimizeSpec => []Irredundant
<1>1. MinimizeInv => Irredundant
  BY DEF MinimizeInv, NeededInv, Irredundant, Missing, Tried, MinimizeTypeOK
<1> QED BY <1>1, Invariance, PTL

\* The abstract module reads the same supply.
LEMMA SameSupply ==
    /\ \A D : Exact!ProgramsOf(D) = ProgramsOf(D)
    /\ \A D : Exact!FilesOf(D) = FilesOf(D)
    /\ \A D : Exact!TargetsOf(D) = TargetsOf(D)
    /\ \A D : Exact!Unclaimed(D) = Unclaimed(D)
    /\ \A k : Exact!Claims(k) = Claims(k)
<1>1. \A D : Exact!ProgramsOf(D) = ProgramsOf(D)
  BY DEF Exact!ProgramsOf, ProgramsOf
<1>2. \A k : /\ Exact!Claims(k) = Claims(k)
             /\ Exact!Provided(k) = Provided(k)
             /\ Exact!Borrowed(k) = Borrowed(k)
  BY DEF Exact!Claims, Claims, Exact!Provided, Provided, Exact!Borrowed, Borrowed,
         Exact!Source
<1>3. \A D : Exact!FilesOf(D) = FilesOf(D)
  BY <1>1, <1>2 DEF Exact!FilesOf, FilesOf
<1>4. \A D : Exact!TargetsOf(D) = TargetsOf(D)
  BY <1>2 DEF Exact!TargetsOf, TargetsOf
<1>5. \A D : Exact!Unclaimed(D) = Unclaimed(D)
  BY <1>1, <1>2 DEF Exact!Unclaimed, Unclaimed, Exact!Wanted, Wanted,
                    Exact!Unasked
<1> QED BY <1>1, <1>2, <1>3, <1>4, <1>5

LEMMA SameWalks ==
    ASSUME NEW D
    PROVE  /\ Exact!Walks(D) = Walks(D)
           /\ \A W : Exact!Roles(D, W) = Roles(D, W)
           /\ \A r : Exact!SourcesOf(D, r) = SourcesOf(D, r)
<1>1. \A stop : Exact!Reach(D, stop) = Reach(D, stop)
  BY SameSupply DEF Exact!Reach, Reach
<1>2. Exact!Walks(D) = Walks(D)
  <2>1. CASE Unclaimed(D) = {}
    BY <2>1, SameSupply DEF Exact!Walks, Walks
  <2>2. CASE Unclaimed(D) # {}
    <3>1. ASSUME NEW W PROVE W \in Exact!Walks(D) <=> W \in Walks(D)
      BY <1>1, <2>2, SameSupply DEF Exact!Walks, Walks
    <3> QED BY <2>2, <3>1, SameSupply DEF Exact!Walks, Walks
  <2> QED BY <2>1, <2>2
<1>3. \A W : Exact!Roles(D, W) = Roles(D, W)
  BY SameSupply DEF Exact!Roles, Roles, Exact!Source, Exact!Absent
<1>4. \A f : Exact!FirstClaim(D, f) = FirstClaim(D, f)
  BY SameSupply DEF Exact!FirstClaim, FirstClaim
<1>5. \A r : Exact!SourcesOf(D, r) = SourcesOf(D, r)
  BY <1>4, SameSupply DEF Exact!SourcesOf, SourcesOf, Exact!Wanted, Wanted,
                          Exact!Source, Exact!Unasked
<1> QED BY <1>2, <1>3, <1>5

LEMMA SameRound ==
    ASSUME NEW c, Candidate(c), TryExact(c)
    PROVE  Exact!Try(c)
<1>1. \A d, T, F : Exact!Unsupplied(d, T, F) <=> Unsupplied(d, T, F)
  BY DEF Exact!Unsupplied, Unsupplied, Exact!EdgeSupplied, EdgeSupplied
<1> DEFINE rest == retained \ {c}
<1>2. PICK W \in Walks(rest) : \E roles \in Roles(rest, W) :
        /\ called' = called \cup ProgramsOf(rest) \cup W
        /\ retained' =
              IF \E d \in input.deps \ rest :
                    Unsupplied(d, TargetsOf(rest), SourcesOf(rest, roles))
              THEN retained ELSE rest
  BY DEF TryExact
<1>3. PICK roles \in Roles(rest, W) :
        /\ called' = called \cup ProgramsOf(rest) \cup W
        /\ retained' =
              IF \E d \in input.deps \ rest :
                    Unsupplied(d, TargetsOf(rest), SourcesOf(rest, roles))
              THEN retained ELSE rest
  BY <1>2
<1>4. W \in Exact!Walks(rest) /\ roles \in Exact!Roles(rest, W)
  BY SameWalks
<1>5. called' = called \cup Exact!ProgramsOf(rest) \cup W
  BY <1>3, SameSupply
<1>6. (\E d \in input.deps \ rest :
          Exact!Unsupplied(d, Exact!TargetsOf(rest), Exact!SourcesOf(rest, roles)))
      <=> \E d \in input.deps \ rest :
             Unsupplied(d, TargetsOf(rest), SourcesOf(rest, roles))
  BY <1>1, SameSupply, SameWalks
<1>7. Exact!TryExact(c)
  BY <1>3, <1>4, <1>5, <1>6 DEF TryExact, Exact!TryExact
<1> QED BY <1>7 DEF Exact!Try, Exact!Candidate, Candidate

(* minimizeDependencies over the fixed supply implements the exact one.      *)
THEOREM FixedImplementsExact == MinimizeSpec => ImplementsExact
<1>1. MinimizeInit => Exact!Init
  BY DEF MinimizeInit, MinimizeStart, Exact!Init, Exact!MinimizeStart
<1>2. ASSUME MinimizeInv, [MinimizeNext]_minimizeVars PROVE [Exact!Next]_(Exact!vars)
  <2>1. ASSUME NEW c \in Labels, TryFixed(c) PROVE Exact!Next
    <3>1. TryExact(c)
      BY <1>2, <2>1, FixedIsExact
    <3> QED BY <2>1, <3>1, SameRound DEF TryFixed, Exact!Next
  <2>2. ASSUME NEW c \in Labels, TryAgain(c) PROVE Exact!Next
    BY <2>2, SameRound DEF TryAgain, Exact!Next
  <2>3. CASE UNCHANGED minimizeVars
    BY <2>3 DEF minimizeVars, Exact!vars
  <2> QED BY <1>2, <2>1, <2>2, <2>3 DEF MinimizeNext
<1> QED BY <1>1, <1>2, Invariance, PTL DEF MinimizeSpec, ImplementsExact, Exact!Spec

===============================================================================
