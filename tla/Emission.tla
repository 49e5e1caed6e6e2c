------------------------------- MODULE Emission -------------------------------
(***************************************************************************)
(* What Gazelle publishes as JavaScript (AfterResolvingDeps and visit in   *)
(* gazelle/emission.go, the pending completions of gazelle/language.go).    *)
(*                                                                         *)
(* A walk from the binaries and Node tests of an update, and from the      *)
(* owners of package.json outputs, gives emit = True to every compiler rule *)
(* the update writes and refuses a rule that cannot publish.  The programs  *)
(* of the visited rules are then completed.  A completion asks the owners   *)
(* of the files its program reads in which mode they publish, completes    *)
(* first an owner that is still pending, and may add owners to the walk.    *)
(*                                                                         *)
(* The labels to visit are a set: the source goes depth first, from Go maps *)
(* whose order is random, and no action here waits for more of the order    *)
(* than the source does.                                                    *)
(***************************************************************************)
EXTENDS Naturals, Sequences

CONSTANTS
    Targets,    \* labels
    Builds      \* the BUILD graphs the update may start from

Kinds == {"compiler",   \* ts_compile, ts_test
          "proto",      \* ts_proto_library
          "alias",
          "other"}      \* what forwards, consumes, or is not known
Modes == {"source", "emitted", "unknown"}

BuildType ==
    [kind      : [Targets -> Kinds],
     written   : SUBSET Targets,     \* in a package of the update, not kept
     pinned    : SUBSET Targets,     \* the emit attribute is kept
     mode      : [Targets -> Modes], \* emit as the BUILD file has it
     raw       : SUBSET Targets,     \* sources TypeScript, or not known
     vague     : SUBSET Targets,     \* an expression among the dependencies
     deps      : [Targets -> SUBSET Targets],
     programs  : SUBSET Targets,     \* rules with a program to complete
     asks      : [Targets -> SUBSET Targets],   \* owners the program reads
     live      : [Targets -> SUBSET Targets],   \* deps once it is completed
     consumers : SUBSET Targets,     \* ts_binary, or ts_test run by Node
     roots     : SUBSET Targets]     \* owners of package.json outputs

ASSUME BuildsAssumption ==
    \A b \in Builds :
        /\ b \in BuildType
        /\ \A t \in b.programs : b.kind[t] = "compiler" /\ t \in b.written

VARIABLES
    build,     \* the graph: what the source reads of rules and files
    seen,      \* labels visited
    required,  \* those a consumer of the update requires
    emit,      \* rules given emit = True
    work,      \* visits not yet made: <<label, is it required>>
    pending,   \* completePrograms
    running,   \* completions under way, the innermost first
    phase,
    verdict,   \* "refused" and "unclear" are log.Fatalf
    read       \* history: the modes completions have read

vars == <<build, seen, required, emit, work, pending, running, phase, verdict,
          read>>

Frames == [key : Targets, todo : SUBSET Targets, asking : SUBSET Targets]
Reads  == [owner : Targets, mode : Modes]
Visits == Targets \X BOOLEAN
Phases == {"consumers", "roots", "rooted", "unrooted", "done"}

TypeOK ==
    /\ build \in BuildType
    /\ seen \subseteq Targets
    /\ required \subseteq seen
    /\ emit \subseteq Targets
    /\ work \subseteq Visits
    /\ pending \subseteq build.programs
    /\ running \in Seq(Frames)
    /\ \A i \in 1..Len(running) : running[i].key \notin pending
    /\ phase \in Phases
    /\ verdict \in {"open", "refused", "unclear"}
    /\ read \subseteq Reads

Compiler(t) == build.kind[t] = "compiler"

\* A rule the update writes is itself the consumer that requires it.
Demanding(t, req) == req \/ (Compiler(t) /\ t \in build.written)

Managed(t) == Compiler(t) /\ t \in build.written /\ t \notin build.pinned

\* ruleEmission of a rule, given those that were given emit = True.
ModeIn(given, t) == IF t \in given THEN "emitted" ELSE build.mode[t]

\* A required rule that cannot establish what it publishes.
Refused(given, t) ==
    \/ build.kind[t] = "proto"
    \/ Compiler(t) /\ ModeIn(given, t) # "emitted" /\ t \in build.raw
    \/ t \in build.vague

\* The dependencies in the rule now: a completion rewrites them.
Completed(t) ==
    /\ t \in build.programs \ pending
    /\ \A i \in 1..Len(running) : running[i].key # t
DepsNow(t) == IF Completed(t) THEN build.live[t] ELSE build.deps[t]

\* ruleTarget: the rule a chain of aliases ends in, or none.
Chain(t) ==
    {u \in Targets : \A S \in SUBSET Targets :
        (/\ t \in S
         /\ \A a \in S : build.kind[a] = "alias" => build.deps[a] \subseteq S)
        => u \in S}
Owners(t) == {u \in Chain(t) : build.kind[u] # "alias"}

Init ==
    /\ build \in Builds
    /\ seen = {} /\ required = {} /\ emit = {}
    /\ work = {<<t, t \in build.written>> : t \in build.consumers}
    /\ pending = build.programs
    /\ running = << >>
    /\ phase = "consumers"
    /\ verdict = "open"
    /\ read = {}

------------------------------------------------------------------------------

\* visit: a label seen before is visited again only to require it.
VisitOnce(t, req) ==
    /\ verdict = "open"
    /\ <<t, req>> \in work
    /\ IF t \in seen
       THEN /\ work' = work \ {<<t, req>>}
            /\ UNCHANGED <<seen, required, emit, verdict>>
       ELSE LET now   == Demanding(t, req)
                given == IF Managed(t) THEN emit \cup {t} ELSE emit
            IN  /\ seen' = seen \cup {t}
                /\ required' = IF now THEN required \cup {t} ELSE required
                /\ emit' = given
                /\ IF now /\ Refused(given, t)
                   THEN verdict' = "refused" /\ UNCHANGED work
                   ELSE /\ work' = (work \ {<<t, req>>})
                                     \cup (DepsNow(t) \X {now})
                        /\ UNCHANGED verdict
    /\ UNCHANGED <<build, pending, running, phase, read>>

VisitRequired(t, req) ==
    /\ verdict = "open"
    /\ <<t, req>> \in work
    /\ IF t \in seen /\ ~req
       THEN /\ work' = work \ {<<t, req>>}
            /\ UNCHANGED <<seen, required, emit, verdict>>
       ELSE LET now   == Demanding(t, req)
                given == IF Managed(t) THEN emit \cup {t} ELSE emit
            IN  /\ seen' = seen \cup {t}
                /\ required' = IF now THEN required \cup {t} ELSE required
                /\ emit' = given
                /\ IF now /\ Refused(given, t)
                   THEN verdict' = "refused" /\ UNCHANGED work
                   ELSE /\ work' = (work \ {<<t, req>>})
                                     \cup (DepsNow(t) \X {now})
                        /\ UNCHANGED verdict
    /\ UNCHANGED <<build, pending, running, phase, read>>

Visit(t, req) ==
    /\ verdict = "open"
    /\ <<t, req>> \in work
    /\ IF t \in seen /\ (t \in required \/ ~req)
       THEN /\ work' = work \ {<<t, req>>}
            /\ UNCHANGED <<seen, required, emit, verdict>>
       ELSE LET now   == Demanding(t, req)
                given == IF Managed(t) THEN emit \cup {t} ELSE emit
            IN  /\ seen' = seen \cup {t}
                /\ required' = IF now THEN required \cup {t} ELSE required
                /\ emit' = given
                /\ IF now /\ Refused(given, t)
                   THEN verdict' = "refused" /\ UNCHANGED work
                   ELSE /\ work' = (work \ {<<t, req>>})
                                     \cup (DepsNow(t) \X {now})
                        /\ UNCHANGED verdict
    /\ UNCHANGED <<build, pending, running, phase, read>>

\* The walk is over; what asked for it goes on.
Idle == verdict = "open" /\ work = {}

VisitRoots ==
    /\ Idle /\ phase = "consumers"
    /\ work' = build.roots \X {FALSE}
    /\ phase' = "roots"
    /\ UNCHANGED <<build, seen, required, emit, pending, running, verdict, read>>

\* Programs a consumer requires come first: they may add to the walk.
Eligible == IF phase = "rooted" THEN pending \cap required
            ELSE IF phase = "unrooted" THEN pending ELSE {}

NextPhase ==
    /\ Idle /\ running = << >> /\ Eligible = {}
    /\ \/ phase = "roots"    /\ phase' = "rooted"
       \/ phase = "rooted"   /\ phase' = "unrooted"
       \/ phase = "unrooted" /\ phase' = "done"
    /\ UNCHANGED <<build, seen, required, emit, work, pending, running, verdict,
                   read>>

Frame(t) == [key |-> t, todo |-> build.asks[t], asking |-> {}]

StartAny(t) ==
    /\ Idle /\ running = << >> /\ phase \in {"rooted", "unrooted"}
    /\ t \in pending
    /\ pending' = pending \ {t}
    /\ running' = <<Frame(t)>>
    /\ UNCHANGED <<build, seen, required, emit, work, phase, verdict, read>>

Start(t) ==
    /\ Idle /\ running = << >>
    /\ t \in Eligible
    /\ pending' = pending \ {t}
    /\ running' = <<Frame(t)>>
    /\ UNCHANGED <<build, seen, required, emit, work, phase, verdict, read>>

\* Promotion exists in the first loop only, for nested completions too.
Promoting == phase = "rooted"
Promote(ts) == IF Promoting THEN {<<t, TRUE>> : t \in ts} ELSE {}

\* sourceOwner: require the owner, then complete it if it is pending.
AskBare(d) ==
    /\ Idle /\ running # << >>
    /\ d \in Head(running).todo /\ Head(running).asking = {}
    /\ running' = [running EXCEPT ![1].todo = @ \ {d}, ![1].asking = {d}]
    /\ UNCHANGED <<build, seen, required, emit, work, pending, phase, verdict,
                   read>>

Ask(d) ==
    /\ Idle /\ running # << >>
    /\ d \in Head(running).todo /\ Head(running).asking = {}
    /\ work' = Promote({d})
    /\ running' = [running EXCEPT ![1].todo = @ \ {d}, ![1].asking = {d}]
    /\ UNCHANGED <<build, seen, required, emit, pending, phase, verdict, read>>

Descend(u) ==
    /\ Idle /\ running # << >>
    /\ \E d \in Head(running).asking : u \in Owners(d)
    /\ u \in pending
    /\ pending' = pending \ {u}
    /\ running' = <<Frame(u)>> \o running
    /\ UNCHANGED <<build, seen, required, emit, work, phase, verdict, read>>

\* ... and read its mode.  One that is an expression stops the update if the
\* program reads an implementation there, and not if it reads a declaration.
ReadMode(d) ==
    /\ Idle /\ running # << >>
    /\ d \in Head(running).asking
    /\ Owners(d) \cap pending = {}
    /\ LET modes == {[owner |-> u, mode |-> ModeIn(emit, u)] :
                        u \in {o \in Owners(d) : Compiler(o)}}
       IN  /\ read' = read \cup modes
           /\ \/ UNCHANGED verdict
              \/ /\ \E x \in modes : x.mode = "unknown"
                 /\ verdict' = "unclear"
    /\ running' = [running EXCEPT ![1].asking = {}]
    /\ UNCHANGED <<build, seen, required, emit, work, pending, phase>>

\* The rule is merged; its dependencies are required with it.
Finish ==
    /\ Idle /\ running # << >>
    /\ Head(running).todo = {} /\ Head(running).asking = {}
    /\ work' = Promote(build.live[Head(running).key])
    /\ running' = Tail(running)
    /\ UNCHANGED <<build, seen, required, emit, pending, phase, verdict, read>>

Settled == phase = "done" \/ verdict # "open"
Stop == Settled /\ UNCHANGED vars

Next ==
    \/ \E t \in Targets, req \in BOOLEAN : Visit(t, req)
    \/ VisitRoots
    \/ NextPhase
    \/ \E t \in Targets : Start(t) \/ Ask(t) \/ Descend(t) \/ ReadMode(t)
    \/ Finish
    \/ Stop

Spec == Init /\ [][Next]_vars

------------------------------------------------------------------------------

(* A mode a completion has read is the mode of that owner until the end: the *)
(* closure it chose from it (sources of an unpublished owner, or the         *)
(* declarations of a published one) is right for the file that is written.   *)
ModesReadStand == \A x \in read : ModeIn(emit, x.owner) = x.mode

\* The visits a run must make: those in every set that has the seeds and that
\* a visit, and the completion of a required program, do not leave.
Seeds ==
    {<<t, t \in build.written>> : t \in build.consumers}
        \cup (build.roots \X {FALSE})
Onward(v) ==
    LET t == v[1]  now == Demanding(v[1], v[2])
    IN  (build.deps[t] \X {now})
          \cup (IF now /\ t \in build.programs
                THEN {<<d, TRUE>> : d \in build.asks[t] \cup build.live[t]}
                ELSE {})
Closed(W) == Seeds \subseteq W /\ \A v \in W : Onward(v) \subseteq W
Demanded ==
    {t \in Targets : \A W \in SUBSET Visits :
        Closed(W) => \E v \in W : v[1] = t /\ Demanding(t, v[2])}

(* Whatever order the maps are walked in, the run publishes the managed      *)
(* compiler rules among the demanded ones and no other.                      *)
OrderFree ==
    phase = "done" => /\ required = Demanded
                      /\ emit = {t \in Demanded : Managed(t)}

(* Every demanded rule of a run that goes through can publish, or needs no   *)
(* transformation; and a run is refused for a demanded rule only.            *)
PublishedClosure ==
    /\ phase = "done" => \A t \in Demanded : ~Refused(emit, t)
    /\ verdict = "refused" =>
          \E t \in Demanded : Refused({u \in Demanded : Managed(u)}, t)

(* Cycles among rules, aliases and programs do not keep the update going.    *)
Terminates == <>Settled

=============================================================================
