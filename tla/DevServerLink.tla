---------------------------- MODULE DevServerLink ----------------------------
(***************************************************************************)
(* The life of a `bazel run` dev-server launcher (tools/launcher): it      *)
(* links <workspace>/node_modules to the importer's tree, starts the       *)
(* server, stands between it and the signals the launcher receives, and    *)
(* removes the link it owns when the server has ended.                     *)
(*                                                                         *)
(* Several launchers of one workspace meet at one path.  Everything they   *)
(* know of each other is what Readlink and Lstat tell them of that path.   *)
(* A signal reaches a launcher at any moment: between signal.Notify and    *)
(* signal.Stop it is queued, outside of them it ends the process.          *)
(***************************************************************************)
EXTENDS Naturals, Sequences

CONSTANTS
    Launchers,  \* dev-server targets, each run any number of times
    Trees,      \* the node_modules trees those targets name
    Want,       \* Want[l] is the tree of l's importer
    Dumps,      \* launchers run in dump mode, which prints the plan
    Signals,    \* the signals launchers receive
    Capacity    \* room in the channel given to signal.Notify

ASSUME WantAssumption == Want \in [Launchers -> Trees]
ASSUME DumpsAssumption == Dumps \subseteq Launchers
ASSUME CapacityAssumption == Capacity \in Nat

\* The signals Supervise asks for.
Forwarded == {"HUP", "INT", "QUIT", "TERM", "USR1", "USR2", "WINCH", "CONT"}

\* KILL stands for what no process can ask for.
ASSUME SignalsAssumption == Signals \subseteq Forwarded \cup {"KILL"}

Absent  == "absent"     \* nothing at <workspace>/node_modules
Install == "install"    \* a directory there, such as a pnpm install

ASSUME TreesAssumption == Absent \notin Trees /\ Install \notin Trees

VARIABLES
    link,         \* what is at <workspace>/node_modules
    pc,           \* how far each launcher is
    owned,        \* the link is in the launcher's plan.cleanup
    queue,        \* the sigs channel
    child,        \* the server process
    interrupted,  \* Supervise's local of that name
    received,     \* history: the signals that entered the channel
    sent,         \* history: the signals the server was sent
    code          \* the exit status, or the signal the launcher died of

vars == <<link, pc, owned, queue, child, interrupted, received, sent, code>>

Ended     == {"off", "done", "refused", "killed"}
Listening == {"armed", "serving"}                     \* inside Notify ... Stop
Active    == {"lstat", "symlink", "planned", "closing"} \cup Listening

\* The plan has been made and has not been cleaned up.
Holding == {"planned", "closing"} \cup Listening

Interrupts == {"INT", "HUP"}

\* Without a handler these end a Go program; it takes no notice of the others.
Deadly == {"HUP", "INT", "QUIT", "TERM", "KILL"}

TypeOK ==
    /\ link \in Trees \cup {Absent, Install}
    /\ pc \in [Launchers -> Active \cup Ended]
    /\ owned \in [Launchers -> BOOLEAN]
    /\ queue \in [Launchers -> Seq(Forwarded)]
    /\ \A l \in Launchers : Len(queue[l]) <= Capacity
    /\ child \in [Launchers -> {"none", "running", "gone"}]
    /\ interrupted \in [Launchers -> BOOLEAN]
    /\ received \in [Launchers -> SUBSET Forwarded]
    /\ sent \in [Launchers -> SUBSET Forwarded]
    /\ code \in [Launchers -> {"unset", "zero", "nonzero"} \cup Signals]

\* The path may hold an install, or a link an earlier launcher left.
Init ==
    /\ link \in Trees \cup {Absent, Install}
    /\ pc = [l \in Launchers |-> "off"]
    /\ owned = [l \in Launchers |-> FALSE]
    /\ queue = [l \in Launchers |-> <<>>]
    /\ child = [l \in Launchers |-> "none"]
    /\ interrupted = [l \in Launchers |-> FALSE]
    /\ received = [l \in Launchers |-> {}]
    /\ sent = [l \in Launchers |-> {}]
    /\ code = [l \in Launchers |-> "unset"]

Alive(l) == child[l] = "running"

Goto(l, place) == pc' = [pc EXCEPT ![l] = place]

-----------------------------------------------------------------------------
(* anchorNodeModules: three system calls, with anything in between. *)

\* Variant: any link serves, whichever tree it leads to.
ReadlinkUnchecked(l) ==
    /\ pc[l] \in Ended
    /\ ~Alive(l)
    /\ Goto(l, IF link \in Trees THEN "planned" ELSE "lstat")
    /\ owned' = [owned EXCEPT ![l] = FALSE]
    /\ queue' = [queue EXCEPT ![l] = <<>>]
    /\ child' = [child EXCEPT ![l] = "none"]
    /\ interrupted' = [interrupted EXCEPT ![l] = FALSE]
    /\ received' = [received EXCEPT ![l] = {}]
    /\ sent' = [sent EXCEPT ![l] = {}]
    /\ code' = [code EXCEPT ![l] = "unset"]
    /\ UNCHANGED link

\* A new process of l's target starts and reads the link.
Readlink(l) ==
    /\ pc[l] \in Ended
    /\ ~Alive(l)
    /\ Goto(l, IF link = Want[l] THEN "planned"
               ELSE IF link \in Trees THEN "refused"
               ELSE "lstat")
    /\ owned' = [owned EXCEPT ![l] = FALSE]
    /\ queue' = [queue EXCEPT ![l] = <<>>]
    /\ child' = [child EXCEPT ![l] = "none"]
    /\ interrupted' = [interrupted EXCEPT ![l] = FALSE]
    /\ received' = [received EXCEPT ![l] = {}]
    /\ sent' = [sent EXCEPT ![l] = {}]
    /\ code' = [code EXCEPT ![l] = "unset"]
    /\ UNCHANGED link

Lstat(l) ==
    /\ pc[l] = "lstat"
    /\ Goto(l, IF link = Absent THEN "symlink" ELSE "refused")
    /\ UNCHANGED <<link, owned, queue, child, interrupted, received, sent, code>>

\* Variant (as linkAs of plan.go): a failed link is taken for a made one.
SymlinkUnchecked(l) ==
    /\ pc[l] = "symlink"
    /\ link' = IF link = Absent THEN Want[l] ELSE link
    /\ owned' = [owned EXCEPT ![l] = TRUE]
    /\ Goto(l, "planned")
    /\ UNCHANGED <<queue, child, interrupted, received, sent, code>>

\* os.Symlink fails when the path came to exist, and then nothing is owned.
Symlink(l) ==
    /\ pc[l] = "symlink"
    /\ IF link = Absent
       THEN /\ link' = Want[l]
            /\ owned' = [owned EXCEPT ![l] = TRUE]
            /\ Goto(l, "planned")
       ELSE /\ Goto(l, "refused")
            /\ UNCHANGED <<link, owned>>
    /\ UNCHANGED <<queue, child, interrupted, received, sent, code>>

-----------------------------------------------------------------------------
(* Run and Supervise *)

Close(l, status) ==
    /\ Goto(l, "closing")
    /\ code' = [code EXCEPT ![l] = status]

\* A dump prints the plan and cleans up; Run gives up when Chdir fails.
Leave(l) ==
    /\ pc[l] = "planned"
    /\ IF l \in Dumps THEN Close(l, "zero") ELSE Close(l, "nonzero")
    /\ UNCHANGED <<link, owned, queue, child, interrupted, received, sent>>

Notify(l) ==
    /\ pc[l] = "planned"
    /\ l \notin Dumps
    /\ Goto(l, "armed")
    /\ UNCHANGED <<link, owned, queue, child, interrupted, received, sent, code>>

\* cmd.Start, whose failure returns through signal.Stop.
Start(l) ==
    /\ pc[l] = "armed"
    /\ \/ /\ Goto(l, "serving")
          /\ child' = [child EXCEPT ![l] = "running"]
          /\ UNCHANGED code
       \/ /\ Close(l, "nonzero")
          /\ UNCHANGED child
    /\ UNCHANGED <<link, owned, queue, interrupted, received, sent>>

\* A signal to a server that has ended goes nowhere.
Send(l, s) ==
    sent' = IF Alive(l) THEN [sent EXCEPT ![l] = @ \cup {s}] ELSE sent

\* TerminateOnInterrupt: the server is not left to its own handling of Ctrl-C.
Forward(l, s) == Send(l, IF s \in Interrupts THEN "TERM" ELSE s)

\* Variant: IgnoreTerm is left out of the loop.
HandleTerm(l) ==
    /\ pc[l] = "serving"
    /\ queue[l] # <<>>
    /\ queue' = [queue EXCEPT ![l] = Tail(@)]
    /\ interrupted' = [interrupted EXCEPT ![l] = @ \/ Head(queue[l]) \in Interrupts]
    /\ Forward(l, Head(queue[l]))
    /\ UNCHANGED <<link, pc, owned, child, received, code>>

\* One turn of the select loop on a signal: TERM is dropped, an interrupt is
\* sent on as TERM, anything else is sent on as it is, Ctrl-\ included.
Handle(l) ==
    /\ pc[l] = "serving"
    /\ queue[l] # <<>>
    /\ queue' = [queue EXCEPT ![l] = Tail(@)]
    /\ IF Head(queue[l]) = "TERM"
       THEN UNCHANGED <<interrupted, sent>>
       ELSE /\ interrupted' = [interrupted EXCEPT ![l] = @ \/ Head(queue[l]) \in Interrupts]
            /\ Forward(l, Head(queue[l]))
    /\ UNCHANGED <<link, pc, owned, child, received, code>>

\* The other arm of the select, which Go may prefer to a waiting signal.
Wait(l) ==
    /\ pc[l] = "serving"
    /\ child[l] = "gone"
    /\ \E status \in IF interrupted[l] THEN {"zero"} ELSE {"zero", "nonzero"} :
          Close(l, status)
    /\ UNCHANGED <<link, owned, queue, child, interrupted, received, sent>>

\* Variant: an interrupted launcher keeps its link.
CleanupOnSuccess(l) ==
    /\ pc[l] = "closing"
    /\ link' = IF owned[l] /\ link # Install /\ ~interrupted[l] THEN Absent ELSE link
    /\ Goto(l, "done")
    /\ UNCHANGED <<owned, queue, child, interrupted, received, sent, code>>

\* os.Remove unlinks whatever link is there and fails on a directory with
\* files in it; main then returns the status.
Cleanup(l) ==
    /\ pc[l] = "closing"
    /\ link' = IF owned[l] /\ link # Install THEN Absent ELSE link
    /\ Goto(l, "done")
    /\ UNCHANGED <<owned, queue, child, interrupted, received, sent, code>>

-----------------------------------------------------------------------------
(* What the launchers do not control *)

\* The runtime's delivery never blocks: a full channel loses the signal.
Queued(l, s) ==
    /\ pc[l] \in Listening
    /\ s \in Forwarded
    /\ Len(queue[l]) < Capacity
    /\ queue' = [queue EXCEPT ![l] = Append(@, s)]
    /\ received' = [received EXCEPT ![l] = @ \cup {s}]
    /\ UNCHANGED <<link, pc, owned, child, interrupted, sent, code>>

\* Without a handler the signal ends the launcher, and no deferred call
\* runs; the server of a killed launcher lives on.
Killed(l, s) ==
    /\ pc[l] \in Active
    /\ s \in Deadly
    /\ pc[l] \in Listening => s \notin Forwarded
    /\ Goto(l, "killed")
    /\ code' = [code EXCEPT ![l] = s]
    /\ UNCHANGED <<link, owned, queue, child, interrupted, received, sent>>

\* The server ends, of a signal it was sent or by itself: a Ctrl-C of the
\* terminal reaches it as it reaches the launcher.
ChildExit(l) ==
    /\ Alive(l)
    /\ child' = [child EXCEPT ![l] = "gone"]
    /\ UNCHANGED <<link, pc, owned, queue, interrupted, received, sent, code>>

ToldChildExits(l) == "TERM" \in sent[l] /\ ChildExit(l)

Signal(l) == \E s \in Signals : Queued(l, s) \/ Killed(l, s)

Launcher(l) ==
    \/ Readlink(l) \/ Lstat(l) \/ Symlink(l) \/ Leave(l) \/ Notify(l)
    \/ Start(l) \/ Handle(l) \/ Wait(l) \/ Cleanup(l)

Next == \E l \in Launchers : Launcher(l) \/ Signal(l) \/ ChildExit(l)

\* A launcher that has reached its loop goes on running, and a server sent
\* TERM terminates.  Nobody has to start a launcher or press Ctrl-C.
Fairness == \A l \in Launchers :
    /\ WF_vars(Handle(l)) /\ WF_vars(Wait(l)) /\ WF_vars(Cleanup(l))
    /\ WF_vars(ToldChildExits(l))

Spec     == Init /\ [][Next]_vars
FairSpec == Spec /\ Fairness

-----------------------------------------------------------------------------
(* Properties *)

\* A launcher that made the link finds its own link there until it cleans
\* up, whoever else starts, stops or dies meanwhile: so os.Remove in
\* cleanup.go, which looks at nothing, removes only what Symlink made, and
\* never an install or another server's link.
OwnerKeepsLink ==
    \A l \in Launchers : pc[l] \in Holding /\ owned[l] => link = Want[l]

\* While a server runs, and while one is about to start, the walk-up from
\* the workspace reaches the tree its target named (devserver.go:191 anchorNodeModules).
LinkOfServer ==
    \A l \in Launchers : pc[l] \in Holding \/ Alive(l) => link = Want[l]

\* What becomes of a set of signals on the way to the server.
Passed(S) ==
    (S \ (Interrupts \cup {"TERM"}))
        \cup (IF S \cap Interrupts = {} THEN {} ELSE {"TERM"})

Channel(l) == {queue[l][i] : i \in 1..Len(queue[l])}

\* What a server was sent, with what waits for it in the channel, is what its
\* launcher received: ibazel's SIGTERM after a rebuild ends no server, Ctrl-C
\* or a hang-up asks it to terminate, and no other signal that entered the
\* channel is lost, changed or made up (run.go:91 the loop of Supervise).
SignalsPassedOn ==
    \A l \in Launchers : child[l] # "gone" =>
        sent[l] \cup Passed(Channel(l)) = Passed(received[l])

\* Ctrl-C in the loop ends the launcher, without a link of its own left
\* behind, unless a second signal kills it on the way.
InterruptEndsLauncher ==
    \A l \in Launchers :
        (pc[l] = "serving" /\ \E i \in DOMAIN queue[l] : queue[l][i] = "INT")
            ~> (pc[l] = "killed" \/ (pc[l] = "done" /\ (owned[l] => link = Absent)))
=============================================================================
