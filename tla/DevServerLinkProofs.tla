------------------------- MODULE DevServerLinkProofs -------------------------
(***************************************************************************)
(* Proofs about DevServerLink, for any set of launchers and trees: an      *)
(* owner finds its own link until it has removed it; where the targets     *)
(* name different trees, every server has its tree beneath it; and a       *)
(* server is sent what its launcher received, ibazel's TERM left out.      *)
(***************************************************************************)
EXTENDS DevServerLink, TLAPS

\* Two launchers never both have the link in their cleanup.
OneOwner ==
    \A l, m \in Launchers :
        (pc[l] \in Holding /\ owned[l] /\ pc[m] \in Holding /\ owned[m]) => l = m

OwnerInv == TypeOK /\ OwnerKeepsLink /\ OneOwner

USE DEF Ended, Listening, Active, Holding, Absent, Install, Alive, Goto, Close

\* Every variable keeps its type: the channel never holds more than its
\* capacity, and each launcher is at a place of main's.
LEMMA TypeInductive == TypeOK /\ [Next]_vars => TypeOK'
<1> SUFFICES ASSUME TypeOK, [Next]_vars PROVE TypeOK'
    OBVIOUS
<1> USE WantAssumption
<1>1. ASSUME NEW l \in Launchers, Readlink(l) PROVE TypeOK'
    <2>1. queue' \in [Launchers -> Seq(Forwarded)] /\ \A m \in Launchers : Len(queue'[m]) <= Capacity
        BY <1>1, CapacityAssumption DEF TypeOK, Readlink
    <2> QED BY <1>1, <2>1 DEF TypeOK, Readlink
<1>2. ASSUME NEW l \in Launchers, Lstat(l) \/ Symlink(l) PROVE TypeOK'
    <2>1. CASE Lstat(l)
        BY <2>1 DEF TypeOK, Lstat
    <2>2. CASE Symlink(l)
        <3>1. link' \in Trees \cup {Absent, Install}
            BY <2>2 DEF TypeOK, Symlink
        <3>2. pc' \in [Launchers -> Active \cup Ended] /\ owned' \in [Launchers -> BOOLEAN]
            BY <2>2 DEF TypeOK, Symlink
        <3>3. UNCHANGED <<queue, child, interrupted, received, sent, code>>
            BY <2>2 DEF Symlink
        <3> QED BY <3>1, <3>2, <3>3 DEF TypeOK
    <2> QED BY <1>2, <2>1, <2>2
<1>3. ASSUME NEW l \in Launchers, Leave(l) \/ Notify(l) \/ Start(l) PROVE TypeOK'
    BY <1>3 DEF TypeOK, Leave, Notify, Start
<1>4. ASSUME NEW l \in Launchers, Handle(l) PROVE TypeOK'
    <2>1. queue' \in [Launchers -> Seq(Forwarded)] /\ \A m \in Launchers : Len(queue'[m]) <= Capacity
        BY <1>4, CapacityAssumption DEF TypeOK, Handle
    <2>2. Head(queue[l]) \in Forwarded
        BY <1>4 DEF TypeOK, Handle
    <2>3. sent' \in [Launchers -> SUBSET Forwarded]
        <3>1. ASSUME NEW s \in Forwarded, Send(l, s) PROVE sent' \in [Launchers -> SUBSET Forwarded]
            BY <3>1 DEF TypeOK, Send
        <3>2. CASE Head(queue[l]) = "TERM"
            BY <1>4, <3>2 DEF TypeOK, Handle
        <3>3. CASE Head(queue[l]) # "TERM"
            <4>1. "TERM" \in Forwarded
                BY DEF Forwarded
            <4> QED BY <1>4, <2>2, <3>1, <3>3, <4>1 DEF Handle, Forward
        <3> QED BY <3>2, <3>3
    <2>4. interrupted' \in [Launchers -> BOOLEAN]
        BY <1>4 DEF TypeOK, Handle
    <2> QED BY <1>4, <2>1, <2>3, <2>4 DEF TypeOK, Handle
<1>5. ASSUME NEW l \in Launchers, Wait(l) \/ Cleanup(l) \/ ChildExit(l) PROVE TypeOK'
    BY <1>5 DEF TypeOK, Wait, Cleanup, ChildExit
<1>6. ASSUME NEW l \in Launchers, NEW s \in Signals, Queued(l, s) PROVE TypeOK'
    <2>1. queue' \in [Launchers -> Seq(Forwarded)] /\ \A m \in Launchers : Len(queue'[m]) <= Capacity
        BY <1>6, CapacityAssumption DEF TypeOK, Queued
    <2> QED BY <1>6, <2>1 DEF TypeOK, Queued
<1>7. ASSUME NEW l \in Launchers, NEW s \in Signals, Killed(l, s) PROVE TypeOK'
    BY <1>7 DEF TypeOK, Killed
<1>8. CASE UNCHANGED vars
    BY <1>8 DEF TypeOK, vars
<1> QED BY <1>1, <1>2, <1>3, <1>4, <1>5, <1>6, <1>7, <1>8 DEF Next, Launcher, Signal

\* TypeOK holds in every reachable state, whatever the signals and targets.
THEOREM TypeCorrect == Spec => []TypeOK
<1>1. Init => TypeOK
    BY CapacityAssumption DEF Init, TypeOK
<1> QED BY <1>1, TypeInductive, PTL DEF Spec

\* The link changes hands only where nothing is: a step keeps every owner's
\* link, and with it the single ownership.
LEMMA OwnerInductive == OwnerInv /\ [Next]_vars => OwnerInv'
<1> SUFFICES ASSUME OwnerInv, [Next]_vars PROVE OwnerKeepsLink' /\ OneOwner'
    BY TypeInductive DEF OwnerInv
<1>0. /\ link \in Trees \cup {Absent, Install}
      /\ pc \in [Launchers -> Active \cup Ended]
      /\ owned \in [Launchers -> BOOLEAN]
    BY DEF OwnerInv, TypeOK
<1> USE <1>0, WantAssumption, TreesAssumption DEF OwnerInv, OwnerKeepsLink, OneOwner
<1>1. ASSUME NEW l \in Launchers, Readlink(l) PROVE OwnerKeepsLink' /\ OneOwner'
    BY <1>1 DEF Readlink
<1>2. ASSUME NEW l \in Launchers, Lstat(l) PROVE OwnerKeepsLink' /\ OneOwner'
    BY <1>2 DEF Lstat
<1>3. ASSUME NEW l \in Launchers, Symlink(l) PROVE OwnerKeepsLink' /\ OneOwner'
    <2>1. CASE link = Absent
        <3>1. \A m \in Launchers : ~(pc[m] \in Holding /\ owned[m])
            BY <2>1
        <3> QED BY <1>3, <2>1, <3>1 DEF Symlink
    <2>2. CASE link # Absent
        BY <1>3, <2>2 DEF Symlink
    <2> QED BY <2>1, <2>2
<1>4. ASSUME NEW l \in Launchers, Leave(l) \/ Notify(l) PROVE OwnerKeepsLink' /\ OneOwner'
    BY <1>4 DEF Leave, Notify
<1>5. ASSUME NEW l \in Launchers, Start(l) PROVE OwnerKeepsLink' /\ OneOwner'
    BY <1>5 DEF Start
<1>6. ASSUME NEW l \in Launchers, Handle(l) \/ Wait(l) PROVE OwnerKeepsLink' /\ OneOwner'
    BY <1>6 DEF Handle, Wait
<1>7. ASSUME NEW l \in Launchers, Cleanup(l) PROVE OwnerKeepsLink' /\ OneOwner'
    <2>1. \A m \in Launchers : (pc'[m] \in Holding /\ owned'[m]) =>
              m # l /\ pc[m] \in Holding /\ owned[m]
        BY <1>7 DEF Cleanup
    <2>2. ASSUME NEW m \in Launchers, m # l, pc[m] \in Holding, owned[m] PROVE link' = link
        BY <1>7, <2>2 DEF Cleanup
    <2> QED BY <1>7, <2>1, <2>2 DEF Cleanup
<1>8. ASSUME NEW l \in Launchers, NEW s \in Signals, Queued(l, s) \/ Killed(l, s)
      PROVE OwnerKeepsLink' /\ OneOwner'
    BY <1>8 DEF Queued, Killed
<1>9. ASSUME NEW l \in Launchers, ChildExit(l) PROVE OwnerKeepsLink' /\ OneOwner'
    BY <1>9 DEF ChildExit
<1>10. CASE UNCHANGED vars
    BY <1>10 DEF vars
<1> QED BY <1>1, <1>2, <1>3, <1>4, <1>5, <1>6, <1>7, <1>8, <1>9, <1>10 DEF Next, Launcher, Signal

\* Whatever trees the targets share, a launcher that made the link finds
\* it there until it removes it, so cleanup.go removes nothing else.
THEOREM OwnersKeepTheirLink == Spec => []OwnerKeepsLink
<1>1. Init => OwnerInv
    BY CapacityAssumption DEF Init, OwnerInv, TypeOK, OwnerKeepsLink, OneOwner
<1>2. OwnerInv => OwnerKeepsLink
    BY DEF OwnerInv
<1> QED BY <1>1, <1>2, OwnerInductive, PTL DEF Spec

-----------------------------------------------------------------------------

\* No two targets name one node_modules tree.
TreesApart == \A l, m \in Launchers : Want[l] = Want[m] => l = m

\* The server lives only in the loop, or after its launcher was killed.
ServerInLoop ==
    \A l \in Launchers : Alive(l) => pc[l] \in {"serving", "killed"}

ServerInv == OwnerInv /\ ServerInLoop /\ LinkOfServer

\* A step keeps every server's tree beneath it: only an owner takes a link
\* away, and no other launcher is there on its tree.
LEMMA ServerInductive == TreesApart /\ ServerInv /\ [Next]_vars => ServerInv'
<1> SUFFICES ASSUME TreesApart, ServerInv, [Next]_vars
             PROVE ServerInLoop' /\ LinkOfServer'
    BY OwnerInductive DEF ServerInv
<1>0. /\ link \in Trees \cup {Absent, Install}
      /\ pc \in [Launchers -> Active \cup Ended]
      /\ owned \in [Launchers -> BOOLEAN]
      /\ child \in [Launchers -> {"none", "running", "gone"}]
    BY DEF ServerInv, OwnerInv, TypeOK
<1> USE <1>0, WantAssumption, TreesAssumption DEF ServerInv, OwnerInv, ServerInLoop, LinkOfServer
<1>1. ASSUME NEW l \in Launchers, Readlink(l) PROVE ServerInLoop' /\ LinkOfServer'
    BY <1>1 DEF Readlink
<1>2. ASSUME NEW l \in Launchers, Lstat(l) PROVE ServerInLoop' /\ LinkOfServer'
    BY <1>2 DEF Lstat
<1>3. ASSUME NEW l \in Launchers, Symlink(l) PROVE ServerInLoop' /\ LinkOfServer'
    <2>1. CASE link = Absent
        <3>1. \A m \in Launchers : ~(pc[m] \in Holding \/ Alive(m))
            BY <2>1
        <3> QED BY <1>3, <2>1, <3>1 DEF Symlink
    <2>2. CASE link # Absent
        BY <1>3, <2>2 DEF Symlink
    <2> QED BY <2>1, <2>2
<1>4. ASSUME NEW l \in Launchers, Leave(l) \/ Notify(l) PROVE ServerInLoop' /\ LinkOfServer'
    BY <1>4 DEF Leave, Notify
<1>5. ASSUME NEW l \in Launchers, Start(l) PROVE ServerInLoop' /\ LinkOfServer'
    BY <1>5 DEF Start
<1>6. ASSUME NEW l \in Launchers, Handle(l) \/ Wait(l) PROVE ServerInLoop' /\ LinkOfServer'
    BY <1>6 DEF Handle, Wait
<1>7. ASSUME NEW l \in Launchers, Cleanup(l) PROVE ServerInLoop' /\ LinkOfServer'
    <2>1. \A m \in Launchers : (pc'[m] \in Holding \/ Alive(m)') =>
              m # l /\ (pc[m] \in Holding \/ Alive(m))
        BY <1>7 DEF Cleanup
    <2>2. ASSUME NEW m \in Launchers, m # l, pc[m] \in Holding \/ Alive(m) PROVE link' = link
        <3>1. Want[l] # Want[m]
            BY <2>2 DEF TreesApart
        <3>2. ~owned[l]
            BY <1>7, <2>2, <3>1 DEF Cleanup, OwnerKeepsLink
        <3> QED BY <1>7, <3>2 DEF Cleanup
    <2> QED BY <1>7, <2>1, <2>2 DEF Cleanup
<1>8. ASSUME NEW l \in Launchers, NEW s \in Signals, Queued(l, s) \/ Killed(l, s)
      PROVE ServerInLoop' /\ LinkOfServer'
    BY <1>8 DEF Queued, Killed
<1>9. ASSUME NEW l \in Launchers, ChildExit(l) PROVE ServerInLoop' /\ LinkOfServer'
    BY <1>9 DEF ChildExit
<1>10. CASE UNCHANGED vars
    BY <1>10 DEF vars
<1> QED BY <1>1, <1>2, <1>3, <1>4, <1>5, <1>6, <1>7, <1>8, <1>9, <1>10 DEF Next, Launcher, Signal

\* Where the targets name different trees, a running server's tree is the
\* one <workspace>/node_modules leads to, whatever starts and stops beside
\* it (devserver.go anchorNodeModules).
THEOREM ServersHaveTheirTree == TreesApart => (Spec => []LinkOfServer)
<1> SUFFICES ASSUME TreesApart PROVE Spec => []LinkOfServer
    OBVIOUS
<1>1. Init => ServerInv
    BY CapacityAssumption DEF Init, ServerInv, ServerInLoop, LinkOfServer, OwnerInv, TypeOK,
          OwnerKeepsLink, OneOwner
<1>2. ServerInv /\ [Next]_vars => ServerInv'
    BY ServerInductive
<1>3. ServerInv => LinkOfServer
    BY DEF ServerInv
<1> QED BY <1>1, <1>2, <1>3, PTL DEF Spec

-----------------------------------------------------------------------------

\* What a set of signals becomes is what each becomes.
LEMMA PassedEach ==
    ASSUME NEW A, NEW B
    PROVE  Passed(A \cup B) = Passed(A) \cup Passed(B)
BY DEF Passed, Interrupts

\* A launcher that has not reached cmd.Start has no server, and the loop is
\* not reached without one.
StartedInv ==
    \A l \in Launchers :
        /\ pc[l] \in {"lstat", "symlink", "planned", "armed"} => child[l] = "none"
        /\ pc[l] = "serving" => child[l] # "none"

SignalInv == TypeOK /\ StartedInv /\ SignalsPassedOn

\* The server starts and ends only as Start and ChildExit say.
LEMMA StartedInductive == TypeOK /\ StartedInv /\ [Next]_vars => StartedInv'
<1> SUFFICES ASSUME TypeOK, StartedInv, [Next]_vars PROVE StartedInv'
    OBVIOUS
<1>0. /\ pc \in [Launchers -> Active \cup Ended]
      /\ child \in [Launchers -> {"none", "running", "gone"}]
    BY DEF TypeOK
<1> USE <1>0 DEF StartedInv
<1>1. ASSUME NEW l \in Launchers, Readlink(l) PROVE StartedInv'
    BY <1>1 DEF Readlink
<1>2. ASSUME NEW l \in Launchers, Lstat(l) \/ Symlink(l) \/ Leave(l) \/ Notify(l)
      PROVE StartedInv'
    BY <1>2 DEF Lstat, Symlink, Leave, Notify
<1>3. ASSUME NEW l \in Launchers, Start(l) PROVE StartedInv'
    BY <1>3 DEF Start
<1>4. ASSUME NEW l \in Launchers, Handle(l) \/ Wait(l) \/ Cleanup(l) \/ ChildExit(l)
      PROVE StartedInv'
    BY <1>4 DEF Handle, Wait, Cleanup, ChildExit
<1>5. ASSUME NEW l \in Launchers, NEW s \in Signals, Queued(l, s) \/ Killed(l, s)
      PROVE StartedInv'
    BY <1>5 DEF Queued, Killed
<1>6. CASE UNCHANGED vars
    BY <1>6 DEF vars
<1> QED BY <1>1, <1>2, <1>3, <1>4, <1>5, <1>6 DEF Next, Launcher, Signal

\* Handling a signal moves what it becomes from the channel to the server.
LEMMA HandlePasses ==
    ASSUME SignalInv, NEW l \in Launchers, Handle(l)
    PROVE  SignalsPassedOn'
<1>1. queue[l] \in Seq(Forwarded) /\ queue[l] # <<>> /\ received' = received /\ child' = child
    BY DEF SignalInv, TypeOK, Handle
<1> DEFINE s == Head(queue[l])
<1>2. Channel(l) = {s} \cup Channel(l)'
    <2>1. queue'[l] = Tail(queue[l])
        BY DEF Handle, SignalInv, TypeOK
    <2>2. /\ Len(queue'[l]) = Len(queue[l]) - 1 /\ s = queue[l][1]
          /\ Len(queue[l]) \in Nat /\ 1 \in 1..Len(queue[l])
          /\ \A i \in 1..Len(queue'[l]) : queue'[l][i] = queue[l][i + 1]
        BY <1>1, <2>1
    <2>3. Channel(l) \subseteq {s} \cup Channel(l)'
        <3> SUFFICES ASSUME NEW i \in 1..Len(queue[l])
                     PROVE queue[l][i] \in {s} \cup Channel(l)'
            BY DEF Channel
        <3>1. CASE i = 1
            BY <2>2, <3>1
        <3>2. CASE i # 1
            <4>1. i - 1 \in 1..Len(queue'[l]) /\ queue'[l][i - 1] = queue[l][i]
                BY <2>2, <3>2
            <4> QED BY <4>1 DEF Channel
        <3> QED BY <3>1, <3>2
    <2>4. {s} \cup Channel(l)' \subseteq Channel(l)
        <3>1. ASSUME NEW i \in 1..Len(queue'[l]) PROVE i + 1 \in 1..Len(queue[l])
            BY <2>2
        <3> QED BY <2>2, <3>1 DEF Channel
    <2> QED BY <2>3, <2>4
<1>3. Passed(Channel(l)) = Passed({s}) \cup Passed(Channel(l)')
    BY <1>2, PassedEach
<1>4. ASSUME child[l] # "gone"
      PROVE  sent'[l] = sent[l] \cup Passed({s})
    <2>1. Alive(l)
        BY <1>4 DEF SignalInv, StartedInv, TypeOK, Handle
    <2>2. CASE s = "TERM"
        <3>1. Passed({s}) = {}
            BY <2>2 DEF Passed, Interrupts
        <3> QED BY <2>2, <3>1 DEF Handle
    <2>3. CASE s # "TERM"
        <3>1. Passed({s}) = {IF s \in Interrupts THEN "TERM" ELSE s}
            BY <2>3 DEF Passed, Interrupts
        <3>2. Forward(l, s) /\ sent \in [Launchers -> SUBSET Forwarded]
            BY <2>3 DEF Handle, SignalInv, TypeOK
        <3> QED BY <2>1, <3>1, <3>2 DEF Forward, Send
    <2> QED BY <2>2, <2>3
<1>5. ASSUME NEW m \in Launchers, m # l
      PROVE  sent'[m] = sent[m] /\ Channel(m)' = Channel(m)
    <2>1. queue'[m] = queue[m]
        BY <1>5 DEF Handle, SignalInv, TypeOK
    <2>2. sent'[m] = sent[m]
        BY <1>5 DEF Handle, Forward, Send, SignalInv, TypeOK
    <2> QED BY <2>1, <2>2 DEF Channel
<1> QED
    <2> SUFFICES ASSUME NEW m \in Launchers, child'[m] # "gone"
                 PROVE  sent'[m] \cup Passed(Channel(m)') = Passed(received'[m])
        BY DEF SignalsPassedOn
    <2>1. sent[m] \cup Passed(Channel(m)) = Passed(received[m])
        BY <1>1 DEF SignalInv, SignalsPassedOn
    <2>2. CASE m = l
        BY <1>1, <1>3, <1>4, <2>1, <2>2
    <2>3. CASE m # l
        BY <1>1, <1>5, <2>1, <2>3
    <2> QED BY <2>2, <2>3

\* Every step keeps what was sent and what waits equal to what came in.
LEMMA SignalInductive == SignalInv /\ [Next]_vars => SignalInv'
<1> SUFFICES ASSUME SignalInv, [Next]_vars PROVE SignalsPassedOn'
    BY TypeInductive, StartedInductive DEF SignalInv
<1>0. /\ pc \in [Launchers -> Active \cup Ended]
      /\ queue \in [Launchers -> Seq(Forwarded)]
      /\ child \in [Launchers -> {"none", "running", "gone"}]
      /\ received \in [Launchers -> SUBSET Forwarded]
      /\ sent \in [Launchers -> SUBSET Forwarded]
    BY DEF SignalInv, TypeOK
<1>1. ASSUME NEW l \in Launchers, Readlink(l) PROVE SignalsPassedOn'
    <2>1. /\ queue'[l] = <<>> /\ received'[l] = {} /\ sent'[l] = {}
          /\ \A m \in Launchers \ {l} : /\ queue'[m] = queue[m] /\ received'[m] = received[m]
                                       /\ sent'[m] = sent[m] /\ child'[m] = child[m]
        BY <1>0, <1>1 DEF Readlink
    <2>2. Passed(Channel(l)') = {} /\ Passed(received'[l]) = {}
        BY <2>1 DEF Passed, Channel
    <2>3. \A m \in Launchers \ {l} : Channel(m)' = Channel(m)
        BY <2>1 DEF Channel
    <2>4. ASSUME NEW m \in Launchers, m # l, child'[m] # "gone"
          PROVE  sent'[m] \cup Passed(Channel(m)') = Passed(received'[m])
        BY <2>1, <2>3, <2>4 DEF SignalInv, SignalsPassedOn
    <2>5. sent'[l] \cup Passed(Channel(l)') = Passed(received'[l])
        BY <2>1, <2>2
    <2> QED BY <2>4, <2>5 DEF SignalsPassedOn
<1>2. ASSUME UNCHANGED <<queue, received, sent>>,
             \A m \in Launchers : child'[m] # "gone" => child[m] # "gone"
      PROVE  SignalsPassedOn'
    BY <1>2 DEF SignalInv, SignalsPassedOn, Channel
<1>3. ASSUME NEW l \in Launchers,
             Lstat(l) \/ Symlink(l) \/ Leave(l) \/ Notify(l) \/ Wait(l) \/ Cleanup(l)
      PROVE  SignalsPassedOn'
    BY <1>2, <1>3 DEF Lstat, Symlink, Leave, Notify, Wait, Cleanup
<1>4. ASSUME NEW l \in Launchers, Start(l) PROVE SignalsPassedOn'
    <2>1. child[l] = "none"
        BY <1>4 DEF Start, SignalInv, StartedInv
    <2> QED BY <1>0, <1>2, <1>4, <2>1 DEF Start
<1>5. ASSUME NEW l \in Launchers, Handle(l) PROVE SignalsPassedOn'
    BY <1>5, HandlePasses
<1>6. ASSUME NEW l \in Launchers, ChildExit(l) PROVE SignalsPassedOn'
    BY <1>0, <1>2, <1>6 DEF ChildExit
<1>7. ASSUME NEW l \in Launchers, NEW s \in Signals, Queued(l, s) PROVE SignalsPassedOn'
    <2>1. /\ queue'[l] = Append(queue[l], s) /\ received'[l] = received[l] \cup {s}
          /\ sent' = sent /\ child' = child
          /\ \A m \in Launchers \ {l} : queue'[m] = queue[m] /\ received'[m] = received[m]
        BY <1>0, <1>7 DEF Queued
    <2>2. Channel(l)' = Channel(l) \cup {s}
        <3>1. /\ Len(queue'[l]) = Len(queue[l]) + 1 /\ Len(queue[l]) \in Nat
              /\ \A i \in 1..Len(queue[l]) : queue'[l][i] = queue[l][i]
              /\ queue'[l][Len(queue[l]) + 1] = s
            BY <1>0, <1>7, <2>1 DEF Queued
        <3>2. \A i \in 1..Len(queue'[l]) : i \in 1..Len(queue[l]) \/ i = Len(queue[l]) + 1
            BY <3>1
        <3>3. \A i \in 1..Len(queue[l]) : i \in 1..Len(queue'[l])
            BY <3>1
        <3>4. Len(queue[l]) + 1 \in 1..Len(queue'[l])
            BY <3>1
        <3>5. Channel(l)' \subseteq Channel(l) \cup {s}
            BY <3>1, <3>2 DEF Channel
        <3>6. Channel(l) \subseteq Channel(l)'
            BY <3>1, <3>3 DEF Channel
        <3>7. s \in Channel(l)'
            BY <3>1, <3>4 DEF Channel
        <3> QED BY <3>5, <3>6, <3>7
    <2>3. /\ Passed(Channel(l)') = Passed(Channel(l)) \cup Passed({s})
          /\ Passed(received'[l]) = Passed(received[l]) \cup Passed({s})
        BY <2>1, <2>2, PassedEach
    <2>4. \A m \in Launchers \ {l} : Channel(m)' = Channel(m)
        BY <2>1 DEF Channel
    <2> QED
        <3> SUFFICES ASSUME NEW m \in Launchers, child'[m] # "gone"
                     PROVE  sent'[m] \cup Passed(Channel(m)') = Passed(received'[m])
            BY DEF SignalsPassedOn
        <3>1. sent[m] \cup Passed(Channel(m)) = Passed(received[m])
            BY <2>1 DEF SignalInv, SignalsPassedOn
        <3>2. CASE m = l
            BY <2>1, <2>3, <3>1, <3>2
        <3>3. CASE m # l
            BY <2>1, <2>4, <3>1, <3>3
        <3> QED BY <3>2, <3>3
<1>8. ASSUME NEW l \in Launchers, NEW s \in Signals, Killed(l, s) PROVE SignalsPassedOn'
    BY <1>2, <1>8 DEF Killed
<1>9. CASE UNCHANGED vars
    BY <1>2, <1>9 DEF vars
<1> QED BY <1>1, <1>3, <1>4, <1>5, <1>6, <1>7, <1>8, <1>9 DEF Next, Launcher, Signal

\* ibazel may send SIGTERM as often as it likes: a living server is sent what
\* its launcher received and nothing else, an interrupt as TERM and TERM not
\* at all (run.go Supervise).
THEOREM ServerHearsSignals == Spec => []SignalsPassedOn
<1>1. Init => SignalInv
    <2> SUFFICES ASSUME Init PROVE SignalInv
        OBVIOUS
    <2>1. TypeOK /\ StartedInv
        BY CapacityAssumption DEF Init, TypeOK, StartedInv
    <2>2. \A l \in Launchers : Passed(Channel(l)) = {} /\ Passed(received[l]) = {} /\ sent[l] = {}
        <3>1. Passed({}) = {}
            BY DEF Passed
        <3>2. \A l \in Launchers : queue[l] = <<>> /\ received[l] = {} /\ sent[l] = {}
            BY DEF Init
        <3>3. 1..Len(<<>>) = {}
            OBVIOUS
        <3>4. ASSUME NEW l \in Launchers PROVE Channel(l) = {}
            <4>1. 1..Len(queue[l]) = {}
                BY <3>2, <3>3
            <4> QED BY <4>1 DEF Channel
        <3> QED BY <3>1, <3>2, <3>4
    <2> QED BY <2>1, <2>2 DEF SignalInv, SignalsPassedOn
<1>2. SignalInv => SignalsPassedOn
    BY DEF SignalInv
<1> QED BY <1>1, <1>2, SignalInductive, PTL DEF Spec
=============================================================================
