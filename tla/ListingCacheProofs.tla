------------------------- MODULE ListingCacheProofs -------------------------
(***************************************************************************)
(* The listing cache is sound for every number of runs, programs, paths    *)
(* and edits.  The argument: memos and entries never run ahead of the      *)
(* tree, a scan never precedes the stat of its path, and so a calm entry   *)
(* satisfies lines <= listing <= tree on each of its reads.  Stat lines    *)
(* that match the tree then leave the listing no room to differ from it.   *)
(* What a run answers stays whole, and is on disk before the run ends      *)
(* wherever it could be written.                                           *)
(***************************************************************************)
EXTENDS ListingCache, TLAPS

USE DEF Versions, Snapshot, Nothing, mem

LEMMA InitTypeOK == Init => TypeOK
<1> SUFFICES ASSUME Init PROVE TypeOK
  OBVIOUS
<1>1. Nothing \in Snapshot
  BY CacheAssumption
<1>2. tree \in [Paths -> 1 .. MaxVersion]
  BY CacheAssumption DEF Init
<1> QED BY <1>1, <1>2 DEF Init, TypeOK

LEMMA ExtendedType ==
  ASSUME TypeOK, NEW memo \in Snapshot, NEW S
  PROVE  Extended(memo, S) \in Snapshot
BY CacheAssumption DEF Extended, TypeOK

LEMMA RestrictedType ==
  ASSUME NEW memo \in Snapshot, NEW S
  PROVE  Restricted(memo, S) \in Snapshot
BY CacheAssumption DEF Restricted

LEMMA PatchedType ==
  ASSUME NEW e \in Entry, NEW S, NEW stat \in Snapshot, NEW scan \in Snapshot
  PROVE  Patched(e, S, stat, scan) \in Entry
<1>1. Restricted(stat, ReadSet(e)) \in Snapshot
  BY RestrictedType
<1> QED BY <1>1 DEF Patched, Entry

LEMMA WrittenType ==
  ASSUME TypeOK, NEW r \in Runs, NEW p \in Programs, Written(r, p)
  PROVE  disk' \in [Programs -> Entry \cup {NoEntry}] /\ unwritten' \in [Runs -> SUBSET Programs]
<1>1. CASE disk' = [disk EXCEPT ![p] = loaded[r][p]] /\ UNCHANGED unwritten
  <2>1. loaded[r][p] \in Entry \cup {NoEntry}
    BY DEF TypeOK
  <2> QED BY <1>1, <2>1 DEF TypeOK
<1>2. CASE unwritten' = [unwritten EXCEPT ![r] = @ \cup {p}] /\ UNCHANGED disk
  BY <1>2 DEF TypeOK
<1> QED BY <1>1, <1>2 DEF Written

\* Every step of a run, and every edit, keeps the types.
LEMMA NextTypeOK == TypeOK /\ [Next]_vars => TypeOK'
<1> SUFFICES ASSUME TypeOK, [Next]_vars PROVE TypeOK'
  OBVIOUS
<1>0. Nothing \in Snapshot
  BY CacheAssumption
<1>1. ASSUME NEW x \in Paths, Edit(x) PROVE TypeOK'
  BY <1>1, CacheAssumption DEF Edit, TypeOK
<1>2. ASSUME NEW r \in Runs, Step(r) PROVE TypeOK'
  <2> USE DEF TypeOK, Goto
  <2>1. CASE Start(r)
    BY <2>1 DEF Start
  <2>2. CASE End(r) \/ Crash(r)
    <3>1. Gone(r)
      BY <2>2 DEF End, Crash
    <3>2. loaded' \in [Runs -> [Programs -> Entry \cup {NoEntry}]]
      BY <3>1 DEF Gone
    <3>3. stats' \in [Runs -> Snapshot] /\ scans' \in [Runs -> Snapshot] /\ got' \in [Runs -> Snapshot]
      BY <3>1, <1>0 DEF Gone
    <3>4. pending' \in [Runs -> SUBSET Programs] /\ entry' \in [Runs -> Entry \cup {NoEntry}]
      BY <3>1 DEF Gone
    <3> QED BY <3>1, <3>2, <3>3, <3>4 DEF Gone
  <2>3. ASSUME NEW p \in Programs, Ask(r, p) PROVE TypeOK'
    BY <2>3 DEF Ask
  <2>4. ASSUME NEW p \in Programs, WritePending(r, p) PROVE TypeOK'
    BY <2>4, WrittenType DEF WritePending
  <2>5. CASE Stat(r)
    <3>1. Extended(stats[r], ReadSet(entry[r])) \in Snapshot
      BY ExtendedType
    <3> QED BY <2>5, <3>1 DEF Stat
  <2>6. CASE Hit(r)
    BY <2>6 DEF Hit, Answer
  <2>7. CASE Patch(r)
    <3> DEFINE scan == Extended(scans[r], Changed(r))
    <3>1. scan \in Snapshot
      BY ExtendedType
    <3>2. entry[r] \in Entry
      BY <2>7 DEF Patch
    <3>3. Patched(entry[r], Changed(r), stats[r], scan) \in Entry
      BY <3>1, <3>2, PatchedType
    <3> HIDE DEF scan
    <3> QED BY <2>7, <3>1, <3>3 DEF Patch, Answer, scan
  <2>8. CASE Stale(r)
    <3>1. PICK S \in SUBSET (Changed(r) \cap Sources) :
             scans' = [scans EXCEPT ![r] = Extended(@, S)]
      BY <2>8 DEF Stale
    <3>2. Extended(scans[r], S) \in Snapshot
      BY ExtendedType
    <3> QED BY <2>8, <3>1, <3>2 DEF Stale
  <2>9. ASSUME NEW x \in Paths, Read(r, x) PROVE TypeOK'
    BY <2>9, CacheAssumption DEF Read
  <2>10. CASE Listed(r)
    BY <2>10 DEF Listed
  <2>11. CASE Kill(r)
    <3>1. got' = got \/ got' = [got EXCEPT ![r] = Nothing]
      BY <2>11 DEF Kill
    <3>2. got' \in [Runs -> Snapshot]
      BY <3>1, <1>0
    <3>3. pc' = [pc EXCEPT ![r] = "save"] \/ pc' = [pc EXCEPT ![r] = "walk"]
      BY <2>11 DEF Kill
    <3> QED BY <2>11, <3>2, <3>3 DEF Kill
  <2>12. CASE SaveStat(r)
    <3>1. Extended(stats[r], GotSet(r)) \in Snapshot
      BY ExtendedType
    <3> QED BY <2>12, <3>1 DEF SaveStat
  <2>13. CASE SaveScan(r)
    <3>1. Extended(scans[r], GotSet(r) \cap Sources) \in Snapshot
      BY ExtendedType
    <3>2. scans'[r] \in Snapshot
      BY <2>13, <3>1 DEF SaveScan
    <3>3. /\ Restricted(stats[r], GotSet(r)) \in Snapshot
          /\ Restricted(scans'[r], GotSet(r) \cap Sources) \in Snapshot
      BY <3>2, RestrictedType
    <3> DEFINE e == [listing |-> got[r], lines |-> Restricted(stats[r], GotSet(r)),
                     specs |-> Restricted(scans'[r], GotSet(r) \cap Sources), calm |-> quiet[r]]
    <3>4. e \in Entry
      BY <3>3 DEF Entry
    <3> HIDE DEF e
    <3> QED BY <2>13, <1>0, <3>1, <3>4 DEF SaveScan, e
  <2>14. CASE SaveWrite(r)
    <3>1. prog[r] \in Programs
      OBVIOUS
    <3>2. disk' \in [Programs -> Entry \cup {NoEntry}] /\ unwritten' \in [Runs -> SUBSET Programs]
      BY <2>14, <3>1, WrittenType DEF SaveWrite
    <3> QED BY <2>14, <3>2 DEF SaveWrite
  <2>15. CASE SaveAbandoned(r)
    BY <2>15, <1>0 DEF SaveAbandoned
  <2> QED BY <1>2, <2>1, <2>2, <2>3, <2>4, <2>5, <2>6, <2>7, <2>8, <2>9, <2>10, <2>11, <2>12,
             <2>13, <2>14, <2>15 DEF Step, Load, List, Save
<1>3. CASE UNCHANGED vars
  BY <1>3 DEF vars, TypeOK
<1> QED BY <1>1, <1>2, <1>3 DEF Next

\* Every variable keeps its type, for any number of runs, programs and paths.
THEOREM TypeCorrect == Spec => []TypeOK
  BY InitTypeOK, NextTypeOK, PTL DEF Spec

-----------------------------------------------------------------------------
(* The inductive invariant.                                                *)

\* A calm entry lists each read between its stat line and the tree, and each
\* source at the version it scanned.
Sound(e) ==
    /\ \A x \in ReadSet(e) : e.lines[x] # 0 /\ e.lines[x] <= tree[x]
    /\ e.calm => \A x \in ReadSet(e) :
          /\ e.lines[x] <= e.listing[x]
          /\ e.listing[x] <= tree[x]
          /\ x \in Sources => e.specs[x] = e.listing[x]

\* A run never scans a source it has not stat'ed before.
MemosInOrder(r) ==
    \A x \in Paths :
        /\ stats[r][x] <= tree[x]
        /\ scans[r][x] <= tree[x]
        /\ scans[r][x] # 0 => stats[r][x] # 0 /\ stats[r][x] <= scans[r][x]

\* In a quiet run, memos and tsgo have seen the tree as it is.
QuietMemos(r) ==
    quiet[r] => \A x \in Paths :
        /\ stats[r][x] \in {0, tree[x]}
        /\ scans[r][x] \in {0, tree[x]}
        /\ got[r][x] \in {0, tree[x]}

\* Where a run compares stat lines, or is about to save them, it has them.
Statted(r) ==
    /\ pc[r] = "compare" => \A x \in ReadSet(entry[r]) : stats[r][x] # 0
    /\ pc[r] = "scan" => \A x \in GotSet(r) : stats[r][x] # 0

AnswersCurrent(r) ==
    \A p \in Programs : quiet[r] /\ loaded[r][p] # NoEntry /\ loaded[r][p].calm => Current(loaded[r][p])

\* A process that has not started remembers nothing.
IdleEmpty(r) ==
    pc[r] = "idle" =>
        /\ \A x \in Paths : stats[r][x] = 0 /\ scans[r][x] = 0 /\ got[r][x] = 0
        /\ \A p \in Programs : loaded[r][p] = NoEntry

RunInv(r) ==
    /\ IdleEmpty(r)
    /\ MemosInOrder(r)
    /\ QuietMemos(r)
    /\ Statted(r)
    /\ AnswersCurrent(r)
    /\ entry[r] # NoEntry => Sound(entry[r])
    /\ \A p \in Programs : loaded[r][p] # NoEntry => Sound(loaded[r][p])

IInv ==
    /\ TypeOK
    /\ \A p \in Programs : disk[p] # NoEntry => Sound(disk[p])
    /\ \A r \in Runs : RunInv(r)


LEMMA InitIInv == Init => IInv
<1> SUFFICES ASSUME Init PROVE IInv
  OBVIOUS
<1>1. TypeOK
  BY InitTypeOK
<1>2. ASSUME NEW r \in Runs PROVE RunInv(r)
  <2>1. \A x \in Paths : stats[r][x] = 0 /\ scans[r][x] = 0 /\ got[r][x] = 0 /\ tree[x] = 1
    BY DEF Init
  <2>2. MemosInOrder(r) /\ QuietMemos(r)
    BY <2>1 DEF MemosInOrder, QuietMemos
  <2>3. pc[r] = "idle" /\ entry[r] = NoEntry /\ \A p \in Programs : loaded[r][p] = NoEntry
    BY DEF Init
  <2> QED BY <2>1, <2>2, <2>3 DEF RunInv, Statted, AnswersCurrent, IdleEmpty
<1>3. \A p \in Programs : disk[p] = NoEntry
  BY DEF Init
<1> QED BY <1>1, <1>2, <1>3 DEF IInv

\* An edit leaves every entry and memo at or below the tree, and no run quiet.
LEMMA EditIInv ==
  ASSUME IInv, NEW y \in Paths, Edit(y)
  PROVE  IInv'
<1>1. TypeOK'
  BY NextTypeOK DEF Next, IInv
<1>2. \A x \in Paths : tree[x] \in Nat /\ tree'[x] \in Nat /\ tree[x] <= tree'[x]
  BY CacheAssumption DEF Edit, IInv, TypeOK
<1>3. ASSUME NEW e \in Entry, Sound(e) PROVE Sound(e)'
  BY <1>2, <1>3, CacheAssumption DEF Sound, ReadSet, Entry
<1>4. \A p \in Programs : disk'[p] # NoEntry => Sound(disk[p])'
  BY <1>3 DEF Edit, IInv, TypeOK
<1>5. ASSUME NEW r \in Runs PROVE RunInv(r)'
  <2>1. MemosInOrder(r)'
    BY <1>2, CacheAssumption DEF Edit, IInv, RunInv, MemosInOrder, TypeOK
  <2>2. quiet'[r] = FALSE
    BY DEF Edit
  <2>3. Statted(r)'
    BY DEF Edit, IInv, RunInv, Statted, ReadSet, GotSet
  <2>4. entry'[r] # NoEntry => Sound(entry[r])'
    BY <1>3 DEF Edit, IInv, RunInv, TypeOK
  <2>5. \A p \in Programs : loaded'[r][p] # NoEntry => Sound(loaded[r][p])'
    BY <1>3 DEF Edit, IInv, RunInv, TypeOK
  <2> QED BY <2>1, <2>2, <2>3, <2>4, <2>5 DEF Edit, RunInv, QuietMemos, AnswersCurrent, IdleEmpty, IInv
<1> QED BY <1>1, <1>4, <1>5 DEF IInv, Edit

\* A step of a run touches nothing of another run, nor the tree.
LEMMA StepFrame ==
  ASSUME IInv, NEW r \in Runs, Step(r), NEW q \in Runs, q # r
  PROVE  RunInv(q)'
<1>1. /\ tree' = tree /\ pc'[q] = pc[q] /\ entry'[q] = entry[q] /\ got'[q] = got[q]
      /\ stats'[q] = stats[q] /\ scans'[q] = scans[q] /\ loaded'[q] = loaded[q]
      /\ quiet'[q] = quiet[q]
  BY DEF Step, Start, End, Crash, Gone, Ask, WritePending, Load, Stat, Hit, Patch, Stale, Answer, List, Listed,
     Kill, Read, Save, SaveAbandoned, SaveStat, SaveScan, SaveWrite, Goto, IInv, TypeOK
<1> QED BY <1>1 DEF IInv, RunInv, MemosInOrder, QuietMemos, Statted, AnswersCurrent, Sound, Current,
           ReadSet, GotSet, IdleEmpty


\* A patch of a sound entry is sound, by stat lines no later than its scans.
LEMMA PatchSound ==
  ASSUME IInv, NEW r \in Runs, Patch(r)
  PROVE  LET e == Patched(entry[r], Changed(r), stats[r], Extended(scans[r], Changed(r)))
         IN  Sound(e) /\ (quiet[r] /\ e.calm => Current(e))
<1> DEFINE old == entry[r]
           S == Changed(r)
           scan == Extended(scans[r], S)
           e == Patched(old, S, stats[r], scan)
<1>1. old \in Entry /\ pc[r] = "compare" /\ S \subseteq Sources
  BY DEF Patch, IInv, TypeOK
<1>2. Sound(old) /\ Statted(r) /\ MemosInOrder(r) /\ QuietMemos(r)
  BY <1>1 DEF IInv, RunInv, TypeOK
<1>3. \A x \in Paths : /\ tree[x] \in 1 .. MaxVersion /\ stats[r][x] \in Nat /\ scans[r][x] \in Nat
                       /\ old.listing[x] \in Nat /\ old.lines[x] \in Nat /\ old.specs[x] \in Nat
  BY <1>1, CacheAssumption DEF Entry, IInv, TypeOK
<1>4. \A x \in ReadSet(old) : stats[r][x] # 0 /\ stats[r][x] <= tree[x]
  BY <1>1, <1>2 DEF Statted, MemosInOrder, ReadSet
<1>5. \A x \in S : /\ x \in ReadSet(old) /\ scan[x] # 0
                   /\ stats[r][x] <= scan[x] /\ scan[x] <= tree[x]
                   /\ quiet[r] => scan[x] = tree[x]
  BY <1>2, <1>3, <1>4, CacheAssumption DEF Changed, ReadSet, Extended, MemosInOrder, QuietMemos
<1>6. \A x \in Paths : e.listing[x] = IF x \in S /\ old.listing[x] = old.specs[x] THEN scan[x] ELSE old.listing[x]
  BY <1>1 DEF Patched, Entry
<1>7. \A x \in Paths : e.specs[x] = IF x \in S THEN scan[x] ELSE old.specs[x]
  BY <1>1 DEF Patched, Entry
<1>8. ReadSet(e) = ReadSet(old)
  BY <1>5, <1>6 DEF ReadSet
<1>9. \A x \in ReadSet(e) : e.lines[x] = stats[r][x]
  BY <1>1, <1>8 DEF Patched, Entry, Restricted, ReadSet
<1>10. e.calm = old.calm
  BY <1>1 DEF Patched, Entry
<1>11. \A x \in ReadSet(old) \ S : stats[r][x] = old.lines[x]
  BY DEF Changed
<1>12. ReadSet(e) \subseteq Paths
  BY DEF ReadSet
<1> HIDE DEF e, S, scan, old
<1>13. ASSUME old.calm, NEW x \in ReadSet(e)
       PROVE  /\ e.lines[x] <= e.listing[x] /\ e.listing[x] <= tree[x]
              /\ x \in Sources => e.specs[x] = e.listing[x]
              /\ quiet[r] => e.listing[x] = tree[x]
  <2>1. x \in Paths /\ x \in ReadSet(old)
    BY <1>8, <1>12
  <2>2. /\ old.lines[x] <= old.listing[x] /\ old.listing[x] <= tree[x]
        /\ x \in Sources => old.specs[x] = old.listing[x]
    BY <1>2, <1>13, <2>1 DEF Sound
  <2>3. CASE x \in S
    BY <1>1, <1>5, <1>6, <1>7, <1>9, <2>1, <2>2, <2>3
  <2>4. CASE x \notin S
    <3>1. stats[r][x] = old.lines[x]
      BY <1>11, <2>1, <2>4
    <3>2. quiet[r] => stats[r][x] = tree[x]
      BY <1>2, <1>4, <2>1 DEF QuietMemos
    <3>3. e.listing[x] = old.listing[x] /\ e.specs[x] = old.specs[x] /\ e.lines[x] = stats[r][x]
      BY <1>6, <1>7, <1>9, <2>1, <2>4
    <3> QED BY <1>3, <2>1, <2>2, <3>1, <3>2, <3>3
  <2> QED BY <2>3, <2>4
<1>14. Sound(e)
  BY <1>4, <1>8, <1>9, <1>10, <1>13 DEF Sound
<1>15. quiet[r] /\ e.calm => Current(e)
  BY <1>10, <1>13 DEF Current
<1> QED BY <1>14, <1>15 DEF e, S, scan, old


\* What SaveScan keeps is sound, and current when no edit fell into the run.
LEMMA SaveSound ==
  ASSUME IInv, NEW r \in Runs, SaveScan(r)
  PROVE  LET e == loaded'[r][prog[r]]
         IN  e # NoEntry => Sound(e) /\ (quiet[r] /\ e.calm => Current(e))
<1> DEFINE e == loaded'[r][prog[r]]
           scan == Extended(scans[r], GotSet(r) \cap Sources)
<1>1. /\ e = [listing |-> got[r], lines |-> Restricted(stats[r], GotSet(r)),
              specs |-> Restricted(scan, GotSet(r) \cap Sources), calm |-> quiet[r]]
      /\ pc[r] = "scan"
  BY DEF SaveScan, IInv, TypeOK
<1>2. ReadSet(e) = GotSet(r)
  BY <1>1 DEF ReadSet, GotSet
<1>3. \A x \in GotSet(r) : x \in Paths /\ stats[r][x] # 0 /\ stats[r][x] <= tree[x] /\ tree[x] \in Nat
                           /\ got[r][x] # 0
  BY <1>1, CacheAssumption DEF IInv, TypeOK, RunInv, Statted, MemosInOrder, GotSet
<1>4. \A x \in GotSet(r) : quiet[r] => stats[r][x] = tree[x] /\ got[r][x] = tree[x]
  BY <1>3 DEF IInv, RunInv, QuietMemos
<1>5. \A x \in GotSet(r) \cap Sources : quiet[r] => scan[x] = tree[x]
  BY <1>3 DEF IInv, RunInv, QuietMemos, Extended
<1>6. \A x \in GotSet(r) : /\ e.listing[x] = got[r][x] /\ e.lines[x] = stats[r][x]
                           /\ x \in Sources => e.specs[x] = scan[x]
  BY <1>1, <1>3 DEF Restricted
<1>7. e.calm = quiet[r]
  BY <1>1
<1> HIDE DEF e, scan
<1>8. Sound(e)
  BY <1>2, <1>3, <1>4, <1>5, <1>6, <1>7 DEF Sound
<1>9. quiet[r] => Current(e)
  BY <1>2, <1>4, <1>6 DEF Current
<1> QED BY <1>8, <1>9 DEF e

\* Filling a memo keeps the order of the memos: stats at any time, scans of
\* paths that have been stat'ed.
LEMMA FillStats ==
  ASSUME IInv, NEW r \in Runs, NEW S, tree' = tree, scans' = scans,
         stats' = [stats EXCEPT ![r] = Extended(@, S)]
  PROVE  /\ MemosInOrder(r)'
         /\ quiet[r] => \A x \in Paths : stats'[r][x] \in {0, tree[x]}
         /\ \A x \in S \cap Paths : stats'[r][x] # 0
         /\ \A x \in Paths : stats[r][x] # 0 => stats'[r][x] = stats[r][x]
<1>1. \A x \in Paths : stats'[r][x] = IF x \in S /\ stats[r][x] = 0 THEN tree[x] ELSE stats[r][x]
  BY DEF IInv, TypeOK, Extended
<1>2. \A x \in Paths : tree[x] \in Nat \ {0} /\ stats[r][x] \in Nat /\ scans[r][x] \in Nat
  BY CacheAssumption DEF IInv, TypeOK
<1>3. MemosInOrder(r) /\ QuietMemos(r)
  BY DEF IInv, RunInv
<1> QED BY <1>1, <1>2, <1>3 DEF MemosInOrder, QuietMemos

LEMMA FillScans ==
  ASSUME IInv, NEW r \in Runs, NEW S, tree' = tree, stats' = stats,
         \A x \in S \cap Paths : stats[r][x] # 0,
         scans' = [scans EXCEPT ![r] = Extended(@, S)]
  PROVE  /\ MemosInOrder(r)'
         /\ quiet[r] => \A x \in Paths : scans'[r][x] \in {0, tree[x]}
<1>1. \A x \in Paths : scans'[r][x] = IF x \in S /\ scans[r][x] = 0 THEN tree[x] ELSE scans[r][x]
  BY DEF IInv, TypeOK, Extended
<1>2. \A x \in Paths : tree[x] \in Nat \ {0} /\ stats[r][x] \in Nat /\ scans[r][x] \in Nat
  BY CacheAssumption DEF IInv, TypeOK
<1>3. MemosInOrder(r) /\ QuietMemos(r)
  BY DEF IInv, RunInv
<1> QED BY <1>1, <1>2, <1>3 DEF MemosInOrder, QuietMemos

\* Sound and Current depend on the tree alone.
LEMMA KeepsEntries ==
  ASSUME IInv, NEW r \in Runs, tree' = tree, loaded'[r] = loaded[r], quiet'[r] = quiet[r]
  PROVE  /\ AnswersCurrent(r)'
         /\ \A p \in Programs : loaded'[r][p] # NoEntry => Sound(loaded[r][p])'
BY DEF IInv, RunInv, AnswersCurrent, Current, Sound, ReadSet

\* A run's own step keeps what the run knows.
LEMMA StepRunInv ==
  ASSUME IInv, NEW r \in Runs, Step(r)
  PROVE  RunInv(r)'
<1>0. TypeOK /\ RunInv(r)
  BY DEF IInv
<1>1. CASE Start(r)
  <2>1. \A x \in Paths : stats[r][x] = 0 /\ scans[r][x] = 0 /\ got[r][x] = 0
    BY <1>0, <1>1 DEF Start, RunInv, IdleEmpty
  <2>2. \A p \in Programs : loaded[r][p] = NoEntry
    BY <1>0, <1>1 DEF Start, RunInv, IdleEmpty
  <2>3. MemosInOrder(r)'
    BY <1>0, <1>1 DEF Start, mem, RunInv, MemosInOrder
  <2> QED BY <1>0, <1>1, <2>1, <2>2, <2>3 DEF Start, mem, RunInv, QuietMemos, Statted, AnswersCurrent, Sound,
             ReadSet, IdleEmpty, TypeOK
<1>2. CASE End(r) \/ Crash(r)
  <2>1. \A x \in Paths : tree[x] \in Nat
    BY <1>0, CacheAssumption DEF TypeOK
  <2>2. \A x \in Paths : stats'[r][x] = 0 /\ scans'[r][x] = 0 /\ got'[r][x] = 0 /\ tree'[x] = tree[x]
    BY <1>0, <1>2 DEF End, Crash, Gone, TypeOK
  <2>3. pc'[r] = "idle" /\ entry'[r] = NoEntry /\ \A p \in Programs : loaded'[r][p] = NoEntry
    BY <1>0, <1>2 DEF End, Crash, Gone, TypeOK
  <2>4. MemosInOrder(r)' /\ QuietMemos(r)'
    BY <2>1, <2>2 DEF MemosInOrder, QuietMemos
  <2> QED BY <2>2, <2>3, <2>4 DEF RunInv, Statted, AnswersCurrent, IdleEmpty
<1>3. ASSUME NEW p \in Programs, Ask(r, p) PROVE RunInv(r)'
  <2>1. /\ pc'[r] \in {"list", "validate"} /\ entry'[r] = disk[p] /\ loaded'[r] = loaded[r]
        /\ tree' = tree /\ quiet' = quiet /\ stats' = stats /\ scans' = scans /\ got' = got
    BY <1>0, <1>3 DEF Ask, Goto, mem, TypeOK
  <2>2. entry'[r] # NoEntry => Sound(entry[r])'
    BY <2>1 DEF IInv, Sound, ReadSet
  <2> QED BY <1>0, <2>1, <2>2, KeepsEntries DEF RunInv, MemosInOrder, QuietMemos, Statted, IdleEmpty
<1>4. ASSUME NEW p \in Programs, WritePending(r, p) PROVE RunInv(r)'
  BY <1>0, <1>4, KeepsEntries DEF WritePending, RunInv, MemosInOrder, QuietMemos, Statted, IdleEmpty, Sound,
     ReadSet, GotSet
<1>5. CASE Stat(r)
  <2>1. /\ tree' = tree /\ quiet' = quiet /\ scans' = scans /\ got' = got /\ entry' = entry /\ loaded' = loaded
        /\ pc'[r] = "compare" /\ stats' = [stats EXCEPT ![r] = Extended(@, ReadSet(entry[r]))]
    BY <1>0, <1>5 DEF Stat, Goto, TypeOK
  <2>2. /\ MemosInOrder(r)'
        /\ quiet[r] => \A x \in Paths : stats'[r][x] \in {0, tree[x]}
        /\ \A x \in ReadSet(entry[r]) \cap Paths : stats'[r][x] # 0
    BY <2>1, FillStats
  <2>3. QuietMemos(r)' /\ Statted(r)'
    BY <1>0, <2>1, <2>2 DEF RunInv, QuietMemos, Statted, ReadSet
  <2> QED BY <1>0, <2>1, <2>2, <2>3, KeepsEntries DEF RunInv, IdleEmpty, Sound, ReadSet
<1>6. CASE Hit(r)
  <2>1. /\ tree' = tree /\ quiet' = quiet /\ scans' = scans /\ stats' = stats /\ got' = got
        /\ entry'[r] = NoEntry /\ pc'[r] = "walk" /\ entry[r] \in Entry
        /\ loaded'[r] = [loaded[r] EXCEPT ![prog[r]] = entry[r]]
    BY <1>0, <1>6 DEF Hit, Goto, Answer, TypeOK
  <2>2. Sound(entry[r])
    BY <1>0, <1>6 DEF Hit, RunInv, TypeOK
  <2>3. ASSUME quiet[r], entry[r].calm PROVE Current(entry[r])
    <3>1. \A x \in ReadSet(entry[r]) : entry[r].lines[x] = stats[r][x] /\ stats[r][x] = tree[x]
      BY <1>0, <1>6, <2>3 DEF Hit, Changed, RunInv, Statted, QuietMemos, ReadSet
    <3>2. \A x \in ReadSet(entry[r]) : tree[x] \in Nat /\ entry[r].listing[x] \in Nat
      BY <1>0, <2>1, CacheAssumption DEF TypeOK, Entry, ReadSet
    <3> QED BY <2>2, <2>3, <3>1, <3>2 DEF Sound, Current
  <2>4. AnswersCurrent(r)' /\ \A p \in Programs : loaded'[r][p] # NoEntry => Sound(loaded[r][p])'
    BY <1>0, <2>1, <2>2, <2>3 DEF RunInv, AnswersCurrent, Current, Sound, ReadSet, TypeOK
  <2> QED BY <1>0, <2>1, <2>4 DEF RunInv, MemosInOrder, QuietMemos, Statted, IdleEmpty
<1>7. CASE Patch(r)
  <2> DEFINE e == Patched(entry[r], Changed(r), stats[r], Extended(scans[r], Changed(r)))
  <2>1. /\ tree' = tree /\ quiet' = quiet /\ stats' = stats /\ got' = got
        /\ entry'[r] = NoEntry /\ pc'[r] = "walk" /\ pc[r] = "compare"
        /\ loaded'[r] = [loaded[r] EXCEPT ![prog[r]] = e]
        /\ scans' = [scans EXCEPT ![r] = Extended(@, Changed(r))]
    BY <1>0, <1>7 DEF Patch, Goto, Answer, TypeOK
  <2>2. Sound(e) /\ (quiet[r] /\ e.calm => Current(e))
    BY <1>7, PatchSound
  <2> HIDE DEF e
  <2>3. AnswersCurrent(r)' /\ \A p \in Programs : loaded'[r][p] # NoEntry => Sound(loaded[r][p])'
    BY <1>0, <2>1, <2>2 DEF RunInv, AnswersCurrent, Current, Sound, ReadSet, TypeOK
  <2>4. \A x \in Changed(r) \cap Paths : stats[r][x] # 0
    BY <1>0, <2>1 DEF RunInv, Statted, Changed
  <2>5. MemosInOrder(r)' /\ (quiet[r] => \A x \in Paths : scans'[r][x] \in {0, tree[x]})
    BY <2>1, <2>4, FillScans
  <2> QED BY <1>0, <2>1, <2>3, <2>5 DEF RunInv, QuietMemos, Statted, IdleEmpty
<1>8. CASE Stale(r)
  <2>1. PICK S \in SUBSET (Changed(r) \cap Sources) : scans' = [scans EXCEPT ![r] = Extended(@, S)]
    BY <1>8 DEF Stale
  <2>2. /\ tree' = tree /\ quiet' = quiet /\ stats' = stats /\ got' = got /\ loaded' = loaded
        /\ entry'[r] = NoEntry /\ pc'[r] = "list" /\ pc[r] = "compare"
    BY <1>0, <1>8 DEF Stale, Goto, TypeOK
  <2>3. \A x \in S \cap Paths : stats[r][x] # 0
    BY <1>0, <2>2 DEF RunInv, Statted, Changed
  <2>4. MemosInOrder(r)' /\ (quiet[r] => \A x \in Paths : scans'[r][x] \in {0, tree[x]})
    BY <2>1, <2>2, <2>3, FillScans
  <2> QED BY <1>0, <2>2, <2>4, KeepsEntries DEF RunInv, QuietMemos, Statted, IdleEmpty
<1>9. CASE Listed(r) \/ SaveAbandoned(r) \/ Kill(r) \/ SaveWrite(r) \/ \E y \in Paths : Read(r, y)
  <2>1. /\ tree' = tree /\ quiet' = quiet /\ stats' = stats /\ scans' = scans /\ loaded' = loaded
        /\ entry' = entry /\ pc'[r] \in {"list", "save", "walk"}
    BY <1>0, <1>9 DEF Listed, SaveAbandoned, Kill, SaveWrite, Read, Goto, mem, TypeOK
  <2>2. \A x \in Paths : got'[r][x] \in {0, tree[x], got[r][x]}
    <3>1. CASE Listed(r) \/ SaveWrite(r)
      BY <3>1 DEF Listed, SaveWrite
    <3>2. CASE Kill(r)
      <4>1. got' = got \/ got' = [got EXCEPT ![r] = Nothing]
        BY <3>2 DEF Kill
      <4> QED BY <1>0, <4>1 DEF TypeOK
    <3>3. ASSUME NEW y \in Paths, Read(r, y) PROVE \A x \in Paths : got'[r][x] \in {0, tree[x], got[r][x]}
      BY <1>0, <3>3 DEF Read, TypeOK
    <3>4. CASE SaveAbandoned(r)
      BY <1>0, <3>4 DEF SaveAbandoned, TypeOK
    <3> QED BY <1>9, <3>1, <3>2, <3>3, <3>4
  <2>3. QuietMemos(r)'
    BY <1>0, <2>1, <2>2 DEF RunInv, QuietMemos
  <2> QED BY <1>0, <2>1, <2>3, KeepsEntries DEF RunInv, MemosInOrder, Statted, IdleEmpty, Sound, ReadSet
<1>10. CASE SaveStat(r)
  <2>1. /\ tree' = tree /\ quiet' = quiet /\ scans' = scans /\ got' = got /\ entry' = entry /\ loaded' = loaded
        /\ pc'[r] = "scan" /\ stats' = [stats EXCEPT ![r] = Extended(@, GotSet(r))]
    BY <1>0, <1>10 DEF SaveStat, Goto, TypeOK
  <2>2. /\ MemosInOrder(r)'
        /\ quiet[r] => \A x \in Paths : stats'[r][x] \in {0, tree[x]}
        /\ \A x \in GotSet(r) \cap Paths : stats'[r][x] # 0
    BY <2>1, FillStats
  <2>3. QuietMemos(r)' /\ Statted(r)'
    BY <1>0, <2>1, <2>2 DEF RunInv, QuietMemos, Statted, GotSet
  <2> QED BY <1>0, <2>1, <2>2, <2>3, KeepsEntries DEF RunInv, IdleEmpty, Sound, ReadSet
<1>11. CASE SaveScan(r)
  <2>1. /\ tree' = tree /\ quiet' = quiet /\ stats' = stats /\ entry' = entry /\ pc[r] = "scan"
        /\ pc'[r] = "write" /\ got'[r] = Nothing
        /\ \A p \in Programs \ {prog[r]} : loaded'[r][p] = loaded[r][p]
        /\ scans' = [scans EXCEPT ![r] = Extended(@, GotSet(r) \cap Sources)]
    BY <1>0, <1>11 DEF SaveScan, Goto, TypeOK
  <2>2. LET e == loaded'[r][prog[r]]
        IN  e # NoEntry => Sound(e) /\ (quiet[r] /\ e.calm => Current(e))
    BY <1>11, SaveSound
  <2>3. AnswersCurrent(r)' /\ \A p \in Programs : loaded'[r][p] # NoEntry => Sound(loaded[r][p])'
    BY <1>0, <2>1, <2>2 DEF RunInv, AnswersCurrent, Current, Sound, ReadSet
  <2>4. \A x \in (GotSet(r) \cap Sources) \cap Paths : stats[r][x] # 0
    BY <1>0, <2>1 DEF RunInv, Statted
  <2>5. MemosInOrder(r)' /\ (quiet[r] => \A x \in Paths : scans'[r][x] \in {0, tree[x]})
    BY <2>1, <2>4, FillScans
  <2>6. entry'[r] # NoEntry => Sound(entry[r])'
    BY <1>0, <2>1 DEF RunInv, Sound, ReadSet
  <2> QED BY <1>0, <2>1, <2>3, <2>5, <2>6 DEF RunInv, QuietMemos, Statted, IdleEmpty
<1> QED BY <1>1, <1>2, <1>3, <1>4, <1>5, <1>6, <1>7, <1>8, <1>9, <1>10, <1>11 DEF Step, Load, List, Save

\* What a step of a run writes to the cache is sound.
LEMMA StepDisk ==
  ASSUME IInv, NEW r \in Runs, Step(r), NEW p \in Programs, disk'[p] # NoEntry
  PROVE  Sound(disk[p])'
<1>1. tree' = tree
  BY DEF Step, Start, End, Crash, Gone, Ask, WritePending, Load, Stat, Hit, Patch, Stale, List, Listed,
     Kill, Read, Save, SaveAbandoned, SaveStat, SaveScan, SaveWrite
<1>2. disk'[p] = disk[p] \/ disk'[p] = loaded[r][p]
  BY DEF Step, Start, End, Crash, Gone, Ask, WritePending, Load, Stat, Hit, Patch, Stale, List, Listed,
     Kill, Read, Save, SaveAbandoned, SaveStat, SaveScan, SaveWrite, Written, IInv, TypeOK
<1> QED BY <1>1, <1>2 DEF IInv, RunInv, Sound, ReadSet

LEMMA NextIInv == IInv /\ [Next]_vars => IInv'
<1> SUFFICES ASSUME IInv, [Next]_vars PROVE IInv'
  OBVIOUS
<1>1. TypeOK'
  BY NextTypeOK DEF IInv
<1>2. ASSUME NEW r \in Runs, Step(r) PROVE IInv'
  <2>1. \A q \in Runs : RunInv(q)'
    BY <1>2, StepRunInv, StepFrame
  <2> QED BY <1>1, <1>2, <2>1, StepDisk DEF IInv
<1>3. CASE UNCHANGED vars
  BY <1>3 DEF vars, IInv, TypeOK, RunInv, MemosInOrder, QuietMemos, Statted, AnswersCurrent, IdleEmpty, Sound,
     Current, ReadSet, GotSet
<1> QED BY <1>2, <1>3, EditIInv DEF Next

LEMMA IInvCorrect == Spec => []IInv
  BY InitIInv, NextIInv, PTL DEF Spec

\* An entry listed in a run no edit fell into is reused only while it
\* describes the tree, for any number of runs and edits.
THEOREM EntriesSound == Spec => []CalmEntriesAreSound
<1>1. IInv => CalmEntriesAreSound
  <2> SUFFICES ASSUME IInv, NEW p \in Programs, disk[p] # NoEntry, disk[p].calm, Validates(disk[p])
               PROVE  Current(disk[p])
    BY DEF CalmEntriesAreSound
  <2>1. Sound(disk[p]) /\ disk[p] \in Entry
    BY DEF IInv, TypeOK
  <2>2. \A x \in ReadSet(disk[p]) : tree[x] \in Nat /\ disk[p].listing[x] \in Nat
    BY <2>1, CacheAssumption DEF IInv, TypeOK, Entry, ReadSet
  <2> QED BY <2>1, <2>2 DEF Sound, Validates, Current
<1> QED BY <1>1, IInvCorrect, PTL

\* A run no edit falls into answers every program as the tree stands.
THEOREM AnswersAreCurrent == Spec => []QuietRunAnswersCurrent
<1>1. IInv => QuietRunAnswersCurrent
  BY DEF IInv, RunInv, AnswersCurrent, QuietRunAnswersCurrent
<1> QED BY <1>1, IInvCorrect, PTL

-----------------------------------------------------------------------------
(* Entries are whole.                                                      *)

Lists(p, e) == Reads[p] \subseteq ReadSet(e)

\* What a run has of a program that prints no diagnostic is all of it, from
\* the moment its tsgo ended.
RunWhole(r) ==
    /\ \A p \in Programs \ Diagnosed : loaded[r][p] # NoEntry => Lists(p, loaded[r][p])
    /\ prog[r] \notin Diagnosed =>
          /\ entry[r] # NoEntry => Lists(prog[r], entry[r])
          /\ pc[r] \in {"save", "scan"} => Reads[prog[r]] \subseteq GotSet(r)
    /\ pc[r] \notin {"validate", "compare"} => entry[r] = NoEntry


WholeInv ==
    /\ TypeOK
    /\ \A p \in Programs \ Diagnosed : disk[p] # NoEntry => Lists(p, disk[p])
    /\ \A r \in Runs : RunWhole(r)

\* A patch lists what its entry lists.
LEMMA PatchLists ==
  ASSUME TypeOK, NEW r \in Runs, entry[r] \in Entry
  PROVE  LET e == Patched(entry[r], Changed(r), stats[r], Extended(scans[r], Changed(r)))
         IN  ReadSet(e) = ReadSet(entry[r])
<1> DEFINE old == entry[r]
           S == Changed(r)
           scan == Extended(scans[r], S)
           e == Patched(old, S, stats[r], scan)
<1>1. \A x \in Paths : e.listing[x] = IF x \in S /\ old.listing[x] = old.specs[x] THEN scan[x] ELSE old.listing[x]
  BY DEF Patched, Entry
<1>2. \A x \in S : x \in ReadSet(old) /\ x \in Paths
  BY DEF Changed, ReadSet
<1>3. \A x \in S : scan[x] # 0
  BY <1>2, CacheAssumption DEF Extended, TypeOK
<1> HIDE DEF e, S, scan, old
<1> QED BY <1>1, <1>2, <1>3 DEF ReadSet, e, S, scan, old

\* A run's own step keeps what it has whole.
LEMMA StepWhole ==
  ASSUME WholeInv, NEW r \in Runs, Step(r)
  PROVE  RunWhole(r)'
<1>0. TypeOK /\ RunWhole(r)
  BY DEF WholeInv
<1>1. CASE Start(r)
  BY <1>0, <1>1 DEF Start, RunWhole, TypeOK, GotSet, Lists, ReadSet
<1>2. CASE End(r) \/ Crash(r)
  <2>1. pc'[r] = "idle" /\ entry'[r] = NoEntry /\ \A p \in Programs : loaded'[r][p] = NoEntry
    BY <1>0, <1>2 DEF End, Crash, Gone, TypeOK
  <2> QED BY <2>1 DEF RunWhole
<1>3. ASSUME NEW p \in Programs, Ask(r, p) PROVE RunWhole(r)'
  <2>1. /\ pc'[r] = (IF disk[p] = NoEntry THEN "list" ELSE "validate")
        /\ entry'[r] = disk[p] /\ prog'[r] = p /\ loaded' = loaded
    BY <1>0, <1>3 DEF Ask, Goto, TypeOK
  <2> QED BY <1>0, <2>1 DEF WholeInv, RunWhole, Lists, ReadSet
<1>4. ASSUME NEW p \in Programs, WritePending(r, p) PROVE RunWhole(r)'
  BY <1>0, <1>4 DEF WritePending, RunWhole, Lists, ReadSet, GotSet
<1>5. CASE Stat(r)
  BY <1>0, <1>5 DEF Stat, Goto, RunWhole, TypeOK, Lists, ReadSet, GotSet
<1>6. CASE Hit(r)
  <2>1. /\ entry'[r] = NoEntry /\ pc'[r] = "walk" /\ prog' = prog
        /\ loaded'[r] = [loaded[r] EXCEPT ![prog[r]] = entry[r]]
    BY <1>0, <1>6 DEF Hit, Goto, Answer, TypeOK
  <2> QED BY <1>0, <2>1 DEF RunWhole, Lists, ReadSet, TypeOK
<1>7. CASE Patch(r)
  <2> DEFINE e == Patched(entry[r], Changed(r), stats[r], Extended(scans[r], Changed(r)))
  <2>1. /\ entry'[r] = NoEntry /\ pc'[r] = "walk" /\ prog' = prog
        /\ loaded'[r] = [loaded[r] EXCEPT ![prog[r]] = e]
    BY <1>0, <1>7 DEF Patch, Goto, Answer, TypeOK
  <2>2. entry[r] \in Entry /\ entry[r] # NoEntry
    BY <1>0, <1>7 DEF Patch, TypeOK
  <2>3. ReadSet(e) = ReadSet(entry[r])
    BY <1>0, <2>2, PatchLists
  <2> HIDE DEF e
  <2>4. prog[r] \notin Diagnosed => Lists(prog[r], e)
    BY <1>0, <2>2, <2>3 DEF RunWhole, Lists
  <2> QED BY <1>0, <2>1, <2>4 DEF RunWhole, Lists, ReadSet, TypeOK
<1>8. CASE Stale(r)
  <2>1. entry'[r] = NoEntry /\ pc'[r] = "list" /\ prog' = prog /\ loaded' = loaded
    BY <1>0, <1>8 DEF Stale, Goto, TypeOK
  <2> QED BY <1>0, <2>1 DEF RunWhole, Lists, ReadSet
<1>9. ASSUME NEW y \in Paths, Read(r, y) PROVE RunWhole(r)'
  <2>1. entry' = entry /\ pc' = pc /\ pc[r] = "list" /\ prog' = prog /\ loaded' = loaded
    BY <1>9 DEF Read, mem
  <2> QED BY <1>0, <2>1 DEF RunWhole, Lists, ReadSet
<1>10. CASE Listed(r)
  <2>1. /\ entry' = entry /\ pc'[r] = "save" /\ prog' = prog /\ loaded' = loaded /\ got' = got
        /\ pc[r] = "list" /\ \A x \in Reads[prog[r]] : got[r][x] # 0
    BY <1>0, <1>10 DEF Listed, Goto, mem, TypeOK
  <2>2. Reads[prog[r]] \subseteq GotSet(r)
    BY <1>0, <2>1, CacheAssumption DEF GotSet, TypeOK
  <2> QED BY <1>0, <2>1, <2>2 DEF RunWhole, Lists, ReadSet, GotSet
<1>11. CASE Kill(r)
  <2>1. /\ entry' = entry /\ prog' = prog /\ loaded' = loaded /\ pc[r] = "list"
        /\ prog[r] \notin Diagnosed => pc'[r] = "walk"
        /\ pc'[r] \in {"save", "walk"}
    BY <1>0, <1>11 DEF Kill, Goto, mem, TypeOK
  <2> QED BY <1>0, <2>1 DEF RunWhole, Lists, ReadSet
<1>12. CASE SaveAbandoned(r) \/ SaveWrite(r)
  <2>1. entry' = entry /\ pc'[r] = "walk" /\ prog' = prog /\ loaded' = loaded /\ pc[r] \in {"save", "write"}
    BY <1>0, <1>12 DEF SaveAbandoned, SaveWrite, Goto, mem, TypeOK
  <2> QED BY <1>0, <2>1 DEF RunWhole, Lists, ReadSet
<1>13. CASE SaveStat(r)
  BY <1>0, <1>13 DEF SaveStat, Goto, RunWhole, TypeOK, Lists, ReadSet, GotSet
<1>14. CASE SaveScan(r)
  <2>1. /\ entry' = entry /\ pc'[r] = "write" /\ prog' = prog /\ pc[r] = "scan"
        /\ \A p \in Programs \ {prog[r]} : loaded'[r][p] = loaded[r][p]
        /\ loaded'[r][prog[r]].listing = got[r]
    BY <1>0, <1>14 DEF SaveScan, Goto, TypeOK
  <2>2. ReadSet(loaded'[r][prog[r]]) = GotSet(r)
    BY <2>1 DEF ReadSet, GotSet
  <2> QED BY <1>0, <2>1, <2>2 DEF RunWhole, Lists, ReadSet
<1> QED BY <1>1, <1>2, <1>3, <1>4, <1>5, <1>6, <1>7, <1>8, <1>9, <1>10, <1>11, <1>12, <1>13, <1>14
        DEF Step, Load, List, Save

\* The entry of a program without a diagnostic lists all the program reads,
\* for any number of processes that are killed, patch and write at any moment.
THEOREM WholeEntries ==
  Spec => [](\A p \in Programs \ Diagnosed : disk[p] # NoEntry => Lists(p, disk[p]))
<1>1. Init => WholeInv
  BY InitTypeOK DEF Init, WholeInv, RunWhole
<1>2. WholeInv /\ [Next]_vars => WholeInv'
  <2> SUFFICES ASSUME WholeInv, [Next]_vars PROVE WholeInv'
    OBVIOUS
  <2>0. TypeOK' /\ TypeOK
    BY NextTypeOK DEF WholeInv
  <2>1. ASSUME NEW x \in Paths, Edit(x) PROVE WholeInv'
    BY <2>0, <2>1 DEF Edit, mem, WholeInv, RunWhole, Lists, ReadSet, GotSet
  <2>2. ASSUME NEW r \in Runs, Step(r) PROVE WholeInv'
    <3>1. ASSUME NEW q \in Runs, q # r PROVE RunWhole(q)'
      <4>1. /\ pc'[q] = pc[q] /\ entry'[q] = entry[q] /\ got'[q] = got[q] /\ prog'[q] = prog[q]
            /\ loaded'[q] = loaded[q]
        BY <2>0, <2>2, <3>1 DEF Step, Start, End, Crash, Gone, Ask, WritePending, Load, Stat, Hit, Patch, Stale,
           Answer, List, Listed, Kill, Read, Save, SaveAbandoned, SaveStat, SaveScan, SaveWrite, Goto, TypeOK
      <4> QED BY <4>1 DEF WholeInv, RunWhole, Lists, ReadSet, GotSet
    <3>2. \A q \in Runs : RunWhole(q)'
      BY <2>2, <3>1, StepWhole
    <3>3. ASSUME NEW p \in Programs \ Diagnosed, disk'[p] # NoEntry PROVE Lists(p, disk'[p])
      <4>1. disk'[p] = disk[p] \/ disk'[p] = loaded[r][p]
        BY <2>0, <2>2 DEF Step, Start, End, Crash, Gone, Ask, WritePending, Load, Stat, Hit, Patch, Stale, List,
           Listed, Kill, Read, Save, SaveAbandoned, SaveStat, SaveScan, SaveWrite, Written, TypeOK
      <4> QED BY <3>3, <4>1 DEF WholeInv, RunWhole
    <3>4. \A p \in Programs \ Diagnosed : disk'[p] # NoEntry => Lists(p, disk'[p])
      BY <3>3
    <3> QED BY <2>0, <3>2, <3>4 DEF WholeInv, Lists, ReadSet
  <2>3. CASE UNCHANGED vars
    BY <2>0, <2>3 DEF vars, mem, WholeInv, RunWhole, Lists, ReadSet, GotSet
  <2> QED BY <2>1, <2>2, <2>3 DEF Next
<1>3. WholeInv => \A p \in Programs \ Diagnosed : disk[p] # NoEntry => Lists(p, disk[p])
  BY DEF WholeInv
<1> QED BY <1>1, <1>2, <1>3, PTL DEF Spec

\* EntriesAreWhole: where no program prints a diagnostic, every entry is the
\* listing of a tsgo that ran to its end.
THEOREM EntriesWhole ==
  ASSUME Diagnosed = {}
  PROVE  Spec => []EntriesAreWhole
<1>1. (\A p \in Programs \ Diagnosed : disk[p] # NoEntry => Lists(p, disk[p])) <=> EntriesAreWhole
  BY DEF EntriesAreWhole, Lists
<1> QED BY <1>1, WholeEntries, PTL

-----------------------------------------------------------------------------
(* The work of a run is kept.                                              *)

\* One process at a time: another could write over what the first has saved.
Alone == \A q, r \in Runs : q = r

\* What a run answered is on disk, or is about to be written there, or could not
\* be; and what it asks is not answered yet.
RunKept(r) ==
    /\ pc[r] \in {"validate", "compare"} => entry[r] = disk[prog[r]]
    /\ pc[r] \in {"validate", "compare", "list", "save", "scan"} => loaded[r][prog[r]] = NoEntry
    /\ pc[r] = "write" => loaded[r][prog[r]] # NoEntry
    /\ \A p \in pending[r] : loaded[r][p] # NoEntry
    /\ \A p \in Programs : loaded[r][p] # NoEntry =>
          \/ disk[p] = loaded[r][p] \/ p \in pending[r]
          \/ pc[r] = "write" /\ prog[r] = p
          \/ p \in unwritten[r]

\* In a quiet run an answer has the stat lines of the tree.
AnswersValid(r) ==
    quiet[r] => \A p \in Programs : loaded[r][p] # NoEntry => Validates(loaded[r][p])

KeptInv == IInv /\ \A r \in Runs : RunKept(r) /\ AnswersValid(r)

\* A step of a run answers nothing under stat lines that are not the tree's.
LEMMA StepValid ==
  ASSUME KeptInv, NEW r \in Runs, Step(r)
  PROVE  AnswersValid(r)'
<1>0. TypeOK /\ RunInv(r) /\ AnswersValid(r) /\ IInv
  BY DEF KeptInv, IInv
<1>1. CASE Hit(r)
  <2>1. /\ tree' = tree /\ quiet' = quiet /\ entry[r] \in Entry
        /\ loaded'[r] = [loaded[r] EXCEPT ![prog[r]] = entry[r]]
    BY <1>0, <1>1 DEF Hit, Answer, TypeOK
  <2>2. ASSUME quiet[r] PROVE Validates(entry[r])
    BY <1>0, <1>1, <2>2 DEF Hit, Changed, RunInv, Statted, QuietMemos, ReadSet, Validates
  <2> QED BY <1>0, <2>1, <2>2 DEF AnswersValid, Validates, ReadSet, TypeOK
<1>2. CASE Patch(r)
  <2> DEFINE e == Patched(entry[r], Changed(r), stats[r], Extended(scans[r], Changed(r)))
  <2>1. /\ tree' = tree /\ quiet' = quiet /\ entry[r] \in Entry /\ pc[r] = "compare"
        /\ loaded'[r] = [loaded[r] EXCEPT ![prog[r]] = e]
    BY <1>0, <1>2 DEF Patch, Answer, TypeOK
  <2>2. ReadSet(e) = ReadSet(entry[r])
    BY <1>0, <2>1, PatchLists
  <2>3. \A x \in ReadSet(entry[r]) : e.lines[x] = stats[r][x]
    BY <2>1 DEF Patched, Entry, Restricted, ReadSet
  <2>4. ASSUME quiet[r], NEW x \in ReadSet(entry[r]) PROVE stats[r][x] = tree[x]
    BY <1>0, <2>1, <2>4 DEF RunInv, Statted, QuietMemos, ReadSet
  <2> HIDE DEF e
  <2>5. quiet[r] => Validates(e)
    BY <2>2, <2>3, <2>4 DEF Validates
  <2> QED BY <1>0, <2>1, <2>5 DEF AnswersValid, Validates, ReadSet, TypeOK
<1>3. CASE SaveScan(r)
  <2>1. /\ tree' = tree /\ quiet' = quiet /\ pc[r] = "scan"
        /\ \A p \in Programs \ {prog[r]} : loaded'[r][p] = loaded[r][p]
        /\ loaded'[r][prog[r]].listing = got[r]
        /\ loaded'[r][prog[r]].lines = Restricted(stats[r], GotSet(r))
    BY <1>0, <1>3 DEF SaveScan, TypeOK
  <2>2. ReadSet(loaded'[r][prog[r]]) = GotSet(r)
    BY <2>1 DEF ReadSet, GotSet
  <2>3. \A x \in GotSet(r) : loaded'[r][prog[r]].lines[x] = stats[r][x]
    BY <2>1 DEF Restricted, GotSet
  <2>4. ASSUME quiet[r], NEW x \in GotSet(r) PROVE stats[r][x] = tree[x]
    BY <1>0, <2>1, <2>4 DEF RunInv, Statted, QuietMemos, GotSet
  <2>5. quiet[r] => Validates(loaded'[r][prog[r]])
    BY <2>2, <2>3, <2>4 DEF Validates
  <2> QED BY <1>0, <2>1, <2>5 DEF AnswersValid, Validates, ReadSet
<1>4. CASE Start(r)
  <2>1. \A p \in Programs : loaded'[r][p] = NoEntry
    BY <1>0, <1>4 DEF Start, mem, RunInv, IdleEmpty
  <2> QED BY <2>1 DEF AnswersValid
<1>5. CASE End(r) \/ Crash(r)
  <2>1. \A p \in Programs : loaded'[r][p] = NoEntry
    BY <1>0, <1>5 DEF End, Crash, Gone, TypeOK
  <2> QED BY <2>1 DEF AnswersValid
<1>6. CASE \/ \E p \in Programs : Ask(r, p) \/ WritePending(r, p)
           \/ Stat(r) \/ Stale(r) \/ Listed(r) \/ Kill(r) \/ \E x \in Paths : Read(r, x)
           \/ SaveAbandoned(r) \/ SaveStat(r) \/ SaveWrite(r)
  <2>1. tree' = tree /\ quiet' = quiet /\ loaded' = loaded
    BY <1>6 DEF Ask, WritePending, Stat, Stale, Listed, Kill, Read, SaveAbandoned, SaveStat, SaveWrite, mem
  <2> QED BY <1>0, <2>1 DEF AnswersValid, Validates, ReadSet
<1> QED BY <1>1, <1>2, <1>3, <1>4, <1>5, <1>6 DEF Step, Load, List, Save

\* A step of the only run leaves nothing it answered unwritten and forgotten.
LEMMA StepKept ==
  ASSUME KeptInv, NEW r \in Runs, Step(r)
  PROVE  RunKept(r)'
<1>0. TypeOK /\ RunKept(r) /\ RunInv(r)
  BY DEF KeptInv, IInv
<1>1. CASE Start(r)
  <2>1. pc'[r] = "walk" /\ loaded' = loaded /\ pending' = pending /\ \A p \in Programs : loaded[r][p] = NoEntry
    BY <1>0, <1>1 DEF Start, mem, RunInv, IdleEmpty, TypeOK
  <2> QED BY <1>0, <2>1 DEF RunKept, TypeOK
<1>2. CASE End(r) \/ Crash(r)
  <2>1. pc'[r] = "idle" /\ pending'[r] = {} /\ \A p \in Programs : loaded'[r][p] = NoEntry
    BY <1>0, <1>2 DEF End, Crash, Gone, TypeOK
  <2> QED BY <2>1 DEF RunKept
<1>3. ASSUME NEW p \in Programs, Ask(r, p) PROVE RunKept(r)'
  <2>1. /\ pc[r] = "walk" /\ pc'[r] \in {"list", "validate"} /\ entry'[r] = disk[p] /\ prog'[r] = p
        /\ loaded[r][p] = NoEntry /\ loaded' = loaded /\ pending' = pending /\ disk' = disk
        /\ unwritten' = unwritten
    BY <1>0, <1>3 DEF Ask, Goto, mem, TypeOK
  <2> QED BY <1>0, <2>1 DEF RunKept
<1>4. ASSUME NEW p \in Programs, WritePending(r, p) PROVE RunKept(r)'
  <2>1. /\ loaded[r][p] # NoEntry /\ loaded' = loaded /\ pc' = pc /\ prog' = prog /\ entry' = entry
        /\ pending'[r] = pending[r] \ {p} /\ (disk'[p] = loaded[r][p] \/ p \in unwritten'[r])
        /\ unwritten[r] \subseteq unwritten'[r] /\ \A q \in Programs \ {p} : disk'[q] = disk[q]
    BY <1>0, <1>4 DEF WritePending, Written, RunKept, TypeOK
  <2>2. prog[r] \in Programs
    BY <1>0 DEF TypeOK
  <2> QED BY <1>0, <2>1, <2>2 DEF RunKept
<1>5. CASE Hit(r)
  <2>1. /\ pc[r] = "compare" /\ pc'[r] = "walk" /\ disk' = disk /\ pending' = pending /\ prog' = prog
        /\ loaded'[r][prog[r]] = entry[r] /\ entry[r] # NoEntry
        /\ \A p \in Programs \ {prog[r]} : loaded'[r][p] = loaded[r][p]
        /\ unwritten' = unwritten
    BY <1>0, <1>5 DEF Hit, Goto, Answer, TypeOK
  <2>2. pending[r] \subseteq Programs
    BY <1>0 DEF TypeOK
  <2> QED BY <1>0, <2>1, <2>2 DEF RunKept
<1>6. CASE Patch(r)
  <2> DEFINE e == Patched(entry[r], Changed(r), stats[r], Extended(scans[r], Changed(r)))
  <2>1. /\ pc'[r] = "walk" /\ disk' = disk /\ pending'[r] = pending[r] \cup {prog[r]}
        /\ loaded'[r][prog[r]] = e /\ pc[r] = "compare" /\ unwritten' = unwritten
        /\ \A p \in Programs \ {prog[r]} : loaded'[r][p] = loaded[r][p]
    BY <1>0, <1>6 DEF Patch, Goto, Answer, TypeOK
  <2>2. entry[r] \in Entry /\ pending[r] \subseteq Programs
    BY <1>0, <1>6 DEF Patch, TypeOK
  <2>3. loaded'[r][prog[r]] # NoEntry
    <3>1. Extended(scans[r], Changed(r)) \in Snapshot
      BY <1>0, ExtendedType DEF TypeOK
    <3>2. e \in Entry
      BY <1>0, <2>2, <3>1, PatchedType DEF TypeOK
    <3> QED BY <3>2, <2>1, NoEntryAssumption
  <2> HIDE DEF e
  <2> QED BY <1>0, <2>1, <2>2, <2>3 DEF RunKept
<1>7. CASE Stat(r) \/ Stale(r) \/ Listed(r) \/ Kill(r) \/ SaveAbandoned(r) \/ SaveStat(r) \/ \E x \in Paths : Read(r, x)
  <2>1. /\ disk' = disk /\ loaded' = loaded /\ pending' = pending /\ prog' = prog
        /\ unwritten' = unwritten /\ pc[r] \in {"validate", "compare", "list", "save"}
        /\ pc'[r] \in {"compare", "list", "save", "scan", "walk"}
        /\ pc'[r] = "compare" => pc[r] = "validate" /\ entry' = entry
    BY <1>0, <1>7 DEF Stat, Stale, Listed, Kill, SaveAbandoned, SaveStat, Read, Goto, mem, TypeOK
  <2> QED BY <1>0, <2>1 DEF RunKept
<1>8. CASE SaveScan(r)
  <2>1. /\ pc'[r] = "write" /\ disk' = disk /\ pending' = pending /\ prog' = prog /\ pc[r] = "scan"
        /\ unwritten' = unwritten
        /\ \A p \in Programs \ {prog[r]} : loaded'[r][p] = loaded[r][p]
    BY <1>0, <1>8 DEF SaveScan, Goto, TypeOK
  <2>2. scans'[r] \in Snapshot /\ pending[r] \subseteq Programs
    BY <1>0, NextTypeOK DEF Next, TypeOK
  <2>3. /\ Restricted(stats[r], GotSet(r)) \in Snapshot
        /\ Restricted(scans'[r], GotSet(r) \cap Sources) \in Snapshot
    BY <1>0, <2>2, RestrictedType DEF TypeOK
  <2>4. loaded'[r][prog[r]] \in Entry
    BY <1>0, <1>8, <2>3 DEF SaveScan, TypeOK, Entry
  <2> QED BY <1>0, <2>1, <2>2, <2>4, NoEntryAssumption DEF RunKept
<1>9. CASE SaveWrite(r)
  <2>1. /\ pc'[r] = "walk" /\ pending' = pending /\ prog' = prog /\ loaded' = loaded /\ pc[r] = "write"
        /\ disk'[prog[r]] = loaded[r][prog[r]] \/ prog[r] \in unwritten'[r]
        /\ unwritten[r] \subseteq unwritten'[r]
        /\ \A p \in Programs \ {prog[r]} : disk'[p] = disk[p]
    BY <1>0, <1>9 DEF SaveWrite, Written, Goto, mem, TypeOK
  <2> QED BY <1>0, <2>1 DEF RunKept
<1> QED BY <1>1, <1>2, <1>3, <1>4, <1>5, <1>6, <1>7, <1>8, <1>9 DEF Step, Load, List, Save

\* EndedRunIsReused: a process that ends in a tree nobody edited has left, for
\* each program it answered and could write, an entry the next one validates.
THEOREM EndedReused ==
  ASSUME Alone
  PROVE  Spec => EndedRunIsReused
<1>1. Init => KeptInv
  <2> SUFFICES ASSUME Init PROVE KeptInv
    OBVIOUS
  <2>1. IInv
    BY InitIInv
  <2> QED BY <2>1 DEF Init, KeptInv, RunKept, AnswersValid
<1>2. KeptInv /\ [Next]_vars => KeptInv'
  <2> SUFFICES ASSUME KeptInv, [Next]_vars PROVE KeptInv'
    OBVIOUS
  <2>0. IInv'
    BY NextIInv DEF KeptInv
  <2>1. ASSUME NEW x \in Paths, Edit(x) PROVE \A r \in Runs : RunKept(r)' /\ AnswersValid(r)'
    BY <2>1 DEF Edit, mem, KeptInv, RunKept, AnswersValid
  <2>2. ASSUME NEW r \in Runs, Step(r) PROVE \A q \in Runs : RunKept(q)' /\ AnswersValid(q)'
    BY <2>2, StepKept, StepValid DEF Alone
  <2>3. CASE UNCHANGED vars
    <3>1. /\ tree' = tree /\ disk' = disk /\ pc' = pc /\ prog' = prog /\ entry' = entry
          /\ loaded' = loaded /\ pending' = pending /\ quiet' = quiet /\ unwritten' = unwritten
      BY <2>3 DEF vars, mem
    <3>2. \A r \in Runs : RunKept(r)' /\ AnswersValid(r)'
      BY <3>1 DEF KeptInv, RunKept, AnswersValid, Validates, ReadSet
    <3> QED BY <2>0, <3>2 DEF KeptInv
  <2> QED BY <2>0, <2>1, <2>2, <2>3 DEF Next, KeptInv
<1>3. ASSUME KeptInv, NEW r \in Runs, pc[r] = "walk", End(r), quiet[r],
             NEW p \in Programs \ unwritten[r], loaded[r][p] # NoEntry
      PROVE  disk[p] # NoEntry /\ Validates(disk[p])
  <2>1. pending[r] = {}
    BY <1>3 DEF End
  <2>2. disk[p] = loaded[r][p]
    BY <1>3, <2>1 DEF KeptInv, RunKept
  <2> QED BY <1>3, <2>2 DEF KeptInv, AnswersValid
<1>4. KeptInv => \A r \in Runs : pc[r] = "walk" /\ End(r) /\ quiet[r] =>
         \A p \in Programs \ unwritten[r] :
             loaded[r][p] # NoEntry => disk[p] # NoEntry /\ Validates(disk[p])
  BY <1>3
<1> QED BY <1>1, <1>2, <1>4, PTL DEF Spec, EndedRunIsReused
=============================================================================
