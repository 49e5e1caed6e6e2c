----------------------------- MODULE Generation -----------------------------
(***************************************************************************)
(* gazelle/generate.go: the rules of one directory are written twice.       *)
(* GenerateRules writes them from what the rules read so far declare, and   *)
(* registers every name it may want later, for Gazelle fixes the rules to   *)
(* resolve before the index is complete; refreshProgramRules writes them    *)
(* again from what all rules declare, over the file Gazelle merged.         *)
(*                                                                         *)
(* A BUILD file is a function from the names Gazelle owns to None or a rule *)
(* [other, keep, vals, kept]: whether it is of another kind, kept as a      *)
(* whole, its attribute values and those of them marked # keep.             *)
(***************************************************************************)
EXTENDS RepoTree

CONSTANTS
    Values,   \* attribute values, sources among them
    Entry, ConfigFile, VitestFile, WranglerFile    \* values of fixed rules

\* A directory: its file before the run, and what is known of its program when
\* the rules are written first and last.
VARIABLE directory

\* ownedRuleNames: ts_compile, ts_test, ts_dev_server, ts_config and two
\* filegroups.
Owned == {"compile", "test", "dev", "config", "vitest", "wrangler"}

\* What a directory should hold by k: its program's sources by class, its data
\* files and metadata.  No target if k.package is FALSE.
packageRules(k) ==
    [n \in Owned |->
       CASE n = "compile" /\ k.library # {} -> k.library \cup k.declaration \cup k.data
         [] n = "test" /\ k.test # {} ->
              k.test \cup k.declaration \cup (IF k.library = {} THEN k.data ELSE {})
         [] n = "dev" /\ k.library # {} /\ k.app -> {Entry}
         [] n = "config" /\ ~k.manifest -> {ConfigFile}
         [] n = "vitest" /\ k.vitest -> {VitestFile}
         [] n = "wrangler" /\ k.wrangler -> {WranglerFile}
         [] OTHER -> {}]

\* An extended tsconfig.json and the root's configs stay without a program.
nonPackageRules(k) ==
    [n \in Owned |->
       CASE n = "config" /\ k.extended -> {ConfigFile}
         [] n = "vitest" /\ k.root /\ k.vitest -> {VitestFile}
         [] n = "wrangler" /\ k.root /\ k.wrangler -> {WranglerFile}
         [] OTHER -> {}]

Wanted(k) == IF k.package THEN packageRules(k) ELSE nonPackageRules(k)
Gen(k) == {n \in Owned : Wanted(k)[n] # {}}

New(vals) == [other |-> FALSE, keep |-> FALSE, vals |-> vals, kept |-> {}]

\* rule.MergeRules over managed attributes.
MergeRules(have, vals) ==
    IF have.keep THEN have ELSE [have EXCEPT !.vals = vals \cup have.kept]

IsEmpty(r) == r.vals = {}

\* merger.MergeFile: generated rules are merged or inserted, empty ones emptied
\* and then deleted.  A rule of another kind keeps its name.
MergeFile(file, gen, wanted, empty) ==
    [n \in Owned |->
       LET have == file[n]
           emptied == MergeRules(have, {})
       IN  CASE n \in gen /\ have = None -> New(wanted[n])
             [] n \in gen /\ have # None /\ ~have.other -> MergeRules(have, wanted[n])
             [] n \in empty /\ have # None /\ ~have.other ->
                  IF IsEmpty(emptied) /\ ~have.keep THEN None ELSE emptied
             [] OTHER -> have]

\* Variant: an empty rule is withdrawn before its name is needed again.
RegisterOnlyWanted(file, k) == MergeFile(file, Gen(k), Wanted(k), Owned \ Gen(k))

\* registerProgramRules: every owned name is generated, some without a value.
Register(file, k) == MergeFile(file, Owned, Wanted(k), {})

\* Variant: what is not wanted any more keeps the values it was given.
RefreshWanted(file, k) ==
    [n \in Owned |->
       IF n \in Gen(k) /\ file[n] # None /\ ~file[n].other THEN MergeRules(file[n], Wanted(k)[n])
       ELSE file[n]]

\* refreshProgramRules: a registered rule takes the values wanted now; one not
\* wanted is discarded unless it is the user's or kept values remain.
Refresh(file, k) ==
    [n \in Owned |->
       IF file[n] = None \/ file[n].other THEN file[n]
       ELSE LET effective == MergeRules(file[n], Wanted(k)[n])
            IN  IF n \notin Gen(k) /\ ~effective.keep /\ IsEmpty(effective) THEN None
                ELSE effective]

\* A run; without a program of its own, the directory is written once.
Run(file, early, final) ==
    IF early.program THEN Refresh(Register(file, early), final)
    ELSE MergeFile(file, Gen(early), Wanted(early), Owned \ Gen(early))

\* reportTakenNames.
Taken(file, k) == {n \in Gen(k) : file[n] # None /\ file[n].other}

-----------------------------------------------------------------------------
Once(file, k) == MergeFile(file, Gen(k), Wanted(k), Owned \ Gen(k))

\* What the rules said in between leaves no trace: the file is the one a run
\* that knew everything would have written at once, and the next run leaves it
\* alone.  Every rule wanted is there, but for names the log gives as taken.
Regenerates(file, early, final) ==
    LET after == Run(file, early, final)
    IN  early.program =>
          /\ after = Once(file, final)
          /\ Run(after, early, final) = after
          /\ \A n \in Gen(final) \ Taken(file, final) :
                after[n] # None /\ (after[n].keep \/ Wanted(final)[n] \subseteq after[n].vals)

(* registerProgramRules and refreshProgramRules (generate.go): writing the   *)
(* rules twice is writing them once with all the knowledge, and is stable.   *)
RefreshRegenerates ==
    directory # None => Regenerates(directory.file, directory.early, directory.final)
=============================================================================
