----------------------------- MODULE OutputIndex -----------------------------
(***************************************************************************)
(* gazelle/resolve.go, emission.go, manifest.go: which rule writes a file.   *)
(* The question is asked for every file of every program, so the answers     *)
(* are kept twice: per BUILD file in an index of its outputs, and per file   *)
(* in a memo.  Gazelle edits the rule lists of BUILD files between the       *)
(* callbacks, without a word; the callbacks themselves register, replace     *)
(* and delete rules, and a question may register the rules it comes across.  *)
(*                                                                         *)
(* The rules are numbers, in the order of their file.  g.rules holds the     *)
(* objects of the file, so a merge edits both.  Of a version or an epoch it  *)
(* matters here only whether it is still the one a cache was made at.        *)
(***************************************************************************)
EXTENDS RepoTree

CONSTANTS
    BuildDirs,        \* directories that have a BUILD file, or get one
    Rules, Home,      \* rule -> the directory of its BUILD file
    Managed,          \* rules of the language's kinds, which Imports is called for
    OutputFiles,      \* files and output directories
    PlaceOf,          \* output -> the directory it lies in
    Declarable,       \* rule -> the sets of outputs it may declare
    Unset             \* not answered yet

VARIABLES
    list,        \* directory -> the rules of its BUILD file
    decl,        \* rule -> the outputs it declares
    cache,       \* registered rules, index, recorded files, memo
    running,     \* a callback runs
    imports,     \* merged rules whose Imports callback is to come
    asked        \* the question that is on its way up the directories, or None

vars == <<list, decl, cache, running, imports, asked>>

NoMemo == [o \in OutputFiles |-> Unset]
Init ==
    /\ decl \in [Rules -> UNION {Declarable[r] : r \in Rules}]
    /\ \A r \in Rules : decl[r] \in Declarable[r]
    /\ list = [d \in BuildDirs |-> {r \in Rules : Home[r] = d}]
    /\ cache = [registered |-> {}, index |-> [d \in BuildDirs |-> None],
                recorded |-> [d \in BuildDirs |-> None], memo |-> NoMemo]
    /\ running = FALSE /\ imports = {} /\ asked = None

First(S) == IF S = {} THEN None ELSE CHOOSE r \in S : \A o \in S : r <= o

-----------------------------------------------------------------------------
(* Operations on the caches c.                                              *)

\* Variant: a callback trusts what the last one kept.
NoEpoch(c) == c

\* listEpoch: the memo goes, an index or record must be compared again.
Doubted(entries) ==
    [d \in BuildDirs |-> IF entries[d] = None THEN None ELSE [entries[d] EXCEPT !.epoch = FALSE]]
NextEpoch(c) ==
    [registered |-> c.registered, index |-> Doubted(c.index), recorded |-> Doubted(c.recorded),
     memo |-> NoMemo]

\* bump: what was made for the package at its old version goes; the memo goes
\* if an output is declared before or after.
Bump(c, r, outputs, registered) ==
    [registered |-> registered,
     index    |-> [c.index EXCEPT ![Home[r]] = None],
     recorded |-> [c.recorded EXCEPT ![Home[r]] = None],
     memo     |-> IF outputs THEN NoMemo ELSE c.memo]
setRule(c, r) == Bump(c, r, decl[r] # {}, c.registered \cup {r})
deleteRule(c, r) ==
    Bump(c, r, r \in c.registered /\ decl[r] # {}, c.registered \ {r})

\* Cached answers for a file's rules, as long as the rules are the same.
Current(entry, d) == entry # None /\ (entry.epoch \/ entry.rules = list[d])

\* recordBuild and observeBuilds: the rules not yet registered, in d and above.
Observed(c, d) ==
    LET dirs == {e \in BuildDirs \cap AtOrAbove(d) : ~Current(c.recorded[e], e)}
        new == (UNION {list[e] : e \in dirs}) \ c.registered
    IN  [registered |-> c.registered \cup new,
         memo |-> IF \E r \in new : decl[r] # {} THEN NoMemo ELSE c.memo,
         index |-> [e \in BuildDirs |-> IF \E r \in new : Home[r] = e THEN None ELSE c.index[e]],
         recorded |-> [e \in BuildDirs |->
            IF e \in dirs THEN [rules |-> list[e], epoch |-> TRUE]
            ELSE IF e \in AtOrAbove(d) THEN [c.recorded[e] EXCEPT !.epoch = TRUE] ELSE c.recorded[e]]]

Declaring(d, o) == First({r \in list[d] : o \in decl[r]})

\* packageOutputs, if every rule of the file is registered.
IndexOf(c, d) ==
    IF Current(c.index[d], d) THEN [c.index[d] EXCEPT !.epoch = TRUE]
    ELSE [rules |-> list[d], epoch |-> TRUE, by |-> [o \in OutputFiles |-> Declaring(d, o)]]
Indexed(c, d) == [c EXCEPT !.index[d] = IndexOf(c, d)]
HasIndex(c, d) == Current(c.index[d], d) \/ list[d] \subseteq c.registered

\* declaredOutputProducer in one directory: by the index, or by a scan that
\* registers what it meets.
Look(c, d, o) ==
    IF d \notin BuildDirs THEN [cache |-> c, by |-> None]
    ELSE IF HasIndex(c, d) THEN [cache |-> Indexed(c, d), by |-> IndexOf(c, d).by[o]]
    ELSE [cache |-> Observed(c, d), by |-> Declaring(d, o)]

\* The answer goes to the memo the question began with: nowhere if the scan
\* made that memo void.
Remember(c, before, o, r) ==
    IF \E n \in c.registered \ before : decl[n] # {} THEN c
    ELSE [c EXCEPT !.memo[o] = r]

-----------------------------------------------------------------------------
\* Between the callbacks Gazelle merges a file: rules come and go, and those
\* the language manages may declare other outputs.  Imports is called next.
Merge(d) ==
    /\ ~running /\ imports = {}
    /\ \E rules \in SUBSET {r \in Rules : Home[r] = d}, to \in [Managed -> UNION {Declarable[r] : r \in Managed}] :
         /\ \A r \in Managed : to[r] \in (IF r \in rules THEN Declarable[r] ELSE {decl[r]})
         /\ list' = [list EXCEPT ![d] = rules]
         /\ decl' = [r \in Rules |-> IF r \in Managed THEN to[r] ELSE decl[r]]
         /\ imports' = rules \cap Managed
    /\ UNCHANGED <<cache, running, asked>>

\* The callback of a merged rule registers it.
Imports(r) ==
    /\ ~running /\ r \in imports
    /\ cache' = setRule(NextEpoch(cache), r)
    /\ running' = TRUE /\ imports' = imports \ {r}
    /\ UNCHANGED <<list, decl, asked>>

\* Any other callback.
Enter ==
    /\ ~running /\ imports = {}
    /\ cache' = NextEpoch(cache) /\ running' = TRUE
    /\ UNCHANGED <<list, decl, imports, asked>>

\* A callback that is not in the middle of a question.
Free == running /\ asked = None

Leave ==
    /\ Free /\ running' = FALSE
    /\ UNCHANGED <<list, decl, cache, imports, asked>>

\* GenerateRules and the refresh replace the list of a file still to be written.
Replace(d) ==
    /\ Free
    /\ \E rules \in SUBSET {r \in Rules : Home[r] = d} :
         list' = [list EXCEPT ![d] = rules]
    /\ cache' = NextEpoch(cache)
    /\ UNCHANGED <<decl, running, imports, asked>>
Withdraw(r) ==
    /\ Free /\ r \in list[Home[r]]
    /\ list' = [list EXCEPT ![Home[r]] = @ \ {r}]
    /\ cache' = deleteRule(NextEpoch(cache), r)
    /\ UNCHANGED <<decl, running, imports, asked>>
Observe(d) ==
    /\ Free
    /\ cache' = Observed(cache, d)
    /\ UNCHANGED <<list, decl, running, imports, asked>>

\* outputProducer and codegenTreeOwner: what the memo does not know is asked of
\* the directories from the output's own upwards, each looked at in turn.
Ask(o) ==
    /\ Free /\ cache.memo[o] = Unset
    /\ asked' = [for |-> o, at |-> PlaceOf[o], registered |-> cache.registered]
    /\ UNCHANGED <<list, decl, cache, running, imports>>
LookUp ==
    /\ asked # None
    /\ LET here == Look(cache, asked.at, asked.for)
       IN  IF here.by = None /\ asked.at # Root
           THEN /\ cache' = here.cache
                /\ asked' = [asked EXCEPT !.at = Up[@]]
           ELSE /\ cache' = Remember(here.cache, asked.registered, asked.for, here.by)
                /\ asked' = None
    /\ UNCHANGED <<list, decl, running, imports>>

Next ==
    \/ \E d \in BuildDirs : Merge(d) \/ Replace(d) \/ Observe(d)
    \/ \E r \in Rules : Imports(r) \/ Withdraw(r)
    \/ \E o \in OutputFiles : Ask(o)
    \/ LookUp \/ Enter \/ Leave
Spec == Init /\ [][Next]_vars

-----------------------------------------------------------------------------
\* The rule a scan of the BUILD files as they are finds, nearest file first.
Writer(o) ==
    LET d == Nearest(PlaceOf[o], {e \in BuildDirs : Declaring(e, o) # None})
    IN  IF d = None THEN None ELSE Declaring(d, o)

\* While a callback runs, no kept answer differs from what a scan would find,
\* whatever Gazelle merged before it and the callback did so far: the memo, the
\* index of a file, and the record that its rules are registered.
IndexAnswersMatch ==
    running =>
        /\ \A o \in OutputFiles : cache.memo[o] \in {Unset, Writer(o)}
        /\ \A d \in BuildDirs :
              /\ Current(cache.index[d], d) =>
                    \A o \in OutputFiles : cache.index[d].by[o] = Declaring(d, o)
              /\ Current(cache.recorded[d], d) => list[d] \subseteq cache.registered
=============================================================================
