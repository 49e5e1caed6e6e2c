---------------------------- MODULE SourceOwners ----------------------------
(***************************************************************************)
(* gazelle/owner.go: which package of a tree holds a file, as a source of   *)
(* its compiler rules or as their data (generate.go, dataFiles).            *)
(*                                                                         *)
(* Programs list files as the compiler resolves them, so several programs   *)
(* may list one file and a program may list files far from it.  A tree t is *)
(* a record of what the walk and the listings found:                        *)
(*   listed    directory -> the files its program lists, {} if no program   *)
(*   present   the files on disk that Gazelle does not exclude              *)
(*   observed  the directories Gazelle walked                               *)
(*   walked    directory -> "yes", "no" (TypeScript is not generated there) *)
(*             or "unset"                                                   *)
(*   foreign   directories of projects pnpm does not install                *)
(*   outputs   files a rule declares as an output                           *)
(*   trees     files under an output directory of a ts_codegen              *)
(*   build     directory -> "none", "plain" or "ignore" (# gazelle:ignore)  *)
(***************************************************************************)
EXTENDS RepoTree

CONSTANTS
    Outside,      \* files under node_modules, or outside the repository
    SourceLike,   \* files with an extension of JavaScript or TypeScript
    Metadata,     \* BUILD files, package.json, tsconfig.json
    Twin          \* declaration -> the JavaScript it shadows, or None

VARIABLE found    \* the tree of this run, or None

FirstParty == Files \ Outside

\* generatedOutput.
GeneratedFile(t, f) == f \in FirstParty /\ f \in t.outputs \cup t.trees

\* record: the first-party files of a program make its directory a package.
PackageFiles(t, d) == {f \in t.listed[d] \cap FirstParty : ~GeneratedFile(t, f)}
Packages(t) == {d \in Dirs : PackageFiles(t, d) # {}}

\* visit keeps the regular files of the directories walked.
SourceFile(t, f) == f \in FirstParty \cap t.present /\ DirOf[f] \in t.observed

\* update_only leaves directories unset; the nearest BUILD file above decides,
\* unless a directory whose answer is known comes first.
GenerationDisabled(t, dir) ==
    LET d == Nearest(dir, {e \in Dirs : t.walked[e] # "unset" \/ t.build[e] # "none"})
    IN  CASE d = None               -> FALSE
          [] t.walked[d] # "unset"  -> t.walked[d] = "no"
          [] d = Root               -> FALSE
          [] OTHER                  -> t.build[d] = "ignore"

\* Variant: the walk goes on past a package that does not list the file.
OwnerAnywhere(t, f) ==
    IF f \in t.outputs \/ ~SourceFile(t, f) \/ GenerationDisabled(t, DirOf[f]) \/ DirOf[f] \in t.foreign
    THEN None
    ELSE Nearest(DirOf[f], {d \in Packages(t) : f \in PackageFiles(t, d) /\ t.walked[d] = "yes"})

\* owner: the nearest package has the file or nobody has.
Owner(t, f) ==
    LET d == Nearest(DirOf[f], Packages(t))
    IN  IF \/ f \in t.outputs \/ ~SourceFile(t, f)
           \/ GenerationDisabled(t, DirOf[f]) \/ DirOf[f] \in t.foreign
           \/ d = None
        THEN None
        ELSE IF f \in PackageFiles(t, d) /\ t.walked[d] = "yes" THEN d ELSE None

\* srcs: with each declaration the JavaScript it hides from the compiler.
Srcs(t, d) ==
    LET own == {f \in PackageFiles(t, d) : Owner(t, f) = d /\ ~GeneratedFile(t, f)}
    IN  own \cup {j \in {Twin[f] : f \in own} \ {None} :
                    SourceFile(t, j) /\ j \notin PackageFiles(t, d) /\ ~GeneratedFile(t, j)}

\* dataFiles: what no listing decides, to the nearest package.
NearestPackage(t, dir) ==
    LET d == Nearest(dir, Packages(t)) IN IF d = None THEN Root ELSE d
Data(t, d) ==
    {f \in t.present \ (SourceLike \cup Metadata) :
        LET dir == DirOf[f] IN
        /\ dir \in t.observed /\ t.walked[dir] = "yes" /\ dir \notin t.foreign
        /\ Inside(dir, d) /\ NearestPackage(t, dir) = d
        /\ ~GeneratedFile(t, f)}

\* reportUnowned: listed files nobody owns, after a walk of everything.
Reported(t) ==
    IF t.walked[Root] # "yes" THEN {}
    ELSE {f \in UNION {PackageFiles(t, d) : d \in Dirs} : f \notin t.outputs /\ Owner(t, f) = None}

-----------------------------------------------------------------------------
Places(t, f) == {d \in Packages(t) : f \in Srcs(t, d) \cup Data(t, d)}

\* A file has at most one place, as a source, as data or - a listed .json - as
\* both, and no package lies between: a label of the outer one could not name
\* it.  After a walk of everything, what a program lists is placed or named in
\* the log.
HaveOnePlace(t) ==
    \A f \in FirstParty :
        /\ \A d \in Places(t, f) :
              Places(t, f) = {d} /\ d = Nearest(DirOf[f], Packages(t))
        /\ t.walked[Root] = "yes" =>
              \A d \in Packages(t) :
                 f \in PackageFiles(t, d) => Places(t, f) # {} \/ f \in Reported(t)

(* reportUnowned and owner (gazelle/owner.go), dataFiles (generate.go): a    *)
(* file is a source or data of one package at most, the nearest, and what a  *)
(* program lists is placed or logged.                                        *)
FilesHaveOnePlace == found # None => HaveOnePlace(found)
=============================================================================
