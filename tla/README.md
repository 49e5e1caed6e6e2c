# A verification project for rules_typescript

TLA+ specifications of the parts of rules_typescript that keep state, run
concurrently or decide something from an order nobody wrote down. They are
checked with TLC on small instances and proved with TLAPS where a result should
hold for every instance. `PROJECT.json` ties each definition to the source lines
it stands for, and names the runs, the hazards and the theorems.

Run a check with `tlc -config X.cfg MCX.tla`, a proof with `tlapm XProofs.tla`.

## 1. The system

rules_typescript builds TypeScript with Bazel. A BUILD-file generator (Gazelle,
Go) and analysis-phase rules (Starlark) decide what is built. Go actions run
tsgo and stage trees. Launchers (Go) start tests, binaries and dev servers. A
Vite plugin and a tsserver plugin (TypeScript, JavaScript) follow builds while
they happen.

| Part | State it keeps | Operations | Talks to | What is hard | What makes it correct |
|---|---|---|---|---|---|
| Listing prefetch (`gazelle/prefetch.go`) | job map, queue, worker count, stop flag, a once per job, the projection lock | request, take, work, stop | `runListing` in `program.go`, the compiler process | workers against the walk; stop against a running listing; a writer against readers | the walk cannot tell it from serial listing |
| Listing cache (`listing_cache.go`, `incremental/snapshot.go`) | entries on disk; memos of stat lines, scans and answers; pending writes | load, validate, patch, save, wait | the prefetch, tsgo, other gazelle processes | edits during a run, crashes, two processes | an entry is reused only while it is true |
| Listing patch (`listing_patch.go`) | the entry: files, edges, probes, specifiers | patch or refuse | the cache | patches of patches | a patch equals what tsgo would list |
| Emission (`emission.go`, `language.go`) | visited, required and promoted labels; the programs still to be completed | visit, promote, refuse, complete | rule resolution, the owner index | Go-map order, recursion through completions, cycles | the result does not depend on the order, and a mode once read stands |
| Dependency minimising (`minimizeDependencies` in `resolve.go`) | retained dependencies, the fixed supply, owners already asked | fix the supply, index readers, try to drop each | the listings, the owner index | what a dependency supplies depends on what the others supply | what is dropped is still supplied, what stays is needed |
| Source ownership (`owner.go`) | the listings of a run, the directories walked | place, report | listings, BUILD files | programs that list each other's files; directories nobody generates | a file is in the rules of one package, or reported |
| Programs (`program.go`, `owner.go`) | the listing of a directory, the selection made from it | discover, reconcile, select | tsgo, its trace | generated files that are absent, or stale in the checkout | the program is the one a build compiles |
| Rule generation (`generate.go`, `language.go`) | the BUILD file, before and after Gazelle's merge | generate, register, refresh, export | Gazelle, which fixes the names to resolve before the index is complete | rules are written twice from different knowledge | the second writing is what one writing with the final knowledge gives |
| Output index (`resolve.go`, `manifest.go`) | an index per BUILD file, a memo per file, the rules registered | ask, merge, replace, withdraw | Gazelle's edits between the callbacks | caches over lists that others edit | an answer is the rule that declares the file now |
| Resolution (`resolve.go`) | the dependencies of a rule, labels followed | walk edges, follow labels | listings, the index, emission | sources nobody emits, aliases, kept rules | the rule compiles with what it names |
| Dev-server launcher (`tools/launcher`) | the `node_modules` link, the signal channel, the child | anchor, supervise, clean up | other launchers of the workspace, ibazel, the terminal | three processes at one path, signals at any moment | a running server has its tree, a rebuild never stops it, Ctrl-C does |
| Other launchers (`vitest.go`, `node.go`, ...) | argv, environment | plan, exec | runfiles | - | the plan names existing files |
| Vite output watch (`vite/src/watcher.ts`) | one handle per path with its inode, pending changes, timer | start, event, scan, flush, stop | bazel's writes, Vite's module graph | the tree changes between two system calls | at rest everything is watched and reported |
| Vite config watch (`watcher.ts`, `plugin.ts`) | digests, handles, a timer; the server and the one that replaces it | snapshot, attach, event, check, restart, close | Vite's restart | a change before a handle attaches, or while the new server starts | the server runs the config of what the files hold, or says why not |
| Vite resolver | declared files | resolve | Vite | - | - |
| Editor map (`tools/tsserver-hook-*.js`) | a watcher per package directory, a rebuild timer, posted maps, the main thread's copy | build, watch, read, post, receive | bazel's writes, `refresh_tsconfig`, tsserver | directories replaced while they are read | the editor gets the map of the tree |
| Compile action (`ts/tools/tsaction`) | the program root (links, copies, `node_modules`), what the tool listed, the stamp | lay out, run, check, verify, stamp | tsgo, Bazel | one step of several failing, a root left by an action that was killed, overlays over sources, chains of importers | the root is what was declared, no stamp without its checks |
| Editor projects (`editor.go`, `showconfig.go` of `tsaction`) | none between runs: the listing, the aliases | relocate, pin, refuse | tsgo's listing, the editor that opens the project | the checkout holds outputs of earlier builds where the compiler sees none | the editor selects what the compiler selects, or there is no project |
| Runtime view (`ts/tools/runtimeview`, `launcher.bzl`) | the outputs a rule declares; the tree that is made | declare, stage, link modules, place copies and npm packages | Bazel's runfiles, Node's lookup | entries above entries, several entries of one artifact, links between modules and stores; rule and action decide separately | each entry shows its artifact, each module finds its stores, what was declared is made |
| npm store (`npm/`) | lock file, store entries, hoisted links | translate, fetch, hoist | pnpm-lock.yaml | peer variants, hoisting conflicts | Node resolves what the lock file names |
| Rules (`ts/private`) | none: providers and actions of one analysis | declare | Bazel | - | depsets reach what a target needs |
| oxc emitter, eslint rule, repository tools | none between runs | - | - | - | - |

How they interact: the walk over the directories asks the **prefetch** for a
listing. A job runs `runListingContext`, which asks the **cache**, which
validates, **patches** or lists again. The listings tell **resolution** which
file a program reads and so which rule owns it. **Emission** walks the rules
once more and completes the programs it reaches. The rules built from them
leave declarations, fragments and JavaScript in bazel-bin. The **editor map** and
the **output watch** read those while bazel replaces them. The **launcher** starts
the server that holds the watch. A **runtime view** is the tree a test or a native
binary runs in.

## 2. The modules

### SerialListing, ListingPrefetch

`SerialListing` is what the walk is promised: it asks for a program and is
answered with that program's listing, one at a time. `ListingPrefetch` is
`prefetch.go`: the walk and the workers are processes with a program counter.
One action is one critical section of `p.mu`, one side of `sync.Once`, or one
side of the projection lock.

* `Request`, `Take`, `Direct`, `Stop` are `prefetchListing`, `compilerListing`
  and `stopPrefetch`; `WorkerWait`, `WorkerExit`, `WorkerPop` are the loop of
  `work`.
* `OnceEnter`, `RLock`, `Finish`, `OnceReturn` are `listingJob.run`: who enters
  the once, the shared lock, the listing itself, and what later callers see.
* `LockProjection`, `WriteProjection`, `RemoveProjection` are the writer in
  `listCompilerProgramContext`.

A listing that the stop killed gives the outcome `"cancelled"`.
`NoCancelledResult` says that no directory gets one.

### ListingCache

A path is a version number. An entry holds the versions that were listed, the
versions behind the stat lines it was saved under, and the versions that were
scanned for specifiers. A tsgo reads its paths one by one (`Read`), and the tree
may change between any two steps of a run. `Kill` is a tsgo that died of the
cancelled context. `Crash` drops a process with its memos, and `SaveWrite` and
`WritePending` put an entry on disk, by a rename or not at all (`Written`): `writeListing` and
`saveListing` give up a write that fails without a word. The history variable `unwritten`
names the programs it happened to.

The history variable `quiet` marks runs no edit fell into, and an entry is `calm`
when such a run listed it. `prefetch.go:17` assumes no edits during a run, so
the main invariant, `CalmEntriesAreSound`, speaks of calm entries only.

### The modules of MCGazelle

`MCGazelle` puts what Gazelle computes between its callbacks over one small repository
(`RepoTree`). `subject` says which question a behaviour is about: a history, of
the patch or of the index, or one input of an algorithm. An algorithm's module keeps its
input in a variable of its own (`found`, `directory`, `checkout`, `configured`, `split`,
`world`, `consumer`), and `None` when the question is another. The `InputsAssumption` of
`MCGazelle` has TLC evaluate, on every input, what the theorems suppose.

* **SourceOwners** - a tree, `found`, is what the walk and the listings found. `Owner` is the
  package that holds a file (`owner.go`), `Srcs` and `Data` what its rules list,
  `Reported` what the run complains about. `HaveOnePlace` compares them.
* **Discovery** - `Discover` is `discoverCompilerProgram`, from a tsconfig.json, a
  package.json or neither, with the refusals; `WithSources` and `CompilerProgram` add the
  sources that rules have. The checkout may hold outputs of earlier builds.
* **ProgramSelection** - a listing is made where generated files do not exist.
  `Select` is `selectProgram`, which reads the probes of the compiler's trace and picks
  what the compiler would have found were they there, with what is known early
  and again, over the same listing, with what is known at the end. `BuiltListing` is the
  listing of a build (external).
* **Generation** - `directory` is a BUILD file with two states of knowledge. `Register` writes every name the rules may need from the early
  knowledge, `Refresh` writes them again over the file that Gazelle merged
  (`MergeFile`, external). `Once` is one writing with the final knowledge.
* **SourceExports** - a BUILD file that a run adds splits the package above it.
  `Relocate` moves the `exports_files` of the files it takes, `Scopes` exports the
  package.json files other packages read.
* **VitestConfig** - `ConfigFor` is the config label a `ts_test` is given, `Selected`
  the file the label leads to, whose imports the test needs.
* **Resolution** - `EdgeDep` is the dependency for one edge, `ConfigDep` for one of the
  vitest config, `Written` the rule that comes of them. The walk goes on through sources
  that no rule emits (`LedTo`). `CompilesAlone` reads the sources as the compiler would, from
  what the written rule names, and `LoadsAlone` the modules of the config as Node would.
* **Forwarding** - `Declared` and `ConfigSource` follow labels through filegroups,
  aliases and codegen rules, to the files or to "cannot be read".
* **OutputIndex** - a state machine: `Merge` is Gazelle's edit of a BUILD file;
  `Imports`, `Enter`, `Leave`, `Replace`, `Withdraw` and `Observe` are the callbacks,
  `Ask` puts the question which rule writes a file, answered from the memo or by
  `LookUp`, one directory a step, each from its index or from the rules of its BUILD file.
  `BuildDirs` are the directories with a BUILD file.

### ListingPatch

The content of a source is its set of specifiers, each a mode and a text, and whether it
holds a reference directive. `FreshListing` is what tsgo prints for a tree (external), and
`PatchedListing` what `patchListing` makes of the old entry: `Added` specifiers take the
edge and the probes of a precedent, `Removed` ones lose theirs. The entry of a patched run is
patched again later, so `PatchesAreFresh` is an invariant over all histories of edits: when
no source has changed since, the entry lists the files, and for the sources that stay the
imports, that tsgo would list.

### Emission

`build` is the graph: kinds, modes, dependencies before and after completion,
the owners each program reads. `Visit`, `VisitRoots` and `NextPhase` are the
walk of `AfterResolvingDeps`. `Start`, `Descend`, `Ask`, `ReadMode` and `Finish`
are a completion in `Resolve`, which completes a pending owner first and so runs
on a stack (`running`). The walk order is any order: the code takes it from Go
maps and slices. `Refused` and `verdict` are the `log.Fatalf`s.

### Supply, ExactMinimize, Minimize, MCResolving

`minimizeDependencies` drops a dependency of a rule when those left still supply
every file it was needed for. `Supply` holds the consumer and its dependencies
(`input`) and what `directSupply`, `suppliedProgramInputs` and
`requiredEdgeUnsupplied` compute, without recursion; `Reach` and `Walks` are the
depth-first walk that stops when every scope is claimed. `ExactMinimize` is the
promise (`TryExact`): each round asks every owner and looks at every dropped
dependency. `Minimize` is the code: once no owner can say anything new (`Settled`,
`WalkSettled`) it counts the supply once, and a round looks only at the dropped
dependencies that read what the candidate alone supplied (`Affected`, `Drops`).
`called` are the owners `sourceOwner` was asked about. `MCResolving` puts the two parts of
resolving side by side: a state is of an update (`build`) or of one rule (`input`).

### EditorProject

A project for an editor has `paths` without the twins in the output tree that the compiler
has (`WithTwins`): the editor would read a stale output in the checkout.
`GeneratedAliases` is `projectGeneratedAliases`, with the keys it adds for generated
directories; `EdgeAliases` is `projectEditorEdges`, which pins a name to the file the
compiler selected (`Exact`). `Refused` are the refusals of `editorRun` and what it
calls. A world has the sources, the generated files and directories, what is built,
what earlier builds left, the aliases and the imports. The compiler's resolution and
the editor's are external. `SelectsWhatIsBuilt` compares them for every set of stale
outputs in the checkout, and, where the aliases were only relocated, after one output has
come or gone. It is checked in the run `action`, whose states are either a compile action
or one such world (`project`).

### ProgramRoot, CompileAction

`ProgramRoot` is what an action may declare (`Actions`) and, whatever the order of
its flags, what its program root has to be: the file at each coordinate
(`DeclaredAt`), what a package name means in a directory (`DeclaredName`), which
sources are in the program and who may use what (`Usable`). `CompileAction` is
`runTsgo`, one step for each link, copy or importer: `LinkSource`, `Inherit`,
`LinkImporter`, `Overlay`, `Manifest`, `Copy` and `Discover` are `layOutProgramRoot`,
`NextPhase` goes to its next loop. `Tool` is tsgo over that root (external): it lists
what it reads from the sources, at the coordinate or at the place a link leads
to, may write to the copies, or fails. `Check` is `checkedRun`, `Verify` compares
the copies, `Stamp` creates the output. A step that fails ends the action.
`Kill` is Bazel stopping it, which leaves the root, and `Start` a later run, for other
inputs, over what was left.

### RuntimeTree, RuntimeView

`RuntimeTree` is a file tree with links: where a path leads (`Real`), what stands at it
(`StandsAt`), what creating it makes (`Put`), what Node finds from a directory
(`Lookup`). `RuntimeView` is the life of a view. `Declare` is `_declare_native_view`:
which artifacts are copied where they are seen (`Placed`), which entries become
links, and the outputs these make (`ViewOutputs`). `Validate`, `Stage`,
`LinkCanonical`, `Materialize`, `PlaceInput` and `LinkChain` are the loops of `Build`, or
of `Resolver.Stage` and `installNodeModules` for the view of a test (`view.native`
tells which), a step for each entry. `Collect` and `PlaceDemand` are
`PlaceNpmContexts`: what each module asks for, then a link for it or the proof that
what is there is met first (`Met`). `Occupied` looks at the tree as it then is, while
the rule decided from the entries alone (`Available`).

### DevServerLink

Each launcher is a process at one of the steps of `anchorNodeModules`
(`Readlink`, `Lstat`, `Symlink`), `Supervise` (`Notify`, `Start`, `Handle`,
`Wait`) and `Run` (`Leave`, `Cleanup`). `link` is what stands at
`<workspace>/node_modules`. `Supervise` asks for eight signals (`Forwarded`). One of them is
`Queued`, or lost when the channel is full; outside the loop's life, and of any other kind, a
signal does what the Go runtime does with it (`Killed`, `Deadly`). `Handle` drops TERM, sends
an interrupt on as TERM and any other signal as it is, so that Ctrl-\ or USR2 may end the server
(`ChildExit`). The history variables `received` and `sent` are of one life of the launcher.

### EditorMap

The worker's `buildResolutionMap` is a loop over packages in three phases, each
package being watched (`Visit`, `Attach`, `Restat`) and then read (`Read`). `Post`
closes unmet watchers and sends the map. `Deliver`, `Rebuild` and `Receive` are
the event loop, the half-second timer and the main thread. `Write`, `Remove`,
`Make` and `Refresh` are bazel and `refresh_tsconfig`, between any two system
calls.

### OutputWatch

`BazelWatcher.watchEntry` calls itself through `scanDirectory`, and its callers
go on after it returns. The module keeps what a handler has still to do as a
stack of frames. Every system call is a step: the first stat (`EntryStep`),
`fs.watch` (`Attach`), the second stat (`Restat`), `readdir` (`Scan`). `Deliver` starts an
`onEvent` with the handle's own entry; `handling` is the event while that runs, and `After`
the rest of `onEvent`, unless the handle was closed meanwhile. `Deliver` and `Flush` are the
event loop, and `Told` what `handleRebuild` makes of a batch: a path without a module
reloads everything. `loaded` is what the browser was last told a file holds.

### ConfigWatch

A server reads its config (`Load`), takes digests of the inputs (`Snapshot`) and attaches a
handle for each directory (`Handle`); what happens before a handle is there is lost to
it and kept in `missed`. `OnFileEvent` is an event, `CheckNow` the debounced check that
compares digests and asks Vite to restart. Vite makes the next server before it
closes the old one (`Switch`, `RestartFails`, `Close`, external). `Replace` is a
directory that bazel replaces. `MCOutputWatch` puts the two watchers of the plugin side by
side (`part`).

## 3. The runs

| Run | Configuration | Checks | Instance |
|---|---|---|---|
| `prefetch` | `ListingPrefetch.cfg` | `NoListingBesideProjection`, `NoLostWakeup`, `StopEndsWorkers`, `ImplementsSerialListing` | 3 programs, 2 workers |
| `cache` | `ListingCache.cfg` | `CalmEntriesAreSound`, `QuietRunAnswersCurrent`, `EntriesAreWhole`, `EndedRunIsReused` | 2 programs sharing a source, 2 edits of each path, one process at a time |
| `gazelle` | `Gazelle.cfg` | `FilesHaveOnePlace`, `SelectionIsTheCompilers`, `RefreshRegenerates`, `ExportsStayWithOwner`, `ConfigLabelSupplies`, `CompilationsAreSelfContained`, `LabelsReachFiles`, `DiscoveryIsOfSources`, `IndexAnswersMatch`, `PatchesAreFresh` | a root, a package, one inside it, another; see below |
| `resolving` | `Resolving.cfg` (`MCResolving`) | `ModesReadStand`, `OrderFree`, `PublishedClosure`, `Terminates`; `DroppedAreSupplied`, `Irredundant`, `ImplementsExact` | every graph on 3 labels, of 3 programs that read each other or of 10 classes of labels; or 3 dependencies, 4 programs, every supply on 3 files of interest |
| `launchers` | `Launchers.cfg` | `LinkOfServer`, `OwnerKeepsLink`, `SignalsPassedOn`, `InterruptEndsLauncher`; `EntriesShown`, `LookupsFindStores`, `DeclaredIsBuilt` | 3 targets with a tree each, one in dump mode, and 3 kinds of signal, or 1 target and 6 kinds; channel of 2; or 2 families of views: 4 entries that overlap; 3 modules in nested directories |
| `editor` | `EditorMap.cfg` | `SettledIsCurrent`, `EventuallyCurrent` | 2 packages, 2 changes, 3 inodes |
| `outputs` | `OutputWatch.cfg` | `SettledIsReported`, `SettledConfigIsCurrent`, `EventuallyReported` | nested directories, a file and a link, 3 changes; or 3 config inputs in 2 directories, 3 changes |
| `action` | `CompileAction.cfg` | `EditorSelectsTheCompilers`, `RootIsDeclared`, `StampedIsChecked` | 3 families of declarations on 6 coordinates and 5 directories, 2 starts; or 24,336 editor projects |
| `cache_killed` | `ListingCacheKilled.cfg` | `EntriesAreWhole` is violated | 1 program with a diagnostic |
| `link_together` | `DevServerLinkTogether.cfg` | `LinkOfServer` is violated | 2 targets of one tree |
| `outputs_replaced` | `OutputWatchReplaced.cfg` | `SettledIsReported` is violated | as `outputs`, 1 change, a link's file replaced while its handle attaches |
| `patch_modes` | `GazelleTwoModes.cfg` (`MCGazelle`) | `PatchesAreFresh` is violated | the histories of one patched listing, over a package whose exports tell import from require |

### Why the bounds are enough

* **prefetch** - two workers are the least that compete for a job and for the
  condition variable. Three programs let one be running, one be queued and one
  be taken by the walk. The theorems cover any number.
* **cache** - a path needs the versions before, during and after a run. The two
  programs share a source so that a memo filled for one is used for the other.
  Concurrent processes are covered by the theorems, for `CalmEntriesAreSound`,
  `QuietRunAnswersCurrent` and `EntriesAreWhole`. `EndedRunIsReused` holds of one process at a time:
  another that is running may overwrite an entry the first has just saved.
* **gazelle** - each algorithm is given every input of a small family, in which two
  directories are nested and a third is apart: the least in which a file can belong to a
  package that is not the nearest, and a package be split. The patch has a precedent,
  the file that is patched and a file elsewhere; a file reached by an import alone, so that
  it can leave the program and come back. The index has two rules in one BUILD file
  and one in another, of which one declares a directory. A walk over sources passes two
  that no rule emits, and labels are followed through three rules, so that a cycle
  and a fork are among them. Early and final knowledge differ in each way in which a
  rule read between them can add an output.
* **resolving** - for emission, three labels allow a chain, a diamond without its tip, every
  cycle up to three, and a completion inside a completion inside a completion.
  The theorems cover any graph. For minimizing, one dependency that is dropped, one that supplies it and one that
  is still a candidate; a fourth program is reached only by the walk. `called`
  starts as any set, so any earlier order of asking is covered.
* **launchers** - `MCLaunchers` puts dev servers and runtime views side by side (`part`).
  In `link` there are three launchers, so that two that run meet the link of a third that
  ends by itself. A channel of two can be full with a Ctrl-C inside it or left
  outside of it; the code has one place per forwarded signal.
  In `signals` there is one launcher, as launchers do not hear of each other's signals. It
  receives both interrupts, TERM, one signal that Go programs die of, one that they
  do not, and KILL. Its lives follow each other without end.
  In `view`, `Overlapping` puts an entry beneath another, beside two that may lead to
  the first, to the same artifact or to its alias, each of them a module or not.
  `Asking` has a module in each of three nested directories and a package scope
  that ask for one package, and links, files or directories where the packages are to
  be placed, also as the workspace's `node_modules`. `Hops` bounds the names and links a
  path leads through; no path of the instance needs as many. A view may only stop when it is
  made or could not be (`ViewStays`).
* **editor** - a removal and a new directory within one build; a package that is
  reached only through another's fragment.
* **outputs** - for the config, three changes are one before the handles, one while the
  next server starts and one after; one directory reports no names, and one input is not
  read again by a restart. For the outputs, three changes are a removal, a directory made and one more
  change, in the middle of any handler. Four changes (2.2 million states) were
  checked as well.

* **action** - the declarations are three families. In `Placing` up to two overlays and
  two manifests meet sources, copies and each other at one coordinate. In `Chains`
  a name is looked up along chains of up to four importers, one of them outside the
  ancestors of the first, under up to two inherited ones. In `Owning` a source is
  excluded, or reaches a file of a direct or of a far dependency, itself or in a
  directory output. `ProjectInit` has a generated directory and a generated file, an authored
  file beside and inside the directory, eleven maps of aliases and a second import of the
  same name in a stricter mode. Two starts are the least that meet a root left behind;
  `Later` bounds what the second declares.
  `WellDeclared` is what the rules declare, and what the theorems suppose. An importer is never
  below a nearer one, and what is inherited is keyed by the importer and leaves the own chain out
  (`ts_compile.bzl:583`). A checked program has no copies and finds no config
  (`tsgo.bzl`; those are of `lint.bzl` and `format.bzl`). A copy outside
  bazel-out is at the coordinate of its own path (`compilerPath`), a JSON file imports nothing, and a
  publication that was moved does not come from the coordinate of an own source.

`CHECK_DEADLOCK FALSE` is set where the tree rests after its bounded changes
(`editor`, `outputs`), where the action has ended (`action`), and where a state is one
input of an algorithm (`gazelle`, `action`): then nothing has to happen.

Where a type invariant is a theorem (section 4) its configuration does not list it, nor
what else of `ListingPrefetch` is proved and follows from `ImplementsSerialListing`
(`OneRunPerJob`, `NoCancelledResult`).

### Fairness

Each liveness property needs only that a thread which can run does, and that a
queued event is delivered:

* `ListingPrefetch`: weak fairness of the walk's own steps and of each worker's,
  that is goroutines are scheduled, and a listing ends or is killed. The walk
  is never obliged to ask for another program.
* `Emission`, `Minimize`: weak fairness of `ResolvingNext` in `MCResolving`: one goroutine
  runs to the end.
* `DevServerLink`: weak fairness of each launcher in its loop and of a server
  that was sent TERM. No signal is ever obliged to come.
* `EditorMap` and `OutputWatch`: weak fairness of the event loop and of the main
  thread. The tree's changes are not fair: they may stop, and are bounded.

## 4. What is proved

| Module | Theorem | For every |
|---|---|---|
| `ListingPrefetchProofs` | `TypeCorrect`, `ProjectionExclusive`, `RunsOnce`, `NeverCancelled`, `WakeupsArrive`, `RefinesSerial` | set of programs, finite set of workers |
| `ListingCacheProofs` | `TypeCorrect`, `EntriesSound`, `AnswersAreCurrent`, `WholeEntries`, `EntriesWhole`, `EndedReused` | set of processes, programs and paths, number of edits |
| `DevServerLinkProofs` | `TypeCorrect`, `OwnersKeepTheirLink`, `ServersHaveTheirTree`, `ServerHearsSignals` | set of launchers, trees and signals, channel capacity |
| `ResolvingProofs` | `TypeCorrect`, `ModesStand`, `OrderIndependent`, `ClosurePublished` | set of labels and of graphs |
| | `MinimizeTypes`, `DroppedStaySupplied`, `NoneIsRedundant`, `FixedImplementsExact` | set of programs and of supplies |
| `CompileActionProofs` | `ActionInvariant`, `RootAsDeclared`, `StampMeansChecked` | set of declarations the rules may make, of files and of directories, number of starts |
| `WatcherProofs` | `OutputInvariant`, `OutputTypes`, `OutputsSettle` | tree of directories, files and links, number of changes |
| | `ConfigInvariant`, `ConfigSettles` | set of inputs, places and versions, number of changes |
| `EditorMapProofs` | `EditorInvariant`, `EditorTypes`, `EditorsSettle` | set of packages, fragments and inodes, number of changes and of unread maps |
| `GazelleProofs` | `IndexInvariant`, `IndexIsTheScan`, `PlacesAreUnique`, `TreesHavePlaces`, `TwiceIsOnce`, `DirectoriesRegenerate` | tree of directories, set of rules, files and values |
| | `PatchedIsFresh` | set of sources, specifiers and answers, every history of edits |
| | `ProgramsAreOfSources`, `ProgramsAreTheCompilers` | checkout, producers and imports; listing, trace and set of outputs |
| | `RulesAreSelfContained` | rules, owners, modes, directives and imports |
| | `LabelsReachTheirEnds` | finite set of labels, rules and how they forward |
| | `TestsReadTheirConfig`, `ExportsFollowOwners` | graph of labels and merged rules; declarations and BUILD files added |

The proofs rest on the `ASSUME`s of the modules, which TLC evaluates on every
instance, and `ServersHaveTheirTree` on the further assumption `TreesApart`:
different targets name different trees. `link_together` shows it is needed. Those of
`OutputWatch` assume `Steady`, that no link's file is replaced while the link's handle
attaches: `outputs_replaced` shows what happens otherwise. The theorems of
`ConfigWatch` and `GazelleProofs` name what they assume of the constants and the input beyond
that. `MCGazelle!InputsAssumption` has TLC evaluate on every input those of the input.

* `Distinct`: the value for no server is not a server. `Placed` and `Beside`: outputs and
  twins lie in directories of the tree. `Rewritable` and `Known`: a rule's values and what is
  known of a directory have the kinds the code gives them.
* `ModesAgree`: a text resolves alike in each mode. `DirectivesApart`: no reference directive
  has the text of an import. `PatchesAreFresh` needs both. The run `patch_modes` shows
  the first. Without the second a removed import takes the edge of a kept directive along, as
  `patchListing` deletes edges by their text (TLC finds it with `Directive = "dep"`).
* `Checkout`: files are finitely many, a rule declares outputs in its own package, and a tree lies in the package of
  its rule. `StemsAreOrdered`: of files that differ in the extension alone, tsgo's precedence
  hides some by others in the same directory, and is an order.
* `World`: kept sources are listed (`withKeptSources`), a directory that a probe missed is no file,
  the edges of a config are type edges, and what links add is of another kind than what a selection
  replaces (`owner.go:107`).
* `Attributed`: every label that is named is a label, an alias names one, a ts_config at most one.
* `Repository`: every target of a label is a label, and no rule has the name of a config.
  `Splitting`: before the run an export is in the package that holds its files, BUILD
  files are added where none was, and `Order` lists every directory.
* `Resolvable`: all sources of a rule start the walk (`Discovery` has `WithSources`), kept files
  are among its sources, Gazelle manages rules in packages that have a program, no directive or
  workspace member names the rule that imports, the listing names a declaration and never the
  JavaScript beside it (`exportedTo`), and a vitest config is a module. `Directed`: a
  `gazelle:resolve` directive names a rule that hands its sources on, or the only one that has the
  file. Without it (a directive to a rule that emits, over a file another dependency
  compiles from source) the walk ends at the file and TLC finds an import of it unnamed.

**Prefetch.** `NoCancelledResult` is not inductive: it needs that a stop leaves
neither jobs nor queue (`StoppedIsEmpty`), that a job is killed only after a stop
(`KilledAfterStop`), that only the holder of the once runs the job
(`OnceGuards`), and that the walk, when it stops the prefetch, is not waiting for
a job (`WalkIdle`). `RefinesSerial` then follows step by step: a worker's steps
leave the walk's question and answer alone, and the walk's steps are those of
the serial listing or change neither. `WakeupsArrive` counts: a walk that adds a job wakes one
worker and a worker that takes one leaves the others' turns alone, so the queue is never
longer than the workers awake, unless all are. It needs the workers finite.

**Cache.** An entry that validates is true only because its stat lines were
taken in an order: a run fills `stats` of a path before it scans it, both after
the listing was read, and none later than the tree is (`MemosInOrder`). `Sound`
says of an entry that, if its lines equal the tree, so do its listing and its
scans. `RunInv` carries the same for an entry under construction, at each
program counter. An edit can only make lines older than the tree, so soundness
survives it. A patch keeps it because it takes lines and scans of the changed
paths from memos in that order.

`WholeInv` follows a listing from the end of its tsgo through memory, disk and patches: of a
program without a diagnostic it has every read, since `Kill` alone could save less.
`EntriesWhole` assumes that there is no diagnostic, and `cache_killed` shows why. `RunKept`
says that what a process answered is on disk, about to be written there, or in the hands of a background
write that `End` waits for; what it asks, it has not answered. `EndedReused` assumes `Alone`,
one process at a time, as the run does, and speaks of the entries that could be written: of the
others the older one stays, and the other invariants hold of it.

**Launcher.** `OwnerInv` says that a link which a launcher owns is the tree it
wants and that no other launcher owns one. Nobody removes or replaces an existing
link but its owner. `ServerInv` needs the trees apart: then whoever finds its
own tree at the path is the only one that can remove it. `SignalInv` is `SignalsPassedOn` with
`StartedInv`, that the loop is not reached without a server: a signal leaves the channel only
for a server that is there, or after it ended.

**Emission.** The hardest one. The visits made and still to be made stay between
two sets that do not depend on the order. They are sound: every label in
`seen`, `required` and `work` is in the least closed set of visits, defined
without recursion as the intersection of all closed sets (`Sound`). They are
complete: what a closed rule asks for is visited, is in `work`, or belongs to a
completion still pending or running (`Complete`, `FrameInv`). At the end `work`,
`pending` and `running` are empty, so the visits are closed and hence equal to the
least closed set (`DoneIsClosed`, `OrderFree`). `ReadInv` says that a mode that was
read is the mode of a rule whose promotion can no longer happen, because a
required owner was promoted before it was read (`SelfRequired`). `VerdictInv`
ties a refusal to something that is demanded.

**Minimizing.** Supply is monotone in the retained set. `SupplyInv` says that a
fixed supply holds what it would hold if counted anew, `WalkInv` that a complete walk
stays complete, `NeededInv` that a dependency which was kept is needed by every
smaller set. `SuppliesAgree` shows that
the order of asking does not change an answer, and `DropsExactly` that testing the
affected dependencies alone decides the same as testing all: this is the step of
`FixedImplementsExact`.

**Compile action.** Every loop may stop half way, and a killed run leaves its tree to a later
one, so `RootIsDeclared` needs to say what the tree is after any number of turns. `TreeInv`: in each
phase the tree is the one that the inputs laid out so far make of an empty root, at each coordinate
(`Final` says what that is at the end). A phase that ended cannot have met a conflict, or it
would have failed (`WellPlaced`, `NotGenerated`). `ModulesInv`: a `node_modules` directory holds the
links of the inherited importers and of those in the chain that were met so far. That a lookup
then finds `DeclaredName` is a fact about the nearest importer, for each shape of the chain
(`WellChained`). `CheckInv`: what `Check` saw stays true until the
stamp, because after it nothing changes the declaration or the listing.

**Config watch.** `Caught` says of a watcher that a fingerprint behind what an input holds
has an event or a check on its way, unless the input changed with nobody to tell. `NowKnows`
says of the running server that a fingerprint ahead of its config has a restart under way
or is in the log; `NextKnows`, of the server a restart is making, that what it took from the
old one it still has. At rest no event, timer or restart is left, and the three together
are the property. `Switch` is the step that needs all of them.

**Output watch.** The invariant speaks of what is still to come, at every system call.
`Watching`: under a directory that is watched as it is, a path is right (watched as it is,
or gone and unwatched), or will be visited: an event of it or of its directory is there, or
a frame on the stack leads to it. `Reporting`: an output that the browser does not have as
it is will be visited, or is enqueued. `Replaced`: a path that was replaced between
its stat and the second stat is announced by its directory, which is why `Restat` may leave
it. `RootHeld`: bazel-bin is watched, or about to be. A call that closes handles would
break `Watching` for a frame below it that counts on them, and `Nested` says that no frame
closes what one under it is about. Edits keep all this alike: `EditStep` says what any edit
does to a region of the tree and `EditKeeps` that this is enough; `HandlerStep` and `LooksOn`
do the same for the calls. At rest nothing is to be visited, and `AtRest` goes down the tree from
the root: the directory of a path that is there is watched, hence so is the path.

**Editor map.** `Surely` says that another build will follow: the timer is set, or there is an
event that `Post` does not throw away. `Building` says that a build which is not
surely followed relies on nothing stale, at every system call: what it has met and what is
there is watched under the inode that is there (`Heeded`), the index files it has read and the
fragments it has read are as they stand (`DataRead`, `FragmentsRead`, `Merged`, one per loop of
`buildResolutionMap`). `WriteKeeps` is where it could fail: a file written in a directory that
was already read is an event of a live watch, because `Visit` and `Attach` come before `Read`
and the inode of the stat is what `watchDirectory` records. The other
changes are events of the parent or of the data file's directory (`LoudKeeps`), which no `Post` closes.
`Resting` is what `Post` makes of it, for the newest map in the mail: `Receive` brings
it to the main thread.

**Output index.** Between callbacks an index is right about every BUILD file but the one
that was just merged, and that one's record of registered rules is what the next callback
compares with. During a callback index, record and memo are right about the files as they
are. A question half way up the tree (`asked`) carries what it found below. `LineAssumption`
of `RepoTree` says that the ancestors of a directory are in one line, so that the nearest is one.

**Ownership and generation.** `PlacesAreUnique` follows from the owner being a function: two
packages that list or stage a file are both its owner, or the twin's. `TwiceIsOnce`
compares, attribute by attribute, the rule that registration wrote early and refreshing
wrote again with the one written once, through Gazelle's merge in between. It holds because
the early writing only adds names, and what it adds is managed.

**Patch.** `PatchInv`: the entry is a listing of the sources it has, with the specifiers and
directives they had when they were listed or last patched, not of the tree as it is now. A source that
left the program keeps its old record. A patch that is not refused adds only specifiers with
a precedent in the same directory and class, so each new edge is the one tsgo would make, and
the files are the least set closed under the edges of each side (`ListedIsFresh`). The two
hypotheses are where an edge found by its text alone would be the wrong one.

**Discovery, config, exports, selection.** Each compares an algorithm with what a build does.
`Discover`: a file is listed by name, by include or by an import, and the excluded ones are named by
no pass, so none is a stale output. `ConfigFor` reads rules and Gazelle merges them: the loop over
labels and Bazel's reading agree turn by turn. `Relocate`: after each directory in `Order` the exports
of files above it are settled (`ExportsSettled`). `Select`: the first candidate that selects anything
is the first place the compiler would have found, so the edges offered are those of the build, and
the two least closed sets are the same. `Resolve`: what a walk reaches is the least set with the starts
that is closed under the edges it follows (`LedIs`). Whatever a source compiled with the rule
imports, `EdgeDep` answers in one of a few ways (`EdgeDepIs`). So the files the compiler reads in their
source, by what the finished rule names, are reached by the walk (`ReadIsWalked`), and the edges
of each were answered. `Visit`: what a label answers, with labels on the way to it, has a closed form
(`AnswerAt`) in the labels reachable past those. The form solves the recursion
(`AnswerTurns`), and as each visit leaves fewer labels, nothing else does (`VisitIs`).
The loops are recursive functions on `Nat`. The lemmas `Counting`, `Iterated`, `Stepped` and
`Reaching` stand in for induction over an operator: each speaks of one set of numbers and
uses that `<` is well-founded on `Nat`.

### What is only model-checked

* Liveness: `StopEndsWorkers`, `ImplementsSerialListing`'s fairness,
  `InterruptEndsLauncher`, `Terminates`, `EventuallyCurrent`, `EventuallyReported`.
  Fairness and `ENABLED` are out of the prover's reach.
* `EditorSelectsTheCompilers`: it is about the order in which candidates are tried, over
  sequences of any length, with resolution on both sides external.
* `EntriesShown`, `LookupsFindStores`, `DeclaredIsBuilt`: `Real` follows a path for `Hops`
  names, and what a half-staged tree shows depends on links that come later. An invariant needs
  what every later `Put` leaves alone, for paths through links that are not yet made.

## 5. Findings

Four places where the code does something else than a comment, document or
test says. Each is a run that TLC must find violated.

* **A killed listing can be kept** (`program.go:817`, run `cache_killed`). A tsgo
  that `stopPrefetch` kills after it has printed a diagnostic and a file looks
  like a listing with diagnostics, and is saved. `prefetch.go:164` says the stop
  "drops every listing no directory took and kills those still running".
* **Two servers of one tree** (`devserver.go:197`, run `link_together`). The second
  finds the link and does not own it, and the first removes it when it ends.
  `devserver.go:206` advises to "point both targets at one node_modules()."
* **A patch takes the answer of another mode** (`listing_patch.go:184`, run `patch_modes`). A
  package's exports tell import from require. A precedent does both, and the patch looks for
  its edge by the text alone: the edited source is given the first, whichever mode it added.
  `listing_patch.go:95` has "each added specifier resolved as an unchanged file in the same
  directory, mode and format resolves it".
* **A replaced output loses its watch** (`watcher.ts:214`, run `outputs_replaced`). The file a
  symlinked output leads to is replaced between `watchEntry`'s two stats. The handle is closed and
  the link left unwatched: `watcher.ts:219` says "The parent directory watch observes the
  replacement and installs its current entry.", but the link's directory does not hear of a
  file elsewhere. Later changes of that output are not reported.

## 6. What is not modelled, and why

* `ListingPrefetch`: which subdirectories `listsProgram` admits (a free choice of
  the walk); the oom-score setting on Linux.
* `ListingCache`: how an entry is encoded and its key computed; `NameTree` digests
  are part of a path's version.
* `ListingPatch`: checks of an old entry's shape, and include roots with new
  names. Both only list again. A patch keeps the edges of a file that left the
  program; no reader asks for them, and the properties speak of the files and of the
  imports of those that stay.
* `SourceOwners`: how outputs and metadata are found; they are fields of a tree.
* `Discovery`: the reading of a tsconfig.json, whose outcome is `config`, and wildcard
  patterns, of which only that a name holds one matters.
* `ProgramSelection`: how a trace is parsed; a probe is a file, a missing directory or a
  package.json.
* `Generation`: which attributes a rule has beyond its values, and the wording of what is
  logged. Gazelle's merge is modelled from how the code relies on it.
* `VitestConfig`: sources of a filegroup that a merge cannot change; the log speaks of them.
* `Resolution`: the text of specifiers, npm packages and proto rules. `Minimize` has what
  follows.
  Every package.json is authored: `requiredInputScope` has no other for an output.
* `Forwarding`: selects and globs are one value, "cannot be read", and so is a list some items of
  which cannot be read: the code takes the others and reports the list as incomplete.
* `ConfigWatch`: how a digest is made, and the debounce's length. The code
  does not hear a change between the reading of the config and the attaching of a handle,
  one under a handle whose directory was replaced, or one before a restart that failed. Of an
  input that a restart does not read again (`remedy: 'manual'`) a change during a restart is lost
  as well: the old server's timer goes with it (`watcher.ts:411`), and the new one's first digests
  have the change. The history variable `missed` names those inputs, and
  `SettledConfigIsCurrent` speaks of the others.
* `EditorProject`: type roots, package scopes and package imports, the roots of the
  project and their containment, `moduleSuffixes`, and pattern aliases with text after
  the star, with the refusal of those that overlap. The merge into the checkout is that of
  `ts_refresh_tsconfig`. That a project is refused where it need not be is no violation.
* `Emission`: what an owner's sources are, package scopes, source exports. They are
  data of `build`; `SourceOwners` and `SourceExports` have them, of one run.
* `Minimize`: the rewriting of attributes that follows. The owner of a source
  answers the same whenever it is asked: `ModesReadStand` of `Emission` is why.
* `CompileAction`: the syntax of flags and manifests, how tsgo's listing is parsed, the
  real paths of npm inputs, and `emit`, which has no
  state. `Discover` replaces one tsconfig.json; the code does the same with each source
  tsconfig.json below the package. The importer at the workspace's own root in the middle of a chain is left out:
  it lies at the same place as the root importer.
* `RuntimeView`: letter case in `_view_outputs`, optional dependencies and test files staged
  beside the view, the encoding of binding sets, an input's path outside the view. A
  copy that is made elsewhere only to be linked to is identified with its artifact;
  a declared relative link is an artifact of one path. Aliases are of native views. A
  package may be placed inside a copied directory that is itself named
  `node_modules`: `DeclaredIsBuilt` lets a declared directory hold such a link.
* `DevServerLink`: the plan's argv and environment; what a server does with a signal that is not
  TERM, beyond that it may end at any moment; signals other than KILL that `Supervise` does not ask for.
* `EditorMap`: index files of the checkout, which stand still; a watcher's error
  event; the decoration of a language service and its disposal; inode numbers
  that come back.
* `OutputWatch`: symlinked directories and the guard against their cycles,
  recursive handles (macOS), declared files outside bazel-bin, an injected
  source; bazel-bin itself stands as long as the server. In `outputs` a link's file does not
  change while the link's handle attaches (section 5). A directory that comes
  and goes between two deliveries is not reported, and is no violation:
  `SettledIsReported` speaks of files that are there.

The components not modelled at all are listed in `PROJECT.json` with their
reasons.

## 7. What comes next

What is left of the system is pure: no order of events, no earlier state. In the order of
what it would show:

1. **NpmStore**: hoisting and peer variants; what Node's lookup finds through the links
   is what the lock file names. `RuntimeView` has the lookups, from given links.
2. **TsconfigChain**: the extends chain with its cycle and depth checks.
3. **WorkersPool**, **CopyToWorkspace**.

Proofs to come: `EntriesShown` of `RuntimeView`, with an invariant on paths through links that
are not made yet.
