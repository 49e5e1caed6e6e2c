-------------------------------- MODULE Supply --------------------------------
(***************************************************************************)
(* What the dependencies of a compiler rule supply to it                   *)
(* (gazelle/resolve.go, directSupply, suppliedProgramInputs and             *)
(* requiredEdgeUnsupplied), and the state that dropping redundant           *)
(* dependencies goes through (minimizeDependencies).                        *)
(*                                                                         *)
(* A dependency is a label; the labels are numbers, in the order they sort. *)
(* A label leads to a target key, and to a program key if a ts_compile is   *)
(* behind it.  sourceOwner may complete an owner the first time it is asked *)
(* about it; what an owner says afterwards does not change (ModesReadStand *)
(* in Emission), so only the set of owners asked is state here.             *)
(***************************************************************************)
EXTENDS Integers

CONSTANTS
    Labels,       \* dependencies a rule may need, numbered as they sort
    Programs,     \* keys of ts_compile rules
    Others,       \* keys of other targets
    None,         \* no key
    Files,
    Inputs        \* the consumers to minimise, each of InputType

Source == 0  Scope == 1  CompilerInput == 2   \* inputRole, strongest first
Absent == 3
Unasked == -1
Keys == Programs \cup Others

InputType ==
    [deps          : SUBSET Labels,
     unconditional : SUBSET Labels,     \* required whatever else is there
     edges         : [Labels -> SUBSET (Files \X Files)],
     key           : [Labels -> Keys],
     program       : [Labels -> Programs \cup {None}],
     static        : SUBSET Labels,     \* the owner is a compiler or a member
     npm           : SUBSET Files,
     declaration   : SUBSET Files,
     json          : SUBSET Files,
     codegen       : [Files -> Keys \cup {None}],  \* producer of an output
     joined        : SUBSET Programs,   \* publish their sources
     borrowed      : [Programs -> SUBSET Files],
     inputs        : [Programs -> [Files -> Source..Absent]],
     targets       : [Programs -> SUBSET Keys],    \* their deps
     children      : [Programs -> SUBSET Programs],
     self          : Programs \cup {None},
     roots         : SUBSET Files,      \* the consumer's own sources
     demands       : [Files -> Unasked..CompilerInput]]    \* scopes it needs

ASSUME InputsAssumption == Labels \subseteq Int /\ Inputs \subseteq InputType

VARIABLES
    input,      \* the consumer and its dependencies
    retained,   \* dependencies that stay
    todo,       \* candidates not yet tried
    called      \* owners sourceOwner was asked about

ProgramsOf(D) == {input.program[d] : d \in D} \ {None}

Claims(k) == {f \in Files : input.inputs[k][f] <= input.demands[f]}

\* Files a joined owner publishes, and the declarations of any owner ...
Provided(k) ==
    {f \in Files : /\ input.inputs[k][f] = Source
                   /\ k \in input.joined \/ f \in input.declaration}

\* ... and those an emitting owner of the consumer's package publishes for both.
Borrowed(k) == {f \in Files : /\ input.inputs[k][f] = Source
                              /\ f \in input.borrowed[k]}

FilesOf(D) == UNION {Provided(k) \cup Borrowed(k) : k \in ProgramsOf(D)}

\* A provider stands for its own dependencies, and a link to it for itself.
TargetsOf(D) ==
    UNION {input.targets[input.program[d]]
             \cup (IF input.key[d] = input.program[d] THEN {}
                   ELSE {input.program[d]}) :
           d \in {e \in D : /\ input.program[e] # None
                            /\ Provided(input.program[e]) # {}}}

\* Scopes that no direct dependency claims: the walk looks further for them.
Wanted == {f \in Files : input.demands[f] # Unasked}
Unclaimed(D) ==
    {f \in Wanted : \A k \in ProgramsOf(D) : f \notin Claims(k)}

\* Owners the walk reaches; it does not go beyond those in stop.
Reach(D, stop) ==
    {k \in Programs : \A S \in SUBSET Programs :
        (/\ ProgramsOf(D) \subseteq S
         /\ \A a \in S \ stop : input.children[a] \subseteq S) => k \in S}

\* The owners a walk may have asked when it stops: all it can reach, or enough
\* of them to claim what is wanted.
Walks(D) ==
    IF Unclaimed(D) = {} THEN {{}}
    ELSE {W \in SUBSET Reach(D, {input.self}) :
            \/ W = Reach(D, {input.self})
            \/ \A f \in Unclaimed(D) : \E k \in W : f \in Claims(k)}

\* The roles a walk may find for them: the first claim counts.
Roles(D, W) ==
    {r \in [Unclaimed(D) -> Source..Absent] : \A f \in Unclaimed(D) :
        IF \E k \in W : f \in Claims(k)
        THEN \E k \in W : f \in Claims(k) /\ r[f] = input.inputs[k][f]
        ELSE r[f] = Absent}

FirstClaim(D, f) ==
    LET by == {d \in D : /\ input.program[d] # None
                         /\ f \in Claims(input.program[d])}
    IN  input.inputs[input.program[CHOOSE d \in by : \A e \in by : d <= e]][f]

\* suppliedProgramInputs: what is supplied as a source, roots apart.
SourcesOf(D, roles) ==
    {f \in Files \ input.roots :
        \/ f \in FilesOf(D)
        \/ /\ f \in Wanted
           /\ IF f \in Unclaimed(D) THEN roles[f] = Source
              ELSE FirstClaim(D, f) = Source}

\* requiredEdgeUnsupplied: the reader is there, and so is what it reads.
EdgeSupplied(d, e, sources) ==
    /\ e[1] \in sources
    /\ \/ d \in input.static \/ e[2] \in input.npm
       \/ /\ e[2] \in input.declaration \cup input.json \cup sources
          /\ input.codegen[e[2]] = input.key[d]

Unsupplied(d, targets, sources) ==
    \/ d \in input.unconditional
    \/ input.key[d] \notin targets
    \/ \E e \in input.edges[d] : ~EdgeSupplied(d, e, sources)

Candidate(c) == c \in todo /\ \A d \in todo : c <= d

\* The round without a fixed supply: ask every other owner, and the walk.
TryExact(c) ==
    LET rest == retained \ {c} IN
    \E W \in Walks(rest) : \E roles \in Roles(rest, W) :
        /\ called' = called \cup ProgramsOf(rest) \cup W
        /\ retained' =
              IF \E d \in input.deps \ rest :
                    Unsupplied(d, TargetsOf(rest), SourcesOf(rest, roles))
              THEN retained ELSE rest
        /\ todo' = todo \ {c}
        /\ UNCHANGED input

MinimizeStart ==
    /\ retained = input.deps
    /\ todo = input.deps
    /\ called \in SUBSET Programs   \* asked by resolveEdges

Tried == todo = {}

=============================================================================
