\* Runs one after the other, crashes among them, over two programs that share
\* a source; each of the source and the config is edited twice.
CONSTANTS
    app = app
    src = src
    Programs = {app, lib}
    Paths = {src, conf}
    Reads <- MCReads
    Sources = {src}
    Runs = {r1}
    Diagnosed = {}
    MaxVersion = 3
    NoEntry = none
SPECIFICATION Spec
INVARIANTS
    CalmEntriesAreSound
    QuietRunAnswersCurrent
    EntriesAreWhole
PROPERTIES
    EndedRunIsReused
