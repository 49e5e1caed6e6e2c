CONSTANTS
    app = app
    src = src
    Programs = {app}
    Paths = {src, conf}
    Reads <- MCReads
    Sources = {src}
    Runs = {r1}
    Diagnosed = {app}
    MaxVersion = 1
    NoEntry = none
SPECIFICATION Spec
INVARIANT EntriesAreWhole
