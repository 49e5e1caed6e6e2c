\* Every graph on three labels: three programs of the update that read one
\* another's files, and the mixed rules a program or a binary may reach.  Three
\* dependencies of a rule over every graph of owners without cycles.
CONSTANTS
    ra = ra  rb = rb  rc = rc
    Targets <- Nodes
    Builds <- Every
    k1 = k1  k2 = k2  k3 = k3  k4 = k4  link = link  none = none
    f1 = f1  f2 = f2  scope = scope
    Labels <- Three
    Programs <- AllPrograms
    Others = {link}
    None = none
    Files <- AllFiles
    Inputs <- AllInputs
SPECIFICATION Resolving
INVARIANTS
    ModesReadStand
    OrderFree
    PublishedClosure
    DroppedAreSupplied
    Irredundant
PROPERTIES
    Terminates
    ImplementsExact
