\* A target of each tree, of which one runs in dump mode, or one target and every
\* signal; or a view.
CONSTANTS
    l1 = l1  l2 = l2  l3 = l3
    t1 = t1  t2 = t2  t3 = t3
    Launchers <- AllLaunchers
    Trees = {t1, t2, t3}
    Want <- EachWant
    Dumps = {l3}
    Signals = {"HUP", "INT", "QUIT", "TERM", "USR2", "KILL"}
    Capacity = 2
    f1 = f1  f2 = f2  alias1 = alias1  pkg1 = pkg1  pkg2 = pkg2
    tree1 = tree1  tree2 = tree2  tree3 = tree3  blank = blank  none = none
    Paths <- AllPaths
    NodeModules = 5
    Names = {6}
    Files <- AllFiles
    TreeArtifacts = {tree1, tree2, tree3}
    Inside <- Held
    None = none
    Workspace = 1
    Blank = blank
    Views <- AllViews
SPECIFICATION LaunchersSpec
INVARIANTS
    LinkOfServer
    OwnerKeepsLink
    SignalsPassedOn
    EntriesShown
    LookupsFindStores
    DeclaredIsBuilt
PROPERTY InterruptEndsLauncher
