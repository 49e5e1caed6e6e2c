\* Three changes anywhere in the start and in the handlers, of either watcher.
CONSTANTS
    Dirs = {"bin", "pkg", "dist"}
    Root = "bin"
    Files = {"out", "link"}
    Links = {"link"}
    Up <- MCUp
    Below <- MCBelow
    Nameless = {"dist"}
    Unsteady = {}
    MaxEdits = 3
    Inputs = {"vite", "plugin", "node"}
    Manual = {"node"}
    Places = {"gen", "bin"}
    PlaceOf <- MCPlaceOf
    Versions = {0, 1}
    Unnamed = {"bin"}
    None = none
    MaxChanges = 3
SPECIFICATION PluginSpec
INVARIANTS
    SettledIsReported
    SettledConfigIsCurrent
PROPERTY EventuallyReported
\* The tree rests after MaxEdits changes, and the server may stop.
CHECK_DEADLOCK FALSE
