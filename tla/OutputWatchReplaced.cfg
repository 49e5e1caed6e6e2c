\* The file a link leads to is replaced while the link's handle attaches.
CONSTANTS
    Dirs = {"bin", "pkg", "dist"}
    Root = "bin"
    Files = {"out", "link"}
    Links = {"link"}
    Up <- MCUp
    Below <- MCBelow
    Nameless = {"dist"}
    Unsteady = {"link"}
    MaxEdits = 1
    Inputs = {"vite", "plugin", "node"}
    Manual = {"node"}
    Places = {"gen", "bin"}
    PlaceOf <- MCPlaceOf
    Versions = {0, 1}
    Unnamed = {"bin"}
    None = none
    MaxChanges = 1
SPECIFICATION PluginSpec
INVARIANT SettledIsReported
\* The tree rests after MaxEdits changes, and the server may stop.
CHECK_DEADLOCK FALSE
