---------------------------- MODULE MCOutputWatch ----------------------------
(* The plugin's two watchers for TLC, each over files of its own: a directory *)
(* within a directory, with an output and a symlinked one; and the inputs of *)
(* a config, of which the runtime is one that a restart does not pick up.    *)
EXTENDS OutputWatch, ConfigWatch

VARIABLE part    \* the watcher whose behaviour this is

MCUp == [p \in {"pkg", "dist", "out", "link"} |->
           CASE p = "pkg" -> "bin" [] p = "dist" -> "pkg"
             [] p = "out" -> "dist" [] p = "link" -> "pkg"]
MCBelow == [p \in {"bin", "pkg", "dist", "out", "link"} |->
           CASE p = "bin" -> {"bin", "pkg", "dist", "out", "link"}
             [] p = "pkg" -> {"pkg", "dist", "out", "link"}
             [] p = "dist" -> {"dist", "out"}
             [] OTHER -> {p}]
MCPlaceOf == [i \in {"vite", "plugin", "node"} |-> IF i = "node" THEN "bin" ELSE "gen"]

NoConfig == disk = None /\ changes = 0 /\ now = None /\ next = None /\ warned = {}

\* hmr: false leaves the outputs unwatched.
NoOutputs ==
    /\ ino = [p \in Paths |-> Absent] /\ content = [f \in Files |-> Absent]
    /\ loaded = content /\ edits = 0
    /\ watch = [p \in Paths |-> Unwatched] /\ events = {} /\ stack = <<>> /\ handling = {}
    /\ pending = {} /\ timer = FALSE /\ mode = "stopped"

PluginInit ==
    \/ part = "outputs" /\ Init /\ NoConfig
    \/ part = "config" /\ NoOutputs /\ ConfigInit
PluginNext ==
    \/ part = "outputs" /\ Next /\ UNCHANGED <<part, configVars>>
    \/ part = "config" /\ ConfigNext /\ UNCHANGED <<part, vars>>

PluginSpec ==
    PluginInit /\ [][PluginNext]_<<part, vars, configVars>> /\ WF_vars(Handler \/ Loop)
=============================================================================
