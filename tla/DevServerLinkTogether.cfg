\* Two servers of one tree, stopped one after the other.
CONSTANTS
    l1 = l1
    l2 = l2
    l3 = l3
    t1 = t1
    t2 = t2
    t3 = t3
    Launchers <- AllLaunchers
    Trees = {t1, t2}
    Want <- SharedWant
    Dumps = {}
    Signals = {"INT", "KILL"}
    Capacity = 1
SPECIFICATION Spec
INVARIANT LinkOfServer
