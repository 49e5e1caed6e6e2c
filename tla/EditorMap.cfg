\* Two packages, one of which names the other; two changes anywhere in the
\* builds, so that an output directory may be replaced.
CONSTANTS
    p1 = p1
    p2 = p2
    Packages <- TwoPackages
    Inodes = {1, 2, 3}
    Authored = {p1}
    Closure <- ChainClosure
    MaxEdits = 2
    MaxMail = 1
SPECIFICATION FairSpec
INVARIANT SettledIsCurrent
PROPERTY EventuallyCurrent
\* The tree rests after MaxEdits changes.
CHECK_DEADLOCK FALSE
