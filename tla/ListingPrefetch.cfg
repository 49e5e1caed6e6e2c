\* Three directories, two workers: every interleaving of walk and workers.
CONSTANTS
    Cfgs = {c1, c2, c3}
    Workers = {w1, w2}
    Main = main
    None = none
SPECIFICATION FairSpec
INVARIANTS
    NoListingBesideProjection
    NoLostWakeup
PROPERTIES
    StopEndsWorkers
    ImplementsSerialListing
