--------------------------- MODULE MCListingCache ---------------------------
(* ListingCache for TLC: two programs that share a source. *)
EXTENDS ListingCache, TLC

CONSTANTS app,  \* the program that reads its config too
          src   \* the source every program reads

MCReads == [p \in Programs |-> IF p = app THEN Paths ELSE {src}]
Symmetric == Permutations(Runs)
=============================================================================
