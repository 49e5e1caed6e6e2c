------------------------- MODULE MCListingPrefetch -------------------------
(* ListingPrefetch for TLC: workers are interchangeable. *)
EXTENDS ListingPrefetch, TLC

Symmetric == Permutations(Workers)
=============================================================================
