--------------------------- MODULE MCDevServerLink ---------------------------
(***************************************************************************)
(* Instances of DevServerLink: a workspace whose targets name a tree each,  *)
(* and one where two targets share one.                                    *)
(***************************************************************************)
EXTENDS DevServerLink

CONSTANTS l1, l2, l3, t1, t2, t3

\* l1 and l2 name one node_modules() target, l3 another.
AllLaunchers == {l1, l2, l3}
SharedWant == [l \in AllLaunchers |-> IF l = l3 THEN t2 ELSE t1]

\* The targets each name a tree of their own.
EachWant == [l \in AllLaunchers |->
                 CASE l = l1 -> t1 [] l = l2 -> t2 [] l = l3 -> t3]
=============================================================================
