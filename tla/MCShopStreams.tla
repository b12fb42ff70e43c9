---------------------------- MODULE MCShopStreams ----------------------------
(* Small shops for TLC: the products and orders are model values. *)
EXTENDS ShopStreams, TLC

OneOrTwo == {1, 2}
One == {1}
Two == {2}
Corrections == {-2, 1}

\* Products and orders are interchangeable for the safety properties.
Interchangeable == Permutations(Products) \cup Permutations(Orders)
=============================================================================
