----------------------------- MODULE MCProductStore -----------------------------
(* Instances of ProductStore for TLC: two Skus, and lists that name them in *)
(* either order, twice the same, or none.                                   *)
EXTENDS ProductStore

CONSTANTS s1, s2

MCBatches == {<<>>, <<s1, s2>>, <<s2, s1>>, <<s1, s1>>}
=============================================================================
