----------------------------- MODULE MCSearchIndex -----------------------------
(* Instances of SearchIndex for TLC: two work orders of one organization;   *)
(* another that has none.                                                   *)
EXTENDS SearchIndex

CONSTANTS w1, w2, org1, org2

MCWorkOrderIds == {w1, w2}
MCOrgOf        == [w \in MCWorkOrderIds |-> org1]
MCProcessOf    == [r \in Rebuilds |-> CHOOSE p \in Publishers : TRUE]
=============================================================================
