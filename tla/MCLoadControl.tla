--------------------------- MODULE MCLoadControl ---------------------------
(* Instances of LoadControl for TLC.                                       *)
EXTENDS LoadControlLedger, TLC

CONSTANTS k1, lpc

MCOneKey == k1 :> lpc
MCFixedPolicy == {InitialPolicy}
MCAnyPolicy == Policies
MCDefaultCap == [u \in UseCases |-> 2]
MCBaseLoad == [u \in UseCases |-> 1]
MCSymmetry == Permutations(LimitIds)
=============================================================================
