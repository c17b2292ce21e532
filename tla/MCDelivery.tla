----------------------------- MODULE MCDelivery -----------------------------
(***************************************************************************)
(* Two attempts to publish the same run: the branch is shared.             *)
(***************************************************************************)
EXTENDS Delivery

CONSTANT Branch

MCBranches == {Branch}
MCFileSets == {{}, Files}
MCBranchOf == [a \in Attempts |-> Branch]
=============================================================================
