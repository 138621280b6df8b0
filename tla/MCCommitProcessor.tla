------------------------- MODULE MCCommitProcessor --------------------------
(* Model-checking instance of CommitProcessor: four sectors, so that both  *)
(* the individual path and the aggregate path at the chain's real          *)
(* MinAggregatedSectors = 4 are taken, with distinct collaterals so that   *)
(* a wrong sum is visible.                                                 *)
EXTENDS CommitProcessor

MCSectors == 1..4

MCCollateral == [n \in MCSectors |-> n]

(* processLists when the workflow has called Add twice for a sector:      *)
(* batcher.go appends every submission to pending and copies pending into *)
(* the processList as it is.                                               *)
MCUpstreamLists == UNION {[1..k -> MCSectors] : k \in 1..4}
=============================================================================
