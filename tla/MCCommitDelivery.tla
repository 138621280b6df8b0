-------------------------- MODULE MCCommitDelivery --------------------------
(* Model-checking instance of CommitDelivery, on the sectors, epochs and   *)
(* thresholds of MCBatcher.                                                *)
EXTENDS CommitDelivery

MCSectors == {1, 2, 3}

(* Sector 1 got its ticket at epoch 0, sectors 2 and 3 at epoch 1.         *)
MCTicketEpoch == [s \in MCSectors |-> IF s = 1 THEN 0 ELSE 1]
=============================================================================
