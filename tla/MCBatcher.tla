----------------------------- MODULE MCBatcher ------------------------------
(* Model-checking instance of Batcher: three sectors whose ticket epochs   *)
(* differ, a MaxWait of 45 s that truncates to one epoch, and thresholds   *)
(* of 1 and 2 so that immediate and threshold flushes, partial tick       *)
(* flushes of a non-full buffer, and a batch one larger than a threshold  *)
(* (were the full test off by one) all happen.                           *)
EXTENDS Batcher

MCSectors == {1, 2, 3}

(* Sector 1 got its ticket at epoch 0, sectors 2 and 3 at epoch 1.         *)
MCTicketEpoch == [s \in MCSectors |-> IF s = 1 THEN 0 ELSE 1]
=============================================================================
