------------------------ MODULE MCPreCommitProcessor ------------------------
(* Model-checking instance of PreCommitProcessor: three sectors with      *)
(* distinct deposits, so that a wrong sum or a wrong stamp is visible.     *)
EXTENDS PreCommitProcessor

MCSectors == 1..3

MCDeposit == [n \in MCSectors |-> n]
=============================================================================
