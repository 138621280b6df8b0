--------------------------- MODULE MCActorControl ---------------------------
(* Three concurrent invocations against a miner whose owner is o1, worker *)
(* w1 and control list empty; the change delay is one epoch and the chain *)
(* grows to height 2, so a proposal can mature and be confirmed.          *)
EXTENDS ActorControl, TLC

CONSTANTS i1, i2, i3, o1, o2, w1, w2, k1

MCInvocations == {i1, i2, i3}
MCOwners == {o1, o2}
MCWorkers == {w1, w2}
MCKeys == {k1}
MCInitInfo ==
  [owner |-> o1, pendingOwner |-> None, worker |-> w1, newWorker |-> None,
   changeEpoch |-> 0, controls |-> {}, balance |-> 2, feeDebt |-> 1,
   lastAllocated |-> 3]

MCSymmetry == Permutations(MCInvocations)
=============================================================================
