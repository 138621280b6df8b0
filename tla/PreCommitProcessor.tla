------------------------- MODULE PreCommitProcessor -------------------------
(***************************************************************************)
(* One call of PreCommitProcessor.Process (precommit_processor.go): the    *)
(* pre-commit dispatch of a processList handed over by the batcher.        *)
(*                                                                         *)
(* Individual path (batching disabled): one goroutine per sector builds    *)
(* its PreCommitSector params and deposit and pushes one message; Process  *)
(* waits for all of them.  Batch path: params are built for every sector  *)
(* in list order, sectors whose params fail are dropped, the deposits of   *)
(* the others are summed and one PreCommitSectorBatch message is pushed.   *)
(* Successful sectors get the message id in MessageInfo.PreCommitCid.      *)
(*                                                                         *)
(* A sector is its number; a pushed message is a record of its method,    *)
(* the list of sectors in its params and its value.                       *)
(***************************************************************************)
EXTENDS Integers, Sequences, FiniteSets, FiniteSetsExt

CONSTANTS
  Sectors,   \* sector numbers
  Deposit    \* Deposit[n]: the deposit preCommitParams computes for n

ASSUME PreCommitProcessorAssumption ==
  /\ Sectors \subseteq Nat /\ IsFiniteSet(Sectors)
  /\ Deposit \in [Sectors -> Nat]

VARIABLES
  sectors,      \* the processList argument, in the batcher's order
  enableBatch,  \* Commitment.Pre.Batch.Enabled when Process reads it
  pc,           \* "start", "individual", "returned" or "failed"
  todo,         \* positions whose processIndividually goroutine is running
  msgs,         \* messages pushed to the messager, in push order
  preCommitCid  \* preCommitCid[i]: index in msgs of sectors[i]'s message, 0 = nil

vars == <<sectors, enableBatch, pc, todo, msgs, preCommitCid>>

(* Non-empty processLists without repeats. batcher.go:60 appends a      *)
(* sector however often it is added, so repeats can occur; these lists  *)
(* are the case in which the workflow adds each sector once.             *)
InputLists ==
  UNION {{s \in [1..k -> Sectors] : \A i, j \in 1..k : i # j => s[i] # s[j]}
         : k \in 1..Cardinality(Sectors)}

NoMsg == 0

SumDeposit(S) == MapThenSumSet(LAMBDA n : Deposit[n], S)

ListSet(s) == {s[i] : i \in DOMAIN s}

(* PreCommitSectorBatchParams of the sectors whose params were built, in  *)
(* list order, with the sum of their deposits as value.                   *)
BatchMsg(infos) ==
  [method |-> "PreCommitSectorBatch", sectors |-> infos,
   value |-> SumDeposit(ListSet(infos))]

SingleMsg(n) ==
  [method |-> "PreCommitSector", sectors |-> <<n>>, value |-> Deposit[n]]

Init ==
  /\ sectors \in InputLists
  /\ enableBatch \in BOOLEAN
  /\ pc = "start"
  /\ todo = {}
  /\ msgs = <<>>
  /\ preCommitCid = [i \in DOMAIN sectors |-> NoMsg]

-----------------------------------------------------------------------------
(* Plausible bug: every sector gets the batch id, failed[...] unchecked.  *)
StampAllOf(failed) == [i \in DOMAIN sectors |-> Len(msgs) + 1]

(* After the push, every sector not in failed gets the batch id.          *)
StampAll(failed) ==
  [i \in DOMAIN sectors |->
     IF sectors[i] \in failed THEN preCommitCid[i] ELSE Len(msgs) + 1]

(* Plausible bug: goroutines for 0..len(sectors), one index too many.    *)
StartIndividuallyOffByOne ==
  /\ pc = "start"
  /\ ~enableBatch
  /\ pc' = "individual"
  /\ todo' = 0..Len(sectors)
  /\ UNCHANGED <<sectors, enableBatch, msgs, preCommitCid>>

(* Process with batching disabled: wg.Add(len(sectors)), one goroutine    *)
(* per position.                                                           *)
StartIndividually ==
  /\ pc = "start"
  /\ ~enableBatch
  /\ pc' = "individual"
  /\ todo' = DOMAIN sectors
  /\ UNCHANGED <<sectors, enableBatch, msgs, preCommitCid>>

(* The goroutine of position i: preCommitParams, MarshalCBOR and          *)
(* pushMessage; if none fails the message id is stored.                   *)
SendOne(i) ==
  /\ pc = "individual"
  /\ i \in todo
  /\ todo' = todo \ {i}
  /\ \/ UNCHANGED <<msgs, preCommitCid>>
     \/ /\ msgs' = Append(msgs, SingleMsg(sectors[i]))
        /\ preCommitCid' = [preCommitCid EXCEPT ![i] = Len(msgs')]
  /\ UNCHANGED <<sectors, enableBatch, pc>>

(* wg.Wait() returns; Process returns nil.                                 *)
FinishIndividually ==
  /\ pc = "individual"
  /\ todo = {}
  /\ pc' = "returned"
  /\ UNCHANGED <<sectors, enableBatch, todo, msgs, preCommitCid>>

(* The append loop over sectors: infos holds the sectors of the positions *)
(* D whose params were built, in list order; infos[k] is the sector at the *)
(* position of D that has k - 1 positions of D before it.                  *)
KeptInOrder(D) ==
  [k \in 1..Cardinality(D) |->
     sectors[CHOOSE i \in D : Cardinality({j \in D : j < i}) + 1 = k]]

(* The batch path as one step: preCommitParams fails for the sectors of   *)
(* failed, infos keeps the others in list order, and the marshalling or   *)
(* the push may fail and return an error; otherwise the batch is pushed,  *)
(* whether or not infos is empty.                                          *)
Batch ==
  /\ pc = "start"
  /\ enableBatch
  /\ \E failed \in SUBSET ListSet(sectors) :
       LET infos == KeptInOrder({i \in DOMAIN sectors : sectors[i] \notin failed})
       IN  \/ /\ pc' = "failed"
              /\ UNCHANGED <<msgs, preCommitCid>>
           \/ /\ msgs' = Append(msgs, BatchMsg(infos))
              /\ preCommitCid' = StampAll(failed)
              /\ pc' = "returned"
  /\ UNCHANGED <<sectors, enableBatch, todo>>

Next ==
  \/ StartIndividually
  \/ \E i \in DOMAIN sectors : SendOne(i)
  \/ FinishIndividually
  \/ Batch

Spec == Init /\ [][Next]_vars /\ WF_vars(Next)

-----------------------------------------------------------------------------
TypeOK ==
  /\ sectors \in InputLists
  /\ enableBatch \in BOOLEAN
  /\ pc \in {"start", "individual", "returned", "failed"}
  /\ todo \subseteq DOMAIN sectors
  /\ preCommitCid \in [DOMAIN sectors -> 0..Len(msgs)]

(* Spec 8.5: a sector's PreCommitCid names a message that pre-commits it, *)
(* and every sector a pushed message pre-commits has that message's id.   *)
StampedIffCarried ==
  \A i \in DOMAIN sectors, k \in DOMAIN msgs :
    preCommitCid[i] = k <=> sectors[i] \in ListSet(msgs[k].sectors)

(* The spec leaves open what happens when the params of every sector of a *)
(* batch fail; the miner actor rejects an empty PreCommitSectorBatch.     *)
BatchNonEmpty ==
  \A k \in DOMAIN msgs : msgs[k].sectors # <<>>
=============================================================================
