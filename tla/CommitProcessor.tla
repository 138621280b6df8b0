--------------------------- MODULE CommitProcessor ---------------------------
(***************************************************************************)
(* One call of CommitProcessor.Process (commit_processor.go): the          *)
(* prove-commit dispatch of a processList handed over by the batcher.      *)
(*                                                                         *)
(* Individual path (batching disabled or fewer than MinAggregatedSectors   *)
(* sectors): one goroutine per sector fetches the head and the sector's   *)
(* collateral and pushes a ProveCommitSector message; Process waits for    *)
(* all of them.  Aggregate path: the collateral of every sector is        *)
(* fetched at one head, sectors whose fetch fails are dropped, the rest    *)
(* are sorted by number, their proofs aggregated and one                   *)
(* ProveCommitAggregate message pushed.  Successful sectors get the        *)
(* message id in MessageInfo.CommitCid.                                    *)
(*                                                                         *)
(* A sector is its number; its proof is represented by that number, so    *)
(* the proof array of a message is the list of numbers it proves, in     *)
(* order.  A pushed message is a record of its method, the sector numbers *)
(* of its params (bitfield), its proof order and its value.               *)
(***************************************************************************)
EXTENDS Integers, Sequences, FiniteSets, TLC, FiniteSetsExt

CONSTANTS
  Sectors,              \* sector numbers (abi.SectorNumber)
  Collateral,           \* Collateral[n]: getSectorCollateral at the head
  MinAggregatedSectors  \* miner5.MinAggregatedSectors

ASSUME CommitProcessorAssumption ==
  /\ Sectors \subseteq Nat /\ IsFiniteSet(Sectors)
  /\ Collateral \in [Sectors -> Nat]
  /\ MinAggregatedSectors \in Nat \ {0}

VARIABLES
  sectors,      \* the processList argument, in the batcher's order
  enableBatch,  \* Commitment.Prove.Batch.Enabled when Process reads it
  pc,           \* "start", "individual", "returned", "failed", "panicked"
  todo,         \* positions whose processIndividually goroutine is running
  msgs,         \* messages pushed to the messager, in push order
  commitCid     \* commitCid[i]: index in msgs of sectors[i]'s message, 0 = nil

vars == <<sectors, enableBatch, pc, todo, msgs, commitCid>>

(* Non-empty processLists without repeats. batcher.go:60 appends a      *)
(* sector however often it is added, so repeats can occur; these lists  *)
(* are the case in which the workflow adds each sector once.             *)
InputLists ==
  UNION {{s \in [1..k -> Sectors] : \A i, j \in 1..k : i # j => s[i] # s[j]}
         : k \in 1..Cardinality(Sectors)}

NoMsg == 0

SumCollateral(S) == MapThenSumSet(LAMBDA n : Collateral[n], S)

(* The goroutine-free path is taken when batching is off or the list is   *)
(* too short to aggregate.                                                 *)
Individually == ~enableBatch \/ Len(sectors) < MinAggregatedSectors

(* The ProveCommitAggregate message of the sorted infos: bitfield of their *)
(* numbers, proofs in infos order, total collateral as value.             *)
AggregateMsg(infos) ==
  [method  |-> "ProveCommitAggregate",
   numbers |-> {infos[i] : i \in DOMAIN infos},
   proofs  |-> infos,
   value   |-> SumCollateral({infos[i] : i \in DOMAIN infos})]

(* ProveCommitSector of one sector, its collateral as value.               *)
SingleMsg(n) ==
  [method |-> "ProveCommitSector", numbers |-> {n}, proofs |-> <<n>>,
   value |-> Collateral[n]]

Init ==
  /\ sectors \in InputLists
  /\ enableBatch \in BOOLEAN
  /\ pc = "start"
  /\ todo = {}
  /\ msgs = <<>>
  /\ commitCid = [i \in DOMAIN sectors |-> NoMsg]

-----------------------------------------------------------------------------
(* Plausible bugs, each next to the definition it would replace.          *)

(* infos used in collection order, the sort.Slice call left out.          *)
SortInfosMissing(D) ==
  [k \in 1..Cardinality(D) |->
     sectors[CHOOSE i \in D : Cardinality({j \in D : j < i}) + 1 = k]]

(* Every sector gets the aggregate id: the failed[...] check left out.    *)
StampAllOf(failed) == [i \in DOMAIN sectors |-> Len(msgs) + 1]

(* The goroutines are started for 0..len(sectors): one index too many.    *)
StartIndividuallyOffByOne ==
  /\ pc = "start"
  /\ Individually
  /\ pc' = "individual"
  /\ todo' = 0..Len(sectors)
  /\ UNCHANGED <<sectors, enableBatch, msgs, commitCid>>

-----------------------------------------------------------------------------
(* Position i of the processList comes before position j in sort.Slice's *)
(* order (Number ascending); equal numbers, which only a repeated Add      *)
(* produces, keep the order of their positions.                            *)
Before(i, j) == sectors[i] < sectors[j] \/ (sectors[i] = sectors[j] /\ i < j)

(* The place of position i once the positions D are sorted.               *)
Rank(D, i) == Cardinality({j \in D : Before(j, i)}) + 1

(* The loop appends the sectors at the positions D whose collateral was   *)
(* fetched to infos, and sort.Slice orders them by number: infos[k] is    *)
(* the sector of rank k.                                                   *)
SortInfos(D) ==
  [k \in 1..Cardinality(D) |-> sectors[CHOOSE i \in D : Rank(D, i) = k]]

(* After the push, every sector not in failed gets the aggregate id.      *)
StampAll(failed) ==
  [i \in DOMAIN sectors |->
     IF sectors[i] \in failed THEN commitCid[i] ELSE Len(msgs) + 1]

(* Process when the individual path is chosen: wg.Add(len(sectors)) and   *)
(* one goroutine per position.                                             *)
StartIndividually ==
  /\ pc = "start"
  /\ Individually
  /\ pc' = "individual"
  /\ todo' = DOMAIN sectors
  /\ UNCHANGED <<sectors, enableBatch, msgs, commitCid>>

(* The goroutine of position i: ChainHead, getSectorCollateral and        *)
(* pushMessage; if none fails the message id is stored.                   *)
SendOne(i) ==
  /\ pc = "individual"
  /\ i \in todo
  /\ todo' = todo \ {i}
  /\ \/ UNCHANGED <<msgs, commitCid>>
     \/ /\ msgs' = Append(msgs, SingleMsg(sectors[i]))
        /\ commitCid' = [commitCid EXCEPT ![i] = Len(msgs')]
  /\ UNCHANGED <<sectors, enableBatch, pc>>

(* wg.Wait() returns; Process returns nil.                                 *)
FinishIndividually ==
  /\ pc = "individual"
  /\ todo = {}
  /\ pc' = "returned"
  /\ UNCHANGED <<sectors, enableBatch, todo, msgs, commitCid>>

(* The aggregate path as one step: ChainHead may fail (error returned);   *)
(* otherwise the collateral fetch fails for the sectors of failed, infos  *)
(* holds the others sorted, infos[0] is indexed for the seal proof type   *)
(* (a panic when it is empty), and the prover call, the marshalling or    *)
(* the push may still fail and return an error.                           *)
Aggregate ==
  /\ pc = "start"
  /\ ~Individually
  /\ \/ /\ pc' = "failed"
        /\ UNCHANGED <<msgs, commitCid>>
     \/ \E failed \in SUBSET {sectors[i] : i \in DOMAIN sectors} :
          LET infos == SortInfos({i \in DOMAIN sectors : sectors[i] \notin failed})
          IN  \/ /\ infos = <<>>
                 /\ pc' = "panicked"
                 /\ UNCHANGED <<msgs, commitCid>>
              \/ /\ infos # <<>>
                 /\ pc' = "failed"
                 /\ UNCHANGED <<msgs, commitCid>>
              \/ /\ infos # <<>>
                 /\ msgs' = Append(msgs, AggregateMsg(infos))
                 /\ commitCid' = StampAll(failed)
                 /\ pc' = "returned"
  /\ UNCHANGED <<sectors, enableBatch, todo>>

Next ==
  \/ StartIndividually
  \/ \E i \in DOMAIN sectors : SendOne(i)
  \/ FinishIndividually
  \/ Aggregate

Spec == Init /\ [][Next]_vars /\ WF_vars(Next)

-----------------------------------------------------------------------------
TypeOK ==
  /\ sectors \in InputLists
  /\ enableBatch \in BOOLEAN
  /\ pc \in {"start", "individual", "returned", "failed", "panicked"}
  /\ todo \subseteq DOMAIN sectors
  /\ commitCid \in [DOMAIN sectors -> 0..Len(msgs)]

(* Spec 8.3: in every aggregate message the proofs are in ascending       *)
(* sector-number order and prove exactly the sectors of the bitfield, as  *)
(* the on-chain verifier requires -- whatever order the batcher handed    *)
(* the sectors over in and whichever of them failed.                       *)
AggregateAligned ==
  \A k \in DOMAIN msgs :
    msgs[k].method = "ProveCommitAggregate" =>
      /\ {msgs[k].proofs[i] : i \in DOMAIN msgs[k].proofs} = msgs[k].numbers
      /\ \A i, j \in DOMAIN msgs[k].proofs :
           i < j => msgs[k].proofs[i] < msgs[k].proofs[j]

(* Spec 8.5: a sector's CommitCid names a message that commits it, and    *)
(* every sector a pushed message commits has that message's id -- failed  *)
(* sectors keep nil, successful ones are never left unstamped.            *)
StampedIffCarried ==
  \A i \in DOMAIN sectors, k \in DOMAIN msgs :
    /\ commitCid[i] = k <=> sectors[i] \in msgs[k].numbers

(* Spec 3 (pending buffer): a sector the workflow submits twice is       *)
(* de-duplicated on its id at flush, so no sector is proved twice -- in   *)
(* two messages of one Process call, or twice in one aggregate.           *)
CommittedOnce ==
  \A k1, k2 \in DOMAIN msgs :
    \A i \in DOMAIN msgs[k1].proofs, j \in DOMAIN msgs[k2].proofs :
      msgs[k1].proofs[i] = msgs[k2].proofs[j] => <<k1, i>> = <<k2, j>>

(* Spec 6 and 7: a sector whose collateral fetch fails is dropped and the *)
(* rest of the batch continues.  Process chooses the aggregate path on     *)
(* len(sectors) before the failures are dropped: whatever fails, it never  *)
(* panics (crashing the sector manager), and an aggregate it pushes has at *)
(* least MinAggregatedSectors sectors, fewer being rejected by the actor.  *)
FailedFetchesIsolated ==
  /\ pc # "panicked"
  /\ \A k \in DOMAIN msgs :
       msgs[k].method = "ProveCommitAggregate" =>
         Cardinality(msgs[k].numbers) >= MinAggregatedSectors
=============================================================================
