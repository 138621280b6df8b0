------------------------ MODULE CommitProcessorProofs ------------------------
(***************************************************************************)
(* Proofs about one CommitProcessor.Process call, for every finite set of *)
(* sector numbers, every collateral and every MinAggregatedSectors: the    *)
(* invariants the commit_processor run checks on four sectors hold of     *)
(* every processList the batcher can hand over.                            *)
(*                                                                         *)
(* The argument rests on a fact about the model's sort: ranking the kept  *)
(* positions yields the kept sectors in strictly ascending order          *)
(* (SortInfosFacts).                                                       *)
(***************************************************************************)
EXTENDS CommitProcessor, FiniteSetTheorems, TLAPS

(* The messages Process can push: one ProveCommitSector per sector, or one *)
(* ProveCommitAggregate of a list of sectors.                              *)
Messages ==
  {SingleMsg(n) : n \in Sectors} \cup {AggregateMsg(t) : t \in Seq(Sectors)}

(* The proofs of a message are in strictly ascending sector order.        *)
Ascending(s) == \A i, j \in DOMAIN s : i < j => s[i] < s[j]

(* The invariant behind the theorems.  Beyond TypeOK and StampedIffCarried *)
(* it says that every pushed message is one Process can build, with      *)
(* ascending proofs; that nothing is pushed before a path                 *)
(* is chosen; and that the goroutine of a position that has not run yet  *)
(* has stored no id for it.                                                *)
IInv ==
  /\ TypeOK
  /\ msgs \in Seq(Messages)
  /\ \A k \in DOMAIN msgs : Ascending(msgs[k].proofs)
  /\ StampedIffCarried
  /\ pc = "start" => msgs = <<>>
  /\ pc \in {"start", "individual"} => \A i \in todo : commitCid[i] = NoMsg
-----------------------------------------------------------------------------
(* A processList is a sequence of distinct sector numbers.               *)
LEMMA InputListShape ==
  ASSUME sectors \in InputLists
  PROVE  /\ sectors \in Seq(Sectors)
         /\ DOMAIN sectors = 1..Len(sectors)
         /\ \A i, j \in DOMAIN sectors : i # j => sectors[i] # sectors[j]
<1>1. Cardinality(Sectors) \in Nat
  BY FS_CardinalityType, CommitProcessorAssumption
<1>2. PICK k \in 1..Cardinality(Sectors) :
        /\ sectors \in [1..k -> Sectors]
        /\ \A i, j \in 1..k : i # j => sectors[i] # sectors[j]
  BY DEF InputLists
<1>. QED
  BY <1>1, <1>2

(* sort.Slice's order on the positions of a processList is a strict      *)
(* total order.                                                            *)
LEMMA BeforeOrder ==
  ASSUME sectors \in Seq(Sectors)
  PROVE  \A i, j, k \in DOMAIN sectors :
           /\ ~Before(i, i)
           /\ Before(i, j) /\ Before(j, k) => Before(i, k)
           /\ i # j => Before(i, j) \/ Before(j, i)
           /\ Before(i, j) => ~Before(j, i)
<1>1. \A i \in DOMAIN sectors : i \in Nat /\ sectors[i] \in Nat
  BY CommitProcessorAssumption
<1>. QED
  BY <1>1 DEF Before

(* The ranks of a set D of positions: each lies in 1..|D|, the order of   *)
(* the positions is the order of their ranks, and every rank is taken.    *)
LEMMA RankFacts ==
  ASSUME sectors \in Seq(Sectors), NEW D \in SUBSET DOMAIN sectors
  PROVE  /\ IsFiniteSet(D) /\ Cardinality(D) \in Nat
         /\ \A i \in D : Rank(D, i) \in 1..Cardinality(D)
         /\ \A i, j \in D : Before(i, j) => Rank(D, i) < Rank(D, j)
         /\ \A k \in 1..Cardinality(D) : \E i \in D : Rank(D, i) = k
<1> DEFINE L(i) == {j \in D : Before(j, i)}
           N == Cardinality(D)
<1>1. IsFiniteSet(D) /\ N \in Nat
  <2>1. DOMAIN sectors = 1..Len(sectors) /\ IsFiniteSet(1..Len(sectors))
    BY FS_Interval
  <2>. QED
    BY <2>1, FS_Subset, FS_CardinalityType
<1>2. ASSUME NEW i \in D
      PROVE  IsFiniteSet(L(i)) /\ Cardinality(L(i)) \in 0..(N - 1)
  <2>1. IsFiniteSet(D \ {i}) /\ Cardinality(D \ {i}) = N - 1
    BY <1>1, FS_RemoveElement
  <2>2. L(i) \subseteq D \ {i}
    BY BeforeOrder
  <2>3. IsFiniteSet(L(i)) /\ Cardinality(L(i)) <= N - 1
    BY <2>1, <2>2, FS_Subset
  <2>. QED
    BY <2>3, FS_CardinalityType
<1>7. \A i \in D : IsFiniteSet(L(i)) /\ Cardinality(L(i)) \in 0..(N - 1)
  BY <1>2
<1>3. ASSUME NEW i \in D, NEW j \in D, Before(i, j)
      PROVE  Cardinality(L(i)) < Cardinality(L(j))
  <2>1. L(i) \subseteq L(j)
    BY <1>3, BeforeOrder
  <2>2. i \in L(j) /\ i \notin L(i)
    BY <1>3, BeforeOrder
  <2>0. IsFiniteSet(L(j)) /\ Cardinality(L(i)) \in Nat /\ Cardinality(L(j)) \in Nat
    <3>1. Cardinality(L(i)) \in 0..(N - 1) /\ Cardinality(L(j)) \in 0..(N - 1)
          /\ IsFiniteSet(L(j))
      BY <1>7, Zenon
    <3>. QED
      BY <3>1, <1>1
  <2>3. Cardinality(L(i)) <= Cardinality(L(j))
        /\ (Cardinality(L(j)) = Cardinality(L(i)) => L(j) = L(i))
    BY <2>0, <2>1, FS_Subset
  <2>4. Cardinality(L(i)) \in Nat /\ Cardinality(L(j)) \in Nat
    BY <2>0
  <2>. QED
    BY <2>2, <2>3, <2>4
<1>8. \A i \in D : Rank(D, i) = Cardinality(L(i)) + 1
  BY DEF Rank
<1>4. \A i \in D : Rank(D, i) \in 1..N
  <2> SUFFICES ASSUME NEW i \in D PROVE Rank(D, i) \in 1..N
    OBVIOUS
  <2>1. Cardinality(L(i)) \in 0..(N - 1) /\ Rank(D, i) = Cardinality(L(i)) + 1
    BY <1>7, <1>8, Zenon
  <2>. QED
    BY <1>1, <2>1
<1>5. \A i, j \in D : Before(i, j) => Rank(D, i) < Rank(D, j)
  <2> SUFFICES ASSUME NEW i \in D, NEW j \in D, Before(i, j)
               PROVE  Rank(D, i) < Rank(D, j)
    OBVIOUS
  <2>1. Cardinality(L(i)) < Cardinality(L(j))
    BY <1>3
  <2>2. Cardinality(L(i)) \in 0..(N - 1) /\ Cardinality(L(j)) \in 0..(N - 1)
    BY <1>7, Zenon
  <2>3. Rank(D, i) = Cardinality(L(i)) + 1 /\ Rank(D, j) = Cardinality(L(j)) + 1
    BY <1>8, Zenon
  <2>. QED
    BY <1>1, <2>1, <2>2, <2>3
<1>6. \A k \in 1..N : \E i \in D : Rank(D, i) = k
  <2> DEFINE f == [i \in D |-> Rank(D, i)]
  <2>1. f \in Injection(D, 1..N)
    <3>1. f \in [D -> 1..N]
      BY <1>4
    <3>2. \A i, j \in D : i # j => Rank(D, i) # Rank(D, j)
      <4> SUFFICES ASSUME NEW i \in D, NEW j \in D, i # j
                   PROVE  Rank(D, i) # Rank(D, j)
        OBVIOUS
      <4>1. Before(i, j) \/ Before(j, i)
        BY BeforeOrder
      <4>2. Rank(D, i) \in Nat /\ Rank(D, j) \in Nat
        BY <1>4
      <4>. QED
        BY <4>1, <4>2, <1>5
    <3>. QED
      BY <3>1, <3>2 DEF Injection, IsInjective
  <2>2. IsFiniteSet(1..N) /\ Cardinality(1..N) = N
    BY <1>1, FS_Interval
  <2>3. f \in Surjection(D, 1..N)
    BY <2>1, <2>2, FS_Injection
  <2>. QED
    BY <2>3 DEF Surjection
<1>. QED
  BY <1>1, <1>4, <1>5, <1>6

(* infos, sorted, holds exactly the sectors of the kept positions, in     *)
(* strictly ascending order (the numbers of a processList are distinct). *)
LEMMA SortInfosFacts ==
  ASSUME sectors \in InputLists, NEW D \in SUBSET DOMAIN sectors
  PROVE  /\ SortInfos(D) \in Seq(Sectors)
         /\ {SortInfos(D)[k] : k \in DOMAIN SortInfos(D)} = {sectors[i] : i \in D}
         /\ Ascending(SortInfos(D))
<1> DEFINE N == Cardinality(D)
           pos(k) == CHOOSE i \in D : Rank(D, i) = k
           t == SortInfos(D)
<1>1. /\ sectors \in Seq(Sectors)
      /\ \A i, j \in DOMAIN sectors : i # j => sectors[i] # sectors[j]
  BY InputListShape
<1>2. /\ IsFiniteSet(D) /\ N \in Nat
      /\ \A i \in D : Rank(D, i) \in 1..N
      /\ \A i, j \in D : Before(i, j) => Rank(D, i) < Rank(D, j)
      /\ \A k \in 1..N : \E i \in D : Rank(D, i) = k
  BY <1>1, RankFacts
<1>3. \A k \in 1..N : pos(k) \in D /\ Rank(D, pos(k)) = k
  BY <1>2
<1>4. t = [k \in 1..N |-> sectors[pos(k)]]
  BY DEF SortInfos
<1>5. \A i, j \in D : Rank(D, i) = Rank(D, j) => i = j
  <2> SUFFICES ASSUME NEW i \in D, NEW j \in D, i # j
               PROVE  Rank(D, i) # Rank(D, j)
    OBVIOUS
  <2>1. Before(i, j) \/ Before(j, i)
    BY <1>1, BeforeOrder
  <2>2. Rank(D, i) \in Nat /\ Rank(D, j) \in Nat
    BY <1>2
  <2>. QED
    BY <1>2, <2>1, <2>2
<1>6. t \in Seq(Sectors)
  <2>1. \A k \in 1..N : sectors[pos(k)] \in Sectors
    BY <1>1, <1>3
  <2>2. t \in [1..N -> Sectors]
    BY <1>4, <2>1
  <2>. QED
    BY <1>2, <2>2
<1>7. {t[k] : k \in DOMAIN t} = {sectors[i] : i \in D}
  <2>1. \A k \in DOMAIN t : t[k] \in {sectors[i] : i \in D}
    BY <1>3, <1>4
  <2>2. ASSUME NEW i \in D PROVE \E k \in DOMAIN t : t[k] = sectors[i]
    <3>1. Rank(D, i) \in 1..N
      BY <1>2
    <3>2. pos(Rank(D, i)) = i
      BY <1>3, <1>5, <3>1
    <3>. QED
      BY <1>4, <3>1, <3>2
  <2>. QED
    BY <2>1, <2>2
<1>8. Ascending(t)
  <2> SUFFICES ASSUME NEW k \in 1..N, NEW l \in 1..N, k < l
               PROVE  sectors[pos(k)] < sectors[pos(l)]
    BY <1>4 DEF Ascending
  <2>1. pos(k) \in D /\ pos(l) \in D /\ Rank(D, pos(k)) = k /\ Rank(D, pos(l)) = l
    BY <1>3
  <2>2. pos(k) # pos(l)
    BY <2>1
  <2>3. ~Before(pos(l), pos(k))
    BY <1>2, <2>1
  <2>4. Before(pos(k), pos(l))
    BY <1>1, <2>1, <2>2, <2>3, BeforeOrder
  <2>5. sectors[pos(k)] # sectors[pos(l)]
    BY <1>1, <2>1, <2>2
  <2>6. sectors[pos(k)] \in Nat /\ sectors[pos(l)] \in Nat
    <3>1. sectors[pos(k)] \in Sectors /\ sectors[pos(l)] \in Sectors
      BY <1>1, <2>1
    <3>. QED
      BY <3>1, CommitProcessorAssumption
  <2>. QED
    BY <2>4, <2>5, <2>6 DEF Before
<1>. QED
  BY <1>6, <1>7, <1>8
-----------------------------------------------------------------------------
(* Every message Process can push proves the sectors of its bitfield, in  *)
(* the order of its proofs.                                                *)
LEMMA MessageShape ==
  ASSUME NEW m \in Messages
  PROVE  /\ m.method \in {"ProveCommitSector", "ProveCommitAggregate"}
         /\ m.proofs \in Seq(Sectors)
         /\ m.numbers = {m.proofs[i] : i \in DOMAIN m.proofs}
<1>1. CASE \E n \in Sectors : m = SingleMsg(n)
  BY <1>1 DEF SingleMsg
<1>2. CASE \E t \in Seq(Sectors) : m = AggregateMsg(t)
  BY <1>2 DEF AggregateMsg
<1>. QED
  BY <1>1, <1>2 DEF Messages

LEMMA InitIInv == Init => IInv
<1> SUFFICES ASSUME Init PROVE IInv
  OBVIOUS
<1>1. TypeOK
  BY DEF Init, TypeOK, NoMsg
<1>. QED
  BY <1>1 DEF Init, IInv, StampedIffCarried, NoMsg

(* The goroutine of position i pushes its ProveCommitSector, or fails.    *)
LEMMA SendOneIInv ==
  ASSUME IInv, NEW i \in DOMAIN sectors, SendOne(i)
  PROVE  IInv'
<1> USE DEF IInv, TypeOK
<1>1. /\ sectors \in Seq(Sectors)
      /\ \A a, b \in DOMAIN sectors : a # b => sectors[a] # sectors[b]
  BY InputListShape
<1>2. pc = "individual" /\ i \in todo /\ commitCid[i] = NoMsg
  BY DEF SendOne
<1>3. CASE UNCHANGED <<msgs, commitCid>>
  BY <1>2, <1>3 DEF SendOne, StampedIffCarried
<1>4. CASE /\ msgs' = Append(msgs, SingleMsg(sectors[i]))
           /\ commitCid' = [commitCid EXCEPT ![i] = Len(msgs')]
  <2> DEFINE m == SingleMsg(sectors[i])
             n == Len(msgs) + 1
  <2>1. m \in Messages /\ sectors[i] \in Sectors
    BY <1>1 DEF Messages
  <2>2. /\ msgs' \in Seq(Messages) /\ Len(msgs') = n /\ msgs'[n] = m
        /\ \A k \in 1..Len(msgs) : msgs'[k] = msgs[k]
        /\ DOMAIN msgs' = 1..n
    BY <1>4, <2>1
  <2>3. commitCid' \in [DOMAIN sectors -> 0..Len(msgs')]
    BY <1>4, <2>2
  <2>4. \A k \in DOMAIN msgs' : Ascending(msgs'[k].proofs)
    <3>1. Ascending(m.proofs)
      BY DEF SingleMsg, Ascending
    <3>. QED
      BY <2>2, <3>1
  <2>5. sectors[i] \notin UNION {msgs[k].numbers : k \in DOMAIN msgs}
    BY <1>2 DEF StampedIffCarried, NoMsg
  <2>6. StampedIffCarried'
    <3> SUFFICES ASSUME NEW a \in DOMAIN sectors, NEW k \in DOMAIN msgs'
                 PROVE  commitCid'[a] = k <=> sectors[a] \in msgs'[k].numbers
      <4>1. sectors' = sectors
        BY DEF SendOne
      <4>. QED
        BY <4>1 DEF StampedIffCarried
    <3>1. m.numbers = {sectors[i]}
      BY DEF SingleMsg
    <3>2. CASE k = n
      BY <1>1, <1>4, <2>2, <3>1, <3>2
    <3>3. CASE k \in 1..Len(msgs)
      <4>1. CASE a = i
        BY <1>4, <2>2, <2>5, <3>3, <4>1
      <4>2. CASE a # i
        BY <1>4, <2>2, <3>3, <4>2 DEF StampedIffCarried
      <4>. QED
        BY <4>1, <4>2
    <3>. QED
      BY <2>2, <3>2, <3>3
  <2>7. \A a \in todo' : commitCid'[a] = NoMsg
    BY <1>2, <1>4 DEF SendOne
  <2>. QED
    BY <1>2, <2>2, <2>3, <2>4, <2>6, <2>7 DEF SendOne
<1>. QED
  BY <1>3, <1>4 DEF SendOne

(* The aggregate path pushes one ProveCommitAggregate of the sorted kept  *)
(* sectors and stamps exactly them, or fails, or panics.                   *)
LEMMA AggregateIInv ==
  ASSUME IInv, Aggregate
  PROVE  IInv'
<1> USE DEF IInv, TypeOK
<1>1. /\ pc = "start" /\ msgs = <<>>
      /\ \A a \in DOMAIN sectors : commitCid[a] = NoMsg
      /\ UNCHANGED <<sectors, enableBatch, todo>>
  BY DEF Aggregate, NoMsg
<1>2. CASE UNCHANGED <<msgs, commitCid>> /\ pc' \in {"failed", "panicked"}
  BY <1>1, <1>2 DEF StampedIffCarried
<1>3. CASE \E failed \in SUBSET {sectors[a] : a \in DOMAIN sectors} :
             /\ msgs' = Append(msgs, AggregateMsg(SortInfos(
                           {a \in DOMAIN sectors : sectors[a] \notin failed})))
             /\ commitCid' = StampAll(failed)
             /\ pc' = "returned"
  <2>1. PICK failed \in SUBSET {sectors[a] : a \in DOMAIN sectors} :
             /\ msgs' = Append(msgs, AggregateMsg(SortInfos(
                           {a \in DOMAIN sectors : sectors[a] \notin failed})))
             /\ commitCid' = StampAll(failed)
             /\ pc' = "returned"
    BY <1>3
  <2> DEFINE D == {a \in DOMAIN sectors : sectors[a] \notin failed}
             t == SortInfos(D)
             m == AggregateMsg(t)
  <2>2. /\ t \in Seq(Sectors)
        /\ {t[k] : k \in DOMAIN t} = {sectors[a] : a \in D}
        /\ Ascending(t)
    BY SortInfosFacts
  <2>3. m \in Messages /\ m.proofs = t /\ m.numbers = {sectors[a] : a \in D}
    <3>1. m \in Messages
      BY <2>2, Zenon DEF Messages
    <3>2. m.proofs = t /\ m.numbers = {t[k] : k \in DOMAIN t}
      BY DEF AggregateMsg
    <3>. QED
      BY <2>2, <3>1, <3>2
  <2>4. msgs' = <<m>>
    BY <1>1, <2>1
  <2>5. commitCid' = [a \in DOMAIN sectors |->
                        IF sectors[a] \in failed THEN NoMsg ELSE 1]
    BY <1>1, <2>1 DEF StampAll
  <2>6. StampedIffCarried'
    BY <1>1, <2>3, <2>4, <2>5 DEF StampedIffCarried, NoMsg
  <2>7. TypeOK'
    <3>1. commitCid' \in [DOMAIN sectors -> 0..Len(msgs')]
      BY <2>4, <2>5 DEF NoMsg
    <3>. QED
      BY <1>1, <2>1, <3>1
  <2>8. msgs' \in Seq(Messages)
        /\ \A k \in DOMAIN msgs' : Ascending(msgs'[k].proofs)
    <3>1. msgs' \in Seq(Messages) /\ DOMAIN msgs' = {1} /\ msgs'[1] = m
      BY <2>3, <2>4
    <3>2. Ascending(m.proofs)
      BY <2>2, <2>3
    <3>. QED
      BY <3>1, <3>2
  <2>. QED
    BY <2>1, <2>6, <2>7, <2>8
<1>. QED
  BY <1>2, <1>3 DEF Aggregate

LEMMA NextIInv == IInv /\ [Next]_vars => IInv'
<1> SUFFICES ASSUME IInv, [Next]_vars PROVE IInv'
  OBVIOUS
<1> USE DEF IInv, TypeOK
<1>1. CASE StartIndividually
  <2>1. msgs = <<>> /\ \A a \in DOMAIN sectors : commitCid[a] = NoMsg
    BY <1>1 DEF StartIndividually, NoMsg
  <2>. QED
    BY <1>1, <2>1 DEF StartIndividually, StampedIffCarried
<1>2. ASSUME NEW i \in DOMAIN sectors, SendOne(i) PROVE IInv'
  BY <1>2, SendOneIInv
<1>3. CASE FinishIndividually
  BY <1>3 DEF FinishIndividually, StampedIffCarried
<1>4. CASE Aggregate
  BY <1>4, AggregateIInv
<1>5. CASE UNCHANGED vars
  BY <1>5 DEF vars, StampedIffCarried
<1>. QED
  BY <1>1, <1>2, <1>3, <1>4, <1>5 DEF Next

LEMMA InvariantHolds == Spec => []IInv
  BY InitIInv, NextIInv, PTL DEF Spec

-----------------------------------------------------------------------------
(* Process keeps its state well formed: the processList, the goroutines   *)
(* still to run and the stored ids, which name pushed messages only.      *)
THEOREM TypeCorrect == Spec => []TypeOK
<1>1. IInv => TypeOK
  BY DEF IInv
<1>. QED
  BY <1>1, InvariantHolds, PTL

(* sort.Slice before the bitfield and the proof array are built: every    *)
(* aggregate message proves the sectors of its bitfield in ascending      *)
(* order, whatever order the batcher handed them over in and whichever   *)
(* collateral fetches failed.                                              *)
THEOREM AlignedAggregates == Spec => []AggregateAligned
<1>1. IInv => AggregateAligned
  <2> SUFFICES ASSUME IInv, NEW k \in DOMAIN msgs,
                      msgs[k].method = "ProveCommitAggregate"
               PROVE  /\ {msgs[k].proofs[i] : i \in DOMAIN msgs[k].proofs}
                          = msgs[k].numbers
                      /\ \A i, j \in DOMAIN msgs[k].proofs :
                           i < j => msgs[k].proofs[i] < msgs[k].proofs[j]
    BY DEF AggregateAligned
  <2>1. msgs[k] \in Messages
    BY DEF IInv
  <2>. QED
    BY <2>1, MessageShape DEF IInv, Ascending
<1>. QED
  BY <1>1, InvariantHolds, PTL

(* A sector's CommitCid names the message that commits it, and every     *)
(* sector a pushed message commits carries that message's id.             *)
THEOREM StampsCorrect == Spec => []StampedIffCarried
<1>1. IInv => StampedIffCarried
  BY DEF IInv
<1>. QED
  BY <1>1, InvariantHolds, PTL
=============================================================================
