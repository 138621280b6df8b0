---------------------- MODULE PreCommitProcessorProofs ----------------------
(***************************************************************************)
(* Proofs about one PreCommitProcessor.Process call, for every finite set *)
(* of sector numbers and every deposit: the invariants the                 *)
(* precommit_processor run checks on three sectors hold of every          *)
(* processList the batcher can hand over.                                  *)
(*                                                                         *)
(* The argument rests on a fact about the model's append loop: it keeps   *)
(* exactly the sectors of the positions whose params were built           *)
(* (KeptInOrderFacts).                                                     *)
(***************************************************************************)
EXTENDS PreCommitProcessor, FiniteSetTheorems, TLAPS

(* The messages Process can push: one PreCommitSector per sector, or one  *)
(* PreCommitSectorBatch of a list of sectors.                              *)
Messages ==
  {SingleMsg(n) : n \in Sectors} \cup {BatchMsg(t) : t \in Seq(Sectors)}

(* The invariant behind the theorems.  Beyond TypeOK and StampedIffCarried *)
(* it says that every pushed message is one Process can build; that      *)
(* nothing is pushed before a path is chosen; and that the goroutine of a *)
(* position that has not run yet has stored no id for it.                 *)
IInv ==
  /\ TypeOK
  /\ msgs \in Seq(Messages)
  /\ StampedIffCarried
  /\ pc = "start" => msgs = <<>>
  /\ pc \in {"start", "individual"} => \A i \in todo : preCommitCid[i] = NoMsg
-----------------------------------------------------------------------------
(* The place in infos of the sector at position i of D: one more than the *)
(* number of positions of D before i.                                      *)
IndexRank(D, i) == Cardinality({j \in D : j < i}) + 1

(* A processList is a sequence of distinct sector numbers.               *)
LEMMA InputListShape ==
  ASSUME sectors \in InputLists
  PROVE  /\ sectors \in Seq(Sectors)
         /\ DOMAIN sectors = 1..Len(sectors)
         /\ \A i, j \in DOMAIN sectors : i # j => sectors[i] # sectors[j]
<1>1. Cardinality(Sectors) \in Nat
  BY FS_CardinalityType, PreCommitProcessorAssumption
<1>2. PICK k \in 1..Cardinality(Sectors) :
        /\ sectors \in [1..k -> Sectors]
        /\ \A i, j \in 1..k : i # j => sectors[i] # sectors[j]
  BY DEF InputLists
<1>. QED
  BY <1>1, <1>2

(* The places of a finite set D of positions: each lies in 1..|D|, the    *)
(* order of the positions is the order of their places, and every place  *)
(* is taken.                                                               *)
LEMMA IndexRankFacts ==
  ASSUME NEW L \in Nat, NEW D \in SUBSET (1..L)
  PROVE  /\ IsFiniteSet(D) /\ Cardinality(D) \in Nat
         /\ \A i \in D : IndexRank(D, i) \in 1..Cardinality(D)
         /\ \A i, j \in D : i < j => IndexRank(D, i) < IndexRank(D, j)
         /\ \A k \in 1..Cardinality(D) : \E i \in D : IndexRank(D, i) = k
<1> DEFINE B(i) == {j \in D : j < i}
           N == Cardinality(D)
<1>0. D \subseteq Nat
  OBVIOUS
<1>1. IsFiniteSet(D) /\ N \in Nat
  <2>1. IsFiniteSet(1..L)
    BY FS_Interval
  <2>2. IsFiniteSet(D)
    BY <2>1, FS_Subset
  <2>. QED
    BY <2>2, FS_CardinalityType
<1>2. ASSUME NEW i \in D
      PROVE  IsFiniteSet(B(i)) /\ Cardinality(B(i)) \in 0..(N - 1)
  <2>1. IsFiniteSet(D \ {i}) /\ Cardinality(D \ {i}) = N - 1
    BY <1>1, FS_RemoveElement
  <2>2. B(i) \subseteq D \ {i}
    OBVIOUS
  <2>3. IsFiniteSet(B(i)) /\ Cardinality(B(i)) <= N - 1
    BY <2>1, <2>2, FS_Subset
  <2>. QED
    BY <2>3, FS_CardinalityType
<1>3. \A i \in D : IsFiniteSet(B(i)) /\ Cardinality(B(i)) \in 0..(N - 1)
  BY <1>2
<1>4. ASSUME NEW i \in D, NEW j \in D, i < j
      PROVE  Cardinality(B(i)) < Cardinality(B(j))
  <2>0. i \in Nat /\ j \in Nat /\ \A x \in D : x \in Nat
    BY <1>0
  <2>a. B(i) \subseteq B(j)
    <3> SUFFICES ASSUME NEW x \in D, x < i PROVE x < j
      OBVIOUS
    <3>1. x \in Nat
      BY <1>0
    <3>. QED
      BY <2>0, <3>1, <1>4
  <2>b. i \in B(j) /\ i \notin B(i)
    BY <2>0, <1>4
  <2>1. B(i) \subseteq B(j) /\ i \in B(j) /\ i \notin B(i)
    BY <2>a, <2>b
  <2>2. IsFiniteSet(B(j)) /\ Cardinality(B(i)) \in Nat /\ Cardinality(B(j)) \in Nat
    <3>1. Cardinality(B(i)) \in 0..(N - 1) /\ Cardinality(B(j)) \in 0..(N - 1)
          /\ IsFiniteSet(B(j))
      BY <1>3, Zenon
    <3>. QED
      BY <3>1, <1>1
  <2>3. Cardinality(B(i)) <= Cardinality(B(j))
        /\ (Cardinality(B(j)) = Cardinality(B(i)) => B(j) = B(i))
    BY <2>1, <2>2, FS_Subset
  <2>. QED
    BY <2>1, <2>2, <2>3
<1>5. \A i \in D : IndexRank(D, i) = Cardinality(B(i)) + 1
  BY DEF IndexRank
<1>6. \A i \in D : IndexRank(D, i) \in 1..N
  <2> SUFFICES ASSUME NEW i \in D PROVE IndexRank(D, i) \in 1..N
    OBVIOUS
  <2>1. Cardinality(B(i)) \in 0..(N - 1) /\ IndexRank(D, i) = Cardinality(B(i)) + 1
    BY <1>3, <1>5, Zenon
  <2>. QED
    BY <1>1, <2>1
<1>7. \A i, j \in D : i < j => IndexRank(D, i) < IndexRank(D, j)
  <2> SUFFICES ASSUME NEW i \in D, NEW j \in D, i < j
               PROVE  IndexRank(D, i) < IndexRank(D, j)
    OBVIOUS
  <2>1. Cardinality(B(i)) < Cardinality(B(j))
    BY <1>4
  <2>2. Cardinality(B(i)) \in 0..(N - 1) /\ Cardinality(B(j)) \in 0..(N - 1)
    BY <1>3, Zenon
  <2>3. IndexRank(D, i) = Cardinality(B(i)) + 1
        /\ IndexRank(D, j) = Cardinality(B(j)) + 1
    BY <1>5, Zenon
  <2>. QED
    BY <1>1, <2>1, <2>2, <2>3
<1>8. \A k \in 1..N : \E i \in D : IndexRank(D, i) = k
  <2> DEFINE f == [i \in D |-> IndexRank(D, i)]
  <2>1. f \in Injection(D, 1..N)
    <3>1. f \in [D -> 1..N]
      BY <1>6
    <3>2. \A i, j \in D : i # j => IndexRank(D, i) # IndexRank(D, j)
      <4> SUFFICES ASSUME NEW i \in D, NEW j \in D, i # j
                   PROVE  IndexRank(D, i) # IndexRank(D, j)
        OBVIOUS
      <4>1. i < j \/ j < i
        OBVIOUS
      <4>2. IndexRank(D, i) \in Nat /\ IndexRank(D, j) \in Nat
        BY <1>6
      <4>. QED
        BY <4>1, <4>2, <1>7
    <3>. QED
      BY <3>1, <3>2 DEF Injection, IsInjective
  <2>2. IsFiniteSet(1..N) /\ Cardinality(1..N) = N
    BY <1>1, FS_Interval
  <2>3. f \in Surjection(D, 1..N)
    BY <2>1, <2>2, FS_Injection
  <2>. QED
    BY <2>3 DEF Surjection
<1>. QED
  BY <1>1, <1>6, <1>7, <1>8

(* infos holds exactly the sectors of the kept positions.                 *)
LEMMA KeptInOrderFacts ==
  ASSUME sectors \in InputLists, NEW D \in SUBSET DOMAIN sectors
  PROVE  /\ KeptInOrder(D) \in Seq(Sectors)
         /\ ListSet(KeptInOrder(D)) = {sectors[i] : i \in D}
<1> DEFINE N == Cardinality(D)
           pos(k) == CHOOSE i \in D : IndexRank(D, i) = k
           t == KeptInOrder(D)
<1>1. sectors \in Seq(Sectors) /\ DOMAIN sectors = 1..Len(sectors)
  BY InputListShape
<1>2. /\ IsFiniteSet(D) /\ N \in Nat
      /\ \A i \in D : IndexRank(D, i) \in 1..N
      /\ \A i, j \in D : i < j => IndexRank(D, i) < IndexRank(D, j)
      /\ \A k \in 1..N : \E i \in D : IndexRank(D, i) = k
  <2>1. Len(sectors) \in Nat /\ D \in SUBSET (1..Len(sectors))
    BY <1>1
  <2>. QED
    BY <2>1, IndexRankFacts
<1>3. \A k \in 1..N : pos(k) \in D /\ IndexRank(D, pos(k)) = k
  BY <1>2
<1>4. t = [k \in 1..N |-> sectors[pos(k)]]
  BY DEF KeptInOrder, IndexRank
<1>5. \A i, j \in D : IndexRank(D, i) = IndexRank(D, j) => i = j
  <2> SUFFICES ASSUME NEW i \in D, NEW j \in D, i # j
               PROVE  IndexRank(D, i) # IndexRank(D, j)
    OBVIOUS
  <2>1. i \in Nat /\ j \in Nat
    BY <1>1
  <2>2. IndexRank(D, i) \in Nat /\ IndexRank(D, j) \in Nat
    BY <1>2
  <2>. QED
    BY <1>2, <2>1, <2>2
<1>6. t \in Seq(Sectors)
  <2>1. \A k \in 1..N : sectors[pos(k)] \in Sectors
    BY <1>1, <1>3
  <2>2. t \in [1..N -> Sectors]
    BY <1>4, <2>1
  <2>. QED
    BY <1>2, <2>2
<1>7. ListSet(t) = {sectors[i] : i \in D}
  <2>1. \A k \in DOMAIN t : t[k] \in {sectors[i] : i \in D}
    BY <1>3, <1>4
  <2>2. ASSUME NEW i \in D PROVE \E k \in DOMAIN t : t[k] = sectors[i]
    <3>1. IndexRank(D, i) \in 1..N
      BY <1>2
    <3>2. pos(IndexRank(D, i)) = i
      BY <1>3, <1>5, <3>1
    <3>. QED
      BY <1>4, <3>1, <3>2
  <2>. QED
    BY <2>1, <2>2 DEF ListSet
<1>. QED
  BY <1>6, <1>7
-----------------------------------------------------------------------------
LEMMA InitIInv == Init => IInv
<1> SUFFICES ASSUME Init PROVE IInv
  OBVIOUS
<1>1. TypeOK
  BY DEF Init, TypeOK, NoMsg
<1>. QED
  BY <1>1 DEF Init, IInv, StampedIffCarried, NoMsg

(* The goroutine of position i pushes its PreCommitSector, or fails.      *)
LEMMA SendOneIInv ==
  ASSUME IInv, NEW i \in DOMAIN sectors, SendOne(i)
  PROVE  IInv'
<1> USE DEF IInv, TypeOK
<1>1. /\ sectors \in Seq(Sectors)
      /\ \A a, b \in DOMAIN sectors : a # b => sectors[a] # sectors[b]
  BY InputListShape
<1>2. pc = "individual" /\ i \in todo /\ preCommitCid[i] = NoMsg
  BY DEF SendOne
<1>3. CASE UNCHANGED <<msgs, preCommitCid>>
  BY <1>2, <1>3 DEF SendOne, StampedIffCarried
<1>4. CASE /\ msgs' = Append(msgs, SingleMsg(sectors[i]))
           /\ preCommitCid' = [preCommitCid EXCEPT ![i] = Len(msgs')]
  <2> DEFINE m == SingleMsg(sectors[i])
             n == Len(msgs) + 1
  <2>1. m \in Messages /\ sectors[i] \in Sectors
    BY <1>1 DEF Messages
  <2>2. /\ msgs' \in Seq(Messages) /\ Len(msgs') = n /\ msgs'[n] = m
        /\ \A k \in 1..Len(msgs) : msgs'[k] = msgs[k]
        /\ DOMAIN msgs' = 1..n
    BY <1>4, <2>1
  <2>3. preCommitCid' \in [DOMAIN sectors -> 0..Len(msgs')]
    BY <1>4, <2>2
  <2>4. \A k \in DOMAIN msgs : sectors[i] \notin ListSet(msgs[k].sectors)
    BY <1>2 DEF StampedIffCarried, NoMsg
  <2>5. StampedIffCarried'
    <3> SUFFICES ASSUME NEW a \in DOMAIN sectors, NEW k \in DOMAIN msgs'
                 PROVE  preCommitCid'[a] = k
                          <=> sectors[a] \in ListSet(msgs'[k].sectors)
      <4>1. sectors' = sectors
        BY DEF SendOne
      <4>. QED
        BY <4>1 DEF StampedIffCarried
    <3>1. ListSet(m.sectors) = {sectors[i]}
      BY DEF SingleMsg, ListSet
    <3>2. CASE k = n
      <4>1. sectors[a] \in ListSet(msgs'[k].sectors) <=> a = i
        <5>1. ListSet(msgs'[k].sectors) = {sectors[i]}
          BY <2>2, <3>1, <3>2
        <5>2. sectors[a] = sectors[i] <=> a = i
          BY <1>1, Zenon
        <5>. QED
          BY <5>1, <5>2
      <4>2. preCommitCid'[a] = k <=> a = i
        <5>1. preCommitCid'[i] = n
          BY <1>4, <2>2
        <5>2. a # i => preCommitCid'[a] = preCommitCid[a]
                       /\ preCommitCid[a] \in 0..Len(msgs)
          BY <1>4
        <5>. QED
          BY <5>1, <5>2, <3>2
      <4>. QED
        BY <4>1, <4>2
    <3>3. CASE k \in 1..Len(msgs)
      <4>1. CASE a = i
        BY <1>4, <2>2, <2>4, <3>3, <4>1
      <4>2. CASE a # i
        BY <1>4, <2>2, <3>3, <4>2 DEF StampedIffCarried
      <4>. QED
        BY <4>1, <4>2
    <3>. QED
      BY <2>2, <3>2, <3>3
  <2>6. \A a \in todo' : preCommitCid'[a] = NoMsg
    BY <1>2, <1>4 DEF SendOne
  <2>. QED
    BY <1>2, <2>2, <2>3, <2>5, <2>6 DEF SendOne
<1>. QED
  BY <1>3, <1>4 DEF SendOne

(* The batch path pushes one PreCommitSectorBatch of the kept sectors and *)
(* stamps exactly them, or fails.                                          *)
LEMMA BatchIInv ==
  ASSUME IInv, Batch
  PROVE  IInv'
<1> USE DEF IInv, TypeOK
<1>1. /\ pc = "start" /\ msgs = <<>>
      /\ \A a \in DOMAIN sectors : preCommitCid[a] = NoMsg
      /\ UNCHANGED <<sectors, enableBatch, todo>>
  BY DEF Batch, NoMsg
<1>2. PICK failed \in SUBSET ListSet(sectors) :
        LET infos == KeptInOrder({a \in DOMAIN sectors : sectors[a] \notin failed})
        IN  \/ /\ pc' = "failed"
               /\ UNCHANGED <<msgs, preCommitCid>>
            \/ /\ msgs' = Append(msgs, BatchMsg(infos))
               /\ preCommitCid' = StampAll(failed)
               /\ pc' = "returned"
  BY DEF Batch
<1> DEFINE D == {a \in DOMAIN sectors : sectors[a] \notin failed}
           t == KeptInOrder(D)
           m == BatchMsg(t)
<1>3. CASE pc' = "failed" /\ UNCHANGED <<msgs, preCommitCid>>
  BY <1>1, <1>3 DEF StampedIffCarried
<1>4. CASE /\ msgs' = Append(msgs, m)
           /\ preCommitCid' = StampAll(failed)
           /\ pc' = "returned"
  <2>1. t \in Seq(Sectors) /\ ListSet(t) = {sectors[a] : a \in D}
    BY KeptInOrderFacts
  <2>2. m \in Messages /\ ListSet(m.sectors) = {sectors[a] : a \in D}
    <3>1. m \in Messages
      BY <2>1, Zenon DEF Messages
    <3>2. m.sectors = t
      BY DEF BatchMsg
    <3>. QED
      BY <2>1, <3>1, <3>2
  <2>3. msgs' = <<m>>
    BY <1>1, <1>4
  <2>4. preCommitCid' = [a \in DOMAIN sectors |->
                           IF sectors[a] \in failed THEN NoMsg ELSE 1]
    BY <1>1, <1>4 DEF StampAll
  <2>5. StampedIffCarried'
    <3> SUFFICES ASSUME NEW a \in DOMAIN sectors, NEW k \in DOMAIN msgs'
                 PROVE  preCommitCid'[a] = k
                          <=> sectors[a] \in ListSet(msgs'[k].sectors)
      BY <1>1 DEF StampedIffCarried
    <3>1. k = 1 /\ msgs'[k] = m
      BY <2>3
    <3>2. sectors[a] \in ListSet(m.sectors) <=> sectors[a] \notin failed
      <4>1. \A b \in DOMAIN sectors : sectors[a] = sectors[b] => a = b
        BY InputListShape
      <4>. QED
        BY <2>2, <4>1
    <3>3. preCommitCid'[a] = 1 <=> sectors[a] \notin failed
      BY <2>4 DEF NoMsg
    <3>. QED
      BY <3>1, <3>2, <3>3
  <2>6. TypeOK'
    <3>1. preCommitCid' \in [DOMAIN sectors -> 0..Len(msgs')]
      BY <2>3, <2>4 DEF NoMsg
    <3>. QED
      BY <1>1, <1>4, <3>1
  <2>7. msgs' \in Seq(Messages)
    BY <2>2, <2>3
  <2>. QED
    BY <1>4, <2>5, <2>6, <2>7
<1>. QED
  BY <1>2, <1>3, <1>4

LEMMA NextIInv == IInv /\ [Next]_vars => IInv'
<1> SUFFICES ASSUME IInv, [Next]_vars PROVE IInv'
  OBVIOUS
<1> USE DEF IInv, TypeOK
<1>1. CASE StartIndividually
  <2>1. msgs = <<>> /\ \A a \in DOMAIN sectors : preCommitCid[a] = NoMsg
    BY <1>1 DEF StartIndividually, NoMsg
  <2>. QED
    BY <1>1, <2>1 DEF StartIndividually, StampedIffCarried
<1>2. ASSUME NEW i \in DOMAIN sectors, SendOne(i) PROVE IInv'
  BY <1>2, SendOneIInv
<1>3. CASE FinishIndividually
  BY <1>3 DEF FinishIndividually, StampedIffCarried
<1>4. CASE Batch
  BY <1>4, BatchIInv
<1>5. CASE UNCHANGED vars
  BY <1>5 DEF vars, StampedIffCarried
<1>. QED
  BY <1>1, <1>2, <1>3, <1>4, <1>5 DEF Next

LEMMA InvariantHolds == Spec => []IInv
  BY InitIInv, NextIInv, PTL DEF Spec

-----------------------------------------------------------------------------
(* Process keeps its state well formed: the processList, the goroutines   *)
(* still to run and the stored ids, which name pushed messages only.      *)
THEOREM TypeCorrect == Spec => []TypeOK
<1>1. IInv => TypeOK
  BY DEF IInv
<1>. QED
  BY <1>1, InvariantHolds, PTL

(* A sector's PreCommitCid names the message that pre-commits it, and    *)
(* every sector a pushed message pre-commits carries that message's id,  *)
(* on both paths and whichever params failed.                             *)
THEOREM StampsCorrect == Spec => []StampedIffCarried
<1>1. IInv => StampedIffCarried
  BY DEF IInv
<1>. QED
  BY <1>1, InvariantHolds, PTL
=============================================================================
