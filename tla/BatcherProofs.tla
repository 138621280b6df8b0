--------------------------- MODULE BatcherProofs ---------------------------
(***************************************************************************)
(* Proofs about the Batcher specification: type correctness (the timer is *)
(* never left spent), exclusive ownership of every held sector, the bound *)
(* on a dispatch's size and the refinement of the commit queue, for every  *)
(* finite set of sectors, every config and every bound on the chain height.*)
(***************************************************************************)
EXTENDS Batcher, FiniteSetTheorems, TLAPS

(* ExclusiveOwnership is inductive on its own once the types are known.   *)
IInv == TypeOK /\ ExclusiveOwnership

-----------------------------------------------------------------------------
(* The flush policy moves the chosen processList out of the buffer into a *)
(* new dispatch and re-arms or keeps the timer; whatever its arguments,    *)
(* everything it produces comes from p.                                    *)
LEMMA FlushPolicyShape ==
  ASSUME NEW p \in SUBSET Sectors, NEW manual \in BOOLEAN,
         NEW tick \in BOOLEAN, NEW expired, NEW t0,
         FlushPolicy(p, manual, tick, expired, t0)
  PROVE  \E pl \in SUBSET p :
           /\ pending' = p \ pl
           /\ inflight' = IF pl # {} THEN inflight \cup {pl} ELSE inflight
           /\ timer' \in {"armed", t0}
  BY DEF FlushPolicy

-----------------------------------------------------------------------------
(* Type correctness.                                                       *)

LEMMA InitTypeOK == Init => TypeOK
<1> SUFFICES ASSUME Init PROVE TypeOK
  OBVIOUS
<1>1. head \in 0..MaxHead
  BY BatcherAssumption DEF BatcherAssumption, Init
<1>2. threshold \in Thresholds /\ enabled \in BOOLEAN
  BY BatcherAssumption DEF BatcherAssumption, Init
<1>3. QED
  BY <1>1, <1>2, Zenon DEF Init, TypeOK

LEMMA NextTypeOK == TypeOK /\ [Next]_vars => TypeOK'
<1> SUFFICES ASSUME TypeOK, [Next]_vars PROVE TypeOK'
  OBVIOUS
<1> USE BatcherAssumption DEF BatcherAssumption
<1>1. ASSUME NEW s \in Sectors, Submit(s) PROVE TypeOK'
  BY <1>1 DEF Submit, TypeOK
<1>2. CASE SendForce
  BY <1>2 DEF SendForce, TypeOK
<1>3. CASE TimerExpire
  BY <1>3 DEF TimerExpire, TypeOK
<1>4. CASE Cancel
  BY <1>4 DEF Cancel, TypeOK
<1>5. CASE AdvanceHead
  BY <1>5 DEF AdvanceHead, TypeOK
<1>6. ASSUME NEW t \in Thresholds, NEW e \in BOOLEAN, UpdateConfig(t, e)
      PROVE TypeOK'
  BY <1>6 DEF UpdateConfig, TypeOK
<1>7. CASE RecvCancel
  BY <1>7 DEF RecvCancel, TypeOK
<1>8. CASE RecvForce
  BY <1>8 DEF RecvForce, FlushPolicy, TypeOK
<1>9. ASSUME NEW ok \in BOOLEAN, RecvTick(ok) PROVE TypeOK'
  BY <1>9 DEF RecvTick, FlushPolicy, Expired, TypeOK
<1>10. ASSUME NEW s \in Sectors, RecvSector(s) PROVE TypeOK'
  BY <1>10 DEF RecvSector, FlushPolicy, TypeOK
<1>11. CASE Stop
  BY <1>11 DEF Stop, TypeOK
<1>12. ASSUME NEW d \in inflight, Process(d) PROVE TypeOK'
  BY <1>12 DEF Process, TypeOK
<1>13. CASE UNCHANGED vars
  BY <1>13 DEF vars, TypeOK
<1>14. QED
  BY <1>1, <1>2, <1>3, <1>4, <1>5, <1>6, <1>7, <1>8, <1>9, <1>10, <1>11,
     <1>12, <1>13 DEF Next, Environment, Coordinator

(* The type invariant holds in every reachable state.                      *)
THEOREM TypeCorrect == Spec => []TypeOK
  BY InitTypeOK, NextTypeOK, PTL DEF Spec

-----------------------------------------------------------------------------
(* Exclusive ownership.  A flush only moves sectors from p into a new     *)
(* dispatch, so the places stay disjoint; a dispatch that returns stamps  *)
(* only sectors of its own list, which no other place holds.              *)

LEMMA InitIInv == Init => IInv
  BY InitTypeOK DEF Init, IInv, ExclusiveOwnership, Held

(* A flush of p = pending \cup new, where new is taken out of adding.     *)
LEMMA FlushKeepsOwnership ==
  ASSUME TypeOK, ExclusiveOwnership,
         NEW new \in SUBSET adding,
         NEW pl \in SUBSET (pending \cup new),
         adding' = adding \ new,
         pending' = (pending \cup new) \ pl,
         inflight' = IF pl # {} THEN inflight \cup {pl} ELSE inflight,
         stamped' = stamped
  PROVE  ExclusiveOwnership'
<1>1. CASE pl = {}
  BY <1>1 DEF ExclusiveOwnership, Held, TypeOK
<1>2. CASE pl # {}
  <2>1. pl \cap UNION inflight = {}
    BY DEF ExclusiveOwnership
  <2>2. pl \notin inflight
    BY <1>2, <2>1
  <2>3. \A d1, d2 \in inflight' : d1 # d2 => d1 \cap d2 = {}
    BY <1>2, <2>1 DEF ExclusiveOwnership
  <2>4. QED
    BY <1>2, <2>1, <2>3 DEF ExclusiveOwnership, Held
<1>3. QED
  BY <1>1, <1>2

LEMMA NextIInv == IInv /\ [Next]_vars => IInv'
<1> SUFFICES ASSUME TypeOK, ExclusiveOwnership, [Next]_vars
             PROVE  ExclusiveOwnership'
  BY NextTypeOK DEF IInv
<1>1. ASSUME NEW s \in Sectors, Submit(s) PROVE ExclusiveOwnership'
  BY <1>1 DEF Submit, ExclusiveOwnership, Held
<1>2. ASSUME NEW ok \in BOOLEAN, RecvTick(ok) PROVE ExclusiveOwnership'
  <2>1. PICK pl \in SUBSET pending :
          /\ pending' = pending \ pl
          /\ inflight' = IF pl # {} THEN inflight \cup {pl} ELSE inflight
          /\ timer' \in {"armed", "spent"}
    BY <1>2, FlushPolicyShape DEF RecvTick, TypeOK
  <2>2. QED
    BY <1>2, <2>1, FlushKeepsOwnership DEF RecvTick
<1>3. CASE RecvForce
  <2>1. PICK pl \in SUBSET pending :
          /\ pending' = pending \ pl
          /\ inflight' = IF pl # {} THEN inflight \cup {pl} ELSE inflight
          /\ timer' \in {"armed", timer}
    BY <1>3, FlushPolicyShape DEF RecvForce, TypeOK
  <2>2. QED
    BY <1>3, <2>1, FlushKeepsOwnership DEF RecvForce
<1>4. ASSUME NEW s \in Sectors, RecvSector(s) PROVE ExclusiveOwnership'
  <2>0. /\ pending \cup {s} \in SUBSET Sectors
        /\ FlushPolicy(pending \cup {s}, FALSE, FALSE, {}, timer)
    BY <1>4 DEF RecvSector, TypeOK
  <2>1. PICK pl \in SUBSET (pending \cup {s}) :
          /\ pending' = (pending \cup {s}) \ pl
          /\ inflight' = IF pl # {} THEN inflight \cup {pl} ELSE inflight
          /\ timer' \in {"armed", timer}
    BY <2>0, FlushPolicyShape
  <2>2. {s} \in SUBSET adding
    BY <1>4 DEF RecvSector
  <2>3. QED
    BY <1>4, <2>1, <2>2, FlushKeepsOwnership DEF RecvSector
<1>5. ASSUME NEW d \in inflight, Process(d) PROVE ExclusiveOwnership'
  <2>1. PICK ok \in SUBSET d : stamped' = stamped \cup ok
    BY <1>5 DEF Process
  <2>2. ok \cap (adding \cup pending \cup UNION (inflight \ {d})) = {}
    BY <2>1 DEF ExclusiveOwnership
  <2>3. QED
    BY <1>5, <2>1, <2>2 DEF Process, ExclusiveOwnership, Held
<1>6. CASE SendForce \/ TimerExpire \/ Cancel \/ AdvanceHead \/ RecvCancel
           \/ Stop \/ UNCHANGED vars
  BY <1>6 DEF SendForce, TimerExpire, Cancel, AdvanceHead, RecvCancel, Stop,
              vars, ExclusiveOwnership, Held
<1>7. ASSUME NEW t \in Thresholds, NEW e \in BOOLEAN, UpdateConfig(t, e)
      PROVE ExclusiveOwnership'
  BY <1>7 DEF UpdateConfig, ExclusiveOwnership, Held
<1>8. QED
  BY <1>1, <1>2, <1>3, <1>4, <1>5, <1>6, <1>7 DEF Next, Environment,
     Coordinator

(* No sector is ever held in two places at once, nor held after its       *)
(* message id has been persisted.                                          *)
THEOREM OwnershipInvariant == Spec => []ExclusiveOwnership
  BY InitIInv, NextIInv, PTL DEF Spec, IInv
-----------------------------------------------------------------------------
(* Dispatch size.  A buffer that an iteration keeps is below that         *)
(* iteration's threshold (it was not full), so the next flush hands over   *)
(* at most that many sectors plus the one just received -- or just that   *)
(* one, when the buffer was empty.  A config change lowers the threshold   *)
(* but not the bound, which is why the bound is over all thresholds.       *)

Within(S) == Cardinality(S) = 1 \/ \E t \in Thresholds : Cardinality(S) <= t

PendingBelow ==
  pending = {} \/ \E t \in Thresholds : Cardinality(pending) < t

BoundInv == TypeOK /\ PendingBelow /\ DispatchWithinThreshold

LEMMA SubsetCard ==
  ASSUME NEW q \in SUBSET Sectors, NEW r \in SUBSET q
  PROVE  /\ IsFiniteSet(q) /\ Cardinality(q) \in Nat
         /\ Cardinality(r) \in Nat /\ Cardinality(r) <= Cardinality(q)
<1>1. IsFiniteSet(q)
  BY BatcherAssumption, FS_Subset DEF BatcherAssumption
<1>2. IsFiniteSet(r) /\ Cardinality(r) <= Cardinality(q)
  BY <1>1, FS_Subset
<1>3. QED
  BY <1>1, <1>2, FS_CardinalityType

(* A flush of a buffer p that is empty or of bounded size keeps every     *)
(* dispatch and the buffer it leaves within the bounds.                   *)
LEMMA FlushWithin ==
  ASSUME TypeOK, DispatchWithinThreshold,
         NEW p \in SUBSET Sectors, p # {} => Within(p),
         NEW manual \in BOOLEAN, NEW tick \in BOOLEAN, NEW expired, NEW t0,
         FlushPolicy(p, manual, tick, expired, t0)
  PROVE  DispatchWithinThreshold' /\ PendingBelow'
<1> DEFINE full     == Cardinality(p) >= threshold
           cleanAll == p # {} /\ (full \/ manual \/ ~enabled)
           pl       == IF cleanAll THEN p
                       ELSE IF p # {} /\ tick THEN p \cap expired ELSE {}
<1>1. /\ pending' = p \ pl
      /\ inflight' = IF pl # {} THEN inflight \cup {pl} ELSE inflight
  BY DEF FlushPolicy
<1>2. threshold \in Thresholds /\ threshold \in Nat
  BY BatcherAssumption DEF BatcherAssumption, TypeOK
<1>3. CASE cleanAll
  <2>1. pending' = {} /\ inflight' = inflight \cup {p}
    BY <1>1, <1>3
  <2>2. Within(p)
    BY <1>3
  <2>3. QED
    BY <2>1, <2>2 DEF DispatchWithinThreshold, PendingBelow, Within
<1>4. CASE ~cleanAll
  <2>1. Cardinality(p) \in Nat
    BY SubsetCard
  <2>2. p # {} => Cardinality(p) < threshold
    BY <1>4, <1>2, <2>1
  <2>3. pl \subseteq p /\ pending' \subseteq p
    BY <1>1
  <2>4. pl # {} => Cardinality(pl) <= threshold
    <3>1. Cardinality(pl) <= Cardinality(p) /\ Cardinality(pl) \in Nat
      BY <2>3, SubsetCard
    <3>2. QED
      BY <2>1, <2>2, <2>3, <3>1, <1>2
  <2>5. pending' # {} => Cardinality(pending') < threshold
    <3>1. Cardinality(pending') <= Cardinality(p)
          /\ Cardinality(pending') \in Nat
      BY <2>3, SubsetCard
    <3>2. QED
      BY <2>1, <2>2, <2>3, <3>1, <1>2
  <2>6. QED
    BY <1>1, <1>2, <2>4, <2>5 DEF DispatchWithinThreshold, PendingBelow
<1>5. QED
  BY <1>3, <1>4

LEMMA InitBound == Init => BoundInv
  BY InitTypeOK DEF Init, BoundInv, PendingBelow, DispatchWithinThreshold

LEMMA NextBound == BoundInv /\ [Next]_vars => BoundInv'
<1> SUFFICES ASSUME TypeOK, PendingBelow, DispatchWithinThreshold,
                    [Next]_vars
             PROVE  PendingBelow' /\ DispatchWithinThreshold'
  BY NextTypeOK DEF BoundInv
<1>0. Cardinality(pending) \in Nat /\ Thresholds \subseteq Nat
  BY SubsetCard, BatcherAssumption DEF TypeOK, BatcherAssumption
<1>1. pending # {} => Within(pending)
  BY <1>0 DEF PendingBelow, Within
<1>2. CASE RecvForce
  BY <1>1, <1>2, FlushWithin DEF RecvForce, TypeOK
<1>3. ASSUME NEW ok \in BOOLEAN, RecvTick(ok)
      PROVE  PendingBelow' /\ DispatchWithinThreshold'
  BY <1>1, <1>3, FlushWithin DEF RecvTick, TypeOK
<1>4. ASSUME NEW s \in Sectors, RecvSector(s)
      PROVE  PendingBelow' /\ DispatchWithinThreshold'
  <2>1. IsFiniteSet(pending) /\ Cardinality(pending) \in Nat
    BY SubsetCard DEF TypeOK
  <2>2. Cardinality(pending \cup {s}) <= Cardinality(pending) + 1
    <3>1. Cardinality(pending \cup {s})
            = IF s \in pending THEN Cardinality(pending)
              ELSE Cardinality(pending) + 1
      BY <2>1, FS_AddElement
    <3>2. QED
      BY <2>1, <3>1
  <2>3. Within(pending \cup {s})
    <3>1. CASE pending = {}
      BY <3>1, FS_Singleton DEF Within
    <3>2. CASE pending # {}
      <4>1. Cardinality(pending \cup {s}) \in Nat
        BY <2>1, FS_AddElement, FS_CardinalityType
      <4>2. PICK t \in Thresholds : Cardinality(pending) < t
        BY <3>2 DEF PendingBelow
      <4>3. Cardinality(pending \cup {s}) <= t
        BY <1>0, <2>1, <2>2, <4>1, <4>2
      <4>4. QED
        BY <4>3 DEF Within
    <3>3. QED
      BY <3>1, <3>2
  <2>4. pending \cup {s} \in SUBSET Sectors
    BY DEF TypeOK
  <2>5. QED
    BY <1>4, <2>3, <2>4, FlushWithin DEF RecvSector
<1>5. ASSUME NEW d \in inflight, Process(d)
      PROVE  PendingBelow' /\ DispatchWithinThreshold'
  BY <1>5 DEF Process, PendingBelow, DispatchWithinThreshold
<1>6. CASE Environment \/ RecvCancel \/ Stop \/ UNCHANGED vars
  BY <1>6 DEF Environment, Submit, SendForce, TimerExpire, Cancel,
              AdvanceHead, UpdateConfig, RecvCancel, Stop, vars,
              PendingBelow, DispatchWithinThreshold
<1>7. QED
  BY <1>2, <1>3, <1>4, <1>5, <1>6 DEF Next, Coordinator

(* No dispatch holds more sectors than some configured threshold, or more *)
(* than one sector: a batch exceeds the chain's per-message limit only if *)
(* a threshold does.                                                       *)
THEOREM DispatchBounded == Spec => []DispatchWithinThreshold
  BY InitBound, NextBound, PTL DEF Spec, BoundInv
-----------------------------------------------------------------------------
(* Refinement of the commit queue.  Under the mapping, a flush that hands *)
(* over a non-empty processList is a Dispatch of it and one that hands    *)
(* over nothing is a stutter; a returning goroutine is a Complete of its  *)
(* list, which needs the lists to be disjoint (ExclusiveOwnership) so     *)
(* that removing it from inflight removes exactly its sectors.            *)

Status == [running |-> "open", waiting |-> "draining", stopped |-> "closed"]

(* A flush of p = pending \cup new, with new taken out of adding, is a    *)
(* Dispatch of the processList or a stutter of the queue.                 *)
LEMMA FlushRefines ==
  ASSUME TypeOK, ExclusiveOwnership, loop = "running",
         NEW new \in SUBSET adding,
         NEW pl \in SUBSET (pending \cup new),
         adding' = adding \ new,
         pending' = (pending \cup new) \ pl,
         inflight' = IF pl # {} THEN inflight \cup {pl} ELSE inflight,
         stamped' = stamped, loop' = loop
  PROVE  [Queue!Next]_Queue!vars
<1>1. (adding' \cup pending') = (adding \cup pending) \ pl
  BY DEF ExclusiveOwnership
<1>2. CASE pl = {}
  BY <1>1, <1>2 DEF Queue!vars
<1>3. CASE pl # {}
  <2>1. pl \in SUBSET Sectors /\ pl \subseteq adding \cup pending
    BY DEF TypeOK
  <2>2. UNION inflight' = (UNION inflight) \cup pl
    BY <1>3
  <2>3. Queue!Dispatch(pl)
    BY <1>1, <1>3, <2>1, <2>2 DEF Queue!Dispatch
  <2>4. QED
    BY <2>1, <2>3 DEF Queue!Next
<1>4. QED
  BY <1>2, <1>3

LEMMA InitRefines == Init => Queue!Init
  BY DEF Init, Queue!Init

LEMMA NextRefines ==
  IInv /\ [Next]_vars => [Queue!Next]_Queue!vars
<1> SUFFICES ASSUME TypeOK, ExclusiveOwnership, [Next]_vars
             PROVE  [Queue!Next]_Queue!vars
  BY DEF IInv
<1>1. ASSUME NEW s \in Sectors, Submit(s) PROVE [Queue!Next]_Queue!vars
  <2>1. Queue!Submit(s)
    BY <1>1 DEF Submit, Queue!Submit, Held
  <2>2. QED
    BY <2>1 DEF Queue!Next
<1>2. ASSUME NEW ok \in BOOLEAN, RecvTick(ok) PROVE [Queue!Next]_Queue!vars
  <2>1. PICK pl \in SUBSET pending :
          /\ pending' = pending \ pl
          /\ inflight' = IF pl # {} THEN inflight \cup {pl} ELSE inflight
          /\ timer' \in {"armed", "spent"}
    BY <1>2, FlushPolicyShape DEF RecvTick, TypeOK
  <2>2. QED
    BY <1>2, <2>1, FlushRefines DEF RecvTick
<1>3. CASE RecvForce
  <2>1. PICK pl \in SUBSET pending :
          /\ pending' = pending \ pl
          /\ inflight' = IF pl # {} THEN inflight \cup {pl} ELSE inflight
          /\ timer' \in {"armed", timer}
    BY <1>3, FlushPolicyShape DEF RecvForce, TypeOK
  <2>2. /\ loop = "running" /\ {} \in SUBSET adding
        /\ pl \in SUBSET (pending \cup {})
        /\ adding' = adding \ {} /\ pending' = (pending \cup {}) \ pl
        /\ stamped' = stamped /\ loop' = loop
    BY <1>3, <2>1 DEF RecvForce
  <2>3. QED
    BY <2>1, <2>2, FlushRefines
<1>4. ASSUME NEW s \in Sectors, RecvSector(s) PROVE [Queue!Next]_Queue!vars
  <2>0. /\ pending \cup {s} \in SUBSET Sectors
        /\ FlushPolicy(pending \cup {s}, FALSE, FALSE, {}, timer)
    BY <1>4 DEF RecvSector, TypeOK
  <2>1. PICK pl \in SUBSET (pending \cup {s}) :
          /\ pending' = (pending \cup {s}) \ pl
          /\ inflight' = IF pl # {} THEN inflight \cup {pl} ELSE inflight
          /\ timer' \in {"armed", timer}
    BY <2>0, FlushPolicyShape
  <2>2. {s} \in SUBSET adding
    BY <1>4 DEF RecvSector
  <2>3. QED
    BY <1>4, <2>1, <2>2, FlushRefines DEF RecvSector
<1>5. ASSUME NEW d \in inflight, Process(d) PROVE [Queue!Next]_Queue!vars
  <2>1. PICK ok \in SUBSET d : stamped' = stamped \cup ok
    BY <1>5 DEF Process
  <2>2. UNION inflight' = (UNION inflight) \ d
    BY <1>5 DEF Process, ExclusiveOwnership
  <2>3. CASE d = {}
    BY <1>5, <2>1, <2>2, <2>3 DEF Process, Queue!vars
  <2>4. CASE d # {}
    <3>1. d \in SUBSET Sectors /\ ok \in SUBSET Sectors
      BY DEF TypeOK
    <3>2. Queue!Complete(d, ok)
      BY <1>5, <2>1, <2>2, <2>4 DEF Process, Queue!Complete
    <3>3. QED
      BY <3>1, <3>2 DEF Queue!Next
  <2>5. QED
    BY <2>3, <2>4
<1>6. CASE RecvCancel
  <2>1. Queue!BeginShutdown
    BY <1>6 DEF RecvCancel, Queue!BeginShutdown
  <2>2. QED
    BY <2>1 DEF Queue!Next
<1>7. CASE Stop
  <2>1. Queue!Close
    BY <1>7 DEF Stop, Queue!Close
  <2>2. QED
    BY <2>1 DEF Queue!Next
<1>8. CASE SendForce \/ TimerExpire \/ Cancel \/ AdvanceHead \/ UNCHANGED vars
  BY <1>8 DEF SendForce, TimerExpire, Cancel, AdvanceHead, vars, Queue!vars
<1>9. ASSUME NEW t \in Thresholds, NEW e \in BOOLEAN, UpdateConfig(t, e)
      PROVE [Queue!Next]_Queue!vars
  BY <1>9 DEF UpdateConfig, Queue!vars
<1>10. QED
  BY <1>1, <1>2, <1>3, <1>4, <1>5, <1>6, <1>7, <1>8, <1>9 DEF Next,
     Environment, Coordinator

(* The safety part of QueueSpec: every behaviour of Batcher.run, its      *)
(* dispatch goroutines and its callers is a behaviour of the commit queue. *)
THEOREM ImplementsQueue == Spec => Queue!Safety
<1>1. Spec => []IInv
  BY InitIInv, NextIInv, PTL DEF Spec
<1>2. QED
  BY <1>1, InitRefines, NextRefines, PTL DEF Spec, Queue!Safety
=============================================================================
