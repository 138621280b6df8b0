--------------------------- MODULE CommitDelivery ---------------------------
(***************************************************************************)
(* The end of a dispatch, the batcher composed with the messager and the   *)
(* sector state store: Processor.Process pushes the message, writes its   *)
(* id into the in-memory SectorState of each sector that did not fail, and *)
(* returns; its deferred updateSector then persists the states.           *)
(*                                                                         *)
(* Batcher.Process folds all of this into one outcome, the set of sectors *)
(* whose id was persisted.  Here the sectors whose message reached the    *)
(* messager (pushed) are told apart from those whose id was persisted      *)
(* (stamped): the two differ when pushMessage reports an error for a      *)
(* message the messager did accept (a timed-out RPC), and when the        *)
(* best-effort updateSector fails or the process dies before it runs.     *)
(* The workflow resubmits a sector that has no persisted id (Submit).     *)
(***************************************************************************)
EXTENDS Batcher

CONSTANT
  IdsLost   \* TRUE or FALSE: whether a pushed message's id can fail to be persisted

VARIABLE
  pushed    \* sectors for which a commit message has reached the messager

deliveryVars == <<vars, pushed>>

DeliveryInit == Init /\ pushed = {}

(* Process of the list d returns.  sent: the sectors covered by a message *)
(* the messager accepted; ok: those whose id updateSector persisted.  The *)
(* two coincide unless ids can be lost.                                    *)
ProcessPush(d) ==
  /\ d \in inflight
  /\ \E sent \in SUBSET d, ok \in SUBSET d :
       /\ ok \subseteq sent
       /\ IdsLost \/ ok = sent
       /\ pushed' = pushed \cup sent
       /\ stamped' = stamped \cup ok
  /\ inflight' = inflight \ {d}
  /\ UNCHANGED <<adding, forcing, pending, timer, threshold, enabled, head,
                 cancelled, loop>>

DeliveryNext ==
  \/ (Environment \/ Coordinator) /\ UNCHANGED pushed
  \/ \E d \in inflight : ProcessPush(d)

DeliverySpec == DeliveryInit /\ [][DeliveryNext]_deliveryVars

(* The precondition Process states for its input (commit_processor.go:91, *)
(* "if a sector in sectors has been sent, its cid should be changed       *)
(* already"): no sector handed to a dispatch has had a message pushed for *)
(* it before, so no sector is committed by two messages.                  *)
NoResend == \A d \in inflight : d \cap pushed = {}
=============================================================================
