------------------------------ MODULE Batcher ------------------------------
(***************************************************************************)
(* The per-miner commit batcher of commitmgr/batcher.go.                   *)
(*                                                                         *)
(* One coordinator goroutine (Batcher.run) multiplexes four unbuffered     *)
(* sources with a select: the global context, the force channel, the      *)
(* CheckAfter timer and pendingCh (Batcher.Add).  After each receive it   *)
(* applies the flush policy and may spawn a dispatch goroutine that calls *)
(* Processor.Process on a snapshot of the pending sectors.  Dispatches run *)
(* concurrently with the loop and with each other; on cancellation the    *)
(* loop returns, waits for every dispatch (wg.Wait) and closes b.stop.     *)
(*                                                                         *)
(* Data abstraction: a sector is its ID.  The pending slice and each      *)
(* processList are modelled as sets.  This rests on an assumption about   *)
(* the caller (see Submit): that no sector is added while the batcher     *)
(* still holds it.  Add itself does not check it, and the                 *)
(* commit_duplicate_add run shows what a repeated Add does downstream.    *)
(* No consumer of a processList depends on its order                      *)
(* (the prove-commit aggregate sorts by number, the pre-commit batch and  *)
(* the individual path do not care).  Processor.Process is abstracted to  *)
(* its effect on the persisted sector state: some subset of the list gets *)
(* its message id stamped by updateSector.                                 *)
(***************************************************************************)
EXTENDS Integers, FiniteSets

CONSTANTS
  Sectors,              \* sector IDs the sealing workflow may submit
  TicketEpoch,          \* TicketEpoch[s]: Ticket.Epoch (pre-commit) or Seed.Epoch (prove-commit)
  MaxWaitSecs,          \* Batch.MaxWait of the miner config, in seconds
  EpochDurationSeconds, \* builtin.EpochDurationSeconds
  MaxHead,              \* bound on the chain height reached in a run
  Thresholds,           \* the values Batch.Threshold may be configured to
  InitThreshold,        \* Batch.Threshold when the batcher starts
  InitEnabled           \* Batch.Enabled when the batcher starts

ASSUME BatcherAssumption ==
  /\ IsFiniteSet(Sectors)
  /\ TicketEpoch \in [Sectors -> Nat]
  /\ MaxWaitSecs \in Nat
  /\ EpochDurationSeconds \in Nat \ {0}
  /\ MaxHead \in Nat
  /\ Thresholds \subseteq Nat
  /\ InitThreshold \in Thresholds
  /\ InitEnabled \in BOOLEAN

VARIABLES
  adding,     \* sectors whose Add call is blocked sending on pendingCh
  forcing,    \* a force caller is blocked sending on b.force
  pending,    \* the coordinator's pending slice
  inflight,   \* processLists of dispatch goroutines not yet done (wg)
  timer,      \* the current CheckAfter timer: "armed", "fired", or "spent"
              \* (stopped or consumed, so that it never fires again)
  threshold,  \* Commitment.*.Batch.Threshold, read at every iteration
  enabled,    \* Commitment.*.Batch.Enabled, read at every iteration
  head,       \* the chain head height
  stamped,    \* sectors whose message id has been persisted
  cancelled,  \* b.ctx is done
  loop        \* "running", "waiting" (returned, in wg.Wait) or "stopped"

vars == <<adding, forcing, pending, inflight, timer, threshold, enabled,
          head, stamped, cancelled, loop>>

-----------------------------------------------------------------------------
(* The sectors the batcher currently owns: blocked in Add, buffered, or    *)
(* in a dispatch that has not returned.                                    *)
Held == adding \cup pending \cup UNION inflight

(* Expire: Batch.MaxWait converted to epochs by integer division.          *)
MaxWaitHeight == MaxWaitSecs \div EpochDurationSeconds

(* Expire: the sectors whose epoch age at the current head exceeds it.     *)
Expired(S) == {s \in S : head - TicketEpoch[s] > MaxWaitHeight}

Init ==
  /\ adding = {}
  /\ forcing = FALSE
  /\ pending = {}
  /\ inflight = {}
  /\ timer = "armed"
  /\ threshold = InitThreshold
  /\ enabled = InitEnabled
  /\ head = 0
  /\ stamped = {}
  /\ cancelled = FALSE
  /\ loop = "running"

-----------------------------------------------------------------------------
(* Environment: callers of the batcher, the chain, the config, the timer. *)

(* The sealing workflow calls Add(s); the unbuffered send blocks until the *)
(* loop receives it.  Add has no guard: the conjuncts below are what the  *)
(* model assumes of the caller.  A sector is (re)submitted only while it  *)
(* has no persisted message id and the batcher does not hold it, and only *)
(* once its ticket epoch has been reached.                                 *)
Submit(s) ==
  /\ s \notin stamped \cup Held
  /\ TicketEpoch[s] <= head
  /\ adding' = adding \cup {s}
  /\ UNCHANGED <<forcing, pending, inflight, timer, threshold, enabled,
                 head, stamped, cancelled, loop>>

(* The registry sends on b.force; the send blocks until received.          *)
SendForce ==
  /\ ~forcing
  /\ forcing' = TRUE
  /\ UNCHANGED <<adding, pending, inflight, timer, threshold, enabled,
                 head, stamped, cancelled, loop>>

(* The CheckAfter timer expires and puts a value on timer.C.               *)
TimerExpire ==
  /\ timer = "armed"
  /\ timer' = "fired"
  /\ UNCHANGED <<adding, forcing, pending, inflight, threshold, enabled,
                 head, stamped, cancelled, loop>>

(* SIGTERM, SIGINT or SIGABRT cancels the global context.                  *)
Cancel ==
  /\ ~cancelled
  /\ cancelled' = TRUE
  /\ UNCHANGED <<adding, forcing, pending, inflight, timer, threshold,
                 enabled, head, stamped, loop>>

AdvanceHead ==
  /\ head < MaxHead
  /\ head' = head + 1
  /\ UNCHANGED <<adding, forcing, pending, inflight, timer, threshold,
                 enabled, stamped, cancelled, loop>>

(* An operator rewrites the miner's batch config.                          *)
UpdateConfig(t, e) ==
  /\ <<t, e>> # <<threshold, enabled>>
  /\ threshold' = t
  /\ enabled' = e
  /\ UNCHANGED <<adding, forcing, pending, inflight, timer, head, stamped,
                 cancelled, loop>>

-----------------------------------------------------------------------------
(* Plausible bugs of the code below, each kept next to the definition it  *)
(* would replace; the runs must reject every one of them.                 *)

(* timer.Stop() without assigning a fresh CheckAfter timer: the old timer *)
(* is stopped or already consumed and never fires again.                   *)
FlushPolicyNoNewTimer(p, manual, tick, expired, t0) ==
  LET full        == Cardinality(p) >= threshold
      cleanAll    == p # {} /\ (full \/ manual \/ ~enabled)
      processList == IF cleanAll THEN p
                     ELSE IF p # {} /\ tick THEN p \cap expired
                     ELSE {}
  IN  /\ pending' = p \ processList
      /\ inflight' = IF processList # {} THEN inflight \cup {processList}
                                         ELSE inflight
      /\ timer' = IF tick \/ cleanAll THEN "spent" ELSE t0

(* The full flush copies pending into processList but omits                *)
(* pending = pending[:0].                                                   *)
FlushPolicyNoClear(p, manual, tick, expired, t0) ==
  LET full        == Cardinality(p) >= threshold
      cleanAll    == p # {} /\ (full \/ manual \/ ~enabled)
      processList == IF cleanAll THEN p
                     ELSE IF p # {} /\ tick THEN p \cap expired
                     ELSE {}
  IN  /\ pending' = IF cleanAll THEN p ELSE p \ processList
      /\ inflight' = IF processList # {} THEN inflight \cup {processList}
                                         ELSE inflight
      /\ timer' = IF tick \/ cleanAll THEN "armed" ELSE t0

(* The timer is re-armed only after a full flush (if cleanAll {...}).     *)
FlushPolicyResetOnFlushOnly(p, manual, tick, expired, t0) ==
  LET full        == Cardinality(p) >= threshold
      cleanAll    == p # {} /\ (full \/ manual \/ ~enabled)
      processList == IF cleanAll THEN p
                     ELSE IF p # {} /\ tick THEN p \cap expired
                     ELSE {}
  IN  /\ pending' = p \ processList
      /\ inflight' = IF processList # {} THEN inflight \cup {processList}
                                         ELSE inflight
      /\ timer' = IF cleanAll THEN "armed" ELSE t0

(* full := len(pending) > Threshold: a full buffer waits for one more.     *)
FlushPolicyFullStrict(p, manual, tick, expired, t0) ==
  LET full        == Cardinality(p) > threshold
      cleanAll    == p # {} /\ (full \/ manual \/ ~enabled)
      processList == IF cleanAll THEN p
                     ELSE IF p # {} /\ tick THEN p \cap expired
                     ELSE {}
  IN  /\ pending' = p \ processList
      /\ inflight' = IF processList # {} THEN inflight \cup {processList}
                                         ELSE inflight
      /\ timer' = IF tick \/ cleanAll THEN "armed" ELSE t0

(* case <-b.ctx.Done(): break -- leaves the select, not the for loop.      *)
RecvCancelBreak ==
  /\ loop = "running"
  /\ cancelled
  /\ UNCHANGED <<adding, forcing, pending, inflight, timer, threshold,
                 enabled, head, stamped, cancelled, loop>>

-----------------------------------------------------------------------------
(* The coordinator loop: one iteration is one receive and the flush       *)
(* policy that follows it.  p is the pending slice after the receive,     *)
(* expired what Expire returned (only used on a tick that is not a full   *)
(* flush), t0 the timer after the receive.                                 *)
FlushPolicy(p, manual, tick, expired, t0) ==
  LET full        == Cardinality(p) >= threshold
      cleanAll    == p # {} /\ (full \/ manual \/ ~enabled)
      processList == IF cleanAll THEN p
                     ELSE IF p # {} /\ tick THEN p \cap expired
                     ELSE {}
  IN  /\ pending' = p \ processList
      /\ inflight' = IF processList # {} THEN inflight \cup {processList}
                                         ELSE inflight
      /\ timer' = IF tick \/ cleanAll THEN "armed" ELSE t0

(* case <-b.ctx.Done(): return.  The deferred wg.Wait() follows.           *)
RecvCancel ==
  /\ loop = "running"
  /\ cancelled
  /\ loop' = "waiting"
  /\ UNCHANGED <<adding, forcing, pending, inflight, timer, threshold,
                 enabled, head, stamped, cancelled>>

(* case <-b.force: manual = true.                                          *)
RecvForce ==
  /\ loop = "running"
  /\ forcing
  /\ forcing' = FALSE
  /\ FlushPolicy(pending, TRUE, FALSE, {}, timer)
  /\ UNCHANGED <<adding, threshold, enabled, head, stamped, cancelled, loop>>

(* case <-timer.C: tick = true.  Expire fails (ok = FALSE) when its        *)
(* ChainHead call fails; the error is logged and nothing is expired.       *)
RecvTick(ok) ==
  /\ loop = "running"
  /\ timer = "fired"
  /\ FlushPolicy(pending, FALSE, TRUE, IF ok THEN Expired(pending) ELSE {},
                 "spent")
  /\ UNCHANGED <<adding, forcing, threshold, enabled, head, stamped,
                 cancelled, loop>>

(* case s := <-b.pendingCh: pending = append(pending, s).                  *)
RecvSector(s) ==
  /\ loop = "running"
  /\ s \in adding
  /\ adding' = adding \ {s}
  /\ FlushPolicy(pending \cup {s}, FALSE, FALSE, {}, timer)
  /\ UNCHANGED <<forcing, threshold, enabled, head, stamped, cancelled, loop>>

(* The dispatch goroutine returns without its deferred wg.Done().        *)
ProcessNoDone(d) ==
  /\ d \in inflight
  /\ \E ok \in SUBSET d : stamped' = stamped \cup ok
  /\ UNCHANGED <<adding, forcing, pending, inflight, timer, threshold,
                 enabled, head, cancelled, loop>>

(* A dispatch goroutine returns from Processor.Process: the sectors of ok *)
(* were sent and their message ids persisted by updateSector; the others   *)
(* failed and are left for the workflow to resubmit.  It runs whatever    *)
(* the state of the loop (its RPCs fail once the context is cancelled).    *)
Process(d) ==
  /\ d \in inflight
  /\ \E ok \in SUBSET d : stamped' = stamped \cup ok
  /\ inflight' = inflight \ {d}
  /\ UNCHANGED <<adding, forcing, pending, timer, threshold, enabled, head,
                 cancelled, loop>>

(* The deferred wg.Wait() returns; close(b.stop).                          *)
Stop ==
  /\ loop = "waiting"
  /\ inflight = {}
  /\ loop' = "stopped"
  /\ UNCHANGED <<adding, forcing, pending, inflight, timer, threshold,
                 enabled, head, stamped, cancelled>>

-----------------------------------------------------------------------------
Environment ==
  \/ \E s \in Sectors : Submit(s)
  \/ SendForce
  \/ TimerExpire
  \/ Cancel
  \/ AdvanceHead
  \/ \E t \in Thresholds, e \in BOOLEAN : UpdateConfig(t, e)

Coordinator ==
  \/ RecvCancel
  \/ RecvForce
  \/ \E ok \in BOOLEAN : RecvTick(ok)
  \/ \E s \in Sectors : RecvSector(s)
  \/ Stop

Next ==
  \/ Environment
  \/ Coordinator
  \/ \E d \in inflight : Process(d)

(* Go's select picks uniformly among ready cases, so a case that is ready *)
(* infinitely often is eventually taken (strong fairness).  Timers fire,  *)
(* the chain advances and dispatch goroutines return (weak fairness).     *)
(* An Expire that succeeds is assumed to happen whenever a tick is taken  *)
(* infinitely often: ChainHead errors are transient.  Callers, config     *)
(* changes and cancellation get no fairness.                               *)
Fairness ==
  /\ WF_vars(TimerExpire)
  /\ WF_vars(AdvanceHead)
  /\ SF_vars(RecvCancel)
  /\ SF_vars(RecvForce)
  /\ SF_vars(RecvTick(TRUE))
  /\ \A s \in Sectors : SF_vars(RecvSector(s))
  /\ \A d \in SUBSET Sectors : WF_vars(Process(d))
  /\ WF_vars(Stop)

Spec == Init /\ [][Next]_vars /\ Fairness

-----------------------------------------------------------------------------
(* The batcher implements the abstract commit queue: a sector blocked in  *)
(* Add or buffered in pending is waiting, the sectors of the running      *)
(* dispatches are processing, and the loop running, returned (in          *)
(* wg.Wait) or stopped is the queue open, draining or closed.              *)
Queue == INSTANCE CommitQueue
           WITH waiting    <- adding \cup pending,
                processing <- UNION inflight,
                stamped    <- stamped,
                status     <- [running |-> "open", waiting |-> "draining",
                               stopped |-> "closed"][loop]

-----------------------------------------------------------------------------
(* The type invariant.  The timer is never left spent: every received tick *)
(* and every full flush is followed by a fresh CheckAfter timer.           *)
TypeOK ==
  /\ adding \subseteq Sectors
  /\ forcing \in BOOLEAN
  /\ pending \subseteq Sectors
  /\ inflight \subseteq SUBSET Sectors
  /\ timer \in {"armed", "fired"}
  /\ threshold \in Thresholds
  /\ enabled \in BOOLEAN
  /\ head \in 0..MaxHead
  /\ stamped \subseteq Sectors
  /\ cancelled \in BOOLEAN
  /\ loop \in {"running", "waiting", "stopped"}

(* At most once per flush (spec 8.6) and snapshot flush (spec 8.1): every *)
(* sector the batcher holds is in exactly one place -- blocked in Add, in *)
(* pending, or in one dispatch -- and none of them already has a          *)
(* persisted message id.  Broken if a flush leaves a dispatched sector in  *)
(* pending or splits an expired sector into both halves.                   *)
ExclusiveOwnership ==
  /\ adding \cap pending = {}
  /\ adding \cap UNION inflight = {}
  /\ pending \cap UNION inflight = {}
  /\ \A d1, d2 \in inflight : d1 # d2 => d1 \cap d2 = {}
  /\ Held \cap stamped = {}

(* A dispatch never holds more sectors than some threshold the miner may  *)
(* be configured with (or one sector, for a threshold of 0): the threshold *)
(* flush of run() takes the buffer as soon as it is full, whatever config  *)
(* changes happened since the sectors were buffered.  So a batch stays     *)
(* within the chain's limit on sectors per message exactly when every      *)
(* configured threshold does (batcher.go:63).                              *)
DispatchWithinThreshold ==
  \A d \in inflight :
    Cardinality(d) = 1 \/ \E t \in Thresholds : Cardinality(d) <= t

(* A buffered sector is eventually dispatched unless the batcher is shut  *)
(* down: a tick with a successful Expire finds it once its age exceeds    *)
(* MaxWait, provided the timer is re-armed after every tick.               *)
PendingEventuallyDispatched ==
  \A s \in Sectors : s \in pending ~> (s \notin pending \/ cancelled)

(* Cancelling the context eventually closes b.stop (spec 4.4, 5).          *)
ShutdownCompletes == cancelled ~> loop = "stopped"

(* Spec 4.4: submissions never block -- every Add call eventually returns. *)
AddReturns == \A s \in Sectors : s \in adding ~> s \notin adding

(* Every behaviour of Batcher.run, its dispatch goroutines and its callers *)
(* is one of the commit queue: flushes hand over only buffered sectors,   *)
(* no dispatch starts after the loop returned, a returning goroutine      *)
(* releases exactly its own processList, and b.stop closes only when all  *)
(* are released -- with the queue's liveness under the select's fairness. *)
QueueSpec == Queue!Spec
=============================================================================
