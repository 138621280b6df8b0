----------------------------- MODULE CommitQueue -----------------------------
(***************************************************************************)
(* What a commit batcher promises its callers (spec sections 3 and 4.4),   *)
(* with the channels, the timer, the config and the flush policy left out. *)
(*                                                                         *)
(* A submitted sector waits until it is handed to the processor together   *)
(* with others (a dispatch); a dispatch returns with some of its sectors   *)
(* given a persisted message id.  A sector is in at most one of these      *)
(* places, and one that has a message id is never taken again.  Shutdown   *)
(* stops the dispatching and completes once every dispatch has returned.   *)
(***************************************************************************)
CONSTANT Sectors

VARIABLES
  waiting,     \* submitted sectors not yet handed to a dispatch
  processing,  \* sectors of dispatches that have not returned
  stamped,     \* sectors whose message id has been persisted
  status       \* "open", "draining" (shut down, dispatches running), "closed"

vars == <<waiting, processing, stamped, status>>

Init ==
  /\ waiting = {}
  /\ processing = {}
  /\ stamped = {}
  /\ status = "open"

(* A sector the queue does not hold and that has no message id is taken.  *)
Submit(s) ==
  /\ s \notin waiting \cup processing \cup stamped
  /\ waiting' = waiting \cup {s}
  /\ UNCHANGED <<processing, stamped, status>>

(* While open, some waiting sectors are handed over together.             *)
Dispatch(S) ==
  /\ status = "open"
  /\ S # {} /\ S \subseteq waiting
  /\ waiting' = waiting \ S
  /\ processing' = processing \cup S
  /\ UNCHANGED <<stamped, status>>

(* A dispatch of the sectors S returns; those of ok got a message id.     *)
Complete(S, ok) ==
  /\ S # {} /\ S \subseteq processing
  /\ ok \subseteq S
  /\ processing' = processing \ S
  /\ stamped' = stamped \cup ok
  /\ UNCHANGED <<waiting, status>>

BeginShutdown ==
  /\ status = "open"
  /\ status' = "draining"
  /\ UNCHANGED <<waiting, processing, stamped>>

Close ==
  /\ status = "draining"
  /\ processing = {}
  /\ status' = "closed"
  /\ UNCHANGED <<waiting, processing, stamped>>

Next ==
  \/ \E s \in Sectors : Submit(s)
  \/ \E S \in SUBSET Sectors : Dispatch(S)
  \/ \E S \in SUBSET Sectors, ok \in SUBSET Sectors : Complete(S, ok)
  \/ BeginShutdown
  \/ Close

Safety == Init /\ [][Next]_vars

(* Dispatches return, a shut-down queue closes, and an open queue does not *)
(* keep its waiting sectors forever.                                       *)
Spec ==
  /\ Safety
  /\ WF_vars(\E S \in SUBSET Sectors : Dispatch(S))
  /\ WF_vars(\E S \in SUBSET Sectors, ok \in SUBSET Sectors : Complete(S, ok))
  /\ WF_vars(Close)
=============================================================================
