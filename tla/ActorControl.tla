---------------------------- MODULE ActorControl ----------------------------
(***************************************************************************)
(* The `venus-sector-manager util sealer actor` commands                  *)
(* (util_sealer_actor.go), run concurrently by operators against one      *)
(* miner actor on chain: the commands that change who controls the miner  *)
(* (`control set`, `set-owner`, `propose-change-worker`,                   *)
(* `confirm-change-worker`), those that move funds (`withdraw`,            *)
(* `repay-debt`), `control list` and `compact-allocated`.                  *)
(*                                                                         *)
(* Each invocation reads the miner info (StateMinerInfo at the head),     *)
(* checks it, and pushes one message built from what it read; all but     *)
(* `control set` then wait for the receipt and, for the worker change,    *)
(* read the miner info again at the tipset of the receipt.  The chain     *)
(* executes pushed messages in any order, one at a time, with the miner   *)
(* actor of specs-actors v2 (the version the command imports).            *)
(*                                                                         *)
(* Addresses are model values and token amounts small integers; the      *)
(* miner's funds are its unlocked balance and its fee debt, and its        *)
(* allocated sector numbers are represented by the highest one.  The RPC  *)
(* failures every command can meet (address parsing, StateLookupID,       *)
(* StateAccountKey, PushMessage) are one early error return.               *)
(***************************************************************************)
EXTENDS Integers

CONSTANTS
  Invocations,   \* concurrent command invocations
  Owners,        \* owner ID addresses
  Workers,       \* worker ID addresses
  Keys,          \* control-address account keys
  None,          \* an empty address (Address.Empty())
  Delay,         \* miner.WorkerKeyChangeDelay
  MaxHeight,     \* bound on the chain height
  InitInfo,      \* the miner info at genesis
  Commands,      \* the commands the operators run
  Amounts,       \* FIL amounts given to withdraw and repay-debt
  Width,         \* bit width of the uint64 mask arithmetic
  MaskArgs,      \* values given to --mask-last-offset and --mask-upto-n
  SafeLast,      \* 1<<60, above which compact-allocated refuses to mask
  MaxSectorNumber \* abi.MaxSectorNumber, checked by the actor

Ops == {"control", "owner", "propose", "confirm", "withdraw", "repay",
        "list", "compact"}

(* uint64 arithmetic of the given width.                                   *)
Word == 2^Width

MinerInfos ==
  [owner : Owners, pendingOwner : Owners \cup {None},
   worker : Workers, newWorker : Workers \cup {None},
   changeEpoch : 0..(MaxHeight + Delay), controls : SUBSET Keys,
   balance : Nat, feeDebt : Nat, lastAllocated : 0..MaxSectorNumber]

ASSUME ActorControlAssumption ==
  /\ None \notin Owners \cup Workers \cup Keys
  /\ Delay \in Nat /\ MaxHeight \in Nat
  /\ MaxSectorNumber \in Nat
  /\ InitInfo \in MinerInfos /\ InitInfo.newWorker = None
  /\ InitInfo.pendingOwner = None
  /\ Commands \subseteq Ops
  /\ Amounts \subseteq Nat
  /\ Width \in Nat \ {0} /\ Word \in Nat \ {0}
  /\ MaskArgs \subseteq 0..(Word - 1)
  /\ SafeLast \in Nat

(* Senders: owner and worker ID addresses and control keys.               *)
Addrs == Owners \cup Workers \cup Keys

Messages ==
  [method : {"ChangeWorkerAddress", "ChangeOwnerAddress",
             "ConfirmUpdateWorkerKey", "WithdrawBalance", "RepayDebt",
             "CompactSectorNumbers"},
   from : Addrs, worker : Workers \cup {None}, owner : Owners \cup {None},
   controls : SUBSET Keys, amount : Int, mask : Nat]

(* A message with empty params, to be filled in with EXCEPT.              *)
Msg(method, from) ==
  [method |-> method, from |-> from, worker |-> None, owner |-> None,
   controls |-> {}, amount |-> 0, mask |-> 0]

(* ChangeWorkerAddressParams: the new worker key and control addresses.    *)
ChangeWorkerParams(from, w, ks) ==
  [Msg("ChangeWorkerAddress", from) EXCEPT !.worker = w, !.controls = ks]

NoMsg == [method |-> "none"]
NoReceipt == [code |-> -1]

VARIABLES
  info,     \* the miner info on chain
  height,   \* the chain height
  pc,       \* pc[c]: "idle", "waiting" (for the receipt) or "done"
  op,       \* op[c]: the command invocation c runs, "none" before it starts
  arg,      \* arg[c]: its address argument (new owner or worker)
  msg,      \* msg[c]: the message c pushed, NoMsg if none
  receipt,  \* receipt[c]: code and miner info after msg[c] executed
  ret       \* ret[c]: "nil" or "error" once c has returned

vars == <<info, height, pc, op, arg, msg, receipt, ret>>

Init ==
  /\ info = InitInfo
  /\ height = 0
  /\ pc = [c \in Invocations |-> "idle"]
  /\ op = [c \in Invocations |-> "none"]
  /\ arg = [c \in Invocations |-> None]
  /\ msg = [c \in Invocations |-> NoMsg]
  /\ receipt = [c \in Invocations |-> NoReceipt]
  /\ ret = [c \in Invocations |-> "none"]

(* c returns r: the Go command's return value. *)
Return(c, r) ==
  /\ pc' = [pc EXCEPT ![c] = "done"]
  /\ ret' = [ret EXCEPT ![c] = r]

(* c pushes m and waits for its receipt (or, for `control set`, returns). *)
Push(c, m, next) ==
  /\ msg' = [msg EXCEPT ![c] = m]
  /\ pc' = [pc EXCEPT ![c] = next]

(* c starts command o (one of the commands the operators run).           *)
Starting(c, o, a) ==
  /\ pc[c] = "idle"
  /\ o \in Commands
  /\ op' = [op EXCEPT ![c] = o]
  /\ arg' = [arg EXCEPT ![c] = a]

-----------------------------------------------------------------------------
(* The miner actor (specs-actors v2), the environment of the commands.    *)

(* ChangeWorkerAddress: owner only; replaces the control addresses, and   *)
(* records a key change when none is pending and the key differs.         *)
ChangeWorkerAddress(m) ==
  IF m.from # info.owner THEN [ok |-> FALSE, info |-> info]
  ELSE [ok |-> TRUE,
        info |-> IF m.worker # info.worker /\ info.newWorker = None
                 THEN [info EXCEPT !.controls = m.controls,
                                   !.newWorker = m.worker,
                                   !.changeEpoch = height + Delay]
                 ELSE [info EXCEPT !.controls = m.controls]]

(* ConfirmUpdateWorkerKey: owner only; applies a pending key change whose *)
(* epoch has come, and otherwise does nothing.                             *)
ConfirmUpdateWorkerKey(m) ==
  IF m.from # info.owner THEN [ok |-> FALSE, info |-> info]
  ELSE [ok |-> TRUE,
        info |-> IF info.newWorker # None /\ height >= info.changeEpoch
                 THEN [info EXCEPT !.worker = info.newWorker,
                                   !.newWorker = None]
                 ELSE info]

(* ChangeOwnerAddress: the owner nominates, the nominee confirms.          *)
ChangeOwnerAddress(m) ==
  CASE m.from = info.owner ->
         [ok |-> TRUE, info |-> [info EXCEPT !.pendingOwner = m.owner]]
    [] m.from = info.pendingOwner /\ m.owner = info.pendingOwner ->
         [ok |-> TRUE, info |-> [info EXCEPT !.owner = m.owner,
                                             !.pendingOwner = None]]
    [] OTHER -> [ok |-> FALSE, info |-> info]

Controllers == {info.owner, info.worker} \cup info.controls

Min(a, b) == IF a < b THEN a ELSE b

(* WithdrawBalance: owner only, a non-negative request, and the unlocked  *)
(* balance must cover the fee debt, which is burnt; the owner receives    *)
(* the request capped at the available balance.                           *)
WithdrawBalance(m) ==
  IF m.from # info.owner \/ m.amount < 0 \/ info.balance < info.feeDebt
  THEN [ok |-> FALSE, info |-> info]
  ELSE LET withdrawn == Min(info.balance - info.feeDebt, m.amount)
       IN  [ok |-> TRUE,
            info |-> [info EXCEPT !.balance = @ - info.feeDebt - withdrawn,
                                  !.feeDebt = 0]]

(* RepayDebt: from a controller; the message value joins the balance and  *)
(* as much of the debt as it covers is burnt.                              *)
RepayDebt(m) ==
  IF m.from \notin Controllers \/ m.amount < 0
  THEN [ok |-> FALSE, info |-> info]
  ELSE LET b   == info.balance + m.amount
           pay == Min(info.feeDebt, b)
       IN  [ok |-> TRUE,
            info |-> [info EXCEPT !.balance = b - pay, !.feeDebt = @ - pay]]

(* CompactSectorNumbers of the mask [0, m.mask): the mask must be          *)
(* non-empty, end at most at MaxSectorNumber, and come from a controller;  *)
(* it is merged into the allocated sector numbers.                         *)
CompactSectorNumbers(m) ==
  IF m.mask = 0 \/ m.mask - 1 > MaxSectorNumber \/ m.from \notin Controllers
  THEN [ok |-> FALSE, info |-> info]
  ELSE [ok |-> TRUE,
        info |-> [info EXCEPT !.lastAllocated =
                                IF m.mask - 1 > @ THEN m.mask - 1 ELSE @]]

Apply(m) ==
  CASE m.method = "ChangeWorkerAddress" -> ChangeWorkerAddress(m)
    [] m.method = "ConfirmUpdateWorkerKey" -> ConfirmUpdateWorkerKey(m)
    [] m.method = "ChangeOwnerAddress" -> ChangeOwnerAddress(m)
    [] m.method = "WithdrawBalance" -> WithdrawBalance(m)
    [] m.method = "RepayDebt" -> RepayDebt(m)
    [] m.method = "CompactSectorNumbers" -> CompactSectorNumbers(m)

(* The chain executes a pushed message: the actor applies it, or it runs  *)
(* out of gas and nothing changes; the receipt keeps the state after it.  *)
Execute(c) ==
  /\ msg[c] # NoMsg /\ receipt[c] = NoReceipt
  /\ \E gas \in BOOLEAN :
       LET r == IF gas THEN Apply(msg[c]) ELSE [ok |-> FALSE, info |-> info]
       IN  /\ info' = r.info
           /\ receipt' = [receipt EXCEPT ![c] =
                            [code |-> IF r.ok THEN 0 ELSE 1, info |-> r.info]]
  /\ UNCHANGED <<height, pc, op, arg, msg, ret>>

Tick ==
  /\ height < MaxHeight
  /\ height' = height + 1
  /\ UNCHANGED <<info, pc, op, arg, msg, receipt, ret>>

-----------------------------------------------------------------------------
(* Plausible bugs, each before the definition it would replace.           *)

(* The error of PushMessage left unchecked: when the push fails, the      *)
(* command still goes on to WaitMessage with an id that names no message. *)
ConfirmChangeWorkerPushErrUnchecked(c) ==
  \E a \in Workers, doIt, pushed \in BOOLEAN :
    /\ Starting(c, "confirm", a)
    /\ \/ /\ \/ info.newWorker = None
             \/ info.newWorker # a
             \/ height < info.changeEpoch
          /\ Return(c, "error") /\ UNCHANGED msg
       \/ /\ info.newWorker = a /\ height >= info.changeEpoch
          /\ \/ ~doIt /\ Return(c, "nil") /\ UNCHANGED msg
             \/ doIt /\ pushed
                /\ Push(c, Msg("ConfirmUpdateWorkerKey", info.owner), "waiting")
                /\ UNCHANGED ret
             \/ doIt /\ ~pushed
                /\ pc' = [pc EXCEPT ![c] = "waiting"]
                /\ UNCHANGED <<msg, ret>>
    /\ UNCHANGED <<info, height, receipt>>

-----------------------------------------------------------------------------
(* The commands.                                                           *)

(* Any of the RPCs before the push (address parsing, StateLookupID,       *)
(* StateAccountKey, StateMinerInfo, ChainHead, PushMessage) fails, or a   *)
(* usage check fails (wrong number of arguments, mask flags missing or    *)
(* both given).                                                            *)
StartFails(c) ==
  /\ pc[c] = "idle"
  /\ Return(c, "error")
  /\ UNCHANGED <<info, height, op, arg, msg, receipt>>

(* `actor control set`: the new control keys replace the old ones through *)
(* ChangeWorkerAddress, with the worker read from the miner info; the     *)
(* command returns once the message is pushed.                             *)
ControlSet(c) ==
  \E ks \in SUBSET Keys, doIt \in BOOLEAN :
    /\ Starting(c, "control", None)
    /\ Return(c, "nil")
    /\ msg' = IF doIt
              THEN [msg EXCEPT ![c] =
                      ChangeWorkerParams(info.owner, info.worker, ks)]
              ELSE msg
    /\ UNCHANGED <<info, height, receipt>>

(* `actor set-owner new from`: from must be the owner or the new owner.   *)
SetOwner(c) ==
  \E na, from \in Owners, doIt \in BOOLEAN :
    /\ Starting(c, "owner", na)
    /\ \/ ~doIt /\ Return(c, "nil") /\ UNCHANGED msg
       \/ doIt /\ from # info.owner /\ from # na
          /\ Return(c, "error") /\ UNCHANGED msg
       \/ doIt /\ (from = info.owner \/ from = na)
          /\ Push(c, [Msg("ChangeOwnerAddress", from) EXCEPT !.owner = na],
                  "waiting")
          /\ UNCHANGED ret
    /\ UNCHANGED <<info, height, receipt>>

(* WaitMessage returns the receipt; a failed receipt is reported but       *)
(* `return err` returns the nil err of WaitMessage.                        *)
WaitSetOwner(c) ==
  /\ op[c] = "owner" /\ pc[c] = "waiting" /\ receipt[c] # NoReceipt
  /\ Return(c, "nil")
  /\ UNCHANGED <<info, height, op, arg, msg, receipt>>

(* `actor propose-change-worker a`: refused when a is already the worker  *)
(* (nothing pending) or already the pending key; pushes                    *)
(* ChangeWorkerAddress from the owner read, keeping the control addresses *)
(* read.                                                                   *)
ProposeChangeWorker(c) ==
  \E a \in Workers, doIt \in BOOLEAN :
    LET refused == IF info.newWorker = None THEN info.worker = a
                   ELSE info.newWorker = a
    IN  /\ Starting(c, "propose", a)
        /\ \/ refused /\ Return(c, "error") /\ UNCHANGED msg
           \/ ~refused /\ ~doIt /\ Return(c, "nil") /\ UNCHANGED msg
           \/ ~refused /\ doIt
              /\ Push(c, ChangeWorkerParams(info.owner, a, info.controls),
                      "waiting")
              /\ UNCHANGED ret
        /\ UNCHANGED <<info, height, receipt>>

(* The receipt of the proposal; on success the miner info at its tipset   *)
(* must show a as the pending key.                                         *)
WaitPropose(c) ==
  /\ op[c] = "propose" /\ pc[c] = "waiting" /\ receipt[c] # NoReceipt
  /\ Return(c, IF receipt[c].code = 0 /\ receipt[c].info.newWorker # arg[c]
               THEN "error" ELSE "nil")
  /\ UNCHANGED <<info, height, op, arg, msg, receipt>>

(* `actor confirm-change-worker a`: a must be the pending key and the     *)
(* head at or past its change epoch; pushes ConfirmUpdateWorkerKey from   *)
(* the owner read.                                                         *)
ConfirmChangeWorker(c) ==
  \E a \in Workers, doIt \in BOOLEAN :
    /\ Starting(c, "confirm", a)
    /\ \/ /\ \/ info.newWorker = None
             \/ info.newWorker # a
             \/ height < info.changeEpoch
          /\ Return(c, "error") /\ UNCHANGED msg
       \/ /\ info.newWorker = a /\ height >= info.changeEpoch
          /\ \/ ~doIt /\ Return(c, "nil") /\ UNCHANGED msg
             \/ doIt /\ Push(c, Msg("ConfirmUpdateWorkerKey", info.owner),
                             "waiting")
                /\ UNCHANGED ret
    /\ UNCHANGED <<info, height, receipt>>

(* The receipt of the confirmation; on success the miner info at its      *)
(* tipset must show a as the worker.                                       *)
WaitConfirm(c) ==
  /\ op[c] = "confirm" /\ pc[c] = "waiting" /\ receipt[c] # NoReceipt
  /\ Return(c, IF receipt[c].code = 0 /\ receipt[c].info.worker # arg[c]
               THEN "error" ELSE "nil")
  /\ UNCHANGED <<info, height, op, arg, msg, receipt>>

(* WaitMessage itself fails (context cancelled, RPC error), or a read    *)
(* after it (StateNetworkVersion, decoding the withdrawn amount) does:     *)
(* the command returns the error.                                          *)
WaitFails(c) ==
  /\ pc[c] = "waiting"
  /\ Return(c, "error")
  /\ UNCHANGED <<info, height, op, arg, msg, receipt>>

(* `actor withdraw [amount]`: the requested amount, or the whole         *)
(* available balance read (StateMinerAvailableBalance, the balance less   *)
(* the fee debt), is asked for from the owner read; a request above the   *)
(* available balance read is refused.                                      *)
Withdraw(c) ==
  \E present \in BOOLEAN, req \in Amounts :
    LET available == info.balance - info.feeDebt
        amount    == IF present THEN req ELSE available
    IN  /\ Starting(c, "withdraw", None)
        /\ \/ present /\ req > available
              /\ Return(c, "error") /\ UNCHANGED msg
           \/ ~(present /\ req > available)
              /\ Push(c, [Msg("WithdrawBalance", info.owner)
                            EXCEPT !.amount = amount], "waiting")
              /\ UNCHANGED ret
        /\ UNCHANGED <<info, height, receipt>>

(* The receipt of the withdrawal: "withdrawal failed!" is printed on a    *)
(* failed receipt and the nil err returned; on success the withdrawn      *)
(* amount is printed.                                                      *)
WaitWithdraw(c) ==
  /\ op[c] = "withdraw" /\ pc[c] = "waiting" /\ receipt[c] # NoReceipt
  /\ Return(c, "nil")
  /\ UNCHANGED <<info, height, op, arg, msg, receipt>>

(* `actor repay-debt [amount] [--from a]`: the amount given or the fee    *)
(* debt read, sent from a or from the worker read, which must be a        *)
(* controller in the miner info read; returns once the message is pushed. *)
RepayDebtCmd(c) ==
  \E present \in BOOLEAN, req \in Amounts, from \in Addrs \cup {None} :
    LET amount   == IF present THEN req ELSE info.feeDebt
        fromAddr == IF from = None THEN info.worker ELSE from
    IN  /\ Starting(c, "repay", None)
        /\ \/ fromAddr \notin Controllers
              /\ Return(c, "error") /\ UNCHANGED msg
           \/ fromAddr \in Controllers
              /\ Return(c, "nil")
              /\ msg' = [msg EXCEPT ![c] =
                           [Msg("RepayDebt", fromAddr) EXCEPT !.amount = amount]]
        /\ UNCHANGED <<info, height, receipt>>

(* `actor control list` prints the miner info read.                        *)
ControlList(c) ==
  /\ Starting(c, "list", None)
  /\ Return(c, "nil")
  /\ UNCHANGED <<info, height, msg, receipt>>

(* compact-allocated --mask-last-offset m: refused when the highest       *)
(* allocated number is at most m+1 or above 1<<60, in uint64 arithmetic.  *)
MaskRefused(last, m) == last <= (m + 1) % Word \/ last > SafeLast

(* The mask is the run of last - m ones from sector number 0.             *)
MaskLen(last, m) == (last - m) % Word

(* `actor compact-allocated --really-do-it` with --mask-last-offset or    *)
(* --mask-upto-n (offset = FALSE): the mask is built from the highest      *)
(* allocated number read and CompactSectorNumbers pushed from the worker  *)
(* read.                                                                   *)
CompactAllocated(c) ==
  \E doIt, offset \in BOOLEAN, v \in MaskArgs :
    /\ Starting(c, "compact", None)
    /\ \/ ~doIt /\ Return(c, "nil") /\ UNCHANGED msg
       \/ doIt /\ offset /\ MaskRefused(info.lastAllocated, v)
          /\ Return(c, "error") /\ UNCHANGED msg
       \/ doIt /\ ~(offset /\ MaskRefused(info.lastAllocated, v))
          /\ Push(c, [Msg("CompactSectorNumbers", info.worker)
                        EXCEPT !.mask = IF offset
                                        THEN MaskLen(info.lastAllocated, v)
                                        ELSE v], "waiting")
          /\ UNCHANGED ret
    /\ UNCHANGED <<info, height, receipt>>

(* The receipt of the compaction: a failed receipt is printed and the nil *)
(* err returned.                                                           *)
WaitCompact(c) ==
  /\ op[c] = "compact" /\ pc[c] = "waiting" /\ receipt[c] # NoReceipt
  /\ Return(c, "nil")
  /\ UNCHANGED <<info, height, op, arg, msg, receipt>>

Next ==
  \/ Tick
  \/ \E c \in Invocations :
       \/ Execute(c)
       \/ StartFails(c) \/ ControlSet(c) \/ SetOwner(c)
       \/ ProposeChangeWorker(c) \/ ConfirmChangeWorker(c)
       \/ Withdraw(c) \/ RepayDebtCmd(c) \/ ControlList(c)
       \/ CompactAllocated(c)
       \/ WaitSetOwner(c) \/ WaitPropose(c) \/ WaitConfirm(c)
       \/ WaitWithdraw(c) \/ WaitCompact(c)
       \/ WaitFails(c)

Spec == Init /\ [][Next]_vars

-----------------------------------------------------------------------------
(* The type invariant; an invocation waits only for a message it pushed. *)
TypeOK ==
  /\ info \in MinerInfos
  /\ height \in 0..MaxHeight
  /\ pc \in [Invocations -> {"idle", "waiting", "done"}]
  /\ op \in [Invocations -> Ops \cup {"none"}]
  /\ arg \in [Invocations -> Owners \cup Workers \cup {None}]
  /\ msg \in [Invocations -> Messages \cup {NoMsg}]
  /\ receipt \in [Invocations -> {NoReceipt} \cup
                                  [code : {0, 1}, info : MinerInfos]]
  /\ ret \in [Invocations -> {"none", "nil", "error"}]
  /\ \A c \in Invocations : pc[c] = "waiting" => msg[c] # NoMsg

(* The commands that wait for their message print "failed" on a failed   *)
(* receipt: they should then not exit with success.                        *)
ExitStatusTruthful ==
  \A c \in Invocations :
    (ret[c] = "nil"
       /\ op[c] \in {"owner", "propose", "confirm", "withdraw", "compact"}
       /\ msg[c] # NoMsg) => receipt[c].code = 0

(* compact-allocated --mask-last-offset m masks, by its usage text, the  *)
(* sector numbers from 0 to the highest allocated less m: whenever the     *)
(* command does not refuse, the highest number its mask covers is at most  *)
(* last - m, for the highest allocated number last the miner holds and    *)
(* every uint64 m.                                                         *)
MaskWithinOffset ==
  \A m \in 0..(Word - 1) :
    LET last == info.lastAllocated
    IN  ~MaskRefused(last, m) => MaskLen(last, m) - 1 <= last - m

(* control set and propose-change-worker both send ChangeWorkerAddress,  *)
(* whose params hold the worker and the control addresses; each fills the  *)
(* field it was not asked to change from the miner info it read, in order *)
(* to keep it.  Executing the message of either therefore changes only     *)
(* what it was asked to: a proposal never changes the control addresses,  *)
(* and a control set never starts a worker key change.                     *)
ChangeWorkerKeepsRest ==
  [][\A c \in Invocations :
       (receipt[c] = NoReceipt /\ receipt'[c] # NoReceipt) =>
         /\ op[c] = "propose" => info'.controls = info.controls
         /\ op[c] = "control" => info'.newWorker = info.newWorker]_vars
=============================================================================
