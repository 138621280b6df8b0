------------------------- MODULE ActorControlProofs -------------------------
(***************************************************************************)
(* Proofs about the actor commands: type correctness -- the miner info   *)
(* stays well formed and an invocation waits only for a message it       *)
(* pushed -- for any number of invocations, addresses and any delay.     *)
(***************************************************************************)
EXTENDS ActorControl, TLAPS

(* An invocation's return value is final, and a message it waits for has  *)
(* been pushed; a receipt exists only for a pushed message.               *)
Settled ==
  \A c \in Invocations :
    /\ pc[c] = "idle" => msg[c] = NoMsg /\ ret[c] = "none"
    /\ pc[c] = "done" <=> ret[c] # "none"
    /\ receipt[c] # NoReceipt => msg[c] # NoMsg

IInv == TypeOK /\ Settled
-----------------------------------------------------------------------------
(* The miner actor keeps the miner info well formed.                      *)

LEMMA ChangeWorkerAddressType ==
  ASSUME TypeOK, NEW m \in Messages, m.method = "ChangeWorkerAddress"
  PROVE  /\ ChangeWorkerAddress(m).ok \in BOOLEAN
         /\ ChangeWorkerAddress(m).info \in MinerInfos
<1>1. height + Delay \in 0..(MaxHeight + Delay)
  BY ActorControlAssumption DEF ActorControlAssumption, TypeOK
<1>2. info \in MinerInfos /\ m.worker \in Workers \cup {None}
      /\ m.controls \in SUBSET Keys
  BY DEF TypeOK, Messages
<1>3. CASE m.worker # info.worker /\ info.newWorker = None
  <2>2. [info EXCEPT !.controls = m.controls, !.newWorker = m.worker,
                     !.changeEpoch = height + Delay] \in MinerInfos
    BY <1>1, <1>2, Zenon DEF MinerInfos
  <2>3. QED
    BY <1>2, <1>3, <2>2, Zenon DEF ChangeWorkerAddress
<1>4. CASE ~(m.worker # info.worker /\ info.newWorker = None)
  <2>1. [info EXCEPT !.controls = m.controls] \in MinerInfos
    BY <1>2, Zenon DEF MinerInfos
  <2>2. QED
    BY <1>2, <1>4, <2>1, Zenon DEF ChangeWorkerAddress
<1>5. QED
  BY <1>3, <1>4

LEMMA ConfirmUpdateWorkerKeyType ==
  ASSUME TypeOK, NEW m \in Messages
  PROVE  /\ ConfirmUpdateWorkerKey(m).ok \in BOOLEAN
         /\ ConfirmUpdateWorkerKey(m).info \in MinerInfos
<1>1. info \in MinerInfos
  BY DEF TypeOK
<1>2. CASE info.newWorker # None /\ height >= info.changeEpoch
  <2>1. info.newWorker \in Workers
    BY <1>1, <1>2 DEF MinerInfos
  <2>2. [info EXCEPT !.worker = info.newWorker, !.newWorker = None]
          \in MinerInfos
    BY <1>1, <2>1, Zenon DEF MinerInfos
  <2>3. QED
    BY <1>1, <1>2, <2>2, Zenon DEF ConfirmUpdateWorkerKey
<1>3. CASE ~(info.newWorker # None /\ height >= info.changeEpoch)
  BY <1>1, <1>3, Zenon DEF ConfirmUpdateWorkerKey
<1>4. QED
  BY <1>2, <1>3

LEMMA ChangeOwnerAddressType ==
  ASSUME TypeOK, NEW m \in Messages
  PROVE  /\ ChangeOwnerAddress(m).ok \in BOOLEAN
         /\ ChangeOwnerAddress(m).info \in MinerInfos
<1>1. info \in MinerInfos /\ m.owner \in Owners \cup {None}
  BY DEF TypeOK, Messages
<1>2. [info EXCEPT !.pendingOwner = m.owner] \in MinerInfos
  BY <1>1, Zenon DEF MinerInfos
<1>3. CASE m.owner = info.pendingOwner /\ m.owner # None
  <2>1. [info EXCEPT !.owner = m.owner, !.pendingOwner = None] \in MinerInfos
    BY <1>1, <1>3, Zenon DEF MinerInfos
  <2>2. QED
    BY <1>1, <1>2, <1>3, <2>1, Zenon DEF ChangeOwnerAddress
<1>4. CASE ~(m.owner = info.pendingOwner /\ m.owner # None)
  <2>1. m.from = info.pendingOwner /\ m.owner = info.pendingOwner
          => info.pendingOwner = None
    BY <1>4
  <2>2. m.from \in Addrs /\ None \notin Addrs
    BY ActorControlAssumption DEF Messages, Addrs, ActorControlAssumption
  <2>3. QED
    BY <1>1, <1>2, <1>4, <2>1, <2>2, Zenon DEF ChangeOwnerAddress
<1>5. QED
  BY <1>3, <1>4

(* The withdrawn amount is capped at the available balance, so the       *)
(* balance stays non-negative.                                             *)
LEMMA WithdrawBalanceType ==
  ASSUME TypeOK, NEW m \in Messages
  PROVE  /\ WithdrawBalance(m).ok \in BOOLEAN
         /\ WithdrawBalance(m).info \in MinerInfos
<1>1. CASE m.from # info.owner \/ m.amount < 0 \/ info.balance < info.feeDebt
  BY <1>1 DEF WithdrawBalance, TypeOK
<1>2. CASE ~(m.from # info.owner \/ m.amount < 0
             \/ info.balance < info.feeDebt)
  <2>1. info.balance - info.feeDebt
          - Min(info.balance - info.feeDebt, m.amount) \in Nat
    BY <1>2 DEF Min, TypeOK, MinerInfos, Messages
  <2>2. [info EXCEPT !.balance = info.balance - info.feeDebt
                          - Min(info.balance - info.feeDebt, m.amount),
                       !.feeDebt = 0] \in MinerInfos
    <3>1. 0 \in Nat
      OBVIOUS
    <3>2. QED
      BY <2>1, <3>1, Zenon DEF TypeOK, MinerInfos
  <2>3. QED
    BY <1>2, <2>2, Zenon DEF WithdrawBalance
<1>3. QED
  BY <1>1, <1>2

(* The debt paid is at most the debt and at most the balance.             *)
LEMMA RepayDebtType ==
  ASSUME TypeOK, NEW m \in Messages
  PROVE  /\ RepayDebt(m).ok \in BOOLEAN
         /\ RepayDebt(m).info \in MinerInfos
<1>1. CASE m.from \notin Controllers \/ m.amount < 0
  BY <1>1 DEF RepayDebt, TypeOK
<1>2. CASE ~(m.from \notin Controllers \/ m.amount < 0)
  <2> DEFINE b == info.balance + m.amount
             pay == Min(info.feeDebt, b)
  <2>0. /\ info.balance \in Nat /\ info.feeDebt \in Nat
        /\ m.amount \in Int /\ m.amount >= 0
    BY <1>2 DEF TypeOK, MinerInfos, Messages
  <2>1. b - pay \in Nat /\ info.feeDebt - pay \in Nat
    BY <2>0 DEF Min
  <2>2. [info EXCEPT !.balance = b - pay, !.feeDebt = info.feeDebt - pay]
          \in MinerInfos
    BY <2>1, Zenon DEF TypeOK, MinerInfos
  <2>3. RepayDebt(m)
          = [ok |-> TRUE,
             info |-> [info EXCEPT !.balance = b - pay,
                                   !.feeDebt = info.feeDebt - pay]]
    BY <1>2, Zenon DEF RepayDebt
  <2>4. QED
    BY <2>2, <2>3
<1>3. QED
  BY <1>1, <1>2

(* A mask the actor accepts ends at most at MaxSectorNumber.               *)
LEMMA CompactSectorNumbersType ==
  ASSUME TypeOK, NEW m \in Messages
  PROVE  /\ CompactSectorNumbers(m).ok \in BOOLEAN
         /\ CompactSectorNumbers(m).info \in MinerInfos
<1>1. CASE m.mask = 0 \/ m.mask - 1 > MaxSectorNumber
           \/ m.from \notin Controllers
  BY <1>1 DEF CompactSectorNumbers, TypeOK
<1>2. CASE ~(m.mask = 0 \/ m.mask - 1 > MaxSectorNumber
             \/ m.from \notin Controllers)
  <2>1. (IF m.mask - 1 > info.lastAllocated THEN m.mask - 1
         ELSE info.lastAllocated) \in 0..MaxSectorNumber
    BY <1>2, ActorControlAssumption
       DEF ActorControlAssumption, TypeOK, MinerInfos, Messages
  <2>2. QED
    BY <1>2, <2>1 DEF CompactSectorNumbers, TypeOK, MinerInfos
<1>3. QED
  BY <1>1, <1>2

LEMMA ApplyType ==
  ASSUME TypeOK, NEW m \in Messages
  PROVE  /\ Apply(m).ok \in BOOLEAN
         /\ Apply(m).info \in MinerInfos
<1>1. CASE m.method = "ChangeWorkerAddress"
  BY <1>1, ChangeWorkerAddressType DEF Apply
<1>2. CASE m.method = "ConfirmUpdateWorkerKey"
  BY <1>2, ConfirmUpdateWorkerKeyType DEF Apply
<1>3. CASE m.method = "ChangeOwnerAddress"
  BY <1>3, ChangeOwnerAddressType DEF Apply
<1>4. CASE m.method = "WithdrawBalance"
  BY <1>4, WithdrawBalanceType DEF Apply
<1>5. CASE m.method = "RepayDebt"
  BY <1>5, RepayDebtType DEF Apply
<1>6. CASE m.method = "CompactSectorNumbers"
  BY <1>6, CompactSectorNumbersType DEF Apply
<1>7. QED
  BY <1>1, <1>2, <1>3, <1>4, <1>5, <1>6 DEF Messages

(* The messages the commands build are messages.                           *)
Methods == {"ChangeWorkerAddress", "ChangeOwnerAddress",
            "ConfirmUpdateWorkerKey", "WithdrawBalance", "RepayDebt",
            "CompactSectorNumbers"}

LEMMA MsgType ==
  ASSUME NEW meth \in Methods, NEW from \in Addrs
  PROVE  Msg(meth, from) \in Messages
  BY DEF Msg, Messages, Methods

LEMMA ChangeWorkerParamsType ==
  ASSUME NEW from \in Addrs, NEW w \in Workers \cup {None},
         NEW ks \in SUBSET Keys
  PROVE  ChangeWorkerParams(from, w, ks) \in Messages
<1>1. Msg("ChangeWorkerAddress", from) \in Messages
  BY DEF Msg, Messages
<1>2. QED
  BY <1>1, Zenon DEF Messages, ChangeWorkerParams

LEMMA OwnerParamType ==
  ASSUME NEW meth \in Methods, NEW from \in Addrs, NEW o \in Owners
  PROVE  [Msg(meth, from) EXCEPT !.owner = o] \in Messages
<1>1. Msg(meth, from) \in Messages
  BY MsgType
<1>2. QED
  BY <1>1, Zenon DEF Messages

LEMMA AmountParamType ==
  ASSUME NEW meth \in Methods, NEW from \in Addrs, NEW amt \in Int
  PROVE  [Msg(meth, from) EXCEPT !.amount = amt] \in Messages
<1>1. Msg(meth, from) \in Messages
  BY MsgType
<1>2. QED
  BY <1>1, Zenon DEF Messages

LEMMA MaskParamType ==
  ASSUME NEW meth \in Methods, NEW from \in Addrs, NEW mk \in Nat
  PROVE  [Msg(meth, from) EXCEPT !.mask = mk] \in Messages
<1>1. Msg(meth, from) \in Messages
  BY MsgType
<1>2. QED
  BY <1>1, Zenon DEF Messages
-----------------------------------------------------------------------------
(* The inductive invariant.                                                *)

LEMMA InitIInv == Init => IInv
<1> SUFFICES ASSUME Init PROVE IInv
  OBVIOUS
<1>1. info \in MinerInfos /\ height \in 0..MaxHeight
  BY ActorControlAssumption DEF ActorControlAssumption, Init
<1>2. TypeOK
  BY <1>1 DEF Init, TypeOK, NoMsg, NoReceipt, Ops
<1>3. QED
  BY <1>2 DEF Init, IInv, Settled, NoMsg, NoReceipt

(* What every command that starts does: it records the command and its   *)
(* argument and then returns, pushes a message and waits, or (control set *)
(* and repay-debt) returns with the message pushed.                        *)
CommandShape(c) ==
  \E o \in Ops, a \in Owners \cup Workers \cup {None},
     mm \in Messages, r \in {"nil", "error"} :
    /\ Starting(c, o, a)
    /\ \/ Return(c, r) /\ UNCHANGED msg
       \/ Push(c, mm, "waiting") /\ UNCHANGED ret
       \/ /\ o \notin {"propose", "confirm"}
          /\ Return(c, r) /\ msg' = [msg EXCEPT ![c] = mm]
    /\ UNCHANGED <<info, height, receipt>>

(* The commands have that shape; each message they build is a message.   *)
LEMMA CommandsShape ==
  ASSUME TypeOK, NEW c \in Invocations,
         \/ ControlSet(c) \/ SetOwner(c)
         \/ ProposeChangeWorker(c) \/ ConfirmChangeWorker(c)
         \/ Withdraw(c) \/ RepayDebtCmd(c) \/ CompactAllocated(c)
  PROVE  CommandShape(c)
<1>0. /\ info.owner \in Addrs /\ info.worker \in Addrs
      /\ info.worker \in Workers /\ info.controls \in SUBSET Keys
      /\ info.balance - info.feeDebt \in Int
      /\ info.feeDebt \in Int
      /\ \A v \in MaskArgs :
           MaskLen(info.lastAllocated, v) \in Nat /\ v \in Nat
      /\ Amounts \subseteq Int
  BY ActorControlAssumption
  DEF TypeOK, MinerInfos, Addrs, ActorControlAssumption, MaskLen
<1> USE DEF CommandShape
<1>1. CASE ControlSet(c)
  <2>1. PICK ks \in SUBSET Keys, doIt \in BOOLEAN :
          /\ Starting(c, "control", None)
          /\ Return(c, "nil")
          /\ msg' = IF doIt
                    THEN [msg EXCEPT ![c] =
                            ChangeWorkerParams(info.owner, info.worker, ks)]
                    ELSE msg
          /\ UNCHANGED <<info, height, receipt>>
    BY <1>1 DEF ControlSet
  <2>2. ChangeWorkerParams(info.owner, info.worker, ks) \in Messages
    BY <1>0, ChangeWorkerParamsType
  <2>3. "control" \in Ops /\ None \in Owners \cup Workers \cup {None}
    BY DEF Ops
  <2>4. CASE doIt
    BY <2>1, <2>2, <2>3, <2>4, Zenon
  <2>5. CASE ~doIt
    BY <2>1, <2>2, <2>3, <2>5, Zenon
  <2>6. QED
    BY <2>4, <2>5
<1>2. CASE SetOwner(c)
  <2>1. PICK na, from \in Owners, doIt \in BOOLEAN :
          /\ Starting(c, "owner", na)
          /\ \/ Return(c, "nil") /\ UNCHANGED msg
             \/ Return(c, "error") /\ UNCHANGED msg
             \/ Push(c, [Msg("ChangeOwnerAddress", from) EXCEPT !.owner = na],
                     "waiting")
                /\ UNCHANGED ret
          /\ UNCHANGED <<info, height, receipt>>
    BY <1>2, Zenon DEF SetOwner
  <2>2. [Msg("ChangeOwnerAddress", from) EXCEPT !.owner = na] \in Messages
    <3>1. from \in Addrs /\ "ChangeOwnerAddress" \in Methods
      BY DEF Addrs, Methods
    <3>2. QED
      BY <3>1, OwnerParamType, Zenon
  <2>3. "owner" \in Ops /\ na \in Owners \cup Workers \cup {None}
    BY DEF Ops
  <2>4. QED
    BY <2>1, <2>2, <2>3, Zenon
<1>3. CASE ProposeChangeWorker(c)
  BY <1>0, <1>3, ChangeWorkerParamsType, Zenon
  DEF ProposeChangeWorker, CommandShape, Ops
<1>4. CASE ConfirmChangeWorker(c)
  BY <1>0, <1>4, MsgType, Zenon
  DEF Methods, ConfirmChangeWorker, CommandShape, Ops
<1>5. CASE Withdraw(c)
  BY <1>0, <1>5, AmountParamType, Zenon
  DEF Methods, Withdraw, CommandShape, Ops
<1>6. CASE RepayDebtCmd(c)
  <2>1. PICK present \in BOOLEAN, req \in Amounts, from \in Addrs \cup {None} :
          LET amount   == IF present THEN req ELSE info.feeDebt
              fromAddr == IF from = None THEN info.worker ELSE from
          IN  /\ Starting(c, "repay", None)
              /\ \/ Return(c, "error") /\ UNCHANGED msg
                 \/ Return(c, "nil")
                    /\ msg' = [msg EXCEPT ![c] =
                                 [Msg("RepayDebt", fromAddr)
                                    EXCEPT !.amount = amount]]
              /\ UNCHANGED <<info, height, receipt>>
    BY <1>6, Zenon DEF RepayDebtCmd
  <2>2. /\ (IF from = None THEN info.worker ELSE from) \in Addrs
        /\ (IF present THEN req ELSE info.feeDebt) \in Int
    BY <1>0
  <2>3. [Msg("RepayDebt", IF from = None THEN info.worker ELSE from)
           EXCEPT !.amount = IF present THEN req ELSE info.feeDebt]
        \in Messages
    BY <2>2, AmountParamType, Zenon DEF Methods
  <2>4. "repay" \in Ops /\ None \in Owners \cup Workers \cup {None}
    BY DEF Ops
  <2>5. QED
    BY <2>1, <2>3, <2>4, Zenon
<1>7. CASE CompactAllocated(c)
  BY <1>0, <1>7, MaskParamType, Zenon
  DEF Methods, CompactAllocated, CommandShape, Ops
<1>8. QED
  BY <1>1, <1>2, <1>3, <1>4, <1>5, <1>6, <1>7

(* A command step of invocation c changes nothing of the other            *)
(* invocations and leaves the chain alone.                                 *)
LEMMA CommandStep ==
  ASSUME IInv, NEW c \in Invocations,
         \/ StartFails(c) \/ ControlSet(c) \/ SetOwner(c)
         \/ ProposeChangeWorker(c) \/ ConfirmChangeWorker(c)
         \/ Withdraw(c) \/ RepayDebtCmd(c) \/ ControlList(c)
         \/ CompactAllocated(c)
  PROVE  IInv'
<1>1. /\ pc[c] = "idle" /\ msg[c] = NoMsg /\ ret[c] = "none"
      /\ receipt[c] = NoReceipt
      /\ UNCHANGED <<info, height, receipt>>
  BY DEF StartFails, ControlSet, SetOwner, ProposeChangeWorker,
         ConfirmChangeWorker, Withdraw, RepayDebtCmd, ControlList,
         CompactAllocated, Starting, IInv, Settled
<1>2. /\ pc' \in [Invocations -> {"idle", "waiting", "done"}]
      /\ op' \in [Invocations -> Ops \cup {"none"}]
      /\ arg' \in [Invocations -> Owners \cup Workers \cup {None}]
      /\ msg' \in [Invocations -> Messages \cup {NoMsg}]
      /\ ret' \in [Invocations -> {"none", "nil", "error"}]
      /\ \A d \in Invocations \ {c} :
           /\ pc'[d] = pc[d] /\ op'[d] = op[d] /\ arg'[d] = arg[d]
           /\ msg'[d] = msg[d] /\ ret'[d] = ret[d]
      /\ pc'[c] = "waiting" => msg'[c] # NoMsg
      /\ pc'[c] # "idle"
      /\ (pc'[c] = "done" <=> ret'[c] # "none")
      /\ (op'[c] \in {"propose", "confirm"} /\ ret'[c] = "nil")
           => msg'[c] = NoMsg
  <2> USE <1>1 DEF Starting, Return, IInv, TypeOK, Ops, NoMsg
  <2>1. CASE StartFails(c)
    BY <2>1 DEF StartFails
  <2>2. CASE ControlList(c)
    BY <2>2 DEF ControlList
  <2>3. CASE ~StartFails(c) /\ ~ControlList(c)
    <3>1. CommandShape(c)
      BY <2>3, CommandsShape DEF IInv
    <3>2. PICK o \in Ops, a \in Owners \cup Workers \cup {None},
               mm \in Messages, r \in {"nil", "error"} :
            /\ Starting(c, o, a)
            /\ \/ Return(c, r) /\ UNCHANGED msg
               \/ Push(c, mm, "waiting") /\ UNCHANGED ret
               \/ /\ o \notin {"propose", "confirm"}
                  /\ Return(c, r) /\ msg' = [msg EXCEPT ![c] = mm]
            /\ UNCHANGED <<info, height, receipt>>
      BY <3>1, Zenon DEF CommandShape
    <3>3. QED
      BY <3>2 DEF Push, Messages
  <2>4. QED
    BY <2>1, <2>2, <2>3
<1>3. TypeOK'
  BY <1>1, <1>2 DEF IInv, TypeOK
<1>4. Settled'
  BY <1>1, <1>2 DEF IInv, Settled, TypeOK
<1>5. QED
  BY <1>3, <1>4 DEF IInv

(* A wait step of invocation c returns; only its pc and ret change.       *)
LEMMA WaitStep ==
  ASSUME IInv, NEW c \in Invocations,
         \/ WaitSetOwner(c) \/ WaitPropose(c) \/ WaitConfirm(c)
         \/ WaitWithdraw(c) \/ WaitCompact(c) \/ WaitFails(c)
  PROVE  IInv'
<1>1. /\ pc[c] = "waiting" /\ msg[c] # NoMsg
      /\ UNCHANGED <<info, height, op, arg, msg, receipt>>
      /\ pc' = [pc EXCEPT ![c] = "done"]
      /\ \E r \in {"nil", "error"} : ret' = [ret EXCEPT ![c] = r]
  BY DEF WaitSetOwner, WaitPropose, WaitConfirm, WaitWithdraw, WaitCompact,
         WaitFails, Return, IInv, TypeOK
<1>2. TypeOK'
  BY <1>1 DEF IInv, TypeOK
<1>3. Settled'
  BY <1>1 DEF IInv, TypeOK, Settled
<1>4. QED
  BY <1>2, <1>3 DEF IInv

(* The chain executes the message of c and writes its receipt.            *)
LEMMA ExecuteStep ==
  ASSUME IInv, NEW c \in Invocations, Execute(c)
  PROVE  IInv'
<1>1. msg[c] \in Messages
  BY DEF Execute, IInv, TypeOK, NoMsg, Messages
<1>2. PICK gas \in BOOLEAN :
        LET r == IF gas THEN Apply(msg[c]) ELSE [ok |-> FALSE, info |-> info]
        IN  /\ info' = r.info
            /\ receipt' = [receipt EXCEPT ![c] =
                             [code |-> IF r.ok THEN 0 ELSE 1, info |-> r.info]]
  BY DEF Execute
<1> DEFINE r == IF gas THEN Apply(msg[c]) ELSE [ok |-> FALSE, info |-> info]
<1>3. r.ok \in BOOLEAN /\ r.info \in MinerInfos
  BY <1>1, ApplyType DEF IInv, TypeOK
<1>4. TypeOK'
  BY <1>2, <1>3 DEF Execute, IInv, TypeOK
<1>5. Settled'
  BY <1>2, <1>4 DEF Execute, IInv, TypeOK, Settled, NoReceipt
<1>6. QED
  BY <1>4, <1>5 DEF IInv

LEMMA NextIInv == IInv /\ [Next]_vars => IInv'
<1> SUFFICES ASSUME IInv, [Next]_vars PROVE IInv'
  OBVIOUS
<1>1. CASE Tick
  <2>1. height' \in 0..MaxHeight
    BY <1>1, ActorControlAssumption
       DEF Tick, IInv, TypeOK, ActorControlAssumption
  <2>2. TypeOK'
    BY <1>1, <2>1 DEF Tick, IInv, TypeOK
  <2>3. QED
    BY <1>1, <2>2 DEF Tick, IInv, Settled
<1>2. CASE UNCHANGED vars
  BY <1>2 DEF vars, IInv, TypeOK, Settled
<1>3. QED
  BY <1>1, <1>2, CommandStep, WaitStep, ExecuteStep DEF Next

(* Whatever the operators run concurrently, the invariant holds.           *)
THEOREM ActorControlTypeCorrect == Spec => []TypeOK
  BY InitIInv, NextIInv, PTL DEF Spec, IInv
=============================================================================
