# TLA+ models of the venus-cluster commit batching engine and actor CLI

This directory holds a verification project for the Go sources under `src/`:
- TLA+ modules, one for each component;
- TLC model-checking instances (`MC*.tla` and `*.cfg`);
- TLAPS proofs (`BatcherProofs.tla`, `ActorControlProofs.tla`, `CommitProcessorProofs.tla`, `PreCommitProcessorProofs.tla`);
- `PROJECT.json`, which records which definition models which source lines, the runs, the mutants, the findings and the hazards.

## 1. The system

| Part | Source | State | Operations |
|------|--------|-------|------------|
| Batcher (C4) | `venus-sealer/sealer/impl/commitmgr/batcher.go` | `pending` slice, live timer, WaitGroup of dispatch goroutines, `stop` channel | `Add` (unbuffered send on `pendingCh`); `run`, a loop over `select {ctx.Done, force, timer.C, pendingCh}` followed by the flush policy; `waitStop` |
| Prove-commit processor (C3) | `.../commitmgr/commit_processor.go` | per call: `infos`, `failed`, collateral, `MessageInfo.CommitCid` of each sector | `Process`: individual path (a goroutine per sector) or aggregate path (collateral per sector, sort, bitfield, `AggregateSealProofs`, push, stamping); `Expire` (Seed.Epoch); `CheckAfter`; `Threshold`; `EnableBatch` |
| Pre-commit processor (C2) | `.../commitmgr/precommit_processor.go` | per call: `infos`, `failed`, deposit, `PreCommitCid` | `Process`: individual path or one `PreCommitSectorBatch`; `Expire` (Ticket.Epoch) |
| Signal context | `cmd/.../internal/global.go` | the global context | `NewSigContext` cancels it on SIGABRT, SIGTERM or SIGINT |
| Actor CLI | `cmd/.../internal/util_sealer_actor.go` | the miner info on chain; pushed messages | `control set`, `set-owner`, `propose-change-worker`, `confirm-change-worker`, `withdraw`, `repay-debt`, `control list`, `compact-allocated` |
| Randomness | `modules/impl/randomness/rand.go` | none | RPC wrappers |

How the parts interact:
- The registry, which is not under `src/`, calls `Add` and sends on `force`.
- The batcher's loop applies the flush policy after every receive:
  - `cleanAll` happens when the buffer is full, on a force, or when batching is off;
  - otherwise, on a tick, only the sectors `Expire` reports are flushed.
- A flush hands a copy of the chosen sectors (the `processList`) to a new goroutine running `Processor.Process`.
- `Process` pushes messages and stamps message ids. The deferred `updateSector` persists the sectors (it is not under `src/`).
- On cancellation the loop returns. The deferred `wg.Wait()` waits for every dispatch, then `close(stop)`.

The actor CLI is independent of the batcher: operators run it against the miner actor on chain.

What makes this code hard:
- goroutines that run concurrently with the loop;
- random choice among ready `select` cases;
- the config is re-read live at every iteration;
- partial failures inside one `Process`;
- unbuffered channels after shutdown;
- in the CLI, state read before a push and used after other operators' messages have run.

## 2. Modules

| Module | Models | State ↔ code |
|--------|--------|--------------|
| `Batcher` | batcher.go, the `Expire`/`Threshold`/`EnableBatch`/`CheckAfter` parts of both processors, `NewSigContext` | See the list below this table |
| `CommitProcessor` | one `CommitProcessor.Process` call | `sectors` is the processList; `todo` is the goroutines still running; `msgs` is the pushed messages; `commitCid[i]` is the index of sector i's message; `pc` holds the outcome, which includes `"panicked"` |
| `PreCommitProcessor` | one `PreCommitProcessor.Process` call | Same layout; `preCommitCid` |
| `ActorControl` | all eight actor commands, run concurrently | `info` is the miner info on chain; `pc`, `op` and `arg` give each invocation's position, command and argument; `msg` and `receipt` are its message and the receipt with the state after it; `ret` is its Go return value |
| `CommitQueue` | what the batcher promises (spec §3, §4.4), no code of its own | `waiting`, `processing`, `stamped`, `status`; actions `Submit`, `Dispatch`, `Complete`, `BeginShutdown`, `Close` |
| `CommitDelivery` | `Batcher` composed with the end of `CommitProcessor.Process` (push at commit_processor.go:170–175, stamping at 177–183, deferred `updateSector` at 97) | adds `pushed`, the sectors a message reached the messager for; `ProcessPush(d)` returns a dispatch with `stamped ⊆ pushed` of its list; `IdsLost` says whether the two can differ |
| `BatcherProofs` | TLAPS proofs about `Batcher` | |
| `ActorControlProofs` | TLAPS proofs about `ActorControl` | |

State of `Batcher`:
- `adding`: sectors whose `Add` is blocked on `pendingCh`.
- `forcing`: a force send is blocked.
- `pending`: the buffered sectors.
- `inflight`: the processLists of running dispatch goroutines, that is, the WaitGroup.
- `timer`: the timer, which is armed, fired or spent. `spent` exists only inside a step: every tick and every full flush arms a fresh `CheckAfter` timer, so `TypeOK` admits only armed and fired.
- `threshold` and `enabled`: the live config.
- `head`: the chain height.
- `stamped`: the sectors whose message id is persisted.
- `cancelled`: the global context has been cancelled.
- `loop`: the loop is running, returned and in `wg.Wait`, or stopped after `close(stop)`.

Actions of `Batcher`:
- `RecvCancel`, `RecvForce`, `RecvTick(ok)` and `RecvSector(s)` are the four `select` cases.
- Each flushing case ends with `FlushPolicy`, which models lines 63–113 entirely, including the timer reset.
- `Process(d)` is a dispatch goroutine returning.
- `Stop` is the deferred `wg.Wait(); close(stop)`.
- The environment has these actions:
  - `Submit` and `SendForce` (the callers);
  - `TimerExpire`;
  - `Cancel`;
  - `AdvanceHead`;
  - `UpdateConfig`.

Data abstraction in `Batcher`:
- A sector is its ID.
- `pending` and each processList are sets. No consumer depends on the order: the aggregate path sorts by number itself, and the batch and individual paths are order-insensitive.
- `Add` (batcher.go:30) has no guard: it sends whatever sector it is given. `Submit` conjoins that the sector is not held by the batcher. This is an assumption about the caller, not a check of the code, and it is false of the workflow: the `commit_duplicate_add` run drops it and shows a sector committed twice. `ExclusiveOwnership`, `OwnershipInvariant` and `ImplementsQueue` hold under this assumption only.
- `Process` is abstracted to the subset of its list that ends up stamped. The processor modules model what happens inside it.

Data abstraction in the processor modules:
- Messages are records of their method, the sector numbers they carry, their proof order and their value.
- The proof of a sector is represented by its number.
- The chain's answers (collateral, deposit) are constants indexed by sector.
- Every failing RPC is a nondeterministic choice of the set of failing sectors.
- The two loops over `infos` are written in closed form, so that they can be reasoned about:
  - `SortInfos(D)` is `sort.Slice` by number: the k-th entry is the sector of the kept position with `k-1` kept positions `Before` it. `Before` orders by number, then by position.
  - `KeptInOrder(D)` is the pre-commit append loop: the k-th entry is the sector of the kept position with `k-1` kept positions ahead of it in the list.

`ActorControl` models the miner actor of specs-actors v2 (the version the command imports) as its environment:
- `ChangeWorkerAddress` is owner-only. It replaces the control addresses, and records a key change with `height + Delay` when none is pending and the key differs.
- `ConfirmUpdateWorkerKey` is owner-only. It applies a matured change and otherwise does nothing.
- `ChangeOwnerAddress` is a nomination by the owner, then a confirmation by the nominee.
- `WithdrawBalance` (owner-only) pays out at most the balance less the fee debt; `RepayDebt` (owner, worker or a control key) adds the value to the balance and pays the debt from it; `CompactSectorNumbers` (owner, worker or a control key) masks allocated numbers.
- Any message may also fail, for example by running out of gas.

The commands are modelled as follows:
- Each command is a start step: read the miner info, check it, then push, or return early.
- `withdraw` and `compact-allocated` also have a wait step (`WaitWithdraw`, `WaitCompact`) that prints the outcome and returns `err`.
- `repay-debt` checks that the sender is the owner, the worker or a control key in the info it read, pushes, and returns without waiting. `control list` only reads and prints (`ControlList`).
- `compact-allocated` builds its mask from `--mask-last-offset m` or `--mask-upto-n`. The uint64 arithmetic is modulo `Word = 2^Width`: `MaskRefused(last, m)` is the refusal `last <= m+1 || last > 1<<60` and `MaskLen(last, m)` is the run length `last - m`. Its copy-pasted argument check (line 722, "must pass address of new owner address") is the same early return as any other.
- `set-owner`, `propose-change-worker` and `confirm-change-worker` also have a wait step, which reads the receipt and, for the worker commands, re-reads the info at the receipt's tipset.
- Every RPC error before the push is the single `StartFails` step.
- `WaitFails` is `WaitMessage` failing while the message stays in the pool.

The MC modules fix model values and small sets. `MCActorControl` declares symmetry over the invocations, which are interchangeable.

## 3. Runs

| Run | Checks | Result |
|-----|--------|--------|
| `batcher_core` (`MCBatcher.cfg`) | `TypeOK` (the timer is never left spent), `ExclusiveOwnership`, `DispatchWithinThreshold`, `PendingEventuallyDispatched`, `ShutdownCompletes`, and `QueueSpec`: `Batcher` implements `CommitQueue`, liveness included | pass, 21,184 states |
| `batcher_add_returns` | `AddReturns` | violated: after cancellation an `Add` blocks forever |
| `commit_processor` | `TypeOK`, `AggregateAligned`, `StampedIffCarried` | pass, 9,120 states |
| `commit_duplicate_add` | `CommittedOnce`, with upstream lists that repeat a sector | violated: a sector added twice before a flush is proved twice in one aggregate; nothing de-duplicates `pending` (spec §3 says it should) |
| `commit_resend_after_lost_id` | `NoResend` on `CommitDelivery` with `IdsLost` | violated: a pushed sector whose id was not persisted is resubmitted and sent again, against the Notice at commit_processor.go:91 |
| `commit_failed_fetches` | `FailedFetchesIsolated` | violated: 4 sectors with 1 failed fetch give an aggregate of 3; with every fetch failing, `infos[0]` panics (the run shows the first, the second is reachable on the same instance) |
| `precommit_processor` | `TypeOK`, `StampedIffCarried` | pass, 552 states |
| `precommit_batch_non_empty` | `BatchNonEmpty` | violated: an empty batch is pushed |
| `actor_control` | `TypeOK` (the miner info is well formed; an invocation waits only for a message it pushed), all eight commands | pass, 682,848 states |
| `actor_mask_offset` | `MaskWithinOffset` | violated: offset 2^w−1 wraps `m+1` to 0 and the mask length to `last+1` |
| `actor_exit_status` | `ExitStatusTruthful` | violated: `return err` with a nil `err` after a failed receipt (set-owner, propose, confirm, withdraw, compact-allocated) |
| `actor_change_worker_keeps_rest` | `ChangeWorkerKeepsRest` (action property) | violated: a proposal reverts a concurrent `control set`; the other half, `control set` re-proposing the old worker after a confirmed change, is violated too when checked alone |

Every property of a passing run has a mutant in `PROJECT.json`: a plausible bug of the mapped code, defined just before it, that TLC must find. The mutants are:
- a timer that is not re-armed (leaves it spent, breaking `TypeOK`);
- a pending buffer that is not cleared;
- a reset only on a full flush;
- a cancel case that does not return;
- a missing sort;
- stamping that ignores `failed`;
- an off-by-one goroutine range;
- a full-buffer test with `>` in place of `>=` (breaks `DispatchWithinThreshold`);
- a dispatch that returns without its list leaving the WaitGroup (breaks `QueueSpec`);
- confirm-change-worker ignoring the error of `PushMessage` and waiting on an id that names no message (breaks the actor `TypeOK`).

`CommittedOnce` is checked only in the `commit_duplicate_add` violation run: with distinct lists it holds by the shape of the model. The message values (collateral, deposits) are kept in the processor models, but no property reads them.

Bounds, and why they are enough:
- **Batcher: 3 sectors, thresholds {1, 2}, heights 0..3, MaxWait 45 s with 30 s epochs (one epoch).** Threshold 2 with 3 sectors makes a full flush, a force or tick flush of a partial buffer, and two concurrent dispatches all reachable; a live change from 2 to 1 while a sector is buffered is the edge of `DispatchWithinThreshold`. Ticket epochs 0 and 1 make the expiry split a buffer.
- **Commit: 4 sectors with MinAggregatedSectors = 4; pre-commit: 3 sectors.** Every input order and every failure subset is enumerated. Four sectors are the least that reach the aggregate path.
- **Actor CLI: 3 invocations, 2 owners, 2 workers, 1 control key, delay 1, height up to 2, balance 2 with fee debt 1, amounts {1}, 4-bit words, offsets {2, 15}, highest allocated 3.** These bounds allow a propose, a confirm and a concurrent third command in every order, with the change maturing in between; a withdrawal limited by the debt; and both the ordinary and the wrapping mask offset (15 = 2^4−1).

Fairness in `Batcher.Spec`:
- Strong fairness on each `select` case. Go picks uniformly among ready cases, so a case that is ready infinitely often is eventually taken.
- Strong fairness on `RecvTick(TRUE)`. This assumes `ChainHead` errors are transient.
- Weak fairness on timers, chain growth, dispatch goroutines and `Stop`.
- No fairness on callers, config changes or cancellation.

`ActorControl` and the processor runs check safety only. Their cfgs say `CHECK_DEADLOCK FALSE`, because those systems really do stop: every invocation returns, and every `Process` call ends.

## 4. Proofs (TLAPS)

`BatcherProofs` proves two theorems for every finite set of sectors, every config and every bound:
- **`TypeCorrect`**: `Spec => []TypeOK`, including that the timer is never left spent.
- **`OwnershipInvariant`**: `Spec => []ExclusiveOwnership`. `ExclusiveOwnership` is not inductive alone, because it needs the types. The inductive invariant is `IInv == TypeOK /\ ExclusiveOwnership`.
  - Lemma `FlushPolicyShape` shows that any flush moves a subset of its input into one new dispatch.
  - Lemma `FlushKeepsOwnership` shows that such a move keeps the places disjoint.
  - A returning dispatch stamps only sectors that no other place holds.

Two more theorems in `BatcherProofs`:
- **`DispatchBounded`**: `Spec => []DispatchWithinThreshold`, every dispatch has one sector or at most some configured threshold. Not inductive alone: a full flush hands over the whole buffer, so the buffer itself must be bounded. The strengthening is `BoundInv == TypeOK /\ PendingBelow /\ DispatchWithinThreshold`, with `PendingBelow` saying the buffer is empty or smaller than some threshold. Lemma `FlushWithin` shows that whatever `FlushPolicy` hands over is within a threshold and what it leaves is below one; a received sector either fills the buffer (and is flushed) or keeps it below.
- **`ImplementsQueue`**: `Spec => Queue!Safety`, the batcher implements the safety part of `CommitQueue` under the mapping `waiting = adding ∪ pending`, `processing = UNION inflight`, `status` from `loop`. `InitRefines` and `NextRefines` show that each step is a `Submit` (a sector entering `adding`), a `Dispatch` (a flush, lemma `FlushRefines`), a `Complete`, `BeginShutdown` (the cancel case), `Close` (`Stop`) or a stutter; it rests on `IInv`. The liveness half (`Queue!Spec`) is checked by TLC only (`batcher_core`).

`ActorControlProofs` proves one theorem for any number of invocations, owners, workers and keys, and any delay and height bound:
- **`ActorControlTypeCorrect`**: `Spec => []TypeOK`: the miner info stays well formed, and an invocation waits only for a message it pushed.

It rests on `IInv == TypeOK /\ Settled`. `Settled` states three facts: a return value is final; an idle invocation has pushed nothing; a receipt exists only for a pushed message. Without them, an execution step could write a receipt for an invocation with no message. Lemma `ApplyType` shows that the miner actor keeps the miner info well formed, one lemma per method. `CommandsShape` shows that every command's start step has one of three shapes (return, push and wait, push and return) with a well-typed message, which lets `CommandStep` treat the eight commands at once. `CommandStep`, `WaitStep` and `ExecuteStep` cover the three kinds of step. `IInv` was checked with TLC on the `actor_control` instance before it was proved.

`CommitProcessorProofs` proves three theorems for every finite set of sector numbers, every collateral and every `MinAggregatedSectors`, over every processList the batcher can hand over (`InputLists`: non-empty, no repeats):
- **`TypeCorrect`**: `Spec => []TypeOK`.
- **`AlignedAggregates`**: `Spec => []AggregateAligned`.
- **`StampsCorrect`**: `Spec => []StampedIffCarried`.

The processList ranges over `InputLists` (non-empty, no repeats); lists with repeats are the `commit_duplicate_add` run's business.

All three rest on one inductive invariant `IInv`. Besides `TypeOK` and `StampedIffCarried`, it has four conjuncts:
- every pushed message is one `Process` can build, i.e. a member of `Messages`;
- each message has ascending proofs;
- nothing is pushed while `pc = "start"`;
- a position whose goroutine has not yet run has no id.

Each conjunct is needed:
- Without the last two, a goroutine's stamp could overwrite an id another message carries.
- Without membership in `Messages`, nothing ties a message's value to its sectors.

The operator lemmas are:
- `RankFacts`: the ranks of a finite set of positions are a bijection onto `1..|D|` that respects `Before`. It uses `FS_Injection` from `FiniteSetTheorems`.
- `SortInfosFacts`: the sorted `infos` hold exactly the kept sectors, in strictly ascending order.

`PreCommitProcessorProofs` proves two theorems for every finite set of sectors and every deposit:
- **`TypeCorrect`**: `Spec => []TypeOK`.
- **`StampsCorrect`**: `Spec => []StampedIffCarried`.

Its `IInv` has the same shape without the ordering conjunct. Its lemmas are:
- `IndexRankFacts`, ranks by list position;
- `KeptInOrderFacts`: `infos` holds exactly the sectors whose params were built.

Both `IInv`s were checked with TLC on the runs' instances before they were proved. For that check, `Messages` was replaced by its members over `InputLists`, because TLC cannot enumerate `Seq(Sectors)`.

The following are checked only with TLC:
- Liveness (`PendingEventuallyDispatched`, `ShutdownCompletes`), because TLAPS does not handle fairness or ENABLED.
- The violated properties (they are findings, see `PROJECT.json`).
- `CommitDelivery`: it exists to exhibit the resend.

## 5. Not modelled

The following are left out, and why:
- `rand.go`: stateless RPC wrappers.
- Mock, dependency wiring, the blockstore and the file store: constructors and I/O.
- The registry and `updateSector`: they are not under `src/`. They appear only as `Submit`/`SendForce` and as the `stamped` set.
- The registry's duplicate and resubmission logic itself: `CommitDelivery` only lets a sector with no persisted id be submitted again.

## 6. Plan for later sittings

1. **Composition.** Add a `BatcherCommit` module that refines `Process(d)` with the prove-commit processor's outcome, so that a panic in one dispatch is checked while others are in flight.
2. **A refinement for the processors**: an abstract `Process` that stamps a subset of the list with one message per subset, shown implemented by both paths, with the proofs above as its invariant.
3. **Larger instances** of the actor run (four invocations) with a symmetry over owners.
