# TLA+ models of PRacer

PRacer is a race detector for pipeline-parallel programs. It runs inside a Cilk
Plus runtime that was extended twice: with Piper (pipelines of iterations and
stages) and with Batcher (operations on a shared data structure are run in
batches by the workers that wait for them). This directory models the parts of
it that are concurrent, checks small instances with TLC and proves the results
listed below with TLAPS.

## 1. Inventory

The repository has three parts: `rdtool/` (the race detector),
`batched-piper/` (the runtime; its core is `batched-piper/runtime/`) and
`piper-rts/` (a copy of the public headers). The rest is benchmarks, tests,
scripts and generated build files.

| Component | State | Operations | Talks to |
|---|---|---|---|
| OM insertion protocol: `rdtool/src/omrd.cpp`, `runtime/batcher.c` | one spin lock per worker, `g_relabel_mutex`, `batch_lock`, `g_relabel_id`, `g_batch_in_progress`, `g_batch_owner_id`, `pending_batch.id`, `batch_id` and `insert_failed` of each worker, `m_heavy_nodes` | `insert`, `slow_path`, `join_batch`, `cilk_tool_om_try_lock_all`, `relabel`, `batch_relabel`, `cilk_batchify`, `execute_batch`, `terminate_batch` | OM data structure (calls), batch scheduling (a task that others may steal), access history (queries) |
| OM data structure: `rdtool/src/om/` | bottom lists of labelled nodes under a tree of sublists | `om_insert`, `om_precedes`, `split`, `om_relabel`, `rebalance` | called under the worker's lock, or by the batch |
| Access history: `mem_access.*` | per 4 bytes: last writer, leftmost reader, rightmost reader | check and update on a read, on a write | shadow memory, queries of both orders |
| Shadow memory and shadow stack: `shadow_mem.h`, `shadow_stack.cpp`, `stack.h` | two-level table of slots; stack of strands | find, insert (compare-and-swap), erase; push, pop, resize | access history |
| Pipeline orders: `piper_rd.h`, `list.cpp` | ring of stage lists, one per iteration | `cilkStageFirst`, `cilkStage`, `cilkStageWait`, `getLeftDependency` | OM insertion; reads the left neighbour's list |
| Piper scheduling: `piper_sched.cpp`, `piper.h` | ring of K iteration blocks with stage, status and cleanup counter; the control frame; `implicit_deque_flags` | throttle, stage wait, suspend, resume, finish iteration, implicit steals | scheduler (worker and frame locks) |
| Cilk scheduler: `scheduler.c`, `cilk-abi.c` | two deques per worker (core, batch), full frames with join counters, `next_frame_ff` | push, pop, steal, promote, sync, return from spawn | everything |
| Locks, sleeping: `worker_mutex.c`, `signal_node.c` | lock word and owner field; run flag and semaphore | trylock, unlock; message, wait | scheduler, batcher |

What is hard here: the interleavings of lock-taking inserts, a batch that has
to stop them all, and lock-free queries; the batch itself being a fork-join
task whose pieces run on several workers; ids that are read, kept and compared
later; and, in Piper, decisions taken under one block's lock about a neighbour.

What each component has to guarantee:

* *OM insertion protocol*: a relabel never overlaps an insert; every failed
  insert is covered by the next batch; every insert returns; a query that
  accepts its answer saw one labelling.
* *OM data structure*: labels grow strictly along a list, an insert puts the
  node directly after its base, relabelling keeps the order, labels never
  leave their range.
* *Access history*: if two accesses of a location race, some check that
  reports a race is made; the leftmost and rightmost readers are the extreme
  ones.
* *Pipeline orders*: a stage precedes another in both orders exactly when a
  path of the pipeline leads from the one to the other.
* *Piper scheduling*: stages run in pipeline order, at most K iterations are
  under way, no suspended frame is forgotten or resumed twice.
* *Cilk scheduler*: every frame is run by exactly one worker; *signal node*:
  no wake-up is lost.

The full list of hazards, with source lines and the properties that catch them,
is in `PROJECT.json`.

## 2. The modules

| Module | What it is | Uses |
|---|---|---|
| `OMBatch` | the insert and batch protocol, queries | `OrderLists` (its abstract specification) |
| `Labels` | label arithmetic of a bottom list | |
| `OMTree` | the order-maintenance structure: lists, tree, relabel, rebalance | extends `Labels` |
| `AccessHistory` | history of one block, compared and replaced by accesses | |
| `Pipeline` | what a `pipe_while` loop promises | |
| `PiperPipe` | how Piper schedules the loop | `Pipeline` (its abstract specification) |
| `PipeOrders` | how the detector turns the loop into two orders | composes with `Pipeline` |
| `Deque` | the THE protocol of one deque | `WorkQueue` (its abstract specification) |

`MC...` modules hold the instances for TLC; `..._proofs` the theorems. Definitions
whose comment begins with "Variant" or "Fault" are mutated forms of the definition
after them; no action of a specification uses them.

How the modules fit together: `AccessHistory` takes an order query for one step,
which `OMBatch` justifies (`AcceptedQueriesAreConsistent`). `OMBatch` takes a label
for a count of halvings and a relabel for something that gives room again, which
`Labels_proofs` and `OMTree` justify. `OMTree` takes a relabel to run alone, which
is `RelabelExcludesInserts` of `OMBatch`. `PipeOrders` runs on the steps of
`Pipeline`, and `PiperPipe` shows that the scheduler takes only such steps
(`ImplementsPipeline`). `OMBatch` and `PiperPipe` take a theft for one step, which
is what `Deque` shows (`ImplementsQueue`).

## 3. `OMBatch`: inserts, batches and queries

### State and actions

Every variable carries the name of the code's variable; the comment beside its
declaration says which. `pc[w]` is the place of worker `w`'s thread:

| `pc` | place in the code |
|---|---|
| `idle` | user code (or the core scheduling loop) |
| `acquire` | the `while (pthread_spin_trylock(mut) != 0)` of `insert` and `slow_path` |
| `try_insert`, `mark`, `add_heavy`, `set_batch_id`, `unlock` | inside the worker's own lock |
| `batchify`, `try_start`, `try_relabel_mutex` | `join_batch` → `cilk_batchify` → `try_to_start_batch` |
| `set_owner`, `set_owner_field`, `lock_all` | `cilk_tool_om_try_lock_all` |
| `relabel_begin`, `relabel`, `relabel_done`, `relabel_end` | `batch_relabel` as the task of the batch |
| `term_id`, `term_owner`, `term_lock` | the stores of `terminate_batch` |
| `help_id`, `help_owner`, `help_work`, `leave` | `execute_batch` and the return from `cilk_batchify` |
| `unlock_all` | the end of `join_batch` for the owner |
| `ask`, `read_x`, `read_y`, `ask_again` | a query between `QUERY_START` and `QUERY_END` |

Every store to a variable that another worker reads without the same lock is a
step of its own; stores nobody else can tell apart from their neighbour share a
step. In particular `terminate_batch` is three steps, the lock word and the
owner field of a `mutex` are two, and a query reads its two labels in two steps.

`batch_relabel` spawns `relabel(g_english)` and continues with
`relabel(g_hebrew)`. `cont` follows its frame: `stealable` (on the batch deque),
`popped` (the spawning worker came back to it), `taken` (stolen), `at_sync`
(suspended, waits for the child), `synched` (handed to the last one to arrive,
in `next_frame`). The thief is any worker in `execute_batch`.

### Abstractions

* A label is the room beside a base node: `gap[w][l]` is how many times the
  interval after the base of worker `w` in list `l` can still be halved. A
  worker always inserts after its own base; two workers do not share a base,
  which is what the tool guarantees (each strand has its own node). A relabel
  gives every list it replaces `MaxGap` again. `LabelBetween` (section 9) is why an
  insert costs one halving.
* The order structure is a set of bottom lists; the tree above them is
  `OMTree`. `torn` are lists between `split` and the replacement.
* A worker without work steals nothing but the continuation of the batch: the
  core deque is out of the picture while the worker is in `execute_batch`.
* A `CILK_ASSERT` that fails ends the program. Where that can happen
  (`SetNextBatchOwner`) the worker waits in the model until it would hold; the
  executions that come after add to those of the program, and what holds of all of
  them holds of the program's.
* `relabel_id` is not wrapped: with 64 bits it does not wrap in practice.

### Runs

| Run | Instance | Checks | Result |
|---|---|---|---|
| `serial` | 2 workers, 1 list per order, 3 inserts each, any of which can fail; nobody steals | type invariant, `RelabelExcludesInserts`, `BatchCoversFailedInserts`, `HeavyListsAreQueued`, liveness `InsertsReturn` | holds |
| `helpers` | 3 workers, a query, one batch whose continuation may be stolen | `NoFrameLeftBehind`, `NoInsertDuringBatch`, `AcceptedQueriesAreConsistent`, refinement `RelabelIsAtomic` | holds |
| `thieves` | 2 workers, 4 and 2 inserts, batches with stolen continuations | `CurrentOwnerOutlastsBatch`, `CurrentWorkersTakeFrame` | holds |
| `early_exit` | 2 workers, 4 inserts each, several batches with steals | `InsertFindsListWhole` | violated |
| `next_owner` | 2 workers, 4 and 2 inserts, batches with stolen continuations | `NextOwnerGetsBatchLock` | violated |

Bounds. `MaxInserts` and `MaxQueries` bound what the user strands ask for;
`StartGap = 1` and `HeavyGap = 1` make the second insert beside a base fail, so
two or three inserts of each worker already give batch after batch. A batch id
goes stale only if a whole batch fits between `slow_path`'s store and the start
of the owner's own batch: that takes two workers and four inserts each. One list
per order is enough for the queue of each order to matter, since both workers
insert into the same list. `helpers` has a third worker, so that child, thief and
resuming worker can be three different ones, and about 270 thousand states; one
failing insert there keeps it to one batch, which is the case without stale ids:
`NoFrameLeftBehind` is there about the order of child, thief and resuming worker at
the sync. A worker that leaves with a frame takes batch after batch, and is the
subject of `thieves`: its two properties say what holds as long as ids are current,
over executions in which they may also go stale.

Fairness. `FairSpec` assumes that every worker in the middle of an operation
keeps running: the workers are OS threads, and nothing in `batcher.c` or
`omrd.cpp` gives up its time for good. Nothing is assumed about what user code
calls (`Call`) nor about who wins a lock. `thieves` checks `Spec`, without fairness,
on purpose: its properties read "if ids are current all along", and an execution that
breaks the conclusion may go on to make an id stale. Under fairness it would have to
go on, and such executions would not count; without it they may stop where they are.

### What the violated runs show

`early_exit` needs a continuation that was stolen and a worker that carries an id
from a batch before. `slow_path` stores the pending id before it unlocks, and
`cilk_batchify` does not replace it. If a whole batch runs in between, the worker
becomes the owner of the next batch with the old id, its loop in `execute_batch`
ends at once, and `join_batch` unlocks every worker's mutex while the thief still
relabels.

`next_owner` needs no stale id, only a thief. `terminate_batch` publishes the new id
first and frees `batch_lock` last. In between the owner may leave on the id and unlock
`g_relabel_mutex`; whoever takes it next finds `batch_lock` held, and the
`CILK_ASSERT(result)` of `cilk_set_next_batch_owner`, which "should never fail", fails.
`CurrentOwnerOutlastsBatch` (run `thieves`, theorem `NextOwnerMeetsNoBatch`) says that
this is the only way while ids are current: the holder is then in its last two stores.
With a stale id the next owner may come while the batch still relabels. Freeing the
lock before publishing the id, or a lock instead of the trylock, would close the gap.

`NoFrameLeftBehind` also fails on the instance of `early_exit`: the frame of the batch
is put in `next_frame_ff` before the loop test that decides to leave, and a worker with
an old id leaves with it. `CurrentWorkersTakeFrame` says that it takes such an id.

`OwnerAloneIsSafe` (section 9) shows that a torn list during an insert cannot happen
without a thief, for any number of workers. `CurrentOwnerIsSafe` shows the other half:
with any number of thieves it takes an owner that begins its batch with an id from
before (`OwnerIsCurrent` says there is none). If `cilk_set_next_batch_owner` stored the
pending id again in `batch_id`, when it has `batch_lock`, no owner could: nobody else is
inside `terminate_batch` then.

### Abstract specification

`OrderLists` is what the protocol promises: inserts of different workers go on
side by side, and relabelling an order is one indivisible step that happens
while nobody inserts and gives room to exactly the marked lists. `RelabelIsAtomic`
maps `busy` to the workers inside their own lock, `room` to `gap` and `marked` to
both queues. The run `helpers` checks it, with a thief; without one it is proved.

## 4. `Labels` and `OMTree`: the order-maintenance structure

### State and actions

`Labels` is `get_new_label` of `blist.c`, with sums that wrap at `MAX_LABEL + 1`, and
`is_heavy` of `omrd.cpp`. `OMTree` builds on it.

A node of the top tree is known by its path from the root. Its level follows from
that (`Level`), so the code's `level` fields have no variable. `tree[p]` has the label,
the number of leaves, `needs_rebalance`, and at a leaf its list; between `split` and
`rebuild` a leaf has several lists, as `split` hangs them at it.

| Action | Code |
|---|---|
| `Insert`, `InsertFails` | `try_insert` with `get_new_label`, the heavy test, `slow_path`'s marking |
| `StartRelabel` | `om_relabel` begins, one iteration of its `cilk_for` per heavy list |
| `Split` | an iteration: `split`, the climb that adds to `num_leaves`, the read of `self->height` |
| `RaiseHeight`, `HighEnough` | its compare-and-swap loop on `self->height` |
| `StartRebalance` | the test for overflow of the label space, the call for the root |
| `Rebuild`, `Descend` | one call of `rebalance` |
| `EndRelabel` | the heavy queue is reset |

### Arithmetic

`num_leaves` is a `label_t` and wraps. `capacity` shifts an `int`: the processor takes
the shift count modulo `IntBits`, and a result with the sign bit set becomes a huge
`size_t`. In the 64-bit build, with shifts of 32 bits, the capacity of a node of
height 31 is therefore huge, of height 32 it is 1 and of height 33 it is 2. The run
shows what becomes of that: a hot spot makes the tree deeper only down to the level
where the wrapped shift starts, then rebuilds move up, and no assertion fails. The
comparisons with 0.75 and 0.25 are in doubles in the code; all values are small
fractions there, so they are exact and the model compares integers.

### Run

`hot_spot` (about 335 000 states): 16-bit labels, `IntBits = 8`, so that an `int` is
half as wide as a label as in the build, `SUBLIST_SIZE = 2`, `NODE_INTERVAL` and
`HeavyDistance` so that, as in the build, `split` leaves room and nothing heavy, up to
25 nodes, so that lists are split again and again; inserts go to one
place, then to two, then to a hot spot inside the order. Checked: `OrderMaintained`
(whatever was split and rebuilt, the nodes compare as they were inserted),
`TreeIsSound` (what the code's own `verify` looks for), `NodeHasRoom`,
`RetryFindsLabel` (the assertion of `slow_path`) and `HeightBoundsTree`. Deadlock is
not checked because the run ends when all nodes are inserted.

The overflow test (`StartRebalance`) fails in no state of this run: 25 nodes do not fill
65 536 labels. To see it, use `MAX_LABEL = 7`, `MAX_LEVEL = 3`, `HeavyDistance = 1`,
`NODE_INTERVAL = 2`, `SUBLIST_SIZE = 4`, `IntBits = 32`, `MaxNodes = 11` and `{1, 2}` for
every entry of `Spots`: the program exits there with `OrderMaintained` still true.

In the build the assertion that `RetryFindsLabel` states needs a `g_heavy_threshold` of
8 or more (the default is 32): `split` leaves 2^58 between 64 nodes and 2^58 - 1 behind
the last one, half of which must not be heavy.

### Abstractions

* `om_relabel` runs alone, as `OMBatch` shows. Inserts between two relabels are one
  step each: those of two workers go to different places under different locks.
* Updates of `num_leaves` and `needs_rebalance` commute and are read only after the
  sync, so the climb of an iteration is part of its `Split`.
* A call of `rebalance` that returns at once is no step.
* `om_destroy`, `om_free`, `om_verify`, printing and memory accounting are left out.

`OMTree` has recursive operators, as the code's `build_array_of_leaves` and
`rebuild_recursive`; it is model-checked only.

## 5. `AccessHistory`: who raced with whom

### State and actions

A strand `s` of the program is the `s`-th in `g_english` and the `heb[s]`-th in
`g_hebrew`; it precedes `t` in the dag if it does in both orders, and is parallel
to `t` if the orders disagree. `heb` is any permutation, so the runs go through
every dag that two orders can describe. `prog[s]` is the sequence of accesses
`s` makes, chosen from `Programs`; `made[s]` says how many it has begun.

The block of 16 bytes has a `MemAccessList_t` once `list` is true; `hist` is its
three arrays of four entries, an entry the two nodes of a `MemAccess_t` (or
`Empty`, the null pointer). `lock` are its three spin locks. `array[s]` and
`i[s]` are the loop that the access of `s` is in and its index; `saw[s]` is the
english node it compared with. `racy` collects the grains for which
`races_with` answered true: the calls of `report_race` are commented out in this
version of the code, and `racy` stands in their place.

| `pc` | place in the code |
|---|---|
| `idle`, `find`, `alloc`, `insert` | `record_mem_helper`: `shadow_mem.find`, `find_slot(key, true)`, the compare-and-swap of `insert` |
| `load` | the test of a loop and the unlocked read of the entry's pointer |
| `install` | the pointer was null: the spin lock, the second test, the new entry |
| `compare_e`, `compare_h` | the two `om_precedes` of `races_with`, `is_leftmost` or `is_rightmost` |
| `store_e`, `store_h` | the two stores of `update_acc_info` under the spin lock |

A read walks through `writers` (checking), `lreaders` and `rreaders`
(updating); a write through `writers` (checking and updating), `lreaders` and
`rreaders` (checking). `Updates` and `Checks` say so, and one set of actions
serves all six loops.

### Abstractions

* `om_precedes` answers at once. `OMBatch` shows that a query accepted by
  `QUERY_END` saw one labelling, and inserts do not change the order of nodes
  that are there.
* One block. Blocks share nothing but the table that `AllocTable` installs.
* Accesses are aligned to their size, as those the compiler instruments are
  (`ProgramAssumption`); an access therefore stays in its block.
* A strand begins when every strand before it has ended (`Begin`), and at most
  `MaxBusy` accesses are under way: this is all that is kept of the runtime.
* Nothing is erased: `clear_shadow_memory` of `instrumentation.cpp` returns at
  once. The instruction address of an access is left out.

### Runs

| Run | Instance | Checks | Result |
|---|---|---|---|
| `alone` | 4 strands, one access at a time; reads and writes of an int, or a double read whose second half is written | `RacesAreFound`, `ReadersAreExtreme` | holds |
| `together` | 3 strands, 3 at once, on the last grain of the block | type invariant, `NoFalseAlarm`, `EntriesAreWhole`, `AccessesAreKept` | holds |
| `missed` | 3 strands, 2 at once, the accesses of `test_mem.cpp` | `RacesAreFound` | violated |

Bounds. Whether two readers stand for all of them needs at least three readers
and a writer, hence the four strands of `alone`; its 8-byte access covers two
grains, so that a loop has two turns and the two grains of a block differ. A torn
entry needs one strand whose store is under way, another that stored before it
and a third that compares: three strands, all at once, in `together`. The last
grain is the one where an index could leave the array. `MaxBusy` is never above
what the strands can use.

### What the violated run shows, and two more observations

* `missed`: a reader tests `writers[i]` first and stores itself afterwards, a
  writer stores itself first and tests the readers afterwards. When the writer's
  walk falls between the two halves of the reader's, neither sees the other. In
  the counterexample one strand has read an int and is about to store the
  incremented value when a parallel strand reads it (`increment_i` beside a
  read). With one access at a time this cannot happen: `alone` checks it and
  `OneAtATimeFindsRaces` proves it.
* `ReadersAreExtreme` fails with three readers at once (`MaxBusy = 3`): whether a
  reader is the leftmost one is decided before the spin lock is taken and not
  tested again under it.
* `RacesAreFound` fails for accesses of one or two bytes even one at a time, because
  `SIZE_TO_NUM_GRAINS` of such a size is 0: that is why `OneAtATimeFindsRaces`
  assumes `WideAccesses`.

## 6. `Pipeline` and `PiperPipe`: how the loop is scheduled

### `Pipeline`

The promise of a `pipe_while` loop: iteration `i` starts after iteration `i - 1` has
left stage 0, at most `Window` iterations are under way, and a stage wait at stage `s`
is passed when the left neighbour is beyond `s`. Iteration 0 is the sentinel of
`piper_sched.cpp`. `Start` needs only that iteration `i - Window` has ended its last
user stage: the block is set up again while its old iteration is in its cleanup.

### `PiperPipe`: state and actions

The control frame runs `pipe_while`'s loop; `cpc` is its place. Iteration `i` uses
block `i % K` of the ring; `pc[b]` is the place of the code that runs in block `b`.
`frame_ff` and `next_frame_ff` are the full frame a worker runs and the one it runs
next; `parent_resume` and `iter_ff_on_top` are the two parts of `implicit_deque_flags`.

| `cpc` | place in the code |
|---|---|
| `loop` | the loop's head, `__cilkrts_piper_init_iter_frame` |
| `body` | an iteration runs on top of the control frame |
| `throttle`, `slow`, `setup` | `__cilkrts_piper_throttle`, its slow path, the set-up of the next block |
| `sync`, `cleanup`, `done` | the sync at the end, the freeing of the ring |

| `pc` | place in the code |
|---|---|
| `test` | the condition of the loop, in stage 0 |
| `user`, `last` | user stages; only the final wait is left |
| `wait`, `stall` | `CILK_STAGE_WAIT`'s inlined test, the loop of `__cilkrts_piper_stage_wait` |
| `promote`, `suspend`, `suspending`, `asleep` | promotion of one's own iteration, `piper_try_suspend_at_stage_wait`, `piper_try_resume_next_iter_on_suspend`, suspended |
| `final`, `leave` | the last stage is over, `__cilkrts_leave_frame` |
| `attached_done`, `attached_left`, `attached_own` | `piper_leave_iter_frame_attached_exit` |
| `return` | `do_return_from_spawn` |
| `free_left`, `stage_done`, `check_right`, `free_own` | `piper_finish_iter_and_get_next` |

`Stealable`, `StealControl` and `StealImplicitly` are what a thief can do: take the
control frame from below a running iteration, or what the flags say is implicitly on
a deque. A lock held within one step is no variable; those held from one step to the
next follow from `pc` (`HoldsWorkerLock`, `BlockLocked`, `ControlLocked`).

### Abstractions

* Stages are 0 to `MaxStage` and three system stages behind them.
* An iteration body does not spawn, call a function with a full frame of its own, or
  contain another pipeline. `__cilkrts_piper_iter_helper_demotion` (a stage 0 that
  spawns), simulated steals and the replay log are left out.
* A read of a neighbour's stage is one step, as is a store of the own one. The inlined
  test and the slow path read separately.

### Runs

| Run | Instance | Checks | Result |
|---|---|---|---|
| `pipe_three` | 3 workers, `K = 3`, up to 4 iterations, 2 user stages | nine invariants, liveness `PipelineCompletes`, refinement `ImplementsPipeline` | holds |

Bounds. A middle iteration with suspended neighbours on both sides, and a control frame
that moves at the same time, take three workers; a stage that is skipped takes two user
stages. `K = 3` is the smallest ring in which the left and the right neighbour are
different blocks. The ring is used a second time from iteration `K` on: the fourth
iteration gets a block whose right neighbour is still at work. As many workers as blocks
are needed for `NoLockRing`: with fewer nobody could hold them all. All but the liveness
is also proved for every instance (section 9). Before they were, TLC found the invariants
to hold with one user stage for five iterations in a ring of four blocks, and `NoLockRing`
for up to six iterations as well as for four workers and four blocks.

Fairness. Each worker that has a step of its own keeps taking steps: workers are OS
threads and their loops do not give up. Nothing is assumed of thieves, so
`PipelineCompletes` says that no progress depends on someone stealing. The user code
is assumed to end its stages.

### What the runs show

* `NoLockRing`: `piper_try_resume_next_iter_on_suspend` and
  `piper_finish_iter_and_get_next` take the lock of the right block while they hold
  that of their own, so the blocks could all be held by workers that wait for the next
  one around the ring; nothing asks for a throttle limit above the number of workers.
  It does not come to that. In a ring every block is in use, the newest iteration
  included, and its block was given free by the iteration to the right, the oldest. So
  the oldest one is ending. It holds the control frame's lock (`do_return_from_spawn`)
  from before it freed that block, and the newest iteration has to be stolen from, or
  promoted (`piper_sched_promote_rightmost_iter`), before it suspends: both take that
  lock. Without it in `Promote` TLC finds the ring.
* `FlagMatchesControl` answers the question in `piper_sched.cpp:817` ("Is this case even
  possible?"): a thief that finds the throttle flag always finds the control frame
  suspended.
* `ControlHeldOnce` answers the FIXME of `piper_sched.cpp:1071`: there is never more than
  one worker with a parent flag.
* `SuspendTakesOwnControl`: a worker that suspends an iteration takes the control frame
  without asking what it waits for; it never holds the throttle flag then.
* `CounterProtocol` says what each value of `cleanup_counter` stands for, at any
  moment, and `LeftNeighbourStays` that a block is not reused while its right
  neighbour still needs it.

## 7. `PipeOrders`: the orders of a pipeline

### State and actions

`PipeOrders` composes the loop (`Loop`, an instance of `Pipeline` with the window of
the scheduler, `throttleLimit - 1`) with the detector's part. Every strand `<<i, s>>`
inserts two nodes into each order behind the ones its frame names: that of its parent
stage and that of the stage it depends on in the iteration before. `english` and `hebrew`
are the orders as sequences of nodes. `slot`, `head` and `tail` are the ring of lists;
`elems[i]` and `length[i]` the list of iteration `i`. `before` is the dag, kept as
history.

| Action | Code |
|---|---|
| `cilkStageFirst` | the function of that name |
| `CilkStage`, `CilkStageWait`, `PassStageWait` | the macros: the stage counter first, then the detector |
| `ReadLength`, `Look`, `LookNoFurther` | `getLeftDependency`, entry by entry |
| `CreateOrder` | the rest of `cilkStage` and `cilkStageWait` |
| `RaiseTop`, `StoreElement` | `append`: the counter and the element, in either order |

`append` is `p[++top] = element` without a barrier, so the reader of the left list may see
a length whose last frame is not stored yet; then the entry reads as anything (`Read`),
each of the three comparisons of the loop on its own. `halfRead` records that.

### Run

`pipe_orders` (about half a million states): throttle limit 3, five iterations, of which
two enter any stages out of three with or without wait, one skips a stage, and two only
make the ring wrap (four slots). `OrdersMatchDag` compares the two orders with
reachability in the dag, for all pairs of strands placed so far; `ListsStay` says that a
list is not deleted while it is searched, and that `insertStageFrameList` and `getIndex`
mean the same slot. Both are proved for every instance (section 9). The run ends with the
loop; deadlock is not checked.

`OrdersMatchDag` is stated for executions in which no frame was read before it was
stored. Without `~halfRead =>` TLC finds one in which a strand is put behind a stage
that is parallel to it, so that a race between the two could be hidden. Nothing unusual
is needed for such a read: in `p[++top] = element` the counter `top` is volatile and
raised first, and the element is copied behind it, so on x86 as well a reader that comes
between the two stores sees the longer list. The result, and its proof, therefore hold
outside that window, for frames that were stored when they were read; inside it the code
gives no guarantee (and no line of it claims one).

Left out: `ExtendList` (lists hold 100 frames; `MaxStage` is below that), the
watermarks of the stacks, and the creation and deletion of both orders around a loop.

## 8. `Deque`: the THE protocol

### State and actions

One worker's deque with its owner and any number of thieves. `head`, `tail` and `exc`
are the three indices, `ltq` the slots, `frame_ff` whether the deque has a full frame.
`buffer` is the owner's store buffer: `Commit` takes the oldest store to memory, and a
fence or a locked instruction waits for it to be empty. `calls` is the owner's stack,
the history with which `ImplementsQueue` compares.

| Action | Code |
|---|---|
| `Push`; `UndoDetach`, `UndoFence`, `TestExc` | `__cilkrts_detach`; `__cilkrts_undo_detach` |
| `SetFlag`, `Acquire`, `Unlock`, `ClearFlag` | `__cilkrts_worker_lock`, `__cilkrts_worker_unlock` |
| `ResetExc`, `Orphaned`, `NotStolen` | `__cilkrts_c_THE_exception_check` |
| `Sync`, `GiveUpFrame`, `DealWithFrame` | `__cilkrts_c_sync`, `run_scheduling_stack_fcn`, `do_sync` |
| `FindFrame`, `Setup` | the scheduling loop, `finish_setup_for_execution` |
| `QuickCheck`, `FindNothing` | `can_steal_from` without a lock |
| `Contend`, `Peek`, `TryLock`, `UnlockOther` | `worker_trylock_other`, `worker_unlock_other` |
| `IncrementE`, `Look`, `Retreat`, `Detach`, `Mismatch` | `dekker_protocol`, `detach_for_steal`, the test against a replay log |

### Abstractions

* Total store order, as on x86. The thieves' stores are between locked instructions and
  need no buffer.
* `protected_tail` stays `ltq_limit`, as with `DISABLE_PARALLEL_REDUCERS` 0.
* A frame is a number; what a thief does with it afterwards is not modelled, nor call
  descendants, `__cilkrts_promote_own_deque` and the second deque of a worker (the
  batch deque), which uses the same functions.

### Run

`deque`: two thieves, three slots (1024 in the build), three spawns. Two thieves are
needed for one to be between `Peek` and `TryLock` while the other takes the lock; three
spawns fill the deque, and a full frame can end and be replaced meanwhile. Checked:
`AtMostOnePasses`, `ExcFollowsHead`, `EmptyIsLeftAlone`, liveness
`OwnerGoesOn` and the refinement `ImplementsQueue`. TLC's deadlock check says nothing
here, because a thief that finds nothing stutters; `OwnerGoesOn` covers it.

Fairness: stores reach memory, an owner inside a return, sync or set-up and a thief
inside a steal go on. Nothing is assumed about who gets a lock, so `OwnerGoesOn` is
where `do_not_steal` earns its place.


## 9. Proofs

Eight modules hold the theorems; those PROJECT.json lists are named here. The type
invariants of `PiperPipe` and `Deque` are proved and need no run of their own. Every theorem
holds for all values of the constants under the named assumptions of the module it is
about, which TLC evaluates in the runs.

### `OMBatch_proofs`

Assumptions: `PAssumption`, `ListAssumption`, `GapAssumption`, `BoundAssumption`.

* `TypeCorrect`: `Spec => []TypeOK`.
* `InsertsAvoidBatches`: `Spec => []NoInsertDuringBatch`.
* `QueriesAreConsistent`: `Spec => []AcceptedQueriesAreConsistent`.
* `OwnerAloneIsSafe`, under `~CanSteal`: `Spec => []RelabelExcludesInserts`.
* `NoHeavyListIsLost`, under `~CanSteal`: `Spec => []HeavyListsAreQueued`.
* `BatchesAnswerAll`, under `~CanSteal`: `Spec => []BatchCoversFailedInserts`.
* `RelabelIsIndivisible`, under `~CanSteal`: `Spec => RelabelIsAtomic`, the refinement of
  `OrderLists`.

With thieves an owner may leave before its batch has ended (run `early_exit`), so the
four results that assume `~CanSteal` are not promised then. Seven more, with any number
of thieves, say what it takes:

* `CurrentOwnerIsSafe`: `Spec /\ []OwnerIsCurrent => []RelabelExcludesInserts`.
* `CurrentOwnerKeepsLists`, the same for `InsertFindsListWhole`, which `early_exit`
  finds violated.
* `CurrentOwnerLosesNoList`, the same for `HeavyListsAreQueued`.
* `CurrentOwnerAnswersAll`, the same for `BatchCoversFailedInserts`.
* `CurrentOwnerIsAtomic`: `Spec /\ []OwnerIsCurrent => RelabelIsAtomic`.
* `NextOwnerMeetsNoBatch`: `Spec => CurrentOwnerOutlastsBatch`, which is
  `[]OwnerIsCurrent => []LockHeldAtEndOnly`: the `batch_lock` a next owner finds held is
  that of a worker between the first and the last store of `terminate_batch`.
* `FrameIsTaken`: `Spec => CurrentWorkersTakeFrame`, which is
  `[]OwnerIsCurrent /\ []ThiefIsCurrent => []NoFrameLeftBehind`.

`OwnerIsCurrent` says that a worker about to begin a relabel does not have the id of an
earlier batch, `ThiefIsCurrent` the same of who runs the continuation. The code ensures
neither, so they are hypotheses about executions, which `helpers` meets because its
instance has one batch. On two workers with four inserts each TLC finds executions with and
without them, and checked the invariants below on all those that meet them before they
were proved.

The inductive invariant `Inv` is the conjunction of `TypeOK` and the first three of
these; each has a lemma for its step:

* `LockInv` (`LockStep`): who is inside a lock's region holds the lock; the
  owner of the batch holds the mutexes below `cursor` while locking, those from
  `cursor` on while unlocking, and all between. `NoInsertDuringBatch` is not
  inductive: it follows from "the batch has an owner and the owner holds all
  mutexes", which needs the progress of the two loops.
* `FrameInv` (`FrameStep`): at most one frame of `batch_relabel` lives, its
  pieces are run by the workers `running` and `next_frame` name, and
  `relabel_id` is odd exactly while it lives. This holds even when an owner
  leaves too early, because `SetNextBatchOwner` needs `batch_lock`, which only
  `terminate_batch` releases.
* `QueryInv` (`QueryStep`): while `relabel_id` still is the even number the query
  read, nothing was torn and no version changed since.
* `SerialInv` (`SerialStep`), under `~CanSteal`: the worker that runs the frame
  is the owner of the batch, so `terminate_batch` is over before it leaves.
* `StayInv` (`StayStep`), under `[]OwnerIsCurrent`: the owner stays in its batch while the
  frame lives, whoever has it, because neither test of `execute_batch` lets it go: the
  pending id is not past its own (`OwnerStays`) and the owner field is set
  (`OwnerIsNamed`). Both change only in `terminate_batch`, which comes after the frame.
* `LeaveInv` (`LeaveStep`), beside `StayInv`: `batch_lock` is held only for a worker that
  is somewhere in the batch (`LockIsUsed`), and who is about to publish the end of the
  batch has its owner still inside (`OwnerAwaitsId`). A worker at `SetNextBatchOwner` has
  `g_relabel_mutex`, so the owner has left; what is left of a batch that holds the lock
  is the end of `terminate_batch`.
* `FrameIsFetched` (`FetchStep`): likewise, who is given the frame at the sync comes to
  `pop_next_frame` before it can leave. If that is the child, it is the owner
  (`OwnerBegins`).

The invariant for the queues is `QueueInv`. It holds in every execution with
`[]RelabelExcludesInserts` (`QueueHolds`), with or without thieves; besides
`HeavyListsAreQueued` it says that a list is in the queue of its own order (`QueuedHere`),
that what is torn is the whole queue (`TornIsQueue`: nothing was added behind a relabel
under way), and that an insert which failed keeps its list heavy until there is room again
(`FailedIsKept`) and its worker in the batch (`FailedWaits`). A heavy list is then added
only while no relabel runs. The refinement maps every step to a step or a stutter of
`OrderLists`; `Rebuild`, which puts the new lists of one order in place, is the abstract
relabel.

### `AccessHistory_proofs`

For every number of strands, every `MaxBusy` and every set of programs that meets
`ProgramAssumption`:

* `TypeCorrect`: `Spec => []TypeOK`; no index leaves the block.
* `EntriesStayWhole`: `Spec => []EntriesAreWhole`.
* `NoFalseAlarms`: `Spec => []NoFalseAlarm`. `races_with` reads the two nodes of
  an entry without its lock, so it may compare a strand `s` with the english
  node of one access and the hebrew node of another.
* `RecordedIsKept`: `Spec => []AccessesAreKept`. Whatever the interleaving of lookups,
  installs, comparisons and stores, the entry an access has to be found by is there
  and is not older than the access.

The inductive invariant `Inv` says, part by part: a strand begins when those
before it have ended (`DagOrder`); nobody walks before there is a list
(`Unlisted`); a walk is on its grains (`OnItsGrains`); a lock is held exactly
during the two stores (`LocksHeld`); the two nodes of an entry come from strands
that touched the grain and differ only in the entry under the lock
(`EntriesTouched`). `NoFalseAlarm` is not inductive: `s` may itself be the owner
of the english or of the hebrew node it compares with, and then "the orders
disagree" says nothing of the other one. `NodesCompared` settles this case: the
other node then belongs to a strand that stored while `s` was busy, hence to a
parallel one (`BusyParallel`). In all other cases a node that is after `s` in one
order belongs to a strand that has begun while `s` is busy, so `s` does not
precede it, and the comparison in the other order shows that it does not precede
`s`.

`AccessesAreKept` speaks of strands that are idle, but an entry has to stand for an
access from the moment the walk leaves the grain, while the strand goes on to other
grains and arrays (`Recorded`). `Represented` says so, and also what a strand has
learned between its two comparisons: if the node it compared with first is not before
it, then neither is the one the entry holds now. Both survive a store by another strand:
what precedes a strand in the dag has ended when that strand begins, so a strand that is
busy now does not precede one that has begun (`BusyNotBefore`), and an entry is replaced
by busy strands only. `NotBegun` covers the start: what `insert` of the shadow memory
publishes is an empty history, and a walk begins only after that, so nothing was
recorded in a history that is thrown away.

### `AccessHistory_serial_proofs`

One writer and two readers per grain are the whole history, and each new access
replaces them. That this is enough is the central claim of the detector's shadow
memory. It is proved for accesses made one at a time (`MaxBusy = 1`), for any dag that
two orders describe; the run `missed` shows that it is false for two at once.

* `ReadersStandForAll`: `MaxBusy = 1` implies `Spec => []ReadersAreExtreme`.
* `OneAtATimeFindsRaces`: `MaxBusy = 1` and `WideAccesses` (no access smaller than a
  grain) imply `Spec => []RacesAreFound`.

The argument needs to know which accesses have been compared with and stored in each
of the three arrays: `Seen`. `EntryStandsForAll` says that the entry of a grain stands
for all of them, the writer by precedence (as long as no race was found on the grain),
the left reader by the hebrew order, the right reader by the english one. Precedence
and both orders are transitive, so a strand that replaces the entry stands for all the
entry stood for (`StorerStandsForAll`, which carries this over the two stores). A write
compares itself with the left reader and finds itself behind all readers in the hebrew
order (`LeftIsChecked`), then with the right reader, which gives the english one: so no
reader is parallel to it unless a race is reported (`ReadersInOrder`,
`WritersInOrder`). The lemma `TurnKeeps` does the step from one grain to the next once
for all three arrays.

### `Labels_proofs`

* `LabelBetween`: `get_new_label` returns 0 exactly for adjacent neighbours; otherwise
  the label is strictly between them and leaves half the room on each side, for every
  width of a label. This is the halving `gap` counts in `OMBatch`.
* `LabelAtEnd`: behind the last node the sum wraps only for `MAX_LABEL` itself, so an
  append never sorts before the list.

### `Pipeline_proofs`

Assumption: `PipelineAssumption`. `PipelineTypes`, `SerialEntry` (`StageZeroInOrder`),
`SerialExit` (`FinishInOrder`) and `Throttled` (`WithinWindow`). The invariant adds
that an iteration is behind its last wait only behind its left neighbour
(`BehindLeft`) and that whatever is a window behind an iteration that exists is over
(`WindowOver`), although `Start` looks at one iteration. The runs `pipe_three` and
`pipe_orders` connect these theorems with the code: the first checks that the scheduler
implements `Pipeline` (`ImplementsPipeline`), the second runs on its steps. Both
connections are also proved: `RefinesPipeline` for the scheduler, and `PipeOrders_proofs`
uses the invariant of this module for the loop below the detector.

### `PiperPipe_proofs`

For any set of workers with a leader, any ring of at least two blocks and any number of
iterations and stages (`WorkersAssumption`, `RingAssumption`, `BoundAssumption`), and for
any interleaving of thieves, suspensions and resumptions:

* `PiperTypes`: `Spec => []TypeOK`.
* `CleanupCounters`: `Spec => []CounterProtocol`.
* `BlocksReusedInTime`: `Spec => []LeftNeighbourStays`.
* `CacheIsSafe`: `Spec => []CachedStageIsOld`.
* `WakeUpsKept`: `Spec => []NoLostWakeUp`.
* `ControlIsHeld`: `Spec => []ControlHeldOnce`.
* `FlagsTellTruth`: `Spec => []FlagMatchesControl`.
* `SuspendIsSafe`: `Spec => []SuspendTakesOwnControl`.
* `PiperAssertions`: `Spec => []AssertionsHold`, the assertions of `piper_sched.cpp` on
  the paths that are modelled.
* `RefinesPipeline`: `Spec => ImplementsPipeline`, the refinement of `Pipeline` with
  the window `K - 1`.

* `NoRingOfLocks`: `Spec => []NoLockRing`, for any number of workers and any throttle
  limit, also one below the number of workers.

All of them follow from one inductive invariant, `IInv`; `NoRingOfLocks` takes a second
one beside it. None of the properties is
inductive by itself, since each step decides about a block from what it reads of another
block, of a counter or of a flag:

| Parts | What they say |
|---|---|
| `Types`, `Flags`, `Bounds` | types; the bounds of the model follow from the loop's condition |
| `Numbers`, `Counters`, `BlockStatuses`, `IdleStages` | a block holds the iteration it is reserved for (`Reserved`, the one number modulo `K` in the current window); `cleanup_counter` is the sum of what the owner, the right neighbour and the throttled control frame still owe; a block nobody needs shows a finished iteration |
| `Places`, `IterStatuses`, `InUse`, `PlaceStages` | which `pc`, status and stage go together, and that the next block is done with its left neighbour before it is set up again |
| `OneHolder`, `Holdings`, `Held` | a full frame is held by at most one worker, and one that runs or is to be resumed by exactly one |
| `ControlOnce`, `ControlPlace`, `FullFrame`, `Joins` | the control frame is run, is next or is promised by a parent flag at one worker only; when it is throttled, the one who frees its block gets the flag; the join counter counts the frames alive |
| `BehindLeft`, `CachedStageIsOld` | an iteration passes its last wait only behind its left neighbour; the cached stage never exceeds the real one |
| `ThrottleFlag`, `SuspendTakesOwnControl`, `NoLostWakeUp` | a worker that owes the control frame a wake-up does not suspend, and a suspended iteration whose left neighbour went past has someone who will test it |

Three connections carry the proof. A counter that is exactly the sum of what is to come
(`Counters`) reaches 0 in the step of one party only, which is why the control frame is
resumed once (`ControlOnce`). A suspended iteration that may go on is still to be found by
the worker of its left neighbour (`NoLostWakeUp`): `Held` gives that worker, and
`PlaceStages` tells that it has not come past the place where it looks to its right. And
`ThrottleFlag` is what makes `SuspendTakesOwnControl` inductive: a worker gets the
throttle flag when it has freed a block, and from there to the point where it gives the
flag back it runs only an iteration that need not wait.

For `NoRingOfLocks` the second invariant is `RingInv` (lemmas `LeftRests`, `RingStep`):
at most one iteration is between its return and the end of
`piper_finish_iter_and_get_next` (`OneFinisher`, by the control frame's lock), and when it
has freed its left block, that block is idle, on top of the control frame, or past its
last stage and waiting for the control frame's lock itself (`FreedLeft`). In a ring the
block the control frame comes to next belongs to the oldest iteration, which has freed
its left block (`Places` of `IInv`); by `FreedLeft` that one is not in the ring.

For the refinement `StageOf` and `WaitsAt` read the abstract stages off the ring. One more
fact is needed, `Reused`: a block that waits for its next iteration still shows a
finished one. Each action then maps to one step of `Pipeline` or leaves the abstract
state alone (lemma `Unmoved`). Together with `Pipeline_proofs` this gives `SerialEntry`,
`SerialExit` and `Throttled` for the scheduler.

### `PipeOrders_proofs`

For every throttle limit, any number of iterations and stages, and every choice of
stages and waits:

* `ListsAreKept`: `Spec => []ListsStay`.
* `OrdersAreDag`: `Spec => []OrdersMatchDag`.

For `ListsAreKept`: the slot of a list is computed in two ways: `insertStageFrameList`
counts up from the head, `getIndex` takes the iteration number modulo the number of slots.
The invariant says where each iteration is in the detector and in the loop (`Places`),
that lists come into being in the order of the iterations (`Lists`) and that they take the
slots in turn, so that the two ways agree and the list deleted is that of the iteration
`NumSlots` before (`Turn`). The ring has two slots more than the window. That the
iteration whose list goes is over, and so is the next one, which may look into it, is
`WindowOver` of `Pipeline_proofs`, whose invariant `LoopStep` carries over to the
detector's steps.

`OrdersAreDag` is the reason why the detector may ask two orders instead of the dag. The
invariant `OrdersInv` (lemma `OrdersInductive`) holds until a frame is read that is not
stored. Its parts:

| Part | What it says |
|---|---|
| `Begun` | strands begin once, and the loop and the detector are where they are; `Created` are the strands that have their nodes |
| `Dag` | waiting is transitive; within an iteration a strand waits for all earlier stages; it waits for a strand of an earlier iteration only if that one's stage is over |
| `Frames` | a list holds the stages of the iteration's strands, rising, but for the one that is being appended |
| `Scans` | what `getLeftDependency` has passed are exactly the frames which the iteration's last strand waits for already; what it finds is the last frame there is to wait for |
| `Nodes` | a strand goes in behind a node of its own iteration or of a left neighbour it waits for, and no two behind the same hebrew node |
| `English` | the english order is by iteration, then by stage, and the next strand of each iteration belongs before all later iterations |
| `Hebrew` | of two strands the one of the earlier iteration comes first exactly if the other waits for it; a strand and its nodes are a bracket with only strands and nodes of later iterations inside |

No part is inductive alone. `English` and `Dag` give that what the dag puts first comes
first in the english order. For two strands of different iterations the hebrew order
decides: the later one was put behind the node of its left dependency, and the brackets
keep the rest of the earlier iteration on the right side of it. `Scans` says that this
left dependency is the one the dag has.

The orders are sequences and a step inserts two nodes somewhere in the middle. The proof
speaks of places: an insertion moves the places behind it by two (`TwoInserted`,
`Shift`), and `FitsEnglish` and `FitsHebrew` say where a new strand belongs. So no
induction over sequences is needed. The steps are first sorted into kinds that no longer
speak of slots (`Steps`): there `ListsAreKept` is used. TLC checked the invariant on
throttle limits 4 (three iterations, two stages) and 3 (three and three) before it was
proved.

### `Deque_proofs`

For any number of thieves, any `ltq_limit` and any number of spawns:

* `TypeCorrect`: `Spec => []TypeOK`.
* `OwnerWaitsForOne`: `Spec => []AtMostOnePasses`.
* `ExcIsExact`: `Spec => []ExcFollowsHead`.
* `NoTheftFromEmpty`: `Spec => []EmptyIsLeftAlone`.
* `RefinesWorkQueue`: `Spec => ImplementsQueue`, the refinement of `WorkQueue`.

The THE protocol works because of what is *not* yet in memory, so the inductive
invariant follows the owner's store buffer. `NoTailTooHigh`: no tail, in memory or on
its way there, shows thieves more frames than the owner's stack has, except between two
full frames, where it does not exceed `head`. `SlotsMatch`: a frame reaches its slot
before the tail that covers it. `BufferFits`: the fence has emptied the buffer where
the owner compares. `ExcExact`: `exc` is ahead of `head` exactly while a thief decides
under the lock. From these follows `TheftIsSafe`: what a thief is about to take is the
frame the owner's stack has at that place and the owner cannot return to it any more.
`LocksHeld` and `FlagSeen` carry the locks and the flag `do_not_steal`; `StackFits` and
`HeadOnStack` say where the stack is empty and `head` is within it.

### Only model-checked

* Liveness: `InsertsReturn`, `PipelineCompletes`, `OwnerGoesOn`. The proof system does
  not reason about fairness.
* `RelabelExcludesInserts` and what follows from it for executions with thieves and a
  stale id: false there. The same holds of `NoFrameLeftBehind`, even with a current owner,
  when a thief steals with an id of an earlier batch, and of `NextOwnerGetsBatchLock`
  as soon as there is a thief.
* `OMTree` (`OrderMaintained`, `TreeIsSound`, `NodeHasRoom`, `RetryFindsLabel`,
  `HeightBoundsTree`): `array` and `rebuild_recursive` are recursive, and what a recursive
  operator computes for every input is out of the proof system's reach.
* The three runs that end with a counterexample: `early_exit`, `next_owner`, `missed`.

## 10. Not modelled

* The general Batcher interface (`collect_batch`, `create_batch`, `call_batch`,
  `insert_batch_record`): `omrd.cpp` passes no record and bypasses it.
* The shadow stack and the strands made at spawns and syncs; the instrumentation glue.
* `signal_node.c`, by which workers wait between user code and scheduler.
* In the pipeline: iterations that spawn in stage 0 (demotion), call functions with
  frames of their own or contain pipelines; simulated steals; the replay log.
* In the order-maintenance structure: its creation and destruction, and printing.
* In the pipeline orders: `ExtendList` (more than 100 stages in one iteration) and the
  stack's high and low watermarks.
* In the shadow memory: `erase`.
* The pool of batch deques, fibers and stacks, frame allocation, reducers, exceptions,
  record and replay, start-up and shut-down, the system layer.
* Reports and statistics, the superseded variants of the tool, benchmarks and scripts.

Most lines of the repository are in this list: the reducer library and the runtime's
headers (twice, in `batched-piper` and `piper-rts`), two generations of the detector,
and the glue to system and compiler. So the lines the models map are
a small share of the repository, although they hold most of its protocols.

## 11. What is left

1. `signal_node`: its flag and semaphore, with the worker loop that uses them.
2. The shadow stack together with `PipeOrders`: spawns and syncs inside a stage.
3. Demotion of an iteration whose stage 0 spawns.

## 12. Running

    tlc -config OMBatch_serial.cfg       MCOMBatch
    tlc -config OMBatch_helpers.cfg      MCOMBatch
    tlc -config OMBatch_thieves.cfg      MCOMBatch
    tlc -config OMBatch_early_exit.cfg   MCOMBatch         # a counterexample
    tlc -config OMBatch_next_owner.cfg   MCOMBatch         # a counterexample
    tlc -config OMTree_hot_spot.cfg      MCOMTree
    tlc -config AccessHistory_alone.cfg     MCAccessHistory
    tlc -config AccessHistory_together.cfg  MCAccessHistory
    tlc -config AccessHistory_missed.cfg    MCAccessHistory  # a counterexample
    tlc -config PiperPipe_three.cfg      MCPiperPipe
    tlc -config PipeOrders_dag.cfg       MCPipeOrders
    tlc -config Deque_race.cfg           MCDeque

    tlapm OMBatch_proofs.tla
    tlapm AccessHistory_proofs.tla
    tlapm AccessHistory_serial_proofs.tla
    tlapm Labels_proofs.tla
    tlapm Pipeline_proofs.tla
    tlapm Deque_proofs.tla
    tlapm PiperPipe_proofs.tla
    tlapm PipeOrders_proofs.tla
