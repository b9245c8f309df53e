# TLA+ models of shore-kits' concurrent core

This directory holds TLA+ specifications of the concurrent parts of
shore-kits (`src/`), the TLC configurations that check them, and this
account of what they show. `PROJECT.json` lists the components, the runs,
the mapping from every model definition to the source lines it translates,
the findings and the hazards.

## The system

`spec.md` names three interlocking subsystems and the primitives under them:

| Part | Source | Threads | Shared state |
|------|--------|---------|--------------|
| Tuple-FIFO (QPipe) | `src/src/core/tuple_fifo.cpp` | one writer operator, one reader operator | page list, write/read page, page indices, temp file, state machine, two condition variables under one mutex |
| Log flusher | `src/src/sm/shore/shore_flusher.cpp` | worker threads submit, one flusher thread | `toflush` / `flushing` queues, durable LSN of the log |
| Countdown latch | `src/src/util/countdown.cpp` | every partition worker finishing an action | one atomic word |
| Notifier | `src/include/engine/thread.h` (`notify_t`) | one waiter, any notifier | notified / cancelled flags |
| DORA routing of TPC-B's account update | `src/src/dora/tpcb/dora_tpcb_xct.cpp` | the driver, one worker per partition | partition queues, their locks, the RVP's countdown |
| Spin and queue locks | `src/src/tests/test_clh_lock.cpp` | the threads of each test, one test after another | lock words, queue nodes |
| TPC-H Q14 and `decimal` | `src/src/workload/tpch/drivers/tpch_q14.cpp`, `src/include/util/decimal.h` | the aggregate stage, one row at a time | the one group's `PROMO_SUM`, `TOTAL_SUM` |

How they interact: a DORA driver splits a transaction into actions and
pushes each onto the queue of the partition that owns its key. Partition
workers run actions and post to the transaction's countdown latch. The post
that brings it to zero runs the commit, which hands a commit request to the
log flusher. The flusher syncs the log and wakes the worker through a
notifier. QPipe query operators are linked by tuple-FIFOs. A FIFO shared
between merged pipelines spills to a temporary file when its page list is
full.

Out of scope (scaffolding per `spec.md` section 1, or pure data/I-O): the TPC-B/C/E/H
drivers, schemas and loaders, the shell, statistics printing, the legacy
`tuple_buffer_t` in `include/engine/core/tuple.h`, and the
declarations-only `resource_pool.h`. These parts have no concurrent state or
control for a model to check beyond what the modules below cover. The one
exception is TPC-H Q14, the only code under `src/` that uses `decimal`. Its
answer depends on `decimal`'s rounding, so `TpchQ14` models it on top of
`Decimal`.

## Modules

### `TupleFifo` — the tuple-FIFO (`tuple_fifo.cpp`)

The FIFO has one writer thread and one reader thread. Each critical section
under `_lock` is one atomic step. A `thread_cond_wait` splits a method in
two: a thread that waits goes to `"wait"` with a waiting flag raised, and
`ensure_*_running()` (a `thread_cond_signal`) clears the flag. A signal
sent when nobody waits is lost, as in the code. Spurious wake-ups are not
modelled: a woken thread re-tests its loop condition, so allowing them would
add stutter and nothing else.

The data is abstracted. Tuples are numbered in the order they are put. A
page is a record `[first, n]`: its first tuple and its tuple count. The
temporary file is a sequence of page slots that grows and never shrinks,
as a file does when it is overwritten from offset 0. `size_t` indices are
kept, with `(size_t)-1` as the constant `NoIdx`, larger than every real
index, so the code's unsigned range tests (`page_in_list`, `overwrite`)
mean the same thing here.

| Code | Model |
|------|-------|
| `_state`, `_pages`, `_available_fifo_reads`, `_list_*`, `_file_*`, `_write_page_index`, `_next_read_page_index`, `_read_page`, `_is_shared` | `fstate`, `pages`, `afr`, `listHead/listTail`, `fileHead/fileTail`, `writeIdx`, `nextRead`, `readPage`, `shared` |
| `put_tuple` (header, not in `src/`), `send_eof` | `PutTuple`, `SendEof` |
| `_flush_write_page`: wait loops, add to list, create file, overwrite/append | `MustWait`, `FlushOrWait`, `AddToList`, `FirstSpill`, `Respill`, `FlushBody` |
| `wait_for_reader` returning | `WriterWakes` |
| `terminate` (either side), `set_shared` | `Terminate(self)`, `SetShared` |
| `_get_read_page`: wait loop, special cases, list read, file read | `GetReadPage(mode)`, `ReaderWakes`, `ReaderTimesOut`, `Deliver`, `ReadFromList`, `ReadFromDisk` |
| `TerminatedBufferException` from `_termination_check` | `WriterThrows`, `ReaderThrows` |
| `_free_pages`, the read page's buffer and `_add_read_page_to_free_list` | `nfree`, `readBuf` (`"none"` for the sentinel, `"list"`, `"own"`) |
| `_alloc_page`, the write page after a flush, a spill's list pages | `Alloc`, `NextWritePage`, `SpillBuffers` |
| the read page handed back at the start of `_get_read_page`, the buffer a file read uses | `ReleaseReadBuf`, `DiskBuffer` |
| who deletes the FIFO (comments of `send_eof`, `terminate`), `destroy` | `WriterLeaves`, `ReaderLeaves`, `TerminateFails`, `duty`, `Destroy(t)` |

The reader's call modes are `ReadModes`:
- `"block"`: `timeout_ms == 0`;
- `"timed"`: `> 0`, where the timer may expire at any point of the wait;
- `"poll"`: `< 0`.

History variables `produced`, `received` and `written` record the tuples
put, the tuples handed to the reader and the pages handed to the FIFO.
`live` counts the page buffers allocated and not yet freed, and `deleters`
the threads that have called `destroy()`.

`_alloc_page()` is in `tuple_fifo.h`, which is not in the repository. The
model takes the behaviour `_get_read_page` relies on at lines 896-901: a
buffer comes from `_free_pages` when it has one, otherwise from `malloc`.

Deletion follows the contract in the comments of `send_eof()` and
`terminate()`. The reader deletes the FIFO after EOF. A thread that
`TerminatedBufferException` ends deletes it. So does a thread that
`terminate()` returns false to. A thread that `send_eof()` or `terminate()`
returns true to must not touch the FIFO again. `destroy()` frees the
buffers of `_pages` and `_free_pages` without emptying either list. The
page guards free the write and read pages with the object.

Policy flags are CONSTANTS: `FlushToDiskOnFull` is `FLUSH_TO_DISK_ON_FULL`,
`WaitForUnsharedToDrain` is `WAIT_FOR_UNSHARED_TUPLE_FIFOS_TO_DRAIN`. The
shipped build has both TRUE (`tuple_fifo.cpp:24-26`). The memory-only policy
is checked too, since the spec makes the flags configuration.

Properties:
- `PendingPagesLocated`: every page written and not yet read sits where the
  reader will look for it. Pages in the list range are at their offset in
  `pages`. Pages in the file range are at slot `i - fileHead`.
- `ReadsInOrder` (action): each page the reader is handed starts at the
  first tuple it has not yet received.
- `PipeRefined`: the FIFO implements `TuplePipe`, the pipe of `spec.md`
  4.4 with pages and buffers abstracted away. The mapping sends `put` to
  `produced` and `got` to `received`, `closed` to the done-writing states
  and `term` to the terminated states. Each thread's end is its `"eof"` or
  `"term"`. Every step of the FIFO is then a step of the pipe or a stutter:
  the reader is handed the next tuples in order, is told EOF only after
  `send_eof()` and once every tuple was read, and sees `Terminated` only
  after a `terminate()`. The pipe's fairness (neither side stalls while it
  can go on) holds too. It is checked in `fifo_memory`. Under the spill
  policy it fails at the EOF of finding 1.
- `NoLossAtEof`: when the reader reports EOF it has received every tuple
  the writer put.
- `AvailableReadsSound`: `_available_fifo_reads` never counts more pages
  than are written and unread. If it did, the reader would read past the
  data.
- `IndexOrder`: file range before list range, read index inside
  `[fileHead, writeIdx]`, and the list range exactly as long as the list.
- `ValidTransitions` (action): every change of `_state` is one allowed by
  `_transition_ok` (`tuple_fifo.cpp:982-1000`). A method that changes it
  twice in one critical section must pass through a legal intermediate.
- `BuffersAccounted`: every buffer allocated and not freed is held in
  exactly one place: the list, `_free_pages`, the write page or the read
  page. A double push of the read page onto `_free_pages`, which
  `destroy()` would free twice, breaks it. So does a buffer lost in a
  spill.
- `BuffersBounded`: at most `Capacity + 2` buffers exist. `_free_pages` is
  never trimmed, so this holds only if every allocation, the writer's and
  the reader's, reuses a free buffer first. TLC reaches the bound.
- `DeletedOnce`: exactly one thread calls `destroy()`, and only once both
  have stopped using the FIFO. This holds whatever the interleaving of
  `terminate()`, `send_eof()` and a read at EOF.
- `Termination` (liveness): both threads end, with EOF or termination, and
  the thread left with the FIFO deletes it.

Fairness: weak fairness on the writer's progress operations (`PutTuple`,
`SendEof`, `WriterWakes`) and on the reader's (`GetReadPage`, `ReaderWakes`,
`ReaderTimesOut`). These are OS threads that run whenever they are
runnable, and a timed wait's timer fires. `terminate()` and `set_shared()`
get no fairness. They are choices of the operator code, never obligations,
so `Termination` cannot be met by a thread just giving up. `Destroy(t)` has
weak fairness: the contract makes the deleting thread responsible for the
FIFO, and deleting it is that thread's next step.

### `TuplePipe` — what the tuple-FIFO promises (`spec.md` 4.4)

This abstract spec has no pages, buffers or waits. `Put` and `SendEof` are
the producer's operations. `Get(k)` hands the consumer the next `k` tuples
in order, and `ReadEof` tells it EOF once `send_eof()` succeeded and
nothing remains. `Terminate(side)` is a no-op once the other side
terminated or EOF was sent; either way the caller stops. `Fail(side)` is
the next operation after termination failing with `Terminated`.
`TupleFifo` instantiates it as `Pipe` with a refinement mapping, and
`PipeRefined` checks `Pipe!Spec`.

### `Flusher` — the staged group-commit flusher (`shore_flusher.cpp`)

Workers commit by writing a record at the end of the log (`curr`), pushing
a request carrying its LSN onto `_toflush` and calling `wait()` on its
notifier. Each worker has its own `notify_t`, composed in as
`N == INSTANCE Notifier`. The worker's state in `wait()` is `wpc`, and its
flags are `nflag` and `ncancel`. The flusher thread runs the loop of `_work_ACTIVE_impl`, one
queue operation or one log call per step. `durable` is the log's durable
LSN: a record at LSN `l` is durable once `durable > l`. The queues are
internally synchronised, so each push and pop is atomic.

| Code | Model |
|------|-------|
| loop test, `get_durable_lsn()` at the top of the loop | `LoopStart` |
| drain: `pop()`, the already-durable shortcut that notifies at once, parking on `_flushing` | `DrainPop` |
| `pop()` returning NULL after a sleep decision when told to stop | `DrainPopNull` |
| end of the drain loop | `DrainEnd` |
| flush triggers: group size, log size (`LogDiff`), timeout; else the lazy `sync_log()` and sleep | `Decide` |
| stop check, forced `sync_log()`, re-read of the durable LSN, notify loop over `_flushing` | `FlushAndNotify` |
| `_pre_STOP_impl`: notify both queues without a sync | `PreStop` |
| `notify_client()`: `notify()` on the worker's notifier | `NotifyAll` (`N!Notify`) |
| the worker's `wait()`: its flag test under the lock, and a spurious return of `pthread_cond_wait` | `WaitTest`, `WaitSpurious` |
| worker commit path, the log manager's own flushes, the clock, the controller (not in `src/`, from `spec.md` 4.5) | `Commit`, `LogFlushes`, `Tick`, `Stop` |

History: `notes[r]` counts the notifications request `r` received. `late`
holds the requests queued after `_pre_STOP_impl` has drained the queues.

Properties:
- `LoopNotifiesDurable`: until `_pre_STOP_impl` runs, a request is notified
  only once its commit record is durable (`NoEarlyNotify`). This covers the
  shortcut, the lazy sync, the forced sync, and a stop that arrives between
  the flush decision and the flush.
- `NotifiedOnce`: no request is notified twice. A request must never be on
  both queues, or stay on `_flushing` after the notify loop.
- `WakesOnlyWhenNotified`: a worker that has returned from `wait()` has had
  its last commit answered. This holds across spurious wakeups, which only
  the `while` retest absorbs. It also holds when a notification arrives
  before the worker blocks, and it rules out a stale flag from an earlier
  commit releasing a later `wait()`.
- `WorkersReturn` (liveness): a worker waiting on a commit that was queued
  before `_pre_STOP_impl` drains eventually returns from `wait()`. The
  flusher must answer the commit, including commits pushed after the stop
  request. `notify()` must also set the flag and signal the condition, so
  that no wakeup is lost whether the worker has blocked yet or not.

The stop path itself notifies whatever is left on both queues without a
sync (`shore_flusher.cpp:360-372`). `spec.md` section 4.5 asks for exactly
that ("notified (not synced)"), while section 8 says no request is notified
before it is durable. A worker woken at shutdown may therefore believe an
undurable commit durable. No property takes sides between the two readings.
A request pushed after the drain is never answered; whether a worker can
still commit then depends on the shutdown order, which is not in `src/`.

Fairness: weak fairness on the flusher thread, which is a dedicated
thread. A worker in `wait()` that is not blocked on the condition variable
also has weak fairness on its flag test (`WaitTest`). It only needs the
notifier's mutex, which every holder releases at once. Commits, the log
manager, the clock, the stop request and spurious wakeups get none, so no
property relies on them happening.

### `Notifier` — `notify_t` (`include/engine/thread.h`)

Each notifier has two flags, `_notified` and `_cancelled`, and one
condition variable under one mutex. Each method holds the mutex
throughout, so each is one step. The exception is `wait()`, which releases
the mutex inside `pthread_cond_wait`. `npc[o]` is where the owner stands:
`"idle"`, `"wait"` (about to test the flags under the lock) or `"blocked"`.

| Code | Model |
|------|-------|
| constructor: both flags false | `Init` |
| `wait()` takes the lock | `Call` |
| `wait_holding_lock()`: block while neither flag is set, else clear both and return | `Test` |
| `pthread_cond_wait` returning without a signal; the loop tests again | `Spurious` |
| `signal(val)`: set the flag, and `pthread_cond_signal` wakes the blocked owner | `Signal` |
| `notify()` / `cancel()` | `Notify`, `Cancel` |

Its properties are checked where it is used, in the `flusher` run. Nothing
under `src/` calls `cancel()`, so no run fires `Cancel`.

### `Countdown` and `CountdownLatch` — the RVP latch (`countdown.cpp`)

`CountdownLatch` is the abstract latch of `spec.md` section 3: one atomic
`post(is_error)` that returns `true` to exactly one caller, the one that
takes the count to zero or sets the error state. `Countdown` is the code:
- `Read`: `old_value = _state`.
- `CasStep`: one pass of the CAS loop. On success it returns `is_error`; on
  failure it retries with the value seen.
- `Last`: the last-caller path. It returns false after an error, else
  stores `0` or `ERROR` with a plain write and returns true.

Each poster posts once, with any mix of errors. `NUMBER` and `ERROR` are
constants, because `util/countdown.h` is missing. The model follows a
release build (asserts compiled out).

Properties:
- `ExactlyOneTerminal`: when every poster has returned, exactly one got
  `true`.
- `LatchRefined`: `Countdown` implements `CountdownLatch`, under the
  mapping `rem = _state / NUMBER` (0 once failed) and posted = the threads
  that returned. This is checked as `Latch!Spec` through
  `INSTANCE ... WITH`.
- `PostsReturn` (liveness): every post returns. The CAS loop cannot spin
  forever, because each failed CAS means another poster made progress.

### `DoraTpcb` — DORA's account update (`dora_tpcb_xct.cpp`)

`dora_acct_update` is modelled whole:
- `Begin`: begin, detach, create the final RVP (countdown of four) and the
  four actions.
- `Route`: `decide_part`. Branch and teller go by the home branch; account
  and history go by the account's branch.
- `TakeLock`: a `CRITICAL_SECTION` on a partition's `_enqueue_lock`. The
  branch lock is kept; the teller, account and history locks are exited at
  once, as in the code.
- `EnqRead` and `EnqWrite`: the enqueue.
- `Release`: the end of the block.

The partitions, their workers and the RVP callback are not in `src/` and
follow `spec.md` 4.6, 4.7 and 5:
- `Pop`: a worker takes the head of its queue.
- `Execute`: runs `trx_exec`, which may fail; posts to the RVP with
  `LatchPost` and `Terminal`, the atomic latch that `Countdown` refines;
  and on a terminal post runs commit or abort.

The spec says the enqueue lock protects the queue structure. A push made
without it therefore races other pushes. It is modelled as a read of the
tail and a later link. If another push was linked in between, the outcome
is a nondeterministic choice: both land, or the later writer's action is
lost. Pops are safe against a push (one worker per partition).

Properties:
- `ActionsRunAndFinish` (liveness): every action runs and every
  transaction's callback runs.

Fairness: weak fairness per driver and per partition worker. Both are
threads that run while they can.

### The locks of the lock test program (`test_clh_lock.cpp`)

Every statement that reads or writes shared memory is one step. Spin loops
are guards: a thread at a `while(x)` moves on once `x` is false. A retry
loop around a CAS is its successful pass, because a failed pass changes
nothing. Memory is sequentially consistent: the code orders its accesses
with `__sync_synchronize`, `membar_*` and atomic builtins. A queue node
(`qnode`) is named by the thread that owns it. Each thread reuses its node
in every iteration, as the test functions do.

- `QueueLock` is the abstract FIFO queue lock: join the queue, enter at the
  head, exit, leave.
- `McsLock` is `mcs_lock`:
  - `Swap` resets the node and swaps `_tail`;
  - `Link` and `Spin` finish `acquire`;
  - `ReadNext`, `CasTail` (the read of `_tail` with its CAS), `WaitNext`
    and `Signal` are `release`.

  The MCS lock refines `QueueLock`. The queue is read back from `_tail`
  along each waiter's local `pred` (`ChainTo`).
- `TatasRwLock` is `tatas::rwlock`. `_state` holds the writer bit and two
  per reader. The code's `READER`/`WRITER` arithmetic is kept.
- `McsRwLock` is `mcs_rwlock`, whole:
  - the writer path;
  - the reader path, with its wake-up of a reading successor;
  - `release_read`'s locking of its predecessor's node and its splice out
    of the middle of the queue;
  - the three uses of `try_fast_leave_queue` (`LeaveRead`, `LeaveCas`,
    `LeaveWait`).
- `LockTests` is `main()` running the MCS test. `main()` runs each
  registered test in rounds of k = 1, 2, ... threads (`NextRound`). It
  joins a round's threads before it creates the next, so only the global
  lock word carries over; the qnodes on the joined threads' stacks are
  gone. The model runs k = 1..3 once. The code runs k = 1..32, three times
  over, with `local_count` iterations per thread. The `clh_*` tests that
  come first use a header that is not in the repository, and they touch
  other locks. `main()` returns after the last round (`Finish`), so the
  final state has no successor and the run does not check deadlock.
  `TestsFinish` is the liveness property that catches a thread stuck in a
  round.
- The TATAS test is compiled out, so `main()` never runs it. The
  `tatas::rwlock` class is still checked in the same run, under its
  `TEST_RWLOCK` loop. Its threads start only after `main()` returns. That
  order belongs to the model, not to the code: the two parts share no
  state, and running them one after the other keeps their state spaces
  from multiplying.

The reader-writer tests are `TEST_RWLOCK`'s `_rwlock` variant. Iteration
`i` writes when `((i + offset) & 3) == 0`. `offset` comes from a
thread-local address, so the model lets it be any value mod 4.

Only the MCS test is enabled in the file. The TATAS test is under `#if 0`,
marked "broken", and so are the `mcs_rwlock` and `fast_rwlock` tests. The
TATAS lock still excludes in the model: whatever made the test "broken" is
not a loss of exclusion under sequential consistency.

`FastRwLock` is `fast_rwlock`, whole:
- the fast paths of both acquires, each of up to three CASes on the halves
  of `_state`;
- the CLH queue, in which qnodes change hands (`me` is the qnode a thread
  holds; the lock's initial tail is the model value `Dummy`);
- the head's staking of its claim in the halves.

A 32-bit half is kept as the integer congruent to it mod 2^32 that is
nearest zero. The code only adds small amounts and compares with zero, with
each other or by the low bit, and that representation gets all of these
exactly. `StakeHitsWriters` selects the GCC build on a little-endian
machine, where a queued reader's `__sync_fetch_and_add(&_state, 1)` lands
on `_writers`. The uninitialised `cur_writer` of line 410 is `Uninit`,
which may equal any value of `_writers`.

Properties (run `lock_tests`):
- `McsMutualExclusion`: no two threads are in the MCS lock's critical
  section at once.
- `McsFifo`: `McsLock` implements `QueueLock` (`Fifo!Spec`). The lock is
  granted in the order of the swaps on `_tail`.
- `TatasRWExclusion`: a TATAS writer is alone in the critical section.
- `TestsFinish` (liveness): in every round every MCS thread finishes, and
  `main()` returns. The fault model is a release whose failed CAS returns
  without waiting for its successor's link, which leaves that successor
  spinning.

Fairness: weak fairness per test thread and on `main()`. They are pthreads
that the OS keeps running.

`McsRwLock`'s and `FastRwLock`'s `RWExclusion` (a writer is alone in the
critical section) are both violated (runs `mcs_rwlock_exclusion` and
`fast_rwlock_exclusion`, findings 5 and 6). `fast_rwlock` fails in four
independent ways. Each of the other three was found on a copy of the
module with the shorter paths closed:
- a ticket writer at the head of the queue waits only for `_readers`
  (line 440), beside a fast-path writer;
- a queued reader tests the writer bit (line 515) and increments later, so
  a fast-path writer drains and enters in between (three threads);
- on the little-endian build, one queued reader leaves `_readers` at
  0xFFFFFFFF, and every writer then waits forever (a deadlock, two
  threads).

### `Decimal` and `TpchQ14` — fixed-point arithmetic and TPC-H Q14

`Decimal` gives, for each `decimal` operator Q14 uses, the `_value` (cents)
it produces: `FromInt`, `FromDouble` (whole-valued doubles only, such as
`100.`), `DecAdd`, `DecSub`, `DecMul` (`operator*=`), `DecDiv`
(`operator/=`), `IntMinusDec` and `DoubleTimesDec`. C's truncating
division is `CDiv`, since TLA+'s `\div` floors. `RoundDiv` is the
reference: a quotient rounded half away from zero.

`TpchQ14` is the plan `tpch_q14_driver::submit` builds:
- `Init`: a small database (`NL` LINEITEM rows; each part key has a type).
  The joined rows wait for the aggregate, and the sums are zero.
  - `Selected` is the ship-date filter of `lineitem_tscan_filter_t`.
  - `Joined` is `q14_join` on the part key.
- `Aggregate(i)`: `q14_aggregate::aggregate` for one joined row, in any
  order. It adds `L_EXTENDEDPRICE*(1 - L_DISCOUNT)` to `TOTAL_SUM`, and to
  `PROMO_SUM` when the part's type matches `'PROMO%'`.
- `Finish`: `finish()` once the join is drained: `100.*PROMO_SUM/TOTAL_SUM`.
  A zero total is the divide fault. No joined row means no group and no
  output.
- `Done`: the driver's result loop, after which nothing changes.

Property: `PromoRevenueRounded`. The share is reported to the nearest cent
of a percent, the way `operator*=` and `to_long()` round.

## Runs

| Run | Config | Expect | What it shows |
|-----|--------|--------|---------------|
| `fifo_memory` | `TupleFifoMem.cfg` | pass | Memory-only policy: capacity 3, threshold 2 (a drain to below capacity wakes the writer), eight one-tuple pages, all three read modes. The FIFO refines `TuplePipe`, every tuple arrives once and in order, exactly one thread deletes the FIFO and only after both stopped, and both sides finish with it deleted. |
| `fifo_spill` | `TupleFifoSpill.cfg` | pass | Shipped policy, capacity 2, threshold 2, fourteen pages (several overwrite and append cycles of the file), all read modes, `set_shared` at any time. Indices stay ordered, the read count stays sound, every buffer is held in one place and at most four exist, transitions are legal, and both sides finish. |
| `fifo_spill_eof_loss` | `TupleFifoSpillLoss.cfg` | violation | `NoLossAtEof` fails. Put two tuples in one-tuple pages with capacity 1, share, then send EOF. The spill writes pages 0 and 1 but counts one readable page, so the reader gets page 0 and then EOF. |
| `fifo_spill_file_reuse` | `TupleFifoSpillOrder.cfg` | violation | `PendingPagesLocated` fails. After an overwrite from offset 0, an append lands at the old file's physical end. The reader, reading slot `i - fileHead`, finds an old page (depth 20, capacity 2). |
| `flusher` | `FlusherStop.cfg` | pass | Two workers, two commits each, group size 2, log size 2, a stop request at any point or never. Spurious wakeups may happen at any point. No notification of the loop comes before durability, and none comes twice. No worker returns from `wait()` before its commit is answered. Every worker whose commit was queued before the stop path drained returns. |
| `countdown_cas` | `CountdownCas.cfg` | pass | Three racing posters, any errors, `NUMBER = 1`. Exactly one terminal post, every post returns, and the code refines the atomic latch. |
| `dora_same_home` | `DoraSameHome.cfg` | pass | Two updates from one branch with remote accounts, actions may fail. The branch lock orders their enqueues. Every action runs and every transaction's final callback runs. That the RVP fires once, and only after all posts, is the latch's property: `countdown_cas` checks it against the code. |
| `dora_lost_action` | `DoraLostAction.cfg` | violation | `ActionsRunAndFinish` fails. An account push races the other driver's and is lost, so that transaction's RVP never reaches zero. |
| `lock_tests` | `LockTests.cfg` | pass | `main()`'s MCS rounds of one, two and three threads, two iterations each. The lock excludes and refines the FIFO queue lock in every round, and `main()` returns. The compiled-out TATAS class keeps writers alone. |
| `fast_rwlock_exclusion` | `FastRwLockExclusion.cfg` | violation | `RWExclusion` fails after 10 steps of two writers. The second tests `_state > 0` before the first's fast-path CAS, re-reads the halves after it and CASes `_writers` from 1 to 2. |
| `q14_promo_rounding` | `TpchQ14Rounding.cfg` | violation | `PromoRevenueRounded` fails after three steps. A standard $1.00 row and a promotional $2.00 row give 66.66 instead of 66.67. Two rows, two part keys, two prices, discounts 0 and 0.10, and two ship dates (one outside the month) cover the filter, the join and both branches of the promotion test. |
| `mcs_rwlock_exclusion` | `McsRwLockExclusion.cfg` | violation | `RWExclusion` fails after 28 steps of three threads. A head reader's late write of `_prev = NULL` lands on a successor that has already re-joined behind another reader; the queue is emptied under that reader, and a writer enters beside it. |

Every property of every passing run is broken by a fault model of the code
in the module (`PROJECT.json`, `mutants`). Examples are the enqueue block left one
action early, or the stale `old_value` kept on a CAS retry.

Bounds: a page holds one tuple (`PageCap = 1`). Every flush then moves a
page, and every flush path is reached with the fewest tuples. Threshold 2
makes the threshold waits differ from the first wait (`t = 1`, then
`t = _threshold`). The memory run has capacity 3, so a writer blocked on a
full list is woken by a drain that leaves the list non-empty. The spill run
has capacity 2 and fourteen tuples, enough for a first spill and several
overwrite and append respills in one behaviour. Its behaviours also reach
`Capacity + 2` live page buffers, the bound `BuffersBounded` states.
The file-reuse violation needs fifteen tuples with threshold 1: the reader
must fall behind by a whole list twice.

The flusher's bounds: two workers with two commits each give four requests.
Every flush trigger can be reached:
- the group trigger at 2 waiting;
- the log trigger at 2 records;
- the timeout, which may fire at any point.

A request can also arrive during any drain or decision.

Three posters are the fewest for which a CAS can fail twice in a row.

Two DORA drivers over two branches cover the cases that matter:
- same-home, where the branch lock serialises the drivers;
- split-home, where only the account and history partitions are shared
  (run `dora_lost_action`).

Split-home has no passing run of its own. Its only new behaviour is a lost
push, which can only withhold posts from an RVP. The RVP's safety
properties are checked, with actions that may fail, in the same-home run.

A third driver would only add more interleavings of the same pairs of
drivers.

Locks: three threads with two iterations each. Three is the fewest for a
release to meet a successor that has swapped but not linked while a third
thread queues. It is also the fewest for a reader to splice itself out of
the middle of the queue, between a predecessor and a successor. Two
iterations let a thread leave and re-join while older pointers to its node
are still in use, which is the case the `mcs_rwlock` violation needs. The
offsets give every mix of one or two writes among the six iterations.

## Findings

1. **EOF before the last spilled page** (`tuple_fifo.cpp:633-638`,
   `725-730`). The write page written to the file with the list is not
   counted as readable. Once EOF is sent, `_get_read_page` returns EOF with
   that page unread. This assumes `_available_reads()` (in the header,
   absent from `src/`) returns `_available_fifo_reads`, which is what the
   `.cpp`'s own updates of that counter imply.
2. **Stale page after a file overwrite** (`tuple_fifo.cpp:694-706`,
   `746-747`, `911`). The overwrite/append choice is not just a performance
   knob, as `spec.md` section 9 says. Appending after an overwrite puts pages
   where the reader does not look.
3. **Decrement against the error-bit packing** (`countdown.cpp:31`, `47`).
   The code is consistent only with `NUMBER = 1`. With the packing the spec
   describes, no post is ever terminal, and the RVP never fires. The header
   that fixes the constants is missing. `ExactlyOneTerminal` holds in
   `countdown_cas` (`NUMBER = 1`). Set `NUMBER = 2`, `ERROR = 1` in
   `CountdownCas.cfg` and TLC finds it violated after six steps: each
   post reads `_state` and CASes it down by one.
4. **Unlocked enqueues in `dora_acct_update`** (`dora_tpcb_xct.cpp:127`,
   `136`, `145`). The teller, account and history critical sections are
   exited before the enqueue, not around it, as `spec.md` 4.6/4.7 require.
   Two drivers from different branches sharing an account partition push
   unsynchronised, and a lost push strands a transaction. This assumes, as
   the spec says, that `irpImpl::enqueue` (not in `src/`) relies on the
   caller's lock.
5. **`mcs_rwlock` head release writes into a re-joined successor**
   (`test_clh_lock.cpp:299-310`). `release_read` at the head first sets the
   successor's `_waiting = false` (line 307), then `_prev = NULL` (line 309),
   without holding the successor's lock. A successor that is a reader
   behind an active reader never spins, and a woken writer runs at once.
   Either can finish, release and join again behind another reader before
   the second write lands. It then takes itself for the head and empties the
   queue while that reader is active, and the next writer enters. Swapping
   the two writes only moves the race: the late `_waiting = false` then
   wakes the re-joined thread. The test for this lock is disabled.
6. **`fast_rwlock` fast path re-reads a stale test**
   (`test_clh_lock.cpp:386-396`). `acquire_write` tests `_state > 0`, and
   when the word is zero it re-reads the halves and CASes `_writers + 1`.
   It never checks that the halves it re-read are still zero. A second
   writer that passed the test before the first's CAS turns `_writers`
   from 1 into 2 and enters as well. The other three failures of this lock
   are described under the locks section. Its test is disabled too.
7. **Who deletes a terminated FIFO** (`tuple_fifo.cpp:328-331`,
   `spec.md` 4.4). The code leaves the FIFO to the side that did not call
   `terminate()`. That side learns of the termination from
   `TerminatedBufferException` or from a `false` return, and deletes the
   FIFO. `DeletedOnce` holds in `fifo_memory` under this rule. The spec
   says instead that the side that called `terminate()` destroys it. With
   the spec's rule in the model, TLC finds `DeletedOnce` violated in three
   steps: the writer terminates and destroys the FIFO while the reader is
   still running, and the reader's next call locks the freed `_lock`. The
   code is right here and the spec is not.
8. **`decimal` division truncates** (`decimal.h:42`, `tpch_q14.cpp:197`).
   `operator/=` computes `(100*_value+50)/other._value`. The `+50` is half
   of a divisor of 1.00 and no other, so any larger divisor truncates.
   Q14 divides by `TOTAL_SUM` and reports 66.66 where the share is
   66.67 (run `q14_promo_rounding`). `operator*=` has the opposite
   fault: C's division truncates toward zero, so a negative product rounds
   the wrong way (`decimal.h:38`). No code under `src/` multiplies a
   negative decimal, so that case is a hazard without a run.

## Not modelled

- The `clh_*` locks of `test_clh_lock.cpp`. Their header is not in the
  repository, so there is no source to translate.
- The pthread mutex and spin tests of the same file, and its timing and
  statistics code. They time library calls and have no protocol of their
  own.
- Two threads waiting on one notifier. `signal()` wakes one waiter with
  `pthread_cond_signal`, and that waiter clears both flags, so `cancel()`
  releases one waiter. `spec.md` section 5 says it "unblocks any waiter".
  Under `src/`, each notifier has exactly one waiter, and nothing calls
  `cancel()`. The case has no caller to model.
- The `decimal` operators no code calls, the comparisons, and the
  `int64_t` range. `operator*=` overflows once sums approach 10^15 cents,
  which is beyond the integers TLC evaluates.
- The workload drivers other than Q14, the loaders, schemas, the kit shell and statistics.
  They are scaffolding (`spec.md` section 1), or pure data and I/O.
- The legacy `tuple_buffer_t` and `tuple_page_t` (`include/engine/core/tuple.h`).
  The buffer's blocking and termination live in `page_buffer_t`,
  `check_page_full()` and `wait_for_input()`. None of these is in the
  repository, and the spec does not describe them. The page is
  single-threaded layout arithmetic.
- The staged TPC-C payment (`payment_begin.cpp` and its stages). It builds
  packets and hands them to the QPipe dispatcher, whose runtime is not in
  the repository. Its one piece of shared state, the mutex-protected
  transaction counter, has no protocol to check.
- The FIFO's and the flusher's statistics and tracing, which are bookkeeping
  around the modelled control. Also `copy_page()`, `put_page()` and
  `get_page()`: they are built on `get_tuple()` and `ensure_read_ready()` of
  `tuple_fifo.h`, which is not in the repository.

## Plan

Modules, leaves first:
1. `TupleFifo` (done): the hardest part.
2. `Flusher` (done).
3. `Countdown`, refining `CountdownLatch` (done).
4. `DoraTpcb` (done): the driver is modelled from the code; the partitions
   and RVP are modelled from the spec.
5. `Notifier` (done), composed into `Flusher` with one notifier per
   worker.
6. The locks of `test_clh_lock.cpp` (done; the `clh_*` locks' header is
   not in the repository).
7. The FIFO's page buffers, free-page list and deletion contract (done).
   `put_page`/`get_page` remain out of reach: their header is not in the
   repository.
8. `Decimal` and `TpchQ14` (done): the only use of `decimal` under `src/`.
