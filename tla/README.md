# TooManyCooks in TLA+

TLA+ modules, TLC runs and TLAPS proofs for [TooManyCooks](../src/README.md), a
C++20 coroutine runtime: executors that run work items on threads, lock-free
queues between them, and awaitables through which coroutines wait for each other.
The modules are translated from the headers under `src/include/tmc/`;
`PROJECT.json` gives the lines behind every definition.

1. [The system](#1-the-system)
2. [Modules and their code](#2-modules-and-their-code)
3. [How the models are made](#3-how-the-models-are-made)
4. [Runs and what they show](#4-runs-and-what-they-show)
5. [Proofs](#5-proofs)
6. [Where code and words differ](#6-where-code-and-words-differ)
7. [What is not modelled](#7-what-is-not-modelled)
8. [Plan](#8-plan)

To run one by hand:

    tlc -config MCSync.cfg MCSync.tla
    tlapm TasksProof.tla

## 1. The system

A *work item* is a coroutine handle or a functor. An *executor* owns threads and
queues of work items; `post` gives it an item, a priority and perhaps the thread
that should run it. Coroutines run until they await something. What they await
either is ready, or keeps their handle and posts it back to their executor later,
or hands the current thread over to another coroutine directly (*symmetric
transfer*). Nothing is persisted and nothing fails half-way by design (`noexcept`
everywhere): the hard part of this program is interleaving, and the lifetime of
objects that a resumed coroutine may destroy while the thread that resumed it is
still inside one of their functions.

### Components

| component | state | operations | what is hard | what makes it correct |
|---|---|---|---|---|
| waiter queue (`waiter_list.hpp`): base of **mutex**, **semaphore**, **auto_reset_event** | one word `value` of two halves (free permits, registered waiters); a Treiber stack of new waiters; a private FIFO list | try_acquire, suspend, maybe_wake, wake_all, resume, symmetric transfer | registration is in two places (stack, then word); one thread at a time may take nodes, chosen by whoever moves a half off zero; waiters resumed before the thread that suspended them is done | one waker, which always finds the nodes it must take; no permit beside a waiter; FIFO; nobody touches an object whose users have ended |
| **rw_lock** | one word: active readers, waiting readers, waiting writers, LOCKED_WRITE, WAKING; two waiter lists | lock, try_lock, unlock for readers and writers | whoever sets WAKING wakes; the batch of readers is sized from an older word; late registrations | readers exclude writers; WAKING is exclusive and never set with nobody to wake; nobody is left behind |
| **manual_reset_event**, **latch**, **barrier** | a word that is a flag, or the head of a stack of waiters; a counter for the last two | await, set, reset, count_down | waiters resumed from a chain whose nodes they may reuse at once; counter and event are two words | a set event leaves nobody behind; nobody passes early; phases stay in step |
| **atomic_condvar** | a value, a lock, a vector of waiters | await, store, notify_one/n/all | check and registration against store and notify; removal from the vector that is being scanned | a waiter whose value has changed is woken once notified; each waiter once |
| **tiny_mutex** | one word: stack of waiters and RUNNING; a shared, counted block | enqueue, run_loop, co_unlock, destructor | the runner may find the stack empty and lose RUNNING just as a task queues; the mutex may be destroyed by the task it resumed | one runner; the block is freed last; everybody who queues runs |
| **ex_cpu** | per thread and priority a deque; per group an inbox; per priority a shared queue; bitsets of working and spinning threads; a sentinel's announcement per priority; ref_count | post, post_bulk, worker loop, notify, teardown | sleep against post over five words; bitsets that add instead of or; teardown against a post from outside | no item lies while all its threads sleep; bitsets agree with threads; nothing freed under a post |
| **ex_cpu_st** and `qu_mpsc_blocking` | one blocking queue per priority whose slots say EMPTY, WAITING or DATA; private stacks; counts of wakes; yield_priority of the running item | post, post_bulk, request_yield, worker loop, futex or shared wake word, teardown | slot protocol against sleep; two counters that must balance before teardown may free; what a post still does behind its last item | no lost wakeup; nothing freed under a wake; teardown ends; the higher request prevails |
| work-stealing deques (`qu_chase_lev64`, `qu_chase_lev32`) | top and bottom, in one 64-bit word or in two words; growing buffers | push, post_bulk, try_pop, steal | the last item; a thief's old snapshot; torn reads; wrap of the indices | a deque; a failed pop means empty |
| worker's inbox (`qu_inbox`) | ring of slots whose flags say whose turn it is | try_push, try_push_bulk, try_pull, empty | a ticket is taken before data is there, a slot is claimed before it is freed | a bounded FIFO; "full" and "empty" are answered rightly |
| joins by count (`spawn`, `spawn_func`, `spawn_many`, `spawn_group`, `spawn_tuple`, `fork_group`, `post_waitable`) | `done_count`, the parent's handle, the children's frames | submit, fork, await, detach, reset, a child's end | the last arrival against the parent's own subtraction; frames inside the parent's frame | one of them resumes the parent, after all children |
| joins one by one (`mux_many`, `mux_tuple`, `select`) | a word of result bits and the bit EACH | start, await the next result, poll, start again in a free slot, cancel | release of EACH against arrivals | each result once; one runner of the parent |
| bounded user queues (`qu_spsc_bounded`, `qu_mpsc_bounded`) | array of slots; a slot's word says data, closed, claimed, and who waits there | push, try_push, push_bulk, pull, try_pull, close, destructor | the two sides meet in a word of the slot; rounds of the ring; close in the middle | items once, in their producer's order; close delivers all that came before it |
| unbounded user queues (`qu_spsc_unbounded`, `qu_mpsc_unbounded`) | list of blocks, walked from hints; recycled behind the consumer | post, post_bulk, pull, try_pull, close, destructor | a block is recycled while a producer may start its walk there | the same, and nobody walks into a recycled block |
| `channel` | the list of blocks; per token a hazard pointer; counters of hazard pointers, reclaims, close | post, push, pull, try_pull, close, drain, tokens | reclaim against new hazard pointers; close against tickets | items once; no block freed under anybody; no call hangs |
| `ex_braid` | a coroutine that reads a `qu_mpsc_unbounded` | post, destructor | the destructor resumes the loop inline | the queue's |
| `ex_manual_st` | queues by priority | run_one, run_n, post, teardown | only the reference count is concurrent | priorities; nothing freed under a post |
| topology and `thread_layout`, `matrix` | none: what `ex_cpu::init` computes once | filter and size the groups of cores, give threads their priorities and inboxes, order stealing and waking | counts that grow and shrink over groups that may be empty; rows over uneven trees with a running offset | as many threads as asked for, where they may run; every thread is found and woken by all of its priority, near ones first |
| Asio integration, type-erased handles, small containers | | | adapters, no protocol | |

Interactions: every awaitable resumes coroutines through `post_checked` of their
executor, and every executor stores work items in the queues above; `latch`
contains a `manual_reset_event`; `select` is a `mux_tuple` with cancellers;
`spawn_group` is handed to `spawn_many`; `ex_cpu` owns deques, inboxes and one
`qu_mc` per priority; `ex_braid` reads a `qu_mpsc_unbounded` on its parent
executor; the unbounded queues and the channel share the list of blocks. A primitive's model keeps the executor as what it needs of it: a posted
task is *ready*, and any idle thread may run it (action `Dispatch`). The
executors' models keep the items as what they need of them: a number waiting, and
that an item may post, return and thereby let its owner tear the executor down.

## 2. Modules and their code

| module | code | state and actions |
|---|---|---|
| `WaiterData` | `detail/waiter_list.hpp`, `.ipp` | `count`, `waiters` are the halves of `value`, `input` the stack, `output` the FIFO list. `Push` and `AddWaiter` are the two halves of suspend; `MustTake1` and `Commit` the loop of maybe_wake; `Resume` and `Transfer` what is done with the chain; `Destroy` the destructor's wake_all |
| `PermitQueue` | abstract | a pool of permits and a FIFO queue; `WaiterData!PQ` maps to it: permits in a waker's hand are still in the pool, and the queue is the list followed by the reversed stack |
| `Mutex`, `Semaphore`, `AutoResetEvent` | `mutex`, `semaphore`, `auto_reset_event` | the operations that users call, over `WaiterData` |
| `RwLock` | `rw_lock.hpp`, `.ipp` | `value` is the word as a record of its fields, `lists` the two lists (as the FIFO queues that `WaiterData` refines). Suspension, the claim of WAKING, the batch and the release of WAKING are separate actions |
| `WaiterStack` | shared by the three below | nodes chained by links that a woken task may overwrite; the posting of a chain, one node at a time |
| `ManualResetEvent`, `Latch`, `Barrier` | `manual_reset_event`, `latch`, `barrier` | `head` is READY, NOT_READY or the newest node; a latch's `count` and a barrier's `done_count` are their own words |
| `AtomicCondvar` | `atomic_condvar.hpp` | `value`, `waiters` (the vector, with swap-removal), `lock`; the user's store is an action |
| `TinyMutex` | `detail/tiny_mutex.hpp` | `top` and `running` are the word; a runner is one activation of run_loop; `refs`, `alive` the shared block |
| `Groups` | `spawn*.hpp`, `fork_group.hpp`, `sync.hpp`, `awaitable_customizer.hpp`, `task.hpp` | `done_count`, `symmetric`, `cont` (the handle) and `form` (what the awaitable is) belong to the parent; a child is *made*, *late* (it starts itself after the others), *held* (for symmetric transfer), posted, running, arriving, resuming; `frames` are the coroutine frames that exist. `Begin` is the preparation of all children, `PostNext` and `Posted` the submission one by one, `Subtract` and `Arrive` the two sides that count |
| `Mux` | `mux_many.hpp`, `mux_tuple.hpp`, `select.hpp`, `mux_shared.ipp` | `each` and `bits` are the word `sync_flags`; `Await`, `ReleaseEach`, `AwaitResume`, `Poll`, `Take`, `Fork` the parent; `Arrive` and `Resume` a child; `CancelNext` is select's |
| `ChaseLev64`, `ChaseLev32`, `WorkDeque` | `detail/qu_chase_lev64.hpp`, `detail/qu_chase_lev32.hpp` | `state` holds both indices (as one word in the first, as two in the second), `buffers` every block allocated so far; `WorkDeque` is the abstract deque. `ChaseLev32` extends the other: the owner's push and growth are the same text, `try_pop` and `steal` are its own |
| `QuInbox` | `detail/qu_inbox.hpp` | offsets, per slot `flags` and item; a thread's `call` walks try_push, try_push_bulk or try_pull |
| `ClosableQueue` | abstract | a set of items that went in, the sequence that came out, and whether the consumer was told of the end |
| `SpscBounded`, `MpscBounded` | `qu_spsc_bounded.hpp`, `qu_mpsc_bounded.hpp` | `slots[i]` is the flags word with its value. In the first the word is data, closed, or the coroutine that waits; in the second also claimed, and the chain of parked producers |
| `BlockList` | the blocks of the three below | `blocks[b]` has an offset, a link and its slots; `HopTo`, `Reclaimed`, `Deleted` |
| `SpscUnbounded`, `MpscUnbounded` | `qu_spsc_unbounded.hpp`, `qu_mpsc_unbounded.hpp` | `heads` are write_block, the hint and head_block; `GetTicket`, `LoadHint`, `FindBlock`, `WriteElement` are a post; `StartReclaim`, `ReclaimHint`, `ReclaimCutoff`, `FinishReclaim` the consumer's delayed recycling |
| `Channel` | `channel.hpp` | a token's `pc` and `op` walk one call; `hazards` is the list of hazard pointers; `reclaim` the locals of try_reclaim_blocks under `lock` |
| `ExCpu` | `ex_cpu.hpp`, `detail/ex_cpu.ipp` | bitsets as sets, `deque` and `ingest` as counts per priority, `inbox` as sequences of priorities; a worker's `pc` walks the loop, a caller's `call` walks post and notify |
| `ExCpuLayout` | `thread_layout.ipp`, `matrix.ipp`, `topology.ipp`, init in `ex_cpu.ipp` | one action per stage of init: `AdjustThreadGroups` (`cores`, `sizes`), `AssignPriorities` (`threads`), `MakeInboxes`, `MakeMatrices` (`steal`, `wakers`); the algorithms are operators |
| `ExCpuSt` | `ex_cpu_st.hpp`, `.ipp`, `qu_mpsc_blocking.hpp` | `flags[p][i]` is the slot's word; `waitv` chooses the build; teardown's sum is taken one queue at a time |
| `BlockPool`, `ChannelCalls` | | the constants of `BlockList` and `Channel`, with their assumptions |
| `WaiterQueueProof` (the waiter queue, then mutex, semaphore, event, over `MCWaiterQueue`); `SyncProof` (tiny_mutex, rw_lock, event, latch and barrier, over `MCSync`), `TasksProof` (joins and mux, over `MCTasks`), `ContainersProof` (deques, inbox and condvar, over `MCContainers`), `RingQueuesProof` and on top of it `QueuesProof` (the closable queues, over `MCQueues`), `ExCpuProof`, `ExCpuStProof` | | proofs (section 5) |
| `MC...` | | instances (section 4); `ExCpuSt` needs none, its configurations are `ExCpuSt.cfg` and `ExCpuStQueued.cfg` |

`MCWaiterQueue`, `MCSync`, `MCContainers`, `MCQueues`, `MCTasks` and `MCExecutor` put several
components that share their machinery or their promise behind one variable that
says which of them a behaviour uses. One run then asks one question of all of them:
a property there is the conjunction of what each component's module states, guarded by
that variable, and the variables of the others keep one value.

## 3. How the models are made

**Steps.** One action is one access to shared memory, with the thread-local work
around it. A compare-exchange loop that only recomputes its new word from the word
it re-read is one action, because its failed turns change nothing. Where the code
decides by an older value, the read and the exchange are separate actions
(`RwLock`'s batch, `Barrier`'s reset, the thieves of the deques, `ExCpu`'s bitsets,
which are read one after the other, and every step of `Channel`'s hazard pointers).

**Memory order.** Models are sequentially consistent. The pairs of StoreLoad
barriers on which sleeping depends are the exception: in `ExCpu` an enqueue to the
shared queue goes through a store buffer (`buffered`) that is drained at the
latest at the next read-modify-write or barrier of its thread, so that leaving out
`memory_barrier()` in notify_n loses a wakeup in the model too. A torn read is
modelled where the code reads without synchronisation (`ChaseLev64`'s slots, which
take two words).

**Threads and tasks.** A task that suspends no longer belongs to its thread, which
may still be inside the function that suspended it; the task can run, end, and
destroy the object meanwhile. All models of primitives have this and their
`NoLateTouch`-like properties are about it. Symmetric transfer is taken or not
taken nondeterministically, as it depends on priorities and executors that the
primitive does not know.

**Ends.** An object is destroyed only when its user may: no other thread is inside
a call (`WaiterData`), every task is done with it (`NoLateTouch`), or a task that
passed it destroys it (`Latch`, `TinyMutex`). A queue or channel is destroyed when its
consumer has gone and no producer is in a call; what was not read is destroyed with it.
The destructors' wake-ups are part of the models.

**Abstractions of ex_cpu.** Items have no identity, only a priority. `sleep_wait`
is a counter that only matters as "changed since the worker loaded it"
(`signalled`), and a change that nobody will compare is forgotten. A worker's local
flag and the priority it last ran are forgotten when no later step reads them.
These only merge states that no step tells apart. The yield interrupts are left
out: they change no queue and wake nobody. Teardown begins when all posts of the
behaviour have begun: it may overtake them at every later step.

**Abstractions of the layout.** A core is its index; a group has its cores, their kind and
their SMT level, and a place in a tree. Reading this tree from hwloc, NUMA nodes and the
container's quota are left out; an occupancy is a fraction, the code's a float. Inboxes and
deques are their indices. The model stops before the matrices of a priority that no thread
takes, where the code reads rows that are not there (section 6).

**Abstractions of ex_cpu_st.** A queue is the array of its slots; of the blocks they
lie in there is only the link that post_bulk reads when it has filled the last of
`BlockSize` slots. A call lasts until its last access to the executor: behind its last item
come that link and, if it woke nobody, the loop of request_yield. The worker's labels "start" and
"run" are the two sides of run_one's store of `yield_priority`. `BeginTeardown` asks what an
owner could know: a producer that is still inside post has published its items, though it
may not be done with the rest, and the worker has begun these items. `JobsDone` says whether
the owner waits for every item first.

**Abstractions of the joins.** Results, priorities and executors are left out: whether
a parent goes on at once or through its executor is open at every resumption. A
function that is a work item has no frame; a function wrapped in a task has one. The
frame of an awaited task may lie in its parent's frame (elision), so a frame must be
gone before its child's arrival can resume the parent. In `post_waitable` the parent is a
thread that blocks on a future, and setting the promise is the resumption.

**Abstractions of the queues.** An item is its producer and number. A parked coroutine
is a flag in a slot. `qu_spsc_bounded`'s indices wrap at `IndexRange`; those of the other
queues and of the channel do not wrap in the models. A run of blocks that is recycled is
reset and linked again in one step: nobody else can reach it meanwhile. The inline resume
of `close_resume_inline` differs from close only in the thread that runs the consumer.

**Abstractions of the channel.** Clusters of producers and consumers (which only choose
which thread runs them), spinning before waiting, the move and assignment of tokens and
empty batches are left out. A hazard pointer is taken from the list in one step.
`idx + InactiveHazptrOffset` is one value, `Inactive`. The token's `Programs` are the
calls each token makes: every interleaving of these calls is checked, not every sequence of
calls.

## 4. Runs and what they show

| run | instance | properties |
|---|---|---|
| `waiter_queue` | 3 tasks, 3 threads; mutex: 2 rounds, one task at most returns; semaphore and event: 1 round, releases of 1 or 2 permits | `OnePermit`, `SingleWaker`, `WakeIsCovered`, `NoLateTouch`, `IsFIFO`, `WaitersGoOn` |
| `sync` | 3 tasks; tiny_mutex: 3 runners, 2 rounds; rw_lock: 3 threads, 1 round; event; latch of 2; barrier of 3 | `OneRunner`, `FreedLast`, `ReadersXorWriter`, `WakingIsExclusive`, `NobodyLeftBehind`, `EveryWaiterListed`, `NobodyReleasedEarly`, `SafeToDestroy`, `WaitersGoOn` |
| `tasks` | joins: 3 children; mux and select: 3 slots, 2 of which end only when cancelled; channel: 3 tokens, blocks of 2 slots, 4 programs | `CountMatches`, `OneResumer`, `ParentAfterChildren`, `EachResultOnce`, `BlocksInPlace`, `EveryItemOnce`, `CallsReturn` |
| `containers` | deques: 2 thieves, 3 items, indices of 4 bits from 1, 14 and 15, first block of one slot; inbox: 3 threads, 2 slots, 3 items; condvar: 3 tasks, 3 threads, 2 values, 2 stores | `AreWorkQueues`, `GiveUpRightly`, `EachWaiterOnce`, `NoWaiterMissed` |
| `queues` | capacities 1 and 2, blocks of 1 and 2 slots; spsc: 1 producer, 9 or 5 items; mpsc: 2 producers, 3 pushes or 4 tickets | `SlotsInTurn`, `BlocksInPlace`, `NothingLeaks`, `IsClosableQueue`, `WaitersGoOn` |
| `ex_cpu` | 2 workers with equal, overlapping or separate priorities, 1 thread outside, 2 posts with or without a hint; teardown when all threads sleep | `NoLostWakeup`, `BitsMatchThreads` |
| `ex_cpu_life` | init: 4 machines of 1 to 4 groups, flat and nested, 400 settings of thread count, occupancy, packing, pinning, strategy and partitions; workers: 2, 1 priority, 1 post; teardown at any moment after it began | `ThreadsAsAsked`, `VictimOrders`, `NoUseAfterTeardown`, `WorkRunsAndTeardownEnds` |
| `ex_cpu_st` | both builds, 2 producers and the worker, 2 priorities, 2 items, singly and in bulk, blocks of 1 slot; teardown when all items have run | `NoLostWakeup`, `NoWakeAfterTeardown`, `WorkRunsAndTeardownEnds` |
| `ex_cpu_st_queued`, `queues_order`, `channel_free`, `inbox_indexes` | | one property each that the code does not have (section 6) |

What a property says, and of which code, is in the comment above its definition.
`AreWorkQueues`, `IsFIFO` and `IsClosableQueue` are refinements: the deques and the inbox
implement `WorkDeque`, the mutex, semaphore and event implement `PermitQueue`, and the four
queues implement `ClosableQueue`. The type invariants of the modules are not properties of
the runs; those of sixteen components are proved (section 5), and the parts of the others that could go
wrong are in the properties.

**Why these bounds.** Every protocol of the primitives is about one word and at most three
parties: who is suspending, who is waking, and who comes late or leaves. With three
tasks a queue has a first, a middle and a last node; with two rounds a woken task
comes back while its waker still holds its node. Releases of two permits make one
turn of maybe_wake wake two. Three children make a first, a middle and a last arrival, with
and without a child that the parent transfers to; three slots of a mux leave two results
behind the one that woke the parent. The deque's three items fill, outgrow and refill
blocks of 1, 2 and 4 slots, and its starting indices put the wrap of bottom, the
wrap of top and the special case "bottom is 0" inside that range; `HalfWord` 16
stands for 2^32. The inbox's three items go once round its two slots. Nine items go four
times round the ring of the bounded spsc queue, across the wrap at `IndexRange` 8; three
pushes put a second round on a slot whose first round is not over, and with four tickets on
blocks of one slot a block is recycled and used again. A close may begin after up to two
tickets (`CloseBy` 2), so that it meets none, one that is filled or not, and two of which one
may be filled. The channel's programs are one for
each of its dangers: a hazard pointer taken and given back while drain recycles; close under
a producer and a waiting consumer; six items, enough for a consumer to recycle; consumers
that compete and leave items to the destructor. `InboxSize` 1 (4096 in the code) makes an
inbox full by one item. Two workers are enough for every relation of a poster to its group:
inside, outside, the sentinel, not the sentinel, the hinted thread, the other one. The
machines have groups side by side (in the number that allows a perfect network) and under a
common parent, of equal and of different sizes, and of two kinds; thread counts from none
given to more than SMT gives and more than a bitset of `PlatformBits` 8 holds make groups
grow, shrink and empty. Two items on two priorities let two producers fill the two slots that the worker had
announced, one waking it for both (the race that `ex_cpu_st.ipp:466-475` tells), or let the
worker post between; on blocks of one slot (`BlockSize` is a power of 2) a bulk post goes
through the link both between its items and behind the last. For more items the
theorems of section 5 hold. The retries of
`steal()` are one (three in the code): a further turn starts from the same state. Symmetry
is used only in `containers`, which has no liveness property.

**Deadlock** is checked except in the runs of the channel (`tasks`, `channel_free`), whose
consumers may wait for ever for an item that the program never posts; `CallsReturn` excludes
there what would be a deadlock of the code, of a join and of a mux as well. The other
specifications have a stuttering step for where they may rest (`Terminated`, `Rests`, the
end of a layout).

**Fairness** is weak, per thread, and asks only what the scheduling of the code
gives: a thread in the middle of a library call goes on, a worker's loop goes on, a
posted task is dispatched, an item returns, a child's own code ends (except that some of
select's end only when cancelled). No user call has to happen: nobody must set an event,
release a semaphore, post, close, or tear down; a mutex or lock holder does release it, and a
coroutine that reads a queue pulls again, which is the user's part of that contract.
`WaitersGoOn` for an event is claimed for who waits when `set()` takes effect; for a queue,
and `CallsReturn` for a channel, for who waits at an item that was posted or after the cut of
a close.

**What holds by these runs.** No interleaving of suspension and release loses a
waiter in any primitive, though registration takes two steps; nodes are taken by one
thread at a time without a lock because only a transition from zero admits a waker;
no thread of a finished user touches a destroyed mutex, semaphore, event, barrier or
latch. A parent is resumed once, by the last of its children or by itself, and finds no child
at its awaitable or with a frame in its own; the EACH bit misses no result and wakes nobody
twice. The deques hand out each item once in both variants, also to a thief whose look is a
round old; an inbox that says full or empty is. A close delivers exactly what came before
it, whether it meets a producer with a ticket, a waiting consumer or both; no block is
recycled under a walk. The executors' threads never all sleep over an item that one of them
may take; whatever machine and settings init is given, an ex_cpu has the threads it was asked
for, and each of them is found by every other that takes the same priority, after the
threads nearer to it and no more often first than its neighbours; ex_cpu's counting bitsets never borrow; and ex_cpu's reference count covers
a post from outside to its last access. ex_cpu_st's counts cover less: every slot that is still to
fill, wake and count of a wake, as long as teardown begins after the items have run, but not what
a post does after that (section 6).

## 5. Proofs

The theorems hold for every value of the constants that their modules' named assumptions
admit: any tasks, threads, children, priorities and posts, not only those of the runs. The
inductive invariants were first checked by TLC on the instances of the runs.

| component | theorems (the run's property, where it has one) | assumed of the constants |
|---|---|---|
| any user of the waiter queue (`WaiterQueueProof`) | `AnyUser` | `Threads` finite, `NoTask \notin Tasks`, `MaxRounds \in Nat` |
| mutex, semaphore, auto_reset_event together (`WaiterQueueProof`) | `PermitIsSingle` (`OnePermit`), `OneWaker` (`SingleWaker`), `WakesAreCovered` (`WakeIsCovered`), `DestroyedAfterLastTouch` (`NoLateTouch`), `EachIsFIFO` (`IsFIFO`) | the same, and `Counts`: a semaphore starts with, and releases, a natural number |
| each of the three alone, under its own `Spec` | `MutexTypes`, `MutexIsExclusive`, `EventSetOnce`; `MutexLosesNoWakeup`, `MutexIsAPermitQueue` and the like for the other two | the same; `Counts` for the semaphore |
| tiny_mutex (`SyncProof`) | `TinyMutexTypes`, `OneRunnerAtATime` (`OneRunner`), `BlockFreedLast` (`FreedLast`) | `NULL \notin Tasks`, finitely many runners, `MaxRounds \in Nat` |
| rw_lock (`SyncProof`) | `RwLockTypes`, `RwLockExcludes` (`ReadersXorWriter`), `RwLockWakerIsAlone` (`WakingIsExclusive`), `RwLockLeavesNobody` (`RwLock!NoLostWakeup`, a part of the run's `NobodyLeftBehind`) | `NoTask \notin Tasks`, `Threads` finite, `LockRounds \in Nat` |
| manual_reset_event, latch, barrier (`SyncProof`) | `EventTypes`, `WaitersNotLeftBehind` (`NobodyLeftBehind`), `WaitersAreListed` (`EveryWaiterListed`), `NobodyPassesEarly` (`NobodyReleasedEarly`), `DestroyedSafely` (`SafeToDestroy`) | `Tasks` and `Threads` finite, neither a task nor `NULL` is `"READY"`, `Count \in Nat`; the barrier is for all of `Tasks`, three phases |
| joins by count (`TasksProof`) | `TypeCorrect`, `WordCountsChildren` (`CountMatches`), `ResumedByOne` (`OneResumer`), `ChildrenEndFirst` (`ParentAfterChildren`) | `Kids` finite, `NoKid \notin Kids` |
| mux and select (`TasksProof`) | `MuxTypes`, `MuxTakesEachResultOnce` (`EachResultOnce`) | `NumSlots` a positive natural |
| atomic_condvar (`ContainersProof`) | `CondvarInvariant`, `CondvarWaiterOnce` (`EachWaiterOnce`), `CondvarMissesNobody` (`NoWaiterMissed`) | `Tasks` finite, `NoTask` neither a task nor a thread |
| both deques and the inbox (`ContainersProof`) | `QueuesInvariant`, `QueuesAreWorkQueues` (the refinement `AreWorkQueues`), `QueuesGiveUpRightly` (`GiveUpRightly`) | the index range is even and a multiple of every capacity that doubling reaches, one of which is enough; a behaviour pushes less than half of that range of items, from any start of the indices; the inbox has two slots at least, `Threads` is finite |
| the four closable queues (`QueuesProof`, `RingQueuesProof`) | `EverySlotInTurn` (`SlotsInTurn`), `EveryBlockInPlace` (`BlocksInPlace`), `NoValueLeaks` (`NothingLeaks`) | capacities and block sizes are positive, an array's indices have room for two rounds of it; those of the bounded spsc queue wrap to slot 0 (a capacity that divides the range) or are not used up; producers and consumer are different threads, of any number |
| ex_cpu (`ExCpuProof`) | `TypeCorrect`, `NoWakeupLost` (`NoLostWakeup`), `BitsAgree` (`BitsMatchThreads`), `NothingFreedUnderPost` (`NoUseAfterTeardown`) | finitely many numbered threads, finitely many callers from outside apart from them; priorities from 0; each thread serves a range of priorities that is not empty; the sizes of an inbox and of a behaviour are naturals |
| ex_cpu_st (`ExCpuStProof`) | `TypeCorrect`, `NeverAsleepOverWork` (`NoLostWakeup`), `WakesEndBeforeTeardown` (`NoWakeAfterTeardown`), `RequestsPrevail` (`ExCpuSt!HigherYieldPrevails`, in no run) | priorities from 0, bulk and block sizes above 0; for `WakesEndBeforeTeardown` also `JobsDone`, as in the run: without it section 6 applies |

**The waiter queue.** The three primitives share one argument, so it is made once, in
`WaiterQueueProof`, about an arbitrary user: `UserStep` lets a thread try to acquire, suspend, add
any number of permits and wake as `maybe_wake` does, in any order. The second part of the module
shows that the operations of all three are such steps. The invariant `WInv` has five parts besides
the types:

* `SectionInv`, `WordInv`: while a thread is in the wake section, the word holds at least the
  permits and waiters that it promised to match, which blocks `try_acquire` and every other
  thread's transition from zero. `SingleWaker` is not inductive without this: that nobody enters
  a second time follows only because `N/N` is left by the waker alone.
* `SelfInv`, `DeadInv`: which task a thread runs, and what the destructor's caller has excluded.
* `LineInv`: a waiting task is in one place of one list, or in one thread's hand.
* `CountInv`: registered waiters and threads about to register together are as many as the
  listed tasks and those in a waker's hand. This is what the code relies on when a waker
  walks as many nodes as the word promised: registration is in two places, the stack first.

For the refinement (`EachIsFIFO`) the permits of `PermitQueue` are those of the word less
those in a waker's hand, its queue is `output` followed by the reversed `input`. A node that is
taken leaves the abstract queue at once, with its permit; `Commit` later changes only the word, and is a
stutter. `AnyUser` would be void for a user that keeps permits of its own: `PermitInv` (mutex: a
permit is in the word or with one task) and `StoredInv` (event) are extra invariants.

**ex_cpu.** `NoLostWakeup` is about a state in which everybody sleeps, and says nothing of how it is
reached. `IInv` says who answers for a queue that is not empty: a thread that serves it and
has yet to look at it (`PassedIngest`, `PassedInbox` say which have not), or one that is signalled,
or a caller between its enqueue and its choice of whom to wake (`IngestInv`, `InboxInv`). The
caller's steps are where this is handed on; three facts make that sound. `BitsInv` ties the bits of a
thread to its place in the loop, so that a caller that reads a bit as zero knows where the thread has
yet to look. `FallbackInv` says that an announcement of the sentinel stands until
somebody takes the duty of waking it. `BufferedInv` says that a delayed store is drained before its
caller stops looking. `DequeInv` covers the private deques, `LifeInv` the reference count.
`BitsMatchThreads` is about single bits: the code adds and subtracts them without looking, so a
bit that is set twice would carry into its neighbour.

**ex_cpu_st.** `SlotInv` says that only the slot at `read_offset` of a priority in `didWait` may be
WAITING, and that it is WAITING or DATA. So a producer that does not find WAITING in the slot
that the worker announced has not filled it: `SleepInv` (from the moment the wake
word is loaded, or from the sleep with futex_waitv, an announced slot is filled only if its
producer is about to signal). `CountInv` is the balance on which teardown rests: wakes counted
by producers plus those they owe are wakes counted by the worker plus announced slots that are filled and
not taken. The sum over the priorities is the size of a set (`Units`, one element per counted
wake), because a recursive sum would need induction. `EndInv` says that once every
item has run nothing is left to take and that teardown's sum, read one priority after the
other, is never ahead of what is there; with `CountInv` it equals `wait_count` only if nobody
owes a wake. `EndInv` leaves posts under way that have published all they had: their next
steps owe nothing, and the theorem claims nothing of them. `RequestsPrevail` rests on `CallOK`: a
request goes to its compare-exchange only with an expected value above its own priority, so
its success lowers the word, whichever item is running by then.

**tiny_mutex.** `RefsInv` says that the reference count is the number of runners between their start and
their release, plus one while the mutex lives. `RunInv` ties a task that has the mutex to the
runner inside it. `StackInv` says that a runner that has not yet taken its reference is
covered by a task that is still queued, without which the owner could destroy the mutex in
between.

**rw_lock.** Exclusion needs the whole protocol. A hand-over writes the lock into the word without
asking again who holds it, so `KnownPart` says what the owner of WAKING still knows of a
word that others change: nobody lowers the counts of waiters, no reader enters while a
writer waits, and a batch of readers that was sized without a waiting writer had all of them.
`HandPart`, `ListsPart` and `TakenPart` say that a node is in one list or in one waker's
hand, and that its task has no lock yet. `CountPart` ties the word to the lists: the nodes
of a kind are those the word counts and those of threads about to count theirs, which is why
`must_take_1` finds a node. `LookPart` is the argument for `NoLostWakeup`: whenever somebody could be woken and
nobody wakes, a thread is at the claim; `ReadersGivenAll` shows that a hand-over to
readers leaves no such state. The lists are FIFO queues here, as `WaiterData` refines them.

**Event, latch, barrier.** Their waiters are nodes chained by links, and a woken task may
suspend again and overwrite its link while its waker still walks. `Core(S, H)` says what the
chains hold, by the set S of nodes on the shared list and for each thread the set H[th] that it
has yet to post: the head is followed by the links through exactly the nodes of S, `curr[th]`
through those of H[th], no node is in two of these places, and who is in one of them is who
waits (`Stack`); moreover which task each thread runs, and that who arrives at the barrier
stays listed until it has unlinked itself. An overwritten link disturbs no other chain
because its node has left H when its task could run. S and H are quantified, not variables:
each operation's lemma names the new sets. `NobodyLeftBehind` and `EveryWaiterListed` follow
from `Core` alone. The latch adds `Counts`, `Enough` and `LastSets`: the counter is what the
arrivals left of it, whoever opens the latch has seen `Count` of them, and the last of exactly
`Count` is alone on its way to `set()`. The barrier adds `Phase(p, S, H)`: every task is in phase p, or
already counted for it and waiting; nodes of S belong to the next round, those in walks to the one
before, except between take and reset, when one thread has all of them; and `done_count` is one less
than the number of tasks yet to be counted. That the counter is reset before the first waiter is posted keeps
this true when a woken task arrives again at once.

The models compute a chain by a recursive function of its length (`Chain`). What it
holds is shown without induction over it: a set of naturals has a least element, because the
library proves the strict subset order of finite sets well-founded, so a first place
where the chain leaves the path would have a place before it where it does not.

**Joins.** That the child which reads a word of zero is the only one left and finds the parent
asleep follows from `CountMatches` only together with where the parent is: `PlacesFitForm` and
`HeldBack` say which forms of awaitable go with which place and that a child kept for
symmetric transfer is counted but has not started, `LinksFitForm` that every child belongs to
the awaitable the parent has, `ResumerIsLast` and `ReleasedByAll` that nobody else is linked
once somebody resumes the parent. `BeginStep` covers all ways to start children at once;
`KidStepKeeps` has the argument about the last arrival.

**Mux.** `OneWaker` and `WokenWithResult` support each other: a child that takes EACH leaves
its bit, so who resumes the parent has a result for it, and the bit stays because only the parent, which
sleeps, takes bits away (`BitsSettled`). `EveryResultOnce` needs to know what the parent has counted
when (`CountedSlots`): a tuple's slots from the constructor on, the slots of a range when all are started, and
between the choice of a slot and the subtraction of its bit one fewer than are in use.
`SleepsWithWork` excludes a sleep without a child to end it. That `countr_zero` finds a set
bit is the least number again.

**Condvar.** The vector holds the waiters in no order: one that is woken leaves a hole
that the last one fills, in the middle of the scan. `CondInv` has four parts: `CondTypes`;
`CondControl` (who has the lock, which task a thread runs); `CondPlaces` (a waiting task is
in the vector, in one thread's wake list or kept for its symmetric transfer, in one of them and
once); `CondSeen` (unless somebody owes a notification, whoever is registered waits for
the value that is there). `CondSeen` is not inductive without the task that has looked at the value
under the lock and is about to register, which it therefore covers too. The scan is a
recursive function in the model; what its cut of the vector holds at every place is again shown by a
least counterexample.

**Deques.** The indices wrap, so an invariant about the words alone would have to speak of
lengths modulo the range. `DequeAt(K, T, B, O, S)` instead speaks of integers that the words
stand for: top `T` and bottom `B`, the top `O` that the owner has read, the top `S[s]` that each thief
has read, and `K`, where the deque was when it was empty at first. All lie within `MaxItems` of
each other, less than half the range, so that the code's signed differences are those of the
integers and equal words are equal integers (`DiffIs`, `WrapFacts`). `PushPart` says that what the owner is
about to publish fits the block and is there; `ThiefPart` says that a thief whose top is still
*the* top has an item to take, and has read it or will read it from a block, perhaps an old one, that
holds the same at that index. That is why the CAS on top alone decides: indices only go
forward, an old block is never written again, and a full lap is excluded. In the 64-bit deque one
subtraction from the packed word claims the bottom item and reads top with it, so the item
counts as taken from there on (`Seen`), or there was none and bottom is put back. In the 32-bit one `try_pop` lowers bottom before it looks at top, and what it wants
still counts as there (`End`). `View(T, B)` is the abstract deque; each operation's lemma gives
the new integers and shows which end, if any, the view lost. `GrownFits` is the argument that growth copies all that is
between top and bottom.

**Inbox.** `InboxInv` says for every ticket what its slot's flags may be: `Given` (between the
offsets: the item is there, or its writer is on the way), `Free` (not given out: clear for it, or
the reader of the round before is not done), `Past` (flags never fall behind a ticket that is
out). `Holder` says that who has a ticket has the slot alone, `Looker` that what an
undecided call saw still holds if its offset is still current. A call compares flags with an
offset that may be old; `Past` is what makes "full" and "empty" true of the present
offset all the same. With one slot "to be read" and "to be written next round" are the
same number: the proof needs, and the code has, two at least.

**Closable queues.** Each of the four has its own inductive invariant, and `QueueInv` says
which one a behaviour of `MCQueues` has.

* `RingInv` (bounded mpsc). The flags word alone does not say why a producer that claims a slot
  may write in it: producers of different rounds stand at the same slot in any order, and an
  earlier ticket may claim it after a later one. `RingCount` counts: of the tickets below the
  cutoff that have a given slot, some were read, at most one value is in it, the rest want
  to write there, and together they are no more than there are. Hence at the cutoff's slot,
  when the sentinel is there, everything was read.
* `TrackInv` (bounded spsc) names two numbers that the code does not have, how many
  items went in and came out: the offsets are those modulo the index range, at most the
  capacity apart, and where each side is says which is ahead (`TrackSides`).
  `TrackSlots(m, n)` says what is in the slot of every index that is in reach.
* `Shape(head, size)` is about the list of blocks under both others: every block but the
  head is another's successor, offsets grow by one block's size along the links, no
  two are alike, and there is a last one. `WriteCell`, `Hop`, `Recycle` and `Emptied` say what a
  written slot, a step of find_block, reclaim_blocks and the destructor do to a list of this shape.
* `ChainInv` (unbounded spsc): below `Written` and not below `read_offset` every slot has its
  item, no other has one, and the blocks that a batch needs are there while it is written
  (`Reach`). The consumer recycles the blocks before the one in which it has just read an
  item, so write_block, from which every walk of the producer starts, is not among them.
* `ListInv` (unbounded mpsc): tickets of different producers are apart, and those in
  use end by the cutoff; a slot with an item has been passed by whoever owned its
  ticket (`ListCell`). The argument for recycling is `ListReclaim`. When the consumer takes the
  reclaim's cutoff, write_block and the hint are at or past the first block that stays. A ticket
  taken later starts its walk there or further on; one taken before is below the cutoff, all of it,
  because a batch is one fetch_add. So when everything below the cutoff has been read, whoever
  still has a ticket is at or past that block (`NobodyBehind`). The proof needs
  the order of try_start_reclaim here: the cutoff is taken last.

**Model-checked only.** The properties of the channel
and of init's layout, that the four queues implement `ClosableQueue`, and everything temporal:
`WaitersGoOn`, `CallsReturn` and `WorkRunsAndTeardownEnds`. Liveness and fairness are outside the prover's fragment. Induction theorems with a predicate as
parameter are too; what can be said by a least counterexample, as for `Chain`, can be proved,
but the layout's recursive definitions (the matrices, the distribution of threads) nest and
accumulate, and what they compute for every machine is left to TLC.

## 6. Where code and words differ

With a run:

* **ex_cpu_st's teardown can hang** (`ex_cpu_st_queued`). If an item lies in a slot
  that the worker had announced, and the worker sees the stop request before it takes
  it, the producer's wake is counted and the worker's never is: the loop at
  `ex_cpu_st.ipp:490` does not end. `ex_cpu_st.hpp:175-176` says that teardown does not
  wait for queued work.
* **qu_mpsc_bounded may reorder one producer's items** (`queues_order`). A ticket only names
  a slot, and whoever claims the slot first gets its turn: with a stalled producer a round
  behind, a producer's later item can take the earlier turn. `qu_mpsc_bounded.hpp:8` calls the
  queue linearizable, and 394-395 explain the claim as if only the tickets had raced.
* **A reclaim may look at a deleted block of a channel without reuse** (`channel_free`). A
  new hazard pointer can be set from a head that a whole reclaim has deleted meanwhile. Its
  owner notices and starts again, as the comment at `channel.hpp:1198` asks, but a second
  reclaim that starts in between dereferences the pointer (`channel.hpp:759`).
* **A worker's inbox may lie past the end of the vector** (`inbox_indexes`). `init` makes as
  many inboxes as the last thread's index says (`ex_cpu.ipp:1013`), because the index "is
  returned in ascending order". With two partitions that share the cores of the last group as
  A, B, B, A and threads pinned to cores the indexes are 0, 1, 1, 0, and two threads are given
  `&q_inbox[1]` of a vector of one.

Without a run, met while translating. The first four are stated in modules
(`ExCpuSt!NoStorageUseAfterTeardown` and `NoUseAfterTeardown`, `RwLock!NoUseAfterResume`,
`AtomicCondvar!WokenInLIFOOrder`) and TLC refutes all four:

* A bulk post may read a destroyed block of ex_cpu_st's queue. `qu_mpsc_blocking.hpp:247-248`
  says that owners may wait for the two counts to match before they destroy the queue's
  storage, and teardown does. But post_bulk follows `block->next` after the last slot of
  a block (`qu_mpsc_blocking.hpp:623`), also when no item is left. The items may have run
  meanwhile, the counts match, and the block is gone.
* `ex_cpu_st`'s post calls `request_yield` after it has published its last item and woken nobody
  (`ex_cpu_st.ipp:146-149`, `ex_cpu_st.hpp:223-226`). With more than one priority this
  reads and exchanges `yield_priority` of the executor, which may be destroyed by then:
  neither counter covers that access. The comment at `ex_cpu_st.ipp:466-489` speaks of the futex
  only, and to that extent it is right (`NoWakeAfterTeardown`).
* rw_lock may be touched late: a thread that registered a reader stops before the
  compare-exchange of `try_wake`; another thread wakes that reader; all tasks end and the
  lock is destroyed; the first thread then exchanges the word (`rw_lock.ipp:88`).
* atomic_condvar is not LIFO: removal moves the last waiter of the vector into the hole
  (`atomic_condvar.hpp:188`), after which an earlier waiter can be found before a later
  one; lines 177-178 and 259 say LIFO.
* rw_lock's readers may overtake a writer: between the last `unlock_read` and its claim of
  WAKING, a reader that suspends calls `try_wake<false>` (`rw_lock.ipp:66`), finds itself
  preferred, and takes the lock; `rw_lock.hpp:287-291` promises that the last reader passes
  the lock to the writer. No exclusion is broken and nobody is lost.
* In the state of the hanging teardown the two sums can also balance by chance while a
  producer is about to wake or to count, against the comment at
  `ex_cpu_st.ipp:487-489`. In the portable build a post into a WAITING slot while an item of
  lower priority runs requests no yield.
* `qu_mpsc_blocking.hpp:243-247` says that only failed wakes are counted with
  futex_waitv; the code counts every wake.
* `latch::is_ready` may return true before the event inside is set.
* A barrier of count 1 or less with two concurrent awaiters walks past the end of
  its chain; `barrier.hpp:44-45` excludes that use.
* The "clear" branch of `try_wake` at `rw_lock.ipp:125-134` cannot be reached.
* `qu_spsc_bounded`'s slot index is the offset modulo the capacity; at the wrap of the offset
  itself a capacity that is no power of two would give one slot to two items of a bulk push,
  which takes 2^32 items on a 32-bit platform.
* A consumer of a channel that close wakes with nothing keeps its `active_offset`, and
  with it protects its block until its token's next call.
* `ex_cpu.ipp:669` returns to the top of the loop without setting the spinning bit,
  which the next step repairs; the comment at `ex_cpu.ipp:411-413` says that the
  inbox may run items outside a thread's priorities, which the guard at 479 excludes.
* A priority can be left without a thread though the partitions cover it, which
  `ex_cpu.ipp:784-794` wants to exclude: packing a small thread count empties the groups of
  one partition. `init` then reads `tidsByPrio[prio][0]` of an empty vector
  (`ex_cpu.ipp:1103`).
* `topology_filter::operator|` joins the cores of two filters without asking for their
  kinds (`topology.ipp:125-159`): with a filter by core and kind, threads are made on cores of
  neither partition, and have no priority.
* `ex_manual_st.ipp:118` says that a non-zero ThreadHint means rescheduling; the code
  keeps the item private for every hint but zero.

## 7. What is not modelled

PROJECT.json lists every component with its reason. In short:

* of `ex_cpu` the yield interrupts (they change no queue and wake nobody),
  `post_bulk` (a post whose items share one notify), and several thread groups at
  work (their layout is `ExCpuLayout`); of `qu_mpsc_blocking` the list of
  blocks (`MpscUnbounded` has the same list with the same hints);
* `ex_braid` and `ex_manual_st`, which add no shared state to the queue and the reference
  count that other modules have;
* of the topology the reading of hwloc's tree and its grouping by caches, filters and pinning
  by NUMA node, the container's quota, and the query that users call;
* bitsets of more than one word;
* deques of 2^31 items and a thief that sleeps through a whole lap of 2^32 indices, which
  `WidthAssumption` excludes; the wrap of 64-bit offsets of queues and channel;
* weak memory beyond what section 3 describes: what hardware weaker than x86 may do to
  `notify_hint`, which has no barrier between the inbox and the bitset, is not checked;
* vendored code (`qu_mc`), adapters to Asio and hwloc, type-erased handles, and helpers of a
  single thread.

## 8. Plan

The modules above cover what the first plan named, except these, in order of what they would add:

1. `post_bulk` and `request_yield` of `ex_cpu`, and several thread groups, which needs a
   coarser model of the worker loop than `ExCpu` to stay within TLC's reach.
2. The blocks of `qu_mpsc_blocking` under `ExCpuSt`, over `BlockList`.
3. `query_internal`'s grouping of cores by cache, and NUMA nodes in `ExCpuLayout`.

Proofs, in order: that the four queues implement `ClosableQueue`, whose abstract set and sequence
the invariants of section 5 would have to mention; the hazard pointers of `Channel`, over the
lemmas about `BlockList` in `QueuesProof`.
