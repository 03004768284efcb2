------------------------------- MODULE ExCpuSt -------------------------------
(***************************************************************************)
(* tmc::ex_cpu_st: one worker thread that takes from its private stacks    *)
(* and from one blocking queue per priority (qu_mpsc_blocking), announces  *)
(* in the queues' slots that it waits, sleeps, and is torn down once the   *)
(* producers that woke it are counted.                                     *)
(*                                                                         *)
(* A queue is the array of its slots: blocks are left out, except that     *)
(* post_bulk follows the link of a block whose last slot it has written.   *)
(***************************************************************************)
EXTENDS Integers

CONSTANTS Outside,    \* producers: threads that are not the worker
          Worker,     \* the worker thread
          Priorities, \* 0..(PRIORITY_COUNT - 1)
          Counts,     \* bound: how many items post and post_bulk get
          MaxPosts,   \* bound: items posted in a behaviour
          BlockSize,  \* slots in a block
          JobsDone    \* TRUE: who tears down knows that every item has run

ASSUME BoundsAssumption ==
  Counts \subseteq Nat \ {0} /\ MaxPosts \in Nat /\ BlockSize \in Nat \ {0}

VARIABLES
  waitv,        \* the build: TMC_USE_FUTEX_WAITV or the shared wake word
  flags,        \* flags[p][i]: element::flags of slot i of queue p
  write_offset, read_offset,
  wake_ref_count,
  private,      \* private_work[p].size()
  wait_count,
  didWait,      \* priorities p with didWait[p]
  wpc, wprio,   \* the worker's place in its loop, and the priority it looks at
  woken,        \* a wake that ends the worker's sleep
  yield_priority,
  stop,         \* the stop token, and stop_wait # 0
  down, tally,  \* how far teardown got, and its sum over the queues
  produced,     \* items posted so far
  posting       \* the post or post_bulk each thread is inside

queueVars == <<flags, write_offset, read_offset, private>>
counts == <<wake_ref_count, wait_count, didWait>>
worker == <<wpc, wprio>>
ending == <<stop, down, tally>>
vars == <<waitv, queueVars, counts, worker, woken, yield_priority, ending, produced, posting>>

Callers == Outside \cup {Worker}
Last == CHOOSE p \in Priorities : \A q \in Priorities : q <= p

ASSUME PrioritiesAssumption == Last \in Nat /\ Priorities = 0..Last

\* A call: its place, its queue, the slot it is at, the items from there on, whether it
\* is post_bulk, didWake, and the yield_priority that it has read.
NotPosting == [at |-> "none", prio |-> 0, idx |-> 0, left |-> 0,
               bulk |-> FALSE, woke |-> FALSE, seen |-> 0]

Init ==
  /\ waitv \in BOOLEAN
  /\ flags = [p \in Priorities |-> [i \in 0..MaxPosts |-> "empty"]]
  /\ write_offset = [p \in Priorities |-> 0] /\ read_offset = write_offset
  /\ wake_ref_count = [p \in Priorities |-> 0] /\ wait_count = 0 /\ didWait = {}
  /\ private = [p \in Priorities |-> 0]
  /\ wpc = "top" /\ wprio = 0 /\ woken = FALSE
  /\ yield_priority = Last + 1      \* NO_TASK_RUNNING
  /\ stop = [requested |-> FALSE, wait |-> FALSE]
  /\ down = "up" /\ tally = [prio |-> 0, sum |-> 0]
  /\ produced = 0
  /\ posting = [c \in Callers |-> NotPosting]
-----------------------------------------------------------------------------
(* post and post_bulk. *)

\* After the last item, request_yield if nobody was woken and there are priorities.
EndOfCall(call) ==
  IF call.woke \/ Last = 0 THEN NotPosting ELSE [call EXCEPT !.at = "load", !.bulk = FALSE]
GoOn(call) == IF call.left > 0 THEN [call EXCEPT !.at = "write"] ELSE EndOfCall(call)

\* The worker keeps what it posts without a ThreadHint of zero.
PostPrivate(p, n) ==
  /\ posting[Worker].at = "none" /\ wpc = "run"
  /\ JobsDone => down = "up"
  /\ produced + n <= MaxPosts /\ produced' = produced + n
  /\ private' = [private EXCEPT ![p] = @ + n]
  /\ posting' = [posting EXCEPT ![Worker] = EndOfCall([NotPosting EXCEPT !.prio = p])]
  /\ UNCHANGED <<waitv, flags, write_offset, read_offset, counts, worker, woken, yield_priority, ending>>

\* get_write_ticket: n slots are reserved at once.
Post(c, p, n, bulk) ==
  /\ posting[c].at = "none"
  /\ IF c = Worker THEN wpc = "run" /\ (JobsDone => down = "up") ELSE down = "up"
  /\ bulk \/ n = 1
  /\ produced + n <= MaxPosts /\ produced' = produced + n
  /\ write_offset' = [write_offset EXCEPT ![p] = @ + n]
  /\ posting' = [posting EXCEPT ![c] =
                   [at |-> "write", prio |-> p, idx |-> write_offset[p], left |-> n,
                    bulk |-> bulk, woke |-> FALSE, seen |-> 0]]
  /\ UNCHANGED <<waitv, flags, read_offset, private, counts, worker, woken, yield_priority, ending>>

\* An item is posted; post_bulk comes to the end of a block.
NextItem(c) ==
  LET call == [posting[c] EXCEPT !.idx = posting[c].idx + 1, !.left = posting[c].left - 1]
  IN posting' = [posting EXCEPT ![c] =
       IF call.bulk /\ call.idx % BlockSize = 0 THEN [call EXCEPT !.at = "next"] ELSE GoOn(call)]

\* write_element: the exchange that publishes the item.
Write(c) ==
  LET p == posting[c].prio  i == posting[c].idx
  IN /\ posting[c].at = "write"
     /\ flags' = [flags EXCEPT ![p][i] = "data"]
     /\ IF flags[p][i] = "waiting" THEN posting' = [posting EXCEPT ![c].at = "wake"]
        ELSE NextItem(c)
     /\ UNCHANGED <<waitv, write_offset, read_offset, private, counts, worker, woken,
                    yield_priority, ending, produced>>

\* A futex wakes who sleeps on it; the shared word also stops who will compare it.
ComparingLate == {"sleep", "asleep"}   \* Mutant: wake_wait is loaded last.
Comparing == {"pull", "stopCheck", "recheck", "sleep", "asleep"}
Signal(onFutex) ==
  woken' = (woken \/ (IF waitv THEN wpc = "asleep" /\ onFutex ELSE wpc \in Comparing))

\* The worker sleeps on the slots that it would read next.  One that is woken already may
\* count as woken again.
Wake(c) ==
  LET call == posting[c]  onFutex == call.idx = read_offset[call.prio]
  IN /\ call.at = "wake"
     /\ Signal(onFutex)
     /\ \E found \in IF waitv /\ woken THEN BOOLEAN ELSE {TRUE} :
          posting' = [posting EXCEPT ![c] =
            [call EXCEPT !.at = "count",
               !.woke = call.woke \/ ~waitv \/ (wpc = "asleep" /\ onFutex /\ found)]]
     /\ UNCHANGED <<waitv, queueVars, counts, worker, yield_priority, ending, produced>>

\* wake_ref_count.fetch_add: the last that teardown waits for, not the end of the call.
CountWake(c) ==
  /\ posting[c].at = "count"
  /\ wake_ref_count' = [wake_ref_count EXCEPT ![posting[c].prio] = @ + 1]
  /\ NextItem(c)
  /\ UNCHANGED <<waitv, queueVars, wait_count, didWait, worker, woken, yield_priority, ending, produced>>

\* post_bulk reads block->next, also after its last item.
NextBlock(c) ==
  /\ posting[c].at = "next"
  /\ posting' = [posting EXCEPT ![c] = GoOn(posting[c])]
  /\ UNCHANGED <<waitv, queueVars, counts, worker, woken, yield_priority, ending, produced>>

\* The loop of request_yield, by the yield_priority that it has read last.
TryToLower(c) ==
  posting' = [posting EXCEPT ![c] =
    IF yield_priority > posting[c].prio
    THEN [posting[c] EXCEPT !.at = "cas", !.seen = yield_priority] ELSE NotPosting]

LoadYield(c) ==
  /\ posting[c].at = "load"
  /\ TryToLower(c)
  /\ UNCHANGED <<waitv, queueVars, counts, worker, woken, yield_priority, ending, produced>>

CasYield(c) ==
  /\ posting[c].at = "cas"
  /\ IF yield_priority = posting[c].seen
     THEN yield_priority' = posting[c].prio /\ posting' = [posting EXCEPT ![c] = NotPosting]
     ELSE TryToLower(c) /\ UNCHANGED yield_priority
  /\ UNCHANGED <<waitv, queueVars, counts, worker, woken, ending, produced>>

PostStep(c) ==
  Write(c) \/ Wake(c) \/ CountWake(c) \/ NextBlock(c) \/ LoadYield(c) \/ CasYield(c)
-----------------------------------------------------------------------------
(* The worker loop. *)

At(label, p) == wpc' = label /\ wprio' = p
Filled(p) == flags[p][read_offset[p]] = "data"    \* ~empty()

\* TOP of try_run_some.
Top ==
  /\ wpc = "top"
  /\ woken' = FALSE
  /\ At(IF stop.requested THEN "exited" ELSE "scan", 0)
  /\ UNCHANGED <<waitv, queueVars, counts, yield_priority, ending, produced, posting>>

PopPrivate ==
  /\ wpc = "scan" /\ private[wprio] > 0
  /\ private' = [private EXCEPT ![wprio] = @ - 1]
  /\ At("start", wprio)
  /\ UNCHANGED <<waitv, flags, write_offset, read_offset, counts, woken, yield_priority, ending, produced, posting>>

\* Mutant: didWait is not reset.
TakeItemStillWaiting(p) ==
  /\ read_offset' = [read_offset EXCEPT ![p] = @ + 1]
  /\ wait_count' = IF p \in didWait THEN wait_count + 1 ELSE wait_count
  /\ UNCHANGED didWait
  /\ At("start", p)
\* An item is taken from queue p; one whose slot the worker had announced to wait
\* for is accounted.
TakeItem(p) ==
  /\ read_offset' = [read_offset EXCEPT ![p] = @ + 1]
  /\ wait_count' = IF p \in didWait THEN wait_count + 1 ELSE wait_count
  /\ didWait' = didWait \ {p}
  /\ At("start", p)

TryPull ==
  /\ wpc = "scan" /\ private[wprio] = 0 /\ Filled(wprio)
  /\ TakeItem(wprio)
  /\ UNCHANGED <<waitv, flags, write_offset, private, wake_ref_count, woken, yield_priority, ending, produced, posting>>

\* Nothing of this priority.  After the last one the post-run hook may send the
\* worker to the top.
NothingHere ==
  /\ wpc = "scan" /\ private[wprio] = 0 /\ ~Filled(wprio)
  /\ IF wprio # Last THEN At("scan", wprio + 1)
     ELSE \E label \in {"top", "spin"} : At(label, 0)
  /\ UNCHANGED <<waitv, queueVars, counts, woken, yield_priority, ending, produced, posting>>

\* run_one: its priority is what others compare theirs with.
RunOne ==
  /\ wpc = "start"
  /\ yield_priority' = IF Last > 0 THEN wprio ELSE yield_priority
  /\ At("run", 0)
  /\ UNCHANGED <<waitv, queueVars, counts, woken, ending, produced, posting>>

\* The item returns.
ItemEnds ==
  /\ wpc = "run" /\ posting[Worker].at = "none"
  /\ At("top", 0)
  /\ UNCHANGED <<waitv, queueVars, counts, woken, yield_priority, ending, produced, posting>>

\* The spin loop ends on work, on a stop, or after its turns; then wake_wait is
\* loaded.
Spin ==
  /\ wpc = "spin"
  /\ \/ (\E p \in Priorities : Filled(p)) /\ At("top", 0)
     \/ At("pull", 0)
  /\ UNCHANGED <<waitv, queueVars, counts, woken, yield_priority, ending, produced, posting>>

\* pull(): take the item, or exchange WAITING into its slot.
Pull ==
  /\ wpc = "pull"
  /\ IF Filled(wprio)
     THEN TakeItem(wprio) /\ UNCHANGED flags
     ELSE /\ flags' = [flags EXCEPT ![wprio][read_offset[wprio]] = "waiting"]
          /\ didWait' = didWait \cup {wprio}
          /\ IF wprio = Last THEN At("stopCheck", 0) ELSE At("pull", wprio + 1)
          /\ UNCHANGED <<read_offset, wait_count>>
  /\ UNCHANGED <<waitv, write_offset, private, wake_ref_count, woken, yield_priority, ending, produced, posting>>

\* stop_requested(); the portable build looks at the queues once more.
StopCheck ==
  /\ wpc = "stopCheck"
  /\ At(IF stop.requested THEN "exited" ELSE IF waitv THEN "sleep" ELSE "recheck", 0)
  /\ UNCHANGED <<waitv, queueVars, counts, woken, yield_priority, ending, produced, posting>>

Recheck ==
  /\ wpc = "recheck"
  /\ IF Filled(wprio) THEN At("top", 0)
     ELSE IF wprio = Last THEN At("sleep", 0) ELSE At("recheck", wprio + 1)
  /\ UNCHANGED <<waitv, queueVars, counts, woken, yield_priority, ending, produced, posting>>

\* futex_waitv sleeps if every word still has its value; wake_wait.wait(waitValue)
\* compares when it is woken.
Sleep ==
  /\ wpc = "sleep"
  /\ At(IF waitv /\ (stop.wait \/ \E p \in Priorities : Filled(p)) THEN "top" ELSE "asleep", 0)
  /\ UNCHANGED <<waitv, queueVars, counts, woken, yield_priority, ending, produced, posting>>

WakeUp ==
  /\ wpc = "asleep" /\ woken
  /\ At("top", 0)
  /\ UNCHANGED <<waitv, queueVars, counts, woken, yield_priority, ending, produced, posting>>

WorkerStep ==
  \/ Top \/ PopPrivate \/ TryPull \/ NothingHere \/ RunOne \/ ItemEnds \/ Spin
  \/ Pull \/ StopCheck \/ Recheck \/ Sleep \/ WakeUp
-----------------------------------------------------------------------------
(* teardown. *)

\* All items of the call are in their slots.
AllPublished(call) == call.left = IF call.at \in {"wake", "count"} THEN 1 ELSE 0

\* Posts that are still under way have published all their items, and those have
\* begun: nobody else could know that the executor is no longer used.
BeginTeardown ==
  /\ down = "up"
  /\ \A c \in Outside :
       /\ AllPublished(posting[c])
       /\ posting[c].idx + posting[c].left <= read_offset[posting[c].prio]
       /\ posting[c].at # "none" => wpc # "start"
  /\ JobsDone => /\ wpc # "start"
                 /\ \A p \in Priorities : read_offset[p] = write_offset[p] /\ private[p] = 0
  /\ down' = "request"
  /\ UNCHANGED <<waitv, queueVars, counts, worker, woken, yield_priority, stop, tally, produced, posting>>

RequestStop ==
  /\ down = "request" /\ down' = "store"
  /\ stop' = [stop EXCEPT !.requested = TRUE]
  /\ UNCHANGED <<waitv, queueVars, counts, worker, woken, yield_priority, tally, produced, posting>>

StoreStopWait ==
  /\ down = "store" /\ down' = "wake"
  /\ stop' = [stop EXCEPT !.wait = TRUE]
  /\ UNCHANGED <<waitv, queueVars, counts, worker, woken, yield_priority, tally, produced, posting>>

StopWake ==
  /\ down = "wake" /\ down' = "join"
  /\ Signal(TRUE)
  /\ UNCHANGED <<waitv, queueVars, counts, worker, yield_priority, stop, tally, produced, posting>>

Join ==
  /\ down = "join" /\ wpc = "exited" /\ down' = "count"
  /\ UNCHANGED <<waitv, queueVars, counts, worker, woken, yield_priority, stop, tally, produced, posting>>

\* The sum of wake_ref_count, one queue after the other...
CountWakes ==
  /\ down = "count"
  /\ tally' = [prio |-> IF tally.prio = Last THEN 0 ELSE tally.prio + 1,
               sum |-> tally.sum + wake_ref_count[tally.prio]]
  /\ down' = IF tally.prio = Last THEN "compare" ELSE "count"
  /\ UNCHANGED <<waitv, queueVars, counts, worker, woken, yield_priority, stop, produced, posting>>

\* Mutant: teardown goes on once no more wakes are counted than the worker expects.
CompareLoosely ==
  /\ down = "compare"
  /\ down' = IF tally.sum <= wait_count THEN "gone" ELSE "count"
  /\ tally' = [prio |-> 0, sum |-> 0]
  /\ UNCHANGED <<waitv, queueVars, counts, worker, woken, yield_priority, stop, produced, posting>>
\* ... until it is the worker's count; then the queues are destroyed.
Compare ==
  /\ down = "compare"
  /\ down' = IF tally.sum = wait_count THEN "gone" ELSE "count"
  /\ tally' = [prio |-> 0, sum |-> 0]
  /\ UNCHANGED <<waitv, queueVars, counts, worker, woken, yield_priority, stop, produced, posting>>

TeardownStep == RequestStop \/ StoreStopWait \/ StopWake \/ Join \/ CountWakes \/ Compare

Next ==
  \/ WorkerStep
  \/ \E c \in Callers : PostStep(c)
  \/ \E c \in Callers, p \in Priorities, n \in Counts, bulk \in BOOLEAN : Post(c, p, n, bulk)
  \/ \E p \in Priorities, n \in Counts : PostPrivate(p, n)
  \/ BeginTeardown \/ TeardownStep
  \/ down = "gone" /\ UNCHANGED vars
Spec == Init /\ [][Next]_vars

\* The worker, a thread inside post and teardown go on; nobody has to post or to
\* tear down.
Goes(c) == PostStep(c) \/ (c = Worker /\ WorkerStep)
FairSpec ==
  /\ Spec
  /\ \A c \in Callers : WF_vars(Goes(c))
  /\ WF_vars(TeardownStep)
-----------------------------------------------------------------------------
(* Properties. *)

\* Every variable has its type, and no queue is read past what was reserved in it.
Calls == [at : {"none", "write", "wake", "count", "next", "load", "cas"}, prio : Priorities,
          idx : Nat, left : Nat, bulk : BOOLEAN, woke : BOOLEAN, seen : Nat]
TypeOK ==
  /\ waitv \in BOOLEAN /\ woken \in BOOLEAN
  /\ flags \in [Priorities -> [0..MaxPosts -> {"empty", "waiting", "data"}]]
  /\ write_offset \in [Priorities -> 0..MaxPosts]
  /\ read_offset \in [Priorities -> 0..MaxPosts]
  /\ \A p \in Priorities : read_offset[p] <= write_offset[p]
  /\ wake_ref_count \in [Priorities -> Nat] /\ wait_count \in Nat
  /\ didWait \subseteq Priorities
  /\ private \in [Priorities -> Nat]
  /\ wpc \in {"top", "scan", "start", "run", "spin", "pull", "stopCheck", "recheck", "sleep", "asleep", "exited"}
  /\ wprio \in Priorities
  /\ yield_priority \in 0..(Last + 1)
  /\ stop \in [requested : BOOLEAN, wait : BOOLEAN]
  /\ down \in {"up", "request", "store", "wake", "join", "count", "compare", "gone"}
  /\ tally \in [prio : Priorities, sum : Nat]
  /\ produced \in 0..MaxPosts
  /\ posting \in [Callers -> Calls]

\* An item the worker can take does not lie in a queue while the worker sleeps and
\* nobody is about to wake it: WAITING is exchanged into the slot before the sleep
\* and the item after (the StoreLoad barrier of write_element).
NoLostWakeup ==
  wpc = "asleep" /\ ~woken =>
    /\ \A p \in Priorities : Filled(p) =>
         \E c \in Callers : /\ posting[c].at = "wake" /\ posting[c].prio = p
                            /\ posting[c].idx = read_offset[p]
    /\ stop.requested => down \in {"store", "wake"}

\* ex_cpu_st.ipp on the race of teardown: the two counts are equal only when no producer
\* still has a slot to fill, its futex to wake or the wake to count.
NoWakeAfterTeardown ==
  down = "gone" =>
    wpc = "exited" /\ \A c \in Callers : posting[c].at \notin {"write", "wake", "count"}

\* qu_mpsc_blocking.hpp on its count: "owners may wait for both sides to match before
\* destroying the queue storage".  The code does not have this: post_bulk still reads
\* block->next of a block that it has filled.
NoStorageUseAfterTeardown ==
  down = "gone" =>
    \A c \in Callers : posting[c].at \notin {"write", "wake", "count", "next"}

\* No part of a post comes after teardown's end.  The code does not have this either:
\* request_yield uses the executor behind a post's last item, and nobody counts that.
NoUseAfterTeardown == down = "gone" => \A c \in Callers : posting[c].at = "none"

\* request_yield: of several requests the one of the higher priority prevails, until the
\* worker begins its next item, whoever's request was decided before the item began.
HigherYieldPrevails ==
  [][wpc = "run" /\ wpc' = "run" => yield_priority' <= yield_priority]_vars

\* Doc of teardown: it stops the executor, joins the worker and destroys the
\* resources, and does not wait for queued work.
TeardownEnds == down = "request" ~> down = "gone"

\* What is posted runs unless the executor is torn down, and a teardown ends.
Pending == \E p \in Priorities : private[p] > 0 \/ read_offset[p] < write_offset[p]
WorkRunsAndTeardownEnds ==
  /\ Pending ~> (~Pending \/ down # "up")
  /\ TeardownEnds
=============================================================================
