------------------------------- MODULE MCSync -------------------------------
(***************************************************************************)
(* Model checking of the primitives with a protocol of their own: a        *)
(* behaviour is one of a tiny_mutex, an rw_lock, a manual_reset_event, a   *)
(* latch or a barrier, used by the same tasks.  The variables that a       *)
(* primitive does not use keep one value.                                  *)
(***************************************************************************)
EXTENDS TinyMutex, Sequences

CONSTANTS Threads, NoTask,
          LockRounds, \* bound: acquisitions a task attempts of the rw_lock
          Count       \* of the latch; the barrier counts all tasks

ASSUME NoTaskAssumption == NoTask \notin Tasks
ASSUME ThreadsAssumption == IsFiniteSet(Threads)
ASSUME TasksAssumption == IsFiniteSet(Tasks)
\* READY of an event is a value of its own: neither a null pointer nor a node.
ASSUME ReadyAssumption == "READY" \notin Tasks /\ NULL # "READY"
ASSUME CountsAssumption == LockRounds \in Nat /\ Count \in Nat

VARIABLES prim,
          value, lists, holds, pc, self, local, taken,        \* rw_lock
          head, kept, count, counters, arrived, done_count    \* the event and what is built on it

RW == INSTANCE RwLock WITH MaxRounds <- LockRounds
E == INSTANCE ManualResetEvent
L == INSTANCE Latch
B == INSTANCE Barrier WITH Count <- Cardinality(Tasks), MaxRounds <- 3

\* Which variables each primitive leaves unused.
tinyOnly == <<running, top, refs, rpc>>
rwOnly == <<value, lists, holds, local, taken>>
latchOnly == <<count, counters, arrived>>
mcVars == <<vars, prim, rwOnly, pc, self, head, kept, latchOnly, done_count>>

Unused(p) ==
  /\ p # "tiny_mutex" => /\ running = FALSE /\ top = NULL /\ refs = 1
                         /\ rpc = [r \in Runners |-> "none"]
  /\ p # "rw_lock" => /\ value = NoTask /\ lists = NoTask /\ holds = NoTask
                      /\ local = NoTask /\ taken = NoTask
  /\ p = "tiny_mutex" => pc = NoTask /\ self = NoTask
  /\ p = "rw_lock" => next = NoTask /\ curr = NoTask
  /\ p \in {"tiny_mutex", "rw_lock"} => head = NoTask /\ kept = NoTask
  /\ p # "latch" => count = NoTask /\ counters = NoTask /\ arrived = NoTask
  /\ p # "barrier" => done_count = NoTask
Keeps(p) ==
  /\ p # "tiny_mutex" => UNCHANGED tinyOnly
  /\ p # "rw_lock" => UNCHANGED rwOnly
  /\ p = "tiny_mutex" => UNCHANGED <<pc, self>>
  /\ p = "rw_lock" => UNCHANGED <<next, curr>>
  /\ p \in {"tiny_mutex", "rw_lock"} => UNCHANGED <<head, kept>>
  /\ p # "latch" => UNCHANGED latchOnly
  /\ p # "barrier" => UNCHANGED done_count

MCInit ==
  \/ prim = "tiny_mutex" /\ Init /\ Unused("tiny_mutex")
  \/ prim = "rw_lock" /\ RW!Init /\ Unused("rw_lock")
  \/ prim = "event" /\ E!Init /\ Unused("event")
  \/ prim = "latch" /\ L!Init /\ Unused("latch")
  \/ prim = "barrier" /\ B!Init /\ Unused("barrier")

Of(p, step) == prim = p /\ step /\ Keeps(p) /\ UNCHANGED prim
TaskGoes(t) == Of("tiny_mutex", TaskStep(t))
RunnerGoes(r) == Of("tiny_mutex", RunnerStep(r))
ThreadGoes(th) ==
  \/ Of("rw_lock", RW!Step(th)) \/ Of("event", E!Step(th))
  \/ Of("latch", L!Step(th)) \/ Of("barrier", B!Step(th))
MCTerminated ==
  /\ \/ prim = "tiny_mutex" /\ Terminated
     \/ prim = "rw_lock" /\ RW!Terminated
     \/ prim = "event" /\ E!Terminated
     \/ prim = "latch" /\ L!Terminated
     \/ prim = "barrier" /\ B!Terminated
  /\ UNCHANGED mcVars

MCNext ==
  \/ \E t \in Tasks : TaskGoes(t)
  \/ \E r \in Runners : RunnerGoes(r)
  \/ \E th \in Threads : ThreadGoes(th)
  \/ MCTerminated

\* Tasks, runners and threads that can take a step take one, as in the
\* specifications of the five.
MCSpec ==
  /\ MCInit /\ [][MCNext]_mcVars
  /\ \A t \in Tasks : WF_mcVars(TaskGoes(t))
  /\ \A r \in Runners : WF_mcVars(RunnerGoes(r))
  /\ \A th \in Threads : WF_mcVars(ThreadGoes(th))
-----------------------------------------------------------------------------
\* Many readers or one writer, also across a hand-over of the rw_lock
\* (RwLock!ReadersXorWriter).
ReadersXorWriter == prim = "rw_lock" => RW!ReadersXorWriter

\* The WAKING bit is exclusive, and its claimer finds somebody to wake: the comment in
\* rw_lock's try_wake and its asserts (RwLock!WakingIsExclusive).
WakingIsExclusive == prim = "rw_lock" => RW!WakingIsExclusive

\* Nobody waits for what is there: no task is left in a list of a quiet rw_lock that
\* could have the lock, and none waits for an event that is set unless somebody is
\* waking it.
NobodyLeftBehind ==
  /\ prim = "rw_lock" => RW!NoLostWakeup
  /\ prim \in {"event", "latch", "barrier"} => E!NobodyLeftBehind

\* Every waiter of an event is on one list, and the last arrival at a barrier finds its
\* node in the chain it took.
EveryWaiterListed ==
  /\ prim \in {"event", "latch", "barrier"} => E!OnOneList
  /\ prim = "barrier" => B!MeIsInChain

\* The latch opens for nobody before Count calls of count_down, and no task leaves a
\* phase of the barrier that another has not entered.
NobodyReleasedEarly ==
  (prim = "latch" => L!NoEarlyRelease) /\ (prim = "barrier" => B!PhasesInStep)

\* A waiter that passes a latch may destroy it; nobody touches the barrier once a task
\* has left its last phase.
SafeToDestroy == (prim = "latch" => L!SafeToDestroy) /\ (prim = "barrier" => B!NoLateTouch)

\* Whoever queues for a tiny_mutex, suspends in an rw_lock or waits for a latch or a
\* barrier goes on, whoever waited when an event was set goes on, and a latch whose
\* is_ready may return true opens.  Tasks are few and their rounds bounded, so nobody
\* waits in turns with others for ever.
Forgotten ==
  \/ \E t \in Tasks :
       /\ tstate[t] \in {"queued", "waiting"}
       /\ prim = "event" => \E th \in Threads : t \in E!Held(th)
  \/ prim = "latch" /\ count < 0 /\ head # E!READY
WaitersGoOn == []<>~Forgotten
=============================================================================
