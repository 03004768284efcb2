------------------------------- MODULE Barrier -------------------------------
(***************************************************************************)
(* tmc::barrier: a WaiterStack and a counter of the arrivals still missing *)
(* in this phase.  Every task waits MaxRounds times, so the number of      *)
(* waiters in a phase is the number of tasks.                              *)
(***************************************************************************)
EXTENDS WaiterStack

CONSTANT Count   \* argument of the constructor

VARIABLES alive,       \* FALSE once the destructor has begun
          done_count   \* arrivals still missing, less one

vars == <<stackVars, alive, done_count>>

start_count == Count - 1
Steps == {"arrive", "take", "reset", "unlink"}

TypeOK ==
  /\ TypesOK(Steps)
  /\ alive \in BOOLEAN
  /\ done_count \in -1..start_count

Init == InitWith(NULL) /\ alive = TRUE /\ done_count = start_count

\* co_await: push the node, then stay in await_suspend.
Await(th) ==
  /\ alive /\ BeginRound(th)
  /\ PushNode(self[th])
  /\ tstate' = [tstate EXCEPT ![self[th]] = "waiting"]
  /\ pc' = [pc EXCEPT ![th] = "arrive"]
  /\ UNCHANGED <<self, curr, kept, alive, done_count>>

\* Mutant: the arrival before the last one also ends the phase.
MoreToComeEarly(remaining) == remaining > 1
MoreToCome(remaining) == remaining > 0

\* fetch_sub: unless it was the last one, the thread lets go of the task.
Arrive(th) ==
  /\ pc[th] = "arrive"
  /\ done_count' = done_count - 1
  /\ IF MoreToCome(done_count)
     THEN pc' = [pc EXCEPT ![th] = "idle"] /\ self' = [self EXCEPT ![th] = NULL]
     ELSE pc' = [pc EXCEPT ![th] = "take"] /\ self' = self
  /\ UNCHANGED <<head, next, sched, curr, kept, alive>>

\* take_all: output is never used here, so it is one exchange of input.
TakeAll(th) ==
  /\ pc[th] = "take"
  /\ curr' = [curr EXCEPT ![th] = head]
  /\ head' = NULL
  /\ pc' = [pc EXCEPT ![th] = "reset"]
  /\ UNCHANGED <<next, sched, self, kept, alive, done_count>>

\* Mutant: the next phase expects one arrival less.
ResetShort(th) ==
  /\ pc[th] = "reset"
  /\ done_count' = start_count - 1
  /\ pc' = [pc EXCEPT ![th] = "unlink"]
  /\ UNCHANGED <<head, next, sched, self, curr, kept, alive>>
\* done_count is restored before anybody is woken.
Reset(th) ==
  /\ pc[th] = "reset"
  /\ done_count' = start_count
  /\ pc' = [pc EXCEPT ![th] = "unlink"]
  /\ UNCHANGED <<head, next, sched, self, curr, kept, alive>>

\* Take `me`, the task that goes on here, out of the chain.
Unlink(th) ==
  LET me == self[th]
      before == {t \in NodesFrom(curr[th]) : next[t] = me}
  IN  /\ pc[th] = "unlink" /\ me \in NodesFrom(curr[th])
      /\ IF curr[th] = me
         THEN curr' = [curr EXCEPT ![th] = next[me]] /\ next' = next
         ELSE curr' = curr /\ next' = [t \in Tasks |-> IF t \in before THEN next[me] ELSE next[t]]
      /\ tstate' = [tstate EXCEPT ![me] = "running"]
      /\ pc' = [pc EXCEPT ![th] = IF curr'[th] = NULL THEN "user" ELSE "wake"]
      /\ UNCHANGED <<head, rounds, self, kept, alive, done_count>>

Quiet == \A th \in Threads : pc[th] \notin Steps

\* wake_all; the caller has excluded every other user.
Destroy(th) ==
  /\ pc[th] = "user" /\ alive /\ Quiet
  /\ alive' = FALSE
  /\ head' = NULL /\ curr' = [curr EXCEPT ![th] = head]
  /\ pc' = [pc EXCEPT ![th] = IF head = NULL THEN "user" ELSE "wake"]
  /\ UNCHANGED <<next, sched, self, kept, done_count>>

\* A task takes part in every phase.
EndTask(th) ==
  /\ pc[th] = "user" /\ (alive => rounds[self[th]] = MaxRounds)
  /\ Complete(th) /\ UNCHANGED <<alive, done_count>>

Terminated ==
  /\ \A t \in Tasks : tstate[t] = "done"
  /\ \A th \in Threads : pc[th] = "idle"
  /\ UNCHANGED vars

Step(th) ==
  \/ (PostBatch(th) \/ \E t \in Tasks : Dispatch(th, t)) /\ UNCHANGED <<alive, done_count>>
  \/ Await(th) \/ Arrive(th) \/ TakeAll(th) \/ Reset(th) \/ Unlink(th)
  \/ Destroy(th) \/ EndTask(th)

Next == (\E th \in Threads : Step(th)) \/ Terminated
\* A thread that can take a step takes one.
Spec == Init /\ [][Next]_vars /\ \A th \in Threads : WF_vars(Step(th))

-----------------------------------------------------------------------------
Inside(t) == tstate[t] = "waiting" \/ \E th \in Threads : self[th] = t /\ pc[th] \in Steps
Passed(t) == IF Inside(t) THEN rounds[t] - 1 ELSE rounds[t]

\* Nobody leaves a phase that somebody has not entered, also when a task that
\* was woken early waits again before the others have run.
PhasesInStep == alive => \A s, t \in Tasks : Passed(s) <= rounds[t]

\* Comment in await_suspend: "`me` is guaranteed to be in the chain".
MeIsInChain == \A th \in Threads : pc[th] = "unlink" => self[th] \in NodesFrom(curr[th])

\* Comment in await_suspend: no use after resume.  When the first task has left
\* the last phase, no thread touches the barrier any more.
NoLateTouch ==
  (\E t \in Tasks : Passed(t) = MaxRounds /\ MaxRounds > 0) =>
     \A th \in Threads : pc[th] \notin {"arrive", "take", "reset"}
=============================================================================
