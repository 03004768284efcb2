------------------------------ MODULE TinyMutex ------------------------------
(***************************************************************************)
(* tmc::tiny_mutex: tasks that await it queue on a stack, and a runner     *)
(* coroutine (run_loop) resumes them one after the other; a task has the   *)
(* mutex until it next suspends.  The word and the reference count live in *)
(* a heap block (State) that the mutex and the runners share.              *)
(*                                                                         *)
(* A task's node is in its frame: task and node are one name.  Between two *)
(* tasks the runner hops to the executor of the next one (resume_on); the  *)
(* hop touches nothing shared and is not a step of its own.                *)
(***************************************************************************)
EXTENDS Integers, FiniteSets

CONSTANTS Tasks, NULL,
          Runners,    \* bound: run_loop coroutines that exist at a time
          MaxRounds   \* bound: acquisitions per task

ASSUME NullAssumption == NULL \notin Tasks
ASSUME RunnersAssumption == IsFiniteSet(Runners)
ASSUME RoundsAssumption == MaxRounds \in Nat

VARIABLES
  running,  \* RUNNING bit of State->waiters
  top,      \* the pointer in State->waiters
  refs,     \* State->refs
  next,     \* tiny_mutex_waiter::next
  alive,    \* FALSE once the mutex is destroyed
  tstate,   \* per task: "free", "queued", "locked" (resumed by a runner), "done"
  rounds,
  rpc,      \* per runner: where run_loop is, or "none"
  curr      \* per runner: the rest of its batch

vars == <<running, top, refs, next, alive, tstate, rounds, rpc, curr>>

Active == {"start", "swap", "run", "inside", "close"}
ActiveRunners == {r \in Runners : rpc[r] \in Active}

TypeOK ==
  /\ running \in BOOLEAN /\ top \in Tasks \cup {NULL}
  /\ refs \in Nat
  /\ next \in [Tasks -> Tasks \cup {NULL}]
  /\ alive \in BOOLEAN
  /\ tstate \in [Tasks -> {"free", "queued", "locked", "done"}]
  /\ rounds \in [Tasks -> 0..MaxRounds]
  /\ rpc \in [Runners -> Active \cup {"none", "release"}]
  /\ curr \in [Runners -> Tasks \cup {NULL}]

Init ==
  /\ running = FALSE /\ top = NULL /\ refs = 1 /\ alive = TRUE
  /\ next = [t \in Tasks |-> NULL]
  /\ tstate = [t \in Tasks |-> "free"]
  /\ rounds = [t \in Tasks |-> 0]
  /\ rpc = [r \in Runners |-> "none"]
  /\ curr = [r \in Runners |-> NULL]

\* A task suspends: when a runner had resumed it, resume() returns there.
BackToRunner(t) ==
  [r \in Runners |-> IF tstate[t] = "locked" /\ rpc[r] = "inside"
                     THEN (IF curr[r] = NULL THEN "swap" ELSE "run") ELSE rpc[r]]

\* Mutant: the push leaves the RUNNING bit as it is.
MarkedAsBefore == running
\* Every push also sets RUNNING.
Marked == TRUE

\* co_await: push the node and set RUNNING in one compare-exchange; who finds
\* no runner becomes one.
Enqueue(t) ==
  /\ tstate[t] \in {"free", "locked"} /\ alive /\ rounds[t] < MaxRounds
  /\ rounds' = [rounds EXCEPT ![t] = @ + 1]
  /\ next' = [next EXCEPT ![t] = top]
  /\ top' = t /\ running' = Marked
  /\ tstate' = [tstate EXCEPT ![t] = "queued"]
  /\ IF running
     THEN rpc' = BackToRunner(t)
     ELSE \E r \in Runners : rpc[r] = "none" /\ rpc' = [BackToRunner(t) EXCEPT ![r] = "start"]
  /\ UNCHANGED <<refs, alive, curr>>

\* co_unlock: yield, which suspends and posts the task.
Unlock(t) ==
  /\ tstate[t] = "locked"
  /\ tstate' = [tstate EXCEPT ![t] = "free"]
  /\ rpc' = BackToRunner(t)
  /\ UNCHANGED <<running, top, refs, next, alive, rounds, curr>>

\* The task ends, by co_return or by co_unlock_return.
End(t) ==
  /\ tstate[t] \in {"free", "locked"}
  /\ tstate' = [tstate EXCEPT ![t] = "done"]
  /\ rpc' = BackToRunner(t)
  /\ UNCHANGED <<running, top, refs, next, alive, rounds, curr>>

-----------------------------------------------------------------------------
(* run_loop.                                                               *)

\* Mutant: the runner relies on the reference of the mutex.
StartUncounted(r) ==
  /\ rpc[r] = "start"
  /\ rpc' = [rpc EXCEPT ![r] = "swap"]
  /\ UNCHANGED <<running, top, refs, next, alive, tstate, rounds, curr>>
Start(r) ==
  /\ rpc[r] = "start"
  /\ refs' = refs + 1
  /\ rpc' = [rpc EXCEPT ![r] = "swap"]
  /\ UNCHANGED <<running, top, next, alive, tstate, rounds, curr>>

\* waiters.exchange(RUNNING): the whole stack becomes the next batch.
Swap(r) ==
  /\ rpc[r] = "swap"
  /\ curr' = [curr EXCEPT ![r] = top]
  /\ top' = NULL /\ running' = TRUE
  /\ rpc' = [rpc EXCEPT ![r] = IF top = NULL THEN "close" ELSE "run"]
  /\ UNCHANGED <<refs, next, alive, tstate, rounds>>

\* Mutant: RUNNING is cleared by a store.
CloseBlindly(r) ==
  /\ rpc[r] = "close"
  /\ running' = FALSE /\ top' = NULL
  /\ rpc' = [rpc EXCEPT ![r] = "release"]
  /\ UNCHANGED <<refs, next, alive, tstate, rounds, curr>>
\* The compare-exchange RUNNING -> 0; a node pushed meanwhile keeps the runner.
Close(r) ==
  /\ rpc[r] = "close"
  /\ IF top = NULL
     THEN running' = FALSE /\ rpc' = [rpc EXCEPT ![r] = "release"]
     ELSE running' = running /\ rpc' = [rpc EXCEPT ![r] = "swap"]
  /\ UNCHANGED <<top, refs, next, alive, tstate, rounds, curr>>

\* continuation.resume() of the next task; its link is read before.
Run(r) ==
  /\ rpc[r] = "run"
  /\ tstate' = [tstate EXCEPT ![curr[r]] = "locked"]
  /\ curr' = [curr EXCEPT ![r] = next[curr[r]]]
  /\ rpc' = [rpc EXCEPT ![r] = "inside"]
  /\ UNCHANGED <<running, top, refs, next, alive, rounds>>

\* release_tiny_mutex_state.
Release(r) ==
  /\ rpc[r] = "release"
  /\ refs' = refs - 1
  /\ rpc' = [rpc EXCEPT ![r] = "none"]
  /\ UNCHANGED <<running, top, next, alive, tstate, rounds, curr>>

\* The destructor.  By contract nothing is queued and no other task uses the
\* mutex any more; the runner that resumed the destroying task may be active.
Destroy(t) ==
  /\ tstate[t] \in {"free", "locked"} /\ alive
  /\ \A o \in Tasks \ {t} : tstate[o] # "queued"
  /\ alive' = FALSE
  /\ refs' = refs - 1
  /\ UNCHANGED <<running, top, next, tstate, rounds, rpc, curr>>

Terminated ==
  /\ \A t \in Tasks : tstate[t] = "done"
  /\ \A r \in Runners : rpc[r] = "none"
  /\ UNCHANGED vars

TaskStep(t)   == Enqueue(t) \/ Unlock(t) \/ End(t) \/ Destroy(t)
RunnerStep(r) == Start(r) \/ Swap(r) \/ Close(r) \/ Run(r) \/ Release(r)

Next == (\E t \in Tasks : TaskStep(t)) \/ (\E r \in Runners : RunnerStep(r)) \/ Terminated
\* Tasks and runners that can take a step take one.
Spec ==
  /\ Init /\ [][Next]_vars
  /\ \A t \in Tasks : WF_vars(TaskStep(t))
  /\ \A r \in Runners : WF_vars(RunnerStep(r))

-----------------------------------------------------------------------------
\* RUNNING stands for exactly one runner, also while an old one still lets go of
\* the block, so that only one task is resumed under the mutex at a time.
OneRunner ==
  /\ running <=> ActiveRunners # {}
  /\ \A q, r \in ActiveRunners : q = r
  /\ \A s, t \in Tasks : tstate[s] = "locked" /\ tstate[t] = "locked" => s = t

\* The block lives as long as the mutex or a runner may touch it: the last one
\* to let go frees it, with the word back at zero.
FreedLast ==
  /\ refs = 0 => ~alive /\ \A r \in Runners : rpc[r] = "none"
  /\ refs = 0 => ~running /\ top = NULL

\* Every task that queues gets the mutex: the batch being run is never joined by
\* newcomers, and no push is lost when the runner closes.
EveryWaiterRuns ==
  \A t \in Tasks : (tstate[t] = "queued") ~> (tstate[t] # "queued")
=============================================================================
