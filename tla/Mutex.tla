-------------------------------- MODULE Mutex --------------------------------
(***************************************************************************)
(* tmc::mutex: a WaiterData whose count is 1 when unlocked.                *)
(***************************************************************************)
EXTENDS WaiterData

UNLOCKED == 1

Init == InitWith(UNLOCKED)

\* Locking is not re-entrant, so a holder does not lock again.
Lock(th) == self[th] \notin own /\ Await(th)

\* try_lock: one try_acquire, no suspension.
TryLock(th) ==
  /\ BeginRound(th) /\ self[th] \notin own
  /\ IF CanAcquire THEN TakePermit(self[th]) ELSE UNCHANGED <<count, own>>
  /\ UNCHANGED <<waiters, input, output, alive, tstate, locals>>

\* unlock (also ~mutex_scope), co_unlock and co_unlock_return: fetch_or of
\* UNLOCKED, then maybe_wake, symmetric in the two awaitable forms.
Unlock(th, m) ==
  /\ pc[th] = "user" /\ alive /\ self[th] \in own
  /\ count' = UNLOCKED /\ waiters' = waiters
  /\ own' = own \ {self[th]}
  /\ MaybeWake(th, m)
  /\ UNCHANGED <<input, output, alive, rounds, pending, woken>>

\* A task ends only after it has given the lock back.
EndTask(th) == (alive => self[th] \notin own) /\ Complete(th)

\* Everything ran to its end.
Terminated == (\A t \in Tasks : tstate[t] = "done") /\ Quiet /\ UNCHANGED vars

Step(th) ==
  \/ CommonStep(th)
  \/ Lock(th) \/ TryLock(th) \/ EndTask(th)
  \/ \E m \in Modes : Unlock(th, m)

Next == (\E th \in Threads : Step(th)) \/ Terminated
Spec == Init /\ [][Next]_vars

\* A thread that can take a step takes one: an executor thread does not stop
\* while it has work, and tasks are finite and release what they hold.
FairSpec == Spec /\ \A th \in Threads : WF_vars(Step(th))

-----------------------------------------------------------------------------
\* While the mutex exists at most one task holds it, and a held mutex is locked:
\* neither a newcomer's try_acquire nor a second waker can take the permit that
\* an unlock is transferring to a waiter.
MutualExclusion ==
  /\ \A s, t \in own : s = t
  /\ own # {} => count = 0

\* Doc of unlock: the lock is transferred to an awaiter.  Seen from outside, the
\* mutex is a queue of one permit, granted strictly in the order of suspension.
PQ == INSTANCE PermitQueue WITH
        Initial <- UNLOCKED, MaxPut <- 1,
        avail <- count - InHand, queue <- Waiting
IsPermitQueue == PQ!Spec

\* A task that suspends on the mutex is resumed, and every task can end: no
\* interleaving of suspend() with unlock() strands a waiter.
EveryWaiterRuns ==
  \A t \in Tasks : (tstate[t] = "waiting") ~> (tstate[t] # "waiting")
=============================================================================
