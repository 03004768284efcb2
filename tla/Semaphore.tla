------------------------------ MODULE Semaphore ------------------------------
(***************************************************************************)
(* tmc::semaphore: a WaiterData whose count is the number of resources.    *)
(* A task may release resources it never acquired (a producer) and keep    *)
(* those it acquired (a consumer).                                         *)
(***************************************************************************)
EXTENDS WaiterData

CONSTANTS InitialCount, \* constructor argument
          MaxRelease,   \* bound: largest ReleaseCount
          MaxPermits    \* bound: largest count, below the width of a half word

Init == InitWith(InitialCount)

\* co_await of the semaphore, and of acquire_scope.
Acquire(th) == Await(th)

\* try_acquire: succeeds or returns false, never suspends.
TryAcquire(th) ==
  /\ BeginRound(th)
  /\ IF CanAcquire THEN TakePermit(self[th]) ELSE UNCHANGED <<count, own>>
  /\ UNCHANGED <<waiters, input, output, alive, tstate, locals>>

\* release(n) (also ~semaphore_scope with n = 1), co_release and
\* co_release_return: fetch_add, then maybe_wake.
Release(th, m, n) ==
  /\ pc[th] = "user" /\ alive
  /\ n = 1 \/ m = "post"
  /\ count + n <= MaxPermits
  /\ count' = count + n /\ waiters' = waiters
  /\ own' = own \ {self[th]}
  /\ MaybeWake(th, m)
  /\ UNCHANGED <<input, output, alive, rounds, pending, woken>>

\* Nothing is left to run; tasks that nobody released for stay suspended.
Terminated ==
  /\ \A th \in Threads : pc[th] = "idle"
  /\ \A t \in Tasks : tstate[t] # "ready"
  /\ UNCHANGED vars

Step(th) ==
  \/ CommonStep(th)
  \/ Acquire(th) \/ TryAcquire(th) \/ Complete(th)
  \/ \E m \in Modes, n \in 1..MaxRelease : Release(th, m, n)

Next == (\E th \in Threads : Step(th)) \/ Terminated
Spec == Init /\ [][Next]_vars

\* The steps inside the protocol: an executor thread completes a call.
Protocol(th) ==
  \/ Push(th) \/ AddWaiter(th) \/ MustTake1(th) \/ Commit(th)
  \/ Resume(th) \/ Transfer(th)
FairSpec == Spec /\ \A th \in Threads : WF_vars(Protocol(th))

-----------------------------------------------------------------------------
\* Doc of release: awaiters are awoken until all resources have been consumed.
\* Seen from outside, permits are conserved and granted in suspension order.
PQ == INSTANCE PermitQueue WITH
        Initial <- InitialCount, MaxPut <- MaxRelease,
        avail <- count - InHand, queue <- Waiting
IsPermitQueue == PQ!Spec
=============================================================================
