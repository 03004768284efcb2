--------------------------- MODULE AutoResetEvent ---------------------------
(***************************************************************************)
(* tmc::auto_reset_event: a WaiterData whose count is nonzero when set.    *)
(***************************************************************************)
EXTENDS WaiterData

CONSTANT InitiallySet \* constructor argument

StartCount == IF InitiallySet THEN 1 ELSE 0
Init == InitWith(StartCount)

\* reset: one try_acquire whose result is ignored.
Reset(th) ==
  /\ pc[th] = "user" /\ alive
  /\ CanAcquire /\ count' = count - 1
  /\ UNCHANGED <<waiters, input, output, alive, sched, locals>>

\* Mutant: set looks only for waiters that are owed nothing yet.
AlreadySetLate(c, w) == c >= w + 2
\* set and co_set return early when every registered waiter is owed a permit
\* and one more is stored.
AlreadySet(c, w) == c >= w + 1

\* set and co_set: increment unless already set, then maybe_wake.
Set(th, m) ==
  /\ pc[th] = "user" /\ alive /\ m \in {"post", "symmetric"}
  /\ ~AlreadySet(count, waiters)
  /\ count' = count + 1 /\ waiters' = waiters
  /\ MaybeWake(th, m)
  /\ UNCHANGED <<input, output, alive, own, rounds, pending, woken>>

\* Nothing is left to run; tasks that nobody set the event for stay suspended.
Terminated ==
  /\ \A th \in Threads : pc[th] = "idle"
  /\ \A t \in Tasks : tstate[t] # "ready"
  /\ UNCHANGED vars

Step(th) ==
  \/ CommonStep(th)
  \/ Await(th) \/ Reset(th) \/ Complete(th)
  \/ \E m \in Modes : Set(th, m)

Next == (\E th \in Threads : Step(th)) \/ Terminated
Spec == Init /\ [][Next]_vars

-----------------------------------------------------------------------------
\* Doc of set: "If the event state is already set, this will do nothing."  At
\* most one set is remembered beyond those owed to registered waiters, so once
\* no call is in progress the event is set at most once.
NeverOverSet ==
  /\ count <= waiters + 1
  /\ Quiet /\ alive => count <= 1

\* Doc of set: one set resumes one awaiter, and awaiters are served in the
\* order in which they suspended.
PQ == INSTANCE PermitQueue WITH
        Initial <- StartCount, MaxPut <- 1,
        avail <- count - InHand, queue <- Waiting
IsPermitQueue == PQ!Spec
=============================================================================
