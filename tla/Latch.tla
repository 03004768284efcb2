-------------------------------- MODULE Latch --------------------------------
(***************************************************************************)
(* tmc::latch: a manual_reset_event (Event) and an atomic counter.         *)
(***************************************************************************)
EXTENDS WaiterStack

CONSTANT Count   \* argument of the constructor

VARIABLES alive,    \* FALSE once the destructor has begun
          count,    \* count_downs still missing, less one
          counters, \* the users' plan: the tasks that call count_down, once
          arrived   \* those that have called it

latch == <<count, counters, arrived>>
vars  == <<stackVars, alive, latch>>

Event == INSTANCE ManualResetEvent

TypeOK ==
  /\ TypesOK({"set"})
  /\ alive \in BOOLEAN
  /\ count = Count - 1 - Cardinality(arrived)
  /\ arrived \subseteq counters /\ counters \subseteq Tasks

Init ==
  /\ InitWith(IF Count <= 0 THEN READY ELSE NULL)
  /\ alive = TRUE
  /\ count = Count - 1
  /\ arrived = {} /\ counters \in {S \in SUBSET Tasks : Cardinality(S) >= Count}

\* Mutant: the comparison forgets that the counter is one less.
LastCountEarly(remaining) == remaining <= 1
\* Mutant: it takes one count_down more.
LastCountLate(remaining) == remaining < 0
LastCount(remaining) == remaining <= 0

\* count_down: fetch_sub; whoever sees zero (or less) goes on to event.set().
CountDown(th) ==
  /\ pc[th] = "user" /\ alive
  /\ self[th] \in counters \ arrived
  /\ arrived' = arrived \cup {self[th]}
  /\ count' = count - 1
  /\ pc' = [pc EXCEPT ![th] = IF LastCount(count) THEN "set" ELSE "user"]
  /\ UNCHANGED <<head, next, sched, self, curr, kept, alive, counters>>

\* event.set() in count_down.
SetEvent(th) ==
  /\ pc[th] = "set"
  /\ Event!Open(th, FALSE)
  /\ UNCHANGED <<next, sched, self, alive, latch>>

\* A counter counts down before it waits: it may be the one it waits for.
Await(th) ==
  /\ self[th] \in counters => self[th] \in arrived
  /\ Event!Await(th) /\ UNCHANGED latch

\* The destructor runs that of the event; no other user is left.
Destroy(th) ==
  /\ counters \subseteq arrived
  /\ \A o \in Threads : pc[o] # "set"
  /\ Event!Destroy(th) /\ UNCHANGED latch

EndTask(th) ==
  /\ alive /\ self[th] \in counters => self[th] \in arrived
  /\ Complete(th) /\ UNCHANGED <<alive, latch>>

Terminated ==
  /\ \A t \in Tasks : tstate[t] = "done"
  /\ \A th \in Threads : pc[th] = "idle"
  /\ UNCHANGED vars

Step(th) ==
  \/ (PostBatch(th) \/ \E t \in Tasks : Dispatch(th, t)) /\ UNCHANGED <<alive, latch>>
  \/ CountDown(th) \/ SetEvent(th) \/ Await(th)
  \/ Destroy(th) \/ EndTask(th)

Next == (\E th \in Threads : Step(th)) \/ Terminated
\* A thread that can take a step takes one, and tasks are finite.
Spec == Init /\ [][Next]_vars /\ \A th \in Threads : WF_vars(Step(th))

-----------------------------------------------------------------------------
\* Nobody is released before Count calls of count_down.
NoEarlyRelease ==
  alive /\ (head = READY \/ \E th \in Threads : pc[th] \in {"set", "wake"})
    => Cardinality(arrived) >= Count

\* When exactly Count tasks count down, a waiter that was let through may
\* destroy the latch at once: nobody is still on the way to event.set(), and
\* the walk over the waiters does not touch the latch.
SafeToDestroy ==
  Cardinality(counters) = Count /\ head = READY => \A th \in Threads : pc[th] # "set"

\* After enough count_downs every waiter runs, and the latch stays open.
EveryWaiterRuns ==
  \A t \in Tasks : (tstate[t] = "waiting") ~> (tstate[t] # "waiting")
=============================================================================
