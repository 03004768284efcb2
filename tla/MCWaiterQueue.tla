---------------------------- MODULE MCWaiterQueue ----------------------------
(***************************************************************************)
(* Model checking of the three primitives built on WaiterData: a behaviour *)
(* is one of a mutex, of a semaphore or of an auto_reset_event.            *)
(***************************************************************************)
EXTENDS Mutex

CONSTANTS InitialCount, MaxRelease, MaxPermits, InitiallySet
VARIABLE prim

mcVars == <<vars, prim>>

S == INSTANCE Semaphore
A == INSTANCE AutoResetEvent

MCInit ==
  \/ prim = "mutex" /\ Init
  \/ prim = "semaphore" /\ S!Init
  \/ prim = "event" /\ A!Init

\* Bound: of all tasks one at most comes back to the mutex after a round, and none to
\* a semaphore or an event.
OneReturns == \A s, t \in Tasks : rounds'[s] > 1 /\ rounds'[t] > 1 => s = t
NoneReturns == \A t \in Tasks : rounds'[t] <= 1

MCNext ==
  /\ \/ prim = "mutex" /\ Next /\ OneReturns
     \/ prim = "semaphore" /\ S!Next /\ NoneReturns
     \/ prim = "event" /\ A!Next /\ NoneReturns
  /\ UNCHANGED prim

\* Tasks that use a mutex go on until they end; tasks that use a semaphore or an
\* event need not release or set anything, they only finish calls they began.
Goes(th) == IF prim = "mutex" THEN Step(th) /\ OneReturns ELSE S!Protocol(th)
MCSpec ==
  /\ MCInit /\ [][MCNext]_mcVars
  /\ \A th \in Threads : WF_mcVars(Goes(th) /\ UNCHANGED prim)

-----------------------------------------------------------------------------
\* MutualExclusion of the mutex, whose holders are the tasks with a permit, and the
\* bound on the sets that an auto_reset_event remembers.
OnePermit == (prim = "mutex" => MutualExclusion) /\ (prim = "event" => A!NeverOverSet)

\* Each of the three is a PermitQueue: permits are conserved, and those that
\* reach the queue are granted in the order of suspension.
IsFIFO ==
  /\ CASE prim = "mutex" -> PQ!Init
       [] prim = "semaphore" -> S!PQ!Init
       [] prim = "event" -> A!PQ!Init
  /\ [][CASE prim = "mutex" -> [PQ!Next]_(PQ!pqVars)
          [] prim = "semaphore" -> [S!PQ!Next]_(S!PQ!pqVars)
          [] prim = "event" -> [A!PQ!Next]_(A!PQ!pqVars)]_mcVars

\* Somebody waits who can go on: a holder gives the mutex back, a semaphore or event
\* has a permit, or a thread has the task in hand.
WaitsForNothing ==
  /\ \E t \in Tasks : tstate[t] = "waiting"
  /\ prim = "mutex" \/ count > 0 \/ \E th \in Threads : woken[th] # <<>>

\* Nobody who waits for a mutex is stranded, and a permit and a suspended task do
\* not stay together in any of the three (maybe_wake, which hands them to each other).
WaitersGoOn == []<>~WaitsForNothing
=============================================================================
