---------------------------- MODULE MCContainers -----------------------------
(***************************************************************************)
(* Model checking of the arrays whose elements move while other threads    *)
(* use them: a behaviour is one of a work-stealing deque, packed (64 bits) *)
(* or not (32), of an inbox, or of an atomic_condvar and its vector of     *)
(* waiters.                                                                *)
(***************************************************************************)
EXTENDS ChaseLev32, TLC

CONSTANTS Tasks, Threads, NoTask, Values, MaxRounds, MaxStores,
          InboxSize    \* the capacity of the inbox

ASSUME NobodyAssumption == NoTask \notin Tasks /\ NoTask \notin Threads /\ IsFiniteSet(Tasks)
\* With one slot, k + 1 (to be read) and k + InboxSize (to be written) would be the same.
ASSUME InboxAssumption == InboxSize \in Nat /\ InboxSize >= 2 /\ IsFiniteSet(Threads)

VARIABLES container, value, stores, waiters, lock, alive, expected, tstate, rounds, pc, self,
          wake, kept, owes, arrival,
          write_offset, read_offset, elements, call, pulled

I == INSTANCE QuInbox WITH BlockSize <- InboxSize
CV == INSTANCE AtomicCondvar

cvVars == <<value, stores, waiters, lock, alive, expected, tstate, rounds, pc, self,
            wake, kept, owes, arrival>>
inboxVars == <<write_offset, read_offset, elements, call, pulled>>
mcVars == <<container, vars, cvVars, inboxVars>>

\* One initial state for the containers that are not used.
Deques == {"deque64", "deque32"}
MCInit ==
  /\ container \in Deques \cup {"inbox", "condvar"}
  /\ Init /\ (container \notin Deques => state.t = 1)
  /\ CV!Init /\ (container # "condvar" => value = 0)
  /\ I!Init

MCNext ==
  /\ \/ container = "deque64" /\ Next /\ UNCHANGED <<cvVars, inboxVars>>
     \/ container = "deque32" /\ Next32 /\ UNCHANGED <<cvVars, inboxVars>>
     \/ container = "inbox" /\ I!Next /\ UNCHANGED <<cvVars, vars>>
     \/ container = "condvar" /\ CV!Next /\ UNCHANGED <<vars, inboxVars>>
     \/ container # "condvar" /\ UNCHANGED <<vars, cvVars, inboxVars>>  \* they may lie unused
  /\ UNCHANGED container
MCSpec == MCInit /\ [][MCNext]_mcVars

MCSymmetry == Permutations(Thieves) \cup Permutations(Tasks)
-----------------------------------------------------------------------------
\* The worker's queues keep the promise of WorkDeque (the inbox without its owner):
\* nothing is lost, handed out twice or out of order, whatever interleaves, across
\* growth, across the wrap of the indices and across the rounds of the inbox.
Queue == [deque64 |-> Items, deque32 |-> Items32, inbox |-> I!Items]
TakenFrom == [deque64 |-> Taken, deque32 |-> [x \in 1..MaxItems |-> taken[x]], inbox |-> I!Taken]
D == INSTANCE WorkDeque WITH
       deque <- IF container = "condvar" THEN <<>> ELSE Queue[container],
       taken <- IF container = "condvar" THEN Taken ELSE TakenFrom[container],
       pushed <- IF container = "inbox" THEN write_offset ELSE pushed
AreWorkQueues == D!Spec

\* A call that gives up is right: try_pop of both deques when nothing is left, the
\* inbox's calls when the oldest item, or the slot they need, is in somebody's hands.
GiveUpRightly == PopMissesNothing /\ Pop32MissesNothing /\ I!GivesUpRightly

\* The condvar's waiters are in the vector or in one thread's list, once.
EachWaiterOnce == CV!OnOneList

\* Nobody waits on the condvar for a value that is gone after the notification.
NoWaiterMissed == CV!NoLostWakeup
=============================================================================
