---------------------------- MODULE AtomicCondvar ----------------------------
(***************************************************************************)
(* tmc::atomic_condvar: an atomic value that the user may store to at any  *)
(* time, and a vector of waiters under a std::mutex.  A critical section   *)
(* in which nothing but the lock, the value and the vector is used is one  *)
(* step from the load of the value to the unlock, except in await_suspend, *)
(* whose load and push_back are separate.                                  *)
(***************************************************************************)
EXTENDS Integers, Sequences, SequencesExt, FiniteSets

CONSTANTS Threads,    \* OS threads
          Tasks,      \* coroutines
          NoTask,     \* "this thread runs no coroutine", "nobody has the lock"
          Values,     \* values of T
          MaxRounds,  \* bound: awaits per task
          MaxStores   \* bound: stores by the users together

VARIABLES
  value,     \* the atomic value
  stores,    \* stores so far
  waiters,   \* the vector, in memory order
  lock,      \* thread that holds waiters_lock, or NoTask
  alive,     \* FALSE once the destructor has run
  expected,  \* per task: the `expected` of its awaiter
  tstate, rounds,
  pc, self,
  wake,      \* per thread: the local wakeList, with what is still to be posted
  kept,      \* per thread: wakeList[0] when kept for symmetric transfer
  owes,      \* tasks that have stored and not yet notified
  arrival    \* history: registered tasks in order of registration

shared == <<value, stores, waiters, lock, alive, expected>>
sched  == <<tstate, rounds>>
locals == <<pc, self, wake, kept>>
ghosts == <<owes, arrival>>
vars   == <<shared, sched, locals, ghosts>>

Steps == {"idle", "user", "await", "push", "wake", "transfer"}
TypeOK ==
  /\ value \in Values /\ stores \in 0..MaxStores
  /\ waiters \in Seq(Tasks)
  /\ lock \in Threads \cup {NoTask} /\ \A th \in Threads : lock = th <=> pc[th] = "push"
  /\ alive \in BOOLEAN
  /\ expected \in [Tasks -> Values]
  /\ tstate \in [Tasks -> {"ready", "running", "waiting", "done"}]
  /\ rounds \in [Tasks -> 0..MaxRounds]
  /\ pc \in [Threads -> Steps]
  /\ self \in [Threads -> Tasks \cup {NoTask}]
  /\ wake \in [Threads -> Seq(Tasks)]
  /\ kept \in [Threads -> Tasks \cup {NoTask}]
  /\ owes \subseteq Tasks /\ arrival \in Seq(Tasks)

Init ==
  /\ value \in Values /\ stores = 0
  /\ waiters = <<>> /\ lock = NoTask /\ alive = TRUE
  /\ expected = [t \in Tasks |-> value]
  /\ tstate = [t \in Tasks |-> "ready"]
  /\ rounds = [t \in Tasks |-> 0]
  /\ pc = [th \in Threads |-> "idle"]
  /\ self = [th \in Threads |-> NoTask]
  /\ wake = [th \in Threads |-> <<>>]
  /\ kept = [th \in Threads |-> NoTask]
  /\ owes = {} /\ arrival = <<>>

Dispatch(th, t) ==
  /\ pc[th] = "idle" /\ tstate[t] = "ready"
  /\ tstate' = [tstate EXCEPT ![t] = "running"]
  /\ self' = [self EXCEPT ![th] = t]
  /\ pc' = [pc EXCEPT ![th] = "user"]
  /\ UNCHANGED <<shared, rounds, wake, kept, ghosts>>

\* A task that stored a value notifies before it ends.
EndTask(th) ==
  /\ pc[th] = "user" /\ (alive => self[th] \notin owes)
  /\ tstate' = [tstate EXCEPT ![self[th]] = "done"]
  /\ self' = [self EXCEPT ![th] = NoTask]
  /\ pc' = [pc EXCEPT ![th] = "idle"]
  /\ UNCHANGED <<shared, rounds, wake, kept, ghosts>>

\* ref().store: the user owes the waiters a notification from now on.
Store(th, v) ==
  /\ pc[th] = "user" /\ alive /\ stores < MaxStores /\ v # value
  /\ value' = v /\ stores' = stores + 1
  /\ owes' = owes \cup {self[th]}
  /\ UNCHANGED <<waiters, lock, alive, expected, sched, locals, arrival>>

\* co_await await(e): await_ready loads the value without the lock.
Await(th, e) ==
  /\ pc[th] = "user" /\ alive /\ self[th] \notin owes
  /\ rounds[self[th]] < MaxRounds
  /\ rounds' = [rounds EXCEPT ![self[th]] = @ + 1]
  /\ IF value # e
     THEN UNCHANGED <<expected, pc>>
     ELSE /\ expected' = [expected EXCEPT ![self[th]] = e]
          /\ pc' = [pc EXCEPT ![th] = "await"]
  /\ UNCHANGED <<value, stores, waiters, lock, alive, tstate, self, wake, kept, ghosts>>

\* Mutant: the value is not looked at again under the lock.
LockAndTrust(th) ==
  /\ pc[th] = "await" /\ lock = NoTask
  /\ pc' = [pc EXCEPT ![th] = "push"]
  /\ lock' = th
  /\ UNCHANGED <<value, stores, waiters, alive, expected, sched, self, wake, kept, ghosts>>
\* await_suspend: lock and load; if the value has changed the task goes on.
LockAndCheck(th) ==
  /\ pc[th] = "await" /\ lock = NoTask
  /\ IF value # expected[self[th]]
     THEN pc' = [pc EXCEPT ![th] = "user"] /\ lock' = lock
     ELSE pc' = [pc EXCEPT ![th] = "push"] /\ lock' = th
  /\ UNCHANGED <<value, stores, waiters, alive, expected, sched, self, wake, kept, ghosts>>

\* push_back and unlock.
Push(th) ==
  /\ pc[th] = "push"
  /\ waiters' = Append(waiters, self[th])
  /\ arrival' = Append(arrival, self[th])
  /\ lock' = NoTask
  /\ tstate' = [tstate EXCEPT ![self[th]] = "waiting"]
  /\ self' = [self EXCEPT ![th] = NoTask]
  /\ pc' = [pc EXCEPT ![th] = "idle"]
  /\ UNCHANGED <<value, stores, alive, expected, rounds, wake, kept, owes>>

-----------------------------------------------------------------------------
(* get_one_waiter and get_n_waiters.                                       *)

Matches(t) == expected[t] # value

\* Remove element i: the last one takes its place.
SwapRemove(s, i) == [j \in 1..Len(s) - 1 |-> IF j = i THEN s[Len(s)] ELSE s[j]]

\* Mutant: the size is not lowered after a removal, the hole takes a stale node.
ScanStale(n) ==
  LET scan[k \in 0..Len(waiters)] ==
        IF k = 0 THEN [list |-> waiters, out |-> <<>>]
        ELSE LET s == scan[k-1]
                 i == Len(waiters) + 1 - k
             IN  IF Len(s.out) = n \/ ~Matches(waiters[i]) THEN s
                 ELSE [list |-> SubSeq(s.list, 1, Len(s.list) - 1), out |-> Append(s.out, waiters[i])]
  IN  scan[Len(waiters)]
\* From the back of the vector, up to n waiters whose value differs: the vector
\* left behind and the list taken.
Scan(n) ==
  LET scan[k \in 0..Len(waiters)] ==
        IF k = 0 THEN [list |-> waiters, out |-> <<>>]
        ELSE LET s == scan[k-1]
                 i == Len(waiters) + 1 - k
             IN  IF Len(s.out) = n \/ ~Matches(s.list[i]) THEN s
                 ELSE [list |-> SwapRemove(s.list, i), out |-> Append(s.out, s.list[i])]
  IN  scan[Len(waiters)]

\* notify_one, notify_n, notify_all (n is more than there can be waiters) and
\* their co_ forms.  A call that took fewer than n has left nobody to notify.
Notify(th, n, symmetric) ==
  LET found == Scan(n)
      keep == symmetric /\ found.out # <<>>
  IN  /\ pc[th] = "user" /\ alive /\ lock = NoTask
      /\ waiters' = found.list
      /\ arrival' = SelectSeq(arrival, LAMBDA t : t \notin ToSet(found.out))
      /\ owes' = IF Len(found.out) < n THEN owes \ {self[th]} ELSE owes
      /\ kept' = [kept EXCEPT ![th] = IF keep THEN found.out[1] ELSE NoTask]
      /\ wake' = [wake EXCEPT ![th] = IF keep THEN Tail(found.out) ELSE found.out]
      /\ pc' = [pc EXCEPT ![th] = IF wake'[th] # <<>> THEN "wake"
                                  ELSE IF keep THEN "transfer" ELSE "user"]
      /\ UNCHANGED <<value, stores, lock, alive, expected, sched, self>>

\* waiter.resume() of the next one.
Resume(th) ==
  /\ pc[th] = "wake"
  /\ tstate' = [tstate EXCEPT ![Head(wake[th])] = "ready"]
  /\ wake' = [wake EXCEPT ![th] = Tail(@)]
  /\ pc' = [pc EXCEPT ![th] = IF wake'[th] # <<>> THEN "wake"
                              ELSE IF kept[th] # NoTask THEN "transfer" ELSE "user"]
  /\ UNCHANGED <<shared, rounds, self, kept, ghosts>>

\* try_symmetric_transfer of the first waiter.
Transfer(th) ==
  /\ pc[th] = "transfer"
  /\ kept' = [kept EXCEPT ![th] = NoTask]
  /\ pc' = [pc EXCEPT ![th] = "user"]
  /\ \/ /\ tstate' = [tstate EXCEPT ![kept[th]] = "running", ![self[th]] = "ready"]
        /\ self' = [self EXCEPT ![th] = kept[th]]
     \/ /\ tstate' = [tstate EXCEPT ![kept[th]] = "ready"]
        /\ self' = self
  /\ UNCHANGED <<shared, rounds, wake, ghosts>>

\* The destructor resumes everybody, first to last; nobody else uses the object.
Destroy(th) ==
  /\ pc[th] = "user" /\ alive
  /\ \A o \in Threads : pc[o] \notin {"await", "push"}
  /\ alive' = FALSE
  /\ waiters' = <<>> /\ arrival' = <<>>
  /\ wake' = [wake EXCEPT ![th] = waiters]
  /\ pc' = [pc EXCEPT ![th] = IF waiters = <<>> THEN "user" ELSE "wake"]
  /\ UNCHANGED <<value, stores, lock, expected, sched, self, kept, owes>>

Terminated ==
  /\ \A t \in Tasks : tstate[t] \in {"waiting", "done"}
  /\ \A th \in Threads : pc[th] = "idle"
  /\ UNCHANGED vars

Step(th) ==
  \/ \E t \in Tasks : Dispatch(th, t)
  \/ \E v \in Values : Store(th, v) \/ Await(th, v)
  \/ LockAndCheck(th) \/ Push(th)
  \/ \E n \in 1..Cardinality(Tasks) + 1, s \in BOOLEAN : Notify(th, n, s)
  \/ Resume(th) \/ Transfer(th) \/ Destroy(th) \/ EndTask(th)

Next == (\E th \in Threads : Step(th)) \/ Terminated
Spec == Init /\ [][Next]_vars

-----------------------------------------------------------------------------
\* A task that waits is in the vector or in one thread's list, exactly once,
\* whatever was swapped into the holes of the vector.
OnOneList ==
  LET Held(th) == ToSet(wake[th]) \cup ({kept[th]} \ {NoTask})
  IN  /\ {t \in Tasks : tstate[t] = "waiting"} =
            ToSet(waiters) \cup UNION {Held(th) : th \in Threads}
      /\ IsInjective(waiters)
      /\ \A th \in Threads :
           /\ IsInjective(wake[th]) /\ kept[th] \notin ToSet(wake[th])
           /\ Held(th) \cap ToSet(waiters) = {}
           /\ \A o \in Threads \ {th} : Held(th) \cap Held(o) = {}

\* No lost wakeup: when everybody who stored has notified, no registered waiter
\* waits for a value that is no longer there.
NoLostWakeup ==
  owes = {} => \A t \in ToSet(waiters) : ~Matches(t)

\* Doc of notify_one: "Awaiters are woken in LIFO order".  Of two waiters that
\* meet the criteria, a notification takes the one that registered later.
WokenInLIFOOrder ==
  [][alive' => \A i, j \in DOMAIN arrival :
       i < j /\ Matches(arrival[j]) /\ arrival[i] \notin ToSet(arrival')
         => arrival[j] \notin ToSet(arrival')]_vars
=============================================================================
