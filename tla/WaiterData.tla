----------------------------- MODULE WaiterData -----------------------------
(***************************************************************************)
(* The waiter queue shared by tmc::mutex, tmc::semaphore and               *)
(* tmc::auto_reset_event: detail::waiter_data_base (the packed word        *)
(* `value` and a waiter_list), try_acquire, waiter_list_node::suspend and  *)
(* waiter_list::maybe_wake.                                                *)
(*                                                                         *)
(* Tasks are coroutines, Threads are the OS threads that run them.  After  *)
(* a task has pushed its node it no longer belongs to its thread: another  *)
(* thread may resume it while the first one is still inside suspend().     *)
(* One action is one access to shared memory (sequential consistency); a   *)
(* compare-exchange loop that only recomputes the new word from the word   *)
(* it re-read is one action, because its failed turns change nothing.      *)
(***************************************************************************)
EXTENDS Integers, Sequences, SequencesExt, FiniteSets, FiniteSetsExt

CONSTANTS Threads,    \* OS threads
          Tasks,      \* coroutines
          NoTask,     \* "this thread runs no coroutine"
          MaxRounds   \* bound: acquisitions a task attempts

ASSUME ThreadsAssumption == IsFiniteSet(Threads)
ASSUME NoTaskAssumption == NoTask \notin Tasks
ASSUME RoundsAssumption == MaxRounds \in Nat

VARIABLES
  count,    \* low half of `value`: free permits
  waiters,  \* high half of `value`: registered waiters
  input,    \* Treiber stack, newest node first
  output,   \* private FIFO list, oldest node first
  alive,    \* FALSE once the destructor has begun
  tstate,   \* per task: "ready", "running", "waiting" or "done"
  own,      \* tasks holding a permit they have not given back
  rounds,   \* per task: acquisitions attempted
  pc,       \* per thread: where it is
  self,     \* per thread: the task it runs, or NoTask
  mode,     \* per thread: how the wake in progress returns
  want,     \* per thread: wakeCount of the current turn of maybe_wake
  pending,  \* per thread: nodes taken in this turn, before the commit
  woken     \* per thread: the local chain wakeHead, committed and unresumed

shared == <<count, waiters, input, output, alive>>
sched  == <<tstate, own, rounds>>
locals == <<pc, self, mode, want, pending, woken>>
vars   == <<shared, sched, locals>>

Modes == {"post", "symmetric", "return"}
Steps == {"idle", "user", "suspend", "add_waiter", "take", "commit", "resume"}
Lesser(a, b) == IF a < b THEN a ELSE b

TypeOK ==
  /\ count \in Nat /\ waiters \in Nat
  /\ input \in Seq(Tasks) /\ output \in Seq(Tasks)
  /\ alive \in BOOLEAN
  /\ tstate \in [Tasks -> {"ready", "running", "waiting", "done"}]
  /\ own \subseteq Tasks
  /\ rounds \in [Tasks -> 0..MaxRounds]
  /\ pc \in [Threads -> Steps]
  /\ self \in [Threads -> Tasks \cup {NoTask}]
  /\ mode \in [Threads -> Modes]
  /\ want \in [Threads -> Nat]
  /\ pending \in [Threads -> Seq(Tasks)]
  /\ woken \in [Threads -> Seq(Tasks)]

InitWith(initialCount) ==
  /\ count = initialCount /\ waiters = 0
  /\ input = <<>> /\ output = <<>>
  /\ alive = TRUE
  /\ tstate = [t \in Tasks |-> "ready"]
  /\ own = {}
  /\ rounds = [t \in Tasks |-> 0]
  /\ pc = [th \in Threads |-> "idle"]
  /\ self = [th \in Threads |-> NoTask]
  /\ mode = [th \in Threads |-> "post"]
  /\ want = [th \in Threads |-> 0]
  /\ pending = [th \in Threads |-> <<>>]
  /\ woken = [th \in Threads |-> <<>>]

-----------------------------------------------------------------------------
(* The executor, as far as this code sees it: it runs what was posted.     *)

Dispatch(th, t) ==
  /\ pc[th] = "idle" /\ tstate[t] = "ready"
  /\ tstate' = [tstate EXCEPT ![t] = "running"]
  /\ self' = [self EXCEPT ![th] = t]
  /\ pc' = [pc EXCEPT ![th] = "user"]
  /\ UNCHANGED <<shared, own, rounds, mode, want, pending, woken>>

FinishTask(th) ==
  /\ tstate' = [tstate EXCEPT ![self[th]] = "done"]
  /\ self' = [self EXCEPT ![th] = NoTask]
  /\ pc' = [pc EXCEPT ![th] = "idle"]

\* The coroutine reaches its end.
Complete(th) ==
  /\ pc[th] = "user"
  /\ FinishTask(th)
  /\ UNCHANGED <<shared, own, rounds, mode, want, pending, woken>>

-----------------------------------------------------------------------------
(* Acquiring.                                                              *)

\* Mutant: a newcomer takes any permit, also one that a waker is handing out.
CanAcquireBarging == count > 0
\* try_acquire succeeds only when permits outnumber the registered waiters.
CanAcquire == count > waiters
TakePermit(t) == count' = count - 1 /\ own' = own \cup {t}

BeginRound(th) ==
  /\ pc[th] = "user" /\ alive
  /\ rounds[self[th]] < MaxRounds
  /\ rounds' = [rounds EXCEPT ![self[th]] = @ + 1]

\* co_await: await_ready is try_acquire, await_suspend follows a failure.
Await(th) ==
  /\ BeginRound(th)
  /\ \/ CanAcquire /\ TakePermit(self[th]) /\ pc' = pc
     \/ ~CanAcquire /\ pc' = [pc EXCEPT ![th] = "suspend"] /\ UNCHANGED <<count, own>>
  /\ UNCHANGED <<waiters, input, output, alive, tstate, self, mode, want, pending, woken>>

\* configure_and_add_waiter: from here on any thread may resume the task.
Push(th) ==
  /\ pc[th] = "suspend"
  /\ input' = <<self[th]>> \o input
  /\ tstate' = [tstate EXCEPT ![self[th]] = "waiting"]
  /\ self' = [self EXCEPT ![th] = NoTask]
  /\ pc' = [pc EXCEPT ![th] = "add_waiter"]
  /\ UNCHANGED <<count, waiters, output, alive, own, rounds, mode, want, pending, woken>>

-----------------------------------------------------------------------------
(* maybe_wake, called with the word before and after this thread's update. *)

\* Mutant: no check of the earlier word, any caller may wake.
EntersAlways(oldCount, oldWaiters) == TRUE
\* The call may enter only from 0/N or N/0; from 0/0 there is nothing to
\* wake, and from N/N another thread is already waking.
EntersSection(oldCount, oldWaiters) == (oldCount = 0) # (oldWaiters = 0)

\* maybe_wake returned no waiter: suspend() and unlock() return, a task that
\* ended with co_unlock_return is destroyed.
ReturnNull(th, m) ==
  IF self[th] = NoTask
  THEN pc' = [pc EXCEPT ![th] = "idle"] /\ UNCHANGED <<self, tstate>>
  ELSE IF m = "return" THEN FinishTask(th)
  ELSE pc' = [pc EXCEPT ![th] = "user"] /\ UNCHANGED <<self, tstate>>

\* Entry of maybe_wake; count' and waiters' are already determined.
MaybeWake(th, m) ==
  LET n == Lesser(count', waiters')
      enters == EntersSection(count, waiters) /\ n > 0
  IN  /\ mode' = [mode EXCEPT ![th] = m]
      /\ want' = [want EXCEPT ![th] = IF enters THEN n ELSE 0]
      /\ IF enters THEN pc' = [pc EXCEPT ![th] = "take"] /\ UNCHANGED <<self, tstate>>
                   ELSE ReturnNull(th, m)

\* suspend(): fetch_add of one waiter, then maybe_wake(symmetric = false).
AddWaiter(th) ==
  /\ pc[th] = "add_waiter"
  /\ waiters' = waiters + 1 /\ count' = count
  /\ MaybeWake(th, "post")
  /\ UNCHANGED <<input, output, alive, own, rounds, pending, woken>>

\* Mutant: the refill keeps the stack order.
RefilledUnreversed == IF output = <<>> THEN input ELSE output
\* must_take_1: refill output by reversing the whole input stack, pop a node.
Refilled == IF output = <<>> THEN Reverse(input) ELSE output
\* Mutant: the waiter is resumed when it is taken, before it is paid for.
MustTake1Resuming(th) ==
  /\ pc[th] = "take" /\ Refilled # <<>>
  /\ input' = IF output = <<>> THEN <<>> ELSE input
  /\ output' = Tail(Refilled)
  /\ pending' = [pending EXCEPT ![th] = Append(@, Head(Refilled))]
  /\ pc' = [pc EXCEPT ![th] = IF Len(pending'[th]) = want[th] THEN "commit" ELSE "take"]
  /\ tstate' = [tstate EXCEPT ![Head(Refilled)] = "ready"]
  /\ UNCHANGED <<count, waiters, alive, own, rounds, self, mode, want, woken>>

MustTake1(th) ==
  /\ pc[th] = "take" /\ Refilled # <<>>
  /\ input' = IF output = <<>> THEN <<>> ELSE input
  /\ output' = Tail(Refilled)
  /\ pending' = [pending EXCEPT ![th] = Append(@, Head(Refilled))]
  /\ pc' = [pc EXCEPT ![th] = IF Len(pending'[th]) = want[th] THEN "commit" ELSE "take"]
  /\ UNCHANGED <<count, waiters, alive, sched, self, mode, want, woken>>

\* Mutant: the section is left although permits and waiters both remain.
CommitOnce(th) ==
  /\ pc[th] = "commit"
  /\ count' = count - want[th] /\ waiters' = waiters - want[th]
  /\ own' = own \cup ToSet(pending[th])
  /\ woken' = [woken EXCEPT ![th] = @ \o pending[th]]
  /\ pending' = [pending EXCEPT ![th] = <<>>]
  /\ want' = [want EXCEPT ![th] = 0]
  /\ pc' = [pc EXCEPT ![th] = "resume"]
  /\ UNCHANGED <<input, output, alive, tstate, rounds, self, mode>>

\* The compare-exchange that pays for the nodes taken; it releases the section
\* unless permits and waiters both remain.
Commit(th) ==
  /\ pc[th] = "commit"
  /\ count' = count - want[th] /\ waiters' = waiters - want[th]
  /\ own' = own \cup ToSet(pending[th])
  /\ woken' = [woken EXCEPT ![th] = @ \o pending[th]]
  /\ pending' = [pending EXCEPT ![th] = <<>>]
  /\ want' = [want EXCEPT ![th] = Lesser(count', waiters')]
  /\ pc' = [pc EXCEPT ![th] = IF want'[th] > 0 THEN "take" ELSE "resume"]
  /\ UNCHANGED <<input, output, alive, tstate, rounds, self, mode>>

-----------------------------------------------------------------------------
(* Resuming the chain wakeHead.                                            *)

\* resume(): post the first node that is not kept for symmetric transfer.
Resume(th) ==
  LET i == IF mode[th] = "post" THEN 1 ELSE 2
      rest == RemoveAt(woken[th], i)
      ts == [tstate EXCEPT ![woken[th][i]] = "ready"]
  IN  /\ pc[th] = "resume" /\ Len(woken[th]) >= i
      /\ woken' = [woken EXCEPT ![th] = rest]
      /\ tstate' = ts
      /\ pc' = [pc EXCEPT ![th] = IF rest # <<>> THEN "resume"
                                  ELSE IF self[th] = NoTask THEN "idle" ELSE "user"]
      /\ UNCHANGED <<shared, own, rounds, self, mode, want, pending>>

\* The captured waiter, at the end of co_unlock / co_release / co_set and of
\* their _return forms.  It is run in place when it is eligible (same executor
\* and priority: either outcome is possible here), or posted.
Transfer(th) ==
  LET w == woken[th][1]
      ended == mode[th] = "return"
      outer == IF ended THEN "done" ELSE "ready"
  IN  /\ pc[th] = "resume" /\ mode[th] # "post" /\ Len(woken[th]) = 1
      /\ woken' = [woken EXCEPT ![th] = <<>>]
      /\ \/ /\ tstate' = [tstate EXCEPT ![w] = "running", ![self[th]] = outer]
            /\ self' = [self EXCEPT ![th] = w]
            /\ pc' = [pc EXCEPT ![th] = "user"]
         \/ /\ tstate' = [tstate EXCEPT ![w] = "ready",
                                        ![self[th]] = IF ended THEN "done" ELSE @]
            /\ self' = [self EXCEPT ![th] = IF ended THEN NoTask ELSE @]
            /\ pc' = [pc EXCEPT ![th] = IF ended THEN "idle" ELSE "user"]
      /\ UNCHANGED <<shared, own, rounds, mode, want, pending>>

\* The destructor: wake_all posts everything in output followed by input.  Its
\* caller must have excluded every other user of the object.
Destroy(th) ==
  /\ pc[th] = "user" /\ alive
  /\ \A o \in Threads : pc[o] \in {"idle", "user"}
  /\ alive' = FALSE
  /\ input' = <<>> /\ output' = <<>>
  /\ woken' = [woken EXCEPT ![th] = output \o input]
  /\ mode' = [mode EXCEPT ![th] = "post"]
  /\ pc' = [pc EXCEPT ![th] = IF output \o input = <<>> THEN "user" ELSE "resume"]
  /\ UNCHANGED <<count, waiters, sched, self, want, pending>>

\* The steps that the three primitives have in common.
CommonStep(th) ==
  \/ \E t \in Tasks : Dispatch(th, t)
  \/ Push(th) \/ AddWaiter(th)
  \/ MustTake1(th) \/ Commit(th) \/ Resume(th) \/ Transfer(th)
  \/ Destroy(th)

-----------------------------------------------------------------------------
(* The abstract queue this one stands for (see PermitQueue).               *)

\* Nodes taken and not yet paid for: their permits are still in count.
InHand == Cardinality({t \in Tasks : \E th \in Threads : t \in ToSet(pending[th])})
Waiting == output \o Reverse(input)

-----------------------------------------------------------------------------
(* What any user of the queue relies on.                                   *)

InSection(th) == pc[th] \in {"take", "commit"}
Touching(th)  == pc[th] \in {"add_waiter", "take", "commit"}
Quiet         == \A th \in Threads : ~Touching(th)

\* The comment in maybe_wake: "Only one thread can enter the below section at
\* a time"; must_take_1 walks the unsynchronised output list on that ground.
SingleWaker == \A a, b \in Threads : InSection(a) /\ InSection(b) => a = b

\* assert(chain != nullptr) in must_take_1, for takers of any number of nodes,
\* and assert(count >= wakeCount), assert(waiterCount >= wakeCount) in the
\* commit loop: the word keeps covering what the waker is about to subtract,
\* whatever other threads do to it meanwhile.
WakeIsCovered ==
  \A th \in Threads : InSection(th) =>
     /\ count >= want[th] /\ waiters >= want[th]
     /\ Len(output) + Len(input) >= want[th] - Len(pending[th])

\* No lost wakeup: when no thread is inside the protocol, permits and
\* registered waiters are not both left, and the registered waiters are exactly
\* the nodes in the lists.
NoLostWakeup ==
  alive /\ Quiet => /\ count = 0 \/ waiters = 0
                    /\ waiters = Len(output) + Len(input)

\* The object may be destroyed as soon as every task that used it has ended,
\* although a thread may still be in the suspend() of a task that was resumed
\* and ended elsewhere: that thread no longer touches the object.
NoLateTouch == (\A t \in Tasks : tstate[t] = "done") => Quiet
=============================================================================
