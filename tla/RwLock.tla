------------------------------- MODULE RwLock -------------------------------
(***************************************************************************)
(* tmc::rw_lock: one word with a WAKING bit, a WRITER bit and three        *)
(* counts, and one waiter_list per kind of waiter.                         *)
(*                                                                         *)
(* A waiter_list appears here as the FIFO queue that WaiterData shows it   *)
(* to be: a push appends, must_take_1 removes the oldest node.  As there,  *)
(* threads run tasks, and a task that pushed its node may be resumed while *)
(* its former thread is still inside suspend_read or suspend_write.        *)
(***************************************************************************)
EXTENDS Integers, Sequences, SequencesExt, FiniteSets

CONSTANTS Threads, Tasks, NoTask,
          MaxRounds   \* bound: acquisitions a task attempts

VARIABLES
  value,    \* the atomic word
  lists,    \* lists["read"], lists["write"]: nodes, oldest first
  alive,    \* FALSE once the destructor has begun
  tstate,   \* per task: "ready", "running", "waiting" or "done"
  holds,    \* per task: "none", "read" or "write"
  rounds,   \* per task: acquisitions attempted
  pc,       \* per thread: where it is
  self,     \* per thread: the task it runs, or NoTask
  local,    \* per thread: locals of the call in progress (see NoCall)
  taken     \* per thread: nodes taken and not yet posted

shared == <<value, lists, alive>>
sched  == <<tstate, holds, rounds>>
vars   == <<shared, sched, pc, self, local, taken>>

Kinds == {"read", "write"}
Words == [waking : BOOLEAN, writer : BOOLEAN, readers : Nat, rwait : Nat, wwait : Nat]
Steps == {"idle", "user", "suspend", "add_waiter", "claim", "clear", "take_writer",
          "give_writer", "take_readers", "give_readers", "resume"}
Locals == [kind : Kinds, v : Words, prefer : BOOLEAN, target : Nat]
Unlocked == [waking |-> FALSE, writer |-> FALSE, readers |-> 0, rwait |-> 0, wwait |-> 0]
\* kind: of lock wanted; v: the word V as last seen; prefer: PreferWriters;
\* target: readWaiterCount.  Outside of a call they are dead and have this value.
NoCall == [kind |-> "read", v |-> Unlocked, prefer |-> FALSE, target |-> 0]

TypeOK ==
  /\ value \in Words
  /\ lists \in [Kinds -> Seq(Tasks)]
  /\ alive \in BOOLEAN
  /\ tstate \in [Tasks -> {"ready", "running", "waiting", "done"}]
  /\ holds \in [Tasks -> Kinds \cup {"none"}]
  /\ rounds \in [Tasks -> 0..MaxRounds]
  /\ pc \in [Threads -> Steps]
  /\ self \in [Threads -> Tasks \cup {NoTask}]
  /\ local \in [Threads -> Locals]
  /\ taken \in [Threads -> Seq(Tasks)]

Init ==
  /\ value = Unlocked
  /\ lists = [k \in Kinds |-> <<>>]
  /\ alive = TRUE
  /\ tstate = [t \in Tasks |-> "ready"]
  /\ holds = [t \in Tasks |-> "none"]
  /\ rounds = [t \in Tasks |-> 0]
  /\ pc = [th \in Threads |-> "idle"]
  /\ self = [th \in Threads |-> NoTask]
  /\ local = [th \in Threads |-> NoCall]
  /\ taken = [th \in Threads |-> <<>>]

-----------------------------------------------------------------------------
(* The executor runs what was posted.                                      *)

Dispatch(th, t) ==
  /\ pc[th] = "idle" /\ tstate[t] = "ready"
  /\ tstate' = [tstate EXCEPT ![t] = "running"]
  /\ self' = [self EXCEPT ![th] = t]
  /\ pc' = [pc EXCEPT ![th] = "user"]
  /\ UNCHANGED <<shared, holds, rounds, local, taken>>

\* A task ends only after it has released what it holds.
EndTask(th) ==
  /\ pc[th] = "user"
  /\ alive => holds[self[th]] = "none"
  /\ tstate' = [tstate EXCEPT ![self[th]] = "done"]
  /\ self' = [self EXCEPT ![th] = NoTask]
  /\ pc' = [pc EXCEPT ![th] = "idle"]
  /\ UNCHANGED <<shared, holds, rounds, local, taken>>

-----------------------------------------------------------------------------
(* Acquiring.                                                              *)

\* Mutant: a writer looks only at the holders.
CanLockIgnoringWakers(k) ==
  IF k = "read" THEN ~value.writer /\ value.wwait = 0
                ELSE ~value.writer /\ value.readers = 0
\* A reader enters if no writer holds or waits; a writer if the word is zero.
CanLock(k) ==
  IF k = "read" THEN ~value.writer /\ value.wwait = 0 ELSE value = Unlocked

\* try_lock_read and try_lock_write, when the compare-exchange succeeds.
TakeLock(t, k) ==
  /\ value' = IF k = "read" THEN [value EXCEPT !.readers = @ + 1]
                            ELSE [value EXCEPT !.writer = TRUE]
  /\ holds' = [holds EXCEPT ![t] = k]

BeginRound(th) ==
  /\ pc[th] = "user" /\ alive
  /\ holds[self[th]] = "none" /\ rounds[self[th]] < MaxRounds
  /\ rounds' = [rounds EXCEPT ![self[th]] = @ + 1]

\* lock_read and lock_write: await_ready is the try_lock, await_suspend follows
\* a failure.
Lock(th, k) ==
  /\ BeginRound(th)
  /\ \/ /\ CanLock(k) /\ TakeLock(self[th], k)
        /\ UNCHANGED <<pc, local>>
     \/ /\ ~CanLock(k)
        /\ pc' = [pc EXCEPT ![th] = "suspend"]
        /\ local' = [local EXCEPT ![th].kind = k]
        /\ UNCHANGED <<value, holds>>
  /\ UNCHANGED <<lists, alive, tstate, self, taken>>

\* try_lock_read and try_lock_write called by the user.
TryLock(th, k) ==
  /\ BeginRound(th)
  /\ IF CanLock(k) THEN TakeLock(self[th], k) ELSE UNCHANGED <<value, holds>>
  /\ UNCHANGED <<lists, alive, tstate, pc, self, local, taken>>

\* configure_and_add_waiter: from here on any thread may resume the task.
Push(th) ==
  /\ pc[th] = "suspend"
  /\ lists' = [lists EXCEPT ![local[th].kind] = Append(@, self[th])]
  /\ tstate' = [tstate EXCEPT ![self[th]] = "waiting"]
  /\ self' = [self EXCEPT ![th] = NoTask]
  /\ pc' = [pc EXCEPT ![th] = "add_waiter"]
  /\ UNCHANGED <<value, alive, holds, rounds, local, taken>>

-----------------------------------------------------------------------------
(* try_wake<PreferWriters>.                                                *)

\* Mutant: another thread's WAKING bit is not respected.
CanWakeShared(w) ==
  ~w.writer /\ ((w.readers = 0 /\ w.wwait > 0) \/ (w.wwait = 0 /\ w.rwait > 0))
CanWake(w) ==
  /\ ~w.writer /\ ~w.waking
  /\ (w.readers = 0 /\ w.wwait > 0) \/ (w.wwait = 0 /\ w.rwait > 0)

WakesWriter(w, p) == w.readers = 0 /\ w.wwait > 0 /\ (p \/ w.rwait = 0)
WakesReaders(w, p) == w.rwait > 0 /\ (p => w.wwait = 0)

Return(th) ==
  /\ pc' = [pc EXCEPT ![th] = IF self[th] = NoTask THEN "idle" ELSE "user"]
  /\ local' = [local EXCEPT ![th] = NoCall]

\* Entry: V is the word that the caller's own update produced.
TryWake(th, w, p) ==
  IF CanWake(w)
  THEN /\ pc' = [pc EXCEPT ![th] = "claim"]
       /\ local' = [local EXCEPT ![th] = [@ EXCEPT !.v = w, !.prefer = p]]
  ELSE Return(th)

\* The top of the second loop, for the word w.  Its exit "clear", which would
\* clear WAKING because nobody is left to wake, has no action: can_wake held of
\* the same word, so no behaviour reaches it (part of WakingIsExclusive).
Decide(th, w) ==
  LET p == local[th].prefer
  IN  /\ local' = [local EXCEPT ![th] = [@ EXCEPT !.v = w, !.target = w.rwait]]
      /\ pc' = [pc EXCEPT ![th] = IF WakesWriter(w, p) THEN "take_writer"
                                  ELSE IF WakesReaders(w, p) THEN "take_readers"
                                  ELSE "clear"]

\* suspend_read and suspend_write: count the waiter, then look for the lock.
AddWaiter(th) ==
  /\ pc[th] = "add_waiter"
  /\ value' = IF local[th].kind = "read" THEN [value EXCEPT !.rwait = @ + 1]
                                         ELSE [value EXCEPT !.wwait = @ + 1]
  /\ TryWake(th, value', local[th].kind = "write")
  /\ UNCHANGED <<lists, alive, sched, self, taken>>

\* Mutant: a failed claim is not tried again.
ClaimOnce(th) ==
  /\ pc[th] = "claim"
  /\ IF value = local[th].v
     THEN value' = [value EXCEPT !.waking = TRUE] /\ Decide(th, value')
     ELSE value' = value /\ Return(th)
  /\ UNCHANGED <<lists, alive, sched, self, taken>>
\* The compare-exchange that claims WAKING, or re-reads the word and looks again.
Claim(th) ==
  /\ pc[th] = "claim"
  /\ IF value = local[th].v
     THEN value' = [value EXCEPT !.waking = TRUE] /\ Decide(th, value')
     ELSE value' = value /\ TryWake(th, value, local[th].prefer)
  /\ UNCHANGED <<lists, alive, sched, self, taken>>

\* must_take_1 of the list k.
MustTake1(th, k) ==
  /\ lists[k] # <<>>
  /\ taken' = [taken EXCEPT ![th] = Append(@, Head(lists[k]))]
  /\ lists' = [lists EXCEPT ![k] = Tail(@)]

TakeWriter(th) ==
  /\ pc[th] = "take_writer" /\ MustTake1(th, "write")
  /\ pc' = [pc EXCEPT ![th] = "give_writer"]
  /\ UNCHANGED <<value, alive, sched, self, local>>

\* The compare-exchange loop only recomputes newV, so it is one step.
GiveWriter(th) ==
  /\ pc[th] = "give_writer"
  /\ value' = [value EXCEPT !.waking = FALSE, !.wwait = @ - 1, !.writer = TRUE]
  /\ holds' = [holds EXCEPT ![Head(taken[th])] = "write"]
  /\ pc' = [pc EXCEPT ![th] = "resume"]
  /\ UNCHANGED <<lists, alive, tstate, rounds, self, local, taken>>

TakeReader(th) ==
  /\ pc[th] = "take_readers" /\ MustTake1(th, "read")
  /\ pc' = [pc EXCEPT ![th] = IF Len(taken'[th]) < local[th].target
                              THEN "take_readers" ELSE "give_readers"]
  /\ UNCHANGED <<value, alive, sched, self, local>>

\* taken, the number of nodes in the batch.
Batch(th) == Len(taken[th])
\* New readers join the batch only while no writer waits.
Grows(w) == w.wwait = 0

\* Transfer the lock to the readers taken, or re-read and maybe take more.
GiveReaders(th) ==
  LET n == Batch(th)
      more == IF Grows(value) THEN value.rwait ELSE local[th].target
  IN  /\ pc[th] = "give_readers"
      /\ IF value = local[th].v
         THEN /\ value' = [value EXCEPT !.waking = FALSE, !.rwait = @ - n, !.readers = @ + n]
              /\ holds' = [t \in Tasks |-> IF t \in ToSet(taken[th]) THEN "read" ELSE holds[t]]
              /\ pc' = [pc EXCEPT ![th] = "resume"]
              /\ local' = local
         ELSE /\ local' = [local EXCEPT ![th] = [@ EXCEPT !.v = value, !.target = more]]
              /\ pc' = [pc EXCEPT ![th] = IF n < more THEN "take_readers" ELSE "give_readers"]
              /\ UNCHANGED <<value, holds>>
      /\ UNCHANGED <<lists, alive, tstate, rounds, self, taken>>

\* resume, and the bulk posts of wake_waiters_in_batches.
Resume(th) ==
  /\ pc[th] = "resume"
  /\ \E n \in 1..Len(taken[th]) :
       LET rest == SubSeq(taken[th], n + 1, Len(taken[th]))
       IN  /\ tstate' = [t \in Tasks |-> IF t \in ToSet(SubSeq(taken[th], 1, n))
                                         THEN "ready" ELSE tstate[t]]
           /\ taken' = [taken EXCEPT ![th] = rest]
           /\ IF rest = <<>> THEN Return(th) ELSE UNCHANGED <<pc, local>>
  /\ UNCHANGED <<shared, holds, rounds, self>>

-----------------------------------------------------------------------------
(* Releasing.                                                              *)

\* unlock_read (also ~rw_lock_read_scope): prefers writers when it wakes.
UnlockRead(th) ==
  /\ pc[th] = "user" /\ alive /\ holds[self[th]] = "read"
  /\ value' = [value EXCEPT !.readers = @ - 1]
  /\ holds' = [holds EXCEPT ![self[th]] = "none"]
  /\ TryWake(th, value', TRUE)
  /\ UNCHANGED <<lists, alive, tstate, rounds, self, taken>>

\* unlock_write (also ~rw_lock_write_scope): prefers readers when it wakes.
UnlockWrite(th) ==
  /\ pc[th] = "user" /\ alive /\ holds[self[th]] = "write"
  /\ value' = [value EXCEPT !.writer = FALSE]
  /\ holds' = [holds EXCEPT ![self[th]] = "none"]
  /\ TryWake(th, value', FALSE)
  /\ UNCHANGED <<lists, alive, tstate, rounds, self, taken>>

\* The destructor wakes the waiting readers, then the waiting writers.
Destroy(th) ==
  /\ pc[th] = "user" /\ alive
  /\ \A o \in Threads : pc[o] \in {"idle", "user"}
  /\ alive' = FALSE
  /\ lists' = [k \in Kinds |-> <<>>]
  /\ taken' = [taken EXCEPT ![th] = lists["read"] \o lists["write"]]
  /\ pc' = [pc EXCEPT ![th] = IF taken'[th] = <<>> THEN "user" ELSE "resume"]
  /\ UNCHANGED <<value, sched, self, local>>

Terminated ==
  /\ \A t \in Tasks : tstate[t] = "done"
  /\ \A th \in Threads : pc[th] = "idle"
  /\ UNCHANGED vars

Step(th) ==
  \/ \E t \in Tasks : Dispatch(th, t)
  \/ \E k \in Kinds : Lock(th, k) \/ TryLock(th, k)
  \/ Push(th) \/ AddWaiter(th) \/ Claim(th)
  \/ TakeWriter(th) \/ GiveWriter(th) \/ TakeReader(th) \/ GiveReaders(th)
  \/ Resume(th) \/ UnlockRead(th) \/ UnlockWrite(th)
  \/ Destroy(th) \/ EndTask(th)

Next == (\E th \in Threads : Step(th)) \/ Terminated
Spec == Init /\ [][Next]_vars

\* A thread that can take a step takes one.
FairSpec == Spec /\ \A th \in Threads : WF_vars(Step(th))

-----------------------------------------------------------------------------
Waking(th)   == pc[th] \in {"clear", "take_writer", "give_writer", "take_readers", "give_readers"}
Touching(th) == Waking(th) \/ pc[th] \in {"add_waiter", "claim"}
Quiet        == \A th \in Threads : ~Touching(th)

\* Many readers or one writer; the word agrees with who holds what, so that
\* a hand-over never gives a lock away twice or forgets a holder.
ReadersXorWriter ==
  /\ \A s, t \in Tasks : holds[s] = "write" /\ holds[t] # "none" => s = t
  /\ value.writer <=> \E t \in Tasks : holds[t] = "write"
  /\ value.readers = Cardinality({t \in Tasks : holds[t] = "read"})

\* The comment in try_wake: only one thread holds WAKING; no writer holds the
\* lock meanwhile; only that thread lowers the waiter counts, so the asserts of
\* the hand-over loops hold when the word is finally exchanged; and whoever claimed
\* it finds somebody to wake.
WakingIsExclusive ==
  /\ \A th \in Threads : pc[th] # "clear"
  /\ \A a, b \in Threads : Waking(a) /\ Waking(b) => a = b
  /\ \A th \in Threads : Waking(th) => value.waking /\ ~value.writer
  /\ \A th \in Threads : pc[th] = "give_writer" => value.readers = 0 /\ value.wwait > 0
  /\ \A th \in Threads : pc[th] = "give_readers" => value.rwait >= Len(taken[th])
  /\ \A th \in Threads : pc[th] = "take_readers" =>
        Len(lists["read"]) + Len(taken[th]) >= local[th].target

\* No lost wakeup: when no thread is inside the protocol, nobody is left in a
\* list who could be given the lock, and the counts match the lists.
NoLostWakeup ==
  alive /\ Quiet =>
     /\ ~value.waking
     /\ value.rwait = Len(lists["read"]) /\ value.wwait = Len(lists["write"])
     /\ ~value.writer /\ value.readers = 0 => value.rwait = 0 /\ value.wwait = 0
     /\ value.rwait > 0 => value.writer \/ value.wwait > 0

\* Every task that suspends is resumed.
EveryWaiterRuns ==
  \A t \in Tasks : (tstate[t] = "waiting") ~> (tstate[t] # "waiting")

\* A thread inside suspend_read or suspend_write no longer touches the lock when
\* every task has ended: the lock may be destroyed then.
NoUseAfterResume == (\A t \in Tasks : tstate[t] = "done") => Quiet
=============================================================================
