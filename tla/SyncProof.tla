------------------------------ MODULE SyncProof ------------------------------
(***************************************************************************)
(* Proofs about tiny_mutex, rw_lock, manual_reset_event, latch and barrier *)
(* in the behaviours of MCSync that use them.                              *)
(*                                                                         *)
(* tiny_mutex, for any set of tasks and any finite number of runners: type *)
(* correctness, the single runner, and the lifetime of the shared block.   *)
(*                                                                         *)
(* rw_lock, for any tasks, any finite set of threads and any number of     *)
(* rounds: exclusion, the owner of WAKING, and no lost wakeup.             *)
(*                                                                         *)
(* The event, the latch and the barrier, for any finite sets of tasks and  *)
(* threads, any Count and any number of rounds (of the barrier the three   *)
(* phases of MCSync): nobody is left behind, every waiter is on one list,  *)
(* nobody passes early, and they may be destroyed when the code says so.   *)
(* First what a chain of links is and what each operation makes of it,     *)
(* then the lists and threads that the three share (Core), then each.      *)
(***************************************************************************)
EXTENDS MCSync, FiniteSetTheorems, TLAPS, WellFoundedInduction

USE NullAssumption, RunnersAssumption, RoundsAssumption

-----------------------------------------------------------------------------
(* tiny_mutex. *)

\* The runners that hold a reference: run_loop has begun and not released it.
Counting == {"swap", "run", "inside", "close", "release"}
Counted == {r \in Runners : rpc[r] \in Counting}

\* The reference count is the number of its holders.
RefsInv == refs = Cardinality(Counted) + (IF alive THEN 1 ELSE 0)

\* A runner about to resume has somebody to resume; a task has the mutex only
\* while a runner is inside it.
RunInv ==
  /\ \A r \in Runners : rpc[r] = "run" => curr[r] \in Tasks
  /\ \A t \in Tasks : tstate[t] = "locked" => \E r \in Runners : rpc[r] = "inside"

\* Without RUNNING the stack is empty; before a runner has its reference the
\* task that started it is still queued, so the mutex cannot be destroyed.
StackInv ==
  /\ ~running => top = NULL
  /\ \A r \in Runners : rpc[r] = "start" =>
        alive /\ top \in Tasks /\ tstate[top] = "queued"

IInv == TypeOK /\ RefsInv /\ OneRunner /\ RunInv /\ StackInv

LEMMA CountedFinite == IsFiniteSet(Counted) /\ Cardinality(Counted) \in Nat
BY FS_Subset, FS_CardinalityType DEF Counted

LEMMA InitIInv == Init => IInv
<1> SUFFICES ASSUME Init PROVE IInv
  OBVIOUS
<1>1. Counted = {} /\ ActiveRunners = {}
  BY DEF Init, Counted, ActiveRunners, Counting, Active
<1>2. RefsInv
  BY <1>1, FS_EmptySet DEF Init, RefsInv
<1>3. TypeOK
  <2>1. rounds \in [Tasks -> 0..MaxRounds] /\ refs \in Nat
    BY DEF Init
  <2>2. rpc \in [Runners -> Active \cup {"none", "release"}]
    BY DEF Init
  <2>3. tstate \in [Tasks -> {"free", "queued", "locked", "done"}]
    BY DEF Init
  <2>4. next \in [Tasks -> Tasks \cup {NULL}] /\ curr \in [Runners -> Tasks \cup {NULL}]
    BY DEF Init
  <2> QED BY <2>1, <2>2, <2>3, <2>4 DEF Init, TypeOK
<1>4. OneRunner /\ RunInv /\ StackInv
  BY <1>1 DEF Init, OneRunner, RunInv, StackInv
<1> QED BY <1>2, <1>3, <1>4 DEF IInv

\* A task that suspends moves at most the runner it is inside.
LEMMA BackToRunnerFact ==
  ASSUME TypeOK, NEW t \in Tasks
  PROVE  /\ BackToRunner(t) \in [Runners -> Active \cup {"none", "release"}]
         /\ \A r \in Runners :
              BackToRunner(t)[r] = IF tstate[t] = "locked" /\ rpc[r] = "inside"
                                   THEN (IF curr[r] = NULL THEN "swap" ELSE "run")
                                   ELSE rpc[r]
BY DEF TypeOK, BackToRunner, Active

\* The steps of a task that leave the word's RUNNING bit and the set of active
\* runners alone.
LEMMA LeaveStep ==
  ASSUME IInv, NEW t \in Tasks, NEW s \in {"queued", "free", "done"},
         tstate[t] \in {"free", "locked"},
         tstate' = [tstate EXCEPT ![t] = s],
         rpc' = BackToRunner(t),
         rounds' \in [Tasks -> 0..MaxRounds],
         next' \in [Tasks -> Tasks \cup {NULL}],
         top' = top \/ (running /\ top' = t /\ s = "queued"),
         UNCHANGED <<running, refs, alive, curr>>
  PROVE  IInv'
<1>1. rpc' \in [Runners -> Active \cup {"none", "release"}]
      /\ \A r \in Runners :
           rpc'[r] = IF tstate[t] = "locked" /\ rpc[r] = "inside"
                     THEN (IF curr[r] = NULL THEN "swap" ELSE "run")
                     ELSE rpc[r]
  BY BackToRunnerFact DEF IInv
<1>2. Counted' = Counted /\ ActiveRunners' = ActiveRunners
  BY <1>1 DEF Counted, ActiveRunners, Counting, Active
<1>3. TypeOK'
  BY <1>1 DEF IInv, TypeOK
<1>4. RefsInv'
  BY <1>2 DEF IInv, RefsInv
<1>5. OneRunner'
  BY <1>2 DEF IInv, TypeOK, OneRunner
<1>6. RunInv'
  BY <1>1 DEF IInv, TypeOK, OneRunner, RunInv
<1>7. StackInv'
  BY <1>1 DEF IInv, TypeOK, StackInv, Active
<1> QED BY <1>3, <1>4, <1>5, <1>6, <1>7 DEF IInv

LEMMA EnqueueStep == ASSUME IInv, NEW t \in Tasks, Enqueue(t) PROVE IInv'
<1>1. /\ rounds' \in [Tasks -> 0..MaxRounds] /\ next' \in [Tasks -> Tasks \cup {NULL}]
      /\ tstate[t] \in {"free", "locked"} /\ alive
      /\ tstate' = [tstate EXCEPT ![t] = "queued"]
      /\ top' = t /\ running' = TRUE /\ UNCHANGED <<refs, alive, curr>>
  BY DEF Enqueue, Marked, IInv, TypeOK
<1>2. CASE running
  BY <1>1, <1>2, LeaveStep DEF Enqueue
<1>3. CASE ~running
  <2>1. ActiveRunners = {}
    BY <1>3 DEF IInv, OneRunner
  <2>2. \A r \in Runners : rpc[r] \in {"none", "release"}
    BY <2>1 DEF IInv, TypeOK, ActiveRunners
  <2>3. BackToRunner(t) = rpc
    BY <2>2 DEF BackToRunner, IInv, TypeOK
  <2>4. PICK r \in Runners : rpc[r] = "none" /\ rpc' = [rpc EXCEPT ![r] = "start"]
    BY <1>3, <2>3 DEF Enqueue
  <2>5. Counted' = Counted /\ ActiveRunners' = {r}
    BY <2>2, <2>4 DEF Counted, ActiveRunners, Counting, Active, IInv, TypeOK
  <2>6. \A s \in Tasks : tstate[s] # "locked"
    BY <2>2 DEF IInv, RunInv
  <2>7. TypeOK'
    BY <1>1, <2>4 DEF IInv, TypeOK, Active
  <2>8. RefsInv'
    BY <1>1, <2>5 DEF IInv, RefsInv
  <2>9. OneRunner'
    BY <1>1, <2>5, <2>6 DEF IInv, TypeOK, OneRunner
  <2>10. RunInv' /\ StackInv'
    BY <1>1, <2>2, <2>4, <2>6 DEF IInv, TypeOK, RunInv, StackInv
  <2> QED BY <2>7, <2>8, <2>9, <2>10 DEF IInv
<1> QED BY <1>2, <1>3

LEMMA TaskSteps ==
  ASSUME IInv, NEW t \in Tasks, TaskStep(t)
  PROVE  IInv'
<1>1. CASE Enqueue(t)
  BY <1>1, EnqueueStep
<1>2. CASE Unlock(t)
  BY <1>2, LeaveStep DEF Unlock, IInv, TypeOK
<1>3. CASE End(t)
  BY <1>3, LeaveStep DEF End, IInv, TypeOK
<1>4. CASE Destroy(t)
  <2>1. Counted' = Counted /\ ActiveRunners' = ActiveRunners
    BY <1>4 DEF Destroy, Counted, ActiveRunners
  <2>2. refs' \in Nat /\ RefsInv'
    BY <1>4, <2>1, CountedFinite DEF Destroy, IInv, RefsInv
  <2>3. TypeOK'
    BY <1>4, <2>2 DEF Destroy, IInv, TypeOK
  <2>4. OneRunner' /\ RunInv'
    BY <1>4, <2>1 DEF Destroy, IInv, OneRunner, RunInv
  <2>5. StackInv'
    BY <1>4 DEF Destroy, IInv, StackInv
  <2> QED BY <2>2, <2>3, <2>4, <2>5 DEF IInv
<1> QED BY <1>1, <1>2, <1>3, <1>4 DEF TaskStep

\* Counting one runner more or less moves the cardinality by one.
LEMMA CountOneMore ==
  ASSUME TypeOK, NEW r \in Runners, rpc[r] = "start", rpc' = [rpc EXCEPT ![r] = "swap"]
  PROVE  Cardinality(Counted)' = Cardinality(Counted) + 1
<1>1. Counted' = Counted \cup {r} /\ r \notin Counted
  BY DEF TypeOK, Counted, Counting
<1> QED BY <1>1, CountedFinite, FS_AddElement

LEMMA CountOneLess ==
  ASSUME TypeOK, NEW r \in Runners, rpc[r] = "release", rpc' = [rpc EXCEPT ![r] = "none"]
  PROVE  Cardinality(Counted)' = Cardinality(Counted) - 1 /\ Cardinality(Counted) > 0
<1>1. Counted' = Counted \ {r} /\ r \in Counted
  BY DEF TypeOK, Counted, Counting
<1>2. Cardinality(Counted') = Cardinality(Counted) - 1
  BY <1>1, CountedFinite, FS_RemoveElement
<1>3. Cardinality(Counted) # 0
  BY <1>1, CountedFinite, FS_EmptySet
<1> QED BY <1>2, <1>3, CountedFinite

\* The steps of the one active runner that stay inside run_loop.
LEMMA LoopStep ==
  ASSUME IInv, NEW r \in Runners, rpc[r] \in {"swap", "run", "close"},
         NEW w \in {"swap", "run", "close", "inside"},
         rpc' = [rpc EXCEPT ![r] = w],
         running, running', TypeOK',
         \/ w # "inside" /\ tstate' = tstate
         \/ w = "inside" /\ rpc[r] = "run" /\ tstate' = [tstate EXCEPT ![curr[r]] = "locked"],
         w = "run" => curr'[r] \in Tasks,
         \A q \in Runners \ {r} : curr'[q] = curr[q],
         UNCHANGED <<refs, alive>>
  PROVE  IInv'
<1>1. Counted' = Counted /\ ActiveRunners' = ActiveRunners /\ r \in ActiveRunners
  BY DEF IInv, TypeOK, Counted, ActiveRunners, Counting, Active
<1>2. \A q \in Runners \ {r} : rpc[q] \notin Active /\ rpc'[q] = rpc[q]
  BY <1>1 DEF IInv, TypeOK, OneRunner, ActiveRunners
<1>3. \A t \in Tasks : tstate[t] # "locked"
  BY <1>2 DEF IInv, RunInv, Active
<1>4. RefsInv'
  BY <1>1 DEF IInv, RefsInv
<1>5. OneRunner'
  BY <1>1, <1>3 DEF IInv, TypeOK, OneRunner, RunInv
<1>6. RunInv'
  BY <1>2, <1>3 DEF IInv, TypeOK, RunInv, Active
<1>7. StackInv'
  BY <1>2 DEF IInv, TypeOK, StackInv, Active
<1> QED BY <1>4, <1>5, <1>6, <1>7 DEF IInv

LEMMA RunnerSteps == ASSUME IInv, NEW r \in Runners, RunnerStep(r) PROVE IInv'
<1>0. \A q \in Runners : rpc[q] \in Active /\ rpc[r] \in Active => q = r /\ running
  BY DEF IInv, OneRunner, ActiveRunners
<1>1. CASE Start(r)
  <2>1. Cardinality(Counted)' = Cardinality(Counted) + 1
    BY <1>1, CountOneMore DEF Start, IInv
  <2>2. RefsInv'
    BY <1>1, <2>1, CountedFinite DEF Start, IInv, RefsInv, TypeOK
  <2>3. TypeOK'
    BY <1>1 DEF Start, IInv, TypeOK, Active
  <2>4. ActiveRunners' = ActiveRunners
    BY <1>1 DEF Start, IInv, TypeOK, ActiveRunners, Active
  <2>5. OneRunner'
    BY <1>1, <2>4 DEF Start, IInv, OneRunner
  <2>6. RunInv' /\ StackInv'
    BY <1>1, <1>0 DEF Start, IInv, TypeOK, RunInv, StackInv, Active
  <2> QED BY <2>2, <2>3, <2>5, <2>6 DEF IInv
<1>2. CASE Swap(r)
  <2>1. TypeOK' /\ running' /\ running
    BY <1>2, <1>0 DEF Swap, IInv, TypeOK, Active
  <2> DEFINE w == IF top = NULL THEN "close" ELSE "run"
  <2>2. w = "run" => curr'[r] \in Tasks
    BY <1>2 DEF Swap, IInv, TypeOK
  <2>3. \A q \in Runners \ {r} : curr'[q] = curr[q]
    BY <1>2 DEF Swap, IInv, TypeOK
  <2>4. w \in {"close", "run"} /\ rpc[r] = "swap" /\ rpc' = [rpc EXCEPT ![r] = w]
        /\ tstate' = tstate /\ UNCHANGED <<refs, alive>>
    BY <1>2 DEF Swap
  <2> HIDE DEF w
  <2> QED BY <2>1, <2>2, <2>3, <2>4, LoopStep
<1>3. CASE Close(r)
  <2>1. CASE top = NULL
    <3>1. /\ rpc[r] = "close" /\ rpc' = [rpc EXCEPT ![r] = "release"] /\ ~running'
          /\ UNCHANGED <<top, refs, next, alive, tstate, rounds, curr>>
      BY <1>3, <2>1 DEF Close
    <3>2. Counted' = Counted /\ ActiveRunners' = {}
      BY <3>1, <1>0 DEF IInv, TypeOK, Counted, ActiveRunners, Counting, Active
    <3>3. \A q \in Runners : rpc'[q] \notin Active
      BY <3>2 DEF ActiveRunners
    <3>4. \A t \in Tasks : tstate[t] # "locked"
      BY <3>1, <1>0 DEF IInv, RunInv, Active
    <3>5. TypeOK'
      BY <1>3, <2>1, <3>1 DEF Close, IInv, TypeOK
    <3>6. RefsInv' /\ OneRunner'
      BY <3>1, <3>2, <3>4 DEF IInv, RefsInv, OneRunner
    <3>7. RunInv' /\ StackInv'
      BY <2>1, <3>1, <3>3, <3>4 DEF RunInv, StackInv, Active
    <3> QED BY <3>5, <3>6, <3>7 DEF IInv
  <2>2. CASE top # NULL
    <3>1. /\ rpc[r] = "close" /\ rpc' = [rpc EXCEPT ![r] = "swap"]
          /\ UNCHANGED <<running, top, refs, next, alive, tstate, rounds, curr>>
      BY <1>3, <2>2 DEF Close
    <3>2. TypeOK' /\ running /\ running'
      BY <3>1, <1>0 DEF IInv, TypeOK, Active
    <3> QED BY <3>1, <3>2, LoopStep
  <2> QED BY <2>1, <2>2
<1>4. CASE Run(r)
  <2>1. /\ rpc[r] = "run" /\ rpc' = [rpc EXCEPT ![r] = "inside"]
        /\ tstate' = [tstate EXCEPT ![curr[r]] = "locked"]
        /\ UNCHANGED <<running, refs, alive>> /\ curr[r] \in Tasks
    BY <1>4 DEF Run, IInv, RunInv
  <2>2. TypeOK' /\ running /\ running'
    BY <1>4, <1>0, <2>1 DEF Run, IInv, TypeOK, Active
  <2>3. \A q \in Runners \ {r} : curr'[q] = curr[q]
    BY <1>4 DEF Run, IInv, TypeOK
  <2> QED BY <2>1, <2>2, <2>3, LoopStep
<1>5. CASE Release(r)
  <2>1. Cardinality(Counted)' = Cardinality(Counted) - 1 /\ Cardinality(Counted) > 0
    BY <1>5, CountOneLess DEF Release, IInv
  <2>2. RefsInv' /\ refs' \in Nat
    BY <1>5, <2>1, CountedFinite DEF Release, IInv, RefsInv, TypeOK
  <2>3. TypeOK'
    BY <1>5, <2>2 DEF Release, IInv, TypeOK
  <2>4. ActiveRunners' = ActiveRunners
    BY <1>5 DEF Release, IInv, TypeOK, ActiveRunners, Active
  <2>5. OneRunner' /\ RunInv' /\ StackInv'
    BY <1>5, <2>4 DEF Release, IInv, TypeOK, OneRunner, RunInv, StackInv
  <2> QED BY <2>2, <2>3, <2>5 DEF IInv
<1> QED BY <1>1, <1>2, <1>3, <1>4, <1>5 DEF RunnerStep

LEMMA NextIInv == IInv /\ [Next]_vars => IInv'
<1> SUFFICES ASSUME IInv, [Next]_vars PROVE IInv'
  OBVIOUS
<1>1. ASSUME NEW t \in Tasks, TaskStep(t) PROVE IInv'
  BY <1>1, TaskSteps
<1>2. ASSUME NEW r \in Runners, RunnerStep(r) PROVE IInv'
  BY <1>2, RunnerSteps
<1>3. CASE UNCHANGED vars
  BY <1>3 DEF vars, IInv, TypeOK, RefsInv, Counted, OneRunner, ActiveRunners, RunInv, StackInv
<1> QED BY <1>1, <1>2, <1>3 DEF Next, Terminated

LEMMA InductiveInvariant == Spec => []IInv
BY InitIInv, NextIInv, PTL DEF Spec

LEMMA FreedLastFollows == IInv => FreedLast
<1> SUFFICES ASSUME IInv, refs = 0
             PROVE  ~alive /\ (\A r \in Runners : rpc[r] = "none") /\ ~running /\ top = NULL
  BY DEF FreedLast
<1>1. ~alive /\ Counted = {}
  BY CountedFinite, FS_EmptySet DEF IInv, RefsInv
<1>2. \A r \in Runners : rpc[r] = "none"
  BY <1>1 DEF Counted, Counting, Active, IInv, TypeOK, StackInv
<1>3. ActiveRunners = {}
  BY <1>2 DEF ActiveRunners, Active
<1> QED BY <1>1, <1>2, <1>3 DEF IInv, OneRunner, StackInv

\* tiny_mutex keeps its types.
THEOREM TinyMutexTypes == Spec => []TypeOK
BY InductiveInvariant, PTL DEF IInv

\* One runner resumes the waiters of a tiny_mutex at a time, and only while
\* RUNNING is set, so only one task holds it.
THEOREM OneRunnerAtATime == Spec => []OneRunner
BY InductiveInvariant, PTL DEF IInv

\* release_tiny_mutex_state frees the block only when the mutex is gone and no
\* run_loop can touch it any more.
THEOREM BlockFreedLast == Spec => []FreedLast
BY InductiveInvariant, FreedLastFollows, PTL

-----------------------------------------------------------------------------
(* rw_lock: the invariant. *)

\* No node is in two places, and whoever is in a list or in a waker's hands waits and
\* has no lock yet.
Distinct(s) == \A i, j \in 1..Len(s) : s[i] = s[j] => i = j
Nodes(s) == RW!ToSet(s)
ListsPart ==
  /\ \A k \in RW!Kinds : Distinct(lists[k])
  /\ \A k \in RW!Kinds : \A t \in Nodes(lists[k]) : tstate[t] = "waiting" /\ holds[t] = "none"
  /\ Nodes(lists["read"]) \cap Nodes(lists["write"]) = {}
TakenPart ==
  /\ \A th \in Threads : Distinct(taken[th])
  /\ \A th \in Threads : \A t \in Nodes(taken[th]) :
        tstate[t] = "waiting" /\ (pc[th] # "resume" => holds[t] = "none")
  /\ \A th \in Threads, k \in RW!Kinds : Nodes(lists[k]) \cap Nodes(taken[th]) = {}
  /\ \A th, o \in Threads : th # o => Nodes(taken[th]) \cap Nodes(taken[o]) = {}

\* A task runs on one thread, and a task about to suspend has no lock.
SelfPart ==
  /\ \A th \in Threads : pc[th] \in {"user", "suspend"} => self[th] \in Tasks
  /\ \A th \in Threads : self[th] \in Tasks => tstate[self[th]] = "running"
  /\ \A th, o \in Threads : self[th] \in Tasks /\ self[th] = self[o] => th = o
  /\ \A th \in Threads : pc[th] = "suspend" => holds[self[th]] = "none"

\* The word agrees with who holds what.
Readers == {t \in Tasks : holds[t] = "read"}
HoldPart ==
  /\ \A s, t \in Tasks : holds[s] = "write" /\ holds[t] # "none" => s = t
  /\ value.writer <=> \E t \in Tasks : holds[t] = "write"
  /\ IsFiniteSet(Readers) /\ value.readers = Cardinality(Readers)

\* The owner of WAKING, and what it knows of the word while others change it.
Batching(th) == pc[th] \in {"take_readers", "give_readers"}
OwnerPart ==
  /\ \A a, b \in Threads : RW!Waking(a) /\ RW!Waking(b) => a = b
  /\ \A th \in Threads : RW!Waking(th) => value.waking /\ ~value.writer
  /\ value.waking => \E th \in Threads : RW!Waking(th)
KnownPart(th) ==
  /\ pc[th] # "clear"
  /\ pc[th] = "claim" => RW!CanWake(local[th].v)
  /\ pc[th] \in {"take_writer", "give_writer"} => value.readers = 0 /\ value.wwait > 0
  /\ Batching(th) => /\ local[th].target > 0 /\ value.rwait >= local[th].target
                     /\ local[th].v.wwait = 0 => local[th].target = local[th].v.rwait
HandPart(th) ==
  /\ pc[th] \in {"idle", "user", "suspend", "add_waiter", "claim", "take_writer"} => taken[th] = <<>>
  /\ pc[th] = "give_writer" => Len(taken[th]) = 1
  /\ pc[th] = "take_readers" => Len(taken[th]) < local[th].target
  /\ pc[th] = "give_readers" => Len(taken[th]) = local[th].target
  /\ pc[th] = "resume" => taken[th] # <<>>

\* The word counts a waiter after its node was pushed, and forgets it only with the
\* hand-over: in between, the lists and the hands hold at least as many nodes.
Adding(k) == {th \in Threads : pc[th] = "add_waiter" /\ local[th].kind = k}
Due(k) == Cardinality(Adding(k)) + (IF k = "read" THEN value.rwait ELSE value.wwait)
InHand(k, th) == IF k = "read" THEN Batching(th) ELSE pc[th] = "give_writer"
CountPart(k) ==
  /\ \A th \in Threads : InHand(k, th) => Len(lists[k]) + Len(taken[th]) = Due(k)
  /\ (\A th \in Threads : ~InHand(k, th)) => Len(lists[k]) = Due(k)

\* Whoever made it possible to wake somebody is about to claim WAKING.
LookPart == RW!CanWake(value) => \E th \in Threads : pc[th] = "claim"

LockInv ==
  /\ RW!TypeOK /\ ListsPart /\ TakenPart /\ SelfPart /\ HoldPart /\ OwnerPart
  /\ \A th \in Threads : KnownPart(th) /\ HandPart(th)
  /\ IF alive THEN LookPart /\ \A k \in RW!Kinds : CountPart(k)
     ELSE \A th \in Threads : pc[th] \in {"idle", "user", "resume"}

-----------------------------------------------------------------------------
(* Lists of nodes. *)

LEMMA NodesOf ==
  ASSUME NEW S, NEW s \in Seq(S)
  PROVE  Nodes(s) = {s[i] : i \in 1..Len(s)} /\ Nodes(s) \subseteq S
BY DEF Nodes, RW!ToSet

LEMMA NoNodes == Nodes(<<>>) = {} /\ Distinct(<<>>)
BY DEF Nodes, RW!ToSet, Distinct

LEMMA Pushed ==
  ASSUME NEW S, NEW s \in Seq(S), NEW t \in S
  PROVE  /\ Append(s, t) \in Seq(S) /\ Len(Append(s, t)) = Len(s) + 1
         /\ Append(s, t) # <<>> /\ Nodes(Append(s, t)) = Nodes(s) \cup {t}
         /\ Distinct(s) /\ t \notin Nodes(s) => Distinct(Append(s, t))
<1>1. /\ Append(s, t) \in Seq(S) /\ Len(Append(s, t)) = Len(s) + 1 /\ Len(s) \in Nat
      /\ DOMAIN Append(s, t) = 1..(Len(s) + 1) /\ DOMAIN s = 1..Len(s)
      /\ \A i \in 1..(Len(s) + 1) : Append(s, t)[i] = IF i = Len(s) + 1 THEN t ELSE s[i]
  OBVIOUS
<1>2. Nodes(Append(s, t)) = Nodes(s) \cup {t}
  BY <1>1 DEF Nodes, RW!ToSet
<1>3. Distinct(s) /\ t \notin Nodes(s) => Distinct(Append(s, t))
  BY <1>1, NodesOf DEF Distinct
<1> QED BY <1>1, <1>2, <1>3

LEMMA HeadTaken ==
  ASSUME NEW S, NEW s \in Seq(S), s # <<>>
  PROVE  /\ Head(s) \in Nodes(s) /\ Head(s) \in S
         /\ Tail(s) \in Seq(S) /\ Len(Tail(s)) = Len(s) - 1 /\ Len(s) \in Nat \ {0}
         /\ Distinct(s) => Distinct(Tail(s)) /\ Nodes(Tail(s)) = Nodes(s) \ {Head(s)}
<1>1. /\ Len(s) \in Nat /\ Len(s) >= 1 /\ DOMAIN s = 1..Len(s)
      /\ Tail(s) \in Seq(S) /\ Len(Tail(s)) = Len(s) - 1
      /\ \A i \in 1..(Len(s) - 1) : Tail(s)[i] = s[i + 1]
      /\ Head(s) = s[1] /\ s[1] \in S
  OBVIOUS
<1>2. /\ Nodes(s) = {s[i] : i \in 1..Len(s)}
      /\ Nodes(Tail(s)) = {Tail(s)[i] : i \in 1..(Len(s) - 1)}
  BY <1>1, NodesOf
<1>3. ASSUME Distinct(s) PROVE Distinct(Tail(s))
  BY <1>1, <1>3 DEF Distinct
<1>4. ASSUME Distinct(s) PROVE Nodes(Tail(s)) = Nodes(s) \ {Head(s)}
  <2>1. ASSUME NEW x \in Nodes(Tail(s)) PROVE x \in Nodes(s) \ {Head(s)}
    BY <1>1, <1>2, <1>4 DEF Distinct
  <2>2. ASSUME NEW x \in Nodes(s) \ {Head(s)} PROVE x \in Nodes(Tail(s))
    <3>1. PICK i \in 1..Len(s) : s[i] = x
      BY <1>2
    <3>2. i # 1 /\ i - 1 \in 1..(Len(s) - 1) /\ Tail(s)[i - 1] = x
      BY <1>1, <3>1
    <3> QED BY <1>2, <3>2
  <2> QED BY <2>1, <2>2
<1> QED BY <1>1, <1>2, <1>3, <1>4

\* The first n nodes and the rest, as wake_waiters_in_batches posts them.
LEMMA Split ==
  ASSUME NEW S, NEW s \in Seq(S), Distinct(s), NEW n \in 1..Len(s)
  PROVE  LET rest == SubSeq(s, n + 1, Len(s))
             first == SubSeq(s, 1, n)
         IN  /\ rest \in Seq(S) /\ Distinct(rest)
             /\ Nodes(first) \subseteq Nodes(s) /\ Nodes(rest) \subseteq Nodes(s)
             /\ Nodes(first) \cap Nodes(rest) = {}
<1> DEFINE rest == SubSeq(s, n + 1, Len(s))
           first == SubSeq(s, 1, n)
           m == Len(s)
<1>1. m \in Nat /\ n \in 1..m
  OBVIOUS
<1>2. rest \in Seq(S) /\ Len(rest) = m - n /\ (\A i \in 1..(m - n) : rest[i] = s[i + n])
  OBVIOUS
<1>3. first \in Seq(S) /\ Len(first) = n /\ (\A i \in 1..n : first[i] = s[i])
  OBVIOUS
<1>4. Nodes(s) = {s[i] : i \in 1..m} /\ (\A i, j \in 1..m : s[i] = s[j] => i = j)
  BY NodesOf DEF Distinct
<1> HIDE DEF rest, first, m
<1>5. Nodes(first) = {first[i] : i \in 1..n} /\ Nodes(rest) = {rest[i] : i \in 1..(m - n)}
  BY <1>2, <1>3, NodesOf
<1>6. \A i \in 1..(m - n) : i + n \in 1..m /\ i + n > n
  BY <1>1
<1>7. \A i \in 1..n : i \in 1..m
  BY <1>1
<1>8. Distinct(rest)
  <2>1. ASSUME NEW i \in 1..(m - n), NEW j \in 1..(m - n), rest[i] = rest[j] PROVE i = j
    <3>1. i + n = j + n
      BY <1>2, <1>4, <1>6, <2>1
    <3> QED BY <1>1, <3>1
  <2> QED BY <1>2, <2>1 DEF Distinct
<1>9. Nodes(first) \subseteq Nodes(s) /\ Nodes(rest) \subseteq Nodes(s)
  <2>1. \A i \in 1..n : first[i] \in Nodes(s)
    BY <1>3, <1>4, <1>7
  <2>2. \A i \in 1..(m - n) : rest[i] \in Nodes(s)
    BY <1>2, <1>4, <1>6
  <2> QED BY <1>5, <2>1, <2>2
<1>10. Nodes(first) \cap Nodes(rest) = {}
  <2>1. ASSUME NEW i \in 1..n, NEW j \in 1..(m - n), first[i] = rest[j] PROVE FALSE
    <3>1. i = j + n
      BY <1>2, <1>3, <1>4, <1>6, <1>7, <2>1
    <3> QED BY <1>1, <3>1
  <2> QED BY <1>5, <2>1
<1> QED BY <1>2, <1>8, <1>9, <1>10 DEF rest, first

LEMMA Joined ==
  ASSUME NEW S, NEW r \in Seq(S), NEW w \in Seq(S), Distinct(r), Distinct(w),
         Nodes(r) \cap Nodes(w) = {}
  PROVE  r \o w \in Seq(S) /\ Distinct(r \o w) /\ Nodes(r \o w) = Nodes(r) \cup Nodes(w)
<1> DEFINE c == r \o w
           m == Len(r)
           n == Len(w)
<1>1. m \in Nat /\ n \in Nat /\ c \in Seq(S) /\ Len(c) = m + n
      /\ (\A i \in 1..(m + n) : c[i] = IF i <= m THEN r[i] ELSE w[i - m])
  OBVIOUS
<1>2. /\ Nodes(r) = {r[i] : i \in 1..m} /\ Nodes(w) = {w[i] : i \in 1..n}
      /\ \A i, j \in 1..m : r[i] = r[j] => i = j
      /\ \A i, j \in 1..n : w[i] = w[j] => i = j
  BY NodesOf DEF Distinct
<1> HIDE DEF c, m, n
<1>3. Nodes(c) = {c[i] : i \in 1..(m + n)}
  BY <1>1, NodesOf
<1>4. \A i \in 1..(m + n) : IF i <= m THEN i \in 1..m ELSE i - m \in 1..n
  BY <1>1
<1>5. \A i \in 1..m : i \in 1..(m + n) /\ c[i] = r[i]
  BY <1>1
<1>6. ASSUME NEW i \in 1..n PROVE i + m \in 1..(m + n) /\ c[i + m] = w[i]
  <2>1. i + m \in 1..(m + n) /\ ~(i + m <= m) /\ i + m - m = i
    BY <1>1
  <2> QED BY <1>1, <2>1
<1>7. Nodes(c) = Nodes(r) \cup Nodes(w)
  <2>1. ASSUME NEW x \in Nodes(c) PROVE x \in Nodes(r) \cup Nodes(w)
    BY <1>1, <1>2, <1>3, <1>4
  <2>2. ASSUME NEW x \in Nodes(r) \cup Nodes(w) PROVE x \in Nodes(c)
    BY <1>2, <1>3, <1>5, <1>6
  <2> QED BY <2>1, <2>2
<1>8. Distinct(c)
  <2>1. ASSUME NEW i \in 1..(m + n), NEW j \in 1..(m + n), c[i] = c[j] PROVE i = j
    <3>1. CASE i <= m /\ j <= m
      BY <1>1, <1>2, <1>4, <2>1, <3>1
    <3>2. CASE ~(i <= m) /\ ~(j <= m)
      <4>1. i - m = j - m
        BY <1>1, <1>2, <1>4, <2>1, <3>2
      <4> QED BY <1>1, <4>1
    <3>3. \A k \in 1..(m + n) : IF k <= m THEN c[k] \in Nodes(r) ELSE c[k] \in Nodes(w)
      BY <1>1, <1>2, <1>4
    <3>4. CASE ~(i <= m <=> j <= m)
      BY <2>1, <3>3, <3>4
    <3> QED BY <3>1, <3>2, <3>4
  <2> QED BY <1>1, <2>1 DEF Distinct
<1> QED BY <1>1, <1>7, <1>8 DEF c

LEMMA DistinctCount ==
  ASSUME NEW S, NEW s \in Seq(S), Distinct(s)
  PROVE  IsFiniteSet(Nodes(s)) /\ Cardinality(Nodes(s)) = Len(s) /\ Len(s) \in Nat
<1>1. Len(s) \in Nat /\ DOMAIN s = 1..Len(s) /\ s \in [1..Len(s) -> S]
  OBVIOUS
<1>2. s \in [1..Len(s) -> Nodes(s)]
  BY <1>1 DEF Nodes, RW!ToSet
<1>3. s \in Bijection(1..Len(s), Nodes(s))
  <2>1. \A i, j \in 1..Len(s) : s[i] = s[j] => i = j
    BY DEF Distinct
  <2>2. \A x \in Nodes(s) : \E i \in 1..Len(s) : s[i] = x
    BY NodesOf
  <2> QED BY <1>2, <2>1, <2>2 DEF Bijection, Injection, Surjection, IsInjective
<1>4. ExistsBijection(1..Len(s), Nodes(s))
  BY <1>3 DEF ExistsBijection
<1>5. IsFiniteSet(1..Len(s)) /\ Cardinality(1..Len(s)) = Len(s)
  BY <1>1, FS_Interval
<1> QED BY <1>1, <1>4, <1>5, FS_Bijection

-----------------------------------------------------------------------------
(* What a step of the lock does to the threads. *)

\* A step of th leaves the other threads where they are.
Others(th) ==
  \A o \in Threads \ {th} :
    pc'[o] = pc[o] /\ self'[o] = self[o] /\ local'[o] = local[o] /\ taken'[o] = taken[o]

LEMMA ReturnOutcome ==
  ASSUME RW!TypeOK, NEW th \in Threads, RW!Return(th)
  PROVE  /\ pc' \in [Threads -> RW!Steps] /\ local' \in [Threads -> RW!Locals]
         /\ \A o \in Threads \ {th} : pc'[o] = pc[o] /\ local'[o] = local[o]
         /\ \/ pc'[th] = "user" /\ self[th] \in Tasks
            \/ pc'[th] = "idle"
<1>1. RW!NoCall \in RW!Locals
  BY DEF RW!NoCall, RW!Locals, RW!Kinds, RW!Words, RW!Unlocked
<1>2. {"user", "idle"} \subseteq RW!Steps
  BY DEF RW!Steps
<1> QED BY <1>1, <1>2 DEF RW!Return, RW!TypeOK

LEMMA LookOutcome ==
  ASSUME RW!TypeOK, NEW th \in Threads, NEW w \in RW!Words, NEW p \in BOOLEAN,
         RW!TryWake(th, w, p)
  PROVE  /\ pc' \in [Threads -> RW!Steps] /\ local' \in [Threads -> RW!Locals]
         /\ \A o \in Threads \ {th} : pc'[o] = pc[o] /\ local'[o] = local[o]
         /\ \/ RW!CanWake(w) /\ pc'[th] = "claim" /\ local'[th].v = w
            \/ /\ ~RW!CanWake(w)
               /\ (pc'[th] = "user" /\ self[th] \in Tasks) \/ pc'[th] = "idle"
<1>1. CASE RW!CanWake(w)
  <2>1. /\ pc' = [pc EXCEPT ![th] = "claim"]
        /\ local' = [local EXCEPT ![th] = [local[th] EXCEPT !.v = w, !.prefer = p]]
    BY <1>1 DEF RW!TryWake
  <2>2. [local[th] EXCEPT !.v = w, !.prefer = p] \in RW!Locals
        /\ [local[th] EXCEPT !.v = w, !.prefer = p].v = w
    BY DEF RW!TypeOK, RW!Locals
  <2>3. "claim" \in RW!Steps
    BY DEF RW!Steps
  <2> QED BY <1>1, <2>1, <2>2, <2>3 DEF RW!TypeOK
<1>2. CASE ~RW!CanWake(w)
  <2>1. RW!Return(th)
    BY <1>2 DEF RW!TryWake
  <2> QED BY <1>2, <2>1, ReturnOutcome
<1> QED BY <1>1, <1>2

\* Whoever claimed WAKING finds somebody to wake.
LEMMA DecideOutcome ==
  ASSUME RW!TypeOK, NEW th \in Threads, NEW w \in RW!Words,
         (w.readers = 0 /\ w.wwait > 0) \/ (w.wwait = 0 /\ w.rwait > 0),
         RW!Decide(th, w)
  PROVE  /\ pc' \in [Threads -> RW!Steps] /\ local' \in [Threads -> RW!Locals]
         /\ \A o \in Threads \ {th} : pc'[o] = pc[o] /\ local'[o] = local[o]
         /\ local'[th].v = w /\ local'[th].target = w.rwait
         /\ \/ pc'[th] = "take_writer" /\ w.readers = 0 /\ w.wwait > 0
            \/ pc'[th] = "take_readers" /\ w.rwait > 0
<1>1. local' = [local EXCEPT ![th] = [local[th] EXCEPT !.v = w, !.target = w.rwait]]
  BY DEF RW!Decide
<1>2. /\ [local[th] EXCEPT !.v = w, !.target = w.rwait] \in RW!Locals
      /\ [local[th] EXCEPT !.v = w, !.target = w.rwait].v = w
      /\ [local[th] EXCEPT !.v = w, !.target = w.rwait].target = w.rwait
  <2>1. local[th] \in RW!Locals /\ w \in RW!Words /\ w.rwait \in Nat
    BY DEF RW!TypeOK, RW!Words
  <2> QED BY <2>1 DEF RW!Locals
<1>3. /\ local' \in [Threads -> RW!Locals] /\ local'[th].v = w /\ local'[th].target = w.rwait
      /\ \A o \in Threads \ {th} : local'[o] = local[o]
  BY <1>1, <1>2 DEF RW!TypeOK
<1> DEFINE p == local[th].prefer
           at == IF RW!WakesWriter(w, p) THEN "take_writer"
                 ELSE IF RW!WakesReaders(w, p) THEN "take_readers" ELSE "clear"
<1>4. pc' = [pc EXCEPT ![th] = at]
  BY DEF RW!Decide
<1>5. \/ at = "take_writer" /\ w.readers = 0 /\ w.wwait > 0
      \/ at = "take_readers" /\ w.rwait > 0
  <2>1. /\ w.readers \in Nat /\ w.wwait \in Nat /\ w.rwait \in Nat
        /\ p \in BOOLEAN
    BY DEF RW!TypeOK, RW!Locals, RW!Words
  <2>2. CASE p
    BY <2>1, <2>2 DEF RW!WakesWriter, RW!WakesReaders
  <2>3. CASE ~p
    BY <2>1, <2>3 DEF RW!WakesWriter, RW!WakesReaders
  <2> QED BY <2>2, <2>3
<1> HIDE DEF at
<1>6. at \in RW!Steps
  BY <1>5 DEF RW!Steps
<1>7. pc' \in [Threads -> RW!Steps] /\ pc'[th] = at /\ \A o \in Threads \ {th} : pc'[o] = pc[o]
  BY <1>4, <1>6 DEF RW!TypeOK
<1> QED BY <1>3, <1>5, <1>7

LEMMA WordType ==
  ASSUME NEW w \in RW!Words
  PROVE  /\ w.waking \in BOOLEAN /\ w.writer \in BOOLEAN
         /\ w.readers \in Nat /\ w.rwait \in Nat /\ w.wwait \in Nat
BY DEF RW!Words

LEMMA PlusOne == \A n \in Nat : n + 1 \in Nat
OBVIOUS

LEMMA WordMade ==
  ASSUME NEW w \in RW!Words, NEW n \in Nat, NEW m \in Nat, NEW a \in BOOLEAN, NEW b \in BOOLEAN
  PROVE  /\ [w EXCEPT !.readers = n] \in RW!Words /\ [w EXCEPT !.writer = b] \in RW!Words
         /\ [w EXCEPT !.rwait = n] \in RW!Words /\ [w EXCEPT !.wwait = n] \in RW!Words
         /\ [w EXCEPT !.waking = b] \in RW!Words
         /\ [w EXCEPT !.waking = a, !.wwait = n, !.writer = b] \in RW!Words
         /\ [w EXCEPT !.waking = a, !.rwait = n, !.readers = m] \in RW!Words
<1> DEFINE W == [waking : BOOLEAN, writer : BOOLEAN, readers : Nat, rwait : Nat, wwait : Nat]
<1>1. w \in W /\ RW!Words = W
  BY DEF RW!Words
<1> QED BY <1>1

\* Every step keeps the types, and the other threads.
LEMMA TaskTypes ==
  ASSUME LockInv, NEW th \in Threads,
         RW!EndTask(th) \/ RW!Push(th) \/ \E t \in Tasks : RW!Dispatch(th, t)
  PROVE  RW!TypeOK' /\ Others(th)
<1>a. RW!TypeOK /\ SelfPart /\ local[th].kind \in RW!Kinds
  BY DEF LockInv, RW!TypeOK, RW!Locals
<1>b. {"idle", "user", "add_waiter"} \subseteq RW!Steps
  BY DEF RW!Steps
<1>1. ASSUME NEW t \in Tasks, RW!Dispatch(th, t) PROVE RW!TypeOK' /\ Others(th)
  BY <1>1, <1>a, <1>b DEF RW!Dispatch, RW!TypeOK, RW!shared, Others
<1>2. CASE RW!EndTask(th)
  BY <1>2, <1>a, <1>b DEF RW!EndTask, RW!TypeOK, RW!shared, Others, SelfPart
<1>3. CASE RW!Push(th)
  <2>1. self[th] \in Tasks
    BY <1>3, <1>a DEF RW!Push, SelfPart
  <2>2. Append(lists[local[th].kind], self[th]) \in Seq(Tasks)
    BY <2>1, <1>a DEF RW!TypeOK
  <2> QED BY <1>3, <1>a, <1>b, <2>1, <2>2 DEF RW!Push, RW!TypeOK, Others
<1> QED BY <1>1, <1>2, <1>3

LEMMA LockTypes ==
  ASSUME LockInv, NEW th \in Threads, NEW k \in RW!Kinds,
         RW!Lock(th, k) \/ RW!TryLock(th, k)
  PROVE  RW!TypeOK' /\ Others(th)
<1>a. RW!TypeOK /\ self[th] \in Tasks
  BY DEF LockInv, SelfPart, RW!Lock, RW!TryLock, RW!BeginRound
<1>1. /\ rounds[self[th]] < LockRounds /\ rounds' = [rounds EXCEPT ![self[th]] = @ + 1]
      /\ UNCHANGED <<lists, alive, tstate, self, taken>>
  BY DEF RW!Lock, RW!TryLock, RW!BeginRound
<1>2. rounds' \in [Tasks -> 0..LockRounds]
  BY <1>a, <1>1, CountsAssumption DEF RW!TypeOK
<1>3. (RW!TakeLock(self[th], k) \/ UNCHANGED <<value, holds>>)
  BY DEF RW!Lock, RW!TryLock
<1>4. value' \in RW!Words /\ holds' \in [Tasks -> RW!Kinds \cup {"none"}]
  <2>1. CASE UNCHANGED <<value, holds>>
    BY <1>a, <2>1 DEF RW!TypeOK
  <2>2. CASE RW!TakeLock(self[th], k)
    <3>1. holds' = [holds EXCEPT ![self[th]] = k]
      BY <2>2 DEF RW!TakeLock
    <3>2. [value EXCEPT !.readers = @ + 1] \in RW!Words /\ [value EXCEPT !.writer = TRUE] \in RW!Words
      BY <1>a, WordType, WordMade, PlusOne DEF RW!TypeOK
    <3>3. value' = [value EXCEPT !.readers = @ + 1] \/ value' = [value EXCEPT !.writer = TRUE]
      BY <2>2 DEF RW!TakeLock
    <3>4. holds' \in [Tasks -> RW!Kinds \cup {"none"}]
      BY <1>a, <3>1 DEF RW!TypeOK
    <3> QED BY <3>2, <3>3, <3>4
  <2> QED BY <1>3, <2>1, <2>2
<1>5. /\ pc' \in [Threads -> RW!Steps] /\ local' \in [Threads -> RW!Locals]
      /\ \A o \in Threads \ {th} : pc'[o] = pc[o] /\ local'[o] = local[o]
  <2>1. CASE UNCHANGED <<pc, local>>
    BY <1>a, <2>1 DEF RW!TypeOK
  <2>2. CASE /\ pc' = [pc EXCEPT ![th] = "suspend"]
             /\ local' = [local EXCEPT ![th].kind = k]
    BY <1>a, <2>2 DEF RW!TypeOK, RW!Steps, RW!Locals
  <2> QED BY <2>1, <2>2 DEF RW!Lock, RW!TryLock
<1> QED BY <1>a, <1>1, <1>2, <1>4, <1>5 DEF RW!TypeOK, Others

\* AddWaiter, UnlockRead and UnlockWrite end by looking at the word they made.
LEMMA AddTypes ==
  ASSUME LockInv, NEW th \in Threads, RW!AddWaiter(th)
  PROVE  RW!TypeOK' /\ Others(th)
<1>a. RW!TypeOK /\ (local[th].kind = "write") \in BOOLEAN
  BY DEF LockInv
<1>1. value' \in RW!Words
  <2>1. [value EXCEPT !.rwait = @ + 1] \in RW!Words /\ [value EXCEPT !.wwait = @ + 1] \in RW!Words
    BY <1>a, WordType, WordMade, PlusOne DEF RW!TypeOK
  <2>2. value' = [value EXCEPT !.rwait = @ + 1] \/ value' = [value EXCEPT !.wwait = @ + 1]
    BY DEF RW!AddWaiter
  <2> QED BY <2>1, <2>2
<1>2. RW!TryWake(th, value', local[th].kind = "write")
      /\ UNCHANGED <<lists, alive, tstate, holds, rounds, self, taken>>
  BY DEF RW!AddWaiter, RW!sched
<1>3. /\ pc' \in [Threads -> RW!Steps] /\ local' \in [Threads -> RW!Locals]
      /\ \A o \in Threads \ {th} : pc'[o] = pc[o] /\ local'[o] = local[o]
  BY <1>a, <1>1, <1>2, LookOutcome
<1> QED BY <1>a, <1>1, <1>2, <1>3 DEF RW!TypeOK, Others

LEMMA UnlockTypes ==
  ASSUME LockInv, NEW th \in Threads, RW!UnlockRead(th) \/ RW!UnlockWrite(th)
  PROVE  RW!TypeOK' /\ Others(th) /\ self[th] \in Tasks
<1>a. RW!TypeOK /\ self[th] \in Tasks
  BY DEF LockInv, SelfPart, RW!UnlockRead, RW!UnlockWrite
<1>1. /\ holds' = [holds EXCEPT ![self[th]] = "none"]
      /\ UNCHANGED <<lists, alive, tstate, rounds, self, taken>>
  BY DEF RW!UnlockRead, RW!UnlockWrite
<1>2. value' \in RW!Words
  <2>1. CASE RW!UnlockWrite(th)
    BY <1>a, <2>1 DEF RW!UnlockWrite, RW!TypeOK, RW!Words
  <2>2. CASE RW!UnlockRead(th)
    <3>1. self[th] \in Readers /\ value.readers = Cardinality(Readers) /\ IsFiniteSet(Readers)
      <4>1. IsFiniteSet(Readers) /\ value.readers = Cardinality(Readers)
        BY DEF LockInv, HoldPart
      <4>2. self[th] \in Readers
        BY <1>a, <2>2 DEF RW!UnlockRead, Readers
      <4> QED BY <4>1, <4>2
    <3>2. value.readers # 0 /\ value.readers \in Nat
      BY <1>a, <3>1, FS_EmptySet, WordType DEF RW!TypeOK
    <3>3. value.readers - 1 \in Nat
      BY <3>2
    <3> QED BY <1>a, <2>2, <3>3 DEF RW!UnlockRead, RW!TypeOK, RW!Words
  <2> QED BY <2>1, <2>2
<1>3. \E p \in BOOLEAN : RW!TryWake(th, value', p)
  BY DEF RW!UnlockRead, RW!UnlockWrite
<1>4. /\ pc' \in [Threads -> RW!Steps] /\ local' \in [Threads -> RW!Locals]
      /\ \A o \in Threads \ {th} : pc'[o] = pc[o] /\ local'[o] = local[o]
  BY <1>a, <1>2, <1>3, LookOutcome
<1>5. holds' \in [Tasks -> RW!Kinds \cup {"none"}]
  BY <1>a, <1>1 DEF RW!TypeOK
<1> QED BY <1>a, <1>1, <1>2, <1>4, <1>5 DEF RW!TypeOK, Others

\* A claim either fails and looks again, or makes th the owner of WAKING.
LEMMA ClaimOutcome ==
  ASSUME LockInv, NEW th \in Threads, RW!Claim(th)
  PROVE  /\ RW!TypeOK' /\ Others(th) /\ pc[th] = "claim"
         /\ UNCHANGED <<lists, alive, tstate, holds, rounds, self, taken>>
         /\ \/ /\ RW!CanWake(value) /\ value' = [value EXCEPT !.waking = TRUE]
               /\ local'[th].v = value' /\ local'[th].target = value.rwait
               /\ \/ pc'[th] = "take_writer" /\ value.readers = 0 /\ value.wwait > 0
                  \/ pc'[th] = "take_readers" /\ value.rwait > 0
            \/ /\ value' = value
               /\ \/ RW!CanWake(value) /\ pc'[th] = "claim" /\ local'[th].v = value
                  \/ /\ ~RW!CanWake(value)
                     /\ (pc'[th] = "user" /\ self[th] \in Tasks) \/ pc'[th] = "idle"
<1>a. RW!TypeOK /\ value \in RW!Words /\ local[th] \in RW!Locals
  BY DEF LockInv, RW!TypeOK
<1>b. pc[th] = "claim" /\ UNCHANGED <<lists, alive, tstate, holds, rounds, self, taken>>
  BY DEF RW!Claim, RW!sched
<1>1. CASE value = local[th].v
  <2>1. value' = [value EXCEPT !.waking = TRUE] /\ RW!Decide(th, value')
    BY <1>1 DEF RW!Claim
  <2>2. /\ value' \in RW!Words /\ value'.readers = value.readers
        /\ value'.rwait = value.rwait /\ value'.wwait = value.wwait
    BY <1>a, <2>1 DEF RW!Words
  <2>3. RW!CanWake(value)
    BY <1>1, <1>b DEF LockInv, KnownPart
  <2>4. (value'.readers = 0 /\ value'.wwait > 0) \/ (value'.wwait = 0 /\ value'.rwait > 0)
    BY <2>2, <2>3 DEF RW!CanWake
  <2>5. /\ pc' \in [Threads -> RW!Steps] /\ local' \in [Threads -> RW!Locals]
        /\ \A o \in Threads \ {th} : pc'[o] = pc[o] /\ local'[o] = local[o]
        /\ local'[th].v = value' /\ local'[th].target = value'.rwait
        /\ \/ pc'[th] = "take_writer" /\ value'.readers = 0 /\ value'.wwait > 0
           \/ pc'[th] = "take_readers" /\ value'.rwait > 0
    BY <1>a, <2>1, <2>2, <2>4, DecideOutcome
  <2>6. RW!TypeOK' /\ Others(th)
    BY <1>a, <1>b, <2>2, <2>5 DEF RW!TypeOK, Others
  <2> QED BY <1>b, <2>1, <2>2, <2>3, <2>5, <2>6
<1>2. CASE value # local[th].v
  <2>1. value' = value /\ RW!TryWake(th, value, local[th].prefer)
    BY <1>2 DEF RW!Claim
  <2>2. local[th].prefer \in BOOLEAN
    BY <1>a DEF RW!Locals
  <2>3. /\ pc' \in [Threads -> RW!Steps] /\ local' \in [Threads -> RW!Locals]
        /\ \A o \in Threads \ {th} : pc'[o] = pc[o] /\ local'[o] = local[o]
        /\ \/ RW!CanWake(value) /\ pc'[th] = "claim" /\ local'[th].v = value
           \/ /\ ~RW!CanWake(value)
              /\ (pc'[th] = "user" /\ self[th] \in Tasks) \/ pc'[th] = "idle"
    BY <1>a, <2>1, <2>2, LookOutcome
  <2>4. RW!TypeOK' /\ Others(th)
    BY <1>a, <1>b, <2>1, <2>3 DEF RW!TypeOK, Others
  <2> QED BY <1>b, <2>1, <2>3, <2>4
<1> QED BY <1>1, <1>2

LEMMA InNodes == ASSUME NEW S, NEW s \in Seq(S), s # <<>> PROVE Len(s) \in Nat \ {0}
OBVIOUS

\* The lists and hands of the owner of WAKING, for whom the word counts enough nodes.
LEMMA TakeOutcome ==
  ASSUME LockInv, NEW th \in Threads, NEW k \in RW!Kinds, RW!MustTake1(th, k)
  PROVE  /\ Head(lists[k]) \in Nodes(lists[k]) /\ Head(lists[k]) \in Tasks
         /\ lists' \in [RW!Kinds -> Seq(Tasks)]
         /\ Nodes(lists'[k]) = Nodes(lists[k]) \ {Head(lists[k])} /\ Distinct(lists'[k])
         /\ Len(lists'[k]) = Len(lists[k]) - 1 /\ Len(lists[k]) \in Nat
         /\ \A j \in RW!Kinds \ {k} : lists'[j] = lists[j]
         /\ taken' \in [Threads -> Seq(Tasks)]
         /\ Nodes(taken'[th]) = Nodes(taken[th]) \cup {Head(lists[k])} /\ Distinct(taken'[th])
         /\ Len(taken'[th]) = Len(taken[th]) + 1 /\ Len(taken[th]) \in Nat /\ taken'[th] # <<>>
         /\ \A o \in Threads \ {th} : taken'[o] = taken[o]
<1>1. /\ lists[k] \in Seq(Tasks) /\ lists[k] # <<>> /\ Distinct(lists[k])
      /\ taken[th] \in Seq(Tasks) /\ Distinct(taken[th])
      /\ lists \in [RW!Kinds -> Seq(Tasks)] /\ taken \in [Threads -> Seq(Tasks)]
      /\ Nodes(lists[k]) \cap Nodes(taken[th]) = {}
  BY DEF RW!MustTake1, LockInv, RW!TypeOK, ListsPart, TakenPart
<1>2. /\ taken' = [taken EXCEPT ![th] = Append(taken[th], Head(lists[k]))]
      /\ lists' = [lists EXCEPT ![k] = Tail(lists[k])]
  BY DEF RW!MustTake1
<1>3. /\ Head(lists[k]) \in Nodes(lists[k]) /\ Head(lists[k]) \in Tasks
      /\ Tail(lists[k]) \in Seq(Tasks) /\ Len(Tail(lists[k])) = Len(lists[k]) - 1
      /\ Len(lists[k]) \in Nat /\ Distinct(Tail(lists[k]))
      /\ Nodes(Tail(lists[k])) = Nodes(lists[k]) \ {Head(lists[k])}
  BY <1>1, HeadTaken
<1>4. Head(lists[k]) \notin Nodes(taken[th])
  BY <1>1, <1>3
<1> DEFINE h == Head(lists[k])
           tail == Tail(lists[k])
           more == Append(taken[th], h)
<1>5. /\ more \in Seq(Tasks) /\ Len(more) = Len(taken[th]) + 1 /\ more # <<>>
      /\ Nodes(more) = Nodes(taken[th]) \cup {h} /\ Distinct(more) /\ Len(taken[th]) \in Nat
  <2>1. h \in Tasks /\ h \notin Nodes(taken[th])
    BY <1>3, <1>4
  <2> HIDE DEF h
  <2> QED BY <1>1, <2>1, Pushed
<1>6. taken' = [taken EXCEPT ![th] = more] /\ lists' = [lists EXCEPT ![k] = tail]
  BY <1>2
<1>7. tail \in Seq(Tasks) /\ Len(tail) = Len(lists[k]) - 1 /\ Distinct(tail) /\ h \in Tasks
      /\ Nodes(tail) = Nodes(lists[k]) \ {h} /\ h \in Nodes(lists[k]) /\ Len(lists[k]) \in Nat
  BY <1>3
<1> HIDE DEF tail, more
<1>8. /\ lists'[k] = tail /\ lists' \in [RW!Kinds -> Seq(Tasks)]
      /\ \A j \in RW!Kinds \ {k} : lists'[j] = lists[j]
  BY <1>1, <1>6, <1>7
<1>9. /\ taken'[th] = more /\ taken' \in [Threads -> Seq(Tasks)]
      /\ \A o \in Threads \ {th} : taken'[o] = taken[o]
  BY <1>1, <1>5, <1>6
<1> QED BY <1>5, <1>7, <1>8, <1>9

LEMMA TakeTypes ==
  ASSUME LockInv, NEW th \in Threads, RW!TakeWriter(th) \/ RW!TakeReader(th)
  PROVE  RW!TypeOK' /\ Others(th)
<1>a. RW!TypeOK
  BY DEF LockInv
<1>1. PICK k \in RW!Kinds : RW!MustTake1(th, k)
  BY DEF RW!TakeWriter, RW!TakeReader, RW!Kinds
<1>2. /\ lists' \in [RW!Kinds -> Seq(Tasks)] /\ taken' \in [Threads -> Seq(Tasks)]
      /\ \A o \in Threads \ {th} : taken'[o] = taken[o]
  BY <1>1, TakeOutcome
<1>3. UNCHANGED <<value, alive, tstate, holds, rounds, self, local>>
  BY DEF RW!TakeWriter, RW!TakeReader, RW!sched
<1>4. \E at \in {"give_writer", "take_readers", "give_readers"} : pc' = [pc EXCEPT ![th] = at]
  BY DEF RW!TakeWriter, RW!TakeReader
<1>5. pc' \in [Threads -> RW!Steps] /\ \A o \in Threads \ {th} : pc'[o] = pc[o]
  BY <1>a, <1>4 DEF RW!TypeOK, RW!Steps
<1> QED BY <1>a, <1>2, <1>3, <1>5 DEF RW!TypeOK, Others

LEMMA GiveWriterOutcome ==
  ASSUME LockInv, NEW th \in Threads, RW!GiveWriter(th)
  PROVE  /\ RW!TypeOK' /\ Others(th) /\ RW!Waking(th)
         /\ pc'[th] = "resume" /\ value'.waking = FALSE /\ value'.writer = TRUE
         /\ value'.readers = value.readers /\ value'.rwait = value.rwait
         /\ value'.wwait = value.wwait - 1 /\ value.wwait > 0 /\ value.readers = 0
         /\ \E t \in Tasks : /\ Nodes(taken[th]) = {t} /\ Len(taken[th]) = 1
                             /\ holds' = [holds EXCEPT ![t] = "write"]
         /\ UNCHANGED <<lists, alive, tstate, rounds, self, local, taken>>
<1>a. RW!TypeOK /\ value \in RW!Words /\ taken[th] \in Seq(Tasks)
  BY DEF LockInv, RW!TypeOK
<1>1. /\ pc[th] = "give_writer" /\ pc' = [pc EXCEPT ![th] = "resume"]
      /\ value' = [value EXCEPT !.waking = FALSE, !.wwait = value.wwait - 1, !.writer = TRUE]
      /\ holds' = [holds EXCEPT ![Head(taken[th])] = "write"]
      /\ UNCHANGED <<lists, alive, tstate, rounds, self, local, taken>>
  BY DEF RW!GiveWriter
<1>2. value.readers = 0 /\ value.wwait > 0 /\ Len(taken[th]) = 1
  BY <1>1 DEF LockInv, KnownPart, HandPart
<1>3. value.wwait - 1 \in Nat
  BY <1>a, <1>2, WordType
<1>4. /\ value' \in RW!Words /\ value'.waking = FALSE /\ value'.writer = TRUE
      /\ value'.readers = value.readers /\ value'.rwait = value.rwait
      /\ value'.wwait = value.wwait - 1
  BY <1>a, <1>1, <1>3 DEF RW!Words
<1>5. Head(taken[th]) \in Tasks /\ Nodes(taken[th]) = {Head(taken[th])}
  <2>1. Head(taken[th]) = taken[th][1] /\ taken[th][1] \in Tasks
    BY <1>a, <1>2
  <2>2. Nodes(taken[th]) = {taken[th][i] : i \in 1..1}
    BY <1>a, <1>2, NodesOf
  <2> QED BY <2>1, <2>2
<1>6. /\ pc' \in [Threads -> RW!Steps] /\ pc'[th] = "resume"
      /\ \A o \in Threads \ {th} : pc'[o] = pc[o]
  BY <1>a, <1>1 DEF RW!TypeOK, RW!Steps
<1>7. holds' \in [Tasks -> RW!Kinds \cup {"none"}]
  BY <1>a, <1>1, <1>5 DEF RW!TypeOK, RW!Kinds
<1>8. RW!TypeOK' /\ Others(th)
  BY <1>a, <1>1, <1>4, <1>6, <1>7 DEF RW!TypeOK, Others
<1> QED BY <1>1, <1>2, <1>4, <1>5, <1>6, <1>8 DEF RW!Waking

\* Readers get the lock only if the word is the one that the batch was made for.
LEMMA GiveReadersOutcome ==
  ASSUME LockInv, NEW th \in Threads, RW!GiveReaders(th)
  PROVE  /\ RW!TypeOK' /\ Others(th) /\ pc[th] = "give_readers"
         /\ UNCHANGED <<lists, alive, tstate, rounds, self, taken>>
         /\ \/ /\ value = local[th].v /\ pc'[th] = "resume" /\ local' = local
               /\ value'.waking = FALSE /\ value'.writer = value.writer
               /\ value'.readers = value.readers + Len(taken[th])
               /\ value'.rwait = value.rwait - Len(taken[th]) /\ value'.wwait = value.wwait
               /\ holds' = [t \in Tasks |-> IF t \in Nodes(taken[th]) THEN "read" ELSE holds[t]]
            \/ /\ value' = value /\ holds' = holds
               /\ local'[th].v = value /\ local'[th].target >= local[th].target
               /\ local'[th].target <= value.rwait
               /\ value.wwait = 0 => local'[th].target = value.rwait
               /\ \/ pc'[th] = "take_readers" /\ Len(taken[th]) < local'[th].target
                  \/ pc'[th] = "give_readers" /\ Len(taken[th]) = local'[th].target
<1>a. /\ RW!TypeOK /\ value \in RW!Words /\ taken[th] \in Seq(Tasks)
      /\ local[th] \in RW!Locals /\ local \in [Threads -> RW!Locals] /\ Len(taken[th]) \in Nat
  BY DEF LockInv, RW!TypeOK
<1>b. /\ pc[th] = "give_readers" /\ local[th].target \in Nat
      /\ UNCHANGED <<lists, alive, tstate, rounds, self, taken>>
  BY <1>a DEF RW!GiveReaders, RW!Locals
<1>c. Len(taken[th]) = local[th].target /\ value.rwait >= local[th].target
  BY <1>b DEF LockInv, KnownPart, HandPart, Batching
<1>1. CASE value = local[th].v
  <2>1. /\ value' = [value EXCEPT !.waking = FALSE, !.rwait = value.rwait - Len(taken[th]),
                                  !.readers = value.readers + Len(taken[th])]
        /\ holds' = [t \in Tasks |-> IF t \in Nodes(taken[th]) THEN "read" ELSE holds[t]]
        /\ pc' = [pc EXCEPT ![th] = "resume"] /\ local' = local
    BY <1>1 DEF RW!GiveReaders, RW!Batch, Nodes
  <2>2. value.rwait - Len(taken[th]) \in Nat /\ value.readers + Len(taken[th]) \in Nat
    BY <1>a, <1>b, <1>c, WordType
  <2>3. /\ value' \in RW!Words /\ value'.waking = FALSE /\ value'.writer = value.writer
        /\ value'.readers = value.readers + Len(taken[th])
        /\ value'.rwait = value.rwait - Len(taken[th]) /\ value'.wwait = value.wwait
    <3> DEFINE m == value.rwait - Len(taken[th])
               n == value.readers + Len(taken[th])
    <3>1. value' = [value EXCEPT !.waking = FALSE, !.rwait = m, !.readers = n]
          /\ m \in Nat /\ n \in Nat
      BY <2>1, <2>2
    <3> HIDE DEF m, n
    <3>2. /\ value' \in RW!Words /\ value'.waking = FALSE /\ value'.writer = value.writer
          /\ value'.readers = n /\ value'.rwait = m /\ value'.wwait = value.wwait
      BY <1>a, <3>1 DEF RW!Words
    <3> QED BY <3>2 DEF m, n
  <2>4. /\ pc' \in [Threads -> RW!Steps] /\ pc'[th] = "resume"
        /\ \A o \in Threads \ {th} : pc'[o] = pc[o]
    BY <1>a, <2>1 DEF RW!TypeOK, RW!Steps
  <2>5. holds' \in [Tasks -> RW!Kinds \cup {"none"}]
    BY <1>a, <2>1 DEF RW!TypeOK, RW!Kinds
  <2>6. RW!TypeOK' /\ Others(th)
    BY <1>a, <1>b, <2>1, <2>3, <2>4, <2>5 DEF RW!TypeOK, Others
  <2> QED BY <1>1, <1>b, <2>1, <2>3, <2>4, <2>6
<1>2. CASE value # local[th].v
  <2> DEFINE more == IF RW!Grows(value) THEN value.rwait ELSE local[th].target
             at == IF Len(taken[th]) < more THEN "take_readers" ELSE "give_readers"
  <2>1. /\ local' = [local EXCEPT ![th] = [local[th] EXCEPT !.v = value, !.target = more]]
        /\ pc' = [pc EXCEPT ![th] = at] /\ UNCHANGED <<value, holds>>
    BY <1>2 DEF RW!GiveReaders, RW!Batch
  <2>2. /\ more \in Nat /\ more >= local[th].target /\ more <= value.rwait
        /\ value.wwait = 0 => more = value.rwait
    BY <1>a, <1>b, <1>c, WordType DEF RW!Grows
  <2>3. \/ at = "take_readers" /\ Len(taken[th]) < more
        \/ at = "give_readers" /\ Len(taken[th]) = more
    BY <1>a, <1>c, <2>2
  <2> HIDE DEF more, at
  <2>4. [local[th] EXCEPT !.v = value, !.target = more] \in RW!Locals
        /\ [local[th] EXCEPT !.v = value, !.target = more].v = value
        /\ [local[th] EXCEPT !.v = value, !.target = more].target = more
    BY <1>a, <2>2 DEF RW!Locals
  <2>5. /\ local' \in [Threads -> RW!Locals] /\ local'[th].v = value /\ local'[th].target = more
        /\ \A o \in Threads \ {th} : local'[o] = local[o]
    BY <1>a, <2>1, <2>4
  <2>6. pc' \in [Threads -> RW!Steps] /\ pc'[th] = at /\ \A o \in Threads \ {th} : pc'[o] = pc[o]
    BY <1>a, <2>1, <2>3 DEF RW!TypeOK, RW!Steps
  <2>7. RW!TypeOK' /\ Others(th)
    BY <1>a, <1>b, <2>1, <2>5, <2>6 DEF RW!TypeOK, Others
  <2> QED BY <1>b, <2>1, <2>2, <2>3, <2>5, <2>6, <2>7
<1> QED BY <1>1, <1>2

LEMMA ResumeOutcome ==
  ASSUME LockInv, NEW th \in Threads, RW!Resume(th)
  PROVE  /\ RW!TypeOK' /\ Others(th) /\ pc[th] = "resume"
         /\ UNCHANGED <<value, lists, alive, holds, rounds, self>>
         /\ Distinct(taken'[th]) /\ Nodes(taken'[th]) \subseteq Nodes(taken[th])
         /\ \E first \in SUBSET Nodes(taken[th]) :
              /\ first \cap Nodes(taken'[th]) = {}
              /\ tstate' = [t \in Tasks |-> IF t \in first THEN "ready" ELSE tstate[t]]
         /\ \/ taken'[th] # <<>> /\ UNCHANGED <<pc, local>>
            \/ /\ taken'[th] = <<>>
               /\ (pc'[th] = "user" /\ self[th] \in Tasks) \/ pc'[th] = "idle"
<1>a. /\ RW!TypeOK /\ taken[th] \in Seq(Tasks) /\ taken \in [Threads -> Seq(Tasks)]
      /\ Distinct(taken[th])
  BY DEF LockInv, RW!TypeOK, TakenPart
<1>b. pc[th] = "resume" /\ UNCHANGED <<value, lists, alive, holds, rounds, self>>
  BY DEF RW!Resume, RW!shared
<1>1. PICK n \in 1..Len(taken[th]) :
        LET rest == SubSeq(taken[th], n + 1, Len(taken[th]))
        IN  /\ tstate' = [t \in Tasks |-> IF t \in Nodes(SubSeq(taken[th], 1, n))
                                          THEN "ready" ELSE tstate[t]]
            /\ taken' = [taken EXCEPT ![th] = rest]
            /\ IF rest = <<>> THEN RW!Return(th) ELSE UNCHANGED <<pc, local>>
  BY DEF RW!Resume, Nodes
<1> DEFINE rest == SubSeq(taken[th], n + 1, Len(taken[th]))
           first == Nodes(SubSeq(taken[th], 1, n))
<1>2. /\ rest \in Seq(Tasks) /\ Distinct(rest) /\ first \subseteq Nodes(taken[th])
      /\ Nodes(rest) \subseteq Nodes(taken[th]) /\ first \cap Nodes(rest) = {}
  BY <1>a, Split
<1>3. /\ tstate' = [t \in Tasks |-> IF t \in first THEN "ready" ELSE tstate[t]]
      /\ taken' = [taken EXCEPT ![th] = rest]
      /\ IF rest = <<>> THEN RW!Return(th) ELSE UNCHANGED <<pc, local>>
  BY <1>1
<1> HIDE DEF rest, first
<1>4. /\ taken'[th] = rest /\ taken' \in [Threads -> Seq(Tasks)]
      /\ \A o \in Threads \ {th} : taken'[o] = taken[o]
  BY <1>a, <1>2, <1>3
<1>5. tstate' \in [Tasks -> {"ready", "running", "waiting", "done"}]
  BY <1>a, <1>3 DEF RW!TypeOK
<1>6. CASE rest = <<>>
  <2>1. /\ pc' \in [Threads -> RW!Steps] /\ local' \in [Threads -> RW!Locals]
        /\ \A o \in Threads \ {th} : pc'[o] = pc[o] /\ local'[o] = local[o]
        /\ (pc'[th] = "user" /\ self[th] \in Tasks) \/ pc'[th] = "idle"
    BY <1>a, <1>3, <1>6, ReturnOutcome
  <2>2. RW!TypeOK' /\ Others(th)
    BY <1>a, <1>b, <1>4, <1>5, <2>1 DEF RW!TypeOK, Others
  <2> QED BY <1>b, <1>2, <1>3, <1>4, <1>6, <2>1, <2>2
<1>7. CASE rest # <<>>
  <2>1. UNCHANGED <<pc, local>>
    BY <1>3, <1>7
  <2>2. RW!TypeOK' /\ Others(th)
    BY <1>a, <1>b, <1>4, <1>5, <2>1 DEF RW!TypeOK, Others
  <2> QED BY <1>b, <1>2, <1>3, <1>4, <1>7, <2>1, <2>2
<1> QED BY <1>6, <1>7

LEMMA DestroyOutcome ==
  ASSUME LockInv, NEW th \in Threads, RW!Destroy(th)
  PROVE  /\ RW!TypeOK' /\ Others(th) /\ alive /\ ~alive' /\ pc[th] = "user" /\ self[th] \in Tasks
         /\ UNCHANGED <<value, tstate, holds, rounds, self, local>>
         /\ \A o \in Threads : pc[o] \in {"idle", "user"} /\ taken[o] = <<>>
         /\ \A k \in RW!Kinds : lists'[k] = <<>>
         /\ Distinct(taken'[th])
         /\ Nodes(taken'[th]) = Nodes(lists["read"]) \cup Nodes(lists["write"])
         /\ \/ taken'[th] = <<>> /\ pc'[th] = "user"
            \/ taken'[th] # <<>> /\ pc'[th] = "resume"
<1>a. /\ RW!TypeOK /\ taken \in [Threads -> Seq(Tasks)] /\ lists \in [RW!Kinds -> Seq(Tasks)]
      /\ RW!Kinds = {"read", "write"}
  BY DEF LockInv, RW!TypeOK, RW!Kinds
<1>1. /\ pc[th] = "user" /\ alive /\ alive' = FALSE
      /\ \A o \in Threads : pc[o] \in {"idle", "user"}
      /\ lists' = [k \in RW!Kinds |-> <<>>]
      /\ taken' = [taken EXCEPT ![th] = lists["read"] \o lists["write"]]
      /\ pc' = [pc EXCEPT ![th] = IF taken'[th] = <<>> THEN "user" ELSE "resume"]
      /\ UNCHANGED <<value, tstate, holds, rounds, self, local>>
  BY DEF RW!Destroy, RW!sched
<1>2. self[th] \in Tasks /\ \A o \in Threads : taken[o] = <<>>
  BY <1>1 DEF LockInv, SelfPart, HandPart
<1> DEFINE r == lists["read"]
           w == lists["write"]
           both == r \o w
<1>3. r \in Seq(Tasks) /\ w \in Seq(Tasks) /\ Distinct(r) /\ Distinct(w)
      /\ Nodes(r) \cap Nodes(w) = {}
  BY <1>a DEF LockInv, ListsPart
<1>4. both \in Seq(Tasks) /\ Distinct(both) /\ Nodes(both) = Nodes(r) \cup Nodes(w)
  BY <1>3, Joined
<1> HIDE DEF both
<1>5. /\ taken'[th] = both /\ taken' \in [Threads -> Seq(Tasks)]
      /\ \A o \in Threads \ {th} : taken'[o] = taken[o]
  BY <1>a, <1>1, <1>4 DEF both
<1>6. /\ pc' \in [Threads -> RW!Steps] /\ \A o \in Threads \ {th} : pc'[o] = pc[o]
      /\ \/ taken'[th] = <<>> /\ pc'[th] = "user"
         \/ taken'[th] # <<>> /\ pc'[th] = "resume"
  BY <1>a, <1>1 DEF RW!TypeOK, RW!Steps
<1>7. lists' \in [RW!Kinds -> Seq(Tasks)] /\ \A k \in RW!Kinds : lists'[k] = <<>>
  BY <1>1
<1>8. RW!TypeOK' /\ Others(th)
  BY <1>a, <1>1, <1>5, <1>6, <1>7 DEF RW!TypeOK, Others
<1> QED BY <1>1, <1>2, <1>4, <1>5, <1>6, <1>7, <1>8

LEMMA StepTypes ==
  ASSUME LockInv, NEW th \in Threads, RW!Step(th)
  PROVE  RW!TypeOK' /\ Others(th)
<1>1. CASE \/ RW!EndTask(th) \/ RW!Push(th) \/ \E t \in Tasks : RW!Dispatch(th, t)
  BY <1>1, TaskTypes
<1>2. CASE \E k \in RW!Kinds : RW!Lock(th, k) \/ RW!TryLock(th, k)
  BY <1>2, LockTypes
<1>3. CASE RW!AddWaiter(th) \/ RW!UnlockRead(th) \/ RW!UnlockWrite(th)
  BY <1>3, AddTypes, UnlockTypes
<1>4. CASE RW!Claim(th) \/ RW!TakeWriter(th) \/ RW!TakeReader(th)
  BY <1>4, ClaimOutcome, TakeTypes
<1>5. CASE RW!GiveWriter(th) \/ RW!GiveReaders(th)
  BY <1>5, GiveWriterOutcome, GiveReadersOutcome
<1>6. CASE RW!Resume(th) \/ RW!Destroy(th)
  BY <1>6, ResumeOutcome, DestroyOutcome
<1> QED BY <1>1, <1>2, <1>3, <1>4, <1>5, <1>6 DEF RW!Step

\* What AddWaiter and the unlocks do after their update of the word.
LEMMA LooksOutcome ==
  ASSUME LockInv, NEW th \in Threads,
         RW!AddWaiter(th) \/ RW!UnlockRead(th) \/ RW!UnlockWrite(th)
  PROVE  /\ UNCHANGED <<lists, alive, tstate, rounds, self, taken>>
         /\ value'.waking = value.waking
         /\ pc[th] \in {"user", "add_waiter"} /\ taken[th] = <<>>
         /\ \/ RW!CanWake(value') /\ pc'[th] = "claim" /\ local'[th].v = value'
            \/ /\ ~RW!CanWake(value')
               /\ (pc'[th] = "user" /\ self[th] \in Tasks) \/ pc'[th] = "idle"
<1>a. RW!TypeOK /\ value \in RW!Words
  BY DEF LockInv, RW!TypeOK
<1>1. UNCHANGED <<lists, alive, tstate, rounds, self, taken>> /\ pc[th] \in {"user", "add_waiter"}
  BY DEF RW!AddWaiter, RW!UnlockRead, RW!UnlockWrite, RW!sched
<1>2. taken[th] = <<>>
  BY <1>1 DEF LockInv, HandPart
<1>3. \E p \in BOOLEAN : RW!TryWake(th, value', p)
  BY DEF RW!AddWaiter, RW!UnlockRead, RW!UnlockWrite
<1>4. value' \in RW!Words
  BY AddTypes, UnlockTypes DEF RW!TypeOK
<1>5. value'.waking = value.waking
  <2>1. CASE RW!AddWaiter(th)
    <3>1. value' = [value EXCEPT !.rwait = @ + 1] \/ value' = [value EXCEPT !.wwait = @ + 1]
      BY <2>1 DEF RW!AddWaiter
    <3> QED BY <1>a, <3>1 DEF RW!Words
  <2>2. CASE RW!UnlockRead(th) \/ RW!UnlockWrite(th)
    BY <1>a, <2>2 DEF RW!UnlockRead, RW!UnlockWrite, RW!Words
  <2> QED BY <2>1, <2>2
<1> QED BY <1>a, <1>1, <1>2, <1>3, <1>4, <1>5, LookOutcome

-----------------------------------------------------------------------------
(* Tasks: who runs them, and where their nodes are. *)

LEMMA SelfKept ==
  ASSUME LockInv, NEW th \in Threads, Others(th), self' = self,
         \A o \in Threads : self[o] \in Tasks => tstate'[self[o]] = "running",
         pc'[th] \in {"user", "suspend"} => self[th] \in Tasks,
         pc'[th] = "suspend" => holds'[self[th]] = "none",
         \A o \in Threads \ {th} : pc[o] = "suspend" => holds'[self[o]] = "none"
  PROVE  SelfPart'
<1>1. SelfPart
  BY DEF LockInv
<1>2. \A o \in Threads \ {th} : pc'[o] = pc[o]
  BY DEF Others
<1> QED BY <1>1, <1>2 DEF SelfPart

\* A task that runs is not in a list or in anybody's hands.
LEMMA RunsOutside ==
  ASSUME LockInv, NEW th \in Threads, self[th] \in Tasks
  PROVE  /\ tstate[self[th]] = "running"
         /\ \A k \in RW!Kinds : self[th] \notin Nodes(lists[k])
         /\ \A o \in Threads : self[th] \notin Nodes(taken[o])
         /\ \A o \in Threads \ {th} : self[o] # self[th]
BY DEF LockInv, SelfPart, ListsPart, TakenPart

LEMMA SelfStep ==
  ASSUME LockInv, NEW th \in Threads, RW!Step(th)
  PROVE  SelfPart'
<1>a. /\ SelfPart /\ RW!TypeOK /\ Others(th) /\ RW!TypeOK'
      /\ \A o \in Threads : self[o] \in Tasks => tstate[self[o]] = "running"
  BY StepTypes DEF LockInv, SelfPart
<1>1. ASSUME NEW t \in Tasks, RW!Dispatch(th, t) PROVE SelfPart'
  <2>1. /\ tstate[t] = "ready" /\ pc[th] = "idle" /\ tstate'[t] = "running" /\ self'[th] = t
        /\ pc'[th] = "user" /\ holds' = holds /\ \A s \in Tasks \ {t} : tstate'[s] = tstate[s]
    BY <1>1, <1>a DEF RW!Dispatch, RW!TypeOK
  <2>2. \A o \in Threads \ {th} : pc'[o] = pc[o] /\ self'[o] = self[o]
    BY <1>a DEF Others
  <2>3. \A o \in Threads : self[o] # t
    BY <1>a, <2>1
  <2> QED BY <1>a, <2>1, <2>2, <2>3 DEF SelfPart
<1>2. CASE RW!Push(th) \/ RW!EndTask(th)
  <2>1. /\ self[th] \in Tasks /\ self'[th] = NoTask /\ pc'[th] \in {"idle", "add_waiter"}
        /\ holds' = holds
        /\ \A s \in Tasks \ {self[th]} : tstate'[s] = tstate[s]
    BY <1>2, <1>a DEF RW!Push, RW!EndTask, RW!TypeOK, SelfPart
  <2>2. \A o \in Threads \ {th} : pc'[o] = pc[o] /\ self'[o] = self[o]
    BY <1>a DEF Others
  <2> QED BY <1>a, <2>1, <2>2, NoTaskAssumption DEF SelfPart
<1>3. ASSUME NEW k \in RW!Kinds, RW!Lock(th, k) \/ RW!TryLock(th, k) PROVE SelfPart'
  <2>1. /\ pc[th] = "user" /\ self[th] \in Tasks /\ holds[self[th]] = "none"
        /\ tstate' = tstate /\ self' = self
    BY <1>3, <1>a DEF RW!Lock, RW!TryLock, RW!BeginRound, SelfPart
  <2>2. \/ holds' = holds
        \/ pc' = pc /\ holds' = [holds EXCEPT ![self[th]] = k]
    BY <1>3 DEF RW!Lock, RW!TryLock, RW!TakeLock
  <2>3. \A o \in Threads \ {th} : pc[o] = "suspend" => holds'[self[o]] = "none"
    BY <1>a, <2>1, <2>2, RunsOutside DEF SelfPart, RW!TypeOK
  <2>4. pc'[th] = "suspend" => holds'[self[th]] = "none"
    BY <2>1, <2>2
  <2> QED BY <1>a, <2>1, <2>3, <2>4, SelfKept
<1>4. CASE RW!AddWaiter(th) \/ RW!UnlockRead(th) \/ RW!UnlockWrite(th)
  <2>1. /\ self' = self /\ tstate' = tstate /\ pc'[th] # "suspend"
        /\ pc'[th] = "user" => self[th] \in Tasks
    BY <1>4, LooksOutcome
  <2>2. holds' = holds \/ (self[th] \in Tasks /\ holds' = [holds EXCEPT ![self[th]] = "none"])
    BY <1>4, UnlockTypes DEF RW!AddWaiter, RW!UnlockRead, RW!UnlockWrite, RW!sched
  <2>3. \A o \in Threads \ {th} : pc[o] = "suspend" => holds'[self[o]] = "none"
    BY <1>a, <2>2 DEF SelfPart, RW!TypeOK
  <2> QED BY <1>a, <2>1, <2>3, SelfKept
<1>5. CASE RW!Claim(th)
  BY <1>5, <1>a, ClaimOutcome, SelfKept DEF SelfPart
<1>6. CASE RW!TakeWriter(th) \/ RW!TakeReader(th)
  <2>1. /\ self' = self /\ tstate' = tstate /\ holds' = holds
        /\ pc'[th] \in {"give_writer", "take_readers", "give_readers"}
    BY <1>6, <1>a DEF RW!TakeWriter, RW!TakeReader, RW!sched, RW!TypeOK
  <2> QED BY <1>a, <2>1, SelfKept DEF SelfPart
<1>7. CASE RW!GiveWriter(th) \/ RW!GiveReaders(th)
  <2>1. /\ self' = self /\ tstate' = tstate
        /\ pc'[th] \in {"resume", "take_readers", "give_readers"}
        /\ \A t \in Tasks \ Nodes(taken[th]) : holds'[t] = holds[t]
    <3>1. CASE RW!GiveWriter(th)
      <4>1. PICK t \in Tasks : Nodes(taken[th]) = {t} /\ holds' = [holds EXCEPT ![t] = "write"]
        BY <3>1, GiveWriterOutcome
      <4>2. \A s \in Tasks \ {t} : holds'[s] = holds[s]
        BY <1>a, <4>1 DEF RW!TypeOK
      <4>3. self' = self /\ tstate' = tstate /\ pc'[th] = "resume"
        BY <3>1, GiveWriterOutcome
      <4> QED BY <4>1, <4>2, <4>3
    <3>2. CASE RW!GiveReaders(th)
      BY <3>2, GiveReadersOutcome
    <3> QED BY <1>7, <3>1, <3>2
  <2>2. \A o \in Threads \ {th} : pc[o] = "suspend" => holds'[self[o]] = "none"
    BY <1>a, <2>1, RunsOutside DEF SelfPart
  <2> QED BY <1>a, <2>1, <2>2, SelfKept
<1>8. CASE RW!Resume(th)
  <2>1. PICK first \in SUBSET Nodes(taken[th]) :
          tstate' = [t \in Tasks |-> IF t \in first THEN "ready" ELSE tstate[t]]
    BY <1>8, ResumeOutcome
  <2>2. \A o \in Threads : self[o] \in Tasks => tstate'[self[o]] = "running"
    BY <1>a, <2>1, RunsOutside
  <2>3. /\ self' = self /\ holds' = holds /\ pc'[th] # "suspend" /\ pc[th] = "resume"
        /\ pc'[th] = "user" => self[th] \in Tasks
    BY <1>8, ResumeOutcome
  <2>4. \A o \in Threads \ {th} : pc[o] = "suspend" => holds'[self[o]] = "none"
    BY <1>a, <2>3 DEF SelfPart
  <2> QED BY <1>a, <2>2, <2>3, <2>4, SelfKept
<1>9. CASE RW!Destroy(th)
  <2>1. /\ self' = self /\ tstate' = tstate /\ holds' = holds /\ self[th] \in Tasks
        /\ pc'[th] \in {"user", "resume"}
    BY <1>9, DestroyOutcome
  <2> QED BY <1>a, <2>1, SelfKept DEF SelfPart
<1> QED BY <1>1, <1>2, <1>3, <1>4, <1>5, <1>6, <1>7, <1>8, <1>9 DEF RW!Step

\* A step that moves no node, and resumes or grants nobody who waits.
LEMMA PlacesKept ==
  ASSUME LockInv, NEW th \in Threads, Others(th), UNCHANGED <<lists, taken>>,
         \A t \in Tasks : tstate[t] = "waiting" => tstate'[t] = "waiting" /\ holds'[t] = holds[t],
         taken[th] = <<>> \/ pc'[th] = "resume" \/ pc[th] # "resume"
  PROVE  ListsPart' /\ TakenPart'
<1>1. /\ RW!TypeOK /\ ListsPart /\ TakenPart
      /\ \A o \in Threads \ {th} : pc'[o] = pc[o]
  BY DEF LockInv, Others
<1>2. /\ \A k \in RW!Kinds : Nodes(lists[k]) \subseteq Tasks /\ Nodes(lists'[k]) = Nodes(lists[k])
      /\ \A o \in Threads : Nodes(taken[o]) \subseteq Tasks /\ Nodes(taken'[o]) = Nodes(taken[o])
  BY <1>1, NodesOf DEF RW!TypeOK
<1>3. \A k \in RW!Kinds : Distinct(lists[k])' = Distinct(lists[k])
  BY DEF Distinct
<1>4. \A o \in Threads : Distinct(taken[o])' = Distinct(taken[o])
  BY DEF Distinct
<1>5. \A s : Nodes(s)' = Nodes(s)
  BY DEF Nodes, RW!ToSet
<1>6. ListsPart'
  BY <1>1, <1>2, <1>3 DEF ListsPart
<1>7. taken[th] = <<>> => Nodes(taken[th]) = {}
  BY NoNodes
<1>8. \A o \in Threads : \A t \in Nodes(taken[o]) :
         tstate'[t] = "waiting" /\ (pc'[o] # "resume" => holds'[t] = "none")
  BY <1>1, <1>2, <1>7 DEF TakenPart
<1>9. TakenPart'
  BY <1>1, <1>2, <1>4, <1>8 DEF TakenPart
<1> QED BY <1>6, <1>9

LEMMA PlacesPush ==
  ASSUME LockInv, NEW th \in Threads, RW!Push(th)
  PROVE  ListsPart' /\ TakenPart'
<1> DEFINE t == self[th]
           k == local[th].kind
<1>1. /\ RW!TypeOK /\ ListsPart /\ TakenPart /\ Others(th) /\ lists \in [RW!Kinds -> Seq(Tasks)]
      /\ k \in RW!Kinds /\ t \in Tasks /\ holds[t] = "none" /\ tstate[t] = "running"
      /\ pc[th] = "suspend"
  BY TaskTypes DEF LockInv, RW!Push, SelfPart, RW!TypeOK, RW!Locals
<1>2. /\ \A j \in RW!Kinds : t \notin Nodes(lists[j])
      /\ \A o \in Threads : t \notin Nodes(taken[o])
  BY <1>1, RunsOutside
<1>3. /\ lists' = [lists EXCEPT ![k] = Append(lists[k], t)]
      /\ tstate' = [tstate EXCEPT ![t] = "waiting"] /\ UNCHANGED <<holds, taken>>
      /\ pc' = [pc EXCEPT ![th] = "add_waiter"]
  BY DEF RW!Push
<1> DEFINE more == Append(lists[k], t)
<1>4. more \in Seq(Tasks) /\ Nodes(more) = Nodes(lists[k]) \cup {t} /\ Distinct(more)
  <2> HIDE DEF t, k
  <2>1. lists[k] \in Seq(Tasks) /\ Distinct(lists[k]) /\ t \notin Nodes(lists[k])
    BY <1>1, <1>2 DEF ListsPart
  <2> QED BY <1>1, <2>1, Pushed
<1>5. PICK tt, kk, mm : tt = t /\ kk = k /\ mm = more
  OBVIOUS
<1>6. /\ kk \in RW!Kinds /\ tt \in Tasks /\ mm \in Seq(Tasks)
      /\ Nodes(mm) = Nodes(lists[kk]) \cup {tt} /\ Distinct(mm)
      /\ holds[tt] = "none" /\ lists' = [lists EXCEPT ![kk] = mm]
      /\ tstate' = [tstate EXCEPT ![tt] = "waiting"]
      /\ \A j \in RW!Kinds : tt \notin Nodes(lists[j])
      /\ \A o \in Threads : tt \notin Nodes(taken[o])
  BY <1>1, <1>2, <1>3, <1>4, <1>5
<1> HIDE DEF t, k, more
<1>7. lists'[kk] = mm /\ \A j \in RW!Kinds \ {kk} : lists'[j] = lists[j]
  BY <1>1, <1>6
<1>8. tstate'[tt] = "waiting" /\ \A s \in Tasks \ {tt} : tstate'[s] = tstate[s]
  BY <1>1, <1>6 DEF RW!TypeOK
<1>9. \A j \in RW!Kinds : Nodes(lists'[j]) = IF j = kk THEN Nodes(lists[kk]) \cup {tt}
                                             ELSE Nodes(lists[j])
  <2>1. ASSUME NEW j \in RW!Kinds, j # kk PROVE Nodes(lists'[j]) = Nodes(lists[j])
    <3>1. lists'[j] = lists[j]
      BY <1>7, <2>1
    <3> QED BY <3>1
  <2>2. Nodes(lists'[kk]) = Nodes(lists[kk]) \cup {tt}
    BY <1>6, <1>7
  <2> QED BY <2>1, <2>2
<1>10. /\ \A j \in RW!Kinds : Nodes(lists[j]) \subseteq Tasks
       /\ \A o \in Threads : Nodes(taken[o]) \subseteq Tasks
  BY <1>1, NodesOf DEF RW!TypeOK
<1>11. ListsPart'
  <2>1. \A j \in RW!Kinds : Distinct(lists'[j])
    BY <1>1, <1>6, <1>7 DEF ListsPart
  <2>2. \A j \in RW!Kinds : \A s \in Nodes(lists'[j]) : tstate'[s] = "waiting" /\ holds'[s] = "none"
    BY <1>1, <1>3, <1>6, <1>8, <1>9, <1>10 DEF ListsPart
  <2>3. Nodes(lists'["read"]) \cap Nodes(lists'["write"]) = {}
    BY <1>1, <1>6, <1>9 DEF ListsPart, RW!Kinds
  <2> QED BY <2>1, <2>2, <2>3 DEF ListsPart, Nodes
<1>12. TakenPart'
  <2>1. taken' = taken /\ \A o \in Threads : Nodes(taken[o])' = Nodes(taken[o])
    BY <1>3 DEF Nodes, RW!ToSet
  <2>2. \A o \in Threads : Distinct(taken[o])' = Distinct(taken[o])
    BY <2>1 DEF Distinct
  <2>3. \A o \in Threads : \A s \in Nodes(taken[o]) :
          tstate'[s] = "waiting" /\ (pc'[o] # "resume" => holds'[s] = "none")
    <3>1. \A o \in Threads : pc'[o] = "resume" <=> pc[o] = "resume"
      BY <1>1, <1>3 DEF RW!TypeOK
    <3> QED BY <1>1, <1>3, <1>6, <1>8, <1>10, <3>1 DEF TakenPart
  <2>4. \A o \in Threads, j \in RW!Kinds : Nodes(lists'[j]) \cap Nodes(taken[o]) = {}
    BY <1>1, <1>6, <1>9 DEF TakenPart
  <2> QED BY <1>1, <2>1, <2>2, <2>3, <2>4 DEF TakenPart
<1> QED BY <1>11, <1>12

LEMMA PlacesTake ==
  ASSUME LockInv, NEW th \in Threads, RW!TakeWriter(th) \/ RW!TakeReader(th)
  PROVE  ListsPart' /\ TakenPart'
<1>1. PICK k \in RW!Kinds : RW!MustTake1(th, k)
  BY DEF RW!TakeWriter, RW!TakeReader, RW!Kinds
<1>2. PICK t : t = Head(lists[k])
  OBVIOUS
<1>3. /\ t \in Nodes(lists[k])
      /\ Nodes(lists'[k]) = Nodes(lists[k]) \ {t} /\ Distinct(lists'[k])
      /\ \A j \in RW!Kinds \ {k} : lists'[j] = lists[j]
      /\ Nodes(taken'[th]) = Nodes(taken[th]) \cup {t} /\ Distinct(taken'[th])
      /\ \A o \in Threads \ {th} : taken'[o] = taken[o]
  BY <1>1, <1>2, TakeOutcome
<1>4. /\ ListsPart /\ TakenPart /\ UNCHANGED <<tstate, holds>>
      /\ \A o \in Threads \ {th} : pc'[o] = pc[o]
      /\ pc[th] # "resume" /\ pc'[th] # "resume"
  BY TakeTypes DEF LockInv, RW!TakeWriter, RW!TakeReader, RW!sched, Others, RW!TypeOK
<1>5. ListsPart'
  <2>1. \A j \in RW!Kinds : Distinct(lists'[j])
    BY <1>3, <1>4 DEF ListsPart
  <2>2. \A j \in RW!Kinds : Nodes(lists'[j]) \subseteq Nodes(lists[j])
    BY <1>3
  <2> QED BY <1>4, <2>1, <2>2 DEF ListsPart, RW!Kinds
<1>6. TakenPart'
  <2>1. \A o \in Threads : Distinct(taken'[o])
    BY <1>3, <1>4 DEF TakenPart
  <2>2. \A o \in Threads : Nodes(taken'[o]) = IF o = th THEN Nodes(taken[th]) \cup {t}
                                              ELSE Nodes(taken[o])
    BY <1>3
  <2>3. tstate[t] = "waiting" /\ holds[t] = "none" /\ \A o \in Threads : t \notin Nodes(taken[o])
    BY <1>3, <1>4 DEF ListsPart, TakenPart
  <2>4. \A o \in Threads : \A s \in Nodes(taken'[o]) :
          tstate'[s] = "waiting" /\ (pc'[o] # "resume" => holds'[s] = "none")
    BY <1>4, <2>2, <2>3 DEF TakenPart
  <2>5. \A j \in RW!Kinds : t \notin Nodes(lists'[j])
    BY <1>3, <1>4 DEF ListsPart, RW!Kinds
  <2>6. \A o \in Threads, j \in RW!Kinds : Nodes(lists'[j]) \cap Nodes(taken'[o]) = {}
    BY <1>3, <1>4, <2>2, <2>5 DEF TakenPart
  <2>7. \A a, b \in Threads : a # b => Nodes(taken'[a]) \cap Nodes(taken'[b]) = {}
    BY <1>4, <2>2, <2>3 DEF TakenPart
  <2> QED BY <2>1, <2>4, <2>6, <2>7 DEF TakenPart
<1> QED BY <1>5, <1>6

\* The lock is given to nodes in the hands of th, who goes on to resume them.
LEMMA PlacesGive ==
  ASSUME LockInv, NEW th \in Threads, Others(th), UNCHANGED <<lists, taken, tstate>>,
         pc'[th] = "resume", \A t \in Tasks \ Nodes(taken[th]) : holds'[t] = holds[t]
  PROVE  ListsPart' /\ TakenPart'
<1>1. /\ RW!TypeOK /\ ListsPart /\ TakenPart
      /\ \A o \in Threads \ {th} : pc'[o] = pc[o]
  BY DEF LockInv, Others
<1>2. /\ \A k \in RW!Kinds : Nodes(lists[k]) \subseteq Tasks /\ Nodes(lists'[k]) = Nodes(lists[k])
      /\ \A o \in Threads : Nodes(taken[o]) \subseteq Tasks /\ Nodes(taken'[o]) = Nodes(taken[o])
  BY <1>1, NodesOf DEF RW!TypeOK
<1>3. \A k \in RW!Kinds : Distinct(lists[k])' = Distinct(lists[k])
  BY DEF Distinct
<1>4. \A o \in Threads : Distinct(taken[o])' = Distinct(taken[o])
  BY DEF Distinct
<1>5. \A k \in RW!Kinds : \A t \in Nodes(lists[k]) : holds'[t] = holds[t]
  BY <1>1, <1>2 DEF TakenPart
<1>6. \A o \in Threads \ {th} : \A t \in Nodes(taken[o]) : holds'[t] = holds[t]
  BY <1>1, <1>2 DEF TakenPart
<1>7. ListsPart'
  BY <1>1, <1>2, <1>3, <1>5 DEF ListsPart
<1>8. \A o \in Threads : \A t \in Nodes(taken[o]) :
         tstate'[t] = "waiting" /\ (pc'[o] # "resume" => holds'[t] = "none")
  BY <1>1, <1>2, <1>6 DEF TakenPart
<1>9. TakenPart'
  BY <1>1, <1>2, <1>4, <1>8 DEF TakenPart
<1> QED BY <1>7, <1>9

LEMMA PlacesResume ==
  ASSUME LockInv, NEW th \in Threads, RW!Resume(th)
  PROVE  ListsPart' /\ TakenPart'
<1>1. PICK first \in SUBSET Nodes(taken[th]) :
        /\ first \cap Nodes(taken'[th]) = {}
        /\ tstate' = [t \in Tasks |-> IF t \in first THEN "ready" ELSE tstate[t]]
  BY ResumeOutcome
<1>2. /\ Distinct(taken'[th]) /\ Nodes(taken'[th]) \subseteq Nodes(taken[th])
      /\ Others(th) /\ UNCHANGED <<lists, holds>> /\ pc[th] = "resume"
      /\ taken'[th] # <<>> => pc' = pc
  BY ResumeOutcome
<1>3. /\ RW!TypeOK /\ ListsPart /\ TakenPart
      /\ \A o \in Threads \ {th} : pc'[o] = pc[o] /\ taken'[o] = taken[o]
  BY <1>2 DEF LockInv, Others
<1>4. /\ \A k \in RW!Kinds : Nodes(lists[k]) \subseteq Tasks /\ Nodes(lists'[k]) = Nodes(lists[k])
      /\ \A o \in Threads : Nodes(taken[o]) \subseteq Tasks
  BY <1>2, <1>3, NodesOf DEF RW!TypeOK
<1>5. \A o \in Threads : Nodes(taken'[o]) \subseteq Nodes(taken[o])
  BY <1>2, <1>3
<1>6. \A k \in RW!Kinds : Distinct(lists[k])' = Distinct(lists[k])
  BY <1>2 DEF Distinct
<1>7. \A k \in RW!Kinds : \A t \in Nodes(lists[k]) : t \notin first
  BY <1>3 DEF TakenPart
<1>8. ListsPart'
  BY <1>1, <1>2, <1>3, <1>4, <1>6, <1>7 DEF ListsPart
<1>9. \A o \in Threads : \A t \in Nodes(taken'[o]) : t \notin first
  BY <1>1, <1>3 DEF TakenPart
<1>10. \A o \in Threads : \A t \in Nodes(taken'[o]) : tstate'[t] = "waiting"
  BY <1>1, <1>3, <1>4, <1>5, <1>9 DEF TakenPart
<1>11. taken'[th] = <<>> => Nodes(taken'[th]) = {}
  BY NoNodes
<1>12. \A o \in Threads : \A t \in Nodes(taken'[o]) : pc'[o] # "resume" => holds'[t] = "none"
  BY <1>2, <1>3, <1>5, <1>11 DEF TakenPart
<1>13. \A o \in Threads : Distinct(taken'[o])
  BY <1>2, <1>3 DEF TakenPart
<1>14. TakenPart'
  BY <1>3, <1>4, <1>5, <1>10, <1>12, <1>13 DEF TakenPart
<1> QED BY <1>8, <1>14

LEMMA PlacesDestroy ==
  ASSUME LockInv, NEW th \in Threads, RW!Destroy(th)
  PROVE  ListsPart' /\ TakenPart'
<1>1. /\ Others(th) /\ UNCHANGED <<tstate, holds>> /\ Distinct(taken'[th])
      /\ \A o \in Threads : taken[o] = <<>>
      /\ \A k \in RW!Kinds : lists'[k] = <<>>
      /\ Nodes(taken'[th]) = Nodes(lists["read"]) \cup Nodes(lists["write"])
  BY DestroyOutcome
<1>2. /\ \A k \in RW!Kinds : Nodes(lists'[k]) = {} /\ Distinct(lists'[k])
      /\ \A o \in Threads \ {th} : Nodes(taken'[o]) = {} /\ Distinct(taken'[o])
  BY <1>1, NoNodes DEF Others
<1>3. ListsPart'
  BY <1>2 DEF ListsPart, RW!Kinds
<1>4. \A t \in Nodes(taken'[th]) : tstate'[t] = "waiting" /\ holds'[t] = "none"
  BY <1>1 DEF LockInv, ListsPart, RW!Kinds
<1>5. TakenPart'
  BY <1>1, <1>2, <1>4 DEF TakenPart
<1> QED BY <1>3, <1>5

\* Every step keeps the nodes in their places.
LEMMA PlacesStep ==
  ASSUME LockInv, NEW th \in Threads, RW!Step(th)
  PROVE  ListsPart' /\ TakenPart'
<1>a. RW!TypeOK /\ SelfPart /\ Others(th)
  BY StepTypes DEF LockInv
<1>1. ASSUME NEW t \in Tasks, RW!Dispatch(th, t) PROVE ListsPart' /\ TakenPart'
  <2>1. /\ UNCHANGED <<lists, taken, holds>> /\ tstate[t] = "ready" /\ pc[th] = "idle"
        /\ \A s \in Tasks \ {t} : tstate'[s] = tstate[s]
    BY <1>1, <1>a DEF RW!Dispatch, RW!shared, RW!TypeOK
  <2> QED BY <1>a, <2>1, PlacesKept
<1>2. CASE RW!EndTask(th)
  <2>1. /\ UNCHANGED <<lists, taken, holds>> /\ self[th] \in Tasks /\ pc[th] = "user"
        /\ \A s \in Tasks \ {self[th]} : tstate'[s] = tstate[s]
    BY <1>2, <1>a DEF RW!EndTask, RW!shared, RW!TypeOK, SelfPart
  <2> QED BY <1>a, <2>1, RunsOutside, PlacesKept
<1>3. ASSUME NEW k \in RW!Kinds, RW!Lock(th, k) \/ RW!TryLock(th, k)
      PROVE  ListsPart' /\ TakenPart'
  <2>1. /\ UNCHANGED <<lists, taken, tstate>> /\ self[th] \in Tasks /\ pc[th] = "user"
        /\ holds' = holds \/ holds' = [holds EXCEPT ![self[th]] = k]
    BY <1>3, <1>a DEF RW!Lock, RW!TryLock, RW!BeginRound, RW!TakeLock, SelfPart
  <2>2. \A s \in Tasks \ {self[th]} : holds'[s] = holds[s]
    BY <1>a, <2>1 DEF RW!TypeOK
  <2> QED BY <1>a, <2>1, <2>2, RunsOutside, PlacesKept
<1>4. CASE RW!AddWaiter(th) \/ RW!UnlockRead(th) \/ RW!UnlockWrite(th)
  <2>1. UNCHANGED <<lists, taken, tstate>> /\ taken[th] = <<>>
    BY <1>4, LooksOutcome
  <2>2. holds' = holds \/ (self[th] \in Tasks /\ holds' = [holds EXCEPT ![self[th]] = "none"])
    BY <1>4, UnlockTypes DEF RW!AddWaiter, RW!UnlockRead, RW!UnlockWrite, RW!sched
  <2>3. \A s \in Tasks : tstate[s] = "waiting" => holds'[s] = holds[s]
    BY <1>a, <2>2, RunsOutside DEF RW!TypeOK
  <2> QED BY <1>a, <2>1, <2>3, PlacesKept
<1>5. CASE RW!Claim(th)
  <2>1. UNCHANGED <<lists, taken, tstate, holds>> /\ pc[th] = "claim"
    BY <1>5, ClaimOutcome
  <2> QED BY <1>a, <2>1, PlacesKept
<1>6. CASE RW!GiveWriter(th)
  <2>1. PICK t \in Tasks : Nodes(taken[th]) = {t} /\ holds' = [holds EXCEPT ![t] = "write"]
    BY <1>6, GiveWriterOutcome
  <2>2. \A s \in Tasks \ Nodes(taken[th]) : holds'[s] = holds[s]
    BY <1>a, <2>1 DEF RW!TypeOK
  <2>3. UNCHANGED <<lists, taken, tstate>> /\ pc'[th] = "resume"
    BY <1>6, GiveWriterOutcome
  <2> QED BY <1>a, <2>2, <2>3, PlacesGive
<1>7. CASE RW!GiveReaders(th)
  <2>1. UNCHANGED <<lists, taken, tstate>> /\ pc[th] = "give_readers"
    BY <1>7, GiveReadersOutcome
  <2>2. CASE holds' = holds
    BY <1>a, <2>1, <2>2, PlacesKept
  <2>3. CASE holds' # holds
    <3>1. pc'[th] = "resume" /\ \A s \in Tasks \ Nodes(taken[th]) : holds'[s] = holds[s]
      BY <1>7, <2>3, GiveReadersOutcome
    <3> QED BY <1>a, <2>1, <3>1, PlacesGive
  <2> QED BY <2>2, <2>3
<1> QED BY <1>1, <1>2, <1>3, <1>4, <1>5, <1>6, <1>7, PlacesPush, PlacesTake, PlacesResume,
           PlacesDestroy DEF RW!Step

-----------------------------------------------------------------------------
(* The word: holders, the owner of WAKING, and the counts. *)

LEMMA HoldKept ==
  ASSUME LockInv, holds' = holds, value'.writer = value.writer, value'.readers = value.readers
  PROVE  HoldPart'
BY DEF LockInv, HoldPart, Readers

\* A task enters if the word allows it.
LEMMA HoldEnter ==
  ASSUME LockInv, NEW t \in Tasks, NEW k \in RW!Kinds, holds[t] = "none",
         RW!CanLock(k), RW!TakeLock(t, k)
  PROVE  HoldPart'
<1>a. /\ RW!TypeOK /\ HoldPart /\ value \in RW!Words /\ RW!Kinds = {"read", "write"}
  BY DEF LockInv, RW!TypeOK, RW!Kinds
<1>1. /\ holds' = [holds EXCEPT ![t] = k] /\ holds'[t] = k
      /\ \A s \in Tasks \ {t} : holds'[s] = holds[s]
  BY <1>a DEF RW!TakeLock, RW!TypeOK
<1>2. CASE k = "read"
  <2>1. value' = [value EXCEPT !.readers = @ + 1] /\ ~value.writer
    BY <1>2 DEF RW!TakeLock, RW!CanLock
  <2>2. value'.readers = value.readers + 1 /\ value'.writer = value.writer
    BY <1>a, <2>1 DEF RW!Words
  <2>3. \A s \in Tasks : holds[s] # "write" /\ holds'[s] # "write"
    BY <1>a, <1>1, <1>2, <2>1 DEF HoldPart
  <2>4. Readers' = Readers \cup {t} /\ t \notin Readers
    BY <1>1, <1>2 DEF Readers
  <2>5. IsFiniteSet(Readers') /\ Cardinality(Readers') = Cardinality(Readers) + 1
    BY <1>a, <2>4, FS_AddElement DEF HoldPart
  <2> QED BY <1>a, <2>1, <2>2, <2>3, <2>5 DEF HoldPart
<1>3. CASE k = "write"
  <2>1. value' = [value EXCEPT !.writer = TRUE] /\ value = RW!Unlocked
    BY <1>3 DEF RW!TakeLock, RW!CanLock
  <2>2. value.readers = 0 /\ value.writer = FALSE /\ value'.readers = 0 /\ value'.writer = TRUE
    BY <1>a, <2>1 DEF RW!Words, RW!Unlocked
  <2>3. Readers = {} /\ \A s \in Tasks : holds[s] # "write"
    BY <1>a, <2>2, FS_EmptySet DEF HoldPart
  <2>4. \A s \in Tasks : holds[s] = "none"
    BY <1>a, <2>3 DEF Readers, RW!TypeOK
  <2>5. Readers' = {}
    BY <1>1, <1>3, <2>4 DEF Readers
  <2>6. IsFiniteSet(Readers') /\ Cardinality(Readers') = 0
    BY <2>5, FS_EmptySet
  <2> QED BY <1>1, <1>3, <2>2, <2>4, <2>6 DEF HoldPart
<1> QED BY <1>a, <1>2, <1>3

LEMMA HoldLeave ==
  ASSUME LockInv, NEW th \in Threads, RW!UnlockRead(th) \/ RW!UnlockWrite(th)
  PROVE  HoldPart'
<1>a. /\ RW!TypeOK /\ HoldPart /\ value \in RW!Words /\ self[th] \in Tasks
  BY UnlockTypes DEF LockInv, RW!TypeOK
<1>1. PICK t \in Tasks : t = self[th]
  BY <1>a
<1>2. /\ holds' = [holds EXCEPT ![t] = "none"] /\ holds'[t] = "none"
      /\ \A s \in Tasks \ {t} : holds'[s] = holds[s]
  BY <1>a, <1>1 DEF RW!UnlockRead, RW!UnlockWrite, RW!TypeOK
<1>3. CASE RW!UnlockRead(th)
  <2>1. value' = [value EXCEPT !.readers = @ - 1] /\ holds[t] = "read"
    BY <1>1, <1>3 DEF RW!UnlockRead
  <2>2. value'.readers = value.readers - 1 /\ value'.writer = value.writer
    BY <1>a, <2>1 DEF RW!Words
  <2>3. \A s \in Tasks : holds[s] # "write" /\ holds'[s] # "write"
    BY <1>a, <1>2, <2>1 DEF HoldPart
  <2>4. Readers' = Readers \ {t} /\ t \in Readers
    BY <1>2, <2>1 DEF Readers
  <2>5. IsFiniteSet(Readers') /\ Cardinality(Readers') = Cardinality(Readers) - 1
    BY <1>a, <2>4, FS_RemoveElement DEF HoldPart
  <2> QED BY <1>a, <2>2, <2>3, <2>5 DEF HoldPart
<1>4. CASE RW!UnlockWrite(th)
  <2>1. value' = [value EXCEPT !.writer = FALSE] /\ holds[t] = "write"
    BY <1>1, <1>4 DEF RW!UnlockWrite
  <2>2. value'.readers = value.readers /\ value'.writer = FALSE
    BY <1>a, <2>1 DEF RW!Words
  <2>3. \A s \in Tasks : holds'[s] = "none"
    BY <1>a, <1>2, <2>1 DEF HoldPart
  <2>4. Readers' = {} /\ Readers = {}
    BY <1>a, <1>2, <2>1, <2>3 DEF Readers, HoldPart
  <2> QED BY <1>a, <2>2, <2>3, <2>4 DEF HoldPart
<1> QED BY <1>3, <1>4

LEMMA HoldGiveWriter ==
  ASSUME LockInv, NEW th \in Threads, RW!GiveWriter(th)
  PROVE  HoldPart'
<1>a. RW!TypeOK /\ HoldPart /\ value.readers = 0 /\ ~value.writer
  BY GiveWriterOutcome DEF LockInv, OwnerPart
<1>1. PICK t \in Tasks : holds' = [holds EXCEPT ![t] = "write"]
  BY GiveWriterOutcome
<1>2. Readers = {} /\ \A s \in Tasks : holds[s] # "write"
  BY <1>a, FS_EmptySet DEF HoldPart
<1>3. \A s \in Tasks : holds[s] = "none"
  BY <1>a, <1>2 DEF Readers, RW!TypeOK, RW!Kinds
<1>4. holds'[t] = "write" /\ \A s \in Tasks \ {t} : holds'[s] = "none"
  BY <1>a, <1>1, <1>3 DEF RW!TypeOK
<1>5. Readers' = {}
  BY <1>4 DEF Readers
<1>6. value'.writer /\ value'.readers = 0
  BY <1>a, GiveWriterOutcome
<1>7. IsFiniteSet(Readers') /\ Cardinality(Readers') = 0
  BY <1>5, FS_EmptySet
<1> QED BY <1>4, <1>6, <1>7 DEF HoldPart

LEMMA HoldGiveReaders ==
  ASSUME LockInv, NEW th \in Threads, RW!GiveReaders(th)
  PROVE  HoldPart'
<1>a. /\ RW!TypeOK /\ HoldPart /\ pc[th] = "give_readers" /\ ~value.writer
      /\ taken[th] \in Seq(Tasks) /\ Distinct(taken[th])
  BY GiveReadersOutcome DEF LockInv, OwnerPart, TakenPart, RW!TypeOK, RW!Waking
<1>1. CASE value' = value /\ holds' = holds
  BY <1>1, HoldKept
<1>2. CASE ~(value' = value /\ holds' = holds)
  <2>1. /\ value'.writer = value.writer /\ value'.readers = value.readers + Len(taken[th])
        /\ holds' = [t \in Tasks |-> IF t \in Nodes(taken[th]) THEN "read" ELSE holds[t]]
    BY <1>2, GiveReadersOutcome
  <2>2. \A s \in Tasks : holds[s] # "write" /\ holds'[s] # "write"
    BY <1>a, <2>1 DEF HoldPart
  <2>3. /\ IsFiniteSet(Nodes(taken[th])) /\ Cardinality(Nodes(taken[th])) = Len(taken[th])
        /\ Len(taken[th]) \in Nat /\ Nodes(taken[th]) \subseteq Tasks
    BY <1>a, DistinctCount, NodesOf
  <2>4. Readers \cap Nodes(taken[th]) = {}
    BY <1>a DEF LockInv, TakenPart, Readers
  <2>5. Readers' = Readers \cup Nodes(taken[th])
    BY <2>1, <2>3 DEF Readers
  <2>6. /\ IsFiniteSet(Readers')
        /\ Cardinality(Readers') = Cardinality(Readers) + Len(taken[th])
    <3>1. IsFiniteSet(Readers)
      BY <1>a DEF HoldPart
    <3>2. /\ IsFiniteSet(Readers \cup Nodes(taken[th]))
          /\ Cardinality(Readers \cup Nodes(taken[th])) =
               Cardinality(Readers) + Cardinality(Nodes(taken[th])) - Cardinality({})
      BY <2>3, <2>4, <3>1, FS_Union
    <3>3. Cardinality({}) = 0 /\ Cardinality(Readers) \in Nat
      BY <3>1, FS_EmptySet, FS_CardinalityType
    <3> QED BY <2>3, <2>5, <3>2, <3>3
  <2> QED BY <1>a, <2>1, <2>2, <2>6 DEF HoldPart
<1> QED BY <1>1, <1>2

LEMMA HoldStep ==
  ASSUME LockInv, NEW th \in Threads, RW!Step(th)
  PROVE  HoldPart'
<1>a. RW!TypeOK /\ SelfPart /\ value \in RW!Words
  BY DEF LockInv, RW!TypeOK
<1>1. CASE UNCHANGED <<value, holds>>
  BY <1>1, HoldKept
<1>2. ASSUME NEW k \in RW!Kinds, RW!Lock(th, k) \/ RW!TryLock(th, k) PROVE HoldPart'
  <2>1. self[th] \in Tasks /\ holds[self[th]] = "none"
    BY <1>2, <1>a DEF RW!Lock, RW!TryLock, RW!BeginRound, SelfPart
  <2>2. (RW!CanLock(k) /\ RW!TakeLock(self[th], k)) \/ UNCHANGED <<value, holds>>
    BY <1>2 DEF RW!Lock, RW!TryLock
  <2> QED BY <1>1, <2>1, <2>2, HoldEnter
<1>3. CASE RW!AddWaiter(th)
  <2>1. value' = [value EXCEPT !.rwait = @ + 1] \/ value' = [value EXCEPT !.wwait = @ + 1]
    BY <1>3 DEF RW!AddWaiter
  <2>2. holds' = holds /\ value'.writer = value.writer /\ value'.readers = value.readers
    BY <1>3, <1>a, <2>1 DEF RW!AddWaiter, RW!sched, RW!Words
  <2> QED BY <2>2, HoldKept
<1>4. CASE RW!Claim(th)
  <2>1. holds' = holds /\ (value' = value \/ value' = [value EXCEPT !.waking = TRUE])
    BY <1>4, ClaimOutcome
  <2>2. value'.writer = value.writer /\ value'.readers = value.readers
    BY <1>a, <2>1 DEF RW!Words
  <2> QED BY <2>1, <2>2, HoldKept
<1>5. CASE \/ RW!Push(th) \/ RW!EndTask(th) \/ (\E t \in Tasks : RW!Dispatch(th, t))
           \/ RW!TakeWriter(th) \/ RW!TakeReader(th)
  <2>1. UNCHANGED <<value, holds>>
    BY <1>5 DEF RW!Push, RW!EndTask, RW!Dispatch, RW!TakeWriter, RW!TakeReader, RW!shared, RW!sched
  <2> QED BY <1>1, <2>1
<1>6. CASE RW!Resume(th) \/ RW!Destroy(th)
  BY <1>1, <1>6, ResumeOutcome, DestroyOutcome
<1> QED BY <1>2, <1>3, <1>4, <1>5, <1>6, HoldLeave, HoldGiveWriter, HoldGiveReaders DEF RW!Step

\* A step that neither begins nor ends a claim of WAKING, nor lets a writer in while
\* somebody is waking.
LEMMA OwnerKept ==
  ASSUME LockInv, NEW th \in Threads, Others(th), RW!Waking(th)' = RW!Waking(th),
         value'.waking = value.waking, value'.writer => value.writer \/ ~value.waking
  PROVE  OwnerPart'
<1>1. \A o \in Threads : RW!Waking(o)' = RW!Waking(o)
  BY DEF Others, RW!Waking
<1>2. OwnerPart /\ value.waking \in BOOLEAN
  BY WordType DEF LockInv, RW!TypeOK
<1> QED BY <1>1, <1>2 DEF OwnerPart

\* The owner hands the lock over and gives WAKING back.
LEMMA OwnerGives ==
  ASSUME LockInv, NEW th \in Threads, Others(th), RW!Waking(th), ~RW!Waking(th)',
         value'.waking = FALSE
  PROVE  OwnerPart'
<1>1. \A o \in Threads : ~RW!Waking(o)'
  BY DEF Others, RW!Waking, LockInv, OwnerPart
<1> QED BY <1>1 DEF OwnerPart

LEMMA OwnerClaim ==
  ASSUME LockInv, NEW th \in Threads, RW!Claim(th)
  PROVE  OwnerPart'
<1>a. /\ Others(th) /\ pc[th] = "claim" /\ value \in RW!Words /\ OwnerPart
  BY ClaimOutcome DEF LockInv, RW!TypeOK
<1>1. CASE value' = value /\ pc'[th] \in {"claim", "user", "idle"}
  BY <1>1, <1>a, OwnerKept DEF RW!Waking
<1>2. CASE ~(value' = value /\ pc'[th] \in {"claim", "user", "idle"})
  <2>1. /\ RW!CanWake(value) /\ value' = [value EXCEPT !.waking = TRUE]
        /\ pc'[th] \in {"take_writer", "take_readers"}
    BY <1>2, ClaimOutcome
  <2>2. ~value.waking /\ ~value.writer /\ value'.waking /\ ~value'.writer
    BY <1>a, <2>1 DEF RW!CanWake, RW!Words
  <2>3. \A o \in Threads : RW!Waking(o)' <=> o = th
    BY <1>a, <2>1, <2>2 DEF OwnerPart, RW!Waking, Others
  <2> QED BY <2>2, <2>3 DEF OwnerPart
<1> QED BY <1>1, <1>2

LEMMA OwnerStep ==
  ASSUME LockInv, NEW th \in Threads, RW!Step(th)
  PROVE  OwnerPart'
<1>a. RW!TypeOK /\ Others(th) /\ value \in RW!Words /\ OwnerPart
  BY StepTypes DEF LockInv, RW!TypeOK
<1>1. CASE RW!Push(th) \/ RW!EndTask(th) \/ \E t \in Tasks : RW!Dispatch(th, t)
  <2>1. value' = value /\ pc[th] \in {"suspend", "user", "idle"}
        /\ pc'[th] \in {"add_waiter", "user", "idle"}
    BY <1>1, <1>a DEF RW!Push, RW!EndTask, RW!Dispatch, RW!shared, RW!TypeOK
  <2> QED BY <1>a, <2>1, OwnerKept DEF RW!Waking
<1>2. ASSUME NEW k \in RW!Kinds, RW!Lock(th, k) \/ RW!TryLock(th, k) PROVE OwnerPart'
  <2>1. pc[th] = "user" /\ pc'[th] \in {"user", "suspend"}
    BY <1>2, <1>a DEF RW!Lock, RW!TryLock, RW!BeginRound, RW!TypeOK
  <2>2. \/ value' = value
        \/ value' = [value EXCEPT !.readers = @ + 1]
        \/ value' = [value EXCEPT !.writer = TRUE] /\ value = RW!Unlocked
    BY <1>2 DEF RW!Lock, RW!TryLock, RW!TakeLock, RW!CanLock
  <2>3. value'.waking = value.waking /\ (value'.writer => value.writer \/ ~value.waking)
    BY <1>a, <2>2 DEF RW!Words, RW!Unlocked
  <2> QED BY <1>a, <2>1, <2>3, OwnerKept DEF RW!Waking
<1>3. CASE RW!AddWaiter(th) \/ RW!UnlockRead(th) \/ RW!UnlockWrite(th)
  <2>1. /\ value'.waking = value.waking /\ pc[th] \in {"user", "add_waiter"}
        /\ pc'[th] \in {"claim", "user", "idle"}
    BY <1>3, LooksOutcome
  <2>2. value'.writer => value.writer
    <3>1. CASE RW!AddWaiter(th)
      <4>1. value' = [value EXCEPT !.rwait = @ + 1] \/ value' = [value EXCEPT !.wwait = @ + 1]
        BY <3>1 DEF RW!AddWaiter
      <4> QED BY <1>a, <4>1 DEF RW!Words
    <3>2. CASE RW!UnlockRead(th) \/ RW!UnlockWrite(th)
      BY <1>a, <3>2 DEF RW!UnlockRead, RW!UnlockWrite, RW!Words
    <3> QED BY <1>3, <3>1, <3>2
  <2> QED BY <1>a, <2>1, <2>2, OwnerKept DEF RW!Waking
<1>4. CASE RW!TakeWriter(th) \/ RW!TakeReader(th)
  <2>1. /\ value' = value /\ pc[th] \in {"take_writer", "take_readers"}
        /\ pc'[th] \in {"give_writer", "take_readers", "give_readers"}
    BY <1>4, <1>a DEF RW!TakeWriter, RW!TakeReader, RW!TypeOK
  <2> QED BY <1>a, <2>1, OwnerKept DEF RW!Waking
<1>5. CASE RW!GiveWriter(th)
  BY <1>5, GiveWriterOutcome, OwnerGives DEF RW!Waking
<1>6. CASE RW!GiveReaders(th)
  <2>1. CASE pc'[th] = "resume"
    <3>1. pc[th] = "give_readers" /\ value'.waking = FALSE
      BY <1>6, <2>1, GiveReadersOutcome
    <3> QED BY <1>a, <2>1, <3>1, OwnerGives DEF RW!Waking
  <2>2. CASE pc'[th] # "resume"
    <3>1. /\ pc[th] = "give_readers" /\ value' = value
          /\ pc'[th] \in {"take_readers", "give_readers"}
      BY <1>6, <2>2, GiveReadersOutcome
    <3> QED BY <1>a, <3>1, OwnerKept DEF RW!Waking
  <2> QED BY <2>1, <2>2
<1>7. CASE RW!Resume(th)
  <2>1. value' = value /\ pc[th] = "resume" /\ pc'[th] \in {"resume", "user", "idle"}
    BY <1>7, ResumeOutcome
  <2> QED BY <1>a, <2>1, OwnerKept DEF RW!Waking
<1>8. CASE RW!Destroy(th)
  <2>1. value' = value /\ pc[th] = "user" /\ pc'[th] \in {"resume", "user"}
    BY <1>8, DestroyOutcome
  <2> QED BY <1>a, <2>1, OwnerKept DEF RW!Waking
<1> QED BY <1>1, <1>2, <1>3, <1>4, <1>5, <1>6, <1>7, <1>8, OwnerClaim DEF RW!Step

\* What the owner of WAKING knows of the word cannot become false by a step of others,
\* and nothing else is known of it.
LEMMA KnownOthers ==
  ASSUME LockInv, NEW th \in Threads, Others(th),
         value.readers = 0 /\ value.wwait > 0 => value'.readers = 0 /\ value'.wwait > 0,
         value'.rwait >= value.rwait, value' \in RW!Words
  PROVE  \A o \in Threads \ {th} : KnownPart(o)'
<1> SUFFICES ASSUME NEW o \in Threads \ {th} PROVE KnownPart(o)'
  OBVIOUS
<1>1. KnownPart(o) /\ pc'[o] = pc[o] /\ local'[o] = local[o]
  BY DEF LockInv, Others
<1>2. value.rwait \in Nat /\ value'.rwait \in Nat /\ local[o].target \in Nat
  BY WordType DEF LockInv, RW!TypeOK, RW!Locals
<1>3. Batching(o)' = Batching(o)
  BY <1>1 DEF Batching
<1>4. value.rwait >= local[o].target => value'.rwait >= local'[o].target
  BY <1>1, <1>2
<1>5. RW!CanWake(local[o].v) => RW!CanWake(local'[o].v)
  BY <1>1
<1> QED BY <1>1, <1>3, <1>4, <1>5 DEF KnownPart

\* When the owner gives the lock away nobody else knows anything of the word.
LEMMA KnownGive ==
  ASSUME LockInv, NEW th \in Threads, Others(th), RW!Waking(th), pc'[th] = "resume"
  PROVE  \A o \in Threads : KnownPart(o)'
<1>1. \A o \in Threads \ {th} : ~RW!Waking(o)
  BY DEF LockInv, OwnerPart
<1>2. \A o \in Threads \ {th} : KnownPart(o)'
  <2> SUFFICES ASSUME NEW o \in Threads \ {th} PROVE KnownPart(o)'
    OBVIOUS
  <2>1. KnownPart(o) /\ pc'[o] = pc[o] /\ local'[o] = local[o] /\ ~RW!Waking(o)
    BY <1>1 DEF LockInv, Others
  <2>2. RW!CanWake(local[o].v) => RW!CanWake(local'[o].v)
    BY <2>1
  <2> QED BY <2>1, <2>2 DEF KnownPart, RW!Waking, Batching
<1>3. KnownPart(th)'
  BY DEF KnownPart, Batching
<1> QED BY <1>2, <1>3

LEMMA KnownStep ==
  ASSUME LockInv, NEW th \in Threads, RW!Step(th)
  PROVE  \A o \in Threads : KnownPart(o)'
<1>a. /\ RW!TypeOK /\ Others(th) /\ value \in RW!Words /\ value' \in RW!Words
      /\ KnownPart(th)
  BY StepTypes DEF LockInv, RW!TypeOK
<1>b. /\ value.readers \in Nat /\ value.rwait \in Nat /\ value.wwait \in Nat
      /\ value.writer \in BOOLEAN
  BY <1>a, WordType
<1>1. ASSUME value' = value, pc'[th] \in {"idle", "user", "suspend", "add_waiter", "resume"}
      PROVE  \A o \in Threads : KnownPart(o)'
  <2>1. KnownPart(th)'
    BY <1>1 DEF KnownPart, Batching
  <2> QED BY <1>a, <1>b, <1>1, <2>1, KnownOthers
<1>2. CASE RW!Push(th) \/ RW!EndTask(th) \/ \E t \in Tasks : RW!Dispatch(th, t)
  <2>1. value' = value /\ pc'[th] \in {"idle", "user", "add_waiter"}
    BY <1>2, <1>a DEF RW!Push, RW!EndTask, RW!Dispatch, RW!shared, RW!TypeOK
  <2> QED BY <1>1, <2>1
<1>3. ASSUME NEW k \in RW!Kinds, RW!Lock(th, k) \/ RW!TryLock(th, k)
      PROVE  \A o \in Threads : KnownPart(o)'
  <2>1. pc'[th] \in {"user", "suspend"}
    BY <1>3, <1>a DEF RW!Lock, RW!TryLock, RW!BeginRound, RW!TypeOK
  <2>2. \/ value' = value
        \/ value' = [value EXCEPT !.readers = @ + 1] /\ value.wwait = 0
        \/ value' = [value EXCEPT !.writer = TRUE]
    BY <1>3 DEF RW!Lock, RW!TryLock, RW!TakeLock, RW!CanLock
  <2>3. /\ value'.rwait = value.rwait /\ value'.wwait = value.wwait
        /\ value.wwait = 0 \/ value'.readers = value.readers
    BY <1>a, <2>2 DEF RW!Words
  <2>4. KnownPart(th)'
    BY <2>1 DEF KnownPart, Batching
  <2> QED BY <1>a, <1>b, <2>3, <2>4, KnownOthers
<1>4. CASE RW!AddWaiter(th) \/ RW!UnlockRead(th) \/ RW!UnlockWrite(th)
  <2>1. value'.rwait >= value.rwait /\ value'.wwait >= value.wwait
        /\ (value.readers = 0 => value'.readers = 0)
    <3>1. CASE RW!AddWaiter(th)
      <4>1. value' = [value EXCEPT !.rwait = @ + 1] \/ value' = [value EXCEPT !.wwait = @ + 1]
        BY <3>1 DEF RW!AddWaiter
      <4> QED BY <1>a, <1>b, <4>1 DEF RW!Words
    <3>2. CASE RW!UnlockWrite(th)
      BY <1>a, <1>b, <3>2 DEF RW!UnlockWrite, RW!Words
    <3>3. CASE RW!UnlockRead(th)
      <4>1. value' = [value EXCEPT !.readers = value.readers - 1]
        BY <3>3 DEF RW!UnlockRead
      <4>2. value'.readers = value.readers - 1 /\ value'.rwait = value.rwait
            /\ value'.wwait = value.wwait /\ value'.readers \in Nat
        BY <1>a, <4>1, WordType DEF RW!Words
      <4> QED BY <1>b, <4>2
    <3> QED BY <1>4, <3>1, <3>2, <3>3
  <2>2. value'.wwait \in Nat
    BY <1>a, WordType
  <2>3. \A o \in Threads \ {th} : KnownPart(o)'
    BY <1>a, <1>b, <2>1, <2>2, KnownOthers
  <2>4. KnownPart(th)'
    <3>1. \/ RW!CanWake(local'[th].v) /\ pc'[th] = "claim"
          \/ pc'[th] \in {"user", "idle"}
      BY <1>4, LooksOutcome
    <3> QED BY <3>1 DEF KnownPart, Batching
  <2> QED BY <2>3, <2>4
<1>5. CASE RW!Claim(th)
  <2>1. value' = value \/ value' = [value EXCEPT !.waking = TRUE]
    BY <1>5, ClaimOutcome
  <2>2. value'.rwait = value.rwait /\ value'.wwait = value.wwait /\ value'.readers = value.readers
    BY <1>a, <2>1 DEF RW!Words
  <2>3. \A o \in Threads \ {th} : KnownPart(o)'
    BY <1>a, <1>b, <2>2, KnownOthers
  <2>4. KnownPart(th)'
    <3>1. CASE pc'[th] \in {"user", "idle"}
      BY <3>1 DEF KnownPart, Batching
    <3>2. CASE pc'[th] = "claim"
      <4>1. RW!CanWake(local'[th].v)
        BY <1>5, <3>2, ClaimOutcome
      <4> QED BY <3>2, <4>1 DEF KnownPart, Batching
    <3>3. CASE pc'[th] = "take_writer"
      <4>1. value'.readers = 0 /\ value'.wwait > 0
        BY <1>5, <2>2, <3>3, ClaimOutcome
      <4> QED BY <3>3, <4>1 DEF KnownPart, Batching
    <3>4. CASE pc'[th] = "take_readers"
      <4>1. value.rwait > 0 /\ local'[th].v = value' /\ local'[th].target = value.rwait
        BY <1>5, <3>4, ClaimOutcome
      <4>2. local'[th].target > 0 /\ value'.rwait >= local'[th].target
            /\ local'[th].target = local'[th].v.rwait
        BY <1>b, <2>2, <4>1
      <4> QED BY <3>4, <4>2 DEF KnownPart, Batching
    <3> QED BY <1>5, <3>1, <3>2, <3>3, <3>4, ClaimOutcome
  <2> QED BY <2>3, <2>4
<1>6. CASE RW!TakeWriter(th) \/ RW!TakeReader(th)
  <2>1. value' = value /\ local' = local
        /\ \/ pc[th] = "take_writer" /\ pc'[th] = "give_writer"
           \/ Batching(th) /\ pc'[th] \in {"take_readers", "give_readers"}
    BY <1>6, <1>a DEF RW!TakeWriter, RW!TakeReader, RW!TypeOK, Batching
  <2>2. \A o \in Threads \ {th} : KnownPart(o)'
    BY <1>a, <1>b, <2>1, KnownOthers
  <2>3. KnownPart(th)'
    BY <1>a, <2>1 DEF KnownPart, Batching
  <2> QED BY <2>2, <2>3
<1>7. CASE RW!GiveWriter(th)
  BY <1>a, <1>7, GiveWriterOutcome, KnownGive
<1>8. CASE RW!GiveReaders(th)
  <2>1. CASE pc'[th] = "resume"
    <3>1. RW!Waking(th)
      BY <1>8, GiveReadersOutcome DEF RW!Waking
    <3> QED BY <1>a, <2>1, <3>1, KnownGive
  <2>2. CASE pc'[th] # "resume"
    <3>1. /\ value' = value /\ local'[th].v = value /\ local'[th].target >= local[th].target
          /\ local'[th].target <= value.rwait /\ pc[th] = "give_readers"
          /\ value.wwait = 0 => local'[th].target = value.rwait
          /\ pc'[th] \in {"take_readers", "give_readers"}
      BY <1>8, <2>2, GiveReadersOutcome
    <3>2. \A o \in Threads \ {th} : KnownPart(o)'
      BY <1>a, <1>b, <3>1, KnownOthers
    <3>3. local[th].target > 0 /\ local[th].target \in Nat /\ local'[th].target \in Nat
      BY <1>a, <3>1, StepTypes DEF KnownPart, Batching, RW!TypeOK, RW!Locals
    <3>4. /\ local'[th].target > 0 /\ value'.rwait >= local'[th].target
          /\ local'[th].v.wwait = 0 => local'[th].target = local'[th].v.rwait
      BY <1>b, <3>1, <3>3
    <3>5. KnownPart(th)'
      BY <3>1, <3>4 DEF KnownPart, Batching
    <3> QED BY <3>2, <3>5
  <2> QED BY <2>1, <2>2
<1>9. CASE RW!Resume(th) \/ RW!Destroy(th)
  <2>1. value' = value /\ pc'[th] \in {"idle", "user", "resume"}
    BY <1>9, ResumeOutcome, DestroyOutcome
  <2> QED BY <1>1, <2>1
<1> QED BY <1>2, <1>3, <1>4, <1>5, <1>6, <1>7, <1>8, <1>9 DEF RW!Step

LEMMA HandStep ==
  ASSUME LockInv, NEW th \in Threads, RW!Step(th)
  PROVE  \A o \in Threads : HandPart(o)'
<1>a. /\ RW!TypeOK /\ Others(th) /\ HandPart(th) /\ KnownPart(th)
      /\ taken[th] \in Seq(Tasks) /\ local[th].target \in Nat
  BY StepTypes DEF LockInv, RW!TypeOK, RW!Locals
<1>b. \A o \in Threads \ {th} : HandPart(o)'
  BY <1>a DEF LockInv, Others, HandPart
<1> SUFFICES HandPart(th)'
  BY <1>b
<1>1. ASSUME taken'[th] = <<>>,
             pc'[th] \in {"idle", "user", "suspend", "add_waiter", "claim", "take_writer"}
      PROVE  HandPart(th)'
  BY <1>1 DEF HandPart
<1>2. CASE RW!Push(th) \/ RW!EndTask(th) \/ \E t \in Tasks : RW!Dispatch(th, t)
  <2>1. taken' = taken /\ pc'[th] \in {"idle", "user", "add_waiter"}
        /\ pc[th] \in {"suspend", "user", "idle"}
    BY <1>2, <1>a DEF RW!Push, RW!EndTask, RW!Dispatch, RW!TypeOK
  <2> QED BY <1>a, <1>1, <2>1 DEF HandPart
<1>3. ASSUME NEW k \in RW!Kinds, RW!Lock(th, k) \/ RW!TryLock(th, k) PROVE HandPart(th)'
  <2>1. pc'[th] \in {"user", "suspend"} /\ pc[th] = "user" /\ taken' = taken
    BY <1>3, <1>a DEF RW!Lock, RW!TryLock, RW!BeginRound, RW!TypeOK
  <2> QED BY <1>a, <1>1, <2>1 DEF HandPart
<1>4. CASE RW!AddWaiter(th) \/ RW!UnlockRead(th) \/ RW!UnlockWrite(th)
  <2>1. taken' = taken /\ taken[th] = <<>> /\ pc'[th] \in {"claim", "user", "idle"}
    BY <1>4, LooksOutcome
  <2> QED BY <1>1, <2>1
<1>5. CASE RW!Claim(th)
  <2>1. taken'[th] = <<>>
    BY <1>a, <1>5, ClaimOutcome DEF HandPart
  <2>2. CASE pc'[th] \in {"claim", "user", "idle", "take_writer"}
    BY <1>1, <2>1, <2>2
  <2>3. CASE pc'[th] = "take_readers"
    <3>1. Len(taken'[th]) < local'[th].target
      <4>1. local'[th].target = value.rwait /\ value.rwait > 0
        BY <1>5, <2>3, ClaimOutcome
      <4>2. Len(taken'[th]) = 0
        BY <2>1
      <4> QED BY <4>1, <4>2, <1>a, WordType DEF RW!TypeOK
    <3> QED BY <2>1, <2>3, <3>1 DEF HandPart
  <2> QED BY <1>5, <2>2, <2>3, ClaimOutcome
<1>6. CASE RW!TakeWriter(th)
  <2>1. pc[th] = "take_writer" /\ pc'[th] = "give_writer" /\ RW!MustTake1(th, "write")
    BY <1>6, <1>a DEF RW!TakeWriter, RW!TypeOK
  <2>2. Len(taken'[th]) = Len(taken[th]) + 1 /\ taken[th] = <<>> /\ taken'[th] # <<>>
    BY <1>a, <2>1, TakeOutcome DEF HandPart, RW!Kinds
  <2>3. Len(taken'[th]) = 1
    BY <2>2
  <2> QED BY <2>1, <2>3 DEF HandPart
<1>7. CASE RW!TakeReader(th)
  <2>1. /\ pc[th] = "take_readers" /\ RW!MustTake1(th, "read") /\ local' = local
        /\ pc'[th] = IF Len(taken'[th]) < local[th].target THEN "take_readers" ELSE "give_readers"
    BY <1>7, <1>a DEF RW!TakeReader, RW!TypeOK
  <2>2. Len(taken'[th]) = Len(taken[th]) + 1 /\ Len(taken[th]) \in Nat
    BY <2>1, TakeOutcome DEF RW!Kinds
  <2>3. Len(taken[th]) < local[th].target
    BY <1>a, <2>1 DEF HandPart
  <2>4. CASE Len(taken'[th]) < local[th].target
    BY <2>1, <2>4 DEF HandPart
  <2>5. CASE ~(Len(taken'[th]) < local[th].target)
    <3>1. Len(taken'[th]) = local'[th].target /\ pc'[th] = "give_readers"
      BY <1>a, <2>1, <2>2, <2>3, <2>5
    <3> QED BY <3>1 DEF HandPart
  <2> QED BY <2>4, <2>5
<1>8. CASE RW!GiveWriter(th)
  <2>1. pc'[th] = "resume" /\ taken' = taken /\ Len(taken[th]) = 1
    BY <1>8, GiveWriterOutcome
  <2>2. taken[th] # <<>>
    BY <2>1
  <2> QED BY <2>1, <2>2 DEF HandPart
<1>9. CASE RW!GiveReaders(th)
  <2>1. taken' = taken /\ pc[th] = "give_readers"
    BY <1>9, GiveReadersOutcome
  <2>2. CASE pc'[th] = "resume"
    <3>1. Len(taken[th]) > 0
      BY <1>a, <2>1 DEF HandPart, KnownPart, Batching
    <3>2. taken[th] # <<>>
      BY <3>1
    <3> QED BY <2>1, <2>2, <3>2 DEF HandPart
  <2>3. CASE pc'[th] # "resume"
    <3>1. \/ pc'[th] = "take_readers" /\ Len(taken'[th]) < local'[th].target
          \/ pc'[th] = "give_readers" /\ Len(taken'[th]) = local'[th].target
      BY <1>9, <2>1, <2>3, GiveReadersOutcome
    <3> QED BY <3>1 DEF HandPart
  <2> QED BY <2>2, <2>3
<1>10. CASE RW!Resume(th)
  <2>1. \/ taken'[th] # <<>> /\ pc'[th] = "resume"
        \/ taken'[th] = <<>> /\ pc'[th] \in {"user", "idle"}
    BY <1>10, ResumeOutcome
  <2> QED BY <1>1, <2>1 DEF HandPart
<1>11. CASE RW!Destroy(th)
  <2>1. \/ taken'[th] # <<>> /\ pc'[th] = "resume"
        \/ taken'[th] = <<>> /\ pc'[th] = "user"
    BY <1>11, DestroyOutcome
  <2> QED BY <1>1, <2>1 DEF HandPart
<1> QED BY <1>2, <1>3, <1>4, <1>5, <1>6, <1>7, <1>8, <1>9, <1>10, <1>11 DEF RW!Step

\* A step that counts nothing.
LEMMA CountKept ==
  ASSUME LockInv, NEW th \in Threads, Others(th), NEW k \in RW!Kinds, CountPart(k),
         lists'[k] = lists[k],
         IF k = "read" THEN value'.rwait = value.rwait ELSE value'.wwait = value.wwait,
         pc[th] # "add_waiter", pc'[th] # "add_waiter",
         InHand(k, th)' <=> InHand(k, th), InHand(k, th) => taken'[th] = taken[th]
  PROVE  CountPart(k)'
<1>1. \A o \in Threads \ {th} :
        pc'[o] = pc[o] /\ local'[o] = local[o] /\ taken'[o] = taken[o]
        /\ (InHand(k, o)' <=> InHand(k, o))
  BY DEF Others, InHand, Batching
<1>2. Adding(k)' = Adding(k)
  BY <1>1 DEF Adding
<1>3. Due(k)' = Due(k)
  BY <1>2 DEF Due
<1>4. \A o \in Threads : (InHand(k, o)' <=> InHand(k, o))
  BY <1>1
<1>5. \A o \in Threads : InHand(k, o) => taken'[o] = taken[o]
  BY <1>1
<1>6. ASSUME NEW o \in Threads, InHand(k, o)' PROVE Len(lists'[k]) + Len(taken'[o]) = Due(k)'
  <2>1. InHand(k, o) /\ taken'[o] = taken[o]
    BY <1>4, <1>5, <1>6
  <2>2. Len(lists[k]) + Len(taken[o]) = Due(k)
    BY <2>1 DEF CountPart
  <2> QED BY <1>3, <2>1, <2>2
<1>7. ASSUME \A o \in Threads : ~InHand(k, o)' PROVE Len(lists'[k]) = Due(k)'
  <2>1. Len(lists[k]) = Due(k)
    BY <1>4, <1>7 DEF CountPart
  <2> QED BY <1>3, <2>1
<1> QED BY <1>6, <1>7 DEF CountPart

LEMMA AddingFacts ==
  ASSUME NEW k
  PROVE  IsFiniteSet(Adding(k)) /\ Cardinality(Adding(k)) \in Nat
BY ThreadsAssumption, FS_Subset, FS_CardinalityType DEF Adding

\* Whoever has nodes of a list in hand has WAKING, and is alone with it.
LEMMA HandAlone ==
  ASSUME LockInv, NEW th \in Threads, RW!Waking(th), NEW k \in RW!Kinds
  PROVE  \A o \in Threads \ {th} : ~InHand(k, o)
BY DEF LockInv, OwnerPart, RW!Waking, InHand, Batching

\* One node more, or less.
LEMMA Sums ==
  ASSUME NEW a \in Nat, NEW b \in Nat
  PROVE  /\ (a + 1) + b = (a + b) + 1
         /\ (a - 1) + (b + 1) = (a + b) + 0
         /\ (a - 1) + (0 + 1) = a + 0
         /\ a = (a + b) + (0 - b)
OBVIOUS

\* The hand and the due of one kind after a step of th that changes one or the other.
LEMMA CountMoved ==
  ASSUME LockInv, NEW th \in Threads, Others(th), NEW k \in RW!Kinds, CountPart(k),
         RW!Waking(th), NEW d \in Int, Due(k)' = Due(k) + d,
         (IF InHand(k, th)' THEN Len(lists'[k]) + Len(taken'[th]) ELSE Len(lists'[k])) =
           (IF InHand(k, th) THEN Len(lists[k]) + Len(taken[th]) ELSE Len(lists[k])) + d
  PROVE  CountPart(k)'
<1>1. \A o \in Threads \ {th} : ~InHand(k, o)
  BY HandAlone
<1>2. \A o \in Threads \ {th} : ~InHand(k, o)'
  <2> SUFFICES ASSUME NEW o \in Threads \ {th} PROVE ~InHand(k, o)'
    OBVIOUS
  <2>1. ~InHand(k, o) /\ pc'[o] = pc[o]
    BY <1>1 DEF Others
  <2> QED BY <2>1 DEF InHand, Batching
<1>3. (IF InHand(k, th) THEN Len(lists[k]) + Len(taken[th]) ELSE Len(lists[k])) = Due(k)
  <2>1. CASE InHand(k, th)
    BY <2>1 DEF CountPart
  <2>2. CASE ~InHand(k, th)
    BY <1>1, <2>2 DEF CountPart
  <2> QED BY <2>1, <2>2
<1>4. (IF InHand(k, th)' THEN Len(lists'[k]) + Len(taken'[th]) ELSE Len(lists'[k])) = Due(k)'
  BY <1>3
<1>5. CASE InHand(k, th)'
  BY <1>2, <1>4, <1>5 DEF CountPart
<1>6. CASE ~InHand(k, th)'
  BY <1>2, <1>4, <1>6 DEF CountPart
<1> QED BY <1>5, <1>6

\* The due changes with the word when th is not adding itself.
LEMMA DueMoved ==
  ASSUME LockInv, NEW th \in Threads, Others(th), NEW k \in RW!Kinds,
         pc[th] # "add_waiter", pc'[th] # "add_waiter", NEW d \in Int,
         IF k = "read" THEN value'.rwait = value.rwait + d ELSE value'.wwait = value.wwait + d
  PROVE  Due(k)' = Due(k) + d
<1>1. Adding(k)' = Adding(k)
  BY DEF Adding, Others
<1>2. Cardinality(Adding(k)) \in Nat /\ value.rwait \in Nat /\ value.wwait \in Nat
  BY AddingFacts, WordType DEF LockInv, RW!TypeOK
<1> QED BY <1>1, <1>2 DEF Due

LEMMA CountPush ==
  ASSUME LockInv, NEW th \in Threads, RW!Push(th), NEW k \in RW!Kinds, CountPart(k)
  PROVE  CountPart(k)'
<1>a. /\ RW!TypeOK /\ Others(th) /\ pc[th] = "suspend" /\ pc'[th] = "add_waiter"
      /\ self[th] \in Tasks /\ local' = local /\ taken' = taken /\ value' = value
      /\ local[th].kind \in RW!Kinds /\ lists \in [RW!Kinds -> Seq(Tasks)]
  BY TaskTypes DEF RW!Push, LockInv, SelfPart, RW!TypeOK, RW!Locals
<1>1. \A o \in Threads : InHand(k, o)' <=> InHand(k, o)
  BY <1>a DEF InHand, Batching, Others
<1>2. CASE local[th].kind = k
  <2>1. Adding(k)' = Adding(k) \cup {th} /\ th \notin Adding(k)
    BY <1>a, <1>2 DEF Adding, Others
  <2>2. Cardinality(Adding(k)') = Cardinality(Adding(k)) + 1
    BY <2>1, AddingFacts, FS_AddElement
  <2>3. Due(k)' = Due(k) + 1 /\ Due(k) \in Nat
    <3> DEFINE m == IF k = "read" THEN value.rwait ELSE value.wwait
    <3>1. m \in Nat /\ Cardinality(Adding(k)) \in Nat
      BY <1>a, AddingFacts, WordType DEF RW!TypeOK
    <3>2. Due(k) = Cardinality(Adding(k)) + m /\ Due(k)' = Cardinality(Adding(k)') + m
      BY <1>a DEF Due
    <3> HIDE DEF m
    <3> QED BY <2>2, <3>1, <3>2
  <2>4. lists'[k] = Append(lists[k], self[th]) /\ lists[k] \in Seq(Tasks)
    BY <1>a, <1>2 DEF RW!Push
  <2>5. Len(lists'[k]) = Len(lists[k]) + 1 /\ Len(lists[k]) \in Nat
    BY <1>a, <2>4
  <2>6. ASSUME NEW o \in Threads, InHand(k, o)' PROVE Len(lists'[k]) + Len(taken'[o]) = Due(k)'
    <3>1. Len(lists[k]) + Len(taken[o]) = Due(k) /\ Len(taken[o]) \in Nat
      BY <1>a, <1>1, <2>6 DEF CountPart, RW!TypeOK
    <3>2. taken'[o] = taken[o]
      BY <1>a
    <3>3. (Len(lists[k]) + 1) + Len(taken[o]) = (Len(lists[k]) + Len(taken[o])) + 1
      BY <2>5, <3>1, Sums
    <3> QED BY <2>3, <2>5, <3>1, <3>2, <3>3
  <2>7. ASSUME \A o \in Threads : ~InHand(k, o)' PROVE Len(lists'[k]) = Due(k)'
    <3>1. Len(lists[k]) = Due(k)
      BY <1>1, <2>7 DEF CountPart
    <3> QED BY <2>3, <2>5, <3>1
  <2> QED BY <2>6, <2>7 DEF CountPart
<1>3. CASE local[th].kind # k
  <2>1. Adding(k)' = Adding(k)
    BY <1>a, <1>3 DEF Adding, Others
  <2>2. Due(k)' = Due(k) /\ lists'[k] = lists[k]
    BY <1>a, <1>3, <2>1 DEF Due, RW!Push
  <2> QED BY <1>a, <1>1, <2>2 DEF CountPart
<1> QED BY <1>2, <1>3

LEMMA CountAdd ==
  ASSUME LockInv, NEW th \in Threads, RW!AddWaiter(th), NEW k \in RW!Kinds, CountPart(k)
  PROVE  CountPart(k)'
<1>a. /\ RW!TypeOK /\ Others(th) /\ pc[th] = "add_waiter" /\ value \in RW!Words
      /\ pc'[th] \in {"claim", "user", "idle"} /\ UNCHANGED <<lists, taken>>
      /\ local[th].kind \in RW!Kinds /\ RW!Kinds = {"read", "write"}
  BY AddTypes, LooksOutcome DEF RW!AddWaiter, LockInv, RW!TypeOK, RW!Locals, RW!Kinds
<1>1. \A o \in Threads : InHand(k, o)' <=> InHand(k, o)
  BY <1>a DEF InHand, Batching, Others
<1>2. /\ value'.rwait = value.rwait + (IF local[th].kind = "read" THEN 1 ELSE 0)
      /\ value'.wwait = value.wwait + (IF local[th].kind = "read" THEN 0 ELSE 1)
  <2>1. CASE local[th].kind = "read"
    <3>1. value' = [value EXCEPT !.rwait = @ + 1]
      BY <2>1 DEF RW!AddWaiter
    <3>2. value'.rwait = value.rwait + 1 /\ value'.wwait = value.wwait
      BY <1>a, <3>1 DEF RW!Words
    <3> QED BY <1>a, <2>1, <3>2, WordType
  <2>2. CASE local[th].kind # "read"
    <3>1. value' = [value EXCEPT !.wwait = @ + 1]
      BY <2>2 DEF RW!AddWaiter
    <3>2. value'.wwait = value.wwait + 1 /\ value'.rwait = value.rwait
      BY <1>a, <3>1 DEF RW!Words
    <3> QED BY <1>a, <2>2, <3>2, WordType
  <2> QED BY <2>1, <2>2
<1>3. Due(k)' = Due(k)
  <2>1. CASE local[th].kind = k
    <3>1. Adding(k)' = Adding(k) \ {th} /\ th \in Adding(k)
      BY <1>a, <2>1 DEF Adding, Others
    <3>2. Cardinality(Adding(k)') = Cardinality(Adding(k)) - 1
      BY <3>1, AddingFacts, FS_RemoveElement
    <3>3. CASE k = "read"
      BY <1>a, <1>2, <2>1, <3>2, <3>3, AddingFacts, WordType DEF Due
    <3>4. CASE k = "write"
      BY <1>a, <1>2, <2>1, <3>2, <3>4, AddingFacts, WordType DEF Due
    <3> QED BY <1>a, <3>3, <3>4
  <2>2. CASE local[th].kind # k
    <3>1. Adding(k)' = Adding(k)
      BY <1>a, <2>2 DEF Adding, Others
    <3>2. CASE k = "read"
      BY <1>a, <1>2, <2>2, <3>1, <3>2, WordType DEF Due
    <3>3. CASE k = "write"
      BY <1>a, <1>2, <2>2, <3>1, <3>3, WordType DEF Due
    <3> QED BY <1>a, <3>2, <3>3
  <2> QED BY <2>1, <2>2
<1> QED BY <1>a, <1>1, <1>3 DEF CountPart

LEMMA CountClaim ==
  ASSUME LockInv, NEW th \in Threads, RW!Claim(th), NEW k \in RW!Kinds, CountPart(k)
  PROVE  CountPart(k)'
<1>a. /\ RW!TypeOK /\ Others(th) /\ pc[th] = "claim" /\ UNCHANGED <<lists, taken>>
      /\ value \in RW!Words /\ taken[th] = <<>>
      /\ pc'[th] \in {"claim", "user", "idle", "take_writer", "take_readers"}
      /\ value' = value \/ value' = [value EXCEPT !.waking = TRUE]
  BY ClaimOutcome DEF LockInv, RW!TypeOK, HandPart
<1>1. value'.rwait = value.rwait /\ value'.wwait = value.wwait
  BY <1>a DEF RW!Words
<1>2. CASE ~InHand(k, th)'
  <2>1. ~InHand(k, th)
    BY <1>a DEF InHand, Batching
  <2> QED BY <1>a, <1>1, <1>2, <2>1, CountKept
<1>3. CASE InHand(k, th)'
  <2>1. pc'[th] = "take_readers" /\ k = "read"
    BY <1>a, <1>3 DEF InHand, Batching
  <2>2. RW!CanWake(value)
    BY <2>1, ClaimOutcome
  <2>3. \A o \in Threads : ~RW!Waking(o)
    BY <2>2 DEF RW!CanWake, LockInv, OwnerPart
  <2>4. \A o \in Threads : ~InHand(k, o)
    BY <2>1, <2>3 DEF RW!Waking, InHand, Batching
  <2>5. Len(lists[k]) = Due(k) /\ Len(lists[k]) \in Nat
    BY <1>a, <2>4 DEF CountPart, RW!TypeOK
  <2>6. Due(k)' = Due(k)
    <3>1. Adding(k)' = Adding(k)
      BY <1>a, <2>1 DEF Adding, Others
    <3> QED BY <1>1, <3>1 DEF Due
  <2>7. \A o \in Threads : InHand(k, o)' <=> o = th
    BY <1>a, <1>3, <2>4 DEF Others, InHand, Batching
  <2>8. Len(taken'[th]) = 0
    BY <1>a
  <2> QED BY <1>a, <2>5, <2>6, <2>7, <2>8 DEF CountPart
<1> QED BY <1>2, <1>3

LEMMA CountTake ==
  ASSUME LockInv, NEW th \in Threads, RW!TakeWriter(th) \/ RW!TakeReader(th),
         NEW k \in RW!Kinds, CountPart(k)
  PROVE  CountPart(k)'
<1>1. PICK j \in RW!Kinds :
        /\ RW!MustTake1(th, j)
        /\ \/ j = "write" /\ pc[th] = "take_writer" /\ pc'[th] = "give_writer"
           \/ j = "read" /\ pc[th] = "take_readers" /\ pc'[th] \in {"take_readers", "give_readers"}
  BY DEF RW!TakeWriter, RW!TakeReader, RW!Kinds, LockInv, RW!TypeOK
<1>2. /\ RW!TypeOK /\ Others(th) /\ value' = value /\ RW!Waking(th) /\ HandPart(th)
      /\ value.rwait \in Nat /\ value.wwait \in Nat /\ RW!Kinds = {"read", "write"}
  BY <1>1, TakeTypes, WordType
     DEF LockInv, RW!TakeWriter, RW!TakeReader, RW!Waking, RW!TypeOK, RW!Kinds
<1>3. CASE k # j
  <2>1. lists'[k] = lists[k]
    BY <1>1, <1>3, TakeOutcome
  <2>2. ~InHand(k, th) /\ ~InHand(k, th)'
    BY <1>1, <1>2, <1>3 DEF InHand, Batching
  <2> QED BY <1>1, <1>2, <2>1, <2>2, CountKept
<1>4. CASE k = j
  <2>1. /\ Len(lists'[k]) = Len(lists[k]) - 1 /\ Len(lists[k]) \in Nat
        /\ Len(taken'[th]) = Len(taken[th]) + 1 /\ Len(taken[th]) \in Nat
    BY <1>1, <1>4, TakeOutcome
  <2>2. InHand(k, th)'
    BY <1>1, <1>4 DEF InHand, Batching
  <2>3. InHand(k, th) \/ Len(taken[th]) = 0
    BY <1>1, <1>2, <1>4 DEF InHand, Batching, HandPart
  <2>4. Due(k)' = Due(k) + 0
    BY <1>1, <1>2, DueMoved
  <2>5. (IF InHand(k, th)' THEN Len(lists'[k]) + Len(taken'[th]) ELSE Len(lists'[k])) =
          (IF InHand(k, th) THEN Len(lists[k]) + Len(taken[th]) ELSE Len(lists[k])) + 0
    <3>1. CASE InHand(k, th)
      <4>1. (Len(lists[k]) - 1) + (Len(taken[th]) + 1) = (Len(lists[k]) + Len(taken[th])) + 0
        BY <2>1, Sums
      <4> QED BY <2>1, <2>2, <3>1, <4>1
    <3>2. CASE ~InHand(k, th)
      <4>1. (Len(lists[k]) - 1) + (0 + 1) = Len(lists[k]) + 0
        BY <2>1, Sums
      <4> QED BY <2>1, <2>2, <2>3, <3>2, <4>1
    <3> QED BY <3>1, <3>2
  <2>6. 0 \in Int
    OBVIOUS
  <2> QED BY <1>2, <2>4, <2>5, <2>6, CountMoved
<1> QED BY <1>3, <1>4

LEMMA CountGive ==
  ASSUME LockInv, NEW th \in Threads, RW!GiveWriter(th) \/ RW!GiveReaders(th),
         NEW k \in RW!Kinds, CountPart(k)
  PROVE  CountPart(k)'
<1>a. /\ RW!TypeOK /\ Others(th) /\ RW!Waking(th) /\ UNCHANGED <<lists, taken>>
      /\ value.rwait \in Nat /\ value.wwait \in Nat /\ RW!Kinds = {"read", "write"}
      /\ Len(taken[th]) \in Nat /\ Len(lists[k]) \in Nat
  <2>1. RW!TypeOK /\ Others(th)
    BY GiveWriterOutcome, GiveReadersOutcome DEF LockInv
  <2>2. RW!Waking(th) /\ UNCHANGED <<lists, taken>>
    BY DEF RW!GiveWriter, RW!GiveReaders, RW!Waking
  <2>3. value \in RW!Words /\ taken[th] \in Seq(Tasks) /\ lists[k] \in Seq(Tasks)
    BY <2>1 DEF RW!TypeOK
  <2>4. RW!Kinds = {"read", "write"}
    BY DEF RW!Kinds
  <2> QED BY <2>1, <2>2, <2>3, <2>4, WordType
<1>1. ASSUME UNCHANGED <<value, holds>>, RW!GiveReaders(th) PROVE CountPart(k)'
  <2>1. pc[th] = "give_readers" /\ pc'[th] \in {"take_readers", "give_readers", "resume"}
    BY <1>1, GiveReadersOutcome
  <2>2. CASE pc'[th] # "resume"
    <3>1. InHand(k, th)' <=> InHand(k, th)
      BY <2>1, <2>2 DEF InHand, Batching
    <3> QED BY <1>a, <1>1, <2>1, <3>1, CountKept
  <2>3. CASE pc'[th] = "resume"
    <3>1. value'.waking = FALSE
      BY <1>1, <2>3, GiveReadersOutcome
    <3> QED BY <1>a, <1>1, <3>1 DEF LockInv, OwnerPart
  <2> QED BY <2>2, <2>3
<1>2. PICK j \in RW!Kinds :
        \/ j = "write" /\ RW!GiveWriter(th)
        \/ j = "read" /\ RW!GiveReaders(th)
  BY <1>a
<1>3. CASE ~(RW!GiveReaders(th) /\ UNCHANGED <<value, holds>>)
  <2>1. /\ pc[th] # "add_waiter" /\ pc'[th] = "resume"
        /\ \A i \in RW!Kinds : InHand(i, th) <=> i = j
        /\ IF j = "read" THEN value'.rwait = value.rwait - Len(taken[th]) /\ value'.wwait = value.wwait
           ELSE value'.wwait = value.wwait - Len(taken[th]) /\ value'.rwait = value.rwait
    <3>1. CASE j = "write"
      <4>1. /\ value'.wwait = value.wwait - 1 /\ Len(taken[th]) = 1 /\ value'.rwait = value.rwait
            /\ pc[th] = "give_writer" /\ pc'[th] = "resume"
        BY <1>2, <3>1, GiveWriterOutcome DEF RW!GiveWriter
      <4> QED BY <1>a, <3>1, <4>1 DEF InHand, Batching
    <3>2. CASE j = "read"
      <4>1. /\ value'.wwait = value.wwait /\ value'.rwait = value.rwait - Len(taken[th])
            /\ pc[th] = "give_readers" /\ pc'[th] = "resume"
        BY <1>2, <1>3, <3>2, GiveReadersOutcome
      <4> QED BY <1>a, <3>2, <4>1 DEF InHand, Batching
    <3> QED BY <1>a, <3>1, <3>2
  <2>2. \A i \in RW!Kinds : ~InHand(i, th)'
    BY <1>a, <2>1 DEF InHand, Batching
  <2>3. CASE k # j
    <3>1. IF k = "read" THEN value'.rwait = value.rwait ELSE value'.wwait = value.wwait
      BY <1>a, <2>1, <2>3
    <3> QED BY <1>a, <2>1, <2>2, <2>3, <3>1, CountKept
  <2>4. CASE k = j
    <3>1. PICK d \in Int : d = 0 - Len(taken[th])
      BY <1>a
    <3>2. IF k = "read" THEN value'.rwait = value.rwait + d ELSE value'.wwait = value.wwait + d
      BY <1>a, <2>1, <2>4, <3>1
    <3>3. Due(k)' = Due(k) + d
      BY <1>a, <2>1, <3>2, DueMoved
    <3>4. (IF InHand(k, th)' THEN Len(lists'[k]) + Len(taken'[th]) ELSE Len(lists'[k])) =
            (IF InHand(k, th) THEN Len(lists[k]) + Len(taken[th]) ELSE Len(lists[k])) + d
      <4>1. InHand(k, th) /\ ~InHand(k, th)' /\ lists' = lists
        BY <1>a, <2>1, <2>2, <2>4
      <4>2. Len(lists[k]) = Len(lists[k]) + Len(taken[th]) + d
        BY <1>a, <3>1, Sums
      <4> QED BY <4>1, <4>2
    <3> QED BY <1>a, <3>3, <3>4, CountMoved
  <2> QED BY <2>3, <2>4
<1> QED BY <1>1, <1>2, <1>3

LEMMA CountStep ==
  ASSUME LockInv, NEW th \in Threads, RW!Step(th), NEW k \in RW!Kinds, CountPart(k), alive'
  PROVE  CountPart(k)'
<1>a. RW!TypeOK /\ Others(th) /\ value \in RW!Words
  BY StepTypes DEF LockInv, RW!TypeOK
<1>1. CASE RW!EndTask(th) \/ \E t \in Tasks : RW!Dispatch(th, t)
  <2>1. value' = value /\ lists' = lists /\ pc'[th] \in {"idle", "user"} /\ pc[th] \in {"user", "idle"}
    BY <1>1, <1>a DEF RW!EndTask, RW!Dispatch, RW!shared, RW!TypeOK
  <2> QED BY <1>a, <2>1, CountKept DEF InHand, Batching
<1>2. ASSUME NEW j \in RW!Kinds, RW!Lock(th, j) \/ RW!TryLock(th, j) PROVE CountPart(k)'
  <2>1. pc[th] = "user" /\ pc'[th] \in {"user", "suspend"} /\ lists' = lists
    BY <1>2, <1>a DEF RW!Lock, RW!TryLock, RW!BeginRound, RW!TypeOK
  <2>2. \/ value' = value
        \/ value' = [value EXCEPT !.readers = @ + 1]
        \/ value' = [value EXCEPT !.writer = TRUE]
    BY <1>2 DEF RW!Lock, RW!TryLock, RW!TakeLock
  <2>3. value'.rwait = value.rwait /\ value'.wwait = value.wwait
    BY <1>a, <2>2 DEF RW!Words
  <2> QED BY <1>a, <2>1, <2>3, CountKept DEF InHand, Batching
<1>3. CASE RW!UnlockRead(th) \/ RW!UnlockWrite(th)
  <2>1. pc[th] = "user" /\ pc'[th] \in {"claim", "user", "idle"} /\ lists' = lists
    BY <1>3, LooksOutcome DEF RW!UnlockRead, RW!UnlockWrite
  <2>2. value'.rwait = value.rwait /\ value'.wwait = value.wwait
    BY <1>3, <1>a DEF RW!UnlockRead, RW!UnlockWrite, RW!Words
  <2> QED BY <1>a, <2>1, <2>2, CountKept DEF InHand, Batching
<1>4. CASE RW!Resume(th)
  <2>1. pc[th] = "resume" /\ pc'[th] \in {"resume", "user", "idle"} /\ UNCHANGED <<value, lists>>
    BY <1>4, ResumeOutcome
  <2> QED BY <1>a, <2>1, CountKept DEF InHand, Batching
<1>5. CASE RW!Destroy(th)
  BY <1>5, DestroyOutcome
<1> QED BY <1>1, <1>2, <1>3, <1>4, <1>5, CountPush, CountAdd, CountClaim, CountTake, CountGive
           DEF RW!Step

-----------------------------------------------------------------------------
(* Nobody is left asleep. *)

LEMMA LookKept ==
  ASSUME LockInv, alive, NEW th \in Threads, Others(th), pc[th] # "claim" \/ pc'[th] = "claim",
         RW!CanWake(value') => RW!CanWake(value)
  PROVE  LookPart'
<1> SUFFICES ASSUME RW!CanWake(value') PROVE \E o \in Threads : pc'[o] = "claim"
  BY DEF LookPart
<1>1. PICK o \in Threads : pc[o] = "claim"
  BY DEF LockInv, LookPart
<1> QED BY <1>1 DEF Others

\* The hand-over to readers leaves nobody to wake: a writer waits for them, or they were
\* all the readers that the word counted.
LEMMA ReadersGivenAll ==
  ASSUME LockInv, NEW th \in Threads, RW!GiveReaders(th), pc'[th] = "resume"
  PROVE  ~RW!CanWake(value')
<1>1. /\ value = local[th].v /\ pc[th] = "give_readers" /\ value \in RW!Words
      /\ value'.readers = value.readers + Len(taken[th])
      /\ value'.rwait = value.rwait - Len(taken[th]) /\ value'.wwait = value.wwait
  BY GiveReadersOutcome DEF LockInv, RW!TypeOK
<1>2. /\ Len(taken[th]) = local[th].target /\ local[th].target > 0 /\ local[th].target \in Nat
      /\ local[th].v.wwait = 0 => local[th].target = local[th].v.rwait
  BY <1>1 DEF LockInv, HandPart, KnownPart, Batching, RW!TypeOK, RW!Locals
<1>3. value'.readers > 0
  BY <1>1, <1>2, WordType
<1>4. value'.wwait = 0 => value'.rwait = 0
  BY <1>1, <1>2, WordType
<1> QED BY <1>3, <1>4 DEF RW!CanWake

LEMMA LookStep ==
  ASSUME LockInv, NEW th \in Threads, RW!Step(th), alive'
  PROVE  LookPart'
<1>a. RW!TypeOK /\ Others(th) /\ value \in RW!Words
  BY StepTypes DEF LockInv, RW!TypeOK
<1>1. CASE RW!Push(th) \/ RW!EndTask(th) \/ \E t \in Tasks : RW!Dispatch(th, t)
  <2>1. value' = value /\ pc[th] # "claim" /\ alive
    BY <1>1 DEF RW!Push, RW!EndTask, RW!Dispatch, RW!shared
  <2> QED BY <1>a, <2>1, LookKept
<1>2. ASSUME NEW k \in RW!Kinds, RW!Lock(th, k) \/ RW!TryLock(th, k) PROVE LookPart'
  <2>1. pc[th] = "user" /\ alive
    BY <1>2 DEF RW!Lock, RW!TryLock, RW!BeginRound
  <2>2. \/ value' = value
        \/ value' = [value EXCEPT !.readers = @ + 1] /\ value.wwait = 0
        \/ value' = [value EXCEPT !.writer = TRUE]
    BY <1>2 DEF RW!Lock, RW!TryLock, RW!TakeLock, RW!CanLock
  <2>3. RW!CanWake(value') => RW!CanWake(value)
    BY <1>a, <2>2 DEF RW!Words, RW!CanWake
  <2> QED BY <1>a, <2>1, <2>3, LookKept
<1>3. CASE RW!AddWaiter(th) \/ RW!UnlockRead(th) \/ RW!UnlockWrite(th)
  BY <1>3, LooksOutcome DEF LookPart
<1>4. CASE RW!Claim(th)
  <2>1. CASE value' = [value EXCEPT !.waking = TRUE]
    BY <1>a, <2>1 DEF LookPart, RW!CanWake, RW!Words
  <2>2. CASE value' # [value EXCEPT !.waking = TRUE]
    <3>1. value' = value /\ (RW!CanWake(value) => pc'[th] = "claim")
      BY <1>4, <2>2, ClaimOutcome
    <3> QED BY <3>1 DEF LookPart
  <2> QED BY <2>1, <2>2
<1>5. CASE RW!TakeWriter(th) \/ RW!TakeReader(th)
  <2>1. value' = value /\ pc[th] # "claim" /\ alive
    BY <1>5 DEF RW!TakeWriter, RW!TakeReader
  <2> QED BY <1>a, <2>1, LookKept
<1>6. CASE RW!GiveWriter(th)
  BY <1>6, GiveWriterOutcome DEF LookPart, RW!CanWake
<1>7. CASE RW!GiveReaders(th)
  <2>1. CASE pc'[th] = "resume"
    BY <1>7, <2>1, ReadersGivenAll DEF LookPart
  <2>2. CASE pc'[th] # "resume"
    <3>1. value' = value /\ pc[th] = "give_readers" /\ alive
      BY <1>7, <2>2, GiveReadersOutcome
    <3> QED BY <1>a, <3>1, LookKept
  <2> QED BY <2>1, <2>2
<1>8. CASE RW!Resume(th)
  <2>1. value' = value /\ pc[th] = "resume" /\ alive
    BY <1>8, ResumeOutcome
  <2> QED BY <1>a, <2>1, LookKept
<1>9. CASE RW!Destroy(th)
  BY <1>9, DestroyOutcome
<1> QED BY <1>1, <1>2, <1>3, <1>4, <1>5, <1>6, <1>7, <1>8, <1>9 DEF RW!Step

\* After the destructor nobody calls the lock, and only its caller still resumes.
LEMMA DeadStep ==
  ASSUME LockInv, NEW th \in Threads, RW!Step(th), ~alive'
  PROVE  \A o \in Threads : pc'[o] \in {"idle", "user", "resume"}
<1>a. RW!TypeOK /\ Others(th)
  BY StepTypes DEF LockInv
<1>1. CASE RW!Destroy(th)
  BY <1>1, <1>a, DestroyOutcome DEF Others
<1>2. CASE ~RW!Destroy(th)
  <2>1. alive' = alive
    <3>1. CASE RW!Resume(th) \/ RW!GiveReaders(th) \/ RW!GiveWriter(th) \/ RW!Claim(th)
      BY <3>1, ResumeOutcome, GiveReadersOutcome, GiveWriterOutcome, ClaimOutcome
    <3>2. CASE RW!AddWaiter(th) \/ RW!UnlockRead(th) \/ RW!UnlockWrite(th)
      BY <3>2, LooksOutcome
    <3> QED BY <1>2, <3>1, <3>2 DEF RW!Step, RW!Dispatch, RW!EndTask, RW!Lock, RW!TryLock,
               RW!Push, RW!TakeWriter, RW!TakeReader, RW!shared
  <2>2. \A o \in Threads : pc[o] \in {"idle", "user", "resume"}
    BY <2>1 DEF LockInv
  <2>3. \/ RW!Resume(th) \/ RW!EndTask(th)
        \/ \E t \in Tasks : RW!Dispatch(th, t)
    BY <1>2, <2>1, <2>2 DEF RW!Step, RW!Lock, RW!TryLock, RW!BeginRound, RW!UnlockRead,
       RW!UnlockWrite, RW!Push, RW!AddWaiter, RW!Claim, RW!TakeWriter, RW!GiveWriter,
       RW!TakeReader, RW!GiveReaders
  <2>4. pc'[th] \in {"idle", "user", "resume"}
    <3>1. CASE RW!Resume(th)
      BY <3>1, ResumeOutcome
    <3>2. CASE RW!EndTask(th) \/ \E t \in Tasks : RW!Dispatch(th, t)
      BY <3>2, <1>a DEF RW!EndTask, RW!Dispatch, RW!TypeOK
    <3> QED BY <2>3, <3>1, <3>2
  <2> QED BY <1>a, <2>2, <2>4 DEF Others
<1> QED BY <1>1, <1>2

-----------------------------------------------------------------------------
(* The invariant of the rw_lock. *)

LEMMA LockInvInit == ASSUME RW!Init PROVE LockInv
<1>a. /\ value = RW!Unlocked /\ alive
      /\ lists = [k \in RW!Kinds |-> <<>>] /\ tstate = [t \in Tasks |-> "ready"]
      /\ holds = [t \in Tasks |-> "none"] /\ rounds = [t \in Tasks |-> 0]
      /\ pc = [th \in Threads |-> "idle"] /\ self = [th \in Threads |-> NoTask]
      /\ local = [th \in Threads |-> RW!NoCall] /\ taken = [th \in Threads |-> <<>>]
  BY DEF RW!Init
<1>b. /\ value \in RW!Words /\ ~value.waking /\ ~value.writer
      /\ value.readers = 0 /\ value.rwait = 0 /\ value.wwait = 0
  BY <1>a DEF RW!Unlocked, RW!Words
<1>c. RW!NoCall \in RW!Locals /\ RW!Kinds = {"read", "write"}
  BY DEF RW!NoCall, RW!Locals, RW!Kinds, RW!Words, RW!Unlocked
<1>1. RW!TypeOK
  BY <1>a, <1>b, <1>c, CountsAssumption DEF RW!TypeOK, RW!Steps
<1>2. ListsPart /\ TakenPart /\ SelfPart
  BY <1>a, <1>c, NoNodes, NoTaskAssumption DEF ListsPart, TakenPart, SelfPart
<1>3. HoldPart
  <2>1. Readers = {}
    BY <1>a DEF Readers
  <2> QED BY <1>a, <1>b, <2>1, FS_EmptySet DEF HoldPart
<1>4. OwnerPart /\ LookPart /\ \A th \in Threads : KnownPart(th) /\ HandPart(th)
  BY <1>a, <1>b DEF OwnerPart, LookPart, RW!CanWake, RW!Waking, KnownPart, HandPart, Batching
<1>5. ASSUME NEW k \in RW!Kinds PROVE CountPart(k)
  <2>1. Adding(k) = {} /\ Cardinality({}) = 0
    BY <1>a, FS_EmptySet DEF Adding
  <2>2. Due(k) = 0 /\ Len(lists[k]) = 0
    BY <1>a, <1>b, <1>5, <2>1 DEF Due
  <2>3. \A th \in Threads : ~InHand(k, th)
    BY <1>a DEF InHand, Batching
  <2> QED BY <2>2, <2>3 DEF CountPart
<1> QED BY <1>a, <1>1, <1>2, <1>3, <1>4, <1>5 DEF LockInv

LEMMA LockInvStep == ASSUME LockInv, NEW th \in Threads, RW!Step(th) PROVE LockInv'
<1>1. RW!TypeOK' /\ ListsPart' /\ TakenPart' /\ SelfPart' /\ HoldPart' /\ OwnerPart'
  BY StepTypes, PlacesStep, SelfStep, HoldStep, OwnerStep
<1>2. \A o \in Threads : KnownPart(o)' /\ HandPart(o)'
  BY KnownStep, HandStep
<1>3. ASSUME alive' PROVE LookPart' /\ \A k \in RW!Kinds : CountPart(k)'
  <2>1. alive
    <3>1. CASE RW!Destroy(th)
      BY <1>3, <3>1, DestroyOutcome
    <3>2. CASE RW!Resume(th) \/ RW!GiveReaders(th) \/ RW!GiveWriter(th) \/ RW!Claim(th)
      BY <1>3, <3>2, ResumeOutcome, GiveReadersOutcome, GiveWriterOutcome, ClaimOutcome
    <3>3. CASE RW!AddWaiter(th) \/ RW!UnlockRead(th) \/ RW!UnlockWrite(th)
      BY <1>3, <3>3, LooksOutcome
    <3> QED BY <1>3, <3>1, <3>2, <3>3 DEF RW!Step, RW!Dispatch, RW!EndTask, RW!Lock,
               RW!TryLock, RW!Push, RW!TakeWriter, RW!TakeReader, RW!shared
  <2>2. \A k \in RW!Kinds : CountPart(k)
    BY <2>1 DEF LockInv
  <2>3. \A k \in RW!Kinds : CountPart(k)'
    BY <1>3, <2>2, CountStep
  <2> QED BY <1>3, <2>3, LookStep
<1>4. ASSUME ~alive' PROVE \A o \in Threads : pc'[o] \in {"idle", "user", "resume"}
  BY <1>4, DeadStep
<1> QED BY <1>1, <1>2, <1>3, <1>4 DEF LockInv

LEMMA LockInvStutter ==
  ASSUME LockInv,
         UNCHANGED <<value, lists, alive, tstate, holds, rounds, pc, self, local, taken>>
  PROVE  LockInv'
<1>1. RW!TypeOK' /\ ListsPart' /\ TakenPart' /\ SelfPart'
  BY DEF LockInv, RW!TypeOK, ListsPart, TakenPart, SelfPart
<1>2. HoldPart' /\ OwnerPart'
  BY DEF LockInv, HoldPart, Readers, OwnerPart, RW!Waking
<1>3. \A o \in Threads : KnownPart(o)' /\ HandPart(o)'
  BY DEF LockInv, KnownPart, HandPart, Batching
<1>4. LookPart' <=> LookPart
  BY DEF LookPart
<1>5. ASSUME NEW k \in RW!Kinds PROVE CountPart(k)' <=> CountPart(k)
  <2>1. Adding(k)' = Adding(k) /\ \A o \in Threads : InHand(k, o)' <=> InHand(k, o)
    BY DEF Adding, InHand, Batching
  <2>2. Due(k)' = Due(k)
    BY <2>1 DEF Due
  <2> QED BY <2>1, <2>2 DEF CountPart
<1> QED BY <1>1, <1>2, <1>3, <1>4, <1>5 DEF LockInv
-----------------------------------------------------------------------------
(* What the invariant says. *)

LEMMA LockReadersXorWriter == ASSUME LockInv PROVE RW!ReadersXorWriter
<1>1. \A S : RW!Cardinality(S) = Cardinality(S)
  BY DEF RW!Cardinality, Cardinality
<1> QED BY <1>1 DEF LockInv, HoldPart, Readers, RW!ReadersXorWriter

LEMMA LockWakingIsExclusive == ASSUME LockInv PROVE RW!WakingIsExclusive
<1>1. /\ \A th \in Threads : pc[th] # "clear"
      /\ \A a, b \in Threads : RW!Waking(a) /\ RW!Waking(b) => a = b
      /\ \A th \in Threads : RW!Waking(th) => value.waking /\ ~value.writer
      /\ \A th \in Threads : pc[th] = "give_writer" => value.readers = 0 /\ value.wwait > 0
  BY DEF LockInv, OwnerPart, KnownPart
<1>2. ASSUME NEW th \in Threads, pc[th] = "give_readers" PROVE value.rwait >= Len(taken[th])
  BY <1>2 DEF LockInv, KnownPart, HandPart, Batching
<1>3. ASSUME NEW th \in Threads, pc[th] = "take_readers"
      PROVE  Len(lists["read"]) + Len(taken[th]) >= local[th].target
  <2>1. alive /\ InHand("read", th) /\ "read" \in RW!Kinds
    BY <1>3 DEF LockInv, InHand, Batching, RW!Kinds
  <2>2. Len(lists["read"]) + Len(taken[th]) = Due("read")
    BY <2>1 DEF LockInv, CountPart
  <2>3. Due("read") = Cardinality(Adding("read")) + value.rwait
    BY DEF Due
  <2>4. Cardinality(Adding("read")) \in Nat /\ value.rwait \in Nat /\ local[th].target \in Nat
    BY AddingFacts, WordType DEF LockInv, RW!TypeOK, RW!Locals
  <2>5. value.rwait >= local[th].target
    BY <1>3 DEF LockInv, KnownPart, Batching
  <2>6. Due("read") >= local[th].target
    BY <2>3, <2>4, <2>5
  <2> QED BY <2>2, <2>6
<1> QED BY <1>1, <1>2, <1>3 DEF RW!WakingIsExclusive

LEMMA LockNoLostWakeup == ASSUME LockInv PROVE RW!NoLostWakeup
<1> SUFFICES ASSUME alive, RW!Quiet
             PROVE  /\ ~value.waking
                    /\ value.rwait = Len(lists["read"]) /\ value.wwait = Len(lists["write"])
                    /\ ~value.writer /\ value.readers = 0 => value.rwait = 0 /\ value.wwait = 0
                    /\ value.rwait > 0 => value.writer \/ value.wwait > 0
  BY DEF RW!NoLostWakeup
<1>1. \A th \in Threads : ~RW!Waking(th) /\ pc[th] \notin {"add_waiter", "claim"}
  BY DEF RW!Quiet, RW!Touching
<1>2. ~value.waking
  BY <1>1 DEF LockInv, OwnerPart
<1>3. value \in RW!Words
  BY DEF LockInv, RW!TypeOK
<1>4. ~RW!CanWake(value)
  BY <1>1 DEF LockInv, LookPart
<1>5. ASSUME NEW k \in RW!Kinds
      PROVE  Len(lists[k]) = IF k = "read" THEN value.rwait ELSE value.wwait
  <2>1. \A th \in Threads : ~InHand(k, th)
    BY <1>1 DEF InHand, Batching, RW!Waking
  <2>2. Len(lists[k]) = Due(k)
    BY <2>1 DEF LockInv, CountPart
  <2>3. Adding(k) = {} /\ Cardinality({}) = 0
    BY <1>1, FS_EmptySet DEF Adding
  <2> QED BY <1>3, <2>2, <2>3, WordType DEF Due
<1>6. value.rwait = Len(lists["read"]) /\ value.wwait = Len(lists["write"])
  BY <1>5 DEF RW!Kinds
<1> QED BY <1>2, <1>3, <1>4, <1>6, WordType DEF RW!CanWake

\* The invariant carries over to the behaviours in which the primitive is an rw_lock.
LEMMA RwLockInvariant == MCSpec => [](prim = "rw_lock" => LockInv)
<1>1. ASSUME MCInit PROVE prim = "rw_lock" => LockInv
  BY <1>1, LockInvInit DEF MCInit
<1>2. ASSUME prim = "rw_lock" => LockInv, [MCNext]_mcVars PROVE (prim = "rw_lock" => LockInv)'
  <2> SUFFICES ASSUME prim' = "rw_lock" PROVE LockInv'
    OBVIOUS
  <2>1. prim = "rw_lock"
    BY <1>2 DEF MCNext, TaskGoes, RunnerGoes, ThreadGoes, MCTerminated, Of, mcVars
  <2>2. LockInv
    BY <1>2, <2>1
  <2>3. CASE \E th \in Threads : ThreadGoes(th)
    <3>1. PICK th \in Threads : RW!Step(th)
      BY <2>1, <2>3 DEF ThreadGoes, Of
    <3> QED BY <2>2, <3>1, LockInvStep
  <2>4. CASE UNCHANGED mcVars
    <3>1. UNCHANGED <<value, lists, alive, tstate, holds, rounds, pc, self, local, taken>>
      BY <2>4 DEF mcVars, vars, rwOnly
    <3> QED BY <2>2, <3>1, LockInvStutter
  <2>5. \/ \E th \in Threads : ThreadGoes(th)
        \/ UNCHANGED mcVars
    BY <1>2, <2>1 DEF MCNext, TaskGoes, RunnerGoes, MCTerminated, Of
  <2> QED BY <2>3, <2>4, <2>5
<1> QED BY <1>1, <1>2, PTL DEF MCSpec

\* Every step of an rw_lock keeps its types, the counts in its word natural numbers.
THEOREM RwLockTypes == MCSpec => [](prim = "rw_lock" => RW!TypeOK)
<1>1. (prim = "rw_lock" => LockInv) => (prim = "rw_lock" => RW!TypeOK)
  BY DEF LockInv
<1> QED BY <1>1, RwLockInvariant, PTL

\* Many readers or one writer, also across a hand-over: whoever has the rw_lock is in the
\* word, and whoever is in the word has it (unlock_read, unlock_write, try_wake).
THEOREM RwLockExcludes == MCSpec => []ReadersXorWriter
<1>1. (prim = "rw_lock" => LockInv) => ReadersXorWriter
  BY LockReadersXorWriter DEF ReadersXorWriter
<1> QED BY <1>1, RwLockInvariant, PTL

\* One thread at a time holds WAKING, it finds somebody to wake, and the lists hold every
\* node that it takes (the comment of try_wake and its asserts).
THEOREM RwLockWakerIsAlone == MCSpec => []WakingIsExclusive
<1>1. (prim = "rw_lock" => LockInv) => WakingIsExclusive
  BY LockWakingIsExclusive DEF WakingIsExclusive
<1> QED BY <1>1, RwLockInvariant, PTL

\* When no thread is inside the protocol of an rw_lock, nobody is left in a list who
\* could be given the lock, and the counts of the word are the lengths of the lists.
THEOREM RwLockLeavesNobody == MCSpec => [](prim = "rw_lock" => RW!NoLostWakeup)
<1>1. (prim = "rw_lock" => LockInv) => (prim = "rw_lock" => RW!NoLostWakeup)
  BY LockNoLostWakeup
<1> QED BY <1>1, RwLockInvariant, PTL

-----------------------------------------------------------------------------
(* manual_reset_event, latch, barrier: lists by their links.               *)

\* A set of numbers has a least one: the intervals below its members are finite sets.
LEMMA LeastNumber ==
  ASSUME NEW S \in SUBSET Nat, S # {}
  PROVE  \E n \in S : \A m \in S : n <= m
<1> DEFINE T == {1..n : n \in S}
           R == StrictSubsetOrdering(Nat)
<1>1. T \subseteq FiniteSubsetsOf(Nat) /\ T # {}
  <2>1. \A n \in S : IsFiniteSet(1..n) /\ 1..n \in SUBSET Nat
    BY FS_Interval
  <2> QED BY <2>1 DEF FiniteSubsetsOf
<1>2. IsWellFoundedOn(R, FiniteSubsetsOf(Nat))
  BY FS_StrictSubsetOrderingWellFounded
<1>3. PICK x \in T : \A y \in T : ~ (<<y, x>> \in R)
  <2> HIDE DEF T, R
  <2> QED BY <1>1, <1>2, WFMin
<1>4. PICK n \in S : x = 1..n
  BY DEF T
<1>5. ASSUME NEW m \in S, ~(n <= m) PROVE FALSE
  <2>1. m \in Nat /\ n \in Nat /\ m < n
    BY <1>5
  <2>2. 1..m \subseteq 1..n /\ n \in 1..n /\ n \notin 1..m
    BY <2>1
  <2>3. <<1..m, 1..n>> \in R
    BY <2>1, <2>2 DEF StrictSubsetOrdering
  <2> QED BY <1>3, <1>4, <1>5, <2>3
<1> QED BY <1>5

\* The list that begins at h and follows the links f.
At(s, i) == IF i \in 1..Len(s) THEN s[i] ELSE NULL
Path(h, f, s) ==
  /\ s \in Seq(Tasks) /\ Distinct(s)
  /\ h = At(s, 1) /\ \A i \in 1..Len(s) : f[s[i]] = At(s, i + 1)

\* What a walk of m steps from h sees.
Walk(h, f, m, c) ==
  c = [i \in 1..m |-> IF i = 1 THEN h ELSE IF c[i-1] = NULL THEN NULL ELSE f[c[i-1]]]

LEMMA WalkFollows ==
  ASSUME NEW h, NEW f, NEW s, NEW m \in Nat, Path(h, f, s), NEW c, Walk(h, f, m, c)
  PROVE  \A i \in 1..m : c[i] = At(s, i)
<1> SUFFICES ASSUME NEW j \in 1..m, c[j] # At(s, j) PROVE FALSE
  OBVIOUS
<1> DEFINE Bad == {i \in 1..m : c[i] # At(s, i)}
<1>1. PICK i \in Bad : \A k \in Bad : i <= k
  <2>1. Bad \in SUBSET Nat /\ Bad # {}
    OBVIOUS
  <2> HIDE DEF Bad
  <2> QED BY <2>1, LeastNumber
<1>2. i \in 1..m /\ c[i] # At(s, i) /\ i \in Int
  OBVIOUS
<1>3. Len(s) \in Nat /\ s \in Seq(Tasks) /\ \A k \in 1..Len(s) : s[k] \in Tasks
  BY DEF Path
<1>4. CASE i = 1
  <2>1. c[i] = h
    BY <1>2, <1>4 DEF Walk
  <2> QED BY <1>2, <1>4, <2>1 DEF Path
<1>5. CASE i # 1
  <2>1. i - 1 \in 1..m /\ i - 1 < i /\ (i - 1) + 1 = i
    BY <1>2, <1>5
  <2>2. c[i - 1] = At(s, i - 1)
    <3>1. i - 1 \notin Bad
      BY <1>1, <1>2, <2>1
    <3> QED BY <2>1, <3>1
  <2>3. c[i] = IF c[i - 1] = NULL THEN NULL ELSE f[c[i - 1]]
    BY <1>2, <1>5 DEF Walk
  <2>4. CASE i - 1 \in 1..Len(s)
    <3>1. c[i - 1] = s[i - 1] /\ s[i - 1] # NULL
      BY <1>3, <2>2, <2>4, NullAssumption DEF At
    <3>2. f[s[i - 1]] = At(s, i)
      BY <2>1, <2>4 DEF Path
    <3> QED BY <1>2, <2>3, <3>1, <3>2
  <2>5. CASE i - 1 \notin 1..Len(s)
    <3>1. i \notin 1..Len(s)
      BY <1>2, <1>3, <1>5, <2>5
    <3> QED BY <1>2, <2>2, <2>3, <2>5, <3>1 DEF At
  <2> QED BY <2>4, <2>5
<1> QED BY <1>4, <1>5

LEMMA WalkExists ==
  ASSUME NEW h, NEW f, NEW s, NEW m \in Nat, Path(h, f, s)
  PROVE  \E c : Walk(h, f, m, c)
<1> DEFINE c == [i \in 1..m |-> At(s, i)]
<1>1. Len(s) \in Nat /\ s \in Seq(Tasks) /\ \A k \in 1..Len(s) : s[k] \in Tasks
  BY DEF Path
<1>2. ASSUME NEW i \in 1..m
      PROVE  At(s, i) = IF i = 1 THEN h ELSE IF c[i-1] = NULL THEN NULL ELSE f[c[i-1]]
  <2>1. CASE i = 1
    BY <2>1 DEF Path
  <2>2. CASE i # 1
    <3>1. i - 1 \in 1..m /\ (i - 1) + 1 = i /\ c[i - 1] = At(s, i - 1)
      BY <2>2
    <3>2. CASE i - 1 \in 1..Len(s)
      <4>1. c[i - 1] = s[i - 1] /\ s[i - 1] # NULL
        BY <1>1, <3>1, <3>2, NullAssumption DEF At
      <4>2. f[s[i - 1]] = At(s, i)
        BY <3>1, <3>2 DEF Path
      <4> HIDE DEF c
      <4> QED BY <2>2, <4>1, <4>2
    <3>3. CASE i - 1 \notin 1..Len(s)
      <4>1. i \notin 1..Len(s)
        BY <1>1, <2>2, <3>3
      <4> HIDE DEF c
      <4> QED BY <2>2, <3>1, <3>3, <4>1 DEF At
    <3> QED BY <3>2, <3>3
  <2> QED BY <2>1, <2>2
<1>3. c = [i \in 1..m |-> IF i = 1 THEN h ELSE IF c[i-1] = NULL THEN NULL ELSE f[c[i-1]]]
  BY <1>2
<1> HIDE DEF c
<1>4. Walk(h, f, m, c)
  BY <1>3 DEF Walk
<1> QED BY <1>4

\* The chains of the three users of WaiterStack are the same walk.
LEMMA ChainIsWalk ==
  /\ Cardinality(Tasks) + 1 \in Nat
  /\ \A h : /\ E!Chain(h) = CHOOSE c : Walk(h, next, Cardinality(Tasks) + 1, c)
            /\ L!Chain(h) = CHOOSE c : Walk(h, next, Cardinality(Tasks) + 1, c)
            /\ B!Chain(h) = CHOOSE c : Walk(h, next, Cardinality(Tasks) + 1, c)
<1>1. Cardinality(Tasks) + 1 \in Nat
  BY TasksAssumption, FS_CardinalityType
<1>2. /\ E!Cardinality(Tasks) = Cardinality(Tasks)
      /\ L!Cardinality(Tasks) = Cardinality(Tasks)
      /\ B!Cardinality(Tasks) = Cardinality(Tasks)
  BY DEF E!Cardinality, L!Cardinality, B!Cardinality, Cardinality
<1>3. ASSUME NEW h PROVE E!Chain(h) = CHOOSE c : Walk(h, next, Cardinality(Tasks) + 1, c)
  BY <1>2, Zenon DEF E!Chain, Walk
<1>4. ASSUME NEW h PROVE L!Chain(h) = CHOOSE c : Walk(h, next, Cardinality(Tasks) + 1, c)
  BY <1>2, Zenon DEF L!Chain, Walk
<1>5. ASSUME NEW h PROVE B!Chain(h) = CHOOSE c : Walk(h, next, Cardinality(Tasks) + 1, c)
  BY <1>2, Zenon DEF B!Chain, Walk
<1> QED BY <1>1, <1>3, <1>4, <1>5, Zenon

LEMMA ChainOfPath ==
  ASSUME NEW h, NEW s, Path(h, next, s)
  PROVE  /\ E!Chain(h) = [i \in 1..(Cardinality(Tasks) + 1) |-> At(s, i)]
         /\ L!Chain(h) = E!Chain(h) /\ B!Chain(h) = E!Chain(h)
<1>1. PICK m \in Nat : m = Cardinality(Tasks) + 1
  BY ChainIsWalk
<1>2. Walk(h, next, m, E!Chain(h))
  <2>1. \E c : Walk(h, next, m, c)
    BY <1>1, WalkExists
  <2>2. E!Chain(h) = CHOOSE c : Walk(h, next, m, c)
    BY <1>1, ChainIsWalk, Zenon
  <2> QED BY <2>1, <2>2, Zenon
<1>3. \A i \in 1..m : E!Chain(h)[i] = At(s, i)
  BY <1>2, WalkFollows
<1>4. E!Chain(h) = [i \in 1..m |-> E!Chain(h)[i]]
  BY <1>2 DEF Walk
<1>5. E!Chain(h) = [i \in 1..m |-> At(s, i)]
  BY <1>3, <1>4
<1>6. L!Chain(h) = E!Chain(h) /\ B!Chain(h) = E!Chain(h)
  BY ChainIsWalk, Zenon
<1> QED BY <1>1, <1>5, <1>6

\* A list is no longer than there are tasks, so a chain ends with NULL.
LEMMA PathFits ==
  ASSUME NEW h, NEW f, NEW s, Path(h, f, s)
  PROVE  /\ Len(s) \in Nat /\ Len(s) <= Cardinality(Tasks)
         /\ Nodes(s) = {s[i] : i \in 1..Len(s)} /\ Nodes(s) \subseteq Tasks
<1>1. s \in Seq(Tasks) /\ Distinct(s)
  BY DEF Path
<1>2. IsFiniteSet(Nodes(s)) /\ Cardinality(Nodes(s)) = Len(s) /\ Len(s) \in Nat
  BY <1>1, DistinctCount
<1>3. Nodes(s) = {s[i] : i \in 1..Len(s)} /\ Nodes(s) \subseteq Tasks
  BY <1>1, NodesOf
<1>4. Cardinality(Nodes(s)) <= Cardinality(Tasks)
  BY <1>3, TasksAssumption, FS_Subset
<1> QED BY <1>2, <1>3, <1>4

LEMMA NodesOfPath ==
  ASSUME NEW h, NEW s, Path(h, next, s)
  PROVE  E!NodesFrom(h) = Nodes(s) /\ B!NodesFrom(h) = Nodes(s)
<1>1. PICK m \in Nat : m = Cardinality(Tasks) + 1 /\ Len(s) < m
  BY PathFits, ChainIsWalk, TasksAssumption, FS_CardinalityType
<1>2. E!Chain(h) = [i \in 1..m |-> At(s, i)]
  BY <1>1, ChainOfPath
<1>3. {E!Chain(h)[i] : i \in DOMAIN E!Chain(h)} \ {NULL} = Nodes(s)
  <2>1. {E!Chain(h)[i] : i \in DOMAIN E!Chain(h)} = {At(s, i) : i \in 1..m}
    BY <1>2
  <2>2. \A i \in 1..Len(s) : At(s, i) = s[i] /\ s[i] # NULL /\ i \in 1..m
    BY <1>1, PathFits, NullAssumption DEF At
  <2>3. \A i \in 1..m : i \in 1..Len(s) \/ At(s, i) = NULL
    BY DEF At
  <2>4. Nodes(s) = {s[i] : i \in 1..Len(s)}
    BY PathFits
  <2>5. {At(s, i) : i \in 1..m} \ {NULL} \subseteq Nodes(s)
    BY <2>2, <2>3, <2>4
  <2>6. \A x \in Nodes(s) : x # NULL /\ \E i \in 1..m : x = At(s, i)
    BY <2>2, <2>4
  <2> QED BY <2>1, <2>5, <2>6
<1>4. B!Chain(h) = E!Chain(h)
  BY ChainOfPath
<1> QED BY <1>3, <1>4 DEF E!NodesFrom, B!NodesFrom

\* Paths: no change, the push of a node, what remains after the first n nodes.
LEMMA PathKept ==
  ASSUME NEW h, NEW f, NEW g, NEW s, Path(h, f, s), \A t \in Nodes(s) : g[t] = f[t]
  PROVE  Path(h, g, s)
<1>1. \A i \in 1..Len(s) : s[i] \in Nodes(s)
  BY PathFits
<1> QED BY <1>1 DEF Path

LEMMA NoPath == ASSUME NEW f PROVE Path(NULL, f, <<>>)
BY NoNodes DEF Path, At

LEMMA PathEmpty ==
  ASSUME NEW h, NEW f, NEW s, Path(h, f, s)
  PROVE  /\ h = NULL <=> s = <<>>
         /\ h # NULL => h \in Nodes(s) /\ h \in Tasks /\ Len(s) > 0 /\ s[1] = h
<1>1. Len(s) \in Nat /\ s \in Seq(Tasks) /\ (Len(s) = 0 <=> s = <<>>) /\ h = At(s, 1)
  BY DEF Path
<1>2. CASE Len(s) = 0
  BY <1>1, <1>2 DEF At
<1>3. CASE Len(s) # 0
  <2>1. 1 \in 1..Len(s) /\ s[1] \in Tasks
    BY <1>1, <1>3
  <2> QED BY <1>1, <1>3, <2>1, PathFits, NullAssumption DEF At
<1> QED BY <1>2, <1>3

LEMMA PathPush ==
  ASSUME NEW h, NEW f \in [Tasks -> Tasks \cup {NULL}], NEW s, Path(h, f, s),
         NEW t \in Tasks, t \notin Nodes(s), NEW g, g[t] = h, \A u \in Nodes(s) : g[u] = f[u]
  PROVE  Path(t, g, <<t>> \o s) /\ Nodes(<<t>> \o s) = Nodes(s) \cup {t}
<1>1. PICK m \in Nat : m = Len(s)
  BY PathFits
<1>2. s \in Seq(Tasks) /\ Distinct(s) /\ h = At(s, 1)
  BY DEF Path
<1>3. PICK r \in Seq(Tasks) : r = <<t>> \o s
  <2>1. <<t>> \in Seq(Tasks)
    OBVIOUS
  <2>2. <<t>> \o s \in Seq(Tasks)
    BY <1>2, <2>1
  <2> QED BY <2>2
<1>4. /\ Len(r) = m + 1 /\ r[1] = t
      /\ \A i \in 1..m : r[i + 1] = s[i] /\ s[i] \in Nodes(s)
      /\ \A i \in 2..(m + 1) : r[i] = s[i - 1] /\ i - 1 \in 1..m
  BY <1>1, <1>2, <1>3, PathFits
<1>5. Nodes(r) = Nodes(s) \cup {t}
  <2>1. Nodes(r) = {r[i] : i \in 1..(m + 1)} /\ Nodes(s) = {s[i] : i \in 1..m}
    BY <1>1, <1>2, <1>4, NodesOf
  <2>2. ASSUME NEW x \in Nodes(r) PROVE x \in Nodes(s) \cup {t}
    <3>1. PICK i \in 1..(m + 1) : x = r[i]
      BY <2>1
    <3>2. i = 1 \/ i \in 2..(m + 1)
      BY <1>1
    <3> QED BY <1>4, <3>1, <3>2
  <2>3. ASSUME NEW x \in Nodes(s) PROVE x \in Nodes(r)
    <3>1. PICK i \in 1..m : x = s[i]
      BY <2>1
    <3>2. i + 1 \in 1..(m + 1) /\ r[i + 1] = x
      BY <1>4, <3>1
    <3> QED BY <2>1, <3>2
  <2>4. t \in Nodes(r)
    BY <1>1, <1>4, <2>1
  <2> QED BY <2>2, <2>3, <2>4
<1>6. Distinct(r)
  <2>1. ASSUME NEW i \in 1..(m + 1), NEW j \in 1..(m + 1), r[i] = r[j] PROVE i = j
    <3>1. CASE i = 1 /\ j = 1
      BY <3>1
    <3>2. CASE i = 1 /\ j # 1
      <4>1. j \in 2..(m + 1)
        BY <1>1, <3>2
      <4> QED BY <1>4, <2>1, <3>2, <4>1
    <3>3. CASE i # 1 /\ j = 1
      <4>1. i \in 2..(m + 1)
        BY <1>1, <3>3
      <4> QED BY <1>4, <2>1, <3>3, <4>1
    <3>4. CASE i # 1 /\ j # 1
      <4>1. i \in 2..(m + 1) /\ j \in 2..(m + 1)
        BY <1>1, <3>4
      <4>2. i - 1 = j - 1
        BY <1>1, <1>2, <1>4, <2>1, <4>1 DEF Distinct
      <4> QED BY <4>2
    <3> QED BY <3>1, <3>2, <3>3, <3>4
  <2> QED BY <1>4, <2>1 DEF Distinct
<1>7. \A i \in 2..(m + 1) : At(r, i) = At(s, i - 1)
  BY <1>1, <1>4 DEF At
<1>8. ASSUME NEW i \in 1..(m + 1) PROVE g[r[i]] = At(r, i + 1)
  <2>1. CASE i = 1
    <3>1. g[r[i]] = At(s, 1)
      BY <1>2, <1>4, <2>1
    <3>2. At(r, 2) = At(s, 1)
      BY <1>1, <1>4 DEF At
    <3> QED BY <2>1, <3>1, <3>2
  <2>2. CASE i # 1
    <3>1. i \in 2..(m + 1) /\ i - 1 \in 1..m /\ (i - 1) + 1 = i
      BY <1>1, <2>2
    <3>2. g[r[i]] = At(s, i)
      BY <1>1, <1>4, <3>1 DEF Path
    <3>3. At(r, i + 1) = At(s, i)
      BY <1>1, <1>4, <3>1 DEF At
    <3> QED BY <3>2, <3>3
  <2> QED BY <2>1, <2>2
<1>9. t = At(r, 1)
  BY <1>1, <1>4 DEF At
<1>10. Path(t, g, r)
  BY <1>4, <1>6, <1>8, <1>9 DEF Path
<1> QED BY <1>3, <1>5, <1>10

LEMMA PathDrop ==
  ASSUME NEW h, NEW f, NEW s, Path(h, f, s), NEW n \in 1..Len(s)
  PROVE  LET rest == SubSeq(s, n + 1, Len(s))
             first == {s[i] : i \in 1..n}
         IN  /\ Path(At(s, n + 1), f, rest) /\ rest \in Seq(Tasks)
             /\ Nodes(s) = first \cup Nodes(rest) /\ first \cap Nodes(rest) = {}
<1>1. PICK m \in Nat : m = Len(s)
  BY PathFits
<1>2. s \in Seq(Tasks) /\ n \in 1..m /\ n \in Nat /\ (\A i, j \in 1..m : s[i] = s[j] => i = j)
  BY <1>1 DEF Path, Distinct
<1>3. PICK r : r = SubSeq(s, n + 1, Len(s))
  OBVIOUS
<1>4. r \in Seq(Tasks) /\ Len(r) = m - n /\ m - n \in Nat /\ (\A i \in 1..(m - n) : r[i] = s[i + n])
  <2>1. s \in Seq(Tasks)
    BY <1>2
  <2>2. /\ SubSeq(s, n + 1, Len(s)) \in Seq(Tasks) /\ Len(SubSeq(s, n + 1, Len(s))) = Len(s) - n
        /\ \A i \in 1..(Len(s) - n) : SubSeq(s, n + 1, Len(s))[i] = s[i + n]
    BY <2>1
  <2> QED BY <1>1, <1>2, <1>3, <2>2
<1>5. PICK first : first = {s[i] : i \in 1..n}
  OBVIOUS
<1>6. Nodes(s) = {s[i] : i \in 1..m} /\ Nodes(r) = {r[i] : i \in 1..(m - n)}
  BY <1>1, <1>2, <1>4, NodesOf
<1>7. ASSUME NEW i \in 1..(m - n) PROVE i + n \in 1..m /\ i + n > n
  <2>1. n \in Int /\ m \in Int /\ i \in Int /\ 1 <= i /\ i <= m - n /\ 1 <= n
    BY <1>1, <1>2
  <2> QED BY <2>1
<1>8. ASSUME NEW i \in 1..m, i \notin 1..n PROVE i - n \in 1..(m - n) /\ (i - n) + n = i
  <2>1. i \in Int /\ n \in Int /\ m \in Int /\ 1 <= i /\ i <= m /\ ~(i <= n)
    BY <1>1, <1>2, <1>8
  <2> QED BY <2>1
<1>9. \A i \in 1..n : i \in 1..m
  BY <1>1, <1>2
<1>10. Nodes(s) = first \cup Nodes(r)
  <2>1. ASSUME NEW x \in Nodes(s) PROVE x \in first \cup Nodes(r)
    <3>1. PICK i \in 1..m : x = s[i]
      BY <1>6
    <3>2. CASE i \in 1..n
      BY <1>5, <3>1, <3>2
    <3>3. CASE i \notin 1..n
      <4>1. i - n \in 1..(m - n) /\ r[i - n] = s[i]
        BY <1>4, <1>8, <3>3
      <4> QED BY <1>6, <3>1, <4>1
    <3> QED BY <3>2, <3>3
  <2>2. \A x \in first \cup Nodes(r) : x \in Nodes(s)
    BY <1>4, <1>5, <1>6, <1>7, <1>9
  <2> QED BY <2>1, <2>2
<1>11. first \cap Nodes(r) = {}
  <2>1. ASSUME NEW i \in 1..n, NEW j \in 1..(m - n), s[i] = r[j] PROVE FALSE
    <3>1. i = j + n
      BY <1>2, <1>4, <1>7, <1>9, <2>1
    <3> QED BY <1>2, <3>1
  <2> QED BY <1>5, <1>6, <2>1
<1>12. Distinct(r)
  <2>1. ASSUME NEW i \in 1..(m - n), NEW j \in 1..(m - n), r[i] = r[j] PROVE i = j
    <3>1. i + n = j + n
      BY <1>2, <1>4, <1>7, <2>1
    <3> QED BY <1>2, <3>1
  <2> QED BY <1>4, <2>1 DEF Distinct
<1>13. \A i \in 1..(m - n + 1) : At(r, i) = At(s, i + n)
  <2>1. ASSUME NEW i \in 1..(m - n + 1) PROVE At(r, i) = At(s, i + n)
    <3>1. CASE i \in 1..(m - n)
      BY <1>1, <1>4, <1>7, <3>1 DEF At
    <3>2. CASE i \notin 1..(m - n)
      <4>1. i + n \notin 1..m
        BY <1>1, <1>2, <3>2
      <4> QED BY <1>1, <1>4, <3>2, <4>1 DEF At
    <3> QED BY <3>1, <3>2
  <2> QED BY <2>1
<1>14. ASSUME NEW i \in 1..(m - n) PROVE f[r[i]] = At(r, i + 1)
  <2>1. f[r[i]] = At(s, (i + n) + 1)
    BY <1>1, <1>4, <1>7 DEF Path
  <2>2. i + 1 \in 1..(m - n + 1) /\ (i + n) + 1 = (i + 1) + n
    BY <1>1, <1>2
  <2> QED BY <1>13, <2>1, <2>2
<1>15. At(s, n + 1) = At(r, 1)
  <2>1. 1 \in 1..(m - n + 1) /\ 1 + n = n + 1
    BY <1>1, <1>2
  <2> QED BY <1>13, <2>1
<1>16. Path(At(s, n + 1), f, r)
  BY <1>4, <1>12, <1>14, <1>15 DEF Path
<1> QED BY <1>3, <1>4, <1>5, <1>10, <1>11, <1>16, Zenon

\* A node leaves the middle of a list: its own link takes the place of the link to it.
Bypass(f, g, t, S) == \A u \in S : g[u] = IF f[u] = t THEN f[t] ELSE f[u]

LEMMA PathRemove ==
  ASSUME NEW h, NEW f \in [Tasks -> Tasks \cup {NULL}], NEW s, Path(h, f, s), NEW t \in Nodes(s), h # t,
         NEW g, Bypass(f, g, t, Nodes(s))
  PROVE  \E r \in Seq(Tasks) : Path(h, g, r) /\ Nodes(r) = Nodes(s) \ {t}
<1>0. \A u \in Nodes(s) : g[u] = IF f[u] = t THEN f[t] ELSE f[u]
  BY DEF Bypass
<1>1. PICK m \in Nat : m = Len(s)
  BY PathFits
<1>2. /\ s \in Seq(Tasks) /\ h = At(s, 1) /\ (\A i, j \in 1..m : s[i] = s[j] => i = j)
      /\ Nodes(s) = {s[i] : i \in 1..m} /\ (\A i \in 1..m : s[i] \in Tasks)
      /\ \A i \in 1..m : f[s[i]] = At(s, i + 1)
  BY <1>1, PathFits DEF Path, Distinct
<1>3. PICK j \in 1..m : s[j] = t
  BY <1>2
<1>4. j \in 2..m /\ m - 1 \in Nat
  <2>1. j # 1
    BY <1>1, <1>2, <1>3 DEF At
  <2> QED BY <1>1, <1>3, <2>1
<1>5. PICK r : r = [i \in 1..(m - 1) |-> IF i < j THEN s[i] ELSE s[i + 1]]
  OBVIOUS
<1>6. ASSUME NEW i \in 1..(m - 1) PROVE i \in 1..m /\ i + 1 \in 1..m /\ i \in Int /\ j \in Int
  BY <1>1, <1>4
<1>7. r \in Seq(Tasks) /\ Len(r) = m - 1 /\ DOMAIN r = 1..(m - 1)
  <2>1. r \in [1..(m - 1) -> Tasks]
    BY <1>2, <1>5, <1>6
  <2> QED BY <1>4, <2>1
<1>8. \A i \in 1..(m - 1) : r[i] = IF i < j THEN s[i] ELSE s[i + 1]
  BY <1>5
<1>9. Distinct(r)
  <2>1. ASSUME NEW i \in 1..(m - 1), NEW k \in 1..(m - 1), r[i] = r[k] PROVE i = k
    <3>1. i \in Int /\ k \in Int /\ j \in Int
      BY <1>6
    <3>2. CASE i < j /\ k < j
      BY <1>2, <1>6, <1>8, <2>1, <3>2
    <3>3. CASE i < j /\ ~(k < j)
      <4>1. i = k + 1
        BY <1>2, <1>6, <1>8, <2>1, <3>3
      <4> QED BY <3>1, <3>3, <4>1
    <3>4. CASE ~(i < j) /\ k < j
      <4>1. i + 1 = k
        BY <1>2, <1>6, <1>8, <2>1, <3>4
      <4> QED BY <3>1, <3>4, <4>1
    <3>5. CASE ~(i < j) /\ ~(k < j)
      <4>1. i + 1 = k + 1
        BY <1>2, <1>6, <1>8, <2>1, <3>5
      <4> QED BY <3>1, <4>1
    <3> QED BY <3>2, <3>3, <3>4, <3>5
  <2> QED BY <1>7, <2>1 DEF Distinct
<1>10. Nodes(r) = Nodes(s) \ {t}
  <2>1. Nodes(r) = {r[i] : i \in 1..(m - 1)}
    BY <1>7, NodesOf
  <2>2. ASSUME NEW i \in 1..(m - 1) PROVE r[i] \in Nodes(s) \ {t}
    <3>1. CASE i < j
      <4>1. s[i] # t
        BY <1>2, <1>3, <1>6, <3>1
      <4>2. i \in 1..m /\ r[i] = s[i]
        BY <1>6, <1>8, <3>1
      <4>3. s[i] \in Nodes(s)
        BY <1>2, <4>2
      <4> QED BY <4>1, <4>2, <4>3
    <3>2. CASE ~(i < j)
      <4>1. i + 1 # j
        BY <1>6, <3>2
      <4>2. s[i + 1] # t
        BY <1>2, <1>3, <1>6, <4>1
      <4>3. i + 1 \in 1..m /\ r[i] = s[i + 1]
        BY <1>6, <1>8, <3>2
      <4>4. s[i + 1] \in Nodes(s)
        BY <1>2, <4>3
      <4> QED BY <4>2, <4>3, <4>4
    <3> QED BY <3>1, <3>2
  <2>3. ASSUME NEW x \in Nodes(s) \ {t} PROVE x \in Nodes(r)
    <3>1. PICK i \in 1..m : x = s[i]
      BY <1>2
    <3>2. i # j /\ i \in Int /\ j \in Int
      BY <1>3, <3>1
    <3>3. CASE i < j
      <4>1. i \in 1..(m - 1)
        BY <1>1, <1>4, <3>1, <3>3
      <4>2. r[i] = x
        BY <1>8, <3>1, <3>3, <4>1
      <4> QED BY <2>1, <4>1, <4>2
    <3>4. CASE ~(i < j)
      <4>1. i - 1 \in 1..(m - 1) /\ ~(i - 1 < j) /\ (i - 1) + 1 = i
        BY <1>1, <1>4, <3>1, <3>2, <3>4
      <4>2. r[i - 1] = x
        BY <1>8, <3>1, <4>1
      <4> QED BY <2>1, <4>1, <4>2
    <3> QED BY <3>3, <3>4
  <2> QED BY <2>1, <2>2, <2>3
<1>11. ASSUME NEW i \in 1..m PROVE At(r, i) = IF i < j THEN s[i] ELSE At(s, i + 1)
  <2>1. CASE i < j
    <3>1. i \in 1..(m - 1)
      BY <1>1, <1>4, <2>1
    <3> QED BY <1>7, <1>8, <2>1, <3>1 DEF At
  <2>2. CASE ~(i < j) /\ i \in 1..(m - 1)
    <3>1. At(s, i + 1) = s[i + 1]
      BY <1>1, <1>6, <2>2 DEF At
    <3> QED BY <1>7, <1>8, <2>2, <3>1 DEF At
  <2>3. CASE i \notin 1..(m - 1)
    <3>1. i = m /\ ~(i < j) /\ i + 1 \notin 1..m
      BY <1>1, <1>4, <2>3
    <3> QED BY <1>1, <1>7, <2>3, <3>1 DEF At
  <2> QED BY <2>1, <2>2, <2>3
<1>12. ASSUME NEW i \in 1..(m - 1) PROVE g[r[i]] = At(r, i + 1)
  <2>0. /\ i \in 1..m /\ i + 1 \in 1..m /\ i \in Int /\ j \in Int /\ j \in 1..m
        /\ \A k \in 1..m : s[k] \in Nodes(s)
        /\ \A k \in 1..m : s[k] = t <=> k = j
    BY <1>2, <1>3, <1>6
  <2>1. CASE i + 1 < j
    <3>1. r[i] = s[i] /\ At(r, i + 1) = s[i + 1]
      BY <1>8, <1>11, <2>0, <2>1
    <3>2. f[s[i]] = s[i + 1] /\ s[i + 1] # t
      BY <1>1, <1>2, <2>0, <2>1 DEF At
    <3>3. g[s[i]] = f[s[i]]
      BY <1>0, <2>0, <3>2
    <3> QED BY <3>1, <3>2, <3>3
  <2>2. CASE i + 1 = j
    <3>1. r[i] = s[i] /\ At(r, i + 1) = At(s, (i + 1) + 1)
      BY <1>8, <1>11, <2>0, <2>2
    <3>2. f[s[i]] = t /\ f[t] = At(s, j + 1)
      BY <1>1, <1>2, <1>3, <2>0, <2>2 DEF At
    <3>3. g[s[i]] = f[t]
      BY <1>0, <2>0, <3>2
    <3> QED BY <2>2, <3>1, <3>2, <3>3
  <2>3. CASE ~(i < j)
    <3>1. r[i] = s[i + 1] /\ At(r, i + 1) = At(s, (i + 1) + 1)
      BY <1>8, <1>11, <2>0, <2>3
    <3>2. f[s[i + 1]] = At(s, (i + 1) + 1) /\ f[s[i + 1]] # t
      <4>1. (i + 1) + 1 # j /\ t \in Tasks
        BY <1>2, <1>3, <2>0, <2>3
      <4>2. f[s[i + 1]] = At(s, (i + 1) + 1)
        BY <1>2, <2>0
      <4>3. At(s, (i + 1) + 1) # t
        BY <1>1, <2>0, <4>1, NullAssumption DEF At
      <4> QED BY <4>2, <4>3
    <3>3. g[s[i + 1]] = f[s[i + 1]]
      BY <1>0, <2>0, <3>2
    <3> QED BY <3>1, <3>2, <3>3
  <2>4. i + 1 < j \/ i + 1 = j \/ ~(i < j)
    BY <2>0
  <2> QED BY <2>1, <2>2, <2>3, <2>4
<1>13. h = At(r, 1)
  <2>1. 1 \in 1..m /\ 1 < j
    BY <1>1, <1>4
  <2> QED BY <1>1, <1>2, <1>11, <2>1 DEF At
<1>14. Path(h, g, r)
  BY <1>7, <1>9, <1>12, <1>13 DEF Path
<1> QED BY <1>7, <1>10, <1>14

-----------------------------------------------------------------------------
(* The same by the set of the nodes on a list. *)

Listing(h, f, S) == \E s \in Seq(Tasks) : Path(h, f, s) /\ Nodes(s) = S

LEMMA ListKept ==
  ASSUME NEW h, NEW f, NEW g, NEW S, Listing(h, f, S), \A t \in S : g[t] = f[t]
  PROVE  Listing(h, g, S)
BY PathKept DEF Listing

LEMMA ListNone ==
  ASSUME NEW f PROVE Listing(NULL, f, {})
<1>1. <<>> \in Seq(Tasks)
  OBVIOUS
<1> QED BY <1>1, NoPath, NoNodes DEF Listing

LEMMA ListHead ==
  ASSUME NEW h, NEW f, NEW S, Listing(h, f, S)
  PROVE  /\ S \subseteq Tasks /\ NULL \notin S /\ (h = NULL <=> S = {})
         /\ h # NULL => h \in S /\ h \in Tasks
<1>1. PICK s \in Seq(Tasks) : Path(h, f, s) /\ Nodes(s) = S
  BY DEF Listing
<1>2. S \subseteq Tasks
  BY <1>1, PathFits
<1>3. h = NULL => S = {}
  BY <1>1, PathEmpty, NoNodes
<1>4. h # NULL => h \in S /\ h \in Tasks
  BY <1>1, PathEmpty
<1> QED BY <1>2, <1>3, <1>4, NullAssumption

LEMMA ListPush ==
  ASSUME NEW h, NEW f \in [Tasks -> Tasks \cup {NULL}], NEW S, Listing(h, f, S),
         NEW t \in Tasks, t \notin S, NEW g, g[t] = h, \A u \in S : g[u] = f[u]
  PROVE  Listing(t, g, S \cup {t})
<1>1. PICK s \in Seq(Tasks) : Path(h, f, s) /\ Nodes(s) = S
  BY DEF Listing
<1>2. Path(t, g, <<t>> \o s) /\ Nodes(<<t>> \o s) = S \cup {t}
  BY <1>1, PathPush
<1>3. <<t>> \o s \in Seq(Tasks)
  BY <1>2 DEF Path
<1> QED BY <1>2, <1>3 DEF Listing

LEMMA ListFirst ==
  ASSUME NEW h, NEW f, NEW S, Listing(h, f, S), h # NULL
  PROVE  Listing(f[h], f, S \ {h}) /\ h \in S
<1>1. PICK s \in Seq(Tasks) : Path(h, f, s) /\ Nodes(s) = S
  BY DEF Listing
<1>2. 1 \in 1..Len(s) /\ s[1] = h /\ h \in S
  <2>1. Len(s) > 0 /\ s[1] = h /\ h \in S /\ Len(s) \in Nat
    BY <1>1, PathEmpty, PathFits
  <2> QED BY <2>1
<1>3. PICK r, first : /\ r = SubSeq(s, 2, Len(s)) /\ first = {s[i] : i \in 1..1}
  OBVIOUS
<1>4. /\ Path(At(s, 2), f, r) /\ r \in Seq(Tasks)
      /\ S = first \cup Nodes(r) /\ first \cap Nodes(r) = {}
  <2>1. 1 + 1 = 2
    OBVIOUS
  <2> QED BY <1>1, <1>2, <1>3, <2>1, PathDrop
<1>5. first = {h}
  BY <1>2, <1>3
<1>6. f[h] = At(s, 2)
  BY <1>1, <1>2 DEF Path
<1>7. Nodes(r) = S \ {h}
  BY <1>4, <1>5
<1> QED BY <1>2, <1>4, <1>6, <1>7 DEF Listing

LEMMA ListRemove ==
  ASSUME NEW h, NEW f \in [Tasks -> Tasks \cup {NULL}], NEW S, Listing(h, f, S),
         NEW t \in S, h # t, NEW g, Bypass(f, g, t, S)
  PROVE  Listing(h, g, S \ {t})
<1>1. PICK s \in Seq(Tasks) : Path(h, f, s) /\ Nodes(s) = S
  BY DEF Listing
<1>2. t \in Nodes(s) /\ Bypass(f, g, t, Nodes(s)) /\ Path(h, f, s)
  BY <1>1
<1>3. \E r \in Seq(Tasks) : Path(h, g, r) /\ Nodes(r) = Nodes(s) \ {t}
  BY <1>2, PathRemove
<1> QED BY <1>1, <1>3 DEF Listing

LEMMA ListNodes ==
  ASSUME NEW h, NEW S, Listing(h, next, S)
  PROVE  E!NodesFrom(h) = S /\ B!NodesFrom(h) = S
BY NodesOfPath DEF Listing

\* A batch is the beginning of a list: as many nodes as PostBatch takes of it.
FirstOf(c, n) == {c[i] : i \in 1..n}

LEMMA ListBatch ==
  ASSUME NEW h, NEW S, Listing(h, next, S), NEW n \in 1..Cardinality(Tasks),
         NEW batch, batch = FirstOf(E!Chain(h), n), NULL \notin batch
  PROVE  batch \subseteq S /\ Listing(E!Chain(h)[n + 1], next, S \ batch)
<1>1. PICK s \in Seq(Tasks) : Path(h, next, s) /\ Nodes(s) = S
  BY DEF Listing
<1>2. PICK m \in Nat : m = Cardinality(Tasks)
  BY TasksAssumption, FS_CardinalityType
<1>3. Len(s) \in Nat /\ n \in 1..m /\ \A i \in 1..(m + 1) : E!Chain(h)[i] = At(s, i)
  BY <1>1, <1>2, ChainOfPath, PathFits
<1>4. n \in 1..(m + 1) /\ n + 1 \in 1..(m + 1) /\ \A i \in 1..n : i \in 1..(m + 1)
  BY <1>2, <1>3
<1>5. n \in 1..Len(s)
  <2>1. E!Chain(h)[n] # NULL /\ n \in 1..n
    BY <1>4 DEF FirstOf
  <2> QED BY <1>3, <1>4, <2>1 DEF At
<1>6. \A i \in 1..n : i \in 1..Len(s) /\ E!Chain(h)[i] = s[i]
  BY <1>3, <1>4, <1>5 DEF At
<1>7. batch = {s[i] : i \in 1..n}
  BY <1>6 DEF FirstOf
<1>8. PICK r : r = SubSeq(s, n + 1, Len(s))
  OBVIOUS
<1>9. /\ Path(At(s, n + 1), next, r) /\ r \in Seq(Tasks)
      /\ S = batch \cup Nodes(r) /\ batch \cap Nodes(r) = {}
  BY <1>1, <1>5, <1>7, <1>8, PathDrop
<1>10. Nodes(r) = S \ batch
  BY <1>9
<1> QED BY <1>3, <1>4, <1>9, <1>10 DEF Listing

-----------------------------------------------------------------------------
(* The stack and the walks: S is the set of the nodes on the shared list, H[th] of *)
(* those that thread th has yet to post.                                           *)

Has(ke, H, th, t) == t \in H[th] \/ ke[th] = t

Lists(h, f, cu, S, H) ==
  /\ S \in SUBSET Tasks /\ H \in [Threads -> SUBSET Tasks]
  /\ IF h = E!READY THEN S = {} ELSE Listing(h, f, S)
  /\ \A th \in Threads : Listing(cu[th], f, H[th])

Apart(ke, S, H) ==
  /\ \A th \in Threads, t \in S : ~Has(ke, H, th, t)
  /\ \A th \in Threads : ke[th] \notin H[th]
  /\ \A a, b \in Threads, t \in Tasks : Has(ke, H, a, t) /\ Has(ke, H, b, t) => a = b

Waits(ke, ts, S, H) ==
  \A t \in Tasks : ts[t] = "waiting" <=> t \in S \/ \E th \in Threads : Has(ke, H, th, t)

Stack(h, f, cu, ke, ts, S, H) == Lists(h, f, cu, S, H) /\ Apart(ke, S, H) /\ Waits(ke, ts, S, H)

Links == [Tasks -> Tasks \cup {NULL}]
Places == [Threads -> Tasks \cup {NULL}]
States == [Tasks -> {"ready", "running", "waiting", "done"}]

LEMMA ReadyIsNoTask == E!READY \notin Tasks /\ E!READY # NULL
BY ReadyAssumption DEF E!READY

\* Who waits is on one list, and the lists are what the code can reach.
LEMMA StackSays ==
  ASSUME NEW S, NEW H, Stack(head, next, curr, kept, tstate, S, H), kept \in Places
  PROVE  /\ E!Listed = S /\ B!NodesFrom(head) = E!NodesFrom(head)
         /\ \A th \in Threads : /\ E!NodesFrom(curr[th]) = H[th] /\ B!NodesFrom(curr[th]) = H[th]
                                /\ E!Held(th) = H[th] \cup ({kept[th]} \ {NULL})
         /\ E!OnOneList /\ E!NobodyLeftBehind
<1>1. /\ S \in SUBSET Tasks /\ H \in [Threads -> SUBSET Tasks]
      /\ IF head = E!READY THEN S = {} ELSE Listing(head, next, S)
      /\ \A th \in Threads : Listing(curr[th], next, H[th])
  BY DEF Stack, Lists
<1>2. E!Listed = S
  BY <1>1, ListNodes DEF E!Listed
<1>3. B!NodesFrom(head) = E!NodesFrom(head)
  <2>1. B!Chain(head) = E!Chain(head)
    BY ChainIsWalk, Zenon
  <2> QED BY <2>1 DEF B!NodesFrom, E!NodesFrom
<1>4. \A th \in Threads : /\ E!NodesFrom(curr[th]) = H[th] /\ B!NodesFrom(curr[th]) = H[th]
  BY <1>1, ListNodes
<1>5. \A th \in Threads : E!Held(th) = H[th] \cup ({kept[th]} \ {NULL})
  BY <1>4 DEF E!Held
<1>6. \A th \in Threads, t \in Tasks : t \in E!Held(th) <=> Has(kept, H, th, t)
  BY <1>5, NullAssumption DEF Has
<1>7. \A th \in Threads : E!Held(th) \subseteq Tasks
  <2>1. \A th \in Threads : H[th] \subseteq Tasks /\ kept[th] \in Tasks \cup {NULL}
    BY <1>1 DEF Places
  <2> QED BY <1>5, <2>1
<1>8. /\ \A th \in Threads, t \in S : ~Has(kept, H, th, t)
      /\ \A th \in Threads : kept[th] \notin H[th]
      /\ \A a, b \in Threads, t \in Tasks : Has(kept, H, a, t) /\ Has(kept, H, b, t) => a = b
      /\ \A t \in Tasks : tstate[t] = "waiting" <=> t \in S \/ \E th \in Threads : Has(kept, H, th, t)
  BY DEF Stack, Apart, Waits
<1>9. E!NobodyLeftBehind
  BY <1>1, <1>6, <1>8 DEF E!NobodyLeftBehind
<1>10. {t \in Tasks : tstate[t] = "waiting"} = E!Listed \cup UNION {E!Held(th) : th \in Threads}
  <2>1. ASSUME NEW t \in Tasks, tstate[t] = "waiting"
        PROVE  t \in E!Listed \cup UNION {E!Held(th) : th \in Threads}
    BY <1>2, <1>6, <1>8, <2>1
  <2>2. ASSUME NEW t \in E!Listed \cup UNION {E!Held(th) : th \in Threads}
        PROVE  t \in Tasks /\ tstate[t] = "waiting"
    <3>1. CASE t \in S
      BY <1>1, <1>8, <3>1
    <3>2. CASE t \notin S
      <4>1. PICK th \in Threads : t \in E!Held(th)
        BY <1>2, <2>2, <3>2
      <4>2. t \in Tasks
        BY <1>7, <4>1
      <4>3. Has(kept, H, th, t)
        BY <1>6, <4>1, <4>2
      <4> QED BY <1>8, <4>2, <4>3
    <3> QED BY <3>1, <3>2
  <2> QED BY <2>1, <2>2
<1>11. ASSUME NEW th \in Threads
       PROVE  /\ E!Listed \cap E!Held(th) = {} /\ kept[th] \notin E!NodesFrom(curr[th])
              /\ \A o \in Threads \ {th} : E!Held(o) \cap E!Held(th) = {}
  <2>1. E!Listed \cap E!Held(th) = {}
    BY <1>1, <1>2, <1>6, <1>8
  <2>2. kept[th] \notin E!NodesFrom(curr[th])
    BY <1>4, <1>8
  <2>3. \A o \in Threads \ {th} : E!Held(o) \cap E!Held(th) = {}
    BY <1>6, <1>7, <1>8
  <2> QED BY <2>1, <2>2, <2>3
<1>12. E!OnOneList
  BY <1>10, <1>11 DEF E!OnOneList
<1> QED BY <1>2, <1>3, <1>4, <1>5, <1>9, <1>12

\* Nothing that the lists depend on changes but for tasks that do not wait.
LEMMA StackQuiet ==
  ASSUME NEW h, NEW f, NEW cu, NEW ke, NEW ts, NEW ts2, NEW S, NEW H,
         Stack(h, f, cu, ke, ts, S, H),
         \A t \in Tasks : ts2[t] = "waiting" <=> ts[t] = "waiting"
  PROVE  Stack(h, f, cu, ke, ts2, S, H)
BY DEF Stack, Waits

\* reset: READY and NULL are lists of nobody.
LEMMA StackReset ==
  ASSUME NEW f, NEW cu, NEW ke, NEW ts, NEW S, NEW H, Stack(E!READY, f, cu, ke, ts, S, H)
  PROVE  Stack(NULL, f, cu, ke, ts, S, H) /\ S = {}
<1>1. S = {} /\ NULL # E!READY
  BY ReadyIsNoTask DEF Stack, Lists
<1>2. Listing(NULL, f, S)
  BY <1>1, ListNone
<1> QED BY <1>1, <1>2 DEF Stack, Lists

\* A task pushes its node.
LEMMA StackPush ==
  ASSUME NEW h, NEW f \in Links, NEW cu, NEW ke, NEW ts \in States, NEW S, NEW H,
         Stack(h, f, cu, ke, ts, S, H), h # E!READY,
         NEW t \in Tasks, ts[t] # "waiting"
  PROVE  Stack(t, [f EXCEPT ![t] = h], cu, ke, [ts EXCEPT ![t] = "waiting"], S \cup {t}, H)
<1>1. PICK g : g = [f EXCEPT ![t] = h]
  OBVIOUS
<1>2. PICK ts2 : ts2 = [ts EXCEPT ![t] = "waiting"]
  OBVIOUS
<1>3. PICK S2 : S2 = S \cup {t}
  OBVIOUS
<1>4. /\ S \in SUBSET Tasks /\ H \in [Threads -> SUBSET Tasks] /\ Listing(h, f, S)
      /\ \A th \in Threads : Listing(cu[th], f, H[th])
  BY DEF Stack, Lists
<1>5. /\ \A th \in Threads, u \in S : ~Has(ke, H, th, u)
      /\ \A th \in Threads : ke[th] \notin H[th]
      /\ \A a, b \in Threads, u \in Tasks : Has(ke, H, a, u) /\ Has(ke, H, b, u) => a = b
      /\ \A u \in Tasks : ts[u] = "waiting" <=> u \in S \/ \E th \in Threads : Has(ke, H, th, u)
  BY DEF Stack, Apart, Waits
<1>6. g[t] = h /\ \A u \in Tasks : u # t => g[u] = f[u]
  BY <1>1 DEF Links
<1>7. ts2[t] = "waiting" /\ \A u \in Tasks : u # t => ts2[u] = ts[u]
  BY <1>2 DEF States
<1>8. t \notin S /\ \A th \in Threads : ~Has(ke, H, th, t)
  BY <1>5
<1>9. \A th \in Threads : t \notin H[th] /\ H[th] \subseteq Tasks
  BY <1>4, <1>8 DEF Has
<1>10. Listing(t, g, S2)
  <2>1. \A u \in S : g[u] = f[u]
    BY <1>4, <1>6, <1>8
  <2> QED BY <1>3, <1>4, <1>6, <1>8, <2>1, ListPush DEF Links
<1>11. ASSUME NEW th \in Threads PROVE Listing(cu[th], g, H[th])
  <2>1. \A u \in H[th] : g[u] = f[u]
    BY <1>6, <1>9
  <2> QED BY <1>4, <2>1, ListKept
<1>12. Lists(t, g, cu, S2, H)
  <2>1. t # E!READY
    BY ReadyIsNoTask
  <2> QED BY <1>3, <1>4, <1>10, <1>11, <2>1 DEF Lists
<1>13. Apart(ke, S2, H)
  BY <1>3, <1>5, <1>8 DEF Apart
<1>14. Waits(ke, ts2, S2, H)
  BY <1>3, <1>5, <1>7, <1>8 DEF Waits
<1> QED BY <1>1, <1>2, <1>3, <1>12, <1>13, <1>14 DEF Stack

\* One exchange takes the whole list: th, which held nothing, walks it.
LEMMA StackTake ==
  ASSUME NEW h, NEW f, NEW cu \in Places, NEW ke, NEW ts, NEW S, NEW H,
         Stack(h, f, cu, ke, ts, S, H), NEW th \in Threads, cu[th] = NULL,
         NEW h2 \in {NULL, E!READY}, NEW c2, c2 = IF h = E!READY THEN NULL ELSE h
  PROVE  H[th] = {} /\ Stack(h2, f, [cu EXCEPT ![th] = c2], ke, ts, {}, [H EXCEPT ![th] = S])
<1>1. PICK cu2 : cu2 = [cu EXCEPT ![th] = c2]
  OBVIOUS
<1>2. PICK H2 : H2 = [H EXCEPT ![th] = S]
  OBVIOUS
<1>3. /\ S \in SUBSET Tasks /\ H \in [Threads -> SUBSET Tasks]
      /\ IF h = E!READY THEN S = {} ELSE Listing(h, f, S)
      /\ \A o \in Threads : Listing(cu[o], f, H[o])
  BY DEF Stack, Lists
<1>4. /\ \A o \in Threads, u \in S : ~Has(ke, H, o, u)
      /\ \A o \in Threads : ke[o] \notin H[o]
      /\ \A a, b \in Threads, u \in Tasks : Has(ke, H, a, u) /\ Has(ke, H, b, u) => a = b
      /\ \A u \in Tasks : ts[u] = "waiting" <=> u \in S \/ \E o \in Threads : Has(ke, H, o, u)
  BY DEF Stack, Apart, Waits
<1>5. H[th] = {}
  BY <1>3, ListHead
<1>6. H2 \in [Threads -> SUBSET Tasks] /\ H2[th] = S /\ \A o \in Threads : o # th => H2[o] = H[o]
  BY <1>2, <1>3
<1>7. cu2[th] = c2 /\ \A o \in Threads : o # th => cu2[o] = cu[o]
  BY <1>1 DEF Places
<1>8. Listing(c2, f, S)
  <2>1. CASE h = E!READY
    BY <1>3, <2>1, ListNone
  <2>2. CASE h # E!READY
    BY <1>3, <2>2
  <2> QED BY <2>1, <2>2
<1>9. IF h2 = E!READY THEN {} = {} ELSE Listing(h2, f, {})
  BY ListNone
<1>10. Lists(h2, f, cu2, {}, H2)
  <2>1. \A o \in Threads : Listing(cu2[o], f, H2[o])
    BY <1>3, <1>6, <1>7, <1>8
  <2> QED BY <1>6, <1>9, <2>1 DEF Lists
<1>11. \A o \in Threads, t \in Tasks : Has(ke, H2, o, t) <=> Has(ke, H, o, t) \/ (o = th /\ t \in S)
  BY <1>5, <1>6 DEF Has
<1>12. Apart(ke, {}, H2)
  <2>1. \A o \in Threads : ke[o] \notin H2[o]
    <3>1. ke[th] \notin S
      BY <1>4 DEF Has
    <3> QED BY <1>4, <1>6, <3>1
  <2>2. ASSUME NEW a \in Threads, NEW b \in Threads, NEW t \in Tasks,
               Has(ke, H2, a, t), Has(ke, H2, b, t)
        PROVE  a = b
    BY <1>4, <1>11, <2>2
  <2> QED BY <2>1, <2>2 DEF Apart
<1>13. Waits(ke, ts, {}, H2)
  BY <1>4, <1>11 DEF Waits
<1> QED BY <1>1, <1>2, <1>5, <1>10, <1>12, <1>13 DEF Stack

\* co_set: the same, but th keeps the newest node and walks the others.
LEMMA StackTakeKeep ==
  ASSUME NEW h \in Tasks, NEW f, NEW cu \in Places, NEW ke \in Places, NEW ts, NEW S, NEW H,
         Stack(h, f, cu, ke, ts, S, H), NEW th \in Threads, cu[th] = NULL, ke[th] = NULL
  PROVE  /\ H[th] = {} /\ h \in S
         /\ Stack(E!READY, f, [cu EXCEPT ![th] = f[h]], [ke EXCEPT ![th] = h], ts, {},
                  [H EXCEPT ![th] = S \ {h}])
<1>1. PICK cu2 : cu2 = [cu EXCEPT ![th] = f[h]]
  OBVIOUS
<1>2. PICK ke2 : ke2 = [ke EXCEPT ![th] = h]
  OBVIOUS
<1>3. PICK H2 : H2 = [H EXCEPT ![th] = S \ {h}]
  OBVIOUS
<1>4. /\ S \in SUBSET Tasks /\ H \in [Threads -> SUBSET Tasks] /\ Listing(h, f, S)
      /\ \A o \in Threads : Listing(cu[o], f, H[o])
  BY ReadyIsNoTask DEF Stack, Lists
<1>5. /\ \A o \in Threads, u \in S : ~Has(ke, H, o, u)
      /\ \A o \in Threads : ke[o] \notin H[o]
      /\ \A a, b \in Threads, u \in Tasks : Has(ke, H, a, u) /\ Has(ke, H, b, u) => a = b
      /\ \A u \in Tasks : ts[u] = "waiting" <=> u \in S \/ \E o \in Threads : Has(ke, H, o, u)
  BY DEF Stack, Apart, Waits
<1>6. H[th] = {}
  BY <1>4, ListHead
<1>7. H2 \in [Threads -> SUBSET Tasks] /\ H2[th] = S \ {h} /\ \A o \in Threads : o # th => H2[o] = H[o]
  BY <1>3, <1>4
<1>8. cu2[th] = f[h] /\ \A o \in Threads : o # th => cu2[o] = cu[o]
  BY <1>1 DEF Places
<1>9. ke2[th] = h /\ \A o \in Threads : o # th => ke2[o] = ke[o]
  BY <1>2 DEF Places
<1>10. Listing(f[h], f, S \ {h}) /\ h \in S
  BY <1>4, NullAssumption, ListFirst
<1>11. Lists(E!READY, f, cu2, {}, H2)
  <2>1. \A o \in Threads : Listing(cu2[o], f, H2[o])
    BY <1>4, <1>7, <1>8, <1>10
  <2> QED BY <1>7, <2>1 DEF Lists
<1>12. ASSUME NEW o \in Threads, NEW t \in Tasks
       PROVE  Has(ke2, H2, o, t) <=> Has(ke, H, o, t) \/ (o = th /\ t \in S)
  <2>1. CASE o = th
    BY <1>6, <1>7, <1>9, <1>10, <2>1, NullAssumption DEF Has
  <2>2. CASE o # th
    BY <1>7, <1>9, <2>2 DEF Has
  <2> QED BY <2>1, <2>2
<1>13. Apart(ke2, {}, H2)
  <2>1. \A o \in Threads : ke2[o] \notin H2[o]
    BY <1>5, <1>7, <1>9
  <2>2. ASSUME NEW a \in Threads, NEW b \in Threads, NEW t \in Tasks,
               Has(ke2, H2, a, t), Has(ke2, H2, b, t)
        PROVE  a = b
    BY <1>5, <1>12, <2>2
  <2> QED BY <2>1, <2>2 DEF Apart
<1>14. Waits(ke2, ts, {}, H2)
  BY <1>5, <1>12 DEF Waits
<1> QED BY <1>1, <1>2, <1>3, <1>6, <1>10, <1>11, <1>13, <1>14 DEF Stack

\* A batch of a walk is posted.
Posted(ts, batch) == [t \in Tasks |-> IF t \in batch THEN "ready" ELSE ts[t]]
Without(H, th, batch) == [H EXCEPT ![th] = @ \ batch]

\* A batch of nodes of the thread's list is posted: their tasks wait no longer.
LEMMA StackPost ==
  ASSUME NEW h, NEW f, NEW cu \in Places, NEW ke, NEW ts, NEW S, NEW H,
         Stack(h, f, cu, ke, ts, S, H), NEW th \in Threads,
         NEW batch, batch \subseteq H[th], NEW c2, Listing(c2, f, H[th] \ batch)
  PROVE  Stack(h, f, [cu EXCEPT ![th] = c2], ke, Posted(ts, batch), S, Without(H, th, batch))
<1>1. PICK cu2 : cu2 = [cu EXCEPT ![th] = c2]
  OBVIOUS
<1>2. PICK ts2 : ts2 = Posted(ts, batch)
  OBVIOUS
<1>3. PICK H2 : H2 = Without(H, th, batch)
  OBVIOUS
<1>4. /\ S \in SUBSET Tasks /\ H \in [Threads -> SUBSET Tasks]
      /\ IF h = E!READY THEN S = {} ELSE Listing(h, f, S)
      /\ \A o \in Threads : Listing(cu[o], f, H[o])
  BY DEF Stack, Lists
<1>5. /\ \A o \in Threads, u \in S : ~Has(ke, H, o, u)
      /\ \A o \in Threads : ke[o] \notin H[o]
      /\ \A a, b \in Threads, u \in Tasks : Has(ke, H, a, u) /\ Has(ke, H, b, u) => a = b
      /\ \A u \in Tasks : ts[u] = "waiting" <=> u \in S \/ \E o \in Threads : Has(ke, H, o, u)
  BY DEF Stack, Apart, Waits
<1>6. H2 \in [Threads -> SUBSET Tasks] /\ H2[th] = H[th] \ batch /\ \A o \in Threads : o # th => H2[o] = H[o]
  BY <1>3, <1>4 DEF Without
<1>7. cu2[th] = c2 /\ \A o \in Threads : o # th => cu2[o] = cu[o]
  BY <1>1 DEF Places
<1>8. \A t \in Tasks : ts2[t] = IF t \in batch THEN "ready" ELSE ts[t]
  BY <1>2 DEF Posted
<1>9. Lists(h, f, cu2, S, H2)
  <2>1. \A o \in Threads : Listing(cu2[o], f, H2[o])
    BY <1>4, <1>6, <1>7
  <2> QED BY <1>4, <1>6, <2>1 DEF Lists
<1>10. \A t \in batch : t \in Tasks /\ Has(ke, H, th, t)
  BY <1>4 DEF Has
<1>11. ASSUME NEW o \in Threads, NEW t \in Tasks
       PROVE  Has(ke, H2, o, t) <=> Has(ke, H, o, t) /\ t \notin batch
  <2>1. CASE o = th
    BY <1>5, <1>6, <2>1 DEF Has
  <2>2. CASE o # th
    <3>1. Has(ke, H2, o, t) <=> Has(ke, H, o, t)
      BY <1>6, <2>2 DEF Has
    <3>2. Has(ke, H, o, t) => t \notin batch
      BY <1>5, <1>10, <2>2
    <3> QED BY <3>1, <3>2
  <2> QED BY <2>1, <2>2
<1>12. \A t \in S : t \notin batch
  BY <1>5, <1>10
<1>13. Apart(ke, S, H2)
  <2>1. \A o \in Threads : ke[o] \notin H2[o]
    BY <1>5, <1>6
  <2>2. ASSUME NEW a \in Threads, NEW b \in Threads, NEW t \in Tasks,
               Has(ke, H2, a, t), Has(ke, H2, b, t)
        PROVE  a = b
    BY <1>5, <1>11, <2>2
  <2>3. \A o \in Threads, t \in S : ~Has(ke, H2, o, t)
    BY <1>4, <1>5, <1>11
  <2> QED BY <2>1, <2>2, <2>3 DEF Apart
<1>14. Waits(ke, ts2, S, H2)
  <2>1. ASSUME NEW t \in Tasks
        PROVE  ts2[t] = "waiting" <=> t \in S \/ \E o \in Threads : Has(ke, H2, o, t)
    <3>1. CASE t \in batch
      BY <1>8, <1>11, <1>12, <3>1
    <3>2. CASE t \notin batch
      BY <1>5, <1>8, <1>11, <3>2
    <3> QED BY <3>1, <3>2
  <2> QED BY <2>1 DEF Waits
<1> QED BY <1>1, <1>2, <1>3, <1>9, <1>13, <1>14 DEF Stack

\* The kept node runs, and a thread that keeps nothing any more.
LEMMA StackTransfer ==
  ASSUME NEW h, NEW f, NEW cu, NEW ke \in Places, NEW ts, NEW ts2, NEW S, NEW H,
         Stack(h, f, cu, ke, ts, S, H), NEW th \in Threads, ke[th] \in Tasks,
         \A t \in Tasks : ts2[t] = "waiting" <=> ts[t] = "waiting" /\ t # ke[th]
  PROVE  Stack(h, f, cu, [ke EXCEPT ![th] = NULL], ts2, S, H)
<1>1. PICK ke2 : ke2 = [ke EXCEPT ![th] = NULL]
  OBVIOUS
<1>2. S \in SUBSET Tasks /\ H \in [Threads -> SUBSET Tasks]
  BY DEF Stack, Lists
<1>3. /\ \A o \in Threads, u \in S : ~Has(ke, H, o, u)
      /\ \A o \in Threads : ke[o] \notin H[o]
      /\ \A a, b \in Threads, u \in Tasks : Has(ke, H, a, u) /\ Has(ke, H, b, u) => a = b
      /\ \A u \in Tasks : ts[u] = "waiting" <=> u \in S \/ \E o \in Threads : Has(ke, H, o, u)
  BY DEF Stack, Apart, Waits
<1>4. ke2[th] = NULL /\ \A o \in Threads : o # th => ke2[o] = ke[o]
  BY <1>1 DEF Places
<1>5. Has(ke, H, th, ke[th])
  BY DEF Has
<1>6. ASSUME NEW o \in Threads, NEW t \in Tasks
      PROVE  Has(ke2, H, o, t) <=> Has(ke, H, o, t) /\ t # ke[th]
  <2>1. CASE o = th
    BY <1>3, <1>4, <2>1, NullAssumption DEF Has
  <2>2. CASE o # th
    <3>1. Has(ke2, H, o, t) <=> Has(ke, H, o, t)
      BY <1>4, <2>2 DEF Has
    <3>2. Has(ke, H, o, t) => t # ke[th]
      BY <1>3, <1>5, <2>2
    <3> QED BY <3>1, <3>2
  <2> QED BY <2>1, <2>2
<1>7. ke[th] \notin S
  BY <1>3, <1>5
<1>8. Apart(ke2, S, H)
  <2>1. \A o \in Threads : ke2[o] \notin H[o]
    BY <1>2, <1>3, <1>4, NullAssumption
  <2>2. ASSUME NEW a \in Threads, NEW b \in Threads, NEW t \in Tasks,
               Has(ke2, H, a, t), Has(ke2, H, b, t)
        PROVE  a = b
    BY <1>3, <1>6, <2>2
  <2>3. \A o \in Threads, t \in S : ~Has(ke2, H, o, t)
    BY <1>2, <1>3, <1>6
  <2> QED BY <2>1, <2>2, <2>3 DEF Apart
<1>9. Waits(ke2, ts2, S, H)
  BY <1>3, <1>6, <1>7 DEF Waits
<1> QED BY <1>1, <1>8, <1>9 DEF Stack, Lists

\* unlink: the walk of th loses the node of the task that goes on here.
LEMMA StackUnlink ==
  ASSUME NEW h, NEW f \in Links, NEW cu \in Places, NEW ke, NEW ts \in States, NEW S, NEW H,
         Stack(h, f, cu, ke, ts, S, H), NEW th \in Threads, NEW me \in H[th],
         NEW f2, NEW cu2,
         IF cu[th] = me
           THEN cu2 = [cu EXCEPT ![th] = f[me]] /\ f2 = f
           ELSE /\ cu2 = cu
                /\ f2 = [t \in Tasks |-> IF t \in H[th] /\ f[t] = me THEN f[me] ELSE f[t]]
  PROVE  /\ f2 \in Links /\ cu2 \in Places
         /\ Stack(h, f2, cu2, ke, [ts EXCEPT ![me] = "running"], S, Without(H, th, {me}))
<1>1. PICK ts2 : ts2 = [ts EXCEPT ![me] = "running"]
  OBVIOUS
<1>2. PICK H2 : H2 = Without(H, th, {me})
  OBVIOUS
<1>4. /\ S \in SUBSET Tasks /\ H \in [Threads -> SUBSET Tasks]
      /\ IF h = E!READY THEN S = {} ELSE Listing(h, f, S)
      /\ \A o \in Threads : Listing(cu[o], f, H[o])
  BY DEF Stack, Lists
<1>5. /\ \A o \in Threads, u \in S : ~Has(ke, H, o, u)
      /\ \A o \in Threads : ke[o] \notin H[o]
      /\ \A a, b \in Threads, u \in Tasks : Has(ke, H, a, u) /\ Has(ke, H, b, u) => a = b
      /\ \A u \in Tasks : ts[u] = "waiting" <=> u \in S \/ \E o \in Threads : Has(ke, H, o, u)
  BY DEF Stack, Apart, Waits
<1>6. H2 \in [Threads -> SUBSET Tasks] /\ H2[th] = H[th] \ {me} /\ \A o \in Threads : o # th => H2[o] = H[o]
  BY <1>2, <1>4 DEF Without
<1>7. me \in Tasks /\ Has(ke, H, th, me) /\ f[me] \in Tasks \cup {NULL}
  BY <1>4 DEF Has, Links
<1>8. ts2[me] = "running" /\ \A t \in Tasks : t # me => ts2[t] = ts[t]
  BY <1>1, <1>7 DEF States
<1>9. \A t \in Tasks : t \in H[th] => t \notin S /\ \A o \in Threads : o # th => t \notin H[o]
  BY <1>5 DEF Has
<1>10. /\ f2 \in Links /\ cu2 \in Places /\ Listing(cu2[th], f2, H2[th])
       /\ \A t \in Tasks : t \notin H[th] => f2[t] = f[t]
       /\ \A o \in Threads : o # th => cu2[o] = cu[o]
  <2>1. CASE cu[th] = me
    <3>1. cu2 = [cu EXCEPT ![th] = f[me]] /\ f2 = f
      BY <2>1
    <3>2. cu2 \in Places /\ cu2[th] = f[me] /\ \A o \in Threads : o # th => cu2[o] = cu[o]
      BY <1>7, <3>1 DEF Places
    <3>3. Listing(f[me], f, H[th] \ {me})
      BY <1>4, <1>7, <2>1, NullAssumption, ListFirst
    <3> QED BY <1>6, <3>1, <3>2, <3>3
  <2>2. CASE cu[th] # me
    <3>1. cu2 = cu /\ f2 = [t \in Tasks |-> IF t \in H[th] /\ f[t] = me THEN f[me] ELSE f[t]]
      BY <2>2
    <3>2. \A t \in Tasks : f2[t] = IF t \in H[th] /\ f[t] = me THEN f[me] ELSE f[t]
      BY <3>1
    <3>3. f2 \in Links
      BY <1>7, <3>1 DEF Links
    <3>4. Bypass(f, f2, me, H[th])
      BY <1>4, <3>2 DEF Bypass
    <3>5. Listing(cu[th], f2, H[th] \ {me})
      BY <1>4, <2>2, <3>4, ListRemove DEF Links
    <3> QED BY <1>6, <3>1, <3>2, <3>3, <3>5
  <2> QED BY <2>1, <2>2
<1>11. Lists(h, f2, cu2, S, H2)
  <2>1. ASSUME NEW o \in Threads PROVE Listing(cu2[o], f2, H2[o])
    <3>1. CASE o = th
      BY <1>10, <3>1
    <3>2. CASE o # th
      <4>1. \A t \in H[o] : f2[t] = f[t]
        BY <1>4, <1>9, <1>10, <3>2
      <4> QED BY <1>4, <1>6, <1>10, <3>2, <4>1, ListKept
    <3> QED BY <3>1, <3>2
  <2>2. IF h = E!READY THEN S = {} ELSE Listing(h, f2, S)
    <3>1. \A t \in S : f2[t] = f[t]
      BY <1>4, <1>9, <1>10
    <3> QED BY <1>4, <3>1, ListKept
  <2> QED BY <1>4, <1>6, <2>1, <2>2 DEF Lists
<1>12. ASSUME NEW o \in Threads, NEW t \in Tasks
       PROVE  Has(ke, H2, o, t) <=> Has(ke, H, o, t) /\ t # me
  <2>1. CASE o = th
    BY <1>5, <1>6, <2>1 DEF Has
  <2>2. CASE o # th
    <3>1. Has(ke, H2, o, t) <=> Has(ke, H, o, t)
      BY <1>6, <2>2 DEF Has
    <3>2. Has(ke, H, o, t) => t # me
      BY <1>5, <1>7, <2>2
    <3> QED BY <3>1, <3>2
  <2> QED BY <2>1, <2>2
<1>13. me \notin S
  BY <1>5, <1>7
<1>14. Apart(ke, S, H2)
  <2>1. \A o \in Threads : ke[o] \notin H2[o]
    BY <1>5, <1>6
  <2>2. ASSUME NEW a \in Threads, NEW b \in Threads, NEW t \in Tasks,
               Has(ke, H2, a, t), Has(ke, H2, b, t)
        PROVE  a = b
    BY <1>5, <1>12, <2>2
  <2>3. \A o \in Threads, t \in S : ~Has(ke, H2, o, t)
    BY <1>4, <1>5, <1>12
  <2> QED BY <2>1, <2>2, <2>3 DEF Apart
<1>15. Waits(ke, ts2, S, H2)
  BY <1>5, <1>8, <1>12, <1>13 DEF Waits
<1> QED BY <1>1, <1>2, <1>10, <1>11, <1>14, <1>15 DEF Stack

-----------------------------------------------------------------------------
(* The state that the event, the latch and the barrier have in common. *)

Stops == {"idle", "user", "wake", "transfer", "set"} \cup B!Steps

CoreTypes ==
  /\ head \in Tasks \cup {NULL, E!READY} /\ next \in Links
  /\ curr \in Places /\ kept \in Places /\ self \in Places
  /\ tstate \in States /\ pc \in [Threads -> Stops]

\* Who runs a task, and who runs none.
SelfRuns ==
  /\ \A th \in Threads : pc[th] = "idle" <=> self[th] = NULL
  /\ \A th \in Threads : pc[th] \notin B!Steps \cup {"idle"} => tstate[self[th]] = "running"
  /\ \A a, b \in Threads : self[a] # NULL /\ self[a] = self[b] => a = b

\* Only who wakes has something to walk.
WalksOnly ==
  \A th \in Threads :
    /\ curr[th] # NULL => pc[th] \in {"wake", "reset", "unlink"}
    /\ kept[th] # NULL => pc[th] \in {"wake", "transfer"}
    /\ pc[th] = "transfer" => kept[th] # NULL

\* A task that arrives at the barrier stays on a list until it has unlinked itself.
StaysListed(S, H) ==
  \A th \in Threads :
    /\ pc[th] \in {"arrive", "take"} => self[th] \in S
    /\ pc[th] \in {"reset", "unlink"} => self[th] \in H[th]

Core(S, H) ==
  /\ CoreTypes /\ SelfRuns /\ WalksOnly /\ StaysListed(S, H)
  /\ Stack(head, next, curr, kept, tstate, S, H)

\* A thread that is not idle runs a task, one that waits in its own list at the barrier.
LEMMA SelfIsTask ==
  ASSUME NEW S, NEW H, Core(S, H), NEW th \in Threads, pc[th] # "idle"
  PROVE  /\ self[th] \in Tasks
         /\ tstate[self[th]] = IF pc[th] \in B!Steps THEN "waiting" ELSE "running"
<1>1. self[th] \in Tasks
  BY DEF Core, CoreTypes, SelfRuns, Places
<1>2. CASE pc[th] \notin B!Steps
  BY <1>1, <1>2 DEF Core, SelfRuns
<1>3. CASE pc[th] \in B!Steps
  <2>1. self[th] \in S \/ Has(kept, H, th, self[th])
    BY <1>3 DEF Core, StaysListed, B!Steps, Has
  <2>2. tstate[self[th]] = "waiting"
    BY <1>1, <2>1 DEF Core, Stack, Waits
  <2> QED BY <1>1, <1>3, <2>2
<1> QED BY <1>2, <1>3

\* One thread, th, moves to p and then runs me: what its step has to show for the lists S2 and H2.
Moves(th, p, me, S2, H2) ==
  /\ p \in Stops /\ me \in Tasks \cup {NULL}
  /\ pc' = [pc EXCEPT ![th] = p] /\ self' = [self EXCEPT ![th] = me]
  /\ head' \in Tasks \cup {NULL, E!READY} /\ next' \in Links /\ curr' \in Places /\ kept' \in Places
  /\ tstate' \in States /\ Stack(head', next', curr', kept', tstate', S2, H2)
  /\ \A o \in Threads : o # th => curr'[o] = curr[o] /\ kept'[o] = kept[o]
  /\ p = "idle" <=> me = NULL
  /\ p \notin B!Steps \cup {"idle"} => tstate'[me] = "running"
  /\ me # NULL => \A o \in Threads : o # th => self[o] # me
  /\ curr'[th] # NULL => p \in {"wake", "reset", "unlink"}
  /\ kept'[th] # NULL => p \in {"wake", "transfer"}
  /\ p = "transfer" => kept'[th] # NULL
  /\ p \in {"arrive", "take"} => me \in S2
  /\ p \in {"reset", "unlink"} => me \in H2[th]
  /\ \A o \in Threads : o # th =>
        /\ pc[o] \notin B!Steps \cup {"idle"} => tstate'[self[o]] = "running"
        /\ pc[o] \in {"arrive", "take"} => self[o] \in S2
        /\ pc[o] \in {"reset", "unlink"} => self[o] \in H2[o]

\* Such a step keeps the lists.
LEMMA CoreMove ==
  ASSUME NEW S, NEW H, NEW S2, NEW H2, Core(S, H), NEW th \in Threads,
         NEW p, NEW me, Moves(th, p, me, S2, H2)
  PROVE  Core(S2, H2)'
<1>0. /\ p \in Stops /\ me \in Tasks \cup {NULL}
      /\ pc' = [pc EXCEPT ![th] = p] /\ self' = [self EXCEPT ![th] = me]
      /\ head' \in Tasks \cup {NULL, E!READY} /\ next' \in Links /\ curr' \in Places /\ kept' \in Places
      /\ tstate' \in States /\ Stack(head', next', curr', kept', tstate', S2, H2)
      /\ \A o \in Threads : o # th => curr'[o] = curr[o] /\ kept'[o] = kept[o]
      /\ p = "idle" <=> me = NULL
      /\ p \notin B!Steps \cup {"idle"} => tstate'[me] = "running"
      /\ me # NULL => \A o \in Threads : o # th => self[o] # me
      /\ curr'[th] # NULL => p \in {"wake", "reset", "unlink"}
      /\ kept'[th] # NULL => p \in {"wake", "transfer"}
      /\ p = "transfer" => kept'[th] # NULL
      /\ p \in {"arrive", "take"} => me \in S2
      /\ p \in {"reset", "unlink"} => me \in H2[th]
      /\ \A o \in Threads : o # th =>
            /\ pc[o] \notin B!Steps \cup {"idle"} => tstate'[self[o]] = "running"
            /\ pc[o] \in {"arrive", "take"} => self[o] \in S2
            /\ pc[o] \in {"reset", "unlink"} => self[o] \in H2[o]
  BY DEF Moves
<1>1. /\ pc \in [Threads -> Stops] /\ self \in Places
      /\ \A o \in Threads : pc[o] = "idle" <=> self[o] = NULL
      /\ \A a, b \in Threads : self[a] # NULL /\ self[a] = self[b] => a = b
  BY <1>0 DEF Core, CoreTypes, SelfRuns
<1>2. /\ pc' \in [Threads -> Stops] /\ pc'[th] = p
      /\ \A o \in Threads : o # th => pc'[o] = pc[o]
  BY <1>0, <1>1
<1>3. /\ self' \in Places /\ self'[th] = me
      /\ \A o \in Threads : o # th => self'[o] = self[o]
  BY <1>0, <1>1 DEF Places
<1>4. CoreTypes'
  BY <1>0, <1>2, <1>3 DEF CoreTypes
<1>5. SelfRuns'
  <2>1. \A o \in Threads : pc'[o] = "idle" <=> self'[o] = NULL
    BY <1>0, <1>1, <1>2, <1>3
  <2>2. \A o \in Threads : pc'[o] \notin B!Steps \cup {"idle"} => tstate'[self'[o]] = "running"
    BY <1>0, <1>2, <1>3
  <2>3. ASSUME NEW a \in Threads, NEW b \in Threads, self'[a] # NULL, self'[a] = self'[b]
        PROVE  a = b
    BY <1>0, <1>1, <1>3, <2>3
  <2> QED BY <2>1, <2>2, <2>3 DEF SelfRuns
<1>6. WalksOnly'
  <2>1. ASSUME NEW o \in Threads
        PROVE  /\ curr'[o] # NULL => pc'[o] \in {"wake", "reset", "unlink"}
               /\ kept'[o] # NULL => pc'[o] \in {"wake", "transfer"}
               /\ pc'[o] = "transfer" => kept'[o] # NULL
    <3>1. CASE o = th
      BY <1>0, <1>2, <3>1
    <3>2. CASE o # th
      BY <1>0, <1>2, <3>2 DEF Core, WalksOnly
    <3> QED BY <3>1, <3>2
  <2> QED BY <2>1 DEF WalksOnly
<1>7. StaysListed(S2, H2)'
  <2>1. ASSUME NEW o \in Threads
        PROVE  /\ pc'[o] \in {"arrive", "take"} => self'[o] \in S2
               /\ pc'[o] \in {"reset", "unlink"} => self'[o] \in H2[o]
    <3>1. CASE o = th
      BY <1>0, <1>2, <1>3, <3>1
    <3>2. CASE o # th
      BY <1>0, <1>2, <1>3, <3>2
    <3> QED BY <3>1, <3>2
  <2> QED BY <2>1 DEF StaysListed
<1> QED BY <1>0, <1>4, <1>5, <1>6, <1>7 DEF Core

\* What the other threads need when only a task that nobody runs, or th's own, changes.
LEMMA OthersKept ==
  ASSUME NEW S, NEW H, Core(S, H), NEW th \in Threads, NEW S2, NEW H2, S \subseteq S2,
         \A o \in Threads : o # th => H[o] \subseteq H2[o],
         NEW ts, \A o \in Threads : o # th /\ pc[o] \notin B!Steps \cup {"idle"}
                                       => ts[self[o]] = tstate[self[o]]
  PROVE  \A o \in Threads : o # th =>
            /\ pc[o] \notin B!Steps \cup {"idle"} => ts[self[o]] = "running"
            /\ pc[o] \in {"arrive", "take"} => self[o] \in S2
            /\ pc[o] \in {"reset", "unlink"} => self[o] \in H2[o]
<1>1. \A o \in Threads : o # th =>
            /\ pc[o] \notin B!Steps \cup {"idle"} => ts[self[o]] = "running"
  BY DEF Core, SelfRuns
<1>2. \A o \in Threads : o # th =>
            /\ pc[o] \in {"arrive", "take"} => self[o] \in S2
            /\ pc[o] \in {"reset", "unlink"} => self[o] \in H2[o]
  BY DEF Core, StaysListed
<1> QED BY <1>1, <1>2

\* An idle thread takes a ready task; no thread runs it already.
LEMMA CoreDispatch ==
  ASSUME NEW S, NEW H, Core(S, H), NEW th \in Threads, NEW t \in Tasks, E!Dispatch(th, t)
  PROVE  Core(S, H)'
<1>1. /\ pc[th] = "idle" /\ tstate[t] = "ready" /\ tstate' = [tstate EXCEPT ![t] = "running"]
      /\ self' = [self EXCEPT ![th] = t] /\ pc' = [pc EXCEPT ![th] = "user"]
      /\ UNCHANGED <<head, next, curr, kept>>
  BY DEF E!Dispatch
<1>2. CoreTypes /\ WalksOnly /\ Stack(head, next, curr, kept, tstate, S, H)
  BY DEF Core
<1>3. tstate' \in States /\ tstate'[t] = "running" /\ \A u \in Tasks : u # t => tstate'[u] = tstate[u]
  BY <1>1, <1>2 DEF CoreTypes, States
<1>4. \A o \in Threads : self[o] # t
  <2>1. \A o \in Threads : pc[o] = "idle" => self[o] # t
    BY NullAssumption DEF Core, SelfRuns
  <2>2. \A o \in Threads : pc[o] # "idle" => tstate[self[o]] # "ready"
    BY SelfIsTask
  <2> QED BY <1>1, <2>1, <2>2
<1>5. Stack(head', next', curr', kept', tstate', S, H)
  <2>1. \A u \in Tasks : tstate'[u] = "waiting" <=> tstate[u] = "waiting"
    BY <1>1, <1>3
  <2> QED BY <1>1, <1>2, <2>1, StackQuiet
<1>6. curr[th] = NULL /\ kept[th] = NULL
  BY <1>1, <1>2 DEF WalksOnly
<1>7. \A o \in Threads : o # th =>
            /\ pc[o] \notin B!Steps \cup {"idle"} => tstate'[self[o]] = "running"
            /\ pc[o] \in {"arrive", "take"} => self[o] \in S
            /\ pc[o] \in {"reset", "unlink"} => self[o] \in H[o]
  <2>1. \A o \in Threads : pc[o] \notin B!Steps \cup {"idle"} => tstate'[self[o]] = tstate[self[o]]
    BY <1>3, <1>4, SelfIsTask
  <2> QED BY <2>1, OthersKept
<1>8. /\ head' \in Tasks \cup {NULL, E!READY} /\ next' \in Links /\ curr' \in Places /\ kept' \in Places
      /\ "user" \in Stops /\ "user" \notin B!Steps \cup {"arrive", "take", "reset", "unlink"}
  BY <1>1, <1>2 DEF CoreTypes, Stops, B!Steps
<1>9. Moves(th, "user", t, S, H)
  BY <1>1, <1>3, <1>4, <1>5, <1>6, <1>7, <1>8, NullAssumption DEF Moves
<1> QED BY <1>9, CoreMove

\* A task ends and its thread is idle.
LEMMA CoreComplete ==
  ASSUME NEW S, NEW H, Core(S, H), NEW th \in Threads, E!Complete(th)
  PROVE  Core(S, H)'
<1>1. /\ pc[th] = "user" /\ tstate' = [tstate EXCEPT ![self[th]] = "done"]
      /\ self' = [self EXCEPT ![th] = NULL] /\ pc' = [pc EXCEPT ![th] = "idle"]
      /\ UNCHANGED <<head, next, curr, kept>>
  BY DEF E!Complete
<1>2. CoreTypes /\ SelfRuns /\ WalksOnly /\ Stack(head, next, curr, kept, tstate, S, H)
  BY DEF Core
<1>3. self[th] \in Tasks /\ tstate[self[th]] = "running"
  BY <1>1, SelfIsTask DEF B!Steps
<1>4. tstate' \in States /\ tstate'[self[th]] = "done" /\ \A u \in Tasks : u # self[th] => tstate'[u] = tstate[u]
  BY <1>1, <1>2, <1>3 DEF CoreTypes, States
<1>5. Stack(head', next', curr', kept', tstate', S, H)
  <2>1. \A u \in Tasks : tstate'[u] = "waiting" <=> tstate[u] = "waiting"
    BY <1>3, <1>4
  <2> QED BY <1>1, <1>2, <2>1, StackQuiet
<1>6. curr[th] = NULL /\ kept[th] = NULL
  BY <1>1, <1>2 DEF WalksOnly
<1>7. \A o \in Threads : o # th =>
            /\ pc[o] \notin B!Steps \cup {"idle"} => tstate'[self[o]] = "running"
            /\ pc[o] \in {"arrive", "take"} => self[o] \in S
            /\ pc[o] \in {"reset", "unlink"} => self[o] \in H[o]
  <2>1. \A o \in Threads : o # th /\ pc[o] # "idle" => self[o] \in Tasks /\ self[o] # self[th]
    BY <1>2, <1>3, NullAssumption, SelfIsTask DEF SelfRuns
  <2>2. \A o \in Threads : o # th /\ pc[o] \notin B!Steps \cup {"idle"} => tstate'[self[o]] = tstate[self[o]]
    BY <1>4, <2>1
  <2> QED BY <2>2, OthersKept
<1>8. /\ head' \in Tasks \cup {NULL, E!READY} /\ next' \in Links /\ curr' \in Places /\ kept' \in Places
      /\ "idle" \in Stops /\ NULL \in Tasks \cup {NULL}
  BY <1>1, <1>2 DEF CoreTypes, Stops
<1>9. Moves(th, "idle", NULL, S, H)
  BY <1>1, <1>4, <1>5, <1>6, <1>7, <1>8 DEF Moves
<1> QED BY <1>9, CoreMove

\* One step of a walk over chain c of at most k nodes, which goes on at w.
BatchPosted(th, c, k, w) ==
  /\ pc[th] = "wake"
  /\ \E n \in 1..k :
       /\ NULL \notin FirstOf(c, n)
       /\ tstate' = Posted(tstate, FirstOf(c, n))
       /\ curr' = [curr EXCEPT ![th] = c[n + 1]]
       /\ pc' = [pc EXCEPT ![th] = IF c[n + 1] = NULL THEN w ELSE "wake"]
  /\ UNCHANGED <<head, next, rounds, self, kept>>

\* The three users of WaiterStack walk alike.
LEMMA PostIsAlike ==
  ASSUME NEW th \in Threads, E!PostBatch(th) \/ L!PostBatch(th) \/ B!PostBatch(th)
  PROVE  BatchPosted(th, E!Chain(curr[th]), Cardinality(Tasks), E!AfterWake(th))
<1>1. \A h : L!Chain(h) = E!Chain(h) /\ B!Chain(h) = E!Chain(h)
  BY ChainIsWalk, Zenon
<1>2. L!AfterWake(th) = E!AfterWake(th) /\ B!AfterWake(th) = E!AfterWake(th)
  BY DEF L!AfterWake, E!AfterWake, B!AfterWake
<1>3. /\ E!Cardinality(Tasks) = Cardinality(Tasks)
      /\ L!Cardinality(Tasks) = Cardinality(Tasks)
      /\ B!Cardinality(Tasks) = Cardinality(Tasks)
  BY DEF E!Cardinality, L!Cardinality, B!Cardinality, Cardinality
<1>4. E!PostBatch(th) => BatchPosted(th, E!Chain(curr[th]), E!Cardinality(Tasks), E!AfterWake(th))
  BY Zenon DEF E!PostBatch, BatchPosted, FirstOf, Posted
<1>5. L!PostBatch(th) => BatchPosted(th, L!Chain(curr[th]), L!Cardinality(Tasks), L!AfterWake(th))
  BY Zenon DEF L!PostBatch, BatchPosted, FirstOf, Posted
<1>6. B!PostBatch(th) => BatchPosted(th, B!Chain(curr[th]), B!Cardinality(Tasks), B!AfterWake(th))
  BY Zenon DEF B!PostBatch, BatchPosted, FirstOf, Posted
<1> QED BY <1>1, <1>2, <1>3, <1>4, <1>5, <1>6, Zenon

\* wake_waiters_in_batches: what the walk reads before the tasks run again is a prefix of its list.
LEMMA CorePost ==
  ASSUME NEW S, NEW H, Core(S, H), NEW th \in Threads,
         BatchPosted(th, E!Chain(curr[th]), Cardinality(Tasks), E!AfterWake(th))
  PROVE  /\ \E batch \in SUBSET H[th] :
              Core(S, Without(H, th, batch))' /\ tstate' = Posted(tstate, batch)
         /\ pc[th] = "wake" /\ pc' = [pc EXCEPT ![th] = pc'[th]]
         /\ pc'[th] \in {"wake", E!AfterWake(th)}
         /\ UNCHANGED <<head, next, rounds, self, kept>>
<1>1. CoreTypes /\ SelfRuns /\ WalksOnly /\ Stack(head, next, curr, kept, tstate, S, H)
  BY DEF Core
<1>2. PICK n, batch, c2 :
        /\ n \in 1..Cardinality(Tasks)
        /\ batch = FirstOf(E!Chain(curr[th]), n) /\ NULL \notin batch
        /\ c2 = E!Chain(curr[th])[n + 1]
        /\ tstate' = Posted(tstate, batch)
        /\ curr' = [curr EXCEPT ![th] = c2]
        /\ pc' = [pc EXCEPT ![th] = IF c2 = NULL THEN E!AfterWake(th) ELSE "wake"]
  BY Zenon DEF BatchPosted
<1>3. pc[th] = "wake" /\ UNCHANGED <<head, next, rounds, self, kept>>
  BY DEF BatchPosted
<1>4. H \in [Threads -> SUBSET Tasks] /\ Listing(curr[th], next, H[th])
  BY <1>1 DEF Stack, Lists
<1>5. batch \in SUBSET H[th] /\ Listing(c2, next, H[th] \ batch)
  BY <1>2, <1>4, ListBatch
<1>6. c2 \in Tasks \cup {NULL}
  BY <1>5, ListHead
<1>7. PICK p : p = IF c2 = NULL THEN E!AfterWake(th) ELSE "wake"
  OBVIOUS
<1>8. /\ p \in {"wake", "transfer", "user"} /\ p \in {"wake", E!AfterWake(th)}
      /\ c2 # NULL => p = "wake"
      /\ kept[th] # NULL => p \in {"wake", "transfer"}
      /\ p = "transfer" => kept[th] # NULL
  BY <1>7 DEF E!AfterWake
<1>9. /\ p \in Stops /\ p # "idle" /\ p \notin B!Steps
      /\ p \notin {"arrive", "take", "reset", "unlink"} /\ "wake" \notin B!Steps
  BY <1>8 DEF Stops, B!Steps
<1>10. curr' \in Places /\ curr'[th] = c2 /\ \A o \in Threads : o # th => curr'[o] = curr[o]
  BY <1>1, <1>2, <1>6 DEF CoreTypes, Places
<1>11. pc' = [pc EXCEPT ![th] = p] /\ pc'[th] = p
  BY <1>1, <1>2, <1>7 DEF CoreTypes
<1>12. self[th] \in Tasks /\ tstate[self[th]] = "running"
  BY <1>3, <1>9, SelfIsTask
<1>13. PICK H2 : H2 = Without(H, th, batch)
  OBVIOUS
<1>14. Stack(head', next', curr', kept', tstate', S, H2)
  <2>1. Stack(head, next, [curr EXCEPT ![th] = c2], kept, Posted(tstate, batch), S, H2)
    BY <1>1, <1>5, <1>13, StackPost DEF CoreTypes
  <2> QED BY <1>2, <1>3, <2>1
<1>15. tstate' \in States /\ \A t \in Tasks : tstate'[t] = IF t \in batch THEN "ready" ELSE tstate[t]
  BY <1>1, <1>2 DEF Posted, States, CoreTypes
<1>16. \A t \in batch : t \in Tasks /\ tstate[t] = "waiting"
  <2>1. \A t \in batch : t \in Tasks /\ Has(kept, H, th, t)
    BY <1>4, <1>5 DEF Has
  <2> QED BY <1>1, <2>1 DEF Stack, Waits
<1>17. \A o \in Threads : pc[o] \notin B!Steps \cup {"idle"} => tstate'[self[o]] = "running"
  <2>1. ASSUME NEW o \in Threads, pc[o] \notin B!Steps \cup {"idle"}
        PROVE  tstate'[self[o]] = "running"
    <3>1. self[o] \in Tasks /\ tstate[self[o]] = "running"
      BY <2>1, SelfIsTask
    <3>2. self[o] \notin batch
      BY <1>16, <3>1
    <3> QED BY <1>15, <3>1, <3>2
  <2> QED BY <2>1
<1>18. \A o \in Threads : o # th =>
            /\ pc[o] \notin B!Steps \cup {"idle"} => tstate'[self[o]] = "running"
            /\ pc[o] \in {"arrive", "take"} => self[o] \in S
            /\ pc[o] \in {"reset", "unlink"} => self[o] \in H2[o]
  <2>1. \A o \in Threads : o # th => H2[o] = H[o]
    BY <1>4, <1>13 DEF Without
  <2> QED BY <1>17, <2>1 DEF Core, StaysListed
<1>19. self' = [self EXCEPT ![th] = self[th]]
  BY <1>1, <1>3 DEF CoreTypes, Places
<1>20. tstate'[self[th]] = "running"
  BY <1>3, <1>9, <1>17
<1>21. \A o \in Threads : o # th => self[o] # self[th]
  BY <1>1, <1>12, NullAssumption DEF SelfRuns
<1>22. head' \in Tasks \cup {NULL, E!READY} /\ next' \in Links /\ kept' \in Places
  BY <1>1, <1>3 DEF CoreTypes
<1>23. /\ curr'[th] # NULL => p \in {"wake", "reset", "unlink"}
       /\ kept'[th] # NULL => p \in {"wake", "transfer"}
       /\ p = "transfer" => kept'[th] # NULL
       /\ \A o \in Threads : o # th => curr'[o] = curr[o] /\ kept'[o] = kept[o]
       /\ p = "idle" <=> self[th] = NULL
       /\ p \in {"arrive", "take"} => self[th] \in S
       /\ p \in {"reset", "unlink"} => self[th] \in H2[th]
       /\ p \in Stops /\ self[th] \in Tasks \cup {NULL}
       /\ self[th] # NULL => \A o \in Threads : o # th => self[o] # self[th]
  BY <1>3, <1>8, <1>9, <1>10, <1>12, <1>21, NullAssumption
<1>24. Core(S, H2)'
  <2>1. Moves(th, p, self[th], S, H2)
    BY <1>10, <1>11, <1>14, <1>15, <1>18, <1>19, <1>20, <1>22, <1>23 DEF Moves
  <2> QED BY <2>1, CoreMove
<1> QED BY <1>2, <1>3, <1>5, <1>8, <1>11, <1>13, <1>24

\* The kept task runs on this thread, or is posted.
LEMMA CoreTransfer ==
  ASSUME NEW S, NEW H, Core(S, H), NEW th \in Threads, E!Transfer(th)
  PROVE  Core(S, H)'
<1>1. CoreTypes /\ SelfRuns /\ WalksOnly /\ Stack(head, next, curr, kept, tstate, S, H)
  BY DEF Core
<1>2. PICK k, me : k = kept[th] /\ me = self[th]
  OBVIOUS
<1>3. /\ pc[th] = "transfer" /\ kept' = [kept EXCEPT ![th] = NULL] /\ pc' = [pc EXCEPT ![th] = "user"]
      /\ UNCHANGED <<head, next, curr>>
      /\ \/ /\ tstate' = [tstate EXCEPT ![k] = "running", ![me] = "ready"]
            /\ self' = [self EXCEPT ![th] = k]
         \/ tstate' = [tstate EXCEPT ![k] = "ready"] /\ self' = self
  BY <1>2 DEF E!Transfer
<1>4. k \in Tasks /\ kept[th] \in Tasks /\ curr[th] = NULL
  BY <1>1, <1>2, <1>3 DEF CoreTypes, Places, WalksOnly
<1>5. me \in Tasks /\ tstate[me] = "running"
  BY <1>2, <1>3, SelfIsTask DEF B!Steps
<1>6. Has(kept, H, th, k) /\ tstate[k] = "waiting"
  BY <1>1, <1>2, <1>4 DEF Has, Stack, Waits
<1>7. \A o \in Threads : self[o] # k
  <2>1. ASSUME NEW o \in Threads, self[o] = k PROVE FALSE
    <3>1. pc[o] # "idle"
      BY <1>1, <1>4, <2>1, NullAssumption DEF SelfRuns
    <3>2. pc[o] \in B!Steps /\ o # th
      BY <1>3, <1>6, <2>1, <3>1, SelfIsTask DEF B!Steps
    <3>3. k \in S \/ Has(kept, H, o, k)
      BY <2>1, <3>2 DEF Core, StaysListed, Has, B!Steps
    <3> QED BY <1>1, <1>4, <1>6, <3>2, <3>3 DEF Stack, Apart
  <2> QED BY <2>1
<1>8. me # k /\ \A o \in Threads : o # th => self[o] # me
  BY <1>1, <1>2, <1>5, <1>7, NullAssumption DEF SelfRuns
<1>9. kept' \in Places /\ kept'[th] = NULL /\ \A o \in Threads : o # th => kept'[o] = kept[o]
  BY <1>1, <1>3 DEF CoreTypes, Places
<1>10. \E q \in {"ready", "running"}, r \in {"ready", "running"}, s \in {k, me} :
         /\ self' = [self EXCEPT ![th] = s]
         /\ tstate' \in States /\ tstate'[k] = q /\ tstate'[me] = r /\ tstate'[s] = "running"
         /\ \A t \in Tasks : t # k /\ t # me => tstate'[t] = tstate[t]
  <2>1. tstate \in States /\ self \in Places
    BY <1>1 DEF CoreTypes
  <2>2. CASE tstate' = [tstate EXCEPT ![k] = "running", ![me] = "ready"] /\ self' = [self EXCEPT ![th] = k]
    <3>1. /\ tstate' \in States /\ tstate'[k] = "running" /\ tstate'[me] = "ready"
          /\ \A t \in Tasks : t # k /\ t # me => tstate'[t] = tstate[t]
      BY <1>4, <1>5, <1>8, <2>1, <2>2 DEF States
    <3> QED BY <2>2, <3>1
  <2>3. CASE tstate' = [tstate EXCEPT ![k] = "ready"] /\ self' = self
    <3>1. /\ tstate' \in States /\ tstate'[k] = "ready" /\ tstate'[me] = "running"
          /\ \A t \in Tasks : t # k /\ t # me => tstate'[t] = tstate[t]
      BY <1>4, <1>5, <1>8, <2>1, <2>3 DEF States
    <3>2. self' = [self EXCEPT ![th] = me]
      BY <1>2, <2>1, <2>3 DEF Places
    <3> QED BY <3>1, <3>2
  <2> QED BY <1>3, <2>2, <2>3
<1>11. PICK s \in {k, me} :
         /\ self' = [self EXCEPT ![th] = s]
         /\ tstate' \in States /\ tstate'[k] # "waiting" /\ tstate'[me] # "waiting" /\ tstate'[s] = "running"
         /\ \A t \in Tasks : t # k /\ t # me => tstate'[t] = tstate[t]
  BY <1>10
<1>12. Stack(head', next', curr', kept', tstate', S, H)
  <2>1. \A t \in Tasks : tstate'[t] = "waiting" <=> tstate[t] = "waiting" /\ t # k
    BY <1>5, <1>6, <1>11
  <2>2. Stack(head, next, curr, [kept EXCEPT ![th] = NULL], tstate', S, H)
    BY <1>1, <1>2, <1>4, <2>1, StackTransfer DEF CoreTypes
  <2> QED BY <1>3, <2>2
<1>13. \A o \in Threads : o # th =>
            /\ pc[o] \notin B!Steps \cup {"idle"} => tstate'[self[o]] = "running"
            /\ pc[o] \in {"arrive", "take"} => self[o] \in S
            /\ pc[o] \in {"reset", "unlink"} => self[o] \in H[o]
  <2>1. \A o \in Threads : o # th /\ pc[o] \notin B!Steps \cup {"idle"} => tstate'[self[o]] = tstate[self[o]]
    BY <1>7, <1>8, <1>11, SelfIsTask
  <2> QED BY <2>1, OthersKept
<1>14. /\ head' \in Tasks \cup {NULL, E!READY} /\ next' \in Links /\ curr' \in Places
       /\ "user" \in Stops /\ s \in Tasks \cup {NULL}
       /\ curr'[th] # NULL => "user" \in {"wake", "reset", "unlink"}
       /\ \A o \in Threads : o # th => curr'[o] = curr[o] /\ kept'[o] = kept[o]
       /\ "user" = "idle" <=> s = NULL
       /\ s # NULL => \A o \in Threads : o # th => self[o] # s
  BY <1>1, <1>3, <1>4, <1>5, <1>7, <1>8, <1>9, NullAssumption DEF CoreTypes, Stops
<1>15. Moves(th, "user", s, S, H)
  BY <1>3, <1>9, <1>11, <1>12, <1>13, <1>14 DEF Moves
<1> QED BY <1>15, CoreMove

\* set, co_set, the set() of a latch and the destructor: one exchange takes the list.
LEMMA CoreOpen ==
  ASSUME NEW S, NEW H, Core(S, H), NEW th \in Threads, pc[th] \in {"user", "set"},
         \A o \in Threads : pc[o] \notin B!Steps,
         NEW symmetric \in BOOLEAN, E!Open(th, symmetric), UNCHANGED <<next, tstate, self>>
  PROVE  /\ \E H2 : Core({}, H2)'
         /\ head' = E!READY /\ pc' = [pc EXCEPT ![th] = pc'[th]]
         /\ pc'[th] \in {"wake", "transfer", "user"}
         /\ ~symmetric => pc'[th] # "transfer" /\ kept'[th] = NULL
<1>1. CoreTypes /\ SelfRuns /\ WalksOnly /\ Stack(head, next, curr, kept, tstate, S, H)
  BY DEF Core
<1>2. PICK first : first = IF head \in Tasks THEN head ELSE NULL
  OBVIOUS
<1>3. PICK k : k = IF symmetric THEN first ELSE NULL
  OBVIOUS
<1>4. PICK c : c = IF symmetric /\ first # NULL THEN next[first] ELSE first
  OBVIOUS
<1>5. PICK p : p = IF c # NULL THEN "wake" ELSE IF k # NULL THEN "transfer" ELSE "user"
  OBVIOUS
<1>6. curr[th] = NULL /\ kept[th] = NULL
  BY <1>1 DEF WalksOnly
<1>7. /\ head' = E!READY
      /\ kept' = [kept EXCEPT ![th] = k]
      /\ curr' = [curr EXCEPT ![th] = c]
      /\ pc' = [pc EXCEPT ![th] = IF curr'[th] # NULL THEN "wake"
                                  ELSE IF kept'[th] # NULL THEN "transfer" ELSE "user"]
  BY <1>2, <1>3, <1>4, Zenon DEF E!Open
<1>8. head \in Tasks \cup {NULL, E!READY} /\ first \in Tasks \cup {NULL} /\ k \in Tasks \cup {NULL}
  BY <1>1, <1>2, <1>3 DEF CoreTypes
<1>9. c \in Tasks \cup {NULL}
  BY <1>1, <1>4, <1>8, NullAssumption DEF CoreTypes, Links
<1>10. curr' \in Places /\ curr'[th] = c /\ \A o \in Threads : o # th => curr'[o] = curr[o]
  BY <1>1, <1>7, <1>9 DEF CoreTypes, Places
<1>11. kept' \in Places /\ kept'[th] = k /\ \A o \in Threads : o # th => kept'[o] = kept[o]
  BY <1>1, <1>7, <1>8 DEF CoreTypes, Places
<1>12. pc' = [pc EXCEPT ![th] = p] /\ pc'[th] = p
  BY <1>1, <1>5, <1>7, <1>10, <1>11 DEF CoreTypes
<1>13. PICK H2 : Stack(E!READY, next, curr', kept', tstate, {}, H2)
  <2>1. CASE ~symmetric \/ head \notin Tasks
    <3>1. k = NULL /\ kept' = kept
      BY <1>1, <1>2, <1>3, <1>6, <1>7, <2>1 DEF CoreTypes, Places
    <3>2. c = IF head = E!READY THEN NULL ELSE head
      BY <1>2, <1>4, <1>8, <2>1, ReadyIsNoTask
    <3>3. Stack(E!READY, next, [curr EXCEPT ![th] = c], kept, tstate, {}, [H EXCEPT ![th] = S])
      BY <1>1, <1>6, <3>2, StackTake DEF CoreTypes
    <3> QED BY <1>7, <3>1, <3>3
  <2>2. CASE symmetric /\ head \in Tasks
    <3>1. k = head /\ c = next[head]
      BY <1>2, <1>3, <1>4, <2>2, NullAssumption
    <3>2. Stack(E!READY, next, [curr EXCEPT ![th] = next[head]], [kept EXCEPT ![th] = head], tstate, {},
                [H EXCEPT ![th] = S \ {head}])
      BY <1>1, <1>6, <2>2, StackTakeKeep DEF CoreTypes
    <3> QED BY <1>7, <3>1, <3>2
  <2> QED BY <2>1, <2>2
<1>14. self[th] \in Tasks /\ tstate[self[th]] = "running"
  BY SelfIsTask DEF B!Steps
<1>15. \A o \in Threads : o # th =>
            /\ pc[o] \notin B!Steps \cup {"idle"} => tstate'[self[o]] = "running"
            /\ pc[o] \in {"arrive", "take"} => self[o] \in {}
            /\ pc[o] \in {"reset", "unlink"} => self[o] \in H2[o]
  BY <1>1 DEF SelfRuns, B!Steps
<1>16. /\ p \in {"wake", "transfer", "user"} /\ p \in Stops
       /\ c # NULL => p \in {"wake", "reset", "unlink"}
       /\ k # NULL => p \in {"wake", "transfer"}
       /\ p = "transfer" => k # NULL
  BY <1>5 DEF Stops
<1>17. /\ self' = [self EXCEPT ![th] = self[th]] /\ self[th] \in Tasks \cup {NULL}
       /\ p = "idle" <=> self[th] = NULL
       /\ p \in {"arrive", "take"} => self[th] \in {}
       /\ p \in {"reset", "unlink"} => self[th] \in H2[th]
       /\ tstate'[self[th]] = "running"
       /\ self[th] # NULL => \A o \in Threads : o # th => self[o] # self[th]
  BY <1>1, <1>14, <1>16, NullAssumption DEF CoreTypes, Places, SelfRuns
<1>18. /\ head' \in Tasks \cup {NULL, E!READY} /\ next' \in Links /\ tstate' \in States
       /\ Stack(head', next', curr', kept', tstate', {}, H2)
       /\ \A o \in Threads : o # th => curr'[o] = curr[o] /\ kept'[o] = kept[o]
       /\ curr'[th] # NULL => p \in {"wake", "reset", "unlink"}
       /\ kept'[th] # NULL => p \in {"wake", "transfer"}
       /\ p = "transfer" => kept'[th] # NULL
  BY <1>1, <1>7, <1>10, <1>11, <1>13, <1>16 DEF CoreTypes
<1>19. Core({}, H2)'
  <2>1. Moves(th, p, self[th], {}, H2)
    BY <1>10, <1>11, <1>12, <1>15, <1>16, <1>17, <1>18 DEF Moves
  <2> QED BY <2>1, CoreMove
<1>20. ~symmetric => p # "transfer" /\ k = NULL
  BY <1>3, <1>5
<1> QED BY <1>7, <1>11, <1>12, <1>16, <1>19, <1>20

\* A task pushes its node and lets go of the thread, or stays for the barrier's count.
LEMMA CorePush ==
  ASSUME NEW S, NEW H, Core(S, H), NEW th \in Threads, pc[th] = "user", head # E!READY,
         NEW p \in {"idle", "arrive"}, NEW t, t = self[th],
         E!PushNode(t), tstate' = [tstate EXCEPT ![t] = "waiting"],
         self' = [self EXCEPT ![th] = IF p = "idle" THEN NULL ELSE t],
         pc' = [pc EXCEPT ![th] = p], UNCHANGED <<curr, kept>>
  PROVE  Core(S \cup {t}, H)'
<1>1. CoreTypes /\ SelfRuns /\ WalksOnly /\ Stack(head, next, curr, kept, tstate, S, H)
  BY DEF Core
<1>2. t = self[th]
  OBVIOUS
<1>3. t \in Tasks /\ tstate[t] = "running" /\ curr[th] = NULL /\ kept[th] = NULL
  BY <1>1, <1>2, SelfIsTask DEF B!Steps, WalksOnly
<1>4. next' = [next EXCEPT ![t] = head] /\ head' = t
  BY <1>2 DEF E!PushNode
<1>5. head \in Tasks \cup {NULL}
  BY <1>1 DEF CoreTypes
<1>6. next' \in Links
  BY <1>1, <1>3, <1>4, <1>5 DEF CoreTypes, Links
<1>7. tstate' \in States /\ tstate'[t] = "waiting" /\ \A u \in Tasks : u # t => tstate'[u] = tstate[u]
  BY <1>1, <1>2, <1>3 DEF CoreTypes, States
<1>8. PICK S2 : S2 = S \cup {t}
  OBVIOUS
<1>9. Stack(head', next', curr', kept', tstate', S2, H)
  <2>1. Stack(t, [next EXCEPT ![t] = head], curr, kept, [tstate EXCEPT ![t] = "waiting"], S \cup {t}, H)
    BY <1>1, <1>3, StackPush DEF CoreTypes
  <2> QED BY <1>2, <1>4, <1>8, <2>1
<1>10. \A o \in Threads : o # th => self[o] # t
  BY <1>1, <1>2, <1>3, NullAssumption DEF SelfRuns
<1>11. \A o \in Threads : o # th =>
            /\ pc[o] \notin B!Steps \cup {"idle"} => tstate'[self[o]] = "running"
            /\ pc[o] \in {"arrive", "take"} => self[o] \in S2
            /\ pc[o] \in {"reset", "unlink"} => self[o] \in H[o]
  <2>1. \A o \in Threads : o # th /\ pc[o] \notin B!Steps \cup {"idle"} => tstate'[self[o]] = tstate[self[o]]
    BY <1>7, <1>10, SelfIsTask
  <2>2. S \subseteq S2 /\ \A o \in Threads : o # th => H[o] \subseteq H[o]
    BY <1>8
  <2>3. ASSUME NEW ts, ts = tstate'
        PROVE  \A o \in Threads : o # th =>
                 /\ pc[o] \notin B!Steps \cup {"idle"} => ts[self[o]] = "running"
                 /\ pc[o] \in {"arrive", "take"} => self[o] \in S2
                 /\ pc[o] \in {"reset", "unlink"} => self[o] \in H[o]
    <3>1. \A o \in Threads : o # th /\ pc[o] \notin B!Steps \cup {"idle"} => ts[self[o]] = tstate[self[o]]
      BY <2>1, <2>3
    <3> QED BY <2>2, <3>1, OthersKept
  <2> QED BY <2>3
<1>12. PICK me : me = IF p = "idle" THEN NULL ELSE t
  OBVIOUS
<1>13. /\ me \in Tasks \cup {NULL} /\ (p = "idle" <=> me = NULL)
       /\ me # NULL => \A o \in Threads : o # th => self[o] # me
       /\ p \in {"arrive", "take"} => me \in S2
       /\ p \in {"reset", "unlink"} => me \in H[th]
       /\ p \notin B!Steps \cup {"idle"} => tstate'[me] = "running"
       /\ p \in Stops
  BY <1>3, <1>8, <1>10, <1>12, NullAssumption DEF Stops, B!Steps
<1>14. /\ head' \in Tasks \cup {NULL, E!READY} /\ curr' \in Places /\ kept' \in Places
       /\ \A o \in Threads : o # th => curr'[o] = curr[o] /\ kept'[o] = kept[o]
       /\ curr'[th] # NULL => p \in {"wake", "reset", "unlink"}
       /\ kept'[th] # NULL => p \in {"wake", "transfer"}
       /\ p = "transfer" => kept'[th] # NULL
  BY <1>1, <1>3, <1>4 DEF CoreTypes
<1>15. self' = [self EXCEPT ![th] = me]
  BY <1>2, <1>12
<1>16. Core(S2, H)'
  <2>1. Moves(th, p, me, S2, H)
    BY <1>6, <1>7, <1>9, <1>11, <1>13, <1>14, <1>15 DEF Moves
  <2> QED BY <2>1, CoreMove
<1> QED BY <1>2, <1>8, <1>16

\* co_await of an event, also inside a latch.
LEMMA CoreAwait ==
  ASSUME NEW S, NEW H, Core(S, H), NEW th \in Threads, E!Await(th)
  PROVE  /\ \E S2 : Core(S2, H)'
         /\ head # E!READY => head' # E!READY
         /\ UNCHANGED pc \/ pc' = [pc EXCEPT ![th] = "idle"]
         /\ pc[th] = "user" /\ alive /\ UNCHANGED <<curr, kept, alive>>
         /\ head = E!READY => head' = E!READY
<1>1. pc[th] = "user" /\ alive /\ UNCHANGED <<curr, kept, alive>>
  BY DEF E!Await, E!BeginRound
<1>2. CASE head = E!READY /\ UNCHANGED <<head, next, tstate, pc, self>>
  <2>1. Core(S, H)'
    BY <1>1, <1>2 DEF Core, CoreTypes, SelfRuns, WalksOnly, StaysListed
  <2> QED BY <1>1, <1>2, <2>1
<1>3. CASE /\ head # E!READY /\ E!PushNode(self[th])
           /\ tstate' = [tstate EXCEPT ![self[th]] = "waiting"]
           /\ self' = [self EXCEPT ![th] = NULL]
           /\ pc' = [pc EXCEPT ![th] = "idle"]
  <2>1. PICK t : t = self[th]
    OBVIOUS
  <2>3. Core(S \cup {t}, H)'
    BY <1>1, <1>3, <2>1, CorePush
  <2>2. head' # E!READY
    BY <1>1, <1>3, SelfIsTask, ReadyIsNoTask DEF E!PushNode
  <2> QED BY <1>1, <1>3, <2>2, <2>3
<1> QED BY <1>2, <1>3 DEF E!Await, E!WaitForReady

\* At first nobody waits.
LEMMA CoreInit ==
  ASSUME NEW h \in {NULL, E!READY}, E!InitWith(h)
  PROVE  Core({}, [th \in Threads |-> {}])
<1>1. /\ head = h /\ next = [t \in Tasks |-> NULL] /\ tstate = [t \in Tasks |-> "ready"]
      /\ pc = [th \in Threads |-> "idle"] /\ self = [th \in Threads |-> NULL]
      /\ curr = [th \in Threads |-> NULL] /\ kept = [th \in Threads |-> NULL]
  BY DEF E!InitWith
<1>2. CoreTypes
  BY <1>1 DEF CoreTypes, Links, Places, States, Stops
<1>3. SelfRuns
  BY <1>1 DEF SelfRuns
<1>4. WalksOnly
  BY <1>1 DEF WalksOnly
<1>5. PICK H : H = [th \in Threads |-> {}]
  OBVIOUS
<1>6. StaysListed({}, H)
  BY <1>1 DEF StaysListed
<1>7. H \in [Threads -> SUBSET Tasks] /\ \A th \in Threads : H[th] = {}
  BY <1>5
<1>8. Lists(head, next, curr, {}, H)
  <2>1. IF head = E!READY THEN {} = {} ELSE Listing(head, next, {})
    BY <1>1, ListNone
  <2>2. \A th \in Threads : Listing(curr[th], next, H[th])
    BY <1>1, <1>7, ListNone
  <2> QED BY <1>7, <2>1, <2>2 DEF Lists
<1>9. \A th \in Threads, t \in Tasks : ~Has(kept, H, th, t)
  BY <1>1, <1>7, NullAssumption DEF Has
<1>10. Apart(kept, {}, H)
  BY <1>7, <1>9 DEF Apart
<1>11. Waits(kept, tstate, {}, H)
  BY <1>1, <1>9 DEF Waits
<1> QED BY <1>2, <1>3, <1>4, <1>5, <1>6, <1>8, <1>10, <1>11 DEF Core, Stack

\* The lists depend on nothing else.
LEMMA CoreStutter ==
  ASSUME NEW S, NEW H, Core(S, H), UNCHANGED <<head, next, tstate, pc, self, curr, kept>>
  PROVE  Core(S, H)'
BY DEF Core, CoreTypes, SelfRuns, WalksOnly, StaysListed

\* rounds counts the co_awaits of a task.
LEMMA RoundBegun ==
  ASSUME NEW S, NEW H, Core(S, H), NEW th \in Threads, pc[th] # "idle",
         NEW m \in Nat, rounds \in [Tasks -> 0..m], rounds[self[th]] < m,
         rounds' = [rounds EXCEPT ![self[th]] = @ + 1]
  PROVE  /\ rounds' \in [Tasks -> 0..m] /\ self[th] \in Tasks
         /\ rounds'[self[th]] = rounds[self[th]] + 1
         /\ \A t \in Tasks : t # self[th] => rounds'[t] = rounds[t]
<1>1. self[th] \in Tasks
  BY SelfIsTask
<1>2. rounds[self[th]] \in 0..m /\ rounds[self[th]] + 1 \in 0..m
  BY <1>1
<1> QED BY <1>1, <1>2

-----------------------------------------------------------------------------
(* manual_reset_event. *)

EventStops == {"idle", "user", "wake", "transfer"}

EventInv ==
  /\ alive \in BOOLEAN /\ rounds \in [Tasks -> 0..MaxRounds] /\ pc \in [Threads -> EventStops]
  /\ \E S, H : Core(S, H)

LEMMA EventInit == ASSUME E!Init PROVE EventInv
<1>1. PICK h \in {NULL, E!READY} : E!InitWith(h) /\ alive = TRUE
  BY DEF E!Init
<1>2. Core({}, [th \in Threads |-> {}])
  BY <1>1, CoreInit
<1>3. \E S, H : Core(S, H)
  BY <1>2
<1>4. rounds = [t \in Tasks |-> 0] /\ pc = [th \in Threads |-> "idle"]
  BY <1>1 DEF E!InitWith
<1>5. 0 \in 0..MaxRounds
  BY RoundsAssumption
<1> QED BY <1>1, <1>3, <1>4, <1>5 DEF EventInv, EventStops

\* Each operation of an event: the list is the whole argument.
LEMMA EventStep == ASSUME EventInv, NEW th \in Threads, E!Step(th) PROVE EventInv'
<1>1. PICK S, H : Core(S, H)
  BY DEF EventInv
<1>2. alive \in BOOLEAN /\ rounds \in [Tasks -> 0..MaxRounds] /\ pc \in [Threads -> EventStops]
  BY DEF EventInv
<1>3. \A p \in EventStops : [pc EXCEPT ![th] = p] \in [Threads -> EventStops]
  BY <1>2
<1>4. {"idle", "user", "wake", "transfer"} = EventStops
  BY DEF EventStops
<1>5. CASE (\E t \in Tasks : E!Dispatch(th, t)) /\ UNCHANGED alive
  <2>1. PICK t \in Tasks : E!Dispatch(th, t)
    BY <1>5
  <2>2. Core(S, H)'
    BY <1>1, <2>1, CoreDispatch
  <2>3. pc' = [pc EXCEPT ![th] = "user"] /\ UNCHANGED <<alive, rounds>>
    BY <1>5, <2>1 DEF E!Dispatch
  <2> QED BY <1>2, <1>3, <1>4, <2>2, <2>3 DEF EventInv
<1>6. CASE E!Complete(th) /\ UNCHANGED alive
  <2>1. Core(S, H)'
    BY <1>1, <1>6, CoreComplete
  <2>2. pc' = [pc EXCEPT ![th] = "idle"] /\ UNCHANGED <<alive, rounds>>
    BY <1>6 DEF E!Complete
  <2> QED BY <1>2, <1>3, <1>4, <2>1, <2>2 DEF EventInv
<1>7. CASE E!PostBatch(th) /\ UNCHANGED alive
  <2>1. BatchPosted(th, E!Chain(curr[th]), Cardinality(Tasks), E!AfterWake(th))
    BY <1>7, PostIsAlike
  <2>2. /\ \E batch \in SUBSET H[th] : Core(S, Without(H, th, batch))'
        /\ pc' = [pc EXCEPT ![th] = pc'[th]] /\ pc'[th] \in {"wake", E!AfterWake(th)}
        /\ UNCHANGED rounds
    BY <1>1, <2>1, CorePost
  <2>3. \E S2, H2 : Core(S2, H2)'
    BY <2>2
  <2>4. pc'[th] \in EventStops
    BY <2>2 DEF E!AfterWake, EventStops
  <2>5. pc' \in [Threads -> EventStops]
    BY <1>3, <2>2, <2>4
  <2> QED BY <1>2, <1>7, <2>2, <2>3, <2>5 DEF EventInv
<1>8. CASE E!Transfer(th) /\ UNCHANGED alive
  <2>1. Core(S, H)'
    BY <1>1, <1>8, CoreTransfer
  <2>2. pc' = [pc EXCEPT ![th] = "user"] /\ UNCHANGED <<alive, rounds>>
    BY <1>8 DEF E!Transfer
  <2> QED BY <1>2, <1>3, <1>4, <2>1, <2>2 DEF EventInv
<1>9. CASE E!Await(th)
  <2>1. \E S2 : Core(S2, H)'
    BY <1>1, <1>9, CoreAwait
  <2>2. (UNCHANGED pc \/ pc' = [pc EXCEPT ![th] = "idle"]) /\ pc[th] = "user" /\ UNCHANGED alive
    BY <1>1, <1>9, CoreAwait
  <2>3. rounds' \in [Tasks -> 0..MaxRounds]
    <3>1. rounds[self[th]] < MaxRounds /\ rounds' = [rounds EXCEPT ![self[th]] = @ + 1]
      BY <1>9 DEF E!Await, E!BeginRound
    <3>2. MaxRounds \in Nat /\ pc[th] # "idle"
      BY <2>2, RoundsAssumption
    <3> QED BY <1>1, <1>2, <3>1, <3>2, RoundBegun
  <2>4. pc' \in [Threads -> EventStops]
    BY <1>2, <1>3, <1>4, <2>2
  <2> QED BY <1>2, <2>1, <2>2, <2>3, <2>4 DEF EventInv
<1>10. ASSUME NEW symmetric \in BOOLEAN, pc[th] = "user", E!Open(th, symmetric), alive' \in BOOLEAN,
              UNCHANGED <<next, tstate, rounds, self>>
       PROVE  EventInv'
  <2>1. \A o \in Threads : pc[o] \notin B!Steps
    BY <1>2, <1>4 DEF B!Steps
  <2>2. /\ \E H2 : Core({}, H2)'
        /\ pc' = [pc EXCEPT ![th] = pc'[th]] /\ pc'[th] \in {"wake", "transfer", "user"}
    BY <1>1, <1>10, <2>1, CoreOpen
  <2>3. pc' \in [Threads -> EventStops]
    BY <1>3, <1>4, <2>2
  <2> QED BY <1>2, <1>10, <2>2, <2>3 DEF EventInv
<1>11. CASE E!Set(th)
  BY <1>2, <1>10, <1>11 DEF E!Set, E!sched
<1>12. CASE E!CoSet(th)
  BY <1>2, <1>10, <1>12 DEF E!CoSet, E!sched
<1>13. CASE E!Destroy(th)
  BY <1>10, <1>13 DEF E!Destroy, E!sched
<1>14. CASE E!Reset(th)
  <2>1. head = E!READY /\ head' = NULL /\ UNCHANGED <<next, tstate, rounds, pc, self, curr, kept, alive>>
    BY <1>14 DEF E!Reset, E!sched, E!locals
  <2>2. Stack(NULL, next, curr, kept, tstate, S, H)
    BY <1>1, <2>1, StackReset DEF Core
  <2>3. Core(S, H)'
    BY <1>1, <2>1, <2>2 DEF Core, CoreTypes, SelfRuns, WalksOnly, StaysListed
  <2> QED BY <1>2, <2>1, <2>3 DEF EventInv
<1> QED BY <1>5, <1>6, <1>7, <1>8, <1>9, <1>11, <1>12, <1>13, <1>14 DEF E!Step

\* What it says.
LEMMA EventSays ==
  ASSUME EventInv
  PROVE  E!TypeOK /\ E!OnOneList /\ E!NobodyLeftBehind
<1>1. PICK S, H : Core(S, H)
  BY DEF EventInv
<1>2. E!OnOneList /\ E!NobodyLeftBehind
  BY <1>1, StackSays DEF Core, CoreTypes
<1>3. E!TypeOK
  BY <1>1 DEF EventInv, EventStops, Core, CoreTypes, Links, Places, States, E!TypeOK, E!TypesOK
<1> QED BY <1>2, <1>3

-----------------------------------------------------------------------------
(* latch. *)

LatchStops == {"idle", "user", "wake", "transfer", "set"}

\* count is what the calls of count_down leave of it.
Counts ==
  /\ arrived \subseteq counters /\ counters \subseteq Tasks
  /\ count = Count - 1 - Cardinality(arrived)

\* Whoever opens the latch has seen the last count_down.
Enough ==
  alive /\ (head = E!READY \/ \E th \in Threads : pc[th] \in {"set", "wake"})
    => Cardinality(arrived) >= Count

\* When exactly Count tasks count down, the last of them opens the latch, alone.
LastSets ==
  Cardinality(counters) = Count =>
    /\ head = E!READY \/ (\E th \in Threads : pc[th] = "set") => counters \subseteq arrived
    /\ \A a, b \in Threads : pc[a] = "set" /\ pc[b] = "set" => a = b
    /\ head = E!READY => \A th \in Threads : pc[th] # "set"

LatchInv ==
  /\ alive \in BOOLEAN /\ rounds \in [Tasks -> 0..MaxRounds] /\ pc \in [Threads -> LatchStops]
  /\ Counts /\ Enough /\ LastSets
  /\ \E S, H : Core(S, H)

\* The numbers of counters and of arrivals are naturals.
LEMMA CountFacts ==
  ASSUME Counts
  PROVE  /\ IsFiniteSet(counters) /\ IsFiniteSet(arrived)
         /\ Cardinality(counters) \in Nat /\ Cardinality(arrived) \in Nat
<1>1. IsFiniteSet(counters) /\ IsFiniteSet(arrived)
  <2>1. counters \subseteq Tasks /\ arrived \subseteq counters
    BY DEF Counts
  <2> QED BY <2>1, TasksAssumption, FS_Subset
<1> QED BY <1>1, FS_CardinalityType

\* The steps that the latch takes over from the stack and from the event.
LEMMA LatchSteps ==
  ASSUME NEW th \in Threads
  PROVE  /\ \A t \in Tasks : L!Dispatch(th, t) => E!Dispatch(th, t)
         /\ L!Complete(th) => E!Complete(th)
         /\ L!Event!Await(th) => E!Await(th)
         /\ L!Event!Open(th, FALSE) => E!Open(th, FALSE)
         /\ \A h : L!InitWith(h) => E!InitWith(h)
         /\ L!READY = E!READY /\ \A S : L!Cardinality(S) = Cardinality(S)
<1>1. \A t \in Tasks : L!Dispatch(th, t) => E!Dispatch(th, t)
  BY DEF L!Dispatch, E!Dispatch
<1>2. L!Complete(th) => E!Complete(th)
  BY DEF L!Complete, E!Complete
<1>3. L!Event!READY = E!READY /\ L!READY = E!READY
  BY DEF L!Event!READY, E!READY, L!READY
<1>4. L!Event!Await(th) => E!Await(th)
  <2>1. L!Event!BeginRound(th) => E!BeginRound(th)
    BY DEF L!Event!BeginRound, E!BeginRound
  <2>2. L!Event!PushNode(self[th]) => E!PushNode(self[th])
    BY DEF L!Event!PushNode, E!PushNode
  <2>3. L!Event!WaitForReady(th) => E!WaitForReady(th)
    BY <1>3, <2>2 DEF L!Event!WaitForReady, E!WaitForReady
  <2> QED BY <2>1, <2>3 DEF L!Event!Await, E!Await
<1>5. L!Event!Open(th, FALSE) => E!Open(th, FALSE)
  BY <1>3, Zenon DEF L!Event!Open, E!Open
<1>6. \A h : L!InitWith(h) => E!InitWith(h)
  BY DEF L!InitWith, E!InitWith
<1>7. \A S : L!Cardinality(S) = Cardinality(S)
  BY DEF L!Cardinality, Cardinality
<1> QED BY <1>1, <1>2, <1>3, <1>4, <1>5, <1>6, <1>7

LEMMA LatchInit == ASSUME L!Init PROVE LatchInv
<1>1. /\ L!InitWith(IF Count <= 0 THEN L!READY ELSE NULL) /\ alive = TRUE
      /\ count = Count - 1 /\ arrived = {} /\ counters \in SUBSET Tasks
  BY DEF L!Init
<1>2. PICK h \in {NULL, E!READY} : h = (IF Count <= 0 THEN L!READY ELSE NULL) /\ L!InitWith(h)
  <2>1. L!READY = E!READY
    BY DEF L!READY, E!READY
  <2> QED BY <1>1, <2>1
<1>3. E!InitWith(h)
  BY <1>2 DEF L!InitWith, E!InitWith
<1>4. Core({}, [th \in Threads |-> {}])
  BY <1>3, CoreInit
<1>5. \E S, H : Core(S, H)
  BY <1>4
<1>6. rounds = [t \in Tasks |-> 0] /\ pc = [th \in Threads |-> "idle"] /\ head = h
  BY <1>3 DEF E!InitWith
<1>7. 0 \in 0..MaxRounds
  BY RoundsAssumption
<1>8. Cardinality(arrived) = 0 /\ Count \in Nat
  BY <1>1, FS_EmptySet, CountsAssumption
<1>9. Counts
  BY <1>1, <1>8 DEF Counts
<1>10. head = E!READY => Count <= 0
  BY <1>2, <1>6, ReadyIsNoTask
<1>11. \A th \in Threads : pc[th] = "idle"
  BY <1>6
<1>12. Enough
  BY <1>8, <1>10, <1>11 DEF Enough
<1>13. LastSets
  <2>1. Cardinality(counters) = Count /\ head = E!READY => counters = {}
    BY <1>8, <1>9, <1>10, CountFacts, FS_EmptySet
  <2> QED BY <1>11, <2>1 DEF LastSets
<1> QED BY <1>1, <1>5, <1>6, <1>7, <1>9, <1>12, <1>13 DEF LatchInv, LatchStops

\* A step that neither counts nor opens.
LEMMA LatchKept ==
  ASSUME LatchInv, NEW th \in Threads, NEW p \in {"idle", "user", "wake", "transfer"},
         pc' = [pc EXCEPT ![th] = p], p = "wake" => pc[th] = "wake",
         head' = E!READY => head = E!READY, UNCHANGED <<alive, count, counters, arrived>>
  PROVE  Counts' /\ Enough' /\ LastSets' /\ pc' \in [Threads -> LatchStops] /\ alive' \in BOOLEAN
<1>1. Counts /\ Enough /\ LastSets /\ pc \in [Threads -> LatchStops] /\ alive \in BOOLEAN
  BY DEF LatchInv
<1>2. pc' \in [Threads -> LatchStops] /\ pc'[th] = p /\ \A o \in Threads : o # th => pc'[o] = pc[o]
  BY <1>1 DEF LatchStops
<1>3. \A o \in Threads : /\ pc'[o] = "set" => pc[o] = "set"
                         /\ pc'[o] = "wake" => pc[o] = "wake"
  BY <1>2
<1>4. Counts'
  BY <1>1 DEF Counts
<1>5. Enough'
  BY <1>1, <1>3 DEF Enough
<1>6. LastSets'
  BY <1>1, <1>3 DEF LastSets
<1> QED BY <1>1, <1>2, <1>4, <1>5, <1>6

\* A thread goes on with the task it runs.
LEMMA CoreGoesOn ==
  ASSUME NEW S, NEW H, Core(S, H), NEW th \in Threads, pc[th] = "user", NEW p \in {"user", "set"},
         pc' = [pc EXCEPT ![th] = p], UNCHANGED <<head, next, tstate, self, curr, kept>>
  PROVE  Core(S, H)'
<1>1. CoreTypes /\ SelfRuns /\ WalksOnly /\ Stack(head, next, curr, kept, tstate, S, H)
  BY DEF Core
<1>2. self[th] \in Tasks /\ tstate[self[th]] = "running" /\ curr[th] = NULL /\ kept[th] = NULL
  BY <1>1, SelfIsTask DEF B!Steps, WalksOnly
<1>3. /\ p \in Stops /\ self[th] \in Tasks \cup {NULL} /\ self' = [self EXCEPT ![th] = self[th]]
      /\ p = "idle" <=> self[th] = NULL
      /\ self[th] # NULL => \A o \in Threads : o # th => self[o] # self[th]
      /\ curr'[th] # NULL => p \in {"wake", "reset", "unlink"}
      /\ kept'[th] # NULL => p \in {"wake", "transfer"}
      /\ p = "transfer" => kept'[th] # NULL
      /\ p \in {"arrive", "take"} => self[th] \in S
      /\ p \in {"reset", "unlink"} => self[th] \in H[th]
  BY <1>1, <1>2, NullAssumption DEF Stops, CoreTypes, Places, SelfRuns
<1>4. \A o \in Threads : o # th =>
            /\ pc[o] \notin B!Steps \cup {"idle"} => tstate'[self[o]] = "running"
            /\ pc[o] \in {"arrive", "take"} => self[o] \in S
            /\ pc[o] \in {"reset", "unlink"} => self[o] \in H[o]
  BY OthersKept
<1>5. /\ head' \in Tasks \cup {NULL, E!READY} /\ next' \in Links /\ curr' \in Places /\ kept' \in Places
      /\ tstate' \in States /\ Stack(head', next', curr', kept', tstate', S, H)
      /\ \A o \in Threads : o # th => curr'[o] = curr[o] /\ kept'[o] = kept[o]
      /\ p \notin B!Steps \cup {"idle"} => tstate'[self[th]] = "running"
  BY <1>1, <1>2 DEF CoreTypes
<1>6. Moves(th, p, self[th], S, H)
  BY <1>3, <1>4, <1>5 DEF Moves
<1> QED BY <1>6, CoreMove

\* fetch_sub of the counter: whoever makes the last one goes on to set the event.
LEMMA LatchCountDown == ASSUME LatchInv, NEW th \in Threads, L!CountDown(th) PROVE LatchInv'
<1>1. PICK S, H : Core(S, H)
  BY DEF LatchInv
<1>2. /\ alive \in BOOLEAN /\ rounds \in [Tasks -> 0..MaxRounds] /\ pc \in [Threads -> LatchStops]
      /\ Counts /\ Enough /\ LastSets
  BY DEF LatchInv
<1>2a. PICK t : t = self[th]
  OBVIOUS
<1>2b. PICK p : p = IF count <= 0 THEN "set" ELSE "user"
  OBVIOUS
<1>3.   /\ p \in {"user", "set"}
        /\ t = self[th] /\ t \in counters \ arrived /\ arrived' = arrived \cup {t} /\ count' = count - 1
        /\ pc[th] = "user" /\ alive
        /\ p = IF count <= 0 THEN "set" ELSE "user"
        /\ pc' = [pc EXCEPT ![th] = p]
        /\ UNCHANGED <<head, next, tstate, rounds, self, curr, kept, alive, counters>>
  BY <1>2a, <1>2b DEF L!CountDown, L!LastCount, L!sched
<1>4. Core(S, H)'
  BY <1>1, <1>3, CoreGoesOn
<1>5. pc' \in [Threads -> LatchStops] /\ pc'[th] = p /\ \A o \in Threads : o # th => pc'[o] = pc[o]
  BY <1>2, <1>3 DEF LatchStops
<1>6. /\ IsFiniteSet(counters) /\ IsFiniteSet(arrived)
      /\ Cardinality(counters) \in Nat /\ Cardinality(arrived) \in Nat /\ Count \in Nat
  BY <1>2, CountFacts, CountsAssumption
<1>7. Cardinality(arrived') = Cardinality(arrived) + 1
  BY <1>3, <1>6, FS_AddElement
<1>8. Counts'
  BY <1>2, <1>3, <1>6, <1>7 DEF Counts
<1>9. p = "set" => Cardinality(arrived') >= Count
  BY <1>2, <1>3, <1>6, <1>7 DEF Counts
<1>10. Enough'
  <2>1. ASSUME head = E!READY \/ \E o \in Threads : o # th /\ pc'[o] \in {"set", "wake"}
        PROVE  Cardinality(arrived) >= Count
    BY <1>2, <1>3, <1>5, <2>1 DEF Enough
  <2>2. head = E!READY \/ (\E o \in Threads : o # th /\ pc'[o] \in {"set", "wake"})
          => Cardinality(arrived') >= Count
    BY <1>6, <1>7, <2>1
  <2>3. pc'[th] \in {"set", "wake"} => Cardinality(arrived') >= Count
    BY <1>3, <1>5, <1>9
  <2>4. head' = head
    BY <1>3
  <2> QED BY <2>2, <2>3, <2>4 DEF Enough
<1>11. ASSUME Cardinality(counters) = Count
       PROVE  /\ head # E!READY /\ \A o \in Threads : pc[o] # "set"
              /\ p = "set" => arrived' = counters
  <2>1. head # E!READY /\ \A o \in Threads : pc[o] # "set"
    BY <1>2, <1>3, <1>11 DEF LastSets
  <2>2. ASSUME p = "set" PROVE arrived' = counters
    <3>1. arrived' \subseteq counters /\ counters' = counters
      BY <1>3, <1>8 DEF Counts
    <3>2. Cardinality(arrived') <= Cardinality(counters) /\ Cardinality(arrived') >= Cardinality(counters)
      BY <1>6, <1>9, <1>11, <2>2, <3>1, FS_Subset
    <3>3. Cardinality(arrived') = Cardinality(counters)
      BY <1>6, <1>7, <3>2
    <3> QED BY <1>6, <3>1, <3>3, FS_Subset
  <2> QED BY <2>1, <2>2
<1>12. LastSets'
  <2> SUFFICES ASSUME Cardinality(counters) = Count
               PROVE  /\ head # E!READY
                      /\ (\E o \in Threads : pc'[o] = "set") => counters \subseteq arrived'
                      /\ \A a, b \in Threads : pc'[a] = "set" /\ pc'[b] = "set" => a = b
    BY <1>3 DEF LastSets
  <2>1. \A o \in Threads : pc'[o] = "set" => o = th /\ p = "set"
    BY <1>5, <1>11
  <2> QED BY <1>11, <2>1
<1>13. \E S2, H2 : Core(S2, H2)'
  BY <1>4
<1> QED BY <1>2, <1>3, <1>5, <1>8, <1>10, <1>12, <1>13 DEF LatchInv

\* event.set() of the last count_down, and that of the destructor.
LEMMA LatchOpen ==
  ASSUME LatchInv, NEW th \in Threads, E!Open(th, FALSE),
         UNCHANGED <<next, tstate, rounds, self, count, counters, arrived>>,
         \/ pc[th] = "set" /\ alive' = alive
         \/ /\ pc[th] = "user" /\ alive' = FALSE
            /\ counters \subseteq arrived /\ \A o \in Threads : pc[o] # "set"
  PROVE  LatchInv'
<1>1. PICK S, H : Core(S, H)
  BY DEF LatchInv
<1>2. /\ alive \in BOOLEAN /\ rounds \in [Tasks -> 0..MaxRounds] /\ pc \in [Threads -> LatchStops]
      /\ Counts /\ Enough /\ LastSets
  BY DEF LatchInv
<1>3. (\A o \in Threads : pc[o] \notin B!Steps) /\ pc[th] \in {"user", "set"}
  BY <1>2 DEF LatchStops, B!Steps
<1>4. /\ \E H2 : Core({}, H2)'
      /\ head' = E!READY /\ pc' = [pc EXCEPT ![th] = pc'[th]] /\ pc'[th] \in {"wake", "transfer", "user"}
  BY <1>1, <1>3, CoreOpen
<1>5. PICK p \in {"wake", "transfer", "user"} : pc' = [pc EXCEPT ![th] = p]
  BY <1>4
<1>6. pc' \in [Threads -> LatchStops] /\ pc'[th] = p /\ \A o \in Threads : o # th => pc'[o] = pc[o]
  BY <1>2, <1>5 DEF LatchStops
<1>7. Counts'
  BY <1>2 DEF Counts
<1>8. Enough'
  <2>1. CASE pc[th] = "set" /\ alive' = alive
    <3>1. alive => Cardinality(arrived) >= Count
      BY <1>2, <2>1 DEF Enough
    <3> QED BY <2>1, <3>1 DEF Enough
  <2>2. CASE alive' = FALSE
    BY <2>2 DEF Enough
  <2> QED BY <2>1, <2>2
<1>9. LastSets'
  <2> SUFFICES ASSUME Cardinality(counters) = Count
               PROVE  counters \subseteq arrived /\ \A o \in Threads : pc'[o] # "set"
    BY DEF LastSets
  <2>1. CASE pc[th] = "set"
    BY <1>2, <1>6, <2>1 DEF LastSets
  <2>2. CASE counters \subseteq arrived /\ \A o \in Threads : pc[o] # "set"
    BY <1>6, <2>2
  <2> QED BY <2>1, <2>2
<1>10. \E S2, H2 : Core(S2, H2)'
  BY <1>4
<1>11. alive' \in BOOLEAN
  BY <1>2
<1> QED BY <1>2, <1>6, <1>7, <1>8, <1>9, <1>10, <1>11 DEF LatchInv

\* Each operation of a latch.
LEMMA LatchStep == ASSUME LatchInv, NEW th \in Threads, L!Step(th) PROVE LatchInv'
<1>1. PICK S, H : Core(S, H)
  BY DEF LatchInv
<1>2. /\ alive \in BOOLEAN /\ rounds \in [Tasks -> 0..MaxRounds] /\ pc \in [Threads -> LatchStops]
  BY DEF LatchInv
<1>3. CASE L!PostBatch(th) /\ UNCHANGED <<alive, L!latch>>
  <2>1. BatchPosted(th, E!Chain(curr[th]), Cardinality(Tasks), E!AfterWake(th))
    BY <1>3, PostIsAlike
  <2>2. /\ \E batch \in SUBSET H[th] : Core(S, Without(H, th, batch))'
        /\ pc[th] = "wake" /\ pc' = [pc EXCEPT ![th] = pc'[th]] /\ pc'[th] \in {"wake", E!AfterWake(th)}
        /\ UNCHANGED <<rounds, head>>
    BY <1>1, <2>1, CorePost
  <2>3. PICK p \in {"wake", "transfer", "user"} : pc' = [pc EXCEPT ![th] = p]
    BY <2>2 DEF E!AfterWake
  <2>4. UNCHANGED <<alive, count, counters, arrived>>
    BY <1>3 DEF L!latch
  <2>5. Counts' /\ Enough' /\ LastSets' /\ pc' \in [Threads -> LatchStops] /\ alive' \in BOOLEAN
    BY <2>2, <2>3, <2>4, LatchKept
  <2>6. \E S2, H2 : Core(S2, H2)'
    BY <2>2
  <2> QED BY <1>2, <2>2, <2>5, <2>6 DEF LatchInv
<1>4. CASE (\E t \in Tasks : L!Dispatch(th, t)) /\ UNCHANGED <<alive, L!latch>>
  <2>1. PICK t \in Tasks : E!Dispatch(th, t)
    BY <1>4, LatchSteps
  <2>2. Core(S, H)'
    BY <1>1, <2>1, CoreDispatch
  <2>3. pc' = [pc EXCEPT ![th] = "user"] /\ UNCHANGED <<rounds, head, alive, count, counters, arrived>>
    BY <1>4, <2>1 DEF E!Dispatch, L!latch
  <2>4. Counts' /\ Enough' /\ LastSets' /\ pc' \in [Threads -> LatchStops] /\ alive' \in BOOLEAN
    BY <2>3, LatchKept
  <2> QED BY <1>2, <2>2, <2>3, <2>4 DEF LatchInv
<1>5. CASE L!EndTask(th)
  <2>1. E!Complete(th) /\ UNCHANGED <<alive, count, counters, arrived>>
    BY <1>5, LatchSteps DEF L!EndTask, L!latch
  <2>2. Core(S, H)'
    BY <1>1, <2>1, CoreComplete
  <2>3. pc' = [pc EXCEPT ![th] = "idle"] /\ UNCHANGED <<rounds, head>>
    BY <2>1 DEF E!Complete
  <2>4. Counts' /\ Enough' /\ LastSets' /\ pc' \in [Threads -> LatchStops] /\ alive' \in BOOLEAN
    BY <2>1, <2>3, LatchKept
  <2> QED BY <1>2, <2>2, <2>3, <2>4 DEF LatchInv
<1>6. CASE L!Await(th)
  <2>1. E!Await(th) /\ UNCHANGED <<count, counters, arrived>>
    BY <1>6, LatchSteps DEF L!Await, L!latch
  <2>2. /\ \E S2 : Core(S2, H)'
        /\ head # E!READY => head' # E!READY
        /\ (UNCHANGED pc \/ pc' = [pc EXCEPT ![th] = "idle"]) /\ pc[th] = "user" /\ UNCHANGED alive
    BY <1>1, <2>1, CoreAwait
  <2>3. PICK p \in {"idle", "user"} : pc' = [pc EXCEPT ![th] = p]
    <3>1. UNCHANGED pc => pc' = [pc EXCEPT ![th] = "user"]
      BY <1>2, <2>2
    <3> QED BY <2>2, <3>1
  <2>4. Counts' /\ Enough' /\ LastSets' /\ pc' \in [Threads -> LatchStops] /\ alive' \in BOOLEAN
    BY <2>1, <2>2, <2>3, LatchKept
  <2>5. rounds' \in [Tasks -> 0..MaxRounds]
    <3>1. rounds[self[th]] < MaxRounds /\ rounds' = [rounds EXCEPT ![self[th]] = @ + 1]
      BY <2>1 DEF E!Await, E!BeginRound
    <3>2. MaxRounds \in Nat /\ pc[th] # "idle"
      BY <2>2, RoundsAssumption
    <3> QED BY <1>1, <1>2, <3>1, <3>2, RoundBegun
  <2>6. \E S2, H2 : Core(S2, H2)'
    BY <2>2
  <2> QED BY <2>4, <2>5, <2>6 DEF LatchInv
<1>7. CASE L!SetEvent(th)
  <2>1. /\ pc[th] = "set" /\ E!Open(th, FALSE)
        /\ UNCHANGED <<next, tstate, rounds, self, alive, count, counters, arrived>>
    BY <1>7, LatchSteps DEF L!SetEvent, L!sched, L!latch
  <2> QED BY <2>1, LatchOpen
<1>8. CASE L!Destroy(th)
  <2>1. /\ pc[th] = "user" /\ alive' = FALSE /\ E!Open(th, FALSE)
        /\ counters \subseteq arrived /\ \A o \in Threads : pc[o] # "set"
        /\ UNCHANGED <<next, tstate, rounds, self, count, counters, arrived>>
    BY <1>8, LatchSteps DEF L!Destroy, L!Event!Destroy, L!Event!sched, L!latch
  <2> QED BY <2>1, LatchOpen
<1>9. CASE L!CountDown(th)
  BY <1>9, LatchCountDown
<1> QED BY <1>3, <1>4, <1>5, <1>6, <1>7, <1>8, <1>9 DEF L!Step

\* What it says.
LEMMA LatchSays ==
  ASSUME LatchInv
  PROVE  L!TypeOK /\ L!NoEarlyRelease /\ L!SafeToDestroy /\ E!OnOneList /\ E!NobodyLeftBehind
<1>1. PICK S, H : Core(S, H)
  BY DEF LatchInv
<1>2. E!OnOneList /\ E!NobodyLeftBehind
  BY <1>1, StackSays DEF Core, CoreTypes
<1>3. L!READY = E!READY /\ \A X : L!Cardinality(X) = Cardinality(X)
  BY DEF L!READY, E!READY, L!Cardinality, Cardinality
<1>4. L!TypesOK({"set"})
  BY <1>1, <1>3 DEF LatchInv, LatchStops, Core, CoreTypes, Links, Places, States, L!TypesOK
<1>5. L!TypeOK
  BY <1>3, <1>4 DEF LatchInv, Counts, L!TypeOK
<1>6. L!NoEarlyRelease
  BY <1>3 DEF LatchInv, Enough, L!NoEarlyRelease
<1>7. L!SafeToDestroy
  BY <1>3 DEF LatchInv, LastSets, L!SafeToDestroy
<1> QED BY <1>2, <1>5, <1>6, <1>7

-----------------------------------------------------------------------------
(* barrier. *)

BarrierStops == EventStops \cup B!Steps

\* The tasks whose arrival in phase p is still to be counted.
NotArrived(p) ==
  {t \in Tasks : rounds[t] = p \/ \E th \in Threads : pc[th] = "arrive" /\ self[th] = t}

\* Phase p: who is one round ahead waits in the shared list, or in the hands of the last
\* arrival, and the walks of the phase before hold nobody else's node.
Phase(p, S, H) ==
  /\ \A t \in Tasks : rounds[t] \in {p, p + 1} /\ (rounds[t] = p + 1 => tstate[t] = "waiting")
  /\ \A t \in S : rounds[t] = p + 1
  /\ \A th \in Threads : pc[th] = "reset" => S = {} /\ \A t \in H[th] : rounds[t] = p + 1
  /\ \A th \in Threads : pc[th] # "reset" => \A t \in H[th] : rounds[t] = p
  /\ \A th \in Threads : pc[th] \in {"take", "reset"} => done_count = -1
  /\ \A a, b \in Threads : pc[a] \in {"take", "reset"} /\ pc[b] \in {"take", "reset"} => a = b
  /\ Cardinality(NotArrived(p)) = done_count + 1

BarrierTypes ==
  /\ alive \in BOOLEAN /\ rounds \in [Tasks -> 0..3] /\ pc \in [Threads -> BarrierStops]
  /\ done_count \in -1..(Cardinality(Tasks) - 1)
  /\ head # E!READY /\ \A th \in Threads : kept[th] = NULL
  /\ ~alive => \A th \in Threads : pc[th] \notin B!Steps

BarrierInv ==
  /\ BarrierTypes
  /\ \E S, H : Core(S, H) /\ (alive => \E p \in Nat : Phase(p, S, H))

\* The steps that the barrier takes over from the stack.
LEMMA BarrierSteps ==
  ASSUME NEW th \in Threads
  PROVE  /\ \A t \in Tasks : B!Dispatch(th, t) => E!Dispatch(th, t)
         /\ B!Complete(th) => E!Complete(th)
         /\ B!PushNode(self[th]) => E!PushNode(self[th])
         /\ \A h : B!InitWith(h) => E!InitWith(h)
         /\ B!start_count = Cardinality(Tasks) - 1
<1>1. \A t \in Tasks : B!Dispatch(th, t) => E!Dispatch(th, t)
  BY DEF B!Dispatch, E!Dispatch
<1>2. B!Complete(th) => E!Complete(th)
  BY DEF B!Complete, E!Complete
<1>3. B!PushNode(self[th]) => E!PushNode(self[th])
  BY DEF B!PushNode, E!PushNode
<1>4. \A h : B!InitWith(h) => E!InitWith(h)
  BY DEF B!InitWith, E!InitWith
<1> QED BY <1>1, <1>2, <1>3, <1>4 DEF B!start_count

LEMMA BarrierInit == ASSUME B!Init PROVE BarrierInv
<1>1. E!InitWith(NULL) /\ alive = TRUE /\ done_count = Cardinality(Tasks) - 1
  BY DEF B!Init, B!InitWith, E!InitWith, B!start_count
<1>2. PICK H : H = [th \in Threads |-> {}]
  OBVIOUS
<1>3. Core({}, H)
  BY <1>1, <1>2, CoreInit
<1>4. /\ rounds = [t \in Tasks |-> 0] /\ pc = [th \in Threads |-> "idle"] /\ head = NULL
      /\ kept = [th \in Threads |-> NULL]
  BY <1>1 DEF E!InitWith
<1>5. Cardinality(Tasks) \in Nat
  BY TasksAssumption, FS_CardinalityType
<1>6. BarrierTypes
  <2>1. done_count \in -1..(Cardinality(Tasks) - 1)
    BY <1>1, <1>5
  <2>2. "idle" \in BarrierStops /\ 0 \in 0..3 /\ NULL # E!READY
    BY ReadyIsNoTask DEF BarrierStops, EventStops
  <2> QED BY <1>1, <1>4, <2>1, <2>2 DEF BarrierTypes
<1>7. Phase(0, {}, H)
  <2>1. NotArrived(0) = Tasks
    BY <1>4 DEF NotArrived
  <2>2. Cardinality(NotArrived(0)) = done_count + 1
    BY <1>1, <1>5, <2>1
  <2>3. \A th \in Threads : pc[th] = "idle" /\ H[th] = {}
    BY <1>2, <1>4
  <2>4. \A t \in Tasks : rounds[t] = 0
    BY <1>4
  <2> QED BY <2>2, <2>3, <2>4 DEF Phase
<1> QED BY <1>3, <1>6, <1>7 DEF BarrierInv

\* A step that touches neither the counter nor a round keeps the phase.
LEMMA PhaseKept ==
  ASSUME NEW p \in Nat, NEW S, NEW H, NEW H2, Phase(p, S, H), UNCHANGED <<rounds, done_count>>,
         \A t \in Tasks : rounds[t] = p + 1 => tstate'[t] = "waiting",
         \A o \in Threads : H2[o] \subseteq H[o],
         \A o \in Threads :
            \/ pc'[o] = pc[o] /\ self'[o] = self[o]
            \/ pc[o] \notin {"arrive", "take", "reset"} /\ pc'[o] \notin {"arrive", "take", "reset"}
  PROVE  Phase(p, S, H2)'
<1>1. /\ \A t \in Tasks : rounds[t] \in {p, p + 1} /\ (rounds[t] = p + 1 => tstate[t] = "waiting")
      /\ \A t \in S : rounds[t] = p + 1
      /\ \A th \in Threads : pc[th] = "reset" => S = {} /\ \A t \in H[th] : rounds[t] = p + 1
      /\ \A th \in Threads : pc[th] # "reset" => \A t \in H[th] : rounds[t] = p
      /\ \A th \in Threads : pc[th] \in {"take", "reset"} => done_count = -1
      /\ \A a, b \in Threads : pc[a] \in {"take", "reset"} /\ pc[b] \in {"take", "reset"} => a = b
      /\ Cardinality(NotArrived(p)) = done_count + 1
  BY DEF Phase
<1>2. \A o \in Threads : \A q \in {"arrive", "take", "reset"} :
         pc'[o] = q <=> pc[o] = q
  OBVIOUS
<1>3. \A o \in Threads : pc[o] = "arrive" => self'[o] = self[o]
  OBVIOUS
<1>4. NotArrived(p)' = NotArrived(p)
  BY <1>2, <1>3 DEF NotArrived
<1>5. \A th \in Threads : pc'[th] = "reset" => S = {} /\ \A t \in H2[th] : rounds'[t] = p + 1
  BY <1>1, <1>2
<1>6. \A th \in Threads : pc'[th] # "reset" => \A t \in H2[th] : rounds'[t] = p
  BY <1>1, <1>2
<1>7. \A th \in Threads : pc'[th] \in {"take", "reset"} => pc[th] \in {"take", "reset"}
  BY <1>2
<1>8. Cardinality(NotArrived(p))' = done_count' + 1
  BY <1>1, <1>4
<1>9. \A t \in Tasks : rounds'[t] \in {p, p + 1} /\ (rounds'[t] = p + 1 => tstate'[t] = "waiting")
  BY <1>1
<1>10. \A t \in S : rounds'[t] = p + 1
  BY <1>1
<1>11. \A th \in Threads : pc'[th] \in {"take", "reset"} => done_count' = -1
  BY <1>1, <1>7
<1>12. \A a, b \in Threads : pc'[a] \in {"take", "reset"} /\ pc'[b] \in {"take", "reset"} => a = b
  BY <1>1, <1>7
<1> QED BY <1>5, <1>6, <1>8, <1>9, <1>10, <1>11, <1>12 DEF Phase

\* When nothing is left to arrive, every task is in the next round and nobody arrives.
LEMMA ArrivalFacts ==
  ASSUME NEW p \in Nat, NEW S, NEW H, Phase(p, S, H), done_count \in -1..(Cardinality(Tasks) - 1)
  PROVE  /\ IsFiniteSet(NotArrived(p)) /\ NotArrived(p) \subseteq Tasks
         /\ done_count \in Int
         /\ done_count = -1 => /\ NotArrived(p) = {}
                               /\ \A t \in Tasks : rounds[t] = p + 1 /\ tstate[t] = "waiting"
                               /\ \A th \in Threads : pc[th] = "arrive" => self[th] \notin Tasks
         /\ NotArrived(p) # {} => /\ done_count >= 0
                                  /\ \A th \in Threads : pc[th] \notin {"take", "reset"}
<1>1. NotArrived(p) \subseteq Tasks
  BY DEF NotArrived
<1>2. IsFiniteSet(NotArrived(p)) /\ Cardinality(NotArrived(p)) \in Nat
  BY <1>1, TasksAssumption, FS_Subset, FS_CardinalityType
<1>3. done_count \in Int /\ Cardinality(NotArrived(p)) = done_count + 1
  <2>1. Cardinality(Tasks) \in Nat
    BY TasksAssumption, FS_CardinalityType
  <2> QED BY <2>1 DEF Phase
<1>4. Cardinality(NotArrived(p)) = 0 <=> NotArrived(p) = {}
  BY <1>2, FS_EmptySet
<1>5. ASSUME done_count = -1
      PROVE  /\ NotArrived(p) = {}
             /\ \A t \in Tasks : rounds[t] = p + 1 /\ tstate[t] = "waiting"
             /\ \A th \in Threads : pc[th] = "arrive" => self[th] \notin Tasks
  <2>1. NotArrived(p) = {}
    BY <1>3, <1>4, <1>5
  <2>2. \A t \in Tasks : rounds[t] # p
    BY <2>1 DEF NotArrived
  <2>3. \A t \in Tasks : rounds[t] = p + 1 /\ tstate[t] = "waiting"
    BY <2>2 DEF Phase
  <2>4. \A th \in Threads : pc[th] = "arrive" => self[th] \notin Tasks
    BY <2>1 DEF NotArrived
  <2> QED BY <2>1, <2>3, <2>4
<1>6. ASSUME NotArrived(p) # {}
      PROVE  done_count >= 0 /\ \A th \in Threads : pc[th] \notin {"take", "reset"}
  <2>1. done_count # -1
    BY <1>3, <1>4, <1>6
  <2>2. done_count >= 0
    BY <1>2, <1>3, <2>1
  <2>3. \A th \in Threads : pc[th] \in {"take", "reset"} => done_count = -1
    BY DEF Phase
  <2> QED BY <2>1, <2>2, <2>3
<1> QED BY <1>1, <1>2, <1>3, <1>5, <1>6

\* A step of thread th, to q, that has nothing to do with the round: H2 is what is left of H,
\* and a task that has arrived still waits.
RoundUntouched(S, H, H2, th, q) ==
  /\ UNCHANGED <<rounds, alive, done_count, head, kept>>
  /\ q \in EventStops
  /\ pc[th] \notin {"arrive", "take", "reset"}
  /\ pc' = [pc EXCEPT ![th] = q]
  /\ \A o \in Threads : o # th => self'[o] = self[o]
  /\ \A o \in Threads : H2[o] \subseteq H[o]
  /\ \A p \in Nat, t \in Tasks : Phase(p, S, H) /\ rounds[t] = p + 1 => tstate'[t] = "waiting"

\* A step of a thread that is not inside the barrier's protocol, and of one that leaves it.
LEMMA BarrierKept ==
  ASSUME BarrierTypes, NEW S, NEW H, NEW H2, alive => \E p \in Nat : Phase(p, S, H),
         Core(S, H2)', NEW th \in Threads, NEW q, RoundUntouched(S, H, H2, th, q)
  PROVE  BarrierInv'
<1>0. /\ UNCHANGED <<rounds, alive, done_count, head, kept>>
      /\ q \in EventStops
      /\ pc[th] \notin {"arrive", "take", "reset"}
      /\ pc' = [pc EXCEPT ![th] = q]
      /\ \A o \in Threads : o # th => self'[o] = self[o]
      /\ \A o \in Threads : H2[o] \subseteq H[o]
      /\ \A p \in Nat, t \in Tasks : Phase(p, S, H) /\ rounds[t] = p + 1 => tstate'[t] = "waiting"
  BY DEF RoundUntouched
<1>1. /\ q \in BarrierStops /\ q \notin {"arrive", "take", "reset"} /\ q \notin B!Steps
  BY <1>0 DEF BarrierStops, EventStops, B!Steps
<1>2. /\ pc' \in [Threads -> BarrierStops] /\ pc'[th] = q
      /\ \A o \in Threads : o # th => pc'[o] = pc[o]
  BY <1>0, <1>1 DEF BarrierTypes
<1>3. BarrierTypes'
  <2>1. ~alive => \A o \in Threads : pc'[o] \notin B!Steps
    BY <1>0, <1>1, <1>2 DEF BarrierTypes
  <2> QED BY <1>0, <1>2, <2>1 DEF BarrierTypes
<1>4. ASSUME alive' PROVE \E p \in Nat : Phase(p, S, H2)'
  <2>1. PICK p \in Nat : Phase(p, S, H)
    BY <1>0, <1>4
  <2>2. \A t \in Tasks : rounds[t] = p + 1 => tstate'[t] = "waiting"
    BY <1>0, <2>1
  <2>3. \A o \in Threads :
            \/ pc'[o] = pc[o] /\ self'[o] = self[o]
            \/ pc[o] \notin {"arrive", "take", "reset"} /\ pc'[o] \notin {"arrive", "take", "reset"}
    BY <1>0, <1>1, <1>2
  <2>4. Phase(p, S, H2)'
    BY <1>0, <2>1, <2>2, <2>3, PhaseKept
  <2> QED BY <2>4
<1> QED BY <1>3, <1>4 DEF BarrierInv

\* Dispatch, posting and the end of a task leave the round alone.
LEMMA BarrierShared ==
  ASSUME BarrierInv, NEW th \in Threads,
         \/ (B!PostBatch(th) \/ \E t \in Tasks : B!Dispatch(th, t)) /\ UNCHANGED <<alive, done_count>>
         \/ B!EndTask(th)
  PROVE  BarrierInv'
<1>1. PICK S, H : Core(S, H) /\ (alive => \E p \in Nat : Phase(p, S, H))
  BY DEF BarrierInv
<1>2. BarrierTypes /\ self \in Places /\ tstate \in States /\ H \in [Threads -> SUBSET Tasks]
  BY <1>1 DEF BarrierInv, Core, CoreTypes, Stack, Lists
<1>3. \A p \in Nat, t \in Tasks : Phase(p, S, H) /\ rounds[t] = p + 1 => tstate[t] = "waiting"
  BY DEF Phase
<1>4. \A o \in Threads : H[o] \subseteq H[o]
  OBVIOUS
<1>5. CASE (\E t \in Tasks : B!Dispatch(th, t)) /\ UNCHANGED <<alive, done_count>>
  <2>1. PICK t \in Tasks : E!Dispatch(th, t)
    BY <1>5, BarrierSteps
  <2>2. Core(S, H)'
    BY <1>1, <2>1, CoreDispatch
  <2>3. /\ pc[th] = "idle" /\ pc' = [pc EXCEPT ![th] = "user"] /\ tstate[t] = "ready"
        /\ tstate' = [tstate EXCEPT ![t] = "running"] /\ self' = [self EXCEPT ![th] = t]
        /\ UNCHANGED <<rounds, head, kept, alive, done_count>>
    BY <1>5, <2>1 DEF E!Dispatch
  <2>4. \A u \in Tasks : tstate[u] = "waiting" => tstate'[u] = "waiting"
    BY <1>2, <2>3 DEF States
  <2>5. "user" \in EventStops /\ \A o \in Threads : o # th => self'[o] = self[o]
    BY <1>2, <2>3 DEF EventStops, Places
  <2>6. \A p \in Nat, u \in Tasks : Phase(p, S, H) /\ rounds[u] = p + 1 => tstate'[u] = "waiting"
    BY <1>3, <2>4
  <2>7. pc[th] \notin {"arrive", "take", "reset"} /\ pc' = [pc EXCEPT ![th] = "user"]
    BY <2>3
  <2>8. UNCHANGED <<rounds, alive, done_count, head, kept>>
    BY <2>3
  <2>9. RoundUntouched(S, H, H, th, "user")
    BY <1>4, <2>5, <2>6, <2>7, <2>8 DEF RoundUntouched
  <2> QED BY <1>1, <1>2, <2>2, <2>9, BarrierKept
<1>6. CASE B!EndTask(th)
  <2>1. E!Complete(th) /\ UNCHANGED <<alive, done_count>>
    BY <1>6, BarrierSteps DEF B!EndTask
  <2>2. Core(S, H)'
    BY <1>1, <2>1, CoreComplete
  <2>3. /\ pc[th] = "user" /\ pc' = [pc EXCEPT ![th] = "idle"]
        /\ tstate' = [tstate EXCEPT ![self[th]] = "done"] /\ self' = [self EXCEPT ![th] = NULL]
        /\ UNCHANGED <<rounds, head, kept>>
    BY <2>1 DEF E!Complete
  <2>4. self[th] \in Tasks /\ tstate[self[th]] = "running"
    BY <1>1, <2>3, SelfIsTask DEF B!Steps
  <2>5. \A u \in Tasks : tstate[u] = "waiting" => tstate'[u] = "waiting"
    BY <1>2, <2>3, <2>4 DEF States
  <2>6. "idle" \in EventStops /\ \A o \in Threads : o # th => self'[o] = self[o]
    BY <1>2, <2>3 DEF EventStops, Places
  <2>7. \A p \in Nat, t \in Tasks : Phase(p, S, H) /\ rounds[t] = p + 1 => tstate'[t] = "waiting"
    BY <1>3, <2>5
  <2>8. pc[th] \notin {"arrive", "take", "reset"} /\ pc' = [pc EXCEPT ![th] = "idle"]
    BY <2>3
  <2>9. UNCHANGED <<rounds, alive, done_count, head, kept>>
    BY <2>1, <2>3
  <2>10. RoundUntouched(S, H, H, th, "idle")
    BY <1>4, <2>6, <2>7, <2>8, <2>9 DEF RoundUntouched
  <2> QED BY <1>1, <1>2, <2>2, <2>10, BarrierKept
<1>7. CASE B!PostBatch(th) /\ UNCHANGED <<alive, done_count>>
  <2>1. BatchPosted(th, E!Chain(curr[th]), Cardinality(Tasks), E!AfterWake(th))
    BY <1>7, PostIsAlike
  <2>2. PICK batch \in SUBSET H[th] : Core(S, Without(H, th, batch))' /\ tstate' = Posted(tstate, batch)
    BY <1>1, <2>1, CorePost
  <2>3. /\ pc[th] = "wake" /\ pc' = [pc EXCEPT ![th] = pc'[th]] /\ pc'[th] \in {"wake", E!AfterWake(th)}
        /\ UNCHANGED <<head, rounds, self, kept>>
    BY <1>1, <2>1, CorePost
  <2>4. PICK q \in EventStops : pc' = [pc EXCEPT ![th] = q]
    BY <2>3 DEF E!AfterWake, EventStops
  <2>5. PICK H2 : H2 = Without(H, th, batch)
    OBVIOUS
  <2>6. \A o \in Threads : H2[o] \subseteq H[o]
    BY <1>2, <2>5 DEF Without
  <2>7. ASSUME NEW p \in Nat, NEW t \in Tasks, Phase(p, S, H), rounds[t] = p + 1
        PROVE  tstate'[t] = "waiting"
    <3>1. t \notin batch
      BY <2>3, <2>7 DEF Phase
    <3> QED BY <1>3, <2>2, <2>7, <3>1 DEF Posted
  <2>8. pc[th] \notin {"arrive", "take", "reset"} /\ \A o \in Threads : o # th => self'[o] = self[o]
    BY <2>3
  <2>9. UNCHANGED <<rounds, alive, done_count, head, kept>>
    BY <1>7, <2>3
  <2>10. Core(S, H2)'
    BY <2>2, <2>5
  <2>11. BarrierTypes /\ (alive => \E p \in Nat : Phase(p, S, H))
    BY <1>1, <1>2
  <2>12. \A p \in Nat, t \in Tasks : Phase(p, S, H) /\ rounds[t] = p + 1 => tstate'[t] = "waiting"
    BY <2>7
  <2>13. RoundUntouched(S, H, H2, th, q)
    BY <2>4, <2>6, <2>8, <2>9, <2>12 DEF RoundUntouched
  <2> QED BY <2>10, <2>11, <2>13, BarrierKept
<1> QED BY <1>5, <1>6, <1>7

\* co_await: the node is pushed before the arrival is counted.
LEMMA BarrierAwait == ASSUME BarrierInv, NEW th \in Threads, B!Await(th) PROVE BarrierInv'
<1>1. PICK S, H : Core(S, H) /\ (alive => \E p \in Nat : Phase(p, S, H))
  BY DEF BarrierInv
<1>2. BarrierTypes /\ self \in Places /\ tstate \in States /\ H \in [Threads -> SUBSET Tasks]
  BY <1>1 DEF BarrierInv, Core, CoreTypes, Stack, Lists
<1>3. PICK t : t = self[th]
  OBVIOUS
<1>4. /\ pc[th] = "user" /\ alive /\ rounds[t] < 3 /\ rounds' = [rounds EXCEPT ![t] = @ + 1]
      /\ E!PushNode(t) /\ tstate' = [tstate EXCEPT ![t] = "waiting"]
      /\ pc' = [pc EXCEPT ![th] = "arrive"] /\ UNCHANGED <<self, curr, kept, alive, done_count>>
  BY <1>3, BarrierSteps DEF B!Await, B!BeginRound
<1>5. t \in Tasks /\ tstate[t] = "running"
  BY <1>1, <1>3, <1>4, SelfIsTask DEF B!Steps
<1>6. PICK p \in Nat : Phase(p, S, H)
  BY <1>1, <1>4
<1>7. rounds[t] = p /\ t \in NotArrived(p)
  BY <1>5, <1>6 DEF Phase, NotArrived
<1>8. done_count \in -1..(Cardinality(Tasks) - 1)
  BY <1>2 DEF BarrierTypes
<1>9. \A o \in Threads : pc[o] \notin {"take", "reset"}
  BY <1>6, <1>7, <1>8, ArrivalFacts
<1>10. Core(S \cup {t}, H)'
  <2>1. self' = [self EXCEPT ![th] = IF "arrive" = "idle" THEN NULL ELSE t]
    BY <1>2, <1>3, <1>4 DEF Places
  <2>2. head # E!READY
    BY <1>2 DEF BarrierTypes
  <2> QED BY <1>1, <1>3, <1>4, <2>1, <2>2, CorePush
<1>11. /\ rounds' \in [Tasks -> 0..3] /\ rounds'[t] = p + 1 /\ \A u \in Tasks : u # t => rounds'[u] = rounds[u]
  <2>1. rounds \in [Tasks -> 0..3] /\ 3 \in Nat /\ pc[th] # "idle"
    BY <1>2, <1>4 DEF BarrierTypes
  <2> QED BY <1>1, <1>3, <1>4, <1>7, <2>1, RoundBegun
<1>12. /\ pc' \in [Threads -> BarrierStops] /\ pc'[th] = "arrive"
       /\ \A o \in Threads : o # th => pc'[o] = pc[o]
  BY <1>2, <1>4 DEF BarrierTypes, BarrierStops, B!Steps
<1>13. tstate'[t] = "waiting" /\ \A u \in Tasks : u # t => tstate'[u] = tstate[u]
  BY <1>2, <1>4, <1>5 DEF States
<1>14. BarrierTypes'
  <2>1. head' # E!READY
    BY <1>4, <1>5, ReadyIsNoTask DEF E!PushNode
  <2> QED BY <1>2, <1>4, <1>11, <1>12, <2>1 DEF BarrierTypes
<1>15. NotArrived(p)' = NotArrived(p)
  <2>1. ASSUME NEW u \in Tasks
        PROVE  (rounds'[u] = p \/ \E o \in Threads : pc'[o] = "arrive" /\ self'[o] = u)
                 <=> (rounds[u] = p \/ \E o \in Threads : pc[o] = "arrive" /\ self[o] = u)
    <3>1. CASE u = t
      BY <1>3, <1>4, <1>7, <1>12, <3>1
    <3>2. CASE u # t
      BY <1>3, <1>4, <1>11, <1>12, <3>2
    <3> QED BY <3>1, <3>2
  <2> QED BY <2>1 DEF NotArrived
<1>16. Phase(p, S \cup {t}, H)'
  <2>1. /\ \A u \in Tasks : rounds[u] \in {p, p + 1} /\ (rounds[u] = p + 1 => tstate[u] = "waiting")
        /\ \A u \in S : rounds[u] = p + 1
        /\ \A o \in Threads : pc[o] # "reset" => \A u \in H[o] : rounds[u] = p
        /\ Cardinality(NotArrived(p)) = done_count + 1
    BY <1>6 DEF Phase
  <2>2. t \notin S /\ \A o \in Threads : t \notin H[o]
    <3>1. tstate[t] # "waiting"
      BY <1>5
    <3> QED BY <1>1, <1>5, <3>1 DEF Core, Stack, Waits, Has
  <2>3. S \subseteq Tasks /\ \A o \in Threads : H[o] \subseteq Tasks
    BY <1>1, <1>2 DEF Core, Stack, Lists
  <2>4. \A u \in Tasks : rounds'[u] \in {p, p + 1} /\ (rounds'[u] = p + 1 => tstate'[u] = "waiting")
    BY <1>11, <1>13, <2>1
  <2>5. \A u \in S \cup {t} : rounds'[u] = p + 1
    BY <1>11, <2>1, <2>2, <2>3
  <2>6. \A o \in Threads : pc'[o] \notin {"take", "reset"}
    BY <1>9, <1>12
  <2>7. \A o \in Threads : \A u \in H[o] : rounds'[u] = p
    BY <1>9, <1>11, <2>1, <2>2, <2>3
  <2>8. Cardinality(NotArrived(p))' = done_count' + 1
    BY <1>4, <1>15, <2>1
  <2> QED BY <2>4, <2>5, <2>6, <2>7, <2>8 DEF Phase
<1> QED BY <1>10, <1>14, <1>16 DEF BarrierInv

\* fetch_sub of the counter: one task less has yet to arrive.
LEMMA BarrierArrive == ASSUME BarrierInv, NEW th \in Threads, B!Arrive(th) PROVE BarrierInv'
<1>1. PICK S, H : Core(S, H) /\ (alive => \E p \in Nat : Phase(p, S, H))
  BY DEF BarrierInv
<1>2. BarrierTypes /\ CoreTypes /\ SelfRuns /\ WalksOnly /\ Stack(head, next, curr, kept, tstate, S, H)
  BY <1>1 DEF BarrierInv, Core
<1>3. PICK t : t = self[th]
  OBVIOUS
<1>3a. PICK q : q = IF done_count > 0 THEN "idle" ELSE "take"
  OBVIOUS
<1>3b. PICK me : me = IF q = "idle" THEN NULL ELSE t
  OBVIOUS
<1>4.   /\ q \in {"idle", "take"}
        /\ pc[th] = "arrive" /\ done_count' = done_count - 1
        /\ q = IF done_count > 0 THEN "idle" ELSE "take"
        /\ me = IF q = "idle" THEN NULL ELSE t
        /\ pc' = [pc EXCEPT ![th] = q] /\ self' = [self EXCEPT ![th] = me]
        /\ UNCHANGED <<head, next, tstate, rounds, curr, kept, alive>>
  <2>1. /\ pc[th] = "arrive" /\ done_count' = done_count - 1
        /\ UNCHANGED <<head, next, tstate, rounds, curr, kept, alive>>
    BY DEF B!Arrive, B!sched
  <2>2. CASE done_count > 0
    <3>1. pc' = [pc EXCEPT ![th] = "idle"] /\ self' = [self EXCEPT ![th] = NULL]
      BY <2>2 DEF B!Arrive, B!MoreToCome
    <3>2. q = "idle" /\ me = NULL
      BY <1>3a, <1>3b, <2>2
    <3> QED BY <1>3a, <1>3b, <2>1, <3>1, <3>2
  <2>3. CASE ~(done_count > 0)
    <3>1. pc' = [pc EXCEPT ![th] = "take"] /\ self' = self
      BY <2>3 DEF B!Arrive, B!MoreToCome
    <3>2. self' = [self EXCEPT ![th] = t]
      BY <1>2, <1>3, <3>1 DEF CoreTypes, Places
    <3>3. q = "take" /\ me = t
      BY <1>3a, <1>3b, <2>3
    <3> QED BY <1>3a, <1>3b, <2>1, <3>1, <3>2, <3>3
  <2> QED BY <2>2, <2>3
<1>5. t \in Tasks /\ t \in S /\ curr[th] = NULL /\ kept[th] = NULL
  BY <1>1, <1>2, <1>3, <1>4, SelfIsTask DEF Core, StaysListed, WalksOnly
<1>6. \A o \in Threads : o # th => self[o] # t
  BY <1>2, <1>3, <1>5, NullAssumption DEF SelfRuns
<1>7. Core(S, H)'
  <2>1. /\ q \in Stops /\ me \in Tasks \cup {NULL} /\ (q = "idle" <=> me = NULL)
        /\ me # NULL => \A o \in Threads : o # th => self[o] # me
        /\ curr'[th] # NULL => q \in {"wake", "reset", "unlink"}
        /\ kept'[th] # NULL => q \in {"wake", "transfer"}
        /\ q = "transfer" => kept'[th] # NULL
        /\ q \in {"arrive", "take"} => me \in S
        /\ q \in {"reset", "unlink"} => me \in H[th]
        /\ q \notin B!Steps \cup {"idle"} => tstate'[me] = "running"
    BY <1>4, <1>5, <1>6, NullAssumption DEF Stops, B!Steps
  <2>2. \A o \in Threads : o # th =>
            /\ pc[o] \notin B!Steps \cup {"idle"} => tstate'[self[o]] = "running"
            /\ pc[o] \in {"arrive", "take"} => self[o] \in S
            /\ pc[o] \in {"reset", "unlink"} => self[o] \in H[o]
    <3>1. Core(S, H) /\ tstate' = tstate
      BY <1>1, <1>4
    <3>2. \A o \in Threads : o # th => /\ pc[o] \notin B!Steps \cup {"idle"} => tstate'[self[o]] = "running"
      BY <3>1 DEF Core, SelfRuns
    <3>3. \A o \in Threads : o # th =>
            /\ pc[o] \in {"arrive", "take"} => self[o] \in S
            /\ pc[o] \in {"reset", "unlink"} => self[o] \in H[o]
      BY <3>1 DEF Core, StaysListed
    <3> QED BY <3>2, <3>3
  <2>3. /\ head' \in Tasks \cup {NULL, E!READY} /\ next' \in Links /\ curr' \in Places /\ kept' \in Places
        /\ tstate' \in States /\ Stack(head', next', curr', kept', tstate', S, H)
        /\ \A o \in Threads : o # th => curr'[o] = curr[o] /\ kept'[o] = kept[o]
    BY <1>2, <1>4 DEF CoreTypes
  <2>4. Moves(th, q, me, S, H)
    BY <1>1, <1>4, <2>1, <2>2, <2>3 DEF Moves
  <2> QED BY <1>1, <2>4, CoreMove
<1>8. alive
  BY <1>2, <1>4 DEF BarrierTypes, B!Steps
<1>9. PICK p \in Nat : Phase(p, S, H)
  BY <1>1, <1>8
<1>10. rounds[t] = p + 1 /\ t \in NotArrived(p)
  BY <1>3, <1>4, <1>5, <1>9 DEF Phase, NotArrived
<1>11. /\ done_count \in -1..(Cardinality(Tasks) - 1) /\ Cardinality(Tasks) \in Nat
  BY <1>2, TasksAssumption, FS_CardinalityType DEF BarrierTypes
<1>12. /\ done_count \in Int /\ done_count >= 0 /\ \A o \in Threads : pc[o] \notin {"take", "reset"}
  BY <1>9, <1>10, <1>11, ArrivalFacts
<1>13. /\ pc' \in [Threads -> BarrierStops] /\ pc'[th] = q
       /\ \A o \in Threads : o # th => pc'[o] = pc[o]
  BY <1>2, <1>4 DEF BarrierTypes, BarrierStops, EventStops, B!Steps
<1>14. BarrierTypes'
  <2>1. done_count' \in -1..(Cardinality(Tasks) - 1)
    BY <1>4, <1>11, <1>12
  <2> QED BY <1>2, <1>4, <1>8, <1>13, <2>1 DEF BarrierTypes
<1>15. NotArrived(p)' = NotArrived(p) \ {t}
  <2>1. \A o \in Threads : o # th => self'[o] = self[o]
    BY <1>2, <1>4 DEF CoreTypes, Places
  <2>2. ASSUME NEW u \in Tasks
        PROVE  (rounds'[u] = p \/ \E o \in Threads : pc'[o] = "arrive" /\ self'[o] = u)
                 <=> (rounds[u] = p \/ \E o \in Threads : pc[o] = "arrive" /\ self[o] = u) /\ u # t
    <3>1. CASE u = t
      <4>1. rounds'[u] # p
        BY <1>4, <1>10, <3>1
      <4>2. \A o \in Threads : ~(pc'[o] = "arrive" /\ self'[o] = u)
        BY <1>4, <1>6, <1>13, <2>1, <3>1
      <4> QED BY <3>1, <4>1, <4>2
    <3>2. CASE u # t
      <4>1. \A o \in Threads : pc'[o] = "arrive" /\ self'[o] = u <=> pc[o] = "arrive" /\ self[o] = u
        BY <1>3, <1>4, <1>13, <2>1, <3>2
      <4> QED BY <1>4, <3>2, <4>1
    <3> QED BY <3>1, <3>2
  <2>3. \A u \in Tasks : u \in NotArrived(p)' <=> u \in NotArrived(p) \ {t}
    BY <2>2 DEF NotArrived
  <2> QED BY <2>3 DEF NotArrived
<1>16. Cardinality(NotArrived(p)') = done_count' + 1
  <2>1. IsFiniteSet(NotArrived(p)) /\ Cardinality(NotArrived(p)) = done_count + 1
    BY <1>9, <1>11, ArrivalFacts DEF Phase
  <2>2. Cardinality(NotArrived(p) \ {t}) = Cardinality(NotArrived(p)) - 1
    BY <1>10, <2>1, FS_RemoveElement
  <2> QED BY <1>4, <1>12, <1>15, <2>1, <2>2
<1>17. Phase(p, S, H)'
  <2>1. /\ \A u \in Tasks : rounds[u] \in {p, p + 1} /\ (rounds[u] = p + 1 => tstate[u] = "waiting")
        /\ \A u \in S : rounds[u] = p + 1
        /\ \A o \in Threads : pc[o] # "reset" => \A u \in H[o] : rounds[u] = p
    BY <1>9 DEF Phase
  <2>2. \A o \in Threads : /\ pc'[o] # "reset"
                           /\ pc'[o] = "take" => o = th /\ done_count' = -1
    BY <1>4, <1>12, <1>13
  <2>3. \A o \in Threads : \A u \in H[o] : rounds[u] = p
    BY <1>12, <2>1
  <2> QED BY <1>4, <1>16, <2>1, <2>2, <2>3 DEF Phase
<1> QED BY <1>7, <1>14, <1>17 DEF BarrierInv

\* The last arrival takes every node.
LEMMA BarrierTakeAll == ASSUME BarrierInv, NEW th \in Threads, B!TakeAll(th) PROVE BarrierInv'
<1>1. PICK S, H : Core(S, H) /\ (alive => \E p \in Nat : Phase(p, S, H))
  BY DEF BarrierInv
<1>2. BarrierTypes /\ CoreTypes /\ SelfRuns /\ WalksOnly /\ Stack(head, next, curr, kept, tstate, S, H)
  BY <1>1 DEF BarrierInv, Core
<1>3. /\ pc[th] = "take" /\ curr' = [curr EXCEPT ![th] = head] /\ head' = NULL
      /\ pc' = [pc EXCEPT ![th] = "reset"]
      /\ UNCHANGED <<next, tstate, rounds, self, kept, alive, done_count>>
  BY DEF B!TakeAll, B!sched
<1>4. PICK t : t = self[th]
  OBVIOUS
<1>5. t \in Tasks /\ t \in S /\ curr[th] = NULL /\ kept[th] = NULL
  BY <1>1, <1>2, <1>3, <1>4, SelfIsTask DEF Core, StaysListed, WalksOnly
<1>6. alive
  BY <1>2, <1>3 DEF BarrierTypes, B!Steps
<1>7. PICK p \in Nat : Phase(p, S, H)
  BY <1>1, <1>6
<1>8. done_count = -1 /\ done_count \in -1..(Cardinality(Tasks) - 1)
  BY <1>2, <1>3, <1>7 DEF Phase, BarrierTypes
<1>9. /\ NotArrived(p) = {}
      /\ \A u \in Tasks : rounds[u] = p + 1 /\ tstate[u] = "waiting"
      /\ \A o \in Threads : pc[o] = "arrive" => self[o] \notin Tasks
  BY <1>7, <1>8, ArrivalFacts
<1>10. \A o \in Threads : o # th => pc[o] \notin {"arrive", "take", "reset"}
  <2>1. \A o \in Threads : pc[o] # "arrive"
    BY <1>1, <1>9, SelfIsTask
  <2>2. \A o \in Threads : o # th => pc[o] \notin {"take", "reset"}
    BY <1>3, <1>7 DEF Phase
  <2> QED BY <2>1, <2>2
<1>11. PICK H2 : H2 = [H EXCEPT ![th] = S]
  OBVIOUS
<1>12. H[th] = {} /\ Stack(head', next', curr', kept', tstate', {}, H2)
  <2>1. head = IF head = E!READY THEN NULL ELSE head
    BY <1>2 DEF BarrierTypes
  <2>2. curr \in Places /\ NULL \in {NULL, E!READY}
    BY <1>2 DEF CoreTypes
  <2>3. H[th] = {} /\ Stack(NULL, next, [curr EXCEPT ![th] = head], kept, tstate, {}, [H EXCEPT ![th] = S])
    BY <1>2, <1>5, <2>1, <2>2, StackTake
  <2> QED BY <1>3, <1>11, <2>3
<1>13. H \in [Threads -> SUBSET Tasks] /\ H2[th] = S /\ \A o \in Threads : o # th => H2[o] = H[o]
  BY <1>2, <1>11 DEF Stack, Lists
<1>14. head \in Tasks \cup {NULL}
  BY <1>2 DEF CoreTypes, BarrierTypes
<1>15. curr' \in Places /\ \A o \in Threads : o # th => curr'[o] = curr[o]
  BY <1>2, <1>3, <1>14 DEF CoreTypes, Places
<1>16. Core({}, H2)'
  <2>1. /\ "reset" \in Stops /\ t \in Tasks \cup {NULL} /\ ("reset" = "idle" <=> t = NULL)
        /\ t # NULL => \A o \in Threads : o # th => self[o] # t
        /\ curr'[th] # NULL => "reset" \in {"wake", "reset", "unlink"}
        /\ kept'[th] # NULL => "reset" \in {"wake", "transfer"}
        /\ "reset" = "transfer" => kept'[th] # NULL
        /\ "reset" \in {"arrive", "take"} => t \in {}
        /\ "reset" \in {"reset", "unlink"} => t \in H2[th]
        /\ "reset" \notin B!Steps \cup {"idle"} => tstate'[t] = "running"
    BY <1>2, <1>3, <1>4, <1>5, <1>13, NullAssumption DEF Stops, B!Steps, SelfRuns
  <2>2. \A o \in Threads : o # th =>
            /\ pc[o] \notin B!Steps \cup {"idle"} => tstate'[self[o]] = "running"
            /\ pc[o] \in {"arrive", "take"} => self[o] \in {}
            /\ pc[o] \in {"reset", "unlink"} => self[o] \in H2[o]
    BY <1>1, <1>3, <1>10, <1>13 DEF Core, SelfRuns, StaysListed
  <2>3. /\ head' \in Tasks \cup {NULL, E!READY} /\ next' \in Links /\ kept' \in Places
        /\ tstate' \in States /\ self' = [self EXCEPT ![th] = t]
        /\ \A o \in Threads : o # th => curr'[o] = curr[o] /\ kept'[o] = kept[o]
    BY <1>2, <1>3, <1>4, <1>15 DEF CoreTypes, Places
  <2>4. /\ Core(S, H) /\ pc' = [pc EXCEPT ![th] = "reset"] /\ curr' \in Places
        /\ Stack(head', next', curr', kept', tstate', {}, H2)
    BY <1>1, <1>3, <1>12, <1>15
  <2>5. Moves(th, "reset", t, {}, H2)
    BY <2>1, <2>2, <2>3, <2>4 DEF Moves
  <2> QED BY <2>4, <2>5, CoreMove
<1>17. /\ pc' \in [Threads -> BarrierStops] /\ pc'[th] = "reset"
       /\ \A o \in Threads : o # th => pc'[o] = pc[o]
  BY <1>2, <1>3 DEF BarrierTypes, BarrierStops, B!Steps
<1>18. BarrierTypes'
  <2>1. NULL # E!READY
    BY ReadyIsNoTask
  <2> QED BY <1>2, <1>3, <1>6, <1>17, <2>1 DEF BarrierTypes
<1>19. NotArrived(p)' = NotArrived(p)
  <2>1. \A o \in Threads : pc'[o] # "arrive" /\ pc[o] # "arrive"
    BY <1>3, <1>10, <1>17
  <2> QED BY <1>3, <2>1 DEF NotArrived
<1>20. Phase(p, {}, H2)'
  <2>1. \A u \in Tasks : rounds[u] \in {p, p + 1} /\ (rounds[u] = p + 1 => tstate[u] = "waiting")
    BY <1>7 DEF Phase
  <2>2. \A u \in H2[th] : rounds[u] = p + 1
    BY <1>7, <1>13 DEF Phase
  <2>3. \A o \in Threads : o # th => \A u \in H2[o] : rounds[u] = p
    BY <1>7, <1>10, <1>13 DEF Phase
  <2>4. \A o \in Threads : pc'[o] \in {"take", "reset"} <=> o = th
    BY <1>10, <1>17
  <2>5. Cardinality(NotArrived(p))' = done_count' + 1
    BY <1>3, <1>7, <1>19 DEF Phase
  <2> QED BY <1>3, <1>8, <1>17, <2>1, <2>2, <2>3, <2>4, <2>5 DEF Phase
<1> QED BY <1>16, <1>18, <1>20 DEF BarrierInv

\* The counter starts again before anybody is woken: the next phase begins.
LEMMA BarrierReset == ASSUME BarrierInv, NEW th \in Threads, B!Reset(th) PROVE BarrierInv'
<1>1. PICK S, H : Core(S, H) /\ (alive => \E p \in Nat : Phase(p, S, H))
  BY DEF BarrierInv
<1>2. BarrierTypes /\ CoreTypes /\ SelfRuns /\ WalksOnly /\ Stack(head, next, curr, kept, tstate, S, H)
  BY <1>1 DEF BarrierInv, Core
<1>3. /\ pc[th] = "reset" /\ done_count' = Cardinality(Tasks) - 1
      /\ pc' = [pc EXCEPT ![th] = "unlink"]
      /\ UNCHANGED <<head, next, tstate, rounds, self, curr, kept, alive>>
  BY DEF B!Reset, B!start_count, B!sched
<1>4. PICK t : t = self[th]
  OBVIOUS
<1>5. t \in Tasks /\ t \in H[th] /\ kept[th] = NULL
  BY <1>1, <1>2, <1>3, <1>4, SelfIsTask DEF Core, StaysListed, WalksOnly
<1>6. alive
  BY <1>2, <1>3 DEF BarrierTypes, B!Steps
<1>7. PICK p \in Nat : Phase(p, S, H)
  BY <1>1, <1>6
<1>8. /\ done_count = -1 /\ done_count \in -1..(Cardinality(Tasks) - 1)
      /\ S = {} /\ \A u \in H[th] : rounds[u] = p + 1
  BY <1>2, <1>3, <1>7 DEF Phase, BarrierTypes
<1>9. /\ \A u \in Tasks : rounds[u] = p + 1 /\ tstate[u] = "waiting"
      /\ \A o \in Threads : pc[o] = "arrive" => self[o] \notin Tasks
  BY <1>7, <1>8, ArrivalFacts
<1>10. \A o \in Threads : o # th => pc[o] \notin {"arrive", "take", "reset"}
  <2>1. \A o \in Threads : pc[o] # "arrive"
    BY <1>1, <1>9, SelfIsTask
  <2>2. \A o \in Threads : o # th => pc[o] \notin {"take", "reset"}
    BY <1>3, <1>7 DEF Phase
  <2> QED BY <2>1, <2>2
<1>11. H \in [Threads -> SUBSET Tasks]
  BY <1>2 DEF Stack, Lists
<1>12. /\ pc' \in [Threads -> BarrierStops] /\ pc'[th] = "unlink"
       /\ \A o \in Threads : o # th => pc'[o] = pc[o]
  BY <1>2, <1>3 DEF BarrierTypes, BarrierStops, B!Steps
<1>13. Core(S, H)'
  <2>1. /\ "unlink" \in Stops /\ t \in Tasks \cup {NULL} /\ ("unlink" = "idle" <=> t = NULL)
        /\ t # NULL => \A o \in Threads : o # th => self[o] # t
        /\ curr'[th] # NULL => "unlink" \in {"wake", "reset", "unlink"}
        /\ kept'[th] # NULL => "unlink" \in {"wake", "transfer"}
        /\ "unlink" = "transfer" => kept'[th] # NULL
        /\ "unlink" \in {"arrive", "take"} => t \in S
        /\ "unlink" \in {"reset", "unlink"} => t \in H[th]
        /\ "unlink" \notin B!Steps \cup {"idle"} => tstate'[t] = "running"
    BY <1>2, <1>3, <1>4, <1>5, NullAssumption DEF Stops, B!Steps, SelfRuns
  <2>2. \A o \in Threads : o # th =>
            /\ pc[o] \notin B!Steps \cup {"idle"} => tstate'[self[o]] = "running"
            /\ pc[o] \in {"arrive", "take"} => self[o] \in S
            /\ pc[o] \in {"reset", "unlink"} => self[o] \in H[o]
    <3>1. Core(S, H) /\ tstate' = tstate
      BY <1>1, <1>3
    <3>2. \A o \in Threads : o # th => /\ pc[o] \notin B!Steps \cup {"idle"} => tstate'[self[o]] = "running"
      BY <3>1 DEF Core, SelfRuns
    <3>3. \A o \in Threads : o # th =>
            /\ pc[o] \in {"arrive", "take"} => self[o] \in S
            /\ pc[o] \in {"reset", "unlink"} => self[o] \in H[o]
      BY <3>1 DEF Core, StaysListed
    <3> QED BY <3>2, <3>3
  <2>3. /\ head' \in Tasks \cup {NULL, E!READY} /\ next' \in Links /\ kept' \in Places
        /\ tstate' \in States /\ self' = [self EXCEPT ![th] = t] /\ curr' \in Places
        /\ \A o \in Threads : o # th => curr'[o] = curr[o] /\ kept'[o] = kept[o]
    BY <1>2, <1>3, <1>4 DEF CoreTypes, Places
  <2>4. /\ Core(S, H) /\ pc' = [pc EXCEPT ![th] = "unlink"]
        /\ Stack(head', next', curr', kept', tstate', S, H)
    BY <1>1, <1>2, <1>3
  <2>5. Moves(th, "unlink", t, S, H)
    BY <2>1, <2>2, <2>3, <2>4 DEF Moves
  <2> QED BY <2>4, <2>5, CoreMove
<1>14. Cardinality(Tasks) \in Nat
  BY TasksAssumption, FS_CardinalityType
<1>15. BarrierTypes'
  <2>1. done_count' \in -1..(Cardinality(Tasks) - 1)
    BY <1>3, <1>14
  <2> QED BY <1>2, <1>3, <1>6, <1>12, <2>1 DEF BarrierTypes
<1>16. PICK n \in Nat : n = p + 1
  OBVIOUS
<1>17. NotArrived(n)' = Tasks
  BY <1>3, <1>9, <1>16 DEF NotArrived
<1>18. Phase(n, S, H)'
  <2>1. \A u \in Tasks : rounds'[u] = n /\ n # n + 1
    BY <1>3, <1>9, <1>16
  <2>2. \A o \in Threads : pc'[o] \notin {"take", "reset"}
    BY <1>10, <1>12
  <2>3. \A o \in Threads : \A u \in H[o] : rounds'[u] = n
    BY <1>11, <2>1
  <2>4. Cardinality(NotArrived(n)') = done_count' + 1
    BY <1>3, <1>14, <1>17
  <2> QED BY <1>8, <2>1, <2>2, <2>3, <2>4 DEF Phase
<1> QED BY <1>13, <1>15, <1>18 DEF BarrierInv

\* The last arrival takes its own node out of the chain and goes on.
LEMMA BarrierUnlink == ASSUME BarrierInv, NEW th \in Threads, B!Unlink(th) PROVE BarrierInv'
<1>1. PICK S, H : Core(S, H) /\ (alive => \E p \in Nat : Phase(p, S, H))
  BY DEF BarrierInv
<1>2. BarrierTypes /\ CoreTypes /\ SelfRuns /\ WalksOnly /\ Stack(head, next, curr, kept, tstate, S, H)
  BY <1>1 DEF BarrierInv, Core
<1>3. PICK me : me = self[th]
  OBVIOUS
<1>4. B!NodesFrom(curr[th]) = H[th]
  BY <1>2, StackSays DEF CoreTypes
<1>5. /\ pc[th] = "unlink" /\ me \in H[th]
      /\ tstate' = [tstate EXCEPT ![me] = "running"]
      /\ UNCHANGED <<head, rounds, self, kept, alive, done_count>>
  BY <1>3, <1>4 DEF B!Unlink
<1>6. IF curr[th] = me
        THEN curr' = [curr EXCEPT ![th] = next[me]] /\ next' = next
        ELSE curr' = curr /\ next' = [t \in Tasks |-> IF t \in H[th] /\ next[t] = me THEN next[me] ELSE next[t]]
  <2>1. IF curr[th] = me
        THEN curr' = [curr EXCEPT ![th] = next[me]] /\ next' = next
        ELSE /\ curr' = curr
             /\ next' = [t \in Tasks |-> IF t \in {u \in H[th] : next[u] = me} THEN next[me] ELSE next[t]]
    BY <1>3, <1>4, Zenon DEF B!Unlink
  <2> QED BY <2>1
<1>7. PICK q \in {"user", "wake"} : /\ q = IF curr'[th] = NULL THEN "user" ELSE "wake"
                                    /\ pc' = [pc EXCEPT ![th] = q]
  BY DEF B!Unlink
<1>8. H \in [Threads -> SUBSET Tasks] /\ me \in Tasks
  BY <1>2, <1>5 DEF Stack, Lists
<1>9. PICK H2 : H2 = Without(H, th, {me})
  OBVIOUS
<1>10. next' \in Links /\ curr' \in Places /\ Stack(head', next', curr', kept', tstate', S, H2)
  <2>1. next \in Links /\ curr \in Places /\ tstate \in States
    BY <1>2 DEF CoreTypes
  <2>2. /\ next' \in Links /\ curr' \in Places
        /\ Stack(head, next', curr', kept, [tstate EXCEPT ![me] = "running"], S, Without(H, th, {me}))
    BY <1>2, <1>5, <1>6, <2>1, StackUnlink
  <2> QED BY <1>5, <1>9, <2>2
<1>11. /\ \A o \in Threads : H2[o] \subseteq H[o]
       /\ \A o \in Threads : o # th => H2[o] = H[o]
  BY <1>8, <1>9 DEF Without
<1>12. \A o \in Threads : o # th => curr'[o] = curr[o]
  <2>1. CASE curr[th] = me
    BY <1>2, <1>6, <2>1 DEF CoreTypes, Places
  <2>2. CASE curr[th] # me
    BY <1>6, <2>2
  <2> QED BY <2>1, <2>2
<1>13. \A o \in Threads : o # th => self[o] # me
  BY <1>2, <1>3, <1>8, NullAssumption DEF SelfRuns
<1>14. tstate' \in States /\ tstate'[me] = "running" /\ \A u \in Tasks : u # me => tstate'[u] = tstate[u]
  BY <1>2, <1>5, <1>8 DEF CoreTypes, States
<1>15. kept[th] = NULL
  BY <1>2 DEF BarrierTypes
<1>16. Core(S, H2)'
  <2>1. /\ q \in Stops /\ me \in Tasks \cup {NULL} /\ (q = "idle" <=> me = NULL)
        /\ me # NULL => \A o \in Threads : o # th => self[o] # me
        /\ curr'[th] # NULL => q \in {"wake", "reset", "unlink"}
        /\ kept'[th] # NULL => q \in {"wake", "transfer"}
        /\ q = "transfer" => kept'[th] # NULL
        /\ q \in {"arrive", "take"} => me \in S
        /\ q \in {"reset", "unlink"} => me \in H2[th]
        /\ q \notin B!Steps \cup {"idle"} => tstate'[me] = "running"
    BY <1>5, <1>7, <1>8, <1>13, <1>14, <1>15, NullAssumption DEF Stops, B!Steps
  <2>2. \A o \in Threads : o # th =>
            /\ pc[o] \notin B!Steps \cup {"idle"} => tstate'[self[o]] = "running"
            /\ pc[o] \in {"arrive", "take"} => self[o] \in S
            /\ pc[o] \in {"reset", "unlink"} => self[o] \in H2[o]
    <3>1. \A o \in Threads : o # th /\ pc[o] \notin B!Steps \cup {"idle"} => tstate'[self[o]] = "running"
      BY <1>1, <1>13, <1>14, SelfIsTask
    <3>2. \A o \in Threads : o # th =>
            /\ pc[o] \in {"arrive", "take"} => self[o] \in S
            /\ pc[o] \in {"reset", "unlink"} => self[o] \in H2[o]
      BY <1>1, <1>11 DEF Core, StaysListed
    <3> QED BY <3>1, <3>2
  <2>3. /\ head' \in Tasks \cup {NULL, E!READY} /\ next' \in Links /\ kept' \in Places
        /\ tstate' \in States /\ self' = [self EXCEPT ![th] = me] /\ curr' \in Places
        /\ \A o \in Threads : o # th => curr'[o] = curr[o] /\ kept'[o] = kept[o]
    BY <1>2, <1>3, <1>5, <1>10, <1>12, <1>14 DEF CoreTypes, Places
  <2>4. /\ Core(S, H) /\ pc' = [pc EXCEPT ![th] = q]
        /\ Stack(head', next', curr', kept', tstate', S, H2)
    BY <1>1, <1>7, <1>10
  <2>5. Moves(th, q, me, S, H2)
    BY <2>1, <2>2, <2>3, <2>4 DEF Moves
  <2> QED BY <2>4, <2>5, CoreMove
<1>17. ASSUME NEW p \in Nat, NEW t \in Tasks, Phase(p, S, H), rounds[t] = p + 1
       PROVE  tstate'[t] = "waiting"
  <2>1. rounds[me] = p /\ tstate[t] = "waiting"
    BY <1>5, <1>17 DEF Phase
  <2>2. t # me
    BY <1>17, <2>1
  <2> QED BY <1>14, <2>1, <2>2
<1>18. /\ BarrierTypes /\ (alive => \E p \in Nat : Phase(p, S, H)) /\ Core(S, H2)'
       /\ UNCHANGED <<rounds, alive, done_count, head, kept>>
       /\ pc[th] \notin {"arrive", "take", "reset"}
       /\ \A o \in Threads : o # th => self'[o] = self[o]
       /\ \A o \in Threads : H2[o] \subseteq H[o]
  BY <1>1, <1>2, <1>5, <1>11, <1>16
<1>19. q \in EventStops /\ pc' = [pc EXCEPT ![th] = q]
  BY <1>7 DEF EventStops
<1>20. \A p \in Nat, t \in Tasks : Phase(p, S, H) /\ rounds[t] = p + 1 => tstate'[t] = "waiting"
  BY <1>17
<1>21. RoundUntouched(S, H, H2, th, q)
  BY <1>18, <1>19, <1>20 DEF RoundUntouched
<1> QED BY <1>18, <1>21, BarrierKept

\* wake_all of the destructor: nobody is inside the protocol any more.
LEMMA BarrierDestroy == ASSUME BarrierInv, NEW th \in Threads, B!Destroy(th) PROVE BarrierInv'
<1>1. PICK S, H : Core(S, H)
  BY DEF BarrierInv
<1>2. BarrierTypes /\ CoreTypes /\ SelfRuns /\ WalksOnly /\ Stack(head, next, curr, kept, tstate, S, H)
  BY <1>1 DEF BarrierInv, Core
<1>3. PICK q \in {"user", "wake"} :
        /\ pc[th] = "user" /\ alive' = FALSE /\ head' = NULL /\ curr' = [curr EXCEPT ![th] = head]
        /\ q = IF head = NULL THEN "user" ELSE "wake"
        /\ pc' = [pc EXCEPT ![th] = q]
        /\ UNCHANGED <<next, tstate, rounds, self, kept, done_count>>
  BY DEF B!Destroy, B!sched
<1>4. \A o \in Threads : pc[o] \notin B!Steps
  BY DEF B!Destroy, B!Quiet
<1>5. PICK t : t = self[th]
  OBVIOUS
<1>6. t \in Tasks /\ tstate[t] = "running" /\ curr[th] = NULL /\ kept[th] = NULL
  BY <1>1, <1>2, <1>3, <1>4, <1>5, SelfIsTask DEF WalksOnly
<1>7. PICK H2 : H2 = [H EXCEPT ![th] = S]
  OBVIOUS
<1>8. Stack(head', next', curr', kept', tstate', {}, H2)
  <2>1. head = IF head = E!READY THEN NULL ELSE head
    BY <1>2 DEF BarrierTypes
  <2>2. curr \in Places /\ NULL \in {NULL, E!READY}
    BY <1>2 DEF CoreTypes
  <2>3. Stack(NULL, next, [curr EXCEPT ![th] = head], kept, tstate, {}, [H EXCEPT ![th] = S])
    BY <1>2, <1>6, <2>1, <2>2, StackTake
  <2> QED BY <1>3, <1>7, <2>3
<1>9. head \in Tasks \cup {NULL}
  BY <1>2 DEF CoreTypes, BarrierTypes
<1>10. curr' \in Places /\ curr'[th] = head /\ \A o \in Threads : o # th => curr'[o] = curr[o]
  BY <1>2, <1>3, <1>9 DEF CoreTypes, Places
<1>11. Core({}, H2)'
  <2>1. /\ q \in Stops /\ t \in Tasks \cup {NULL} /\ (q = "idle" <=> t = NULL)
        /\ t # NULL => \A o \in Threads : o # th => self[o] # t
        /\ curr'[th] # NULL => q \in {"wake", "reset", "unlink"}
        /\ kept'[th] # NULL => q \in {"wake", "transfer"}
        /\ q = "transfer" => kept'[th] # NULL
        /\ q \in {"arrive", "take"} => t \in {}
        /\ q \in {"reset", "unlink"} => t \in H2[th]
        /\ q \notin B!Steps \cup {"idle"} => tstate'[t] = "running"
    BY <1>2, <1>3, <1>5, <1>6, <1>10, NullAssumption DEF Stops, SelfRuns
  <2>2. \A o \in Threads : o # th =>
            /\ pc[o] \notin B!Steps \cup {"idle"} => tstate'[self[o]] = "running"
            /\ pc[o] \in {"arrive", "take"} => self[o] \in {}
            /\ pc[o] \in {"reset", "unlink"} => self[o] \in H2[o]
    BY <1>2, <1>3, <1>4 DEF SelfRuns, B!Steps
  <2>3. /\ head' \in Tasks \cup {NULL, E!READY} /\ next' \in Links /\ kept' \in Places
        /\ tstate' \in States /\ self' = [self EXCEPT ![th] = t] /\ curr' \in Places
        /\ \A o \in Threads : o # th => curr'[o] = curr[o] /\ kept'[o] = kept[o]
    BY <1>2, <1>3, <1>5, <1>10 DEF CoreTypes, Places
  <2>4. /\ Core(S, H) /\ pc' = [pc EXCEPT ![th] = q]
        /\ Stack(head', next', curr', kept', tstate', {}, H2)
    BY <1>1, <1>3, <1>8
  <2>5. Moves(th, q, t, {}, H2)
    BY <2>1, <2>2, <2>3, <2>4 DEF Moves
  <2> QED BY <2>4, <2>5, CoreMove
<1>12. /\ pc' \in [Threads -> BarrierStops] /\ \A o \in Threads : pc'[o] \notin B!Steps
  <2>1. q \in BarrierStops /\ q \notin B!Steps
    BY DEF BarrierStops, EventStops, B!Steps
  <2>2. pc \in [Threads -> BarrierStops]
    BY <1>2 DEF BarrierTypes
  <2> QED BY <1>3, <1>4, <2>1, <2>2
<1>13. BarrierTypes'
  <2>1. NULL # E!READY
    BY ReadyIsNoTask
  <2> QED BY <1>2, <1>3, <1>12, <2>1 DEF BarrierTypes
<1>14. ~alive'
  BY <1>3
<1> QED BY <1>11, <1>13, <1>14 DEF BarrierInv

\* Each operation of a barrier.
LEMMA BarrierStep == ASSUME BarrierInv, NEW th \in Threads, B!Step(th) PROVE BarrierInv'
BY BarrierShared, BarrierAwait, BarrierArrive, BarrierTakeAll, BarrierReset, BarrierUnlink, BarrierDestroy
   DEF B!Step

\* What it says.  A task that has left phase p has begun no more than the next one.
LEMMA BarrierSays ==
  ASSUME BarrierInv
  PROVE  /\ B!TypeOK /\ B!MeIsInChain /\ B!PhasesInStep /\ B!NoLateTouch
         /\ E!OnOneList /\ E!NobodyLeftBehind
<1>1. PICK S, H : Core(S, H) /\ (alive => \E p \in Nat : Phase(p, S, H))
  BY DEF BarrierInv
<1>2. BarrierTypes /\ CoreTypes /\ Stack(head, next, curr, kept, tstate, S, H)
  BY <1>1 DEF BarrierInv, Core
<1>3. /\ E!OnOneList /\ E!NobodyLeftBehind
      /\ \A th \in Threads : B!NodesFrom(curr[th]) = H[th]
  BY <1>2, StackSays DEF CoreTypes
<1>4. B!TypeOK
  <2>1. B!READY = E!READY /\ B!start_count = Cardinality(Tasks) - 1
    BY DEF B!READY, E!READY, B!start_count
  <2>2. B!TypesOK(B!Steps)
    BY <1>2, <2>1 DEF BarrierTypes, BarrierStops, EventStops, CoreTypes, Links, Places, States, B!TypesOK
  <2> QED BY <1>2, <2>1, <2>2 DEF BarrierTypes, B!TypeOK
<1>5. B!MeIsInChain
  BY <1>1, <1>3 DEF B!MeIsInChain, Core, StaysListed
<1>6. \A t \in Tasks : rounds[t] \in 0..3
  BY <1>2 DEF BarrierTypes
<1>7. ASSUME NEW p \in Nat, Phase(p, S, H)
      PROVE  \A t \in Tasks : /\ rounds[t] \in {p, p + 1} /\ p <= rounds[t]
                              /\ B!Passed(t) <= p
  <2>1. ASSUME NEW t \in Tasks
        PROVE  /\ rounds[t] \in {p, p + 1} /\ p <= rounds[t]
               /\ rounds[t] = p + 1 => tstate[t] = "waiting"
    <3>1. rounds[t] \in {p, p + 1} /\ (rounds[t] = p + 1 => tstate[t] = "waiting")
      BY <1>7 DEF Phase
    <3> QED BY <3>1
  <2>2. ASSUME NEW t \in Tasks PROVE B!Passed(t) <= p
    <3>1. CASE rounds[t] = p + 1
      <4>1. B!Inside(t)
        BY <2>1, <3>1 DEF B!Inside
      <4> QED BY <3>1, <4>1 DEF B!Passed
    <3>2. CASE rounds[t] = p
      BY <3>2 DEF B!Passed
    <3> QED BY <2>1, <3>1, <3>2
  <2> QED BY <2>1, <2>2
<1>8. B!PhasesInStep
  <2> SUFFICES ASSUME alive, NEW s \in Tasks, NEW t \in Tasks PROVE B!Passed(s) <= rounds[t]
    BY DEF B!PhasesInStep
  <2>1. PICK p \in Nat : Phase(p, S, H)
    BY <1>1
  <2>2. B!Passed(s) <= p /\ p <= rounds[t] /\ rounds[t] \in Nat
    BY <1>6, <1>7, <2>1
  <2>3. B!Passed(s) \in Int
    <3>1. rounds[s] \in Int
      BY <1>6
    <3> QED BY <3>1 DEF B!Passed
  <2> QED BY <2>2, <2>3
<1>9. B!NoLateTouch
  <2> SUFFICES ASSUME NEW t \in Tasks, B!Passed(t) = 3, NEW th \in Threads,
                      pc[th] \in {"arrive", "take", "reset"}
               PROVE  FALSE
    BY DEF B!NoLateTouch
  <2>1. alive
    BY <1>2 DEF BarrierTypes, B!Steps
  <2>2. PICK p \in Nat : Phase(p, S, H)
    BY <1>1, <2>1
  <2>3. 3 <= p
    BY <1>7, <2>2
  <2>4. self[th] \in Tasks /\ (self[th] \in S \/ (pc[th] = "reset" /\ self[th] \in H[th]))
    <3>1. pc[th] # "idle"
      OBVIOUS
    <3>2. self[th] \in Tasks
      BY <1>1, <3>1, SelfIsTask
    <3>3. StaysListed(S, H)
      BY <1>1 DEF Core
    <3>4. /\ pc[th] \in {"arrive", "take"} => self[th] \in S
          /\ pc[th] \in {"reset", "unlink"} => self[th] \in H[th]
      BY <3>3 DEF StaysListed
    <3> QED BY <3>2, <3>4
  <2>5. rounds[self[th]] = p + 1
    BY <2>2, <2>4 DEF Phase
  <2> QED BY <1>6, <2>3, <2>4, <2>5
<1> QED BY <1>3, <1>4, <1>5, <1>8, <1>9

-----------------------------------------------------------------------------
(* In the behaviours of MCSync. *)

\* Everything that the three invariants depend on.
EventVars == <<head, next, tstate, rounds, pc, self, curr, kept, alive, count, counters, arrived, done_count>>

\* The invariants are about these variables alone.
LEMMA EventsStutter ==
  ASSUME UNCHANGED EventVars
  PROVE  (EventInv => EventInv') /\ (LatchInv => LatchInv') /\ (BarrierInv => BarrierInv')
<1>1. UNCHANGED <<head, next, tstate, rounds, pc, self, curr, kept, alive, count, counters, arrived, done_count>>
  BY DEF EventVars
<1>2. \A S, H : Core(S, H) => Core(S, H)'
  BY <1>1, CoreStutter
<1>3. EventInv => EventInv'
  BY <1>1, <1>2 DEF EventInv
<1>4. LatchInv => LatchInv'
  <2>1. Counts' = Counts /\ Enough' = Enough /\ LastSets' = LastSets
    BY <1>1 DEF Counts, Enough, LastSets
  <2> QED BY <1>1, <1>2, <2>1 DEF LatchInv
<1>5. BarrierInv => BarrierInv'
  <2>1. \A p, S, H : Phase(p, S, H) => Phase(p, S, H)'
    <3>1. \A p : NotArrived(p)' = NotArrived(p)
      BY <1>1 DEF NotArrived
    <3> QED BY <1>1, <3>1 DEF Phase
  <2>2. BarrierTypes => BarrierTypes'
    BY <1>1 DEF BarrierTypes
  <2> QED BY <1>1, <1>2, <2>1, <2>2 DEF BarrierInv
<1> QED BY <1>3, <1>4, <1>5

EventsInv ==
  /\ prim = "event" => EventInv
  /\ prim = "latch" => LatchInv
  /\ prim = "barrier" => BarrierInv

\* Each of the three keeps its invariant in the behaviours of MCSync that use it.
LEMMA EventsInvariant == MCSpec => []EventsInv
<1>1. ASSUME MCInit PROVE EventsInv
  BY <1>1, EventInit, LatchInit, BarrierInit DEF MCInit, EventsInv
<1>2. ASSUME EventsInv, [MCNext]_mcVars PROVE EventsInv'
  <2>1. prim' = prim
    BY <1>2 DEF MCNext, TaskGoes, RunnerGoes, ThreadGoes, MCTerminated, Of, mcVars
  <2>2. CASE UNCHANGED mcVars
    <3>1. UNCHANGED EventVars
      BY <2>2 DEF mcVars, vars, rwOnly, latchOnly, EventVars
    <3> QED BY <1>2, <2>1, <3>1, EventsStutter DEF EventsInv
  <2>3. CASE \E th \in Threads : ThreadGoes(th)
    <3>1. PICK th \in Threads : ThreadGoes(th)
      BY <2>3
    <3>2. ASSUME prim = "event" PROVE EventInv'
      <4>1. E!Step(th)
        BY <3>1, <3>2 DEF ThreadGoes, Of
      <4> QED BY <1>2, <3>2, <4>1, EventStep DEF EventsInv
    <3>3. ASSUME prim = "latch" PROVE LatchInv'
      <4>1. L!Step(th)
        BY <3>1, <3>3 DEF ThreadGoes, Of
      <4> QED BY <1>2, <3>3, <4>1, LatchStep DEF EventsInv
    <3>4. ASSUME prim = "barrier" PROVE BarrierInv'
      <4>1. B!Step(th)
        BY <3>1, <3>4 DEF ThreadGoes, Of
      <4> QED BY <1>2, <3>4, <4>1, BarrierStep DEF EventsInv
    <3> QED BY <2>1, <3>2, <3>3, <3>4 DEF EventsInv
  <2>4. CASE prim \notin {"event", "latch", "barrier"}
    BY <2>1, <2>4 DEF EventsInv
  <2>5. prim \in {"event", "latch", "barrier"} =>
          (\E th \in Threads : ThreadGoes(th)) \/ UNCHANGED mcVars
    BY <1>2 DEF MCNext, TaskGoes, RunnerGoes, MCTerminated, Of
  <2> QED BY <2>2, <2>3, <2>4, <2>5
<1> QED BY <1>1, <1>2, PTL DEF MCSpec

\* Every step of an event, a latch or a barrier keeps its types: the counter of the barrier
\* never leaves -1..start_count, and that of the latch is what count_down left of it.
THEOREM EventTypes ==
  MCSpec => [](/\ prim = "event" => E!TypeOK
               /\ prim = "latch" => L!TypeOK
               /\ prim = "barrier" => B!TypeOK)
<1>1. EventsInv => /\ prim = "event" => E!TypeOK
                   /\ prim = "latch" => L!TypeOK
                   /\ prim = "barrier" => B!TypeOK
  BY EventSays, LatchSays, BarrierSays DEF EventsInv
<1> QED BY <1>1, EventsInvariant, PTL

\* Nobody waits for what is there: whoever waits for an event that is set is in the hands
\* of a thread that is waking it, and a quiet rw_lock has nobody who could be given it.
THEOREM WaitersNotLeftBehind == MCSpec => []NobodyLeftBehind
<1>1. EventsInv /\ (prim = "rw_lock" => LockInv) => NobodyLeftBehind
  BY EventSays, LatchSays, BarrierSays, LockNoLostWakeup DEF EventsInv, NobodyLeftBehind
<1> QED BY <1>1, EventsInvariant, RwLockInvariant, PTL

\* Every waiter of an event, a latch or a barrier is on exactly one list, the shared one or
\* that of one waking thread, and lists hold nobody else (wake_waiters_in_batches); the last
\* arrival at a barrier finds its node in the chain it took, as await_suspend assumes.
THEOREM WaitersAreListed == MCSpec => []EveryWaiterListed
<1>1. EventsInv => EveryWaiterListed
  BY EventSays, LatchSays, BarrierSays DEF EventsInv, EveryWaiterListed
<1> QED BY <1>1, EventsInvariant, PTL

\* A latch opens for nobody before Count calls of count_down, and no task leaves a phase of
\* a barrier that another has not entered.
THEOREM NobodyPassesEarly == MCSpec => []NobodyReleasedEarly
<1>1. EventsInv => NobodyReleasedEarly
  BY LatchSays, BarrierSays DEF EventsInv, NobodyReleasedEarly
<1> QED BY <1>1, EventsInvariant, PTL

\* A waiter that passes a latch on which exactly Count tasks count down may destroy it, and
\* nobody touches the barrier once a task has left its last phase.
THEOREM DestroyedSafely == MCSpec => []SafeToDestroy
<1>1. EventsInv => SafeToDestroy
  BY LatchSays, BarrierSays DEF EventsInv, SafeToDestroy
<1> QED BY <1>1, EventsInvariant, PTL
=============================================================================
