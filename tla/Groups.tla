------------------------------- MODULE Groups -------------------------------
(***************************************************************************)
(* A coroutine that starts children and joins them: spawn, spawn_func,     *)
(* spawn_many, spawn_group, spawn_tuple, fork_group, and post_bulk_waitable*)
(* for a thread outside.  All join through one word, done_count: every     *)
(* child subtracts one when it ends, the parent subtracts one when it      *)
(* suspends, and whoever finds the word not positive resumes the parent.   *)
(* Where the parent cannot subtract (it transfers to its last child, or it *)
(* is a thread that blocks on a future) the word starts one lower.         *)
(*                                                                         *)
(* One parent has one awaitable at a time.  A child is known by its frame; *)
(* the parent's awaitable, with the word, the continuation and the results,*)
(* is gone as soon as the parent is back at "ready".                       *)
(***************************************************************************)
EXTENDS Integers, FiniteSets

CONSTANTS Kids,     \* the children that the parent may start
          NoKid

ASSUME KidsAssumption == IsFiniteSet(Kids) /\ NoKid \notin Kids

VARIABLES
  parent,     \* where the parent is
  form,       \* what it has: "none", "counted", "group", "waitable", "direct", "detached"
  then,       \* where the parent goes when everything is posted
  done_count,
  symmetric,  \* symmetric_task
  cont,       \* whether continuation holds the parent
  kid,        \* per child: where it is
  link,       \* per child: its customizer: "none", "count" (done_count), "direct"
  frames      \* children whose coroutine frame exists

vars == <<parent, form, then, done_count, symmetric, cont, kid, link, frames>>

ParentPlaces == {"ready", "posting", "forked", "suspending", "waiting", "queued", "ended"}
KidPlaces == {"idle", "made", "late", "held", "posted", "running", "arriving", "resuming"}

Idle == {k \in Kids : kid[k] = "idle"}
\* Children that have yet to subtract from done_count.
Pending == {k \in Kids : link[k] = "count" /\ kid[k] \notin {"idle", "resuming"}}

TypeOK ==
  /\ parent \in ParentPlaces
  /\ form \in {"none", "counted", "group", "waitable", "direct", "detached"}
  /\ then \in ParentPlaces
  /\ done_count \in Int
  /\ symmetric \in Kids \cup {NoKid}
  /\ cont \in BOOLEAN
  /\ kid \in [Kids -> KidPlaces]
  /\ link \in [Kids -> {"none", "count", "direct"}]
  /\ frames \subseteq Kids

Init ==
  /\ parent = "ready" /\ form = "none" /\ then = "ready"
  /\ done_count = -1 /\ symmetric = NoKid /\ cont = FALSE
  /\ kid = [k \in Kids |-> "idle"]
  /\ link = [k \in Kids |-> "none"]
  /\ frames = {}

-----------------------------------------------------------------------------
(* Starting children.  Work items (tasks) are posted; awaitables that start *)
(* themselves (async_initiate) are started one by one after them, and have  *)
(* no frame of their own.                                                   *)

Ready == parent = "ready" /\ form = "none"

\* prepare_work on every child, then the submission begins.
Begin(items, awaitables, held, l, f, next) ==
  /\ form' = f /\ then' = next /\ symmetric' = held
  /\ parent' = "posting"
  /\ kid' = [k \in Kids |-> CASE k = held -> "held"
                              [] k \in items \ {held} -> "made"
                              [] k \in awaitables -> "late"
                              [] OTHER -> kid[k]]
  /\ link' = [k \in Kids |-> IF k \in items \cup awaitables THEN l ELSE link[k]]
  /\ frames' = frames \cup items
  /\ cont' = (next = "waiting")

\* Mutant: the child kept for the transfer is counted as well.
CountAll(items, awaitables, held) == Cardinality(items \cup awaitables)
\* The word a join starts with: a child that the parent transfers to makes up
\* for the subtraction the parent leaves out.
StartCount(items, awaitables, held) ==
  Cardinality(items \cup awaitables) - (IF held = NoKid THEN 0 ELSE 1)

Count(items, awaitables, held, next) ==
  /\ Begin(items, awaitables, held, "count", "counted", next)
  /\ done_count' = StartCount(items, awaitables, held)

\* The last task is kept back if the children run where the parent runs now.
Held(items) == {NoKid} \cup items
\* At most max children of a range whose length may be unknown.
Taken(range, max) ==
  {s \in SUBSET range : Cardinality(s) = IF Cardinality(range) < max THEN Cardinality(range) ELSE max}

\* spawn_many(iter, count): tasks, or awaitables that start themselves.
SpawnMany(items) ==
  /\ Ready
  /\ \/ \E h \in Held(items) : Count(items, {}, h, "suspending")
     \/ Count({}, items, NoKid, "suspending")
SpawnManyFork(items) ==
  /\ Ready
  /\ Count(items, {}, NoKid, "forked") \/ Count({}, items, NoKid, "forked")

\* spawn_many(begin, end, maxCount).
SpawnRange(range) ==
  /\ Ready
  /\ \E max \in 0..Cardinality(Kids) : \E s \in Taken(range, max) :
       \/ \E h \in Held(s) : Count(s, {}, h, "suspending")
       \/ Count(s, {}, NoKid, "forked")

\* spawn_group collects awaitables and hands them to spawn_many.
SpawnGroup(added) == SpawnMany(added) \/ SpawnManyFork(added)

\* spawn_tuple: work items and others together; without a work item there is
\* nobody to transfer to.
SpawnTuple(items, awaitables) ==
  Ready /\ \E h \in Held(items) : Count(items, awaitables, h, "suspending")
ForkTuple(items, awaitables) == Ready /\ Count(items, awaitables, NoKid, "forked")

\* spawn(...).fork().
ForkOne(k) == Ready /\ (Count({k}, {}, NoKid, "forked") \/ Count({}, {k}, NoKid, "forked"))
\* spawn_func(...).fork(): the function is wrapped in a task, or is a work item
\* without a frame.
ForkFunc(k) == Ready /\ (Count({k}, {}, NoKid, "forked") \/ Count({}, {k}, NoKid, "forked"))

\* The child holds the parent's handle itself, and there is no word.
Direct(k, place) ==
  /\ Ready
  /\ form' = "direct" /\ parent' = "waiting" /\ cont' = TRUE
  /\ kid' = [kid EXCEPT ![k] = place]
  /\ link' = [link EXCEPT ![k] = "direct"]
  /\ UNCHANGED <<then, done_count, symmetric>>
\* co_await of a task: the thread goes on in it.
AwaitTask(k) == Direct(k, "running") /\ frames' = frames \cup {k}
\* co_await of spawn and of spawn_func, which post it.
AwaitSpawn(k) == Direct(k, "posted") /\ frames' \in {frames, frames \cup {k}}
AwaitFunc(k) == Direct(k, "posted") /\ frames' \in {frames, frames \cup {k}}

\* detach(): nobody is told.
DetachTuple(items, awaitables) ==
  Ready /\ Begin(items, awaitables, NoKid, "none", "detached", "ready") /\ UNCHANGED done_count
Detach(items) == DetachTuple(items, {}) \/ DetachTuple({}, items)
DetachOne(k) == Detach({k})
\* A function is a task around it, or a work item without a frame.
DetachFunc(k) == Detach({k})

\* post and post_bulk (of nothing: nothing).
Post(k) == Detach({k})
PostBulk(items) == items # {} /\ Detach(items)

WaitableCount(items) == Cardinality(items) - 1
\* post_bulk_waitable: a thread blocks on a future; a coroutine made for it is the
\* continuation, written before anything is posted.  Zero children: ready at once.
PostBulkWaitable(items) ==
  /\ Ready /\ items # {}
  /\ Begin(items, {}, NoKid, "count", "waitable", "waiting")
  /\ done_count' = WaitableCount(items)
\* The same for functions: the last one sets the promise itself.
PostBulkWaitableFuncs(items) ==
  /\ Ready /\ items # {}
  /\ Begin({}, items, NoKid, "count", "waitable", "waiting")
  /\ done_count' = WaitableCount(items)

\* post_waitable: the work item holds the promise and sets it when the task that
\* it awaits, or the function that it calls, has ended.  The frame is that of the
\* awaited task; nobody else sees the one around it.
PostWaitable(k) ==
  /\ Ready
  /\ \/ Begin({k}, {}, NoKid, "direct", "direct", "waiting")
     \/ Begin({}, {k}, NoKid, "direct", "direct", "waiting")
  /\ UNCHANGED done_count

\* aw_fork_group: opened empty, and one child added at a time.
OpenGroup ==
  /\ Ready
  /\ parent' = "forked" /\ form' = "group" /\ done_count' = 0
  /\ symmetric' = NoKid /\ cont' = FALSE
  /\ UNCHANGED <<then, kid, link, frames>>
GroupFork(k) ==
  /\ parent = "forked" /\ form = "group"
  /\ kid' = [kid EXCEPT ![k] = "posted"] /\ link' = [link EXCEPT ![k] = "count"]
  /\ \E task \in BOOLEAN : frames' = IF task THEN frames \cup {k} ELSE frames
  /\ done_count' = done_count + 1
  /\ UNCHANGED <<parent, form, then, symmetric, cont>>
\* reset(), after the await or before anything is out.
GroupReset ==
  /\ form = "group" /\ parent \in {"ready", "forked"} /\ Pending = {}
  /\ parent' = "forked" /\ done_count' = 0
  /\ UNCHANGED <<form, then, symmetric, cont, kid, link, frames>>

\* post_bulk, and after it the awaitables that start themselves; detach has them
\* the other way round.
PostNext ==
  /\ parent = "posting"
  /\ \E k \in Kids :
       /\ kid[k] \in {"made", "late"}
       /\ LET first == IF form = "detached" THEN "late" ELSE "made"
          IN kid[k] # first => \A o \in Kids : kid[o] # first
       /\ kid' = [kid EXCEPT ![k] = "posted"]
  /\ UNCHANGED <<parent, form, then, done_count, symmetric, cont, link, frames>>
Posted ==
  /\ parent = "posting" /\ \A k \in Kids : kid[k] \notin {"made", "late"}
  /\ parent' = then
  /\ form' = IF form = "detached" THEN "none" ELSE form
  /\ UNCHANGED <<then, done_count, symmetric, cont, kid, link, frames>>

-----------------------------------------------------------------------------
(* Joining.                                                                 *)

\* await_suspend of a join that was forked before.
Await ==
  /\ parent = "forked"
  /\ parent' = "suspending"
  /\ UNCHANGED <<form, then, done_count, symmetric, cont, kid, link, frames>>

\* continuation = Outer.
Suspend ==
  /\ parent = "suspending" /\ ~cont
  /\ cont' = TRUE
  /\ UNCHANGED <<parent, form, then, done_count, symmetric, kid, link, frames>>

\* symmetric_task: the thread goes on in the child.
Transfer ==
  /\ parent = "suspending" /\ cont /\ symmetric # NoKid
  /\ parent' = "waiting"
  /\ kid' = [kid EXCEPT ![symmetric] = "running"]
  /\ UNCHANGED <<form, then, done_count, symmetric, cont, link, frames>>

\* Mutant: the parent sleeps although nothing is left to wait for.
Left(old) == old >= 0
\* Children are left if the word was positive.
Remaining(old) == old > 0

\* The parent's own subtraction.  Without children left it goes on at once, or
\* through its executor if that is another one.
Subtract ==
  /\ parent = "suspending" /\ cont /\ symmetric = NoKid
  /\ done_count' = done_count - 1
  /\ IF Remaining(done_count) THEN parent' = "waiting" ELSE parent' \in {"ready", "queued"}
  /\ UNCHANGED <<form, then, symmetric, cont, kid, link, frames>>

\* The executor resumes the parent.
DispatchParent ==
  /\ parent = "queued"
  /\ parent' = "ready"
  /\ UNCHANGED <<form, then, done_count, symmetric, cont, kid, link, frames>>

\* The awaitable is destroyed where the parent goes on; a group only with its scope.
Drop ==
  /\ parent = "ready" /\ form # "none"
  /\ form' = "none"
  /\ UNCHANGED <<parent, then, done_count, symmetric, cont, kid, link, frames>>

End ==
  /\ Ready
  /\ parent' = "ended"
  /\ UNCHANGED <<form, then, done_count, symmetric, cont, kid, link, frames>>

-----------------------------------------------------------------------------
(* A child.                                                                 *)

Dispatch(k) ==
  /\ kid[k] = "posted"
  /\ kid' = [kid EXCEPT ![k] = "running"]
  /\ UNCHANGED <<parent, form, then, done_count, symmetric, cont, link, frames>>

\* Mutant: the frame is left to whoever the arrival lets go on.
FinishKeepingFrame(k) ==
  /\ kid[k] = "running"
  /\ kid' = [kid EXCEPT ![k] = "arriving"]
  /\ UNCHANGED <<parent, form, then, done_count, symmetric, cont, link, frames>>
\* The body returns (its result is in the parent's awaitable): the frame is
\* destroyed, and only then the parent is told.
Finish(k) ==
  /\ kid[k] = "running"
  /\ frames' = frames \ {k}
  /\ kid' = [kid EXCEPT ![k] = "arriving"]
  /\ UNCHANGED <<parent, form, then, done_count, symmetric, cont, link>>

\* Mutant: the child before the last one is taken for the last.
Nearly(old) == old <= 1
\* done_count_arrived.
Arrived(old) == old <= 0

\* get_continuation: a counted child subtracts, and goes on to the continuation
\* only if it was the last; one with the handle always does; others end.
Arrive(k) ==
  /\ kid[k] = "arriving"
  /\ LET last == CASE link[k] = "count" -> Arrived(done_count)
                   [] link[k] = "direct" -> TRUE
                   [] OTHER -> FALSE
     IN kid' = [kid EXCEPT ![k] = IF last THEN "resuming" ELSE "idle"]
  /\ link' = IF kid'[k] = "idle" THEN [link EXCEPT ![k] = "none"] ELSE link
  /\ done_count' = IF link[k] = "count" THEN done_count - 1 ELSE done_count
  /\ UNCHANGED <<parent, form, then, symmetric, cont, frames>>

\* resume_continuation: read from the awaitable who continues and where, and go on
\* in it, or post it.  For a waitable the promise is set; the thread may still be
\* posting, and will then not block.
Resume(k) ==
  /\ kid[k] = "resuming"
  /\ kid' = [kid EXCEPT ![k] = "idle"] /\ link' = [link EXCEPT ![k] = "none"]
  /\ IF parent = "posting"
     THEN then' = "ready" /\ parent' = parent
     ELSE parent' \in {"ready", "queued"} /\ then' = then
  /\ UNCHANGED <<form, done_count, symmetric, cont, frames>>

KidStep(k) == Dispatch(k) \/ Finish(k) \/ Arrive(k) \/ Resume(k)

Start ==
  \/ \E s \in SUBSET Idle :
       \/ SpawnMany(s) \/ SpawnManyFork(s) \/ SpawnRange(s) \/ SpawnGroup(s)
       \/ PostBulkWaitable(s) \/ PostBulkWaitableFuncs(s) \/ PostBulk(s) \/ Detach(s)
  \/ \E s \in SUBSET Idle : \E t \in SUBSET (Idle \ s) :
       SpawnTuple(s, t) \/ ForkTuple(s, t) \/ DetachTuple(s, t)
  \/ \E k \in Idle :
       \/ ForkOne(k) \/ ForkFunc(k) \/ AwaitTask(k) \/ AwaitSpawn(k) \/ AwaitFunc(k)
       \/ DetachOne(k) \/ DetachFunc(k) \/ Post(k) \/ PostWaitable(k) \/ GroupFork(k)
  \/ OpenGroup \/ GroupReset \/ End

\* What the parent does without being asked to.
ParentStep ==
  PostNext \/ Posted \/ Suspend \/ Transfer \/ Subtract \/ DispatchParent \/ Drop

Terminated == parent = "ended" /\ Idle = Kids /\ UNCHANGED vars

Next == Start \/ Await \/ ParentStep \/ (\E k \in Kids : KidStep(k)) \/ Terminated

\* The thread that runs the parent goes on; executors run what is posted to them,
\* and the children's own code ends.
Spec ==
  /\ Init /\ [][Next]_vars
  /\ WF_vars(ParentStep)
  /\ \A k \in Kids : WF_vars(KidStep(k))

-----------------------------------------------------------------------------
\* Whether the parent still has a subtraction of its own to make.
ParentCounts ==
  symmetric = NoKid /\ form \in {"counted", "group"} /\ parent \in {"posting", "forked", "suspending"}

\* The word always says how many children have yet to arrive, less the one for the
\* parent once it has suspended (or will not subtract): so it is never below zero
\* before a subtraction, which lets done_count_arrived test for <= 0 instead of = 0,
\* and below zero when the awaitable is destroyed, as its destructor asserts.
CountMatches ==
  form \in {"counted", "group", "waitable"} =>
    done_count = Cardinality(Pending) - (IF ParentCounts THEN 0 ELSE 1)

\* Only one of all the children and the parent goes on to resume the parent, and
\* only while the parent has suspended and left its handle: not one that is still
\* running, and not one that somebody has resumed already.
OneResumer ==
  \A k \in Kids : kid[k] = "resuming" =>
    /\ cont
    /\ parent = "waiting" \/ (parent = "posting" /\ then = "waiting")
    /\ \A o \in Kids \ {k} : kid[o] # "resuming"

\* A parent that goes on finds no child that would still touch the
\* awaitable it is about to destroy, and no frame of a child that it awaited (which
\* may lie in its own).
ParentAfterChildren ==
  parent \in {"ready", "queued", "ended"} =>
    \A k \in Kids : link[k] = "none" /\ (k \in frames => kid[k] # "idle")

\* A parent that waits goes on.
WaitingParent == parent \in {"suspending", "waiting", "queued"}
ParentGoesOn == WaitingParent ~> ~WaitingParent
=============================================================================
