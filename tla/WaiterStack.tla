----------------------------- MODULE WaiterStack -----------------------------
(***************************************************************************)
(* The list that tmc::manual_reset_event, tmc::latch and tmc::barrier      *)
(* keep: a stack of waiter nodes that is always taken whole and walked by  *)
(* wake_waiters_in_batches.                                                *)
(*                                                                         *)
(* A node lives in the frame of the coroutine that waits, so node and task *)
(* are one name here, and `next` is overwritten as soon as the task waits  *)
(* again: a walk may not read it after the node's task was posted.         *)
(***************************************************************************)
EXTENDS Integers, Sequences, FiniteSets

CONSTANTS Threads,    \* OS threads
          Tasks,      \* coroutines
          NULL,       \* no node, no task
          MaxRounds   \* bound: how often a task waits

VARIABLES
  head,    \* NULL, the newest node, or READY
  next,    \* waiter_list_node::next
  tstate,  \* per task: "ready", "running", "waiting" or "done"
  rounds,  \* per task: co_awaits begun
  pc,      \* per thread: where it is
  self,    \* per thread: the task it runs, or NULL
  curr,    \* per thread: Curr of its walk, the first node not yet posted
  kept     \* per thread: the node kept for symmetric transfer, or NULL

sched     == <<tstate, rounds>>
locals    == <<pc, self, curr, kept>>
stackVars == <<head, next, sched, locals>>

READY == "READY"

TypesOK(steps) ==
  /\ head \in Tasks \cup {NULL, READY}
  /\ next \in [Tasks -> Tasks \cup {NULL}]
  /\ tstate \in [Tasks -> {"ready", "running", "waiting", "done"}]
  /\ rounds \in [Tasks -> 0..MaxRounds]
  /\ pc \in [Threads -> {"idle", "user", "wake", "transfer"} \cup steps]
  /\ self \in [Threads -> Tasks \cup {NULL}]
  /\ curr \in [Threads -> Tasks \cup {NULL}]
  /\ kept \in [Threads -> Tasks \cup {NULL}]

InitWith(h) ==
  /\ head = h
  /\ next = [t \in Tasks |-> NULL]
  /\ tstate = [t \in Tasks |-> "ready"]
  /\ rounds = [t \in Tasks |-> 0]
  /\ pc = [th \in Threads |-> "idle"]
  /\ self = [th \in Threads |-> NULL]
  /\ curr = [th \in Threads |-> NULL]
  /\ kept = [th \in Threads |-> NULL]

\* The executor: it runs what was posted.
Dispatch(th, t) ==
  /\ pc[th] = "idle" /\ tstate[t] = "ready"
  /\ tstate' = [tstate EXCEPT ![t] = "running"]
  /\ self' = [self EXCEPT ![th] = t]
  /\ pc' = [pc EXCEPT ![th] = "user"]
  /\ UNCHANGED <<head, next, rounds, curr, kept>>

\* The coroutine reaches its end.
Complete(th) ==
  /\ pc[th] = "user"
  /\ tstate' = [tstate EXCEPT ![self[th]] = "done"]
  /\ self' = [self EXCEPT ![th] = NULL]
  /\ pc' = [pc EXCEPT ![th] = "idle"]
  /\ UNCHANGED <<head, next, rounds, curr, kept>>

BeginRound(th) ==
  /\ pc[th] = "user" /\ rounds[self[th]] < MaxRounds
  /\ rounds' = [rounds EXCEPT ![self[th]] = @ + 1]

\* Me.next = head; head = Me, as one compare-exchange.
PushNode(t) ==
  /\ next' = [next EXCEPT ![t] = head]
  /\ head' = t

-----------------------------------------------------------------------------
(* wake_waiters_in_batches.                                                *)

\* The nodes from h on: Chain(h)[1] is h; the list ends at the first NULL.
Chain(h) ==
  LET c[i \in 1..Cardinality(Tasks) + 1] ==
        IF i = 1 THEN h ELSE IF c[i-1] = NULL THEN NULL ELSE next[c[i-1]]
  IN  c
NodesFrom(h) == {Chain(h)[i] : i \in DOMAIN Chain(h)} \ {NULL}

\* Where a thread goes when nothing is left to post.
AfterWake(th) == IF kept[th] # NULL THEN "transfer" ELSE "user"

\* One bulk post: the next n nodes, as many as fit in a batch and share an
\* executor and a priority (any n is possible here).  The link of the last one
\* was read before the post.
PostBatch(th) ==
  /\ pc[th] = "wake"
  /\ \E n \in 1..Cardinality(Tasks) :
       LET c == Chain(curr[th])
           batch == {c[i] : i \in 1..n}
       IN  /\ NULL \notin batch
           /\ tstate' = [t \in Tasks |-> IF t \in batch THEN "ready" ELSE tstate[t]]
           /\ curr' = [curr EXCEPT ![th] = c[n+1]]
           /\ pc' = [pc EXCEPT ![th] = IF c[n+1] = NULL THEN AfterWake(th) ELSE "wake"]
  /\ UNCHANGED <<head, next, rounds, self, kept>>

\* try_symmetric_transfer: run the kept node here and post the caller, or post
\* the node when it belongs to another executor or priority.
Transfer(th) ==
  /\ pc[th] = "transfer"
  /\ kept' = [kept EXCEPT ![th] = NULL]
  /\ pc' = [pc EXCEPT ![th] = "user"]
  /\ \/ /\ tstate' = [tstate EXCEPT ![kept[th]] = "running", ![self[th]] = "ready"]
        /\ self' = [self EXCEPT ![th] = kept[th]]
     \/ /\ tstate' = [tstate EXCEPT ![kept[th]] = "ready"]
        /\ self' = self
  /\ UNCHANGED <<head, next, rounds, curr>>

-----------------------------------------------------------------------------
\* A task that waits is on exactly one list, the shared one or the private one
\* of a single waking thread, and lists hold nobody else: nobody is lost when
\* nodes are re-used, nobody is resumed twice.
Listed == IF head = READY THEN {} ELSE NodesFrom(head)
Held(th) == NodesFrom(curr[th]) \cup ({kept[th]} \ {NULL})
OnOneList ==
  /\ {t \in Tasks : tstate[t] = "waiting"} = Listed \cup UNION {Held(th) : th \in Threads}
  /\ \A th \in Threads :
       /\ Listed \cap Held(th) = {}
       /\ kept[th] \notin NodesFrom(curr[th])
       /\ \A o \in Threads \ {th} : Held(o) \cap Held(th) = {}
=============================================================================
