--------------------------- MODULE ManualResetEvent ---------------------------
(***************************************************************************)
(* tmc::manual_reset_event: a WaiterStack whose head may also be READY.    *)
(***************************************************************************)
EXTENDS WaiterStack

VARIABLE alive   \* FALSE once the destructor has begun

vars == <<stackVars, alive>>

TypeOK == TypesOK({}) /\ alive \in BOOLEAN

Init == (\E h \in {NULL, READY} : InitWith(h)) /\ alive = TRUE

\* co_await: READY lets the task pass, otherwise its node is pushed; from then
\* on the thread touches neither the event nor the task.
WaitForReady(th) ==
  \/ head = READY /\ UNCHANGED <<head, next, tstate, pc, self>>
  \/ /\ head # READY
     /\ PushNode(self[th])
     /\ tstate' = [tstate EXCEPT ![self[th]] = "waiting"]
     /\ self' = [self EXCEPT ![th] = NULL]
     /\ pc' = [pc EXCEPT ![th] = "idle"]

Await(th) ==
  /\ alive /\ BeginRound(th) /\ WaitForReady(th)
  /\ UNCHANGED <<curr, kept, alive>>

\* set: one exchange takes the whole list, then wake_waiters_in_batches.
Open(th, symmetric) ==
  LET first == IF head \in Tasks THEN head ELSE NULL
  IN  /\ head' = READY
      /\ kept' = [kept EXCEPT ![th] = IF symmetric THEN first ELSE NULL]
      /\ curr' = [curr EXCEPT ![th] = IF symmetric /\ first # NULL THEN next[first] ELSE first]
      /\ pc' = [pc EXCEPT ![th] = IF curr'[th] # NULL THEN "wake"
                                  ELSE IF kept'[th] # NULL THEN "transfer" ELSE "user"]

Set(th) ==
  /\ pc[th] = "user" /\ alive /\ Open(th, FALSE)
  /\ UNCHANGED <<next, sched, self, alive>>

\* co_set keeps the newest waiter for symmetric transfer and posts the others.
CoSet(th) ==
  /\ pc[th] = "user" /\ alive /\ Open(th, TRUE)
  /\ UNCHANGED <<next, sched, self, alive>>

\* Mutant: a blind store also forgets the waiters of an event that is not ready.
ResetBlindly(th) ==
  /\ pc[th] = "user" /\ alive
  /\ head' = NULL
  /\ UNCHANGED <<next, sched, locals, alive>>
\* reset: compare-exchange of READY; the waiters of an event that is not ready
\* stay.
Reset(th) ==
  /\ pc[th] = "user" /\ alive /\ head = READY
  /\ head' = NULL
  /\ UNCHANGED <<next, sched, locals, alive>>

\* The destructor is a set(); its caller has excluded all other users.
Destroy(th) ==
  /\ pc[th] = "user" /\ alive /\ Open(th, FALSE)
  /\ alive' = FALSE
  /\ UNCHANGED <<next, sched, self>>

Terminated ==
  /\ \A t \in Tasks : tstate[t] \in {"waiting", "done"}
  /\ \A th \in Threads : pc[th] = "idle"
  /\ UNCHANGED vars

Step(th) ==
  \/ (\E t \in Tasks : Dispatch(th, t)) /\ UNCHANGED alive
  \/ (Complete(th) \/ PostBatch(th) \/ Transfer(th)) /\ UNCHANGED alive
  \/ Await(th) \/ Set(th) \/ CoSet(th) \/ Reset(th) \/ Destroy(th)

Next == (\E th \in Threads : Step(th)) \/ Terminated
\* A thread that can take a step takes one.
Spec == Init /\ [][Next]_vars /\ \A th \in Threads : WF_vars(Step(th))

-----------------------------------------------------------------------------
\* A ready event has no waiters: nobody waits on while the event stays set, and
\* whoever still waits then is in the hands of a thread that is waking it.
NobodyLeftBehind ==
  head = READY =>
     \A t \in Tasks : tstate[t] = "waiting" => \E th \in Threads : t \in Held(th)
=============================================================================
