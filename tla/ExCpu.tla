-------------------------------- MODULE ExCpu --------------------------------
(* tmc::ex_cpu: work-stealing worker threads over priorities, how they look for
   work, fall asleep and are woken, and how the executor is torn down.  Work
   items carry no identity here, only the priority they were posted with. *)
EXTENDS Integers, Sequences, FiniteSetsExt, SequencesExt

CONSTANTS Threads,    \* worker slots, a set of numbers
          Priorities, \* 0..(PRIORITY_COUNT - 1)
          Outside,    \* threads that are not workers of this executor
          Partitions, \* priority ranges of the threads that init may produce
          InboxSize,  \* capacity of a thread group's inbox (4096)
          Hints,      \* bound: the thread hints that posts give, NoHint among them
          MaxPosts,   \* bound: items posted in a behaviour
          Overtake    \* bound: teardown may begin while a thread is awake

ASSUME ThreadsAssumption ==
  Threads \subseteq Nat /\ IsFiniteSet(Threads)
ASSUME OutsideAssumption == IsFiniteSet(Outside) /\ Outside \cap Threads = {}
\* Priorities are numbered from 0 on.
ASSUME PrioritiesAssumption ==
  /\ 0 \in Priorities /\ Priorities \subseteq Nat
  /\ \A p \in Priorities : 0..p \subseteq Priorities
\* Every thread serves a range of priorities that is not empty.
ASSUME PartitionsAssumption ==
  /\ Partitions \subseteq [Threads -> Priorities \X Priorities]
  /\ \A r \in Partitions, t \in Threads : r[t][1] <= r[t][2]
ASSUME BoundsAssumption ==
  InboxSize \in Nat /\ MaxPosts \in Nat /\ Hints \subseteq Int /\ Overtake \in BOOLEAN

VARIABLES
  range,     \* range[t]: the priorities thread t serves, <<first, last>>
  working,   \* working_threads_bitset
  spinning,  \* spinning_threads_bitset
  signalled, \* threads whose sleep_wait differs from the waitValue they loaded
  fallback,  \* fallback_wake_states
  deque,     \* deque[t][p]: length of thread t's deque of priority p
  inbox,     \* inbox[r]: priorities of the items in the inbox of the threads of range r
  ingest,    \* q_ingest, as the workers see it
  buffered,  \* enqueues whose stores are not visible yet: <<thread, priority>>
  stopped,   \* threads whose stop source was triggered
  phase,     \* how far teardown got
  refs,      \* ref_count
  posted,    \* items posted so far
  pc, step,  \* each worker's place in its loop, and which source or priority it looks at
  fresh,     \* the worker's local flag `spinning`, set again once it is no longer read
  prio,      \* priority of the item the worker runs
  spinCount, \* the worker's spinningThreadCount
  call       \* the post or notify_n each thread is inside

queues == <<deque, inbox, ingest, buffered>>
bits == <<working, spinning>>
worker == <<pc, step, fresh, prio, spinCount>>
life == <<range, stopped, phase, posted>>
vars == <<queues, bits, worker, life, signalled, fallback, refs, call>>

NoCall == [at |-> "none", prio |-> 0, hint |-> -1, allowed |-> FALSE,
           post |-> FALSE, spin |-> {}, slot |-> -1]
NoHint == -1

Serves(t) == range[t][1]..range[t][2]
Allowed(p) == {t \in Threads : p \in Serves(t)}   \* threads_by_priority_bitset
Sentinel(p) == Min(Allowed(p))                    \* waker_matrix[p].get_row(0)[0]

Init ==
  /\ range \in Partitions
  /\ working = {} /\ spinning = Threads /\ signalled = {}
  /\ fallback = [p \in Priorities |-> "none"]
  /\ deque = [t \in Threads |-> [p \in Priorities |-> 0]]
  /\ inbox = [r \in {range[t] : t \in Threads} |-> <<>>]
  /\ ingest = [p \in Priorities |-> 0] /\ buffered = {}
  /\ stopped = {} /\ phase = "up" /\ refs = 0 /\ posted = 0
  /\ pc = [t \in Threads |-> "top"]
  /\ step = [t \in Threads |-> 0]
  /\ fresh = [t \in Threads |-> TRUE]
  /\ prio = [t \in Threads |-> 0]
  /\ spinCount = [t \in Threads |-> 0]
  /\ call = [c \in Threads \cup Outside |-> NoCall]

Goto(t, label) == pc' = [pc EXCEPT ![t] = label]
----------------------------------------------------------------------------
(* post, notify_hint, notify_n.  c is the calling thread. *)

Enter(c, label) == call' = [call EXCEPT ![c].at = label]
\* The call is over; a thread from outside still has to drop its reference.
Leave(c) == [call EXCEPT ![c] =
               IF c \in Outside THEN [NoCall EXCEPT !.at = "unref"] ELSE NoCall]
Wake(c, t) == call' = [call EXCEPT ![c] = [NoCall EXCEPT !.at = "signal", !.slot = t]]

\* post() up to the choice of the queue; a thread from outside counts itself in.
Post(c, p, h) ==
  /\ call[c].at = "none" /\ posted < MaxPosts /\ Allowed(p) # {}
  /\ IF c \in Outside THEN phase = "up" ELSE pc[c] = "run"
  /\ refs' = IF c \in Outside THEN refs + 1 ELSE refs
  /\ posted' = posted + 1
  /\ call' = [call EXCEPT ![c] = [NoCall EXCEPT
                !.at = "enqueue", !.prio = p, !.hint = h, !.post = TRUE,
                !.allowed = c \in Allowed(p)]]
  /\ UNCHANGED <<queues, bits, worker, range, stopped, phase, signalled, fallback>>

\* A hint is honoured when the hinted thread serves the priority and its inbox
\* has room.
HintTaken(p, h) == h \in Allowed(p) /\ Len(inbox[range[h]]) < InboxSize

Drained(c) == \A e \in buffered : e[1] # c

\* Into the inbox, else the caller's own deque, or the shared ingest queue.  The
\* stores of enqueue may become visible after the loads that follow them.
Enqueue(c) ==
  LET p == call[c].prio  h == call[c].hint
  IN /\ call[c].at = "enqueue" /\ Drained(c)
     /\ IF HintTaken(p, h)
        THEN /\ inbox' = [inbox EXCEPT ![range[h]] = Append(@, p)]
             /\ call' = IF c = h THEN Leave(c) ELSE [call EXCEPT ![c].at = "hint"]
             /\ UNCHANGED <<deque, buffered>>
        ELSE /\ IF call[c].allowed
                THEN deque' = [deque EXCEPT ![c][p] = @ + 1] /\ UNCHANGED buffered
                ELSE buffered' = buffered \cup {<<c, p>>} /\ UNCHANGED deque
             /\ Enter(c, "countSpinning")
             /\ UNCHANGED inbox
     /\ UNCHANGED <<ingest, bits, worker, life, signalled, fallback, refs>>

\* The processor makes the enqueue visible, at the next barrier at the latest.
Drain(c) == \E e \in buffered :
  /\ e[1] = c
  /\ buffered' = buffered \ {e}
  /\ ingest' = [ingest EXCEPT ![e[2]] = @ + 1]
  /\ UNCHANGED <<deque, inbox, bits, worker, life, signalled, fallback, refs, call>>

\* notify_hint: the hinted thread, or another idle one, or the hinted one again.
NotifyHint(c) ==
  LET h == call[c].hint  idle == Allowed(call[c].prio) \ working
  IN /\ call[c].at = "hint"
     /\ \E t \in (IF h \in idle \/ idle = {} THEN {h} ELSE idle) : Wake(c, t)
     /\ UNCHANGED <<queues, bits, worker, life, signalled, fallback, refs>>

\* notify_n: the two bitsets are loaded one after the other.
CountSpinning(c) ==
  /\ call[c].at = "countSpinning"
  /\ call' = [call EXCEPT ![c].at = "decide", ![c].spin = spinning \cap Allowed(call[c].prio)]
  /\ UNCHANGED <<queues, bits, worker, life, signalled, fallback, refs>>

\* A caller of the priority's own group may leave it to others...
MayReturn(spin, work, sleeping, post) ==
  \/ sleeping = {}
  \/ post /\ spin # {}
  \/ 2 * Cardinality(spin) > Cardinality(work)

\* Mutant: a caller from outside relies on the spinners it saw.
DecideTrustingSpinners(c) ==
  LET p == call[c].prio
      spin == call[c].spin
      work == working \cap Allowed(p)
      sleeping == Allowed(p) \ (spin \cup work)
  IN /\ call[c].at = "decide"
     /\ IF call[c].allowed
        THEN IF MayReturn(spin, work, sleeping, call[c].post) \/ sleeping \ {c} = {}
             THEN call' = Leave(c)
             ELSE \E t \in sleeping \ {c} : Wake(c, t)
        ELSE IF sleeping # {} /\ spin = {} THEN Wake(c, Min(sleeping))
             ELSE call' = Leave(c)
     /\ UNCHANGED <<queues, bits, worker, life, signalled, fallback, refs>>

\* ... any other caller wakes a sleeper or turns to the sentinel.
Decide(c) ==
  LET p == call[c].prio
      spin == call[c].spin
      work == working \cap Allowed(p)
      sleeping == Allowed(p) \ (spin \cup work)
  IN /\ call[c].at = "decide"
     /\ IF call[c].allowed
        THEN IF MayReturn(spin, work, sleeping, call[c].post) \/ sleeping \ {c} = {}
             THEN call' = Leave(c)
             ELSE \E t \in sleeping \ {c} : Wake(c, t)
        ELSE IF sleeping # {} /\ spin = {} THEN Wake(c, Min(sleeping))
             ELSE Enter(c, "fallback")
     /\ UNCHANGED <<queues, bits, worker, life, signalled, fallback, refs>>

\* Mutant: no memory_barrier before the look.
CheckFallbackUnfenced(c) ==
  /\ call[c].at = "fallback"
  /\ IF fallback[call[c].prio] = "wait" THEN Enter(c, "claim") ELSE call' = Leave(c)
  /\ UNCHANGED <<queues, bits, worker, life, signalled, fallback, refs>>
\* memory_barrier, then a look at the sentinel's announcement.
CheckFallback(c) ==
  /\ call[c].at = "fallback" /\ Drained(c)
  /\ IF fallback[call[c].prio] = "wait" THEN Enter(c, "claim") ELSE call' = Leave(c)
  /\ UNCHANGED <<queues, bits, worker, life, signalled, fallback, refs>>

\* exchange(WAKE): of several posters one wakes the sentinel.
ClaimFallback(c) ==
  LET p == call[c].prio IN
  /\ call[c].at = "claim"
  /\ fallback' = [fallback EXCEPT ![p] = "wake"]
  /\ IF fallback[p] = "wait" THEN Wake(c, Sentinel(p)) ELSE call' = Leave(c)
  /\ UNCHANGED <<queues, bits, worker, life, signalled, refs>>

\* sleep_wait.fetch_add and notify_one.  Between the load of waitValue and the
\* next turn of the loop the change counts; otherwise nobody compares it.
Armed == {t \in Threads : pc[t] \in {"announce", "unspin", "checkInbox",
            "checkIngest", "checkSteal", "lastCheck", "sleep"}}
AddSignal(t) == signalled' = signalled \cup ({t} \cap Armed)
Signal(c) ==
  /\ call[c].at = "signal" /\ Drained(c)
  /\ AddSignal(call[c].slot)
  /\ call' = Leave(c)
  /\ UNCHANGED <<queues, bits, worker, life, fallback, refs>>

Unref(c) ==
  /\ call[c].at = "unref" /\ Drained(c)
  /\ refs' = refs - 1
  /\ call' = [call EXCEPT ![c] = NoCall]
  /\ UNCHANGED <<queues, bits, worker, life, signalled, fallback>>

CallStep(c) ==
  \/ Enqueue(c) \/ Drain(c) \/ NotifyHint(c) \/ CountSpinning(c) \/ Decide(c)
  \/ CheckFallback(c) \/ ClaimFallback(c) \/ Signal(c) \/ Unref(c)
----------------------------------------------------------------------------
(* try_run_some and run_one. *)

\* The places a worker tries, in order; after each item it starts again.
\* Of each priority its own deque, the ingest queue and the deques of others, highest
\* priority first; the inbox comes second of all.
SourceCount(t) == 4 + 3 * (range[t][2] - range[t][1])
Source(t) ==
  LET i == IF step[t] = 1 THEN 0 ELSE step[t] - 2 IN
  IF step[t] = 2 THEN <<"inbox", range[t][1]>>
  ELSE <<<<"deque", "ingest", "steal">>[(i % 3) + 1], range[t][1] + i \div 3>>

\* TOP of try_run_some.  stop_requested() never turns false again, so reading it at
\* once after the thread's last step loses nothing: the request may come later.
StartLooking(t) ==
  /\ Goto(t, IF t \in stopped THEN "exit" ELSE "look")
  /\ step' = [step EXCEPT ![t] = IF t \in stopped THEN 0 ELSE 1]

\* TOP of the worker loop: a sentinel withdraws its announcement.
Top(t) ==
  /\ pc[t] = "top"
  /\ fallback' = [p \in Priorities |->
                    IF p \in Serves(t) /\ Sentinel(p) = t THEN "none" ELSE fallback[p]]
  /\ fresh' = [fresh EXCEPT ![t] = TRUE]
  /\ signalled' = signalled \ {t}
  /\ StartLooking(t)
  /\ UNCHANGED <<queues, bits, life, refs, call, prio, spinCount>>

\* An item of priority p was found; p matters to run_one's notify_n only.
Found(t, p) ==
  /\ prio' = [prio EXCEPT ![t] = IF fresh[t] THEN p ELSE 0]
  /\ step' = [step EXCEPT ![t] = 0]
  /\ Goto(t, IF fresh[t] THEN "setWorking" ELSE "run")
  /\ UNCHANGED <<bits, life, signalled, fallback, refs, call, fresh, spinCount>>

PopOwn(t) ==
  LET p == Source(t)[2] IN
  /\ pc[t] = "look" /\ Source(t)[1] = "deque" /\ deque[t][p] > 0
  /\ deque' = [deque EXCEPT ![t][p] = @ - 1]
  /\ Found(t, p) /\ UNCHANGED <<inbox, ingest, buffered>>

PullInbox(t) ==
  /\ pc[t] = "look" /\ Source(t)[1] = "inbox" /\ inbox[range[t]] # <<>>
  /\ inbox' = [inbox EXCEPT ![range[t]] = Tail(@)]
  /\ Found(t, Head(inbox[range[t]])) /\ UNCHANGED <<deque, ingest, buffered>>

DequeueIngest(t) ==
  LET p == Source(t)[2] IN
  /\ pc[t] = "look" /\ Source(t)[1] = "ingest" /\ ingest[p] > 0
  /\ ingest' = [ingest EXCEPT ![p] = @ - 1]
  /\ Found(t, p) /\ UNCHANGED <<deque, inbox, buffered>>

Steal(t) ==
  LET p == Source(t)[2] IN
  /\ pc[t] = "look" /\ Source(t)[1] = "steal"
  /\ \E u \in Allowed(p) \ {t} :
       /\ deque[u][p] > 0
       /\ deque' = [deque EXCEPT ![u][p] = @ - 1]
  /\ Found(t, p) /\ UNCHANGED <<inbox, ingest, buffered>>

\* The end of try_run_some: the user's thread_post_run_hook may say that it has
\* more work to do, and then the thread looks again without settling down.
AfterNothing(t) ==
  \/ StartLooking(t)
  \/ Goto(t, "settle") /\ step' = [step EXCEPT ![t] = 0]

\* Nothing there; a steal may also fail because other threads interfere.
Miss(t) ==
  LET p == Source(t)[2] IN
  /\ pc[t] = "look"
  /\ CASE Source(t)[1] = "deque"  -> deque[t][p] = 0
       [] Source(t)[1] = "inbox"  -> inbox[range[t]] = <<>>
       [] Source(t)[1] = "ingest" -> ingest[p] = 0
       [] Source(t)[1] = "steal"  -> TRUE
  /\ IF step[t] = SourceCount(t) THEN AfterNothing(t)
     ELSE step' = [step EXCEPT ![t] = @ + 1] /\ UNCHANGED pc
  /\ UNCHANGED <<queues, bits, life, signalled, fallback, refs, call, fresh, prio, spinCount>>

\* Mutant: the local flag is not reset.
SetWorkingKeepingFlag(t) ==
  /\ pc[t] = "setWorking"
  /\ working' = working \cup {t}
  /\ Goto(t, "clearSpinning")
  /\ UNCHANGED <<queues, spinning, life, signalled, fallback, refs, call, step, fresh, prio, spinCount>>
\* run_one of a thread that had been looking for work: it becomes a worker...
SetWorking(t) ==
  /\ pc[t] = "setWorking"
  /\ working' = working \cup {t}
  /\ fresh' = [fresh EXCEPT ![t] = FALSE]
  /\ Goto(t, "clearSpinning")
  /\ UNCHANGED <<queues, spinning, life, signalled, fallback, refs, call, step, prio, spinCount>>

\* ... and calls notify_n(1, Prio, true, false) before the item.
ClearSpinning(t) ==
  /\ pc[t] = "clearSpinning"
  /\ spinning' = spinning \ {t}
  /\ call' = [call EXCEPT ![t] = [NoCall EXCEPT
                !.at = "countSpinning", !.prio = prio[t], !.allowed = TRUE]]
  /\ prio' = [prio EXCEPT ![t] = 0]
  /\ Goto(t, "run")
  /\ UNCHANGED <<queues, working, life, signalled, fallback, refs, step, fresh, spinCount>>

\* Item() returns.
ItemEnds(t) ==
  /\ pc[t] = "run" /\ call[t].at = "none"
  /\ StartLooking(t)
  /\ UNCHANGED <<queues, bits, life, signalled, fallback, refs, call, fresh, prio, spinCount>>
----------------------------------------------------------------------------
(* The worker loop: from no work found to sleep. *)

\* Only a thread that ran something has to set its bit.
BecomeSpinning(t) ==
  /\ pc[t] = "settle"
  /\ spinning' = IF fresh[t] THEN spinning ELSE spinning \cup {t}
  /\ spinCount' = [spinCount EXCEPT ![t] = Cardinality(spinning')]
  /\ Goto(t, "clearWorking")
  /\ UNCHANGED <<queues, working, life, signalled, fallback, refs, call, step, fresh, prio>>

\* Spinners are limited to half the number of working threads.
ClearWorking(t) ==
  /\ pc[t] = "clearWorking"
  /\ working' = IF fresh[t] THEN working ELSE working \ {t}
  /\ Goto(t, IF 2 * spinCount[t] <= Cardinality(working') THEN "spin" ELSE "arm")
  /\ spinCount' = [spinCount EXCEPT ![t] = 0]
  /\ fresh' = [fresh EXCEPT ![t] = TRUE]
  /\ UNCHANGED <<queues, spinning, life, signalled, fallback, refs, call, step, prio>>

\* inbox->empty(), q_ingest[p].empty() and steal_empty(p).
InboxFilled(t) == inbox[range[t]] # <<>>
IngestFilled(p) == ingest[p] > 0
OthersFilled(t, p) == \E u \in Allowed(p) \ {t} : deque[u][p] > 0
SeesWork(t) == \/ InboxFilled(t)
               \/ \E p \in Serves(t) : IngestFilled(p) \/ OthersFilled(t, p)

\* The spin loop ends on work or after its number of turns.
Spin(t) ==
  /\ pc[t] = "spin"
  /\ \/ SeesWork(t) /\ Goto(t, "top")
     \/ Goto(t, "arm")
  /\ UNCHANGED <<queues, bits, life, signalled, fallback, refs, call, step, fresh, prio, spinCount>>

\* waitValue = sleep_wait.load(): later signals end the sleep.
Arm(t) ==
  /\ pc[t] = "arm"
  /\ signalled' = signalled \ {t}
  /\ step' = [step EXCEPT ![t] = range[t][1]]
  /\ Goto(t, "announce")
  /\ UNCHANGED <<queues, bits, life, fallback, refs, call, fresh, prio, spinCount>>

\* Where the announcement of one priority leads.
AfterAnnounce(t, woken) ==
  IF woken THEN Goto(t, "top") /\ step' = [step EXCEPT ![t] = 0]
  ELSE IF step[t] = range[t][2] THEN Goto(t, "unspin") /\ step' = [step EXCEPT ![t] = 0]
  ELSE step' = [step EXCEPT ![t] = @ + 1] /\ UNCHANGED pc

\* exchange(WAIT) for each priority whose sentinel this thread is.
Announce(t) ==
  LET p == step[t] IN
  /\ pc[t] = "announce"
  /\ IF Sentinel(p) = t
     THEN /\ fallback' = [fallback EXCEPT ![p] = "wait"]
          /\ AfterAnnounce(t, fallback[p] = "wake")
     ELSE UNCHANGED fallback /\ AfterAnnounce(t, FALSE)
  /\ UNCHANGED <<queues, bits, life, signalled, refs, call, fresh, prio, spinCount>>

\* spinning_threads_bitset.clr_bit, then the barrier.
StopSpinning(t) ==
  /\ pc[t] = "unspin"
  /\ spinning' = spinning \ {t}
  /\ Goto(t, "checkInbox")
  /\ UNCHANGED <<queues, working, life, signalled, fallback, refs, call, step, fresh, prio, spinCount>>

\* Double-check for work, one queue after the other.
CheckInbox(t) ==
  /\ pc[t] = "checkInbox"
  /\ Goto(t, IF InboxFilled(t) THEN "respin" ELSE "checkIngest")
  /\ step' = [step EXCEPT ![t] = IF InboxFilled(t) THEN 0 ELSE range[t][1]]
  /\ UNCHANGED <<queues, bits, life, signalled, fallback, refs, call, fresh, prio, spinCount>>

CheckIngest(t) ==
  /\ pc[t] = "checkIngest"
  /\ IF IngestFilled(step[t]) THEN Goto(t, "respin") /\ step' = [step EXCEPT ![t] = 0]
     ELSE Goto(t, "checkSteal") /\ UNCHANGED step
  /\ UNCHANGED <<queues, bits, life, signalled, fallback, refs, call, fresh, prio, spinCount>>

CheckSteal(t) ==
  /\ pc[t] = "checkSteal"
  /\ IF OthersFilled(t, step[t]) THEN Goto(t, "top") /\ step' = [step EXCEPT ![t] = 0]
     ELSE IF step[t] = range[t][2] THEN Goto(t, "lastCheck") /\ step' = [step EXCEPT ![t] = 0]
     ELSE Goto(t, "checkIngest") /\ step' = [step EXCEPT ![t] = @ + 1]
  /\ UNCHANGED <<queues, bits, life, signalled, fallback, refs, call, fresh, prio, spinCount>>

\* stop_requested() before the sleep.
LastCheck(t) ==
  /\ pc[t] = "lastCheck"
  /\ Goto(t, IF t \in stopped THEN "exit" ELSE "sleep")
  /\ UNCHANGED <<queues, bits, life, signalled, fallback, refs, call, step, fresh, prio, spinCount>>

\* sleep_wait.wait(waitValue) returns once the value has changed.
WakeUp(t) ==
  /\ pc[t] = "sleep" /\ t \in signalled
  /\ Goto(t, "respin")
  /\ UNCHANGED <<queues, bits, life, signalled, fallback, refs, call, step, fresh, prio, spinCount>>

SpinAgain(t) ==
  /\ pc[t] = "respin"
  /\ spinning' = spinning \cup {t}
  /\ Goto(t, "top")
  /\ UNCHANGED <<queues, working, life, signalled, fallback, refs, call, step, fresh, prio, spinCount>>

\* The thread leaves its loop; its hook runs and its thread locals are cleared.
Exit(t) ==
  /\ pc[t] = "exit"
  /\ working' = working \ {t}
  /\ Goto(t, "dead")
  /\ UNCHANGED <<queues, spinning, life, signalled, fallback, refs, call, step, fresh, prio, spinCount>>

WorkerStep(t) ==
  \/ Top(t)
  \/ PopOwn(t) \/ PullInbox(t) \/ DequeueIngest(t) \/ Steal(t) \/ Miss(t)
  \/ SetWorking(t) \/ ClearSpinning(t) \/ ItemEnds(t)
  \/ BecomeSpinning(t) \/ ClearWorking(t) \/ Spin(t)
  \/ Arm(t) \/ Announce(t) \/ StopSpinning(t)
  \/ CheckInbox(t) \/ CheckIngest(t) \/ CheckSteal(t)
  \/ LastCheck(t) \/ WakeUp(t) \/ SpinAgain(t) \/ Exit(t)
----------------------------------------------------------------------------
(* teardown, on a thread that is not a worker. *)

Parked(t) == pc[t] = "sleep" /\ t \notin signalled

\* Bound: a behaviour's posts have begun when teardown begins, and unless teardown
\* may overtake them every thread has gone to sleep after them.
BeginTeardown ==
  /\ phase = "up" /\ posted = MaxPosts
  /\ Overtake \/ \A t \in Threads : Parked(t)
  /\ phase' = "stop"
  /\ UNCHANGED <<queues, bits, worker, range, stopped, posted, signalled, fallback, refs, call>>

\* request_stop of the next thread, in index order...
RequestStop ==
  /\ phase = "stop" /\ stopped # Threads
  /\ stopped' = stopped \cup {Min(Threads \ stopped)}
  /\ phase' = "wake"
  /\ UNCHANGED <<queues, bits, worker, range, posted, signalled, fallback, refs, call>>

\* ... then its wakeup.
StopWake ==
  /\ phase = "wake"
  /\ AddSignal(Max(stopped))
  /\ phase' = IF stopped = Threads THEN "join" ELSE "stop"
  /\ UNCHANGED <<queues, bits, worker, range, stopped, posted, fallback, refs, call>>

Join ==
  /\ phase = "join" /\ \A t \in Threads : pc[t] = "dead"
  /\ phase' = "drain"
  /\ UNCHANGED <<queues, bits, worker, range, stopped, posted, signalled, fallback, refs, call>>

\* Mutant: teardown does not wait for posts in progress.
ReleaseAtOnce ==
  /\ phase = "drain"
  /\ phase' = "gone"
  /\ UNCHANGED <<queues, bits, worker, range, stopped, posted, signalled, fallback, refs, call>>
\* Wait for ref_count to be 0, then free the bitsets, queues and thread states.
Release ==
  /\ phase = "drain" /\ refs = 0
  /\ phase' = "gone"
  /\ UNCHANGED <<queues, bits, worker, range, stopped, posted, signalled, fallback, refs, call>>

TeardownStep == RequestStop \/ StopWake \/ Join \/ Release

Next ==
  \/ \E t \in Threads : WorkerStep(t)
  \/ \E c \in Threads \cup Outside : CallStep(c)
  \/ \E c \in Threads \cup Outside, p \in Priorities, h \in Hints : Post(c, p, h)
  \/ BeginTeardown \/ TeardownStep
  \/ phase = "gone" /\ UNCHANGED vars
Spec == Init /\ [][Next]_vars

\* Worker threads run until they are stopped, an item ends, a thread inside post
\* returns from it, and teardown goes on.  Nobody has to post or to tear down.
FairSpec ==
  /\ Spec
  /\ \A t \in Threads : WF_vars(WorkerStep(t) \/ CallStep(t))
  /\ \A c \in Outside : WF_vars(CallStep(c))
  /\ WF_vars(TeardownStep)
----------------------------------------------------------------------------
(* Properties. *)

\* Every variable has its type; an inbox holds what its threads serve.
Callers == Threads \cup Outside
Labels == {"top", "look", "setWorking", "clearSpinning", "run", "settle", "clearWorking",
           "spin", "arm", "announce", "unspin", "checkInbox", "checkIngest", "checkSteal",
           "lastCheck", "sleep", "respin", "exit", "dead"}
Points == {"none", "enqueue", "hint", "countSpinning", "decide", "fallback", "claim",
           "signal", "unref"}
Calls == [at : Points, prio : Priorities, hint : Int, allowed : BOOLEAN,
          post : BOOLEAN, spin : SUBSET Threads, slot : Int]
InboxTypes ==
  /\ DOMAIN inbox = {range[t] : t \in Threads}
  /\ \A t \in Threads : /\ inbox[range[t]] \in Seq(Serves(t))
                         /\ Len(inbox[range[t]]) <= InboxSize
QueueTypes ==
  /\ deque \in [Threads -> [Priorities -> Nat]]
  /\ ingest \in [Priorities -> Nat]
  /\ buffered \subseteq Callers \X Priorities
BitTypes ==
  /\ working \subseteq Threads /\ spinning \subseteq Threads
  /\ signalled \subseteq Threads /\ stopped \subseteq Threads
WorkerTypes ==
  /\ pc \in [Threads -> Labels] /\ step \in [Threads -> Nat]
  /\ fresh \in [Threads -> BOOLEAN]
  /\ prio \in [Threads -> Priorities] /\ spinCount \in [Threads -> Nat]
LifeTypes ==
  /\ range \in Partitions
  /\ phase \in {"up", "stop", "wake", "join", "drain", "gone"}
  /\ refs \in 0..Cardinality(Outside) /\ posted \in 0..MaxPosts
TypeOK ==
  /\ InboxTypes /\ QueueTypes /\ BitTypes /\ WorkerTypes /\ LifeTypes
  /\ fallback \in [Priorities -> {"none", "wait", "wake"}]
  /\ call \in [Callers -> Calls]

Waking(c, ts) == call[c].at = "signal" /\ call[c].slot \in ts

\* Work never lies in a queue while every thread that could take it sleeps and
\* nobody is about to wake one: post enqueues before it reads the bitsets, a
\* sleeper announces itself before it looks a last time (StoreLoad barriers in
\* notify_n and in the worker loop).
NoLostWakeup ==
  /\ \A p \in Priorities :
       (ingest[p] > 0 \/ \E u \in Threads : deque[u][p] > 0) =>
          \/ \E t \in Allowed(p) : ~Parked(t)
          \/ \E c \in DOMAIN call :
               \/ Waking(c, Allowed(p))
               \/ /\ call[c].prio = p
                  /\ call[c].at \in {"countSpinning", "decide", "fallback", "claim"}
  /\ \A h \in Threads :
       LET mine == {t \in Threads : range[t] = range[h]} IN
       inbox[range[h]] # <<>> =>
          \/ \E t \in mine : ~Parked(t)
          \/ \E c \in DOMAIN call :
               Waking(c, mine) \/ (call[c].at = "hint" /\ call[c].hint \in mine)

\* The assertions of set_bit_popcnt and clr_bit_popcnt, which add and subtract
\* instead of or-ing: the thread's bit is clear, or set, when they are called.
\* A thread that runs an item counts as working, one that sleeps as neither.
BitsMatchThreads ==
  \A t \in Threads :
    /\ pc[t] = "settle" /\ ~fresh[t] => t \notin spinning
    /\ pc[t] = "clearWorking" /\ ~fresh[t] => t \in working
    /\ pc[t] = "run" => t \in working \ spinning
    /\ pc[t] = "sleep" => t \notin working \cup spinning

\* ex_cpu.hpp on ref_count: teardown frees nothing that a post still uses.
NoUseAfterTeardown ==
  phase = "gone" => /\ \A c \in DOMAIN call : call[c].at = "none"
                    /\ \A t \in Threads : pc[t] = "dead"

\* What is posted runs unless the executor is torn down, and a teardown ends,
\* whichever threads sleep, spin or are just falling asleep.
Queued == \/ buffered # {}
          \/ \E p \in Priorities : ingest[p] > 0 \/ \E t \in Threads : deque[t][p] > 0
          \/ \E t \in Threads : inbox[range[t]] # <<>>
Unfinished == (phase = "up" /\ Queued) \/ phase \notin {"up", "gone"}
WorkRunsAndTeardownEnds == Unfinished ~> ~Unfinished
=============================================================================
