------------------------------ MODULE ExCpuProof ------------------------------
(***************************************************************************)
(* Proofs about ExCpu for any set of worker threads, any priorities and    *)
(* partitions, any inbox size and number of posts: no wakeup is lost, the  *)
(* bitsets agree with the threads, nothing is freed under a post.          *)
(***************************************************************************)
EXTENDS ExCpu, FiniteSetTheorems, WellFoundedInduction, TLAPS

USE ThreadsAssumption, OutsideAssumption, PrioritiesAssumption, PartitionsAssumption,
    BoundsAssumption

\* Where a caller stands between its enqueue and the wake that it may owe.
Deciding == {"countSpinning", "decide", "fallback", "claim"}

\* What a caller knows at each point.  A worker is inside a call only while it runs
\* an item, and a caller from outside never counts as allowed.
CallerInv(c) ==
  /\ c \in Threads /\ call[c].at # "none" => pc[c] = "run" /\ call[c].at # "unref"
  /\ call[c].at = "enqueue" => call[c].allowed = (c \in Allowed(call[c].prio))
  /\ call[c].at \in Deciding \cup {"enqueue"} => Allowed(call[c].prio) # {}
  /\ call[c].at \in Deciding /\ call[c].allowed => c \in Allowed(call[c].prio)
  /\ call[c].at \in {"fallback", "claim"} => ~call[c].allowed
  /\ call[c].at = "hint" => call[c].hint \in Allowed(call[c].prio)
  /\ call[c].at = "signal" => call[c].slot \in Threads
CallInv == \A c \in Callers : CallerInv(c)

\* An enqueue whose stores are still buffered belongs to a caller that will drain it
\* before it stops looking for a thread to wake.
BufferedInv ==
  \A e \in buffered :
    \/ /\ call[e[1]].at \in {"countSpinning", "decide", "fallback"}
       /\ call[e[1]].prio = e[2] /\ ~call[e[1]].allowed
    \/ Waking(e[1], Allowed(e[2]))

\* The bit of a thread, for each place of its loop.
ThreadBits(t) ==
  /\ pc[t] \in {"clearSpinning", "run"} => t \in working /\ ~fresh[t]
  /\ pc[t] \in {"look", "settle", "clearWorking"} => (t \in working <=> ~fresh[t])
  /\ pc[t] = "setWorking" => t \notin working /\ fresh[t]
  /\ pc[t] \notin {"clearSpinning", "run", "look", "settle", "clearWorking", "exit"}
       => t \notin working
  /\ pc[t] \in {"run", "look", "settle"} /\ ~fresh[t] => t \notin spinning
  /\ pc[t] \in {"checkInbox", "checkIngest", "checkSteal", "lastCheck", "sleep"}
       => t \notin spinning
  /\ pc[t] \in {"setWorking", "clearSpinning"} => prio[t] \in Serves(t)
BitsInv == \A t \in Threads : ThreadBits(t)

\* The index at which a looking thread tries its deque of priority p.
OwnIndex(t, p) == IF p = range[t][1] THEN 1 ELSE 2 + 3 * (p - range[t][1])

\* Only its owner fills a deque, and it settles down only once its deques are empty.
OwnDeque(t) ==
  \A p \in Priorities : deque[t][p] > 0 =>
    /\ t \in Allowed(p)
    /\ pc[t] \in {"look", "setWorking", "clearSpinning", "run", "exit", "dead"}
    /\ pc[t] = "look" => step[t] <= OwnIndex(t, p)
DequeInv == \A t \in Threads : OwnDeque(t)

\* step, where it is an index into the places to look at or a priority.
ThreadStep(t) ==
  /\ pc[t] = "look" => step[t] \in 1..SourceCount(t)
  /\ pc[t] \in {"announce", "checkIngest", "checkSteal"} => step[t] \in Serves(t)
StepInv == \A t \in Threads : ThreadStep(t)

\* Thread t has announced that it is the one to wake for priority p.
Announced(t, p) ==
  \/ pc[t] = "announce" /\ step[t] > p
  \/ pc[t] \in {"unspin", "checkInbox", "checkIngest", "checkSteal", "lastCheck", "sleep"}

\* While the sentinel's announcement stands it says "wait", or whoever changed it is
\* waking the sentinel or has done so.
FallbackInv ==
  \A p \in Priorities :
    LET s == Sentinel(p) IN
    Allowed(p) # {} /\ Announced(s, p) =>
      \/ fallback[p] = "wait"
      \/ fallback[p] = "wake" /\ (s \in signalled \/ \E c \in Callers : Waking(c, {s}))

\* Thread t will not look at the queue again before it sleeps.
PassedInbox(t) == pc[t] \in {"checkIngest", "checkSteal", "lastCheck", "sleep"}
PassedIngest(t, p) ==
  \/ pc[t] = "checkIngest" /\ step[t] > p
  \/ pc[t] = "checkSteal" /\ step[t] >= p
  \/ pc[t] \in {"lastCheck", "sleep"}

\* Somebody will look at a shared queue that is not empty, or is about to be woken, or
\* a caller that has yet to decide whom to wake answers for it.
IngestCovered(p) ==
  \/ \E t \in Allowed(p) : ~PassedIngest(t, p) \/ t \in signalled
  \/ \E c \in Callers : \/ Waking(c, Allowed(p))
                        \/ call[c].at \in Deciding /\ call[c].prio = p /\ ~call[c].allowed
IngestInv == \A p \in Priorities : ingest[p] > 0 => IngestCovered(p)

Mine(h) == {t \in Threads : range[t] = range[h]}
InboxCovered(h) ==
  \/ \E t \in Mine(h) : ~PassedInbox(t) \/ t \in signalled
  \/ \E c \in Callers : \/ Waking(c, Mine(h))
                        \/ call[c].at = "hint" /\ call[c].hint \in Mine(h)
InboxInv == \A h \in Threads : inbox[range[h]] # <<>> => InboxCovered(h)

\* ref_count counts the callers from outside, and teardown goes on without workers.
Inside == {c \in Outside : call[c].at # "none"}
LifeInv ==
  /\ refs = Cardinality(Inside)
  /\ phase \in {"drain", "gone"} => \A t \in Threads : pc[t] = "dead"
  /\ phase = "gone" => Inside = {}

IInv == /\ TypeOK /\ CallInv /\ BufferedInv /\ BitsInv /\ DequeInv /\ StepInv
        /\ FallbackInv /\ IngestInv /\ InboxInv /\ LifeInv
----------------------------------------------------------------------------
NatOrder == {ss \in Nat \X Nat : ss[1] < ss[2]}

LEMMA NatOrderWellFounded == IsWellFoundedOn(NatOrder, Nat)
BY NatLessThanWellFounded, Zenon DEF NatOrder, OpToRel

\* A set of naturals that is not empty has a least element, which Min returns.
LEMMA MinMember ==
  ASSUME NEW S, S \subseteq Nat, S # {}
  PROVE  Min(S) \in S
<1>1. PICK m \in S : \A y \in S : ~ (<<y, m>> \in NatOrder)
  BY NatOrderWellFounded, WFMin
<1>2. \A y \in S : m <= y
  <2> SUFFICES ASSUME NEW y \in S PROVE m <= y
    OBVIOUS
  <2>1. m \in Nat /\ y \in Nat
    OBVIOUS
  <2>2. ~ (y < m)
    <3>1. SUFFICES ASSUME y < m PROVE <<y, m>> \in NatOrder
      BY <1>1
    <3> QED BY <3>1, <2>1 DEF NatOrder
  <2> QED BY <2>1, <2>2
<1> QED BY <1>2 DEF Min

\* A priority that is served has a sentinel among the threads that serve it.
LEMMA SentinelServes ==
  ASSUME NEW p, Allowed(p) # {}
  PROVE  Sentinel(p) \in Allowed(p)
BY MinMember DEF Sentinel, Allowed

\* The priorities of a thread, when the variables have their types.
LEMMA RangeType ==
  ASSUME TypeOK, NEW t \in Threads
  PROVE  /\ range[t][1] \in Priorities /\ range[t][2] \in Priorities
         /\ range[t][1] \in Nat /\ range[t][2] \in Nat
         /\ range[t][1] <= range[t][2]
         /\ Serves(t) \subseteq Priorities
<1>1. range[t] \in Priorities \X Priorities /\ range[t][1] <= range[t][2]
  BY DEF TypeOK, LifeTypes
<1>2. 0..range[t][2] \subseteq Priorities
  BY <1>1
<1>3. range[t][1] \in Nat /\ range[t][2] \in Nat
  BY <1>1
<1>4. Serves(t) \subseteq 0..range[t][2]
  BY <1>3 DEF Serves
<1> QED BY <1>1, <1>2, <1>3, <1>4
----------------------------------------------------------------------------
\* What the steps of a worker may change, and which step changes it.
LEMMA WorkerFrame ==
  ASSUME NEW t \in Threads, WorkerStep(t)
  PROVE  /\ UNCHANGED <<range, stopped, phase, posted, refs>>
         /\ \/ UNCHANGED <<deque, inbox, ingest, buffered>>
            \/ PopOwn(t) \/ PullInbox(t) \/ DequeueIngest(t) \/ Steal(t)
         /\ UNCHANGED call \/ ClearSpinning(t)
         /\ UNCHANGED fallback \/ Top(t) \/ Announce(t)
         /\ UNCHANGED signalled \/ Top(t) \/ Arm(t)
         /\ UNCHANGED working \/ SetWorking(t) \/ ClearWorking(t) \/ Exit(t)
         /\ \/ UNCHANGED spinning
            \/ ClearSpinning(t) \/ BecomeSpinning(t) \/ StopSpinning(t) \/ SpinAgain(t)
<1> USE DEF queues, bits, life
<1>1. CASE Top(t)
  BY <1>1 DEF Top
<1>2. CASE PopOwn(t) \/ PullInbox(t) \/ DequeueIngest(t) \/ Steal(t)
  BY <1>2 DEF PopOwn, PullInbox, DequeueIngest, Steal, Found
<1>3. CASE Miss(t)
  BY <1>3 DEF Miss
<1>4. CASE SetWorking(t) \/ ClearSpinning(t) \/ ItemEnds(t)
  BY <1>4 DEF SetWorking, ClearSpinning, ItemEnds
<1>5. CASE BecomeSpinning(t) \/ ClearWorking(t) \/ Spin(t) \/ Arm(t)
  BY <1>5 DEF BecomeSpinning, ClearWorking, Spin, Arm
<1>6. CASE Announce(t) \/ StopSpinning(t)
  BY <1>6 DEF Announce, StopSpinning
<1>7. CASE CheckInbox(t) \/ CheckIngest(t) \/ CheckSteal(t) \/ LastCheck(t)
  BY <1>7 DEF CheckInbox, CheckIngest, CheckSteal, LastCheck
<1>8. CASE WakeUp(t) \/ SpinAgain(t) \/ Exit(t)
  BY <1>8 DEF WakeUp, SpinAgain, Exit
<1> QED BY <1>1, <1>2, <1>3, <1>4, <1>5, <1>6, <1>7, <1>8 DEF WorkerStep

\* The same of the steps of a call, and of teardown.
LEMMA CallFrame ==
  ASSUME NEW c \in Callers, CallStep(c)
  PROVE  /\ UNCHANGED <<range, stopped, phase, posted, working, spinning>>
         /\ UNCHANGED <<pc, step, fresh, prio, spinCount>>
         /\ UNCHANGED <<deque, inbox>> \/ Enqueue(c)
         /\ UNCHANGED ingest \/ Drain(c)
         /\ UNCHANGED buffered \/ Enqueue(c) \/ Drain(c)
         /\ UNCHANGED fallback \/ ClaimFallback(c)
         /\ UNCHANGED signalled \/ Signal(c)
         /\ UNCHANGED refs \/ Unref(c)
<1> USE DEF queues, bits, life, worker
<1>1. CASE Enqueue(c)
  BY <1>1 DEF Enqueue
<1>2. CASE Drain(c)
  BY <1>2 DEF Drain
<1>3. CASE NotifyHint(c) \/ CountSpinning(c) \/ Decide(c) \/ CheckFallback(c)
  BY <1>3 DEF NotifyHint, CountSpinning, Decide, CheckFallback
<1>4. CASE ClaimFallback(c) \/ Signal(c) \/ Unref(c)
  BY <1>4 DEF ClaimFallback, Signal, Unref
<1> QED BY <1>1, <1>2, <1>3, <1>4 DEF CallStep

LEMMA TeardownFrame ==
  ASSUME BeginTeardown \/ TeardownStep
  PROVE  /\ UNCHANGED <<deque, inbox, ingest, buffered, working, spinning>>
         /\ UNCHANGED <<pc, step, fresh, prio, spinCount>>
         /\ UNCHANGED <<range, posted, fallback, refs, call>>
         /\ UNCHANGED signalled \/ StopWake
         /\ UNCHANGED stopped \/ RequestStop
BY DEF BeginTeardown, TeardownStep, RequestStop, StopWake, Join, Release, queues, bits, worker
----------------------------------------------------------------------------
\* Every step keeps the types.

LEMMA InsideType == Cardinality(Inside) \in 0..Cardinality(Outside)
<1>1. IsFiniteSet(Inside) /\ Cardinality(Inside) <= Cardinality(Outside)
  BY FS_Subset DEF Inside
<1> QED BY <1>1, FS_CardinalityType

\* Taking from and adding to a list.
LEMMA HeadTailFacts ==
  ASSUME NEW S, NEW s \in Seq(S), s # <<>>
  PROVE  /\ Head(s) \in S /\ Tail(s) \in Seq(S) /\ Len(Tail(s)) = Len(s) - 1
         /\ Len(s) \in Nat
OBVIOUS

\* Where a thread looks: at one of its priorities, at its deques in turn.
LEMMA SourceFacts ==
  ASSUME TypeOK, StepInv, NEW t \in Threads, pc[t] = "look"
  PROVE  /\ Source(t)[2] \in Serves(t)
         /\ Source(t)[1] \in {"deque", "inbox", "ingest", "steal"}
         /\ step[t] \in 1..SourceCount(t)
         /\ \A p \in Serves(t) : OwnIndex(t, p) = step[t] =>
              Source(t) = <<"deque", p>>
<1> DEFINE b == range[t][1]
           n == range[t][2] - b
           i == IF step[t] = 1 THEN 0 ELSE step[t] - 2
           kind == <<"deque", "ingest", "steal">>[(i % 3) + 1]
<1>1. b \in Nat /\ range[t][2] \in Nat /\ n \in Nat
  BY RangeType
<1>2. step[t] \in 1..(4 + 3 * n)
  BY DEF StepInv, ThreadStep, SourceCount
<1>3. Source(t) = IF step[t] = 2 THEN <<"inbox", b>> ELSE <<kind, b + i \div 3>>
  BY DEF Source
<1> HIDE DEF b, n
<1>4. step[t] # 2 => i \in 0..(2 + 3 * n)
  BY <1>1, <1>2
<1>5. step[t] # 2 => i \div 3 \in 0..n /\ i % 3 \in {0, 1, 2}
  <2> HIDE DEF i
  <2> QED BY <1>1, <1>4
<1>6. step[t] # 2 => kind \in {"deque", "ingest", "steal"}
  <2> HIDE DEF i
  <2> QED BY <1>5
<1>7. Serves(t) = b..(b + n)
  BY <1>1 DEF Serves, b, n
<1>8. Source(t)[2] \in Serves(t)
  BY <1>1, <1>3, <1>5, <1>7
<1>9. ASSUME NEW p \in Serves(t), OwnIndex(t, p) = step[t]
      PROVE  Source(t) = <<"deque", p>>
  <2>1. p - b \in 0..n
    BY <1>1, <1>7
  <2>2. step[t] = IF p = b THEN 1 ELSE 2 + 3 * (p - b)
    BY <1>9 DEF OwnIndex, b
  <2>3. step[t] # 2 /\ i = 3 * (p - b)
    BY <1>1, <1>7, <2>1, <2>2
  <2>4. i % 3 = 0 /\ i \div 3 = p - b
    <3> HIDE DEF i
    <3> QED BY <2>1, <2>3
  <2>5. kind = "deque" /\ b + i \div 3 = p
    <3> HIDE DEF i
    <3> QED BY <1>1, <1>7, <2>4
  <2> QED BY <1>3, <2>3, <2>5
<1> QED BY <1>2, <1>3, <1>6, <1>8, <1>9, <1>1 DEF SourceCount, b, n

\* The workers' own variables.
LEMMA WorkerTyped ==
  ASSUME TypeOK, BitsInv, StepInv, NEW t \in Threads, WorkerStep(t)
  PROVE  WorkerTypes' /\ \E l \in Labels : pc' = [pc EXCEPT ![t] = l]
<1> USE DEF WorkerTypes, Goto
<1>0. WorkerTypes
  BY DEF TypeOK
<1>a. pc[t] = "look" => Source(t)[2] \in Priorities
  BY SourceFacts, RangeType
<1>b. inbox[range[t]] # <<>> => Head(inbox[range[t]]) \in Priorities
  <2>1. inbox[range[t]] \in Seq(Serves(t))
    BY DEF TypeOK, InboxTypes
  <2>2. inbox[range[t]] # <<>> => Head(inbox[range[t]]) \in Serves(t)
    BY <2>1, HeadTailFacts
  <2> QED BY <2>2, RangeType
<1>1. CASE Top(t)
  BY <1>0, <1>1 DEF Top, StartLooking, Labels
<1>2. CASE PopOwn(t)
  BY <1>0, <1>a, <1>2 DEF PopOwn, Found, Labels
<1>3. CASE PullInbox(t)
  BY <1>0, <1>b, <1>3 DEF PullInbox, Found, Labels
<1>4. CASE DequeueIngest(t)
  BY <1>0, <1>a, <1>4 DEF DequeueIngest, Found, Labels
<1>5. CASE Steal(t)
  BY <1>0, <1>a, <1>5 DEF Steal, Found, Labels
<1>6. CASE Miss(t)
  <2>1. /\ IF step[t] = SourceCount(t) THEN AfterNothing(t)
           ELSE step' = [step EXCEPT ![t] = @ + 1] /\ UNCHANGED pc
        /\ UNCHANGED <<fresh, prio, spinCount>> /\ pc[t] = "look"
    BY <1>6 DEF Miss
  <2>2. CASE step[t] = SourceCount(t)
    BY <1>0, <2>1, <2>2 DEF AfterNothing, StartLooking, Labels
  <2>3. CASE step[t] # SourceCount(t)
    <3>1. pc' = [pc EXCEPT ![t] = "look"]
      BY <1>0, <2>1, <2>3
    <3> QED BY <1>0, <2>1, <2>3, <3>1 DEF Labels
  <2> QED BY <2>2, <2>3
<1>7. CASE SetWorking(t)
  BY <1>0, <1>7 DEF SetWorking, Labels
<1>8. CASE ClearSpinning(t)
  BY <1>0, <1>8 DEF ClearSpinning, Labels
<1>9. CASE ItemEnds(t)
  BY <1>0, <1>9 DEF ItemEnds, StartLooking, Labels
<1>10. CASE BecomeSpinning(t)
  <2>1. spinning' \subseteq Threads
    BY <1>10 DEF BecomeSpinning, TypeOK, BitTypes
  <2>2. Cardinality(spinning') \in Nat
    BY <2>1, FS_Subset, FS_CardinalityType
  <2> QED BY <1>0, <1>10, <2>2 DEF BecomeSpinning, Labels
<1>11. CASE ClearWorking(t)
  BY <1>0, <1>11 DEF ClearWorking, Labels
<1>12. CASE Spin(t)
  BY <1>0, <1>12 DEF Spin, Labels
<1>13. CASE Arm(t)
  BY <1>0, <1>13, RangeType DEF Arm, Labels
<1>14. CASE Announce(t)
  BY <1>0, <1>14 DEF Announce, AfterAnnounce, Labels
<1>15. CASE StopSpinning(t)
  BY <1>0, <1>15 DEF StopSpinning, Labels
<1>16. CASE CheckInbox(t)
  BY <1>0, <1>16, RangeType DEF CheckInbox, Labels
<1>17. CASE CheckIngest(t)
  BY <1>0, <1>17 DEF CheckIngest, Labels
<1>18. CASE CheckSteal(t)
  BY <1>0, <1>18 DEF CheckSteal, Labels
<1>19. CASE LastCheck(t)
  BY <1>0, <1>19 DEF LastCheck, Labels
<1>20. CASE WakeUp(t)
  BY <1>0, <1>20 DEF WakeUp, Labels
<1>21. CASE SpinAgain(t)
  BY <1>0, <1>21 DEF SpinAgain, Labels
<1>22. CASE Exit(t)
  BY <1>0, <1>22 DEF Exit, Labels
<1> QED BY <1>1, <1>2, <1>3, <1>4, <1>5, <1>6, <1>7, <1>8, <1>9, <1>10, <1>11, <1>12,
           <1>13, <1>14, <1>15, <1>16, <1>17, <1>18, <1>19, <1>20, <1>21, <1>22
        DEF WorkerStep
\* The queues: a worker takes an item out, a call puts one in.
LEMMA WorkerQueuesTyped ==
  ASSUME TypeOK, StepInv, NEW t \in Threads, WorkerStep(t)
  PROVE  InboxTypes' /\ QueueTypes'
<1>1. InboxTypes /\ QueueTypes /\ range' = range
  BY WorkerFrame DEF TypeOK
<1>2. pc[t] = "look" => Source(t)[2] \in Priorities
  BY SourceFacts, RangeType
<1>3. CASE UNCHANGED <<deque, inbox, ingest, buffered>>
  BY <1>1, <1>3 DEF InboxTypes, QueueTypes, Serves
<1>4. CASE PopOwn(t) \/ DequeueIngest(t) \/ Steal(t)
  <2>1. inbox' = inbox /\ buffered' = buffered /\ pc[t] = "look"
    BY <1>4 DEF PopOwn, DequeueIngest, Steal
  <2>2. deque' \in [Threads -> [Priorities -> Nat]]
    BY <1>1, <1>2, <1>4, <2>1 DEF PopOwn, DequeueIngest, Steal, QueueTypes, Allowed
  <2>3. ingest' \in [Priorities -> Nat]
    BY <1>1, <1>2, <1>4, <2>1 DEF PopOwn, DequeueIngest, Steal, QueueTypes
  <2>4. InboxTypes'
    BY <1>1, <2>1 DEF InboxTypes, Serves
  <2> QED BY <1>1, <2>1, <2>2, <2>3, <2>4 DEF QueueTypes
<1>5. CASE PullInbox(t)
  <2>1. UNCHANGED <<deque, ingest, buffered>>
    BY <1>5 DEF PullInbox
  <2>2. /\ inbox[range[t]] # <<>> /\ inbox[range[t]] \in Seq(Serves(t))
        /\ inbox' = [inbox EXCEPT ![range[t]] = Tail(inbox[range[t]])]
    BY <1>1, <1>5 DEF PullInbox, InboxTypes
  <2>3. Tail(inbox[range[t]]) \in Seq(Serves(t))
        /\ Len(Tail(inbox[range[t]])) = Len(inbox[range[t]]) - 1
        /\ Len(inbox[range[t]]) \in Nat
    BY <2>2, HeadTailFacts
  <2>4. DOMAIN inbox' = {range'[u] : u \in Threads}
    BY <1>1, <2>2 DEF InboxTypes
  <2>5. ASSUME NEW u \in Threads
        PROVE  inbox'[range'[u]] \in Seq(Serves(u)') /\ Len(inbox'[range'[u]]) <= InboxSize
    <3>1. CASE range[u] = range[t]
      <4>1. inbox'[range[u]] = Tail(inbox[range[t]]) /\ Serves(u)' = Serves(t)
        BY <1>1, <2>2, <3>1 DEF InboxTypes, Serves
      <4>2. Len(inbox[range[t]]) <= InboxSize
        BY <1>1 DEF InboxTypes
      <4> QED BY <1>1, <2>3, <4>1, <4>2
    <3>2. CASE range[u] # range[t]
      <4>1. inbox'[range[u]] = inbox[range[u]] /\ Serves(u)' = Serves(u)
        BY <1>1, <2>2, <3>2 DEF InboxTypes, Serves
      <4> QED BY <1>1, <4>1 DEF InboxTypes
    <3> QED BY <3>1, <3>2
  <2> QED BY <1>1, <2>1, <2>4, <2>5 DEF InboxTypes, QueueTypes
<1> QED BY <1>3, <1>4, <1>5, WorkerFrame

LEMMA CallQueuesTyped ==
  ASSUME TypeOK, CallInv, NEW c \in Callers, CallStep(c)
  PROVE  InboxTypes' /\ QueueTypes'
<1> DEFINE p == call[c].prio
           h == call[c].hint
<1>1. InboxTypes /\ QueueTypes /\ range' = range
  BY CallFrame DEF TypeOK
<1>2. p \in Priorities /\ h \in Int /\ call[c].allowed \in BOOLEAN
  BY DEF TypeOK, Calls
<1>3. CASE Enqueue(c) /\ HintTaken(p, h)
  <2>1. /\ inbox' = [inbox EXCEPT ![range[h]] = Append(@, p)]
        /\ UNCHANGED <<deque, buffered, ingest>>
    BY <1>3 DEF Enqueue
  <2>2. h \in Threads /\ p \in Serves(h) /\ Len(inbox[range[h]]) < InboxSize
    BY <1>3 DEF HintTaken, Allowed
  <2>3. inbox[range[h]] \in Seq(Serves(h))
    BY <1>1, <2>2 DEF InboxTypes
  <2>4. /\ Append(inbox[range[h]], p) \in Seq(Serves(h))
        /\ Len(Append(inbox[range[h]], p)) <= InboxSize
    BY <2>2, <2>3
  <2>5. DOMAIN inbox' = {range'[u] : u \in Threads}
    BY <1>1, <2>1 DEF InboxTypes
  <2>6. ASSUME NEW u \in Threads
        PROVE  inbox'[range'[u]] \in Seq(Serves(u)') /\ Len(inbox'[range'[u]]) <= InboxSize
    <3>1. CASE range[u] = range[h]
      <4>1. inbox'[range[u]] = Append(inbox[range[h]], p) /\ Serves(u)' = Serves(h)
        BY <1>1, <2>1, <2>2, <3>1 DEF InboxTypes, Serves
      <4> QED BY <1>1, <2>4, <4>1
    <3>2. CASE range[u] # range[h]
      <4>1. inbox'[range[u]] = inbox[range[u]] /\ Serves(u)' = Serves(u)
        BY <1>1, <2>1, <3>2 DEF InboxTypes, Serves
      <4> QED BY <1>1, <4>1 DEF InboxTypes
    <3> QED BY <3>1, <3>2
  <2> QED BY <1>1, <2>1, <2>5, <2>6 DEF InboxTypes, QueueTypes
<1>4. CASE Enqueue(c) /\ ~HintTaken(p, h)
  <2>1. /\ IF call[c].allowed
           THEN deque' = [deque EXCEPT ![c][p] = @ + 1] /\ UNCHANGED buffered
           ELSE buffered' = buffered \cup {<<c, p>>} /\ UNCHANGED deque
        /\ UNCHANGED <<inbox, ingest>> /\ call[c].at = "enqueue"
    BY <1>4 DEF Enqueue
  <2>2. call[c].allowed => c \in Threads
    BY <1>2, <2>1 DEF CallInv, CallerInv, Allowed
  <2>3. QueueTypes'
    BY <1>1, <1>2, <2>1, <2>2 DEF QueueTypes
  <2> QED BY <1>1, <2>1, <2>3 DEF InboxTypes, Serves
<1>5. CASE Drain(c)
  <2>1. ingest' \in [Priorities -> Nat] /\ buffered' \subseteq buffered
    <3>1. PICK e \in buffered : /\ buffered' = buffered \ {e}
                                /\ ingest' = [ingest EXCEPT ![e[2]] = @ + 1]
      BY <1>5 DEF Drain
    <3>2. e[2] \in Priorities
      BY <1>1 DEF QueueTypes
    <3>3. ingest \in [Priorities -> Nat]
      BY <1>1 DEF QueueTypes
    <3>4. ASSUME NEW q \in Priorities, ingest' = [ingest EXCEPT ![q] = @ + 1]
          PROVE  ingest' \in [Priorities -> Nat]
      BY <3>3, <3>4
    <3> QED BY <3>1, <3>2, <3>4
  <2>2. UNCHANGED <<deque, inbox>>
    BY <1>5 DEF Drain
  <2> QED BY <1>1, <2>1, <2>2 DEF InboxTypes, QueueTypes, Serves
<1>6. CASE UNCHANGED <<deque, inbox, ingest, buffered>>
  BY <1>1, <1>6 DEF InboxTypes, QueueTypes, Serves
<1> QED BY <1>3, <1>4, <1>5, <1>6, CallFrame

\* What Enter, Leave and Wake do to the record of a call.
Moved(c, l) ==
  /\ call'[c].at = l /\ call'[c].prio = call[c].prio
  /\ call'[c].hint = call[c].hint /\ call'[c].allowed = call[c].allowed
Left(c) == call'[c].at = IF c \in Outside THEN "unref" ELSE "none"
Woke(c, t) == call'[c].at = "signal" /\ call'[c].slot = t
OnlyCall(c) == /\ call' \in [Callers -> Calls]
               /\ \A d \in Callers \ {c} : call'[d] = call[d]

LEMMA EnterFacts ==
  ASSUME TypeOK, NEW c \in Callers, NEW l \in Points, Enter(c, l)
  PROVE  OnlyCall(c) /\ Moved(c, l)
<1>1. call \in [Callers -> Calls] /\ call[c] \in Calls
  BY DEF TypeOK
<1>2. [call[c] EXCEPT !.at = l] \in Calls
  BY <1>1 DEF Calls
<1> QED BY <1>1, <1>2 DEF Enter, OnlyCall, Moved, Calls

LEMMA NoCallType == NoCall \in Calls /\ NoCall.at = "none"
BY DEF NoCall, Calls, Points

LEMMA LeaveFacts ==
  ASSUME TypeOK, NEW c \in Callers, call' = Leave(c)
  PROVE  OnlyCall(c) /\ Left(c)
<1>1. call \in [Callers -> Calls]
  BY DEF TypeOK
<1> DEFINE new == IF c \in Outside THEN [NoCall EXCEPT !.at = "unref"] ELSE NoCall
<1>2. new \in Calls /\ new.at = IF c \in Outside THEN "unref" ELSE "none"
  BY NoCallType DEF Calls, Points
<1>3. call' = [call EXCEPT ![c] = new]
  BY DEF Leave
<1> QED BY <1>1, <1>2, <1>3 DEF OnlyCall, Left

LEMMA WakeFacts ==
  ASSUME TypeOK, NEW c \in Callers, NEW t \in Int, Wake(c, t)
  PROVE  OnlyCall(c) /\ Woke(c, t)
<1>1. call \in [Callers -> Calls]
  BY DEF TypeOK
<1> DEFINE new == [NoCall EXCEPT !.at = "signal", !.slot = t]
<1>2. new \in Calls /\ new.at = "signal" /\ new.slot = t
  BY NoCallType DEF Calls, Points
<1>3. call' = [call EXCEPT ![c] = new]
  BY DEF Wake
<1> QED BY <1>1, <1>2, <1>3 DEF OnlyCall, Woke

\* An enqueue leads to notify_hint or to notify_n.
LEMMA EnqueueOutcome ==
  ASSUME TypeOK, NEW c \in Callers, Enqueue(c)
  PROVE  /\ OnlyCall(c) /\ call[c].at = "enqueue"
         /\ IF HintTaken(call[c].prio, call[c].hint)
            THEN IF c = call[c].hint THEN Left(c) ELSE Moved(c, "hint")
            ELSE Moved(c, "countSpinning")
<1>1. /\ call[c].at = "enqueue"
      /\ IF HintTaken(call[c].prio, call[c].hint)
         THEN IF c = call[c].hint THEN call' = Leave(c) ELSE Enter(c, "hint")
         ELSE Enter(c, "countSpinning")
  BY DEF Enqueue, Enter
<1>2. {"hint", "countSpinning"} \subseteq Points
  BY DEF Points
<1> QED BY <1>1, <1>2, EnterFacts, LeaveFacts

\* Where each step of a call leads: a caller from outside always wakes a thread that
\* serves the priority, or turns to the sentinel.
LEMMA CallOutcome ==
  ASSUME TypeOK, CallInv, NEW c \in Callers, CallStep(c)
  PROVE  LET p == call[c].prio
             h == call[c].hint
         IN /\ OnlyCall(c)
            /\ \/ Enqueue(c)
               \/ Drain(c) /\ call' = call
               \/ /\ call[c].at = "hint"
                  /\ \E t \in Threads : Woke(c, t) /\ (t = h \/ h \in working)
               \/ call[c].at = "countSpinning" /\ Moved(c, "decide")
               \/ /\ call[c].at = "decide" /\ call[c].allowed
                  /\ Left(c) \/ \E t \in Threads : Woke(c, t)
               \/ /\ call[c].at = "decide" /\ ~call[c].allowed
                  /\ Moved(c, "fallback") \/ \E t \in Allowed(p) : Woke(c, t)
               \/ /\ call[c].at = "fallback" /\ Drained(c)
                  /\ IF fallback[p] = "wait" THEN Moved(c, "claim") ELSE Left(c)
               \/ /\ ClaimFallback(c) /\ call[c].at = "claim"
                  /\ IF fallback[p] = "wait" THEN Woke(c, Sentinel(p)) ELSE Left(c)
               \/ Signal(c) /\ call[c].at = "signal" /\ Drained(c) /\ Left(c)
               \/ Unref(c) /\ call[c].at = "unref" /\ call'[c].at = "none" /\ Drained(c)
<1> DEFINE p == call[c].prio
           h == call[c].hint
<1>0. /\ call \in [Callers -> Calls] /\ call[c] \in Calls
      /\ p \in Priorities /\ h \in Int
      /\ Threads \subseteq Int /\ Allowed(p) \subseteq Threads
      /\ {"hint", "countSpinning", "decide", "fallback", "claim"} \subseteq Points
  BY DEF TypeOK, Calls, Points, Allowed
<1> HIDE DEF p, h
<1>1. CASE Enqueue(c)
  BY <1>1, EnqueueOutcome
<1>2. CASE Drain(c)
  BY <1>0, <1>2 DEF Drain, OnlyCall
<1>3. CASE NotifyHint(c)
  <2>1. call[c].at = "hint" /\ h \in Allowed(p)
    BY <1>3 DEF NotifyHint, CallInv, CallerInv, p, h
  <2>2. PICK t \in Threads : Wake(c, t) /\ (t = h \/ h \in working)
    BY <1>0, <1>3, <2>1 DEF NotifyHint, Allowed, p, h
  <2> QED BY <1>0, <2>1, <2>2, WakeFacts DEF p, h
<1>4. CASE CountSpinning(c)
  <2>1. /\ call[c].at = "countSpinning"
        /\ call' = [call EXCEPT ![c].at = "decide", ![c].spin = spinning \cap Allowed(p)]
    BY <1>4 DEF CountSpinning, p
  <2> DEFINE S == spinning \cap Allowed(p)
             new == [call[c] EXCEPT !.at = "decide", !.spin = S]
  <2>2. S \in SUBSET Threads
    BY <1>0
  <2> HIDE DEF S
  <2>3. /\ new \in Calls /\ new.at = "decide" /\ new.prio = call[c].prio
        /\ new.hint = call[c].hint /\ new.allowed = call[c].allowed
    BY <1>0, <2>2 DEF Calls
  <2>4. call' = [call EXCEPT ![c] = new]
    BY <1>0, <2>1 DEF S
  <2> HIDE DEF new
  <2>5. OnlyCall(c) /\ Moved(c, "decide")
    BY <1>0, <2>3, <2>4 DEF OnlyCall, Moved
  <2> QED BY <2>1, <2>5
<1>5. CASE Decide(c)
  <2> DEFINE sleeping == Allowed(p) \ (call[c].spin \cup (working \cap Allowed(p)))
  <2>1. /\ call[c].at = "decide"
        /\ IF call[c].allowed
           THEN call' = Leave(c) \/ \E t \in sleeping : Wake(c, t)
           ELSE IF sleeping # {} /\ call[c].spin = {} THEN Wake(c, Min(sleeping))
                ELSE Enter(c, "fallback")
    BY <1>5 DEF Decide, p
  <2>2. sleeping \subseteq Allowed(p) /\ sleeping \subseteq Nat
    BY <1>0
  <2>3. sleeping # {} => Min(sleeping) \in sleeping
    BY <2>2, MinMember
  <2> HIDE DEF sleeping
  <2>4. CASE call[c].allowed
    <3>1. CASE call' = Leave(c)
      BY <1>0, <2>1, <2>4, <3>1, LeaveFacts
    <3>2. CASE \E t \in sleeping : Wake(c, t)
      BY <1>0, <2>1, <2>2, <2>4, <3>2, WakeFacts
    <3> QED BY <2>1, <2>4, <3>1, <3>2
  <2>5. CASE ~call[c].allowed
    <3>1. CASE sleeping # {} /\ call[c].spin = {}
      <4>1. Min(sleeping) \in Allowed(p) /\ Min(sleeping) \in Int
        BY <1>0, <2>2, <2>3, <3>1
      <4>2. OnlyCall(c) /\ Woke(c, Min(sleeping))
        BY <2>1, <2>5, <3>1, <4>1, WakeFacts
      <4> QED BY <2>1, <2>5, <4>1, <4>2 DEF p
    <3>2. CASE ~(sleeping # {} /\ call[c].spin = {})
      BY <1>0, <2>1, <2>5, <3>2, EnterFacts
    <3> QED BY <3>1, <3>2
  <2> QED BY <2>4, <2>5
<1>6. CASE CheckFallback(c)
  <2>1. /\ call[c].at = "fallback" /\ Drained(c)
        /\ IF fallback[p] = "wait" THEN Enter(c, "claim") ELSE call' = Leave(c)
    BY <1>6 DEF CheckFallback, p
  <2> QED BY <1>0, <2>1, EnterFacts, LeaveFacts DEF p
<1>7. CASE ClaimFallback(c)
  <2>1. /\ call[c].at = "claim"
        /\ IF fallback[p] = "wait" THEN Wake(c, Sentinel(p)) ELSE call' = Leave(c)
    BY <1>7 DEF ClaimFallback, p
  <2>2. Sentinel(p) \in Int
    BY <1>0, <2>1, SentinelServes DEF CallInv, CallerInv, Deciding, p
  <2> QED BY <1>7, <2>1, <2>2, WakeFacts, LeaveFacts DEF p
<1>8. CASE Signal(c)
  BY <1>8, LeaveFacts DEF Signal
<1>9. CASE Unref(c)
  <2>1. call' = [call EXCEPT ![c] = NoCall] /\ call[c].at = "unref" /\ Drained(c)
    BY <1>9 DEF Unref
  <2>2. OnlyCall(c) /\ call'[c].at = "none"
    BY <1>0, <2>1, NoCallType DEF OnlyCall
  <2> QED BY <1>9, <2>1, <2>2
<1> QED BY <1>1, <1>2, <1>3, <1>4, <1>5, <1>6, <1>7, <1>8, <1>9 DEF CallStep, p, h

LEMMA PostOutcome ==
  ASSUME TypeOK, NEW c \in Callers, NEW p \in Priorities, NEW h \in Hints, Post(c, p, h)
  PROVE  /\ OnlyCall(c) /\ call[c].at = "none" /\ call'[c].at = "enqueue"
         /\ call'[c].prio = p /\ call'[c].allowed = (c \in Allowed(p)) /\ Allowed(p) # {}
         /\ IF c \in Outside THEN phase = "up" /\ refs' = refs + 1
            ELSE pc[c] = "run" /\ refs' = refs
         /\ posted' \in 0..MaxPosts
         /\ UNCHANGED <<deque, inbox, ingest, buffered, working, spinning>>
         /\ UNCHANGED <<pc, step, fresh, prio, spinCount>>
         /\ UNCHANGED <<range, stopped, phase, signalled, fallback>>
<1> DEFINE new == [NoCall EXCEPT !.at = "enqueue", !.prio = p, !.hint = h, !.post = TRUE,
                                 !.allowed = c \in Allowed(p)]
<1>1. call \in [Callers -> Calls] /\ posted \in 0..MaxPosts /\ h \in Int
  BY DEF TypeOK, LifeTypes
<1>2. /\ new \in Calls /\ new.at = "enqueue" /\ new.prio = p
      /\ new.allowed = (c \in Allowed(p))
  <2>1. ASSUME NEW b \in BOOLEAN
        PROVE  LET r == [NoCall EXCEPT !.at = "enqueue", !.prio = p, !.hint = h,
                                       !.post = TRUE, !.allowed = b]
               IN r \in Calls /\ r.at = "enqueue" /\ r.prio = p /\ r.allowed = b
    BY <1>1, NoCallType DEF Calls, Points
  <2>2. CASE c \in Allowed(p)
    <3>1. (c \in Allowed(p)) = TRUE
      BY <2>2
    <3> QED BY <2>1, <3>1
  <2>3. CASE c \notin Allowed(p)
    <3>1. (c \in Allowed(p)) = FALSE
      BY <2>3
    <3> QED BY <2>1, <3>1
  <2> QED BY <2>2, <2>3
<1>3. call' = [call EXCEPT ![c] = new]
  BY DEF Post
<1> HIDE DEF new
<1>4. OnlyCall(c) /\ call'[c] = new
  BY <1>1, <1>2, <1>3 DEF OnlyCall
<1>5. posted < MaxPosts /\ posted' = posted + 1
  BY DEF Post
<1>6. posted' \in 0..MaxPosts
  BY <1>1, <1>5
<1> QED BY <1>2, <1>4, <1>6 DEF Post, queues, bits, worker

LEMMA ClearSpinningOutcome ==
  ASSUME TypeOK, NEW t \in Threads, ClearSpinning(t)
  PROVE  /\ OnlyCall(t) /\ call'[t].at = "countSpinning" /\ call'[t].prio = prio[t]
         /\ call'[t].allowed = TRUE
<1> DEFINE new == [NoCall EXCEPT !.at = "countSpinning", !.prio = prio[t], !.allowed = TRUE]
<1>1. call \in [Callers -> Calls] /\ prio[t] \in Priorities /\ t \in Callers
  BY DEF TypeOK, WorkerTypes, Callers
<1>2. /\ new \in Calls /\ new.at = "countSpinning" /\ new.prio = prio[t]
      /\ new.allowed = TRUE
  BY <1>1, NoCallType DEF Calls, Points
<1>3. call' = [call EXCEPT ![t] = new]
  BY DEF ClearSpinning
<1> HIDE DEF new
<1> QED BY <1>1, <1>2, <1>3 DEF OnlyCall

\* The steps kept by a worker that runs an item, and by one that has ended.
LEMMA RunningStep ==
  ASSUME NEW t \in Threads, WorkerStep(t)
  PROVE  /\ pc[t] # "dead"
         /\ pc[t] = "run" => ItemEnds(t)
         /\ \A u \in Threads \ {t} : TypeOK => pc'[u] = pc[u] /\ step'[u] = step[u]
              /\ fresh'[u] = fresh[u] /\ prio'[u] = prio[u]
<1> USE DEF worker, Goto, TypeOK, WorkerTypes
<1>1. CASE Top(t)
  BY <1>1 DEF Top, StartLooking
<1>2. CASE PopOwn(t) \/ PullInbox(t) \/ DequeueIngest(t) \/ Steal(t)
  BY <1>2 DEF PopOwn, PullInbox, DequeueIngest, Steal, Found
<1>3. CASE Miss(t)
  <2>1. /\ AfterNothing(t) \/ (step' = [step EXCEPT ![t] = @ + 1] /\ UNCHANGED pc)
        /\ UNCHANGED <<fresh, prio, spinCount>> /\ pc[t] = "look"
    BY <1>3 DEF Miss
  <2> QED BY <2>1 DEF AfterNothing, StartLooking
<1>4. CASE SetWorking(t) \/ ClearSpinning(t)
  BY <1>4 DEF SetWorking, ClearSpinning
<1>5. CASE ItemEnds(t)
  BY <1>5 DEF ItemEnds, StartLooking
<1>6. CASE BecomeSpinning(t) \/ ClearWorking(t) \/ Spin(t) \/ Arm(t)
  BY <1>6 DEF BecomeSpinning, ClearWorking, Spin, Arm
<1>7. CASE Announce(t) \/ StopSpinning(t)
  BY <1>7 DEF Announce, AfterAnnounce, StopSpinning
<1>8. CASE CheckInbox(t) \/ CheckIngest(t) \/ CheckSteal(t) \/ LastCheck(t)
  BY <1>8 DEF CheckInbox, CheckIngest, CheckSteal, LastCheck
<1>9. CASE WakeUp(t) \/ SpinAgain(t) \/ Exit(t)
  BY <1>9 DEF WakeUp, SpinAgain, Exit
<1> QED BY <1>1, <1>2, <1>3, <1>4, <1>5, <1>6, <1>7, <1>8, <1>9 DEF WorkerStep

\* The range of a thread never changes, nor what is defined from the ranges alone.
LEMMA SameRange ==
  ASSUME range' = range
  PROVE  /\ \A t : Serves(t)' = Serves(t) /\ SourceCount(t)' = SourceCount(t)
         /\ \A p : Allowed(p)' = Allowed(p) /\ Sentinel(p)' = Sentinel(p)
         /\ \A h : Mine(h)' = Mine(h)
         /\ \A t, p : OwnIndex(t, p)' = OwnIndex(t, p)
BY DEF Serves, SourceCount, Allowed, Sentinel, Mine, OwnIndex
----------------------------------------------------------------------------
\* What callers know is kept.

LEMMA WorkerKeepsCalls ==
  ASSUME TypeOK, CallInv, BufferedInv, BitsInv, NEW t \in Threads, WorkerStep(t)
  PROVE  CallInv' /\ BufferedInv'
<1>1. range' = range /\ (UNCHANGED call \/ ClearSpinning(t)) /\ buffered' = buffered
  BY WorkerFrame DEF PopOwn, PullInbox, DequeueIngest, Steal
<1>2. ASSUME NEW u \in Threads, call[u].at # "none" PROVE u # t /\ pc'[u] = "run"
  <2>1. pc[u] = "run" /\ u \in Callers
    BY <1>2 DEF CallInv, CallerInv, Callers
  <2>2. u # t
    BY <1>2, <2>1, RunningStep DEF ItemEnds
  <2> QED BY <2>1, <2>2, RunningStep
<1>3. CASE UNCHANGED call
  <2>1. CallInv'
    BY <1>1, <1>2, <1>3, SameRange DEF CallInv, CallerInv
  <2>2. BufferedInv'
    BY <1>1, <1>3, SameRange DEF BufferedInv, Waking
  <2> QED BY <2>1, <2>2
<1>4. CASE ClearSpinning(t)
  <2>1. /\ OnlyCall(t) /\ call'[t].at = "countSpinning" /\ call'[t].prio = prio[t]
        /\ call'[t].allowed = TRUE
    BY <1>4, ClearSpinningOutcome
  <2>2. t \in Allowed(prio[t]) /\ pc'[t] = "run" /\ pc[t] = "clearSpinning"
    BY <1>4 DEF ClearSpinning, BitsInv, ThreadBits, Allowed, Goto, TypeOK, WorkerTypes
  <2>3. call[t].at = "none"
    BY <2>2 DEF CallInv, CallerInv, Callers
  <2>4. CallInv'
    <3> SUFFICES ASSUME NEW c \in Callers PROVE CallerInv(c)'
      BY DEF CallInv
    <3>1. CASE c = t
      BY <1>1, <2>1, <2>2, <3>1, SameRange DEF CallerInv, Deciding
    <3>2. CASE c # t
      <4>1. call'[c] = call[c]
        BY <2>1, <3>2 DEF OnlyCall
      <4> QED BY <1>1, <1>2, <4>1, SameRange DEF CallInv, CallerInv
    <3> QED BY <3>1, <3>2
  <2>5. BufferedInv'
    <3>1. ASSUME NEW e \in buffered PROVE call'[e[1]] = call[e[1]]
      <4>1. e[1] \in Callers
        BY DEF TypeOK, QueueTypes
      <4>2. call[e[1]].at # "none"
        BY DEF BufferedInv, Waking
      <4> QED BY <2>1, <2>3, <4>1, <4>2 DEF OnlyCall
    <3> QED BY <1>1, <3>1, SameRange DEF BufferedInv, Waking
  <2> QED BY <2>4, <2>5
<1> QED BY <1>1, <1>3, <1>4

LEMMA CallsKeepCalls ==
  ASSUME TypeOK, CallInv, BufferedInv, NEW c \in Callers, CallStep(c)
  PROVE  CallInv' /\ BufferedInv'
<1> DEFINE p == call[c].prio
           h == call[c].hint
<1>1. /\ range' = range /\ pc' = pc /\ OnlyCall(c)
      /\ buffered' = buffered \/ Enqueue(c) \/ Drain(c)
  BY CallFrame, CallOutcome
<1>2. CallerInv(c) /\ (\A d \in Callers : CallerInv(d))
  BY DEF CallInv
<1>3. p \in Priorities /\ call[c] \in Calls
  BY DEF TypeOK, Calls
<1>4. ASSUME NEW d \in Callers, d # c PROVE CallerInv(d)'
  <2>1. call'[d] = call[d]
    BY <1>1, <1>4 DEF OnlyCall
  <2> QED BY <1>1, <1>2, <2>1, SameRange DEF CallerInv
<1>5. CallerInv(c)'
  <2> USE SameRange, <1>1, <1>2 DEF CallerInv, Moved, Left, Woke, Deciding
  <2>1. CASE call' = call
    BY <2>1
  <2>2. CASE Left(c) \/ call'[c].at = "none"
    <3>1. c \in Threads => c \notin Outside
      OBVIOUS
    <3> QED BY <2>2, <3>1, CallOutcome
  <2>3. CASE \E t \in Threads : Woke(c, t)
    <3>1. call' = call \/ call[c].at # "none"
      BY CallOutcome, EnqueueOutcome
    <3> QED BY <2>1, <2>3, <3>1
  <2>4. CASE Enqueue(c) /\ ~Left(c)
    <3>1. /\ call[c].at = "enqueue"
          /\ IF HintTaken(p, h) THEN Moved(c, "hint") ELSE Moved(c, "countSpinning")
      BY <2>4, EnqueueOutcome
    <3> QED BY <3>1 DEF HintTaken
  <2>5. CASE \/ call[c].at = "countSpinning" /\ Moved(c, "decide")
             \/ call[c].at = "decide" /\ ~call[c].allowed /\ Moved(c, "fallback")
             \/ call[c].at = "fallback" /\ Moved(c, "claim")
    BY <2>5
  <2>6. \A q : Allowed(q) \subseteq Threads
    BY DEF Allowed
  <2>7. call[c].at = "claim" => Sentinel(p) \in Threads
    BY <2>6, SentinelServes
  <2> QED BY <2>1, <2>2, <2>3, <2>4, <2>5, <2>6, <2>7, CallOutcome
<1>6. BufferedInv'
  <2> SUFFICES ASSUME NEW e \in buffered'
               PROVE  \/ /\ call'[e[1]].at \in {"countSpinning", "decide", "fallback"}
                         /\ call'[e[1]].prio = e[2] /\ ~call'[e[1]].allowed
                      \/ call'[e[1]].at = "signal" /\ call'[e[1]].slot \in Allowed(e[2])
    BY <1>1, SameRange DEF BufferedInv, Waking
  <2>1. e \notin buffered =>
           /\ Enqueue(c) /\ e[1] = c /\ e[2] = p /\ call[c].at = "enqueue"
           /\ ~HintTaken(p, h) /\ ~call[c].allowed
    BY <1>1 DEF Enqueue, Drain
  <2>2. CASE e \notin buffered
    <3>1. Moved(c, "countSpinning")
      BY <2>1, <2>2, EnqueueOutcome
    <3> QED BY <2>1, <2>2, <3>1 DEF Moved
  <2>3. CASE e \in buffered /\ e[1] # c
    <3>1. call'[e[1]] = call[e[1]]
      <4>1. e[1] \in Callers
        BY <2>3 DEF TypeOK, QueueTypes
      <4> QED BY <1>1, <2>3, <4>1 DEF OnlyCall
    <3> QED BY <2>3, <3>1 DEF BufferedInv, Waking
  <2>4. CASE e \in buffered /\ e[1] = c
    <3>1. \/ /\ call[c].at \in {"countSpinning", "decide", "fallback"}
             /\ p = e[2] /\ ~call[c].allowed
          \/ call[c].at = "signal" /\ call[c].slot \in Allowed(e[2])
      BY <2>4 DEF BufferedInv, Waking
    <3>2. ~Drained(c) /\ ~Enqueue(c)
      BY <2>4 DEF Drained, Enqueue
    <3>3. \/ call' = call
          \/ Moved(c, "decide")
          \/ Moved(c, "fallback") \/ (call[c].at = "decide" /\ \E t \in Allowed(p) : Woke(c, t))
      BY <3>1, <3>2, CallOutcome
    <3>4. CASE call' = call
      BY <2>4, <3>1, <3>4
    <3>5. CASE Moved(c, "decide") \/ Moved(c, "fallback")
      BY <2>4, <3>1, <3>2, <3>5, CallOutcome DEF Moved, Woke, Left
    <3>6. CASE call[c].at = "decide" /\ \E t \in Allowed(p) : Woke(c, t)
      BY <2>4, <3>1, <3>6 DEF Woke
    <3> QED BY <3>3, <3>4, <3>5, <3>6
  <2> QED BY <2>2, <2>3, <2>4
<1> QED BY <1>4, <1>5, <1>6 DEF CallInv

LEMMA PostKeepsCalls ==
  ASSUME TypeOK, CallInv, BufferedInv,
         NEW c \in Callers, NEW p \in Priorities, NEW h \in Hints, Post(c, p, h)
  PROVE  CallInv' /\ BufferedInv'
<1>1. /\ range' = range /\ pc' = pc /\ buffered' = buffered
      /\ OnlyCall(c) /\ call[c].at = "none" /\ call'[c].at = "enqueue"
      /\ call'[c].prio = p /\ call'[c].allowed = (c \in Allowed(p)) /\ Allowed(p) # {}
      /\ c \notin Outside => pc[c] = "run"
  BY PostOutcome
<1>2. CallInv'
  <2>1. ASSUME NEW d \in Callers, d # c PROVE CallerInv(d)'
    <3>1. call'[d] = call[d]
      BY <1>1, <2>1 DEF OnlyCall
    <3> QED BY <1>1, <3>1, SameRange DEF CallInv, CallerInv
  <2>2. CallerInv(c)'
    <3>1. c \in Threads => c \notin Outside
      OBVIOUS
    <3> QED BY <1>1, <3>1, SameRange DEF CallerInv, Deciding
  <2> QED BY <2>1, <2>2 DEF CallInv
<1>3. BufferedInv'
  <2>1. ASSUME NEW e \in buffered PROVE call'[e[1]] = call[e[1]]
    <3>1. e[1] \in Callers
      BY DEF TypeOK, QueueTypes
    <3>2. call[e[1]].at # "none"
      BY DEF BufferedInv, Waking
    <3> QED BY <1>1, <3>1, <3>2 DEF OnlyCall
  <2> QED BY <1>1, <2>1, SameRange DEF BufferedInv, Waking
<1> QED BY <1>2, <1>3

\* A worker only takes out of the queues.
LEMMA WorkerTakes ==
  ASSUME TypeOK, StepInv, NEW t \in Threads, WorkerStep(t)
  PROVE  /\ \A u \in Threads, p \in Priorities : deque'[u][p] > 0 => deque[u][p] > 0
         /\ \A p \in Priorities : ingest'[p] > 0 => ingest[p] > 0
         /\ \A u \in Threads : inbox'[range[u]] # <<>> => inbox[range[u]] # <<>>
<1>1. InboxTypes /\ QueueTypes
  BY DEF TypeOK
<1>2. pc[t] = "look" => Source(t)[2] \in Priorities
  BY SourceFacts, RangeType
<1>3. CASE UNCHANGED <<deque, inbox, ingest, buffered>>
  BY <1>3
<1>4. CASE PopOwn(t) \/ Steal(t)
  <2>1. PICK u \in Threads, q \in Priorities : deque' = [deque EXCEPT ![u][q] = @ - 1]
    BY <1>2, <1>4 DEF PopOwn, Steal, Allowed
  <2>2. UNCHANGED <<inbox, ingest>>
    BY <1>4 DEF PopOwn, Steal
  <2> QED BY <1>1, <2>1, <2>2 DEF QueueTypes
<1>5. CASE DequeueIngest(t)
  BY <1>1, <1>2, <1>5 DEF DequeueIngest, QueueTypes
<1>6. CASE PullInbox(t)
  BY <1>1, <1>6 DEF PullInbox, InboxTypes
<1> QED BY <1>3, <1>4, <1>5, <1>6, WorkerFrame
----------------------------------------------------------------------------
\* The bits, the index and the deques of a thread.

\* A thread changes its own bits only and takes from the deques of others.
LEMMA OtherThreads ==
  ASSUME TypeOK, StepInv, NEW t \in Threads, WorkerStep(t), NEW u \in Threads \ {t}
  PROVE  /\ u \in working' <=> u \in working
         /\ u \in spinning' <=> u \in spinning
         /\ u \in signalled' <=> u \in signalled
         /\ \A p \in Priorities : deque'[u][p] > 0 => deque[u][p] > 0
<1>1. u \in working' <=> u \in working
  BY WorkerFrame DEF SetWorking, ClearWorking, Exit
<1>2. u \in spinning' <=> u \in spinning
  BY WorkerFrame DEF ClearSpinning, BecomeSpinning, StopSpinning, SpinAgain
<1>3. u \in signalled' <=> u \in signalled
  BY WorkerFrame DEF Top, Arm
<1>4. ASSUME NEW p \in Priorities, deque'[u][p] > 0 PROVE deque[u][p] > 0
  BY <1>4, WorkerTakes
<1> QED BY <1>1, <1>2, <1>3, <1>4

\* The step of a thread keeps what is known of its own bits and of its index.
LEMMA OwnBits ==
  ASSUME TypeOK, StepInv, BitsInv, NEW t \in Threads, WorkerStep(t)
  PROVE  ThreadBits(t)' /\ ThreadStep(t)'
<1> USE DEF ThreadBits, ThreadStep, Goto, WorkerTypes
<1>1. WorkerTypes /\ ThreadBits(t) /\ ThreadStep(t)
  BY DEF TypeOK, BitsInv, StepInv
<1>2. Serves(t)' = Serves(t) /\ SourceCount(t)' = SourceCount(t)
  BY WorkerFrame, SameRange
<1>3. /\ range[t][1] \in Nat /\ range[t][2] \in Nat /\ range[t][1] <= range[t][2]
      /\ range[t][1] \in Serves(t) /\ 1 \in 1..SourceCount(t)
  BY RangeType DEF Serves, SourceCount
<1>4. ASSUME NEW x \in Serves(t), x # range[t][2] PROVE x + 1 \in Serves(t)
  BY <1>3, <1>4 DEF Serves
<1>5. /\ pc[t] = "look" => Source(t)[2] \in Serves(t)
      /\ inbox[range[t]] # <<>> => Head(inbox[range[t]]) \in Serves(t)
  BY SourceFacts, HeadTailFacts DEF TypeOK, InboxTypes
<1>6. CASE Top(t)
  BY <1>1, <1>2, <1>3, <1>6 DEF Top, StartLooking, bits
<1>7. CASE PopOwn(t)
  BY <1>1, <1>2, <1>5, <1>7 DEF PopOwn, Found, bits
<1>8. CASE PullInbox(t)
  BY <1>1, <1>2, <1>5, <1>8 DEF PullInbox, Found, bits
<1>9. CASE DequeueIngest(t)
  BY <1>1, <1>2, <1>5, <1>9 DEF DequeueIngest, Found, bits
<1>10. CASE Steal(t)
  BY <1>1, <1>2, <1>5, <1>10 DEF Steal, Found, bits
<1>11. CASE Miss(t)
  <2>1. /\ IF step[t] = SourceCount(t) THEN AfterNothing(t)
           ELSE step' = [step EXCEPT ![t] = @ + 1] /\ UNCHANGED pc
        /\ UNCHANGED <<fresh, prio, working, spinning>> /\ pc[t] = "look"
    BY <1>11 DEF Miss, bits
  <2>2. CASE step[t] = SourceCount(t)
    BY <1>1, <1>2, <1>3, <2>1, <2>2 DEF AfterNothing, StartLooking
  <2>3. CASE step[t] # SourceCount(t)
    <3>1. SourceCount(t) \in Nat
      BY <1>3 DEF SourceCount
    <3> QED BY <1>1, <1>2, <2>1, <2>3, <3>1
  <2> QED BY <2>2, <2>3
<1>12. CASE SetWorking(t)
  BY <1>1, <1>2, <1>12 DEF SetWorking
<1>13. CASE ClearSpinning(t)
  BY <1>1, <1>2, <1>13 DEF ClearSpinning
<1>14. CASE ItemEnds(t)
  BY <1>1, <1>2, <1>3, <1>14 DEF ItemEnds, StartLooking, bits
<1>15. CASE BecomeSpinning(t)
  BY <1>1, <1>2, <1>15 DEF BecomeSpinning
<1>16. CASE ClearWorking(t)
  BY <1>1, <1>2, <1>16 DEF ClearWorking
<1>17. CASE Spin(t)
  BY <1>1, <1>2, <1>17 DEF Spin, bits
<1>18. CASE Arm(t)
  BY <1>1, <1>2, <1>3, <1>18 DEF Arm, bits
<1>19. CASE Announce(t)
  BY <1>1, <1>2, <1>4, <1>19 DEF Announce, AfterAnnounce, bits
<1>20. CASE StopSpinning(t)
  BY <1>1, <1>2, <1>20 DEF StopSpinning
<1>21. CASE CheckInbox(t)
  BY <1>1, <1>2, <1>3, <1>21 DEF CheckInbox, bits
<1>22. CASE CheckIngest(t)
  BY <1>1, <1>2, <1>22 DEF CheckIngest, bits
<1>23. CASE CheckSteal(t)
  BY <1>1, <1>2, <1>4, <1>23 DEF CheckSteal, bits
<1>24. CASE LastCheck(t)
  BY <1>1, <1>2, <1>24 DEF LastCheck, bits
<1>25. CASE WakeUp(t)
  BY <1>1, <1>2, <1>25 DEF WakeUp, bits
<1>26. CASE SpinAgain(t)
  BY <1>1, <1>2, <1>26 DEF SpinAgain
<1>27. CASE Exit(t)
  BY <1>1, <1>2, <1>27 DEF Exit
<1> QED BY <1>6, <1>7, <1>8, <1>9, <1>10, <1>11, <1>12, <1>13, <1>14, <1>15, <1>16,
           <1>17, <1>18, <1>19, <1>20, <1>21, <1>22, <1>23, <1>24, <1>25, <1>26, <1>27
        DEF WorkerStep

\* A thread that stops looking has tried each of its deques, and found it empty.
LEMMA OwnDequeKept ==
  ASSUME TypeOK, StepInv, DequeInv, NEW t \in Threads, WorkerStep(t)
  PROVE  OwnDeque(t)'
<1> DEFINE With == {"look", "setWorking", "clearSpinning", "run", "exit", "dead"}
<1>1. WorkerTypes /\ range' = range
  BY WorkerFrame DEF TypeOK
<1> SUFFICES ASSUME NEW p \in Priorities, deque'[t][p] > 0
             PROVE  /\ t \in Allowed(p) /\ pc'[t] \in With
                    /\ pc'[t] = "look" => step'[t] <= OwnIndex(t, p)
  BY <1>1, SameRange DEF OwnDeque
<1>2. /\ deque[t][p] > 0 /\ t \in Allowed(p) /\ pc[t] \in With
      /\ pc[t] = "look" => step[t] <= OwnIndex(t, p)
  BY WorkerTakes DEF DequeInv, OwnDeque
<1>3. p \in Serves(t) /\ OwnIndex(t, p) \in 1..(SourceCount(t) - 1)
  <2>1. p \in Serves(t) /\ p \in range[t][1]..range[t][2]
    BY <1>2 DEF Allowed, Serves
  <2> QED BY <2>1, RangeType DEF OwnIndex, SourceCount
<1> USE DEF Goto, WorkerTypes
<1>4. CASE pc[t] = "look"
  <2>1. \/ PopOwn(t) \/ PullInbox(t) \/ DequeueIngest(t) \/ Steal(t) \/ Miss(t)
    BY <1>4 DEF WorkerStep, Top, SetWorking, ClearSpinning, ItemEnds, BecomeSpinning,
       ClearWorking, Spin, Arm, Announce, StopSpinning, CheckInbox, CheckIngest, CheckSteal,
       LastCheck, WakeUp, SpinAgain, Exit
  <2>2. CASE PopOwn(t) \/ PullInbox(t) \/ DequeueIngest(t) \/ Steal(t)
    <3>1. pc'[t] \in {"setWorking", "run"}
      BY <1>1, <2>2 DEF PopOwn, PullInbox, DequeueIngest, Steal, Found
    <3> QED BY <1>2, <3>1
  <2>3. CASE Miss(t)
    <3>1. /\ step[t] # SourceCount(t) => step' = [step EXCEPT ![t] = @ + 1]
          /\ step[t] # SourceCount(t) => UNCHANGED pc
          /\ Source(t)[1] = "deque" => deque[t][Source(t)[2]] = 0
      BY <2>3 DEF Miss
    <3>2. step[t] # OwnIndex(t, p)
      <4>1. SUFFICES ASSUME step[t] = OwnIndex(t, p) PROVE FALSE
        OBVIOUS
      <4>2. Source(t) = <<"deque", p>>
        BY <1>3, <1>4, <4>1, SourceFacts
      <4> QED BY <1>2, <3>1, <4>2
    <3>3. step[t] < OwnIndex(t, p) /\ step[t] # SourceCount(t)
      <4>1. step[t] \in Nat /\ SourceCount(t) \in Int /\ OwnIndex(t, p) \in Int
        BY <1>1, <1>3, RangeType DEF SourceCount
      <4> QED BY <1>2, <1>3, <1>4, <3>2, <4>1
    <3> QED BY <1>1, <1>2, <1>3, <1>4, <3>1, <3>3
  <2> QED BY <2>1, <2>2, <2>3
<1>5. CASE pc[t] # "look"
  <2>1. SetWorking(t) \/ ClearSpinning(t) \/ ItemEnds(t) \/ Exit(t)
    BY <1>2, <1>5 DEF WorkerStep, Top, PopOwn, PullInbox, DequeueIngest, Steal, Miss,
       BecomeSpinning, ClearWorking, Spin, Arm, Announce, StopSpinning, CheckInbox,
       CheckIngest, CheckSteal, LastCheck, WakeUp, SpinAgain
  <2>2. CASE SetWorking(t) \/ ClearSpinning(t) \/ Exit(t)
    BY <1>1, <1>2, <2>2 DEF SetWorking, ClearSpinning, Exit
  <2>3. CASE ItemEnds(t)
    BY <1>1, <1>2, <1>3, <2>3 DEF ItemEnds, StartLooking
  <2> QED BY <2>1, <2>2, <2>3
<1> QED BY <1>4, <1>5

LEMMA WorkerKeepsThreads ==
  ASSUME TypeOK, StepInv, BitsInv, DequeInv, NEW t \in Threads, WorkerStep(t)
  PROVE  BitsInv' /\ StepInv' /\ DequeInv'
<1>1. ASSUME NEW u \in Threads, u # t
      PROVE  ThreadBits(u)' /\ ThreadStep(u)' /\ OwnDeque(u)'
  <2>1. /\ pc'[u] = pc[u] /\ step'[u] = step[u] /\ fresh'[u] = fresh[u]
        /\ prio'[u] = prio[u] /\ range' = range
    BY <1>1, RunningStep, WorkerFrame
  <2>2. ThreadBits(u)'
    BY <1>1, <2>1, OtherThreads, SameRange DEF BitsInv, ThreadBits
  <2>3. ThreadStep(u)'
    BY <2>1, SameRange DEF StepInv, ThreadStep
  <2>4. OwnDeque(u)'
    <3>1. \A p \in Priorities : deque'[u][p] > 0 => deque[u][p] > 0
      BY <1>1, OtherThreads
    <3> QED BY <2>1, <3>1, SameRange DEF DequeInv, OwnDeque
  <2> QED BY <2>2, <2>3, <2>4
<1> QED BY <1>1, OwnBits, OwnDequeKept DEF BitsInv, StepInv, DequeInv

\* A call fills its worker's own deque only, while the worker runs an item.
LEMMA CallKeepsThreads ==
  ASSUME TypeOK, CallInv, StepInv, BitsInv, DequeInv, NEW c \in Callers, CallStep(c)
  PROVE  BitsInv' /\ StepInv' /\ DequeInv'
<1>1. /\ UNCHANGED <<range, working, spinning, pc, step, fresh, prio>>
      /\ UNCHANGED deque \/ Enqueue(c)
  BY CallFrame
<1>2. BitsInv' /\ StepInv'
  BY <1>1, SameRange DEF BitsInv, ThreadBits, StepInv, ThreadStep
<1>3. CASE UNCHANGED deque
  BY <1>1, <1>2, <1>3, SameRange DEF DequeInv, OwnDeque
<1>4. CASE Enqueue(c) /\ ~UNCHANGED deque
  <2> DEFINE q == call[c].prio
  <2>1. call[c].allowed /\ deque' = [deque EXCEPT ![c][q] = @ + 1] /\ call[c].at = "enqueue"
    BY <1>4 DEF Enqueue
  <2>2. c \in Allowed(q) /\ c \in Threads
    BY <2>1 DEF CallInv, CallerInv, Allowed
  <2>3. pc[c] = "run"
    BY <2>1, <2>2 DEF CallInv, CallerInv
  <2>4. ASSUME NEW u \in Threads, NEW p \in Priorities, deque'[u][p] > 0
        PROVE  deque[u][p] > 0 \/ (u = c /\ p = q)
    BY <2>1, <2>2, <2>4 DEF TypeOK, QueueTypes
  <2> QED BY <1>1, <1>2, <2>2, <2>3, <2>4, SameRange DEF DequeInv, OwnDeque
<1> QED BY <1>1, <1>3, <1>4
----------------------------------------------------------------------------
\* What a step of a worker means for somebody who counts on it.

\* A thread comes to have announced a priority by announcing it, and to have passed
\* a queue by finding it empty; it is not signalled any more only when it is neither.
LEMMA FallingAsleep ==
  ASSUME TypeOK, StepInv, NEW t \in Threads, WorkerStep(t), NEW p \in Serves(t)
  PROVE  /\ Announced(t, p)' =>
              \/ Announced(t, p) /\ UNCHANGED signalled /\ fallback'[p] = fallback[p]
              \/ Sentinel(p) = t => fallback'[p] = "wait"
         /\ PassedIngest(t, p)' =>
              \/ PassedIngest(t, p) /\ UNCHANGED signalled
              \/ ingest[p] = 0
         /\ PassedInbox(t)' =>
              \/ PassedInbox(t) /\ UNCHANGED signalled
              \/ inbox[range[t]] = <<>>
<1> DEFINE Asleep == {"announce", "unspin", "checkInbox", "checkIngest", "checkSteal",
                      "lastCheck", "sleep"}
<1> USE DEF Goto, WorkerTypes
<1>1. WorkerTypes /\ fallback \in [Priorities -> {"none", "wait", "wake"}]
      /\ p \in Priorities /\ p \in Nat
  BY RangeType DEF TypeOK
<1>2. /\ range[t][1] \in Nat /\ range[t][2] \in Nat
      /\ range[t][1] <= p /\ p <= range[t][2]
  BY RangeType DEF Serves
<1>3. CASE pc'[t] \notin Asleep
  BY <1>3 DEF Announced, PassedIngest, PassedInbox
<1>4. pc'[t] \in Asleep =>
        \/ Arm(t) \/ Announce(t) \/ StopSpinning(t) \/ CheckInbox(t) \/ CheckIngest(t)
        \/ CheckSteal(t) \/ LastCheck(t)
  <2>1. CASE Top(t) \/ ItemEnds(t)
    BY <1>1, <2>1 DEF Top, ItemEnds, StartLooking
  <2>2. CASE PopOwn(t) \/ PullInbox(t) \/ DequeueIngest(t) \/ Steal(t)
    BY <1>1, <2>2 DEF PopOwn, PullInbox, DequeueIngest, Steal, Found
  <2>3. CASE Miss(t)
    <3>1. pc[t] = "look" /\ (UNCHANGED pc \/ AfterNothing(t))
      BY <2>3 DEF Miss
    <3> QED BY <1>1, <3>1 DEF AfterNothing, StartLooking
  <2>4. CASE SetWorking(t) \/ ClearSpinning(t)
    BY <1>1, <2>4 DEF SetWorking, ClearSpinning
  <2>5. CASE BecomeSpinning(t) \/ ClearWorking(t) \/ Spin(t)
    BY <1>1, <2>5 DEF BecomeSpinning, ClearWorking, Spin
  <2>6. CASE WakeUp(t) \/ SpinAgain(t) \/ Exit(t)
    BY <1>1, <2>6 DEF WakeUp, SpinAgain, Exit
  <2> QED BY <2>1, <2>2, <2>3, <2>4, <2>5, <2>6 DEF WorkerStep
<1>5. CASE Arm(t)
  BY <1>1, <1>2, <1>5 DEF Arm, Announced, PassedIngest, PassedInbox
<1>6. CASE Announce(t)
  <2>1. step[t] \in Nat /\ pc[t] = "announce" /\ step[t] \in Priorities
    BY <1>1, <1>6, RangeType DEF Announce, StepInv, ThreadStep
  <2>2. CASE Sentinel(step[t]) = t
    BY <1>1, <1>2, <1>6, <2>1, <2>2
       DEF Announce, AfterAnnounce, Announced, PassedIngest, PassedInbox
  <2>3. CASE Sentinel(step[t]) # t
    BY <1>1, <1>2, <1>6, <2>1, <2>3
       DEF Announce, AfterAnnounce, Announced, PassedIngest, PassedInbox
  <2> QED BY <2>2, <2>3
<1>7. CASE StopSpinning(t)
  BY <1>1, <1>2, <1>7 DEF StopSpinning, Announced, PassedIngest, PassedInbox
<1>8. CASE CheckInbox(t)
  BY <1>1, <1>2, <1>8 DEF CheckInbox, InboxFilled, Announced, PassedIngest, PassedInbox
<1>9. CASE CheckIngest(t)
  <2>1. step[t] \in Nat /\ pc[t] = "checkIngest" /\ step[t] \in Priorities
    BY <1>1, <1>9, RangeType DEF CheckIngest, StepInv, ThreadStep
  <2>2. ingest[step[t]] \in Nat /\ ingest[p] \in Nat
    BY <1>1, <2>1 DEF TypeOK, QueueTypes
  <2> QED BY <1>1, <1>2, <1>9, <2>1, <2>2
          DEF CheckIngest, IngestFilled, Announced, PassedIngest, PassedInbox
<1>10. CASE CheckSteal(t)
  <2>1. step[t] \in Nat /\ pc[t] = "checkSteal" /\ UNCHANGED <<signalled, fallback>>
    BY <1>1, <1>10 DEF CheckSteal
  <2>2. CASE pc'[t] = "lastCheck"
    <3>1. step[t] = range[t][2]
      BY <1>1, <1>10, <2>2 DEF CheckSteal
    <3> QED BY <1>2, <2>1, <2>2, <3>1 DEF Announced, PassedIngest, PassedInbox
  <2>3. CASE pc'[t] = "checkIngest"
    <3>1. step'[t] = step[t] + 1
      BY <1>1, <1>10, <2>3 DEF CheckSteal
    <3> QED BY <1>1, <2>1, <2>3, <3>1 DEF Announced, PassedIngest, PassedInbox
  <2>4. pc'[t] \in {"top", "lastCheck", "checkIngest"}
    BY <1>1, <1>10 DEF CheckSteal
  <2> QED BY <1>3, <2>2, <2>3, <2>4
<1>11. CASE LastCheck(t)
  BY <1>1, <1>2, <1>11 DEF LastCheck, Announced, PassedIngest, PassedInbox
<1> QED BY <1>3, <1>4, <1>5, <1>6, <1>7, <1>8, <1>9, <1>10, <1>11

\* The announcements after a step, of the sentinels before it.
LEMMA FallbackNext ==
  ASSUME range' = range,
         \A p \in Priorities : Allowed(p) # {} => Sentinel(p) \in Threads,
         \A p \in Priorities, s \in Threads :
           s = Sentinel(p) /\ Allowed(p) # {} /\ Announced(s, p)' =>
             \/ fallback'[p] = "wait"
             \/ /\ fallback'[p] = "wake"
                /\ \/ s \in signalled'
                   \/ \E c \in Callers : call'[c].at = "signal" /\ call'[c].slot = s
  PROVE  FallbackInv'
<1> SUFFICES ASSUME NEW p \in Priorities,
                    (Allowed(p) # {})', Announced(Sentinel(p), p)'
             PROVE  \/ fallback'[p] = "wait"
                    \/ /\ fallback'[p] = "wake"
                       /\ \/ Sentinel(p)' \in signalled'
                          \/ \E c \in Callers : Waking(c, {Sentinel(p)})'
  BY DEF FallbackInv
<1>1. PICK s \in Threads : s = Sentinel(p)
  BY SameRange
<1>2. Sentinel(p)' = s /\ Allowed(p) # {}
  BY <1>1, SameRange
<1>3. Announced(s, p)'
  BY <1>2 DEF Announced
<1> QED BY <1>1, <1>2, <1>3 DEF Waking

\* Nobody who was woken, or who counts as awake, is lost by the step of a worker.
LEMMA WorkerKeepsWakeups ==
  ASSUME TypeOK, CallInv, StepInv, BitsInv, FallbackInv, IngestInv, InboxInv,
         NEW t \in Threads, WorkerStep(t)
  PROVE  FallbackInv' /\ IngestInv' /\ InboxInv'
<1>1. /\ range' = range /\ (UNCHANGED call \/ ClearSpinning(t))
      /\ UNCHANGED fallback \/ Top(t) \/ Announce(t)
  BY WorkerFrame
<1>2. ASSUME NEW c \in Callers, call[c].at # "none"
      PROVE  call'[c] = call[c]
  <2>1. CASE ClearSpinning(t)
    <3>1. pc[t] # "run" /\ t \in Callers
      BY <2>1 DEF ClearSpinning, Callers
    <3>2. c # t
      BY <1>2, <3>1 DEF CallInv, CallerInv
    <3> QED BY <2>1, <3>2, ClearSpinningOutcome DEF OnlyCall
  <2> QED BY <1>1, <2>1
<1>3. ASSUME NEW u \in Threads, u # t, NEW p
      PROVE  /\ Announced(u, p)' = Announced(u, p) /\ PassedInbox(u)' = PassedInbox(u)
             /\ PassedIngest(u, p)' = PassedIngest(u, p)
             /\ u \in signalled' <=> u \in signalled
  BY <1>3, RunningStep, OtherThreads DEF Announced, PassedIngest, PassedInbox
<1>4. FallbackInv'
  <2> SUFFICES ASSUME NEW p \in Priorities, NEW s \in Threads, s = Sentinel(p),
                      Allowed(p) # {}, p \in Serves(s), Announced(s, p)'
               PROVE  \/ fallback'[p] = "wait"
                      \/ /\ fallback'[p] = "wake"
                         /\ \/ s \in signalled'
                            \/ \E c \in Callers : call'[c].at = "signal" /\ call'[c].slot = s
    <3>1. \A p \in Priorities : Allowed(p) # {} =>
             Sentinel(p) \in Threads /\ p \in Serves(Sentinel(p))
      BY SentinelServes DEF Allowed
    <3> QED BY <1>1, <3>1, FallbackNext
  <2>1. CASE fallback'[p] = "wait"
    BY <2>1
  <2>2. CASE /\ Announced(s, p) /\ fallback'[p] = fallback[p]
             /\ s \in signalled => s \in signalled'
    <3>1. \/ fallback[p] = "wait"
          \/ /\ fallback[p] = "wake"
             /\ s \in signalled \/ \E c \in Callers : call[c].at = "signal" /\ call[c].slot = s
      BY <2>2 DEF FallbackInv, Waking
    <3> QED BY <1>2, <2>2, <3>1
  <2>3. CASE s = t
    BY <2>1, <2>2, <2>3, FallingAsleep
  <2>4. CASE s # t
    <3>1. fallback'[p] = fallback[p]
      BY <1>1, <2>4 DEF Top, Announce, TypeOK
    <3> QED BY <1>3, <2>2, <2>4, <3>1
  <2> QED BY <2>3, <2>4
<1>5. IngestInv'
  <2> SUFFICES ASSUME NEW p \in Priorities, ingest'[p] > 0
               PROVE  \/ \E u \in Allowed(p) : ~PassedIngest(u, p)' \/ u \in signalled'
                      \/ \E c \in Callers :
                           \/ Waking(c, Allowed(p))'
                           \/ call'[c].at \in Deciding /\ call'[c].prio = p /\ ~call'[c].allowed
    BY <1>1, SameRange DEF IngestInv, IngestCovered, Waking
  <2>1. ingest[p] > 0 /\ ingest[p] # 0
    BY WorkerTakes DEF TypeOK, QueueTypes
  <2>2. CASE \E u \in Allowed(p) : ~PassedIngest(u, p) \/ u \in signalled
    <3>1. PICK u \in Allowed(p) : ~PassedIngest(u, p) \/ u \in signalled
      BY <2>2
    <3>2. u \in Threads /\ p \in Serves(u)
      BY DEF Allowed
    <3> QED BY <1>3, <2>1, <3>1, <3>2, FallingAsleep
  <2>3. CASE \E c \in Callers :
               \/ Waking(c, Allowed(p))
               \/ call[c].at \in Deciding /\ call[c].prio = p /\ ~call[c].allowed
    BY <1>1, <1>2, <2>3, SameRange DEF Waking, Deciding
  <2> QED BY <2>1, <2>2, <2>3 DEF IngestInv, IngestCovered
<1>6. InboxInv'
  <2> SUFFICES ASSUME NEW h \in Threads, inbox'[range[h]] # <<>>
               PROVE  \/ \E u \in Mine(h) : ~PassedInbox(u)' \/ u \in signalled'
                      \/ \E c \in Callers :
                           \/ Waking(c, Mine(h))'
                           \/ call'[c].at = "hint" /\ call'[c].hint \in Mine(h)
    BY <1>1, SameRange DEF InboxInv, InboxCovered, Waking
  <2>1. inbox[range[h]] # <<>>
    BY WorkerTakes
  <2>2. CASE \E u \in Mine(h) : ~PassedInbox(u) \/ u \in signalled
    <3>1. PICK u \in Mine(h) : ~PassedInbox(u) \/ u \in signalled
      BY <2>2
    <3>2. u \in Threads /\ inbox[range[u]] # <<>> /\ range[u][1] \in Serves(u)
      BY <2>1, RangeType DEF Mine, Serves
    <3> QED BY <1>3, <3>1, <3>2, FallingAsleep
  <2>3. CASE \E c \in Callers :
               \/ Waking(c, Mine(h))
               \/ call[c].at = "hint" /\ call[c].hint \in Mine(h)
    BY <1>1, <1>2, <2>3, SameRange DEF Waking
  <2> QED BY <2>1, <2>2, <2>3 DEF InboxInv, InboxCovered
<1> QED BY <1>4, <1>5, <1>6

\* A caller that stops looking leaves somebody behind who looks at what it enqueued.
LEMMA CallKeepsWakeups ==
  ASSUME TypeOK, CallInv, BufferedInv, BitsInv, FallbackInv, IngestInv, InboxInv,
         NEW c \in Callers, CallStep(c)
  PROVE  FallbackInv' /\ IngestInv' /\ InboxInv'
<1> DEFINE p == call[c].prio
           h == call[c].hint
<1>1. /\ UNCHANGED <<range, pc, step, working>> /\ OnlyCall(c) /\ p \in Priorities
      /\ UNCHANGED fallback \/ ClaimFallback(c)
      /\ UNCHANGED signalled \/ Signal(c)
      /\ UNCHANGED ingest \/ Drain(c)
      /\ UNCHANGED inbox \/ Enqueue(c)
  BY CallFrame, CallOutcome DEF TypeOK, Calls
<1>2. ASSUME NEW u, NEW q
      PROVE  /\ Announced(u, q)' = Announced(u, q) /\ PassedInbox(u)' = PassedInbox(u)
             /\ PassedIngest(u, q)' = PassedIngest(u, q)
             /\ u \in signalled => u \in signalled'
  BY <1>1 DEF Announced, PassedIngest, PassedInbox, Signal, AddSignal
<1>3. ASSUME NEW d \in Callers, d # c PROVE call'[d] = call[d]
  BY <1>1, <1>3 DEF OnlyCall
\* A wake that is delivered finds its thread falling asleep, or awake.
<1>4. ASSUME call[c].at = "signal"
      PROVE  \/ call' = call
             \/ LET s == call[c].slot IN
                /\ s \in Threads
                /\ s \in signalled' \/ (\A q : ~PassedIngest(s, q) /\ ~Announced(s, q))
                /\ s \in signalled' \/ ~PassedInbox(s)
  <2>1. call' = call \/ Signal(c)
    BY <1>4, CallOutcome DEF Enqueue, ClaimFallback, Unref
  <2>2. call[c].slot \in Threads
    BY <1>4 DEF CallInv, CallerInv
  <2>3. CASE Signal(c)
    BY <2>2, <2>3 DEF Signal, AddSignal, Armed, PassedIngest, PassedInbox, Announced
  <2> QED BY <2>1, <2>2, <2>3
<1>5. FallbackInv'
  <2> SUFFICES ASSUME NEW q \in Priorities, NEW s \in Threads, s = Sentinel(q),
                      Allowed(q) # {}, Announced(s, q)'
               PROVE  \/ fallback'[q] = "wait"
                      \/ /\ fallback'[q] = "wake"
                         /\ \/ s \in signalled'
                            \/ \E d \in Callers : call'[d].at = "signal" /\ call'[d].slot = s
    <3>1. \A q \in Priorities : Allowed(q) # {} => Sentinel(q) \in Threads
      BY SentinelServes DEF Allowed
    <3> QED BY <1>1, <3>1, FallbackNext
  <2>0. Announced(s, q)
    BY <1>2
  <2>1. CASE fallback[q] = "wait" /\ fallback'[q] # "wait"
    <3>1. /\ ClaimFallback(c) /\ q = p /\ fallback'[q] = "wake" /\ call[c].at = "claim"
      BY <1>1, <2>1 DEF ClaimFallback, TypeOK
    <3>2. Woke(c, s)
      BY <2>1, <3>1, CallOutcome DEF Enqueue, Drain, Signal, Unref, Drained
    <3> QED BY <3>1, <3>2 DEF Woke
  <2>2. CASE fallback[q] = "wake" /\ s \in signalled
    BY <1>1, <1>2, <2>2 DEF ClaimFallback, TypeOK
  <2>3. CASE fallback[q] = "wake" /\ \E d \in Callers : Waking(d, {s})
    <3>1. PICK d \in Callers : Waking(d, {s})
      BY <2>3
    <3>2. fallback'[q] = "wake"
      BY <1>1, <2>3 DEF ClaimFallback, TypeOK
    <3>3. CASE d # c
      BY <1>3, <3>1, <3>2, <3>3 DEF Waking
    <3>4. CASE d = c
      BY <1>4, <2>0, <3>1, <3>2, <3>4 DEF Waking
    <3> QED BY <3>3, <3>4
  <2> QED BY <2>0, <2>1, <2>2, <2>3 DEF FallbackInv
<1>6. ASSUME NEW q \in Priorities
      PROVE  IngestCovered(q) \/ (Drain(c) /\ \E e \in buffered : e[1] = c /\ e[2] = q)
             => IngestCovered(q)'
  <2> SUFFICES ASSUME IngestCovered(q) \/ (Drain(c) /\ \E e \in buffered : e[1] = c /\ e[2] = q)
               PROVE  \/ \E u \in Allowed(q) : ~PassedIngest(u, q) \/ u \in signalled'
                      \/ \E d \in Callers :
                           \/ Waking(d, Allowed(q))'
                           \/ call'[d].at \in Deciding /\ call'[d].prio = q /\ ~call'[d].allowed
    BY <1>1, <1>2, SameRange DEF IngestCovered, Waking
  <2>1. CASE \E u \in Allowed(q) : ~PassedIngest(u, q) \/ u \in signalled
    BY <1>2, <2>1
  <2>2. CASE \E d \in Callers \ {c} :
               \/ Waking(d, Allowed(q))
               \/ call[d].at \in Deciding /\ call[d].prio = q /\ ~call[d].allowed
    BY <1>1, <1>3, <2>2, SameRange DEF Waking
  <2>3. CASE Waking(c, Allowed(q))
    BY <1>1, <1>4, <2>3, SameRange DEF Waking
  <2>4. CASE call[c].at \in Deciding /\ p = q /\ ~call[c].allowed
    <3>1. CASE call'[c].at \in Deciding /\ call'[c].prio = q /\ ~call'[c].allowed
      BY <3>1
    <3>2. CASE \E u \in Allowed(q) : Woke(c, u)
      BY <1>1, <3>2, SameRange DEF Woke, Waking
    <3>3. Allowed(q) # {} /\ Sentinel(q) \in Allowed(q)
      BY <2>4, SentinelServes DEF CallInv, CallerInv
    <3>4. CASE /\ call[c].at \in {"fallback", "claim"} /\ Left(c) /\ fallback[q] # "wait"
      <4>1. \/ ~Announced(Sentinel(q), q)
            \/ Sentinel(q) \in signalled
            \/ \E d \in Callers : Waking(d, {Sentinel(q)})
        BY <3>3, <3>4 DEF FallbackInv
      <4>2. CASE ~Announced(Sentinel(q), q)
        <5>1. ~PassedIngest(Sentinel(q), q)
          BY <4>2 DEF Announced, PassedIngest
        <5> QED BY <3>3, <5>1
      <4>3. CASE Sentinel(q) \in signalled
        BY <1>2, <3>3, <4>3
      <4>4. CASE \E d \in Callers : Waking(d, {Sentinel(q)})
        <5>1. PICK d \in Callers : Waking(d, {Sentinel(q)})
          BY <4>4
        <5>2. d # c
          BY <3>4, <5>1 DEF Waking
        <5>3. Waking(d, Allowed(q))'
          BY <1>1, <1>3, <3>3, <5>1, <5>2, SameRange DEF Waking
        <5> QED BY <5>3
      <4> QED BY <4>1, <4>2, <4>3, <4>4
    <3>5. \/ call' = call
          \/ call[c].at = "countSpinning" /\ Moved(c, "decide")
          \/ call[c].at = "decide" /\ (Moved(c, "fallback") \/ \E t \in Allowed(p) : Woke(c, t))
          \/ /\ call[c].at = "fallback"
             /\ IF fallback[p] = "wait" THEN Moved(c, "claim") ELSE Left(c)
          \/ /\ call[c].at = "claim"
             /\ IF fallback[p] = "wait" THEN Woke(c, Sentinel(p)) ELSE Left(c)
      BY <2>4, CallOutcome DEF Enqueue, Deciding
    <3> QED BY <2>4, <3>1, <3>2, <3>3, <3>4, <3>5 DEF Moved, Deciding
  <2>5. CASE Drain(c) /\ \E e \in buffered : e[1] = c /\ e[2] = q
    <3>1. call' = call
      BY <2>5 DEF Drain
    <3> QED BY <1>1, <2>5, <3>1, SameRange DEF BufferedInv, Waking, Deciding
  <2> QED BY <2>1, <2>2, <2>3, <2>4, <2>5 DEF IngestCovered
<1>7. IngestInv'
  <2> SUFFICES ASSUME NEW q \in Priorities, ingest'[q] > 0 PROVE IngestCovered(q)'
    BY DEF IngestInv
  <2>1. CASE ingest[q] > 0
    BY <1>6, <2>1 DEF IngestInv
  <2>2. CASE ~(ingest[q] > 0)
    <3>1. Drain(c)
      BY <1>1, <2>2
    <3>2. PICK e \in buffered : e[1] = c /\ ingest' = [ingest EXCEPT ![e[2]] = @ + 1]
      BY <3>1 DEF Drain
    <3>3. ingest \in [Priorities -> Nat]
      BY DEF TypeOK, QueueTypes
    <3>4. e[2] = q
      BY <2>2, <3>2, <3>3
    <3> QED BY <1>6, <3>1, <3>2, <3>4
  <2> QED BY <2>1, <2>2
<1>8. InboxInv'
  <2> SUFFICES ASSUME NEW k \in Threads, inbox'[range[k]] # <<>>
               PROVE  \/ \E u \in Mine(k) : ~PassedInbox(u) \/ u \in signalled'
                      \/ \E d \in Callers :
                           \/ Waking(d, Mine(k))'
                           \/ call'[d].at = "hint" /\ call'[d].hint \in Mine(k)
    BY <1>1, <1>2, SameRange DEF InboxInv, InboxCovered, Waking
  <2>1. CASE inbox[range[k]] = <<>>
    <3>1. /\ Enqueue(c) /\ HintTaken(p, h)
          /\ inbox' = [inbox EXCEPT ![range[h]] = Append(@, p)]
      BY <1>1, <2>1 DEF Enqueue
    <3>2. range[k] = range[h] /\ h \in Threads
      <4>1. DOMAIN inbox = {range[u] : u \in Threads}
        BY DEF TypeOK, InboxTypes
      <4> QED BY <2>1, <3>1, <4>1 DEF HintTaken, Allowed
    <3>3. h \in Mine(k)
      BY <3>2 DEF Mine
    <3>4. CASE c = h
      <4>1. pc[c] = "run"
        BY <3>1, <3>2, <3>4 DEF Enqueue, CallInv, CallerInv
      <4> QED BY <3>3, <3>4, <4>1 DEF PassedInbox
    <3>5. CASE c # h
      <4>1. Moved(c, "hint")
        BY <3>1, <3>5, EnqueueOutcome
      <4> QED BY <3>3, <4>1 DEF Moved
    <3> QED BY <3>4, <3>5
  <2>2. CASE \E u \in Mine(k) : ~PassedInbox(u) \/ u \in signalled
    BY <1>2, <2>2
  <2>3. CASE \E d \in Callers \ {c} :
               \/ Waking(d, Mine(k))
               \/ call[d].at = "hint" /\ call[d].hint \in Mine(k)
    BY <1>1, <1>3, <2>3, SameRange DEF Waking
  <2>4. CASE Waking(c, Mine(k))
    BY <1>1, <1>4, <2>4, SameRange DEF Waking
  <2>5. CASE call[c].at = "hint" /\ h \in Mine(k)
    <3>1. call' = call \/ \E t \in Threads : Woke(c, t) /\ (t = h \/ h \in working)
      BY <2>5, CallOutcome DEF Enqueue, ClaimFallback, Signal, Unref
    <3>2. CASE call' = call
      BY <2>5, <3>2
    <3>3. CASE Woke(c, h)
      BY <1>1, <2>5, <3>3, SameRange DEF Woke, Waking
    <3>4. CASE h \in working
      <4>1. h \in Threads
        BY <2>5 DEF Mine
      <4>2. ~PassedInbox(h)
        BY <3>4, <4>1 DEF BitsInv, ThreadBits, PassedInbox
      <4> QED BY <2>5, <4>2
    <3> QED BY <3>1, <3>2, <3>3, <3>4
  <2> QED BY <2>1, <2>2, <2>3, <2>4, <2>5 DEF InboxInv, InboxCovered
<1> QED BY <1>5, <1>7, <1>8
----------------------------------------------------------------------------
\* The beginning of a post, and teardown, touch none of the above.

LEMMA PostKeepsThreads ==
  ASSUME TypeOK, BitsInv, StepInv, DequeInv, FallbackInv, IngestInv, InboxInv,
         NEW c \in Callers, NEW p \in Priorities, NEW h \in Hints, Post(c, p, h)
  PROVE  BitsInv' /\ StepInv' /\ DequeInv' /\ FallbackInv' /\ IngestInv' /\ InboxInv'
<1>1. /\ UNCHANGED <<deque, inbox, ingest, working, spinning, signalled, fallback>>
      /\ UNCHANGED <<range, pc, step, fresh, prio>>
      /\ OnlyCall(c) /\ call[c].at = "none"
  BY PostOutcome
<1>2. ASSUME NEW d \in Callers, call[d].at # "none" PROVE call'[d] = call[d]
  BY <1>1, <1>2 DEF OnlyCall
<1>3. BitsInv' /\ StepInv' /\ DequeInv'
  BY <1>1, SameRange DEF BitsInv, ThreadBits, StepInv, ThreadStep, DequeInv, OwnDeque
<1>4. ASSUME NEW u, NEW q
      PROVE  /\ Announced(u, q)' = Announced(u, q) /\ PassedInbox(u)' = PassedInbox(u)
             /\ PassedIngest(u, q)' = PassedIngest(u, q)
  BY <1>1 DEF Announced, PassedIngest, PassedInbox
<1>5. FallbackInv'
  <2>1. \A q \in Priorities : Allowed(q) # {} => Sentinel(q) \in Threads
    BY SentinelServes DEF Allowed
  <2>2. ASSUME NEW q \in Priorities, NEW s \in Threads,
               s = Sentinel(q), Allowed(q) # {}, Announced(s, q)'
        PROVE  \/ fallback'[q] = "wait"
               \/ /\ fallback'[q] = "wake"
                  /\ \/ s \in signalled'
                     \/ \E d \in Callers : call'[d].at = "signal" /\ call'[d].slot = s
    <3>1. \/ fallback[q] = "wait"
          \/ /\ fallback[q] = "wake"
             /\ s \in signalled \/ \E d \in Callers : call[d].at = "signal" /\ call[d].slot = s
      BY <1>4, <2>2 DEF FallbackInv, Waking
    <3> QED BY <1>1, <1>2, <3>1
  <2> QED BY <1>1, <2>1, <2>2, FallbackNext
<1>6. IngestInv'
  <2> SUFFICES ASSUME NEW q \in Priorities, ingest[q] > 0 PROVE IngestCovered(q)'
    BY <1>1 DEF IngestInv
  <2>1. \/ \E u \in Allowed(q) : ~PassedIngest(u, q) \/ u \in signalled
        \/ \E d \in Callers : \/ Waking(d, Allowed(q))
                              \/ call[d].at \in Deciding /\ call[d].prio = q /\ ~call[d].allowed
    BY DEF IngestInv, IngestCovered
  <2>2. CASE \E u \in Allowed(q) : ~PassedIngest(u, q) \/ u \in signalled
    BY <1>1, <1>4, <2>2, SameRange DEF IngestCovered
  <2>3. CASE \E d \in Callers :
               \/ Waking(d, Allowed(q))
               \/ call[d].at \in Deciding /\ call[d].prio = q /\ ~call[d].allowed
    BY <1>1, <1>2, <2>3, SameRange DEF IngestCovered, Waking, Deciding
  <2> QED BY <2>1, <2>2, <2>3
<1>7. InboxInv'
  <2> SUFFICES ASSUME NEW k \in Threads, inbox[range[k]] # <<>> PROVE InboxCovered(k)'
    BY <1>1 DEF InboxInv
  <2>1. \/ \E u \in Mine(k) : ~PassedInbox(u) \/ u \in signalled
        \/ \E d \in Callers : \/ Waking(d, Mine(k))
                              \/ call[d].at = "hint" /\ call[d].hint \in Mine(k)
    BY DEF InboxInv, InboxCovered
  <2>2. CASE \E u \in Mine(k) : ~PassedInbox(u) \/ u \in signalled
    BY <1>1, <1>4, <2>2, SameRange DEF InboxCovered
  <2>3. CASE \E d \in Callers : \/ Waking(d, Mine(k))
                                \/ call[d].at = "hint" /\ call[d].hint \in Mine(k)
    BY <1>1, <1>2, <2>3, SameRange DEF InboxCovered, Waking
  <2> QED BY <2>1, <2>2, <2>3
<1> QED BY <1>3, <1>5, <1>6, <1>7

\* Teardown may signal a thread, no more.
LEMMA TeardownKeepsThreads ==
  ASSUME TypeOK, CallInv, BufferedInv, BitsInv, StepInv, DequeInv, FallbackInv, IngestInv,
         InboxInv, BeginTeardown \/ TeardownStep
  PROVE  /\ CallInv' /\ BufferedInv' /\ BitsInv' /\ StepInv' /\ DequeInv'
         /\ FallbackInv' /\ IngestInv' /\ InboxInv'
<1>1. /\ UNCHANGED <<deque, inbox, ingest, buffered, working, spinning, fallback, call>>
      /\ UNCHANGED <<range, pc, step, fresh, prio>>
      /\ signalled \subseteq signalled'
  BY TeardownFrame DEF StopWake, AddSignal
<1>2. CallInv' /\ BufferedInv'
  BY <1>1, SameRange DEF CallInv, CallerInv, BufferedInv, Waking
<1>3. BitsInv' /\ StepInv' /\ DequeInv'
  BY <1>1, SameRange DEF BitsInv, ThreadBits, StepInv, ThreadStep, DequeInv, OwnDeque
<1>4. ASSUME NEW u, NEW q
      PROVE  /\ Announced(u, q)' = Announced(u, q) /\ PassedInbox(u)' = PassedInbox(u)
             /\ PassedIngest(u, q)' = PassedIngest(u, q)
  BY <1>1 DEF Announced, PassedIngest, PassedInbox
<1>5. FallbackInv'
  <2>1. \A q \in Priorities : Allowed(q) # {} => Sentinel(q) \in Threads
    BY SentinelServes DEF Allowed
  <2>2. ASSUME NEW q \in Priorities, NEW s \in Threads,
               s = Sentinel(q), Allowed(q) # {}, Announced(s, q)'
        PROVE  \/ fallback'[q] = "wait"
               \/ /\ fallback'[q] = "wake"
                  /\ \/ s \in signalled'
                     \/ \E d \in Callers : call'[d].at = "signal" /\ call'[d].slot = s
    <3>1. \/ fallback[q] = "wait"
          \/ /\ fallback[q] = "wake"
             /\ s \in signalled \/ \E d \in Callers : call[d].at = "signal" /\ call[d].slot = s
      BY <1>4, <2>2 DEF FallbackInv, Waking
    <3> QED BY <1>1, <3>1
  <2> QED BY <1>1, <2>1, <2>2, FallbackNext
<1>6. IngestInv'
  <2> SUFFICES ASSUME NEW q \in Priorities, ingest[q] > 0 PROVE IngestCovered(q)'
    BY <1>1 DEF IngestInv
  <2>1. \/ \E u \in Allowed(q) : ~PassedIngest(u, q) \/ u \in signalled
        \/ \E d \in Callers : \/ Waking(d, Allowed(q))
                              \/ call[d].at \in Deciding /\ call[d].prio = q /\ ~call[d].allowed
    BY DEF IngestInv, IngestCovered
  <2>2. CASE \E u \in Allowed(q) : ~PassedIngest(u, q) \/ u \in signalled
    BY <1>1, <1>4, <2>2, SameRange DEF IngestCovered
  <2>3. CASE \E d \in Callers :
               \/ Waking(d, Allowed(q))
               \/ call[d].at \in Deciding /\ call[d].prio = q /\ ~call[d].allowed
    BY <1>1, <2>3, SameRange DEF IngestCovered, Waking, Deciding
  <2> QED BY <2>1, <2>2, <2>3
<1>7. InboxInv'
  <2> SUFFICES ASSUME NEW k \in Threads, inbox[range[k]] # <<>> PROVE InboxCovered(k)'
    BY <1>1 DEF InboxInv
  <2> QED BY <1>1, <1>4, SameRange DEF InboxInv, InboxCovered, Waking
<1> QED BY <1>2, <1>3, <1>5, <1>6, <1>7
----------------------------------------------------------------------------
\* ref_count and the end of teardown.

LEMMA WorkerKeepsLife ==
  ASSUME TypeOK, LifeInv, NEW t \in Threads, WorkerStep(t)
  PROVE  LifeInv'
<1>1. /\ UNCHANGED <<phase, refs>> /\ (UNCHANGED call \/ ClearSpinning(t)) /\ pc[t] # "dead"
  BY WorkerFrame, RunningStep
<1>2. Inside' = Inside
  <2>1. \A c \in Outside : call'[c] = call[c]
    BY <1>1, ClearSpinningOutcome DEF OnlyCall, Callers
  <2> QED BY <2>1 DEF Inside
<1> QED BY <1>1, <1>2 DEF LifeInv

LEMMA CallKeepsLife ==
  ASSUME TypeOK, CallInv, BufferedInv, LifeInv, NEW c \in Callers, CallStep(c)
  PROVE  LifeInv'
<1>1. UNCHANGED <<phase, pc>> /\ OnlyCall(c) /\ (UNCHANGED refs \/ Unref(c))
  BY CallFrame, CallOutcome
<1>2. ASSUME NEW d \in Outside, d # c PROVE call'[d] = call[d]
  BY <1>1, <1>2 DEF OnlyCall, Callers
<1>3. CASE Unref(c)
  <2>1. call[c].at = "unref" /\ call'[c].at = "none" /\ refs' = refs - 1
    BY <1>3, NoCallType DEF Unref, TypeOK
  <2>2. c \in Outside
    BY <2>1 DEF CallInv, CallerInv, Callers
  <2>3. Inside' = Inside \ {c} /\ c \in Inside
    BY <1>2, <2>1, <2>2 DEF Inside
  <2>4. IsFiniteSet(Inside)
    BY FS_Subset DEF Inside
  <2>5. Cardinality(Inside') = Cardinality(Inside) - 1
    BY <2>3, <2>4, FS_RemoveElement
  <2> QED BY <1>1, <2>1, <2>3, <2>5 DEF LifeInv
<1>4. CASE ~Unref(c)
  <2>1. c \in Outside => (call'[c].at # "none" <=> call[c].at # "none")
    <3>1. ASSUME c \in Outside, call[c].at # "none" PROVE call'[c].at # "none"
      <4>1. CASE Enqueue(c)
        BY <3>1, <4>1, EnqueueOutcome DEF Left, Moved
      <4>2. CASE ~Enqueue(c)
        BY <1>4, <3>1, <4>2, CallOutcome DEF Left, Moved, Woke
      <4> QED BY <4>1, <4>2
    <3>2. ASSUME call[c].at = "none" PROVE call'[c].at = "none"
      BY <1>4, <3>2, CallOutcome, EnqueueOutcome DEF ClaimFallback, Signal
    <3> QED BY <3>1, <3>2
  <2>2. Inside' = Inside
    BY <1>2, <2>1 DEF Inside
  <2> QED BY <1>1, <1>4, <2>2 DEF LifeInv
<1> QED BY <1>3, <1>4

LEMMA PostKeepsLife ==
  ASSUME TypeOK, LifeInv,
         NEW c \in Callers, NEW p \in Priorities, NEW h \in Hints, Post(c, p, h)
  PROVE  LifeInv'
<1>1. /\ UNCHANGED <<phase, pc>> /\ OnlyCall(c)
      /\ call[c].at = "none" /\ call'[c].at = "enqueue"
      /\ IF c \in Outside THEN phase = "up" /\ refs' = refs + 1 ELSE refs' = refs
  BY PostOutcome
<1>2. ASSUME NEW d \in Outside, d # c PROVE call'[d] = call[d]
  BY <1>1, <1>2 DEF OnlyCall, Callers
<1>3. CASE c \in Outside
  <2>1. Inside' = Inside \cup {c} /\ c \notin Inside
    BY <1>1, <1>2, <1>3 DEF Inside
  <2>2. IsFiniteSet(Inside)
    BY FS_Subset DEF Inside
  <2>3. Cardinality(Inside') = Cardinality(Inside) + 1
    BY <2>1, <2>2, FS_AddElement
  <2> QED BY <1>1, <1>3, <2>3 DEF LifeInv
<1>4. CASE c \notin Outside
  <2>1. Inside' = Inside
    BY <1>2, <1>4 DEF Inside
  <2> QED BY <1>1, <1>4, <2>1 DEF LifeInv
<1> QED BY <1>3, <1>4

LEMMA TeardownKeepsLife ==
  ASSUME TypeOK, LifeInv, BeginTeardown \/ TeardownStep
  PROVE  LifeInv'
<1>1. UNCHANGED <<refs, call, pc>>
  BY TeardownFrame
<1>2. Inside' = Inside
  BY <1>1 DEF Inside
<1>3. phase' \in {"drain", "gone"} => \A t \in Threads : pc[t] = "dead"
  BY DEF BeginTeardown, TeardownStep, RequestStop, StopWake, Join, Release, LifeInv
<1>4. phase' = "gone" => Inside = {}
  <2>1. phase' = "gone" => phase = "gone" \/ refs = 0
    BY DEF BeginTeardown, TeardownStep, RequestStop, StopWake, Join, Release
  <2>2. IsFiniteSet(Inside)
    BY FS_Subset DEF Inside
  <2>3. Cardinality(Inside) = 0 => Inside = {}
    BY <2>2, FS_EmptySet
  <2> QED BY <2>1, <2>3 DEF LifeInv
<1> QED BY <1>1, <1>2, <1>3, <1>4 DEF LifeInv
----------------------------------------------------------------------------
\* The remaining types.

LEMMA WorkerKeepsTypes ==
  ASSUME IInv, NEW t \in Threads, WorkerStep(t)
  PROVE  TypeOK'
<1> USE DEF IInv
<1>1. /\ UNCHANGED <<range, stopped, phase, posted, refs>>
  BY WorkerFrame
<1>2. InboxTypes' /\ QueueTypes'
  BY WorkerQueuesTyped
<1>3. BitTypes'
  <2>1. working' \subseteq Threads
    BY WorkerFrame DEF TypeOK, BitTypes, SetWorking, ClearWorking, Exit
  <2>2. spinning' \subseteq Threads
    BY WorkerFrame DEF TypeOK, BitTypes, ClearSpinning, BecomeSpinning, StopSpinning, SpinAgain
  <2>3. signalled' \subseteq Threads
    BY WorkerFrame DEF TypeOK, BitTypes, Top, Arm
  <2>4. stopped' \subseteq Threads
    BY <1>1 DEF TypeOK, BitTypes
  <2> QED BY <2>1, <2>2, <2>3, <2>4 DEF BitTypes
<1>4. WorkerTypes'
  BY WorkerTyped
<1>5. LifeTypes'
  BY <1>1 DEF TypeOK, LifeTypes
<1>6. fallback' \in [Priorities -> {"none", "wait", "wake"}]
  <2>1. fallback \in [Priorities -> {"none", "wait", "wake"}]
    BY DEF TypeOK
  <2>2. CASE Top(t)
    BY <2>1, <2>2 DEF Top
  <2>3. CASE Announce(t)
    BY <2>1, <2>3 DEF Announce
  <2> QED BY <2>1, <2>2, <2>3, WorkerFrame
<1>7. call' \in [Callers -> Calls]
  <2>1. call \in [Callers -> Calls]
    BY DEF TypeOK
  <2> QED BY <2>1, WorkerFrame, ClearSpinningOutcome DEF OnlyCall
<1> QED BY <1>2, <1>3, <1>4, <1>5, <1>6, <1>7 DEF TypeOK

LEMMA CallKeepsTypes ==
  ASSUME IInv, NEW c \in Callers, CallStep(c)
  PROVE  TypeOK'
<1> USE DEF IInv
<1>1. /\ UNCHANGED <<range, stopped, phase, posted, working, spinning>>
      /\ UNCHANGED <<pc, step, fresh, prio, spinCount>>
  BY CallFrame
<1>2. InboxTypes' /\ QueueTypes'
  BY CallQueuesTyped
<1>3. BitTypes'
  <2>1. signalled' \subseteq Threads
    BY CallFrame DEF TypeOK, BitTypes, Signal, AddSignal, Armed
  <2> QED BY <1>1, <2>1 DEF TypeOK, BitTypes
<1>4. WorkerTypes'
  BY <1>1 DEF TypeOK, WorkerTypes
<1>5. LifeTypes'
  <2>1. refs' = Cardinality(Inside')
    BY CallKeepsLife DEF LifeInv
  <2>2. Cardinality(Inside') \in 0..Cardinality(Outside)
    <3>1. IsFiniteSet(Inside') /\ Cardinality(Inside') <= Cardinality(Outside)
      BY FS_Subset DEF Inside
    <3> QED BY <3>1, FS_CardinalityType
  <2> QED BY <1>1, <2>1, <2>2 DEF TypeOK, LifeTypes
<1>6. fallback' \in [Priorities -> {"none", "wait", "wake"}]
  BY CallFrame DEF TypeOK, ClaimFallback
<1>7. call' \in [Callers -> Calls]
  BY CallOutcome DEF OnlyCall
<1> QED BY <1>2, <1>3, <1>4, <1>5, <1>6, <1>7 DEF TypeOK

LEMMA PostKeepsTypes ==
  ASSUME IInv, NEW c \in Callers, NEW p \in Priorities, NEW h \in Hints, Post(c, p, h)
  PROVE  TypeOK'
<1> USE DEF IInv
<1>1. /\ UNCHANGED <<deque, inbox, ingest, buffered, working, spinning>>
      /\ UNCHANGED <<pc, step, fresh, prio, spinCount>>
      /\ UNCHANGED <<range, stopped, phase, signalled, fallback>>
      /\ posted' \in 0..MaxPosts /\ OnlyCall(c)
  BY PostOutcome
<1>2. InboxTypes' /\ QueueTypes'
  BY <1>1 DEF TypeOK, InboxTypes, QueueTypes, Serves
<1>3. BitTypes' /\ WorkerTypes'
  BY <1>1 DEF TypeOK, BitTypes, WorkerTypes
<1>4. LifeTypes'
  <2>1. refs' = Cardinality(Inside')
    BY PostKeepsLife DEF LifeInv
  <2>2. Cardinality(Inside') \in 0..Cardinality(Outside)
    <3>1. IsFiniteSet(Inside') /\ Cardinality(Inside') <= Cardinality(Outside)
      BY FS_Subset DEF Inside
    <3> QED BY <3>1, FS_CardinalityType
  <2> QED BY <1>1, <2>1, <2>2 DEF TypeOK, LifeTypes
<1> QED BY <1>1, <1>2, <1>3, <1>4 DEF TypeOK, OnlyCall

LEMMA TeardownKeepsTypes ==
  ASSUME IInv, BeginTeardown \/ TeardownStep
  PROVE  TypeOK'
<1> USE DEF IInv
<1>1. /\ UNCHANGED <<deque, inbox, ingest, buffered, working, spinning>>
      /\ UNCHANGED <<pc, step, fresh, prio, spinCount>>
      /\ UNCHANGED <<range, posted, fallback, refs, call>>
  BY TeardownFrame
<1>2. InboxTypes' /\ QueueTypes' /\ WorkerTypes'
  BY <1>1 DEF TypeOK, InboxTypes, QueueTypes, WorkerTypes, Serves
<1>3. BitTypes'
  <2>1. signalled' \subseteq Threads
    BY TeardownFrame DEF TypeOK, BitTypes, StopWake, AddSignal, Armed
  <2>2. stopped' \subseteq Threads
    <3>1. CASE RequestStop
      <4>1. Threads \ stopped \subseteq Nat /\ Threads \ stopped # {}
        BY <3>1 DEF RequestStop, TypeOK, BitTypes
      <4>2. Min(Threads \ stopped) \in Threads \ stopped
        BY <4>1, MinMember
      <4> QED BY <3>1, <4>2 DEF RequestStop, TypeOK, BitTypes
    <3> QED BY <3>1, TeardownFrame DEF TypeOK, BitTypes
  <2> QED BY <1>1, <2>1, <2>2 DEF TypeOK, BitTypes
<1>4. phase' \in {"up", "stop", "wake", "join", "drain", "gone"}
  BY DEF BeginTeardown, TeardownStep, RequestStop, StopWake, Join, Release
<1>5. LifeTypes'
  BY <1>1, <1>4 DEF TypeOK, LifeTypes
<1> QED BY <1>1, <1>2, <1>3, <1>5 DEF TypeOK
----------------------------------------------------------------------------
(* The invariant. *)

LEMMA InitIInv == Init => IInv
<1> SUFFICES ASSUME Init PROVE IInv
  OBVIOUS
<1> USE DEF Init
<1>1. call = [c \in Callers |-> NoCall] /\ NoCall \in Calls /\ NoCall.at = "none"
  BY NoCallType DEF Callers
<1>2. \A t \in Threads : range[t][1] \in Priorities /\ range[t][1] \in Nat
  BY PartitionsAssumption
<1>3. TypeOK
  <2>1. InboxTypes
    BY DEF InboxTypes
  <2>2. QueueTypes /\ BitTypes
    BY DEF QueueTypes, BitTypes
  <2>3. WorkerTypes
    BY DEF WorkerTypes, Labels
  <2>4. Cardinality(Outside) \in Nat
    BY FS_CardinalityType
  <2>5. LifeTypes
    BY <2>4 DEF LifeTypes
  <2> QED BY <1>1, <2>1, <2>2, <2>3, <2>5 DEF TypeOK
<1>4. CallInv /\ BufferedInv
  BY <1>1 DEF CallInv, CallerInv, BufferedInv, Deciding
<1>5. BitsInv /\ DequeInv /\ StepInv
  BY DEF BitsInv, ThreadBits, DequeInv, OwnDeque, StepInv, ThreadStep
<1>6. FallbackInv
  <2>1. \A p \in Priorities : Allowed(p) # {} => ~Announced(Sentinel(p), p)
    BY SentinelServes DEF Announced, Allowed
  <2> QED BY <2>1 DEF FallbackInv
<1>7. IngestInv
  BY DEF IngestInv
<1>8. InboxInv
  BY DEF InboxInv
<1>9. LifeInv
  <2>1. Inside = {}
    BY <1>1 DEF Inside, Callers
  <2> QED BY <2>1, FS_EmptySet DEF LifeInv
<1> QED BY <1>3, <1>4, <1>5, <1>6, <1>7, <1>8, <1>9 DEF IInv

LEMMA NextIInv == IInv /\ [Next]_vars => IInv'
<1> SUFFICES ASSUME IInv, [Next]_vars PROVE IInv'
  OBVIOUS
<1> USE DEF IInv
<1>1. ASSUME NEW t \in Threads, WorkerStep(t) PROVE IInv'
  BY <1>1, WorkerKeepsTypes, WorkerKeepsCalls, WorkerKeepsThreads, WorkerKeepsWakeups,
     WorkerKeepsLife
<1>2. ASSUME NEW c \in Callers, CallStep(c) PROVE IInv'
  BY <1>2, CallKeepsTypes, CallsKeepCalls, CallKeepsThreads, CallKeepsWakeups, CallKeepsLife
<1>3. ASSUME NEW c \in Callers, NEW p \in Priorities, NEW h \in Hints, Post(c, p, h)
      PROVE  IInv'
  BY <1>3, PostKeepsTypes, PostKeepsCalls, PostKeepsThreads, PostKeepsLife
<1>4. CASE BeginTeardown \/ TeardownStep
  BY <1>4, TeardownKeepsTypes, TeardownKeepsThreads, TeardownKeepsLife
<1>5. CASE UNCHANGED vars
  <2>1. /\ UNCHANGED <<deque, inbox, ingest, buffered, working, spinning>>
        /\ UNCHANGED <<pc, step, fresh, prio, spinCount>>
        /\ UNCHANGED <<range, stopped, phase, posted, signalled, fallback, refs, call>>
    BY <1>5 DEF vars, queues, bits, worker, life
  <2>2. TypeOK'
    BY <2>1 DEF TypeOK, InboxTypes, QueueTypes, BitTypes, WorkerTypes, LifeTypes, Serves
  <2>3. CallInv' /\ BufferedInv'
    BY <2>1, SameRange DEF CallInv, CallerInv, BufferedInv, Waking
  <2>4. BitsInv' /\ StepInv' /\ DequeInv'
    BY <2>1, SameRange DEF BitsInv, ThreadBits, StepInv, ThreadStep, DequeInv, OwnDeque
  <2>5. FallbackInv'
    BY <2>1 DEF FallbackInv, Announced, Waking, Sentinel, Allowed, Serves
  <2>6. IngestInv' /\ InboxInv'
    <3>1. \A t \in Threads, p \in Priorities :
            PassedIngest(t, p)' = PassedIngest(t, p) /\ PassedInbox(t)' = PassedInbox(t)
      BY <2>1 DEF PassedIngest, PassedInbox
    <3>2. \A p \in Priorities : Allowed(p)' = Allowed(p) /\ Allowed(p) \subseteq Threads
      BY <2>1 DEF Allowed, Serves
    <3>3. \A h \in Threads : Mine(h)' = Mine(h) /\ Mine(h) \subseteq Threads
      BY <2>1 DEF Mine
    <3>4. \A c, S : Waking(c, S)' = Waking(c, S)
      BY <2>1 DEF Waking
    <3>5. IngestInv'
      <4>1. \A p \in Priorities : IngestCovered(p) => IngestCovered(p)'
        BY <2>1, <3>1, <3>2, <3>4 DEF IngestCovered
      <4> QED BY <2>1, <4>1 DEF IngestInv
    <3>6. InboxInv'
      <4>1. \A h \in Threads : InboxCovered(h) => InboxCovered(h)'
        BY <2>1, <3>1, <3>3, <3>4 DEF InboxCovered
      <4> QED BY <2>1, <4>1 DEF InboxInv
    <3> QED BY <3>5, <3>6
  <2>7. LifeInv'
    BY <2>1 DEF LifeInv, Inside
  <2> QED BY <2>2, <2>3, <2>4, <2>5, <2>6, <2>7
<1> QED BY <1>1, <1>2, <1>3, <1>4, <1>5 DEF Next, Callers

\* The invariant holds in every reachable state.
THEOREM InductiveInvariant == Spec => []IInv
BY InitIInv, NextIInv, PTL DEF Spec

\* Every variable of the executor keeps its type, and ref_count never falls below
\* zero or exceeds the number of threads that post from outside (ex_cpu.hpp).
THEOREM TypeCorrect == Spec => []TypeOK
<1>1. IInv => TypeOK
  BY DEF IInv
<1> QED BY <1>1, InductiveInvariant, PTL

\* set_bit_popcnt and clr_bit_popcnt never find the bit in the wrong state, so that
\* their addition and subtraction are exact; running and sleeping threads show as such.
THEOREM BitsAgree == Spec => []BitsMatchThreads
<1>1. IInv => BitsMatchThreads
  <2> SUFFICES ASSUME IInv, NEW t \in Threads
               PROVE  /\ pc[t] = "settle" /\ ~fresh[t] => t \notin spinning
                      /\ pc[t] = "clearWorking" /\ ~fresh[t] => t \in working
                      /\ pc[t] = "run" => t \in working \ spinning
                      /\ pc[t] = "sleep" => t \notin working \cup spinning
    BY DEF BitsMatchThreads
  <2>1. ThreadBits(t)
    BY DEF IInv, BitsInv
  <2> QED BY <2>1 DEF ThreadBits
<1> QED BY <1>1, InductiveInvariant, PTL

\* Teardown frees the queues and the thread states only when no post is in progress
\* and every worker has left its loop, whichever threads post meanwhile.
THEOREM NothingFreedUnderPost == Spec => []NoUseAfterTeardown
<1>1. IInv => NoUseAfterTeardown
  <2> SUFFICES ASSUME IInv, phase = "gone"
               PROVE  /\ \A c \in DOMAIN call : call[c].at = "none"
                      /\ \A t \in Threads : pc[t] = "dead"
    BY DEF NoUseAfterTeardown
  <2>1. Inside = {} /\ \A t \in Threads : pc[t] = "dead"
    BY DEF IInv, LifeInv
  <2>2. DOMAIN call = Threads \cup Outside
    BY DEF IInv, TypeOK, Callers
  <2>3. \A c \in Threads : call[c].at = "none"
    BY <2>1 DEF IInv, CallInv, CallerInv, Callers
  <2> QED BY <2>1, <2>2, <2>3 DEF Inside
<1> QED BY <1>1, InductiveInvariant, PTL

\* Whatever is queued, for any number of threads, priorities and posts, some thread
\* that may take it is awake or a caller is about to wake one: the announcements of
\* sleepers and the looks of posters cannot miss each other.
THEOREM NoWakeupLost == Spec => []NoLostWakeup
<1>1. IInv => NoLostWakeup
  <2> SUFFICES ASSUME IInv PROVE NoLostWakeup
    OBVIOUS
  <2>0. DOMAIN call = Callers
    BY DEF IInv, TypeOK
  <2>1. ASSUME NEW p \in Priorities, ingest[p] > 0
        PROVE  \/ \E t \in Allowed(p) : ~Parked(t)
               \/ \E c \in Callers :
                    \/ Waking(c, Allowed(p))
                    \/ /\ call[c].prio = p
                       /\ call[c].at \in {"countSpinning", "decide", "fallback", "claim"}
    <3>1. IngestCovered(p)
      BY <2>1 DEF IInv, IngestInv
    <3>2. \A t \in Allowed(p) : ~PassedIngest(t, p) \/ t \in signalled => ~Parked(t)
      BY DEF PassedIngest, Parked
    <3> QED BY <3>1, <3>2 DEF IngestCovered, Deciding
  <2>2. ASSUME NEW p \in Priorities, NEW u \in Threads, deque[u][p] > 0
        PROVE  \E t \in Allowed(p) : ~Parked(t)
    BY <2>2 DEF IInv, DequeInv, OwnDeque, Parked
  <2>3. ASSUME NEW h \in Threads, inbox[range[h]] # <<>>
        PROVE  \/ \E t \in Mine(h) : ~Parked(t)
               \/ \E c \in Callers :
                    Waking(c, Mine(h)) \/ (call[c].at = "hint" /\ call[c].hint \in Mine(h))
    <3>1. InboxCovered(h)
      BY <2>3 DEF IInv, InboxInv
    <3>2. \A t \in Mine(h) : ~PassedInbox(t) \/ t \in signalled => ~Parked(t)
      BY DEF PassedInbox, Parked
    <3> QED BY <3>1, <3>2 DEF InboxCovered
  <2>4. \A p \in Priorities :
          (ingest[p] > 0 \/ \E u \in Threads : deque[u][p] > 0) =>
             \/ \E t \in Allowed(p) : ~Parked(t)
             \/ \E c \in Callers :
                  \/ Waking(c, Allowed(p))
                  \/ /\ call[c].prio = p
                     /\ call[c].at \in {"countSpinning", "decide", "fallback", "claim"}
    BY <2>1, <2>2
  <2>5. \A h \in Threads :
          inbox[range[h]] # <<>> =>
             \/ \E t \in Mine(h) : ~Parked(t)
             \/ \E c \in Callers :
                  Waking(c, Mine(h)) \/ (call[c].at = "hint" /\ call[c].hint \in Mine(h))
    BY <2>3
  <2> QED
    <3> HIDE DEF IInv
    <3> QED BY Zenon, <2>0, <2>4, <2>5 DEF NoLostWakeup, Mine
<1> QED BY <1>1, InductiveInvariant, PTL
=============================================================================
