---------------------------- MODULE ExCpuStProof ----------------------------
(***************************************************************************)
(* Proofs about ExCpuSt for any number of producers and priorities, in both*)
(* builds: the worker does not sleep over an item that it may take, a      *)
(* teardown that begins when every item has run waits for every wake, and  *)
(* a request to yield gives way only to one of a higher priority.          *)
(***************************************************************************)
EXTENDS ExCpuSt, FiniteSetTheorems, TLAPS

Posting(c) == posting[c].at # "none"

\* Slots are reserved before they are filled.  The one slot of a queue that is announced
\* as waited for is where the worker reads next.
SlotInv ==
  \A p \in Priorities :
    /\ \A i \in 0..MaxPosts :
         /\ flags[p][i] = "data" => i < write_offset[p]
         /\ flags[p][i] = "waiting" => p \in didWait /\ i = read_offset[p]
    /\ p \in didWait => flags[p][read_offset[p]] \in {"waiting", "data"}

\* A call keeps to the slots that it reserved, and only lowers yield_priority.
CallOK(c) ==
  /\ posting[c].at \in {"write", "wake", "count"} => posting[c].left # 0
  /\ posting[c].idx + posting[c].left <= write_offset[posting[c].prio]
  /\ posting[c].at = "cas" => posting[c].prio < posting[c].seen

\* The worker posts from an item.
CallInv ==
  /\ \A c \in Callers : Posting(c) => CallOK(c)
  /\ \A p \in Priorities : write_offset[p] <= produced
  /\ Posting(Worker) => wpc = "run"

Base == TypeOK /\ SlotInv /\ CallInv

QuietStep == Top \/ NothingHere \/ RunOne \/ ItemEnds \/ Spin \/ StopCheck \/ Recheck \/ Sleep \/ WakeUp

LEMMA PrioritiesFacts ==
  /\ 0 \in Priorities /\ Last \in Priorities /\ Priorities \subseteq Nat
  /\ \A p \in Priorities : p <= Last /\ (p # Last => p + 1 \in Priorities)
<1> DEFINE L == Last
<1>1. L \in Nat /\ Priorities = 0..L
  BY PrioritiesAssumption
<1> HIDE DEF L
<1>2. 0 \in Priorities /\ L \in Priorities /\ Priorities \subseteq Nat
      /\ \A p \in Priorities : p <= L /\ (p # L => p + 1 \in Priorities)
  BY <1>1
<1> QED
  BY <1>2 DEF L

LEMMA BaseInit == Init => Base
<1> SUFFICES ASSUME Init PROVE Base
  OBVIOUS
<1>1. TypeOK
  <2>1. 0 \in 0..MaxPosts /\ 0 \in Priorities
    BY PrioritiesFacts, BoundsAssumption
  <2>2. /\ write_offset \in [Priorities -> 0..MaxPosts] /\ read_offset \in [Priorities -> 0..MaxPosts]
        /\ \A p \in Priorities : read_offset[p] <= write_offset[p]
        /\ produced \in 0..MaxPosts
    BY <2>1 DEF Init
  <2>3. posting \in [Callers -> Calls]
    BY <2>1 DEF Init, Calls, NotPosting
  <2>4. /\ stop \in [requested : BOOLEAN, wait : BOOLEAN]
        /\ tally \in [prio : Priorities, sum : Nat]
    BY <2>1 DEF Init
  <2>5. /\ flags \in [Priorities -> [0..MaxPosts -> {"empty", "waiting", "data"}]]
        /\ wake_ref_count \in [Priorities -> Nat] /\ private \in [Priorities -> Nat]
    BY DEF Init
  <2>6. yield_priority \in 0..(Last + 1)
    <3>1. Last \in Nat
      BY PrioritiesFacts
    <3>2. yield_priority = Last + 1
      BY DEF Init
    <3> HIDE DEF Last
    <3> QED
      BY <3>1, <3>2
  <2> QED
    BY <2>1, <2>2, <2>3, <2>4, <2>5, <2>6 DEF Init, TypeOK
<1>2. SlotInv
  BY DEF Init, SlotInv
<1>3. CallInv
  BY BoundsAssumption DEF Init, CallInv, Posting, NotPosting, Callers
<1> QED
  BY <1>1, <1>2, <1>3 DEF Base

\* Steps of the worker that change no queue.
LEMMA QuietKeepsBase ==
  ASSUME Base, QuietStep PROVE Base'
<1> USE DEF Base
<1>1. UNCHANGED <<waitv, queueVars, counts, ending, produced, posting>>
  BY DEF QuietStep, Top, NothingHere, RunOne, ItemEnds, Spin, StopCheck, Recheck, Sleep, WakeUp
<1>2. /\ wprio' \in Priorities /\ woken' \in BOOLEAN
      /\ wpc' \in {"top", "scan", "start", "run", "spin", "pull", "stopCheck", "recheck", "sleep", "asleep", "exited"}
  BY PrioritiesFacts DEF TypeOK, QuietStep, Top, NothingHere, RunOne, ItemEnds, Spin, StopCheck, Recheck, Sleep, WakeUp, At
<1>3. Posting(Worker)' => wpc' = "run"
  BY <1>1 DEF CallInv, Posting, QuietStep, Top, NothingHere, RunOne, ItemEnds, Spin, StopCheck, Recheck, Sleep, WakeUp, At
<1>3a. yield_priority' \in 0..(Last + 1)
  <2>1. wprio \in 0..(Last + 1)
    <3>1. wprio \in Nat /\ wprio <= Last /\ Last \in Nat
      BY PrioritiesFacts DEF TypeOK
    <3> HIDE DEF Last
    <3> QED
      BY <3>1
  <2> QED
    BY <2>1 DEF TypeOK, QuietStep, Top, NothingHere, RunOne, ItemEnds, Spin, StopCheck, Recheck, Sleep, WakeUp
<1>4. TypeOK'
  BY <1>1, <1>2, <1>3a DEF TypeOK, queueVars, counts, ending
<1>5. SlotInv'
  BY <1>1 DEF SlotInv, queueVars, counts
<1>6. CallInv'
  BY <1>1, <1>3 DEF CallInv, CallOK, Posting, queueVars
<1> QED
  BY <1>4, <1>5, <1>6

LEMMA TeardownKeepsBase ==
  ASSUME Base, BeginTeardown \/ TeardownStep PROVE Base'
<1> USE DEF Base
<1>1. UNCHANGED <<waitv, queueVars, counts, worker, yield_priority, produced, posting>>
  BY DEF BeginTeardown, TeardownStep, RequestStop, StoreStopWait, StopWake, Join, CountWakes, Compare
<1>2. /\ woken' \in BOOLEAN
      /\ down' \in {"up", "request", "store", "wake", "join", "count", "compare", "gone"}
  BY DEF TypeOK, BeginTeardown, TeardownStep, RequestStop, StoreStopWait, StopWake, Signal, Join, CountWakes, Compare
<1>3. tally' \in [prio : Priorities, sum : Nat]
  <2>1. CASE CountWakes
    <3>1. tally.prio \in Priorities /\ tally.sum + wake_ref_count[tally.prio] \in Nat
      BY DEF TypeOK
    <3>2. (IF tally.prio = Last THEN 0 ELSE tally.prio + 1) \in Priorities
      BY <3>1, PrioritiesFacts
    <3> QED
      BY <2>1, <3>1, <3>2 DEF CountWakes
  <2>2. CASE Compare
    BY <2>2, PrioritiesFacts DEF TypeOK, Compare
  <2>3. CASE tally' = tally
    BY <2>3 DEF TypeOK
  <2> QED
    BY <2>1, <2>2, <2>3 DEF BeginTeardown, TeardownStep, RequestStop, StoreStopWait, StopWake, Join
<1>4. stop' \in [requested : BOOLEAN, wait : BOOLEAN]
  BY DEF TypeOK, BeginTeardown, TeardownStep, RequestStop, StoreStopWait, StopWake, Join, CountWakes, Compare
<1>5. TypeOK'
  BY <1>1, <1>2, <1>3, <1>4 DEF TypeOK, queueVars, counts, worker
<1>6. SlotInv'
  BY <1>1 DEF SlotInv, queueVars, counts
<1>7. CallInv'
  BY <1>1 DEF CallInv, CallOK, Posting, queueVars, worker
<1> QED
  BY <1>5, <1>6, <1>7

\* The worker takes an item of queue p.
LEMMA TakeKeepsBase ==
  ASSUME Base, NEW p \in Priorities, Filled(p), TakeItem(p), wpc # "run",
         UNCHANGED <<waitv, flags, write_offset, private, wake_ref_count, woken, yield_priority, ending, produced, posting>>
  PROVE  Base'
<1> USE DEF Base
<1>1. read_offset[p] < write_offset[p]
  BY DEF TypeOK, SlotInv, Filled
<1>2. TypeOK'
  <2>1. read_offset' \in [Priorities -> 0..MaxPosts]
    BY <1>1, BoundsAssumption DEF TypeOK, TakeItem
  <2>2. \A q \in Priorities : read_offset'[q] <= write_offset'[q]
    BY <1>1 DEF TypeOK, TakeItem
  <2>3. wait_count' \in Nat /\ didWait' \subseteq Priorities
    BY DEF TypeOK, TakeItem
  <2>4. wpc' = "start" /\ wprio' \in Priorities
    BY DEF TakeItem, At
  <2> QED
    BY <2>1, <2>2, <2>3, <2>4 DEF TypeOK, ending
<1>3. SlotInv'
  <2> SUFFICES ASSUME NEW q \in Priorities PROVE SlotInv!(q)'
    BY DEF SlotInv
  <2>1. CASE q = p
    <3>1. \A i \in 0..MaxPosts : flags[p][i] # "waiting"
      BY DEF SlotInv, Filled
    <3> QED
      BY <2>1, <3>1 DEF SlotInv, TakeItem, TypeOK
  <2>2. CASE q # p
    BY <2>2 DEF SlotInv, TakeItem, TypeOK
  <2> QED
    BY <2>1, <2>2
<1>4. CallInv'
  BY DEF CallInv, CallOK, Posting, TakeItem, At
<1> QED
  BY <1>2, <1>3, <1>4

LEMMA PullKeepsBase ==
  ASSUME Base, Pull, ~Filled(wprio) PROVE Base'
<1> USE DEF Base
<1> DEFINE p == wprio  r == read_offset[wprio]
<1>1. p \in Priorities /\ r \in 0..MaxPosts
  BY DEF TypeOK
<1>2. /\ flags' = [flags EXCEPT ![p][r] = "waiting"]
      /\ didWait' = didWait \cup {p}
      /\ UNCHANGED <<waitv, read_offset, wait_count, write_offset, private, wake_ref_count,
                     woken, yield_priority, ending, produced, posting>>
  BY DEF Pull
<1>3. wpc # "run" /\ wpc' \in {"pull", "stopCheck"} /\ wprio' \in Priorities
  BY PrioritiesFacts DEF Pull, At, TypeOK
<1>4. flags[p][r] # "data"
  BY DEF Filled
<1> HIDE DEF p, r
<1>5. TypeOK'
  BY <1>1, <1>2, <1>3 DEF TypeOK, ending
<1>6. SlotInv'
  <2> SUFFICES ASSUME NEW q \in Priorities PROVE SlotInv!(q)'
    BY DEF SlotInv
  <2>1. r = read_offset[p]
    BY DEF p, r
  <2>2. CASE q = p
    <3>1. flags'[p] = [flags[p] EXCEPT ![r] = "waiting"] /\ flags[p] \in [0..MaxPosts -> {"empty", "waiting", "data"}]
      BY <1>1, <1>2 DEF TypeOK
    <3>2. flags'[p][r] = "waiting" /\ \A i \in 0..MaxPosts \ {r} : flags'[p][i] = flags[p][i]
      BY <1>1, <3>1
    <3>3. \A i \in 0..MaxPosts : /\ flags[p][i] = "data" => i < write_offset[p]
                                 /\ flags[p][i] = "waiting" => i = r
      BY <1>1, <2>1 DEF SlotInv
    <3> QED
      BY <1>1, <1>2, <2>1, <2>2, <3>2, <3>3
  <2>3. CASE q # p
    <3>1. flags'[q] = flags[q]
      BY <1>1, <1>2, <2>3 DEF TypeOK
    <3> QED
      BY <1>2, <2>3, <3>1 DEF SlotInv
  <2> QED
    BY <2>2, <2>3
<1>7. CallInv'
  BY <1>2, <1>3 DEF CallInv, CallOK, Posting
<1> QED
  BY <1>5, <1>6, <1>7

\* A call that goes on, or comes to its end.
LEMMA EndOfCallIs ==
  ASSUME NEW call \in Calls
  PROVE  LET end == EndOfCall(call)
         IN /\ end \in Calls /\ end.at \in {"none", "load"}
            /\ end = NotPosting \/ (end.prio = call.prio /\ end.idx = call.idx /\ end.left = call.left)
BY PrioritiesFacts DEF EndOfCall, Calls, NotPosting

LEMMA GoOnIs ==
  ASSUME NEW call \in Calls
  PROVE  LET next == GoOn(call)
         IN /\ next \in Calls /\ next.at \in {"none", "write", "load"}
            /\ next.at = "write" => call.left # 0
            /\ next.at # "write" => call.left = 0
            /\ next = NotPosting \/ (next.prio = call.prio /\ next.idx = call.idx /\ next.left = call.left)
<1>1. call.left \in Nat
  BY DEF Calls
<1>2. CASE call.left > 0
  <2>1. GoOn(call) = [call EXCEPT !.at = "write"]
    BY <1>2 DEF GoOn
  <2> QED
    BY <1>1, <1>2, <2>1 DEF Calls
<1>3. CASE ~(call.left > 0)
  BY <1>1, <1>3, EndOfCallIs DEF GoOn
<1> QED
  BY <1>2, <1>3

\* What a call is after an item.
LEMMA NextCall ==
  ASSUME TypeOK, CallInv, NEW c \in Callers,
         posting[c].at \in {"write", "wake", "count"}, NextItem(c)
  PROVE  /\ posting' \in [Callers -> Calls]
         /\ \A d \in Callers \ {c} : posting'[d] = posting[d]
         /\ posting'[c].at \in {"none", "write", "next", "load"}
         /\ posting[c].left = 1 => posting'[c].left = 0 /\ posting'[c].at # "write"
         /\ Posting(c)' => /\ posting'[c].at = "write" => posting'[c].left # 0
                           /\ posting'[c].idx + posting'[c].left = posting[c].idx + posting[c].left
                           /\ posting'[c].prio = posting[c].prio
<1> DEFINE old == posting[c]
           call == [old EXCEPT !.idx = old.idx + 1, !.left = old.left - 1]
           new == IF call.bulk /\ call.idx % BlockSize = 0 THEN [call EXCEPT !.at = "next"] ELSE GoOn(call)
<1>1. old \in Calls /\ old.left # 0 /\ old.left \in Nat /\ old.idx \in Nat
  BY DEF TypeOK, CallInv, CallOK, Posting, Calls
<1>2. call \in Calls /\ call.prio = old.prio /\ call.idx = old.idx + 1 /\ call.left = old.left - 1
  <2>1. old.idx + 1 \in Nat /\ old.left - 1 \in Nat
    BY <1>1
  <2> QED
    BY <1>1, <2>1 DEF Calls
<1>3. posting' = [posting EXCEPT ![c] = new]
  BY DEF NextItem
<1> HIDE DEF call
<1>4. /\ new \in Calls /\ new.at \in {"none", "write", "next", "load"}
      /\ new.at = "write" => call.left # 0
      /\ new.at \in {"none", "load"} => call.left = 0
      /\ new = NotPosting \/ (new.prio = call.prio /\ new.idx = call.idx /\ new.left = call.left)
  <2>1. CASE call.bulk /\ call.idx % BlockSize = 0
    BY <1>2, <2>1 DEF Calls
  <2>2. CASE ~(call.bulk /\ call.idx % BlockSize = 0)
    BY <1>2, <2>2, GoOnIs
  <2> QED
    BY <2>1, <2>2
<1> HIDE DEF new
<1>5. posting'[c] = new /\ posting' \in [Callers -> Calls]
  BY <1>3, <1>4 DEF TypeOK
<1>6. \A d \in Callers \ {c} : posting'[d] = posting[d]
  BY <1>3 DEF TypeOK
<1>7. NotPosting.at = "none" /\ NotPosting.left = 0
  BY DEF NotPosting
<1>8. old.left = 1 => new.left = 0 /\ new.at # "write"
  BY <1>2, <1>4, <1>7
<1>9. new.at # "none" => /\ new.at = "write" => new.left # 0
                         /\ new.idx + new.left = old.idx + old.left
                         /\ new.prio = old.prio
  <2> SUFFICES ASSUME new.at # "none"
      PROVE  /\ new.at = "write" => new.left # 0
             /\ new.idx + new.left = old.idx + old.left
             /\ new.prio = old.prio
    OBVIOUS
  <2>1. new.prio = call.prio /\ new.idx = call.idx /\ new.left = call.left
    BY <1>4, <1>7
  <2>2. old.idx + 1 + (old.left - 1) = old.idx + old.left
    BY <1>1
  <2> QED
    BY <1>2, <1>4, <2>1, <2>2
<1> QED
  BY <1>4, <1>5, <1>6, <1>8, <1>9 DEF Posting

\* A call that goes on or ends keeps to its slots.
LEMMA CallInvKept ==
  ASSUME CallInv, NEW c \in Callers,
         \A d \in Callers \ {c} : posting'[d] = posting[d],
         Posting(c)' => CallOK(c)',
         c = Worker => wpc = "run",
         UNCHANGED <<write_offset, wpc>>,
         \A p \in Priorities : write_offset[p] <= produced'
  PROVE  CallInv'
<1>1. ASSUME NEW d \in Callers, Posting(d)' PROVE CallOK(d)' /\ (d = Worker => wpc' = "run")
  <2>1. CASE d = c
    BY <1>1, <2>1
  <2>2. CASE d # c
    BY <1>1, <2>2 DEF CallInv, CallOK, Posting
  <2> QED
    BY <2>1, <2>2
<1> QED
  BY <1>1 DEF CallInv, Callers

\* The same for the item that is done with.
LEMMA NextCallKeeps ==
  ASSUME TypeOK, CallInv, NEW c \in Callers,
         posting[c].at \in {"write", "wake", "count"}, NextItem(c),
         UNCHANGED <<write_offset, wpc, produced>>
  PROVE  CallInv'
<1>1. Posting(c) /\ CallOK(c) /\ (c = Worker => wpc = "run")
  BY DEF CallInv, Posting
<1>2. /\ \A d \in Callers \ {c} : posting'[d] = posting[d]
      /\ posting'[c].at \in {"none", "write", "next", "load"}
      /\ Posting(c)' => /\ posting'[c].at = "write" => posting'[c].left # 0
                        /\ posting'[c].idx + posting'[c].left = posting[c].idx + posting[c].left
                        /\ posting'[c].prio = posting[c].prio
  BY NextCall
<1>3. Posting(c)' => CallOK(c)'
  BY <1>1, <1>2 DEF CallOK
<1>4. \A p \in Priorities : write_offset[p] <= produced'
  BY DEF CallInv
<1> QED
  BY <1>1, <1>2, <1>3, <1>4, CallInvKept

\* The exchange of write_element, by what it finds.
LEMMA WriteOutcome ==
  ASSUME TypeOK, CallInv, NEW c \in Callers, Write(c)
  PROVE  LET p == posting[c].prio  i == posting[c].idx
         IN /\ Posting(c) /\ posting[c].at = "write"
            /\ p \in Priorities /\ i \in 0..MaxPosts /\ i < write_offset[p]
            /\ flags' = [flags EXCEPT ![p][i] = "data"]
            /\ posting' \in [Callers -> Calls]
            /\ \A d \in Callers \ {c} : posting'[d] = posting[d]
            /\ IF flags[p][i] = "waiting"
               THEN posting'[c].at = "wake" /\ posting'[c].prio = p
                    /\ posting'[c].idx = i /\ posting'[c].left = posting[c].left
               ELSE posting'[c].at \in {"none", "write", "next", "load"}
            /\ CallInv'
            /\ UNCHANGED <<waitv, write_offset, read_offset, private, counts, worker, woken,
                           yield_priority, ending, produced>>
<1> DEFINE p == posting[c].prio  i == posting[c].idx
<1>1. /\ Posting(c) /\ posting[c] \in Calls /\ posting[c].at = "write"
      /\ CallOK(c) /\ (c = Worker => wpc = "run")
  BY DEF Write, Posting, TypeOK, CallInv
<1>2. p \in Priorities /\ i \in 0..MaxPosts /\ i < write_offset[p]
  <2>1. p \in Priorities /\ i \in Nat /\ posting[c].left \in Nat
    BY <1>1 DEF Calls
  <2>2. i + posting[c].left <= write_offset[p] /\ posting[c].left # 0
    BY <1>1 DEF CallOK
  <2>3. write_offset[p] \in 0..MaxPosts
    BY <2>1 DEF TypeOK
  <2> HIDE DEF i, p
  <2> QED
    BY <2>1, <2>2, <2>3, BoundsAssumption
<1>3. /\ flags' = [flags EXCEPT ![p][i] = "data"]
      /\ UNCHANGED <<waitv, write_offset, read_offset, private, counts, worker, woken,
                     yield_priority, ending, produced>>
  BY DEF Write
<1>4. CASE flags[p][i] = "waiting"
  <2>1. posting' = [posting EXCEPT ![c].at = "wake"]
    BY <1>4 DEF Write
  <2>2. /\ posting'[c] = [posting[c] EXCEPT !.at = "wake"]
        /\ \A d \in Callers \ {c} : posting'[d] = posting[d]
        /\ posting' \in [Callers -> Calls]
    BY <1>1, <2>1 DEF TypeOK, Calls
  <2>3. /\ posting'[c].at = "wake" /\ posting'[c].prio = p
        /\ posting'[c].idx = i /\ posting'[c].left = posting[c].left
    BY <1>1, <2>2 DEF Calls
  <2>4. CallOK(c)'
    BY <1>1, <1>3, <2>3 DEF CallOK
  <2>5. CallInv'
    BY <1>1, <1>3, <2>2, <2>4, CallInvKept DEF worker, CallInv
  <2> QED
    BY <1>1, <1>2, <1>3, <1>4, <2>2, <2>3, <2>5
<1>5. CASE flags[p][i] # "waiting"
  <2>1. NextItem(c)
    BY <1>5 DEF Write
  <2>2. /\ \A d \in Callers \ {c} : posting'[d] = posting[d]
        /\ posting' \in [Callers -> Calls] /\ posting'[c].at \in {"none", "write", "next", "load"}
    BY <1>1, <2>1, NextCall
  <2>3. CallInv'
    BY <1>1, <1>3, <2>1, NextCallKeeps DEF worker
  <2> QED
    BY <1>1, <1>2, <1>3, <1>5, <2>2, <2>3
<1> QED
  BY <1>4, <1>5

LEMMA WriteKeepsBase ==
  ASSUME Base, NEW c \in Callers, Write(c) PROVE Base'
<1> USE DEF Base
<1> DEFINE p == posting[c].prio  i == posting[c].idx
<1>1. /\ p \in Priorities /\ i \in 0..MaxPosts /\ i < write_offset[p]
      /\ flags' = [flags EXCEPT ![p][i] = "data"]
      /\ posting' \in [Callers -> Calls]
      /\ CallInv'
      /\ UNCHANGED <<waitv, write_offset, read_offset, private, counts, worker, woken,
                     yield_priority, ending, produced>>
  BY WriteOutcome
<1> HIDE DEF p, i
<1>2. TypeOK'
  BY <1>1 DEF TypeOK, counts, worker, ending
<1>3. SlotInv'
  <2> SUFFICES ASSUME NEW q \in Priorities PROVE SlotInv!(q)'
    BY DEF SlotInv
  <2>1. CASE q = p
    <3>1. flags'[p] = [flags[p] EXCEPT ![i] = "data"] /\ flags[p] \in [0..MaxPosts -> {"empty", "waiting", "data"}]
      BY <1>1 DEF TypeOK
    <3>2. read_offset[p] \in 0..MaxPosts
      BY <1>1 DEF TypeOK
    <3> QED
      BY <1>1, <2>1, <3>1, <3>2 DEF SlotInv, counts
  <2>2. CASE q # p
    <3>1. flags'[q] = flags[q]
      BY <1>1, <2>2 DEF TypeOK
    <3> QED
      BY <1>1, <3>1 DEF SlotInv, counts
  <2> QED
    BY <2>1, <2>2
<1> QED
  BY <1>1, <1>2, <1>3

LEMMA WakeOutcome ==
  ASSUME TypeOK, CallInv, NEW c \in Callers, Wake(c)
  PROVE  /\ Posting(c) /\ posting[c].at = "wake" /\ posting[c].prio \in Priorities
         /\ Signal(posting[c].idx = read_offset[posting[c].prio])
         /\ posting' \in [Callers -> Calls]
         /\ \A d \in Callers \ {c} : posting'[d] = posting[d]
         /\ posting'[c].at = "count" /\ posting'[c].left = posting[c].left
         /\ CallInv'
         /\ UNCHANGED <<waitv, queueVars, counts, worker, yield_priority, ending, produced>>
<1>1. /\ Posting(c) /\ posting[c] \in Calls /\ posting[c].at = "wake"
      /\ CallOK(c) /\ (c = Worker => wpc = "run")
  BY DEF Wake, Posting, TypeOK, CallInv
<1> PICK woke \in BOOLEAN : posting' = [posting EXCEPT ![c] = [posting[c] EXCEPT !.at = "count", !.woke = woke]]
  BY DEF Wake
<1>2. /\ posting'[c] = [posting[c] EXCEPT !.at = "count", !.woke = woke]
      /\ \A d \in Callers \ {c} : posting'[d] = posting[d]
      /\ posting' \in [Callers -> Calls]
  <2>1. [posting[c] EXCEPT !.at = "count", !.woke = woke] \in Calls
    BY <1>1 DEF Calls
  <2> QED
    BY <2>1 DEF TypeOK
<1>3. /\ posting'[c].at = "count" /\ posting'[c].prio = posting[c].prio
      /\ posting'[c].idx = posting[c].idx /\ posting'[c].left = posting[c].left
  BY <1>1, <1>2 DEF Calls
<1>4. /\ Signal(posting[c].idx = read_offset[posting[c].prio])
      /\ UNCHANGED <<waitv, queueVars, counts, worker, yield_priority, ending, produced>>
  BY DEF Wake
<1>5. CallOK(c)'
  BY <1>1, <1>3, <1>4 DEF CallOK, queueVars
<1>6. CallInv'
  BY <1>1, <1>2, <1>4, <1>5, CallInvKept DEF worker, queueVars, CallInv
<1> QED
  BY <1>1, <1>2, <1>3, <1>4, <1>6 DEF Calls

LEMMA CountOutcome ==
  ASSUME TypeOK, CallInv, NEW c \in Callers, CountWake(c)
  PROVE  /\ Posting(c) /\ posting[c].at = "count" /\ posting[c].prio \in Priorities
         /\ wake_ref_count' = [wake_ref_count EXCEPT ![posting[c].prio] = @ + 1]
         /\ posting' \in [Callers -> Calls]
         /\ \A d \in Callers \ {c} : posting'[d] = posting[d]
         /\ posting'[c].at \in {"none", "write", "next", "load"}
         /\ posting[c].left = 1 => posting'[c].left = 0 /\ posting'[c].at # "write"
         /\ CallInv'
         /\ UNCHANGED <<waitv, queueVars, wait_count, didWait, worker, woken, yield_priority,
                        ending, produced>>
<1>1. Posting(c) /\ posting[c] \in Calls /\ posting[c].at = "count" /\ NextItem(c)
  BY DEF CountWake, Posting, TypeOK
<1>2. /\ wake_ref_count' = [wake_ref_count EXCEPT ![posting[c].prio] = @ + 1]
      /\ UNCHANGED <<waitv, queueVars, wait_count, didWait, worker, woken, yield_priority,
                     ending, produced>>
  BY DEF CountWake
<1>3. CallInv'
  BY <1>1, <1>2, NextCallKeeps DEF worker, queueVars
<1> QED
  BY <1>1, <1>2, <1>3, NextCall DEF Calls

\* The rest of a call, after its last item or between two blocks.
TailStep(c) == NextBlock(c) \/ LoadYield(c) \/ CasYield(c)

LEMMA TailOutcome ==
  ASSUME TypeOK, CallInv, NEW c \in Callers, TailStep(c)
  PROVE  /\ Posting(c) /\ posting[c].at \in {"next", "load", "cas"}
         /\ posting' \in [Callers -> Calls]
         /\ \A d \in Callers \ {c} : posting'[d] = posting[d]
         /\ posting'[c].at \in {"none", "write", "load", "cas"}
         /\ posting[c].left = 0 => posting'[c].left = 0 /\ posting'[c].at # "write"
         /\ yield_priority' \in 0..(Last + 1) /\ yield_priority' <= yield_priority
         /\ CallInv'
         /\ UNCHANGED <<waitv, queueVars, counts, worker, woken, ending, produced>>
<1>1. /\ Posting(c) /\ posting[c] \in Calls /\ posting[c].at \in {"next", "load", "cas"}
      /\ CallOK(c) /\ (c = Worker => wpc = "run")
  BY DEF TailStep, NextBlock, LoadYield, CasYield, Posting, TypeOK, CallInv
<1>2. UNCHANGED <<waitv, queueVars, counts, worker, woken, ending, produced>>
  BY DEF TailStep, NextBlock, LoadYield, CasYield
<1>3. /\ yield_priority' = yield_priority \/ (yield_priority' = posting[c].prio /\ posting[c].prio < yield_priority)
  BY <1>1 DEF TailStep, NextBlock, LoadYield, CasYield, CallOK
<1>4. yield_priority' \in 0..(Last + 1) /\ yield_priority' <= yield_priority
  <2>1. Last \in Nat /\ posting[c].prio \in Nat /\ posting[c].prio <= Last /\ yield_priority \in 0..(Last + 1)
    BY <1>1, PrioritiesFacts DEF TypeOK, Calls
  <2> HIDE DEF Last
  <2> QED
    BY <1>3, <2>1
<1> DEFINE old == posting[c]  new == posting'[c]
<1>5. NotPosting \in Calls /\ NotPosting.at = "none" /\ NotPosting.left = 0
  BY PrioritiesFacts DEF NotPosting, Calls
<1>6. PICK call \in Calls :
        /\ posting' = [posting EXCEPT ![c] = call]
        /\ call.at \in {"none", "write", "load", "cas"}
        /\ call = NotPosting \/ (call.prio = old.prio /\ call.idx = old.idx /\ call.left = old.left)
        /\ call.at = "write" => old.left # 0
        /\ call.at = "cas" => call.prio < call.seen
  <2>1. CASE NextBlock(c)
    <3>1. posting' = [posting EXCEPT ![c] = GoOn(old)]
      BY <2>1 DEF NextBlock
    <3> QED
      BY <1>1, <3>1, GoOnIs
  <2>2. CASE posting' = [posting EXCEPT ![c] = NotPosting]
    BY <1>5, <2>2
  <2>3. CASE TryToLower(c)
    <3>1. CASE yield_priority > old.prio
      <4> DEFINE call == [old EXCEPT !.at = "cas", !.seen = yield_priority]
      <4>1. posting' = [posting EXCEPT ![c] = call]
        BY <2>3, <3>1 DEF TryToLower
      <4>2. yield_priority \in Nat /\ old.prio \in Nat
        <5>1. Last \in Nat /\ yield_priority \in 0..(Last + 1)
          BY PrioritiesFacts DEF TypeOK
        <5>2. old.prio \in Nat
          BY <1>1, PrioritiesFacts DEF Calls
        <5> HIDE DEF Last, old
        <5> QED
          BY <5>1, <5>2
      <4>3. /\ call \in Calls /\ call.at = "cas" /\ call.seen = yield_priority
            /\ call.prio = old.prio /\ call.idx = old.idx /\ call.left = old.left
        BY <1>1, <4>2 DEF Calls
      <4>4. call.prio < call.seen
        BY <3>1, <4>2, <4>3
      <4> HIDE DEF call
      <4> QED
        BY <4>1, <4>3, <4>4
    <3>2. CASE ~(yield_priority > old.prio)
      BY <1>5, <2>3, <3>2 DEF TryToLower
    <3> QED
      BY <3>1, <3>2
  <2> QED
    BY <2>1, <2>2, <2>3 DEF TailStep, LoadYield, CasYield
<1>7. /\ new = call /\ posting' \in [Callers -> Calls]
      /\ \A d \in Callers \ {c} : posting'[d] = posting[d]
  BY <1>6 DEF TypeOK
<1>8. Posting(c)' => CallOK(c)'
  <2> SUFFICES ASSUME call.at # "none" PROVE CallOK(c)'
    BY <1>7 DEF Posting
  <2>1. call.prio = old.prio /\ call.idx = old.idx /\ call.left = old.left
    BY <1>5, <1>6
  <2> QED
    BY <1>1, <1>2, <1>6, <1>7, <2>1 DEF CallOK, queueVars
<1>9. CallInv'
  BY <1>1, <1>2, <1>7, <1>8, CallInvKept DEF worker, queueVars, CallInv
<1>10. old.left = 0 => new.left = 0 /\ new.at # "write"
  BY <1>5, <1>6, <1>7
<1> QED
  BY <1>1, <1>2, <1>4, <1>6, <1>7, <1>9, <1>10

LEMMA PostStepKeepsBase ==
  ASSUME Base, NEW c \in Callers, PostStep(c) PROVE Base'
<1> USE DEF Base
<1>1. CASE Write(c)
  BY <1>1, WriteKeepsBase
<1>2. CASE Wake(c)
  <2>1. /\ posting' \in [Callers -> Calls] /\ CallInv'
        /\ Signal(posting[c].idx = read_offset[posting[c].prio])
        /\ UNCHANGED <<waitv, queueVars, counts, worker, yield_priority, ending, produced>>
    BY <1>2, WakeOutcome
  <2>2. TypeOK'
    BY <2>1 DEF TypeOK, queueVars, counts, worker, ending, Signal
  <2>3. SlotInv'
    BY <2>1 DEF SlotInv, queueVars, counts
  <2> QED
    BY <2>1, <2>2, <2>3
<1>3. CASE CountWake(c)
  <2>1. /\ posting' \in [Callers -> Calls] /\ CallInv' /\ posting[c].prio \in Priorities
        /\ wake_ref_count' = [wake_ref_count EXCEPT ![posting[c].prio] = @ + 1]
        /\ UNCHANGED <<waitv, queueVars, wait_count, didWait, worker, woken, yield_priority,
                       ending, produced>>
    BY <1>3, CountOutcome
  <2>2. wake_ref_count' \in [Priorities -> Nat]
    BY <2>1 DEF TypeOK
  <2>3. TypeOK'
    BY <2>1, <2>2 DEF TypeOK, queueVars, worker, ending
  <2>4. SlotInv'
    BY <2>1 DEF SlotInv, queueVars
  <2> QED
    BY <2>1, <2>3, <2>4
<1>4. CASE TailStep(c)
  <2>1. /\ posting' \in [Callers -> Calls] /\ CallInv' /\ yield_priority' \in 0..(Last + 1)
        /\ UNCHANGED <<waitv, queueVars, counts, worker, woken, ending, produced>>
    BY <1>4, TailOutcome
  <2>2. TypeOK'
    BY <2>1 DEF TypeOK, queueVars, counts, worker, ending
  <2>3. SlotInv'
    BY <2>1 DEF SlotInv, queueVars, counts
  <2> QED
    BY <2>1, <2>2, <2>3
<1> QED
  BY <1>1, <1>2, <1>3, <1>4 DEF PostStep, TailStep

LEMMA PostKeepsBase ==
  ASSUME Base, NEW c \in Callers, NEW p \in Priorities, NEW n \in Counts, NEW bulk \in BOOLEAN,
         Post(c, p, n, bulk)
  PROVE  Base'
<1> USE DEF Base
<1>1. n \in Nat \ {0} /\ produced' = produced + n /\ produced + n <= MaxPosts
  BY BoundsAssumption DEF Post
<1> DEFINE new == [at |-> "write", prio |-> p, idx |-> write_offset[p], left |-> n,
                   bulk |-> bulk, woke |-> FALSE, seen |-> 0]
<1>2. /\ write_offset' = [write_offset EXCEPT ![p] = @ + n]
      /\ posting' = [posting EXCEPT ![c] = new]
      /\ c = Worker => wpc = "run"
      /\ UNCHANGED <<waitv, flags, read_offset, private, counts, worker, woken, yield_priority, ending>>
  BY DEF Post
<1>3. new \in Calls
  BY <1>1 DEF Calls, TypeOK
<1> HIDE DEF new
<1>4. /\ posting' \in [Callers -> Calls] /\ posting'[c] = new
      /\ \A d \in Callers \ {c} : posting'[d] = posting[d]
  BY <1>2, <1>3 DEF TypeOK
<1>5. /\ write_offset' \in [Priorities -> Nat]
      /\ \A q \in Priorities : write_offset[q] <= write_offset'[q] /\ write_offset'[q] <= produced'
  BY SMTT(30), <1>1, <1>2 DEF TypeOK, CallInv
<1>6. write_offset' \in [Priorities -> 0..MaxPosts] /\ produced' \in 0..MaxPosts
  <2>1. produced' \in 0..MaxPosts
    BY <1>1, BoundsAssumption DEF TypeOK
  <2>2. \A q \in Priorities : write_offset'[q] \in 0..MaxPosts
    BY <1>5, <2>1, BoundsAssumption
  <2> QED
    BY <1>5, <2>1, <2>2
<1>7. \A q \in Priorities : read_offset'[q] <= write_offset'[q]
  BY <1>2, <1>5 DEF TypeOK
<1>8. TypeOK'
  BY <1>2, <1>4, <1>6, <1>7 DEF TypeOK, counts, worker, ending
<1>9. SlotInv'
  BY SMTT(30), <1>2, <1>5 DEF SlotInv, counts, TypeOK
<1>10. CallInv'
  <2>1. ASSUME NEW d \in Callers, Posting(d)' PROVE CallOK(d)' /\ (d = Worker => wpc' = "run")
    <3>1. CASE d = c
      <4>1. /\ posting'[d].at = "write" /\ posting'[d].prio = p
            /\ posting'[d].left = n /\ posting'[d].idx = write_offset[p]
        BY <1>4, <3>1 DEF new
      <4>2. write_offset'[p] = write_offset[p] + n
        BY <1>2 DEF TypeOK
      <4>3. n # 0 /\ (d = Worker => wpc' = "run")
        BY <1>1, <1>2, <3>1 DEF worker
      <4>4. write_offset[p] + n <= write_offset[p] + n
        <5>1. write_offset[p] \in Nat
          BY BoundsAssumption DEF TypeOK
        <5> QED
          BY <1>1, <5>1
      <4> HIDE DEF Base
      <4> QED
        BY <4>1, <4>2, <4>3, <4>4 DEF CallOK
    <3>2. CASE d # c
      <4>1. posting'[d] = posting[d] /\ posting[d] \in Calls /\ Posting(d)
        BY <1>4, <2>1, <3>2 DEF Posting, TypeOK
      <4>2. CallOK(d) /\ (d = Worker => wpc = "run")
        BY <4>1 DEF CallInv
      <4>3. /\ posting[d].idx + posting[d].left \in Nat
            /\ write_offset[posting[d].prio] \in Nat /\ write_offset'[posting[d].prio] \in Nat
            /\ write_offset[posting[d].prio] <= write_offset'[posting[d].prio]
        <5>1. posting[d].prio \in Priorities /\ posting[d].idx + posting[d].left \in Nat
          BY <4>1 DEF Calls
        <5>2. \A q \in Priorities : write_offset[q] \in Nat
          BY BoundsAssumption DEF TypeOK
        <5> QED
          BY <1>5, <5>1, <5>2
      <4>4. posting[d].idx + posting[d].left <= write_offset'[posting[d].prio]
        BY <4>2, <4>3 DEF CallOK
      <4> QED
        BY <1>2, <4>1, <4>2, <4>4 DEF CallOK, worker
    <3> QED
      BY <3>1, <3>2
  <2> QED
    BY <2>1, <1>5 DEF CallInv, Callers
<1> QED
  BY <1>8, <1>9, <1>10

\* The worker's private post leaves at most its request to yield.
LEMMA PrivateOutcome ==
  ASSUME TypeOK, CallInv, NEW p \in Priorities, NEW n \in Counts, PostPrivate(p, n)
  PROVE  /\ Worker \in Callers /\ posting[Worker].at = "none" /\ wpc = "run"
         /\ posting' \in [Callers -> Calls]
         /\ \A d \in Callers \ {Worker} : posting'[d] = posting[d]
         /\ posting'[Worker].at \in {"none", "load"}
         /\ produced' \in 0..MaxPosts /\ private' \in [Priorities -> Nat]
         /\ CallInv'
         /\ UNCHANGED <<waitv, flags, write_offset, read_offset, counts, worker, woken, yield_priority, ending>>
<1> DEFINE call == [NotPosting EXCEPT !.prio = p]  new == EndOfCall(call)
<1>1. call \in Calls /\ call.prio = p /\ call.idx = 0 /\ call.left = 0
  BY DEF NotPosting, Calls
<1>2. /\ Worker \in Callers /\ posting[Worker].at = "none" /\ wpc = "run"
      /\ posting' = [posting EXCEPT ![Worker] = new]
      /\ UNCHANGED <<waitv, flags, write_offset, read_offset, counts, worker, woken, yield_priority, ending>>
  BY DEF PostPrivate, Callers
<1>3. /\ n \in Nat /\ produced' = produced + n /\ produced' \in 0..MaxPosts
      /\ private' \in [Priorities -> Nat]
  <2>1. /\ n \in Nat /\ produced' = produced + n /\ produced + n <= MaxPosts
        /\ private' = [private EXCEPT ![p] = @ + n]
    BY BoundsAssumption DEF PostPrivate
  <2>2. produced \in 0..MaxPosts /\ private \in [Priorities -> Nat] /\ MaxPosts \in Nat
    BY BoundsAssumption DEF TypeOK
  <2> QED
    BY <2>1, <2>2
<1> HIDE DEF call
<1>4. /\ new \in Calls /\ new.at \in {"none", "load"}
      /\ new = NotPosting \/ (new.prio = p /\ new.idx = 0 /\ new.left = 0)
  BY <1>1, EndOfCallIs
<1> HIDE DEF new
<1>5. /\ posting' \in [Callers -> Calls] /\ posting'[Worker] = new
      /\ \A d \in Callers \ {Worker} : posting'[d] = posting[d]
  BY <1>2, <1>4 DEF TypeOK
<1>6. Posting(Worker)' => CallOK(Worker)'
  <2> SUFFICES ASSUME new.at # "none" PROVE CallOK(Worker)'
    BY <1>5 DEF Posting
  <2>1. new.at = "load" /\ new.prio = p /\ new.idx = 0 /\ new.left = 0
    BY <1>4 DEF NotPosting
  <2>2. 0 <= write_offset[p]
    BY BoundsAssumption DEF TypeOK
  <2> QED
    BY <1>2, <1>5, <2>1, <2>2 DEF CallOK
<1>7. \A q \in Priorities : write_offset[q] <= produced'
  <2>1. \A q \in Priorities : write_offset[q] <= produced /\ write_offset[q] \in Nat
    BY BoundsAssumption DEF CallInv, TypeOK
  <2>2. produced \in Nat
    BY BoundsAssumption DEF TypeOK
  <2> QED
    BY <1>3, <2>1, <2>2
<1>8. CallInv'
  BY <1>2, <1>5, <1>6, <1>7, CallInvKept DEF worker
<1> QED
  BY <1>2, <1>3, <1>4, <1>5, <1>8

LEMMA PrivateKeepsBase ==
  ASSUME Base, NEW p \in Priorities, NEW n \in Counts, PostPrivate(p, n) PROVE Base'
<1> USE DEF Base
<1>1. /\ posting' \in [Callers -> Calls] /\ CallInv'
      /\ produced' \in 0..MaxPosts /\ private' \in [Priorities -> Nat]
      /\ UNCHANGED <<waitv, flags, write_offset, read_offset, counts, worker, woken, yield_priority, ending>>
  BY PrivateOutcome
<1>2. TypeOK'
  BY <1>1 DEF TypeOK, counts, worker, ending
<1>3. SlotInv'
  BY <1>1 DEF SlotInv, counts
<1> QED
  BY <1>1, <1>2, <1>3

LEMMA PopKeepsBase ==
  ASSUME Base, PopPrivate PROVE Base'
<1> USE DEF Base
<1>1. /\ private' \in [Priorities -> Nat] /\ wpc' = "start" /\ wprio' \in Priorities
      /\ wpc # "run"
      /\ UNCHANGED <<waitv, flags, write_offset, read_offset, counts, woken, yield_priority, ending, produced, posting>>
  BY SMTT(30), PrioritiesFacts DEF PopPrivate, TypeOK, At
<1>2. TypeOK'
  BY <1>1 DEF TypeOK, counts, ending
<1>3. SlotInv'
  BY <1>1 DEF SlotInv, counts
<1>4. CallInv'
  BY <1>1 DEF CallInv, CallOK, Posting
<1> QED
  BY <1>2, <1>3, <1>4

LEMMA BaseStep ==
  ASSUME Base, [Next]_vars PROVE Base'
<1>1. CASE WorkerStep
  <2>1. CASE QuietStep
    BY <2>1, QuietKeepsBase
  <2>2. CASE PopPrivate
    BY <2>2, PopKeepsBase
  <2>3. CASE TryPull
    BY <2>3, TakeKeepsBase DEF TryPull, Base, TypeOK
  <2>4. CASE Pull /\ Filled(wprio)
    BY <2>4, TakeKeepsBase DEF Pull, Base, TypeOK
  <2>5. CASE Pull /\ ~Filled(wprio)
    BY <2>5, PullKeepsBase
  <2> QED
    BY <1>1, <2>1, <2>2, <2>3, <2>4, <2>5 DEF WorkerStep, QuietStep
<1>2. ASSUME NEW c \in Callers, PostStep(c) PROVE Base'
  BY <1>2, PostStepKeepsBase
<1>3. ASSUME NEW c \in Callers, NEW p \in Priorities, NEW n \in Counts, NEW bulk \in BOOLEAN,
             Post(c, p, n, bulk)
      PROVE  Base'
  BY <1>3, PostKeepsBase
<1>4. ASSUME NEW p \in Priorities, NEW n \in Counts, PostPrivate(p, n) PROVE Base'
  BY <1>4, PrivateKeepsBase
<1>5. CASE BeginTeardown \/ TeardownStep
  BY <1>5, TeardownKeepsBase
<1>6. CASE UNCHANGED vars
  BY <1>6 DEF Base, TypeOK, SlotInv, CallInv, CallOK, Posting, vars, queueVars, counts, worker, ending
<1> QED
  BY <1>1, <1>2, <1>3, <1>4, <1>5, <1>6 DEF Next
-----------------------------------------------------------------------------
(* Nobody sleeps over an item. *)

\* The priorities whose slot the worker, on its way to sleep, has announced.
Announced ==
  IF wpc = "pull" THEN {p \in Priorities : p < wprio}
  ELSE IF wpc \in {"stopCheck", "recheck", "sleep", "asleep"} THEN Priorities
  ELSE {}

\* The worker sleeps, or will compare the word, and no wake has reached it.
Watching == wpc \in (IF waitv THEN {"asleep"} ELSE Comparing) /\ ~woken

SomebodyWakes(p) ==
  \E c \in Callers : posting[c].at = "wake" /\ posting[c].prio = p /\ posting[c].idx = read_offset[p]

SleepInv ==
  /\ Announced \subseteq didWait
  /\ Watching => \A p \in Announced : Filled(p) => SomebodyWakes(p)

\* How far teardown got, what the worker sees of it, and who has yet to be told.
StopInv ==
  /\ stop.requested <=> down \notin {"up", "request"}
  /\ stop.wait <=> down \notin {"up", "request", "store"}
  /\ Watching /\ wpc \in {"recheck", "sleep", "asleep"} /\ stop.requested => down \in {"store", "wake"}
  /\ down \in {"count", "compare", "gone"} => wpc = "exited"

Watch == SleepInv /\ StopInv

\* The worker turns away from sleep, or has not come to it.
LEMMA UnwatchedKeeps ==
  ASSUME StopInv, wpc # "exited", wpc' \in {"top", "scan", "start", "run", "spin", "exited"},
         UNCHANGED <<waitv, ending>>
  PROVE  Watch'
<1>1. Announced' = {} /\ ~Watching'
  BY DEF Announced, Watching, Comparing
<1>2. SleepInv'
  BY <1>1 DEF SleepInv
<1>3. StopInv'
  BY <1>1 DEF StopInv, ending
<1> QED
  BY <1>2, <1>3 DEF Watch

\* A step of a producer that neither fills a slot nor signals.
LEMMA CallKeepsWatch ==
  ASSUME Watch,
         \A p \in Priorities : SomebodyWakes(p) => SomebodyWakes(p)',
         UNCHANGED <<waitv, flags, read_offset, didWait, worker, woken, ending>>
  PROVE  Watch'
<1>1. Announced' = Announced /\ Watching' = Watching
  BY DEF Announced, Watching, Comparing, worker
<1>2. \A p : Filled(p)' = Filled(p)
  BY DEF Filled
<1>3. Announced \subseteq Priorities
  BY DEF Announced
<1>4. SleepInv'
  BY <1>1, <1>2, <1>3 DEF SleepInv, Watch
<1>5. StopInv'
  BY <1>1 DEF StopInv, Watch, ending, worker
<1> QED
  BY <1>4, <1>5 DEF Watch

\* A signal reaches whoever watches, on the shared word wherever the item is.
LEMMA SignalEndsWatch ==
  ASSUME NEW onFutex \in BOOLEAN, Signal(onFutex), onFutex \/ ~waitv, UNCHANGED <<waitv, wpc>>
  PROVE  ~Watching'
BY DEF Signal, Watching, Comparing

LEMMA SomebodyStill ==
  ASSUME NEW c \in Callers,
         posting[c].at # "wake" \/ posting[c].idx # read_offset[posting[c].prio],
         \A d \in Callers \ {c} : posting'[d] = posting[d], read_offset' = read_offset
  PROVE  \A p \in Priorities : SomebodyWakes(p) => SomebodyWakes(p)'
BY DEF SomebodyWakes

LEMMA WriteKeepsWatch ==
  ASSUME Base, Watch, NEW c \in Callers, Write(c) PROVE Watch'
<1> DEFINE p == posting[c].prio  i == posting[c].idx
<1>1. /\ p \in Priorities /\ i \in 0..MaxPosts /\ posting[c].at = "write"
      /\ flags' = [flags EXCEPT ![p][i] = "data"]
      /\ \A d \in Callers \ {c} : posting'[d] = posting[d]
      /\ flags[p][i] = "waiting" => /\ posting'[c].at = "wake" /\ posting'[c].prio = p
                                    /\ posting'[c].idx = i
      /\ UNCHANGED <<waitv, read_offset, counts, worker, woken, ending>>
  BY WriteOutcome DEF Base
<1> HIDE DEF p, i
<1>2. Announced' = Announced /\ Watching' = Watching
  BY <1>1 DEF Announced, Watching, Comparing, worker
<1>3. Announced \subseteq Priorities
  BY DEF Announced
<1>4. StopInv'
  BY <1>1, <1>2 DEF StopInv, Watch, ending, worker
<1>5. ASSUME Watching, NEW q \in Announced, Filled(q)' PROVE SomebodyWakes(q)'
  <2>1. q \in Priorities /\ q \in didWait
    BY <1>3 DEF Watch, SleepInv
  <2>2. read_offset[q] \in 0..MaxPosts /\ read_offset' = read_offset
        /\ flags \in [Priorities -> [0..MaxPosts -> {"empty", "waiting", "data"}]]
    BY <1>1, <2>1 DEF Base, TypeOK
  <2>3. CASE Filled(q)
    <3>1. SomebodyWakes(q)
      BY <1>5, <2>3 DEF Watch, SleepInv
    <3> QED
      BY <1>1, <2>1, <3>1, SomebodyStill
  <2>4. CASE ~Filled(q)
    <3>1. flags[q][read_offset[q]] = "waiting"
      BY <2>1, <2>4 DEF Base, SlotInv, Filled
    <3>2. q = p /\ i = read_offset[q]
      BY <1>1, <1>5, <2>1, <2>2, <3>1 DEF Filled
    <3> QED
      BY <1>1, <3>1, <3>2 DEF SomebodyWakes
  <2> QED
    BY <2>3, <2>4
<1>6. SleepInv'
  BY <1>1, <1>2, <1>5 DEF SleepInv, Watch, counts
<1> QED
  BY <1>4, <1>6 DEF Watch

LEMMA PostStepKeepsWatch ==
  ASSUME Base, Watch, NEW c \in Callers, PostStep(c) PROVE Watch'
<1>1. CASE Write(c)
  BY <1>1, WriteKeepsWatch
<1>2. CASE Wake(c)
  <2> DEFINE onFutex == posting[c].idx = read_offset[posting[c].prio]
  <2>1. /\ Signal(onFutex) /\ \A d \in Callers \ {c} : posting'[d] = posting[d]
        /\ UNCHANGED <<waitv, queueVars, counts, worker, ending>>
    BY <1>2, WakeOutcome DEF Base
  <2>2. CASE onFutex \/ ~waitv
    <3>1. ~Watching'
      BY <2>1, <2>2, SignalEndsWatch DEF worker
    <3>2. Announced' = Announced
      BY <2>1 DEF Announced, worker
    <3> QED
      BY <2>1, <3>1, <3>2 DEF Watch, SleepInv, StopInv, counts, worker, ending
  <2>3. CASE ~onFutex /\ waitv
    <3>1. woken' = woken
      BY <2>1, <2>3 DEF Signal, Base, TypeOK
    <3>2. \A p \in Priorities : SomebodyWakes(p) => SomebodyWakes(p)'
      BY <2>1, <2>3, SomebodyStill DEF queueVars
    <3> QED
      BY <2>1, <3>1, <3>2, CallKeepsWatch DEF queueVars, counts
  <2> QED
    BY <2>2, <2>3
<1>3. CASE CountWake(c)
  <2>1. /\ posting[c].at = "count" /\ \A d \in Callers \ {c} : posting'[d] = posting[d]
        /\ UNCHANGED <<waitv, queueVars, didWait, worker, woken, ending>>
    BY <1>3, CountOutcome DEF Base
  <2>2. \A p \in Priorities : SomebodyWakes(p) => SomebodyWakes(p)'
    BY <2>1, SomebodyStill DEF queueVars
  <2> QED
    BY <2>1, <2>2, CallKeepsWatch DEF queueVars
<1>4. CASE TailStep(c)
  <2>1. /\ posting[c].at # "wake" /\ \A d \in Callers \ {c} : posting'[d] = posting[d]
        /\ UNCHANGED <<waitv, queueVars, counts, worker, woken, ending>>
    BY <1>4, TailOutcome DEF Base
  <2>2. \A p \in Priorities : SomebodyWakes(p) => SomebodyWakes(p)'
    BY <2>1, SomebodyStill DEF queueVars
  <2> QED
    BY <2>1, <2>2, CallKeepsWatch DEF queueVars, counts
<1> QED
  BY <1>1, <1>2, <1>3, <1>4 DEF PostStep, TailStep

LEMMA PostKeepsWatch ==
  ASSUME Base, Watch, NEW c \in Callers, NEW p \in Priorities, NEW n \in Counts, NEW bulk \in BOOLEAN,
         Post(c, p, n, bulk)
  PROVE  Watch'
<1>1. /\ posting[c].at # "wake" /\ \A d \in Callers \ {c} : posting'[d] = posting[d]
      /\ UNCHANGED <<waitv, flags, read_offset, didWait, worker, woken, ending>>
  BY DEF Post, Base, TypeOK, counts
<1>2. \A q \in Priorities : SomebodyWakes(q) => SomebodyWakes(q)'
  BY <1>1, SomebodyStill
<1> QED
  BY <1>1, <1>2, CallKeepsWatch

LEMMA PrivateKeepsWatch ==
  ASSUME Base, Watch, NEW p \in Priorities, NEW n \in Counts, PostPrivate(p, n) PROVE Watch'
<1>1. /\ Worker \in Callers /\ posting[Worker].at = "none"
      /\ \A d \in Callers \ {Worker} : posting'[d] = posting[d]
      /\ UNCHANGED <<waitv, flags, read_offset, counts, worker, woken, ending>>
  BY PrivateOutcome DEF Base
<1>2. \A q \in Priorities : SomebodyWakes(q) => SomebodyWakes(q)'
  BY <1>1, SomebodyStill
<1> QED
  BY <1>1, <1>2, CallKeepsWatch DEF counts

\* The worker announces a slot.
LEMMA PullKeepsWatch ==
  ASSUME Base, Watch, Pull, ~Filled(wprio) PROVE Watch'
<1> DEFINE p == wprio  r == read_offset[wprio]
<1>1. p \in Priorities /\ r \in 0..MaxPosts
  BY DEF Base, TypeOK
<1>2. /\ flags' = [flags EXCEPT ![p][r] = "waiting"]
      /\ didWait' = didWait \cup {p}
      /\ UNCHANGED <<waitv, read_offset, woken, ending, posting>>
      /\ wpc = "pull"
      /\ IF p = Last THEN wpc' = "stopCheck" ELSE wpc' = "pull" /\ wprio' = p + 1
  BY DEF Pull, At
<1>3. Announced' = Announced \cup {p} /\ Announced = {q \in Priorities : q < p}
  <2>1. \A q \in Priorities : q \in Nat /\ q <= Last
    BY PrioritiesFacts
  <2>2. Announced = {q \in Priorities : q < p}
    BY <1>2 DEF Announced, p
  <2>3. CASE p = Last
    <3>1. Announced' = Priorities
      BY <1>2, <2>3 DEF Announced
    <3> QED
      BY <1>1, <2>1, <2>2, <2>3, <3>1
  <2>4. CASE p # Last
    <3>1. Announced' = {q \in Priorities : q < p + 1}
      BY <1>2, <2>4 DEF Announced
    <3> HIDE DEF p
    <3> QED
      BY <1>1, <2>1, <2>2, <3>1
  <2> QED
    BY <2>3, <2>4
<1>4. Watching' = Watching
  BY <1>2 DEF Watching, Comparing
<1>5. r = read_offset[p]
  BY DEF p, r
<1> HIDE DEF p, r
<1>6. ASSUME Watching, NEW q \in Announced', Filled(q)' PROVE SomebodyWakes(q)'
  <2>1. q \in Priorities /\ flags \in [Priorities -> [0..MaxPosts -> {"empty", "waiting", "data"}]]
    BY <1>1, <1>3 DEF Base, TypeOK
  <2>2. q # p
    BY <1>1, <1>2, <1>5, <1>6, <2>1 DEF Filled
  <2>3. q \in Announced /\ Filled(q)
    BY <1>1, <1>2, <1>3, <1>6, <2>1, <2>2 DEF Filled
  <2>4. SomebodyWakes(q)
    BY <1>6, <2>3 DEF Watch, SleepInv
  <2> QED
    BY <1>2, <2>4 DEF SomebodyWakes
<1>7. SleepInv'
  BY <1>2, <1>3, <1>4, <1>6 DEF SleepInv, Watch
<1>8. StopInv'
  BY <1>2 DEF StopInv, Watch, ending
<1> QED
  BY <1>7, <1>8 DEF Watch

\* The worker goes on to the next check before it sleeps.
LEMMA CheckKeepsWatch ==
  ASSUME Base, Watch, StopCheck \/ Recheck \/ Sleep,
         wpc' \in {"recheck", "sleep", "asleep"}
  PROVE  Watch'
<1>1. UNCHANGED <<waitv, queueVars, counts, woken, ending, produced, posting>>
  BY DEF StopCheck, Recheck, Sleep
<1>2. Announced = Priorities /\ Announced' = Priorities
  BY DEF Announced, StopCheck, Recheck, Sleep
<1>3. \A p : Filled(p)' = Filled(p) /\ SomebodyWakes(p)' = SomebodyWakes(p)
  BY <1>1 DEF Filled, SomebodyWakes, queueVars
<1>4. CASE waitv
  <2>1. CASE Sleep
    <3>1. ~stop.wait /\ \A p \in Priorities : ~Filled(p)
      BY <1>4, <2>1 DEF Sleep, At
    <3>2. SleepInv'
      BY <1>1, <1>2, <1>3, <3>1 DEF SleepInv, Watch, counts
    <3>3. stop.requested => down = "store"
      BY <3>1 DEF Watch, StopInv, Base, TypeOK
    <3>4. down \notin {"count", "compare", "gone"}
      BY <2>1 DEF Watch, StopInv, Sleep
    <3> QED
      BY <1>1, <3>2, <3>3, <3>4 DEF Watch, StopInv, ending
  <2>2. CASE ~Sleep
    <3>1. ~Watching' /\ wpc # "exited"
      BY <1>1, <1>4, <2>2 DEF Watching, StopCheck, Recheck, At
    <3> QED
      BY <1>1, <1>2, <3>1 DEF Watch, SleepInv, StopInv, counts, ending
  <2> QED
    BY <2>1, <2>2
<1>5. CASE ~waitv
  <2>1. Watching' = Watching
    BY <1>1, <1>5 DEF Watching, Comparing, StopCheck, Recheck, Sleep
  <2>2. SleepInv'
    BY <1>1, <1>2, <1>3, <2>1 DEF SleepInv, Watch, counts
  <2>3. wpc \in {"recheck", "sleep"} \/ ~stop.requested
    BY DEF StopCheck, Recheck, Sleep, At
  <2>4. wpc # "exited"
    BY DEF StopCheck, Recheck, Sleep
  <2> QED
    BY <1>1, <2>1, <2>2, <2>3, <2>4 DEF Watch, StopInv, ending
<1> QED
  BY <1>4, <1>5

LEMMA WorkerKeepsWatch ==
  ASSUME Base, Watch, WorkerStep PROVE Watch'
<1> DEFINE Away == wpc' \in {"top", "scan", "start", "run", "spin", "exited"}
<1>1. UNCHANGED <<waitv, ending>> /\ wpc # "exited"
  BY DEF WorkerStep, Top, PopPrivate, TryPull, NothingHere, RunOne, ItemEnds, Spin, Pull, StopCheck, Recheck, Sleep, WakeUp
<1>2. CASE Away
  BY <1>1, <1>2, UnwatchedKeeps DEF Watch
<1>3. CASE ~Away
  <2>1. CASE Spin
    <3>1. wpc' = "pull" /\ wprio' = 0
      BY <1>3, <2>1 DEF Spin, At
    <3>2. Announced' = {}
      <4>1. \A p \in Priorities : ~(p < 0)
        BY PrioritiesFacts
      <4> QED
        BY <3>1, <4>1 DEF Announced
    <3> QED
      BY <1>1, <2>1, <3>1, <3>2 DEF Watch, SleepInv, StopInv, ending, Spin
  <2>2. CASE Pull
    <3>1. ~Filled(wprio)
      BY <1>3, <2>2 DEF Pull, TakeItem, At
    <3> QED
      BY <2>2, <3>1, PullKeepsWatch
  <2>3. CASE StopCheck \/ Recheck \/ Sleep
    <3>1. wpc' \in {"recheck", "sleep", "asleep"}
      BY <1>3, <2>3 DEF StopCheck, Recheck, Sleep, At
    <3> QED
      BY <2>3, <3>1, CheckKeepsWatch
  <2> QED
    BY <1>3, <2>1, <2>2, <2>3 DEF WorkerStep, Top, PopPrivate, TryPull, TakeItem, NothingHere, RunOne, ItemEnds, WakeUp, At
<1> QED
  BY <1>2, <1>3

LEMMA TeardownKeepsWatch ==
  ASSUME Base, Watch, BeginTeardown \/ TeardownStep PROVE Watch'
<1>1. UNCHANGED <<waitv, queueVars, counts, worker, posting>>
  BY DEF BeginTeardown, TeardownStep, RequestStop, StoreStopWait, StopWake, Join, CountWakes, Compare
<1>2. /\ Announced' = Announced
      /\ \A p : Filled(p)' = Filled(p) /\ SomebodyWakes(p)' = SomebodyWakes(p)
  BY <1>1 DEF Announced, Filled, SomebodyWakes, queueVars, worker
<1>3. Watching' => Watching
  BY <1>1 DEF Watching, Comparing, worker, BeginTeardown, TeardownStep, RequestStop, StoreStopWait,
              StopWake, Signal, Join, CountWakes, Compare
<1>4. SleepInv'
  BY <1>1, <1>2, <1>3 DEF SleepInv, Watch, counts
<1>5. stop \in [requested : BOOLEAN, wait : BOOLEAN] /\ wpc' = wpc
  BY <1>1 DEF Base, TypeOK, worker
<1>6. StopInv'
  <2>1. CASE BeginTeardown
    BY <2>1, <1>3, <1>5 DEF StopInv, Watch, BeginTeardown
  <2>2. CASE RequestStop
    BY <2>2, <1>3, <1>5 DEF StopInv, Watch, RequestStop
  <2>3. CASE StoreStopWait
    BY <2>3, <1>3, <1>5 DEF StopInv, Watch, StoreStopWait
  <2>4. CASE StopWake
    <3>1. ~Watching'
      BY <2>4, <1>1, SignalEndsWatch DEF StopWake, worker
    <3> QED
      BY <2>4, <3>1, <1>5 DEF StopInv, Watch, StopWake
  <2>5. CASE Join
    BY <2>5, <1>5 DEF StopInv, Watch, Join
  <2>6. CASE CountWakes
    BY <2>6, <1>5 DEF StopInv, Watch, CountWakes
  <2>7. CASE Compare
    BY <2>7, <1>5 DEF StopInv, Watch, Compare
  <2> QED
    BY <2>1, <2>2, <2>3, <2>4, <2>5, <2>6, <2>7 DEF TeardownStep
<1> QED
  BY <1>4, <1>6 DEF Watch

LEMMA WatchStep ==
  ASSUME Base, Watch, [Next]_vars PROVE Watch'
<1>1. CASE WorkerStep
  BY <1>1, WorkerKeepsWatch
<1>2. ASSUME NEW c \in Callers, PostStep(c) PROVE Watch'
  BY <1>2, PostStepKeepsWatch
<1>3. ASSUME NEW c \in Callers, NEW p \in Priorities, NEW n \in Counts, NEW bulk \in BOOLEAN,
             Post(c, p, n, bulk)
      PROVE  Watch'
  BY <1>3, PostKeepsWatch
<1>4. ASSUME NEW p \in Priorities, NEW n \in Counts, PostPrivate(p, n) PROVE Watch'
  BY <1>4, PrivateKeepsWatch
<1>5. CASE BeginTeardown \/ TeardownStep
  BY <1>5, TeardownKeepsWatch
<1>6. CASE UNCHANGED vars
  <2>1. \A p \in Priorities : SomebodyWakes(p) => SomebodyWakes(p)'
    BY <1>6 DEF vars, queueVars, SomebodyWakes
  <2> QED
    BY <1>6, <2>1, CallKeepsWatch DEF vars, queueVars, counts
<1> QED
  BY <1>1, <1>2, <1>3, <1>4, <1>5, <1>6 DEF Next

LEMMA WatchInit == Init => Watch
<1> SUFFICES ASSUME Init PROVE Watch
  OBVIOUS
<1>1. Announced = {} /\ ~Watching
  BY DEF Init, Announced, Watching, Comparing
<1> QED
  BY <1>1 DEF Init, Watch, SleepInv, StopInv
-----------------------------------------------------------------------------
(* Teardown ends after the last wake. *)

\* Callers that have filled an announced slot and are not done with the wake.
Owing == {c \in Callers : posting[c].at \in {"wake", "count"}}

\* Announced slots that are filled and not taken: the worker will count them.
Due == {p \in didWait : Filled(p)}

\* The counts f of all priorities, as a set with one element per unit.
Units(f) == {x \in Priorities \X Nat : 1 <= x[2] /\ x[2] <= f[x[1]]}

\* What producers have counted and what they will count is what the worker has counted
\* and what it will count.
CountInv ==
  /\ IsFiniteSet(Units(wake_ref_count)) /\ IsFiniteSet(Owing) /\ IsFiniteSet(Due)
  /\ Cardinality(Units(wake_ref_count)) + Cardinality(Owing) = wait_count + Cardinality(Due)

\* The units that teardown's loop has come past.
Passed(f) == {x \in Units(f) : down = "compare" \/ x[1] < tally.prio}

\* Once teardown has begun, nothing is left to take, and who is inside post has no slot to
\* fill.  The sum counts no more than what is there now.
EndInv ==
  /\ IF down \in {"count", "compare"} THEN tally.sum <= Cardinality(Passed(wake_ref_count))
     ELSE tally = [prio |-> 0, sum |-> 0]
  /\ down # "up" =>
       /\ \A p \in Priorities : read_offset[p] = write_offset[p]
       /\ \A c \in Outside : AllPublished(posting[c])
  /\ down = "gone" => Owing = {}

LEMMA OneMore ==
  ASSUME NEW S, NEW x, IsFiniteSet(S), x \notin S
  PROVE  IsFiniteSet(S \cup {x}) /\ Cardinality(S \cup {x}) = Cardinality(S) + 1
BY FS_AddElement

LEMMA OneLess ==
  ASSUME NEW S, NEW x \in S, IsFiniteSet(S)
  PROVE  IsFiniteSet(S \ {x}) /\ Cardinality(S \ {x}) + 1 = Cardinality(S)
BY FS_RemoveElement, FS_CardinalityType

\* One count goes up by one.
LEMMA UnitsGrow ==
  ASSUME NEW f \in [Priorities -> Nat], NEW p \in Priorities
  PROVE  LET g == [f EXCEPT ![p] = @ + 1]
         IN Units(g) = Units(f) \cup {<<p, f[p] + 1>>} /\ <<p, f[p] + 1>> \notin Units(f)
<1> DEFINE g == [f EXCEPT ![p] = f[p] + 1]  u == <<p, f[p] + 1>>
<1>1. g \in [Priorities -> Nat] /\ g[p] = f[p] + 1 /\ \A q \in Priorities \ {p} : g[q] = f[q]
  OBVIOUS
<1>2. f[p] \in Nat
  OBVIOUS
<1> HIDE DEF g
<1>3. ASSUME NEW x \in Units(f) PROVE x \in Units(g)
  <2>1. x \in Priorities \X Nat /\ 1 <= x[2] /\ x[2] <= f[x[1]]
    BY DEF Units
  <2>2. x[1] \in Priorities /\ x[2] \in Nat /\ f[x[1]] \in Nat
    BY <2>1
  <2>3. x[2] <= g[x[1]]
    BY <1>1, <2>1, <2>2
  <2> QED
    BY <2>1, <2>3 DEF Units
<1>4. u \in Units(g) /\ u \notin Units(f)
  BY <1>1, <1>2 DEF Units
<1>5. ASSUME NEW x \in Units(g), x # u PROVE x \in Units(f)
  <2>1. PICK q \in Priorities, n \in Nat : x = <<q, n>> /\ 1 <= n /\ n <= g[q]
    BY DEF Units
  <2>2. n <= f[q]
    <3>1. CASE q = p
      <4>1. n # f[p] + 1
        BY <1>5, <2>1, <3>1
      <4> QED
        BY <1>1, <1>2, <2>1, <3>1, <4>1
    <3>2. CASE q # p
      BY <1>1, <2>1, <3>2
    <3> QED
      BY <3>1, <3>2
  <2> QED
    BY <2>1, <2>2 DEF Units
<1>6. Units(g) = Units(f) \cup {u}
  BY <1>3, <1>4, <1>5
<1> QED
  BY <1>4, <1>6 DEF g

\* A priority has as many units as its count.
LEMMA UnitsOf ==
  ASSUME NEW f \in [Priorities -> Nat], NEW p \in Priorities
  PROVE  LET S == {x \in Units(f) : x[1] = p}
         IN IsFiniteSet(S) /\ Cardinality(S) = f[p]
<1> DEFINE S == {x \in Units(f) : x[1] = p}
           n == f[p]
           h == [i \in 1..n |-> <<p, i>>]
<1>1. n \in Nat
  OBVIOUS
<1>2. h \in Bijection(1..n, S)
  <2>1. \A i \in 1..n : h[i] \in S
    BY DEF Units
  <2>2. \A i, j \in 1..n : h[i] = h[j] => i = j
    OBVIOUS
  <2>3. ASSUME NEW x \in S PROVE \E i \in 1..n : h[i] = x
    <3>1. PICK q \in Priorities, i \in Nat : x = <<q, i>> /\ 1 <= i /\ i <= f[q]
      BY DEF Units
    <3>2. q = p
      BY <2>3, <3>1
    <3>3. i \in 1..n /\ h[i] = x
      BY <3>1, <3>2
    <3> QED
      BY <3>3
  <2> HIDE DEF h, S, n
  <2>4. h \in [1..n -> S]
    BY <2>1 DEF h
  <2> QED
    BY <2>2, <2>3, <2>4 DEF Bijection, Injection, Surjection, IsInjective
<1> HIDE DEF S, n, h
<1>3. IsFiniteSet(1..n) /\ Cardinality(1..n) = n
  BY <1>1, FS_Interval
<1>4. IsFiniteSet(S) /\ Cardinality(S) = Cardinality(1..n)
  BY <1>2, <1>3, FS_Bijection DEF ExistsBijection
<1> QED
  BY <1>3, <1>4 DEF S, n

LEMMA CountInit == Init => CountInv
<1> SUFFICES ASSUME Init PROVE CountInv
  OBVIOUS
<1>1. Units(wake_ref_count) = {} /\ Owing = {} /\ Due = {}
  BY DEF Init, Units, Owing, Due, NotPosting
<1> QED
  BY <1>1, FS_EmptySet DEF CountInv, Init

LEMMA CountSame ==
  ASSUME CountInv, Owing' = Owing, Due' = Due, UNCHANGED <<wake_ref_count, wait_count>>
  PROVE  CountInv'
BY DEF CountInv

LEMMA DueSame ==
  ASSUME UNCHANGED <<flags, read_offset, didWait>> PROVE Due' = Due
BY DEF Due, Filled

LEMMA OwingSame ==
  ASSUME NEW c \in Callers, \A d \in Callers \ {c} : posting'[d] = posting[d],
         posting[c].at \in {"wake", "count"} <=> posting'[c].at \in {"wake", "count"}
  PROVE  Owing' = Owing
BY DEF Owing

LEMMA TakeKeepsCount ==
  ASSUME Base, CountInv, NEW p \in Priorities, Filled(p), TakeItem(p),
         UNCHANGED <<flags, wake_ref_count, posting>>
  PROVE  CountInv'
<1>1. Owing' = Owing
  BY DEF Owing
<1>2. \A q \in Priorities \ {p} : Filled(q)' = Filled(q)
  BY DEF Base, TypeOK, TakeItem, Filled
<1>3. didWait \subseteq Priorities /\ didWait' = didWait \ {p}
  BY DEF Base, TypeOK, TakeItem
<1>4. Due' = Due \ {p}
  BY <1>2, <1>3 DEF Due
<1>5. CASE p \in didWait
  <2>1. p \in Due /\ wait_count' = wait_count + 1
    BY <1>5 DEF Due, TakeItem
  <2>2. IsFiniteSet(Due') /\ Cardinality(Due') + 1 = Cardinality(Due)
    BY <1>4, <2>1, OneLess DEF CountInv
  <2>3. /\ Cardinality(Units(wake_ref_count)) \in Nat /\ Cardinality(Owing) \in Nat
        /\ Cardinality(Due') \in Nat /\ wait_count \in Nat
    BY <2>2, FS_CardinalityType DEF CountInv, Base, TypeOK
  <2> QED
    BY <1>1, <2>1, <2>2, <2>3 DEF CountInv
<1>6. CASE p \notin didWait
  <2>1. Due' = Due /\ wait_count' = wait_count
    BY <1>4, <1>6 DEF Due, TakeItem
  <2> QED
    BY <1>1, <2>1, CountSame
<1> QED
  BY <1>5, <1>6

LEMMA PullKeepsCount ==
  ASSUME Base, CountInv, Pull, ~Filled(wprio) PROVE CountInv'
<1>0. wprio \in Priorities /\ read_offset[wprio] \in 0..MaxPosts
  BY DEF Base, TypeOK
<1> PICK p \in Priorities, r \in 0..MaxPosts : p = wprio /\ r = read_offset[wprio]
  BY <1>0
<1>1. /\ flags \in [Priorities -> [0..MaxPosts -> {"empty", "waiting", "data"}]] /\ didWait \subseteq Priorities
  BY DEF Base, TypeOK
<1>2. /\ flags' = [flags EXCEPT ![p][r] = "waiting"]
      /\ didWait' = didWait \cup {p}
      /\ UNCHANGED <<read_offset, wait_count, wake_ref_count, posting>>
  BY DEF Pull
<1>3. r = read_offset[p] /\ ~Filled(p)
  OBVIOUS
<1>4. ~Filled(p)' /\ \A q \in Priorities \ {p} : Filled(q)' = Filled(q)
  BY <1>1, <1>2, <1>3 DEF Filled
<1>5. Due' = Due
  BY <1>1, <1>2, <1>3, <1>4 DEF Due
<1>6. Owing' = Owing
  BY <1>2 DEF Owing
<1> QED
  BY <1>2, <1>5, <1>6, CountSame

LEMMA WriteKeepsCount ==
  ASSUME Base, CountInv, NEW c \in Callers, Write(c) PROVE CountInv'
<1>0. posting[c].prio \in Priorities /\ posting[c].idx \in 0..MaxPosts
  BY WriteOutcome DEF Base
<1> PICK p \in Priorities, i \in 0..MaxPosts : p = posting[c].prio /\ i = posting[c].idx
  BY <1>0
<1>1. /\ posting[c].at = "write"
      /\ flags' = [flags EXCEPT ![p][i] = "data"]
      /\ \A d \in Callers \ {c} : posting'[d] = posting[d]
      /\ IF flags[p][i] = "waiting" THEN posting'[c].at = "wake"
         ELSE posting'[c].at \in {"none", "write", "next", "load"}
      /\ UNCHANGED <<read_offset, counts>>
  BY WriteOutcome DEF Base
<1>2. /\ flags \in [Priorities -> [0..MaxPosts -> {"empty", "waiting", "data"}]]
      /\ didWait \subseteq Priorities /\ read_offset \in [Priorities -> 0..MaxPosts]
  BY DEF Base, TypeOK
<1>3. \A q \in Priorities : (q # p \/ i # read_offset[q]) => (Filled(q)' = Filled(q))
  BY <1>1, <1>2 DEF Filled
<1>4. CASE flags[p][i] = "waiting"
  <2>1. p \in didWait /\ i = read_offset[p] /\ ~Filled(p)
    BY <1>1, <1>4 DEF Base, SlotInv, Filled
  <2>2. Filled(p)'
    BY <1>1, <1>2, <2>1 DEF Filled
  <2>3. Due' = Due \cup {p} /\ p \notin Due
    BY <1>1, <1>2, <1>3, <2>1, <2>2 DEF Due, counts
  <2>4. Owing' = Owing \cup {c} /\ c \notin Owing
    BY <1>1, <1>4 DEF Owing
  <2>5. /\ IsFiniteSet(Due') /\ Cardinality(Due') = Cardinality(Due) + 1
        /\ IsFiniteSet(Owing') /\ Cardinality(Owing') = Cardinality(Owing) + 1
    BY <2>3, <2>4, OneMore DEF CountInv
  <2>6. /\ Cardinality(Units(wake_ref_count)) \in Nat /\ Cardinality(Owing) \in Nat
        /\ Cardinality(Due) \in Nat /\ wait_count \in Nat
    BY FS_CardinalityType DEF CountInv, Base, TypeOK
  <2> QED
    <3>1. Units(wake_ref_count)' = Units(wake_ref_count) /\ wait_count' = wait_count
      BY <1>1 DEF counts
    <3> QED
      BY <2>5, <2>6, <3>1 DEF CountInv
<1>5. CASE flags[p][i] # "waiting"
  <2>1. \A q \in didWait : Filled(q)' = Filled(q)
    <3> SUFFICES ASSUME NEW q \in didWait, q = p, i = read_offset[q] PROVE Filled(q)' = Filled(q)
      BY <1>2, <1>3
    <3>1. Filled(q)
      BY <1>2, <1>5 DEF Base, SlotInv, Filled
    <3>2. Filled(q)'
      BY <1>1, <1>2 DEF Filled
    <3> QED
      BY <3>1, <3>2
  <2>2. Due' = Due
    BY <1>1, <2>1 DEF Due, counts
  <2>3. Owing' = Owing
    BY <1>1, <1>5, OwingSame
  <2> QED
    BY <1>1, <2>2, <2>3, CountSame DEF counts
<1> QED
  BY <1>4, <1>5

LEMMA PostStepKeepsCount ==
  ASSUME Base, CountInv, NEW c \in Callers, PostStep(c) PROVE CountInv'
<1>1. CASE Write(c)
  BY <1>1, WriteKeepsCount
<1>2. CASE Wake(c)
  <2>1. /\ posting[c].at = "wake" /\ posting'[c].at = "count"
        /\ \A d \in Callers \ {c} : posting'[d] = posting[d]
        /\ UNCHANGED <<queueVars, counts>>
    BY <1>2, WakeOutcome DEF Base
  <2> QED
    BY <2>1, OwingSame, DueSame, CountSame DEF queueVars, counts
<1>3. CASE CountWake(c)
  <2> DEFINE p == posting[c].prio  f == wake_ref_count
  <2>1. /\ p \in Priorities /\ posting[c].at = "count" /\ posting'[c].at \in {"none", "write", "next", "load"}
        /\ f' = [f EXCEPT ![p] = @ + 1]
        /\ \A d \in Callers \ {c} : posting'[d] = posting[d]
        /\ UNCHANGED <<queueVars, wait_count, didWait>>
    BY <1>3, CountOutcome DEF Base
  <2>2. f \in [Priorities -> Nat]
    BY DEF Base, TypeOK
  <2>3. Owing' = Owing \ {c} /\ c \in Owing
    BY <2>1 DEF Owing
  <2>4. Due' = Due
    BY <2>1, DueSame DEF queueVars
  <2> HIDE DEF p
  <2>5. IsFiniteSet(Units(f)') /\ Cardinality(Units(f)') = Cardinality(Units(f)) + 1
    <3>1. Units(f') = Units(f) \cup {<<p, f[p] + 1>>} /\ <<p, f[p] + 1>> \notin Units(f)
      BY <2>1, <2>2, UnitsGrow
    <3>2. Units(f)' = Units(f')
      BY DEF Units
    <3> QED
      BY <3>1, <3>2, OneMore DEF CountInv
  <2>6. IsFiniteSet(Owing') /\ Cardinality(Owing') + 1 = Cardinality(Owing)
    BY <2>3, OneLess DEF CountInv
  <2>7. /\ Cardinality(Units(f)) \in Nat /\ Cardinality(Owing') \in Nat
        /\ Cardinality(Due) \in Nat /\ wait_count \in Nat
    BY <2>6, FS_CardinalityType DEF CountInv, Base, TypeOK
  <2> QED
    BY <2>1, <2>4, <2>5, <2>6, <2>7 DEF CountInv
<1>4. CASE TailStep(c)
  <2>1. /\ posting[c].at \notin {"wake", "count"} /\ posting'[c].at \notin {"wake", "count"}
        /\ \A d \in Callers \ {c} : posting'[d] = posting[d]
        /\ UNCHANGED <<queueVars, counts>>
    BY <1>4, TailOutcome DEF Base
  <2> QED
    BY <2>1, OwingSame, DueSame, CountSame DEF queueVars, counts
<1> QED
  BY <1>1, <1>2, <1>3, <1>4 DEF PostStep, TailStep

LEMMA CountStep ==
  ASSUME Base, CountInv, [Next]_vars PROVE CountInv'
<1>1. CASE QuietStep \/ PopPrivate \/ BeginTeardown \/ TeardownStep \/ UNCHANGED vars
  <2>1. UNCHANGED <<flags, read_offset, counts, posting>>
    BY <1>1 DEF QuietStep, Top, NothingHere, RunOne, ItemEnds, Spin, StopCheck, Recheck, Sleep, WakeUp, PopPrivate,
                BeginTeardown, TeardownStep, RequestStop, StoreStopWait, StopWake, Join, CountWakes, Compare,
                vars, queueVars
  <2>2. Owing' = Owing
    BY <2>1 DEF Owing
  <2> QED
    BY <2>1, <2>2, DueSame, CountSame DEF counts
<1>2. CASE TryPull
  BY <1>2, TakeKeepsCount DEF TryPull, Base, TypeOK
<1>3. CASE Pull
  <2>1. CASE Filled(wprio)
    BY <1>3, <2>1, TakeKeepsCount DEF Pull, Base, TypeOK
  <2>2. CASE ~Filled(wprio)
    BY <1>3, <2>2, PullKeepsCount
  <2> QED
    BY <2>1, <2>2
<1>4. ASSUME NEW c \in Callers, PostStep(c) PROVE CountInv'
  BY <1>4, PostStepKeepsCount
<1>5. ASSUME NEW c \in Callers, NEW p \in Priorities, NEW n \in Counts, NEW bulk \in BOOLEAN,
             Post(c, p, n, bulk)
      PROVE  CountInv'
  <2>1. /\ posting[c].at = "none" /\ posting'[c].at = "write"
        /\ \A d \in Callers \ {c} : posting'[d] = posting[d]
        /\ UNCHANGED <<flags, read_offset, counts>>
    BY <1>5 DEF Post, Base, TypeOK
  <2> QED
    BY <2>1, OwingSame, DueSame, CountSame DEF counts
<1>6. ASSUME NEW p \in Priorities, NEW n \in Counts, PostPrivate(p, n) PROVE CountInv'
  <2>1. /\ Worker \in Callers /\ posting[Worker].at = "none" /\ posting'[Worker].at \in {"none", "load"}
        /\ \A d \in Callers \ {Worker} : posting'[d] = posting[d]
        /\ UNCHANGED <<flags, read_offset, counts>>
    BY <1>6, PrivateOutcome DEF Base
  <2> QED
    BY <2>1, OwingSame, DueSame, CountSame DEF counts
<1> QED
  BY <1>1, <1>2, <1>3, <1>4, <1>5, <1>6 DEF Next, WorkerStep, QuietStep

-----------------------------------------------------------------------------
\* The sum goes on by one priority.
LEMMA PassedGrows ==
  ASSUME NEW f \in [Priorities -> Nat], NEW p \in Priorities, IsFiniteSet(Units(f))
  PROVE  LET S == {x \in Units(f) : x[1] < p}  T == {x \in Units(f) : x[1] <= p}
         IN /\ IsFiniteSet(S) /\ IsFiniteSet(T) /\ Cardinality(T) = Cardinality(S) + f[p]
            /\ \A q \in Priorities : q = p + 1 => T = {x \in Units(f) : x[1] < q}
            /\ p = Last => T = Units(f)
<1> DEFINE S == {x \in Units(f) : x[1] < p}  T == {x \in Units(f) : x[1] <= p}
           R == {x \in Units(f) : x[1] = p}
<1>1. \A x \in Units(f) : x[1] \in Priorities /\ x[1] \in Nat /\ x[1] <= Last
  BY PrioritiesFacts DEF Units
<1>2. p \in Nat
  BY PrioritiesFacts
<1>3. T = S \cup R /\ S \cap R = {}
  BY <1>1, <1>2
<1>4. IsFiniteSet(S) /\ IsFiniteSet(T)
  BY FS_Subset
<1>5. IsFiniteSet(R) /\ Cardinality(R) = f[p]
  BY UnitsOf
<1>6. Cardinality(T) = Cardinality(S) + Cardinality(R)
  <2> HIDE DEF S, T, R
  <2>1. Cardinality(S \cap R) = 0
    BY <1>3, FS_EmptySet
  <2> QED
    <3>1. Cardinality(S \cup R) = Cardinality(S) + Cardinality(R) - Cardinality(S \cap R)
      BY <1>4, <1>5, FS_Union
    <3>2. Cardinality(S) \in Nat /\ Cardinality(R) \in Nat
      BY <1>4, <1>5, FS_CardinalityType
    <3> QED
      BY <1>3, <2>1, <3>1, <3>2
<1>7. \A q \in Priorities : q = p + 1 => T = {x \in Units(f) : x[1] < q}
  BY <1>1, <1>2
<1>8. p = Last => T = Units(f)
  BY <1>1
<1> QED
  BY <1>4, <1>5, <1>6, <1>7, <1>8

\* More counts by the producers leave the sum behind, never ahead.
LEMMA PassedKept ==
  ASSUME CountInv', tally.sum \in Nat, UNCHANGED <<down, tally>>,
         Units(wake_ref_count) \subseteq Units(wake_ref_count)',
         tally.sum <= Cardinality(Passed(wake_ref_count)), IsFiniteSet(Units(wake_ref_count))
  PROVE  tally.sum <= Cardinality(Passed(wake_ref_count)')
<1> DEFINE S == Passed(wake_ref_count)  T == Passed(wake_ref_count)'
<1>1. S \subseteq T
  BY DEF Passed
<1>2. IsFiniteSet(T)
  <2>1. T \subseteq Units(wake_ref_count)' /\ IsFiniteSet(Units(wake_ref_count)')
    BY DEF Passed, CountInv
  <2> QED
    BY <2>1, FS_Subset
<1> HIDE DEF S, T
<1>3. IsFiniteSet(S) /\ Cardinality(S) <= Cardinality(T) /\ Cardinality(S) \in Nat /\ Cardinality(T) \in Nat
  BY <1>1, <1>2, FS_Subset, FS_CardinalityType
<1>4. tally.sum <= Cardinality(T)
  BY <1>3 DEF S
<1> QED
  BY <1>4 DEF T

LEMMA EndInit == Init => EndInv
BY DEF Init, EndInv

\* What goes on of the posts after teardown began fills no slot, and after the end wakes nobody.
LEMMA PostStepKeepsEnd ==
  ASSUME Base, StopInv, CountInv, EndInv, CountInv', NEW c \in Callers, PostStep(c)
  PROVE  EndInv'
<1> USE DEF TailStep
<1>1. UNCHANGED <<write_offset, read_offset, ending>> /\ \A d \in Callers \ {c} : posting'[d] = posting[d]
  BY WriteOutcome, WakeOutcome, CountOutcome, TailOutcome DEF Base, PostStep, queueVars
<1>2. Posting(c) /\ CallOK(c)
  BY WriteOutcome, WakeOutcome, CountOutcome, TailOutcome DEF Base, PostStep, CallInv
<1>3. down = "up" => EndInv'
  BY <1>1 DEF EndInv, ending
<1>4. ASSUME down # "up", c \in Outside PROVE AllPublished(posting[c]) /\ ~Write(c)
  BY <1>2, <1>4 DEF EndInv, AllPublished, Write, CallOK
<1>5. ASSUME down # "up", c \in Outside PROVE AllPublished(posting'[c])
  <2>1. CASE Wake(c)
    BY <1>4, <1>5, <2>1, WakeOutcome DEF Base, AllPublished
  <2>2. CASE CountWake(c)
    BY <1>4, <1>5, <2>2, CountOutcome DEF Base, AllPublished
  <2>3. CASE TailStep(c)
    <3>1. posting[c].left = 0 /\ posting'[c].at \notin {"wake", "count"}
      BY <1>4, <1>5, <2>3, TailOutcome DEF Base, AllPublished
    <3> QED
      BY <2>3, <3>1, TailOutcome DEF Base, AllPublished
  <2> QED
    BY <1>4, <1>5, <2>1, <2>2, <2>3 DEF PostStep
<1>6. down = "gone" => Owing' = {}
  <2> SUFFICES ASSUME down = "gone" PROVE Owing' = {}
    OBVIOUS
  <2>1. Owing = {} /\ wpc = "exited"
    BY DEF EndInv, StopInv
  <2>2. c \in Outside
    BY <1>2, <2>1 DEF Base, CallInv, Callers
  <2>3. TailStep(c)
    BY <1>4, <2>1, <2>2, WakeOutcome, CountOutcome DEF Base, PostStep, Owing
  <2>4. posting'[c].at \notin {"wake", "count"}
    BY <2>3, TailOutcome DEF Base
  <2> QED
    BY <1>1, <2>1, <2>4 DEF Owing
<1>7. Units(wake_ref_count) \subseteq Units(wake_ref_count)'
  <2>1. CASE CountWake(c)
    <3>1. /\ posting[c].prio \in Priorities
          /\ wake_ref_count' = [wake_ref_count EXCEPT ![posting[c].prio] = @ + 1]
          /\ wake_ref_count \in [Priorities -> Nat]
      BY <2>1, CountOutcome DEF Base, TypeOK
    <3>2. Units(wake_ref_count') = Units(wake_ref_count) \cup
            {<<posting[c].prio, wake_ref_count[posting[c].prio] + 1>>}
      BY <3>1, UnitsGrow
    <3> QED
      BY <3>2 DEF Units
  <2>2. CASE Write(c) \/ Wake(c) \/ TailStep(c)
    <3>1. wake_ref_count' = wake_ref_count
      BY <2>2 DEF Write, Wake, NextBlock, LoadYield, CasYield, counts
    <3> QED
      BY <3>1 DEF Units
  <2> QED
    BY <2>1, <2>2 DEF PostStep
<1>8. CASE down # "up"
  <2>1. ASSUME NEW d \in Outside PROVE AllPublished(posting'[d])
    <3>1. CASE d = c
      BY <1>5, <1>8, <3>1
    <3>2. CASE d # c
      BY <1>1, <1>8, <3>2 DEF EndInv, Callers
    <3> QED
      BY <3>1, <3>2
  <2>2. IF down \in {"count", "compare"} THEN tally.sum <= Cardinality(Passed(wake_ref_count)')
        ELSE tally = [prio |-> 0, sum |-> 0]
    <3>1. tally.sum \in Nat /\ UNCHANGED <<down, tally>>
      BY <1>1 DEF Base, TypeOK, ending
    <3> QED
      BY <1>7, <3>1, PassedKept DEF EndInv, CountInv
  <2>3. \A d \in Outside : AllPublished(posting[d])'
    BY <2>1 DEF AllPublished
  <2> QED
    BY <1>1, <1>6, <1>8, <2>2, <2>3 DEF EndInv, ending
<1> QED
  BY <1>3, <1>8

\* The worker has nothing to take once teardown has begun.
LEMMA WorkerKeepsEnd ==
  ASSUME Base, EndInv, WorkerStep PROVE EndInv'
<1>1. UNCHANGED <<write_offset, wake_ref_count, ending, posting>>
  BY DEF WorkerStep, Top, PopPrivate, TryPull, NothingHere, RunOne, ItemEnds, Spin, Pull, StopCheck, Recheck, Sleep, WakeUp,
         queueVars, counts
<1>2. CASE read_offset' = read_offset
  <2>1. Owing' = Owing /\ Passed(wake_ref_count)' = Passed(wake_ref_count)
    BY <1>1 DEF Owing, Passed, Units, ending
  <2> QED
    BY <1>1, <1>2, <2>1 DEF EndInv, AllPublished, ending
<1>3. CASE read_offset' # read_offset
  <2>1. wprio \in Priorities /\ Filled(wprio)
    BY <1>3 DEF WorkerStep, Top, PopPrivate, TryPull, NothingHere, RunOne, ItemEnds, Spin, Pull, StopCheck, Recheck,
                Sleep, WakeUp, queueVars, Base, TypeOK
  <2>2. read_offset[wprio] # write_offset[wprio]
    BY <2>1 DEF Base, SlotInv, TypeOK, Filled
  <2>3. down = "up"
    BY <2>1, <2>2 DEF EndInv
  <2> QED
    BY <1>1, <2>3 DEF EndInv, ending
<1> QED
  BY <1>2, <1>3

LEMMA TeardownKeepsEnd ==
  ASSUME JobsDone, Base, StopInv, CountInv, EndInv, BeginTeardown \/ TeardownStep PROVE EndInv'
<1>1. UNCHANGED <<read_offset, write_offset, wake_ref_count, posting>>
  BY DEF BeginTeardown, TeardownStep, RequestStop, StoreStopWait, StopWake, Join, CountWakes, Compare,
         queueVars, counts
<1>2. Owing' = Owing /\ \A c : AllPublished(posting[c])' = AllPublished(posting[c])
  BY <1>1 DEF Owing, AllPublished
<1> DEFINE f == wake_ref_count
<1>3. f \in [Priorities -> Nat] /\ IsFiniteSet(Units(f)) /\ Units(f)' = Units(f)
      /\ tally \in [prio : Priorities, sum : Nat]
  BY <1>1 DEF Base, TypeOK, CountInv, Units
<1>4. CASE BeginTeardown
  BY <1>1, <1>2, <1>4 DEF BeginTeardown, EndInv
<1>5. CASE RequestStop \/ StoreStopWait \/ StopWake
  BY <1>1, <1>2, <1>5 DEF EndInv, RequestStop, StoreStopWait, StopWake
<1>6. ASSUME down' = "count", tally'.sum = 0 PROVE tally'.sum <= Cardinality(Passed(f)')
  <2>1. Passed(f)' \subseteq Units(f)
    BY <1>3 DEF Passed
  <2>2. Cardinality(Passed(f)') \in Nat
    BY <1>3, <2>1, FS_Subset, FS_CardinalityType
  <2> QED
    BY <1>6, <2>2
<1>7. CASE Join
  <2>1. down' = "count" /\ tally' = [prio |-> 0, sum |-> 0] /\ down = "join"
    BY <1>7 DEF Join, EndInv
  <2>2. tally'.sum <= Cardinality(Passed(f)')
    BY <2>1, <1>6
  <2> QED
    BY <1>1, <1>2, <2>1, <2>2 DEF EndInv
<1>8. CASE CountWakes
  <2> DEFINE p == tally.prio
             S == {x \in Units(f) : x[1] < p}  T == {x \in Units(f) : x[1] <= p}
  <2>1. p \in Priorities /\ f[p] \in Nat /\ tally.sum \in Nat
    BY <1>3
  <2>2. /\ IsFiniteSet(S) /\ Cardinality(T) = Cardinality(S) + f[p]
        /\ \A q \in Priorities : q = p + 1 => T = {x \in Units(f) : x[1] < q}
        /\ p = Last => T = Units(f)
    BY <1>3, <2>1, PassedGrows
  <2>3. /\ down = "count" /\ tally'.sum = tally.sum + f[p]
        /\ IF p = Last THEN down' = "compare" ELSE down' = "count" /\ tally'.prio = p + 1
    BY <1>8 DEF CountWakes
  <2>4. tally.sum <= Cardinality(S)
    BY <2>3 DEF EndInv, Passed
  <2>5. Passed(f)' = T
    <3>1. CASE p = Last
      BY <1>3, <2>2, <2>3, <3>1 DEF Passed
    <3>2. CASE p # Last
      <4>1. p + 1 \in Priorities
        BY <2>1, <3>2, PrioritiesFacts
      <4>2. T = {x \in Units(f) : x[1] < p + 1}
        BY <2>2, <4>1
      <4>3. Passed(f)' = {x \in Units(f) : x[1] < p + 1}
        BY <1>3, <2>3, <3>2 DEF Passed
      <4> QED
        BY <4>2, <4>3
    <3> QED
      BY <3>1, <3>2
  <2>6. tally'.sum <= Cardinality(Passed(f)')
    <3>1. Cardinality(S) \in Nat
      BY <2>2, FS_CardinalityType
    <3> HIDE DEF S, T, p
    <3> QED
      BY <2>1, <2>2, <2>3, <2>4, <2>5, <3>1
  <2>7. down' \in {"count", "compare"}
    BY <2>3
  <2> QED
    BY <1>1, <1>2, <2>3, <2>6, <2>7 DEF EndInv
<1>9. CASE Compare
  <2>1. down = "compare" /\ tally' = [prio |-> 0, sum |-> 0]
        /\ down' = IF tally.sum = wait_count THEN "gone" ELSE "count"
    BY <1>9 DEF Compare
  <2>2. CASE tally.sum = wait_count
    <3>1. Due = {}
      <4>1. \A p \in Priorities : ~Filled(p)
        BY <2>1 DEF EndInv, Base, SlotInv, TypeOK, Filled
      <4> QED
        BY <4>1 DEF Due, Base, TypeOK
    <3>2. Passed(f) = Units(f)
      BY <2>1 DEF Passed
    <3>3. tally.sum <= Cardinality(Units(f))
      BY <2>1, <3>2 DEF EndInv
    <3>4. Cardinality(Units(f)) + Cardinality(Owing) = wait_count /\ IsFiniteSet(Owing)
      <4>1. Cardinality(Due) = 0 /\ wait_count \in Nat
        BY <3>1, FS_EmptySet DEF Base, TypeOK
      <4> QED
        BY <4>1 DEF CountInv
    <3>5. Cardinality(Owing) = 0
      <4>1. Cardinality(Owing) \in Nat /\ Cardinality(Units(f)) \in Nat
        BY <1>3, <3>4, FS_CardinalityType
      <4> QED
        BY <2>2, <3>3, <3>4, <4>1
    <3>6. Owing = {}
      BY <3>4, <3>5, FS_EmptySet
    <3> QED
      BY <1>1, <1>2, <2>1, <2>2, <3>6 DEF EndInv
  <2>3. CASE tally.sum # wait_count
    <3>1. down' = "count" /\ tally'.sum = 0
      BY <2>1, <2>3
    <3>2. tally'.sum <= Cardinality(Passed(f)')
      BY <3>1, <1>6
    <3> QED
      BY <1>1, <1>2, <2>1, <3>1, <3>2 DEF EndInv
  <2> QED
    BY <2>2, <2>3
<1> QED
  BY <1>4, <1>5, <1>7, <1>8, <1>9 DEF TeardownStep

LEMMA EndStep ==
  ASSUME JobsDone, Base, StopInv, CountInv, EndInv, CountInv', [Next]_vars PROVE EndInv'
<1>1. CASE WorkerStep
  BY <1>1, WorkerKeepsEnd
<1>2. ASSUME NEW c \in Callers, PostStep(c) PROVE EndInv'
  BY <1>2, PostStepKeepsEnd
<1>3. ASSUME NEW c \in Callers, NEW p \in Priorities, NEW n \in Counts, NEW bulk \in BOOLEAN,
             Post(c, p, n, bulk)
      PROVE  EndInv'
  <2>1. down = "up" /\ UNCHANGED ending
    BY <1>3 DEF Post
  <2> QED
    BY <2>1 DEF EndInv, ending
<1>4. ASSUME NEW p \in Priorities, NEW n \in Counts, PostPrivate(p, n) PROVE EndInv'
  <2>1. down = "up" /\ UNCHANGED ending
    BY <1>4 DEF PostPrivate
  <2> QED
    BY <2>1 DEF EndInv, ending
<1>5. CASE BeginTeardown \/ TeardownStep
  BY <1>5, TeardownKeepsEnd
<1>6. CASE UNCHANGED vars
  <2>1. Owing' = Owing /\ Passed(wake_ref_count)' = Passed(wake_ref_count)
    BY <1>6 DEF vars, counts, ending, Owing, Passed, Units
  <2> QED
    BY <1>6, <2>1 DEF EndInv, AllPublished, vars, queueVars, ending
<1> QED
  BY <1>1, <1>2, <1>3, <1>4, <1>5, <1>6 DEF Next

-----------------------------------------------------------------------------
\* Every variable keeps its type, and the worker never reads a slot that was not reserved.
THEOREM TypeCorrect == Spec => []TypeOK
<1>1. Base => TypeOK
  BY DEF Base
<1> QED
  BY <1>1, BaseInit, BaseStep, PTL DEF Spec

\* The worker never sleeps over an item, nor over teardown's request, with nobody about to
\* wake it: with futex_waitv, and with the shared wake word.
THEOREM NeverAsleepOverWork == Spec => []NoLostWakeup
<1>1. Watch => NoLostWakeup
  <2> SUFFICES ASSUME Watch, wpc = "asleep", ~woken PROVE NoLostWakeup
    BY DEF NoLostWakeup
  <2>1. Watching /\ Announced = Priorities
    BY DEF Watching, Announced, Comparing
  <2> QED
    BY <2>1 DEF NoLostWakeup, Watch, SleepInv, StopInv, SomebodyWakes
<1> QED
  BY <1>1, BaseInit, BaseStep, WatchInit, WatchStep, PTL DEF Spec

\* A teardown that begins when every item has run ends only after the worker, and after the
\* last wake of every producer is counted: its loop over the counts sees what is still owed.
\* It says nothing of the rest of a post, which no count covers.
THEOREM WakesEndBeforeTeardown ==
  ASSUME JobsDone PROVE Spec => []NoWakeAfterTeardown
<1> DEFINE Inv == Base /\ Watch /\ CountInv /\ EndInv
<1>1. Init => Inv
  BY BaseInit, WatchInit, CountInit, EndInit
<1>2. Inv /\ [Next]_vars => Inv'
  BY BaseStep, WatchStep, CountStep, EndStep DEF Watch
<1>3. Inv => NoWakeAfterTeardown
  <2> SUFFICES ASSUME Inv, down = "gone" PROVE NoWakeAfterTeardown
    BY DEF NoWakeAfterTeardown
  <2>1. wpc = "exited" /\ Owing = {}
    BY DEF Watch, StopInv, EndInv
  <2>2. posting[Worker].at = "none"
    BY <2>1 DEF Base, CallInv, Posting
  <2>3. \A c \in Outside : posting[c].at # "write"
    <3> SUFFICES ASSUME NEW c \in Outside, posting[c].at = "write" PROVE FALSE
      OBVIOUS
    <3>1. posting[c].left = 0
      BY DEF EndInv, AllPublished
    <3> QED
      BY <3>1 DEF Base, CallInv, CallOK, Posting, Callers
  <2>4. \A c \in Callers : posting[c].at \notin {"write", "wake", "count"}
    BY <2>1, <2>2, <2>3 DEF Owing, Callers
  <2> QED
    BY <2>1, <2>4 DEF NoWakeAfterTeardown
<1> HIDE DEF Inv
<1> QED
  BY <1>1, <1>2, <1>3, PTL DEF Spec

\* While an item runs, whatever calls of request_yield overlap, yield_priority only goes to
\* a higher priority (a smaller number).
THEOREM RequestsPrevail == Spec => HigherYieldPrevails
<1>1. ASSUME Base, [Next]_vars, wpc = "run", wpc' = "run" PROVE yield_priority' <= yield_priority
  <2>1. yield_priority <= yield_priority
    <3>1. Last \in Nat /\ yield_priority \in 0..(Last + 1)
      BY <1>1, PrioritiesFacts DEF Base, TypeOK
    <3> HIDE DEF Last
    <3> QED
      BY <3>1
  <2>2. CASE \E c \in Callers : TailStep(c)
    BY <1>1, <2>2, TailOutcome DEF Base
  <2>3. CASE WorkerStep
    <3>1. ItemEnds
      BY <1>1, <2>3 DEF WorkerStep, Top, PopPrivate, TryPull, NothingHere, RunOne, ItemEnds, Spin, Pull,
                        StopCheck, Recheck, Sleep, WakeUp
    <3> QED
      BY <2>1, <3>1 DEF ItemEnds
  <2>4. CASE yield_priority' = yield_priority
    BY <2>1, <2>4
  <2>5. \/ \E c \in Callers : TailStep(c)
        \/ WorkerStep
        \/ yield_priority' = yield_priority
    BY <1>1 DEF Next, PostStep, TailStep, Write, Wake, CountWake, Post, PostPrivate, BeginTeardown,
                TeardownStep, RequestStop, StoreStopWait, StopWake, Join, CountWakes, Compare, vars
  <2> QED
    BY <2>2, <2>3, <2>4, <2>5
<1>2. Base /\ [Next]_vars => [wpc = "run" /\ wpc' = "run" => yield_priority' <= yield_priority]_vars
  BY <1>1
<1> QED
  BY <1>2, BaseInit, BaseStep, PTL DEF Spec, HigherYieldPrevails
=============================================================================
