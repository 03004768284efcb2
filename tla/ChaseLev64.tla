----------------------------- MODULE ChaseLev64 ------------------------------
(* chase_lev_deque, the 64-bit work-stealing deque: top and bottom are two
   w-bit halves of one atomic word, buffers grow and old ones are kept. *)
EXTENDS Integers, Sequences, FiniteSetsExt

CONSTANTS Thieves,         \* threads that call steal()
          HalfWord,        \* 2^w: the indices wrap at this number (2^32)
          InitialCapacity, \* DEFAULT_INITIAL_CAPACITY, a power of two
          Starts,          \* indices the empty deque may have reached
          MaxItems,        \* bound: items pushed in a behaviour
          MaxBulk,         \* bound: Count of post_bulk
          MaxRetries       \* CAS retries of steal(): 3 in the code

\* What grow() may reach by doubling, as far as the indices tell slots apart.
Capacities == {cap \in {InitialCapacity * 2^k : k \in 0..MaxItems} : cap <= HalfWord}

\* The deque's limits: its size stays below half the index range, or the signed
\* differences mean nothing, and a thief does not sleep through a whole lap of
\* the indices inside one steal().  Capacities and range are powers of two.
ASSUME WidthAssumption ==
  /\ HalfWord \in Nat /\ MaxItems \in Nat /\ 2 * MaxItems < HalfWord /\ HalfWord % 2 = 0
  /\ Starts \subseteq 0..(HalfWord - 1)
  /\ InitialCapacity \in Capacities
  /\ \A cap \in Capacities : cap \in Nat \ {0} /\ HalfWord % cap = 0
  /\ \E cap \in Capacities : MaxItems <= cap

VARIABLES state,   \* state_storage_: both halves, read and CAS'd together
          buffers, \* buffers_: every block allocated so far, the active one last
          pushed,  \* items pushed so far; the next one is pushed + 1
          taken,   \* how often try_pop or steal has returned each item
          owner,   \* the owner's place in push, post_bulk or try_pop
          thief    \* each thief's place in steal

vars == <<state, buffers, pushed, taken, owner, thief>>

NoItem == 0
Torn == MaxItems + 1   \* a slot halfway through a two-word store
Index == 0..(HalfWord - 1)

Wrap(n) == n % HalfWord
Diff(b, t) ==          \* static_cast<int32_t>(b - t)
  LET d == Wrap(b - t) IN IF d < HalfWord \div 2 THEN d ELSE d - HalfWord

Active == Len(buffers)
Capacity(n) == Cardinality(DOMAIN buffers[n])
Slot(n, i) == i % Capacity(n)
Item(n, i) == buffers[n][Slot(n, i)]
Take(x) == taken' = [taken EXCEPT ![x] = @ + 1]
NewBuffer(cap) == [i \in 0..(cap - 1) |-> NoItem]

OwnerIdle == [pc |-> "idle", b |-> 0, t |-> 0, n |-> 0, done |-> 0]
ThiefIdle == [pc |-> "idle", b |-> 0, t |-> 0, buf |-> 0, item |-> NoItem, tries |-> 0]

\* The constructor, or a deque that was used and is empty again.
Init == /\ \E k \in Starts : state = [t |-> k, b |-> k]
        /\ buffers = <<NewBuffer(InitialCapacity)>>
        /\ pushed = 0 /\ taken = [x \in NoItem..Torn |-> 0]
        /\ owner = OwnerIdle
        /\ thief = [s \in Thieves |-> ThiefIdle]
----------------------------------------------------------------------------
(* The owner. *)

\* push and post_bulk load the packed state; the owner alone writes b, so only
\* t can be stale from here on.
BeginPush(n) ==
  /\ owner.pc = "idle" /\ pushed + n <= MaxItems
  /\ owner' = [pc |-> "grow", b |-> state.b, t |-> state.t, n |-> n, done |-> 0]
  /\ UNCHANGED <<state, buffers, pushed, taken, thief>>

\* grow's new capacity: doubled, then doubled until the items fit.
GrownTo(cap, needed) == Min({c \in Capacities : c > cap /\ c >= needed})

\* Signed size against mask in push, against capacity in post_bulk.
Fits(needed) == needed <= Capacity(Active)
\* if (size + Count > capacity) grow(): copy from the loaded t to b, publish.
\* No thief can see the new block before it is published, so this is one step.
Grow ==
  /\ owner.pc = "grow"
  /\ LET needed == Diff(Wrap(owner.b + owner.n), owner.t)
         cap    == GrownTo(Capacity(Active), needed)
         live   == {Wrap(owner.t + k) : k \in 0..(needed - owner.n - 1)}
         copied(i) == {j \in live : j % cap = i}
     IN buffers' = IF Fits(needed) THEN buffers
                   ELSE Append(buffers, [i \in 0..(cap - 1) |->
                          IF copied(i) = {} THEN NoItem
                          ELSE Item(Active, CHOOSE j \in copied(i) : TRUE)])
  /\ owner' = [owner EXCEPT !.pc = "store"]
  /\ UNCHANGED <<state, pushed, taken, thief>>

WriteSlot(i, x) ==
  buffers' = [buffers EXCEPT ![Active][Slot(Active, i)] = x]

\* store_item of a two-word work item: a reader in between gets a mixture.
StoreHalf ==
  /\ owner.pc = "store" /\ owner.done < owner.n
  /\ WriteSlot(Wrap(owner.b + owner.done), Torn)
  /\ owner' = [owner EXCEPT !.pc = "storing"]
  /\ UNCHANGED <<state, pushed, taken, thief>>

StoreRest ==
  /\ owner.pc = "storing"
  /\ WriteSlot(Wrap(owner.b + owner.done), pushed + owner.done + 1)
  /\ owner' = [owner EXCEPT !.pc = "store", !.done = @ + 1]
  /\ UNCHANGED <<state, pushed, taken, thief>>

\* The release store of the bottom half publishes the items.
Publish ==
  /\ owner.pc = "store" /\ owner.done = owner.n
  /\ state' = [state EXCEPT !.b = Wrap(owner.b + owner.n)]
  /\ pushed' = pushed + owner.n
  /\ owner' = OwnerIdle
  /\ UNCHANGED <<buffers, taken, thief>>

BeginPop ==
  /\ owner.pc = "idle"
  /\ owner' = [OwnerIdle EXCEPT !.pc = "pop", !.b = state.b, !.t = state.t]
  /\ UNCHANGED <<state, buffers, pushed, taken, thief>>

\* try_pop's first early return: the snapshot is empty.
PopEmpty ==
  /\ owner.pc = "pop" /\ Diff(owner.b, owner.t) <= 0
  /\ owner' = OwnerIdle
  /\ UNCHANGED <<state, buffers, pushed, taken, thief>>

\* The decrement claims the bottom item; it returns the current top.
Claim ==
  /\ state' = [state EXCEPT !.b = Wrap(@ - 1)]
  /\ owner' = [owner EXCEPT !.pc = "claimed", !.b = Wrap(@ - 1), !.t = state.t]

\* bottom is not 0: fetch_sub of the whole word cannot borrow from top.
PopDecrement ==
  /\ owner.pc = "pop" /\ Diff(owner.b, owner.t) > 0 /\ owner.b # 0
  /\ Claim
  /\ UNCHANGED <<buffers, pushed, taken, thief>>

\* Mutant: a failed CAS at index 0 is taken for an empty deque.
PopDecrementAtZeroGivesUp ==
  /\ owner.pc = "pop" /\ Diff(owner.b, owner.t) > 0 /\ owner.b = 0
  /\ \/ state.t = owner.t /\ Claim
     \/ state.t # owner.t /\ owner' = OwnerIdle /\ UNCHANGED state
  /\ UNCHANGED <<buffers, pushed, taken, thief>>
\* bottom is 0: a CAS, retried with the new top when a thief moved it.
PopDecrementAtZero ==
  /\ owner.pc = "pop" /\ Diff(owner.b, owner.t) > 0 /\ owner.b = 0
  /\ \/ state.t = owner.t /\ Claim
     \/ state.t # owner.t /\ owner' = [owner EXCEPT !.t = state.t] /\ UNCHANGED state
  /\ UNCHANGED <<buffers, pushed, taken, thief>>

\* A thief took the last item first: put bottom back.
PopRestore ==
  /\ owner.pc = "claimed" /\ Diff(owner.b, owner.t) < 0
  /\ state' = [state EXCEPT !.b = Wrap(owner.b + 1)]
  /\ owner' = OwnerIdle
  /\ UNCHANGED <<buffers, pushed, taken, thief>>

\* More than one item was there: no thief can reach the one at the bottom.
PopTake ==
  /\ owner.pc = "claimed" /\ Diff(owner.b, owner.t) > 0
  /\ Take(Item(Active, owner.b))
  /\ owner' = OwnerIdle
  /\ UNCHANGED <<state, buffers, pushed, thief>>

\* The last item: take it and move both halves past it, so that no older
\* snapshot of a thief can match the word again.
PopTakeLast ==
  /\ owner.pc = "claimed" /\ owner.b = owner.t
  /\ Take(Item(Active, owner.b))
  /\ state' = [t |-> Wrap(owner.b + 1), b |-> Wrap(owner.b + 1)]
  /\ owner' = OwnerIdle
  /\ UNCHANGED <<buffers, pushed, thief>>

OwnerNext == \/ \E n \in 1..MaxBulk : BeginPush(n)
             \/ Grow \/ StoreHalf \/ StoreRest \/ Publish
             \/ BeginPop \/ PopEmpty \/ PopDecrement \/ PopDecrementAtZero
             \/ PopRestore \/ PopTake \/ PopTakeLast
----------------------------------------------------------------------------
(* A thief. *)

StealSnapshot(n) ==
  IF Diff(state.b, state.t) <= 0 THEN ThiefIdle
  ELSE [ThiefIdle EXCEPT !.pc = "buffer", !.b = state.b, !.t = state.t, !.tries = n]

BeginSteal(s) ==
  /\ thief[s].pc = "idle"
  /\ thief' = [thief EXCEPT ![s] = StealSnapshot(0)]
  /\ UNCHANGED <<state, buffers, pushed, taken, owner>>

\* load_active_acquire: block and mask in one word.
StealBuffer(s) ==
  /\ thief[s].pc = "buffer"
  /\ thief' = [thief EXCEPT ![s].pc = "item", ![s].buf = Active]
  /\ UNCHANGED <<state, buffers, pushed, taken, owner>>

\* load_item: a racy copy, which may be of a slot being rewritten.
StealItem(s) ==
  /\ thief[s].pc = "item"
  /\ thief' = [thief EXCEPT ![s].pc = "cas",
                            ![s].item = Item(thief[s].buf, thief[s].t)]
  /\ UNCHANGED <<state, buffers, pushed, taken, owner>>

\* Mutant: the CAS compares the top half only, as in a two-word Chase-Lev deque.
StealCASTop(s) ==
  /\ thief[s].pc = "cas"
  /\ IF state.t = thief[s].t
     THEN /\ state' = [state EXCEPT !.t = Wrap(@ + 1)]
          /\ Take(thief[s].item)
          /\ thief' = [thief EXCEPT ![s] = ThiefIdle]
     ELSE /\ thief' = [thief EXCEPT ![s] =
                         IF @.tries = MaxRetries THEN ThiefIdle
                         ELSE StealSnapshot(@.tries + 1)]
          /\ UNCHANGED <<state, taken>>
  /\ UNCHANGED <<buffers, pushed, owner>>
\* The CAS of the whole word: any change of either half makes it fail, and a
\* failed one has loaded the snapshot of the next try.
StealCAS(s) ==
  /\ thief[s].pc = "cas"
  /\ IF state = [t |-> thief[s].t, b |-> thief[s].b]
     THEN /\ state' = [state EXCEPT !.t = Wrap(@ + 1)]
          /\ Take(thief[s].item)
          /\ thief' = [thief EXCEPT ![s] = ThiefIdle]
     ELSE /\ thief' = [thief EXCEPT ![s] =
                         IF @.tries = MaxRetries THEN ThiefIdle
                         ELSE StealSnapshot(@.tries + 1)]
          /\ UNCHANGED <<state, taken>>
  /\ UNCHANGED <<buffers, pushed, owner>>

ThiefNext(s) == BeginSteal(s) \/ StealBuffer(s) \/ StealItem(s) \/ StealCAS(s)

Next == OwnerNext \/ \E s \in Thieves : ThiefNext(s)
Spec == Init /\ [][Next]_vars
----------------------------------------------------------------------------
(* Properties. *)

Size == LET d == Diff(state.b, state.t) IN IF d > 0 THEN d ELSE 0

\* Every variable has its type; no torn or missing item is ever handed out.
TypeOK ==
  /\ state \in [t : Index, b : Index]
  /\ \A n \in 1..Active : buffers[n] \in [0..(Capacity(n) - 1) -> 0..Torn]
  /\ pushed \in 0..MaxItems /\ taken \in [NoItem..Torn -> 0..1]
  /\ {x \in DOMAIN taken : taken[x] > 0} \subseteq 1..pushed
  /\ owner.pc \in {"idle", "grow", "store", "storing", "pop", "claimed"}
  /\ \A s \in Thieves : thief[s].pc \in {"idle", "buffer", "item", "cas"}
                        /\ thief[s].buf \in 0..Active

\* The deque as its users see it: an item that a decrement of bottom has claimed
\* counts as taken although try_pop has not returned it yet.
Items == [k \in 1..Size |-> Item(Active, Wrap(state.t + k - 1))]
Claimed(x) == /\ owner.pc = "claimed" /\ Diff(owner.b, owner.t) >= 0
              /\ x = Item(Active, owner.b)
Taken == [x \in 1..MaxItems |-> taken[x] + IF Claimed(x) THEN 1 ELSE 0]

\* try_pop returns false only when nothing is left for its caller, so a worker
\* that finds its own deque empty may look elsewhere and fall asleep.
PopMissesNothing ==
  [][ (owner.pc \in {"pop", "claimed"} /\ owner'.pc = "idle" /\ taken' = taken)
        => Size = 0 ]_vars
=============================================================================
