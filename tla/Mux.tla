--------------------------------- MODULE Mux ---------------------------------
(***************************************************************************)
(* mux_many, mux_tuple and select: a coroutine starts children and takes   *)
(* their results one at a time, in whatever order they end.  All share the *)
(* word sync_flags: one bit per slot says that its child has ended, and    *)
(* the bit EACH that nobody may resume the parent.  The parent gives EACH  *)
(* back when it suspends; the child whose arrival takes it resumes the     *)
(* parent.                                                                 *)
(*                                                                         *)
(* A compare-exchange loop is one step: it retries until the word it       *)
(* tested is the word it replaces.                                         *)
(***************************************************************************)
EXTENDS Integers, FiniteSets, FiniteSetsExt

CONSTANTS NumSlots,
          Endless  \* slots whose awaitable, under select, ends only if cancelled

Slots == 1..NumSlots
NoSlot == 0

VARIABLES
  parent,     \* where the parent is
  user,       \* what uses the mux: "none", "tuple", "many", "select"
  each,       \* EACH in sync_flags
  bits,       \* the slots' bits in sync_flags
  active,     \* active_slots
  remaining,  \* remaining_count
  slot,       \* the slot that is being taken, and then the one last taken
  kid,        \* per slot: where its child is
  winner,     \* select: the first slot taken
  cancelled   \* select: the slots whose canceller has been called

vars == <<parent, user, each, bits, active, remaining, slot, kid, winner, cancelled>>
own == <<active, remaining, slot, winner, cancelled>>

TypeOK ==
  /\ parent \in {"ready", "making", "suspending", "waiting", "queued", "resuming", "taking", "cancelling", "ended"}
  /\ user \in {"none", "tuple", "many", "select"}
  /\ each \in BOOLEAN /\ bits \subseteq Slots /\ active \subseteq Slots
  /\ remaining \in Int
  /\ slot \in Slots \cup {NoSlot} /\ winner \in Slots \cup {NoSlot}
  /\ kid \in [Slots -> {"idle", "made", "posted", "running", "arriving", "resuming"}]
  /\ cancelled \subseteq Slots

Init ==
  /\ parent = "ready" /\ user = "none"
  /\ each = TRUE /\ bits = {} /\ active = {} /\ remaining = 0
  /\ slot = NoSlot /\ winner = NoSlot /\ cancelled = {}
  /\ kid = [k \in Slots |-> "idle"]

-----------------------------------------------------------------------------
(* The constructors.                                                        *)

Make(who, slots) ==
  /\ parent = "ready" /\ user = "none"
  /\ parent' = "making" /\ user' = who
  /\ each' = TRUE /\ bits' = {}
  /\ kid' = [k \in Slots |-> IF k \in slots THEN "made" ELSE kid[k]]
  /\ slot' = NoSlot /\ winner' = NoSlot /\ cancelled' = {}

\* mux_tuple: the slots are accounted for first; all of them are used.
MuxTuple == Make("tuple", Slots) /\ active' = Slots /\ remaining' = NumSlots
\* select makes a mux_tuple of its awaitables.
Select == Make("select", Slots) /\ active' = Slots /\ remaining' = NumSlots
\* mux_many: as many as the range has, up to a maximum; zero for the default
\* constructor.  The children run before their slots are accounted for.
MuxMany == \E n \in 0..NumSlots : Make("many", 1..n) /\ active' = {} /\ remaining' = 0

\* post_bulk and async_initiate.
PostNext ==
  /\ parent = "making"
  /\ \E k \in Slots : kid[k] = "made" /\ kid' = [kid EXCEPT ![k] = "posted"]
  /\ UNCHANGED <<parent, user, each, bits, own>>

Started == bits \cup {k \in Slots : kid[k] # "idle"}
\* init_active_counts, which mux_many calls with what has been started.
InitActiveCounts ==
  /\ parent = "making" /\ \A k \in Slots : kid[k] # "made"
  /\ parent' = "ready"
  /\ IF user = "many" THEN active' = Started /\ remaining' = Cardinality(Started)
                      ELSE UNCHANGED <<active, remaining>>
  /\ UNCHANGED <<user, each, bits, slot, kid, winner, cancelled>>

-----------------------------------------------------------------------------
(* The parent.                                                              *)

MayAwait == parent = "ready" /\ user # "none" /\ (user = "select" => winner = NoSlot \/ remaining > 0)

\* mux_await_suspend, first half: the handle; with nothing left it returns end().
Await ==
  /\ MayAwait
  /\ IF remaining = 0 THEN parent' = "resuming" ELSE parent' = "suspending"
  /\ UNCHANGED <<user, each, bits, own, kid>>

\* Mutant: EACH is given back by a fetch_and that does not look at the slots.
ReleaseBlindly ==
  /\ parent = "suspending"
  /\ parent' = "waiting" /\ each' = FALSE
  /\ UNCHANGED <<user, bits, own, kid>>
\* mux_await_suspend, second half: give EACH back unless a result is there.
ReleaseEach ==
  /\ parent = "suspending"
  /\ IF bits # {} THEN parent' = "resuming" /\ each' = each
                  ELSE parent' = "waiting" /\ each' = FALSE
  /\ UNCHANGED <<user, bits, own, kid>>

DispatchParent ==
  /\ parent = "queued"
  /\ parent' = "resuming"
  /\ UNCHANGED <<user, each, bits, own, kid>>

\* countr_zero.
Lowest(s) == Min(s)

\* mux_await_resume, first half: look and choose; end() if nothing is left.
AwaitResume ==
  /\ parent = "resuming"
  /\ IF remaining = 0
     THEN parent' = "ready" /\ UNCHANGED <<slot, remaining>>
     ELSE /\ bits # {}
          /\ slot' = Lowest(bits)
          /\ remaining' = remaining - 1
          /\ parent' = "taking"
  /\ UNCHANGED <<user, each, bits, active, kid, winner, cancelled>>

\* mux_poll: the same without suspending; pending() if no bit is set.
Poll ==
  /\ parent = "ready" /\ user \in {"tuple", "many"} /\ remaining > 0 /\ bits # {}
  /\ slot' = Lowest(bits)
  /\ remaining' = remaining - 1
  /\ parent' = "taking"
  /\ UNCHANGED <<user, each, bits, active, kid, winner, cancelled>>

\* Mutant: the whole word is stored back without the bit that was taken.
TakeAll ==
  /\ parent = "taking"
  /\ bits' = {} /\ active' = active \ {slot}
  /\ parent' = IF user = "select" /\ winner = NoSlot THEN "cancelling" ELSE "ready"
  /\ winner' = IF winner = NoSlot THEN slot ELSE winner
  /\ UNCHANGED <<user, each, remaining, slot, kid, cancelled>>
\* Mutant: the subtraction takes EACH away with the bit.
TakeEach ==
  /\ parent = "taking"
  /\ bits' = bits \ {slot} /\ each' = FALSE /\ active' = active \ {slot}
  /\ parent' = IF user = "select" /\ winner = NoSlot THEN "cancelling" ELSE "ready"
  /\ winner' = IF winner = NoSlot THEN slot ELSE winner
  /\ UNCHANGED <<user, remaining, slot, kid, cancelled>>
\* Second half: the bit is subtracted, and the slot is free.  select goes on to
\* cancel the others when it has its winner.
Take ==
  /\ parent = "taking"
  /\ bits' = bits \ {slot} /\ active' = active \ {slot}
  /\ parent' = IF user = "select" /\ winner = NoSlot THEN "cancelling" ELSE "ready"
  /\ winner' = IF winner = NoSlot THEN slot ELSE winner
  /\ UNCHANGED <<user, each, remaining, slot, kid, cancelled>>

\* fork(): a new child in a slot whose result has been taken (the user's part of
\* the contract).
Fork(i) ==
  /\ parent = "ready" /\ user \in {"tuple", "many"}
  /\ i \notin active
  /\ active' = active \cup {i} /\ remaining' = remaining + 1
  /\ kid' = [kid EXCEPT ![i] = "posted"]
  /\ UNCHANGED <<parent, user, each, bits, slot, winner, cancelled>>

\* select: every other canceller has been called.
AllCancelled == Slots \ {winner} \subseteq cancelled

\* select calls (or awaits) the cancellers one by one.
CancelNext ==
  /\ parent = "cancelling"
  /\ IF AllCancelled
     THEN parent' = "ready" /\ UNCHANGED cancelled
     ELSE /\ parent' = parent
          /\ cancelled' = cancelled \cup {Lowest(Slots \ ({winner} \cup cancelled))}
  /\ UNCHANGED <<user, each, bits, active, remaining, slot, kid, winner>>

\* The mux is destroyed: by contract when nothing remains.
Destroy ==
  /\ parent = "ready" /\ user # "none" /\ remaining = 0
  /\ user' = "none"
  /\ UNCHANGED <<parent, each, bits, own, kid>>

End ==
  /\ parent = "ready" /\ user = "none"
  /\ parent' = "ended"
  /\ UNCHANGED <<user, each, bits, own, kid>>

-----------------------------------------------------------------------------
(* A child.                                                                 *)

Dispatch(k) ==
  /\ kid[k] = "posted"
  /\ kid' = [kid EXCEPT ![k] = "running"]
  /\ UNCHANGED <<parent, user, each, bits, own>>

Finish(k) ==
  /\ kid[k] = "running"
  /\ user = "select" /\ k \in Endless => k \in cancelled
  /\ kid' = [kid EXCEPT ![k] = "arriving"]
  /\ UNCHANGED <<parent, user, each, bits, own>>

\* fetch_or(EACH | bit): who takes EACH resumes the parent.
Arrive(k) ==
  /\ kid[k] = "arriving"
  /\ bits' = bits \cup {k} /\ each' = TRUE
  /\ kid' = [kid EXCEPT ![k] = IF each THEN "idle" ELSE "resuming"]
  /\ UNCHANGED <<parent, user, own>>

\* The continuation is read from the mux; it is resumed here or by its executor.
Resume(k) ==
  /\ kid[k] = "resuming"
  /\ kid' = [kid EXCEPT ![k] = "idle"]
  /\ parent' \in {"resuming", "queued"}
  /\ UNCHANGED <<user, each, bits, own>>

KidStep(k) == Dispatch(k) \/ Finish(k) \/ Arrive(k) \/ Resume(k)

\* What the parent does without being asked to.
ParentStep ==
  \/ PostNext \/ InitActiveCounts \/ ReleaseEach \/ DispatchParent \/ AwaitResume \/ Take
  \/ CancelNext
  \/ user = "select" /\ (Await \/ (winner # NoSlot /\ Destroy))

Next ==
  \/ MuxTuple \/ MuxMany \/ Select \/ Await \/ Poll \/ Destroy \/ End
  \/ \E i \in Slots : Fork(i)
  \/ ParentStep
  \/ \E k \in Slots : KidStep(k)
  \/ parent = "ended" /\ UNCHANGED vars

\* The parent's thread goes on, and children run and end.
Spec ==
  /\ Init /\ [][Next]_vars
  /\ WF_vars(ParentStep)
  /\ \A k \in Slots : WF_vars(KidStep(k))

-----------------------------------------------------------------------------
\* EACH is free exactly while the parent sleeps and nobody is on the way to wake
\* it; then no result lies in the word unseen, and one is still to come.
OneWaker ==
  /\ ~each => parent = "waiting" /\ bits = {} /\ \E k \in Slots : kid[k] # "idle"
  /\ \A k \in Slots : kid[k] = "resuming" =>
       parent = "waiting" /\ each /\ \A o \in Slots \ {k} : kid[o] # "resuming"

\* A parent that wakes finds what the asserts of mux_await_resume demand: EACH is
\* held and a slot is set.
WokenWithResult ==
  /\ parent \in {"resuming", "taking", "queued"} => each
  /\ parent \in {"resuming", "queued"} /\ remaining > 0 => bits # {}

\* Every slot is in use from its start until its result is taken, once, and
\* remaining counts those slots: a slot that is free again, or a mux whose
\* destructor runs, has no child that could still touch them.
EveryResultOnce ==
  /\ \A k \in Slots : k \in bits => kid[k] \in {"idle", "resuming"}
  /\ user # "none" /\ parent # "making" => active = Started
  /\ user # "none" /\ parent \notin {"making", "taking"} => remaining = Cardinality(active)
  /\ user = "none" => \A k \in Slots : kid[k] = "idle"

\* A parent that waits goes on, and a select comes to its end although some of its
\* awaitables end only because it cancels them.
WaitingParent == user = "select" \/ parent \in {"suspending", "waiting", "queued", "resuming"}
ParentGoesOn == WaitingParent ~> ~WaitingParent
=============================================================================
