----------------------------- MODULE SpscBounded -----------------------------
(***************************************************************************)
(* tmc::qu_spsc_bounded: one producer and one consumer share an array of   *)
(* slots.  The flags word of a slot is all they synchronise on: it says    *)
(* whether there is data, whether the queue was closed here, and which     *)
(* coroutine waits here.  The offsets are private to their side and wrap   *)
(* at IndexRange.  Waking a coroutine belongs to the exchange that found   *)
(* it: it can do nothing before it is posted.                              *)
(***************************************************************************)
EXTENDS Integers, Sequences, FiniteSets

CONSTANTS Producer, Consumer, None,
          Capacities,             \* what the queue may be constructed with
          IndexRange,
          MaxItems                \* bound: items that are pushed

VARIABLES slots,          \* slot -> [flags, data]
          write_offset, read_offset, closed, write_closed_at,
          batch,          \* items of the push in progress
          pc, sent, got, told

vars == <<slots, write_offset, read_offset, closed, write_closed_at, batch, pc, sent, got, told>>

HasData(flags) == flags \in {"data", "data_closed", "producer"}
\* An "empty" flags word is null, a waiting side is the address of its coroutine.
Flags == {"empty", "data", "closed", "data_closed", "consumer", "producer"}

Capacity == Cardinality(DOMAIN slots)
SlotAt(i) == (i % IndexRange) % Capacity
WriteSlot(i) == SlotAt(write_offset + i)
ReadSlot == SlotAt(read_offset)
ItemNo(i) == <<Producer, Cardinality(sent) + 1 + i>>
Goto(th, l) == pc' = [pc EXCEPT ![th] = l]
Finished == pc[Producer] = "idle" /\ pc[Consumer] = "idle"

Init ==
  /\ \E capacity \in Capacities :
       slots = [s \in 0 .. capacity - 1 |-> [flags |-> "empty", data |-> None]]
  /\ write_offset = 0 /\ read_offset = 0
  /\ closed = FALSE /\ write_closed_at = 0 /\ batch = 0
  /\ pc = [th \in {Producer, Consumer} |-> "idle"]
  /\ sent = {} /\ got = <<>> /\ told = FALSE
-----------------------------------------------------------------------------
(* The producer. *)
MayPush(n) == pc[Producer] = "idle" /\ ~closed /\ Cardinality(sent) + n <= MaxItems
\* Mutant: a batch looks at its first slot.
IsFullFirst(n) == slots[WriteSlot(0)].flags = "data"
IsFull(n) == slots[WriteSlot(n - 1)].flags = "data"

\* push and push_bulk, await_ready: only the last slot of the batch is looked at.
Push(n) ==
  /\ MayPush(n)
  /\ batch' = n
  /\ Goto(Producer, IF IsFull(n) THEN "suspend" ELSE "write")
  /\ UNCHANGED <<slots, write_offset, read_offset, closed, write_closed_at, sent, got, told>>

TryPush ==
  /\ MayPush(1) /\ ~IsFull(1)
  /\ batch' = 1
  /\ Goto(Producer, "write")
  /\ UNCHANGED <<slots, write_offset, read_offset, closed, write_closed_at, sent, got, told>>

\* await_suspend: the CAS fails when the consumer has freed the slot meanwhile.
Suspend ==
  /\ pc[Producer] = "suspend"
  /\ LET s == WriteSlot(batch - 1) IN
       IF slots[s].flags = "data"
       THEN slots' = [slots EXCEPT ![s].flags = "producer"] /\ Goto(Producer, "parked")
       ELSE slots' = slots /\ Goto(Producer, "write")
  /\ UNCHANGED <<write_offset, read_offset, closed, write_closed_at, batch, sent, got, told>>

\* The data of the whole batch and the flags of all but its first slot.
Write ==
  /\ pc[Producer] = "write"
  /\ slots' = [s \in DOMAIN slots |->
                 IF \E i \in 0 .. batch - 1 : s = WriteSlot(i)
                 THEN LET i == CHOOSE i \in 0 .. batch - 1 : s = WriteSlot(i)
                      IN [flags |-> IF i = 0 THEN slots[s].flags ELSE "data", data |-> ItemNo(i)]
                 ELSE slots[s]]
  /\ Goto(Producer, "publish")
  /\ UNCHANGED <<write_offset, read_offset, closed, write_closed_at, batch, sent, got, told>>

\* The flags of the first slot, exchanged: a consumer that waited there is posted.
Publish ==
  /\ pc[Producer] = "publish"
  /\ slots' = [slots EXCEPT ![WriteSlot(0)].flags = "data"]
  /\ pc' = [pc EXCEPT ![Producer] = "idle",
                      ![Consumer] = IF slots[WriteSlot(0)].flags = "consumer"
                                    THEN "reading" ELSE pc[Consumer]]
  /\ write_offset' = (write_offset + batch) % IndexRange
  /\ sent' = sent \cup {ItemNo(i) : i \in 0 .. batch - 1}
  /\ batch' = 0
  /\ UNCHANGED <<read_offset, closed, write_closed_at, got, told>>

\* close and close_resume_inline: a consumer that waits gets an empty scope.
Close ==
  /\ pc[Producer] = "idle" /\ ~closed
  /\ closed' = TRUE /\ write_closed_at' = write_offset
  /\ LET f == slots[WriteSlot(0)].flags IN
       /\ slots' = [slots EXCEPT ![WriteSlot(0)].flags =
                                   IF f = "data" THEN "data_closed" ELSE "closed"]
       /\ IF f = "consumer" THEN Goto(Consumer, "idle") /\ told' = TRUE
                            ELSE UNCHANGED <<pc, told>>
  /\ UNCHANGED <<write_offset, read_offset, batch, sent, got>>
-----------------------------------------------------------------------------
(* The consumer. *)
\* pull, await_ready.
Pull ==
  /\ pc[Consumer] = "idle"
  /\ Goto(Consumer, IF HasData(slots[ReadSlot].flags) THEN "reading" ELSE "wait")
  /\ UNCHANGED <<slots, write_offset, read_offset, closed, write_closed_at, batch, sent, got, told>>

\* pull, await_suspend: try_wait parks on an empty slot only.
Wait ==
  /\ pc[Consumer] = "wait"
  /\ LET f == slots[ReadSlot].flags IN
       /\ slots' = IF f = "empty" THEN [slots EXCEPT ![ReadSlot].flags = "consumer"] ELSE slots
       /\ told' = (told \/ f = "closed")
       /\ Goto(Consumer, CASE f = "empty" -> "parked" [] f = "closed" -> "idle" [] OTHER -> "reading")
  /\ UNCHANGED <<write_offset, read_offset, closed, write_closed_at, batch, sent, got>>

TryPull ==
  /\ pc[Consumer] = "idle"
  /\ LET f == slots[ReadSlot].flags IN
       /\ told' = (told \/ f = "closed")
       /\ Goto(Consumer, IF HasData(f) THEN "reading" ELSE "idle")
  /\ UNCHANGED <<slots, write_offset, read_offset, closed, write_closed_at, batch, sent, got>>

\* The scope reads the value and destroys it.
Read ==
  /\ pc[Consumer] = "reading"
  /\ got' = Append(got, slots[ReadSlot].data)
  /\ slots' = [slots EXCEPT ![ReadSlot].data = None]
  /\ Goto(Consumer, "finish")
  /\ UNCHANGED <<write_offset, read_offset, closed, write_closed_at, batch, sent, told>>

\* Mutant: finish_read stores the flags instead of exchanging them.
FinishStoring ==
  /\ pc[Consumer] = "finish"
  /\ slots' = [slots EXCEPT ![ReadSlot].flags = IF @ = "data_closed" THEN "closed" ELSE "empty"]
  /\ read_offset' = (read_offset + 1) % IndexRange
  /\ Goto(Consumer, "idle")
  /\ UNCHANGED <<write_offset, closed, write_closed_at, batch, sent, got, told>>

\* finish_read frees the slot and posts a producer that waited for it.
FinishRead ==
  /\ pc[Consumer] = "finish"
  /\ LET f == slots[ReadSlot].flags IN
       /\ slots' = [slots EXCEPT ![ReadSlot].flags =
                                   IF f = "data_closed" THEN "closed" ELSE "empty"]
       /\ pc' = [pc EXCEPT ![Consumer] = "idle",
                           ![Producer] = IF f = "producer" THEN "write" ELSE pc[Producer]]
  /\ read_offset' = (read_offset + 1) % IndexRange
  /\ UNCHANGED <<write_offset, closed, write_closed_at, batch, sent, got, told>>

\* The destructor, when neither side is inside: destroys what was never pulled.
\* Mutant: the indices are compared as if they did not wrap.
PlainLess(a, b) == a < b
LessThan(a, b) == (a - b) % IndexRange > IndexRange \div 2
Destroy ==
  /\ Finished /\ closed
  /\ LET left == {i \in 0 .. Capacity - 1 :
                    \A k \in 0 .. i : LessThan((read_offset + k) % IndexRange, write_closed_at)}
     IN slots' = [s \in DOMAIN slots |->
                    IF HasData(slots[s].flags) /\ \E i \in left : s = SlotAt(read_offset + i)
                    THEN [slots[s] EXCEPT !.data = None] ELSE slots[s]]
  /\ pc' = [th \in DOMAIN pc |-> "gone"]
  /\ UNCHANGED <<write_offset, read_offset, closed, write_closed_at, batch, sent, got, told>>

ProducerStep == (\E n \in 1 .. Capacity : Push(n)) \/ TryPush \/ Suspend \/ Write \/ Publish \/ Close
ConsumerStep == Pull \/ Wait \/ TryPull \/ Read \/ FinishRead
Next == ProducerStep \/ ConsumerStep \/ Destroy
-----------------------------------------------------------------------------
\* What the producer is about to write over has been read and destroyed.
OverwritesNothing ==
  pc[Producer] = "write" => \A i \in 0 .. batch - 1 : slots[WriteSlot(i)].data = None

\* The consumer never reads a slot whose data is not complete.
ReadsData == pc[Consumer] = "reading" => slots[ReadSlot].data # None

NothingLeaks == pc[Consumer] = "gone" => \A s \in DOMAIN slots : slots[s].data = None

\* One side waits although the other has done what it waits for.
Forgotten ==
  \/ pc[Consumer] = "parked" /\ (closed \/ \E x \in sent : \A i \in DOMAIN got : got[i] # x)
  \/ pc[Producer] = "parked" /\ Cardinality(sent) + batch - Len(got) <= Capacity
                             /\ pc[Consumer] # "finish"
=============================================================================
