------------------------------- MODULE QuInbox -------------------------------
(* qu_inbox, the bounded FIFO queue through which any thread hands items to a
   thread group of ex_cpu. Offsets only grow; each slot's flags say whose turn
   it is: k to be written by ticket k, k + 1 to be read by it, and k + BlockSize
   to be written one round later. *)
EXTENDS Integers, FiniteSets

CONSTANTS Threads,    \* threads that push and pull
          BlockSize,  \* capacity (4096 in ex_cpu)
          MaxItems,   \* bound: tickets given out
          MaxBulk     \* bound: Count of try_push_bulk

VARIABLES write_offset, read_offset,
          elements, \* per slot: flags, and the item in data (ticket k writes item k + 1)
          call,     \* per thread: the call it is in, its offset and the items left to push
          pulled    \* how often try_pull has returned each item

vars == <<write_offset, read_offset, elements, call, pulled>>
offsets == <<write_offset, read_offset>>

NoItem == 0
NoCall == [pc |-> "none", off |-> 0, n |-> 0]
Slot(off) == off % BlockSize

Init ==
  /\ write_offset = 0 /\ read_offset = 0
  /\ elements = [i \in 0..(BlockSize - 1) |-> [flags |-> i, data |-> NoItem]]
  /\ call = [t \in Threads |-> NoCall]
  /\ pulled = [x \in NoItem..MaxItems |-> 0]

Goes(t, c) == call' = [call EXCEPT ![t] = c]
At(t, pc) == call[t].pc = pc
Off(t) == call[t].off
Flags(t) == elements[Slot(Off(t))].flags
-----------------------------------------------------------------------------
\* try_push (one item) and try_push_bulk.
TryPush(t) ==
  /\ At(t, "none")
  /\ \E n \in 1..MaxBulk : Goes(t, [pc |-> "push", off |-> write_offset, n |-> n])
  /\ UNCHANGED <<offsets, elements, pulled>>

\* The loop looks at the slot: clear for this ticket, in use since the last round
\* (full), or written by another thread.
LookToWrite(t) ==
  /\ At(t, "push")
  /\ Goes(t, CASE Flags(t) = Off(t) -> [call[t] EXCEPT !.pc = "ticket"]
               [] Flags(t) < Off(t) -> NoCall
               [] OTHER -> [call[t] EXCEPT !.off = write_offset])
  /\ UNCHANGED <<offsets, elements, pulled>>

\* compare_exchange of write_offset, which loads it where it fails.
TakeTicket(t) ==
  /\ At(t, "ticket") /\ write_offset < MaxItems
  /\ IF write_offset = Off(t)
     THEN write_offset' = Off(t) + 1 /\ Goes(t, [call[t] EXCEPT !.pc = "write"])
     ELSE Goes(t, [call[t] EXCEPT !.pc = "push", !.off = write_offset]) /\ UNCHANGED write_offset
  /\ UNCHANGED <<read_offset, elements, pulled>>

Write(t) ==
  /\ At(t, "write")
  /\ elements' = [elements EXCEPT ![Slot(Off(t))].data = Off(t) + 1]
  /\ Goes(t, [call[t] EXCEPT !.pc = "publish"])
  /\ UNCHANGED <<offsets, pulled>>

\* flags says that the item is there; a bulk goes on with the next one.
Publish(t) ==
  /\ At(t, "publish")
  /\ elements' = [elements EXCEPT ![Slot(Off(t))].flags = Off(t) + 1]
  /\ Goes(t, IF call[t].n = 1 THEN NoCall
             ELSE [pc |-> "push", off |-> Off(t) + 1, n |-> call[t].n - 1])
  /\ UNCHANGED <<offsets, pulled>>
-----------------------------------------------------------------------------
TryPull(t) ==
  /\ At(t, "none")
  /\ Goes(t, [pc |-> "pull", off |-> read_offset, n |-> 0])
  /\ UNCHANGED <<offsets, elements, pulled>>

\* Mutant: a slot that has a ticket, but no item yet, counts as ready.
TicketIsReady(t) == Flags(t) \in {Off(t), Off(t) + 1} /\ Off(t) < write_offset
Ready(t) == Flags(t) = Off(t) + 1

\* Ready, not ready (empty, or its writer is slow), or read by another thread.
LookToRead(t) ==
  /\ At(t, "pull")
  /\ Goes(t, CASE Ready(t) -> [call[t] EXCEPT !.pc = "claim"]
               [] Flags(t) <= Off(t) /\ ~Ready(t) -> NoCall
               [] OTHER -> [call[t] EXCEPT !.off = read_offset])
  /\ UNCHANGED <<offsets, elements, pulled>>

\* compare_exchange of read_offset.
Claim(t) ==
  /\ At(t, "claim")
  /\ IF read_offset = Off(t)
     THEN read_offset' = Off(t) + 1 /\ Goes(t, [call[t] EXCEPT !.pc = "take"])
     ELSE Goes(t, [call[t] EXCEPT !.pc = "pull", !.off = read_offset]) /\ UNCHANGED read_offset
  /\ UNCHANGED <<write_offset, elements, pulled>>

Take(t) ==
  /\ At(t, "take")
  /\ pulled' = [pulled EXCEPT ![elements[Slot(Off(t))].data] = @ + 1]
  /\ Goes(t, [call[t] EXCEPT !.pc = "free"])
  /\ UNCHANGED <<offsets, elements>>

\* flags gives the slot to the writer of the next round.
Free(t) ==
  /\ At(t, "free")
  /\ elements' = [elements EXCEPT ![Slot(Off(t))].flags = Off(t) + BlockSize]
  /\ Goes(t, NoCall)
  /\ UNCHANGED <<offsets, pulled>>

Step(t) ==
  \/ TryPush(t) \/ LookToWrite(t) \/ TakeTicket(t) \/ Write(t) \/ Publish(t)
  \/ TryPull(t) \/ LookToRead(t) \/ Claim(t) \/ Take(t) \/ Free(t)
Next == \E t \in Threads : Step(t)
Spec == Init /\ [][Next]_vars
-----------------------------------------------------------------------------
TypeOK ==
  /\ write_offset \in 0..MaxItems /\ read_offset \in 0..write_offset
  /\ elements \in [0..(BlockSize - 1) -> [flags : 0..(MaxItems + BlockSize), data : 0..MaxItems]]
  /\ pulled \in [NoItem..MaxItems -> Nat]
  /\ \A t \in Threads : Off(t) \in 0..MaxItems /\ call[t].n \in 0..MaxBulk

\* The inbox as a queue: tickets given out and not claimed; an item whose slot has
\* been claimed counts as taken with what the slot holds.
Items == [k \in 1..(write_offset - read_offset) |-> read_offset + k]
Taken == [x \in 1..MaxItems |->
            pulled[x] + Cardinality({t \in Threads : At(t, "take") /\ elements[Slot(Off(t))].data = x})]

\* empty(), which the worker looks at before it sleeps.
Empty == write_offset = read_offset

\* A call gives up only for a reason that is still there: try_pull when the oldest
\* item is not complete (nobody else may read past it either), a push when a reader
\* of the round before has not freed the slot.  The offset it used may be old.
GivesUpRightly ==
  [][ \A t \in Threads :
        /\ At(t, "pull") /\ call'[t].pc = "none" =>
             Empty \/ \E w \in Threads : call[w].pc \in {"write", "publish"} /\ Off(w) = read_offset
        /\ At(t, "push") /\ call'[t].pc = "none" =>
             \/ write_offset - read_offset = BlockSize
             \/ \E r \in Threads : call[r].pc \in {"take", "free"}
                                   /\ Off(r) = write_offset - BlockSize ]_vars
=============================================================================
