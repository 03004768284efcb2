----------------------------- MODULE MpscBounded -----------------------------
(***************************************************************************)
(* tmc::qu_mpsc_bounded: many producers, one of which closes the queue,    *)
(* and one consumer over an array of slots.  A ticket only picks a slot;   *)
(* producers of one slot are serialised by its flags word, which holds     *)
(* PROD (claimed), DATA, CONS (the consumer waits) and the chain of parked *)
(* producers or the close sentinel.  One action is one atomic access.      *)
(***************************************************************************)
EXTENDS Integers, Sequences, FiniteSets, SequencesExt

CONSTANTS Producers, Consumer, None,
          Capacities,     \* what the queue may be constructed with
          MaxPushes       \* bound: pushes that are begun

VARIABLES slots,          \* slot -> [flags, chain, sentinel, output_producers, waiting, wait_idx, data]
          write_offset, read_offset,
          closed, write_closed_at,   \* write_closed_at is None until closed_ready
          ticket,         \* producer -> its ticket
          pushes,         \* producer -> pushes it has begun
          pc, sent, got, told

vars == <<slots, write_offset, read_offset, closed, write_closed_at, ticket, pushes, pc, sent, got, told>>

Slot(i) == i % Cardinality(DOMAIN slots)
Mine(p) == Slot(ticket[p])
ReadSlot == Slot(read_offset)
Goto(th, l) == pc' = [pc EXCEPT ![th] = l]
Claimable(e) == e.flags \subseteq {"cons"} /\ e.chain = <<>> /\ ~e.sentinel
PastCutoff(i) == write_closed_at # None /\ write_closed_at <= i
Item(p) == <<p, pushes[p]>>

Init ==
  /\ \E capacity \in Capacities :
       slots = [s \in 0 .. capacity - 1 |->
                  [flags |-> {}, chain |-> <<>>, sentinel |-> FALSE, output_producers |-> <<>>,
                   waiting |-> FALSE, wait_idx |-> 0, data |-> None]]
  /\ write_offset = 0 /\ read_offset = 0 /\ closed = FALSE /\ write_closed_at = None
  /\ ticket = [p \in Producers |-> 0] /\ pushes = [p \in Producers |-> 0]
  /\ pc = [th \in Producers \cup {Consumer} |-> "idle"]
  /\ sent = {} /\ got = <<>> /\ told = FALSE
-----------------------------------------------------------------------------
(* push *)
\* get_write_ticket, fetch_add.
GetTicket(p) ==
  /\ pc[p] = "idle" /\ FoldFunction(+, 0, pushes) < MaxPushes
  /\ ticket' = [ticket EXCEPT ![p] = write_offset] /\ write_offset' = write_offset + 1
  /\ pushes' = [pushes EXCEPT ![p] = @ + 1]
  /\ Goto(p, "ticket")
  /\ UNCHANGED <<slots, read_offset, closed, write_closed_at, sent, got, told>>

\* get_write_ticket, closed: spins for the cutoff, then fails past it.
CheckClosed(p) ==
  /\ pc[p] = "ticket" /\ (closed => write_closed_at # None)
  /\ Goto(p, IF closed /\ PastCutoff(ticket[p]) THEN "idle" ELSE "claim")
  /\ UNCHANGED <<slots, write_offset, read_offset, closed, write_closed_at, ticket, pushes, sent, got, told>>

\* producer_try_claim
Claim(p) ==
  /\ pc[p] = "claim"
  /\ LET e == slots[Mine(p)] IN
       IF Claimable(e)
       THEN /\ slots' = [slots EXCEPT ![Mine(p)].flags = @ \cup {"prod"}]
            /\ Goto(p, "write")
       ELSE slots' = slots /\ Goto(p, IF e.sentinel THEN "idle" ELSE "park")
  /\ UNCHANGED <<write_offset, read_offset, closed, write_closed_at, ticket, pushes, sent, got, told>>

\* producer_park: gives up when the slot became free or closed meanwhile.
Park(p) ==
  /\ pc[p] = "park"
  /\ LET e == slots[Mine(p)] IN
       IF Claimable(e) \/ e.sentinel
       THEN slots' = slots /\ Goto(p, IF e.sentinel THEN "idle" ELSE "claim")
       ELSE /\ slots' = [slots EXCEPT ![Mine(p)].chain = <<p>> \o @]
            /\ Goto(p, "parked")
  /\ UNCHANGED <<write_offset, read_offset, closed, write_closed_at, ticket, pushes, sent, got, told>>

\* await_resume emplaces the value in the slot it owns.
Emplace(p) ==
  /\ pc[p] = "write"
  /\ slots' = [slots EXCEPT ![Mine(p)].data = Item(p)]
  /\ Goto(p, "publish")
  /\ UNCHANGED <<write_offset, read_offset, closed, write_closed_at, ticket, pushes, sent, got, told>>

\* producer_publish, CAS of the flags.
Publish(p) ==
  /\ pc[p] = "publish"
  /\ LET f == slots[Mine(p)].flags IN
       /\ slots' = [slots EXCEPT ![Mine(p)].flags = (f \ {"prod", "cons"}) \cup {"data"}]
       /\ Goto(p, IF "cons" \in f THEN "wake" ELSE "idle")
  /\ sent' = sent \cup {Item(p)}
  /\ UNCHANGED <<write_offset, read_offset, closed, write_closed_at, ticket, pushes, got, told>>

\* producer_publish, exchange of waiting_consumer, and the consumer is posted.
WakeConsumer(p) ==
  /\ pc[p] = "wake"
  /\ slots' = [slots EXCEPT ![Mine(p)].waiting = FALSE]
  /\ pc' = [pc EXCEPT ![p] = "idle",
                      ![Consumer] = IF slots[Mine(p)].waiting THEN "reading" ELSE @]
  /\ UNCHANGED <<write_offset, read_offset, closed, write_closed_at, ticket, pushes, sent, got, told>>
-----------------------------------------------------------------------------
(* pull and try_pull *)
\* The flags are read first: data, or go and look whether the queue is closed.
SawSentinel(how) == IF how = "pull" THEN "pull_sentinel" ELSE "try_pull_sentinel"
Look(how) ==
  /\ pc[Consumer] = "idle"
  /\ LET e == slots[ReadSlot] IN
       Goto(Consumer, IF "data" \in e.flags THEN "reading"
                      ELSE IF e.sentinel THEN SawSentinel(how) ELSE how)
  /\ UNCHANGED <<slots, write_offset, read_offset, closed, write_closed_at, ticket, pushes, sent, got, told>>

\* Then closed: past the cutoff the queue is drained; a sentinel before it is skipped.
LookClosed(how) ==
  /\ pc[Consumer] \in {how, SawSentinel(how)} /\ (closed => write_closed_at # None)
  /\ LET drained == closed /\ PastCutoff(read_offset)
         skip == closed /\ ~drained /\ pc[Consumer] # how
     IN /\ told' = (told \/ drained)
        /\ read_offset' = IF skip THEN read_offset + 1 ELSE read_offset
        /\ Goto(Consumer, IF drained \/ skip \/ how = "try_pull" THEN "idle" ELSE "install")
  /\ UNCHANGED <<slots, write_offset, closed, write_closed_at, ticket, pushes, sent, got>>

\* aw_pull::await_suspend: the consumer is installed, and counts once CONS is set.
Install ==
  /\ pc[Consumer] = "install"
  /\ slots' = [slots EXCEPT ![ReadSlot].wait_idx = read_offset, ![ReadSlot].waiting = TRUE]
  /\ Goto(Consumer, "arm")
  /\ UNCHANGED <<write_offset, read_offset, closed, write_closed_at, ticket, pushes, sent, got, told>>

Arm ==
  /\ pc[Consumer] = "arm"
  /\ LET e == slots[ReadSlot]
         drained == e.sentinel /\ PastCutoff(read_offset)
     IN /\ slots' = IF "data" \in e.flags \/ e.sentinel
                    THEN [slots EXCEPT ![ReadSlot].waiting = FALSE]
                    ELSE [slots EXCEPT ![ReadSlot].flags = @ \cup {"cons"}]
        /\ told' = (told \/ drained)
        /\ read_offset' = IF e.sentinel /\ ~drained THEN read_offset + 1 ELSE read_offset
        /\ Goto(Consumer, CASE "data" \in e.flags -> "reading"
                            [] drained -> "idle"
                            [] e.sentinel /\ ~drained -> "install"
                            [] OTHER -> "parked")
  /\ UNCHANGED <<write_offset, closed, write_closed_at, ticket, pushes, sent, got>>

\* The scope reads and destroys the value; finish_read goes to the next slot.
Read ==
  /\ pc[Consumer] = "reading"
  /\ got' = Append(got, slots[ReadSlot].data)
  /\ slots' = [slots EXCEPT ![ReadSlot].data = None]
  /\ Goto(Consumer, "drain")
  /\ UNCHANGED <<write_offset, read_offset, closed, write_closed_at, ticket, pushes, sent, told>>

\* consumer_drain_and_handoff: the slot is freed, or claimed for the producer that
\* parked first; the chain is newest first.
DrainAndHandOff ==
  /\ pc[Consumer] = "drain"
  /\ LET e == slots[ReadSlot]
         line == IF e.output_producers # <<>> THEN e.output_producers ELSE Reverse(e.chain)
     IN /\ slots' = [slots EXCEPT ![ReadSlot] =
              [e EXCEPT !.flags = IF line = <<>> THEN {} ELSE {"prod"},
                        !.chain = IF e.output_producers # <<>> THEN @ ELSE <<>>,
                        !.output_producers = IF line = <<>> THEN <<>> ELSE Tail(line)]]
        /\ pc' = [th \in DOMAIN pc |->
                    CASE th = Consumer -> "idle"
                      [] line # <<>> /\ th = Head(line) -> "write"
                      [] OTHER -> pc[th]]
  /\ read_offset' = read_offset + 1
  /\ UNCHANGED <<write_offset, closed, write_closed_at, ticket, pushes, sent, got, told>>
-----------------------------------------------------------------------------
(* close and close_resume_inline *)
CloseFlag(p) ==
  /\ pc[p] = "idle" /\ ~closed
  /\ closed' = TRUE
  /\ Goto(p, "cutoff")
  /\ UNCHANGED <<slots, write_offset, read_offset, write_closed_at, ticket, pushes, sent, got, told>>

\* The cutoff is a ticket of its own.
CloseCutoff(p) ==
  /\ pc[p] = "cutoff"
  /\ write_closed_at' = write_offset /\ write_offset' = write_offset + 1
  /\ Goto(p, "mark")
  /\ UNCHANGED <<slots, read_offset, closed, ticket, pushes, sent, got, told>>

CutoffSlot == Slot(write_closed_at)

\* A slot in use is left alone: the consumer sees the cutoff after it.
CloseLook(p) ==
  /\ pc[p] = "mark"
  /\ LET f == slots[CutoffSlot].flags IN
       Goto(p, IF f \cap {"data", "prod"} # {} THEN "idle"
                    ELSE IF "cons" \in f THEN "peek" ELSE "seal")
  /\ UNCHANGED <<slots, write_offset, read_offset, closed, write_closed_at, ticket, pushes, sent, got, told>>

\* Mutant: close does not ask for which round of the slot the consumer waits.
PeekBlindly(p) ==
  /\ pc[p] = "peek"
  /\ Goto(p, "seal_cons")
  /\ UNCHANGED <<slots, write_offset, read_offset, closed, write_closed_at, ticket, pushes, sent, got, told>>

\* So is a consumer that waits for an earlier round of this slot.
ClosePeek(p) ==
  /\ pc[p] = "peek"
  /\ Goto(p, IF slots[CutoffSlot].wait_idx < write_closed_at THEN "idle" ELSE "seal_cons")
  /\ UNCHANGED <<slots, write_offset, read_offset, closed, write_closed_at, ticket, pushes, sent, got, told>>

\* The CAS that sets the sentinel; a consumer that waited here gets an empty scope.
CloseSeal(p) ==
  /\ pc[p] \in {"seal", "seal_cons"}
  /\ LET e == slots[CutoffSlot]
         seen == IF pc[p] = "seal" THEN {} ELSE {"cons"}
     IN IF e.flags = seen /\ e.chain = <<>>
        THEN /\ slots' = [slots EXCEPT ![CutoffSlot].flags = {}, ![CutoffSlot].sentinel = TRUE,
                                       ![CutoffSlot].waiting = @ /\ seen = {}]
             /\ IF seen # {} /\ e.waiting
                THEN pc' = [pc EXCEPT ![p] = "idle", ![Consumer] = "idle"] /\ told' = TRUE
                ELSE Goto(p, "idle") /\ told' = told
        ELSE slots' = slots /\ told' = told /\ Goto(p, "mark")
  /\ UNCHANGED <<write_offset, read_offset, closed, write_closed_at, ticket, pushes, sent, got>>

\* The destructor, when nobody is inside: destroys what was never pulled.
Destroy ==
  /\ write_closed_at # None /\ \A th \in DOMAIN pc : pc[th] = "idle"
  /\ slots' = [s \in DOMAIN slots |->
                 IF "data" \in slots[s].flags /\ \E i \in read_offset .. write_closed_at - 1 : s = Slot(i)
                 THEN [slots[s] EXCEPT !.data = None] ELSE slots[s]]
  /\ pc' = [th \in DOMAIN pc |-> "gone"]
  /\ UNCHANGED <<write_offset, read_offset, closed, write_closed_at, ticket, pushes, sent, got, told>>

Push(p) == \/ GetTicket(p) \/ CheckClosed(p) \/ Claim(p) \/ Park(p)
           \/ Emplace(p) \/ Publish(p) \/ WakeConsumer(p)
Consume == \/ \E how \in {"pull", "try_pull"} : Look(how) \/ LookClosed(how)
           \/ Install \/ Arm \/ Read \/ DrainAndHandOff
Close(p) == CloseFlag(p) \/ CloseCutoff(p) \/ CloseLook(p) \/ ClosePeek(p) \/ CloseSeal(p)
Next == (\E p \in Producers : Push(p) \/ Close(p)) \/ Consume \/ Destroy
-----------------------------------------------------------------------------
\* A slot has one writer, and what it writes over has been read and destroyed.
OverwritesNothing ==
  \A p \in Producers : pc[p] \in {"write", "publish"} =>
    /\ "prod" \in slots[Mine(p)].flags /\ "data" \notin slots[Mine(p)].flags
    /\ pc[p] = "write" => slots[Mine(p)].data = None
    /\ \A q \in Producers \ {p} : pc[q] \in {"write", "publish"} => Mine(q) # Mine(p)

ReadsData ==
  /\ pc[Consumer] = "reading" => slots[ReadSlot].data # None
  /\ pc[Consumer] = "drain" => slots[ReadSlot].flags = {"data"}
  /\ pc[Consumer] = "arm" => "cons" \notin slots[ReadSlot].flags

\* What one producer pushed comes out in the order it was pushed (not so).
EachProducersOrder ==
  \A i, j \in DOMAIN got : i < j /\ got[i][1] = got[j][1] => got[i][2] < got[j][2]

NothingLeaks == pc[Consumer] = "gone" => \A s \in DOMAIN slots : slots[s].data = None

\* Somebody is parked who can go on.
Forgotten ==
  \/ \E p \in Producers : pc[p] = "parked"
  \/ pc[Consumer] = "parked" /\ (Len(got) < Cardinality(sent) \/ write_closed_at # None)
=============================================================================
