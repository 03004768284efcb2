---------------------------- MODULE MpscUnbounded ----------------------------
(***************************************************************************)
(* tmc::qu_mpsc_unbounded: many producers, one of which closes the queue,  *)
(* and one consumer over the list of blocks.  A producer starts its walk   *)
(* at a hint; blocks are recycled only when the consumer has read up to a  *)
(* cutoff taken after they were gone from the hint and from write_block.   *)
(***************************************************************************)
EXTENDS BlockList, Sequences

CONSTANTS Producers, Consumer,
          MaxItems, MaxBulk,  \* bounds: tickets that are taken, items of one post,
          CloseBy             \* tickets that are taken when close begins

VARIABLES write_offset, read_offset, closed, write_closed_at,   \* None until closed_ready
          heads,    \* write_block, write_block_hint, read_block, head_block, block of the pull
          pending,  \* the reclaim that waits: [old, new, cutoff]
          walks,    \* thread -> [block, offset, seen, far, far_offset, at, end]
          pushes,   \* producer -> items it has posted, refused ones too
          pc, sent, got, told

vars == <<blocks, write_offset, read_offset, closed, write_closed_at, heads, pending, walks,
          pushes, pc, sent, got, told>>

Goto(th, l) == pc' = [pc EXCEPT ![th] = l]
NoWalk == [block |-> None, offset |-> 0, seen |-> None, far |-> None, far_offset |-> 0, at |-> 0, end |-> 0]
NoReclaim == [old |-> None, new |-> None, cutoff |-> 0]
\* Tickets give the items of one producer their numbers.
Item(p, i) == <<p, i>>

Init ==
  /\ BlocksInit
  /\ write_offset = 0 /\ read_offset = 0 /\ closed = FALSE /\ write_closed_at = None
  /\ heads = [write |-> FirstBlock, hint |-> FirstBlock, read |-> FirstBlock,
              head |-> FirstBlock, pull |-> None]
  /\ pending = NoReclaim
  /\ walks = [th \in Producers \cup {Consumer} |-> NoWalk]
  /\ pushes = [p \in Producers |-> 0]
  /\ pc = [th \in Producers \cup {Consumer} |-> "idle"]
  /\ sent = {} /\ got = <<>> /\ told = FALSE
-----------------------------------------------------------------------------
(* post and post_bulk *)
\* get_write_ticket and get_write_ticket_bulk: fetch_add.
GetTicket(p, n) ==
  /\ pc[p] = "idle" /\ write_offset + n <= MaxItems
  /\ walks' = [walks EXCEPT ![p] = [NoWalk EXCEPT !.at = write_offset, !.end = write_offset + n]]
  /\ write_offset' = write_offset + n
  /\ Goto(p, "ticket")
  /\ UNCHANGED <<blocks, read_offset, closed, write_closed_at, heads, pending, pushes, sent, got, told>>

\* Spins for the cutoff once closed is seen; a ticket past it is refused.
CheckClosed(p) ==
  /\ pc[p] = "ticket" /\ (closed => write_closed_at # None)
  /\ IF closed /\ write_closed_at <= walks[p].at
     THEN Goto(p, "idle") /\ walks' = [walks EXCEPT ![p] = NoWalk]
     ELSE Goto(p, "hint") /\ walks' = walks
  /\ UNCHANGED <<blocks, write_offset, read_offset, closed, write_closed_at, heads, pending,
                 pushes, sent, got, told>>

\* get_mpsc_write_start_block: the hint, or write_block when the hint has gone past.
LoadHint(th) ==
  /\ pc[th] = "hint"
  /\ walks' = [walks EXCEPT ![th].block = heads.hint]
  /\ Goto(th, "judge")
  /\ UNCHANGED <<blocks, write_offset, read_offset, closed, write_closed_at, heads, pending,
                 pushes, sent, got, told>>

StartBlock(th) ==
  /\ pc[th] = "judge"
  /\ LET b == IF blocks[walks[th].block].offset <= walks[th].at THEN walks[th].block ELSE heads.write
     IN walks' = [walks EXCEPT ![th].block = b, ![th].seen = b, ![th].offset = blocks[b].offset,
                               ![th].far = b, ![th].far_offset = blocks[b].offset]
  /\ Goto(th, "find")
  /\ UNCHANGED <<blocks, write_offset, read_offset, closed, write_closed_at, heads, pending,
                 pushes, sent, got, told>>

Reached(th) == pc[th] = "find" /\ walks[th].offset = Start(walks[th].at)
AllReached(p) == Reached(p) /\ walks[p].at < walks[p].end /\ walks[p].far_offset = Start(walks[p].end - 1)

\* find_block, one block further.
FindBlock(th) ==
  /\ pc[th] = "find" /\ ~Reached(th) /\ CanHop(walks[th].block)
  /\ blocks' = AfterHop(walks[th].block, walks[th].offset)
  /\ LET b == HopTo(walks[th].block)  o == walks[th].offset + BlockSize
     IN walks' = [walks EXCEPT ![th].block = b, ![th].offset = o,
                               ![th].far = b, ![th].far_offset = o]
  /\ UNCHANGED <<write_offset, read_offset, closed, write_closed_at, heads, pending,
                 pushes, pc, sent, got, told>>

\* get_write_ticket_bulk also allocates up to the last block of the batch.
FindEnd(p) ==
  /\ Reached(p) /\ walks[p].at < walks[p].end /\ ~AllReached(p) /\ CanHop(walks[p].far)
  /\ blocks' = AfterHop(walks[p].far, walks[p].far_offset)
  /\ walks' = [walks EXCEPT ![p].far = HopTo(@), ![p].far_offset = @ + BlockSize]
  /\ UNCHANGED <<write_offset, read_offset, closed, write_closed_at, heads, pending,
                 pushes, pc, sent, got, told>>

\* advance_write_block_hint_at_least, one CAS: from seen towards target.
Advance(th, seen, target, then) ==
  IF blocks[seen].offset >= blocks[target].offset \/ heads.hint = seen
  THEN /\ heads' = IF blocks[seen].offset < blocks[target].offset
                   THEN [heads EXCEPT !.hint = target] ELSE heads
       /\ Goto(th, then)
       /\ walks' = [walks EXCEPT ![th].seen = None, ![th].far = None, ![th].far_offset = 0]
  ELSE /\ walks' = [walks EXCEPT ![th].seen = heads.hint]
       /\ UNCHANGED <<heads, pc>>

AdvanceHint(p) ==
  /\ AllReached(p)
  /\ Advance(p, walks[p].seen, walks[p].far, "write")
  /\ UNCHANGED <<blocks, write_offset, read_offset, closed, write_closed_at, pending,
                 pushes, sent, got, told>>

\* write_element exchanges the flags; notify_consumer posts whoever waited there.
WriteElement(p) ==
  /\ pc[p] = "write"
  /\ LET w == walks[p]  item == Item(p, pushes[p] + 1)
     IN /\ blocks' = WithElem(w.block, w.at, [flags |-> "data", data |-> item])
        /\ sent' = sent \cup {item}
        /\ pc' = [pc EXCEPT
             ![p] = IF w.at + 1 = w.end THEN "idle"
                    ELSE IF (w.at + 1) % BlockSize = 0 THEN "next" ELSE "write",
             ![Consumer] = IF Elem(w.block, w.at).flags = "consumer" THEN "reading" ELSE @]
        /\ walks' = [walks EXCEPT ![p] = IF w.at + 1 = w.end THEN NoWalk ELSE [w EXCEPT !.at = w.at + 1]]
  /\ pushes' = [pushes EXCEPT ![p] = @ + 1]
  /\ UNCHANGED <<write_offset, read_offset, closed, write_closed_at, heads, pending, got, told>>

\* post_bulk follows next; after its last item it reads it to no effect.
NextBlock(p) ==
  /\ pc[p] = "next"
  /\ walks' = [walks EXCEPT ![p].block = blocks[@].next, ![p].offset = @ + BlockSize]
  /\ Goto(p, "write")
  /\ UNCHANGED <<blocks, write_offset, read_offset, closed, write_closed_at, heads, pending,
                 pushes, sent, got, told>>
-----------------------------------------------------------------------------
(* close and close_resume_inline *)
CloseFlag(p) ==
  /\ pc[p] = "idle" /\ ~closed /\ write_offset <= CloseBy
  /\ closed' = TRUE
  /\ Goto(p, "cutoff")
  /\ UNCHANGED <<blocks, write_offset, read_offset, write_closed_at, heads, pending, walks,
                 pushes, sent, got, told>>

\* The cutoff is a ticket of its own, with no item.
CloseCutoff(p) ==
  /\ pc[p] = "cutoff"
  /\ write_closed_at' = write_offset /\ write_offset' = write_offset + 1
  /\ walks' = [walks EXCEPT ![p] = [NoWalk EXCEPT !.at = write_offset, !.end = write_offset]]
  /\ Goto(p, "hint")
  /\ UNCHANGED <<blocks, read_offset, closed, heads, pending, pushes, sent, got, told>>

Seal(p) ==
  /\ Reached(p) /\ walks[p].at = walks[p].end
  /\ LET waits == Elem(walks[p].block, walks[p].at).flags = "consumer" IN
       /\ pc' = [pc EXCEPT ![p] = "idle", ![Consumer] = IF waits THEN "idle" ELSE @]
       /\ told' = (told \/ waits)
  /\ blocks' = WithElem(walks[p].block, walks[p].at, [flags |-> "closed", data |-> None])
  /\ walks' = [walks EXCEPT ![p] = NoWalk]
  /\ UNCHANGED <<write_offset, read_offset, closed, write_closed_at, heads, pending,
                 pushes, sent, got>>
-----------------------------------------------------------------------------
(* The consumer. *)
Here == Elem(heads.pull, read_offset)

\* get_read_ticket, find_block from read_block, which is at most one behind; then
\* the flags: pull goes on to wait where try_pull gives up.
Look(how) ==
  /\ pc[Consumer] = "idle"
  /\ LET here == blocks[heads.read].offset = Start(read_offset)
         b == IF here THEN heads.read ELSE HopTo(heads.read)
         f == IF b \in Allocated THEN Elem(b, read_offset).flags ELSE "empty"
     IN /\ here \/ CanHop(heads.read)
        /\ blocks' = IF here THEN blocks ELSE AfterHop(heads.read, blocks[heads.read].offset)
        /\ told' = (told \/ (how = "try_pull" /\ f = "closed"))
        /\ IF f # "data" /\ how = "try_pull"
           THEN UNCHANGED <<pc, heads>>
           ELSE /\ Goto(Consumer, IF f = "data" THEN "reading" ELSE "wait")
                /\ heads' = [heads EXCEPT !.pull = b]
  /\ UNCHANGED <<write_offset, read_offset, closed, write_closed_at, pending, walks,
                 pushes, sent, got>>

Wait ==
  /\ pc[Consumer] = "wait"
  /\ LET f == Here.flags IN
       /\ blocks' = WithElem(heads.pull, read_offset,
                             [Here EXCEPT !.flags = IF f = "closed" THEN f ELSE "consumer"])
       /\ told' = (told \/ f = "closed")
       /\ Goto(Consumer, CASE f = "empty" -> "parked" [] f = "closed" -> "idle" [] OTHER -> "reading")
  /\ UNCHANGED <<write_offset, read_offset, closed, write_closed_at, heads, pending, walks,
                 pushes, sent, got>>

\* The scope reads the value and destroys it; finish_read enters a new block.
Read ==
  /\ pc[Consumer] = "reading"
  /\ got' = Append(got, Here.data)
  /\ blocks' = WithElem(heads.pull, read_offset, [Here EXCEPT !.data = None])
  /\ read_offset' = read_offset + 1
  /\ IF read_offset % BlockSize = 0
     THEN /\ heads' = [heads EXCEPT !.read = heads.pull, !.pull = None]
          /\ Goto(Consumer, IF pending.old = None THEN "start" ELSE "reclaim")
     ELSE heads' = [heads EXCEPT !.pull = None] /\ Goto(Consumer, "idle")
  /\ UNCHANGED <<write_offset, closed, write_closed_at, pending, walks, pushes, sent, told>>

\* Mutant: the blocks are recycled before the tickets in flight have been read.
FinishAtOnce(next) ==
  /\ IF pending.old # None
     THEN /\ blocks' = Reclaimed(pending.old, pending.new)
          /\ heads' = [heads EXCEPT !.head = pending.new]
          /\ pending' = NoReclaim
     ELSE UNCHANGED <<blocks, heads, pending>>
  /\ Goto(Consumer, next)
  /\ UNCHANGED <<write_offset, read_offset, closed, write_closed_at, walks, pushes, sent, got, told>>

\* try_finish_pending_reclaim: every ticket before the cutoff has been read.
FinishPending(next) ==
  /\ IF pending.old # None /\ read_offset >= pending.cutoff
     THEN /\ blocks' = Reclaimed(pending.old, pending.new)
          /\ heads' = [heads EXCEPT !.head = pending.new]
          /\ pending' = NoReclaim
     ELSE UNCHANGED <<blocks, heads, pending>>
  /\ Goto(Consumer, next)
  /\ UNCHANGED <<write_offset, read_offset, closed, write_closed_at, walks, pushes, sent, got, told>>

FinishReclaim ==
  \/ pc[Consumer] = "reclaim" /\ FinishPending("start")
  \/ pc[Consumer] = "reclaimed" /\ FinishPending("idle")

\* try_start_reclaim: write_block, then the hint, then the cutoff.
StartReclaim ==
  /\ pc[Consumer] = "start"
  /\ IF pending.old # None \/ blocks[heads.head].offset >= Start(read_offset)
     THEN Goto(Consumer, "reclaimed") /\ UNCHANGED <<heads, walks>>
     ELSE /\ heads' = [heads EXCEPT !.write = heads.read]
          /\ walks' = [walks EXCEPT ![Consumer].seen = heads.hint]
          /\ Goto(Consumer, "advance")
  /\ UNCHANGED <<blocks, write_offset, read_offset, closed, write_closed_at, pending, pushes, sent, got, told>>

ReclaimHint ==
  /\ pc[Consumer] = "advance"
  /\ Advance(Consumer, walks[Consumer].seen, heads.read, "take_cutoff")
  /\ UNCHANGED <<blocks, write_offset, read_offset, closed, write_closed_at, pending,
                 pushes, sent, got, told>>

ReclaimCutoff ==
  /\ pc[Consumer] = "take_cutoff"
  /\ pending' = [old |-> heads.head, new |-> heads.read, cutoff |-> write_offset]
  /\ Goto(Consumer, "reclaimed")
  /\ UNCHANGED <<blocks, write_offset, read_offset, closed, write_closed_at, heads, walks,
                 pushes, sent, got, told>>

\* The destructor, when nobody is inside, destroys what was never pulled.
Destroy ==
  /\ write_closed_at # None /\ \A th \in DOMAIN pc : pc[th] = "idle"
  /\ blocks' = WithoutData(read_offset .. write_closed_at - 1)
  /\ pc' = [th \in DOMAIN pc |-> "gone"]
  /\ UNCHANGED <<write_offset, read_offset, closed, write_closed_at, heads, pending, walks,
                 pushes, sent, got, told>>

Post(p) == \/ \E n \in 1 .. MaxBulk : GetTicket(p, n)
           \/ CheckClosed(p) \/ LoadHint(p) \/ StartBlock(p) \/ FindBlock(p)
           \/ FindEnd(p) \/ AdvanceHint(p) \/ WriteElement(p) \/ NextBlock(p)
Close(p) == CloseFlag(p) \/ CloseCutoff(p) \/ Seal(p)
Consume == \/ \E how \in {"pull", "try_pull"} : Look(how)
           \/ Wait \/ Read
           \/ FinishReclaim \/ StartReclaim \/ ReclaimHint \/ ReclaimCutoff
Next == (\E p \in Producers : Post(p) \/ Close(p)) \/ Consume \/ Destroy
-----------------------------------------------------------------------------
\* No block in which a thread walks or writes was recycled under it, and nobody
\* starts behind: the walk leads from the block it started at to its own.
BlocksInPlace ==
  \A th \in Producers :
    /\ pc[th] \in {"find", "write", "next"} =>
         blocks[walks[th].block].offset = walks[th].offset /\ walks[th].offset <= walks[th].at
    /\ pc[th] = "find" => blocks[walks[th].far].offset = walks[th].far_offset

\* A slot that is written is free, a slot that is read was written.
SlotsInTurn ==
  /\ \A p \in Producers : pc[p] = "write" =>
       /\ Elem(walks[p].block, walks[p].at).flags \in {"empty", "consumer"}
       /\ Elem(walks[p].block, walks[p].at).data = None
  /\ pc[Consumer] = "reading" => Here.data # None

NothingLeaks == pc[Consumer] = "gone" => NoDataLeft

Forgotten == pc[Consumer] = "parked" /\ (Len(got) < Cardinality(sent) \/ write_closed_at # None)
=============================================================================
