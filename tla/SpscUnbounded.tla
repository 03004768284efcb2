---------------------------- MODULE SpscUnbounded ----------------------------
(***************************************************************************)
(* tmc::qu_spsc_unbounded: one producer and one consumer over the list of  *)
(* blocks.  The consumer recycles a block when it has finished the first   *)
(* slot of the next one, relying on the producer having moved write_block  *)
(* before it published that slot.                                          *)
(***************************************************************************)
EXTENDS BlockList, Sequences

CONSTANTS Producer, Consumer,
          MaxItems, MaxBulk   \* bounds: items that are posted, items of one post

VARIABLES write_offset, read_offset, write_closed_at,
          heads,          \* write_block, head_block, and the block the consumer reads in
          walk,           \* the post in progress: [block, offset, far, far_offset, at, end, cons]
          pc, sent, got, told

vars == <<blocks, write_offset, read_offset, write_closed_at, heads, walk, pc, sent, got, told>>

Goto(th, l) == pc' = [pc EXCEPT ![th] = l]
Closed == write_closed_at # None
Item(i) == <<Producer, i + 1>>
NoWalk == [block |-> None, offset |-> 0, far |-> None, far_offset |-> 0,
           at |-> 0, end |-> 0, cons |-> FALSE]

Init ==
  /\ BlocksInit
  /\ write_offset = 0 /\ read_offset = 0 /\ write_closed_at = None
  /\ heads = [write |-> FirstBlock, head |-> FirstBlock, read |-> FirstBlock]
  /\ walk = NoWalk
  /\ pc = [th \in {Producer, Consumer} |-> "idle"]
  /\ sent = {} /\ got = <<>> /\ told = FALSE
-----------------------------------------------------------------------------
(* The producer.  A walk whose at is its end is the walk of close. *)
WalkFor(n) ==
  [NoWalk EXCEPT !.block = heads.write, !.offset = blocks[heads.write].offset,
                 !.at = write_offset, !.end = write_offset + n]

\* post and post_bulk
Post(n) ==
  /\ pc[Producer] = "idle" /\ ~Closed /\ write_offset + n <= MaxItems
  /\ walk' = WalkFor(n)
  /\ Goto(Producer, "find")
  /\ UNCHANGED <<blocks, write_offset, read_offset, write_closed_at, heads, sent, got, told>>

\* find_write_block and find_block, one block further.
FindBlock ==
  /\ pc[Producer] = "find" /\ walk.offset # Start(walk.at) /\ CanHop(walk.block)
  /\ blocks' = AfterHop(walk.block, walk.offset)
  /\ walk' = [walk EXCEPT !.block = HopTo(@), !.offset = @ + BlockSize]
  /\ UNCHANGED <<write_offset, read_offset, write_closed_at, heads, pc, sent, got, told>>

Found ==
  /\ pc[Producer] = "find" /\ walk.offset = Start(walk.at)
  /\ IF walk.end > walk.at + 1
     THEN /\ walk' = [walk EXCEPT !.far = walk.block, !.far_offset = walk.offset]
          /\ Goto(Producer, "find_end") /\ heads' = heads
     ELSE /\ heads' = [heads EXCEPT !.write = walk.block]
          /\ Goto(Producer, IF walk.at = walk.end THEN "seal" ELSE "write") /\ walk' = walk
  /\ UNCHANGED <<blocks, write_offset, read_offset, write_closed_at, sent, got, told>>

\* get_write_ticket_bulk allocates every block of the batch first.
FindEnd ==
  /\ pc[Producer] = "find_end" /\ walk.far_offset # Start(walk.end - 1) /\ CanHop(walk.far)
  /\ blocks' = AfterHop(walk.far, walk.far_offset)
  /\ walk' = [walk EXCEPT !.far = HopTo(@), !.far_offset = @ + BlockSize]
  /\ UNCHANGED <<write_offset, read_offset, write_closed_at, heads, pc, sent, got, told>>

FoundEnd ==
  /\ pc[Producer] = "find_end" /\ walk.far_offset = Start(walk.end - 1)
  /\ heads' = [heads EXCEPT !.write = walk.block]
  /\ Goto(Producer, "write")
  /\ UNCHANGED <<blocks, write_offset, read_offset, write_closed_at, walk, sent, got, told>>

\* write_element: a consumer found in the flags is posted when the batch is done.
WriteElement ==
  /\ pc[Producer] = "write"
  /\ blocks' = WithElem(walk.block, walk.at, [flags |-> "data", data |-> Item(walk.at)])
  /\ walk' = [walk EXCEPT !.at = @ + 1,
                          !.cons = @ \/ Elem(walk.block, walk.at).flags = "consumer"]
  /\ sent' = sent \cup {Item(walk.at)}
  /\ Goto(Producer, IF walk.end = write_offset + 1 THEN "post"
                    ELSE IF (walk.at + 1) % BlockSize = 0 THEN "next"
                    ELSE IF walk.at + 1 = walk.end THEN "post" ELSE "write")
  /\ UNCHANGED <<write_offset, read_offset, write_closed_at, heads, got, told>>

\* post_bulk goes to the next block, and says so before it writes there.
NextBlock ==
  /\ pc[Producer] = "next"
  /\ LET next == blocks[walk.block].next
         more == walk.at < walk.end
     IN /\ walk' = [walk EXCEPT !.block = next, !.offset = @ + BlockSize]
        /\ heads' = IF more THEN [heads EXCEPT !.write = next] ELSE heads
        /\ Goto(Producer, IF more THEN "write" ELSE "post")
  /\ UNCHANGED <<blocks, write_offset, read_offset, write_closed_at, sent, got, told>>

PostDone ==
  /\ pc[Producer] = "post"
  /\ write_offset' = walk.end
  /\ pc' = [pc EXCEPT ![Producer] = "idle", ![Consumer] = IF walk.cons THEN "reading" ELSE @]
  /\ walk' = NoWalk
  /\ UNCHANGED <<blocks, read_offset, write_closed_at, heads, sent, got, told>>

\* close and close_resume_inline
Close ==
  /\ pc[Producer] = "idle" /\ ~Closed
  /\ write_closed_at' = write_offset
  /\ walk' = WalkFor(0)
  /\ Goto(Producer, "find")
  /\ UNCHANGED <<blocks, write_offset, read_offset, heads, sent, got, told>>

Seal ==
  /\ pc[Producer] = "seal"
  /\ LET waits == Elem(walk.block, walk.at).flags = "consumer" IN
       /\ pc' = [pc EXCEPT ![Producer] = "idle", ![Consumer] = IF waits THEN "idle" ELSE @]
       /\ told' = (told \/ waits)
  /\ blocks' = WithElem(walk.block, walk.at, [flags |-> "closed", data |-> None])
  /\ walk' = NoWalk
  /\ UNCHANGED <<write_offset, read_offset, write_closed_at, heads, sent, got>>
-----------------------------------------------------------------------------
(* The consumer. *)
Here == Elem(heads.read, read_offset)

\* get_read_ticket: the block is the head block, or the next one.
Ticket(how) ==
  /\ pc[Consumer] = "idle"
  /\ IF blocks[heads.head].offset = Start(read_offset)
     THEN blocks' = blocks /\ heads' = [heads EXCEPT !.read = heads.head]
     ELSE /\ CanHop(heads.head)
          /\ blocks' = AfterHop(heads.head, blocks[heads.head].offset)
          /\ heads' = [heads EXCEPT !.read = HopTo(heads.head)]
  /\ Goto(Consumer, how)
  /\ UNCHANGED <<write_offset, read_offset, write_closed_at, walk, sent, got, told>>

TryPull ==
  /\ pc[Consumer] = "try_pull"
  /\ told' = (told \/ Here.flags = "closed")
  /\ Goto(Consumer, IF Here.flags = "data" THEN "reading" ELSE "idle")
  /\ UNCHANGED <<blocks, write_offset, read_offset, write_closed_at, heads, walk, sent, got>>

Ready ==
  /\ pc[Consumer] = "pull"
  /\ Goto(Consumer, IF Here.flags = "data" THEN "reading" ELSE "wait")
  /\ UNCHANGED <<blocks, write_offset, read_offset, write_closed_at, heads, walk, sent, got, told>>

\* await_suspend: the exchange leaves a dead address over data that came meanwhile.
Wait ==
  /\ pc[Consumer] = "wait"
  /\ LET f == Here.flags IN
       /\ blocks' = WithElem(heads.read, read_offset,
                             [Here EXCEPT !.flags = IF f = "closed" THEN f ELSE "consumer"])
       /\ told' = (told \/ f = "closed")
       /\ Goto(Consumer, CASE f = "empty" -> "parked" [] f = "closed" -> "idle" [] OTHER -> "reading")
  /\ UNCHANGED <<write_offset, read_offset, write_closed_at, heads, walk, sent, got>>

\* The scope reads the value and destroys it.
Read ==
  /\ pc[Consumer] = "reading"
  /\ got' = Append(got, Here.data)
  /\ blocks' = WithElem(heads.read, read_offset, [Here EXCEPT !.data = None])
  /\ Goto(Consumer, "finish")
  /\ UNCHANGED <<write_offset, read_offset, write_closed_at, heads, walk, sent, told>>

\* finish_read: the blocks before this one go to the end of the list.
FinishRead ==
  /\ pc[Consumer] = "finish"
  /\ IF read_offset % BlockSize = 0
     THEN /\ blocks' = Reclaimed(heads.head, heads.read)
          /\ heads' = [heads EXCEPT !.head = heads.read]
     ELSE UNCHANGED <<blocks, heads>>
  /\ read_offset' = read_offset + 1
  /\ Goto(Consumer, "idle")
  /\ UNCHANGED <<write_offset, write_closed_at, walk, sent, got, told>>

\* The destructor destroys what lies between read_offset and the cutoff.
Destroy ==
  /\ pc[Producer] = "idle" /\ pc[Consumer] = "idle" /\ Closed
  /\ blocks' = WithoutData(read_offset .. write_closed_at - 1)
  /\ pc' = [th \in DOMAIN pc |-> "gone"]
  /\ UNCHANGED <<write_offset, read_offset, write_closed_at, heads, walk, sent, got, told>>

Produce == \/ \E n \in 1 .. MaxBulk : Post(n)
           \/ FindBlock \/ Found \/ FindEnd \/ FoundEnd \/ WriteElement \/ NextBlock \/ PostDone
           \/ Close \/ Seal
Consume == (\E how \in {"pull", "try_pull"} : Ticket(how)) \/ TryPull \/ Ready \/ Wait \/ Read \/ FinishRead
Next == Produce \/ Consume \/ Destroy
-----------------------------------------------------------------------------
\* The block in which the producer walks or writes was not recycled under it.
BlocksInPlace ==
  /\ pc[Producer] \in {"find", "find_end", "write", "next", "seal"} =>
       blocks[walk.block].offset = walk.offset
  /\ pc[Producer] = "find_end" => blocks[walk.far].offset = walk.far_offset

\* A slot that is written is free, a slot that is read was written.
SlotsInTurn ==
  /\ pc[Producer] = "write" => Elem(walk.block, walk.at).flags \in {"empty", "consumer"}
                               /\ Elem(walk.block, walk.at).data = None
  /\ pc[Consumer] = "reading" => Here.data = Item(read_offset)

NothingLeaks == pc[Consumer] = "gone" => NoDataLeft

Forgotten == pc[Consumer] = "parked" /\ (Len(got) < Cardinality(sent) \/ Closed)
=============================================================================
