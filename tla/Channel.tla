------------------------------- MODULE Channel -------------------------------
(***************************************************************************)
(* tmc::channel: any number of producers and consumers over the list of    *)
(* blocks.  A token works through its hazard pointer, whose active_offset  *)
(* keeps the blocks from there on in place.  A consumer that enters the    *)
(* second slot of a block, or drain, recycles the blocks that nobody       *)
(* protects and moves the hazard pointers that were left behind.           *)
(***************************************************************************)
EXTENDS BlockList, ChannelCalls, FiniteSetsExt

VARIABLES write_offset, read_offset,
          closed, write_closed_at,           \* the latter is None until the cut is made
          head_block, head_offset, haz_ptr_counter, reclaim_counter,
          hazards,     \* the list: hazard pointer -> record
          hazard,      \* token -> its hazard pointer, or None
          lock,        \* blocks_lock: the token that has it, or None
          reclaim,     \* locals of try_reclaim_blocks, which the lock protects
          pc, op       \* token -> where its call is, and its locals and the calls to come

offsets  == <<write_offset, read_offset>>
closing  == <<closed, write_closed_at>>
heads    == <<head_block, head_offset, haz_ptr_counter, reclaim_counter>>
hazs     == <<hazards, hazard>>
cleaning == <<lock, reclaim>>
vars == <<blocks, offsets, closing, heads, hazs, cleaning, pc, op>>

\* idx + InactiveHazptrOffset: beyond every offset that is used.
Inactive == 1000
NoOp == [kind |-> "none", at |-> 0, end |-> 0, block |-> None, offset |-> 0, boff |-> 0,
         far |-> None, seen |-> 0, protect |-> 0, todo |-> <<>>]
NoReclaim == [old |-> None, new |-> None, protect |-> 0, seen |-> 0, first |-> 0, at |-> 0,
              part |-> "write_block", found |-> None]
NewHazard == [owned |-> FALSE, active |-> Inactive, write_block |-> None, read_block |-> None,
              protect_write |-> 0, protect_read |-> 0]

Init ==
  /\ BlocksInit
  /\ write_offset = 0 /\ read_offset = 0 /\ closed = "open" /\ write_closed_at = None
  /\ head_block = FirstBlock /\ head_offset = 0 /\ haz_ptr_counter = 0 /\ reclaim_counter = 0
  /\ hazards = <<NewHazard>>
  /\ hazard = [t \in Tokens |-> None]
  /\ lock = None /\ reclaim = NoReclaim
  /\ pc = [t \in Tokens |-> "idle"]
  /\ \E program \in Programs : op = [t \in Tokens |-> [NoOp EXCEPT !.todo = program[t]]]

Goto(t, l) == pc' = [pc EXCEPT ![t] = l]
Rested(t) == [NoOp EXCEPT !.todo = op[t].todo]
Return(t) == Goto(t, "idle") /\ op' = [op EXCEPT ![t] = Rested(t)]
Calls(t, kind) == pc[t] = "idle" /\ op[t].todo # <<>> /\ Head(op[t].todo) = kind
Called(t, kind, n) == op' = [op EXCEPT ![t].kind = kind, ![t].end = n, ![t].todo = Tail(@)]
SetHazard(t, field, v) == hazards' = [hazards EXCEPT ![hazard[t]][field] = v]
BlockAt(o) == CHOOSE b \in Allocated : blocks[b].offset = o

\* The flags of a slot are "empty", "data", "consumer", or "both" for set_not_waiting.
\* A producer whose CAS fails has found a consumer, a consumer whose CAS fails data.
WithData(e, item) == [flags |-> IF e.flags = "empty" THEN "data" ELSE e.flags, data |-> item]
MayWait(e) == e.flags = "empty"
-----------------------------------------------------------------------------
(* get_hazard_ptr and free_hazard_ptr *)
LoadReclaims(t) ==
  /\ hazard[t] = None /\ \E kind \in {"post", "post_bulk", "pull", "try_pull"} : Calls(t, kind)
  /\ op' = [op EXCEPT ![t].seen = reclaim_counter]
  /\ Goto(t, "new")
  /\ UNCHANGED <<blocks, offsets, closing, heads, hazs, cleaning>>

\* get_hazard_ptr_impl takes the first that nobody owns, or appends one.
TakeHazard(t) ==
  /\ pc[t] = "new"
  /\ LET free == {h \in DOMAIN hazards : ~hazards[h].owned}
     IN IF free # {}
        THEN /\ hazards' = [hazards EXCEPT ![Min(free)].owned = TRUE]
             /\ hazard' = [hazard EXCEPT ![t] = Min(free)]
        ELSE /\ hazards' = hazards \o <<[NewHazard EXCEPT !.owned = TRUE]>>
             /\ hazard' = [hazard EXCEPT ![t] = Len(hazards) + 1]
  /\ Goto(t, "head_offset")
  /\ UNCHANGED <<blocks, offsets, closing, heads, cleaning, op>>

LoadHeadOffset(t) ==
  /\ pc[t] = "head_offset"
  /\ op' = [op EXCEPT ![t].offset = head_offset]
  /\ Goto(t, "head")
  /\ UNCHANGED <<blocks, offsets, closing, heads, hazs, cleaning>>

LoadHead(t) ==
  /\ pc[t] = "head"
  /\ op' = [op EXCEPT ![t].block = head_block]
  /\ Goto(t, "init")
  /\ UNCHANGED <<blocks, offsets, closing, heads, hazs, cleaning>>

\* init_haz_ptr; the blocks are stored after the rest.
InitHazard(t) ==
  /\ pc[t] = "init"
  /\ hazards' = [hazards EXCEPT ![hazard[t]] =
       [owned |-> TRUE, active |-> Inactive, write_block |-> op[t].block,
        read_block |-> op[t].block, protect_write |-> op[t].offset, protect_read |-> op[t].offset]]
  /\ Goto(t, "count")
  /\ UNCHANGED <<blocks, offsets, closing, heads, hazard, cleaning, op>>

CountHazard(t) ==
  /\ pc[t] = "count"
  /\ haz_ptr_counter' = haz_ptr_counter + 1
  /\ Goto(t, "check")
  /\ UNCHANGED <<blocks, offsets, closing, head_block, head_offset, reclaim_counter, hazs, cleaning, op>>

\* The other half of the split lock: again, if a reclaim stored head_block meanwhile.
CheckReclaims(t) ==
  /\ pc[t] = "check"
  /\ IF reclaim_counter = op[t].seen
     THEN Return(t)
     ELSE Goto(t, "head_offset") /\ op' = [op EXCEPT ![t].seen = reclaim_counter]
  /\ UNCHANGED <<blocks, offsets, closing, heads, hazs, cleaning>>

\* The token is destroyed: release_ownership.
ReleaseBlocks(t) ==
  /\ Calls(t, "release")
  /\ hazards' = IF hazard[t] = None THEN hazards
                ELSE [hazards EXCEPT ![hazard[t]].write_block = None, ![hazard[t]].read_block = None]
  /\ Goto(t, "release") /\ Called(t, "release", 0)
  /\ UNCHANGED <<blocks, offsets, closing, heads, hazard, cleaning>>

ReleaseHazard(t) ==
  /\ pc[t] = "release"
  /\ IF hazard[t] = None THEN hazards' = hazards ELSE SetHazard(t, "owned", FALSE)
  /\ hazard' = [hazard EXCEPT ![t] = None]
  /\ Return(t)
  /\ UNCHANGED <<blocks, offsets, closing, heads, cleaning>>
-----------------------------------------------------------------------------
(* find_block, on the way of every call to its slot *)
Reached(t) == pc[t] = "walk" /\ op[t].offset = Start(op[t].at)

FindBlock(t) ==
  /\ pc[t] = "walk" /\ ~Reached(t) /\ CanHop(op[t].block)
  /\ blocks' = AfterHop(op[t].block, op[t].offset)
  /\ op' = [op EXCEPT ![t].block = HopTo(@), ![t].offset = @ + BlockSize]
  /\ UNCHANGED <<offsets, closing, heads, hazs, cleaning, pc>>

\* is_closed_past, once the cut is known.
Knows(t) == closed # "closing"
\* Mutant: off by one.
PastOneOver(i) == closed # "open" /\ write_closed_at < i
ClosedPast(i) == closed # "open" /\ write_closed_at <= i
-----------------------------------------------------------------------------
(* post, push and post_bulk *)
ProtectWrite(t, kind, n) ==
  /\ Calls(t, kind) /\ hazard[t] # None
  /\ SetHazard(t, "active", hazards[hazard[t]].protect_write)
  /\ Called(t, kind, n)
  /\ Goto(t, "write_ticket")
  /\ UNCHANGED <<blocks, offsets, closing, heads, hazard, cleaning>>

GetWriteTicket(t) ==
  /\ pc[t] = "write_ticket"
  /\ write_offset' = write_offset + op[t].end
  /\ op' = [op EXCEPT ![t].at = write_offset, ![t].end = write_offset + @]
  /\ Goto(t, "write_block")
  /\ UNCHANGED <<blocks, read_offset, closing, heads, hazs, cleaning>>

LoadBlock(t, field) ==
  LET b == hazards[hazard[t]][field]
  IN op' = [op EXCEPT ![t].block = b, ![t].offset = blocks[b].offset, ![t].boff = blocks[b].offset]

LoadWriteBlock(t) ==
  /\ pc[t] = "write_block"
  /\ LoadBlock(t, "write_block")
  /\ Goto(t, "write_check")
  /\ UNCHANGED <<blocks, offsets, closing, heads, hazs, cleaning>>

CheckWriteClosed(t) ==
  /\ pc[t] = "write_check" /\ Knows(t)
  /\ IF ClosedPast(op[t].at)
     THEN SetHazard(t, "active", Inactive) /\ Return(t)
     ELSE /\ Goto(t, "walk") /\ op' = [op EXCEPT ![t].far = None]
          /\ UNCHANGED hazards
  /\ UNCHANGED <<blocks, offsets, closing, heads, hazard, cleaning>>

\* post_bulk also finds the block of its last item before it writes the first.
FindEnd(t) ==
  /\ Reached(t) /\ op[t].kind = "post_bulk"
  /\ LET far == IF op[t].far = None THEN op[t].block ELSE op[t].far
     IN /\ blocks[far].offset < Start(op[t].end - 1) /\ CanHop(far)
        /\ blocks' = AfterHop(far, blocks[far].offset)
        /\ op' = [op EXCEPT ![t].far = HopTo(far)]
  /\ UNCHANGED <<offsets, closing, heads, hazs, cleaning, pc>>

\* The token starts its next post there, and protects what it started from here.
StoreWriteBlock(t) ==
  /\ Reached(t) /\ op[t].kind \in {"post", "post_bulk"}
  /\ LET far == IF op[t].far = None THEN op[t].block ELSE op[t].far
         o == IF op[t].kind = "post" THEN op[t].boff ELSE blocks[far].offset
     IN /\ op[t].kind = "post_bulk" => blocks[far].offset >= Start(op[t].end - 1)
        /\ hazards' = [hazards EXCEPT ![hazard[t]].write_block = far, ![hazard[t]].protect_write = o]
  /\ Goto(t, "write")
  /\ op' = [op EXCEPT ![t].far = None]
  /\ UNCHANGED <<blocks, offsets, closing, heads, hazard, cleaning>>

\* write_element: an item is known by its ticket.  The consumer that waits there goes on.
WriteElement(t) ==
  /\ pc[t] = "write" /\ op[t].at < op[t].end
  /\ LET e == Elem(op[t].block, op[t].at)
         waits == e.flags = "consumer"
     IN /\ blocks' = WithElem(op[t].block, op[t].at, WithData(e, op[t].at))
        /\ pc' = [u \in Tokens |-> IF waits /\ pc[u] = "parked" /\ op[u].at = op[t].at THEN "read"
                                   ELSE IF u = t /\ op[t].kind = "post_bulk" /\ (op[t].at + 1) % BlockSize = 0
                                   THEN "next" ELSE pc[u]]
  /\ op' = [op EXCEPT ![t].at = @ + 1]
  /\ UNCHANGED <<offsets, closing, heads, hazs, cleaning>>

NextBlock(t) ==
  /\ pc[t] = "next"
  /\ op' = [op EXCEPT ![t].block = blocks[@].next, ![t].offset = @ + BlockSize]
  /\ Goto(t, "write")
  /\ UNCHANGED <<blocks, offsets, closing, heads, hazs, cleaning>>

Wrote(t) ==
  /\ pc[t] = "write" /\ op[t].at = op[t].end
  /\ SetHazard(t, "active", Inactive)
  /\ Return(t)
  /\ UNCHANGED <<blocks, offsets, closing, heads, hazard, cleaning>>
-----------------------------------------------------------------------------
(* pull and pull_zc *)
ProtectRead(t, kind) ==
  /\ Calls(t, kind) /\ hazard[t] # None
  /\ SetHazard(t, "active", hazards[hazard[t]].protect_read)
  /\ Called(t, kind, 0)
  /\ Goto(t, IF kind = "pull" THEN "read_ticket" ELSE "try")
  /\ UNCHANGED <<blocks, offsets, closing, heads, hazard, cleaning>>

GetReadTicket(t) ==
  /\ pc[t] = "read_ticket"
  /\ read_offset' = read_offset + 1
  /\ op' = [op EXCEPT ![t].at = read_offset]
  /\ Goto(t, "read_block")
  /\ UNCHANGED <<blocks, write_offset, closing, heads, hazs, cleaning>>

LoadReadBlock(t) ==
  /\ pc[t] = "read_block"
  /\ LoadBlock(t, "read_block")
  /\ Goto(t, IF op[t].kind = "pull" THEN "read_check" ELSE "walk")
  /\ UNCHANGED <<blocks, offsets, closing, heads, hazs, cleaning>>

CheckReadClosed(t) ==
  /\ pc[t] = "read_check" /\ Knows(t)
  /\ op' = [op EXCEPT ![t].kind = IF ClosedPast(op[t].at) THEN "refused" ELSE "pull"]
  /\ Goto(t, "walk")
  /\ UNCHANGED <<blocks, offsets, closing, heads, hazs, cleaning>>

\* Closed and drained: set_not_waiting, for close, which may wait for this ticket.
SetNotWaiting(t) ==
  /\ Reached(t) /\ op[t].kind = "refused"
  /\ blocks' = WithElem(op[t].block, op[t].at, [flags |-> "both", data |-> None])
  /\ SetHazard(t, "active", Inactive)
  /\ Return(t)
  /\ UNCHANGED <<offsets, closing, heads, hazard, cleaning>>

StoreReadBlock(t) ==
  /\ \/ Reached(t) /\ op[t].kind = "pull"
     \/ pc[t] = "claimed"
  /\ hazards' = [hazards EXCEPT ![hazard[t]].read_block = op[t].block,
                                ![hazard[t]].protect_read = op[t].boff]
  /\ Goto(t, CASE op[t].at % BlockSize = 1 -> "try_lock"
               [] op[t].kind = "pull" -> "wait"
               [] OTHER -> "read")
  /\ UNCHANGED <<blocks, offsets, closing, heads, hazard, cleaning, op>>

\* is_data_waiting, or try_wait, which fails if there is data.
Wait(t) ==
  /\ pc[t] = "wait"
  /\ LET e == Elem(op[t].block, op[t].at)
     IN IF MayWait(e)
        THEN /\ blocks' = WithElem(op[t].block, op[t].at, [e EXCEPT !.flags = "consumer"])
             /\ Goto(t, "parked")
        ELSE Goto(t, "read") /\ UNCHANGED blocks
  /\ UNCHANGED <<offsets, closing, heads, hazs, cleaning, op>>

\* The value is moved out, or the scope of pull_zc ends, and the block is let go.
Read(t) ==
  /\ pc[t] = "read"
  /\ blocks' = WithElem(op[t].block, op[t].at, [Elem(op[t].block, op[t].at) EXCEPT !.data = None])
  /\ SetHazard(t, "active", Inactive)
  /\ Return(t)
  /\ UNCHANGED <<offsets, closing, heads, hazard, cleaning>>
-----------------------------------------------------------------------------
(* try_pull *)
TryLoad(t) ==
  /\ pc[t] = "try"
  /\ op' = [op EXCEPT ![t].at = read_offset]
  /\ Goto(t, "try_offset")
  /\ UNCHANGED <<blocks, offsets, closing, heads, hazs, cleaning>>

TryOffset(t) ==
  /\ pc[t] = "try_offset"
  /\ op' = [op EXCEPT ![t].protect = write_offset]
  /\ Goto(t, IF write_offset <= op[t].at THEN "try_empty" ELSE "read_block")
  /\ UNCHANGED <<blocks, offsets, closing, heads, hazs, cleaning>>

\* EMPTY or CLOSED.
TryEmpty(t) ==
  /\ pc[t] = "try_empty" /\ Knows(t)
  /\ SetHazard(t, "active", Inactive)
  /\ Return(t)
  /\ UNCHANGED <<blocks, offsets, closing, heads, hazard, cleaning>>

\* Mutant: fetch_add instead of the CAS.
TryTake(t) ==
  /\ Reached(t) /\ op[t].kind = "try_pull"
  /\ IF Elem(op[t].block, op[t].at).flags = "data"
     THEN Goto(t, "claimed") /\ read_offset' = read_offset + 1
     ELSE Goto(t, "try_empty") /\ UNCHANGED read_offset
  /\ UNCHANGED <<blocks, write_offset, closing, heads, hazs, cleaning, op>>
\* Where there is data, the CAS of read_offset takes it unless somebody else has.
TryClaim(t) ==
  /\ Reached(t) /\ op[t].kind = "try_pull"
  /\ IF read_offset # op[t].at
     THEN Goto(t, "try_offset") /\ op' = [op EXCEPT ![t].at = read_offset] /\ UNCHANGED read_offset
     ELSE IF Elem(op[t].block, op[t].at).flags = "data"
     THEN Goto(t, "claimed") /\ read_offset' = read_offset + 1 /\ UNCHANGED op
     ELSE Goto(t, "try_empty") /\ UNCHANGED <<read_offset, op>>
  /\ UNCHANGED <<blocks, write_offset, closing, heads, hazs, cleaning>>
-----------------------------------------------------------------------------
(* try_reclaim_blocks, by a consumer that got the lock or by drain, which has it *)
StartReclaim(t, h, protect) ==
  /\ reclaim' = [NoReclaim EXCEPT !.old = head_block, !.new = head_block, !.protect = Start(protect),
                                  !.seen = haz_ptr_counter, !.first = h, !.at = h]
  /\ Goto(t, "scan")

TryLock(t) ==
  /\ pc[t] = "try_lock"
  /\ IF lock = None
     THEN /\ lock' = t
          /\ StartReclaim(t, hazard[t], IF op[t].kind = "pull" THEN write_offset ELSE op[t].protect)
     ELSE /\ Goto(t, IF op[t].kind = "pull" THEN "wait" ELSE "read")
          /\ UNCHANGED cleaning
  /\ UNCHANGED <<blocks, offsets, closing, heads, hazs, op>>

EndReclaim(t) ==
  /\ reclaim' = NoReclaim
  /\ lock' = IF op[t].kind = "drain" THEN lock ELSE None
  /\ Goto(t, CASE op[t].kind = "drain" -> "drain" [] op[t].kind = "pull" -> "wait" [] OTHER -> "read")

\* The list is circular and a new hazard pointer comes before its first.
NextHazard == (reclaim.at % Len(hazards)) + 1
Protected == reclaim.protect <= blocks[reclaim.old].offset

\* try_advance_head, first pass: the lowest active_offset.
Scan(t) ==
  /\ pc[t] = "scan"
  /\ IF Protected THEN EndReclaim(t) ELSE
     LET h == hazards[reclaim.at]
         p == IF h.owned THEN Min({reclaim.protect, h.active}) ELSE reclaim.protect
         last == NextHazard = reclaim.first \/ p <= blocks[reclaim.old].offset
     IN /\ reclaim' = [reclaim EXCEPT !.protect = p, !.at = IF last THEN @ ELSE NextHazard]
        /\ Goto(t, IF last THEN "found_head" ELSE "scan")
        /\ lock' = lock
  /\ UNCHANGED <<blocks, offsets, closing, heads, hazs, op>>

FindHead(t) ==
  /\ pc[t] = "found_head"
  /\ IF Protected THEN EndReclaim(t)
     ELSE /\ reclaim' = [reclaim EXCEPT !.new = BlockAt(reclaim.protect), !.at = reclaim.first]
          /\ Goto(t, "advance") /\ lock' = lock
  /\ UNCHANGED <<blocks, offsets, closing, heads, hazs, op>>

\* Second pass: every hazard pointer that is behind is moved to the new head, first
\* its write_block, then its read_block.
NextPart(t, protect) ==
  LET last == NextHazard = reclaim.first \/ protect <= blocks[reclaim.old].offset
      r == [reclaim EXCEPT !.protect = protect, !.found = None]
  IN IF reclaim.part = "write_block"
     THEN /\ reclaim' = [r EXCEPT !.part = "read_block"]
          /\ Goto(t, "advance")
     ELSE /\ reclaim' = [r EXCEPT !.part = "write_block", !.at = IF last THEN @ ELSE NextHazard]
          /\ Goto(t, IF last THEN "publish" ELSE "advance")

Behind(b) == b # None /\ blocks[b].offset < blocks[reclaim.new].offset
Advance(t) ==
  /\ pc[t] = "advance"
  /\ LET h == hazards[reclaim.at]  b == h[reclaim.part]
     IN IF (reclaim.part = "read_block" \/ h.owned) /\ Behind(b)
        THEN reclaim' = [reclaim EXCEPT !.found = b] /\ Goto(t, "cas")
        ELSE NextPart(t, reclaim.protect)
  /\ UNCHANGED <<blocks, offsets, closing, heads, hazs, lock, op>>

\* A CAS that fails finds the block that the owner has stored or released.
AdvanceCAS(t) ==
  /\ pc[t] = "cas"
  /\ LET b == hazards[reclaim.at][reclaim.part]
     IN /\ hazards' = IF b = reclaim.found
                      THEN [hazards EXCEPT ![reclaim.at][reclaim.part] = reclaim.new] ELSE hazards
        /\ IF b = None THEN NextPart(t, reclaim.protect)
           ELSE /\ Goto(t, "reload")
                /\ reclaim' = [reclaim EXCEPT !.protect =
                     IF b = reclaim.found THEN @ ELSE Min({@, blocks[b].offset})]
  /\ UNCHANGED <<blocks, offsets, closing, heads, hazard, lock, op>>

\* The owner may have begun to use its old block meanwhile.
Reload(t) ==
  /\ pc[t] = "reload"
  /\ NextPart(t, Min({reclaim.protect, hazards[reclaim.at].active}))
  /\ UNCHANGED <<blocks, offsets, closing, heads, hazs, lock, op>>

StoreHead(t) ==
  /\ pc[t] = "publish"
  /\ LET new == IF reclaim.protect < blocks[reclaim.new].offset THEN BlockAt(reclaim.protect) ELSE reclaim.new
     IN IF new = reclaim.old
        THEN EndReclaim(t) /\ UNCHANGED head_block
        ELSE /\ head_block' = new /\ reclaim' = [reclaim EXCEPT !.new = new]
             /\ Goto(t, "signal") /\ lock' = lock
  /\ UNCHANGED <<blocks, offsets, closing, head_offset, haz_ptr_counter, reclaim_counter, hazs, op>>

CountReclaim(t) ==
  /\ pc[t] = "signal"
  /\ reclaim_counter' = reclaim_counter + 1
  /\ Goto(t, "verify")
  /\ UNCHANGED <<blocks, offsets, closing, head_block, head_offset, haz_ptr_counter, hazs, cleaning, op>>

\* Mutant: hazard pointers that were taken meanwhile are left to themselves.
CommitBlindly(t) ==
  /\ pc[t] = "verify"
  /\ Goto(t, "commit")
  /\ UNCHANGED <<blocks, offsets, closing, heads, hazs, cleaning, op>>
\* One half of the split lock: a hazard pointer was taken meanwhile, head goes back.
CheckHazards(t) ==
  /\ pc[t] = "verify"
  /\ IF haz_ptr_counter = reclaim.seen
     THEN Goto(t, "commit") /\ UNCHANGED <<head_block, cleaning>>
     ELSE head_block' = reclaim.old /\ EndReclaim(t)
  /\ UNCHANGED <<blocks, offsets, closing, head_offset, haz_ptr_counter, reclaim_counter, hazs, op>>

StoreHeadOffset(t) ==
  /\ pc[t] = "commit"
  /\ head_offset' = blocks[reclaim.new].offset
  /\ Goto(t, "recycle")
  /\ UNCHANGED <<blocks, offsets, closing, head_block, haz_ptr_counter, reclaim_counter, hazs, cleaning, op>>

\* reclaim_blocks links them behind the last block, or deletes them.
ReclaimBlocks(t) ==
  /\ pc[t] = "recycle"
  /\ blocks' = IF ReuseBlocks THEN Reclaimed(reclaim.old, reclaim.new)
               ELSE Deleted(reclaim.old, reclaim.new)
  /\ EndReclaim(t)
  /\ UNCHANGED <<offsets, closing, heads, hazs, op>>
-----------------------------------------------------------------------------
(* close, and drain_wait and drain, which begin with it *)
Lock(t, kind) ==
  /\ Calls(t, kind) /\ lock = None
  /\ lock' = t
  /\ Called(t, kind, 0)
  /\ Goto(t, CASE closed = "open" -> "close" [] kind = "drain" -> "drain_start" [] OTHER -> "unlock")
  /\ UNCHANGED <<blocks, offsets, closing, heads, hazs, reclaim>>

\* write_closed_at lies far ahead until the cut is made.
CloseFlag(t) ==
  /\ pc[t] = "close"
  /\ closed' = "closing"
  /\ Goto(t, "cut")
  /\ UNCHANGED <<blocks, offsets, write_closed_at, heads, hazs, cleaning, op>>

CloseCut(t) ==
  /\ pc[t] = "cut"
  /\ write_offset' = write_offset + 1
  /\ write_closed_at' = write_offset
  /\ Goto(t, "closed")
  /\ UNCHANGED <<blocks, read_offset, closed, heads, hazs, cleaning, op>>

CloseDone(t) ==
  /\ pc[t] = "closed"
  /\ closed' = "closed"
  /\ Goto(t, "count_readers")
  /\ UNCHANGED <<blocks, offsets, write_closed_at, heads, hazs, cleaning, op>>

\* Readers from the cut on will get nothing: wake_waiting_consumers.
CountReaders(t) ==
  /\ pc[t] = "count_readers"
  /\ op' = [op EXCEPT ![t].at = write_closed_at, ![t].end = read_offset,
                      ![t].block = head_block, ![t].offset = blocks[head_block].offset]
  /\ Goto(t, IF write_closed_at < read_offset THEN "walk" ELSE "unlock")
  /\ UNCHANGED <<blocks, offsets, closing, heads, hazs, cleaning>>

\* Spins until the reader has made up its mind.
WakeReader(t) ==
  /\ Reached(t) /\ pc[t] = "walk" /\ lock = t /\ op[t].at < op[t].end
  /\ Elem(op[t].block, op[t].at).flags \in {"consumer", "both"}
  /\ LET woken == {u \in Tokens : pc[u] = "parked" /\ op[u].at = op[t].at}
     IN /\ pc' = [u \in Tokens |-> IF u \in woken THEN "idle"
                                   ELSE IF u = t /\ op[t].at + 1 = op[t].end THEN "unlock" ELSE pc[u]]
        /\ op' = [u \in Tokens |-> IF u \in woken THEN Rested(u)
                                   ELSE IF u = t THEN [op[t] EXCEPT !.at = @ + 1] ELSE op[u]]
  /\ UNCHANGED <<blocks, offsets, closing, heads, hazs, cleaning>>

\* drain takes the lock again.
Unlock(t) ==
  /\ pc[t] = "unlock"
  /\ lock' = None
  /\ IF op[t].kind = "drain"
     THEN Goto(t, "drain_lock") /\ op' = [op EXCEPT ![t] = [Rested(t) EXCEPT !.kind = "drain"]]
     ELSE Return(t)
  /\ UNCHANGED <<blocks, offsets, closing, heads, hazs, reclaim>>

DrainLock(t) ==
  /\ pc[t] = "drain_lock" /\ lock = None
  /\ lock' = t
  /\ Goto(t, "drain_start")
  /\ UNCHANGED <<blocks, offsets, closing, heads, hazs, reclaim, op>>

\* What was read of what was written can be reclaimed, if that is any.
DrainStart(t) ==
  /\ pc[t] = "drain_start"
  /\ LET protect == Min({write_closed_at, read_offset}) - 1
     IN op' = [op EXCEPT ![t].at = protect, ![t].end = protect,
                         ![t].block = head_block, ![t].offset = blocks[head_block].offset]
  /\ Goto(t, IF write_closed_at # 0 /\ read_offset # 0 THEN "walk" ELSE "drain")
  /\ UNCHANGED <<blocks, offsets, closing, heads, hazs, cleaning>>

DrainReclaim(t) ==
  /\ Reached(t) /\ op[t].kind = "drain" /\ op[t].at = op[t].end
  /\ StartReclaim(t, 1, op[t].at)
  /\ UNCHANGED <<blocks, offsets, closing, heads, hazs, lock, op>>

\* drain, the coroutine, lets go of the lock while it waits.
DrainYield(t) ==
  /\ pc[t] = "drain" /\ read_offset < write_closed_at
  /\ lock' = None
  /\ Goto(t, "drain_again")
  /\ UNCHANGED <<blocks, offsets, closing, heads, hazs, reclaim, op>>

DrainResume(t) ==
  /\ pc[t] = "drain_again" /\ lock = None
  /\ lock' = t
  /\ Goto(t, "drain")
  /\ UNCHANGED <<blocks, offsets, closing, heads, hazs, reclaim, op>>

\* Everything is claimed: the reads go on behind the ticket of the cut.
Drained(t) ==
  /\ pc[t] = "drain" /\ read_offset >= write_closed_at
  /\ read_offset' = IF closed = "drained" THEN read_offset ELSE read_offset + 1
  /\ closed' = "drained"
  /\ lock' = None
  /\ Return(t)
  /\ UNCHANGED <<blocks, write_offset, write_closed_at, heads, hazs, reclaim>>

\* ~channel, with the last of the tokens: what was never claimed is destroyed.
Destroy ==
  /\ \A t \in Tokens : pc[t] = "idle" /\ op[t].todo = <<>>
  /\ LET cut == IF closed = "open" THEN write_offset ELSE write_closed_at
     IN blocks' = WithoutData(read_offset .. cut - 1)
  /\ pc' = [t \in Tokens |-> "destroyed"]
  /\ UNCHANGED <<offsets, closing, heads, hazs, cleaning, op>>
-----------------------------------------------------------------------------
Begin(t) ==
  \/ LoadReclaims(t) \/ ReleaseBlocks(t)
  \/ ProtectWrite(t, "post", 1) \/ \E n \in BulkSizes : ProtectWrite(t, "post_bulk", n)
  \/ \E kind \in {"pull", "try_pull"} : ProtectRead(t, kind)
  \/ \E kind \in {"close", "drain"} : Lock(t, kind)

Continue(t) ==
  \/ TakeHazard(t) \/ LoadHeadOffset(t) \/ LoadHead(t) \/ InitHazard(t) \/ CountHazard(t)
  \/ CheckReclaims(t) \/ ReleaseHazard(t) \/ FindBlock(t)
  \/ GetWriteTicket(t) \/ LoadWriteBlock(t) \/ CheckWriteClosed(t) \/ FindEnd(t)
  \/ StoreWriteBlock(t) \/ WriteElement(t) \/ NextBlock(t) \/ Wrote(t)
  \/ GetReadTicket(t) \/ LoadReadBlock(t) \/ CheckReadClosed(t) \/ SetNotWaiting(t)
  \/ StoreReadBlock(t) \/ Wait(t) \/ Read(t)
  \/ TryLoad(t) \/ TryOffset(t) \/ TryEmpty(t) \/ TryClaim(t)
  \/ TryLock(t) \/ Scan(t) \/ FindHead(t) \/ Advance(t) \/ AdvanceCAS(t) \/ Reload(t)
  \/ StoreHead(t) \/ CountReclaim(t) \/ CheckHazards(t) \/ StoreHeadOffset(t) \/ ReclaimBlocks(t)
  \/ CloseFlag(t) \/ CloseCut(t) \/ CloseDone(t) \/ CountReaders(t) \/ WakeReader(t) \/ Unlock(t)
  \/ DrainLock(t) \/ DrainStart(t) \/ DrainReclaim(t) \/ DrainYield(t) \/ DrainResume(t) \/ Drained(t)

Next == Destroy \/ \E t \in Tokens : Begin(t) \/ Continue(t)

\* A token goes on with the call it is in; which calls are made is the program's affair.
Spec == Init /\ [][Next]_vars /\ \A t \in Tokens : WF_vars(Continue(t))
-----------------------------------------------------------------------------
\* A walk to a slot never meets a block that was recycled behind its back, and a
\* slot is used in the block it belongs to (the asserts of find_block and the tickets).
BlocksInPlace ==
  \A t \in Tokens :
    LET b == op[t].block
    IN /\ pc[t] = "walk" => b \in Allocated /\ blocks[b].offset = op[t].offset
                            /\ op[t].offset <= Start(op[t].at)
       /\ pc[t] \in {"wait", "parked", "read", "claimed", "try_lock"}
            \/ (pc[t] = "write" /\ op[t].at < op[t].end)
          => b \in Allocated /\ blocks[b].offset = Start(op[t].at)

\* A producer finds its slot untouched, a consumer finds its own item there, and a
\* slot that says somebody waits has somebody to wake.
SlotsInTurn ==
  \A t \in Tokens :
    LET e == Elem(op[t].block, op[t].at)
    IN /\ pc[t] = "write" /\ op[t].at < op[t].end => e.flags \in {"empty", "consumer"} /\ e.data = None
       /\ pc[t] = "wait" => e.flags \in {"empty", "data"}
       /\ pc[t] \in {"read", "claimed"} => e.data = op[t].at
       /\ pc[t] = "parked" => e = [flags |-> "consumer", data |-> None]
\* What nobody has read is destroyed with the channel, and so is every block.
NothingLeaks ==
  (\A t \in Tokens : pc[t] = "destroyed") =>
    NoDataLeft /\ \A b \in Allocated : blocks[b].offset >= blocks[head_block].offset
\* Every item that is accepted is read by one consumer or destroyed.
EveryItemOnce == SlotsInTurn /\ NothingLeaks

\* A call does not hang: neither for an item that was posted, nor for close.
Forgotten(t) ==
  \/ pc[t] = "parked" /\ (write_closed_at # None \/ op[t].at < write_offset)
  \/ pc[t] \notin {"idle", "parked", "destroyed", "drain_lock", "drain", "drain_again"}
WaitersGoOn == \A t \in Tokens : []<>~Forgotten(t)

\* Without reuse: a reclaim never looks at a block that is deleted.
NoUseAfterFree ==
  \A t \in Tokens : pc[t] = "advance" =>
    LET h == hazards[reclaim.at]
    IN reclaim.part = "read_block" \/ h.owned => h[reclaim.part] \in Allocated \cup {None}
=============================================================================
