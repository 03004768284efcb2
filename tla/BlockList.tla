------------------------------ MODULE BlockList ------------------------------
(***************************************************************************)
(* The linked list of blocks under the unbounded queues and the channel.   *)
(* Slot i lives in the block whose offset is Start(i).  Blocks that the    *)
(* consumers have left behind are reset and linked again after the last.   *)
(***************************************************************************)
EXTENDS BlockPool

VARIABLE blocks          \* block -> [offset, next, values]

Unused == [offset |-> None, next |-> None, values |-> None]
NewBlock(offset, size) ==
  [offset |-> offset, next |-> None,
   values |-> [i \in 0 .. size - 1 |-> [flags |-> "empty", data |-> None]]]
Allocated == {b \in BlockIds : blocks[b].offset # None}
FirstBlock == CHOOSE b \in BlockIds : TRUE
BlockSize == Cardinality(DOMAIN blocks[FirstBlock].values)
Start(i) == (i \div BlockSize) * BlockSize
Elem(b, i) == blocks[b].values[i % BlockSize]
WithElem(b, i, e) == [blocks EXCEPT ![b].values[i % BlockSize] = e]

\* One step of find_block: follows next, or links a new block there.  A thread
\* whose CAS fails deletes its block and follows the winner's.
Fresh == CHOOSE b \in BlockIds : b \notin Allocated
CanHop(b) == blocks[b].next # None \/ Allocated # BlockIds
HopTo(b) == IF blocks[b].next # None THEN blocks[b].next ELSE Fresh
AfterHop(b, offset) ==
  IF blocks[b].next # None THEN blocks
  ELSE [blocks EXCEPT ![b].next = Fresh, ![Fresh] = NewBlock(offset + BlockSize, BlockSize)]

\* reclaim_blocks: the blocks from old up to, not including, new go to the end.
Between(old, new) ==
  {b \in Allocated : blocks[old].offset <= blocks[b].offset /\ blocks[b].offset < blocks[new].offset}
Reclaimed(old, new) ==
  LET moved == Between(old, new)
      tail == CHOOSE b \in Allocated : blocks[b].next = None
  IN [b \in BlockIds |->
        CASE b \in moved ->
               [NewBlock(blocks[tail].offset + BlockSize + blocks[b].offset - blocks[old].offset, BlockSize)
                  EXCEPT !.next = IF blocks[b].next = new THEN None ELSE blocks[b].next]
          [] b = tail /\ moved # {} -> [blocks[b] EXCEPT !.next = old]
          [] OTHER -> blocks[b]]

Deleted(old, new) ==
  [b \in BlockIds |-> IF b \in Between(old, new) THEN [blocks[b] EXCEPT !.offset = None, !.next = None]
                      ELSE blocks[b]]

\* The destructors: the values at these indices are destroyed where there are any.
WithoutData(indices) ==
  [b \in BlockIds |->
     IF b \notin Allocated THEN blocks[b]
     ELSE [blocks[b] EXCEPT !.values = [i \in DOMAIN @ |->
             IF blocks[b].offset + i \in indices /\ @[i].flags = "data"
             THEN [@[i] EXCEPT !.data = None] ELSE @[i]]]]
NoDataLeft == \A b \in Allocated : \A i \in DOMAIN blocks[b].values : blocks[b].values[i].data = None

BlocksInit ==
  \E size \in BlockSizes :
    blocks = [b \in BlockIds |-> IF b = FirstBlock THEN NewBlock(0, size) ELSE Unused]
=============================================================================
