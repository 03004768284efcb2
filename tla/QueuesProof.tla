----------------------------- MODULE QueuesProof -----------------------------
(***************************************************************************)
(* qu_spsc_unbounded and qu_mpsc_unbounded hand every slot over in turn,   *)
(* recycle no block under a thread and leave no value behind, for any      *)
(* size and number of blocks, producers and length of the run; and with    *)
(* RingQueuesProof, what MCQueues says of the four queues.                 *)
(***************************************************************************)
EXTENDS RingQueuesProof

-----------------------------------------------------------------------------
(* The list of blocks.                                                     *)
BL == INSTANCE BlockList

\* Two multiples of d that are not the same are d apart.
LEMMA Multiples ==
  ASSUME NEW d \in Nat \ {0}, NEW a \in Int, NEW b \in Int, a % d = 0, b % d = 0
  PROVE  /\ a < b => a + d <= b
         /\ (a + b) % d = 0 /\ (a - b) % d = 0 /\ (a + d) % d = 0
<1>1. PICK q \in Int : a = d * q
  <2>1. PICK q \in Int : a = (d * q) + (a % d)
    BY Division
  <2> QED BY <2>1
<1>2. PICK p \in Int : b = d * p
  <2>1. PICK p \in Int : b = (d * p) + (b % d)
    BY Division
  <2> QED BY <2>1
<1>3. a < b => a + d <= b
  <2> SUFFICES ASSUME a < b PROVE a + d <= b
    OBVIOUS
  <2> DEFINE k == p - q
  <2>1. k \in Int /\ d * p = (d * q) + (d * k)
    OBVIOUS
  <2> HIDE DEF k
  <2>2. k >= 1
    <3>1. CASE k <= 0
      <4>1. d * k <= 0
        BY <2>1, <3>1
      <4>2. d * k \in Int
        BY <2>1
      <4> QED BY <1>1, <1>2, <2>1, <4>1, <4>2
    <3> QED BY <2>1, <3>1
  <2>3. d * k >= d /\ d * k \in Int
    BY <2>1, <2>2
  <2> QED BY <1>1, <1>2, <2>1, <2>3
<1>z. 0 \in 0 .. d - 1
  OBVIOUS
<1>6. (a + b) % d = 0
  <2>1. a + b = (d * (q + p)) + 0 /\ q + p \in Int /\ a + b \in Int
    BY <1>1, <1>2
  <2> HIDE <1>1, <1>2
  <2> QED BY <1>z, <2>1, Remainder
<1>7. (a - b) % d = 0
  <2>1. a - b = (d * (q - p)) + 0 /\ q - p \in Int /\ a - b \in Int
    BY <1>1, <1>2
  <2> QED BY <1>z, <2>1, Remainder
<1>8. (a + d) % d = 0
  <2>1. a + d = (d * (q + 1)) + 0 /\ q + 1 \in Int /\ a + d \in Int
    BY <1>1
  <2> QED BY <1>z, <2>1, Remainder
<1> QED BY <1>3, <1>6, <1>7, <1>8

\* An index lies in the block that begins at its start, and in no other.
StartIn(i, d) == (i \div d) * d
\* What StartIn is.
LEMMA StartFacts ==
  ASSUME NEW d \in Nat \ {0}, NEW i \in Nat
  PROVE  /\ StartIn(i, d) \in Nat /\ StartIn(i, d) % d = 0
         /\ StartIn(i, d) <= i /\ i < StartIn(i, d) + d /\ i % d = i - StartIn(i, d)
         /\ \A o \in Nat : o % d = 0 /\ o <= i /\ i < o + d => o = StartIn(i, d)
<1> DEFINE k == i \div d
           r == i % d
<1>1. i \in Int /\ r \in 0 .. d - 1
  BY Division
<1>2. i = (d * k) + r /\ k \in Int
  OBVIOUS
<1>s. StartIn(i, d) = k * d
  BY DEF StartIn
<1>e. r = i % d
  OBVIOUS
<1> HIDE DEF k, r
<1>3. k * d = d * k /\ d * k \in Int
  BY <1>2
<1>4. StartIn(i, d) = i - r
  BY <1>1, <1>2, <1>3, <1>s
<1>5. StartIn(i, d) \in Nat
  <2>1. k >= 0
    <3>1. CASE k <= -1
      <4>1. d * k <= -d
        BY <1>2, <3>1
      <4> QED BY <1>1, <1>2, <1>3, <4>1
    <3> QED BY <1>2, <3>1
  <2> QED BY <1>2, <1>s, <2>1
<1>6. StartIn(i, d) % d = 0
  <2>1. k * d = (d * k) + 0 /\ k * d \in Int /\ 0 \in 0 .. d - 1
    BY <1>3
  <2>2. (k * d) % d = 0
    BY <1>2, <2>1, Remainder
  <2> QED BY <1>s, <2>2
<1>7. ASSUME NEW o \in Nat, o % d = 0, o <= i, i < o + d PROVE o = StartIn(i, d)
  <2> DEFINE t == StartIn(i, d)
  <2>1. t \in Int /\ t % d = 0 /\ t <= i /\ i < t + d /\ o \in Int
    BY <1>1, <1>4, <1>5, <1>6
  <2> HIDE DEF t
  <2>2. ~(o < t)
    <3>1. o < t => o + d <= t
      BY <1>7, <2>1, Multiples
    <3> QED BY <1>7, <2>1, <3>1
  <2>3. ~(t < o)
    <3>1. t < o => t + d <= o
      BY <1>7, <2>1, Multiples
    <3> QED BY <1>7, <2>1, <3>1
  <2>4. o = t
    BY <2>1, <2>2, <2>3
  <2> QED BY <2>4 DEF t
<1>8. StartIn(i, d) <= i /\ i < StartIn(i, d) + d /\ i % d = i - StartIn(i, d)
  BY <1>1, <1>4, <1>e
<1> QED BY <1>5, <1>6, <1>7, <1>8

Cells == [flags : {"empty", "data", "consumer", "closed"}, data : (Producers \X Nat) \cup {None}]
Arrays == UNION {[0 .. size - 1 -> Cells] : size \in BlockSizes}
BlockRecs == [offset : Nat \cup {None}, next : BlockIds \cup {None}, values : Arrays \cup {None}]
Off(b) == blocks[b].offset
Cell(b, j) == blocks[b].values[j]
Alloc == BL!Allocated
EmptyCell == [flags |-> "empty", data |-> None]

\* The blocks are linked in the order of their offsets, without a gap, from head on.
Linked(head, size) ==
  \A b \in Alloc :
    /\ Off(head) <= Off(b)
    /\ blocks[b].next # None => blocks[b].next \in Alloc /\ Off(blocks[b].next) = Off(b) + size
    /\ blocks[b].next = None => \A a \in Alloc : Off(a) <= Off(b)
    /\ b # head => \E a \in Alloc : blocks[a].next = b
BlockTypes(size) ==
  /\ size \in BlockSizes /\ blocks \in [BlockIds -> BlockRecs] /\ BL!FirstBlock \in Alloc
  /\ \A b \in Alloc : Off(b) \in Nat /\ Off(b) % size = 0 /\ blocks[b].values \in [0 .. size - 1 -> Cells]
Shape(head, size) ==
  /\ BlockTypes(size) /\ head \in Alloc /\ Linked(head, size)
  /\ \A a, b \in Alloc : Off(a) = Off(b) => a = b
  /\ \E t \in Alloc : blocks[t].next = None

\* What the shape of the list says of a block.
LEMMA ShapeFacts ==
  ASSUME NEW head, NEW size, Shape(head, size)
  PROVE  /\ size \in Nat \ {0} /\ BL!BlockSize = size
         /\ \A i : BL!Start(i) = StartIn(i, size)
         /\ \A b \in Alloc : b \in BlockIds /\ b # None /\ blocks[b] \in BlockRecs
                             /\ Off(b) \in Nat /\ Off(b) \in Int /\ Off(b) % size = 0
                             /\ \A j \in 0 .. size - 1 : Cell(b, j) \in Cells
<1>1. size \in Nat \ {0}
  BY BlocksAssumption DEF Shape, BlockTypes
<1>2. BL!BlockSize = size
  <2>1. DOMAIN blocks[BL!FirstBlock].values = 0 .. size - 1
    BY DEF Shape, BlockTypes
  <2>2. Cardinality(0 .. size - 1) = size
    BY <1>1, FS_Interval
  <2>3. BL!BlockSize = Cardinality(DOMAIN blocks[BL!FirstBlock].values)
    BY DEF BL!BlockSize, BL!Cardinality, Cardinality
  <2> QED BY <2>1, <2>2, <2>3
<1>3. \A i : BL!Start(i) = StartIn(i, size)
  BY <1>2 DEF BL!Start, StartIn
<1>4. \A b \in Alloc : b \in BlockIds /\ b # None /\ blocks[b] \in BlockRecs
                       /\ Off(b) \in Nat /\ Off(b) \in Int /\ Off(b) % size = 0
                       /\ \A j \in 0 .. size - 1 : Cell(b, j) \in Cells
  BY BlocksAssumption DEF Shape, BlockTypes, Alloc, BL!Allocated, Cell
<1> QED BY <1>1, <1>2, <1>3, <1>4

\* A slot is written: the list stays, and so does every other slot.
LEMMA WriteCell ==
  ASSUME NEW head, NEW size, Shape(head, size), NEW b \in Alloc, NEW i \in Nat,
         Off(b) = StartIn(i, size), NEW e \in Cells, blocks' = BL!WithElem(b, i, e)
  PROVE  /\ Shape(head, size)' /\ Alloc' = Alloc
         /\ \A c \in Alloc : Off(c)' = Off(c) /\ blocks'[c].next = blocks[c].next
         /\ \A c \in Alloc : \A j \in 0 .. size - 1 :
              Cell(c, j)' = IF Off(c) + j = i THEN e ELSE Cell(c, j)
<1>1. /\ size \in Nat \ {0} /\ BL!BlockSize = size
      /\ \A c \in Alloc : c \in BlockIds /\ c # None /\ blocks[c] \in BlockRecs
                          /\ Off(c) \in Nat /\ Off(c) \in Int /\ Off(c) % size = 0
                          /\ \A j \in 0 .. size - 1 : Cell(c, j) \in Cells
  BY ShapeFacts
<1>2. /\ Off(b) <= i /\ i < Off(b) + size /\ i % size = i - Off(b)
      /\ \A o \in Nat : o % size = 0 /\ o <= i /\ i < o + size => o = Off(b)
  <2> DEFINE t == StartIn(i, size)
  <2>1. /\ t <= i /\ i < t + size /\ i % size = i - t
        /\ \A o \in Nat : o % size = 0 /\ o <= i /\ i < o + size => o = t
    BY <1>1, StartFacts
  <2>2. t = Off(b)
    OBVIOUS
  <2> HIDE DEF t
  <2> QED BY <2>1, <2>2
<1> DEFINE k == i % size
           v == [blocks[b].values EXCEPT ![k] = e]
<1>3. k \in 0 .. size - 1
  BY <1>1, <1>2
<1>4. blocks \in [BlockIds -> BlockRecs] /\ blocks' = [blocks EXCEPT ![b].values[k] = e]
  BY <1>1 DEF Shape, BlockTypes, BL!WithElem
<1>5. blocks[b].values \in [0 .. size - 1 -> Cells] /\ size \in BlockSizes /\ b \in BlockIds
  BY <1>1 DEF Shape, BlockTypes
<1>6. v \in [0 .. size - 1 -> Cells] /\ v[k] = e /\ \A j \in 0 .. size - 1 : j # k => v[j] = blocks[b].values[j]
  BY <1>3, <1>5
<1>7. v \in Arrays
  BY <1>5, <1>6 DEF Arrays
<1>8. blocks' = [blocks EXCEPT ![b] = [blocks[b] EXCEPT !.values = v]]
  BY <1>4, <1>5
<1> HIDE DEF k, v
<1>9. /\ blocks' \in [BlockIds -> BlockRecs] /\ blocks'[b].values = v
      /\ \A c \in BlockIds : blocks'[c].offset = blocks[c].offset /\ blocks'[c].next = blocks[c].next
      /\ \A c \in BlockIds \ {b} : blocks'[c] = blocks[c]
  <2>1. blocks[b] \in BlockRecs /\ DOMAIN blocks = BlockIds
    BY <1>1, <1>4
  <2> DEFINE n == [blocks[b] EXCEPT !.values = v]
  <2>2. n \in BlockRecs /\ n.values = v /\ n.offset = blocks[b].offset /\ n.next = blocks[b].next
    BY <1>7, <2>1 DEF BlockRecs
  <2>3. blocks' = [blocks EXCEPT ![b] = n]
    BY <1>8
  <2> HIDE DEF n
  <2> QED BY <1>4, <1>5, <2>1, <2>2, <2>3
<1>10. Alloc' = Alloc
  BY <1>9 DEF Alloc, BL!Allocated
<1>11. \A c \in Alloc : Off(c)' = Off(c) /\ blocks'[c].next = blocks[c].next
  BY <1>1, <1>9 DEF Off
<1>12. BlockTypes(size)'
  BY <1>1, <1>5, <1>6, <1>9, <1>10, <1>11 DEF Shape, BlockTypes, Off
<1>13. Shape(head, size)'
  <2>1. Linked(head, size)'
    BY <1>10, <1>11 DEF Shape, Linked
  <2> QED BY <1>10, <1>11, <1>12, <2>1 DEF Shape
<1>14. ASSUME NEW c \in Alloc, NEW j \in 0 .. size - 1
       PROVE  Cell(c, j)' = IF Off(c) + j = i THEN e ELSE Cell(c, j)
  <2>1. CASE c = b
    <3>1. Off(c) + j = i <=> j = k
      BY <1>1, <1>2, <2>1 DEF k
    <3> QED BY <1>6, <1>9, <2>1, <3>1 DEF Cell
  <2>2. CASE c # b
    <3>1. Off(c) # Off(b)
      BY <2>2 DEF Shape
    <3>2. Off(c) + j # i
      BY <1>1, <1>2, <3>1
    <3> QED BY <1>1, <1>9, <2>2, <3>2 DEF Cell
  <2> QED BY <2>1, <2>2
<1> QED BY <1>10, <1>11, <1>13, <1>14

\* There is one last block.
LEMMA LastBlock ==
  ASSUME NEW head, NEW size, Shape(head, size), NEW b \in Alloc, blocks[b].next = None
  PROVE  /\ \A c \in Alloc : Off(c) <= Off(b) /\ (c # b => blocks[c].next # None)
         /\ \A c \in Alloc : Off(b) <= Off(c) => c = b
<1>1. \A c \in Alloc : Off(c) <= Off(b)
  BY DEF Shape, Linked
<1>2. ASSUME NEW c \in Alloc, Off(b) <= Off(c) PROVE c = b
  <2>1. Off(c) = Off(b)
    BY <1>1, <1>2, ShapeFacts
  <2> QED BY <2>1 DEF Shape
<1>3. ASSUME NEW c \in Alloc, c # b PROVE blocks[c].next # None
  <2>1. blocks[c].next = None => Off(b) <= Off(c)
    BY DEF Shape, Linked
  <2> QED BY <1>2, <1>3, <2>1
<1> QED BY <1>1, <1>2, <1>3

\* A thread goes to the next block, which it may have to link.
LEMMA Hop ==
  ASSUME NEW head, NEW size, Shape(head, size), NEW b \in Alloc, BL!CanHop(b),
         blocks' = BL!AfterHop(b, Off(b))
  PROVE  /\ Shape(head, size)'
         /\ \A c \in Alloc : /\ c \in Alloc' /\ Off(c)' = Off(c)
                             /\ \A j \in 0 .. size - 1 : Cell(c, j)' = Cell(c, j)
         /\ \E h \in Alloc' : /\ h = BL!HopTo(b) /\ Off(h)' = Off(b) + size
                              /\ h \in Alloc \/ Alloc' = Alloc \cup {h}
                              /\ \A c \in Alloc' \ Alloc : c = h
         /\ \A c \in Alloc' \ Alloc : /\ \A a \in Alloc : Off(a) + size <= Off(c)'
                                      /\ \A j \in 0 .. size - 1 : Cell(c, j)' = EmptyCell
<1>1. /\ size \in Nat \ {0} /\ BL!BlockSize = size
      /\ \A c \in Alloc : c \in BlockIds /\ c # None /\ blocks[c] \in BlockRecs
                          /\ Off(c) \in Nat /\ Off(c) \in Int /\ Off(c) % size = 0
  BY ShapeFacts
<1>2. CASE blocks[b].next # None
  <2>1. blocks' = blocks /\ BL!HopTo(b) = blocks[b].next
    BY <1>2 DEF BL!AfterHop, BL!HopTo
  <2>2. blocks[b].next \in Alloc /\ Off(blocks[b].next) = Off(b) + size
    BY <1>2 DEF Shape, Linked
  <2>3. Alloc' = Alloc /\ \A c : Off(c)' = Off(c) /\ \A j : Cell(c, j)' = Cell(c, j)
    BY <2>1 DEF Alloc, BL!Allocated, Off, Cell
  <2>4. Shape(head, size)'
    BY <2>1, <2>3 DEF Shape, BlockTypes, Linked
  <2> QED BY <2>1, <2>2, <2>3, <2>4
<1>3. CASE blocks[b].next = None
  <2>1. Alloc # BlockIds
    BY <1>3 DEF BL!CanHop, Alloc
  <2>2. PICK h : h = BL!Fresh
    OBVIOUS
  <2>3. h \in BlockIds /\ h \notin Alloc /\ BL!HopTo(b) = h
    <3>1. \E x \in BlockIds : x \notin Alloc
      BY <2>1 DEF Alloc, BL!Allocated
    <3> QED BY <1>3, <2>2, <3>1 DEF BL!Fresh, Alloc, BL!HopTo
  <2>4. PICK n : n = BL!NewBlock(Off(b) + size, size)
    OBVIOUS
  <2>5. blocks' = [blocks EXCEPT ![b].next = h, ![h] = n]
    BY <1>1, <1>3, <2>2, <2>4 DEF BL!AfterHop
  <2>6. /\ n.offset = Off(b) + size /\ n.next = None /\ n.values \in [0 .. size - 1 -> Cells]
        /\ n \in BlockRecs /\ \A j \in 0 .. size - 1 : n.values[j] = EmptyCell
    <3>1. n = [offset |-> Off(b) + size, next |-> None, values |-> [j \in 0 .. size - 1 |-> EmptyCell]]
      BY <2>4 DEF BL!NewBlock, EmptyCell
    <3>2. EmptyCell \in Cells
      BY DEF EmptyCell, Cells
    <3>3. [j \in 0 .. size - 1 |-> EmptyCell] \in [0 .. size - 1 -> Cells]
      BY <3>2
    <3>4. [j \in 0 .. size - 1 |-> EmptyCell] \in Arrays
      BY <3>3 DEF Arrays, Shape, BlockTypes
    <3>5. Off(b) + size \in Nat
      BY <1>1
    <3> QED BY <3>1, <3>3, <3>4, <3>5 DEF BlockRecs
  <2>7. b # h /\ b \in BlockIds /\ blocks \in [BlockIds -> BlockRecs] /\ blocks[b] \in BlockRecs
    BY <1>1, <2>3 DEF Shape, BlockTypes
  <2>8. /\ blocks' \in [BlockIds -> BlockRecs] /\ blocks'[h] = n
        /\ blocks'[b].next = h /\ blocks'[b].offset = blocks[b].offset /\ blocks'[b].values = blocks[b].values
        /\ \A c \in BlockIds : c # b /\ c # h => blocks'[c] = blocks[c]
    <3>1. blocks'[b] = [blocks[b] EXCEPT !.next = h]
      BY <2>3, <2>5, <2>7
    <3>2. blocks'[b] \in BlockRecs
      BY <2>3, <2>7, <3>1 DEF BlockRecs
    <3>3. blocks'[h] = n /\ \A c \in BlockIds : c # b /\ c # h => blocks'[c] = blocks[c]
      BY <2>3, <2>5, <2>7
    <3>4. blocks' \in [BlockIds -> BlockRecs]
      BY <2>3, <2>5, <2>6, <2>7, <3>2, <3>3
    <3>5. blocks'[b].next = h /\ blocks'[b].offset = blocks[b].offset /\ blocks'[b].values = blocks[b].values
      BY <2>7, <3>1 DEF BlockRecs
    <3> QED BY <3>3, <3>4, <3>5
  <2>9. Alloc' = Alloc \cup {h}
    <3>1. n.offset # None
      BY <1>1, <2>6, ThreadsAssumption
    <3> QED BY <2>3, <2>8, <3>1 DEF Alloc, BL!Allocated
  <2>10. \A c \in Alloc : /\ Off(c)' = Off(c) /\ (\A j : Cell(c, j)' = Cell(c, j))
                          /\ blocks'[c].next = IF c = b THEN h ELSE blocks[c].next
    BY <1>1, <2>3, <2>8 DEF Off, Cell
  <2>11. Off(h)' = Off(b) + size /\ \A j \in 0 .. size - 1 : Cell(h, j)' = EmptyCell
    BY <2>6, <2>8 DEF Off, Cell
  <2>12. \A a \in Alloc : Off(a) <= Off(b) /\ (a # b => blocks[a].next # None)
    BY <1>3, LastBlock
  <2>13. \A a \in Alloc : Off(a) + size <= Off(b) + size /\ Off(a) < Off(b) + size
    BY <1>1, <2>12
  <2>14. Shape(head, size)'
    <3>1. BlockTypes(size)'
      <4>1. (Off(b) + size) % size = 0 /\ Off(b) + size \in Nat
        BY <1>1, Multiples
      <4> QED BY <2>6, <2>8, <2>9, <2>10, <2>11, <4>1 DEF Shape, BlockTypes, Off, Alloc, BL!Allocated
    <3>2. head \in Alloc /\ Linked(head, size) /\ \A x, y \in Alloc : Off(x) = Off(y) => x = y
      BY DEF Shape
    <3>3. Linked(head, size)'
      <4> SUFFICES ASSUME NEW c \in Alloc'
                   PROVE  /\ Off(head)' <= Off(c)'
                          /\ blocks'[c].next # None =>
                               blocks'[c].next \in Alloc' /\ blocks'[blocks'[c].next].offset = Off(c)' + size
                          /\ blocks'[c].next = None => \A a \in Alloc' : Off(a)' <= Off(c)'
                          /\ c # head => \E a \in Alloc' : blocks'[a].next = c
        BY DEF Linked, Off
      <4>1. CASE c = h
        <5>1. blocks'[c].next = None
          BY <2>6, <2>8, <4>1
        <5>2. \A a \in Alloc' : Off(a)' <= Off(c)'
          BY <1>1, <2>9, <2>10, <2>11, <2>13, <4>1
        <5>3. b \in Alloc' /\ blocks'[b].next = c
          BY <2>8, <2>9, <4>1
        <5> QED BY <2>9, <3>2, <5>1, <5>2, <5>3
      <4>2. CASE c = b
        <5>1. blocks'[c].next = h /\ h # None /\ h \in Alloc' /\ blocks'[h].offset = Off(c)' + size
          BY <2>3, <2>6, <2>8, <2>9, <2>10, <4>2, BlocksAssumption
        <5>2. Off(head)' <= Off(c)'
          BY <2>10, <3>2, <4>2 DEF Linked
        <5>3. c # head => \E a \in Alloc' : blocks'[a].next = c
          <6> SUFFICES ASSUME c # head PROVE \E a \in Alloc' : blocks'[a].next = c
            OBVIOUS
          <6>1. PICK a \in Alloc : blocks[a].next = c
            BY <3>2, <4>2 DEF Linked
          <6>2. a # b
            BY <1>1, <1>3, <4>2, <6>1
          <6> QED BY <2>9, <2>10, <6>1, <6>2
        <5> QED BY <5>1, <5>2, <5>3
      <4>3. CASE c # h /\ c # b
        <5>1. c \in Alloc /\ blocks'[c].next = blocks[c].next /\ blocks[c].next # None
          BY <2>9, <2>10, <2>12, <4>3
        <5>2. blocks[c].next \in Alloc /\ Off(blocks[c].next) = Off(c) + size
          BY <3>2, <5>1 DEF Linked
        <5>3. blocks'[c].next \in Alloc' /\ blocks'[blocks'[c].next].offset = Off(c)' + size
          BY <2>9, <2>10, <5>1, <5>2 DEF Off
        <5>4. Off(head)' <= Off(c)'
          BY <2>10, <3>2, <5>1 DEF Linked
        <5>5. c # head => \E a \in Alloc' : blocks'[a].next = c
          <6> SUFFICES ASSUME c # head PROVE \E a \in Alloc' : blocks'[a].next = c
            OBVIOUS
          <6>1. PICK a \in Alloc : blocks[a].next = c
            BY <3>2, <5>1 DEF Linked
          <6>2. a # b
            BY <1>1, <1>3, <5>1, <6>1
          <6> QED BY <2>9, <2>10, <6>1, <6>2
        <5> QED BY <5>1, <5>3, <5>4, <5>5
      <4> QED BY <4>1, <4>2, <4>3
    <3>4. \A x, y \in Alloc' : Off(x)' = Off(y)' => x = y
      BY <1>1, <2>9, <2>10, <2>11, <2>13, <3>2
    <3>5. h \in Alloc' /\ blocks'[h].next = None
      BY <2>6, <2>8, <2>9
    <3> QED BY <2>9, <3>1, <3>2, <3>3, <3>4, <3>5 DEF Shape
  <2>15. h \in Alloc' /\ h = BL!HopTo(b) /\ \A c \in Alloc' \ Alloc : c = h
    BY <2>3, <2>9
  <2>16. \A c \in Alloc' \ Alloc : /\ \A a \in Alloc : Off(a) + size <= Off(c)'
                                   /\ \A j \in 0 .. size - 1 : Cell(c, j)' = EmptyCell
    BY <2>11, <2>13, <2>15
  <2> QED BY <2>9, <2>10, <2>11, <2>14, <2>15, <2>16
<1> QED BY <1>2, <1>3

\* The blocks before new go to the end, emptied.
LEMMA Recycle ==
  ASSUME NEW head, NEW size, Shape(head, size), NEW new \in Alloc, blocks' = BL!Reclaimed(head, new)
  PROVE  /\ Shape(new, size)' /\ Alloc' = Alloc
         /\ \A c \in Alloc :
              IF Off(new) <= Off(c)
              THEN Off(c)' = Off(c) /\ \A j \in 0 .. size - 1 : Cell(c, j)' = Cell(c, j)
              ELSE /\ \A a \in Alloc : Off(a) + size <= Off(c)'
                   /\ \A j \in 0 .. size - 1 : Cell(c, j)' = EmptyCell
<1> DEFINE Before(c) == Off(c) < Off(new)
<1>1. /\ size \in Nat \ {0} /\ BL!BlockSize = size
      /\ \A c \in Alloc : c \in BlockIds /\ c # None /\ blocks[c] \in BlockRecs
                          /\ Off(c) \in Nat /\ Off(c) \in Int /\ Off(c) % size = 0
  BY ShapeFacts
<1>2. /\ size \in BlockSizes /\ blocks \in [BlockIds -> BlockRecs] /\ head \in Alloc
      /\ \A x, y \in Alloc : Off(x) = Off(y) => x = y
  BY DEF Shape, BlockTypes
<1>3. \A c \in Alloc :
        /\ Off(head) <= Off(c)
        /\ blocks[c].next # None => blocks[c].next \in Alloc /\ Off(blocks[c].next) = Off(c) + size
        /\ c # head => \E a \in Alloc : blocks[a].next = c
  BY DEF Shape, Linked
<1>4. PICK tail : tail = CHOOSE b \in Alloc : blocks[b].next = None
  OBVIOUS
<1>5. tail \in Alloc /\ blocks[tail].next = None
  <2>1. \E b \in Alloc : blocks[b].next = None
    BY DEF Shape
  <2> QED BY <1>4, <2>1
<1>6. /\ \A c \in Alloc : Off(c) <= Off(tail) /\ (c # tail => blocks[c].next # None)
      /\ ~Before(tail)
  <2>1. \A c \in Alloc : Off(c) <= Off(tail) /\ (c # tail => blocks[c].next # None)
    BY <1>5, LastBlock
  <2> QED BY <1>1, <1>5, <2>1
\* A block before new is followed by one before new, or by new.
<1>7. ASSUME NEW c \in Alloc, Before(c)
      PROVE  /\ blocks[c].next # None /\ blocks[c].next \in Alloc /\ Off(blocks[c].next) = Off(c) + size
             /\ blocks[c].next # new => Before(blocks[c].next)
             /\ Off(c) + size <= Off(new)
  <2>1. c # tail
    BY <1>6, <1>7
  <2>2. blocks[c].next # None /\ blocks[c].next \in Alloc /\ Off(blocks[c].next) = Off(c) + size
    BY <1>3, <1>6, <2>1
  <2>3. Off(c) + size <= Off(new)
    BY <1>1, <1>7, Multiples
  <2>4. blocks[c].next # new => Off(blocks[c].next) # Off(new)
    BY <1>2, <2>2
  <2> QED BY <1>1, <2>2, <2>3, <2>4
<1> DEFINE n(c) == [BL!NewBlock(Off(tail) + size + Off(c) - Off(head), size)
                       EXCEPT !.next = IF blocks[c].next = new THEN None ELSE blocks[c].next]
<1>8. BL!Between(head, new) = {c \in Alloc : Before(c)}
  <2>1. BL!Between(head, new) = {c \in Alloc : Off(head) <= Off(c) /\ Off(c) < Off(new)}
    BY DEF BL!Between, Alloc, Off
  <2> QED BY <1>3, <2>1
<1>9. blocks' = [b \in BlockIds |->
                   CASE b \in {c \in Alloc : Before(c)} -> n(b)
                     [] b = tail /\ {c \in Alloc : Before(c)} # {} -> [blocks[b] EXCEPT !.next = head]
                     [] OTHER -> blocks[b]]
  BY <1>1, <1>4, <1>8 DEF BL!Reclaimed, Alloc, Off
<1>10. \A c \in Alloc : Before(c) =>
         /\ blocks'[c] \in BlockRecs /\ blocks'[c].values \in [0 .. size - 1 -> Cells]
         /\ blocks'[c].offset = Off(tail) + size + Off(c) - Off(head)
         /\ blocks'[c].next = IF blocks[c].next = new THEN None ELSE blocks[c].next
         /\ \A j \in 0 .. size - 1 : blocks'[c].values[j] = EmptyCell
  <2> SUFFICES ASSUME NEW c \in Alloc, Before(c)
               PROVE  /\ blocks'[c] \in BlockRecs /\ blocks'[c].values \in [0 .. size - 1 -> Cells]
                      /\ blocks'[c].offset = Off(tail) + size + Off(c) - Off(head)
                      /\ blocks'[c].next = IF blocks[c].next = new THEN None ELSE blocks[c].next
                      /\ \A j \in 0 .. size - 1 : blocks'[c].values[j] = EmptyCell
    OBVIOUS
  <2>1. c \in BlockIds /\ blocks'[c] = n(c)
    <3>1. c \in BlockIds /\ c \in {x \in Alloc : Before(x)}
      BY <1>1
    <3> DEFINE F(b) == CASE b \in {x \in Alloc : Before(x)} -> n(b)
                         [] b = tail /\ {x \in Alloc : Before(x)} # {} -> [blocks[b] EXCEPT !.next = head]
                         [] OTHER -> blocks[b]
    <3>2. blocks' = [b \in BlockIds |-> F(b)]
      BY <1>9
    <3>3. blocks'[c] = F(c)
      <4> HIDE DEF F
      <4> QED BY <3>1, <3>2
    <3>4. c # tail
      BY <1>6
    <3>5. F(c) = n(c)
      <4> HIDE DEF n
      <4> QED BY <3>1, <3>4
    <3> QED BY <3>1, <3>3, <3>5
  <2> DEFINE o == Off(tail) + size + Off(c) - Off(head)
             l == IF blocks[c].next = new THEN None ELSE blocks[c].next
             v == [j \in 0 .. size - 1 |-> EmptyCell]
  <2>2. n(c) = [offset |-> o, next |-> l, values |-> v]
    <3>1. BL!NewBlock(o, size) = [offset |-> o, next |-> None, values |-> v]
      <4> HIDE DEF o
      <4> QED BY DEF BL!NewBlock, EmptyCell
    <3>2. n(c) = [BL!NewBlock(o, size) EXCEPT !.next = l]
      OBVIOUS
    <3> HIDE DEF n, o, l, v
    <3> QED BY <3>1, <3>2
  <2>3. o \in Nat
    BY <1>1, <1>2, <1>3, <1>5
  <2>4. l \in BlockIds \cup {None}
    BY <1>1, <1>7
  <2>5. v \in [0 .. size - 1 -> Cells] /\ v \in Arrays /\ \A j \in 0 .. size - 1 : v[j] = EmptyCell
    <3>1. EmptyCell \in Cells
      BY DEF EmptyCell, Cells
    <3>2. v \in [0 .. size - 1 -> Cells] /\ \A j \in 0 .. size - 1 : v[j] = EmptyCell
      BY <3>1
    <3> QED BY <1>2, <3>2 DEF Arrays
  <2> HIDE DEF n, o, l, v
  <2>6. /\ blocks'[c].offset = o /\ blocks'[c].next = l /\ blocks'[c].values = v /\ blocks'[c] \in BlockRecs
    BY <2>1, <2>2, <2>3, <2>4, <2>5 DEF BlockRecs
  <2> QED BY <2>5, <2>6 DEF o, l
<1>11. \A c \in BlockIds : ~(c \in Alloc /\ Before(c)) =>
         /\ blocks'[c] \in BlockRecs
         /\ blocks'[c].offset = blocks[c].offset /\ blocks'[c].values = blocks[c].values
         /\ blocks'[c].next = IF c = tail /\ (\E x \in Alloc : Before(x)) THEN head ELSE blocks[c].next
  <2> SUFFICES ASSUME NEW c \in BlockIds, ~(c \in Alloc /\ Before(c))
               PROVE  /\ blocks'[c] \in BlockRecs
                      /\ blocks'[c].offset = blocks[c].offset /\ blocks'[c].values = blocks[c].values
                      /\ blocks'[c].next = IF c = tail /\ (\E x \in Alloc : Before(x)) THEN head ELSE blocks[c].next
    OBVIOUS
  <2>1. blocks[c] \in BlockRecs /\ head \in BlockIds
    BY <1>1, <1>2
  <2>2. blocks'[c] = IF c = tail /\ (\E x \in Alloc : Before(x)) THEN [blocks[c] EXCEPT !.next = head] ELSE blocks[c]
    <3> HIDE DEF n
    <3> QED BY <1>9
  <2> QED BY <2>1, <2>2 DEF BlockRecs
<1>12. DOMAIN blocks' = BlockIds
  BY <1>9
<1> HIDE DEF n
<1>13. blocks' \in [BlockIds -> BlockRecs]
  <2>1. blocks' = [b \in BlockIds |-> blocks'[b]]
    BY <1>9
  <2>2. \A b \in BlockIds : blocks'[b] \in BlockRecs
    BY <1>10, <1>11
  <2> QED BY <2>1, <2>2
<1>14. Alloc' = Alloc
  <2>1. \A c \in BlockIds : blocks'[c].offset # None <=> blocks[c].offset # None
    <3> SUFFICES ASSUME NEW c \in BlockIds PROVE blocks'[c].offset # None <=> blocks[c].offset # None
      OBVIOUS
    <3>1. CASE c \in Alloc /\ Before(c)
      <4>1. blocks'[c].offset \in Nat
        BY <1>1, <1>2, <1>3, <1>5, <1>10, <3>1
      <4> QED BY <3>1, <4>1, ThreadsAssumption DEF Alloc, BL!Allocated
    <3> QED BY <1>11, <3>1
  <2> QED BY <2>1 DEF Alloc, BL!Allocated
<1>15. \A c \in Alloc :
         /\ Before(c) => Off(c)' = Off(tail) + size + Off(c) - Off(head)
         /\ ~Before(c) => Off(c)' = Off(c) /\ \A j : Cell(c, j)' = Cell(c, j)
         /\ Off(c)' \in Nat /\ Off(c)' \in Int
  <2> SUFFICES ASSUME NEW c \in Alloc
               PROVE  /\ Before(c) => Off(c)' = Off(tail) + size + Off(c) - Off(head)
                      /\ ~Before(c) => Off(c)' = Off(c) /\ \A j : Cell(c, j)' = Cell(c, j)
                      /\ Off(c)' \in Nat /\ Off(c)' \in Int
    OBVIOUS
  <2>1. Before(c) => Off(c)' = Off(tail) + size + Off(c) - Off(head)
    BY <1>10 DEF Off
  <2>2. ~Before(c) => Off(c)' = Off(c) /\ \A j : Cell(c, j)' = Cell(c, j)
    <3>1. ~Before(c) => blocks'[c].offset = blocks[c].offset /\ blocks'[c].values = blocks[c].values
      BY <1>1, <1>11
    <3> QED BY <3>1 DEF Off, Cell
  <2>3. Off(tail) + size + Off(c) - Off(head) \in Nat
    BY <1>1, <1>2, <1>3, <1>5
  <2> QED BY <1>1, <2>1, <2>2, <2>3
<1>16. \A c \in Alloc : Before(c) => \A a \in Alloc : Off(a) + size <= Off(c)'
  <2> SUFFICES ASSUME NEW c \in Alloc, Before(c), NEW a \in Alloc PROVE Off(a) + size <= Off(c)'
    OBVIOUS
  <2>1. Off(a) <= Off(tail) /\ Off(head) <= Off(c)
    BY <1>3, <1>6
  <2>2. Off(c)' = Off(tail) + size + Off(c) - Off(head)
    BY <1>15
  <2> QED BY <1>1, <1>2, <1>5, <2>1, <2>2
<1>17. ASSUME NEW c \in Alloc
       PROVE  IF Off(new) <= Off(c)
              THEN Off(c)' = Off(c) /\ \A j \in 0 .. size - 1 : Cell(c, j)' = Cell(c, j)
              ELSE /\ \A a \in Alloc : Off(a) + size <= Off(c)'
                   /\ \A j \in 0 .. size - 1 : Cell(c, j)' = EmptyCell
  <2>1. Off(new) <= Off(c) <=> ~Before(c)
    BY <1>1
  <2> QED BY <1>10, <1>15, <1>16, <2>1 DEF Cell
<1>18. BlockTypes(size)'
  <2>1. \A c \in Alloc : blocks'[c].values \in [0 .. size - 1 -> Cells]
    <3> SUFFICES ASSUME NEW c \in Alloc PROVE blocks'[c].values \in [0 .. size - 1 -> Cells]
      OBVIOUS
    <3>1. CASE Before(c)
      BY <1>10, <3>1
    <3>2. CASE ~Before(c)
      BY <1>1, <1>11, <3>2 DEF Shape, BlockTypes
    <3> QED BY <3>1, <3>2
  <2>2. \A c \in Alloc : Off(c)' % size = 0
    <3> SUFFICES ASSUME NEW c \in Alloc PROVE Off(c)' % size = 0
      OBVIOUS
    <3>1. CASE Before(c)
      <4> DEFINE t == Off(tail)
                 o == Off(c)
                 h == Off(head)
      <4>1. t \in Int /\ o \in Int /\ h \in Int /\ t % size = 0 /\ o % size = 0 /\ h % size = 0
        BY <1>1, <1>2, <1>5
      <4>2. Off(c)' = t + size + o - h
        BY <1>15, <3>1
      <4> HIDE DEF t, o, h
      <4>3. (t + size) % size = 0 /\ t + size \in Int
        BY <1>1, <4>1, Multiples
      <4>4. PICK u \in Int : u = t + size /\ u % size = 0
        BY <4>3
      <4>5. (u + o) % size = 0 /\ u + o \in Int
        BY <1>1, <4>1, <4>4, Multiples
      <4>6. PICK w \in Int : w = u + o /\ w % size = 0
        BY <4>5
      <4>7. (w - h) % size = 0
        BY <1>1, <4>1, <4>6, Multiples
      <4>8. w - h = t + size + o - h
        BY <1>1, <4>1, <4>4, <4>6
      <4> QED BY <4>2, <4>7, <4>8
    <3>2. CASE ~Before(c)
      BY <1>1, <1>15, <3>2
    <3> QED BY <3>1, <3>2
  <2> QED BY <1>2, <1>13, <1>14, <1>15, <2>1, <2>2 DEF Shape, BlockTypes, Off, Alloc, BL!Allocated
<1>19. \A x, y \in Alloc : Off(x)' = Off(y)' => x = y
  <2> SUFFICES ASSUME NEW x \in Alloc, NEW y \in Alloc, Off(x)' = Off(y)' PROVE x = y
    OBVIOUS
  <2>1. CASE Before(x) /\ Before(y)
    <3>1. Off(x) = Off(y)
      BY <1>1, <1>2, <1>5, <1>15, <2>1
    <3> QED BY <1>2, <3>1
  <2>2. CASE ~Before(x) /\ ~Before(y)
    BY <1>2, <1>15, <2>2
  <2>3. CASE Before(x) /\ ~Before(y)
    <3>1. Off(y) + size <= Off(x)' /\ Off(y)' = Off(y)
      BY <1>15, <1>16, <2>3
    <3> QED BY <1>1, <3>1
  <2>4. CASE ~Before(x) /\ Before(y)
    <3>1. Off(x) + size <= Off(y)' /\ Off(x)' = Off(x)
      BY <1>15, <1>16, <2>4
    <3> QED BY <1>1, <3>1
  <2> QED BY <2>1, <2>2, <2>3, <2>4
<1>20. ASSUME NEW c \in Alloc, new # head, blocks[c].next = new PROVE Before(c) /\ blocks'[c].next = None
  <2>1. Off(new) = Off(c) + size
    BY <1>1, <1>3, <1>20
  <2>2. Before(c)
    BY <1>1, <2>1
  <2> QED BY <1>10, <1>20, <2>2
<1>21. ~(\E x \in Alloc : Before(x)) <=> new = head
  <2>1. new = head => \A x \in Alloc : ~Before(x)
    BY <1>1, <1>2, <1>3
  <2>2. new # head => Before(head)
    <3>1. new # head => Off(head) # Off(new)
      BY <1>2
    <3> QED BY <1>1, <1>2, <1>3, <3>1
  <2> QED BY <1>2, <2>1, <2>2
<1>22. Linked(new, size)'
  <2> SUFFICES ASSUME NEW c \in Alloc
               PROVE  /\ Off(new)' <= Off(c)'
                      /\ blocks'[c].next # None =>
                           blocks'[c].next \in Alloc /\ blocks'[blocks'[c].next].offset = Off(c)' + size
                      /\ blocks'[c].next = None => \A a \in Alloc : Off(a)' <= Off(c)'
                      /\ c # new => \E a \in Alloc : blocks'[a].next = c
    BY <1>14 DEF Linked, Off
  <2>1. Off(new)' = Off(new) /\ ~Before(new)
    BY <1>1, <1>15
  <2>2. CASE new = head
    <3>1. \A x \in Alloc : Off(x)' = Off(x) /\ blocks'[x].next = blocks[x].next
      BY <1>1, <1>11, <1>15, <1>21, <2>2
    <3> QED BY <2>2, <3>1 DEF Shape, Linked, Off
  <2>3. CASE new # head
    <3>e. (\E x \in Alloc : Before(x)) /\ Before(head)
      BY <1>1, <1>2, <1>3, <1>21, <2>3
    <3>1. Off(new)' <= Off(c)'
      <4>1. CASE Before(c)
        <5>1. Off(new) + size <= Off(c)'
          BY <1>16, <4>1
        <5> QED BY <1>1, <1>15, <2>1, <5>1
      <4>2. CASE ~Before(c)
        BY <1>1, <1>15, <2>1, <4>2
      <4> QED BY <4>1, <4>2
    <3>2. c # new => \E a \in Alloc : blocks'[a].next = c
      <4> SUFFICES ASSUME c # new PROVE \E a \in Alloc : blocks'[a].next = c
        OBVIOUS
      <4>1. CASE c = head
        <5>1. blocks'[tail].next = head
          BY <1>1, <1>5, <1>6, <1>11, <3>e
        <5> QED BY <1>5, <4>1, <5>1
      <4>2. CASE c # head
        <5>1. PICK a \in Alloc : blocks[a].next = c
          BY <1>3, <4>2
        <5>2. a # tail
          BY <1>1, <1>5, <5>1
        <5>3. blocks'[a].next = c
          <6>1. CASE Before(a)
            BY <1>10, <5>1, <6>1
          <6>2. CASE ~Before(a)
            BY <1>1, <1>11, <5>1, <5>2, <6>2
          <6> QED BY <6>1, <6>2
        <5> QED BY <5>3
      <4> QED BY <4>1, <4>2
    <3>3. CASE Before(c) /\ blocks[c].next = new
      <4>1. blocks'[c].next = None
        BY <1>10, <3>3
      <4>2. Off(new) = Off(c) + size
        BY <1>7, <3>3
      <4>3. ASSUME NEW a \in Alloc PROVE Off(a)' <= Off(c)'
        <5>1. CASE Before(a)
          <6>1. Off(a) + size <= Off(new)
            BY <1>7, <5>1
          <6>2. /\ Off(a)' = Off(tail) + size + Off(a) - Off(head)
                /\ Off(c)' = Off(tail) + size + Off(c) - Off(head)
            BY <1>15, <3>3, <5>1
          <6> QED BY <1>1, <1>2, <1>5, <4>2, <6>1, <6>2
        <5>2. CASE ~Before(a)
          <6>1. Off(a)' = Off(a) /\ Off(a) + size <= Off(c)'
            BY <1>15, <1>16, <3>3, <5>2
          <6> QED BY <1>1, <1>15, <6>1
        <5> QED BY <5>1, <5>2
      <4> QED BY <3>1, <3>2, <4>1, <4>3
    <3>4. CASE Before(c) /\ blocks[c].next # new
      <4>1. blocks'[c].next = blocks[c].next
        BY <1>10, <3>4
      <4>2. PICK x \in Alloc : x = blocks[c].next /\ x # None /\ Off(x) = Off(c) + size /\ Before(x)
        BY <1>7, <3>4
      <4>3. /\ Off(x)' = Off(tail) + size + Off(x) - Off(head)
            /\ Off(c)' = Off(tail) + size + Off(c) - Off(head)
        BY <1>15, <3>4, <4>2
      <4>4. Off(x)' = Off(c)' + size
        BY <1>1, <1>2, <1>5, <4>2, <4>3
      <4> QED BY <3>1, <3>2, <4>1, <4>2, <4>4 DEF Off
    <3>5. CASE ~Before(c) /\ c = tail
      <4>1. blocks'[c].next = head /\ head # None
        BY <1>1, <1>2, <1>11, <3>5, <3>e
      <4>2. Off(head)' = Off(tail) + size + Off(head) - Off(head) /\ Off(c)' = Off(tail)
        BY <1>2, <1>15, <3>5, <3>e
      <4>3. Off(head)' = Off(c)' + size
        BY <1>1, <1>2, <1>5, <4>2
      <4> QED BY <1>2, <3>1, <3>2, <4>1, <4>3 DEF Off
    <3>6. CASE ~Before(c) /\ c # tail
      <4>1. blocks'[c].next = blocks[c].next /\ blocks[c].next # None
        BY <1>1, <1>6, <1>11, <3>6
      <4>2. PICK x \in Alloc : x = blocks[c].next /\ Off(x) = Off(c) + size
        BY <1>3, <4>1
      <4>3. ~Before(x)
        BY <1>1, <3>6, <4>2
      <4>4. Off(x)' = Off(c)' + size
        BY <1>15, <3>6, <4>2, <4>3
      <4> QED BY <3>1, <3>2, <4>1, <4>2, <4>4 DEF Off
    <3> QED BY <3>3, <3>4, <3>5, <3>6
  <2> QED BY <2>2, <2>3
<1>23. \E t \in Alloc : blocks'[t].next = None
  <2>1. CASE new = head
    BY <1>1, <1>5, <1>11, <1>21, <2>1
  <2>2. CASE new # head
    <3>1. PICK a \in Alloc : blocks[a].next = new
      BY <1>3, <2>2
    <3> QED BY <1>20, <2>2, <3>1
  <2> QED BY <2>1, <2>2
<1>24. Shape(new, size)'
  BY <1>14, <1>18, <1>19, <1>22, <1>23 DEF Shape
<1> QED BY <1>14, <1>17, <1>24

\* The destructor destroys what it finds at some indices.
LEMMA Emptied ==
  ASSUME NEW head, NEW size, Shape(head, size), NEW indices, blocks' = BL!WithoutData(indices)
  PROVE  /\ Alloc' = Alloc
         /\ \A c \in Alloc : /\ DOMAIN blocks'[c].values = 0 .. size - 1
                             /\ \A j \in 0 .. size - 1 :
                                  Cell(c, j)'.data = IF Off(c) + j \in indices /\ Cell(c, j).flags = "data"
                                                     THEN None ELSE Cell(c, j).data
<1> DEFINE Vals(c) == [j \in DOMAIN blocks[c].values |->
                         IF blocks[c].offset + j \in indices /\ blocks[c].values[j].flags = "data"
                         THEN [blocks[c].values[j] EXCEPT !.data = None] ELSE blocks[c].values[j]]
<1>1. /\ blocks \in [BlockIds -> BlockRecs]
      /\ \A c \in Alloc : /\ c \in BlockIds /\ blocks[c].values \in [0 .. size - 1 -> Cells] /\ blocks[c] \in BlockRecs
                          /\ \A j \in 0 .. size - 1 : Cell(c, j) \in Cells
  BY ShapeFacts DEF Shape, BlockTypes
<1>2. blocks' = [c \in BlockIds |-> IF c \notin Alloc THEN blocks[c] ELSE [blocks[c] EXCEPT !.values = Vals(c)]]
  BY DEF BL!WithoutData, Alloc
<1>3. \A c \in BlockIds : blocks'[c].offset = blocks[c].offset
  <2> HIDE DEF Vals
  <2> QED BY <1>1, <1>2 DEF BlockRecs
<1>4. Alloc' = Alloc
  BY <1>3 DEF Alloc, BL!Allocated
<1>5. ASSUME NEW c \in Alloc PROVE blocks'[c].values = Vals(c)
  <2>1. blocks'[c] = [blocks[c] EXCEPT !.values = Vals(c)]
    <3> HIDE DEF Vals
    <3> QED BY <1>1, <1>2
  <2> HIDE DEF Vals
  <2> QED BY <1>1, <2>1 DEF BlockRecs
<1>6. ASSUME NEW c \in Alloc, NEW j \in 0 .. size - 1
      PROVE  Cell(c, j)'.data = IF Off(c) + j \in indices /\ Cell(c, j).flags = "data"
                                THEN None ELSE Cell(c, j).data
  <2>1. DOMAIN blocks[c].values = 0 .. size - 1
    BY <1>1
  <2>2. Vals(c)[j] = IF Off(c) + j \in indices /\ Cell(c, j).flags = "data"
                     THEN [Cell(c, j) EXCEPT !.data = None] ELSE Cell(c, j)
    BY <2>1 DEF Off, Cell
  <2>3. Cell(c, j)' = Vals(c)[j]
    <3>1. blocks'[c].values = Vals(c)
      BY <1>5
    <3> HIDE DEF Vals
    <3> QED BY <3>1 DEF Cell
  <2>4. [Cell(c, j) EXCEPT !.data = None].data = None
    BY <1>1 DEF Cells
  <2> HIDE DEF Vals
  <2> QED BY <2>2, <2>3, <2>4
<1>7. ASSUME NEW c \in Alloc PROVE DOMAIN blocks'[c].values = 0 .. size - 1
  BY <1>1, <1>5
<1> QED BY <1>4, <1>6, <1>7

\* The queue begins with one block.
LEMMA Begins ==
  ASSUME BL!BlocksInit
  PROVE  \E size \in BlockSizes :
           /\ Shape(BL!FirstBlock, size) /\ Alloc = {BL!FirstBlock} /\ Off(BL!FirstBlock) = 0
           /\ BL!FirstBlock \in BlockIds
           /\ \A j \in 0 .. size - 1 : Cell(BL!FirstBlock, j) = EmptyCell
<1>1. PICK f : f = BL!FirstBlock
  OBVIOUS
<1>2. f \in BlockIds
  BY <1>1, BlocksAssumption DEF BL!FirstBlock
<1>3. PICK size \in BlockSizes : blocks = [b \in BlockIds |-> IF b = f THEN BL!NewBlock(0, size) ELSE BL!Unused]
  BY <1>1 DEF BL!BlocksInit
<1>4. PICK n : n = BL!NewBlock(0, size)
  OBVIOUS
<1>5. /\ n = [offset |-> 0, next |-> None, values |-> [j \in 0 .. size - 1 |-> EmptyCell]]
      /\ EmptyCell \in Cells /\ size \in Nat \ {0}
  BY <1>4, BlocksAssumption DEF BL!NewBlock, EmptyCell, Cells
<1>6. /\ n.offset = 0 /\ n.next = None /\ n.values = [j \in 0 .. size - 1 |-> EmptyCell] /\ n \in BlockRecs
      /\ n.values \in [0 .. size - 1 -> Cells]
  <2>1. [j \in 0 .. size - 1 |-> EmptyCell] \in [0 .. size - 1 -> Cells]
    BY <1>5
  <2>2. [j \in 0 .. size - 1 |-> EmptyCell] \in Arrays
    BY <2>1 DEF Arrays
  <2> QED BY <1>5, <2>1, <2>2 DEF BlockRecs
<1>7. /\ BL!Unused \in BlockRecs /\ BL!Unused.offset = None
  BY DEF BL!Unused, BlockRecs
<1>8. None # 0
  BY ThreadsAssumption
<1>9. Alloc = {f}
  BY <1>2, <1>3, <1>4, <1>6, <1>7, <1>8 DEF Alloc, BL!Allocated
<1>10. blocks[f] = n /\ Off(f) = 0
  BY <1>2, <1>3, <1>4, <1>6 DEF Off
<1>11. blocks \in [BlockIds -> BlockRecs]
  BY <1>3, <1>4, <1>6, <1>7
<1>12. 0 % size = 0
  <2>1. 0 = (size * 0) + 0 /\ 0 \in 0 .. size - 1
    BY <1>5
  <2> QED BY <1>5, <2>1, Remainder
<1>13. BlockTypes(size)
  BY <1>1, <1>6, <1>9, <1>10, <1>11, <1>12 DEF BlockTypes
<1>14. Linked(f, size)
  BY <1>6, <1>9, <1>10 DEF Linked
<1>15. Shape(f, size)
  BY <1>6, <1>9, <1>10, <1>13, <1>14 DEF Shape
<1>16. \A j \in 0 .. size - 1 : Cell(f, j) = EmptyCell
  BY <1>6, <1>10 DEF Cell
<1> QED BY <1>1, <1>2, <1>9, <1>10, <1>15, <1>16

\* Some block reaches up to the index n.
Reach(n, size) == \E b \in Alloc : n <= Off(b) + size

-----------------------------------------------------------------------------
(* qu_spsc_unbounded.                                                      *)

Posting == {"write", "next", "post"}
PostLabels == {"idle", "find", "find_end", "seal"} \cup Posting
PullingLabels == {"idle", "pull", "try_pull", "wait", "parked", "reading", "finish"}

\* The items below this index are in their slots.
Written == IF pc[Producer] \in Posting THEN walk.at ELSE write_offset

Steps == [block : BlockIds \cup {None}, offset : Nat, far : BlockIds \cup {None}, far_offset : Nat,
          at : Nat, end : Nat, cons : BOOLEAN]
ChainTypes ==
  /\ write_offset \in Nat /\ read_offset \in Nat /\ write_closed_at \in Nat \cup {None}
  /\ pc \in [{Producer, Consumer} -> PostLabels \cup PullingLabels]
  /\ pc[Producer] \in PostLabels /\ pc[Consumer] \in PullingLabels
  /\ heads \in [write : BlockIds, head : BlockIds, read : BlockIds] /\ walk \in Steps

\* Where the producer is, and what it is to write.
ChainWriter(size) ==
  /\ heads.write \in Alloc /\ Off(heads.write) <= Written /\ Written <= Off(heads.write) + size
  /\ SU!Closed => write_closed_at = write_offset
  /\ walk.cons => pc[Producer] \in Posting /\ pc[Consumer] = "parked"
  /\ pc[Producer] # "idle" => write_offset <= walk.at /\ walk.at <= walk.end
  /\ pc[Producer] \in {"find", "find_end", "seal"} => walk.at = write_offset
  /\ pc[Producer] = "find" => (SU!Closed <=> walk.at = walk.end)
  /\ pc[Producer] \in {"find_end"} \cup Posting => ~SU!Closed
  /\ pc[Producer] = "seal" => SU!Closed
  /\ pc[Producer] = "post" => walk.at = walk.end

\* The blocks in which it walks and writes.
ChainWalk(size) ==
  /\ pc[Producer] \in {"find", "find_end", "write", "next", "seal"} =>
       /\ walk.block \in Alloc /\ Off(walk.block) = walk.offset
       /\ Off(heads.write) <= walk.offset /\ walk.offset <= walk.at
  /\ pc[Producer] \in {"find_end", "write", "seal"} => walk.offset = StartIn(walk.at, size)
  /\ pc[Producer] = "find_end" =>
       /\ walk.far \in Alloc /\ Off(walk.far) = walk.far_offset
       /\ Off(heads.write) <= walk.far_offset /\ walk.at + 1 < walk.end
       /\ walk.far_offset <= walk.end - 1
  /\ pc[Producer] \in {"write", "next"} => heads.write = walk.block
  /\ pc[Producer] = "write" => walk.at < walk.end /\ (walk.end = write_offset + 1 \/ Reach(walk.end, size))
  /\ pc[Producer] = "next" => walk.at = walk.offset + size /\ Reach(walk.end, size)

ChainReader(size) ==
  /\ read_offset <= Written
  /\ Off(heads.head) <= read_offset /\ read_offset <= Off(heads.head) + size
  /\ pc[Consumer] # "idle" => heads.read \in Alloc /\ Off(heads.read) = StartIn(read_offset, size)
  /\ pc[Consumer] \in {"reading", "finish"} => read_offset < Written
  /\ pc[Consumer] = "parked" =>
       IF walk.cons THEN read_offset < Written
       ELSE read_offset = Written /\ Cell(heads.read, read_offset % size).flags = "consumer"

\* What is in the slot of index i.
ChainCell(i, cell) ==
  /\ cell.data # None <=>
       read_offset <= i /\ i < Written /\ ~(i = read_offset /\ pc[Consumer] = "finish")
  /\ cell.data # None =>
       /\ cell.data = <<Producer, i + 1>>
       /\ cell.flags = "data" \/ (cell.flags = "consumer" /\ i = read_offset /\ pc[Consumer] = "reading")
  /\ cell.flags = "data" => i < Written
  /\ cell.flags = "closed" => i = Written /\ SU!Closed
  /\ cell.flags = "consumer" =>
       \/ i < read_offset
       \/ i = read_offset /\ pc[Consumer] \in {"reading", "finish"}
       \/ i = read_offset /\ pc[Consumer] = "parked" /\ i = Written
ChainCells(size) == \A b \in Alloc, j \in 0 .. size - 1 : ChainCell(Off(b) + j, Cell(b, j))

ChainGone ==
  pc = [th \in {Producer, Consumer} |-> "gone"] /\ \A b \in Alloc : \A j \in DOMAIN blocks[b].values : Cell(b, j).data = None

ChainAt(size) ==
  /\ Shape(heads.head, size) /\ ChainTypes /\ ChainWriter(size) /\ ChainWalk(size)
  /\ ChainReader(size) /\ ChainCells(size)
ChainInv == ChainGone \/ \E size \in BlockSizes : ChainAt(size)

\* The list of the model is this list.
LEMMA SameChain ==
  /\ SU!BlockSize = BL!BlockSize /\ SU!FirstBlock = BL!FirstBlock /\ SU!Allocated = Alloc
  /\ \A i : SU!Start(i) = BL!Start(i)
  /\ \A b, i : SU!Elem(b, i) = Cell(b, i % BL!BlockSize)
  /\ \A b, i, e : SU!WithElem(b, i, e) = BL!WithElem(b, i, e)
  /\ \A b : SU!CanHop(b) = BL!CanHop(b) /\ SU!HopTo(b) = BL!HopTo(b)
  /\ \A b, o : SU!AfterHop(b, o) = BL!AfterHop(b, o)
  /\ \A old, new : SU!Reclaimed(old, new) = BL!Reclaimed(old, new)
<1>1. SU!FirstBlock = BL!FirstBlock /\ SU!Allocated = Alloc /\ BL!Allocated = Alloc
  BY DEF SU!FirstBlock, BL!FirstBlock, SU!Allocated, BL!Allocated, Alloc
<1>2. SU!BlockSize = BL!BlockSize
  BY <1>1 DEF SU!BlockSize, BL!BlockSize, SU!Cardinality, BL!Cardinality
<1>3. SU!Fresh = BL!Fresh
  BY <1>1 DEF SU!Fresh, BL!Fresh
<1>4. \A o, n : SU!NewBlock(o, n) = BL!NewBlock(o, n)
  BY DEF SU!NewBlock, BL!NewBlock
<1>5. \A i : SU!Start(i) = BL!Start(i)
  BY <1>2 DEF SU!Start, BL!Start
<1>6. \A b, i : SU!Elem(b, i) = Cell(b, i % BL!BlockSize)
  BY <1>2 DEF SU!Elem, Cell
<1>7. \A b, i, e : SU!WithElem(b, i, e) = BL!WithElem(b, i, e)
  BY <1>2 DEF SU!WithElem, BL!WithElem
<1>8. \A b : SU!CanHop(b) = BL!CanHop(b) /\ SU!HopTo(b) = BL!HopTo(b)
  BY <1>1, <1>3 DEF SU!CanHop, BL!CanHop, SU!HopTo, BL!HopTo
<1>9. \A b, o : SU!AfterHop(b, o) = BL!AfterHop(b, o)
  BY <1>2, <1>3, <1>4 DEF SU!AfterHop, BL!AfterHop
<1>10. \A old, new : SU!Reclaimed(old, new) = BL!Reclaimed(old, new)
  BY <1>1, <1>2, <1>4 DEF SU!Reclaimed, BL!Reclaimed, SU!Between, BL!Between
<1> QED BY <1>1, <1>2, <1>5, <1>6, <1>7, <1>8, <1>9, <1>10

\* A step that leaves the blocks leaves their shape.
LEMMA SameBlocks ==
  ASSUME NEW head, NEW size, Shape(head, size), UNCHANGED blocks
  PROVE  /\ Shape(head, size)' /\ Alloc' = Alloc /\ \A n : Reach(n, size)' = Reach(n, size)
         /\ \A c : Off(c)' = Off(c) /\ \A j : Cell(c, j)' = Cell(c, j)
<1>1. Alloc' = Alloc /\ \A c : Off(c)' = Off(c) /\ \A j : Cell(c, j)' = Cell(c, j)
  BY DEF Alloc, BL!Allocated, Off, Cell
<1>2. Shape(head, size)'
  BY <1>1 DEF Shape, BlockTypes, Linked
<1>3. \A n : Reach(n, size)' = Reach(n, size)
  BY <1>1 DEF Reach
<1> QED BY <1>1, <1>2, <1>3

\* What the invariant says of the types.
LEMMA ChainFacts ==
  ASSUME NEW size, ChainAt(size)
  PROVE  /\ size \in Nat \ {0} /\ BL!BlockSize = size
         /\ Producer # Consumer /\ DOMAIN pc = {Producer, Consumer}
         /\ heads.head \in Alloc /\ heads.write \in Alloc /\ heads \in [write : BlockIds, head : BlockIds, read : BlockIds]
         /\ \A b \in Alloc : b \in BlockIds /\ b # None /\ Off(b) \in Nat /\ Off(b) \in Int /\ Off(b) % size = 0
         /\ \A b \in Alloc : \A j \in 0 .. size - 1 : Cell(b, j) \in Cells
         /\ write_offset \in Nat /\ read_offset \in Nat /\ Written \in Nat /\ walk \in Steps
         /\ walk.at \in Nat /\ walk.end \in Nat /\ walk.offset \in Nat /\ walk.far_offset \in Nat /\ walk.cons \in BOOLEAN
         /\ \A i \in Nat : SU!Start(i) = StartIn(i, size)
<1>1. Shape(heads.head, size) /\ heads.head \in Alloc
  BY DEF ChainAt, Shape
<1>2. /\ size \in Nat \ {0} /\ BL!BlockSize = size
      /\ \A i : BL!Start(i) = StartIn(i, size)
      /\ \A b \in Alloc : b \in BlockIds /\ b # None /\ Off(b) \in Nat /\ Off(b) \in Int /\ Off(b) % size = 0
      /\ \A b \in Alloc : \A j \in 0 .. size - 1 : Cell(b, j) \in Cells
  <2>1. PICK h : h = heads.head
    OBVIOUS
  <2>2. Shape(h, size)
    BY <1>1, <2>1
  <2> QED BY <2>2, ShapeFacts
<1>3. /\ write_offset \in Nat /\ read_offset \in Nat /\ walk \in Steps
      /\ walk.at \in Nat /\ walk.end \in Nat /\ walk.offset \in Nat /\ walk.far_offset \in Nat /\ walk.cons \in BOOLEAN
  BY DEF ChainAt, ChainTypes, Steps
<1>4. Written \in Nat
  BY <1>3 DEF Written
<1>5. Producer # Consumer /\ DOMAIN pc = {Producer, Consumer}
  BY ThreadsAssumption DEF ChainAt, ChainTypes
<1>6. heads.write \in Alloc /\ heads \in [write : BlockIds, head : BlockIds, read : BlockIds]
  BY DEF ChainAt, ChainWriter, ChainTypes
<1> QED BY <1>1, <1>2, <1>3, <1>4, <1>5, <1>6, SameChain

\* An index and its slot.
LEMMA ChainSlot ==
  ASSUME NEW size, ChainAt(size)
  PROVE  read_offset % size \in 0 .. size - 1 /\ walk.at % size \in 0 .. size - 1
<1>1. PICK r \in Nat, w \in Nat : r = read_offset /\ w = walk.at
  BY ChainFacts
<1>2. r \in Int /\ w \in Int /\ size \in Nat \ {0}
  BY <1>1, ChainFacts
<1>3. r % size \in 0 .. size - 1 /\ w % size \in 0 .. size - 1
  BY <1>2, Division
<1> QED BY <1>1, <1>3

\* A producer's step turns its label, and perhaps the consumer's.
LEMMA ChainTurn ==
  ASSUME NEW size, ChainAt(size)
  PROVE  /\ \A l \in PostLabels : pc' = [pc EXCEPT ![Producer] = l] =>
              /\ pc'[Producer] = l /\ pc'[Consumer] = pc[Consumer]
              /\ pc' \in [{Producer, Consumer} -> PostLabels \cup PullingLabels]
         /\ \A l \in PullingLabels : pc' = [pc EXCEPT ![Consumer] = l] =>
              /\ pc'[Consumer] = l /\ pc'[Producer] = pc[Producer]
              /\ pc' \in [{Producer, Consumer} -> PostLabels \cup PullingLabels]
         /\ \A l \in PostLabels, m \in PullingLabels : pc' = [pc EXCEPT ![Producer] = l, ![Consumer] = m] =>
              /\ pc'[Consumer] = m /\ pc'[Producer] = l
              /\ pc' \in [{Producer, Consumer} -> PostLabels \cup PullingLabels]
<1>1. Producer # Consumer /\ pc \in [{Producer, Consumer} -> PostLabels \cup PullingLabels]
  BY ChainFacts DEF ChainAt, ChainTypes
<1> QED BY <1>1

\* The producer moves without touching a slot.
LEMMA ChainQuiet ==
  ASSUME NEW size, ChainAt(size), UNCHANGED <<blocks, read_offset>>,
         heads'.head = heads.head, heads'.read = heads.read, walk'.cons = walk.cons,
         Written' = Written, SU!Closed => SU!Closed', pc'[Consumer] = pc[Consumer]
  PROVE  /\ Shape(heads.head, size)' /\ ChainReader(size)' /\ ChainCells(size)'
         /\ Alloc' = Alloc /\ \A n : Reach(n, size)' = Reach(n, size)
<1>1. PICK h : h = heads.head
  OBVIOUS
<1>2. /\ Shape(h, size)' /\ Alloc' = Alloc /\ \A n : Reach(n, size)' = Reach(n, size)
      /\ \A c : Off(c)' = Off(c) /\ \A j : Cell(c, j)' = Cell(c, j)
  BY <1>1, SameBlocks DEF ChainAt
<1>3. ChainReader(size)'
  BY <1>2 DEF ChainAt, ChainReader, Off, Cell
<1>4. ChainCells(size)'
  BY <1>2 DEF ChainAt, ChainCells, ChainCell
<1> QED BY <1>1, <1>2, <1>3, <1>4

\* post begins.
LEMMA PostStep ==
  ASSUME NEW size, ChainAt(size), NEW n \in 1 .. MaxBulk, SU!Post(n)
  PROVE  ChainAt(size)'
<1>1. /\ pc[Producer] = "idle" /\ ~SU!Closed /\ pc' = [pc EXCEPT ![Producer] = "find"]
      /\ UNCHANGED <<blocks, write_offset, read_offset, write_closed_at, heads>>
      /\ walk' = [block |-> heads.write, offset |-> Off(heads.write), far |-> None, far_offset |-> 0,
                  at |-> write_offset, end |-> write_offset + n, cons |-> FALSE]
  BY DEF SU!Post, SU!Goto, SU!WalkFor, SU!NoWalk, Off
<1>2. pc'[Producer] = "find" /\ pc'[Consumer] = pc[Consumer]
      /\ pc' \in [{Producer, Consumer} -> PostLabels \cup PullingLabels]
  BY <1>1, ChainTurn DEF PostLabels
<1>3. n \in Nat /\ n >= 1
  BY BlocksAssumption
<1>4. Written' = Written /\ Written = write_offset /\ SU!Closed' = SU!Closed
  BY <1>1, <1>2 DEF Written, Posting, SU!Closed
<1>5. walk' \in Steps /\ ChainTypes'
  <2>1. walk' \in Steps
    BY <1>1, <1>3, ChainFacts DEF Steps
  <2> QED BY <1>1, <1>2, <2>1 DEF ChainAt, ChainTypes, PostLabels
<1>6. ~walk.cons /\ ~walk'.cons
  BY <1>1 DEF ChainAt, ChainWriter, Posting
<1>7. /\ Shape(heads.head, size)' /\ ChainReader(size)' /\ ChainCells(size)' /\ Alloc' = Alloc
  BY <1>1, <1>2, <1>4, <1>6, ChainFacts, ChainQuiet
<1>8. ChainWriter(size)'
  BY <1>1, <1>2, <1>3, <1>4, <1>6, <1>7, ChainFacts DEF ChainAt, ChainWriter, Posting, Off
<1>9. ChainWalk(size)'
  BY <1>1, <1>2, <1>4, <1>7, ChainFacts DEF ChainAt, ChainWalk, ChainWriter, Off
<1> QED BY <1>5, <1>7, <1>8, <1>9 DEF ChainAt

\* The block of the first index is found: write there, seal there, or find the last block.
LEMMA FoundStep ==
  ASSUME NEW size, ChainAt(size), SU!Found
  PROVE  ChainAt(size)'
<1>1. /\ pc[Producer] = "find" /\ walk.offset = StartIn(walk.at, size)
      /\ UNCHANGED <<blocks, write_offset, read_offset, write_closed_at>>
      /\ IF walk.end > walk.at + 1
         THEN /\ walk' = [walk EXCEPT !.far = walk.block, !.far_offset = walk.offset] /\ heads' = heads
              /\ pc' = [pc EXCEPT ![Producer] = "find_end"]
         ELSE /\ heads' = [heads EXCEPT !.write = walk.block] /\ walk' = walk
              /\ pc' = [pc EXCEPT ![Producer] = IF walk.at = walk.end THEN "seal" ELSE "write"]
  BY ChainFacts DEF SU!Found, SU!Goto
<1>2. /\ pc'[Producer] = IF walk.end > walk.at + 1 THEN "find_end" ELSE IF walk.at = walk.end THEN "seal" ELSE "write"
      /\ pc'[Consumer] = pc[Consumer]
      /\ pc' \in [{Producer, Consumer} -> PostLabels \cup PullingLabels]
  BY <1>1, ChainTurn DEF PostLabels, Posting
<1>3. /\ walk'.block = walk.block /\ walk'.offset = walk.offset /\ walk'.at = walk.at /\ walk'.end = walk.end
      /\ walk'.cons = walk.cons /\ walk' \in Steps
      /\ walk.end > walk.at + 1 => walk'.far = walk.block /\ walk'.far_offset = walk.offset
      /\ walk.block \in Alloc /\ Off(walk.block) = walk.offset /\ walk.at = write_offset /\ walk.at <= walk.end
      /\ Off(heads.write) <= walk.offset /\ walk.offset <= walk.at /\ walk.at <= walk.offset + size
      /\ ~walk.cons
  <2>1. walk \in Steps /\ walk.block \in BlockIds
    BY <1>1, ChainFacts DEF ChainAt, ChainWalk
  <2>2. walk.at <= walk.offset + size
    BY <1>1, ChainFacts, StartFacts
  <2>3. /\ walk.block \in Alloc /\ Off(walk.block) = walk.offset /\ walk.at = write_offset /\ walk.at <= walk.end
        /\ Off(heads.write) <= walk.offset /\ walk.offset <= walk.at /\ ~walk.cons
    BY <1>1 DEF ChainAt, ChainWalk, ChainWriter, Posting
  <2>4. /\ walk'.block = walk.block /\ walk'.offset = walk.offset /\ walk'.at = walk.at /\ walk'.end = walk.end
        /\ walk'.cons = walk.cons /\ walk' \in Steps
        /\ walk.end > walk.at + 1 => walk'.far = walk.block /\ walk'.far_offset = walk.offset
    BY <1>1, <2>1 DEF Steps
  <2> QED BY <2>2, <2>3, <2>4
<1>4. /\ heads'.head = heads.head /\ heads'.read = heads.read
      /\ heads'.write = IF walk.end > walk.at + 1 THEN heads.write ELSE walk.block
      /\ heads' \in [write : BlockIds, head : BlockIds, read : BlockIds]
  BY <1>1, <1>3, ChainFacts
<1>5. Written' = Written /\ Written = write_offset /\ SU!Closed' = SU!Closed
  BY <1>1, <1>2, <1>3 DEF Written, Posting, SU!Closed
<1>6. ChainTypes'
  BY <1>1, <1>2, <1>3, <1>4 DEF ChainAt, ChainTypes, PostLabels, Posting
<1>7. /\ Shape(heads.head, size)' /\ ChainReader(size)' /\ ChainCells(size)' /\ Alloc' = Alloc
      /\ \A n : Reach(n, size)' = Reach(n, size)
  BY <1>1, <1>2, <1>3, <1>4, <1>5, ChainQuiet
<1>8. ChainWriter(size)'
  BY <1>1, <1>2, <1>3, <1>4, <1>5, <1>7, ChainFacts DEF ChainAt, ChainWriter, Posting, Off
<1>9. ChainWalk(size)'
  BY <1>1, <1>2, <1>3, <1>4, <1>5, <1>7, ChainFacts DEF ChainAt, ChainWalk, ChainWriter, Off
<1> QED BY <1>6, <1>7, <1>8, <1>9 DEF ChainAt

\* The blocks of the whole batch are there.
LEMMA FoundEndStep ==
  ASSUME NEW size, ChainAt(size), SU!FoundEnd
  PROVE  ChainAt(size)'
<1>1. /\ pc[Producer] = "find_end" /\ walk.far_offset = SU!Start(walk.end - 1)
      /\ UNCHANGED <<blocks, write_offset, read_offset, write_closed_at, walk>>
      /\ heads' = [heads EXCEPT !.write = walk.block] /\ pc' = [pc EXCEPT ![Producer] = "write"]
  BY DEF SU!FoundEnd, SU!Goto
<1>2. /\ pc'[Producer] = "write" /\ pc'[Consumer] = pc[Consumer]
      /\ pc' \in [{Producer, Consumer} -> PostLabels \cup PullingLabels]
  BY <1>1, ChainTurn DEF PostLabels, Posting
<1>3. /\ walk.block \in Alloc /\ Off(walk.block) = walk.offset /\ walk.at = write_offset /\ walk.at <= walk.end
      /\ walk.at + 1 < walk.end /\ walk.far \in Alloc /\ Off(walk.far) = walk.far_offset
      /\ walk.offset = StartIn(walk.at, size) /\ walk.offset <= walk.at
  BY <1>1 DEF ChainAt, ChainWalk, ChainWriter
<1>4. walk.at <= walk.offset + size /\ walk.end <= walk.far_offset + size
  <2>1. walk.end - 1 \in Nat /\ SU!Start(walk.end - 1) = StartIn(walk.end - 1, size)
    BY <1>3, ChainFacts
  <2> QED BY <1>1, <1>3, <2>1, ChainFacts, StartFacts
<1>5. Reach(walk.end, size)
  BY <1>3, <1>4 DEF Reach
<1>6. /\ heads'.head = heads.head /\ heads'.read = heads.read /\ heads'.write = walk.block
      /\ heads' \in [write : BlockIds, head : BlockIds, read : BlockIds]
  BY <1>1, <1>3, ChainFacts
<1>7. Written' = Written /\ Written = write_offset /\ SU!Closed' = SU!Closed
  BY <1>1, <1>2, <1>3 DEF Written, Posting, SU!Closed
<1>8. ChainTypes'
  BY <1>1, <1>2, <1>6 DEF ChainAt, ChainTypes, PostLabels, Posting
<1>9. /\ Shape(heads.head, size)' /\ ChainReader(size)' /\ ChainCells(size)' /\ Alloc' = Alloc
      /\ \A n : Reach(n, size)' = Reach(n, size)
  BY <1>1, <1>2, <1>6, <1>7, ChainQuiet
<1>10. ChainWriter(size)'
  BY <1>1, <1>2, <1>3, <1>4, <1>6, <1>7, <1>9, ChainFacts DEF ChainAt, ChainWriter, Posting, Off
<1>11. ChainWalk(size)'
  BY <1>1, <1>2, <1>3, <1>5, <1>6, <1>7, <1>9, ChainFacts DEF ChainAt, ChainWalk, Off
<1> QED BY <1>8, <1>9, <1>10, <1>11 DEF ChainAt

\* post_bulk goes on to the next block, which is there as long as there are items to write.
LEMMA NextBlockStep ==
  ASSUME NEW size, ChainAt(size), SU!NextBlock
  PROVE  ChainAt(size)'
<1> DEFINE next == blocks[walk.block].next
<1>1. /\ pc[Producer] = "next"
      /\ UNCHANGED <<blocks, write_offset, read_offset, write_closed_at>>
      /\ walk' = [walk EXCEPT !.block = next, !.offset = walk.offset + size]
      /\ heads' = IF walk.at < walk.end THEN [heads EXCEPT !.write = next] ELSE heads
      /\ pc' = [pc EXCEPT ![Producer] = IF walk.at < walk.end THEN "write" ELSE "post"]
  BY ChainFacts, SameChain DEF SU!NextBlock, SU!Goto
<1>2. /\ pc'[Producer] = (IF walk.at < walk.end THEN "write" ELSE "post") /\ pc'[Consumer] = pc[Consumer]
      /\ pc' \in [{Producer, Consumer} -> PostLabels \cup PullingLabels]
  BY <1>1, ChainTurn DEF PostLabels, Posting
<1>3. /\ walk.block \in Alloc /\ Off(walk.block) = walk.offset /\ walk.at <= walk.end
      /\ walk.at = walk.offset + size /\ heads.write = walk.block /\ Reach(walk.end, size)
  BY <1>1 DEF ChainAt, ChainWalk, ChainWriter
<1>4. blocks[walk.block] \in BlockRecs /\ next \in BlockIds \cup {None}
  <2>1. blocks[walk.block] \in BlockRecs
    BY <1>3, ChainFacts DEF ChainAt, Shape, BlockTypes
  <2> QED BY <2>1 DEF BlockRecs
<1>5. walk.at < walk.end => next \in Alloc /\ Off(next) = walk.at /\ next \in BlockIds
  <2> SUFFICES ASSUME walk.at < walk.end PROVE next \in Alloc /\ Off(next) = walk.at /\ next \in BlockIds
    OBVIOUS
  <2>1. PICK b \in Alloc : walk.end <= Off(b) + size
    BY <1>3 DEF Reach
  <2>2. Off(walk.block) < Off(b)
    BY <1>3, <2>1, ChainFacts
  <2>3. /\ next # None => next \in Alloc /\ Off(next) = Off(walk.block) + size
        /\ next = None => Off(b) <= Off(walk.block)
    BY <1>3 DEF ChainAt, Shape, Linked
  <2> QED BY <1>3, <2>2, <2>3, ChainFacts
<1> HIDE DEF next
<1>6. /\ walk'.block = next /\ walk'.offset = walk.at /\ walk'.at = walk.at /\ walk'.end = walk.end
      /\ walk'.cons = walk.cons /\ walk' \in Steps
  <2>1. walk.offset + size \in Nat
    BY ChainFacts
  <2> QED BY <1>1, <1>3, <1>4, <2>1, ChainFacts DEF Steps
<1>7. /\ heads'.head = heads.head /\ heads'.read = heads.read
      /\ heads'.write = IF walk.at < walk.end THEN next ELSE heads.write
      /\ heads' \in [write : BlockIds, head : BlockIds, read : BlockIds]
  BY <1>1, <1>5, ChainFacts
<1>8. Written' = Written /\ Written = walk.at /\ SU!Closed' = SU!Closed
  BY <1>1, <1>2, <1>6 DEF Written, Posting, SU!Closed
<1>9. ChainTypes'
  BY <1>1, <1>2, <1>6, <1>7 DEF ChainAt, ChainTypes, PostLabels, Posting
<1>10. /\ Shape(heads.head, size)' /\ ChainReader(size)' /\ ChainCells(size)' /\ Alloc' = Alloc
       /\ \A n : Reach(n, size)' = Reach(n, size)
  BY <1>1, <1>2, <1>6, <1>7, <1>8, ChainQuiet
<1>11. ChainWriter(size)'
  BY <1>1, <1>2, <1>3, <1>5, <1>6, <1>7, <1>8, <1>10, ChainFacts DEF ChainAt, ChainWriter, Posting, Off
<1>12. walk.at < walk.end => walk.at = StartIn(walk.at, size)
  <2> SUFFICES ASSUME walk.at < walk.end PROVE walk.at = StartIn(walk.at, size)
    OBVIOUS
  <2>1. walk.at \in Nat /\ walk.at % size = 0 /\ walk.at <= walk.at /\ walk.at < walk.at + size
    BY <1>5, ChainFacts
  <2> QED BY <2>1, ChainFacts, StartFacts
<1>13. ChainWalk(size)'
  BY <1>1, <1>2, <1>3, <1>5, <1>6, <1>7, <1>8, <1>10, <1>12, ChainFacts DEF ChainAt, ChainWalk, Off
<1> QED BY <1>9, <1>10, <1>11, <1>13 DEF ChainAt

\* close begins with the cutoff.
LEMMA ChainCloseStep ==
  ASSUME NEW size, ChainAt(size), SU!Close
  PROVE  ChainAt(size)'
<1>1. /\ pc[Producer] = "idle" /\ ~SU!Closed /\ pc' = [pc EXCEPT ![Producer] = "find"]
      /\ write_closed_at' = write_offset
      /\ UNCHANGED <<blocks, write_offset, read_offset, heads>>
      /\ walk' = [block |-> heads.write, offset |-> Off(heads.write), far |-> None, far_offset |-> 0,
                  at |-> write_offset, end |-> write_offset, cons |-> FALSE]
  <2>1. write_offset + 0 = write_offset
    BY ChainFacts
  <2>2. walk' = [block |-> heads.write, offset |-> Off(heads.write), far |-> None, far_offset |-> 0,
                 at |-> write_offset, end |-> write_offset + 0, cons |-> FALSE]
    BY DEF SU!Close, SU!WalkFor, SU!NoWalk, Off
  <2> QED BY <2>1, <2>2 DEF SU!Close, SU!Goto
<1>2. pc'[Producer] = "find" /\ pc'[Consumer] = pc[Consumer]
      /\ pc' \in [{Producer, Consumer} -> PostLabels \cup PullingLabels]
  BY <1>1, ChainTurn DEF PostLabels
<1>3. write_offset # None /\ SU!Closed'
  BY <1>1, ThreadsAssumption, ChainFacts DEF SU!Closed
<1>4. Written' = Written /\ Written = write_offset
  BY <1>1, <1>2 DEF Written, Posting
<1>5. walk' \in Steps /\ ChainTypes'
  <2>1. walk' \in Steps
    BY <1>1, ChainFacts DEF Steps
  <2> QED BY <1>1, <1>2, <2>1, ChainFacts DEF ChainAt, ChainTypes, PostLabels
<1>6. ~walk.cons /\ ~walk'.cons
  BY <1>1 DEF ChainAt, ChainWriter, Posting
<1>7. /\ Shape(heads.head, size)' /\ ChainReader(size)' /\ ChainCells(size)' /\ Alloc' = Alloc
  BY <1>1, <1>2, <1>3, <1>4, <1>6, ChainFacts, ChainQuiet
<1>8. ChainWriter(size)'
  BY <1>1, <1>2, <1>3, <1>4, <1>6, <1>7, ChainFacts DEF ChainAt, ChainWriter, Posting, Off
<1>9. ChainWalk(size)'
  BY <1>1, <1>2, <1>4, <1>7, ChainFacts DEF ChainAt, ChainWalk, ChainWriter, Off
<1> QED BY <1>5, <1>7, <1>8, <1>9 DEF ChainAt

\* The post is done, and wakes whom it found waiting.
LEMMA PostDoneStep ==
  ASSUME NEW size, ChainAt(size), SU!PostDone
  PROVE  ChainAt(size)'
<1> DEFINE m == IF walk.cons THEN "reading" ELSE pc[Consumer]
<1>1. /\ pc[Producer] = "post" /\ pc' = [pc EXCEPT ![Producer] = "idle", ![Consumer] = m]
      /\ write_offset' = walk.end
      /\ UNCHANGED <<blocks, read_offset, write_closed_at, heads>>
      /\ walk' = [block |-> None, offset |-> 0, far |-> None, far_offset |-> 0, at |-> 0, end |-> 0, cons |-> FALSE]
  BY DEF SU!PostDone, SU!NoWalk
<1>2. m \in PullingLabels /\ (walk.cons => pc[Consumer] = "parked")
  BY DEF ChainAt, ChainTypes, ChainWriter, PullingLabels
<1>3. pc'[Producer] = "idle" /\ pc'[Consumer] = m
      /\ pc' \in [{Producer, Consumer} -> PostLabels \cup PullingLabels]
  <2> HIDE DEF m
  <2> QED BY <1>1, <1>2, ChainTurn DEF PostLabels
<1>4. /\ Written' = Written /\ Written = walk.at /\ walk.at = walk.end /\ SU!Closed' = SU!Closed
      /\ ~SU!Closed
  BY <1>1, <1>3 DEF Written, Posting, SU!Closed, ChainAt, ChainWriter
<1>5. walk' \in Steps /\ ChainTypes'
  <2>1. walk' \in Steps
    BY <1>1 DEF Steps
  <2> HIDE DEF m
  <2> QED BY <1>1, <1>2, <1>3, <2>1, ChainFacts DEF ChainAt, ChainTypes, PostLabels
<1>6. PICK h : h = heads.head
  OBVIOUS
<1>7. /\ Shape(h, size)' /\ Alloc' = Alloc
      /\ \A c : Off(c)' = Off(c) /\ \A j : Cell(c, j)' = Cell(c, j)
  BY <1>1, <1>6, SameBlocks DEF ChainAt
<1>8. ChainWriter(size)'
  BY <1>1, <1>3, <1>4, <1>7, ChainFacts DEF ChainAt, ChainWriter, Posting, Off
<1>9. ChainWalk(size)'
  BY <1>1, <1>3 DEF ChainWalk
<1>10. ChainReader(size)'
  <2>1. ~walk'.cons
    BY <1>1
  <2> QED BY <1>1, <1>2, <1>3, <1>4, <1>7, <2>1, ChainFacts DEF ChainAt, ChainReader, Off, Cell
<1>11. ChainCells(size)'
  <2> SUFFICES ASSUME NEW b \in Alloc, NEW j \in 0 .. size - 1, NEW i, i = Off(b) + j,
                      ChainCell(i, Cell(b, j))
               PROVE  ChainCell(i, Cell(b, j))'
    BY <1>7 DEF ChainCells, ChainAt
  <2>1. walk.cons => read_offset < Written
    BY <1>2 DEF ChainAt, ChainReader
  <2>2. i \in Int /\ Cell(b, j)' = Cell(b, j)
    BY <1>7, ChainFacts
  <2> QED BY <1>1, <1>2, <1>3, <1>4, <2>1, <2>2, ChainFacts DEF ChainCell
<1> QED BY <1>1, <1>5, <1>6, <1>7, <1>8, <1>9, <1>10, <1>11 DEF ChainAt

\* What a slot holds depends on the indices and on the consumer's place.
LEMMA ChainCellKept ==
  ASSUME UNCHANGED read_offset, Written' = Written, SU!Closed => SU!Closed',
         \/ pc'[Consumer] = pc[Consumer]
         \/ pc[Consumer] \in {"idle", "pull", "try_pull", "wait"} /\ pc'[Consumer] \in {"idle", "pull", "try_pull", "wait"},
         NEW i, NEW cell, ChainCell(i, cell)
  PROVE  ChainCell(i, cell)'
BY DEF ChainCell

\* A block more has empty slots of indices that were not yet written.
LEMMA ChainHop ==
  ASSUME NEW size, ChainAt(size), NEW b \in Alloc, BL!CanHop(b), blocks' = BL!AfterHop(b, Off(b)),
         UNCHANGED read_offset, heads'.head = heads.head, Written' = Written, SU!Closed => SU!Closed',
         \/ pc'[Consumer] = pc[Consumer]
         \/ pc[Consumer] \in {"idle", "pull", "try_pull", "wait"} /\ pc'[Consumer] \in {"idle", "pull", "try_pull", "wait"}
  PROVE  /\ Shape(heads.head, size)' /\ ChainCells(size)'
         /\ \A c \in Alloc : c \in Alloc' /\ Off(c)' = Off(c) /\ \A j \in 0 .. size - 1 : Cell(c, j)' = Cell(c, j)
         /\ BL!HopTo(b) \in Alloc' /\ blocks'[BL!HopTo(b)].offset = Off(b) + size
         /\ BL!HopTo(b) \in BlockIds
         /\ \A n \in Nat : Reach(n, size) => Reach(n, size)'
<1>1. PICK h : h = heads.head
  OBVIOUS
<1>2. Shape(h, size)
  BY <1>1 DEF ChainAt
<1>3. /\ Shape(h, size)'
      /\ \A c \in Alloc : c \in Alloc' /\ Off(c)' = Off(c) /\ \A j \in 0 .. size - 1 : Cell(c, j)' = Cell(c, j)
      /\ \E x \in Alloc' : x = BL!HopTo(b) /\ Off(x)' = Off(b) + size
      /\ \A c \in Alloc' \ Alloc : /\ \A a \in Alloc : Off(a) + size <= Off(c)'
                                   /\ \A j \in 0 .. size - 1 : Cell(c, j)' = EmptyCell
  BY <1>2, Hop
<1>4. PICK x \in Alloc' : x = BL!HopTo(b) /\ Off(x)' = Off(b) + size
  BY <1>3
<1>5. x \in BlockIds /\ \A c \in Alloc' : Off(c)' \in Nat
  BY <1>3, <1>4 DEF Shape, BlockTypes, Alloc, BL!Allocated
<1>6. ChainCells(size)'
  <2> SUFFICES ASSUME NEW c \in Alloc', NEW j \in 0 .. size - 1 PROVE ChainCell(Off(c) + j, Cell(c, j))'
    BY DEF ChainCells
  <2>1. CASE c \in Alloc
    <3>1. PICK i, cell : i = Off(c) + j /\ cell = Cell(c, j)
      OBVIOUS
    <3>2. ChainCell(i, cell)
      BY <2>1, <3>1 DEF ChainAt, ChainCells
    <3>3. ChainCell(i, cell)'
      BY <3>2, ChainCellKept
    <3>4. Off(c)' + j = i /\ Cell(c, j)' = cell
      BY <1>3, <2>1, <3>1
    <3> QED BY <3>3, <3>4
  <2>2. CASE c \notin Alloc
    <3>1. Off(heads.write) + size <= Off(c)' /\ Cell(c, j)' = EmptyCell
      BY <1>3, <2>2, ChainFacts
    <3>2. PICK i \in Int : i = Off(c)' + j
      BY <1>5, ChainFacts
    <3>3. Written <= i
      BY <1>5, <3>1, <3>2, ChainFacts DEF ChainAt, ChainWriter
    <3>4. ChainCell(i, EmptyCell)'
      BY <3>2, <3>3, ChainFacts DEF ChainCell, EmptyCell
    <3> QED BY <3>1, <3>2, <3>4
  <2> QED BY <2>1, <2>2
<1>7. \A n \in Nat : Reach(n, size) => Reach(n, size)'
  BY <1>3 DEF Reach
<1> QED BY <1>1, <1>3, <1>4, <1>5, <1>6, <1>7 DEF Off

\* The producer goes one block further.
LEMMA FindBlockStep ==
  ASSUME NEW size, ChainAt(size), SU!FindBlock
  PROVE  ChainAt(size)'
<1>1. PICK b, h : b = walk.block /\ h = BL!HopTo(b)
  OBVIOUS
<1>2. /\ pc[Producer] = "find" /\ walk.offset # StartIn(walk.at, size) /\ BL!CanHop(b)
      /\ blocks' = BL!AfterHop(b, walk.offset)
      /\ walk' = [walk EXCEPT !.block = h, !.offset = walk.offset + size]
      /\ UNCHANGED <<write_offset, read_offset, write_closed_at, heads, pc>>
  BY <1>1, ChainFacts, SameChain DEF SU!FindBlock
<1>3. /\ b \in Alloc /\ Off(b) = walk.offset /\ walk.at = write_offset
      /\ Off(heads.write) <= walk.offset /\ walk.offset <= walk.at /\ walk.offset % size = 0
  <2>1. /\ b \in Alloc /\ Off(b) = walk.offset /\ walk.at = write_offset
        /\ Off(heads.write) <= walk.offset /\ walk.offset <= walk.at
    BY <1>1, <1>2 DEF ChainAt, ChainWalk, ChainWriter
  <2> QED BY <2>1, ChainFacts
<1>4. walk.offset + size <= walk.at
  <2>1. ~(walk.at < walk.offset + size)
    BY <1>2, <1>3, ChainFacts, StartFacts
  <2> QED BY <2>1, ChainFacts
<1>5. Written' = Written /\ SU!Closed' = SU!Closed
  BY <1>2 DEF Written, Posting, SU!Closed
<1>6. /\ Shape(heads.head, size)' /\ ChainCells(size)'
      /\ \A c \in Alloc : c \in Alloc' /\ Off(c)' = Off(c) /\ \A j \in 0 .. size - 1 : Cell(c, j)' = Cell(c, j)
      /\ h \in Alloc' /\ Off(h)' = walk.offset + size /\ h \in BlockIds
  BY <1>1, <1>2, <1>3, <1>5, ChainHop DEF Off
<1>7. /\ walk'.block = h /\ walk'.offset = walk.offset + size /\ walk'.at = walk.at /\ walk'.end = walk.end
      /\ walk'.cons = walk.cons /\ walk' \in Steps
  <2>1. walk.offset + size \in Nat
    BY ChainFacts
  <2> QED BY <1>2, <1>6, <2>1, ChainFacts DEF Steps
<1>8. ChainTypes'
  BY <1>2, <1>7 DEF ChainAt, ChainTypes
<1>9. PICK wr, rd, hd : wr = heads.write /\ rd = heads.read /\ hd = heads.head
  OBVIOUS
<1>10. wr \in Alloc /\ hd \in Alloc /\ Off(wr)' = Off(wr) /\ Off(hd)' = Off(hd)
  BY <1>6, <1>9, ChainFacts
<1>11. ChainWriter(size)'
  BY <1>2, <1>5, <1>6, <1>7, <1>9, <1>10 DEF ChainAt, ChainWriter, Off, Posting
<1>12. ChainWalk(size)'
  BY <1>2, <1>3, <1>4, <1>6, <1>7, <1>9, <1>10, ChainFacts DEF ChainAt, ChainWalk, Off
<1>13. ChainReader(size)'
  <2>1. pc[Consumer] # "idle" => rd \in Alloc
    BY <1>9 DEF ChainAt, ChainReader
  <2>2. read_offset % size \in 0 .. size - 1
    BY ChainSlot
  <2> QED BY <1>2, <1>5, <1>6, <1>7, <1>9, <1>10, <2>1, <2>2 DEF ChainAt, ChainReader, Off, Cell
<1> QED BY <1>6, <1>8, <1>11, <1>12, <1>13 DEF ChainAt

\* It goes one block further, up to the last one of the batch.
LEMMA FindEndStep ==
  ASSUME NEW size, ChainAt(size), SU!FindEnd
  PROVE  ChainAt(size)'
<1>1. PICK b, h : b = walk.far /\ h = BL!HopTo(b)
  OBVIOUS
<1>2. /\ pc[Producer] = "find_end" /\ walk.far_offset # SU!Start(walk.end - 1) /\ BL!CanHop(b)
      /\ blocks' = BL!AfterHop(b, walk.far_offset)
      /\ walk' = [walk EXCEPT !.far = h, !.far_offset = walk.far_offset + size]
      /\ UNCHANGED <<write_offset, read_offset, write_closed_at, heads, pc>>
  BY <1>1, ChainFacts, SameChain DEF SU!FindEnd
<1>3. /\ b \in Alloc /\ Off(b) = walk.far_offset /\ walk.at = write_offset /\ walk.at + 1 < walk.end
      /\ Off(heads.write) <= walk.far_offset /\ walk.far_offset <= walk.end - 1 /\ walk.far_offset % size = 0
      /\ walk.block \in Alloc /\ walk.end - 1 \in Nat
  <2>1. /\ b \in Alloc /\ Off(b) = walk.far_offset /\ walk.at = write_offset /\ walk.at + 1 < walk.end
        /\ Off(heads.write) <= walk.far_offset /\ walk.far_offset <= walk.end - 1
        /\ walk.block \in Alloc
    BY <1>1, <1>2 DEF ChainAt, ChainWalk, ChainWriter
  <2> QED BY <2>1, ChainFacts
<1>4. walk.far_offset + size <= walk.end - 1
  <2>1. PICK e \in Nat : e = walk.end - 1
    BY <1>3
  <2>2. walk.far_offset # StartIn(e, size) /\ walk.far_offset <= e
    BY <1>2, <1>3, <2>1, ChainFacts
  <2>3. ~(e < walk.far_offset + size)
    BY <1>3, <2>2, ChainFacts, StartFacts
  <2> QED BY <2>1, <2>3, ChainFacts
<1>5. Written' = Written /\ SU!Closed' = SU!Closed
  BY <1>2 DEF Written, Posting, SU!Closed
<1>6. /\ Shape(heads.head, size)' /\ ChainCells(size)'
      /\ \A c \in Alloc : c \in Alloc' /\ Off(c)' = Off(c) /\ \A j \in 0 .. size - 1 : Cell(c, j)' = Cell(c, j)
      /\ h \in Alloc' /\ Off(h)' = walk.far_offset + size /\ h \in BlockIds
  BY <1>1, <1>2, <1>3, <1>5, ChainHop DEF Off
<1>7. /\ walk'.block = walk.block /\ walk'.offset = walk.offset /\ walk'.at = walk.at /\ walk'.end = walk.end
      /\ walk'.far = h /\ walk'.far_offset = walk.far_offset + size
      /\ walk'.cons = walk.cons /\ walk' \in Steps
  <2>1. walk.far_offset + size \in Nat
    BY ChainFacts
  <2> QED BY <1>2, <1>6, <2>1, ChainFacts DEF Steps
<1>8. ChainTypes'
  BY <1>2, <1>7 DEF ChainAt, ChainTypes
<1>9. PICK wr, rd, hd, bl : wr = heads.write /\ rd = heads.read /\ hd = heads.head /\ bl = walk.block
  OBVIOUS
<1>10. /\ wr \in Alloc /\ hd \in Alloc /\ Off(wr)' = Off(wr) /\ Off(hd)' = Off(hd)
       /\ bl \in Alloc /\ Off(bl)' = Off(bl)
  BY <1>3, <1>6, <1>9, ChainFacts
<1>11. ChainWriter(size)'
  BY <1>2, <1>5, <1>6, <1>7, <1>9, <1>10 DEF ChainAt, ChainWriter, Off, Posting
<1>12. ChainWalk(size)'
  BY <1>2, <1>3, <1>4, <1>6, <1>7, <1>9, <1>10, ChainFacts DEF ChainAt, ChainWalk, Off
<1>13. ChainReader(size)'
  <2>1. pc[Consumer] # "idle" => rd \in Alloc
    BY <1>9 DEF ChainAt, ChainReader
  <2>2. read_offset % size \in 0 .. size - 1
    BY ChainSlot
  <2> QED BY <1>2, <1>5, <1>6, <1>7, <1>9, <1>10, <2>1, <2>2 DEF ChainAt, ChainReader, Off, Cell
<1> QED BY <1>6, <1>8, <1>11, <1>12, <1>13 DEF ChainAt

\* The consumer finds its block, which is the head block or the next one.
LEMMA TicketStep ==
  ASSUME NEW size, ChainAt(size), NEW how \in {"pull", "try_pull"}, SU!Ticket(how)
  PROVE  ChainAt(size)'
<1>1. PICK b, h : b = heads.head /\ h = BL!HopTo(b)
  OBVIOUS
<1>2. /\ pc[Consumer] = "idle" /\ pc' = [pc EXCEPT ![Consumer] = how]
      /\ IF Off(b) = StartIn(read_offset, size)
         THEN blocks' = blocks /\ heads' = [heads EXCEPT !.read = b]
         ELSE BL!CanHop(b) /\ blocks' = BL!AfterHop(b, Off(b)) /\ heads' = [heads EXCEPT !.read = h]
      /\ UNCHANGED <<write_offset, read_offset, write_closed_at, walk>>
  BY <1>1, ChainFacts, SameChain DEF SU!Ticket, SU!Goto, Off
<1>3. pc'[Consumer] = how /\ pc'[Producer] = pc[Producer]
      /\ pc' \in [{Producer, Consumer} -> PostLabels \cup PullingLabels]
  BY <1>2, ChainTurn DEF PullingLabels
<1>4. b \in Alloc /\ Off(b) <= read_offset /\ read_offset <= Off(b) + size
  BY <1>1, ChainFacts DEF ChainAt, ChainReader
<1>5. Written' = Written /\ SU!Closed' = SU!Closed /\ ~walk.cons
  BY <1>2, <1>3 DEF Written, SU!Closed, ChainAt, ChainWriter
<1>6. PICK r \in BlockIds : heads' = [heads EXCEPT !.read = r] /\ r = heads'.read
  <2>1. CASE Off(b) = StartIn(read_offset, size)
    BY <1>1, <1>2, <2>1, ChainFacts
  <2>2. CASE Off(b) # StartIn(read_offset, size)
    <3>1. heads'.head = heads.head
      BY <1>2, <2>2, ChainFacts
    <3>2. h \in BlockIds
      BY <1>1, <1>2, <1>3, <1>4, <1>5, <2>2, <3>1, ChainHop
    <3> QED BY <1>2, <2>2, <3>2, ChainFacts
  <2> QED BY <2>1, <2>2
<1>7. heads'.head = heads.head /\ heads'.write = heads.write
      /\ heads' \in [write : BlockIds, head : BlockIds, read : BlockIds]
  BY <1>6, ChainFacts
<1>8. /\ Shape(heads.head, size)' /\ ChainCells(size)'
      /\ \A c \in Alloc : c \in Alloc' /\ Off(c)' = Off(c) /\ \A j \in 0 .. size - 1 : Cell(c, j)' = Cell(c, j)
      /\ r \in Alloc' /\ Off(r)' = StartIn(read_offset, size)
      /\ \A n \in Nat : Reach(n, size) => Reach(n, size)'
  <2>1. CASE Off(b) = StartIn(read_offset, size)
    <3>1. /\ Shape(b, size)' /\ Alloc' = Alloc /\ \A n : Reach(n, size)' = Reach(n, size)
          /\ \A c : Off(c)' = Off(c) /\ \A j : Cell(c, j)' = Cell(c, j)
      BY <1>1, <1>2, <2>1, SameBlocks DEF ChainAt
    <3>2. r = b
      BY <1>2, <1>6, <2>1, ChainFacts
    <3>3. ChainCells(size)'
      <4> SUFFICES ASSUME NEW c \in Alloc, NEW j \in 0 .. size - 1 PROVE ChainCell(Off(c) + j, Cell(c, j))'
        BY <3>1 DEF ChainCells
      <4>1. PICK i, cell : i = Off(c) + j /\ cell = Cell(c, j)
        OBVIOUS
      <4>2. ChainCell(i, cell)
        BY <4>1 DEF ChainAt, ChainCells
      <4>3. ChainCell(i, cell)'
        BY <1>2, <1>3, <1>5, <4>2, ChainCellKept
      <4>4. Off(c)' + j = i /\ Cell(c, j)' = cell
        BY <3>1, <4>1
      <4> QED BY <4>3, <4>4
    <3> QED BY <1>1, <1>4, <1>7, <2>1, <3>1, <3>2, <3>3
  <2>2. CASE Off(b) # StartIn(read_offset, size)
    <3>1. r = h
      BY <1>2, <1>6, <2>2, ChainFacts
    <3>2. /\ Shape(heads.head, size)' /\ ChainCells(size)'
          /\ \A c \in Alloc : c \in Alloc' /\ Off(c)' = Off(c) /\ \A j \in 0 .. size - 1 : Cell(c, j)' = Cell(c, j)
          /\ h \in Alloc' /\ Off(h)' = Off(b) + size
          /\ \A n \in Nat : Reach(n, size) => Reach(n, size)'
      BY <1>1, <1>2, <1>3, <1>4, <1>5, <1>7, <2>2, ChainHop DEF Off
    <3>3. Off(b) \in Nat /\ Off(b) % size = 0 /\ size \in Nat \ {0} /\ read_offset \in Nat
      BY <1>4, ChainFacts
    <3>4. PICK o \in Nat : o = Off(b) + size
      BY <3>3
    <3>5. ~(read_offset < o)
      BY <1>4, <2>2, <3>3, <3>4, StartFacts
    <3>6. read_offset = o /\ o % size = 0 /\ o < o + size
      <4>1. (Off(b) + size) % size = 0
        BY <3>3, Multiples
      <4> QED BY <1>4, <3>3, <3>4, <3>5, <4>1
    <3>7. o = StartIn(read_offset, size)
      <4>1. o = StartIn(o, size)
        <5>1. o <= o /\ o < o + size
          BY <3>3
        <5> QED BY <3>3, <3>6, <5>1, StartFacts
      <4> QED BY <3>6, <4>1
    <3> QED BY <3>1, <3>2, <3>4, <3>7
  <2> QED BY <2>1, <2>2
<1>9. ChainTypes'
  BY <1>2, <1>3, <1>7 DEF ChainAt, ChainTypes, PullingLabels
<1>10. PICK wr, bl, fr : wr = heads.write /\ bl = walk.block /\ fr = walk.far
  OBVIOUS
<1>11. wr \in Alloc /\ Off(wr)' = Off(wr) /\ Off(b)' = Off(b) /\ b \in Alloc'
  BY <1>4, <1>8, <1>10, ChainFacts
<1>12. ChainWriter(size)'
  BY <1>2, <1>3, <1>5, <1>7, <1>10, <1>8, <1>11 DEF ChainAt, ChainWriter, Off, Posting
<1>13. ChainWalk(size)'
  <2>1. /\ pc[Producer] \in {"find", "find_end", "write", "next", "seal"} => bl \in Alloc
        /\ pc[Producer] = "find_end" => fr \in Alloc
    BY <1>10 DEF ChainAt, ChainWalk
  <2> QED BY <1>2, <1>3, <1>7, <1>8, <1>10, <1>11, <2>1, ChainFacts DEF ChainAt, ChainWalk, Off
<1>14. ChainReader(size)'
  BY <1>1, <1>2, <1>3, <1>4, <1>5, <1>6, <1>7, <1>8, <1>11 DEF ChainAt, ChainReader, Off
<1> QED BY <1>8, <1>9, <1>12, <1>13, <1>14 DEF ChainAt

\* write_element: the slot at Written is free, whether or not the consumer waits there.
LEMMA FreeSlot ==
  ASSUME NEW size, ChainAt(size), pc[Producer] \in {"write", "seal"}
  PROVE  /\ walk.block \in Alloc /\ Off(walk.block) = StartIn(walk.at, size) /\ Off(walk.block) = walk.offset
         /\ SU!Elem(walk.block, walk.at) = Cell(walk.block, walk.at % size)
         /\ walk.at = Written /\ Written < walk.offset + size /\ walk.offset <= Written
         /\ ChainCell(Written, Cell(walk.block, walk.at % size))
         /\ Cell(walk.block, walk.at % size).data = None
         /\ Cell(walk.block, walk.at % size).flags = "consumer" =>
              read_offset = Written /\ pc[Consumer] = "parked"
         /\ pc[Consumer] = "parked" => walk.cons \/ Cell(walk.block, walk.at % size).flags = "consumer"
<1>0. PICK b, i : b = walk.block /\ i = walk.at
  OBVIOUS
<1>1. PICK k : b = walk.block /\ i = walk.at /\ k = i % size
  BY <1>0
<1>n. i \in Nat
  BY <1>1, ChainFacts
<1>2. b \in Alloc /\ Off(b) = walk.offset /\ walk.offset = StartIn(i, size)
  BY <1>1 DEF ChainAt, ChainWalk
<1>3. size \in Nat \ {0} /\ walk.offset \in Nat
  BY ChainFacts
<1>4. /\ walk.offset <= i /\ i < walk.offset + size /\ k = i - walk.offset
  <2>1. StartIn(i, size) <= i /\ i < StartIn(i, size) + size /\ i % size = i - StartIn(i, size)
    BY <1>3, <1>n, StartFacts
  <2> QED BY <1>1, <1>2, <2>1
<1>5. Written = i
  BY <1>1 DEF Written, Posting, ChainAt, ChainWalk, ChainWriter
<1>6. k \in 0 .. size - 1 /\ Off(b) + k = i
  BY <1>2, <1>3, <1>4, <1>n
<1>7. SU!Elem(b, i) = Cell(b, k)
  BY <1>1, SameChain, ChainFacts
<1>8. ChainCell(i, Cell(b, k))
  BY <1>2, <1>6 DEF ChainAt, ChainCells
<1>9. Cell(b, k).data = None
  BY <1>5, <1>8, ChainFacts DEF ChainCell
<1>10. read_offset <= Written /\ (pc[Consumer] \in {"reading", "finish"} => read_offset < Written)
  BY DEF ChainAt, ChainReader
<1>11. Cell(b, k).flags = "consumer" => read_offset = Written /\ pc[Consumer] = "parked"
  BY <1>5, <1>8, <1>10, ChainFacts DEF ChainCell
<1>12. pc[Consumer] = "parked" => walk.cons \/ Cell(b, k).flags = "consumer"
  <2> SUFFICES ASSUME pc[Consumer] = "parked", ~walk.cons PROVE Cell(b, k).flags = "consumer"
    OBVIOUS
  <2>1. /\ heads.read \in Alloc /\ Off(heads.read) = StartIn(read_offset, size) /\ read_offset = Written
        /\ Cell(heads.read, read_offset % size).flags = "consumer"
    BY DEF ChainAt, ChainReader
  <2>2. heads.read = b
    BY <1>2, <1>5, <2>1 DEF ChainAt, Shape
  <2> QED BY <1>1, <1>5, <2>1, <2>2
<1> QED BY <1>1, <1>2, <1>4, <1>5, <1>7, <1>8, <1>9, <1>11, <1>12

\* The end of a block.
LEMMA BlockEnd ==
  ASSUME NEW size \in Nat \ {0}, NEW o \in Nat, o % size = 0, NEW i \in Nat, o <= i, i < o + size
  PROVE  /\ (i + 1) % size = 0 => i + 1 = o + size
         /\ (i + 1) % size # 0 => o = StartIn(i + 1, size)
<1>1. PICK n \in Nat : n = i + 1
  OBVIOUS
<1>2. o < n /\ n <= o + size /\ o \in Int /\ n \in Int
  BY <1>1
<1>3. n % size = 0 => n = o + size
  <2>1. n % size = 0 => o + size <= n
    BY <1>2, Multiples
  <2> QED BY <1>2, <2>1
<1>4. (o + size) % size = 0
  BY <1>2, Multiples
<1>5. n % size # 0 => o = StartIn(n, size)
  <2> SUFFICES ASSUME n % size # 0 PROVE o = StartIn(n, size)
    OBVIOUS
  <2>1. n # o + size
    BY <1>4
  <2>2. o <= n /\ n < o + size
    BY <1>2, <2>1
  <2> QED BY <2>2, StartFacts
<1> QED BY <1>1, <1>3, <1>5

\* It writes an item.
LEMMA WriteElementStep ==
  ASSUME NEW size, ChainAt(size), SU!WriteElement
  PROVE  ChainAt(size)'
<1> DEFINE l == IF walk.end = write_offset + 1 THEN "post"
                ELSE IF (walk.at + 1) % size = 0 THEN "next"
                ELSE IF walk.at + 1 = walk.end THEN "post" ELSE "write"
<1>1. PICK b, i, e : b = walk.block /\ i = walk.at /\ e = [flags |-> "data", data |-> <<Producer, i + 1>>]
  OBVIOUS
<1>2. /\ pc[Producer] = "write" /\ pc' = [pc EXCEPT ![Producer] = l]
      /\ blocks' = BL!WithElem(b, i, e)
      /\ walk' = [walk EXCEPT !.at = i + 1, !.cons = walk.cons \/ SU!Elem(b, i).flags = "consumer"]
      /\ UNCHANGED <<write_offset, read_offset, write_closed_at, heads>>
  <2>1. /\ pc[Producer] = "write" /\ blocks' = SU!WithElem(b, i, e)
        /\ walk' = [walk EXCEPT !.at = i + 1, !.cons = walk.cons \/ SU!Elem(b, i).flags = "consumer"]
        /\ UNCHANGED <<write_offset, read_offset, write_closed_at, heads>>
    BY <1>1 DEF SU!WriteElement, SU!Item
  <2>3. SU!BlockSize = size
    BY ChainFacts, SameChain
  <2>2. pc' = [pc EXCEPT ![Producer] = l]
    BY <2>3 DEF SU!WriteElement, SU!Goto
  <2> QED BY <2>1, <2>2, SameChain
<1>3. /\ b \in Alloc /\ Off(b) = StartIn(i, size) /\ Off(b) = walk.offset /\ i \in Nat /\ i = Written
      /\ i < walk.offset + size /\ walk.offset <= i
      /\ SU!Elem(b, i).flags = "consumer" => read_offset = i /\ pc[Consumer] = "parked"
      /\ pc[Consumer] = "parked" => walk.cons \/ SU!Elem(b, i).flags = "consumer"
  BY <1>1, <1>2, ChainFacts, FreeSlot
<1>4. /\ b = heads.write /\ i < walk.end /\ (walk.end = write_offset + 1 \/ Reach(walk.end, size))
      /\ write_offset <= i /\ ~SU!Closed
  BY <1>1, <1>2 DEF ChainAt, ChainWalk, ChainWriter, Posting
<1>5. l \in {"post", "next", "write"} /\ l \in PostLabels /\ l \in Posting
  BY DEF PostLabels, Posting
<1>6. /\ l = "post" => i + 1 = walk.end
      /\ l # "post" => Reach(walk.end, size) /\ i + 1 <= walk.end
      /\ l = "write" => i + 1 < walk.end /\ walk.offset = StartIn(i + 1, size)
      /\ l = "next" => i + 1 = walk.offset + size
  <2>1. walk.end \in Nat /\ write_offset \in Nat /\ walk.offset \in Nat /\ walk.offset % size = 0 /\ size \in Nat \ {0}
    BY <1>3, ChainFacts
  <2>2. /\ (i + 1) % size = 0 => i + 1 = walk.offset + size
        /\ (i + 1) % size # 0 => walk.offset = StartIn(i + 1, size)
    BY <1>3, <2>1, BlockEnd
  <2>3. /\ l = "next" => (i + 1) % size = 0
        /\ l = "write" => (i + 1) % size # 0 /\ i + 1 # walk.end
        /\ l # "post" => walk.end # write_offset + 1
        /\ l = "post" => walk.end = write_offset + 1 \/ i + 1 = walk.end
    BY <1>1
  <2> HIDE DEF l
  <2> QED BY <1>3, <1>4, <2>1, <2>2, <2>3
<1> HIDE DEF l
<1>7. /\ pc'[Producer] = l /\ pc'[Consumer] = pc[Consumer]
      /\ pc' \in [{Producer, Consumer} -> PostLabels \cup PullingLabels]
  BY <1>2, <1>5, ChainTurn
<1>8. /\ walk'.block = walk.block /\ walk'.offset = walk.offset /\ walk'.at = i + 1 /\ walk'.end = walk.end
      /\ walk'.cons = (walk.cons \/ SU!Elem(b, i).flags = "consumer") /\ walk' \in Steps
  <2>1. i + 1 \in Nat /\ walk \in Steps
    BY <1>3, ChainFacts
  <2> QED BY <1>2, <2>1 DEF Steps
<1>9. Written' = Written + 1 /\ SU!Closed' = SU!Closed
  BY <1>2, <1>3, <1>5, <1>7, <1>8 DEF Written, Posting, SU!Closed
<1>10. PICK h, rd : h = heads.head /\ rd = heads.read
  OBVIOUS
<1>11. e \in Cells /\ e.flags = "data" /\ e.data = <<Producer, i + 1>> /\ e.data # None
  BY <1>1, <1>3, ThreadsAssumption DEF Cells
<1>12. Shape(h, size)
  BY <1>10 DEF ChainAt
<1>13. /\ Shape(h, size)' /\ Alloc' = Alloc
       /\ \A c \in Alloc : Off(c)' = Off(c)
       /\ \A c \in Alloc : \A j \in 0 .. size - 1 : Cell(c, j)' = IF Off(c) + j = i THEN e ELSE Cell(c, j)
  <2>1. /\ b \in Alloc /\ i \in Nat /\ Off(b) = StartIn(i, size) /\ e \in Cells
        /\ blocks' = BL!WithElem(b, i, e)
    BY <1>2, <1>3, <1>11
  <2> QED BY <1>12, <2>1, WriteCell
<1>14. ChainTypes'
  BY <1>2, <1>5, <1>7, <1>8 DEF ChainAt, ChainTypes
<1>15. h \in Alloc /\ Off(h)' = Off(h) /\ Off(b)' = Off(b)
  BY <1>3, <1>10, <1>13, ChainFacts
<1>16. ChainWriter(size)'
  <2>1. walk'.cons => pc[Consumer] = "parked"
    BY <1>3, <1>8 DEF ChainAt, ChainWriter
  <2>2. heads'.write \in Alloc' /\ Off(heads.write)' = Off(b) /\ write_offset \in Nat /\ walk.offset \in Nat
    BY <1>2, <1>3, <1>4, <1>13, <1>15, ChainFacts
  <2> QED BY <1>2, <1>3, <1>4, <1>5, <1>6, <1>7, <1>8, <1>9, <2>1, <2>2, ChainFacts DEF ChainWriter, Posting
<1>17. ChainWalk(size)'
  <2>1. Reach(walk.end, size) => Reach(walk.end, size)'
    BY <1>8, <1>13 DEF Reach
  <2>2. heads'.write \in Alloc' /\ Off(heads.write)' = Off(b) /\ walk'.block \in Alloc' /\ Off(walk.block)' = Off(b)
    BY <1>1, <1>2, <1>3, <1>4, <1>8, <1>13, <1>15
  <2>3. walk.offset <= i + 1
    BY <1>3, ChainFacts
  <2>4. Off(b) = walk.offset /\ l \in {"post", "next", "write"} /\ Off(b) <= walk.offset
    BY <1>3, <1>5, ChainFacts
  <2>5. CASE l = "post"
    BY <1>7, <2>5 DEF ChainWalk
  <2>6. CASE l = "next"
    BY <1>3, <1>6, <1>7, <1>8, <1>4, <1>2, <1>1, <2>1, <2>2, <2>3, <2>4, <2>6 DEF ChainWalk, Off
  <2>7. CASE l = "write"
    BY <1>3, <1>6, <1>7, <1>8, <1>4, <1>2, <1>1, <2>1, <2>2, <2>3, <2>4, <2>7 DEF ChainWalk, Off
  <2> QED BY <2>4, <2>5, <2>6, <2>7
<1>18. ChainReader(size)'
  <2>1. read_offset <= Written /\ read_offset \in Nat /\ Written \in Nat
    BY ChainFacts DEF ChainAt, ChainReader
  <2>2. pc[Consumer] = "parked" => walk'.cons
    BY <1>3, <1>8
  <2>3. pc[Consumer] # "idle" => rd \in Alloc /\ Off(rd) = StartIn(read_offset, size) /\ Off(rd)' = Off(rd)
    BY <1>10, <1>13 DEF ChainAt, ChainReader
  <2>4. Off(h) <= read_offset /\ read_offset <= Off(h) + size
    BY <1>10 DEF ChainAt, ChainReader
  <2>5. read_offset' <= Written' /\ read_offset < Written'
    BY <1>2, <1>9, <2>1
  <2> QED BY <1>2, <1>7, <1>10, <1>13, <1>15, <2>2, <2>3, <2>4, <2>5 DEF ChainReader, Off
<1>19. ChainCells(size)'
  <2> SUFFICES ASSUME NEW c \in Alloc, NEW j \in 0 .. size - 1 PROVE ChainCell(Off(c) + j, Cell(c, j))'
    BY <1>13 DEF ChainCells
  <2>1. PICK k, cell : k = Off(c) + j /\ cell = Cell(c, j)
    OBVIOUS
  <2>2. ChainCell(k, cell) /\ k \in Int
    BY <2>1, ChainFacts DEF ChainAt, ChainCells
  <2>3. read_offset \in Nat /\ Written \in Nat /\ (pc[Consumer] \in {"reading", "finish"} => read_offset < Written)
        /\ read_offset <= Written
    BY ChainFacts DEF ChainAt, ChainReader
  <2>4. CASE k # i
    <3>1. ChainCell(k, cell)'
      BY <1>2, <1>3, <1>4, <1>7, <1>9, <2>2, <2>3, <2>4 DEF ChainCell
    <3>2. Off(c)' + j = k /\ Cell(c, j)' = cell
      BY <1>13, <2>1, <2>4
    <3> QED BY <3>1, <3>2
  <2>5. CASE k = i
    <3>1. ChainCell(i, e)'
      BY <1>2, <1>3, <1>7, <1>9, <1>11, <2>3 DEF ChainCell
    <3>2. Off(c)' + j = i /\ Cell(c, j)' = e
      BY <1>13, <2>1, <2>5
    <3> QED BY <3>1, <3>2
  <2> QED BY <2>4, <2>5
<1> QED BY <1>2, <1>10, <1>13, <1>14, <1>16, <1>17, <1>18, <1>19 DEF ChainAt

\* A slot is written, and nobody moves.
LEMMA ChainPut ==
  ASSUME NEW size, ChainAt(size), NEW b \in Alloc, NEW i \in Nat, Off(b) = StartIn(i, size), NEW e \in Cells,
         blocks' = BL!WithElem(b, i, e), UNCHANGED heads
  PROVE  /\ Shape(heads.head, size)' /\ Alloc' = Alloc /\ \A n : Reach(n, size)' = Reach(n, size)
         /\ \A c \in Alloc : Off(c)' = Off(c)
         /\ \A c \in Alloc : \A j \in 0 .. size - 1 : Cell(c, j)' = IF Off(c) + j = i THEN e ELSE Cell(c, j)
<1>1. PICK h : h = heads.head
  OBVIOUS
<1>2. Shape(h, size)
  BY <1>1 DEF ChainAt
<1>3. /\ Shape(h, size)' /\ Alloc' = Alloc
      /\ \A c \in Alloc : Off(c)' = Off(c)
      /\ \A c \in Alloc : \A j \in 0 .. size - 1 : Cell(c, j)' = IF Off(c) + j = i THEN e ELSE Cell(c, j)
  BY <1>2, WriteCell
<1>4. \A n : Reach(n, size)' = Reach(n, size)
  BY <1>3 DEF Reach
<1> QED BY <1>1, <1>3, <1>4

\* The producer stays where it is while the consumer moves.
LEMMA ChainStill ==
  ASSUME NEW size, ChainAt(size), Alloc' = Alloc, \A c \in Alloc : Off(c)' = Off(c),
         \A n : Reach(n, size)' = Reach(n, size), heads'.write = heads.write,
         UNCHANGED <<write_offset, write_closed_at, walk>>, pc'[Producer] = pc[Producer],
         walk.cons => pc'[Consumer] = pc[Consumer]
  PROVE  /\ ChainWriter(size)' /\ ChainWalk(size)' /\ Written' = Written /\ SU!Closed' = SU!Closed
<1>1. Written' = Written /\ SU!Closed' = SU!Closed
  BY DEF Written, SU!Closed
<1>2. PICK wr, bl, fr : wr = heads.write /\ bl = walk.block /\ fr = walk.far
  OBVIOUS
<1>3. wr \in Alloc /\ Off(wr)' = Off(wr)
  BY <1>2, ChainFacts
<1>4. ChainWriter(size)'
  BY <1>1, <1>2, <1>3 DEF ChainAt, ChainWriter, Off
<1>5. ChainWalk(size)'
  <2>1. /\ pc[Producer] \in {"find", "find_end", "write", "next", "seal"} => bl \in Alloc
        /\ pc[Producer] = "find_end" => fr \in Alloc
    BY <1>2 DEF ChainAt, ChainWalk
  <2> QED BY <1>2, <1>3, <2>1 DEF ChainAt, ChainWalk, Off
<1> QED BY <1>1, <1>4, <1>5

\* The slot at which the consumer is.
LEMMA HereSlot ==
  ASSUME NEW size, ChainAt(size), pc[Consumer] # "idle"
  PROVE  /\ heads.read \in Alloc /\ Off(heads.read) = StartIn(read_offset, size)
         /\ SU!Here = Cell(heads.read, read_offset % size)
         /\ Cell(heads.read, read_offset % size) \in Cells
         /\ ChainCell(read_offset, Cell(heads.read, read_offset % size))
<1>1. PICK b, i : b = heads.read /\ i = read_offset
  OBVIOUS
<1>2. PICK k : b = heads.read /\ i = read_offset /\ k = i % size
  BY <1>1
<1>3. i \in Nat /\ size \in Nat \ {0}
  BY <1>2, ChainFacts
<1>4. b \in Alloc /\ Off(b) = StartIn(i, size)
  BY <1>2 DEF ChainAt, ChainReader
<1>5. Off(b) <= i /\ i < Off(b) + size /\ k = i - Off(b) /\ Off(b) \in Nat
  <2>1. StartIn(i, size) <= i /\ i < StartIn(i, size) + size /\ i % size = i - StartIn(i, size)
    BY <1>3, StartFacts
  <2> QED BY <1>2, <1>4, <2>1, ChainFacts
<1>6. k \in 0 .. size - 1 /\ Off(b) + k = i
  BY <1>3, <1>5
<1>7. SU!Here = Cell(b, k)
  BY <1>2, SameChain, ChainFacts DEF SU!Here
<1>8. ChainCell(i, Cell(b, k)) /\ Cell(b, k) \in Cells
  <2>1. ChainCell(i, Cell(b, k))
    BY <1>4, <1>6 DEF ChainAt, ChainCells
  <2> QED BY <1>4, <1>6, <2>1, ChainFacts
<1> QED BY <1>2, <1>4, <1>7, <1>8

\* try_pull and await_ready look at the flags.
LEMMA LookSteps ==
  ASSUME NEW size, ChainAt(size), SU!TryPull \/ SU!Ready
  PROVE  ChainAt(size)'
<1>1. PICK l \in {"idle", "reading", "wait"} :
        /\ pc[Consumer] \in {"pull", "try_pull"} /\ pc' = [pc EXCEPT ![Consumer] = l]
        /\ l = "reading" => SU!Here.flags = "data"
        /\ UNCHANGED <<blocks, write_offset, read_offset, write_closed_at, heads, walk>>
  BY DEF SU!TryPull, SU!Ready, SU!Goto
<1>2. pc'[Consumer] = l /\ pc'[Producer] = pc[Producer]
      /\ pc' \in [{Producer, Consumer} -> PostLabels \cup PullingLabels]
  BY <1>1, ChainTurn DEF PullingLabels
<1>3. ~walk.cons
  BY <1>1 DEF ChainAt, ChainWriter
<1>4. PICK h : h = heads.head
  OBVIOUS
<1>5. /\ Shape(h, size)' /\ Alloc' = Alloc /\ \A n : Reach(n, size)' = Reach(n, size)
      /\ \A c : Off(c)' = Off(c) /\ \A j : Cell(c, j)' = Cell(c, j)
  BY <1>1, <1>4, SameBlocks DEF ChainAt
<1>6. ChainWriter(size)' /\ ChainWalk(size)' /\ Written' = Written /\ SU!Closed' = SU!Closed
  BY <1>1, <1>2, <1>3, <1>5, ChainStill
<1>7. ChainTypes'
  BY <1>1, <1>2 DEF ChainAt, ChainTypes, PullingLabels
<1>8. l = "reading" => read_offset < Written
  BY <1>1, HereSlot DEF ChainCell
<1>9. ChainReader(size)'
  BY <1>1, <1>2, <1>5, <1>6, <1>8 DEF ChainAt, ChainReader, Off
<1>10. ChainCells(size)'
  <2> SUFFICES ASSUME NEW c \in Alloc, NEW j \in 0 .. size - 1 PROVE ChainCell(Off(c) + j, Cell(c, j))'
    BY <1>5 DEF ChainCells
  <2>1. PICK k, cell : k = Off(c) + j /\ cell = Cell(c, j)
    OBVIOUS
  <2>2. ChainCell(k, cell)
    BY <2>1 DEF ChainAt, ChainCells
  <2>3. ChainCell(k, cell)'
    BY <1>1, <1>2, <1>6, <2>2 DEF ChainCell
  <2>4. Off(c)' + j = k /\ Cell(c, j)' = cell
    BY <1>5, <2>1
  <2> QED BY <2>3, <2>4
<1> QED BY <1>1, <1>4, <1>5, <1>6, <1>7, <1>9, <1>10 DEF ChainAt

\* await_suspend exchanges the flags.
LEMMA WaitStep ==
  ASSUME NEW size, ChainAt(size), SU!Wait
  PROVE  ChainAt(size)'
<1>1. PICK b, i, cell, f : b = heads.read /\ i = read_offset /\ cell = SU!Here /\ f = cell.flags
  OBVIOUS
<1>2. PICK e, l :
        /\ e = [cell EXCEPT !.flags = IF f = "closed" THEN f ELSE "consumer"]
        /\ l = CASE f = "empty" -> "parked" [] f = "closed" -> "idle" [] OTHER -> "reading"
        /\ pc[Consumer] = "wait" /\ pc' = [pc EXCEPT ![Consumer] = l]
        /\ blocks' = BL!WithElem(b, i, e)
        /\ UNCHANGED <<write_offset, read_offset, write_closed_at, heads, walk>>
  BY <1>1, SameChain DEF SU!Wait, SU!Goto
<1>3. l \in {"parked", "idle", "reading"} /\ l \in PullingLabels
      /\ (l = "parked" <=> f = "empty") /\ (l = "idle" <=> f = "closed")
  BY <1>2 DEF PullingLabels
<1>4. pc'[Consumer] = l /\ pc'[Producer] = pc[Producer]
      /\ pc' \in [{Producer, Consumer} -> PostLabels \cup PullingLabels]
  BY <1>2, <1>3, ChainTurn
<1>5. ~walk.cons
  BY <1>2 DEF ChainAt, ChainWriter
<1>6. b \in Alloc /\ Off(b) = StartIn(i, size) /\ i \in Nat /\ cell \in Cells /\ ChainCell(i, cell)
  BY <1>1, <1>2, HereSlot, ChainFacts
<1>7. e \in Cells /\ e.data = cell.data /\ e.flags = (IF f = "closed" THEN "closed" ELSE "consumer")
  BY <1>1, <1>2, <1>6 DEF Cells
<1>8. /\ Shape(heads.head, size)' /\ Alloc' = Alloc /\ \A n : Reach(n, size)' = Reach(n, size)
      /\ \A c \in Alloc : Off(c)' = Off(c)
      /\ \A c \in Alloc : \A j \in 0 .. size - 1 : Cell(c, j)' = IF Off(c) + j = i THEN e ELSE Cell(c, j)
  <2>1. blocks' = BL!WithElem(b, i, e) /\ UNCHANGED heads
    BY <1>2
  <2> QED BY <1>6, <1>7, <2>1, ChainPut
<1>9. ChainWriter(size)' /\ ChainWalk(size)' /\ Written' = Written /\ SU!Closed' = SU!Closed
  BY <1>2, <1>4, <1>5, <1>8, ChainStill
<1>10. ChainTypes'
  BY <1>2, <1>3, <1>4 DEF ChainAt, ChainTypes
<1>11. read_offset <= Written /\ read_offset \in Nat /\ Written \in Nat
  BY ChainFacts DEF ChainAt, ChainReader
<1>12. /\ l = "reading" => f = "data" /\ i < Written
       /\ l = "parked" => i = Written /\ e.flags = "consumer" /\ e.data = None
  <2>1. f \in {"empty", "data", "consumer", "closed"}
    BY <1>1, <1>6 DEF Cells
  <2>2. f # "consumer"
    BY <1>1, <1>2, <1>6, <1>11 DEF ChainCell
  <2>3. l = "reading" => f = "data" /\ i < Written
    BY <1>1, <1>3, <1>6, <2>1, <2>2 DEF ChainCell
  <2>4. l = "parked" => cell.data = None
    BY <1>1, <1>3, <1>6 DEF ChainCell
  <2>5. l = "parked" => i = Written
    BY <1>1, <1>2, <1>6, <1>11, <2>4 DEF ChainCell
  <2> QED BY <1>3, <1>7, <2>3, <2>4, <2>5
<1>13. ChainReader(size)'
  <2>1. PICK h : h = heads.head
    OBVIOUS
  <2>2. h \in Alloc /\ Off(h)' = Off(h)
    BY <1>8, <2>1, ChainFacts
  <2>3. PICK k : k = i % size
    OBVIOUS
  <2>4. k \in 0 .. size - 1 /\ Off(b) + k = i
    <3>1. StartIn(i, size) <= i /\ i < StartIn(i, size) + size /\ i % size = i - StartIn(i, size)
      BY <1>6, ChainFacts, StartFacts
    <3> QED BY <1>6, <2>3, <3>1, ChainFacts
  <2>5. Cell(b, k)' = e
    BY <1>6, <1>8, <2>4
  <2>6. l = "parked" => Cell(heads.read, read_offset % size)'.flags = "consumer"
    BY <1>1, <1>2, <1>12, <2>3, <2>5 DEF Cell
  <2> QED BY <1>1, <1>2, <1>3, <1>4, <1>5, <1>6, <1>8, <1>9, <1>12, <2>1, <2>2, <2>6
       DEF ChainAt, ChainReader, Off
<1>14. ChainCells(size)'
  <2> SUFFICES ASSUME NEW c \in Alloc, NEW j \in 0 .. size - 1 PROVE ChainCell(Off(c) + j, Cell(c, j))'
    BY <1>8 DEF ChainCells
  <2>1. PICK k, old : k = Off(c) + j /\ old = Cell(c, j)
    OBVIOUS
  <2>2. ChainCell(k, old) /\ k \in Int
    BY <2>1, ChainFacts DEF ChainAt, ChainCells
  <2>3. CASE k # i
    <3>1. ChainCell(k, old)'
      BY <1>1, <1>2, <1>3, <1>4, <1>9, <1>11, <2>2, <2>3 DEF ChainCell
    <3>2. Off(c)' + j = k /\ Cell(c, j)' = old
      BY <1>8, <2>1, <2>3
    <3> QED BY <3>1, <3>2
  <2>4. CASE k = i
    <3>1. ChainCell(i, e)'
      <4>1. CASE l = "idle"
        BY <1>1, <1>2, <1>3, <1>4, <1>6, <1>7, <1>9, <4>1 DEF ChainCell
      <4>2. CASE l = "parked"
        BY <1>1, <1>2, <1>4, <1>6, <1>9, <1>11, <1>12, <4>2 DEF ChainCell
      <4>3. CASE l = "reading"
        BY <1>1, <1>2, <1>3, <1>4, <1>6, <1>7, <1>9, <1>12, <4>3 DEF ChainCell
      <4> QED BY <1>3, <4>1, <4>2, <4>3
    <3>2. Off(c)' + j = i /\ Cell(c, j)' = e
      BY <1>8, <2>1, <2>4
    <3> QED BY <3>1, <3>2
  <2> QED BY <2>3, <2>4
<1> QED BY <1>8, <1>9, <1>10, <1>13, <1>14 DEF ChainAt

\* The scope takes the value out of its slot.
LEMMA ReadStep ==
  ASSUME NEW size, ChainAt(size), SU!Read
  PROVE  ChainAt(size)'
<1>1. PICK b, i, cell : b = heads.read /\ i = read_offset /\ cell = SU!Here
  OBVIOUS
<1>2. PICK e :
        /\ e = [cell EXCEPT !.data = None]
        /\ pc[Consumer] = "reading" /\ pc' = [pc EXCEPT ![Consumer] = "finish"]
        /\ blocks' = BL!WithElem(b, i, e)
        /\ UNCHANGED <<write_offset, read_offset, write_closed_at, heads, walk>>
  BY <1>1, SameChain DEF SU!Read, SU!Goto
<1>4. pc'[Consumer] = "finish" /\ pc'[Producer] = pc[Producer]
      /\ pc' \in [{Producer, Consumer} -> PostLabels \cup PullingLabels]
  BY <1>2, ChainTurn DEF PullingLabels
<1>5. ~walk.cons
  BY <1>2 DEF ChainAt, ChainWriter
<1>6. b \in Alloc /\ Off(b) = StartIn(i, size) /\ i \in Nat /\ cell \in Cells /\ ChainCell(i, cell)
  BY <1>1, <1>2, HereSlot, ChainFacts
<1>7. e \in Cells /\ e.data = None /\ e.flags = cell.flags
  BY <1>1, <1>2, <1>6 DEF Cells
<1>8. /\ Shape(heads.head, size)' /\ Alloc' = Alloc /\ \A n : Reach(n, size)' = Reach(n, size)
      /\ \A c \in Alloc : Off(c)' = Off(c)
      /\ \A c \in Alloc : \A j \in 0 .. size - 1 : Cell(c, j)' = IF Off(c) + j = i THEN e ELSE Cell(c, j)
  <2>1. blocks' = BL!WithElem(b, i, e) /\ UNCHANGED heads
    BY <1>2
  <2> QED BY <1>6, <1>7, <2>1, ChainPut
<1>9. ChainWriter(size)' /\ ChainWalk(size)' /\ Written' = Written /\ SU!Closed' = SU!Closed
  BY <1>2, <1>4, <1>5, <1>8, ChainStill
<1>10. ChainTypes'
  BY <1>2, <1>4 DEF ChainAt, ChainTypes, PullingLabels
<1>11. read_offset < Written /\ read_offset \in Nat /\ Written \in Nat
  BY <1>2, ChainFacts DEF ChainAt, ChainReader
<1>13. ChainReader(size)'
  <2>1. PICK h : h = heads.head
    OBVIOUS
  <2>2. h \in Alloc /\ Off(h)' = Off(h)
    BY <1>8, <2>1, ChainFacts
  <2> QED BY <1>1, <1>2, <1>4, <1>6, <1>8, <1>9, <2>1, <2>2 DEF ChainAt, ChainReader, Off
<1>14. ChainCells(size)'
  <2> SUFFICES ASSUME NEW c \in Alloc, NEW j \in 0 .. size - 1 PROVE ChainCell(Off(c) + j, Cell(c, j))'
    BY <1>8 DEF ChainCells
  <2>1. PICK k, old : k = Off(c) + j /\ old = Cell(c, j)
    OBVIOUS
  <2>2. ChainCell(k, old) /\ k \in Int
    BY <2>1, ChainFacts DEF ChainAt, ChainCells
  <2>3. CASE k # i
    <3>1. ChainCell(k, old)'
      BY <1>1, <1>2, <1>4, <1>9, <1>11, <2>2, <2>3 DEF ChainCell
    <3>2. Off(c)' + j = k /\ Cell(c, j)' = old
      BY <1>8, <2>1, <2>3
    <3> QED BY <3>1, <3>2
  <2>4. CASE k = i
    <3>1. ChainCell(i, e)'
      BY <1>1, <1>2, <1>4, <1>6, <1>7, <1>9, <1>11 DEF ChainCell
    <3>2. Off(c)' + j = i /\ Cell(c, j)' = e
      BY <1>8, <2>1, <2>4
    <3> QED BY <3>1, <3>2
  <2> QED BY <2>3, <2>4
<1> QED BY <1>8, <1>9, <1>10, <1>13, <1>14 DEF ChainAt

\* The read is over; the blocks before a new one go to the end of the list.
LEMMA FinishReadStep ==
  ASSUME NEW size, ChainAt(size), SU!FinishRead
  PROVE  ChainAt(size)'
<1>1. PICK h, b, i, wr : h = heads.head /\ b = heads.read /\ i = read_offset /\ wr = heads.write
  OBVIOUS
<1>s. SU!BlockSize = size
  BY ChainFacts, SameChain
<1>2. /\ pc[Consumer] = "finish" /\ pc' = [pc EXCEPT ![Consumer] = "idle"]
      /\ IF i % size = 0
         THEN blocks' = BL!Reclaimed(h, b) /\ heads' = [heads EXCEPT !.head = b]
         ELSE UNCHANGED <<blocks, heads>>
      /\ read_offset' = i + 1
      /\ UNCHANGED <<write_offset, write_closed_at, walk>>
  BY <1>1, <1>s, SameChain DEF SU!FinishRead, SU!Goto
<1>4. pc'[Consumer] = "idle" /\ pc'[Producer] = pc[Producer]
      /\ pc' \in [{Producer, Consumer} -> PostLabels \cup PullingLabels]
  BY <1>2, ChainTurn DEF PullingLabels
<1>5. ~walk.cons
  BY <1>2 DEF ChainAt, ChainWriter
<1>6. /\ b \in Alloc /\ Off(b) = StartIn(i, size) /\ i \in Nat /\ h \in Alloc /\ wr \in Alloc
      /\ i < Written /\ Written <= Off(wr) + size /\ Off(h) <= i /\ i <= Off(h) + size
  BY <1>1, <1>2, ChainFacts DEF ChainAt, ChainReader, ChainWriter
<1>7. /\ Off(b) <= i /\ i < Off(b) + size /\ i % size = i - Off(b) /\ size \in Nat \ {0} /\ Written \in Nat
      /\ \A c \in Alloc : Off(c) \in Nat /\ Off(c) \in Int /\ Off(c) % size = 0
  <2>1. StartIn(i, size) <= i /\ i < StartIn(i, size) + size /\ i % size = i - StartIn(i, size)
    BY <1>6, ChainFacts, StartFacts
  <2> QED BY <1>6, <2>1, ChainFacts
<1>8. Off(b) <= Off(wr)
  <2>1. Off(wr) < Off(b) => Off(wr) + size <= Off(b)
    BY <1>6, <1>7, Multiples
  <2> QED BY <1>6, <1>7, <2>1
<1>10. PICK hd : /\ Shape(hd, size)' /\ hd = heads'.head /\ heads'.write = wr /\ hd \in Alloc
                 /\ heads' \in [write : BlockIds, head : BlockIds, read : BlockIds]
                 /\ Off(hd) <= i /\ i < Off(hd) + size /\ Alloc' = Alloc /\ Off(hd)' = Off(hd)
                 /\ \A c \in Alloc : IF Off(wr) <= Off(c) THEN Off(c)' = Off(c)
                                     ELSE Off(c)' \in Nat /\ (Off(c) <= Off(c)')
                 /\ \A c \in Alloc : \/ Off(c)' = Off(c) /\ \A j \in 0 .. size - 1 : Cell(c, j)' = Cell(c, j)
                                     \/ /\ Off(wr) + size <= Off(c)' /\ Off(c)' \in Int
                                        /\ \A j \in 0 .. size - 1 : Cell(c, j)' = EmptyCell
  <2>1. CASE i % size = 0
    <3>1. blocks' = BL!Reclaimed(h, b) /\ heads' = [heads EXCEPT !.head = b]
      BY <1>2, <2>1
    <3>2. Shape(h, size)
      BY <1>1 DEF ChainAt
    <3>3. /\ Shape(b, size)' /\ Alloc' = Alloc
          /\ \A c \in Alloc :
               IF Off(b) <= Off(c)
               THEN Off(c)' = Off(c) /\ \A j \in 0 .. size - 1 : Cell(c, j)' = Cell(c, j)
               ELSE /\ \A a \in Alloc : Off(a) + size <= Off(c)'
                    /\ \A j \in 0 .. size - 1 : Cell(c, j)' = EmptyCell
      BY <1>6, <3>1, <3>2, Recycle
    <3>4. \A c \in Alloc : Off(c)' \in Nat
      BY <3>3 DEF Shape, BlockTypes
    <3>5. /\ \A c \in Alloc : IF Off(wr) <= Off(c) THEN Off(c)' = Off(c)
                              ELSE Off(c)' \in Nat /\ (Off(c) <= Off(c)')
          /\ \A c \in Alloc : \/ Off(c)' = Off(c) /\ \A j \in 0 .. size - 1 : Cell(c, j)' = Cell(c, j)
                              \/ /\ Off(wr) + size <= Off(c)' /\ Off(c)' \in Int
                                 /\ \A j \in 0 .. size - 1 : Cell(c, j)' = EmptyCell
      <4> SUFFICES ASSUME NEW c \in Alloc
                   PROVE  /\ IF Off(wr) <= Off(c) THEN Off(c)' = Off(c)
                             ELSE Off(c)' \in Nat /\ (Off(c) <= Off(c)')
                          /\ \/ Off(c)' = Off(c) /\ \A j \in 0 .. size - 1 : Cell(c, j)' = Cell(c, j)
                             \/ /\ Off(wr) + size <= Off(c)' /\ Off(c)' \in Int
                                /\ \A j \in 0 .. size - 1 : Cell(c, j)' = EmptyCell
        OBVIOUS
      <4>1. CASE Off(b) <= Off(c)
        <5>1. Off(c)' = Off(c) /\ \A j \in 0 .. size - 1 : Cell(c, j)' = Cell(c, j)
          BY <3>3, <4>1
        <5> QED BY <1>7, <5>1
      <4>2. CASE ~(Off(b) <= Off(c))
        <5>1. /\ Off(wr) + size <= Off(c)' /\ Off(c) + size <= Off(c)'
              /\ \A j \in 0 .. size - 1 : Cell(c, j)' = EmptyCell
          BY <1>6, <3>3, <4>2
        <5> QED BY <1>6, <1>7, <1>8, <3>4, <4>2, <5>1
      <4> QED BY <4>1, <4>2
    <3>6. /\ heads'.head = b /\ heads'.write = wr /\ heads' \in [write : BlockIds, head : BlockIds, read : BlockIds]
      BY <1>1, <1>6, <3>1, ChainFacts
    <3>7. Off(b)' = Off(b)
      BY <1>6, <1>7, <3>3
    <3> QED BY <1>6, <1>7, <3>3, <3>5, <3>6, <3>7
  <2>2. CASE i % size # 0
    <3>1. UNCHANGED blocks /\ heads' = heads
      BY <1>2, <2>2
    <3>2. /\ Shape(h, size)' /\ Alloc' = Alloc
          /\ \A c : Off(c)' = Off(c) /\ \A j : Cell(c, j)' = Cell(c, j)
      BY <1>1, <3>1, SameBlocks DEF ChainAt
    <3>3. i # Off(h) + size
      <4>1. (Off(h) + size) % size = 0
        BY <1>6, <1>7, Multiples
      <4> QED BY <2>2, <4>1
    <3>4. i < Off(h) + size
      BY <1>6, <1>7, <3>3
    <3> QED BY <1>1, <1>6, <3>1, <3>2, <3>4, <1>7, ChainFacts
  <2> QED BY <2>1, <2>2
<1>11. Written' = Written /\ SU!Closed' = SU!Closed
  BY <1>2, <1>4 DEF Written, SU!Closed
<1>12. ChainTypes'
  <2>1. i + 1 \in Nat
    BY <1>6
  <2> QED BY <1>2, <1>4, <1>10, <2>1 DEF ChainAt, ChainTypes, PullingLabels
<1>13. ChainWriter(size)'
  <2>1. Off(wr)' = Off(wr)
    BY <1>6, <1>7, <1>10
  <2> QED BY <1>1, <1>2, <1>4, <1>5, <1>6, <1>10, <1>11, <2>1 DEF ChainAt, ChainWriter, Off
<1>14. ChainWalk(size)'
  <2>1. PICK bl, fr, n : bl = walk.block /\ fr = walk.far /\ n = walk.end
    OBVIOUS
  <2>2. /\ pc[Producer] \in {"find", "find_end", "write", "next", "seal"} => bl \in Alloc /\ Off(wr) <= Off(bl)
        /\ pc[Producer] = "find_end" => fr \in Alloc /\ Off(wr) <= Off(fr)
    BY <1>1, <2>1 DEF ChainAt, ChainWalk
  <2>3. /\ pc[Producer] \in {"find", "find_end", "write", "next", "seal"} => bl \in Alloc /\ Off(bl)' = Off(bl)
        /\ pc[Producer] = "find_end" => fr \in Alloc /\ Off(fr)' = Off(fr)
    BY <1>10, <2>2
  <2>4. Off(wr)' = Off(wr)
    BY <1>6, <1>7, <1>10
  <2>5. Reach(n, size) => Reach(n, size)'
    <3> SUFFICES ASSUME NEW c \in Alloc, n <= Off(c) + size PROVE n <= Off(c)' + size
      BY <1>10 DEF Reach
    <3>1. n \in Nat /\ Off(c) \in Nat
      BY <1>7, <2>1, ChainFacts
    <3>2. Off(c)' \in Nat /\ Off(c) <= Off(c)'
      BY <1>10, <3>1
    <3> QED BY <1>7, <3>1, <3>2
  <2> QED BY <1>1, <1>2, <1>4, <1>10, <2>1, <2>3, <2>4, <2>5 DEF ChainAt, ChainWalk, Off
<1>15. ChainReader(size)'
  <2>1. /\ read_offset' <= Written' /\ Off(hd)' <= read_offset' /\ read_offset' <= Off(hd)' + size
    BY <1>2, <1>6, <1>7, <1>10, <1>11
  <2> QED BY <1>4, <1>10, <2>1 DEF ChainReader, Off
<1>16. ChainCells(size)'
  <2> SUFFICES ASSUME NEW c \in Alloc, NEW j \in 0 .. size - 1 PROVE ChainCell(Off(c) + j, Cell(c, j))'
    BY <1>10 DEF ChainCells
  <2>1. CASE Off(c)' = Off(c) /\ Cell(c, j)' = Cell(c, j)
    <3>1. PICK k, old : k = Off(c) + j /\ old = Cell(c, j)
      OBVIOUS
    <3>2. ChainCell(k, old) /\ k \in Int
      BY <3>1, ChainFacts DEF ChainAt, ChainCells
    <3>3. /\ read_offset = i /\ read_offset' = i + 1 /\ pc[Consumer] = "finish" /\ i \in Nat /\ Written \in Nat
          /\ i < Written
      BY <1>1, <1>2, <1>6, <1>7
    <3>4. ChainCell(k, old)'
      BY <1>4, <1>11, <3>2, <3>3 DEF ChainCell
    <3> QED BY <2>1, <3>1, <3>4
  <2>2. CASE Off(wr) + size <= Off(c)' /\ Off(c)' \in Int /\ Cell(c, j)' = EmptyCell
    <3>1. PICK k \in Int : k = Off(c)' + j
      BY <1>7, <2>2
    <3>2. Written <= k
      BY <1>6, <1>7, <2>2, <3>1
    <3>3. ChainCell(k, EmptyCell)'
      BY <1>2, <1>4, <1>11, <3>1, <3>2, <1>7, <1>6 DEF ChainCell, EmptyCell
    <3> QED BY <2>2, <3>1, <3>3
  <2> QED BY <1>10, <2>1, <2>2
<1> QED BY <1>10, <1>12, <1>13, <1>14, <1>15, <1>16 DEF ChainAt

\* The producer seals the slot after the last item.
LEMMA SealStep ==
  ASSUME NEW size, ChainAt(size), SU!Seal
  PROVE  ChainAt(size)'
<1>1. PICK b, i, e, f, m : /\ b = walk.block /\ i = walk.at /\ e = [flags |-> "closed", data |-> None]
                           /\ f = SU!Elem(b, i).flags /\ m = IF f = "consumer" THEN "idle" ELSE pc[Consumer]
  OBVIOUS
<1>2. /\ pc[Producer] = "seal" /\ pc' = [pc EXCEPT ![Producer] = "idle", ![Consumer] = m]
      /\ blocks' = BL!WithElem(b, i, e)
      /\ walk' = [block |-> None, offset |-> 0, far |-> None, far_offset |-> 0, at |-> 0, end |-> 0, cons |-> FALSE]
      /\ UNCHANGED <<write_offset, read_offset, write_closed_at, heads>>
  BY <1>1, SameChain DEF SU!Seal, SU!NoWalk
<1>3. /\ b \in Alloc /\ Off(b) = StartIn(i, size) /\ i \in Nat /\ i = Written
      /\ f = "consumer" => read_offset = i /\ pc[Consumer] = "parked"
      /\ pc[Consumer] = "parked" => walk.cons \/ f = "consumer"
  BY <1>1, <1>2, ChainFacts, FreeSlot
<1>4. SU!Closed /\ ~walk.cons /\ Written = write_offset /\ write_closed_at = write_offset
  BY <1>2 DEF ChainAt, ChainWriter, Written, Posting
<1>5. m \in PullingLabels /\ m # "parked" /\ (m = "idle" \/ m = pc[Consumer])
  BY <1>1, <1>3, <1>4 DEF ChainAt, ChainTypes, PullingLabels
<1>6. pc'[Producer] = "idle" /\ pc'[Consumer] = m
      /\ pc' \in [{Producer, Consumer} -> PostLabels \cup PullingLabels]
  BY <1>2, <1>5, ChainTurn DEF PostLabels
<1>7. e \in Cells /\ e.data = None /\ e.flags = "closed"
  BY <1>1 DEF Cells
<1>8. /\ Shape(heads.head, size)' /\ Alloc' = Alloc
      /\ \A c \in Alloc : Off(c)' = Off(c)
      /\ \A c \in Alloc : \A j \in 0 .. size - 1 : Cell(c, j)' = IF Off(c) + j = i THEN e ELSE Cell(c, j)
  <2>1. blocks' = BL!WithElem(b, i, e) /\ UNCHANGED heads
    BY <1>2
  <2> QED BY <1>3, <1>7, <2>1, ChainPut
<1>9. Written' = Written /\ SU!Closed'
  BY <1>2, <1>4, <1>6 DEF Written, Posting, SU!Closed
<1>10. ChainTypes'
  <2>1. walk' \in Steps
    BY <1>2 DEF Steps
  <2> QED BY <1>2, <1>5, <1>6, <2>1 DEF ChainAt, ChainTypes, PostLabels
<1>11. PICK wr, h, rd : wr = heads.write /\ h = heads.head /\ rd = heads.read
  OBVIOUS
<1>12. wr \in Alloc /\ h \in Alloc /\ Off(wr)' = Off(wr) /\ Off(h)' = Off(h)
  BY <1>8, <1>11, ChainFacts
<1>13. ChainWriter(size)'
  <2>1. Off(wr) <= Written /\ Written <= Off(wr) + size
    BY <1>11 DEF ChainAt, ChainWriter
  <2>2. Off(wr)' <= Written' /\ Written' <= Off(wr)' + size /\ wr \in Alloc'
    BY <1>8, <1>9, <1>12, <2>1
  <2>3. walk'.cons = FALSE /\ heads'.write = wr /\ write_closed_at' = write_offset'
    BY <1>2, <1>4, <1>11
  <2> QED BY <1>6, <2>2, <2>3 DEF ChainWriter, Off, Posting
<1>14. ChainWalk(size)'
  BY <1>6 DEF ChainWalk
<1>15. ChainReader(size)'
  <2>1. m # "idle" => rd \in Alloc /\ Off(rd)' = Off(rd) /\ Off(rd) = StartIn(read_offset, size)
    BY <1>5, <1>8, <1>11 DEF ChainAt, ChainReader
  <2>2. /\ read_offset <= Written /\ Off(h) <= read_offset /\ read_offset <= Off(h) + size
        /\ m \in {"reading", "finish"} => read_offset < Written
    BY <1>5, <1>11 DEF ChainAt, ChainReader
  <2> QED BY <1>2, <1>5, <1>6, <1>8, <1>9, <1>11, <1>12, <2>1, <2>2 DEF ChainReader, Off
<1>16. ChainCells(size)'
  <2> SUFFICES ASSUME NEW c \in Alloc, NEW j \in 0 .. size - 1 PROVE ChainCell(Off(c) + j, Cell(c, j))'
    BY <1>8 DEF ChainCells
  <2>1. PICK k, old : k = Off(c) + j /\ old = Cell(c, j)
    OBVIOUS
  <2>2. ChainCell(k, old) /\ k \in Int
    BY <2>1, ChainFacts DEF ChainAt, ChainCells
  <2>3. CASE k # i
    <3>1. ChainCell(k, old)'
      BY <1>1, <1>2, <1>3, <1>4, <1>6, <1>9, <2>2, <2>3 DEF ChainCell
    <3>2. Off(c)' + j = k /\ Cell(c, j)' = old
      BY <1>8, <2>1, <2>3
    <3> QED BY <3>1, <3>2
  <2>4. CASE k = i
    <3>1. ChainCell(i, e)'
      BY <1>2, <1>3, <1>7, <1>9 DEF ChainCell
    <3>2. Off(c)' + j = i /\ Cell(c, j)' = e
      BY <1>8, <2>1, <2>4
    <3> QED BY <3>1, <3>2
  <2> QED BY <2>3, <2>4
<1> QED BY <1>8, <1>10, <1>13, <1>14, <1>15, <1>16 DEF ChainAt

\* The destructor finds every item that is left.
LEMMA ChainDestroyStep ==
  ASSUME NEW size, ChainAt(size), SU!Destroy
  PROVE  ChainGone'
<1>1. /\ pc[Producer] = "idle" /\ pc[Consumer] = "idle" /\ SU!Closed
      /\ blocks' = SU!WithoutData(read_offset .. write_closed_at - 1)
      /\ pc' = [th \in DOMAIN pc |-> "gone"]
  BY DEF SU!Destroy
<1>2. SU!WithoutData(read_offset .. write_closed_at - 1) = BL!WithoutData(read_offset .. write_closed_at - 1)
  BY SameChain DEF SU!WithoutData, BL!WithoutData, Alloc
<1>h. PICK h : h = heads.head
  OBVIOUS
<1>3. PICK w \in Nat, r \in Nat : w = write_closed_at /\ r = read_offset
  <2>1. write_closed_at \in Nat
    BY <1>1, ChainFacts DEF ChainAt, ChainWriter
  <2>2. read_offset \in Nat
    BY ChainFacts
  <2> QED BY <2>1, <2>2
<1>4. Written = w
  <2>1. write_closed_at = write_offset
    BY <1>1 DEF ChainAt, ChainWriter
  <2>2. Written = write_offset
    BY <1>1 DEF Written, Posting
  <2> QED BY <1>3, <2>1, <2>2
<1>5. /\ Alloc' = Alloc
      /\ \A c \in Alloc : /\ DOMAIN blocks'[c].values = 0 .. size - 1
                          /\ \A j \in 0 .. size - 1 :
                               Cell(c, j)'.data = IF Off(c) + j \in r .. w - 1 /\ Cell(c, j).flags = "data"
                                                  THEN None ELSE Cell(c, j).data
  <2>1. Shape(h, size) /\ blocks' = BL!WithoutData(r .. w - 1)
    BY <1>1, <1>2, <1>3, <1>h DEF ChainAt
  <2> QED BY <2>1, Emptied
<1>6. ASSUME NEW c \in Alloc, NEW j \in 0 .. size - 1 PROVE Cell(c, j)'.data = None
  <2>1. PICK k, old : k = Off(c) + j /\ old = Cell(c, j)
    OBVIOUS
  <2>2. ChainCell(k, old) /\ k \in Int
    BY <2>1, ChainFacts DEF ChainAt, ChainCells
  <2>3. old.data # None => old.flags = "data" /\ k \in r .. w - 1
    BY <1>1, <1>3, <1>4, <2>2 DEF ChainCell
  <2> QED BY <1>5, <2>1, <2>3
<1>7. pc' = [th \in {Producer, Consumer} |-> "gone"]
  BY <1>1, ChainFacts
<1> QED BY <1>5, <1>6, <1>7 DEF ChainGone
-----------------------------------------------------------------------------
\* Nothing is left in the queue before its first item.
LEMMA ChainInit ==
  ASSUME SU!Init
  PROVE  ChainInv
<1>1. BL!BlocksInit
  BY DEF SU!Init, SU!BlocksInit, BL!BlocksInit, SU!FirstBlock, BL!FirstBlock, SU!NewBlock, BL!NewBlock,
         SU!Unused, BL!Unused
<1>2. PICK f : f = BL!FirstBlock
  OBVIOUS
<1>3. PICK size \in BlockSizes : /\ Shape(f, size) /\ Alloc = {f} /\ Off(f) = 0 /\ f \in BlockIds
                                 /\ \A j \in 0 .. size - 1 : Cell(f, j) = EmptyCell
  BY <1>1, <1>2, Begins
<1>4. /\ write_offset = 0 /\ read_offset = 0 /\ write_closed_at = None
      /\ heads = [write |-> f, head |-> f, read |-> f]
      /\ walk = [block |-> None, offset |-> 0, far |-> None, far_offset |-> 0, at |-> 0, end |-> 0, cons |-> FALSE]
      /\ pc = [th \in {Producer, Consumer} |-> "idle"]
  BY <1>2 DEF SU!Init, SU!NoWalk, SU!FirstBlock, BL!FirstBlock
<1>5. Producer # Consumer /\ size \in Nat \ {0} /\ pc[Producer] = "idle" /\ pc[Consumer] = "idle"
  BY <1>4, ThreadsAssumption, BlocksAssumption
<1>6. ChainTypes
  <2>1. walk \in Steps
    BY <1>4 DEF Steps
  <2>2. pc \in [{Producer, Consumer} -> PostLabels \cup PullingLabels]
    BY <1>4 DEF PostLabels
  <2> QED BY <1>3, <1>4, <1>5, <2>1, <2>2 DEF ChainTypes, PostLabels, PullingLabels
<1>7. Written = 0 /\ ~SU!Closed
  BY <1>4, <1>5 DEF Written, Posting, SU!Closed
<1>8. ChainWriter(size) /\ ChainReader(size)
  BY <1>3, <1>4, <1>5, <1>7 DEF ChainWriter, ChainReader
<1>9. ChainWalk(size)
  BY <1>5 DEF ChainWalk
<1>10. ChainCells(size)
  <2> SUFFICES ASSUME NEW j \in 0 .. size - 1 PROVE ChainCell(0 + j, EmptyCell)
    BY <1>3 DEF ChainCells
  <2> QED BY <1>4, <1>5, <1>7 DEF ChainCell, EmptyCell
<1>11. Shape(heads.head, size)
  BY <1>3, <1>4
<1> QED BY <1>6, <1>8, <1>9, <1>10, <1>11 DEF ChainInv, ChainAt

\* Whatever happens to a queue of this kind keeps what is said of it.
LEMMA ChainNext ==
  ASSUME ChainInv, queue = "spsc_unbounded", [MCNext]_mcVars
  PROVE  ChainInv'
<1>1. CASE UNCHANGED mcVars
  <2>1. UNCHANGED <<blocks, write_offset, read_offset, write_closed_at, heads, walk, pc>>
    BY <1>1 DEF mcVars
  <2>2. Alloc' = Alloc /\ \A c : Off(c)' = Off(c) /\ \A j : Cell(c, j)' = Cell(c, j)
    BY <2>1 DEF Alloc, BL!Allocated, Off, Cell
  <2>3. CASE ChainGone
    <3>1. ChainGone'
      BY <2>1, <2>2, <2>3 DEF ChainGone
    <3> QED BY <3>1 DEF ChainInv
  <2>4. ASSUME NEW size \in BlockSizes, ChainAt(size) PROVE ChainInv'
    <3>1. PICK h : h = heads.head
      OBVIOUS
    <3>2. Shape(h, size)' /\ \A n : Reach(n, size)' = Reach(n, size)
      BY <2>1, <2>4, <3>1, SameBlocks DEF ChainAt
    <3>3. ChainWriter(size)' /\ ChainWalk(size)' /\ Written' = Written /\ SU!Closed' = SU!Closed
      BY <2>1, <2>2, <2>4, <3>2, ChainStill
    <3>4. ChainTypes'
      BY <2>1, <2>4 DEF ChainAt, ChainTypes
    <3>5. ChainReader(size)'
      BY <2>1, <2>2, <2>4, <3>3 DEF ChainAt, ChainReader, Off, Cell
    <3>6. ChainCells(size)'
      BY <2>1, <2>2, <2>4, <3>3 DEF ChainAt, ChainCells, ChainCell
    <3>7. ChainAt(size)'
      BY <2>1, <3>1, <3>2, <3>3, <3>4, <3>5, <3>6 DEF ChainAt
    <3> QED BY <3>7 DEF ChainInv
  <2> QED BY <2>3, <2>4 DEF ChainInv
<1>2. CASE SU!Produce \/ SU!Consume \/ SU!Destroy
  <2>1. CASE ChainGone
    <3>1. pc[Producer] = "gone" /\ pc[Consumer] = "gone"
      BY <2>1 DEF ChainGone
    <3>2. ~(SU!Produce \/ SU!Consume \/ SU!Destroy)
      BY <3>1 DEF SU!Produce, SU!Consume, SU!Destroy, SU!Post, SU!FindBlock, SU!Found, SU!FindEnd, SU!FoundEnd,
                  SU!WriteElement, SU!NextBlock, SU!PostDone, SU!Close, SU!Seal, SU!Ticket, SU!TryPull, SU!Ready,
                  SU!Wait, SU!Read, SU!FinishRead
    <3> QED BY <1>2, <3>2
  <2>2. ASSUME NEW size \in BlockSizes, ChainAt(size) PROVE ChainInv'
    <3>1. CASE SU!Destroy
      BY <2>2, <3>1, ChainDestroyStep DEF ChainInv
    <3>2. CASE SU!Produce
      <4>1. ChainAt(size)'
        BY <2>2, <3>2, PostStep, FindBlockStep, FoundStep, FindEndStep, FoundEndStep, WriteElementStep,
           NextBlockStep, PostDoneStep, ChainCloseStep, SealStep DEF SU!Produce
      <4> QED BY <4>1 DEF ChainInv
    <3>3. CASE SU!Consume
      <4>1. ChainAt(size)'
        BY <2>2, <3>3, TicketStep, LookSteps, WaitStep, ReadStep, FinishReadStep DEF SU!Consume
      <4> QED BY <4>1 DEF ChainInv
    <3> QED BY <1>2, <3>1, <3>2, <3>3
  <2> QED BY <2>1, <2>2 DEF ChainInv
<1>3. MCNext => UNCHANGED mcVars \/ SU!Produce \/ SU!Consume \/ SU!Destroy
  BY DEF MCNext, Produce, Consume, Destroy, Rests
<1> QED BY <1>1, <1>2, <1>3

\* The three properties of this kind of queue.
LEMMA ChainSafe ==
  ASSUME ChainInv
  PROVE  SU!BlocksInPlace /\ SU!SlotsInTurn /\ SU!NothingLeaks
<1>1. CASE ChainGone
  <2>1. pc[Producer] = "gone" /\ pc[Consumer] = "gone"
    BY <1>1 DEF ChainGone
  <2>2. SU!NoDataLeft
    BY <1>1, SameChain DEF ChainGone, SU!NoDataLeft, Cell
  <2> QED BY <2>1, <2>2 DEF SU!BlocksInPlace, SU!SlotsInTurn, SU!NothingLeaks
<1>2. ASSUME NEW size, ChainAt(size) PROVE SU!BlocksInPlace /\ SU!SlotsInTurn /\ SU!NothingLeaks
  <2>1. SU!BlocksInPlace
    BY <1>2 DEF ChainAt, ChainWalk, SU!BlocksInPlace, Off
  <2>2. pc[Producer] = "write" => SU!Elem(walk.block, walk.at).flags \in {"empty", "consumer"}
                                  /\ SU!Elem(walk.block, walk.at).data = None
    <3> SUFFICES ASSUME pc[Producer] = "write"
                 PROVE  SU!Elem(walk.block, walk.at).flags \in {"empty", "consumer"}
                        /\ SU!Elem(walk.block, walk.at).data = None
      OBVIOUS
    <3>1. PICK c, k : c = SU!Elem(walk.block, walk.at) /\ k = walk.at % size
      OBVIOUS
    <3>2. c = Cell(walk.block, k) /\ ChainCell(Written, c) /\ c.data = None /\ walk.block \in Alloc
      BY <1>2, <3>1, FreeSlot
    <3>3. k \in 0 .. size - 1
      BY <1>2, <3>1, ChainSlot
    <3>4. c.flags \in {"empty", "data", "consumer", "closed"}
      BY <1>2, <3>2, <3>3, ChainFacts DEF Cells
    <3>5. ~SU!Closed
      BY <1>2 DEF ChainAt, ChainWriter, Posting
    <3>6. c.flags # "data" /\ c.flags # "closed"
      BY <1>2, <3>2, <3>5, ChainFacts DEF ChainCell
    <3> QED BY <3>1, <3>2, <3>4, <3>6
  <2>3. pc[Consumer] = "reading" => SU!Here.data = SU!Item(read_offset)
    <3> SUFFICES ASSUME pc[Consumer] = "reading" PROVE SU!Here.data = SU!Item(read_offset)
      OBVIOUS
    <3>1. PICK c : c = SU!Here
      OBVIOUS
    <3>2. ChainCell(read_offset, c)
      BY <1>2, <3>1, HereSlot
    <3>3. read_offset < Written /\ read_offset \in Nat
      BY <1>2, ChainFacts DEF ChainAt, ChainReader
    <3> QED BY <3>1, <3>2, <3>3 DEF ChainCell, SU!Item
  <2>4. pc[Consumer] # "gone"
    BY <1>2 DEF ChainAt, ChainTypes, PullingLabels
  <2> QED BY <2>1, <2>2, <2>3, <2>4 DEF SU!SlotsInTurn, SU!NothingLeaks
<1> QED BY <1>1, <1>2 DEF ChainInv

-----------------------------------------------------------------------------
(* qu_mpsc_unbounded.                                                      *)

\* Who has tickets, and who also has a block.
Walking == {"judge", "find", "write", "next"}
Owning == {"ticket", "hint"} \cup Walking
OwnLabels == {"idle", "cutoff"} \cup Owning
Reclaiming == {"start", "reclaim", "reclaimed", "advance", "take_cutoff"}
Pulling == {"wait", "parked", "reading"}
TakeLabels == {"idle"} \cup Pulling \cup Reclaiming
Cutoff == IF write_closed_at = None THEN write_offset ELSE write_closed_at

MaybeBlock == BlockIds \cup {None}
Walks == [block : MaybeBlock, offset : Nat, seen : MaybeBlock, far : MaybeBlock, far_offset : Nat,
          at : Nat, end : Nat]
ListTypes ==
  /\ write_offset \in Nat /\ read_offset \in Nat /\ closed \in BOOLEAN
  /\ write_closed_at \in Nat \cup {None} /\ pushes \in [Producers -> Nat]
  /\ pc \in [Producers \cup {Consumer} -> OwnLabels \cup TakeLabels]
  /\ (\A p \in Producers : pc[p] \in OwnLabels) /\ pc[Consumer] \in TakeLabels
  /\ heads \in [write : BlockIds, hint : BlockIds, read : BlockIds, head : BlockIds, pull : MaybeBlock]
  /\ pending \in [old : MaybeBlock, new : MaybeBlock, cutoff : Nat]
  /\ walks \in [Producers \cup {Consumer} -> Walks]

\* Tickets are taken once, and are used below the cutoff only.
TicketOf(p) ==
  /\ pc[p] = "cutoff" => closed /\ write_closed_at = None
  /\ pc[p] \in Owning =>
       /\ read_offset <= walks[p].at /\ walks[p].at <= walks[p].end
       /\ walks[p].end <= write_offset /\ walks[p].at < write_offset
  /\ pc[p] = "ticket" =>
       walks[p].at < walks[p].end /\ (walks[p].end <= Cutoff \/ Cutoff < walks[p].at)
  /\ pc[p] \in Owning \ {"ticket"} =>
       IF walks[p].at < walks[p].end THEN walks[p].end <= Cutoff ELSE write_closed_at = walks[p].at
  /\ pc[p] \in {"write", "next"} => walks[p].at < walks[p].end
Apart(p, q) ==
  /\ pc[p] = "cutoff" => pc[q] # "cutoff"
  /\ pc[p] \in Owning /\ pc[q] \in Owning =>
       walks[p].end <= walks[q].at \/ walks[q].end <= walks[p].at
ListTickets ==
  /\ write_closed_at # None => closed /\ write_closed_at < write_offset
  /\ read_offset <= Cutoff
  /\ \A p \in Producers : TicketOf(p)
  /\ \A p, q \in Producers : p # q => Apart(p, q)

\* The blocks in which the producers walk and write.
WalkOf(p, size) ==
  /\ pc[p] \in Walking => walks[p].block \in Alloc
  /\ pc[p] \in {"find", "write", "next"} =>
       Off(walks[p].block) = walks[p].offset /\ walks[p].offset <= walks[p].at
  /\ pc[p] = "find" =>
       /\ walks[p].seen \in Alloc /\ walks[p].far \in Alloc /\ Off(walks[p].far) = walks[p].far_offset
       /\ walks[p].offset <= walks[p].far_offset
  /\ pc[p] = "write" => walks[p].offset = StartIn(walks[p].at, size) /\ Reach(walks[p].end, size)
  /\ pc[p] = "next" => walks[p].at = walks[p].offset + size /\ Reach(walks[p].end, size)
ListWalks(size) == \A p \in Producers : WalkOf(p, size)

ListHeads(size) ==
  /\ heads.write \in Alloc /\ heads.hint \in Alloc /\ heads.read \in Alloc
  /\ Off(heads.write) <= read_offset
  /\ Off(heads.read) <= read_offset /\ read_offset <= Off(heads.read) + size
  /\ pc[Consumer] \in Pulling => heads.pull \in Alloc /\ Off(heads.pull) = StartIn(read_offset, size)
  /\ pc[Consumer] = "reading" => Cell(heads.pull, read_offset % size).data # None

\* Once every ticket below the cutoff has been read, nobody is in the blocks before new.
ReclaimOf(p) ==
  pc[p] \in Owning =>
    IF walks[p].at < pending.cutoff THEN walks[p].end <= pending.cutoff
    ELSE pc[p] \in Walking => Off(pending.new) <= Off(walks[p].block)
ListReclaim ==
  /\ pc[Consumer] \in {"advance", "take_cutoff"} => pending.old = None /\ heads.write = heads.read
  /\ pc[Consumer] = "advance" => walks[Consumer].seen \in Alloc /\ Off(walks[Consumer].seen) <= Off(heads.hint)
  /\ pc[Consumer] = "take_cutoff" => Off(heads.read) <= Off(heads.hint)
  /\ pending.old # None =>
       /\ pending.old = heads.head /\ pending.new \in Alloc
       /\ Off(pending.new) <= Off(heads.read)
       /\ Off(pending.new) <= Off(heads.write) /\ Off(pending.new) <= Off(heads.hint)
       /\ pending.cutoff <= write_offset
       /\ \A p \in Producers : ReclaimOf(p)

\* What is in the slot of index i.
Passed(p, i) == pc[p] \in Owning => i < walks[p].at \/ walks[p].end <= i
ListCell(i, cell) ==
  /\ cell.data # None =>
       /\ read_offset <= i /\ i < Cutoff
       /\ \A p \in Producers : Passed(p, i)
       /\ cell.flags = "data" \/ (cell.flags = "consumer" /\ i = read_offset /\ pc[Consumer] = "reading")
  /\ cell.flags = "data" => cell.data # None \/ i < read_offset
  /\ cell.flags = "closed" => i = write_closed_at
  /\ cell.flags = "consumer" => i < read_offset \/ (i = read_offset /\ pc[Consumer] \in {"parked", "reading"})
ListCells(size) == \A b \in Alloc, j \in 0 .. size - 1 : ListCell(Off(b) + j, Cell(b, j))

ListGone ==
  /\ pc = [th \in Producers \cup {Consumer} |-> "gone"]
  /\ \A b \in Alloc : \A j \in DOMAIN blocks[b].values : Cell(b, j).data = None

ListAt(size) ==
  /\ Shape(heads.head, size) /\ ListTypes /\ ListTickets /\ ListWalks(size)
  /\ ListHeads(size) /\ ListReclaim /\ ListCells(size)
ListInv == ListGone \/ \E size \in BlockSizes : ListAt(size)

\* The list of the model is this list.
LEMMA SameList ==
  /\ MU!BlockSize = BL!BlockSize /\ MU!FirstBlock = BL!FirstBlock /\ MU!Allocated = Alloc
  /\ \A i : MU!Start(i) = BL!Start(i)
  /\ \A b, i : MU!Elem(b, i) = Cell(b, i % BL!BlockSize)
  /\ \A b, i, e : MU!WithElem(b, i, e) = BL!WithElem(b, i, e)
  /\ \A b : MU!CanHop(b) = BL!CanHop(b) /\ MU!HopTo(b) = BL!HopTo(b)
  /\ \A b, o : MU!AfterHop(b, o) = BL!AfterHop(b, o)
  /\ \A old, new : MU!Reclaimed(old, new) = BL!Reclaimed(old, new)
<1>1. MU!FirstBlock = BL!FirstBlock /\ MU!Allocated = Alloc /\ BL!Allocated = Alloc
  BY DEF MU!FirstBlock, BL!FirstBlock, MU!Allocated, BL!Allocated, Alloc
<1>2. MU!BlockSize = BL!BlockSize
  BY <1>1 DEF MU!BlockSize, BL!BlockSize, MU!Cardinality, BL!Cardinality
<1>3. MU!Fresh = BL!Fresh
  BY <1>1 DEF MU!Fresh, BL!Fresh
<1>4. \A o, n : MU!NewBlock(o, n) = BL!NewBlock(o, n)
  BY DEF MU!NewBlock, BL!NewBlock
<1>5. \A i : MU!Start(i) = BL!Start(i)
  BY <1>2 DEF MU!Start, BL!Start
<1>6. \A b, i : MU!Elem(b, i) = Cell(b, i % BL!BlockSize)
  BY <1>2 DEF MU!Elem, Cell
<1>7. \A b, i, e : MU!WithElem(b, i, e) = BL!WithElem(b, i, e)
  BY <1>2 DEF MU!WithElem, BL!WithElem
<1>8. \A b : MU!CanHop(b) = BL!CanHop(b) /\ MU!HopTo(b) = BL!HopTo(b)
  BY <1>1, <1>3 DEF MU!CanHop, BL!CanHop, MU!HopTo, BL!HopTo
<1>9. \A b, o : MU!AfterHop(b, o) = BL!AfterHop(b, o)
  BY <1>2, <1>3, <1>4 DEF MU!AfterHop, BL!AfterHop
<1>10. \A old, new : MU!Reclaimed(old, new) = BL!Reclaimed(old, new)
  BY <1>1, <1>2, <1>4 DEF MU!Reclaimed, BL!Reclaimed, MU!Between, BL!Between
<1> QED BY <1>1, <1>2, <1>5, <1>6, <1>7, <1>8, <1>9, <1>10

\* What the invariant says of the types.
LEMMA ListFacts ==
  ASSUME NEW size, ListAt(size)
  PROVE  /\ size \in Nat \ {0} /\ BL!BlockSize = size /\ MU!BlockSize = size
         /\ Consumer \notin Producers /\ DOMAIN pc = Producers \cup {Consumer}
         /\ heads.head \in Alloc /\ heads.write \in Alloc /\ heads.hint \in Alloc /\ heads.read \in Alloc
         /\ heads \in [write : BlockIds, hint : BlockIds, read : BlockIds, head : BlockIds, pull : MaybeBlock]
         /\ \A b \in Alloc : b \in BlockIds /\ b # None /\ Off(b) \in Nat /\ Off(b) \in Int /\ Off(b) % size = 0
         /\ \A b \in Alloc : \A j \in 0 .. size - 1 : Cell(b, j) \in Cells
         /\ write_offset \in Nat /\ read_offset \in Nat /\ Cutoff \in Nat /\ Cutoff <= write_offset /\ read_offset <= Cutoff
         /\ write_closed_at \in Nat \cup {None} /\ pending.cutoff \in Nat
         /\ \A th \in Producers \cup {Consumer} :
              /\ walks[th] \in Walks /\ walks[th].at \in Nat /\ walks[th].end \in Nat /\ walks[th].offset \in Nat
              /\ walks[th].far_offset \in Nat
         /\ \A p \in Producers : p # Consumer /\ pc[p] \in OwnLabels
         /\ pc[Consumer] \in TakeLabels
<1>1. Shape(heads.head, size) /\ heads.head \in Alloc
  BY DEF ListAt, Shape
<1>2. /\ size \in Nat \ {0} /\ BL!BlockSize = size /\ MU!BlockSize = size
      /\ \A b \in Alloc : b \in BlockIds /\ b # None /\ Off(b) \in Nat /\ Off(b) \in Int /\ Off(b) % size = 0
      /\ \A b \in Alloc : \A j \in 0 .. size - 1 : Cell(b, j) \in Cells
  <2>1. PICK h : h = heads.head
    OBVIOUS
  <2>2. Shape(h, size)
    BY <1>1, <2>1
  <2> QED BY <2>2, ShapeFacts, SameList
<1>3. /\ write_offset \in Nat /\ read_offset \in Nat /\ write_closed_at \in Nat \cup {None} /\ pending.cutoff \in Nat
      /\ heads \in [write : BlockIds, hint : BlockIds, read : BlockIds, head : BlockIds, pull : MaybeBlock]
      /\ DOMAIN pc = Producers \cup {Consumer} /\ (\A p \in Producers : pc[p] \in OwnLabels)
      /\ pc[Consumer] \in TakeLabels
      /\ walks \in [Producers \cup {Consumer} -> Walks]
  BY DEF ListAt, ListTypes
<1>4. Cutoff \in Nat /\ Cutoff <= write_offset /\ read_offset <= Cutoff
  BY <1>3 DEF Cutoff, ListAt, ListTickets
<1>5. heads.write \in Alloc /\ heads.hint \in Alloc /\ heads.read \in Alloc
  BY DEF ListAt, ListHeads
<1>6. \A th \in Producers \cup {Consumer} :
        /\ walks[th] \in Walks /\ walks[th].at \in Nat /\ walks[th].end \in Nat /\ walks[th].offset \in Nat
        /\ walks[th].far_offset \in Nat
  BY <1>3 DEF Walks
<1>7. Consumer \notin Producers /\ \A p \in Producers : p # Consumer
  BY ThreadsAssumption
<1> QED BY <1>1, <1>2, <1>3, <1>4, <1>5, <1>6, <1>7

\* An index and its slot.
LEMMA SlotOf ==
  ASSUME NEW size, ListAt(size), NEW b \in Alloc, NEW i \in Nat, Off(b) = StartIn(i, size)
  PROVE  /\ i % size \in 0 .. size - 1 /\ Off(b) + (i % size) = i
         /\ Off(b) <= i /\ i < Off(b) + size
         /\ ListCell(i, Cell(b, i % size)) /\ Cell(b, i % size) \in Cells
         /\ MU!Elem(b, i) = Cell(b, i % size)
         /\ \A c \in Alloc : Off(c) = StartIn(i, size) => c = b
<1>1. size \in Nat \ {0} /\ Off(b) \in Nat /\ BL!BlockSize = size
  BY ListFacts
<1>2. StartIn(i, size) <= i /\ i < StartIn(i, size) + size /\ i % size = i - StartIn(i, size)
  BY <1>1, StartFacts
<1>3. PICK k : k = i % size
  OBVIOUS
<1>4. k \in 0 .. size - 1 /\ Off(b) + k = i /\ Off(b) <= i /\ i < Off(b) + size
  BY <1>1, <1>2, <1>3
<1>5. ListCell(i, Cell(b, k)) /\ Cell(b, k) \in Cells
  <2>1. ListCell(Off(b) + k, Cell(b, k))
    BY <1>4 DEF ListAt, ListCells
  <2> QED BY <1>4, <2>1, ListFacts
<1>6. MU!Elem(b, i) = Cell(b, k)
  BY <1>1, <1>3, SameList
<1>7. \A c \in Alloc : Off(c) = StartIn(i, size) => c = b
  BY DEF ListAt, Shape
<1> QED BY <1>3, <1>4, <1>5, <1>6, <1>7

\* Nothing is taken from the list: what was there stays, and new blocks are empty.
Spread(size) ==
  /\ \A c \in Alloc : c \in Alloc' /\ Off(c)' = Off(c) /\ \A j \in 0 .. size - 1 : Cell(c, j)' = Cell(c, j)
  /\ \A c \in Alloc' \ Alloc : \A j \in 0 .. size - 1 : Cell(c, j)' = EmptyCell
  /\ \A n : Reach(n, size) => Reach(n, size)'

\* One block further nothing is taken from the list.
LEMMA SpreadHop ==
  ASSUME NEW size, ListAt(size), NEW b \in Alloc, BL!CanHop(b), blocks' = BL!AfterHop(b, Off(b)),
         heads'.head = heads.head
  PROVE  /\ Shape(heads.head, size)' /\ Spread(size)
         /\ BL!HopTo(b) \in Alloc' /\ blocks'[BL!HopTo(b)].offset = Off(b) + size /\ BL!HopTo(b) \in BlockIds
<1>1. PICK h : h = heads.head
  OBVIOUS
<1>2. Shape(h, size)
  BY <1>1 DEF ListAt
<1>3. /\ Shape(h, size)'
      /\ \A c \in Alloc : c \in Alloc' /\ Off(c)' = Off(c) /\ \A j \in 0 .. size - 1 : Cell(c, j)' = Cell(c, j)
      /\ \E x \in Alloc' : x = BL!HopTo(b) /\ Off(x)' = Off(b) + size
      /\ \A c \in Alloc' \ Alloc : \A j \in 0 .. size - 1 : Cell(c, j)' = EmptyCell
  BY <1>2, Hop
<1>4. PICK x \in Alloc' : x = BL!HopTo(b) /\ Off(x)' = Off(b) + size
  BY <1>3
<1>5. x \in BlockIds
  BY <1>4 DEF Alloc, BL!Allocated
<1>6. \A n : Reach(n, size) => Reach(n, size)'
  BY <1>3 DEF Reach
<1> QED BY <1>1, <1>3, <1>4, <1>5, <1>6 DEF Off, Spread

\* Nor where the blocks stay as they are.
LEMMA SpreadSame ==
  ASSUME NEW size, ListAt(size), UNCHANGED blocks, heads'.head = heads.head
  PROVE  Shape(heads.head, size)' /\ Spread(size) /\ Alloc' = Alloc
         /\ \A c : Off(c)' = Off(c) /\ \A j : Cell(c, j)' = Cell(c, j)
<1>1. PICK h : h = heads.head
  OBVIOUS
<1>2. /\ Shape(h, size)' /\ Alloc' = Alloc /\ \A n : Reach(n, size)' = Reach(n, size)
      /\ \A c : Off(c)' = Off(c) /\ \A j : Cell(c, j)' = Cell(c, j)
  BY <1>1, SameBlocks DEF ListAt
<1> QED BY <1>1, <1>2 DEF Spread

\* A thread moves, and nobody else.
LEMMA OneMoves ==
  ASSUME NEW size, ListAt(size), NEW th \in Producers \cup {Consumer}, NEW l, NEW w,
         pc' = [pc EXCEPT ![th] = l], walks' = [walks EXCEPT ![th] = w]
  PROVE  /\ pc'[th] = l /\ walks'[th] = w
         /\ \A x \in (Producers \cup {Consumer}) \ {th} : pc'[x] = pc[x] /\ walks'[x] = walks[x]
BY DEF ListAt, ListTypes

\* The blocks keep their places.
Keeps(size) ==
  /\ \A c \in Alloc : c \in Alloc' /\ Off(c)' = Off(c)
  /\ \A n : Reach(n, size) => Reach(n, size)'

\* A walk stays as it is.
LEMMA WalkStays ==
  ASSUME NEW size, ListAt(size), Keeps(size), NEW p \in Producers, pc'[p] = pc[p], walks'[p] = walks[p]
  PROVE  WalkOf(p, size)'
<1>1. WalkOf(p, size)
  BY DEF ListAt, ListWalks
<1>2. PICK b, s, f : b = walks[p].block /\ s = walks[p].seen /\ f = walks[p].far
  OBVIOUS
<1>3. /\ pc[p] \in Walking => b \in Alloc
      /\ pc[p] = "find" => s \in Alloc /\ f \in Alloc
  BY <1>1, <1>2 DEF WalkOf
<1>4. /\ pc[p] \in Walking => b \in Alloc' /\ Off(b)' = Off(b)
      /\ pc[p] = "find" => s \in Alloc' /\ f \in Alloc' /\ Off(f)' = Off(f)
      /\ \A n : Reach(n, size) => Reach(n, size)'
  BY <1>3 DEF Keeps
<1> QED BY <1>1, <1>2, <1>4 DEF WalkOf, Walking, Off

\* A walk stays as it is when the list only grows.
LEMMA WalkKept ==
  ASSUME NEW size, ListAt(size), Spread(size), NEW p \in Producers, pc'[p] = pc[p], walks'[p] = walks[p]
  PROVE  WalkOf(p, size)'
<1>1. Keeps(size)
  BY DEF Spread, Keeps
<1> QED BY <1>1, WalkStays

\* A producer takes a step that writes nothing: all but the tickets.
LEMMA PushRest ==
  ASSUME NEW size, ListAt(size), NEW p \in Producers, NEW l \in OwnLabels, NEW w \in Walks,
         pc' = [pc EXCEPT ![p] = l], walks' = [walks EXCEPT ![p] = w],
         Shape(heads.head, size)', Spread(size), UNCHANGED <<read_offset, pending>>,
         heads' \in [write : BlockIds, hint : BlockIds, read : BlockIds, head : BlockIds, pull : MaybeBlock],
         heads'.write = heads.write, heads'.head = heads.head, heads'.read = heads.read, heads'.pull = heads.pull,
         heads'.hint \in Alloc', Off(heads.hint) <= blocks'[heads'.hint].offset,
         write_offset' \in Nat, write_offset <= write_offset', Cutoff <= Cutoff', Cutoff' \in Nat,
         write_closed_at' \in Nat \cup {None}, write_closed_at = None \/ UNCHANGED write_closed_at,
         closed' \in BOOLEAN, pushes' \in [Producers -> Nat],
         l \in Owning => \/ pc[p] \in Owning /\ walks[p].at <= w.at /\ w.end = walks[p].end
                         \/ Cutoff <= w.at,
         WalkOf(p, size)', pending.old # None => ReclaimOf(p)'
  PROVE  ListTypes' /\ ListWalks(size)' /\ ListHeads(size)' /\ ListReclaim' /\ ListCells(size)'
<1>1. /\ pc'[p] = l /\ walks'[p] = w /\ p # Consumer
      /\ \A x \in (Producers \cup {Consumer}) \ {p} : pc'[x] = pc[x] /\ walks'[x] = walks[x]
  BY OneMoves, ListFacts
<1>2. ListTypes'
  <2>1. /\ pc' \in [Producers \cup {Consumer} -> OwnLabels \cup TakeLabels]
        /\ walks' \in [Producers \cup {Consumer} -> Walks]
        /\ read_offset' \in Nat /\ pending' \in [old : MaybeBlock, new : MaybeBlock, cutoff : Nat]
    BY DEF ListAt, ListTypes
  <2>2. (\A q \in Producers : pc'[q] \in OwnLabels) /\ pc'[Consumer] \in TakeLabels
    BY <1>1, ListFacts
  <2> QED BY <2>1, <2>2 DEF ListTypes
<1>3. ListWalks(size)'
  <2>1. \A q \in Producers \ {p} : WalkOf(q, size)'
    BY <1>1, WalkKept
  <2> QED BY <2>1 DEF ListWalks
<1>4. PICK wr, hi, rd, pu, nw : /\ wr = heads.write /\ hi = heads.hint /\ rd = heads.read /\ pu = heads.pull
                                /\ nw = pending.new
  OBVIOUS
<1>5. /\ wr \in Alloc /\ hi \in Alloc /\ rd \in Alloc
      /\ wr \in Alloc' /\ rd \in Alloc' /\ Off(wr)' = Off(wr) /\ Off(rd)' = Off(rd)
      /\ pc[Consumer] \in Pulling => pu \in Alloc /\ pu \in Alloc' /\ Off(pu)' = Off(pu) /\ Off(pu) = StartIn(read_offset, size)
  <2>1. wr \in Alloc /\ hi \in Alloc /\ rd \in Alloc
    BY <1>4, ListFacts
  <2>2. pc[Consumer] \in Pulling => pu \in Alloc /\ Off(pu) = StartIn(read_offset, size)
    BY <1>4 DEF ListAt, ListHeads
  <2> QED BY <2>1, <2>2 DEF Spread
<1>6. ListHeads(size)'
  <2>1. pc[Consumer] = "reading" => Cell(pu, read_offset % size)'.data # None
    <3> SUFFICES ASSUME pc[Consumer] = "reading" PROVE Cell(pu, read_offset % size)'.data # None
      OBVIOUS
    <3>1. PICK k : k = read_offset % size
      OBVIOUS
    <3>2. Cell(pu, k).data # None /\ pu \in Alloc
      BY <1>4, <1>5, <3>1 DEF ListAt, ListHeads, Pulling
    <3>3. k \in 0 .. size - 1
      BY <1>5, <3>1, <3>2, ListFacts, SlotOf DEF Pulling
    <3>4. Cell(pu, k)' = Cell(pu, k)
      BY <3>2, <3>3 DEF Spread
    <3>5. Cell(pu, read_offset % size)' = Cell(pu, k)'
      BY <3>1
    <3> QED BY <3>2, <3>4, <3>5
  <2>2. Off(wr) <= read_offset /\ Off(rd) <= read_offset /\ read_offset <= Off(rd) + size
    BY <1>4 DEF ListAt, ListHeads
  <2> QED BY <1>1, <1>4, <1>5, <2>1, <2>2 DEF ListHeads, Off, Cell
<1>7. ListReclaim'
  <2>1. /\ pc[Consumer] \in {"advance", "take_cutoff"} => pending.old = None /\ wr = rd
        /\ pc[Consumer] = "advance" => walks[Consumer].seen \in Alloc /\ Off(walks[Consumer].seen) <= Off(hi)
        /\ pc[Consumer] = "take_cutoff" => Off(rd) <= Off(hi)
        /\ pending.old # None =>
             /\ pending.old = heads.head /\ nw \in Alloc /\ Off(nw) <= Off(rd)
             /\ Off(nw) <= Off(wr) /\ Off(nw) <= Off(hi) /\ pending.cutoff <= write_offset
             /\ \A q \in Producers : ReclaimOf(q)
    BY <1>4 DEF ListAt, ListReclaim
  <2>2. PICK se, x : se = walks[Consumer].seen /\ x = heads'.hint
    OBVIOUS
  <2>3. /\ pc[Consumer] = "advance" => se \in Alloc' /\ Off(se)' = Off(se) /\ Off(se) \in Nat
        /\ pending.old # None => nw \in Alloc' /\ Off(nw)' = Off(nw) /\ Off(nw) \in Nat
        /\ Off(hi) \in Nat /\ Off(rd) \in Nat
    BY <1>5, <2>1, <2>2, ListFacts DEF Spread
  <2>4. Off(hi) <= Off(x)' /\ Off(x)' \in Nat
    <3>1. Off(x)' \in Nat
      BY <2>2 DEF Shape, BlockTypes
    <3> QED BY <1>4, <2>2, <3>1 DEF Off
  <2>5. ASSUME pending.old # None, NEW q \in Producers PROVE ReclaimOf(q)'
    <3>1. CASE q = p
      BY <2>5, <3>1
    <3>2. CASE q # p
      <4>1. PICK b : b = walks[q].block
        OBVIOUS
      <4>2. pc[q] \in Walking => b \in Alloc' /\ Off(b)' = Off(b)
        BY <4>1 DEF ListAt, ListWalks, WalkOf, Spread
      <4>3. ReclaimOf(q) /\ pc'[q] = pc[q] /\ walks'[q] = walks[q]
        BY <1>1, <2>1, <2>5, <3>2
      <4>4. Off(nw)' = Off(nw)
        BY <2>3, <2>5
      <4> QED BY <1>4, <4>1, <4>2, <4>3, <4>4 DEF ReclaimOf, Off
    <3> QED BY <3>1, <3>2
  <2>6. pending.old # None => pending.cutoff <= write_offset'
    BY <2>1, ListFacts
  <2>7. /\ pc[Consumer] = "advance" => Off(se)' <= Off(x)'
        /\ pc[Consumer] = "take_cutoff" => Off(rd)' <= Off(x)'
        /\ pending.old # None => Off(nw)' <= Off(x)' /\ Off(nw)' <= Off(rd)' /\ Off(nw)' <= Off(wr)'
    BY <1>5, <2>1, <2>2, <2>3, <2>4
  <2>8. pc'[Consumer] = pc[Consumer] /\ walks'[Consumer] = walks[Consumer]
    BY <1>1
  <2> QED BY <1>4, <2>1, <2>2, <2>3, <2>5, <2>6, <2>7, <2>8 DEF ListReclaim, Off
<1>8. ListCells(size)'
  <2> SUFFICES ASSUME NEW c \in Alloc', NEW j \in 0 .. size - 1 PROVE ListCell(Off(c) + j, Cell(c, j))'
    BY DEF ListCells
  <2>1. CASE c \in Alloc
    <3>1. PICK k, cell : k = Off(c) + j /\ cell = Cell(c, j)
      OBVIOUS
    <3>2. ListCell(k, cell) /\ k \in Nat
      BY <2>1, <3>1, ListFacts DEF ListAt, ListCells
    <3>3. k # None
      BY <3>2, ThreadsAssumption
    <3>4. cell.data # None => \A q \in Producers : Passed(q, k)'
      <4> SUFFICES ASSUME cell.data # None, NEW q \in Producers PROVE Passed(q, k)'
        OBVIOUS
      <4>1. k < Cutoff /\ Passed(q, k)
        BY <3>2 DEF ListCell
      <4>2. CASE q = p
        <5>1. w.at \in Nat /\ w.end \in Nat
          BY DEF Walks
        <5> QED BY <1>1, <3>2, <4>1, <4>2, <5>1, ListFacts DEF Passed
      <4>3. CASE q # p
        BY <1>1, <4>1, <4>3 DEF Passed
      <4> QED BY <4>2, <4>3
    <3>5. k < Cutoff => k < Cutoff'
      BY <3>2, ListFacts
    <3>6. ListCell(k, cell)'
      BY <1>1, <3>2, <3>3, <3>4, <3>5 DEF ListCell
    <3>7. Off(c)' + j = k /\ Cell(c, j)' = cell
      BY <2>1, <3>1 DEF Spread
    <3> QED BY <3>6, <3>7
  <2>2. CASE c \notin Alloc
    <3>1. Cell(c, j)' = EmptyCell
      BY <2>2 DEF Spread
    <3>2. \A k : ListCell(k, EmptyCell)'
      BY DEF ListCell, EmptyCell
    <3> QED BY <3>1, <3>2
  <2> QED BY <2>1, <2>2
<1> QED BY <1>2, <1>3, <1>6, <1>7, <1>8

\* The tickets, when no ticket is taken.
LEMMA TicketsMove ==
  ASSUME NEW size, ListAt(size), NEW p \in Producers, NEW l \in OwnLabels, NEW w \in Walks,
         pc'[p] = l, walks'[p] = w,
         \A x \in Producers \ {p} : pc'[x] = pc[x] /\ walks'[x] = walks[x],
         UNCHANGED <<write_offset, read_offset, closed, write_closed_at>>, l # "cutoff",
         l \in Owning => pc[p] \in Owning /\ walks[p].at <= w.at /\ w.end = walks[p].end,
         TicketOf(p)'
  PROVE  ListTickets'
<1>1. /\ pc'[p] = l /\ walks'[p] = w
      /\ \A x \in Producers \ {p} : pc'[x] = pc[x] /\ walks'[x] = walks[x]
  OBVIOUS
<1>2. Cutoff' = Cutoff
  BY DEF Cutoff
<1>3. \A q \in Producers : TicketOf(q)'
  <2> SUFFICES ASSUME NEW q \in Producers PROVE TicketOf(q)'
    OBVIOUS
  <2>1. CASE q = p
    BY <2>1
  <2>2. CASE q # p
    <3>1. TicketOf(q) /\ pc'[q] = pc[q] /\ walks'[q] = walks[q]
      BY <1>1, <2>2 DEF ListAt, ListTickets
    <3> QED BY <1>2, <3>1 DEF TicketOf
  <2> QED BY <2>1, <2>2
<1>4. ASSUME NEW q \in Producers \ {p} PROVE Apart(p, q)' /\ Apart(q, p)'
  <2>1. Apart(p, q) /\ Apart(q, p) /\ pc'[q] = pc[q] /\ walks'[q] = walks[q]
    BY <1>1, <1>4 DEF ListAt, ListTickets
  <2>2. w.at \in Nat /\ w.end \in Nat
    BY DEF Walks
  <2> QED BY <1>1, <2>1, <2>2, ListFacts DEF Apart
<1>5. ASSUME NEW q \in Producers \ {p}, NEW o \in Producers \ {p}, q # o PROVE Apart(q, o)'
  <2>1. Apart(q, o) /\ pc'[q] = pc[q] /\ walks'[q] = walks[q] /\ pc'[o] = pc[o] /\ walks'[o] = walks[o]
    BY <1>1, <1>5 DEF ListAt, ListTickets
  <2> QED BY <2>1 DEF Apart
<1>6. \A q, o \in Producers : q # o => Apart(q, o)'
  BY <1>4, <1>5
<1> QED BY <1>2, <1>3, <1>6 DEF ListAt, ListTickets

\* The tickets, when a producer takes none.
LEMMA PushTickets ==
  ASSUME NEW size, ListAt(size), NEW p \in Producers, NEW l \in OwnLabels, NEW w \in Walks,
         pc' = [pc EXCEPT ![p] = l], walks' = [walks EXCEPT ![p] = w],
         UNCHANGED <<write_offset, read_offset, closed, write_closed_at>>, l # "cutoff",
         l \in Owning => pc[p] \in Owning /\ walks[p].at <= w.at /\ w.end = walks[p].end,
         TicketOf(p)'
  PROVE  ListTickets'
<1>1. /\ pc'[p] = l /\ walks'[p] = w
      /\ \A x \in (Producers \cup {Consumer}) \ {p} : pc'[x] = pc[x] /\ walks'[x] = walks[x]
  BY OneMoves
<1> QED BY <1>1, TicketsMove

\* fetch_add on write_offset.
LEMMA ListTicketStep ==
  ASSUME NEW size, ListAt(size), NEW p \in Producers, NEW n \in 1 .. MaxBulk, MU!GetTicket(p, n)
  PROVE  ListAt(size)'
<1>1. PICK w : w = [MU!NoWalk EXCEPT !.at = write_offset, !.end = write_offset + n]
  OBVIOUS
<1>2. /\ pc[p] = "idle" /\ pc' = [pc EXCEPT ![p] = "ticket"] /\ walks' = [walks EXCEPT ![p] = w]
      /\ write_offset' = write_offset + n
      /\ UNCHANGED <<blocks, read_offset, closed, write_closed_at, heads, pending, pushes>>
  BY <1>1 DEF MU!GetTicket, MU!Goto
<1>3. n \in Nat /\ n >= 1
  BY BlocksAssumption
<1>4. write_offset \in Nat /\ write_offset' \in Nat /\ write_offset < write_offset'
  BY <1>2, <1>3, ListFacts
<1>5. w \in Walks /\ w.at = write_offset /\ w.end = write_offset'
  BY <1>1, <1>2, <1>4 DEF MU!NoWalk, Walks, MaybeBlock
<1>6. /\ pc'[p] = "ticket" /\ walks'[p] = w
      /\ \A x \in (Producers \cup {Consumer}) \ {p} : pc'[x] = pc[x] /\ walks'[x] = walks[x]
  BY <1>2, OneMoves
<1>7. /\ Cutoff' \in Nat /\ Cutoff <= Cutoff' /\ Cutoff <= write_offset
      /\ IF write_closed_at = None THEN Cutoff' = write_offset' ELSE Cutoff' = Cutoff /\ Cutoff < write_offset
  <2>1. write_closed_at # None => write_closed_at < write_offset
    BY DEF ListAt, ListTickets
  <2> QED BY <1>2, <1>4, <2>1, ListFacts DEF Cutoff
<1>8. Shape(heads.head, size)' /\ Spread(size) /\ Alloc' = Alloc /\ heads' = heads /\ \A c : Off(c)' = Off(c)
  BY <1>2, SpreadSame
<1>9. ListTickets'
  <2>1. TicketOf(p)'
    BY <1>2, <1>4, <1>5, <1>6, <1>7, ListFacts DEF TicketOf, Owning, Walking
  <2>2. ASSUME NEW q \in Producers \ {p} PROVE TicketOf(q)' /\ Apart(p, q)' /\ Apart(q, p)'
    <3>1. TicketOf(q) /\ pc'[q] = pc[q] /\ walks'[q] = walks[q]
      BY <1>6, <2>2 DEF ListAt, ListTickets
    <3>2. TicketOf(q)'
      BY <1>2, <1>4, <1>7, <3>1, ListFacts DEF TicketOf, Owning, Walking
    <3>3. pc[q] \in Owning => walks[q].end <= write_offset
      BY <3>1 DEF TicketOf
    <3> QED BY <1>5, <1>6, <3>1, <3>2, <3>3 DEF Apart
  <2>3. ASSUME NEW q \in Producers \ {p}, NEW o \in Producers \ {p}, q # o PROVE Apart(q, o)'
    <3>1. Apart(q, o) /\ pc'[q] = pc[q] /\ walks'[q] = walks[q] /\ pc'[o] = pc[o] /\ walks'[o] = walks[o]
      BY <1>6, <2>3 DEF ListAt, ListTickets
    <3> QED BY <3>1 DEF Apart
  <2>4. /\ \A q \in Producers : TicketOf(q)'
        /\ \A q, o \in Producers : q # o => Apart(q, o)'
    BY <2>1, <2>2, <2>3
  <2>5. write_closed_at' # None => closed' /\ write_closed_at' < write_offset'
    BY <1>2, <1>4, ListFacts DEF ListAt, ListTickets
  <2>6. read_offset' <= Cutoff'
    BY <1>2, <1>7, ListFacts
  <2> QED BY <2>4, <2>5, <2>6 DEF ListTickets
<1>10. WalkOf(p, size)' /\ (pending.old # None => ReclaimOf(p)')
  <2>1. WalkOf(p, size)'
    BY <1>6 DEF WalkOf, Walking
  <2>2. pending.old # None => ReclaimOf(p)'
    <3>1. pending.old # None => pending.cutoff <= write_offset
      BY DEF ListAt, ListReclaim
    <3> QED BY <1>2, <1>4, <1>5, <1>6, <3>1, ListFacts DEF ReclaimOf, Walking
  <2> QED BY <2>1, <2>2
<1>11. ListTypes' /\ ListWalks(size)' /\ ListHeads(size)' /\ ListReclaim' /\ ListCells(size)'
  <2>1. "ticket" \in OwnLabels
    BY DEF OwnLabels, Owning
  <2>2. Off(heads.hint) <= blocks'[heads'.hint].offset
    BY <1>2, <1>8, ListFacts DEF Off
  <2>3. Cutoff <= w.at
    BY <1>5, <1>7
  <2>4. heads' = heads /\ UNCHANGED <<read_offset, pending, write_closed_at>>
        /\ write_closed_at' \in Nat \cup {None} /\ closed' \in BOOLEAN /\ pushes' \in [Producers -> Nat]
    BY <1>2, ListFacts DEF ListAt, ListTypes
  <2>5. heads'.hint \in Alloc' /\ heads' \in [write : BlockIds, hint : BlockIds, read : BlockIds, head : BlockIds, pull : MaybeBlock]
    BY <1>8, <2>4, ListFacts
  <2>6. write_offset <= write_offset'
    BY <1>4
  <2> QED BY <1>2, <1>4, <1>5, <1>7, <1>8, <1>10, <2>1, <2>2, <2>3, <2>4, <2>5, <2>6, PushRest
<1> QED BY <1>8, <1>9, <1>11 DEF ListAt

\* A producer goes from state to state and writes nothing.
LEMMA PushStep ==
  ASSUME NEW size, ListAt(size), NEW p \in Producers, NEW l \in OwnLabels, NEW w \in Walks,
         pc' = [pc EXCEPT ![p] = l], walks' = [walks EXCEPT ![p] = w],
         Shape(heads.head, size)', Spread(size),
         UNCHANGED <<write_offset, read_offset, closed, write_closed_at, heads, pending, pushes>>, l # "cutoff",
         l \in Owning => pc[p] \in Owning /\ walks[p].at <= w.at /\ w.end = walks[p].end,
         TicketOf(p)', WalkOf(p, size)', pending.old # None => ReclaimOf(p)'
  PROVE  ListAt(size)'
<1>1. ListTickets'
  BY PushTickets
<1>2. Cutoff' = Cutoff
  BY DEF Cutoff
<1>3. PICK hi : hi = heads.hint
  OBVIOUS
<1>4. hi \in Alloc' /\ Off(hi)' = Off(hi) /\ Off(hi) \in Nat
  BY <1>3, ListFacts DEF Spread
<1>5. heads'.hint \in Alloc' /\ Off(heads.hint) <= blocks'[heads'.hint].offset
  BY <1>3, <1>4 DEF Off
<1>6. /\ write_offset' \in Nat /\ write_offset <= write_offset' /\ Cutoff <= Cutoff' /\ Cutoff' \in Nat
      /\ write_closed_at' \in Nat \cup {None} /\ closed' \in BOOLEAN /\ pushes' \in [Producers -> Nat]
      /\ heads' \in [write : BlockIds, hint : BlockIds, read : BlockIds, head : BlockIds, pull : MaybeBlock]
  BY <1>2, ListFacts DEF ListAt, ListTypes
<1>7. ListTypes' /\ ListWalks(size)' /\ ListHeads(size)' /\ ListReclaim' /\ ListCells(size)'
  BY <1>5, <1>6, PushRest
<1> QED BY <1>1, <1>7 DEF ListAt

\* A ticket past the cutoff is refused.
LEMMA ListCheckStep ==
  ASSUME NEW size, ListAt(size), NEW p \in Producers, MU!CheckClosed(p)
  PROVE  ListAt(size)'
<1>1. PICK w, l : l \in {"idle", "hint"} /\
        /\ pc[p] = "ticket" /\ pc' = [pc EXCEPT ![p] = l] /\ walks' = [walks EXCEPT ![p] = w]
        /\ closed => write_closed_at # None
        /\ IF closed /\ write_closed_at <= walks[p].at THEN l = "idle" /\ w = MU!NoWalk ELSE l = "hint" /\ w = walks[p]
        /\ UNCHANGED <<blocks, write_offset, read_offset, closed, write_closed_at, heads, pending, pushes>>
  <2>1. CASE closed /\ write_closed_at <= walks[p].at
    BY <2>1 DEF MU!CheckClosed, MU!Goto
  <2>2. CASE ~(closed /\ write_closed_at <= walks[p].at)
    <3>1. walks' = [walks EXCEPT ![p] = walks[p]]
      BY <2>2 DEF MU!CheckClosed, ListAt, ListTypes
    <3> QED BY <2>2, <3>1 DEF MU!CheckClosed, MU!Goto
  <2> QED BY <2>1, <2>2
<1>2. w \in Walks /\ l \in OwnLabels /\ l # "cutoff"
  BY <1>1, ListFacts DEF MU!NoWalk, Walks, MaybeBlock, OwnLabels, Owning
<1>3. pc'[p] = l /\ walks'[p] = w
  BY <1>1, OneMoves
<1>4. Shape(heads.head, size)' /\ Spread(size)
  BY <1>1, SpreadSame
<1>5. Cutoff' = Cutoff
  BY <1>1 DEF Cutoff
<1>6. pc[p] \in Owning /\ (l = "hint" => w = walks[p]) /\ (l \in Owning => l = "hint")
  BY <1>1 DEF Owning, Walking
<1>7. TicketOf(p)'
  <2>1. TicketOf(p) /\ (write_closed_at # None => closed /\ write_closed_at < write_offset)
    BY DEF ListAt, ListTickets
  <2>2. l = "hint" => walks[p].end <= Cutoff
    <3> SUFFICES ASSUME l = "hint", Cutoff < walks[p].at PROVE FALSE
      BY <1>1, <2>1 DEF TicketOf
    <3>1. ~(closed /\ write_closed_at <= walks[p].at)
      BY <1>1
    <3>2. CASE write_closed_at = None
      <4>1. Cutoff = write_offset /\ walks[p].at < write_offset
        BY <1>6, <2>1, <3>2 DEF Cutoff, TicketOf
      <4> QED BY <4>1, ListFacts
    <3>3. CASE write_closed_at # None
      <4>1. Cutoff = write_closed_at /\ closed
        BY <2>1, <3>3 DEF Cutoff
      <4> QED BY <3>1, <4>1, ListFacts
    <3> QED BY <3>2, <3>3
  <2> QED BY <1>1, <1>3, <1>5, <1>6, <2>1, <2>2 DEF TicketOf, Owning, Walking
<1>8. WalkOf(p, size)'
  BY <1>1, <1>3 DEF WalkOf, Walking
<1>9. pending.old # None => ReclaimOf(p)'
  <2>1. pending.old # None => ReclaimOf(p)
    BY DEF ListAt, ListReclaim
  <2> QED BY <1>1, <1>3, <1>6, <2>1 DEF ReclaimOf, Walking
<1>10. l \in Owning => pc[p] \in Owning /\ walks[p].at <= w.at /\ w.end = walks[p].end
  BY <1>6, ListFacts
<1> QED BY <1>1, <1>2, <1>4, <1>7, <1>8, <1>9, <1>10, PushStep

\* get_mpsc_write_start_block begins with the hint.
LEMMA LoadHintStep ==
  ASSUME NEW size, ListAt(size), NEW p \in Producers, MU!LoadHint(p)
  PROVE  ListAt(size)'
<1>1. PICK w : /\ w = [walks[p] EXCEPT !.block = heads.hint]
               /\ pc[p] = "hint" /\ pc' = [pc EXCEPT ![p] = "judge"] /\ walks' = [walks EXCEPT ![p] = w]
               /\ UNCHANGED <<blocks, write_offset, read_offset, closed, write_closed_at, heads, pending, pushes>>
  BY DEF MU!LoadHint, MU!Goto
<1>2. /\ w \in Walks /\ w.block = heads.hint /\ w.at = walks[p].at /\ w.end = walks[p].end
      /\ "judge" \in OwnLabels /\ heads.hint \in Alloc
  <2>1. heads.hint \in Alloc /\ heads.hint \in MaybeBlock /\ walks[p] \in Walks
    BY ListFacts DEF MaybeBlock
  <2> QED BY <1>1, <2>1 DEF Walks, OwnLabels, Owning, Walking
<1>3. pc'[p] = "judge" /\ walks'[p] = w
  BY <1>1, OneMoves
<1>4. Shape(heads.head, size)' /\ Spread(size) /\ Alloc' = Alloc /\ \A c : Off(c)' = Off(c)
  BY <1>1, SpreadSame
<1>5. Cutoff' = Cutoff
  BY <1>1 DEF Cutoff
<1>6. TicketOf(p)'
  <2>1. TicketOf(p)
    BY DEF ListAt, ListTickets
  <2> QED BY <1>1, <1>2, <1>3, <1>5, <2>1 DEF TicketOf, Owning, Walking
<1>7. WalkOf(p, size)'
  BY <1>2, <1>3, <1>4 DEF WalkOf, Walking
<1>8. pending.old # None => ReclaimOf(p)'
  <2>1. pending.old # None => ReclaimOf(p) /\ Off(pending.new) <= Off(heads.hint)
    BY DEF ListAt, ListReclaim
  <2>2. pc[p] \in Owning
    BY <1>1 DEF Owning
  <2> QED BY <1>1, <1>2, <1>3, <1>4, <2>1, <2>2 DEF ReclaimOf, Off
<1>9. "judge" \in Owning => pc[p] \in Owning /\ walks[p].at <= w.at /\ w.end = walks[p].end
  BY <1>1, <1>2, ListFacts DEF Owning
<1> QED BY <1>1, <1>2, <1>4, <1>6, <1>7, <1>8, <1>9, PushStep

\* It goes on from write_block when the hint is past the ticket.
LEMMA StartBlockStep ==
  ASSUME NEW size, ListAt(size), NEW p \in Producers, MU!StartBlock(p)
  PROVE  ListAt(size)'
<1>1. PICK b : b = IF blocks[walks[p].block].offset <= walks[p].at THEN walks[p].block ELSE heads.write
  OBVIOUS
<1>2. PICK w : /\ w = [walks[p] EXCEPT !.block = b, !.seen = b, !.offset = blocks[b].offset,
                                       !.far = b, !.far_offset = blocks[b].offset]
               /\ pc[p] = "judge" /\ pc' = [pc EXCEPT ![p] = "find"] /\ walks' = [walks EXCEPT ![p] = w]
               /\ UNCHANGED <<blocks, write_offset, read_offset, closed, write_closed_at, heads, pending, pushes>>
  <2>1. PICK w : w = [walks[p] EXCEPT !.block = b, !.seen = b, !.offset = blocks[b].offset,
                                      !.far = b, !.far_offset = blocks[b].offset]
    OBVIOUS
  <2>2. walks' = [walks EXCEPT ![p].block = b, ![p].seen = b, ![p].offset = blocks[b].offset,
                               ![p].far = b, ![p].far_offset = blocks[b].offset]
    BY <1>1 DEF MU!StartBlock
  <2>3. walks[p] \in Walks /\ walks \in [Producers \cup {Consumer} -> Walks]
    BY DEF ListAt, ListTypes
  <2>4. walks' = [walks EXCEPT ![p] = w]
    BY <2>1, <2>2, <2>3 DEF Walks
  <2> QED BY <2>1, <2>4 DEF MU!StartBlock, MU!Goto
<1>3. /\ b \in Alloc /\ Off(b) <= walks[p].at /\ Off(b) \in Nat
      /\ pending.old # None => ReclaimOf(p) /\ Off(pending.new) <= Off(heads.write)
  <2>1. /\ walks[p].block \in Alloc /\ heads.write \in Alloc /\ Off(heads.write) <= read_offset
        /\ pending.old # None => ReclaimOf(p) /\ Off(pending.new) <= Off(heads.write)
    BY <1>2 DEF ListAt, ListWalks, WalkOf, Walking, ListHeads, ListReclaim
  <2>2. read_offset <= walks[p].at
    BY <1>2 DEF ListAt, ListTickets, TicketOf, Owning, Walking
  <2>3. Off(heads.write) <= walks[p].at
    BY <2>1, <2>2, ListFacts
  <2> QED BY <1>1, <2>1, <2>3, ListFacts DEF Off
<1>4. /\ w.block = b /\ w.seen = b /\ w.far = b /\ w.offset = Off(b) /\ w.far_offset = Off(b)
      /\ w.at = walks[p].at /\ w.end = walks[p].end /\ w \in Walks /\ "find" \in OwnLabels
  <2>1. walks[p] \in Walks /\ b \in MaybeBlock /\ blocks[b].offset \in Nat
    BY <1>3, ListFacts DEF MaybeBlock, Off
  <2> QED BY <1>2, <2>1 DEF Walks, OwnLabels, Owning, Walking, Off
<1>5. pc'[p] = "find" /\ walks'[p] = w
  BY <1>2, OneMoves
<1>6. Shape(heads.head, size)' /\ Spread(size) /\ Alloc' = Alloc /\ \A c : Off(c)' = Off(c)
  BY <1>2, SpreadSame
<1>7. TicketOf(p)'
  <2>1. TicketOf(p) /\ Cutoff' = Cutoff
    BY <1>2 DEF ListAt, ListTickets, Cutoff
  <2> QED BY <1>2, <1>4, <1>5, <2>1 DEF TicketOf, Owning, Walking
<1>8. WalkOf(p, size)'
  BY <1>3, <1>4, <1>5, <1>6 DEF WalkOf, Walking, Off
<1>9. pending.old # None => ReclaimOf(p)'
  <2>1. pending.old # None => Off(pending.new) <= Off(b) \/ walks[p].at < pending.cutoff
    <3>1. b = walks[p].block \/ b = heads.write
      BY <1>1
    <3>2. pc[p] \in Owning /\ pc[p] \in Walking
      BY <1>2 DEF Owning, Walking
    <3> QED BY <1>3, <3>1, <3>2, ListFacts DEF ReclaimOf
  <2>2. pending.old # None /\ walks[p].at < pending.cutoff => walks[p].end <= pending.cutoff
    BY <1>2, <1>3 DEF ReclaimOf, Owning, Walking
  <2> QED BY <1>2, <1>4, <1>5, <1>6, <2>1, <2>2 DEF ReclaimOf, Off
<1>10. "find" \in Owning => pc[p] \in Owning /\ walks[p].at <= w.at /\ w.end = walks[p].end
  BY <1>2, <1>4, ListFacts DEF Owning, Walking
<1> QED BY <1>2, <1>4, <1>6, <1>7, <1>8, <1>9, <1>10, PushStep

\* A walk: its block is the one of its offset, and does not pass the ticket.
LEMMA FindFacts ==
  ASSUME NEW size, ListAt(size), NEW p \in Producers, pc[p] = "find"
  PROVE  /\ walks[p].block \in Alloc /\ Off(walks[p].block) = walks[p].offset /\ walks[p].offset <= walks[p].at
         /\ walks[p].seen \in Alloc /\ walks[p].far \in Alloc /\ Off(walks[p].far) = walks[p].far_offset
         /\ walks[p].offset <= walks[p].far_offset /\ walks[p].offset % size = 0 /\ walks[p].far_offset % size = 0
         /\ walks[p].offset \in Nat /\ walks[p].far_offset \in Nat /\ walks[p].at \in Nat /\ walks[p].end \in Nat
         /\ MU!Start(walks[p].at) = StartIn(walks[p].at, size)
         /\ walks[p].at < walks[p].end => MU!Start(walks[p].end - 1) = StartIn(walks[p].end - 1, size)
         /\ pc[p] \in Owning
         /\ MU!Reached(p) <=> walks[p].offset = StartIn(walks[p].at, size)
         /\ TicketOf(p) /\ (pending.old # None => ReclaimOf(p))
<1>1. /\ walks[p].block \in Alloc /\ Off(walks[p].block) = walks[p].offset /\ walks[p].offset <= walks[p].at
      /\ walks[p].seen \in Alloc /\ walks[p].far \in Alloc /\ Off(walks[p].far) = walks[p].far_offset
      /\ walks[p].offset <= walks[p].far_offset
      /\ TicketOf(p) /\ (pending.old # None => ReclaimOf(p))
  BY DEF ListAt, ListWalks, WalkOf, Walking, ListTickets, ListReclaim
<1>2. walks[p].offset % size = 0 /\ walks[p].far_offset % size = 0
  <2>1. Off(walks[p].block) % size = 0 /\ Off(walks[p].far) % size = 0
    BY <1>1, ListFacts
  <2> QED BY <1>1, <2>1
<1>3. \A i : MU!Start(i) = StartIn(i, size)
  BY ListFacts DEF MU!Start, StartIn
<1>4. pc[p] \in Owning
  BY DEF Owning, Walking
<1>5. walks[p].offset \in Nat /\ walks[p].far_offset \in Nat /\ walks[p].at \in Nat /\ walks[p].end \in Nat
  BY ListFacts
<1>6. MU!Reached(p) <=> walks[p].offset = StartIn(walks[p].at, size)
  BY <1>3 DEF MU!Reached
<1> QED BY <1>1, <1>2, <1>3, <1>4, <1>5, <1>6

\* A producer goes one block further.
LEMMA ListFindBlockStep ==
  ASSUME NEW size, ListAt(size), NEW p \in Producers, MU!FindBlock(p)
  PROVE  ListAt(size)'
<1>0. pc[p] = "find"
  BY DEF MU!FindBlock
<1>1. PICK b, h, o : b = walks[p].block /\ h = BL!HopTo(b) /\ o = walks[p].offset + size
  OBVIOUS
<1>2. PICK w : /\ w = [walks[p] EXCEPT !.block = h, !.offset = o, !.far = h, !.far_offset = o]
               /\ ~MU!Reached(p) /\ BL!CanHop(b) /\ blocks' = BL!AfterHop(b, walks[p].offset)
               /\ walks' = [walks EXCEPT ![p] = w] /\ pc' = [pc EXCEPT ![p] = "find"]
               /\ UNCHANGED <<write_offset, read_offset, closed, write_closed_at, heads, pending, pushes>>
  <2>1. PICK w : w = [walks[p] EXCEPT !.block = h, !.offset = o, !.far = h, !.far_offset = o]
    OBVIOUS
  <2>2. MU!HopTo(b) = h /\ MU!CanHop(b) = BL!CanHop(b) /\ MU!BlockSize = size
        /\ MU!AfterHop(b, walks[p].offset) = BL!AfterHop(b, walks[p].offset)
    BY <1>1, ListFacts, SameList
  <2>3. walks' = [walks EXCEPT ![p].block = h, ![p].offset = o, ![p].far = h, ![p].far_offset = o]
    BY <1>1, <2>2 DEF MU!FindBlock
  <2>4. walks[p] \in Walks /\ walks \in [Producers \cup {Consumer} -> Walks]
        /\ pc \in [Producers \cup {Consumer} -> OwnLabels \cup TakeLabels]
    BY DEF ListAt, ListTypes
  <2>5. walks' = [walks EXCEPT ![p] = w]
    BY <2>1, <2>3, <2>4 DEF Walks
  <2>6. pc' = [pc EXCEPT ![p] = "find"]
    BY <1>0, <2>4 DEF MU!FindBlock
  <2> QED BY <1>1, <2>1, <2>2, <2>5, <2>6 DEF MU!FindBlock
<1>3. /\ b \in Alloc /\ Off(b) = walks[p].offset /\ walks[p].offset <= walks[p].at /\ pc[p] \in Owning
      /\ TicketOf(p) /\ (pending.old # None => ReclaimOf(p)) /\ Off(b) \in Nat /\ size \in Nat \ {0}
  BY <1>0, <1>1, FindFacts, ListFacts
<1>4. o <= walks[p].at /\ o \in Nat
  <2>1. PICK a \in Nat, f \in Nat : a = walks[p].at /\ f = walks[p].offset
    BY ListFacts
  <2>2. f % size = 0 /\ f <= a /\ f # StartIn(a, size)
    BY <1>0, <1>2, <2>1, FindFacts
  <2>3. ~(a < f + size)
    BY <1>3, <2>2, StartFacts
  <2> QED BY <1>1, <1>3, <2>1, <2>3
<1>5. /\ Shape(heads.head, size)' /\ Spread(size)
      /\ h \in Alloc' /\ Off(h)' = o /\ h \in BlockIds
  BY <1>1, <1>2, <1>3, SpreadHop DEF Off
<1>6. /\ w.block = h /\ w.seen = walks[p].seen /\ w.far = h /\ w.offset = o /\ w.far_offset = o
      /\ w.at = walks[p].at /\ w.end = walks[p].end /\ w \in Walks /\ "find" \in OwnLabels
  <2>1. walks[p] \in Walks /\ h \in MaybeBlock
    BY <1>5, ListFacts DEF MaybeBlock
  <2> QED BY <1>2, <1>4, <2>1 DEF Walks, OwnLabels, Owning, Walking
<1>7. pc'[p] = "find" /\ walks'[p] = w
  <2>1. pc' = [pc EXCEPT ![p] = "find"] /\ walks' = [walks EXCEPT ![p] = w]
    BY <1>2
  <2> QED BY <2>1, OneMoves
<1>8. TicketOf(p)'
  <2>1. Cutoff' = Cutoff
    BY <1>2 DEF Cutoff
  <2> QED BY <1>0, <1>2, <1>3, <1>6, <1>7, <2>1 DEF TicketOf, Owning, Walking
<1>9. WalkOf(p, size)'
  <2>1. walks[p].seen \in Alloc'
    BY <1>0, <1>5, FindFacts DEF Spread
  <2> QED BY <1>4, <1>5, <1>6, <1>7, <2>1 DEF WalkOf, Walking, Off
<1>10. pending.old # None => ReclaimOf(p)'
  <2>1. PICK nw : nw = pending.new
    OBVIOUS
  <2>2. pending.old # None => nw \in Alloc /\ Off(nw)' = Off(nw) /\ Off(nw) \in Nat
    <3>1. pending.old # None => nw \in Alloc
      BY <2>1 DEF ListAt, ListReclaim
    <3> QED BY <1>5, <3>1, ListFacts DEF Spread
  <2>3. pending.old # None /\ ~(walks[p].at < pending.cutoff) => Off(nw)' <= Off(h)'
    <3>1. pending.old # None /\ ~(walks[p].at < pending.cutoff) => Off(nw) <= Off(b)
      BY <1>0, <1>1, <1>3, <2>1 DEF ReclaimOf, Owning, Walking
    <3>2. Off(b) <= o
      BY <1>1, <1>3
    <3> QED BY <1>3, <1>4, <1>5, <2>2, <3>1, <3>2
  <2> QED BY <1>2, <1>3, <1>6, <1>7, <2>1, <2>3 DEF ReclaimOf, Off
<1>11. "find" \in Owning => pc[p] \in Owning /\ walks[p].at <= w.at /\ w.end = walks[p].end
  BY <1>3, <1>6, ListFacts
<1> QED BY <1>2, <1>5, <1>6, <1>8, <1>9, <1>10, <1>11, PushStep

\* It goes one block further, up to the last one of the batch.
LEMMA ListFindEndStep ==
  ASSUME NEW size, ListAt(size), NEW p \in Producers, MU!FindEnd(p)
  PROVE  ListAt(size)'
<1>0. pc[p] = "find"
  BY DEF MU!FindEnd, MU!Reached
<1>1. PICK b, h, o : b = walks[p].far /\ h = BL!HopTo(b) /\ o = walks[p].far_offset + size
  OBVIOUS
<1>2. PICK w : /\ w = [walks[p] EXCEPT !.far = h, !.far_offset = o]
               /\ BL!CanHop(b) /\ blocks' = BL!AfterHop(b, walks[p].far_offset)
               /\ walks' = [walks EXCEPT ![p] = w] /\ pc' = [pc EXCEPT ![p] = "find"]
               /\ UNCHANGED <<write_offset, read_offset, closed, write_closed_at, heads, pending, pushes>>
  <2>1. PICK w : w = [walks[p] EXCEPT !.far = h, !.far_offset = o]
    OBVIOUS
  <2>2. MU!HopTo(b) = h /\ MU!CanHop(b) = BL!CanHop(b) /\ MU!BlockSize = size
        /\ MU!AfterHop(b, walks[p].far_offset) = BL!AfterHop(b, walks[p].far_offset)
    BY <1>1, ListFacts, SameList
  <2>3. walks[p] \in Walks /\ walks \in [Producers \cup {Consumer} -> Walks]
        /\ pc \in [Producers \cup {Consumer} -> OwnLabels \cup TakeLabels]
    BY DEF ListAt, ListTypes
  <2>4. walks' = [walks EXCEPT ![p].far = h, ![p].far_offset = o]
    <3>1. walks' = [walks EXCEPT ![p].far = MU!HopTo(@), ![p].far_offset = @ + MU!BlockSize]
      BY DEF MU!FindEnd
    <3> QED BY <1>1, <2>2, <2>3, <3>1 DEF Walks
  <2>5. walks' = [walks EXCEPT ![p] = w]
    BY <2>1, <2>3, <2>4 DEF Walks
  <2>6. pc' = [pc EXCEPT ![p] = "find"]
    BY <1>0, <2>3 DEF MU!FindEnd
  <2> QED BY <1>1, <2>1, <2>2, <2>5, <2>6 DEF MU!FindEnd
<1>3. /\ b \in Alloc /\ Off(b) = walks[p].far_offset /\ walks[p].offset <= walks[p].far_offset /\ pc[p] \in Owning
      /\ walks[p].offset \in Nat /\ walks[p].block \in Alloc /\ Off(walks[p].block) = walks[p].offset
      /\ walks[p].offset <= walks[p].at
      /\ TicketOf(p) /\ (pending.old # None => ReclaimOf(p)) /\ Off(b) \in Nat /\ size \in Nat \ {0}
  BY <1>0, <1>1, FindFacts, ListFacts
<1>4. o \in Nat /\ walks[p].offset <= o
  BY <1>1, <1>3
<1>5. /\ Shape(heads.head, size)' /\ Spread(size)
      /\ h \in Alloc' /\ Off(h)' = o /\ h \in BlockIds
  BY <1>1, <1>2, <1>3, SpreadHop DEF Off
<1>6. /\ w.block = walks[p].block /\ w.seen = walks[p].seen /\ w.far = h /\ w.offset = walks[p].offset
      /\ w.far_offset = o
      /\ w.at = walks[p].at /\ w.end = walks[p].end /\ w \in Walks /\ "find" \in OwnLabels
  <2>1. walks[p] \in Walks /\ h \in MaybeBlock
    BY <1>5, ListFacts DEF MaybeBlock
  <2> QED BY <1>2, <1>4, <2>1 DEF Walks, OwnLabels, Owning, Walking
<1>7. pc'[p] = "find" /\ walks'[p] = w
  <2>1. pc' = [pc EXCEPT ![p] = "find"] /\ walks' = [walks EXCEPT ![p] = w]
    BY <1>2
  <2> QED BY <2>1, OneMoves
<1>8. TicketOf(p)'
  <2>1. Cutoff' = Cutoff
    BY <1>2 DEF Cutoff
  <2> QED BY <1>0, <1>2, <1>3, <1>6, <1>7, <2>1 DEF TicketOf, Owning, Walking
<1>9. PICK bl : bl = walks[p].block
  OBVIOUS
<1>10. bl \in Alloc' /\ Off(bl)' = Off(bl)
  BY <1>3, <1>5, <1>9 DEF Spread
<1>11. WalkOf(p, size)'
  <2>1. walks[p].seen \in Alloc'
    BY <1>0, <1>5, FindFacts DEF Spread
  <2> QED BY <1>3, <1>4, <1>5, <1>6, <1>7, <1>9, <1>10, <2>1 DEF WalkOf, Walking, Off
<1>12. pending.old # None => ReclaimOf(p)'
  <2>1. PICK nw : nw = pending.new
    OBVIOUS
  <2>2. pending.old # None => nw \in Alloc /\ Off(nw)' = Off(nw)
    <3>1. pending.old # None => nw \in Alloc
      BY <2>1 DEF ListAt, ListReclaim
    <3> QED BY <1>5, <3>1, ListFacts DEF Spread
  <2>3. pending.old # None /\ ~(walks[p].at < pending.cutoff) => Off(nw) <= Off(bl)
    BY <1>0, <1>3, <1>9, <2>1 DEF ReclaimOf, Owning, Walking
  <2> QED BY <1>2, <1>3, <1>6, <1>7, <1>9, <1>10, <2>1, <2>2, <2>3 DEF ReclaimOf, Off
<1>13. "find" \in Owning => pc[p] \in Owning /\ walks[p].at <= w.at /\ w.end = walks[p].end
  BY <1>3, <1>6, ListFacts
<1> QED BY <1>2, <1>5, <1>6, <1>8, <1>11, <1>12, <1>13, PushStep

\* post_bulk goes on to the next block, which is there as long as there are items to write.
LEMMA ListNextBlockStep ==
  ASSUME NEW size, ListAt(size), NEW p \in Producers, MU!NextBlock(p)
  PROVE  ListAt(size)'
<1>1. PICK b, h, o : b = walks[p].block /\ h = blocks[b].next /\ o = walks[p].offset + size
  OBVIOUS
<1>2. PICK w : /\ w = [walks[p] EXCEPT !.block = h, !.offset = o]
               /\ pc[p] = "next" /\ walks' = [walks EXCEPT ![p] = w] /\ pc' = [pc EXCEPT ![p] = "write"]
               /\ UNCHANGED <<blocks, write_offset, read_offset, closed, write_closed_at, heads, pending, pushes>>
  <2>1. PICK w : w = [walks[p] EXCEPT !.block = h, !.offset = o]
    OBVIOUS
  <2>2. MU!BlockSize = size
    BY ListFacts
  <2>3. walks[p] \in Walks /\ walks \in [Producers \cup {Consumer} -> Walks]
    BY DEF ListAt, ListTypes
  <2>4. walks' = [walks EXCEPT ![p].block = h, ![p].offset = o]
    <3>1. walks' = [walks EXCEPT ![p].block = blocks[@].next, ![p].offset = @ + MU!BlockSize]
      BY DEF MU!NextBlock
    <3> QED BY <1>1, <2>2, <2>3, <3>1 DEF Walks
  <2>5. walks' = [walks EXCEPT ![p] = w]
    BY <2>1, <2>3, <2>4 DEF Walks
  <2> QED BY <2>1, <2>5 DEF MU!NextBlock, MU!Goto
<1>3. /\ b \in Alloc /\ Off(b) = walks[p].offset /\ walks[p].at = walks[p].offset + size
      /\ Reach(walks[p].end, size) /\ TicketOf(p) /\ (pending.old # None => ReclaimOf(p))
      /\ walks[p].at < walks[p].end /\ pc[p] \in Owning
  BY <1>1, <1>2 DEF ListAt, ListWalks, WalkOf, Walking, ListTickets, TicketOf, ListReclaim, Owning
<1>4. size \in Nat \ {0} /\ walks[p].offset \in Nat /\ walks[p].at \in Nat /\ walks[p].end \in Nat /\ o = walks[p].at
  BY <1>1, <1>3, ListFacts
<1>5. h \in Alloc /\ Off(h) = o /\ h \in BlockIds
  <2>1. PICK a \in Alloc : walks[p].end <= Off(a) + size
    BY <1>3 DEF Reach
  <2>2. Off(b) < Off(a)
    BY <1>3, <1>4, <2>1, ListFacts
  <2>3. /\ h # None => h \in Alloc /\ Off(h) = Off(b) + size
        /\ h = None => Off(a) <= Off(b)
    BY <1>1, <1>3 DEF ListAt, Shape, Linked
  <2> QED BY <1>1, <1>3, <2>2, <2>3, ListFacts
<1>6. /\ w.block = h /\ w.offset = o /\ w.at = walks[p].at /\ w.end = walks[p].end /\ w \in Walks
      /\ "write" \in OwnLabels
  <2>1. walks[p] \in Walks /\ h \in MaybeBlock /\ o \in Nat
    BY <1>4, <1>5, ListFacts DEF MaybeBlock
  <2> QED BY <1>2, <2>1 DEF Walks, OwnLabels, Owning, Walking
<1>7. pc'[p] = "write" /\ walks'[p] = w
  <2>1. pc' = [pc EXCEPT ![p] = "write"] /\ walks' = [walks EXCEPT ![p] = w]
    BY <1>2
  <2> QED BY <2>1, OneMoves
<1>8. Shape(heads.head, size)' /\ Spread(size) /\ Alloc' = Alloc /\ \A c : Off(c)' = Off(c)
  BY <1>2, SpreadSame
<1>9. TicketOf(p)'
  <2>1. Cutoff' = Cutoff
    BY <1>2 DEF Cutoff
  <2> QED BY <1>2, <1>3, <1>6, <1>7, <2>1 DEF TicketOf, Owning, Walking
<1>10. WalkOf(p, size)'
  <2>1. o = StartIn(o, size)
    <3>1. o % size = 0
      <4>1. Off(h) % size = 0
        BY <1>5, ListFacts
      <4> QED BY <1>5, <4>1
    <3>2. o <= o /\ o < o + size /\ o \in Nat
      BY <1>4
    <3> QED BY <1>4, <3>1, <3>2, StartFacts
  <2>2. Reach(walks[p].end, size)'
    BY <1>3, <1>6, <1>7, <1>8 DEF Reach
  <2>3. StartIn(walks'[p].at, size) = o /\ walks'[p].offset = o /\ walks'[p].block = h /\ o <= walks'[p].at
    BY <1>4, <1>6, <1>7, <2>1
  <2> QED BY <1>5, <1>7, <1>8, <2>2, <2>3 DEF WalkOf, Walking, Off
<1>11. pending.old # None => ReclaimOf(p)'
  <2>1. pending.old # None => pending.new \in Alloc
    BY DEF ListAt, ListReclaim
  <2>2. pending.old # None /\ ~(walks[p].at < pending.cutoff) => Off(pending.new) <= Off(b)
    BY <1>1, <1>2, <1>3 DEF ReclaimOf, Owning, Walking
  <2>3. pending.old # None /\ ~(walks[p].at < pending.cutoff) => Off(pending.new) <= Off(h)
    <3>1. Off(b) <= Off(h) /\ Off(b) \in Nat /\ Off(h) \in Nat
      BY <1>3, <1>4, <1>5
    <3> QED BY <2>1, <2>2, <3>1, ListFacts
  <2> QED BY <1>2, <1>3, <1>6, <1>7, <1>8, <2>3 DEF ReclaimOf, Off
<1>12. "write" \in Owning => pc[p] \in Owning /\ walks[p].at <= w.at /\ w.end = walks[p].end
  BY <1>3, <1>4, <1>6
<1> QED BY <1>2, <1>6, <1>8, <1>9, <1>10, <1>11, <1>12, PushStep

\* The hint moves forward, or has done so already.
LEMMA AdvanceHintStep ==
  ASSUME NEW size, ListAt(size), NEW p \in Producers, MU!AdvanceHint(p)
  PROVE  ListAt(size)'
<1>0. pc[p] = "find"
  BY DEF MU!AdvanceHint, MU!AllReached, MU!Reached
<1>1. PICK s, f, hi : s = walks[p].seen /\ f = walks[p].far /\ hi = heads.hint
  OBVIOUS
<1>2. /\ s \in Alloc /\ f \in Alloc /\ hi \in Alloc /\ walks[p].block \in Alloc
      /\ Off(s) \in Nat /\ Off(f) \in Nat /\ Off(hi) \in Nat /\ Off(walks[p].block) = walks[p].offset
      /\ walks[p].offset <= walks[p].at /\ Off(f) = walks[p].far_offset /\ walks[p].offset <= walks[p].far_offset
      /\ TicketOf(p) /\ (pending.old # None => ReclaimOf(p)) /\ pc[p] \in Owning
      /\ walks[p].at < walks[p].end /\ walks[p].offset = StartIn(walks[p].at, size)
      /\ walks[p].far_offset = StartIn(walks[p].end - 1, size)
      /\ UNCHANGED <<blocks, write_offset, read_offset, closed, write_closed_at, pending, pushes>>
  BY <1>0, <1>1, FindFacts, ListFacts DEF MU!AdvanceHint, MU!AllReached
<1>3. MU!Advance(p, s, f, "write")
  BY <1>1 DEF MU!AdvanceHint
<1>4. Cutoff' = Cutoff
  BY <1>2 DEF Cutoff
<1>5. CASE ~(Off(s) >= Off(f) \/ hi = s)
  <2>1. PICK w : w = [walks[p] EXCEPT !.seen = hi]
    OBVIOUS
  <2>2. /\ walks' = [walks EXCEPT ![p] = w] /\ pc' = [pc EXCEPT ![p] = "find"] /\ heads' = heads
    <3>1. walks' = [walks EXCEPT ![p].seen = hi] /\ pc' = pc /\ heads' = heads
      BY <1>1, <1>3, <1>5 DEF MU!Advance, Off
    <3>2. walks \in [Producers \cup {Consumer} -> Walks] /\ pc \in [Producers \cup {Consumer} -> OwnLabels \cup TakeLabels]
      BY DEF ListAt, ListTypes
    <3> QED BY <1>0, <2>1, <3>1, <3>2
  <2>3. /\ w.block = walks[p].block /\ w.seen = hi /\ w.far = f /\ w.offset = walks[p].offset
        /\ w.far_offset = walks[p].far_offset /\ w.at = walks[p].at /\ w.end = walks[p].end /\ w \in Walks
        /\ "find" \in OwnLabels
    <3>1. walks[p] \in Walks /\ hi \in MaybeBlock
      BY <1>2, ListFacts DEF MaybeBlock
    <3> QED BY <1>1, <2>1, <3>1 DEF Walks, OwnLabels, Owning, Walking
  <2>4. pc'[p] = "find" /\ walks'[p] = w
    <3>1. pc' = [pc EXCEPT ![p] = "find"] /\ walks' = [walks EXCEPT ![p] = w]
      BY <2>2
    <3> QED BY <3>1, OneMoves
  <2>5. Shape(heads.head, size)' /\ Spread(size) /\ Alloc' = Alloc /\ \A c : Off(c)' = Off(c)
    BY <1>2, <2>2, SpreadSame
  <2>6. TicketOf(p)'
    BY <1>0, <1>2, <1>4, <2>3, <2>4 DEF TicketOf, Owning, Walking
  <2>7. WalkOf(p, size)'
    BY <1>2, <2>3, <2>4, <2>5 DEF WalkOf, Walking, Off
  <2>8. pending.old # None => ReclaimOf(p)'
    BY <1>0, <1>2, <2>3, <2>4, <2>5 DEF ReclaimOf, Walking, Off
  <2>9. "find" \in Owning => pc[p] \in Owning /\ walks[p].at <= w.at /\ w.end = walks[p].end
    BY <1>2, <2>3, ListFacts
  <2> QED BY <1>2, <2>2, <2>3, <2>5, <2>6, <2>7, <2>8, <2>9, PushStep
<1>6. CASE Off(s) >= Off(f) \/ hi = s
  <2>1. PICK w : w = [walks[p] EXCEPT !.seen = None, !.far = None, !.far_offset = 0]
    OBVIOUS
  <2>2. /\ walks' = [walks EXCEPT ![p] = w] /\ pc' = [pc EXCEPT ![p] = "write"]
        /\ heads' = IF Off(s) < Off(f) THEN [heads EXCEPT !.hint = f] ELSE heads
    <3>1. /\ walks' = [walks EXCEPT ![p].seen = None, ![p].far = None, ![p].far_offset = 0]
          /\ pc' = [pc EXCEPT ![p] = "write"]
          /\ heads' = IF Off(s) < Off(f) THEN [heads EXCEPT !.hint = f] ELSE heads
      BY <1>1, <1>3, <1>6 DEF MU!Advance, MU!Goto, Off
    <3>2. walks \in [Producers \cup {Consumer} -> Walks] /\ walks[p] \in Walks
      BY DEF ListAt, ListTypes
    <3>3. walks' = [walks EXCEPT ![p] = w]
      BY <2>1, <3>1, <3>2 DEF Walks
    <3> QED BY <3>1, <3>3
  <2>3. /\ w.block = walks[p].block /\ w.offset = walks[p].offset
        /\ w.at = walks[p].at /\ w.end = walks[p].end /\ w \in Walks
        /\ "write" \in OwnLabels
    <3>1. walks[p] \in Walks
      BY ListFacts
    <3> QED BY <1>1, <2>1, <3>1 DEF Walks, OwnLabels, Owning, Walking, MaybeBlock
  <2>4. pc'[p] = "write" /\ walks'[p] = w
    <3>1. pc' = [pc EXCEPT ![p] = "write"] /\ walks' = [walks EXCEPT ![p] = w]
      BY <2>2
    <3> QED BY <3>1, OneMoves
  <2>5. PICK x : x = heads'.hint
    OBVIOUS
  <2>6. /\ heads' \in [write : BlockIds, hint : BlockIds, read : BlockIds, head : BlockIds, pull : MaybeBlock]
        /\ heads'.write = heads.write /\ heads'.head = heads.head /\ heads'.read = heads.read
        /\ heads'.pull = heads.pull /\ x \in Alloc /\ Off(hi) <= Off(x)
    <3>1. f \in BlockIds /\ heads \in [write : BlockIds, hint : BlockIds, read : BlockIds, head : BlockIds, pull : MaybeBlock]
      BY <1>2, ListFacts
    <3>2. CASE Off(s) < Off(f)
      <4>1. heads' = [heads EXCEPT !.hint = f] /\ hi = s
        BY <1>2, <1>6, <2>2, <3>2
      <4>2. x = f
        BY <2>5, <3>1, <4>1
      <4> QED BY <1>2, <3>1, <3>2, <4>1, <4>2
    <3>3. CASE ~(Off(s) < Off(f))
      <4>1. heads' = heads /\ x = hi
        BY <1>1, <2>2, <2>5, <3>3
      <4> QED BY <1>2, <3>1, <4>1
    <3> QED BY <3>2, <3>3
  <2>7. Shape(heads.head, size)' /\ Spread(size) /\ Alloc' = Alloc /\ \A c : Off(c)' = Off(c)
    BY <1>2, <2>6, SpreadSame
  <2>8. TicketOf(p)'
    BY <1>0, <1>2, <1>4, <2>3, <2>4 DEF TicketOf, Owning, Walking
  <2>9. Reach(walks[p].end, size)
    <3>1. PICK e \in Nat : e = walks[p].end
      BY ListFacts
    <3>2. PICK k \in Nat : k = e - 1
      BY <1>2, <3>1, ListFacts
    <3>3. Off(f) = StartIn(k, size)
      BY <1>2, <3>1, <3>2
    <3>4. k < Off(f) + size
      BY <3>3, ListFacts, StartFacts
    <3>5. e <= Off(f) + size
      BY <1>2, <3>2, <3>4, ListFacts
    <3> QED BY <1>2, <3>1, <3>5 DEF Reach
  <2>10. WalkOf(p, size)'
    <3>1. Reach(walks[p].end, size)'
      BY <2>3, <2>4, <2>7, <2>9 DEF Reach
    <3> QED BY <1>2, <2>3, <2>4, <2>7, <3>1 DEF WalkOf, Walking, Off
  <2>11. pending.old # None => ReclaimOf(p)'
    BY <1>0, <1>2, <2>3, <2>4, <2>7 DEF ReclaimOf, Walking, Off
  <2>12. /\ "write" \in Owning => pc[p] \in Owning /\ walks[p].at <= w.at /\ w.end = walks[p].end
         /\ "write" # "cutoff"
    BY <1>2, <2>3, ListFacts
  <2>13. ListTickets'
    BY <1>2, <2>2, <2>3, <2>8, <2>12, PushTickets
  <2>14. heads'.hint \in Alloc' /\ Off(heads.hint) <= blocks'[heads'.hint].offset
    BY <1>1, <1>2, <2>5, <2>6, <2>7 DEF Off
  <2>15. /\ write_offset' \in Nat /\ write_offset <= write_offset' /\ Cutoff <= Cutoff' /\ Cutoff' \in Nat
         /\ write_closed_at' \in Nat \cup {None} /\ closed' \in BOOLEAN /\ pushes' \in [Producers -> Nat]
         /\ UNCHANGED write_closed_at
    BY <1>2, <1>4, ListFacts DEF ListAt, ListTypes
  <2>16. ListTypes' /\ ListWalks(size)' /\ ListHeads(size)' /\ ListReclaim' /\ ListCells(size)'
    BY <1>2, <2>2, <2>3, <2>6, <2>7, <2>10, <2>11, <2>12, <2>14, <2>15, PushRest
  <2> QED BY <2>7, <2>13, <2>16 DEF ListAt
<1> QED BY <1>5, <1>6

\* close begins: whoever sees the flag waits for the cutoff.
LEMMA ListFlagStep ==
  ASSUME NEW size, ListAt(size), NEW p \in Producers, MU!CloseFlag(p)
  PROVE  ListAt(size)'
<1>1. PICK w : w = walks[p]
  OBVIOUS
<1>2. /\ pc[p] = "idle" /\ ~closed /\ closed' = TRUE
      /\ pc' = [pc EXCEPT ![p] = "cutoff"] /\ walks' = [walks EXCEPT ![p] = w]
      /\ UNCHANGED <<blocks, write_offset, read_offset, write_closed_at, heads, pending, pushes>>
  <2>1. walks \in [Producers \cup {Consumer} -> Walks]
    BY DEF ListAt, ListTypes
  <2> QED BY <1>1, <2>1 DEF MU!CloseFlag, MU!Goto
<1>3. w \in Walks /\ "cutoff" \in OwnLabels /\ "cutoff" \notin Owning
  BY <1>1, ListFacts DEF OwnLabels, Owning, Walking
<1>4. /\ pc'[p] = "cutoff" /\ walks'[p] = w
      /\ \A x \in (Producers \cup {Consumer}) \ {p} : pc'[x] = pc[x] /\ walks'[x] = walks[x]
  BY <1>2, OneMoves
<1>5. Shape(heads.head, size)' /\ Spread(size) /\ Alloc' = Alloc /\ heads' = heads /\ \A c : Off(c)' = Off(c)
  BY <1>2, SpreadSame
<1>6. Cutoff' = Cutoff /\ write_closed_at = None
  BY <1>2 DEF Cutoff, ListAt, ListTickets
<1>7. ListTickets'
  <2>1. ASSUME NEW q \in Producers PROVE TicketOf(q)' /\ pc[q] # "cutoff"
    <3>1. TicketOf(q)
      BY DEF ListAt, ListTickets
    <3>2. pc[q] # "cutoff"
      BY <1>2, <3>1 DEF TicketOf
    <3>3. CASE q = p
      BY <1>2, <1>3, <1>4, <1>6, <3>3 DEF TicketOf, Owning, Walking
    <3>4. CASE q # p
      BY <1>2, <1>4, <1>6, <3>1, <3>4 DEF TicketOf
    <3> QED BY <3>2, <3>3, <3>4
  <2>2. ASSUME NEW q \in Producers, NEW o \in Producers, q # o PROVE Apart(q, o)'
    <3>1. Apart(q, o)
      BY <2>2 DEF ListAt, ListTickets
    <3>2. CASE q = p
      <4>1. pc'[o] = pc[o]
        BY <1>4, <2>2, <3>2
      <4> QED BY <1>3, <1>4, <2>1, <3>2, <4>1 DEF Apart
    <3>3. CASE o = p
      <4>1. pc'[q] = pc[q]
        BY <1>4, <2>2, <3>3
      <4> QED BY <1>3, <1>4, <2>1, <3>3, <4>1 DEF Apart
    <3>4. CASE q # p /\ o # p
      BY <1>4, <3>1, <3>4 DEF Apart
    <3> QED BY <3>2, <3>3, <3>4
  <2> QED BY <1>2, <1>6, <2>1, <2>2 DEF ListTickets, ListAt
<1>8. WalkOf(p, size)' /\ ReclaimOf(p)'
  BY <1>3, <1>4 DEF WalkOf, ReclaimOf, Walking
<1>9. heads'.hint \in Alloc' /\ Off(heads.hint) <= blocks'[heads'.hint].offset
  BY <1>2, <1>5, ListFacts DEF Off
<1>10. /\ write_offset' \in Nat /\ write_offset <= write_offset' /\ Cutoff <= Cutoff' /\ Cutoff' \in Nat
       /\ write_closed_at' \in Nat \cup {None} /\ closed' \in BOOLEAN /\ pushes' \in [Producers -> Nat]
       /\ heads' \in [write : BlockIds, hint : BlockIds, read : BlockIds, head : BlockIds, pull : MaybeBlock]
  BY <1>2, <1>6, ListFacts DEF ListAt, ListTypes
<1>11. ListTypes' /\ ListWalks(size)' /\ ListHeads(size)' /\ ListReclaim' /\ ListCells(size)'
  BY <1>2, <1>3, <1>5, <1>6, <1>8, <1>9, <1>10, PushRest
<1> QED BY <1>5, <1>7, <1>11 DEF ListAt

\* The cutoff is a ticket of its own, with no item.
LEMMA ListCutoffStep ==
  ASSUME NEW size, ListAt(size), NEW p \in Producers, MU!CloseCutoff(p)
  PROVE  ListAt(size)'
<1>1. PICK w : w = [MU!NoWalk EXCEPT !.at = write_offset, !.end = write_offset]
  OBVIOUS
<1>2. /\ pc[p] = "cutoff" /\ pc' = [pc EXCEPT ![p] = "hint"] /\ walks' = [walks EXCEPT ![p] = w]
      /\ write_closed_at' = write_offset /\ write_offset' = write_offset + 1
      /\ UNCHANGED <<blocks, read_offset, closed, heads, pending, pushes>>
  BY <1>1 DEF MU!CloseCutoff, MU!Goto
<1>3. write_offset \in Nat /\ write_offset' \in Nat /\ write_offset < write_offset' /\ write_offset # None
  BY <1>2, ListFacts, ThreadsAssumption
<1>4. w \in Walks /\ w.at = write_offset /\ w.end = write_offset /\ "hint" \in OwnLabels
  BY <1>1, <1>3 DEF MU!NoWalk, Walks, MaybeBlock, OwnLabels, Owning
<1>5. /\ pc'[p] = "hint" /\ walks'[p] = w
      /\ \A x \in (Producers \cup {Consumer}) \ {p} : pc'[x] = pc[x] /\ walks'[x] = walks[x]
  BY <1>2, OneMoves
<1>6. TicketOf(p) /\ closed /\ write_closed_at = None
  BY <1>2 DEF ListAt, ListTickets, TicketOf
<1>7. Cutoff' = write_offset /\ Cutoff = write_offset /\ Cutoff' \in Nat
  BY <1>2, <1>3, <1>6 DEF Cutoff
<1>8. Shape(heads.head, size)' /\ Spread(size) /\ Alloc' = Alloc /\ heads' = heads /\ \A c : Off(c)' = Off(c)
  BY <1>2, SpreadSame
<1>9. ListTickets'
  <2>1. TicketOf(p)'
    BY <1>2, <1>3, <1>4, <1>5, <1>7, ListFacts DEF TicketOf, Owning, Walking
  <2>2. ASSUME NEW q \in Producers \ {p} PROVE TicketOf(q)' /\ Apart(p, q)' /\ Apart(q, p)'
    <3>1. /\ TicketOf(q) /\ pc'[q] = pc[q] /\ walks'[q] = walks[q] /\ pc[q] # "cutoff"
          /\ walks[q].at \in Nat /\ walks[q].end \in Nat
      <4>1. TicketOf(q) /\ Apart(p, q)
        BY <2>2 DEF ListAt, ListTickets
      <4>2. pc[q] # "cutoff"
        BY <1>2, <4>1 DEF Apart
      <4>3. walks[q].at \in Nat /\ walks[q].end \in Nat
        BY ListFacts
      <4> QED BY <1>5, <4>1, <4>2, <4>3
    <3>2. pc[q] \in Owning \ {"ticket"} => walks[q].at < walks[q].end
      BY <1>6, <3>1, ThreadsAssumption DEF TicketOf, Owning, Walking
    <3>3. pc[q] \in Owning => walks[q].end <= write_offset
      BY <3>1 DEF TicketOf
    <3>4. TicketOf(q)'
      BY <1>2, <1>3, <1>7, <3>1, <3>2, <3>3, ListFacts DEF TicketOf
    <3> QED BY <1>4, <1>5, <3>1, <3>3, <3>4 DEF Apart
  <2>3. ASSUME NEW q \in Producers \ {p}, NEW o \in Producers \ {p}, q # o PROVE Apart(q, o)'
    <3>1. Apart(q, o) /\ pc'[q] = pc[q] /\ walks'[q] = walks[q] /\ pc'[o] = pc[o] /\ walks'[o] = walks[o]
      BY <1>5, <2>3 DEF ListAt, ListTickets
    <3> QED BY <3>1 DEF Apart
  <2>4. /\ \A q \in Producers : TicketOf(q)'
        /\ \A q, o \in Producers : q # o => Apart(q, o)'
    BY <2>1, <2>2, <2>3
  <2>5. write_closed_at' # None => closed' /\ write_closed_at' < write_offset'
    BY <1>2, <1>3, <1>6
  <2>6. read_offset' <= Cutoff'
    BY <1>2, <1>7, ListFacts
  <2> QED BY <2>4, <2>5, <2>6 DEF ListTickets
<1>10. WalkOf(p, size)' /\ (pending.old # None => ReclaimOf(p)')
  <2>1. WalkOf(p, size)'
    BY <1>5 DEF WalkOf, Walking
  <2>2. pending.old # None => ReclaimOf(p)'
    <3>1. pending.old # None => pending.cutoff <= write_offset
      BY DEF ListAt, ListReclaim
    <3> QED BY <1>2, <1>4, <1>5, <3>1, ListFacts DEF ReclaimOf, Walking
  <2> QED BY <2>1, <2>2
<1>11. ListTypes' /\ ListWalks(size)' /\ ListHeads(size)' /\ ListReclaim' /\ ListCells(size)'
  <2>1. Off(heads.hint) <= blocks'[heads'.hint].offset
    BY <1>2, <1>8, ListFacts DEF Off
  <2>2. Cutoff <= w.at /\ Cutoff <= Cutoff'
    BY <1>3, <1>4, <1>7
  <2>3. heads' = heads /\ UNCHANGED <<read_offset, pending>> /\ write_closed_at = None
        /\ write_closed_at' \in Nat \cup {None} /\ closed' \in BOOLEAN /\ pushes' \in [Producers -> Nat]
    BY <1>2, <1>3, <1>6, ListFacts DEF ListAt, ListTypes
  <2>4. heads'.hint \in Alloc' /\ heads' \in [write : BlockIds, hint : BlockIds, read : BlockIds, head : BlockIds, pull : MaybeBlock]
    BY <1>8, <2>3, ListFacts
  <2>5. write_offset <= write_offset'
    BY <1>3
  <2> QED BY <1>2, <1>3, <1>4, <1>7, <1>8, <1>10, <2>1, <2>2, <2>3, <2>4, <2>5, PushRest
<1> QED BY <1>8, <1>9, <1>11 DEF ListAt

\* A slot is written, and the list stays.
Puts(size, i, e) ==
  /\ Shape(heads.head, size)' /\ Alloc' = Alloc /\ \A n : Reach(n, size)' = Reach(n, size)
  /\ \A c \in Alloc : Off(c)' = Off(c)
  /\ \A c \in Alloc : \A j \in 0 .. size - 1 : Cell(c, j)' = IF Off(c) + j = i THEN e ELSE Cell(c, j)

\* The model writes a slot like that.
LEMMA ListPut ==
  ASSUME NEW size, ListAt(size), NEW b \in Alloc, NEW i \in Nat, Off(b) = StartIn(i, size), NEW e \in Cells,
         blocks' = MU!WithElem(b, i, e), heads'.head = heads.head
  PROVE  Puts(size, i, e)
<1>1. PICK h : h = heads.head
  OBVIOUS
<1>2. Shape(h, size) /\ blocks' = BL!WithElem(b, i, e)
  BY <1>1, SameList DEF ListAt
<1>3. /\ Shape(h, size)' /\ Alloc' = Alloc
      /\ \A c \in Alloc : Off(c)' = Off(c)
      /\ \A c \in Alloc : \A j \in 0 .. size - 1 : Cell(c, j)' = IF Off(c) + j = i THEN e ELSE Cell(c, j)
  BY <1>2, WriteCell
<1>4. \A n : Reach(n, size)' = Reach(n, size)
  BY <1>3 DEF Reach
<1> QED BY <1>1, <1>3, <1>4 DEF Puts

\* The slot of a ticket that is written or sealed is free.
LEMMA ListFreeSlot ==
  ASSUME NEW size, ListAt(size), NEW p \in Producers, NEW b \in Alloc, NEW i \in Nat,
         b = walks[p].block, i = walks[p].at, Off(b) = StartIn(i, size), pc[p] \in Owning \ {"ticket"}
  PROVE  /\ MU!Elem(b, i) = Cell(b, i % size) /\ MU!Elem(b, i).data = None /\ read_offset <= i
         /\ MU!Elem(b, i).flags \in {"empty", "consumer", "closed"}
         /\ i < walks[p].end => MU!Elem(b, i).flags # "closed"
         /\ MU!Elem(b, i).flags = "consumer" => i = read_offset /\ pc[Consumer] = "parked"
         /\ pc[Consumer] = "reading" => read_offset < i
<1>1. PICK e : e = MU!Elem(b, i)
  OBVIOUS
<1>2. ListCell(i, e) /\ e \in Cells /\ e = Cell(b, i % size)
  BY <1>1, SlotOf
<1>3. /\ read_offset <= i /\ TicketOf(p) /\ pc[p] \in Owning
      /\ read_offset \in Nat /\ Cutoff \in Nat /\ walks[p].end \in Nat
  BY ListFacts DEF ListAt, ListTickets, TicketOf
<1>4. IF i < walks[p].end THEN walks[p].end <= Cutoff ELSE write_closed_at = i
  BY <1>3 DEF TicketOf
<1>5. i # None
  BY ThreadsAssumption
<1>6. e.data = None
  <2> SUFFICES ASSUME e.data # None PROVE FALSE
    OBVIOUS
  <2>1. i < Cutoff /\ Passed(p, i)
    BY <1>2 DEF ListCell
  <2>2. walks[p].end <= i
    BY <1>3, <2>1 DEF Passed
  <2>3. Cutoff = i
    BY <1>3, <1>4, <1>5, <2>2 DEF Cutoff
  <2> QED BY <2>1, <2>3
<1>7. e.flags # "data"
  BY <1>2, <1>3, <1>6 DEF ListCell
<1>8. i < walks[p].end => e.flags # "closed"
  <2> SUFFICES ASSUME i < walks[p].end, e.flags = "closed" PROVE FALSE
    OBVIOUS
  <2>1. write_closed_at = i /\ Cutoff = i
    BY <1>2, <1>5 DEF ListCell, Cutoff
  <2> QED BY <1>3, <1>4, <2>1
<1>9. pc[Consumer] = "reading" => read_offset # i
  <2> SUFFICES ASSUME pc[Consumer] = "reading", read_offset = i PROVE FALSE
    OBVIOUS
  <2>1. /\ heads.pull \in Alloc /\ Off(heads.pull) = StartIn(i, size)
        /\ Cell(heads.pull, i % size).data # None
    BY DEF ListAt, ListHeads, Pulling
  <2>2. heads.pull = b
    BY <2>1, SlotOf
  <2> QED BY <1>2, <1>6, <2>1, <2>2
<1>10. e.flags = "consumer" => i = read_offset /\ pc[Consumer] = "parked"
  BY <1>2, <1>3, <1>9 DEF ListCell
<1>11. e.flags \in {"empty", "consumer", "closed"}
  BY <1>2, <1>7 DEF Cells
<1> QED BY <1>1, <1>2, <1>3, <1>6, <1>8, <1>9, <1>10, <1>11

\* A producer writes the slot of index i, and may turn the consumer that waits there.
Writes(size, p, l, m, w, i, e) ==
  /\ pc' = [pc EXCEPT ![p] = l, ![Consumer] = m] /\ walks' = [walks EXCEPT ![p] = w]
  /\ i \in Nat /\ Puts(size, i, e)
  /\ UNCHANGED <<write_offset, read_offset, closed, write_closed_at, heads, pending>>
  /\ pushes' \in [Producers -> Nat] /\ l # "cutoff"
  /\ l \in Owning => pc[p] \in Owning /\ walks[p].at <= w.at /\ w.end = walks[p].end
  /\ m = pc[Consumer] \/ (pc[Consumer] = "parked" /\ i = read_offset /\ m \in {"idle", "reading"})
  /\ m = "reading" /\ i = read_offset => e.data # None
  /\ TicketOf(p)' /\ WalkOf(p, size)' /\ (pending.old # None => ReclaimOf(p)')
  /\ ListCell(i, e)'

\* A producer and the consumer move, and nobody else.
LEMMA TwoMove ==
  ASSUME NEW size, ListAt(size), NEW p \in Producers, NEW l, NEW m, NEW w,
         pc' = [pc EXCEPT ![p] = l, ![Consumer] = m], walks' = [walks EXCEPT ![p] = w]
  PROVE  /\ pc'[p] = l /\ walks'[p] = w /\ pc'[Consumer] = m /\ walks'[Consumer] = walks[Consumer]
         /\ \A q \in Producers \ {p} : pc'[q] = pc[q] /\ walks'[q] = walks[q]
BY ListFacts DEF ListAt, ListTypes

\* Such a step keeps the invariant.
LEMMA PutStep ==
  ASSUME NEW size, ListAt(size), NEW p \in Producers, NEW l \in OwnLabels, NEW m \in TakeLabels, NEW w \in Walks,
         NEW i, NEW e, Writes(size, p, l, m, w, i, e)
  PROVE  ListAt(size)'
<1>0. /\ pc' = [pc EXCEPT ![p] = l, ![Consumer] = m] /\ walks' = [walks EXCEPT ![p] = w]
      /\ i \in Nat /\ Puts(size, i, e)
      /\ UNCHANGED <<write_offset, read_offset, closed, write_closed_at, heads, pending>>
      /\ pushes' \in [Producers -> Nat] /\ l # "cutoff"
      /\ l \in Owning => pc[p] \in Owning /\ walks[p].at <= w.at /\ w.end = walks[p].end
      /\ m = pc[Consumer] \/ (pc[Consumer] = "parked" /\ i = read_offset /\ m \in {"idle", "reading"})
      /\ m = "reading" /\ i = read_offset => e.data # None
      /\ TicketOf(p)' /\ WalkOf(p, size)' /\ (pending.old # None => ReclaimOf(p)')
      /\ ListCell(i, e)'
  BY DEF Writes
<1>1. /\ pc'[p] = l /\ walks'[p] = w /\ pc'[Consumer] = m /\ walks'[Consumer] = walks[Consumer]
      /\ \A q \in Producers \ {p} : pc'[q] = pc[q] /\ walks'[q] = walks[q]
  BY <1>0, TwoMove
<1>2. ListTypes'
  <2>1. /\ pc' \in [Producers \cup {Consumer} -> OwnLabels \cup TakeLabels]
        /\ walks' \in [Producers \cup {Consumer} -> Walks]
    BY <1>0 DEF ListAt, ListTypes
  <2>2. (\A q \in Producers : pc'[q] \in OwnLabels) /\ pc'[Consumer] \in TakeLabels
    BY <1>0, <1>1, ListFacts
  <2> QED BY <1>0, <2>1, <2>2 DEF ListAt, ListTypes
<1>3. ListTickets'
  BY <1>0, <1>1, TicketsMove
<1>4. /\ Shape(heads.head, size)' /\ Alloc' = Alloc /\ (\A c \in Alloc : Off(c)' = Off(c)) /\ Keeps(size)
      /\ \A c \in Alloc : \A j \in 0 .. size - 1 : Cell(c, j)' = IF Off(c) + j = i THEN e ELSE Cell(c, j)
  BY <1>0 DEF Puts, Keeps
<1>5. ListWalks(size)'
  <2>1. \A q \in Producers \ {p} : WalkOf(q, size)'
    BY <1>0, <1>1, <1>4, WalkStays
  <2> QED BY <1>0, <1>1, <2>1 DEF ListWalks
<1>6. PICK wr, hi, rd, pu, nw, r : /\ wr = heads.write /\ hi = heads.hint /\ rd = heads.read /\ pu = heads.pull
                                   /\ nw = pending.new /\ r = read_offset
  OBVIOUS
<1>7. wr \in Alloc /\ Off(wr)' = Off(wr) /\ hi \in Alloc /\ Off(hi)' = Off(hi) /\ rd \in Alloc /\ Off(rd)' = Off(rd)
  BY <1>0, <1>4, <1>6, ListFacts
<1>8. ListHeads(size)'
  <2>1. m \in Pulling => pc[Consumer] \in Pulling
    BY <1>0 DEF Pulling
  <2>2. m \in Pulling => pu \in Alloc /\ Off(pu) = StartIn(r, size) /\ Off(pu)' = Off(pu)
    BY <1>0, <1>4, <1>6, <2>1 DEF ListAt, ListHeads
  <2>3. ASSUME m = "reading" PROVE Cell(pu, r % size)'.data # None
    <3>1. pu \in Alloc /\ Off(pu) = StartIn(r, size)
      BY <1>0, <2>2, <2>3 DEF Pulling
    <3>2. PICK k : k = r % size
      OBVIOUS
    <3>3. k \in 0 .. size - 1 /\ Off(pu) + k = r
      BY <1>0, <1>6, <3>1, <3>2, ListFacts, SlotOf
    <3>4. Cell(pu, k)' = IF r = i THEN e ELSE Cell(pu, k)
      BY <1>0, <1>4, <3>1, <3>3
    <3>5. r # i => Cell(pu, k).data # None
      BY <1>0, <1>6, <2>3, <3>2 DEF ListAt, ListHeads
    <3>6. Cell(pu, k)'.data # None
      BY <1>0, <1>6, <2>3, <3>4, <3>5
    <3> QED BY <1>0, <3>2, <3>6
  <2>4. Off(wr) <= r /\ Off(rd) <= r /\ r <= Off(rd) + size
    BY <1>0, <1>6 DEF ListAt, ListHeads
  <2> QED BY <1>0, <1>1, <1>4, <1>6, <1>7, <2>2, <2>3, <2>4 DEF ListHeads, Off, Cell
<1>9. ListReclaim'
  <2>1. m \in {"advance", "take_cutoff"} => m = pc[Consumer]
    BY <1>0
  <2>2. PICK se : se = walks[Consumer].seen
    OBVIOUS
  <2>3. /\ pc[Consumer] = "advance" => se \in Alloc /\ Off(se)' = Off(se)
        /\ pending.old # None => nw \in Alloc /\ Off(nw)' = Off(nw)
    BY <1>0, <1>4, <1>6, <2>2 DEF ListAt, ListReclaim
  <2>4. ASSUME pending.old # None, NEW q \in Producers \ {p} PROVE ReclaimOf(q)'
    <3>1. PICK x : x = walks[q].block
      OBVIOUS
    <3>2. pc[q] \in Walking => x \in Alloc /\ Off(x)' = Off(x)
      BY <1>0, <1>4, <3>1 DEF ListAt, ListWalks, WalkOf
    <3>3. ReclaimOf(q) /\ pc'[q] = pc[q] /\ walks'[q] = walks[q]
      BY <1>0, <1>1, <2>4 DEF ListAt, ListReclaim
    <3>4. Off(nw)' = Off(nw)
      BY <1>0, <2>3, <2>4
    <3> QED BY <1>0, <1>6, <3>1, <3>2, <3>3, <3>4 DEF ReclaimOf, Off
  <2>5. pending.old # None => \A q \in Producers : ReclaimOf(q)'
    BY <1>0, <1>1, <2>4
  <2> QED BY <1>0, <1>1, <1>4, <1>6, <1>7, <2>1, <2>2, <2>3, <2>5 DEF ListAt, ListReclaim, Off
<1>10. ListCells(size)'
  <2> SUFFICES ASSUME NEW c \in Alloc, NEW j \in 0 .. size - 1 PROVE ListCell(Off(c) + j, Cell(c, j))'
    BY <1>0, <1>4 DEF ListCells
  <2>1. PICK k, cell : k = Off(c) + j /\ cell = Cell(c, j)
    OBVIOUS
  <2>2. ListCell(k, cell) /\ k \in Nat
    BY <1>0, <2>1, ListFacts DEF ListAt, ListCells
  <2>3. CASE k = i
    <3>1. ListCell(k, e)'
      BY <1>0, <1>1, <2>3
    <3>2. Off(c)' + j = k /\ Cell(c, j)' = e
      BY <1>0, <1>4, <2>1, <2>3
    <3> QED BY <1>0, <3>1, <3>2
  <2>4. CASE k # i
    <3>1. cell.data # None => \A q \in Producers : Passed(q, k)'
      <4> SUFFICES ASSUME cell.data # None, NEW q \in Producers PROVE Passed(q, k)'
        OBVIOUS
      <4>1. Passed(q, k)
        BY <1>0, <2>2 DEF ListCell
      <4>2. CASE q = p
        <5>1. w.at \in Nat /\ w.end \in Nat
          BY <1>0 DEF Walks
        <5> QED BY <1>0, <1>1, <2>2, <4>1, <4>2, <5>1, ListFacts DEF Passed
      <4>3. CASE q # p
        BY <1>0, <1>1, <4>1, <4>3 DEF Passed
      <4> QED BY <1>0, <4>2, <4>3
    <3>2. Cutoff' = Cutoff
      BY <1>0 DEF Cutoff
    <3>3. ListCell(k, cell)'
      BY <1>0, <1>1, <2>2, <2>4, <3>1, <3>2 DEF ListCell
    <3>4. Off(c)' + j = k /\ Cell(c, j)' = cell
      BY <1>0, <1>4, <2>1, <2>4
    <3> QED BY <1>0, <3>3, <3>4
  <2> QED BY <1>0, <2>3, <2>4
<1> QED BY <1>0, <1>2, <1>3, <1>4, <1>5, <1>8, <1>9, <1>10 DEF ListAt

\* write_element: the slot is free, and whoever waited there can read it.
LEMMA ListWriteStep ==
  ASSUME NEW size, ListAt(size), NEW p \in Producers, MU!WriteElement(p)
  PROVE  ListAt(size)'
<1>1. PICK b, i, e, end : /\ b = walks[p].block /\ i = walks[p].at /\ end = walks[p].end
                          /\ e = [flags |-> "data", data |-> MU!Item(p, pushes[p] + 1)]
  OBVIOUS
<1>2. PICK l, m, w : /\ l = IF i + 1 = end THEN "idle" ELSE IF (i + 1) % size = 0 THEN "next" ELSE "write"
                     /\ m = IF MU!Elem(b, i).flags = "consumer" THEN "reading" ELSE pc[Consumer]
                     /\ w = IF i + 1 = end THEN MU!NoWalk ELSE [walks[p] EXCEPT !.at = i + 1]
  OBVIOUS
<1>3. MU!BlockSize = size /\ p # Consumer /\ p \in Producers \cup {Consumer}
      /\ walks \in [Producers \cup {Consumer} -> Walks]
      /\ pc \in [Producers \cup {Consumer} -> OwnLabels \cup TakeLabels] /\ pushes \in [Producers -> Nat]
  BY ListFacts DEF ListAt, ListTypes
<1>4. /\ pc[p] = "write" /\ pc' = [pc EXCEPT ![p] = l, ![Consumer] = m]
      /\ walks' = [walks EXCEPT ![p] = w] /\ blocks' = MU!WithElem(b, i, e)
      /\ pushes' = [pushes EXCEPT ![p] = @ + 1]
      /\ UNCHANGED <<write_offset, read_offset, closed, write_closed_at, heads, pending>>
  <2>1. /\ pc[p] = "write" /\ blocks' = MU!WithElem(b, i, e) /\ pushes' = [pushes EXCEPT ![p] = @ + 1]
        /\ UNCHANGED <<write_offset, read_offset, closed, write_closed_at, heads, pending>>
    BY <1>1 DEF MU!WriteElement
  <2>2. pc' = [pc EXCEPT ![p] = l, ![Consumer] = m]
    BY <1>1, <1>2, <1>3 DEF MU!WriteElement
  <2>3. walks' = [walks EXCEPT ![p] = w]
    BY <1>1, <1>2, <1>3 DEF MU!WriteElement, Walks
  <2> QED BY <2>1, <2>2, <2>3
<1>5. /\ b \in Alloc /\ Off(b) = walks[p].offset /\ Off(b) = StartIn(i, size) /\ Reach(end, size)
      /\ TicketOf(p) /\ i < end /\ (pending.old # None => ReclaimOf(p)) /\ i \in Nat /\ end \in Nat
      /\ read_offset <= i /\ end <= Cutoff
  <2>1. /\ b \in Alloc /\ Off(b) = walks[p].offset /\ Off(b) = StartIn(i, size) /\ Reach(end, size)
        /\ TicketOf(p) /\ i < end /\ (pending.old # None => ReclaimOf(p))
    BY <1>1, <1>4 DEF ListAt, ListWalks, WalkOf, Walking, ListTickets, TicketOf, ListReclaim
  <2>2. read_offset <= i /\ end <= Cutoff
    BY <1>1, <1>4, <2>1 DEF TicketOf, Owning, Walking
  <2> QED BY <1>1, <2>1, <2>2, ListFacts
<1>6. /\ MU!Elem(b, i).flags = "consumer" => i = read_offset /\ pc[Consumer] = "parked"
      /\ pc[Consumer] = "reading" => read_offset < i
  BY <1>1, <1>4, <1>5, ListFreeSlot DEF Owning, Walking
<1>7. e \in Cells /\ e.flags = "data" /\ e.data # None
  <2>1. pushes[p] + 1 \in Nat
    BY <1>3
  <2> QED BY <1>1, <2>1, ThreadsAssumption DEF Cells, MU!Item
<1>8. Puts(size, i, e)
  BY <1>4, <1>5, <1>7, ListPut
<1>9. l \in OwnLabels /\ l # "cutoff" /\ m \in TakeLabels /\ (l \in Owning => i + 1 # end)
  <2>1. l \in OwnLabels /\ l # "cutoff" /\ (l \in Owning => i + 1 # end)
    BY <1>2 DEF OwnLabels, Owning, Walking
  <2>2. m \in TakeLabels
    BY <1>2, ListFacts DEF TakeLabels, Pulling
  <2> QED BY <2>1, <2>2
<1>10. /\ w \in Walks
       /\ i + 1 # end => w = [walks[p] EXCEPT !.at = i + 1] /\ w.block = b /\ w.offset = walks[p].offset
                         /\ w.at = i + 1 /\ w.end = end
  <2>1. walks[p] \in Walks /\ i + 1 \in Nat
    BY <1>3, <1>5
  <2> QED BY <1>1, <1>2, <2>1 DEF Walks, MU!NoWalk, MaybeBlock
<1>11. pushes' \in [Producers -> Nat]
  BY <1>3, <1>4
<1>12. l \in Owning => pc[p] \in Owning /\ walks[p].at <= w.at /\ w.end = walks[p].end
  BY <1>1, <1>4, <1>5, <1>9, <1>10 DEF Owning, Walking
<1>13. Cutoff' = Cutoff
  BY <1>4 DEF Cutoff
<1>18. /\ pc'[p] = l /\ walks'[p] = w /\ pc'[Consumer] = m
       /\ \A q \in Producers \ {p} : pc'[q] = pc[q] /\ walks'[q] = walks[q]
  <2>1. pc' = [pc EXCEPT ![p] = l, ![Consumer] = m] /\ walks' = [walks EXCEPT ![p] = w]
    BY <1>4
  <2>2. pc'[p] = l /\ pc'[Consumer] = m /\ \A q \in Producers \ {p} : pc'[q] = pc[q]
    BY <1>3, <2>1, ThreadsAssumption
  <2>3. walks'[p] = w /\ \A q \in Producers \ {p} : walks'[q] = walks[q]
    BY <1>3, <2>1
  <2> QED BY <2>2, <2>3
<1>14. TicketOf(p)' /\ WalkOf(p, size)' /\ (pending.old # None => ReclaimOf(p)')
  <2>1. CASE i + 1 = end
    <3>1. l = "idle"
      BY <1>2, <2>1
    <3> QED BY <1>18, <3>1 DEF TicketOf, WalkOf, ReclaimOf, Owning, Walking
  <2>2. CASE i + 1 # end
    <3>1. i + 1 < end /\ l \in {"next", "write"}
      BY <1>2, <1>5, <2>2
    <3>2. TicketOf(p)'
      <4>1. read_offset <= i + 1 /\ i + 1 <= end /\ end <= write_offset /\ i + 1 < write_offset
        BY <1>5, <3>1, ListFacts
      <4> QED BY <1>4, <1>5, <1>10, <1>13, <1>18, <2>2, <3>1, <4>1 DEF TicketOf, Owning, Walking
    <3>3. /\ l = "next" => i + 1 = Off(b) + size
          /\ l = "write" => Off(b) = StartIn(i + 1, size)
      <4>1. /\ Off(b) \in Nat /\ Off(b) % size = 0 /\ size \in Nat \ {0} /\ Off(b) <= i /\ i < Off(b) + size
        BY <1>5, ListFacts, SlotOf
      <4>2. /\ (i + 1) % size = 0 => i + 1 = Off(b) + size
            /\ (i + 1) % size # 0 => Off(b) = StartIn(i + 1, size)
        BY <1>5, <4>1, BlockEnd
      <4>3. (l = "next" => (i + 1) % size = 0) /\ (l = "write" => (i + 1) % size # 0)
        BY <1>2
      <4> QED BY <4>2, <4>3
    <3>4. b \in Alloc' /\ Off(b)' = Off(b) /\ Reach(end, size)'
      <4>1. Reach(end, size)' = Reach(end, size)
        BY <1>8 DEF Puts
      <4> QED BY <1>5, <1>8, <4>1 DEF Puts
    <3>5. WalkOf(p, size)'
      <4>1. Off(b) <= i + 1
        BY <1>5, ListFacts, SlotOf
      <4>2. Reach(w.end, size)'
        BY <1>10, <1>18, <2>2, <3>4 DEF Reach
      <4>3. /\ walks'[p].block = b /\ walks'[p].offset = Off(b) /\ walks'[p].at = i + 1 /\ pc'[p] = l
            /\ blocks'[walks'[p].block].offset = Off(b) /\ walks'[p].block \in Alloc' /\ Reach(walks[p].end, size)'
        BY <1>5, <1>10, <1>18, <2>2, <3>4, <4>2 DEF Reach, Off
      <4> QED BY <3>1, <3>3, <4>1, <4>3 DEF WalkOf, Walking, Off
    <3>6. pending.old # None => ReclaimOf(p)'
      <4>1. PICK nw : nw = pending.new
        OBVIOUS
      <4>2. pending.old # None => nw \in Alloc /\ Off(nw)' = Off(nw)
        BY <1>8, <4>1 DEF ListAt, ListReclaim, Puts
      <4>3. pending.old # None => IF i < pending.cutoff THEN end <= pending.cutoff ELSE Off(nw) <= Off(b)
        BY <1>1, <1>4, <1>5, <4>1 DEF ReclaimOf, Owning, Walking
      <4>4. pending.old # None /\ ~(i + 1 < pending.cutoff) => Off(nw) <= Off(b)
        BY <1>5, <3>1, <4>3, ListFacts
      <4>5. pending.old # None /\ i + 1 < pending.cutoff => end <= pending.cutoff
        BY <1>5, <4>3, ListFacts

      <4> QED BY <1>4, <1>10, <1>18, <2>2, <3>4, <4>1, <4>2, <4>4, <4>5 DEF ReclaimOf, Off
    <3> QED BY <3>2, <3>5, <3>6
  <2> QED BY <2>1, <2>2
<1>15. m = pc[Consumer] \/ (pc[Consumer] = "parked" /\ i = read_offset /\ m \in {"idle", "reading"})
  BY <1>2, <1>6
<1>16. ListCell(i, e)'
  <2>1. i < Cutoff'
    BY <1>5, <1>13, ListFacts
  <2>2. ASSUME NEW q \in Producers PROVE Passed(q, i)'
    <3>1. CASE q = p
      <4>1. l \in Owning => i < w.at
        BY <1>5, <1>9, <1>10
      <4> QED BY <1>18, <3>1, <4>1 DEF Passed
    <3>2. CASE q # p
      <4>1. Apart(p, q) /\ pc[p] \in Owning /\ pc'[q] = pc[q] /\ walks'[q] = walks[q]
            /\ walks[q].at \in Nat /\ walks[q].end \in Nat
        BY <1>4, <1>18, <3>2, ListFacts DEF ListAt, ListTickets, Owning, Walking
      <4>2. pc[q] \in Owning => end <= walks[q].at \/ walks[q].end <= i
        BY <1>1, <4>1 DEF Apart
      <4> QED BY <1>5, <4>1, <4>2 DEF Passed
    <3> QED BY <3>1, <3>2
  <2> QED BY <1>4, <1>5, <1>7, <2>1, <2>2 DEF ListCell
<1>17. m = "reading" /\ i = read_offset => e.data # None
  BY <1>7
<1>19. Writes(size, p, l, m, w, i, e)
  BY <1>4, <1>5, <1>8, <1>9, <1>11, <1>12, <1>14, <1>15, <1>16, <1>17 DEF Writes
<1> QED BY <1>9, <1>10, <1>19, PutStep

\* close seals the slot of the cutoff, and tells whoever waits there.
LEMMA ListSealStep ==
  ASSUME NEW size, ListAt(size), NEW p \in Producers, MU!Seal(p)
  PROVE  ListAt(size)'
<1>0. pc[p] = "find"
  BY DEF MU!Seal, MU!Reached
<1>1. PICK b, i, e, l : b = walks[p].block /\ i = walks[p].at /\ e = [flags |-> "closed", data |-> None] /\ l = "idle"
  OBVIOUS
<1>2. PICK m, w : /\ m = IF MU!Elem(b, i).flags = "consumer" THEN "idle" ELSE pc[Consumer]
                  /\ w = MU!NoWalk
  OBVIOUS
<1>3. /\ pc' = [pc EXCEPT ![p] = l, ![Consumer] = m]
      /\ walks' = [walks EXCEPT ![p] = w] /\ blocks' = MU!WithElem(b, i, e)
      /\ UNCHANGED <<write_offset, read_offset, closed, write_closed_at, heads, pending, pushes>>
      /\ walks[p].at = walks[p].end /\ MU!Reached(p)
  <2>1. p # Consumer /\ pc \in [Producers \cup {Consumer} -> OwnLabels \cup TakeLabels]
    BY ListFacts DEF ListAt, ListTypes
  <2>2. pc' = [pc EXCEPT ![p] = l, ![Consumer] = m]
    BY <1>1, <1>2, <2>1 DEF MU!Seal
  <2>3. /\ walks' = [walks EXCEPT ![p] = w] /\ blocks' = MU!WithElem(b, i, e)
        /\ UNCHANGED <<write_offset, read_offset, closed, write_closed_at, heads, pending, pushes>>
        /\ walks[p].at = walks[p].end /\ MU!Reached(p)
    BY <1>1, <1>2 DEF MU!Seal
  <2> QED BY <2>2, <2>3
<1>4. b \in Alloc /\ Off(b) = StartIn(i, size) /\ i \in Nat /\ TicketOf(p) /\ pc[p] \in Owning
  BY <1>0, <1>1, <1>3, FindFacts
<1>5. write_closed_at = i
  BY <1>0, <1>1, <1>3, <1>4, ListFacts DEF TicketOf
<1>6. /\ MU!Elem(b, i).flags = "consumer" => i = read_offset /\ pc[Consumer] = "parked"
      /\ pc[Consumer] = "reading" => read_offset < i
  BY <1>0, <1>1, <1>4, ListFreeSlot
<1>7. e \in Cells
  BY <1>1 DEF Cells
<1>8. Puts(size, i, e)
  BY <1>3, <1>4, <1>7, ListPut
<1>9. l \in OwnLabels /\ l # "cutoff" /\ l \notin Owning /\ m \in TakeLabels /\ w \in Walks
  BY <1>1, <1>2, ListFacts DEF OwnLabels, Owning, Walking, TakeLabels, Walks, MaybeBlock, MU!NoWalk
<1>10. pushes' \in [Producers -> Nat]
  BY <1>3 DEF ListAt, ListTypes
<1>15. pc'[p] = l
  BY <1>3, TwoMove
<1>11. TicketOf(p)' /\ WalkOf(p, size)' /\ (pending.old # None => ReclaimOf(p)')
  BY <1>1, <1>15 DEF TicketOf, WalkOf, ReclaimOf, Owning, Walking
<1>12. m = pc[Consumer] \/ (pc[Consumer] = "parked" /\ i = read_offset /\ m \in {"idle", "reading"})
  BY <1>2, <1>6
<1>13. m = "reading" /\ i = read_offset => e.data # None
  BY <1>2, <1>6, ListFacts
<1>14. ListCell(i, e)'
  BY <1>1, <1>3, <1>5 DEF ListCell
<1>16. Writes(size, p, l, m, w, i, e)
  BY <1>3, <1>4, <1>8, <1>9, <1>10, <1>11, <1>12, <1>13, <1>14 DEF Writes
<1> QED BY <1>9, <1>16, PutStep

\* The consumer moves.
Takes(m, w) ==
  /\ pc' = [pc EXCEPT ![Consumer] = m] /\ walks' = [walks EXCEPT ![Consumer] = w]
  /\ m \in TakeLabels /\ w \in Walks /\ read_offset' \in Nat
  /\ UNCHANGED <<write_offset, closed, write_closed_at, pushes>>
  /\ heads' \in [write : BlockIds, hint : BlockIds, read : BlockIds, head : BlockIds, pull : MaybeBlock]
  /\ pending' \in [old : MaybeBlock, new : MaybeBlock, cutoff : Nat]
  /\ read_offset' <= Cutoff
  /\ \A q \in Producers : pc[q] \in Owning => read_offset' <= walks[q].at

\* What stays when the consumer moves.
LEMMA TakeStays ==
  ASSUME NEW size, ListAt(size), NEW m, NEW w, Takes(m, w)
  PROVE  /\ pc'[Consumer] = m /\ walks'[Consumer] = w /\ Cutoff' = Cutoff
         /\ \A q \in Producers : pc'[q] = pc[q] /\ walks'[q] = walks[q]
         /\ ListTypes' /\ ListTickets'
         /\ Keeps(size) => ListWalks(size)'
<1>1. /\ pc'[Consumer] = m /\ walks'[Consumer] = w
      /\ \A q \in Producers : pc'[q] = pc[q] /\ walks'[q] = walks[q]
  <2>1. pc' = [pc EXCEPT ![Consumer] = m] /\ walks' = [walks EXCEPT ![Consumer] = w]
    BY DEF Takes
  <2>2. /\ pc \in [Producers \cup {Consumer} -> OwnLabels \cup TakeLabels] /\ walks \in [Producers \cup {Consumer} -> Walks]
        /\ \A q \in Producers : q # Consumer
    BY ListFacts DEF ListAt, ListTypes
  <2> QED BY <2>1, <2>2
<1>2. Cutoff' = Cutoff
  BY DEF Cutoff, Takes
<1>3. ListTypes'
  <2>1. /\ pc' \in [Producers \cup {Consumer} -> OwnLabels \cup TakeLabels]
        /\ walks' \in [Producers \cup {Consumer} -> Walks]
    BY DEF ListAt, ListTypes, Takes
  <2>2. (\A q \in Producers : pc'[q] \in OwnLabels) /\ pc'[Consumer] \in TakeLabels
    BY <1>1, ListFacts DEF Takes
  <2> QED BY <2>1, <2>2 DEF ListAt, ListTypes, Takes
<1>4. ListTickets'
  <2>1. ASSUME NEW q \in Producers PROVE TicketOf(q)'
    <3>1. TicketOf(q) /\ pc'[q] = pc[q] /\ walks'[q] = walks[q]
      BY <1>1 DEF ListAt, ListTickets
    <3> QED BY <1>2, <3>1 DEF TicketOf, Takes
  <2>2. ASSUME NEW q \in Producers, NEW o \in Producers, q # o PROVE Apart(q, o)'
    <3>1. Apart(q, o) /\ pc'[q] = pc[q] /\ walks'[q] = walks[q] /\ pc'[o] = pc[o] /\ walks'[o] = walks[o]
      BY <1>1, <2>2 DEF ListAt, ListTickets
    <3> QED BY <3>1 DEF Apart
  <2> QED BY <1>2, <2>1, <2>2 DEF ListAt, ListTickets, Takes
<1>5. Keeps(size) => ListWalks(size)'
  BY <1>1, WalkStays DEF ListWalks
<1> QED BY <1>1, <1>2, <1>3, <1>4, <1>5

\* A reclaim that waits goes on waiting.
LEMMA ReclaimStays ==
  ASSUME NEW size, ListAt(size), Shape(heads.head, size)', Keeps(size), UNCHANGED <<pending, write_offset>>,
         heads'.write = heads.write, heads'.hint = heads.hint, heads'.head = heads.head,
         heads'.read \in Alloc', Off(heads.read) <= blocks'[heads'.read].offset,
         \A q \in Producers : pc'[q] = pc[q] /\ walks'[q] = walks[q],
         pc'[Consumer] \notin {"advance", "take_cutoff"}
  PROVE  ListReclaim'
<1>1. PICK wr, hi, nw, rd : wr = heads.write /\ hi = heads.hint /\ nw = pending.new /\ rd = heads'.read
  OBVIOUS
<1>2. wr \in Alloc /\ hi \in Alloc /\ Off(wr)' = Off(wr) /\ Off(hi)' = Off(hi)
  BY <1>1, ListFacts DEF Keeps
<1>3. SUFFICES ASSUME pending.old # None
               PROVE  /\ nw \in Alloc' /\ Off(nw)' <= Off(rd)' /\ Off(nw)' <= Off(wr)' /\ Off(nw)' <= Off(hi)'
                      /\ \A q \in Producers : ReclaimOf(q)'
  BY <1>1 DEF ListAt, ListReclaim, Off
<1>4. /\ nw \in Alloc /\ Off(nw)' = Off(nw) /\ nw \in Alloc' /\ Off(nw) <= Off(wr) /\ Off(nw) <= Off(hi)
      /\ Off(nw) <= Off(heads.read)
  BY <1>1, <1>3 DEF ListAt, ListReclaim, Keeps
<1>5. Off(rd)' \in Int
  <2>1. rd \in Alloc'
    BY <1>1
  <2> QED BY <2>1 DEF Shape, BlockTypes
<1>6. ASSUME NEW q \in Producers PROVE ReclaimOf(q)'
  <2>1. PICK x : x = walks[q].block
    OBVIOUS
  <2>2. pc[q] \in Walking => x \in Alloc /\ Off(x)' = Off(x)
    BY <2>1 DEF ListAt, ListWalks, WalkOf, Keeps
  <2>3. ReclaimOf(q) /\ pc'[q] = pc[q] /\ walks'[q] = walks[q]
    BY <1>3 DEF ListAt, ListReclaim
  <2> QED BY <1>1, <1>4, <2>1, <2>2, <2>3 DEF ReclaimOf, Off
<1>7. Off(nw) <= Off(rd)'
  BY <1>1, <1>4, <1>5, ListFacts DEF Off
<1> QED BY <1>2, <1>4, <1>6, <1>7

\* A slot stays what it is when the consumer moves.
LEMMA CellStays ==
  ASSUME NEW size, ListAt(size), NEW k, NEW cell, ListCell(k, cell), pc[Consumer] \notin {"parked", "reading"},
         UNCHANGED <<read_offset, write_offset, write_closed_at>>,
         \A q \in Producers : pc'[q] = pc[q] /\ walks'[q] = walks[q]
  PROVE  ListCell(k, cell)'
<1>1. Cutoff' = Cutoff /\ \A q \in Producers : Passed(q, k)' = Passed(q, k)
  BY DEF Cutoff, Passed
<1> QED BY <1>1 DEF ListCell

\* pull and try_pull look at the flags.
LEMMA ListLookStep ==
  ASSUME NEW size, ListAt(size), NEW how, MU!Look(how)
  PROVE  ListAt(size)'
<1>1. PICK r, rd, here, b, f :
        /\ r = read_offset /\ rd = heads.read /\ here = (Off(rd) = StartIn(r, size))
        /\ b = IF here THEN rd ELSE BL!HopTo(rd)
        /\ f = IF b \in Alloc THEN MU!Elem(b, r).flags ELSE "empty"
  OBVIOUS
<1>2. MU!Start(r) = StartIn(r, size) /\ r \in Nat /\ rd \in Alloc /\ size \in Nat \ {0}
  BY <1>1, ListFacts DEF MU!Start, StartIn
<1>3. /\ pc[Consumer] = "idle" /\ (here \/ BL!CanHop(rd))
      /\ blocks' = IF here THEN blocks ELSE BL!AfterHop(rd, Off(rd))
      /\ IF f # "data" /\ how = "try_pull" THEN UNCHANGED <<pc, heads>>
         ELSE /\ pc' = [pc EXCEPT ![Consumer] = IF f = "data" THEN "reading" ELSE "wait"]
              /\ heads' = [heads EXCEPT !.pull = b]
      /\ UNCHANGED <<write_offset, read_offset, closed, write_closed_at, pending, walks, pushes>>
  BY <1>1, <1>2, SameList DEF MU!Look, MU!Goto, Off
<1>4. PICK m \in {"idle", "reading", "wait"} :
        /\ pc' = [pc EXCEPT ![Consumer] = m] /\ (m = "reading" => f = "data")
        /\ m = "idle" => heads' = heads
        /\ m # "idle" => heads' = [heads EXCEPT !.pull = b]
  <2>1. CASE f # "data" /\ how = "try_pull"
    <3>1. pc' = [pc EXCEPT ![Consumer] = "idle"]
      <4>1. pc' = pc /\ pc[Consumer] = "idle"
        BY <1>3, <2>1
      <4>2. pc \in [Producers \cup {Consumer} -> OwnLabels \cup TakeLabels]
        BY DEF ListAt, ListTypes
      <4> QED BY <4>1, <4>2
    <3> QED BY <1>3, <2>1, <3>1
  <2>2. CASE ~(f # "data" /\ how = "try_pull")
    BY <1>3, <2>2
  <2> QED BY <2>1, <2>2
<1>5. /\ heads'.head = heads.head /\ heads'.write = heads.write /\ heads'.hint = heads.hint /\ heads'.read = rd
      /\ m # "idle" => heads'.pull = b
  BY <1>1, <1>4, ListFacts
<1>6. /\ Shape(heads.head, size)' /\ Spread(size)
      /\ b \in Alloc' /\ Off(b)' = StartIn(r, size) /\ b \in BlockIds
  <2>1. CASE here
    <3>1. blocks' = blocks /\ b = rd
      BY <1>1, <1>3, <2>1
    <3>2. Shape(heads.head, size)' /\ Spread(size) /\ Alloc' = Alloc /\ Off(rd)' = Off(rd)
      BY <1>5, <3>1, SpreadSame
    <3> QED BY <1>1, <1>2, <2>1, <3>1, <3>2, ListFacts
  <2>2. CASE ~here
    <3>1. BL!CanHop(rd) /\ blocks' = BL!AfterHop(rd, Off(rd)) /\ b = BL!HopTo(rd)
      BY <1>1, <1>3, <2>2
    <3>2. /\ Shape(heads.head, size)' /\ Spread(size)
          /\ b \in Alloc' /\ blocks'[b].offset = Off(rd) + size /\ b \in BlockIds
      BY <1>2, <1>5, <3>1, SpreadHop
    <3>3. Off(rd) <= r /\ r <= Off(rd) + size /\ Off(rd) \in Nat /\ Off(rd) % size = 0 /\ Off(rd) # StartIn(r, size)
      BY <1>1, <1>2, <2>2, ListFacts DEF ListAt, ListHeads
    <3>4. ~(r < Off(rd) + size)
      BY <1>2, <3>3, StartFacts
    <3>5. r = Off(rd) + size
      BY <1>2, <3>3, <3>4
    <3>6. r % size = 0 /\ r <= r /\ r < r + size
      <4>1. (Off(rd) + size) % size = 0
        BY <1>2, <3>3, Multiples
      <4> QED BY <1>2, <3>5, <4>1
    <3>7. StartIn(r, size) = r
      BY <1>2, <3>6, StartFacts
    <3> QED BY <3>2, <3>5, <3>7 DEF Off
  <2> QED BY <2>1, <2>2
<1>7. Keeps(size)
  BY <1>6 DEF Spread, Keeps
<1>8. PICK w : w = walks[Consumer]
  OBVIOUS
<1>9. Takes(m, w)
  <2>1. pc' = [pc EXCEPT ![Consumer] = m] /\ walks' = [walks EXCEPT ![Consumer] = w] /\ w \in Walks
    BY <1>3, <1>4, <1>8, ListFacts DEF ListAt, ListTypes
  <2>2. m \in TakeLabels
    BY DEF TakeLabels, Pulling
  <2>3. heads' \in [write : BlockIds, hint : BlockIds, read : BlockIds, head : BlockIds, pull : MaybeBlock]
    BY <1>4, <1>6, ListFacts DEF MaybeBlock
  <2>4. /\ UNCHANGED <<write_offset, closed, write_closed_at, pushes>> /\ read_offset' = read_offset /\ read_offset \in Nat
        /\ pending' \in [old : MaybeBlock, new : MaybeBlock, cutoff : Nat] /\ read_offset <= Cutoff
    BY <1>3, ListFacts DEF ListAt, ListTypes
  <2>5. \A q \in Producers : pc[q] \in Owning => read_offset <= walks[q].at
    BY DEF ListAt, ListTickets, TicketOf
  <2> QED BY <2>1, <2>2, <2>3, <2>4, <2>5 DEF Takes
<1>10. /\ pc'[Consumer] = m /\ walks'[Consumer] = w /\ Cutoff' = Cutoff
       /\ \A q \in Producers : pc'[q] = pc[q] /\ walks'[q] = walks[q]
       /\ ListTypes' /\ ListTickets' /\ ListWalks(size)'
  BY <1>7, <1>9, TakeStays
<1>11. rd \in Alloc' /\ Off(rd)' = Off(rd)
  BY <1>2, <1>6 DEF Spread
<1>12. ListReclaim'
  <2>1. Off(heads.read) <= blocks'[heads'.read].offset
    BY <1>1, <1>5, <1>11, ListFacts DEF Off
  <2> QED BY <1>3, <1>5, <1>7, <1>10, <1>11, <1>6, <2>1, ReclaimStays
<1>16. /\ pc[Consumer] \notin {"parked", "reading"} /\ UNCHANGED <<read_offset, write_offset, write_closed_at>>
       /\ \A q \in Producers : pc'[q] = pc[q] /\ walks'[q] = walks[q]
  BY <1>3, <1>10
<1>13. m = "reading" => Cell(b, r % size)'.data # None
  <2> SUFFICES ASSUME m = "reading" PROVE Cell(b, r % size)'.data # None
    OBVIOUS
  <2>1. f = "data" /\ b \in Alloc /\ f = MU!Elem(b, r).flags
    BY <1>1, <1>4
  <2>2. Off(b) = StartIn(r, size)
    BY <1>6, <2>1 DEF Spread
  <2>3. PICK k : k = r % size
    OBVIOUS
  <2>4. ListCell(r, Cell(b, k)) /\ Cell(b, k).flags = "data" /\ k \in 0 .. size - 1
    BY <1>2, <2>1, <2>2, <2>3, SlotOf
  <2>5. Cell(b, k).data # None
    BY <1>1, <1>2, <2>4 DEF ListCell
  <2>6. Cell(b, k)' = Cell(b, k)
    BY <1>6, <2>1, <2>4 DEF Spread
  <2>7. Cell(b, k)'.data # None
    BY <2>5, <2>6
  <2> QED BY <2>3, <2>7
<1>14. ListHeads(size)'
  <2>1. PICK wr, hi : wr = heads.write /\ hi = heads.hint
    OBVIOUS
  <2>2. wr \in Alloc' /\ Off(wr)' = Off(wr) /\ hi \in Alloc'
    BY <1>6, <2>1, ListFacts DEF Spread
  <2>3. Off(wr) <= r /\ Off(rd) <= r /\ r <= Off(rd) + size
    BY <1>1, <2>1 DEF ListAt, ListHeads
  <2> QED BY <1>1, <1>3, <1>5, <1>6, <1>10, <1>11, <1>13, <2>1, <2>2, <2>3 DEF ListHeads, Pulling, Off, Cell
<1>15. ListCells(size)'
  <2> SUFFICES ASSUME NEW c \in Alloc', NEW j \in 0 .. size - 1 PROVE ListCell(Off(c) + j, Cell(c, j))'
    BY DEF ListCells
  <2>1. CASE c \in Alloc
    <3>1. PICK k, cell : k = Off(c) + j /\ cell = Cell(c, j)
      OBVIOUS
    <3>2. ListCell(k, cell)
      BY <2>1, <3>1 DEF ListAt, ListCells
    <3>3. ListCell(k, cell)'
      BY <1>16, <3>2, CellStays
    <3>4. Off(c)' + j = k /\ Cell(c, j)' = cell
      BY <1>6, <2>1, <3>1 DEF Spread
    <3> QED BY <3>3, <3>4
  <2>2. CASE c \notin Alloc
    <3>1. Cell(c, j)' = EmptyCell
      BY <1>6, <2>2 DEF Spread
    <3>2. \A k : ListCell(k, EmptyCell)'
      BY DEF ListCell, EmptyCell
    <3> QED BY <3>1, <3>2
  <2> QED BY <2>1, <2>2
<1> QED BY <1>6, <1>10, <1>12, <1>14, <1>15 DEF ListAt

\* The slot at which the consumer is.
LEMMA ListHereSlot ==
  ASSUME NEW size, ListAt(size), pc[Consumer] \in Pulling
  PROVE  /\ heads.pull \in Alloc /\ Off(heads.pull) = StartIn(read_offset, size) /\ read_offset \in Nat
         /\ MU!Here = Cell(heads.pull, read_offset % size) /\ MU!Here \in Cells
         /\ ListCell(read_offset, MU!Here)
         /\ read_offset % size \in 0 .. size - 1 /\ Off(heads.pull) + (read_offset % size) = read_offset
         /\ pc[Consumer] = "reading" => MU!Here.data # None
<1>1. PICK b, r, k : b = heads.pull /\ r = read_offset /\ k = r % size
  OBVIOUS
<1>2. b \in Alloc /\ Off(b) = StartIn(r, size) /\ r \in Nat
  BY <1>1, ListFacts DEF ListAt, ListHeads
<1>3. /\ k \in 0 .. size - 1 /\ Off(b) + k = r /\ ListCell(r, Cell(b, k)) /\ Cell(b, k) \in Cells
      /\ MU!Elem(b, r) = Cell(b, k)
  BY <1>1, <1>2, SlotOf
<1>4. MU!Here = Cell(b, k)
  BY <1>1, <1>3 DEF MU!Here
<1>5. pc[Consumer] = "reading" => Cell(b, k).data # None
  BY <1>1 DEF ListAt, ListHeads
<1> QED BY <1>1, <1>2, <1>3, <1>4, <1>5

\* Every ticket whose slot was read is past it.
LEMMA PastRead ==
  ASSUME NEW size, ListAt(size), NEW cell, ListCell(read_offset, cell), cell.data # None
  PROVE  read_offset + 1 <= Cutoff /\ \A q \in Producers : pc[q] \in Owning => read_offset + 1 <= walks[q].at
<1>1. PICK r \in Nat : r = read_offset
  BY ListFacts
<1>2. r < Cutoff /\ \A q \in Producers : Passed(q, r)
  BY <1>1 DEF ListCell
<1>3. ASSUME NEW q \in Producers, pc[q] \in Owning PROVE r + 1 <= walks[q].at
  <2>1. TicketOf(q) /\ Passed(q, r) /\ walks[q].at \in Nat /\ walks[q].end \in Nat
    BY <1>2, ListFacts DEF ListAt, ListTickets
  <2>2. r <= walks[q].at /\ walks[q].at <= walks[q].end
    BY <1>1, <1>3, <2>1 DEF TicketOf
  <2>3. CASE walks[q].end <= r
    <3>1. walks[q].at = r /\ walks[q].end = r
      BY <1>1, <2>1, <2>2, <2>3
    <3>2. write_closed_at = r
      BY <1>3, <2>1, <3>1 DEF TicketOf
    <3>3. Cutoff = r
      BY <1>1, <3>2, ThreadsAssumption DEF Cutoff
    <3> QED BY <1>1, <1>2, <3>3
  <2>4. CASE ~(walks[q].end <= r)
    <3>1. r < walks[q].at
      BY <1>3, <2>1, <2>4 DEF Passed
    <3> QED BY <1>1, <2>1, <3>1
  <2> QED BY <2>3, <2>4
<1>4. r + 1 <= Cutoff
  BY <1>1, <1>2, ListFacts
<1> QED BY <1>1, <1>3, <1>4

\* await_suspend exchanges the flags.
LEMMA ListWaitStep ==
  ASSUME NEW size, ListAt(size), MU!Wait
  PROVE  ListAt(size)'
<1>1. PICK b, r, k, c, f : b = heads.pull /\ r = read_offset /\ k = r % size /\ c = MU!Here /\ f = c.flags
  OBVIOUS
<1>2. PICK e, m, w : /\ e = [c EXCEPT !.flags = IF f = "closed" THEN f ELSE "consumer"]
                     /\ m = (CASE f = "empty" -> "parked" [] f = "closed" -> "idle" [] OTHER -> "reading")
                     /\ w = walks[Consumer]
  OBVIOUS
<1>3. pc[Consumer] = "wait" /\ pc[Consumer] \in Pulling
  BY DEF MU!Wait, Pulling
<1>4. /\ b \in Alloc /\ Off(b) = StartIn(r, size) /\ r \in Nat /\ c \in Cells /\ c = Cell(b, k)
      /\ ListCell(r, c) /\ k \in 0 .. size - 1 /\ Off(b) + k = r
  BY <1>1, <1>3, ListHereSlot
<1>5. /\ pc' = [pc EXCEPT ![Consumer] = m] /\ blocks' = MU!WithElem(b, r, e)
      /\ UNCHANGED <<write_offset, read_offset, closed, write_closed_at, heads, pending, walks, pushes>>
  BY <1>1, <1>2 DEF MU!Wait, MU!Goto
<1>6. f \in {"empty", "data", "closed"} /\ (f = "data" <=> c.data # None)
  <2>1. f \in {"empty", "data", "closed", "consumer"}
    BY <1>1, <1>4 DEF Cells
  <2>2. f # "consumer" /\ (f = "data" <=> c.data # None)
    BY <1>1, <1>3, <1>4 DEF ListCell
  <2> QED BY <2>1, <2>2
<1>7. /\ e \in Cells /\ e.data = c.data /\ e.flags = (IF f = "closed" THEN f ELSE "consumer")
      /\ m \in {"parked", "idle", "reading"} /\ (m = "reading" <=> f = "data") /\ (m = "idle" <=> f = "closed")
  <2>1. e \in Cells /\ e.data = c.data /\ e.flags = (IF f = "closed" THEN f ELSE "consumer")
    BY <1>2, <1>4, <1>6 DEF Cells
  <2>2. m \in {"parked", "idle", "reading"} /\ (m = "reading" <=> f = "data") /\ (m = "idle" <=> f = "closed")
    BY <1>2, <1>6
  <2> QED BY <2>1, <2>2
<1>8. Puts(size, r, e)
  BY <1>4, <1>5, <1>7, ListPut
<1>9. /\ Shape(heads.head, size)' /\ Alloc' = Alloc /\ (\A x \in Alloc : Off(x)' = Off(x)) /\ Keeps(size)
      /\ \A x \in Alloc : \A j \in 0 .. size - 1 : Cell(x, j)' = IF Off(x) + j = r THEN e ELSE Cell(x, j)
  BY <1>8 DEF Puts, Keeps
<1>10. Takes(m, w)
  <2>1. pc' = [pc EXCEPT ![Consumer] = m] /\ walks' = [walks EXCEPT ![Consumer] = w] /\ w \in Walks
    BY <1>2, <1>5, ListFacts DEF ListAt, ListTypes
  <2>2. m \in TakeLabels
    BY <1>7 DEF TakeLabels, Pulling
  <2>3. /\ heads' \in [write : BlockIds, hint : BlockIds, read : BlockIds, head : BlockIds, pull : MaybeBlock]
        /\ UNCHANGED <<write_offset, closed, write_closed_at, pushes>> /\ read_offset' = read_offset /\ read_offset \in Nat
        /\ pending' \in [old : MaybeBlock, new : MaybeBlock, cutoff : Nat] /\ read_offset <= Cutoff
    BY <1>5, ListFacts DEF ListAt, ListTypes
  <2>4. \A q \in Producers : pc[q] \in Owning => read_offset <= walks[q].at
    BY DEF ListAt, ListTickets, TicketOf
  <2> QED BY <2>1, <2>2, <2>3, <2>4 DEF Takes
<1>11. /\ pc'[Consumer] = m /\ walks'[Consumer] = w /\ Cutoff' = Cutoff
       /\ \A q \in Producers : pc'[q] = pc[q] /\ walks'[q] = walks[q]
       /\ ListTypes' /\ ListTickets' /\ ListWalks(size)'
  BY <1>9, <1>10, TakeStays
<1>12. PICK rd, wr, hi : rd = heads.read /\ wr = heads.write /\ hi = heads.hint
  OBVIOUS
<1>13. /\ rd \in Alloc' /\ Off(rd)' = Off(rd) /\ wr \in Alloc' /\ Off(wr)' = Off(wr) /\ hi \in Alloc'
       /\ b \in Alloc' /\ Off(b)' = Off(b) /\ Cell(b, k)' = e
  BY <1>4, <1>9, <1>12, ListFacts
<1>14. ListReclaim'
  <2>1. Off(heads.read) <= blocks'[heads'.read].offset /\ heads'.read \in Alloc' /\ heads' = heads
    BY <1>5, <1>12, <1>13, ListFacts DEF Off
  <2>2. pc'[Consumer] \notin {"advance", "take_cutoff"}
    BY <1>7, <1>11
  <2> QED BY <1>5, <1>9, <1>11, <2>1, <2>2, ReclaimStays
<1>15. ListHeads(size)'
  <2>1. Off(wr) <= r /\ Off(rd) <= r /\ r <= Off(rd) + size
    BY <1>1, <1>12 DEF ListAt, ListHeads
  <2>2. m = "reading" => Cell(b, k)'.data # None
    BY <1>6, <1>7, <1>13
  <2>3. Cell(b, k)' = Cell(b, r % size)'
    BY <1>1
  <2> QED BY <1>1, <1>4, <1>5, <1>11, <1>12, <1>13, <2>1, <2>2, <2>3 DEF ListHeads, Off, Cell
<1>16. ListCell(r, e)'
  <2>1. c.data # None => r < Cutoff /\ \A q \in Producers : Passed(q, r)
    BY <1>4 DEF ListCell
  <2>2. \A q \in Producers : Passed(q, r)' = Passed(q, r)
    BY <1>11 DEF Passed
  <2>3. f = "closed" => r = write_closed_at
    BY <1>1, <1>4 DEF ListCell
  <2> QED BY <1>1, <1>4, <1>5, <1>6, <1>7, <1>11, <2>1, <2>2, <2>3 DEF ListCell
<1>17. /\ pc[Consumer] \notin {"parked", "reading"} /\ UNCHANGED <<read_offset, write_offset, write_closed_at>>
       /\ \A q \in Producers : pc'[q] = pc[q] /\ walks'[q] = walks[q]
  BY <1>3, <1>5, <1>11
<1>18. ListCells(size)'
  <2> SUFFICES ASSUME NEW x \in Alloc, NEW j \in 0 .. size - 1 PROVE ListCell(Off(x) + j, Cell(x, j))'
    BY <1>9 DEF ListCells
  <2>1. PICK i, cell : i = Off(x) + j /\ cell = Cell(x, j)
    OBVIOUS
  <2>2. ListCell(i, cell)
    BY <2>1 DEF ListAt, ListCells
  <2>3. ListCell(i, cell)'
    BY <1>17, <2>2, CellStays
  <2>4. Off(x)' + j = i /\ Cell(x, j)' = IF i = r THEN e ELSE cell
    BY <1>9, <2>1
  <2> QED BY <1>16, <2>3, <2>4
<1> QED BY <1>9, <1>11, <1>14, <1>15, <1>18 DEF ListAt

\* The scope destroys the value; finish_read enters a new block.
LEMMA ListReadStep ==
  ASSUME NEW size, ListAt(size), MU!Read
  PROVE  ListAt(size)'
<1>1. PICK b, r, k, c : b = heads.pull /\ r = read_offset /\ k = r % size /\ c = MU!Here
  OBVIOUS
<1>2. PICK e, m, w : /\ e = [c EXCEPT !.data = None] /\ w = walks[Consumer]
                     /\ m = IF r % size = 0 THEN IF pending.old = None THEN "start" ELSE "reclaim" ELSE "idle"
  OBVIOUS
<1>3. pc[Consumer] = "reading" /\ pc[Consumer] \in Pulling /\ MU!BlockSize = size /\ size \in Nat \ {0}
  BY ListFacts DEF MU!Read, Pulling
<1>4. /\ b \in Alloc /\ Off(b) = StartIn(r, size) /\ r \in Nat /\ c \in Cells /\ c = Cell(b, k)
      /\ ListCell(r, c) /\ k \in 0 .. size - 1 /\ Off(b) + k = r /\ c.data # None
  BY <1>1, <1>3, ListHereSlot
<1>5. /\ pc' = [pc EXCEPT ![Consumer] = m] /\ blocks' = MU!WithElem(b, r, e) /\ read_offset' = r + 1
      /\ IF k = 0 THEN heads' = [heads EXCEPT !.read = b, !.pull = None]
                  ELSE heads' = [heads EXCEPT !.pull = None]
      /\ UNCHANGED <<write_offset, closed, write_closed_at, pending, walks, pushes>>
  <2>1. CASE k = 0
    BY <1>1, <1>2, <1>3, <2>1 DEF MU!Read, MU!Goto
  <2>2. CASE k # 0
    BY <1>1, <1>2, <1>3, <2>2 DEF MU!Read, MU!Goto
  <2> QED BY <2>1, <2>2
<1>6. e \in Cells /\ e.data = None /\ e.flags = c.flags /\ m \in {"start", "reclaim", "idle"}
  <2>1. e \in Cells /\ e.data = None /\ e.flags = c.flags
    BY <1>2, <1>4 DEF Cells
  <2>2. m \in {"start", "reclaim", "idle"}
    BY <1>2
  <2> QED BY <2>1, <2>2
<1>7. PICK rd, wr, hi : rd = heads.read /\ wr = heads.write /\ hi = heads.hint
  OBVIOUS
<1>8. PICK new : new = IF k = 0 THEN b ELSE rd
  OBVIOUS
<1>9. /\ heads'.head = heads.head /\ heads'.write = wr /\ heads'.hint = hi /\ heads'.read = new
      /\ heads' \in [write : BlockIds, hint : BlockIds, read : BlockIds, head : BlockIds, pull : MaybeBlock]
  <2>1. /\ heads \in [write : BlockIds, hint : BlockIds, read : BlockIds, head : BlockIds, pull : MaybeBlock]
        /\ b \in BlockIds /\ None \in MaybeBlock
    BY <1>4, ListFacts DEF MaybeBlock
  <2>2. CASE k = 0
    BY <1>5, <1>7, <1>8, <2>1, <2>2
  <2>3. CASE k # 0
    BY <1>5, <1>7, <1>8, <2>1, <2>3
  <2> QED BY <2>2, <2>3
<1>10. Puts(size, r, e)
  BY <1>4, <1>5, <1>6, <1>9, ListPut
<1>11. /\ Shape(heads.head, size)' /\ Alloc' = Alloc /\ (\A x \in Alloc : Off(x)' = Off(x)) /\ Keeps(size)
       /\ \A x \in Alloc : \A j \in 0 .. size - 1 : Cell(x, j)' = IF Off(x) + j = r THEN e ELSE Cell(x, j)
  BY <1>10 DEF Puts, Keeps
<1>12. Takes(m, w)
  <2>1. pc' = [pc EXCEPT ![Consumer] = m] /\ walks' = [walks EXCEPT ![Consumer] = w] /\ w \in Walks
    BY <1>2, <1>5, ListFacts DEF ListAt, ListTypes
  <2>2. m \in TakeLabels
    BY <1>6 DEF TakeLabels, Reclaiming
  <2>3. /\ UNCHANGED <<write_offset, closed, write_closed_at, pushes>> /\ read_offset' = r + 1 /\ r + 1 \in Nat
        /\ pending' \in [old : MaybeBlock, new : MaybeBlock, cutoff : Nat]
    BY <1>4, <1>5 DEF ListAt, ListTypes
  <2>4. r + 1 <= Cutoff /\ \A q \in Producers : pc[q] \in Owning => r + 1 <= walks[q].at
    BY <1>1, <1>4, PastRead
  <2> QED BY <1>9, <2>1, <2>2, <2>3, <2>4 DEF Takes
<1>13. /\ pc'[Consumer] = m /\ walks'[Consumer] = w /\ Cutoff' = Cutoff
       /\ \A q \in Producers : pc'[q] = pc[q] /\ walks'[q] = walks[q]
       /\ ListTypes' /\ ListTickets' /\ ListWalks(size)'
  BY <1>11, <1>12, TakeStays
<1>14. /\ Off(new) \in Nat /\ Off(rd) \in Nat /\ Off(wr) \in Nat /\ new \in Alloc /\ wr \in Alloc /\ hi \in Alloc
       /\ Off(wr) <= r /\ Off(rd) <= Off(new) /\ Off(new) <= r + 1 /\ r + 1 <= Off(new) + size
  <2>1. Off(wr) <= r /\ Off(rd) <= r /\ r <= Off(rd) + size /\ rd \in Alloc /\ wr \in Alloc /\ hi \in Alloc
    BY <1>1, <1>7, ListFacts DEF ListAt, ListHeads
  <2>2. Off(rd) \in Nat /\ Off(wr) \in Nat /\ Off(rd) % size = 0 /\ Off(b) \in Nat
    BY <1>4, <2>1, ListFacts
  <2>3. CASE k = 0
    <3>1. Off(b) = r /\ new = b
      BY <1>4, <1>8, <2>2, <2>3
    <3> QED BY <1>3, <1>4, <2>1, <2>2, <3>1
  <2>4. CASE k # 0
    <3>1. (Off(rd) + size) % size = 0
      BY <1>3, <2>2, Multiples
    <3>2. r # Off(rd) + size
      BY <1>1, <2>4, <3>1
    <3>3. new = rd
      BY <1>8, <2>4
    <3> QED BY <1>3, <1>4, <2>1, <2>2, <3>2, <3>3
  <2> QED BY <2>3, <2>4
<1>15. /\ new \in Alloc' /\ Off(new)' = Off(new) /\ wr \in Alloc' /\ Off(wr)' = Off(wr) /\ hi \in Alloc'
  BY <1>11, <1>14
<1>16. ListReclaim'
  <2>1. Off(heads.read) <= blocks'[heads'.read].offset /\ heads'.read \in Alloc'
    BY <1>7, <1>9, <1>14, <1>15 DEF Off
  <2>2. pc'[Consumer] \notin {"advance", "take_cutoff"}
    BY <1>6, <1>13
  <2> QED BY <1>5, <1>7, <1>9, <1>11, <1>13, <2>1, <2>2, ReclaimStays
<1>17. ListHeads(size)'
  <2>1. pc'[Consumer] \notin Pulling /\ pc'[Consumer] # "reading"
    BY <1>6, <1>13 DEF Pulling
  <2>2. Off(wr)' <= r + 1
    BY <1>4, <1>14, <1>15
  <2> QED BY <1>5, <1>9, <1>14, <1>15, <2>1, <2>2 DEF ListHeads, Off
<1>18. ListCells(size)'
  <2> SUFFICES ASSUME NEW x \in Alloc, NEW j \in 0 .. size - 1 PROVE ListCell(Off(x) + j, Cell(x, j))'
    BY <1>11 DEF ListCells
  <2>1. PICK i, cell : i = Off(x) + j /\ cell = Cell(x, j)
    OBVIOUS
  <2>2. ListCell(i, cell) /\ i \in Nat
    BY <2>1, ListFacts DEF ListAt, ListCells
  <2>3. CASE i = r
    <3>1. Off(x)' + j = i /\ Cell(x, j)' = e
      BY <1>11, <2>1, <2>3
    <3>2. c.flags = "closed" => r = write_closed_at
      BY <1>4 DEF ListCell
    <3>3. r < r + 1
      BY <1>4
    <3>4. ListCell(r, e)'
      BY <1>5, <1>6, <3>2, <3>3 DEF ListCell
    <3> QED BY <2>3, <3>1, <3>4
  <2>4. CASE i # r
    <3>1. Off(x)' + j = i /\ Cell(x, j)' = cell
      BY <1>11, <2>1, <2>4
    <3>2. \A q \in Producers : Passed(q, i)' = Passed(q, i)
      BY <1>13 DEF Passed
    <3>3. (r <= i => r + 1 <= i) /\ (i < r => i < r + 1)
      BY <1>4, <2>2, <2>4
    <3>4. ListCell(i, cell)'
      BY <1>1, <1>5, <1>13, <2>2, <2>4, <3>2, <3>3 DEF ListCell
    <3> QED BY <3>1, <3>4
  <2> QED BY <2>3, <2>4
<1> QED BY <1>11, <1>13, <1>16, <1>17, <1>18 DEF ListAt

\* The consumer moves, and only write_block and the hint may.
LEMMA QuietTake ==
  ASSUME NEW size, ListAt(size), NEW m, NEW w, Takes(m, w), UNCHANGED <<blocks, read_offset>>,
         pc[Consumer] \notin {"parked", "reading"}, m \notin Pulling,
         heads'.head = heads.head, heads'.read = heads.read, heads'.hint \in Alloc, heads'.write \in Alloc,
         Off(heads'.write) <= read_offset, ListReclaim'
  PROVE  ListAt(size)'
<1>1. /\ Shape(heads.head, size)' /\ Spread(size) /\ Alloc' = Alloc
      /\ \A c : Off(c)' = Off(c) /\ \A j : Cell(c, j)' = Cell(c, j)
  BY SpreadSame
<1>2. Keeps(size)
  BY <1>1 DEF Spread, Keeps
<1>3. /\ pc'[Consumer] = m /\ \A q \in Producers : pc'[q] = pc[q] /\ walks'[q] = walks[q]
      /\ ListTypes' /\ ListTickets' /\ ListWalks(size)'
  BY <1>2, TakeStays
<1>4. UNCHANGED <<read_offset, write_offset, write_closed_at>>
  BY DEF Takes
<1>5. ListHeads(size)'
  <2>1. PICK wr, hi, rd : wr = heads'.write /\ hi = heads'.hint /\ rd = heads.read
    OBVIOUS
  <2>2. rd \in Alloc /\ Off(rd) <= read_offset /\ read_offset <= Off(rd) + size
    BY <2>1 DEF ListAt, ListHeads
  <2>3. m # "reading"
    BY DEF Pulling
  <2> QED BY <1>1, <1>3, <2>1, <2>2, <2>3 DEF ListHeads, Off
<1>6. ListCells(size)'
  <2> SUFFICES ASSUME NEW x \in Alloc, NEW j \in 0 .. size - 1 PROVE ListCell(Off(x) + j, Cell(x, j))'
    BY <1>1 DEF ListCells
  <2>1. PICK i, cell : i = Off(x) + j /\ cell = Cell(x, j)
    OBVIOUS
  <2>2. ListCell(i, cell)
    BY <2>1 DEF ListAt, ListCells
  <2>3. ListCell(i, cell)'
    BY <1>3, <1>4, <2>2, CellStays
  <2> QED BY <1>1, <2>1, <2>3
<1> QED BY <1>1, <1>3, <1>5, <1>6 DEF ListAt

\* What a reclaim is of, and where the consumer's own walk is.
LEMMA ReclaimFacts ==
  ASSUME NEW size, ListAt(size)
  PROVE  /\ pc \in [Producers \cup {Consumer} -> OwnLabels \cup TakeLabels]
         /\ walks \in [Producers \cup {Consumer} -> Walks] /\ walks[Consumer] \in Walks
         /\ heads \in [write : BlockIds, hint : BlockIds, read : BlockIds, head : BlockIds, pull : MaybeBlock]
         /\ pending \in [old : MaybeBlock, new : MaybeBlock, cutoff : Nat]
         /\ Off(heads.read) <= read_offset /\ Off(heads.write) <= read_offset
         /\ \A m : m \in Reclaiming \cup {"idle"} =>
              m \in TakeLabels /\ m \notin Pulling /\ m \notin {"parked", "reading"}
<1>1. \A m : m \in Reclaiming \cup {"idle"} => m \in TakeLabels /\ m \notin Pulling /\ m \notin {"parked", "reading"}
  BY DEF Reclaiming, TakeLabels, Pulling
<1>2. Off(heads.read) <= read_offset /\ Off(heads.write) <= read_offset
  BY DEF ListAt, ListHeads
<1>3. /\ pc \in [Producers \cup {Consumer} -> OwnLabels \cup TakeLabels]
      /\ walks \in [Producers \cup {Consumer} -> Walks] /\ walks[Consumer] \in Walks
      /\ heads \in [write : BlockIds, hint : BlockIds, read : BlockIds, head : BlockIds, pull : MaybeBlock]
      /\ pending \in [old : MaybeBlock, new : MaybeBlock, cutoff : Nat]
  BY DEF ListAt, ListTypes
<1> QED BY <1>1, <1>2, <1>3

\* The consumer moves and reads nothing.
LEMMA TakeQuietly ==
  ASSUME NEW size, ListAt(size), NEW m \in Reclaiming \cup {"idle"}, NEW w \in Walks,
         pc' = [pc EXCEPT ![Consumer] = m], walks' = [walks EXCEPT ![Consumer] = w],
         UNCHANGED <<write_offset, read_offset, closed, write_closed_at, pushes>>,
         heads' \in [write : BlockIds, hint : BlockIds, read : BlockIds, head : BlockIds, pull : MaybeBlock],
         pending' \in [old : MaybeBlock, new : MaybeBlock, cutoff : Nat]
  PROVE  Takes(m, w)
<1>1. m \in TakeLabels /\ read_offset \in Nat /\ read_offset <= Cutoff
  BY ReclaimFacts, ListFacts
<1>2. \A q \in Producers : pc[q] \in Owning => read_offset <= walks[q].at
  BY DEF ListAt, ListTickets, TicketOf
<1> QED BY <1>1, <1>2 DEF Takes

\* try_start_reclaim begins with write_block.
LEMMA StartReclaimStep ==
  ASSUME NEW size, ListAt(size), MU!StartReclaim
  PROVE  ListAt(size)'
<1>0. /\ pc[Consumer] = "start" /\ pc[Consumer] \notin {"parked", "reading"}
      /\ UNCHANGED <<blocks, write_offset, read_offset, closed, write_closed_at, pending, pushes>>
  BY DEF MU!StartReclaim
<1>1. PICK rd, hi : rd = heads.read /\ hi = heads.hint
  OBVIOUS
<1>2. /\ rd \in Alloc /\ hi \in Alloc /\ Off(rd) <= read_offset /\ Off(rd) \in Nat /\ Off(hi) \in Nat
      /\ heads.write \in Alloc /\ hi \in MaybeBlock /\ rd \in BlockIds
  BY <1>1, ListFacts, ReclaimFacts DEF MaybeBlock
<1>3. /\ pc \in [Producers \cup {Consumer} -> OwnLabels \cup TakeLabels]
      /\ walks \in [Producers \cup {Consumer} -> Walks] /\ walks[Consumer] \in Walks
      /\ heads \in [write : BlockIds, hint : BlockIds, read : BlockIds, head : BlockIds, pull : MaybeBlock]
      /\ pending \in [old : MaybeBlock, new : MaybeBlock, cutoff : Nat]
  BY ReclaimFacts
<1>4. CASE pending.old # None \/ blocks[heads.head].offset >= MU!Start(read_offset)
  <2>1. PICK w : w = walks[Consumer]
    OBVIOUS
  <2>2. pc' = [pc EXCEPT ![Consumer] = "reclaimed"] /\ walks' = [walks EXCEPT ![Consumer] = w] /\ heads' = heads
    <3>1. pc' = [pc EXCEPT ![Consumer] = "reclaimed"] /\ walks' = walks /\ heads' = heads
      BY <1>4 DEF MU!StartReclaim, MU!Goto
    <3> QED BY <1>3, <2>1, <3>1
  <2>3. "reclaimed" \in Reclaiming \cup {"idle"} /\ w \in Walks /\ "reclaimed" \notin Pulling
    BY <1>3, <2>1 DEF Reclaiming, Pulling
  <2>4. Takes("reclaimed", w)
    BY <1>0, <1>3, <2>2, <2>3, TakeQuietly
  <2>5. Shape(heads.head, size)' /\ Spread(size) /\ Alloc' = Alloc /\ Off(rd)' = Off(rd)
    BY <1>0, <2>2, SpreadSame
  <2>6. Keeps(size)
    BY <2>5 DEF Spread, Keeps
  <2>7. pc'[Consumer] = "reclaimed" /\ \A q \in Producers : pc'[q] = pc[q] /\ walks'[q] = walks[q]
    BY <2>4, TakeStays
  <2>8. ListReclaim'
    <3>1. Off(heads.read) <= blocks'[heads'.read].offset /\ heads'.read \in Alloc'
      BY <1>1, <1>2, <2>2, <2>5 DEF Off
    <3> QED BY <1>0, <2>2, <2>5, <2>6, <2>7, <3>1, ReclaimStays
  <2>9. Off(heads'.write) <= read_offset /\ heads'.write \in Alloc /\ heads'.hint \in Alloc
    BY <1>1, <1>2, <2>2, ReclaimFacts
  <2> QED BY <1>0, <2>2, <2>3, <2>4, <2>8, <2>9, QuietTake
<1>5. CASE ~(pending.old # None \/ blocks[heads.head].offset >= MU!Start(read_offset))
  <2>1. PICK w : w = [walks[Consumer] EXCEPT !.seen = hi]
    OBVIOUS
  <2>2. /\ pc' = [pc EXCEPT ![Consumer] = "advance"] /\ walks' = [walks EXCEPT ![Consumer] = w]
        /\ heads' = [heads EXCEPT !.write = rd] /\ pending.old = None
    <3>1. /\ pc' = [pc EXCEPT ![Consumer] = "advance"] /\ heads' = [heads EXCEPT !.write = rd]
          /\ walks' = [walks EXCEPT ![Consumer].seen = hi]
      BY <1>1, <1>5 DEF MU!StartReclaim, MU!Goto
    <3> QED BY <1>3, <1>5, <2>1, <3>1
  <2>3. "advance" \in Reclaiming \cup {"idle"} /\ w \in Walks /\ "advance" \notin Pulling /\ w.seen = hi
    BY <1>2, <1>3, <2>1 DEF Reclaiming, Pulling, Walks
  <2>4. /\ heads' \in [write : BlockIds, hint : BlockIds, read : BlockIds, head : BlockIds, pull : MaybeBlock]
        /\ heads'.write = rd /\ heads'.read = rd /\ heads'.hint = hi /\ heads'.head = heads.head
    BY <1>1, <1>2, <1>3, <2>2
  <2>5. Takes("advance", w)
    BY <1>0, <1>3, <2>2, <2>3, <2>4, TakeQuietly
  <2>6. Alloc' = Alloc /\ \A c : Off(c)' = Off(c)
    BY <1>0, <2>4, SpreadSame
  <2>7. pc'[Consumer] = "advance" /\ walks'[Consumer] = w
    BY <2>5, TakeStays
  <2>8. ListReclaim'
    BY <1>0, <1>2, <2>2, <2>3, <2>4, <2>6, <2>7 DEF ListReclaim, Off
  <2> QED BY <1>0, <1>1, <1>2, <2>3, <2>4, <2>5, <2>8, QuietTake
<1> QED BY <1>4, <1>5

\* Then the hint, which moves forward or has done so already.
LEMMA ReclaimHintStep ==
  ASSUME NEW size, ListAt(size), MU!ReclaimHint
  PROVE  ListAt(size)'
<1>0. /\ pc[Consumer] = "advance" /\ pc[Consumer] \notin {"parked", "reading"}
      /\ UNCHANGED <<blocks, write_offset, read_offset, closed, write_closed_at, pending, pushes>>
  BY DEF MU!ReclaimHint
<1>1. PICK rd, hi, s, wr : rd = heads.read /\ hi = heads.hint /\ s = walks[Consumer].seen /\ wr = heads.write
  OBVIOUS
<1>2. /\ rd \in Alloc /\ hi \in Alloc /\ s \in Alloc /\ wr \in Alloc /\ wr = rd /\ pending.old = None
      /\ Off(rd) \in Nat /\ Off(hi) \in Nat /\ Off(s) \in Nat /\ Off(wr) <= read_offset
      /\ Off(s) <= Off(hi) /\ hi \in MaybeBlock /\ rd \in BlockIds
  <2>1. s \in Alloc /\ Off(s) <= Off(hi) /\ wr = rd /\ pending.old = None
    BY <1>0, <1>1 DEF ListAt, ListReclaim
  <2> QED BY <1>1, <2>1, ListFacts, ReclaimFacts DEF MaybeBlock
<1>3. /\ pc \in [Producers \cup {Consumer} -> OwnLabels \cup TakeLabels]
      /\ walks \in [Producers \cup {Consumer} -> Walks] /\ walks[Consumer] \in Walks
      /\ heads \in [write : BlockIds, hint : BlockIds, read : BlockIds, head : BlockIds, pull : MaybeBlock]
      /\ pending \in [old : MaybeBlock, new : MaybeBlock, cutoff : Nat]
  BY ReclaimFacts
<1>4. MU!Advance(Consumer, s, rd, "take_cutoff")
  BY <1>1 DEF MU!ReclaimHint
<1>5. CASE ~(Off(s) >= Off(rd) \/ hi = s)
  <2>1. PICK w : w = [walks[Consumer] EXCEPT !.seen = hi]
    OBVIOUS
  <2>2. pc' = [pc EXCEPT ![Consumer] = "advance"] /\ walks' = [walks EXCEPT ![Consumer] = w] /\ heads' = heads
    <3>1. pc' = pc /\ walks' = [walks EXCEPT ![Consumer].seen = hi] /\ heads' = heads
      BY <1>1, <1>4, <1>5 DEF MU!Advance, Off
    <3> QED BY <1>0, <1>3, <2>1, <3>1
  <2>3. "advance" \in Reclaiming \cup {"idle"} /\ w \in Walks /\ "advance" \notin Pulling /\ w.seen = hi
    BY <1>2, <1>3, <2>1 DEF Reclaiming, Pulling, Walks
  <2>4. Takes("advance", w)
    BY <1>0, <1>3, <2>2, <2>3, TakeQuietly
  <2>5. Alloc' = Alloc /\ \A c : Off(c)' = Off(c)
    BY <1>0, <2>2, SpreadSame
  <2>6. pc'[Consumer] = "advance" /\ walks'[Consumer] = w
    BY <2>4, TakeStays
  <2>7. ListReclaim'
    <3>1. /\ heads'.write = wr /\ heads'.read = rd /\ heads'.hint = hi /\ pending' = pending
          /\ walks'[Consumer].seen = hi
      BY <1>0, <1>1, <2>2, <2>3, <2>6
    <3>2. hi \in Alloc' /\ Off(hi)' <= Off(hi)'
      BY <1>2, <2>5
    <3> QED BY <1>2, <2>6, <3>1, <3>2 DEF ListReclaim, Off
  <2> QED BY <1>0, <1>1, <1>2, <2>2, <2>3, <2>4, <2>7, QuietTake
<1>6. CASE Off(s) >= Off(rd) \/ hi = s
  <2>1. PICK w : w = [walks[Consumer] EXCEPT !.seen = None, !.far = None, !.far_offset = 0]
    OBVIOUS
  <2>2. /\ pc' = [pc EXCEPT ![Consumer] = "take_cutoff"] /\ walks' = [walks EXCEPT ![Consumer] = w]
        /\ heads' = IF Off(s) < Off(rd) THEN [heads EXCEPT !.hint = rd] ELSE heads
    <3>1. /\ pc' = [pc EXCEPT ![Consumer] = "take_cutoff"]
          /\ walks' = [walks EXCEPT ![Consumer].seen = None, ![Consumer].far = None, ![Consumer].far_offset = 0]
          /\ heads' = IF Off(s) < Off(rd) THEN [heads EXCEPT !.hint = rd] ELSE heads
      BY <1>1, <1>4, <1>6 DEF MU!Advance, MU!Goto, Off
    <3>2. walks' = [walks EXCEPT ![Consumer] = w]
      BY <1>3, <2>1, <3>1 DEF Walks
    <3> QED BY <3>1, <3>2
  <2>3. "take_cutoff" \in Reclaiming \cup {"idle"} /\ w \in Walks /\ "take_cutoff" \notin Pulling
    BY <1>3, <2>1 DEF Reclaiming, Pulling, Walks, MaybeBlock
  <2>4. PICK x : x = heads'.hint
    OBVIOUS
  <2>5. /\ heads' \in [write : BlockIds, hint : BlockIds, read : BlockIds, head : BlockIds, pull : MaybeBlock]
        /\ heads'.write = wr /\ heads'.read = rd /\ heads'.head = heads.head /\ x \in Alloc /\ Off(rd) <= Off(x)
    <3>1. CASE Off(s) < Off(rd)
      <4>1. heads' = [heads EXCEPT !.hint = rd]
        BY <2>2, <3>1
      <4>2. heads'.write = wr /\ heads'.read = rd /\ heads'.head = heads.head /\ x = rd
        BY <1>1, <1>3, <2>4, <4>1
      <4>3. heads' \in [write : BlockIds, hint : BlockIds, read : BlockIds, head : BlockIds, pull : MaybeBlock]
        BY <1>2, <1>3, <4>1
      <4> QED BY <1>2, <4>2, <4>3
    <3>2. CASE ~(Off(s) < Off(rd))
      <4>1. heads' = heads /\ x = hi
        BY <1>1, <2>2, <2>4, <3>2
      <4>2. Off(rd) <= Off(hi)
        BY <1>2, <3>2
      <4> QED BY <1>1, <1>2, <1>3, <4>1, <4>2
    <3> QED BY <3>1, <3>2
  <2>6. Takes("take_cutoff", w)
    BY <1>0, <1>3, <2>2, <2>3, <2>5, TakeQuietly
  <2>7. Alloc' = Alloc /\ \A c : Off(c)' = Off(c)
    BY <1>0, <2>5, SpreadSame
  <2>8. pc'[Consumer] = "take_cutoff"
    BY <2>6, TakeStays
  <2>9. ListReclaim'
    BY <1>0, <1>2, <2>4, <2>5, <2>7, <2>8 DEF ListReclaim, Off
  <2> QED BY <1>0, <1>1, <1>2, <2>3, <2>4, <2>5, <2>6, <2>9, QuietTake
<1> QED BY <1>5, <1>6

\* Then the cutoff: whoever has a ticket below it may still be in the old blocks.
LEMMA ReclaimCutoffStep ==
  ASSUME NEW size, ListAt(size), MU!ReclaimCutoff
  PROVE  ListAt(size)'
<1>1. PICK rd, hi, wr, w : rd = heads.read /\ hi = heads.hint /\ wr = heads.write /\ w = walks[Consumer]
  OBVIOUS
<1>2. /\ pc \in [Producers \cup {Consumer} -> OwnLabels \cup TakeLabels]
      /\ walks \in [Producers \cup {Consumer} -> Walks] /\ w \in Walks
      /\ heads \in [write : BlockIds, hint : BlockIds, read : BlockIds, head : BlockIds, pull : MaybeBlock]
  BY <1>1, ReclaimFacts
<1>3. /\ pc[Consumer] = "take_cutoff" /\ pc[Consumer] \notin {"parked", "reading"}
      /\ pc' = [pc EXCEPT ![Consumer] = "reclaimed"] /\ walks' = [walks EXCEPT ![Consumer] = w]
      /\ pending' = [old |-> heads.head, new |-> rd, cutoff |-> write_offset]
      /\ UNCHANGED <<blocks, write_offset, read_offset, closed, write_closed_at, heads, pushes>>
  BY <1>1, <1>2 DEF MU!ReclaimCutoff, MU!Goto
<1>4. /\ rd \in Alloc /\ hi \in Alloc /\ wr \in Alloc /\ wr = rd /\ Off(rd) <= Off(hi) /\ Off(wr) <= read_offset
      /\ Off(rd) \in Nat /\ rd \in MaybeBlock /\ heads.head \in MaybeBlock /\ write_offset \in Nat
  <2>1. wr = rd /\ Off(rd) <= Off(hi)
    BY <1>1, <1>3 DEF ListAt, ListReclaim
  <2> QED BY <1>1, <1>2, <2>1, ListFacts, ReclaimFacts DEF MaybeBlock
<1>5. "reclaimed" \in Reclaiming \cup {"idle"} /\ "reclaimed" \notin Pulling
  BY DEF Reclaiming, Pulling
<1>6. pending' \in [old : MaybeBlock, new : MaybeBlock, cutoff : Nat]
  BY <1>3, <1>4
<1>7. Takes("reclaimed", w)
  BY <1>2, <1>3, <1>5, <1>6, TakeQuietly
<1>8. Alloc' = Alloc /\ \A c : Off(c)' = Off(c)
  BY <1>3, SpreadSame
<1>9. pc'[Consumer] = "reclaimed" /\ \A q \in Producers : pc'[q] = pc[q] /\ walks'[q] = walks[q]
  BY <1>7, TakeStays
<1>10. ASSUME NEW q \in Producers PROVE ReclaimOf(q)'
  <2>1. TicketOf(q) /\ pc'[q] = pc[q] /\ walks'[q] = walks[q]
    BY <1>9 DEF ListAt, ListTickets
  <2>2. pc[q] \in Owning => walks[q].at < write_offset /\ walks[q].end <= write_offset
    BY <2>1 DEF TicketOf
  <2> QED BY <1>3, <2>1, <2>2 DEF ReclaimOf
<1>11. ListReclaim'
  BY <1>1, <1>3, <1>4, <1>8, <1>9, <1>10 DEF ListReclaim, Off
<1> QED BY <1>1, <1>3, <1>4, <1>5, <1>7, <1>11, QuietTake

\* Once the tickets below the cutoff have been read, nobody is in the blocks that go.
LEMMA NobodyBehind ==
  ASSUME NEW size, ListAt(size), pending.old # None, read_offset >= pending.cutoff,
         NEW new, new = pending.new, NEW q \in Producers, pc[q] \in Walking
  PROVE  /\ walks[q].block \in Alloc /\ Off(new) <= Off(walks[q].block)
         /\ pc[q] = "find" => walks[q].far \in Alloc /\ Off(new) <= Off(walks[q].far)
<1>1. /\ ReclaimOf(q) /\ TicketOf(q) /\ WalkOf(q, size) /\ pc[q] \in Owning /\ new \in Alloc
  BY DEF ListAt, ListReclaim, ListTickets, ListWalks, Owning
<1>2. /\ walks[q].at \in Nat /\ walks[q].offset \in Nat /\ walks[q].far_offset \in Nat
      /\ read_offset \in Nat /\ pending.cutoff \in Nat
  BY ListFacts
<1>3. ~(walks[q].at < pending.cutoff)
  BY <1>1, <1>2 DEF TicketOf
<1>4. walks[q].block \in Alloc /\ Off(new) <= Off(walks[q].block)
  BY <1>1, <1>3 DEF ReclaimOf, WalkOf
<1>5. PICK x, f : x = walks[q].block /\ f = walks[q].far
  OBVIOUS
<1>6. ASSUME pc[q] = "find" PROVE f \in Alloc /\ Off(new) <= Off(f)
  <2>1. f \in Alloc /\ Off(f) = walks[q].far_offset /\ Off(x) = walks[q].offset /\ walks[q].offset <= walks[q].far_offset
    BY <1>1, <1>5, <1>6 DEF WalkOf
  <2>2. Off(new) <= Off(x) /\ Off(new) \in Nat
    BY <1>1, <1>4, <1>5, ListFacts
  <2> QED BY <1>2, <2>1, <2>2
<1> QED BY <1>4, <1>5, <1>6

\* try_finish_pending_reclaim, where there is nothing to finish yet.
LEMMA FinishNothing ==
  ASSUME NEW size, ListAt(size), NEW m \in {"start", "idle"}, pc[Consumer] \in {"reclaim", "reclaimed"},
         MU!FinishPending(m), UNCHANGED <<blocks, heads, pending>>
  PROVE  ListAt(size)'
<1>0. /\ pc[Consumer] \notin {"parked", "reading"} /\ m \in Reclaiming \cup {"idle"} /\ m \notin Pulling
      /\ m \notin {"advance", "take_cutoff"}
  BY DEF Reclaiming, Pulling
<1>1. PICK w, rd, wr, hi : w = walks[Consumer] /\ rd = heads.read /\ wr = heads.write /\ hi = heads.hint
  OBVIOUS
<1>2. /\ pc \in [Producers \cup {Consumer} -> OwnLabels \cup TakeLabels]
      /\ walks \in [Producers \cup {Consumer} -> Walks] /\ w \in Walks
      /\ heads \in [write : BlockIds, hint : BlockIds, read : BlockIds, head : BlockIds, pull : MaybeBlock]
      /\ pending \in [old : MaybeBlock, new : MaybeBlock, cutoff : Nat]
      /\ rd \in Alloc /\ wr \in Alloc /\ hi \in Alloc /\ Off(wr) <= read_offset /\ Off(rd) \in Nat
  BY <1>1, ReclaimFacts, ListFacts
<1>3. /\ pc' = [pc EXCEPT ![Consumer] = m] /\ walks' = [walks EXCEPT ![Consumer] = w]
      /\ UNCHANGED <<write_offset, read_offset, closed, write_closed_at, pushes>>
  <2>1. pc' = [pc EXCEPT ![Consumer] = m] /\ UNCHANGED <<walks, write_offset, read_offset, closed, write_closed_at, pushes>>
    BY DEF MU!FinishPending, MU!Goto
  <2> QED BY <1>1, <1>2, <2>1
<1>4. Takes(m, w)
  BY <1>0, <1>2, <1>3, TakeQuietly
<1>5. Shape(heads.head, size)' /\ Spread(size) /\ Alloc' = Alloc /\ Off(rd)' = Off(rd)
  BY SpreadSame
<1>6. Keeps(size)
  BY <1>5 DEF Spread, Keeps
<1>7. pc'[Consumer] = m /\ \A q \in Producers : pc'[q] = pc[q] /\ walks'[q] = walks[q]
  BY <1>4, TakeStays
<1>8. ListReclaim'
  <2>1. Off(heads.read) <= blocks'[heads'.read].offset /\ heads'.read \in Alloc'
    BY <1>1, <1>2, <1>5 DEF Off
  <2> QED BY <1>0, <1>3, <1>5, <1>6, <1>7, <2>1, ReclaimStays
<1>9. Off(heads'.write) <= read_offset /\ heads'.write \in Alloc /\ heads'.hint \in Alloc
  BY <1>1, <1>2
<1> QED BY <1>0, <1>3, <1>4, <1>8, <1>9, QuietTake

\* try_finish_pending_reclaim, where every ticket below the cutoff has been read.
LEMMA FinishBlocks ==
  ASSUME NEW size, ListAt(size), NEW m \in {"start", "idle"}, pc[Consumer] \in {"reclaim", "reclaimed"},
         MU!FinishPending(m), pending.old # None, read_offset >= pending.cutoff
  PROVE  ListAt(size)'
<1>0. /\ pc[Consumer] \notin {"parked", "reading"} /\ m \in Reclaiming \cup {"idle"} /\ m \notin Pulling
      /\ m \notin {"advance", "take_cutoff", "reading"} /\ m \notin {"parked", "reading"}
  BY DEF Reclaiming, Pulling
<1>1. PICK w, rd, wr, hi, hd, new : /\ w = walks[Consumer] /\ rd = heads.read /\ wr = heads.write
                                    /\ hi = heads.hint /\ hd = heads.head /\ new = pending.new
  OBVIOUS
<1>2. /\ pc \in [Producers \cup {Consumer} -> OwnLabels \cup TakeLabels]
      /\ walks \in [Producers \cup {Consumer} -> Walks] /\ w \in Walks
      /\ heads \in [write : BlockIds, hint : BlockIds, read : BlockIds, head : BlockIds, pull : MaybeBlock]
      /\ rd \in Alloc /\ wr \in Alloc /\ hi \in Alloc
      /\ Off(wr) <= read_offset /\ Off(rd) <= read_offset
  BY <1>1, ReclaimFacts, ListFacts
<1>3. /\ pending.old = hd /\ new \in Alloc /\ new \in BlockIds
      /\ Off(new) <= Off(rd) /\ Off(new) <= Off(wr) /\ Off(new) <= Off(hi)
  <2>1. pending.old = hd /\ new \in Alloc /\ Off(new) <= Off(rd) /\ Off(new) <= Off(wr) /\ Off(new) <= Off(hi)
    BY <1>1 DEF ListAt, ListReclaim
  <2> QED BY <2>1, ListFacts
<1>4. /\ blocks' = MU!Reclaimed(hd, new) /\ heads' = [heads EXCEPT !.head = new] /\ pending' = MU!NoReclaim
      /\ pc' = [pc EXCEPT ![Consumer] = m] /\ UNCHANGED walks
      /\ UNCHANGED <<write_offset, read_offset, closed, write_closed_at, pushes>>
  BY <1>1, <1>3 DEF MU!FinishPending, MU!Goto
<1>5. walks' = [walks EXCEPT ![Consumer] = w]
  BY <1>1, <1>2, <1>4
<1>6. /\ heads' \in [write : BlockIds, hint : BlockIds, read : BlockIds, head : BlockIds, pull : MaybeBlock]
      /\ heads'.head = new /\ heads'.read = rd /\ heads'.write = wr /\ heads'.hint = hi
  BY <1>1, <1>2, <1>3, <1>4
<1>7. pending'.old = None /\ pending' \in [old : MaybeBlock, new : MaybeBlock, cutoff : Nat]
  BY <1>4 DEF MU!NoReclaim, MaybeBlock
<1>8. Takes(m, w)
  BY <1>0, <1>2, <1>4, <1>5, <1>6, <1>7, TakeQuietly
<1>9. /\ pc'[Consumer] = m /\ \A q \in Producers : pc'[q] = pc[q] /\ walks'[q] = walks[q]
      /\ ListTypes' /\ ListTickets'
  BY <1>8, TakeStays
<1>10. /\ Shape(new, size)' /\ Alloc' = Alloc
       /\ \A c \in Alloc :
            IF Off(new) <= Off(c)
            THEN Off(c)' = Off(c) /\ \A j \in 0 .. size - 1 : Cell(c, j)' = Cell(c, j)
            ELSE /\ \A a \in Alloc : Off(a) + size <= Off(c)'
                 /\ \A j \in 0 .. size - 1 : Cell(c, j)' = EmptyCell
  <2>1. Shape(hd, size) /\ blocks' = BL!Reclaimed(hd, new)
    BY <1>1, <1>4, SameList DEF ListAt
  <2> QED BY <1>3, <2>1, Recycle
<1>11. /\ size \in Nat \ {0} /\ \A c \in Alloc : Off(c) \in Nat /\ Off(c)' \in Nat /\ Off(c) <= Off(c)'
  <2>1. size \in Nat \ {0} /\ \A c \in Alloc : Off(c) \in Nat
    BY ListFacts
  <2>2. \A c \in Alloc : Off(c)' \in Nat
    BY <1>10 DEF Shape, BlockTypes
  <2>3. ASSUME NEW c \in Alloc PROVE Off(c) <= Off(c)'
    <3>1. Off(c)' = Off(c) \/ Off(c) + size <= Off(c)'
      BY <1>10
    <3>2. Off(c) \in Nat /\ Off(c)' \in Nat
      BY <2>1, <2>2
    <3> QED BY <2>1, <3>1, <3>2
  <2> QED BY <2>1, <2>2, <2>3
<1>12. \A n \in Nat : Reach(n, size) => Reach(n, size)'
  <2> SUFFICES ASSUME NEW n \in Nat, Reach(n, size) PROVE Reach(n, size)'
    OBVIOUS
  <2>1. PICK c \in Alloc : n <= Off(c) + size
    BY DEF Reach
  <2>2. n <= Off(c)' + size
    BY <1>11, <2>1
  <2> QED BY <1>10, <2>1, <2>2 DEF Reach
<1>13. ASSUME NEW q \in Producers PROVE WalkOf(q, size)'
  <2>1. WalkOf(q, size) /\ pc'[q] = pc[q] /\ walks'[q] = walks[q] /\ walks[q].end \in Nat
    BY <1>9, ListFacts DEF ListAt, ListWalks
  <2>2. PICK b, s, f : b = walks[q].block /\ s = walks[q].seen /\ f = walks[q].far
    OBVIOUS
  <2>3. pc[q] \in Walking => b \in Alloc' /\ Off(b)' = Off(b)
    <3>1. pc[q] \in Walking => b \in Alloc /\ Off(new) <= Off(b)
      BY <1>1, <2>2, NobodyBehind
    <3> QED BY <1>10, <3>1
  <2>4. pc[q] = "find" => s \in Alloc' /\ f \in Alloc' /\ Off(f)' = Off(f)
    <3>1. pc[q] = "find" => pc[q] \in Walking
      BY DEF Walking
    <3>2. pc[q] = "find" => f \in Alloc /\ Off(new) <= Off(f)
      BY <1>1, <2>2, <3>1, NobodyBehind
    <3>3. pc[q] = "find" => s \in Alloc
      BY <2>1, <2>2 DEF WalkOf
    <3> QED BY <1>10, <3>2, <3>3
  <2>5. Reach(walks[q].end, size) => Reach(walks[q].end, size)'
    <3>1. PICK n : n = walks[q].end
      OBVIOUS
    <3>2. Reach(n, size) => Reach(n, size)'
      BY <1>12, <2>1, <3>1
    <3>3. Reach(walks[q].end, size)' <=> Reach(n, size)'
      BY <2>1, <3>1 DEF Reach
    <3> QED BY <3>1, <3>2, <3>3
  <2> QED BY <2>1, <2>2, <2>3, <2>4, <2>5 DEF WalkOf, Walking, Off, Reach
<1>14. Off(rd)' = Off(rd) /\ Off(wr)' = Off(wr) /\ Off(hi)' = Off(hi) /\ rd \in Alloc' /\ wr \in Alloc' /\ hi \in Alloc'
  BY <1>2, <1>3, <1>10
<1>15. ListHeads(size)'
  <2>1. read_offset <= Off(rd) + size
    BY <1>1 DEF ListAt, ListHeads
  <2> QED BY <1>0, <1>2, <1>4, <1>6, <1>9, <1>14, <2>1 DEF ListHeads, Off
<1>16. ListReclaim'
  BY <1>0, <1>7, <1>9 DEF ListReclaim
<1>17. ListCells(size)'
  <2> SUFFICES ASSUME NEW x \in Alloc, NEW j \in 0 .. size - 1 PROVE ListCell(Off(x) + j, Cell(x, j))'
    BY <1>10 DEF ListCells
  <2>1. CASE Off(new) <= Off(x)
    <3>1. PICK i, cell : i = Off(x) + j /\ cell = Cell(x, j)
      OBVIOUS
    <3>2. ListCell(i, cell)
      BY <3>1 DEF ListAt, ListCells
    <3>3. ListCell(i, cell)'
      BY <1>0, <1>4, <1>9, <3>2, CellStays
    <3>4. Off(x)' + j = i /\ Cell(x, j)' = cell
      BY <1>10, <2>1, <3>1
    <3> QED BY <3>3, <3>4
  <2>2. CASE ~(Off(new) <= Off(x))
    <3>1. Cell(x, j)' = EmptyCell
      BY <1>10, <2>2
    <3>2. Cell(x, j)'.data = None /\ Cell(x, j)'.flags = "empty"
      BY <3>1 DEF EmptyCell
    <3> QED BY <3>2 DEF ListCell
  <2> QED BY <2>1, <2>2
<1>18. ListWalks(size)'
  BY <1>13 DEF ListWalks
<1>19. Shape(heads.head, size)'
  BY <1>6, <1>10
<1> QED BY <1>9, <1>15, <1>16, <1>17, <1>18, <1>19 DEF ListAt

\* try_finish_pending_reclaim.
LEMMA FinishReclaimStep ==
  ASSUME NEW size, ListAt(size), MU!FinishReclaim
  PROVE  ListAt(size)'
<1>1. PICK m \in {"start", "idle"} : pc[Consumer] \in {"reclaim", "reclaimed"} /\ MU!FinishPending(m)
  BY DEF MU!FinishReclaim
<1>2. CASE pending.old # None /\ read_offset >= pending.cutoff
  BY <1>1, <1>2, FinishBlocks
<1>3. CASE ~(pending.old # None /\ read_offset >= pending.cutoff)
  <2>1. UNCHANGED <<blocks, heads, pending>>
    BY <1>1, <1>3 DEF MU!FinishPending
  <2> QED BY <1>1, <2>1, FinishNothing
<1> QED BY <1>2, <1>3

\* The destructor finds no value that it does not destroy.
LEMMA ListDestroyStep ==
  ASSUME NEW size, ListAt(size), MU!Destroy
  PROVE  ListGone'
<1>1. /\ write_closed_at # None /\ pc[Consumer] = "idle"
      /\ blocks' = MU!WithoutData(read_offset .. write_closed_at - 1)
      /\ pc' = [th \in DOMAIN pc |-> "gone"]
  BY ListFacts DEF MU!Destroy
<1>2. MU!WithoutData(read_offset .. write_closed_at - 1) = BL!WithoutData(read_offset .. write_closed_at - 1)
  BY SameList DEF MU!WithoutData, BL!WithoutData, Alloc
<1>h. PICK h : h = heads.head
  OBVIOUS
<1>3. PICK w \in Nat, r \in Nat : w = write_closed_at /\ r = read_offset
  BY <1>1, ListFacts
<1>4. Cutoff = w
  BY <1>1, <1>3 DEF Cutoff
<1>5. /\ Alloc' = Alloc
      /\ \A c \in Alloc : /\ DOMAIN blocks'[c].values = 0 .. size - 1
                          /\ \A j \in 0 .. size - 1 :
                               Cell(c, j)'.data = IF Off(c) + j \in r .. w - 1 /\ Cell(c, j).flags = "data"
                                                  THEN None ELSE Cell(c, j).data
  <2>1. Shape(h, size) /\ blocks' = BL!WithoutData(r .. w - 1)
    BY <1>1, <1>2, <1>3, <1>h DEF ListAt
  <2> QED BY <2>1, Emptied
<1>6. ASSUME NEW c \in Alloc, NEW j \in 0 .. size - 1 PROVE Cell(c, j)'.data = None
  <2>1. PICK k, old : k = Off(c) + j /\ old = Cell(c, j)
    OBVIOUS
  <2>2. ListCell(k, old)
    BY <2>1 DEF ListAt, ListCells
  <2>3. k \in Int
    BY <2>1, ListFacts
  <2>4. old.data # None => old.flags = "data" /\ k \in r .. w - 1
    BY <1>1, <1>3, <1>4, <2>2, <2>3 DEF ListCell
  <2> QED BY <1>5, <2>1, <2>4
<1>7. pc' = [th \in Producers \cup {Consumer} |-> "gone"]
  BY <1>1, ListFacts
<1> QED BY <1>5, <1>6, <1>7 DEF ListGone

\* Nothing is left in the queue before its first item.
LEMMA ListInit ==
  ASSUME MU!Init
  PROVE  ListInv
<1>1. BL!BlocksInit
  BY DEF MU!Init, MU!BlocksInit, BL!BlocksInit, MU!FirstBlock, BL!FirstBlock, MU!NewBlock, BL!NewBlock,
         MU!Unused, BL!Unused
<1>2. PICK f : f = BL!FirstBlock
  OBVIOUS
<1>3. PICK size \in BlockSizes : /\ Shape(f, size) /\ Alloc = {f} /\ Off(f) = 0 /\ f \in BlockIds
                                 /\ \A j \in 0 .. size - 1 : Cell(f, j) = EmptyCell
  BY <1>1, <1>2, Begins
<1>4. /\ write_offset = 0 /\ read_offset = 0 /\ write_closed_at = None /\ closed = FALSE
      /\ heads = [write |-> f, hint |-> f, read |-> f, head |-> f, pull |-> None]
      /\ pending = MU!NoReclaim /\ pushes = [p \in Producers |-> 0]
      /\ walks = [th \in Producers \cup {Consumer} |-> MU!NoWalk]
      /\ pc = [th \in Producers \cup {Consumer} |-> "idle"]
  BY <1>2 DEF MU!Init, MU!FirstBlock, BL!FirstBlock
<1>5. /\ size \in Nat \ {0} /\ pc[Consumer] = "idle" /\ \A p \in Producers : pc[p] = "idle"
  BY <1>4, BlocksAssumption
<1>6. /\ "idle" \notin Owning /\ "idle" \notin Walking /\ "idle" \notin Pulling
      /\ "idle" \in OwnLabels /\ "idle" \in TakeLabels
  BY DEF Owning, Walking, Pulling, OwnLabels, TakeLabels
<1>7. ListTypes
  <2>1. MU!NoWalk \in Walks
    BY DEF MU!NoWalk, Walks, MaybeBlock
  <2>2. pending \in [old : MaybeBlock, new : MaybeBlock, cutoff : Nat] /\ pending.old = None
    BY <1>4 DEF MU!NoReclaim, MaybeBlock
  <2>3. walks \in [Producers \cup {Consumer} -> Walks]
    BY <1>4, <2>1
  <2>4. pc \in [Producers \cup {Consumer} -> OwnLabels \cup TakeLabels]
    BY <1>4, <1>6
  <2>5. heads \in [write : BlockIds, hint : BlockIds, read : BlockIds, head : BlockIds, pull : MaybeBlock]
    BY <1>3, <1>4 DEF MaybeBlock
  <2> QED BY <1>4, <1>5, <1>6, <2>2, <2>3, <2>4, <2>5 DEF ListTypes
<1>8. Cutoff = 0
  BY <1>4 DEF Cutoff
<1>9. ListTickets
  <2>1. \A p \in Producers : TicketOf(p)
    BY <1>5, <1>6 DEF TicketOf
  <2>2. \A p, q \in Producers : p # q => Apart(p, q)
    BY <1>5, <1>6 DEF Apart
  <2> QED BY <1>4, <1>8, <2>1, <2>2 DEF ListTickets
<1>10. ListWalks(size)
  BY <1>5, <1>6 DEF ListWalks, WalkOf
<1>11. ListHeads(size)
  <2>1. heads.write = f /\ heads.hint = f /\ heads.read = f
    BY <1>4
  <2> QED BY <1>3, <1>4, <1>5, <1>6, <2>1 DEF ListHeads
<1>12. ListReclaim
  BY <1>4, <1>5 DEF ListReclaim, MU!NoReclaim
<1>13. ListCells(size)
  <2> SUFFICES ASSUME NEW j \in 0 .. size - 1 PROVE ListCell(0 + j, EmptyCell)
    BY <1>3 DEF ListCells
  <2> QED BY DEF ListCell, EmptyCell
<1>14. Shape(heads.head, size)
  BY <1>3, <1>4
<1> QED BY <1>7, <1>9, <1>10, <1>11, <1>12, <1>13, <1>14 DEF ListInv, ListAt

\* Whatever happens to a queue of this kind keeps what is said of it.
LEMMA ListStill ==
  ASSUME NEW size, ListAt(size), UNCHANGED mcVars
  PROVE  ListAt(size)'
<1>1. UNCHANGED <<blocks, write_offset, read_offset, closed, write_closed_at, heads, pending, walks, pushes, pc>>
  BY DEF mcVars
<1>2. /\ Shape(heads.head, size)' /\ Spread(size) /\ Alloc' = Alloc
      /\ \A c : Off(c)' = Off(c) /\ \A j : Cell(c, j)' = Cell(c, j)
  BY <1>1, SpreadSame
<1>3. ListTypes'
  BY <1>1 DEF ListAt, ListTypes
<1>4. Cutoff' = Cutoff
  BY <1>1 DEF Cutoff
<1>5. ListTickets'
  BY <1>1, <1>4 DEF ListAt, ListTickets, TicketOf, Apart
<1>6. ListWalks(size)'
  BY <1>1, <1>2, WalkKept DEF ListWalks
<1>7. ListHeads(size)'
  BY <1>1, <1>2 DEF ListAt, ListHeads, Off, Cell
<1>8. ListReclaim'
  BY <1>1, <1>2 DEF ListAt, ListReclaim, ReclaimOf, Off
<1>9. ListCells(size)'
  BY <1>1, <1>2, <1>4 DEF ListAt, ListCells, ListCell, Passed
<1> QED BY <1>2, <1>3, <1>5, <1>6, <1>7, <1>8, <1>9 DEF ListAt

\* Whatever happens to a queue of this kind keeps what is said of it.
LEMMA ListNext ==
  ASSUME ListInv, queue = "mpsc_unbounded", [MCNext]_mcVars
  PROVE  ListInv'
<1>1. CASE UNCHANGED mcVars
  <2>1. CASE ListGone
    <3>1. UNCHANGED <<blocks, pc>>
      BY <1>1 DEF mcVars
    <3>2. Alloc' = Alloc /\ \A c : \A j : Cell(c, j)' = Cell(c, j)
      BY <3>1 DEF Alloc, BL!Allocated, Cell
    <3>3. ListGone'
      BY <2>1, <3>1, <3>2 DEF ListGone
    <3> QED BY <3>3 DEF ListInv
  <2>2. ASSUME NEW size \in BlockSizes, ListAt(size) PROVE ListInv'
    <3>1. ListAt(size)'
      BY <1>1, <2>2, ListStill
    <3> QED BY <3>1 DEF ListInv
  <2> QED BY <2>1, <2>2 DEF ListInv
<1>2. CASE (\E p \in Producers : MU!Post(p) \/ MU!Close(p)) \/ MU!Consume \/ MU!Destroy
  <2>1. CASE ListGone
    <3>1. pc[Consumer] = "gone" /\ \A p \in Producers : pc[p] = "gone"
      BY <2>1 DEF ListGone
    <3>2. ASSUME NEW p \in Producers PROVE ~MU!Post(p) /\ ~MU!Close(p)
      BY <3>1 DEF MU!Post, MU!Close, MU!GetTicket, MU!CheckClosed, MU!LoadHint, MU!StartBlock, MU!FindBlock,
                  MU!FindEnd, MU!AdvanceHint, MU!AllReached, MU!Reached, MU!WriteElement, MU!NextBlock,
                  MU!CloseFlag, MU!CloseCutoff, MU!Seal
    <3>3. ~MU!Consume
      BY <3>1 DEF MU!Consume, MU!Look, MU!Wait, MU!Read, MU!FinishReclaim, MU!StartReclaim, MU!ReclaimHint,
                  MU!ReclaimCutoff
    <3>4. ~MU!Destroy
      BY <2>1, <3>1 DEF ListGone, MU!Destroy
    <3> QED BY <1>2, <3>2, <3>3, <3>4
  <2>2. ASSUME NEW size \in BlockSizes, ListAt(size) PROVE ListInv'
    <3>1. CASE MU!Destroy
      BY <2>2, <3>1, ListDestroyStep DEF ListInv
    <3>2. CASE \E p \in Producers : MU!Post(p) \/ MU!Close(p)
      <4>1. PICK p \in Producers : MU!Post(p) \/ MU!Close(p)
        BY <3>2
      <4>2. CASE MU!Post(p)
        <5>1. ListAt(size)'
          BY <2>2, <4>2, ListTicketStep, ListCheckStep, LoadHintStep, StartBlockStep, ListFindBlockStep,
             ListFindEndStep, AdvanceHintStep, ListWriteStep, ListNextBlockStep DEF MU!Post
        <5> QED BY <5>1 DEF ListInv
      <4>3. CASE MU!Close(p)
        <5>1. ListAt(size)'
          BY <2>2, <4>3, ListFlagStep, ListCutoffStep, ListSealStep DEF MU!Close
        <5> QED BY <5>1 DEF ListInv
      <4> QED BY <4>1, <4>2, <4>3
    <3>3. CASE MU!Consume
      <4>1. ListAt(size)'
        BY <2>2, <3>3, ListLookStep, ListWaitStep, ListReadStep, FinishReclaimStep, StartReclaimStep, ReclaimHintStep,
           ReclaimCutoffStep DEF MU!Consume
      <4> QED BY <4>1 DEF ListInv
    <3> QED BY <1>2, <3>1, <3>2, <3>3
  <2> QED BY <2>1, <2>2 DEF ListInv
<1>3. MCNext => UNCHANGED mcVars \/ (\E p \in Producers : MU!Post(p) \/ MU!Close(p)) \/ MU!Consume \/ MU!Destroy
  BY DEF MCNext, Produce, Consume, Destroy, Rests
<1> QED BY <1>1, <1>2, <1>3

\* The three properties of this kind of queue.
LEMMA ListSafe ==
  ASSUME ListInv
  PROVE  MU!BlocksInPlace /\ MU!SlotsInTurn /\ MU!NothingLeaks
<1>1. CASE ListGone
  <2>1. pc[Consumer] = "gone" /\ \A p \in Producers : pc[p] = "gone"
    BY <1>1 DEF ListGone
  <2>2. MU!NoDataLeft
    BY <1>1, SameList DEF ListGone, MU!NoDataLeft, Cell
  <2> QED BY <2>1, <2>2 DEF MU!BlocksInPlace, MU!SlotsInTurn, MU!NothingLeaks
<1>2. ASSUME NEW size, ListAt(size) PROVE MU!BlocksInPlace /\ MU!SlotsInTurn /\ MU!NothingLeaks
  <2>1. MU!BlocksInPlace
    BY <1>2 DEF ListAt, ListWalks, WalkOf, MU!BlocksInPlace, Off
  <2>2. ASSUME NEW p \in Producers, pc[p] = "write"
        PROVE  /\ MU!Elem(walks[p].block, walks[p].at).flags \in {"empty", "consumer"}
               /\ MU!Elem(walks[p].block, walks[p].at).data = None
    <3>1. PICK b, i : b = walks[p].block /\ i = walks[p].at
      OBVIOUS
    <3>2. b \in Alloc /\ Off(b) = StartIn(i, size) /\ i < walks[p].end /\ i \in Nat /\ pc[p] \in Owning \ {"ticket"}
      <4>1. WalkOf(p, size) /\ TicketOf(p) /\ i \in Nat
        BY <1>2, <3>1, ListFacts DEF ListAt, ListWalks, ListTickets
      <4>2. pc[p] \in Walking /\ pc[p] \in Owning \ {"ticket"}
        BY <2>2 DEF Walking, Owning
      <4> QED BY <2>2, <3>1, <4>1, <4>2 DEF WalkOf, TicketOf
    <3>3. MU!Elem(b, i).data = None /\ MU!Elem(b, i).flags \in {"empty", "consumer", "closed"}
          /\ MU!Elem(b, i).flags # "closed"
      BY <1>2, <3>1, <3>2, ListFreeSlot
    <3> QED BY <3>1, <3>3
  <2>3. pc[Consumer] = "reading" => MU!Here.data # None
    BY <1>2, ListHereSlot DEF Pulling
  <2>4. pc[Consumer] # "gone"
    BY <1>2, ListFacts DEF TakeLabels, Pulling, Reclaiming
  <2> QED BY <2>1, <2>2, <2>3, <2>4 DEF MU!SlotsInTurn, MU!NothingLeaks
<1> QED BY <1>1, <1>2 DEF ListInv

-----------------------------------------------------------------------------
(* The four queues.                                                        *)

\* A behaviour of MCQueues is one of the queues, with its invariant.
Kinds == {"spsc_bounded", "mpsc_bounded", "spsc_unbounded", "mpsc_unbounded"}
QueueInv ==
  /\ queue \in Kinds
  /\ queue = "mpsc_bounded" => RingInv
  /\ queue = "spsc_bounded" => TrackInv
  /\ queue = "spsc_unbounded" => ChainInv
  /\ queue = "mpsc_unbounded" => ListInv

\* The invariant holds when the queue is made.
LEMMA QueueInit ==
  ASSUME MCInit
  PROVE  QueueInv
<1>1. CASE queue = "spsc_bounded" /\ SB!Init
  BY <1>1, TrackInit DEF QueueInv, Kinds
<1>2. CASE queue = "mpsc_bounded" /\ MB!Init
  BY <1>2, RingInit DEF QueueInv, Kinds
<1>3. CASE queue = "spsc_unbounded" /\ SU!Init
  BY <1>3, ChainInit DEF QueueInv, Kinds
<1>4. CASE queue = "mpsc_unbounded" /\ MU!Init
  BY <1>4, ListInit DEF QueueInv, Kinds
<1> QED BY <1>1, <1>2, <1>3, <1>4 DEF MCInit

\* And whatever happens to it.
LEMMA QueueNext ==
  ASSUME QueueInv, [MCNext]_mcVars
  PROVE  QueueInv'
<1>1. queue' = queue
  BY DEF MCNext, Produce, Consume, Destroy, Rests, Idle, mcVars
<1>2. queue = "mpsc_bounded" => RingInv'
  BY RingNext DEF QueueInv
<1>3. queue = "spsc_bounded" => TrackInv'
  BY TrackNext DEF QueueInv
<1>4. queue = "spsc_unbounded" => ChainInv'
  BY ChainNext DEF QueueInv
<1>5. queue = "mpsc_unbounded" => ListInv'
  BY ListNext DEF QueueInv
<1> QED BY <1>1, <1>2, <1>3, <1>4, <1>5 DEF QueueInv

\* The properties follow from it.
LEMMA QueueSafe ==
  ASSUME QueueInv
  PROVE  SlotsInTurn /\ BlocksInPlace /\ NothingLeaks
<1>1. CASE queue = "mpsc_bounded"
  <2>1. MB!OverwritesNothing /\ MB!ReadsData /\ MB!NothingLeaks
    BY <1>1, RingSafe DEF QueueInv
  <2> QED BY <1>1, <2>1 DEF SlotsInTurn, BlocksInPlace, NothingLeaks
<1>2. CASE queue = "spsc_bounded"
  <2>1. SB!OverwritesNothing /\ SB!ReadsData /\ SB!NothingLeaks
    BY <1>2, TrackSafe DEF QueueInv
  <2> QED BY <1>2, <2>1 DEF SlotsInTurn, BlocksInPlace, NothingLeaks
<1>3. CASE queue = "spsc_unbounded"
  <2>1. SU!BlocksInPlace /\ SU!SlotsInTurn /\ SU!NothingLeaks
    BY <1>3, ChainSafe DEF QueueInv
  <2> QED BY <1>3, <2>1 DEF SlotsInTurn, BlocksInPlace, NothingLeaks
<1>4. CASE queue = "mpsc_unbounded"
  <2>1. MU!BlocksInPlace /\ MU!SlotsInTurn /\ MU!NothingLeaks
    BY <1>4, ListSafe DEF QueueInv
  <2> QED BY <1>4, <2>1 DEF SlotsInTurn, BlocksInPlace, NothingLeaks
<1> QED BY <1>1, <1>2, <1>3, <1>4 DEF QueueInv, Kinds

\* So it holds always.
LEMMA QueueAlways == MCSpec => []QueueInv
<1>1. MCInit => QueueInv
  BY QueueInit
<1>2. QueueInv /\ [MCNext]_mcVars => QueueInv'
  BY QueueNext
<1> QED BY <1>1, <1>2, PTL DEF MCSpec

\* In none of the four queues is a slot written before what was in it was read and
\* destroyed, or read before it was written: the flags words hand every slot over.
THEOREM EverySlotInTurn == MCSpec => []SlotsInTurn
<1>1. QueueInv => SlotsInTurn
  BY QueueSafe
<1> QED BY <1>1, QueueAlways, PTL

\* reclaim_blocks recycles no block in which a producer walks or writes, or from which
\* it still has to walk.
THEOREM EveryBlockInPlace == MCSpec => []BlocksInPlace
<1>1. QueueInv => BlocksInPlace
  BY QueueSafe
<1> QED BY <1>1, QueueAlways, PTL

\* The destructors destroy whatever was posted and not pulled.
THEOREM NoValueLeaks == MCSpec => []NothingLeaks
<1>1. QueueInv => NothingLeaks
  BY QueueSafe
<1> QED BY <1>1, QueueAlways, PTL
=============================================================================
