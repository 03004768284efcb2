--------------------------- MODULE ContainersProof ---------------------------
(***************************************************************************)
(* The queues of a worker implement WorkDeque, and give up only when they  *)
(* may: both deques for any range of indices, any items, thieves and       *)
(* growth, and the inbox for any capacity and threads.  And                *)
(* atomic_condvar, for any tasks, threads and values: a waiter is in one   *)
(* place, and none misses the notification that is for it.                 *)
(***************************************************************************)
EXTENDS MCContainers, FiniteSetTheorems, TLAPS, WellFoundedInduction

-----------------------------------------------------------------------------
(* Numbers.                                                                *)

\* A set of numbers has a least one: the intervals below its members are finite sets.
LEMMA LeastNumber ==
  ASSUME NEW S \in SUBSET Nat, S # {}
  PROVE  \E n \in S : \A m \in S : n <= m
<1> DEFINE T == {1..n : n \in S}
           R == StrictSubsetOrdering(Nat)
<1>1. T \subseteq FiniteSubsetsOf(Nat) /\ T # {}
  <2>1. \A n \in S : IsFiniteSet(1..n) /\ 1..n \in SUBSET Nat
    BY FS_Interval
  <2> QED BY <2>1 DEF FiniteSubsetsOf
<1>2. IsWellFoundedOn(R, FiniteSubsetsOf(Nat))
  BY FS_StrictSubsetOrderingWellFounded
<1>3. PICK x \in T : \A y \in T : ~ (<<y, x>> \in R)
  <2> HIDE DEF T, R
  <2> QED BY <1>1, <1>2, WFMin
<1>4. PICK n \in S : x = 1..n
  BY DEF T
<1>5. ASSUME NEW m \in S, ~(n <= m) PROVE FALSE
  <2>1. m \in Nat /\ n \in Nat /\ m < n
    BY <1>5
  <2>2. 1..m \subseteq 1..n /\ n \in 1..n /\ n \notin 1..m
    BY <2>1
  <2>3. <<1..m, 1..n>> \in R
    BY <2>1, <2>2 DEF StrictSubsetOrdering
  <2> QED BY <1>3, <1>4, <1>5, <2>3
<1> QED BY <1>5

LEMMA Division ==
  ASSUME NEW d \in Nat \ {0}, NEW a \in Int
  PROVE  /\ a % d \in 0..(d - 1)
         /\ \E q \in Int : a = (d * q) + (a % d)
<1>1. a = (d * (a \div d)) + (a % d) /\ a \div d \in Int /\ a % d \in 0..(d - 1)
  OBVIOUS
<1> QED BY <1>1

LEMMA Remainder ==
  ASSUME NEW d \in Nat \ {0}, NEW a \in Int, NEW q \in Int, NEW r \in 0..(d - 1), a = (d * q) + r
  PROVE  a % d = r
OBVIOUS

LEMMA RemainderOfSum ==
  ASSUME NEW d \in Nat \ {0}, NEW a \in Int, NEW b \in Int
  PROVE  ((a % d) + b) % d = (a + b) % d
<1> DEFINE r == a % d
           e == r + b
           u == e % d
<1>1. r \in Int /\ e \in Int
  BY Division
<1>2. PICK q \in Int : a = (d * q) + r
  BY Division
<1>3. u \in 0..(d - 1)
  <2> HIDE DEF r, e
  <2> QED BY <1>1, Division
<1>4. PICK p \in Int : e = (d * p) + u
  <2> HIDE DEF r, e
  <2> QED BY <1>1, Division
<1>e. e = r + b
  OBVIOUS
<1> HIDE DEF r, e, u
<1>5. a + b = (d * (q + p)) + u
  BY <1>1, <1>2, <1>3, <1>4, <1>e
<1>6. q + p \in Int /\ a + b \in Int
  OBVIOUS
<1>7. (a + b) % d = u
  BY <1>3, <1>5, <1>6, Remainder
<1> QED BY <1>7 DEF r, e, u

\* Two numbers that are less than d apart have different remainders.
LEMMA SlotsDiffer ==
  ASSUME NEW d \in Nat \ {0}, NEW a \in Int, NEW b \in Int, a # b, a - b < d, b - a < d
  PROVE  a % d # b % d
<1>1. PICK q \in Int : a = (d * q) + (a % d)
  BY Division
<1>2. PICK p \in Int : b = (d * p) + (b % d)
  BY Division
<1> DEFINE r == a % d
<1>3. SUFFICES ASSUME b % d = r PROVE FALSE
  OBVIOUS
<1>4. r \in Int /\ a = (d * q) + r /\ b = (d * p) + r
  BY <1>1, <1>2, <1>3, Division
<1> HIDE DEF r
<1>5. b - a = d * (p - q)
  BY <1>4
<1> DEFINE k == p - q
<1>6. k \in Int /\ b - a = d * k
  BY <1>5
<1> HIDE DEF k
<1>7. k = 0
  <2>1. CASE k >= 1
    BY <1>6, <2>1
  <2>2. CASE k <= -1
    BY <1>6, <2>2
  <2> QED BY <1>6, <2>1, <2>2
<1> QED BY <1>6, <1>7

\* If d is a multiple of c, a number and its remainder by d have the same slot among c.
LEMMA RemainderTwice ==
  ASSUME NEW c \in Nat \ {0}, NEW d \in Nat \ {0}, d % c = 0, NEW a \in Int
  PROVE  (a % d) % c = a % c
<1> DEFINE r == a % d
           u == r % c
<1>1. r \in Int
  BY Division
<1>2. PICK q \in Int : a = (d * q) + r
  BY Division
<1>3. u \in 0..(c - 1)
  <2> HIDE DEF r
  <2> QED BY <1>1, Division
<1>4. PICK p \in Int : r = (c * p) + u
  <2> HIDE DEF r
  <2> QED BY <1>1, Division
<1>5. PICK m \in Int : d = c * m
  BY Division
<1> HIDE DEF r, u
<1>6. a = (c * ((m * q) + p)) + u
  <2>1. d * q = c * (m * q)
    BY <1>5
  <2>2. c * ((m * q) + p) = (c * (m * q)) + (c * p)
    OBVIOUS
  <2> QED BY <1>1, <1>2, <1>3, <1>4, <2>1, <2>2
<1>7. (m * q) + p \in Int
  OBVIOUS
<1>8. a % c = u
  BY <1>3, <1>6, <1>7, Remainder
<1> QED BY <1>8 DEF r, u

-----------------------------------------------------------------------------
(* The invariant of a deque.  Its indices, unwrapped, are integers.        *)

Blocks == UNION {[0..(cap - 1) -> 0..Torn] : cap \in Capacities}

\* Blocks bs: what block n can hold, what it holds at each index, and what the last one does.
Room(bs, n) == Cardinality(DOMAIN bs[n])
Holds(bs, n) == [j \in Int |-> bs[n][j % Room(bs, n)]]
Cells(bs) == Holds(bs, Len(bs))

Steps64 == {"idle", "grow", "store", "storing", "pop", "claimed"}
Steps32 == {"idle", "grow", "store", "storing", "wanted", "last", "restore"}

DequeTypes ==
  /\ state \in [t : Index, b : Index]
  /\ buffers \in Seq(Blocks) /\ buffers # <<>>
  /\ pushed \in 0..MaxItems
  /\ taken \in [NoItem..Torn -> Nat]
  /\ owner \in [pc : Steps64 \cup Steps32, b : Index, t : Index, n : Nat, done : Nat]
  /\ thief \in [Thieves -> [pc : {"idle", "bottom", "buffer", "item", "cas"},
                            b : Index, t : Index, buf : Nat, item : Int, tries : Nat]]

\* T and B are top and bottom, O the top that the owner has read, S[s] the top that
\* thief s has read, K where the deque was empty first.
Bounds(K, T, B, O, S) ==
  /\ K \in Int /\ T \in Int /\ B \in Int /\ O \in Int /\ S \in [Thieves -> Int]
  /\ K <= O /\ O <= T /\ T <= B + 1 /\ T <= K + pushed /\ B <= K + pushed
  /\ \A s \in Thieves : K <= S[s] /\ S[s] <= T
  /\ state = [t |-> Wrap(T), b |-> Wrap(B)]
  /\ \A s \in Thieves : thief[s].pc # "idle" => thief[s].t = Wrap(S[s])

OwnerPart(K, T, B, O) ==
  /\ owner.pc # "idle" => owner.b = Wrap(B)
  /\ owner.pc \in {"grow", "store", "storing", "pop", "claimed", "last"} => owner.t = Wrap(O)
  /\ owner.pc \in {"idle", "grow", "store", "storing", "pop"} => T <= B
  /\ owner.pc = "claimed" => (O <= B /\ T <= B) \/ (O = B + 1 /\ T = B + 1)
  /\ owner.pc = "last" => O = B
  /\ owner.pc = "restore" => T = B + 1
  /\ owner.pc \in {"claimed", "wanted", "last", "restore"} => B < K + pushed

PushPart(B, O) ==
  /\ owner.pc \in {"grow", "store", "storing"} => owner.n > 0 /\ pushed + owner.n <= MaxItems
  /\ owner.pc = "grow" => owner.done = 0
  /\ owner.pc \in {"store", "storing"} =>
       /\ (B + owner.n) - O <= Room(buffers, Len(buffers))
       /\ owner.done <= owner.n
       /\ \A i \in 1..owner.done : Cells(buffers)[(B + i) - 1] = pushed + i
  /\ owner.pc = "storing" => owner.done < owner.n

\* The end of the items, seen from outside: what try_pop wants is still there.
End(B) == IF Undecided THEN B + 1 ELSE B

\* A thief whose top is still the top will take the item that is there.
ThiefPart(T, B, O, S) ==
  \A s \in Thieves :
    /\ thief[s].pc \in {"buffer", "item", "cas"} /\ S[s] = T =>
         T < End(B) \/ (owner.pc = "claimed" /\ O = T /\ T = B)
    /\ thief[s].pc = "item" => /\ thief[s].buf \in 1..Len(buffers)
                               /\ S[s] = T => Holds(buffers, thief[s].buf)[T] = Cells(buffers)[T]
    /\ thief[s].pc = "cas" /\ S[s] = T => thief[s].item = Cells(buffers)[T]

\* Which of the two deques it is.
Packed == /\ owner.pc \in Steps64
          /\ \A s \in Thieves : /\ thief[s].pc # "bottom"
                                /\ thief[s].pc # "idle" => Diff(thief[s].b, thief[s].t) > 0
Unpacked == owner.pc \in Steps32

DequeAt(K, T, B, O, S) ==
  /\ DequeTypes
  /\ Bounds(K, T, B, O, S) /\ OwnerPart(K, T, B, O) /\ PushPart(B, O) /\ ThiefPart(T, B, O, S)
DequeInv == \E K, T, B, O \in Int, S \in [Thieves -> Int] : DequeAt(K, T, B, O, S)

-----------------------------------------------------------------------------
(* The deque's indices and cells.                                          *)

LEMMA HalfWordFacts ==
  /\ HalfWord \in Nat \ {0} /\ MaxItems \in Nat
  /\ \E h \in Nat : HalfWord = 2 * h /\ HalfWord \div 2 = h /\ MaxItems < h
<1>1. HalfWord \in Nat \ {0} /\ MaxItems \in Nat /\ HalfWord % 2 = 0 /\ 2 * MaxItems < HalfWord
  BY WidthAssumption
<1>2. PICK h \in Int : HalfWord = (2 * h) + (HalfWord % 2)
  BY <1>1, Division
<1>3. h \in Nat /\ HalfWord = 2 * h /\ HalfWord \div 2 = h /\ MaxItems < h
  BY <1>1, <1>2
<1> QED BY <1>1, <1>3

LEMMA WrapFacts ==
  ASSUME NEW a \in Int
  PROVE  /\ Wrap(a) \in Index /\ Wrap(a) \in Int
         /\ \A n \in Int : Wrap(Wrap(a) + n) = Wrap(a + n)
         /\ \A b \in Int : a - b < HalfWord /\ b - a < HalfWord /\ Wrap(a) = Wrap(b) => a = b
<1>1. HalfWord \in Nat \ {0}
  BY HalfWordFacts
<1>2. Wrap(a) \in Index
  BY <1>1, Division DEF Wrap, Index
<1>3. \A n \in Int : Wrap(Wrap(a) + n) = Wrap(a + n)
  BY <1>1, RemainderOfSum DEF Wrap
<1>4. \A b \in Int : a - b < HalfWord /\ b - a < HalfWord /\ Wrap(a) = Wrap(b) => a = b
  BY <1>1, SlotsDiffer DEF Wrap
<1>5. Wrap(a) \in Int
  BY <1>1, <1>2 DEF Index
<1> QED BY <1>2, <1>3, <1>4, <1>5

\* The signed difference of two indices is that of what they stand for.
LEMMA DiffIs ==
  ASSUME NEW a \in Int, NEW b \in Int, -1 <= b - a, b - a <= MaxItems
  PROVE  Diff(Wrap(b), Wrap(a)) = b - a
<1>1. HalfWord \in Nat \ {0} /\ MaxItems \in Nat
  BY HalfWordFacts
<1>2. PICK h \in Nat : HalfWord = 2 * h /\ HalfWord \div 2 = h /\ MaxItems < h
  BY HalfWordFacts
<1> DEFINE x == Wrap(a)
           y == Wrap(b)
           d == Wrap(y - x)
<1>3. x \in Int /\ y \in Int
  BY WrapFacts
<1>4. PICK q \in Int : a = (HalfWord * q) + x
  BY <1>1, Division DEF Wrap
<1>5. PICK p \in Int : b = (HalfWord * p) + y
  BY <1>1, Division DEF Wrap
<1> HIDE DEF x, y
<1> DEFINE e == (b - a) + (IF b < a THEN HalfWord ELSE 0)
<1>6. e \in 0..(HalfWord - 1)
  BY <1>1, <1>2
<1>7. y - x = (HalfWord * (q - p)) + (b - a)
  <2>1. HalfWord * (q - p) = (HalfWord * q) - (HalfWord * p)
    BY <1>1
  <2> DEFINE hq == HalfWord * q
             hp == HalfWord * p
  <2>2. hq \in Int /\ hp \in Int /\ a = hq + x /\ b = hp + y
    BY <1>1, <1>4, <1>5
  <2> HIDE DEF hq, hp
  <2>3. y - x = (hq - hp) + (b - a)
    BY <1>3, <2>2
  <2> QED BY <2>1, <2>3 DEF hq, hp
<1>8. \E k \in Int : y - x = (HalfWord * k) + e
  <2>1. CASE b < a
    <3>1. y - x = (HalfWord * ((q - p) - 1)) + e
      <4>1. HalfWord * ((q - p) - 1) = (HalfWord * (q - p)) - HalfWord
        BY <1>1
      <4> DEFINE hk == HalfWord * (q - p)
      <4>2. hk \in Int /\ y - x = hk + (b - a) /\ HalfWord * ((q - p) - 1) = hk - HalfWord
        BY <1>1, <1>7, <4>1
      <4> HIDE DEF hk
      <4> QED BY <1>1, <2>1, <4>2
    <3>2. (q - p) - 1 \in Int
      OBVIOUS
    <3> QED BY <3>1, <3>2
  <2>2. CASE ~(b < a)
    <3>1. q - p \in Int /\ e = b - a
      BY <2>2
    <3> QED BY <1>7, <3>1
  <2> QED BY <2>1, <2>2
<1>9. d = e
  <2> HIDE DEF e
  <2>1. y - x \in Int
    BY <1>3
  <2> QED BY <1>1, <1>6, <1>8, <2>1, Remainder DEF Wrap
<1>10. Diff(y, x) = (IF d < h THEN d ELSE d - HalfWord)
  BY <1>2 DEF Diff
<1>11. CASE b < a
  <2>1. e = (b - a) + HalfWord /\ b - a = -1
    BY <1>11
  <2>2. ~(e < h)
    <3> HIDE DEF e
    <3> QED BY <1>1, <1>2, <2>1
  <2> HIDE DEF e, d
  <2> QED BY <1>1, <1>9, <1>10, <2>1, <2>2 DEF x, y
<1>12. CASE ~(b < a)
  <2>1. e = b - a
    BY <1>12
  <2>2. e < h
    BY <1>1, <1>2, <2>1
  <2> HIDE DEF e, d
  <2> QED BY <1>9, <1>10, <2>1, <2>2 DEF x, y
<1> QED BY <1>11, <1>12

LEMMA CapacityFacts ==
  ASSUME NEW cap \in Capacities
  PROVE  /\ cap \in Nat \ {0} /\ Cardinality(0..(cap - 1)) = cap
         /\ \A i \in Int : i % cap \in 0..(cap - 1) /\ Wrap(i) % cap = i % cap
<1>1. cap \in Nat \ {0} /\ HalfWord % cap = 0
  BY WidthAssumption
<1>2. Cardinality(0..(cap - 1)) = cap
  <2>1. 0 \in Int /\ cap - 1 \in Int /\ ~(0 > cap - 1) /\ (cap - 1) - 0 + 1 = cap
    BY <1>1
  <2> QED BY <2>1, FS_Interval
<1>3. \A i \in Int : i % cap \in 0..(cap - 1)
  BY <1>1, Division
<1>4. \A i \in Int : Wrap(i) % cap = i % cap
  BY <1>1, HalfWordFacts, RemainderTwice DEF Wrap
<1> QED BY <1>1, <1>2, <1>3, <1>4

LEMMA BlockFacts ==
  ASSUME NEW bs \in Seq(Blocks), NEW n \in 1..Len(bs)
  PROVE  /\ Room(bs, n) \in Capacities /\ Room(bs, n) \in Nat \ {0}
         /\ bs[n] \in [0..(Room(bs, n) - 1) -> 0..Torn]
         /\ Holds(bs, n) \in [Int -> 0..Torn]
         /\ \A j \in Int : /\ j % Room(bs, n) \in 0..(Room(bs, n) - 1)
                           /\ Wrap(j) % Room(bs, n) = j % Room(bs, n)
                           /\ Holds(bs, n)[j] = bs[n][j % Room(bs, n)]
<1>1. bs[n] \in Blocks
  OBVIOUS
<1>2. PICK cap \in Capacities : bs[n] \in [0..(cap - 1) -> 0..Torn]
  BY <1>1 DEF Blocks
<1>3. Room(bs, n) = cap
  BY <1>2, CapacityFacts DEF Room
<1>4. cap \in Nat \ {0} /\ \A j \in Int : j % cap \in 0..(cap - 1) /\ Wrap(j) % cap = j % cap
  BY CapacityFacts
<1>5. \A j \in Int : Holds(bs, n)[j] = bs[n][j % Room(bs, n)]
  BY DEF Holds
<1>6. Holds(bs, n) \in [Int -> 0..Torn]
  <2>1. \A j \in Int : bs[n][j % cap] \in 0..Torn
    BY <1>2, <1>4
  <2> QED BY <1>3, <2>1 DEF Holds
<1> QED BY <1>2, <1>3, <1>4, <1>5, <1>6

\* The model's Item and Capacity, by these names.
LEMMA ItemIs ==
  ASSUME DequeTypes, NEW n \in 1..Len(buffers), NEW j \in Int
  PROVE  Item(n, Wrap(j)) = Holds(buffers, n)[j] /\ Capacity(n) = Room(buffers, n)
<1>1. Capacity(n) = Room(buffers, n)
  BY DEF Capacity, Room
<1>2. Wrap(j) % Room(buffers, n) = j % Room(buffers, n)
      /\ Holds(buffers, n)[j] = buffers[n][j % Room(buffers, n)]
  BY BlockFacts DEF DequeTypes
<1> QED BY <1>1, <1>2 DEF Item, Slot

LEMMA ItemIsNext ==
  ASSUME DequeTypes', NEW n \in 1..Len(buffers'), NEW j \in Int
  PROVE  Item(n, Wrap(j))' = Holds(buffers', n)[j]
<1>1. Capacity(n)' = Room(buffers', n)
  BY DEF Capacity, Room
<1>2. Wrap(j) % Room(buffers', n) = j % Room(buffers', n)
      /\ Holds(buffers', n)[j] = buffers'[n][j % Room(buffers', n)]
  BY BlockFacts DEF DequeTypes
<1>3. Wrap(j)' = Wrap(j)
  BY DEF Wrap
<1> QED BY <1>1, <1>2, <1>3 DEF Item, Slot

LEMMA LastBlock ==
  ASSUME NEW bs \in Seq(Blocks), bs # <<>>
  PROVE  Len(bs) \in 1..Len(bs) /\ Len(bs) \in Nat /\ Cells(bs) \in [Int -> 0..Torn]
<1>1. Len(bs) \in 1..Len(bs) /\ Len(bs) \in Nat
  OBVIOUS
<1> QED BY <1>1, BlockFacts DEF Cells

\* The blocks after a store of x at index j, and after grow copied the indices from O to B.
Stored(bs, j, x) == [bs EXCEPT ![Len(bs)][j % Room(bs, Len(bs))] = x]
Copied(bs, cap, O, B) ==
  LET copied(i) == {y \in {Wrap(O + k) : k \in 0..((B - O) - 1)} : y % cap = i}
  IN Append(bs, [i \in 0..(cap - 1) |->
       IF copied(i) = {} THEN NoItem
       ELSE bs[Len(bs)][(CHOOSE y \in copied(i) : TRUE) % Room(bs, Len(bs))]])

\* A store into the slot of index j: the cells less than a capacity away keep what they have.
LEMMA WriteFacts ==
  ASSUME NEW bs \in Seq(Blocks), bs # <<>>, NEW bs2, NEW j \in Int, NEW x \in 0..Torn,
         bs2 = Stored(bs, j, x)
  PROVE  /\ bs2 \in Seq(Blocks) /\ bs2 # <<>> /\ Len(bs2) = Len(bs)
         /\ Room(bs2, Len(bs)) = Room(bs, Len(bs))
         /\ Cells(bs2)[j] = x
         /\ \A i \in Int : i # j /\ i - j < Room(bs, Len(bs)) /\ j - i < Room(bs, Len(bs))
                             => Cells(bs2)[i] = Cells(bs)[i]
         /\ \A n \in 1..Len(bs) : n # Len(bs) => Holds(bs2, n) = Holds(bs, n)
<1> DEFINE a == Len(bs)
           cap == Room(bs, a)
           blk == bs[a]
           new == [blk EXCEPT ![j % cap] = x]
<1>1. a \in 1..Len(bs) /\ a \in Nat /\ DOMAIN bs = 1..Len(bs)
  BY LastBlock
<1>2. /\ cap \in Capacities /\ cap \in Nat \ {0} /\ blk \in [0..(cap - 1) -> 0..Torn]
      /\ \A i \in Int : i % cap \in 0..(cap - 1) /\ Cells(bs)[i] = blk[i % cap]
  BY <1>1, BlockFacts DEF Cells
<1>3. bs2 = [bs EXCEPT ![a] = new]
  BY DEF Stored
<1>4. new \in [0..(cap - 1) -> 0..Torn] /\ new[j % cap] = x
      /\ \A i \in Int : i % cap # j % cap => new[i % cap] = blk[i % cap]
  <2> HIDE DEF a, cap, blk
  <2> QED BY <1>2
<1>5. new \in Blocks
  <2> HIDE DEF a, cap, blk, new
  <2> QED BY <1>2, <1>4 DEF Blocks
<1>6. /\ bs2 \in Seq(Blocks) /\ Len(bs2) = Len(bs) /\ bs2 # <<>>
      /\ bs2[a] = new /\ \A n \in 1..Len(bs) : n # a => bs2[n] = bs[n]
  <2> HIDE DEF cap, blk, new
  <2>1. bs2 \in Seq(Blocks) /\ Len(bs2) = Len(bs)
    <3>1. bs2 \in [1..Len(bs) -> Blocks]
      BY <1>1, <1>3, <1>5
    <3> QED BY <1>1, <3>1
  <2>2. bs2[a] = new /\ \A n \in 1..Len(bs) : n # a => bs2[n] = bs[n]
    BY <1>1, <1>3
  <2>3. bs2 # <<>>
    BY <1>1, <2>1
  <2> QED BY <2>1, <2>2, <2>3
<1>7. Room(bs2, a) = cap
  <2>1. DOMAIN new = 0..(cap - 1)
    BY <1>2
  <2> HIDE DEF a, cap, blk, new
  <2> QED BY <1>2, <1>6, <2>1, CapacityFacts DEF Room
<1>8. \A i \in Int : Cells(bs2)[i] = new[i % cap]
  <2> HIDE DEF cap, blk, new
  <2> QED BY <1>6, <1>7 DEF Cells, Holds
<1>9. \A i \in Int : i # j /\ i - j < cap /\ j - i < cap => Cells(bs2)[i] = Cells(bs)[i]
  <2> HIDE DEF a, cap, blk, new
  <2> QED BY <1>2, <1>4, <1>8, SlotsDiffer
<1>10. \A n \in 1..Len(bs) : n # Len(bs) => Holds(bs2, n) = Holds(bs, n)
  BY <1>6 DEF Holds, Room
<1> QED BY <1>4, <1>6, <1>7, <1>8, <1>9, <1>10

\* A new block for the indices from O to B, of which each has a slot of its own.
LEMMA CopyFacts ==
  ASSUME NEW bs \in Seq(Blocks), bs # <<>>, NEW cap \in Capacities, NEW bs2,
         NEW O \in Int, NEW B \in Int, B - O <= cap,
         bs2 = Copied(bs, cap, O, B)
  PROVE  /\ bs2 \in Seq(Blocks) /\ bs2 # <<>> /\ Len(bs2) = Len(bs) + 1
         /\ Room(bs2, Len(bs2)) = cap
         /\ \A j \in O..(B - 1) : Cells(bs2)[j] = Cells(bs)[j]
         /\ \A n \in 1..Len(bs) : Holds(bs2, n) = Holds(bs, n)
<1> DEFINE live == {Wrap(O + k) : k \in 0..((B - O) - 1)}
           copied(i) == {y \in live : y % cap = i}
           pick(i) == CHOOSE y \in copied(i) : TRUE
           new == [i \in 0..(cap - 1) |-> IF copied(i) = {} THEN NoItem
                     ELSE bs[Len(bs)][pick(i) % Room(bs, Len(bs))]]
<1>1. bs2 = Append(bs, new)
  BY DEF Copied
<1>2. cap \in Nat \ {0} /\ \A i \in Int : i % cap \in 0..(cap - 1) /\ Wrap(i) % cap = i % cap
  BY CapacityFacts
<1>3. \A y \in live : \E j \in Int : y = Wrap(j)
  OBVIOUS
<1>4. \A i \in 0..(cap - 1) : copied(i) # {} => pick(i) \in copied(i)
  OBVIOUS
<1>5. \A j \in O..(B - 1) : copied(j % cap) = {Wrap(j)}
  <2> SUFFICES ASSUME NEW j \in O..(B - 1) PROVE copied(j % cap) = {Wrap(j)}
    OBVIOUS
  <2>1. Wrap(j) \in live
    <3>1. j - O \in 0..((B - O) - 1) /\ O + (j - O) = j
      OBVIOUS
    <3> QED BY <3>1
  <2>2. Wrap(j) % cap = j % cap
    BY <1>2
  <2>3. ASSUME NEW k \in 0..((B - O) - 1), Wrap(O + k) % cap = j % cap PROVE Wrap(O + k) = Wrap(j)
    <3>1. O + k \in Int /\ j \in Int /\ (O + k) % cap = j % cap
      BY <1>2, <2>3
    <3>2. (O + k) - j < cap /\ j - (O + k) < cap
      BY <1>2
    <3>3. O + k = j
      BY <1>2, <3>1, <3>2, SlotsDiffer
    <3> QED BY <3>3
  <2> QED BY <2>1, <2>2, <2>3
<1> HIDE DEF live
<1>6. /\ Len(bs) \in 1..Len(bs) /\ Len(bs) \in Nat
      /\ \A j \in Int : bs[Len(bs)][Wrap(j) % Room(bs, Len(bs))] = Cells(bs)[j]
                        /\ Cells(bs)[j] \in 0..Torn
  <2>1. Len(bs) \in 1..Len(bs) /\ Len(bs) \in Nat /\ Cells(bs) \in [Int -> 0..Torn]
    BY LastBlock
  <2>2. \A j \in Int : /\ Wrap(j) % Room(bs, Len(bs)) = j % Room(bs, Len(bs))
                       /\ Cells(bs)[j] = bs[Len(bs)][j % Room(bs, Len(bs))]
    BY <2>1, BlockFacts DEF Cells
  <2> QED BY <2>1, <2>2
<1>7. new \in [0..(cap - 1) -> 0..Torn]
  <2>1. \A i \in 0..(cap - 1) : copied(i) # {} => \E j \in Int : pick(i) = Wrap(j)
    BY <1>3, <1>4
  <2> HIDE DEF copied, pick
  <2>2. NoItem \in 0..Torn
    BY WidthAssumption DEF NoItem, Torn
  <2> QED BY <1>6, <2>1, <2>2
<1>8. \A j \in O..(B - 1) : new[j % cap] = Cells(bs)[j]
  <2> SUFFICES ASSUME NEW j \in O..(B - 1) PROVE new[j % cap] = Cells(bs)[j]
    OBVIOUS
  <2> DEFINE i == j % cap
  <2>a. i \in 0..(cap - 1) /\ copied(i) = {Wrap(j)}
    <3>1. copied(j % cap) = {Wrap(j)}
      <4> HIDE DEF copied
      <4> QED BY <1>5
    <3>a. j \in Int
      OBVIOUS
    <3>2. j % cap \in 0..(cap - 1)
      BY <1>2, <3>a
    <3> HIDE DEF copied
    <3> QED BY <3>1, <3>2
  <2> HIDE DEF i
  <2>b. pick(i) \in copied(i)
    BY <1>4, <2>a
  <2> HIDE DEF pick, copied
  <2>1. copied(i) # {} /\ pick(i) = Wrap(j) /\ i \in 0..(cap - 1)
    BY <2>a, <2>b
  <2>c. new[i] = Cells(bs)[j]
    BY <1>6, <2>1
  <2> QED BY <2>c DEF i
<1> HIDE DEF new
<1>9. new \in Blocks
  BY <1>7 DEF Blocks
<1>10. /\ bs2 \in Seq(Blocks) /\ bs2 # <<>> /\ Len(bs2) = Len(bs) + 1 /\ bs2[Len(bs) + 1] = new
       /\ \A n \in 1..Len(bs) : bs2[n] = bs[n]
  BY <1>1, <1>6, <1>9
<1>11. Room(bs2, Len(bs2)) = cap
  <2>1. DOMAIN new = 0..(cap - 1)
    BY <1>7
  <2> QED BY <1>10, <2>1, CapacityFacts DEF Room
<1>12. \A j \in Int : Cells(bs2)[j] = new[j % cap]
  BY <1>10, <1>11 DEF Cells, Holds
<1>13. \A n \in 1..Len(bs) : Holds(bs2, n) = Holds(bs, n)
  BY <1>10 DEF Holds, Room
<1>14. \A j \in O..(B - 1) : Cells(bs2)[j] = Cells(bs)[j]
  BY <1>8, <1>12
<1> QED BY <1>10, <1>11, <1>13, <1>14

\* grow() always finds a capacity, and it is enough.
LEMMA GrownFits ==
  ASSUME NEW cap \in Capacities, NEW needed \in Int, cap < needed, needed <= MaxItems
  PROVE  GrownTo(cap, needed) \in Capacities /\ needed <= GrownTo(cap, needed)
<1> DEFINE S == {c \in Capacities : c > cap /\ c >= needed}
<1>1. S \subseteq Nat
  BY CapacityFacts
<1>2. S # {}
  <2>1. PICK c \in Capacities : MaxItems <= c
    BY WidthAssumption
  <2>2. c \in Nat /\ cap \in Nat /\ MaxItems \in Nat
    BY CapacityFacts, HalfWordFacts
  <2> QED BY <2>1, <2>2
<1>3. \E c \in S : \A d \in S : c <= d
  <2> HIDE DEF S
  <2> QED BY <1>1, <1>2, LeastNumber
<1>4. GrownTo(cap, needed) \in S
  <2>1. GrownTo(cap, needed) = CHOOSE c \in S : \A d \in S : c <= d
    BY DEF GrownTo, Min
  <2> HIDE DEF S
  <2> QED BY <1>3, <2>1
<1> QED BY <1>4

-----------------------------------------------------------------------------
(* The items from index T up to L, as a sequence.                          *)

Seg(f, T, L) == [k \in 1..(L - T) |-> f[(T + k) - 1]]

Entries(f) == {f[j] : j \in Int}

LEMMA SegIsSeq ==
  ASSUME NEW f, NEW T \in Int, NEW L \in Int, T <= L
  PROVE  Seg(f, T, L) \in Seq(Entries(f)) /\ Len(Seg(f, T, L)) = L - T
<1>1. \A k \in 1..(L - T) : f[(T + k) - 1] \in Entries(f)
  <2>1. \A k \in 1..(L - T) : (T + k) - 1 \in Int
    OBVIOUS
  <2> QED BY <2>1 DEF Entries
<1>2. L - T \in Nat
  OBVIOUS
<1> QED BY <1>1, <1>2 DEF Seg

LEMMA SegEmpty ==
  ASSUME NEW f, NEW T \in Int, NEW L \in Int, L <= T
  PROVE  Seg(f, T, L) = <<>>
<1>1. 1..(L - T) = {}
  OBVIOUS
<1> QED BY <1>1 DEF Seg

LEMMA SegSame ==
  ASSUME NEW f, NEW g, NEW T \in Int, NEW L \in Int, \A j \in Int : T <= j /\ j < L => g[j] = f[j]
  PROVE  Seg(g, T, L) = Seg(f, T, L)
<1>1. \A k \in 1..(L - T) : g[(T + k) - 1] = f[(T + k) - 1]
  OBVIOUS
<1> QED BY <1>1 DEF Seg

\* Both ends of it, and what is left without them.
LEMMA SegEnds ==
  ASSUME NEW f, NEW T \in Int, NEW L \in Int, T < L
  PROVE  /\ Seg(f, T, L) # <<>>
         /\ Head(Seg(f, T, L)) = f[T] /\ Tail(Seg(f, T, L)) = Seg(f, T + 1, L)
         /\ D!Last(Seg(f, T, L)) = f[L - 1] /\ D!Front(Seg(f, T, L)) = Seg(f, T, L - 1)
<1> DEFINE s == Seg(f, T, L)
           V == Entries(f)
<1>1. s \in Seq(V) /\ Len(s) = L - T /\ L - T >= 1
  <2>1. T <= L /\ L - T >= 1
    OBVIOUS
  <2>2. Seg(f, T, L) \in Seq(Entries(f)) /\ Len(Seg(f, T, L)) = L - T
    BY <2>1, SegIsSeq
  <2> QED BY <2>1, <2>2
<1>2. \A k \in 1..(L - T) : s[k] = f[(T + k) - 1]
  BY DEF Seg
<1> HIDE DEF s, V
<1>3. s # <<>> /\ Head(s) = f[T]
  <2>1. 1 \in 1..(L - T) /\ (T + 1) - 1 = T
    BY <1>1
  <2> QED BY <1>1, <1>2, <2>1
<1>4. D!Last(s) = f[L - 1]
  <2>1. L - T \in 1..(L - T) /\ (T + (L - T)) - 1 = L - 1
    BY <1>1
  <2> QED BY <1>1, <1>2, <2>1 DEF D!Last
<1>5. Tail(s) = Seg(f, T + 1, L)
  <2>1. Tail(s) = [k \in 1..((L - T) - 1) |-> s[k + 1]]
    <3> DEFINE u == Tail(s)
    <3>1. /\ u \in Seq(V) /\ Len(u) = (L - T) - 1
          /\ \A k \in 1..((L - T) - 1) : u[k] = s[k + 1]
      BY <1>1, <1>3
    <3> HIDE DEF u
    <3>2. u = [k \in 1..Len(u) |-> u[k]]
      BY <3>1
    <3> QED BY <3>1, <3>2 DEF u
  <2>2. \A k \in 1..((L - T) - 1) : s[k + 1] = f[((T + 1) + k) - 1]
    <3>1. \A k \in 1..((L - T) - 1) : k + 1 \in 1..(L - T) /\ (T + (k + 1)) - 1 = ((T + 1) + k) - 1
      BY <1>1
    <3> QED BY <1>2, <3>1
  <2>3. (L - T) - 1 = L - (T + 1)
    OBVIOUS
  <2> QED BY <2>1, <2>2, <2>3 DEF Seg
<1>6. D!Front(s) = Seg(f, T, L - 1)
  <2>1. SubSeq(s, 1, (L - T) - 1) = [k \in 1..((L - T) - 1) |-> s[k]]
    <3> DEFINE u == SubSeq(s, 1, (L - T) - 1)
    <3>1. u \in Seq(V) /\ Len(u) = (L - T) - 1 /\ \A k \in 1..((L - T) - 1) : u[k] = s[k]
      BY <1>1
    <3> HIDE DEF u
    <3>2. u = [k \in 1..Len(u) |-> u[k]]
      BY <3>1
    <3> QED BY <3>1, <3>2 DEF u
  <2>2. \A k \in 1..((L - T) - 1) : s[k] = f[(T + k) - 1]
    <3>1. \A k \in 1..((L - T) - 1) : k \in 1..(L - T)
      BY <1>1
    <3> QED BY <1>2, <3>1
  <2>3. (L - T) - 1 = (L - 1) - T
    OBVIOUS
  <2> QED BY <1>1, <2>1, <2>2, <2>3 DEF Seg, D!Front
<1> QED BY <1>3, <1>4, <1>5, <1>6 DEF s

\* n more items, of the numbers after p.
Following(p, n) == [i \in 1..n |-> p + i]
FollowAt(f, L, p, n) == \A i \in 1..n : f[(L + i) - 1] = p + i

Prolonged(f, T, L, p, n) == Seg(f, T, L) \o Following(p, n)

ProlongedAt(f, T, L, M, p, n) ==
  /\ T \in Int /\ L \in Int /\ n \in Nat /\ p \in Int /\ T <= L /\ M = L + n
  /\ FollowAt(f, L, p, n)

LEMMA SegMore ==
  ASSUME NEW f, NEW T, NEW L, NEW M, NEW p, NEW n, ProlongedAt(f, T, L, M, p, n)
  PROVE  Seg(f, T, M) = Prolonged(f, T, L, p, n)
<1>0. /\ T \in Int /\ L \in Int /\ n \in Nat /\ p \in Int /\ T <= L /\ M = L + n
      /\ FollowAt(f, L, p, n)
  BY DEF ProlongedAt
<1> DEFINE s == Seg(f, T, L)
           V == Entries(f)
           w == [i \in 1..n |-> p + i]
           d == L - T
<1>1. s \in Seq(V) /\ Len(s) = d /\ d \in Nat
  BY <1>0, SegIsSeq
<1>2. \A k \in 1..d : s[k] = f[(T + k) - 1]
  BY DEF Seg
<1>3. w \in Seq(Int) /\ Len(w) = n /\ \A i \in 1..n : w[i] = p + i
  BY <1>0
<1>d. d \in Nat /\ L = T + d
  BY <1>0
<1> HIDE DEF s, w, d, V
<1>4. s \o w = [k \in 1..(d + n) |-> IF k <= d THEN s[k] ELSE w[k - d]]
  <2> DEFINE u == s \o w
             W == V \cup Int
  <2>1. s \in Seq(W) /\ w \in Seq(W)
    BY <1>1, <1>3
  <2> HIDE DEF W
  <2>2. /\ u \in Seq(W) /\ Len(u) = d + n
        /\ \A k \in 1..(d + n) : u[k] = (IF k <= d THEN s[k] ELSE w[k - d])
    <3>1. u \in Seq(W) /\ Len(u) = Len(s) + Len(w)
      BY <2>1
    <3>2. \A k \in 1..(Len(s) + Len(w)) : u[k] = (IF k <= Len(s) THEN s[k] ELSE w[k - Len(s)])
      BY <2>1
    <3>3. Len(s) = d /\ Len(w) = n
      BY <1>1, <1>3, <1>0
    <3> HIDE DEF u
    <3> QED BY <3>1, <3>2, <3>3
  <2> HIDE DEF u
  <2>3. u = [k \in 1..Len(u) |-> u[k]]
    BY <2>2
  <2> QED BY <2>2, <2>3 DEF u
<1>5. \A k \in 1..(d + n) : (IF k <= d THEN s[k] ELSE w[k - d]) = f[(T + k) - 1]
  <2> TAKE k \in 1..(d + n)
  <2>1. CASE k <= d
    <3>1. k \in 1..d
      BY <1>1, <2>1
    <3> QED BY <1>2, <2>1, <3>1
  <2>2. CASE ~(k <= d)
    <3>1. k - d \in 1..n /\ (L + (k - d)) - 1 = (T + k) - 1
      BY <1>0, <1>d, <2>2
    <3> QED BY <1>0, <1>3, <2>2, <3>1 DEF FollowAt
  <2> QED BY <2>1, <2>2
<1>6. d + n = M - T
  BY <1>0, <1>d
<1> QED BY <1>4, <1>5, <1>6 DEF Seg, Following, Prolonged, s, w

-----------------------------------------------------------------------------
(* What one step may do to a queue: its items q, how often each was taken  *)
(* (c), and how many were pushed (p).                                      *)

Pushes(q, c, p, q2, c2, p2) ==
  \E n \in 1..(MaxItems - p) : q2 = q \o [i \in 1..n |-> p + i] /\ p2 = p + n /\ c2 = c
TakesLast(q, c, p, q2, c2, p2) ==
  q # <<>> /\ q2 = D!Front(q) /\ c2 = [c EXCEPT ![D!Last(q)] = @ + 1] /\ p2 = p
TakesFirst(q, c, p, q2, c2, p2) ==
  q # <<>> /\ q2 = Tail(q) /\ c2 = [c EXCEPT ![Head(q)] = @ + 1] /\ p2 = p
Keeps(q, c, p, q2, c2, p2) == q2 = q /\ c2 = c /\ p2 = p
WorkStep(q, c, p, q2, c2, p2) ==
  \/ Keeps(q, c, p, q2, c2, p2) \/ Pushes(q, c, p, q2, c2, p2)
  \/ TakesLast(q, c, p, q2, c2, p2) \/ TakesFirst(q, c, p, q2, c2, p2)

Counts32 == [x \in 1..MaxItems |-> taken[x]]

LEMMA Step64 ==
  ASSUME container = "deque64", container' = container,
         WorkStep(Items, Taken, pushed, Items', Taken', pushed')
  PROVE  [D!Next]_(D!vars)
BY DEF WorkStep, Keeps, Pushes, TakesLast, TakesFirst, D!Next, D!Push, D!TakeBottom, D!TakeTop,
       D!vars, Queue, TakenFrom

LEMMA Step32 ==
  ASSUME container = "deque32", container' = container,
         WorkStep(Items32, Counts32, pushed, Items32', Counts32', pushed')
  PROVE  [D!Next]_(D!vars)
BY DEF WorkStep, Keeps, Pushes, TakesLast, TakesFirst, D!Next, D!Push, D!TakeBottom, D!TakeTop,
       D!vars, Queue, TakenFrom, Counts32

LEMMA StepInbox ==
  ASSUME container = "inbox", container' = container,
         WorkStep(I!Items, I!Taken, write_offset, I!Items', I!Taken', write_offset')
  PROVE  [D!Next]_(D!vars)
BY DEF WorkStep, Keeps, Pushes, TakesLast, TakesFirst, D!Next, D!Push, D!TakeBottom, D!TakeTop,
       D!vars, Queue, TakenFrom

-----------------------------------------------------------------------------
(* The owner's steps.                                                      *)

Contents == 0..Torn
View(T, B) == Seg(Cells(buffers), T, End(B))

OwnerType == [pc : Steps64 \cup Steps32, b : Index, t : Index, n : Nat, done : Nat]

\* A step of the owner that leaves the blocks alone: to top T2, bottom B2, having read O2.
OwnerGoes(K, T, S, T2, B2, O2) ==
  /\ buffers' = buffers /\ thief' = thief
  /\ pushed' \in 0..MaxItems /\ pushed <= pushed'
  /\ taken' \in [NoItem..Torn -> Nat]
  /\ owner' \in OwnerType
  /\ T2 \in Int /\ B2 \in Int /\ O2 \in Int
  /\ K <= O2 /\ O2 <= T2 /\ T <= T2 /\ T2 <= B2 + 1 /\ T2 <= K + pushed' /\ B2 <= K + pushed'
  /\ state' = [t |-> Wrap(T2), b |-> Wrap(B2)]
  /\ OwnerPart(K, T2, B2, O2)' /\ PushPart(B2, O2)'
  /\ T2 = T => \A s \in Thieves : thief[s].pc \in {"buffer", "item", "cas"} /\ S[s] = T =>
                 T < End(B2)' \/ (owner'.pc = "claimed" /\ O2 = T /\ T = B2)

LEMMA OwnerStep ==
  ASSUME NEW K, NEW T, NEW B, NEW O, NEW S, DequeAt(K, T, B, O, S),
         NEW T2, NEW B2, NEW O2, OwnerGoes(K, T, S, T2, B2, O2)
  PROVE  DequeAt(K, T2, B2, O2, S)'
<1>1. DequeTypes'
  <2>1. state' \in [t : Index, b : Index]
    BY WrapFacts DEF OwnerGoes
  <2> QED BY <2>1 DEF DequeAt, DequeTypes, OwnerGoes, OwnerType
<1>2. Bounds(K, T2, B2, O2, S)'
  <2>1. /\ K \in Int /\ S \in [Thieves -> Int] /\ T \in Int
        /\ \A s \in Thieves : K <= S[s] /\ S[s] <= T /\ (thief[s].pc # "idle" => thief[s].t = Wrap(S[s]))
    BY DEF DequeAt, Bounds
  <2>2. \A s \in Thieves : K <= S[s] /\ S[s] <= T2
    BY <2>1 DEF OwnerGoes
  <2>3. Wrap(T2)' = Wrap(T2) /\ Wrap(B2)' = Wrap(B2) /\ \A s \in Thieves : Wrap(S[s])' = Wrap(S[s])
    BY DEF Wrap
  <2> QED BY <2>1, <2>2, <2>3 DEF Bounds, OwnerGoes
<1>3. ThiefPart(T2, B2, O2, S)'
  <2>1. CASE T2 = T
    BY <2>1 DEF DequeAt, ThiefPart, OwnerGoes
  <2>2. CASE T2 # T
    <3>1. \A s \in Thieves : S[s] # T2
      BY <2>2 DEF DequeAt, Bounds, OwnerGoes
    <3> QED BY <3>1 DEF DequeAt, ThiefPart, OwnerGoes
  <2> QED BY <2>1, <2>2
<1> QED BY <1>1, <1>2, <1>3 DEF DequeAt, OwnerGoes

\* The facts of DequeAt that the steps of the owner use.
LEMMA OwnerFacts ==
  ASSUME NEW K, NEW T, NEW B, NEW O, NEW S, DequeAt(K, T, B, O, S)
  PROVE  /\ DequeTypes
         /\ K \in Int /\ T \in Int /\ B \in Int /\ O \in Int /\ pushed \in Int
         /\ K <= O /\ O <= T /\ T <= B + 1 /\ T <= K + pushed /\ B <= K + pushed
         /\ MaxItems \in Nat /\ pushed \in 0..MaxItems
         /\ state = [t |-> Wrap(T), b |-> Wrap(B)] /\ state.t = Wrap(T) /\ state.b = Wrap(B)
         /\ state.t \in Index /\ state.b \in Index
         /\ owner \in OwnerType /\ taken \in [NoItem..Torn -> Nat]
         /\ OwnerPart(K, T, B, O) /\ PushPart(B, O)
         /\ Cells(buffers) \in [Int -> Contents]
<1>1. Cells(buffers) \in [Int -> Contents]
  BY LastBlock DEF DequeAt, DequeTypes, Contents
<1>2. MaxItems \in Nat
  BY HalfWordFacts
<1>3. /\ state = [t |-> Wrap(T), b |-> Wrap(B)]
      /\ state.t = Wrap(T) /\ state.b = Wrap(B)
  BY DEF DequeAt, Bounds
<1>4. state.t \in Index /\ state.b \in Index
  BY DEF DequeAt, DequeTypes
<1>5. pushed \in 0..MaxItems /\ pushed \in Int
  BY DEF DequeAt, DequeTypes
<1>6. /\ K \in Int /\ T \in Int /\ B \in Int /\ O \in Int
      /\ K <= O /\ O <= T /\ T <= B + 1 /\ T <= K + pushed /\ B <= K + pushed
  BY DEF DequeAt, Bounds
<1>7. /\ DequeTypes /\ owner \in OwnerType /\ taken \in [NoItem..Torn -> Nat]
      /\ OwnerPart(K, T, B, O) /\ PushPart(B, O)
  BY DEF DequeAt, DequeTypes, OwnerType
<1> QED BY <1>1, <1>2, <1>3, <1>4, <1>5, <1>6, <1>7

LEMMA ZeroIndex == 0 \in Index
BY HalfWordFacts DEF Index

\* A step of the owner that changes only its own place, and has read the top as O2.
OwnerTurns(K, T, B, O, O2) ==
  /\ UNCHANGED <<state, buffers, pushed, taken, thief>>
  /\ O2 \in Int /\ O <= O2 /\ O2 <= T
  /\ owner' \in OwnerType
  /\ owner.pc # "claimed"
  /\ OwnerPart(K, T, B, O2)' /\ PushPart(B, O2)'
  /\ End(B)' = End(B) \/ (End(B) <= T /\ End(B)' <= T)

LEMMA OwnerTurn ==
  ASSUME NEW K, NEW T, NEW B, NEW O, NEW S, DequeAt(K, T, B, O, S),
         NEW O2, OwnerTurns(K, T, B, O, O2)
  PROVE  DequeAt(K, T, B, O2, S)' /\ View(T, B)' = View(T, B)
<1>1. /\ K \in Int /\ T \in Int /\ B \in Int /\ O \in Int /\ pushed \in Int
      /\ K <= O /\ O <= T /\ T <= B + 1 /\ T <= K + pushed /\ B <= K + pushed
  BY OwnerFacts
<1>2. pushed \in 0..MaxItems /\ taken \in [NoItem..Torn -> Nat] /\ state = [t |-> Wrap(T), b |-> Wrap(B)]
  BY OwnerFacts
<1>3. UNCHANGED <<state, buffers, pushed, taken, thief>> /\ O2 \in Int /\ O <= O2 /\ O2 <= T
  BY DEF OwnerTurns
<1>4. K <= O2 /\ T <= T /\ pushed <= pushed
  BY <1>1, <1>3
<1>5. \A s \in Thieves : thief[s].pc \in {"buffer", "item", "cas"} /\ S[s] = T => T < End(B)'
  <2>1. \A s \in Thieves : thief[s].pc \in {"buffer", "item", "cas"} /\ S[s] = T => T < End(B)
    BY DEF DequeAt, ThiefPart, OwnerTurns
  <2>2. End(B)' = End(B) \/ ~(T < End(B))
    BY <1>1 DEF OwnerTurns, End
  <2> QED BY <2>1, <2>2
<1>6. OwnerGoes(K, T, S, T, B, O2)
  <2>1. owner' \in OwnerType /\ OwnerPart(K, T, B, O2)' /\ PushPart(B, O2)'
    BY DEF OwnerTurns
  <2>2. state' = [t |-> Wrap(T), b |-> Wrap(B)]
    BY <1>2, <1>3
  <2> QED BY <1>1, <1>2, <1>3, <1>4, <1>5, <2>1, <2>2 DEF OwnerGoes
<1>7. View(T, B)' = View(T, B)
  <2>1. CASE End(B)' = End(B)
    BY <1>3, <2>1 DEF View
  <2>2. CASE End(B) <= T /\ End(B)' <= T
    <3>1. End(B) \in Int /\ End(B)' \in Int
      BY <1>1 DEF End
    <3> QED BY <1>1, <2>2, <3>1, SegEmpty DEF View
  <2> QED BY <2>1, <2>2 DEF OwnerTurns
<1> QED BY <1>6, <1>7, OwnerStep

LEMMA BeginPushStep ==
  ASSUME NEW K, NEW T, NEW B, NEW O, NEW S, DequeAt(K, T, B, O, S),
         NEW n \in 1..MaxBulk, BeginPush(n)
  PROVE  DequeAt(K, T, B, T, S)' /\ View(T, B)' = View(T, B)
<1>1. /\ owner.pc = "idle" /\ pushed + n <= MaxItems
      /\ owner' = [pc |-> "grow", b |-> state.b, t |-> state.t, n |-> n, done |-> 0]
      /\ UNCHANGED <<state, buffers, pushed, taken, thief>>
  BY DEF BeginPush
<1>2. n \in Nat /\ n > 0
  OBVIOUS
<1>3. /\ state.t = Wrap(T) /\ state.b = Wrap(B) /\ state.t \in Index /\ state.b \in Index
      /\ O <= T /\ T \in Int /\ T <= B
  BY <1>1, OwnerFacts DEF OwnerPart
<1>4. owner' \in OwnerType
  BY <1>1, <1>2, <1>3 DEF OwnerType, Steps64
<1>5. OwnerPart(K, T, B, T)' /\ PushPart(B, T)'
  BY <1>1, <1>2, <1>3 DEF OwnerPart, PushPart, Wrap
<1>6. OwnerTurns(K, T, B, O, T)
  BY <1>1, <1>3, <1>4, <1>5 DEF OwnerTurns, End, Undecided
<1> QED BY <1>6, OwnerTurn

LEMMA BeginPopStep ==
  ASSUME NEW K, NEW T, NEW B, NEW O, NEW S, DequeAt(K, T, B, O, S), BeginPop
  PROVE  DequeAt(K, T, B, T, S)' /\ View(T, B)' = View(T, B)
<1>1. /\ owner.pc = "idle"
      /\ owner' = [pc |-> "pop", b |-> state.b, t |-> state.t, n |-> 0, done |-> 0]
      /\ UNCHANGED <<state, buffers, pushed, taken, thief>>
  BY DEF BeginPop, OwnerIdle
<1>3. /\ state.t = Wrap(T) /\ state.b = Wrap(B) /\ state.t \in Index /\ state.b \in Index
      /\ O <= T /\ T \in Int /\ T <= B
  BY <1>1, OwnerFacts DEF OwnerPart
<1>4. owner' \in OwnerType
  BY <1>1, <1>3 DEF OwnerType, Steps64
<1>5. OwnerPart(K, T, B, T)' /\ PushPart(B, T)'
  BY <1>1, <1>3 DEF OwnerPart, PushPart, Wrap
<1>6. OwnerTurns(K, T, B, O, T)
  BY <1>1, <1>3, <1>4, <1>5 DEF OwnerTurns, End, Undecided
<1> QED BY <1>6, OwnerTurn

LEMMA PopEmptyStep ==
  ASSUME NEW K, NEW T, NEW B, NEW O, NEW S, DequeAt(K, T, B, O, S), PopEmpty
  PROVE  DequeAt(K, T, B, O, S)' /\ View(T, B)' = View(T, B) /\ B <= T
<1>1. /\ owner.pc = "pop" /\ Diff(owner.b, owner.t) <= 0 /\ owner' = OwnerIdle
      /\ UNCHANGED <<state, buffers, pushed, taken, thief>>
  BY DEF PopEmpty
<1>2. /\ T \in Int /\ O \in Int /\ B \in Int /\ K \in Int /\ pushed \in Int /\ MaxItems \in Nat
      /\ K <= O /\ O <= T /\ B <= K + pushed /\ pushed <= MaxItems
  BY OwnerFacts
<1>3. owner.b = Wrap(B) /\ owner.t = Wrap(O) /\ T <= B
  BY <1>1, OwnerFacts DEF OwnerPart
<1>4. B <= O
  <2>1. -1 <= B - O /\ B - O <= MaxItems
    BY <1>2, <1>3
  <2>2. Diff(owner.b, owner.t) = B - O
    BY <1>2, <1>3, <2>1, DiffIs
  <2> QED BY <1>1, <1>2, <2>2
<1>5. owner' \in OwnerType
  BY <1>1, ZeroIndex DEF OwnerType, OwnerIdle, Steps64
<1>6. OwnerPart(K, T, B, O)' /\ PushPart(B, O)'
  BY <1>1, <1>3 DEF OwnerPart, PushPart, OwnerIdle
<1>7. OwnerTurns(K, T, B, O, O)
  BY <1>1, <1>2, <1>5, <1>6 DEF OwnerTurns, End, Undecided, OwnerIdle
<1> QED BY <1>2, <1>4, <1>7, OwnerTurn

\* try_pop finds that a thief moved the top, and tries again.
LEMMA PopAgainStep ==
  ASSUME NEW K, NEW T, NEW B, NEW O, NEW S, DequeAt(K, T, B, O, S),
         owner.pc = "pop", owner' = [owner EXCEPT !.t = state.t],
         UNCHANGED <<state, buffers, pushed, taken, thief>>
  PROVE  DequeAt(K, T, B, T, S)' /\ View(T, B)' = View(T, B)
<1>1. /\ state.t = Wrap(T) /\ state.t \in Index /\ owner.b = Wrap(B)
      /\ O <= T /\ T \in Int /\ T <= B /\ owner \in OwnerType
  BY OwnerFacts DEF OwnerPart
<1>2. owner' \in OwnerType /\ owner'.pc = "pop" /\ owner'.b = Wrap(B) /\ owner'.t = Wrap(T)
  BY <1>1 DEF OwnerType
<1>3. OwnerPart(K, T, B, T)' /\ PushPart(B, T)'
  BY <1>1, <1>2 DEF OwnerPart, PushPart, Wrap
<1>4. OwnerTurns(K, T, B, O, T)
  BY <1>1, <1>2, <1>3 DEF OwnerTurns, End, Undecided
<1> QED BY <1>4, OwnerTurn

LEMMA ClaimStep ==
  ASSUME NEW K, NEW T, NEW B, NEW O, NEW S, DequeAt(K, T, B, O, S),
         owner.pc = "pop", Claim, UNCHANGED <<buffers, pushed, taken, thief>>
  PROVE  /\ DequeAt(K, T, B - 1, T, S)' /\ owner'.pc = "claimed" /\ T <= B
         /\ View(T, B) = Seg(Cells(buffers), T, B) /\ View(T, B - 1)' = Seg(Cells(buffers), T, B - 1)
<1>1. /\ K \in Int /\ T \in Int /\ B \in Int /\ O \in Int /\ pushed \in Int
      /\ K <= O /\ O <= T /\ T <= B + 1 /\ T <= K + pushed /\ B <= K + pushed
  BY OwnerFacts
<1>2. pushed \in 0..MaxItems /\ taken \in [NoItem..Torn -> Nat] /\ state = [t |-> Wrap(T), b |-> Wrap(B)]
      /\ state.t \in Index /\ state.t = Wrap(T) /\ owner \in OwnerType
  BY OwnerFacts
<1>3. owner.b = Wrap(B) /\ T <= B
  BY OwnerFacts DEF OwnerPart
<1>4. Wrap(Wrap(B) - 1) = Wrap(B - 1) /\ Wrap(B - 1) \in Index
  <2>1. Wrap(Wrap(B) + (-1)) = Wrap(B + (-1)) /\ Wrap(B) \in Int /\ B - 1 \in Int
    BY <1>1, WrapFacts
  <2>2. Wrap(B) + (-1) = Wrap(B) - 1 /\ B + (-1) = B - 1
    BY <1>1, <2>1
  <2>3. Wrap(B - 1) \in Index
    BY <2>1, WrapFacts
  <2> QED BY <2>1, <2>2, <2>3
<1>5. owner' = [owner EXCEPT !.pc = "claimed", !.b = Wrap(B - 1), !.t = Wrap(T)]
      /\ state' = [t |-> Wrap(T), b |-> Wrap(B - 1)]
  BY <1>2, <1>3, <1>4 DEF Claim
<1>6. owner' \in OwnerType /\ owner'.pc = "claimed" /\ owner'.b = Wrap(B - 1) /\ owner'.t = Wrap(T)
  BY <1>2, <1>4, <1>5 DEF OwnerType, Steps64
<1>7. OwnerPart(K, T, B - 1, T)' /\ PushPart(B - 1, T)'
  <2>1. (T <= B - 1 \/ T = (B - 1) + 1) /\ B - 1 < K + pushed
    BY <1>1, <1>3
  <2> QED BY <1>1, <1>6, <2>1 DEF OwnerPart, PushPart, Wrap
<1>8. End(B) = B /\ End(B - 1)' = B - 1
  BY <1>6 DEF End, Undecided
<1>9. OwnerGoes(K, T, S, T, B - 1, T)
  <2>1. \A s \in Thieves : thief[s].pc \in {"buffer", "item", "cas"} /\ S[s] = T => T < B
    BY <1>8 DEF DequeAt, ThiefPart
  <2>2. T < B => T < B - 1 \/ T = B - 1
    BY <1>1
  <2>3. \A s \in Thieves : thief[s].pc \in {"buffer", "item", "cas"} /\ S[s] = T =>
           T < End(B - 1)' \/ (owner'.pc = "claimed" /\ T = T /\ T = B - 1)
    BY <1>6, <1>8, <2>1, <2>2
  <2>4. /\ B - 1 \in Int /\ K <= T /\ T <= T /\ T <= (B - 1) + 1 /\ B - 1 <= K + pushed
        /\ pushed <= pushed
    BY <1>1, <1>3
  <2> QED BY <1>1, <1>2, <1>5, <1>6, <1>7, <2>3, <2>4 DEF OwnerGoes
<1> QED BY <1>3, <1>6, <1>8, <1>9, OwnerStep DEF View

\* A thief took the item first: bottom is put back, after fetch_sub or after the store.
LEMMA RestoreStep ==
  ASSUME NEW K, NEW T, NEW B, NEW O, NEW S, DequeAt(K, T, B, O, S),
         T = B + 1, owner.pc \in {"claimed", "restore"},
         owner' = OwnerIdle, state' = [state EXCEPT !.b = Wrap(owner.b + 1)],
         UNCHANGED <<buffers, pushed, taken, thief>>
  PROVE  DequeAt(K, T, B + 1, O, S)' /\ View(T, B) = <<>> /\ View(T, B + 1)' = <<>>
<1>1. /\ K \in Int /\ T \in Int /\ B \in Int /\ O \in Int /\ pushed \in Int
      /\ K <= O /\ O <= T /\ T <= B + 1 /\ T <= K + pushed /\ B <= K + pushed
  BY OwnerFacts
<1>2. pushed \in 0..MaxItems /\ taken \in [NoItem..Torn -> Nat] /\ state = [t |-> Wrap(T), b |-> Wrap(B)]
  BY OwnerFacts
<1>3. owner.b = Wrap(B) /\ B < K + pushed
  BY OwnerFacts DEF OwnerPart
<1>4. state' = [t |-> Wrap(T), b |-> Wrap(B + 1)]
  <2>1. Wrap(Wrap(B) + 1) = Wrap(B + 1)
    BY <1>1, WrapFacts
  <2> QED BY <1>2, <1>3, <2>1
<1>5. owner' \in OwnerType /\ owner'.pc = "idle"
  BY ZeroIndex DEF OwnerType, OwnerIdle, Steps64
<1>6. OwnerPart(K, T, B + 1, O)' /\ PushPart(B + 1, O)'
  BY <1>1, <1>5 DEF OwnerPart, PushPart
<1>7. End(B) = B /\ End(B + 1)' = B + 1
  BY <1>5 DEF End, Undecided
<1>8. OwnerGoes(K, T, S, T, B + 1, O)
  <2>1. ~(T < B) /\ T # B
    BY <1>1
  <2>2. \A s \in Thieves : thief[s].pc \in {"buffer", "item", "cas"} => S[s] # T
    BY <1>7, <2>1 DEF DequeAt, ThiefPart
  <2>3. /\ B + 1 \in Int /\ T <= T /\ T <= (B + 1) + 1 /\ B + 1 <= K + pushed /\ pushed <= pushed
    BY <1>1, <1>3
  <2> QED BY <1>1, <1>2, <1>4, <1>5, <1>6, <2>2, <2>3 DEF OwnerGoes
<1> QED BY <1>1, <1>7, <1>8, OwnerStep, SegEmpty DEF View

LEMMA PopRestoreStep ==
  ASSUME NEW K, NEW T, NEW B, NEW O, NEW S, DequeAt(K, T, B, O, S), PopRestore
  PROVE  /\ DequeAt(K, T, B + 1, O, S)' /\ View(T, B) = <<>> /\ View(T, B + 1)' = <<>>
         /\ T = B + 1 /\ O = B + 1
<1>1. /\ owner.pc = "claimed" /\ Diff(owner.b, owner.t) < 0
      /\ state' = [state EXCEPT !.b = Wrap(owner.b + 1)]
      /\ owner' = OwnerIdle /\ UNCHANGED <<buffers, pushed, taken, thief>>
  BY DEF PopRestore
<1>2. /\ T \in Int /\ O \in Int /\ B \in Int /\ K \in Int /\ pushed \in Int /\ MaxItems \in Nat
      /\ K <= O /\ O <= T /\ T <= B + 1 /\ B <= K + pushed /\ pushed <= MaxItems
  BY OwnerFacts
<1>3. owner.b = Wrap(B) /\ owner.t = Wrap(O) /\ ((O <= B /\ T <= B) \/ (O = B + 1 /\ T = B + 1))
  BY <1>1, OwnerFacts DEF OwnerPart
<1>4. T = B + 1 /\ O = B + 1
  <2>1. -1 <= B - O /\ B - O <= MaxItems
    BY <1>2
  <2>2. Diff(owner.b, owner.t) = B - O
    BY <1>2, <1>3, <2>1, DiffIs
  <2> QED BY <1>1, <1>2, <1>3, <2>2
<1> QED BY <1>1, <1>4, RestoreStep

\* The item that the deque's users see taken, under the name the code has for it.
LEMMA TakeIs ==
  ASSUME DequeTypes, NEW j \in Int
  PROVE  Item(Active, Wrap(j)) = Cells(buffers)[j] /\ Cells(buffers)[j] \in NoItem..Torn
<1>1. Active = Len(buffers) /\ Len(buffers) \in 1..Len(buffers) /\ Cells(buffers) \in [Int -> 0..Torn]
  BY LastBlock DEF DequeTypes, Active
<1> QED BY <1>1, ItemIs DEF Cells, NoItem

LEMMA TakeFacts ==
  ASSUME DequeTypes, NEW x \in NoItem..Torn, Take(x)
  PROVE  /\ taken' \in [NoItem..Torn -> Nat] /\ taken' # taken
         /\ taken'[x] = taken[x] + 1 /\ \A y \in NoItem..Torn : y # x => taken'[y] = taken[y]
<1>1. taken \in [NoItem..Torn -> Nat] /\ taken' = [taken EXCEPT ![x] = taken[x] + 1]
  BY DEF DequeTypes, Take
<1>2. taken[x] + 1 # taken[x] /\ taken[x] + 1 \in Nat
  BY <1>1
<1> QED BY <1>1, <1>2

\* try_pop returns an item that no thief can have.
LEMMA PopTakeStep ==
  ASSUME NEW K, NEW T, NEW B, NEW O, NEW S, DequeAt(K, T, B, O, S), PopTake
  PROVE  /\ DequeAt(K, T, B, O, S)' /\ View(T, B)' = View(T, B)
         /\ Take(Cells(buffers)[B]) /\ O < B
<1>1. /\ owner.pc = "claimed" /\ Diff(owner.b, owner.t) > 0
      /\ Take(Item(Active, owner.b)) /\ owner' = OwnerIdle
      /\ UNCHANGED <<state, buffers, pushed, thief>>
  BY DEF PopTake
<1>2. /\ T \in Int /\ O \in Int /\ B \in Int /\ K \in Int /\ pushed \in Int /\ MaxItems \in Nat
      /\ K <= O /\ O <= T /\ T <= B + 1 /\ T <= K + pushed /\ B <= K + pushed /\ pushed <= MaxItems
  BY OwnerFacts
<1>3. owner.b = Wrap(B) /\ owner.t = Wrap(O) /\ ((O <= B /\ T <= B) \/ (O = B + 1 /\ T = B + 1))
  BY <1>1, OwnerFacts DEF OwnerPart
<1>4. O < B /\ T <= B
  <2>1. -1 <= B - O /\ B - O <= MaxItems
    BY <1>2
  <2>2. Diff(owner.b, owner.t) = B - O
    BY <1>2, <1>3, <2>1, DiffIs
  <2> QED BY <1>1, <1>2, <1>3, <2>2
<1>5. Take(Cells(buffers)[B]) /\ taken' \in [NoItem..Torn -> Nat]
  BY <1>1, <1>2, <1>3, OwnerFacts, TakeIs, TakeFacts
<1>6. owner' \in OwnerType /\ owner'.pc = "idle"
  BY <1>1, ZeroIndex DEF OwnerType, OwnerIdle, Steps64
<1>7. OwnerPart(K, T, B, O)' /\ PushPart(B, O)'
  BY <1>4, <1>6 DEF OwnerPart, PushPart
<1>8. End(B) = B /\ End(B)' = B
  BY <1>1, <1>6 DEF End, Undecided
<1>9. OwnerGoes(K, T, S, T, B, O)
  <2>1. \A s \in Thieves : thief[s].pc \in {"buffer", "item", "cas"} /\ S[s] = T => T < End(B)'
    BY <1>2, <1>4, <1>8 DEF DequeAt, ThiefPart
  <2>2. pushed \in 0..MaxItems /\ state = [t |-> Wrap(T), b |-> Wrap(B)]
    BY OwnerFacts
  <2>3. T <= T /\ pushed <= pushed /\ state' = [t |-> Wrap(T), b |-> Wrap(B)]
    BY <1>1, <1>2, <2>2
  <2> QED BY <1>1, <1>2, <1>5, <1>6, <1>7, <2>1, <2>2, <2>3 DEF OwnerGoes
<1> QED BY <1>1, <1>4, <1>5, <1>8, <1>9, OwnerStep DEF View

\* The last item: both indices move past it.
LEMMA PopTakeLastStep ==
  ASSUME NEW K, NEW T, NEW B, NEW O, NEW S, DequeAt(K, T, B, O, S), PopTakeLast
  PROVE  /\ DequeAt(K, T + 1, B + 1, O, S)' /\ View(T, B) = <<>> /\ View(T + 1, B + 1)' = <<>>
         /\ Take(Cells(buffers)[B]) /\ O = B /\ T = B
<1>1. /\ owner.pc = "claimed" /\ owner.b = owner.t
      /\ Take(Item(Active, owner.b)) /\ owner' = OwnerIdle
      /\ state' = [t |-> Wrap(owner.b + 1), b |-> Wrap(owner.b + 1)]
      /\ UNCHANGED <<buffers, pushed, thief>>
  BY DEF PopTakeLast
<1>2. /\ T \in Int /\ O \in Int /\ B \in Int /\ K \in Int /\ pushed \in Int /\ MaxItems \in Nat
      /\ K <= O /\ O <= T /\ T <= B + 1 /\ T <= K + pushed /\ B <= K + pushed /\ pushed <= MaxItems
  BY OwnerFacts
<1>3. /\ owner.b = Wrap(B) /\ owner.t = Wrap(O) /\ ((O <= B /\ T <= B) \/ (O = B + 1 /\ T = B + 1))
      /\ B < K + pushed
  <2>1. OwnerPart(K, T, B, O)
    BY OwnerFacts
  <2>2. owner.pc = "claimed"
    BY <1>1
  <2> QED BY <2>1, <2>2 DEF OwnerPart
<1>4. O = B /\ T = B
  <2>1. B - O < HalfWord /\ O - B < HalfWord
    <3>1. MaxItems + 1 < HalfWord \/ (MaxItems = 0 /\ HalfWord > 1)
      BY HalfWordFacts
    <3>2. B - O <= MaxItems /\ O - B <= 1
      BY <1>2
    <3> QED BY <1>2, <3>1, <3>2, HalfWordFacts
  <2>2. B = O
    BY <1>1, <1>2, <1>3, <2>1, WrapFacts
  <2> QED BY <1>2, <1>3, <2>2
<1>5. Take(Cells(buffers)[B]) /\ taken' \in [NoItem..Torn -> Nat]
  BY <1>1, <1>2, <1>3, OwnerFacts, TakeIs, TakeFacts
<1>6. owner' \in OwnerType /\ owner'.pc = "idle"
  BY <1>1, ZeroIndex DEF OwnerType, OwnerIdle, Steps64
<1>7. OwnerPart(K, T + 1, B + 1, O)' /\ PushPart(B + 1, O)'
  BY <1>2, <1>4, <1>6 DEF OwnerPart, PushPart
<1>8. End(B) = B /\ End(B + 1)' = B + 1
  BY <1>1, <1>6 DEF End, Undecided
<1>9. OwnerGoes(K, T, S, T + 1, B + 1, O)
  <2>1. pushed \in 0..MaxItems
    BY OwnerFacts
  <2>2. state' = [t |-> Wrap(T + 1), b |-> Wrap(B + 1)]
    BY <1>1, <1>2, <1>3, <1>4, WrapFacts
  <2>3. /\ T + 1 \in Int /\ B + 1 \in Int /\ O <= T + 1 /\ T <= T + 1 /\ T + 1 <= (B + 1) + 1
        /\ T + 1 <= K + pushed /\ B + 1 <= K + pushed /\ pushed <= pushed /\ T + 1 # T
    BY <1>2, <1>3, <1>4
  <2> QED BY <1>1, <1>2, <1>5, <1>6, <1>7, <2>1, <2>2, <2>3 DEF OwnerGoes
<1>10. View(T, B) = <<>> /\ View(T + 1, B + 1)' = <<>>
  BY <1>2, <1>4, <1>8, SegEmpty DEF View
<1> QED BY <1>4, <1>5, <1>9, <1>10, OwnerStep

-----------------------------------------------------------------------------
(* push and post_bulk.                                                     *)

\* A step of a push that changes the blocks, not what they hold of the items.
BlocksMove(T, B, O) ==
  /\ UNCHANGED <<state, pushed, taken, thief>>
  /\ owner.pc \in {"grow", "store", "storing"} /\ owner'.pc \in {"store", "storing"}
  /\ owner' \in OwnerType /\ owner'.b = owner.b /\ owner'.t = owner.t
  /\ buffers' \in Seq(Blocks) /\ buffers' # <<>> /\ Len(buffers) <= Len(buffers')
  /\ \A j \in T..(B - 1) : Cells(buffers')[j] = Cells(buffers)[j]
  /\ \A n \in 1..Len(buffers), j \in T..(B - 1) : Holds(buffers', n)[j] = Holds(buffers, n)[j]
  /\ PushPart(B, O)'

LEMMA PushStep ==
  ASSUME NEW K, NEW T, NEW B, NEW O, NEW S, DequeAt(K, T, B, O, S), BlocksMove(T, B, O)
  PROVE  DequeAt(K, T, B, O, S)' /\ View(T, B)' = View(T, B)
<1>1. /\ K \in Int /\ T \in Int /\ B \in Int /\ O \in Int /\ pushed \in Int
      /\ K <= O /\ O <= T /\ T <= B + 1 /\ T <= K + pushed /\ B <= K + pushed
  BY OwnerFacts
<1>2. owner.pc \in {"grow", "store", "storing"} /\ owner'.pc \in {"store", "storing"}
  BY DEF BlocksMove
<1>3. owner.b = Wrap(B) /\ owner.t = Wrap(O) /\ T <= B
  <2>1. OwnerPart(K, T, B, O)
    BY OwnerFacts
  <2> QED BY <1>2, <2>1 DEF OwnerPart
<1>4. DequeTypes'
  BY DEF DequeAt, DequeTypes, BlocksMove, OwnerType
<1>5. Bounds(K, T, B, O, S)'
  BY DEF DequeAt, Bounds, BlocksMove, Wrap
<1>6. OwnerPart(K, T, B, O)'
  <2>1. owner'.b = Wrap(B) /\ owner'.t = Wrap(O)
    BY <1>3 DEF BlocksMove
  <2> QED BY <1>2, <1>3, <2>1 DEF OwnerPart, Wrap
<1>7. End(B) = B /\ End(B)' = B
  BY <1>2 DEF End, Undecided
<1>8. ThiefPart(T, B, O, S)'
  <2> SUFFICES ASSUME NEW s \in Thieves
               PROVE  /\ thief'[s].pc \in {"buffer", "item", "cas"} /\ S[s] = T => T < B
                      /\ thief'[s].pc = "item" =>
                           /\ thief'[s].buf \in 1..Len(buffers')
                           /\ S[s] = T => Holds(buffers', thief'[s].buf)[T] = Cells(buffers')[T]
                      /\ thief'[s].pc = "cas" /\ S[s] = T => thief'[s].item = Cells(buffers')[T]
    BY <1>7 DEF ThiefPart
  <2>1. /\ thief[s].pc \in {"buffer", "item", "cas"} /\ S[s] = T => T < B
        /\ thief[s].pc = "item" =>
             /\ thief[s].buf \in 1..Len(buffers)
             /\ S[s] = T => Holds(buffers, thief[s].buf)[T] = Cells(buffers)[T]
        /\ thief[s].pc = "cas" /\ S[s] = T => thief[s].item = Cells(buffers)[T]
    BY <1>2, <1>7 DEF DequeAt, ThiefPart
  <2>2. thief' = thief /\ Len(buffers) <= Len(buffers')
    BY DEF BlocksMove
  <2>3. Len(buffers) \in Nat /\ Len(buffers') \in Nat
    BY <1>4 DEF DequeAt, DequeTypes
  <2>4. \A n \in 1..Len(buffers) : T < B => Holds(buffers', n)[T] = Holds(buffers, n)[T]
    BY <1>1 DEF BlocksMove
  <2>5. T < B => Cells(buffers')[T] = Cells(buffers)[T]
    BY <1>1 DEF BlocksMove
  <2> QED BY <2>1, <2>2, <2>3, <2>4, <2>5
<1>9. View(T, B)' = View(T, B)
  <2>1. \A j \in Int : T <= j /\ j < B => Cells(buffers')[j] = Cells(buffers)[j]
    BY <1>1 DEF BlocksMove
  <2> QED BY <1>1, <1>7, <2>1, SegSame DEF View
<1> QED BY <1>4, <1>5, <1>6, <1>8, <1>9 DEF DequeAt, BlocksMove

\* The blocks after grow, for nd items in all.
GrownBy(cap, n, live) ==
  Append(buffers, [i \in 0..(cap - 1) |->
    IF {j \in live : j % cap = i} = {} THEN NoItem
    ELSE Item(n, CHOOSE j \in {j \in live : j % cap = i} : TRUE)])
Grown(nd) ==
  IF Fits(nd) THEN buffers
  ELSE GrownBy(GrownTo(Capacity(Active), nd), Active,
               {Wrap(owner.t + k) : k \in 0..(nd - owner.n - 1)})

LEMMA GrowIs ==
  ASSUME Grow
  PROVE  buffers' = Grown(Diff(Wrap(owner.b + owner.n), owner.t))
BY Zenon DEF Grow, Grown, GrownBy

LEMMA GrowStep ==
  ASSUME NEW K, NEW T, NEW B, NEW O, NEW S, DequeAt(K, T, B, O, S), Grow
  PROVE  DequeAt(K, T, B, O, S)' /\ View(T, B)' = View(T, B)
<1> DEFINE needed == (B + owner.n) - O
           a == Len(buffers)
           cap == GrownTo(Room(buffers, a), needed)
<1>1. /\ K \in Int /\ T \in Int /\ B \in Int /\ O \in Int /\ pushed \in Int /\ MaxItems \in Nat
      /\ K <= O /\ O <= T /\ T <= B + 1 /\ T <= K + pushed /\ B <= K + pushed
  BY OwnerFacts
<1>2. /\ owner.pc = "grow" /\ owner' = [owner EXCEPT !.pc = "store"]
      /\ UNCHANGED <<state, pushed, taken, thief>> /\ owner \in OwnerType
  BY OwnerFacts DEF Grow
<1>3. /\ owner.b = Wrap(B) /\ owner.t = Wrap(O) /\ T <= B
      /\ owner.n > 0 /\ pushed + owner.n <= MaxItems /\ owner.done = 0 /\ owner.n \in Nat
  <2>1. OwnerPart(K, T, B, O) /\ PushPart(B, O)
    BY OwnerFacts
  <2> QED BY <1>2, <2>1 DEF OwnerPart, PushPart, OwnerType
<1>4. needed \in Int /\ needed <= MaxItems /\ 0 <= needed
  BY <1>1, <1>3
<1>5. Diff(Wrap(owner.b + owner.n), owner.t) = needed
  <2>1. Wrap(owner.b + owner.n) = Wrap(B + owner.n)
    <3>a. owner.n \in Int /\ B \in Int
      BY <1>1, <1>3
    <3>1. Wrap(Wrap(B) + owner.n) = Wrap(B + owner.n)
      BY <3>a, WrapFacts
    <3> QED BY <1>3, <3>1
  <2>2. B + owner.n \in Int
    BY <1>1, <1>3
  <2>3. -1 <= (B + owner.n) - O /\ (B + owner.n) - O <= MaxItems
    BY <1>4
  <2>4. Diff(Wrap(B + owner.n), Wrap(O)) = (B + owner.n) - O
    BY <1>1, <2>2, <2>3, DiffIs
  <2> QED BY <1>3, <2>1, <2>4
<1>6. /\ buffers \in Seq(Blocks) /\ buffers # <<>> /\ a \in 1..a /\ a \in Nat
      /\ Room(buffers, a) \in Capacities /\ Room(buffers, a) \in Nat \ {0}
  <2>1. buffers \in Seq(Blocks) /\ buffers # <<>>
    BY OwnerFacts DEF DequeTypes
  <2> QED BY <2>1, LastBlock, BlockFacts
<1>7. Active = a /\ Capacity(a) = Room(buffers, a)
  BY DEF Active, Capacity, Room
<1>8. owner' \in OwnerType /\ owner'.pc = "store" /\ owner'.b = owner.b /\ owner'.t = owner.t
      /\ owner'.n = owner.n /\ owner'.done = owner.done
  BY <1>2 DEF OwnerType, Steps64
<1> HIDE DEF needed
<1>9. CASE needed <= Room(buffers, a)
  <2>1. buffers' = buffers
    <3>1. buffers' = Grown(needed)
      BY <1>5, GrowIs
    <3> QED BY <1>7, <1>9, <3>1 DEF Grown, Fits
  <2>2. PushPart(B, O)'
    <3>1. 1..owner'.done = {}
      BY <1>3, <1>8
    <3> QED BY <1>2, <1>3, <1>8, <1>9, <2>1, <3>1 DEF PushPart, needed
  <2>3. BlocksMove(T, B, O)
    BY <1>2, <1>6, <1>8, <2>1, <2>2 DEF BlocksMove
  <2> QED BY <2>3, PushStep
<1>10. CASE ~(needed <= Room(buffers, a))
  <2>1. cap \in Capacities /\ needed <= cap /\ cap \in Nat
    <3>1. Room(buffers, a) < needed
      BY <1>4, <1>6, <1>10
    <3> QED BY <1>4, <1>6, <3>1, GrownFits, CapacityFacts
  <2>2. buffers' = Copied(buffers, cap, O, B)
    <3> DEFINE live == {Wrap(O + k) : k \in 0..((B - O) - 1)}
               live2 == {Wrap(owner.t + k) : k \in 0..(needed - owner.n - 1)}
    <3>1. live2 = live
      <4>1. needed - owner.n - 1 = (B - O) - 1
        BY <1>1, <1>3 DEF needed
      <4>2. \A k \in Int : Wrap(owner.t + k) = Wrap(O + k)
        BY <1>1, <1>3, WrapFacts
      <4> QED BY <4>1, <4>2
    <3> HIDE DEF live, live2
    <3>2. buffers' = GrownBy(cap, a, live)
      <4>1. buffers' = Grown(needed)
        BY <1>5, GrowIs
      <4>2. ~Fits(needed)
        BY <1>7, <1>10 DEF Fits
      <4> HIDE DEF cap, a
      <4>3. Active = a /\ GrownTo(Capacity(Active), needed) = cap
        BY <1>7 DEF cap
      <4> QED BY <3>1, <4>1, <4>2, <4>3 DEF Grown, live2
    <3>3. \A j : Item(a, j) = buffers[a][j % Room(buffers, a)]
      BY <1>7 DEF Item, Slot
    <3> HIDE DEF cap, a
    <3>4. buffers' = Append(buffers, [i \in 0..(cap - 1) |->
                       IF {j \in live : j % cap = i} = {} THEN NoItem
                       ELSE buffers[a][(CHOOSE j \in {j \in live : j % cap = i} : TRUE)
                                         % Room(buffers, a)]])
      BY <3>2, <3>3 DEF GrownBy
    <3> QED BY <3>4 DEF Copied, live, a
  <2> HIDE DEF cap
  <2>3. B - O <= cap
    BY <1>1, <1>3, <1>4, <2>1 DEF needed
  <2> DEFINE bs2 == Copied(buffers, cap, O, B)
  <2>4. /\ bs2 \in Seq(Blocks) /\ bs2 # <<>> /\ Len(bs2) = Len(buffers) + 1
        /\ Room(bs2, Len(bs2)) = cap
        /\ \A j \in O..(B - 1) : Cells(bs2)[j] = Cells(buffers)[j]
        /\ \A n \in 1..Len(buffers) : Holds(bs2, n) = Holds(buffers, n)
    BY <1>1, <1>6, <2>1, <2>3, CopyFacts
  <2>5. PushPart(B, O)'
    <3>1. 1..owner'.done = {}
      BY <1>3, <1>8
    <3>2. (B + owner'.n) - O <= Room(buffers', Len(buffers'))
      BY <1>8, <2>1, <2>2, <2>4 DEF needed
    <3> QED BY <1>2, <1>3, <1>8, <3>1, <3>2 DEF PushPart
  <2>6. BlocksMove(T, B, O)
    <3>1. \A j \in T..(B - 1) : j \in O..(B - 1)
      BY <1>1
    <3>2. \A j \in T..(B - 1) : Cells(buffers')[j] = Cells(buffers)[j]
      BY <2>2, <2>4, <3>1
    <3>3. \A n \in 1..Len(buffers), j \in T..(B - 1) : Holds(buffers', n)[j] = Holds(buffers, n)[j]
      BY <2>2, <2>4
    <3>4. buffers' \in Seq(Blocks) /\ buffers' # <<>> /\ Len(buffers) <= Len(buffers')
      BY <1>6, <2>2, <2>4
    <3> QED BY <1>2, <1>8, <2>5, <3>2, <3>3, <3>4 DEF BlocksMove
  <2> QED BY <2>6, PushStep
<1> QED BY <1>9, <1>10

\* One of the stores of an item: where it goes, and that no item of the deque is there.
LEMMA SlotFacts ==
  ASSUME NEW K, NEW T, NEW B, NEW O, NEW S, DequeAt(K, T, B, O, S),
         owner.pc \in {"store", "storing"}, owner.done < owner.n,
         NEW x \in 0..Torn, WriteSlot(Wrap(owner.b + owner.done), x)
  PROVE  /\ buffers' \in Seq(Blocks) /\ buffers' # <<>> /\ Len(buffers') = Len(buffers)
         /\ Room(buffers', Len(buffers)) = Room(buffers, Len(buffers))
         /\ Cells(buffers')[B + owner.done] = x
         /\ \A j \in T..((B + owner.done) - 1) : Cells(buffers')[j] = Cells(buffers)[j]
         /\ \A n \in 1..Len(buffers), j \in T..(B - 1) : Holds(buffers', n)[j] = Holds(buffers, n)[j]
<1> DEFINE a == Len(buffers)
           at == B + owner.done
           room == Room(buffers, a)
<1>1. /\ K \in Int /\ T \in Int /\ B \in Int /\ O \in Int /\ O <= T
      /\ buffers \in Seq(Blocks) /\ buffers # <<>>
  BY OwnerFacts DEF DequeTypes
<1>2. owner.b = Wrap(B) /\ T <= B
  <2>1. OwnerPart(K, T, B, O)
    BY OwnerFacts
  <2> QED BY <2>1 DEF OwnerPart
<1>3. (B + owner.n) - O <= room /\ owner.n \in Nat /\ owner.done \in Nat /\ at \in Int
  <2>1. PushPart(B, O) /\ owner \in OwnerType
    BY OwnerFacts
  <2>2. owner.n \in Nat /\ owner.done \in Nat
    BY <2>1 DEF OwnerType
  <2> QED BY <1>1, <2>1, <2>2 DEF PushPart
<1>4. a \in 1..a /\ a \in Nat /\ room \in Nat \ {0}
      /\ \A j \in Int : Wrap(j) % room = j % room
  BY <1>1, LastBlock, BlockFacts
<1>5. Slot(Active, Wrap(owner.b + owner.done)) = at % room
  <2>1. owner.done \in Int
    BY <1>3
  <2>2. Wrap(Wrap(B) + owner.done) = Wrap(B + owner.done)
    BY <1>1, <2>1, WrapFacts
  <2>3. Wrap(at) % room = at % room
    BY <1>3, <1>4
  <2>4. Capacity(Active) = room
    BY DEF Capacity, Active, Room
  <2> QED BY <1>2, <2>2, <2>3, <2>4 DEF Slot
<1>6. buffers' = Stored(buffers, at, x)
  BY <1>5 DEF WriteSlot, Stored, Active
<1>e. at < O + room /\ B <= at
  <2> DEFINE n == owner.n
             d == owner.done
  <2>1. n \in Nat /\ d \in Nat /\ d < n /\ (B + n) - O <= room
    BY <1>3
  <2>2. room \in Nat
    BY <1>4
  <2>3. B + d < O + room /\ B <= B + d
    <3> HIDE DEF n, d, room
    <3> QED BY <1>1, <2>1, <2>2
  <2> QED BY <2>3
<1> HIDE DEF at, room, a
<1>7. /\ buffers' \in Seq(Blocks) /\ buffers' # <<>> /\ Len(buffers') = Len(buffers)
      /\ Room(buffers', Len(buffers)) = Room(buffers, Len(buffers))
      /\ Cells(buffers')[at] = x
      /\ \A i \in Int : i # at /\ i - at < Room(buffers, Len(buffers))
                          /\ at - i < Room(buffers, Len(buffers))
                          => Cells(buffers')[i] = Cells(buffers)[i]
      /\ \A n \in 1..Len(buffers) : n # Len(buffers) => Holds(buffers', n) = Holds(buffers, n)
  BY <1>1, <1>3, <1>6, WriteFacts
<1>8. \A j \in T..(at - 1) : Cells(buffers')[j] = Cells(buffers)[j]
  <2> TAKE j \in T..(at - 1)
  <2>1. O \in Int /\ T \in Int /\ O <= T /\ at \in Int /\ room \in Int /\ room > 0
    BY <1>1, <1>3, <1>4
  <2>2. j \in Int /\ O <= j /\ j < at
    BY <2>1
  <2>3. j # at /\ j - at < room /\ at - j < room
    BY <1>e, <2>1, <2>2
  <2> QED BY <1>7, <2>2, <2>3 DEF room, a
<1>9. \A n \in 1..Len(buffers), j \in T..(B - 1) : Holds(buffers', n)[j] = Holds(buffers, n)[j]
  <2> TAKE n \in 1..Len(buffers), j \in T..(B - 1)
  <2>1. CASE n # Len(buffers)
    BY <1>7, <2>1
  <2>2. CASE n = Len(buffers)
    <3>1. j \in T..(at - 1)
      BY <1>1, <1>3 DEF at
    <3> QED BY <1>7, <1>8, <2>2, <3>1 DEF Cells
  <2> QED BY <2>1, <2>2
<1> QED BY <1>7, <1>8, <1>9 DEF at

LEMMA StoreHalfStep ==
  ASSUME NEW K, NEW T, NEW B, NEW O, NEW S, DequeAt(K, T, B, O, S), StoreHalf
  PROVE  DequeAt(K, T, B, O, S)' /\ View(T, B)' = View(T, B)
<1>1. /\ owner.pc = "store" /\ owner.done < owner.n /\ WriteSlot(Wrap(owner.b + owner.done), Torn)
      /\ owner' = [owner EXCEPT !.pc = "storing"] /\ UNCHANGED <<state, pushed, taken, thief>>
  BY DEF StoreHalf
<1>2. Torn \in 0..Torn /\ owner \in OwnerType /\ PushPart(B, O) /\ OwnerPart(K, T, B, O)
      /\ T \in Int /\ B \in Int /\ O \in Int
  <2>1. Torn \in 0..Torn
    BY HalfWordFacts DEF Torn
  <2> QED BY <2>1, OwnerFacts
<1>3. /\ buffers' \in Seq(Blocks) /\ buffers' # <<>> /\ Len(buffers') = Len(buffers)
      /\ Room(buffers', Len(buffers)) = Room(buffers, Len(buffers))
      /\ \A j \in T..((B + owner.done) - 1) : Cells(buffers')[j] = Cells(buffers)[j]
      /\ \A n \in 1..Len(buffers), j \in T..(B - 1) : Holds(buffers', n)[j] = Holds(buffers, n)[j]
  BY <1>1, <1>2, SlotFacts
<1>4. owner' \in OwnerType /\ owner'.pc = "storing" /\ owner'.b = owner.b /\ owner'.t = owner.t
      /\ owner'.n = owner.n /\ owner'.done = owner.done
  BY <1>1, <1>2 DEF OwnerType, Steps64
<1>5. T <= B /\ owner.done \in Nat
  BY <1>1, <1>2 DEF OwnerPart, OwnerType
<1>6. PushPart(B, O)'
  <2>1. \A i \in 1..owner.done : Cells(buffers')[(B + i) - 1] = pushed + i
    <3> TAKE i \in 1..owner.done
    <3>1. (B + i) - 1 \in T..((B + owner.done) - 1)
      BY <1>2, <1>5
    <3>2. Cells(buffers)[(B + i) - 1] = pushed + i
      BY <1>1, <1>2 DEF PushPart
    <3> QED BY <1>3, <3>1, <3>2
  <2>2. /\ owner.n > 0 /\ pushed + owner.n <= MaxItems
        /\ (B + owner.n) - O <= Room(buffers, Len(buffers)) /\ owner.done <= owner.n
    BY <1>1, <1>2 DEF PushPart
  <2> QED BY <1>1, <1>3, <1>4, <2>1, <2>2 DEF PushPart
<1>7. BlocksMove(T, B, O)
  <2>1. \A j \in T..(B - 1) : Cells(buffers')[j] = Cells(buffers)[j]
    BY <1>2, <1>3, <1>5
  <2>2. Len(buffers) <= Len(buffers')
    BY <1>3
  <2> QED BY <1>1, <1>3, <1>4, <1>6, <2>1, <2>2 DEF BlocksMove
<1> QED BY <1>7, PushStep

LEMMA StoreRestStep ==
  ASSUME NEW K, NEW T, NEW B, NEW O, NEW S, DequeAt(K, T, B, O, S), StoreRest
  PROVE  DequeAt(K, T, B, O, S)' /\ View(T, B)' = View(T, B)
<1>1. /\ owner.pc = "storing"
      /\ WriteSlot(Wrap(owner.b + owner.done), pushed + owner.done + 1)
      /\ owner' = [owner EXCEPT !.pc = "store", !.done = owner.done + 1]
      /\ UNCHANGED <<state, pushed, taken, thief>>
  BY DEF StoreRest
<1>2. owner \in OwnerType /\ PushPart(B, O) /\ OwnerPart(K, T, B, O)
      /\ T \in Int /\ B \in Int /\ O \in Int /\ pushed \in 0..MaxItems /\ MaxItems \in Nat
  BY OwnerFacts
<1>3. /\ T <= B /\ owner.done \in Nat /\ owner.n \in Nat /\ owner.done < owner.n
      /\ owner.n > 0 /\ pushed + owner.n <= MaxItems
      /\ (B + owner.n) - O <= Room(buffers, Len(buffers))
      /\ \A i \in 1..owner.done : Cells(buffers)[(B + i) - 1] = pushed + i
  BY <1>1, <1>2 DEF OwnerPart, OwnerType, PushPart
<1> DEFINE x == pushed + owner.done + 1
<1>4. x \in 0..Torn
  BY <1>2, <1>3 DEF Torn
<1>5. /\ buffers' \in Seq(Blocks) /\ buffers' # <<>> /\ Len(buffers') = Len(buffers)
      /\ Room(buffers', Len(buffers)) = Room(buffers, Len(buffers))
      /\ Cells(buffers')[B + owner.done] = x
      /\ \A j \in T..((B + owner.done) - 1) : Cells(buffers')[j] = Cells(buffers)[j]
      /\ \A n \in 1..Len(buffers), j \in T..(B - 1) : Holds(buffers', n)[j] = Holds(buffers, n)[j]
  BY <1>1, <1>3, <1>4, SlotFacts
<1>6. owner' \in OwnerType /\ owner'.pc = "store" /\ owner'.b = owner.b /\ owner'.t = owner.t
      /\ owner'.n = owner.n /\ owner'.done = owner.done + 1
  <2>1. owner.done + 1 \in Nat
    BY <1>3
  <2> QED BY <1>1, <1>2, <2>1 DEF OwnerType, Steps64
<1>7. PushPart(B, O)'
  <2>1. \A i \in 1..(owner.done + 1) : Cells(buffers')[(B + i) - 1] = pushed + i
    <3> TAKE i \in 1..(owner.done + 1)
    <3>1. CASE i = owner.done + 1
      <4>1. (B + i) - 1 = B + owner.done /\ x = pushed + i
        <5>1. pushed \in Int /\ B \in Int /\ owner.done \in Int
          BY <1>2, <1>3
        <5> QED BY <3>1, <5>1
      <4> QED BY <1>5, <4>1
    <3>2. CASE i # owner.done + 1
      <4>1. i \in 1..owner.done /\ (B + i) - 1 \in T..((B + owner.done) - 1)
        BY <1>2, <1>3, <3>2
      <4> QED BY <1>3, <1>5, <4>1
    <3> QED BY <3>1, <3>2
  <2>2. owner.done + 1 <= owner.n
    BY <1>3
  <2> QED BY <1>1, <1>3, <1>5, <1>6, <2>1, <2>2 DEF PushPart
<1>8. BlocksMove(T, B, O)
  <2>1. \A j \in T..(B - 1) : Cells(buffers')[j] = Cells(buffers)[j]
    BY <1>2, <1>3, <1>5
  <2>2. Len(buffers) <= Len(buffers')
    BY <1>5
  <2> QED BY <1>1, <1>5, <1>6, <1>7, <2>1, <2>2 DEF BlocksMove
<1> QED BY <1>8, PushStep

LEMMA PublishStep ==
  ASSUME NEW K, NEW T, NEW B, NEW O, NEW S, DequeAt(K, T, B, O, S), Publish
  PROVE  \E n \in 1..(MaxItems - pushed) :
            /\ DequeAt(K, T, B + n, O, S)' /\ pushed' = pushed + n /\ taken' = taken
            /\ View(T, B + n)' = View(T, B) \o Following(pushed, n)
<1> PICK n : n = owner.n
  OBVIOUS
<1>1. /\ owner.pc = "store" /\ owner.done = n
      /\ state' = [state EXCEPT !.b = Wrap(owner.b + n)]
      /\ pushed' = pushed + n /\ owner' = OwnerIdle /\ UNCHANGED <<buffers, taken, thief>>
  BY DEF Publish
<1>2. owner \in OwnerType /\ PushPart(B, O) /\ OwnerPart(K, T, B, O)
      /\ pushed \in 0..MaxItems /\ MaxItems \in Nat /\ taken \in [NoItem..Torn -> Nat]
      /\ state = [t |-> Wrap(T), b |-> Wrap(B)] /\ Cells(buffers) \in [Int -> Contents]
  BY OwnerFacts
<1>3. /\ K \in Int /\ T \in Int /\ B \in Int /\ O \in Int /\ pushed \in Int
      /\ K <= O /\ O <= T /\ T <= B + 1 /\ T <= K + pushed /\ B <= K + pushed
  BY OwnerFacts
<1>4. /\ T <= B /\ n \in Nat /\ n > 0 /\ pushed + n <= MaxItems /\ owner.b = Wrap(B)
      /\ \A i \in 1..n : Cells(buffers)[(B + i) - 1] = pushed + i
  BY <1>1, <1>2 DEF OwnerPart, OwnerType, PushPart
<1>n. /\ pushed \in 0..MaxItems /\ MaxItems \in Nat /\ n \in Nat /\ n > 0
      /\ pushed + n <= MaxItems /\ T <= B
  BY <1>2, <1>4
<1>5. state' = [t |-> Wrap(T), b |-> Wrap(B + n)]
  <2>1. Wrap(Wrap(B) + n) = Wrap(B + n)
    <3>1. n \in Int
      BY <1>4
    <3> QED BY <1>3, <3>1, WrapFacts
  <2> QED BY <1>1, <1>2, <1>4, <2>1
<1>6. owner' \in OwnerType /\ owner'.pc = "idle"
  BY <1>1, ZeroIndex DEF OwnerType, OwnerIdle, Steps64
<1>7. OwnerPart(K, T, B + n, O)' /\ PushPart(B + n, O)'
  BY <1>3, <1>4, <1>6 DEF OwnerPart, PushPart
<1>8. End(B) = B /\ End(B + n)' = B + n
  BY <1>1, <1>6 DEF End, Undecided
<1>9. OwnerGoes(K, T, S, T, B + n, O)
  <2>1. \A s \in Thieves : thief[s].pc \in {"buffer", "item", "cas"} /\ S[s] = T => T < End(B + n)'
    <3>1. \A s \in Thieves : thief[s].pc \in {"buffer", "item", "cas"} /\ S[s] = T => T < B
      BY <1>1, <1>8 DEF DequeAt, ThiefPart
    <3>2. T < B => T < B + n
      BY <1>3, <1>4
    <3> QED BY <1>8, <3>1, <3>2
  <2>2. /\ B + n \in Int /\ T <= T /\ T <= (B + n) + 1 /\ T <= K + pushed' /\ B + n <= K + pushed'
        /\ pushed <= pushed' /\ pushed' \in 0..MaxItems
    <3>1. pushed' = pushed + n
      BY <1>1
    <3> QED BY <1>3, <1>n, <3>1
  <2> QED BY <1>1, <1>2, <1>3, <1>5, <1>6, <1>7, <2>1, <2>2 DEF OwnerGoes
<1>10. View(T, B + n)' = View(T, B) \o Following(pushed, n)
  <2>1. Seg(Cells(buffers), T, B + n) = Seg(Cells(buffers), T, B) \o Following(pushed, n)
    <3>1. ProlongedAt(Cells(buffers), T, B, B + n, pushed, n)
      BY <1>2, <1>3, <1>4, <1>n DEF ProlongedAt, FollowAt
    <3>2. Seg(Cells(buffers), T, B + n) = Prolonged(Cells(buffers), T, B, pushed, n)
      BY <3>1, SegMore, Zenon
    <3> QED BY <3>2 DEF Prolonged
  <2>2. View(T, B + n)' = Seg(Cells(buffers), T, B + n)
    BY <1>1, <1>8 DEF View
  <2> QED BY <1>8, <2>1, <2>2 DEF View
<1>11. n \in 1..(MaxItems - pushed)
  BY <1>n
<1>12. DequeAt(K, T, B + n, O, S)'
  BY <1>9, OwnerStep
<1>13. pushed' = pushed + n /\ taken' = taken
  BY <1>1
<1> QED BY <1>10, <1>11, <1>12, <1>13

-----------------------------------------------------------------------------
(* try_pop of the 32-bit deque.                                            *)

\* try_pop stores in bottom the index that it wants; the item is still there.
LEMMA BeginPop32Step ==
  ASSUME NEW K, NEW T, NEW B, NEW O, NEW S, DequeAt(K, T, B, O, S), BeginPop32
  PROVE  DequeAt(K, T, B - 1, O, S)' /\ View(T, B - 1)' = View(T, B)
<1>1. /\ owner.pc = "idle" /\ state' = [state EXCEPT !.b = Wrap(state.b - 1)]
      /\ owner' = [pc |-> "wanted", b |-> Wrap(state.b - 1), t |-> 0, n |-> 0, done |-> 0]
      /\ UNCHANGED <<buffers, pushed, taken, thief>>
  BY DEF BeginPop32, StoreBottom, OwnerIdle
<1>2. /\ K \in Int /\ T \in Int /\ B \in Int /\ O \in Int /\ pushed \in Int
      /\ K <= O /\ O <= T /\ T <= B + 1 /\ T <= K + pushed /\ B <= K + pushed
  BY OwnerFacts
<1>3. pushed \in 0..MaxItems /\ taken \in [NoItem..Torn -> Nat] /\ state = [t |-> Wrap(T), b |-> Wrap(B)]
      /\ state.b = Wrap(B)
  BY OwnerFacts
<1>4. T <= B
  <2>1. OwnerPart(K, T, B, O)
    BY OwnerFacts
  <2> QED BY <1>1, <2>1 DEF OwnerPart
<1>5. Wrap(Wrap(B) - 1) = Wrap(B - 1) /\ Wrap(B - 1) \in Index
  <2>1. Wrap(Wrap(B) + (-1)) = Wrap(B + (-1)) /\ Wrap(B) \in Int /\ B - 1 \in Int
    BY <1>2, WrapFacts
  <2>2. Wrap(B) + (-1) = Wrap(B) - 1 /\ B + (-1) = B - 1
    BY <1>2, <2>1
  <2>3. Wrap(B - 1) \in Index
    BY <2>1, WrapFacts
  <2> QED BY <2>1, <2>2, <2>3
<1>6. owner' = [pc |-> "wanted", b |-> Wrap(B - 1), t |-> 0, n |-> 0, done |-> 0]
      /\ state' = [t |-> Wrap(T), b |-> Wrap(B - 1)]
  BY <1>1, <1>3, <1>5
<1>7. owner' \in OwnerType /\ owner'.pc = "wanted" /\ owner'.b = Wrap(B - 1)
  BY <1>5, <1>6, ZeroIndex DEF OwnerType, Steps32
<1>8. OwnerPart(K, T, B - 1, O)' /\ PushPart(B - 1, O)'
  <2>1. B - 1 < K + pushed
    BY <1>2
  <2> QED BY <1>1, <1>7, <2>1 DEF OwnerPart, PushPart, Wrap
<1>9. End(B) = B /\ End(B - 1)' = B
  BY <1>1, <1>2, <1>7 DEF End, Undecided
<1>10. OwnerGoes(K, T, S, T, B - 1, O)
  <2>1. \A s \in Thieves : thief[s].pc \in {"buffer", "item", "cas"} /\ S[s] = T => T < End(B - 1)'
    BY <1>1, <1>9 DEF DequeAt, ThiefPart
  <2>2. /\ B - 1 \in Int /\ T <= T /\ T <= (B - 1) + 1 /\ B - 1 <= K + pushed /\ pushed <= pushed
    BY <1>2, <1>4
  <2> QED BY <1>1, <1>2, <1>3, <1>6, <1>7, <1>8, <2>1, <2>2 DEF OwnerGoes
<1> QED BY <1>1, <1>9, <1>10, OwnerStep DEF View

\* The item wanted is not the top one: no thief can have it.
LEMMA PopPlentyStep ==
  ASSUME NEW K, NEW T, NEW B, NEW O, NEW S, DequeAt(K, T, B, O, S), PopPlenty
  PROVE  /\ DequeAt(K, T, B, O, S)' /\ Take(Cells(buffers)[B]) /\ T < B + 1
         /\ View(T, B) = Seg(Cells(buffers), T, B + 1)
         /\ View(T, B)' = Seg(Cells(buffers), T, (B + 1) - 1)
<1>1. /\ owner.pc = "wanted" /\ Diff(owner.b, state.t) > 0
      /\ Take(Item(Active, owner.b)) /\ owner' = OwnerIdle
      /\ UNCHANGED <<state, buffers, pushed, thief>>
  BY DEF PopPlenty
<1>2. /\ T \in Int /\ O \in Int /\ B \in Int /\ K \in Int /\ pushed \in Int /\ MaxItems \in Nat
      /\ K <= O /\ O <= T /\ T <= B + 1 /\ T <= K + pushed /\ B <= K + pushed /\ pushed <= MaxItems
  BY OwnerFacts
<1>3. owner.b = Wrap(B) /\ state.t = Wrap(T)
  <2>1. OwnerPart(K, T, B, O) /\ state.t = Wrap(T)
    BY OwnerFacts
  <2> QED BY <1>1, <2>1 DEF OwnerPart
<1>4. T < B
  <2>1. -1 <= B - T /\ B - T <= MaxItems
    BY <1>2
  <2>2. Diff(owner.b, state.t) = B - T
    BY <1>2, <1>3, <2>1, DiffIs
  <2> QED BY <1>1, <1>2, <2>2
<1>5. Take(Cells(buffers)[B]) /\ taken' \in [NoItem..Torn -> Nat]
  BY <1>1, <1>2, <1>3, OwnerFacts, TakeIs, TakeFacts
<1>6. owner' \in OwnerType /\ owner'.pc = "idle"
  BY <1>1, ZeroIndex DEF OwnerType, OwnerIdle, Steps64
<1>7. OwnerPart(K, T, B, O)' /\ PushPart(B, O)'
  BY <1>2, <1>4, <1>6 DEF OwnerPart, PushPart
<1>8. End(B) = B + 1 /\ End(B)' = B
  BY <1>1, <1>6 DEF End, Undecided
<1>9. OwnerGoes(K, T, S, T, B, O)
  <2>1. \A s \in Thieves : thief[s].pc \in {"buffer", "item", "cas"} /\ S[s] = T => T < End(B)'
    BY <1>4, <1>8
  <2>2. pushed \in 0..MaxItems /\ state = [t |-> Wrap(T), b |-> Wrap(B)]
    BY OwnerFacts
  <2>3. T <= T /\ pushed <= pushed /\ state' = [t |-> Wrap(T), b |-> Wrap(B)]
    BY <1>1, <1>2, <2>2
  <2> QED BY <1>1, <1>2, <1>5, <1>6, <1>7, <2>1, <2>2, <2>3 DEF OwnerGoes
<1>10. T < B + 1 /\ (B + 1) - 1 = B
  BY <1>2, <1>4
<1>11. View(T, B) = Seg(Cells(buffers), T, B + 1) /\ View(T, B)' = Seg(Cells(buffers), T, B)
  BY <1>1, <1>8 DEF View
<1>12. DequeAt(K, T, B, O, S)'
  BY <1>9, OwnerStep
<1> QED BY <1>5, <1>10, <1>11, <1>12

\* The last item is there to be raced for, or a thief has it already.
LEMMA PopFewStep ==
  ASSUME NEW K, NEW T, NEW B, NEW O, NEW S, DequeAt(K, T, B, O, S), PopFew
  PROVE  DequeAt(K, T, B, T, S)' /\ View(T, B)' = View(T, B)
<1>1. /\ owner.pc = "wanted" /\ Diff(owner.b, state.t) <= 0
      /\ owner' = [owner EXCEPT !.pc = IF owner.b = state.t THEN "last" ELSE "restore",
                                !.t = state.t]
      /\ UNCHANGED <<state, buffers, pushed, taken, thief>>
  BY DEF PopFew
<1>2. /\ T \in Int /\ O \in Int /\ B \in Int /\ K \in Int /\ pushed \in Int /\ MaxItems \in Nat
      /\ K <= O /\ O <= T /\ T <= B + 1 /\ T <= K + pushed /\ B <= K + pushed /\ pushed <= MaxItems
  BY OwnerFacts
<1>3. owner.b = Wrap(B) /\ state.t = Wrap(T) /\ B < K + pushed
  <2>1. OwnerPart(K, T, B, O) /\ state.t = Wrap(T)
    BY OwnerFacts
  <2> QED BY <1>1, <2>1 DEF OwnerPart
<1>4. B <= T
  <2>1. -1 <= B - T /\ B - T <= MaxItems
    BY <1>2
  <2>2. Diff(owner.b, state.t) = B - T
    BY <1>2, <1>3, <2>1, DiffIs
  <2> QED BY <1>1, <1>2, <2>2
<1>5. owner.b = state.t <=> B = T
  <2>1. B - T < HalfWord /\ T - B < HalfWord
    <3>1. HalfWord > 1
      BY HalfWordFacts
    <3>2. HalfWord \in Int /\ B - T <= 0 /\ T - B <= 1
      BY <1>2, <1>4, HalfWordFacts
    <3> QED BY <1>2, <3>1, <3>2
  <2> QED BY <1>2, <1>3, <2>1, WrapFacts
<1>6. owner \in OwnerType /\ state.t \in Index
  BY OwnerFacts
<1>7. /\ owner' \in OwnerType /\ owner'.b = Wrap(B) /\ owner'.t = Wrap(T)
      /\ owner'.pc = (IF B = T THEN "last" ELSE "restore")
  BY <1>1, <1>3, <1>5, <1>6 DEF OwnerType, Steps32
<1>8. OwnerPart(K, T, B, T)' /\ PushPart(B, T)'
  <2>1. B # T => T = B + 1
    BY <1>2, <1>4
  <2>2. owner'.pc \in {"last", "restore"} /\ (owner'.pc = "last" <=> B = T)
    BY <1>7
  <2>3. pushed' = pushed
    BY <1>1
  <2> QED BY <1>3, <1>7, <2>1, <2>2, <2>3 DEF OwnerPart, PushPart, Wrap
<1>9. End(B)' = End(B) \/ (End(B) <= T /\ End(B)' <= T)
  <2>1. CASE B = T
    BY <1>1, <1>7, <2>1 DEF End, Undecided
  <2>2. CASE B # T
    <3>1. End(B) = B + 1 /\ End(B)' = B
      BY <1>1, <1>7, <2>2 DEF End, Undecided
    <3> QED BY <1>2, <1>4, <2>2, <3>1
  <2> QED BY <2>1, <2>2
<1>10. OwnerTurns(K, T, B, O, T)
  BY <1>1, <1>2, <1>7, <1>8, <1>9 DEF OwnerTurns
<1> QED BY <1>10, OwnerTurn

\* The CAS of top decides: the owner takes the top item, which is the last one...
LEMMA PopLastWins ==
  ASSUME NEW K, NEW T, NEW B, NEW O, NEW S, DequeAt(K, T, B, O, S), PopLast, state.t = owner.t
  PROVE  /\ DequeAt(K, T + 1, B, O, S)' /\ Take(Cells(buffers)[T]) /\ T < End(B)
         /\ View(T + 1, B)' = Seg(Cells(buffers), T + 1, End(B))
<1>1. /\ owner.pc = "last" /\ state' = [state EXCEPT !.t = Wrap(owner.t + 1)]
      /\ Take(Item(Active, owner.b)) /\ owner' = [owner EXCEPT !.pc = "restore", !.n = 1]
      /\ UNCHANGED <<buffers, pushed, thief>>
  BY DEF PopLast
<1>2. /\ T \in Int /\ O \in Int /\ B \in Int /\ K \in Int /\ pushed \in Int /\ MaxItems \in Nat
      /\ K <= O /\ O <= T /\ T <= B + 1 /\ T <= K + pushed /\ B <= K + pushed /\ pushed <= MaxItems
  BY OwnerFacts
<1>3. owner.b = Wrap(B) /\ owner.t = Wrap(O) /\ O = B /\ B < K + pushed
  <2>1. OwnerPart(K, T, B, O)
    BY OwnerFacts
  <2> QED BY <1>1, <2>1 DEF OwnerPart
<1>4. T = B
  <2>1. B - T < HalfWord /\ T - B < HalfWord
    <3>1. HalfWord > 1 /\ HalfWord \in Int
      BY HalfWordFacts
    <3>2. B - T <= 0 /\ T - B <= 1
      BY <1>2, <1>3
    <3> QED BY <1>2, <3>1, <3>2
  <2>2. state.t = Wrap(T)
    BY OwnerFacts
  <2> QED BY <1>2, <1>3, <2>1, <2>2, WrapFacts
<1>5. Take(Cells(buffers)[B]) /\ taken' \in [NoItem..Torn -> Nat]
  BY <1>1, <1>2, <1>3, OwnerFacts, TakeIs, TakeFacts
<1>6. owner' \in OwnerType /\ owner'.pc = "restore" /\ owner'.b = Wrap(B)
  <2>1. owner \in OwnerType
    BY OwnerFacts
  <2> QED BY <1>1, <1>3, <2>1 DEF OwnerType, Steps32
<1>7. OwnerPart(K, T + 1, B, O)' /\ PushPart(B, O)'
  BY <1>1, <1>3, <1>4, <1>6 DEF OwnerPart, PushPart, Wrap
<1>8. End(B) = B + 1 /\ End(B)' = B
  BY <1>1, <1>6 DEF End, Undecided
<1>9. OwnerGoes(K, T, S, T + 1, B, O)
  <2>1. pushed \in 0..MaxItems /\ state = [t |-> Wrap(T), b |-> Wrap(B)]
    BY OwnerFacts
  <2>2. state' = [t |-> Wrap(T + 1), b |-> Wrap(B)]
    <3>1. Wrap(Wrap(O) + 1) = Wrap(O + 1)
      BY <1>2, WrapFacts
    <3> QED BY <1>1, <1>3, <1>4, <2>1, <3>1
  <2>3. /\ T + 1 \in Int /\ O <= T + 1 /\ T <= T + 1 /\ T + 1 <= B + 1
        /\ T + 1 <= K + pushed /\ pushed <= pushed /\ T + 1 # T
    BY <1>2, <1>3, <1>4
  <2> QED BY <1>1, <1>2, <1>5, <1>6, <1>7, <2>1, <2>2, <2>3 DEF OwnerGoes
<1>10. View(T + 1, B)' = Seg(Cells(buffers), T + 1, End(B))
  <2>1. View(T + 1, B)' = Seg(Cells(buffers), T + 1, B)
    BY <1>1, <1>8 DEF View
  <2>2. Seg(Cells(buffers), T + 1, B) = <<>> /\ Seg(Cells(buffers), T + 1, B + 1) = <<>>
    BY <1>2, <1>4, SegEmpty
  <2> QED BY <1>8, <2>1, <2>2
<1>11. T < End(B)
  BY <1>2, <1>4, <1>8
<1>12. DequeAt(K, T + 1, B, O, S)'
  BY <1>9, OwnerStep
<1> QED BY <1>4, <1>5, <1>10, <1>11, <1>12

\* ... or a thief was faster.
LEMMA PopLastLoses ==
  ASSUME NEW K, NEW T, NEW B, NEW O, NEW S, DequeAt(K, T, B, O, S), PopLast, state.t # owner.t
  PROVE  DequeAt(K, T, B, O, S)' /\ View(T, B)' = View(T, B)
<1>1. /\ owner.pc = "last" /\ owner' = [owner EXCEPT !.pc = "restore"]
      /\ UNCHANGED <<state, buffers, pushed, taken, thief>>
  BY DEF PopLast
<1>2. /\ T \in Int /\ O \in Int /\ B \in Int /\ K \in Int /\ pushed \in Int
      /\ K <= O /\ O <= T /\ T <= B + 1
  BY OwnerFacts
<1>3. owner.b = Wrap(B) /\ owner.t = Wrap(O) /\ O = B /\ B < K + pushed
  <2>1. OwnerPart(K, T, B, O)
    BY OwnerFacts
  <2> QED BY <1>1, <2>1 DEF OwnerPart
<1>4. T = B + 1
  <2>1. state.t = Wrap(T)
    BY OwnerFacts
  <2>2. T # O
    BY <1>3, <2>1
  <2> QED BY <1>2, <1>3, <2>2
<1>5. owner' \in OwnerType /\ owner'.pc = "restore" /\ owner'.b = Wrap(B)
  <2>1. owner \in OwnerType
    BY OwnerFacts
  <2> QED BY <1>1, <1>3, <2>1 DEF OwnerType, Steps32
<1>6. OwnerPart(K, T, B, O)' /\ PushPart(B, O)'
  BY <1>1, <1>3, <1>4, <1>5 DEF OwnerPart, PushPart, Wrap
<1>7. End(B) <= T /\ End(B)' <= T
  <2>1. End(B) = B + 1 /\ End(B)' = B
    BY <1>1, <1>5 DEF End, Undecided
  <2> QED BY <1>2, <1>4, <2>1
<1>8. OwnerTurns(K, T, B, O, O)
  BY <1>1, <1>2, <1>5, <1>6, <1>7 DEF OwnerTurns
<1> QED BY <1>8, OwnerTurn

LEMMA PopEndStep ==
  ASSUME NEW K, NEW T, NEW B, NEW O, NEW S, DequeAt(K, T, B, O, S), PopEnd
  PROVE  /\ DequeAt(K, T, B + 1, O, S)' /\ View(T, B) = <<>> /\ View(T, B + 1)' = <<>>
         /\ T = B + 1
<1>1. /\ owner.pc = "restore" /\ state' = [state EXCEPT !.b = Wrap(owner.b + 1)]
      /\ owner' = OwnerIdle /\ UNCHANGED <<buffers, pushed, taken, thief>>
  BY DEF PopEnd, StoreBottom
<1>2. T = B + 1
  <2>1. OwnerPart(K, T, B, O)
    BY OwnerFacts
  <2> QED BY <1>1, <2>1 DEF OwnerPart
<1> QED BY <1>1, <1>2, RestoreStep

-----------------------------------------------------------------------------
(* The steps of a thief.                                                   *)

ThiefType == [pc : {"idle", "bottom", "buffer", "item", "cas"},
              b : Index, t : Index, buf : Nat, item : Int, tries : Nat]

\* What thief s may hold, having read the top as v.
Wary(T, B, O, r, v) ==
  /\ r.pc # "idle" => r.t = Wrap(v)
  /\ r.pc \in {"buffer", "item", "cas"} /\ v = T =>
       T < End(B) \/ (owner.pc = "claimed" /\ O = T /\ T = B)
  /\ r.pc = "item" => /\ r.buf \in 1..Len(buffers)
                      /\ v = T => Holds(buffers, r.buf)[T] = Cells(buffers)[T]
  /\ r.pc = "cas" /\ v = T => r.item = Cells(buffers)[T]

\* A step of thief s: it becomes r, having read the top as v, and the top becomes T2.
Steals(K, T, B, O, s, r, v, T2) ==
  /\ buffers' = buffers /\ pushed' = pushed /\ owner' = owner
  /\ taken' \in [NoItem..Torn -> Nat]
  /\ r \in ThiefType /\ thief' = [thief EXCEPT ![s] = r]
  /\ v \in Int /\ K <= v /\ v <= T
  /\ state' = [t |-> Wrap(T2), b |-> Wrap(B)]
  /\ \/ T2 = T /\ Wary(T, B, O, r, v)
     \/ T2 = T + 1 /\ T < End(B) /\ r.pc = "idle"

LEMMA ThiefFacts ==
  ASSUME NEW K, NEW T, NEW B, NEW O, NEW S, DequeAt(K, T, B, O, S), NEW s \in Thieves
  PROVE  /\ thief[s] \in ThiefType /\ Wary(T, B, O, thief[s], S[s])
         /\ S[s] \in Int /\ K <= S[s] /\ S[s] <= T
         /\ thief \in [Thieves -> ThiefType]
<1>1. thief \in [Thieves -> ThiefType]
  BY DEF DequeAt, DequeTypes, ThiefType
<1>2. Wary(T, B, O, thief[s], S[s])
  BY DEF DequeAt, Bounds, ThiefPart, Wary
<1>3. S[s] \in Int /\ K <= S[s] /\ S[s] <= T
  BY DEF DequeAt, Bounds
<1> QED BY <1>1, <1>2, <1>3

LEMMA StealsStep ==
  ASSUME NEW K, NEW T, NEW B, NEW O, NEW S, DequeAt(K, T, B, O, S),
         NEW s \in Thieves, NEW r, NEW v, NEW T2, Steals(K, T, B, O, s, r, v, T2)
  PROVE  /\ DequeAt(K, T2, B, O, [S EXCEPT ![s] = v])'
         /\ View(T2, B)' = Seg(Cells(buffers), T2, End(B))
<1> PICK Z : Z = [S EXCEPT ![s] = v]
  OBVIOUS
<1>1. /\ K \in Int /\ T \in Int /\ B \in Int /\ O \in Int /\ pushed \in Int
      /\ K <= O /\ O <= T /\ T <= B + 1 /\ T <= K + pushed /\ B <= K + pushed
  BY OwnerFacts
<1>2. OwnerPart(K, T, B, O) /\ PushPart(B, O) /\ DequeTypes
  BY OwnerFacts
<1>3. S \in [Thieves -> Int] /\ thief \in [Thieves -> ThiefType]
  BY ThiefFacts DEF DequeAt, Bounds
<1>4. Z \in [Thieves -> Int] /\ Z[s] = v /\ \A u \in Thieves : u # s => Z[u] = S[u]
  BY <1>3 DEF Steals
<1>5. thief' \in [Thieves -> ThiefType] /\ thief'[s] = r
      /\ \A u \in Thieves : u # s => thief'[u] = thief[u]
  BY <1>3 DEF Steals
<1>6. T2 \in Int /\ T <= T2
  BY <1>1 DEF Steals
<1>7. DequeTypes'
  <2>1. state' \in [t : Index, b : Index]
    BY <1>1, <1>6, WrapFacts DEF Steals
  <2> QED BY <1>2, <1>5, <2>1 DEF DequeTypes, Steals, ThiefType
<1>8. T2 = T + 1 => T2 <= B + 1 /\ T2 <= K + pushed /\ OwnerPart(K, T2, B, O)
  <2> SUFFICES ASSUME T2 = T + 1 PROVE T2 <= B + 1 /\ T2 <= K + pushed /\ OwnerPart(K, T2, B, O)
    OBVIOUS
  <2>1. T < End(B)
    BY <1>1 DEF Steals
  <2>2. CASE Undecided
    <3>1. T <= B /\ B < K + pushed /\ owner.pc \in {"wanted", "last"}
      BY <1>1, <1>2, <2>1, <2>2 DEF End, OwnerPart, Undecided
    <3> QED BY <1>1, <1>2, <3>1 DEF OwnerPart
  <2>3. CASE ~Undecided
    <3>1. T < B
      BY <2>1, <2>3 DEF End
    <3>2. T + 1 <= B /\ T # B + 1 /\ O <= B
      BY <1>1, <3>1
    <3> QED BY <1>1, <1>2, <3>2 DEF OwnerPart
  <2> QED BY <2>2, <2>3
<1>9. T2 <= B + 1 /\ T2 <= K + pushed /\ OwnerPart(K, T2, B, O) /\ O <= T2
  BY <1>1, <1>2, <1>6, <1>8 DEF Steals
<1>10. OwnerPart(K, T2, B, O)' /\ PushPart(B, O)' /\ End(B)' = End(B)
  BY <1>2, <1>9 DEF OwnerPart, PushPart, Steals, Wrap, End, Undecided
<1>11. \A u \in Thieves : /\ K <= Z[u] /\ Z[u] <= T2 /\ (Z[u] = T2 => T2 = T)
                          /\ (thief'[u].pc # "idle" => thief'[u].t = Wrap(Z[u]))
  <2> TAKE u \in Thieves
  <2>1. K <= Z[u] /\ Z[u] <= T /\ Z[u] \in Int
    <3>1. K <= S[u] /\ S[u] <= T
      BY ThiefFacts
    <3> QED BY <1>4, <3>1 DEF Steals
  <2>2. thief'[u].pc # "idle" => thief'[u].t = Wrap(Z[u])
    <3>1. Wary(T, B, O, thief[u], S[u])
      BY ThiefFacts
    <3> QED BY <1>4, <1>5, <3>1 DEF Steals, Wary
  <2>3. Z[u] = T2 => T2 = T
    BY <1>1, <2>1 DEF Steals
  <2> QED BY <1>1, <1>6, <2>1, <2>2, <2>3
<1>12. Bounds(K, T2, B, O, Z)'
  <2>1. state' = [t |-> Wrap(T2), b |-> Wrap(B)] /\ pushed' = pushed
    BY DEF Steals
  <2> QED BY <1>1, <1>4, <1>6, <1>9, <1>11, <2>1 DEF Bounds, Wrap
<1>13. ThiefPart(T2, B, O, Z)'
  <2> SUFFICES ASSUME NEW u \in Thieves
               PROVE  /\ thief'[u].pc \in {"buffer", "item", "cas"} /\ Z[u] = T2 =>
                           T2 < End(B) \/ (owner.pc = "claimed" /\ O = T2 /\ T2 = B)
                      /\ thief'[u].pc = "item" =>
                           /\ thief'[u].buf \in 1..Len(buffers)
                           /\ Z[u] = T2 => Holds(buffers, thief'[u].buf)[T2] = Cells(buffers)[T2]
                      /\ thief'[u].pc = "cas" /\ Z[u] = T2 => thief'[u].item = Cells(buffers)[T2]
    BY <1>10 DEF ThiefPart, Steals
  <2>1. Wary(T, B, O, thief[u], S[u])
    BY ThiefFacts
  <2>2. Z[u] = T2 => T2 = T
    BY <1>11
  <2>3. CASE u = s
    BY <1>4, <1>5, <2>2, <2>3 DEF Steals, Wary
  <2>4. CASE u # s
    BY <1>4, <1>5, <2>1, <2>2, <2>4 DEF Wary
  <2> QED BY <2>3, <2>4
<1>14. DequeAt(K, T2, B, O, Z)'
  BY <1>7, <1>10, <1>12, <1>13 DEF DequeAt
<1>15. View(T2, B)' = Seg(Cells(buffers), T2, End(B))
  BY <1>10 DEF View, Steals
<1> QED BY <1>14, <1>15

LEMMA ThiefIdleFacts ==
  /\ ThiefIdle \in ThiefType /\ ThiefIdle.pc = "idle"
  /\ \A T, B, O, v : Wary(T, B, O, ThiefIdle, v)
<1>1. ThiefIdle \in ThiefType
  BY ZeroIndex DEF ThiefIdle, ThiefType, NoItem
<1> QED BY <1>1 DEF ThiefIdle, Wary

\* The snapshot of a try: nothing there, or the top is there now.
LEMMA SnapshotFacts ==
  ASSUME NEW K, NEW T, NEW B, NEW O, NEW S, DequeAt(K, T, B, O, S), NEW n \in Nat
  PROVE  /\ StealSnapshot(n) \in ThiefType
         /\ \/ StealSnapshot(n) = ThiefIdle
            \/ /\ StealSnapshot(n).pc = "buffer"
               /\ Diff(StealSnapshot(n).b, StealSnapshot(n).t) > 0
               /\ Wary(T, B, O, StealSnapshot(n), T)
<1>1. /\ T \in Int /\ O \in Int /\ B \in Int /\ K \in Int /\ pushed \in Int /\ MaxItems \in Nat
      /\ K <= O /\ O <= T /\ T <= B + 1 /\ T <= K + pushed /\ B <= K + pushed /\ pushed <= MaxItems
  BY OwnerFacts
<1>2. /\ state.t = Wrap(T) /\ state.b = Wrap(B) /\ state.t \in Index /\ state.b \in Index
  BY OwnerFacts
<1>3. CASE Diff(state.b, state.t) <= 0
  BY <1>3, ThiefIdleFacts DEF StealSnapshot
<1>4. CASE ~(Diff(state.b, state.t) <= 0)
  <2> DEFINE r == StealSnapshot(n)
  <2>1. r = [pc |-> "buffer", b |-> state.b, t |-> state.t, buf |-> 0, item |-> NoItem, tries |-> n]
    BY <1>4 DEF StealSnapshot, ThiefIdle
  <2>2. r \in ThiefType /\ r.pc = "buffer" /\ r.b = state.b /\ r.t = state.t
    BY <1>2, <2>1 DEF ThiefType, NoItem
  <2>3. T < B /\ Diff(state.b, state.t) > 0
    <3>1. -1 <= B - T /\ B - T <= MaxItems
      BY <1>1
    <3>2. Diff(state.b, state.t) = B - T
      BY <1>1, <1>2, <3>1, DiffIs
    <3> QED BY <1>1, <1>4, <3>2
  <2>4. T < End(B)
    BY <1>1, <2>3 DEF End
  <2> HIDE DEF r
  <2>5. Wary(T, B, O, r, T)
    BY <1>2, <2>2, <2>4 DEF Wary
  <2> QED BY <2>2, <2>3, <2>5 DEF r
<1> QED BY <1>3, <1>4

\* What a step of a thief does: nothing to the items, or it takes the top one.
StealKeeps(K, T, B, O) ==
  /\ \E Z : DequeAt(K, T, B, O, Z)'
  /\ View(T, B)' = View(T, B)
  /\ UNCHANGED <<state, buffers, pushed, taken, owner>>
StealTakes(K, T, B, O) ==
  /\ \E Z : DequeAt(K, T + 1, B, O, Z)'
  /\ T < End(B) /\ View(T + 1, B)' = Seg(Cells(buffers), T + 1, End(B))
  /\ Take(Cells(buffers)[T])
  /\ UNCHANGED <<buffers, pushed, owner>>

\* A thief of the 64-bit deque goes on only while its snapshot shows an item.
Hopeful(r) == r.pc # "bottom" /\ (r.pc # "idle" => Diff(r.b, r.t) > 0)

LEMMA ThiefKeeps ==
  ASSUME NEW K, NEW T, NEW B, NEW O, NEW S, DequeAt(K, T, B, O, S), NEW s \in Thieves,
         UNCHANGED <<state, buffers, pushed, taken, owner>>,
         NEW r \in ThiefType, thief' = [thief EXCEPT ![s] = r],
         NEW v \in Int, K <= v, v <= T, Wary(T, B, O, r, v)
  PROVE  StealKeeps(K, T, B, O)
<1>1. state = [t |-> Wrap(T), b |-> Wrap(B)] /\ taken \in [NoItem..Torn -> Nat]
  BY OwnerFacts
<1>2. Steals(K, T, B, O, s, r, v, T)
  BY <1>1 DEF Steals
<1>3. DequeAt(K, T, B, O, [S EXCEPT ![s] = v])' /\ View(T, B)' = Seg(Cells(buffers), T, End(B))
  BY <1>2, StealsStep
<1> QED BY <1>3 DEF StealKeeps, View

LEMMA PackedStep ==
  ASSUME DequeTypes, Packed, owner' = owner, NEW s \in Thieves, NEW r, Hopeful(r),
         thief' = [thief EXCEPT ![s] = r]
  PROVE  Packed'
<1>1. \A u \in Thieves : Hopeful(thief[u])
  BY DEF Packed, Hopeful
<1>2. \A u \in Thieves : Hopeful(thief'[u])
  BY <1>1 DEF DequeTypes
<1> QED BY <1>2 DEF Packed, Hopeful, Diff, Wrap

LEMMA BeginStealStep ==
  ASSUME NEW K, NEW T, NEW B, NEW O, NEW S, DequeAt(K, T, B, O, S), NEW s \in Thieves,
         NEW n \in Nat, thief' = [thief EXCEPT ![s] = StealSnapshot(n)],
         UNCHANGED <<state, buffers, pushed, taken, owner>>
  PROVE  StealKeeps(K, T, B, O) /\ (Packed => Packed')
<1> PICK r : r = StealSnapshot(n)
  OBVIOUS
<1>1. thief' = [thief EXCEPT ![s] = r] /\ r \in ThiefType
      /\ (r = ThiefIdle \/ (r.pc = "buffer" /\ Diff(r.b, r.t) > 0 /\ Wary(T, B, O, r, T)))
  BY SnapshotFacts
<1>2. Hopeful(r)
  BY <1>1, ThiefIdleFacts DEF Hopeful
<1>3. \E v \in Int : K <= v /\ v <= T /\ Wary(T, B, O, r, v)
  <2>1. T \in Int /\ K <= T /\ T <= T
    <3>1. K \in Int /\ T \in Int /\ O \in Int /\ K <= O /\ O <= T
      BY OwnerFacts
    <3> QED BY <3>1
  <2>2. Wary(T, B, O, r, T)
    BY <1>1, ThiefIdleFacts
  <2> QED BY <2>1, <2>2
<1>4. StealKeeps(K, T, B, O)
  BY <1>1, <1>3, ThiefKeeps
<1>5. Packed => Packed'
  BY <1>1, <1>2, OwnerFacts, PackedStep
<1> QED BY <1>4, <1>5

LEMMA StealTopStep ==
  ASSUME NEW K, NEW T, NEW B, NEW O, NEW S, DequeAt(K, T, B, O, S), NEW s \in Thieves, StealTop(s)
  PROVE  StealKeeps(K, T, B, O)
<1> PICK r : r = [ThiefIdle EXCEPT !.pc = "bottom", !.t = state.t]
  OBVIOUS
<1>1. thief' = [thief EXCEPT ![s] = r] /\ UNCHANGED <<state, buffers, pushed, taken, owner>>
  BY DEF StealTop, ThiefGoes
<1>2. K \in Int /\ T \in Int /\ K <= T /\ T <= T /\ state.t = Wrap(T) /\ state.t \in Index
  <2>1. K \in Int /\ T \in Int /\ O \in Int /\ K <= O /\ O <= T
    BY OwnerFacts
  <2>2. state.t = Wrap(T) /\ state.t \in Index
    BY OwnerFacts
  <2> QED BY <2>1, <2>2
<1>3. r \in ThiefType /\ r.pc = "bottom" /\ r.t = Wrap(T)
  BY <1>2, ThiefIdleFacts DEF ThiefType
<1>4. Wary(T, B, O, r, T)
  BY <1>3 DEF Wary
<1> QED BY <1>1, <1>2, <1>3, <1>4, ThiefKeeps

LEMMA StealBottomStep ==
  ASSUME NEW K, NEW T, NEW B, NEW O, NEW S, DequeAt(K, T, B, O, S), NEW s \in Thieves,
         StealBottom(s)
  PROVE  StealKeeps(K, T, B, O)
<1> DEFINE e == Diff(state.b, thief[s].t)
<1>1. /\ thief[s] \in ThiefType /\ Wary(T, B, O, thief[s], S[s])
      /\ S[s] \in Int /\ K <= S[s] /\ S[s] <= T
  BY ThiefFacts
<1>2. thief[s].pc = "bottom" /\ UNCHANGED <<state, buffers, pushed, taken, owner>>
  BY DEF StealBottom, ThiefGoes
<1>3. e > 0 /\ S[s] = T => T < End(B)
  <2> SUFFICES ASSUME e > 0, S[s] = T PROVE T < End(B)
    OBVIOUS
  <2>1. /\ T \in Int /\ O \in Int /\ B \in Int /\ K \in Int /\ pushed \in Int /\ MaxItems \in Nat
        /\ K <= O /\ O <= T /\ T <= B + 1 /\ T <= K + pushed /\ B <= K + pushed /\ pushed <= MaxItems
    BY OwnerFacts
  <2>2. state.b = Wrap(B) /\ thief[s].t = Wrap(T)
    BY <1>1, <1>2, OwnerFacts DEF Wary
  <2>3. -1 <= B - T /\ B - T <= MaxItems
    BY <2>1
  <2>4. e = B - T
    BY <2>1, <2>2, <2>3, DiffIs
  <2> QED BY <2>1, <2>4 DEF End
<1>e. e \in Int
  <2>1. state.b \in Int /\ thief[s].t \in Int
    BY <1>1, OwnerFacts DEF ThiefType, Index
  <2>2. HalfWord \in Nat \ {0} /\ HalfWord \div 2 \in Int
    BY HalfWordFacts
  <2>3. Wrap(state.b - thief[s].t) \in Int
    <3>1. state.b - thief[s].t \in Int
      BY <2>1
    <3> QED BY <3>1, WrapFacts
  <2> QED BY <2>2, <2>3 DEF Diff
<1>4. \/ /\ e <= 0 /\ thief' = [thief EXCEPT ![s] = ThiefIdle]
      \/ thief' = [thief EXCEPT ![s] = [thief[s] EXCEPT !.tries = 1]]
      \/ /\ e > 0 /\ thief' = [thief EXCEPT ![s] = [thief[s] EXCEPT !.pc = "buffer", !.tries = 0]]
  <2>1. thief' = [thief EXCEPT ![s] = CASE e <= 0 -> ThiefIdle
                    [] thief[s].tries = 0 -> [thief[s] EXCEPT !.tries = 1]
                    [] OTHER -> [thief[s] EXCEPT !.pc = "buffer", !.tries = 0]]
    BY DEF StealBottom, ThiefGoes
  <2> HIDE DEF e
  <2>2. CASE e <= 0
    <3>1. CASE thief[s].tries = 0
      BY <2>1, <2>2, <3>1
    <3>2. CASE thief[s].tries # 0
      BY <2>1, <2>2, <3>2
    <3> QED BY <3>1, <3>2
  <2>3. CASE ~(e <= 0)
    <3>1. e > 0
      BY <1>e, <2>3
    <3>2. CASE thief[s].tries = 0
      BY <2>1, <2>3, <3>2
    <3>3. CASE thief[s].tries # 0
      BY <2>1, <2>3, <3>1, <3>3
    <3> QED BY <3>2, <3>3
  <2> QED BY <2>2, <2>3
<1> HIDE DEF e
<1>5. CASE thief' = [thief EXCEPT ![s] = ThiefIdle]
  BY <1>1, <1>2, <1>5, ThiefIdleFacts, ThiefKeeps
<1>6. CASE thief' = [thief EXCEPT ![s] = [thief[s] EXCEPT !.tries = 1]]
  <2> PICK r : r = [thief[s] EXCEPT !.tries = 1]
    OBVIOUS
  <2>1. r \in ThiefType /\ r.pc = "bottom" /\ r.t = thief[s].t /\ thief' = [thief EXCEPT ![s] = r]
    BY <1>1, <1>2, <1>6 DEF ThiefType
  <2>2. Wary(T, B, O, r, S[s])
    BY <1>1, <1>2, <2>1 DEF Wary
  <2> QED BY <1>1, <1>2, <2>1, <2>2, ThiefKeeps
<1>7. CASE e > 0 /\ thief' = [thief EXCEPT ![s] = [thief[s] EXCEPT !.pc = "buffer", !.tries = 0]]
  <2> PICK r : r = [thief[s] EXCEPT !.pc = "buffer", !.tries = 0]
    OBVIOUS
  <2>1. r \in ThiefType /\ r.pc = "buffer" /\ r.t = thief[s].t /\ thief' = [thief EXCEPT ![s] = r]
    BY <1>1, <1>2, <1>7 DEF ThiefType
  <2>2. Wary(T, B, O, r, S[s])
    BY <1>1, <1>2, <1>3, <1>7, <2>1 DEF Wary
  <2> QED BY <1>1, <1>2, <2>1, <2>2, ThiefKeeps
<1> QED BY <1>4, <1>5, <1>6, <1>7

LEMMA StealBufferStep ==
  ASSUME NEW K, NEW T, NEW B, NEW O, NEW S, DequeAt(K, T, B, O, S), NEW s \in Thieves,
         StealBuffer(s)
  PROVE  StealKeeps(K, T, B, O) /\ (Packed => Packed')
<1> PICK r : r = [thief[s] EXCEPT !.pc = "item", !.buf = Active]
  OBVIOUS
<1>1. /\ thief[s] \in ThiefType /\ Wary(T, B, O, thief[s], S[s])
      /\ S[s] \in Int /\ K <= S[s] /\ S[s] <= T /\ thief \in [Thieves -> ThiefType]
  BY ThiefFacts
<1>2. thief[s].pc = "buffer" /\ UNCHANGED <<state, buffers, pushed, taken, owner>>
      /\ thief' = [thief EXCEPT ![s] = r]
  BY <1>1 DEF StealBuffer
<1>3. Active = Len(buffers) /\ Len(buffers) \in 1..Len(buffers) /\ Len(buffers) \in Nat
  BY LastBlock, OwnerFacts DEF DequeTypes, Active
<1>4. r \in ThiefType /\ r.pc = "item" /\ r.t = thief[s].t /\ r.b = thief[s].b /\ r.buf = Len(buffers)
  BY <1>1, <1>3 DEF ThiefType
<1>5. Wary(T, B, O, r, S[s])
  BY <1>1, <1>2, <1>3, <1>4 DEF Wary, Cells
<1>6. StealKeeps(K, T, B, O)
  BY <1>1, <1>2, <1>4, <1>5, ThiefKeeps
<1>7. Packed => Packed'
  <2> SUFFICES ASSUME Packed PROVE Packed'
    OBVIOUS
  <2>1. Hopeful(r)
    BY <1>2, <1>4 DEF Packed, Hopeful
  <2> QED BY <1>2, <2>1, OwnerFacts, PackedStep
<1> QED BY <1>6, <1>7

LEMMA StealItemStep ==
  ASSUME NEW K, NEW T, NEW B, NEW O, NEW S, DequeAt(K, T, B, O, S), NEW s \in Thieves,
         StealItem(s)
  PROVE  StealKeeps(K, T, B, O) /\ (Packed => Packed')
<1> PICK r : r = [thief[s] EXCEPT !.pc = "cas", !.item = Item(thief[s].buf, thief[s].t)]
  OBVIOUS
<1>1. /\ thief[s] \in ThiefType /\ Wary(T, B, O, thief[s], S[s])
      /\ S[s] \in Int /\ K <= S[s] /\ S[s] <= T /\ thief \in [Thieves -> ThiefType]
  BY ThiefFacts
<1>2. thief[s].pc = "item" /\ UNCHANGED <<state, buffers, pushed, taken, owner>>
      /\ thief' = [thief EXCEPT ![s] = r]
  BY <1>1 DEF StealItem
<1>3. /\ thief[s].buf \in 1..Len(buffers) /\ thief[s].t = Wrap(S[s])
      /\ S[s] = T => Holds(buffers, thief[s].buf)[T] = Cells(buffers)[T]
  BY <1>1, <1>2 DEF Wary
<1>4. Item(thief[s].buf, thief[s].t) = Holds(buffers, thief[s].buf)[S[s]]
      /\ Holds(buffers, thief[s].buf)[S[s]] \in Int
  <2>1. DequeTypes /\ buffers \in Seq(Blocks)
    BY OwnerFacts DEF DequeTypes
  <2>2. Item(thief[s].buf, Wrap(S[s])) = Holds(buffers, thief[s].buf)[S[s]]
    BY <1>1, <1>3, <2>1, ItemIs
  <2>3. Holds(buffers, thief[s].buf) \in [Int -> 0..Torn]
    BY <1>3, <2>1, BlockFacts
  <2> QED BY <1>1, <1>3, <2>2, <2>3
<1>5. r \in ThiefType /\ r.pc = "cas" /\ r.t = thief[s].t /\ r.b = thief[s].b
      /\ r.item = Holds(buffers, thief[s].buf)[S[s]]
  BY <1>1, <1>4 DEF ThiefType
<1>6. Wary(T, B, O, r, S[s])
  BY <1>1, <1>2, <1>3, <1>5 DEF Wary
<1>7. StealKeeps(K, T, B, O)
  BY <1>1, <1>2, <1>5, <1>6, ThiefKeeps
<1>8. Packed => Packed'
  <2> SUFFICES ASSUME Packed PROVE Packed'
    OBVIOUS
  <2>1. Hopeful(r)
    BY <1>2, <1>5 DEF Packed, Hopeful
  <2> QED BY <1>2, <2>1, OwnerFacts, PackedStep
<1> QED BY <1>7, <1>8

\* A CAS that succeeds found the top where the thief had read it.
LEMMA TopAgain ==
  ASSUME NEW K, NEW T, NEW B, NEW O, NEW S, DequeAt(K, T, B, O, S), NEW s \in Thieves,
         thief[s].pc = "cas", state.t = thief[s].t
  PROVE  S[s] = T
<1>1. Wary(T, B, O, thief[s], S[s]) /\ S[s] \in Int /\ K <= S[s] /\ S[s] <= T
  BY ThiefFacts
<1>2. Wrap(S[s]) = Wrap(T)
  BY <1>1, OwnerFacts DEF Wary
<1>3. T \in Int /\ K \in Int /\ pushed \in Int /\ T <= K + pushed /\ pushed <= MaxItems
      /\ MaxItems \in Nat
  BY OwnerFacts
<1>4. MaxItems < HalfWord /\ HalfWord \in Int
  BY HalfWordFacts
<1>5. T - S[s] < HalfWord /\ S[s] - T < HalfWord
  BY <1>1, <1>3, <1>4
<1> QED BY <1>1, <1>2, <1>3, <1>5, WrapFacts

LEMMA ThiefTakes ==
  ASSUME NEW K, NEW T, NEW B, NEW O, NEW S, DequeAt(K, T, B, O, S), NEW s \in Thieves,
         thief[s].pc = "cas", state.t = thief[s].t, T < End(B),
         state' = [state EXCEPT !.t = Wrap(state.t + 1)], Take(thief[s].item),
         thief' = [thief EXCEPT ![s] = ThiefIdle], UNCHANGED <<buffers, pushed, owner>>
  PROVE  StealTakes(K, T, B, O)
<1>1. S[s] = T /\ Wary(T, B, O, thief[s], S[s])
  BY TopAgain, ThiefFacts
<1>2. thief[s].item = Cells(buffers)[T]
  BY <1>1 DEF Wary
<1>3. state = [t |-> Wrap(T), b |-> Wrap(B)] /\ T \in Int /\ K \in Int /\ O \in Int
      /\ K <= O /\ O <= T
  BY OwnerFacts
<1>4. state' = [t |-> Wrap(T + 1), b |-> Wrap(B)]
  <2>1. Wrap(Wrap(T) + 1) = Wrap(T + 1)
    BY <1>3, WrapFacts
  <2> QED BY <1>3, <2>1
<1>5. Take(Cells(buffers)[T]) /\ taken' \in [NoItem..Torn -> Nat]
  BY <1>2, <1>3, OwnerFacts, TakeIs, TakeFacts
<1>6. K <= T /\ T <= T
  BY <1>3
<1>7. Steals(K, T, B, O, s, ThiefIdle, T, T + 1)
  BY <1>3, <1>4, <1>5, <1>6, ThiefIdleFacts DEF Steals
<1>8. DequeAt(K, T + 1, B, O, [S EXCEPT ![s] = T])'
      /\ View(T + 1, B)' = Seg(Cells(buffers), T + 1, End(B))
  BY <1>7, StealsStep
<1> QED BY <1>5, <1>8 DEF StealTakes

LEMMA StealCASStep ==
  ASSUME NEW K, NEW T, NEW B, NEW O, NEW S, DequeAt(K, T, B, O, S), Packed, NEW s \in Thieves,
         StealCAS(s)
  PROVE  (StealKeeps(K, T, B, O) \/ StealTakes(K, T, B, O)) /\ Packed'
<1>1. thief[s].pc = "cas" /\ UNCHANGED <<buffers, pushed, owner>>
  BY DEF StealCAS
<1>2. CASE state = [t |-> thief[s].t, b |-> thief[s].b]
  <2>1. state' = [state EXCEPT !.t = Wrap(state.t + 1)] /\ Take(thief[s].item)
        /\ thief' = [thief EXCEPT ![s] = ThiefIdle] /\ state.t = thief[s].t /\ state.b = thief[s].b
    BY <1>2 DEF StealCAS
  <2>2. T < End(B)
    <3>1. Diff(state.b, state.t) > 0
      BY <1>1, <2>1 DEF Packed
    <3>2. /\ T \in Int /\ O \in Int /\ B \in Int /\ K \in Int /\ pushed \in Int /\ MaxItems \in Nat
          /\ K <= O /\ O <= T /\ T <= B + 1 /\ B <= K + pushed /\ pushed <= MaxItems
      BY OwnerFacts
    <3>3. state.b = Wrap(B) /\ state.t = Wrap(T)
      BY OwnerFacts
    <3>4. -1 <= B - T /\ B - T <= MaxItems
      BY <3>2
    <3>5. Diff(state.b, state.t) = B - T
      BY <3>2, <3>3, <3>4, DiffIs
    <3> QED BY <3>1, <3>2, <3>5 DEF End
  <2>3. StealTakes(K, T, B, O)
    BY <1>1, <2>1, <2>2, ThiefTakes
  <2>4. Packed'
    <3>1. Hopeful(ThiefIdle)
      BY ThiefIdleFacts DEF Hopeful
    <3> QED BY <1>1, <2>1, <3>1, OwnerFacts, PackedStep
  <2> QED BY <2>3, <2>4
<1>3. CASE state # [t |-> thief[s].t, b |-> thief[s].b]
  <2>1. UNCHANGED <<state, taken>>
        /\ thief' = [thief EXCEPT ![s] = IF thief[s].tries = MaxRetries THEN ThiefIdle
                                         ELSE StealSnapshot(thief[s].tries + 1)]
    BY <1>3, ThiefFacts DEF StealCAS
  <2>2. CASE thief[s].tries = MaxRetries
    <3>1. thief' = [thief EXCEPT ![s] = ThiefIdle]
      BY <2>1, <2>2
    <3>2. Hopeful(ThiefIdle)
      BY ThiefIdleFacts DEF Hopeful
    <3>3. Packed'
      BY <1>1, <3>1, <3>2, OwnerFacts, PackedStep
    <3>4. S[s] \in Int /\ K <= S[s] /\ S[s] <= T
      BY ThiefFacts
    <3>5. StealKeeps(K, T, B, O)
      BY <1>1, <2>1, <3>1, <3>4, ThiefIdleFacts, ThiefKeeps
    <3> QED BY <3>3, <3>5
  <2>3. CASE thief[s].tries # MaxRetries
    <3>1. thief[s].tries + 1 \in Nat
      BY ThiefFacts DEF ThiefType
    <3>2. thief' = [thief EXCEPT ![s] = StealSnapshot(thief[s].tries + 1)]
      BY <2>1, <2>3
    <3> QED BY <1>1, <2>1, <3>1, <3>2, BeginStealStep
  <2> QED BY <2>2, <2>3
<1> QED BY <1>2, <1>3

LEMMA StealCAS32Step ==
  ASSUME NEW K, NEW T, NEW B, NEW O, NEW S, DequeAt(K, T, B, O, S), Unpacked, NEW s \in Thieves,
         StealCAS32(s)
  PROVE  StealKeeps(K, T, B, O) \/ StealTakes(K, T, B, O)
<1>1. thief[s].pc = "cas" /\ thief' = [thief EXCEPT ![s] = ThiefIdle]
      /\ UNCHANGED <<buffers, pushed, owner>>
  BY DEF StealCAS32
<1>2. CASE state.t = thief[s].t
  <2>1. state' = [state EXCEPT !.t = Wrap(state.t + 1)] /\ Take(thief[s].item)
    BY <1>2 DEF StealCAS32
  <2>2. T < End(B)
    <3>1. S[s] = T /\ Wary(T, B, O, thief[s], S[s])
      BY <1>1, <1>2, TopAgain, ThiefFacts
    <3>2. owner.pc # "claimed"
      BY DEF Unpacked, Steps32
    <3> QED BY <1>1, <3>1, <3>2 DEF Wary
  <2> QED BY <1>1, <1>2, <2>1, <2>2, ThiefTakes
<1>3. CASE state.t # thief[s].t
  <2>1. UNCHANGED <<state, taken>>
    BY <1>3 DEF StealCAS32
  <2>2. S[s] \in Int /\ K <= S[s] /\ S[s] <= T
    BY ThiefFacts
  <2> QED BY <1>1, <2>1, <2>2, ThiefIdleFacts, ThiefKeeps
<1> QED BY <1>2, <1>3

-----------------------------------------------------------------------------
(* What the users of a deque see is what the invariant says.               *)

LEMMA SegOf ==
  ASSUME DequeTypes, NEW T \in Int, NEW L \in Int, state.t = Wrap(T),
         NEW n, n = (IF L - T > 0 THEN L - T ELSE 0)
  PROVE  [k \in 1..n |-> Item(Active, Wrap(state.t + k - 1))] = Seg(Cells(buffers), T, L)
<1>1. 1..n = 1..(L - T)
  <2>1. CASE L - T > 0
    BY <2>1
  <2>2. CASE ~(L - T > 0)
    <3>1. 1..0 = {} /\ 1..(L - T) = {} /\ n = 0
      BY <2>2
    <3> QED BY <3>1
  <2> QED BY <2>1, <2>2
<1>2. \A k \in 1..(L - T) : Item(Active, Wrap(state.t + k - 1)) = Cells(buffers)[(T + k) - 1]
  <2> TAKE k \in 1..(L - T)
  <2>1. k - 1 \in Int /\ (T + k) - 1 \in Int /\ T + (k - 1) = (T + k) - 1
    OBVIOUS
  <2>2. Wrap(Wrap(T) + (k - 1)) = Wrap(T + (k - 1)) /\ Wrap(T) \in Int
    BY <2>1, WrapFacts
  <2>3. state.t + k - 1 = Wrap(T) + (k - 1)
    BY <2>2
  <2>4. Item(Active, Wrap((T + k) - 1)) = Cells(buffers)[(T + k) - 1]
    BY <2>1, TakeIs
  <2> QED BY <2>1, <2>2, <2>3, <2>4
<1> QED BY <1>1, <1>2 DEF Seg

\* The items taken, with the one that a decrement of bottom has claimed.
Bump(c, x) == [c EXCEPT ![x] = @ + 1]
Seen(B, O) == IF owner.pc = "claimed" /\ O <= B THEN Bump(Counts32, Cells(buffers)[B]) ELSE Counts32

SizeSeen ==
  \A K, T, B, O, S : DequeAt(K, T, B, O, S) => Size = IF B - T > 0 THEN B - T ELSE 0
Deque64Seen ==
  \A K, T, B, O, S :
    DequeAt(K, T, B, O, S) /\ Packed => Items = View(T, B) /\ Taken = Seen(B, O)
Deque32Seen ==
  \A K, T, B, O, S : DequeAt(K, T, B, O, S) /\ Unpacked => Items32 = View(T, B)

LEMMA SizeIs == SizeSeen
<1> SUFFICES ASSUME NEW K, NEW T, NEW B, NEW O, NEW S, DequeAt(K, T, B, O, S)
             PROVE  Size = IF B - T > 0 THEN B - T ELSE 0
  BY DEF SizeSeen
<1>1. /\ T \in Int /\ O \in Int /\ B \in Int /\ K \in Int /\ pushed \in Int /\ MaxItems \in Nat
      /\ K <= O /\ O <= T /\ T <= B + 1 /\ B <= K + pushed /\ pushed <= MaxItems
  BY OwnerFacts
<1>2. state.b = Wrap(B) /\ state.t = Wrap(T)
  BY OwnerFacts
<1>3. -1 <= B - T /\ B - T <= MaxItems
  BY <1>1
<1>4. Diff(state.b, state.t) = B - T
  BY <1>1, <1>2, <1>3, DiffIs
<1> QED BY <1>4 DEF Size

LEMMA Deque64Is == Deque64Seen
<1> SUFFICES ASSUME NEW K, NEW T, NEW B, NEW O, NEW S, DequeAt(K, T, B, O, S), Packed
             PROVE  Items = View(T, B) /\ Taken = Seen(B, O)
  BY DEF Deque64Seen
<1>1. DequeTypes /\ T \in Int /\ B \in Int /\ O \in Int /\ K \in Int /\ state.t = Wrap(T)
  BY OwnerFacts
<1>2. Items = View(T, B)
  <2>1. Size = IF B - T > 0 THEN B - T ELSE 0
    BY SizeIs DEF SizeSeen
  <2>2. End(B) = B
    BY DEF End, Undecided, Packed, Steps64
  <2> QED BY <1>1, <2>1, <2>2, SegOf DEF Items, View
<1>3. \A x : Claimed(x) <=> (owner.pc = "claimed" /\ O <= B) /\ x = Cells(buffers)[B]
  <2>1. CASE owner.pc = "claimed"
    <3>1. owner.b = Wrap(B) /\ owner.t = Wrap(O)
      <4>1. OwnerPart(K, T, B, O)
        BY OwnerFacts
      <4> QED BY <2>1, <4>1 DEF OwnerPart
    <3>2. /\ K <= O /\ O <= T /\ T <= B + 1 /\ B <= K + pushed /\ pushed <= MaxItems
          /\ pushed \in Int /\ MaxItems \in Nat
      BY OwnerFacts
    <3>3. -1 <= B - O /\ B - O <= MaxItems
      BY <1>1, <3>2
    <3>4. Diff(owner.b, owner.t) = B - O
      BY <1>1, <3>1, <3>3, DiffIs
    <3>5. Diff(owner.b, owner.t) >= 0 <=> O <= B
      BY <1>1, <3>4
    <3>6. Item(Active, owner.b) = Cells(buffers)[B]
      BY <1>1, <3>1, TakeIs
    <3> QED BY <3>5, <3>6 DEF Claimed
  <2>2. CASE owner.pc # "claimed"
    BY <2>2 DEF Claimed
  <2> QED BY <2>1, <2>2
<1>4. Taken = Seen(B, O)
  <2>0. \A x \in 1..MaxItems : taken[x] \in Nat
    <3>1. taken \in [NoItem..Torn -> Nat] /\ MaxItems \in Nat
      BY OwnerFacts
    <3>2. \A x \in 1..MaxItems : x \in NoItem..Torn
      BY <3>1 DEF NoItem, Torn
    <3> QED BY <3>1, <3>2
  <2>1. CASE owner.pc = "claimed" /\ O <= B
    <3> PICK y : y = Cells(buffers)[B]
      OBVIOUS
    <3>1. Taken = [x \in 1..MaxItems |-> IF x = y THEN taken[x] + 1 ELSE taken[x]]
      BY <1>3, <2>0, <2>1 DEF Taken
    <3>2. Seen(B, O) = Bump(Counts32, y)
      BY <2>1 DEF Seen
    <3> QED BY <3>1, <3>2 DEF Bump, Counts32
  <2>2. CASE ~(owner.pc = "claimed" /\ O <= B)
    <3>1. \A x \in 1..MaxItems : ~Claimed(x) /\ taken[x] + 0 = taken[x]
      BY <1>3, <2>0, <2>2
    <3> QED BY <2>2, <3>1 DEF Taken, Seen, Counts32
  <2> QED BY <2>1, <2>2
<1> QED BY <1>2, <1>4

LEMMA Deque32Is == Deque32Seen
<1> SUFFICES ASSUME NEW K, NEW T, NEW B, NEW O, NEW S, DequeAt(K, T, B, O, S), Unpacked
             PROVE  Items32 = View(T, B)
  BY DEF Deque32Seen
<1>1. DequeTypes /\ T \in Int /\ B \in Int /\ O \in Int /\ K \in Int /\ state.t = Wrap(T)
      /\ state.b = Wrap(B)
  BY OwnerFacts
<1>2. /\ K <= O /\ O <= T /\ T <= B + 1 /\ B <= K + pushed /\ pushed <= MaxItems
      /\ pushed \in Int /\ MaxItems \in Nat
  BY OwnerFacts
<1>3. End(B) \in Int /\ -1 <= End(B) - T /\ End(B) - T <= MaxItems
      /\ (IF Undecided THEN Wrap(owner.b + 1) ELSE state.b) = Wrap(End(B))
  <2>1. CASE Undecided
    <3>1. B < K + pushed /\ owner.b = Wrap(B)
      <4>1. OwnerPart(K, T, B, O)
        BY OwnerFacts
      <4> QED BY <2>1, <4>1 DEF OwnerPart, Undecided
    <3>2. Wrap(Wrap(B) + 1) = Wrap(B + 1)
      BY <1>1, WrapFacts
    <3>3. B + 1 \in Int /\ -1 <= (B + 1) - T /\ (B + 1) - T <= MaxItems
      BY <1>1, <1>2, <3>1
    <3> QED BY <2>1, <3>1, <3>2, <3>3 DEF End
  <2>2. CASE ~Undecided
    <3>1. -1 <= B - T /\ B - T <= MaxItems
      BY <1>1, <1>2
    <3> QED BY <1>1, <2>2, <3>1 DEF End
  <2> QED BY <2>1, <2>2
<1>4. Diff(Wrap(End(B)), Wrap(T)) = End(B) - T
  BY <1>1, <1>3, DiffIs
<1>5. Size32 = IF End(B) - T > 0 THEN End(B) - T ELSE 0
  BY <1>1, <1>3, <1>4 DEF Size32
<1> QED BY <1>1, <1>3, <1>5, SegOf DEF Items32, View

LEMMA SeenNext == SizeSeen' /\ Deque64Seen' /\ Deque32Seen'
BY SizeIs, Deque64Is, Deque32Is, PTL

\* One more item taken.
LEMMA BumpFacts ==
  ASSUME DequeTypes, NEW x \in NoItem..Torn, Take(x)
  PROVE  Counts32' = Bump(Counts32, x)
<1>1. /\ taken'[x] = taken[x] + 1 /\ \A y \in NoItem..Torn : y # x => taken'[y] = taken[y]
  BY TakeFacts
<1>2. \A y \in 1..MaxItems : y \in NoItem..Torn
  BY HalfWordFacts DEF NoItem, Torn
<1>3. Counts32' = [y \in 1..MaxItems |-> taken'[y]]
  BY DEF Counts32
<1>4. Bump(Counts32, x) = [y \in 1..MaxItems |-> IF y = x THEN taken[y] + 1 ELSE taken[y]]
  BY DEF Bump, Counts32
<1> QED BY <1>1, <1>2, <1>3, <1>4

LEMMA BumpIs ==
  ASSUME NEW c \in [1..MaxItems -> Nat], NEW x
  PROVE  /\ Bump(c, x) \in [1..MaxItems -> Nat]
         /\ \A z \in 1..MaxItems : Bump(c, x)[z] = (IF z = x THEN c[z] + 1 ELSE c[z])
<1>1. Bump(c, x) = [z \in 1..MaxItems |-> IF z = x THEN c[z] + 1 ELSE c[z]]
  BY DEF Bump
<1> QED BY <1>1

LEMMA BumpsCommute ==
  ASSUME NEW c \in [1..MaxItems -> Nat], NEW x, NEW y
  PROVE  Bump(Bump(c, x), y) = Bump(Bump(c, y), x)
<1> DEFINE u == Bump(c, x)
           w == Bump(c, y)
           f == Bump(u, y)
           g == Bump(w, x)
<1>1. /\ u \in [1..MaxItems -> Nat]
      /\ \A z \in 1..MaxItems : u[z] = (IF z = x THEN c[z] + 1 ELSE c[z])
  BY BumpIs
<1>2. /\ w \in [1..MaxItems -> Nat]
      /\ \A z \in 1..MaxItems : w[z] = (IF z = y THEN c[z] + 1 ELSE c[z])
  BY BumpIs
<1> HIDE DEF u, w
<1>3. /\ f \in [1..MaxItems -> Nat]
      /\ \A z \in 1..MaxItems : f[z] = (IF z = y THEN u[z] + 1 ELSE u[z])
  BY <1>1, BumpIs
<1>4. /\ g \in [1..MaxItems -> Nat]
      /\ \A z \in 1..MaxItems : g[z] = (IF z = x THEN w[z] + 1 ELSE w[z])
  BY <1>2, BumpIs
<1> HIDE DEF f, g
<1>5. \A z \in 1..MaxItems : f[z] = g[z]
  <2> TAKE z \in 1..MaxItems
  <2>1. c[z] \in Nat
    OBVIOUS
  <2> QED BY <1>1, <1>2, <1>3, <1>4, <2>1
<1>6. f = [z \in 1..MaxItems |-> f[z]] /\ g = [z \in 1..MaxItems |-> g[z]]
  BY <1>3, <1>4
<1>7. f = g
  BY <1>5, <1>6
<1> QED BY <1>7 DEF f, g, u, w

-----------------------------------------------------------------------------
(* Every step of a deque is one of a work queue.                           *)

Shows32(T, B, T2, B2) ==
  WorkStep(View(T, B), Counts32, pushed, View(T2, B2)', Counts32', pushed')
Shows64(T, B, O, T2, B2, O2) ==
  WorkStep(View(T, B), Seen(B, O), pushed, View(T2, B2)', Seen(B2, O2)', pushed')

LEMMA Kept ==
  ASSUME NEW T, NEW B, NEW T2, NEW B2,
         View(T2, B2)' = View(T, B), taken' = taken, pushed' = pushed
  PROVE  Shows32(T, B, T2, B2)
BY DEF Shows32, WorkStep, Keeps, Counts32

LEMMA Unclaimed ==
  ASSUME NEW T, NEW B, NEW O, NEW T2, NEW B2, NEW O2, Shows32(T, B, T2, B2),
         owner.pc # "claimed", owner'.pc # "claimed"
  PROVE  Shows64(T, B, O, T2, B2, O2)
<1>1. Seen(B, O) = Counts32 /\ Seen(B2, O2)' = Counts32'
  BY DEF Seen
<1> QED BY <1>1 DEF Shows32, Shows64

CountsType == Counts32 \in [1..MaxItems -> Nat]
LEMMA CountsAre == ASSUME DequeTypes PROVE CountsType
<1>1. \A x \in 1..MaxItems : x \in NoItem..Torn
  BY HalfWordFacts DEF NoItem, Torn
<1> QED BY <1>1 DEF DequeTypes, Counts32, CountsType

PushAction == (\E n \in 1..MaxBulk : BeginPush(n)) \/ Grow \/ StoreHalf \/ StoreRest \/ Publish
PushSteps == {"idle", "grow", "store", "storing"}

LEMMA PushActionStep ==
  ASSUME NEW K, NEW T, NEW B, NEW O, NEW S, DequeAt(K, T, B, O, S), PushAction
  PROVE  /\ \E B2, O2 : DequeAt(K, T, B2, O2, S)' /\ Shows32(T, B, T, B2)
         /\ thief' = thief /\ owner.pc \in PushSteps /\ owner'.pc \in PushSteps
<1>t. owner \in OwnerType
  BY OwnerFacts
<1>1. CASE \E n \in 1..MaxBulk : BeginPush(n)
  <2>1. DequeAt(K, T, B, T, S)' /\ View(T, B)' = View(T, B)
    BY <1>1, BeginPushStep
  <2>2. /\ UNCHANGED <<pushed, taken, thief>>
        /\ owner.pc \in PushSteps /\ owner'.pc \in PushSteps
    BY <1>1 DEF BeginPush, PushSteps
  <2> QED BY <2>1, <2>2, Kept DEF PushSteps
<1>2. CASE Grow
  <2>1. DequeAt(K, T, B, O, S)' /\ View(T, B)' = View(T, B)
    BY <1>2, GrowStep
  <2>2. /\ UNCHANGED <<pushed, taken, thief>>
        /\ owner.pc \in PushSteps /\ owner'.pc \in PushSteps
    BY <1>t, <1>2 DEF Grow, PushSteps, OwnerType
  <2> QED BY <2>1, <2>2, Kept DEF PushSteps
<1>3. CASE StoreHalf
  <2>1. DequeAt(K, T, B, O, S)' /\ View(T, B)' = View(T, B)
    BY <1>3, StoreHalfStep
  <2>2. /\ UNCHANGED <<pushed, taken, thief>>
        /\ owner.pc \in PushSteps /\ owner'.pc \in PushSteps
    BY <1>t, <1>3 DEF StoreHalf, PushSteps, OwnerType
  <2> QED BY <2>1, <2>2, Kept DEF PushSteps
<1>4. CASE StoreRest
  <2>1. DequeAt(K, T, B, O, S)' /\ View(T, B)' = View(T, B)
    BY <1>4, StoreRestStep
  <2>2. /\ UNCHANGED <<pushed, taken, thief>>
        /\ owner.pc \in PushSteps /\ owner'.pc \in PushSteps
    BY <1>t, <1>4 DEF StoreRest, PushSteps, OwnerType
  <2> QED BY <2>1, <2>2, Kept DEF PushSteps
<1>5. CASE Publish
  <2>1. PICK n \in 1..(MaxItems - pushed) :
           /\ DequeAt(K, T, B + n, O, S)' /\ pushed' = pushed + n /\ taken' = taken
           /\ View(T, B + n)' = View(T, B) \o Following(pushed, n)
    BY <1>5, PublishStep
  <2>2. /\ thief' = thief /\ owner.pc \in PushSteps /\ owner'.pc \in PushSteps
    BY <1>5 DEF Publish, PushSteps, OwnerIdle
  <2>3. Shows32(T, B, T, B + n)
    BY <2>1 DEF Shows32, WorkStep, Pushes, Following, Counts32
  <2> QED BY <2>1, <2>2, <2>3 DEF PushSteps
<1> QED BY <1>1, <1>2, <1>3, <1>4, <1>5 DEF PushAction

\* try_pop of the 64-bit deque: the decrement of bottom takes the item.
LEMMA ClaimShows ==
  ASSUME NEW K, NEW T, NEW B, NEW O, NEW S, DequeAt(K, T, B, O, S), Packed,
         owner.pc = "pop", Claim, UNCHANGED <<buffers, pushed, taken, thief>>
  PROVE  /\ DequeAt(K, T, B - 1, T, S)' /\ owner'.pc = "claimed"
         /\ Shows64(T, B, O, T, B - 1, T)
<1>1. /\ DequeAt(K, T, B - 1, T, S)' /\ owner'.pc = "claimed" /\ T <= B
      /\ View(T, B) = Seg(Cells(buffers), T, B) /\ View(T, B - 1)' = Seg(Cells(buffers), T, B - 1)
  BY ClaimStep
<1>2. T \in Int /\ B \in Int /\ Cells(buffers) \in [Int -> Contents]
  BY OwnerFacts
<1>3. Seen(B, O) = Counts32
  BY DEF Seen
<1>4. CASE T < B
  <2>1. /\ View(T, B) # <<>> /\ D!Last(View(T, B)) = Cells(buffers)[B - 1]
        /\ D!Front(View(T, B)) = Seg(Cells(buffers), T, B - 1)
    <3>1. /\ Seg(Cells(buffers), T, B) # <<>>
          /\ D!Last(Seg(Cells(buffers), T, B)) = Cells(buffers)[B - 1]
          /\ D!Front(Seg(Cells(buffers), T, B)) = Seg(Cells(buffers), T, B - 1)
      BY <1>2, <1>4, SegEnds
    <3> QED BY <1>1, <3>1
  <2>2. T <= B - 1
    BY <1>2, <1>4
  <2>3. Seen(B - 1, T)' = Bump(Counts32, Cells(buffers)[B - 1])
    <3>1. Counts32' = Counts32 /\ buffers' = buffers
      BY DEF Counts32
    <3> QED BY <1>1, <2>2, <3>1 DEF Seen
  <2> QED BY <1>1, <1>3, <2>1, <2>3 DEF Shows64, WorkStep, TakesLast, Bump
<1>5. CASE ~(T < B)
  <2>1. T = B /\ ~(T <= B - 1)
    BY <1>1, <1>2, <1>5
  <2>2. View(T, B) = <<>> /\ View(T, B - 1)' = <<>>
    BY <1>1, <1>2, <2>1, SegEmpty
  <2>3. Seen(B - 1, T)' = Counts32
    BY <2>1 DEF Seen, Counts32
  <2> QED BY <1>1, <1>3, <2>2, <2>3 DEF Shows64, WorkStep, Keeps
<1> QED BY <1>1, <1>4, <1>5

\* What PopMissesNothing says of one step, and Pop32MissesNothing.
Misses64 == owner.pc \in {"pop", "claimed"} /\ owner'.pc = "idle" /\ taken' = taken => Size = 0
Misses32 == owner.pc = "restore" /\ owner.n = 0 /\ owner'.pc = "idle" => Size' = 0

LEMMA Owner64Step ==
  ASSUME NEW K, NEW T, NEW B, NEW O, NEW S, DequeAt(K, T, B, O, S), Packed, OwnerNext
  PROVE  \E T2, B2, O2 : /\ DequeAt(K, T2, B2, O2, S)' /\ Packed' /\ Misses64
                         /\ Shows64(T, B, O, T2, B2, O2)
<1>n. /\ K \in Int /\ T \in Int /\ B \in Int /\ O \in Int
      /\ Size = IF B - T > 0 THEN B - T ELSE 0
  BY OwnerFacts, SizeIs DEF SizeSeen
<1>t. owner \in OwnerType /\ DequeTypes
  BY OwnerFacts
<1>p. thief' = thief /\ owner'.pc \in Steps64 => Packed'
  BY DEF Packed, Diff, Wrap
<1>1. CASE PushAction
  <2>1. /\ \E B2, O2 : DequeAt(K, T, B2, O2, S)' /\ Shows32(T, B, T, B2)
        /\ thief' = thief /\ owner.pc \in PushSteps /\ owner'.pc \in PushSteps
    BY <1>1, PushActionStep
  <2>2. Packed' /\ Misses64 /\ owner.pc # "claimed" /\ owner'.pc # "claimed"
    BY <1>p, <2>1 DEF Misses64, PushSteps, Steps64
  <2> QED BY <2>1, <2>2, Unclaimed
<1>2. CASE BeginPop
  <2>1. DequeAt(K, T, B, T, S)' /\ View(T, B)' = View(T, B)
    BY <1>2, BeginPopStep
  <2>2. UNCHANGED <<pushed, taken, thief>> /\ owner.pc = "idle" /\ owner'.pc = "pop"
    BY <1>2 DEF BeginPop, OwnerIdle
  <2>3. Packed' /\ Misses64
    BY <1>p, <2>2 DEF Misses64, Steps64
  <2> QED BY <2>1, <2>2, <2>3, Kept, Unclaimed
<1>3. CASE PopEmpty
  <2>1. DequeAt(K, T, B, O, S)' /\ View(T, B)' = View(T, B) /\ B <= T
    BY <1>3, PopEmptyStep
  <2>2. UNCHANGED <<pushed, taken, thief>> /\ owner.pc = "pop" /\ owner'.pc = "idle"
    BY <1>3 DEF PopEmpty, OwnerIdle
  <2>3. Packed' /\ Misses64
    BY <1>n, <1>p, <2>1, <2>2 DEF Misses64, Steps64
  <2> QED BY <2>1, <2>2, <2>3, Kept, Unclaimed
<1>4. CASE owner.pc = "pop" /\ Claim /\ UNCHANGED <<buffers, pushed, taken, thief>>
  <2>1. DequeAt(K, T, B - 1, T, S)' /\ owner'.pc = "claimed" /\ Shows64(T, B, O, T, B - 1, T)
    BY <1>4, ClaimShows
  <2>2. Packed' /\ Misses64
    BY <1>4, <1>p, <2>1 DEF Misses64, Steps64
  <2> QED BY <2>1, <2>2
<1>5. CASE /\ owner.pc = "pop" /\ owner' = [owner EXCEPT !.t = state.t]
           /\ UNCHANGED <<state, buffers, pushed, taken, thief>>
  <2>1. DequeAt(K, T, B, T, S)' /\ View(T, B)' = View(T, B)
    BY <1>5, PopAgainStep
  <2>2. UNCHANGED <<pushed, taken, thief>> /\ owner.pc = "pop" /\ owner'.pc = "pop"
    BY <1>5, <1>t DEF OwnerType
  <2>3. Packed' /\ Misses64
    BY <1>p, <2>2 DEF Misses64, Steps64
  <2> QED BY <2>1, <2>2, <2>3, Kept, Unclaimed
<1>6. CASE PopRestore
  <2>1. /\ DequeAt(K, T, B + 1, O, S)' /\ View(T, B) = <<>> /\ View(T, B + 1)' = <<>>
        /\ T = B + 1 /\ O = B + 1
    BY <1>6, PopRestoreStep
  <2>2. UNCHANGED <<buffers, pushed, taken, thief>> /\ owner'.pc = "idle"
    BY <1>6 DEF PopRestore, OwnerIdle
  <2>3. Packed' /\ Misses64
    BY <1>n, <1>p, <2>1, <2>2 DEF Misses64, Steps64
  <2>4. Seen(B, O) = Counts32 /\ Seen(B + 1, O)' = Counts32
    <3>1. ~(O <= B)
      BY <1>n, <2>1
    <3> QED BY <2>2, <3>1 DEF Seen, Counts32
  <2> QED BY <2>1, <2>2, <2>3, <2>4 DEF Shows64, WorkStep, Keeps
<1>7. CASE PopTake
  <2>1. /\ DequeAt(K, T, B, O, S)' /\ View(T, B)' = View(T, B)
        /\ Take(Cells(buffers)[B]) /\ O < B
    BY <1>7, PopTakeStep
  <2>2. UNCHANGED <<buffers, pushed, thief>> /\ owner'.pc = "idle" /\ owner.pc = "claimed"
    BY <1>7 DEF PopTake, OwnerIdle
  <2>3. Cells(buffers)[B] \in NoItem..Torn
    BY <1>n, <1>t, TakeIs
  <2>4. taken' # taken /\ Counts32' = Bump(Counts32, Cells(buffers)[B])
    BY <1>t, <2>1, <2>3, TakeFacts, BumpFacts
  <2>5. Packed' /\ Misses64
    BY <1>p, <2>2, <2>4 DEF Misses64, Steps64
  <2>6. Seen(B, O) = Bump(Counts32, Cells(buffers)[B]) /\ Seen(B, O)' = Counts32'
    BY <1>n, <2>1, <2>2 DEF Seen
  <2> QED BY <2>1, <2>2, <2>4, <2>5, <2>6 DEF Shows64, WorkStep, Keeps
<1>8. CASE PopTakeLast
  <2>1. /\ DequeAt(K, T + 1, B + 1, O, S)' /\ View(T, B) = <<>> /\ View(T + 1, B + 1)' = <<>>
        /\ Take(Cells(buffers)[B]) /\ O = B
    BY <1>8, PopTakeLastStep
  <2>2. UNCHANGED <<buffers, pushed, thief>> /\ owner'.pc = "idle" /\ owner.pc = "claimed"
    BY <1>8 DEF PopTakeLast, OwnerIdle
  <2>3. Cells(buffers)[B] \in NoItem..Torn
    BY <1>n, <1>t, TakeIs
  <2>4. taken' # taken /\ Counts32' = Bump(Counts32, Cells(buffers)[B])
    BY <1>t, <2>1, <2>3, TakeFacts, BumpFacts
  <2>5. Packed' /\ Misses64
    BY <1>p, <2>2, <2>4 DEF Misses64, Steps64
  <2>6. Seen(B, O) = Bump(Counts32, Cells(buffers)[B]) /\ Seen(B + 1, O)' = Counts32'
    BY <1>n, <2>1, <2>2 DEF Seen
  <2> QED BY <2>1, <2>2, <2>4, <2>5, <2>6 DEF Shows64, WorkStep, Keeps
<1>9. ASSUME PopDecrement \/ PopDecrementAtZero
      PROVE  \/ owner.pc = "pop" /\ Claim /\ UNCHANGED <<buffers, pushed, taken, thief>>
             \/ /\ owner.pc = "pop" /\ owner' = [owner EXCEPT !.t = state.t]
                /\ UNCHANGED <<state, buffers, pushed, taken, thief>>
  BY <1>9 DEF PopDecrement, PopDecrementAtZero
<1>10. PushAction \/ BeginPop \/ PopEmpty \/ PopDecrement \/ PopDecrementAtZero
       \/ PopRestore \/ PopTake \/ PopTakeLast
  BY DEF OwnerNext, PushAction
<1> QED BY <1>1, <1>2, <1>3, <1>4, <1>5, <1>6, <1>7, <1>8, <1>9, <1>10

\* A thief takes the top item, whatever the owner is doing.
LEMMA StealShows ==
  ASSUME NEW K, NEW T, NEW B, NEW O, NEW S, DequeAt(K, T, B, O, S),
         StealKeeps(K, T, B, O) \/ StealTakes(K, T, B, O)
  PROVE  \E T2, S2 : /\ DequeAt(K, T2, B, O, S2)' /\ owner' = owner
                     /\ Shows32(T, B, T2, B) /\ Shows64(T, B, O, T2, B, O)
<1>1. CASE StealKeeps(K, T, B, O)
  <2>1. Seen(B, O)' = Seen(B, O) /\ Counts32' = Counts32
    BY <1>1 DEF StealKeeps, Seen, Counts32
  <2>2. \E Z : DequeAt(K, T, B, O, Z)'
    BY <1>1 DEF StealKeeps
  <2>3. View(T, B)' = View(T, B) /\ pushed' = pushed /\ owner' = owner
    BY <1>1 DEF StealKeeps
  <2> QED BY <2>1, <2>2, <2>3 DEF Shows32, Shows64, WorkStep, Keeps
<1>2. CASE StealTakes(K, T, B, O)
  <2> DEFINE x == Cells(buffers)[T]
             y == Cells(buffers)[B]
  <2>1. /\ T < End(B) /\ View(T + 1, B)' = Seg(Cells(buffers), T + 1, End(B)) /\ Take(x)
        /\ UNCHANGED <<buffers, pushed, owner>>
    BY <1>2 DEF StealTakes
  <2>2. \E Z : DequeAt(K, T + 1, B, O, Z)'
    BY <1>2 DEF StealTakes
  <2>3. T \in Int /\ B \in Int /\ Cells(buffers) \in [Int -> Contents] /\ DequeTypes
    BY OwnerFacts
  <2>4. /\ View(T, B) # <<>> /\ Head(View(T, B)) = x /\ Tail(View(T, B)) = View(T + 1, B)'
    <3>1. End(B) \in Int
      BY <2>3 DEF End
    <3>2. /\ Seg(Cells(buffers), T, End(B)) # <<>>
          /\ Head(Seg(Cells(buffers), T, End(B))) = Cells(buffers)[T]
          /\ Tail(Seg(Cells(buffers), T, End(B))) = Seg(Cells(buffers), T + 1, End(B))
      BY <2>1, <2>3, <3>1, SegEnds
    <3> QED BY <2>1, <3>2 DEF View
  <2>5. Counts32' = Bump(Counts32, x)
    BY <2>1, <2>3, TakeIs, BumpFacts
  <2>6. Seen(B, O)' = Bump(Seen(B, O), x)
    <3>1. CASE owner.pc = "claimed" /\ O <= B
      <4>1. Seen(B, O) = Bump(Counts32, y) /\ Seen(B, O)' = Bump(Counts32', y)
        BY <2>1, <3>1 DEF Seen
      <4>2. Counts32 \in [1..MaxItems -> Nat]
        BY <2>3, CountsAre DEF CountsType
      <4> HIDE DEF x, y
      <4>3. Bump(Bump(Counts32, x), y) = Bump(Bump(Counts32, y), x)
        BY <4>2, BumpsCommute
      <4> QED BY <2>5, <4>1, <4>3
    <3>2. CASE ~(owner.pc = "claimed" /\ O <= B)
      BY <2>1, <2>5, <3>2 DEF Seen
    <3> QED BY <3>1, <3>2
  <2>7. Shows32(T, B, T + 1, B) /\ Shows64(T, B, O, T + 1, B, O)
    BY <2>1, <2>4, <2>5, <2>6 DEF Shows32, Shows64, WorkStep, TakesFirst, Bump
  <2> QED BY <2>1, <2>2, <2>7
<1> QED BY <1>1, <1>2

LEMMA Thief64Step ==
  ASSUME NEW K, NEW T, NEW B, NEW O, NEW S, DequeAt(K, T, B, O, S), Packed, NEW s \in Thieves,
         ThiefNext(s)
  PROVE  (StealKeeps(K, T, B, O) \/ StealTakes(K, T, B, O)) /\ Packed'
<1>1. CASE BeginSteal(s)
  <2>1. thief' = [thief EXCEPT ![s] = StealSnapshot(0)] /\ 0 \in Nat
        /\ UNCHANGED <<state, buffers, pushed, taken, owner>>
    BY <1>1 DEF BeginSteal
  <2> QED BY <2>1, BeginStealStep
<1>2. CASE StealBuffer(s)
  BY <1>2, StealBufferStep
<1>3. CASE StealItem(s)
  BY <1>3, StealItemStep
<1>4. CASE StealCAS(s)
  BY <1>4, StealCASStep
<1> QED BY <1>1, <1>2, <1>3, <1>4 DEF ThiefNext

LEMMA Thief32Step ==
  ASSUME NEW K, NEW T, NEW B, NEW O, NEW S, DequeAt(K, T, B, O, S), Unpacked, NEW s \in Thieves,
         ThiefNext32(s)
  PROVE  StealKeeps(K, T, B, O) \/ StealTakes(K, T, B, O)
<1>1. CASE StealTop(s)
  BY <1>1, StealTopStep
<1>2. CASE StealBottom(s)
  BY <1>2, StealBottomStep
<1>3. CASE StealBuffer(s)
  BY <1>3, StealBufferStep
<1>4. CASE StealItem(s)
  BY <1>4, StealItemStep
<1>5. CASE StealCAS32(s)
  BY <1>5, StealCAS32Step
<1> QED BY <1>1, <1>2, <1>3, <1>4, <1>5 DEF ThiefNext32

LEMMA Owner32Step ==
  ASSUME NEW K, NEW T, NEW B, NEW O, NEW S, DequeAt(K, T, B, O, S), Unpacked, OwnerNext32
  PROVE  \E T2, B2, O2 : /\ DequeAt(K, T2, B2, O2, S)' /\ Unpacked' /\ Misses32
                         /\ Shows32(T, B, T2, B2)
<1>n. K \in Int /\ T \in Int /\ B \in Int /\ O \in Int
  BY OwnerFacts
<1>t. owner \in OwnerType /\ DequeTypes /\ Cells(buffers) \in [Int -> Contents]
  BY OwnerFacts
<1>p. owner'.pc \in Steps32 => Unpacked'
  BY DEF Unpacked
<1>1. CASE PushAction
  <2>1. /\ \E B2, O2 : DequeAt(K, T, B2, O2, S)' /\ Shows32(T, B, T, B2)
        /\ owner.pc \in PushSteps /\ owner'.pc \in PushSteps
    BY <1>1, PushActionStep
  <2>2. Unpacked' /\ Misses32
    BY <1>p, <2>1 DEF Misses32, PushSteps, Steps32
  <2> QED BY <2>1, <2>2
<1>2. CASE BeginPop32
  <2>1. DequeAt(K, T, B - 1, O, S)' /\ View(T, B - 1)' = View(T, B)
    BY <1>2, BeginPop32Step
  <2>2. UNCHANGED <<pushed, taken>> /\ owner.pc = "idle" /\ owner'.pc = "wanted"
    BY <1>2 DEF BeginPop32, OwnerIdle
  <2>3. Unpacked' /\ Misses32
    BY <1>p, <2>2 DEF Misses32, Steps32
  <2> QED BY <2>1, <2>2, <2>3, Kept
<1>3. CASE PopPlenty
  <2>1. /\ DequeAt(K, T, B, O, S)' /\ Take(Cells(buffers)[B]) /\ T < B + 1
        /\ View(T, B) = Seg(Cells(buffers), T, B + 1)
        /\ View(T, B)' = Seg(Cells(buffers), T, (B + 1) - 1)
    BY <1>3, PopPlentyStep
  <2>2. pushed' = pushed /\ owner.pc = "wanted" /\ owner'.pc = "idle"
    BY <1>3 DEF PopPlenty, OwnerIdle
  <2>3. Unpacked' /\ Misses32
    BY <1>p, <2>2 DEF Misses32, Steps32
  <2>4. Counts32' = Bump(Counts32, Cells(buffers)[B])
    BY <1>n, <1>t, <2>1, TakeIs, BumpFacts
  <2>5. /\ Seg(Cells(buffers), T, B + 1) # <<>>
        /\ D!Last(Seg(Cells(buffers), T, B + 1)) = Cells(buffers)[(B + 1) - 1]
        /\ D!Front(Seg(Cells(buffers), T, B + 1)) = Seg(Cells(buffers), T, (B + 1) - 1)
    <3> PICK L : L = B + 1
      OBVIOUS
    <3>1. L \in Int /\ T \in Int /\ T < L /\ Cells(buffers) \in [Int -> Contents]
      BY <1>n, <1>t, <2>1
    <3>2. /\ Seg(Cells(buffers), T, L) # <<>>
          /\ D!Last(Seg(Cells(buffers), T, L)) = Cells(buffers)[L - 1]
          /\ D!Front(Seg(Cells(buffers), T, L)) = Seg(Cells(buffers), T, L - 1)
      BY <3>1, SegEnds
    <3> QED BY <3>2
  <2>6. (B + 1) - 1 = B
    BY <1>n
  <2>7. Shows32(T, B, T, B)
    BY <2>1, <2>2, <2>4, <2>5, <2>6 DEF Shows32, WorkStep, TakesLast, Bump
  <2> QED BY <2>1, <2>3, <2>7
<1>4. CASE PopFew
  <2>1. DequeAt(K, T, B, T, S)' /\ View(T, B)' = View(T, B)
    BY <1>4, PopFewStep
  <2>2. UNCHANGED <<pushed, taken>> /\ owner.pc = "wanted" /\ owner'.pc \in {"last", "restore"}
    BY <1>4, <1>t DEF PopFew, OwnerType
  <2>3. Unpacked' /\ Misses32
    BY <1>p, <2>2 DEF Misses32, Steps32
  <2> QED BY <2>1, <2>2, <2>3, Kept
<1>5. CASE PopLast
  <2>1. pushed' = pushed /\ owner.pc = "last" /\ owner'.pc = "restore"
    BY <1>5, <1>t DEF PopLast, OwnerType
  <2>2. Unpacked' /\ Misses32
    BY <1>p, <2>1 DEF Misses32, Steps32
  <2>3. CASE state.t = owner.t
    <3>1. /\ DequeAt(K, T + 1, B, O, S)' /\ Take(Cells(buffers)[T]) /\ T < End(B)
          /\ View(T + 1, B)' = Seg(Cells(buffers), T + 1, End(B))
      BY <1>5, <2>3, PopLastWins
    <3>2. Counts32' = Bump(Counts32, Cells(buffers)[T])
      BY <1>n, <1>t, <3>1, TakeIs, BumpFacts
    <3>3. /\ Seg(Cells(buffers), T, End(B)) # <<>>
          /\ Head(Seg(Cells(buffers), T, End(B))) = Cells(buffers)[T]
          /\ Tail(Seg(Cells(buffers), T, End(B))) = Seg(Cells(buffers), T + 1, End(B))
      <4>1. End(B) \in Int
        BY <1>n DEF End
      <4> QED BY <1>n, <1>t, <3>1, <4>1, SegEnds
    <3>4. View(T, B) = Seg(Cells(buffers), T, End(B))
      BY DEF View
    <3>5. Shows32(T, B, T + 1, B)
      BY <2>1, <3>1, <3>2, <3>3, <3>4 DEF Shows32, WorkStep, TakesFirst, Bump
    <3> QED BY <2>2, <3>1, <3>5
  <2>4. CASE state.t # owner.t
    <3>1. DequeAt(K, T, B, O, S)' /\ View(T, B)' = View(T, B)
      BY <1>5, <2>4, PopLastLoses
    <3>2. taken' = taken
      BY <1>5, <2>4 DEF PopLast
    <3> QED BY <2>1, <2>2, <3>1, <3>2, Kept
  <2> QED BY <2>3, <2>4
<1>6. CASE PopEnd
  <2>1. /\ DequeAt(K, T, B + 1, O, S)' /\ View(T, B) = <<>> /\ View(T, B + 1)' = <<>>
        /\ T = B + 1
    BY <1>6, PopEndStep
  <2>2. UNCHANGED <<pushed, taken>> /\ owner'.pc = "idle"
    BY <1>6 DEF PopEnd, OwnerIdle
  <2>3. Size' = 0
    <3>1. Size' = IF (B + 1) - T > 0 THEN (B + 1) - T ELSE 0
      BY <2>1, SeenNext DEF SizeSeen
    <3> QED BY <1>n, <2>1, <3>1
  <2>4. Unpacked' /\ Misses32
    BY <1>p, <2>2, <2>3 DEF Misses32, Steps32
  <2> QED BY <2>1, <2>2, <2>4, Kept
<1>7. PushAction \/ BeginPop32 \/ PopPlenty \/ PopFew \/ PopLast \/ PopEnd
  BY DEF OwnerNext32, PushAction
<1> QED BY <1>1, <1>2, <1>3, <1>4, <1>5, <1>6, <1>7

\* The two deques, each with its invariant, for their users.
Inv64 == DequeInv /\ Packed
Inv32 == DequeInv /\ Unpacked

LEMMA Next64 ==
  ASSUME Inv64, Next
  PROVE  /\ Inv64' /\ Misses64 /\ ~(owner.pc = "restore")
         /\ WorkStep(Items, Taken, pushed, Items', Taken', pushed')
<1>1. PICK K, T, B, O, S : DequeAt(K, T, B, O, S)
  BY DEF Inv64, DequeInv
<1>2. Packed
  BY DEF Inv64
<1>3. \E T2, B2, O2, S2 : /\ DequeAt(K, T2, B2, O2, S2)' /\ Packed' /\ Misses64
                          /\ Shows64(T, B, O, T2, B2, O2)
  <2>1. CASE OwnerNext
    BY <1>1, <1>2, <2>1, Owner64Step
  <2>2. CASE \E s \in Thieves : ThiefNext(s)
    <3>1. PICK s \in Thieves : ThiefNext(s)
      BY <2>2
    <3>2. (StealKeeps(K, T, B, O) \/ StealTakes(K, T, B, O)) /\ Packed'
      BY <1>1, <1>2, <3>1, Thief64Step
    <3>3. \E T2, S2 : /\ DequeAt(K, T2, B, O, S2)' /\ owner' = owner
                      /\ Shows64(T, B, O, T2, B, O)
      BY <1>1, <3>2, StealShows
    <3>4. Misses64
      BY <3>3 DEF Misses64
    <3> QED BY <3>2, <3>3, <3>4
  <2> QED BY <2>1, <2>2 DEF Next
<1>4. PICK T2, B2, O2, S2 : /\ DequeAt(K, T2, B2, O2, S2)' /\ Packed' /\ Misses64
                            /\ Shows64(T, B, O, T2, B2, O2)
  BY <1>3
<1>5. Items = View(T, B) /\ Taken = Seen(B, O)
  BY <1>1, <1>2, Deque64Is DEF Deque64Seen
<1>6. Items' = View(T2, B2)' /\ Taken' = Seen(B2, O2)'
  BY <1>4, SeenNext DEF Deque64Seen
<1>7. WorkStep(Items, Taken, pushed, Items', Taken', pushed')
  BY <1>4, <1>5, <1>6 DEF Shows64
<1>8. DequeInv'
  <2>1. /\ T2 \in Int /\ B2 \in Int /\ K \in Int /\ O2 \in Int /\ S2 \in [Thieves -> Int]
    BY <1>4 DEF DequeAt, Bounds
  <2> QED BY <1>4, <2>1 DEF DequeInv
<1>9. ~(owner.pc = "restore")
  BY <1>2 DEF Packed, Steps64
<1> QED BY <1>4, <1>7, <1>8, <1>9 DEF Inv64

LEMMA Next32Step ==
  ASSUME Inv32, Next32
  PROVE  /\ Inv32' /\ Misses32 /\ ~(owner.pc \in {"pop", "claimed"})
         /\ WorkStep(Items32, Counts32, pushed, Items32', Counts32', pushed')
<1>1. PICK K, T, B, O, S : DequeAt(K, T, B, O, S)
  BY DEF Inv32, DequeInv
<1>2. Unpacked
  BY DEF Inv32
<1>3. \E T2, B2, O2, S2 : /\ DequeAt(K, T2, B2, O2, S2)' /\ Unpacked' /\ Misses32
                          /\ Shows32(T, B, T2, B2)
  <2>1. CASE OwnerNext32
    BY <1>1, <1>2, <2>1, Owner32Step
  <2>2. CASE \E s \in Thieves : ThiefNext32(s)
    <3>1. PICK s \in Thieves : ThiefNext32(s)
      BY <2>2
    <3>2. StealKeeps(K, T, B, O) \/ StealTakes(K, T, B, O)
      BY <1>1, <1>2, <3>1, Thief32Step
    <3>3. \E T2, S2 : DequeAt(K, T2, B, O, S2)' /\ owner' = owner /\ Shows32(T, B, T2, B)
      BY <1>1, <3>2, StealShows
    <3>4. Misses32 /\ Unpacked'
      BY <1>2, <3>3 DEF Misses32, Unpacked
    <3> QED BY <3>3, <3>4
  <2> QED BY <2>1, <2>2 DEF Next32
<1>4. PICK T2, B2, O2, S2 : /\ DequeAt(K, T2, B2, O2, S2)' /\ Unpacked' /\ Misses32
                            /\ Shows32(T, B, T2, B2)
  BY <1>3
<1>5. Items32 = View(T, B)
  BY <1>1, <1>2, Deque32Is DEF Deque32Seen
<1>6. Items32' = View(T2, B2)'
  BY <1>4, SeenNext DEF Deque32Seen
<1>7. WorkStep(Items32, Counts32, pushed, Items32', Counts32', pushed')
  BY <1>4, <1>5, <1>6 DEF Shows32
<1>8. DequeInv'
  <2>1. /\ T2 \in Int /\ B2 \in Int /\ K \in Int /\ O2 \in Int /\ S2 \in [Thieves -> Int]
    BY <1>4 DEF DequeAt, Bounds
  <2> QED BY <1>4, <2>1 DEF DequeInv
<1>9. ~(owner.pc \in {"pop", "claimed"})
  BY <1>2 DEF Unpacked, Steps32
<1> QED BY <1>4, <1>7, <1>8, <1>9 DEF Inv32

-----------------------------------------------------------------------------
(* The invariant of the inbox.                                             *)

\* The slot of ticket k.
Mark(k) == elements[I!Slot(k)].flags
Datum(k) == elements[I!Slot(k)].data
InboxSteps == {"none", "push", "ticket", "write", "publish", "pull", "claim", "take", "free"}
Holding == {"write", "publish", "take", "free"}
CallType == [pc : InboxSteps, off : Nat, n : Int]

Writes(th, k) == call[th].pc \in {"write", "publish"} /\ call[th].off = k
Reads(th, k) == call[th].pc \in {"take", "free"} /\ call[th].off = k

InboxTypes ==
  /\ write_offset \in 0..MaxItems /\ read_offset \in Nat /\ read_offset <= write_offset
  /\ elements \in [0..(InboxSize - 1) -> [flags : Nat, data : Nat]]
  /\ call \in [Threads -> CallType]
  /\ pulled \in [0..MaxItems -> Nat]

\* What a thread that has a ticket knows of its slot, and that nobody shares it.
Holder(th) ==
  /\ call[th].pc \in {"write", "publish"} =>
       /\ read_offset <= call[th].off /\ call[th].off < write_offset
       /\ Mark(call[th].off) = call[th].off
       /\ \A u \in Threads \ {th} : ~Writes(u, call[th].off)
  /\ call[th].pc = "publish" => Datum(call[th].off) = call[th].off + 1
  /\ call[th].pc \in {"take", "free"} =>
       /\ call[th].off < read_offset
       /\ Mark(call[th].off) = call[th].off + 1
       /\ \A u \in Threads \ {th} : ~Reads(u, call[th].off)
  /\ call[th].pc = "take" => Datum(call[th].off) = call[th].off + 1

\* The others: their offset may be old, and what they saw of the slot holds while it is not.
Looker(c) ==
  /\ c.pc \in {"push", "ticket"} => c.off <= write_offset
  /\ c.pc = "ticket" /\ c.off = write_offset => Mark(write_offset) = write_offset
  /\ c.pc \in {"pull", "claim"} => c.off <= read_offset
  /\ c.pc = "claim" /\ c.off = read_offset =>
       read_offset < write_offset /\ Mark(read_offset) = read_offset + 1

\* Every ticket: given out or not, read or not, its slot's flags say so.
Given(k) == read_offset <= k /\ k < write_offset =>
              (Mark(k) = k + 1 /\ Datum(k) = k + 1) \/ \E th \in Threads : Writes(th, k)
Free(k) == write_offset <= k /\ k < write_offset + InboxSize =>
             \/ Mark(k) = k
             \/ k >= InboxSize /\ \/ read_offset <= k - InboxSize
                                  \/ \E th \in Threads : Reads(th, k - InboxSize)
Past(k) == (k < write_offset => k <= Mark(k)) /\ (k < read_offset => k < Mark(k))

InboxInv ==
  /\ InboxTypes
  /\ \A th \in Threads : Holder(th)
  /\ \A th \in Threads : Looker(call[th])
  /\ \A k \in Nat : Given(k) /\ Free(k) /\ Past(k)

LEMMA InboxSlots ==
  /\ InboxSize \in Nat /\ InboxSize >= 2 /\ MaxItems \in Nat
  /\ \A k \in Nat : /\ I!Slot(k) \in 0..(InboxSize - 1) /\ I!Slot(k) # I!Slot(k + 1)
                    /\ I!Slot(k + InboxSize) = I!Slot(k)
<1>1. InboxSize \in Nat /\ InboxSize >= 2 /\ MaxItems \in Nat
  BY InboxAssumption, WidthAssumption
<1>2. InboxSize \in Nat \ {0}
  BY <1>1
<1>3. ASSUME NEW k \in Nat
      PROVE  /\ I!Slot(k) \in 0..(InboxSize - 1) /\ I!Slot(k) # I!Slot(k + 1)
             /\ I!Slot(k + InboxSize) = I!Slot(k)
  <2>1. k \in Int /\ k + 1 \in Int /\ k + InboxSize \in Int
    BY <1>1
  <2>2. I!Slot(k) \in 0..(InboxSize - 1)
    BY <1>2, <2>1, Division DEF I!Slot
  <2>3. I!Slot(k) # I!Slot(k + 1)
    <3>1. k - (k + 1) < InboxSize /\ (k + 1) - k < InboxSize /\ k # k + 1
      BY <1>1
    <3> QED BY <1>2, <2>1, <3>1, SlotsDiffer DEF I!Slot
  <2>4. I!Slot(k + InboxSize) = I!Slot(k)
    <3>1. PICK q \in Int : k = (InboxSize * q) + (k % InboxSize)
      BY <1>2, <2>1, Division
    <3>2. k % InboxSize \in 0..(InboxSize - 1)
      BY <1>2, <2>1, Division
    <3> DEFINE r == k % InboxSize
               w == InboxSize * q
    <3>3. InboxSize * (q + 1) = w + InboxSize /\ w \in Int
      BY <1>1
    <3>4. k = w + r /\ r \in 0..(InboxSize - 1)
      BY <3>1, <3>2
    <3> HIDE DEF r, w
    <3>5. k + InboxSize = (InboxSize * (q + 1)) + r
      BY <1>1, <3>3, <3>4
    <3>6. q + 1 \in Int
      OBVIOUS
    <3>7. (k + InboxSize) % InboxSize = r
      BY <1>2, <2>1, <3>4, <3>5, <3>6, Remainder
    <3> QED BY <3>7 DEF I!Slot, r
  <2> QED BY <2>2, <2>3, <2>4
<1> QED BY <1>1, <1>3

\* The facts of the invariant about thread th and ticket k.
LEMMA InboxFacts ==
  ASSUME InboxInv
  PROVE  /\ write_offset \in Nat /\ write_offset <= MaxItems /\ read_offset \in Nat
         /\ read_offset <= write_offset
         /\ \A th \in Threads : /\ call[th] \in CallType /\ call[th].off \in Nat
                                /\ Holder(th) /\ Looker(call[th])
         /\ \A k \in Nat : Mark(k) \in Nat /\ Datum(k) \in Nat /\ Given(k) /\ Free(k) /\ Past(k)
<1>1. \A k \in Nat : Mark(k) \in Nat /\ Datum(k) \in Nat
  BY InboxSlots DEF InboxInv, InboxTypes, Mark, Datum
<1>2. /\ write_offset \in Nat /\ write_offset <= MaxItems /\ read_offset \in Nat
      /\ read_offset <= write_offset
  BY InboxSlots DEF InboxInv, InboxTypes
<1>3. \A th \in Threads : call[th] \in CallType /\ call[th].off \in Nat
  BY DEF InboxInv, InboxTypes, CallType
<1> QED BY <1>1, <1>2, <1>3 DEF InboxInv

\* A step of a thread that holds no ticket, before or after it.
LEMMA LookStep ==
  ASSUME InboxInv, NEW th \in Threads, NEW c \in CallType,
         call[th].pc \notin Holding, c.pc \notin Holding, Looker(c),
         call' = [call EXCEPT ![th] = c],
         UNCHANGED <<write_offset, read_offset, elements, pulled>>
  PROVE  InboxInv'
<1>1. call \in [Threads -> CallType]
  BY DEF InboxInv, InboxTypes
<1>2. call' \in [Threads -> CallType] /\ call'[th] = c /\ \A u \in Threads : u # th => call'[u] = call[u]
  BY <1>1
<1>3. \A u \in Threads, k \in Nat : Writes(u, k)' = Writes(u, k) /\ Reads(u, k)' = Reads(u, k)
  BY <1>2 DEF Writes, Reads, Holding
<1>4. \A k : Mark(k)' = Mark(k) /\ Datum(k)' = Datum(k)
  BY DEF Mark, Datum, I!Slot
<1>5. InboxTypes'
  BY <1>2 DEF InboxInv, InboxTypes
<1>6. \A u \in Threads : Holder(u)'
  <2> TAKE u \in Threads
  <2>1. CASE u = th
    BY <1>2, <2>1 DEF Holder, Holding
  <2>2. CASE u # th
    BY <1>2, <1>3, <1>4, <2>2, InboxFacts DEF Holder
  <2> QED BY <2>1, <2>2
<1>7. \A u \in Threads : Looker(call[u])'
  <2> TAKE u \in Threads
  <2>1. CASE u = th
    BY <1>2, <1>4, <2>1 DEF Looker
  <2>2. CASE u # th
    <3>1. Looker(call[u])
      BY InboxFacts
    <3> QED BY <1>2, <1>4, <2>2, <3>1 DEF Looker
  <2> QED BY <2>1, <2>2
<1>8. \A k \in Nat : Given(k)' /\ Free(k)' /\ Past(k)'
  <2> TAKE k \in Nat
  <2>1. Given(k) /\ Free(k) /\ Past(k)
    BY InboxFacts
  <2>2. k >= InboxSize => k - InboxSize \in Nat
    BY InboxSlots
  <2>3. Given(k)'
    BY <1>3, <1>4, <2>1 DEF Given
  <2>4. Free(k)'
    BY <1>3, <1>4, <2>1, <2>2 DEF Free
  <2> QED BY <1>4, <2>1, <2>3, <2>4 DEF Past
<1> QED BY <1>5, <1>6, <1>7, <1>8 DEF InboxInv

-----------------------------------------------------------------------------
(* What the users of the inbox see is what the invariant says.             *)

Tickets == [j \in Int |-> j + 1]
Taking(x) == {t \in Threads : call[t].pc = "take" /\ call[t].off + 1 = x}
Handed == [x \in 1..MaxItems |-> pulled[x] + Cardinality(Taking(x))]
InboxSeen == InboxInv => I!Items = Seg(Tickets, read_offset, write_offset) /\ I!Taken = Handed

LEMMA InboxIs == InboxSeen
<1> SUFFICES ASSUME InboxInv
             PROVE  I!Items = Seg(Tickets, read_offset, write_offset) /\ I!Taken = Handed
  BY DEF InboxSeen
<1>1. write_offset \in Nat /\ read_offset \in Nat
  BY InboxFacts
<1>2. \A k \in 1..(write_offset - read_offset) : Tickets[(read_offset + k) - 1] = read_offset + k
  BY <1>1 DEF Tickets
<1>3. \A t \in Threads : call[t].pc = "take" => elements[I!Slot(call[t].off)].data = call[t].off + 1
  BY InboxFacts DEF Holder, Datum
<1>4. \A x : {t \in Threads : I!At(t, "take") /\ elements[I!Slot(I!Off(t))].data = x} = Taking(x)
  BY <1>3 DEF Taking, I!At, I!Off
<1>5. I!Items = Seg(Tickets, read_offset, write_offset)
  BY <1>2 DEF I!Items, Seg
<1>6. I!Taken = Handed
  <2>1. \A S : I!Cardinality(S) = Cardinality(S)
    BY DEF I!Cardinality, Cardinality
  <2> QED BY <1>4, <2>1, Zenon DEF I!Taken, Handed
<1> QED BY <1>5, <1>6

LEMMA InboxSeenNext == InboxSeen'
BY InboxIs, PTL

\* What a step shows, and the reason for which it may give up.
InboxShows ==
  WorkStep(Seg(Tickets, read_offset, write_offset), Handed, write_offset,
           Seg(Tickets, read_offset', write_offset'), Handed', write_offset')
GivesUp(t) ==
  /\ I!At(t, "pull") /\ call'[t].pc = "none" =>
       I!Empty \/ \E w \in Threads : call[w].pc \in {"write", "publish"} /\ I!Off(w) = read_offset
  /\ I!At(t, "push") /\ call'[t].pc = "none" =>
       \/ write_offset - read_offset = InboxSize
       \/ \E r \in Threads : call[r].pc \in {"take", "free"} /\ I!Off(r) = write_offset - InboxSize

LEMMA CallNext ==
  ASSUME InboxInv, NEW th \in Threads, NEW c, call' = [call EXCEPT ![th] = c]
  PROVE  /\ call'[th] = c /\ \A u \in Threads : u # th => call'[u] = call[u]
         /\ c \in CallType => call' \in [Threads -> CallType]
BY DEF InboxInv, InboxTypes

\* A step of a thread that reads no item, before or after it.
LEMMA HandedSame ==
  ASSUME InboxInv, NEW th \in Threads, NEW c, call' = [call EXCEPT ![th] = c],
         call[th].pc # "take", c.pc # "take", pulled' = pulled
  PROVE  Handed' = Handed
<1>1. \A x : Taking(x)' = Taking(x)
  BY CallNext DEF Taking
<1> QED BY <1>1 DEF Handed

LEMMA LookShows ==
  ASSUME InboxInv, NEW th \in Threads, NEW c, call' = [call EXCEPT ![th] = c],
         call[th].pc # "take", c.pc # "take",
         pulled' = pulled, read_offset' = read_offset, write_offset' = write_offset
  PROVE  InboxShows
BY HandedSame DEF InboxShows, WorkStep, Keeps

\* Threads other than the one that steps do not give up.
LEMMA OthersStay ==
  ASSUME InboxInv, NEW th \in Threads, NEW c, call' = [call EXCEPT ![th] = c],
         NEW u \in Threads, u # th
  PROVE  GivesUp(u)
<1>1. call'[u] = call[u]
  BY CallNext
<1> QED BY <1>1 DEF GivesUp, I!At

\* A look at one slot.
LEMMA LookToWriteStep ==
  ASSUME InboxInv, NEW th \in Threads, I!LookToWrite(th)
  PROVE  InboxInv' /\ InboxShows /\ GivesUp(th)
<1> DEFINE k == call[th].off
           W == write_offset
           R == read_offset
           c == CASE Mark(k) = k -> [call[th] EXCEPT !.pc = "ticket"]
                  [] Mark(k) < k -> I!NoCall
                  [] OTHER -> [call[th] EXCEPT !.off = W]
<1>1. /\ call[th].pc = "push" /\ call' = [call EXCEPT ![th] = c]
      /\ UNCHANGED <<write_offset, read_offset, elements, pulled>>
  BY DEF I!LookToWrite, I!At, I!Goes, I!Flags, I!Off, I!offsets, Mark
<1>2. /\ k \in Nat /\ W \in Nat /\ R \in Nat /\ Mark(k) \in Nat /\ k <= W
      /\ call[th] \in CallType
  <2>1. Looker(call[th])
    BY InboxFacts
  <2> QED BY <1>1, <2>1, InboxFacts DEF Looker
<1>3. c \in CallType /\ c.pc \notin Holding /\ Looker(c)
  <2>1. CASE Mark(k) = k
    <3>1. c = [call[th] EXCEPT !.pc = "ticket"]
      BY <1>2, <2>1
    <3>2. c \in CallType /\ c.pc = "ticket" /\ c.off = k
      BY <1>2, <3>1 DEF CallType, InboxSteps
    <3> HIDE DEF c
    <3> QED BY <1>2, <2>1, <3>2 DEF Holding, Looker
  <2>2. CASE Mark(k) < k
    <3>1. c = I!NoCall
      BY <1>2, <2>2
    <3>2. c \in CallType /\ c.pc = "none"
      BY <3>1 DEF I!NoCall, CallType, InboxSteps
    <3> HIDE DEF c
    <3> QED BY <3>2 DEF Holding, Looker
  <2>3. CASE ~(Mark(k) = k) /\ ~(Mark(k) < k)
    <3>1. c = [call[th] EXCEPT !.off = W]
      BY <2>3
    <3>2. c \in CallType /\ c.pc = "push" /\ c.off = W
      BY <1>1, <1>2, <3>1 DEF CallType, InboxSteps
    <3> HIDE DEF c
    <3> QED BY <1>2, <3>2 DEF Holding, Looker
  <2> QED BY <2>1, <2>2, <2>3
<1>4. c.pc = "none" => Mark(k) < k
  <2>1. CASE Mark(k) = k
    BY <1>2, <2>1 DEF CallType
  <2>2. CASE ~(Mark(k) = k) /\ ~(Mark(k) < k)
    BY <1>1, <1>2, <2>2 DEF CallType
  <2> QED BY <2>1, <2>2
<1> HIDE DEF c
<1>5. InboxInv'
  BY <1>1, <1>3, LookStep DEF Holding
<1>6. InboxShows
  BY <1>1, <1>3, LookShows DEF Holding
<1>7. GivesUp(th)
  <2>1. SUFFICES ASSUME c.pc = "none"
                 PROVE  \/ W - R = InboxSize
                        \/ \E r \in Threads : Reads(r, W - InboxSize)
    BY <1>1, CallNext DEF GivesUp, I!At, I!Off, Reads
  <2>2. Mark(k) < k
    BY <1>4, <2>1
  <2>3. k = W
    BY <1>2, <2>2, InboxFacts DEF Past
  <2>4. Mark(W) < W
    BY <2>2, <2>3
  <2>5. InboxSize \in Nat /\ InboxSize >= 2 /\ R <= W
    BY InboxSlots, InboxFacts
  <2>6. W >= InboxSize /\ (R <= W - InboxSize \/ \E r \in Threads : Reads(r, W - InboxSize))
    <3>1. Free(W)
      BY InboxFacts
    <3> QED BY <1>2, <2>4, <2>5, <3>1 DEF Free
  <2>7. ASSUME R + InboxSize < W
        PROVE  FALSE
    <3>1. Mark(R) = R + 1 \/ Mark(R) = R
      <4>1. Given(R)
        BY <1>2, InboxFacts
      <4>2. \A u \in Threads : Writes(u, R) => Mark(R) = R
        BY InboxFacts DEF Writes, Holder
      <4> QED BY <1>2, <2>5, <2>7, <4>1, <4>2 DEF Given
    <3> DEFINE j == R + InboxSize
    <3>2. j \in Nat /\ R <= j /\ j < W
      BY <1>2, <2>5, <2>7
    <3>3. Mark(j) = j + 1 \/ Mark(j) = j
      <4>1. Given(j)
        BY <3>2, InboxFacts
      <4>2. \A u \in Threads : Writes(u, j) => Mark(j) = j
        BY InboxFacts DEF Writes, Holder
      <4> HIDE DEF j
      <4> QED BY <3>2, <4>1, <4>2 DEF Given
    <3>4. Mark(j) = Mark(R)
      BY <1>2, InboxSlots DEF Mark
    <3> QED BY <1>2, <2>5, <3>1, <3>3, <3>4
  <2> QED BY <1>2, <2>5, <2>6, <2>7
<1> QED BY <1>5, <1>6, <1>7

LEMMA LookToReadStep ==
  ASSUME InboxInv, NEW th \in Threads, I!LookToRead(th)
  PROVE  InboxInv' /\ InboxShows /\ GivesUp(th)
<1> DEFINE k == call[th].off
           W == write_offset
           R == read_offset
           c == CASE Mark(k) = k + 1 -> [call[th] EXCEPT !.pc = "claim"]
                  [] Mark(k) <= k /\ ~(Mark(k) = k + 1) -> I!NoCall
                  [] OTHER -> [call[th] EXCEPT !.off = R]
<1>1. /\ call[th].pc = "pull" /\ call' = [call EXCEPT ![th] = c]
      /\ UNCHANGED <<write_offset, read_offset, elements, pulled>>
  BY DEF I!LookToRead, I!Ready, I!At, I!Goes, I!Flags, I!Off, I!offsets, Mark
<1>2. /\ k \in Nat /\ W \in Nat /\ R \in Nat /\ Mark(k) \in Nat /\ k <= R /\ R <= W
      /\ call[th] \in CallType
  <2>1. Looker(call[th])
    BY InboxFacts
  <2> QED BY <1>1, <2>1, InboxFacts DEF Looker
<1>s. InboxSize \in Nat /\ InboxSize >= 2
  BY InboxSlots
<1>3. c \in CallType /\ c.pc \notin Holding /\ Looker(c)
  <2>1. CASE Mark(k) = k + 1
    <3>1. c = [call[th] EXCEPT !.pc = "claim"]
      BY <2>1
    <3>2. c \in CallType /\ c.pc = "claim" /\ c.off = k
      BY <1>2, <3>1 DEF CallType, InboxSteps
    <3> HIDE DEF c
    <3>3. ASSUME k = R, R = W
          PROVE  FALSE
      <4>1. Mark(W) = W + 1 /\ Free(W)
        BY <1>2, <2>1, <3>3, InboxFacts
      <4>2. W >= InboxSize /\ \E u \in Threads : Reads(u, W - InboxSize)
        BY <1>2, <1>s, <3>3, <4>1 DEF Free
      <4>3. PICK j \in Nat : W = j + InboxSize /\ j = W - InboxSize
        BY <1>2, <1>s, <4>2
      <4>4. PICK u \in Threads : Reads(u, j)
        BY <4>2, <4>3
      <4>5. Mark(j) = j + 1
        BY <4>4, InboxFacts DEF Reads, Holder
      <4>6. Mark(W) = Mark(j)
        BY <4>3, InboxSlots DEF Mark
      <4> QED BY <1>2, <1>s, <4>1, <4>3, <4>5, <4>6
    <3>4. k = R => R < W
      BY <1>2, <3>3
    <3> QED BY <1>2, <2>1, <3>2, <3>4 DEF Holding, Looker
  <2>2. CASE Mark(k) <= k
    <3>1. c = I!NoCall
      BY <1>2, <2>2
    <3>2. c \in CallType /\ c.pc = "none"
      BY <3>1 DEF I!NoCall, CallType, InboxSteps
    <3> HIDE DEF c
    <3> QED BY <3>2 DEF Holding, Looker
  <2>3. CASE ~(Mark(k) = k + 1) /\ ~(Mark(k) <= k)
    <3>1. c = [call[th] EXCEPT !.off = R]
      BY <2>3
    <3>2. c \in CallType /\ c.pc = "pull" /\ c.off = R
      BY <1>1, <1>2, <3>1 DEF CallType, InboxSteps
    <3> HIDE DEF c
    <3> QED BY <1>2, <3>2 DEF Holding, Looker
  <2> QED BY <2>1, <2>2, <2>3
<1>4. c.pc = "none" => Mark(k) <= k
  <2>1. CASE Mark(k) = k + 1
    BY <1>2, <2>1 DEF CallType
  <2>2. CASE ~(Mark(k) = k + 1) /\ ~(Mark(k) <= k)
    BY <1>1, <1>2, <2>2 DEF CallType
  <2> QED BY <2>1, <2>2
<1> HIDE DEF c
<1>5. InboxInv'
  BY <1>1, <1>3, LookStep DEF Holding
<1>6. InboxShows
  BY <1>1, <1>3, LookShows DEF Holding
<1>7. GivesUp(th)
  <2>1. SUFFICES ASSUME c.pc = "none"
                 PROVE  W = R \/ \E w \in Threads : Writes(w, R)
    BY <1>1, CallNext DEF GivesUp, I!At, I!Off, I!Empty, Writes
  <2>2. Mark(k) <= k
    BY <1>4, <2>1
  <2>3. k = R
    <3>1. Past(k)
      BY <1>2, InboxFacts
    <3> QED BY <1>2, <2>2, <3>1 DEF Past
  <2>4. Given(R)
    BY <1>2, InboxFacts
  <2> QED BY <1>2, <2>2, <2>3, <2>4 DEF Given
<1> QED BY <1>5, <1>6, <1>7

-----------------------------------------------------------------------------
(* The steps of a push.                                                    *)

\* A step of the inbox, for the proofs that follow.
InboxOk(th) == InboxInv' /\ InboxShows /\ GivesUp(th)

LEMMA TryPushStep ==
  ASSUME InboxInv, NEW th \in Threads, I!TryPush(th)
  PROVE  InboxOk(th)
<1>1. PICK n \in 1..MaxBulk : call' = [call EXCEPT ![th] = [pc |-> "push", off |-> write_offset, n |-> n]]
  BY DEF I!TryPush, I!Goes
<1>2. call[th].pc = "none" /\ UNCHANGED <<write_offset, read_offset, elements, pulled>>
  BY DEF I!TryPush, I!At, I!offsets
<1> DEFINE c == [pc |-> "push", off |-> write_offset, n |-> n]
<1>3. c \in CallType /\ c.pc = "push" /\ c.off = write_offset /\ write_offset \in Nat
  BY InboxFacts DEF CallType, InboxSteps
<1>4. call' = [call EXCEPT ![th] = c]
  BY <1>1
<1> HIDE DEF c
<1>5. Looker(c)
  BY <1>3 DEF Looker
<1>6. InboxInv'
  BY <1>2, <1>3, <1>4, <1>5, LookStep DEF Holding
<1>7. InboxShows
  BY <1>2, <1>3, <1>4, LookShows
<1> QED BY <1>2, <1>6, <1>7 DEF InboxOk, GivesUp, I!At

LEMMA TicketFails ==
  ASSUME InboxInv, NEW th \in Threads, I!TakeTicket(th), write_offset # call[th].off
  PROVE  InboxOk(th)
<1> DEFINE c == [call[th] EXCEPT !.pc = "push", !.off = write_offset]
<1>1. /\ call[th].pc = "ticket" /\ call' = [call EXCEPT ![th] = c]
      /\ UNCHANGED <<write_offset, read_offset, elements, pulled>>
  BY DEF I!TakeTicket, I!At, I!Goes, I!Off
<1>2. c \in CallType /\ c.pc = "push" /\ c.off = write_offset /\ write_offset \in Nat
  BY InboxFacts DEF CallType, InboxSteps
<1> HIDE DEF c
<1>3. Looker(c)
  BY <1>2 DEF Looker
<1>4. InboxInv'
  BY <1>1, <1>2, <1>3, LookStep DEF Holding
<1>5. InboxShows
  BY <1>1, <1>2, LookShows
<1> QED BY <1>1, <1>4, <1>5 DEF InboxOk, GivesUp, I!At

\* The sequence of the tickets, with one more or one less.
LEMMA OneMoreTicket ==
  ASSUME NEW R \in Int, NEW W \in Int, R <= W
  PROVE  Seg(Tickets, R, W + 1) = Seg(Tickets, R, W) \o Following(W, 1)
<1>1. ASSUME NEW n \in Nat
      PROVE  Seg(Tickets, R, W + n) = Seg(Tickets, R, W) \o Following(W, n)
  <2>1. ProlongedAt(Tickets, R, W, W + n, W, n)
    BY DEF ProlongedAt, FollowAt, Tickets
  <2>2. Seg(Tickets, R, W + n) = Prolonged(Tickets, R, W, W, n)
    BY <2>1, SegMore, Zenon
  <2> QED BY <2>2 DEF Prolonged
<1> QED BY <1>1

LEMMA FirstTicket ==
  ASSUME NEW R \in Int, NEW W \in Int, R < W
  PROVE  /\ Seg(Tickets, R, W) # <<>> /\ Head(Seg(Tickets, R, W)) = R + 1
         /\ Tail(Seg(Tickets, R, W)) = Seg(Tickets, R + 1, W)
<1>1. Tickets \in [Int -> Int] /\ Tickets[R] = R + 1
  BY DEF Tickets
<1>2. /\ Seg(Tickets, R, W) # <<>> /\ Head(Seg(Tickets, R, W)) = Tickets[R]
      /\ Tail(Seg(Tickets, R, W)) = Seg(Tickets, R + 1, W)
  BY <1>1, SegEnds
<1> QED BY <1>1, <1>2

LEMMA TicketStep ==
  ASSUME InboxInv, NEW th \in Threads, I!TakeTicket(th), write_offset = call[th].off
  PROVE  InboxOk(th)
<1>w. PICK W, R : W = write_offset /\ R = read_offset
  OBVIOUS
<1> USE <1>w
<1> DEFINE c == [call[th] EXCEPT !.pc = "write"]
<1>1. /\ call[th].pc = "ticket" /\ call' = [call EXCEPT ![th] = c] /\ W < MaxItems
      /\ write_offset' = W + 1
      /\ UNCHANGED <<read_offset, elements, pulled>>
  BY DEF I!TakeTicket, I!At, I!Goes, I!Off
<1>2. W \in Nat /\ R \in Nat /\ R <= W /\ MaxItems \in Nat /\ InboxSize \in Nat /\ InboxSize >= 2
  BY InboxFacts, InboxSlots
<1>3. c \in CallType /\ c.pc = "write" /\ c.off = W
  BY InboxFacts DEF CallType, InboxSteps
<1> HIDE DEF c
<1>4. Mark(W) = W
  <2>1. Looker(call[th])
    BY InboxFacts
  <2> QED BY <1>1, <2>1 DEF Looker
<1>5. call'[th] = c /\ (\A u \in Threads : u # th => call'[u] = call[u]) /\ call' \in [Threads -> CallType]
  BY <1>1, <1>3, CallNext
<1>6. \A k : Mark(k)' = Mark(k) /\ Datum(k)' = Datum(k)
  BY <1>1 DEF Mark, Datum, I!Slot
<1>7. \A u \in Threads, k \in Nat : /\ Reads(u, k)' = Reads(u, k)
                                    /\ Writes(u, k)' = (Writes(u, k) \/ (u = th /\ k = W))
  BY <1>1, <1>3, <1>5 DEF Reads, Writes
<1>8. \A u \in Threads : Writes(u, W) => FALSE
  BY <1>2, InboxFacts DEF Writes, Holder
<1>9. InboxTypes'
  <2>1. InboxTypes
    BY DEF InboxInv
  <2>2. write_offset' \in 0..MaxItems /\ R <= W + 1
    BY <1>1, <1>2
  <2> QED BY <1>1, <1>5, <2>1, <2>2 DEF InboxTypes
<1>10. \A u \in Threads : Holder(u)'
  <2> TAKE u \in Threads
  <2>1. CASE u = th
    <3>1. call'[th].pc = "write" /\ call'[th].off = W
      BY <1>3, <1>5
    <3>2. \A v \in Threads \ {th} : ~Writes(v, W)'
      BY <1>2, <1>7, <1>8
    <3> QED BY <1>1, <1>2, <1>4, <1>6, <2>1, <3>1, <3>2 DEF Holder, Writes
  <2>2. CASE u # th
    <3>1. call'[u] = call[u] /\ Holder(u) /\ call[u].off \in Nat
      BY <1>5, <2>2, InboxFacts
    <3>2. CASE call[u].pc \in {"write", "publish"}
      <4> PICK k \in Nat : k = call[u].off
        BY <3>1
      <4>1. R <= k /\ k < W /\ Mark(k) = k /\ \A v \in Threads \ {u} : ~Writes(v, k)
        BY <3>1, <3>2 DEF Holder
      <4>2. \A v \in Threads \ {u} : ~Writes(v, k)'
        <5>1. k # W
          BY <1>2, <4>1
        <5> QED BY <1>7, <4>1, <5>1, Zenon
      <4>3. k < W + 1
        BY <1>2, <4>1
      <4>4. call[u].pc = "publish" => Datum(k) = k + 1
        BY <3>1 DEF Holder
      <4>5. call'[u].off = k /\ call'[u].pc \notin {"take", "free"}
        BY <3>1, <3>2
      <4> QED BY <1>1, <1>6, <3>1, <4>1, <4>2, <4>3, <4>4, <4>5 DEF Holder, Writes
    <3>3. CASE call[u].pc \notin {"write", "publish"}
      BY <1>1, <1>6, <1>7, <3>1, <3>3 DEF Holder
    <3> QED BY <3>2, <3>3
  <2> QED BY <2>1, <2>2
<1>11. \A u \in Threads : Looker(call[u])'
  <2> TAKE u \in Threads
  <2>1. CASE u = th
    BY <1>3, <1>5, <2>1 DEF Looker
  <2>2. CASE u # th
    <3>1. call'[u] = call[u] /\ Looker(call[u]) /\ call[u].off \in Nat
      BY <1>5, <2>2, InboxFacts
    <3>2. call[u].pc \in {"push", "ticket"} => call[u].off <= W + 1 /\ call[u].off # W + 1
      BY <1>2, <3>1 DEF Looker
    <3>3. R < W => R < W + 1
      BY <1>2
    <3> QED BY <1>1, <1>6, <3>1, <3>2, <3>3 DEF Looker
  <2> QED BY <2>1, <2>2
<1>12. \A k \in Nat : Given(k)' /\ Free(k)' /\ Past(k)'
  <2> TAKE k \in Nat
  <2>1. Given(k) /\ Free(k) /\ Past(k) /\ Mark(k) \in Nat
    BY InboxFacts
  <2>2. k >= InboxSize => k - InboxSize \in Nat
    BY <1>2
  <2>3. Given(k)'
    <3>1. CASE k < W
      BY <1>1, <1>2, <1>6, <1>7, <2>1, <3>1 DEF Given
    <3>2. CASE k = W
      <4>1. Writes(th, k)'
        BY <1>7, <3>2
      <4> QED BY <4>1 DEF Given
    <3>3. CASE k > W
      BY <1>1, <1>2, <3>3 DEF Given
    <3> QED BY <1>2, <3>1, <3>2, <3>3
  <2>4. Free(k)'
    <3>1. CASE k < W + InboxSize
      <4>1. W + 1 <= k => W <= k /\ k < W + InboxSize
        BY <1>2, <3>1
      <4> QED BY <1>1, <1>6, <1>7, <2>1, <2>2, <4>1 DEF Free
    <3>2. CASE k = W + InboxSize
      <4>1. k >= InboxSize /\ R <= k - InboxSize
        BY <1>2, <3>2
      <4> QED BY <1>1, <4>1 DEF Free
    <3>3. CASE k > W + InboxSize
      BY <1>1, <1>2, <3>3 DEF Free
    <3> QED BY <1>2, <3>1, <3>2, <3>3
  <2>5. Past(k)'
    BY <1>1, <1>2, <1>4, <1>6, <2>1 DEF Past
  <2> QED BY <2>3, <2>4, <2>5
<1>13. InboxInv'
  BY <1>9, <1>10, <1>11, <1>12 DEF InboxInv
<1>14. InboxShows
  <2>1. Handed' = Handed
    BY <1>1, <1>3, HandedSame
  <2>2. Seg(Tickets, R, W + 1) = Seg(Tickets, R, W) \o Following(W, 1)
    <3>1. W \in Int /\ R \in Int /\ R <= W
      BY <1>2
    <3> QED BY <3>1, OneMoreTicket
  <2>3. 1 \in 1..(MaxItems - W)
    BY <1>1, <1>2
  <2>4. Pushes(Seg(Tickets, R, W), Handed, W, Seg(Tickets, R, W + 1), Handed', W + 1)
    BY <2>1, <2>2, <2>3 DEF Pushes, Following
  <2> QED BY <1>1, <2>4 DEF InboxShows, WorkStep
<1> QED BY <1>1, <1>13, <1>14 DEF InboxOk, GivesUp, I!At

\* Writing to a slot: what the others see.
LEMMA SlotNext ==
  ASSUME InboxInv, NEW j \in Nat, NEW v \in Nat
  PROVE  /\ elements' = [elements EXCEPT ![I!Slot(j)].flags = v] =>
              /\ elements' \in [0..(InboxSize - 1) -> [flags : Nat, data : Nat]]
              /\ \A k \in Nat : /\ Datum(k)' = Datum(k)
                                /\ Mark(k)' = IF I!Slot(k) = I!Slot(j) THEN v ELSE Mark(k)
         /\ elements' = [elements EXCEPT ![I!Slot(j)].data = v] =>
              /\ elements' \in [0..(InboxSize - 1) -> [flags : Nat, data : Nat]]
              /\ \A k \in Nat : /\ Mark(k)' = Mark(k)
                                /\ Datum(k)' = IF I!Slot(k) = I!Slot(j) THEN v ELSE Datum(k)
<1>1. elements \in [0..(InboxSize - 1) -> [flags : Nat, data : Nat]]
  BY DEF InboxInv, InboxTypes
<1>2. \A k \in Nat : I!Slot(k) \in 0..(InboxSize - 1) /\ I!Slot(k)' = I!Slot(k)
  BY InboxSlots DEF I!Slot
<1>3. ASSUME elements' = [elements EXCEPT ![I!Slot(j)].flags = v]
      PROVE  /\ elements' \in [0..(InboxSize - 1) -> [flags : Nat, data : Nat]]
             /\ \A k \in Nat : /\ Datum(k)' = Datum(k)
                               /\ Mark(k)' = IF I!Slot(k) = I!Slot(j) THEN v ELSE Mark(k)
  BY <1>1, <1>2, <1>3 DEF Mark, Datum
<1>4. ASSUME elements' = [elements EXCEPT ![I!Slot(j)].data = v]
      PROVE  /\ elements' \in [0..(InboxSize - 1) -> [flags : Nat, data : Nat]]
             /\ \A k \in Nat : /\ Mark(k)' = Mark(k)
                               /\ Datum(k)' = IF I!Slot(k) = I!Slot(j) THEN v ELSE Datum(k)
  BY <1>1, <1>2, <1>4 DEF Mark, Datum
<1> QED BY <1>3, <1>4

\* Tickets of one slot have its flags.
LEMMA SlotShared ==
  ASSUME InboxInv, NEW j \in Nat, NEW k \in Nat, I!Slot(k) = I!Slot(j)
  PROVE  Mark(k) = Mark(j) /\ k # j + 1 /\ j # k + 1
BY InboxSlots DEF Mark

\* What the holder of a ticket knows of the slot, by what it is about to do.
LEMMA HolderKnows ==
  ASSUME InboxInv, NEW u \in Threads, NEW k \in Nat
  PROVE  /\ Writes(u, k) => /\ read_offset <= k /\ k < write_offset /\ Mark(k) = k
                            /\ \A v \in Threads \ {u} : ~Writes(v, k)
         /\ Reads(u, k) => /\ k < read_offset /\ Mark(k) = k + 1
                           /\ \A v \in Threads \ {u} : ~Reads(v, k)
BY InboxFacts DEF Writes, Reads, Holder

LEMMA WriteSlotStep ==
  ASSUME InboxInv, NEW th \in Threads, I!Write(th)
  PROVE  InboxOk(th)
<1>k. PICK k \in Nat : k = call[th].off
  BY InboxFacts
<1> DEFINE c == [call[th] EXCEPT !.pc = "publish"]
<1>1. /\ call[th].pc = "write" /\ call' = [call EXCEPT ![th] = c]
      /\ elements' = [elements EXCEPT ![I!Slot(k)].data = k + 1]
      /\ UNCHANGED <<write_offset, read_offset, pulled>>
  BY <1>k DEF I!Write, I!At, I!Goes, I!Off, I!offsets
<1>2. c \in CallType /\ c.pc = "publish" /\ c.off = k
  BY <1>k, InboxFacts DEF CallType, InboxSteps
<1> HIDE DEF c
<1>3. call'[th] = c /\ (\A u \in Threads : u # th => call'[u] = call[u]) /\ call' \in [Threads -> CallType]
  BY <1>1, <1>2, CallNext
<1>4. /\ elements' \in [0..(InboxSize - 1) -> [flags : Nat, data : Nat]]
      /\ \A j \in Nat : /\ Mark(j)' = Mark(j)
                        /\ Datum(j)' = IF I!Slot(j) = I!Slot(k) THEN k + 1 ELSE Datum(j)
  <2>1. k + 1 \in Nat
    OBVIOUS
  <2> QED BY <1>1, <2>1, SlotNext
<1>5. \A u \in Threads, j \in Nat : Writes(u, j)' = Writes(u, j) /\ Reads(u, j)' = Reads(u, j)
  BY <1>k, <1>1, <1>2, <1>3 DEF Writes, Reads
<1>6. Writes(th, k) /\ Mark(k) = k
  BY <1>k, <1>1, HolderKnows DEF Writes
<1>7. \A j \in Nat : Mark(j) = j + 1 => Datum(j)' = Datum(j)
  <2> TAKE j \in Nat
  <2>1. I!Slot(j) = I!Slot(k) => Mark(j) = k /\ k # j + 1
    BY <1>6, SlotShared
  <2> QED BY <1>4, <2>1
<1>8. InboxTypes'
  BY <1>1, <1>3, <1>4 DEF InboxInv, InboxTypes
<1>9. \A u \in Threads : Holder(u)'
  <2> TAKE u \in Threads
  <2>1. PICK j \in Nat : j = call[u].off
    BY InboxFacts
  <2>2. Holder(u)
    BY InboxFacts
  <2>3. call'[u].off = j
    BY <1>k, <1>2, <1>3, <2>1
  <2>4. CASE u = th
    <3>1. call'[u].pc = "publish" /\ call'[u].off = k /\ call[u].off = k
      BY <1>k, <1>2, <1>3, <2>4
    <3>2. Datum(k)' = k + 1 /\ Mark(k)' = k
      BY <1>4, <1>6
    <3>3. \A v \in Threads \ {u} : ~Writes(v, k)'
      BY <1>5, <1>6, <2>4, HolderKnows
    <3>4. read_offset' <= k /\ k < write_offset'
      BY <1>1, <1>6, HolderKnows
    <3> QED BY <3>1, <3>2, <3>3, <3>4 DEF Holder, Writes
  <2>5. CASE u # th
    <3>1. call'[u] = call[u]
      BY <1>3, <2>5
    <3>2. CASE call[u].pc \in {"write", "publish"}
      <4>1. Writes(u, j) /\ Mark(j) = j /\ \A v \in Threads \ {u} : ~Writes(v, j)
        BY <2>1, <3>2, HolderKnows DEF Writes
      <4>2. I!Slot(j) # I!Slot(k)
        <5>1. j # k
          BY <1>6, <2>5, <4>1
        <5> QED BY <1>6, <4>1, <5>1, SlotShared
      <4>3. Mark(j)' = j /\ Datum(j)' = Datum(j)
        BY <1>4, <4>1, <4>2
      <4>4. \A v \in Threads \ {u} : ~Writes(v, j)'
        BY <1>5, <4>1
      <4>5. read_offset' <= j /\ j < write_offset' /\ (call[u].pc = "publish" => Datum(j) = j + 1)
        BY <1>1, <2>1, <2>2, <3>2 DEF Holder
      <4> QED BY <2>1, <2>3, <3>1, <3>2, <4>3, <4>4, <4>5 DEF Holder, Writes
    <3>3. CASE call[u].pc \in {"take", "free"}
      <4>1. Reads(u, j) /\ Mark(j) = j + 1 /\ \A v \in Threads \ {u} : ~Reads(v, j)
        BY <2>1, <3>3, HolderKnows DEF Reads
      <4>2. Mark(j)' = j + 1 /\ Datum(j)' = Datum(j)
        BY <1>4, <1>7, <4>1
      <4>3. \A v \in Threads \ {u} : ~Reads(v, j)'
        BY <1>5, <4>1
      <4>4. j < read_offset' /\ (call[u].pc = "take" => Datum(j) = j + 1)
        BY <1>1, <2>1, <2>2, <3>3 DEF Holder
      <4> QED BY <2>1, <2>3, <3>1, <3>3, <4>2, <4>3, <4>4 DEF Holder, Reads
    <3>4. CASE call[u].pc \notin {"write", "publish", "take", "free"}
      BY <3>1, <3>4 DEF Holder
    <3> QED BY <3>2, <3>3, <3>4
  <2> QED BY <2>4, <2>5
<1>10. \A u \in Threads : Looker(call[u])'
  <2> TAKE u \in Threads
  <2>1. CASE u = th
    BY <1>2, <1>3, <2>1 DEF Looker
  <2>2. CASE u # th
    <3>1. call'[u] = call[u] /\ Looker(call[u])
      BY <1>3, <2>2, InboxFacts
    <3>2. Mark(write_offset)' = Mark(write_offset) /\ Mark(read_offset)' = Mark(read_offset)
      <4> PICK w, r : w = write_offset /\ r = read_offset
        OBVIOUS
      <4>1. Mark(w)' = Mark(w) /\ Mark(r)' = Mark(r)
        BY <1>4, InboxFacts
      <4> QED BY <1>1, <4>1 DEF Mark
    <3> QED BY <1>1, <3>1, <3>2 DEF Looker
  <2> QED BY <2>1, <2>2
<1>11. \A j \in Nat : Given(j)' /\ Free(j)' /\ Past(j)'
  <2> TAKE j \in Nat
  <2>1. Given(j) /\ Free(j) /\ Past(j)
    BY InboxFacts
  <2>2. j >= InboxSize => j - InboxSize \in Nat
    BY InboxSlots
  <2>3. Mark(j)' = Mark(j) /\ (Mark(j) = j + 1 => Datum(j)' = Datum(j))
    BY <1>4, <1>7
  <2>4. Given(j)'
    BY <1>1, <1>5, <2>1, <2>3 DEF Given
  <2>5. Free(j)'
    BY <1>1, <1>5, <2>1, <2>2, <2>3 DEF Free
  <2>6. Past(j)'
    BY <1>1, <2>1, <2>3 DEF Past
  <2> QED BY <2>4, <2>5, <2>6
<1>12. InboxInv'
  BY <1>8, <1>9, <1>10, <1>11 DEF InboxInv
<1>13. InboxShows
  BY <1>1, <1>2, LookShows
<1> QED BY <1>1, <1>12, <1>13 DEF InboxOk, GivesUp, I!At

LEMMA PublishSlotStep ==
  ASSUME InboxInv, NEW th \in Threads, I!Publish(th)
  PROVE  InboxOk(th)
<1>k. PICK k \in Nat : k = call[th].off
  BY InboxFacts
<1> DEFINE c == IF call[th].n = 1 THEN I!NoCall
                ELSE [pc |-> "push", off |-> k + 1, n |-> call[th].n - 1]
<1>1. /\ call[th].pc = "publish" /\ call' = [call EXCEPT ![th] = c]
      /\ elements' = [elements EXCEPT ![I!Slot(k)].flags = k + 1]
      /\ UNCHANGED <<write_offset, read_offset, pulled>>
  BY <1>k DEF I!Publish, I!At, I!Goes, I!Off, I!offsets
<1>2. c \in CallType /\ (c.pc = "none" \/ (c.pc = "push" /\ c.off = k + 1))
  <2>1. CASE call[th].n = 1
    BY <2>1 DEF CallType, InboxSteps, I!NoCall
  <2>2. CASE call[th].n # 1
    <3>1. call[th].n - 1 \in Int
      BY InboxFacts DEF CallType
    <3>2. c = [pc |-> "push", off |-> k + 1, n |-> call[th].n - 1]
      BY <2>2
    <3> HIDE DEF c
    <3> QED BY <3>1, <3>2 DEF CallType, InboxSteps
  <2> QED BY <2>1, <2>2
<1> HIDE DEF c
<1>3. call'[th] = c /\ (\A u \in Threads : u # th => call'[u] = call[u]) /\ call' \in [Threads -> CallType]
  BY <1>1, <1>2, CallNext
<1>4. /\ elements' \in [0..(InboxSize - 1) -> [flags : Nat, data : Nat]]
      /\ \A j \in Nat : /\ Datum(j)' = Datum(j)
                        /\ Mark(j)' = IF I!Slot(j) = I!Slot(k) THEN k + 1 ELSE Mark(j)
  <2>1. k + 1 \in Nat
    OBVIOUS
  <2> QED BY <1>1, <2>1, SlotNext
<1>5. \A u \in Threads, j \in Nat : /\ Writes(u, j)' = (Writes(u, j) /\ u # th)
                                    /\ Reads(u, j)' = Reads(u, j)
  BY <1>1, <1>2, <1>3 DEF Writes, Reads
<1>6. /\ Writes(th, k) /\ Mark(k) = k /\ Datum(k) = k + 1 /\ read_offset <= k /\ k < write_offset
      /\ \A u \in Threads \ {th} : ~Writes(u, k)
  BY <1>k, <1>1, InboxFacts DEF Writes, Holder
<1>n. write_offset \in Nat /\ read_offset \in Nat /\ read_offset <= write_offset
  BY InboxFacts
<1>7. \A j \in Nat : Mark(j)' = Mark(j) \/ (Mark(j) = k /\ Mark(j)' = k + 1 /\ k # j + 1)
  <2> TAKE j \in Nat
  <2>1. I!Slot(j) = I!Slot(k) => Mark(j) = k /\ k # j + 1
    BY <1>6, SlotShared
  <2> QED BY <1>4, <2>1
<1>8. InboxTypes'
  BY <1>1, <1>3, <1>4 DEF InboxInv, InboxTypes
<1>9. \A u \in Threads : Holder(u)'
  <2> TAKE u \in Threads
  <2>1. CASE u = th
    BY <1>2, <1>3, <2>1 DEF Holder
  <2>2. CASE u # th
    <3>1. call'[u] = call[u] /\ Holder(u)
      BY <1>3, <2>2, InboxFacts
    <3>2. PICK j \in Nat : j = call[u].off
      BY InboxFacts
    <3>3. CASE call[u].pc \in {"write", "publish"}
      <4>1. Writes(u, j) /\ Mark(j) = j /\ \A v \in Threads \ {u} : ~Writes(v, j)
        BY <3>2, <3>3, HolderKnows DEF Writes
      <4>2. j # k
        BY <1>6, <2>2, <4>1
      <4>3. Mark(j)' = j /\ Datum(j)' = Datum(j)
        BY <1>4, <1>7, <4>1, <4>2
      <4>4. \A v \in Threads \ {u} : ~Writes(v, j)'
        BY <1>5, <4>1
      <4>5. read_offset' <= j /\ j < write_offset' /\ (call[u].pc = "publish" => Datum(j) = j + 1)
        BY <1>1, <3>1, <3>2, <3>3 DEF Holder
      <4> QED BY <3>1, <3>2, <3>3, <4>3, <4>4, <4>5 DEF Holder, Writes
    <3>4. CASE call[u].pc \in {"take", "free"}
      <4>1. Reads(u, j) /\ Mark(j) = j + 1 /\ \A v \in Threads \ {u} : ~Reads(v, j)
        BY <3>2, <3>4, HolderKnows DEF Reads
      <4>2. Mark(j)' = j + 1 /\ Datum(j)' = Datum(j)
        BY <1>4, <1>7, <4>1
      <4>3. \A v \in Threads \ {u} : ~Reads(v, j)'
        BY <1>5, <4>1
      <4>4. j < read_offset' /\ (call[u].pc = "take" => Datum(j) = j + 1)
        BY <1>1, <3>1, <3>2, <3>4 DEF Holder
      <4> QED BY <3>1, <3>2, <3>4, <4>2, <4>3, <4>4 DEF Holder, Reads
    <3>5. CASE call[u].pc \notin {"write", "publish", "take", "free"}
      BY <3>1, <3>5 DEF Holder
    <3> QED BY <3>3, <3>4, <3>5
  <2> QED BY <2>1, <2>2
<1>10. \A u \in Threads : Looker(call[u])'
  <2> PICK w, r : w = write_offset /\ r = read_offset
    OBVIOUS
  <2>1. write_offset' = w /\ read_offset' = r /\ w \in Nat /\ r \in Nat /\ k < w /\ r <= k
    BY <1>1, <1>n, <1>6
  <2>2. Mark(w) = w => Mark(w)' = w
    BY <1>7, <2>1
  <2>3. Mark(r) = r + 1 => Mark(r)' = r + 1
    BY <1>7, <2>1
  <2> TAKE u \in Threads
  <2>4. CASE u = th
    <3>1. call'[u] = c /\ k + 1 <= w
      BY <1>3, <2>1, <2>4
    <3> QED BY <1>2, <2>1, <3>1 DEF Looker
  <2>5. CASE u # th
    <3>1. call'[u] = call[u] /\ Looker(call[u])
      BY <1>3, <2>5, InboxFacts
    <3>2. Mark(write_offset)' = Mark(w)' /\ Mark(read_offset)' = Mark(r)'
      BY <2>1 DEF Mark
    <3> QED BY <2>1, <2>2, <2>3, <3>1, <3>2 DEF Looker
  <2> QED BY <2>4, <2>5
<1>11. \A j \in Nat : Given(j)' /\ Free(j)' /\ Past(j)'
  <2> TAKE j \in Nat
  <2>1. Given(j) /\ Free(j) /\ Past(j) /\ Mark(j) \in Nat
    BY InboxFacts
  <2>2. j >= InboxSize => j - InboxSize \in Nat
    BY InboxSlots
  <2>3. Given(j)'
    <3>1. CASE j = k
      BY <1>4, <1>6, <3>1 DEF Given
    <3>2. CASE j # k
      <4>1. \A u \in Threads : Writes(u, j) => Writes(u, j)'
        BY <1>k, <1>5, <3>2 DEF Writes
      <4>2. Mark(j) = j + 1 => Mark(j)' = j + 1
        BY <1>7
      <4> QED BY <1>1, <1>4, <2>1, <4>1, <4>2 DEF Given
    <3> QED BY <3>1, <3>2
  <2>4. Free(j)'
    <3>1. write_offset <= j /\ Mark(j) = j => Mark(j)' = j
      BY <1>n, <1>6, <1>7
    <3> QED BY <1>1, <1>5, <2>1, <2>2, <3>1 DEF Free
  <2>5. Past(j)'
    BY <1>1, <1>7, <2>1 DEF Past
  <2> QED BY <2>3, <2>4, <2>5
<1>12. InboxInv'
  BY <1>8, <1>9, <1>10, <1>11 DEF InboxInv
<1>13. InboxShows
  BY <1>1, <1>2, LookShows
<1> QED BY <1>1, <1>12, <1>13 DEF InboxOk, GivesUp, I!At

-----------------------------------------------------------------------------
(* The steps of a pull.                                                    *)

LEMMA TryPullStep ==
  ASSUME InboxInv, NEW th \in Threads, I!TryPull(th)
  PROVE  InboxOk(th)
<1> DEFINE c == [pc |-> "pull", off |-> read_offset, n |-> 0]
<1>1. /\ call[th].pc = "none" /\ call' = [call EXCEPT ![th] = c]
      /\ UNCHANGED <<write_offset, read_offset, elements, pulled>>
  BY DEF I!TryPull, I!At, I!Goes, I!offsets
<1>2. c \in CallType /\ c.pc = "pull" /\ c.off = read_offset /\ read_offset \in Nat
  BY InboxFacts DEF CallType, InboxSteps
<1> HIDE DEF c
<1>3. Looker(c)
  BY <1>2 DEF Looker
<1>4. InboxInv'
  BY <1>1, <1>2, <1>3, LookStep DEF Holding
<1>5. InboxShows
  BY <1>1, <1>2, LookShows
<1> QED BY <1>1, <1>4, <1>5 DEF InboxOk, GivesUp, I!At

LEMMA ClaimFails ==
  ASSUME InboxInv, NEW th \in Threads, I!Claim(th), read_offset # call[th].off
  PROVE  InboxOk(th)
<1> DEFINE c == [call[th] EXCEPT !.pc = "pull", !.off = read_offset]
<1>1. /\ call[th].pc = "claim" /\ call' = [call EXCEPT ![th] = c]
      /\ UNCHANGED <<write_offset, read_offset, elements, pulled>>
  BY DEF I!Claim, I!At, I!Goes, I!Off
<1>2. c \in CallType /\ c.pc = "pull" /\ c.off = read_offset /\ read_offset \in Nat
  BY InboxFacts DEF CallType, InboxSteps
<1> HIDE DEF c
<1>3. Looker(c)
  BY <1>2 DEF Looker
<1>4. InboxInv'
  BY <1>1, <1>2, <1>3, LookStep DEF Holding
<1>5. InboxShows
  BY <1>1, <1>2, LookShows
<1> QED BY <1>1, <1>4, <1>5 DEF InboxOk, GivesUp, I!At

\* How often an item was taken changes with the reader's claim, and not with what follows.
LEMMA TakingFacts ==
  ASSUME InboxInv
  PROVE  /\ \A x : IsFiniteSet(Taking(x)) /\ Cardinality(Taking(x)) \in Nat
         /\ \A x \in 1..MaxItems : pulled[x] \in Nat
         /\ Handed \in [1..MaxItems -> Nat]
<1>1. ASSUME NEW x
      PROVE  IsFiniteSet(Taking(x)) /\ Cardinality(Taking(x)) \in Nat
  <2>1. Taking(x) \subseteq Threads
    BY DEF Taking
  <2> QED BY <2>1, InboxAssumption, FS_Subset, FS_CardinalityType
<1>2. \A x \in 1..MaxItems : pulled[x] \in Nat
  <2>1. pulled \in [0..MaxItems -> Nat]
    BY DEF InboxInv, InboxTypes
  <2>2. \A x \in 1..MaxItems : x \in 0..MaxItems
    BY InboxSlots
  <2> QED BY <2>1, <2>2
<1>3. \A x \in 1..MaxItems : pulled[x] + Cardinality(Taking(x)) \in Nat
  BY <1>1, <1>2
<1> QED BY <1>1, <1>2, <1>3 DEF Handed

LEMMA ClaimTakes ==
  ASSUME InboxInv, NEW th \in Threads, NEW x, NEW c, call' = [call EXCEPT ![th] = c],
         call[th].pc # "take", c.pc = "take", c.off + 1 = x, pulled' = pulled
  PROVE  Handed' = [Handed EXCEPT ![x] = @ + 1]
<1>1. call'[th] = c /\ \A u \in Threads : u # th => call'[u] = call[u]
  BY CallNext
<1>2. Taking(x)' = Taking(x) \cup {th} /\ th \notin Taking(x)
  BY <1>1 DEF Taking
<1>3. Cardinality(Taking(x)') = Cardinality(Taking(x)) + 1
  BY <1>2, TakingFacts, FS_AddElement
<1>4. \A y : y # x => Taking(y)' = Taking(y)
  BY <1>1 DEF Taking
<1>5. \A y \in 1..MaxItems : pulled'[y] + Cardinality(Taking(y)') =
                               IF y = x THEN (pulled[y] + Cardinality(Taking(y))) + 1
                               ELSE pulled[y] + Cardinality(Taking(y))
  BY <1>3, <1>4, TakingFacts
<1>6. Handed' = [y \in 1..MaxItems |-> pulled'[y] + Cardinality(Taking(y)')]
  BY DEF Handed
<1>7. [Handed EXCEPT ![x] = @ + 1] =
        [y \in 1..MaxItems |-> IF y = x THEN (pulled[y] + Cardinality(Taking(y))) + 1
                               ELSE pulled[y] + Cardinality(Taking(y))]
  BY DEF Handed
<1> QED BY <1>5, <1>6, <1>7

LEMMA TakeEnds ==
  ASSUME InboxInv, NEW th \in Threads, NEW x, NEW c, call' = [call EXCEPT ![th] = c],
         call[th].pc = "take", c.pc # "take", call[th].off + 1 = x,
         pulled' = [pulled EXCEPT ![x] = @ + 1]
  PROVE  Handed' = Handed
<1>1. call'[th] = c /\ \A u \in Threads : u # th => call'[u] = call[u]
  BY CallNext
<1>2. Taking(x)' = Taking(x) \ {th} /\ th \in Taking(x)
  BY <1>1 DEF Taking
<1>3. Cardinality(Taking(x)') = Cardinality(Taking(x)) - 1
  <2>1. IsFiniteSet(Taking(x)) /\ Cardinality(Taking(x)) \in Nat
    BY TakingFacts
  <2>2. Cardinality(Taking(x) \ {th}) = Cardinality(Taking(x)) - 1
    BY <1>2, <2>1, FS_RemoveElement
  <2> QED BY <1>2, <2>2
<1>4. \A y : y # x => Taking(y)' = Taking(y)
  BY <1>1 DEF Taking
<1>5. \A y \in 1..MaxItems : pulled'[y] = IF y = x THEN pulled[y] + 1 ELSE pulled[y]
  <2>1. pulled \in [0..MaxItems -> Nat]
    BY DEF InboxInv, InboxTypes
  <2>2. \A y \in 1..MaxItems : y \in 0..MaxItems
    BY InboxSlots
  <2> QED BY <2>1, <2>2
<1>6. \A y \in 1..MaxItems : pulled'[y] + Cardinality(Taking(y)') = pulled[y] + Cardinality(Taking(y))
  BY <1>3, <1>4, <1>5, TakingFacts
<1> QED BY <1>6 DEF Handed

LEMMA ClaimSlotStep ==
  ASSUME InboxInv, NEW th \in Threads, I!Claim(th), read_offset = call[th].off
  PROVE  InboxOk(th)
<1>w. PICK W, R : W = write_offset /\ R = read_offset
  OBVIOUS
<1> DEFINE c == [call[th] EXCEPT !.pc = "take"]
<1>1. /\ call[th].pc = "claim" /\ call' = [call EXCEPT ![th] = c]
      /\ read_offset' = R + 1
      /\ UNCHANGED <<write_offset, elements, pulled>>
  BY <1>w DEF I!Claim, I!At, I!Goes, I!Off
<1>2. W \in Nat /\ R \in Nat /\ R <= W /\ W <= MaxItems /\ MaxItems \in Nat
  BY <1>w, InboxFacts, InboxSlots
<1>3. c \in CallType /\ c.pc = "take" /\ c.off = R
  BY <1>w, InboxFacts DEF CallType, InboxSteps
<1> HIDE DEF c
<1>4. Mark(R) = R + 1 /\ R < W
  <2>1. Looker(call[th])
    BY InboxFacts
  <2> QED BY <1>w, <1>1, <2>1 DEF Looker
<1>5. Datum(R) = R + 1
  <2>1. Given(R) /\ \A u \in Threads : Writes(u, R) => Mark(R) = R
    BY <1>2, InboxFacts, HolderKnows
  <2> QED BY <1>w, <1>2, <1>4, <2>1 DEF Given
<1>6. call'[th] = c /\ (\A u \in Threads : u # th => call'[u] = call[u]) /\ call' \in [Threads -> CallType]
  BY <1>1, <1>3, CallNext
<1>7. \A k : Mark(k)' = Mark(k) /\ Datum(k)' = Datum(k)
  BY <1>1 DEF Mark, Datum, I!Slot
<1>8. \A u \in Threads, k \in Nat : /\ Writes(u, k)' = Writes(u, k)
                                    /\ Reads(u, k)' = (Reads(u, k) \/ (u = th /\ k = R))
  BY <1>1, <1>3, <1>6 DEF Reads, Writes
<1>9. \A u \in Threads : ~Reads(u, R)
  <2>1. \A u \in Threads : Reads(u, R) => R < R
    BY <1>w, <1>2, HolderKnows
  <2> QED BY <1>2, <2>1
<1>10. InboxTypes'
  <2>1. InboxTypes
    BY DEF InboxInv
  <2>2. R + 1 \in Nat /\ R + 1 <= W
    BY <1>2, <1>4
  <2> QED BY <1>w, <1>1, <1>6, <2>1, <2>2 DEF InboxTypes
<1>11. \A u \in Threads : Holder(u)'
  <2> TAKE u \in Threads
  <2>1. CASE u = th
    <3>1. call'[th].pc = "take" /\ call'[th].off = R
      BY <1>3, <1>6
    <3>2. \A v \in Threads \ {th} : ~Reads(v, R)'
      BY <1>2, <1>8, <1>9
    <3>3. R < read_offset'
      BY <1>1, <1>2
    <3> QED BY <1>4, <1>5, <1>7, <2>1, <3>1, <3>2, <3>3 DEF Holder, Reads
  <2>2. CASE u # th
    <3>1. call'[u] = call[u] /\ Holder(u)
      BY <1>6, <2>2, InboxFacts
    <3>2. PICK j \in Nat : j = call[u].off
      BY InboxFacts
    <3>3. CASE call[u].pc \in {"write", "publish"}
      <4>1. /\ Writes(u, j) /\ Mark(j) = j /\ R <= j /\ j < W
            /\ \A v \in Threads \ {u} : ~Writes(v, j)
        BY <1>w, <3>2, <3>3, HolderKnows DEF Writes
      <4>2. R + 1 <= j
        <5>1. j # R
          BY <1>2, <1>4, <4>1
        <5> QED BY <1>2, <4>1, <5>1
      <4>3. \A v \in Threads \ {u} : ~Writes(v, j)'
        BY <1>8, <4>1
      <4>4. read_offset' <= j /\ j < write_offset' /\ (call[u].pc = "publish" => Datum(j) = j + 1)
        BY <1>w, <1>1, <3>1, <3>2, <4>1, <4>2 DEF Holder
      <4> QED BY <1>7, <3>1, <3>2, <3>3, <4>1, <4>3, <4>4 DEF Holder, Writes
    <3>4. CASE call[u].pc \in {"take", "free"}
      <4>1. Reads(u, j) /\ Mark(j) = j + 1 /\ j < R /\ \A v \in Threads \ {u} : ~Reads(v, j)
        BY <1>w, <3>2, <3>4, HolderKnows DEF Reads
      <4>2. \A v \in Threads \ {u} : ~Reads(v, j)'
        <5>1. j # R
          BY <1>2, <4>1
        <5> QED BY <1>8, <4>1, <5>1, Zenon
      <4>3. j < read_offset' /\ (call[u].pc = "take" => Datum(j) = j + 1)
        <5>1. j < R + 1
          BY <1>2, <4>1
        <5> QED BY <1>1, <3>1, <3>2, <3>4, <5>1 DEF Holder
      <4> QED BY <1>7, <3>1, <3>2, <3>4, <4>1, <4>2, <4>3 DEF Holder, Reads
    <3>5. CASE call[u].pc \notin {"write", "publish", "take", "free"}
      BY <3>1, <3>5 DEF Holder
    <3> QED BY <3>3, <3>4, <3>5
  <2> QED BY <2>1, <2>2
<1>12. \A u \in Threads : Looker(call[u])'
  <2> TAKE u \in Threads
  <2>1. CASE u = th
    BY <1>3, <1>6, <2>1 DEF Looker
  <2>2. CASE u # th
    <3>1. call'[u] = call[u] /\ Looker(call[u]) /\ call[u].off \in Nat
      BY <1>6, <2>2, InboxFacts
    <3>2. call[u].pc \in {"pull", "claim"} => call[u].off <= R + 1 /\ call[u].off # R + 1
      BY <1>w, <1>2, <3>1 DEF Looker
    <3> QED BY <1>w, <1>1, <1>7, <3>1, <3>2 DEF Looker
  <2> QED BY <2>1, <2>2
<1>13. \A k \in Nat : Given(k)' /\ Free(k)' /\ Past(k)'
  <2> TAKE k \in Nat
  <2>1. Given(k) /\ Free(k) /\ Past(k) /\ Mark(k) \in Nat
    BY InboxFacts
  <2>2. k >= InboxSize => k - InboxSize \in Nat
    BY InboxSlots
  <2>3. Given(k)'
    <3>1. R + 1 <= k => R <= k
      BY <1>2
    <3> QED BY <1>w, <1>1, <1>7, <1>8, <2>1, <3>1 DEF Given
  <2>4. Free(k)'
    <3>1. SUFFICES ASSUME W <= k, k < W + InboxSize, Mark(k) # k
                   PROVE  /\ k >= InboxSize
                          /\ \/ R + 1 <= k - InboxSize
                             \/ \E u \in Threads : Reads(u, k - InboxSize)'
      BY <1>w, <1>1, <1>7 DEF Free
    <3>2. /\ k >= InboxSize
          /\ R <= k - InboxSize \/ \E u \in Threads : Reads(u, k - InboxSize)
      BY <1>w, <2>1, <3>1 DEF Free
    <3>3. PICK j \in Nat : j = k - InboxSize
      BY <2>2, <3>2
    <3>4. CASE j = R
      <4>1. Reads(th, j)'
        BY <1>8, <3>4
      <4> QED BY <3>2, <3>3, <4>1
    <3>5. CASE j # R
      <4>1. R <= j => R + 1 <= j
        BY <1>2, <3>5
      <4>2. R + 1 <= j \/ \E u \in Threads : Reads(u, j)'
        BY <1>8, <3>2, <3>3, <4>1
      <4> QED BY <3>2, <3>3, <4>2
    <3> QED BY <3>4, <3>5
  <2>5. Past(k)'
    <3>1. k < R + 1 => k < R \/ k = R
      BY <1>2
    <3>2. k = R => k < Mark(k)
      BY <1>2, <1>4
    <3> QED BY <1>w, <1>1, <1>7, <2>1, <3>1, <3>2 DEF Past
  <2> QED BY <2>3, <2>4, <2>5
<1>14. InboxInv'
  BY <1>10, <1>11, <1>12, <1>13 DEF InboxInv
<1>15. InboxShows
  <2>1. Handed' = [Handed EXCEPT ![R + 1] = @ + 1]
    <3> PICK x : x = R + 1
      OBVIOUS
    <3>1. Handed' = [Handed EXCEPT ![x] = @ + 1]
      BY <1>1, <1>3, ClaimTakes
    <3> QED BY <3>1
  <2>2. /\ Seg(Tickets, R, W) # <<>> /\ Head(Seg(Tickets, R, W)) = R + 1
        /\ Tail(Seg(Tickets, R, W)) = Seg(Tickets, R + 1, W)
    BY <1>2, <1>4, FirstTicket
  <2>3. TakesFirst(Seg(Tickets, R, W), Handed, W, Seg(Tickets, R + 1, W), Handed', W)
    BY <2>1, <2>2 DEF TakesFirst
  <2> QED BY <1>w, <1>1, <2>3 DEF InboxShows, WorkStep
<1>16. GivesUp(th)
  BY <1>1 DEF GivesUp, I!At
<1> QED BY <1>14, <1>15, <1>16 DEF InboxOk

LEMMA TakeSlotStep ==
  ASSUME InboxInv, NEW th \in Threads, I!Take(th)
  PROVE  InboxOk(th)
<1>k. PICK k \in Nat : k = call[th].off
  BY InboxFacts
<1> DEFINE c == [call[th] EXCEPT !.pc = "free"]
<1>1. /\ call[th].pc = "take" /\ call' = [call EXCEPT ![th] = c]
      /\ pulled' = [pulled EXCEPT ![Datum(k)] = @ + 1]
      /\ UNCHANGED <<write_offset, read_offset, elements>>
  BY <1>k DEF I!Take, I!At, I!Goes, I!Off, I!offsets, Datum
<1>2. c \in CallType /\ c.pc = "free" /\ c.off = k
  BY <1>k, InboxFacts DEF CallType, InboxSteps
<1> HIDE DEF c
<1>3. /\ Reads(th, k) /\ Mark(k) = k + 1 /\ Datum(k) = k + 1 /\ k < read_offset
      /\ \A v \in Threads \ {th} : ~Reads(v, k)
  BY <1>k, <1>1, InboxFacts DEF Reads, Holder
<1>4. call'[th] = c /\ (\A u \in Threads : u # th => call'[u] = call[u]) /\ call' \in [Threads -> CallType]
  BY <1>1, <1>2, CallNext
<1>5. \A j : Mark(j)' = Mark(j) /\ Datum(j)' = Datum(j)
  BY <1>1 DEF Mark, Datum, I!Slot
<1>6. \A u \in Threads, j \in Nat : Writes(u, j)' = Writes(u, j) /\ Reads(u, j)' = Reads(u, j)
  BY <1>k, <1>1, <1>2, <1>4 DEF Writes, Reads
<1>7. InboxTypes'
  <2>1. InboxTypes
    BY DEF InboxInv
  <2>2. k + 1 \in 0..MaxItems
    BY <1>3, InboxFacts, InboxSlots
  <2>3. pulled' = [pulled EXCEPT ![k + 1] = pulled[k + 1] + 1] /\ pulled[k + 1] + 1 \in Nat
    BY <1>1, <1>3, <2>1, <2>2 DEF InboxTypes
  <2>4. pulled' \in [0..MaxItems -> Nat]
    BY <2>1, <2>3 DEF InboxTypes
  <2> QED BY <1>1, <1>4, <2>1, <2>4 DEF InboxTypes
<1>8. \A u \in Threads : Holder(u)'
  <2> TAKE u \in Threads
  <2>1. CASE u = th
    <3>1. call'[th].pc = "free" /\ call'[th].off = k
      BY <1>2, <1>4
    <3>2. \A v \in Threads \ {th} : ~Reads(v, k)'
      BY <1>3, <1>6
    <3> QED BY <1>1, <1>3, <1>5, <2>1, <3>1, <3>2 DEF Holder, Reads
  <2>2. CASE u # th
    <3>1. call'[u] = call[u] /\ Holder(u) /\ call[u].off \in Nat
      BY <1>4, <2>2, InboxFacts
    <3> QED BY <1>1, <1>5, <1>6, <3>1 DEF Holder
  <2> QED BY <2>1, <2>2
<1>9. \A u \in Threads : Looker(call[u])'
  <2> TAKE u \in Threads
  <2>1. CASE u = th
    BY <1>2, <1>4, <2>1 DEF Looker
  <2>2. CASE u # th
    <3>1. call'[u] = call[u] /\ Looker(call[u])
      BY <1>4, <2>2, InboxFacts
    <3> QED BY <1>1, <1>5, <3>1 DEF Looker
  <2> QED BY <2>1, <2>2
<1>10. \A j \in Nat : Given(j)' /\ Free(j)' /\ Past(j)'
  <2> TAKE j \in Nat
  <2>1. Given(j) /\ Free(j) /\ Past(j)
    BY InboxFacts
  <2>2. j >= InboxSize => j - InboxSize \in Nat
    BY InboxSlots
  <2>3. Given(j)'
    BY <1>1, <1>5, <1>6, <2>1 DEF Given
  <2>4. Free(j)'
    BY <1>1, <1>5, <1>6, <2>1, <2>2 DEF Free
  <2>5. Past(j)'
    BY <1>1, <1>5, <2>1 DEF Past
  <2> QED BY <2>3, <2>4, <2>5
<1>11. InboxInv'
  BY <1>7, <1>8, <1>9, <1>10 DEF InboxInv
<1>12. InboxShows
  <2>1. Handed' = Handed
    <3> PICK x : x = k + 1
      OBVIOUS
    <3>1. pulled' = [pulled EXCEPT ![x] = @ + 1] /\ call[th].off + 1 = x /\ c.pc # "take"
      BY <1>k, <1>1, <1>2, <1>3
    <3> QED BY <1>1, <3>1, TakeEnds
  <2> QED BY <1>1, <2>1 DEF InboxShows, WorkStep, Keeps
<1> QED BY <1>1, <1>11, <1>12 DEF InboxOk, GivesUp, I!At

LEMMA FreeSlotStep ==
  ASSUME InboxInv, NEW th \in Threads, I!Free(th)
  PROVE  InboxOk(th)
<1>k. PICK k \in Nat : k = call[th].off
  BY InboxFacts
<1>1. /\ call[th].pc = "free" /\ call' = [call EXCEPT ![th] = I!NoCall]
      /\ elements' = [elements EXCEPT ![I!Slot(k)].flags = k + InboxSize]
      /\ UNCHANGED <<write_offset, read_offset, pulled>>
  BY <1>k DEF I!Free, I!At, I!Goes, I!Off, I!offsets
<1>n. /\ write_offset \in Nat /\ read_offset \in Nat /\ read_offset <= write_offset
      /\ InboxSize \in Nat /\ InboxSize >= 2
  BY InboxFacts, InboxSlots
<1>2. I!NoCall \in CallType /\ I!NoCall.pc = "none"
  BY DEF CallType, InboxSteps, I!NoCall
<1>3. /\ call'[th] = I!NoCall /\ (\A u \in Threads : u # th => call'[u] = call[u])
      /\ call' \in [Threads -> CallType]
  BY <1>1, <1>2, CallNext
<1>4. /\ elements' \in [0..(InboxSize - 1) -> [flags : Nat, data : Nat]]
      /\ \A j \in Nat : /\ Datum(j)' = Datum(j)
                        /\ Mark(j)' = IF I!Slot(j) = I!Slot(k) THEN k + InboxSize ELSE Mark(j)
  <2>1. k + InboxSize \in Nat
    BY <1>n
  <2> QED BY <1>1, <2>1, SlotNext
<1>5. \A u \in Threads, j \in Nat : /\ Reads(u, j)' = (Reads(u, j) /\ u # th)
                                    /\ Writes(u, j)' = Writes(u, j)
  BY <1>1, <1>2, <1>3 DEF Writes, Reads
<1>6. /\ Reads(th, k) /\ Mark(k) = k + 1 /\ k < read_offset
      /\ \A u \in Threads \ {th} : ~Reads(u, k)
  BY <1>k, <1>1, HolderKnows DEF Reads
<1>7. \A j \in Nat : \/ Mark(j)' = Mark(j)
                     \/ Mark(j) = k + 1 /\ Mark(j)' = k + InboxSize /\ j # k + 1
  <2> TAKE j \in Nat
  <2>1. I!Slot(j) = I!Slot(k) => Mark(j) = k + 1 /\ j # k + 1
    BY <1>6, SlotShared
  <2> QED BY <1>4, <2>1
<1>8. InboxTypes'
  BY <1>1, <1>3, <1>4 DEF InboxInv, InboxTypes
<1>9. \A u \in Threads : Holder(u)'
  <2> TAKE u \in Threads
  <2>1. CASE u = th
    BY <1>2, <1>3, <2>1 DEF Holder
  <2>2. CASE u # th
    <3>1. call'[u] = call[u] /\ Holder(u)
      BY <1>3, <2>2, InboxFacts
    <3>2. PICK j \in Nat : j = call[u].off
      BY InboxFacts
    <3>3. CASE call[u].pc \in {"write", "publish"}
      <4>1. Writes(u, j) /\ Mark(j) = j /\ \A v \in Threads \ {u} : ~Writes(v, j)
        BY <3>2, <3>3, HolderKnows DEF Writes
      <4>2. Mark(j)' = j /\ Datum(j)' = Datum(j)
        BY <1>4, <1>7, <4>1
      <4>3. \A v \in Threads \ {u} : ~Writes(v, j)'
        BY <1>5, <4>1
      <4>4. read_offset' <= j /\ j < write_offset' /\ (call[u].pc = "publish" => Datum(j) = j + 1)
        BY <1>1, <3>1, <3>2, <3>3 DEF Holder
      <4> QED BY <3>1, <3>2, <3>3, <4>2, <4>3, <4>4 DEF Holder, Writes
    <3>4. CASE call[u].pc \in {"take", "free"}
      <4>1. Reads(u, j) /\ Mark(j) = j + 1 /\ \A v \in Threads \ {u} : ~Reads(v, j)
        BY <3>2, <3>4, HolderKnows DEF Reads
      <4>2. j # k
        BY <1>6, <2>2, <4>1
      <4>3. Mark(j)' = j + 1 /\ Datum(j)' = Datum(j)
        BY <1>4, <1>7, <4>1, <4>2
      <4>4. \A v \in Threads \ {u} : ~Reads(v, j)'
        BY <1>5, <4>1
      <4>5. j < read_offset' /\ (call[u].pc = "take" => Datum(j) = j + 1)
        BY <1>1, <3>1, <3>2, <3>4 DEF Holder
      <4> QED BY <3>1, <3>2, <3>4, <4>3, <4>4, <4>5 DEF Holder, Reads
    <3>5. CASE call[u].pc \notin {"write", "publish", "take", "free"}
      BY <3>1, <3>5 DEF Holder
    <3> QED BY <3>3, <3>4, <3>5
  <2> QED BY <2>1, <2>2
<1>10. \A u \in Threads : Looker(call[u])'
  <2> PICK w, r : w = write_offset /\ r = read_offset
    OBVIOUS
  <2>1. write_offset' = w /\ read_offset' = r /\ w \in Nat /\ r \in Nat /\ k < r /\ r <= w
    BY <1>1, <1>n, <1>6
  <2>2. Mark(w) = w => Mark(w)' = w
    BY <1>7, <2>1
  <2>3. Mark(r) = r + 1 => Mark(r)' = r + 1
    BY <1>7, <2>1
  <2> TAKE u \in Threads
  <2>4. CASE u = th
    BY <1>2, <1>3, <2>4 DEF Looker
  <2>5. CASE u # th
    <3>1. call'[u] = call[u] /\ Looker(call[u])
      BY <1>3, <2>5, InboxFacts
    <3>2. Mark(write_offset)' = Mark(w)' /\ Mark(read_offset)' = Mark(r)'
      BY <2>1 DEF Mark
    <3> QED BY <2>1, <2>2, <2>3, <3>1, <3>2 DEF Looker
  <2> QED BY <2>4, <2>5
<1>11. \A j \in Nat : Given(j)' /\ Free(j)' /\ Past(j)'
  <2> TAKE j \in Nat
  <2>1. Given(j) /\ Free(j) /\ Past(j) /\ Mark(j) \in Nat
    BY InboxFacts
  <2>2. Given(j)'
    <3>1. read_offset <= j /\ Mark(j) = j + 1 => Mark(j)' = j + 1
      BY <1>n, <1>6, <1>7
    <3> QED BY <1>1, <1>4, <1>5, <2>1, <3>1 DEF Given
  <2>3. Free(j)'
    <3>1. SUFFICES ASSUME write_offset <= j, j < write_offset + InboxSize, Mark(j)' # j
                   PROVE  /\ j >= InboxSize
                          /\ \/ read_offset <= j - InboxSize
                             \/ \E u \in Threads : Reads(u, j - InboxSize)'
      BY <1>1 DEF Free
    <3>2. Mark(j) # j
      BY <1>7, <3>1
    <3>3. /\ j >= InboxSize
          /\ read_offset <= j - InboxSize \/ \E u \in Threads : Reads(u, j - InboxSize)
      BY <2>1, <3>1, <3>2 DEF Free
    <3>4. PICK i \in Nat : i = j - InboxSize /\ j = i + InboxSize
      BY <1>n, <3>3
    <3>5. i # k
      <4>1. i = k => Mark(j)' = j
        <5>1. I!Slot(i + InboxSize) = I!Slot(i)
          BY InboxSlots
        <5> QED BY <1>4, <3>4, <5>1
      <4> QED BY <3>1, <4>1
    <3>6. \A u \in Threads : Reads(u, i) => Reads(u, i)'
      BY <1>k, <1>5, <3>5 DEF Reads
    <3> QED BY <3>3, <3>4, <3>6
  <2>4. Past(j)'
    <3>1. j < write_offset => j <= Mark(j)'
      BY <1>n, <1>7, <2>1 DEF Past
    <3>2. j < read_offset => j < Mark(j)'
      BY <1>n, <1>7, <2>1 DEF Past
    <3> QED BY <1>1, <3>1, <3>2 DEF Past
  <2> QED BY <2>2, <2>3, <2>4
<1>12. InboxInv'
  BY <1>8, <1>9, <1>10, <1>11 DEF InboxInv
<1>13. InboxShows
  BY <1>1, <1>2, LookShows
<1> QED BY <1>1, <1>12, <1>13 DEF InboxOk, GivesUp, I!At

\* Every step of the inbox.
LEMMA NextInbox ==
  ASSUME InboxInv, I!Next
  PROVE  /\ InboxInv' /\ \A t \in Threads : GivesUp(t)
         /\ WorkStep(I!Items, I!Taken, write_offset, I!Items', I!Taken', write_offset')
<1>1. PICK th \in Threads : I!Step(th)
  BY DEF I!Next
<1>2. InboxOk(th)
  <2>1. CASE I!TryPush(th)
    BY <2>1, TryPushStep
  <2>2. CASE I!LookToWrite(th)
    BY <2>2, LookToWriteStep DEF InboxOk
  <2>3. CASE I!TakeTicket(th)
    BY <2>3, TicketFails, TicketStep
  <2>4. CASE I!Write(th)
    BY <2>4, WriteSlotStep
  <2>5. CASE I!Publish(th)
    BY <2>5, PublishSlotStep
  <2>6. CASE I!TryPull(th)
    BY <2>6, TryPullStep
  <2>7. CASE I!LookToRead(th)
    BY <2>7, LookToReadStep DEF InboxOk
  <2>8. CASE I!Claim(th)
    BY <2>8, ClaimFails, ClaimSlotStep
  <2>9. CASE I!Take(th)
    BY <2>9, TakeSlotStep
  <2>10. CASE I!Free(th)
    BY <2>10, FreeSlotStep
  <2> QED BY <1>1, <2>1, <2>2, <2>3, <2>4, <2>5, <2>6, <2>7, <2>8, <2>9, <2>10 DEF I!Step
<1>3. ASSUME NEW t \in Threads
      PROVE  GivesUp(t)
  <2>1. CASE t = th
    BY <1>2, <2>1 DEF InboxOk
  <2>2. CASE t # th
    <3>1. \E c : call' = [call EXCEPT ![th] = c]
      BY <1>1 DEF I!Step, I!TryPush, I!LookToWrite, I!TakeTicket, I!Write, I!Publish, I!TryPull,
                  I!LookToRead, I!Claim, I!Take, I!Free, I!Goes
    <3> QED BY <2>2, <3>1, OthersStay
  <2> QED BY <2>1, <2>2
<1>4. /\ I!Items = Seg(Tickets, read_offset, write_offset) /\ I!Taken = Handed
      /\ I!Items' = Seg(Tickets, read_offset', write_offset') /\ I!Taken' = Handed'
  <2>1. I!Items = Seg(Tickets, read_offset, write_offset) /\ I!Taken = Handed
    BY InboxIs DEF InboxSeen
  <2>2. InboxInv'
    BY <1>2 DEF InboxOk
  <2>3. I!Items' = Seg(Tickets, read_offset', write_offset') /\ I!Taken' = Handed'
    BY <2>2, InboxSeenNext DEF InboxSeen
  <2> QED BY <2>1, <2>3
<1> QED BY <1>2, <1>3, <1>4 DEF InboxOk, InboxShows

-----------------------------------------------------------------------------
(* All behaviours of MCContainers.                                         *)

QueuesInv ==
  /\ container \in Deques \cup {"inbox", "condvar"}
  /\ container = "deque64" => Inv64
  /\ container = "deque32" => Inv32
  /\ container = "inbox" => InboxInv

LEMMA DequeInitially ==
  ASSUME Init
  PROVE  /\ Inv64 /\ Inv32 /\ Items = <<>> /\ Items32 = <<>> /\ pushed = 0
         /\ Taken = [x \in 1..MaxItems |-> 0] /\ Counts32 = [x \in 1..MaxItems |-> 0]
<1>1. PICK k \in Starts : state = [t |-> k, b |-> k]
  BY DEF Init
<1>2. /\ buffers = <<NewBuffer(InitialCapacity)>>
      /\ pushed = 0 /\ taken = [x \in NoItem..Torn |-> 0]
      /\ owner = OwnerIdle /\ thief = [s \in Thieves |-> ThiefIdle]
  BY DEF Init
<1>3. k \in Index /\ k \in Int /\ HalfWord \in Nat \ {0} /\ MaxItems \in Nat /\ 0 \in Index
  BY WidthAssumption, HalfWordFacts DEF Index
<1>4. Wrap(k) = k
  <2>1. k = (HalfWord * 0) + k /\ 0 \in Int /\ k \in 0..(HalfWord - 1)
    BY <1>3 DEF Index
  <2>2. k % HalfWord = k
    BY <1>3, <2>1, Remainder
  <2> QED BY <2>2 DEF Wrap
<1>5. DequeTypes
  <2>1. state \in [t : Index, b : Index]
    BY <1>1, <1>3
  <2>2. NewBuffer(InitialCapacity) \in Blocks
    <3>1. InitialCapacity \in Capacities /\ 0 \in 0..Torn
      BY <1>3, WidthAssumption DEF Torn
    <3>2. NewBuffer(InitialCapacity) \in [0..(InitialCapacity - 1) -> 0..Torn]
      BY <3>1 DEF NewBuffer, NoItem
    <3> QED BY <3>1, <3>2 DEF Blocks
  <2>3. buffers \in Seq(Blocks) /\ buffers # <<>>
    BY <1>2, <2>2
  <2>4. pushed \in 0..MaxItems /\ taken \in [NoItem..Torn -> Nat]
    BY <1>2, <1>3
  <2>5. owner \in [pc : Steps64 \cup Steps32, b : Index, t : Index, n : Nat, done : Nat]
    BY <1>2, <1>3 DEF OwnerIdle, Steps64, Steps32
  <2>6. thief \in [Thieves -> [pc : {"idle", "bottom", "buffer", "item", "cas"},
                               b : Index, t : Index, buf : Nat, item : Int, tries : Nat]]
    BY <1>2, <1>3 DEF ThiefIdle, NoItem
  <2> QED BY <2>1, <2>3, <2>4, <2>5, <2>6 DEF DequeTypes
<1> DEFINE S == [s \in Thieves |-> k]
<1>6. owner.pc = "idle" /\ \A s \in Thieves : thief[s].pc = "idle" /\ S[s] = k
  BY <1>2 DEF OwnerIdle, ThiefIdle
<1>7. S \in [Thieves -> Int]
  BY <1>3
<1> HIDE DEF S
<1>8. DequeAt(k, k, k, k, S)
  <2>1. Bounds(k, k, k, k, S)
    <3>1. k <= k /\ k <= k + 1 /\ k <= k + pushed
      BY <1>2, <1>3
    <3> QED BY <1>1, <1>3, <1>4, <1>6, <1>7, <3>1 DEF Bounds
  <2>2. OwnerPart(k, k, k, k) /\ PushPart(k, k)
    BY <1>3, <1>6 DEF OwnerPart, PushPart
  <2>3. ThiefPart(k, k, k, S)
    BY <1>6 DEF ThiefPart
  <2> QED BY <1>5, <2>1, <2>2, <2>3 DEF DequeAt
<1>9. DequeInv
  BY <1>3, <1>7, <1>8 DEF DequeInv
<1>10. Packed /\ Unpacked
  BY <1>6 DEF Packed, Unpacked, Steps64, Steps32
<1>11. View(k, k) = <<>>
  <2>1. End(k) = k
    BY <1>6 DEF End, Undecided
  <2> QED BY <1>3, <2>1, SegEmpty DEF View
<1>12. Counts32 = [x \in 1..MaxItems |-> 0]
  BY <1>2, <1>3 DEF Counts32, NoItem, Torn
<1>13. Items = <<>> /\ Taken = Counts32 /\ Items32 = <<>>
  <2>1. Items = View(k, k) /\ Taken = Seen(k, k) /\ Items32 = View(k, k)
    BY <1>8, <1>10, Deque64Is, Deque32Is DEF Deque64Seen, Deque32Seen
  <2>2. Seen(k, k) = Counts32
    BY <1>6 DEF Seen
  <2> QED BY <1>11, <2>1, <2>2
<1> QED BY <1>2, <1>9, <1>10, <1>12, <1>13 DEF Inv64, Inv32

LEMMA InboxInitially ==
  ASSUME I!Init
  PROVE  /\ InboxInv /\ I!Items = <<>> /\ write_offset = 0
         /\ I!Taken = [x \in 1..MaxItems |-> 0]
<1>1. /\ write_offset = 0 /\ read_offset = 0
      /\ elements = [i \in 0..(InboxSize - 1) |-> [flags |-> i, data |-> 0]]
      /\ call = [t \in Threads |-> I!NoCall]
      /\ pulled = [x \in 0..MaxItems |-> 0]
  BY DEF I!Init, I!NoItem
<1>2. InboxSize \in Nat /\ InboxSize >= 2 /\ MaxItems \in Nat
  BY InboxSlots
<1>3. InboxTypes
  <2>1. I!NoCall \in CallType
    BY DEF I!NoCall, CallType, InboxSteps
  <2>2. call \in [Threads -> CallType] /\ pulled \in [0..MaxItems -> Nat]
    BY <1>1, <2>1
  <2>3. elements \in [0..(InboxSize - 1) -> [flags : Nat, data : Nat]]
    BY <1>1, <1>2
  <2> QED BY <1>1, <1>2, <2>2, <2>3 DEF InboxTypes
<1>4. \A t \in Threads : call[t].pc = "none"
  BY <1>1 DEF I!NoCall
<1>5. \A t \in Threads : Holder(t) /\ Looker(call[t])
  BY <1>4 DEF Holder, Looker
<1>6. \A k \in Nat : Given(k) /\ Free(k) /\ Past(k)
  <2> TAKE k \in Nat
  <2>1. Given(k) /\ Past(k)
    BY <1>1 DEF Given, Past
  <2>2. k < InboxSize => Mark(k) = k
    <3>1. SUFFICES ASSUME k < InboxSize
                   PROVE  Mark(k) = k
      OBVIOUS
    <3>2. k = (InboxSize * 0) + k /\ k \in 0..(InboxSize - 1) /\ k \in Int /\ 0 \in Int
          /\ InboxSize \in Nat \ {0}
      BY <1>2, <3>1
    <3>3. k % InboxSize = k
      BY <3>2, Remainder
    <3> QED BY <1>1, <3>2, <3>3 DEF Mark, I!Slot
  <2> QED BY <1>1, <1>2, <2>1, <2>2 DEF Free
<1>7. InboxInv
  BY <1>3, <1>5, <1>6 DEF InboxInv
<1>8. I!Items = Seg(Tickets, 0, 0) /\ I!Taken = Handed
  BY <1>1, <1>7, InboxIs DEF InboxSeen
<1>9. Seg(Tickets, 0, 0) = <<>>
  <2> PICK z \in Int : z = 0
    OBVIOUS
  <2>1. Seg(Tickets, z, z) = <<>>
    BY SegEmpty
  <2> QED BY <2>1
<1>10. Handed = [x \in 1..MaxItems |-> 0]
  <2>1. \A x : Taking(x) = {}
    BY <1>4 DEF Taking
  <2>2. Cardinality({}) = 0
    BY FS_EmptySet
  <2>3. \A x \in 1..MaxItems : pulled[x] + Cardinality(Taking(x)) = 0
    <3>1. \A x \in 1..MaxItems : x \in 0..MaxItems
      BY <1>2
    <3> QED BY <1>1, <2>1, <2>2, <3>1
  <2> QED BY <2>3 DEF Handed
<1> QED BY <1>1, <1>7, <1>8, <1>9, <1>10

\* Where the variables of a queue stay, so does what its users see.
LEMMA DequeStays ==
  ASSUME UNCHANGED vars
  PROVE  Items' = Items /\ Items32' = Items32 /\ Taken' = Taken /\ Counts32' = Counts32 /\ pushed' = pushed
<1>1. /\ state' = state /\ buffers' = buffers /\ pushed' = pushed /\ taken' = taken
      /\ owner' = owner
  BY DEF vars
<1>2. Items' = Items
  BY <1>1 DEF Items, Size, Diff, Wrap, Item, Slot, Capacity, Active
<1>3. Items32' = Items32
  BY <1>1 DEF Items32, Size32, Undecided, Diff, Wrap, Item, Slot, Capacity, Active
<1>4. Taken' = Taken
  BY <1>1 DEF Taken, Claimed, Diff, Wrap, Item, Slot, Capacity, Active
<1> QED BY <1>1, <1>2, <1>3, <1>4 DEF Counts32

LEMMA InboxStays ==
  ASSUME UNCHANGED inboxVars
  PROVE  I!Items' = I!Items /\ I!Taken' = I!Taken /\ write_offset' = write_offset
BY DEF inboxVars, I!Items, I!Taken, I!At, I!Off, I!Slot

\* A step gives up only where it may.
RightGiveUps == Misses64 /\ Misses32 /\ \A t \in Threads : GivesUp(t)

LEMMA QueuesInitially ==
  ASSUME MCInit
  PROVE  QueuesInv /\ D!Init
<1>1. Init /\ I!Init /\ container \in Deques \cup {"inbox", "condvar"}
  BY DEF MCInit
<1>2. QueuesInv
  BY <1>1, DequeInitially, InboxInitially DEF QueuesInv
<1>3. /\ Items = <<>> /\ Items32 = <<>> /\ pushed = 0
      /\ Taken = [x \in 1..MaxItems |-> 0] /\ Counts32 = [x \in 1..MaxItems |-> 0]
  BY <1>1, DequeInitially
<1>4. I!Items = <<>> /\ write_offset = 0 /\ I!Taken = [x \in 1..MaxItems |-> 0]
  BY <1>1, InboxInitially
<1>5. D!Init
  <2>1. CASE container = "deque64"
    BY <1>3, <2>1 DEF D!Init, Queue, TakenFrom
  <2>2. CASE container = "deque32"
    BY <1>3, <2>2 DEF D!Init, Queue, TakenFrom, Counts32
  <2>3. CASE container = "inbox"
    BY <1>4, <2>3 DEF D!Init, Queue, TakenFrom
  <2>4. CASE container = "condvar"
    BY <1>3, <2>4 DEF D!Init
  <2> QED BY <1>1, <2>1, <2>2, <2>3, <2>4 DEF Deques
<1> QED BY <1>2, <1>5

\* Nothing moves.
LEMMA QueuesStay ==
  ASSUME QueuesInv, UNCHANGED <<container, vars, inboxVars>>
  PROVE  QueuesInv' /\ UNCHANGED D!vars
<1>1. /\ Items' = Items /\ Items32' = Items32 /\ Taken' = Taken /\ Counts32' = Counts32
      /\ pushed' = pushed
  BY DequeStays
<1>2. I!Items' = I!Items /\ I!Taken' = I!Taken /\ write_offset' = write_offset
  BY InboxStays
<1>3. UNCHANGED D!vars
  BY <1>1, <1>2 DEF D!vars, Queue, TakenFrom, Counts32
<1>4. DequeInv => DequeInv'
  <2> SUFFICES ASSUME DequeInv PROVE DequeInv'
    OBVIOUS
  <2>1. PICK K, T, B, O \in Int, S \in [Thieves -> Int] : DequeAt(K, T, B, O, S)
    BY DEF DequeInv
  <2>2. DequeAt(K, T, B, O, S)'
    BY <2>1 DEF vars, DequeAt, DequeTypes, Bounds, OwnerPart, PushPart, ThiefPart,
                End, Undecided, Cells, Holds, Room
  <2> QED BY <2>2 DEF DequeInv
<1>5. (Packed => Packed') /\ (Unpacked => Unpacked')
  BY DEF vars, Packed, Unpacked, Diff, Wrap
<1>6. InboxInv => InboxInv'
  BY DEF inboxVars, InboxInv, InboxTypes, Holder, Looker, Given, Free, Past, Mark, Datum,
         Writes, Reads, I!Slot
<1> QED BY <1>3, <1>4, <1>5, <1>6 DEF QueuesInv, Inv64, Inv32

LEMMA DequeQuiet ==
  ASSUME UNCHANGED vars
  PROVE  Misses64 /\ Misses32
<1>1. owner' = owner
  BY DEF vars
<1> QED BY <1>1 DEF Misses64, Misses32

LEMMA InboxQuiet ==
  ASSUME UNCHANGED inboxVars
  PROVE  \A t \in Threads : GivesUp(t)
<1>1. call' = call
  BY DEF inboxVars
<1> QED BY <1>1 DEF GivesUp, I!At

LEMMA QueuesNext ==
  ASSUME QueuesInv, [MCNext]_mcVars
  PROVE  QueuesInv' /\ [D!Next]_(D!vars) /\ RightGiveUps
<1>1. container' = container
  BY DEF MCNext, mcVars
<1>2. CASE container = "deque64" /\ Next /\ UNCHANGED <<cvVars, inboxVars>>
  <2>1. /\ Inv64' /\ Misses64 /\ ~(owner.pc = "restore")
        /\ WorkStep(Items, Taken, pushed, Items', Taken', pushed')
    BY <1>2, Next64 DEF QueuesInv
  <2>2. [D!Next]_(D!vars)
    BY <1>1, <1>2, <2>1, Step64
  <2>3. QueuesInv'
    BY <1>1, <1>2, <2>1 DEF QueuesInv, Deques
  <2>4. RightGiveUps
    BY <1>2, <2>1, InboxQuiet DEF RightGiveUps, Misses32
  <2> QED BY <2>2, <2>3, <2>4
<1>3. CASE container = "deque32" /\ Next32 /\ UNCHANGED <<cvVars, inboxVars>>
  <2>1. /\ Inv32' /\ Misses32 /\ ~(owner.pc \in {"pop", "claimed"})
        /\ WorkStep(Items32, Counts32, pushed, Items32', Counts32', pushed')
    BY <1>3, Next32Step DEF QueuesInv
  <2>2. [D!Next]_(D!vars)
    BY <1>1, <1>3, <2>1, Step32
  <2>3. QueuesInv'
    BY <1>1, <1>3, <2>1 DEF QueuesInv, Deques
  <2>4. RightGiveUps
    BY <1>3, <2>1, InboxQuiet DEF RightGiveUps, Misses64
  <2> QED BY <2>2, <2>3, <2>4
<1>4. CASE container = "inbox" /\ I!Next /\ UNCHANGED <<cvVars, vars>>
  <2>1. /\ InboxInv' /\ \A t \in Threads : GivesUp(t)
        /\ WorkStep(I!Items, I!Taken, write_offset, I!Items', I!Taken', write_offset')
    BY <1>4, NextInbox DEF QueuesInv
  <2>2. [D!Next]_(D!vars)
    BY <1>1, <1>4, <2>1, StepInbox
  <2>3. QueuesInv'
    BY <1>1, <1>4, <2>1 DEF QueuesInv
  <2>4. RightGiveUps
    BY <1>4, <2>1, DequeQuiet DEF RightGiveUps
  <2> QED BY <2>2, <2>3, <2>4
<1>5. CASE UNCHANGED <<vars, inboxVars>>
  <2>1. QueuesInv' /\ UNCHANGED D!vars
    BY <1>1, <1>5, QueuesStay
  <2>2. RightGiveUps
    BY <1>5, DequeQuiet, InboxQuiet DEF RightGiveUps
  <2> QED BY <2>1, <2>2
<1> QED BY <1>2, <1>3, <1>4, <1>5 DEF MCNext, mcVars

\* What always holds of the worker's queues: where top, bottom and offsets are, unwrapped,
\* who holds which slot, and what the slots and the threads' copies hold.
THEOREM QueuesInvariant == MCSpec => []QueuesInv
<1>1. MCInit => QueuesInv
  BY QueuesInitially
<1>2. QueuesInv /\ [MCNext]_mcVars => QueuesInv'
  BY QueuesNext
<1> QED BY <1>1, <1>2, PTL DEF MCSpec

\* Both deques and the inbox implement WorkDeque: every step of any of their threads is a
\* push at the bottom, the taking of one end, or no change; nothing is lost, given out
\* twice or out of order, across growth, the wrap of the indices and the rounds of the inbox.
THEOREM QueuesAreWorkQueues == MCSpec => AreWorkQueues
<1>1. MCInit => D!Init
  BY QueuesInitially
<1>2. QueuesInv /\ [MCNext]_mcVars => [D!Next]_(D!vars)
  BY QueuesNext
<1> QED BY <1>1, <1>2, QueuesInvariant, PTL DEF MCSpec, AreWorkQueues, D!Spec

\* try_pop of the deques and the calls of the inbox give up only for a reason that is there:
\* an empty deque, an incomplete oldest item, a slot that its reader still holds.
THEOREM QueuesGiveUpRightly == MCSpec => GiveUpRightly
<1>1. QueuesInv /\ [MCNext]_mcVars =>
        /\ [(owner.pc \in {"pop", "claimed"} /\ owner'.pc = "idle" /\ taken' = taken)
              => Size = 0]_vars
        /\ [(owner.pc = "restore" /\ owner.n = 0 /\ owner'.pc = "idle") => Size' = 0]_vars
        /\ [\A t \in Threads : GivesUp(t)]_(I!vars)
  BY QueuesNext DEF RightGiveUps, Misses64, Misses32
<1>2. MCSpec => /\ [][(owner.pc \in {"pop", "claimed"} /\ owner'.pc = "idle" /\ taken' = taken)
                        => Size = 0]_vars
                /\ [][(owner.pc = "restore" /\ owner.n = 0 /\ owner'.pc = "idle")
                        => Size' = 0]_vars
                /\ [][\A t \in Threads : GivesUp(t)]_(I!vars)
  BY <1>1, QueuesInvariant, PTL DEF MCSpec
<1> QED BY <1>2 DEF GiveUpRightly, PopMissesNothing, Pop32MissesNothing, I!GivesUpRightly, GivesUp

-----------------------------------------------------------------------------
(* atomic_condvar: a vector of waiters.                                    *)

Elems(s) == CV!ToSet(s)
Distinct(s) == CV!IsInjective(s)

LEMMA TailFacts ==
  ASSUME NEW T, NEW s \in Seq(T), s # <<>>, Distinct(s)
  PROVE  /\ Tail(s) \in Seq(T) /\ Distinct(Tail(s)) /\ s[1] \in T /\ Head(s) = s[1]
         /\ s[1] \in Elems(s) /\ Elems(Tail(s)) = Elems(s) \ {s[1]}
<1> USE DEF Elems, Distinct, CV!ToSet, CV!IsInjective
<1>1. /\ Len(s) \in Nat /\ Len(s) >= 1 /\ DOMAIN s = 1..Len(s) /\ \A i \in 1..Len(s) : s[i] \in T
      /\ Tail(s) \in Seq(T) /\ DOMAIN Tail(s) = 1..(Len(s) - 1) /\ Head(s) = s[1]
      /\ \A i \in 1..(Len(s) - 1) : Tail(s)[i] = s[i + 1]
  OBVIOUS
<1>2. 1 \in 1..Len(s) /\ \A i \in 1..(Len(s) - 1) : i + 1 \in 1..Len(s) /\ i + 1 # 1
  BY <1>1
<1>3. \A i \in 1..Len(s) : i # 1 => i - 1 \in 1..(Len(s) - 1) /\ (i - 1) + 1 = i
  BY <1>1
<1>4. Distinct(Tail(s))
  <2> SUFFICES ASSUME NEW i \in 1..(Len(s) - 1), NEW j \in 1..(Len(s) - 1), Tail(s)[i] = Tail(s)[j]
               PROVE  i = j
    BY <1>1
  <2>1. s[i + 1] = s[j + 1] /\ i + 1 \in DOMAIN s /\ j + 1 \in DOMAIN s
    BY <1>1, <1>2
  <2>2. i + 1 = j + 1
    BY <2>1
  <2> QED BY <2>2
<1>5. Elems(Tail(s)) \subseteq Elems(s) \ {s[1]}
  BY <1>1, <1>2
<1>6. ASSUME NEW x \in Elems(s), x # s[1] PROVE x \in Elems(Tail(s))
  <2>1. PICK i \in 1..Len(s) : x = s[i]
    BY <1>1
  <2>2. i # 1 /\ i - 1 \in DOMAIN Tail(s) /\ Tail(s)[i - 1] = x
    BY <1>1, <1>3, <1>6, <2>1
  <2> QED BY <2>2
<1> QED BY <1>1, <1>2, <1>4, <1>5, <1>6

LEMMA AppendFacts ==
  ASSUME NEW T, NEW s \in Seq(T), NEW x \in T, Distinct(s), x \notin Elems(s)
  PROVE  /\ Append(s, x) \in Seq(T) /\ Distinct(Append(s, x)) /\ Append(s, x) # <<>>
         /\ Elems(Append(s, x)) = Elems(s) \cup {x} /\ Len(Append(s, x)) = Len(s) + 1
<1> USE DEF Elems, Distinct, CV!ToSet, CV!IsInjective
<1> DEFINE a == Append(s, x)
<1>1. /\ Len(s) \in Nat /\ DOMAIN s = 1..Len(s) /\ a \in Seq(T) /\ Len(a) = Len(s) + 1
      /\ DOMAIN a = 1..(Len(s) + 1) /\ a[Len(s) + 1] = x /\ \A i \in 1..Len(s) : a[i] = s[i]
  OBVIOUS
<1> HIDE DEF a
<1>2. \A i \in 1..(Len(s) + 1) : i # Len(s) + 1 => i \in 1..Len(s)
  BY <1>1
<1>3. \A i \in 1..Len(s) : i \in 1..(Len(s) + 1) /\ s[i] # x
  BY <1>1
<1>4. Distinct(a)
  <2> SUFFICES ASSUME NEW i \in 1..(Len(s) + 1), NEW j \in 1..(Len(s) + 1), a[i] = a[j] PROVE i = j
    BY <1>1
  <2>1. CASE i # Len(s) + 1 /\ j # Len(s) + 1
    BY <1>1, <1>2, <2>1
  <2>2. CASE i = Len(s) + 1 \/ j = Len(s) + 1
    BY <1>1, <1>2, <1>3, <2>2
  <2> QED BY <2>1, <2>2
<1>5. Elems(a) \subseteq Elems(s) \cup {x}
  <2> SUFFICES ASSUME NEW i \in 1..(Len(s) + 1) PROVE a[i] \in Elems(s) \cup {x}
    BY <1>1
  <2> QED BY <1>1, <1>2
<1>6. Elems(s) \cup {x} \subseteq Elems(a)
  <2>1. x \in Elems(a)
    BY <1>1
  <2>2. \A i \in 1..Len(s) : s[i] \in Elems(a)
    BY <1>1, <1>3
  <2> QED BY <1>1, <2>1, <2>2
<1>7. a # <<>>
  BY <1>1
<1> QED BY <1>1, <1>4, <1>5, <1>6, <1>7 DEF a

\* The last element takes the place of the one that is removed.
SwapRemoved(s, i, r) ==
  /\ Len(r) = Len(s) - 1
  /\ \A j \in 1..(Len(s) - 1) : r[j] = IF j = i THEN s[Len(s)] ELSE s[j]

LEMMA SwapRemoveIs ==
  ASSUME NEW T, NEW s \in Seq(T), NEW i \in 1..Len(s)
  PROVE  CV!SwapRemove(s, i) \in Seq(T) /\ SwapRemoved(s, i, CV!SwapRemove(s, i))
<1> DEFINE r == [j \in 1..(Len(s) - 1) |-> IF j = i THEN s[Len(s)] ELSE s[j]]
<1>1. Len(s) - 1 \in Nat /\ \A j \in 1..(Len(s) - 1) : j \in 1..Len(s)
  OBVIOUS
<1>2. \A j \in 1..Len(s) : s[j] \in T
  OBVIOUS
<1>3. r \in [1..(Len(s) - 1) -> T]
  BY <1>1, <1>2
<1>4. r \in Seq(T) /\ Len(r) = Len(s) - 1
  BY <1>1, <1>3
<1> QED BY <1>4 DEF CV!SwapRemove, SwapRemoved

LEMMA SwapRemoveFacts ==
  ASSUME NEW T, NEW s \in Seq(T), NEW i \in 1..Len(s), Distinct(s),
         NEW r \in Seq(T), SwapRemoved(s, i, r)
  PROVE  Distinct(r) /\ Elems(r) = Elems(s) \ {s[i]}
<1> DEFINE n == Len(s)
<1>1. n \in Nat /\ DOMAIN s = 1..n /\ i \in 1..n /\ n \in 1..n /\ n - 1 \in Nat
  OBVIOUS
<1>2. \A j, k \in 1..n : s[j] = s[k] => j = k
  BY <1>1 DEF Distinct, CV!IsInjective
<1>3. Len(r) = n - 1 /\ DOMAIN r = 1..(n - 1)
  BY DEF SwapRemoved
<1>4. \A j \in 1..(n - 1) : r[j] = IF j = i THEN s[n] ELSE s[j]
  BY DEF SwapRemoved
<1> HIDE DEF n
<1>5. \A j \in 1..(n - 1) : j \in 1..n /\ j # n
  BY <1>1
<1>6. Distinct(r)
  <2> SUFFICES ASSUME NEW j \in 1..(n - 1), NEW k \in 1..(n - 1), r[j] = r[k] PROVE j = k
    BY <1>3 DEF Distinct, CV!IsInjective
  <2> QED BY <1>1, <1>2, <1>4, <1>5
<1>7. ASSUME NEW j \in 1..(n - 1) PROVE r[j] \in Elems(s) \ {s[i]}
  <2>1. r[j] # s[i]
    BY <1>1, <1>2, <1>4, <1>5
  <2>2. r[j] \in Elems(s)
    BY <1>1, <1>4, <1>5 DEF Elems, CV!ToSet
  <2> QED BY <2>1, <2>2
<1>8. ASSUME NEW x \in Elems(s), x # s[i] PROVE x \in Elems(r)
  <2>1. PICK j \in 1..n : x = s[j]
    BY <1>1 DEF Elems, CV!ToSet
  <2>2. PICK k : k = IF j = n THEN i ELSE j
    OBVIOUS
  <2>3. k \in 1..(n - 1)
    BY <1>1, <1>8, <2>1, <2>2
  <2>4. r[k] = x
    BY <1>4, <1>8, <2>1, <2>2, <2>3
  <2> QED BY <1>3, <2>3, <2>4 DEF Elems, CV!ToSet
<1>9. Elems(r) = Elems(s) \ {s[i]}
  <2>1. \A x \in Elems(r) : \E j \in 1..(n - 1) : x = r[j]
    BY <1>3 DEF Elems, CV!ToSet
  <2>2. Elems(r) \subseteq Elems(s) \ {s[i]}
    BY <1>7, <2>1
  <2>3. Elems(s) \ {s[i]} \subseteq Elems(r)
    BY <1>8
  <2> QED BY <2>2, <2>3
<1> QED BY <1>6, <1>9

-----------------------------------------------------------------------------
(* The scan of a notification.                                             *)

\* One turn of the loop: the element at i is taken, or stays.
Turn(s, n, i) ==
  IF Len(s.out) = n \/ ~CV!Matches(s.list[i]) THEN s
  ELSE [list |-> CV!SwapRemove(s.list, i), out |-> Append(s.out, s.list[i])]
\* The states of the loop over the first m turns.
Turns(f, n, m) ==
  f = [k \in 0..m |-> IF k = 0 THEN [list |-> waiters, out |-> <<>>]
                      ELSE Turn(f[k-1], n, Len(waiters) + 1 - k)]

LEMMA TurnsExist ==
  ASSUME NEW n, NEW m \in Nat
  PROVE  \E f : Turns(f, n, m)
<1> SUFFICES ASSUME ~ \E f : Turns(f, n, m) PROVE FALSE
  OBVIOUS
<1> DEFINE Without == {k \in Nat : ~ \E f : Turns(f, n, k)}
<1>1. PICK k \in Without : \A j \in Without : k <= j
  <2>1. Without \in SUBSET Nat /\ Without # {}
    OBVIOUS
  <2> HIDE DEF Without
  <2> QED BY <2>1, LeastNumber
<1>2. k \in Nat /\ ~ \E f : Turns(f, n, k)
  OBVIOUS
<1>3. CASE k = 0
  <2> DEFINE g == [i \in 0..0 |-> [list |-> waiters, out |-> <<>>]]
  <2>1. ASSUME NEW i \in 0..0
        PROVE  [list |-> waiters, out |-> <<>>]
               = IF i = 0 THEN [list |-> waiters, out |-> <<>>]
                 ELSE Turn(g[i-1], n, Len(waiters) + 1 - i)
    OBVIOUS
  <2>2. g = [i \in 0..0 |-> IF i = 0 THEN [list |-> waiters, out |-> <<>>]
                            ELSE Turn(g[i-1], n, Len(waiters) + 1 - i)]
    BY <2>1
  <2> HIDE DEF g
  <2>3. Turns(g, n, 0)
    BY <2>2 DEF Turns
  <2> QED BY <1>2, <1>3, <2>3
<1>4. CASE k # 0
  <2>1. k - 1 \in Nat /\ ~(k <= k - 1)
    BY <1>2, <1>4
  <2>2. PICK f : Turns(f, n, k - 1)
    BY <1>1, <2>1
  <2> DEFINE g == [i \in 0..k |-> IF i = k THEN Turn(f[k-1], n, Len(waiters) + 1 - k) ELSE f[i]]
  <2>3. ASSUME NEW i \in 0..k
        PROVE  g[i] = IF i = 0 THEN [list |-> waiters, out |-> <<>>]
                      ELSE Turn(g[i-1], n, Len(waiters) + 1 - i)
    <3>1. CASE i = k
      <4>1. g[i] = Turn(f[k-1], n, Len(waiters) + 1 - k)
        BY <3>1
      <4>2. i - 1 \in 0..k /\ i - 1 # k /\ i # 0
        BY <2>1, <3>1
      <4>3. g[i - 1] = f[k - 1]
        BY <3>1, <4>2
      <4> HIDE DEF g
      <4> QED BY <3>1, <4>1, <4>2, <4>3
    <3>2. CASE i # k
      <4>1. i \in 0..(k - 1) /\ g[i] = f[i]
        BY <2>1, <3>2
      <4>2. f[i] = IF i = 0 THEN [list |-> waiters, out |-> <<>>]
                   ELSE Turn(f[i-1], n, Len(waiters) + 1 - i)
        BY <2>2, <4>1 DEF Turns
      <4>3. i # 0 => i - 1 \in 0..k /\ i - 1 # k
        BY <2>1, <4>1
      <4>4. i # 0 => g[i - 1] = f[i - 1]
        BY <4>3
      <4> HIDE DEF g
      <4> QED BY <4>1, <4>2, <4>4
    <3> QED BY <3>1, <3>2
  <2>4. g = [i \in 0..k |-> g[i]]
    OBVIOUS
  <2> HIDE DEF g
  <2>5. g = [i \in 0..k |-> IF i = 0 THEN [list |-> waiters, out |-> <<>>]
                            ELSE Turn(g[i-1], n, Len(waiters) + 1 - i)]
    BY <2>3, <2>4
  <2>6. Turns(g, n, k)
    BY <2>5 DEF Turns
  <2> QED BY <1>2, <2>6
<1> QED BY <1>3, <1>4

LEMMA ScanIsTurns ==
  ASSUME NEW n, waiters \in Seq(Tasks)
  PROVE  \E f : Turns(f, n, Len(waiters)) /\ CV!Scan(n) = f[Len(waiters)]
<1>1. CV!Scan(n) = (CHOOSE f : Turns(f, n, Len(waiters)))[Len(waiters)]
  BY Zenon DEF CV!Scan, Turns, Turn
<1>2. \E f : Turns(f, n, Len(waiters))
  <2>1. Len(waiters) \in Nat
    OBVIOUS
  <2> QED BY <2>1, TurnsExist
<1>3. Turns(CHOOSE f : Turns(f, n, Len(waiters)), n, Len(waiters))
  BY <1>2, Zenon
<1> QED BY <1>1, <1>3, Zenon

\* After k turns: nothing is lost, and of those looked at who should go is gone, or n are.
Cut(s, n, k) ==
  /\ s.list \in Seq(Tasks) /\ s.out \in Seq(Tasks)
  /\ Len(s.list) + Len(s.out) = Len(waiters) /\ Len(s.out) <= k
  /\ Distinct(s.list) /\ Distinct(s.out)
  /\ Elems(s.list) \cap Elems(s.out) = {} /\ Elems(s.list) \cup Elems(s.out) = Elems(waiters)
  /\ Len(s.out) <= n
  /\ Len(s.out) < n =>
       \A j \in 1..Len(s.list) : j >= Len(waiters) + 1 - k => ~CV!Matches(s.list[j])

LEMMA TurnCuts ==
  ASSUME NEW n \in Nat, waiters \in Seq(Tasks), NEW s, NEW k \in 1..Len(waiters), Cut(s, n, k - 1)
  PROVE  Cut(Turn(s, n, Len(waiters) + 1 - k), n, k)
<1> DEFINE i == Len(waiters) + 1 - k
<1>1. /\ s.list \in Seq(Tasks) /\ s.out \in Seq(Tasks)
      /\ Len(s.list) + Len(s.out) = Len(waiters) /\ Len(s.out) <= k - 1
      /\ Distinct(s.list) /\ Distinct(s.out)
      /\ Elems(s.list) \cap Elems(s.out) = {} /\ Elems(s.list) \cup Elems(s.out) = Elems(waiters)
      /\ Len(s.out) <= n
      /\ Len(s.list) \in Nat /\ Len(s.out) \in Nat /\ Len(waiters) \in Nat
  <2>1. \A q \in Seq(Tasks) : Len(q) \in Nat
    OBVIOUS
  <2>2. s.list \in Seq(Tasks) /\ s.out \in Seq(Tasks)
    BY DEF Cut
  <2> QED BY <2>1, <2>2 DEF Cut
<1>a. k \in Int /\ 1 <= k /\ k <= Len(waiters)
  BY <1>1
<1>2. Len(s.out) < n =>
        \A j \in 1..Len(s.list) : j >= i + 1 => ~CV!Matches(s.list[j])
  <2>1. Len(waiters) + 1 - (k - 1) = i + 1
    BY <1>1, <1>a
  <2> HIDE DEF i
  <2> QED BY <2>1 DEF Cut
<1>3. i \in 1..Len(s.list) /\ i \in Int
  <2>1. i \in Int /\ i >= 1 /\ i <= Len(s.list)
    <3> DEFINE w == Len(waiters)
               l == Len(s.list)
               o == Len(s.out)
    <3>1. /\ w \in Nat /\ l \in Nat /\ o \in Nat /\ l + o = w /\ o <= k - 1
          /\ k \in Int /\ 1 <= k /\ k <= w
      BY <1>1, <1>a
    <3> HIDE DEF w, l, o
    <3>2. w + 1 - k \in Int /\ w + 1 - k >= 1 /\ w + 1 - k <= l
      BY <3>1
    <3> QED BY <3>2 DEF w, l
  <2> HIDE DEF i
  <2> QED BY <1>1, <2>1
<1> HIDE DEF i
<1>4. CASE Len(s.out) = n \/ ~CV!Matches(s.list[i])
  <2>1. Turn(s, n, i) = s
    BY <1>4 DEF Turn
  <2>2. Len(s.out) < n =>
          \A j \in 1..Len(s.list) : j >= i => ~CV!Matches(s.list[j])
    <3> SUFFICES ASSUME Len(s.out) < n, NEW j \in 1..Len(s.list), j >= i
                 PROVE  ~CV!Matches(s.list[j])
      OBVIOUS
    <3>1. CASE j = i
      BY <1>1, <1>4, <3>1
    <3>2. CASE j # i
      <4>1. j >= i + 1
        BY <1>3, <3>2
      <4> QED BY <1>2, <4>1
    <3> QED BY <3>1, <3>2
  <2>3. Len(s.out) <= k
    BY <1>1
  <2>4. Cut(s, n, k)
    BY <1>1, <2>2, <2>3 DEF Cut, i
  <2> QED BY <2>1, <2>4 DEF i
<1>5. CASE Len(s.out) # n /\ CV!Matches(s.list[i])
  <2> DEFINE x == s.list[i]
             l == CV!SwapRemove(s.list, i)
             o == Append(s.out, x)
             r == [list |-> l, out |-> o]
  <2>1. Turn(s, n, i) = r /\ r.list = l /\ r.out = o
    BY <1>5 DEF Turn
  <2>2. /\ l \in Seq(Tasks) /\ Len(l) = Len(s.list) - 1 /\ Distinct(l)
        /\ Elems(l) = Elems(s.list) \ {x}
        /\ \A j \in 1..(Len(s.list) - 1) : l[j] = IF j = i THEN s.list[Len(s.list)] ELSE s.list[j]
    <3>1. s.list \in Seq(Tasks) /\ i \in 1..Len(s.list) /\ Distinct(s.list)
      BY <1>1, <1>3
    <3>2. PICK q : q = s.list
      OBVIOUS
    <3>3. q \in Seq(Tasks) /\ i \in 1..Len(q) /\ Distinct(q)
      BY <3>1, <3>2
    <3>4. CV!SwapRemove(q, i) \in Seq(Tasks) /\ SwapRemoved(q, i, CV!SwapRemove(q, i))
      BY <3>3, SwapRemoveIs
    <3>5. l \in Seq(Tasks) /\ SwapRemoved(q, i, l)
      BY <3>2, <3>4
    <3> HIDE DEF l
    <3>6. Distinct(l) /\ Elems(l) = Elems(q) \ {q[i]}
      BY <3>3, <3>5, SwapRemoveFacts
    <3> QED BY <3>2, <3>5, <3>6 DEF SwapRemoved
  <2>3. x \in Tasks /\ x \in Elems(s.list)
    BY <1>1, <1>3 DEF Elems, CV!ToSet
  <2>4. x \notin Elems(s.out)
    BY <1>1, <2>3
  <2>5. /\ o \in Seq(Tasks) /\ Distinct(o) /\ Elems(o) = Elems(s.out) \cup {x}
        /\ Len(o) = Len(s.out) + 1
    BY <1>1, <2>3, <2>4, AppendFacts
  <2> HIDE DEF x, l, o
  <2>6. \A j \in 1..Len(l) : j >= i => ~CV!Matches(l[j])
    <3> SUFFICES ASSUME NEW j \in 1..Len(l), j >= i PROVE ~CV!Matches(l[j])
      OBVIOUS
    <3>1. Len(s.out) < n
      BY <1>1, <1>5
    <3>2. j \in 1..(Len(s.list) - 1)
      BY <2>2
    <3>3. CASE j = i
      <4>1. Len(s.list) \in 1..Len(s.list) /\ Len(s.list) >= i + 1
        BY <1>1, <1>3, <3>2, <3>3
      <4> QED BY <1>2, <2>2, <3>1, <3>2, <3>3, <4>1
    <3>4. CASE j # i
      <4>1. j \in 1..Len(s.list) /\ j >= i + 1
        BY <1>1, <1>3, <3>2, <3>4
      <4> QED BY <1>2, <2>2, <3>1, <3>2, <3>4, <4>1
    <3> QED BY <3>3, <3>4
  <2>7. Len(l) + Len(o) = Len(waiters) /\ Len(o) <= k /\ Len(o) <= n
    <3>1. Len(s.out) < n /\ n \in Int
      BY <1>1, <1>5
    <3>2. Len(l) = Len(s.list) - 1 /\ Len(o) = Len(s.out) + 1
      BY <2>2, <2>5
    <3> DEFINE w == Len(waiters)
               sl == Len(s.list)
               so == Len(s.out)
               nl == Len(l)
               no == Len(o)
    <3>3. /\ w \in Nat /\ sl \in Nat /\ so \in Nat /\ sl + so = w /\ so <= k - 1
          /\ k \in Int /\ n \in Int /\ nl = sl - 1 /\ no = so + 1 /\ so < n
      BY <1>1, <1>a, <3>1, <3>2
    <3> HIDE DEF w, sl, so, nl, no
    <3>4. nl + no = w /\ no <= k /\ no <= n
      BY <3>3
    <3> QED BY <3>4 DEF w, nl, no
  <2>8. Elems(l) \cap Elems(o) = {} /\ Elems(l) \cup Elems(o) = Elems(waiters)
    BY <1>1, <2>2, <2>3, <2>5
  <2> HIDE DEF r
  <2>9. Cut(r, n, k)
    BY <2>1, <2>2, <2>5, <2>6, <2>7, <2>8 DEF Cut, i
  <2> QED BY <2>1, <2>9 DEF i
<1> QED BY <1>4, <1>5

\* What get_n_waiters leaves and what it takes.
LEMMA ScanFacts ==
  ASSUME NEW n \in Nat, waiters \in Seq(Tasks), Distinct(waiters)
  PROVE  Cut(CV!Scan(n), n, Len(waiters))
<1>1. PICK f : Turns(f, n, Len(waiters)) /\ CV!Scan(n) = f[Len(waiters)]
  BY ScanIsTurns
<1>2. Len(waiters) \in Nat
  OBVIOUS
<1>3. ASSUME NEW j \in 0..Len(waiters), ~Cut(f[j], n, j) PROVE FALSE
  <2> DEFINE Bad == {i \in 0..Len(waiters) : ~Cut(f[i], n, i)}
  <2>1. PICK k \in Bad : \A i \in Bad : k <= i
    <3>1. Bad \in SUBSET Nat /\ Bad # {}
      BY <1>3
    <3> HIDE DEF Bad
    <3> QED BY <3>1, LeastNumber
  <2>2. k \in 0..Len(waiters) /\ ~Cut(f[k], n, k) /\ k \in Int
    OBVIOUS
  <2>3. CASE k = 0
    <3>1. f[0] = [list |-> waiters, out |-> <<>>]
      BY <1>1, <1>2 DEF Turns
    <3>2. <<>> \in Seq(Tasks) /\ Len(<<>>) = 0 /\ Distinct(<<>>) /\ Elems(<<>>) = {}
      BY DEF Distinct, Elems, CV!ToSet, CV!IsInjective
    <3>3. Cut(f[0], n, 0)
      BY <1>2, <3>1, <3>2 DEF Cut
    <3> QED BY <2>2, <2>3, <3>3
  <2>4. CASE k # 0
    <3>1. k \in 1..Len(waiters) /\ k - 1 \in 0..Len(waiters) /\ ~(k <= k - 1)
      BY <1>2, <2>2, <2>4
    <3>2. Cut(f[k - 1], n, k - 1)
      BY <2>1, <3>1
    <3>3. f[k] = Turn(f[k - 1], n, Len(waiters) + 1 - k)
      BY <1>1, <2>2, <2>4 DEF Turns
    <3>4. Cut(f[k], n, k)
      BY <3>1, <3>2, <3>3, TurnCuts
    <3> QED BY <2>2, <3>4
  <2> QED BY <2>3, <2>4
<1>4. Len(waiters) \in 0..Len(waiters)
  BY <1>2
<1>5. Cut(f[Len(waiters)], n, Len(waiters))
  BY <1>3, <1>4
<1> QED BY <1>1, <1>5

-----------------------------------------------------------------------------
(* The condvar's invariant.                                                *)

Held(th) == Elems(wake[th]) \cup ({kept[th]} \ {NoTask})

CondTypes ==
  /\ waiters \in Seq(Tasks)
  /\ lock \in Threads \cup {NoTask}
  /\ expected \in [Tasks -> Values]
  /\ tstate \in [Tasks -> {"ready", "running", "waiting", "done"}]
  /\ pc \in [Threads -> CV!Steps]
  /\ self \in [Threads -> Tasks \cup {NoTask}]
  /\ wake \in [Threads -> Seq(Tasks)]
  /\ kept \in [Threads -> Tasks \cup {NoTask}]

\* Which task a thread runs, and what it holds where it is.
CondControl ==
  /\ \A th \in Threads : /\ pc[th] = "idle" <=> self[th] = NoTask
                         /\ self[th] # NoTask => tstate[self[th]] = "running"
                         /\ wake[th] # <<>> <=> pc[th] = "wake"
                         /\ kept[th] # NoTask => pc[th] \in {"wake", "transfer"}
                         /\ pc[th] = "transfer" => kept[th] # NoTask
                         /\ lock = th <=> pc[th] = "push"
  /\ \A a, b \in Threads : self[a] = self[b] /\ self[a] # NoTask => a = b

\* A task that waits is in the vector or in one thread's list, once.
CondPlaces ==
  /\ \A t \in Tasks : tstate[t] = "waiting" <=>
       t \in Elems(waiters) \/ \E th \in Threads : t \in Held(th)
  /\ Distinct(waiters)
  /\ \A th \in Threads : /\ Distinct(wake[th]) /\ kept[th] \notin Elems(wake[th])
                         /\ Held(th) \cap Elems(waiters) = {}
                         /\ \A o \in Threads \ {th} : Held(th) \cap Held(o) = {}

\* Who is registered, or has looked under the lock and is about to be, waits for the
\* value that is there, unless somebody owes a notification.
CondSeen ==
  owes = {} => /\ \A t \in Elems(waiters) : expected[t] = value
               /\ \A th \in Threads : pc[th] = "push" => expected[self[th]] = value

CondInv == CondTypes /\ CondControl /\ CondPlaces /\ CondSeen

LEMMA CondInit == CV!Init => CondInv
<1> SUFFICES ASSUME CV!Init PROVE CondInv
  OBVIOUS
<1> USE DEF CV!Init
<1>1. <<>> \in Seq(Tasks) /\ Elems(<<>>) = {} /\ Distinct(<<>>)
  BY DEF Elems, Distinct, CV!ToSet, CV!IsInjective
<1>2. CondTypes
  BY <1>1 DEF CondTypes, CV!Steps
<1>3. CondControl
  BY NobodyAssumption DEF CondControl
<1>4. CondPlaces
  <2>1. \A th \in Threads : wake[th] = <<>> /\ kept[th] = NoTask /\ Held(th) = {}
    BY <1>1 DEF Held
  <2>2. \A t \in Tasks : tstate[t] # "waiting"
    OBVIOUS
  <2> QED BY <1>1, <2>1, <2>2 DEF CondPlaces
<1>5. CondSeen
  BY <1>1 DEF CondSeen
<1> QED BY <1>2, <1>3, <1>4, <1>5 DEF CondInv

\* What holds of the thread that takes a step.
LEMMA Runner ==
  ASSUME CondInv, NEW th \in Threads, pc[th] \in {"user", "await", "push"}
  PROVE  /\ self[th] \in Tasks /\ self[th] # NoTask /\ tstate[self[th]] = "running"
         /\ wake[th] = <<>> /\ kept[th] = NoTask /\ Held(th) = {}
         /\ self[th] \notin Elems(waiters) /\ \A o \in Threads : self[th] \notin Held(o)
<1>1. self[th] \in Tasks /\ self[th] # NoTask /\ tstate[self[th]] = "running"
      /\ wake[th] = <<>> /\ kept[th] = NoTask
  BY NobodyAssumption DEF CondInv, CondTypes, CondControl
<1>2. Held(th) = {}
  BY <1>1 DEF Held, Elems, CV!ToSet
<1>3. self[th] \notin Elems(waiters) /\ \A o \in Threads : self[th] \notin Held(o)
  BY <1>1 DEF CondInv, CondPlaces
<1> QED BY <1>1, <1>2, <1>3

\* Nobody moves between the lists and nobody begins or ceases to wait.
LEMMA PlacesFrame ==
  ASSUME CondInv, UNCHANGED <<waiters, wake, kept>>,
         \A t \in Tasks : tstate'[t] = "waiting" <=> tstate[t] = "waiting"
  PROVE  CondPlaces'
<1>1. \A th \in Threads : Held(th)' = Held(th)
  BY DEF Held
<1>2. Elems(waiters)' = Elems(waiters) /\ (Distinct(waiters)' <=> Distinct(waiters))
  OBVIOUS
<1>3. \A th \in Threads : (Distinct(wake[th])' <=> Distinct(wake[th]))
                          /\ Elems(wake[th])' = Elems(wake[th]) /\ kept'[th] = kept[th]
  OBVIOUS
<1>4. CondPlaces
  BY DEF CondInv
<1> QED BY <1>1, <1>2, <1>3, <1>4 DEF CondPlaces

\* Who holds what after a step of one thread.
LEMMA HeldOthers ==
  ASSUME CondInv, NEW th \in Threads, NEW w, NEW k,
         wake' = [wake EXCEPT ![th] = w], kept' = [kept EXCEPT ![th] = k]
  PROVE  /\ wake'[th] = w /\ kept'[th] = k /\ Held(th)' = Elems(w) \cup ({k} \ {NoTask})
         /\ \A o \in Threads \ {th} : /\ wake'[o] = wake[o] /\ kept'[o] = kept[o]
                                      /\ Held(o)' = Held(o)
                                      /\ Elems(wake[o])' = Elems(wake[o])
                                      /\ (Distinct(wake[o])' <=> Distinct(wake[o]))
<1>1. wake'[th] = w /\ kept'[th] = k
  BY DEF CondInv, CondTypes
<1>2. \A o \in Threads \ {th} : wake'[o] = wake[o] /\ kept'[o] = kept[o]
  BY DEF CondInv, CondTypes
<1>3. Held(th)' = Elems(w) \cup ({k} \ {NoTask})
  BY <1>1 DEF Held
<1>4. \A o \in Threads \ {th} : Held(o)' = Held(o)
  BY <1>2 DEF Held
<1> QED BY <1>1, <1>2, <1>3, <1>4

\* Dispatch, EndTask, Store, Await and the check under the lock.
LEMMA QuietStep ==
  ASSUME CondInv, NEW th \in Threads,
         \/ \E t \in Tasks : CV!Dispatch(th, t)
         \/ CV!EndTask(th) \/ CV!LockAndCheck(th)
         \/ \E v \in Values : CV!Store(th, v) \/ CV!Await(th, v)
  PROVE  CondInv'
<1>a. CondTypes /\ CondControl /\ CondSeen
  BY DEF CondInv
<1>1. ASSUME NEW t \in Tasks, CV!Dispatch(th, t) PROVE CondInv'
  <2>1. /\ pc[th] = "idle" /\ tstate[t] = "ready" /\ self[th] = NoTask
        /\ tstate' = [tstate EXCEPT ![t] = "running"]
        /\ self' = [self EXCEPT ![th] = t] /\ pc' = [pc EXCEPT ![th] = "user"]
        /\ UNCHANGED <<value, waiters, lock, expected, wake, kept, owes>>
    BY <1>1, <1>a DEF CV!Dispatch, CV!shared, CV!ghosts, CondControl
  <2>2. CondTypes'
    BY <1>a, <2>1 DEF CondTypes, CV!Steps
  <2>3. CondControl'
    <3>1. \A o \in Threads : self[o] # t
      BY <1>a, <2>1, NobodyAssumption DEF CondControl
    <3> QED BY <1>a, <2>1, <3>1, NobodyAssumption DEF CondControl, CondTypes
  <2>4. CondPlaces'
    BY <1>a, <2>1, PlacesFrame DEF CondTypes
  <2>5. CondSeen'
    BY <1>a, <2>1 DEF CondSeen, CondTypes
  <2> QED BY <2>2, <2>3, <2>4, <2>5 DEF CondInv
<1>2. CASE CV!EndTask(th)
  <2>1. /\ pc[th] = "user"
        /\ tstate' = [tstate EXCEPT ![self[th]] = "done"]
        /\ self' = [self EXCEPT ![th] = NoTask] /\ pc' = [pc EXCEPT ![th] = "idle"]
        /\ UNCHANGED <<value, waiters, lock, expected, wake, kept, owes>>
    BY <1>2 DEF CV!EndTask, CV!shared, CV!ghosts
  <2>2. self[th] \in Tasks /\ tstate[self[th]] = "running" /\ self[th] # NoTask
    BY <2>1, Runner
  <2>3. CondTypes'
    BY <1>a, <2>1, <2>2 DEF CondTypes, CV!Steps
  <2>4. CondControl'
    BY <1>a, <2>1, <2>2, NobodyAssumption DEF CondControl, CondTypes
  <2>5. CondPlaces'
    BY <1>a, <2>1, <2>2, PlacesFrame DEF CondTypes
  <2>6. CondSeen'
    BY <1>a, <2>1 DEF CondSeen, CondTypes
  <2> QED BY <2>3, <2>4, <2>5, <2>6 DEF CondInv
<1>3. CASE CV!LockAndCheck(th)
  <2>1. /\ pc[th] = "await" /\ lock = NoTask
        /\ \/ pc' = [pc EXCEPT ![th] = "user"] /\ lock' = lock
           \/ /\ value = expected[self[th]]
              /\ pc' = [pc EXCEPT ![th] = "push"] /\ lock' = th
        /\ UNCHANGED <<value, waiters, expected, tstate, self, wake, kept, owes>>
    <3>1. /\ pc[th] = "await" /\ lock = NoTask
          /\ UNCHANGED <<value, waiters, expected, tstate, self, wake, kept, owes>>
      BY <1>3 DEF CV!LockAndCheck, CV!sched, CV!ghosts
    <3>2. CASE value # expected[self[th]]
      BY <1>3, <3>1, <3>2 DEF CV!LockAndCheck
    <3>3. CASE value = expected[self[th]]
      BY <1>3, <3>1, <3>3 DEF CV!LockAndCheck
    <3> QED BY <3>1, <3>2, <3>3
  <2>2. self[th] \in Tasks
    BY <2>1, Runner
  <2>3. CondTypes'
    BY <1>a, <2>1 DEF CondTypes, CV!Steps
  <2>4. CondControl'
    BY <1>a, <2>1, NobodyAssumption DEF CondControl, CondTypes
  <2>5. CondPlaces'
    BY <2>1, PlacesFrame
  <2>6. CondSeen'
    BY <1>a, <2>1 DEF CondSeen, CondTypes
  <2> QED BY <2>3, <2>4, <2>5, <2>6 DEF CondInv
<1>4. ASSUME NEW v \in Values, CV!Store(th, v) PROVE CondInv'
  <2>1. /\ pc[th] = "user" /\ owes' = owes \cup {self[th]}
        /\ UNCHANGED <<waiters, lock, expected, tstate, pc, self, wake, kept>>
    BY <1>4 DEF CV!Store, CV!sched, CV!locals
  <2>2. CondTypes' /\ CondControl'
    BY <1>a, <2>1 DEF CondTypes, CondControl
  <2>3. CondPlaces'
    BY <2>1, PlacesFrame
  <2>4. CondSeen'
    BY <2>1 DEF CondSeen
  <2> QED BY <2>2, <2>3, <2>4 DEF CondInv
<1>5. ASSUME NEW v \in Values, CV!Await(th, v) PROVE CondInv'
  <2>1. /\ pc[th] = "user"
        /\ \/ UNCHANGED <<expected, pc>>
           \/ /\ expected' = [expected EXCEPT ![self[th]] = v]
              /\ pc' = [pc EXCEPT ![th] = "await"]
        /\ UNCHANGED <<value, waiters, lock, tstate, self, wake, kept, owes>>
    BY <1>5 DEF CV!Await, CV!ghosts
  <2>2. self[th] \in Tasks /\ self[th] # NoTask /\ self[th] \notin Elems(waiters)
    BY <2>1, Runner
  <2>3. CondTypes'
    BY <1>a, <2>1 DEF CondTypes, CV!Steps
  <2>4. CondControl'
    BY <1>a, <2>1 DEF CondControl, CondTypes
  <2>5. CondPlaces'
    BY <2>1, PlacesFrame
  <2>6. CondSeen'
    <3> SUFFICES ASSUME owes = {}
                 PROVE  /\ \A t \in Elems(waiters) : expected'[t] = value
                        /\ \A o \in Threads : pc'[o] = "push" => expected'[self[o]] = value
      BY <2>1 DEF CondSeen
    <3>1. \A t \in Tasks : t # self[th] => expected'[t] = expected[t]
      <4>1. expected \in [Tasks -> Values]
        BY <1>a DEF CondTypes
      <4>2. expected' = expected \/ expected' = [expected EXCEPT ![self[th]] = v]
        BY <2>1
      <4> QED BY <4>1, <4>2
    <3>2. \A o \in Threads : pc'[o] = "push" => pc[o] = "push" /\ o # th
      <4>1. pc \in [Threads -> CV!Steps]
        BY <1>a DEF CondTypes
      <4>2. pc' = pc \/ pc' = [pc EXCEPT ![th] = "await"]
        BY <2>1
      <4> QED BY <2>1, <4>1, <4>2
    <3>3. \A o \in Threads : o # th => self[o] # self[th]
      BY <1>a, <2>2 DEF CondControl
    <3>4. Elems(waiters) \subseteq Tasks
      BY <1>a DEF CondTypes, Elems, CV!ToSet
    <3>5. \A o \in Threads : pc[o] = "push" => self[o] \in Tasks
      BY Runner
    <3> QED BY <1>a, <2>2, <3>1, <3>2, <3>3, <3>4, <3>5 DEF CondSeen
  <2> QED BY <2>3, <2>4, <2>5, <2>6 DEF CondInv
<1> QED BY <1>1, <1>2, <1>3, <1>4, <1>5

LEMMA AddWaiterStep ==
  ASSUME CondInv, NEW th \in Threads, CV!Push(th)
  PROVE  CondInv'
<1>a. CondTypes /\ CondControl /\ CondPlaces /\ CondSeen
  BY DEF CondInv
<1> DEFINE t == self[th]
<1>1. /\ pc[th] = "push"
      /\ waiters' = Append(waiters, t) /\ lock' = NoTask
      /\ tstate' = [tstate EXCEPT ![t] = "waiting"]
      /\ self' = [self EXCEPT ![th] = NoTask]
      /\ pc' = [pc EXCEPT ![th] = "idle"]
      /\ UNCHANGED <<value, expected, wake, kept, owes>>
  BY DEF CV!Push
<1>2. /\ t \in Tasks /\ t # NoTask /\ tstate[t] = "running"
      /\ t \notin Elems(waiters) /\ \A o \in Threads : t \notin Held(o)
  BY <1>1, Runner
<1> HIDE DEF t
<1>3. /\ waiters' \in Seq(Tasks) /\ Distinct(waiters')
      /\ Elems(waiters') = Elems(waiters) \cup {t}
  BY <1>a, <1>1, <1>2, AppendFacts DEF CondTypes, CondPlaces
<1>4. CondTypes'
  BY <1>a, <1>1, <1>2, <1>3 DEF CondTypes, CV!Steps
<1>5. CondControl'
  <2>1. lock = th
    BY <1>a, <1>1 DEF CondControl
  <2>2. \A o \in Threads : o # th => self[o] # t
    BY <1>a, <1>2 DEF CondControl, t
  <2> QED BY <1>a, <1>1, <1>2, <2>1, <2>2, NobodyAssumption DEF CondControl, CondTypes
<1>6. CondPlaces'
  <2>1. \A o \in Threads : /\ Held(o)' = Held(o) /\ Elems(wake[o])' = Elems(wake[o])
                           /\ (Distinct(wake[o])' <=> Distinct(wake[o])) /\ kept'[o] = kept[o]
    BY <1>1 DEF Held
  <2>2. \A x \in Tasks : tstate'[x] = "waiting" <=> tstate[x] = "waiting" \/ x = t
    BY <1>a, <1>1 DEF CondTypes
  <2>3. \A x \in Tasks : tstate'[x] = "waiting" <=>
          x \in Elems(waiters') \/ \E o \in Threads : x \in Held(o)'
    BY <1>a, <1>3, <2>1, <2>2 DEF CondPlaces
  <2>4. \A o \in Threads : Held(o)' \cap Elems(waiters') = {}
    BY <1>a, <1>2, <1>3, <2>1 DEF CondPlaces
  <2>5. \A o \in Threads : \A q \in Threads \ {o} : Held(o)' \cap Held(q)' = {}
    BY <1>a, <2>1 DEF CondPlaces
  <2>6. \A o \in Threads : Distinct(wake'[o]) /\ kept'[o] \notin Elems(wake'[o])
    BY <1>a, <1>1 DEF CondPlaces
  <2> QED BY <1>3, <2>3, <2>4, <2>5, <2>6 DEF CondPlaces
<1>7. CondSeen'
  <2> SUFFICES ASSUME owes = {}
               PROVE  /\ \A x \in Elems(waiters') : expected[x] = value
                      /\ \A o \in Threads : pc'[o] = "push" => expected[self'[o]] = value
    BY <1>1 DEF CondSeen
  <2>1. expected[t] = value
    BY <1>a, <1>1 DEF CondSeen, t
  <2>2. \A o \in Threads : pc'[o] = "push" => pc[o] = "push" /\ self'[o] = self[o]
    BY <1>a, <1>1 DEF CondTypes
  <2> QED BY <1>a, <1>3, <2>1, <2>2 DEF CondSeen
<1> QED BY <1>4, <1>5, <1>6, <1>7 DEF CondInv

LEMMA NotifyStep ==
  ASSUME CondInv, NEW th \in Threads, NEW n \in Nat, NEW s \in BOOLEAN, CV!Notify(th, n, s)
  PROVE  CondInv'
<1>a. CondTypes /\ CondControl /\ CondPlaces /\ CondSeen
  BY DEF CondInv
<1> DEFINE found == CV!Scan(n)
           left == found.list
           out == found.out
           keep == s /\ out # <<>>
           k == IF keep THEN out[1] ELSE NoTask
           w == IF keep THEN Tail(out) ELSE out
<1>1. /\ pc[th] = "user" /\ lock = NoTask
      /\ waiters' = left
      /\ owes' = IF Len(out) < n THEN owes \ {self[th]} ELSE owes
      /\ kept' = [kept EXCEPT ![th] = k]
      /\ wake' = [wake EXCEPT ![th] = w]
      /\ pc' = [pc EXCEPT ![th] = IF wake'[th] # <<>> THEN "wake"
                                  ELSE IF keep THEN "transfer" ELSE "user"]
      /\ UNCHANGED <<value, lock, expected, tstate, self>>
  BY Zenon DEF CV!Notify, CV!sched
<1>2. /\ left \in Seq(Tasks) /\ out \in Seq(Tasks)
      /\ Distinct(left) /\ Distinct(out)
      /\ Elems(left) \cap Elems(out) = {} /\ Elems(left) \cup Elems(out) = Elems(waiters)
      /\ Len(out) < n => \A x \in Elems(left) : expected[x] = value
  <2>1. Cut(found, n, Len(waiters))
    BY <1>a, ScanFacts DEF CondTypes, CondPlaces
  <2>2. Len(waiters) \in Nat
    BY <1>a DEF CondTypes
  <2> HIDE DEF found
  <2>3. \A j \in 1..Len(left) : j >= Len(waiters) + 1 - Len(waiters)
    BY <2>2
  <2>4. Len(out) < n => \A j \in 1..Len(left) : expected[left[j]] = value
    BY <2>1, <2>3 DEF Cut, CV!Matches
  <2>5. left \in Seq(Tasks)
    BY <2>1 DEF Cut
  <2>6. \A x \in Elems(left) : \E j \in 1..Len(left) : x = left[j]
    BY <2>5 DEF Elems, CV!ToSet
  <2>7. Len(out) < n => \A x \in Elems(left) : expected[x] = value
    BY <2>4, <2>6
  <2> QED BY <2>1, <2>7 DEF Cut
<1> HIDE DEF found
<1>3. /\ w \in Seq(Tasks) /\ Distinct(w) /\ k \in Tasks \cup {NoTask} /\ k \notin Elems(w)
      /\ Elems(w) \cup ({k} \ {NoTask}) = Elems(out)
      /\ keep <=> k # NoTask
  <2>1. CASE keep
    <3>1. /\ Tail(out) \in Seq(Tasks) /\ Distinct(Tail(out)) /\ out[1] \in Tasks
          /\ out[1] \in Elems(out) /\ Elems(Tail(out)) = Elems(out) \ {out[1]}
      BY <1>2, <2>1, TailFacts
    <3> QED BY <2>1, <3>1, NobodyAssumption
  <2>2. CASE ~keep
    <3>1. Elems(out) \subseteq Tasks
      BY <1>2 DEF Elems, CV!ToSet
    <3> QED BY <1>2, <2>2, <3>1, NobodyAssumption
  <2> QED BY <2>1, <2>2
<1> HIDE DEF keep, k, w, left, out
<1>4. /\ wake'[th] = w /\ kept'[th] = k /\ Held(th)' = Elems(out)
      /\ \A o \in Threads \ {th} : /\ wake'[o] = wake[o] /\ kept'[o] = kept[o]
                                   /\ Held(o)' = Held(o)
                                   /\ Elems(wake[o])' = Elems(wake[o])
                                   /\ (Distinct(wake[o])' <=> Distinct(wake[o]))
  BY <1>1, <1>3, HeldOthers
<1>5. Held(th) = {}
  BY <1>1, Runner
<1>6. CondTypes'
  BY <1>a, <1>1, <1>2, <1>3 DEF CondTypes, CV!Steps
<1>7. CondControl'
  <2>1. pc'[th] = (IF w # <<>> THEN "wake" ELSE IF keep THEN "transfer" ELSE "user")
        /\ \A o \in Threads : o # th => pc'[o] = pc[o]
    BY <1>a, <1>1, <1>4 DEF CondTypes
  <2>2. self[th] # NoTask
    BY <1>1, Runner
  <2>3. /\ pc'[th] = "idle" <=> self[th] = NoTask
        /\ self[th] # NoTask => tstate[self[th]] = "running"
        /\ wake'[th] # <<>> <=> pc'[th] = "wake"
        /\ kept'[th] # NoTask => pc'[th] \in {"wake", "transfer"}
        /\ pc'[th] = "transfer" => kept'[th] # NoTask
        /\ lock = th <=> pc'[th] = "push"
    BY <1>a, <1>1, <1>3, <1>4, <2>1, <2>2, NobodyAssumption DEF CondControl
  <2> QED BY <1>a, <1>1, <1>4, <2>1, <2>3 DEF CondControl
<1>8. CondPlaces'
  <2>1. \A x \in Tasks : tstate'[x] = "waiting" <=>
          x \in Elems(waiters') \/ \E o \in Threads : x \in Held(o)'
    BY <1>a, <1>1, <1>2, <1>4, <1>5 DEF CondPlaces
  <2>2. \A o \in Threads : Held(o)' \cap Elems(waiters') = {}
    BY <1>a, <1>1, <1>2, <1>4 DEF CondPlaces
  <2>3. \A o \in Threads : \A q \in Threads \ {o} : Held(o)' \cap Held(q)' = {}
    <3>1. \A o \in Threads \ {th} : Held(o)' \cap Held(th)' = {}
      BY <1>a, <1>2, <1>4 DEF CondPlaces
    <3>2. \A o, q \in Threads \ {th} : o # q => Held(o)' \cap Held(q)' = {}
      BY <1>a, <1>4 DEF CondPlaces
    <3> QED BY <3>1, <3>2
  <2>4. \A o \in Threads : Distinct(wake'[o]) /\ kept'[o] \notin Elems(wake'[o])
    BY <1>a, <1>3, <1>4 DEF CondPlaces
  <2> QED BY <1>1, <1>2, <2>1, <2>2, <2>3, <2>4 DEF CondPlaces
<1>9. CondSeen'
  <2>1. \A o \in Threads : pc'[o] # "push"
    BY <1>a, <1>1, <1>7, NobodyAssumption DEF CondControl
  <2>2. ASSUME owes' = {} PROVE \A x \in Elems(waiters') : expected'[x] = value'
    <3>1. CASE Len(out) < n
      BY <1>1, <1>2, <3>1
    <3>2. CASE ~(Len(out) < n)
      <4>1. owes = {}
        BY <1>1, <2>2, <3>2
      <4> QED BY <1>a, <1>1, <1>2, <4>1 DEF CondSeen
    <3> QED BY <3>1, <3>2
  <2> QED BY <2>1, <2>2 DEF CondSeen
<1> QED BY <1>6, <1>7, <1>8, <1>9 DEF CondInv

\* A step of th lets x go and is left with the list w to wake and k to transfer to.
Releases(th, x, w, k) ==
  /\ x \in Held(th)
  /\ Distinct(w) /\ k \notin Elems(w)
  /\ Elems(w) \cup ({k} \ {NoTask}) = Held(th) \ {x}
  /\ wake' = [wake EXCEPT ![th] = w]
  /\ kept' = [kept EXCEPT ![th] = k]
  /\ waiters' = waiters
  /\ tstate'[x] # "waiting"
  /\ \A t \in Tasks : t # x => (tstate'[t] = "waiting" <=> tstate[t] = "waiting")

\* One who waited in the hands of th goes on.
LEMMA Released ==
  ASSUME CondInv, NEW th \in Threads, NEW x \in Tasks, NEW w, NEW k, Releases(th, x, w, k)
  PROVE  CondPlaces'
<1>h. /\ x \in Held(th)
      /\ Distinct(w) /\ k \notin Elems(w)
      /\ Elems(w) \cup ({k} \ {NoTask}) = Held(th) \ {x}
      /\ wake' = [wake EXCEPT ![th] = w]
      /\ kept' = [kept EXCEPT ![th] = k]
      /\ waiters' = waiters
      /\ tstate'[x] # "waiting"
      /\ \A t \in Tasks : t # x => (tstate'[t] = "waiting" <=> tstate[t] = "waiting")
  BY DEF Releases
<1>a. CondPlaces
  BY DEF CondInv
<1>1. /\ wake'[th] = w /\ kept'[th] = k /\ Held(th)' = Held(th) \ {x}
      /\ \A o \in Threads \ {th} : /\ wake'[o] = wake[o] /\ kept'[o] = kept[o]
                                   /\ Held(o)' = Held(o)
                                   /\ Elems(wake[o])' = Elems(wake[o])
                                   /\ (Distinct(wake[o])' <=> Distinct(wake[o]))
  BY <1>h, HeldOthers
<1>2. x \notin Elems(waiters) /\ \A o \in Threads \ {th} : x \notin Held(o)
  BY <1>a, <1>h DEF CondPlaces
<1>3. \A t \in Tasks : tstate'[t] = "waiting" <=> tstate[t] = "waiting" /\ t # x
  BY <1>h
<1>4. \A t \in Tasks : tstate'[t] = "waiting" <=>
        t \in Elems(waiters') \/ \E o \in Threads : t \in Held(o)'
  <2> SUFFICES ASSUME NEW t \in Tasks
               PROVE  tstate'[t] = "waiting" <=>
                        t \in Elems(waiters) \/ \E o \in Threads : t \in Held(o)'
    BY <1>h
  <2>1. CASE t = x
    BY <1>1, <1>2, <1>3, <2>1
  <2>2. CASE t # x
    <3>1. \A o \in Threads : t \in Held(o)' <=> t \in Held(o)
      BY <1>1, <2>2
    <3> QED BY <1>a, <1>3, <2>2, <3>1 DEF CondPlaces
  <2> QED BY <2>1, <2>2
<1>5. \A o \in Threads : Held(o)' \subseteq Held(o)
  BY <1>1
<1>6. \A o \in Threads : /\ Held(o)' \cap Elems(waiters') = {}
                         /\ \A q \in Threads \ {o} : Held(o)' \cap Held(q)' = {}
  BY <1>a, <1>h, <1>5 DEF CondPlaces
<1>7. \A o \in Threads : Distinct(wake'[o]) /\ kept'[o] \notin Elems(wake'[o])
  BY <1>a, <1>h, <1>1 DEF CondPlaces
<1>8. Distinct(waiters')
  BY <1>a, <1>h DEF CondPlaces
<1> QED BY <1>4, <1>6, <1>7, <1>8 DEF CondPlaces

LEMMA ResumeStep ==
  ASSUME CondInv, NEW th \in Threads, CV!Resume(th)
  PROVE  CondInv'
<1>a. CondTypes /\ CondControl /\ CondPlaces /\ CondSeen
  BY DEF CondInv
<1> DEFINE x == Head(wake[th])
           w == Tail(wake[th])
<1>1. /\ pc[th] = "wake"
      /\ tstate' = [tstate EXCEPT ![x] = "ready"]
      /\ wake' = [wake EXCEPT ![th] = w]
      /\ pc' = [pc EXCEPT ![th] = IF wake'[th] # <<>> THEN "wake"
                                  ELSE IF kept[th] # NoTask THEN "transfer" ELSE "user"]
      /\ UNCHANGED <<value, waiters, lock, expected, self, kept, owes>>
  BY DEF CV!Resume, CV!shared, CV!ghosts
<1>2. wake[th] \in Seq(Tasks) /\ wake[th] # <<>> /\ Distinct(wake[th])
  BY <1>a, <1>1 DEF CondTypes, CondControl, CondPlaces
<1>3. /\ w \in Seq(Tasks) /\ Distinct(w) /\ x \in Tasks /\ x \in Elems(wake[th])
      /\ Elems(w) = Elems(wake[th]) \ {x}
  BY <1>2, TailFacts
<1> HIDE DEF x, w
<1>4. wake'[th] = w /\ \A o \in Threads : o # th => wake'[o] = wake[o]
  BY <1>a, <1>1 DEF CondTypes
<1>5. x \in Held(th) /\ x # kept[th] /\ tstate[x] = "waiting"
  BY <1>a, <1>3 DEF CondPlaces, Held
<1>6. CondTypes'
  BY <1>a, <1>1, <1>3, <1>4 DEF CondTypes, CV!Steps
<1>7. CondControl'
  <2>1. \A o \in Threads : self[o] # NoTask => self[o] # x
    BY <1>a, <1>5 DEF CondControl
  <2>2. pc'[th] = (IF w # <<>> THEN "wake" ELSE IF kept[th] # NoTask THEN "transfer" ELSE "user")
        /\ \A o \in Threads : o # th => pc'[o] = pc[o]
    BY <1>a, <1>1, <1>4 DEF CondTypes
  <2>3. \A o \in Threads : self[o] # NoTask => tstate'[self[o]] = "running"
    BY <1>a, <1>1, <1>3, <2>1 DEF CondControl, CondTypes
  <2>4. /\ pc'[th] = "idle" <=> self[th] = NoTask
        /\ wake'[th] # <<>> <=> pc'[th] = "wake"
        /\ kept[th] # NoTask => pc'[th] \in {"wake", "transfer"}
        /\ pc'[th] = "transfer" => kept[th] # NoTask
        /\ lock = th <=> pc'[th] = "push"
    BY <1>a, <1>1, <1>4, <2>2, NobodyAssumption DEF CondControl
  <2> QED BY <1>a, <1>1, <1>4, <2>2, <2>3, <2>4 DEF CondControl
<1>8. CondPlaces'
  <2>1. Elems(w) \cup ({kept[th]} \ {NoTask}) = Held(th) \ {x}
    BY <1>3, <1>5 DEF Held
  <2>2. kept[th] \notin Elems(w) /\ kept[th] \in Tasks \cup {NoTask}
        /\ kept' = [kept EXCEPT ![th] = kept[th]]
    BY <1>a, <1>1, <1>3 DEF CondPlaces, CondTypes
  <2>3. tstate'[x] # "waiting" /\ \A t \in Tasks : t # x => tstate'[t] = tstate[t]
    BY <1>a, <1>1, <1>3 DEF CondTypes
  <2>4. Releases(th, x, w, kept[th])
    BY <1>1, <1>3, <1>5, <2>1, <2>2, <2>3 DEF Releases
  <2> QED BY <1>3, <2>4, Released
<1>9. CondSeen'
  <2>1. \A o \in Threads : pc'[o] = "push" => pc[o] = "push"
    BY <1>a, <1>1 DEF CondTypes
  <2> QED BY <1>a, <1>1, <2>1 DEF CondSeen
<1> QED BY <1>6, <1>7, <1>8, <1>9 DEF CondInv

LEMMA TransferStep ==
  ASSUME CondInv, NEW th \in Threads, CV!Transfer(th)
  PROVE  CondInv'
<1>a. CondTypes /\ CondControl /\ CondPlaces /\ CondSeen
  BY DEF CondInv
<1> DEFINE x == kept[th]
           me == self[th]
<1>1. /\ pc[th] = "transfer"
      /\ kept' = [kept EXCEPT ![th] = NoTask]
      /\ pc' = [pc EXCEPT ![th] = "user"]
      /\ \/ /\ tstate' = [tstate EXCEPT ![x] = "running", ![me] = "ready"]
            /\ self' = [self EXCEPT ![th] = x]
         \/ /\ tstate' = [tstate EXCEPT ![x] = "ready"]
            /\ self' = self
      /\ UNCHANGED <<value, waiters, lock, expected, wake, owes>>
  BY DEF CV!Transfer, CV!shared, CV!ghosts
<1>2. /\ x \in Tasks /\ x # NoTask /\ me \in Tasks /\ me # NoTask /\ tstate[me] = "running"
      /\ wake[th] = <<>> /\ lock # th
  BY <1>a, <1>1, NobodyAssumption DEF CondTypes, CondControl
<1>3. Held(th) = {x} /\ tstate[x] = "waiting" /\ x # me
  <2>1. Held(th) = {x}
    BY <1>2 DEF Held, Elems, CV!ToSet
  <2> QED BY <1>a, <1>2, <2>1 DEF CondPlaces
<1> HIDE DEF x
<1>4. /\ tstate'[x] # "waiting" /\ tstate'[me] # "waiting" /\ tstate'[self'[th]] = "running"
      /\ \A t \in Tasks : t # x /\ t # me => tstate'[t] = tstate[t]
      /\ \A o \in Threads : o # th => self'[o] = self[o]
      /\ self'[th] \in {x, me}
      /\ tstate' \in [Tasks -> {"ready", "running", "waiting", "done"}]
      /\ self' \in [Threads -> Tasks \cup {NoTask}]
  <2>1. CASE /\ tstate' = [tstate EXCEPT ![x] = "running", ![me] = "ready"]
             /\ self' = [self EXCEPT ![th] = x]
    BY <1>a, <1>2, <1>3, <2>1 DEF CondTypes
  <2>2. CASE tstate' = [tstate EXCEPT ![x] = "ready"] /\ self' = self
    BY <1>a, <1>2, <1>3, <2>2 DEF CondTypes
  <2> QED BY <1>1, <2>1, <2>2
<1>5. CondTypes'
  BY <1>a, <1>1, <1>4 DEF CondTypes, CV!Steps
<1>6. \A o \in Threads : o # th => self[o] # me /\ (self[o] # NoTask => self[o] # x)
  BY <1>a, <1>2, <1>3 DEF CondControl
<1> HIDE DEF me
<1>7. CondControl'
  <2>1. /\ pc'[th] = "user" /\ kept'[th] = NoTask /\ wake'[th] = <<>>
        /\ \A o \in Threads : o # th => pc'[o] = pc[o] /\ kept'[o] = kept[o] /\ wake'[o] = wake[o]
    BY <1>a, <1>1, <1>2 DEF CondTypes
  <2>2. \A o \in Threads : self'[o] # NoTask => tstate'[self'[o]] = "running"
    <3>1. \A o \in Threads : o # th /\ self[o] # NoTask => self[o] \in Tasks
      BY <1>a DEF CondTypes
    <3> QED BY <1>a, <1>4, <1>6, <3>1 DEF CondControl
  <2>3. \A a, b \in Threads : self'[a] = self'[b] /\ self'[a] # NoTask => a = b
    BY <1>a, <1>4, <1>6 DEF CondControl
  <2>4. \A o \in Threads : pc'[o] = "idle" <=> self'[o] = NoTask
    BY <1>a, <1>2, <1>4, <2>1 DEF CondControl
  <2>5. \A o \in Threads : lock = o <=> pc'[o] = "push"
    BY <1>a, <1>2, <2>1 DEF CondControl
  <2> QED BY <1>a, <1>1, <2>1, <2>2, <2>3, <2>4, <2>5 DEF CondControl
<1>8. CondPlaces'
  <2>1. <<>> \in Seq(Tasks) /\ Distinct(<<>>) /\ Elems(<<>>) = {}
    BY DEF Elems, Distinct, CV!ToSet, CV!IsInjective
  <2>2. wake' = [wake EXCEPT ![th] = <<>>]
    BY <1>a, <1>1, <1>2 DEF CondTypes
  <2>3. \A t \in Tasks : t # x => (tstate'[t] = "waiting" <=> tstate[t] = "waiting")
    BY <1>2, <1>4 DEF me
  <2>4. x \in Held(th) /\ NoTask \notin Elems(<<>>)
        /\ Elems(<<>>) \cup ({NoTask} \ {NoTask}) = Held(th) \ {x}
    BY <1>3, <2>1
  <2>5. Releases(th, x, <<>>, NoTask)
    BY <1>1, <1>4, <2>1, <2>2, <2>3, <2>4 DEF Releases
  <2> QED BY <1>2, <2>5, Released
<1>9. CondSeen'
  <2>1. \A o \in Threads : pc'[o] = "push" => pc[o] = "push" /\ self'[o] = self[o]
    BY <1>a, <1>1, <1>4 DEF CondTypes
  <2> QED BY <1>a, <1>1, <2>1 DEF CondSeen
<1> QED BY <1>5, <1>7, <1>8, <1>9 DEF CondInv

LEMMA DestroyStep ==
  ASSUME CondInv, NEW th \in Threads, CV!Destroy(th)
  PROVE  CondInv'
<1>a. CondTypes /\ CondControl /\ CondPlaces /\ CondSeen
  BY DEF CondInv
<1>1. /\ pc[th] = "user" /\ \A o \in Threads : pc[o] # "push"
      /\ waiters' = <<>>
      /\ wake' = [wake EXCEPT ![th] = waiters]
      /\ pc' = [pc EXCEPT ![th] = IF waiters = <<>> THEN "user" ELSE "wake"]
      /\ UNCHANGED <<value, lock, expected, tstate, self, kept, owes>>
  BY DEF CV!Destroy, CV!sched
<1>2. <<>> \in Seq(Tasks) /\ Distinct(<<>>) /\ Elems(<<>>) = {}
  BY DEF Elems, Distinct, CV!ToSet, CV!IsInjective
<1>3. /\ self[th] \in Tasks /\ self[th] # NoTask /\ kept[th] = NoTask /\ Held(th) = {}
  BY <1>1, Runner
<1>4. Elems(waiters) \subseteq Tasks
  BY <1>a DEF CondTypes, Elems, CV!ToSet
<1>5. /\ wake'[th] = waiters /\ kept'[th] = NoTask /\ Held(th)' = Elems(waiters)
      /\ \A o \in Threads \ {th} : /\ wake'[o] = wake[o] /\ kept'[o] = kept[o]
                                   /\ Held(o)' = Held(o)
                                   /\ Elems(wake[o])' = Elems(wake[o])
                                   /\ (Distinct(wake[o])' <=> Distinct(wake[o]))
  <2>1. kept' = [kept EXCEPT ![th] = NoTask]
    BY <1>a, <1>1, <1>3 DEF CondTypes
  <2>2. PICK w : w = waiters
    OBVIOUS
  <2>3. wake' = [wake EXCEPT ![th] = w]
    BY <1>1, <2>2
  <2>4. /\ wake'[th] = w /\ kept'[th] = NoTask
        /\ Held(th)' = Elems(w) \cup ({NoTask} \ {NoTask})
        /\ \A o \in Threads \ {th} : /\ wake'[o] = wake[o] /\ kept'[o] = kept[o]
                                     /\ Held(o)' = Held(o)
                                     /\ Elems(wake[o])' = Elems(wake[o])
                                     /\ (Distinct(wake[o])' <=> Distinct(wake[o]))
    BY <2>1, <2>3, HeldOthers
  <2> QED BY <2>2, <2>4
<1>6. CondTypes'
  BY <1>a, <1>1, <1>2 DEF CondTypes, CV!Steps
<1>7. CondControl'
  <2>1. pc'[th] = (IF waiters = <<>> THEN "user" ELSE "wake")
        /\ \A o \in Threads : o # th => pc'[o] = pc[o]
    BY <1>a, <1>1 DEF CondTypes
  <2>2. /\ pc'[th] = "idle" <=> self[th] = NoTask
        /\ wake'[th] # <<>> <=> pc'[th] = "wake"
        /\ kept'[th] # NoTask => pc'[th] \in {"wake", "transfer"}
        /\ pc'[th] = "transfer" => kept'[th] # NoTask
        /\ lock = th <=> pc'[th] = "push"
    BY <1>a, <1>1, <1>3, <1>5, <2>1 DEF CondControl
  <2> QED BY <1>a, <1>1, <1>5, <2>1, <2>2 DEF CondControl
<1>8. CondPlaces'
  <2>1. \A x \in Tasks : tstate'[x] = "waiting" <=>
          x \in Elems(waiters') \/ \E o \in Threads : x \in Held(o)'
    BY <1>a, <1>1, <1>2, <1>3, <1>5 DEF CondPlaces
  <2>2. \A o \in Threads : Held(o)' \cap Elems(waiters') = {}
    BY <1>1, <1>2
  <2>3. \A o \in Threads : \A q \in Threads \ {o} : Held(o)' \cap Held(q)' = {}
    <3>1. \A o \in Threads \ {th} : Held(o)' \cap Held(th)' = {}
      BY <1>a, <1>5 DEF CondPlaces
    <3>2. \A o, q \in Threads \ {th} : o # q => Held(o)' \cap Held(q)' = {}
      BY <1>a, <1>5 DEF CondPlaces
    <3> QED BY <3>1, <3>2
  <2>4. \A o \in Threads : Distinct(wake'[o]) /\ kept'[o] \notin Elems(wake'[o])
    BY <1>a, <1>4, <1>5, NobodyAssumption DEF CondPlaces
  <2> QED BY <1>1, <1>2, <2>1, <2>2, <2>3, <2>4 DEF CondPlaces
<1>9. CondSeen'
  <2>1. \A o \in Threads : pc'[o] # "push"
    BY <1>a, <1>1 DEF CondTypes
  <2> QED BY <1>1, <1>2, <2>1 DEF CondSeen
<1> QED BY <1>6, <1>7, <1>8, <1>9 DEF CondInv

LEMMA CondNext == CondInv /\ [CV!Next]_cvVars => CondInv'
<1> SUFFICES ASSUME CondInv, [CV!Next]_cvVars PROVE CondInv'
  OBVIOUS
<1>1. ASSUME NEW th \in Threads, CV!Step(th) PROVE CondInv'
  <2>1. ASSUME NEW n \in 1..(CV!Cardinality(Tasks) + 1), NEW s \in BOOLEAN, CV!Notify(th, n, s)
        PROVE  CondInv'
    <3>1. CV!Cardinality(Tasks) = Cardinality(Tasks)
      BY DEF CV!Cardinality, Cardinality
    <3>2. n \in Nat
      BY <3>1, NobodyAssumption, FS_CardinalityType
    <3> QED BY <2>1, <3>2, NotifyStep
  <2>2. CASE \/ \E t \in Tasks : CV!Dispatch(th, t)
             \/ CV!EndTask(th) \/ CV!LockAndCheck(th)
             \/ \E v \in Values : CV!Store(th, v) \/ CV!Await(th, v)
    BY <2>2, QuietStep
  <2>3. CASE CV!Push(th)
    BY <2>3, AddWaiterStep
  <2>4. CASE CV!Resume(th)
    BY <2>4, ResumeStep
  <2>5. CASE CV!Transfer(th)
    BY <2>5, TransferStep
  <2>6. CASE CV!Destroy(th)
    BY <2>6, DestroyStep
  <2> QED BY <1>1, <2>1, <2>2, <2>3, <2>4, <2>5, <2>6 DEF CV!Step
<1>2. CASE UNCHANGED cvVars
  <2>1. UNCHANGED <<value, waiters, lock, expected, tstate, pc, self, wake, kept, owes>>
    BY <1>2 DEF cvVars
  <2>2. CondPlaces'
    BY <2>1, PlacesFrame
  <2>3. CondTypes' /\ CondControl' /\ CondSeen'
    BY <2>1 DEF CondInv, CondTypes, CondControl, CondSeen
  <2> QED BY <2>2, <2>3 DEF CondInv
<1>3. CV!Terminated => UNCHANGED cvVars
  BY DEF CV!Terminated, CV!vars, CV!shared, CV!sched, CV!locals, CV!ghosts, cvVars
<1> QED BY <1>1, <1>2, <1>3 DEF CV!Next

\* The condvar's invariant, in every behaviour of the containers.
THEOREM CondvarInvariant == MCSpec => []CondInv
<1>1. MCInit => CondInv
  BY CondInit DEF MCInit
<1>2. CondInv /\ [MCNext]_mcVars => CondInv'
  <2>1. [MCNext]_mcVars => [CV!Next]_cvVars
    BY DEF MCNext, mcVars
  <2> QED BY <2>1, CondNext
<1> QED BY <1>1, <1>2, PTL DEF MCSpec

\* A task that waits on the condvar is in the vector or in one thread's list, exactly
\* once: the swap that fills the hole of a removed waiter neither drops nor doubles one.
THEOREM CondvarWaiterOnce == MCSpec => []EachWaiterOnce
<1>1. CondInv => EachWaiterOnce
  <2> SUFFICES ASSUME CondInv PROVE CV!OnOneList
    BY DEF EachWaiterOnce
  <2>1. \A th \in Threads : CV!ToSet(wake[th]) \cup ({kept[th]} \ {NoTask}) = Held(th)
                            /\ Held(th) \subseteq Tasks
    BY DEF Held, Elems, CV!ToSet, CondInv, CondTypes
  <2>2. Elems(waiters) \subseteq Tasks
    BY DEF Elems, CV!ToSet, CondInv, CondTypes
  <2>3. {t \in Tasks : tstate[t] = "waiting"} =
            CV!ToSet(waiters) \cup UNION {Held(th) : th \in Threads}
    BY <2>1, <2>2 DEF CondInv, CondPlaces, Elems
  <2>4. {Held(th) : th \in Threads}
        = {CV!ToSet(wake[th]) \cup ({kept[th]} \ {NoTask}) : th \in Threads}
    BY <2>1
  <2> QED BY <2>1, <2>3, <2>4 DEF CV!OnOneList, CondInv, CondPlaces, Distinct, Elems
<1> QED BY <1>1, CondvarInvariant, PTL

\* When everybody who stored has notified, no registered waiter waits for a value that
\* is gone: no store falls between the check under the lock and the registration.
THEOREM CondvarMissesNobody == MCSpec => []NoWaiterMissed
<1>1. CondInv => NoWaiterMissed
  BY DEF CondInv, CondSeen, NoWaiterMissed, CV!NoLostWakeup, CV!Matches, Elems
<1> QED BY <1>1, CondvarInvariant, PTL
=============================================================================
