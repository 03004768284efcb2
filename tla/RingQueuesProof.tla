--------------------------- MODULE RingQueuesProof ---------------------------
(***************************************************************************)
(* qu_mpsc_bounded and qu_spsc_bounded hand every slot over in turn and    *)
(* leave no value behind, for any capacity, number of producers and length *)
(* of the run: each has an inductive invariant, of which the three         *)
(* properties of its module follow.                                        *)
(***************************************************************************)
EXTENDS MCQueues, FiniteSetTheorems, FunctionTheorems, TLAPS

-----------------------------------------------------------------------------
(* Numbers.                                                                *)

LEMMA Division ==
  ASSUME NEW d \in Nat \ {0}, NEW a \in Int
  PROVE  /\ a % d \in 0..(d - 1)
         /\ \E q \in Int : a = (d * q) + (a % d)
<1>1. a = (d * (a \div d)) + (a % d) /\ a \div d \in Int /\ a % d \in 0..(d - 1)
  OBVIOUS
<1> QED BY <1>1

\* A number that is q times d and a rest has that rest as its remainder.
LEMMA Remainder ==
  ASSUME NEW d \in Nat \ {0}, NEW a \in Int, NEW q \in Int, NEW r \in 0..(d - 1), a = (d * q) + r
  PROVE  a % d = r
OBVIOUS

\* A remainder may be taken before or after an addition.
LEMMA RemainderOfSum ==
  ASSUME NEW d \in Nat \ {0}, NEW a \in Int, NEW b \in Int
  PROVE  ((a % d) + b) % d = (a + b) % d
<1> DEFINE r == a % d
           e == r + b
           u == e % d
<1>1. r \in Int /\ e \in Int
  BY Division
<1>2. PICK q \in Int : a = (d * q) + r
  BY Division
<1>3. u \in 0..(d - 1)
  <2> HIDE DEF r, e
  <2> QED BY <1>1, Division
<1>4. PICK p \in Int : e = (d * p) + u
  <2> HIDE DEF r, e
  <2> QED BY <1>1, Division
<1>e. e = r + b
  OBVIOUS
<1> HIDE DEF r, e, u
<1>5. a + b = (d * (q + p)) + u
  BY <1>1, <1>2, <1>3, <1>4, <1>e
<1>6. q + p \in Int /\ a + b \in Int
  OBVIOUS
<1>7. (a + b) % d = u
  BY <1>3, <1>5, <1>6, Remainder
<1> QED BY <1>7 DEF r, e, u

\* Two numbers that are less than d apart have different remainders.
LEMMA SlotsDiffer ==
  ASSUME NEW d \in Nat \ {0}, NEW a \in Int, NEW b \in Int, a # b, a - b < d, b - a < d
  PROVE  a % d # b % d
<1>1. PICK q \in Int : a = (d * q) + (a % d)
  BY Division
<1>2. PICK p \in Int : b = (d * p) + (b % d)
  BY Division
<1> DEFINE r == a % d
<1>3. SUFFICES ASSUME b % d = r PROVE FALSE
  OBVIOUS
<1>4. r \in Int /\ a = (d * q) + r /\ b = (d * p) + r
  BY <1>1, <1>2, <1>3, Division
<1> HIDE DEF r
<1>5. b - a = d * (p - q)
  BY <1>4
<1> DEFINE k == p - q
<1>6. k \in Int /\ b - a = d * k
  BY <1>5
<1> HIDE DEF k
<1>7. k = 0
  <2>1. CASE k >= 1
    BY <1>6, <2>1
  <2>2. CASE k <= -1
    BY <1>6, <2>2
  <2> QED BY <1>6, <2>1, <2>2
<1> QED BY <1>6, <1>7

\* If d is a multiple of c, a number and its remainder by d have the same slot among c.
LEMMA RemainderTwice ==
  ASSUME NEW c \in Nat \ {0}, NEW d \in Nat \ {0}, d % c = 0, NEW a \in Int
  PROVE  (a % d) % c = a % c
<1> DEFINE r == a % d
           u == r % c
<1>1. r \in Int
  BY Division
<1>2. PICK q \in Int : a = (d * q) + r
  BY Division
<1>3. u \in 0..(c - 1)
  <2> HIDE DEF r
  <2> QED BY <1>1, Division
<1>4. PICK p \in Int : r = (c * p) + u
  <2> HIDE DEF r
  <2> QED BY <1>1, Division
<1>5. PICK m \in Int : d = c * m
  BY Division
<1> HIDE DEF r, u
<1>6. a = (c * ((m * q) + p)) + u
  <2>1. d * q = c * (m * q)
    BY <1>5
  <2>2. c * ((m * q) + p) = (c * (m * q)) + (c * p)
    OBVIOUS
  <2> QED BY <1>1, <1>2, <1>3, <1>4, <2>1, <2>2
<1>7. (m * q) + p \in Int
  OBVIOUS
<1>8. a % c = u
  BY <1>3, <1>6, <1>7, Remainder
<1> QED BY <1>8 DEF r, u

-----------------------------------------------------------------------------
(* qu_mpsc_bounded.                                                        *)

\* The slot of a ticket in a ring of c slots, and how many tickets below n it has.
RingSlot(i, c) == i % c
Rounds(n, s, c) == (n + (c - 1) - s) \div c

MBCap == Cardinality(DOMAIN slots)
Spot(p) == RingSlot(ticket[p], MBCap)
ReadSpot == RingSlot(read_offset, MBCap)
Limit == IF write_closed_at = None THEN write_offset ELSE write_closed_at

RingElems ==
  [flags : SUBSET {"prod", "data", "cons"}, chain : Seq(Producers), sentinel : BOOLEAN,
   output_producers : Seq(Producers), waiting : BOOLEAN, wait_idx : Nat,
   data : (Producers \X Nat) \cup {None}]
Holding == {"write", "publish"}
Admitted == {"claim", "park", "parked"} \cup Holding
PushLabels == {"idle", "ticket", "wake", "cutoff", "mark", "peek", "seal", "seal_cons", "gone"} \cup Admitted
Sentinels == {"pull_sentinel", "try_pull_sentinel"}
PullLabels == {"idle", "pull", "try_pull", "install", "arm", "parked", "reading", "drain", "gone"}
              \cup Sentinels

RingTypes ==
  /\ MBCap \in Nat \ {0} /\ slots \in [0 .. MBCap - 1 -> RingElems]
  /\ write_offset \in Nat /\ read_offset \in Nat /\ closed \in BOOLEAN
  /\ write_closed_at \in Nat \cup {None}
  /\ ticket \in [Producers -> Nat] /\ pushes \in [Producers -> Nat]
  /\ pc \in [Producers \cup {Consumer} -> PushLabels \cup PullLabels]
  /\ (\A p \in Producers : pc[p] \in PushLabels) /\ pc[Consumer] \in PullLabels

\* A slot that is written is its writer's alone.
RingOwners ==
  \A p \in Producers : pc[p] \in Holding =>
    /\ "prod" \in slots[Spot(p)].flags
    /\ \A q \in Producers \ {p} : pc[q] \in Holding => Spot(q) # Spot(p)
    /\ pc[p] = "publish" => slots[Spot(p)].data # None

\* The flags say what is in a slot.
RingData ==
  \A s \in DOMAIN slots :
    /\ "data" \in slots[s].flags =>
         /\ slots[s].flags = {"data"}
         /\ slots[s].data = None => pc[Consumer] = "gone" \/ (pc[Consumer] = "drain" /\ s = ReadSpot)
    /\ slots[s].data # None =>
         \/ "data" \in slots[s].flags
         \/ \E p \in Producers : pc[p] = "publish" /\ Spot(p) = s
    /\ slots[s].sentinel => slots[s].flags = {}
    /\ "cons" \in slots[s].flags => pc[Consumer] = "parked" /\ s = ReadSpot /\ slots[s].waiting

\* The consumer is where it may be.
RingConsumer ==
  /\ pc[Consumer] \in {"reading", "drain"} => "data" \in slots[ReadSpot].flags
  /\ pc[Consumer] = "drain" => slots[ReadSpot].data = None
  /\ pc[Consumer] \in Sentinels => slots[ReadSpot].sentinel
  /\ pc[Consumer] = "arm" => slots[ReadSpot].waiting
  /\ \A p \in Producers : pc[p] = "wake" =>
       /\ pc[Consumer] = "parked" /\ Spot(p) = ReadSpot /\ "data" \in slots[ReadSpot].flags
       /\ \A q \in Producers \ {p} : pc[q] # "wake"
  /\ pc[Consumer] = "gone" =>
       (\A p \in Producers : pc[p] = "gone") /\ (\A s \in DOMAIN slots : slots[s].data = None)

\* Whoever is in a slot's chain is parked there, and is there once.
RingChains ==
  \A s \in DOMAIN slots :
    LET chain == slots[s].chain
        line == slots[s].output_producers
    IN /\ \A i \in 1 .. Len(chain) : pc[chain[i]] = "parked" /\ Spot(chain[i]) = s
       /\ \A i \in 1 .. Len(line) : pc[line[i]] = "parked" /\ Spot(line[i]) = s
       /\ \A i, j \in 1 .. Len(chain) : chain[i] = chain[j] => i = j
       /\ \A i, j \in 1 .. Len(line) : line[i] = line[j] => i = j
       /\ \A i \in 1 .. Len(chain) : \A j \in 1 .. Len(line) : chain[i] # line[j]

\* Nobody past the cutoff gets beyond its ticket.
RingCutoff ==
  /\ write_closed_at # None => closed /\ write_closed_at < write_offset
  /\ \A p \in Producers :
       /\ pc[p] = "cutoff" => /\ closed /\ write_closed_at = None
                              /\ \A q \in Producers \ {p} : pc[q] # "cutoff"
       /\ pc[p] \in {"mark", "peek", "seal", "seal_cons"} => write_closed_at # None
       /\ pc[p] = "ticket" => ticket[p] < write_offset
       /\ pc[p] \in Admitted => ticket[p] < Limit

\* What was read from a slot, what is in it and who wants to write in it have
\* different tickets below the cutoff.
Pushing(s) ==
  {p \in Producers : pc[p] \in {"ticket"} \cup Admitted /\ Spot(p) = s /\ ticket[p] < Limit}
Held(s) == IF "data" \in slots[s].flags THEN 1 ELSE 0
RingCount ==
  \A s \in DOMAIN slots : ~slots[s].sentinel =>
    /\ IsFiniteSet(Pushing(s))
    /\ Rounds(read_offset, s, MBCap) + Held(s) + Cardinality(Pushing(s)) <= Rounds(Limit, s, MBCap)

RingInv == RingTypes /\ RingOwners /\ RingData /\ RingConsumer /\ RingChains /\ RingCutoff /\ RingCount

\* And it has q as its quotient.
LEMMA Quotient ==
  ASSUME NEW d \in Nat \ {0}, NEW a \in Int, NEW q \in Int, NEW r \in 0..(d - 1), a = (d * q) + r
  PROVE  a \div d = q
OBVIOUS

\* The slot of an index is one of the array.
LEMMA RingSlotIn ==
  ASSUME NEW c \in Nat \ {0}, NEW i \in Nat
  PROVE  RingSlot(i, c) \in 0 .. c - 1
BY Division DEF RingSlot

\* The ticket n belongs to its slot and to no other.
LEMMA RoundsNext ==
  ASSUME NEW c \in Nat \ {0}, NEW n \in Nat, NEW s \in 0 .. c - 1
  PROVE  /\ Rounds(n, s, c) \in Nat
         /\ Rounds(n + 1, s, c) = Rounds(n, s, c) + (IF RingSlot(n, c) = s THEN 1 ELSE 0)
<1> DEFINE r == n % c
<1>0. n \in Int
  OBVIOUS
<1>1. r \in 0 .. c - 1
  BY <1>0, Division
<1>2. PICK k \in Int : n = (c * k) + r
  BY <1>0, Division
<1>e. RingSlot(n, c) = r
  BY DEF RingSlot
<1> HIDE DEF r
<1>3. k \in Nat
  <2>1. CASE k <= -1
    BY <1>1, <1>2, <2>1
  <2> QED BY <2>1
<1>4. c * (k + 1) = (c * k) + c
  OBVIOUS
<1>5. CASE r = s
  <2>1. n + (c - 1) - s = (c * k) + (c - 1) /\ n + 1 + (c - 1) - s = (c * (k + 1)) + 0
    BY <1>1, <1>2, <1>4, <1>5
  <2>2. (n + (c - 1) - s) \div c = k
    BY <2>1, <1>1, Quotient
  <2>3. (n + 1 + (c - 1) - s) \div c = k + 1
    BY <2>1, <1>1, Quotient
  <2> QED BY <2>2, <2>3, <1>3, <1>5, <1>e DEF Rounds
<1>6. CASE r > s
  <2>1. n + (c - 1) - s = (c * (k + 1)) + (r - 1 - s) /\ n + 1 + (c - 1) - s = (c * (k + 1)) + (r - s)
    BY <1>1, <1>2, <1>4, <1>6
  <2>2. (n + (c - 1) - s) \div c = k + 1
    BY <2>1, <1>1, <1>6, Quotient
  <2>3. (n + 1 + (c - 1) - s) \div c = k + 1
    BY <2>1, <1>1, <1>6, Quotient
  <2> QED BY <2>2, <2>3, <1>3, <1>6, <1>e, <1>1 DEF Rounds
<1>7. CASE r < s
  <2>1. n + (c - 1) - s = (c * k) + (c - 1 - s + r) /\ n + 1 + (c - 1) - s = (c * k) + (c - s + r)
    BY <1>1, <1>2, <1>4, <1>7
  <2>2. (n + (c - 1) - s) \div c = k
    BY <2>1, <1>1, <1>7, Quotient
  <2>3. (n + 1 + (c - 1) - s) \div c = k
    BY <2>1, <1>1, <1>7, Quotient
  <2> QED BY <2>2, <2>3, <1>3, <1>7, <1>e, <1>1 DEF Rounds
<1> QED BY <1>1, <1>5, <1>6, <1>7

\* When more tickets of a slot lie below b than below a, one lies between.
LEMMA RoundsBehind ==
  ASSUME NEW c \in Nat \ {0}, NEW a \in Nat, NEW b \in Nat, NEW s \in 0 .. c - 1,
         Rounds(a, s, c) < Rounds(b, s, c)
  PROVE  \E i \in a .. b - 1 : RingSlot(i, c) = s
<1> DEFINE q == Rounds(a, s, c)
           p == Rounds(b, s, c)
           u == (a + (c - 1) - s) % c
           v == (b + (c - 1) - s) % c
           i == (c * q) + s
<1>1. q \in Nat /\ p \in Nat
  BY RoundsNext
<1>2. u \in 0 .. c - 1 /\ v \in 0 .. c - 1
  <2>1. a + (c - 1) - s \in Int /\ b + (c - 1) - s \in Int
    OBVIOUS
  <2> QED BY <2>1, Division
<1>3. a + (c - 1) - s = (c * q) + u /\ b + (c - 1) - s = (c * p) + v
  <2>1. a + (c - 1) - s \in Int /\ b + (c - 1) - s \in Int
    OBVIOUS
  <2> QED BY <2>1 DEF Rounds
<1>4. q < p
  OBVIOUS
<1> HIDE DEF q, p, u, v
<1>5. c * p >= (c * q) + c
  <2>1. PICK k \in Nat : p = q + 1 + k
    <3>1. p - q - 1 \in Nat /\ p = q + 1 + (p - q - 1)
      BY <1>1, <1>4
    <3> QED BY <3>1
  <2>2. c * p = (c * q) + c + (c * k) /\ c * k >= 0
    BY <2>1, <1>1
  <2>3. c * p \in Int /\ c * q \in Int /\ c * k \in Int
    BY <2>1, <1>1
  <2> QED BY <2>2, <2>3
<1>6. c * p \in Int /\ c * q \in Int
  BY <1>1
<1>7. i >= a /\ i <= b - 1
  BY <1>1, <1>2, <1>3, <1>5, <1>6
<1>8. i % c = s
  BY <1>1, <1>6, Remainder
<1> QED BY <1>6, <1>7, <1>8 DEF RingSlot

RingVars == <<slots, write_offset, read_offset, closed, write_closed_at, ticket, pushes>>

\* What the invariant says of the types.
LEMMA RingFacts ==
  ASSUME RingTypes
  PROVE  /\ DOMAIN slots = 0 .. MBCap - 1
         /\ ReadSpot \in DOMAIN slots /\ MB!ReadSlot = ReadSpot
         /\ \A p \in Producers : Spot(p) \in DOMAIN slots /\ MB!Mine(p) = Spot(p)
         /\ \A i \in Nat : RingSlot(i, MBCap) \in DOMAIN slots
         /\ write_closed_at # None => MB!CutoffSlot = RingSlot(write_closed_at, MBCap)
         /\ Limit \in Nat
         /\ \A s \in DOMAIN slots : slots[s] \in RingElems
<1>1. DOMAIN slots = 0 .. MBCap - 1 /\ MBCap \in Nat \ {0}
  BY DEF RingTypes
<1>2. \A i \in Nat : RingSlot(i, MBCap) \in DOMAIN slots
  BY <1>1, RingSlotIn
<1>c. MB!Cardinality(DOMAIN slots) = MBCap
  BY DEF MB!Cardinality, Cardinality, MBCap
<1>3. MB!ReadSlot = ReadSpot /\ \A p \in Producers : MB!Mine(p) = Spot(p)
  BY <1>c DEF MB!ReadSlot, MB!Mine, MB!Slot, ReadSpot, Spot, RingSlot
<1>4. MB!CutoffSlot = RingSlot(write_closed_at, MBCap)
  BY <1>c DEF MB!CutoffSlot, MB!Slot, RingSlot
<1>5. Limit \in Nat
  BY DEF RingTypes, Limit
<1>6. \A s \in DOMAIN slots : slots[s] \in RingElems
  BY DEF RingTypes
<1>7. ReadSpot \in DOMAIN slots /\ \A p \in Producers : Spot(p) \in DOMAIN slots
  BY <1>2 DEF ReadSpot, Spot, RingTypes
<1> QED BY <1>1, <1>2, <1>3, <1>4, <1>5, <1>6, <1>7

\* Nothing is gained in any slot: the count stays right.
LEMMA CountKept ==
  ASSUME RingTypes, RingCount, MBCap' = MBCap, DOMAIN slots' = DOMAIN slots,
         read_offset' = read_offset, Limit' = Limit,
         \A s \in DOMAIN slots : slots[s].sentinel => slots'[s].sentinel,
         \A s \in DOMAIN slots : slots'[s].sentinel \/ Held(s)' = Held(s),
         \A s \in DOMAIN slots : Pushing(s)' \subseteq Pushing(s)
  PROVE  RingCount'
<1> SUFFICES ASSUME NEW s \in DOMAIN slots, ~slots'[s].sentinel
             PROVE  /\ IsFiniteSet(Pushing(s)')
                    /\ Rounds(read_offset, s, MBCap) + Held(s)' + Cardinality(Pushing(s)')
                         <= Rounds(Limit, s, MBCap)
  BY DEF RingCount
<1>1. /\ IsFiniteSet(Pushing(s))
      /\ Rounds(read_offset, s, MBCap) + Held(s) + Cardinality(Pushing(s)) <= Rounds(Limit, s, MBCap)
  BY DEF RingCount
<1>2. IsFiniteSet(Pushing(s)') /\ Cardinality(Pushing(s)') <= Cardinality(Pushing(s))
  BY <1>1, FS_Subset
<1>3. Cardinality(Pushing(s)') \in Nat /\ Cardinality(Pushing(s)) \in Nat
  BY <1>1, <1>2, FS_CardinalityType
<1>4. Rounds(read_offset, s, MBCap) \in Nat /\ Rounds(Limit, s, MBCap) \in Nat
  <2>1. s \in 0 .. MBCap - 1 /\ Limit \in Nat
    BY RingFacts
  <2> QED BY <2>1, RoundsNext DEF RingTypes
<1>5. Held(s) \in Nat /\ Held(s)' = Held(s)
  BY DEF Held
<1> QED BY <1>1, <1>2, <1>3, <1>4, <1>5

\* A step that leaves the slots and who writes them keeps their chains.
LEMMA ChainsKept ==
  ASSUME RingTypes, RingChains, DOMAIN slots' = DOMAIN slots,
         \A q \in Producers : pc[q] = "parked" => pc'[q] = "parked" /\ Spot(q)' = Spot(q),
         \A s \in DOMAIN slots : /\ slots'[s].chain = slots[s].chain
                                 /\ slots'[s].output_producers = slots[s].output_producers
  PROVE  RingChains'
<1> SUFFICES ASSUME NEW s \in DOMAIN slots
             PROVE  (LET chain == slots[s].chain
                         line == slots[s].output_producers
                     IN /\ \A i \in 1 .. Len(chain) : pc[chain[i]] = "parked" /\ Spot(chain[i]) = s
                        /\ \A i \in 1 .. Len(line) : pc[line[i]] = "parked" /\ Spot(line[i]) = s
                        /\ \A i, j \in 1 .. Len(chain) : chain[i] = chain[j] => i = j
                        /\ \A i, j \in 1 .. Len(line) : line[i] = line[j] => i = j
                        /\ \A i \in 1 .. Len(chain) : \A j \in 1 .. Len(line) : chain[i] # line[j])'
  BY DEF RingChains
<1> DEFINE chain == slots[s].chain
           line == slots[s].output_producers
<1>1. chain \in Seq(Producers) /\ line \in Seq(Producers)
  BY RingFacts DEF RingElems
<1>2. chain' = chain /\ line' = line
  OBVIOUS
<1>3. /\ \A i \in 1 .. Len(chain) : chain[i] \in Producers
      /\ \A i \in 1 .. Len(line) : line[i] \in Producers
  BY <1>1
<1>4. /\ \A i \in 1 .. Len(chain) : pc[chain[i]] = "parked" /\ Spot(chain[i]) = s
      /\ \A i \in 1 .. Len(line) : pc[line[i]] = "parked" /\ Spot(line[i]) = s
      /\ \A i, j \in 1 .. Len(chain) : chain[i] = chain[j] => i = j
      /\ \A i, j \in 1 .. Len(line) : line[i] = line[j] => i = j
      /\ \A i \in 1 .. Len(chain) : \A j \in 1 .. Len(line) : chain[i] # line[j]
  BY DEF RingChains
<1> HIDE DEF chain, line
<1>5. /\ \A i \in 1 .. Len(chain) : pc'[chain[i]] = "parked"
      /\ \A i \in 1 .. Len(line) : pc'[line[i]] = "parked"
  BY <1>3, <1>4
<1>6. \A q \in Producers : pc[q] = "parked" /\ Spot(q) = s => Spot(q)' = s
  OBVIOUS
<1> DEFINE mine == {q \in Producers : Spot(q) = s}
<1>7. /\ \A i \in 1 .. Len(chain) : Spot(chain[i])' = s
      /\ \A i \in 1 .. Len(line) : Spot(line[i])' = s
  BY <1>2, <1>3, <1>4, <1>6 DEF Spot
<1> QED BY <1>2, <1>4, <1>5, <1>7 DEF chain, line

\* One element is replaced.
LEMMA ElemReplaced ==
  ASSUME RingTypes, NEW x \in DOMAIN slots, NEW e \in RingElems, slots' = [slots EXCEPT ![x] = e]
  PROVE  /\ slots' \in [DOMAIN slots -> RingElems] /\ DOMAIN slots' = DOMAIN slots
         /\ MBCap' = MBCap /\ slots' \in [0 .. MBCap - 1 -> RingElems]
         /\ slots'[x] = e /\ \A s \in DOMAIN slots \ {x} : slots'[s] = slots[s]
<1>1. slots \in [DOMAIN slots -> RingElems] /\ DOMAIN slots = 0 .. MBCap - 1
  BY DEF RingTypes
<1>2. DOMAIN slots' = DOMAIN slots /\ slots' \in [DOMAIN slots -> RingElems]
  BY <1>1
<1>3. MBCap' = MBCap
  BY <1>2 DEF MBCap
<1> QED BY <1>1, <1>2, <1>3

\* A producer goes on without touching a slot.
LEMMA RingMove ==
  ASSUME RingInv, NEW p \in Producers, NEW l, UNCHANGED RingVars, pc' = [pc EXCEPT ![p] = l],
         l \in {"idle", "claim", "park", "mark", "peek", "seal", "seal_cons"},
         pc[p] \notin Holding \cup {"parked", "gone"},
         l \in {"mark", "peek", "seal", "seal_cons"} => write_closed_at # None,
         l \in {"claim", "park"} => ticket[p] < Limit /\ pc[p] \in {"ticket", "claim", "park"}
  PROVE  RingInv'
<1>1. /\ MBCap' = MBCap /\ ReadSpot' = ReadSpot /\ Limit' = Limit
      /\ \A q \in Producers : Spot(q)' = Spot(q)
      /\ slots' = slots
  BY DEF RingVars, MBCap, ReadSpot, Spot, Limit
<1>2. /\ p # Consumer /\ pc'[p] = l /\ pc'[Consumer] = pc[Consumer]
      /\ \A q \in Producers \ {p} : pc'[q] = pc[q]
      /\ pc[Consumer] # "gone"
  BY ThreadsAssumption DEF RingInv, RingTypes, RingConsumer
<1>3. RingTypes'
  <2>1. l \in PushLabels
    BY DEF PushLabels, Admitted
  <2>2. /\ pc' \in [Producers \cup {Consumer} -> PushLabels \cup PullLabels]
        /\ \A q \in Producers : pc'[q] \in PushLabels
    BY <1>2, <2>1 DEF RingInv, RingTypes
  <2> QED BY <1>1, <1>2, <2>2 DEF RingInv, RingTypes, RingVars
<1>4. RingOwners'
  BY <1>1, <1>2 DEF RingInv, RingOwners, Holding
<1>5. RingData'
  BY <1>1, <1>2 DEF RingInv, RingData, Holding
<1>6. RingConsumer'
  BY <1>1, <1>2 DEF RingInv, RingConsumer
<1>7. RingChains'
  <2>1. \A q \in Producers : pc[q] = "parked" => pc'[q] = "parked"
    BY <1>2
  <2>2. \A s \in DOMAIN slots : slots[s] \in RingElems
    BY RingFacts DEF RingInv
  <2> QED BY <1>1, <2>1, <2>2 DEF RingInv, RingChains, RingElems
<1>8. RingCutoff'
  BY <1>1, <1>2 DEF RingInv, RingCutoff, RingVars, Admitted, Holding
<1>9. RingCount'
  <2>1. \A s \in DOMAIN slots : Held(s)' = Held(s)
    BY <1>1 DEF Held
  <2>2. \A s \in DOMAIN slots : Pushing(s)' \subseteq Pushing(s)
    <3> SUFFICES ASSUME NEW s \in DOMAIN slots, NEW q \in Pushing(s)' PROVE q \in Pushing(s)
      OBVIOUS
    <3>1. /\ q \in Producers /\ pc'[q] \in {"ticket"} \cup Admitted
          /\ Spot(q) = s /\ ticket[q] < Limit
      BY <1>1 DEF Pushing, RingVars
    <3>2. pc[q] \in {"ticket"} \cup Admitted
      BY <1>2, <3>1 DEF Admitted, Holding
    <3> QED BY <3>1, <3>2 DEF Pushing
  <2> QED BY <1>1, <2>1, <2>2, CountKept DEF RingInv, RingVars
<1> QED BY <1>3, <1>4, <1>5, <1>6, <1>7, <1>8, <1>9 DEF RingInv

\* The consumer goes on; it may pass its slot without reading only at the sentinel.
LEMMA RingPull ==
  ASSUME RingInv, NEW l \in {"idle", "pull", "try_pull", "install", "arm", "reading"} \cup Sentinels,
         pc' = [pc EXCEPT ![Consumer] = l], pc[Consumer] \notin {"parked", "drain", "gone"},
         UNCHANGED <<write_offset, closed, write_closed_at, ticket, pushes>>,
         slots' \in [DOMAIN slots -> RingElems],
         \A s \in DOMAIN slots :
           /\ slots'[s].flags = slots[s].flags /\ slots'[s].chain = slots[s].chain
           /\ slots'[s].sentinel = slots[s].sentinel /\ slots'[s].data = slots[s].data
           /\ slots'[s].output_producers = slots[s].output_producers,
         l = "reading" => "data" \in slots[ReadSpot].flags,
         l \in Sentinels => slots[ReadSpot].sentinel, l = "arm" => slots'[ReadSpot].waiting,
         \/ read_offset' = read_offset
         \/ read_offset' = read_offset + 1 /\ slots[ReadSpot].sentinel /\ l \in {"idle", "install"}
  PROVE  RingInv'
<1>1. /\ DOMAIN slots' = DOMAIN slots /\ MBCap' = MBCap /\ Limit' = Limit
      /\ \A q \in Producers : Spot(q)' = Spot(q)
      /\ read_offset' = read_offset => ReadSpot' = ReadSpot
      /\ read_offset' \in Nat
  BY DEF MBCap, ReadSpot, Spot, Limit, RingInv, RingTypes
<1>2. /\ Consumer \notin Producers /\ pc'[Consumer] = l
      /\ \A q \in Producers : pc'[q] = pc[q] /\ q # Consumer
  BY ThreadsAssumption DEF RingInv, RingTypes
<1>3. RingTypes'
  <2>1. l \in PullLabels
    BY DEF PullLabels
  <2>2. /\ pc' \in [Producers \cup {Consumer} -> PushLabels \cup PullLabels]
        /\ \A q \in Producers : pc'[q] \in PushLabels
    BY <1>2, <2>1 DEF RingInv, RingTypes
  <2> QED BY <1>1, <1>2, <2>1, <2>2 DEF RingInv, RingTypes
<1>c. \A s \in DOMAIN slots : "cons" \notin slots[s].flags
  BY DEF RingInv, RingData
<1>w. \A q \in Producers : pc[q] # "wake"
  BY DEF RingInv, RingConsumer
<1>4. RingOwners'
  <2>1. \A q \in Producers : Spot(q) \in DOMAIN slots
    BY RingFacts DEF RingInv
  <2> QED BY <1>1, <1>2, <2>1 DEF RingInv, RingOwners
<1>5. RingData'
  BY <1>1, <1>2, <1>c DEF RingInv, RingData
<1>6. RingConsumer'
  <2>1. ReadSpot \in DOMAIN slots
    BY RingFacts DEF RingInv
  <2>2. CASE read_offset' = read_offset
    BY <1>1, <1>2, <1>w, <2>1, <2>2 DEF RingInv, RingConsumer, Sentinels
  <2>3. CASE read_offset' = read_offset + 1 /\ l \in {"idle", "install"}
    BY <1>1, <1>2, <1>w, <2>1, <2>3 DEF RingInv, RingConsumer, Sentinels
  <2>4. read_offset # read_offset + 1
    BY DEF RingInv, RingTypes
  <2> QED BY <2>2, <2>3
<1>7. RingChains'
  BY <1>1, <1>2, ChainsKept DEF RingInv
<1>8. RingCutoff'
  BY <1>1, <1>2 DEF RingInv, RingCutoff
<1>9. RingCount'
  <2> SUFFICES ASSUME NEW s \in DOMAIN slots, ~slots[s].sentinel
               PROVE  /\ IsFiniteSet(Pushing(s)')
                      /\ Rounds(read_offset', s, MBCap) + Held(s)' + Cardinality(Pushing(s)')
                           <= Rounds(Limit, s, MBCap)
    BY <1>1 DEF RingCount
  <2>1. Pushing(s)' = Pushing(s) /\ Held(s)' = Held(s)
    BY <1>1, <1>2 DEF Pushing, Held
  <2>2. Rounds(read_offset', s, MBCap) = Rounds(read_offset, s, MBCap)
    <3>1. CASE read_offset' = read_offset + 1 /\ slots[ReadSpot].sentinel
      <4>1. RingSlot(read_offset, MBCap) # s /\ s \in 0 .. MBCap - 1
        BY <3>1, RingFacts DEF ReadSpot, RingInv
      <4>2. Rounds(read_offset, s, MBCap) \in Nat
        BY <4>1, RoundsNext DEF RingInv, RingTypes
      <4> QED BY <3>1, <4>1, <4>2, RoundsNext DEF RingInv, RingTypes
    <3> QED BY <3>1
  <2> QED BY <2>1, <2>2 DEF RingInv, RingCount
<1> QED BY <1>3, <1>4, <1>5, <1>6, <1>7, <1>8, <1>9 DEF RingInv

\* The consumer looks at the slot of its ticket.
LEMMA LookStep ==
  ASSUME RingInv, NEW how \in {"pull", "try_pull"}, MB!Look(how)
  PROVE  RingInv'
<1>1. /\ pc[Consumer] = "idle"
      /\ pc' = [pc EXCEPT ![Consumer] =
                  IF "data" \in slots[ReadSpot].flags THEN "reading"
                  ELSE IF slots[ReadSpot].sentinel THEN MB!SawSentinel(how) ELSE how]
      /\ UNCHANGED RingVars
  BY RingFacts DEF MB!Look, MB!Goto, RingVars, RingInv
<1>2. MB!SawSentinel(how) \in Sentinels /\ MB!SawSentinel(how) # "arm"
  BY DEF MB!SawSentinel, Sentinels
<1>3. slots \in [DOMAIN slots -> RingElems]
  BY DEF RingInv, RingTypes
<1> DEFINE l == IF "data" \in slots[ReadSpot].flags THEN "reading"
                ELSE IF slots[ReadSpot].sentinel THEN MB!SawSentinel(how) ELSE how
<1>4. /\ l \in {"idle", "pull", "try_pull", "install", "arm", "reading"} \cup Sentinels
      /\ l = "reading" => "data" \in slots[ReadSpot].flags
      /\ l \in Sentinels => slots[ReadSpot].sentinel
      /\ l # "arm"
      /\ pc' = [pc EXCEPT ![Consumer] = l]
  BY <1>1, <1>2 DEF Sentinels
<1> HIDE DEF l
<1> QED BY <1>1, <1>3, <1>4, RingPull DEF RingVars

\* It sees the sentinel there.
LEMMA LookClosedStep ==
  ASSUME RingInv, NEW how \in {"pull", "try_pull"}, MB!LookClosed(how)
  PROVE  RingInv'
<1>0. MB!SawSentinel(how) \in Sentinels
  BY DEF MB!SawSentinel, Sentinels
<1> DEFINE drained == closed /\ MB!PastCutoff(read_offset)
           skip == closed /\ ~drained /\ pc[Consumer] # how
           l == IF drained \/ skip \/ how = "try_pull" THEN "idle" ELSE "install"
<1>1. /\ pc[Consumer] \in {how} \cup Sentinels
      /\ pc' = [pc EXCEPT ![Consumer] = l]
      /\ read_offset' = IF skip THEN read_offset + 1 ELSE read_offset
      /\ UNCHANGED <<slots, write_offset, closed, write_closed_at, ticket, pushes>>
  BY <1>0 DEF MB!LookClosed, MB!Goto
<1>2. skip => l = "idle" /\ slots[ReadSpot].sentinel
  BY <1>1 DEF RingInv, RingConsumer
<1>3. /\ l \in {"idle", "install"} /\ l \notin Sentinels /\ l # "reading"
      /\ pc[Consumer] \notin {"parked", "drain", "gone"}
  BY <1>1 DEF Sentinels
<1>4. slots' \in [DOMAIN slots -> RingElems]
  BY <1>1 DEF RingInv, RingTypes
<1> HIDE DEF drained, skip, l
<1> QED BY <1>1, <1>2, <1>3, <1>4, RingPull

\* A producer goes into the chain of a slot that is taken.
LEMMA InstallStep ==
  ASSUME RingInv, MB!Install
  PROVE  RingInv'
<1>1. /\ pc[Consumer] = "install" /\ pc' = [pc EXCEPT ![Consumer] = "arm"]
      /\ slots' = [slots EXCEPT ![ReadSpot].wait_idx = read_offset, ![ReadSpot].waiting = TRUE]
      /\ UNCHANGED <<write_offset, read_offset, closed, write_closed_at, ticket, pushes>>
  BY RingFacts DEF MB!Install, MB!Goto, RingInv
<1>2. slots' \in [DOMAIN slots -> RingElems]
  <2> DEFINE e == [slots[ReadSpot] EXCEPT !.wait_idx = read_offset, !.waiting = TRUE]
  <2>1. e \in RingElems
    BY RingFacts DEF RingElems, RingInv, RingTypes
  <2>2. slots' = [slots EXCEPT ![ReadSpot] = e]
    BY <1>1
  <2> HIDE DEF e
  <2> QED BY <2>1, <2>2, RingFacts, ElemReplaced DEF RingInv
<1>3. \A s \in DOMAIN slots :
           /\ slots'[s].flags = slots[s].flags /\ slots'[s].chain = slots[s].chain
           /\ slots'[s].sentinel = slots[s].sentinel /\ slots'[s].data = slots[s].data
           /\ slots'[s].output_producers = slots[s].output_producers
  BY <1>1, RingFacts DEF RingInv, RingElems
<1>4. slots'[ReadSpot].waiting
  BY <1>1, RingFacts DEF RingInv, RingElems
<1> QED BY <1>1, <1>2, <1>3, <1>4, RingPull DEF Sentinels

\* A producer with a ticket sees whether the queue is closed.
LEMMA CheckClosedStep ==
  ASSUME RingInv, NEW p \in Producers, MB!CheckClosed(p)
  PROVE  RingInv'
<1> DEFINE l == IF closed /\ MB!PastCutoff(ticket[p]) THEN "idle" ELSE "claim"
<1>1. /\ pc[p] = "ticket" /\ pc' = [pc EXCEPT ![p] = l] /\ UNCHANGED RingVars
      /\ closed => write_closed_at # None
  BY DEF MB!CheckClosed, MB!Goto, RingVars
<1>2. l \in {"idle", "claim"}
  OBVIOUS
<1>3. l = "claim" => ticket[p] < Limit
  BY <1>1 DEF MB!PastCutoff, Limit, RingInv, RingCutoff, RingTypes
<1> HIDE DEF l
<1> QED BY <1>1, <1>2, <1>3, RingMove DEF Holding

\* The closer looks at the slot of the cutoff.
LEMMA CloseLookStep ==
  ASSUME RingInv, NEW p \in Producers, MB!CloseLook(p)
  PROVE  RingInv'
<1>1. PICK l \in {"idle", "peek", "seal"} : pc' = [pc EXCEPT ![p] = l]
  BY DEF MB!CloseLook, MB!Goto
<1>2. pc[p] = "mark" /\ UNCHANGED RingVars
  BY DEF MB!CloseLook, RingVars
<1>3. write_closed_at # None
  BY <1>2 DEF RingInv, RingCutoff
<1> QED BY <1>1, <1>2, <1>3, RingMove DEF Holding

\* It peeks at whoever waits there.
LEMMA ClosePeekStep ==
  ASSUME RingInv, NEW p \in Producers, MB!ClosePeek(p)
  PROVE  RingInv'
<1>1. PICK l \in {"idle", "seal_cons"} : pc' = [pc EXCEPT ![p] = l]
  BY DEF MB!ClosePeek, MB!Goto
<1>2. pc[p] = "peek" /\ UNCHANGED RingVars
  BY DEF MB!ClosePeek, RingVars
<1>3. write_closed_at # None
  BY <1>2 DEF RingInv, RingCutoff
<1> QED BY <1>1, <1>2, <1>3, RingMove DEF Holding

\* What holds of a slot that can be claimed.
LEMMA ClaimableFacts ==
  ASSUME RingInv, NEW s \in DOMAIN slots, MB!Claimable(slots[s])
  PROVE  /\ "data" \notin slots[s].flags /\ "prod" \notin slots[s].flags /\ ~slots[s].sentinel
         /\ slots[s].data = None
         /\ \A q \in Producers : pc[q] \in Holding => Spot(q) # s
<1>1. "data" \notin slots[s].flags /\ "prod" \notin slots[s].flags /\ ~slots[s].sentinel
  BY DEF MB!Claimable
<1>2. \A q \in Producers : pc[q] \in Holding => Spot(q) # s
  BY <1>1 DEF RingInv, RingOwners
<1>3. slots[s].data = None
  BY <1>1, <1>2 DEF RingInv, RingData, Holding
<1> QED BY <1>1, <1>2, <1>3

\* The consumer claims the value.
LEMMA ClaimStep ==
  ASSUME RingInv, NEW p \in Producers, MB!Claim(p)
  PROVE  RingInv'
<1> DEFINE x == Spot(p)
<1>0. x \in DOMAIN slots /\ MB!Mine(p) = x /\ slots[x] \in RingElems
  BY RingFacts DEF RingInv
<1>1. /\ pc[p] = "claim"
      /\ UNCHANGED <<write_offset, read_offset, closed, write_closed_at, ticket, pushes>>
      /\ \/ /\ MB!Claimable(slots[x])
            /\ slots' = [slots EXCEPT ![x].flags = @ \cup {"prod"}]
            /\ pc' = [pc EXCEPT ![p] = "write"]
         \/ /\ slots' = slots
            /\ pc' = [pc EXCEPT ![p] = IF slots[x].sentinel THEN "idle" ELSE "park"]
  BY <1>0 DEF MB!Claim, MB!Goto
<1>t. ticket[p] < Limit
  BY <1>1 DEF RingInv, RingCutoff, Admitted
<1>2. CASE slots' = slots /\ pc' = [pc EXCEPT ![p] = IF slots[x].sentinel THEN "idle" ELSE "park"]
  <2> DEFINE l == IF slots[x].sentinel THEN "idle" ELSE "park"
  <2>1. l \in {"idle", "park"} /\ pc' = [pc EXCEPT ![p] = l]
    BY <1>2
  <2> HIDE DEF l, x
  <2> QED BY <1>1, <1>2, <1>t, <2>1, RingMove DEF Holding, RingVars
<1>3. CASE /\ MB!Claimable(slots[x])
           /\ slots' = [slots EXCEPT ![x].flags = @ \cup {"prod"}]
           /\ pc' = [pc EXCEPT ![p] = "write"]
  <2> DEFINE e == [slots[x] EXCEPT !.flags = @ \cup {"prod"}]
  <2>1. e \in RingElems /\ slots' = [slots EXCEPT ![x] = e]
    BY <1>0, <1>3 DEF RingElems
  <2>2. /\ e.flags = slots[x].flags \cup {"prod"} /\ e.chain = slots[x].chain
        /\ e.sentinel = slots[x].sentinel /\ e.output_producers = slots[x].output_producers
        /\ e.waiting = slots[x].waiting /\ e.data = slots[x].data
    BY <1>0 DEF RingElems
  <2>3. /\ "data" \notin slots[x].flags /\ "prod" \notin slots[x].flags /\ ~slots[x].sentinel
        /\ slots[x].data = None
        /\ \A q \in Producers : pc[q] \in Holding => Spot(q) # x
    <3> HIDE DEF x
    <3> QED BY <1>0, <1>3, ClaimableFacts
  <2> HIDE DEF e
  <2>4. /\ slots' \in [0 .. MBCap - 1 -> RingElems] /\ DOMAIN slots' = DOMAIN slots
        /\ MBCap' = MBCap
        /\ slots'[x] = e /\ \A s \in DOMAIN slots \ {x} : slots'[s] = slots[s]
    <3> HIDE DEF x
    <3> QED BY <1>0, <2>1, ElemReplaced DEF RingInv
  <2>5. /\ ReadSpot' = ReadSpot /\ Limit' = Limit /\ \A q \in Producers : Spot(q)' = Spot(q)
        /\ \A q \in Producers : Spot(q) \in DOMAIN slots
        /\ ReadSpot \in DOMAIN slots
    BY <1>1, <2>4, RingFacts DEF ReadSpot, Spot, Limit, RingInv
  <2>6. /\ p # Consumer /\ pc'[p] = "write" /\ pc'[Consumer] = pc[Consumer]
        /\ \A q \in Producers \ {p} : pc'[q] = pc[q]
        /\ pc[Consumer] # "gone"
    BY <1>1, <1>3, ThreadsAssumption DEF RingInv, RingTypes, RingConsumer
  <2>x. x = Spot(p)
    OBVIOUS
  <2> HIDE DEF x
  <2>7. RingTypes'
    <3>1. pc' \in [Producers \cup {Consumer} -> PushLabels \cup PullLabels]
      BY <1>3 DEF RingInv, RingTypes, PushLabels, Admitted, Holding
    <3>2. \A q \in Producers : pc'[q] \in PushLabels
      BY <2>6 DEF RingInv, RingTypes, PushLabels, Admitted, Holding
    <3> QED BY <1>1, <2>4, <2>6, <3>1, <3>2 DEF RingInv, RingTypes
  <2>8. RingOwners'
    BY <1>1, <2>x, <2>2, <2>3, <2>4, <2>5, <2>6 DEF RingInv, RingOwners, Holding
  <2>9. RingData'
    BY <1>1, <2>x, <2>2, <2>3, <2>4, <2>5, <2>6 DEF RingInv, RingData, Holding
  <2>10. RingConsumer'
    BY <1>1, <2>x, <2>2, <2>3, <2>4, <2>5, <2>6 DEF RingInv, RingConsumer
  <2>11. RingChains'
    <3>1. \A q \in Producers : pc[q] = "parked" => pc'[q] = "parked"
      BY <1>1, <2>6
    <3>2. \A s \in DOMAIN slots : /\ slots'[s].chain = slots[s].chain
                                 /\ slots'[s].output_producers = slots[s].output_producers
      BY <2>2, <2>4
    <3> QED BY <3>1, <3>2, <2>4, <2>5, ChainsKept DEF RingInv
  <2>12. RingCutoff'
    BY <1>1, <1>t, <2>5, <2>6 DEF RingInv, RingCutoff, Admitted, Holding
  <2>13. RingCount'
    <3>1. \A s \in DOMAIN slots : Held(s)' = Held(s) /\ (slots[s].sentinel => slots'[s].sentinel)
      BY <2>2, <2>4 DEF Held
    <3>2. \A s \in DOMAIN slots : Pushing(s)' \subseteq Pushing(s)
      BY <1>1, <2>5, <2>6 DEF Pushing, Admitted
    <3> QED BY <1>1, <2>4, <2>5, <3>1, <3>2, CountKept DEF RingInv
  <2> QED BY <2>7, <2>8, <2>9, <2>10, <2>11, <2>12, <2>13 DEF RingInv
<1> QED BY <1>1, <1>2, <1>3

\* What a step of one producer on its slot leaves alone.
LEMMA ProducerFrame ==
  ASSUME RingInv, NEW p \in Producers, NEW l \in PushLabels, NEW x \in DOMAIN slots, NEW e \in RingElems,
         pc' = [pc EXCEPT ![p] = l], pc[p] # "gone", slots' = [slots EXCEPT ![x] = e],
         UNCHANGED <<write_offset, read_offset, closed, write_closed_at, ticket, pushes>>
  PROVE  /\ RingTypes'
         /\ DOMAIN slots' = DOMAIN slots /\ MBCap' = MBCap
         /\ slots'[x] = e /\ \A s \in DOMAIN slots \ {x} : slots'[s] = slots[s]
         /\ ReadSpot' = ReadSpot /\ Limit' = Limit /\ \A q \in Producers : Spot(q)' = Spot(q)
         /\ \A q \in Producers : Spot(q) \in DOMAIN slots
         /\ ReadSpot \in DOMAIN slots
         /\ p # Consumer /\ pc'[p] = l /\ pc'[Consumer] = pc[Consumer]
         /\ \A q \in Producers \ {p} : pc'[q] = pc[q]
         /\ pc[Consumer] # "gone"
<1>4. /\ slots' \in [0 .. MBCap - 1 -> RingElems] /\ DOMAIN slots' = DOMAIN slots
      /\ MBCap' = MBCap
      /\ slots'[x] = e /\ \A s \in DOMAIN slots \ {x} : slots'[s] = slots[s]
  BY ElemReplaced DEF RingInv
<1>5. /\ ReadSpot' = ReadSpot /\ Limit' = Limit /\ \A q \in Producers : Spot(q)' = Spot(q)
      /\ \A q \in Producers : Spot(q) \in DOMAIN slots
      /\ ReadSpot \in DOMAIN slots
  BY <1>4, RingFacts DEF ReadSpot, Spot, Limit, RingInv
<1>6. /\ p # Consumer /\ pc'[p] = l /\ pc'[Consumer] = pc[Consumer]
      /\ \A q \in Producers \ {p} : pc'[q] = pc[q]
      /\ pc[Consumer] # "gone"
  BY ThreadsAssumption DEF RingInv, RingTypes, RingConsumer
<1>7. RingTypes'
  <2>1. pc' \in [Producers \cup {Consumer} -> PushLabels \cup PullLabels]
    BY DEF RingInv, RingTypes
  <2>2. \A q \in Producers : pc'[q] \in PushLabels
    BY <1>6 DEF RingInv, RingTypes
  <2> QED BY <1>4, <1>6, <2>1, <2>2 DEF RingInv, RingTypes
<1> QED BY <1>4, <1>5, <1>6, <1>7

\* The consumer parks in the slot.
LEMMA ParkStep ==
  ASSUME RingInv, NEW p \in Producers, MB!Park(p)
  PROVE  RingInv'
<1> DEFINE x == Spot(p)
<1>0. x \in DOMAIN slots /\ MB!Mine(p) = x /\ slots[x] \in RingElems
  BY RingFacts DEF RingInv
<1>1. /\ pc[p] = "park"
      /\ UNCHANGED <<write_offset, read_offset, closed, write_closed_at, ticket, pushes>>
      /\ \/ /\ slots' = slots
            /\ pc' = [pc EXCEPT ![p] = IF slots[x].sentinel THEN "idle" ELSE "claim"]
         \/ /\ slots' = [slots EXCEPT ![x].chain = <<p>> \o @]
            /\ pc' = [pc EXCEPT ![p] = "parked"]
  BY <1>0 DEF MB!Park, MB!Goto
<1>t. ticket[p] < Limit
  BY <1>1 DEF RingInv, RingCutoff, Admitted
<1>2. CASE slots' = slots /\ pc' = [pc EXCEPT ![p] = IF slots[x].sentinel THEN "idle" ELSE "claim"]
  <2> DEFINE l == IF slots[x].sentinel THEN "idle" ELSE "claim"
  <2>1. l \in {"idle", "claim"} /\ pc' = [pc EXCEPT ![p] = l]
    BY <1>2
  <2> HIDE DEF l, x
  <2> QED BY <1>1, <1>2, <1>t, <2>1, RingMove DEF Holding, RingVars
<1>3. CASE /\ slots' = [slots EXCEPT ![x].chain = <<p>> \o @]
           /\ pc' = [pc EXCEPT ![p] = "parked"]
  <2> DEFINE new == <<p>> \o slots[x].chain
             e == [slots[x] EXCEPT !.chain = new]
  <2>c. slots[x].chain \in Seq(Producers) /\ slots[x].output_producers \in Seq(Producers)
    BY <1>0 DEF RingElems
  <2>n. new \in Seq(Producers)
    BY <2>c
  <2>1. e \in RingElems /\ slots' = [slots EXCEPT ![x] = e]
    BY <1>0, <1>3, <2>n DEF RingElems
  <2>2. /\ e.flags = slots[x].flags /\ e.chain = new
        /\ e.sentinel = slots[x].sentinel /\ e.output_producers = slots[x].output_producers
        /\ e.waiting = slots[x].waiting /\ e.data = slots[x].data
    BY <1>0 DEF RingElems
  <2>l. "parked" \in PushLabels
    BY DEF PushLabels, Admitted
  <2>x. x = Spot(p)
    OBVIOUS
  <2>m. /\ Len(new) = Len(slots[x].chain) + 1 /\ new[1] = p
        /\ \A i \in 2 .. Len(new) : new[i] = slots[x].chain[i - 1] /\ i - 1 \in 1 .. Len(slots[x].chain)
    BY <2>c
  <2> HIDE DEF e, x, new
  <2>4. /\ RingTypes'
        /\ DOMAIN slots' = DOMAIN slots /\ MBCap' = MBCap
        /\ slots'[x] = e /\ \A s \in DOMAIN slots \ {x} : slots'[s] = slots[s]
        /\ ReadSpot' = ReadSpot /\ Limit' = Limit /\ \A q \in Producers : Spot(q)' = Spot(q)
        /\ \A q \in Producers : Spot(q) \in DOMAIN slots
        /\ ReadSpot \in DOMAIN slots
        /\ p # Consumer /\ pc'[p] = "parked" /\ pc'[Consumer] = pc[Consumer]
        /\ \A q \in Producers \ {p} : pc'[q] = pc[q]
        /\ pc[Consumer] # "gone"
    <3>1. /\ pc' = [pc EXCEPT ![p] = "parked"] /\ pc[p] # "gone"
          /\ UNCHANGED <<write_offset, read_offset, closed, write_closed_at, ticket, pushes>>
      BY <1>1, <1>3
    <3> HIDE <1>1, <1>3
    <3> QED BY <1>0, <2>1, <2>l, <3>1, ProducerFrame
  <2>8. RingOwners'
    BY <1>1, <2>2, <2>4 DEF RingInv, RingOwners, Holding
  <2>9. RingData'
    BY <1>1, <2>2, <2>4 DEF RingInv, RingData, Holding
  <2>10. RingConsumer'
    BY <1>1, <2>2, <2>4 DEF RingInv, RingConsumer
  <2>11. RingChains'
    <3> SUFFICES ASSUME NEW s \in DOMAIN slots
                 PROVE  (LET chain == slots[s].chain
                             line == slots[s].output_producers
                         IN /\ \A i \in 1 .. Len(chain) : pc[chain[i]] = "parked" /\ Spot(chain[i]) = s
                            /\ \A i \in 1 .. Len(line) : pc[line[i]] = "parked" /\ Spot(line[i]) = s
                            /\ \A i, j \in 1 .. Len(chain) : chain[i] = chain[j] => i = j
                            /\ \A i, j \in 1 .. Len(line) : line[i] = line[j] => i = j
                            /\ \A i \in 1 .. Len(chain) : \A j \in 1 .. Len(line) : chain[i] # line[j])'
      BY <2>4 DEF RingChains
    <3> DEFINE chain == slots[s].chain
               line == slots[s].output_producers
    <3>1. chain \in Seq(Producers) /\ line \in Seq(Producers)
      BY RingFacts DEF RingElems, RingInv
    <3>2. line' = line /\ chain' = IF s = x THEN new ELSE chain
      BY <2>2, <2>4
    <3>3. /\ \A i \in 1 .. Len(chain) : chain[i] \in Producers
          /\ \A i \in 1 .. Len(line) : line[i] \in Producers
      BY <3>1
    <3>4. /\ \A i \in 1 .. Len(chain) : pc[chain[i]] = "parked" /\ Spot(chain[i]) = s
          /\ \A i \in 1 .. Len(line) : pc[line[i]] = "parked" /\ Spot(line[i]) = s
          /\ \A i, j \in 1 .. Len(chain) : chain[i] = chain[j] => i = j
          /\ \A i, j \in 1 .. Len(line) : line[i] = line[j] => i = j
          /\ \A i \in 1 .. Len(chain) : \A j \in 1 .. Len(line) : chain[i] # line[j]
      BY DEF RingInv, RingChains
    <3>5. s = x => /\ Len(new) = Len(chain) + 1 /\ new[1] = p
                   /\ \A i \in 2 .. Len(new) : new[i] = chain[i - 1] /\ i - 1 \in 1 .. Len(chain)
      BY <2>m
    <3>l. Len(chain) \in Nat /\ Len(line) \in Nat
      BY <3>1
    <3> HIDE DEF chain, line
    <3>6. \A q \in Producers : pc[q] = "parked" => pc'[q] = "parked" /\ q # p
      BY <1>1, <2>4
    <3>7. /\ \A i \in 1 .. Len(line) : pc'[line[i]] = "parked" /\ line[i] # p
          /\ \A i \in 1 .. Len(chain) : pc'[chain[i]] = "parked" /\ chain[i] # p
      BY <3>3, <3>4, <3>6
    <3>8. \A i \in 1 .. Len(chain') : chain'[i] \in Producers /\ pc'[chain'[i]] = "parked" /\ Spot(chain'[i]) = s
      <4>1. CASE s = x
        <5> TAKE i \in 1 .. Len(chain')
        <5>1. CASE i = 1
          BY <4>1, <5>1, <3>2, <3>5, <2>4, <2>x
        <5>2. CASE i # 1
          <6>1. i \in 2 .. Len(new) /\ chain' = new
            BY <4>1, <5>2, <3>2, <3>5, <3>l
          <6> QED BY <4>1, <6>1, <3>5, <3>3, <3>4, <3>7
        <5> QED BY <5>1, <5>2
      <4>2. CASE s # x
        BY <4>2, <3>2, <3>3, <3>4, <3>7
      <4> QED BY <4>1, <4>2
    <3>9. \A i, j \in 1 .. Len(chain') : chain'[i] = chain'[j] => i = j
      <4>1. CASE s = x
        <5> SUFFICES ASSUME NEW i \in 1 .. Len(new), NEW j \in 1 .. Len(new), new[i] = new[j]
                     PROVE  i = j
          BY <4>1, <3>2
        <5>1. CASE i = 1 \/ j = 1
          BY <4>1, <5>1, <3>5, <3>7, <3>l
        <5>2. CASE i # 1 /\ j # 1
          <6>1. i \in 2 .. Len(new) /\ j \in 2 .. Len(new)
            BY <5>2, <4>1, <3>5, <3>l
          <6>2. chain[i - 1] = chain[j - 1] /\ i - 1 \in 1 .. Len(chain) /\ j - 1 \in 1 .. Len(chain)
            BY <4>1, <6>1, <3>5
          <6>3. i - 1 = j - 1
            BY <6>2, <3>4
          <6> QED BY <6>1, <6>3, <4>1, <3>5, <3>l
        <5> QED BY <5>1, <5>2
      <4>2. CASE s # x
        BY <4>2, <3>2, <3>4
      <4> QED BY <4>1, <4>2
    <3>10. \A i \in 1 .. Len(chain') : \A j \in 1 .. Len(line) : chain'[i] # line[j]
      <4>1. CASE s = x
        <5> TAKE i \in 1 .. Len(chain')
        <5>1. CASE i = 1
          BY <4>1, <5>1, <3>2, <3>5, <3>7
        <5>2. CASE i # 1
          <6>1. i \in 2 .. Len(new) /\ chain' = new
            BY <4>1, <5>2, <3>2, <3>5, <3>l
          <6>2. chain'[i] = chain[i - 1] /\ i - 1 \in 1 .. Len(chain)
            BY <4>1, <6>1, <3>5
          <6> QED BY <6>2, <3>4
        <5> QED BY <5>1, <5>2
      <4>2. CASE s # x
        BY <4>2, <3>2, <3>4
      <4> QED BY <4>1, <4>2
    <3>s. \A q \in Producers : Spot(q) = s => ticket[q] = ticket'[q] /\ Spot(q)' = s
      BY <1>1, <2>4
    <3>11. /\ \A i \in 1 .. Len(chain') : (Spot(chain[i]) = s)'
           /\ \A i \in 1 .. Len(line) : (Spot(line[i]) = s)'
      <4>1. \A i \in 1 .. Len(chain') : Spot(chain'[i]) = s /\ chain'[i] \in Producers
        BY <3>8
      <4>2. \A i \in 1 .. Len(line) : Spot(line'[i]) = s /\ line'[i] \in Producers
        BY <3>2, <3>3, <3>4
      <4> QED BY <4>1, <4>2, <1>1, <2>4 DEF Spot
    <3> QED BY <3>2, <3>4, <3>7, <3>8, <3>9, <3>10, <3>11 DEF chain, line
  <2>12. RingCutoff'
    BY <1>1, <1>t, <2>4 DEF RingInv, RingCutoff, Admitted, Holding
  <2>13. RingCount'
    <3>1. \A s \in DOMAIN slots : Held(s)' = Held(s) /\ (slots[s].sentinel => slots'[s].sentinel)
      BY <2>2, <2>4 DEF Held
    <3>2. \A s \in DOMAIN slots : Pushing(s)' \subseteq Pushing(s)
      BY <1>1, <2>4 DEF Pushing, Admitted
    <3> QED BY <1>1, <2>4, <3>1, <3>2, CountKept DEF RingInv
  <2> QED BY <2>4, <2>8, <2>9, <2>10, <2>11, <2>12, <2>13 DEF RingInv
<1> QED BY <1>1, <1>2, <1>3

\* A producer writes the value.
LEMMA EmplaceStep ==
  ASSUME RingInv, NEW p \in Producers, MB!Emplace(p)
  PROVE  RingInv'
<1> DEFINE x == Spot(p)
           item == <<p, pushes[p]>>
           e == [slots[x] EXCEPT !.data = item]
<1>0. x \in DOMAIN slots /\ MB!Mine(p) = x /\ slots[x] \in RingElems
  BY RingFacts DEF RingInv
<1>1. /\ pc[p] = "write" /\ pc' = [pc EXCEPT ![p] = "publish"]
      /\ UNCHANGED <<write_offset, read_offset, closed, write_closed_at, ticket, pushes>>
      /\ slots' = [slots EXCEPT ![x] = e]
  BY <1>0 DEF MB!Emplace, MB!Goto, MB!Item
<1>i. item \in Producers \X Nat /\ item # None
  <2>1. item \in Producers \X Nat
    BY DEF RingInv, RingTypes
  <2> QED BY <2>1, ThreadsAssumption
<1> HIDE DEF item
<1>2. e \in RingElems
  BY <1>0, <1>i DEF RingElems
<1>3. /\ e.flags = slots[x].flags /\ e.chain = slots[x].chain
      /\ e.sentinel = slots[x].sentinel /\ e.output_producers = slots[x].output_producers
      /\ e.waiting = slots[x].waiting /\ e.data = item
  BY <1>0 DEF RingElems
<1>l. "publish" \in PushLabels /\ pc[p] # "gone"
  BY <1>1 DEF PushLabels, Admitted, Holding
<1>x. x = Spot(p)
  OBVIOUS
<1> HIDE DEF e, x
<1>4. /\ RingTypes'
      /\ DOMAIN slots' = DOMAIN slots /\ MBCap' = MBCap
      /\ slots'[x] = e /\ \A s \in DOMAIN slots \ {x} : slots'[s] = slots[s]
      /\ ReadSpot' = ReadSpot /\ Limit' = Limit /\ \A q \in Producers : Spot(q)' = Spot(q)
      /\ \A q \in Producers : Spot(q) \in DOMAIN slots
      /\ ReadSpot \in DOMAIN slots
      /\ p # Consumer /\ pc'[p] = "publish" /\ pc'[Consumer] = pc[Consumer]
      /\ \A q \in Producers \ {p} : pc'[q] = pc[q]
      /\ pc[Consumer] # "gone"
  BY <1>0, <1>1, <1>2, <1>l, ProducerFrame
<1>5. "prod" \in slots[x].flags /\ "data" \notin slots[x].flags
  BY <1>0, <1>1, <1>x DEF RingInv, RingOwners, RingData, Holding
<1>8. RingOwners'
  BY <1>1, <1>x, <1>3, <1>4, <1>i DEF RingInv, RingOwners, Holding
<1>9. RingData'
  BY <1>1, <1>x, <1>3, <1>4, <1>5 DEF RingInv, RingData
<1>10. RingConsumer'
  BY <1>1, <1>3, <1>4, <1>5 DEF RingInv, RingConsumer
<1>11. RingChains'
  <2>1. \A q \in Producers : pc[q] = "parked" => pc'[q] = "parked"
    BY <1>1, <1>4
  <2>2. \A s \in DOMAIN slots : /\ slots'[s].chain = slots[s].chain
                               /\ slots'[s].output_producers = slots[s].output_producers
    BY <1>3, <1>4
  <2> QED BY <2>1, <2>2, <1>4, ChainsKept DEF RingInv
<1>12. RingCutoff'
  BY <1>1, <1>4 DEF RingInv, RingCutoff, Admitted, Holding
<1>13. RingCount'
  <2>1. \A s \in DOMAIN slots : Held(s)' = Held(s) /\ (slots[s].sentinel => slots'[s].sentinel)
    BY <1>3, <1>4 DEF Held
  <2>2. \A s \in DOMAIN slots : Pushing(s)' \subseteq Pushing(s)
    BY <1>1, <1>4 DEF Pushing, Admitted, Holding
  <2> QED BY <1>1, <1>4, <2>1, <2>2, CountKept DEF RingInv
<1> QED BY <1>4, <1>8, <1>9, <1>10, <1>11, <1>12, <1>13 DEF RingInv

\* It publishes the value.
LEMMA PublishRingStep ==
  ASSUME RingInv, NEW p \in Producers, MB!Publish(p)
  PROVE  RingInv'
<1> DEFINE x == Spot(p)
           f == slots[x].flags
           e == [slots[x] EXCEPT !.flags = {"data"}]
           l == IF "cons" \in f THEN "wake" ELSE "idle"
<1>0. x \in DOMAIN slots /\ MB!Mine(p) = x /\ slots[x] \in RingElems
  BY RingFacts DEF RingInv
<1>p. pc[p] = "publish"
  BY DEF MB!Publish
<1>5. "prod" \in f /\ "data" \notin f /\ slots[x].data # None /\ ~slots[x].sentinel
  BY <1>0, <1>p DEF RingInv, RingOwners, RingData, Holding
<1>f. (f \ {"prod", "cons"}) \cup {"data"} = {"data"}
  BY <1>0, <1>5 DEF RingElems
<1>1. /\ pc' = [pc EXCEPT ![p] = l]
      /\ UNCHANGED <<write_offset, read_offset, closed, write_closed_at, ticket, pushes>>
      /\ slots' = [slots EXCEPT ![x] = e]
  BY <1>0, <1>f DEF MB!Publish, MB!Goto
<1>2. e \in RingElems
  BY <1>0 DEF RingElems
<1>3. /\ e.flags = {"data"} /\ e.chain = slots[x].chain
      /\ e.sentinel = slots[x].sentinel /\ e.output_producers = slots[x].output_producers
      /\ e.waiting = slots[x].waiting /\ e.data = slots[x].data
  BY <1>0 DEF RingElems
<1>l. l \in PushLabels /\ pc[p] # "gone" /\ l \in {"wake", "idle"}
  BY <1>p DEF PushLabels
<1>c. l = "wake" => pc[Consumer] = "parked" /\ x = ReadSpot /\ \A q \in Producers : pc[q] # "wake"
  BY <1>0, <1>5 DEF RingInv, RingData, RingConsumer
<1>x. x = Spot(p)
  OBVIOUS
<1> HIDE DEF e, x, f, l
<1>4. /\ RingTypes'
      /\ DOMAIN slots' = DOMAIN slots /\ MBCap' = MBCap
      /\ slots'[x] = e /\ \A s \in DOMAIN slots \ {x} : slots'[s] = slots[s]
      /\ ReadSpot' = ReadSpot /\ Limit' = Limit /\ \A q \in Producers : Spot(q)' = Spot(q)
      /\ \A q \in Producers : Spot(q) \in DOMAIN slots
      /\ ReadSpot \in DOMAIN slots
      /\ p # Consumer /\ pc'[p] = l /\ pc'[Consumer] = pc[Consumer]
      /\ \A q \in Producers \ {p} : pc'[q] = pc[q]
      /\ pc[Consumer] # "gone"
  BY <1>0, <1>1, <1>2, <1>l, ProducerFrame
<1>8. RingOwners'
  BY <1>l, <1>p, <1>x, <1>3, <1>4 DEF RingInv, RingOwners, Holding
<1>9. RingData'
  BY <1>l, <1>p, <1>x, <1>3, <1>4, <1>5 DEF RingInv, RingData, f
<1>10. RingConsumer'
  <2>1. pc[Consumer] \in Sentinels => slots'[ReadSpot].sentinel
    BY <1>3, <1>4 DEF RingInv, RingConsumer
  <2>2. pc[Consumer] \in {"reading", "drain"} => "data" \in slots'[ReadSpot].flags
    BY <1>3, <1>4 DEF RingInv, RingConsumer
  <2>3. pc[Consumer] = "drain" => slots'[ReadSpot].data = None
    BY <1>3, <1>4 DEF RingInv, RingConsumer
  <2>4. \A q \in Producers : pc'[q] = "wake" =>
          /\ pc[Consumer] = "parked" /\ Spot(q) = ReadSpot /\ "data" \in slots'[ReadSpot].flags
          /\ \A r \in Producers \ {q} : pc'[r] # "wake"
    <3>1. CASE l = "wake"
      BY <3>1, <1>c, <1>x, <1>3, <1>4
    <3>2. CASE l = "idle"
      BY <3>2, <1>3, <1>4 DEF RingInv, RingConsumer
    <3> QED BY <3>1, <3>2, <1>l
  <2>5. pc[Consumer] = "arm" => slots'[ReadSpot].waiting
    BY <1>3, <1>4 DEF RingInv, RingConsumer
  <2> QED BY <1>4, <2>1, <2>2, <2>3, <2>4, <2>5 DEF RingConsumer
<1>11. RingChains'
  <2>1. \A q \in Producers : pc[q] = "parked" => pc'[q] = "parked"
    BY <1>p, <1>4
  <2>2. \A s \in DOMAIN slots : /\ slots'[s].chain = slots[s].chain
                               /\ slots'[s].output_producers = slots[s].output_producers
    BY <1>3, <1>4
  <2> QED BY <2>1, <2>2, <1>4, ChainsKept DEF RingInv
<1>12. RingCutoff'
  BY <1>1, <1>l, <1>4 DEF RingInv, RingCutoff, Admitted, Holding
<1>13. RingCount'
  <2> SUFFICES ASSUME NEW s \in DOMAIN slots, ~slots'[s].sentinel
               PROVE  /\ IsFiniteSet(Pushing(s)')
                      /\ Rounds(read_offset, s, MBCap) + Held(s)' + Cardinality(Pushing(s)')
                           <= Rounds(Limit, s, MBCap)
    BY <1>1, <1>4 DEF RingCount
  <2>1. Pushing(s)' = Pushing(s) \ {p}
    <3>1. ASSUME NEW q \in Producers \ {p}
          PROVE  q \in Pushing(s)' <=> q \in Pushing(s)
      BY <1>1, <1>4 DEF Pushing
    <3>2. p \notin Pushing(s)'
      BY <1>4, <1>l DEF Pushing, Admitted, Holding
    <3> QED BY <3>1, <3>2 DEF Pushing
  <2>2. /\ IsFiniteSet(Pushing(s))
        /\ Rounds(read_offset, s, MBCap) + Held(s) + Cardinality(Pushing(s)) <= Rounds(Limit, s, MBCap)
    BY <1>3, <1>4 DEF RingInv, RingCount
  <2>3. /\ IsFiniteSet(Pushing(s) \ {p}) /\ Cardinality(Pushing(s)) \in Nat
        /\ Cardinality(Pushing(s) \ {p}) = IF p \in Pushing(s) THEN Cardinality(Pushing(s)) - 1
                                            ELSE Cardinality(Pushing(s))
    BY <2>2, FS_RemoveElement, FS_CardinalityType
  <2>4. s \in 0 .. MBCap - 1 /\ Limit \in Nat
    BY RingFacts DEF RingInv
  <2>5. Rounds(read_offset, s, MBCap) \in Nat /\ Rounds(Limit, s, MBCap) \in Nat
    BY <2>4, RoundsNext DEF RingInv, RingTypes
  <2>6. CASE s = x
    <3>1. ticket[p] < Limit
      BY <1>p DEF RingInv, RingCutoff, Admitted, Holding
    <3>2. p \in Pushing(s)
      BY <1>p, <1>x, <2>6, <3>1 DEF Pushing, Admitted, Holding
    <3>3. Held(s) = 0 /\ Held(s)' = 1
      BY <2>6, <1>3, <1>4, <1>5 DEF Held, f
    <3> QED BY <2>1, <2>2, <2>3, <2>5, <3>2, <3>3
  <2>7. CASE s # x
    <3>1. Held(s)' = Held(s) /\ Held(s) \in Nat
      BY <2>7, <1>4 DEF Held
    <3> QED BY <2>1, <2>2, <2>3, <2>5, <3>1
  <2> QED BY <2>6, <2>7
<1> QED BY <1>4, <1>8, <1>9, <1>10, <1>11, <1>12, <1>13 DEF RingInv

\* It wakes whoever waited for it.
LEMMA WakeRingStep ==
  ASSUME RingInv, NEW p \in Producers, MB!WakeConsumer(p)
  PROVE  RingInv'
<1> DEFINE x == Spot(p)
           e == [slots[x] EXCEPT !.waiting = FALSE]
           l == IF slots[x].waiting THEN "reading" ELSE "parked"
<1>0. x \in DOMAIN slots /\ MB!Mine(p) = x /\ slots[x] \in RingElems
  BY RingFacts DEF RingInv
<1>p. /\ pc[p] = "wake" /\ pc[Consumer] = "parked" /\ x = ReadSpot /\ slots[x].flags = {"data"}
      /\ \A q \in Producers \ {p} : pc[q] # "wake"
  BY <1>0 DEF MB!WakeConsumer, RingInv, RingConsumer, RingData
<1>1. /\ pc' = [pc EXCEPT ![p] = "idle", ![Consumer] = l]
      /\ UNCHANGED <<write_offset, read_offset, closed, write_closed_at, ticket, pushes>>
      /\ slots' = [slots EXCEPT ![x] = e]
  <2>1. p # Consumer /\ pc[Consumer] = "parked"
    BY <1>p, ThreadsAssumption
  <2>2. /\ pc' = [pc EXCEPT ![p] = "idle", ![Consumer] = IF slots[x].waiting THEN "reading" ELSE @]
        /\ UNCHANGED <<write_offset, read_offset, closed, write_closed_at, ticket, pushes>>
        /\ slots' = [slots EXCEPT ![x].waiting = FALSE]
    BY <1>0 DEF MB!WakeConsumer
  <2>3. [pc EXCEPT ![p] = "idle", ![Consumer] = IF slots[x].waiting THEN "reading" ELSE @]
        = [pc EXCEPT ![p] = "idle", ![Consumer] = l]
    BY <2>1
  <2> QED BY <2>2, <2>3
<1>2. e \in RingElems
  BY <1>0 DEF RingElems
<1>3. /\ e.flags = slots[x].flags /\ e.chain = slots[x].chain
      /\ e.sentinel = slots[x].sentinel /\ e.output_producers = slots[x].output_producers
      /\ e.data = slots[x].data
  BY <1>0 DEF RingElems
<1>l. l \in {"reading", "parked"}
  OBVIOUS
<1>x. x = Spot(p)
  OBVIOUS
<1> HIDE DEF e, x, l
<1>4. /\ slots' \in [0 .. MBCap - 1 -> RingElems] /\ DOMAIN slots' = DOMAIN slots /\ MBCap' = MBCap
      /\ slots'[x] = e /\ \A s \in DOMAIN slots \ {x} : slots'[s] = slots[s]
  BY <1>0, <1>1, <1>2, ElemReplaced DEF RingInv
<1>5. /\ ReadSpot' = ReadSpot /\ Limit' = Limit /\ \A q \in Producers : Spot(q)' = Spot(q)
      /\ \A q \in Producers : Spot(q) \in DOMAIN slots
      /\ ReadSpot \in DOMAIN slots
  BY <1>1, <1>4, RingFacts DEF ReadSpot, Spot, Limit, RingInv
<1>6. /\ p # Consumer /\ pc'[p] = "idle" /\ pc'[Consumer] = l /\ pc[p] = "wake"
      /\ \A q \in Producers \ {p} : pc'[q] = pc[q]
  BY <1>1, <1>p, ThreadsAssumption DEF RingInv, RingTypes
<1>7. RingTypes'
  <2>1. l \in PullLabels /\ "idle" \in PushLabels
    BY <1>l DEF PullLabels, PushLabels
  <2>2. /\ pc' \in [Producers \cup {Consumer} -> PushLabels \cup PullLabels]
        /\ \A q \in Producers : pc'[q] \in PushLabels
    BY <1>1, <1>6, <2>1 DEF RingInv, RingTypes
  <2> QED BY <1>1, <1>4, <1>6, <2>1, <2>2 DEF RingInv, RingTypes
<1>8. RingOwners'
  BY <1>3, <1>4, <1>5, <1>6 DEF RingInv, RingOwners, Holding
<1>9. RingData'
  BY <1>l, <1>p, <1>3, <1>4, <1>5, <1>6 DEF RingInv, RingData
<1>10. RingConsumer'
  BY <1>l, <1>p, <1>3, <1>4, <1>5, <1>6 DEF RingInv, RingConsumer, Sentinels
<1>11. RingChains'
  <2>1. \A q \in Producers : pc[q] = "parked" => pc'[q] = "parked"
    BY <1>6
  <2>2. \A s \in DOMAIN slots : /\ slots'[s].chain = slots[s].chain
                               /\ slots'[s].output_producers = slots[s].output_producers
    BY <1>3, <1>4
  <2> QED BY <2>1, <2>2, <1>4, <1>5, ChainsKept DEF RingInv
<1>12. RingCutoff'
  BY <1>1, <1>5, <1>6 DEF RingInv, RingCutoff, Admitted, Holding
<1>13. RingCount'
  <2>1. \A s \in DOMAIN slots : Held(s)' = Held(s) /\ (slots[s].sentinel => slots'[s].sentinel)
    BY <1>3, <1>4 DEF Held
  <2>2. \A s \in DOMAIN slots : Pushing(s)' \subseteq Pushing(s)
    BY <1>1, <1>5, <1>6 DEF Pushing, Admitted, Holding
  <2> QED BY <1>1, <1>4, <1>5, <2>1, <2>2, CountKept DEF RingInv
<1> QED BY <1>7, <1>8, <1>9, <1>10, <1>11, <1>12, <1>13 DEF RingInv

\* What a step of the consumer on its slot leaves alone.
LEMMA ConsumerFrame ==
  ASSUME RingInv, NEW l \in PullLabels, NEW e \in RingElems,
         pc' = [pc EXCEPT ![Consumer] = l], slots' = [slots EXCEPT ![ReadSpot] = e],
         UNCHANGED <<write_offset, read_offset, closed, write_closed_at, ticket, pushes>>
  PROVE  /\ RingTypes'
         /\ DOMAIN slots' = DOMAIN slots /\ MBCap' = MBCap
         /\ slots'[ReadSpot] = e /\ \A s \in DOMAIN slots \ {ReadSpot} : slots'[s] = slots[s]
         /\ ReadSpot' = ReadSpot /\ Limit' = Limit /\ \A q \in Producers : Spot(q)' = Spot(q)
         /\ \A q \in Producers : Spot(q) \in DOMAIN slots
         /\ ReadSpot \in DOMAIN slots
         /\ pc'[Consumer] = l /\ \A q \in Producers : pc'[q] = pc[q]
<1>0. ReadSpot \in DOMAIN slots
  BY RingFacts DEF RingInv
<1>4. /\ slots' \in [0 .. MBCap - 1 -> RingElems] /\ DOMAIN slots' = DOMAIN slots
      /\ MBCap' = MBCap
      /\ slots'[ReadSpot] = e /\ \A s \in DOMAIN slots \ {ReadSpot} : slots'[s] = slots[s]
  BY <1>0, ElemReplaced DEF RingInv
<1>5. /\ ReadSpot' = ReadSpot /\ Limit' = Limit /\ \A q \in Producers : Spot(q)' = Spot(q)
      /\ \A q \in Producers : Spot(q) \in DOMAIN slots
  BY <1>4, RingFacts DEF ReadSpot, Spot, Limit, RingInv
<1>6. /\ pc'[Consumer] = l /\ \A q \in Producers : pc'[q] = pc[q]
  BY ThreadsAssumption DEF RingInv, RingTypes
<1>7. RingTypes'
  <2>1. pc' \in [Producers \cup {Consumer} -> PushLabels \cup PullLabels]
    BY DEF RingInv, RingTypes
  <2>2. \A q \in Producers : pc'[q] \in PushLabels
    BY <1>6 DEF RingInv, RingTypes
  <2> QED BY <1>4, <1>6, <2>1, <2>2 DEF RingInv, RingTypes
<1> QED BY <1>0, <1>4, <1>5, <1>6, <1>7

\* The consumer reads the value.
LEMMA ReadRingStep ==
  ASSUME RingInv, MB!Read
  PROVE  RingInv'
<1> DEFINE x == ReadSpot
           e == [slots[x] EXCEPT !.data = None]
<1>0. x \in DOMAIN slots /\ MB!ReadSlot = x /\ slots[x] \in RingElems
  BY RingFacts DEF RingInv
<1>1. /\ pc[Consumer] = "reading" /\ pc' = [pc EXCEPT ![Consumer] = "drain"]
      /\ UNCHANGED <<write_offset, read_offset, closed, write_closed_at, ticket, pushes>>
      /\ slots' = [slots EXCEPT ![x] = e]
  BY <1>0 DEF MB!Read, MB!Goto
<1>2. e \in RingElems /\ "drain" \in PullLabels
  BY <1>0 DEF RingElems, PullLabels
<1>3. /\ e.flags = slots[x].flags /\ e.chain = slots[x].chain
      /\ e.sentinel = slots[x].sentinel /\ e.output_producers = slots[x].output_producers
      /\ e.waiting = slots[x].waiting /\ e.data = None
  BY <1>0 DEF RingElems
<1>f. slots[x].flags = {"data"}
  BY <1>0, <1>1 DEF RingInv, RingConsumer, RingData
<1>o. \A q \in Producers : pc[q] \in Holding => Spot(q) # x
  BY <1>f DEF RingInv, RingOwners
<1>w. \A q \in Producers : pc[q] # "wake"
  BY <1>1 DEF RingInv, RingConsumer
<1>x. x = ReadSpot
  OBVIOUS
<1> HIDE DEF e, x
<1>4. /\ RingTypes'
      /\ DOMAIN slots' = DOMAIN slots /\ MBCap' = MBCap
      /\ slots'[x] = e /\ \A s \in DOMAIN slots \ {x} : slots'[s] = slots[s]
      /\ ReadSpot' = ReadSpot /\ Limit' = Limit /\ \A q \in Producers : Spot(q)' = Spot(q)
      /\ \A q \in Producers : Spot(q) \in DOMAIN slots
      /\ pc'[Consumer] = "drain" /\ \A q \in Producers : pc'[q] = pc[q]
  BY <1>x, <1>1, <1>2, ConsumerFrame
<1>8. RingOwners'
  BY <1>o, <1>3, <1>4 DEF RingInv, RingOwners, Holding
<1>9. RingData'
  BY <1>1, <1>x, <1>3, <1>4 DEF RingInv, RingData
<1>10. RingConsumer'
  BY <1>0, <1>x, <1>f, <1>w, <1>3, <1>4 DEF RingConsumer, Sentinels
<1>11. RingChains'
  <2>2. \A s \in DOMAIN slots : /\ slots'[s].chain = slots[s].chain
                               /\ slots'[s].output_producers = slots[s].output_producers
    BY <1>3, <1>4
  <2> QED BY <2>2, <1>4, ChainsKept DEF RingInv
<1>12. RingCutoff'
  BY <1>1, <1>4 DEF RingInv, RingCutoff
<1>13. RingCount'
  <2>1. \A s \in DOMAIN slots : Held(s)' = Held(s) /\ (slots[s].sentinel => slots'[s].sentinel)
    BY <1>3, <1>4 DEF Held
  <2>2. \A s \in DOMAIN slots : Pushing(s)' \subseteq Pushing(s)
    BY <1>1, <1>4 DEF Pushing
  <2> QED BY <1>1, <1>4, <2>1, <2>2, CountKept DEF RingInv
<1> QED BY <1>4, <1>8, <1>9, <1>10, <1>11, <1>12, <1>13 DEF RingInv

\* The consumer arms the slot for the next round.
LEMMA ArmStep ==
  ASSUME RingInv, MB!Arm
  PROVE  RingInv'
<1> DEFINE x == ReadSpot
           f == slots[x].flags
           sentinel == slots[x].sentinel
           drained == sentinel /\ MB!PastCutoff(read_offset)
<1>0. x \in DOMAIN slots /\ MB!ReadSlot = x /\ slots[x] \in RingElems
  BY RingFacts DEF RingInv
<1>1. /\ pc[Consumer] = "arm"
      /\ UNCHANGED <<write_offset, closed, write_closed_at, ticket, pushes>>
      /\ slots' = IF "data" \in f \/ sentinel
                  THEN [slots EXCEPT ![x].waiting = FALSE]
                  ELSE [slots EXCEPT ![x].flags = @ \cup {"cons"}]
      /\ read_offset' = IF sentinel /\ ~drained THEN read_offset + 1 ELSE read_offset
      /\ pc' = [pc EXCEPT ![Consumer] = CASE "data" \in f -> "reading"
                            [] drained -> "idle"
                            [] sentinel /\ ~drained -> "install"
                            [] OTHER -> "parked"]
  BY <1>0 DEF MB!Arm, MB!Goto
<1>2. sentinel => "data" \notin f
  BY <1>0 DEF RingInv, RingData
<1>x. x = ReadSpot
  OBVIOUS
<1>3. CASE "data" \in f \/ sentinel
  <2> DEFINE l == IF "data" \in f THEN "reading" ELSE IF drained THEN "idle" ELSE "install"
             e == [slots[x] EXCEPT !.waiting = FALSE]
  <2>1. e \in RingElems /\ slots' = [slots EXCEPT ![x] = e]
    BY <1>0, <1>1, <1>3 DEF RingElems
  <2>2. /\ e.flags = slots[x].flags /\ e.chain = slots[x].chain
        /\ e.sentinel = slots[x].sentinel /\ e.output_producers = slots[x].output_producers
        /\ e.data = slots[x].data
    BY <1>0 DEF RingElems
  <2>3. pc' = [pc EXCEPT ![Consumer] = l]
    BY <1>1, <1>2, <1>3
  <2>4. /\ l \in {"reading", "idle", "install"} /\ l \notin Sentinels
        /\ l = "reading" => "data" \in slots[ReadSpot].flags
        /\ \/ read_offset' = read_offset
           \/ read_offset' = read_offset + 1 /\ slots[ReadSpot].sentinel /\ l \in {"idle", "install"}
    BY <1>1, <1>2, <1>3 DEF Sentinels
  <2> HIDE DEF l, e, x, f, sentinel, drained
  <2>5. /\ slots' \in [DOMAIN slots -> RingElems] /\ DOMAIN slots' = DOMAIN slots
        /\ slots'[x] = e /\ \A s \in DOMAIN slots \ {x} : slots'[s] = slots[s]
    BY <1>0, <2>1, ElemReplaced DEF RingInv
  <2>6. \A s \in DOMAIN slots :
           /\ slots'[s].flags = slots[s].flags /\ slots'[s].chain = slots[s].chain
           /\ slots'[s].sentinel = slots[s].sentinel /\ slots'[s].data = slots[s].data
           /\ slots'[s].output_producers = slots[s].output_producers
    BY <2>2, <2>5
  <2> QED BY <1>1, <2>3, <2>4, <2>5, <2>6, RingPull
<1>4. CASE ~("data" \in f \/ sentinel)
  <2> DEFINE e == [slots[x] EXCEPT !.flags = @ \cup {"cons"}]
  <2>1. e \in RingElems /\ slots' = [slots EXCEPT ![x] = e]
    BY <1>0, <1>1, <1>4 DEF RingElems
  <2>2. /\ e.flags = slots[x].flags \cup {"cons"} /\ e.chain = slots[x].chain
        /\ e.sentinel = slots[x].sentinel /\ e.output_producers = slots[x].output_producers
        /\ e.waiting = slots[x].waiting /\ e.data = slots[x].data
    BY <1>0 DEF RingElems
  <2>3. pc' = [pc EXCEPT ![Consumer] = "parked"] /\ read_offset' = read_offset
    BY <1>1, <1>4
  <2>d. "parked" \in PullLabels /\ "data" \notin slots[x].flags /\ ~slots[x].sentinel
    BY <1>4 DEF PullLabels
  <2> HIDE DEF e, x
  <2>4. /\ RingTypes'
        /\ DOMAIN slots' = DOMAIN slots /\ MBCap' = MBCap
        /\ slots'[x] = e /\ \A s \in DOMAIN slots \ {x} : slots'[s] = slots[s]
        /\ ReadSpot' = ReadSpot /\ Limit' = Limit /\ \A q \in Producers : Spot(q)' = Spot(q)
        /\ \A q \in Producers : Spot(q) \in DOMAIN slots
        /\ pc'[Consumer] = "parked" /\ \A q \in Producers : pc'[q] = pc[q]
    BY <1>x, <1>1, <2>1, <2>3, <2>d, ConsumerFrame
  <2>8. RingOwners'
    BY <2>2, <2>4 DEF RingInv, RingOwners, Holding
  <2>w. slots[x].waiting
    BY <1>1, <1>x DEF RingInv, RingConsumer
  <2>9. RingData'
    BY <1>1, <1>x, <2>w, <2>2, <2>4, <2>d DEF RingInv, RingData
  <2>10. RingConsumer'
    BY <1>1, <1>x, <2>2, <2>4 DEF RingInv, RingConsumer, Sentinels
  <2>11. RingChains'
    <3>2. \A s \in DOMAIN slots : /\ slots'[s].chain = slots[s].chain
                                 /\ slots'[s].output_producers = slots[s].output_producers
      BY <2>2, <2>4
    <3> QED BY <3>2, <2>4, ChainsKept DEF RingInv
  <2>12. RingCutoff'
    BY <1>1, <2>4 DEF RingInv, RingCutoff
  <2>13. RingCount'
    <3>1. \A s \in DOMAIN slots : Held(s)' = Held(s) /\ (slots[s].sentinel => slots'[s].sentinel)
      BY <2>2, <2>4 DEF Held
    <3>2. \A s \in DOMAIN slots : Pushing(s)' \subseteq Pushing(s)
      BY <1>1, <2>4 DEF Pushing
    <3> QED BY <2>3, <2>4, <3>1, <3>2, CountKept DEF RingInv
  <2> QED BY <2>4, <2>8, <2>9, <2>10, <2>11, <2>12, <2>13 DEF RingInv
<1> QED BY <1>3, <1>4

\* Who waits for a slot that is freed: each is parked for it, and once.
LEMMA LineFacts ==
  ASSUME RingInv, NEW s \in DOMAIN slots, NEW line,
         line = IF slots[s].output_producers # <<>> THEN slots[s].output_producers
                ELSE MB!Reverse(slots[s].chain)
  PROVE  /\ line \in Seq(Producers)
         /\ \A i \in 1 .. Len(line) : line[i] \in Producers /\ pc[line[i]] = "parked" /\ Spot(line[i]) = s
         /\ \A i, j \in 1 .. Len(line) : line[i] = line[j] => i = j
         /\ slots[s].output_producers # <<>> =>
              \A i \in 1 .. Len(slots[s].chain) : \A j \in 1 .. Len(line) : slots[s].chain[i] # line[j]
<1> DEFINE chain == slots[s].chain
           output == slots[s].output_producers
<1>1. chain \in Seq(Producers) /\ output \in Seq(Producers)
  BY RingFacts DEF RingInv, RingElems
<1>2. /\ \A i \in 1 .. Len(chain) : chain[i] \in Producers
      /\ \A i \in 1 .. Len(output) : output[i] \in Producers
      /\ Len(chain) \in Nat
  BY <1>1
<1>3. /\ \A i \in 1 .. Len(chain) : pc[chain[i]] = "parked" /\ Spot(chain[i]) = s
      /\ \A i \in 1 .. Len(output) : pc[output[i]] = "parked" /\ Spot(output[i]) = s
      /\ \A i, j \in 1 .. Len(chain) : chain[i] = chain[j] => i = j
      /\ \A i, j \in 1 .. Len(output) : output[i] = output[j] => i = j
      /\ \A i \in 1 .. Len(chain) : \A j \in 1 .. Len(output) : chain[i] # output[j]
  BY DEF RingInv, RingChains
<1>4. CASE output # <<>>
  BY <1>1, <1>2, <1>3, <1>4
<1>5. CASE output = <<>>
  <2>1. line = [i \in 1 .. Len(chain) |-> chain[(Len(chain) - i) + 1]]
    BY <1>5 DEF MB!Reverse
  <2> HIDE DEF chain, output
  <2>2. \A i \in 1 .. Len(chain) : (Len(chain) - i) + 1 \in 1 .. Len(chain)
    BY <1>2
  <2>3. line \in [1 .. Len(chain) -> Producers]
    BY <1>2, <2>1, <2>2
  <2>4. line \in Seq(Producers) /\ Len(line) = Len(chain)
    BY <1>2, <2>3
  <2>5. \A i \in 1 .. Len(line) : line[i] \in Producers /\ pc[line[i]] = "parked" /\ Spot(line[i]) = s
    BY <1>2, <1>3, <2>1, <2>2, <2>4
  <2>6. \A i, j \in 1 .. Len(line) : line[i] = line[j] => i = j
    <3> SUFFICES ASSUME NEW i \in 1 .. Len(chain), NEW j \in 1 .. Len(chain), line[i] = line[j]
                 PROVE  i = j
      BY <2>4
    <3> DEFINE u == (Len(chain) - i) + 1
               v == (Len(chain) - j) + 1
    <3>2. u \in 1 .. Len(chain) /\ v \in 1 .. Len(chain) /\ line[i] = chain[u] /\ line[j] = chain[v]
      BY <2>1, <2>2
    <3>3. chain[u] = chain[v]
      BY <3>2
    <3>1. u = v
      <4> HIDE DEF u, v
      <4> QED BY <3>2, <3>3, <1>3
    <3> QED BY <3>1, <1>2
  <2> QED BY <1>5, <2>4, <2>5, <2>6 DEF output
<1> QED BY <1>4, <1>5

\* It resumes the producers of the chain.
LEMMA DrainStep ==
  ASSUME RingInv, MB!DrainAndHandOff
  PROVE  RingInv'
<1> DEFINE x == ReadSpot
           line == IF slots[x].output_producers # <<>> THEN slots[x].output_producers
                   ELSE MB!Reverse(slots[x].chain)
           next == IF line = <<>> THEN <<>> ELSE Tail(line)
           chain == IF slots[x].output_producers # <<>> THEN slots[x].chain ELSE <<>>
           f == IF line = <<>> THEN {} ELSE {"prod"}
           e == [slots[x] EXCEPT !.flags = f, !.chain = chain, !.output_producers = next]
<1>0. x \in DOMAIN slots /\ MB!ReadSlot = x /\ slots[x] \in RingElems
  BY RingFacts DEF RingInv
<1>1. /\ pc[Consumer] = "drain"
      /\ slots' = [slots EXCEPT ![x] = e]
      /\ pc' = [th \in DOMAIN pc |->
                  CASE th = Consumer -> "idle"
                    [] line # <<>> /\ th = Head(line) -> "write"
                    [] OTHER -> pc[th]]
      /\ read_offset' = read_offset + 1
      /\ UNCHANGED <<write_offset, closed, write_closed_at, ticket, pushes>>
  <2>1. pc[Consumer] = "drain" /\ read_offset' = read_offset + 1
        /\ UNCHANGED <<write_offset, closed, write_closed_at, ticket, pushes>>
    BY DEF MB!DrainAndHandOff
  <2>2. pc' = [th \in DOMAIN pc |->
                  CASE th = Consumer -> "idle"
                    [] line # <<>> /\ th = Head(line) -> "write"
                    [] OTHER -> pc[th]]
    BY <1>0 DEF MB!DrainAndHandOff
  <2>3. slots' = [slots EXCEPT ![x] =
                    [slots[x] EXCEPT !.flags = f,
                        !.chain = IF slots[x].output_producers # <<>> THEN @ ELSE <<>>,
                        !.output_producers = next]]
    BY <1>0 DEF MB!DrainAndHandOff
  <2>4. [slots[x] EXCEPT !.flags = f, !.chain = IF slots[x].output_producers # <<>> THEN @ ELSE <<>>,
                        !.output_producers = next] = e
    BY <1>0 DEF RingElems
  <2> HIDE DEF e
  <2> QED BY <2>1, <2>2, <2>3, <2>4
<1>l. /\ line \in Seq(Producers)
      /\ \A i \in 1 .. Len(line) : line[i] \in Producers /\ pc[line[i]] = "parked" /\ Spot(line[i]) = x
      /\ \A i, j \in 1 .. Len(line) : line[i] = line[j] => i = j
      /\ slots[x].output_producers # <<>> =>
           \A i \in 1 .. Len(slots[x].chain) : \A j \in 1 .. Len(line) : slots[x].chain[i] # line[j]
  <2> HIDE DEF x
  <2> QED BY <1>0, LineFacts
<1>c. /\ chain \in Seq(Producers)
      /\ \A i \in 1 .. Len(chain) : chain[i] \in Producers /\ pc[chain[i]] = "parked" /\ Spot(chain[i]) = x
      /\ \A i, j \in 1 .. Len(chain) : chain[i] = chain[j] => i = j
      /\ \A i \in 1 .. Len(chain) : \A j \in 1 .. Len(line) : chain[i] # line[j]
  <2>1. CASE slots[x].output_producers # <<>>
    <3>1. chain = slots[x].chain /\ chain \in Seq(Producers)
      BY <1>0, <2>1 DEF RingElems
    <3>2. \A i \in 1 .. Len(chain) : chain[i] \in Producers
      BY <3>1
    <3>3. /\ \A i \in 1 .. Len(chain) : pc[chain[i]] = "parked" /\ Spot(chain[i]) = x
          /\ \A i, j \in 1 .. Len(chain) : chain[i] = chain[j] => i = j
      <4> HIDE DEF x
      <4> QED BY <1>0, <2>1 DEF RingInv, RingChains
    <3> QED BY <3>1, <3>2, <3>3, <1>l, <2>1
  <2>2. CASE slots[x].output_producers = <<>>
    <3>1. chain = <<>>
      BY <2>2
    <3> HIDE DEF chain, line
    <3>2. Len(chain) = 0 /\ chain \in Seq(Producers) /\ 1 .. Len(chain) = {}
      BY <3>1
    <3> QED BY <3>2
  <2> QED BY <2>1, <2>2
<1>f. slots[x].flags = {"data"} /\ slots[x].data = None /\ ~slots[x].sentinel
  BY <1>0, <1>1 DEF RingInv, RingConsumer, RingData
<1>o. \A q \in Producers : pc[q] \in Holding => Spot(q) # x
  BY <1>f DEF RingInv, RingOwners
<1>w. /\ \A q \in Producers : pc[q] # "wake"
      /\ \A s \in DOMAIN slots : "cons" \notin slots[s].flags
  BY <1>1 DEF RingInv, RingConsumer, RingData
<1>e. f \in SUBSET {"prod", "data", "cons"} /\ f \in {{}, {"prod"}} /\ (line # <<>> <=> f = {"prod"})
  <2> HIDE DEF line
  <2> QED OBVIOUS
<1>n. /\ next \in Seq(Producers) /\ Len(next) \in Nat
      /\ \A i \in 1 .. Len(next) : line # <<>> /\ i + 1 \in 1 .. Len(line) /\ next[i] = line[i + 1]
      /\ line # <<>> => 1 \in 1 .. Len(line) /\ Head(line) = line[1]
  <2> HIDE DEF line
  <2>1. CASE line = <<>>
    <3>1. next = <<>>
      BY <2>1
    <3> QED BY <2>1, <3>1
  <2>2. CASE line # <<>>
    <3>1. next = Tail(line)
      BY <2>2
    <3>2. Len(line) \in Nat \ {0} /\ Len(Tail(line)) = Len(line) - 1 /\ Tail(line) \in Seq(Producers)
          /\ Head(line) = line[1]
          /\ \A i \in 1 .. Len(Tail(line)) : Tail(line)[i] = line[i + 1]
      BY <1>l, <2>2
    <3> HIDE DEF next
    <3>3. /\ next \in Seq(Producers) /\ Len(next) = Len(line) - 1
          /\ \A i \in 1 .. Len(next) : next[i] = line[i + 1]
      BY <3>1, <3>2
    <3> QED BY <2>2, <3>2, <3>3
  <2> QED BY <2>1, <2>2
<1>2. e \in RingElems
  <2> HIDE DEF line, next, chain, f
  <2> QED BY <1>0, <1>c, <1>e, <1>n DEF RingElems
<1>3. /\ e.flags = f /\ e.chain = chain
      /\ e.sentinel = slots[x].sentinel /\ e.output_producers = next
      /\ e.waiting = slots[x].waiting /\ e.data = slots[x].data
  <2> HIDE DEF line, next, chain, f
  <2> QED BY <1>0 DEF RingElems
<1>x. x = ReadSpot
  OBVIOUS
<1> HIDE DEF e, x, line, next, chain, f
<1>4. /\ slots' \in [0 .. MBCap - 1 -> RingElems] /\ DOMAIN slots' = DOMAIN slots /\ MBCap' = MBCap
      /\ slots'[x] = e /\ \A s \in DOMAIN slots \ {x} : slots'[s] = slots[s]
  BY <1>0, <1>1, <1>2, ElemReplaced DEF RingInv
<1>5. /\ Limit' = Limit /\ \A q \in Producers : Spot(q)' = Spot(q)
      /\ \A q \in Producers : Spot(q) \in DOMAIN slots
  BY <1>1, <1>4, RingFacts DEF Spot, Limit, RingInv
<1>6. /\ pc'[Consumer] = "idle"
      /\ \A q \in Producers : pc'[q] = IF line # <<>> /\ q = Head(line) THEN "write" ELSE pc[q]
      /\ DOMAIN pc' = Producers \cup {Consumer} /\ Consumer \notin Producers
  <2>1. DOMAIN pc = Producers \cup {Consumer} /\ Consumer \notin Producers
    BY ThreadsAssumption DEF RingInv, RingTypes
  <2>p. pc' = [th \in DOMAIN pc |-> CASE th = Consumer -> "idle"
                                     [] line # <<>> /\ th = Head(line) -> "write"
                                     [] OTHER -> pc[th]]
    BY <1>1
  <2>d. DOMAIN pc' = DOMAIN pc /\ Consumer \in DOMAIN pc
    BY <2>1, <2>p
  <2>c. pc'[Consumer] = CASE Consumer = Consumer -> "idle"
                          [] line # <<>> /\ Consumer = Head(line) -> "write"
                          [] OTHER -> pc[Consumer]
    BY <2>p, <2>d
  <2>h. line # <<>> => Consumer # Head(line)
    BY <1>l, <1>n, ThreadsAssumption
  <2>2. DOMAIN pc' = DOMAIN pc /\ pc'[Consumer] = "idle"
    BY <2>c, <2>d, <2>h
  <2>3. ASSUME NEW q \in Producers
        PROVE  pc'[q] = IF line # <<>> /\ q = Head(line) THEN "write" ELSE pc[q]
    <3>1. q \in DOMAIN pc /\ q # Consumer
      BY <2>1
    <3>2. pc'[q] = CASE q = Consumer -> "idle"
                     [] line # <<>> /\ q = Head(line) -> "write"
                     [] OTHER -> pc[q]
      BY <3>1, <2>p
    <3> QED BY <3>1, <3>2
  <2> QED BY <2>1, <2>2, <2>3
<1>h. line # <<>> => /\ Head(line) \in Producers /\ pc[Head(line)] = "parked" /\ Spot(Head(line)) = x
  BY <1>l, <1>n
<1>7. RingTypes'
  <2>1. "idle" \in PullLabels /\ "write" \in PushLabels
    BY DEF PullLabels, PushLabels, Admitted, Holding
  <2>2. \A q \in Producers : pc'[q] \in PushLabels
    BY <1>6, <2>1 DEF RingInv, RingTypes
  <2>3. pc' = [th \in DOMAIN pc' |-> pc'[th]]
    BY <1>1
  <2>4. pc' \in [Producers \cup {Consumer} -> PushLabels \cup PullLabels]
    BY <1>6, <2>1, <2>2, <2>3
  <2>5. read_offset' \in Nat
    BY <1>1 DEF RingInv, RingTypes
  <2> QED BY <1>1, <1>4, <1>6, <2>1, <2>2, <2>4, <2>5 DEF RingInv, RingTypes
<1>8. RingOwners'
  <2> SUFFICES ASSUME NEW p \in Producers, pc'[p] \in Holding
               PROVE  /\ "prod" \in slots'[Spot(p)].flags
                      /\ \A q \in Producers \ {p} : pc'[q] \in Holding => Spot(q) # Spot(p)
                      /\ pc'[p] = "publish" => slots'[Spot(p)].data # None
    BY <1>5 DEF RingOwners
  <2>1. CASE line # <<>> /\ p = Head(line)
    <3>1. Spot(p) = x /\ slots'[x].flags = {"prod"} /\ pc'[p] = "write"
      BY <2>1, <1>h, <1>3, <1>4, <1>e, <1>6
    <3>2. \A q \in Producers \ {p} : pc'[q] \in Holding => Spot(q) # x
      BY <2>1, <1>6, <1>o
    <3> QED BY <3>1, <3>2
  <2>2. CASE ~(line # <<>> /\ p = Head(line))
    <3>1. pc[p] \in Holding /\ pc'[p] = pc[p] /\ Spot(p) # x
      BY <2>2, <1>6, <1>o
    <3>2. \A q \in Producers \ {p} : pc'[q] \in Holding => Spot(q) # Spot(p)
      BY <3>1, <1>6, <1>h DEF RingInv, RingOwners
    <3> QED BY <3>1, <3>2, <1>4, <1>5 DEF RingInv, RingOwners
  <2> QED BY <2>1, <2>2
<1>9. RingData'
  <2> SUFFICES ASSUME NEW s \in DOMAIN slots
               PROVE /\ "data" \in slots'[s].flags =>
                          /\ slots'[s].flags = {"data"} /\ slots'[s].data # None
                     /\ slots'[s].data # None =>
                           \/ "data" \in slots'[s].flags
                           \/ \E p \in Producers : pc'[p] = "publish" /\ Spot(p) = s
                     /\ slots'[s].sentinel => slots'[s].flags = {}
                     /\ "cons" \notin slots'[s].flags
    BY <1>4, <1>5 DEF RingData
  <2>1. CASE s = x
    BY <2>1, <1>3, <1>4, <1>e, <1>f
  <2>2. CASE s # x
    <3>1. \A p \in Producers : pc[p] = "publish" => pc'[p] = "publish"
      BY <1>6, <1>h
    <3> QED BY <2>2, <3>1, <1>1, <1>4, <1>w, <1>x DEF RingInv, RingData
  <2> QED BY <2>1, <2>2
<1>10. RingConsumer'
  <2>1. \A p \in Producers : pc'[p] # "wake"
    BY <1>6, <1>w
  <2> QED BY <2>1, <1>6 DEF RingConsumer, Sentinels
<1>11. RingChains'
  <2> SUFFICES ASSUME NEW s \in DOMAIN slots
               PROVE  (/\ \A i \in 1 .. Len(slots[s].chain) : pc[slots[s].chain[i]] = "parked" /\ Spot(slots[s].chain[i]) = s
                       /\ \A i \in 1 .. Len(slots[s].output_producers) : pc[slots[s].output_producers[i]] = "parked" /\ Spot(slots[s].output_producers[i]) = s
                       /\ \A i, j \in 1 .. Len(slots[s].chain) : slots[s].chain[i] = slots[s].chain[j] => i = j
                       /\ \A i, j \in 1 .. Len(slots[s].output_producers) : slots[s].output_producers[i] = slots[s].output_producers[j] => i = j
                       /\ \A i \in 1 .. Len(slots[s].chain) : \A j \in 1 .. Len(slots[s].output_producers) : slots[s].chain[i] # slots[s].output_producers[j])'
    BY <1>4 DEF RingChains
  <2>p. \A q \in Producers : pc[q] = "parked" /\ ~(line # <<>> /\ q = Head(line)) => pc'[q] = "parked"
    BY <1>6
  <2>s. \A q : q \in Producers /\ Spot(q) = s => (Spot(q) = s)' /\ ticket'[q] = ticket[q]
    BY <1>1, <1>5
  <2>1. CASE s = x
    <3>1. slots'[s].chain = chain /\ slots'[s].output_producers = next
      BY <2>1, <1>3, <1>4
    <3>2. \A i \in 1 .. Len(chain) : pc'[chain[i]] = "parked"
      <4> TAKE i \in 1 .. Len(chain)
      <4>1. line # <<>> => chain[i] # Head(line)
        BY <1>c, <1>n
      <4> QED BY <4>1, <1>c, <2>p
    <3>3. \A i \in 1 .. Len(next) : next[i] \in Producers /\ pc'[next[i]] = "parked" /\ Spot(next[i]) = s
      <4> TAKE i \in 1 .. Len(next)
      <4>1. line # <<>> /\ i + 1 \in 1 .. Len(line) /\ next[i] = line[i + 1] /\ Head(line) = line[1] /\ 1 \in 1 .. Len(line)
        BY <1>n
      <4>2. i + 1 # 1
        OBVIOUS
      <4>3. next[i] # Head(line)
        BY <4>1, <4>2, <1>l
      <4> QED BY <4>1, <4>3, <1>l, <2>p, <2>1
    <3>4. \A i, j \in 1 .. Len(next) : next[i] = next[j] => i = j
      <4> SUFFICES ASSUME NEW i \in 1 .. Len(next), NEW j \in 1 .. Len(next), next[i] = next[j] PROVE i = j
        OBVIOUS
      <4>1. i + 1 \in 1 .. Len(line) /\ j + 1 \in 1 .. Len(line) /\ line[i + 1] = line[j + 1]
        BY <1>n
      <4>2. i + 1 = j + 1
        BY <4>1, <1>l
      <4> QED BY <4>2
    <3>5. \A i \in 1 .. Len(chain) : \A j \in 1 .. Len(next) : chain[i] # next[j]
      BY <1>c, <1>n
    <3>6. /\ \A i \in 1 .. Len(chain) : (Spot(slots[s].chain[i]) = s)'
          /\ \A i \in 1 .. Len(next) : (Spot(slots[s].output_producers[i]) = s)'
      <4>1. \A i \in 1 .. Len(chain) : Spot(chain[i]) = s /\ chain[i] \in Producers
        BY <1>c, <2>1
      <4> QED BY <4>1, <3>1, <3>3, <1>1, <1>4 DEF Spot
    <3> QED BY <3>1, <3>2, <3>3, <3>4, <3>5, <3>6, <1>c
  <2>2. CASE s # x
    <3> DEFINE b == slots[s].chain
               o == slots[s].output_producers
    <3>1. slots'[s] = slots[s]
      BY <2>2, <1>4
    <3>2. b \in Seq(Producers) /\ o \in Seq(Producers)
      BY RingFacts DEF RingInv, RingElems
    <3>3. /\ \A i \in 1 .. Len(b) : b[i] \in Producers
          /\ \A i \in 1 .. Len(o) : o[i] \in Producers
      BY <3>2
    <3>4. /\ \A i \in 1 .. Len(b) : pc[b[i]] = "parked" /\ Spot(b[i]) = s
          /\ \A i \in 1 .. Len(o) : pc[o[i]] = "parked" /\ Spot(o[i]) = s
          /\ \A i, j \in 1 .. Len(b) : b[i] = b[j] => i = j
          /\ \A i, j \in 1 .. Len(o) : o[i] = o[j] => i = j
          /\ \A i \in 1 .. Len(b) : \A j \in 1 .. Len(o) : b[i] # o[j]
      BY DEF RingInv, RingChains
    <3>5. b' = b /\ o' = o
      BY <3>1
    <3> HIDE DEF b, o
    <3>6. /\ \A i \in 1 .. Len(b) : pc'[b[i]] = "parked"
          /\ \A i \in 1 .. Len(o) : pc'[o[i]] = "parked"
      BY <3>3, <3>4, <1>h, <2>2, <2>p
    <3>7. /\ \A i \in 1 .. Len(b) : (Spot(b[i]) = s)'
          /\ \A i \in 1 .. Len(o) : (Spot(o[i]) = s)'
      BY <3>3, <3>4, <3>5, <1>1, <1>4 DEF Spot
    <3> QED BY <3>4, <3>5, <3>6, <3>7 DEF b, o
  <2> QED BY <2>1, <2>2
<1>12. RingCutoff'
  <2>1. \A q \in Producers :
          /\ pc'[q] \in Admitted => pc[q] \in Admitted
          /\ pc'[q] = pc[q] \/ pc'[q] \in Admitted
    BY <1>6, <1>h DEF Admitted, Holding
  <2>2. \A q \in Producers : pc'[q] \in {"cutoff", "mark", "peek", "seal", "seal_cons", "ticket"} => pc'[q] = pc[q]
    BY <2>1 DEF Admitted, Holding
  <2>3. \A q \in Producers : pc[q] # "cutoff" => pc'[q] # "cutoff"
    BY <2>2
  <2> QED BY <1>1, <1>5, <2>1, <2>2, <2>3 DEF RingInv, RingCutoff
<1>13. RingCount'
  <2> SUFFICES ASSUME NEW s \in DOMAIN slots, ~slots'[s].sentinel
               PROVE  /\ IsFiniteSet(Pushing(s)')
                      /\ Rounds(read_offset + 1, s, MBCap) + Held(s)' + Cardinality(Pushing(s)')
                           <= Rounds(Limit, s, MBCap)
    BY <1>1, <1>4, <1>5 DEF RingCount
  <2>1. Pushing(s)' = Pushing(s)
    <3>1. \A q \in Producers : pc'[q] \in {"ticket"} \cup Admitted <=> pc[q] \in {"ticket"} \cup Admitted
      BY <1>6, <1>h DEF Admitted, Holding
    <3> QED BY <3>1, <1>1, <1>5 DEF Pushing
  <2>2. /\ IsFiniteSet(Pushing(s))
        /\ Rounds(read_offset, s, MBCap) + Held(s) + Cardinality(Pushing(s)) <= Rounds(Limit, s, MBCap)
    BY <1>3, <1>4 DEF RingInv, RingCount
  <2>3. Cardinality(Pushing(s)) \in Nat
    BY <2>2, FS_CardinalityType
  <2>4. s \in 0 .. MBCap - 1 /\ Limit \in Nat
    BY RingFacts DEF RingInv
  <2>5. /\ Rounds(read_offset, s, MBCap) \in Nat /\ Rounds(Limit, s, MBCap) \in Nat
        /\ Rounds(read_offset + 1, s, MBCap) = Rounds(read_offset, s, MBCap) + (IF ReadSpot = s THEN 1 ELSE 0)
    BY <2>4, RoundsNext DEF RingInv, RingTypes, ReadSpot
  <2>6. CASE s = x
    <3>1. Held(s) = 1 /\ Held(s)' = 0
      BY <2>6, <1>3, <1>4, <1>e, <1>f DEF Held
    <3> QED BY <2>1, <2>2, <2>3, <2>5, <2>6, <3>1, <1>x
  <2>7. CASE s # x
    <3>1. Held(s)' = Held(s) /\ Held(s) \in Nat
      BY <2>7, <1>4 DEF Held
    <3> QED BY <2>1, <2>2, <2>3, <2>5, <2>7, <3>1, <1>x
  <2> QED BY <2>6, <2>7
<1> QED BY <1>7, <1>8, <1>9, <1>10, <1>11, <1>12, <1>13 DEF RingInv

\* A producer takes tickets.
LEMMA GetTicketStep ==
  ASSUME RingInv, NEW p \in Producers, MB!GetTicket(p)
  PROVE  RingInv'
<1>1. /\ pc[p] = "idle" /\ pc' = [pc EXCEPT ![p] = "ticket"]
      /\ ticket' = [ticket EXCEPT ![p] = write_offset] /\ write_offset' = write_offset + 1
      /\ pushes' = [pushes EXCEPT ![p] = @ + 1]
      /\ UNCHANGED <<slots, read_offset, closed, write_closed_at>>
  BY DEF MB!GetTicket, MB!Goto
<1>2. /\ MBCap' = MBCap /\ ReadSpot' = ReadSpot /\ MBCap \in Nat \ {0}
      /\ write_offset \in Nat /\ ticket' \in [Producers -> Nat] /\ ticket'[p] = write_offset
      /\ \A q \in Producers \ {p} : ticket'[q] = ticket[q] /\ Spot(q)' = Spot(q)
      /\ Spot(p)' = RingSlot(write_offset, MBCap)
  BY <1>1 DEF MBCap, ReadSpot, Spot, RingInv, RingTypes
<1>3. /\ p # Consumer /\ pc'[p] = "ticket" /\ pc'[Consumer] = pc[Consumer]
      /\ \A q \in Producers \ {p} : pc'[q] = pc[q]
      /\ pc[Consumer] # "gone"
  BY <1>1, ThreadsAssumption DEF RingInv, RingTypes, RingConsumer
<1>4. Limit' = (IF write_closed_at = None THEN write_offset + 1 ELSE write_closed_at) /\ Limit \in Nat
  BY <1>1 DEF Limit, RingInv, RingTypes
<1>5. RingTypes'
  <2>1. /\ pc' \in [Producers \cup {Consumer} -> PushLabels \cup PullLabels]
        /\ \A q \in Producers : pc'[q] \in PushLabels
    BY <1>1, <1>3 DEF RingInv, RingTypes, PushLabels
  <2>2. pushes' \in [Producers -> Nat]
    BY <1>1 DEF RingInv, RingTypes
  <2> QED BY <1>1, <1>2, <1>3, <2>1, <2>2 DEF RingInv, RingTypes
<1>6. RingOwners'
  BY <1>1, <1>2, <1>3 DEF RingInv, RingOwners, Holding
<1>7. RingData'
  BY <1>1, <1>2, <1>3 DEF RingInv, RingData
<1>8. RingConsumer'
  BY <1>1, <1>2, <1>3 DEF RingInv, RingConsumer
<1>9. RingChains'
  <2>1. \A q \in Producers : pc[q] = "parked" => pc'[q] = "parked" /\ Spot(q)' = Spot(q)
    BY <1>1, <1>2, <1>3
  <2> QED BY <1>1, <2>1, ChainsKept DEF RingInv
<1>10. RingCutoff'
  <2>1. \A q \in Producers \ {p} : pc[q] \in Admitted => ticket[q] < Limit'
    BY <1>4, <1>2 DEF RingInv, RingCutoff, Limit, RingTypes
  <2>2. Limit' \in Nat
    BY <1>1, <1>4 DEF RingInv, RingTypes
  <2>3. write_offset + 1 \in Nat /\ write_closed_at # None => write_closed_at \in Nat
    BY <1>2 DEF RingInv, RingTypes
  <2>4. \A q \in Producers : ticket[q] \in Nat
    BY DEF RingInv, RingTypes
  <2>5. write_closed_at # None => closed /\ write_closed_at < write_offset + 1
    BY <2>3, <1>2 DEF RingInv, RingCutoff, RingTypes
  <2>6. \A q \in Producers : pc'[q] = "ticket" => ticket'[q] < write_offset + 1
    BY <1>2, <1>3, <2>4 DEF RingInv, RingCutoff
  <2>7. \A q \in Producers : pc'[q] \in Admitted => ticket'[q] < Limit'
    BY <1>2, <1>3, <2>1 DEF Admitted, Holding
  <2> QED BY <1>1, <1>3, <2>5, <2>6, <2>7 DEF RingInv, RingCutoff
<1>11. RingCount'
  <2> SUFFICES ASSUME NEW s \in DOMAIN slots, ~slots[s].sentinel
               PROVE  /\ IsFiniteSet(Pushing(s)')
                      /\ Rounds(read_offset, s, MBCap) + Held(s) + Cardinality(Pushing(s)')
                           <= Rounds(Limit', s, MBCap)
    BY <1>1, <1>2 DEF RingCount, Held
  <2>2. /\ IsFiniteSet(Pushing(s))
        /\ Rounds(read_offset, s, MBCap) + Held(s) + Cardinality(Pushing(s)) <= Rounds(Limit, s, MBCap)
    BY DEF RingInv, RingCount
  <2>3. Cardinality(Pushing(s)) \in Nat /\ Held(s) \in Nat
    BY <2>2, FS_CardinalityType DEF Held
  <2>4. s \in 0 .. MBCap - 1
    BY RingFacts DEF RingInv
  <2>5. Rounds(read_offset, s, MBCap) \in Nat /\ Rounds(Limit, s, MBCap) \in Nat
    BY <2>4, <1>4, RoundsNext DEF RingInv, RingTypes
  <2>6. p \notin Pushing(s)
    BY <1>1 DEF Pushing, Admitted, Holding
  <2>7. ASSUME NEW q \in Producers \ {p}, q \in Pushing(s)' PROVE q \in Pushing(s)
    <3>1. pc[q] \in {"ticket"} \cup Admitted /\ Spot(q) = s /\ ticket[q] < Limit'
      BY <2>7, <1>2, <1>3 DEF Pushing
    <3>2. ticket[q] < Limit
      <4>1. CASE write_closed_at # None
        BY <3>1, <4>1, <1>4 DEF Limit
      <4>2. CASE write_closed_at = None
        BY <3>1, <4>2 DEF Limit, RingInv, RingCutoff
      <4> QED BY <4>1, <4>2
    <3> QED BY <3>1, <3>2 DEF Pushing
  <2>8. Pushing(s)' \subseteq Pushing(s) \cup {p}
    BY <2>7 DEF Pushing
  <2>9. /\ IsFiniteSet(Pushing(s) \cup {p}) /\ Cardinality(Pushing(s) \cup {p}) = Cardinality(Pushing(s)) + 1
    BY <2>2, <2>6, FS_AddElement
  <2>10. CASE write_closed_at = None /\ s = RingSlot(write_offset, MBCap)
    <3>1. IsFiniteSet(Pushing(s)') /\ Cardinality(Pushing(s)') <= Cardinality(Pushing(s)) + 1
          /\ Cardinality(Pushing(s)') \in Nat
      BY <2>8, <2>9, FS_Subset, FS_CardinalityType
    <3>2. Rounds(Limit', s, MBCap) = Rounds(Limit, s, MBCap) + 1
      BY <2>10, <2>4, <1>2, <1>4, RoundsNext DEF Limit
    <3> QED BY <3>1, <3>2, <2>2, <2>3, <2>5
  <2>11. CASE ~(write_closed_at = None /\ s = RingSlot(write_offset, MBCap))
    <3>0. p \notin Pushing(s)'
      <4>1. ASSUME p \in Pushing(s)' PROVE FALSE
        <5>1. Spot(p)' = s /\ ticket'[p] < Limit'
          BY <4>1 DEF Pushing
        <5>2. write_closed_at # None
          BY <5>1, <2>11, <1>2
        <5>3. write_offset < write_closed_at /\ write_closed_at < write_offset
          BY <5>1, <5>2, <1>2, <1>4 DEF RingInv, RingCutoff
        <5>4. write_offset \in Nat /\ write_closed_at \in Nat
          BY <5>2 DEF RingInv, RingTypes
        <5> QED BY <5>3, <5>4
      <4> QED BY <4>1
    <3>1. Pushing(s)' \subseteq Pushing(s)
      BY <2>8, <3>0
    <3>2. IsFiniteSet(Pushing(s)') /\ Cardinality(Pushing(s)') <= Cardinality(Pushing(s))
          /\ Cardinality(Pushing(s)') \in Nat
      BY <3>1, <2>2, FS_Subset, FS_CardinalityType
    <3>3. Rounds(Limit', s, MBCap) = Rounds(Limit, s, MBCap)
      <4>1. CASE write_closed_at # None
        BY <4>1, <1>4 DEF Limit
      <4>2. CASE write_closed_at = None
        BY <4>2, <2>11, <2>4, <2>5, <1>2, <1>4, RoundsNext DEF Limit
      <4> QED BY <4>1, <4>2
    <3> QED BY <3>2, <3>3, <2>2, <2>3, <2>5
  <2> QED BY <2>10, <2>11
<1> QED BY <1>5, <1>6, <1>7, <1>8, <1>9, <1>10, <1>11 DEF RingInv

\* close begins with the flag.
LEMMA CloseFlagStep ==
  ASSUME RingInv, NEW p \in Producers, MB!CloseFlag(p)
  PROVE  RingInv'
<1>1. /\ pc[p] = "idle" /\ ~closed /\ pc' = [pc EXCEPT ![p] = "cutoff"] /\ closed' = TRUE
      /\ UNCHANGED <<slots, write_offset, read_offset, write_closed_at, ticket, pushes>>
  BY DEF MB!CloseFlag, MB!Goto
<1>2. /\ MBCap' = MBCap /\ ReadSpot' = ReadSpot /\ Limit' = Limit
      /\ \A q \in Producers : Spot(q)' = Spot(q)
  BY <1>1 DEF MBCap, ReadSpot, Spot, Limit
<1>3. /\ p # Consumer /\ pc'[p] = "cutoff" /\ pc'[Consumer] = pc[Consumer]
      /\ \A q \in Producers \ {p} : pc'[q] = pc[q]
      /\ pc[Consumer] # "gone"
  BY <1>1, ThreadsAssumption DEF RingInv, RingTypes, RingConsumer
<1>5. RingTypes'
  <2>1. /\ pc' \in [Producers \cup {Consumer} -> PushLabels \cup PullLabels]
        /\ \A q \in Producers : pc'[q] \in PushLabels
    BY <1>1, <1>3 DEF RingInv, RingTypes, PushLabels
  <2> QED BY <1>1, <1>2, <1>3, <2>1 DEF RingInv, RingTypes
<1>6. RingOwners'
  BY <1>1, <1>2, <1>3 DEF RingInv, RingOwners, Holding
<1>7. RingData'
  BY <1>1, <1>2, <1>3 DEF RingInv, RingData
<1>8. RingConsumer'
  BY <1>1, <1>2, <1>3 DEF RingInv, RingConsumer
<1>9. RingChains'
  <2>1. \A q \in Producers : pc[q] = "parked" => pc'[q] = "parked"
    BY <1>1, <1>3
  <2> QED BY <1>1, <1>2, <2>1, ChainsKept DEF RingInv
<1>10. RingCutoff'
  <2>1. write_closed_at = None
    BY <1>1 DEF RingInv, RingCutoff
  <2>2. \A q \in Producers : pc[q] # "cutoff"
    BY <1>1 DEF RingInv, RingCutoff
  <2> QED BY <1>1, <1>2, <1>3, <2>1, <2>2 DEF RingInv, RingCutoff, Admitted, Holding
<1>11. RingCount'
  <2>1. \A s \in DOMAIN slots : Held(s)' = Held(s)
    BY <1>1 DEF Held
  <2>2. \A s \in DOMAIN slots : Pushing(s)' \subseteq Pushing(s)
    BY <1>1, <1>2, <1>3 DEF Pushing, Admitted, Holding
  <2> QED BY <1>1, <1>2, <2>1, <2>2, CountKept DEF RingInv
<1> QED BY <1>5, <1>6, <1>7, <1>8, <1>9, <1>10, <1>11 DEF RingInv

\* It takes the cutoff.
LEMMA CloseCutoffStep ==
  ASSUME RingInv, NEW p \in Producers, MB!CloseCutoff(p)
  PROVE  RingInv'
<1>1. /\ pc[p] = "cutoff" /\ pc' = [pc EXCEPT ![p] = "mark"]
      /\ write_closed_at' = write_offset /\ write_offset' = write_offset + 1
      /\ UNCHANGED <<slots, read_offset, closed, ticket, pushes>>
  BY DEF MB!CloseCutoff, MB!Goto
<1>0. /\ write_closed_at = None /\ closed /\ write_offset \in Nat /\ write_offset # None
      /\ \A q \in Producers \ {p} : pc[q] # "cutoff"
  BY <1>1, ThreadsAssumption DEF RingInv, RingCutoff, RingTypes
<1>2. /\ MBCap' = MBCap /\ ReadSpot' = ReadSpot /\ Limit' = Limit /\ Limit = write_offset
      /\ \A q \in Producers : Spot(q)' = Spot(q)
  BY <1>0, <1>1 DEF MBCap, ReadSpot, Spot, Limit
<1>3. /\ p # Consumer /\ pc'[p] = "mark" /\ pc'[Consumer] = pc[Consumer]
      /\ \A q \in Producers \ {p} : pc'[q] = pc[q]
      /\ pc[Consumer] # "gone"
  BY <1>1, ThreadsAssumption DEF RingInv, RingTypes, RingConsumer
<1>5. RingTypes'
  <2>1. /\ pc' \in [Producers \cup {Consumer} -> PushLabels \cup PullLabels]
        /\ \A q \in Producers : pc'[q] \in PushLabels
    BY <1>1, <1>3 DEF RingInv, RingTypes, PushLabels
  <2> QED BY <1>0, <1>1, <1>2, <1>3, <2>1 DEF RingInv, RingTypes
<1>6. RingOwners'
  BY <1>1, <1>2, <1>3 DEF RingInv, RingOwners, Holding
<1>7. RingData'
  BY <1>1, <1>2, <1>3 DEF RingInv, RingData
<1>8. RingConsumer'
  BY <1>1, <1>2, <1>3 DEF RingInv, RingConsumer
<1>9. RingChains'
  <2>1. \A q \in Producers : pc[q] = "parked" => pc'[q] = "parked"
    BY <1>1, <1>3
  <2> QED BY <1>1, <1>2, <2>1, ChainsKept DEF RingInv
<1>10. RingCutoff'
  <2>1. \A q \in Producers : ticket[q] \in Nat
    BY DEF RingInv, RingTypes
  <2>2. \A q \in Producers : pc'[q] # "cutoff"
    BY <1>0, <1>3
  <2>3. \A q \in Producers : pc'[q] = "ticket" => ticket[q] < write_offset + 1
    BY <1>0, <1>3, <2>1 DEF RingInv, RingCutoff
  <2>4. \A q \in Producers : pc'[q] \in Admitted => ticket[q] < Limit
    BY <1>3 DEF RingInv, RingCutoff, Admitted, Holding
  <2> QED BY <1>0, <1>1, <1>2, <2>2, <2>3, <2>4 DEF RingCutoff
<1>11. RingCount'
  <2>1. \A s \in DOMAIN slots : Held(s)' = Held(s)
    BY <1>1 DEF Held
  <2>2. \A s \in DOMAIN slots : Pushing(s)' \subseteq Pushing(s)
    BY <1>1, <1>2, <1>3 DEF Pushing, Admitted, Holding
  <2> QED BY <1>1, <1>2, <2>1, <2>2, CountKept DEF RingInv
<1> QED BY <1>5, <1>6, <1>7, <1>8, <1>9, <1>10, <1>11 DEF RingInv

\* It seals the slot of the cutoff.
LEMMA CloseSealStep ==
  ASSUME RingInv, NEW p \in Producers, MB!CloseSeal(p)
  PROVE  RingInv'
<1> DEFINE x == MB!CutoffSlot
           seen == IF pc[p] = "seal" THEN {} ELSE {"cons"}
           waiting == slots[x].waiting
           e == [slots[x] EXCEPT !.flags = {}, !.sentinel = TRUE, !.waiting = waiting /\ seen = {}]
           l == IF seen # {} /\ waiting THEN "idle" ELSE pc[Consumer]
<1>0. /\ pc[p] \in {"seal", "seal_cons"} /\ write_closed_at # None /\ p # Consumer
      /\ UNCHANGED <<write_offset, read_offset, closed, write_closed_at, ticket, pushes>>
  BY ThreadsAssumption DEF MB!CloseSeal, RingInv, RingCutoff
<1>x. x \in DOMAIN slots /\ slots[x] \in RingElems
  BY <1>0, RingFacts DEF RingInv, RingTypes
<1>1. \/ slots' = slots /\ pc' = [pc EXCEPT ![p] = "mark"]
      \/ /\ slots[x].flags = seen /\ slots[x].chain = <<>>
         /\ slots' = [slots EXCEPT ![x].flags = {}, ![x].sentinel = TRUE,
                                   ![x].waiting = @ /\ seen = {}]
         /\ IF seen # {} /\ waiting
            THEN pc' = [pc EXCEPT ![p] = "idle", ![Consumer] = "idle"]
            ELSE pc' = [pc EXCEPT ![p] = "idle"]
  BY DEF MB!CloseSeal, MB!Goto
<1>2. CASE slots' = slots /\ pc' = [pc EXCEPT ![p] = "mark"]
  BY <1>0, <1>2, RingMove DEF Holding, RingVars
<1>3. CASE /\ slots[x].flags = seen
           /\ slots' = [slots EXCEPT ![x].flags = {}, ![x].sentinel = TRUE,
                                     ![x].waiting = @ /\ seen = {}]
           /\ IF seen # {} /\ waiting
              THEN pc' = [pc EXCEPT ![p] = "idle", ![Consumer] = "idle"]
              ELSE pc' = [pc EXCEPT ![p] = "idle"]
  <2>1. slots' = [slots EXCEPT ![x] = e] /\ e \in RingElems
    BY <1>x, <1>3 DEF RingElems
  <2>2. /\ e.flags = {} /\ e.chain = slots[x].chain
        /\ e.sentinel = TRUE /\ e.output_producers = slots[x].output_producers
        /\ e.waiting = (waiting /\ seen = {}) /\ e.data = slots[x].data
    BY <1>x DEF RingElems
  <2>s. seen = {} \/ seen = {"cons"}
    OBVIOUS
  <2>c. seen # {} => pc[Consumer] = "parked" /\ x = ReadSpot /\ waiting
    BY <1>x, <1>3 DEF RingInv, RingData
  <2>l. l = IF seen # {} THEN "idle" ELSE pc[Consumer]
    BY <2>c
  <2>f. "data" \notin slots[x].flags /\ "prod" \notin slots[x].flags /\ slots[x].flags = seen
    BY <1>3, <2>s
  <2>p. /\ pc'[p] = "idle" /\ pc'[Consumer] = l
        /\ \A q \in Producers \ {p} : pc'[q] = pc[q]
        /\ pc' \in [Producers \cup {Consumer} -> PushLabels \cup PullLabels]
    <3>1. "idle" \in PushLabels /\ "idle" \in PullLabels
      BY DEF PushLabels, PullLabels
    <3>2. /\ pc \in [Producers \cup {Consumer} -> PushLabels \cup PullLabels]
          /\ p \in Producers \cup {Consumer} /\ Consumer \in Producers \cup {Consumer}
          /\ \A q \in Producers : q # Consumer
      BY ThreadsAssumption DEF RingInv, RingTypes
    <3>3. CASE seen # {} /\ waiting
      <4>1. pc' = [pc EXCEPT ![p] = "idle", ![Consumer] = "idle"] /\ l = "idle"
        BY <1>3, <3>3
      <4> HIDE DEF seen, waiting, e, x, l
      <4> QED BY <1>0, <3>1, <3>2, <4>1
    <3>4. CASE ~(seen # {} /\ waiting)
      <4>1. pc' = [pc EXCEPT ![p] = "idle"] /\ l = pc[Consumer]
        BY <1>3, <3>4
      <4> HIDE DEF seen, waiting, e, x, l
      <4> QED BY <1>0, <3>1, <3>2, <4>1
    <3> QED BY <3>3, <3>4
  <2>g. pc[Consumer] # "gone"
    BY <1>0 DEF RingInv, RingConsumer
  <2>w. seen # {} => \A q \in Producers : pc[q] # "wake"
    BY <2>c, <2>f DEF RingInv, RingConsumer
  <2>o. \A q \in Producers : pc[q] \in Holding => Spot(q) # x
    BY <2>f DEF RingInv, RingOwners
  <2> HIDE DEF x, seen, waiting, e, l
  <2>4. /\ slots' \in [0 .. MBCap - 1 -> RingElems] /\ DOMAIN slots' = DOMAIN slots /\ MBCap' = MBCap
        /\ slots'[x] = e /\ \A s \in DOMAIN slots \ {x} : slots'[s] = slots[s]
    BY <1>x, <2>1, ElemReplaced DEF RingInv
  <2>5. /\ ReadSpot' = ReadSpot /\ Limit' = Limit /\ \A q \in Producers : Spot(q)' = Spot(q)
        /\ \A q \in Producers : Spot(q) \in DOMAIN slots
        /\ ReadSpot \in DOMAIN slots
    BY <1>0, <2>4, RingFacts DEF ReadSpot, Spot, Limit, RingInv
  <2>7. RingTypes'
    <3>1. l \in PullLabels
      BY <2>l DEF RingInv, RingTypes, PullLabels
    <3>2. \A q \in Producers : pc'[q] \in PushLabels
      BY <2>p DEF RingInv, RingTypes, PushLabels
    <3> QED BY <1>0, <2>4, <2>p, <3>1, <3>2 DEF RingInv, RingTypes
  <2>8. RingOwners'
    BY <2>o, <2>4, <2>5, <2>p DEF RingInv, RingOwners, Holding
  <2>9. RingData'
    <3> SUFFICES ASSUME NEW s \in DOMAIN slots
                 PROVE /\ "data" \in slots'[s].flags =>
                          /\ slots'[s].flags = {"data"}
                          /\ slots'[s].data = None => pc'[Consumer] = "drain" /\ s = ReadSpot
                       /\ slots'[s].data # None =>
                             \/ "data" \in slots'[s].flags
                             \/ \E q \in Producers : pc'[q] = "publish" /\ Spot(q) = s
                       /\ slots'[s].sentinel => slots'[s].flags = {}
                       /\ "cons" \in slots'[s].flags =>
                            pc'[Consumer] = "parked" /\ s = ReadSpot /\ slots'[s].waiting
      BY <2>4, <2>5 DEF RingData
    <3>0. \A q \in Producers : pc[q] = "publish" => pc'[q] = "publish"
      BY <1>0, <2>p
    <3>1. CASE s = x
      BY <3>1, <3>0, <2>2, <2>4, <2>f DEF RingInv, RingData
    <3>2. CASE s # x
      <4>1. slots'[s] = slots[s]
        BY <3>2, <2>4
      <4>2. "cons" \in slots[s].flags => seen = {}
        BY <3>2, <2>c DEF RingInv, RingData
      <4>3. pc[Consumer] = "drain" => pc'[Consumer] = "drain"
        BY <2>c, <2>l, <2>p
      <4> QED BY <4>1, <4>2, <4>3, <3>0, <2>g, <2>l, <2>p DEF RingInv, RingData
    <3> QED BY <3>1, <3>2
  <2>10. RingConsumer'
    <3>1. CASE seen # {}
      <4>1. pc'[Consumer] = "idle" /\ \A q \in Producers : pc'[q] # "wake"
        BY <3>1, <2>l, <2>p, <2>w
      <4> QED BY <4>1 DEF RingConsumer, Sentinels
    <3>2. CASE seen = {}
      <4>1. pc'[Consumer] = pc[Consumer]
        BY <3>2, <2>l, <2>p
      <4>2. "data" \in slots[ReadSpot].flags => slots'[ReadSpot] = slots[ReadSpot]
        BY <2>4, <2>5, <2>f
      <4>3. slots'[ReadSpot].sentinel \/ slots'[ReadSpot] = slots[ReadSpot]
        BY <2>2, <2>4, <2>5
      <4>4. slots'[ReadSpot].data = slots[ReadSpot].data
        BY <2>2, <2>4, <2>5
      <4>5. slots'[ReadSpot].waiting = slots[ReadSpot].waiting
        BY <1>x, <3>2, <2>2, <2>4, <2>5 DEF waiting, RingElems
      <4> QED BY <4>1, <4>2, <4>3, <4>4, <4>5, <2>5, <2>g, <2>p DEF RingInv, RingConsumer
    <3> QED BY <3>1, <3>2
  <2>11. RingChains'
    <3>1. \A q \in Producers : pc[q] = "parked" => pc'[q] = "parked"
      BY <1>0, <2>p
    <3>2. \A s \in DOMAIN slots : /\ slots'[s].chain = slots[s].chain
                                 /\ slots'[s].output_producers = slots[s].output_producers
      BY <2>2, <2>4
    <3> QED BY <3>1, <3>2, <2>4, <2>5, ChainsKept DEF RingInv
  <2>12. RingCutoff'
    BY <1>0, <2>5, <2>p DEF RingInv, RingCutoff, Admitted, Holding
  <2>13. RingCount'
    <3>1. \A s \in DOMAIN slots : (slots'[s].sentinel \/ Held(s)' = Held(s))
                               /\ (slots[s].sentinel => slots'[s].sentinel)
      BY <2>2, <2>4 DEF Held
    <3>2. \A s \in DOMAIN slots : Pushing(s)' \subseteq Pushing(s)
      BY <1>0, <2>5, <2>p DEF Pushing, Admitted, Holding
    <3> QED BY <1>0, <2>4, <2>5, <3>1, <3>2, CountKept DEF RingInv
  <2> QED BY <2>7, <2>8, <2>9, <2>10, <2>11, <2>12, <2>13 DEF RingInv
<1> QED BY <1>1, <1>2, <1>3

\* Nobody is inside: what is left in a slot has a ticket that was never read, below the cutoff.
LEMMA LeftBehind ==
  ASSUME RingInv, write_closed_at # None, \A th \in DOMAIN pc : pc[th] = "idle",
         NEW s \in DOMAIN slots, slots[s].data # None
  PROVE  "data" \in slots[s].flags /\ \E i \in read_offset .. write_closed_at - 1 : s = MB!Slot(i)
<1>1. \A p \in Producers : pc[p] = "idle"
  BY DEF RingInv, RingTypes
<1>2. "data" \in slots[s].flags /\ ~slots[s].sentinel
  BY <1>1 DEF RingInv, RingData
<1>3. /\ IsFiniteSet(Pushing(s)) /\ Limit = write_closed_at
      /\ Rounds(read_offset, s, MBCap) + 1 + Cardinality(Pushing(s)) <= Rounds(write_closed_at, s, MBCap)
  BY <1>2 DEF RingInv, RingCount, Held, Limit
<1>4. Cardinality(Pushing(s)) \in Nat
  BY <1>3, FS_CardinalityType
<1>5. s \in 0 .. MBCap - 1 /\ MBCap \in Nat \ {0} /\ read_offset \in Nat /\ write_closed_at \in Nat
  BY DEF RingInv, RingTypes
<1>6. Rounds(read_offset, s, MBCap) \in Nat /\ Rounds(write_closed_at, s, MBCap) \in Nat
  BY <1>5, RoundsNext
<1>7. Rounds(read_offset, s, MBCap) < Rounds(write_closed_at, s, MBCap)
  BY <1>3, <1>4, <1>6
<1>8. PICK i \in read_offset .. write_closed_at - 1 : RingSlot(i, MBCap) = s
  BY <1>5, <1>7, RoundsBehind
<1>9. MB!Slot(i) = s
  BY <1>8 DEF MB!Slot, MB!Cardinality, Cardinality, MBCap, RingSlot
<1> QED BY <1>2, <1>8, <1>9

\* The destructor leaves no value in the ring.
LEMMA DestroyRingStep ==
  ASSUME RingInv, MB!Destroy
  PROVE  RingInv'
<1> DEFINE left(s) == "data" \in slots[s].flags
                      /\ \E i \in read_offset .. write_closed_at - 1 : s = MB!Slot(i)
<1>1. /\ write_closed_at # None /\ \A th \in DOMAIN pc : pc[th] = "idle"
      /\ slots' = [s \in DOMAIN slots |-> IF left(s) THEN [slots[s] EXCEPT !.data = None] ELSE slots[s]]
      /\ pc' = [th \in DOMAIN pc |-> "gone"]
      /\ UNCHANGED <<write_offset, read_offset, closed, write_closed_at, ticket, pushes>>
  BY DEF MB!Destroy
<1>2. \A s \in DOMAIN slots : slots[s].data # None => left(s)
  BY <1>1, LeftBehind
<1> HIDE DEF left
<1>3. /\ DOMAIN slots' = DOMAIN slots /\ MBCap' = MBCap
      /\ \A s \in DOMAIN slots :
           /\ slots'[s].flags = slots[s].flags /\ slots'[s].chain = slots[s].chain
           /\ slots'[s].sentinel = slots[s].sentinel /\ slots'[s].data = None
           /\ slots'[s].output_producers = slots[s].output_producers
           /\ slots'[s] \in RingElems
  <2>1. DOMAIN slots' = DOMAIN slots
    BY <1>1
  <2>2. MBCap' = MBCap
    BY <2>1 DEF MBCap
  <2>3. \A s \in DOMAIN slots : slots[s] \in RingElems
    BY RingFacts DEF RingInv
  <2>4. \A s \in DOMAIN slots : slots'[s] = IF left(s) THEN [slots[s] EXCEPT !.data = None] ELSE slots[s]
    BY <1>1
  <2>5. ASSUME NEW s \in DOMAIN slots
        PROVE  /\ slots'[s].flags = slots[s].flags /\ slots'[s].chain = slots[s].chain
               /\ slots'[s].sentinel = slots[s].sentinel /\ slots'[s].data = None
               /\ slots'[s].output_producers = slots[s].output_producers
               /\ slots'[s] \in RingElems
    <3>1. CASE left(s)
      BY <2>3, <2>4, <3>1 DEF RingElems
    <3>2. CASE ~left(s)
      BY <2>3, <2>4, <3>2, <1>2
    <3> QED BY <3>1, <3>2
  <2> QED BY <2>1, <2>2, <2>5
<1>4. /\ DOMAIN pc = Producers \cup {Consumer} /\ pc[Consumer] = "idle" /\ \A q \in Producers : pc[q] = "idle"
      /\ pc'[Consumer] = "gone" /\ \A q \in Producers : pc'[q] = "gone"
  BY <1>1 DEF RingInv, RingTypes
<1>5. /\ ReadSpot' = ReadSpot /\ Limit' = Limit /\ \A q \in Producers : Spot(q)' = Spot(q)
  BY <1>1, <1>3 DEF ReadSpot, Spot, Limit
<1>7. RingTypes'
  <2>1. pc' \in [Producers \cup {Consumer} -> PushLabels \cup PullLabels]
    BY <1>1, <1>4 DEF PushLabels
  <2>2. (\A q \in Producers : pc'[q] \in PushLabels) /\ pc'[Consumer] \in PullLabels
    BY <1>4 DEF PushLabels, PullLabels
  <2>3. slots' \in [0 .. MBCap - 1 -> RingElems]
    <3>1. DOMAIN slots = 0 .. MBCap - 1
      BY RingFacts DEF RingInv
    <3>2. slots' = [s \in DOMAIN slots' |-> slots'[s]]
      BY <1>1
    <3> QED BY <1>3, <3>1, <3>2
  <2> QED BY <1>1, <1>3, <2>1, <2>2, <2>3 DEF RingInv, RingTypes
<1>8. RingOwners'
  BY <1>4 DEF RingOwners, Holding
<1>9. RingData'
  BY <1>3, <1>4 DEF RingInv, RingData
<1>10. RingConsumer'
  BY <1>3, <1>4 DEF RingConsumer, Sentinels
<1>11. RingChains'
  BY <1>3, <1>4, ChainsKept DEF RingInv
<1>12. RingCutoff'
  BY <1>1, <1>4 DEF RingInv, RingCutoff, Admitted, Holding
<1>13. RingCount'
  <2>1. \A s \in DOMAIN slots : Held(s)' = Held(s) /\ (slots[s].sentinel => slots'[s].sentinel)
    BY <1>3 DEF Held
  <2>2. \A s \in DOMAIN slots : Pushing(s)' \subseteq Pushing(s)
    BY <1>4 DEF Pushing, Admitted, Holding
  <2> QED BY <1>1, <1>3, <1>5, <2>1, <2>2, CountKept DEF RingInv
<1> QED BY <1>7, <1>8, <1>9, <1>10, <1>11, <1>12, <1>13 DEF RingInv

\* Nothing is in the ring before the first ticket.
LEMMA RingInit ==
  ASSUME MB!Init
  PROVE  RingInv
<1> DEFINE e == [flags |-> {}, chain |-> <<>>, sentinel |-> FALSE, output_producers |-> <<>>,
                 waiting |-> FALSE, wait_idx |-> 0, data |-> None]
<1>1. PICK capacity \in Capacities : slots = [s \in 0 .. capacity - 1 |-> e]
  BY DEF MB!Init
<1>2. capacity \in Nat \ {0} /\ None \notin Nat
  BY CapacitiesAssumption, ThreadsAssumption
<1>3. DOMAIN slots = 0 .. capacity - 1 /\ MBCap = capacity
  <2>1. DOMAIN slots = 0 .. capacity - 1
    BY <1>1
  <2> QED BY <1>2, <2>1, FS_Interval DEF MBCap
<1>4. e \in RingElems
  BY DEF RingElems
<1>5. /\ write_offset = 0 /\ read_offset = 0 /\ closed = FALSE /\ write_closed_at = None
      /\ ticket = [p \in Producers |-> 0] /\ pushes = [p \in Producers |-> 0]
      /\ pc = [th \in Producers \cup {Consumer} |-> "idle"]
  BY DEF MB!Init
<1>6. \A s \in DOMAIN slots : slots[s] = e
  BY <1>1
<1>e. /\ e.flags = {} /\ e.chain = <<>> /\ e.output_producers = <<>> /\ e.data = None /\ e.sentinel = FALSE
  OBVIOUS
<1>p. pc[Consumer] = "idle" /\ \A q \in Producers : pc[q] = "idle"
  BY <1>5
<1> HIDE DEF e
<1>7. RingTypes
  <2>1. "idle" \in PushLabels /\ "idle" \in PullLabels
    BY DEF PushLabels, PullLabels
  <2>2. pc \in [Producers \cup {Consumer} -> PushLabels \cup PullLabels]
    BY <1>5, <2>1
  <2> QED BY <1>1, <1>2, <1>3, <1>4, <1>5, <1>p, <2>1, <2>2 DEF RingTypes
<1>8. RingOwners
  BY <1>p DEF RingOwners, Holding
<1>9. RingData
  BY <1>6, <1>e DEF RingData
<1>10. RingConsumer
  BY <1>p DEF RingConsumer, Sentinels
<1>11. RingChains
  BY <1>6, <1>e DEF RingChains
<1>12. RingCutoff
  BY <1>5, <1>p DEF RingCutoff, Admitted, Holding
<1>13. RingCount
  <2> SUFFICES ASSUME NEW s \in DOMAIN slots
               PROVE  /\ IsFiniteSet(Pushing(s))
                      /\ Rounds(read_offset, s, MBCap) + Held(s) + Cardinality(Pushing(s))
                           <= Rounds(Limit, s, MBCap)
    BY DEF RingCount
  <2>1. Pushing(s) = {}
    BY <1>p DEF Pushing, Admitted, Holding
  <2>2. Held(s) = 0 /\ Limit = read_offset
    BY <1>5, <1>6, <1>e DEF Held, Limit
  <2>3. s \in 0 .. MBCap - 1 /\ MBCap \in Nat \ {0} /\ read_offset \in Nat
    BY <1>2, <1>3, <1>5
  <2>4. Rounds(read_offset, s, MBCap) \in Nat
    BY <2>3, RoundsNext
  <2> QED BY <2>1, <2>2, <2>4, FS_EmptySet
<1> QED BY <1>7, <1>8, <1>9, <1>10, <1>11, <1>12, <1>13 DEF RingInv

\* Whatever happens to a queue of this kind keeps what is said of it.
LEMMA RingNext ==
  ASSUME RingInv, queue = "mpsc_bounded", [MCNext]_mcVars
  PROVE  RingInv'
<1>1. CASE \E p \in Producers : MB!Push(p)
  <2>1. PICK p \in Producers : MB!Push(p)
    BY <1>1
  <2> QED BY <2>1, GetTicketStep, CheckClosedStep, ClaimStep, ParkStep, EmplaceStep, PublishRingStep,
             WakeRingStep DEF MB!Push
<1>2. CASE \E p \in Producers : MB!Close(p)
  <2>1. PICK p \in Producers : MB!Close(p)
    BY <1>2
  <2> QED BY <2>1, CloseFlagStep, CloseCutoffStep, CloseLookStep, ClosePeekStep, CloseSealStep DEF MB!Close
<1>3. CASE MB!Consume
  BY <1>3, LookStep, LookClosedStep, InstallStep, ArmStep, ReadRingStep, DrainStep DEF MB!Consume
<1>4. CASE MB!Destroy
  BY <1>4, DestroyRingStep
<1>5. CASE UNCHANGED mcVars
  <2>1. UNCHANGED <<slots, write_offset, read_offset, closed, write_closed_at, ticket, pushes, pc>>
    BY <1>5 DEF mcVars
  <2>2. /\ MBCap' = MBCap /\ ReadSpot' = ReadSpot /\ Limit' = Limit
        /\ \A q \in Producers : Spot(q)' = Spot(q)
    BY <2>1 DEF MBCap, ReadSpot, Spot, Limit
  <2>3. RingTypes'
    BY <2>1, <2>2 DEF RingInv, RingTypes
  <2>4. RingOwners'
    BY <2>1, <2>2 DEF RingInv, RingOwners
  <2>5. RingData'
    BY <2>1, <2>2 DEF RingInv, RingData
  <2>6. RingConsumer'
    BY <2>1, <2>2 DEF RingInv, RingConsumer
  <2>7. RingChains'
    BY <2>1, <2>2, ChainsKept DEF RingInv
  <2>8. RingCutoff'
    BY <2>1, <2>2 DEF RingInv, RingCutoff
  <2>9. RingCount'
    <3>1. \A s \in DOMAIN slots : Held(s)' = Held(s)
      BY <2>1 DEF Held
    <3>2. \A s \in DOMAIN slots : Pushing(s)' \subseteq Pushing(s)
      BY <2>1, <2>2 DEF Pushing
    <3> QED BY <2>1, <2>2, <3>1, <3>2, CountKept DEF RingInv
  <2> QED BY <2>3, <2>4, <2>5, <2>6, <2>7, <2>8, <2>9 DEF RingInv
<1> QED BY <1>1, <1>2, <1>3, <1>4, <1>5 DEF MCNext, Produce, Consume, Destroy, Rests

\* What the runs check of this queue.
LEMMA RingSafe ==
  ASSUME RingInv
  PROVE  MB!OverwritesNothing /\ MB!ReadsData /\ MB!NothingLeaks
<1>1. MB!OverwritesNothing
  <2> SUFFICES ASSUME NEW p \in Producers, pc[p] \in {"write", "publish"}
               PROVE  /\ "prod" \in slots[Spot(p)].flags /\ "data" \notin slots[Spot(p)].flags
                      /\ pc[p] = "write" => slots[Spot(p)].data = None
                      /\ \A q \in Producers \ {p} : pc[q] \in {"write", "publish"} => Spot(q) # Spot(p)
    BY RingFacts DEF MB!OverwritesNothing, RingInv
  <2>1. /\ "prod" \in slots[Spot(p)].flags
        /\ \A q \in Producers \ {p} : pc[q] \in {"write", "publish"} => Spot(q) # Spot(p)
    BY DEF RingInv, RingOwners, Holding
  <2>2. Spot(p) \in DOMAIN slots
    BY RingFacts DEF RingInv
  <2>3. "data" \notin slots[Spot(p)].flags
    BY <2>1, <2>2 DEF RingInv, RingData
  <2>4. pc[p] = "write" => slots[Spot(p)].data = None
    BY <2>1, <2>2, <2>3 DEF RingInv, RingData
  <2> QED BY <2>1, <2>3, <2>4
<1>2. MB!ReadsData
  BY RingFacts DEF RingInv, RingData, RingConsumer, MB!ReadsData
<1>3. MB!NothingLeaks
  BY DEF RingInv, RingConsumer, MB!NothingLeaks
<1> QED BY <1>1, <1>2, <1>3

-----------------------------------------------------------------------------
(* qu_spsc_bounded.                                                        *)

Items(n) == {<<Producer, i>> : i \in 1 .. n}
TrackElems == [flags : SB!Flags, data : (Producers \X Nat) \cup {None}]
At(i) == slots[RingSlot(i, MBCap)]

\* Item i goes to slot i % MBCap.  m items were read and n were sent: of the MBCap
\* indices from m on, those below n are in use.
TrackFlags(i, n) ==
  IF i < n
  THEN IF pc[Producer] = "parked" /\ i + MBCap = n + batch - 1 THEN "producer"
       ELSE IF closed /\ i + MBCap = n THEN "data_closed" ELSE "data"
  ELSE IF pc[Producer] = "publish" /\ n < i /\ i < n + batch THEN "data"
       ELSE IF closed /\ i = n THEN "closed"
       ELSE IF pc[Consumer] = "parked" /\ i = n THEN "consumer" ELSE "empty"
TrackFull(i, m, n) ==
  IF i < n THEN ~(pc[Consumer] = "finish" /\ i = m)
           ELSE pc[Producer] = "publish" /\ i < n + batch
TrackSlots(m, n) ==
  \A i \in m .. m + MBCap - 1 :
    At(i).flags = TrackFlags(i, n) /\ (At(i).data # None <=> TrackFull(i, m, n))

TrackSides(m, n) ==
  /\ m <= n /\ n <= m + MBCap /\ n + batch <= MaxBounded
  /\ pc[Producer] = "idle" => batch = 0
  /\ pc[Producer] # "idle" => batch \in 1 .. MBCap /\ ~closed
  /\ pc[Producer] \in {"write", "publish"} => n + batch <= m + MBCap
  /\ pc[Producer] = "parked" => m + MBCap < n + batch
  /\ pc[Consumer] \in {"reading", "finish"} => m < n
  /\ pc[Consumer] = "parked" => m = n /\ ~closed

TrackOffsets(m, n) ==
  /\ read_offset = m % IndexRange /\ write_offset = n % IndexRange /\ sent = Items(n)
  /\ closed => write_closed_at = write_offset

WriterLabels == {"idle", "suspend", "parked", "write", "publish"}
ReaderLabels == {"idle", "wait", "parked", "reading", "finish"}
TrackTypes ==
  /\ MBCap \in Capacities /\ slots \in [0 .. MBCap - 1 -> TrackElems]
  /\ closed \in BOOLEAN /\ batch \in 0 .. MBCap
  /\ pc \in [{Producer, Consumer} -> WriterLabels \cup ReaderLabels]
  /\ pc[Producer] \in WriterLabels /\ pc[Consumer] \in ReaderLabels

Track(m, n) == TrackTypes /\ TrackOffsets(m, n) /\ TrackSides(m, n) /\ TrackSlots(m, n)

TrackGone ==
  /\ pc = [th \in {Producer, Consumer} |-> "gone"] /\ \A s \in DOMAIN slots : slots[s].data = None

TrackInv == TrackGone \/ \E m, n \in Nat : Track(m, n)

\* How many items are in the array.
LEMMA ItemsCount ==
  ASSUME NEW n \in Nat
  PROVE  IsFiniteSet(Items(n)) /\ Cardinality(Items(n)) = n /\ SB!Cardinality(Items(n)) = n
<1> DEFINE f == [i \in 1 .. n |-> <<Producer, i>>]
<1>1. f \in Bijection(1 .. n, Items(n))
  BY DEF Bijection, Injection, Surjection, IsInjective, Items
<1>2. ExistsBijection(1 .. n, Items(n))
  BY <1>1 DEF ExistsBijection
<1>3. IsFiniteSet(1 .. n) /\ Cardinality(1 .. n) = n
  BY FS_Interval
<1>4. IsFiniteSet(Items(n)) /\ Cardinality(Items(n)) = n
  BY <1>2, <1>3, FS_Bijection
<1>5. SB!Cardinality(Items(n)) = Cardinality(Items(n))
  BY DEF SB!Cardinality, Cardinality
<1> QED BY <1>4, <1>5

\* Every slot is the slot of one index among MBCap successive ones.
LEMMA SlotOnce ==
  ASSUME NEW c \in Nat \ {0}, NEW a \in Nat, NEW s \in 0 .. c - 1
  PROVE  \E i \in a .. a + c - 1 : RingSlot(i, c) = s
<1> DEFINE r == (s - a) % c
           i == a + r
<1>1. s - a \in Int
  OBVIOUS
<1>2. r \in 0 .. c - 1
  <2> DEFINE d == s - a
  <2>1. d \in Int
    BY <1>1
  <2> HIDE DEF d
  <2>2. d % c \in 0 .. c - 1
    BY <2>1, Division
  <2> QED BY <2>2 DEF d
<1>3. (((s - a) % c) + a) % c = (s - a + a) % c
  <2> DEFINE d == s - a
  <2>1. d \in Int /\ a \in Int
    BY <1>1
  <2> HIDE DEF d
  <2>2. ((d % c) + a) % c = (d + a) % c
    BY <2>1, RemainderOfSum
  <2> QED BY <2>2 DEF d
<1>4. s - a + a = s /\ s % c = s
  OBVIOUS
<1> HIDE DEF r
<1>5. (r + a) % c = s
  BY <1>3, <1>4 DEF r
<1>6. r + a = i /\ i \in a .. a + c - 1
  BY <1>2
<1> QED BY <1>5, <1>6 DEF RingSlot

\* The offsets wrap without moving an item to another slot.
LEMMA Wrapped ==
  ASSUME NEW c \in Capacities, NEW a \in Nat, NEW b \in Nat, a + b < MaxBounded + 1
  PROVE  /\ c \in Nat \ {0} /\ IndexRange \in Nat \ {0} /\ 2 * c < IndexRange
         /\ (((a % IndexRange) + b) % IndexRange) % c = RingSlot(a + b, c)
<1>1. c \in Nat \ {0} /\ IndexRange \in Nat \ {0} /\ 2 * c < IndexRange
  BY CapacitiesAssumption
<1>2. ((a % IndexRange) + b) % IndexRange = (a + b) % IndexRange
  <2>1. a \in Int /\ b \in Int
    OBVIOUS
  <2> QED BY <1>1, <2>1, RemainderOfSum
<1>3. ((a + b) % IndexRange) % c = (a + b) % c
  <2> DEFINE d == a + b
  <2>1. d \in Nat /\ d \in Int
    OBVIOUS
  <2> HIDE DEF d
  <2>2. CASE IndexRange % c = 0
    <3>1. (d % IndexRange) % c = d % c
      BY <1>1, <2>1, <2>2, RemainderTwice
    <3> QED BY <3>1 DEF d
  <2>3. CASE MaxBounded < IndexRange
    <3>1. d < IndexRange
      BY <2>1, <2>3, <1>1, WrapAssumption DEF d
    <3>2. d = (IndexRange * 0) + d /\ d \in 0 .. IndexRange - 1
      BY <1>1, <2>1, <3>1
    <3>3. d % IndexRange = d
      BY <1>1, <2>1, <3>2, Remainder
    <3> QED BY <3>3 DEF d
  <2> QED BY <2>2, <2>3, WrapAssumption
<1> QED BY <1>1, <1>2, <1>3 DEF RingSlot

\* The slots that the code computes.
LEMMA TrackFacts ==
  ASSUME NEW m \in Nat, NEW n \in Nat, Track(m, n)
  PROVE  /\ MBCap \in Nat \ {0} /\ SB!Capacity = MBCap /\ DOMAIN slots = 0 .. MBCap - 1
         /\ SB!ReadSlot = RingSlot(m, MBCap)
         /\ \A i \in Nat : n + i <= MaxBounded => SB!WriteSlot(i) = RingSlot(n + i, MBCap)
         /\ \A i \in Nat : m + i <= MaxBounded => SB!SlotAt(read_offset + i) = RingSlot(m + i, MBCap)
         /\ \A i \in Nat : RingSlot(i, MBCap) \in DOMAIN slots /\ At(i) \in TrackElems
         /\ \A i, j \in Nat : RingSlot(i, MBCap) = RingSlot(j, MBCap) /\ i - j < MBCap /\ j - i < MBCap => i = j
         /\ \A s \in DOMAIN slots : \E i \in m .. m + MBCap - 1 : RingSlot(i, MBCap) = s
         /\ batch \in Nat /\ MaxBounded \in Nat
         /\ Producer # Consumer /\ DOMAIN pc = {Producer, Consumer}
<1>1. MBCap \in Nat \ {0} /\ MBCap \in Capacities /\ DOMAIN slots = 0 .. MBCap - 1
  BY CapacitiesAssumption DEF Track, TrackTypes
<1>2. SB!Capacity = MBCap
  BY DEF SB!Capacity, SB!Cardinality, Cardinality, MBCap
<1>3. \A i \in Nat : n + i <= MaxBounded => SB!WriteSlot(i) = RingSlot(n + i, MBCap)
  BY <1>1, <1>2, Wrapped, WrapAssumption DEF SB!WriteSlot, SB!SlotAt, Track, TrackOffsets
<1>4. \A i \in Nat : m + i <= MaxBounded => SB!SlotAt(read_offset + i) = RingSlot(m + i, MBCap)
  BY <1>1, <1>2, Wrapped, WrapAssumption DEF SB!SlotAt, Track, TrackOffsets
<1>5. SB!ReadSlot = RingSlot(m, MBCap)
  <2>1. m + 0 <= MaxBounded
    BY <1>1, WrapAssumption DEF Track, TrackSides, TrackTypes
  <2>2. SB!SlotAt(read_offset + 0) = RingSlot(m + 0, MBCap)
    BY <1>4, <2>1
  <2>3. read_offset \in Int /\ m + 0 = m
    BY CapacitiesAssumption, <1>1, Division DEF Track, TrackOffsets
  <2>4. read_offset + 0 = read_offset
    BY <2>3
  <2> QED BY <2>2, <2>3, <2>4 DEF SB!ReadSlot
<1>6. \A i \in Nat : RingSlot(i, MBCap) \in DOMAIN slots /\ At(i) \in TrackElems
  BY <1>1, RingSlotIn DEF At, Track, TrackTypes
<1>7. \A i, j \in Nat : RingSlot(i, MBCap) = RingSlot(j, MBCap) /\ i - j < MBCap /\ j - i < MBCap => i = j
  <2> SUFFICES ASSUME NEW i \in Nat, NEW j \in Nat, i % MBCap = j % MBCap, i - j < MBCap, j - i < MBCap, i # j
               PROVE  FALSE
    BY DEF RingSlot
  <2>1. i \in Int /\ j \in Int
    OBVIOUS
  <2> QED BY <1>1, <2>1, SlotsDiffer
<1>8. \A s \in DOMAIN slots : \E i \in m .. m + MBCap - 1 : RingSlot(i, MBCap) = s
  BY <1>1, SlotOnce
<1>9. batch \in Nat /\ MaxBounded \in Nat
  BY <1>1, WrapAssumption DEF Track, TrackTypes
<1>10. Producer # Consumer /\ DOMAIN pc = {Producer, Consumer}
  BY ThreadsAssumption DEF Track, TrackTypes
<1> QED BY <1>1, <1>2, <1>3, <1>4, <1>5, <1>6, <1>7, <1>8, <1>9, <1>10

\* One slot is changed.
LEMMA OneSlot ==
  ASSUME NEW m \in Nat, NEW n \in Nat, Track(m, n), NEW j \in Nat, NEW e \in TrackElems,
         slots' = [slots EXCEPT ![RingSlot(j, MBCap)] = e]
  PROVE  /\ slots' \in [0 .. MBCap - 1 -> TrackElems] /\ MBCap' = MBCap /\ At(j)' = e
         /\ \A i \in Nat : i - j < MBCap /\ j - i < MBCap /\ i # j => At(i)' = At(i)
<1>1. RingSlot(j, MBCap) \in DOMAIN slots /\ slots \in [0 .. MBCap - 1 -> TrackElems]
      /\ DOMAIN slots = 0 .. MBCap - 1
  BY TrackFacts DEF Track, TrackTypes
<1> DEFINE x == RingSlot(j, MBCap)
<1>x. x = RingSlot(j, MBCap)
  OBVIOUS
<1> HIDE DEF x
<1>2. slots' \in [0 .. MBCap - 1 -> TrackElems] /\ DOMAIN slots' = DOMAIN slots
      /\ slots'[x] = e /\ \A s \in DOMAIN slots \ {x} : slots'[s] = slots[s]
  BY <1>1, <1>x
<1>3. MBCap' = MBCap
  BY <1>2 DEF MBCap
<1>4. At(j)' = e
  BY <1>2, <1>3, <1>x DEF At
<1>5. ASSUME NEW i \in Nat, i - j < MBCap, j - i < MBCap, i # j PROVE At(i)' = At(i)
  <2>1. RingSlot(i, MBCap) # x /\ RingSlot(i, MBCap) \in DOMAIN slots
    BY <1>5, <1>x, TrackFacts
  <2> QED BY <1>2, <1>3, <2>1 DEF At
<1> QED BY <1>2, <1>3, <1>4, <1>5

\* The numbers of the spsc queue.
LEMMA TrackNumbers ==
  ASSUME NEW m \in Nat, NEW n \in Nat, Track(m, n)
  PROVE  /\ MBCap \in Nat \ {0} /\ batch \in Nat /\ MaxBounded \in Nat
         /\ m <= n /\ n <= m + MBCap /\ n + batch <= MaxBounded
         /\ pc[Producer] # "idle" => batch \in 1 .. MBCap /\ ~closed
         /\ Producer # Consumer /\ DOMAIN pc = {Producer, Consumer}
BY TrackFacts DEF Track, TrackSides

\* Two indices of one round have different slots.
LEMMA Turn ==
  ASSUME NEW m \in Nat, NEW n \in Nat, Track(m, n)
  PROVE  /\ \A l \in WriterLabels : pc' = [pc EXCEPT ![Producer] = l] =>
              /\ pc'[Producer] = l /\ pc'[Consumer] = pc[Consumer]
              /\ pc' \in [{Producer, Consumer} -> WriterLabels \cup ReaderLabels]
         /\ \A l \in ReaderLabels : pc' = [pc EXCEPT ![Consumer] = l] =>
              /\ pc'[Consumer] = l /\ pc'[Producer] = pc[Producer]
              /\ pc' \in [{Producer, Consumer} -> WriterLabels \cup ReaderLabels]
         /\ \A l \in WriterLabels, r \in ReaderLabels :
              pc' = [pc EXCEPT ![Producer] = l, ![Consumer] = r] \/ pc' = [pc EXCEPT ![Consumer] = r, ![Producer] = l] =>
              /\ pc'[Producer] = l /\ pc'[Consumer] = r
              /\ pc' \in [{Producer, Consumer} -> WriterLabels \cup ReaderLabels]
BY ThreadsAssumption DEF Track, TrackTypes

\* A slot comes again after a round.
LEMMA NextRound ==
  ASSUME NEW c \in Nat \ {0}, NEW i \in Nat
  PROVE  RingSlot(i + c, c) = RingSlot(i, c)
<1>1. i \in Int /\ i % c \in 0 .. c - 1
  BY Division
<1>2. PICK q \in Int : i = (c * q) + (i % c)
  BY <1>1, Division
<1> DEFINE r == i % c
<1>r. r = i % c
  OBVIOUS
<1> HIDE DEF r
<1>3. i + c = (c * (q + 1)) + r
  BY <1>1, <1>2, <1>r
<1>4. (i + c) % c = r
  <2>1. i + c \in Int /\ q + 1 \in Int /\ r \in 0 .. c - 1
    BY <1>1, <1>r
  <2> QED BY <1>3, <2>1, Remainder
<1> QED BY <1>4, <1>r DEF RingSlot

\* A batch fits when its last slot has no data: that slot's last item was read.
LEMMA BatchFits ==
  ASSUME NEW m \in Nat, NEW n \in Nat, Track(m, n), NEW k \in 1 .. MBCap, ~closed,
         pc[Producer] \in {"idle", "suspend"}, At(n + k - 1).flags # "data"
  PROVE  n + k <= m + MBCap
<1>1. SUFFICES ASSUME n + k > m + MBCap PROVE FALSE
  BY TrackNumbers
<1> DEFINE i == n + k - 1 - MBCap
<1>2. i \in m .. m + MBCap - 1 /\ i < n /\ i \in Nat /\ i + MBCap = n + k - 1
  BY <1>1, TrackNumbers
<1>3. At(i).flags = "data"
  BY <1>2 DEF Track, TrackSlots, TrackFlags
<1> HIDE DEF i
<1>4. RingSlot(n + k - 1, MBCap) = RingSlot(i, MBCap)
  BY <1>2, NextRound, TrackFacts
<1> QED BY <1>3, <1>4 DEF At

\* The last slot of a batch has data: it does not fit.
LEMMA BatchWaits ==
  ASSUME NEW m \in Nat, NEW n \in Nat, Track(m, n), NEW k \in 1 .. MBCap, ~closed,
         pc[Producer] = "suspend", At(n + k - 1).flags = "data"
  PROVE  m + MBCap < n + k
<1>1. SUFFICES ASSUME n + k <= m + MBCap PROVE FALSE
  BY TrackNumbers
<1>2. n + k - 1 \in m .. m + MBCap - 1 /\ ~(n + k - 1 < n)
  BY <1>1, TrackNumbers
<1>3. At(n + k - 1).flags # "data"
  BY <1>2 DEF Track, TrackSlots, TrackFlags
<1> QED BY <1>3

\* The producer goes from state to state.
LEMMA PushSteps ==
  ASSUME NEW m \in Nat, NEW n \in Nat, Track(m, n), NEW k \in 1 .. MBCap,
         SB!Push(k) \/ (k = 1 /\ SB!TryPush)
  PROVE  Track(m, n)'
<1>1. /\ pc[Producer] = "idle" /\ ~closed /\ batch' = k /\ n + k <= MaxBounded
      /\ UNCHANGED <<slots, write_offset, read_offset, closed, write_closed_at, sent>>
      /\ \/ pc' = [pc EXCEPT ![Producer] = "suspend"]
         \/ pc' = [pc EXCEPT ![Producer] = "write"] /\ ~SB!IsFull(k)
  <2>1. SB!MayPush(k)
    BY DEF SB!Push, SB!TryPush
  <2>2. n + k <= MaxBounded
    BY <2>1, ItemsCount DEF SB!MayPush, Track, TrackOffsets
  <2> QED BY <2>1, <2>2 DEF SB!Push, SB!TryPush, SB!Goto, SB!MayPush
<1>2. /\ Producer # Consumer /\ MBCap \in Nat \ {0} /\ DOMAIN pc = {Producer, Consumer} /\ MBCap' = MBCap
  BY <1>1, TrackFacts DEF MBCap
<1>3. /\ pc'[Consumer] = pc[Consumer] /\ pc'[Producer] \in {"suspend", "write"}
      /\ pc' \in [{Producer, Consumer} -> WriterLabels \cup ReaderLabels]
      /\ pc'[Producer] = "write" => ~SB!IsFull(k)
  <2>1. "suspend" \in WriterLabels /\ "write" \in WriterLabels
    BY DEF WriterLabels
  <2> QED BY <1>1, <2>1, Turn
<1>4. pc'[Producer] = "write" => n + k <= m + MBCap
  <2>1. n + (k - 1) = n + k - 1 /\ k - 1 \in Nat /\ n + (k - 1) <= MaxBounded
    BY <1>1, <1>2, TrackFacts
  <2>2. SB!WriteSlot(k - 1) = RingSlot(n + k - 1, MBCap)
    BY <2>1, TrackFacts
  <2> QED BY <1>1, <1>3, <2>2, BatchFits DEF SB!IsFull, At
<1>5. TrackTypes'
  BY <1>1, <1>2, <1>3 DEF Track, TrackTypes, WriterLabels
<1>6. TrackSides(m, n)'
  BY <1>1, <1>2, <1>3, <1>4 DEF Track, TrackSides
<1>o. TrackOffsets(m, n)'
  BY <1>1 DEF Track, TrackOffsets, Items
<1>7. TrackSlots(m, n)'
  <2>1. \A i \in m .. m + MBCap - 1 : At(i)' = At(i) /\ TrackFlags(i, n)' = TrackFlags(i, n)
                                      /\ TrackFull(i, m, n)' = TrackFull(i, m, n)
    BY <1>1, <1>2, <1>3 DEF At, TrackFlags, TrackFull
  <2> QED BY <1>2, <2>1 DEF Track, TrackSlots
<1> QED BY <1>5, <1>6, <1>o, <1>7 DEF Track

\* The producer suspends on a full queue.
LEMMA SuspendStep ==
  ASSUME NEW m \in Nat, NEW n \in Nat, Track(m, n), SB!Suspend
  PROVE  Track(m, n)'
<1> DEFINE j == n + batch - 1
           x == RingSlot(j, MBCap)
<1>0. /\ pc[Producer] = "suspend" /\ ~closed /\ batch \in 1 .. MBCap /\ n + batch <= MaxBounded
      /\ Producer # Consumer /\ MBCap \in Nat \ {0} /\ DOMAIN pc = {Producer, Consumer}
      /\ MaxBounded \in Nat /\ j \in Nat
  BY TrackNumbers DEF SB!Suspend
<1>w. SB!WriteSlot(batch - 1) = x
  <2>1. batch - 1 \in Nat /\ n + (batch - 1) <= MaxBounded /\ n + (batch - 1) = j
    BY <1>0
  <2> QED BY <2>1, TrackFacts
<1>1. /\ UNCHANGED <<write_offset, read_offset, closed, write_closed_at, batch, sent>>
      /\ IF slots[x].flags = "data"
         THEN slots' = [slots EXCEPT ![x].flags = "producer"] /\ pc' = [pc EXCEPT ![Producer] = "parked"]
         ELSE slots' = slots /\ pc' = [pc EXCEPT ![Producer] = "write"]
  BY <1>w DEF SB!Suspend, SB!Goto
<1>o. TrackOffsets(m, n)'
  BY <1>1 DEF Track, TrackOffsets, Items
<1>2. CASE slots[x].flags # "data"
  <2>1. n + batch <= m + MBCap
    BY <1>0, <1>2, BatchFits DEF At
  <2>2. /\ pc'[Consumer] = pc[Consumer] /\ pc'[Producer] = "write" /\ MBCap' = MBCap
        /\ pc' \in [{Producer, Consumer} -> WriterLabels \cup ReaderLabels]
    <3>1. "write" \in WriterLabels
      BY DEF WriterLabels
    <3> QED BY <1>1, <1>2, <3>1, Turn DEF MBCap
  <2>5. TrackTypes'
    BY <1>1, <1>2, <2>2 DEF Track, TrackTypes, WriterLabels
  <2>6. TrackSides(m, n)'
    BY <1>0, <1>1, <2>1, <2>2 DEF Track, TrackSides
  <2>7. TrackSlots(m, n)'
    <3>1. \A i \in m .. m + MBCap - 1 : At(i)' = At(i) /\ TrackFlags(i, n)' = TrackFlags(i, n)
                                        /\ TrackFull(i, m, n)' = TrackFull(i, m, n)
      BY <1>0, <1>1, <1>2, <2>2 DEF At, TrackFlags, TrackFull
    <3> QED BY <2>2, <3>1 DEF Track, TrackSlots
  <2> QED BY <1>o, <2>5, <2>6, <2>7 DEF Track
<1>3. CASE slots[x].flags = "data"
  <2> DEFINE e == [slots[x] EXCEPT !.flags = "producer"]
  <2>1. m + MBCap < n + batch
    BY <1>0, <1>3, BatchWaits DEF At
  <2>2. PICK l \in Nat : l \in m .. n - 1 /\ l + MBCap = j
    <3>1. j - MBCap \in Nat /\ j - MBCap \in m .. n - 1 /\ (j - MBCap) + MBCap = j
      BY <1>0, <2>1, TrackNumbers
    <3> QED BY <3>1
  <2>3. RingSlot(l, MBCap) = x
    <3> HIDE DEF j
    <3> QED BY <1>0, <2>2, NextRound
  <2>4. slots[x] \in TrackElems
    BY <1>0, TrackFacts DEF At
  <2>5. e \in TrackElems /\ slots' = [slots EXCEPT ![x] = e] /\ e.flags = "producer" /\ e.data = slots[x].data
    BY <1>1, <1>3, <2>4 DEF TrackElems, SB!Flags
  <2>6. /\ slots' \in [0 .. MBCap - 1 -> TrackElems] /\ MBCap' = MBCap /\ At(l)' = e
        /\ \A i \in m .. m + MBCap - 1 : i # l => At(i)' = At(i)
    <3>1. \A i \in m .. m + MBCap - 1 : i \in Nat /\ i - l < MBCap /\ l - i < MBCap
      BY <1>0, <2>2 DEF Track, TrackSides
    <3> HIDE DEF j, e, x
    <3>2. slots' = [slots EXCEPT ![RingSlot(l, MBCap)] = e]
      BY <2>3, <2>5
    <3>3. /\ slots' \in [0 .. MBCap - 1 -> TrackElems] /\ MBCap' = MBCap /\ At(l)' = e
          /\ \A i \in Nat : i - l < MBCap /\ l - i < MBCap /\ i # l => At(i)' = At(i)
      BY <2>2, <2>5, <3>2, OneSlot
    <3> QED BY <3>1, <3>3
  <2>7. /\ pc'[Consumer] = pc[Consumer] /\ pc'[Producer] = "parked"
        /\ pc' \in [{Producer, Consumer} -> WriterLabels \cup ReaderLabels]
    <3>1. "parked" \in WriterLabels
      BY DEF WriterLabels
    <3> QED BY <1>1, <1>3, <3>1, Turn
  <2>8. TrackTypes'
    BY <1>1, <2>6, <2>7 DEF Track, TrackTypes, WriterLabels
  <2>9. TrackSides(m, n)'
    BY <1>0, <1>1, <2>1, <2>6, <2>7 DEF Track, TrackSides
  <2>10. TrackSlots(m, n)'
    <3> SUFFICES ASSUME NEW i \in m .. m + MBCap - 1
                 PROVE  At(i)'.flags = TrackFlags(i, n)' /\ (At(i)'.data # None <=> TrackFull(i, m, n)')
      BY <2>6 DEF TrackSlots
    <3>1. At(i).flags = TrackFlags(i, n) /\ (At(i).data # None <=> TrackFull(i, m, n))
      BY DEF Track, TrackSlots
    <3>2. TrackFull(i, m, n)' = TrackFull(i, m, n)
      BY <1>0, <1>1, <2>7 DEF TrackFull
    <3>3. CASE i = l
      <4>1. At(i)' = e /\ At(i).data = e.data
        BY <3>3, <2>3, <2>5, <2>6 DEF At
      <4>2. TrackFlags(i, n)' = "producer"
        BY <3>3, <1>0, <1>1, <2>2, <2>6, <2>7 DEF TrackFlags
      <4> HIDE DEF e
      <4> QED BY <3>1, <3>2, <4>1, <4>2, <2>5
    <3>4. CASE i # l
      <4>1. At(i)' = At(i)
        BY <3>4, <2>6
      <4>2. TrackFlags(i, n)' = TrackFlags(i, n)
        BY <3>4, <1>0, <1>1, <2>2, <2>6, <2>7 DEF TrackFlags
      <4> QED BY <3>1, <3>2, <4>1, <4>2
    <3> QED BY <3>3, <3>4
  <2> QED BY <1>o, <2>8, <2>9, <2>10 DEF Track
<1> QED BY <1>2, <1>3

\* The slots stay as they are and no side takes or leaves a state that they depend on.
LEMMA SlotsStay ==
  ASSUME NEW m \in Nat, NEW n \in Nat, Track(m, n), UNCHANGED <<slots, closed, batch>>,
         pc'[Producer] \in {"parked", "publish"} \/ pc[Producer] \in {"parked", "publish"} =>
           pc'[Producer] = pc[Producer],
         pc'[Consumer] \in {"parked", "finish"} \/ pc[Consumer] \in {"parked", "finish"} =>
           pc'[Consumer] = pc[Consumer]
  PROVE  TrackSlots(m, n)' /\ MBCap' = MBCap
<1>1. MBCap' = MBCap
  BY DEF MBCap
<1>2. \A i \in m .. m + MBCap - 1 : At(i)' = At(i) /\ TrackFlags(i, n)' = TrackFlags(i, n)
                                    /\ TrackFull(i, m, n)' = TrackFull(i, m, n)
  BY <1>1 DEF At, TrackFlags, TrackFull
<1> QED BY <1>1, <1>2 DEF Track, TrackSlots

\* Data where the consumer is: it was sent.
LEMMA DataWasSent ==
  ASSUME NEW m \in Nat, NEW n \in Nat, Track(m, n), SB!HasData(At(m).flags)
  PROVE  m < n
<1>1. SUFFICES ASSUME m = n PROVE FALSE
  BY TrackNumbers
<1>2. At(m).flags = TrackFlags(m, n)
  BY TrackNumbers DEF Track, TrackSlots
<1>3. TrackFlags(m, n) \in {"closed", "consumer", "empty"}
  BY <1>1 DEF TrackFlags
<1> QED BY <1>2, <1>3 DEF SB!HasData

\* The consumer goes from state to state.
LEMMA PullSteps ==
  ASSUME NEW m \in Nat, NEW n \in Nat, Track(m, n), SB!Pull \/ SB!TryPull
  PROVE  Track(m, n)'
<1>1. /\ pc[Consumer] = "idle"
      /\ UNCHANGED <<slots, write_offset, read_offset, closed, write_closed_at, batch, sent>>
      /\ \/ pc' = [pc EXCEPT ![Consumer] = "reading"] /\ SB!HasData(At(m).flags)
         \/ pc' = [pc EXCEPT ![Consumer] = "wait"]
         \/ pc' = [pc EXCEPT ![Consumer] = "idle"]
  <2>1. SB!ReadSlot = RingSlot(m, MBCap)
    BY TrackFacts
  <2> QED BY <2>1 DEF SB!Pull, SB!TryPull, SB!Goto, At
<1>2. PICK l \in {"reading", "wait", "idle"} :
        pc' = [pc EXCEPT ![Consumer] = l] /\ (l = "reading" => m < n)
  BY <1>1, DataWasSent
<1>3. /\ pc'[Consumer] = l /\ pc'[Producer] = pc[Producer]
      /\ pc' \in [{Producer, Consumer} -> WriterLabels \cup ReaderLabels] /\ l \in ReaderLabels
  <2>1. l \in ReaderLabels
    BY DEF ReaderLabels
  <2> QED BY <1>2, <2>1, Turn
<1>4. TrackSlots(m, n)' /\ MBCap' = MBCap
  BY <1>1, <1>3, SlotsStay
<1>5. TrackTypes' /\ TrackOffsets(m, n)'
  BY <1>1, <1>3, <1>4 DEF Track, TrackTypes, TrackOffsets, Items
<1>6. TrackSides(m, n)'
  BY <1>1, <1>2, <1>3, <1>4 DEF Track, TrackSides
<1> QED BY <1>4, <1>5, <1>6 DEF Track

\* One slot of the window is replaced.
LEMMA WindowSlot ==
  ASSUME NEW m \in Nat, NEW n \in Nat, Track(m, n), NEW j \in m .. m + MBCap - 1, NEW e \in TrackElems,
         slots' = [slots EXCEPT ![RingSlot(j, MBCap)] = e]
  PROVE  /\ slots' \in [0 .. MBCap - 1 -> TrackElems] /\ MBCap' = MBCap /\ At(j)' = e
         /\ \A i \in m .. m + MBCap - 1 : i # j => At(i)' = At(i)
<1>1. j \in Nat /\ \A i \in m .. m + MBCap - 1 : i \in Nat /\ i - j < MBCap /\ j - i < MBCap
  BY TrackNumbers
<1>2. /\ slots' \in [0 .. MBCap - 1 -> TrackElems] /\ MBCap' = MBCap /\ At(j)' = e
      /\ \A i \in Nat : i - j < MBCap /\ j - i < MBCap /\ i # j => At(i)' = At(i)
  BY <1>1, OneSlot
<1> QED BY <1>1, <1>2

\* The consumer waits on an empty slot.
LEMMA WaitTrackStep ==
  ASSUME NEW m \in Nat, NEW n \in Nat, Track(m, n), SB!Wait
  PROVE  Track(m, n)'
<1> DEFINE f == At(m).flags
           l == CASE f = "empty" -> "parked" [] f = "closed" -> "idle" [] OTHER -> "reading"
           e == [At(m) EXCEPT !.flags = "consumer"]
<1>1. /\ pc[Consumer] = "wait"
      /\ UNCHANGED <<write_offset, read_offset, closed, write_closed_at, batch, sent>>
      /\ slots' = IF f = "empty" THEN [slots EXCEPT ![RingSlot(m, MBCap)] = e] ELSE slots
      /\ pc' = [pc EXCEPT ![Consumer] = l]
  <2>1. SB!ReadSlot = RingSlot(m, MBCap)
    BY TrackFacts
  <2> QED BY <2>1 DEF SB!Wait, SB!Goto, At
<1>2. m \in m .. m + MBCap - 1 /\ m <= n /\ At(m) \in TrackElems
  BY TrackNumbers, TrackFacts
<1>3. f = TrackFlags(m, n)
  BY <1>2 DEF Track, TrackSlots
<1>4. f = "empty" => m = n /\ ~closed
  BY <1>2, <1>3 DEF TrackFlags
<1>5. l = "reading" => m < n
  <2>1. CASE m = n
    <3>1. f \in {"closed", "empty"}
      BY <2>1, <1>1, <1>3 DEF TrackFlags
    <3> QED BY <3>1
  <2> QED BY <2>1, <1>2
<1>l. l \in {"parked", "idle", "reading"} /\ (l = "parked" <=> f = "empty")
  OBVIOUS
<1>e. e \in TrackElems /\ e.flags = "consumer" /\ e.data = At(m).data
  BY <1>2 DEF TrackElems, SB!Flags
<1> HIDE DEF f, l, e
<1>6. /\ pc'[Consumer] = l /\ pc'[Producer] = pc[Producer]
      /\ pc' \in [{Producer, Consumer} -> WriterLabels \cup ReaderLabels] /\ l \in ReaderLabels
  <2>1. l \in ReaderLabels
    BY <1>l DEF ReaderLabels
  <2> QED BY <1>1, <2>1, Turn
<1>7. CASE f # "empty"
  <2>4. TrackSlots(m, n)' /\ MBCap' = MBCap
    BY <1>1, <1>6, <1>7, <1>l, SlotsStay
  <2>5. TrackTypes' /\ TrackOffsets(m, n)'
    BY <1>1, <1>6, <1>7, <2>4 DEF Track, TrackTypes, TrackOffsets, Items
  <2>6. TrackSides(m, n)'
    BY <1>1, <1>5, <1>6, <1>7, <1>l, <2>4 DEF Track, TrackSides
  <2> QED BY <2>4, <2>5, <2>6 DEF Track
<1>8. CASE f = "empty"
  <2>1. slots' = [slots EXCEPT ![RingSlot(m, MBCap)] = e] /\ l = "parked"
    BY <1>1, <1>8, <1>l
  <2>2. /\ slots' \in [0 .. MBCap - 1 -> TrackElems] /\ MBCap' = MBCap /\ At(m)' = e
        /\ \A i \in m .. m + MBCap - 1 : i # m => At(i)' = At(i)
    BY <1>2, <1>e, <2>1, WindowSlot
  <2>5. TrackTypes' /\ TrackOffsets(m, n)'
    BY <1>1, <1>6, <2>2 DEF Track, TrackTypes, TrackOffsets, Items
  <2>6. TrackSides(m, n)'
    BY <1>1, <1>4, <1>6, <1>8, <2>1, <2>2 DEF Track, TrackSides
  <2>7. TrackSlots(m, n)'
    <3> SUFFICES ASSUME NEW i \in m .. m + MBCap - 1
                 PROVE  At(i)'.flags = TrackFlags(i, n)' /\ (At(i)'.data # None <=> TrackFull(i, m, n)')
      BY <2>2 DEF TrackSlots
    <3>1. At(i).flags = TrackFlags(i, n) /\ (At(i).data # None <=> TrackFull(i, m, n))
      BY DEF Track, TrackSlots
    <3>2. TrackFull(i, m, n)' = TrackFull(i, m, n)
      BY <1>1, <1>6, <2>1 DEF TrackFull
    <3>3. CASE i = m
      <4>2. TrackFlags(i, n)' = "consumer"
        BY <3>3, <1>1, <1>4, <1>6, <1>8, <2>1 DEF TrackFlags
      <4> QED BY <3>1, <3>2, <3>3, <4>2, <1>e, <2>2
    <3>4. CASE i # m
      <4>2. TrackFlags(i, n)' = TrackFlags(i, n)
        BY <3>4, <1>1, <1>4, <1>6, <1>8, <2>1, <2>2 DEF TrackFlags
      <4> QED BY <3>1, <3>2, <3>4, <4>2, <2>2
    <3> QED BY <3>3, <3>4
  <2> QED BY <2>5, <2>6, <2>7 DEF Track
<1> QED BY <1>7, <1>8

\* The consumer reads the value and destroys it.
LEMMA ReadTrackStep ==
  ASSUME NEW m \in Nat, NEW n \in Nat, Track(m, n), SB!Read
  PROVE  Track(m, n)'
<1> DEFINE e == [At(m) EXCEPT !.data = None]
<1>1. /\ pc[Consumer] = "reading"
      /\ UNCHANGED <<write_offset, read_offset, closed, write_closed_at, batch, sent>>
      /\ slots' = [slots EXCEPT ![RingSlot(m, MBCap)] = e]
      /\ pc' = [pc EXCEPT ![Consumer] = "finish"]
  <2>1. SB!ReadSlot = RingSlot(m, MBCap)
    BY TrackFacts
  <2> QED BY <2>1 DEF SB!Read, SB!Goto, At
<1>2. m \in m .. m + MBCap - 1 /\ At(m) \in TrackElems
  BY TrackNumbers, TrackFacts
<1>4. m < n
  BY <1>1 DEF Track, TrackSides
<1>e. e \in TrackElems /\ e.flags = At(m).flags /\ e.data = None
  BY <1>2 DEF TrackElems
<1> HIDE DEF e
<1>6. /\ pc'[Consumer] = "finish" /\ pc'[Producer] = pc[Producer]
      /\ pc' \in [{Producer, Consumer} -> WriterLabels \cup ReaderLabels] /\ "finish" \in ReaderLabels
  <2>1. "finish" \in ReaderLabels
    BY DEF ReaderLabels
  <2> QED BY <1>1, <2>1, Turn
<1>7. /\ slots' \in [0 .. MBCap - 1 -> TrackElems] /\ MBCap' = MBCap /\ At(m)' = e
      /\ \A i \in m .. m + MBCap - 1 : i # m => At(i)' = At(i)
  BY <1>1, <1>2, <1>e, WindowSlot
<1>8. TrackTypes' /\ TrackOffsets(m, n)'
  BY <1>1, <1>6, <1>7 DEF Track, TrackTypes, TrackOffsets, Items
<1>9. TrackSides(m, n)'
  BY <1>1, <1>4, <1>6, <1>7 DEF Track, TrackSides
<1>10. TrackSlots(m, n)'
  <2> SUFFICES ASSUME NEW i \in m .. m + MBCap - 1
               PROVE  At(i)'.flags = TrackFlags(i, n)' /\ (At(i)'.data # None <=> TrackFull(i, m, n)')
    BY <1>7 DEF TrackSlots
  <2>1. At(i).flags = TrackFlags(i, n) /\ (At(i).data # None <=> TrackFull(i, m, n))
    BY DEF Track, TrackSlots
  <2>2. TrackFlags(i, n)' = TrackFlags(i, n)
    BY <1>1, <1>6, <1>7 DEF TrackFlags
  <2>3. CASE i = m
    <3>1. ~TrackFull(i, m, n)'
      BY <2>3, <1>4, <1>6 DEF TrackFull
    <3> QED BY <2>1, <2>2, <2>3, <3>1, <1>e, <1>7
  <2>4. CASE i # m
    <3>1. TrackFull(i, m, n)' = TrackFull(i, m, n)
      BY <2>4, <1>1, <1>6 DEF TrackFull
    <3> QED BY <2>1, <2>2, <2>4, <3>1, <1>7
  <2> QED BY <2>3, <2>4
<1> QED BY <1>8, <1>9, <1>10 DEF Track

\* An offset moves on.
LEMMA OffsetMoves ==
  ASSUME NEW c \in Capacities, NEW a \in Nat, NEW k \in Nat
  PROVE  ((a % IndexRange) + k) % IndexRange = (a + k) % IndexRange
<1>1. IndexRange \in Nat \ {0}
  BY CapacitiesAssumption
<1>2. a \in Int /\ k \in Int
  OBVIOUS
<1> QED BY <1>1, <1>2, RemainderOfSum

\* It gives the slot back.
LEMMA FinishStep ==
  ASSUME NEW m \in Nat, NEW n \in Nat, Track(m, n), SB!FinishRead
  PROVE  Track(m + 1, n)'
<1> DEFINE f == At(m).flags
           e == [At(m) EXCEPT !.flags = IF f = "data_closed" THEN "closed" ELSE "empty"]
           l == IF f = "producer" THEN "write" ELSE pc[Producer]
<1>1. /\ pc[Consumer] = "finish"
      /\ UNCHANGED <<write_offset, closed, write_closed_at, batch, sent>>
      /\ read_offset' = (read_offset + 1) % IndexRange
      /\ slots' = [slots EXCEPT ![RingSlot(m, MBCap)] = e]
      /\ pc' = [pc EXCEPT ![Consumer] = "idle", ![Producer] = l]
  <2>1. SB!ReadSlot = RingSlot(m, MBCap)
    BY TrackFacts
  <2> QED BY <2>1 DEF SB!FinishRead, At
<1>2. /\ m \in m .. m + MBCap - 1 /\ At(m) \in TrackElems /\ m < n /\ n <= m + MBCap
      /\ MBCap \in Nat \ {0} /\ m + MBCap \in Nat
  <2>1. At(m) \in TrackElems
    BY TrackFacts
  <2>2. m < n
    BY <1>1 DEF Track, TrackSides
  <2>3. n <= m + MBCap /\ MBCap \in Nat \ {0}
    BY TrackNumbers
  <2> HIDE DEF f, e, l
  <2>4. m \in m .. m + MBCap - 1 /\ m + MBCap \in Nat
    BY <2>3
  <2> QED BY <2>1, <2>2, <2>3, <2>4
<1>3. f = IF pc[Producer] = "parked" /\ m + MBCap = n + batch - 1 THEN "producer"
          ELSE IF closed /\ m + MBCap = n THEN "data_closed" ELSE "data"
  BY <1>2 DEF Track, TrackSlots, TrackFlags
<1>d. At(m).data = None
  BY <1>1, <1>2 DEF Track, TrackSlots, TrackFull
<1>e. /\ e \in TrackElems /\ e.data = None
      /\ e.flags = IF f = "data_closed" THEN "closed" ELSE "empty"
  BY <1>2, <1>d DEF TrackElems, SB!Flags
<1>c. closed => pc[Producer] # "parked"
  BY TrackNumbers
<1>l. /\ l = (IF pc[Producer] = "parked" /\ m + MBCap = n + batch - 1 THEN "write" ELSE pc[Producer])
      /\ l \in WriterLabels
  BY <1>3 DEF Track, TrackTypes, WriterLabels
<1>f. e.flags = IF closed /\ m + MBCap = n THEN "closed" ELSE "empty"
  BY <1>3, <1>e, <1>c
<1> HIDE DEF e, l, f
<1>6. /\ pc'[Consumer] = "idle" /\ pc'[Producer] = l
      /\ pc' \in [{Producer, Consumer} -> WriterLabels \cup ReaderLabels]
  <2>1. "idle" \in ReaderLabels
    BY DEF ReaderLabels
  <2> QED BY <1>1, <1>l, <2>1, Turn
<1>7. /\ slots' \in [0 .. MBCap - 1 -> TrackElems] /\ MBCap' = MBCap /\ At(m)' = e
      /\ \A i \in m .. m + MBCap - 1 : i # m => At(i)' = At(i)
  BY <1>1, <1>2, <1>e, WindowSlot
<1>m. At(m + MBCap)' = e
  <2>1. RingSlot(m + MBCap, MBCap) = RingSlot(m, MBCap)
    BY <1>2, NextRound
  <2> QED BY <1>7, <2>1 DEF At
<1>8. TrackTypes'
  <2>1. "idle" \in ReaderLabels
    BY DEF ReaderLabels
  <2> QED BY <1>1, <1>6, <1>l, <1>7, <2>1 DEF Track, TrackTypes
<1>o. TrackOffsets(m + 1, n)'
  <2>1. read_offset' = (m + 1) % IndexRange
    BY <1>1, OffsetMoves DEF Track, TrackOffsets, TrackTypes
  <2> QED BY <1>1, <2>1 DEF Track, TrackOffsets, Items
<1>9. TrackSides(m + 1, n)'
  <2>1. /\ pc[Producer] # "idle" => batch \in 1 .. MBCap /\ ~closed
        /\ pc[Producer] = "idle" => batch = 0
        /\ pc[Producer] \in {"write", "publish"} => n + batch <= m + MBCap
        /\ pc[Producer] = "parked" => m + MBCap < n + batch
        /\ n + batch <= MaxBounded
    BY DEF Track, TrackSides
  <2>2. batch \in Nat
    BY TrackNumbers
  <2> QED BY <1>1, <1>2, <1>6, <1>7, <1>l, <2>1, <2>2 DEF TrackSides
<1>10. TrackSlots(m + 1, n)'
  <2> SUFFICES ASSUME NEW i \in m + 1 .. m + MBCap
               PROVE  At(i)'.flags = TrackFlags(i, n)' /\ (At(i)'.data # None <=> TrackFull(i, m + 1, n)')
    BY <1>2, <1>7 DEF TrackSlots
  <2>0. batch \in Nat
    BY TrackNumbers
  <2>3. CASE i = m + MBCap
    <3>1. At(i)' = e
      BY <2>3, <1>m, <1>7
    <3>2. pc[Producer] = "publish" => n + batch <= m + MBCap
      BY DEF Track, TrackSides
    <3>3. ~(i < n) /\ ~(pc'[Producer] = "publish" /\ i < n + batch) /\ pc'[Consumer] # "parked"
      BY <2>0, <2>3, <3>2, <1>2, <1>6, <1>l
    <3>4. TrackFlags(i, n)' = IF closed /\ i = n THEN "closed" ELSE "empty"
      BY <3>3, <1>1 DEF TrackFlags
    <3>5. ~TrackFull(i, m + 1, n)'
      BY <3>3, <1>1 DEF TrackFull
    <3> QED BY <2>3, <3>1, <3>4, <3>5, <1>e, <1>f
  <2>4. CASE i # m + MBCap
    <3>0. i \in m .. m + MBCap - 1 /\ i # m /\ i \in Nat
      BY <2>4, <1>2
    <3>1. At(i).flags = TrackFlags(i, n) /\ (At(i).data # None <=> TrackFull(i, m, n)) /\ At(i)' = At(i)
      BY <1>7, <3>0 DEF Track, TrackSlots
    <3>2. TrackFlags(i, n)' = TrackFlags(i, n)
      BY <3>0, <2>0, <1>1, <1>2, <1>6, <1>7, <1>l DEF TrackFlags
    <3>3. TrackFull(i, m + 1, n)' = TrackFull(i, m, n)
      BY <3>0, <2>0, <1>1, <1>2, <1>6, <1>7, <1>l DEF TrackFull
    <3> QED BY <3>1, <3>2, <3>3
  <2> QED BY <2>3, <2>4
<1> QED BY <1>8, <1>o, <1>9, <1>10 DEF Track

\* The producer writes the value.
LEMMA WriteStep ==
  ASSUME NEW m \in Nat, NEW n \in Nat, Track(m, n), SB!Write
  PROVE  Track(m, n)'
<1>1. /\ pc[Producer] = "write" /\ pc' = [pc EXCEPT ![Producer] = "publish"]
      /\ UNCHANGED <<write_offset, read_offset, closed, write_closed_at, batch, sent>>
      /\ slots' = [s \in DOMAIN slots |->
                 IF \E i \in 0 .. batch - 1 : s = SB!WriteSlot(i)
                 THEN LET i == CHOOSE i \in 0 .. batch - 1 : s = SB!WriteSlot(i)
                      IN [flags |-> IF i = 0 THEN slots[s].flags ELSE "data", data |-> SB!ItemNo(i)]
                 ELSE slots[s]]
  BY DEF SB!Write, SB!Goto
<1>2. /\ MBCap \in Nat \ {0} /\ batch \in 1 .. MBCap /\ m <= n /\ n + batch <= m + MBCap /\ ~closed
      /\ n + batch <= MaxBounded /\ MaxBounded \in Nat
  BY <1>1, TrackNumbers DEF Track, TrackSides
<1>3. /\ pc'[Consumer] = pc[Consumer] /\ pc'[Producer] = "publish"
      /\ pc' \in [{Producer, Consumer} -> WriterLabels \cup ReaderLabels] /\ "publish" \in WriterLabels
  <2>1. "publish" \in WriterLabels
    BY DEF WriterLabels
  <2> QED BY <1>1, <2>1, Turn
<1>4. \A i \in 0 .. batch - 1 : SB!WriteSlot(i) = RingSlot(n + i, MBCap) /\ SB!ItemNo(i) = <<Producer, n + 1 + i>>
  <2>1. SB!Cardinality(sent) = n
    BY ItemsCount DEF Track, TrackOffsets
  <2>2. \A i \in 0 .. batch - 1 : SB!ItemNo(i) = <<Producer, n + 1 + i>>
    BY <2>1 DEF SB!ItemNo
  <2>3. \A i \in 0 .. batch - 1 : i \in Nat /\ n + i <= MaxBounded
    BY <1>2
  <2> QED BY <2>2, <2>3, TrackFacts
<1>5. DOMAIN slots' = DOMAIN slots /\ MBCap' = MBCap /\ DOMAIN slots = 0 .. MBCap - 1
  <2>1. DOMAIN slots' = DOMAIN slots
    BY <1>1
  <2> QED BY <2>1, TrackFacts DEF MBCap
<1>6. ASSUME NEW i \in m .. m + MBCap - 1
      PROVE  /\ RingSlot(i, MBCap) \in DOMAIN slots
             /\ At(i)' = IF n <= i /\ i < n + batch
                         THEN [flags |-> IF i = n THEN At(i).flags ELSE "data",
                               data |-> <<Producer, i + 1>>]
                         ELSE At(i)
  <2> DEFINE s == RingSlot(i, MBCap)
             P(k) == k \in 0 .. batch - 1 /\ s = SB!WriteSlot(k)
  <2>0. i \in Nat /\ s \in DOMAIN slots
    BY <1>2, TrackFacts
  <2>1. ASSUME NEW k \in 0 .. batch - 1, s = SB!WriteSlot(k) PROVE i = n + k
    <3>1. RingSlot(i, MBCap) = RingSlot(n + k, MBCap)
      BY <1>4, <2>1
    <3>2. i - (n + k) < MBCap /\ (n + k) - i < MBCap /\ n + k \in Nat
      BY <1>2
    <3> QED BY <2>0, <3>1, <3>2, TrackFacts
  <2>2. At(i)' = slots'[s] /\ At(i) = slots[s]
    BY <1>5 DEF At
  <2>3. slots'[s] = IF \E k \in 0 .. batch - 1 : s = SB!WriteSlot(k)
                    THEN LET k == CHOOSE k \in 0 .. batch - 1 : s = SB!WriteSlot(k)
                         IN [flags |-> IF k = 0 THEN slots[s].flags ELSE "data", data |-> SB!ItemNo(k)]
                    ELSE slots[s]
    BY <1>1, <2>0
  <2>4. CASE n <= i /\ i < n + batch
    <3>1. i - n \in 0 .. batch - 1 /\ n + (i - n) = i
      BY <1>2, <2>0, <2>4
    <3>2. s = SB!WriteSlot(i - n)
      BY <1>4, <3>1
    <3> DEFINE k == CHOOSE k \in 0 .. batch - 1 : s = SB!WriteSlot(k)
    <3>3. k \in 0 .. batch - 1 /\ s = SB!WriteSlot(k)
      BY <3>1, <3>2
    <3> HIDE DEF s
    <3>4. slots'[s] = [flags |-> IF k = 0 THEN slots[s].flags ELSE "data", data |-> SB!ItemNo(k)]
      BY <2>3, <3>1, <3>2
    <3> HIDE DEF k
    <3>5. i = n + k
      BY <2>1, <3>3
    <3>6. (k = 0 <=> i = n) /\ n + 1 + k = i + 1
      BY <3>3, <3>5, <1>2
    <3>7. SB!ItemNo(k) = <<Producer, i + 1>>
      BY <1>4, <3>3, <3>6
    <3> QED BY <2>0, <2>2, <2>4, <3>4, <3>6, <3>7 DEF s
  <2>5. CASE ~(n <= i /\ i < n + batch)
    <3>1. ~\E k \in 0 .. batch - 1 : s = SB!WriteSlot(k)
      BY <1>2, <2>1, <2>5
    <3> HIDE DEF s
    <3> QED BY <2>0, <2>2, <2>3, <2>5, <3>1 DEF s
  <2> QED BY <2>4, <2>5
<1>7. slots' \in [0 .. MBCap - 1 -> TrackElems]
  <2>1. ASSUME NEW s \in DOMAIN slots PROVE slots'[s] \in TrackElems
    <3>1. PICK i \in m .. m + MBCap - 1 : RingSlot(i, MBCap) = s
      BY TrackFacts
    <3>2. i \in Nat /\ At(i) \in TrackElems /\ At(i)' = slots'[s]
      BY <1>2, <1>5, <3>1, TrackFacts DEF At
    <3>3. <<Producer, i + 1>> \in Producers \X Nat
      BY <3>2, ThreadsAssumption
    <3>4. At(i)' \in TrackElems
      BY <1>6, <3>2, <3>3 DEF TrackElems, SB!Flags
    <3> QED BY <3>2, <3>4
  <2>2. slots' = [s \in DOMAIN slots' |-> slots'[s]]
    BY <1>1
  <2> QED BY <1>5, <2>1, <2>2
<1>8. TrackTypes' /\ TrackOffsets(m, n)'
  BY <1>1, <1>3, <1>5, <1>7 DEF Track, TrackTypes, TrackOffsets, Items
<1>9. TrackSides(m, n)'
  BY <1>1, <1>2, <1>3, <1>5 DEF Track, TrackSides
<1>10. TrackSlots(m, n)'
  <2> SUFFICES ASSUME NEW i \in m .. m + MBCap - 1
               PROVE  At(i)'.flags = TrackFlags(i, n)' /\ (At(i)'.data # None <=> TrackFull(i, m, n)')
    BY <1>5 DEF TrackSlots
  <2>1. At(i).flags = TrackFlags(i, n) /\ (At(i).data # None <=> TrackFull(i, m, n))
    BY DEF Track, TrackSlots
  <2>2. i \in Nat
    BY <1>2
  <2>3. CASE n <= i /\ i < n + batch
    <3>1. /\ At(i)'.flags = IF i = n THEN At(i).flags ELSE "data"
          /\ At(i)'.data = <<Producer, i + 1>>
      BY <1>6, <2>3
    <3>2. <<Producer, i + 1>> \in Producers \X Nat
      BY <2>2, ThreadsAssumption
    <3>3. <<Producer, i + 1>> # None
      BY <3>2, ThreadsAssumption
    <3>4. TrackFull(i, m, n)'
      BY <2>3, <2>2, <1>1, <1>3 DEF TrackFull
    <3>5. TrackFlags(i, n)' = IF i = n THEN TrackFlags(i, n) ELSE "data"
      BY <2>3, <2>2, <1>1, <1>2, <1>3 DEF TrackFlags
    <3> QED BY <2>1, <3>1, <3>3, <3>4, <3>5
  <2>4. CASE ~(n <= i /\ i < n + batch)
    <3>1. At(i)' = At(i)
      BY <1>6, <2>4
    <3>2. TrackFull(i, m, n)' = TrackFull(i, m, n)
      BY <2>4, <2>2, <1>1, <1>2, <1>3 DEF TrackFull
    <3>3. TrackFlags(i, n)' = TrackFlags(i, n)
      BY <2>4, <2>2, <1>1, <1>2, <1>3, <1>5 DEF TrackFlags
    <3> QED BY <2>1, <3>1, <3>2, <3>3
  <2> QED BY <2>3, <2>4
<1> QED BY <1>8, <1>9, <1>10 DEF Track

\* It publishes the value.
LEMMA PublishTrackStep ==
  ASSUME NEW m \in Nat, NEW n \in Nat, Track(m, n), SB!Publish
  PROVE  \E k \in Nat : Track(m, k)'
<1> DEFINE e == [At(n) EXCEPT !.flags = "data"]
           l == IF At(n).flags = "consumer" THEN "reading" ELSE pc[Consumer]
<1>2. /\ MBCap \in Nat \ {0} /\ batch \in 1 .. MBCap /\ m <= n /\ n + batch <= m + MBCap /\ ~closed
      /\ n + batch <= MaxBounded /\ MaxBounded \in Nat /\ pc[Producer] = "publish"
  BY TrackNumbers DEF Track, TrackSides, SB!Publish
<1>1. /\ write_offset' = (write_offset + batch) % IndexRange /\ batch' = 0
      /\ sent' = sent \cup {SB!ItemNo(i) : i \in 0 .. batch - 1}
      /\ slots' = [slots EXCEPT ![RingSlot(n, MBCap)] = e]
      /\ pc' = [pc EXCEPT ![Producer] = "idle", ![Consumer] = l]
      /\ UNCHANGED <<read_offset, closed, write_closed_at>>
  <2>1. 0 \in Nat /\ n + 0 <= MaxBounded /\ n + 0 = n
    BY <1>2
  <2>2. SB!WriteSlot(0) = RingSlot(n, MBCap)
    BY <2>1, TrackFacts
  <2> QED BY <2>2 DEF SB!Publish, At
<1>3. PICK k \in Nat : k = n + batch
  BY <1>2
<1>4. n \in m .. m + MBCap - 1 /\ At(n) \in TrackElems
  BY <1>2, TrackFacts
<1>5. /\ At(n).flags = (IF pc[Consumer] = "parked" THEN "consumer" ELSE "empty")
      /\ At(n).data # None
  BY <1>2, <1>4 DEF Track, TrackSlots, TrackFlags, TrackFull
<1>e. e \in TrackElems /\ e.flags = "data" /\ e.data = At(n).data
  BY <1>4 DEF TrackElems, SB!Flags
<1>l. l = (IF pc[Consumer] = "parked" THEN "reading" ELSE pc[Consumer]) /\ l \in ReaderLabels
  BY <1>5 DEF Track, TrackTypes, ReaderLabels
<1> HIDE DEF e, l
<1>6. /\ pc'[Consumer] = l /\ pc'[Producer] = "idle"
      /\ pc' \in [{Producer, Consumer} -> WriterLabels \cup ReaderLabels] /\ "idle" \in WriterLabels
  <2>1. "idle" \in WriterLabels
    BY DEF WriterLabels
  <2> QED BY <1>1, <1>l, <2>1, Turn
<1>7. /\ slots' \in [0 .. MBCap - 1 -> TrackElems] /\ MBCap' = MBCap /\ At(n)' = e
      /\ \A i \in m .. m + MBCap - 1 : i # n => At(i)' = At(i)
  BY <1>1, <1>4, <1>e, WindowSlot
<1>8. TrackTypes'
  BY <1>1, <1>2, <1>6, <1>7, <1>l DEF Track, TrackTypes
<1>9. TrackOffsets(m, k)'
  <2>1. write_offset' = k % IndexRange
    BY <1>1, <1>2, <1>3, OffsetMoves DEF Track, TrackOffsets, TrackTypes
  <2>2. SB!Cardinality(sent) = n
    BY ItemsCount DEF Track, TrackOffsets
  <2>3. sent' = Items(n) \cup {<<Producer, n + 1 + i>> : i \in 0 .. batch - 1}
    BY <1>1, <2>2 DEF Track, TrackOffsets, SB!ItemNo
  <2>4. Items(k) = Items(n) \cup {<<Producer, n + 1 + i>> : i \in 0 .. batch - 1}
    <3>1. ASSUME NEW y \in 1 .. k
          PROVE  y \in 1 .. n \/ \E i \in 0 .. batch - 1 : y = n + 1 + i
      <4>1. CASE y <= n
        BY <4>1
      <4>2. CASE y > n
        <5>1. y - n - 1 \in 0 .. batch - 1 /\ y = n + 1 + (y - n - 1)
          BY <4>2, <1>2, <1>3
        <5> QED BY <5>1
      <4> QED BY <4>1, <4>2
    <3>2. \A y \in 1 .. n : y \in 1 .. k
      BY <1>2, <1>3
    <3>3. \A i \in 0 .. batch - 1 : n + 1 + i \in 1 .. k
      BY <1>2, <1>3
    <3>4. Items(k) \subseteq Items(n) \cup {<<Producer, n + 1 + i>> : i \in 0 .. batch - 1}
      BY <3>1 DEF Items
    <3>5. Items(n) \cup {<<Producer, n + 1 + i>> : i \in 0 .. batch - 1} \subseteq Items(k)
      BY <3>2, <3>3 DEF Items
    <3> QED BY <3>4, <3>5
  <2>5. sent' = Items(k)
    BY <2>3, <2>4
  <2> QED BY <1>1, <1>2, <2>1, <2>5 DEF Track, TrackOffsets, Items
<1>10. TrackSides(m, k)'
  BY <1>1, <1>2, <1>3, <1>6, <1>7, <1>l DEF Track, TrackSides
<1>11. TrackSlots(m, k)'
  <2> SUFFICES ASSUME NEW i \in m .. m + MBCap - 1
               PROVE  At(i)'.flags = TrackFlags(i, k)' /\ (At(i)'.data # None <=> TrackFull(i, m, k)')
    BY <1>7 DEF TrackSlots
  <2>1. At(i).flags = TrackFlags(i, n) /\ (At(i).data # None <=> TrackFull(i, m, n)) /\ i \in Nat
    BY <1>2 DEF Track, TrackSlots
  <2>2. pc[Consumer] = "finish" => m < n
    BY DEF Track, TrackSides
  <2>3. CASE i < k
    <3>1. TrackFlags(i, k)' = "data"
      BY <2>3, <1>1, <1>2, <1>6 DEF TrackFlags
    <3>2. TrackFull(i, m, k)' = ~(pc[Consumer] = "finish" /\ i = m)
      BY <2>3, <1>6, <1>l DEF TrackFull
    <3>3. i # n => TrackFlags(i, n) = "data"
      BY <2>1, <2>3, <1>2, <1>3 DEF TrackFlags
    <3>4. TrackFull(i, m, n) = ~(pc[Consumer] = "finish" /\ i = m)
      BY <2>1, <2>2, <2>3, <1>2, <1>3 DEF TrackFull
    <3> QED BY <2>1, <3>1, <3>2, <3>3, <3>4, <1>5, <1>e, <1>7
  <2>4. CASE ~(i < k)
    <3>1. At(i)' = At(i) /\ ~(i < n) /\ i # n /\ ~(i < n + batch)
      BY <2>1, <2>4, <1>2, <1>3, <1>7
    <3>2. TrackFlags(i, n) = "empty" /\ ~TrackFull(i, m, n)
      BY <2>1, <3>1, <1>2 DEF TrackFlags, TrackFull
    <3>3. TrackFlags(i, k)' = "empty" /\ ~TrackFull(i, m, k)'
      BY <2>4, <1>1, <1>2, <1>6, <1>l DEF TrackFlags, TrackFull
    <3> QED BY <2>1, <3>1, <3>2, <3>3
  <2> QED BY <2>3, <2>4
<1>12. Track(m, k)'
  BY <1>8, <1>9, <1>10, <1>11 DEF Track
<1> QED BY <1>12

\* The producer closes.
LEMMA CloseStep ==
  ASSUME NEW m \in Nat, NEW n \in Nat, Track(m, n), SB!Close
  PROVE  Track(m, n)'
<1>2. /\ MBCap \in Nat \ {0} /\ m <= n /\ n <= m + MBCap /\ batch = 0 /\ ~closed
      /\ n <= MaxBounded /\ MaxBounded \in Nat /\ pc[Producer] = "idle"
  BY TrackNumbers DEF Track, TrackSides, SB!Close
\* The slot of the next item, full or not.
<1>j. PICK j \in m .. m + MBCap - 1 : /\ RingSlot(j, MBCap) = RingSlot(n, MBCap)
                                     /\ j = IF n = m + MBCap THEN m ELSE n
  <2>1. CASE n = m + MBCap
    BY <2>1, <1>2, NextRound
  <2>2. CASE n # m + MBCap
    BY <2>2, <1>2
  <2> QED BY <2>1, <2>2
<1> DEFINE f == At(j).flags
           e == [At(j) EXCEPT !.flags = IF f = "data" THEN "data_closed" ELSE "closed"]
<1>1. /\ closed' = TRUE /\ write_closed_at' = write_offset
      /\ slots' = [slots EXCEPT ![RingSlot(j, MBCap)] = e]
      /\ IF f = "consumer" THEN pc' = [pc EXCEPT ![Consumer] = "idle"] ELSE pc' = pc
      /\ UNCHANGED <<write_offset, read_offset, batch, sent>>
  <2>1. 0 \in Nat /\ n + 0 <= MaxBounded /\ n + 0 = n
    BY <1>2
  <2>2. SB!WriteSlot(0) = RingSlot(j, MBCap)
    BY <1>j, <2>1, TrackFacts
  <2> QED BY <2>2 DEF SB!Close, SB!Goto, At
<1>4. At(j) \in TrackElems /\ j \in Nat
  <2>1. j \in Nat
    BY <1>2, <1>j
  <2> QED BY <2>1, TrackFacts
<1>5. f = IF j < n THEN "data" ELSE IF pc[Consumer] = "parked" THEN "consumer" ELSE "empty"
  <2>1. f = TrackFlags(j, n)
    BY <1>j DEF Track, TrackSlots
  <2> QED BY <1>2, <1>j, <1>4, <2>1 DEF TrackFlags
<1>e. e \in TrackElems /\ e.flags = (IF j < n THEN "data_closed" ELSE "closed") /\ e.data = At(j).data
  BY <1>4, <1>5 DEF TrackElems, SB!Flags
<1>6. /\ pc'[Consumer] = (IF f = "consumer" THEN "idle" ELSE pc[Consumer]) /\ pc'[Producer] = "idle"
      /\ pc' \in [{Producer, Consumer} -> WriterLabels \cup ReaderLabels] /\ "idle" \in ReaderLabels
  <2>1. "idle" \in ReaderLabels
    BY DEF ReaderLabels
  <2>2. CASE f = "consumer"
    <3>1. pc' = [pc EXCEPT ![Consumer] = "idle"]
      BY <1>1, <2>2
    <3> HIDE DEF f
    <3> QED BY <1>2, <2>1, <2>2, <3>1, Turn
  <2>3. CASE f # "consumer"
    BY <1>1, <1>2, <2>1, <2>3 DEF Track, TrackTypes
  <2> QED BY <2>2, <2>3
<1>p. pc[Consumer] = "parked" => m = n
  BY DEF Track, TrackSides
<1>q. /\ pc'[Consumer] = IF pc[Consumer] = "parked" THEN "idle" ELSE pc[Consumer]
      /\ pc'[Consumer] \in ReaderLabels
  <2>1. f = "consumer" <=> pc[Consumer] = "parked"
    BY <1>2, <1>5, <1>j, <1>p
  <2> HIDE DEF f
  <2> QED BY <1>6, <2>1 DEF Track, TrackTypes
<1> HIDE DEF e, f
<1>7. /\ slots' \in [0 .. MBCap - 1 -> TrackElems] /\ MBCap' = MBCap /\ At(j)' = e
      /\ \A i \in m .. m + MBCap - 1 : i # j => At(i)' = At(i)
  BY <1>1, <1>j, <1>e, WindowSlot
<1>8. TrackTypes' /\ TrackOffsets(m, n)'
  BY <1>1, <1>6, <1>7, <1>q DEF Track, TrackTypes, TrackOffsets, Items, WriterLabels
<1>9. TrackSides(m, n)'
  BY <1>1, <1>2, <1>6, <1>7, <1>q DEF Track, TrackSides
<1>10. TrackSlots(m, n)'
  <2> SUFFICES ASSUME NEW i \in m .. m + MBCap - 1
               PROVE  At(i)'.flags = TrackFlags(i, n)' /\ (At(i)'.data # None <=> TrackFull(i, m, n)')
    BY <1>7 DEF TrackSlots
  <2>1. At(i).flags = TrackFlags(i, n) /\ (At(i).data # None <=> TrackFull(i, m, n)) /\ i \in Nat
    BY <1>2 DEF Track, TrackSlots
  <2>2. TrackFull(i, m, n)' = TrackFull(i, m, n)
    BY <1>1, <1>2, <1>6, <1>q DEF TrackFull
  <2>3. CASE i = j
    <3>1. TrackFlags(i, n)' = IF j < n THEN "data_closed" ELSE "closed"
      BY <2>3, <1>1, <1>2, <1>4, <1>6, <1>7, <1>j DEF TrackFlags
    <3> QED BY <2>1, <2>2, <2>3, <3>1, <1>e, <1>7
  <2>4. CASE i # j
    <3>1. TrackFlags(i, n)' = TrackFlags(i, n)
      BY <2>1, <2>4, <1>1, <1>2, <1>6, <1>7, <1>j, <1>q DEF TrackFlags
    <3> QED BY <2>1, <2>2, <2>4, <3>1, <1>7
  <2> QED BY <2>3, <2>4
<1> QED BY <1>8, <1>9, <1>10 DEF Track

\* An index less than half the range behind another compares as less, wherever they wrap.
LEMMA WrappedLess ==
  ASSUME NEW R \in Nat \ {0}, NEW a \in Nat, NEW b \in Nat, a < b, 2 * (b - a) < R
  PROVE  ((a % R) - (b % R)) % R > R \div 2
<1> DEFINE ra == a % R
           rb == b % R
<1>0. a \in Int /\ b \in Int
  OBVIOUS
<1>1. ra \in 0 .. R - 1 /\ rb \in 0 .. R - 1
  BY <1>0, Division
<1>2. PICK q \in Int : a = (R * q) + ra
  BY <1>0, Division
<1>3. PICK p \in Int : b = (R * p) + rb
  BY <1>0, Division
<1> HIDE DEF ra, rb
<1> DEFINE k == p - q - 1
           r == R - (b - a)
           t == ra - rb
<1>4. k \in Int /\ r \in 0 .. R - 1 /\ t \in Int
  BY <1>1
<1>5. R * k = ((R * p) - (R * q)) - R
  OBVIOUS
<1>6. t = (R * k) + r
  BY <1>1, <1>2, <1>3, <1>5
<1> HIDE DEF k, r, t
<1>7. t % R = r
  BY <1>4, <1>6, Remainder
<1> USE DEF k, r, t
<1>8. R - (b - a) > R \div 2
  OBVIOUS
<1> QED BY <1>7, <1>8 DEF ra, rb

\* The destructor leaves no value in the array.
LEMMA DestroyTrackStep ==
  ASSUME NEW m \in Nat, NEW n \in Nat, Track(m, n), SB!Destroy
  PROVE  TrackGone'
<1> DEFINE left == {i \in 0 .. SB!Capacity - 1 :
                    \A k \in 0 .. i : SB!LessThan((read_offset + k) % IndexRange, write_closed_at)}
<1>1. /\ pc[Producer] = "idle" /\ pc[Consumer] = "idle" /\ closed
      /\ slots' = [s \in DOMAIN slots |->
                    IF SB!HasData(slots[s].flags) /\ \E i \in left : s = SB!SlotAt(read_offset + i)
                    THEN [slots[s] EXCEPT !.data = None] ELSE slots[s]]
      /\ pc' = [th \in DOMAIN pc |-> "gone"]
  BY DEF SB!Destroy, SB!Finished
<1>2. /\ MBCap \in Nat \ {0} /\ m <= n /\ n <= m + MBCap /\ n <= MaxBounded /\ MaxBounded \in Nat
      /\ batch = 0 /\ MBCap \in Capacities
      /\ IndexRange \in Nat \ {0} /\ 2 * MBCap < IndexRange
  <2>1. MBCap \in Capacities
    BY DEF Track, TrackTypes
  <2> QED BY <1>1, <2>1, TrackNumbers, CapacitiesAssumption DEF Track, TrackSides
<1>3. ASSUME NEW i \in m .. n - 1 PROVE i - m \in left
  <2>1. i - m \in 0 .. MBCap - 1 /\ SB!Capacity = MBCap
    BY <1>2, TrackFacts
  <2>2. ASSUME NEW k \in 0 .. i - m
        PROVE  SB!LessThan((read_offset + k) % IndexRange, write_closed_at)
    <3>1. (read_offset + k) % IndexRange = (m + k) % IndexRange
      BY <1>2, OffsetMoves DEF Track, TrackOffsets
    <3>2. write_closed_at = n % IndexRange
      BY <1>1 DEF Track, TrackOffsets
    <3>3. m + k \in Nat /\ m + k < n /\ 2 * (n - (m + k)) < IndexRange
      BY <1>2
    <3>4. (((m + k) % IndexRange) - (n % IndexRange)) % IndexRange > IndexRange \div 2
      BY <1>2, <3>3, WrappedLess
    <3>5. SB!LessThan((m + k) % IndexRange, n % IndexRange)
      BY <3>4 DEF SB!LessThan
    <3> QED BY <3>1, <3>2, <3>5
  <2> QED BY <2>1, <2>2
<1> HIDE DEF left
<1>4. ASSUME NEW s \in DOMAIN slots PROVE slots'[s].data = None
  <2>1. PICK i \in m .. m + MBCap - 1 : RingSlot(i, MBCap) = s
    BY TrackFacts
  <2>2. /\ slots[s] \in TrackElems /\ slots[s].flags = TrackFlags(i, n)
        /\ (slots[s].data # None <=> TrackFull(i, m, n)) /\ i \in Nat
    <3>1. At(i) = slots[s] /\ i \in Nat
      BY <1>2, <2>1 DEF At
    <3>2. At(i) \in TrackElems
      BY <3>1, TrackFacts
    <3> QED BY <3>1, <3>2 DEF Track, TrackSlots
  <2>3. slots'[s] = IF SB!HasData(slots[s].flags) /\ \E k \in left : s = SB!SlotAt(read_offset + k)
                    THEN [slots[s] EXCEPT !.data = None] ELSE slots[s]
    BY <1>1
  <2>4. CASE i < n
    <3>1. SB!HasData(slots[s].flags)
      BY <1>1, <2>2, <2>4 DEF TrackFlags, SB!HasData
    <3>2. i - m \in left
      BY <1>2, <1>3, <2>2, <2>4
    <3>3. i - m \in Nat /\ m + (i - m) = i /\ m + (i - m) <= MaxBounded
      BY <1>2, <2>2, <2>4
    <3>4. SB!SlotAt(read_offset + (i - m)) = s
      BY <2>1, <3>3, TrackFacts
    <3>5. slots'[s] = [slots[s] EXCEPT !.data = None]
      BY <2>3, <3>1, <3>2, <3>4
    <3> QED BY <2>2, <3>5 DEF TrackElems
  <2>5. CASE ~(i < n)
    <3>1. slots[s].data = None
      BY <1>1, <2>2, <2>5 DEF TrackFull
    <3> QED BY <2>2, <2>3, <3>1 DEF TrackElems
  <2> QED BY <2>4, <2>5
<1>5. DOMAIN slots' = DOMAIN slots
  BY <1>1
<1>6. pc' = [th \in {Producer, Consumer} |-> "gone"]
  BY <1>1, TrackNumbers
<1> QED BY <1>4, <1>5, <1>6 DEF TrackGone

\* Nothing is in the array before the first item.
LEMMA TrackInit ==
  ASSUME SB!Init
  PROVE  TrackInv
<1> DEFINE e == [flags |-> "empty", data |-> None]
<1>1. PICK capacity \in Capacities : slots = [s \in 0 .. capacity - 1 |-> e]
  BY DEF SB!Init
<1>2. capacity \in Nat \ {0} /\ MaxBounded \in Nat /\ IndexRange \in Nat \ {0}
  BY CapacitiesAssumption, WrapAssumption
<1>3. DOMAIN slots = 0 .. capacity - 1 /\ MBCap = capacity
  <2>1. DOMAIN slots = 0 .. capacity - 1
    BY <1>1
  <2> QED BY <1>2, <2>1, FS_Interval DEF MBCap
<1>4. /\ write_offset = 0 /\ read_offset = 0 /\ closed = FALSE /\ batch = 0 /\ sent = {}
      /\ pc = [th \in {Producer, Consumer} |-> "idle"]
  BY DEF SB!Init
<1>5. e \in TrackElems
  BY DEF TrackElems, SB!Flags
<1>6. TrackTypes
  <2>1. MBCap \in Capacities /\ slots \in [0 .. MBCap - 1 -> TrackElems]
    BY <1>1, <1>3, <1>5
  <2>2. batch \in 0 .. MBCap
    BY <1>2, <1>3, <1>4
  <2>3. /\ pc \in [{Producer, Consumer} -> WriterLabels \cup ReaderLabels]
        /\ pc[Producer] \in WriterLabels /\ pc[Consumer] \in ReaderLabels
    BY <1>4 DEF WriterLabels, ReaderLabels
  <2> QED BY <1>4, <2>1, <2>2, <2>3 DEF TrackTypes
<1>7. TrackOffsets(0, 0)
  <2>1. 0 % IndexRange = 0
    BY <1>2
  <2>2. Items(0) = {}
    BY DEF Items
  <2> QED BY <1>4, <2>1, <2>2 DEF TrackOffsets
<1>8. TrackSides(0, 0)
  BY <1>2, <1>3, <1>4 DEF TrackSides
<1>9. TrackSlots(0, 0)
  <2> SUFFICES ASSUME NEW i \in 0 .. MBCap - 1
               PROVE  At(i).flags = TrackFlags(i, 0) /\ (At(i).data # None <=> TrackFull(i, 0, 0))
    <3>1. 0 .. 0 + MBCap - 1 = 0 .. MBCap - 1
      BY <1>2, <1>3
    <3> QED BY <3>1 DEF TrackSlots
  <2>1. i \in Nat /\ MBCap \in Nat \ {0}
    BY <1>2, <1>3
  <2>2. At(i) = e
    <3>1. RingSlot(i, MBCap) \in DOMAIN slots
      BY <1>3, <2>1, RingSlotIn
    <3> QED BY <1>1, <3>1 DEF At
  <2>3. TrackFlags(i, 0) = "empty" /\ ~TrackFull(i, 0, 0)
    BY <1>4, <2>1 DEF TrackFlags, TrackFull
  <2> QED BY <2>2, <2>3
<1> QED BY <1>6, <1>7, <1>8, <1>9 DEF TrackInv, Track

\* Whatever happens to a queue of this kind keeps what is said of it.
LEMMA TrackNext ==
  ASSUME TrackInv, queue = "spsc_bounded", [MCNext]_mcVars
  PROVE  TrackInv'
<1>1. \/ SB!ProducerStep \/ SB!ConsumerStep \/ SB!Destroy
      \/ UNCHANGED <<slots, write_offset, read_offset, closed, write_closed_at, batch, pc, sent>>
  BY DEF MCNext, Produce, Consume, Destroy, Rests, mcVars
<1>2. CASE TrackGone
  <2>1. pc[Producer] = "gone" /\ pc[Consumer] = "gone"
    BY <1>2 DEF TrackGone
  <2>2. ~SB!ProducerStep /\ ~SB!ConsumerStep /\ ~SB!Destroy
    BY <2>1 DEF SB!ProducerStep, SB!ConsumerStep, SB!Destroy, SB!Finished, SB!Push, SB!TryPush, SB!MayPush,
                SB!Suspend, SB!Write, SB!Publish, SB!Close, SB!Pull, SB!Wait, SB!TryPull, SB!Read, SB!FinishRead
  <2>3. TrackGone'
    BY <1>1, <1>2, <2>2 DEF TrackGone
  <2> QED BY <2>3 DEF TrackInv
<1>3. CASE \E m, n \in Nat : Track(m, n)
  <2>1. PICK m \in Nat, n \in Nat : Track(m, n)
    BY <1>3
  <2>2. SB!Capacity = MBCap /\ 1 \in 1 .. MBCap
    BY <2>1, TrackFacts
  <2>3. CASE SB!ProducerStep
    BY <2>1, <2>2, <2>3, PushSteps, SuspendStep, WriteStep, PublishTrackStep, CloseStep
      DEF SB!ProducerStep, TrackInv
  <2>4. CASE SB!ConsumerStep
    <3>1. SB!FinishRead => Track(m + 1, n)' /\ m + 1 \in Nat
      BY <2>1, FinishStep
    <3> QED BY <2>1, <2>4, <3>1, PullSteps, WaitTrackStep, ReadTrackStep DEF SB!ConsumerStep, TrackInv
  <2>5. CASE SB!Destroy
    BY <2>1, <2>5, DestroyTrackStep DEF TrackInv
  <2>6. CASE UNCHANGED <<slots, write_offset, read_offset, closed, write_closed_at, batch, pc, sent>>
    <3>1. TrackSlots(m, n)' /\ MBCap' = MBCap
      BY <2>1, <2>6, SlotsStay
    <3>2. TrackTypes' /\ TrackOffsets(m, n)' /\ TrackSides(m, n)'
      BY <2>1, <2>6, <3>1 DEF Track, TrackTypes, TrackOffsets, TrackSides, Items
    <3> QED BY <3>1, <3>2 DEF TrackInv, Track
  <2> QED BY <1>1, <2>3, <2>4, <2>5, <2>6
<1> QED BY <1>2, <1>3 DEF TrackInv

\* What the runs check of this queue.
LEMMA TrackSafe ==
  ASSUME TrackInv
  PROVE  SB!OverwritesNothing /\ SB!ReadsData /\ SB!NothingLeaks
<1>1. CASE TrackGone
  <2>1. pc[Producer] = "gone" /\ pc[Consumer] = "gone" /\ \A s \in DOMAIN slots : slots[s].data = None
    BY <1>1 DEF TrackGone
  <2> QED BY <2>1 DEF SB!OverwritesNothing, SB!ReadsData, SB!NothingLeaks
<1>2. CASE \E m, n \in Nat : Track(m, n)
  <2>1. PICK m \in Nat, n \in Nat : Track(m, n)
    BY <1>2
  <2>2. SB!NothingLeaks
    BY <2>1 DEF SB!NothingLeaks, Track, TrackTypes, ReaderLabels
  <2>3. SB!ReadsData
    <3> SUFFICES ASSUME pc[Consumer] = "reading" PROVE slots[SB!ReadSlot].data # None
      BY DEF SB!ReadsData
    <3>1. SB!ReadSlot = RingSlot(m, MBCap) /\ m \in m .. m + MBCap - 1 /\ m < n
      BY <2>1, TrackFacts DEF Track, TrackSides
    <3> QED BY <2>1, <3>1 DEF Track, TrackSlots, TrackFull, At
  <2>4. SB!OverwritesNothing
    <3> SUFFICES ASSUME pc[Producer] = "write", NEW i \in 0 .. batch - 1
                 PROVE  slots[SB!WriteSlot(i)].data = None
      BY DEF SB!OverwritesNothing
    <3>1. /\ MBCap \in Nat \ {0} /\ batch \in 1 .. MBCap /\ m <= n /\ n + batch <= m + MBCap
          /\ n + batch <= MaxBounded /\ MaxBounded \in Nat
      BY <2>1, TrackNumbers DEF Track, TrackSides
    <3>2. i \in Nat /\ n + i <= MaxBounded /\ n + i \in m .. m + MBCap - 1 /\ ~(n + i < n)
      BY <3>1
    <3>3. SB!WriteSlot(i) = RingSlot(n + i, MBCap)
      BY <2>1, <3>2, TrackFacts
    <3> QED BY <2>1, <3>2, <3>3 DEF Track, TrackSlots, TrackFull, At
  <2> QED BY <2>2, <2>3, <2>4
<1> QED BY <1>1, <1>2 DEF TrackInv
=============================================================================
