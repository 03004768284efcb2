------------------------------ MODULE MCQueues ------------------------------
(***************************************************************************)
(* Model checking of the four closable queues: a behaviour is one of them, *)
(* with one consumer and, in the mpsc queues, two producers.               *)
(***************************************************************************)
EXTENDS Integers, Sequences, FiniteSets

CONSTANTS Producers, Producer, Consumer, None,
          Queues,      \* the kinds of queue that are checked
          Capacities, IndexRange, BlockIds, BlockSizes,
          MaxPushes, MaxTickets, MaxPosts, MaxBounded, MaxBulk, CloseBy

\* A queue has room for something, and its indices for two rounds of it.
ASSUME CapacitiesAssumption ==
  /\ Capacities \subseteq Nat \ {0} /\ IndexRange \in Nat
  /\ \A capacity \in Capacities : 2 * capacity < IndexRange

\* The sides are different threads, and None is no thread, item or index.
ASSUME ThreadsAssumption ==
  /\ Producer \in Producers /\ Consumer \notin Producers
  /\ None \notin (Producers \X Nat) \cup Nat

\* The offsets of qu_spsc_bounded wrap to slot 0, or never wrap.
ASSUME WrapAssumption ==
  /\ MaxBounded \in Nat
  /\ \A capacity \in Capacities : IndexRange % capacity = 0 \/ MaxBounded < IndexRange

\* There is a block to begin with, a block has slots, and None is no block.
ASSUME BlocksAssumption ==
  BlockIds # {} /\ None \notin BlockIds /\ BlockSizes \subseteq Nat \ {0} /\ MaxBulk \in Nat

VARIABLES queue,
          slots, blocks, write_offset, read_offset, closed, write_closed_at,
          batch, ticket, pushes, heads, pending, walk, walks, pc, sent, got, told

SB == INSTANCE SpscBounded WITH MaxItems <- MaxBounded
MB == INSTANCE MpscBounded
SU == INSTANCE SpscUnbounded WITH MaxItems <- MaxPosts
MU == INSTANCE MpscUnbounded WITH MaxItems <- MaxTickets
CQ == INSTANCE ClosableQueue WITH ordered <- queue # "mpsc_bounded"

mcVars == <<queue, slots, blocks, write_offset, read_offset, closed, write_closed_at,
            batch, ticket, pushes, heads, pending, walk, walks, pc, sent, got, told>>

\* The variables that a kind of queue does not have.
NoSlots == slots = None
NoBlocks == blocks = None /\ heads = None /\ walk = None /\ walks = None /\ pending = None

MCInit ==
  /\ queue \in Queues
  /\ \/ queue = "spsc_bounded" /\ SB!Init /\ NoBlocks /\ ticket = None /\ pushes = None
     \/ queue = "mpsc_bounded" /\ MB!Init /\ NoBlocks /\ batch = None
     \/ queue = "spsc_unbounded" /\ SU!Init /\ NoSlots /\ batch = None /\ ticket = None
        /\ pushes = None /\ closed = None /\ walks = None /\ pending = None
     \/ queue = "mpsc_unbounded" /\ MU!Init /\ NoSlots /\ batch = None /\ ticket = None
        /\ walk = None

Idle(vs) == UNCHANGED <<queue, vs>>

\* Producer is the producer of the spsc queues.  In the mpsc queues the producers are
\* alike and only one of them can close: let it be this one.
Produce(p) ==
  \/ queue = "spsc_bounded" /\ p = Producer /\ SB!ProducerStep
     /\ Idle(<<blocks, ticket, pushes, heads, pending, walk, walks>>)
  \/ queue = "mpsc_bounded" /\ (MB!Push(p) \/ (p = Producer /\ MB!Close(p)))
     /\ Idle(<<blocks, batch, heads, pending, walk, walks>>)
  \/ queue = "spsc_unbounded" /\ p = Producer /\ SU!Produce
     /\ Idle(<<slots, closed, batch, ticket, pushes, pending, walks>>)
  \/ queue = "mpsc_unbounded" /\ (MU!Post(p) \/ (p = Producer /\ MU!Close(p)))
     /\ Idle(<<slots, batch, ticket, walk>>)

Consume ==
  \/ queue = "spsc_bounded" /\ SB!ConsumerStep
     /\ Idle(<<blocks, ticket, pushes, heads, pending, walk, walks>>)
  \/ queue = "mpsc_bounded" /\ MB!Consume
     /\ Idle(<<blocks, batch, heads, pending, walk, walks>>)
  \/ queue = "spsc_unbounded" /\ SU!Consume
     /\ Idle(<<slots, closed, batch, ticket, pushes, pending, walks>>)
  \/ queue = "mpsc_unbounded" /\ MU!Consume
     /\ Idle(<<slots, batch, ticket, walk>>)

Destroy ==
  \/ queue = "mpsc_bounded" /\ MB!Destroy
     /\ Idle(<<blocks, batch, heads, pending, walk, walks>>)
  \/ queue = "mpsc_unbounded" /\ MU!Destroy
     /\ Idle(<<slots, batch, ticket, walk>>)
  \/ queue = "spsc_bounded" /\ SB!Destroy
     /\ Idle(<<blocks, ticket, pushes, heads, pending, walk, walks>>)
  \/ queue = "spsc_unbounded" /\ SU!Destroy
     /\ Idle(<<slots, closed, batch, ticket, pushes, pending, walks>>)

\* The queue is destroyed, or nobody wants to push any more and nobody closed it.
Rests ==
  /\ pc[Consumer] \in {"gone", "parked"} /\ \A th \in DOMAIN pc \ {Consumer} : pc[th] \in {"gone", "idle"}
  /\ UNCHANGED mcVars

MCNext == (\E p \in Producers : Produce(p)) \/ Consume \/ Destroy \/ Rests
\* Each side goes on with what it has begun, and the consumer keeps pulling.
MCSpec == MCInit /\ [][MCNext]_mcVars
          /\ (\A p \in Producers : WF_mcVars(Produce(p))) /\ WF_mcVars(Consume)
-----------------------------------------------------------------------------
\* What is written over has been read and destroyed, what is read was written,
\* and no slot has two writers: the flags words hand every slot over.
SlotsInTurn ==
  CASE queue = "spsc_bounded" -> SB!OverwritesNothing /\ SB!ReadsData
    [] queue = "mpsc_bounded" -> MB!OverwritesNothing /\ MB!ReadsData
    [] queue = "spsc_unbounded" -> SU!SlotsInTurn
    [] queue = "mpsc_unbounded" -> MU!SlotsInTurn

\* No block is recycled under a thread that walks or writes in it.
BlocksInPlace ==
  /\ queue = "spsc_unbounded" => SU!BlocksInPlace
  /\ queue = "mpsc_unbounded" => MU!BlocksInPlace

\* The destructor leaves no value behind.
NothingLeaks ==
  CASE queue = "spsc_bounded" -> SB!NothingLeaks
    [] queue = "mpsc_bounded" -> MB!NothingLeaks
    [] queue = "spsc_unbounded" -> SU!NothingLeaks
    [] queue = "mpsc_unbounded" -> MU!NothingLeaks

\* Every queue is a ClosableQueue: items come out once, in the order of their
\* producer except in qu_mpsc_bounded, and all of them before the consumer is told
\* that the queue is closed.
IsClosableQueue == CQ!Spec

\* Whoever is parked although it could go on does go on.
WaitersGoOn ==
  LET forgotten == CASE queue = "spsc_bounded" -> SB!Forgotten
                     [] queue = "mpsc_bounded" -> MB!Forgotten
                     [] queue = "spsc_unbounded" -> SU!Forgotten
                     [] queue = "mpsc_unbounded" -> MU!Forgotten
  IN []<>~forgotten

\* Also in qu_mpsc_bounded, "linearizable", one producer's items keep their order.
EachProducersOrder == queue = "mpsc_bounded" => MB!EachProducersOrder
=============================================================================
