------------------------------- MODULE MCTasks -------------------------------
(***************************************************************************)
(* Model checking of what a coroutine waits for when it works with others: *)
(* a behaviour is one of a channel, of a parent that joins its children    *)
(* all at once (Groups), or of one that takes their results one at a time  *)
(* (Mux and select).                                                       *)
(***************************************************************************)
EXTENDS Groups, ChannelCalls

CONSTANTS NumSlots, Endless

\* A mux has slots, and one of select's awaitables at least ends by itself.
ASSUME SlotsAssumption ==
  NumSlots \in Nat \ {0} /\ Endless \subseteq 1..NumSlots /\ Endless # 1..NumSlots

VARIABLES kind,
          mparent, user, each, bits, active, remaining, slot, mkid, winner, cancelled,
          blocks, write_offset, read_offset, closed, write_closed_at, head_block, head_offset,
          haz_ptr_counter, reclaim_counter, hazards, hazard, lock, reclaim, pc, op

muxVars == <<mparent, user, each, bits, active, remaining, slot, mkid, winner, cancelled>>
channelVars == <<blocks, write_offset, read_offset, closed, write_closed_at, head_block,
                 head_offset, haz_ptr_counter, reclaim_counter, hazards, hazard, lock, reclaim, pc, op>>
M == INSTANCE Mux WITH parent <- mparent, kid <- mkid
C == INSTANCE Channel
mcVars == <<kind, vars, muxVars, channelVars>>

\* A producer, a consumer, and a token that comes late.
Workload(producer, consumer, late) == [p |-> producer, c |-> consumer, x |-> late]
Workloads ==
  { \* A hazard pointer is taken while drain recycles, and is given back.
    Workload(<<"post_bulk", "pull", "pull", "pull", "drain">>, <<>>, <<"try_pull", "release">>),
    \* The channel is closed under a producer and a consumer that waits.
    Workload(<<"post", "post_bulk">>, <<"pull", "pull", "pull">>, <<"close", "drain">>),
    \* Enough items for a consumer to recycle.
    Workload(<<"post_bulk", "post_bulk">>, <<"pull", "pull", "pull", "pull", "pull", "try_pull">>, <<>>),
    \* Consumers compete, and leave some for the destructor.
    Workload(<<"post_bulk">>, <<"try_pull", "pull">>, <<"try_pull", "close">>)}

\* One initial state for the channel where it is not used.
MCInit ==
  /\ kind \in {"channel", "groups", "mux"}
  /\ C!Init /\ (kind # "channel" => \A t \in Tokens : op[t].todo = (CHOOSE p \in Programs : TRUE)[t])
  /\ Init /\ M!Init

InGroup(step) == kind = "groups" /\ step /\ UNCHANGED <<kind, muxVars, channelVars>>
InMux(step) == kind = "mux" /\ step /\ UNCHANGED <<kind, vars, channelVars>>
InChannel(step) == kind = "channel" /\ step /\ UNCHANGED <<kind, vars, muxVars>>
MCNext == InGroup(Next) \/ InMux(M!Next) \/ InChannel(C!Next)

\* The fairness of the three specifications.
MCSpec ==
  /\ MCInit /\ [][MCNext]_mcVars
  /\ WF_mcVars(InGroup(ParentStep) \/ InMux(M!ParentStep))
  /\ \A k \in Kids : WF_mcVars(InGroup(KidStep(k)))
  /\ \A i \in M!Slots : WF_mcVars(InMux(M!KidStep(i)))
  /\ \A t \in Tokens : WF_mcVars(InChannel(C!Continue(t)))
-----------------------------------------------------------------------------
\* No walk of a channel is led into a recycled block (Channel!BlocksInPlace).
BlocksInPlace == C!BlocksInPlace

\* Every item of a channel is read once or destroyed with it (Channel!EveryItemOnce).
EveryItemOnce == C!EveryItemOnce

\* The word of a mux tells the truth.  EACH is free exactly while the parent sleeps and
\* nobody is on the way to wake it, and then no result lies in the word unseen; a parent
\* that wakes finds EACH held and a slot set, as the asserts of mux_await_resume demand;
\* a slot is in use until its result is taken, once, and nothing is out when the mux is
\* destroyed (Mux!OneWaker, Mux!WokenWithResult, Mux!EveryResultOnce).
EachResultOnce == M!OneWaker /\ M!WokenWithResult /\ M!EveryResultOnce

\* A call of a channel does not hang, neither for an item that was posted nor for close, and
\* a parent goes on whatever it waits for: a join, the next result of a mux, or a select
\* whose other awaitables end only because it cancels them.
SomebodyWaits == (\E t \in Tokens : C!Forgotten(t)) \/ WaitingParent \/ M!WaitingParent
CallsReturn == []<>~SomebodyWaits
=============================================================================
