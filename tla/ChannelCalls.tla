----------------------------- MODULE ChannelCalls -----------------------------
(* How a channel is set up, and the calls that its tokens make. *)
EXTENDS BlockPool, Sequences

CONSTANTS Tokens,
          ReuseBlocks,                       \* set_reuse_blocks
          BulkSizes,                         \* what post_bulk is called with
          Programs                           \* bound: what the tokens may be used for

ASSUME ChannelAssumption ==
  /\ ReuseBlocks \in BOOLEAN /\ BulkSizes \subseteq Nat \ {0}
  /\ \A program \in Programs, t \in Tokens : program[t] \in Seq(
       {"post", "post_bulk", "pull", "try_pull", "close", "drain", "release"})
=============================================================================
