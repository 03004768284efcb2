------------------------------ MODULE BlockPool ------------------------------
(* The blocks of which a BlockList is made. *)
EXTENDS Integers, FiniteSets

CONSTANTS BlockIds,      \* blocks that may be allocated: the bound of the list
          BlockSizes,    \* what a queue may be configured with
          None

ASSUME BlockPoolAssumption == BlockSizes \subseteq Nat \ {0} /\ IsFiniteSet(BlockIds)
=============================================================================
