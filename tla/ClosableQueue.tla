---------------------------- MODULE ClosableQueue ----------------------------
(***************************************************************************)
(* What a closable queue with one consumer promises, however its slots are *)
(* laid out: what was put in comes out once, no item overtakes an earlier  *)
(* one of its producer, and once the consumer is told that the queue is    *)
(* closed everything that was ever put in has come out and nothing is put  *)
(* in later.  An item is <<producer, its number>>.                         *)
(***************************************************************************)
EXTENDS Naturals, Sequences, SequencesExt

VARIABLES ordered, \* whether a producer's items keep their order: never changes
          sent,    \* the set of items that were put in
          got,     \* the items that came out, in their order
          told     \* the consumer was told that the queue is closed

Left == sent \ ToSet(got)
Init == ordered \in BOOLEAN /\ sent = {} /\ got = <<>> /\ told = FALSE

Put(S) ==
  /\ ~told /\ S # {} /\ S \cap sent = {}
  /\ sent' = sent \cup S
  /\ UNCHANGED <<got, told>>

Take(x) ==
  /\ x \in Left
  /\ ordered => \A y \in Left : y[1] = x[1] => x[2] <= y[2]
  /\ got' = Append(got, x)
  /\ UNCHANGED <<sent, told>>

Tell ==
  /\ Left = {}
  /\ told' = TRUE
  /\ UNCHANGED <<sent, got>>

Next ==
  /\ UNCHANGED ordered
  /\ Put(sent' \ sent) \/ (\E x \in Left : Take(x)) \/ Tell
Spec == Init /\ [][Next]_<<ordered, sent, got, told>>
=============================================================================
