------------------------------- MODULE MCExCpu -------------------------------
(* Two workers, which share one priority or are split into partitions. *)
EXTENDS ExCpu

\* Both threads serve priority 0, the only one.
Shared == [t \in Threads |-> <<0, 0>>]
\* Thread 1 alone serves priority 0, both serve priority 1.
Overlapping == [t \in Threads |-> IF t = 0 THEN <<1, 1>> ELSE <<0, 1>>]
\* One thread for each priority.
Split == [t \in Threads |-> <<t, t>>]

MCPartitions == {Shared, Overlapping, Split}
MCShared == {Shared}
MCHints == {NoHint, 0}
=============================================================================
