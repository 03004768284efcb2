----------------------------- MODULE MCExecutor ------------------------------
(* Model checking of ex_cpu: what its init decides, or its workers and its end. *)
EXTENDS MCExCpu

CONSTANTS Kinds, Layouts, PlatformBits
VARIABLES kind, machine, setup, stage, cores, sizes, threads, inboxes, steal, wakers

LY == INSTANCE ExCpuLayout WITH Inputs <- Layouts
layoutVars == <<machine, setup, stage, cores, sizes, threads, inboxes, steal, wakers>>
mcVars == <<kind, vars, layoutVars>>

\* Groups of cores: two that share a parent and two that do not, of two kinds; four side
\* by side; three of different sizes; one.
Machine(tree, coresOf, kindOf, smtOf) ==
  [tree |-> tree,
   cores |-> [g \in 0..Len(coresOf) - 1 |-> coresOf[g + 1]],
   kind |-> [g \in 0..Len(coresOf) - 1 |-> kindOf[g + 1]],
   smt |-> [g \in 0..Len(coresOf) - 1 |-> smtOf[g + 1]]]
Leaf == <<>>
Hybrid == Machine(<<Leaf, <<Leaf, Leaf>>, Leaf>>, <<<<0, 1>>, <<2, 3>>, <<4>>, <<5, 6>>>>,
                  <<"P", "E", "E", "E">>, <<2, 1, 1, 1>>)
Flat == Machine(<<Leaf, Leaf, Leaf, Leaf>>, <<<<0, 1>>, <<2, 3>>, <<4, 5>>, <<6, 7>>>>,
                <<"P", "P", "P", "P">>, <<1, 1, 1, 1>>)
Uneven == Machine(<<Leaf, Leaf, Leaf>>, <<<<0, 1, 2>>, <<3, 4>>, <<5>>>>, <<"P", "P", "E">>, <<1, 2, 1>>)
Single == Machine(<<Leaf>>, <<<<0, 1, 2, 3>>>>, <<"P">>, <<2>>)

AllKinds == {"P", "E"}
Part(only, groups, kinds, begin, end) ==
  [cores |-> only, groups |-> groups, kinds |-> kinds, begin |-> begin, end |-> end]
Whole == <<Part({}, {}, AllKinds, 0, 2)>>
\* Priority 1 alone may use the later groups, or the efficient cores, or these cores.
ByGroup == <<Part({}, {0, 1}, AllKinds, 0, 2), Part({}, {1, 2, 3}, AllKinds, 1, 2)>>
ByKind == <<Part({}, {}, {"P"}, 0, 1), Part({}, {}, {"E"}, 1, 2)>>
ByCore == <<Part({0, 1, 2}, {}, AllKinds, 0, 1), Part({2, 3, 4, 5, 6, 7}, {}, AllKinds, 0, 2)>>
OddCore == <<Part({0, 3}, {}, AllKinds, 0, 1), Part({1, 2}, {}, AllKinds, 1, 2)>>

Setting(machines, counts, packs, pins, strategies, halves, partitions) ==
  {[machine |-> m,
    setup |-> [count |-> c, pack |-> k, pin |-> n, strategy |-> s, partitions |-> p,
               occupancy |-> [P |-> <<1, 1>>, E |-> IF half THEN <<1, 2>> ELSE <<1, 1>>],
               priorities |-> 2]] :
     m \in machines, c \in counts, k \in packs, n \in pins, s \in strategies,
     half \in halves, p \in partitions}
Packs == {"PACK", "FAN"}
Strategies == {"LATTICE_MATRIX", "HIERARCHY_MATRIX"}
MCLayouts ==
  Setting({Hybrid, Flat, Uneven, Single}, {0, 1, 3, 4, 5, 9}, Packs, {"GROUP"}, Strategies, BOOLEAN, {Whole})
  \cup Setting({Hybrid, Flat}, {0, 4, 6, 9}, Packs, {"CORE", "GROUP", "NONE"}, Strategies, {FALSE}, {ByGroup, ByCore})
  \cup Setting({Hybrid, Uneven}, {0, 7}, Packs, {"CORE"}, Strategies, {FALSE}, {ByKind})
\* Cores of two partitions take turns in one group.
MCOddLayouts == Setting({Single}, {0}, {"PACK"}, {"CORE"}, Strategies, {FALSE}, {OddCore})

MCInit ==
  /\ kind \in Kinds
  /\ Init /\ (kind = "layout" => range = (CHOOSE r \in Partitions : TRUE))
  /\ LY!Init /\ (kind = "workers" => [machine |-> machine, setup |-> setup] = (CHOOSE l \in Layouts : TRUE))

InWorkers(A) == kind = "workers" /\ A /\ UNCHANGED <<kind, layoutVars>>
MCNext ==
  \/ InWorkers(Next)
  \/ kind = "layout" /\ LY!Next /\ UNCHANGED <<kind, vars>>
  \/ kind = "layout" /\ UNCHANGED mcVars     \* it ends

\* The fairness of ExCpu.
MCSpec ==
  /\ MCInit /\ [][MCNext]_mcVars
  /\ \A t \in Threads : WF_mcVars(InWorkers(WorkerStep(t) \/ CallStep(t)))
  /\ \A c \in Outside : WF_mcVars(InWorkers(CallStep(c)))
  /\ WF_mcVars(InWorkers(TeardownStep))
-----------------------------------------------------------------------------
\* ex_cpu has the threads it was asked for, on the cores it may use
\* (ExCpuLayout!ThreadsAsAsked).
ThreadsAsAsked == kind = "layout" => LY!ThreadsAsAsked

\* Threads steal from and wake each other in the orders that matrix.ipp and
\* thread_layout.ipp promise (ExCpuLayout!VictimOrders).
VictimOrders == kind = "layout" => LY!VictimOrders

\* Every thread has an inbox (ExCpuLayout!EveryInboxExists).
EveryInboxExists == kind = "layout" => LY!EveryInboxExists
=============================================================================
