----------------------------- MODULE PermitQueue -----------------------------
(***************************************************************************)
(* What a waiter_data_base promises: a counted pool of permits and a queue *)
(* of suspended tasks.  A permit is never lost or duplicated, and permits  *)
(* that reach the queue are granted in the order in which the tasks        *)
(* suspended.                                                              *)
(***************************************************************************)
EXTENDS Integers, Sequences, SequencesExt

CONSTANTS Tasks, Initial, MaxPut
VARIABLES avail,  \* free permits
          queue   \* suspended tasks, oldest first

pqVars == <<avail, queue>>

Init == avail = Initial /\ queue = <<>>

\* A permit is taken without suspending.
Acquire == avail > 0 /\ avail' = avail - 1 /\ queue' = queue

Enqueue(t) ==
  t \notin ToSet(queue) /\ queue' = Append(queue, t) /\ avail' = avail

\* The oldest suspended task receives a permit.
Grant ==
  /\ avail > 0 /\ queue # <<>>
  /\ avail' = avail - 1 /\ queue' = Tail(queue)

Put(n) == avail' = avail + n /\ queue' = queue

\* The object is destroyed: everyone is resumed, nobody is granted anything.
Close == queue' = <<>> /\ avail' = avail

Next ==
  \/ Acquire \/ Grant \/ Close
  \/ \E t \in Tasks : Enqueue(t)
  \/ \E n \in 1..MaxPut : Put(n)

Spec == Init /\ [][Next]_pqVars
=============================================================================
