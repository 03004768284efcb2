------------------------------ MODULE WorkDeque ------------------------------
(* What a work-stealing deque promises.  Items are numbered in the order they
   are pushed.  The owner pushes and takes at the bottom, thieves take at the
   top, each item is taken once, and nothing else ever leaves the deque. *)
EXTENDS Naturals, Sequences, SequencesExt

CONSTANT MaxItems

VARIABLES deque,  \* items not yet taken, the top first
          taken,  \* how often each item was taken
          pushed  \* how many items were pushed

vars == <<deque, taken, pushed>>

Init == deque = <<>> /\ taken = [x \in 1..MaxItems |-> 0] /\ pushed = 0

Push == \E n \in 1..(MaxItems - pushed) :
          /\ deque' = deque \o [i \in 1..n |-> pushed + i]
          /\ pushed' = pushed + n
          /\ UNCHANGED taken

TakeBottom == /\ deque # <<>>
              /\ deque' = Front(deque)
              /\ taken' = [taken EXCEPT ![Last(deque)] = @ + 1]
              /\ UNCHANGED pushed

TakeTop == /\ deque # <<>>
           /\ deque' = Tail(deque)
           /\ taken' = [taken EXCEPT ![Head(deque)] = @ + 1]
           /\ UNCHANGED pushed

Next == Push \/ TakeBottom \/ TakeTop
Spec == Init /\ [][Next]_vars
=============================================================================
