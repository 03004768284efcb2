----------------------------- MODULE MCChannel -----------------------------
(* A producer, a consumer, and a token that comes late. *)
EXTENDS Channel

Workload(producer, consumer, late) == [p |-> producer, c |-> consumer, x |-> late]
\* Two reclaims while a hazard pointer is taken.
TwoReclaims ==
  {Workload(<<"post_bulk", "pull", "pull", "pull", "pull", "pull", "pull", "pull", "pull">>, <<>>, <<"post">>)}
=============================================================================
