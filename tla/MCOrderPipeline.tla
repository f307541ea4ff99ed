-------------------------- MODULE MCOrderPipeline --------------------------
(* An instance of OrderPipeline for TLC. *)
EXTENDS OrderPipeline, TLC

OneOrder ==
  {[symbol |-> "BTC", side |-> "BUY", price |-> 1, qty |-> 2, key |-> "k"]}

ItsRows == <<[order |-> "c1", type |-> "orders.created"],
             [order |-> "c1", type |-> "orders.updated"]>>
=============================================================================
