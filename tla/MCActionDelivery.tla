-------------------------- MODULE MCActionDelivery --------------------------
(* TLC instance of ActionDelivery: all workers in one process.              *)
EXTENDS ActionDelivery

CONSTANTS p1, q1, q2, s1, publish

AllInOne == [w \in Workers |-> p1]
=============================================================================
