---------------------------- MODULE MCOrderPayment ----------------------------
(* Instances of OrderPayment for TLC.                                         *)
EXTENDS OrderPayment, TLC

CONSTANTS w1, w2

\* Handlers in flight are interchangeable (used by the safety runs only).
AnyHandler == Permutations(Workers)
===============================================================================
