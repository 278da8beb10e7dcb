---------------------------- MODULE MCPartialRefund ----------------------------
(* Instances of PartialRefund for TLC.                                         *)
EXTENDS PartialRefund, TLC

CONSTANTS u1, u2, u3, a, b, h1, h2

\* Units, requests and operators are interchangeable (safety runs only).
AnyRefund ==
    Permutations(Units) \cup Permutations(Requests) \cup Permutations(Operators)
===============================================================================
