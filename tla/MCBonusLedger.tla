---------------------------- MODULE MCBonusLedger ----------------------------
(* Instances of BonusLedger for TLC.                                          *)
EXTENDS BonusLedger

CONSTANTS o1, o2, t1, t2

OneEach == [o \in Online \cup Till |-> 1]
==============================================================================
