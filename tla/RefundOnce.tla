------------------------------ MODULE RefundOnce ------------------------------
(* What the customer of a paid order is promised about its money, whichever      *)
(* handlers, workers and requests bring it about: a unit goes back at most once,  *)
(* and the order counts only what has gone back.                                *)
CONSTANTS Ids, Units
VARIABLES given, counted

once == <<given, counted>>

GivenUnits == {pair[2] : pair \in given}

OnceInit == given = {} /\ counted = {}

\* The bank gives back units under one id, none of which has gone back before.
Give(i, units) ==
    /\ units \cap GivenUnits = {}
    /\ given' = given \cup ({i} \X units)
    /\ UNCHANGED counted

\* The order takes into account what went back.
Count(units) ==
    /\ units \subseteq GivenUnits
    /\ counted' = counted \cup units
    /\ UNCHANGED given

OnceNext == \E units \in SUBSET Units : Count(units) \/ \E i \in Ids : Give(i, units)

OnceSpec == OnceInit /\ [][OnceNext]_once
===============================================================================
