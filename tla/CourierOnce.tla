----------------------------- MODULE CourierOnce -----------------------------
(* What is promised about the couriers of one order, whichever requests, workers *)
(* and retries call them: one at a time, none called a second time, none after    *)
(* the money went back, and no money back while the provider's courier is away.  *)
CONSTANTS
    Couriers,
    Own        \* the bakery's own courier, whose order may be refunded on the way

VARIABLES away, back, refunded

trips == <<away, back, refunded>>

TripsInit == away = {} /\ back = {} /\ refunded = FALSE

SetOut(c) ==
    /\ away = {} /\ c \notin back /\ ~refunded
    /\ away' = {c}
    /\ UNCHANGED <<back, refunded>>

ComeBack(c) ==
    /\ c \in away
    /\ away' = away \ {c} /\ back' = back \cup {c}
    /\ UNCHANGED refunded

Refund ==
    /\ away \subseteq {Own} /\ ~refunded
    /\ refunded' = TRUE
    /\ UNCHANGED <<away, back>>

TripsNext == Refund \/ \E c \in Couriers : SetOut(c) \/ ComeBack(c)

TripsSpec == TripsInit /\ [][TripsNext]_trips
==============================================================================
