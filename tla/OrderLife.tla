------------------------------ MODULE OrderLife ------------------------------
(* What the customer of an order is promised about its service and its money,   *)
(* whichever handlers, workers, staff and requests bring it about: it is opened  *)
(* once, and for money; nobody cooks it while its money is asked back or after    *)
(* it went back; and a refund is for an order that was called off.              *)
VARIABLES
    service,  \* pending (at the checkout), new, work, completed, cancelled
    money     \* due, paid, asked (a refund is being decided), back

life == <<service, money>>

LifeInit == service = "pending" /\ money = "due"

Pay ==
    /\ money = "due" /\ money' = "paid"
    /\ UNCHANGED service

\* Nobody paid, and nobody will.
GiveUp ==
    /\ money = "due" /\ service' = "cancelled"
    /\ UNCHANGED money

Show ==
    /\ money = "paid" /\ service = "pending" /\ service' = "new"
    /\ UNCHANGED money

\* The staff may cook an order that was called off, if its refund was refused.
Serve ==
    /\ money = "paid" /\ service \in {"pending", "new", "cancelled"} /\ service' = "work"
    /\ UNCHANGED money

Complete ==
    /\ money = "paid" /\ service \in {"new", "work"} /\ service' = "completed"
    /\ UNCHANGED money

CallOff ==
    /\ money = "paid" /\ money' = "asked"
    /\ service' = "cancelled"

Refuse ==
    /\ money = "asked" /\ money' = "paid"
    /\ UNCHANGED service

PayBack ==
    /\ money = "asked" /\ money' = "back"
    /\ UNCHANGED service

LifeNext ==
    Pay \/ GiveUp \/ Show \/ Serve \/ Complete \/ CallOff \/ Refuse \/ PayBack

LifeSpec == LifeInit /\ [][LifeNext]_life
==============================================================================
