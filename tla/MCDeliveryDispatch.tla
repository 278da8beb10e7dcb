------------------------- MODULE MCDeliveryDispatch -------------------------
\* Instances of DeliveryDispatch for TLC.
EXTENDS DeliveryDispatch

CONSTANTS staff, worker
=============================================================================
