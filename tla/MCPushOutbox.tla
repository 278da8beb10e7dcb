---------------------------- MODULE MCPushOutbox ----------------------------
\* Instances of PushOutbox for TLC.
EXTENDS PushOutbox

CONSTANTS m1, t1, t2, w1, w2
=============================================================================
