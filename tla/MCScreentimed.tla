--------------------------- MODULE MCScreentimed ---------------------------
EXTENDS Screentimed

\* Every user is over limit after one tick.
LimitOneTick == [u \in Users |-> TickSeconds]
=============================================================================
