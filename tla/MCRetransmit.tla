----------------------------- MODULE MCRetransmit -----------------------------
(* An instance of Retransmit: which message and connection each start is for.  *)
EXTENDS Retransmit

CONSTANTS t1, t2, k1, c1

\* Both starts are for the same message and connection: the broker delivers a
\* message again, or the device reconnects under the same id.
Redelivered == [t \in Tasks |-> k1]
OneConn == [k \in Keys |-> c1]
===============================================================================
