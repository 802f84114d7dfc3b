---------------------------- MODULE MCConnManager -----------------------------
(* An instance of ConnManager: which user and device each handler serves.      *)
EXTENDS ConnManager

CONSTANTS h1, h2, h3, h4, u1, u2, phone, pc1

\* A device that reconnects (h1, h2), a second device of the same user (h3), and the
\* same device name of another user (h4).
Device == [h \in Handlers |-> IF h = h3 THEN pc1 ELSE phone]
Account == [h \in Handlers |-> IF h = h4 THEN u2 ELSE u1]

\* The three connections of the one user, or one of them beside the other user's.
Threes == {{h1, h2, h3}, {h1, h4}}
Twos == {{h1, h2}}
===============================================================================
