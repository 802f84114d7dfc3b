------------------------------ MODULE MCConsumer ------------------------------
(* An instance of Consumer: which gateway runs each member.                    *)
EXTENDS Consumer

CONSTANTS g1, g2, m1, m2

OneEach == [m \in Members |-> IF m = m1 THEN g1 ELSE g2]
===============================================================================
