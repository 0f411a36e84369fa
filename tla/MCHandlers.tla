------------------------------ MODULE MCHandlers ------------------------------
EXTENDS Handlers, TLC

CONSTANTS s1, s2, db1, db2

MCHome == (s1 :> db1) @@ (s2 :> db2)
===============================================================================
