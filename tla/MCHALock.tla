------------------------------ MODULE MCHALock ------------------------------
(* HALock with two or three nodes and keys that live for two ticks.         *)
EXTENDS HALock

CONSTANTS n1, n2, n3

MCTwoNodes   == {n1, n2}
MCThreeNodes == {n1, n2, n3}
=============================================================================
