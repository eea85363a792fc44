-------------------------- MODULE MCCircularBuffer --------------------------
(* A ring of three slots: empty, filling, full and several times around.   *)
EXTENDS CircularBuffer
=============================================================================
