---------------------------- MODULE MCTransport ----------------------------
(* A TLC instance of Transport: one pusher, the task and the queue.         *)
EXTENDS Transport

CONSTANTS p
=============================================================================
