---------------------------- MODULE MCConnection ----------------------------
(* Connection with room for one chunk and two chunks to send each way.       *)
EXTENDS Connection

Room == 1
Chunks == 2
=============================================================================
