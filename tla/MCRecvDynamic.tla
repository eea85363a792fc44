--------------------------- MODULE MCRecvDynamic ---------------------------
(* Chunks of four bytes, and clients that send up to a chunk and a byte at *)
(* a time.                                                                 *)
EXTENDS RecvDynamic
=============================================================================
