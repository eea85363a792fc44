---------------------------- MODULE MCThreading ----------------------------
(* Three calls of start_thread_obtaining_mutex for one mutex.               *)
EXTENDS Threading
=============================================================================
