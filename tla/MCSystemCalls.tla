---------------------------- MODULE MCSystemCalls ----------------------------
(* Two threads of one process, with fewer pids and descriptors than calls.  *)
EXTENDS SystemCalls
=============================================================================
