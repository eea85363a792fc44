---------------------------- MODULE MCAesdSocket ----------------------------
(* Two or three clients of a device that keeps two commands.               *)
EXTENDS AesdSocket, TLC

ClientSymmetry == Permutations(Client)
=============================================================================
