-------------------------- MODULE RecvDynamicProofs --------------------------
(* Theorems about recv_dynamic for every chunk size and every client.      *)
EXTENDS RecvDynamic, TLAPS

USE BufAssumption, ArrivingAssumption

(* What one recv returns is between one byte and a chunk.                  *)
LEMMA ReceivedBounds ==
  ASSUME NEW n \in Arriving
  PROVE  Received(n) \in 1 .. MAX_BUF_SIZE
BY DEF Received

(* The block's size follows pos, so the next chunk always fits; the        *)
(* terminator is written by the step that leaves the loop.                 *)
RInv ==
  /\ TypeOK /\ CopyStaysInBlock /\ TerminatorInBlock
  /\ pc \in {"loop", "recv"} => terminator = -1

(* The first block is empty.                                               *)
LEMMA InitRInv == Init => RInv
<1> SUFFICES ASSUME Init PROVE RInv
  OBVIOUS
<1>1. ShutdownNow \in BOOLEAN /\ pc \in {"loop", "recv", "line", "null"}
  BY DEF Init
<1>2. /\ pos \in Nat /\ p = MAX_BUF_SIZE /\ pos = 0
      /\ copied \in Int /\ terminator = -1 /\ copied < p
  BY DEF Init
<1>. QED  BY <1>1, <1>2 DEF RInv, TypeOK, CopyStaysInBlock, TerminatorInBlock

(* Every step of the loop keeps room for the next chunk.                   *)
LEMMA NextRInv == RInv /\ [Next]_vars => RInv'
<1> SUFFICES ASSUME RInv, [Next]_vars PROVE RInv'
  OBVIOUS
<1> USE DEF RInv, TypeOK, CopyStaysInBlock, TerminatorInBlock
<1>1. CASE signal_handler
  BY <1>1 DEF signal_handler
<1>2. CASE CheckShutdown \/ RecvNothing \/ RecvError
  BY <1>2 DEF CheckShutdown, RecvNothing, RecvError
<1>3. ASSUME NEW n \in Arriving, RecvPart(Received(n)) PROVE RInv'
  <2>1. Received(n) \in 1 .. MAX_BUF_SIZE
    BY ReceivedBounds
  <2>. QED  BY <1>3, <2>1 DEF RecvPart, Grown
<1>4. ASSUME NEW n \in Arriving, RecvLine(Received(n)) PROVE RInv'
  <2>1. Received(n) \in 1 .. MAX_BUF_SIZE
    BY ReceivedBounds
  <2>. QED  BY <1>4, <2>1 DEF RecvLine
<1>5. CASE UNCHANGED vars
  BY <1>5 DEF vars
<1>. QED  BY <1>1, <1>2, <1>3, <1>4, <1>5 DEF Next, ThreadStep

(* Whatever sizes the chunks have and however long the line is, the copies *)
(* of recv_dynamic stay inside the block it allocated.                     *)
THEOREM CopyAlwaysInBlock == Spec => []CopyStaysInBlock
<1>1. RInv => CopyStaysInBlock
  BY DEF RInv
<1>. QED  BY InitRInv, NextRInv, <1>1, PTL DEF Spec

(* The terminating zero falls outside the block for one line only, the one *)
(* that fills the first block exactly, and then by one byte.               *)
THEOREM TerminatorAlwaysInBlock == Spec => []TerminatorInBlock
<1>1. RInv => TerminatorInBlock
  BY DEF RInv
<1>. QED  BY InitRInv, NextRInv, <1>1, PTL DEF Spec

(* The block has the size that the two branches of the loop leave.         *)
THEOREM RecvTypeAlways == Spec => []TypeOK
<1>1. RInv => TypeOK
  BY DEF RInv
<1>. QED  BY InitRInv, NextRInv, <1>1, PTL DEF Spec
=============================================================================
