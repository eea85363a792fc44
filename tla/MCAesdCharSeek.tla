--------------------------- MODULE MCAesdCharSeek ---------------------------
(* Calls on a buffer of two commands of one or two bytes, with the history  *)
(* of what each seek could have answered.                                   *)
EXTENDS AesdCharSeek, TLC

CONSTANTS a, nl

MCByte == {a, nl}
MCChunk == {<<nl>>, <<a, nl>>}
MCSeekOffset == {-3, 0}

PtrSymmetry == Permutations(Ptr)
=============================================================================
