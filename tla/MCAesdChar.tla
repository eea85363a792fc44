----------------------------- MODULE MCAesdChar -----------------------------
(* Small instances of the character driver: two slots, so that a third      *)
(* command already displaces the first, and commands of one or two bytes    *)
(* that may take two writes to complete.                                    *)
EXTENDS AesdChar, TLC

CONSTANTS a, nl

MCByte == {a, nl}

MCChunk      == {<<a>>, <<nl>>, <<a, nl>>}
MCChunkSmall == {<<>>, <<a>>, <<nl>>}

MCSeekOffset == {-1}

(* Seekers change nothing that others see: one at a time is enough, and     *)
(* once a size is false only writers go on.                                 *)
Seeking == {p \in Proc : pc[p] \notin {"closed", "idle", "write"}}

FewSeekers ==
  /\ \A p, q \in Seeking : p = q
  /\ ~Counted => Seeking = {} /\ \A p \in Proc : f_pos[p] = 0

Symmetry == Permutations(Ptr) \cup Permutations(Proc)
=============================================================================
