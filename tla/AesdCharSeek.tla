---------------------------- MODULE AesdCharSeek ----------------------------
(***************************************************************************)
(* AesdChar with a history variable that records, for every llseek and     *)
(* ioctl in progress, the results the call could have had if it had run    *)
(* at one instant since it was made.  "Any necessary locking must be       *)
(* performed by caller" (aesd-circular-buffer.c): the two calls load the   *)
(* buffer without the lock, so nothing but this check says that they       *)
(* answer for a buffer that ever existed.                                  *)
(***************************************************************************)
EXTENDS AesdChar

VARIABLE seen      \* [p -> results an atomic call could have returned]

svars == <<vars, seen>>

SeekEndPC == {"ls_ptr", "ls_size"}
SeekToPC  == {"io_offs", "io_ptr", "io_size"}

\* The position the call of process p must set, or EINVAL, when the commands
\* kept are l, oldest first.
Atomic(p, l) ==
  LET cmd == arg'[p].cmd
      off == arg'[p].off
      before(n) == Len(FlattenSeq(SubSeq(l, 1, n)))
  IN  IF pc'[p] \in SeekEndPC
        THEN IF before(Len(l)) + off >= 0 THEN before(Len(l)) + off ELSE EINVAL
        ELSE IF cmd < Len(l) /\ off <= Len(l[cmd + 1])
               THEN before(cmd) + off ELSE EINVAL

SeekInit == Init /\ seen = [p \in Proc |-> {}]

\* The logs a call may answer for in one state: the one before and the one
\* after the write that is being published.
Logs ==
  {DeviceLog} \cup
  (IF lock \in Proc THEN {Device!Push(DeviceLog, kheap[wr.e.buffptr])} ELSE {})

\* Every state a call runs through contributes its answers.
Record ==
  seen' = [p \in Proc |->
             IF pc'[p] \in SeekEndPC \cup SeekToPC
             THEN seen[p] \cup {Atomic(p, l) : l \in Logs'} ELSE {}]

SeekNext == Next /\ Record

SeekSpec == SeekInit /\ [][SeekNext]_svars

(* llseek(SEEK_END) and AESDCHAR_IOCSEEKTO answer for one state of the     *)
(* buffer: the position they set, or their refusal, is what the call would *)
(* have done had it run alone at some moment between its start and its     *)
(* return.                                                                 *)
SeekSeesOneBuffer ==
  [][\A p \in Proc :
       pc[p] \in SeekEndPC \cup SeekToPC /\ pc'[p] = "idle" =>
         (IF ret'.value < 0 THEN ret'.value ELSE f_pos'[p]) \in seen[p]]_svars
=============================================================================
