----------------------------- MODULE AesdDevice -----------------------------
(***************************************************************************)
(* What /dev/aesdchar promises the programs that use it: writes accumulate *)
(* until a newline ends a command, the last Capacity commands are kept,    *)
(* and a read delivers the next bytes of their concatenation.  There are   *)
(* no slots, allocations or locks here, and every call is one step.        *)
(* AesdChar is shown to implement this.                                    *)
(***************************************************************************)
EXTENDS Integers, Sequences, SequencesExt

CONSTANTS
  Proc,        \* processes, each with one open file
  NL,          \* the newline byte
  Chunk,       \* what one write call may pass
  Count,       \* read sizes
  Capacity     \* number of commands kept

VARIABLES
  log,         \* completed commands, oldest first
  partial,     \* bytes written since the last newline
  pos,         \* file position of each process
  ret          \* the last return to user space: [p, value, data]

vars == <<log, partial, pos, ret>>

\* A slip: the oldest command is not dropped.
PushKeepsAll(l, x) == Append(l, x)

Push(l, x) == IF Len(l) < Capacity THEN Append(l, x) ELSE Append(Tail(l), x)

Returns(p, value, data) == ret' = [p |-> p, value |-> value, data |-> data]

Init ==
  /\ log = <<>> /\ partial = <<>>
  /\ pos = [p \in Proc |-> 0]
  /\ ret.value = 0 /\ ret.data = <<>>

\* A chunk without a final newline stays pending; a newline completes the
\* command.  The file position does not move: a server that writes and then
\* reads gets everything from the start.
Write(p, c) ==
  /\ c # <<>>
  /\ \/ /\ Last(c) = NL
        /\ log' = Push(log, partial \o c)
        /\ partial' = <<>>
     \/ /\ Last(c) # NL
        /\ partial' = partial \o c
        /\ UNCHANGED log
  /\ Returns(p, Len(c), <<>>)
  /\ UNCHANGED pos

\* A write of no bytes is accepted while a command is pending.
WriteNothing(p) ==
  /\ partial # <<>>
  /\ Returns(p, 0, <<>>)
  /\ UNCHANGED <<log, partial, pos>>

\* Short reads are allowed, but 0 means the end of the data.
Read(p, count) ==
  LET all == FlattenSeq(log)
  IN  /\ \E n \in 0 .. count :
           /\ n = 0 => count = 0 \/ pos[p] >= Len(all)
           /\ n > 0 => pos[p] + n <= Len(all)
           /\ Returns(p, n, SubSeq(all, pos[p] + 1, pos[p] + n))
           /\ pos' = [pos EXCEPT ![p] = @ + n]
      /\ UNCHANGED <<log, partial>>

Open(p) ==
  /\ pos' = [pos EXCEPT ![p] = 0]
  /\ Returns(p, 0, <<>>)
  /\ UNCHANGED <<log, partial>>

\* llseek and the seek ioctl move one file position and nothing else.
Seek(p) ==
  /\ pos'[p] \in Nat
  /\ pos' = [pos EXCEPT ![p] = pos'[p]]
  /\ ret'.value \in {0, pos'[p]}
  /\ Returns(p, ret'.value, <<>>)
  /\ UNCHANGED <<log, partial>>

\* A call that reports an error has done nothing.
Fail(p) ==
  /\ ret'.value < 0
  /\ Returns(p, ret'.value, <<>>)
  /\ UNCHANGED <<log, partial, pos>>

\* Nor has a write that fails, but the command it would have continued is lost.
LoseCommand(p) ==
  /\ partial' = <<>>
  /\ ret'.value < 0
  /\ Returns(p, ret'.value, <<>>)
  /\ UNCHANGED <<log, pos>>

Close(p) == pos' = [pos EXCEPT ![p] = 0] /\ UNCHANGED <<log, partial, ret>>

\* Unloading the module forgets everything.
Unload == log' = <<>> /\ partial' = <<>> /\ UNCHANGED <<pos, ret>>

\* The seek ioctl when nothing else uses the device: byte off of command cmd,
\* the end of the command included, or an error.
SeekTo(p, cmd, off) ==
  \/ /\ cmd < Len(log) /\ off <= Len(log[cmd + 1])
     /\ pos' = [pos EXCEPT ![p] = Len(FlattenSeq(SubSeq(log, 1, cmd))) + off]
     /\ Returns(p, 0, <<>>)
     /\ UNCHANGED <<log, partial>>
  \/ /\ ~(cmd < Len(log) /\ off <= Len(log[cmd + 1]))
     /\ Returns(p, -22, <<>>)                              \* EINVAL
     /\ UNCHANGED <<log, partial, pos>>

Next ==
  \/ Unload
  \/ \E p \in Proc :
       \/ \E c \in Chunk : Write(p, c)
       \/ \E count \in Count : Read(p, count)
       \/ WriteNothing(p) \/ Open(p) \/ Seek(p) \/ Fail(p) \/ LoseCommand(p) \/ Close(p)

Spec == Init /\ [][Next]_vars
=============================================================================
