----------------------------- MODULE RecvDynamic -----------------------------
(***************************************************************************)
(* recv_dynamic of server/aesdsocket.c on its own: one thread collects one *)
(* line from a non-blocking socket into a block it grows as it goes, while *)
(* main may set ShutdownNow.  The bytes are abstracted to their positions: *)
(* the block's size, the index where the next chunk goes and the highest   *)
(* index written so far.                                                   *)
(***************************************************************************)
EXTENDS Integers

CONSTANTS
  MAX_BUF_SIZE,   \* size of chunk, and of the first block
  Arriving,       \* numbers of bytes that may be waiting in the socket
  MaxBytes        \* bound: bytes a client sends without a newline

ASSUME BufAssumption == MAX_BUF_SIZE \in Nat \ {0}
ASSUME ArrivingAssumption == Arriving \subseteq Nat \ {0} /\ MaxBytes \in Nat

VARIABLES
  ShutdownNow,
  pc,          \* "loop" (top of the while), "recv", "line" or "null" (returned)
  p,           \* size of the block malloc or realloc returned last
  pos,         \* bytes collected
  copied,      \* highest index memcpy has written, -1 at first
  terminator   \* index of the terminating 0, -1 until it is written

vars == <<ShutdownNow, pc, p, pos, copied, terminator>>

Init ==
  /\ ShutdownNow = FALSE
  /\ pc = "loop"
  /\ p = MAX_BUF_SIZE
  /\ pos = 0
  /\ copied = -1
  /\ terminator = -1

\* signal_handler, in main's thread.
signal_handler ==
  /\ ShutdownNow' = TRUE
  /\ UNCHANGED <<pc, p, pos, copied, terminator>>

\* A slip: the loop does not look at the flag.
IgnoreShutdown ==
  /\ pc = "loop"
  /\ pc' = "recv"
  /\ UNCHANGED <<ShutdownNow, p, pos, copied, terminator>>

CheckShutdown ==
  /\ pc = "loop"
  /\ pc' = IF ShutdownNow THEN "null" ELSE "recv"
  /\ UNCHANGED <<ShutdownNow, p, pos, copied, terminator>>

\* recv had nothing (EAGAIN, and a pause) or the client has closed its side
\* (0 bytes, and no pause).
RecvNothing ==
  /\ pc = "recv"
  /\ pc' = "loop"
  /\ UNCHANGED <<ShutdownNow, p, pos, copied, terminator>>

RecvError ==
  /\ pc = "recv"
  /\ pc' = "null"
  /\ UNCHANGED <<ShutdownNow, p, pos, copied, terminator>>

\* recv takes at most a chunk.
Received(n) == IF n > MAX_BUF_SIZE THEN MAX_BUF_SIZE ELSE n

\* A slip: the block grows to what it holds, with no room for the next chunk.
GrowToPosition(n) == pos + n

\* The size realloc is asked for: pos is updated first.
Grown(n) == pos + n + 2 * MAX_BUF_SIZE

RecvPart(n) ==
  /\ pc = "recv"
  /\ pos + n <= MaxBytes
  /\ copied' = pos + n - 1
  /\ pos' = pos + n
  /\ p' = Grown(n)
  /\ pc' = "loop"
  /\ UNCHANGED <<ShutdownNow, terminator>>

\* The chunk ends with a newline.
RecvLine(n) ==
  /\ pc = "recv"
  /\ copied' = pos + n - 1
  /\ terminator' = pos + n
  /\ pc' = "line"
  /\ UNCHANGED <<ShutdownNow, p, pos>>

ThreadStep ==
  \/ CheckShutdown \/ RecvNothing \/ RecvError
  \/ \E n \in Arriving : RecvPart(Received(n)) \/ RecvLine(Received(n))

Next == signal_handler \/ ThreadStep

Spec == Init /\ [][Next]_vars

\* The thread is scheduled, and a non-blocking recv always returns.
FairSpec == Spec /\ WF_vars(ThreadStep)

----------------------------------------------------------------------------
(* The block's size and the indices are what the two branches leave: the   *)
(* first block while nothing was collected, room for two chunks after.     *)
TypeOK ==
  /\ ShutdownNow \in BOOLEAN
  /\ pc \in {"loop", "recv", "line", "null"}
  /\ pos \in Nat
  /\ p = IF pos = 0 THEN MAX_BUF_SIZE ELSE pos + 2 * MAX_BUF_SIZE
  /\ copied \in Int /\ terminator \in Int

(* However the line is cut into chunks, memcpy never writes outside the    *)
(* block: the room left by the last realloc is enough for the next chunk.  *)
CopyStaysInBlock == copied < p

(* "Null terminate the string.": the terminator goes into the block too,   *)
(* with one exception.  A line of exactly MAX_BUF_SIZE bytes that arrives  *)
(* in one piece fills the first block, and its terminator is written one   *)
(* byte past the end.                                                      *)
TerminatorInBlock ==
  terminator >= p => pos = 0 /\ p = MAX_BUF_SIZE /\ terminator = MAX_BUF_SIZE

(* After ShutdownNow the thread leaves the loop, whatever its client does. *)
LeavesOnShutdown == ShutdownNow ~> (pc \in {"line", "null"})
=============================================================================
