--------------------------- MODULE CircularBuffer ---------------------------
(***************************************************************************)
(* The circular buffer library on its own, as its unit tests drive it: a   *)
(* caller initialises a buffer and adds entries to it in any sequence.     *)
(* find_entry_offset_for_fpos changes nothing, so it is not a step: the    *)
(* invariants evaluate it in every reachable buffer.                       *)
(***************************************************************************)
EXTENDS CircularBufferOps, Sequences, SequencesExt

CONSTANTS Size      \* entry sizes a caller may use

ASSUME SizeAssumption == Size \subseteq Nat

VARIABLES
  buffer,           \* struct aesd_circular_buffer
  returned          \* what the last add_entry returned

vars == <<buffer, returned>>

AddEntryArg == [buffptr : Ptr, size : Size]

Init ==
  /\ buffer = aesd_circular_buffer_init
  /\ returned = NULL

Reinit ==
  /\ buffer' = aesd_circular_buffer_init
  /\ UNCHANGED returned

AddEntry(e) ==
  /\ buffer' = aesd_circular_buffer_add_entry(buffer, e)
  /\ returned' = ReplacedBuffptr(buffer)

Next == Reinit \/ \E e \in AddEntryArg : AddEntry(e)

Spec == Init /\ [][Next]_vars

----------------------------------------------------------------------------
(* Every variable has its C type; in_offs and out_offs stay inside the     *)
(* array although they are only ever incremented modulo its size.          *)
TypeOK ==
  /\ buffer \in Buffer
  /\ returned \in Ptr \cup {NULL}

(* in_offs, out_offs, full and the null pointers agree: "full" is "set to  *)
(* true when the buffer entry structure is full" and the used slots are    *)
(* exactly the window that starts at out_offs.                             *)
Ring == RingShape(buffer)

(* The reference for find: lay the entries end to end, oldest first, as    *)
(* one list with a [slot, offset] element per character, and index it.     *)
Characters(b) ==
  FlattenSeq([i \in 1 .. MAXW |->
     LET s == SlotAt(b, i - 1)
     IN  IF b.entry[s].buffptr = NULL THEN <<>>
         ELSE [k \in 1 .. b.entry[s].size |-> [slot |-> s, offset |-> k - 1]]])

(* find_entry_offset_for_fpos returns the entry and the byte that hold the *)
(* character char_offset "if all buffer strings were concatenated end to   *)
(* end", and nothing past the last character.                              *)
FindMatchesConcatenation ==
  LET chars == Characters(buffer)
  IN  \A off \in 0 .. Len(chars) + 1 :
        aesd_circular_buffer_find_entry_offset_for_fpos(buffer, off) =
          IF off < Len(chars) THEN chars[off + 1] ELSE NotFound

(* The buffer behaves as the log of the last MAXW entries, and add_entry   *)
(* hands back the pointer of exactly the entry that left the log.          *)
Recent == INSTANCE RecentLog
            WITH Item <- AddEntryArg, Capacity <- MAXW, None <- NULL,
                 log <- LogOf(buffer), dropped <- returned

RecentSpec == Recent!Spec
=============================================================================
