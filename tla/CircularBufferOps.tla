------------------------- MODULE CircularBufferOps -------------------------
(***************************************************************************)
(* The data type of aesd-char-driver/aesd-circular-buffer.[ch] as          *)
(* operators on a record with the fields of struct aesd_circular_buffer.   *)
(* Both the stand-alone library (CircularBuffer) and the character driver  *)
(* (AesdChar) use these definitions.                                       *)
(*                                                                         *)
(* add_entry is written as the composition of its stores, because the      *)
(* driver's llseek and ioctl read the structure without the lock and can   *)
(* run between any two of them.                                            *)
(***************************************************************************)
EXTENDS Integers

CONSTANTS
  MAXW,     \* AESDCHAR_MAX_WRITE_OPERATIONS_SUPPORTED
  Ptr,      \* addresses a buffptr can hold
  NULL      \* the null pointer

ASSUME MaxwAssumption == MAXW \in Nat \ {0}
ASSUME NullAssumption == NULL \notin Ptr

Slot == 0 .. MAXW - 1

\* A slot stands for the address of its entry where a function returns one.
ASSUME SlotAssumption == NULL \notin Slot

Entry == [buffptr : Ptr \cup {NULL}, size : Nat]      \* aesd_buffer_entry

Buffer == [entry : [Slot -> Entry], in_offs : Slot, out_offs : Slot,
           full : {0, 1}]                             \* aesd_circular_buffer

\* memset(buffer, 0, sizeof(struct aesd_circular_buffer))
aesd_circular_buffer_init ==
  [entry    |-> [i \in Slot |-> [buffptr |-> NULL, size |-> 0]],
   in_offs  |-> 0,
   out_offs |-> 0,
   full     |-> 0]

----------------------------------------------------------------------------
(* aesd_circular_buffer_add_entry: the stores it makes, then the call.     *)

Next1(i) == (i + 1) % MAXW

\* The test on line 70: is the slot at in_offs still in use?
Overwriting(b) == b.entry[b.in_offs].buffptr # NULL

StoreBuffptr(b, slot, e) == [b EXCEPT !.entry[slot].buffptr = e.buffptr]

StoreSize(b, slot, e) == [b EXCEPT !.entry[slot].size = e.size]

AdvanceOut(b) == [b EXCEPT !.out_offs = Next1(b.out_offs)]

\* Slips the properties must notice: the index runs off the array; full is
\* cleared by an overwrite.
AdvanceInNoWrap(b, overwriting) == [b EXCEPT !.in_offs = @ + 1]

AdvanceInClearsFull(b, overwriting) ==
  [b EXCEPT !.in_offs = Next1(@),
            !.full    = IF ~overwriting /\ Next1(b.in_offs) = b.out_offs THEN 1 ELSE 0]

\* in_offs moves in both branches; only the branch that filled a free slot
\* assigns full.
AdvanceIn(b, overwriting) ==
  [b EXCEPT !.in_offs = Next1(b.in_offs),
            !.full    = IF overwriting THEN b.full
                        ELSE IF Next1(b.in_offs) = b.out_offs THEN 1 ELSE 0]

aesd_circular_buffer_add_entry(b, e) ==
  LET stored == StoreSize(StoreBuffptr(b, b.in_offs, e), b.in_offs, e)
  IN  IF Overwriting(b)
      THEN AdvanceIn(AdvanceOut(stored), TRUE)
      ELSE AdvanceIn(stored, FALSE)

\* A slip: out_offs is read after it has moved.
ReplacedAfterAdvance(b) ==
  IF Overwriting(b) THEN b.entry[Next1(b.out_offs)].buffptr ELSE NULL

\* The pointer the call returns for its caller to free.
ReplacedBuffptr(b) ==
  IF Overwriting(b) THEN b.entry[b.out_offs].buffptr ELSE NULL

----------------------------------------------------------------------------
(* aesd_circular_buffer_find_entry_offset_for_fpos.                        *)

\* Index of the i-th slot of the search, which starts at out_offs.
SlotAt(b, i) == (b.out_offs + i) % MAXW

\* char_offset_bytes at the start of iteration i: NULL entries are skipped.
CharOffsetBytes(b) ==
  LET sum[i \in 0 .. MAXW] ==
        IF i = 0 THEN 0
        ELSE sum[i - 1] +
             (IF b.entry[SlotAt(b, i - 1)].buffptr = NULL THEN 0
              ELSE b.entry[SlotAt(b, i - 1)].size)
  IN  sum

NotFound == [slot |-> NULL, offset |-> 0]

\* A slip: >= for > in the test that ends the search.
FindOffByOne(b, char_offset) ==
  LET sum  == CharOffsetBytes(b)
      hits == {i \in Slot : sum[i] + b.entry[SlotAt(b, i)].size >= char_offset}
  IN  IF hits = {} THEN NotFound
      ELSE LET i == CHOOSE i \in hits : \A j \in hits : i <= j
           IN  [slot |-> SlotAt(b, i), offset |-> char_offset - sum[i]]

\* The first iteration whose entry ends after char_offset breaks the loop.
aesd_circular_buffer_find_entry_offset_for_fpos(b, char_offset) ==
  LET sum  == CharOffsetBytes(b)
      hits == {i \in Slot :
                 /\ b.entry[SlotAt(b, i)].buffptr # NULL
                 /\ sum[i] + b.entry[SlotAt(b, i)].size > char_offset}
  IN  IF hits = {} THEN NotFound
      ELSE LET i == CHOOSE i \in hits : \A j \in hits : i <= j
           IN  [slot |-> SlotAt(b, i), offset |-> char_offset - sum[i]]

----------------------------------------------------------------------------
(* The shape of a buffer that only add_entry has modified: entries leave   *)
(* only by being overwritten, so until the buffer is full the entries are  *)
(* the slots below in_offs, and from then on every slot is used and        *)
(* in_offs and out_offs move together.                                     *)
Used(b, i) == b.entry[i].buffptr # NULL

RingShape(b) ==
  /\ b.full = 1 => b.in_offs = b.out_offs /\ \A i \in Slot : Used(b, i)
  /\ b.full = 0 => /\ b.out_offs = 0
                   /\ \A i \in Slot : Used(b, i) <=> i < b.in_offs

\* The entries from the oldest to the newest.
LogLen(b) == IF b.full = 1 THEN MAXW ELSE b.in_offs
LogOf(b) == [i \in 1 .. LogLen(b) |-> b.entry[SlotAt(b, i - 1)]]
=============================================================================
