---------------------- MODULE CircularBufferOpsProofs ----------------------
(***************************************************************************)
(* Facts about the operators of the circular buffer for every capacity,    *)
(* used by the proofs about the library and about the driver.              *)
(***************************************************************************)
EXTENDS CircularBufferOps, ConcatenationProofs, TLAPS

USE MaxwAssumption, NullAssumption

----------------------------------------------------------------------------
(* Arithmetic of the ring.                                                 *)

(* Incrementing an index modulo MAXW stays in the array, and wraps only    *)
(* from its last slot (the "% AESDCHAR_MAX_WRITE_OPERATIONS_SUPPORTED" of  *)
(* add_entry).                                                             *)
LEMMA Next1Value ==
  ASSUME NEW i \in Slot
  PROVE  /\ Next1(i) \in Slot
         /\ Next1(i) = IF i = MAXW - 1 THEN 0 ELSE i + 1
<1>1. CASE i = MAXW - 1
  BY <1>1 DEF Next1, Slot
<1>2. CASE i # MAXW - 1
  BY <1>2 DEF Next1, Slot
<1>. QED  BY <1>1, <1>2

(* The search index "(out_offs + i) % AESDCHAR_MAX_..." as a case split.   *)
LEMMA WrapValue ==
  ASSUME NEW o \in Slot, NEW i \in 0 .. MAXW
  PROVE  /\ (o + i) % MAXW \in Slot
         /\ (o + i) % MAXW = IF o + i < MAXW THEN o + i ELSE o + i - MAXW
<1>1. CASE o + i < MAXW
  BY <1>1 DEF Slot
<1>2. CASE o + i >= MAXW
  <2>1. (o + i) = MAXW + (o + i - MAXW) /\ o + i - MAXW \in Slot
    BY <1>2 DEF Slot
  <2>. QED  BY <1>2, <2>1 DEF Slot
<1>. QED  BY <1>1, <1>2 DEF Slot

----------------------------------------------------------------------------
(* What add_entry leaves behind, field by field.                           *)

(* The store to out_offs.                                                  *)
LEMMA AdvanceOutFields ==
  ASSUME NEW b \in Buffer
  PROVE  /\ AdvanceOut(b) \in Buffer
         /\ AdvanceOut(b).entry = b.entry
         /\ AdvanceOut(b).in_offs = b.in_offs
         /\ AdvanceOut(b).out_offs = Next1(b.out_offs)
         /\ AdvanceOut(b).full = b.full
<1>1. Next1(b.out_offs) \in Slot
  BY Next1Value DEF Buffer
<1>. QED  BY <1>1 DEF AdvanceOut, Buffer

(* The stores to in_offs and full.                                         *)
LEMMA AdvanceInFields ==
  ASSUME NEW b \in Buffer, NEW o \in BOOLEAN
  PROVE  /\ AdvanceIn(b, o) \in Buffer
         /\ AdvanceIn(b, o).entry = b.entry
         /\ AdvanceIn(b, o).in_offs = Next1(b.in_offs)
         /\ AdvanceIn(b, o).out_offs = b.out_offs
         /\ AdvanceIn(b, o).full =
              IF o THEN b.full
              ELSE IF Next1(b.in_offs) = b.out_offs THEN 1 ELSE 0
<1>1. Next1(b.in_offs) \in Slot
  BY Next1Value DEF Buffer
<1>. QED  BY <1>1 DEF AdvanceIn, Buffer

(* The composition of add_entry's stores: the slot at in_offs holds the    *)
(* new entry, the others are untouched, and the offsets move as the code's *)
(* two branches say.                                                       *)
LEMMA AddEntryFields ==
  ASSUME NEW b \in Buffer, NEW e \in Entry
  PROVE  LET n == aesd_circular_buffer_add_entry(b, e)
         IN  /\ n \in Buffer
             /\ n.entry = [b.entry EXCEPT ![b.in_offs] = e]
             /\ n.in_offs = Next1(b.in_offs)
             /\ n.out_offs = IF Overwriting(b) THEN Next1(b.out_offs)
                             ELSE b.out_offs
             /\ n.full = IF Overwriting(b) THEN b.full
                         ELSE IF Next1(b.in_offs) = b.out_offs THEN 1 ELSE 0
<1> DEFINE n == aesd_circular_buffer_add_entry(b, e)
           s == StoreSize(StoreBuffptr(b, b.in_offs, e), b.in_offs, e)
<1>1. /\ s \in Buffer
      /\ s.entry = [b.entry EXCEPT ![b.in_offs] = e]
      /\ s.in_offs = b.in_offs /\ s.out_offs = b.out_offs /\ s.full = b.full
  <2>1. b.in_offs \in Slot /\ b.entry \in [Slot -> Entry]
    BY DEF Buffer
  <2>2. [b.entry EXCEPT ![b.in_offs] = e] \in [Slot -> Entry]
    BY <2>1
  <2>3. s.entry = [b.entry EXCEPT ![b.in_offs] = e]
    BY <2>1 DEF StoreSize, StoreBuffptr, Buffer, Entry
  <2>. QED  BY <2>1, <2>2, <2>3 DEF StoreSize, StoreBuffptr, Buffer
<1>2. CASE Overwriting(b)
  <2>1. n = AdvanceIn(AdvanceOut(s), TRUE)
    BY <1>2 DEF aesd_circular_buffer_add_entry
  <2>. HIDE DEF s, n
  <2>2. /\ AdvanceOut(s) \in Buffer
        /\ AdvanceOut(s).entry = s.entry
        /\ AdvanceOut(s).in_offs = s.in_offs
        /\ AdvanceOut(s).out_offs = Next1(s.out_offs)
        /\ AdvanceOut(s).full = s.full
    BY <1>1, AdvanceOutFields
  <2>3. /\ n \in Buffer
        /\ n.entry = s.entry
        /\ n.in_offs = Next1(s.in_offs)
        /\ n.out_offs = Next1(s.out_offs)
        /\ n.full = s.full
    BY <2>1, <2>2, AdvanceInFields
  <2>. QED  BY <1>1, <1>2, <2>3 DEF n
<1>3. CASE ~Overwriting(b)
  <2>1. n = AdvanceIn(s, FALSE)
    BY <1>3 DEF aesd_circular_buffer_add_entry
  <2>. HIDE DEF s, n
  <2>2. /\ n \in Buffer
        /\ n.entry = s.entry
        /\ n.in_offs = Next1(s.in_offs)
        /\ n.out_offs = s.out_offs
        /\ n.full = IF Next1(s.in_offs) = s.out_offs THEN 1 ELSE 0
    BY <1>1, <2>1, AdvanceInFields
  <2>. QED  BY <1>1, <1>3, <2>2 DEF n
<1>. QED  BY <1>2, <1>3

(* add_entry keeps the ring in shape when the caller adds a real pointer.  *)
LEMMA AddEntryKeepsRing ==
  ASSUME NEW b \in Buffer, NEW e \in Entry, e.buffptr # NULL, RingShape(b)
  PROVE  RingShape(aesd_circular_buffer_add_entry(b, e))
<1> DEFINE n == aesd_circular_buffer_add_entry(b, e)
<1>1. /\ n \in Buffer
      /\ n.entry = [b.entry EXCEPT ![b.in_offs] = e]
      /\ n.in_offs = Next1(b.in_offs)
      /\ n.out_offs = IF Overwriting(b) THEN Next1(b.out_offs) ELSE b.out_offs
      /\ n.full = IF Overwriting(b) THEN b.full
                  ELSE IF Next1(b.in_offs) = b.out_offs THEN 1 ELSE 0
  BY AddEntryFields
<1>2. \A i \in Slot : Used(n, i) <=> i = b.in_offs \/ Used(b, i)
  BY <1>1 DEF Used, Buffer
<1>3. CASE b.full = 1
  <2>1. Overwriting(b) /\ b.in_offs = b.out_offs
    BY <1>3 DEF RingShape, Overwriting, Used, Buffer
  <2>. QED  BY <1>1, <1>2, <1>3, <2>1 DEF RingShape, Buffer
<1>4. CASE b.full = 0
  <2>1. ~Overwriting(b) /\ b.out_offs = 0
    BY <1>4 DEF RingShape, Overwriting, Used, Buffer, Slot
  <2>2. Next1(b.in_offs) = IF b.in_offs = MAXW - 1 THEN 0 ELSE b.in_offs + 1
    BY Next1Value DEF Buffer
  <2>. QED  BY <1>1, <1>2, <1>4, <2>1, <2>2 DEF RingShape, Buffer, Slot
<1>. QED  BY <1>3, <1>4 DEF Buffer

----------------------------------------------------------------------------
(* find_entry_offset_for_fpos: the running sum and the first hit.          *)

(* What iteration i of the search adds to char_offset_bytes.               *)
EntryBytes(b, i) == IF b.entry[SlotAt(b, i)].buffptr = NULL THEN 0
                    ELSE b.entry[SlotAt(b, i)].size

(* Every iteration of the search looks at a slot of the array.             *)
LEMMA SearchSlots ==
  ASSUME NEW b \in Buffer, NEW i \in 0 .. MAXW
  PROVE  /\ SlotAt(b, i) \in Slot
         /\ b.entry[SlotAt(b, i)] \in Entry
         /\ b.entry[SlotAt(b, i)].size \in Nat
         /\ EntryBytes(b, i) \in Nat
<1>1. SlotAt(b, i) \in Slot
  BY WrapValue DEF SlotAt, Buffer
<1>2. b.entry[SlotAt(b, i)] \in Entry
  BY <1>1 DEF Buffer
<1>. QED  BY <1>1, <1>2 DEF Entry, EntryBytes

(* char_offset_bytes is the sum of the sizes of the entries passed so far, *)
(* whatever the capacity: the recursion has a solution.                    *)
LEMMA CharOffsetBytesSteps ==
  ASSUME NEW b \in Buffer
  PROVE  /\ CharOffsetBytes(b)[0] = 0
         /\ \A i \in 0 .. MAXW - 1 :
              CharOffsetBytes(b)[i + 1] = CharOffsetBytes(b)[i] + EntryBytes(b, i)
         /\ \A i \in 0 .. MAXW : CharOffsetBytes(b)[i] \in Nat
<1> DEFINE Solves(f, m) ==
             f = [i \in 0 .. m |-> IF i = 0 THEN 0
                                   ELSE f[i - 1] + EntryBytes(b, i - 1)]
           T == {m \in Nat : \E f : Solves(f, m)}
           sum == CharOffsetBytes(b)
<1>1. 0 \in T
  <2>1. Solves([i \in 0 .. 0 |-> 0], 0)
    OBVIOUS
  <2>. QED  BY <2>1
<1>2. ASSUME NEW m \in Nat, m \in T PROVE m + 1 \in T
  <2>1. PICK f : Solves(f, m)
    BY <1>2
  <2> DEFINE g == [i \in 0 .. m + 1 |->
                     IF i <= m THEN f[i] ELSE f[m] + EntryBytes(b, m)]
  <2>2. \A i \in 0 .. m + 1 :
          g[i] = IF i = 0 THEN 0 ELSE g[i - 1] + EntryBytes(b, i - 1)
    <3> TAKE i \in 0 .. m + 1
    <3>1. CASE i <= m
      <4>1. i \in 0 .. m /\ (i # 0 => i - 1 \in 0 .. m + 1 /\ i - 1 <= m)
        BY <3>1
      <4>2. \A j \in 0 .. m : f[j] = IF j = 0 THEN 0
                                     ELSE f[j - 1] + EntryBytes(b, j - 1)
        BY <2>1, Zenon
      <4>3. g[i] = f[i] /\ (i # 0 => g[i - 1] = f[i - 1])
        BY <3>1, <4>1
      <4>. HIDE DEF g
      <4>. QED  BY <4>1, <4>2, <4>3
    <3>2. CASE i = m + 1
      <4>1. i # 0 /\ i - 1 = m /\ ~(i <= m) /\ m \in 0 .. m + 1
        BY <3>2
      <4>2. g[i] = f[m] + EntryBytes(b, m) /\ g[m] = f[m]
        BY <4>1
      <4>. HIDE DEF g
      <4>. QED  BY <4>1, <4>2
    <3>. QED  BY <3>1, <3>2
  <2>3. Solves(g, m + 1)
    <3>1. g = [i \in 0 .. m + 1 |-> g[i]]
      OBVIOUS
    <3>. HIDE DEF g
    <3>. QED  BY <2>2, <3>1
  <2>. HIDE DEF Solves
  <2>. QED  BY <2>3
<1>3. \E f : Solves(f, MAXW)
  <2>. HIDE DEF Solves
  <2>. QED  BY <1>1, <1>2, SetInduction
<1>4. Solves(sum, MAXW)
  <2>1. sum = CHOOSE f : Solves(f, MAXW)
    BY DEF CharOffsetBytes, EntryBytes
  <2>. HIDE DEF sum, Solves
  <2>. QED  BY <1>3, <2>1
<1>5. \A i \in 0 .. MAXW :
        sum[i] = IF i = 0 THEN 0 ELSE sum[i - 1] + EntryBytes(b, i - 1)
  <2>. HIDE DEF sum
  <2>. QED  BY <1>4
<1>. HIDE DEF sum
<1>6. sum[0] = 0
  BY <1>5
<1>7. \A i \in 0 .. MAXW - 1 : sum[i + 1] = sum[i] + EntryBytes(b, i)
  <2> TAKE i \in 0 .. MAXW - 1
  <2>1. i + 1 \in 0 .. MAXW /\ i + 1 # 0 /\ (i + 1) - 1 = i
    OBVIOUS
  <2>. QED  BY <1>5, <2>1
<1>8. \A i \in 0 .. MAXW : sum[i] \in Nat
  <2> DEFINE N == {m \in Nat : m <= MAXW => sum[m] \in Nat}
  <2>1. 0 \in N
    BY <1>6
  <2>2. ASSUME NEW m \in Nat, m \in N PROVE m + 1 \in N
    <3> SUFFICES ASSUME m + 1 <= MAXW PROVE sum[m + 1] \in Nat
      OBVIOUS
    <3>1. m \in 0 .. MAXW - 1 /\ m \in 0 .. MAXW
      OBVIOUS
    <3>2. sum[m] \in Nat /\ EntryBytes(b, m) \in Nat
      BY <2>2, <3>1, SearchSlots
    <3>. QED  BY <1>7, <3>1, <3>2
  <2>3. Nat \subseteq N
    <3>. HIDE DEF N
    <3>. QED  BY <2>1, <2>2, SetInduction
  <2>. QED  BY <2>3
<1>. QED  BY <1>6, <1>7, <1>8 DEF sum

(* The search stops at the entry that holds the character, or passes over  *)
(* every character of the buffer.                                          *)
LEMMA FindStops ==
  ASSUME NEW b \in Buffer, NEW off \in Nat
  PROVE  LET found == aesd_circular_buffer_find_entry_offset_for_fpos(b, off)
             sum   == CharOffsetBytes(b)
         IN  \/ found = NotFound /\ sum[MAXW] <= off
             \/ \E i \in Slot :
                  /\ b.entry[SlotAt(b, i)].buffptr # NULL
                  /\ sum[i] <= off
                  /\ off < sum[i] + b.entry[SlotAt(b, i)].size
                  /\ found = [slot |-> SlotAt(b, i), offset |-> off - sum[i]]
<1> DEFINE found == aesd_circular_buffer_find_entry_offset_for_fpos(b, off)
           sum   == CharOffsetBytes(b)
           hits  == {i \in Slot :
                       /\ b.entry[SlotAt(b, i)].buffptr # NULL
                       /\ sum[i] + b.entry[SlotAt(b, i)].size > off}
<1>1. /\ sum[0] = 0
      /\ \A i \in 0 .. MAXW - 1 : sum[i + 1] = sum[i] + EntryBytes(b, i)
      /\ \A i \in 0 .. MAXW : sum[i] \in Nat
  BY CharOffsetBytesSteps
<1>2. found = IF hits = {} THEN NotFound
              ELSE LET i == CHOOSE i \in hits : \A j \in hits : i <= j
                   IN  [slot |-> SlotAt(b, i), offset |-> off - sum[i]]
  BY DEF aesd_circular_buffer_find_entry_offset_for_fpos
<1>. HIDE DEF sum, found
<1>3. ASSUME NEW k \in 0 .. MAXW, \A j \in hits : k <= j
      PROVE  sum[k] <= off
  <2> DEFINE N == {m \in Nat : m <= k => sum[m] <= off}
  <2>1. 0 \in N
    BY <1>1
  <2>2. ASSUME NEW m \in Nat, m \in N PROVE m + 1 \in N
    <3> SUFFICES ASSUME m + 1 <= k PROVE sum[m + 1] <= off
      OBVIOUS
    <3>1. m \in 0 .. MAXW - 1 /\ m \in 0 .. MAXW /\ m \in Slot /\ ~(k <= m)
      BY DEF Slot
    <3>2. m \notin hits
      BY <1>3, <3>1
    <3>3. sum[m] \in Nat /\ sum[m] <= off
      BY <1>1, <2>2, <3>1
    <3>4. b.entry[SlotAt(b, m)].size \in Nat
      BY <3>1, SearchSlots
    <3>5. sum[m] + EntryBytes(b, m) <= off
      BY <3>1, <3>2, <3>3, <3>4 DEF EntryBytes
    <3>. QED  BY <1>1, <3>1, <3>5
  <2>3. Nat \subseteq N
    <3>. HIDE DEF N
    <3>. QED  BY <2>1, <2>2, SetInduction
  <2>4. k \in Nat /\ k <= k
    OBVIOUS
  <2>. QED  BY <2>3, <2>4
<1>4. CASE hits = {}
  <2>1. MAXW \in 0 .. MAXW
    OBVIOUS
  <2>2. sum[MAXW] <= off
    BY <1>3, <1>4, <2>1
  <2>. QED  BY <1>2, <1>4, <2>2 DEF sum, found
<1>5. CASE hits # {}
  <2> DEFINE i == CHOOSE i \in hits : \A j \in hits : i <= j
  <2>1. hits \subseteq Nat
    BY DEF Slot
  <2>2. \E x \in hits : \A j \in hits : x <= j
    <3>. HIDE DEF hits
    <3>. QED  BY <1>5, <2>1, LeastNatural
  <2>3. i \in hits /\ \A j \in hits : i <= j
    <3>. HIDE DEF hits
    <3>. QED  BY <2>2
  <2>4. found = [slot |-> SlotAt(b, i), offset |-> off - sum[i]]
    BY <1>2, <1>5
  <2>. HIDE DEF i
  <2>5. i \in Slot /\ i \in 0 .. MAXW
    BY <2>3 DEF Slot
  <2>6. sum[i] <= off
    BY <1>3, <2>3, <2>5
  <2>7. b.entry[SlotAt(b, i)].buffptr # NULL
    BY <2>3
  <2>8. off < sum[i] + b.entry[SlotAt(b, i)].size
    <3>1. sum[i] \in Nat /\ b.entry[SlotAt(b, i)].size \in Nat
      BY <1>1, <2>5, SearchSlots
    <3>. QED  BY <2>3, <3>1
  <2>. QED  BY <2>4, <2>5, <2>6, <2>7, <2>8 DEF sum, found
<1>. QED  BY <1>4, <1>5
=============================================================================
