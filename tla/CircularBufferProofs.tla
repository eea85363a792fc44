------------------------ MODULE CircularBufferProofs ------------------------
(***************************************************************************)
(* Theorems about the circular buffer library for every capacity, every    *)
(* set of pointers and every set of sizes.                                 *)
(***************************************************************************)
EXTENDS CircularBuffer, CircularBufferOpsProofs, SequenceTheorems, TLAPS

USE MaxwAssumption, NullAssumption

----------------------------------------------------------------------------
(* The inductive invariant is the type and the shape of the ring.          *)
IInv == TypeOK /\ Ring

(* A buffer fresh from aesd_circular_buffer_init satisfies it.              *)
LEMMA InitIInv == Init => IInv
BY DEF Init, IInv, TypeOK, Ring, RingShape, Used, Buffer, Entry, Slot,
       aesd_circular_buffer_init

(* Neither a new initialisation nor add_entry breaks it.                    *)
LEMMA NextIInv == IInv /\ [Next]_vars => IInv'
<1> SUFFICES ASSUME IInv, [Next]_vars PROVE IInv'
  OBVIOUS
<1>1. CASE Reinit
  BY <1>1 DEF Reinit, IInv, TypeOK, Ring, RingShape, Used, Buffer, Entry,
              Slot, aesd_circular_buffer_init
<1>2. ASSUME NEW e \in AddEntryArg, AddEntry(e)
      PROVE  IInv'
  <2>1. e \in Entry /\ e.buffptr # NULL
    BY SizeAssumption DEF AddEntryArg, Entry
  <2>2. buffer \in Buffer /\ RingShape(buffer)
    BY DEF IInv, TypeOK, Ring
  <2>3. buffer' \in Buffer
    BY <1>2, <2>1, <2>2, AddEntryFields DEF AddEntry
  <2>4. RingShape(buffer)'
    BY <1>2, <2>1, <2>2, AddEntryKeepsRing DEF AddEntry, RingShape, Used
  <2>5. returned' \in Ptr \cup {NULL}
    BY <1>2, <2>2 DEF AddEntry, ReplacedBuffptr, Buffer, Entry
  <2>. QED  BY <2>3, <2>4, <2>5 DEF IInv, TypeOK, Ring
<1>3. CASE UNCHANGED vars
  BY <1>3 DEF vars, IInv, TypeOK, Ring, RingShape, Used
<1>. QED  BY <1>1, <1>2, <1>3 DEF Next

(* In every execution the offsets stay in the array, the full flag is      *)
(* exact and the used slots form the window that starts at out_offs.       *)
THEOREM RingAlways == Spec => []Ring
<1>1. IInv => Ring
  BY DEF IInv
<1>. QED  BY InitIInv, NextIInv, <1>1, PTL DEF Spec

(* Type correctness of the library's state.                                *)
THEOREM TypeAlways == Spec => []TypeOK
<1>1. IInv => TypeOK
  BY DEF IInv
<1>. QED  BY InitIInv, NextIInv, <1>1, PTL DEF Spec

----------------------------------------------------------------------------
(* The library implements the log of the last MAXW entries.                *)

(* The entries in age order form a sequence of at most MAXW entries.       *)
LEMMA LogOfType ==
  ASSUME NEW b \in Buffer
  PROVE  /\ LogLen(b) \in 0 .. MAXW
         /\ LogOf(b) \in Seq(Entry)
         /\ Len(LogOf(b)) = LogLen(b)
         /\ \A i \in 1 .. LogLen(b) : LogOf(b)[i] = b.entry[SlotAt(b, i - 1)]
<1>1. LogLen(b) \in 0 .. MAXW
  BY DEF LogLen, Buffer, Slot
<1>2. \A i \in 1 .. LogLen(b) : SlotAt(b, i - 1) \in Slot
  <2> SUFFICES ASSUME NEW i \in 1 .. LogLen(b) PROVE SlotAt(b, i - 1) \in Slot
    OBVIOUS
  <2>1. b.out_offs \in Slot /\ i - 1 \in 0 .. MAXW
    BY <1>1 DEF Buffer
  <2>. QED  BY <2>1, WrapValue DEF SlotAt
<1>3. \A i \in 1 .. LogLen(b) : b.entry[SlotAt(b, i - 1)] \in Entry
  BY <1>2 DEF Buffer
<1>4. LogLen(b) \in Nat
  BY <1>1
<1>5. LogOf(b) \in Seq(Entry)
  BY <1>3, <1>4, IsASeq DEF LogOf
<1>6. Len(LogOf(b)) = LogLen(b)
  BY <1>4, <1>5, LenProperties DEF LogOf
<1>. QED  BY <1>1, <1>5, <1>6 DEF LogOf

(* add_entry pushes the entry onto the log: it appends while a slot is     *)
(* free, and drops the oldest entry otherwise.                             *)
LEMMA AddEntryPushes ==
  ASSUME NEW b \in Buffer, NEW e \in Entry, e.buffptr # NULL, RingShape(b)
  PROVE  LogOf(aesd_circular_buffer_add_entry(b, e)) = Recent!Push(LogOf(b), e)
<1> DEFINE n == aesd_circular_buffer_add_entry(b, e)
           l == LogOf(b)
<1>1. /\ n \in Buffer
      /\ n.entry = [b.entry EXCEPT ![b.in_offs] = e]
      /\ n.in_offs = Next1(b.in_offs)
      /\ n.out_offs = IF Overwriting(b) THEN Next1(b.out_offs) ELSE b.out_offs
      /\ n.full = IF Overwriting(b) THEN b.full
                  ELSE IF Next1(b.in_offs) = b.out_offs THEN 1 ELSE 0
  BY AddEntryFields
<1>2. /\ l \in Seq(Entry)
      /\ Len(l) = LogLen(b)
      /\ LogLen(b) \in 0 .. MAXW
      /\ \A i \in 1 .. LogLen(b) : l[i] = b.entry[SlotAt(b, i - 1)]
  BY LogOfType
<1>3. /\ LogOf(n) \in Seq(Entry)
      /\ Len(LogOf(n)) = LogLen(n)
      /\ \A i \in 1 .. LogLen(n) : LogOf(n)[i] = n.entry[SlotAt(n, i - 1)]
  BY <1>1, LogOfType
<1>4. /\ b.in_offs \in Slot /\ b.out_offs \in Slot
      /\ b.entry \in [Slot -> Entry]
  BY DEF Buffer
<1> HIDE DEF n, l
<1>5. CASE b.full = 0
  <2>1. ~Overwriting(b) /\ b.out_offs = 0
    BY <1>5 DEF RingShape, Overwriting, Used, Buffer, Slot
  <2>2. LogLen(b) = b.in_offs /\ LogLen(n) = b.in_offs + 1 /\ n.out_offs = 0
    BY <1>1, <1>4, <1>5, <2>1, Next1Value DEF LogLen, Slot
  <2>3. \A i \in 1 .. b.in_offs + 1 : SlotAt(n, i - 1) = i - 1
    BY <1>4, <2>2 DEF SlotAt, Slot
  <2>4. \A i \in 1 .. b.in_offs : SlotAt(b, i - 1) = i - 1
    BY <1>4, <2>1 DEF SlotAt, Slot
  <2>5. Append(l, e) \in Seq(Entry) /\ Len(Append(l, e)) = b.in_offs + 1
    BY <1>2, <2>2, AppendProperties
  <2>6. \A i \in 1 .. b.in_offs + 1 : LogOf(n)[i] = Append(l, e)[i]
    <3> SUFFICES ASSUME NEW i \in 1 .. b.in_offs + 1
                 PROVE  LogOf(n)[i] = Append(l, e)[i]
      OBVIOUS
    <3>1. LogOf(n)[i] = n.entry[i - 1]
      BY <1>3, <2>2, <2>3
    <3>2. CASE i = b.in_offs + 1
      BY <1>1, <1>2, <1>4, <2>2, <3>1, <3>2, AppendProperties DEF Slot
    <3>3. CASE i # b.in_offs + 1
      <4>1. i \in 1 .. b.in_offs /\ i - 1 # b.in_offs /\ i - 1 \in Slot
        BY <1>4, <3>3 DEF Slot
      <4>2. Append(l, e)[i] = b.entry[i - 1]
        BY <1>2, <2>2, <2>4, <4>1, AppendProperties
      <4>. QED  BY <1>1, <1>4, <3>1, <4>1, <4>2
    <3>. QED  BY <3>2, <3>3
  <2>7. LogOf(n) = Append(l, e)
    BY <1>3, <2>2, <2>5, <2>6, SeqEqual
  <2>. QED  BY <1>2, <1>4, <2>2, <2>7 DEF Recent!Push, n, l, Slot
<1>6. CASE b.full = 1
  <2>1. Overwriting(b) /\ b.in_offs = b.out_offs
    BY <1>6 DEF RingShape, Overwriting, Used, Buffer
  <2>2. LogLen(b) = MAXW /\ LogLen(n) = MAXW /\ n.out_offs = Next1(b.out_offs)
    BY <1>1, <1>6, <2>1 DEF LogLen
  <2>3. \A i \in 1 .. MAXW :
          SlotAt(n, i - 1) = IF i = MAXW THEN b.out_offs ELSE SlotAt(b, i)
    <3> SUFFICES ASSUME NEW i \in 1 .. MAXW
                 PROVE  SlotAt(n, i - 1) =
                          IF i = MAXW THEN b.out_offs ELSE SlotAt(b, i)
      OBVIOUS
    <3>1. n.out_offs = IF b.out_offs = MAXW - 1 THEN 0 ELSE b.out_offs + 1
      BY <1>4, <2>2, Next1Value
    <3>2. n.out_offs \in Slot
      BY <1>4, <2>2, Next1Value
    <3>3. SlotAt(n, i - 1) = IF n.out_offs + i - 1 < MAXW
                             THEN n.out_offs + i - 1
                             ELSE n.out_offs + i - 1 - MAXW
      <4>1. i - 1 \in 0 .. MAXW
        OBVIOUS
      <4>2. SlotAt(n, i - 1) = IF n.out_offs + (i - 1) < MAXW
                               THEN n.out_offs + (i - 1)
                               ELSE n.out_offs + (i - 1) - MAXW
        BY <3>2, <4>1, WrapValue DEF SlotAt
      <4>. QED  BY <3>2, <4>2 DEF Slot
    <3>4. SlotAt(b, i) = IF b.out_offs + i < MAXW THEN b.out_offs + i
                         ELSE b.out_offs + i - MAXW
      BY <1>4, WrapValue DEF SlotAt
    <3>. QED  BY <1>4, <3>1, <3>3, <3>4 DEF Slot
  <2>4. \A i \in 1 .. MAXW - 1 : SlotAt(b, i) \in Slot /\ SlotAt(b, i) # b.out_offs
    <3> SUFFICES ASSUME NEW i \in 1 .. MAXW - 1
                 PROVE  SlotAt(b, i) \in Slot /\ SlotAt(b, i) # b.out_offs
      OBVIOUS
    <3>1. i \in 0 .. MAXW
      OBVIOUS
    <3>2. /\ SlotAt(b, i) \in Slot
          /\ SlotAt(b, i) = IF b.out_offs + i < MAXW THEN b.out_offs + i
                            ELSE b.out_offs + i - MAXW
      BY <1>4, <3>1, WrapValue DEF SlotAt
    <3>. QED  BY <1>4, <3>2 DEF Slot
  <2>5. l # << >> /\ Tail(l) \in Seq(Entry) /\ Len(Tail(l)) = MAXW - 1
    BY <1>2, <2>2
  <2>6. \A i \in 1 .. MAXW - 1 : Tail(l)[i] = b.entry[SlotAt(b, i)]
    <3> SUFFICES ASSUME NEW i \in 1 .. MAXW - 1
                 PROVE  Tail(l)[i] = b.entry[SlotAt(b, i)]
      OBVIOUS
    <3>1. Tail(l)[i] = l[i + 1]
      BY <1>2, <2>2, <2>5
    <3>2. i + 1 \in 1 .. LogLen(b) /\ (i + 1) - 1 = i
      BY <2>2
    <3>. QED  BY <1>2, <3>1, <3>2
  <2>7. /\ Append(Tail(l), e) \in Seq(Entry)
        /\ Len(Append(Tail(l), e)) = MAXW
    BY <2>5, AppendProperties
  <2>8. \A i \in 1 .. MAXW : LogOf(n)[i] = Append(Tail(l), e)[i]
    <3> SUFFICES ASSUME NEW i \in 1 .. MAXW
                 PROVE  LogOf(n)[i] = Append(Tail(l), e)[i]
      OBVIOUS
    <3>1. LogOf(n)[i] = n.entry[SlotAt(n, i - 1)]
      BY <1>3, <2>2
    <3>2. CASE i = MAXW
      <4>1. Append(Tail(l), e)[i] = e
        BY <2>5, <3>2, AppendProperties
      <4>. QED  BY <1>1, <1>4, <2>1, <2>3, <3>1, <3>2, <4>1
    <3>3. CASE i # MAXW
      <4>1. i \in 1 .. MAXW - 1
        BY <3>3
      <4>2. Append(Tail(l), e)[i] = b.entry[SlotAt(b, i)]
        BY <2>5, <2>6, <4>1, AppendProperties
      <4>. QED  BY <1>1, <1>4, <2>1, <2>3, <2>4, <3>1, <3>3, <4>1, <4>2
    <3>. QED  BY <3>2, <3>3
  <2>9. LogOf(n) = Append(Tail(l), e)
    BY <1>3, <2>2, <2>7, <2>8, SeqEqual
  <2>. QED  BY <1>2, <2>2, <2>9 DEF Recent!Push, n, l
<1>. QED  BY <1>5, <1>6 DEF Buffer

(* The pointer add_entry returns is the one that leaves the log.           *)
LEMMA ReplacedIsOldest ==
  ASSUME NEW b \in Buffer, RingShape(b)
  PROVE  ReplacedBuffptr(b) =
           IF Len(LogOf(b)) < MAXW THEN NULL ELSE Head(LogOf(b)).buffptr
<1>1. /\ LogOf(b) \in Seq(Entry)
      /\ Len(LogOf(b)) = LogLen(b)
      /\ \A i \in 1 .. LogLen(b) : LogOf(b)[i] = b.entry[SlotAt(b, i - 1)]
  BY LogOfType
<1>2. CASE b.full = 0
  <2>1. ~Overwriting(b) /\ LogLen(b) < MAXW
    BY <1>2 DEF RingShape, Overwriting, Used, Buffer, Slot, LogLen
  <2>. QED  BY <1>1, <2>1 DEF ReplacedBuffptr
<1>3. CASE b.full = 1
  <2>1. Overwriting(b) /\ LogLen(b) = MAXW
    BY <1>3 DEF RingShape, Overwriting, Used, Buffer, LogLen
  <2>2. SlotAt(b, 0) = b.out_offs
    BY DEF SlotAt, Buffer, Slot
  <2>3. Head(LogOf(b)) = b.entry[b.out_offs]
    <3>1. 1 \in 1 .. LogLen(b) /\ 1 - 1 = 0
      BY <2>1
    <3>2. Head(LogOf(b)) = LogOf(b)[1]
      BY <1>1, <2>1
    <3>. QED  BY <1>1, <2>2, <3>1, <3>2
  <2>. QED  BY <1>1, <2>1, <2>3 DEF ReplacedBuffptr
<1>. QED  BY <1>2, <1>3 DEF Buffer

(* Every behaviour of the library is, through LogOf, a behaviour of the    *)
(* log of the last MAXW entries, and what add_entry returns is the pointer *)
(* that log drops: no entry is lost early, kept too long or freed twice.   *)
THEOREM ImplementsRecentLog == Spec => RecentSpec
<1>1. Init => Recent!Init
  <2> SUFFICES ASSUME Init PROVE LogOf(buffer) = << >> /\ returned = NULL
    BY DEF Recent!Init
  <2>1. LogLen(buffer) = 0
    BY DEF Init, aesd_circular_buffer_init, LogLen
  <2>. QED  BY <2>1 DEF Init, LogOf
<1>2. IInv /\ [Next]_vars => [Recent!Next]_<<LogOf(buffer), returned>>
  <2> SUFFICES ASSUME IInv, [Next]_vars
               PROVE  [Recent!Next]_<<LogOf(buffer), returned>>
    OBVIOUS
  <2>1. CASE Reinit
    <3>1. LogLen(buffer') = 0
      BY <2>1 DEF Reinit, aesd_circular_buffer_init, LogLen
    <3>2. LogOf(buffer') = << >>
      BY <3>1 DEF LogOf
    <3>. QED  BY <2>1, <3>2 DEF Reinit, Recent!Next, Recent!Clear
  <2>2. ASSUME NEW e \in AddEntryArg, AddEntry(e)
        PROVE  Recent!Next
    <3>1. e \in Entry /\ e.buffptr # NULL
      BY SizeAssumption DEF AddEntryArg, Entry
    <3>2. buffer \in Buffer /\ RingShape(buffer)
      BY DEF IInv, TypeOK, Ring
    <3>3. LogOf(buffer') = Recent!Push(LogOf(buffer), e)
      BY <2>2, <3>1, <3>2, AddEntryPushes DEF AddEntry
    <3>4. returned' = IF Len(LogOf(buffer)) < MAXW THEN NULL
                      ELSE Head(LogOf(buffer)).buffptr
      BY <2>2, <3>2, ReplacedIsOldest DEF AddEntry
    <3>. QED  BY <3>3, <3>4 DEF Recent!Next, Recent!Add
  <2>3. CASE UNCHANGED vars
    BY <2>3 DEF vars
  <2>. QED  BY <2>1, <2>2, <2>3 DEF Next
<1>. QED  BY <1>1, <1>2, InitIInv, NextIInv, PTL DEF Spec, RecentSpec, Recent!Spec

----------------------------------------------------------------------------
(* find_entry_offset_for_fpos against its reference.                       *)

(* The characters of the entry that iteration i - 1 of the search visits.  *)
Segments(b) ==
  [i \in 1 .. MAXW |->
     LET s == SlotAt(b, i - 1)
     IN  IF b.entry[s].buffptr = NULL THEN <<>>
         ELSE [k \in 1 .. b.entry[s].size |-> [slot |-> s, offset |-> k - 1]]]

(* One segment per iteration, as long as what the iteration adds to the    *)
(* running sum.                                                            *)
LEMMA SegmentsType ==
  ASSUME NEW b \in Buffer
  PROVE  /\ Segments(b) \in Seq(Seq([slot : Slot, offset : Nat]))
         /\ Len(Segments(b)) = MAXW
         /\ \A i \in 0 .. MAXW - 1 :
              /\ Len(Segments(b)[i + 1]) = EntryBytes(b, i)
              /\ b.entry[SlotAt(b, i)].buffptr # NULL =>
                   \A k \in 1 .. EntryBytes(b, i) :
                     Segments(b)[i + 1][k] = [slot |-> SlotAt(b, i), offset |-> k - 1]
<1> DEFINE S == [slot : Slot, offset : Nat]
<1>1. ASSUME NEW i \in 0 .. MAXW - 1
      PROVE  /\ Segments(b)[i + 1] \in Seq(S)
             /\ Len(Segments(b)[i + 1]) = EntryBytes(b, i)
             /\ b.entry[SlotAt(b, i)].buffptr # NULL =>
                  \A k \in 1 .. EntryBytes(b, i) :
                    Segments(b)[i + 1][k] = [slot |-> SlotAt(b, i), offset |-> k - 1]
  <2> DEFINE s == SlotAt(b, i)
             n == b.entry[s].size
             cs == [k \in 1 .. n |-> [slot |-> s, offset |-> k - 1]]
  <2>1. i + 1 \in 1 .. MAXW /\ (i + 1) - 1 = i /\ i \in 0 .. MAXW
    OBVIOUS
  <2>2. Segments(b)[i + 1] = IF b.entry[s].buffptr = NULL THEN <<>> ELSE cs
    BY <2>1 DEF Segments
  <2>3. s \in Slot /\ n \in Nat
    BY <2>1, SearchSlots
  <2>4. EntryBytes(b, i) = IF b.entry[s].buffptr = NULL THEN 0 ELSE n
    BY DEF EntryBytes
  <2>. HIDE DEF s, n
  <2>5. \A k \in 1 .. n : [slot |-> s, offset |-> k - 1] \in S
    BY <2>3
  <2>6. cs \in Seq(S) /\ Len(cs) = n
    <3>. HIDE DEF S
    <3>1. cs \in Seq(S)
      BY <2>3, <2>5, IsASeq
    <3>. QED  BY <2>3, <3>1
  <2>7. \A k \in 1 .. n : cs[k] = [slot |-> s, offset |-> k - 1]
    OBVIOUS
  <2>8. CASE b.entry[s].buffptr = NULL
    <3>1. Segments(b)[i + 1] = <<>> /\ EntryBytes(b, i) = 0
      BY <2>2, <2>4, <2>8
    <3>. QED  BY <2>8, <3>1 DEF s
  <2>9. CASE b.entry[s].buffptr # NULL
    <3>. HIDE DEF cs, S
    <3>1. Segments(b)[i + 1] = cs /\ EntryBytes(b, i) = n
      BY <2>2, <2>4, <2>9
    <3>. QED  BY <2>6, <2>7, <3>1 DEF s
  <2>. QED  BY <2>8, <2>9
<1>. HIDE DEF S
<1>2. \A i \in 1 .. MAXW : Segments(b)[i] \in Seq(S)
  <2> TAKE i \in 1 .. MAXW
  <2>1. i - 1 \in 0 .. MAXW - 1 /\ (i - 1) + 1 = i
    OBVIOUS
  <2>. QED  BY <1>1, <2>1
<1>3. Segments(b) = [i \in 1 .. MAXW |-> Segments(b)[i]]
  BY DEF Segments
<1>4. Segments(b) \in Seq(Seq(S))
  BY <1>2, <1>3, IsASeq
<1>5. Len(Segments(b)) = MAXW
  BY <1>3, <1>4, LenProperties
<1>. QED  BY <1>1, <1>4, <1>5 DEF S

(* char_offset_bytes is the length of the concatenation of the entries     *)
(* already passed.                                                         *)
LEMMA SumIsLength ==
  ASSUME NEW b \in Buffer, NEW i \in 0 .. MAXW
  PROVE  CharOffsetBytes(b)[i] = Len(Upto(Segments(b), i))
<1> DEFINE S == [slot : Slot, offset : Nat]
           g == Segments(b)
           sum == CharOffsetBytes(b)
           T == {m \in Nat : m <= MAXW => sum[m] = Len(Upto(g, m))}
<1>1. /\ sum[0] = 0
      /\ \A j \in 0 .. MAXW - 1 : sum[j + 1] = sum[j] + EntryBytes(b, j)
  BY CharOffsetBytesSteps
<1>2. g \in Seq(Seq(S)) /\ Len(g) = MAXW
  BY SegmentsType
<1>3. \A j \in 0 .. MAXW - 1 : Len(g[j + 1]) = EntryBytes(b, j)
  BY SegmentsType
<1>. HIDE DEF S, g, sum
<1>4. 0 \in T
  BY <1>1, <1>2, UptoSteps
<1>5. ASSUME NEW m \in Nat, m \in T PROVE m + 1 \in T
  <2> SUFFICES ASSUME m + 1 <= MAXW PROVE sum[m + 1] = Len(Upto(g, m + 1))
    OBVIOUS
  <2>1. m \in 0 .. MAXW - 1
    OBVIOUS
  <2>2. Len(Upto(g, m + 1)) = Len(Upto(g, m)) + Len(g[m + 1])
    BY <1>2, <2>1, FlattenIndex
  <2>3. sum[m] = Len(Upto(g, m))
    BY <1>5
  <2>. QED  BY <1>1, <1>3, <2>1, <2>2, <2>3
<1>6. Nat \subseteq T
  <2>. HIDE DEF T
  <2>. QED  BY <1>4, <1>5, SetInduction
<1>7. i \in T /\ i <= MAXW
  BY <1>6
<1>. QED  BY <1>7 DEF g, sum

(* In any buffer, in shape or not, find returns the place of the character *)
(* in the concatenation of the entries, and nothing past its end.          *)
LEMMA FindIsIndex ==
  ASSUME NEW b \in Buffer, NEW off \in Nat
  PROVE  aesd_circular_buffer_find_entry_offset_for_fpos(b, off) =
           IF off < Len(Characters(b)) THEN Characters(b)[off + 1] ELSE NotFound
<1> DEFINE S == [slot : Slot, offset : Nat]
           g == Segments(b)
           sum == CharOffsetBytes(b)
           found == aesd_circular_buffer_find_entry_offset_for_fpos(b, off)
<1>1. Characters(b) = FlattenSeq(g)
  BY DEF Characters, Segments
<1>2. g \in Seq(Seq(S)) /\ Len(g) = MAXW
  BY SegmentsType
<1>3. \A i \in 0 .. MAXW : sum[i] \in Nat /\ sum[i] = Len(Upto(g, i))
  BY CharOffsetBytesSteps, SumIsLength
<1>4. \/ found = NotFound /\ sum[MAXW] <= off
      \/ \E i \in Slot :
           /\ b.entry[SlotAt(b, i)].buffptr # NULL
           /\ sum[i] <= off
           /\ off < sum[i] + b.entry[SlotAt(b, i)].size
           /\ found = [slot |-> SlotAt(b, i), offset |-> off - sum[i]]
  BY FindStops
<1>5. \A i \in 0 .. MAXW - 1 :
        /\ Len(g[i + 1]) = EntryBytes(b, i)
        /\ b.entry[SlotAt(b, i)].buffptr # NULL =>
             \A k \in 1 .. EntryBytes(b, i) :
               g[i + 1][k] = [slot |-> SlotAt(b, i), offset |-> k - 1]
  BY SegmentsType
<1>. HIDE DEF S, g, sum, found
<1>6. CASE found = NotFound /\ sum[MAXW] <= off
  <2>1. sum[MAXW] = Len(FlattenSeq(g)) /\ sum[MAXW] \in Nat
    BY <1>2, <1>3, UptoSteps
  <2>. QED  BY <1>1, <1>6, <2>1 DEF found
<1>7. ASSUME NEW i \in Slot,
             b.entry[SlotAt(b, i)].buffptr # NULL,
             sum[i] <= off,
             off < sum[i] + b.entry[SlotAt(b, i)].size,
             found = [slot |-> SlotAt(b, i), offset |-> off - sum[i]]
      PROVE  off < Len(FlattenSeq(g)) /\ found = FlattenSeq(g)[off + 1]
  <2> DEFINE j == (off - sum[i]) + 1
  <2>1. i \in 0 .. MAXW - 1 /\ i \in 0 .. MAXW
    BY DEF Slot
  <2>2. EntryBytes(b, i) = b.entry[SlotAt(b, i)].size /\ EntryBytes(b, i) \in Nat
    BY <1>7, <2>1, SearchSlots DEF EntryBytes
  <2>3. sum[i] \in Nat /\ sum[i] = Len(Upto(g, i))
    BY <1>3, <2>1
  <2>4. j \in 1 .. EntryBytes(b, i) /\ j - 1 = off - sum[i] /\ sum[i] + j = off + 1
    BY <1>7, <2>2, <2>3
  <2>. HIDE DEF j
  <2>5. /\ Len(Upto(g, i + 1)) = Len(Upto(g, i)) + Len(g[i + 1])
        /\ Len(Upto(g, i + 1)) <= Len(FlattenSeq(g))
        /\ Len(FlattenSeq(g)) \in Nat
        /\ \A k \in 1 .. Len(g[i + 1]) :
             FlattenSeq(g)[Len(Upto(g, i)) + k] = g[i + 1][k]
    BY <1>2, <2>1, FlattenIndex
  <2>6. Len(g[i + 1]) = EntryBytes(b, i)
    BY <1>5, <2>1
  <2>7. g[i + 1][j] = [slot |-> SlotAt(b, i), offset |-> j - 1]
    BY <1>5, <1>7, <2>1, <2>4
  <2>8. FlattenSeq(g)[off + 1] = g[i + 1][j]
    BY <2>3, <2>4, <2>5, <2>6
  <2>9. off < Len(FlattenSeq(g))
    BY <1>7, <2>2, <2>3, <2>5, <2>6
  <2>. QED  BY <1>7, <2>4, <2>7, <2>8, <2>9
<1>8. CASE \E i \in Slot :
           /\ b.entry[SlotAt(b, i)].buffptr # NULL
           /\ sum[i] <= off
           /\ off < sum[i] + b.entry[SlotAt(b, i)].size
           /\ found = [slot |-> SlotAt(b, i), offset |-> off - sum[i]]
  <2>1. off < Len(FlattenSeq(g)) /\ found = FlattenSeq(g)[off + 1]
    BY <1>7, <1>8
  <2>. QED  BY <1>1, <2>1 DEF found
<1>. QED  BY <1>4, <1>6, <1>8

(* In every execution, for every capacity and every offset, find returns   *)
(* the entry and the byte that hold the character "if all buffer strings   *)
(* were concatenated end to end".                                          *)
THEOREM FindAlwaysMatches == Spec => []FindMatchesConcatenation
<1>1. TypeOK => FindMatchesConcatenation
  <2> SUFFICES ASSUME TypeOK, NEW off \in 0 .. Len(Characters(buffer)) + 1
               PROVE  aesd_circular_buffer_find_entry_offset_for_fpos(buffer, off) =
                        IF off < Len(Characters(buffer))
                        THEN Characters(buffer)[off + 1] ELSE NotFound
    BY DEF FindMatchesConcatenation
  <2>1. buffer \in Buffer /\ off \in Nat
    BY DEF TypeOK
  <2>. QED  BY <2>1, FindIsIndex
<1>. QED  BY TypeAlways, <1>1, PTL
=============================================================================
