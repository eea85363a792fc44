--------------------------- MODULE AesdCharProofs ---------------------------
(***************************************************************************)
(* Theorems about the character driver for every number of processes,      *)
(* every capacity, every set of addresses and every combination of faults: *)
(* the kernel heap and the ring.                                           *)
(***************************************************************************)
EXTENDS AesdChar, CircularBufferOpsProofs, SequenceTheorems, TLAPS

USE MaxwAssumption, NullAssumption, ProcAssumption, ZeroAssumption

----------------------------------------------------------------------------
(* Kernel memory.                                                          *)

(* kfree removes one block, an allocation adds one, and an overrun changes *)
(* contents but no block comes or goes.                                    *)
LEMMA HeapDomains ==
  ASSUME NEW h, NEW q, NEW v, NEW block
  PROVE  /\ DOMAIN Free(h, q) = DOMAIN h \ {q}
         /\ DOMAIN Alloc(h, q, block) = DOMAIN h \cup {q}
         /\ DOMAIN Scribble(h, v) = DOMAIN h
BY DEF Free, Alloc, Scribble

(* The pointers in the slots are addresses or null.                        *)
LEMMA SlotPtrType ==
  ASSUME DeviceTypeOK
  PROVE  /\ \A i \in Slot : SlotPtr(i) \in Pointer
         /\ NULL \notin Ptr /\ ZERO_SIZE_PTR \notin Ptr \cup {NULL}
BY DEF DeviceTypeOK, SlotPtr, Buffer, Entry, Pointer

(* The locals of a write that is not there are well typed.                 *)
LEMMA NoWriteType == NoWrite \in WriteLocals
<1>1. 0 \in Slot
  BY DEF Slot
<1>2. [buffptr |-> NULL, size |-> 0] \in Entry
  BY DEF Entry
<1>. QED  BY <1>1, <1>2 DEF NoWrite, WriteLocals, Pointer

(* The stores of add_entry change the field they name and nothing else.    *)
LEMMA StoreFields ==
  ASSUME NEW b \in Buffer, NEW s \in Slot, NEW e \in Entry
  PROVE  /\ StoreBuffptr(b, s, e) \in Buffer
         /\ StoreSize(b, s, e) \in Buffer
         /\ \A i \in Slot : /\ StoreBuffptr(b, s, e).entry[i].buffptr =
                                 IF i = s THEN e.buffptr ELSE b.entry[i].buffptr
                            /\ StoreSize(b, s, e).entry[i].buffptr =
                                 b.entry[i].buffptr
         /\ StoreBuffptr(b, s, e).in_offs = b.in_offs
         /\ StoreBuffptr(b, s, e).out_offs = b.out_offs
         /\ StoreBuffptr(b, s, e).full = b.full
         /\ StoreSize(b, s, e).in_offs = b.in_offs
         /\ StoreSize(b, s, e).out_offs = b.out_offs
         /\ StoreSize(b, s, e).full = b.full
BY DEF StoreBuffptr, StoreSize, Buffer, Entry

----------------------------------------------------------------------------
(* The inductive invariant holds initially.                                *)
LEMMA InitDriverInv == Init => DriverInv
<1> SUFFICES ASSUME Init PROVE DriverInv
  OBVIOUS
<1>1. DeviceTypeOK
  <2>1. buffer \in Buffer
    BY DEF Init, Entry, Buffer, Slot, aesd_circular_buffer_init
  <2>2. wr \in WriteLocals
    BY NoWriteType DEF Init
  <2>3. DOMAIN kheap = {}
    BY DEF Init
  <2>. QED  BY <2>1, <2>2, <2>3 DEF Init, DeviceTypeOK, Pointer, PC
<1>2. LockDiscipline
  BY DEF Init, LockDiscipline
<1>3. HeapExact
  BY DEF Init, HeapExact, Quiescent
<1>4. RingWhenUnlocked
  BY DEF Init, RingWhenUnlocked, Quiescent
<1>5. Publishing
  BY DEF Init, Publishing
<1>. QED  BY <1>1, <1>2, <1>3, <1>4, <1>5 DEF DriverInv

(* A step that leaves the device alone and neither enters nor leaves       *)
(* add_entry keeps the invariant: open, release, read, llseek, ioctl, an   *)
(* interrupted wait for the mutex.                                         *)
LEMMA QuietStep ==
  ASSUME DriverInv,
         UNCHANGED <<loaded, device>>,
         pc' \in [Proc -> PC],
         \A p \in Proc : pc'[p] = "write" <=> pc[p] = "write",
         loaded \/ UNCHANGED pc
  PROVE  DriverInv'
<1>1. DeviceTypeOK'
  BY DEF DriverInv, DeviceTypeOK, device
<1>2. LockDiscipline'
  BY DEF DriverInv, LockDiscipline, device
<1>3. HeapExact'
  BY DEF DriverInv, HeapExact, Referenced, Quiescent, SlotPtr, device
<1>4. RingWhenUnlocked'
  BY DEF DriverInv, RingWhenUnlocked, Quiescent, RingShape, Used, device
<1>5. Publishing'
  BY DEF DriverInv, Publishing, PublishFill, PublishOverwrite, SlotPtr, device
<1>. QED  BY <1>1, <1>2, <1>3, <1>4, <1>5 DEF DriverInv

(* Loading the module.                                                     *)
LEMMA InitModuleStep ==
  ASSUME DriverInv, aesd_init_module
  PROVE  DriverInv'
<1>1. DeviceTypeOK'
  BY DEF DriverInv, DeviceTypeOK, aesd_init_module, Pointer, Entry, Buffer,
         Slot, aesd_circular_buffer_init
<1>2. LockDiscipline'
  <2>1. \A p \in Proc : pc[p] = "closed" /\ pc'[p] = "closed"
    BY DEF DriverInv, LockDiscipline, aesd_init_module
  <2>2. lock \notin Proc
    BY <2>1 DEF DriverInv, LockDiscipline
  <2>. QED  BY <2>1, <2>2 DEF DriverInv, LockDiscipline, aesd_init_module
<1>3. buffer'.full = 0 /\ buffer'.in_offs = 0 /\ buffer'.out_offs = 0
      /\ \A i \in Slot : buffer'.entry[i].buffptr = NULL
  BY DEF aesd_init_module, aesd_circular_buffer_init
<1>4. wr'.ret_buffptr = NULL
  BY <1>2 DEF LockDiscipline, NoWrite, aesd_init_module
<1>5. Referenced' = {}
  BY <1>3, <1>4 DEF Referenced, SlotPtr, aesd_init_module
<1>6. HeapExact'
  BY <1>3, <1>5 DEF DriverInv, HeapExact, SlotPtr, aesd_init_module
<1>7. RingWhenUnlocked'
  BY <1>3 DEF RingWhenUnlocked, RingShape, Used, Slot
<1>8. Publishing'
  BY DEF Publishing, aesd_init_module
<1>. QED  BY <1>1, <1>2, <1>6, <1>7, <1>8 DEF DriverInv

(* Unloading it frees every block: no process is inside a call, so the     *)
(* slots and the working entry are all there is.                           *)
LEMMA CleanupModuleStep ==
  ASSUME DriverInv, aesd_cleanup_module
  PROVE  DriverInv'
<1>1. lock \notin Proc /\ wr = NoWrite
  BY DEF DriverInv, LockDiscipline, aesd_cleanup_module
<1>2. DOMAIN kheap' = {}
  <2>1. DOMAIN kheap = Referenced
    BY DEF DriverInv, HeapExact, aesd_cleanup_module
  <2>2. Referenced \subseteq {buffer.entry[i].buffptr : i \in Slot}
                              \cup {working_entry}
    BY <1>1 DEF Referenced, SlotPtr, NoWrite
  <2>. QED  BY <2>1, <2>2 DEF aesd_cleanup_module
<1>3. DeviceTypeOK'
  BY <1>2 DEF DriverInv, DeviceTypeOK, aesd_cleanup_module
<1>4. LockDiscipline'
  BY DEF DriverInv, LockDiscipline, aesd_cleanup_module
<1>5. HeapExact' /\ RingWhenUnlocked'
  BY <1>2 DEF HeapExact, RingWhenUnlocked, Quiescent, aesd_cleanup_module
<1>6. Publishing'
  BY <1>1 DEF Publishing, aesd_cleanup_module
<1>. QED  BY <1>3, <1>4, <1>5, <1>6 DEF DriverInv

----------------------------------------------------------------------------
(* The steps of aesd_write.                                                *)

(* Between calls: what the invariant says when nobody holds the mutex.     *)
LEMMA Idle ==
  ASSUME DriverInv, loaded, lock = NULL
  PROVE  /\ DeviceTypeOK
         /\ working_entry \in Pointer
         /\ wr = NoWrite /\ wr.ret_buffptr = NULL
         /\ RingShape(buffer)
         /\ \A p \in Proc : pc[p] # "write"
         /\ \A i \in Slot : SlotPtr(i) # NULL =>
              /\ SlotPtr(i) # working_entry
              /\ \A j \in Slot : SlotPtr(i) = SlotPtr(j) => i = j
         /\ \A x : x \in DOMAIN kheap <=>
              x # NULL /\ (x = working_entry \/ \E i \in Slot : SlotPtr(i) = x)
<1>1. DeviceTypeOK /\ lock \notin Proc /\ lock # DeadTask
  BY DEF DriverInv
<1>2. wr = NoWrite /\ wr.ret_buffptr = NULL
  BY <1>1 DEF DriverInv, LockDiscipline, NoWrite
<1>3. working_entry \in Pointer
  BY <1>1 DEF DriverInv, LockDiscipline, DeviceTypeOK
<1>4. RingShape(buffer)
  BY <1>1 DEF DriverInv, RingWhenUnlocked, Quiescent
<1>5. \A p \in Proc : pc[p] # "write"
  BY <1>1 DEF DriverInv, LockDiscipline
<1>6. \A i \in Slot : SlotPtr(i) # NULL =>
         /\ SlotPtr(i) # working_entry
         /\ \A j \in Slot : SlotPtr(i) = SlotPtr(j) => i = j
  BY <1>1 DEF DriverInv, HeapExact, Quiescent
<1>7. \A x : x \in DOMAIN kheap <=>
         x # NULL /\ (x = working_entry \/ \E i \in Slot : SlotPtr(i) = x)
  <2>1. DOMAIN kheap = Referenced
    BY DEF DriverInv, HeapExact
  <2>2. \A i \in Slot : SlotPtr(i) # ZERO_SIZE_PTR
    BY <1>1, SlotPtrType DEF Pointer
  <2>3. working_entry # ZERO_SIZE_PTR
    BY <1>3 DEF Pointer
  <2>. QED  BY <1>2, <2>1, <2>2, <2>3 DEF Referenced
<1>. QED  BY <1>1, <1>2, <1>3, <1>4, <1>5, <1>6, <1>7

(* The error exits: the working entry is freed and forgotten.              *)
LEMMA WriteFailsStep ==
  ASSUME DriverInv, NEW p \in Proc, NEW error, NEW v, lock = NULL, loaded,
         CleanupWorkingEntry(p, error, v)
  PROVE  DriverInv'
<1>1. DOMAIN kheap' = DOMAIN kheap \ {working_entry}
  <2>1. kheap' = Free(Scribble(kheap, v), working_entry)
    BY DEF CleanupWorkingEntry
  <2>2. DOMAIN Scribble(kheap, v) = DOMAIN kheap
    BY HeapDomains
  <2>. QED  BY <2>1, <2>2 DEF Free
<1>2. DeviceTypeOK'
  BY <1>1 DEF DriverInv, DeviceTypeOK, CleanupWorkingEntry, Pointer
<1>3. LockDiscipline'
  BY DEF DriverInv, LockDiscipline, CleanupWorkingEntry
<1>4. DOMAIN kheap' = Referenced'
  <2>1. \A x : x \in Referenced' <=>
           x # NULL /\ x # ZERO_SIZE_PTR /\ \E i \in Slot : SlotPtr(i) = x
    BY Idle DEF CleanupWorkingEntry, Referenced, SlotPtr
  <2>2. \A i \in Slot : SlotPtr(i) # ZERO_SIZE_PTR
    BY SlotPtrType DEF Pointer, DriverInv
  <2>. QED  BY <1>1, <2>1, <2>2, Idle
<1>5. HeapExact'
  BY <1>4, Idle DEF HeapExact, SlotPtr, CleanupWorkingEntry
<1>6. RingWhenUnlocked'
  BY Idle DEF RingWhenUnlocked, RingShape, Used, CleanupWorkingEntry
<1>7. Publishing'
  BY DEF Publishing, CleanupWorkingEntry
<1>. QED  BY <1>2, <1>3, <1>5, <1>6, <1>7 DEF DriverInv

(* A zero-length first write kills the caller; no block is lost.           *)
LEMMA WriteOopsStep ==
  ASSUME DriverInv, NEW p \in Proc, loaded, WriteOops(p)
  PROVE  DriverInv'
<1>1. lock = NULL /\ working_entry = NULL
  BY DEF WriteOops
<1>2. DeviceTypeOK'
  BY DEF DriverInv, DeviceTypeOK, WriteOops, PC
<1>3. LockDiscipline'
  BY <1>1, Idle DEF DriverInv, LockDiscipline, WriteOops, DeviceTypeOK
<1>4. Referenced' = Referenced
  BY <1>1 DEF WriteOops, Referenced, SlotPtr
<1>5. HeapExact'
  <2>1. DOMAIN kheap' = Referenced'
    BY <1>4 DEF DriverInv, HeapExact, WriteOops
  <2>2. \A i \in Slot : SlotPtr(i) # ZERO_SIZE_PTR
    BY SlotPtrType DEF Pointer, DriverInv
  <2>. QED  BY <1>1, <2>1, <2>2, Idle DEF HeapExact, SlotPtr, WriteOops
<1>6. RingWhenUnlocked'
  BY <1>1, Idle DEF RingWhenUnlocked, RingShape, Used, WriteOops
<1>7. Publishing'
  BY DEF Publishing, WriteOops
<1>. QED  BY <1>2, <1>3, <1>5, <1>6, <1>7 DEF DriverInv

(* The allocation of aesd_write: the address it returns is in no slot, and *)
(* afterwards the heap holds it and the slots' blocks.                     *)
LEMMA WriteAllocates ==
  ASSUME DriverInv, loaded, NEW p \in Proc, NEW c \in Chunk, NEW q \in Address,
         NEW v, aesd_write(p, c, q, v)
  PROVE  /\ q \in Ptr /\ working_entry' = q
         /\ \A i \in Slot : SlotPtr(i) # q
         /\ \A x : x \in DOMAIN kheap' <=>
              x # NULL /\ (x = q \/ \E i \in Slot : SlotPtr(i) = x)
         /\ Len(c) \in Nat
<1>1. lock = NULL /\ working_entry' = q
  BY DEF aesd_write
<1>2. q \in Ptr
  BY <1>1, Idle DEF Address, Pointer
<1>3. \A i \in Slot : SlotPtr(i) # q
  <2> SUFFICES ASSUME NEW i \in Slot, SlotPtr(i) = q PROVE FALSE
    OBVIOUS
  <2>1. SlotPtr(i) # NULL
    BY <1>2
  <2>2. q # working_entry /\ q \in DOMAIN kheap
    BY <1>1, <2>1, Idle
  <2>. QED  BY <2>2 DEF Address
<1>4. DOMAIN kheap' = (DOMAIN kheap \ {working_entry}) \cup {q}
  <2> DEFINE freed == Free(kheap, working_entry)
             hit   == Scribble(freed, v)
  <2>1. kheap' = Alloc(hit, q, WorkingBlock(c))
    BY DEF aesd_write
  <2>2. DOMAIN freed = DOMAIN kheap \ {working_entry}
    BY HeapDomains
  <2>. HIDE DEF freed
  <2>3. DOMAIN hit = DOMAIN freed
    BY HeapDomains
  <2>. HIDE DEF hit
  <2>4. DOMAIN kheap' = DOMAIN hit \cup {q}
    BY <2>1 DEF Alloc
  <2>. QED  BY <2>2, <2>3, <2>4
<1>5. \A x : x \in DOMAIN kheap' <=>
         x # NULL /\ (x = q \/ \E i \in Slot : SlotPtr(i) = x)
  BY <1>1, <1>2, <1>4, Idle
<1>6. Len(c) \in Nat
  BY ChunkAssumption, LenProperties
<1>. QED  BY <1>1, <1>2, <1>3, <1>5, <1>6

(* A chunk that does not end the command: only the working entry moves.    *)
LEMMA WriteAppendsStep ==
  ASSUME DriverInv, loaded, NEW p \in Proc, NEW c \in Chunk, NEW q \in Address,
         NEW v, aesd_write(p, c, q, v), LastByte(c) # NL
  PROVE  DriverInv'
<1>1. /\ lock = NULL /\ lock' = NULL
      /\ UNCHANGED <<loaded, buffer, wr, pc>>
      /\ previous_count' = previous_count + Len(c)
  BY DEF aesd_write
<1>2. DeviceTypeOK'
  <2>1. DOMAIN kheap' \subseteq Ptr
    BY WriteAllocates, SlotPtrType DEF Pointer, DriverInv
  <2>. QED  BY <1>1, <2>1, WriteAllocates DEF DriverInv, DeviceTypeOK, Pointer
<1>3. LockDiscipline'
  BY <1>1, WriteAllocates DEF DriverInv, LockDiscipline
<1>4. DOMAIN kheap' = Referenced'
  <2>1. \A x : x \in Referenced' <=>
           /\ x # NULL /\ x # ZERO_SIZE_PTR
           /\ x = q \/ \E i \in Slot : SlotPtr(i) = x
    BY <1>1, Idle, WriteAllocates DEF Referenced, SlotPtr
  <2>2. \A i \in Slot : SlotPtr(i) # ZERO_SIZE_PTR
    BY SlotPtrType DEF Pointer, DriverInv
  <2>. QED  BY <2>1, <2>2, WriteAllocates
<1>5. HeapExact'
  BY <1>1, <1>4, Idle, WriteAllocates DEF HeapExact, SlotPtr
<1>6. RingWhenUnlocked'
  BY <1>1, Idle DEF RingWhenUnlocked, RingShape, Used
<1>7. Publishing'
  BY <1>1 DEF Publishing
<1>. QED  BY <1>2, <1>3, <1>5, <1>6, <1>7 DEF DriverInv

(* A chunk that ends the command: the writer keeps the mutex and enters    *)
(* add_entry with every store still to do.                                 *)
LEMMA WritePublishesStep ==
  ASSUME DriverInv, loaded, NEW p \in Proc, NEW c \in Chunk, NEW q \in Address,
         NEW v, aesd_write(p, c, q, v), LastByte(c) = NL
  PROVE  DriverInv'
<1>1. /\ lock = NULL /\ lock' = p
      /\ UNCHANGED <<loaded, buffer, previous_count>>
      /\ pc' = [pc EXCEPT ![p] = "write"]
  BY DEF aesd_write
<1>2. /\ wr'.e = [buffptr |-> q, size |-> Len(c) + previous_count]
      /\ wr'.slot = buffer.in_offs
      /\ wr'.branch = IF Overwriting(buffer) THEN "overwrite" ELSE "fill"
      /\ wr'.ret_buffptr = ReplacedBuffptr(buffer)
      /\ wr'.todo = {"buffptr", "size"} \cup
                    (IF Overwriting(buffer) THEN {"out_offs"} ELSE {})
  BY DEF aesd_write
<1>3. buffer \in Buffer /\ previous_count \in Nat /\ pc \in [Proc -> PC]
  BY DEF DriverInv, DeviceTypeOK
<1>4. ReplacedBuffptr(buffer) \in Pointer
  BY <1>3 DEF ReplacedBuffptr, Buffer, Entry, Pointer
<1>5. wr' \in WriteLocals
  <2>1. [buffptr |-> q, size |-> Len(c) + previous_count] \in Entry
    BY <1>3, WriteAllocates DEF Entry
  <2>2. buffer.in_offs \in Slot
    BY <1>3 DEF Buffer
  <2>. QED  BY <1>4, <2>1, <2>2, WriteAllocates DEF aesd_write, WriteLocals
<1>6. DeviceTypeOK'
  <2>1. DOMAIN kheap' \subseteq Ptr
    BY WriteAllocates, SlotPtrType DEF Pointer, DriverInv
  <2>. QED  BY <1>1, <1>3, <1>5, <2>1, WriteAllocates
            DEF DeviceTypeOK, Pointer, PC
<1>7. LockDiscipline'
  BY <1>1, <1>3, Idle, WriteAllocates DEF LockDiscipline, PC
<1>8. Publishing'
  <2>1. CASE buffer.full = 1
    <3>1. Overwriting(buffer) /\ \A i \in Slot : SlotPtr(i) # NULL
      BY <1>1, <1>3, <2>1, Idle
      DEF RingShape, Overwriting, Used, Buffer, SlotPtr
    <3>2. ReplacedBuffptr(buffer) = SlotPtr(buffer.in_offs)
          /\ buffer.in_offs = buffer.out_offs /\ buffer.in_offs \in Slot
      BY <1>1, <1>3, <2>1, <3>1, Idle
      DEF RingShape, ReplacedBuffptr, SlotPtr, Buffer
    <3>3. PublishOverwrite'
      <4>1. SlotPtr(buffer.in_offs) \in Ptr \ {q}
        BY <3>1, <3>2, WriteAllocates, SlotPtrType DEF Pointer, DriverInv
      <4>2. \A i \in Slot \ {buffer.in_offs} :
              SlotPtr(i) # SlotPtr(buffer.in_offs)
        BY <1>1, <3>1, <3>2, Idle
      <4>. QED  BY <1>1, <1>2, <2>1, <3>1, <3>2, <4>1, <4>2, WriteAllocates
                DEF PublishOverwrite, SlotPtr
    <3>. QED  BY <1>1, <1>2, <3>1, <3>3, Idle, WriteAllocates
              DEF Publishing, SlotPtr
  <2>2. CASE buffer.full = 0
    <3>1. ~Overwriting(buffer)
      BY <1>1, <1>3, <2>2, Idle DEF RingShape, Overwriting, Used, Buffer, Slot
    <3>2. PublishFill'
      BY <1>1, <1>2, <1>3, <2>2, <3>1, Idle
      DEF PublishFill, SlotPtr, RingShape, Used, ReplacedBuffptr, Overwriting,
          Buffer, Slot
    <3>. QED  BY <1>1, <1>2, <3>1, <3>2, Idle, WriteAllocates
              DEF Publishing, SlotPtr
  <2>. QED  BY <1>3, <2>1, <2>2 DEF Buffer
<1>9. HeapExact'
  <2>1. wr'.ret_buffptr = NULL \/ \E i \in Slot : SlotPtr(i) = wr'.ret_buffptr
    BY <1>2, <1>3 DEF ReplacedBuffptr, SlotPtr, Buffer
  <2>2. \A i \in Slot : SlotPtr(i) # ZERO_SIZE_PTR
    BY SlotPtrType DEF Pointer, DriverInv
  <2>3. \A x : x \in Referenced' <=>
          /\ x # NULL /\ x # ZERO_SIZE_PTR
          /\ x = q \/ \E i \in Slot : SlotPtr(i) = x
    BY <1>1, <2>1, WriteAllocates DEF Referenced, SlotPtr
  <2>4. DOMAIN kheap' = Referenced'
    BY <2>2, <2>3, WriteAllocates
  <2>. QED  BY <1>1, <2>4 DEF HeapExact, Quiescent
<1>10. RingWhenUnlocked'
  BY <1>1 DEF RingWhenUnlocked, Quiescent
<1>. QED  BY <1>6, <1>7, <1>8, <1>9, <1>10 DEF DriverInv

(* One store of add_entry.                                                 *)
LEMMA PublishStoreStep ==
  ASSUME DriverInv, NEW p \in Proc, NEW s \in {"buffptr", "size", "out_offs"},
         PublishStore(p, s)
  PROVE  DriverInv'
<1>1. /\ lock = p /\ lock \in Proc /\ loaded
      /\ UNCHANGED <<loaded, working_entry, previous_count, kheap, lock, pc>>
      /\ s \in wr.todo
  BY DEF PublishStore, DriverInv, LockDiscipline, Publishing
<1>2. /\ buffer \in Buffer /\ wr \in WriteLocals
      /\ wr.e \in Entry /\ wr.slot \in Slot
  BY DEF DriverInv, DeviceTypeOK, WriteLocals
<1>3. /\ wr' \in WriteLocals /\ wr'.todo = wr.todo \ {s}
      /\ wr'.e = wr.e /\ wr'.slot = wr.slot /\ wr'.branch = wr.branch
      /\ wr'.ret_buffptr = wr.ret_buffptr
  BY <1>2 DEF PublishStore, WriteLocals
<1>4. /\ buffer' \in Buffer
      /\ buffer'.in_offs = buffer.in_offs /\ buffer'.full = buffer.full
      /\ buffer'.out_offs = IF s = "out_offs" THEN Next1(buffer.out_offs)
                            ELSE buffer.out_offs
      /\ \A i \in Slot : buffer'.entry[i].buffptr =
           IF s = "buffptr" /\ i = wr.slot THEN wr.e.buffptr
           ELSE buffer.entry[i].buffptr
  <2>1. CASE s = "buffptr"
    <3>1. buffer' = StoreBuffptr(buffer, wr.slot, wr.e)
      BY <2>1 DEF PublishStore
    <3>2. /\ buffer' \in Buffer
          /\ buffer'.in_offs = buffer.in_offs
          /\ buffer'.out_offs = buffer.out_offs
          /\ buffer'.full = buffer.full
      BY <1>2, <3>1, StoreFields
    <3>3. \A i \in Slot : buffer'.entry[i].buffptr =
            IF i = wr.slot THEN wr.e.buffptr ELSE buffer.entry[i].buffptr
      BY <1>2, <3>1 DEF StoreBuffptr, Buffer, Entry
    <3>. QED  BY <2>1, <3>2, <3>3
  <2>2. CASE s = "size"
    <3>1. buffer' = StoreSize(buffer, wr.slot, wr.e)
      BY <2>2 DEF PublishStore
    <3>2. /\ buffer' \in Buffer
          /\ buffer'.in_offs = buffer.in_offs
          /\ buffer'.out_offs = buffer.out_offs
          /\ buffer'.full = buffer.full
      BY <1>2, <3>1, StoreFields
    <3>3. \A i \in Slot : buffer'.entry[i].buffptr =
            buffer.entry[i].buffptr
      BY <1>2, <3>1, StoreFields
    <3>. QED  BY <2>2, <3>2, <3>3
  <2>3. CASE s = "out_offs"
    BY <1>2, <2>3, AdvanceOutFields DEF PublishStore
  <2>. QED  BY <2>1, <2>2, <2>3
<1>5. DeviceTypeOK'
  BY <1>1, <1>3, <1>4 DEF DriverInv, DeviceTypeOK
<1>6. LockDiscipline'
  BY <1>1 DEF DriverInv, LockDiscipline
<1>7. Publishing'
  <2>1. CASE wr.branch = "fill"
    <3>1. PublishFill
      BY <1>1, <2>1 DEF DriverInv, Publishing
    <3>2. PublishFill'
      BY <1>1, <1>2, <1>3, <1>4, <3>1
      DEF PublishFill, SlotPtr, DriverInv, Publishing
    <3>. QED  BY <1>1, <1>2, <1>3, <1>4, <2>1, <3>2
              DEF DriverInv, Publishing, SlotPtr
  <2>2. CASE wr.branch = "overwrite"
    <3>1. PublishOverwrite
      BY <1>1, <2>2 DEF DriverInv, Publishing
    <3>2. PublishOverwrite'
      BY <1>1, <1>2, <1>3, <1>4, <3>1
      DEF PublishOverwrite, SlotPtr, DriverInv, Publishing
    <3>. QED  BY <1>1, <1>2, <1>3, <1>4, <2>2, <3>2
              DEF DriverInv, Publishing, SlotPtr
  <2>. QED  BY <1>1, <2>1, <2>2 DEF DriverInv, Publishing
<1>8. HeapExact'
  <2>1. Referenced' = Referenced
    <3>1. wr.e.buffptr = working_entry
      BY <1>1 DEF DriverInv, Publishing
    <3>2. SlotPtr(wr.slot) \in {NULL, wr.ret_buffptr, working_entry}
      BY <1>1 DEF DriverInv, Publishing, PublishFill, PublishOverwrite
    <3>. QED  BY <1>1, <1>2, <1>3, <1>4, <3>1, <3>2 DEF Referenced, SlotPtr
  <2>. QED  BY <1>1, <2>1 DEF DriverInv, HeapExact, Quiescent
<1>9. RingWhenUnlocked'
  BY <1>1 DEF RingWhenUnlocked, Quiescent
<1>. QED  BY <1>5, <1>6, <1>7, <1>8, <1>9 DEF DriverInv

(* The end of aesd_write: the ring is whole again, the displaced block is  *)
(* freed and the working entry has moved into its slot.                    *)
LEMMA FinishWriteStep ==
  ASSUME DriverInv, NEW p \in Proc, FinishWrite(p)
  PROVE  DriverInv'
<1>1. /\ lock = p /\ lock \in Proc /\ loaded /\ lock' = NULL
      /\ wr' = NoWrite /\ wr.todo = {} /\ working_entry' = NULL
      /\ previous_count' = 0 /\ pc' = [pc EXCEPT ![p] = "idle"]
      /\ UNCHANGED loaded
      /\ wr'.ret_buffptr = NULL
  BY DEF FinishWrite, DriverInv, LockDiscipline, Publishing, NoWrite
<1>2. /\ buffer \in Buffer /\ wr.slot \in Slot /\ wr.slot = buffer.in_offs
      /\ pc \in [Proc -> PC] /\ DOMAIN kheap \subseteq Ptr
      /\ working_entry \in Ptr
  BY <1>1 DEF DriverInv, DeviceTypeOK, WriteLocals, Publishing
<1>3. /\ buffer' \in Buffer /\ buffer'.entry = buffer.entry
      /\ buffer'.in_offs = Next1(buffer.in_offs)
      /\ buffer'.out_offs = buffer.out_offs
      /\ buffer'.full = IF wr.branch = "overwrite" THEN buffer.full
                        ELSE IF Next1(buffer.in_offs) = buffer.out_offs
                             THEN 1 ELSE 0
  BY <1>2, AdvanceInFields DEF FinishWrite
<1>4. DOMAIN kheap' = DOMAIN kheap \ {wr.ret_buffptr}
  BY HeapDomains DEF FinishWrite
<1>5. DeviceTypeOK'
  BY <1>1, <1>2, <1>3, <1>4, NoWriteType DEF DeviceTypeOK, Pointer, PC, DriverInv
<1>6. LockDiscipline'
  BY <1>1, <1>2 DEF DriverInv, LockDiscipline, PC
<1>7. SlotPtr(wr.slot) = working_entry
  BY <1>1 DEF DriverInv, Publishing, PublishFill, PublishOverwrite
<1>8. RingShape(buffer')
  <2>1. CASE wr.branch = "fill"
    <3>1. PublishFill /\ wr.branch # "overwrite"
      BY <1>1, <2>1 DEF DriverInv, Publishing
    <3>2. \A i \in Slot : Used(buffer', i) <=> i <= buffer.in_offs
      BY <1>2, <1>3, <1>7, <3>1 DEF PublishFill, Used, SlotPtr, Buffer, Slot
    <3>3. Next1(buffer.in_offs) =
            IF buffer.in_offs = MAXW - 1 THEN 0 ELSE buffer.in_offs + 1
      BY <1>2, Next1Value DEF Buffer
    <3>. QED  BY <1>2, <1>3, <3>1, <3>2, <3>3
              DEF RingShape, PublishFill, Buffer, Slot
  <2>2. CASE wr.branch = "overwrite"
    <3>1. PublishOverwrite
      BY <1>1, <2>2 DEF DriverInv, Publishing
    <3>. QED  BY <1>1, <1>2, <1>3, <2>2, <3>1
              DEF RingShape, PublishOverwrite, Used, SlotPtr
  <2>. QED  BY <1>1, <2>1, <2>2 DEF DriverInv, Publishing
<1>9. HeapExact'
  <2>1. \A i \in Slot : SlotPtr(i) # NULL => SlotPtr(i) # wr.ret_buffptr
    BY <1>1, <1>2, <1>7
    DEF DriverInv, Publishing, PublishFill, PublishOverwrite
  <2>2. \A i \in Slot : SlotPtr(i)' = SlotPtr(i)
    BY <1>3 DEF SlotPtr
  <2>3. \A i, j \in Slot :
          SlotPtr(i) # NULL /\ SlotPtr(i) = SlotPtr(j) => i = j
    BY <1>1, <1>2, <1>7 DEF DriverInv, Publishing
  <2>4. DOMAIN kheap = Referenced
    BY <1>1 DEF DriverInv, HeapExact
  <2>5. DOMAIN kheap' = Referenced'
    BY <1>1, <1>2, <1>4, <1>7, <2>1, <2>2, <2>4 DEF Referenced
  <2>. QED  BY <1>1, <2>2, <2>3, <2>5 DEF HeapExact
<1>10. RingWhenUnlocked'
  BY <1>8 DEF RingWhenUnlocked, RingShape, Used
<1>11. Publishing'
  BY <1>1 DEF Publishing
<1>. QED  BY <1>5, <1>6, <1>9, <1>10, <1>11 DEF DriverInv

----------------------------------------------------------------------------
(* Every step keeps the invariant.                                         *)
LEMMA NextDriverInv == DriverInv /\ [Next]_vars => DriverInv'
<1> SUFFICES ASSUME DriverInv, [Next]_vars PROVE DriverInv'
  OBVIOUS
<1> USE DEF device
<1>1. pc \in [Proc -> PC]
  BY DEF DriverInv, DeviceTypeOK
<1>2. \A p \in Proc : pc[p] # "closed" => loaded
  BY DEF DriverInv, LockDiscipline
<1>3. CASE aesd_init_module
  BY <1>3, InitModuleStep
<1>4. CASE aesd_cleanup_module
  BY <1>4, CleanupModuleStep
<1>5. ASSUME NEW p \in Proc, Step(p) PROVE DriverInv'
  <2>1. CASE aesd_open(p) \/ aesd_release(p) \/ LockInterrupted(p)
    BY <1>1, <1>2, <2>1, QuietStep
    DEF aesd_open, aesd_release, LockInterrupted, PC
  <2>2. ASSUME NEW count \in Count, aesd_read(p, count) PROVE DriverInv'
    BY <1>1, <1>2, <2>2, QuietStep DEF aesd_read
  <2>3. CASE WriteFails(p)
    <3>1. loaded /\ lock = NULL
      BY <1>2, <2>3 DEF WriteFails
    <3>2. CASE UNCHANGED <<loaded, device, pc, arg, f_pos>>
      BY <1>1, <3>2, QuietStep
    <3>3. ASSUME NEW e \in {ENOMEM, EFAULT}, NEW v, CleanupWorkingEntry(p, e, v)
          PROVE  DriverInv'
      BY <3>1, <3>3, WriteFailsStep
    <3>. QED  BY <2>3, <3>2, <3>3 DEF WriteFails
  <2>4. CASE WriteOops(p)
    BY <1>2, <2>4, WriteOopsStep DEF WriteOops
  <2>5. ASSUME NEW c \in Chunk, NEW q \in Address, NEW v \in Victims,
               aesd_write(p, c, q, v)
        PROVE  DriverInv'
    <3>1. loaded
      BY <1>2, <2>5 DEF aesd_write
    <3>. QED  BY <2>5, <3>1, WriteAppendsStep, WritePublishesStep
  <2>6. ASSUME NEW s \in {"buffptr", "size", "out_offs"}, PublishStore(p, s)
        PROVE  DriverInv'
    BY <2>6, PublishStoreStep
  <2>7. CASE FinishWrite(p)
    BY <2>7, FinishWriteStep
  <2>8. ASSUME NEW off \in SeekOffset, NEW whence,
               aesd_llseek(p, off, whence)
        PROVE  DriverInv'
    BY <1>1, <1>2, <2>8, QuietStep DEF aesd_llseek, SetPos, Leave, PC
  <2>9. CASE SeekEndPtr(p) \/ SeekEndSize(p)
    BY <1>1, <1>2, <2>9, QuietStep DEF SeekEndPtr, SeekEndSize, SetPos, Leave, PC
  <2>10. ASSUME NEW cmd \in WriteCmd, NEW off \in CmdOffset,
                aesd_ioctl(p, cmd, off)
         PROVE  DriverInv'
    BY <1>1, <1>2, <2>10, QuietStep DEF aesd_ioctl, Leave, PC
  <2>11. CASE SeekToOffs(p) \/ SeekToPtr(p) \/ SeekToSize(p)
    BY <1>1, <1>2, <2>11, QuietStep
    DEF SeekToOffs, SeekToPtr, SeekToSize, Leave, PC
  <2>. QED  BY <1>5, <2>1, <2>2, <2>3, <2>4, <2>5, <2>6, <2>7, <2>8, <2>9,
               <2>10, <2>11 DEF Step
<1>6. CASE UNCHANGED vars
  BY <1>1, <1>6, QuietStep DEF vars
<1>. QED  BY <1>3, <1>4, <1>5, <1>6 DEF Next

(* The invariant itself, for every instance.                               *)
THEOREM DriverInvAlways == Spec => []DriverInv
BY InitDriverInv, NextDriverInv, PTL DEF Spec

(* No leak, no double free and no use after free of kernel memory, for any *)
(* number of processes and any capacity, whatever allocations and copies   *)
(* fail and whenever the module is unloaded.                               *)
THEOREM HeapAlwaysExact == Spec => []HeapExact
<1>1. DriverInv => HeapExact
  BY DEF DriverInv
<1>. QED  BY DriverInvAlways, <1>1, PTL

(* Whoever gets the mutex finds a well-formed ring.                        *)
THEOREM RingAlwaysWhole == Spec => []RingWhenUnlocked
<1>1. DriverInv => RingWhenUnlocked
  BY DEF DriverInv
<1>. QED  BY DriverInvAlways, <1>1, PTL

----------------------------------------------------------------------------
(* Types of what the calls keep and return.                                *)

Text == Byte \cup {Junk}

HeapTypes == \A q \in DOMAIN kheap : kheap[q] \in Seq(Text)

(* A running ioctl has an offset of the unsigned type of its argument, and *)
(* a loop that is about to load a size has an index inside the array.      *)
CallTypes ==
  /\ arg \in [Proc -> [cmd : Nat, off : Int, i : Nat, index : Nat, acc : Nat]]
  /\ f_pos \in [Proc -> Nat]
  /\ ret \in [p : Proc \cup {NULL}, value : Int, data : Seq(Text)]
  /\ \A p \in Proc :
       /\ pc[p] \in {"ls_size", "io_ptr", "io_size"} => arg[p].index \in Slot
       /\ pc[p] \in {"io_offs", "io_ptr", "io_size"} => arg[p].off \in Nat

(* A sequence is a function on 1 .. n whose values have the right type.    *)
LEMMA MadeOf ==
  ASSUME NEW S, NEW n \in Nat, NEW f, f = [i \in 1 .. n |-> f[i]],
         \A i \in 1 .. n : f[i] \in S
  PROVE  f \in Seq(S) /\ Len(f) = n
<1>1. f \in Seq(S)
  BY IsASeq
<1>2. DOMAIN f = 1 .. n
  OBVIOUS
<1>. QED  BY <1>1, <1>2, LenProperties

(* An overrun turns the bytes of the block it hits into others.  It changes *)
(* no length, and no other block.                                          *)
LEMMA ScribbledBlocks ==
  ASSUME NEW h, \A a \in DOMAIN h : h[a] \in Seq(Text), NEW v
  PROVE  \A a \in DOMAIN h : /\ Scribble(h, v)[a] \in Seq(Text)
                             /\ Len(Scribble(h, v)[a]) = Len(h[a])
                             /\ a # v => Scribble(h, v)[a] = h[a]
<1> TAKE a \in DOMAIN h
<1> DEFINE junk == [i \in DOMAIN h[a] |-> Junk]
<1>1. Scribble(h, v)[a] = IF a = v THEN junk ELSE h[a]
  BY DEF Scribble
<1>2. DOMAIN h[a] = 1 .. Len(h[a]) /\ Len(h[a]) \in Nat /\ h[a] \in Seq(Text)
  BY LenProperties
<1>3. junk = [i \in 1 .. Len(h[a]) |-> junk[i]]
      /\ \A i \in 1 .. Len(h[a]) : junk[i] \in Text
  BY <1>2 DEF Text
<1>. HIDE DEF junk
<1>4. junk \in Seq(Text) /\ Len(junk) = Len(h[a])
  BY <1>2, <1>3, MadeOf
<1>. QED  BY <1>1, <1>2, <1>4

(* The working entry is as long as kmalloc or krealloc made it.            *)
LEMMA WorkingBlockType ==
  ASSUME DriverInv, HeapTypes, loaded, lock = NULL, NEW c \in Chunk
  PROVE  /\ WorkingBlock(c) \in Seq(Text)
         /\ Len(WorkingBlock(c)) =
              IF working_entry = NULL THEN Len(c) ELSE previous_count + Len(c)
<1> DEFINE old == IF working_entry = NULL THEN <<>> ELSE kheap[working_entry]
           len == IF working_entry = NULL THEN Len(c) ELSE previous_count + Len(c)
<1>1. c \in Seq(Byte) /\ Len(c) \in Nat /\ \A i \in 1 .. Len(c) : c[i] \in Byte
  BY ChunkAssumption, LenProperties, ElementOfSeq
<1>2. previous_count \in Nat
  BY DEF DriverInv, DeviceTypeOK
<1>3. old \in Seq(Text)
  <2>1. CASE working_entry = NULL
    BY <2>1, EmptySeq
  <2>2. CASE working_entry # NULL
    BY <2>2, Idle DEF HeapTypes
  <2>. QED  BY <2>1, <2>2
<1>4. Len(old) \in Nat /\ \A i \in 1 .. Len(old) : old[i] \in Text
  BY <1>3, LenProperties, ElementOfSeq
<1>5. len \in Nat
  BY <1>1, <1>2
<1>6. WorkingBlock(c) = [i \in 1 .. len |->
         IF i > previous_count /\ i <= previous_count + Len(c)
           THEN c[i - previous_count]
         ELSE IF i <= Len(old) THEN old[i] ELSE Junk]
  BY DEF WorkingBlock
<1>. HIDE DEF old, len
<1>7. \A i \in 1 .. len : WorkingBlock(c)[i] \in Text
  BY <1>1, <1>2, <1>4, <1>5, <1>6 DEF Text
<1>8. WorkingBlock(c) = [i \in 1 .. len |-> WorkingBlock(c)[i]]
  BY <1>6
<1>9. WorkingBlock(c) \in Seq(Text) /\ Len(WorkingBlock(c)) = len
  BY <1>5, <1>7, <1>8, MadeOf
<1>. QED  BY <1>9 DEF len

(* The heap after aesd_write: the working entry in its block, every other  *)
(* block as long as it was, and as it was unless the copy overran into it. *)
LEMMA WriteHeap ==
  ASSUME DriverInv, HeapTypes, loaded, NEW p \in Proc, NEW c \in Chunk,
         NEW q \in Address, NEW v, aesd_write(p, c, q, v)
  PROVE  /\ q \in DOMAIN kheap' /\ kheap'[q] = WorkingBlock(c)
         /\ \A a \in DOMAIN kheap' :
              /\ kheap'[a] \in Seq(Text)
              /\ a # q => /\ a \in DOMAIN kheap
                          /\ Len(kheap'[a]) = Len(kheap[a])
                          /\ a # v => kheap'[a] = kheap[a]
<1> DEFINE freed == Free(kheap, working_entry)
           hit   == Scribble(freed, v)
<1>1. lock = NULL
  BY DEF aesd_write
<1>2. kheap' = Alloc(hit, q, WorkingBlock(c))
  BY DEF aesd_write
<1>3. WorkingBlock(c) \in Seq(Text)
  BY <1>1, WorkingBlockType
<1>4. DOMAIN freed = DOMAIN kheap \ {working_entry}
  BY HeapDomains
<1>5. \A a \in DOMAIN freed : freed[a] = kheap[a] /\ freed[a] \in Seq(Text)
  BY <1>4 DEF Free, HeapTypes
<1>. HIDE DEF freed
<1>6. DOMAIN hit = DOMAIN freed
  BY HeapDomains
<1>7. \A a \in DOMAIN freed : /\ hit[a] \in Seq(Text)
                              /\ Len(hit[a]) = Len(freed[a])
                              /\ a # v => hit[a] = freed[a]
  BY <1>5, ScribbledBlocks
<1>. HIDE DEF hit
<1>8. DOMAIN kheap' = DOMAIN hit \cup {q}
  BY <1>2 DEF Alloc
<1>9. \A a \in DOMAIN kheap' :
        kheap'[a] = IF a = q THEN WorkingBlock(c) ELSE hit[a]
  BY <1>2 DEF Alloc
<1>. QED  BY <1>3, <1>4, <1>5, <1>6, <1>7, <1>8, <1>9

(* The heap after an error exit: without the working entry, and otherwise  *)
(* as it was, unless the copy that failed overran into a block.            *)
LEMMA CleanupHeap ==
  ASSUME HeapTypes, NEW v
  PROVE  LET h == Free(Scribble(kheap, v), working_entry)
         IN  /\ DOMAIN h = DOMAIN kheap \ {working_entry}
             /\ \A a \in DOMAIN h :
                  /\ h[a] \in Seq(Text)
                  /\ Len(h[a]) = Len(kheap[a])
                  /\ a # v => h[a] = kheap[a]
<1> DEFINE hit == Scribble(kheap, v)
           h == Free(hit, working_entry)
<1>1. DOMAIN hit = DOMAIN kheap
  BY HeapDomains
<1>2. \A a \in DOMAIN kheap :
        /\ hit[a] \in Seq(Text)
        /\ Len(hit[a]) = Len(kheap[a])
        /\ a # v => hit[a] = kheap[a]
  BY ScribbledBlocks DEF HeapTypes
<1>3. h = [a \in DOMAIN kheap \ {working_entry} |-> hit[a]]
  BY <1>1 DEF Free
<1>. HIDE DEF hit
<1>4. h = [a \in DOMAIN kheap \ {working_entry} |-> hit[a]]
  BY <1>3
<1>. HIDE DEF h
<1>5. /\ DOMAIN h = DOMAIN kheap \ {working_entry}
      /\ \A a \in DOMAIN h :
           /\ h[a] \in Seq(Text)
           /\ Len(h[a]) = Len(kheap[a])
           /\ a # v => h[a] = kheap[a]
  BY <1>2, <1>4
<1>. QED  BY <1>5 DEF h, hit

(* Every step leaves blocks of bytes in the heap.                          *)
LEMMA NextHeapTypes == DriverInv /\ HeapTypes /\ [Next]_vars => HeapTypes'
<1> SUFFICES ASSUME DriverInv, HeapTypes, [Next]_vars PROVE HeapTypes'
  OBVIOUS
<1>1. ASSUME UNCHANGED kheap PROVE HeapTypes'
  BY <1>1 DEF HeapTypes
<1>2. ASSUME NEW q, kheap' = Free(kheap, q) PROVE HeapTypes'
  <2>1. DOMAIN kheap' = DOMAIN kheap \ {q}
    BY <1>2, HeapDomains
  <2>2. \A a \in DOMAIN kheap' : kheap'[a] = kheap[a]
    BY <1>2, <2>1 DEF Free
  <2>. QED  BY <2>1, <2>2 DEF HeapTypes
<1>3. CASE aesd_init_module
  BY <1>1, <1>3 DEF aesd_init_module
<1>4. CASE aesd_cleanup_module
  BY <1>4 DEF aesd_cleanup_module, HeapTypes
<1>5. ASSUME NEW p \in Proc, Step(p) PROVE HeapTypes'
  <2>1. CASE WriteFails(p)
    <3>1. ASSUME NEW v, kheap' = Free(Scribble(kheap, v), working_entry)
          PROVE  HeapTypes'
      <4> DEFINE h == Free(Scribble(kheap, v), working_entry)
      <4>1. \A a \in DOMAIN h : h[a] \in Seq(Text)
        BY CleanupHeap
      <4>. QED  BY <3>1, <4>1 DEF HeapTypes
    <3>. QED  BY <1>1, <2>1, <3>1 DEF WriteFails, CleanupWorkingEntry, device
  <2>2. ASSUME NEW c \in Chunk, NEW q \in Address, NEW v \in Victims,
               aesd_write(p, c, q, v)
        PROVE  HeapTypes'
    <3>1. loaded
      BY <2>2 DEF DriverInv, LockDiscipline, aesd_write
    <3>. QED  BY <2>2, <3>1, WriteHeap DEF HeapTypes
  <2>3. CASE FinishWrite(p)
    BY <1>2, <2>3 DEF FinishWrite
  <2>4. CASE UNCHANGED kheap
    BY <1>1, <2>4
  <2>. QED  BY <1>5, <2>1, <2>2, <2>3, <2>4
            DEF Step, aesd_open, aesd_release, LockInterrupted, aesd_read,
                WriteOops, PublishStore, aesd_llseek, SeekEndPtr, SeekEndSize,
                aesd_ioctl, SeekToOffs, SeekToPtr, SeekToSize, device
<1>6. CASE UNCHANGED vars
  BY <1>1, <1>6 DEF vars, device
<1>. QED  BY <1>3, <1>4, <1>5, <1>6 DEF Next

(* What a read delivers and how far it moves the file position.            *)
LEMMA ReadTypes ==
  ASSUME DriverInv, HeapTypes, CallTypes, loaded, NEW p \in Proc,
         NEW count \in Count, aesd_read(p, count)
  PROVE  f_pos' \in [Proc -> Nat]
         /\ ret' \in [p : Proc \cup {NULL}, value : Int, data : Seq(Text)]
<1> DEFINE found == aesd_circular_buffer_find_entry_offset_for_fpos(buffer, f_pos[p])
           entry == buffer.entry[found.slot]
           left  == entry.size - found.offset
           n     == IF left > count THEN count ELSE left
           data  == Bytes(kheap[entry.buffptr], found.offset, n)
<1>1. lock = NULL /\ buffer \in Buffer /\ f_pos[p] \in Nat /\ count \in Nat
  BY ArgAssumption DEF aesd_read, DriverInv, DeviceTypeOK, CallTypes
<1>2. <<>> \in Seq(Text) /\ EFAULT \in Int
  BY EmptySeq DEF EFAULT
<1>3. \/ Returns(p, 0, <<>>) /\ UNCHANGED f_pos
      \/ /\ found # NotFound
         /\ Returns(p, n, data)
         /\ f_pos' = [f_pos EXCEPT ![p] = @ + n]
      \/ Returns(p, EFAULT, <<>>) /\ UNCHANGED f_pos
  BY DEF aesd_read
<1>4. ASSUME found # NotFound
      PROVE  n \in Nat /\ data \in Seq(Text)
  <2>1. PICK i \in Slot :
           LET sum == CharOffsetBytes(buffer)
           IN  /\ buffer.entry[SlotAt(buffer, i)].buffptr # NULL
               /\ sum[i] <= f_pos[p]
               /\ f_pos[p] < sum[i] + buffer.entry[SlotAt(buffer, i)].size
               /\ found = [slot |-> SlotAt(buffer, i), offset |-> f_pos[p] - sum[i]]
    BY <1>1, <1>4, FindStops
  <2> DEFINE sum == CharOffsetBytes(buffer)
  <2>2. /\ SlotAt(buffer, i) \in Slot /\ entry = buffer.entry[SlotAt(buffer, i)]
        /\ entry.size \in Nat /\ sum[i] \in Nat /\ found.offset = f_pos[p] - sum[i]
    BY <1>1, <2>1, SearchSlots, CharOffsetBytesSteps DEF Slot
  <2>3. found.offset \in Nat /\ left \in Nat /\ left > 0
    BY <1>1, <2>1, <2>2
  <2>4. n \in Nat
    BY <1>1, <2>3
  <2>5. entry.buffptr \in DOMAIN kheap
    BY <1>1, <2>1, <2>2, Idle DEF SlotPtr
  <2> DEFINE block == kheap[entry.buffptr]
  <2>6. block \in Seq(Text)
    BY <2>5 DEF HeapTypes
  <2>7. Len(block) \in Nat /\ \A j \in 1 .. Len(block) : block[j] \in Text
    BY <2>6, LenProperties, ElementOfSeq
  <2>8. data = [j \in 1 .. n |-> IF found.offset + j <= Len(block)
                                 THEN block[found.offset + j] ELSE Junk]
    BY DEF Bytes
  <2>. HIDE DEF block, n, data, found
  <2>9. \A j \in 1 .. n : data[j] \in Text
    BY <2>3, <2>4, <2>7, <2>8 DEF Text
  <2>10. data = [j \in 1 .. n |-> data[j]]
    BY <2>8
  <2>. QED  BY <2>4, <2>9, <2>10, MadeOf
<1>. HIDE DEF n, data, found
<1>5. CASE Returns(p, n, data) /\ f_pos' = [f_pos EXCEPT ![p] = @ + n] /\ found # NotFound
  <2>1. f_pos' \in [Proc -> Nat]
    BY <1>1, <1>4, <1>5 DEF CallTypes
  <2>. QED  BY <1>4, <1>5, <2>1 DEF Returns
<1>6. CASE (Returns(p, 0, <<>>) \/ Returns(p, EFAULT, <<>>)) /\ UNCHANGED f_pos
  <2>1. f_pos' \in [Proc -> Nat]
    BY <1>6 DEF CallTypes
  <2>2. ASSUME NEW value \in {0, EFAULT}, Returns(p, value, <<>>)
        PROVE  ret' \in [p : Proc \cup {NULL}, value : Int, data : Seq(Text)]
    <3>1. value \in Int
      BY <1>2
    <3>. QED  BY <1>2, <2>2, <3>1 DEF Returns
  <2>. QED  BY <1>6, <2>1, <2>2
<1>. QED  BY <1>3, <1>5, <1>6

(* A call that returns to its caller forgets its locals.                   *)
LEMMA LeaveTypes ==
  ASSUME DeviceTypeOK, CallTypes, NEW p \in Proc, NEW value \in Int,
         Leave(p, value), f_pos' \in [Proc -> Nat]
  PROVE  CallTypes'
<1>1. NoArg \in [cmd : Nat, off : Int, i : Nat, index : Nat, acc : Nat]
  BY DEF NoArg
<1>2. <<>> \in Seq(Text)
  BY EmptySeq
<1>3. ret' \in [p : Proc \cup {NULL}, value : Int, data : Seq(Text)]
  BY <1>2 DEF Leave, Returns
<1>4. arg' \in [Proc -> [cmd : Nat, off : Int, i : Nat, index : Nat, acc : Nat]]
  BY <1>1 DEF Leave, CallTypes
<1>5. /\ pc'[p] = "idle"
      /\ \A u \in Proc : u # p => pc'[u] = pc[u] /\ arg'[u] = arg[u]
  BY DEF Leave, CallTypes, DeviceTypeOK
<1>. QED  BY <1>3, <1>4, <1>5 DEF CallTypes

(* So does one that sets the file position, since a negative one is        *)
(* refused.                                                                *)
LEMMA SetPosTypes ==
  ASSUME DeviceTypeOK, CallTypes, NEW p \in Proc, NEW newpos \in Int,
         SetPos(p, newpos)
  PROVE  CallTypes'
<1>1. EINVAL \in Int
  BY DEF EINVAL
<1>2. f_pos' \in [Proc -> Nat]
  <2>1. CASE newpos < 0
    BY <2>1 DEF SetPos, CallTypes
  <2>2. CASE ~(newpos < 0)
    <3>1. newpos \in Nat
      BY <2>2
    <3>. QED  BY <2>2, <3>1 DEF SetPos, CallTypes
  <2>. QED  BY <2>1, <2>2
<1>. QED  BY <1>1, <1>2, LeaveTypes DEF SetPos

(* A step inside a loop: the process stays in its call and keeps locals of *)
(* the right type.                                                         *)
LEMMA LoopTypes ==
  ASSUME DeviceTypeOK, CallTypes, NEW p \in Proc,
         UNCHANGED <<f_pos, ret>>,
         NEW x \in PC, pc' = [pc EXCEPT ![p] = x],
         NEW r \in [cmd : Nat, off : Int, i : Nat, index : Nat, acc : Nat],
         arg' = [arg EXCEPT ![p] = r],
         x \in {"ls_size", "io_ptr", "io_size"} => r.index \in Slot,
         x \in {"io_offs", "io_ptr", "io_size"} => r.off \in Nat
  PROVE  CallTypes'
<1>1. arg' \in [Proc -> [cmd : Nat, off : Int, i : Nat, index : Nat, acc : Nat]]
  BY DEF CallTypes
<1>2. /\ pc'[p] = x /\ arg'[p] = r
      /\ \A u \in Proc : u # p => pc'[u] = pc[u] /\ arg'[u] = arg[u]
  BY DEF CallTypes, DeviceTypeOK
<1>. QED  BY <1>1, <1>2 DEF CallTypes

(* Every step leaves locals, positions and answers of the right types.     *)
LEMMA NextCallTypes ==
  DriverInv /\ HeapTypes /\ CallTypes /\ [Next]_vars => CallTypes'
<1> SUFFICES ASSUME DriverInv, HeapTypes, CallTypes, [Next]_vars PROVE CallTypes'
  OBVIOUS
<1> DEFINE Locals == [cmd : Nat, off : Int, i : Nat, index : Nat, acc : Nat]
           Answer == [p : Proc \cup {NULL}, value : Int, data : Seq(Text)]
<1>1. DeviceTypeOK /\ pc \in [Proc -> PC] /\ buffer \in Buffer
  BY DEF DriverInv, DeviceTypeOK
<1>2. \A p \in Proc : pc[p] # "closed" => loaded
  BY DEF DriverInv, LockDiscipline
<1>3. arg \in [Proc -> Locals] /\ f_pos \in [Proc -> Nat] /\ ret \in Answer
  BY DEF CallTypes
<1>4. ENOMEM \in Int /\ EFAULT \in Int /\ EINVAL \in Int /\ ENOTTY \in Int
      /\ ERESTARTSYS \in Int /\ <<>> \in Seq(Text)
  BY EmptySeq DEF ENOMEM, EFAULT, EINVAL, ENOTTY, ERESTARTSYS
\* Returning a number and no data.
<1>5. ASSUME NEW p \in Proc, NEW value \in Int, Returns(p, value, <<>>)
      PROVE  ret' \in Answer
  BY <1>4, <1>5 DEF Returns
\* Steps that touch no locals of llseek and ioctl.
<1>6. ASSUME NEW p \in Proc, UNCHANGED arg,
             UNCHANGED pc
               \/ \E x \in {"closed", "idle", "write"} : pc' = [pc EXCEPT ![p] = x],
             f_pos' \in [Proc -> Nat], ret' \in Answer
      PROVE  CallTypes'
  <2>1. \A u \in Proc : pc'[u] = pc[u] \/ pc'[u] \in {"closed", "idle", "write"}
    BY <1>1, <1>6
  <2>. QED  BY <1>3, <1>6, <2>1 DEF CallTypes
<1>7. CASE aesd_init_module \/ aesd_cleanup_module \/ UNCHANGED vars
  BY <1>3, <1>7 DEF CallTypes, aesd_init_module, aesd_cleanup_module, vars
<1>8. ASSUME NEW p \in Proc, Step(p) PROVE CallTypes'
  <2>1. arg[p] \in Locals /\ f_pos[p] \in Nat
    BY <1>3
  <2>2. CASE aesd_open(p) \/ aesd_release(p)
    <3>1. ret' \in Answer
      BY <1>3, <1>5, <2>2 DEF aesd_open, aesd_release
    <3>2. f_pos' \in [Proc -> Nat]
      <4>1. f_pos' = [f_pos EXCEPT ![p] = 0]
        BY <2>2 DEF aesd_open, aesd_release
      <4>. QED  BY <1>3, <4>1
    <3>. QED  BY <1>6, <2>2, <3>1, <3>2 DEF aesd_open, aesd_release
  <2>3. CASE LockInterrupted(p)
    BY <1>3, <1>4, <1>5, <1>6, <2>3 DEF LockInterrupted
  <2>4. ASSUME NEW count \in Count, aesd_read(p, count) PROVE CallTypes'
    BY <1>2, <1>6, <2>4, ReadTypes DEF aesd_read
  <2>5. CASE WriteFails(p)
    BY <1>3, <1>4, <1>5, <1>6, <2>5 DEF WriteFails, CleanupWorkingEntry
  <2>6. CASE WriteOops(p)
    BY <1>3, <1>6, <2>6 DEF WriteOops
  <2>7. ASSUME NEW c \in Chunk, NEW q \in Address, NEW v \in Victims,
               aesd_write(p, c, q, v)
        PROVE  CallTypes'
    <3>1. Len(c) \in Int
      BY ChunkAssumption, LenProperties
    <3>2. ret' \in Answer
      BY <1>3, <1>5, <2>7, <3>1 DEF aesd_write
    <3>3. UNCHANGED <<arg, f_pos>>
          /\ (UNCHANGED pc \/ pc' = [pc EXCEPT ![p] = "write"])
      BY <2>7 DEF aesd_write
    <3>. QED  BY <1>3, <1>6, <3>2, <3>3
  <2>8. ASSUME NEW s \in {"buffptr", "size", "out_offs"}, PublishStore(p, s)
        PROVE  CallTypes'
    BY <1>3, <1>6, <2>8 DEF PublishStore
  <2>9. CASE FinishWrite(p)
    <3>1. wr.count \in Int
      BY <1>1 DEF DeviceTypeOK, WriteLocals
    <3>. QED  BY <1>3, <1>5, <1>6, <2>9, <3>1 DEF FinishWrite
  <2>10. ASSUME NEW off \in SeekOffset, NEW whence, aesd_llseek(p, off, whence)
         PROVE  CallTypes'
    <3>1. off \in Int
      BY ArgAssumption
    <3>2. CASE SetPos(p, off)
      BY <1>1, <3>1, <3>2, SetPosTypes
    <3>3. CASE SetPos(p, f_pos[p] + off)
      BY <1>1, <2>1, <3>1, <3>3, SetPosTypes
    <3>4. CASE /\ pc' = [pc EXCEPT ![p] = "ls_ptr"]
               /\ arg' = [arg EXCEPT ![p] = [NoArg EXCEPT !.off = off]]
               /\ UNCHANGED <<f_pos, ret>>
      <4>1. [NoArg EXCEPT !.off = off] \in Locals
        BY <3>1 DEF NoArg
      <4>2. "ls_ptr" \in PC \ {"ls_size", "io_offs", "io_ptr", "io_size"}
        BY DEF PC
      <4>. QED  BY <1>1, <3>4, <4>1, <4>2, LoopTypes
    <3>5. CASE Leave(p, EINVAL) /\ UNCHANGED f_pos
      BY <1>1, <1>3, <1>4, <3>5, LeaveTypes
    <3>. QED  BY <2>10, <3>2, <3>3, <3>4, <3>5 DEF aesd_llseek
  <2>11. CASE SeekEndPtr(p)
    <3>1. CASE SetPos(p, arg[p].acc + arg[p].off)
      <4>1. arg[p].acc + arg[p].off \in Int
        BY <2>1
      <4>. QED  BY <1>1, <3>1, <4>1, SetPosTypes
    <3>2. CASE /\ arg[p].index < MAXW
               /\ pc' = [pc EXCEPT ![p] = "ls_size"]
               /\ UNCHANGED <<arg, f_pos, ret>>
      <4>1. arg' = [arg EXCEPT ![p] = arg[p]] /\ arg[p].index \in Slot
        BY <1>3, <2>1, <3>2 DEF Slot
      <4>2. "ls_size" \in PC \ {"io_offs", "io_ptr", "io_size"}
        BY DEF PC
      <4>. QED  BY <1>1, <2>1, <3>2, <4>1, <4>2, LoopTypes
    <3>3. CASE /\ arg' = [arg EXCEPT ![p].index = @ + 1]
               /\ UNCHANGED <<pc, f_pos, ret>>
      <4>1. arg' \in [Proc -> Locals]
        <5>1. arg[p].index + 1 \in Nat
          BY <2>1
        <5>2. [arg[p] EXCEPT !.index = @ + 1] \in Locals
          BY <2>1, <5>1
        <5>. QED  BY <1>3, <3>3, <5>2
      <4>2. \A u \in Proc : u # p => arg'[u] = arg[u]
        BY <1>3, <3>3
      <4>3. pc[p] = "ls_ptr"
        BY <2>11 DEF SeekEndPtr
      <4>. QED  BY <1>3, <3>3, <4>1, <4>2, <4>3 DEF CallTypes
    <3>. QED  BY <2>11, <3>1, <3>2, <3>3 DEF SeekEndPtr
  <2>12. CASE SeekEndSize(p)
    <3> DEFINE r == [arg[p] EXCEPT !.acc = @ + buffer.entry[arg[p].index].size,
                                   !.index = @ + 1]
    <3>1. arg[p].index \in Slot
      BY <2>12 DEF SeekEndSize, CallTypes
    <3>2. buffer.entry[arg[p].index].size \in Nat
      BY <1>1, <3>1 DEF Buffer, Entry
    <3>3. r \in Locals
      <4>1. arg[p].acc + buffer.entry[arg[p].index].size \in Nat
            /\ arg[p].index + 1 \in Nat
        BY <2>1, <3>2
      <4>. QED  BY <2>1, <4>1
    <3>4. arg' = [arg EXCEPT ![p] = r] /\ pc' = [pc EXCEPT ![p] = "ls_ptr"]
          /\ UNCHANGED <<f_pos, ret>>
      BY <1>3, <2>1, <2>12 DEF SeekEndSize
    <3>5. "ls_ptr" \in PC \ {"ls_size", "io_offs", "io_ptr", "io_size"}
      BY DEF PC
    <3>. HIDE DEF r
    <3>. QED  BY <1>1, <3>3, <3>4, <3>5, LoopTypes
  <2>13. ASSUME NEW cmd \in WriteCmd, NEW off \in CmdOffset, aesd_ioctl(p, cmd, off)
         PROVE  CallTypes'
    <3>1. cmd \in Nat /\ off \in Nat /\ off \in Int
      BY ArgAssumption
    <3>2. CASE /\ pc' = [pc EXCEPT ![p] = "io_offs"]
               /\ arg' = [arg EXCEPT ![p] = [NoArg EXCEPT !.cmd = cmd, !.off = off]]
               /\ UNCHANGED ret
      <4> DEFINE r == [NoArg EXCEPT !.cmd = cmd, !.off = off]
      <4>1. r \in Locals /\ r.off \in Nat
        BY <3>1 DEF NoArg
      <4>2. UNCHANGED f_pos
        BY <2>13 DEF aesd_ioctl
      <4>. HIDE DEF r
      <4>3. arg' = [arg EXCEPT ![p] = r]
        BY <3>2 DEF r
      <4>4. "io_offs" \in PC \ {"ls_size", "io_ptr", "io_size"}
        BY DEF PC
      <4>. QED  BY <1>1, <3>2, <4>1, <4>2, <4>3, <4>4, LoopTypes
    <3>3. ASSUME NEW e \in {EINVAL, EFAULT, ENOTTY}, Leave(p, e) PROVE CallTypes'
      <4>1. e \in Int /\ f_pos' \in [Proc -> Nat]
        BY <1>3, <1>4, <2>13 DEF aesd_ioctl
      <4>. QED  BY <1>1, <3>3, <4>1, LeaveTypes
    <3>. QED  BY <2>13, <3>2, <3>3 DEF aesd_ioctl
  <2>14. CASE SeekToOffs(p)
    <3> DEFINE r == [arg[p] EXCEPT !.index = SlotAt(buffer, arg[p].i)]
    <3>1. SlotAt(buffer, arg[p].i) \in Slot
      <4>1. buffer.out_offs + arg[p].i \in Int
        BY <1>1, <2>1 DEF Buffer, Slot
      <4>. HIDE DEF Locals
      <4>. QED  BY <4>1 DEF SlotAt, Slot
    <3>2. arg[p].off \in Nat
      BY <2>14 DEF SeekToOffs, CallTypes
    <3>3. r \in Locals /\ r.index \in Slot /\ r.off \in Nat
      BY <2>1, <3>1, <3>2 DEF Slot
    <3>4. arg' = [arg EXCEPT ![p] = r] /\ pc' = [pc EXCEPT ![p] = "io_ptr"]
          /\ UNCHANGED <<f_pos, ret>>
      BY <1>3, <2>1, <2>14 DEF SeekToOffs
    <3>5. "io_ptr" \in PC
      BY DEF PC
    <3>. HIDE DEF r
    <3>. QED  BY <1>1, <3>3, <3>4, <3>5, LoopTypes
  <2>15. CASE SeekToPtr(p)
    <3>1. CASE Leave(p, EINVAL)
      <4>1. f_pos' \in [Proc -> Nat]
        BY <1>3, <2>15 DEF SeekToPtr
      <4>. QED  BY <1>1, <1>4, <3>1, <4>1, LeaveTypes
    <3>2. CASE pc' = [pc EXCEPT ![p] = "io_size"] /\ UNCHANGED <<arg, ret>>
      <4>1. arg[p].index \in Slot /\ arg[p].off \in Nat /\ UNCHANGED f_pos
        BY <2>15 DEF SeekToPtr, CallTypes
      <4>2. arg' = [arg EXCEPT ![p] = arg[p]]
        BY <1>3, <3>2
      <4>3. "io_size" \in PC
        BY DEF PC
      <4>. QED  BY <1>1, <2>1, <3>2, <4>1, <4>2, <4>3, LoopTypes
    <3>. QED  BY <2>15, <3>1, <3>2 DEF SeekToPtr
  <2>16. CASE SeekToSize(p)
    <3> DEFINE size == buffer.entry[arg[p].index].size
               r == [arg[p] EXCEPT !.acc = @ + size, !.i = @ + 1]
    <3>1. arg[p].index \in Slot /\ arg[p].off \in Nat
      BY <2>16 DEF SeekToSize, CallTypes
    <3>2. size \in Nat
      BY <1>1, <3>1 DEF Buffer, Entry
    <3>3. CASE /\ arg' = [arg EXCEPT ![p].acc = @ + size, ![p].i = @ + 1]
               /\ pc' = [pc EXCEPT ![p] = "io_offs"]
               /\ UNCHANGED <<f_pos, ret>>
      <4>1. r \in Locals /\ r.off \in Nat
        <5>1. arg[p].acc + size \in Nat /\ arg[p].i + 1 \in Nat
          BY <2>1, <3>2
        <5>. HIDE DEF size
        <5>. QED  BY <2>1, <3>1, <5>1
      <4>2. arg' = [arg EXCEPT ![p] = r]
        BY <1>3, <2>1, <3>3
      <4>3. "io_offs" \in PC \ {"ls_size", "io_ptr", "io_size"}
        BY DEF PC
      <4>. HIDE DEF r
      <4>. QED  BY <1>1, <3>3, <4>1, <4>2, <4>3, LoopTypes
    <3>4. CASE Leave(p, EINVAL) /\ UNCHANGED f_pos
      BY <1>1, <1>3, <1>4, <3>4, LeaveTypes
    <3>5. CASE Leave(p, 0) /\ f_pos' = [f_pos EXCEPT ![p] = arg[p].acc + arg[p].off]
      <4>1. arg[p].acc + arg[p].off \in Nat
        BY <2>1, <3>1
      <4>2. f_pos' \in [Proc -> Nat]
        BY <1>3, <3>5, <4>1
      <4>. QED  BY <1>1, <3>5, <4>2, LeaveTypes
    <3>. QED  BY <2>16, <3>3, <3>4, <3>5 DEF SeekToSize
  <2>. QED  BY <1>8, <2>2, <2>3, <2>4, <2>5, <2>6, <2>7, <2>8, <2>9, <2>10, <2>11,
               <2>12, <2>13, <2>14, <2>15, <2>16 DEF Step
<1>. QED  BY <1>7, <1>8 DEF Next

(* Every variable of the driver always has the type of the C object it     *)
(* stands for: file positions and accumulated sizes never become negative, *)
(* and what a read delivers are bytes, whatever interleaving of the calls  *)
(* without the mutex and whatever failures.                                *)
THEOREM TypeAlways == Spec => []TypeOK
<1> DEFINE IInv == DriverInv /\ HeapTypes /\ CallTypes
<1>1. Init => IInv
  <2> SUFFICES ASSUME Init PROVE HeapTypes /\ CallTypes
    BY InitDriverInv
  <2>1. HeapTypes
    BY DEF Init, HeapTypes
  <2>2. <<>> \in Seq(Text)
    BY EmptySeq
  <2>3. ret \in [p : Proc \cup {NULL}, value : Int, data : Seq(Text)]
    BY <2>2 DEF Init
  <2>. QED  BY <2>1, <2>3 DEF Init, CallTypes, NoArg
<1>2. IInv /\ [Next]_vars => IInv'
  BY NextDriverInv, NextHeapTypes, NextCallTypes
<1>3. IInv => TypeOK
  BY DEF DriverInv, HeapTypes, CallTypes, TypeOK, Text
<1>. QED  BY <1>1, <1>2, <1>3, PTL DEF Spec

----------------------------------------------------------------------------
(* Sizes.  When krealloc or copy_from_user fails, the working entry is     *)
(* freed but previous_count keeps its value, and the next command gets a   *)
(* size its block does not have (the run driver_entry_size).  These are    *)
(* the only ways: every other step keeps every size right.                 *)

NoLostCount == Faults \cap {"krealloc", "copy_from_user"} = {}

(* The first chunk is not counted twice: after every aesd_write the block  *)
(* holds previous_count bytes and the new ones.                            *)
LEMMA WriteLength ==
  ASSUME DriverInv, HeapTypes, PendingCounted, loaded, lock = NULL, NEW c \in Chunk
  PROVE  Len(WorkingBlock(c)) = previous_count + Len(c)
<1>1. Len(WorkingBlock(c)) =
        IF working_entry = NULL THEN Len(c) ELSE previous_count + Len(c)
  BY WorkingBlockType
<1>2. Len(c) \in Nat
  BY ChunkAssumption, LenProperties
<1>3. working_entry = NULL => previous_count = 0
  BY DEF PendingCounted
<1>. QED  BY <1>1, <1>2, <1>3

(* Both outcomes of a write.                                               *)
LEMMA WriteCounted ==
  ASSUME DriverInv, HeapTypes, Counted, loaded, NEW p \in Proc, NEW c \in Chunk,
         NEW q \in Address, NEW v, aesd_write(p, c, q, v)
  PROVE  Counted'
<1>1. lock = NULL /\ UNCHANGED <<loaded, buffer>> /\ lock \notin Proc
  BY DEF aesd_write
<1>2. q \in Ptr /\ working_entry' = q
  BY WriteAllocates
<1>3. Len(kheap'[q]) = previous_count + Len(c)
  <2>1. PendingCounted
    BY DEF Counted
  <2>. QED  BY <1>1, <2>1, WriteHeap, WriteLength
<1>4. previous_count \in Nat /\ Len(c) \in Nat
  BY ChunkAssumption, LenProperties DEF DriverInv, DeviceTypeOK
<1>5. ASSUME NEW i \in Slot, SlotPtr(i) # NULL
      PROVE  buffer.entry[i].size = Len(kheap'[SlotPtr(i)])
  <2>1. SlotPtr(i) # q /\ SlotPtr(i) \in DOMAIN kheap'
    BY <1>5, WriteAllocates
  <2>2. Len(kheap'[SlotPtr(i)]) = Len(kheap[SlotPtr(i)])
    BY <2>1, WriteHeap
  <2>. QED  BY <1>1, <1>5, <2>2 DEF Counted, PendingCounted
<1>6. \A i \in Slot : SlotPtr(i)' = SlotPtr(i)
  BY <1>1 DEF SlotPtr
<1>7. CASE /\ previous_count' = previous_count + Len(c)
           /\ UNCHANGED <<lock, wr, pc>>
  BY <1>1, <1>2, <1>3, <1>5, <1>6, <1>7 DEF Counted, PendingCounted
<1>8. CASE lock' = p /\ wr'.e.size = Len(c) + previous_count
           /\ "size" \in wr'.todo
  BY <1>1, <1>2, <1>3, <1>4, <1>5, <1>6, <1>8 DEF Counted, PendingCounted
<1>. QED  BY <1>7, <1>8 DEF aesd_write

(* A store of add_entry gives its slot the size that is being published.   *)
LEMMA StoreCounted ==
  ASSUME DriverInv, Counted, NEW p \in Proc,
         NEW s \in {"buffptr", "size", "out_offs"}, PublishStore(p, s)
  PROVE  Counted'
<1>1. /\ lock \in Proc /\ loaded
      /\ UNCHANGED <<loaded, working_entry, previous_count, kheap, lock>>
  BY DEF PublishStore, DriverInv, LockDiscipline, Publishing
<1>2. /\ buffer \in Buffer /\ wr \in WriteLocals
      /\ wr.e \in Entry /\ wr.slot \in Slot
  BY DEF DriverInv, DeviceTypeOK, WriteLocals
<1>3. wr'.todo = wr.todo \ {s} /\ wr'.e = wr.e /\ wr'.slot = wr.slot
  BY <1>2 DEF PublishStore, WriteLocals
<1>4. /\ \A i \in Slot \ {wr.slot} : buffer'.entry[i] = buffer.entry[i]
      /\ buffer'.entry[wr.slot].size = IF s = "size" THEN wr.e.size
                                       ELSE buffer.entry[wr.slot].size
  <2>1. CASE s = "buffptr"
    BY <1>2, <2>1 DEF PublishStore, StoreBuffptr, Buffer, Entry
  <2>2. CASE s = "size"
    BY <1>2, <2>2 DEF PublishStore, StoreSize, Buffer, Entry
  <2>3. CASE s = "out_offs"
    BY <1>2, <2>3, AdvanceOutFields DEF PublishStore
  <2>. QED  BY <2>1, <2>2, <2>3
<1>. QED  BY <1>1, <1>2, <1>3, <1>4 DEF Counted, PendingCounted, SlotPtr

(* When add_entry is done the slot has the block and its size.             *)
LEMMA FinishCounted ==
  ASSUME DriverInv, Counted, NEW p \in Proc, FinishWrite(p)
  PROVE  Counted'
<1>1. /\ lock = p /\ lock \in Proc /\ loaded /\ lock' = NULL
      /\ wr.todo = {} /\ working_entry' = NULL /\ previous_count' = 0
      /\ kheap' = Free(kheap, wr.ret_buffptr)
  BY DEF FinishWrite, DriverInv, LockDiscipline, Publishing
<1>2. buffer \in Buffer /\ wr.slot \in Slot /\ working_entry \in Ptr
  BY <1>1 DEF DriverInv, DeviceTypeOK, WriteLocals, Publishing
<1>3. buffer'.entry = buffer.entry
  BY <1>2, AdvanceInFields DEF FinishWrite
<1>4. SlotPtr(wr.slot) = working_entry
      /\ buffer.entry[wr.slot].size = Len(kheap[working_entry])
  BY <1>1, <1>2
  DEF DriverInv, Publishing, PublishFill, PublishOverwrite, Counted, PendingCounted
<1>5. \A i \in Slot : SlotPtr(i) # NULL =>
        buffer.entry[i].size = Len(kheap[SlotPtr(i)])
  BY <1>1, <1>4 DEF Counted, PendingCounted
<1>6. ASSUME NEW i \in Slot, SlotPtr(i) # NULL
      PROVE  kheap'[SlotPtr(i)] = kheap[SlotPtr(i)]
  <2>1. SlotPtr(i) # wr.ret_buffptr
    BY <1>1, <1>2, <1>4, <1>6
    DEF DriverInv, Publishing, PublishFill, PublishOverwrite
  <2>2. SlotPtr(i) \in DOMAIN kheap
    <3>1. SlotPtr(i) # ZERO_SIZE_PTR
      BY SlotPtrType DEF Pointer, DriverInv
    <3>. QED  BY <1>1, <1>6, <3>1 DEF DriverInv, HeapExact, Referenced
  <2>. QED  BY <1>1, <2>1, <2>2 DEF Free
<1>7. \A i \in Slot : SlotPtr(i)' = SlotPtr(i)
  BY <1>3 DEF SlotPtr
<1>. QED  BY <1>1, <1>3, <1>5, <1>6, <1>7 DEF Counted, PendingCounted

(* What a write that fails in the middle of a command does.                *)
LosesCommand ==
  /\ working_entry \in Ptr /\ working_entry' = NULL
  /\ ret'.value \in {ENOMEM, EFAULT}
  /\ Faults \cap {"krealloc", "copy_from_user"} # {}

(* Every other step keeps the sizes right.  A copy that fails when nothing *)
(* is pending leaves the heap as it was.                                   *)
LEMMA NextCounted ==
  ASSUME DriverInv, HeapTypes, Counted, [Next]_vars
  PROVE  Counted' \/ LosesCommand
<1>1. ASSUME UNCHANGED <<loaded, device>> PROVE Counted'
  BY <1>1 DEF Counted, PendingCounted, SlotPtr, device
<1>2. CASE aesd_init_module
  BY <1>2 DEF Counted, PendingCounted, SlotPtr, aesd_init_module, aesd_circular_buffer_init
<1>3. CASE aesd_cleanup_module
  BY <1>3 DEF Counted, PendingCounted, aesd_cleanup_module
<1>4. ASSUME NEW p \in Proc, Step(p) PROVE Counted' \/ LosesCommand
  <2>1. CASE WriteFails(p)
    <3>1. loaded /\ lock = NULL
      BY <2>1 DEF DriverInv, LockDiscipline, WriteFails
    <3>2. CASE UNCHANGED <<loaded, device>>
      BY <1>1, <3>2
    <3>3. ASSUME NEW e \in {ENOMEM, EFAULT}, NEW v \in Victims,
                 CleanupWorkingEntry(p, e, v),
                 Faults \cap {"krealloc", "copy_from_user"} # {}
          PROVE  Counted' \/ LosesCommand
      <4>1. ret'.value = e /\ working_entry' = NULL
        BY <3>3 DEF CleanupWorkingEntry, Returns
      <4>2. working_entry \in Ptr \/ working_entry = NULL
        BY <3>1, Idle DEF Pointer
      <4>3. CASE working_entry \in Ptr
        BY <3>3, <4>1, <4>3 DEF LosesCommand
      <4>4. CASE working_entry = NULL
        <5>1. previous_count = 0 /\ v = NULL
          BY <3>1, <3>3, <4>4 DEF Counted, PendingCounted, Victims, DriverInv, DeviceTypeOK
        <5>2. DOMAIN kheap' = DOMAIN kheap /\ \A a \in DOMAIN kheap : kheap'[a] = kheap[a]
          <6>1. NULL \notin DOMAIN kheap
            BY DEF DriverInv, DeviceTypeOK
          <6> DEFINE h == Free(Scribble(kheap, v), working_entry)
          <6>2. kheap' = h
            BY <3>3 DEF CleanupWorkingEntry
          <6>3. /\ DOMAIN h = DOMAIN kheap \ {working_entry}
                /\ \A a \in DOMAIN h : a # v => h[a] = kheap[a]
            BY CleanupHeap
          <6>. HIDE DEF h
          <6>. QED  BY <4>4, <5>1, <6>1, <6>2, <6>3
        <5>3. \A i \in Slot : SlotPtr(i) # NULL => SlotPtr(i) \in DOMAIN kheap
          BY <3>1, Idle
        <5>. QED  BY <3>1, <3>3, <4>1, <4>4, <5>1, <5>2, <5>3
                  DEF Counted, PendingCounted, SlotPtr, CleanupWorkingEntry
      <4>. QED  BY <4>2, <4>3, <4>4
    <3>4. NULL \in Victims
      BY DEF Victims
    <3>. QED  BY <2>1, <3>2, <3>3, <3>4 DEF WriteFails
  <2>2. CASE WriteOops(p)
    BY <2>2 DEF WriteOops, Counted, PendingCounted, SlotPtr
  <2>3. ASSUME NEW c \in Chunk, NEW q \in Address, NEW v \in Victims,
               aesd_write(p, c, q, v)
        PROVE  Counted'
    <3>1. loaded
      BY <2>3 DEF DriverInv, LockDiscipline, aesd_write
    <3>. QED  BY <2>3, <3>1, WriteCounted
  <2>4. ASSUME NEW s \in {"buffptr", "size", "out_offs"}, PublishStore(p, s)
        PROVE  Counted'
    BY <2>4, StoreCounted
  <2>5. CASE FinishWrite(p)
    BY <2>5, FinishCounted
  <2>6. CASE UNCHANGED <<loaded, device>>
    BY <1>1, <2>6
  <2>. QED  BY <1>4, <2>1, <2>2, <2>3, <2>4, <2>5, <2>6
            DEF Step, aesd_open, aesd_release, LockInterrupted, aesd_read,
                aesd_llseek, SeekEndPtr, SeekEndSize, aesd_ioctl, SeekToOffs,
                SeekToPtr, SeekToSize
<1>5. CASE UNCHANGED vars
  BY <1>1, <1>5 DEF vars
<1>. QED  BY <1>2, <1>3, <1>4, <1>5 DEF Next

(* The size of every entry is the number of bytes its buffptr holds, as    *)
(* aesd-circular-buffer.h has it, for any number of writers and whatever   *)
(* else fails, as long as neither krealloc nor copy_from_user does.        *)
THEOREM SizesAlwaysRight ==
  ASSUME NoLostCount
  PROVE  Spec => []EntrySizeIsBytesStored
<1> DEFINE IInv == DriverInv /\ HeapTypes /\ Counted
<1>1. Init => IInv
  BY InitDriverInv DEF Init, HeapTypes, Counted, PendingCounted
<1>2. IInv /\ [Next]_vars => IInv'
  BY NextDriverInv, NextHeapTypes, NextCounted DEF LosesCommand, NoLostCount
<1>3. IInv => EntrySizeIsBytesStored
  BY DEF Counted, PendingCounted, EntrySizeIsBytesStored, Quiescent
<1>. QED  BY <1>1, <1>2, <1>3, PTL DEF Spec

(* And whatever fails, a size stays right unless a write fails in the      *)
(* middle of a command (previous_count, which only the end of aesd_write   *)
(* resets).                                                                *)
THEOREM OnlyFailedWritesAlwaysMiscount == Spec => OnlyFailedWritesMiscount
<1> DEFINE IInv == DriverInv /\ HeapTypes
<1>1. Init => IInv
  BY InitDriverInv DEF Init, HeapTypes
<1>2. IInv /\ [Next]_vars => IInv'
  BY NextDriverInv, NextHeapTypes
<1>3. IInv /\ [Next]_vars =>
        [Counted /\ ~Counted' =>
           /\ working_entry \in Ptr /\ working_entry' = NULL
           /\ ret'.value \in {ENOMEM, EFAULT}]_vars
  BY NextCounted DEF LosesCommand
<1>. QED  BY <1>1, <1>2, <1>3, PTL DEF Spec, OnlyFailedWritesMiscount

----------------------------------------------------------------------------
(* The driver implements the device its users expect.                      *)

(* A command that is not complete and whose bytes are counted right has    *)
(* bytes and does not end in a newline; one that is being published ends   *)
(* with a chunk that does.  A count that is wrong is too large.            *)
PendingText ==
  loaded /\ working_entry \in Ptr =>
    LET block == kheap[working_entry]
    IN  /\ lock \notin Proc => Len(block) <= previous_count
        /\ PendingCounted /\ lock \notin Proc =>
             previous_count > 0 /\ block[previous_count] # NL
        /\ PendingCounted /\ lock \in Proc =>
             \E c \in Chunk : /\ c # <<>> /\ Last(c) = NL /\ Len(c) = wr.count
                              /\ block = SubSeq(block, 1, previous_count) \o c

(* Between calls the pending bytes are the whole working entry.            *)
LEMMA PartialIsEntry ==
  ASSUME DriverInv, HeapTypes, PendingCounted, loaded, lock = NULL
  PROVE  /\ DevicePartial \in Seq(Text) /\ Len(DevicePartial) = previous_count
         /\ DevicePartial = IF working_entry = NULL THEN <<>> ELSE kheap[working_entry]
<1>1. working_entry \in Pointer /\ working_entry # ZERO_SIZE_PTR
  BY Idle DEF Pointer
<1>2. CASE working_entry = NULL
  <2>1. DevicePartial = <<>> /\ previous_count = 0
    BY <1>2 DEF DevicePartial, PendingCounted
  <2>. QED  BY <1>2, <2>1, EmptySeq
<1>3. CASE working_entry # NULL
  <2> DEFINE block == kheap[working_entry]
  <2>1. block \in Seq(Text) /\ Len(block) = previous_count
    BY <1>1, <1>3, Idle DEF HeapTypes, PendingCounted, Pointer
  <2>2. DevicePartial = SubSeq(block, 1, previous_count)
    BY <1>1, <1>3 DEF DevicePartial
  <2>. HIDE DEF block
  <2>3. SubSeq(block, 1, previous_count) = block
    BY <2>1, SubSeqFull
  <2>. QED  BY <1>3, <2>1, <2>2, <2>3 DEF block
<1>. QED  BY <1>2, <1>3

(* Chunks are made of bytes.                                               *)
LEMMA ChunkType ==
  ASSUME NEW c \in Chunk
  PROVE  c \in Seq(Text) /\ Len(c) \in Nat /\ (c # <<>> => Len(c) > 0)
<1>1. c \in Seq(Byte) /\ Byte \subseteq Text
  BY ChunkAssumption DEF Text
<1>2. c \in Seq(Text)
  BY <1>1, SeqMonotonic
<1>. QED  BY <1>2, EmptySeq, LenProperties

(* aesd_write appends its chunk to the pending bytes.                      *)
LEMMA WriteAppends ==
  ASSUME DriverInv, HeapTypes, PendingCounted, loaded, lock = NULL, NEW c \in Chunk
  PROVE  WorkingBlock(c) = DevicePartial \o c
<1> DEFINE n == previous_count
           len == IF working_entry = NULL THEN Len(c) ELSE n + Len(c)
<1>1. c \in Seq(Text) /\ Len(c) \in Nat
  BY ChunkType
<1>2. DevicePartial \in Seq(Text) /\ Len(DevicePartial) = n
  BY PartialIsEntry
<1>3. n \in Nat /\ (working_entry = NULL => n = 0)
  BY DEF DriverInv, DeviceTypeOK, PendingCounted
<1>4. len = n + Len(c)
  BY <1>1, <1>3
<1>5. WorkingBlock(c) = [i \in 1 .. len |->
         IF i > n /\ i <= n + Len(c) THEN c[i - n]
         ELSE IF i <= Len(DevicePartial) THEN DevicePartial[i] ELSE Junk]
  BY PartialIsEntry DEF WorkingBlock
<1>6. WorkingBlock(c) \in Seq(Text) /\ Len(WorkingBlock(c)) = n + Len(c)
  BY WorkingBlockType, WriteLength
<1>. HIDE DEF n, len
<1>7. \A i \in 1 .. n + Len(c) :
        WorkingBlock(c)[i] = IF i <= n THEN DevicePartial[i] ELSE c[i - n]
  BY <1>1, <1>2, <1>3, <1>4, <1>5
<1>8. /\ DevicePartial \o c \in Seq(Text)
      /\ Len(DevicePartial \o c) = n + Len(c)
      /\ \A i \in 1 .. n + Len(c) :
           (DevicePartial \o c)[i] = IF i <= n THEN DevicePartial[i] ELSE c[i - n]
  BY <1>1, <1>2, ConcatProperties
<1>. QED  BY <1>6, <1>7, <1>8, SeqEqual

(* The test for a newline looks at the last byte of the pending command.   *)
LEMMA WriteText ==
  ASSUME DriverInv, HeapTypes, PendingCounted, PendingText, loaded, NEW p \in Proc,
         NEW c \in Chunk, NEW q \in Address, NEW v, aesd_write(p, c, q, v)
  PROVE  /\ kheap'[q] = DevicePartial \o c
         /\ LastByte(c) = NL => c # <<>> /\ Last(c) = NL
         /\ c = <<>> => previous_count > 0
         /\ LastByte(c) = (DevicePartial \o c)[previous_count + Len(c)]
         /\ SubSeq(kheap'[q], 1, previous_count) = DevicePartial
<1>1. lock = NULL /\ lock \notin Proc /\ (working_entry = NULL => c # <<>>)
  BY DEF aesd_write
<1>2. kheap'[q] = DevicePartial \o c /\ WorkingBlock(c) = DevicePartial \o c
  BY <1>1, WriteHeap, WriteAppends
<1>3. /\ DevicePartial \in Seq(Text) /\ Len(DevicePartial) = previous_count
      /\ previous_count \in Nat
      /\ DevicePartial = IF working_entry = NULL THEN <<>> ELSE kheap[working_entry]
  BY <1>1, PartialIsEntry DEF DriverInv, DeviceTypeOK
<1>4. c \in Seq(Text) /\ Len(c) \in Nat /\ (c # <<>> => Len(c) > 0)
  BY ChunkType
<1>5. /\ Len(DevicePartial \o c) = previous_count + Len(c)
      /\ \A i \in 1 .. previous_count + Len(c) :
           (DevicePartial \o c)[i] =
              IF i <= previous_count THEN DevicePartial[i] ELSE c[i - previous_count]
  BY <1>3, <1>4, ConcatProperties
<1>6. ASSUME c = <<>>
      PROVE  previous_count > 0 /\ LastByte(c) = DevicePartial[previous_count]
             /\ LastByte(c) # NL
  <2>1. working_entry \in Ptr
    BY <1>1, <1>6, Idle DEF Pointer
  <2>2. previous_count > 0 /\ kheap[working_entry][previous_count] # NL
    BY <1>1, <2>1 DEF PendingText
  <2>3. LastByte(c) = (DevicePartial \o c)[previous_count] /\ Len(c) = 0
    BY <1>2, <1>6, EmptySeq DEF LastByte
  <2>4. previous_count \in 1 .. previous_count + Len(c)
    BY <1>3, <2>2, <2>3
  <2>5. LastByte(c) = DevicePartial[previous_count]
    BY <1>3, <1>5, <2>3, <2>4
  <2>. QED  BY <1>3, <2>1, <2>2, <2>5
<1>7. ASSUME c # <<>>
      PROVE  LastByte(c) = Last(c)
             /\ Last(c) = (DevicePartial \o c)[previous_count + Len(c)]
  <2>1. previous_count + Len(c) \in 1 .. previous_count + Len(c)
        /\ ~(previous_count + Len(c) <= previous_count)
        /\ (previous_count + Len(c)) - previous_count = Len(c)
    BY <1>3, <1>4, <1>7
  <2>2. (DevicePartial \o c)[previous_count + Len(c)] = c[Len(c)]
    BY <1>5, <2>1
  <2>. QED  BY <1>7, <2>2 DEF LastByte, Last
<1>8. LastByte(c) = (DevicePartial \o c)[previous_count + Len(c)]
  <2>1. CASE c = <<>>
    <3>1. Len(c) = 0 /\ previous_count + 0 = previous_count
      BY <1>3, <2>1
    <3>2. DevicePartial \o c = DevicePartial
      BY <1>3, <2>1, ConcatEmptySeq
    <3>. QED  BY <1>6, <2>1, <3>1, <3>2
  <2>2. CASE c # <<>>
    BY <1>7, <2>2
  <2>. QED  BY <2>1, <2>2
<1>9. SubSeq(kheap'[q], 1, previous_count) = DevicePartial
  <2> DEFINE all == DevicePartial \o c
             n == previous_count
  <2>1. all \in Seq(Text) /\ Len(all) = n + Len(c)
        /\ \A i \in 1 .. n : all[i] = DevicePartial[i]
    BY <1>3, <1>4, <1>5, ConcatProperties
  <2>2. DevicePartial \in Seq(Text) /\ Len(DevicePartial) = n /\ n \in Nat
        /\ \A i \in 1 .. n : DevicePartial[i] \in Text
    BY <1>3, ElementOfSeq
  <2>. HIDE DEF all, n
  <2>3. \A i \in 1 .. n : all[i] \in Text
    BY <2>1, <2>2
  <2>4. /\ SubSeq(all, 1, n) \in Seq(Text)
        /\ Len(SubSeq(all, 1, n)) = IF 1 <= n THEN (n - 1) + 1 ELSE 0
        /\ \A i \in 1 .. (n - 1) + 1 : SubSeq(all, 1, n)[i] = all[(1 + i) - 1]
    BY <2>2, <2>3, SubSeqProperties
  <2>5. Len(SubSeq(all, 1, n)) = n /\ \A i \in 1 .. n : SubSeq(all, 1, n)[i] = all[i]
    BY <2>2, <2>4
  <2>6. SubSeq(all, 1, n) = DevicePartial
    BY <2>1, <2>2, <2>4, <2>5, SeqEqual
  <2>. QED  BY <1>2, <2>6 DEF all, n
<1>. QED  BY <1>2, <1>6, <1>7, <1>8, <1>9

(* After a count that is wrong, the last byte of a block is still the one  *)
(* the test for a newline looked at, and a chunk that completes a command  *)
(* is at its end.                                                          *)
LEMMA MiscountedWrite ==
  ASSUME DriverInv, HeapTypes, PendingText, ~PendingCounted, loaded, NEW p \in Proc,
         NEW c \in Chunk, NEW q \in Address, NEW v, aesd_write(p, c, q, v),
         working_entry # NULL
  PROVE  /\ Len(kheap'[q]) = previous_count + Len(c)
         /\ previous_count + Len(c) > 0
         /\ kheap'[q][previous_count + Len(c)] = LastByte(c)
         /\ LastByte(c) = NL => c # <<>> /\ Last(c) = NL
         /\ kheap'[q] = SubSeq(kheap'[q], 1, previous_count) \o c
<1> DEFINE n   == previous_count
           new == WorkingBlock(c)
           old == kheap[working_entry]
<1>1. lock = NULL /\ lock \notin Proc /\ working_entry \in Ptr
  BY Idle DEF aesd_write, Pointer
<1>2. Len(old) <= n /\ Len(old) # n /\ old \in Seq(Text) /\ Len(old) \in Nat
  <2>1. Len(old) <= n /\ Len(old) # n
    BY <1>1 DEF PendingText, PendingCounted
  <2>2. old \in Seq(Text)
    BY <1>1, Idle DEF HeapTypes
  <2>. QED  BY <2>1, <2>2, LenProperties
<1>3. n \in Nat /\ n > 0
  BY <1>2 DEF DriverInv, DeviceTypeOK
<1>4. c \in Seq(Text) /\ Len(c) \in Nat /\ (c # <<>> => Len(c) > 0)
  BY ChunkType
<1>5. kheap'[q] = new
  BY WriteHeap
<1>6. new \in Seq(Text) /\ Len(new) = n + Len(c)
  BY <1>1, WorkingBlockType
<1>7. new = [i \in 1 .. n + Len(c) |->
               IF i > n /\ i <= n + Len(c) THEN c[i - n]
               ELSE IF i <= Len(old) THEN old[i] ELSE Junk]
  BY <1>1 DEF WorkingBlock
<1>. HIDE DEF new, old, n
<1>8. /\ \A i \in n + 1 .. n + Len(c) : new[i] = c[i - n]
      /\ new[n] = Junk
  BY <1>2, <1>3, <1>4, <1>7
<1>9. c = <<>> => LastByte(c) = new[n] /\ LastByte(c) # NL /\ Len(c) = 0
  BY <1>8, ByteAssumption, EmptySeq DEF LastByte, new, n
<1>10. c # <<>> => /\ LastByte(c) = Last(c) /\ Last(c) = c[Len(c)]
                   /\ new[n + Len(c)] = c[Len(c)]
  <2> SUFFICES ASSUME c # <<>> PROVE /\ LastByte(c) = Last(c) /\ Last(c) = c[Len(c)]
                                     /\ new[n + Len(c)] = c[Len(c)]
    OBVIOUS
  <2>1. n + Len(c) \in n + 1 .. n + Len(c) /\ (n + Len(c)) - n = Len(c)
    BY <1>3, <1>4
  <2>. QED  BY <1>8, <2>1 DEF LastByte, Last
<1>11. new[n + Len(c)] = LastByte(c)
  BY <1>3, <1>9, <1>10
<1>12. new = SubSeq(new, 1, n) \o c
  <2> DEFINE part == SubSeq(new, 1, n)
  <2>1. part \in Seq(Text) /\ Len(part) = n /\ \A i \in 1 .. n : part[i] = new[i]
    <3>1. \A i \in 1 .. n : new[i] \in Text
      BY <1>3, <1>4, <1>6, ElementOfSeq
    <3>2. /\ SubSeq(new, 1, n) \in Seq(Text)
          /\ Len(SubSeq(new, 1, n)) = IF 1 <= n THEN (n - 1) + 1 ELSE 0
          /\ \A i \in 1 .. (n - 1) + 1 : SubSeq(new, 1, n)[i] = new[(1 + i) - 1]
      BY <1>3, <3>1, SubSeqProperties
    <3>. QED  BY <1>3, <3>2
  <2>. HIDE DEF part
  <2>2. /\ part \o c \in Seq(Text)
        /\ Len(part \o c) = n + Len(c)
        /\ \A i \in 1 .. n + Len(c) :
             (part \o c)[i] = IF i <= n THEN part[i] ELSE c[i - n]
    BY <1>4, <2>1, ConcatProperties
  <2>3. \A i \in 1 .. n + Len(c) : new[i] = (part \o c)[i]
    BY <1>3, <1>4, <1>8, <2>1, <2>2
  <2>4. new = part \o c
    BY <1>6, <2>2, <2>3, SeqEqual
  <2>. QED  BY <2>4 DEF part
<1>13. n + Len(c) > 0
  BY <1>3, <1>4
<1>. QED  BY <1>5, <1>6, <1>9, <1>10, <1>11, <1>12, <1>13 DEF n

(* Every step keeps that.                                                  *)
LEMMA NextPendingText ==
  ASSUME DriverInv, HeapTypes, PendingText, [Next]_vars
  PROVE  PendingText'
<1>1. ASSUME UNCHANGED <<loaded, device>> PROVE PendingText'
  BY <1>1 DEF PendingText, PendingCounted, device
<1>2. CASE aesd_init_module \/ aesd_cleanup_module
  BY <1>2 DEF PendingText, aesd_init_module, aesd_cleanup_module
<1>3. ASSUME NEW p \in Proc, Step(p) PROVE PendingText'
  <2>1. CASE WriteFails(p)
    BY <1>1, <2>1 DEF WriteFails, CleanupWorkingEntry, PendingText
  <2>2. CASE WriteOops(p)
    BY <2>2 DEF WriteOops, PendingText
  <2>3. ASSUME NEW c \in Chunk, NEW q \in Address, NEW v \in Victims,
               aesd_write(p, c, q, v)
        PROVE  PendingText'
    <3>1. loaded /\ lock = NULL /\ lock \notin Proc /\ working_entry' = q
      BY <2>3 DEF DriverInv, LockDiscipline, aesd_write
    <3>2. previous_count \in Nat /\ Len(c) \in Nat /\ (c # <<>> => Len(c) > 0)
      BY ChunkType DEF DriverInv, DeviceTypeOK
    <3>3. CASE /\ Len(kheap'[q]) = previous_count + Len(c)
               /\ previous_count + Len(c) > 0
               /\ kheap'[q][previous_count + Len(c)] = LastByte(c)
               /\ LastByte(c) = NL => c # <<>> /\ Last(c) = NL
               /\ kheap'[q] = SubSeq(kheap'[q], 1, previous_count) \o c
      <4>1. CASE LastByte(c) # NL
        <5>1. previous_count' = previous_count + Len(c) /\ lock' = lock
          BY <2>3, <4>1 DEF aesd_write
        <5>. QED  BY <3>1, <3>2, <3>3, <4>1, <5>1 DEF PendingText
      <4>2. CASE LastByte(c) = NL
        <5>1. lock' = p /\ wr'.count = Len(c) /\ UNCHANGED previous_count
          BY <2>3, <4>2 DEF aesd_write
        <5>. QED  BY <3>1, <3>3, <4>2, <5>1 DEF PendingText
      <4>. QED  BY <4>1, <4>2
    <3>4. CASE PendingCounted
      <4>1. /\ kheap'[q] = DevicePartial \o c
            /\ LastByte(c) = NL => c # <<>> /\ Last(c) = NL
            /\ c = <<>> => previous_count > 0
            /\ LastByte(c) = (DevicePartial \o c)[previous_count + Len(c)]
            /\ SubSeq(kheap'[q], 1, previous_count) = DevicePartial
        BY <2>3, <3>1, <3>4, WriteText
      <4>2. Len(kheap'[q]) = previous_count + Len(c)
        BY <2>3, <3>1, <3>4, WriteHeap, WriteLength
      <4>. QED  BY <3>2, <3>3, <4>1, <4>2
    <3>5. CASE ~PendingCounted /\ working_entry # NULL
      BY <2>3, <3>1, <3>3, <3>5, MiscountedWrite
    <3>6. CASE ~PendingCounted /\ working_entry = NULL
      <4>1. previous_count > 0
        BY <3>2, <3>6 DEF PendingCounted
      <4>2. Len(kheap'[q]) = Len(c)
        BY <2>3, <3>1, <3>6, WriteHeap, WorkingBlockType
      <4>3. Len(kheap'[q]) # (IF lock' \in Proc THEN wr'.e.size ELSE previous_count')
            /\ (lock' \notin Proc => Len(kheap'[q]) <= previous_count')
        <5>1. \/ previous_count' = previous_count + Len(c) /\ lock' = lock
              \/ lock' = p /\ wr'.e.size = Len(c) + previous_count
          BY <2>3 DEF aesd_write
        <5>. QED  BY <3>1, <3>2, <4>1, <4>2, <5>1
      <4>. QED  BY <3>1, <4>3 DEF PendingText, PendingCounted
    <3>. QED  BY <3>4, <3>5, <3>6
  <2>4. ASSUME NEW s \in {"buffptr", "size", "out_offs"}, PublishStore(p, s)
        PROVE  PendingText'
    <3>1. wr'.count = wr.count /\ wr'.e = wr.e
      BY <2>4 DEF PublishStore, DriverInv, DeviceTypeOK, WriteLocals
    <3>. QED  BY <2>4, <3>1 DEF PublishStore, PendingText, PendingCounted
  <2>5. CASE FinishWrite(p)
    BY <2>5 DEF FinishWrite, PendingText
  <2>6. CASE UNCHANGED <<loaded, device>>
    BY <1>1, <2>6
  <2>. QED  BY <1>3, <2>1, <2>2, <2>3, <2>4, <2>5, <2>6
            DEF Step, aesd_open, aesd_release, LockInterrupted, aesd_read,
                aesd_llseek, SeekEndPtr, SeekEndSize, aesd_ioctl, SeekToOffs,
                SeekToPtr, SeekToSize
<1>4. CASE UNCHANGED vars
  BY <1>1, <1>4 DEF vars
<1>. QED  BY <1>2, <1>3, <1>4 DEF Next

(* The invariant the refinement rests on, and what it is in the states     *)
(* whose sizes are right.                                                  *)
TextInv == DriverInv /\ HeapTypes /\ CallTypes /\ PendingText

DeviceInv == TextInv /\ Counted

(* The slot of command k of the log, the oldest being 1.                   *)
LogSlot(k) == IF buffer.full = 1 THEN (buffer.in_offs + k - 1) % MAXW ELSE k - 1

(* The log is as long as the ring, and each of its commands is a live      *)
(* block.  In add_entry the slot at in_offs is one of them only when the   *)
(* ring is full.                                                           *)
LEMMA LogType ==
  ASSUME DriverInv, HeapTypes, loaded
  PROVE  /\ LogLen(buffer) \in 0 .. MAXW
         /\ DeviceLog = [k \in 1 .. LogLen(buffer) |-> Contents(LogSlot(k))]
         /\ DeviceLog \in Seq(Seq(Text)) /\ Len(DeviceLog) = LogLen(buffer)
         /\ \A k \in 1 .. LogLen(buffer) :
              LogSlot(k) \in Slot /\ SlotPtr(LogSlot(k)) # NULL
<1>1. buffer \in Buffer /\ buffer.in_offs \in Slot /\ buffer.full \in {0, 1}
  BY DEF DriverInv, DeviceTypeOK, Buffer
<1>2. LogLen(buffer) \in 0 .. MAXW
  BY <1>1 DEF LogLen, Slot
<1>3. DeviceLog = [k \in 1 .. LogLen(buffer) |-> Contents(LogSlot(k))]
  BY <1>1 DEF DeviceLog, LogLen, LogSlot
<1>4. ASSUME NEW k \in 1 .. LogLen(buffer)
      PROVE  LogSlot(k) \in Slot /\ (buffer.full = 0 => LogSlot(k) < buffer.in_offs)
  <2>1. CASE buffer.full = 1
    <3>1. k - 1 \in 0 .. MAXW /\ buffer.in_offs + (k - 1) = buffer.in_offs + k - 1
      BY <1>1, <1>2 DEF Slot
    <3>2. (buffer.in_offs + (k - 1)) % MAXW \in Slot
      BY <1>1, <3>1, WrapValue
    <3>. QED  BY <2>1, <3>1, <3>2 DEF LogSlot
  <2>2. CASE buffer.full = 0
    BY <1>1, <2>2 DEF LogSlot, LogLen, Slot
  <2>. QED  BY <1>1, <2>1, <2>2
<1>5. ASSUME NEW k \in 1 .. LogLen(buffer)
      PROVE  SlotPtr(LogSlot(k)) # NULL /\ Contents(LogSlot(k)) \in Seq(Text)
  <2> DEFINE i == LogSlot(k)
  <2>1. i \in Slot /\ (buffer.full = 0 => i < buffer.in_offs)
    BY <1>4
  <2>. HIDE DEF i
  <2>2. DOMAIN kheap = Referenced
    BY DEF DriverInv, HeapExact
  <2>3. SlotPtr(i) # ZERO_SIZE_PTR /\ ZERO_SIZE_PTR \notin Ptr
    BY <2>1, SlotPtrType DEF Pointer, DriverInv
  <2>4. CASE lock \notin Proc
    <3>1. wr.branch # "overwrite"
      BY <2>4 DEF DriverInv, LockDiscipline, NoWrite
    <3>2. SlotPtr(i) # NULL
      BY <1>1, <2>1, <2>4
      DEF DriverInv, RingWhenUnlocked, Quiescent, RingShape, Used, SlotPtr
    <3>. QED  BY <2>1, <2>2, <2>3, <3>1, <3>2 DEF Contents, Referenced, HeapTypes, i
  <2>5. CASE lock \in Proc
    <3>1. wr.slot = buffer.in_offs
      BY <2>5 DEF DriverInv, Publishing
    <3>2. CASE wr.branch = "fill"
      <4>1. i # wr.slot /\ SlotPtr(i) # NULL
        BY <1>1, <2>1, <2>5, <3>1, <3>2
        DEF DriverInv, Publishing, PublishFill, Slot
      <4>. QED  BY <2>1, <2>2, <2>3, <3>2, <4>1 DEF Contents, Referenced, HeapTypes, i
    <3>3. CASE wr.branch = "overwrite"
      <4>1. SlotPtr(i) # NULL /\ wr.ret_buffptr \in Ptr
        BY <2>1, <2>5, <3>3 DEF DriverInv, Publishing, PublishOverwrite
      <4>. QED  BY <2>1, <2>2, <2>3, <4>1 DEF Contents, Referenced, HeapTypes, i
    <3>. QED  BY <2>5, <3>2, <3>3 DEF DriverInv, Publishing
  <2>. QED  BY <2>4, <2>5
<1>6. LogLen(buffer) \in Nat /\ \A k \in 1 .. LogLen(buffer) : DeviceLog[k] \in Seq(Text)
  BY <1>2, <1>3, <1>5
<1>7. DeviceLog = [k \in 1 .. LogLen(buffer) |-> DeviceLog[k]]
  BY <1>3
<1>8. DeviceLog \in Seq(Seq(Text)) /\ Len(DeviceLog) = LogLen(buffer)
  BY <1>6, <1>7, MadeOf
<1>. QED  BY <1>2, <1>3, <1>4, <1>5, <1>8

(* Between calls the search of find_entry_offset_for_fpos visits the       *)
(* commands of the log in order, then empty slots.                         *)
LEMMA SearchIsLog ==
  ASSUME DriverInv, HeapTypes, Counted, loaded, lock = NULL,
         NEW i \in 0 .. MAXW - 1
  PROVE  /\ buffer.entry[SlotAt(buffer, i)].buffptr # NULL => i < LogLen(buffer)
         /\ i < LogLen(buffer) =>
              /\ DeviceLog[i + 1] = kheap[buffer.entry[SlotAt(buffer, i)].buffptr]
              /\ buffer.entry[SlotAt(buffer, i)].size = Len(DeviceLog[i + 1])
         /\ EntryBytes(buffer, i) =
              IF i < LogLen(buffer) THEN Len(DeviceLog[i + 1]) ELSE 0
<1> DEFINE j == SlotAt(buffer, i)
           n == LogLen(buffer)
<1>1. /\ buffer \in Buffer /\ buffer.in_offs \in Slot /\ buffer.out_offs \in Slot
      /\ buffer.full \in {0, 1} /\ RingShape(buffer) /\ wr = NoWrite
      /\ lock \notin Proc
  BY Idle DEF DeviceTypeOK, Buffer
<1>2. /\ n \in 0 .. MAXW
      /\ DeviceLog = [k \in 1 .. n |-> Contents(LogSlot(k))]
      /\ \A k \in 1 .. n : LogSlot(k) \in Slot /\ SlotPtr(LogSlot(k)) # NULL
  BY LogType
<1>3. j \in Slot
  BY <1>1, SearchSlots
<1>4. j = LogSlot(i + 1)
  <2>1. CASE buffer.full = 1
    <3>1. buffer.in_offs = buffer.out_offs
      BY <1>1, <2>1 DEF RingShape
    <3>2. buffer.in_offs + (i + 1) - 1 = buffer.out_offs + i
      BY <1>1, <3>1 DEF Slot
    <3>. QED  BY <2>1, <3>2 DEF LogSlot, SlotAt
  <2>2. CASE buffer.full = 0
    <3>1. buffer.out_offs = 0
      BY <1>1, <2>2 DEF RingShape
    <3>2. (0 + i) % MAXW = i
      <4>1. 0 \in Slot /\ i \in 0 .. MAXW /\ 0 + i < MAXW /\ 0 + i = i
        BY DEF Slot
      <4>. QED  BY <4>1, WrapValue
    <3>3. LogSlot(i + 1) = i
      BY <2>2 DEF LogSlot
    <3>. QED  BY <3>1, <3>2, <3>3 DEF SlotAt
  <2>. QED  BY <1>1, <2>1, <2>2
<1>5. ASSUME SlotPtr(j) # NULL PROVE i < n
  <2>1. CASE buffer.full = 1
    BY <2>1 DEF LogLen
  <2>2. CASE buffer.full = 0
    <3>1. j = i
      BY <1>4, <2>2 DEF LogSlot
    <3>. QED  BY <1>1, <1>3, <1>5, <2>2, <3>1 DEF RingShape, Used, SlotPtr, LogLen
  <2>. QED  BY <1>1, <2>1, <2>2
<1>6. ASSUME i < n
      PROVE  /\ SlotPtr(j) # NULL /\ DeviceLog[i + 1] = kheap[SlotPtr(j)]
             /\ buffer.entry[j].size = Len(kheap[SlotPtr(j)])
  <2>1. i + 1 \in 1 .. n
    BY <1>2, <1>6
  <2>2. SlotPtr(j) # NULL /\ DeviceLog[i + 1] = Contents(j)
    BY <1>2, <1>4, <2>1
  <2>3. Contents(j) = kheap[SlotPtr(j)]
    BY <1>1 DEF Contents, NoWrite
  <2>4. buffer.entry[j].size = Len(kheap[SlotPtr(j)])
    BY <1>1, <1>3, <2>2 DEF Counted, PendingCounted
  <2>. QED  BY <2>2, <2>3, <2>4
<1>. QED  BY <1>5, <1>6 DEF SlotPtr, EntryBytes

(* char_offset_bytes is the length of the commands already passed.         *)
LEMMA SumIsLogLength ==
  ASSUME DriverInv, HeapTypes, Counted, loaded, lock = NULL, NEW i \in 0 .. MAXW
  PROVE  CharOffsetBytes(buffer)[i] =
           Len(Upto(DeviceLog, IF i < LogLen(buffer) THEN i ELSE LogLen(buffer)))
<1> DEFINE n == LogLen(buffer)
           L == DeviceLog
           sum == CharOffsetBytes(buffer)
           passed(m) == IF m < n THEN m ELSE n
           T == {m \in Nat : m <= MAXW => sum[m] = Len(Upto(L, passed(m)))}
<1>1. buffer \in Buffer
  BY Idle DEF DeviceTypeOK
<1>2. /\ sum[0] = 0
      /\ \A m \in 0 .. MAXW - 1 : sum[m + 1] = sum[m] + EntryBytes(buffer, m)
      /\ \A m \in 0 .. MAXW : sum[m] \in Nat
  BY <1>1, CharOffsetBytesSteps
<1>3. n \in 0 .. MAXW /\ L \in Seq(Seq(Text)) /\ Len(L) = n
  BY LogType
<1>4. \A m \in 0 .. MAXW - 1 :
        EntryBytes(buffer, m) = IF m < n THEN Len(L[m + 1]) ELSE 0
  BY SearchIsLog
<1>. HIDE DEF n, L, sum
<1>5. 0 \in T
  <2>1. Upto(L, 0) = <<>> /\ Len(<<>>) = 0
    BY <1>3, UptoSteps, EmptySeq
  <2>2. passed(0) = 0
    BY <1>3
  <2>. QED  BY <1>2, <2>1, <2>2
<1>6. ASSUME NEW m \in Nat, m \in T PROVE m + 1 \in T
  <2> SUFFICES ASSUME m + 1 <= MAXW PROVE sum[m + 1] = Len(Upto(L, passed(m + 1)))
    OBVIOUS
  <2>1. m \in 0 .. MAXW - 1 /\ m \in 0 .. MAXW
    OBVIOUS
  <2>2. sum[m] = Len(Upto(L, passed(m))) /\ sum[m] \in Nat
    BY <1>2, <1>6, <2>1
  <2>3. CASE m < n
    <3>1. m \in 0 .. Len(L) - 1 /\ passed(m) = m /\ passed(m + 1) = m + 1
      BY <1>3, <2>3
    <3>2. Len(Upto(L, m + 1)) = Len(Upto(L, m)) + Len(L[m + 1])
      BY <1>3, <3>1, FlattenIndex
    <3>3. sum[m + 1] = sum[m] + Len(L[m + 1])
      BY <1>2, <1>4, <2>1, <2>3
    <3>. QED  BY <2>2, <3>1, <3>2, <3>3
  <2>4. CASE ~(m < n)
    <3>1. passed(m) = n /\ passed(m + 1) = n
      BY <1>3, <2>4
    <3>2. sum[m + 1] = sum[m] + 0
      BY <1>2, <1>4, <2>1, <2>4
    <3>. QED  BY <2>2, <3>1, <3>2
  <2>. QED  BY <2>3, <2>4
<1>7. Nat \subseteq T
  <2>. HIDE DEF T
  <2>. QED  BY <1>5, <1>6, SetInduction
<1>8. i \in T /\ i <= MAXW
  BY <1>7
<1>. QED  BY <1>8 DEF n, L, sum

(* The operators on sequences mean the same in the instance of the device. *)
LEMMA SameOperators ==
  /\ \A x : Device!Last(x) = Last(x)
  /\ \A x : Device!FlattenSeq(x) = FlattenSeq(x)
<1>1. \A x : Device!Last(x) = Last(x)
  BY DEF Device!Last, Last
<1>2. \A x : Device!FlattenSeq(x) = FlattenSeq(x)
  BY DEF Device!FlattenSeq, FlattenSeq
<1>. QED  BY <1>1, <1>2

(* What find locates at file position pos: the bytes it allows to be       *)
(* copied are the next ones of the concatenated log, and nothing is found  *)
(* only at its end.                                                        *)
LEMMA FindInLog ==
  ASSUME DriverInv, HeapTypes, Counted, loaded, lock = NULL, NEW pos \in Nat
  PROVE  LET found == aesd_circular_buffer_find_entry_offset_for_fpos(buffer, pos)
             entry == buffer.entry[found.slot]
             all   == FlattenSeq(DeviceLog)
         IN  \/ found = NotFound /\ pos >= Len(all)
             \/ /\ found # NotFound
                /\ found.offset \in Nat /\ entry.size \in Nat
                /\ found.offset < entry.size
                /\ Len(kheap[entry.buffptr]) = entry.size
                /\ pos + (entry.size - found.offset) <= Len(all)
                /\ \A k \in 1 .. entry.size - found.offset :
                     all[pos + k] = kheap[entry.buffptr][found.offset + k]
<1> DEFINE found == aesd_circular_buffer_find_entry_offset_for_fpos(buffer, pos)
           entry == buffer.entry[found.slot]
           L     == DeviceLog
           all   == FlattenSeq(L)
           sum   == CharOffsetBytes(buffer)
           n     == LogLen(buffer)
<1>1. buffer \in Buffer
  BY Idle DEF DeviceTypeOK
<1>2. n \in 0 .. MAXW /\ L \in Seq(Seq(Text)) /\ Len(L) = n
  BY LogType
<1>3. all \in Seq(Text) /\ Len(all) \in Nat
  BY <1>2, FlattenType, LenProperties
<1>4. \/ found = NotFound /\ sum[MAXW] <= pos
      \/ \E i \in Slot :
           /\ buffer.entry[SlotAt(buffer, i)].buffptr # NULL
           /\ sum[i] <= pos
           /\ pos < sum[i] + buffer.entry[SlotAt(buffer, i)].size
           /\ found = [slot |-> SlotAt(buffer, i), offset |-> pos - sum[i]]
  BY <1>1, FindStops
<1>5. \A i \in 0 .. MAXW :
        sum[i] = Len(Upto(L, IF i < n THEN i ELSE n)) /\ sum[i] \in Nat
  BY <1>1, CharOffsetBytesSteps, SumIsLogLength
<1>6. CASE found = NotFound /\ sum[MAXW] <= pos
  <2>1. MAXW \in 0 .. MAXW /\ (IF MAXW < n THEN MAXW ELSE n) = n
    BY <1>2
  <2>2. sum[MAXW] = Len(Upto(L, n))
    BY <1>5, <2>1
  <2>3. Upto(L, n) = all
    BY <1>2, UptoSteps
  <2>4. pos >= Len(all)
    <3>. HIDE DEF all, sum
    <3>. QED  BY <1>3, <1>6, <2>2, <2>3
  <2>. QED  BY <1>6, <2>4
<1>7. ASSUME NEW i \in Slot,
             buffer.entry[SlotAt(buffer, i)].buffptr # NULL,
             sum[i] <= pos,
             pos < sum[i] + buffer.entry[SlotAt(buffer, i)].size,
             found = [slot |-> SlotAt(buffer, i), offset |-> pos - sum[i]]
      PROVE  /\ found # NotFound
             /\ found.offset \in Nat /\ entry.size \in Nat
             /\ found.offset < entry.size
             /\ Len(kheap[entry.buffptr]) = entry.size
             /\ pos + (entry.size - found.offset) <= Len(all)
             /\ \A k \in 1 .. entry.size - found.offset :
                  all[pos + k] = kheap[entry.buffptr][found.offset + k]
  <2> DEFINE block == kheap[entry.buffptr]
             off   == found.offset
             size  == entry.size
             done  == sum[i]
  <2>1. i \in 0 .. MAXW - 1 /\ i \in 0 .. MAXW
    BY DEF Slot
  <2>2. entry = buffer.entry[SlotAt(buffer, i)] /\ off = pos - done
        /\ found.slot = SlotAt(buffer, i)
    BY <1>7
  <2>3. SlotAt(buffer, i) \in Slot /\ size \in Nat
    BY <1>1, <2>1, <2>2, SearchSlots
  <2>4. i < n /\ L[i + 1] = block /\ size = Len(L[i + 1])
    BY <1>7, <2>1, <2>2, SearchIsLog
  <2>5. done = Len(Upto(L, i)) /\ done \in Nat
    BY <1>5, <2>1, <2>4
  <2>6. i \in 0 .. Len(L) - 1
    BY <1>2, <2>1, <2>4
  <2>7. /\ Len(Upto(L, i + 1)) = Len(Upto(L, i)) + Len(L[i + 1])
        /\ Len(Upto(L, i + 1)) <= Len(all)
        /\ \A k \in 1 .. Len(L[i + 1]) : all[Len(Upto(L, i)) + k] = L[i + 1][k]
    BY <1>2, <2>6, FlattenIndex
  <2>8. found # NotFound
    BY <2>2, <2>3, SlotAssumption DEF NotFound
  <2>9. done <= pos /\ pos < done + size
    BY <1>7, <2>2
  <2>. HIDE DEF block, off, size, done, all, L, entry, found
  <2>10. off \in Nat /\ off < size /\ pos = done + off
    BY <2>2, <2>3, <2>5, <2>9
  <2>11. pos + (size - off) = done + size /\ done + size <= Len(all)
    BY <2>3, <2>4, <2>5, <2>7, <2>10
  <2>12. ASSUME NEW k \in 1 .. size - off
         PROVE  all[pos + k] = block[off + k]
    <3>1. off + k \in 1 .. size /\ done + (off + k) = pos + k
      BY <2>3, <2>5, <2>10
    <3>2. all[done + (off + k)] = block[off + k]
      BY <2>4, <2>5, <2>7, <3>1
    <3>. QED  BY <3>1, <3>2
  <2>. QED  BY <2>3, <2>4, <2>8, <2>10, <2>11, <2>12
            DEF block, off, size
<1>. HIDE DEF found, all, sum, n
<1>8. CASE \E i \in Slot :
           /\ buffer.entry[SlotAt(buffer, i)].buffptr # NULL
           /\ sum[i] <= pos
           /\ pos < sum[i] + buffer.entry[SlotAt(buffer, i)].size
           /\ found = [slot |-> SlotAt(buffer, i), offset |-> pos - sum[i]]
  BY <1>7, <1>8 DEF found, all
<1>. QED  BY <1>4, <1>6, <1>8 DEF found, all

(* What the users of the device see of a step that leaves the driver's     *)
(* memory alone.                                                           *)
LEMMA QuietDevice ==
  ASSUME UNCHANGED <<loaded, device>>
  PROVE  DeviceLog' = DeviceLog /\ DevicePartial' = DevicePartial
BY DEF DeviceLog, DevicePartial, Contents, SlotPtr, device

(* A read delivers the next bytes of the log, or reports its end, or an    *)
(* error that moves nothing.                                               *)
LEMMA ReadImplements ==
  ASSUME DeviceInv, loaded, NEW p \in Proc, NEW count \in Count,
         aesd_read(p, count)
  PROVE  Device!Read(p, count) \/ Device!Fail(p)
<1> DEFINE pos   == f_pos[p]
           found == aesd_circular_buffer_find_entry_offset_for_fpos(buffer, pos)
           entry == buffer.entry[found.slot]
           left  == entry.size - found.offset
           n     == IF left > count THEN count ELSE left
           block == kheap[entry.buffptr]
           data  == Bytes(block, found.offset, n)
           all   == FlattenSeq(DeviceLog)
<1>1. /\ DriverInv /\ HeapTypes /\ Counted /\ lock = NULL
      /\ f_pos \in [Proc -> Nat] /\ pos \in Nat /\ count \in Nat
  BY ArgAssumption DEF aesd_read, DeviceInv, TextInv, CallTypes
<1>2. DeviceLog' = DeviceLog /\ DevicePartial' = DevicePartial
  BY QuietDevice DEF aesd_read
<1>3. \/ found = NotFound /\ Returns(p, 0, <<>>) /\ UNCHANGED f_pos
      \/ /\ found # NotFound
         /\ Returns(p, n, data)
         /\ f_pos' = [f_pos EXCEPT ![p] = @ + n]
      \/ Returns(p, EFAULT, <<>>) /\ UNCHANGED f_pos
  BY DEF aesd_read
<1>4. \/ found = NotFound /\ pos >= Len(all)
      \/ /\ found # NotFound
         /\ found.offset \in Nat /\ entry.size \in Nat
         /\ found.offset < entry.size
         /\ Len(block) = entry.size
         /\ pos + left <= Len(all)
         /\ \A k \in 1 .. left : all[pos + k] = block[found.offset + k]
  BY <1>1, FindInLog
<1>5. all \in Seq(Text) /\ Len(all) \in Nat
      /\ \A k \in 1 .. Len(all) : all[k] \in Text
  <2>1. DeviceLog \in Seq(Seq(Text))
    BY <1>1, LogType
  <2>2. all \in Seq(Text)
    BY <2>1, FlattenType
  <2>. HIDE DEF all
  <2>. QED  BY <2>2, LenProperties, ElementOfSeq
<1>6. ASSUME NEW m \in 0 .. count,
             m = 0 => count = 0 \/ pos >= Len(all),
             m > 0 => pos + m <= Len(all),
             Returns(p, m, SubSeq(all, pos + 1, pos + m)),
             f_pos' = [f_pos EXCEPT ![p] = @ + m]
      PROVE  Device!Read(p, count)
  BY <1>2, <1>6, SameOperators DEF Device!Read, Device!Returns, Returns
<1>. HIDE DEF pos, found, entry, data, all
<1>7. CASE found = NotFound /\ Returns(p, 0, <<>>) /\ UNCHANGED f_pos
  <2>1. pos >= Len(all) /\ 0 \in 0 .. count
    BY <1>1, <1>4, <1>7
  <2>2. SubSeq(all, pos + 1, pos + 0) = <<>>
    <3>1. pos + 1 \in Int /\ pos + 0 \in Int /\ pos + 0 < pos + 1
      BY <1>1
    <3>. QED  BY <3>1, SubSeqEmpty
  <2>3. f_pos' = [f_pos EXCEPT ![p] = @ + 0]
    BY <1>1, <1>7 DEF pos
  <2>4. ASSUME NEW m, m = 0 PROVE Device!Read(p, count)
    <3>1. m \in 0 .. count /\ ~(m > 0)
      BY <2>1, <2>4
    <3>2. Returns(p, m, SubSeq(all, pos + 1, pos + m))
          /\ f_pos' = [f_pos EXCEPT ![p] = @ + m]
      BY <1>7, <2>2, <2>3, <2>4
    <3>. QED  BY <1>6, <2>1, <3>1, <3>2
  <2>. QED  BY <2>4
<1>8. CASE found # NotFound /\ Returns(p, n, data)
           /\ f_pos' = [f_pos EXCEPT ![p] = @ + n]
  <2>1. /\ found.offset \in Nat /\ left \in Nat /\ left > 0
        /\ Len(block) = entry.size
        /\ pos + left <= Len(all)
        /\ \A k \in 1 .. left : all[pos + k] = block[found.offset + k]
    <3>1. /\ found.offset \in Nat /\ entry.size \in Nat
          /\ found.offset < entry.size
      BY <1>4, <1>8
    <3>2. left \in Nat /\ left > 0
      BY <3>1
    <3>. HIDE DEF left
    <3>. QED  BY <1>4, <1>8, <3>1, <3>2 DEF left
  <2>2. /\ n \in Nat /\ n <= left /\ n \in 0 .. count
        /\ n = 0 => count = 0
    BY <1>1, <2>1
  <2>3. pos + n <= Len(all)
    BY <1>1, <1>5, <2>1, <2>2
  <2>4. \A k \in 1 .. n : found.offset + k <= Len(block)
    <3> SUFFICES ASSUME NEW k \in 1 .. n PROVE found.offset + k <= Len(block)
      OBVIOUS
    <3>1. k <= left /\ left = Len(block) - found.offset /\ Len(block) \in Int
      BY <1>4, <1>8, <2>1, <2>2
    <3>. QED  BY <2>1, <3>1
  <2>. HIDE DEF n, left, block
  <2>5. data = [k \in 1 .. n |-> all[pos + k]]
    <3>1. data = [k \in 1 .. n |-> IF found.offset + k <= Len(block)
                                   THEN block[found.offset + k] ELSE Junk]
      BY DEF data, Bytes
    <3>2. \A k \in 1 .. n : k \in 1 .. left
      BY <2>1, <2>2
    <3>. QED  BY <2>1, <2>4, <3>1, <3>2
  <2>6. \A k \in 1 .. n : pos + k \in 1 .. Len(all)
    BY <1>1, <1>5, <2>2, <2>3
  <2>7. data \in Seq(Text) /\ Len(data) = n
    <3>1. \A k \in 1 .. n : data[k] \in Text
      BY <1>5, <2>5, <2>6
    <3>2. data = [k \in 1 .. n |-> data[k]]
      BY <2>5
    <3>. QED  BY <2>2, <3>1, <3>2, MadeOf
  <2> DEFINE part == SubSeq(all, pos + 1, pos + n)
  <2>8. /\ part \in Seq(Text) /\ Len(part) = n
        /\ \A k \in 1 .. n : part[k] = all[pos + k]
    <3>1. /\ pos + 1 \in Int /\ pos + n \in Int
          /\ \A k \in pos + 1 .. pos + n : k \in 1 .. Len(all)
          /\ (pos + n) - (pos + 1) + 1 = n
          /\ \A k \in 1 .. n : (pos + 1) + k - 1 = pos + k
          /\ pos + 1 <= pos + n <=> n # 0
      BY <1>1, <1>5, <2>2, <2>3
    <3>2. \A k \in pos + 1 .. pos + n : all[k] \in Text
      BY <1>5, <3>1
    <3>3. /\ part \in Seq(Text)
          /\ Len(part) = IF pos + 1 <= pos + n THEN (pos + n) - (pos + 1) + 1 ELSE 0
          /\ \A k \in 1 .. (pos + n) - (pos + 1) + 1 :
               part[k] = all[(pos + 1) + k - 1]
      BY <3>1, <3>2, SubSeqProperties
    <3>. QED  BY <2>2, <3>1, <3>3
  <2>. HIDE DEF part
  <2>9. data = part
    BY <2>5, <2>7, <2>8, SeqEqual
  <2>10. f_pos' = [f_pos EXCEPT ![p] = @ + n] /\ Returns(p, n, part)
    BY <1>8, <2>9
  <2>. QED  BY <1>6, <2>2, <2>3, <2>10 DEF part
<1>9. CASE Returns(p, EFAULT, <<>>) /\ UNCHANGED f_pos
  <2>1. ret'.value = EFAULT /\ EFAULT < 0 /\ ret' = [p |-> p, value |-> ret'.value, data |-> <<>>]
    BY <1>9 DEF Returns, EFAULT
  <2>. QED  BY <1>2, <1>9, <2>1 DEF Device!Fail, Device!Returns
<1>. QED  BY <1>3, <1>7, <1>8, <1>9 DEF n, data

(* The log is the same after a step that does not move in_offs and keeps   *)
(* the contents of the commands.                                           *)
LEMMA LogKept ==
  ASSUME DriverInv, HeapTypes, loaded, loaded',
         buffer'.in_offs = buffer.in_offs, buffer'.full = buffer.full,
         \A i \in Slot : SlotPtr(i) # NULL /\ (buffer.full = 0 => i # buffer.in_offs)
            => Contents(i)' = Contents(i)
  PROVE  DeviceLog' = DeviceLog
<1>1. buffer.full \in {0, 1} /\ buffer.in_offs \in Slot
  BY DEF DriverInv, DeviceTypeOK, Buffer
<1>2. /\ LogLen(buffer) \in 0 .. MAXW
      /\ DeviceLog = [k \in 1 .. LogLen(buffer) |-> Contents(LogSlot(k))]
      /\ \A k \in 1 .. LogLen(buffer) :
           LogSlot(k) \in Slot /\ SlotPtr(LogSlot(k)) # NULL
  BY LogType
<1>3. \A k \in 1 .. LogLen(buffer) : buffer.full = 0 => LogSlot(k) # buffer.in_offs
  BY <1>1 DEF LogSlot, LogLen, Slot
<1>4. \A k \in 1 .. LogLen(buffer) : Contents(LogSlot(k))' = Contents(LogSlot(k))
  <2> TAKE k \in 1 .. LogLen(buffer)
  <2>1. LogSlot(k)' = LogSlot(k)
    BY DEF LogSlot
  <2>2. LogSlot(k) \in Slot /\ SlotPtr(LogSlot(k)) # NULL
        /\ (buffer.full = 0 => LogSlot(k) # buffer.in_offs)
    BY <1>2, <1>3
  <2> DEFINE j == LogSlot(k)
  <2>3. j' = j /\ j \in Slot /\ SlotPtr(j) # NULL
        /\ (buffer.full = 0 => j # buffer.in_offs)
    BY <2>1, <2>2
  <2>. QED  BY <2>3 DEF Contents, SlotPtr
<1>5. DeviceLog' = [k \in 1 .. LogLen(buffer) |-> Contents(LogSlot(k))']
  BY <1>1 DEF DeviceLog, LogLen, LogSlot, Contents
<1>. QED  BY <1>2, <1>4, <1>5

(* A chunk that does not complete a command is pending from this step on;  *)
(* one that does is seen when add_entry is done.                           *)
LEMMA WriteImplements ==
  ASSUME DeviceInv, loaded, NEW p \in Proc, NEW c \in Chunk, NEW q \in Address,
         NEW v \in Victims, aesd_write(p, c, q, v)
  PROVE  \/ Device!Write(p, c) \/ Device!WriteNothing(p)
         \/ UNCHANGED <<DeviceLog, DevicePartial, f_pos, ret>>
<1>1. /\ DriverInv /\ HeapTypes /\ PendingCounted /\ PendingText
      /\ lock = NULL /\ lock \notin Proc
      /\ UNCHANGED <<loaded, buffer, f_pos>>
  BY DEF aesd_write, DeviceInv, TextInv, Counted
<1>2. /\ q \in Ptr /\ working_entry' = q
      /\ \A i \in Slot : SlotPtr(i) # q
      /\ \A x : x \in DOMAIN kheap' <=>
           x # NULL /\ (x = q \/ \E i \in Slot : SlotPtr(i) = x)
  BY <1>1, WriteAllocates
<1>3. buffer \in Buffer /\ previous_count \in Nat /\ RingShape(buffer)
      /\ wr = NoWrite /\ buffer.in_offs \in Slot /\ buffer.full \in {0, 1}
  BY <1>1, Idle DEF DeviceTypeOK, Buffer
<1>4. v = NULL
  BY <1>1 DEF Victims, PendingCounted, DriverInv, DeviceTypeOK
<1>5. \A i \in Slot : SlotPtr(i) # NULL => kheap'[SlotPtr(i)] = kheap[SlotPtr(i)]
  BY <1>1, <1>2, <1>4, WriteHeap
<1>6. UNCHANGED wr \/ /\ wr'.branch = IF Overwriting(buffer) THEN "overwrite" ELSE "fill"
                      /\ wr'.ret_buffptr = ReplacedBuffptr(buffer)
  BY DEF aesd_write
<1>7. ASSUME NEW i \in Slot, SlotPtr(i) # NULL, buffer.full = 0 => i # buffer.in_offs
      PROVE  Contents(i)' = Contents(i)
  <2>1. Contents(i) = kheap[SlotPtr(i)]
    BY <1>3 DEF Contents, NoWrite
  <2>2. Contents(i)' = kheap'[SlotPtr(i)]
    <3>1. CASE UNCHANGED wr
      BY <1>1, <1>3, <3>1 DEF Contents, NoWrite, SlotPtr
    <3>2. CASE /\ wr'.branch = IF Overwriting(buffer) THEN "overwrite" ELSE "fill"
               /\ wr'.ret_buffptr = ReplacedBuffptr(buffer)
      <4>1. i = buffer.in_offs /\ Overwriting(buffer)
              => wr'.ret_buffptr = SlotPtr(i)
        BY <1>3, <1>7, <3>2 DEF RingShape, ReplacedBuffptr, SlotPtr
      <4>. QED  BY <1>1, <3>2, <4>1 DEF Contents, SlotPtr
    <3>. QED  BY <1>6, <3>1, <3>2
  <2>. QED  BY <1>5, <1>7, <2>1, <2>2
<1>8. DeviceLog' = DeviceLog
  BY <1>1, <1>7, LogKept
<1>9. /\ kheap'[q] = DevicePartial \o c
      /\ LastByte(c) = NL => c # <<>> /\ Last(c) = NL
      /\ c = <<>> => previous_count > 0
      /\ SubSeq(kheap'[q], 1, previous_count) = DevicePartial
  BY <1>1, WriteText
<1>10. DevicePartial' = SubSeq(kheap'[q], 1, previous_count')
  <2>1. q # NULL /\ q # ZERO_SIZE_PTR
    BY <1>2
  <2>. QED  BY <1>1, <1>2, <2>1 DEF DevicePartial
<1>11. CASE LastByte(c) = NL
  <2>1. UNCHANGED <<previous_count, ret>>
    BY <1>11 DEF aesd_write
  <2>. QED  BY <1>1, <1>8, <1>9, <1>10, <2>1
<1>12. CASE LastByte(c) # NL
  <2>1. previous_count' = previous_count + Len(c) /\ Returns(p, Len(c), <<>>)
    BY <1>12 DEF aesd_write
  <2>2. DevicePartial \in Seq(Text) /\ Len(DevicePartial) = previous_count
    BY <1>1, PartialIsEntry
  <2>3. c \in Seq(Text) /\ Len(c) \in Nat
    BY ChunkType
  <2>4. DevicePartial \o c \in Seq(Text)
        /\ Len(DevicePartial \o c) = previous_count + Len(c)
    BY <2>2, <2>3, ConcatProperties
  <2>5. DevicePartial' = DevicePartial \o c
    <3>1. SubSeq(DevicePartial \o c, 1, Len(DevicePartial \o c)) = DevicePartial \o c
      BY <2>4, SubSeqFull
    <3>. QED  BY <1>9, <1>10, <2>1, <2>4, <3>1
  <2>6. CASE c # <<>>
    <3>1. Device!Last(c) # NL
      <4>1. Last(c) = LastByte(c)
        BY <2>6 DEF LastByte
      <4>. QED  BY <1>12, <4>1, SameOperators
    <3>. QED  BY <1>1, <1>8, <2>1, <2>5, <2>6, <3>1
              DEF Device!Write, Device!Returns, Returns
  <2>7. CASE c = <<>>
    <3>1. DevicePartial # <<>>
      <4>1. Len(DevicePartial) > 0 /\ Len(<<>>) = 0
        BY <1>9, <2>2, <2>7, EmptySeq
      <4>. QED  BY <4>1
    <3>2. DevicePartial' = DevicePartial
      BY <2>2, <2>5, <2>7, ConcatEmptySeq
    <3>3. Returns(p, 0, <<>>)
      BY <2>1, <2>7, EmptySeq
    <3>. QED  BY <1>1, <1>8, <3>1, <3>2, <3>3
              DEF Device!WriteNothing, Device!Returns, Returns
  <2>. QED  BY <2>6, <2>7
<1>. QED  BY <1>11, <1>12

(* A store of add_entry is not seen: until in_offs moves, the slot that is *)
(* being overwritten stands for the block it displaces.                    *)
LEMMA StoreImplements ==
  ASSUME DeviceInv, NEW p \in Proc, NEW s \in {"buffptr", "size", "out_offs"},
         PublishStore(p, s)
  PROVE  UNCHANGED <<DeviceLog, DevicePartial, f_pos, ret>>
<1>1. /\ DriverInv /\ HeapTypes /\ lock \in Proc /\ loaded
      /\ UNCHANGED <<loaded, working_entry, previous_count, kheap, f_pos, ret>>
  BY DEF PublishStore, DriverInv, LockDiscipline, Publishing, DeviceInv, TextInv
<1>2. /\ buffer \in Buffer /\ wr \in WriteLocals
      /\ wr.e \in Entry /\ wr.slot \in Slot /\ wr.slot = buffer.in_offs
  BY <1>1 DEF DriverInv, DeviceTypeOK, WriteLocals, Publishing
<1>3. wr'.branch = wr.branch /\ wr'.ret_buffptr = wr.ret_buffptr
  BY <1>2 DEF PublishStore, WriteLocals
<1>4. /\ buffer'.in_offs = buffer.in_offs /\ buffer'.full = buffer.full
      /\ \A i \in Slot \ {wr.slot} : buffer'.entry[i].buffptr = buffer.entry[i].buffptr
  <2>1. CASE s = "buffptr"
    BY <1>2, <2>1 DEF PublishStore, StoreBuffptr, Buffer, Entry
  <2>2. CASE s = "size"
    BY <1>2, <2>2 DEF PublishStore, StoreSize, Buffer, Entry
  <2>3. CASE s = "out_offs"
    BY <1>2, <2>3, AdvanceOutFields DEF PublishStore
  <2>. QED  BY <2>1, <2>2, <2>3
<1>5. ASSUME NEW i \in Slot, buffer.full = 0 => i # buffer.in_offs
      PROVE  Contents(i)' = Contents(i)
  <2>1. CASE i # buffer.in_offs
    BY <1>1, <1>2, <1>4, <2>1 DEF Contents, SlotPtr
  <2>2. CASE i = buffer.in_offs
    <3>1. wr.branch = "overwrite"
      BY <1>1, <1>5, <2>2 DEF DriverInv, Publishing, PublishFill
    <3>. QED  BY <1>1, <1>3, <1>4, <2>2, <3>1 DEF Contents
  <2>. QED  BY <2>1, <2>2
<1>6. DeviceLog' = DeviceLog
  BY <1>1, <1>4, <1>5, LogKept
<1>7. DevicePartial' = DevicePartial
  BY <1>1 DEF DevicePartial
<1>. QED  BY <1>1, <1>6, <1>7

(* When in_offs moves, the slots after the oldest keep their places in the *)
(* log and the slot that was written comes last.                           *)
LEMMA LogSlotsMove ==
  ASSUME NEW o \in Slot, NEW k \in 1 .. MAXW
  PROVE  LET j == (Next1(o) + k - 1) % MAXW
         IN  /\ j \in Slot
             /\ k = MAXW => j = o
             /\ k # MAXW => j # o /\ j = (o + (k + 1) - 1) % MAXW
<1>1. /\ Next1(o) \in Slot
      /\ Next1(o) = IF o = MAXW - 1 THEN 0 ELSE o + 1
  BY Next1Value
<1>2. o \in Nat /\ o < MAXW /\ k - 1 \in 0 .. MAXW /\ k \in 0 .. MAXW
  BY DEF Slot
<1> DEFINE n == Next1(o)
<1>3. n \in Nat /\ n \in Slot
  BY <1>1 DEF Slot
<1>. HIDE DEF n
<1>4. (n + (k - 1)) % MAXW \in Slot
      /\ (n + (k - 1)) % MAXW = IF n + (k - 1) < MAXW THEN n + (k - 1)
                                ELSE n + (k - 1) - MAXW
  BY <1>2, <1>3, WrapValue
<1>5. (o + k) % MAXW = IF o + k < MAXW THEN o + k ELSE o + k - MAXW
  BY <1>2, WrapValue
<1>6. n + k - 1 = n + (k - 1) /\ o + (k + 1) - 1 = o + k
  BY <1>2, <1>3
<1>7. n = IF o = MAXW - 1 THEN 0 ELSE o + 1
  BY <1>1 DEF n
<1> DEFINE j == (n + k - 1) % MAXW
<1>8. j \in Slot /\ j = IF n + (k - 1) < MAXW THEN n + (k - 1) ELSE n + (k - 1) - MAXW
  BY <1>4, <1>6
<1>. HIDE DEF j
<1>9. k = MAXW => j = o
  BY <1>2, <1>3, <1>7, <1>8
<1>10. k # MAXW => j # o /\ j = IF o + k < MAXW THEN o + k ELSE o + k - MAXW
  BY <1>2, <1>3, <1>7, <1>8
<1>. QED  BY <1>5, <1>6, <1>8, <1>9, <1>10 DEF j, n

(* The end of add_entry is the abstract write: the whole command enters    *)
(* the log, and the oldest one leaves when the ring was full.              *)
LEMMA FinishPushes ==
  ASSUME DeviceInv, NEW p \in Proc, FinishWrite(p)
  PROVE  DeviceLog' = Device!Push(DeviceLog, kheap[working_entry])
<1>1. /\ DriverInv /\ HeapTypes /\ lock \in Proc /\ loaded /\ loaded'
      /\ wr.todo = {} /\ wr' = NoWrite
      /\ kheap' = Free(kheap, wr.ret_buffptr)
  BY DEF FinishWrite, DriverInv, LockDiscipline, Publishing, DeviceInv, TextInv
<1>2. /\ buffer \in Buffer /\ wr.slot \in Slot /\ wr.slot = buffer.in_offs
      /\ working_entry \in Ptr /\ buffer.full \in {0, 1}
  BY <1>1 DEF DriverInv, DeviceTypeOK, WriteLocals, Publishing, Buffer
<1>3. /\ buffer'.entry = buffer.entry
      /\ buffer'.in_offs = Next1(buffer.in_offs)
      /\ buffer'.full = IF wr.branch = "overwrite" THEN buffer.full
                        ELSE IF Next1(buffer.in_offs) = buffer.out_offs
                             THEN 1 ELSE 0
  BY <1>2, AdvanceInFields DEF FinishWrite
<1>4. SlotPtr(wr.slot) = working_entry
  BY <1>1 DEF DriverInv, Publishing, PublishFill, PublishOverwrite
<1> DEFINE After(i) == kheap'[SlotPtr(i)]
<1>5. ASSUME NEW i \in Slot, SlotPtr(i) # NULL
      PROVE  After(i) = kheap[SlotPtr(i)]
  <2>1. SlotPtr(i) # wr.ret_buffptr
    BY <1>1, <1>2, <1>4, <1>5
    DEF DriverInv, Publishing, PublishFill, PublishOverwrite
  <2>2. SlotPtr(i) \in DOMAIN kheap
    <3>1. SlotPtr(i) # ZERO_SIZE_PTR
      BY <1>1, SlotPtrType DEF Pointer, DriverInv
    <3>. QED  BY <1>1, <1>5, <3>1 DEF DriverInv, HeapExact, Referenced
  <2>. QED  BY <1>1, <2>1, <2>2 DEF Free
<1>6. /\ DeviceLog \in Seq(Seq(Text)) /\ Len(DeviceLog) = LogLen(buffer)
      /\ LogLen(buffer) \in 0 .. MAXW
      /\ \A k \in 1 .. LogLen(buffer) :
           /\ DeviceLog[k] = Contents(LogSlot(k))
           /\ LogSlot(k) \in Slot /\ SlotPtr(LogSlot(k)) # NULL
  BY <1>1, LogType
<1> DEFINE x == kheap[working_entry]
<1>7. x \in Seq(Text) /\ After(buffer.in_offs) = x
  <2>1. working_entry # NULL /\ working_entry # ZERO_SIZE_PTR
    BY <1>2
  <2>2. working_entry \in DOMAIN kheap
    BY <1>1, <2>1 DEF DriverInv, HeapExact, Referenced
  <2>3. x \in Seq(Text)
    BY <1>1, <2>2 DEF HeapTypes
  <2>4. SlotPtr(buffer.in_offs) = working_entry /\ buffer.in_offs \in Slot
    BY <1>2, <1>4
  <2>5. After(buffer.in_offs) = kheap[SlotPtr(buffer.in_offs)]
    BY <1>5, <2>1, <2>4
  <2>. HIDE DEF After
  <2>. QED  BY <2>3, <2>4, <2>5
<1>8. DeviceLog' =
        IF buffer'.full = 1
        THEN [k \in 1 .. MAXW |-> After((buffer'.in_offs + k - 1) % MAXW)]
        ELSE [k \in 1 .. buffer'.in_offs |-> After(k - 1)]
  BY <1>1, <1>3 DEF DeviceLog, Contents, NoWrite, SlotPtr
<1>. HIDE DEF After, x
<1>9. CASE wr.branch = "fill"
  <2> DEFINE n == buffer.in_offs
  <2>1. buffer.full = 0 /\ buffer.out_offs = 0
    BY <1>1, <1>9 DEF DriverInv, Publishing, PublishFill
  <2>2. n \in Slot /\ LogLen(buffer) = n /\ n \in Nat /\ n + 1 <= MAXW /\ n < MAXW
    BY <1>2, <2>1 DEF LogLen, Slot
  <2>3. \A k \in 1 .. n : DeviceLog[k] = After(k - 1)
    <3> TAKE k \in 1 .. n
    <3>1. LogSlot(k) = k - 1 /\ k - 1 # n
      BY <2>1, <2>2 DEF LogSlot
    <3>2. Contents(k - 1) = kheap[SlotPtr(k - 1)]
      BY <1>9 DEF Contents
    <3>3. k \in 1 .. LogLen(buffer)
      BY <2>2
    <3>. QED  BY <1>5, <1>6, <3>1, <3>2, <3>3
  <2>4. DeviceLog' = [k \in 1 .. n + 1 |-> After(k - 1)]
    <3>1. CASE n = MAXW - 1
      <4>1. buffer'.in_offs = 0 /\ buffer'.full = 1 /\ n + 1 = MAXW
        BY <1>3, <1>9, <2>1, <2>2, <3>1, Next1Value
      <4>2. \A k \in 1 .. MAXW : (0 + k - 1) % MAXW = k - 1
        <5> TAKE k \in 1 .. MAXW
        <5>1. 0 \in Slot /\ k - 1 \in 0 .. MAXW /\ 0 + (k - 1) < MAXW
              /\ 0 + (k - 1) = k - 1 /\ 0 + k - 1 = 0 + (k - 1)
          BY DEF Slot
        <5>. QED  BY <5>1, WrapValue
      <4>. QED  BY <1>8, <4>1, <4>2
    <3>2. CASE n # MAXW - 1
      <4>1. buffer'.in_offs = n + 1 /\ n + 1 # 0
        BY <1>3, <2>2, <3>2, Next1Value
      <4>2. buffer'.full = 0
        BY <1>3, <1>9, <2>1, <4>1
      <4>. QED  BY <1>8, <4>1, <4>2
    <3>. QED  BY <3>1, <3>2
  <2>5. /\ Append(DeviceLog, x) \in Seq(Seq(Text))
        /\ Len(Append(DeviceLog, x)) = n + 1
        /\ \A k \in 1 .. n : Append(DeviceLog, x)[k] = DeviceLog[k]
        /\ Append(DeviceLog, x)[n + 1] = x
    BY <1>6, <1>7, <2>2, AppendProperties
  <2>. HIDE DEF n
  <2>6. \A k \in 1 .. n + 1 : Append(DeviceLog, x)[k] = After(k - 1)
    <3> TAKE k \in 1 .. n + 1
    <3>1. CASE k = n + 1
      <4>1. k - 1 = n
        BY <2>2, <3>1
      <4>. QED  BY <1>7, <2>5, <3>1, <4>1 DEF n
    <3>2. CASE k # n + 1
      <4>1. k \in 1 .. n
        BY <2>2, <3>2
      <4>. QED  BY <2>3, <2>5, <4>1
    <3>. QED  BY <3>1, <3>2
  <2>7. Append(DeviceLog, x) = [k \in 1 .. n + 1 |-> Append(DeviceLog, x)[k]]
    BY <2>5, LenProperties
  <2>8. DeviceLog' = Append(DeviceLog, x)
    BY <2>4, <2>6, <2>7
  <2>. QED  BY <1>6, <2>2, <2>8 DEF Device!Push, x
<1>10. CASE wr.branch = "overwrite"
  <2> DEFINE o == buffer.in_offs
             L == DeviceLog
             new == Append(Tail(L), x)
  <2>1. buffer.full = 1
    BY <1>1, <1>10 DEF DriverInv, Publishing, PublishOverwrite
  <2>2. o \in Slot /\ LogLen(buffer) = MAXW /\ MAXW \in Nat /\ Len(L) = MAXW
    BY <1>2, <1>6, <2>1 DEF LogLen
  <2>3. DeviceLog' = [k \in 1 .. MAXW |-> After((Next1(o) + k - 1) % MAXW)]
    BY <1>3, <1>8, <1>10, <2>1
  <2>4. L # <<>> /\ L \in Seq(Seq(Text))
    BY <1>6, <2>2, EmptySeq
  <2>5. /\ Tail(L) \in Seq(Seq(Text)) /\ Len(Tail(L)) = MAXW - 1
        /\ \A k \in 1 .. MAXW - 1 : Tail(L)[k] = L[k + 1]
    <3>. HIDE DEF L
    <3>. QED  BY <2>2, <2>4, HeadTailProperties
  <2>6. /\ new \in Seq(Seq(Text)) /\ Len(new) = MAXW
        /\ \A k \in 1 .. MAXW - 1 : new[k] = L[k + 1]
        /\ new[MAXW] = x
    <3> DEFINE t == Tail(L)
    <3>1. /\ t \in Seq(Seq(Text)) /\ Len(t) = MAXW - 1
          /\ \A k \in 1 .. MAXW - 1 : t[k] = L[k + 1]
      BY <2>5
    <3>. HIDE DEF t, L
    <3>2. /\ Append(t, x) \in Seq(Seq(Text))
          /\ Len(Append(t, x)) = Len(t) + 1
          /\ \A k \in 1 .. Len(t) : Append(t, x)[k] = t[k]
          /\ Append(t, x)[Len(t) + 1] = x
      BY <1>7, <3>1, AppendProperties
    <3>3. Len(t) + 1 = MAXW
      BY <2>2, <3>1
    <3>. QED  BY <3>1, <3>2, <3>3 DEF t
  <2>. HIDE DEF new, L
  <2>7. \A k \in 1 .. MAXW : new[k] = After((Next1(o) + k - 1) % MAXW)
    <3> TAKE k \in 1 .. MAXW
    <3> DEFINE j == (Next1(o) + k - 1) % MAXW
    <3>1. /\ j \in Slot
          /\ k = MAXW => j = o
          /\ k # MAXW => j # o /\ j = (o + (k + 1) - 1) % MAXW
      BY <2>2, LogSlotsMove
    <3>. HIDE DEF j
    <3>2. CASE k = MAXW
      BY <1>7, <2>6, <3>1, <3>2 DEF j
    <3>3. CASE k # MAXW
      <4>1. k \in 1 .. MAXW - 1 /\ k + 1 \in 1 .. MAXW
        BY <2>2, <3>3
      <4>2. LogSlot(k + 1) = j
        BY <2>1, <3>1, <3>3 DEF LogSlot
      <4>3. L[k + 1] = Contents(j) /\ SlotPtr(j) # NULL
        BY <1>6, <2>2, <4>1, <4>2 DEF L
      <4>4. Contents(j) = kheap[SlotPtr(j)]
        BY <3>1, <3>3 DEF Contents
      <4>5. After(j) = kheap[SlotPtr(j)]
        BY <1>5, <3>1, <4>3
      <4>. QED  BY <2>6, <4>1, <4>3, <4>4, <4>5 DEF j
    <3>. QED  BY <3>2, <3>3
  <2>8. new = [k \in 1 .. MAXW |-> new[k]]
    BY <2>6, LenProperties
  <2>9. DeviceLog' = new
    BY <2>3, <2>7, <2>8
  <2>. QED  BY <2>2, <2>9 DEF Device!Push, new, L, x
<1>. QED  BY <1>1, <1>9, <1>10 DEF DriverInv, Publishing

(* So that the end of aesd_write is the write of the chunk it was called   *)
(* with.                                                                   *)
LEMMA FinishImplements ==
  ASSUME DeviceInv, NEW p \in Proc, FinishWrite(p)
  PROVE  \E c \in Chunk : Device!Write(p, c)
<1> DEFINE block == kheap[working_entry]
<1>1. /\ DriverInv /\ PendingText /\ PendingCounted /\ lock \in Proc /\ loaded
      /\ working_entry' = NULL /\ Returns(p, wr.count, <<>>) /\ UNCHANGED f_pos
  BY DEF FinishWrite, DriverInv, LockDiscipline, Publishing, DeviceInv, TextInv, Counted
<1>2. working_entry \in Ptr /\ working_entry # NULL /\ working_entry # ZERO_SIZE_PTR
  BY <1>1 DEF DriverInv, Publishing
<1>3. PICK c \in Chunk : /\ c # <<>> /\ Last(c) = NL /\ Len(c) = wr.count
                         /\ block = SubSeq(block, 1, previous_count) \o c
  BY <1>1, <1>2 DEF PendingText
<1>4. DevicePartial = SubSeq(block, 1, previous_count)
  BY <1>1, <1>2 DEF DevicePartial
<1>5. DevicePartial' = <<>>
  BY <1>1 DEF DevicePartial
<1>6. DeviceLog' = Device!Push(DeviceLog, block)
  BY FinishPushes
<1>. HIDE DEF block
<1>7. DeviceLog' = Device!Push(DeviceLog, DevicePartial \o c)
  BY <1>3, <1>4, <1>6
<1>8. Device!Last(c) = NL
  BY <1>3, SameOperators
<1>9. Device!Write(p, c)
  BY <1>1, <1>3, <1>5, <1>7, <1>8 DEF Device!Write, Device!Returns, Returns
<1>. QED  BY <1>9

(* A call that returns without data is an abstract seek or a failure.      *)
LEMMA LeaveImplements ==
  ASSUME DeviceInv, UNCHANGED <<loaded, device>>, NEW p \in Proc,
         NEW value \in Int, Leave(p, value),
         \/ value < 0 /\ UNCHANGED f_pos
         \/ \E pos \in Nat : /\ f_pos' = [f_pos EXCEPT ![p] = pos]
                             /\ value \in {0, pos}
  PROVE  Device!Fail(p) \/ Device!Seek(p)
<1>1. /\ DeviceLog' = DeviceLog /\ DevicePartial' = DevicePartial
      /\ f_pos \in [Proc -> Nat]
      /\ ret' = [p |-> p, value |-> ret'.value, data |-> <<>>]
      /\ ret'.value = value
  BY QuietDevice DEF Leave, Returns, DeviceInv, TextInv, CallTypes
<1>2. CASE value < 0 /\ UNCHANGED f_pos
  BY <1>1, <1>2 DEF Device!Fail, Device!Returns
<1>3. ASSUME NEW pos \in Nat, f_pos' = [f_pos EXCEPT ![p] = pos], value \in {0, pos}
      PROVE  Device!Seek(p)
  <2>1. f_pos'[p] = pos
    BY <1>1, <1>3
  <2>. QED  BY <1>1, <1>3, <2>1 DEF Device!Seek, Device!Returns
<1>. QED  BY <1>2, <1>3

(* As is a call that sets the file position.                               *)
LEMMA SetPosImplements ==
  ASSUME DeviceInv, UNCHANGED <<loaded, device>>, NEW p \in Proc,
         NEW newpos \in Int, SetPos(p, newpos)
  PROVE  Device!Fail(p) \/ Device!Seek(p)
<1>1. CASE newpos < 0
  <2>1. EINVAL \in Int /\ EINVAL < 0
    BY DEF EINVAL
  <2>. QED  BY <1>1, <2>1, LeaveImplements DEF SetPos
<1>2. CASE ~(newpos < 0)
  <2>1. newpos \in Nat
    BY <1>2
  <2>. QED  BY <1>2, <2>1, LeaveImplements DEF SetPos
<1>. QED  BY <1>1, <1>2

(* A write that fails in the middle of a command loses what was pending    *)
(* and touches no command that is complete.                                *)
LEMMA CleanupImplements ==
  ASSUME DriverInv, HeapTypes, Counted, loaded, lock = NULL, NEW p \in Proc,
         NEW e, e < 0, NEW v \in Victims, CleanupWorkingEntry(p, e, v)
  PROVE  Device!LoseCommand(p)
<1>1. /\ UNCHANGED <<loaded, buffer, wr, f_pos>> /\ working_entry' = NULL
      /\ kheap' = Free(Scribble(kheap, v), working_entry)
      /\ Returns(p, e, <<>>)
  BY DEF CleanupWorkingEntry
<1>2. v \notin DOMAIN kheap
  <2>1. v = NULL
    BY DEF Victims, Counted, PendingCounted, DriverInv, DeviceTypeOK
  <2>. QED  BY <2>1 DEF DriverInv, DeviceTypeOK
<1>3. \A i \in Slot : SlotPtr(i) # NULL =>
        /\ SlotPtr(i) \in DOMAIN kheap /\ SlotPtr(i) # working_entry
        /\ kheap'[SlotPtr(i)] = kheap[SlotPtr(i)]
  <2> DEFINE h == Free(Scribble(kheap, v), working_entry)
  <2>1. kheap' = h
    BY <1>1
  <2>3. /\ DOMAIN h = DOMAIN kheap \ {working_entry}
        /\ \A a \in DOMAIN h : a # v => h[a] = kheap[a]
    BY CleanupHeap
  <2>. HIDE DEF h
  <2>2. \A i \in Slot : SlotPtr(i) # NULL =>
          SlotPtr(i) \in DOMAIN kheap /\ SlotPtr(i) # working_entry
    BY Idle
  <2>. QED  BY <1>2, <2>1, <2>2, <2>3
<1>4. \A i \in Slot : SlotPtr(i) # NULL => Contents(i)' = Contents(i)
  <2>1. wr.branch = "none"
    BY Idle DEF NoWrite
  <2>. QED  BY <1>1, <1>3, <2>1 DEF Contents, SlotPtr
<1>5. DeviceLog' = DeviceLog
  BY <1>1, <1>4, LogKept
<1>6. DevicePartial' = <<>>
  BY <1>1 DEF DevicePartial
<1>. QED  BY <1>1, <1>5, <1>6 DEF Device!LoseCommand, Device!Returns, Returns

(* Each step of the driver is a step of the device or is not seen.         *)
LEMMA NextImplements ==
  ASSUME DeviceInv, [Next]_vars
  PROVE  Device!Next \/ UNCHANGED <<DeviceLog, DevicePartial, f_pos, ret>>
<1>1. /\ DriverInv /\ HeapTypes /\ Counted
      /\ arg \in [Proc -> [cmd : Nat, off : Int, i : Nat, index : Nat, acc : Nat]]
      /\ f_pos \in [Proc -> Nat]
  BY DEF DeviceInv, TextInv, CallTypes
<1>2. \A p \in Proc : pc[p] # "closed" => loaded
  BY <1>1 DEF DriverInv, LockDiscipline
<1>3. /\ ENOMEM \in Int /\ EFAULT \in Int /\ EINVAL \in Int /\ ENOTTY \in Int
      /\ ENOMEM < 0 /\ EFAULT < 0 /\ EINVAL < 0 /\ ENOTTY < 0 /\ ERESTARTSYS < 0
  BY DEF ENOMEM, EFAULT, EINVAL, ENOTTY, ERESTARTSYS
<1>4. ASSUME NEW p \in Proc, UNCHANGED <<loaded, device, f_pos>>,
             NEW e, e < 0, Returns(p, e, <<>>)
      PROVE  Device!Fail(p)
  BY <1>4, QuietDevice DEF Returns, Device!Fail, Device!Returns
<1>5. CASE aesd_init_module
  <2>1. buffer'.full = 0 /\ buffer'.in_offs = 0 /\ working_entry' = NULL
    BY <1>5 DEF aesd_init_module, aesd_circular_buffer_init
  <2>2. DeviceLog = <<>> /\ DevicePartial = <<>>
    BY <1>5 DEF aesd_init_module, DeviceLog, DevicePartial
  <2>3. DeviceLog' = <<>>
    BY <2>1 DEF DeviceLog
  <2>4. DevicePartial' = <<>>
    BY <2>1 DEF DevicePartial
  <2>. QED  BY <1>5, <2>2, <2>3, <2>4 DEF aesd_init_module
<1>6. CASE aesd_cleanup_module
  <2>1. DeviceLog' = <<>> /\ DevicePartial' = <<>>
    BY <1>6 DEF aesd_cleanup_module, DeviceLog, DevicePartial
  <2>. QED  BY <1>6, <2>1 DEF aesd_cleanup_module, Device!Next, Device!Unload
<1>7. ASSUME NEW p \in Proc, Step(p)
      PROVE  Device!Next \/ UNCHANGED <<DeviceLog, DevicePartial, f_pos, ret>>
  <2>1. CASE aesd_open(p)
    <3>1. UNCHANGED <<loaded, device>>
      BY <2>1 DEF aesd_open
    <3>2. Device!Open(p)
      BY <2>1, <3>1, QuietDevice DEF aesd_open, Device!Open, Device!Returns, Returns
    <3>. QED  BY <3>2 DEF Device!Next
  <2>2. CASE aesd_release(p)
    <3>1. UNCHANGED <<loaded, device>>
      BY <2>2 DEF aesd_release
    <3>2. Device!Close(p)
      BY <2>2, <3>1, QuietDevice DEF aesd_release, Device!Close
    <3>. QED  BY <3>2 DEF Device!Next
  <2>3. CASE LockInterrupted(p)
    <3>1. Device!Fail(p)
      BY <1>3, <1>4, <2>3 DEF LockInterrupted
    <3>. QED  BY <3>1 DEF Device!Next
  <2>4. ASSUME NEW count \in Count, aesd_read(p, count) PROVE Device!Next
    <3>1. loaded
      BY <1>2, <2>4 DEF aesd_read
    <3>2. Device!Read(p, count) \/ Device!Fail(p)
      BY <2>4, <3>1, ReadImplements
    <3>. QED  BY <3>2 DEF Device!Next
  <2>5. CASE WriteFails(p)
    <3>1. loaded /\ lock = NULL
      BY <1>2, <2>5 DEF WriteFails
    <3>2. ASSUME Returns(p, ENOMEM, <<>>), UNCHANGED <<loaded, device, f_pos>>
          PROVE  Device!Next
      <4>1. Device!Fail(p)
        BY <1>3, <1>4, <3>2
      <4>. QED  BY <4>1 DEF Device!Next
    <3>3. ASSUME NEW e \in {ENOMEM, EFAULT}, NEW v \in Victims,
                 CleanupWorkingEntry(p, e, v)
          PROVE  Device!Next
      <4>1. Device!LoseCommand(p)
        BY <1>1, <1>3, <3>1, <3>3, CleanupImplements
      <4>. QED  BY <4>1 DEF Device!Next
    <3>4. NULL \in Victims
      BY DEF Victims
    <3>. QED  BY <2>5, <3>2, <3>3, <3>4 DEF WriteFails
  <2>6. CASE WriteOops(p)
    <3>1. UNCHANGED <<loaded, buffer, kheap, wr, ret>> /\ working_entry = NULL
          /\ working_entry' = ZERO_SIZE_PTR /\ f_pos' = [f_pos EXCEPT ![p] = 0]
      BY <2>6 DEF WriteOops
    <3>2. DeviceLog' = DeviceLog
      BY <3>1 DEF DeviceLog, Contents, SlotPtr
    <3>3. DevicePartial' = DevicePartial
      BY <3>1 DEF DevicePartial
    <3>4. Device!Close(p)
      BY <3>1, <3>2, <3>3 DEF Device!Close
    <3>. QED  BY <3>4 DEF Device!Next
  <2>7. ASSUME NEW c \in Chunk, NEW q \in Address, NEW v \in Victims,
               aesd_write(p, c, q, v)
        PROVE  Device!Next \/ UNCHANGED <<DeviceLog, DevicePartial, f_pos, ret>>
    <3>1. loaded
      BY <1>2, <2>7 DEF aesd_write
    <3>2. \/ Device!Write(p, c) \/ Device!WriteNothing(p)
          \/ UNCHANGED <<DeviceLog, DevicePartial, f_pos, ret>>
      BY <2>7, <3>1, WriteImplements
    <3>. QED  BY <3>2 DEF Device!Next
  <2>8. ASSUME NEW s \in {"buffptr", "size", "out_offs"}, PublishStore(p, s)
        PROVE  UNCHANGED <<DeviceLog, DevicePartial, f_pos, ret>>
    BY <2>8, StoreImplements
  <2>9. CASE FinishWrite(p)
    <3>1. \E c \in Chunk : Device!Write(p, c)
      BY <2>9, FinishImplements
    <3>. QED  BY <3>1 DEF Device!Next
  <2>10. ASSUME UNCHANGED <<loaded, device>>,
                Device!Fail(p) \/ Device!Seek(p) \/ UNCHANGED <<f_pos, ret>>
         PROVE  Device!Next \/ UNCHANGED <<DeviceLog, DevicePartial, f_pos, ret>>
    BY <2>10, QuietDevice DEF Device!Next
  <2>11. arg[p] \in [cmd : Nat, off : Int, i : Nat, index : Nat, acc : Nat]
         /\ f_pos[p] \in Nat
    BY <1>1
  <2>12. ASSUME NEW off \in SeekOffset, NEW whence, aesd_llseek(p, off, whence)
         PROVE  Device!Next \/ UNCHANGED <<DeviceLog, DevicePartial, f_pos, ret>>
    <3>1. off \in Int /\ f_pos[p] + off \in Int /\ UNCHANGED <<loaded, device>>
      BY <2>11, <2>12, ArgAssumption DEF aesd_llseek
    <3>2. CASE SetPos(p, off)
      BY <2>10, <3>1, <3>2, SetPosImplements
    <3>3. CASE SetPos(p, f_pos[p] + off)
      BY <2>10, <3>1, <3>3, SetPosImplements
    <3>4. CASE Leave(p, EINVAL) /\ UNCHANGED f_pos
      BY <1>3, <2>10, <3>1, <3>4, LeaveImplements
    <3>5. CASE UNCHANGED <<f_pos, ret>>
      BY <2>10, <3>1, <3>5
    <3>. QED  BY <2>12, <3>2, <3>3, <3>4, <3>5 DEF aesd_llseek
  <2>13. CASE SeekEndPtr(p)
    <3>1. arg[p].acc + arg[p].off \in Int /\ UNCHANGED <<loaded, device>>
      BY <2>11, <2>13 DEF SeekEndPtr
    <3>2. CASE SetPos(p, arg[p].acc + arg[p].off)
      BY <2>10, <3>1, <3>2, SetPosImplements
    <3>3. CASE UNCHANGED <<f_pos, ret>>
      BY <2>10, <3>1, <3>3
    <3>. QED  BY <2>13, <3>2, <3>3 DEF SeekEndPtr
  <2>14. CASE SeekEndSize(p) \/ SeekToOffs(p)
    BY <2>10, <2>14 DEF SeekEndSize, SeekToOffs
  <2>15. ASSUME NEW cmd \in WriteCmd, NEW off \in CmdOffset, aesd_ioctl(p, cmd, off)
         PROVE  Device!Next \/ UNCHANGED <<DeviceLog, DevicePartial, f_pos, ret>>
    <3>1. UNCHANGED <<loaded, device, f_pos>>
      BY <2>15 DEF aesd_ioctl
    <3>2. ASSUME NEW e \in {EINVAL, EFAULT, ENOTTY}, Leave(p, e)
          PROVE  Device!Fail(p) \/ Device!Seek(p)
      BY <1>3, <3>1, <3>2, LeaveImplements
    <3>. QED  BY <2>10, <2>15, <3>1, <3>2 DEF aesd_ioctl
  <2>16. CASE SeekToPtr(p)
    <3>1. UNCHANGED <<loaded, device, f_pos>>
      BY <2>16 DEF SeekToPtr
    <3>2. CASE Leave(p, EINVAL)
      BY <1>3, <2>10, <3>1, <3>2, LeaveImplements
    <3>. QED  BY <2>10, <2>16, <3>1, <3>2 DEF SeekToPtr
  <2>17. CASE SeekToSize(p)
    <3>1. UNCHANGED <<loaded, device>>
      BY <2>17 DEF SeekToSize
    <3>2. CASE UNCHANGED <<f_pos, ret>>
      BY <2>10, <3>1, <3>2
    <3>3. CASE Leave(p, EINVAL) /\ UNCHANGED f_pos
      BY <1>3, <2>10, <3>1, <3>3, LeaveImplements
    <3>4. CASE Leave(p, 0) /\ f_pos' = [f_pos EXCEPT ![p] = arg[p].acc + arg[p].off]
      <4>1. arg[p].off \in Nat
        BY <2>17 DEF SeekToSize, DeviceInv, TextInv, CallTypes
      <4>2. arg[p].acc + arg[p].off \in Nat
        BY <2>11, <4>1
      <4> DEFINE pos == arg[p].acc + arg[p].off
      <4>3. pos \in Nat /\ f_pos' = [f_pos EXCEPT ![p] = pos] /\ Leave(p, 0)
        BY <3>4, <4>2
      <4>. HIDE DEF pos
      <4>4. ASSUME NEW value, value = 0 PROVE Device!Fail(p) \/ Device!Seek(p)
        <5>1. value \in Int /\ value \in {0, pos}
          BY <4>4
        <5>2. Leave(p, value)
          BY <4>3, <4>4, Zenon
        <5>3. pos \in Nat /\ f_pos' = [f_pos EXCEPT ![p] = pos]
          BY <4>3
        <5>. QED  BY <3>1, <5>1, <5>2, <5>3, LeaveImplements, Zenon
      <4>5. Device!Fail(p) \/ Device!Seek(p)
        BY <4>4
      <4>. QED  BY <2>10, <3>1, <4>5
    <3>. QED  BY <2>17, <3>2, <3>3, <3>4 DEF SeekToSize
  <2>. QED  BY <1>7, <2>1, <2>2, <2>3, <2>4, <2>5, <2>6, <2>7, <2>8, <2>9, <2>12,
               <2>13, <2>14, <2>15, <2>16, <2>17 DEF Step
<1>8. CASE UNCHANGED vars
  BY <1>8, QuietDevice DEF vars
<1>. QED  BY <1>5, <1>6, <1>7, <1>8 DEF Next

(* Whatever the interleaving of writers, readers and callers without the   *)
(* mutex, whatever order the stores of add_entry become visible in,        *)
(* whatever fails, and for every capacity, the driver behaves as the       *)
(* device of AesdDevice, the last MAXW commands, oldest first, read as one *)
(* text, as long as its sizes are right; they go wrong only by a write     *)
(* that fails in the middle of a command (OnlyFailedWritesAlwaysMiscount), *)
(* and that call too is one of the device's.                               *)
THEOREM ImplementsDevice == Spec => DeviceSpec
<1>1. Init => TextInv /\ Device!Init
  <2> SUFFICES ASSUME Init PROVE TextInv /\ Device!Init
    OBVIOUS
  <2>1. DriverInv
    BY InitDriverInv
  <2>2. HeapTypes /\ PendingText
    BY DEF Init, HeapTypes, PendingText
  <2>3. <<>> \in Seq(Text)
    BY EmptySeq
  <2>4. ret \in [p : Proc \cup {NULL}, value : Int, data : Seq(Text)]
    BY <2>3 DEF Init
  <2>5. CallTypes
    BY <2>4 DEF Init, CallTypes, NoArg
  <2>6. DeviceLog = <<>> /\ DevicePartial = <<>>
    BY DEF Init, DeviceLog, DevicePartial
  <2>. QED  BY <2>1, <2>2, <2>5, <2>6 DEF Init, TextInv, Device!Init
<1>2. TextInv /\ [Next]_vars => TextInv'
  BY NextDriverInv, NextHeapTypes, NextCallTypes, NextPendingText
  DEF TextInv
<1>3. TextInv /\ [Next]_vars
        => [Counted => Device!Next]_<<DeviceLog, DevicePartial, f_pos, ret>>
  BY NextImplements DEF DeviceInv
<1>. QED  BY <1>1, <1>2, <1>3, PTL DEF Spec, DeviceSpec
=============================================================================
