------------------------------ MODULE AesdChar ------------------------------
(***************************************************************************)
(* The character driver, aesd-char-driver/main.c.  Processes open the      *)
(* device and call read, write, llseek and ioctl concurrently.             *)
(*                                                                         *)
(* Granularity.  read and write run under aesd_device.lock, so what they   *)
(* do to data that only lock holders touch is one step.  llseek and ioctl  *)
(* take no lock: each of their loads of the circular buffer is a step, and *)
(* so is each store that add_entry makes to a field they load.  The stores *)
(* may become visible in any order, since nothing orders them for a reader *)
(* without the lock.                                                       *)
(*                                                                         *)
(* The kernel is external: kmalloc and krealloc return any free address,   *)
(* module unloading waits for the last close, and each process owns one    *)
(* struct file.                                                            *)
(***************************************************************************)
EXTENDS CircularBufferOps, Sequences, SequencesExt

CONSTANTS
  Proc,            \* processes that use the device
  DeadTask,        \* owner of a mutex whose holder was killed by an oops
  ZERO_SIZE_PTR,   \* what kmalloc(0) returns: not NULL, not dereferenceable
  Byte, NL,        \* bytes, and the newline among them
  Junk,            \* a byte nobody wrote: memset's zero, or another block's
  Chunk,           \* what one write may pass from user space
  Count,           \* the size_t count of a read
  WriteCmd, CmdOffset,  \* the fields of struct aesd_seekto
  SeekOffset,      \* the loff_t of llseek
  Faults,          \* calls that may fail
  MaxEntry,        \* bound: longest command being assembled
  MaxPos           \* bound: largest position llseek may set

ASSUME ProcAssumption  == NULL \notin Proc /\ DeadTask \notin Proc \cup {NULL}
ASSUME ZeroAssumption  == ZERO_SIZE_PTR \notin Ptr \cup {NULL}
ASSUME ByteAssumption  == NL \in Byte /\ Junk \notin Byte
ASSUME ChunkAssumption == Chunk \subseteq Seq(Byte)
ASSUME ArgAssumption   ==
  /\ Count \subseteq Nat /\ WriteCmd \subseteq Nat /\ CmdOffset \subseteq Nat
  /\ SeekOffset \subseteq Int
  /\ MaxEntry \in Nat /\ MaxPos \in Nat
ASSUME FaultsAssumption ==
  Faults \subseteq {"signal", "kmalloc", "krealloc", "copy_from_user",
                    "copy_to_user"}

VARIABLES
  loaded,          \* is the module in the kernel?
  buffer,          \* aesd_device.circular_buffer
  working_entry,   \* aesd_device.working_entry
  previous_count,  \* the static of aesd_write
  kheap,           \* live kmalloc blocks: address -> contents
  lock,            \* owner of aesd_device.lock, or NULL
  wr,              \* locals of the aesd_write that is publishing an entry
  pc,              \* where each process is
  arg,             \* locals of a running llseek or ioctl
  f_pos,           \* filp->f_pos
  ret              \* the last return to user space: [p, value, data]

device == <<buffer, working_entry, previous_count, kheap, lock, wr>>
vars   == <<loaded, device, pc, arg, f_pos, ret>>

ENOMEM == -12
EFAULT == -14
EINVAL == -22
ENOTTY == -25
ERESTARTSYS == -512

Returns(p, value, data) == ret' = [p |-> p, value |-> value, data |-> data]

----------------------------------------------------------------------------
(* Kernel memory.                                                          *)

Free(h, q) == [a \in DOMAIN h \ {q} |-> h[a]]            \* kfree

Alloc(h, q, block) == [a \in DOMAIN h \cup {q} |-> IF a = q THEN block ELSE h[a]]

\* Addresses the allocation at the top of aesd_write can return: krealloc
\* may grow the block in place.
Address == (Ptr \ DOMAIN kheap) \cup ({working_entry} \ {NULL, ZERO_SIZE_PTR})

\* The working entry after allocation, memset and copy_from_user.  kmalloc
\* gives a block of count bytes, krealloc one of previous_count + count with
\* the old contents.  The copy goes to offset previous_count, and what falls
\* outside the block is lost to the block.
WorkingBlock(c) ==
  LET old == IF working_entry = NULL THEN <<>> ELSE kheap[working_entry]
      len == IF working_entry = NULL THEN Len(c) ELSE previous_count + Len(c)
  IN  [i \in 1 .. len |->
         IF i > previous_count /\ i <= previous_count + Len(c)
           THEN c[i - previous_count]
         ELSE IF i <= Len(old) THEN old[i] ELSE Junk]

\* A copy to an offset past the end of its block lands in some other block, or
\* in memory the driver does not own.
Victims == IF working_entry = NULL /\ previous_count > 0
           THEN {NULL} \cup DOMAIN kheap ELSE {NULL}

Scribble(h, v) ==
  [a \in DOMAIN h |-> IF a = v THEN [i \in DOMAIN h[a] |-> Junk] ELSE h[a]]

\* A slip: copy_to_user from the start of the entry.
BytesFromStart(block, off, n) ==
  [i \in 1 .. n |-> IF i <= Len(block) THEN block[i] ELSE Junk]

\* n bytes at offset off of a block, as copy_to_user sees them.
Bytes(block, off, n) ==
  [i \in 1 .. n |-> IF off + i <= Len(block) THEN block[off + i] ELSE Junk]

----------------------------------------------------------------------------
(* Module load and unload, open and release.                               *)

NoWrite == [e |-> [buffptr |-> NULL, size |-> 0], slot |-> 0, branch |-> "none",
            ret_buffptr |-> NULL, todo |-> {}, count |-> 0]

NoArg == [cmd |-> 0, off |-> 0, i |-> 0, index |-> 0, acc |-> 0]

Init ==
  /\ loaded = FALSE
  /\ buffer = aesd_circular_buffer_init
  /\ working_entry = NULL
  /\ previous_count = 0
  /\ kheap = [a \in {} |-> <<>>]
  /\ lock = NULL
  /\ wr = NoWrite
  /\ pc = [p \in Proc |-> "closed"]
  /\ arg = [p \in Proc |-> NoArg]
  /\ f_pos = [p \in Proc |-> 0]
  /\ ret = [p |-> NULL, value |-> 0, data |-> <<>>]

\* memset of aesd_device and mutex_init come before cdev_add makes the device
\* reachable; loading the module also initialises its statics.  When
\* alloc_chrdev_region or cdev_add fails nothing is left behind: no step.
aesd_init_module ==
  /\ ~loaded
  /\ loaded' = TRUE
  /\ buffer' = aesd_circular_buffer_init
  /\ working_entry' = NULL
  /\ previous_count' = 0
  /\ lock' = NULL
  /\ UNCHANGED <<kheap, wr, pc, arg, f_pos, ret>>

\* Frees every buffptr in the array and the working entry.  The kernel
\* unloads a module only when no file is open.
aesd_cleanup_module ==
  /\ loaded
  /\ \A p \in Proc : pc[p] = "closed"
  /\ loaded' = FALSE
  /\ kheap' = [a \in DOMAIN kheap \ ({buffer.entry[i].buffptr : i \in Slot}
                                     \cup {working_entry}) |-> kheap[a]]
  /\ UNCHANGED <<buffer, working_entry, previous_count, lock, wr, pc, arg,
                 f_pos, ret>>

aesd_open(p) ==
  /\ loaded
  /\ pc[p] = "closed"
  /\ pc' = [pc EXCEPT ![p] = "idle"]
  /\ f_pos' = [f_pos EXCEPT ![p] = 0]
  /\ Returns(p, 0, <<>>)
  /\ UNCHANGED <<loaded, device, arg>>

aesd_release(p) ==
  /\ pc[p] = "idle"
  /\ pc' = [pc EXCEPT ![p] = "closed"]
  /\ f_pos' = [f_pos EXCEPT ![p] = 0]              \* the struct file is gone
  /\ UNCHANGED <<loaded, device, arg, ret>>

----------------------------------------------------------------------------
(* read and write.                                                         *)

\* mutex_lock_interruptible: a signal ends the wait for a lock that is held.
LockInterrupted(p) ==
  /\ "signal" \in Faults
  /\ pc[p] = "idle"
  /\ lock # NULL
  /\ Returns(p, ERESTARTSYS, <<>>)
  /\ UNCHANGED <<loaded, device, pc, arg, f_pos>>

aesd_read(p, count) ==
  LET found == aesd_circular_buffer_find_entry_offset_for_fpos(buffer, f_pos[p])
      entry == buffer.entry[found.slot]
      left  == entry.size - found.offset
      n     == IF left > count THEN count ELSE left
  IN  /\ pc[p] = "idle"
      /\ lock = NULL
      /\ \/ /\ found = NotFound
            /\ Returns(p, 0, <<>>)
            /\ UNCHANGED f_pos
         \/ /\ found # NotFound
            /\ Returns(p, n, Bytes(kheap[entry.buffptr], found.offset, n))
            /\ f_pos' = [f_pos EXCEPT ![p] = @ + n]
         \/ /\ found # NotFound                    \* copy_to_user failed
            /\ "copy_to_user" \in Faults
            /\ Returns(p, EFAULT, <<>>)
            /\ UNCHANGED f_pos
      /\ UNCHANGED <<loaded, device, pc, arg>>

\* A slip: the cleanup label forgets kfree.
CleanupLeaks(p, error, v) ==
  /\ kheap' = Scribble(kheap, v)
  /\ working_entry' = NULL
  /\ Returns(p, error, <<>>)
  /\ UNCHANGED <<loaded, buffer, previous_count, lock, wr, pc, arg, f_pos>>

\* The label exit_cleanup_working_entry: the buffer is freed and forgotten.
\* previous_count keeps its value.
CleanupWorkingEntry(p, error, v) ==
  /\ kheap' = Free(Scribble(kheap, v), working_entry)
  /\ working_entry' = NULL
  /\ Returns(p, error, <<>>)
  /\ UNCHANGED <<loaded, buffer, previous_count, lock, wr, pc, arg, f_pos>>

\* The error exits of aesd_write.  A first chunk whose copy fails, maybe
\* after some bytes, is freed in the call that allocated it.
WriteFails(p) ==
  /\ pc[p] = "idle"
  /\ lock = NULL
  /\ \/ /\ working_entry = NULL
        /\ "kmalloc" \in Faults
        /\ Returns(p, ENOMEM, <<>>)
        /\ UNCHANGED <<loaded, device, pc, arg, f_pos>>
     \/ /\ working_entry # NULL
        /\ "krealloc" \in Faults
        /\ CleanupWorkingEntry(p, ENOMEM, NULL)
     \/ /\ "copy_from_user" \in Faults
        /\ \E v \in Victims : CleanupWorkingEntry(p, EFAULT, v)

\* A zero-length first write: kmalloc(0) succeeds, and the test for a final
\* newline then dereferences ZERO_SIZE_PTR - 1.  The kernel kills the caller,
\* closing its file, with the mutex still locked.
WriteOops(p) ==
  /\ <<>> \in Chunk
  /\ pc[p] = "idle"
  /\ lock = NULL
  /\ working_entry = NULL
  /\ working_entry' = ZERO_SIZE_PTR
  /\ lock' = DeadTask
  /\ pc' = [pc EXCEPT ![p] = "closed"]
  /\ f_pos' = [f_pos EXCEPT ![p] = 0]
  /\ UNCHANGED <<loaded, buffer, previous_count, kheap, wr, arg, ret>>

\* The byte tested for a newline, working_entry[count + previous_count - 1].
\* Past the end of the block it is still the byte just copied there.
LastByte(c) == IF c = <<>> THEN WorkingBlock(c)[previous_count] ELSE Last(c)

\* Allocation and copy succeeded; the block is at q.
aesd_write(p, c, q, v) ==
  /\ pc[p] = "idle"
  /\ lock = NULL
  /\ working_entry = NULL => c # <<>>
  /\ previous_count + Len(c) <= MaxEntry
  /\ kheap' = Alloc(Scribble(Free(kheap, working_entry), v), q, WorkingBlock(c))
  /\ working_entry' = q
  /\ \/ /\ LastByte(c) # NL
        /\ previous_count' = previous_count + Len(c)
        /\ Returns(p, Len(c), <<>>)
        /\ UNCHANGED <<lock, wr, pc>>
     \/ /\ LastByte(c) = NL
        /\ lock' = p
        /\ pc' = [pc EXCEPT ![p] = "write"]
        /\ wr' = [e |-> [buffptr |-> q, size |-> Len(c) + previous_count],
                  slot |-> buffer.in_offs,
                  branch |-> IF Overwriting(buffer) THEN "overwrite" ELSE "fill",
                  ret_buffptr |-> ReplacedBuffptr(buffer),
                  todo |-> {"buffptr", "size"} \cup
                           (IF Overwriting(buffer) THEN {"out_offs"} ELSE {}),
                  count |-> Len(c)]
        /\ UNCHANGED <<previous_count, ret>>
  /\ UNCHANGED <<loaded, buffer, arg, f_pos>>

\* One of add_entry's stores to a field that llseek or ioctl may be loading.
PublishStore(p, s) ==
  /\ pc[p] = "write"
  /\ s \in wr.todo
  /\ buffer' = CASE s = "buffptr"  -> StoreBuffptr(buffer, wr.slot, wr.e)
                 [] s = "size"     -> StoreSize(buffer, wr.slot, wr.e)
                 [] s = "out_offs" -> AdvanceOut(buffer)
  /\ wr' = [wr EXCEPT !.todo = @ \ {s}]
  /\ UNCHANGED <<loaded, working_entry, previous_count, kheap, lock, pc, arg,
                 f_pos, ret>>

\* A slip: previous_count is not reset when the command is complete.
FinishKeepsCount(p) ==
  /\ pc[p] = "write"
  /\ wr.todo = {}
  /\ buffer' = AdvanceIn(buffer, wr.branch = "overwrite")
  /\ kheap' = Free(kheap, wr.ret_buffptr)
  /\ working_entry' = NULL
  /\ lock' = NULL
  /\ wr' = NoWrite
  /\ pc' = [pc EXCEPT ![p] = "idle"]
  /\ Returns(p, wr.count, <<>>)
  /\ UNCHANGED <<loaded, previous_count, arg, f_pos>>

\* The rest of add_entry (in_offs and full), then the tail of aesd_write.
FinishWrite(p) ==
  /\ pc[p] = "write"
  /\ wr.todo = {}
  /\ buffer' = AdvanceIn(buffer, wr.branch = "overwrite")
  /\ kheap' = Free(kheap, wr.ret_buffptr)
  /\ working_entry' = NULL
  /\ previous_count' = 0
  /\ lock' = NULL
  /\ wr' = NoWrite
  /\ pc' = [pc EXCEPT ![p] = "idle"]
  /\ Returns(p, wr.count, <<>>)
  /\ UNCHANGED <<loaded, arg, f_pos>>

----------------------------------------------------------------------------
(* llseek, without the lock.                                               *)

Leave(p, value) ==
  /\ pc' = [pc EXCEPT ![p] = "idle"]
  /\ Returns(p, value, <<>>)
  /\ arg' = [arg EXCEPT ![p] = NoArg]

SetPos(p, newpos) ==
  IF newpos < 0
  THEN Leave(p, EINVAL) /\ UNCHANGED f_pos
  ELSE Leave(p, newpos) /\ f_pos' = [f_pos EXCEPT ![p] = newpos]

aesd_llseek(p, off, whence) ==
  /\ pc[p] = "idle"
  /\ \/ /\ whence = "SEEK_SET"
        /\ off <= MaxPos
        /\ SetPos(p, off)
     \/ /\ whence = "SEEK_CUR"
        /\ f_pos[p] + off <= MaxPos
        /\ SetPos(p, f_pos[p] + off)
     \/ /\ whence = "SEEK_END"
        /\ pc' = [pc EXCEPT ![p] = "ls_ptr"]
        /\ arg' = [arg EXCEPT ![p] = [NoArg EXCEPT !.off = off]]
        /\ UNCHANGED <<f_pos, ret>>
     \/ /\ whence = "other"
        /\ Leave(p, EINVAL)
        /\ UNCHANGED f_pos
  /\ UNCHANGED <<loaded, device>>

\* SEEK_END adds up the sizes of the entries that are not null.
SeekEndPtr(p) ==
  /\ pc[p] = "ls_ptr"
  /\ \/ /\ arg[p].index = MAXW
        /\ SetPos(p, arg[p].acc + arg[p].off)
     \/ /\ arg[p].index < MAXW
        /\ buffer.entry[arg[p].index].buffptr # NULL
        /\ pc' = [pc EXCEPT ![p] = "ls_size"]
        /\ UNCHANGED <<arg, f_pos, ret>>
     \/ /\ arg[p].index < MAXW
        /\ buffer.entry[arg[p].index].buffptr = NULL
        /\ arg' = [arg EXCEPT ![p].index = @ + 1]
        /\ UNCHANGED <<pc, f_pos, ret>>
  /\ UNCHANGED <<loaded, device>>

SeekEndSize(p) ==
  /\ pc[p] = "ls_size"
  /\ arg' = [arg EXCEPT ![p].acc = @ + buffer.entry[arg[p].index].size,
                        ![p].index = @ + 1]
  /\ pc' = [pc EXCEPT ![p] = "ls_ptr"]
  /\ UNCHANGED <<loaded, device, f_pos, ret>>

----------------------------------------------------------------------------
(* ioctl(AESDCHAR_IOCSEEKTO), without the lock.                            *)

aesd_ioctl(p, cmd, off) ==
  /\ pc[p] = "idle"
  /\ \/ /\ cmd < MAXW
        /\ pc' = [pc EXCEPT ![p] = "io_offs"]
        /\ arg' = [arg EXCEPT ![p] = [NoArg EXCEPT !.cmd = cmd, !.off = off]]
        /\ UNCHANGED ret
     \/ cmd >= MAXW /\ Leave(p, EINVAL)
     \/ "copy_from_user" \in Faults /\ Leave(p, EFAULT)
     \/ Leave(p, ENOTTY)                        \* any other command number
  /\ UNCHANGED <<loaded, device, f_pos>>

\* Iteration i loads out_offs, then the buffptr and the size it selects.  The
\* iteration i = write_cmd makes the same loads for the entry itself.
SeekToOffs(p) ==
  /\ pc[p] = "io_offs"
  /\ arg' = [arg EXCEPT ![p].index = SlotAt(buffer, arg[p].i)]
  /\ pc' = [pc EXCEPT ![p] = "io_ptr"]
  /\ UNCHANGED <<loaded, device, f_pos, ret>>

SeekToPtr(p) ==
  /\ pc[p] = "io_ptr"
  /\ \/ /\ buffer.entry[arg[p].index].buffptr = NULL
        /\ Leave(p, EINVAL)
     \/ /\ buffer.entry[arg[p].index].buffptr # NULL
        /\ pc' = [pc EXCEPT ![p] = "io_size"]
        /\ UNCHANGED <<arg, ret>>
  /\ UNCHANGED <<loaded, device, f_pos>>

SeekToSize(p) ==
  LET size == buffer.entry[arg[p].index].size
  IN  /\ pc[p] = "io_size"
      /\ \/ /\ arg[p].i < arg[p].cmd
            /\ arg' = [arg EXCEPT ![p].acc = @ + size, ![p].i = @ + 1]
            /\ pc' = [pc EXCEPT ![p] = "io_offs"]
            /\ UNCHANGED <<f_pos, ret>>
         \/ /\ arg[p].i = arg[p].cmd
            /\ arg[p].off > size
            /\ Leave(p, EINVAL)
            /\ UNCHANGED f_pos
         \/ /\ arg[p].i = arg[p].cmd
            /\ arg[p].off <= size
            /\ Leave(p, 0)
            /\ f_pos' = [f_pos EXCEPT ![p] = arg[p].acc + arg[p].off]
      /\ UNCHANGED <<loaded, device>>

----------------------------------------------------------------------------
Step(p) ==
  \/ aesd_open(p) \/ aesd_release(p)
  \/ LockInterrupted(p)
  \/ \E count \in Count : aesd_read(p, count)
  \/ WriteFails(p) \/ WriteOops(p)
  \/ \E c \in Chunk, q \in Address, v \in Victims : aesd_write(p, c, q, v)
  \/ \E s \in {"buffptr", "size", "out_offs"} : PublishStore(p, s)
  \/ FinishWrite(p)
  \/ \E off \in SeekOffset, whence \in {"SEEK_SET", "SEEK_CUR", "SEEK_END", "other"} :
       aesd_llseek(p, off, whence)
  \/ SeekEndPtr(p) \/ SeekEndSize(p)
  \/ \E cmd \in WriteCmd, off \in CmdOffset : aesd_ioctl(p, cmd, off)
  \/ SeekToOffs(p) \/ SeekToPtr(p) \/ SeekToSize(p)

Next == aesd_init_module \/ aesd_cleanup_module \/ \E p \in Proc : Step(p)

Spec == Init /\ [][Next]_vars

----------------------------------------------------------------------------
(* Every variable has the type of the C object it stands for.              *)
PC == {"closed", "idle", "write", "ls_ptr", "ls_size", "io_offs", "io_ptr",
       "io_size"}

Pointer == Ptr \cup {NULL}

WriteLocals ==
  [e : Entry, slot : Slot, branch : {"none", "fill", "overwrite"},
   ret_buffptr : Pointer, todo : SUBSET {"buffptr", "size", "out_offs"},
   count : Nat]

DeviceTypeOK ==
  /\ loaded \in BOOLEAN
  /\ buffer \in Buffer
  /\ working_entry \in Pointer \cup {ZERO_SIZE_PTR}
  /\ previous_count \in Nat
  /\ DOMAIN kheap \subseteq Ptr
  /\ lock \in Proc \cup {NULL, DeadTask}
  /\ wr \in WriteLocals
  /\ pc \in [Proc -> PC]

TypeOK ==
  /\ DeviceTypeOK
  /\ \A q \in DOMAIN kheap : kheap[q] \in Seq(Byte \cup {Junk})
  /\ arg \in [Proc -> [cmd : Nat, off : Int, i : Nat, index : Nat, acc : Nat]]
  /\ f_pos \in [Proc -> Nat]
  /\ ret \in [p : Proc \cup {NULL}, value : Int, data : Seq(Byte \cup {Junk})]

(* The live kernel allocations are exactly the blocks the device still     *)
(* points to, each from one place: nothing leaks when an entry is          *)
(* displaced, when a write fails half way or when the module is unloaded,  *)
(* nothing is freed twice and nothing that is still in use is freed        *)
(* (kmalloc and krealloc in aesd_write, the three kfree calls, and the     *)
(* hand-over of the pointer through add_entry's return value).             *)
SlotPtr(i) == buffer.entry[i].buffptr

Referenced ==
  ({SlotPtr(i) : i \in Slot} \cup {working_entry, wr.ret_buffptr})
    \ {NULL, ZERO_SIZE_PTR}

Quiescent == loaded /\ lock \notin Proc

HeapExact ==
  /\ DOMAIN kheap = IF loaded THEN Referenced ELSE {}
  /\ Quiescent =>
       \A i \in Slot : SlotPtr(i) # NULL =>
          /\ SlotPtr(i) # working_entry
          /\ \A j \in Slot : SlotPtr(i) = SlotPtr(j) => i = j

(* Whenever no write is being published the ring has its shape, although   *)
(* the stores of add_entry become visible one by one and a caller may have *)
(* been killed inside aesd_write: every reader that takes the lock sees a  *)
(* consistent buffer.                                                      *)
RingWhenUnlocked == Quiescent => RingShape(buffer)

(* What makes the two properties above inductive.  The mutex belongs to    *)
(* the process inside add_entry; the module is not unloaded under an open  *)
(* file; only a killed writer leaves ZERO_SIZE_PTR behind, and it takes    *)
(* the mutex with it.                                                      *)
LockDiscipline ==
  /\ \A p \in Proc : pc[p] = "write" <=> lock = p
  /\ ~loaded => \A p \in Proc : pc[p] = "closed"
  /\ lock \notin Proc => wr = NoWrite
  /\ working_entry = ZERO_SIZE_PTR => lock = DeadTask

(* While add_entry is under way the buffer differs from a ring only in the *)
(* fields whose stores are still in todo, and the slot, the working entry  *)
(* and the displaced block account for every pointer.                      *)
PublishFill ==
  /\ buffer.full = 0 /\ buffer.out_offs = 0
  /\ wr.ret_buffptr = NULL
  /\ "out_offs" \notin wr.todo
  /\ \A i \in Slot \ {wr.slot} : SlotPtr(i) # NULL <=> i < buffer.in_offs
  /\ SlotPtr(wr.slot) = IF "buffptr" \in wr.todo THEN NULL ELSE working_entry

PublishOverwrite ==
  /\ buffer.full = 1
  /\ buffer.out_offs = IF "out_offs" \in wr.todo THEN wr.slot ELSE Next1(wr.slot)
  /\ wr.ret_buffptr \in Ptr \ {working_entry}
  /\ \A i \in Slot : SlotPtr(i) # NULL
  /\ \A i \in Slot \ {wr.slot} : SlotPtr(i) # wr.ret_buffptr
  /\ SlotPtr(wr.slot) =
       IF "buffptr" \in wr.todo THEN wr.ret_buffptr ELSE working_entry

Publishing ==
  lock \in Proc =>
    /\ loaded
    /\ wr.slot = buffer.in_offs
    /\ wr.e.buffptr = working_entry /\ working_entry \in Ptr
    /\ \A i \in Slot \ {wr.slot} : SlotPtr(i) # NULL =>
         /\ SlotPtr(i) # working_entry
         /\ \A j \in Slot \ {wr.slot} : SlotPtr(i) = SlotPtr(j) => i = j
    /\ \/ wr.branch = "fill" /\ PublishFill
       \/ wr.branch = "overwrite" /\ PublishOverwrite

(* The inductive invariant of the driver.                                  *)
DriverInv ==
  DeviceTypeOK /\ LockDiscipline /\ HeapExact /\ RingWhenUnlocked /\ Publishing

(* The buffptr of an entry holds as many bytes as its size says: "Number   *)
(* of bytes stored in buffptr" (aesd-circular-buffer.h).                   *)
EntrySizeIsBytesStored ==
  Quiescent =>
    \A i \in Slot : SlotPtr(i) # NULL =>
       buffer.entry[i].size = Len(kheap[SlotPtr(i)])

(* previous_count is the length of the working entry, the size that is     *)
(* being published is too, and every slot add_entry is not working on has  *)
(* the size of its block.  A write that fails in the middle of a command   *)
(* ends this, until the slots it falsified have been written again.        *)
PendingCounted ==
  /\ working_entry \notin Ptr => previous_count = 0
  /\ working_entry \in Ptr =>
       Len(kheap[working_entry]) = IF lock \in Proc THEN wr.e.size ELSE previous_count

Counted ==
  loaded =>
    /\ PendingCounted
    /\ lock \in Proc /\ "size" \notin wr.todo => buffer.entry[wr.slot].size = wr.e.size
    /\ \A i \in Slot : SlotPtr(i) # NULL /\ ~(lock \in Proc /\ i = wr.slot) =>
         buffer.entry[i].size = Len(kheap[SlotPtr(i)])

(* Only a write that fails in the middle of a command makes a size false:  *)
(* it forgets the working entry and not previous_count.  No interleaving,  *)
(* no displaced command and no other failure does (previous_count and its  *)
(* reset in aesd_write).                                                   *)
OnlyFailedWritesMiscount ==
  [][Counted /\ ~Counted' =>
       /\ working_entry \in Ptr /\ working_entry' = NULL
       /\ ret'.value \in {ENOMEM, EFAULT}]_vars

(* The driver implements the device its users expect: as long as its sizes *)
(* are right every call is one step of AesdDevice or none, the call that   *)
(* fails and falsifies them included.  A command becomes visible when      *)
(* in_offs moves; until then the block it displaces still counts.          *)
Contents(i) ==
  kheap[IF i = buffer.in_offs /\ wr.branch = "overwrite"
        THEN wr.ret_buffptr ELSE SlotPtr(i)]

DeviceLog ==
  IF ~loaded THEN <<>>
  ELSE IF buffer.full = 1
    THEN [k \in 1 .. MAXW |-> Contents((buffer.in_offs + k - 1) % MAXW)]
    ELSE [k \in 1 .. buffer.in_offs |-> Contents(k - 1)]

DevicePartial ==
  IF ~loaded \/ working_entry \in {NULL, ZERO_SIZE_PTR} THEN <<>>
  ELSE SubSeq(kheap[working_entry], 1, previous_count)

Device == INSTANCE AesdDevice
            WITH Capacity <- MAXW, log <- DeviceLog, partial <- DevicePartial,
                 pos <- f_pos

DeviceSpec ==
  Device!Init /\ [][Counted => Device!Next]_<<DeviceLog, DevicePartial, f_pos, ret>>
=============================================================================
