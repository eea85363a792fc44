# Verification of the AESD character driver, socket server and examples

TLA+ models of the programs of this repository that keep state and meet
concurrency: the Linux character driver in `aesd-char-driver/`, the socket
server in `server/`, and the threading and systemcalls examples in `examples/`.
TLC checks them on small instances; TLAPS proves the most important properties
for every value of the constants.

## 1. The system

| Part | State | Operations | Meets |
|---|---|---|---|
| circular buffer (`aesd-circular-buffer.c`) | array of entries, `in_offs`, `out_offs`, `full` | `init`, `add_entry`, `find_entry_offset_for_fpos` | the driver, its only caller in the kernel, which must lock |
| character driver (`main.c`) | the buffer, `working_entry` (a command without its newline yet), the static `previous_count`, the mutex, kernel memory, `f_pos` of each open file | module init and exit, `open`, `release`, `read`, `write`, `llseek`, `ioctl(AESDCHAR_IOCSEEKTO)` | processes that call it concurrently |
| socket server (`aesdsocket.c`) | `ShutdownNow`, the SLIST of thread records, `file_mutex`, the sockets and descriptors | start-up, accept loop, a thread per connection, reaping, signal handler, shutdown | clients, signals, the driver through `/dev/aesdchar` |
| `recv_dynamic` (`aesdsocket.c`) | one growing block | collect one line from a non-blocking socket | the client, `ShutdownNow` |
| threading example | a mutex, one `thread_data` per thread | `start_thread_obtaining_mutex`, `threadfunc` | its caller, which joins |
| systemcalls example | child processes, descriptors, the stdio buffer, an output file | `do_system`, `do_exec`, `do_exec_redirect` | the kernel, the commands, other children of the process |
| finder application, scripts, CI | files | straight-line programs | - |

What flows between them: a client sends one line to the server; the thread that
serves it takes `file_mutex`, opens the device, writes the line (or, for a line
that starts with `AESDCHAR_IOCSEEKTO:`, calls the ioctl), reads the device to
its end, sends what it read and closes both. The driver collects writes in
`working_entry` until one ends with a newline, then moves the block into the
circular buffer, which hands back the block it displaced to be freed.

What is hard here:

* `llseek` and `ioctl` read the buffer **without** the driver's lock, while
  `add_entry` changes it field by field;
* a block changes hands three times between `kmalloc` and `kfree`, and every
  failure in `aesd_write` leaves by another way;
* `previous_count` is a static beside the structure it describes;
* a thread record is shared between its thread and main, which frees it;
* signals arrive between any two statements of the accept loop;
* clients leave at any time; the socket is non-blocking when the reply is sent;
* wrap-around of the ring and of the receive buffer at their exact limits;
* the error exits of a server thread leave descriptors open, and `accept` and
  `open` fail when none is left;
* `wait` takes any child of the process, also that of another thread's call or of
  a call that a signal ended early;
* a thread can be killed in the driver while it holds both locks;
* `fork` copies a stdio buffer that is not empty, and `dup2` then points it at
  the output file;
* the error paths of `threadfunc` must release a mutex that others wait for.

What makes each part correct: the buffer is the log of the last
`AESDCHAR_MAX_WRITE_OPERATIONS_SUPPORTED` entries and `find` indexes their
concatenation; the driver owns each block exactly once and looks to its users
like an atomic device; the server answers each client with one state of the
device, frees no record too early, handles every line and stops when told to;
`recv_dynamic` stays inside its block and leaves when the server stops; an
example's thread holds the mutex only while it should and tells its joiner the
truth; `do_system`, `do_exec` and `do_exec_redirect` report their own command,
whose output alone is in the output file, leave no child behind, and return.

## 2. Modules

| Module | Models |
|---|---|
| `CircularBufferOps` | the data type: the record, the stores of `add_entry`, `find` |
| `CircularBuffer` | the library used on its own, as its unit test does |
| `RecentLog` | abstract: the log of the last Capacity items |
| `AesdChar` | the driver, with `CircularBufferOps` |
| `AesdDevice` | abstract: what `/dev/aesdchar` promises, every call one step |
| `AesdCharSeek` | `AesdChar` and a history variable: what each seek in progress could have answered |
| `AesdSocket` | the server, using the device through the operations of `AesdDevice` |
| `RecvDynamic` | `recv_dynamic` |
| `SystemCalls` | `do_system`, `do_exec`, `do_exec_redirect`, called by the threads of one process |
| `Threading` | `start_thread_obtaining_mutex`, `threadfunc` and the joiner |
| `ConcatenationProofs` | lemmas on concatenation (`FlattenSeq`) and induction over the naturals, used by the next two and the server's proofs |
| `CircularBufferOpsProofs` | lemmas on the operators of `CircularBufferOps` |
| `CircularBufferProofs`, `AesdCharProofs`, `AesdSocketProofs`, `RecvDynamicProofs`, `SystemCallsProofs`, `ThreadingProofs` | the theorems about each program |
| `MC*` | the instances TLC checks |

`AesdChar` is shown to implement `AesdDevice`, and `AesdSocket` is built on
`AesdDevice`: that is how the two programs are composed without multiplying
their state spaces. The examples share nothing with the other programs.

An operator whose comment begins "A slip" is not part of a specification: it is
the definition after it with a plausible mistake, used to see that a property
notices.

### CircularBuffer

`buffer` is `struct aesd_circular_buffer`; `returned` is what the last
`add_entry` returned. Definitions keep the C names. `add_entry` is written as the
composition of its stores (`StoreBuffptr`, `StoreSize`, `AdvanceOut`,
`AdvanceIn`) so that the driver can take them one at a time.

### AesdChar

One action per operation, for each process of `Proc`. `read` and `write` hold the
mutex, so a call is one step, except that a write that completes a command
publishes it in several: `aesd_write` (allocation, copy, newline test),
`PublishStore` for each store to a field that an unlocked reader loads, in any
order since nothing orders them for such a reader, and `FinishWrite` (the last
stores, `kfree`, the resets and the unlock). The loops of `llseek(SEEK_END)` and
of the ioctl take one step per load. `kheap` maps each live address to its
contents, so that a leak, a double free or a read past a block shows.
`WriteFails` has the error exits with the cleanup label, `LockInterrupted` the
`-ERESTARTSYS` exit, `aesd_cleanup_module` the frees at unload. Each process owns
one open file; the kernel does not unload a module with open files.

Two kinds of undefined behaviour of the C code are steps of the model. A copy
beyond its block (possible because `previous_count` can be stale) loses the bytes
and may overwrite any other block (`Victims`, `Scribble`). A zero-length first
write makes the newline test read the byte before a zero-size allocation:
`WriteOops` kills the caller with the mutex locked.

### AesdSocket

main is at `mpc`, each thread at `tpc`. A connection, its thread and its record
bear the name of the client. A line is `<<c, NL>>`; with the fault `nul` the
packet has a NUL in it and `strlen` cuts it, and with a NUL in front the write has
no bytes. If no command is pending that write kills the thread in the driver
(`WriteKills`, fault `oops`, the other side of `AesdChar!WriteOops`) with
`file_mutex` locked. A `read` that returns -1 makes the thread give up or read
again, since `sendAll` then returns a value nobody set (`ReadFails`); a cut send
leaves its first bytes in `reply`. The socket option, the EINTR of `accept`,
SIGPIPE, EBUSY of `pthread_mutex_destroy` and EINVAL of locking a destroyed mutex
are in the steps where they happen. Every failing call of the code is a member of
`Faults`. `start` is a history variable: the position a reply starts from.

`Startup` has the four parts of main before its loop, `mpc` "start" (before
`sigaction`, where a signal kills the process), "bind", "daemon" (where a `fork`
that fails ends the process like the parent of one that succeeds) and "listen".
`fds` are the descriptors main and the threads have open and `maxfd` is how many
they may: `accept` reserves one before it waits, and fails at once, as `open`
does, when none is free. Only `CloseAll` gives them back.

main reads the link of a record it has just freed (`SLIST_FOREACH` around
`free`). In the glibc the server runs with, freeing overwrites the first words of
the block and the link is the last field, so the model lets the cursor move to
the successor the record had. `newSockfd` is uninitialised when the signal
arrives before the first `accept`; the model lets shutdown() then do nothing.

### RecvDynamic

Sizes and indices only: `p` is the size of the block, `pos` the number of bytes
collected, `copied` and `terminator` the highest indices written.

### SystemCalls

Each caller is a thread; `pc` says where it is in its call, `kid` is the process
table. `Begin` starts a call with a NULL or some other command, then come
`OpenFile`, `Fork` or `ForkFails`, `CloseFile`, and `Wait` (any ended child) or
`WaitSystem` (the C library's `system`, which waits for its own). A child goes
through `Dup2` and `Exec` to the command, which writes and ends as it likes.
The content of an output file is the set of who wrote to it. `tty` says whether
stdout is a terminal: if so, stdio writes each line at once, otherwise the lines
printed after `fflush` are still in the buffer that `fork` copies: the child has
it in its record (`buf`) until `execv` replaces the program or `_exit` discards it.
`end`, `alone`, `disturbed` and `lost` are history variables that only properties
use. A call is `alone` when no other child existed during it. The program is
`disturbed` once two calls overlapped or a signal interrupted a `wait`.

### Threading

Thread `t` stands for one call of `start_thread_obtaining_mutex`, the thread it
starts and its `thread_data`. One action per blocking call of `threadfunc`, each
with its error path; `failed` records which call failed.

## 3. What TLC checks

| Run | Instance | Shows |
|---|---|---|
| `ring` | 3 slots, sizes 0 to 2 | `TypeOK`, `Ring`; `FindMatchesConcatenation` against a reference that lays all characters end to end; `RecentSpec`: the buffer implements `RecentLog` |
| `driver` | 2 processes, 2 slots, 3 addresses, writes of 0 or 1 byte, `read`, SEEK_END and the ioctl, every fault, load and unload | `TypeOK`, `HeapExact`, `RingWhenUnlocked` and the inductive invariant `DriverInv`; `OnlyFailedWritesMiscount`: which failures, and nothing else, make a size false; `DeviceSpec`: the driver implements `AesdDevice`, so calls are atomic for their users |
| `server` | 3 clients, 4 descriptors, a device of 2 commands, packets cut or emptied by a NUL, a thread killed in the driver, failing calls of a thread, EAGAIN in the reply | `TypeOK`, `RecordsOutliveThreads`, `ReplyIsDeviceContents` |
| `server_live` | 2 clients, 1 or 3 descriptors, a signal, clients that stay idle or leave, a thread killed in the driver, failed start-up, `pthread_create`, `ioctl`, `write`, `malloc`, `read`, `send`, fairness | `RecordsOutliveThreads`, `LineIsHandled`, `ShutdownCompletes` |
| `recv` | chunks of 4, up to 20 bytes, fairness | `TypeOK`, `CopyStaysInBlock`, `TerminatorInBlock`, `LeavesOnShutdown` |
| `systemcalls` | 2 threads, 3 calls, 2 pids, 1 descriptor, every fault, fairness | `TypeOK`, `OrderlyCallsStayAlone`, `LoneCallReportsItsCommand`, `SystemReportsItsOwn`, `FileHoldsCommandOutput`, `DescriptorsAccounted`, `CallsReturn` |
| `threading` | 3 threads, every fault, fairness | `TypeOK`, `MutexFollowsThread`, `SuccessIsTrue`, `DataOutlivesThread`, `ThreadsReturn` |

`LineIsHandled` says that the thread of a client that has sent its line runs to
its end, unless the server is told to stop or ends, with two exceptions, both
needed: TLC shows a client that waits for ever when either is left out. A thread
killed in the driver keeps `file_mutex`. And from some time on every descriptor
may belong to a thread that left by an error exit, which does not close it, or to
a connection whose client never completes its line; main then spins in `accept`.

`OrderlyCallsStayAlone` is what lets the other properties of `systemcalls` speak
of calls that are `alone`: calls that follow one another are, and only an
interrupted `wait` or overlapping calls make a process in which they are not.
`FileHoldsCommandOutput` covers the calls that are not alone as well: output of
an earlier command, still running, reaches the file of a later call with the same
`outputfile`, but only in such a process.

Five runs end in a counterexample. Each checks what the repository itself says:

* `driver_seek_race`: "Any necessary locking must be handled by the caller"
  (`aesd-circular-buffer.c`), and `llseek` and `ioctl` do not lock. SEEK_END passes
  slot 0 while it is empty, two writes fill slots 0 and 1, and it counts slot 1
  only: it sets a position that no contents of the buffer ever had. With
  `SeekOffset` empty in the cfg TLC finds the same of the ioctl alone.
* `driver_entry_size`: the cleanup label of `aesd_write` forgets
  `previous_count = 0`. After a failed copy in the middle of a command the next
  command gets a size larger than its block; `size` is the "Number of bytes stored
  in buffptr".
* `server_signal`: a signal between the test of `ShutdownNow` and `accept` is
  lost; the server does not exit before another client connects.
* `systemcalls_wait`: `do_exec` calls `wait`, where its comment says `waitpid`. Of
  two threads the second may reap the first one's child and return true for its
  own command, which has not run.
* `systemcalls_status`: `do_system` returns true for a command that returned
  another status than zero; its comment (lines 11-14) says false. What it does tell
  the truth about is `SystemReportsItsOwn`.

More behaviours of the code that the models show and that are not runs of their
own; a property says exactly how far each one goes:

* the ioctl accepts an offset equal to the size of the command (`main.c` line 238;
  `AesdDevice!SeekTo`);
* a packet that starts with NUL while no command is pending kills its thread in the
  driver, with both locks held: no later client is served (`WriteKills`,
  `LineIsHandled`);
* a client that leaves before its reply ends the whole server through SIGPIPE
  (`AesdSocket!SendPipe`);
* `sendAll`, "Send all content of a buffer", takes EAGAIN on the non-blocking
  socket for an error and the client gets part of its reply (`AesdSocket!Send`);
  the connection is then left open, so an end of file always means a whole reply
  (`ReplyIsDeviceContents`);
* error exits of threads use up the descriptors for good, and clients that never
  complete a line for as long as they like (`LineIsHandled`); a failed `fork` of the
  daemon looks like success to the caller (`Startup`);
* a line that fills the first block of `recv_dynamic` exactly has its terminator
  written one byte past the block, and no other line has (`TerminatorInBlock`);
* `do_exec_redirect` leaves the file open when `fork` fails. Its comment (line 122)
  says the file is closed when the call is complete, so this is a disagreement of
  the code with its comment like the five above; `DescriptorsAccounted` names the
  exception and shows that there is no other;
* when stdout is a terminal, the message of a child that could not execute its
  command goes into the output file (`Exec`, `FileHoldsCommandOutput`);
* when `pthread_create` fails nobody gets the `thread_data`, and that is the only
  block nobody frees (`DataOutlivesThread`).

### Bounds

* Slots: 3 in `ring`, 2 in the driver. Two slots give an empty, a partly filled
  and a full ring, and overwrites at both ends; the theorems cover every size.
* Addresses: a full ring and the working entry use 3, and an address that was freed
  is given out again for another block. Addresses and processes are symmetric.
* `MaxEntry` = 2 and chunks of 0 or 1 byte in `driver`: commands of one write, of two
  writes, and empty writes. `MaxPos` bounds `llseek`; beyond the data all positions
  are alike. `Count` = 2, so that a read can take a whole command.
* `FewSeekers`, a constraint of `driver`: one process at a time is in a seek, which
  changes nothing another process can see, and once a size is false (`Counted` does
  not hold) no process is in a seek or has a file position: what then goes on is
  writing, failing and unloading, the part that can disturb heap and ring. The
  refinement claims nothing there. The theorems have no such bound.
* The server: three clients on a device that keeps two commands, so that the third
  command displaces the first while it may be being read. `ReadSize` 3 makes a
  reply of two commands take several reads. In `server_live` a device of one
  command, with two clients and no successful seek, is enough for threads to wait
  for each other; `ReadSize` 2 makes a reply of one command two reads.
* `FdLimits`: 4 lets two connections be served at a time while `accept` waits and
  a third one finds no descriptor; 1 is used up by one idle client, and 3 by two
  clients one of which was given up with its socket and its device open.
* `Signals` = 1: the handler only sets a flag, so a second signal matters only
  for `accept`, which it would interrupt.
* `recv`: 20 bytes are five chunks; the room left after the first is the same ever after.
* `systemcalls`: three calls by two threads let one thread make a call after one
  that left a child behind while the other is in a call of its own. Two pids and
  one descriptor make `fork` and `open` meet their limits. `systemcalls_status`
  needs one call.
* `threading`: three threads, so that two wait for a third; the theorems cover any number.

Deadlock checking is off in the runs of the server, of `recv_dynamic` and of the
examples, which end when main or the function returns, when the clients are done,
or when all calls have returned.

### Fairness

`AesdSocket!FairSpec`: main and each thread are scheduled (weak fairness); a
thread waiting for `file_mutex` that others take again and again could starve, but
each connection locks it once. Clients owe nothing, and a signal may never come.
A thread that reads again after a failed `read` would spin for ever if every read
failed; `SF_vars(ReadData(c))` says one succeeds some time. The driver fails a
read for a signal that comes while the driver's lock is held by another task, and
for a bad buffer; the server's buffer is good and it gets a finite number of
signals.
`RecvDynamic!FairSpec`: the thread is scheduled and a non-blocking `recv` returns.
`SystemCalls!FairSpec`: threads and children are scheduled and commands end, but no
signal is owed to a `wait` (`Interrupted`). Calls are finitely many: a thread whose
children others reap again and again could wait for ever. `Threading!FairSpec`:
threads are scheduled and sleeps end, but no call is owed a failure, which would
let a blocked `pthread_mutex_lock` return; each thread locks the mutex once, so weak
fairness is enough there too. Whoever starts and joins the threads owes nothing.

## 4. What is proved

All proofs are checked by TLAPS, for every value of the constants that satisfies
the ASSUMEs of the modules (at least one slot; the null pointer is neither an
address nor an index of the array; chunks are sequences of bytes; ...). Every
invariant of a passing run is a theorem, and so are the two refinements and the
action property of the driver.
`PROJECT.json` lists the theorems with the property each one states.

* `CircularBufferProofs`: `TypeAlways`, `RingAlways`, `ImplementsRecentLog` and
  `FindAlwaysMatches`. The inductive invariant is `TypeOK /\ Ring`: neither is
  inductive alone, as `add_entry` looks for a null pointer where one would expect
  it to look at `full`, and only `Ring` ties the two together. Refinement follows
  from two lemmas on what an add does to `LogOf`, before and after the ring is
  full. For `find` the loop of the code is compared with the concatenation slot by
  slot: `FindStops` says in which slot it stops, by the sizes of the slots before
  it, and `ConcatenationProofs` says which byte of the concatenation that is.
* `CircularBufferOpsProofs`: lemmas on the operators, used by the library's proofs
  and the driver's.
* `AesdCharProofs`, for any number of processes, slots and addresses:
  * `DriverInvAlways`, `HeapAlwaysExact` and `RingAlwaysWhole`, for any set of
    faults. `HeapExact` is not inductive: in the middle of `add_entry` a block is
    pointed to from two places or from a local variable only. `DriverInv` adds who
    may hold the mutex (`LockDiscipline`) and what the buffer looks like for each
    set of stores that are still to come (`Publishing`).
  * `TypeAlways`, for any set of faults. `HeapTypes` says that live blocks hold
    bytes, `CallTypes` that the calls that loop without the mutex stay inside the
    array and that their sums do not become negative.
  * `OnlyFailedWritesAlwaysMiscount`, for any set of faults: a step falsifies
    `Counted` only when a write fails in the middle of a command. `Counted` says
    that `previous_count`, or during a call the size that is about to be stored, is
    the length of the working entry, and excepts the one slot whose stores are not
    complete. `SizesAlwaysRight` follows when neither `krealloc` nor
    `copy_from_user` fails (`NoLostCount`).
  * `ImplementsDevice`, for any set of faults: while `Counted` holds every step of
    the driver is a step of `AesdDevice` or is not seen. The log of the device is
    read from the ring, its pending bytes from the working entry; a write that
    completes a command takes effect in `FinishWrite`, when the mutex is given back,
    and a write that fails in the middle of one loses it (`LoseCommand`). The proof
    adds `PendingText`: a pending command is not empty and has no newline at its
    end, and the block that is being published is the old pending bytes and the
    chunk being written. `read` needs `FindInLog`: what `find` gives it is the
    byte of the concatenated log at `f_pos`.
* `AesdSocketProofs`, for any number of clients and descriptors, any capacity and
  any set of faults: `TypeAlways`, `RecordsAlwaysOutliveThreads`,
  `FileMutexAlwaysExcludes` and `ReplyAlwaysDeviceContents`, a thread killed in the
  driver included. `Records` says that a
  connection is in the queue, in the list or freed, never in two of them, and that
  main's cursor is in the list, so that removing the record under it (`RemoveAt`
  at its `Place`) removes that one only. `Replies` says what a thread has read so
  far is a piece of the concatenated log up to its file position; that this
  survives the steps of other threads is mutual exclusion (`Excluded`), since only
  a thread with `file_mutex` changes the log.
* `RecvDynamicProofs`: `RecvTypeAlways`, `CopyAlwaysInBlock` and
  `TerminatorAlwaysInBlock`, for every chunk size. The invariant behind them,
  `RInv`, says how `pos` and `p` are related on each branch: before the first
  growth the block is one chunk, afterwards it always has room for one more.
* `SystemCallsProofs`, for any number of threads, pids, descriptors and calls and
  any set of faults: `TypeAlways`, `OrderlyCallsAlwaysAlone`,
  `LoneCallAlwaysReports`, `SystemAlwaysReportsItsOwn`, `FileAlwaysHoldsOutput` and
  `DescriptorsAlwaysAccounted`. A call that is alone stays alone only while
  its child is the only one there can be (`AloneInCall`), and once it has returned
  true it has left none behind that could still write or end (`AloneDone`).
  `Orderly` adds that undisturbed calls are one at a time with no child between
  them, so that a `wait` finds the caller's own child. `SystemCall` says that the
  child `system` finds by pid and parent has the status of the caller's command,
  also when a child of another thread had the same pid before.
  Descriptors are accounted for because two calls never hold the same one and a
  lost one is not handed out again (`Descriptors`).
* `ThreadingProofs`: `ThreadTypeAlways`, `MutexAlwaysFollows`, `SuccessAlwaysTrue`
  and `DataAlwaysOutlives`, for any number of threads and any set of faults. They
  are inductive together with `NoFailureYet`: a thread that has not returned has
  had no failed call. Without it a thread about to lock could be thought to hold
  the mutex already, after a failed unlock.

`NoLostCount` is not an assumption about the system: the code loses the count
after those two failures, and the run `driver_entry_size` shows the size that
becomes wrong. From then on reads and writes need not be those of any device;
what still holds is all of `DriverInv`, `HeapTypes` and `CallTypes`.

The induction theorems of the prover's library take an operator and cannot be
instantiated. `ConcatenationProofs` derives induction from the well-founded order
on the naturals for a property given as a set (`SetInduction`), which is enough
for concatenations and sums of sizes, as these are recursive functions.

Only model-checked: the liveness properties (`LineIsHandled`, `ShutdownCompletes`,
`LeavesOnShutdown`, `CallsReturn`, `ThreadsReturn`), which need fairness and
ENABLED and are out of the prover's reach, and the five counterexamples.

## 5. Not modelled

* the server built on a temporary file (timer thread, `read_line`): line 21 of
  `aesdsocket.c` always selects the device, and without it the braces of
  `threadfunc` (lines 524 to 581) do not match, so there is no such program;
* in the server's model, a `write` that fails in the middle of a command: what the
  driver then stores is not a command any more (`driver_entry_size`), so there is no
  device contents for a reply to be; the driver's own model has the failure;
* allocations that fail without being tested (`recv_dynamic`, the record of a
  connection, `thread_data`), and the buffers of a server thread;
* descriptors that a child of the systemcalls example inherits from another
  thread's call, and the order in which output reaches a file;
* finder application (`writer` writes one file and ignores what `fclose` returns),
  service and module scripts, build and test scripts, the course's examples:
  straight-line programs that keep no state, see `PROJECT.json`.

## 6. Plan

Done, in this order: the circular buffer; the driver; its heap and ring
theorems; the server on the abstract device; `recv_dynamic` and its theorems; the
server's start-up and descriptors; `SystemCalls`; `Threading` and its theorems;
the proofs about the server, `SystemCalls`, `find` and the refinement of `AesdDevice`.
Next, all of it proofs:

1. `SeekSeesOneBuffer` of `AesdCharSeek` when no writer completes a command during
   the seek: the sum over the slots in steps is the length of the log. That says
   exactly what the missing lock costs.
2. What reads return once a size is false: a part of the stored blocks and nothing
   but.
3. What ties the server to its device: each step of `AesdSocket` is a step of
   `AesdDevice` on the shared state.
