----------------------------- MODULE AesdSocket -----------------------------
(***************************************************************************)
(* The socket server, server/aesdsocket.c, in the build the repository     *)
(* makes (USE_AESD_CHAR_DEVICE defined): the accept loop of main, one      *)
(* thread per connection, the list of thread records, file_mutex, signals  *)
(* and shutdown.  The threads use /dev/aesdchar through the operations of  *)
(* AesdDevice, the specification AesdChar implements.                      *)
(*                                                                         *)
(* A connection is named by its client, which connects once; the client's  *)
(* packet is one line, written <<c, NL>>.  Steps of recv_dynamic that only *)
(* wait or append (EAGAIN, part of a line, end of file without a newline)  *)
(* leave the thread where it is and are not steps here; RecvDynamic has    *)
(* them.  The kernel, the clients and pthreads are external.               *)
(***************************************************************************)
EXTENDS Integers, Sequences, SequencesExt, FiniteSets

CONSTANTS
  Client,       \* clients, and the thread and slist_data_t of each
  NULL,         \* null pointer, free mutex
  Destroyed,    \* state of file_mutex after pthread_mutex_destroy
  NL,           \* the newline byte
  Capacity,     \* commands the device keeps
  ReadSize,     \* AESD_CHAR_DEVICE_READ_SIZE
  SeekCmd, SeekOff,  \* numbers a seek packet may contain
  BACK_LOG,     \* connections the kernel queues for accept
  FdLimits,     \* RLIMIT_NOFILE, less the descriptors open from the start
  Signals,      \* bound: SIGINT and SIGTERM the process receives
  Faults        \* what may go wrong

ASSUME ClientAssumption == {NULL, Destroyed, NL} \cap Client = {} /\ NULL # Destroyed
ASSUME BoundAssumption ==
  {Capacity, ReadSize, BACK_LOG} \cup FdLimits \subseteq Nat \ {0} /\ Signals \in Nat
ASSUME SeekAssumption == SeekCmd \subseteq Nat /\ SeekOff \subseteq Nat
ASSUME FaultAssumption ==
  Faults \subseteq {"startup", "leave", "nul", "oops", "badseek", "pthread_create", "recv",
                    "open", "write", "malloc", "read", "eagain"}

VARIABLES
  maxfd,        \* the limit in force
  ShutdownNow,  \* the flag signal_handler sets
  signals,      \* signals still to come
  mpc,          \* where main is
  backlog,      \* connections waiting to be accepted
  head,         \* the SLIST of thread records, first element first
  datap,        \* main's cursor in it
  newSockfd,    \* the connection accepted last
  freed,        \* records main has freed
  file_mutex,   \* owner, NULL or Destroyed
  tpc,          \* where each connection's thread is
  complete,     \* thread_complete_success
  sock,         \* server side of each socket: "none", "open", "shut", "closed"
  peer,         \* the client: "away", "sending", "line" (newline sent), "gone"
                \* (left without a line), "left" (left after sending it)
  fds,          \* open descriptors, <<"socket", c>> and <<"device", c>>
  did,          \* what each thread asked of the device
  start,        \* history: where in the device its reply starts
  reply,        \* bytes the thread has sent
  log, partial, pos, ret         \* the device

Device == INSTANCE AesdDevice WITH Proc <- Client, Chunk <- {}, Count <- {}

main   == <<mpc, backlog, head, datap, newSockfd, freed>>
conn   == <<complete, sock, did, start, reply>>
device == <<log, partial, pos, ret>>
world  == <<maxfd, ShutdownNow, signals, main, peer>> \* threads leave it alone
server == <<file_mutex, tpc, conn, fds, device>>      \* main and clients mostly do
vars   == <<world, server>>

Init ==
  /\ maxfd \in FdLimits
  /\ ShutdownNow = FALSE /\ signals = Signals
  /\ mpc = "start" /\ backlog = <<>> /\ head = <<>> /\ datap = NULL
  /\ newSockfd = NULL /\ freed = {}
  /\ file_mutex = NULL /\ fds = {}
  /\ tpc = [c \in Client |-> "none"]
  /\ complete = [c \in Client |-> FALSE]
  /\ sock = [c \in Client |-> "none"]
  /\ peer = [c \in Client |-> "away"]
  /\ did = [c \in Client |-> "none"]
  /\ start = [c \in Client |-> 0]
  /\ reply = [c \in Client |-> <<>>]
  /\ log = <<>> /\ partial = <<>>
  /\ pos = [c \in Client |-> 0]
  /\ ret = [p |-> NULL, value |-> 0, data |-> <<>>]

\* main returned, or SIGPIPE ended the process.
Running == mpc \notin {"done", "killed"}

\* Between listen() and shutdown() of the listening socket.
Listening == Running /\ mpc \notin {"start", "bind", "daemon", "listen", "destroy"}

\* A waiting accept has reserved a descriptor.
FdsInUse == Cardinality(fds) + IF mpc = "accepting" THEN 1 ELSE 0

----------------------------------------------------------------------------
(* Clients and signals (external).                                         *)

Connect(c) ==
  /\ Listening
  /\ peer[c] = "away"
  /\ Len(backlog) < BACK_LOG
  /\ peer' = [peer EXCEPT ![c] = "sending"]
  /\ sock' = [sock EXCEPT ![c] = "open"]
  /\ backlog' = Append(backlog, c)
  /\ UNCHANGED <<maxfd, ShutdownNow, signals, mpc, head, datap, newSockfd, freed,
                 file_mutex, tpc, complete, did, start, reply, fds, device>>

SendLine(c) ==
  /\ Running
  /\ peer[c] = "sending"
  /\ peer' = [peer EXCEPT ![c] = "line"]
  /\ UNCHANGED <<maxfd, ShutdownNow, signals, main, server>>

\* A client that leaves early never completes its line: recv returns 0 for
\* ever and the thread spins until shutdown.
Leave(c) ==
  /\ "leave" \in Faults
  /\ Running
  /\ peer[c] \in {"sending", "line"}
  /\ peer' = [peer EXCEPT ![c] = IF @ = "line" THEN "left" ELSE "gone"]
  /\ UNCHANGED <<maxfd, ShutdownNow, signals, main, server>>

\* Linux delivers a process-directed signal to the main thread when it does
\* not block it.  Only an accept that is already waiting is interrupted.
\* Before sigaction a signal has its default effect.
signal_handler ==
  /\ Running
  /\ signals > 0
  /\ signals' = signals - 1
  /\ ShutdownNow' = (mpc # "start")
  /\ mpc' = CASE mpc = "start" -> "killed"
              [] mpc = "accepting" -> "test"                          \* EINTR
              [] OTHER -> mpc
  /\ newSockfd' = IF mpc = "accepting" THEN NULL ELSE newSockfd
  /\ UNCHANGED <<maxfd, backlog, head, datap, freed, peer, server>>

----------------------------------------------------------------------------
(* main.                                                                   *)

MainGoes(from, to) == mpc = from /\ mpc' = to

\* sigaction; getaddrinfo, socket, setsockopt and bind; the daemon's fork,
\* where -1 is taken for the parent's return; listen.  Any failure ends main.
Startup ==
  /\ \/ MainGoes("start", "bind") \/ MainGoes("bind", "daemon")
     \/ MainGoes("daemon", "listen") \/ MainGoes("listen", "test")
     \/ /\ "startup" \in Faults
        /\ mpc \in {"start", "bind", "daemon", "listen"} /\ mpc' = "done"
  /\ UNCHANGED <<maxfd, ShutdownNow, signals, backlog, head, datap, newSockfd, freed,
                 peer, server>>

\* A slip: the loop is endless.
NextIfEndless == "accept"

NextIteration == IF ShutdownNow THEN "shutdown" ELSE "accept"

Test ==
  /\ MainGoes("test", NextIteration)
  /\ UNCHANGED <<maxfd, ShutdownNow, signals, backlog, head, datap, newSockfd, freed,
                 peer, server>>

\* Without a free descriptor accept fails at once and the loop goes on.
EnterAccept ==
  /\ \/ FdsInUse < maxfd /\ MainGoes("accept", "accepting") /\ UNCHANGED newSockfd
     \/ FdsInUse >= maxfd /\ MainGoes("accept", "test") /\ newSockfd' = NULL
  /\ UNCHANGED <<maxfd, ShutdownNow, signals, backlog, head, datap, freed, peer, server>>

\* accept returns a connection; its record goes to the head of the list.
Accept ==
  /\ MainGoes("accepting", "create")
  /\ backlog # <<>>
  /\ backlog' = Tail(backlog)
  /\ newSockfd' = Head(backlog)
  /\ fds' = fds \cup {<<"socket", Head(backlog)>>}
  /\ head' = <<Head(backlog)>> \o head
  /\ UNCHANGED <<maxfd, ShutdownNow, signals, datap, freed, peer, file_mutex, tpc, conn,
                 device>>

CreateThread ==
  /\ \/ /\ MainGoes("create", "scan")
        /\ tpc' = [tpc EXCEPT ![newSockfd] = "recv"]
        /\ datap' = Head(head)                            \* SLIST_FOREACH
        /\ UNCHANGED ShutdownNow
     \/ /\ MainGoes("create", "test")
        /\ "pthread_create" \in Faults
        /\ ShutdownNow' = TRUE
        /\ UNCHANGED <<tpc, datap>>
  /\ UNCHANGED <<maxfd, signals, backlog, head, newSockfd, freed, peer, file_mutex, conn,
                 fds, device>>

\* Where the record d is in the list.
Place(d) == CHOOSE i \in DOMAIN head : head[i] = d

Successor(d) == IF Place(d) = Len(head) THEN NULL ELSE head[Place(d) + 1]

\* The loop that reaps finished threads.
Scan ==
  /\ \/ datap = NULL /\ MainGoes("scan", "test") /\ UNCHANGED datap
     \/ datap # NULL /\ complete[datap] /\ MainGoes("scan", "join") /\ UNCHANGED datap
     \/ /\ datap # NULL /\ ~complete[datap] /\ MainGoes("scan", "scan")
        /\ datap' = Successor(datap)
  /\ UNCHANGED <<maxfd, ShutdownNow, signals, backlog, head, newSockfd, freed, peer, server>>

\* Slips: no pthread_join before free; no SLIST_REMOVE.
NotJoined(d) == TRUE
StillLinked(d) == head

\* pthread_join returns when the thread has exited; SLIST_REMOVE.
Joined(d) == tpc[d] = "exited"
Unlinked(d) == RemoveAt(head, Place(d))

\* SLIST_FOREACH then reads the link of the freed record, which still holds
\* its successor: free overwrites only the start of the block, and no other
\* thread allocates from main's cache.
Join ==
  /\ MainGoes("join", "scan")
  /\ Joined(datap)
  /\ head' = Unlinked(datap)
  /\ freed' = freed \cup {datap}
  /\ datap' = Successor(datap)
  /\ UNCHANGED <<maxfd, ShutdownNow, signals, backlog, newSockfd, peer, server>>

\* shutdown() of the listening socket and of the connection accepted last,
\* which its thread may have closed by now.
Shutdown ==
  /\ MainGoes("shutdown", "destroy")
  /\ sock' = IF newSockfd # NULL /\ sock[newSockfd] = "open"
             THEN [sock EXCEPT ![newSockfd] = "shut"] ELSE sock
  /\ UNCHANGED <<maxfd, ShutdownNow, signals, backlog, head, datap, newSockfd, freed, peer,
                 file_mutex, tpc, complete, did, start, reply, fds, device>>

\* Destroying a mutex that is locked fails with EBUSY.  main then returns and
\* every thread ends with the process.
Exit ==
  /\ \/ file_mutex = NULL /\ MainGoes("destroy", "destroy") /\ file_mutex' = Destroyed
     \/ file_mutex # NULL /\ MainGoes("destroy", "done") /\ UNCHANGED file_mutex
  /\ UNCHANGED <<maxfd, ShutdownNow, signals, backlog, head, datap, newSockfd, freed, peer,
                 tpc, conn, fds, device>>

----------------------------------------------------------------------------
(* threadfunc.  Every exit path ends with thread_complete_success = true   *)
(* and pthread_exit; the paths taken after an error leave the socket and   *)
(* the device open.                                                        *)

At(c, where) == Running /\ tpc[c] = where

Goto(c, where) == tpc' = [tpc EXCEPT ![c] = where]

\* recv_dynamic returns a line, or NULL after a receive error or when it sees
\* ShutdownNow.  A line that arrived before shutdown() can still be received.
Recv(c) ==
  /\ At(c, "recv")
  /\ \/ peer[c] \in {"line", "left"} /\ Goto(c, "lock")
     \/ "recv" \in Faults /\ Goto(c, "flag")
     \/ ShutdownNow /\ Goto(c, "flag")
  /\ UNCHANGED <<world, file_mutex, conn, fds, device>>

\* A slip: the thread goes on without waiting.
NobodyAsked == TRUE

Free == file_mutex = NULL

Lock(c) ==
  /\ At(c, "lock")
  /\ \/ Free /\ file_mutex' = c /\ Goto(c, "open")
     \/ file_mutex = Destroyed /\ Goto(c, "flag") /\ UNCHANGED file_mutex  \* EINVAL
  /\ UNCHANGED <<world, conn, fds, device>>

OpenDevice(c) ==
  /\ At(c, "open")
  /\ \/ /\ FdsInUse < maxfd
        /\ Device!Open(c)
        /\ fds' = fds \cup {<<"device", c>>}
        /\ Goto(c, "command")
     \/ /\ "open" \in Faults \/ FdsInUse >= maxfd
        /\ Goto(c, "unlock")
        /\ UNCHANGED <<fds, device>>
  /\ UNCHANGED <<world, file_mutex, conn>>

\* A packet that starts with AESDCHAR_IOCSEEKTO: is a seek, any other is
\* written.  The write passes strlen(recvBuffer) bytes: a packet with a NUL in
\* it loses its newline, one that starts with NUL all of it.  A write that
\* fails in the middle of a command is left out: the driver's next command is
\* then corrupt (AesdChar).
WritePacket(c) ==
  /\ At(c, "command")
  /\ \/ /\ Device!Write(c, <<c, NL>>)
        /\ did' = [did EXCEPT ![c] = "write"]
        /\ Goto(c, "alloc")
     \/ /\ "nul" \in Faults
        /\ Device!Write(c, <<c>>) \/ Device!WriteNothing(c)
        /\ did' = [did EXCEPT ![c] = "part"]
        /\ Goto(c, "alloc")
     \/ /\ "write" \in Faults
        /\ partial = <<>>
        /\ Goto(c, "unlock")
        /\ UNCHANGED <<device, did>>
  /\ UNCHANGED <<world, file_mutex, complete, sock, start, reply, fds>>

\* Writing no bytes while no command is pending: the kernel kills the thread
\* in aesd_write (AesdChar!WriteOops), and file_mutex stays locked.
WriteKills(c) ==
  /\ "oops" \in Faults
  /\ At(c, "command")
  /\ partial = <<>>
  /\ Goto(c, "killed")
  /\ UNCHANGED <<world, file_mutex, conn, fds, device>>

SeekPacket(c) ==
  /\ At(c, "command")
  /\ did' = [did EXCEPT ![c] = "seek"]
  /\ \/ \E cmd \in SeekCmd, off \in SeekOff :
          /\ Device!SeekTo(c, cmd, off)
          /\ Goto(c, IF ret'.value < 0 THEN "unlock" ELSE "alloc")
     \/ "badseek" \in Faults /\ Goto(c, "unlock") /\ UNCHANGED device
  /\ start' = [start EXCEPT ![c] = pos'[c]]
  /\ UNCHANGED <<world, file_mutex, complete, sock, reply, fds>>

AllocLine(c) ==
  /\ At(c, "alloc")
  /\ \/ Goto(c, "read")
     \/ "malloc" \in Faults /\ Goto(c, "unlock")
  /\ UNCHANGED <<world, file_mutex, conn, fds, device>>

ReadData(c) ==
  /\ Running
  /\ tpc[c] \in {"read", "reread"}
  /\ Device!Read(c, ReadSize)
  /\ Goto(c, IF ret'.value = 0 THEN "close" ELSE "send")
  /\ UNCHANGED <<world, file_mutex, conn, fds>>

\* read returning -1 makes sendAll return a value nobody set: the thread
\* gives up or reads again, possibly for ever.
ReadFails(c) ==
  /\ "read" \in Faults
  /\ Running
  /\ tpc[c] \in {"read", "reread"}
  /\ Goto(c, "unlock") \/ Goto(c, IF tpc[c] = "read" THEN "reread" ELSE "read")
  /\ UNCHANGED <<world, file_mutex, conn, fds, device>>

\* sendAll, on a socket that recv_dynamic has made non-blocking: a full
\* socket buffer is an error like any other, also after some of the bytes.
Send(c) ==
  /\ At(c, "send")
  /\ \/ /\ sock[c] = "open"
        /\ reply' = [reply EXCEPT ![c] = @ \o ret.data]
        /\ Goto(c, "read")
     \/ /\ ("eagain" \in Faults /\ sock[c] = "open") \/ peer[c] = "left"
        /\ \E n \in 0 .. Len(ret.data) - 1 :
             reply' = [reply EXCEPT ![c] = @ \o SubSeq(ret.data, 1, n)]
        /\ Goto(c, "unlock")
  /\ UNCHANGED <<world, file_mutex, complete, sock, did, start, fds, device>>

\* send() to a connection that is shut raises SIGPIPE, which nobody handles.
SendPipe(c) ==
  /\ At(c, "send")
  /\ sock[c] = "shut" \/ peer[c] = "left"
  /\ mpc' = "killed"
  /\ UNCHANGED <<maxfd, ShutdownNow, signals, backlog, head, datap, newSockfd, freed, peer,
                 server>>

CloseAll(c) ==
  /\ At(c, "close")
  /\ Device!Close(c)
  /\ sock' = [sock EXCEPT ![c] = "closed"]
  /\ fds' = fds \ {<<"socket", c>>, <<"device", c>>}
  /\ Goto(c, "unlock")
  /\ UNCHANGED <<world, file_mutex, complete, did, start, reply>>

\* A slip: an exit path without pthread_mutex_unlock.
LeftLocked == file_mutex

Unlocked == NULL

\* What the reply was is of no interest any more.
Unlock(c) ==
  /\ At(c, "unlock")
  /\ file_mutex' = Unlocked
  /\ Goto(c, "flag")
  /\ did' = [did EXCEPT ![c] = "none"]
  /\ start' = [start EXCEPT ![c] = 0]
  /\ reply' = [reply EXCEPT ![c] = <<>>]
  /\ UNCHANGED <<world, complete, sock, fds, device>>

SetComplete(c) ==
  /\ At(c, "flag")
  /\ complete' = [complete EXCEPT ![c] = TRUE]
  /\ Goto(c, "exiting")
  /\ UNCHANGED <<world, file_mutex, sock, did, start, reply, fds, device>>

PthreadExit(c) ==
  /\ At(c, "exiting")
  /\ Goto(c, "exited")
  /\ UNCHANGED <<world, file_mutex, conn, fds, device>>

----------------------------------------------------------------------------
MainStep ==
  \/ Startup \/ Test \/ EnterAccept \/ Accept \/ CreateThread \/ Scan \/ Join
  \/ Shutdown \/ Exit

ThreadStep(c) ==
  \/ Recv(c) \/ Lock(c) \/ OpenDevice(c) \/ WritePacket(c) \/ WriteKills(c)
  \/ SeekPacket(c) \/ AllocLine(c) \/ ReadData(c) \/ ReadFails(c) \/ Send(c)
  \/ SendPipe(c) \/ CloseAll(c) \/ Unlock(c) \/ SetComplete(c) \/ PthreadExit(c)

Next ==
  \/ MainStep
  \/ signal_handler
  \/ \E c \in Client : Connect(c) \/ SendLine(c) \/ Leave(c) \/ ThreadStep(c)

Spec == Init /\ [][Next]_vars

\* The scheduler runs every thread that can run.  Clients may do nothing, and
\* a signal may never come.  A read that is repeated succeeds some time: the
\* driver fails it for a signal during its wait for the lock, which nobody
\* else holds for long, or for a bad buffer, which this one is not.
FairSpec ==
  /\ Spec
  /\ WF_vars(MainStep)
  /\ \A c \in Client : WF_vars(ThreadStep(c)) /\ SF_vars(ReadData(c))

----------------------------------------------------------------------------
Critical == {"open", "command", "alloc", "read", "reread", "send", "close", "unlock",
             "killed"}

(* Every variable holds what its C counterpart can.                        *)
TypeOK ==
  /\ ShutdownNow \in BOOLEAN /\ signals \in 0 .. Signals
  /\ mpc \in {"start", "bind", "daemon", "listen", "test", "accept",
              "accepting", "create", "scan", "join", "shutdown", "destroy",
              "done", "killed"}
  /\ backlog \in Seq(Client) /\ head \in Seq(Client)
  /\ {datap, newSockfd} \subseteq Client \cup {NULL}
  /\ freed \subseteq Client
  /\ file_mutex \in Client \cup {NULL, Destroyed}
  /\ tpc \in [Client -> Critical \cup {"none", "recv", "lock", "flag",
                                       "exiting", "exited"}]
  /\ complete \in [Client -> BOOLEAN]
  /\ sock \in [Client -> {"none", "open", "shut", "closed"}]
  /\ peer \in [Client -> {"away", "sending", "line", "gone", "left"}]
  /\ did \in [Client -> {"none", "write", "part", "seek"}]
  /\ \A c \in Client :
       reply[c] \in Seq(Client \cup {NL}) /\ pos[c] \in Nat /\ start[c] \in Nat
  /\ Len(log) <= Capacity
  /\ fds \subseteq {"socket", "device"} \X Client /\ FdsInUse <= maxfd

(* A thread record is freed only when its thread will not touch it again,  *)
(* and no thread is lost: each one that runs is still in the list, once,   *)
(* for main to reap (SLIST_INSERT_HEAD before pthread_create, the flag,    *)
(* pthread_join before free).                                              *)
RecordsOutliveThreads ==
  \A c \in Client :
    /\ c \in freed => tpc[c] = "exited"
    /\ tpc[c] # "none" => (c \in freed) # (\E i \in DOMAIN head : head[i] = c)
    /\ \A i, j \in DOMAIN head : head[i] = head[j] => i = j

(* What a thread has sent when it closes the connection is one state of    *)
(* the device from one position to the end: after a write from the start,  *)
(* ending with the client's own line, after a seek from the position that  *)
(* the ioctl set.  file_mutex is what keeps a command from being displaced *)
(* between two of its reads.                                               *)
ReplyIsDeviceContents ==
  \A c \in Client :
    tpc[c] = "close" =>
      LET all == FlattenSeq(log)
      IN  /\ reply[c] = SubSeq(all, start[c] + 1, Len(all))
          /\ did[c] # "seek" => start[c] = 0
          /\ did[c] = "write" => IsSuffix(<<c, NL>>, all)

(* While nobody stops the server, the thread of a client that has sent its *)
(* line runs to its end: connections queue up, main is busy reaping,       *)
(* descriptors are short and other threads hold file_mutex and leave by    *)
(* their error exits, but each of them lets go of the mutex.  There are    *)
(* two exceptions.  A thread killed in the driver keeps file_mutex.  And   *)
(* descriptors: a client waits for ever when, from some time on, all of    *)
(* them belong to threads that ended by an error exit, which does not give *)
(* them back, or to connections whose client never completes its line.     *)
KilledInDriver == \E c \in Client : tpc[c] = "killed"

Abandoned == {d \in fds : tpc[d[2]] = "exited"}
Idle == {d \in fds : tpc[d[2]] = "recv" /\ peer[d[2]] \in {"sending", "gone"}}

LineIsHandled ==
  \A c \in Client :
    (peer[c] = "line") ~>
      \/ tpc[c] = "exited" \/ ShutdownNow \/ ~Running \/ KilledInDriver
      \/ [](Cardinality(Abandoned \cup Idle) = maxfd)

(* Once main looks at the flag it ends the process: nothing it still does, *)
(* joining finished threads included, waits for a client.                  *)
ShutdownCompletes ==
  (ShutdownNow /\ mpc \notin {"accept", "accepting"}) ~> ~Running

(* SIGINT or SIGTERM makes the server "Caught signal, exiting".            *)
SignalStops == ShutdownNow ~> ~Running
=============================================================================
