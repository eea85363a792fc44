-------------------------- MODULE AesdSocketProofs --------------------------
(***************************************************************************)
(* Theorems about the socket server for any number of clients, descriptor  *)
(* limits and signals, any capacity of the device and every set of faults. *)
(***************************************************************************)
EXTENDS AesdSocket, ConcatenationProofs, FiniteSetTheorems, TLAPS

USE ClientAssumption, BoundAssumption

----------------------------------------------------------------------------
(* The inductive invariant.                                                *)

Byte == Client \cup {NL}

MainPlace == {"start", "bind", "daemon", "listen", "test", "accept",
              "accepting", "create", "scan", "join", "shutdown", "destroy",
              "done", "killed"}

ThreadPlace == Critical \cup {"none", "recv", "lock", "flag", "exiting", "exited"}

(* The types of the variables of main, of the threads and of the device.   *)
MainTypes ==
  /\ maxfd \in FdLimits
  /\ ShutdownNow \in BOOLEAN /\ signals \in 0 .. Signals
  /\ mpc \in MainPlace
  /\ backlog \in Seq(Client) /\ head \in Seq(Client)
  /\ datap \in Client \cup {NULL} /\ newSockfd \in Client \cup {NULL}
  /\ freed \subseteq Client

ThreadTypes ==
  /\ file_mutex \in Client \cup {NULL, Destroyed}
  /\ tpc \in [Client -> ThreadPlace]
  /\ complete \in [Client -> BOOLEAN]
  /\ sock \in [Client -> {"none", "open", "shut", "closed"}]
  /\ peer \in [Client -> {"away", "sending", "line", "gone", "left"}]
  /\ did \in [Client -> {"none", "write", "part", "seek"}]
  /\ start \in [Client -> Nat]
  /\ reply \in [Client -> Seq(Byte)]

DeviceTypes ==
  /\ log \in Seq(Seq(Byte)) /\ Len(log) <= Capacity
  /\ partial \in Seq(Byte)
  /\ pos \in [Client -> Nat]
  /\ ret \in [p : Client \cup {NULL}, value : Int, data : Seq(Byte)]

(* Descriptors are counted against the limit before they are taken.        *)
DescriptorTypes ==
  /\ fds \subseteq {"socket", "device"} \X Client
  /\ IsFiniteSet(fds)
  /\ FdsInUse <= maxfd

Listed(c) == \E i \in DOMAIN head : head[i] = c
Queued(c) == \E i \in DOMAIN backlog : backlog[i] = c

(* The list and the queue hold a connection once, and only one of them     *)
(* does; a record leaves the list when it is freed; main's cursor and the  *)
(* connection it has just accepted are in the list.                        *)
NoRepeats(s) == \A i, j \in DOMAIN s : s[i] = s[j] => i = j

Records ==
  /\ NoRepeats(head)
  /\ NoRepeats(backlog)
  /\ \A c \in Client :
       /\ peer[c] = "away" => ~Queued(c) /\ ~Listed(c) /\ c \notin freed /\ tpc[c] = "none"
       /\ Queued(c) => ~Listed(c) /\ c \notin freed /\ tpc[c] = "none"
       /\ c \in freed => tpc[c] = "exited" /\ ~Listed(c)
       /\ tpc[c] # "none" => c \in freed \/ Listed(c)
  /\ mpc = "create" => head # <<>> /\ Head(head) = newSockfd /\ tpc[newSockfd] = "none"
  /\ mpc \in {"scan", "join"} => datap = NULL \/ Listed(datap)
  /\ mpc = "join" => datap # NULL

(* Mutual exclusion: a thread between lock and unlock owns file_mutex.     *)
Excluded == \A c \in Client : tpc[c] \in Critical => file_mutex = c

(* The bytes r are what the device holds between where thread c started    *)
(* to read, the beginning unless it seeked, and its file position.         *)
Delivered(c, r) ==
  /\ start[c] <= pos[c]
  /\ did[c] # "seek" => start[c] = 0
  /\ r = SubSeq(FlattenSeq(log), start[c] + 1, pos[c])

ReplyOf(c) ==
  /\ tpc[c] \in {"none", "recv", "lock", "open", "command"} =>
       reply[c] = <<>> /\ start[c] = 0
  /\ tpc[c] = "command" => pos[c] = 0
  /\ tpc[c] \in {"alloc", "read", "reread", "send", "close"} =>
       /\ pos[c] <= Len(FlattenSeq(log))
       /\ Delivered(c, IF tpc[c] = "send" THEN reply[c] \o ret.data ELSE reply[c])
       /\ did[c] = "write" => IsSuffix(<<c, NL>>, FlattenSeq(log))
  /\ tpc[c] = "close" => pos[c] = Len(FlattenSeq(log))

Replies == \A c \in Client : ReplyOf(c)

IInv ==
  /\ MainTypes /\ ThreadTypes /\ DeviceTypes /\ DescriptorTypes
  /\ Records
  /\ Excluded
  /\ Replies

----------------------------------------------------------------------------
(* The list of thread records.                                             *)

(* An element removed from a list without repetitions is gone, and nothing *)
(* else is (SLIST_REMOVE).                                                 *)
LEMMA RemoveAtFacts ==
  ASSUME NEW S, NEW s \in Seq(S), NEW k \in 1 .. Len(s), NoRepeats(s)
  PROVE  /\ RemoveAt(s, k) \in Seq(S)
         /\ NoRepeats(RemoveAt(s, k))
         /\ \A c : (\E i \in DOMAIN RemoveAt(s, k) : RemoveAt(s, k)[i] = c)
                     <=> c # s[k] /\ \E i \in DOMAIN s : s[i] = c
<1> DEFINE n == Len(s)
           a == SubSeq(s, 1, k - 1)
           b == SubSeq(s, k + 1, n)
           r == RemoveAt(s, k)
<1>1. n \in Nat /\ DOMAIN s = 1 .. n /\ \A i \in 1 .. n : s[i] \in S
  BY LenProperties, ElementOfSeq
<1>2. /\ a \in Seq(S) /\ Len(a) = k - 1
      /\ \A i \in 1 .. k - 1 : a[i] = s[i]
  <2>1. \A i \in 1 .. k - 1 : s[i] \in S
    BY <1>1
  <2>2. k - 1 \in Int /\ 1 \in Int /\ (k - 1 - 1) + 1 = k - 1
        /\ \A i \in 1 .. k - 1 : (1 + i) - 1 = i
    BY <1>1
  <2>. QED  BY <1>1, <2>1, <2>2
<1>3. /\ b \in Seq(S) /\ Len(b) = n - k
      /\ \A i \in 1 .. n - k : b[i] = s[k + i]
  <2>1. \A i \in k + 1 .. n : s[i] \in S
    BY <1>1
  <2>2. /\ k + 1 \in Int /\ n \in Int /\ k + 1 <= n + 1 /\ (n - (k + 1)) + 1 = n - k
        /\ \A i \in 1 .. n - k : ((k + 1) + i) - 1 = k + i
    BY <1>1 DEF n
  <2>3. /\ b \in Seq(S) /\ Len(b) = (n - (k + 1)) + 1
        /\ \A i \in 1 .. (n - (k + 1)) + 1 : b[i] = s[((k + 1) + i) - 1]
    <3>. HIDE DEF n
    <3>. QED  BY <1>1, <2>1, <2>2, SubSeqProperties
  <2>. HIDE DEF b, n
  <2>. QED  BY <2>2, <2>3
<1>4. r = a \o b
  BY DEF RemoveAt
<1>. HIDE DEF n, a, b, r
<1>5. /\ r \in Seq(S) /\ Len(r) = n - 1 /\ DOMAIN r = 1 .. n - 1
      /\ \A i \in 1 .. n - 1 : r[i] = IF i < k THEN s[i] ELSE s[i + 1]
  <2>1. r \in Seq(S) /\ Len(r) = (k - 1) + (n - k)
    <3>1. a \o b \in Seq(S) /\ Len(a \o b) = Len(a) + Len(b)
      BY <1>2, <1>3, ConcatProperties
    <3>. QED  BY <1>2, <1>3, <1>4, <3>1
  <2>2. (k - 1) + (n - k) = n - 1
    BY <1>1
  <2>3. ASSUME NEW i \in 1 .. n - 1
        PROVE  r[i] = IF i < k THEN s[i] ELSE s[i + 1]
    <3>1. CASE i < k
      <4>1. i \in 1 .. k - 1
        BY <3>1
      <4>. QED  BY <1>2, <1>3, <1>4, <3>1, <4>1, ConcatProperties
    <3>2. CASE ~(i < k)
      <4>1. i - (k - 1) \in 1 .. n - k /\ k + (i - (k - 1)) = i + 1
            /\ i \in (k - 1) + 1 .. (k - 1) + (n - k)
        BY <1>1, <3>2
      <4>2. r[i] = b[i - (k - 1)]
        BY <1>2, <1>3, <1>4, <4>1, ConcatProperties
      <4>. QED  BY <1>3, <3>2, <4>1, <4>2
    <3>. QED  BY <3>1, <3>2
  <2>4. DOMAIN r = 1 .. n - 1
    BY <2>1, <2>2, LenProperties
  <2>. QED  BY <2>1, <2>2, <2>3, <2>4
<1>6. NoRepeats(r)
  <2> SUFFICES ASSUME NEW i \in 1 .. n - 1, NEW j \in 1 .. n - 1, r[i] = r[j]
               PROVE  i = j
    BY <1>5 DEF NoRepeats
  <2> DEFINE up(m) == IF m < k THEN m ELSE m + 1
  <2>1. up(i) \in 1 .. n /\ up(j) \in 1 .. n
    BY <1>1
  <2>2. s[up(i)] = s[up(j)]
    BY <1>5
  <2>3. up(i) = up(j)
    BY <1>1, <2>1, <2>2 DEF NoRepeats
  <2>. QED  BY <1>1, <2>3
<1>7. ASSUME NEW c
      PROVE  (\E i \in DOMAIN r : r[i] = c) <=> c # s[k] /\ \E i \in DOMAIN s : s[i] = c
  <2>1. ASSUME NEW i \in 1 .. n - 1, r[i] = c
        PROVE  c # s[k] /\ \E j \in DOMAIN s : s[j] = c
    <3> DEFINE j == IF i < k THEN i ELSE i + 1
    <3>1. j \in 1 .. n /\ j # k /\ k \in 1 .. n
      BY <1>1 DEF n
    <3>2. s[j] = c
      BY <1>5, <2>1
    <3>. QED  BY <1>1, <3>1, <3>2 DEF NoRepeats
  <2>2. ASSUME c # s[k], NEW j \in 1 .. n, s[j] = c
        PROVE  \E i \in DOMAIN r : r[i] = c
    <3> DEFINE i == IF j < k THEN j ELSE j - 1
    <3>1. j # k
      BY <2>2
    <3>2. i \in 1 .. n - 1 /\ (IF i < k THEN i ELSE i + 1) = j
      BY <1>1, <3>1 DEF n
    <3>3. r[i] = c
      BY <1>5, <2>2, <3>2
    <3>. QED  BY <1>5, <3>2, <3>3
  <2>. QED  BY <1>1, <1>5, <2>1, <2>2
<1>. QED  BY <1>5, <1>6, <1>7 DEF r

(* Where a record of the list is, and what main's cursor moves to.         *)
LEMMA SuccessorFacts ==
  ASSUME head \in Seq(Client), NoRepeats(head), NEW d, Listed(d)
  PROVE  /\ Place(d) \in 1 .. Len(head) /\ head[Place(d)] = d
         /\ Successor(d) # NULL =>
              Listed(Successor(d)) /\ Successor(d) # d /\ Successor(d) \in Client
<1>1. Len(head) \in Nat /\ DOMAIN head = 1 .. Len(head)
      /\ \A i \in 1 .. Len(head) : head[i] \in Client
  BY LenProperties, ElementOfSeq
<1>2. Place(d) \in DOMAIN head /\ head[Place(d)] = d
  <2>1. \E i \in DOMAIN head : head[i] = d
    BY DEF Listed
  <2>. QED  BY <2>1 DEF Place
<1>3. ASSUME Successor(d) # NULL
      PROVE  Listed(Successor(d)) /\ Successor(d) # d /\ Successor(d) \in Client
  <2>1. Successor(d) = head[Place(d) + 1] /\ Place(d) # Len(head)
    BY <1>3 DEF Successor
  <2>2. Place(d) + 1 \in DOMAIN head /\ Place(d) + 1 # Place(d)
    BY <1>1, <1>2, <2>1
  <2>. QED  BY <1>1, <1>2, <2>1, <2>2 DEF Listed, NoRepeats
<1>. QED  BY <1>1, <1>2, <1>3

Occurs(s, c) == \E i \in DOMAIN s : s[i] = c

(* accept puts the first connection of the queue at the head of the list.  *)
LEMMA AcceptFacts ==
  ASSUME NEW S, NEW q \in Seq(S), q # <<>>, NEW h \in Seq(S),
         NoRepeats(q), NoRepeats(h), ~Occurs(h, Head(q))
  PROVE  /\ Head(q) \in S /\ Occurs(q, Head(q))
         /\ Tail(q) \in Seq(S) /\ NoRepeats(Tail(q))
         /\ \A c : Occurs(Tail(q), c) <=> c # Head(q) /\ Occurs(q, c)
         /\ <<Head(q)>> \o h \in Seq(S) /\ NoRepeats(<<Head(q)>> \o h)
         /\ <<Head(q)>> \o h # <<>> /\ Head(<<Head(q)>> \o h) = Head(q)
         /\ \A c : Occurs(<<Head(q)>> \o h, c) <=> c = Head(q) \/ Occurs(h, c)
<1> DEFINE x == Head(q)
           t == Tail(q)
           g == <<x>> \o h
           n == Len(q)
           m == Len(h)
<1>1. /\ n \in Nat /\ n # 0 /\ DOMAIN q = 1 .. n
      /\ m \in Nat /\ DOMAIN h = 1 .. m
  BY LenProperties, EmptySeq
<1>2. x = q[1] /\ x \in S /\ 1 \in 1 .. n
  BY <1>1, ElementOfSeq
<1>3. t \in Seq(S) /\ Len(t) = n - 1 /\ DOMAIN t = 1 .. n - 1
      /\ \A i \in 1 .. n - 1 : t[i] = q[i + 1]
  BY <1>1, HeadTailProperties
<1>4. g \in Seq(S) /\ Len(g) = m + 1 /\ DOMAIN g = 1 .. m + 1 /\ g[1] = x
      /\ \A i \in 2 .. m + 1 : g[i] = h[i - 1]
  <2>1. <<x>> \in Seq(S) /\ Len(<<x>>) = 1 /\ <<x>>[1] = x
    BY <1>2
  <2>. HIDE DEF x
  <2>2. g \in Seq(S) /\ Len(g) = 1 + m
    BY <2>1
  <2>3. g[1] = x
    BY <1>1, <2>1, ConcatProperties
  <2>4. ASSUME NEW i \in 2 .. m + 1 PROVE g[i] = h[i - 1]
    <3>1. i \in 1 + 1 .. 1 + m
      BY <1>1
    <3>. QED  BY <2>1, <3>1, ConcatProperties
  <2>5. DOMAIN g = 1 .. m + 1
    BY <1>1, <2>2, LenProperties
  <2>. QED  BY <1>1, <2>2, <2>3, <2>4, <2>5
<1>5. g # <<>> /\ Head(g) = x
  <2>. HIDE DEF g, x
  <2>1. g # <<>>
    BY <1>1, <1>4
  <2>. QED  BY <1>4, <2>1
<1>. HIDE DEF x, t, g, n, m
<1>6. NoRepeats(t)
  <2> SUFFICES ASSUME NEW i \in 1 .. n - 1, NEW j \in 1 .. n - 1, t[i] = t[j]
               PROVE  i = j
    BY <1>3 DEF NoRepeats
  <2>1. i + 1 \in DOMAIN q /\ j + 1 \in DOMAIN q /\ q[i + 1] = q[j + 1]
    BY <1>1, <1>3
  <2>. QED  BY <1>1, <2>1 DEF NoRepeats
<1>7. ASSUME NEW c
      PROVE  (\E i \in DOMAIN t : t[i] = c) <=> c # x /\ \E i \in DOMAIN q : q[i] = c
  <2>1. ASSUME NEW i \in 1 .. n - 1, t[i] = c
        PROVE  c # x /\ \E j \in DOMAIN q : q[j] = c
    <3>1. i + 1 \in DOMAIN q /\ q[i + 1] = c /\ 1 \in DOMAIN q /\ i + 1 # 1
      BY <1>1, <1>3, <2>1
    <3>. QED  BY <1>2, <3>1 DEF NoRepeats
  <2>2. ASSUME c # x, NEW j \in 1 .. n, q[j] = c
        PROVE  \E i \in DOMAIN t : t[i] = c
    <3>1. j # 1
      BY <1>2, <2>2
    <3>2. j - 1 \in 1 .. n - 1 /\ (j - 1) + 1 = j
      BY <1>1, <3>1
    <3>. QED  BY <1>3, <2>2, <3>2
  <2>. QED  BY <1>1, <1>3, <2>1, <2>2
<1>8. NoRepeats(g)
  <2> SUFFICES ASSUME NEW i \in 1 .. m + 1, NEW j \in 1 .. m + 1, g[i] = g[j]
               PROVE  i = j
    BY <1>4 DEF NoRepeats
  <2>1. \A k \in 2 .. m + 1 : k - 1 \in DOMAIN h /\ g[k] = h[k - 1] /\ g[k] # x
    <3> TAKE k \in 2 .. m + 1
    <3>1. k - 1 \in DOMAIN h /\ g[k] = h[k - 1]
      BY <1>1, <1>4
    <3>. QED  BY <3>1 DEF x, Occurs
  <2>2. CASE i = 1 \/ j = 1
    <3>1. i # 1 => i \in 2 .. m + 1
      BY <1>1
    <3>2. j # 1 => j \in 2 .. m + 1
      BY <1>1
    <3>. QED  BY <1>4, <2>1, <2>2, <3>1, <3>2
  <2>3. CASE i # 1 /\ j # 1
    <3>1. i \in 2 .. m + 1 /\ j \in 2 .. m + 1
      BY <1>1, <2>3
    <3>2. i - 1 = j - 1
      BY <2>1, <3>1 DEF NoRepeats
    <3>. QED  BY <1>1, <3>2
  <2>. QED  BY <2>2, <2>3
<1>9. ASSUME NEW c
      PROVE  (\E i \in DOMAIN g : g[i] = c) <=> c = x \/ \E i \in DOMAIN h : h[i] = c
  <2>1. ASSUME NEW i \in 1 .. m + 1, g[i] = c
        PROVE  c = x \/ \E j \in DOMAIN h : h[j] = c
    <3>1. CASE i = 1
      BY <1>4, <2>1, <3>1
    <3>2. CASE i # 1
      <4>1. i \in 2 .. m + 1 /\ i - 1 \in DOMAIN h
        BY <1>1, <3>2
      <4>. QED  BY <1>4, <2>1, <4>1
    <3>. QED  BY <3>1, <3>2
  <2>2. ASSUME NEW j \in 1 .. m, h[j] = c
        PROVE  \E i \in DOMAIN g : g[i] = c
    <3>1. j + 1 \in 2 .. m + 1 /\ (j + 1) - 1 = j /\ j + 1 \in DOMAIN g
      BY <1>1, <1>4
    <3>. QED  BY <1>4, <2>2, <3>1
  <2>3. 1 \in DOMAIN g
    BY <1>1, <1>4
  <2>. QED  BY <1>1, <1>4, <2>1, <2>2, <2>3
<1>10. /\ Occurs(q, x)
       /\ \A c : Occurs(t, c) <=> c # x /\ Occurs(q, c)
       /\ \A c : Occurs(g, c) <=> c = x \/ Occurs(h, c)
  BY <1>1, <1>2, <1>7, <1>9 DEF Occurs
<1>. QED  BY <1>2, <1>3, <1>4, <1>5, <1>6, <1>8, <1>10 DEF x, t, g

----------------------------------------------------------------------------
(* Types.                                                                  *)

(* What every step of a thread leaves alone: only SIGPIPE reaches main.    *)
LEMMA ThreadsLeaveWorld ==
  ASSUME NEW c \in Client, ThreadStep(c)
  PROVE  /\ UNCHANGED <<maxfd, ShutdownNow, signals, backlog, head, datap,
                        newSockfd, freed, peer>>
         /\ mpc' = mpc \/ mpc' = "killed"
BY DEF ThreadStep, Recv, Lock, OpenDevice, WritePacket, WriteKills, SeekPacket,
       AllocLine, ReadData, ReadFails, Send, SendPipe, CloseAll, Unlock, SetComplete,
       PthreadExit, world, main

(* main and its list.                                                      *)
LEMMA NextMainTypes == IInv /\ [Next]_vars => MainTypes'
<1> SUFFICES ASSUME IInv, [Next]_vars PROVE MainTypes'
  OBVIOUS
<1> USE DEF MainPlace, MainGoes
<1>1. MainTypes /\ Records
  BY DEF IInv
<1>2. ASSUME NEW c \in Client, ThreadStep(c) PROVE MainTypes'
  BY <1>1, <1>2, ThreadsLeaveWorld DEF MainTypes
<1>3. ASSUME NEW c \in Client, Connect(c) PROVE MainTypes'
  BY <1>1, <1>3, AppendProperties DEF MainTypes, Connect
<1>4. ASSUME NEW c \in Client, SendLine(c) \/ Leave(c) PROVE MainTypes'
  BY <1>1, <1>4 DEF MainTypes, SendLine, Leave, main
<1>5. CASE signal_handler
  <2>1. signals' \in 0 .. Signals
    BY <1>1, <1>5 DEF MainTypes, signal_handler
  <2>2. mpc' \in MainPlace
    BY <1>1, <1>5 DEF MainTypes, signal_handler
  <2>3. ShutdownNow' \in BOOLEAN
    BY <1>5 DEF signal_handler
  <2>4. newSockfd' \in Client \cup {NULL}
    BY <1>1, <1>5 DEF MainTypes, signal_handler
  <2>. QED  BY <1>1, <1>5, <2>1, <2>2, <2>3, <2>4 DEF MainTypes, signal_handler
<1>6. CASE Startup \/ Test \/ EnterAccept
  BY <1>1, <1>6 DEF MainTypes, Startup, Test, EnterAccept, NextIteration
<1>7. CASE Accept
  <2>1. Head(backlog) \in Client /\ Tail(backlog) \in Seq(Client)
    BY <1>1, <1>7, HeadTailProperties DEF MainTypes, Accept
  <2>2. <<Head(backlog)>> \o head \in Seq(Client)
    BY <1>1, <2>1 DEF MainTypes
  <2>. QED  BY <1>1, <1>7, <2>1, <2>2 DEF MainTypes, Accept
<1>8. CASE CreateThread
  <2>1. Head(head) \in Client \/ mpc # "create"
    BY <1>1, HeadTailProperties DEF MainTypes, Records
  <2>. QED  BY <1>1, <1>8, <2>1 DEF MainTypes, CreateThread
<1>9. ASSUME mpc \in {"scan", "join"}, datap # NULL
      PROVE  /\ Successor(datap) \in Client \cup {NULL}
             /\ Unlinked(datap) \in Seq(Client)
  <2>1. head \in Seq(Client) /\ NoRepeats(head) /\ Listed(datap)
    BY <1>1, <1>9 DEF MainTypes, Records
  <2>2. Place(datap) \in 1 .. Len(head)
    BY <2>1, SuccessorFacts
  <2>. QED  BY <2>1, <2>2, SuccessorFacts, RemoveAtFacts DEF Unlinked
<1>10. CASE Scan
  BY <1>1, <1>9, <1>10 DEF MainTypes, Scan
<1>11. CASE Join
  BY <1>1, <1>9, <1>11 DEF MainTypes, Records, Join
<1>12. CASE Shutdown \/ Exit
  BY <1>1, <1>12 DEF MainTypes, Shutdown, Exit
<1>13. CASE UNCHANGED vars
  BY <1>1, <1>13 DEF MainTypes, vars, world, main
<1>. QED  BY <1>2, <1>3, <1>4, <1>5, <1>6, <1>7, <1>8, <1>10, <1>11, <1>12, <1>13
          DEF Next, MainStep

(* The concatenation a read delivers, and its parts.                       *)
LEMMA PartsOfAll ==
  ASSUME DeviceTypes, NEW i \in Nat, NEW j \in Nat, j <= Len(FlattenSeq(log))
  PROVE  /\ FlattenSeq(log) \in Seq(Byte) /\ Len(FlattenSeq(log)) \in Nat
         /\ SubSeq(FlattenSeq(log), i + 1, j) \in Seq(Byte)
         /\ Len(SubSeq(FlattenSeq(log), i + 1, j)) = IF i <= j THEN j - i ELSE 0
         /\ \A k \in 1 .. j - i :
              SubSeq(FlattenSeq(log), i + 1, j)[k] = FlattenSeq(log)[i + k]
<1> DEFINE all == FlattenSeq(log)
<1>1. all \in Seq(Byte)
  BY FlattenType DEF DeviceTypes
<1>. HIDE DEF all
<1>2. Len(all) \in Nat /\ \A k \in 1 .. Len(all) : all[k] \in Byte
  BY <1>1, LenProperties, ElementOfSeq
<1>3. \A k \in i + 1 .. j : all[k] \in Byte
  BY <1>2 DEF all
<1>4. /\ i + 1 \in Int /\ (i + 1 <= j <=> i < j) /\ (j - (i + 1)) + 1 = j - i
      /\ \A k \in 1 .. j - i : ((i + 1) + k) - 1 = i + k
  OBVIOUS
<1>5. /\ SubSeq(all, i + 1, j) \in Seq(Byte)
      /\ Len(SubSeq(all, i + 1, j)) = IF i + 1 <= j THEN (j - (i + 1)) + 1 ELSE 0
      /\ \A k \in 1 .. (j - (i + 1)) + 1 :
           SubSeq(all, i + 1, j)[k] = all[((i + 1) + k) - 1]
  BY <1>3, <1>4, SubSeqProperties
<1>6. \A k \in 1 .. j - i : SubSeq(all, i + 1, j)[k] = all[i + k]
  BY <1>4, <1>5
<1>7. Len(SubSeq(all, i + 1, j)) = IF i <= j THEN j - i ELSE 0
  BY <1>4, <1>5
<1>. QED  BY <1>1, <1>2, <1>5, <1>6, <1>7 DEF all

(* The operators on sequences mean the same in the instance of the device. *)
LEMMA SameOperators ==
  /\ \A x : Device!Last(x) = Last(x)
  /\ \A x : Device!FlattenSeq(x) = FlattenSeq(x)
<1>1. \A x : Device!Last(x) = Last(x)
  BY DEF Device!Last, Last
<1>2. \A x : Device!FlattenSeq(x) = FlattenSeq(x)
  BY DEF Device!FlattenSeq, FlattenSeq
<1>. QED  BY <1>1, <1>2

(* A write adds to the command that is pending, or completes it.           *)
LEMMA WriteFacts ==
  ASSUME DeviceTypes, NEW c \in Client, NEW x \in Seq(Byte), x # <<>>,
         Device!Write(c, x)
  PROVE  /\ DeviceTypes' /\ pos' = pos
         /\ Last(x) # NL => log' = log
         /\ Last(x) = NL => \E l \in Seq(Seq(Byte)) : log' = Append(l, partial \o x)
<1>1. partial \o x \in Seq(Byte) /\ Len(x) \in Nat /\ <<>> \in Seq(Byte)
  BY ConcatProperties, LenProperties, EmptySeq DEF DeviceTypes
<1>2. ret' \in [p : Client \cup {NULL}, value : Int, data : Seq(Byte)] /\ pos' = pos
  BY <1>1 DEF Device!Write, Device!Returns
<1>3. CASE Last(x) # NL
  <2>1. log' = log /\ partial' = partial \o x
    BY <1>3, SameOperators DEF Device!Write
  <2>. QED  BY <1>1, <1>2, <1>3, <2>1 DEF DeviceTypes
<1>4. CASE Last(x) = NL
  <2> DEFINE l == IF Len(log) < Capacity THEN log ELSE Tail(log)
  <2>1. log' = Append(l, partial \o x) /\ partial' = <<>>
    BY <1>4, SameOperators DEF Device!Write, Device!Push
  <2>2. l \in Seq(Seq(Byte)) /\ Len(l) + 1 <= Capacity /\ Len(l) \in Nat
    <3>1. log \in Seq(Seq(Byte)) /\ Len(log) \in Nat /\ Len(log) <= Capacity
      BY LenProperties DEF DeviceTypes
    <3>0. Capacity \in Nat
      OBVIOUS
    <3>2. CASE Len(log) < Capacity
      BY <3>0, <3>1, <3>2
    <3>3. CASE ~(Len(log) < Capacity)
      <4>1. log # <<>>
        BY <3>1, <3>3
      <4>2. Tail(log) \in Seq(Seq(Byte)) /\ Len(Tail(log)) = Len(log) - 1
        BY <3>1, <4>1, HeadTailProperties
      <4>. QED  BY <3>0, <3>1, <3>3, <4>1, <4>2
    <3>. QED  BY <3>2, <3>3
  <2>. HIDE DEF l
  <2>3. log' \in Seq(Seq(Byte)) /\ Len(log') = Len(l) + 1
    BY <1>1, <2>1, <2>2, AppendProperties
  <2>. QED  BY <1>1, <1>2, <1>4, <2>1, <2>2, <2>3 DEF DeviceTypes
<1>. QED  BY <1>3, <1>4

(* A read of the device delivers the bytes at the file position and moves  *)
(* it past them; none means the end.                                       *)
LEMMA ReadFacts ==
  ASSUME DeviceTypes, NEW c \in Client, Device!Read(c, ReadSize)
  PROVE  /\ DeviceTypes' /\ log' = log
         /\ pos[c] <= Len(FlattenSeq(log)) =>
              /\ pos'[c] <= Len(FlattenSeq(log)) /\ pos[c] <= pos'[c]
              /\ ret'.data = SubSeq(FlattenSeq(log), pos[c] + 1, pos'[c])
              /\ ret'.value = 0 => pos'[c] = pos[c] /\ pos[c] = Len(FlattenSeq(log))
<1> DEFINE all == FlattenSeq(log)
<1>0. all \in Seq(Byte) /\ Len(all) \in Nat
  BY FlattenType, LenProperties DEF DeviceTypes
<1>1. PICK n \in 0 .. ReadSize :
           /\ n = 0 => ReadSize = 0 \/ pos[c] >= Len(all)
           /\ n > 0 => pos[c] + n <= Len(all)
           /\ Device!Returns(c, n, SubSeq(all, pos[c] + 1, pos[c] + n))
           /\ pos' = [pos EXCEPT ![c] = @ + n]
  BY SameOperators DEF Device!Read
<1>2. log' = log /\ partial' = partial
  BY DEF Device!Read
<1>3. pos[c] \in Nat /\ pos'[c] = pos[c] + n /\ pos' \in [Client -> Nat]
  BY <1>1 DEF DeviceTypes
<1>4. SubSeq(all, pos[c] + 1, pos[c] + n) \in Seq(Byte)
  <2>1. CASE n = 0
    <3>1. pos[c] + n < pos[c] + 1 /\ pos[c] + n \in Int /\ pos[c] + 1 \in Int
      BY <1>3, <2>1
    <3>2. SubSeq(all, pos[c] + 1, pos[c] + n) = <<>>
      BY <3>1, SubSeqEmpty
    <3>. QED  BY <3>2, EmptySeq
  <2>2. CASE n # 0
    <3>1. pos[c] + n \in Nat /\ pos[c] + n <= Len(all)
      BY <1>1, <1>3, <2>2
    <3>. QED  BY <1>3, <3>1, PartsOfAll
  <2>. QED  BY <2>1, <2>2
<1>5. ret' = [p |-> c, value |-> n, data |-> SubSeq(all, pos[c] + 1, pos[c] + n)]
  BY <1>1 DEF Device!Returns
<1>. HIDE DEF all
<1>6. /\ ret' \in [p : Client \cup {NULL}, value : Int, data : Seq(Byte)]
      /\ ret'.value = n /\ ret'.data = SubSeq(all, pos[c] + 1, pos'[c])
  <2> DEFINE d == SubSeq(all, pos[c] + 1, pos[c] + n)
  <2>1. d \in Seq(Byte) /\ ret' = [p |-> c, value |-> n, data |-> d]
    BY <1>4, <1>5
  <2>2. d = SubSeq(all, pos[c] + 1, pos'[c])
    BY <1>3
  <2>. HIDE DEF d
  <2>3. n \in Int
    OBVIOUS
  <2>4. ret' \in [p : Client \cup {NULL}, value : Int, data : Seq(Byte)]
    BY <2>1, <2>3
  <2>5. ret'.value = n /\ ret'.data = d
    BY <2>1
  <2>. QED  BY <2>2, <2>4, <2>5
<1>7. DeviceTypes'
  BY <1>2, <1>3, <1>6 DEF DeviceTypes
<1>8. ASSUME pos[c] <= Len(all)
      PROVE  /\ pos'[c] <= Len(all) /\ pos[c] <= pos'[c]
             /\ ret'.value = 0 => pos'[c] = pos[c] /\ pos[c] = Len(all)
  BY <1>0, <1>1, <1>3, <1>6, <1>8
<1>. QED  BY <1>2, <1>6, <1>7, <1>8 DEF all

(* A seek puts the file position somewhere in the data or reports an error.*)
LEMMA SeekFacts ==
  ASSUME DeviceTypes, NEW c \in Client, NEW cmd \in SeekCmd, NEW off \in SeekOff,
         Device!SeekTo(c, cmd, off)
  PROVE  /\ DeviceTypes' /\ log' = log
         /\ ret'.value >= 0 => pos'[c] <= Len(FlattenSeq(log))
<1>1. cmd \in Nat /\ off \in Nat /\ <<>> \in Seq(Byte)
  BY SeekAssumption, EmptySeq
<1>2. log \in Seq(Seq(Byte)) /\ Len(log) \in Nat
  BY LenProperties DEF DeviceTypes
<1>3. CASE /\ cmd < Len(log) /\ off <= Len(log[cmd + 1])
           /\ pos' = [pos EXCEPT ![c] = Len(FlattenSeq(SubSeq(log, 1, cmd))) + off]
           /\ Device!Returns(c, 0, <<>>)
           /\ UNCHANGED <<log, partial>>
  <2>1. cmd \in 0 .. Len(log) - 1
    BY <1>1, <1>2, <1>3
  <2>2. /\ Len(Upto(log, cmd)) \in Nat /\ Len(log[cmd + 1]) \in Nat
        /\ Len(FlattenSeq(log)) \in Nat
        /\ Len(Upto(log, cmd)) + Len(log[cmd + 1]) <= Len(FlattenSeq(log))
    BY <1>2, <2>1, FlattenIndex
  <2>3. pos' = [pos EXCEPT ![c] = Len(Upto(log, cmd)) + off]
    BY <1>3 DEF Upto
  <2>4. pos' \in [Client -> Nat] /\ pos'[c] = Len(Upto(log, cmd)) + off
    BY <1>1, <2>2, <2>3 DEF DeviceTypes
  <2>5. ret' \in [p : Client \cup {NULL}, value : Int, data : Seq(Byte)]
    BY <1>1, <1>3 DEF Device!Returns
  <2>6. pos'[c] <= Len(FlattenSeq(log))
    BY <1>1, <1>3, <2>2, <2>4
  <2>. QED  BY <1>3, <2>4, <2>5, <2>6 DEF DeviceTypes
<1>4. CASE /\ Device!Returns(c, -22, <<>>)
           /\ UNCHANGED <<log, partial, pos>>
  <2>1. /\ ret' \in [p : Client \cup {NULL}, value : Int, data : Seq(Byte)]
        /\ ret'.value = -22
    BY <1>1, <1>4 DEF Device!Returns
  <2>. QED  BY <1>4, <2>1 DEF DeviceTypes
<1>. QED  BY <1>3, <1>4, SameOperators DEF Device!SeekTo

(* The threads and their connections.                                      *)
LEMMA NextThreadTypes == IInv /\ [Next]_vars => ThreadTypes'
<1> SUFFICES ASSUME IInv, [Next]_vars PROVE ThreadTypes'
  OBVIOUS
<1> USE DEF ThreadPlace, Critical, MainGoes, At, Goto
<1>1. MainTypes /\ ThreadTypes /\ DeviceTypes /\ Records
  BY DEF IInv
<1>2. ASSUME NEW c \in Client, Connect(c) \/ SendLine(c) \/ Leave(c) PROVE ThreadTypes'
  BY <1>1, <1>2 DEF ThreadTypes, Connect, SendLine, Leave, server, conn
<1>3. CASE signal_handler \/ Startup \/ Test \/ EnterAccept \/ Accept \/ Scan \/ Join
  BY <1>1, <1>3 DEF ThreadTypes, signal_handler, Startup, Test, EnterAccept, Accept,
                    Scan, Join, server, conn
<1>4. CASE CreateThread
  <2>1. tpc' \in [Client -> ThreadPlace]
    BY <1>1, <1>4 DEF ThreadTypes, CreateThread
  <2>. QED  BY <1>1, <1>4, <2>1 DEF ThreadTypes, CreateThread, conn
<1>5. CASE Shutdown
  BY <1>1, <1>5 DEF ThreadTypes, Shutdown
<1>6. CASE Exit
  BY <1>1, <1>6 DEF ThreadTypes, Exit, conn
<1>7. ASSUME NEW c \in Client, Recv(c) \/ Lock(c) PROVE ThreadTypes'
  BY <1>1, <1>7 DEF ThreadTypes, Recv, Lock, world, conn
<1>8. ASSUME NEW c \in Client,
             \/ OpenDevice(c) \/ WriteKills(c) \/ AllocLine(c) \/ ReadData(c)
             \/ ReadFails(c)
      PROVE  ThreadTypes'
  <2>1. tpc' \in [Client -> ThreadPlace]
    BY <1>1, <1>8 DEF ThreadTypes, OpenDevice, WriteKills, AllocLine, ReadData, ReadFails
  <2>. QED  BY <1>1, <1>8, <2>1 DEF ThreadTypes, OpenDevice, WriteKills, AllocLine,
                                   ReadData, ReadFails, world, conn
<1>9. ASSUME NEW c \in Client, WritePacket(c) \/ SeekPacket(c) PROVE ThreadTypes'
  <2>1. tpc' \in [Client -> ThreadPlace]
    BY <1>1, <1>9 DEF ThreadTypes, WritePacket, SeekPacket
  <2>2. did' \in [Client -> {"none", "write", "part", "seek"}]
    BY <1>1, <1>9 DEF ThreadTypes, WritePacket, SeekPacket
  <2>3. start' \in [Client -> Nat]
    <3>1. CASE WritePacket(c)
      BY <1>1, <3>1 DEF ThreadTypes, WritePacket
    <3>2. CASE SeekPacket(c)
      <4>1. pos' \in [Client -> Nat]
        <5>1. CASE UNCHANGED device
          BY <1>1, <5>1 DEF DeviceTypes, device
        <5>2. ASSUME NEW cmd \in SeekCmd, NEW off \in SeekOff, Device!SeekTo(c, cmd, off)
              PROVE  pos' \in [Client -> Nat]
          BY <1>1, <5>2, SeekFacts DEF DeviceTypes
        <5>. QED  BY <3>2, <5>1, <5>2 DEF SeekPacket
      <4>. QED  BY <1>1, <3>2, <4>1 DEF ThreadTypes, SeekPacket
    <3>. QED  BY <1>9, <3>1, <3>2
  <2>. QED  BY <1>1, <1>9, <2>1, <2>2, <2>3
            DEF ThreadTypes, WritePacket, SeekPacket, world
<1>10. ASSUME NEW c \in Client, Send(c) PROVE ThreadTypes'
  <2>1. reply[c] \o ret.data \in Seq(Byte)
    BY <1>1, ConcatProperties DEF ThreadTypes, DeviceTypes
  <2>4. ASSUME NEW n \in 0 .. Len(ret.data) - 1
        PROVE  reply[c] \o SubSeq(ret.data, 1, n) \in Seq(Byte)
    <3> DEFINE d == ret.data
               b == SubSeq(d, 1, n)
    <3>1. d \in Seq(Byte) /\ Len(d) \in Nat /\ reply[c] \in Seq(Byte)
      BY <1>1, LenProperties DEF ThreadTypes, DeviceTypes
    <3>2. 1 \in Int /\ n \in Int /\ \A i \in 1 .. n : d[i] \in Byte
      BY <3>1, ElementOfSeq
    <3>3. b \in Seq(Byte)
      <4>. HIDE DEF d
      <4>. QED  BY <3>2, SubSeqProperties
    <3>. HIDE DEF b
    <3>4. reply[c] \o b \in Seq(Byte)
      BY <3>1, <3>3, ConcatProperties
    <3>. QED  BY <3>4 DEF b
  <2>2. reply' \in [Client -> Seq(Byte)]
    <3>1. PICK r \in Seq(Byte) : reply' = [reply EXCEPT ![c] = r]
      <4>1. CASE reply' = [reply EXCEPT ![c] = reply[c] \o ret.data]
        BY <2>1, <4>1
      <4>2. ASSUME NEW n \in 0 .. Len(ret.data) - 1,
                   reply' = [reply EXCEPT ![c] = reply[c] \o SubSeq(ret.data, 1, n)]
            PROVE  \E r \in Seq(Byte) : reply' = [reply EXCEPT ![c] = r]
        BY <2>4, <4>2
      <4>. QED  BY <1>10, <4>1, <4>2 DEF Send
    <3>. QED  BY <1>1, <3>1 DEF ThreadTypes
  <2>3. tpc' \in [Client -> ThreadPlace]
    BY <1>1, <1>10 DEF ThreadTypes, Send
  <2>. QED  BY <1>1, <1>10, <2>2, <2>3 DEF ThreadTypes, Send, world
<1>11. ASSUME NEW c \in Client,
              SendPipe(c) \/ CloseAll(c) \/ SetComplete(c) \/ PthreadExit(c)
       PROVE  ThreadTypes'
  BY <1>1, <1>11 DEF ThreadTypes, SendPipe, CloseAll, SetComplete, PthreadExit, world,
                     server, conn
<1>13. ASSUME NEW c \in Client, Unlock(c) PROVE ThreadTypes'
  <2>1. <<>> \in Seq(Byte) /\ reply' = [reply EXCEPT ![c] = <<>>]
    BY <1>13, EmptySeq DEF Unlock
  <2>2. reply' \in [Client -> Seq(Byte)]
    BY <1>1, <2>1 DEF ThreadTypes
  <2>3. start' \in [Client -> Nat]
    BY <1>1, <1>13 DEF ThreadTypes, Unlock
  <2>4. tpc' \in [Client -> ThreadPlace] /\ did' \in [Client -> {"none", "write", "part", "seek"}]
    BY <1>1, <1>13 DEF ThreadTypes, Unlock
  <2>. QED  BY <1>1, <1>13, <2>2, <2>3, <2>4 DEF ThreadTypes, Unlock, Unlocked, world
<1>12. CASE UNCHANGED vars
  BY <1>1, <1>12 DEF ThreadTypes, vars, world, server, conn
<1>. QED  BY <1>2, <1>3, <1>4, <1>5, <1>6, <1>7, <1>8, <1>9, <1>10, <1>11, <1>12, <1>13
          DEF Next, MainStep, ThreadStep

(* Who changes the device.                                                 *)
LEMMA DeviceUsers ==
  ASSUME [Next]_vars
  PROVE  \/ UNCHANGED device
         \/ \E c \in Client :
              OpenDevice(c) \/ WritePacket(c) \/ SeekPacket(c) \/ ReadData(c)
                \/ CloseAll(c)
BY DEF Next, MainStep, ThreadStep, vars, world, server, main, conn, Startup, Test,
       EnterAccept, Accept, CreateThread, Scan, Join, Shutdown, Exit, signal_handler,
       Connect, SendLine, Leave, Recv, Lock, WriteKills, AllocLine, ReadFails, Send,
       SendPipe, Unlock, SetComplete, PthreadExit

(* The device.                                                             *)
LEMMA NextDeviceTypes == IInv /\ [Next]_vars => DeviceTypes'
<1> SUFFICES ASSUME IInv, [Next]_vars PROVE DeviceTypes'
  OBVIOUS
<1>1. DeviceTypes
  BY DEF IInv
<1>2. ASSUME UNCHANGED device PROVE DeviceTypes'
  BY <1>1, <1>2 DEF DeviceTypes, device
<1>3. ASSUME NEW c \in Client, OpenDevice(c) PROVE DeviceTypes'
  <2>1. CASE Device!Open(c)
    <3>1. ret' \in [p : Client \cup {NULL}, value : Int, data : Seq(Byte)]
      BY <2>1, EmptySeq DEF Device!Open, Device!Returns
    <3>. QED  BY <1>1, <2>1, <3>1 DEF DeviceTypes, Device!Open
  <2>. QED  BY <1>2, <1>3, <2>1 DEF OpenDevice
<1>4. ASSUME NEW c \in Client, WritePacket(c) PROVE DeviceTypes'
  <2>1. <<c, NL>> \in Seq(Byte) /\ <<c>> \in Seq(Byte) /\ <<c, NL>> # <<>> /\ <<c>> # <<>>
    BY DEF Byte
  <2>2. ASSUME Device!WriteNothing(c) PROVE DeviceTypes'
    <3>1. ret' \in [p : Client \cup {NULL}, value : Int, data : Seq(Byte)]
      BY <2>2, EmptySeq DEF Device!WriteNothing, Device!Returns
    <3>. QED  BY <1>1, <2>2, <3>1 DEF Device!WriteNothing, DeviceTypes
  <2>. QED  BY <1>1, <1>2, <1>4, <2>1, <2>2, WriteFacts DEF WritePacket
<1>5. ASSUME NEW c \in Client, SeekPacket(c) PROVE DeviceTypes'
  BY <1>1, <1>2, <1>5, SeekFacts DEF SeekPacket
<1>6. ASSUME NEW c \in Client, ReadData(c) PROVE DeviceTypes'
  BY <1>1, <1>2, <1>6, ReadFacts DEF ReadData
<1>7. ASSUME NEW c \in Client, CloseAll(c) PROVE DeviceTypes'
  BY <1>1, <1>7 DEF DeviceTypes, CloseAll, Device!Close
<1>. QED  BY <1>2, <1>3, <1>4, <1>5, <1>6, <1>7, DeviceUsers

(* accept and open take a descriptor only when one is free, counting the   *)
(* one a waiting accept has reserved.                                      *)
LEMMA NextDescriptorTypes == IInv /\ [Next]_vars => DescriptorTypes'
<1> SUFFICES ASSUME IInv, [Next]_vars PROVE DescriptorTypes'
  OBVIOUS
<1> DEFINE n == Cardinality(fds)
<1>1. MainTypes /\ DescriptorTypes /\ maxfd \in Nat
  BY DEF IInv, MainTypes
<1>2. n \in Nat
  BY <1>1, FS_CardinalityType DEF DescriptorTypes
<1>3. ASSUME UNCHANGED <<fds, maxfd>>, mpc' = "accepting" => mpc = "accepting"
      PROVE  DescriptorTypes'
  BY <1>1, <1>2, <1>3 DEF DescriptorTypes, FdsInUse
<1>4. ASSUME NEW x \in {"socket", "device"} \X Client, fds' = fds \cup {x}
      PROVE  /\ fds' \subseteq {"socket", "device"} \X Client /\ IsFiniteSet(fds')
             /\ Cardinality(fds') \in Nat /\ Cardinality(fds') <= n + 1
  <2>1. /\ IsFiniteSet(fds \cup {x})
        /\ Cardinality(fds \cup {x}) = IF x \in fds THEN n ELSE n + 1
    BY <1>1, FS_AddElement DEF DescriptorTypes
  <2>2. Cardinality(fds') \in Nat /\ Cardinality(fds') <= n + 1
    BY <1>2, <1>4, <2>1
  <2>. QED  BY <1>1, <1>4, <2>1, <2>2 DEF DescriptorTypes
<1>5. ASSUME NEW c \in Client, Connect(c) \/ SendLine(c) \/ Leave(c)
      PROVE  DescriptorTypes'
  BY <1>3, <1>5 DEF Connect, SendLine, Leave, main, server
<1>6. CASE signal_handler \/ Startup \/ Test \/ CreateThread \/ Scan \/ Join
           \/ Shutdown \/ Exit
  BY <1>3, <1>6 DEF signal_handler, Startup, Test, CreateThread, Scan, Join, Shutdown,
                    Exit, MainGoes, NextIteration, server
<1>7. CASE EnterAccept
  <2>1. fds' = fds /\ maxfd' = maxfd /\ mpc = "accept"
    BY <1>7 DEF EnterAccept, MainGoes, server
  <2>2. CASE mpc' = "accepting"
    <3>1. FdsInUse < maxfd
      BY <1>7, <2>2 DEF EnterAccept, MainGoes
    <3>2. FdsInUse = n
      BY <1>2, <2>1 DEF FdsInUse
    <3>3. FdsInUse' = n + 1
      BY <2>1, <2>2 DEF FdsInUse
    <3>. QED  BY <1>1, <1>2, <2>1, <3>1, <3>2, <3>3 DEF DescriptorTypes
  <2>. QED  BY <1>3, <2>1, <2>2
<1>8. CASE Accept
  <2> DEFINE x == <<"socket", Head(backlog)>>
  <2>1. mpc = "accepting" /\ mpc' = "create" /\ maxfd' = maxfd /\ fds' = fds \cup {x}
    BY <1>8 DEF Accept, MainGoes
  <2>2. x \in {"socket", "device"} \X Client
    BY <1>1, <1>8, HeadTailProperties DEF Accept, MainTypes
  <2>. HIDE DEF x
  <2>3. FdsInUse = n + 1 /\ FdsInUse' = Cardinality(fds') + 0
    BY <2>1 DEF FdsInUse
  <2>. QED  BY <1>1, <1>2, <1>4, <2>1, <2>2, <2>3 DEF DescriptorTypes
<1>9. ASSUME NEW c \in Client, OpenDevice(c) PROVE DescriptorTypes'
  <2>1. mpc' = mpc /\ maxfd' = maxfd
    BY <1>9 DEF OpenDevice, world, main
  <2>2. CASE FdsInUse < maxfd /\ fds' = fds \cup {<<"device", c>>}
    <3>1. <<"device", c>> \in {"socket", "device"} \X Client
      OBVIOUS
    <3>2. /\ fds' \subseteq {"socket", "device"} \X Client /\ IsFiniteSet(fds')
          /\ Cardinality(fds') \in Nat /\ Cardinality(fds') <= n + 1
      BY <1>4, <2>2, <3>1
    <3>3. FdsInUse' <= FdsInUse + 1 /\ FdsInUse' \in Nat /\ FdsInUse \in Nat
      BY <1>2, <2>1, <3>2 DEF FdsInUse
    <3>. QED  BY <1>1, <2>1, <2>2, <3>2, <3>3 DEF DescriptorTypes
  <2>. QED  BY <1>3, <1>9, <2>1, <2>2 DEF OpenDevice
<1>10. ASSUME NEW c \in Client, CloseAll(c) PROVE DescriptorTypes'
  <2>1. mpc' = mpc /\ maxfd' = maxfd /\ fds' \subseteq fds
    BY <1>10 DEF CloseAll, world, main
  <2>2. IsFiniteSet(fds') /\ Cardinality(fds') \in Nat /\ Cardinality(fds') <= n
    BY <1>1, <2>1, FS_Subset, FS_CardinalityType DEF DescriptorTypes
  <2>3. FdsInUse' <= FdsInUse /\ FdsInUse' \in Nat /\ FdsInUse \in Nat
    BY <1>2, <2>1, <2>2 DEF FdsInUse
  <2>. QED  BY <1>1, <2>1, <2>2, <2>3 DEF DescriptorTypes
<1>11. ASSUME NEW c \in Client,
              \/ Recv(c) \/ Lock(c) \/ WritePacket(c) \/ WriteKills(c) \/ SeekPacket(c)
              \/ AllocLine(c) \/ ReadData(c) \/ ReadFails(c) \/ Send(c) \/ SendPipe(c)
              \/ Unlock(c) \/ SetComplete(c) \/ PthreadExit(c)
       PROVE  DescriptorTypes'
  BY <1>3, <1>11 DEF Recv, Lock, WritePacket, WriteKills, SeekPacket, AllocLine, ReadData,
                     ReadFails, Send, SendPipe, Unlock, SetComplete, PthreadExit, world,
                     main, server
<1>12. CASE UNCHANGED vars
  BY <1>3, <1>12 DEF vars, world, main, server
<1>. QED  BY <1>5, <1>6, <1>7, <1>8, <1>9, <1>10, <1>11, <1>12
          DEF Next, MainStep, ThreadStep

----------------------------------------------------------------------------
(* Mutual exclusion.                                                       *)

(* Only the owner of file_mutex unlocks it, and it is taken and destroyed  *)
(* only when it is free.                                                   *)
LEMMA NextExcluded == IInv /\ [Next]_vars => Excluded'
<1> SUFFICES ASSUME IInv, [Next]_vars, NEW u \in Client, tpc'[u] \in Critical
             PROVE  file_mutex' = u
  BY DEF Excluded
<1> USE DEF At, Goto
<1>1. ThreadTypes /\ Excluded
  BY DEF IInv
<1>2. ASSUME file_mutex' = file_mutex, tpc'[u] = tpc[u] \/ tpc[u] \in Critical
      PROVE  file_mutex' = u
  BY <1>1, <1>2 DEF Excluded
<1>3. ASSUME NEW c \in Client, Connect(c) \/ SendLine(c) \/ Leave(c)
      PROVE  file_mutex' = u
  BY <1>2, <1>3 DEF Connect, SendLine, Leave, server
<1>4. CASE signal_handler \/ Startup \/ Test \/ EnterAccept \/ Accept \/ Scan \/ Join
           \/ Shutdown
  BY <1>2, <1>4 DEF signal_handler, Startup, Test, EnterAccept, Accept, Scan, Join,
                    Shutdown, server
<1>5. CASE CreateThread
  <2>1. tpc'[u] # tpc[u] => tpc'[u] = "recv"
    BY <1>1, <1>5 DEF CreateThread, ThreadTypes
  <2>2. tpc'[u] = tpc[u]
    BY <2>1 DEF Critical
  <2>. QED  BY <1>2, <1>5, <2>2 DEF CreateThread
<1>6. CASE Exit
  BY <1>1, <1>2, <1>6 DEF Exit, Excluded
<1>7. ASSUME NEW c \in Client, Recv(c) PROVE file_mutex' = u
  <2>1. tpc'[u] = tpc[u]
    BY <1>1, <1>7 DEF Recv, ThreadTypes, Critical
  <2>. QED  BY <1>2, <1>7, <2>1 DEF Recv
<1>8. ASSUME NEW c \in Client, Lock(c) PROVE file_mutex' = u
  <2>1. CASE Free /\ file_mutex' = c /\ tpc' = [tpc EXCEPT ![c] = "open"]
    <3>1. \A d \in Client : tpc[d] \notin Critical
      BY <1>1, <2>1 DEF Excluded, Free
    <3>. QED  BY <1>1, <2>1, <3>1 DEF ThreadTypes
  <2>2. CASE file_mutex' = file_mutex /\ tpc' = [tpc EXCEPT ![c] = "flag"]
    <3>1. tpc'[u] = tpc[u]
      BY <1>1, <2>2 DEF ThreadTypes, Critical
    <3>. QED  BY <1>2, <2>2, <3>1
  <2>. QED  BY <1>8, <2>1, <2>2 DEF Lock
<1>9. ASSUME NEW c \in Client,
             \/ OpenDevice(c) \/ WritePacket(c) \/ WriteKills(c) \/ SeekPacket(c)
             \/ AllocLine(c) \/ ReadData(c) \/ ReadFails(c) \/ Send(c) \/ CloseAll(c)
      PROVE  file_mutex' = u
  <2>1. tpc[c] \in Critical /\ file_mutex' = file_mutex
    BY <1>9 DEF OpenDevice, WritePacket, WriteKills, SeekPacket, AllocLine, ReadData,
                ReadFails, Send, CloseAll, Critical
  <2>2. u # c => tpc'[u] = tpc[u]
    BY <1>1, <1>9 DEF OpenDevice, WritePacket, WriteKills, SeekPacket, AllocLine,
                      ReadData, ReadFails, Send, CloseAll, ThreadTypes
  <2>. QED  BY <1>2, <2>1, <2>2
<1>10. ASSUME NEW c \in Client, Unlock(c) PROVE file_mutex' = u
  <2>1. file_mutex = c /\ tpc'[c] = "flag" /\ (u # c => tpc'[u] = tpc[u])
    BY <1>1, <1>10 DEF Unlock, ThreadTypes, Excluded, Critical
  <2>2. u # c
    BY <2>1 DEF Critical
  <2>. QED  BY <1>1, <2>1, <2>2 DEF Excluded
<1>11. ASSUME NEW c \in Client, SetComplete(c) \/ PthreadExit(c) PROVE file_mutex' = u
  <2>1. tpc'[u] = tpc[u]
    BY <1>1, <1>11 DEF SetComplete, PthreadExit, ThreadTypes, Critical
  <2>. QED  BY <1>2, <1>11, <2>1 DEF SetComplete, PthreadExit
<1>12. ASSUME NEW c \in Client, SendPipe(c) PROVE file_mutex' = u
  BY <1>2, <1>12 DEF SendPipe, server
<1>13. CASE UNCHANGED vars
  BY <1>2, <1>13 DEF vars, server
<1>. QED  BY <1>3, <1>4, <1>5, <1>6, <1>7, <1>8, <1>9, <1>10, <1>11, <1>12, <1>13
          DEF Next, MainStep, ThreadStep

----------------------------------------------------------------------------
(* The thread records.                                                     *)

(* The part of Records that speaks of one client.                          *)
RecordOf(c) ==
  /\ peer[c] = "away" => ~Queued(c) /\ ~Listed(c) /\ c \notin freed /\ tpc[c] = "none"
  /\ Queued(c) => ~Listed(c) /\ c \notin freed /\ tpc[c] = "none"
  /\ c \in freed => tpc[c] = "exited" /\ ~Listed(c)
  /\ tpc[c] # "none" => c \in freed \/ Listed(c)

(* The part that speaks of main.                                           *)
MainRecords ==
  /\ NoRepeats(head)
  /\ NoRepeats(backlog)
  /\ mpc = "create" => head # <<>> /\ Head(head) = newSockfd /\ tpc[newSockfd] = "none"
  /\ mpc \in {"scan", "join"} => datap = NULL \/ Listed(datap)
  /\ mpc = "join" => datap # NULL

(* A thread moves only itself, never back to its creation, and from its    *)
(* exit nowhere.                                                           *)
LEMMA ThreadMoves ==
  ASSUME ThreadTypes, NEW c \in Client, ThreadStep(c)
  PROVE  /\ tpc[c] \notin {"none", "exited"}
         /\ tpc'[c] # "none"
         /\ \A u \in Client \ {c} : tpc'[u] = tpc[u]
<1> USE DEF At, Goto, ThreadTypes
<1>1. CASE Recv(c) \/ Lock(c) \/ OpenDevice(c)
  BY <1>1 DEF Recv, Lock, OpenDevice
<1>2. CASE \/ WritePacket(c) \/ WriteKills(c) \/ SeekPacket(c) \/ AllocLine(c)
           \/ ReadData(c) \/ ReadFails(c)
  BY <1>2 DEF WritePacket, WriteKills, SeekPacket, AllocLine, ReadData, ReadFails
<1>3. CASE Send(c) \/ CloseAll(c) \/ Unlock(c) \/ SetComplete(c) \/ PthreadExit(c)
  BY <1>3 DEF Send, CloseAll, Unlock, SetComplete, PthreadExit
<1>4. CASE SendPipe(c)
  BY <1>4 DEF SendPipe, server
<1>. QED  BY <1>1, <1>2, <1>3, <1>4 DEF ThreadStep

(* SLIST_INSERT_HEAD comes before pthread_create and pthread_join before   *)
(* SLIST_REMOVE and free, and a connection is accepted once.               *)
LEMMA NextRecords == IInv /\ [Next]_vars => Records'
<1> SUFFICES ASSUME IInv, [Next]_vars PROVE Records'
  OBVIOUS
<1>1. /\ MainTypes /\ ThreadTypes
      /\ MainRecords /\ \A c \in Client : RecordOf(c)
  BY DEF IInv, Records, MainRecords, RecordOf
<1>2. SUFFICES MainRecords' /\ \A c \in Client : RecordOf(c)'
  BY DEF Records, MainRecords, RecordOf
<1>3. ASSUME UNCHANGED <<head, backlog, freed>>,
             \A c \in Client : peer'[c] = "away" => peer[c] = "away",
             tpc' = tpc
      PROVE  \A c \in Client : RecordOf(c)'
  BY <1>1, <1>3 DEF RecordOf, Queued, Listed
<1>4. ASSUME UNCHANGED <<head, backlog, newSockfd, datap, tpc>>,
             mpc' = mpc \/ mpc' \notin {"create", "scan", "join"}
      PROVE  MainRecords'
  BY <1>1, <1>4 DEF MainRecords, Listed
<1>5. ASSUME NEW t \in Client, ThreadStep(t)
      PROVE  MainRecords' /\ \A c \in Client : RecordOf(c)'
  <2>1. /\ UNCHANGED <<backlog, head, datap, newSockfd, freed, peer>>
        /\ mpc' = mpc \/ mpc' = "killed"
    BY <1>5, ThreadsLeaveWorld
  <2>2. /\ tpc[t] \notin {"none", "exited"} /\ tpc'[t] # "none"
        /\ \A u \in Client \ {t} : tpc'[u] = tpc[u]
    BY <1>1, <1>5, ThreadMoves
  <2>3. \A c \in Client : RecordOf(c)'
    BY <1>1, <2>1, <2>2 DEF RecordOf, Queued, Listed
  <2>4. mpc = "create" => newSockfd \in Client \ {t}
    <3>1. mpc = "create" => newSockfd \in Client
      BY <1>1, HeadTailProperties DEF MainRecords, MainTypes
    <3>. QED  BY <1>1, <2>2, <3>1 DEF MainRecords
  <2>5. MainRecords'
    BY <1>1, <2>1, <2>2, <2>4 DEF MainRecords, Listed
  <2>. QED  BY <2>3, <2>5
<1>6. ASSUME NEW c \in Client, Connect(c)
      PROVE  MainRecords' /\ \A u \in Client : RecordOf(u)'
  <2> DEFINE n == Len(backlog)
  <2>1. /\ backlog' = Append(backlog, c) /\ peer[c] = "away"
        /\ peer' = [peer EXCEPT ![c] = "sending"]
        /\ UNCHANGED <<mpc, head, datap, newSockfd, freed, tpc>>
    BY <1>6 DEF Connect
  <2>2. n \in Nat /\ DOMAIN backlog = 1 .. n
    BY <1>1, LenProperties DEF MainTypes
  <2>3. /\ DOMAIN backlog' = 1 .. n + 1 /\ backlog'[n + 1] = c
        /\ \A i \in 1 .. n : backlog'[i] = backlog[i]
    <3>1. Append(backlog, c) \in Seq(Client) /\ Len(Append(backlog, c)) = n + 1
      BY <1>1, AppendProperties DEF MainTypes
    <3>2. DOMAIN Append(backlog, c) = 1 .. n + 1
      BY <3>1, LenProperties
    <3>. QED  BY <1>1, <2>1, <2>2, <3>2, AppendProperties DEF MainTypes
  <2>. HIDE DEF n
  <2>4. \A i \in 1 .. n : backlog[i] # c
    BY <1>1, <2>1, <2>2 DEF RecordOf, Queued
  <2>5. NoRepeats(backlog')
    <3> SUFFICES ASSUME NEW i \in 1 .. n + 1, NEW j \in 1 .. n + 1,
                        backlog'[i] = backlog'[j]
                 PROVE  i = j
      BY <2>3 DEF NoRepeats
    <3>1. /\ i = n + 1 \/ i \in 1 .. n
          /\ j = n + 1 \/ j \in 1 .. n
      BY <2>2
    <3>. QED  BY <1>1, <2>2, <2>3, <2>4, <3>1 DEF MainRecords, NoRepeats
  <2>6. MainRecords'
    BY <1>1, <2>1, <2>5 DEF MainRecords, Listed
  <2>7. \A u \in Client : Queued(u)' <=> u = c \/ Queued(u)
    <3>1. /\ n + 1 \in 1 .. n + 1
          /\ \A i \in 1 .. n + 1 : i = n + 1 \/ i \in 1 .. n
          /\ \A i \in 1 .. n : i \in 1 .. n + 1
      BY <2>2
    <3>. QED  BY <2>2, <2>3, <3>1 DEF Queued
  <2>8. \A u \in Client : peer'[u] = "away" => peer[u] = "away" /\ u # c
    BY <1>1, <2>1 DEF ThreadTypes
  <2>9. \A u \in Client : Listed(u)' <=> Listed(u)
    BY <2>1 DEF Listed
  <2>10. \A u \in Client : RecordOf(u)'
    BY <1>1, <2>1, <2>7, <2>8, <2>9 DEF RecordOf
  <2>. QED  BY <2>6, <2>10
<1>7. ASSUME NEW c \in Client, SendLine(c) \/ Leave(c)
      PROVE  MainRecords' /\ \A u \in Client : RecordOf(u)'
  <2>1. \A u \in Client : peer'[u] = "away" => peer[u] = "away"
    BY <1>1, <1>7 DEF SendLine, Leave, ThreadTypes
  <2>2. UNCHANGED <<mpc, head, backlog, freed, newSockfd, datap, tpc>>
    BY <1>7 DEF SendLine, Leave, main, server
  <2>. QED  BY <1>3, <1>4, <2>1, <2>2
<1>8. CASE signal_handler
  <2>1. UNCHANGED <<head, backlog, freed, datap, tpc, peer>>
    BY <1>8 DEF signal_handler, server
  <2>2. \/ mpc' = mpc /\ newSockfd' = newSockfd
        \/ mpc' \in {"killed", "test"}
    BY <1>8 DEF signal_handler
  <2>. QED  BY <1>1, <1>3, <2>1, <2>2 DEF MainRecords, Listed
<1>9. CASE Startup \/ Test \/ EnterAccept \/ Shutdown \/ Exit
  <2>1. /\ UNCHANGED <<head, backlog, freed, datap, tpc, peer>>
        /\ mpc' \notin {"create", "scan", "join"}
    BY <1>9 DEF Startup, Test, EnterAccept, Shutdown, Exit, MainGoes, NextIteration,
                server
  <2>. QED  BY <1>1, <1>3, <2>1 DEF MainRecords
<1>10. CASE Accept
  <2> DEFINE x == Head(backlog)
  <2>1. /\ backlog # <<>> /\ backlog' = Tail(backlog) /\ newSockfd' = x
        /\ head' = <<x>> \o head /\ mpc' = "create"
        /\ UNCHANGED <<freed, tpc, peer>>
    BY <1>10 DEF Accept, MainGoes
  <2>2. /\ x \in Client /\ Queued(x)
    <3>1. backlog \in Seq(Client) /\ Len(backlog) \in Nat /\ Len(backlog) # 0
          /\ DOMAIN backlog = 1 .. Len(backlog)
      BY <1>1, <2>1, LenProperties, EmptySeq DEF MainTypes
    <3>2. 1 \in DOMAIN backlog /\ backlog[1] = x /\ x \in Client
      BY <2>1, <3>1, HeadTailProperties
    <3>. QED  BY <3>2 DEF Queued
  <2>3. ~Listed(x) /\ x \notin freed /\ tpc[x] = "none" /\ peer[x] # "away"
    BY <1>1, <2>2 DEF RecordOf
  <2>4. /\ NoRepeats(backlog') /\ NoRepeats(head')
        /\ head' # <<>> /\ Head(head') = x
        /\ \A c : (\E i \in DOMAIN backlog' : backlog'[i] = c)
                    <=> c # x /\ \E i \in DOMAIN backlog : backlog[i] = c
        /\ \A c : (\E i \in DOMAIN head' : head'[i] = c)
                    <=> c = x \/ \E i \in DOMAIN head : head[i] = c
    <3>1. /\ NoRepeats(backlog) /\ NoRepeats(head)
          /\ ~Occurs(head, x)
      BY <1>1, <2>3 DEF MainRecords, Listed, Occurs
    <3> DEFINE t == Tail(backlog)
               g == <<x>> \o head
    <3>2. backlog \in Seq(Client) /\ head \in Seq(Client) /\ backlog # <<>>
      BY <1>1, <2>1 DEF MainTypes
    <3>3. /\ NoRepeats(t) /\ NoRepeats(g) /\ g # <<>> /\ Head(g) = x
          /\ \A c : Occurs(t, c) <=> c # x /\ Occurs(backlog, c)
          /\ \A c : Occurs(g, c) <=> c = x \/ Occurs(head, c)
      BY <3>1, <3>2, AcceptFacts
    <3>4. backlog' = t /\ head' = g
      BY <2>1
    <3>. HIDE DEF t, g
    <3>. QED  BY <3>3, <3>4 DEF Occurs
  <2>. HIDE DEF x
  <2>5. \A c : (Queued(c)' <=> c # x /\ Queued(c)) /\ (Listed(c)' <=> c = x \/ Listed(c))
    BY <2>4 DEF Queued, Listed
  <2>6. \A c \in Client : RecordOf(c)'
    BY <1>1, <2>1, <2>3, <2>5 DEF RecordOf
  <2>7. MainRecords'
    BY <2>1, <2>3, <2>4 DEF MainRecords
  <2>. QED  BY <2>6, <2>7
<1>11. CASE CreateThread
  <2>1. UNCHANGED <<head, backlog, freed, newSockfd, peer>> /\ mpc = "create"
    BY <1>11 DEF CreateThread, MainGoes
  <2>2. head # <<>> /\ Head(head) = newSockfd /\ tpc[newSockfd] = "none"
    BY <1>1, <2>1 DEF MainRecords
  <2>3. newSockfd \in Client /\ Listed(newSockfd)
    <3>1. head \in Seq(Client) /\ Len(head) \in Nat /\ Len(head) # 0
          /\ DOMAIN head = 1 .. Len(head)
      BY <1>1, <2>2, LenProperties, EmptySeq DEF MainTypes
    <3>2. 1 \in DOMAIN head /\ head[1] = Head(head) /\ Head(head) \in Client
      BY <2>2, <3>1, HeadTailProperties
    <3>. QED  BY <2>2, <3>2 DEF Listed
  <2>4. CASE /\ mpc' = "scan" /\ datap' = Head(head)
             /\ tpc' = [tpc EXCEPT ![newSockfd] = "recv"]
    <3>1. /\ tpc'[newSockfd] = "recv"
          /\ \A u \in Client \ {newSockfd} : tpc'[u] = tpc[u]
      BY <1>1, <2>3, <2>4 DEF ThreadTypes
    <3>2. \A c \in Client : RecordOf(c)'
      BY <1>1, <2>1, <2>2, <2>3, <3>1 DEF RecordOf, Queued, Listed
    <3>3. MainRecords'
      BY <1>1, <2>1, <2>2, <2>3, <2>4 DEF MainRecords, Listed
    <3>. QED  BY <3>2, <3>3
  <2>5. CASE mpc' = "test" /\ UNCHANGED <<tpc, datap>>
    BY <1>3, <1>4, <2>1, <2>5
  <2>. QED  BY <1>11, <2>4, <2>5 DEF CreateThread, MainGoes
<1>12. ASSUME mpc \in {"scan", "join"}, datap # NULL
      PROVE  /\ datap \in Client /\ Listed(datap)
             /\ Place(datap) \in 1 .. Len(head) /\ head[Place(datap)] = datap
             /\ Successor(datap) # NULL =>
                  Listed(Successor(datap)) /\ Successor(datap) # datap
  BY <1>1, <1>12, SuccessorFacts DEF MainRecords, MainTypes
<1>13. CASE Scan
  <2>1. UNCHANGED <<head, backlog, freed, newSockfd, peer, tpc>>
    BY <1>13 DEF Scan, server
  <2>2. \/ mpc' = "test"
        \/ mpc' = "join" /\ datap' = datap /\ datap # NULL /\ mpc = "scan"
        \/ mpc' = "scan" /\ datap # NULL /\ datap' = Successor(datap) /\ mpc = "scan"
    BY <1>13 DEF Scan, MainGoes
  <2>3. MainRecords'
    BY <1>1, <1>12, <2>1, <2>2 DEF MainRecords, Listed
  <2>. QED  BY <1>3, <2>1, <2>3
<1>14. CASE Join
  <2>1. /\ mpc = "join" /\ mpc' = "scan" /\ tpc[datap] = "exited"
        /\ head' = RemoveAt(head, Place(datap)) /\ freed' = freed \cup {datap}
        /\ datap' = Successor(datap)
        /\ UNCHANGED <<backlog, newSockfd, peer, tpc>>
    BY <1>14 DEF Join, MainGoes, Joined, Unlinked, server
  <2>2. datap # NULL
    BY <1>1, <2>1 DEF MainRecords
  <2>3. /\ datap \in Client /\ Listed(datap)
        /\ Place(datap) \in 1 .. Len(head) /\ head[Place(datap)] = datap
        /\ Successor(datap) # NULL =>
             Listed(Successor(datap)) /\ Successor(datap) # datap
    BY <1>12, <2>1, <2>2
  <2>4. /\ NoRepeats(head')
        /\ \A c : (\E i \in DOMAIN head' : head'[i] = c)
                    <=> c # datap /\ \E i \in DOMAIN head : head[i] = c
    <3> DEFINE k == Place(datap)
               r == RemoveAt(head, k)
    <3>1. head \in Seq(Client) /\ NoRepeats(head) /\ k \in 1 .. Len(head)
      BY <1>1, <2>3 DEF MainTypes, MainRecords
    <3>. HIDE DEF k
    <3>2. /\ NoRepeats(r)
          /\ \A c : (\E i \in DOMAIN r : r[i] = c)
                      <=> c # head[k] /\ \E i \in DOMAIN head : head[i] = c
      BY <3>1, RemoveAtFacts
    <3>3. head' = r /\ head[k] = datap
      BY <2>1, <2>3 DEF k
    <3>. HIDE DEF r
    <3>. QED  BY <3>2, <3>3
  <2>5. \A c : Listed(c)' <=> c # datap /\ Listed(c)
    BY <2>4 DEF Listed
  <2>6. \A c \in Client : Queued(c)' <=> Queued(c)
    BY <2>1 DEF Queued
  <2>7. \A c \in Client : RecordOf(c)'
    BY <1>1, <2>1, <2>3, <2>5, <2>6 DEF RecordOf
  <2>8. datap' = NULL \/ \E i \in DOMAIN head' : head'[i] = datap'
    BY <2>1, <2>3, <2>4 DEF Listed
  <2>9. MainRecords'
    BY <1>1, <2>1, <2>4, <2>8 DEF MainRecords, Listed
  <2>. QED  BY <2>7, <2>9
<1>15. CASE UNCHANGED vars
  BY <1>3, <1>4, <1>15 DEF vars, world, main, server
<1>. QED  BY <1>5, <1>6, <1>7, <1>8, <1>9, <1>10, <1>11, <1>13, <1>14, <1>15
          DEF Next, MainStep

----------------------------------------------------------------------------
(* What a client is sent.                                                  *)

(* What is appended to a sequence is its suffix.                           *)
LEMMA AppendedIsSuffix ==
  ASSUME NEW S, NEW a \in Seq(S), NEW b \in Seq(S)
  PROVE  IsSuffix(b, a \o b)
<1> DEFINE t == a \o b
<1>1. Len(a) \in Nat /\ Len(b) \in Nat
  BY LenProperties
<1>2. t \in Seq(S) /\ Len(t) = Len(a) + Len(b)
  BY ConcatProperties
<1>3. \A i \in 1 .. Len(b) : t[Len(a) + i] = b[i]
  <2> TAKE i \in 1 .. Len(b)
  <2>1. Len(a) + i \in Len(a) + 1 .. Len(a) + Len(b) /\ (Len(a) + i) - Len(a) = i
    BY <1>1
  <2>. QED  BY <2>1, ConcatProperties
<1>. HIDE DEF t
<1>4. Len(b) <= Len(t) /\ Len(t) - Len(b) = Len(a)
  BY <1>1, <1>2
<1>5. IsSuffix(b, t)
  BY <1>2, <1>3, <1>4, SuffixByIndex
<1>. QED  BY <1>5 DEF t

(* After the write of its line the device ends with that line.             *)
LEMMA WriteEndsWithLine ==
  ASSUME DeviceTypes, NEW c \in Client, Device!Write(c, <<c, NL>>)
  PROVE  IsSuffix(<<c, NL>>, FlattenSeq(log'))
<1> DEFINE x == <<c, NL>>
<1>1. x \in Seq(Byte) /\ x # <<>> /\ Last(x) = NL
  BY DEF Byte, Last
<1>. HIDE DEF x
<1>2. PICK l \in Seq(Seq(Byte)) : log' = Append(l, partial \o x)
  BY <1>1, WriteFacts DEF x
<1>3. partial \in Seq(Byte) /\ partial \o x \in Seq(Byte) /\ FlattenSeq(l) \in Seq(Byte)
  BY <1>1, FlattenType, ConcatProperties DEF DeviceTypes
<1>4. FlattenSeq(log') = FlattenSeq(l) \o (partial \o x)
  BY <1>2, <1>3, FlattenAppend
<1>5. FlattenSeq(l) \o (partial \o x) = (FlattenSeq(l) \o partial) \o x
  BY <1>1, <1>3, ConcatAssociative
<1>6. FlattenSeq(l) \o partial \in Seq(Byte)
  BY <1>3, ConcatProperties
<1>7. IsSuffix(x, (FlattenSeq(l) \o partial) \o x)
  BY <1>1, <1>6, AppendedIsSuffix
<1>. QED  BY <1>4, <1>5, <1>7 DEF x

(* Two adjacent parts of the device's contents make one.                   *)
LEMMA AdjacentParts ==
  ASSUME DeviceTypes, NEW i \in Nat, NEW j \in Nat, NEW k \in Nat,
         i <= j, j <= k, k <= Len(FlattenSeq(log))
  PROVE  SubSeq(FlattenSeq(log), i + 1, j) \o SubSeq(FlattenSeq(log), j + 1, k)
           = SubSeq(FlattenSeq(log), i + 1, k)
<1> DEFINE all == FlattenSeq(log)
<1>1. all \in Seq(Byte) /\ Len(all) \in Nat
  BY FlattenType, LenProperties DEF DeviceTypes
<1>2. k <= Len(all)
  OBVIOUS
<1>. HIDE DEF all
<1>3. i + 1 \in 1 .. Len(all) + 1 /\ j \in (i + 1) - 1 .. Len(all) /\ k \in j .. Len(all)
  BY <1>1, <1>2
<1>4. SubSeq(all, i + 1, j) \o SubSeq(all, j + 1, k) = SubSeq(all, i + 1, k)
  BY <1>1, <1>3, ConcatAdjacentSubSeq
<1>. QED  BY <1>4 DEF all

(* Nothing has been delivered to a thread that starts at its position.     *)
LEMMA NothingDelivered ==
  ASSUME NEW p \in Nat, NEW s
  PROVE  SubSeq(s, p + 1, p) = <<>>
<1>1. p + 1 \in Int /\ p \in Int /\ p < p + 1
  OBVIOUS
<1>. QED  BY <1>1, SubSeqEmpty

(* A thread that does not hold the mutex has sent nothing or is done; one  *)
(* that holds it finds the device as it left it.                           *)
LEMMA NextReplies == IInv /\ [Next]_vars => Replies'
<1> SUFFICES ASSUME IInv, [Next]_vars, NEW u \in Client PROVE ReplyOf(u)'
  BY DEF Replies
<1> USE DEF At, Goto
<1>1. /\ MainTypes /\ ThreadTypes /\ DeviceTypes /\ Excluded /\ ReplyOf(u)
      /\ MainRecords
  BY DEF IInv, Replies, Records, MainRecords
<1>2. ASSUME tpc'[u] = tpc[u], reply'[u] = reply[u], did'[u] = did[u],
             start'[u] = start[u], UNCHANGED device
      PROVE  ReplyOf(u)'
  BY <1>1, <1>2 DEF ReplyOf, Delivered, device
<1>3. ASSUME tpc'[u] = tpc[u], tpc[u] \notin Critical, reply'[u] = reply[u],
             start'[u] = start[u]
      PROVE  ReplyOf(u)'
  BY <1>1, <1>3 DEF ReplyOf, Critical
<1>4. ASSUME tpc'[u] \in {"killed", "flag", "unlock", "exiting", "exited"}
      PROVE  ReplyOf(u)'
  BY <1>4 DEF ReplyOf
<1>5. ASSUME tpc[u] \in {"none", "recv", "lock"}, tpc'[u] \in {"recv", "lock", "open"},
             reply'[u] = reply[u], start'[u] = start[u]
      PROVE  ReplyOf(u)'
  BY <1>1, <1>5 DEF ReplyOf
<1>6. ASSUME NEW c \in Client, Connect(c) \/ SendLine(c) \/ Leave(c)
      PROVE  ReplyOf(u)'
  BY <1>2, <1>6 DEF Connect, SendLine, Leave, server, conn
<1>7. CASE signal_handler \/ Startup \/ Test \/ EnterAccept \/ Accept \/ Scan \/ Join
           \/ Shutdown \/ Exit
  BY <1>2, <1>7 DEF signal_handler, Startup, Test, EnterAccept, Accept, Scan, Join,
                    Shutdown, Exit, server, conn
<1>8. CASE CreateThread
  <2>1. UNCHANGED <<reply, did, start, device>> /\ mpc = "create"
    BY <1>8 DEF CreateThread, MainGoes, conn
  <2>2. tpc[newSockfd] = "none"
    BY <1>1, <2>1 DEF MainRecords
  <2>3. tpc'[u] = tpc[u] \/ (u = newSockfd /\ tpc'[u] = "recv")
    BY <1>1, <1>8 DEF CreateThread, ThreadTypes
  <2>. QED  BY <1>2, <1>5, <2>1, <2>2, <2>3
<1>9. ASSUME NEW c \in Client, c # u, ThreadStep(c)
      PROVE  ReplyOf(u)'
  <2>1. tpc'[u] = tpc[u]
    BY <1>1, <1>9, ThreadMoves
  <2>2. CASE \/ OpenDevice(c) \/ WritePacket(c) \/ SeekPacket(c) \/ ReadData(c)
             \/ CloseAll(c)
    <3>1. tpc[c] \in Critical /\ reply' = reply /\ start'[u] = start[u]
      BY <1>1, <1>9, <2>2 DEF OpenDevice, WritePacket, SeekPacket, ReadData, CloseAll,
                  conn, Critical, ThreadTypes
    <3>2. tpc[u] \notin Critical
      BY <1>1, <1>9, <3>1 DEF Excluded
    <3>. QED  BY <1>3, <2>1, <3>1, <3>2
  <2>3. CASE \/ Recv(c) \/ Lock(c) \/ WriteKills(c) \/ AllocLine(c) \/ ReadFails(c)
             \/ SendPipe(c) \/ SetComplete(c) \/ PthreadExit(c)
    <3>1. UNCHANGED <<did, start, reply, device>>
      BY <2>3 DEF Recv, Lock, WriteKills, AllocLine, ReadFails, SendPipe, SetComplete,
                  PthreadExit, conn, server
    <3>. QED  BY <1>2, <2>1, <3>1
  <2>4. CASE Send(c) \/ Unlock(c)
    <3>1. /\ did'[u] = did[u] /\ start'[u] = start[u] /\ reply'[u] = reply[u]
          /\ UNCHANGED device
      BY <1>1, <1>9, <2>4 DEF Send, Unlock, ThreadTypes
    <3>. QED  BY <1>2, <2>1, <3>1
  <2>. QED  BY <1>9, <2>2, <2>3, <2>4 DEF ThreadStep
<1>10. CASE Recv(u) \/ Lock(u)
  <2>1. /\ tpc[u] \in {"recv", "lock"} /\ tpc'[u] \in {"lock", "open", "flag"}
        /\ UNCHANGED <<reply, start>>
    BY <1>1, <1>10 DEF Recv, Lock, ThreadTypes, conn
  <2>. QED  BY <1>4, <1>5, <2>1
<1>11. CASE OpenDevice(u)
  <2>1. CASE Device!Open(u) /\ tpc' = [tpc EXCEPT ![u] = "command"]
    <3>1. tpc[u] = "open" /\ tpc'[u] = "command" /\ UNCHANGED <<reply, start>>
      BY <1>1, <1>11, <2>1 DEF OpenDevice, ThreadTypes, conn
    <3>2. pos'[u] = 0
      BY <1>1, <2>1 DEF DeviceTypes, Device!Open
    <3>. QED  BY <1>1, <3>1, <3>2 DEF ReplyOf
  <2>2. CASE tpc' = [tpc EXCEPT ![u] = "unlock"]
    BY <1>1, <1>4, <2>2 DEF ThreadTypes
  <2>. QED  BY <1>11, <2>1, <2>2 DEF OpenDevice
<1>12. ASSUME tpc[u] = "command", tpc'[u] = "alloc", reply' = reply,
              pos'[u] \in Nat, pos'[u] <= Len(FlattenSeq(log')), start'[u] = pos'[u],
              did'[u] # "seek" => pos'[u] = 0,
              did'[u] = "write" => IsSuffix(<<u, NL>>, FlattenSeq(log'))
       PROVE  ReplyOf(u)'
  <2>1. reply'[u] = <<>>
    BY <1>1, <1>12 DEF ReplyOf
  <2>2. SubSeq(FlattenSeq(log'), pos'[u] + 1, pos'[u]) = <<>>
    BY <1>12, NothingDelivered
  <2>3. Delivered(u, reply[u])'
    BY <1>12, <2>1, <2>2 DEF Delivered
  <2>. QED  BY <1>12, <2>3 DEF ReplyOf
<1>13. CASE WritePacket(u)
  <2>0. /\ tpc[u] = "command" /\ pos[u] = 0 /\ start[u] = 0
        /\ UNCHANGED <<reply, start>>
    BY <1>1, <1>13 DEF WritePacket, ReplyOf
  <2>1. ASSUME NEW x \in Seq(Byte), x # <<>>, Device!Write(u, x)
        PROVE  DeviceTypes' /\ pos'[u] = 0 /\ 0 <= Len(FlattenSeq(log'))
    <3>1. DeviceTypes' /\ pos' = pos
      BY <1>1, <2>1, WriteFacts
    <3>2. FlattenSeq(log') \in Seq(Byte)
      BY <3>1, FlattenType DEF DeviceTypes
    <3>3. Len(FlattenSeq(log')) \in Nat
      BY <3>2, LenProperties
    <3>. QED  BY <2>0, <3>1, <3>3
  <2>2. CASE /\ Device!Write(u, <<u, NL>>) /\ did' = [did EXCEPT ![u] = "write"]
             /\ tpc' = [tpc EXCEPT ![u] = "alloc"]
    <3>1. IsSuffix(<<u, NL>>, FlattenSeq(log'))
      BY <1>1, <2>2, WriteEndsWithLine
    <3>2. <<u, NL>> \in Seq(Byte) /\ <<u, NL>> # <<>>
      BY DEF Byte
    <3>3. pos'[u] = 0 /\ 0 <= Len(FlattenSeq(log'))
      BY <2>1, <2>2, <3>2
    <3>4. tpc'[u] = "alloc" /\ did'[u] = "write"
      BY <1>1, <2>2 DEF ThreadTypes
    <3>. QED  BY <1>12, <2>0, <3>1, <3>3, <3>4
  <2>3. CASE /\ Device!Write(u, <<u>>) /\ did' = [did EXCEPT ![u] = "part"]
             /\ tpc' = [tpc EXCEPT ![u] = "alloc"]
    <3>1. <<u>> \in Seq(Byte) /\ <<u>> # <<>>
      BY DEF Byte
    <3>2. pos'[u] = 0 /\ 0 <= Len(FlattenSeq(log'))
      BY <2>1, <2>3, <3>1
    <3>3. tpc'[u] = "alloc" /\ did'[u] = "part"
      BY <1>1, <2>3 DEF ThreadTypes
    <3>. QED  BY <1>12, <2>0, <3>2, <3>3
  <2>4. CASE tpc' = [tpc EXCEPT ![u] = "unlock"]
    BY <1>1, <1>4, <2>4 DEF ThreadTypes
  <2>5. CASE /\ Device!WriteNothing(u) /\ did' = [did EXCEPT ![u] = "part"]
             /\ tpc' = [tpc EXCEPT ![u] = "alloc"]
    <3>1. log' = log /\ pos' = pos
      BY <2>5 DEF Device!WriteNothing
    <3>2. Len(FlattenSeq(log)) \in Nat
      BY <1>1, FlattenType, LenProperties DEF DeviceTypes
    <3>3. tpc'[u] = "alloc" /\ did'[u] = "part"
      BY <1>1, <2>5 DEF ThreadTypes
    <3>. QED  BY <1>12, <2>0, <3>1, <3>2, <3>3
  <2>. QED  BY <1>13, <2>2, <2>3, <2>4, <2>5 DEF WritePacket
<1>21. CASE WriteKills(u)
  BY <1>1, <1>4, <1>21 DEF WriteKills, ThreadTypes
<1>14. CASE SeekPacket(u)
  <2>0. /\ tpc[u] = "command" /\ reply' = reply /\ did'[u] = "seek"
        /\ start'[u] = pos'[u]
    BY <1>1, <1>14 DEF SeekPacket, ThreadTypes
  <2>1. ASSUME NEW cmd \in SeekCmd, NEW off \in SeekOff, Device!SeekTo(u, cmd, off),
               tpc' = [tpc EXCEPT ![u] = IF ret'.value < 0 THEN "unlock" ELSE "alloc"]
        PROVE  ReplyOf(u)'
    <3>1. /\ DeviceTypes' /\ log' = log
          /\ ret'.value >= 0 => pos'[u] <= Len(FlattenSeq(log))
      BY <1>1, <2>1, SeekFacts
    <3>2. pos'[u] \in Nat /\ ret'.value \in Int
      BY <3>1 DEF DeviceTypes
    <3>3. tpc'[u] = IF ret'.value < 0 THEN "unlock" ELSE "alloc"
      BY <1>1, <2>1 DEF ThreadTypes
    <3>4. CASE ret'.value < 0
      BY <1>4, <3>3, <3>4
    <3>5. CASE ~(ret'.value < 0)
      <4>1. ret'.value >= 0
        BY <3>2, <3>5
      <4>. QED  BY <1>12, <2>0, <3>1, <3>2, <3>3, <3>5, <4>1
    <3>. QED  BY <3>4, <3>5
  <2>2. CASE tpc' = [tpc EXCEPT ![u] = "unlock"]
    BY <1>1, <1>4, <2>2 DEF ThreadTypes
  <2>. QED  BY <1>14, <2>1, <2>2 DEF SeekPacket
<1>15. CASE AllocLine(u)
  <2>1. tpc[u] = "alloc" /\ UNCHANGED <<reply, did, start, device>>
        /\ tpc'[u] \in {"read", "unlock"}
    BY <1>1, <1>15 DEF AllocLine, conn, ThreadTypes
  <2>2. CASE tpc'[u] = "read"
    BY <1>1, <2>1, <2>2 DEF ReplyOf, Delivered, device
  <2>. QED  BY <1>4, <2>1, <2>2
<1>16. CASE ReadData(u)
  <2>0. tpc[u] \in {"read", "reread"} /\ UNCHANGED <<reply, did, start>>
    BY <1>16 DEF ReadData, conn
  <2>1. CASE /\ Device!Read(u, ReadSize)
             /\ tpc' = [tpc EXCEPT ![u] = IF ret'.value = 0 THEN "close" ELSE "send"]
    <3> DEFINE all == FlattenSeq(log)
    <3>1. /\ pos[u] <= Len(all) /\ Delivered(u, reply[u])
          /\ did[u] = "write" => IsSuffix(<<u, NL>>, all)
      BY <1>1, <2>0 DEF ReplyOf
    <3>2. /\ DeviceTypes' /\ log' = log
          /\ pos'[u] <= Len(all) /\ pos[u] <= pos'[u]
          /\ ret'.data = SubSeq(all, pos[u] + 1, pos'[u])
          /\ ret'.value = 0 => pos'[u] = pos[u] /\ pos[u] = Len(all)
      BY <1>1, <2>1, <3>1, ReadFacts
    <3>3. tpc'[u] = IF ret'.value = 0 THEN "close" ELSE "send"
      BY <1>1, <2>1 DEF ThreadTypes
    <3>4. pos[u] \in Nat /\ pos'[u] \in Nat
      BY <1>1, <3>2 DEF DeviceTypes
    <3>5. CASE ret'.value = 0
      <4>1. Delivered(u, reply[u])'
        BY <2>0, <3>1, <3>2, <3>5 DEF Delivered
      <4>. QED  BY <2>0, <3>1, <3>2, <3>3, <3>5, <4>1 DEF ReplyOf
    <3>6. CASE ret'.value # 0
      <4> DEFINE s == start[u]
      <4>1. reply[u] = SubSeq(all, s + 1, pos[u])
        BY <3>1 DEF Delivered
      <4>2. s \in Nat /\ s <= pos[u] /\ s <= pos'[u]
        <5>1. s \in Nat /\ s <= pos[u]
          BY <1>1, <3>1 DEF ThreadTypes, Delivered
        <5>. QED  BY <3>2, <3>4, <5>1
      <4>3. reply[u] \o ret'.data = SubSeq(all, s + 1, pos'[u])
        <5>1. pos[u] <= pos'[u] /\ pos'[u] <= Len(FlattenSeq(log))
          BY <3>2
        <5>2. SubSeq(all, s + 1, pos[u]) \o SubSeq(all, pos[u] + 1, pos'[u])
                = SubSeq(all, s + 1, pos'[u])
          BY <1>1, <3>4, <4>2, <5>1, AdjacentParts
        <5>. QED  BY <3>2, <4>1, <5>2
      <4>4. Delivered(u, reply[u] \o ret.data)'
        BY <2>0, <3>1, <3>2, <4>2, <4>3 DEF Delivered
      <4>. QED  BY <2>0, <3>1, <3>2, <3>3, <3>6, <4>4 DEF ReplyOf
    <3>. QED  BY <3>5, <3>6
  <2>. QED  BY <1>16, <2>1 DEF ReadData
<1>22. CASE ReadFails(u)
  <2>1. /\ tpc[u] \in {"read", "reread"} /\ UNCHANGED <<reply, did, start, device>>
        /\ tpc'[u] \in {"read", "reread", "unlock"}
    BY <1>1, <1>22 DEF ReadFails, conn, ThreadTypes
  <2>2. CASE tpc'[u] \in {"read", "reread"}
    BY <1>1, <2>1, <2>2 DEF ReplyOf, Delivered, device
  <2>. QED  BY <1>4, <2>1, <2>2
<1>17. CASE Send(u)
  <2>0. tpc[u] = "send" /\ UNCHANGED <<did, start, device>>
    BY <1>17 DEF Send
  <2>1. CASE /\ reply' = [reply EXCEPT ![u] = @ \o ret.data]
             /\ tpc' = [tpc EXCEPT ![u] = "read"]
    <3>1. tpc'[u] = "read" /\ reply'[u] = reply[u] \o ret.data
      BY <1>1, <2>1 DEF ThreadTypes
    <3>. QED  BY <1>1, <2>0, <3>1 DEF ReplyOf, Delivered, device
  <2>2. CASE tpc' = [tpc EXCEPT ![u] = "unlock"]
    BY <1>1, <1>4, <2>2 DEF ThreadTypes
  <2>. QED  BY <1>17, <2>1, <2>2 DEF Send
<1>18. CASE SendPipe(u)
  BY <1>2, <1>18 DEF SendPipe, server, conn
<1>19. CASE CloseAll(u) \/ Unlock(u) \/ SetComplete(u) \/ PthreadExit(u)
  <2>1. tpc'[u] \in {"flag", "unlock", "exiting", "exited"}
    BY <1>1, <1>19 DEF CloseAll, Unlock, SetComplete, PthreadExit, ThreadTypes
  <2>. QED  BY <1>4, <2>1
<1>20. CASE UNCHANGED vars
  BY <1>2, <1>20 DEF vars, server, conn
<1>. QED  BY <1>6, <1>7, <1>8, <1>9, <1>10, <1>11, <1>13, <1>14, <1>15, <1>16, <1>17,
             <1>18, <1>19, <1>20, <1>21, <1>22 DEF Next, MainStep, ThreadStep

----------------------------------------------------------------------------
(* The theorems.                                                           *)

(* The server starts without connections, threads or descriptors.          *)
LEMMA InitIInv == Init => IInv
<1> SUFFICES ASSUME Init PROVE IInv
  OBVIOUS
<1>1. MainTypes
  <2>1. <<>> \in Seq(Client)
    BY EmptySeq
  <2>2. Signals \in 0 .. Signals
    BY BoundAssumption
  <2>. QED  BY <2>1, <2>2 DEF Init, MainTypes, MainPlace
<1>2. ThreadTypes
  BY EmptySeq DEF Init, ThreadTypes, ThreadPlace
<1>3. DeviceTypes
  <2>1. <<>> \in Seq(Byte) /\ <<>> \in Seq(Seq(Byte)) /\ Len(<<>>) <= Capacity
    BY EmptySeq
  <2>. QED  BY <2>1 DEF Init, DeviceTypes
<1>4. DescriptorTypes
  <2>1. IsFiniteSet({}) /\ Cardinality({}) = 0
    BY FS_EmptySet
  <2>2. FdsInUse = 0
    BY <2>1 DEF Init, FdsInUse
  <2>. QED  BY <2>1, <2>2 DEF Init, DescriptorTypes
<1>5. Records
  BY DEF Init, Records, NoRepeats, Queued, Listed
<1>6. Excluded
  BY DEF Init, Excluded, Critical
<1>7. Replies
  BY DEF Init, Replies, ReplyOf
<1>. QED  BY <1>1, <1>2, <1>3, <1>4, <1>5, <1>6, <1>7 DEF IInv

(* Every step of a client, of main or of a thread preserves the invariant. *)
LEMMA NextIInv == IInv /\ [Next]_vars => IInv'
BY NextMainTypes, NextThreadTypes, NextDeviceTypes, NextDescriptorTypes, NextRecords,
   NextExcluded, NextReplies DEF IInv

(* The invariant holds throughout.                                         *)
LEMMA IInvAlways == Spec => []IInv
BY InitIInv, NextIInv, PTL DEF Spec

(* In every execution the variables hold what their C counterparts can,    *)
(* the device keeps no more than its capacity, and accept and open stay    *)
(* within the limit on descriptors.                                        *)
THEOREM TypeAlways == Spec => []TypeOK
<1>1. IInv => TypeOK
  BY DEF IInv, MainTypes, ThreadTypes, DeviceTypes, DescriptorTypes, TypeOK, MainPlace,
         ThreadPlace, Byte
<1>. QED  BY IInvAlways, <1>1, PTL

(* A thread between lock and unlock owns file_mutex: no two threads open,  *)
(* write, seek, read or reply at once, whatever error exits were taken and *)
(* although main destroys the mutex at shutdown.                           *)
THEOREM FileMutexAlwaysExcludes == Spec => []Excluded
<1>1. IInv => Excluded
  BY DEF IInv
<1>. QED  BY IInvAlways, <1>1, PTL

(* However connections, signals and failures interleave, main frees a      *)
(* record only after its thread has exited, and every thread it started is *)
(* in the list exactly once until then.                                    *)
THEOREM RecordsAlwaysOutliveThreads == Spec => []RecordsOutliveThreads
<1>1. IInv => RecordsOutliveThreads
  BY DEF IInv, Records, NoRepeats, Listed, RecordsOutliveThreads
<1>. QED  BY IInvAlways, <1>1, PTL

(* Whatever the other threads do, a thread that has read the device to its *)
(* end has sent one state of it: all of it after a write, its own line     *)
(* last, and everything from the chosen position after a seek.             *)
THEOREM ReplyAlwaysDeviceContents == Spec => []ReplyIsDeviceContents
<1>1. IInv => ReplyIsDeviceContents
  <2> SUFFICES ASSUME IInv, NEW c \in Client, ReplyOf(c), tpc[c] = "close"
               PROVE  LET all == FlattenSeq(log)
                      IN  /\ reply[c] = SubSeq(all, start[c] + 1, Len(all))
                          /\ did[c] # "seek" => start[c] = 0
                          /\ did[c] = "write" => IsSuffix(<<c, NL>>, all)
    BY DEF ReplyIsDeviceContents, IInv, Replies
  <2>. QED  BY DEF ReplyOf, Delivered
<1>. QED  BY IInvAlways, <1>1, PTL
=============================================================================
