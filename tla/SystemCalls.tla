---------------------------- MODULE SystemCalls ----------------------------
(***************************************************************************)
(* examples/systemcalls/systemcalls.c: do_system, do_exec and              *)
(* do_exec_redirect, called by the threads of one process.  The threads    *)
(* share the process's children, which is what wait() chooses from, its    *)
(* descriptors and its stdio buffer; each redirects to a file of its own.  *)
(* fork, exec, wait, system and the commands themselves are external.      *)
(***************************************************************************)
EXTENDS Naturals

CONSTANTS
  Caller,       \* threads that make the calls
  Function,     \* the functions they call
  Pid,          \* children the process may have at a time
  Fd,           \* descriptors it may open
  Faults,       \* calls that may fail
  MaxCalls      \* bound: calls they make

ASSUME IdAssumption == Pid \subseteq Nat \ {0} /\ Fd \subseteq Nat \ {0}
ASSUME CallAssumption ==
  Function \subseteq {"system", "exec", "redirect"} /\ MaxCalls \in Nat
ASSUME FaultAssumption ==
  Faults \subseteq {"open", "fork", "dup2", "exec", "eintr"}

VARIABLES
  tty,       \* is stdout a terminal?  Then stdio writes line by line
  pc, call, result,   \* of each caller: where it is, in what, last return value
  calls,     \* calls made so far
  mine,      \* childPID, 0 when there is none
  fd,        \* fd of do_exec_redirect
  fdtab,     \* descriptors open in the process
  file,      \* what was written to each caller's outputfile: "output" of the
             \* command, output of an earlier command ("stray"), stdio "text"
  kid,       \* the children, by pid
  end,       \* history: how the command of the caller's last call ended
  alone,     \* history: no other child existed during that call
  disturbed, \* history: a call began during another, or a wait was interrupted
  lost       \* history: descriptors of calls whose fork failed

caller == <<pc, result, call, calls, mine, fd>>
vars   == <<tty, caller, fdtab, file, kid, end, alone, disturbed, lost>>

NoKid == [by |-> "nobody", call |-> "none", at |-> "none", buf |-> {}, status |-> "none"]

Kids == {p \in Pid : kid[p].at # "none"}

Init ==
  /\ tty \in BOOLEAN
  /\ pc = [t \in Caller |-> "idle"]
  /\ call = [t \in Caller |-> "none"]
  /\ result = [t \in Caller |-> FALSE]
  /\ calls = 0
  /\ mine = [t \in Caller |-> 0]
  /\ fd = [t \in Caller |-> 0]
  /\ fdtab = {} /\ lost = {}
  /\ file = [t \in Caller |-> {}]
  /\ kid = [p \in Pid |-> NoKid]
  /\ end = [t \in Caller |-> "none"]
  /\ alone = [t \in Caller |-> TRUE]
  /\ disturbed = FALSE

Goto(t, where) == pc' = [pc EXCEPT ![t] = where] /\ UNCHANGED result

Return(t, value) ==
  /\ pc' = [pc EXCEPT ![t] = "idle"]
  /\ result' = [result EXCEPT ![t] = value]

----------------------------------------------------------------------------
(* The parent.                                                             *)

Begin(t, f) ==
  /\ pc[t] = "idle"
  /\ calls < MaxCalls
  /\ calls' = calls + 1
  /\ call' = [call EXCEPT ![t] = f]
  /\ mine' = [mine EXCEPT ![t] = 0]
  /\ end' = [end EXCEPT ![t] = "none"]
  /\ alone' = [alone EXCEPT ![t] = Kids = {}]
  /\ disturbed' = (disturbed \/ \E u \in Caller : pc[u] # "idle")
  /\ \/ f = "redirect" /\ Goto(t, "open")
     \/ f # "redirect" /\ Goto(t, "fork")
     \/ f = "system" /\ Return(t, FALSE)                       \* cmd == NULL
  /\ UNCHANGED <<tty, fd, fdtab, file, kid, lost>>

\* open(outputfile, O_TRUNC) returns a free descriptor, or EMFILE.
OpenFile(t) ==
  /\ pc[t] = "open"
  /\ \/ /\ \E d \in Fd \ fdtab :
             fd' = [fd EXCEPT ![t] = d] /\ fdtab' = fdtab \cup {d}
        /\ file' = [file EXCEPT ![t] = {}]
        /\ Goto(t, "fork")
     \/ /\ "open" \in Faults \/ Fd \subseteq fdtab
        /\ Return(t, FALSE)
        /\ UNCHANGED <<fd, fdtab, file>>
  /\ UNCHANGED <<tty, call, calls, mine, kid, end, alone, disturbed, lost>>

AfterFork(t) == IF call[t] = "redirect" THEN "close" ELSE "wait"

\* The child has a copy of the stdio buffer, which holds "Forking" (printed
\* after the fflush), and prints a line itself: unless stdout is a terminal its
\* buffer is not empty.  Which pid it gets is all the same.
Fork(t) ==
  /\ pc[t] = "fork"
  /\ Pid \ Kids # {}
  /\ LET p == CHOOSE p \in Pid \ Kids : TRUE
     IN  /\ mine' = [mine EXCEPT ![t] = p]
         /\ kid' = [kid EXCEPT ![p] =
              [by |-> t, call |-> call[t], status |-> "none",
               at |-> IF call[t] = "redirect" THEN "dup2" ELSE "exec",
               buf |-> IF tty \/ call[t] = "system" THEN {} ELSE {"text"}]]
  /\ alone' = [u \in Caller |-> alone[u] /\ (u = t \/ pc[u] = "idle")]
  /\ Goto(t, AfterFork(t))
  /\ UNCHANGED <<tty, call, calls, fd, fdtab, file, end, disturbed, lost>>

\* A slip: the value fork returned is not compared with -1.
ForkUnchecked(t) ==
  /\ pc[t] = "fork"
  /\ "fork" \in Faults \/ Pid \subseteq Kids
  /\ Goto(t, AfterFork(t))
  /\ UNCHANGED <<tty, call, calls, mine, fd, fdtab, file, kid, end, alone, disturbed, lost>>

\* do_exec_redirect returns with its descriptor open.
ForkFails(t) ==
  /\ pc[t] = "fork"
  /\ "fork" \in Faults \/ Pid \subseteq Kids
  /\ Return(t, FALSE)
  /\ lost' = IF call[t] = "redirect" THEN lost \cup {fd[t]} ELSE lost
  /\ fd' = [fd EXCEPT ![t] = 0]
  /\ UNCHANGED <<tty, call, calls, mine, fdtab, file, kid, end, alone, disturbed>>

\* A slip: the parent keeps the descriptor.
CloseForgotten(t) == fdtab

Closed(t) == fdtab \ {fd[t]}

CloseFile(t) ==
  /\ pc[t] = "close"
  /\ fdtab' = Closed(t)
  /\ fd' = [fd EXCEPT ![t] = 0]                        \* not used any more
  /\ Goto(t, "wait")
  /\ UNCHANGED <<tty, call, calls, mine, file, kid, end, alone, disturbed, lost>>

\* A slip: WEXITSTATUS is not looked at.
SuccessIfExited(status) == status # "signal"

\* WIFEXITED and a WEXITSTATUS of 0; a child that could not exec exits with 1.
Success(status) == status = "zero"

Reap(p) == kid' = [kid EXCEPT ![p] = NoKid]

\* Slips: wait is repeated until it returns childPID; waitpid with WNOHANG.
WaitForOwn(t) ==
  /\ pc[t] = "wait"
  /\ call[t] # "system"
  /\ \E p \in Kids :
       /\ kid[p].at = "zombie" /\ Reap(p)
       /\ IF p = mine[t] THEN Return(t, Success(kid[p].status)) ELSE Goto(t, "wait")
  /\ UNCHANGED <<tty, call, calls, mine, fd, fdtab, file, end, alone, disturbed, lost>>

WaitNoHang(t) ==
  /\ pc[t] = "wait"
  /\ call[t] # "system"
  /\ \/ \E p \in Kids :
          kid[p].at = "zombie" /\ Reap(p) /\ Return(t, Success(kid[p].status))
     \/ (\A p \in Kids : kid[p].at # "zombie") /\ Return(t, FALSE) /\ UNCHANGED kid
  /\ UNCHANGED <<tty, call, calls, mine, fd, fdtab, file, end, alone, disturbed, lost>>

\* wait takes any child that has ended.  It fails when no child is left, or
\* for a signal.
Wait(t) ==
  /\ pc[t] = "wait"
  /\ call[t] # "system"
  /\ \/ /\ \E p \in Kids :
             kid[p].at = "zombie" /\ Reap(p) /\ Return(t, Success(kid[p].status))
        /\ UNCHANGED disturbed
     \/ /\ Kids = {} \/ "eintr" \in Faults
        /\ disturbed' = (disturbed \/ Kids # {})
        /\ Return(t, FALSE)
        /\ UNCHANGED kid
  /\ UNCHANGED <<tty, call, calls, mine, fd, fdtab, file, end, alone, lost>>

\* A slip: system(cmd) != -1.
NotMinusOne(status) == TRUE

\* WIFEXITED.
Exited(status) == status # "signal"

\* system() waits for its own child and returns its status, or -1 when wait
\* in another thread has taken it: WIFEXITED(-1) is false.
WaitSystem(t) ==
  /\ pc[t] = "wait"
  /\ call[t] = "system"
  /\ \/ /\ kid[mine[t]].by = t
        /\ kid[mine[t]].at = "zombie"
        /\ Reap(mine[t])
        /\ Return(t, Exited(kid[mine[t]].status))
     \/ kid[mine[t]].by # t /\ Return(t, FALSE) /\ UNCHANGED kid
  /\ UNCHANGED <<tty, call, calls, mine, fd, fdtab, file, end, alone, disturbed, lost>>

----------------------------------------------------------------------------
(* The child, up to execv, and the command it becomes (external).          *)

Own(p) == mine[kid[p].by] = p

Ends(p, status) ==
  /\ kid' = [kid EXCEPT ![p] = [@ EXCEPT !.at = "zombie", !.buf = {}, !.status = status]]
  /\ end' = IF Own(p) THEN [end EXCEPT ![kid[p].by] = status] ELSE end

ToFile(p, what) ==
  file' = IF kid[p].call = "redirect"
          THEN [file EXCEPT ![kid[p].by] = @ \cup what] ELSE file

\* dup2(fd, 1) and close(fd), or _exit(1) with nothing in the file: descriptor 1
\* is still the program's own.
Dup2(p) ==
  /\ kid[p].at = "dup2"
  /\ \/ kid' = [kid EXCEPT ![p].at = "exec"] /\ UNCHANGED end
     \/ "dup2" \in Faults /\ Ends(p, "noexec")
  /\ UNCHANGED <<tty, caller, fdtab, file, alone, disturbed, lost>>

\* A slip: exit(), which writes out the buffer.
WrittenByExit(buf) == buf

\* _exit discards it.
WrittenAtExit(buf) == {}

\* execv replaces the program and its buffer.  When it fails, "execv command
\* failed to run" reaches descriptor 1 at once if stdout was a terminal when
\* the program started, and the buffer if not.
Exec(p) ==
  /\ kid[p].at = "exec"
  /\ \/ /\ kid' = [kid EXCEPT ![p] = [@ EXCEPT !.at = "run", !.buf = {}]]
        /\ UNCHANGED <<file, end>>
     \/ /\ "exec" \in Faults
        /\ Ends(p, "noexec")
        /\ ToFile(p, (IF tty THEN {"text"} ELSE {}) \cup WrittenAtExit(kid[p].buf))
  /\ UNCHANGED <<tty, caller, fdtab, alone, disturbed, lost>>

CommandWrites(p) ==
  /\ kid[p].at = "run"
  /\ ToFile(p, {IF Own(p) THEN "output" ELSE "stray"})
  /\ UNCHANGED <<tty, caller, fdtab, kid, end, alone, disturbed, lost>>

CommandEnds(p) ==
  /\ kid[p].at = "run"
  /\ \E status \in {"zero", "nonzero", "signal"} : Ends(p, status)
  /\ UNCHANGED <<tty, caller, fdtab, file, alone, disturbed, lost>>

----------------------------------------------------------------------------
CallerStep(t) ==
  \/ OpenFile(t) \/ Fork(t) \/ ForkFails(t) \/ CloseFile(t)
  \/ Wait(t) \/ WaitSystem(t)

ChildStep(p) == Dup2(p) \/ Exec(p) \/ CommandEnds(p)

Next ==
  \/ \E t \in Caller : CallerStep(t) \/ \E f \in Function : Begin(t, f)
  \/ \E p \in Pid : ChildStep(p) \/ CommandWrites(p)

Spec == Init /\ [][Next]_vars

\* wait returns although the process has a child, and without one.
Interrupted(t) ==
  pc[t] = "wait" /\ call[t] # "system" /\ Kids # {} /\ UNCHANGED kid

\* Threads and children are scheduled, and commands end; nobody owes a
\* waiting thread a signal.
FairSpec ==
  /\ Spec
  /\ \A t \in Caller : WF_vars(CallerStep(t) /\ ~Interrupted(t))
  /\ \A p \in Pid : WF_vars(ChildStep(p))

----------------------------------------------------------------------------
Returned(t) == pc[t] = "idle" /\ call[t] # "none"

Holds(t) == call[t] = "redirect" /\ pc[t] \in {"fork", "close"}

(* Variables have their types; a caller that got past fork has a child.    *)
TypeOK ==
  /\ pc \in [Caller -> {"idle", "open", "fork", "close", "wait"}]
  /\ result \in [Caller -> BOOLEAN]
  /\ mine \in [Caller -> Pid \cup {0}] /\ fd \in [Caller -> Fd \cup {0}]
  /\ fdtab \subseteq Fd
  /\ \A t \in Caller : pc[t] \in {"close", "wait"} => mine[t] # 0
  /\ \A t \in Caller : file[t] \subseteq {"output", "stray", "text"}
  /\ \A p \in Pid :
       /\ kid[p].at \in {"none", "dup2", "exec", "run", "zombie"}
       /\ kid[p].status # "none" <=> kid[p].at = "zombie"

(* While calls follow one another and no wait is interrupted, no call      *)
(* leaves its child behind for a later wait to take: each call has the     *)
(* only child of the process, whatever else fails in it (fork, dup2, exec, *)
(* open, the command).                                                     *)
OrderlyCallsStayAlone ==
  ~disturbed =>
    /\ \A t \in Caller : alone[t]
    /\ (\A t \in Caller : pc[t] = "idle") => Kids = {}

(* A call of do_exec or do_exec_redirect that has the only child returns   *)
(* true only when its command was executed, has ended and returned zero.   *)
LoneCallReportsItsCommand ==
  \A t \in Caller :
    Returned(t) /\ call[t] # "system" /\ alone[t] /\ result[t] => end[t] = "zero"

(* do_system returns true only when its own command has ended, and not by  *)
(* a signal, although waits in other threads may take its child and other  *)
(* children may get its pid.  (It also returns true for a command that     *)
(* returned another status than zero, see SystemTrueMeansSuccess.)         *)
SystemReportsItsOwn ==
  \A t \in Caller :
    Returned(t) /\ call[t] = "system" /\ result[t] =>
      end[t] \in {"zero", "nonzero", "noexec"}

(* When do_exec_redirect returns true for its only child, outputfile holds *)
(* the command's output alone.  Output of an earlier command, which a call *)
(* with the same outputfile left running, gets into it only after a wait   *)
(* was interrupted or calls overlapped.  And unless stdout is a terminal   *)
(* nothing that the program itself printed, before the fork or in the      *)
(* child, ever gets into an output file.                                   *)
FileHoldsCommandOutput ==
  \A t \in Caller :
    /\ Returned(t) /\ alone[t] /\ result[t] /\ call[t] = "redirect" =>
         file[t] \subseteq {"output"}
    /\ "stray" \in file[t] => disturbed
    /\ ~tty => "text" \notin file[t]

(* No call closes the descriptor of another call, and the descriptors open *)
(* are those of calls that have not forked yet.  The exception is a call   *)
(* whose fork failed: it returns with outputfile open, for ever, which     *)
(* systemcalls.c:122 ("closed at completion of the function call") does    *)
(* not allow for.                                                          *)
DescriptorsAccounted == fdtab = {fd[t] : t \in {u \in Caller : Holds(u)}} \cup lost

(* Whoever's child a wait takes and whatever fails, every call returns:    *)
(* wait is content with any child, and each waiting thread brought one.    *)
CallsReturn == \A t \in Caller : pc[t] # "idle" ~> pc[t] = "idle"

(* do_exec: "@return true if the command ... were executed successfully    *)
(* ..., false if ... a non-zero return value was returned by the command". *)
TrueMeansOwnSuccess ==
  \A t \in Caller :
    Returned(t) /\ call[t] # "system" /\ result[t] => end[t] = "zero"

(* do_system: "@return true if the command ... was executed successfully   *)
(* ..., false if ... a non-zero return value was returned by the command". *)
SystemTrueMeansSuccess ==
  \A t \in Caller :
    Returned(t) /\ call[t] = "system" /\ result[t] => end[t] = "zero"
=============================================================================
