-------------------------- MODULE SystemCallsProofs --------------------------
(***************************************************************************)
(* Theorems about do_system, do_exec and do_exec_redirect for any number   *)
(* of threads, pids, descriptors and calls and every set of faults.        *)
(***************************************************************************)
EXTENDS SystemCalls, TLAPS

USE IdAssumption, CallAssumption

----------------------------------------------------------------------------
(* The inductive invariant.                                                *)

Ending == {"zero", "nonzero", "signal", "noexec"}

Child == [by : Caller, call : Function, at : {"dup2", "exec", "run", "zombie"},
          buf : SUBSET {"text"}, status : Ending \cup {"none"}]

(* The types of all the variables, the ones TypeOK leaves out included.    *)
Types ==
  /\ tty \in BOOLEAN
  /\ pc \in [Caller -> {"idle", "open", "fork", "close", "wait"}]
  /\ result \in [Caller -> BOOLEAN]
  /\ call \in [Caller -> Function \cup {"none"}]
  /\ mine \in [Caller -> Pid \cup {0}]
  /\ fd \in [Caller -> Fd \cup {0}]
  /\ fdtab \subseteq Fd
  /\ file \in [Caller -> SUBSET {"output", "stray", "text"}]
  /\ kid \in [Pid -> Child \cup {NoKid}]
  /\ end \in [Caller -> Ending \cup {"none"}]
  /\ alone \in [Caller -> BOOLEAN]
  /\ disturbed \in BOOLEAN

(* Where a call is says which function it is in and that it has a child;   *)
(* a child has a status once it has ended.                                 *)
Places ==
  /\ \A t \in Caller : pc[t] \in {"close", "wait"} => mine[t] # 0
  /\ \A t \in Caller : pc[t] # "idle" => call[t] # "none"
  /\ \A t \in Caller : pc[t] \in {"open", "close"} => call[t] = "redirect"
  /\ \A p \in Pid : kid[p].status # "none" <=> kid[p].at = "zombie"

(* A descriptor belongs to one call at a time, and never again to one once *)
(* it is lost.                                                             *)
Descriptors ==
  /\ DescriptorsAccounted
  /\ \A t \in Caller : Holds(t) => fd[t] \in Fd \ lost
  /\ \A t, u \in Caller : Holds(t) /\ Holds(u) /\ fd[t] = fd[u] => t = u

(* While a call is alone its own child is the only one there can be, and   *)
(* how it ended is known as soon as it has; what is in outputfile then is  *)
(* the command's, unless the child could not execute it.                   *)
AloneInCall(t) ==
  /\ pc[t] \in {"open", "fork"} => Kids = {} /\ end[t] = "none"
  /\ pc[t] \in {"close", "wait"} =>
       \A p \in Kids :
         /\ p = mine[t] /\ kid[p].by = t /\ kid[p].call = call[t]
         /\ end[t] = kid[p].status
  /\ pc[t] \in {"fork", "close", "wait"} /\ call[t] = "redirect" =>
       file[t] \subseteq {"output"} \/ end[t] = "noexec"

(* Once it has returned true it has left no child behind that could still  *)
(* change how its command ended or what is in its file.                    *)
AloneDone(t) ==
  Returned(t) /\ result[t] =>
    /\ \A p \in Kids : kid[p].by # t
    /\ call[t] # "system" => end[t] = "zero"
    /\ call[t] = "redirect" => file[t] \subseteq {"output"}

(* system() knows its child by pid and parent: while it waits, the status  *)
(* it will find there is that of its own command; once it has returned     *)
(* true that child is gone and nothing can change how its command ended.   *)
SystemCall(t) ==
  call[t] = "system" =>
    /\ pc[t] = "wait" =>
         \A p \in Kids : p = mine[t] /\ kid[p].by = t /\ kid[p].at = "zombie" =>
           end[t] = kid[p].status
    /\ Returned(t) /\ result[t] =>
         /\ end[t] \in {"zero", "nonzero", "noexec"}
         /\ \A p \in Kids : p = mine[t] => kid[p].by # t

(* Undisturbed calls follow one another: at most one is under way, and     *)
(* between two of them the process has no child.                           *)
Orderly ==
  ~disturbed =>
    /\ \A t, u \in Caller : pc[t] # "idle" /\ pc[u] # "idle" => t = u
    /\ \A t \in Caller : alone[t]
    /\ (\A t \in Caller : pc[t] = "idle") => Kids = {}
    /\ \A t \in Caller : "stray" \notin file[t]

(* Nothing the program prints reaches a file that is not a terminal.       *)
NoText == \A t \in Caller : ~tty => "text" \notin file[t]

IInv ==
  /\ Types
  /\ Places
  /\ Descriptors
  /\ \A t \in Caller : alone[t] => AloneInCall(t) /\ AloneDone(t)
  /\ \A t \in Caller : SystemCall(t)
  /\ Orderly
  /\ NoText

----------------------------------------------------------------------------
(* What the steps leave alone, and what they do to the children.           *)

(* A child that is there has a caller, and one that is not is NoKid.       *)
LEMMA KidFacts ==
  ASSUME Types, NEW p \in Pid
  PROVE  /\ p \in Kids => kid[p] \in Child /\ kid[p].by \in Caller
         /\ p \notin Kids => kid[p] = NoKid
<1>1. kid[p] \in Child \/ kid[p] = NoKid
  BY DEF Types
<1>2. kid[p] \in Child => kid[p].at # "none"
  BY DEF Child
<1>. QED  BY <1>1, <1>2 DEF Kids, Child, NoKid

(* wait removes the child it takes, and no other.                          *)
LEMMA ReapEffect ==
  ASSUME Types, NEW p \in Pid, Reap(p)
  PROVE  /\ Kids' = Kids \ {p}
         /\ kid'[p] = NoKid
         /\ \A q \in Pid \ {p} : kid'[q] = kid[q]
<1>1. kid'[p] = NoKid /\ \A q \in Pid \ {p} : kid'[q] = kid[q]
  BY DEF Types, Reap
<1>2. NoKid.at = "none"
  BY DEF NoKid
<1>3. \A q \in Pid : q \in Kids' <=> q \in Kids \ {p}
  BY <1>1, <1>2 DEF Kids
<1>4. Kids' = Kids \ {p}
  BY <1>3 DEF Kids
<1>. QED  BY <1>1, <1>4

(* A child that ends stays a child, with its status, until it is waited    *)
(* for; nothing changes for the others.                                    *)
LEMMA EndsEffect ==
  ASSUME Types, NEW p \in Kids, NEW status, Ends(p, status)
  PROVE  /\ Kids' = Kids
         /\ kid'[p].at = "zombie" /\ kid'[p].status = status
         /\ \A q \in Pid : kid'[q].by = kid[q].by /\ kid'[q].call = kid[q].call
         /\ \A q \in Pid \ {p} : kid'[q] = kid[q]
<1>1. p \in Pid /\ kid[p] \in Child
  BY KidFacts DEF Kids
<1>2. kid' = [kid EXCEPT ![p] = [kid[p] EXCEPT !.at = "zombie", !.buf = {}, !.status = status]]
  BY DEF Ends, Types
<1>3. /\ kid'[p] = [kid[p] EXCEPT !.at = "zombie", !.buf = {}, !.status = status]
      /\ \A q \in Pid \ {p} : kid'[q] = kid[q]
  BY <1>1, <1>2 DEF Types
<1>4. /\ kid'[p].at = "zombie" /\ kid'[p].status = status
      /\ kid'[p].by = kid[p].by /\ kid'[p].call = kid[p].call
  BY <1>1, <1>3 DEF Child
<1>5. \A q \in Pid : kid'[q].by = kid[q].by /\ kid'[q].call = kid[q].call
  BY <1>3, <1>4
<1>6. \A q \in Pid : kid'[q].at # "none" <=> kid[q].at # "none"
  BY <1>3, <1>4 DEF Kids
<1>7. Kids' = Kids
  BY <1>6 DEF Kids
<1>. QED  BY <1>3, <1>4, <1>5, <1>7

(* A child that goes on to execv or to its command is the same child.      *)
Moves(p) ==
  \/ kid' = [kid EXCEPT ![p].at = "exec"]
  \/ kid' = [kid EXCEPT ![p] = [@ EXCEPT !.at = "run", !.buf = {}]]

LEMMA MoveEffect ==
  ASSUME Types, NEW p \in Kids, kid[p].at # "zombie", Moves(p)
  PROVE  /\ kid' \in [Pid -> Child \cup {NoKid}]
         /\ Kids' = Kids
         /\ kid'[p].at # "zombie"
         /\ \A q \in Pid : /\ kid'[q].by = kid[q].by /\ kid'[q].call = kid[q].call
                           /\ kid'[q].status = kid[q].status
         /\ \A q \in Pid \ {p} : kid'[q] = kid[q]
<1>1. p \in Pid /\ kid[p] \in Child
  BY KidFacts DEF Kids
<1>2. PICK c \in {[kid[p] EXCEPT !.at = "exec"],
                  [kid[p] EXCEPT !.at = "run", !.buf = {}]} :
        kid' = [kid EXCEPT ![p] = c]
  BY DEF Types, Moves
<1>7. /\ c \in Child /\ c.at \in {"exec", "run"} /\ c.status = kid[p].status
      /\ c.by = kid[p].by /\ c.call = kid[p].call
  BY <1>1 DEF Child
<1>3. kid'[p] = c /\ \A q \in Pid \ {p} : kid'[q] = kid[q]
  BY <1>1, <1>2 DEF Types
<1>4. /\ kid'[p].at \in {"exec", "run"} /\ kid'[p].status = kid[p].status
      /\ kid'[p].by = kid[p].by /\ kid'[p].call = kid[p].call
  BY <1>3, <1>7
<1>8. kid' \in [Pid -> Child \cup {NoKid}]
  BY <1>2, <1>7 DEF Types
<1>5. \A q \in Pid : /\ kid'[q].by = kid[q].by /\ kid'[q].call = kid[q].call
                     /\ kid'[q].status = kid[q].status
  BY <1>3, <1>4
<1>6. Kids' = Kids
  BY <1>1, <1>3, <1>4 DEF Kids
<1>. QED  BY <1>3, <1>4, <1>5, <1>6, <1>8

(* fork adds one child, of its caller, that has not ended.                 *)
LEMMA ForkEffect ==
  ASSUME Types, NEW t \in Caller, Fork(t)
  PROVE  \E p \in Pid \ Kids :
           /\ Kids' = Kids \cup {p}
           /\ mine' = [mine EXCEPT ![t] = p] /\ mine'[t] = p
           /\ kid'[p].by = t /\ kid'[p].call = call[t]
           /\ kid'[p].status = "none" /\ kid'[p].at \in {"dup2", "exec"}
           /\ \A q \in Pid \ {p} : kid'[q] = kid[q]
<1> DEFINE p == CHOOSE p \in Pid \ Kids : TRUE
           c == [by |-> t, call |-> call[t], status |-> "none",
                 at |-> IF call[t] = "redirect" THEN "dup2" ELSE "exec",
                 buf |-> IF tty \/ call[t] = "system" THEN {} ELSE {"text"}]
<1>1. p \in Pid \ Kids
  BY DEF Fork
<1>2. /\ mine' = [mine EXCEPT ![t] = p]
      /\ kid' = [kid EXCEPT ![p] = c]
  BY DEF Fork
<1>. HIDE DEF p
<1>3. /\ mine'[t] = p /\ kid'[p] = c
      /\ \A q \in Pid \ {p} : kid'[q] = kid[q]
  BY <1>1, <1>2 DEF Types
<1>4. /\ c.by = t /\ c.call = call[t] /\ c.status = "none"
      /\ c.at \in {"dup2", "exec"}
  OBVIOUS
<1>. HIDE DEF c
<1>5. Kids' = Kids \cup {p}
  BY <1>1, <1>3, <1>4 DEF Kids
<1>. QED  BY <1>1, <1>2, <1>3, <1>4, <1>5

(* The types, action by action.                                            *)
LEMMA NextTypes == IInv /\ [Next]_vars => Types'
<1> SUFFICES ASSUME IInv, [Next]_vars PROVE Types'
  OBVIOUS
<1>1. Types /\ Places
  BY DEF IInv
<1>2. ASSUME NEW t \in Caller, NEW f \in Function, Begin(t, f) PROVE Types'
  BY <1>1, <1>2 DEF Types, Begin, Goto, Return
<1>3. ASSUME NEW t \in Caller, OpenFile(t) PROVE Types'
  <2>1. ASSUME NEW d \in Fd, fd' = [fd EXCEPT ![t] = d], fdtab' = fdtab \cup {d},
               file' = [file EXCEPT ![t] = {}], Goto(t, "fork")
        PROVE  Types'
    BY <1>1, <1>3, <2>1 DEF Types, OpenFile, Goto
  <2>2. CASE Return(t, FALSE) /\ UNCHANGED <<fd, fdtab, file>>
    BY <1>1, <1>3, <2>2 DEF Types, OpenFile, Return
  <2>. QED  BY <1>3, <2>1, <2>2 DEF OpenFile
<1>4. ASSUME NEW t \in Caller, Fork(t) PROVE Types'
  <2> DEFINE p == CHOOSE p \in Pid \ Kids : TRUE
             c == [by |-> t, call |-> call[t], status |-> "none",
                   at |-> IF call[t] = "redirect" THEN "dup2" ELSE "exec",
                   buf |-> IF tty \/ call[t] = "system" THEN {} ELSE {"text"}]
  <2>1. p \in Pid
    BY <1>4 DEF Fork
  <2>2. /\ mine' = [mine EXCEPT ![t] = p]
        /\ kid' = [kid EXCEPT ![p] = c]
    BY <1>4 DEF Fork
  <2>. HIDE DEF p
  <2>3. call[t] \in Function
    BY <1>1, <1>4 DEF IInv, Places, Types, Fork
  <2>4. c \in Child
    BY <2>3 DEF Child, Ending
  <2>. HIDE DEF c
  <2>5. /\ mine' \in [Caller -> Pid \cup {0}]
        /\ kid' \in [Pid -> Child \cup {NoKid}]
    BY <1>1, <2>1, <2>2, <2>4 DEF Types
  <2>6. pc' \in [Caller -> {"idle", "open", "fork", "close", "wait"}]
    BY <1>1, <1>4 DEF Types, Fork, Goto, AfterFork
  <2>7. alone' \in [Caller -> BOOLEAN]
    BY <1>1, <1>4 DEF Types, Fork
  <2>. QED  BY <1>1, <1>4, <2>5, <2>6, <2>7 DEF Types, Fork, Goto
<1>5. ASSUME NEW t \in Caller, ForkFails(t) PROVE Types'
  BY <1>1, <1>5 DEF Types, ForkFails, Return
<1>6. ASSUME NEW t \in Caller, CloseFile(t) PROVE Types'
  BY <1>1, <1>6 DEF Types, CloseFile, Closed, Goto
<1>7. ASSUME NEW t \in Caller, Wait(t) PROVE Types'
  <2>1. kid' \in [Pid -> Child \cup {NoKid}]
    BY <1>1, <1>7 DEF Types, Wait, Reap, Kids
  <2>2. result' \in [Caller -> BOOLEAN]
    BY <1>1, <1>7 DEF Types, Wait, Return, Success
  <2>3. pc' \in [Caller -> {"idle", "open", "fork", "close", "wait"}]
    BY <1>1, <1>7 DEF Types, Wait, Return
  <2>. QED  BY <1>1, <1>7, <2>1, <2>2, <2>3 DEF Types, Wait
<1>8. ASSUME NEW t \in Caller, WaitSystem(t) PROVE Types'
  <2>1. kid' \in [Pid -> Child \cup {NoKid}]
    BY <1>1, <1>8 DEF Types, WaitSystem, Reap
  <2>2. result' \in [Caller -> BOOLEAN]
    BY <1>1, <1>8 DEF Types, WaitSystem, Return, Exited
  <2>3. pc' \in [Caller -> {"idle", "open", "fork", "close", "wait"}]
    BY <1>1, <1>8 DEF Types, WaitSystem, Return
  <2>. QED  BY <1>1, <1>8, <2>1, <2>2, <2>3 DEF Types, WaitSystem
<1>9. ASSUME NEW p \in Pid, NEW status \in Ending, p \in Kids, Ends(p, status)
      PROVE  /\ kid' \in [Pid -> Child \cup {NoKid}]
             /\ end' \in [Caller -> Ending \cup {"none"}]
  <2>1. kid[p] \in Child
    BY <1>1, <1>9, KidFacts
  <2>2. [kid[p] EXCEPT !.at = "zombie", !.buf = {}, !.status = status] \in Child
    BY <2>1 DEF Child
  <2>3. kid' = [kid EXCEPT ![p] = [kid[p] EXCEPT !.at = "zombie", !.buf = {}, !.status = status]]
    BY <1>1, <1>9 DEF Ends, Types
  <2>4. kid' \in [Pid -> Child \cup {NoKid}]
    BY <1>1, <2>2, <2>3 DEF Types
  <2>5. end' \in [Caller -> Ending \cup {"none"}]
    BY <1>1, <1>9 DEF Ends, Types
  <2>. QED  BY <2>4, <2>5
<1>11. ASSUME NEW p \in Pid, NEW what \in SUBSET {"output", "stray", "text"},
              p \in Kids, ToFile(p, what)
       PROVE  file' \in [Caller -> SUBSET {"output", "stray", "text"}]
  <2>1. kid[p].by \in Caller
    BY <1>1, <1>11, KidFacts
  <2>. QED  BY <1>1, <1>11, <2>1 DEF ToFile, Types
<1>12. ASSUME NEW p \in Pid, Dup2(p) PROVE Types'
  <2>1. p \in Kids /\ kid[p].at # "zombie"
    BY <1>12 DEF Dup2, Kids
  <2>2. CASE Ends(p, "noexec")
    BY <1>1, <1>9, <1>12, <2>1, <2>2 DEF Types, Dup2, caller, Ending
  <2>3. CASE kid' = [kid EXCEPT ![p].at = "exec"] /\ UNCHANGED end
    <3>1. kid' \in [Pid -> Child \cup {NoKid}]
      BY <1>1, <2>1, <2>3, MoveEffect DEF Moves
    <3>. QED  BY <1>1, <1>12, <2>3, <3>1 DEF Types, Dup2, caller
  <2>. QED  BY <1>12, <2>2, <2>3 DEF Dup2
<1>13. ASSUME NEW p \in Pid, Exec(p) PROVE Types'
  <2>1. p \in Kids /\ kid[p].at # "zombie"
    BY <1>13 DEF Exec, Kids
  <2>2. CASE Moves(p) /\ UNCHANGED <<file, end>>
    <3>1. kid' \in [Pid -> Child \cup {NoKid}]
      BY <1>1, <2>1, <2>2, MoveEffect
    <3>. QED  BY <1>1, <1>13, <2>2, <3>1 DEF Types, Exec, caller
  <2>3. ASSUME NEW what \in SUBSET {"text"}, Ends(p, "noexec"), ToFile(p, what)
        PROVE  Types'
    <3>1. file' \in [Caller -> SUBSET {"output", "stray", "text"}]
      BY <1>11, <2>1, <2>3
    <3>2. /\ kid' \in [Pid -> Child \cup {NoKid}]
          /\ end' \in [Caller -> Ending \cup {"none"}]
      BY <1>9, <2>1, <2>3 DEF Ending
    <3>. QED  BY <1>1, <1>13, <3>1, <3>2 DEF Types, Exec, caller
  <2>. QED  BY <1>13, <2>2, <2>3 DEF Exec, Moves, WrittenAtExit
<1>14. ASSUME NEW p \in Pid, CommandWrites(p) PROVE Types'
  <2>1. p \in Kids
    BY <1>14 DEF CommandWrites, Kids
  <2>2. {IF Own(p) THEN "output" ELSE "stray"} \in SUBSET {"output", "stray", "text"}
    OBVIOUS
  <2>3. file' \in [Caller -> SUBSET {"output", "stray", "text"}]
    BY <1>11, <1>14, <2>1, <2>2 DEF CommandWrites
  <2>. QED  BY <1>1, <1>14, <2>3 DEF Types, CommandWrites, caller
<1>15. ASSUME NEW p \in Pid, CommandEnds(p) PROVE Types'
  <2>1. p \in Kids
    BY <1>15 DEF CommandEnds, Kids
  <2>2. /\ kid' \in [Pid -> Child \cup {NoKid}]
        /\ end' \in [Caller -> Ending \cup {"none"}]
    BY <1>9, <1>15, <2>1 DEF CommandEnds, Ending
  <2>. QED  BY <1>1, <1>15, <2>2 DEF Types, CommandEnds, caller
<1>16. CASE UNCHANGED vars
  BY <1>1, <1>16 DEF Types, vars, caller
<1>. QED  BY <1>2, <1>3, <1>4, <1>5, <1>6, <1>7, <1>8, <1>12, <1>13, <1>14,
             <1>15, <1>16 DEF Next, CallerStep, ChildStep

(* Where the calls and the children are.                                   *)
LEMMA NextPlaces == IInv /\ [Next]_vars => Places'
<1> SUFFICES ASSUME IInv, [Next]_vars PROVE Places'
  OBVIOUS
<1>1. Types /\ Places
  BY DEF IInv
<1>2. ASSUME NEW t \in Caller, NEW f \in Function, Begin(t, f) PROVE Places'
  BY <1>1, <1>2 DEF Types, Places, Begin, Goto, Return
<1>3. ASSUME NEW t \in Caller, OpenFile(t) PROVE Places'
  BY <1>1, <1>3 DEF Types, Places, OpenFile, Goto, Return
<1>4. ASSUME NEW t \in Caller, Fork(t) PROVE Places'
  <2>1. PICK p \in Pid \ Kids :
           /\ mine' = [mine EXCEPT ![t] = p]
           /\ kid'[p].status = "none" /\ kid'[p].at \in {"dup2", "exec"}
           /\ \A q \in Pid \ {p} : kid'[q] = kid[q]
    BY <1>1, <1>4, ForkEffect
  <2>2. p # 0
    OBVIOUS
  <2>3. \A u \in Caller : u # t => mine'[u] = mine[u] /\ pc'[u] = pc[u]
    BY <1>1, <1>4, <2>1 DEF Types, Fork, Goto
  <2>4. mine'[t] # 0
    BY <1>1, <2>1, <2>2 DEF Types
  <2>5. pc'[t] = AfterFork(t) /\ call' = call /\ pc[t] = "fork"
    BY <1>1, <1>4 DEF Types, Fork, Goto
  <2>6. \A q \in Pid : kid'[q].status # "none" <=> kid'[q].at = "zombie"
    BY <1>1, <2>1 DEF Places
  <2>. QED  BY <1>1, <2>3, <2>4, <2>5, <2>6 DEF Places, AfterFork
<1>5. ASSUME NEW t \in Caller, ForkFails(t) PROVE Places'
  BY <1>1, <1>5 DEF Types, Places, ForkFails, Return
<1>6. ASSUME NEW t \in Caller, CloseFile(t) PROVE Places'
  BY <1>1, <1>6 DEF Types, Places, CloseFile, Goto
<1>7. ASSUME NEW p \in Pid, Reap(p)
      PROVE  \A q \in Pid : kid'[q].status # "none" <=> kid'[q].at = "zombie"
  BY <1>1, <1>7, ReapEffect DEF Places, NoKid
<1>8. ASSUME NEW t \in Caller, Wait(t) PROVE Places'
  <2>1. \A q \in Pid : kid'[q].status # "none" <=> kid'[q].at = "zombie"
    BY <1>1, <1>7, <1>8 DEF Wait, Kids, Places
  <2>. QED  BY <1>1, <1>8, <2>1 DEF Types, Places, Wait, Return
<1>9. ASSUME NEW t \in Caller, WaitSystem(t) PROVE Places'
  <2>1. mine[t] \in Pid
    BY <1>1, <1>9 DEF Types, Places, WaitSystem
  <2>2. \A q \in Pid : kid'[q].status # "none" <=> kid'[q].at = "zombie"
    BY <1>1, <1>7, <1>9, <2>1 DEF WaitSystem, Places
  <2>. QED  BY <1>1, <1>9, <2>2 DEF Types, Places, WaitSystem, Return
<1>10. ASSUME NEW p \in Kids, NEW status \in Ending, Ends(p, status)
      PROVE  \A q \in Pid : kid'[q].status # "none" <=> kid'[q].at = "zombie"
  <2>1. /\ kid'[p].at = "zombie" /\ kid'[p].status = status
        /\ \A q \in Pid \ {p} : kid'[q] = kid[q]
    BY <1>1, <1>10, EndsEffect
  <2>. QED  BY <1>1, <2>1 DEF Places, Ending
<1>11. ASSUME NEW p \in Kids, kid[p].at # "zombie", Moves(p)
      PROVE  \A q \in Pid : kid'[q].status # "none" <=> kid'[q].at = "zombie"
  <2>1. /\ kid'[p].at # "zombie"
        /\ \A q \in Pid : kid'[q].status = kid[q].status
        /\ \A q \in Pid \ {p} : kid'[q] = kid[q]
    BY <1>1, <1>11, MoveEffect
  <2>. QED  BY <1>1, <1>11, <2>1 DEF Places
<1>12. ASSUME NEW p \in Pid, ChildStep(p) \/ CommandWrites(p) PROVE Places'
  <2>1. UNCHANGED <<mine, pc, call>>
    BY <1>12 DEF ChildStep, Dup2, Exec, CommandWrites, CommandEnds, caller
  <2>2. p \in Kids /\ kid[p].at # "zombie"
    BY <1>12 DEF ChildStep, Dup2, Exec, CommandWrites, CommandEnds, Kids
  <2>3. \A q \in Pid : kid'[q].status # "none" <=> kid'[q].at = "zombie"
    <3>1. CASE Dup2(p)
      BY <1>10, <1>11, <2>2, <3>1 DEF Dup2, Ending, Moves
    <3>2. CASE Exec(p)
      BY <1>10, <1>11, <2>2, <3>2 DEF Exec, Ending, Moves
    <3>3. CASE CommandEnds(p)
      BY <1>10, <2>2, <3>3 DEF CommandEnds, Ending
    <3>4. CASE CommandWrites(p)
      BY <1>1, <3>4 DEF CommandWrites, Places
    <3>. QED  BY <1>12, <3>1, <3>2, <3>3, <3>4 DEF ChildStep
  <2>. QED  BY <1>1, <2>1, <2>3 DEF Places
<1>13. CASE UNCHANGED vars
  BY <1>1, <1>13 DEF Places, vars, caller
<1>. QED  BY <1>2, <1>3, <1>4, <1>5, <1>6, <1>8, <1>9, <1>12, <1>13
          DEF Next, CallerStep

(* Only the calls that hold a descriptor, and the ones that lose it, touch *)
(* the descriptors.                                                        *)
LEMMA NextDescriptors == IInv /\ [Next]_vars => Descriptors'
<1> SUFFICES ASSUME IInv, [Next]_vars PROVE Descriptors'
  OBVIOUS
<1>1. Types /\ Places /\ Descriptors
  BY DEF IInv
<1> DEFINE Unheld(t) == ~Holds(t) /\ ~Holds(t)'
           Same(t) == (Holds(t)' <=> Holds(t)) /\ fd'[t] = fd[t]
<1>2. ASSUME UNCHANGED <<fdtab, lost>>,
             \A u \in Caller : Unheld(u) \/ Same(u)
      PROVE  Descriptors'
  BY <1>1, <1>2 DEF Descriptors, DescriptorsAccounted
<1>3. ASSUME NEW t \in Caller, NEW f \in Function, Begin(t, f) PROVE Descriptors'
  BY <1>1, <1>2, <1>3 DEF Types, Begin, Goto, Return, Holds
<1>4. ASSUME NEW t \in Caller, OpenFile(t) PROVE Descriptors'
  <2>1. ASSUME NEW d \in Fd \ fdtab, fd' = [fd EXCEPT ![t] = d],
               fdtab' = fdtab \cup {d}, Goto(t, "fork")
        PROVE  Descriptors'
    <3>1. ~Holds(t) /\ Holds(t)' /\ fd'[t] = d /\ lost' = lost
      BY <1>1, <1>4, <2>1 DEF Types, Places, OpenFile, Goto, Holds
    <3>2. \A u \in Caller : u # t => Same(u)
      BY <1>1, <1>4, <2>1 DEF Types, OpenFile, Goto, Holds
    <3>3. \A u \in Caller : Holds(u) => fd[u] # d
      BY <1>1, <2>1 DEF Descriptors, DescriptorsAccounted
    <3>4. d \notin lost
      BY <1>1, <2>1 DEF Descriptors, DescriptorsAccounted
    <3>. QED  BY <1>1, <2>1, <3>1, <3>2, <3>3, <3>4
              DEF Descriptors, DescriptorsAccounted
  <2>2. CASE Return(t, FALSE) /\ UNCHANGED <<fd, fdtab, file>>
    BY <1>1, <1>2, <1>4, <2>2 DEF Types, OpenFile, Return, Holds
  <2>. QED  BY <1>4, <2>1, <2>2 DEF OpenFile
<1>5. ASSUME NEW t \in Caller, Fork(t) PROVE Descriptors'
  BY <1>1, <1>2, <1>5 DEF Types, Fork, Goto, AfterFork, Holds
<1>6. ASSUME NEW t \in Caller, ForkFails(t) PROVE Descriptors'
  <2>1. /\ ~Holds(t)' /\ fdtab' = fdtab
        /\ (Holds(t) <=> call[t] = "redirect")
        /\ lost' = IF Holds(t) THEN lost \cup {fd[t]} ELSE lost
    BY <1>1, <1>6 DEF Types, ForkFails, Return, Holds
  <2>2. \A u \in Caller : u # t => Same(u)
    BY <1>1, <1>6 DEF Types, ForkFails, Return, Holds
  <2>3. CASE Holds(t)
    <3>1. \A u \in Caller : Holds(u) /\ u # t => fd[u] # fd[t]
      BY <1>1, <2>3 DEF Descriptors
    <3>. QED  BY <1>1, <2>1, <2>2, <2>3, <3>1 DEF Descriptors, DescriptorsAccounted
  <2>4. CASE ~Holds(t)
    BY <1>2, <2>1, <2>2, <2>4
  <2>. QED  BY <2>3, <2>4
<1>7. ASSUME NEW t \in Caller, CloseFile(t) PROVE Descriptors'
  <2>1. /\ Holds(t) /\ ~Holds(t)' /\ fdtab' = fdtab \ {fd[t]} /\ lost' = lost
    BY <1>1, <1>7 DEF Types, Places, CloseFile, Closed, Goto, Holds
  <2>2. \A u \in Caller : u # t => Same(u)
    BY <1>1, <1>7 DEF Types, CloseFile, Goto, Holds
  <2>3. \A u \in Caller : Holds(u) /\ u # t => fd[u] # fd[t]
    BY <1>1, <2>1 DEF Descriptors
  <2>4. fd[t] \notin lost
    BY <1>1, <2>1 DEF Descriptors
  <2>. QED  BY <1>1, <2>1, <2>2, <2>3, <2>4 DEF Descriptors, DescriptorsAccounted
<1>8. ASSUME NEW t \in Caller, Wait(t) \/ WaitSystem(t) PROVE Descriptors'
  BY <1>1, <1>2, <1>8 DEF Types, Wait, WaitSystem, Return, Holds
<1>9. ASSUME NEW p \in Pid, ChildStep(p) \/ CommandWrites(p) PROVE Descriptors'
  BY <1>2, <1>9 DEF ChildStep, Dup2, Exec, CommandWrites, CommandEnds, caller, Holds
<1>10. CASE UNCHANGED vars
  BY <1>2, <1>10 DEF vars, caller, Holds
<1>. QED  BY <1>3, <1>4, <1>5, <1>6, <1>7, <1>8, <1>9, <1>10 DEF Next, CallerStep

(* What is known of a call that has been the only one with a child.        *)
LEMMA NextAlone ==
  ASSUME IInv, [Next]_vars, NEW u \in Caller, alone'[u]
  PROVE  AloneInCall(u)' /\ AloneDone(u)'
<1> USE DEF Returned
<1>1. Types /\ Places /\ (alone[u] => AloneInCall(u) /\ AloneDone(u))
  BY DEF IInv
<1>2. ASSUME alone[u],
             /\ pc'[u] = pc[u] /\ call'[u] = call[u] /\ result'[u] = result[u]
             /\ mine'[u] = mine[u] /\ end'[u] = end[u] /\ file'[u] = file[u],
             Kids' \subseteq Kids,
             \A p \in Kids' : /\ kid'[p].by = kid[p].by /\ kid'[p].call = kid[p].call
                              /\ kid'[p].status = kid[p].status
      PROVE  AloneInCall(u)' /\ AloneDone(u)'
  <2>1. AloneInCall(u)'
    BY <1>1, <1>2 DEF AloneInCall
  <2>2. AloneDone(u)'
    BY <1>1, <1>2 DEF AloneDone
  <2>. QED  BY <2>1, <2>2
<1>3. ASSUME kid' = kid
      PROVE  /\ Kids' = Kids
             /\ \A p \in Kids' : /\ kid'[p].by = kid[p].by /\ kid'[p].call = kid[p].call
                                 /\ kid'[p].status = kid[p].status
  BY <1>3 DEF Kids
<1>4. ASSUME NEW t \in Caller, NEW f \in Function, Begin(t, f)
      PROVE  AloneInCall(u)' /\ AloneDone(u)'
  <2>1. CASE u = t
    <3>1. Kids = {} /\ Kids' = {} /\ end'[u] = "none"
      BY <1>1, <1>3, <1>4, <2>1 DEF Types, Begin
    <3>2. /\ pc'[u] \in {"open", "fork"} \/ (pc'[u] = "idle" /\ ~result'[u])
          /\ pc'[u] = "fork" => call'[u] # "redirect"
      BY <1>1, <1>4, <2>1 DEF Types, Begin, Goto, Return
    <3>. QED  BY <3>1, <3>2 DEF AloneInCall, AloneDone
  <2>2. CASE u # t
    BY <1>1, <1>2, <1>3, <1>4, <2>2 DEF Types, Begin, Goto, Return
  <2>. QED  BY <2>1, <2>2
<1>5. ASSUME NEW t \in Caller, OpenFile(t)
      PROVE  AloneInCall(u)' /\ AloneDone(u)'
  <2>1. CASE u = t
    <3>1. Kids = {} /\ Kids' = {} /\ end'[u] = "none" /\ call'[u] = call[u]
      BY <1>1, <1>3, <1>5, <2>1 DEF Types, OpenFile, AloneInCall
    <3>2. \/ pc'[u] = "fork" /\ file'[u] = {}
          \/ pc'[u] = "idle" /\ ~result'[u]
      BY <1>1, <1>5, <2>1 DEF Types, OpenFile, Goto, Return
    <3>. QED  BY <3>1, <3>2 DEF AloneInCall, AloneDone
  <2>2. CASE u # t
    BY <1>1, <1>2, <1>3, <1>5, <2>2 DEF Types, OpenFile, Goto, Return
  <2>. QED  BY <2>1, <2>2
<1>6. ASSUME NEW t \in Caller, Fork(t)
      PROVE  AloneInCall(u)' /\ AloneDone(u)'
  <2>1. PICK p \in Pid \ Kids :
           /\ Kids' = Kids \cup {p}
           /\ mine' = [mine EXCEPT ![t] = p] /\ mine'[t] = p
           /\ kid'[p].by = t /\ kid'[p].call = call[t]
           /\ kid'[p].status = "none" /\ kid'[p].at \in {"dup2", "exec"}
           /\ \A q \in Pid \ {p} : kid'[q] = kid[q]
    BY <1>1, <1>6, ForkEffect
  <2>2. /\ alone[u] /\ (u = t \/ pc[u] = "idle")
        /\ call' = call /\ file' = file /\ end' = end /\ result' = result
    BY <1>6 DEF Fork, Goto
  <2>3. CASE u = t
    <3>1. Kids = {} /\ end'[u] = "none" /\ pc[u] = "fork"
      BY <1>1, <1>6, <2>2, <2>3 DEF Fork, AloneInCall
    <3>2. pc'[u] \in {"close", "wait"}
      BY <1>1, <1>6, <2>3 DEF Types, Fork, Goto, AfterFork
    <3>3. call[u] = "redirect" => file'[u] \subseteq {"output"} \/ end'[u] = "noexec"
      BY <1>1, <2>2, <3>1 DEF AloneInCall
    <3>. QED  BY <2>1, <2>2, <2>3, <3>1, <3>2, <3>3 DEF AloneInCall, AloneDone
  <2>4. CASE u # t
    <3>1. pc'[u] = "idle" /\ pc[u] = "idle"
      BY <1>1, <1>6, <2>2, <2>4 DEF Types, Fork, Goto
    <3>2. AloneInCall(u)'
      BY <3>1 DEF AloneInCall
    <3>3. \A q \in Kids : kid'[q] = kid[q]
      BY <2>1 DEF Kids
    <3>4. AloneDone(u)'
      BY <1>1, <2>1, <2>2, <2>4, <3>1, <3>3 DEF AloneDone
    <3>. QED  BY <3>2, <3>4
  <2>. QED  BY <2>3, <2>4
<1>7. ASSUME NEW t \in Caller, ForkFails(t)
      PROVE  AloneInCall(u)' /\ AloneDone(u)'
  <2>1. CASE u = t
    <3>1. pc'[u] = "idle" /\ ~result'[u]
      BY <1>1, <1>7, <2>1 DEF Types, ForkFails, Return
    <3>. QED  BY <3>1 DEF AloneInCall, AloneDone
  <2>2. CASE u # t
    BY <1>1, <1>2, <1>3, <1>7, <2>2 DEF Types, ForkFails, Return
  <2>. QED  BY <2>1, <2>2
<1>8. ASSUME NEW t \in Caller, CloseFile(t)
      PROVE  AloneInCall(u)' /\ AloneDone(u)'
  <2>1. CASE u = t
    <3>1. pc[u] = "close" /\ pc'[u] = "wait"
      BY <1>1, <1>8, <2>1 DEF Types, CloseFile, Goto
    <3>2. UNCHANGED <<kid, mine, call, end, alone, file>>
      BY <1>8 DEF CloseFile
    <3>. QED  BY <1>1, <3>1, <3>2 DEF AloneInCall, AloneDone, Kids
  <2>2. CASE u # t
    BY <1>1, <1>2, <1>3, <1>8, <2>2 DEF Types, CloseFile, Goto
  <2>. QED  BY <2>1, <2>2
<1>9. ASSUME NEW p \in Kids, Reap(p)
      PROVE  /\ Kids' = Kids \ {p}
             /\ \A q \in Kids' : kid'[q] = kid[q]
  BY <1>1, <1>9, ReapEffect DEF Kids
<1>10. ASSUME NEW t \in Caller, Wait(t) \/ WaitSystem(t), u # t
      PROVE  AloneInCall(u)' /\ AloneDone(u)'
  <2>1. alone[u] /\ pc'[u] = pc[u] /\ call'[u] = call[u] /\ result'[u] = result[u]
        /\ mine'[u] = mine[u] /\ end'[u] = end[u] /\ file'[u] = file[u]
    BY <1>1, <1>10 DEF Types, Wait, WaitSystem, Return
  <2>2. kid' = kid \/ \E p \in Kids : Reap(p)
    <3>1. WaitSystem(t) => mine[t] \in Pid
      BY <1>1 DEF WaitSystem, Types, Places
    <3>. QED  BY <1>10, <3>1 DEF Wait, WaitSystem, Kids
  <2>. QED  BY <1>2, <1>3, <1>9, <2>1, <2>2
<1>11. ASSUME NEW t \in Caller, NEW p \in Kids, u = t, Reap(p), pc[t] = "wait",
              pc'[t] = "idle", UNCHANGED <<call, end, alone, file>>,
              result'[t] /\ call[t] # "system" => end[t] = "zero"
      PROVE  AloneInCall(u)' /\ AloneDone(u)'
  <2>1. Kids \subseteq {mine[t]} /\ Kids' = {}
    BY <1>1, <1>9, <1>11 DEF AloneInCall
  <2>2. call[t] = "redirect" => file[t] \subseteq {"output"} \/ end[t] = "noexec"
    BY <1>1, <1>11 DEF AloneInCall
  <2>. QED  BY <1>11, <2>1, <2>2 DEF AloneInCall, AloneDone
<1>12. ASSUME NEW t \in Caller, u = t, pc'[t] = "idle", ~result'[t]
      PROVE  AloneInCall(u)' /\ AloneDone(u)'
  BY <1>12 DEF AloneInCall, AloneDone
<1>13. ASSUME NEW t \in Caller, Wait(t), u = t
      PROVE  AloneInCall(u)' /\ AloneDone(u)'
  <2>1. ASSUME NEW p \in Kids, kid[p].at = "zombie", Reap(p),
               Return(t, Success(kid[p].status))
        PROVE  AloneInCall(u)' /\ AloneDone(u)'
    <3>1. pc[t] = "wait" /\ pc'[t] = "idle" /\ UNCHANGED <<call, end, alone, file>>
          /\ (result'[t] <=> kid[p].status = "zero") /\ call[t] # "system"
      BY <1>1, <1>13, <2>1 DEF Types, Wait, Return, Success
    <3>2. end[t] = kid[p].status
      BY <1>1, <1>13, <3>1 DEF AloneInCall
    <3>. QED  BY <1>11, <1>13, <2>1, <3>1, <3>2
  <2>2. CASE Return(t, FALSE)
    <3>1. pc'[t] = "idle" /\ ~result'[t]
      BY <1>1, <2>2 DEF Types, Return
    <3>. QED  BY <1>12, <1>13, <3>1
  <2>. QED  BY <1>13, <2>1, <2>2 DEF Wait
<1>14. ASSUME NEW t \in Caller, WaitSystem(t), u = t
      PROVE  AloneInCall(u)' /\ AloneDone(u)'
  <2>1. /\ pc[t] = "wait" /\ pc'[t] = "idle" /\ call[t] = "system"
        /\ UNCHANGED <<call, end, alone, file>>
    BY <1>1, <1>14 DEF Types, WaitSystem, Return
  <2>2. CASE kid[mine[t]].at = "zombie" /\ Reap(mine[t])
    <3>1. mine[t] \in Kids
      BY <1>1, <2>1, <2>2 DEF Types, Places, Kids
    <3>. QED  BY <1>11, <1>14, <2>1, <2>2, <3>1
  <2>3. CASE Return(t, FALSE)
    <3>1. ~result'[t]
      BY <1>1, <2>3 DEF Types, Return
    <3>. QED  BY <1>12, <1>14, <2>1, <3>1
  <2>. QED  BY <1>14, <2>2, <2>3 DEF WaitSystem
<1>15. ASSUME NEW p \in Kids, kid[p].at # "zombie", NEW status \in Ending,
              Ends(p, status), UNCHANGED <<caller, alone>>,
              status # "noexec" => file' = file,
              u # kid[p].by => file'[u] = file[u]
      PROVE  AloneInCall(u)' /\ AloneDone(u)'
  <2>1. /\ Kids' = Kids
        /\ kid'[p].status = status
        /\ \A q \in Pid : kid'[q].by = kid[q].by /\ kid'[q].call = kid[q].call
        /\ \A q \in Pid \ {p} : kid'[q] = kid[q]
    BY <1>1, <1>15, EndsEffect
  <2>2. alone[u] /\ UNCHANGED <<pc, call, mine, result>>
    BY <1>15 DEF caller
  <2>3. p \in Pid /\ kid[p].status = "none" /\ Kids \subseteq Pid
    BY <1>1, <1>15 DEF Places, Kids
  <2>4. CASE pc[u] \in {"open", "fork"}
    BY <1>1, <2>2, <2>4 DEF AloneInCall
  <2>5. CASE pc[u] \in {"close", "wait"}
    <3>1. p = mine[u] /\ kid[p].by = u /\ end[u] = "none"
      BY <1>1, <2>2, <2>3, <2>5 DEF AloneInCall
    <3>2. end'[u] = status
      BY <1>1, <1>15, <3>1 DEF Ends, Own, Types
    <3>3. call[u] = "redirect" => file'[u] \subseteq {"output"} \/ status = "noexec"
      BY <1>1, <1>15, <2>2, <2>5, <3>1 DEF AloneInCall
    <3>4. \A q \in Kids : q = p /\ kid[q].call = call[u]
      BY <1>1, <2>2, <2>5, <3>1 DEF AloneInCall
    <3>. QED  BY <2>1, <2>2, <2>3, <2>5, <3>1, <3>2, <3>3, <3>4
              DEF AloneInCall, AloneDone
  <2>6. CASE pc[u] = "idle"
    <3>1. AloneInCall(u)'
      BY <2>2, <2>6 DEF AloneInCall
    <3>2. SUFFICES ASSUME Returned(u), result[u] PROVE AloneDone(u)'
      BY <2>2, <3>1 DEF AloneDone
    <3>3. kid[p].by # u
      BY <1>1, <2>2, <3>2 DEF AloneDone
    <3>4. end'[u] = end[u] /\ file'[u] = file[u]
      BY <1>1, <1>15, <3>3 DEF Ends, Types
    <3>. QED  BY <1>1, <2>1, <2>2, <2>3, <3>2, <3>4 DEF AloneDone
  <2>. QED  BY <1>1, <2>4, <2>5, <2>6 DEF Types
<1>16. ASSUME NEW p \in Kids, kid[p].at # "zombie", Moves(p),
              UNCHANGED <<caller, alone, file, end>>
      PROVE  AloneInCall(u)' /\ AloneDone(u)'
  <2>1. /\ Kids' = Kids
        /\ \A q \in Pid : /\ kid'[q].by = kid[q].by /\ kid'[q].call = kid[q].call
                          /\ kid'[q].status = kid[q].status
    BY <1>1, <1>16, MoveEffect
  <2>. QED  BY <1>2, <1>16, <2>1 DEF caller, Kids
<1>17. ASSUME NEW p \in Kids, NEW what, ToFile(p, what), u # kid[p].by
       PROVE  file'[u] = file[u]
  <2>1. kid[p].by \in Caller
    BY <1>1, KidFacts DEF Kids
  <2>. QED  BY <1>1, <1>17, <2>1 DEF ToFile, Types
<1>18. ASSUME NEW p \in Pid, Dup2(p)
       PROVE  AloneInCall(u)' /\ AloneDone(u)'
  <2>1. p \in Kids /\ kid[p].at # "zombie"
    BY <1>18 DEF Dup2, Kids
  <2>. QED  BY <1>15, <1>16, <1>18, <2>1 DEF Dup2, Ending, Moves
<1>19. ASSUME NEW p \in Pid, Exec(p)
       PROVE  AloneInCall(u)' /\ AloneDone(u)'
  <2>1. p \in Kids /\ kid[p].at # "zombie"
    BY <1>19 DEF Exec, Kids
  <2>. QED  BY <1>15, <1>16, <1>17, <1>19, <2>1 DEF Exec, Ending, Moves
<1>20. ASSUME NEW p \in Pid, CommandEnds(p)
       PROVE  AloneInCall(u)' /\ AloneDone(u)'
  <2>1. p \in Kids /\ kid[p].at # "zombie"
    BY <1>20 DEF CommandEnds, Kids
  <2>. QED  BY <1>15, <1>20, <2>1 DEF CommandEnds, Ending
<1>21. ASSUME NEW p \in Pid, CommandWrites(p)
       PROVE  AloneInCall(u)' /\ AloneDone(u)'
  <2>1. p \in Kids
    BY <1>21 DEF CommandWrites, Kids
  <2>2. UNCHANGED <<pc, call, mine, result, kid, end, alone>> /\ Kids' = Kids
    BY <1>3, <1>21 DEF CommandWrites, caller
  <2>3. CASE u # kid[p].by
    <3>1. file'[u] = file[u]
      BY <1>17, <1>21, <2>1, <2>3 DEF CommandWrites
    <3>. QED  BY <1>2, <2>2, <3>1
  <2>4. CASE u = kid[p].by /\ pc[u] \in {"close", "wait"}
    <3>1. Own(p)
      BY <1>1, <2>1, <2>2, <2>4 DEF AloneInCall, Own
    <3>2. file'[u] \subseteq file[u] \cup {"output"}
      BY <1>1, <1>21, <2>4, <3>1 DEF CommandWrites, ToFile, Types
    <3>. QED  BY <1>1, <2>2, <2>4, <3>2 DEF AloneInCall, AloneDone
  <2>5. CASE u = kid[p].by /\ pc[u] \notin {"close", "wait"}
    BY <1>1, <2>1, <2>2, <2>5 DEF AloneInCall, AloneDone, Types
  <2>. QED  BY <2>3, <2>4, <2>5
<1>22. CASE UNCHANGED vars
  BY <1>2, <1>3, <1>22 DEF vars, caller
<1>. QED  BY <1>4, <1>5, <1>6, <1>7, <1>8, <1>10, <1>13, <1>14, <1>18, <1>19,
             <1>20, <1>21, <1>22 DEF Next, CallerStep, ChildStep

(* What system() knows of its own child.                                   *)
LEMMA NextSystem ==
  ASSUME IInv, [Next]_vars, NEW u \in Caller
  PROVE  SystemCall(u)'
<1> USE DEF Returned
<1>1. Types /\ Places /\ SystemCall(u)
  BY DEF IInv
<1>2. ASSUME /\ pc'[u] = pc[u] /\ call'[u] = call[u] /\ result'[u] = result[u]
             /\ mine'[u] = mine[u] /\ end'[u] = end[u],
             \A p \in Kids' : p \in Kids /\ kid'[p].by = kid[p].by,
             \A p \in Kids' : kid'[p].at = "zombie" => kid'[p] = kid[p]
      PROVE  SystemCall(u)'
  BY <1>1, <1>2 DEF SystemCall
<1>3. ASSUME kid' = kid
      PROVE  \A p \in Kids' : p \in Kids /\ kid'[p] = kid[p]
  BY <1>3 DEF Kids
<1>4. ASSUME pc'[u] # "wait", pc'[u] = "idle" => ~result'[u]
      PROVE  SystemCall(u)'
  BY <1>4 DEF SystemCall
<1>5. ASSUME NEW t \in Caller, NEW f \in Function, Begin(t, f) PROVE SystemCall(u)'
  <2>1. CASE u = t
    BY <1>1, <1>4, <1>5, <2>1 DEF Types, Begin, Goto, Return
  <2>2. CASE u # t
    BY <1>1, <1>2, <1>3, <1>5, <2>2 DEF Types, Begin, Goto, Return
  <2>. QED  BY <2>1, <2>2
<1>6. ASSUME NEW t \in Caller, OpenFile(t) \/ ForkFails(t) PROVE SystemCall(u)'
  <2>1. CASE u = t
    BY <1>1, <1>4, <1>6, <2>1 DEF Types, OpenFile, ForkFails, Goto, Return
  <2>2. CASE u # t
    BY <1>1, <1>2, <1>3, <1>6, <2>2 DEF Types, OpenFile, ForkFails, Goto, Return
  <2>. QED  BY <2>1, <2>2
<1>7. ASSUME NEW t \in Caller, CloseFile(t) PROVE SystemCall(u)'
  <2>1. CASE u = t
    <3>1. call'[u] # "system"
      BY <1>1, <1>7, <2>1 DEF Places, CloseFile
    <3>. QED  BY <3>1 DEF SystemCall
  <2>2. CASE u # t
    BY <1>1, <1>2, <1>3, <1>7, <2>2 DEF Types, CloseFile, Goto
  <2>. QED  BY <2>1, <2>2
<1>8. ASSUME NEW t \in Caller, Fork(t) PROVE SystemCall(u)'
  <2>1. PICK p \in Pid \ Kids :
           /\ Kids' = Kids \cup {p}
           /\ mine' = [mine EXCEPT ![t] = p] /\ mine'[t] = p
           /\ kid'[p].by = t /\ kid'[p].at \in {"dup2", "exec"}
           /\ \A q \in Pid \ {p} : kid'[q] = kid[q]
    BY <1>1, <1>8, ForkEffect
  <2>2. call' = call /\ end' = end /\ result' = result
    BY <1>8 DEF Fork, Goto
  <2>3. \A q \in Kids' : q = p \/ (q \in Kids /\ kid'[q] = kid[q])
    BY <2>1 DEF Kids
  <2>4. CASE u = t
    <3>1. pc'[u] \in {"close", "wait"}
      BY <1>1, <1>8, <2>4 DEF Types, Fork, Goto, AfterFork
    <3>. QED  BY <2>1, <2>3, <2>4, <3>1 DEF SystemCall
  <2>5. CASE u # t
    <3>1. pc'[u] = pc[u] /\ mine'[u] = mine[u]
      BY <1>1, <1>8, <2>1, <2>5 DEF Types, Fork, Goto
    <3>. QED  BY <1>1, <2>1, <2>2, <2>3, <2>5, <3>1 DEF SystemCall
  <2>. QED  BY <2>4, <2>5
<1>9. ASSUME NEW p \in Kids, Reap(p)
      PROVE  /\ Kids' = Kids \ {p}
             /\ \A q \in Kids' : q \in Kids /\ kid'[q] = kid[q]
  BY <1>1, <1>9, ReapEffect DEF Kids
<1>10. ASSUME NEW t \in Caller, Wait(t) PROVE SystemCall(u)'
  <2>1. CASE u = t
    <3>1. call'[u] # "system"
      BY <1>10, <2>1 DEF Wait
    <3>. QED  BY <3>1 DEF SystemCall
  <2>2. CASE u # t
    <3>1. /\ pc'[u] = pc[u] /\ call'[u] = call[u] /\ result'[u] = result[u]
          /\ mine'[u] = mine[u] /\ end'[u] = end[u]
      BY <1>1, <1>10, <2>2 DEF Types, Wait, Return
    <3>2. kid' = kid \/ \E p \in Kids : Reap(p)
      BY <1>10 DEF Wait
    <3>. QED  BY <1>2, <1>3, <1>9, <3>1, <3>2
  <2>. QED  BY <2>1, <2>2
<1>11. ASSUME NEW t \in Caller, WaitSystem(t) PROVE SystemCall(u)'
  <2> DEFINE p == mine[t]
  <2>1. /\ pc[t] = "wait" /\ call[t] = "system" /\ p \in Pid
        /\ UNCHANGED <<call, mine, end>>
    BY <1>1, <1>11 DEF Types, Places, WaitSystem
  <2>2. CASE kid[p].by = t /\ kid[p].at = "zombie" /\ Reap(p)
             /\ Return(t, Exited(kid[p].status))
    <3>1. p \in Kids
      BY <2>1, <2>2 DEF Kids
    <3>2. CASE u = t
      <4>1. end[u] = kid[p].status
        BY <1>1, <2>1, <2>2, <3>1, <3>2 DEF SystemCall
      <4>2. kid[p].status \in Ending
        <5>1. kid[p] \in Child
          BY <1>1, <3>1, KidFacts DEF Kids
        <5>. QED  BY <1>1, <2>1, <2>2, <5>1 DEF Places, Child
      <4>3. pc'[u] = "idle" /\ (result'[u] <=> kid[p].status # "signal")
        BY <1>1, <2>2, <3>2 DEF Types, Return, Exited
      <4>4. p \notin Kids'
        BY <1>9, <2>2, <3>1
      <4>. QED  BY <2>1, <3>2, <4>1, <4>2, <4>3, <4>4 DEF SystemCall, Ending
    <3>3. CASE u # t
      <4>1. pc'[u] = pc[u] /\ result'[u] = result[u]
        BY <1>1, <2>2, <3>3 DEF Types, Return
      <4>. QED  BY <1>2, <1>9, <2>1, <2>2, <3>1, <4>1
    <3>. QED  BY <3>2, <3>3
  <2>3. CASE Return(t, FALSE) /\ UNCHANGED kid
    <3>1. CASE u = t
      BY <1>1, <1>4, <2>3, <3>1 DEF Types, Return
    <3>2. CASE u # t
      BY <1>1, <1>2, <1>3, <2>1, <2>3, <3>2 DEF Types, Return
    <3>. QED  BY <3>1, <3>2
  <2>. QED  BY <1>11, <2>2, <2>3 DEF WaitSystem
<1>12. ASSUME NEW p \in Kids, NEW status, Ends(p, status), UNCHANGED caller
       PROVE  SystemCall(u)'
  <2>1. /\ Kids' = Kids
        /\ kid'[p].status = status
        /\ \A q \in Pid : kid'[q].by = kid[q].by
        /\ \A q \in Pid \ {p} : kid'[q] = kid[q]
    BY <1>1, <1>12, EndsEffect
  <2>2. UNCHANGED <<pc, call, mine, result>>
    BY <1>12 DEF caller
  <2>3. CASE p = mine[u] /\ kid[p].by = u
    <3>1. end'[u] = status
      BY <1>1, <1>12, <2>3 DEF Ends, Own, Types
    <3>. QED  BY <1>1, <2>1, <2>2, <2>3, <3>1 DEF SystemCall
  <2>4. CASE ~(p = mine[u] /\ kid[p].by = u)
    <3>1. end'[u] = end[u]
      BY <1>1, <1>12, <2>4 DEF Ends, Own, Types
    <3>2. \A q \in Kids : kid'[q].by = kid[q].by
      BY <2>1 DEF Kids
    <3>3. \A q \in Kids : q # p => kid'[q] = kid[q]
      BY <2>1 DEF Kids
    <3>. QED  BY <1>1, <2>1, <2>2, <2>4, <3>1, <3>2, <3>3 DEF SystemCall
  <2>. QED  BY <2>3, <2>4
<1>13. ASSUME NEW p \in Kids, kid[p].at # "zombie", Moves(p),
              UNCHANGED <<caller, end>>
       PROVE  SystemCall(u)'
  <2>1. /\ Kids' = Kids /\ kid'[p].at # "zombie"
        /\ \A q \in Pid : kid'[q].by = kid[q].by
        /\ \A q \in Pid \ {p} : kid'[q] = kid[q]
    BY <1>1, <1>13, MoveEffect
  <2>2. \A q \in Kids' : q \in Kids /\ kid'[q].by = kid[q].by
    BY <2>1 DEF Kids
  <2>3. \A q \in Kids' : kid'[q].at = "zombie" => kid'[q] = kid[q]
    BY <2>1 DEF Kids
  <2>. QED  BY <1>2, <1>13, <2>2, <2>3 DEF caller
<1>14. ASSUME NEW p \in Pid, ChildStep(p) \/ CommandWrites(p)
       PROVE  SystemCall(u)'
  <2>1. p \in Kids /\ kid[p].at # "zombie" /\ UNCHANGED caller
    BY <1>14 DEF ChildStep, Dup2, Exec, CommandWrites, CommandEnds, Kids
  <2>2. CASE Dup2(p)
    BY <1>12, <1>13, <2>1, <2>2 DEF Dup2, Moves
  <2>3. CASE Exec(p)
    BY <1>12, <1>13, <2>1, <2>3 DEF Exec, Moves
  <2>4. CASE CommandEnds(p)
    BY <1>12, <2>1, <2>4 DEF CommandEnds
  <2>5. CASE CommandWrites(p)
    BY <1>2, <1>3, <2>1, <2>5 DEF CommandWrites, caller
  <2>. QED  BY <1>14, <2>2, <2>3, <2>4, <2>5 DEF ChildStep
<1>15. CASE UNCHANGED vars
  BY <1>2, <1>3, <1>15 DEF vars, caller
<1>. QED  BY <1>5, <1>6, <1>7, <1>8, <1>10, <1>11, <1>14, <1>15
          DEF Next, CallerStep

(* Calls that follow one another, with no wait interrupted, stay alone.    *)
LEMMA NextOrderly == IInv /\ [Next]_vars => Orderly'
<1> SUFFICES ASSUME IInv, [Next]_vars, ~disturbed' PROVE Orderly'
  BY DEF Orderly
<1> DEFINE Idle == \A t \in Caller : pc[t] = "idle"
           NoStray == \A t \in Caller : "stray" \notin file[t]
<1>1. /\ Types /\ Places /\ Orderly
      /\ \A t \in Caller : alone[t] => AloneInCall(t) /\ AloneDone(t)
  BY DEF IInv
<1>2. ~disturbed
  BY <1>1 DEF Types, Next, CallerStep, ChildStep, vars, caller, Begin, OpenFile, Fork,
     ForkFails, CloseFile, Wait, WaitSystem, Dup2, Exec, CommandWrites, CommandEnds
<1>3. /\ \A t, u \in Caller : pc[t] # "idle" /\ pc[u] # "idle" => t = u
      /\ \A t \in Caller : alone[t] /\ AloneInCall(t)
      /\ Idle => Kids = {}
      /\ NoStray
  BY <1>1, <1>2 DEF Orderly
<1>4. ASSUME UNCHANGED <<pc, alone, file>>, Kids' = Kids PROVE Orderly'
  BY <1>3, <1>4 DEF Orderly
<1>5. ASSUME NEW t \in Caller, pc[t] # "idle",
             \A u \in Caller : u # t => pc'[u] = pc[u],
             pc'[t] = "idle" => Kids' = {},
             \A u \in Caller : alone'[u], NoStray'
      PROVE  Orderly'
  BY <1>3, <1>5 DEF Orderly
<1>6. ASSUME NEW t \in Caller, NEW f \in Function, Begin(t, f) PROVE Orderly'
  <2>1. Idle /\ Kids = {} /\ Kids' = {}
    BY <1>3, <1>6 DEF Begin, Kids
  <2>2. \A u \in Caller : alone'[u]
    BY <1>1, <1>3, <1>6, <2>1 DEF Types, Begin
  <2>3. \A u \in Caller : u # t => pc'[u] = "idle"
    BY <1>1, <1>6, <2>1 DEF Types, Begin, Goto, Return
  <2>4. NoStray'
    BY <1>3, <1>6 DEF Begin
  <2>. QED  BY <2>1, <2>2, <2>3, <2>4 DEF Orderly
<1>7. ASSUME NEW t \in Caller, OpenFile(t) PROVE Orderly'
  <2>1. Kids' = {}
    BY <1>3, <1>7 DEF OpenFile, AloneInCall, Kids
  <2>2. NoStray'
    BY <1>1, <1>3, <1>7 DEF Types, OpenFile
  <2>3. pc[t] # "idle" /\ UNCHANGED alone
    BY <1>7 DEF OpenFile
  <2>4. \A u \in Caller : u # t => pc'[u] = pc[u]
    BY <1>1, <1>7 DEF Types, OpenFile, Goto, Return
  <2>. QED  BY <1>3, <1>5, <2>1, <2>2, <2>3, <2>4
<1>8. ASSUME NEW t \in Caller, Fork(t) PROVE Orderly'
  <2>1. pc[t] = "fork" /\ pc'[t] # "idle" /\ NoStray'
    BY <1>1, <1>3, <1>8 DEF Types, Fork, Goto, AfterFork
  <2>2. \A u \in Caller : u # t => pc'[u] = pc[u]
    BY <1>1, <1>8 DEF Types, Fork, Goto
  <2>3. \A u \in Caller : alone'[u]
    BY <1>3, <1>8, <2>1 DEF Fork
  <2>. QED  BY <1>5, <2>1, <2>2, <2>3
<1>9. ASSUME NEW t \in Caller, ForkFails(t) PROVE Orderly'
  <2>1. Kids' = {}
    BY <1>3, <1>9 DEF ForkFails, AloneInCall, Kids
  <2>2. pc[t] # "idle" /\ UNCHANGED <<alone, file>>
    BY <1>9 DEF ForkFails
  <2>3. \A u \in Caller : u # t => pc'[u] = pc[u]
    BY <1>1, <1>9 DEF Types, ForkFails, Return
  <2>. QED  BY <1>3, <1>5, <2>1, <2>2, <2>3
<1>10. ASSUME NEW t \in Caller, CloseFile(t) PROVE Orderly'
  <2>1. pc[t] # "idle" /\ pc'[t] # "idle" /\ UNCHANGED <<alone, file>>
    BY <1>1, <1>10 DEF Types, CloseFile, Goto
  <2>2. \A u \in Caller : u # t => pc'[u] = pc[u]
    BY <1>1, <1>10 DEF Types, CloseFile, Goto
  <2>. QED  BY <1>3, <1>5, <2>1, <2>2
<1>11. ASSUME NEW t \in Caller, Wait(t) \/ WaitSystem(t) PROVE Orderly'
  <2>1. pc[t] = "wait" /\ UNCHANGED <<alone, file>>
    BY <1>11 DEF Wait, WaitSystem
  <2>2. \A u \in Caller : u # t => pc'[u] = pc[u]
    BY <1>1, <1>11 DEF Types, Wait, WaitSystem, Return
  <2>3. \A p \in Kids : p = mine[t] /\ kid[p].by = t
    BY <1>3, <2>1 DEF AloneInCall
  <2>4. ASSUME NEW p \in Kids, Reap(p) PROVE Kids' = {}
    <3>1. p \in Pid
      BY DEF Kids
    <3>2. Kids' = Kids \ {p}
      BY <1>1, <2>4, <3>1, ReapEffect
    <3>. QED  BY <2>3, <3>2
  <2>5. Kids' = {}
    <3>1. CASE Wait(t)
      BY <1>2, <2>4, <3>1 DEF Wait, Kids
    <3>2. CASE WaitSystem(t)
      <4>1. mine[t] \in Pid
        BY <1>1, <2>1 DEF Types, Places
      <4>2. kid[mine[t]].at = "zombie" => mine[t] \in Kids
        BY <4>1 DEF Kids
      <4>3. kid[mine[t]].by # t => Kids = {}
        BY <2>3
      <4>. QED  BY <2>4, <3>2, <4>2, <4>3 DEF WaitSystem, Kids
    <3>. QED  BY <1>11, <3>1, <3>2
  <2>. QED  BY <1>3, <1>5, <2>1, <2>2, <2>5
<1>12. ASSUME NEW p \in Kids, NEW what, ToFile(p, what), "stray" \notin what
       PROVE  NoStray'
  BY <1>1, <1>3, <1>12 DEF ToFile, Types
<1>13. ASSUME NEW p \in Pid, CommandWrites(p) PROVE Orderly'
  <2>1. p \in Kids
    BY <1>13 DEF CommandWrites, Kids
  <2>2. PICK t \in Caller : pc[t] # "idle"
    BY <1>3, <2>1
  <2>3. Own(p)
    BY <1>1, <1>3, <2>1, <2>2 DEF AloneInCall, Own, Types
  <2>4. NoStray'
    BY <1>12, <1>13, <2>1, <2>3 DEF CommandWrites
  <2>5. UNCHANGED <<pc, alone>> /\ Kids' = Kids
    BY <1>13 DEF CommandWrites, caller, Kids
  <2>. QED  BY <1>3, <2>4, <2>5 DEF Orderly
<1>14. ASSUME NEW p \in Pid, ChildStep(p) PROVE Orderly'
  <2>1. p \in Kids /\ kid[p].at # "zombie" /\ UNCHANGED <<pc, alone>>
    BY <1>14 DEF ChildStep, Dup2, Exec, CommandEnds, Kids, caller
  <2>2. Moves(p) \/ \E status : Ends(p, status)
    BY <1>14 DEF ChildStep, Dup2, Exec, CommandEnds, Moves
  <2>3. Kids' = Kids
    BY <1>1, <2>1, <2>2, EndsEffect, MoveEffect
  <2>4. NoStray'
    <3>1. "stray" \notin (IF tty THEN {"text"} ELSE {}) \cup WrittenAtExit(kid[p].buf)
      BY DEF WrittenAtExit
    <3>. QED  BY <1>3, <1>12, <1>14, <2>1, <3>1 DEF ChildStep, Dup2, Exec, CommandEnds
  <2>. QED  BY <1>3, <2>1, <2>3, <2>4 DEF Orderly
<1>15. CASE UNCHANGED vars
  BY <1>4, <1>15 DEF vars, caller, Kids
<1>. QED  BY <1>6, <1>7, <1>8, <1>9, <1>10, <1>11, <1>13, <1>14, <1>15
          DEF Next, CallerStep

(* What the program prints goes to a terminal or is thrown away.           *)
LEMMA NextNoText == IInv /\ [Next]_vars => NoText'
<1> SUFFICES ASSUME IInv, [Next]_vars, ~tty', NEW u \in Caller
             PROVE  "text" \notin file'[u]
  BY DEF NoText
<1>1. Types /\ NoText
  BY DEF IInv
<1>2. tty' = tty
  BY DEF Next, CallerStep, ChildStep, vars, Begin, OpenFile, Fork, ForkFails,
         CloseFile, Wait, WaitSystem, Dup2, Exec, CommandWrites, CommandEnds
<1>3. ASSUME file' = file PROVE "text" \notin file'[u]
  BY <1>1, <1>2, <1>3 DEF NoText
<1>4. ASSUME NEW t \in Caller, OpenFile(t) PROVE "text" \notin file'[u]
  <2>1. file' = [file EXCEPT ![t] = {}] \/ file' = file
    BY <1>4 DEF OpenFile
  <2>2. ASSUME file' = [file EXCEPT ![t] = {}] PROVE "text" \notin file'[u]
    BY <1>1, <1>2, <2>2 DEF Types, NoText
  <2>. QED  BY <1>3, <2>1, <2>2
<1>5. ASSUME NEW p, NEW what, ToFile(p, what), "text" \notin what
      PROVE  "text" \notin file'[u]
  BY <1>1, <1>2, <1>5 DEF ToFile, Types, NoText
<1>6. ASSUME NEW p \in Pid, Exec(p) \/ CommandWrites(p)
      PROVE  "text" \notin file'[u]
  <2>1. "text" \notin (IF tty THEN {"text"} ELSE {}) \cup WrittenAtExit(kid[p].buf)
    BY <1>2 DEF WrittenAtExit
  <2>2. "text" \notin {IF Own(p) THEN "output" ELSE "stray"}
    OBVIOUS
  <2>. QED  BY <1>3, <1>5, <1>6, <2>1, <2>2 DEF Exec, CommandWrites
<1>7. CASE UNCHANGED vars
  BY <1>3, <1>7 DEF vars
<1>8. ASSUME NEW t \in Caller,
             \/ \E f \in Function : Begin(t, f)
             \/ Fork(t) \/ ForkFails(t) \/ CloseFile(t) \/ Wait(t) \/ WaitSystem(t)
      PROVE  "text" \notin file'[u]
  BY <1>3, <1>8 DEF Begin, Fork, ForkFails, CloseFile, Wait, WaitSystem
<1>9. ASSUME NEW p \in Pid, Dup2(p) \/ CommandEnds(p)
      PROVE  "text" \notin file'[u]
  BY <1>3, <1>9 DEF Dup2, CommandEnds
<1>. QED  BY <1>4, <1>6, <1>7, <1>8, <1>9 DEF Next, CallerStep, ChildStep

----------------------------------------------------------------------------
(* The theorems.                                                           *)

(* The process starts with no call, no child and no descriptor.            *)
LEMMA InitIInv == Init => IInv
<1> SUFFICES ASSUME Init PROVE IInv
  OBVIOUS
<1>1. Kids = {}
  BY DEF Init, Kids, NoKid
<1>2. Types
  BY DEF Init, Types
<1>3. Places
  BY DEF Init, Places, NoKid
<1>4. \A t \in Caller : ~Holds(t)
  BY DEF Init, Holds
<1>5. Descriptors
  BY <1>4 DEF Init, Descriptors, DescriptorsAccounted
<1>6. \A t \in Caller : AloneInCall(t) /\ AloneDone(t)
  BY DEF Init, AloneInCall, AloneDone, Returned
<1>7. \A t \in Caller : SystemCall(t)
  BY DEF Init, SystemCall, Returned
<1>8. Orderly /\ NoText
  BY <1>1 DEF Init, Orderly, NoText
<1>. QED  BY <1>2, <1>3, <1>5, <1>6, <1>7, <1>8 DEF IInv

(* Every step of a thread, a child or a command preserves the invariant.   *)
LEMMA NextIInv == IInv /\ [Next]_vars => IInv'
<1> SUFFICES ASSUME IInv, [Next]_vars PROVE IInv'
  OBVIOUS
<1>1. \A t \in Caller : alone'[t] => AloneInCall(t)' /\ AloneDone(t)'
  BY NextAlone
<1>2. \A t \in Caller : SystemCall(t)'
  BY NextSystem
<1>. QED  BY <1>1, <1>2, NextTypes, NextPlaces, NextDescriptors, NextOrderly, NextNoText
          DEF IInv

(* In every execution the variables keep their types; a caller that got    *)
(* past fork knows the pid of its child.                                   *)
THEOREM TypeAlways == Spec => []TypeOK
<1>1. IInv => TypeOK
  <2> SUFFICES ASSUME IInv PROVE TypeOK
    OBVIOUS
  <2>1. Types /\ Places
    BY DEF IInv
  <2>2. \A p \in Pid : kid[p].at \in {"none", "dup2", "exec", "run", "zombie"}
    BY <2>1 DEF Types, Child, NoKid
  <2>. QED  BY <2>1, <2>2 DEF TypeOK, Types, Places
<1>. QED  BY InitIInv, NextIInv, <1>1, PTL DEF Spec

(* For any number of threads and calls and any failures but an interrupted *)
(* wait: while calls do not overlap, each finds the process without a      *)
(* child, has the only one, and leaves none for a later wait to take.      *)
THEOREM OrderlyCallsAlwaysAlone == Spec => []OrderlyCallsStayAlone
<1>1. IInv => OrderlyCallsStayAlone
  BY DEF IInv, Orderly, OrderlyCallsStayAlone
<1>. QED  BY InitIInv, NextIInv, <1>1, PTL DEF Spec

(* However many threads call the functions and whatever fails, a call of   *)
(* do_exec or do_exec_redirect that had the only child of the process      *)
(* returns true only if its command was executed, ended and returned zero. *)
THEOREM LoneCallAlwaysReports == Spec => []LoneCallReportsItsCommand
<1>1. IInv => LoneCallReportsItsCommand
  BY DEF IInv, AloneDone, LoneCallReportsItsCommand
<1>. QED  BY InitIInv, NextIInv, <1>1, PTL DEF Spec

(* And do_system returns true only if its own command ended otherwise than *)
(* by a signal, whatever child the waits of other threads take.            *)
THEOREM SystemAlwaysReportsItsOwn == Spec => []SystemReportsItsOwn
<1>1. IInv => SystemReportsItsOwn
  BY DEF IInv, SystemCall, SystemReportsItsOwn
<1>. QED  BY InitIInv, NextIInv, <1>1, PTL DEF Spec

(* The output file of a call with the only child holds the output of its   *)
(* command alone; output of an earlier command gets into a file only after *)
(* overlapping calls or an interrupted wait; and unless stdout is a        *)
(* terminal no output file ever holds text of the program's, because a     *)
(* child that cannot execute discards its buffer with _exit.               *)
THEOREM FileAlwaysHoldsOutput == Spec => []FileHoldsCommandOutput
<1>1. IInv => FileHoldsCommandOutput
  BY DEF IInv, Types, AloneDone, Orderly, NoText, FileHoldsCommandOutput
<1>. QED  BY InitIInv, NextIInv, <1>1, PTL DEF Spec

(* No call closes the descriptor of another, and none is left open but for *)
(* those of the calls whose fork failed.                                   *)
THEOREM DescriptorsAlwaysAccounted == Spec => []DescriptorsAccounted
<1>1. IInv => DescriptorsAccounted
  BY DEF IInv, Descriptors
<1>. QED  BY InitIInv, NextIInv, <1>1, PTL DEF Spec
=============================================================================
