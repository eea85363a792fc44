----------------------------- MODULE Threading -----------------------------
(***************************************************************************)
(* examples/threading/threading.c: start_thread_obtaining_mutex allocates  *)
(* a thread_data and starts threadfunc, which sleeps, locks the mutex,     *)
(* sleeps, unlocks it and returns the block to whoever joins it.  Thread t *)
(* stands for one such call, its thread and its block.  A sleep ends some  *)
(* time.  pthreads and the joining caller of threading.h are external.     *)
(***************************************************************************)
CONSTANTS
  Thread,
  NULL,        \* nobody holds the mutex
  Faults       \* calls that may fail

ASSUME ThreadAssumption == NULL \notin Thread
ASSUME FaultAssumption == Faults \subseteq {"pthread_create", "usleep", "lock", "unlock"}

VARIABLES
  pc,          \* where the call, then the thread, is
  mutex,       \* its owner
  data,        \* the thread_data: "none", "live" or "freed"
  success,     \* thread_complete_success, "unset" as malloc leaves it
  failed       \* history: the call of the thread that failed, or "none"

vars == <<pc, mutex, data, success, failed>>

Init ==
  /\ pc = [t \in Thread |-> "new"]
  /\ mutex = NULL
  /\ data = [t \in Thread |-> "none"]
  /\ success = [t \in Thread |-> "unset"]
  /\ failed = [t \in Thread |-> "none"]

Step(t, from, to) == pc[t] = from /\ pc' = [pc EXCEPT ![t] = to]

Fails(t, what) == what \in Faults /\ failed' = [failed EXCEPT ![t] = what]

----------------------------------------------------------------------------
(* start_thread_obtaining_mutex.  malloc is taken to succeed.              *)

\* A slip: a field of the new block is not initialised.
AllocateUninitialised(t) ==
  /\ Step(t, "new", "create")
  /\ data' = [data EXCEPT ![t] = "live"]
  /\ UNCHANGED <<mutex, success, failed>>

AllocateData(t) ==
  /\ Step(t, "new", "create")
  /\ data' = [data EXCEPT ![t] = "live"]
  /\ success' = [success EXCEPT ![t] = "false"]
  /\ UNCHANGED <<mutex, failed>>

\* A slip: the function frees the block that it has handed to the thread.
CreateThreadFrees(t) ==
  /\ Step(t, "create", "sleep1")
  /\ data' = [data EXCEPT ![t] = "freed"]
  /\ UNCHANGED <<mutex, success, failed>>

\* When pthread_create fails nobody gets the block.
CreateThread(t) ==
  /\ \/ Step(t, "create", "sleep1")
     \/ "pthread_create" \in Faults /\ Step(t, "create", "not started")
  /\ UNCHANGED <<mutex, data, success, failed>>

----------------------------------------------------------------------------
(* threadfunc.                                                             *)

Return(t, from, value) ==
  Step(t, from, "returned") /\ success' = [success EXCEPT ![t] = value]

FirstSleep(t) ==
  /\ \/ Step(t, "sleep1", "lock") /\ UNCHANGED <<success, failed>>
     \/ Return(t, "sleep1", "false") /\ Fails(t, "usleep")
  /\ UNCHANGED <<mutex, data>>

\* A slip: the thread goes on whatever pthread_mutex_lock returned.
LockUnchecked(t) ==
  /\ Step(t, "lock", "sleep2")
  /\ mutex' = IF mutex = NULL THEN t ELSE mutex
  /\ UNCHANGED <<data, success, failed>>

Lock(t) ==
  /\ \/ /\ Step(t, "lock", "sleep2")
        /\ mutex = NULL /\ mutex' = t
        /\ UNCHANGED <<success, failed>>
     \/ Return(t, "lock", "false") /\ Fails(t, "lock") /\ UNCHANGED mutex
  /\ UNCHANGED data

\* A slip: the error path of the second sleep keeps the mutex.
FailedSleepKeepsMutex(t) ==
  Return(t, "sleep2", "false") /\ Fails(t, "usleep") /\ UNCHANGED <<mutex, data>>

\* It unlocks, and ignores what the unlock returns.
FailedSecondSleep(t) ==
  /\ "usleep" \in Faults
  /\ Return(t, "sleep2", "false")
  /\ \/ mutex' = NULL /\ Fails(t, "usleep")
     \/ Fails(t, "unlock") /\ UNCHANGED mutex
  /\ UNCHANGED data

SecondSleep(t) ==
  \/ Step(t, "sleep2", "unlock") /\ UNCHANGED <<mutex, data, success, failed>>
  \/ FailedSecondSleep(t)

\* A slip: success whatever pthread_mutex_unlock returned.
UnlockUnchecked(t) ==
  /\ Return(t, "unlock", "true")
  /\ \/ mutex' = NULL /\ UNCHANGED failed
     \/ Fails(t, "unlock") /\ UNCHANGED mutex
  /\ UNCHANGED data

Unlock(t) ==
  /\ \/ Return(t, "unlock", "true") /\ mutex' = NULL /\ UNCHANGED failed
     \/ Return(t, "unlock", "false") /\ Fails(t, "unlock") /\ UNCHANGED mutex
  /\ UNCHANGED data

\* pthread_join and free, by a caller that was told the thread was started.
Join(t) ==
  /\ Step(t, "returned", "joined")
  /\ data' = [data EXCEPT ![t] = "freed"]
  /\ UNCHANGED <<mutex, success, failed>>

----------------------------------------------------------------------------
ThreadStep(t) == FirstSleep(t) \/ Lock(t) \/ SecondSleep(t) \/ Unlock(t)

Next ==
  \E t \in Thread : AllocateData(t) \/ CreateThread(t) \/ ThreadStep(t) \/ Join(t)

Spec == Init /\ [][Next]_vars

\* Threads are scheduled and sleeps end; no call owes anyone a failure.  Each
\* thread locks the mutex once.
FairSpec ==
  Spec /\ \A t \in Thread : WF_vars(ThreadStep(t) /\ UNCHANGED failed)

----------------------------------------------------------------------------
Running == {"sleep1", "lock", "sleep2", "unlock"}

(* Variables have their types, and a live block is an initialised one.     *)
TypeOK ==
  /\ pc \in [Thread -> Running \cup {"new", "create", "not started", "returned",
                                     "joined"}]
  /\ mutex \in Thread \cup {NULL}
  /\ data \in [Thread -> {"none", "live", "freed"}]
  /\ success \in [Thread -> {"unset", "true", "false"}]
  /\ \A t \in Thread : data[t] = "live" => success[t] # "unset"
  /\ failed \in [Thread -> {"none", "usleep", "lock", "unlock"}]

(* A thread that waits to release the mutex holds it, and one that has     *)
(* returned does not, whichever of its calls failed on the way, unless it  *)
(* is the unlock that failed.                                              *)
MutexFollowsThread ==
  \A t \in Thread :
    /\ pc[t] \in {"sleep2", "unlock"} => mutex = t
    /\ mutex = t => pc[t] \in {"sleep2", "unlock"} \/ failed[t] = "unlock"

(* The joiner reads thread_complete_success: true when the thread obtained *)
(* the mutex, held it and released it, false when any of its calls failed. *)
SuccessIsTrue ==
  \A t \in Thread :
    pc[t] \in {"returned", "joined"} =>
      (success[t] = "true" <=> failed[t] = "none")

(* A thread_data lives from its allocation until its thread was joined;    *)
(* the block of a thread that could not be started is the only one that    *)
(* nobody frees ("It should be returned by your thread so it can be freed  *)
(* by the joiner thread").                                                 *)
DataOutlivesThread ==
  \A t \in Thread : data[t] = "live" <=> pc[t] \notin {"new", "joined"}

(* Every thread that was started returns, unless the mutex stays locked    *)
(* because unlocking it failed.                                            *)
ThreadsReturn ==
  \A t \in Thread :
    pc[t] \in Running ~> (pc[t] = "returned" \/ \E u \in Thread : failed[u] = "unlock")
=============================================================================
