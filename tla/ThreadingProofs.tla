--------------------------- MODULE ThreadingProofs ---------------------------
(* Theorems about the threads of threading.c, for any number of them.       *)
EXTENDS Threading, TLAPS

USE ThreadAssumption, FaultAssumption

(* None of the properties is inductive without knowing that the calls of a *)
(* thread that has not returned have all succeeded.                        *)
NoFailureYet ==
  \A t \in Thread : pc[t] \notin {"returned", "joined"} => failed[t] = "none"

TInv ==
  TypeOK /\ MutexFollowsThread /\ SuccessIsTrue /\ DataOutlivesThread /\ NoFailureYet

(* No call has been made.                                                  *)
LEMMA InitTInv == Init => TInv
BY DEF Init, TInv, TypeOK, MutexFollowsThread, SuccessIsTrue, DataOutlivesThread,
       NoFailureYet, Running

(* Every step of a call, of its thread and of the joiner keeps TInv.       *)
LEMMA NextTInv == TInv /\ [Next]_vars => TInv'
<1> SUFFICES ASSUME TInv, [Next]_vars PROVE TInv'
  OBVIOUS
<1> USE DEF TInv, Step
<1>1. CASE UNCHANGED vars
  BY <1>1 DEF vars, TypeOK, MutexFollowsThread, SuccessIsTrue, DataOutlivesThread,
              NoFailureYet
<1>2. ASSUME NEW t \in Thread, AllocateData(t) PROVE TInv'
  <2>1. TypeOK'
    BY <1>2 DEF AllocateData, TypeOK, Running, DataOutlivesThread
  <2>2. MutexFollowsThread'
    BY <1>2 DEF AllocateData, TypeOK, MutexFollowsThread, NoFailureYet
  <2>3. SuccessIsTrue'
    BY <1>2 DEF AllocateData, TypeOK, SuccessIsTrue, NoFailureYet
  <2>4. DataOutlivesThread'
    BY <1>2 DEF AllocateData, TypeOK, DataOutlivesThread
  <2>5. NoFailureYet'
    BY <1>2 DEF AllocateData, TypeOK, NoFailureYet
  <2>. QED  BY <2>1, <2>2, <2>3, <2>4, <2>5
<1>3. ASSUME NEW t \in Thread, CreateThread(t) PROVE TInv'
  <2>1. TypeOK'
    BY <1>3 DEF CreateThread, TypeOK, Running, DataOutlivesThread
  <2>2. MutexFollowsThread'
    BY <1>3 DEF CreateThread, TypeOK, MutexFollowsThread, NoFailureYet
  <2>3. SuccessIsTrue'
    BY <1>3 DEF CreateThread, TypeOK, SuccessIsTrue, NoFailureYet
  <2>4. DataOutlivesThread'
    BY <1>3 DEF CreateThread, TypeOK, DataOutlivesThread
  <2>5. NoFailureYet'
    BY <1>3 DEF CreateThread, TypeOK, NoFailureYet
  <2>. QED  BY <2>1, <2>2, <2>3, <2>4, <2>5
<1>4. ASSUME NEW t \in Thread, FirstSleep(t) PROVE TInv'
  <2>1. CASE Step(t, "sleep1", "lock") /\ UNCHANGED <<mutex, data, success, failed>>
    <3>1. TypeOK'
      BY <2>1 DEF TypeOK, Running, DataOutlivesThread
    <3>2. MutexFollowsThread'
      BY <2>1 DEF TypeOK, MutexFollowsThread, NoFailureYet
    <3>3. SuccessIsTrue'
      BY <2>1 DEF TypeOK, SuccessIsTrue, NoFailureYet
    <3>4. DataOutlivesThread'
      BY <2>1 DEF TypeOK, DataOutlivesThread
    <3>5. NoFailureYet'
      BY <2>1 DEF TypeOK, NoFailureYet
    <3>. QED  BY <3>1, <3>2, <3>3, <3>4, <3>5
  <2>2. CASE Return(t, "sleep1", "false") /\ Fails(t, "usleep") /\ UNCHANGED <<mutex, data>>
    <3>1. TypeOK'
      BY <2>2 DEF Return, Fails, TypeOK, Running, DataOutlivesThread
    <3>2. MutexFollowsThread'
      BY <2>2 DEF Return, Fails, TypeOK, MutexFollowsThread, NoFailureYet
    <3>3. SuccessIsTrue'
      BY <2>2 DEF Return, Fails, TypeOK, SuccessIsTrue, NoFailureYet
    <3>4. DataOutlivesThread'
      BY <2>2 DEF Return, Fails, TypeOK, DataOutlivesThread
    <3>5. NoFailureYet'
      BY <2>2 DEF Return, Fails, TypeOK, NoFailureYet
    <3>. QED  BY <3>1, <3>2, <3>3, <3>4, <3>5
  <2>. QED  BY <1>4, <2>1, <2>2 DEF FirstSleep
<1>5. ASSUME NEW t \in Thread, Lock(t) PROVE TInv'
  <2>1. CASE Step(t, "lock", "sleep2") /\ mutex = NULL /\ mutex' = t /\ UNCHANGED <<data, success, failed>>
    <3>1. TypeOK'
      BY <2>1 DEF TypeOK, Running, DataOutlivesThread
    <3>2. MutexFollowsThread'
      BY <2>1 DEF TypeOK, MutexFollowsThread, NoFailureYet
    <3>3. SuccessIsTrue'
      BY <2>1 DEF TypeOK, SuccessIsTrue, NoFailureYet
    <3>4. DataOutlivesThread'
      BY <2>1 DEF TypeOK, DataOutlivesThread
    <3>5. NoFailureYet'
      BY <2>1 DEF TypeOK, NoFailureYet
    <3>. QED  BY <3>1, <3>2, <3>3, <3>4, <3>5
  <2>2. CASE Return(t, "lock", "false") /\ Fails(t, "lock") /\ UNCHANGED <<mutex, data>>
    <3>1. TypeOK'
      BY <2>2 DEF Return, Fails, TypeOK, Running, DataOutlivesThread
    <3>2. MutexFollowsThread'
      BY <2>2 DEF Return, Fails, TypeOK, MutexFollowsThread, NoFailureYet
    <3>3. SuccessIsTrue'
      BY <2>2 DEF Return, Fails, TypeOK, SuccessIsTrue, NoFailureYet
    <3>4. DataOutlivesThread'
      BY <2>2 DEF Return, Fails, TypeOK, DataOutlivesThread
    <3>5. NoFailureYet'
      BY <2>2 DEF Return, Fails, TypeOK, NoFailureYet
    <3>. QED  BY <3>1, <3>2, <3>3, <3>4, <3>5
  <2>. QED  BY <1>5, <2>1, <2>2 DEF Lock
<1>6. ASSUME NEW t \in Thread, SecondSleep(t) PROVE TInv'
  <2>1. CASE Step(t, "sleep2", "unlock") /\ UNCHANGED <<mutex, data, success, failed>>
    <3>1. TypeOK'
      BY <2>1 DEF TypeOK, Running, DataOutlivesThread
    <3>2. MutexFollowsThread'
      BY <2>1 DEF TypeOK, MutexFollowsThread, NoFailureYet
    <3>3. SuccessIsTrue'
      BY <2>1 DEF TypeOK, SuccessIsTrue, NoFailureYet
    <3>4. DataOutlivesThread'
      BY <2>1 DEF TypeOK, DataOutlivesThread
    <3>5. NoFailureYet'
      BY <2>1 DEF TypeOK, NoFailureYet
    <3>. QED  BY <3>1, <3>2, <3>3, <3>4, <3>5
  <2>2. CASE Return(t, "sleep2", "false") /\ Fails(t, "usleep") /\ mutex' = NULL /\ UNCHANGED data
    <3>1. TypeOK'
      BY <2>2 DEF Return, Fails, TypeOK, Running, DataOutlivesThread
    <3>2. MutexFollowsThread'
      BY <2>2 DEF Return, Fails, TypeOK, MutexFollowsThread, NoFailureYet
    <3>3. SuccessIsTrue'
      BY <2>2 DEF Return, Fails, TypeOK, SuccessIsTrue, NoFailureYet
    <3>4. DataOutlivesThread'
      BY <2>2 DEF Return, Fails, TypeOK, DataOutlivesThread
    <3>5. NoFailureYet'
      BY <2>2 DEF Return, Fails, TypeOK, NoFailureYet
    <3>. QED  BY <3>1, <3>2, <3>3, <3>4, <3>5
  <2>3. CASE Return(t, "sleep2", "false") /\ Fails(t, "unlock") /\ UNCHANGED <<mutex, data>>
    <3>1. TypeOK'
      BY <2>3 DEF Return, Fails, TypeOK, Running, DataOutlivesThread
    <3>2. MutexFollowsThread'
      BY <2>3 DEF Return, Fails, TypeOK, MutexFollowsThread, NoFailureYet
    <3>3. SuccessIsTrue'
      BY <2>3 DEF Return, Fails, TypeOK, SuccessIsTrue, NoFailureYet
    <3>4. DataOutlivesThread'
      BY <2>3 DEF Return, Fails, TypeOK, DataOutlivesThread
    <3>5. NoFailureYet'
      BY <2>3 DEF Return, Fails, TypeOK, NoFailureYet
    <3>. QED  BY <3>1, <3>2, <3>3, <3>4, <3>5
  <2>. QED  BY <1>6, <2>1, <2>2, <2>3 DEF SecondSleep, FailedSecondSleep
<1>7. ASSUME NEW t \in Thread, Unlock(t) PROVE TInv'
  <2>1. CASE Return(t, "unlock", "true") /\ mutex' = NULL /\ UNCHANGED <<data, failed>>
    <3>1. TypeOK'
      BY <2>1 DEF Return, TypeOK, Running, DataOutlivesThread
    <3>2. MutexFollowsThread'
      BY <2>1 DEF Return, TypeOK, MutexFollowsThread, NoFailureYet
    <3>3. SuccessIsTrue'
      BY <2>1 DEF Return, TypeOK, SuccessIsTrue, NoFailureYet
    <3>4. DataOutlivesThread'
      BY <2>1 DEF Return, TypeOK, DataOutlivesThread
    <3>5. NoFailureYet'
      BY <2>1 DEF Return, TypeOK, NoFailureYet
    <3>. QED  BY <3>1, <3>2, <3>3, <3>4, <3>5
  <2>2. CASE Return(t, "unlock", "false") /\ Fails(t, "unlock") /\ UNCHANGED <<mutex, data>>
    <3>1. TypeOK'
      BY <2>2 DEF Return, Fails, TypeOK, Running, DataOutlivesThread
    <3>2. MutexFollowsThread'
      BY <2>2 DEF Return, Fails, TypeOK, MutexFollowsThread, NoFailureYet
    <3>3. SuccessIsTrue'
      BY <2>2 DEF Return, Fails, TypeOK, SuccessIsTrue, NoFailureYet
    <3>4. DataOutlivesThread'
      BY <2>2 DEF Return, Fails, TypeOK, DataOutlivesThread
    <3>5. NoFailureYet'
      BY <2>2 DEF Return, Fails, TypeOK, NoFailureYet
    <3>. QED  BY <3>1, <3>2, <3>3, <3>4, <3>5
  <2>. QED  BY <1>7, <2>1, <2>2 DEF Unlock
<1>8. ASSUME NEW t \in Thread, Join(t) PROVE TInv'
  <2>1. TypeOK'
    BY <1>8 DEF Join, TypeOK, Running, DataOutlivesThread
  <2>2. MutexFollowsThread'
    BY <1>8 DEF Join, TypeOK, MutexFollowsThread, NoFailureYet
  <2>3. SuccessIsTrue'
    BY <1>8 DEF Join, TypeOK, SuccessIsTrue, NoFailureYet
  <2>4. DataOutlivesThread'
    BY <1>8 DEF Join, TypeOK, DataOutlivesThread
  <2>5. NoFailureYet'
    BY <1>8 DEF Join, TypeOK, NoFailureYet
  <2>. QED  BY <2>1, <2>2, <2>3, <2>4, <2>5
<1>. QED
  BY <1>1, <1>2, <1>3, <1>4, <1>5, <1>6, <1>7, <1>8 DEF Next, ThreadStep

(* However many threads share the mutex and whatever fails, it is held by  *)
(* the thread that waits to release it and by no thread that has returned, *)
(* except after a failed unlock.                                           *)
THEOREM MutexAlwaysFollows == Spec => []MutexFollowsThread
<1>1. TInv => MutexFollowsThread
  BY DEF TInv
<1>. QED  BY InitTInv, NextTInv, <1>1, PTL DEF Spec

(* thread_complete_success tells the joiner the truth.                     *)
THEOREM SuccessAlwaysTrue == Spec => []SuccessIsTrue
<1>1. TInv => SuccessIsTrue
  BY DEF TInv
<1>. QED  BY InitTInv, NextTInv, <1>1, PTL DEF Spec

(* A thread_data is live from its allocation to the join of its thread.    *)
THEOREM DataAlwaysOutlives == Spec => []DataOutlivesThread
<1>1. TInv => DataOutlivesThread
  BY DEF TInv
<1>. QED  BY InitTInv, NextTInv, <1>1, PTL DEF Spec

(* The variables keep their types and live blocks are initialised.         *)
THEOREM ThreadTypeAlways == Spec => []TypeOK
<1>1. TInv => TypeOK
  BY DEF TInv
<1>. QED  BY InitTInv, NextTInv, <1>1, PTL DEF Spec
=============================================================================
