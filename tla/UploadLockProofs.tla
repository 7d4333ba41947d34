---------------------------- MODULE UploadLockProofs ----------------------------
(***************************************************************************)
(* With one uploading thread per process the lock is safe, for any number  *)
(* of processes, however they end: mutual exclusion, no leaked flock, a    *)
(* context of one's own, and the implementation of UploadGuard. The runs   *)
(* show that each of the first three fails for two threads of dcmd.        *)
(***************************************************************************)
EXTENDS UploadLock, TLAPS

\* What uploadstblogs.md asks of the callers within a process.
OneThreadPerProcess == \A t, u \in Threads : ProcOf[t] = ProcOf[u] => t = u

(***************************************************************************)
(* The inductive invariant ties the three places the lock lives in, per    *)
(* thread: the static lock_fd, the process's open files, and the kernel's  *)
(* holder. With one thread per process lock_fd is always that thread's.    *)
(***************************************************************************)
Outside(t) ==
  pc[t] \in {"idle", "entered"} =>
    lockFd[ProcOf[t]] = Closed /\ fds[ProcOf[t]] = {}

Trying(t) ==
  pc[t] = "opened" =>
    lockFd[ProcOf[t]] \in Fds /\ fds[ProcOf[t]] = {lockFd[ProcOf[t]]}

Holding(t) ==
  Inside(t) =>
    /\ lockFd[ProcOf[t]] \in Fds /\ fds[ProcOf[t]] = {lockFd[ProcOf[t]]}
    /\ holder = File(ProcOf[t], lockFd[ProcOf[t]])

LockInv ==
  /\ TypeOK
  /\ \A t \in Threads : Outside(t) /\ Trying(t) /\ Holding(t)
  /\ LockIsNotLeaked
  /\ ContextIsOwn

-----------------------------------------------------------------------------
(* The types need no discipline of the callers: two threads of dcmd that   *)
(* overwrite and close each other's lock_fd leave it a descriptor or -1.   *)

LEMMA InitTypes == Init => TypeOK
  BY DEF Init, TypeOK

LEMMA StepTypes == TypeOK /\ [Next]_vars => TypeOK'
<1> SUFFICES ASSUME TypeOK, [Next]_vars PROVE TypeOK'
  OBVIOUS
<1> USE ThreadAssumption, LockAssumption DEF TypeOK, Goto, File
<1>1. ASSUME NEW t \in Threads, Enter(t) PROVE TypeOK'
  BY <1>1 DEF Enter
<1>2. ASSUME NEW t \in Threads, Open(t) PROVE TypeOK'
  BY <1>2 DEF Open
<1>3. ASSUME NEW t \in Threads, Flock(t) PROVE TypeOK'
  BY <1>3 DEF Flock, CloseFd
<1>4. ASSUME NEW t \in Threads, InitContext(t) PROVE TypeOK'
  BY <1>4 DEF InitContext
<1>5. ASSUME NEW t \in Threads, UploadEnds(t) PROVE TypeOK'
  BY <1>5 DEF UploadEnds
<1>6. ASSUME NEW t \in Threads, Release(t) PROVE TypeOK'
  BY <1>6 DEF Release, CloseFd
<1>7. ASSUME NEW p \in Procs, Exit(p) PROVE TypeOK'
  BY <1>7 DEF Exit
<1>8. CASE UNCHANGED vars
  BY <1>8 DEF vars
<1> QED
  BY <1>1, <1>2, <1>3, <1>4, <1>5, <1>6, <1>7, <1>8 DEF Next, Run

\* The flock is held by an open file of some process or by nobody, however many threads
\* of a process try the lock at once and in whatever order they close it.
THEOREM TypeCorrect == Spec => []TypeOK
  BY InitTypes, StepTypes, PTL DEF Spec

-----------------------------------------------------------------------------
LEMMA InitLock == Init => LockInv
  BY ThreadAssumption, LockAssumption
  DEF Init, LockInv, TypeOK, Outside, Trying, Holding, Inside, LockIsNotLeaked, ContextIsOwn

\* Each step moves the state of one thread's process only.
LEMMA StepLock ==
  ASSUME OneThreadPerProcess, LockInv, [Next]_vars
  PROVE  LockInv'
<1> USE ThreadAssumption, LockAssumption
    DEF OneThreadPerProcess, LockInv, TypeOK, Outside, Trying, Holding, Inside,
        LockIsNotLeaked, ContextIsOwn, Goto, File
<1>1. ASSUME NEW t \in Threads, Enter(t) PROVE LockInv'
  BY <1>1 DEF Enter
<1>2. ASSUME NEW t \in Threads, Open(t) PROVE LockInv'
  BY <1>2 DEF Open
<1>3. ASSUME NEW t \in Threads, Flock(t) PROVE LockInv'
  BY <1>3 DEF Flock, CloseFd
<1>4. ASSUME NEW t \in Threads, InitContext(t) PROVE LockInv'
  BY <1>4 DEF InitContext
<1>5. ASSUME NEW t \in Threads, UploadEnds(t) PROVE LockInv'
  BY <1>5 DEF UploadEnds
<1>6. ASSUME NEW t \in Threads, Release(t) PROVE LockInv'
  BY <1>6 DEF Release, CloseFd
<1>7. ASSUME NEW p \in Procs, Exit(p) PROVE LockInv'
  BY <1>7 DEF Exit
<1>8. CASE UNCHANGED vars
  BY <1>8 DEF vars
<1> QED
  BY <1>1, <1>2, <1>3, <1>4, <1>5, <1>6, <1>7, <1>8 DEF Next, Run

LEMMA LockInvariance == ASSUME OneThreadPerProcess PROVE Spec => []LockInv
<1>1. LockInv /\ [Next]_vars => LockInv'
  BY StepLock
<1> QED
  BY <1>1, InitLock, PTL DEF Spec

LEMMA HoldersExclude ==
  ASSUME OneThreadPerProcess, LockInv PROVE MutualExclusion
  BY ThreadAssumption DEF OneThreadPerProcess, LockInv, Holding, File, MutualExclusion

\* One upload at a time, whatever the number of processes, and whichever of them
\* are killed where.
THEOREM Exclusion == ASSUME OneThreadPerProcess PROVE Spec => []MutualExclusion
<1>1. LockInv => MutualExclusion
  BY HoldersExclude
<1> QED
  BY <1>1, LockInvariance, PTL

\* No flock outlives the run it was taken for.
THEOREM NoLeak == ASSUME OneThreadPerProcess PROVE Spec => []LockIsNotLeaked
  BY LockInvariance, PTL DEF LockInv

\* No refused call clears the context of the run that is inside.
THEOREM OwnContext == ASSUME OneThreadPerProcess PROVE Spec => []ContextIsOwn
  BY LockInvariance, PTL DEF LockInv

-----------------------------------------------------------------------------
(* The refinement: Insider is the one thread that is inside.               *)

LEMMA InsiderIsInside ==
  ASSUME MutualExclusion
  PROVE  /\ \A t \in Threads : Inside(t) => Insider = t
         /\ (\A t \in Threads : ~Inside(t)) => Insider = Nobody
<1>1. ASSUME NEW t \in Threads, Inside(t) PROVE Insider = t
  <2>1. PICK u \in Threads : u = Insider /\ Inside(u)
    BY <1>1, Zenon DEF Insider
  <2> QED
    BY <1>1, <2>1 DEF MutualExclusion
<1>2. ASSUME \A t \in Threads : ~Inside(t) PROVE Insider = Nobody
  BY <1>2 DEF Insider
<1> QED
  BY <1>1, <1>2

\* A step that moves no thread in or out leaves Insider alone.
LEMMA InsiderUnchanged ==
  ASSUME MutualExclusion, MutualExclusion', \A t \in Threads : Inside(t) <=> Inside(t)'
  PROVE  Insider' = Insider
<1>1. MutualExclusion' => /\ \A t \in Threads : Inside(t)' => Insider' = t
                          /\ (\A t \in Threads : ~Inside(t)') => Insider' = Nobody
  <2>1. ASSUME MutualExclusion' PROVE \A t \in Threads : Inside(t)' => Insider' = t
    <3>1. TAKE t \in Threads
    <3>2. HAVE Inside(t)'
    <3>3. PICK u \in Threads : u = Insider' /\ Inside(u)'
      BY <3>2, Zenon DEF Insider
    <3> QED
      BY <2>1, <3>2, <3>3 DEF MutualExclusion
  <2>2. (\A t \in Threads : ~Inside(t)') => Insider' = Nobody
    BY DEF Insider
  <2> QED
    BY <2>1, <2>2
<1> QED
  BY <1>1, InsiderIsInside

LEMMA StepGuard ==
  ASSUME OneThreadPerProcess, LockInv, LockInv', [Next]_vars
  PROVE  [Guard!Next]_Insider
<1>1. MutualExclusion /\ MutualExclusion'
  <2>1. MutualExclusion
    BY HoldersExclude
  <2>2. LockInv' => MutualExclusion'
    BY ThreadAssumption DEF OneThreadPerProcess, LockInv, Holding, File, MutualExclusion
  <2> QED
    BY <2>1, <2>2
<1>2. ASSUME \A t \in Threads : Inside(t) <=> Inside(t)' PROVE [Guard!Next]_Insider
  BY <1>1, <1>2, InsiderUnchanged
<1>3. ASSUME NEW t \in Threads, Inside(t), \A u \in Threads : ~Inside(u)'
      PROVE  [Guard!Next]_Insider
  <2>1. Insider = t /\ Insider' = Nobody
    BY <1>1, <1>3, InsiderIsInside DEF Insider
  <2> QED
    BY <2>1, LockAssumption DEF Guard!Next, Guard!End
<1> USE DEF LockInv, TypeOK, Inside, Goto
<1>4. ASSUME NEW t \in Threads, Enter(t) PROVE [Guard!Next]_Insider
  BY <1>2, <1>4 DEF Enter
<1>5. ASSUME NEW t \in Threads, Open(t) PROVE [Guard!Next]_Insider
  BY <1>2, <1>5 DEF Open
<1>6. ASSUME NEW t \in Threads, Flock(t) PROVE [Guard!Next]_Insider
  <2>1. CASE pc'[t] = "locked"
    <3>1. \A u \in Threads : ~Inside(u)
      BY <1>6, <2>1, ThreadAssumption, LockAssumption
      DEF Flock, OneThreadPerProcess, Holding, File
    <3>2. Insider = Nobody
      BY <3>1 DEF Insider
    <3>3. Inside(t)'
      BY <2>1
    <3>4. Insider' = t
      <4>1. PICK u \in Threads : u = Insider' /\ Inside(u)'
        BY <3>3, Zenon DEF Insider
      <4> QED
        BY <1>1, <3>3, <4>1 DEF MutualExclusion
    <3> QED
      BY <3>2, <3>4 DEF Guard!Next, Guard!Begin
  <2>2. CASE pc'[t] # "locked"
    BY <1>2, <1>6, <2>2 DEF Flock
  <2> QED
    BY <2>1, <2>2
<1>7. ASSUME NEW t \in Threads, InitContext(t) PROVE [Guard!Next]_Insider
  BY <1>2, <1>7 DEF InitContext
<1>8. ASSUME NEW t \in Threads, UploadEnds(t) PROVE [Guard!Next]_Insider
  BY <1>2, <1>8 DEF UploadEnds
<1>9. ASSUME NEW t \in Threads, Release(t) PROVE [Guard!Next]_Insider
  <2>1. Inside(t) /\ \A u \in Threads : ~Inside(u)'
    BY <1>1, <1>9 DEF Release, MutualExclusion
  <2> QED
    BY <1>3, <2>1
<1>10. ASSUME NEW p \in Procs, Exit(p) PROVE [Guard!Next]_Insider
  <2>1. CASE \E t \in Threads : Inside(t) /\ ProcOf[t] = p
    <3>1. PICK t \in Threads : Inside(t) /\ ProcOf[t] = p
      BY <2>1
    <3>2. \A u \in Threads : ~Inside(u)'
      BY <1>1, <1>10, <3>1 DEF Exit, MutualExclusion
    <3> QED
      BY <1>3, <3>1, <3>2
  <2>2. CASE ~ \E t \in Threads : Inside(t) /\ ProcOf[t] = p
    <3>1. \A t \in Threads : Inside(t) <=> Inside(t)'
      BY <1>10, <2>2 DEF Exit
    <3> QED
      BY <1>2, <3>1
  <2> QED
    BY <2>1, <2>2
<1>11. CASE UNCHANGED vars
  BY <1>2, <1>11 DEF vars
<1> QED
  BY <1>4, <1>5, <1>6, <1>7, <1>8, <1>9, <1>10, <1>11 DEF Next, Run

\* The lock implements UploadGuard: one caller inside, ended by its own process,
\* and only then the next.
THEOREM LockImplementsGuard == ASSUME OneThreadPerProcess PROVE Spec => ImplementsGuard
<1>1. Init => Guard!Init
  BY DEF Init, Guard!Init, Insider, Inside
<1>2. LockInv /\ LockInv' /\ [Next]_vars => [Guard!Next]_Insider
  BY StepGuard
<1> QED
  BY <1>1, <1>2, LockInvariance, PTL DEF Spec, ImplementsGuard, Guard!Spec
=============================================================================
