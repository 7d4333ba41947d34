------------------------------ MODULE UploadLock ------------------------------
(***************************************************************************)
(* The single-instance lock of log uploads: acquire_lock, release_lock and *)
(* the frame of uploadstblogs_run and uploadstblogs_execute around them.   *)
(*                                                                         *)
(* The lock is an flock on /tmp/.log-upload.lock. The kernel keeps it per  *)
(* open file, that is per open() call; the program keeps the descriptor,   *)
(* and the RuntimeContext of the upload, in static variables, that is per  *)
(* process. dcmd calls uploadstblogs_run from its main thread and from the *)
(* log job's thread; the standalone programs have one thread.              *)
(***************************************************************************)
EXTENDS FiniteSets

CONSTANTS Procs,    \* processes
          Threads,  \* threads that upload
          ProcOf,   \* ProcOf[t]: the process of thread t
          Fds,      \* descriptors a process may have open on the lock file
          Closed,   \* lock_fd = -1
          Nobody    \* no holder, and a RuntimeContext that is all zeros

ASSUME ThreadAssumption == ProcOf \in [Threads -> Procs]
ASSUME LockAssumption ==
  /\ Closed \notin Fds
  /\ Nobody \notin Threads
  /\ Nobody \notin [proc : Procs, fd : Fds]

VARIABLES
  pc,       \* where each thread is
  lockFd,   \* static lock_fd of each process
  fds,      \* descriptors each process has open on the lock file
  holder,   \* the open file that holds the flock
  ctx       \* whose run the static RuntimeContext of each process describes

vars == <<pc, lockFd, fds, holder, ctx>>

\* The open file behind descriptor f of process p.
File(p, f) == [proc |-> p, fd |-> f]

TypeOK ==
  /\ pc \in [Threads -> {"idle", "entered", "opened", "locked", "uploading", "releasing"}]
  /\ lockFd \in [Procs -> Fds \cup {Closed}]
  /\ fds \in [Procs -> SUBSET Fds]
  /\ holder \in [proc : Procs, fd : Fds] \cup {Nobody}
  /\ ctx \in [Procs -> Threads \cup {Nobody}]

Init ==
  /\ pc = [t \in Threads |-> "idle"]
  /\ lockFd = [p \in Procs |-> Closed]
  /\ fds = [p \in Procs |-> {}]
  /\ holder = Nobody
  /\ ctx = [p \in Procs |-> Nobody]

Goto(t, at) == pc' = [pc EXCEPT ![t] = at]

\* close(): the flock goes with the last reference to the open file.
CloseFd(p, f) ==
  /\ fds' = [fds EXCEPT ![p] = @ \ {f}]
  /\ holder' = IF holder = File(p, f) THEN Nobody ELSE holder

\* The static context is cleared BEFORE the lock is tried.
Enter(t) ==
  /\ pc[t] = "idle"
  /\ ctx' = [ctx EXCEPT ![ProcOf[t]] = Nobody]
  /\ Goto(t, "entered")
  /\ UNCHANGED <<lockFd, fds, holder>>

\* open() into the static lock_fd, which may hold another thread's descriptor. It
\* can fail, and does when there is no descriptor left.
Open(t) ==
  /\ pc[t] = "entered"
  /\ LET p == ProcOf[t]
     IN  \/ \E f \in Fds \ fds[p] :
              /\ lockFd' = [lockFd EXCEPT ![p] = f]
              /\ fds' = [fds EXCEPT ![p] = @ \cup {f}]
              /\ Goto(t, "opened")
         \/ /\ lockFd' = [lockFd EXCEPT ![p] = Closed]
            /\ Goto(t, "idle")
            /\ UNCHANGED fds
  /\ UNCHANGED <<holder, ctx>>

\* Variant: the answer of flock() is not looked at.
FlockUnchecked(t) ==
  /\ pc[t] = "opened"
  /\ holder' = IF holder = Nobody THEN File(ProcOf[t], lockFd[ProcOf[t]]) ELSE holder
  /\ Goto(t, "locked")
  /\ UNCHANGED <<lockFd, fds, ctx>>

\* flock(lock_fd, LOCK_EX | LOCK_NB), of whatever lock_fd is by now: granted when
\* nobody holds the lock or that very open file does; else lock_fd is closed.
Flock(t) ==
  /\ pc[t] = "opened"
  /\ LET p == ProcOf[t]
         f == lockFd[p]
     IN  \/ /\ f \in fds[p] /\ holder \in {Nobody, File(p, f)}
            /\ holder' = File(p, f)
            /\ Goto(t, "locked")
            /\ UNCHANGED <<lockFd, fds>>
         \/ /\ ~(f \in fds[p] /\ holder \in {Nobody, File(p, f)})
            /\ CloseFd(p, f)
            /\ lockFd' = [lockFd EXCEPT ![p] = Closed]
            /\ Goto(t, "idle")
  /\ UNCHANGED ctx

\* Variant: the context is filled in a copy.
InitContextElsewhere(t) ==
  /\ pc[t] = "locked"
  /\ Goto(t, "uploading") \/ Goto(t, "releasing")
  /\ UNCHANGED <<lockFd, fds, holder, ctx>>

\* init_context fills the static context, or fails.
InitContext(t) ==
  /\ pc[t] = "locked"
  /\ \/ ctx' = [ctx EXCEPT ![ProcOf[t]] = t] /\ Goto(t, "uploading")
     \/ UNCHANGED ctx /\ Goto(t, "releasing")
  /\ UNCHANGED <<lockFd, fds, holder>>

\* Validation, the strategy, the upload and finalize; every way out of them, early
\* or not, goes through release_lock.
UploadEnds(t) ==
  /\ pc[t] = "uploading"
  /\ Goto(t, "releasing")
  /\ UNCHANGED <<lockFd, fds, holder, ctx>>

\* Variant: the descriptor is forgotten but not closed.
ReleaseForgetsClose(t) ==
  /\ pc[t] = "releasing"
  /\ lockFd' = [lockFd EXCEPT ![ProcOf[t]] = Closed]
  /\ Goto(t, "idle")
  /\ UNCHANGED <<fds, holder, ctx>>

\* release_lock closes lock_fd, whosever it is, unless it is -1.
Release(t) ==
  /\ pc[t] = "releasing"
  /\ LET p == ProcOf[t]
     IN  IF lockFd[p] # Closed
           THEN CloseFd(p, lockFd[p]) /\ lockFd' = [lockFd EXCEPT ![p] = Closed]
           ELSE UNCHANGED <<lockFd, fds, holder>>
  /\ Goto(t, "idle")
  /\ UNCHANGED ctx

\* A process ends, by itself or killed at any point, and may be started again: the
\* kernel closes its files, and its statics are gone.
Exit(p) ==
  /\ pc' = [t \in Threads |-> IF ProcOf[t] = p THEN "idle" ELSE pc[t]]
  /\ lockFd' = [lockFd EXCEPT ![p] = Closed]
  /\ fds' = [fds EXCEPT ![p] = {}]
  /\ holder' = IF holder # Nobody /\ holder.proc = p THEN Nobody ELSE holder
  /\ ctx' = [ctx EXCEPT ![p] = Nobody]

Run(t) == Open(t) \/ Flock(t) \/ InitContext(t) \/ UploadEnds(t) \/ Release(t)

Next == (\E t \in Threads : Enter(t) \/ Run(t)) \/ (\E p \in Procs : Exit(p))

Spec == Init /\ [][Next]_vars

\* A run that has begun goes on to its end; no run is obliged to begin.
FairSpec == Spec /\ \A t \in Threads : WF_vars(Run(t))

-----------------------------------------------------------------------------
(* Properties.                                                             *)

Inside(t) == pc[t] \in {"locked", "uploading", "releasing"}

\* The lock excludes: the static context, the archive and /tmp of an upload are
\* used by one run at a time, although each run tries the lock without waiting,
\* any process may be killed, and every path out must release.
MutualExclusion == \A t, u \in Threads : Inside(t) /\ Inside(u) => t = u

\* The flock is held only on behalf of a run that is inside: none is left behind
\* that would make every later upload fail until the process exits.
LockIsNotLeaked == holder # Nobody => \E t \in Threads : Inside(t) /\ ProcOf[t] = holder.proc

\* A run works with the context that it filled in, not with one that a call which
\* was to be refused has cleared.
ContextIsOwn == \A t \in Threads : pc[t] = "uploading" => ctx[ProcOf[t]] = t

Insider ==
  IF \E t \in Threads : Inside(t) THEN CHOOSE t \in Threads : Inside(t) ELSE Nobody

\* The lock is an implementation of UploadGuard: a run that is inside is ended by
\* itself or by its own process, and only then another begins.
Guard == INSTANCE UploadGuard
           WITH Callers <- Threads, NoCaller <- Nobody, inside <- Insider

ImplementsGuard == Guard!Spec

\* A later upload is possible again: what holds the lock lets go of it.
LockComesFree == (holder # Nobody) ~> (holder = Nobody)
=============================================================================
