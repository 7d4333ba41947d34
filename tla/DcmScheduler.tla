------------------------------ MODULE DcmScheduler ------------------------------
(***************************************************************************)
(* One DCMScheduler object of dcm_schedjob.c: the job thread that sleeps   *)
(* until the next time of its cron pattern and then runs the callback, and *)
(* the thread of the daemon that adds, starts, stops and removes the job.  *)
(*                                                                         *)
(* tMutex protects every shared field, so a critical section is one step.  *)
(* Two places keep the mutex or wait across steps and are split: the       *)
(* callback runs WITH the mutex held (pc = "callback"), and RemoveJob      *)
(* joins the thread after it released the mutex (call = "join").           *)
(*                                                                         *)
(* Time is the slot of the day, 0 .. Day-1, and is cyclic: a deadline is   *)
(* the slot it falls in plus a flag that says whether it was reached.      *)
(***************************************************************************)
EXTENDS Integers

CONSTANTS Day,       \* slots in a day
          Patterns,  \* cron expressions dcmCronParseExp accepts
          Fires      \* Fires[p]: the slots at which p fires, {} if p never does

ASSUME DayAssumption == Day \in Nat \ {0}

Slots == 0 .. (Day - 1)

ASSUME FiresAssumption == Fires \in [Patterns -> SUBSET Slots]

CONSTANTS NoPattern, \* parseData cleared by dcmCronParseExp or by AddJob
          NoDue,     \* no deadline, or the instant -1 that lies in the past
          Short,     \* an expression rejected for its number of fields
          Garbled    \* an expression rejected for the content of a field

ASSUME SentinelAssumption == /\ {NoPattern, Short, Garbled} \cap Patterns = {}
                             /\ NoPattern \notin {Short, Garbled}
                             /\ NoDue \notin Slots

VARIABLES
  startSched,  \* DCMScheduler.startSched
  terminated,  \* DCMScheduler.terminated
  parsed,      \* DCMScheduler.parseData
  pc,          \* where the job thread is
  signalled,   \* a signal was delivered to the waiting job thread
  due,         \* slot of the deadline in _now, while the thread has one
  expired,     \* the clock has reached that deadline
  now,         \* CLOCK_REALTIME, as the slot of the day
  call,        \* where the daemon's call on this object is
  arg          \* cron expression of a pending StartJob

handle == <<startSched, terminated, parsed>>
thread == <<pc, due, expired>>
client == <<call, arg>>
vars   == <<startSched, terminated, parsed, pc, signalled, due, expired, now, call, arg>>

ThreadStates == {"none", "lock", "idle", "sleeping", "timedout", "callback", "exited"}
CallStates   == {"absent", "none", "start", "stop", "remove", "join", "gone"}
CronStrings  == Patterns \cup {Short, Garbled}

\* The type invariant: every field stays in its range.
TypeOK ==
  /\ startSched \in BOOLEAN
  /\ terminated \in BOOLEAN
  /\ parsed \in Patterns \cup {NoPattern}
  /\ pc \in ThreadStates
  /\ signalled \in BOOLEAN
  /\ due \in Slots \cup {NoDue}
  /\ expired \in BOOLEAN
  /\ now \in Slots
  /\ call \in CallStates
  /\ arg \in CronStrings \cup {NoPattern}

Init ==
  /\ startSched = FALSE
  /\ terminated = FALSE
  /\ parsed = NoPattern
  /\ pc = "none"
  /\ signalled = FALSE
  /\ due = NoDue
  /\ expired = FALSE
  /\ now \in Slots
  /\ call = "absent"
  /\ arg = NoPattern

-----------------------------------------------------------------------------
(* The clock.                                                              *)

Tick ==
  /\ now' = (now + 1) % Day
  /\ expired' = (expired \/ now' = due)
  /\ UNCHANGED <<handle, pc, signalled, due, client>>

\* Slots from t to s going forward; a whole day when they are the same slot.
Ahead(t, s) == IF s > t THEN s - t ELSE s - t + Day

\* Variant: the next slot without the carry into the next day.
GetNextNoCarry(p, t) == t + 1

\* dcmCronParseGetNext: the first slot of p strictly after t.
GetNext(p, t) ==
  CHOOSE s \in Fires[p] : \A r \in Fires[p] : Ahead(t, s) <= Ahead(t, r)

-----------------------------------------------------------------------------
(* The job thread, dcmSchedulerThread.                                     *)

MutexFree == pc # "callback"

Waiting == pc \in {"idle", "sleeping"}

\* Variant: the state changes but nobody is told.
NoSignal == UNCHANGED signalled

\* pthread_cond_signal: lost unless the thread is waiting on tCond.
Signal == signalled' = (signalled \/ Waiting)

Exit ==
  /\ pc' = "exited"
  /\ due' = NoDue
  /\ expired' = FALSE
  /\ signalled' = FALSE

\* pthread_cond_wait: the thread releases the mutex and waits for a signal.
WaitForStart ==
  /\ ~terminated /\ ~startSched
  /\ pc' = "idle"
  /\ signalled' = FALSE
  /\ UNCHANGED <<due, expired>>

\* The deadline is computed once, then pthread_cond_timedwait. A pattern with
\* no next time makes GetNext return -1, a deadline already in the past.
Arm ==
  /\ ~terminated /\ startSched
  /\ pc' = "sleeping"
  /\ signalled' = FALSE
  /\ \/ /\ parsed \in Patterns /\ Fires[parsed] # {}
        /\ due' = GetNext(parsed, now)
        /\ expired' = FALSE
     \/ /\ ~(parsed \in Patterns /\ Fires[parsed] # {})
        /\ due' = NoDue
        /\ expired' = TRUE

\* From the mutex to the next wait: the termination test, the wait for
\* startSched, the second termination test and the computation of the deadline.
Proceed == (terminated /\ Exit) \/ WaitForStart \/ Arm

LoopTop ==
  /\ pc = "lock"
  /\ Proceed
  /\ UNCHANGED <<handle, now, client>>

\* pthread_cond_wait returns, signalled or spuriously, and the loop tests again.
IdleWake(spurious) ==
  /\ pc = "idle"
  /\ signalled # spurious
  /\ Proceed
  /\ UNCHANGED <<handle, now, client>>

\* pthread_cond_timedwait gives up at its deadline; the mutex is still to be
\* taken back, so another call can enter first. (Its other error returns, for
\* which the thread exits, need an invalid timespec: GetNext never makes one.)
SleepTimeout ==
  /\ pc = "sleeping"
  /\ expired
  /\ ~signalled
  /\ pc' = "timedout"
  /\ UNCHANGED <<handle, signalled, due, expired, now, client>>

\* Variant: every signal leaves the wait, and the deadline is computed again.
SleepWakeRecomputes(spurious) ==
  /\ pc = "sleeping"
  /\ signalled # spurious
  /\ pc' = "lock"
  /\ due' = NoDue
  /\ expired' = FALSE
  /\ signalled' = FALSE
  /\ UNCHANGED <<handle, now, client>>

\* pthread_cond_timedwait returns 0: the predicate is tested again, and the
\* wait resumes towards the SAME deadline while the job is still started.
SleepWake(spurious) ==
  /\ pc = "sleeping"
  /\ signalled # spurious
  /\ \/ /\ terminated
        /\ Exit
     \/ /\ ~terminated /\ startSched
        /\ signalled' = FALSE
        /\ UNCHANGED thread
     \/ /\ ~terminated /\ ~startSched
        /\ pc' = "lock"
        /\ due' = NoDue
        /\ expired' = FALSE
        /\ signalled' = FALSE
  /\ UNCHANGED <<handle, now, client>>

\* Variant: terminated is not tested after the wait.
FireUntested ==
  /\ pc = "timedout"
  /\ pc' = "callback"
  /\ UNCHANGED <<handle, signalled, due, expired, now, client>>

\* The mutex is taken back with n = ETIMEDOUT. Only terminated is tested.
FireOrExit ==
  /\ pc = "timedout"
  /\ \/ /\ terminated
        /\ Exit
     \/ /\ ~terminated
        /\ pc' = "callback"
        /\ UNCHANGED <<signalled, due, expired>>
  /\ UNCHANGED <<handle, now, client>>

\* Variant: the mutex is not released after the callback.
CallbackKeepsMutex ==
  /\ pc = "callback"
  /\ due' = NoDue
  /\ expired' = FALSE
  /\ UNCHANGED <<handle, pc, signalled, now, client>>

\* The callback returns and the thread releases the mutex.
CallbackDone ==
  /\ pc = "callback"
  /\ pc' = "lock"
  /\ due' = NoDue
  /\ expired' = FALSE
  /\ UNCHANGED <<handle, signalled, now, client>>

Thread ==
  \/ LoopTop
  \/ \E spurious \in BOOLEAN : IdleWake(spurious) \/ SleepWake(spurious)
  \/ SleepTimeout
  \/ FireOrExit
  \/ CallbackDone

-----------------------------------------------------------------------------
(* The daemon's calls. Each one that needs the mutex is requested in one   *)
(* step and takes effect in a later one, when the mutex is free.           *)

\* dcmSchedAddJob: the object is initialised and its thread created.
AddJob ==
  /\ call = "absent"
  /\ call' = "none"
  /\ pc' = "lock"
  /\ UNCHANGED <<handle, signalled, due, expired, now, arg>>

Request(op, a) ==
  /\ call = "none"
  /\ call' = op
  /\ arg' = a
  /\ UNCHANGED <<handle, thread, signalled, now>>

\* dcmSchedStartJob. A rejected expression clears startSched WITHOUT a signal;
\* dcmCronParseExp clears the parsed pattern unless it counts the fields wrong.
StartJob ==
  /\ call = "start"
  /\ MutexFree
  /\ \/ /\ arg \in Patterns
        /\ parsed' = arg
        /\ startSched' = TRUE
        /\ Signal
     \/ /\ arg \notin Patterns
        /\ parsed' = IF arg = Short THEN parsed ELSE NoPattern
        /\ startSched' = FALSE
        /\ UNCHANGED signalled
  /\ call' = "none"
  /\ arg' = NoPattern
  /\ UNCHANGED <<terminated, thread, now>>

\* dcmSchedStopJob.
StopJob ==
  /\ call = "stop"
  /\ MutexFree
  /\ startSched' = FALSE
  /\ Signal
  /\ call' = "none"
  /\ UNCHANGED <<terminated, parsed, thread, now, arg>>

\* dcmSchedRemoveJob up to the unlock ...
RemoveJob ==
  /\ call = "remove"
  /\ MutexFree
  /\ startSched' = FALSE
  /\ terminated' = TRUE
  /\ Signal
  /\ call' = "join"
  /\ UNCHANGED <<parsed, thread, now, arg>>

\* ... and from pthread_join to free().
JoinAndFree ==
  /\ call = "join"
  /\ pc = "exited"
  /\ call' = "gone"
  /\ UNCHANGED <<handle, thread, signalled, now, arg>>

Api ==
  \/ AddJob
  \/ \E c \in CronStrings : Request("start", c)
  \/ \E op \in {"stop", "remove"} : Request(op, NoPattern)
  \/ StartJob
  \/ StopJob
  \/ RemoveJob
  \/ JoinAndFree

Next == Tick \/ Thread \/ Api

Spec == Init /\ [][Next]_vars

(***************************************************************************)
(* Fairness. The clock advances; the kernel runs a runnable thread; a      *)
(* callback returns (an upload has timeouts and bounded retries). A call   *)
(* waiting for a mutex that is released again and again gets it in the     *)
(* end. A wait whose deadline has passed times out even if signals keep    *)
(* coming: main() sleeps a second between two StartJob calls (dcm.c:389).  *)
(* The daemon is never obliged to make a call, and a spurious wake-up is   *)
(* never obliged to happen.                                                *)
(***************************************************************************)
Fairness ==
  /\ WF_vars(Tick)
  /\ WF_vars(LoopTop)
  /\ WF_vars(IdleWake(FALSE))
  /\ SF_vars(SleepTimeout)
  /\ WF_vars(SleepWake(FALSE))
  /\ WF_vars(FireOrExit)
  /\ WF_vars(CallbackDone)
  /\ SF_vars(StartJob)
  /\ SF_vars(StopJob)
  /\ SF_vars(RemoveJob)
  /\ WF_vars(JoinAndFree)

FairSpec == Spec /\ Fairness

-----------------------------------------------------------------------------
(* Properties.                                                             *)

\* No lost wake-up: a thread parked in pthread_cond_wait (dcm_schedjob.c:66)
\* while the job is started or terminated has a signal on its way, and so has
\* one parked in pthread_cond_timedwait once the job is terminated. RemoveJob
\* joins that thread, so a lost signal would hang the daemon's shutdown.
NoLostWakeup ==
  /\ pc = "idle" /\ (startSched \/ terminated) => signalled
  /\ pc = "sleeping" /\ terminated => signalled

\* dcmSchedRemoveJob never interrupts a callback and none runs after it took
\* the mutex: from then on the callback's user data may be torn down.
NoCallbackOnceTerminated == terminated => pc # "callback"

\* A started job runs its callback, is stopped, or is removed; in particular
\* an endless stream of StartJob calls cannot postpone the callback for ever,
\* because a signal resumes the wait towards the same deadline.
StartedJobFires == startSched ~> (pc = "callback" \/ ~startSched)

\* Every call returns although the mutex is held for the whole of a callback; that
\* of dcmSchedRemoveJob when its signal and its join have completed, whatever the
\* thread was doing.
CallsReturn ==
  /\ (call \in {"start", "stop"}) ~> (call = "none")
  /\ (call = "remove") ~> (call = "gone")

\* The scheduler is an implementation of ScheduledJob: the thread is armed from
\* its entry in pthread_cond_timedwait until it fires or gives up.
Promise == INSTANCE ScheduledJob
             WITH on <- startSched,
                  armed <- pc \in {"sleeping", "timedout"},
                  running <- pc = "callback",
                  gone <- terminated

\* Every step of the scheduler is a step of that promise or changes nothing it
\* is about: at most one run is left over when a job is switched off.
KeepsPromise == Promise!Spec

=============================================================================
