-------------------------- MODULE DcmSchedulerProofs --------------------------
(***************************************************************************)
(* The safety of one scheduled job, for every day length and every table   *)
(* of cron patterns: type correctness, no lost wake-up, no callback once   *)
(* the job is terminated, and the implementation of ScheduledJob. Then of  *)
(* the cron expressions, for every pattern and units of the day: an answer *)
(* matches, nothing that matches comes before it, a search only goes       *)
(* forward, and no accepted pattern has a time outside the calendar.       *)
(***************************************************************************)
EXTENDS DcmScheduler, CronExpression, WellFoundedInduction, TLAPS

(***************************************************************************)
(* The inductive invariant. TypeOK and the two invariants of the runs are  *)
(* not enough: that a signal is still on its way is kept because a signal  *)
(* only exists for a waiting thread, and the calls that need a live thread *)
(* are only possible while the job is neither absent nor terminated.       *)
(***************************************************************************)
CallMatchesJob ==
  /\ terminated <=> call \in {"join", "gone"}
  /\ call = "absent" <=> pc = "none"
  /\ startSched => call \notin {"absent", "join", "gone"}

SignalHasWaiter == signalled => Waiting

IInv ==
  /\ TypeOK
  /\ NoLostWakeup
  /\ NoCallbackOnceTerminated
  /\ CallMatchesJob
  /\ SignalHasWaiter

-----------------------------------------------------------------------------
\* dcmCronParseGetNext answers with a slot of the pattern, and no other slot of
\* the pattern comes sooner: the CHOOSE that models it always has a witness.
LEMMA GetNextIsFirst ==
  ASSUME NEW p \in Patterns, NEW t \in Slots, Fires[p] # {}
  PROVE  /\ GetNext(p, t) \in Fires[p]
         /\ GetNext(p, t) \in Slots
         /\ \A r \in Fires[p] : Ahead(t, GetNext(p, t)) <= Ahead(t, r)
<1> DEFINE D == {Ahead(t, s) : s \in Fires[p]}
<1>1. Fires[p] \subseteq Slots
  BY FiresAssumption
<1>2. \A s \in Slots : Ahead(t, s) \in Nat
  BY DayAssumption DEF Ahead, Slots
<1>3. D \subseteq Nat /\ D # {}
  BY <1>1, <1>2
<1>4. PICK d \in D : \A e \in D : ~ (<<e, d>> \in OpToRel(<, Nat))
  <2> HIDE DEF D
  <2> QED
    BY <1>3, NatLessThanWellFounded, WFMin, Zenon
<1>5. \A e \in D : d <= e
  <2> HIDE DEF D
  <2>1. TAKE e \in D
  <2>2. e \in Nat /\ d \in Nat
    BY <1>3
  <2>3. ~ (e < d)
    BY <1>4, <2>2 DEF OpToRel
  <2> QED
    BY <2>2, <2>3
<1>6. PICK s \in Fires[p] : d = Ahead(t, s)
  OBVIOUS
<1>7. \A r \in Fires[p] : Ahead(t, s) <= Ahead(t, r)
  BY <1>5, <1>6
<1> QED
  BY <1>1, <1>7, Zenon DEF GetNext

-----------------------------------------------------------------------------
LEMMA InitIInv == Init => IInv
  BY DEF Init, IInv, TypeOK, NoLostWakeup, NoCallbackOnceTerminated,
         CallMatchesJob, SignalHasWaiter, ThreadStates, CallStates, Waiting

\* What the thread does between taking the mutex and its next wait.
LEMMA ProceedKeepsIInv ==
  ASSUME IInv, pc \in {"lock", "idle"}, Proceed, UNCHANGED <<handle, now, client>>
  PROVE  IInv'
<1> USE DEF IInv, TypeOK, NoLostWakeup, NoCallbackOnceTerminated, CallMatchesJob,
            SignalHasWaiter, ThreadStates, CallStates, Waiting, handle, client
<1>1. CASE terminated /\ Exit
  BY <1>1 DEF Exit
<1>2. CASE WaitForStart
  BY <1>2 DEF WaitForStart
<1>3. CASE Arm
  <2>1. due' \in Slots \cup {NoDue}
    BY <1>3, GetNextIsFirst DEF Arm
  <2> QED
    BY <1>3, <2>1 DEF Arm
<1> QED
  BY <1>1, <1>2, <1>3 DEF Proceed

LEMMA StepIInv == IInv /\ [Next]_vars => IInv'
<1> SUFFICES ASSUME IInv, [Next]_vars PROVE IInv'
  OBVIOUS
<1> USE DEF IInv, TypeOK, NoLostWakeup, NoCallbackOnceTerminated, CallMatchesJob,
            SignalHasWaiter, ThreadStates, CallStates, CronStrings, Waiting,
            handle, thread, client
<1>1. CASE Tick
  <2>1. now' \in Slots
    BY <1>1, DayAssumption DEF Tick, Slots
  <2> QED
    BY <1>1, <2>1 DEF Tick
<1>2. CASE LoopTop
  BY <1>2, ProceedKeepsIInv DEF LoopTop
<1>3. ASSUME NEW spurious \in BOOLEAN, IdleWake(spurious) PROVE IInv'
  BY <1>3, ProceedKeepsIInv DEF IdleWake
<1>4. ASSUME NEW spurious \in BOOLEAN, SleepWake(spurious) PROVE IInv'
  BY <1>4 DEF SleepWake, Exit
<1>5. CASE SleepTimeout
  BY <1>5 DEF SleepTimeout
<1>6. CASE FireOrExit
  <2>1. CASE terminated /\ Exit
    BY <1>6, <2>1 DEF FireOrExit, Exit
  <2>2. CASE ~terminated /\ pc' = "callback" /\ UNCHANGED <<signalled, due, expired>>
    BY <1>6, <2>2 DEF FireOrExit
  <2> QED
    BY <1>6, <2>1, <2>2 DEF FireOrExit
<1>7. CASE CallbackDone
  BY <1>7 DEF CallbackDone
<1>8. CASE AddJob
  BY <1>8 DEF AddJob
<1>9. ASSUME NEW c \in CronStrings, Request("start", c) PROVE IInv'
  BY <1>9 DEF Request
<1>10. ASSUME NEW op \in {"stop", "remove"}, Request(op, NoPattern) PROVE IInv'
  BY <1>10 DEF Request
<1>11. CASE StartJob
  <2>1. CASE arg \in Patterns
    BY <1>11, <2>1 DEF StartJob, MutexFree, Signal
  <2>2. CASE arg \notin Patterns
    <3>1. /\ call = "start" /\ call' = "none" /\ startSched' = FALSE
          /\ parsed' \in {parsed, NoPattern} /\ arg' = NoPattern
          /\ UNCHANGED <<terminated, pc, signalled, due, expired, now>>
      BY <1>11, <2>2 DEF StartJob
    <3> QED
      BY <3>1
  <2> QED
    BY <2>1, <2>2
<1>12. CASE StopJob
  BY <1>12 DEF StopJob, MutexFree, Signal
<1>13. CASE RemoveJob
  BY <1>13 DEF RemoveJob, MutexFree, Signal
<1>14. CASE JoinAndFree
  BY <1>14 DEF JoinAndFree
<1>15. CASE UNCHANGED vars
  BY <1>15 DEF vars
<1> QED
  BY <1>1, <1>2, <1>3, <1>4, <1>5, <1>6, <1>7, <1>8, <1>9, <1>10, <1>11, <1>12,
     <1>13, <1>14, <1>15 DEF Next, Thread, Api

\* The strengthened invariant holds of every behaviour of the scheduler.
THEOREM Invariance == Spec => []IInv
  BY InitIInv, StepIInv, PTL DEF Spec

\* Every field of DCMScheduler stays in its range; the deadline in particular is
\* a slot whenever the pattern has one.
THEOREM TypeCorrect == Spec => []TypeOK
  BY Invariance, PTL DEF IInv

\* No wait of dcmSchedulerThread outlasts the signal that should end it.
THEOREM WakeupsAreNeverLost == Spec => []NoLostWakeup
  BY Invariance, PTL DEF IInv

\* After dcmSchedRemoveJob took the mutex no callback is running or starts.
THEOREM TerminationStopsCallbacks == Spec => []NoCallbackOnceTerminated
  BY Invariance, PTL DEF IInv

-----------------------------------------------------------------------------
(* The refinement: every step is a step of ScheduledJob or a stutter.      *)

PJob == Promise!Next \/ UNCHANGED Promise!job

LEMMA StepPromise == IInv /\ [Next]_vars => PJob
<1> SUFFICES ASSUME IInv, [Next]_vars PROVE PJob
  OBVIOUS
<1> USE DEF IInv, TypeOK, NoCallbackOnceTerminated, CallMatchesJob, PJob,
            Promise!Next, Promise!job, handle, thread, client
<1>1. CASE Tick
  BY <1>1 DEF Tick
<1>2. ASSUME pc \in {"lock", "idle"}, Proceed, UNCHANGED <<handle, now, client>> PROVE PJob
  BY <1>2 DEF Proceed, Exit, WaitForStart, Arm, Promise!Arm
<1>3. CASE LoopTop
  BY <1>2, <1>3 DEF LoopTop
<1>4. ASSUME NEW spurious \in BOOLEAN, IdleWake(spurious) PROVE PJob
  BY <1>2, <1>4 DEF IdleWake
<1>5. ASSUME NEW spurious \in BOOLEAN, SleepWake(spurious) PROVE PJob
  BY <1>5 DEF SleepWake, Exit, Promise!Disarm
<1>6. CASE SleepTimeout
  BY <1>6 DEF SleepTimeout
<1>7. CASE FireOrExit
  BY <1>7 DEF FireOrExit, Exit, Promise!Run, Promise!Disarm
<1>8. CASE CallbackDone
  BY <1>8 DEF CallbackDone, Promise!Finish
<1>9. CASE AddJob
  BY <1>9 DEF AddJob
<1>10. ASSUME NEW op, NEW a, Request(op, a) PROVE PJob
  BY <1>10 DEF Request
<1>11. CASE StartJob
  BY <1>11 DEF StartJob, MutexFree, Promise!SwitchOn, Promise!SwitchOff
<1>12. CASE StopJob
  BY <1>12 DEF StopJob, MutexFree, Promise!SwitchOff
<1>13. CASE RemoveJob
  BY <1>13 DEF RemoveJob, MutexFree, Promise!Remove
<1>14. CASE JoinAndFree
  BY <1>14 DEF JoinAndFree
<1>15. CASE UNCHANGED vars
  BY <1>15 DEF vars
<1> QED
  BY <1>1, <1>3, <1>4, <1>5, <1>6, <1>7, <1>8, <1>9, <1>10, <1>11, <1>12, <1>13,
     <1>14, <1>15 DEF Next, Thread, Api

\* A job armed while it was on runs at most once more after it went off, runs
\* never overlap, and a removed job is silent: the scheduler implements the
\* abstract job.
THEOREM ImplementsScheduledJob == Spec => KeepsPromise
<1>1. Init => Promise!Init
  BY DEF Init, Promise!Init
<1> QED
  BY <1>1, Invariance, StepPromise, PTL DEF Spec, KeepsPromise, Promise!Spec, PJob

-----------------------------------------------------------------------------
(***************************************************************************)
(* The patterns of a job: the parser and the search of CronExpression, for *)
(* every text, every instant and all units of the day. Its variables are   *)
(* not those of a job; they are the ones of the call that the job's thread *)
(* makes, on a pattern that was accepted.                                  *)
(*                                                                         *)
(* That the answer matches, and that nothing is left out before it, are    *)
(* carried through the search by CronIInv and SkipIInv. What they rest on  *)
(* is the arithmetic of the calendar: that an instant has one broken-down  *)
(* time, what a write to one of its fields makes of the others, and what   *)
(* lies between two of them.                                               *)
(***************************************************************************)

-----------------------------------------------------------------------------
(* Numbers.                                                                *)

Less == {p \in Nat \X Nat : p[1] < p[2]}

LEMMA LessWellFounded == IsWellFoundedOn(Less, Nat)
<1>1. OpToRel(<, Nat) = Less
  BY DEF OpToRel, Less
<1> QED
  BY <1>1, NatLessThanWellFounded

\* A set of numbers has a smallest one.
LEMMA Smallest ==
  ASSUME NEW T \in SUBSET Nat, T # {}
  PROVE  \E x \in T : \A y \in T : x <= y
<1>1. PICK x \in T : \A y \in T : ~ (<<y, x>> \in Less)
  BY LessWellFounded, WFMin
<1>2. ASSUME NEW y \in T PROVE x <= y
  <2>1. x \in Nat /\ y \in Nat
    OBVIOUS
  <2>2. <<y, x>> \in Nat \X Nat
    BY <2>1
  <2>3. ~(<<y, x>>[1] < <<y, x>>[2])
    BY <1>1, <2>2 DEF Less
  <2> QED
    BY <2>1, <2>3
<1> QED
  BY <1>2

LEMMA MinIsSmallest ==
  ASSUME NEW T \in SUBSET Nat, T # {}
  PROVE  Min(T) \in T /\ \A y \in T : Min(T) <= y
  BY Smallest DEF Min

LEMMA DivMod ==
  ASSUME NEW a \in Int, NEW b \in Nat \ {0}, NEW r \in 0 .. b - 1
  PROVE  (a * b + r) \div b = a /\ (a * b + r) % b = r
  OBVIOUS

LEMMA DivModNat ==
  ASSUME NEW a \in Nat, NEW b \in Nat \ {0}, NEW r \in 0 .. b - 1
  PROVE  a * b + r \in Nat /\ (a * b + r) \div b = a /\ (a * b + r) % b = r
  BY DivMod

LEMMA DivModBack ==
  ASSUME NEW t \in Int, NEW b \in Nat \ {0}
  PROVE  /\ t = (t \div b) * b + (t % b) /\ t \div b \in Int /\ t % b \in 0 .. b - 1
         /\ t \in Nat => t \div b \in Nat
  OBVIOUS

LEMMA DivMono ==
  ASSUME NEW t \in Int, NEW u \in Int, t <= u, NEW b \in Nat \ {0}
  PROVE  t \div b <= u \div b
  OBVIOUS

\* What is greater in a higher unit is greater.
LEMMA HigherUnit ==
  ASSUME NEW b \in Nat \ {0}, NEW x \in Int, NEW y \in Int, x < y,
         NEW r \in 0 .. b - 1, NEW s \in Nat
  PROVE  x * b + r < y * b + s
<1>1. (x * b + r) \div b = x /\ (y * b) \div b = y /\ x * b + r \in Int /\ y * b \in Int
  BY DivMod
<1>2. x * b + r < y * b
  BY <1>1, DivMono
<1> QED
  BY <1>1, <1>2

-----------------------------------------------------------------------------
(* The calendar.                                                           *)

YearStart(y) == 365 * (y - 1) + (y - 1) \div 4 - (y - 1) \div 100 + (y - 1) \div 400
MonthLength(y, m) == DaysBefore(y, m + 1) - DaysBefore(y, m)

LEMMA YearStartInt == ASSUME NEW y \in Int PROVE YearStart(y) \in Int /\ DaysBefore(y, 0) = YearStart(y)
  BY DEF DaysBefore, YearStart

LEMMA DaysBeforeNat ==
  ASSUME NEW y \in Nat \ {0}, NEW m \in 0 .. 12
  PROVE  DaysBefore(y, m) \in Nat
  BY DEF DaysBefore

\* The end of December is the beginning of January.
LEMMA YearEnd == ASSUME NEW y \in Int PROVE DaysBefore(y, 12) = YearStart(y + 1)
  BY DEF DaysBefore, YearStart, IsLeap

LEMMA YearsLater ==
  ASSUME NEW y \in Int, NEW k \in Nat
  PROVE  YearStart(y) + 365 * k <= YearStart(y + k)
  BY DEF YearStart

LEMMA YearLow == ASSUME NEW d \in Nat PROVE YearStart((400 * d) \div 146097) <= d
  BY DEF YearStart

LEMMA YearHigh == ASSUME NEW d \in Nat PROVE YearStart((400 * d) \div 146097 + 3) > d
  BY DEF YearStart

LEMMA MonthLengths ==
  ASSUME NEW y \in Nat \ {0}, NEW m \in 0 .. 11
  PROVE  /\ MonthLength(y, m) \in 28 .. 31
         /\ DaysBefore(y, m) <= DaysBefore(y, 0) + 31 * m
         /\ m \in {0, 11} => MonthLength(y, m) = 31
         /\ m < 11 /\ MonthLength(y, m) # 31 => MonthLength(y, m + 1) = 31
  BY DEF DaysBefore, MonthLength

LEMMA MonthsLater ==
  ASSUME NEW y \in Nat \ {0}, NEW m \in 0 .. 12, NEW n \in 0 .. 12, m < n
  PROVE  DaysBefore(y, m) + 28 <= DaysBefore(y, n)
  BY DEF DaysBefore

LEMMA MonthsInOrder ==
  ASSUME NEW y \in Nat \ {0}, NEW m \in 0 .. 12, NEW n \in 0 .. 12, m <= n
  PROVE  DaysBefore(y, m) <= DaysBefore(y, n)
  BY DEF DaysBefore

LEMMA SomeYear ==
  ASSUME NEW d \in Nat
  PROVE  /\ YearOf(d) \in Nat \ {0}
         /\ DaysBefore(YearOf(d), 0) <= d /\ d < DaysBefore(YearOf(d), 12)
<1> DEFINE low == (400 * d) \div 146097
<1>1. low \in Nat
  OBVIOUS
<1>2. YearStart(low) <= d /\ d < YearStart(low + 3)
  BY YearLow, YearHigh
<1> HIDE DEF low
<1>3. \E y \in low .. low + 2 : YearStart(y) <= d /\ d < YearStart(y + 1)
  <2>1. YearStart(low + 1) \in Int /\ YearStart(low + 2) \in Int /\ low + 1 + 1 = low + 2 /\ low + 2 + 1 = low + 3
    BY <1>1, YearStartInt
  <2>2. CASE d < YearStart(low + 1)
    BY <1>1, <1>2, <2>2
  <2>3. CASE YearStart(low + 1) <= d /\ d < YearStart(low + 2)
    <3>1. low + 1 \in low .. low + 2
      BY <1>1
    <3> QED  BY <2>1, <2>3, <3>1
  <2>4. CASE YearStart(low + 2) <= d
    <3>1. low + 2 \in low .. low + 2
      BY <1>1
    <3> QED  BY <1>2, <2>1, <2>4, <3>1
  <2> QED  BY <2>1, <2>2, <2>3, <2>4
<1>4. \E y \in low .. low + 2 : DaysBefore(y, 0) <= d /\ d < DaysBefore(y, 12)
  BY <1>1, <1>3, YearStartInt, YearEnd
<1>5. /\ YearOf(d) \in low .. low + 2
      /\ DaysBefore(YearOf(d), 0) <= d /\ d < DaysBefore(YearOf(d), 12)
  BY <1>4 DEF YearOf, low
<1>6. YearOf(d) # 0
  <2>1. DaysBefore(0, 12) = 0
    BY YearEnd DEF YearStart
  <2> QED  BY <1>5, <2>1
<1> QED
  BY <1>1, <1>5, <1>6

\* There is no other year.
LEMMA OneYear ==
  ASSUME NEW y \in Int, NEW z \in Int, NEW d \in Int,
         DaysBefore(y, 0) <= d, d < DaysBefore(y, 12),
         DaysBefore(z, 0) <= d, d < DaysBefore(z, 12)
  PROVE  y = z
<1>1. ASSUME NEW a \in Int, NEW b \in Int, a < b PROVE YearStart(a + 1) <= YearStart(b)
  BY <1>1 DEF YearStart
<1>2. ~(y < z) /\ ~(z < y)
  BY <1>1, YearStartInt, YearEnd
<1> QED  BY <1>2

LEMMA SomeMonth ==
  ASSUME NEW y \in Nat \ {0}, NEW d \in Nat, DaysBefore(y, 0) <= d, d < DaysBefore(y, 12)
  PROVE  LET m == MonthOf(d, y)
         IN m \in 0 .. 11 /\ DaysBefore(y, m) <= d /\ d < DaysBefore(y, m + 1)
<1> DEFINE start == DaysBefore(y, 0)
           low == (d - start) \div 31
<1>0. start \in Nat
  BY DaysBeforeNat
<1>1. low \in Int /\ low * 31 <= d - start /\ d - start < low * 31 + 31 /\ d - start >= 0
  <2> HIDE DEF start
  <2> QED  BY <1>0 DEF start
<1>2. DaysBefore(y, 12) <= start + 366
  BY DEF DaysBefore
<1>3. low \in 0 .. 11
  <2>1. d < start + 366
    BY <1>0, <1>2, DaysBeforeNat
  <2> HIDE DEF low, start
  <2> QED  BY <1>0, <1>1, <2>1
<1> HIDE DEF low, start
<1>4. \E m \in low .. low + 1 : m \in 0 .. 11 /\ DaysBefore(y, m) <= d /\ d < DaysBefore(y, m + 1)
  <2>1. DaysBefore(y, low) <= start + 31 * low /\ DaysBefore(y, low) \in Nat /\ DaysBefore(y, low + 1) \in Nat
    <3>1. low \in 0 .. 12 /\ low + 1 \in 0 .. 12
      BY <1>3
    <3> QED  BY <1>3, <3>1, MonthLengths, DaysBeforeNat DEF start
  <2>2. DaysBefore(y, low) <= d
    BY <1>0, <1>1, <1>3, <2>1
  <2>3. CASE d < DaysBefore(y, low + 1)
    BY <1>3, <2>2, <2>3
  <2>4. CASE d >= DaysBefore(y, low + 1)
    <3>1. low # 11
      <4>1. 11 + 1 = 12 /\ DaysBefore(y, 12) \in Nat
        BY DaysBeforeNat
      <4> QED  BY <2>4, <4>1
    <3>2. low + 1 \in 0 .. 11
      BY <1>3, <3>1
    <3>3. start + 31 * low + 31 <= DaysBefore(y, low + 2)
      <4>1. ASSUME NEW m \in 0 .. 10 PROVE DaysBefore(y, 0) + 31 * m + 31 <= DaysBefore(y, m + 2)
        BY DEF DaysBefore
      <4> QED  BY <1>3, <3>2, <4>1 DEF start
    <3>4. d < DaysBefore(y, low + 2) /\ low + 2 = low + 1 + 1
      BY <1>0, <1>1, <1>3, <3>2, <3>3, DaysBeforeNat
    <3>5. low + 1 \in low .. low + 1
      BY <1>3
    <3> QED  BY <2>4, <3>2, <3>4, <3>5
  <2> QED  BY <2>1, <2>3, <2>4
<1>5. /\ MonthOf(d, y) \in low .. low + 1 /\ MonthOf(d, y) \in 0 .. 11
      /\ DaysBefore(y, MonthOf(d, y)) <= d /\ d < DaysBefore(y, MonthOf(d, y) + 1)
  BY <1>4 DEF MonthOf, low, start
<1> QED  BY <1>5

\* An earlier month ends before a later one begins.
LEMMA MonthOrder ==
  ASSUME NEW y \in Nat \ {0}, NEW m \in 0 .. 11, NEW z \in Nat \ {0}, NEW n \in 0 .. 11,
         12 * y + m < 12 * z + n
  PROVE  DaysBefore(y, m + 1) <= DaysBefore(z, n)
<1>1. m + 1 \in 0 .. 12 /\ n \in 0 .. 12
  OBVIOUS
<1>2. DaysBefore(y, m + 1) \in Nat /\ DaysBefore(z, n) \in Nat
  BY <1>1, DaysBeforeNat
<1>3. CASE y = z
  <2>1. m + 1 = n \/ m + 1 < n
    BY <1>3
  <2> QED  BY <1>1, <1>2, <1>3, <2>1, MonthsLater
<1>4. CASE y < z
  <2>1. DaysBefore(y, m + 1) <= DaysBefore(y, 12)
    BY <1>1, MonthsInOrder
  <2>2. DaysBefore(z, 0) <= DaysBefore(z, n)
    BY <1>1, MonthsInOrder
  <2>3. DaysBefore(y, 12) <= DaysBefore(z, 0)
    <3>1. YearStart(y + 1) <= YearStart(z)
      BY <1>4 DEF YearStart
    <3> QED  BY <3>1, YearEnd, YearStartInt
  <2>4. DaysBefore(y, 12) \in Nat /\ DaysBefore(z, 0) \in Nat
    BY DaysBeforeNat
  <2> QED  BY <1>2, <2>1, <2>2, <2>3, <2>4
<1> QED  BY <1>3, <1>4

LEMMA OneMonth ==
  ASSUME NEW y \in Nat \ {0}, NEW m \in 0 .. 11, NEW n \in 0 .. 11, NEW d \in Int,
         DaysBefore(y, m) <= d, d < DaysBefore(y, m + 1),
         DaysBefore(y, n) <= d, d < DaysBefore(y, n + 1)
  PROVE  m = n
<1>1. ASSUME NEW a \in 0 .. 11, NEW b \in 0 .. 11, a < b
      PROVE  DaysBefore(y, a + 1) <= DaysBefore(y, b)
  BY <1>1, MonthOrder
<1>2. /\ DaysBefore(y, m) \in Nat /\ DaysBefore(y, m + 1) \in Nat
      /\ DaysBefore(y, n) \in Nat /\ DaysBefore(y, n + 1) \in Nat
  BY DaysBeforeNat
<1>3. ~(m < n) /\ ~(n < m)
  BY <1>1, <1>2
<1> QED  BY <1>3

-----------------------------------------------------------------------------
(* Broken-down times.                                                      *)

Time == [year : Nat \ {0}, mon : 0 .. 11, mday : 1 .. 31, hour : 0 .. MaxHours - 1,
         min : 0 .. MaxMinutes - 1, sec : 0 .. MaxSeconds - 1]
Proper(c) == c \in Time /\ c.mday <= MonthLength(c.year, c.mon)

HoursOf(c) == DayNumber(c) * MaxHours + c.hour
MinutesOf(c) == HoursOf(c) * MaxMinutes + c.min
MonthNumber(c) == 12 * c.year + c.mon

LEMMA Units == MaxSeconds \in Nat \ {0} /\ MaxMinutes \in Nat \ {0} /\ MaxHours \in Nat \ {0}
  BY CronAssumption

LEMMA DayNumberOf ==
  ASSUME NEW c, c.mon \in 0 .. 11, c.year \in Nat \ {0}
  PROVE  DayNumber(c) = DaysBefore(c.year, c.mon) + c.mday - 1
<1>1. c.mon \div 12 = 0 /\ c.mon % 12 = c.mon /\ c.year + 0 = c.year
  OBVIOUS
<1> QED  BY <1>1 DEF DayNumber

LEMMA DayInMonth ==
  ASSUME NEW c, Proper(c)
  PROVE  /\ DayNumber(c) \in Nat
         /\ DayNumber(c) = DaysBefore(c.year, c.mon) + c.mday - 1
         /\ DaysBefore(c.year, c.mon) <= DayNumber(c)
         /\ DayNumber(c) < DaysBefore(c.year, c.mon + 1)
<1>1. c.mon \in 0 .. 12 /\ c.mon + 1 \in 0 .. 12 /\ c.mday \in 1 .. 31 /\ c.year \in Nat \ {0} /\ c.mon \in 0 .. 11
  BY DEF Proper, Time
<1>2. DaysBefore(c.year, c.mon) \in Nat /\ DaysBefore(c.year, c.mon + 1) \in Nat
  BY <1>1, DaysBeforeNat
<1> QED  BY <1>1, <1>2, DayNumberOf DEF Proper, MonthLength

LEMMA SplitInstant ==
  ASSUME NEW c
  PROVE  Instant(c) = MinutesOf(c) * MaxSeconds + c.sec
  BY DEF Instant, MinutesOf, HoursOf

\* The units of an instant, even if the next higher one overflows.
LEMMA SecondUnits ==
  ASSUME NEW c, DayNumber(c) \in Int, c.hour \in Int, c.min \in Int, c.sec \in 0 .. MaxSeconds - 1
  PROVE  /\ HoursOf(c) \in Int /\ MinutesOf(c) \in Int /\ Instant(c) \in Int
         /\ MinuteOf(Instant(c)) = MinutesOf(c) /\ Instant(c) % MaxSeconds = c.sec
<1>1. HoursOf(c) \in Int
  BY Units DEF HoursOf
<1>2. MinutesOf(c) \in Int
  BY <1>1, Units DEF MinutesOf
<1>3. MinutesOf(c) * MaxSeconds + c.sec \in Int
  BY <1>2, Units
<1> QED  BY <1>1, <1>2, <1>3, SplitInstant, DivMod, Units DEF MinuteOf

LEMMA MinuteUnits ==
  ASSUME NEW c, DayNumber(c) \in Int, c.hour \in Int, c.min \in 0 .. MaxMinutes - 1,
         c.sec \in 0 .. MaxSeconds - 1
  PROVE  HourOf(Instant(c)) = HoursOf(c) /\ MinuteOf(Instant(c)) % MaxMinutes = c.min
<1>1. MinuteOf(Instant(c)) = HoursOf(c) * MaxMinutes + c.min /\ HoursOf(c) \in Int
  BY SecondUnits, Units DEF MinutesOf
<1>2. /\ (HoursOf(c) * MaxMinutes + c.min) \div MaxMinutes = HoursOf(c)
      /\ (HoursOf(c) * MaxMinutes + c.min) % MaxMinutes = c.min
  BY <1>1, DivMod, Units
<1> QED  BY <1>1, <1>2 DEF HourOf

LEMMA HourUnits ==
  ASSUME NEW c, DayNumber(c) \in Int, c.hour \in 0 .. MaxHours - 1, c.min \in 0 .. MaxMinutes - 1,
         c.sec \in 0 .. MaxSeconds - 1
  PROVE  DayOf(Instant(c)) = DayNumber(c) /\ HourOf(Instant(c)) % MaxHours = c.hour
<1>1. HourOf(Instant(c)) = DayNumber(c) * MaxHours + c.hour
  BY MinuteUnits, Units DEF HoursOf
<1>2. /\ (DayNumber(c) * MaxHours + c.hour) \div MaxHours = DayNumber(c)
      /\ (DayNumber(c) * MaxHours + c.hour) % MaxHours = c.hour
  BY DivMod, Units
<1> QED  BY <1>1, <1>2 DEF DayOf

LEMMA InstantUnits ==
  ASSUME NEW t \in Nat
  PROVE  /\ MinuteOf(t) \in Nat /\ HourOf(t) \in Nat /\ DayOf(t) \in Nat
         /\ t % MaxSeconds \in 0 .. MaxSeconds - 1
         /\ MinuteOf(t) % MaxMinutes \in 0 .. MaxMinutes - 1
         /\ HourOf(t) % MaxHours \in 0 .. MaxHours - 1
         /\ t = MinuteOf(t) * MaxSeconds + (t % MaxSeconds)
         /\ MinuteOf(t) = HourOf(t) * MaxMinutes + (MinuteOf(t) % MaxMinutes)
         /\ HourOf(t) = DayOf(t) * MaxHours + (HourOf(t) % MaxHours)
<1>1. /\ MinuteOf(t) \in Nat /\ t % MaxSeconds \in 0 .. MaxSeconds - 1
      /\ t = MinuteOf(t) * MaxSeconds + (t % MaxSeconds)
  <2>1. t \in Int /\ MaxSeconds \in Nat \ {0}
    BY Units
  <2> QED  BY <2>1, DivModBack DEF MinuteOf
<1>2. /\ HourOf(t) \in Nat /\ MinuteOf(t) % MaxMinutes \in 0 .. MaxMinutes - 1
      /\ MinuteOf(t) = HourOf(t) * MaxMinutes + (MinuteOf(t) % MaxMinutes)
  <2>1. MinuteOf(t) \in Int /\ MinuteOf(t) \in Nat /\ MaxMinutes \in Nat \ {0}
    BY <1>1, Units
  <2> QED  BY <2>1, DivModBack DEF HourOf
<1>3. /\ DayOf(t) \in Nat /\ HourOf(t) % MaxHours \in 0 .. MaxHours - 1
      /\ HourOf(t) = DayOf(t) * MaxHours + (HourOf(t) % MaxHours)
  <2>1. HourOf(t) \in Int /\ HourOf(t) \in Nat /\ MaxHours \in Nat \ {0}
    BY <1>2, Units
  <2> QED  BY <2>1, DivModBack DEF DayOf
<1> QED  BY <1>1, <1>2, <1>3

\* gmtime_r takes an instant apart, and timegm puts it together again.
LEMMA BrokenProper ==
  ASSUME NEW t \in Nat
  PROVE  /\ Proper(Broken(t)) /\ Instant(Broken(t)) = t
         /\ DayNumber(Broken(t)) = DayOf(t) /\ HoursOf(Broken(t)) = HourOf(t)
         /\ MinutesOf(Broken(t)) = MinuteOf(t)
<1> DEFINE y == YearOf(DayOf(t))
           m == MonthOf(DayOf(t), y)
           c == Broken(t)
<1>1. /\ y \in Nat \ {0} /\ m \in 0 .. 11
      /\ DaysBefore(y, m) <= DayOf(t) /\ DayOf(t) < DaysBefore(y, m + 1)
  <2>1. y \in Nat \ {0} /\ DaysBefore(y, 0) <= DayOf(t) /\ DayOf(t) < DaysBefore(y, 12)
    BY InstantUnits, SomeYear
  <2> HIDE DEF y
  <2> QED  BY <2>1, InstantUnits, SomeMonth
<1>2. c = [year |-> y, mon |-> m, mday |-> DayOf(t) - DaysBefore(y, m) + 1,
           hour |-> HourOf(t) % MaxHours, min |-> MinuteOf(t) % MaxMinutes, sec |-> t % MaxSeconds]
  BY DEF Broken, BrokenInYear, BrokenIn
<1> HIDE DEF y, m, c
<1>3. MonthLength(y, m) \in 28 .. 31 /\ DaysBefore(y, m) \in Nat /\ DaysBefore(y, m + 1) \in Nat
  <2>1. m \in 0 .. 12 /\ m + 1 \in 0 .. 12
    BY <1>1
  <2> QED  BY <1>1, <2>1, MonthLengths, DaysBeforeNat
<1>4. c.mday \in 1 .. 31 /\ c.mday <= MonthLength(y, m) /\ DayOf(t) \in Nat
  <2>1. DayOf(t) \in Nat /\ c.mday = DayOf(t) - DaysBefore(y, m) + 1
    BY <1>2, InstantUnits
  <2> QED  BY <1>1, <1>3, <2>1 DEF MonthLength
<1>5. Proper(c)
  BY <1>1, <1>2, <1>4, InstantUnits DEF Proper, Time
<1>6. DayNumber(c) = DayOf(t)
  BY <1>2, <1>3, <1>4, <1>5, DayInMonth
<1>7. HoursOf(c) = HourOf(t)
  BY <1>2, <1>6, InstantUnits DEF HoursOf
<1>8. MinutesOf(c) = MinuteOf(t)
  BY <1>2, <1>7, InstantUnits DEF MinutesOf
<1>9. Instant(c) = t
  BY <1>2, <1>8, InstantUnits, SplitInstant
<1> QED  BY <1>5, <1>6, <1>7, <1>8, <1>9 DEF c

LEMMA ProperUnits ==
  ASSUME NEW c, Proper(c)
  PROVE  /\ Instant(c) \in Nat /\ DayNumber(c) \in Nat /\ HoursOf(c) \in Nat /\ MinutesOf(c) \in Nat
         /\ DayOf(Instant(c)) = DayNumber(c) /\ HourOf(Instant(c)) = HoursOf(c)
         /\ MinuteOf(Instant(c)) = MinutesOf(c)
         /\ HourOf(Instant(c)) % MaxHours = c.hour /\ MinuteOf(Instant(c)) % MaxMinutes = c.min
         /\ Instant(c) % MaxSeconds = c.sec
<1>1. /\ DayNumber(c) \in Nat /\ c.hour \in 0 .. MaxHours - 1 /\ c.min \in 0 .. MaxMinutes - 1
      /\ c.sec \in 0 .. MaxSeconds - 1
  BY DayInMonth DEF Proper, Time
<1>2. HoursOf(c) \in Nat
  BY <1>1, Units DEF HoursOf
<1>3. MinutesOf(c) \in Nat
  BY <1>1, <1>2, Units DEF MinutesOf
<1>4. MinutesOf(c) * MaxSeconds + c.sec \in Nat
  BY <1>1, <1>3, Units
<1> QED  BY <1>1, <1>2, <1>3, <1>4, SplitInstant, SecondUnits, MinuteUnits, HourUnits

LEMMA ProperBroken ==
  ASSUME NEW c, Proper(c)
  PROVE  Broken(Instant(c)) = c
<1> DEFINE t == Instant(c)
           b == Broken(t)
<1>1. t \in Nat /\ DayOf(t) = DayNumber(c)
  BY ProperUnits
<1>2. Proper(b) /\ DayNumber(b) = DayNumber(c)
  BY <1>1, BrokenProper
<1>3. b.hour = c.hour /\ b.min = c.min /\ b.sec = c.sec
  BY ProperUnits DEF Broken, BrokenInYear, BrokenIn
<1> HIDE DEF b, t
<1>4. /\ b.year \in Nat \ {0} /\ c.year \in Nat \ {0} /\ b.mon \in 0 .. 11 /\ c.mon \in 0 .. 11
      /\ b.mday \in 1 .. 31 /\ c.mday \in 1 .. 31
  BY <1>2 DEF Proper, Time
<1>5. b.year = c.year
  <2>1. ASSUME NEW a, Proper(a), a.year \in Nat \ {0}, a.mon \in 0 .. 11
        PROVE  DaysBefore(a.year, 0) <= DayNumber(a) /\ DayNumber(a) < DaysBefore(a.year, 12)
    <3>1. DaysBefore(a.year, 0) <= DaysBefore(a.year, a.mon) /\ DaysBefore(a.year, a.mon + 1) <= DaysBefore(a.year, 12)
      <4>1. a.mon \in 0 .. 12 /\ a.mon + 1 \in 0 .. 12
        BY <2>1
      <4> QED  BY <2>1, <4>1, MonthsInOrder
    <3>2. /\ DaysBefore(a.year, 0) \in Nat /\ DaysBefore(a.year, a.mon) \in Nat
          /\ DaysBefore(a.year, a.mon + 1) \in Nat /\ DaysBefore(a.year, 12) \in Nat
      BY <2>1, DaysBeforeNat
    <3> QED  BY <2>1, <3>1, <3>2, DayInMonth
  <2>2. DayNumber(c) \in Nat
    BY DayInMonth
  <2> QED  BY <1>2, <1>4, <2>1, <2>2, OneYear
<1>6. b.mon = c.mon
  BY <1>2, <1>4, <1>5, DayInMonth, OneMonth, SMTT(30)
<1>7. b.mday = c.mday
  <2>1. DaysBefore(c.year, c.mon) \in Nat
    BY <1>4, DaysBeforeNat
  <2> QED  BY <1>2, <1>4, <1>5, <1>6, <2>1, DayInMonth
<1>8. b \in Time /\ c \in Time
  BY <1>2 DEF Proper
<1> QED  BY <1>3, <1>5, <1>6, <1>7, <1>8 DEF Time, b, t

-----------------------------------------------------------------------------
(* Fields that are set and reset.                                          *)

\* A day that the month does not have is in a later month; the time of day stays.
LEMMA CarriedOver ==
  ASSUME NEW c \in Time
  PROVE  LET d == Broken(Instant(c))
         IN /\ Proper(d) /\ MonthNumber(d) >= MonthNumber(c) /\ Instant(c) \in Nat
            /\ d.hour = c.hour /\ d.min = c.min /\ d.sec = c.sec
<1> DEFINE t == Instant(c)
           d == Broken(t)
<1>1. /\ c.year \in Nat \ {0} /\ c.mon \in 0 .. 11 /\ c.mday \in 1 .. 31
      /\ c.hour \in 0 .. MaxHours - 1 /\ c.min \in 0 .. MaxMinutes - 1 /\ c.sec \in 0 .. MaxSeconds - 1
  BY DEF Time
<1>2. /\ DaysBefore(c.year, c.mon) \in Nat
      /\ DayNumber(c) = DaysBefore(c.year, c.mon) + c.mday - 1
      /\ DayNumber(c) \in Nat
  <2>1. c.mon \in 0 .. 12
    BY <1>1
  <2>2. DaysBefore(c.year, c.mon) \in Nat
    BY <1>1, <2>1, DaysBeforeNat
  <2> QED  BY <1>1, <2>2, DayNumberOf
<1>3. t \in Nat
  <2>1. HoursOf(c) \in Nat
    BY <1>1, <1>2, Units DEF HoursOf
  <2>2. MinutesOf(c) \in Nat
    BY <1>1, <2>1, Units DEF MinutesOf
  <2>3. MinutesOf(c) * MaxSeconds + c.sec \in Nat
    BY <1>1, <2>2, Units
  <2> QED  BY <2>3, SplitInstant
<1>4. /\ DayOf(t) = DayNumber(c) /\ HourOf(t) % MaxHours = c.hour
      /\ MinuteOf(t) % MaxMinutes = c.min /\ t % MaxSeconds = c.sec
  BY <1>1, <1>2, SecondUnits, MinuteUnits, HourUnits
<1>5. d.hour = c.hour /\ d.min = c.min /\ d.sec = c.sec
  BY <1>4 DEF Broken, BrokenInYear, BrokenIn
<1> HIDE DEF t, d
<1>6. Proper(d) /\ DayNumber(d) = DayNumber(c)
  BY <1>3, <1>4, BrokenProper DEF d
<1>7. d.year \in Nat \ {0} /\ d.mon \in 0 .. 11
  BY <1>6 DEF Proper, Time
<1>8. MonthNumber(d) >= MonthNumber(c)
  <2>1. SUFFICES ASSUME 12 * d.year + d.mon < 12 * c.year + c.mon PROVE FALSE
    BY <1>1, <1>7 DEF MonthNumber
  <2>2. DaysBefore(d.year, d.mon + 1) <= DaysBefore(c.year, c.mon)
    BY <1>1, <1>7, <2>1, MonthOrder
  <2>3. d.mon + 1 \in 0 .. 12 /\ DaysBefore(d.year, d.mon + 1) \in Nat
    BY <1>7, DaysBeforeNat
  <2>4. DayNumber(d) < DaysBefore(d.year, d.mon + 1)
    BY <1>6, DayInMonth
  <2> QED  BY <1>1, <1>2, <1>6, <2>2, <2>3, <2>4
<1> QED  BY <1>3, <1>5, <1>6, <1>8 DEF d, t

LEMMA ResetProper ==
  ASSUME NEW c, Proper(c), NEW fields \in SUBSET Fields
  PROVE  LET d == ResetAllMin(c, fields)
         IN /\ Proper(d) /\ d.year = c.year
            /\ d.mon = (IF "mon" \in fields THEN 0 ELSE c.mon)
            /\ d.mday = (IF "mday" \in fields THEN 1 ELSE c.mday)
            /\ d.hour = (IF "hour" \in fields THEN 0 ELSE c.hour)
            /\ d.min = (IF "min" \in fields THEN 0 ELSE c.min)
            /\ d.sec = (IF "sec" \in fields THEN 0 ELSE c.sec)
<1> DEFINE r == [f \in DOMAIN c |-> IF f \in fields THEN Lowest(f) ELSE c[f]]
<1>1. /\ DOMAIN c = {"year", "mon", "mday", "hour", "min", "sec"}
      /\ c.year \in Nat \ {0} /\ c.mon \in 0 .. 11 /\ c.mday \in 1 .. 31
      /\ c.hour \in 0 .. MaxHours - 1 /\ c.min \in 0 .. MaxMinutes - 1 /\ c.sec \in 0 .. MaxSeconds - 1
      /\ c.mday <= MonthLength(c.year, c.mon)
  BY DEF Proper, Time
<1>2. "year" \notin fields
  BY DEF Fields, Bounds
<1>3. /\ r.year = c.year
      /\ r.mon = (IF "mon" \in fields THEN 0 ELSE c.mon)
      /\ r.mday = (IF "mday" \in fields THEN 1 ELSE c.mday)
      /\ r.hour = (IF "hour" \in fields THEN 0 ELSE c.hour)
      /\ r.min = (IF "min" \in fields THEN 0 ELSE c.min)
      /\ r.sec = (IF "sec" \in fields THEN 0 ELSE c.sec)
  BY <1>1, <1>2 DEF Lowest
<1>4. r = [year |-> r.year, mon |-> r.mon, mday |-> r.mday, hour |-> r.hour, min |-> r.min, sec |-> r.sec]
  BY <1>1
<1> HIDE DEF r
<1>5. r \in Time
  BY <1>1, <1>3, <1>4, Units DEF Time
<1>6. r.mday <= MonthLength(r.year, r.mon)
  <2>1. 0 \in 0 .. 11 /\ MonthLength(c.year, 0) = 31 /\ MonthLength(c.year, c.mon) \in 28 .. 31
    BY <1>1, MonthLengths
  <2> QED  BY <1>1, <1>3, <2>1
<1>7. Proper(r)
  BY <1>5, <1>6 DEF Proper
<1>8. ResetAllMin(c, fields) = r
  BY <1>7, ProperBroken DEF ResetAllMin, r
<1> QED  BY <1>3, <1>7, <1>8

\* The time of day can be set.
LEMMA SetTimeOfDay ==
  ASSUME NEW c, Proper(c), NEW f, NEW v,
         \/ f = "sec" /\ v \in 0 .. MaxSeconds - 1
         \/ f = "min" /\ v \in 0 .. MaxMinutes - 1
         \/ f = "hour" /\ v \in 0 .. MaxHours - 1
  PROVE  SetField(c, f, v) = [c EXCEPT ![f] = v] /\ Proper([c EXCEPT ![f] = v])
<1>1. Proper([c EXCEPT ![f] = v])
  BY DEF Proper, Time
<1> QED  BY <1>1, ProperBroken DEF SetField

LEMMA SetMonth ==
  ASSUME NEW c, Proper(c), NEW v \in 0 .. 11
  PROVE  LET d == SetField(c, "mon", v)
         IN /\ Proper(d) /\ MonthNumber(d) >= 12 * c.year + v
            /\ d.hour = c.hour /\ d.min = c.min /\ d.sec = c.sec
            /\ c.mday <= 28 => d = [c EXCEPT !.mon = v]
<1> DEFINE w == [c EXCEPT !.mon = v]
<1>1. w \in Time /\ w.hour = c.hour /\ w.min = c.min /\ w.sec = c.sec /\ MonthNumber(w) = 12 * c.year + v
  BY DEF Proper, Time, MonthNumber
<1>2. ASSUME c.mday <= 28 PROVE Proper(w)
  <2>1. MonthLength(c.year, v) \in 28 .. 31 /\ w.mday = c.mday /\ w.mon = v /\ w.year = c.year /\ c.mday \in 1 .. 31
    BY MonthLengths DEF Proper, Time
  <2> QED  BY <1>1, <1>2, <2>1 DEF Proper
<1>3. SetField(c, "mon", v) = Broken(Instant(w))
  BY DEF SetField
<1> HIDE DEF w
<1>4. c.mday <= 28 => Broken(Instant(w)) = w
  BY <1>2, ProperBroken
<1> QED  BY <1>1, <1>3, <1>4, CarriedOver DEF w

LEMMA NextYear ==
  ASSUME NEW c, Proper(c)
  PROVE  LET d == AddToField(c, "year")
         IN /\ Proper(d) /\ d.year >= c.year + 1
            /\ d.hour = c.hour /\ d.min = c.min /\ d.sec = c.sec
            /\ c.mday <= 28 => d = [c EXCEPT !.year = c.year + 1]
<1> DEFINE w == [c EXCEPT !.year = c.year + 1]
           d == Broken(Instant(w))
<1>1. /\ w \in Time /\ w.hour = c.hour /\ w.min = c.min /\ w.sec = c.sec
      /\ w.year = c.year + 1 /\ w.mon = c.mon /\ w.mday = c.mday
      /\ MonthNumber(w) = 12 * (c.year + 1) + c.mon
  BY DEF Proper, Time, MonthNumber
<1>2. ASSUME c.mday <= 28 PROVE Proper(w)
  <2>1. c.year + 1 \in Nat \ {0} /\ c.mon \in 0 .. 11 /\ c.mday \in 1 .. 31
    BY DEF Proper, Time
  <2>2. MonthLength(c.year + 1, c.mon) \in 28 .. 31
    BY <2>1, MonthLengths
  <2> QED  BY <1>1, <1>2, <2>1, <2>2 DEF Proper
<1>3. AddToField(c, "year") = d
  BY DEF AddToField, SetField
<1> HIDE DEF w
<1>4. c.mday <= 28 => d = w
  BY <1>2, ProperBroken
<1>5. Proper(d) /\ MonthNumber(d) >= MonthNumber(w) /\ d.hour = w.hour /\ d.min = w.min /\ d.sec = w.sec
  BY <1>1, CarriedOver
<1> HIDE DEF d
<1>6. d.year >= c.year + 1
  <2>1. d.year \in Nat /\ d.mon \in 0 .. 11 /\ c.year \in Nat /\ c.mon \in 0 .. 11
    BY <1>5 DEF Proper, Time
  <2> QED  BY <1>1, <1>5, <2>1 DEF MonthNumber
<1> QED  BY <1>1, <1>3, <1>4, <1>5, <1>6 DEF w

LEMMA NextSecond ==
  ASSUME NEW c, Proper(c)
  PROVE  LET d == AddToField(c, "sec") IN Proper(d) /\ Instant(d) = Instant(c) + 1
<1> DEFINE w == [c EXCEPT !.sec = c.sec + 1]
<1>1. DayNumber(w) = DayNumber(c) /\ w.hour = c.hour /\ w.min = c.min /\ w.sec = c.sec + 1
  BY DEF Proper, Time, DayNumber
<1>2. MinutesOf(w) = MinutesOf(c) /\ MinutesOf(c) \in Nat /\ Instant(c) \in Nat /\ c.sec \in Nat
  BY <1>1, ProperUnits, Units DEF MinutesOf, HoursOf, Proper, Time
<1>3. Instant(w) = Instant(c) + 1
  <2>1. MinutesOf(c) * MaxSeconds \in Nat
    BY <1>2, Units
  <2> HIDE DEF w
  <2> QED  BY <1>1, <1>2, <2>1, SplitInstant
<1>4. AddToField(c, "sec") = Broken(Instant(w))
  BY DEF AddToField, SetField
<1> HIDE DEF w
<1> QED  BY <1>2, <1>3, <1>4, BrokenProper

\* A unit that is one too many is carried over to the next higher one.
LEMMA NextMinute ==
  ASSUME NEW c, Proper(c)
  PROVE  LET d == AddToField(c, "min")
         IN Proper(d) /\ MinutesOf(d) = MinutesOf(c) + 1 /\ d.sec = c.sec
<1> DEFINE w == [c EXCEPT !.min = c.min + 1]
           u == Instant(w)
<1>1. /\ DayNumber(w) = DayNumber(c) /\ w.hour = c.hour /\ w.min = c.min + 1 /\ w.sec = c.sec
      /\ c.hour \in Nat /\ c.min \in Nat /\ c.sec \in 0 .. MaxSeconds - 1
  BY DEF Proper, Time, DayNumber
<1>2. HoursOf(w) = HoursOf(c) /\ HoursOf(c) \in Nat /\ DayNumber(c) \in Nat
  BY <1>1, ProperUnits DEF HoursOf
<1>3. MinutesOf(w) = MinutesOf(c) + 1 /\ MinutesOf(c) \in Nat
  <2>1. HoursOf(c) * MaxMinutes \in Nat
    BY <1>2, Units
  <2> HIDE DEF w
  <2> QED  BY <1>1, <1>2, <2>1, ProperUnits DEF MinutesOf
<1>4. AddToField(c, "min") = Broken(u)
  BY DEF AddToField, SetField
<1> HIDE DEF w
<1>5. MinuteOf(u) = MinutesOf(w) /\ u % MaxSeconds = c.sec
  BY <1>1, <1>2, SecondUnits
<1>6. u \in Nat
  <2>1. (MinutesOf(c) + 1) * MaxSeconds + c.sec \in Nat
    BY <1>1, <1>3, Units
  <2> QED  BY <1>1, <1>3, <2>1, SplitInstant
<1>7. Broken(u).sec = u % MaxSeconds
  BY DEF Broken, BrokenInYear, BrokenIn
<1> QED  BY <1>3, <1>4, <1>5, <1>6, <1>7, BrokenProper

LEMMA NextHour ==
  ASSUME NEW c, Proper(c)
  PROVE  LET d == AddToField(c, "hour")
         IN Proper(d) /\ HoursOf(d) = HoursOf(c) + 1 /\ d.min = c.min /\ d.sec = c.sec
<1> DEFINE w == [c EXCEPT !.hour = c.hour + 1]
           u == Instant(w)
<1>1. /\ DayNumber(w) = DayNumber(c) /\ w.hour = c.hour + 1 /\ w.min = c.min /\ w.sec = c.sec
      /\ c.hour \in Nat /\ c.min \in 0 .. MaxMinutes - 1 /\ c.sec \in 0 .. MaxSeconds - 1
  BY DEF Proper, Time, DayNumber
<1>2. HoursOf(w) = HoursOf(c) + 1 /\ HoursOf(c) \in Nat /\ DayNumber(c) \in Nat
  <2>1. DayNumber(c) \in Nat /\ DayNumber(c) * MaxHours \in Nat
    BY ProperUnits, Units
  <2> HIDE DEF w
  <2> QED  BY <1>1, <2>1, ProperUnits DEF HoursOf
<1>3. AddToField(c, "hour") = Broken(u)
  BY DEF AddToField, SetField
<1> HIDE DEF w
<1>4. HourOf(u) = HoursOf(w) /\ MinuteOf(u) % MaxMinutes = c.min /\ u % MaxSeconds = c.sec
  BY <1>1, <1>2, SecondUnits, MinuteUnits
<1>5. u \in Nat
  <2>1. MinutesOf(w) \in Nat
    BY <1>1, <1>2, Units DEF MinutesOf
  <2>2. MinutesOf(w) * MaxSeconds + c.sec \in Nat
    BY <1>1, <2>1, Units
  <2> QED  BY <1>1, <2>2, SplitInstant
<1>6. Broken(u).sec = u % MaxSeconds /\ Broken(u).min = MinuteOf(u) % MaxMinutes
  BY DEF Broken, BrokenInYear, BrokenIn
<1> QED  BY <1>2, <1>3, <1>4, <1>5, <1>6, BrokenProper

LEMMA NextDay ==
  ASSUME NEW c, Proper(c)
  PROVE  LET d == AddToField(c, "mday")
         IN /\ Proper(d) /\ DayNumber(d) = DayNumber(c) + 1
            /\ d.hour = c.hour /\ d.min = c.min /\ d.sec = c.sec
<1> DEFINE w == [c EXCEPT !.mday = c.mday + 1]
           u == Instant(w)
<1>1. /\ w.hour = c.hour /\ w.min = c.min /\ w.sec = c.sec
      /\ c.hour \in 0 .. MaxHours - 1 /\ c.min \in 0 .. MaxMinutes - 1 /\ c.sec \in 0 .. MaxSeconds - 1
      /\ w.mday = c.mday + 1 /\ w.mon = c.mon /\ w.year = c.year
      /\ c.mon \in 0 .. 11 /\ c.year \in Nat \ {0} /\ c.mday \in 1 .. 31
  BY DEF Proper, Time
<1>2. DayNumber(w) = DayNumber(c) + 1 /\ DayNumber(c) \in Nat
  <2>1. DaysBefore(c.year, c.mon) \in Nat
    <3>1. c.mon \in 0 .. 12
      BY <1>1
    <3> QED  BY <1>1, <3>1, DaysBeforeNat
  <2> HIDE DEF w
  <2>2. /\ DayNumber(w) = DaysBefore(c.year, c.mon) + w.mday - 1
        /\ DayNumber(c) = DaysBefore(c.year, c.mon) + c.mday - 1
    BY <1>1, DayNumberOf
  <2> QED  BY <1>1, <2>1, <2>2
<1>3. AddToField(c, "mday") = Broken(u)
  BY DEF AddToField, SetField
<1> HIDE DEF w
<1>4. /\ DayOf(u) = DayNumber(w) /\ HourOf(u) % MaxHours = c.hour
      /\ MinuteOf(u) % MaxMinutes = c.min /\ u % MaxSeconds = c.sec
  BY <1>1, <1>2, SecondUnits, MinuteUnits, HourUnits
<1>5. u \in Nat
  <2>1. HoursOf(w) \in Nat
    BY <1>1, <1>2, Units DEF HoursOf
  <2>2. MinutesOf(w) \in Nat
    BY <1>1, <2>1, Units DEF MinutesOf
  <2>3. MinutesOf(w) * MaxSeconds + c.sec \in Nat
    BY <1>1, <2>2, Units
  <2> QED  BY <1>1, <2>3, SplitInstant
<1>6. /\ Broken(u).sec = u % MaxSeconds /\ Broken(u).min = MinuteOf(u) % MaxMinutes
      /\ Broken(u).hour = HourOf(u) % MaxHours
  BY DEF Broken, BrokenInYear, BrokenIn
<1> QED  BY <1>2, <1>3, <1>4, <1>5, <1>6, BrokenProper

-----------------------------------------------------------------------------
(* The next value of a field.                                              *)

\* For a field that has the value r: the next one it may have, later in the same round
\* or the first of the next round; and, when q rounds of b values have passed, the
\* number of values that have passed then.
NextOf(S, r) == IF NextSetBit(S, r) = NotFound THEN NextSetBit(S, 0) ELSE NextSetBit(S, r)
Passed(S, r, q, b) == IF NextSetBit(S, r) = NotFound THEN (q + 1) * b + NextOf(S, r)
                                                     ELSE q * b + NextOf(S, r)

LEMMA NextValue ==
  ASSUME NEW b \in Nat \ {0}, NEW q \in Int, NEW r \in 0 .. b - 1,
         NEW S \in SUBSET (0 .. b - 1), S # {}
  PROVE  LET v == NextOf(S, r)
             x == Passed(S, r, q, b)
         IN /\ v \in S /\ (v = r <=> r \in S)
            /\ v # r => q * b + r < x
            /\ v # r => \A w \in Int : q * b + r <= w /\ w < x => w % b \notin S
<1> DEFINE L == {v \in S : v >= r}
           later == NextSetBit(S, r)
           v == NextOf(S, r)
           x == Passed(S, r, q, b)
<1>1. \A T \in SUBSET S : T # {} => Min(T) \in T /\ \A y \in T : Min(T) <= y
  <2>1. S \subseteq Nat
    OBVIOUS
  <2> QED  BY <2>1, MinIsSmallest
<1>0. \A y \in S : y \in Int /\ y >= 0 /\ y <= b - 1
  OBVIOUS
<1>2. q * b \in Int /\ (q + 1) * b = q * b + b
  OBVIOUS
<1>3. CASE L # {}
  <2>1. later = Min(L) /\ later \in L /\ \A y \in L : later <= y
    BY <1>1, <1>3 DEF NextSetBit
  <2>2. later # NotFound /\ v = later /\ x = q * b + v /\ v \in S /\ v >= r
    BY <2>1 DEF NotFound, NextOf, Passed
  <2>3. r \in S => v = r
    <3>1. r \in S => r \in L
      OBVIOUS
    <3> HIDE DEF L, v, later
    <3>2. v \in Int
      BY <1>0, <2>2
    <3> QED  BY <2>1, <2>2, <3>1, <3>2
  <2>4. ASSUME NEW w \in Int, q * b + r <= w, w < x PROVE w % b \notin S
    <3> DEFINE j == w - q * b
    <3> HIDE DEF v, x, later, L
    <3>1. v \in 0 .. b - 1
      BY <2>2
    <3>2. j \in 0 .. b - 1 /\ r <= j /\ j < v /\ w = q * b + j
      BY <1>2, <2>2, <2>4, <3>1
    <3> HIDE DEF j
    <3>3. w % b = j
      BY <3>2, DivMod
    <3>4. j \notin L
      BY <2>1, <2>2, <3>2
    <3> QED  BY <3>2, <3>3, <3>4 DEF L
  <2>5. v # r => q * b + r < x
    <3> HIDE DEF v, x, later, L
    <3>1. v \in 0 .. b - 1
      BY <2>2
    <3> QED  BY <1>2, <2>2, <3>1
  <2> HIDE DEF L
  <2> QED  BY <2>2, <2>3, <2>4, <2>5
<1>4. CASE L = {}
  <2>1. later = NotFound
    BY <1>4 DEF NextSetBit
  <2>2. {w \in S : w >= 0} = S
    BY <1>0
  <2>3. v = Min(S) /\ v \in S /\ \A y \in S : v <= y
    BY <1>1, <2>1, <2>2 DEF NextSetBit, NextOf
  <2>4. x = (q + 1) * b + v /\ v < r /\ r \notin S /\ v \in 0 .. b - 1
    <3>1. \A y \in S : ~(y >= r)
      BY <1>4
    <3>2. x = (q + 1) * b + v
      BY <2>1 DEF Passed
    <3> HIDE DEF L, v, later, x
    <3> QED  BY <1>0, <2>3, <3>1, <3>2
  <2>5. ASSUME NEW w \in Int, q * b + r <= w, w < x PROVE w % b \notin S
    <3> HIDE DEF v, x, later
    <3>1. CASE w < q * b + b
      <4> DEFINE j == w - q * b
      <4>1. j \in 0 .. b - 1 /\ r <= j /\ w = q * b + j
        BY <1>2, <2>5, <3>1
      <4> HIDE DEF j
      <4>2. w % b = j
        BY <4>1, DivMod
      <4>3. j \notin L
        BY <1>4
      <4> QED  BY <4>1, <4>2, <4>3 DEF L
    <3>2. CASE w >= q * b + b
      <4> DEFINE j == w - (q * b + b)
      <4>1. j \in 0 .. b - 1 /\ j < v /\ w = (q + 1) * b + j
        BY <1>2, <2>4, <2>5, <3>2
      <4> HIDE DEF j
      <4>2. w % b = j
        BY <4>1, DivMod
      <4> QED  BY <2>3, <4>1, <4>2
    <3> QED  BY <1>2, <3>1, <3>2
  <2>6. q * b + r < x
    <3> HIDE DEF v, x, later, L
    <3> QED  BY <1>2, <2>4
  <2> HIDE DEF L, v, x
  <2> QED  BY <2>3, <2>4, <2>5, <2>6 DEF v, x
<1> QED  BY <1>3, <1>4

LEMMA ResetUnits ==
  ASSUME NEW c, Proper(c), NEW fields \in SUBSET {"sec", "min", "hour"}
  PROVE  LET d == ResetAllMin(c, fields)
         IN /\ Proper(d) /\ DayNumber(d) = DayNumber(c)
            /\ "hour" \notin fields => HoursOf(d) = HoursOf(c)
            /\ "hour" \notin fields /\ "min" \notin fields => MinutesOf(d) = MinutesOf(c)
            /\ fields = {} => Instant(d) = Instant(c)
<1>1. fields \in SUBSET Fields /\ "mon" \notin fields /\ "mday" \notin fields
  BY DEF Fields, Bounds
<1> QED  BY <1>1, ResetProper DEF DayNumber, HoursOf, MinutesOf, Instant

LEMMA SetUnits ==
  ASSUME NEW c, Proper(c), NEW v
  PROVE  /\ MinutesOf([c EXCEPT !.sec = v]) = MinutesOf(c)
         /\ Instant([c EXCEPT !.sec = v]) = MinutesOf(c) * MaxSeconds + v
         /\ HoursOf([c EXCEPT !.min = v]) = HoursOf(c)
         /\ MinutesOf([c EXCEPT !.min = v]) = HoursOf(c) * MaxMinutes + v
         /\ DayNumber([c EXCEPT !.hour = v]) = DayNumber(c)
         /\ HoursOf([c EXCEPT !.hour = v]) = DayNumber(c) * MaxHours + v
  BY DEF Proper, Time, DayNumber, HoursOf, MinutesOf, Instant

LEMMA FindSecond ==
  ASSUME NEW c, Proper(c), NEW e, InCalendar(e)
  PROVE  LET found == FindNext(e, "sec", c, {})
             d == found.cal
         IN /\ found.value = c.sec <=> c.sec \in e.sec
            /\ found.value = c.sec => d = c
            /\ found.value # c.sec =>
                 /\ Proper(d) /\ d.sec \in e.sec /\ Instant(c) < Instant(d)
                 /\ \A w \in Int : Instant(c) <= w /\ w < Instant(d) => w % MaxSeconds \notin e.sec
<1> DEFINE later == NextSetBit(e.sec, c.sec)
           v == NextOf(e.sec, c.sec)
           q == MinutesOf(c)
           x == Passed(e.sec, c.sec, q, MaxSeconds)
           rolled == IF later = NotFound THEN Rolled("sec", c) ELSE c
           found == FindNext(e, "sec", c, {})
<1>1. /\ found.value = v
      /\ found.cal = IF v = c.sec THEN c ELSE ResetAllMin(SetField(rolled, "sec", v), {})
  BY DEF FindNext, NextOf
<1>2. /\ v \in e.sec /\ (v = c.sec <=> c.sec \in e.sec)
      /\ v # c.sec => q * MaxSeconds + c.sec < x
      /\ v # c.sec => \A w \in Int : q * MaxSeconds + c.sec <= w /\ w < x => w % MaxSeconds \notin e.sec
  <2> DEFINE S == e.sec
             r == c.sec
             b == MaxSeconds
  <2>1. S \in SUBSET (0 .. b - 1) /\ S # {} /\ r \in 0 .. b - 1 /\ q \in Int /\ b \in Nat \ {0}
    BY ProperUnits, Units DEF InCalendar, Proper, Time, Fields, Bounds
  <2> HIDE DEF q, S, r, b
  <2>2. LET w == NextOf(S, r)
            y == Passed(S, r, q, b)
        IN /\ w \in S /\ (w = r <=> r \in S)
           /\ w # r => q * b + r < y
           /\ w # r => \A u \in Int : q * b + r <= u /\ u < y => u % b \notin S
    BY <2>1, NextValue
  <2> QED  BY <2>2 DEF S, r, b
<1>3. Instant(c) = q * MaxSeconds + c.sec
  BY SplitInstant
<1>4. v \in 0 .. MaxSeconds - 1
  BY <1>2 DEF InCalendar
<1>5. Proper(rolled) /\ x = MinutesOf(rolled) * MaxSeconds + v
  <2>1. CASE later = NotFound
    <3> DEFINE d == AddToField(c, "min")
    <3>1. Proper(d) /\ MinutesOf(d) = q + 1
      BY NextMinute
    <3>2. rolled = ResetAllMin(d, {"sec"})
      BY <2>1 DEF Rolled, NextField
    <3>6. x = (q + 1) * MaxSeconds + v
      BY <2>1 DEF Passed
    <3> HIDE DEF d, v, x
    <3>3. Proper(rolled) /\ MinutesOf(rolled) = q + 1
      BY <3>1, <3>2, ResetUnits
    <3> QED  BY <2>1, <3>3, <3>6
  <2>2. CASE later # NotFound
    BY <2>2 DEF Passed
  <2> QED  BY <2>1, <2>2
<1> HIDE DEF v, x, rolled, later, q
<1>6. ASSUME v # c.sec PROVE Proper(found.cal) /\ found.cal.sec = v /\ Instant(found.cal) = x
  <2>1. SetField(rolled, "sec", v) = [rolled EXCEPT !.sec = v] /\ Proper([rolled EXCEPT !.sec = v])
    BY <1>4, <1>5, SetTimeOfDay
  <2>2. found.cal = ResetAllMin([rolled EXCEPT !.sec = v], {})
    BY <1>1, <1>6, <2>1
  <2>3. Instant([rolled EXCEPT !.sec = v]) = x /\ [rolled EXCEPT !.sec = v].sec = v
    BY <1>5, SetUnits DEF Proper, Time
  <2> DEFINE set == [rolled EXCEPT !.sec = v]
             nothing == {}
  <2>4. nothing \in SUBSET Fields /\ nothing \in SUBSET {"sec", "min", "hour"} /\ "sec" \notin nothing
    OBVIOUS
  <2>5. Proper(set) /\ Instant(set) = x /\ set.sec = v /\ found.cal = ResetAllMin(set, nothing)
    BY <2>1, <2>2, <2>3
  <2>6. nothing = {}
    OBVIOUS
  <2> HIDE DEF set, nothing, found
  <2>7. Proper(found.cal) /\ found.cal.sec = v
    BY <2>4, <2>5, ResetProper
  <2>8. Instant(found.cal) = x
    BY <2>4, <2>5, <2>6, ResetUnits
  <2> QED  BY <2>7, <2>8 DEF found
<1> HIDE DEF found
<1>7. \/ v = c.sec /\ found.cal = c
      \/ v # c.sec /\ Proper(found.cal) /\ found.cal.sec \in e.sec /\ Instant(found.cal) = x
  BY <1>1, <1>2, <1>6
<1> QED  BY <1>1, <1>2, <1>3, <1>7 DEF found

LEMMA FindMinute ==
  ASSUME NEW c, Proper(c), NEW e, InCalendar(e), NEW lower \in SUBSET {"sec"}
  PROVE  LET found == FindNext(e, "min", c, lower)
             d == found.cal
         IN /\ found.value = c.min <=> c.min \in e.min
            /\ found.value = c.min => d = c
            /\ found.value # c.min =>
                 /\ Proper(d) /\ d.sec = (IF "sec" \in lower THEN 0 ELSE c.sec)
                 /\ MinutesOf(c) < MinutesOf(d)
                 /\ \A w \in Int : MinutesOf(c) <= w /\ w < MinutesOf(d) => w % MaxMinutes \notin e.min
<1> DEFINE later == NextSetBit(e.min, c.min)
           v == NextOf(e.min, c.min)
           q == HoursOf(c)
           x == Passed(e.min, c.min, q, MaxMinutes)
           rolled == IF later = NotFound THEN Rolled("min", c) ELSE c
           found == FindNext(e, "min", c, lower)
<1>1. /\ found.value = v
      /\ found.cal = IF v = c.min THEN c ELSE ResetAllMin(SetField(rolled, "min", v), lower)
  BY DEF FindNext, NextOf
<1>2. /\ v \in e.min /\ (v = c.min <=> c.min \in e.min)
      /\ v # c.min => q * MaxMinutes + c.min < x
      /\ v # c.min => \A w \in Int : q * MaxMinutes + c.min <= w /\ w < x => w % MaxMinutes \notin e.min
  <2> DEFINE S == e.min
             r == c.min
             b == MaxMinutes
  <2>1. S \in SUBSET (0 .. b - 1) /\ S # {} /\ r \in 0 .. b - 1 /\ q \in Int /\ b \in Nat \ {0}
    BY ProperUnits, Units DEF InCalendar, Proper, Time, Fields, Bounds
  <2> HIDE DEF q, S, r, b
  <2>2. LET w == NextOf(S, r)
            y == Passed(S, r, q, b)
        IN /\ w \in S /\ (w = r <=> r \in S)
           /\ w # r => q * b + r < y
           /\ w # r => \A u \in Int : q * b + r <= u /\ u < y => u % b \notin S
    BY <2>1, NextValue
  <2> QED  BY <2>2 DEF S, r, b
<1>3. MinutesOf(c) = q * MaxMinutes + c.min
  BY DEF MinutesOf
<1>4. v \in 0 .. MaxMinutes - 1
  BY <1>2 DEF InCalendar
<1>5. Proper(rolled) /\ x = HoursOf(rolled) * MaxMinutes + v /\ rolled.sec = c.sec
  <2>1. CASE later = NotFound
    <3> DEFINE d == AddToField(c, "hour")
               fields == {"min"}
    <3>1. Proper(d) /\ HoursOf(d) = q + 1 /\ d.sec = c.sec
      BY NextHour
    <3>2. rolled = ResetAllMin(d, fields)
      BY <2>1 DEF Rolled, NextField
    <3>3. /\ fields \in SUBSET {"sec", "min", "hour"} /\ fields \in SUBSET Fields
          /\ "hour" \notin fields /\ "sec" \notin fields
      BY DEF Fields, Bounds
    <3>6. x = (q + 1) * MaxMinutes + v
      BY <2>1 DEF Passed
    <3> HIDE DEF d, v, x, fields
    <3>4. Proper(rolled) /\ HoursOf(rolled) = q + 1
      BY <3>1, <3>2, <3>3, ResetUnits
    <3>5. rolled.sec = c.sec
      BY <3>1, <3>2, <3>3, ResetProper
    <3> QED  BY <2>1, <3>4, <3>5, <3>6
  <2>2. CASE later # NotFound
    BY <2>2 DEF Passed
  <2> QED  BY <2>1, <2>2
<1> HIDE DEF v, x, rolled, later, q
<1>6. ASSUME v # c.min
      PROVE  /\ Proper(found.cal) /\ found.cal.sec = (IF "sec" \in lower THEN 0 ELSE c.sec)
             /\ MinutesOf(found.cal) = x
  <2> DEFINE set == [rolled EXCEPT !.min = v]
  <2>1. SetField(rolled, "min", v) = set /\ Proper(set)
    BY <1>4, <1>5, SetTimeOfDay
  <2>2. found.cal = ResetAllMin(set, lower)
    BY <1>1, <1>6, <2>1
  <2>3. MinutesOf(set) = x /\ set.sec = c.sec
    BY <1>5, SetUnits DEF Proper, Time
  <2>4. lower \in SUBSET Fields /\ lower \in SUBSET {"sec", "min", "hour"} /\ "hour" \notin lower /\ "min" \notin lower
    BY DEF Fields, Bounds
  <2> HIDE DEF set, found
  <2>5. Proper(found.cal) /\ found.cal.sec = (IF "sec" \in lower THEN 0 ELSE c.sec)
    BY <2>1, <2>2, <2>3, <2>4, ResetProper
  <2>6. MinutesOf(found.cal) = x
    BY <2>1, <2>2, <2>3, <2>4, ResetUnits
  <2> QED  BY <2>5, <2>6 DEF found
<1> HIDE DEF found
<1>7. \/ v = c.min /\ found.cal = c
      \/ v # c.min /\ Proper(found.cal) /\ MinutesOf(found.cal) = x
  BY <1>1, <1>6
<1> QED  BY <1>1, <1>2, <1>3, <1>6, <1>7 DEF found

LEMMA FindHour ==
  ASSUME NEW c, Proper(c), NEW e, InCalendar(e), NEW lower \in SUBSET {"sec", "min"}
  PROVE  LET found == FindNext(e, "hour", c, lower)
             d == found.cal
         IN /\ found.value = c.hour <=> c.hour \in e.hour
            /\ found.value = c.hour => d = c
            /\ found.value # c.hour =>
                 /\ Proper(d) /\ d.sec = (IF "sec" \in lower THEN 0 ELSE c.sec)
                 /\ d.min = (IF "min" \in lower THEN 0 ELSE c.min)
                 /\ HoursOf(c) < HoursOf(d)
                 /\ \A w \in Int : HoursOf(c) <= w /\ w < HoursOf(d) => w % MaxHours \notin e.hour
<1> DEFINE later == NextSetBit(e.hour, c.hour)
           v == NextOf(e.hour, c.hour)
           q == DayNumber(c)
           x == Passed(e.hour, c.hour, q, MaxHours)
           rolled == IF later = NotFound THEN Rolled("hour", c) ELSE c
           found == FindNext(e, "hour", c, lower)
<1>1. /\ found.value = v
      /\ found.cal = IF v = c.hour THEN c ELSE ResetAllMin(SetField(rolled, "hour", v), lower)
  BY DEF FindNext, NextOf
<1>2. /\ v \in e.hour /\ (v = c.hour <=> c.hour \in e.hour)
      /\ v # c.hour => q * MaxHours + c.hour < x
      /\ v # c.hour => \A w \in Int : q * MaxHours + c.hour <= w /\ w < x => w % MaxHours \notin e.hour
  <2> DEFINE S == e.hour
             r == c.hour
             b == MaxHours
  <2>1. S \in SUBSET (0 .. b - 1) /\ S # {} /\ r \in 0 .. b - 1 /\ q \in Int /\ b \in Nat \ {0}
    BY ProperUnits, Units DEF InCalendar, Proper, Time, Fields, Bounds
  <2> HIDE DEF q, S, r, b
  <2>2. LET w == NextOf(S, r)
            y == Passed(S, r, q, b)
        IN /\ w \in S /\ (w = r <=> r \in S)
           /\ w # r => q * b + r < y
           /\ w # r => \A u \in Int : q * b + r <= u /\ u < y => u % b \notin S
    BY <2>1, NextValue
  <2> QED  BY <2>2 DEF S, r, b
<1>3. HoursOf(c) = q * MaxHours + c.hour
  BY DEF HoursOf
<1>4. v \in 0 .. MaxHours - 1
  BY <1>2 DEF InCalendar
<1>5. Proper(rolled) /\ x = DayNumber(rolled) * MaxHours + v /\ rolled.min = c.min /\ rolled.sec = c.sec
  <2>1. CASE later = NotFound
    <3> DEFINE d == AddToField(c, "mday")
               fields == {"hour"}
    <3>1. Proper(d) /\ DayNumber(d) = q + 1 /\ d.min = c.min /\ d.sec = c.sec
      BY NextDay
    <3>2. rolled = ResetAllMin(d, fields)
      BY <2>1 DEF Rolled, NextField
    <3>3. /\ fields \in SUBSET {"sec", "min", "hour"} /\ fields \in SUBSET Fields
          /\ "min" \notin fields /\ "sec" \notin fields
      BY DEF Fields, Bounds
    <3>6. x = (q + 1) * MaxHours + v
      BY <2>1 DEF Passed
    <3> HIDE DEF d, v, x, fields
    <3>4. Proper(rolled) /\ DayNumber(rolled) = q + 1
      BY <3>1, <3>2, <3>3, ResetUnits
    <3>5. rolled.min = c.min /\ rolled.sec = c.sec
      BY <3>1, <3>2, <3>3, ResetProper
    <3> QED  BY <2>1, <3>4, <3>5, <3>6
  <2>2. CASE later # NotFound
    BY <2>2 DEF Passed
  <2> QED  BY <2>1, <2>2
<1> HIDE DEF v, x, rolled, later, q
<1>6. ASSUME v # c.hour
      PROVE  /\ Proper(found.cal) /\ found.cal.sec = (IF "sec" \in lower THEN 0 ELSE c.sec)
             /\ found.cal.min = (IF "min" \in lower THEN 0 ELSE c.min)
             /\ HoursOf(found.cal) = x
  <2> DEFINE set == [rolled EXCEPT !.hour = v]
  <2>1. SetField(rolled, "hour", v) = set /\ Proper(set)
    BY <1>4, <1>5, SetTimeOfDay
  <2>2. found.cal = ResetAllMin(set, lower)
    BY <1>1, <1>6, <2>1
  <2>3. HoursOf(set) = x /\ set.sec = c.sec /\ set.min = c.min
    BY <1>5, SetUnits DEF Proper, Time
  <2>4. lower \in SUBSET Fields /\ lower \in SUBSET {"sec", "min", "hour"} /\ "hour" \notin lower
    BY DEF Fields, Bounds
  <2> HIDE DEF set, found
  <2>5. /\ Proper(ResetAllMin(set, lower))
        /\ ResetAllMin(set, lower).sec = (IF "sec" \in lower THEN 0 ELSE set.sec)
        /\ ResetAllMin(set, lower).min = (IF "min" \in lower THEN 0 ELSE set.min)
    BY <2>1, <2>4, ResetProper
  <2>6. HoursOf(found.cal) = x
    BY <2>1, <2>2, <2>3, <2>4, ResetUnits
  <2> QED  BY <2>2, <2>3, <2>5, <2>6 DEF found
<1> HIDE DEF found
<1>7. \/ v = c.hour /\ found.cal = c
      \/ v # c.hour /\ Proper(found.cal) /\ HoursOf(found.cal) = x
  BY <1>1, <1>6
<1> QED  BY <1>1, <1>2, <1>3, <1>6, <1>7 DEF found

\* The month may be carried over, but not from a day that all months have.
LEMMA FindMonth ==
  ASSUME NEW c, Proper(c), NEW e, InCalendar(e), NEW lower \in SUBSET {"sec", "min", "hour", "mday"}
  PROVE  LET found == FindNext(e, "mon", c, lower)
             d == found.cal
         IN /\ found.value = c.mon <=> c.mon \in e.mon
            /\ found.value = c.mon => d = c
            /\ found.value # c.mon =>
                 /\ Proper(d) /\ MonthNumber(c) < MonthNumber(d)
                 /\ d.sec = (IF "sec" \in lower THEN 0 ELSE c.sec)
                 /\ d.min = (IF "min" \in lower THEN 0 ELSE c.min)
                 /\ d.hour = (IF "hour" \in lower THEN 0 ELSE c.hour)
                 /\ "mday" \in lower => d.mday = 1
                 /\ c.mday <= 28 =>
                      \A w \in Int : MonthNumber(c) <= w /\ w < MonthNumber(d) => w % 12 \notin e.mon
<1> DEFINE later == NextSetBit(e.mon, c.mon)
           v == NextOf(e.mon, c.mon)
           q == c.year
           x == Passed(e.mon, c.mon, q, 12)
           rolled == IF later = NotFound THEN Rolled("mon", c) ELSE c
           found == FindNext(e, "mon", c, lower)
<1>1. /\ found.value = v
      /\ found.cal = IF v = c.mon THEN c ELSE ResetAllMin(SetField(rolled, "mon", v), lower)
  BY DEF FindNext, NextOf
<1>2. /\ v \in e.mon /\ (v = c.mon <=> c.mon \in e.mon)
      /\ v # c.mon => q * 12 + c.mon < x
      /\ v # c.mon => \A w \in Int : q * 12 + c.mon <= w /\ w < x => w % 12 \notin e.mon
  <2> DEFINE S == e.mon
             r == c.mon
             b == 12
  <2>1. S \in SUBSET (0 .. b - 1) /\ S # {} /\ r \in 0 .. b - 1 /\ q \in Int /\ b \in Nat \ {0}
    BY DEF InCalendar, Proper, Time, Fields, Bounds
  <2> HIDE DEF q, S, r, b
  <2>2. LET w == NextOf(S, r)
            y == Passed(S, r, q, b)
        IN /\ w \in S /\ (w = r <=> r \in S)
           /\ w # r => q * b + r < y
           /\ w # r => \A u \in Int : q * b + r <= u /\ u < y => u % b \notin S
    BY <2>1, NextValue
  <2> QED  BY <2>2 DEF S, r, b
<1>3. MonthNumber(c) = q * 12 + c.mon /\ q \in Nat /\ c.mon \in 0 .. 11
  BY DEF MonthNumber, Proper, Time
<1>4. v \in 0 .. 11
  BY <1>2 DEF InCalendar
<1>5. /\ Proper(rolled) /\ x <= 12 * rolled.year + v
      /\ rolled.hour = c.hour /\ rolled.min = c.min /\ rolled.sec = c.sec
      /\ c.mday <= 28 => x = 12 * rolled.year + v /\ rolled.mday = c.mday
  <2>1. CASE later = NotFound
    <3> DEFINE d == AddToField(c, "year")
               fields == {"mon"}
    <3>1. /\ Proper(d) /\ d.year >= q + 1 /\ d.hour = c.hour /\ d.min = c.min /\ d.sec = c.sec
          /\ c.mday <= 28 => d.year = q + 1 /\ d.mday = c.mday
      <4>1. [c EXCEPT !.year = c.year + 1].year = q + 1 /\ [c EXCEPT !.year = c.year + 1].mday = c.mday
        BY DEF Proper, Time
      <4> QED  BY <4>1, NextYear
    <3>2. rolled = ResetAllMin(d, fields)
      BY <2>1 DEF Rolled, NextField
    <3>3. /\ fields \in SUBSET Fields /\ "mon" \in fields /\ "mday" \notin fields
          /\ "hour" \notin fields /\ "min" \notin fields /\ "sec" \notin fields
      BY DEF Fields, Bounds
    <3>6. x = (q + 1) * 12 + v
      BY <2>1 DEF Passed
    <3> HIDE DEF d, v, x, fields
    <3>4. /\ Proper(rolled) /\ rolled.year = d.year /\ rolled.mday = d.mday /\ rolled.hour = d.hour
          /\ rolled.min = d.min /\ rolled.sec = d.sec
      BY <3>1, <3>2, <3>3, ResetProper
    <3>5. rolled.year \in Nat
      BY <3>4 DEF Proper, Time
    <3> QED  BY <1>3, <1>4, <2>1, <3>1, <3>4, <3>5, <3>6
  <2>2. CASE later # NotFound
    <3>1. rolled = c /\ x = q * 12 + v
      BY <2>2 DEF Passed
    <3> HIDE DEF rolled, x, v
    <3> QED  BY <1>3, <1>4, <3>1
  <2> QED  BY <2>1, <2>2
<1> HIDE DEF v, x, rolled, later
<1>6. ASSUME v # c.mon
      PROVE  LET d == found.cal
             IN /\ Proper(d) /\ x <= MonthNumber(d)
                /\ d.sec = (IF "sec" \in lower THEN 0 ELSE c.sec)
                /\ d.min = (IF "min" \in lower THEN 0 ELSE c.min)
                /\ d.hour = (IF "hour" \in lower THEN 0 ELSE c.hour)
                /\ "mday" \in lower => d.mday = 1
                /\ c.mday <= 28 => MonthNumber(d) = x
  <2> DEFINE set == SetField(rolled, "mon", v)
  <2>1. /\ Proper(set) /\ MonthNumber(set) >= 12 * rolled.year + v
        /\ set.hour = c.hour /\ set.min = c.min /\ set.sec = c.sec
        /\ rolled.mday <= 28 => set = [rolled EXCEPT !.mon = v]
    BY <1>4, <1>5, SetMonth
  <2>2. found.cal = ResetAllMin(set, lower)
    BY <1>1, <1>6
  <2>3. c.mday <= 28 => MonthNumber(set) = x
    <3>1. MonthNumber([rolled EXCEPT !.mon = v]) = 12 * rolled.year + v
      BY <1>5 DEF MonthNumber, Proper, Time
    <3> QED  BY <1>5, <2>1, <3>1
  <2>4. lower \in SUBSET Fields /\ "mon" \notin lower
    BY DEF Fields, Bounds
  <2> HIDE DEF set, found
  <2>5. LET d == found.cal
        IN /\ Proper(d) /\ d.year = set.year /\ d.mon = set.mon
           /\ d.sec = (IF "sec" \in lower THEN 0 ELSE c.sec)
           /\ d.min = (IF "min" \in lower THEN 0 ELSE c.min)
           /\ d.hour = (IF "hour" \in lower THEN 0 ELSE c.hour)
           /\ "mday" \in lower => d.mday = 1
    BY <2>1, <2>2, <2>4, ResetProper
  <2>6. MonthNumber(found.cal) = MonthNumber(set)
    BY <2>5 DEF MonthNumber
  <2>7. x <= MonthNumber(set)
    <3>1. rolled.year \in Nat /\ MonthNumber(set) \in Int /\ x \in Int
      BY <1>3, <1>4, <1>5, <2>1 DEF Proper, Time, MonthNumber, x, v, Passed
    <3> QED  BY <1>4, <1>5, <2>1, <3>1
  <2> QED  BY <2>3, <2>5, <2>6, <2>7 DEF found
<1>7. x \in Int
  BY <1>3, <1>4 DEF x, v, Passed
<1> HIDE DEF found
<1>8. v # c.mon => MonthNumber(found.cal) \in Int
  BY <1>6 DEF MonthNumber, Proper, Time
<1>9. v = c.mon => found.cal = c
  BY <1>1
<1> QED  BY <1>1, <1>2, <1>3, <1>6, <1>7, <1>8, <1>9 DEF found

-----------------------------------------------------------------------------
(* The next day.                                                           *)

LEMMA DaysLaterProper ==
  ASSUME NEW c, Proper(c), NEW k \in Nat
  PROVE  LET u == Instant(c) + k * DaySeconds
             d == Broken(u)
         IN /\ u \in Nat /\ DayOf(u) = DayNumber(c) + k
            /\ Proper(d) /\ DayNumber(d) = DayNumber(c) + k
            /\ d.hour = c.hour /\ d.min = c.min /\ d.sec = c.sec
<1> DEFINE u == Instant(c) + k * DaySeconds
           g == DayNumber(c) + k
           h == g * MaxHours + c.hour
           w == h * MaxMinutes + c.min
<1>1. /\ DayNumber(c) \in Nat /\ c.hour \in 0 .. MaxHours - 1 /\ c.min \in 0 .. MaxMinutes - 1
      /\ c.sec \in 0 .. MaxSeconds - 1
  BY DayInMonth DEF Proper, Time
<1>2. u = w * MaxSeconds + c.sec
  BY <1>1, Units DEF Instant, DaySeconds
<1>3. g \in Nat
  BY <1>1
<1> HIDE DEF g
<1>4. h \in Nat /\ h \div MaxHours = g /\ h % MaxHours = c.hour
  BY <1>1, <1>3, Units, DivModNat, Zenon
<1> HIDE DEF h
<1>5. w \in Nat /\ w \div MaxMinutes = h /\ w % MaxMinutes = c.min
  BY <1>1, <1>4, Units, DivModNat, Zenon
<1> HIDE DEF w
<1>7. /\ w * MaxSeconds + c.sec \in Nat
      /\ (w * MaxSeconds + c.sec) \div MaxSeconds = w /\ (w * MaxSeconds + c.sec) % MaxSeconds = c.sec
  BY <1>1, <1>5, Units, DivModNat, Zenon
<1> HIDE DEF u
<1>8. u \in Nat /\ u \div MaxSeconds = w /\ u % MaxSeconds = c.sec
  BY <1>2, <1>7
<1>9. /\ DayOf(u) = g /\ HourOf(u) % MaxHours = c.hour
      /\ MinuteOf(u) % MaxMinutes = c.min
  BY <1>4, <1>5, <1>8 DEF DayOf, HourOf, MinuteOf
<1>10. Broken(u).hour = c.hour /\ Broken(u).min = c.min /\ Broken(u).sec = c.sec
  BY <1>8, <1>9 DEF Broken, BrokenInYear, BrokenIn
<1> QED  BY <1>8, <1>9, <1>10, BrokenProper DEF u, g

\* All instants of a day have the same date.
LEMMA SameDay ==
  ASSUME NEW t, NEW u, DayOf(t) = DayOf(u)
  PROVE  /\ Broken(t).mday = Broken(u).mday /\ Broken(t).mon = Broken(u).mon
         /\ Broken(t).year = Broken(u).year /\ Weekday(t) = Weekday(u)
         /\ \A e : DayMatches(e, t) <=> DayMatches(e, u)
<1>1. /\ Broken(t).mday = Broken(u).mday /\ Broken(t).mon = Broken(u).mon
      /\ Broken(t).year = Broken(u).year /\ Weekday(t) = Weekday(u)
  BY DEF Broken, BrokenInYear, BrokenIn, Weekday
<1> QED  BY <1>1 DEF DayMatches

LEMMA FewestDays ==
  ASSUME NEW e, NEW t \in Nat
  PROVE  LET k == DaysToGo(e, t)
         IN /\ k \in 0 .. 366 /\ (k = 366 \/ DayMatches(e, t + k * DaySeconds))
            /\ \A j \in 0 .. k - 1 : ~DayMatches(e, t + j * DaySeconds)
<1> DEFINE Fits(k) == k = 366 \/ DayMatches(e, t + k * DaySeconds)
           T == {k \in 0 .. 366 : Fits(k)}
           k == DaysToGo(e, t)
<1>1. \E n \in T : \A m \in T : n <= m
  <2>1. T \in SUBSET Nat /\ 366 \in T
    OBVIOUS
  <2> HIDE DEF T
  <2> QED  BY <2>1, Smallest
<1> HIDE DEF Fits
<1>2. \E n \in 0 .. 366 : Fits(n) /\ \A j \in 0 .. n - 1 : ~Fits(j)
  <2>1. PICK n \in T : \A m \in T : n <= m
    BY <1>1
  <2>2. n \in 0 .. 366 /\ Fits(n)
    OBVIOUS
  <2>3. ASSUME NEW j \in 0 .. n - 1 PROVE ~Fits(j)
    BY <2>1, <2>2
  <2> QED  BY <2>2, <2>3
<1>3. k \in 0 .. 366 /\ Fits(k) /\ \A j \in 0 .. k - 1 : ~Fits(j)
  <2>1. k = CHOOSE n \in 0 .. 366 : Fits(n) /\ \A j \in 0 .. n - 1 : ~Fits(j)
    BY DEF DaysToGo, Fits
  <2> HIDE DEF k
  <2> QED  BY <1>2, <2>1
<1> HIDE DEF k
<1> QED  BY <1>3 DEF Fits, k

\* Until 92 days have passed every day of a month has come.
LEMMA EveryDayComes ==
  ASSUME NEW c, Proper(c), NEW s \in 1 .. 31
  PROVE  \E j \in 0 .. 92 : Broken(Instant(c) + j * DaySeconds).mday = s
<1>1. /\ c.year \in Nat \ {0} /\ c.mon \in 0 .. 11 /\ c.mday \in 1 .. 31
      /\ c.mday <= MonthLength(c.year, c.mon)
  BY DEF Proper, Time
<1>2. \E y \in Nat \ {0} : \E m \in 0 .. 11 :
        /\ DaysBefore(y, m) = DaysBefore(c.year, c.mon + 1)
  <2>1. CASE c.mon < 11
    BY <1>1, <2>1
  <2>2. CASE c.mon = 11
    <3>1. DaysBefore(c.year + 1, 0) = DaysBefore(c.year, 12) /\ c.mon + 1 = 12
      BY <1>1, <2>2, YearEnd, YearStartInt
    <3>2. c.year + 1 \in Nat \ {0} /\ 0 \in 0 .. 11
      BY <1>1
    <3> QED  BY <3>1, <3>2
  <2> QED  BY <1>1, <2>1, <2>2
<1>3. PICK y \in Nat \ {0}, m \in 0 .. 11 : DaysBefore(y, m) = DaysBefore(c.year, c.mon + 1)
  BY <1>2
<1>4. \E n \in 0 .. 11 :
        /\ MonthLength(y, n) = 31
        /\ DaysBefore(y, m) <= DaysBefore(y, n) /\ DaysBefore(y, n) <= DaysBefore(y, m) + 31
  <2>1. m \in 0 .. 12 /\ m + 1 \in 0 .. 12 /\ DaysBefore(y, m) \in Nat /\ DaysBefore(y, m + 1) \in Nat
    BY DaysBeforeNat
  <2>2. MonthLength(y, m) \in 28 .. 31 /\ (m = 11 => MonthLength(y, m) = 31)
    BY MonthLengths
  <2>3. CASE MonthLength(y, m) = 31
    BY <2>1, <2>3
  <2>4. CASE MonthLength(y, m) # 31
    <3>1. m < 11 /\ m + 1 \in 0 .. 11
      BY <2>2, <2>4
    <3>2. MonthLength(y, m + 1) = 31
      BY <2>4, <3>1, MonthLengths
    <3> QED  BY <2>1, <2>2, <3>1, <3>2 DEF MonthLength
  <2> QED  BY <2>3, <2>4
<1>5. PICK n \in 0 .. 11 :
        /\ MonthLength(y, n) = 31
        /\ DaysBefore(y, m) <= DaysBefore(y, n) /\ DaysBefore(y, n) <= DaysBefore(y, m) + 31
  BY <1>4
<1> DEFINE d == [c EXCEPT !.year = y, !.mon = n, !.mday = s]
           j == DayNumber(d) - DayNumber(c)
<1>6. Proper(d) /\ d.mday = s /\ d.year = y /\ d.mon = n
  <2>1. d \in Time /\ d.mday = s /\ d.year = y /\ d.mon = n
    BY DEF Proper, Time
  <2> HIDE DEF d
  <2> QED  BY <1>5, <2>1 DEF Proper
<1>7. /\ DayNumber(d) = DaysBefore(y, n) + s - 1
      /\ DayNumber(c) = DaysBefore(c.year, c.mon) + c.mday - 1
  <2> HIDE DEF d
  <2> QED  BY <1>6, DayInMonth
<1> HIDE DEF d
<1>8. j \in 0 .. 92
  <2>1. /\ DaysBefore(y, n) \in Nat /\ DaysBefore(y, m) \in Nat /\ DaysBefore(c.year, c.mon) \in Nat
        /\ DaysBefore(c.year, c.mon + 1) \in Nat
    <3>1. c.mon \in 0 .. 12 /\ c.mon + 1 \in 0 .. 12
      BY <1>1
    <3> QED  BY <1>1, <3>1, DaysBeforeNat
  <2>2. MonthLength(c.year, c.mon) \in 28 .. 31
    BY <1>1, MonthLengths
  <2> QED  BY <1>1, <1>3, <1>5, <1>7, <2>1, <2>2, SMTT(30) DEF MonthLength
<1>9. Broken(Instant(c) + j * DaySeconds).mday = s
  <2>1. DayNumber(c) \in Nat /\ DayNumber(d) \in Nat
    BY <1>6, DayInMonth
  <2>2. j \in Nat /\ DayNumber(c) + j = DayNumber(d)
    BY <1>8, <2>1
  <2> HIDE DEF j
  <2>3. DayOf(Instant(c) + j * DaySeconds) = DayOf(Instant(d))
    BY <1>6, <2>2, DaysLaterProper, ProperUnits
  <2> QED  BY <1>6, <2>3, SameDay, ProperBroken
<1> HIDE DEF j
<1> QED  BY <1>8, <1>9

\* A pattern that restricts the days in at most one way.
OneWay(e) == e.mday = 1 .. 31 \/ e.wday = 0 .. 6

LEMMA MatchesOnDay ==
  ASSUME NEW c, Proper(c), NEW k \in Nat, NEW e
  PROVE  LET t == Instant(c) + k * DaySeconds
         IN /\ DayMatches(e, t) <=> Broken(t).mday \in e.mday /\ (DayNumber(c) + k + 1) % 7 \in e.wday
            /\ Broken(t).mday \in 1 .. 31 /\ (DayNumber(c) + k + 1) % 7 \in 0 .. 6
<1>1. DayNumber(c) \in Nat
  BY DayInMonth
<1> DEFINE t == Instant(c) + k * DaySeconds
<1>2. DayOf(t) = DayNumber(c) + k /\ Proper(Broken(t))
  BY DaysLaterProper
<1> HIDE DEF t
<1>3. Broken(t).mday \in 1 .. 31
  BY <1>2 DEF Proper, Time
<1> QED  BY <1>1, <1>2, <1>3 DEF DayMatches, Weekday, t

LEMMA FewDays ==
  ASSUME NEW c, Proper(c), NEW e, InCalendar(e), OneWay(e)
  PROVE  LET k == DaysToGo(e, Instant(c))
         IN k \in 0 .. 92 /\ (e.mday = 1 .. 31 => k \in 0 .. 6)
<1> DEFINE t == Instant(c)
           k == DaysToGo(e, t)
<1>1. k \in 0 .. 366 /\ \A j \in 0 .. k - 1 : ~DayMatches(e, t + j * DaySeconds)
  BY FewestDays, ProperUnits
<1>2. e.mday # {} /\ e.wday # {} /\ e.mday \subseteq 1 .. 31 /\ e.wday \subseteq 0 .. 6
  BY DEF InCalendar, Fields, Bounds
<1> HIDE DEF k, t
<1>3. ASSUME e.mday = 1 .. 31 PROVE k \in 0 .. 6
  <2>1. PICK s \in e.wday : s \in 0 .. 6
    BY <1>2
  <2> DEFINE n == DayNumber(c)
  <2>2. n \in Nat
    BY DayInMonth
  <2> HIDE DEF n
  <2>3. \E j \in 0 .. 6 : (n + j + 1) % 7 = s
    <3> DEFINE r == (n + 1) % 7
    <3>1. r \in 0 .. 6 /\ \E q \in Int : n + 1 = 7 * q + r
      BY <2>2
    <3>2. CASE s >= r
      <4>1. s - r \in 0 .. 6 /\ (n + (s - r) + 1) % 7 = s
        BY <2>1, <2>2, <3>1, <3>2
      <4> QED  BY <4>1
    <3>3. CASE s < r
      <4>1. s - r + 7 \in 0 .. 6 /\ (n + (s - r + 7) + 1) % 7 = s
        BY <2>1, <2>2, <3>1, <3>3
      <4> QED  BY <4>1
    <3> QED  BY <2>1, <3>1, <3>2, <3>3
  <2>4. PICK j \in 0 .. 6 : (n + j + 1) % 7 = s
    BY <2>3
  <2>5. DayMatches(e, t + j * DaySeconds)
    BY <1>3, <2>4, MatchesOnDay DEF t, n
  <2> QED  BY <1>1, <2>5
<1>4. ASSUME e.wday = 0 .. 6 PROVE k \in 0 .. 92
  <2>1. PICK s \in e.mday : s \in 1 .. 31
    BY <1>2
  <2>2. PICK j \in 0 .. 92 : Broken(t + j * DaySeconds).mday = s
    BY <2>1, EveryDayComes DEF t
  <2>3. DayMatches(e, t + j * DaySeconds)
    BY <1>4, <2>1, <2>2, MatchesOnDay DEF t
  <2> QED  BY <1>1, <2>3
<1> QED  BY <1>3, <1>4 DEF OneWay, k, t

\* Within a week the day of the month changes.
LEMMA OtherDate ==
  ASSUME NEW c, Proper(c), NEW d, Proper(d), NEW k \in 1 .. 6, DayNumber(d) = DayNumber(c) + k
  PROVE  d.mday # c.mday
<1>1. SUFFICES ASSUME d.mday = c.mday PROVE FALSE
  OBVIOUS
<1>2. /\ c.year \in Nat \ {0} /\ c.mon \in 0 .. 11 /\ c.mday \in 1 .. 31
      /\ d.year \in Nat \ {0} /\ d.mon \in 0 .. 11
  BY DEF Proper, Time
<1>3. /\ DayNumber(c) = DaysBefore(c.year, c.mon) + c.mday - 1
      /\ DayNumber(d) = DaysBefore(d.year, d.mon) + c.mday - 1
  BY <1>1, DayInMonth
<1>4. /\ DaysBefore(c.year, c.mon) \in Nat /\ DaysBefore(c.year, c.mon + 1) \in Nat
      /\ DaysBefore(d.year, d.mon) \in Nat /\ DaysBefore(d.year, d.mon + 1) \in Nat
  <2>1. c.mon \in 0 .. 12 /\ c.mon + 1 \in 0 .. 12 /\ d.mon \in 0 .. 12 /\ d.mon + 1 \in 0 .. 12
    BY <1>2
  <2> QED  BY <1>2, <2>1, DaysBeforeNat
<1>5. DaysBefore(d.year, d.mon) = DaysBefore(c.year, c.mon) + k
  BY <1>2, <1>3, <1>4
<1>6. /\ DaysBefore(c.year, c.mon + 1) >= DaysBefore(c.year, c.mon) + 28
      /\ DaysBefore(d.year, d.mon + 1) >= DaysBefore(d.year, d.mon) + 28
  BY <1>2, <1>4, MonthLengths DEF MonthLength
<1>7. MonthNumber(c) \in Int /\ MonthNumber(d) \in Int
  BY <1>2 DEF MonthNumber
<1>8. CASE MonthNumber(c) < MonthNumber(d)
  <2>1. DaysBefore(c.year, c.mon + 1) <= DaysBefore(d.year, d.mon)
    BY <1>2, <1>8, MonthOrder DEF MonthNumber
  <2> QED  BY <1>4, <1>5, <1>6, <2>1
<1>9. CASE MonthNumber(d) < MonthNumber(c)
  <2>1. DaysBefore(d.year, d.mon + 1) <= DaysBefore(c.year, c.mon)
    BY <1>2, <1>9, MonthOrder DEF MonthNumber
  <2> QED  BY <1>4, <1>5, <1>6, <2>1
<1>10. CASE MonthNumber(d) = MonthNumber(c)
  <2>1. d.year = c.year /\ d.mon = c.mon
    BY <1>2, <1>10 DEF MonthNumber
  <2> QED  BY <1>4, <1>5, <2>1
<1> QED  BY <1>7, <1>8, <1>9, <1>10

LEMMA FindDay ==
  ASSUME NEW c, Proper(c), NEW e, InCalendar(e), NEW lower \in SUBSET {"sec", "min", "hour"}
  PROVE  LET k == DaysToGo(e, Instant(c))
             found == FindNextDay(e, c, lower)
             d == found.cal
         IN /\ k \in 0 .. 366 /\ found.value = d.mday
            /\ Proper(d) /\ DayNumber(d) = DayNumber(c) + k
            /\ k = 0 => d = c /\ DayMatches(e, Instant(c))
            /\ k # 0 =>
                 /\ d.sec = (IF "sec" \in lower THEN 0 ELSE c.sec)
                 /\ d.min = (IF "min" \in lower THEN 0 ELSE c.min)
                 /\ d.hour = (IF "hour" \in lower THEN 0 ELSE c.hour)
                 /\ ~DayMatches(e, Instant(c))
            /\ \A w : DayOf(w) \in DayNumber(c) .. DayNumber(c) + k - 1 => ~DayMatches(e, w)
            /\ OneWay(e) => DayMatches(e, Instant(d)) /\ (d.mday = c.mday => k = 0)
<1> DEFINE t == Instant(c)
           k == DaysToGo(e, t)
           u == t + k * DaySeconds
           b == Broken(u)
           found == FindNextDay(e, c, lower)
           d == found.cal
<1>1. /\ t \in Nat /\ DayOf(t) = DayNumber(c) /\ DayNumber(c) \in Nat /\ t + 0 * DaySeconds = t
  BY ProperUnits, Units DEF DaySeconds
<1>2. /\ k \in 0 .. 366 /\ (k = 366 \/ DayMatches(e, u))
      /\ \A j \in 0 .. k - 1 : ~DayMatches(e, t + j * DaySeconds)
  BY <1>1, FewestDays
<1>3. d = (IF k = 0 THEN c ELSE ResetAllMin(b, lower)) /\ found.value = d.mday
  BY DEF FindNextDay, DayFound, DaysLater
<1> HIDE DEF t, k, found
<1>4. /\ DayOf(u) = DayNumber(c) + k /\ Proper(b) /\ DayNumber(b) = DayNumber(c) + k
      /\ b.hour = c.hour /\ b.min = c.min /\ b.sec = c.sec
  <2>1. k \in Nat
    BY <1>2
  <2> QED  BY <2>1, DaysLaterProper, Zenon DEF t, u, b
<1> HIDE DEF b, u
<1>5. ASSUME k # 0
      PROVE  /\ Proper(d) /\ DayNumber(d) = DayNumber(c) + k
             /\ d.sec = (IF "sec" \in lower THEN 0 ELSE c.sec)
             /\ d.min = (IF "min" \in lower THEN 0 ELSE c.min)
             /\ d.hour = (IF "hour" \in lower THEN 0 ELSE c.hour)
             /\ ~DayMatches(e, t)
  <2>1. lower \in SUBSET Fields
    BY DEF Fields, Bounds
  <2>2. d = ResetAllMin(b, lower)
    BY <1>3, <1>5
  <2>3. 0 \in 0 .. k - 1
    BY <1>2, <1>5
  <2> HIDE DEF d
  <2>4. ~DayMatches(e, t)
    BY <1>1, <1>2, <2>3
  <2>5. /\ Proper(d) /\ d.sec = (IF "sec" \in lower THEN 0 ELSE b.sec)
        /\ d.min = (IF "min" \in lower THEN 0 ELSE b.min)
        /\ d.hour = (IF "hour" \in lower THEN 0 ELSE b.hour)
    BY <1>4, <2>1, <2>2, ResetProper
  <2>6. DayNumber(d) = DayNumber(b)
    BY <1>4, <2>2, ResetUnits
  <2> QED  BY <1>4, <2>4, <2>5, <2>6
<1>6. ASSUME k = 0 PROVE d = c /\ DayMatches(e, t)
  BY <1>1, <1>2, <1>3, <1>6 DEF u
<1> HIDE DEF d
<1>7. Proper(d) /\ DayNumber(d) = DayNumber(c) + k
  BY <1>1, <1>2, <1>5, <1>6
<1>8. ASSUME NEW w, DayOf(w) \in DayNumber(c) .. DayNumber(c) + k - 1 PROVE ~DayMatches(e, w)
  <2> DEFINE j == DayOf(w) - DayNumber(c)
  <2>1. j \in 0 .. k - 1 /\ j \in Nat /\ DayNumber(c) + j = DayOf(w)
    BY <1>1, <1>2, <1>8
  <2> HIDE DEF j
  <2>2. DayOf(t + j * DaySeconds) = DayOf(w)
    BY <2>1, DaysLaterProper DEF t
  <2> QED  BY <1>2, <2>1, <2>2, SameDay
<1>9. ASSUME OneWay(e) PROVE DayMatches(e, Instant(d)) /\ (d.mday = c.mday => k = 0)
  <2>1. k \in 0 .. 92 /\ (e.mday = 1 .. 31 => k \in 0 .. 6)
    BY <1>9, FewDays DEF k, t
  <2>2. DayMatches(e, u)
    BY <1>2, <2>1
  <2>3. DayOf(Instant(d)) = DayOf(u) /\ Broken(Instant(d)) = d
    BY <1>4, <1>7, ProperUnits, ProperBroken
  <2>4. DayMatches(e, Instant(d))
    BY <2>2, <2>3, SameDay
  <2>5. ASSUME d.mday = c.mday, k # 0 PROVE FALSE
    <3>1. CASE e.mday = 1 .. 31
      <4>1. k \in 1 .. 6
        BY <2>1, <2>5, <3>1
      <4> QED  BY <1>7, <2>5, <4>1, OtherDate
    <3>2. CASE e.wday = 0 .. 6
      <4>1. d.mday \in e.mday
        BY <2>3, <2>4 DEF DayMatches
      <4>2. Broken(t) = c /\ Weekday(t) \in 0 .. 6
        BY <1>1, ProperBroken DEF Weekday, t
      <4>3. DayMatches(e, t)
        BY <2>5, <3>2, <4>1, <4>2 DEF DayMatches
      <4> QED  BY <1>5, <2>5, <4>3
    <3> QED  BY <1>9, <3>1, <3>2 DEF OneWay
  <2> QED  BY <2>4, <2>5
<1> QED  BY <1>2, <1>3, <1>5, <1>6, <1>7, <1>8, <1>9 DEF t, k, d, found

-----------------------------------------------------------------------------
(* The order of instants.                                                  *)

LEMMA LaterInstant ==
  ASSUME NEW c, Proper(c), NEW d, Proper(d),
         \/ MinutesOf(c) < MinutesOf(d) \/ HoursOf(c) < HoursOf(d)
         \/ DayNumber(c) < DayNumber(d) \/ MonthNumber(c) < MonthNumber(d)
  PROVE  Instant(c) < Instant(d)
<1>1. /\ c.year \in Nat \ {0} /\ c.mon \in 0 .. 11 /\ c.hour \in 0 .. MaxHours - 1
      /\ c.min \in 0 .. MaxMinutes - 1 /\ c.sec \in 0 .. MaxSeconds - 1
  BY DEF Proper, Time
<1>2. d.year \in Nat \ {0} /\ d.mon \in 0 .. 11 /\ d.hour \in Nat /\ d.min \in Nat /\ d.sec \in Nat
  BY DEF Proper, Time
<1>3. /\ DayNumber(c) \in Nat /\ HoursOf(c) \in Nat /\ MinutesOf(c) \in Nat
      /\ DayNumber(d) \in Nat /\ HoursOf(d) \in Nat /\ MinutesOf(d) \in Nat
  BY ProperUnits
<1>4. MonthNumber(c) < MonthNumber(d) => DayNumber(c) < DayNumber(d)
  <2>1. SUFFICES ASSUME MonthNumber(c) < MonthNumber(d) PROVE DayNumber(c) < DayNumber(d)
    OBVIOUS
  <2>2. DaysBefore(c.year, c.mon + 1) <= DaysBefore(d.year, d.mon)
    BY <1>1, <1>2, <2>1, MonthOrder DEF MonthNumber
  <2>3. DaysBefore(c.year, c.mon + 1) \in Nat /\ DaysBefore(d.year, d.mon) \in Nat
    <3>1. c.mon + 1 \in 0 .. 12 /\ d.mon \in 0 .. 12
      BY <1>1, <1>2
    <3> QED  BY <1>1, <1>2, <3>1, DaysBeforeNat
  <2> QED  BY <1>3, <2>2, <2>3, DayInMonth
<1>5. DayNumber(c) < DayNumber(d) => HoursOf(c) < HoursOf(d)
  <2>1. DayNumber(c) \in Int /\ DayNumber(d) \in Int
    BY <1>3
  <2> QED  BY <1>1, <1>2, <1>3, <2>1, Units, HigherUnit, Zenon DEF HoursOf
<1>6. HoursOf(c) < HoursOf(d) => MinutesOf(c) < MinutesOf(d)
  <2>1. HoursOf(c) \in Int /\ HoursOf(d) \in Int
    BY <1>3
  <2> QED  BY <1>1, <1>2, <1>3, <2>1, Units, HigherUnit, Zenon DEF MinutesOf
<1>7. MinutesOf(c) < MinutesOf(d) => Instant(c) < Instant(d)
  BY <1>1, <1>2, <1>3, Units, HigherUnit, SplitInstant
<1> QED  BY <1>4, <1>5, <1>6, <1>7

LEMMA LaterYear ==
  ASSUME NEW c, Proper(c), NEW d, Proper(d), Instant(c) <= Instant(d)
  PROVE  c.year <= d.year
<1>1. c.year \in Nat /\ c.mon \in 0 .. 11 /\ d.year \in Nat /\ d.mon \in 0 .. 11
  BY DEF Proper, Time
<1>2. d.year < c.year => MonthNumber(d) < MonthNumber(c)
  BY <1>1 DEF MonthNumber
<1>3. Instant(c) \in Nat /\ Instant(d) \in Nat
  BY ProperUnits
<1> QED  BY <1>1, <1>2, <1>3, LaterInstant

-----------------------------------------------------------------------------
(* A step of the search.                                                   *)

\* The fields before the one that do_next is at.
Before == << {}, {"sec"}, {"sec", "min"}, {"sec", "min", "hour"}, {"sec", "min", "hour", "mday"},
             {"sec", "min", "hour", "mday", "mon"} >>

\* The time moves forward, if at all; and stays when the field matches.
LEMMA FindMoves ==
  ASSUME NEW c, Proper(c), NEW e, InCalendar(e), NEW n \in 1 .. 5, NEW lower \in SUBSET Before[n]
  PROVE  LET f == Order[n]
             found == Find(e, f, c, lower)
             d == found.cal
         IN /\ Proper(d) /\ (d = c \/ Instant(c) < Instant(d))
            /\ found.value # c[f] => d # c
            /\ found.value = c[f] /\ (n # 4 \/ OneWay(e)) =>
                 /\ d = c /\ c[f] \in e[f]
                 /\ n = 4 => Weekday(Instant(c)) \in e.wday
            /\ n = 1 => d.sec \in e.sec
<1>0. Instant(c) \in Nat /\ Broken(Instant(c)) = c
  BY ProperUnits, ProperBroken
<1>1. CASE n = 1
  <2> DEFINE found == FindNext(e, "sec", c, {})
  <2>1. Order[n] = "sec" /\ lower = {} /\ Find(e, "sec", c, lower) = found
    BY <1>1 DEF Order, Before, Find
  <2>2. /\ found.value = c.sec <=> c.sec \in e.sec
        /\ found.value = c.sec => found.cal = c
        /\ found.value # c.sec =>
             Proper(found.cal) /\ found.cal.sec \in e.sec /\ Instant(c) < Instant(found.cal)
    BY FindSecond
  <2> HIDE DEF found
  <2> QED  BY <1>0, <1>1, <2>1, <2>2
<1>2. CASE n = 2
  <2> DEFINE found == FindNext(e, "min", c, lower)
  <2>1. Order[n] = "min" /\ lower \in SUBSET {"sec"} /\ Find(e, "min", c, lower) = found
    BY <1>2 DEF Order, Before, Find
  <2>2. /\ found.value = c.min <=> c.min \in e.min
        /\ found.value = c.min => found.cal = c
        /\ found.value # c.min => Proper(found.cal) /\ MinutesOf(c) < MinutesOf(found.cal)
    <3>1. lower \in SUBSET {"sec"}
      BY <2>1
    <3>2. /\ found.value = c.min <=> c.min \in e.min
          /\ found.value = c.min => found.cal = c
      BY <3>1, FindMinute
    <3>3. found.value # c.min => Proper(found.cal) /\ MinutesOf(c) < MinutesOf(found.cal)
      BY <3>1, FindMinute
    <3> QED  BY <3>2, <3>3
  <2> HIDE DEF found
  <2> QED  BY <1>0, <1>2, <2>1, <2>2, LaterInstant
<1>3. CASE n = 3
  <2> DEFINE found == FindNext(e, "hour", c, lower)
  <2>1. Order[n] = "hour" /\ lower \in SUBSET {"sec", "min"} /\ Find(e, "hour", c, lower) = found
    BY <1>3 DEF Order, Before, Find
  <2>2. /\ found.value = c.hour <=> c.hour \in e.hour
        /\ found.value = c.hour => found.cal = c
        /\ found.value # c.hour => Proper(found.cal) /\ HoursOf(c) < HoursOf(found.cal)
    <3>1. lower \in SUBSET {"sec", "min"}
      BY <2>1
    <3>2. /\ found.value = c.hour <=> c.hour \in e.hour
          /\ found.value = c.hour => found.cal = c
      BY <3>1, FindHour
    <3>3. found.value # c.hour => Proper(found.cal) /\ HoursOf(c) < HoursOf(found.cal)
      BY <3>1, FindHour
    <3> QED  BY <3>2, <3>3
  <2> HIDE DEF found
  <2> QED  BY <1>0, <1>3, <2>1, <2>2, LaterInstant
<1>4. CASE n = 4
  <2> DEFINE found == FindNextDay(e, c, lower)
             k == DaysToGo(e, Instant(c))
  <2>1. Order[n] = "mday" /\ lower \in SUBSET {"sec", "min", "hour"} /\ Find(e, "mday", c, lower) = found
    BY <1>4 DEF Order, Before, Find
  <2>2. /\ k \in 0 .. 366 /\ found.value = found.cal.mday
        /\ Proper(found.cal) /\ DayNumber(found.cal) = DayNumber(c) + k
        /\ k = 0 => found.cal = c /\ DayMatches(e, Instant(c))
        /\ OneWay(e) => (found.cal.mday = c.mday => k = 0)
    <3>1. lower \in SUBSET {"sec", "min", "hour"}
      BY <2>1
    <3> HIDE DEF k, found
    <3>2. k \in 0 .. 366 /\ found.value = found.cal.mday
      BY <3>1, FindDay, SMTT(30) DEF k, found
    <3>3. Proper(found.cal) /\ DayNumber(found.cal) = DayNumber(c) + k
      <4>1. Proper(found.cal)
        BY <3>1, FindDay, SMTT(30) DEF k, found
      <4>2. DayNumber(found.cal) = DayNumber(c) + k
        BY <3>1, FindDay, SMTT(30) DEF k, found
      <4> QED  BY <4>1, <4>2
    <3>4. k = 0 => found.cal = c /\ DayMatches(e, Instant(c))
      BY <3>1, FindDay, SMTT(30) DEF k, found
    <3>5. OneWay(e) => (found.cal.mday = c.mday => k = 0)
      BY <3>1, FindDay, SMTT(30) DEF k, found
    <3> QED  BY <3>2, <3>3, <3>4, <3>5
  <2> HIDE DEF found, k
  <2>3. k # 0 => Instant(c) < Instant(found.cal)
    <3>1. DayNumber(c) \in Nat
      BY DayInMonth
    <3>2. k # 0 => DayNumber(c) < DayNumber(found.cal)
      BY <2>2, <3>1
    <3> QED  BY <2>2, <3>2, LaterInstant
  <2>4. DayMatches(e, Instant(c)) => c.mday \in e.mday /\ Weekday(Instant(c)) \in e.wday
    BY <1>0 DEF DayMatches
  <2> QED  BY <1>0, <1>4, <2>1, <2>2, <2>3, <2>4
<1>5. CASE n = 5
  <2> DEFINE found == FindNext(e, "mon", c, lower)
  <2>1. Order[n] = "mon" /\ lower \in SUBSET {"sec", "min", "hour", "mday"} /\ Find(e, "mon", c, lower) = found
    BY <1>5 DEF Order, Before, Find
  <2>2. /\ found.value = c.mon <=> c.mon \in e.mon
        /\ found.value = c.mon => found.cal = c
        /\ found.value # c.mon => Proper(found.cal) /\ MonthNumber(c) < MonthNumber(found.cal)
    <3>1. lower \in SUBSET {"sec", "min", "hour", "mday"}
      BY <2>1
    <3>2. /\ found.value = c.mon <=> c.mon \in e.mon
          /\ found.value = c.mon => found.cal = c
      BY <3>1, FindMonth
    <3>3. found.value # c.mon => Proper(found.cal) /\ MonthNumber(c) < MonthNumber(found.cal)
      BY <3>1, FindMonth
    <3> QED  BY <3>2, <3>3
  <2> HIDE DEF found
  <2> QED  BY <1>0, <1>5, <2>1, <2>2, LaterInstant
<1> QED  BY <1>1, <1>2, <1>3, <1>4, <1>5

-----------------------------------------------------------------------------
(* What the parser accepts, for every text and all units of the day.       *)

\* A number is one of those that can be written, or malformed.
LEMMA ParseUintInt == ASSUME NEW text PROVE ParseUint(text) \in Int
  BY DEF ParseUint, Malformed

LEMMA GetRangeInt ==
  ASSUME NEW text, NEW bounds, bounds[1] \in Int, bounds[2] \in Int
  PROVE  GetRange(text, bounds)[1] \in Int /\ GetRange(text, bounds)[2] \in Int
<1>1. ASSUME NEW part PROVE ParseUint(part) \in Int
  BY ParseUintInt
<1> QED
  BY <1>1 DEF GetRange, Malformed

\* An item between the bounds hits nothing outside them.
LEMMA HitsInBounds ==
  ASSUME NEW text, NEW bounds, bounds[1] \in Int, bounds[2] \in Int,
         InBounds(Item(text, bounds), bounds)
  PROVE  Hits(Item(text, bounds)) \subseteq bounds[1] .. bounds[2] - 1
<1> DEFINE item == Item(text, bounds)
           begin == LET split == StrSplit(text, Slash) IN IF split = <<>> THEN <<>> ELSE split[1]
<1>1. item.range = GetRange(begin, bounds)
  BY DEF Item
<1>2. item.range[1] \in Int /\ item.range[2] \in Int
  <2> HIDE DEF begin
  <2> QED  BY <1>1, GetRangeInt
<1>3. item.last = item.range[2] \/ item.last = bounds[2] - 1
  BY DEF Item
<1> HIDE DEF item
<1>4. bounds[1] <= item.range[1] /\ item.range[2] < bounds[2]
  BY DEF InBounds, item
<1>5. item.last \in Int /\ item.last <= bounds[2] - 1
  BY <1>2, <1>3, <1>4
<1>6. ASSUME NEW v \in item.range[1] .. item.last PROVE v \in bounds[1] .. bounds[2] - 1
  BY <1>2, <1>4, <1>5
<1> QED  BY <1>6 DEF Hits, item

LEMMA NumbersInBounds ==
  ASSUME NEW text, NEW bounds, bounds[1] \in Int, bounds[2] \in Int
  PROVE  SetNumberHits(text, bounds) \subseteq bounds[1] .. bounds[2] - 1
<1> DEFINE parts == ToSet(StrSplit(text, Comma))
           items == {Item(part, bounds) : part \in parts}
<1>1. CASE \A i \in items : InBounds(i, bounds)
  <2>1. SetNumberHits(text, bounds) = UNION {Hits(i) : i \in items}
    BY <1>1 DEF SetNumberHits
  <2>2. ASSUME NEW part \in parts
        PROVE  Hits(Item(part, bounds)) \subseteq bounds[1] .. bounds[2] - 1
    <3>1. InBounds(Item(part, bounds), bounds)
      BY <1>1
    <3> QED  BY <3>1, HitsInBounds
  <2> QED  BY <2>1, <2>2
<1>2. CASE ~ \A i \in items : InBounds(i, bounds)
  BY <1>2 DEF SetNumberHits
<1> QED  BY <1>1, <1>2

\* What dcmCronParseExp accepts is in the calendar, after the rotation of months and
\* of Sundays.
LEMMA ParseInCalendar ==
  ASSUME NEW p
  PROVE  Parse(p) = Rejected \/ InCalendar(Parse(p))
<1> DEFINE hits == [f \in Fields |-> IF f = "sec" /\ p.sec = <<>> THEN {0}
                                       ELSE SetNumberHits(Replaced(f, p[f]), Bounds[f])]
           turned == [f \in Fields |-> Rotated(f, hits[f])]
<1>1. Parse(p) = Rejected \/ (Parse(p) = turned /\ \A f \in Fields : hits[f] # {})
  BY DEF Parse
<1>2. ASSUME NEW f \in Fields
      PROVE  hits[f] \subseteq Bounds[f][1] .. Bounds[f][2] - 1
  <2>1. Bounds[f][1] \in Int /\ Bounds[f][2] \in Int
    BY Units DEF Bounds, Fields
  <2>2. CASE f = "sec" /\ p.sec = <<>>
    BY <2>2, Units DEF Bounds
  <2>3. CASE ~(f = "sec" /\ p.sec = <<>>)
    BY <2>1, <2>3, NumbersInBounds
  <2> QED  BY <2>2, <2>3
<1>3. Fields = {"sec", "min", "hour", "mday", "mon", "wday"}
  BY DEF Fields, Bounds
<1> HIDE DEF hits
<1>4. ASSUME \A f \in Fields : hits[f] # {} PROVE InCalendar(turned)
  <2>1. /\ hits.sec \subseteq 0 .. MaxSeconds - 1 /\ hits.min \subseteq 0 .. MaxMinutes - 1
        /\ hits.hour \subseteq 0 .. MaxHours - 1 /\ hits.mday \subseteq 1 .. 31
        /\ hits.mon \subseteq 1 .. 12 /\ hits.wday \subseteq 0 .. 7
    BY <1>2, <1>3, Units DEF Bounds
  <2>2. /\ turned.sec = hits.sec /\ turned.min = hits.min /\ turned.hour = hits.hour
        /\ turned.mday = hits.mday
        /\ turned.mon = {v - 1 : v \in hits.mon} /\ turned.wday = {v % 7 : v \in hits.wday}
    BY <1>3 DEF Rotated
  <2>3. turned.mon \subseteq 0 .. 11 /\ turned.wday \subseteq 0 .. 6
    <3>1. \A v \in hits.mon : v - 1 \in 0 .. 11
      BY <2>1
    <3>2. \A v \in hits.wday : v % 7 \in 0 .. 6
      BY <2>1
    <3> HIDE DEF turned
    <3> QED  BY <2>2, <3>1, <3>2
  <2>4. \A f \in Fields : turned[f] # {}
    <3>1. {v - 1 : v \in hits.mon} # {} /\ {v % 7 : v \in hits.wday} # {}
      BY <1>3, <1>4
    <3>2. \A f \in {"sec", "min", "hour", "mday"} : turned[f] = hits[f] /\ hits[f] # {}
      BY <1>3, <1>4, <2>2
    <3> HIDE DEF turned
    <3> QED  BY <1>3, <2>2, <3>1, <3>2
  <2> QED  BY <2>1, <2>2, <2>3, <2>4 DEF InCalendar
<1> QED  BY <1>1, <1>4

-----------------------------------------------------------------------------
(* The invariant of the search.                                            *)

\* While a search is under way it has an accepted pattern, has not fallen behind the
\* instant it began at, and is to reset fields that it has been at.
SearchBegun ==
  at # Idle => /\ expr # Rejected
               /\ Instant(cal) >= from /\ (again => Instant(cal) > from)
               /\ resets \in SUBSET Before[at]

\* A do_next that waits has changed a field behind the second.
CallersWait ==
  \A i \in 1 .. Len(callers) :
    callers[i].at \in 3 .. 6 /\ callers[i].resets \in SUBSET Before[callers[i].at]

\* Every field that the innermost do_next has passed matches.
MatchedBefore ==
  /\ \A i \in 1 .. 5 : i < at => cal[Order[i]] \in expr[Order[i]]
  /\ at > 4 => Weekday(Instant(cal)) \in expr.wday

CronIInv ==
  /\ CronTypeOK /\ SearchBegun /\ CallersWait
  /\ at # Idle /\ OneWay(expr) => MatchedBefore
  /\ AnswersMatch

\* For the time, to have its type is to be proper.
LEMMA ProperTime ==
  ASSUME NEW c
  PROVE  (Instant(c) \in Nat /\ c = Broken(Instant(c))) <=> Proper(c)
  BY BrokenProper, ProperUnits, ProperBroken

LEMMA ProperYear == ASSUME NEW c, Proper(c) PROVE c.year \in Nat \ {0}
  BY DEF Proper, Time

LEMMA FieldsBefore ==
  ASSUME NEW n \in 1 .. 5
  PROVE  /\ Before[n] \subseteq Fields /\ Before[n + 1] = Before[n] \cup {Order[n]}
         /\ Before[n] \subseteq Before[n + 1] /\ Order[n] \in Fields
         /\ \A m \in 1 .. 5 : Order[m] = Order[n] => m = n
<1>1. n = 1 \/ n = 2 \/ n = 3 \/ n = 4 \/ n = 5
  OBVIOUS
<1>2. Fields = {"sec", "min", "hour", "mday", "mon", "wday"}
  BY DEF Fields, Bounds
<1> QED  BY <1>1, <1>2 DEF Before, Order

LEMMA FrontOf ==
  ASSUME NEW S, NEW s \in Seq(S), s # <<>>
  PROVE  /\ Front(s) \in Seq(S) /\ Len(Front(s)) = Len(s) - 1 /\ Len(s) \in Nat \ {0}
         /\ \A i \in 1 .. Len(s) - 1 : Front(s)[i] = s[i]
         /\ Last(s) = s[Len(s)] /\ Last(s) \in S
<1>1. Len(s) \in Nat \ {0}
  OBVIOUS
<1> DEFINE n == Len(s) - 1
<1>2. n \in Nat /\ n + 1 = Len(s) /\ s[Len(s)] \in S
  BY <1>1
<1>3. Front(s) = SubSeq(s, 1, n) /\ Last(s) = s[Len(s)]
  BY DEF Front, Last
<1>4. SubSeq(s, 1, n) \in Seq(S) /\ Len(SubSeq(s, 1, n)) = n
  BY <1>2
<1>5. \A i \in 1 .. n : SubSeq(s, 1, n)[i] = s[i]
  BY <1>2
<1> QED  BY <1>1, <1>2, <1>3, <1>4, <1>5

LEMMA CallersTyped ==
  ASSUME CronTypeOK, CallersWait, NEW frame \in Call,
         frame.at \in 3 .. 6, frame.resets \in SUBSET Before[frame.at]
  PROVE  LET waiting == Append(callers, frame)
         IN /\ waiting \in Seq(Call)
            /\ \A i \in 1 .. Len(waiting) :
                 waiting[i].at \in 3 .. 6 /\ waiting[i].resets \in SUBSET Before[waiting[i].at]
<1>1. callers \in Seq(Call)
  BY DEF CronTypeOK
<1> DEFINE waiting == Append(callers, frame)
           n == Len(callers)
<1>2. /\ waiting \in Seq(Call) /\ Len(waiting) = n + 1 /\ n \in Nat
      /\ \A i \in 1 .. n : waiting[i] = callers[i]
      /\ waiting[n + 1] = frame
  BY <1>1
<1>3. ASSUME NEW i \in 1 .. n
      PROVE  callers[i].at \in 3 .. 6 /\ callers[i].resets \in SUBSET Before[callers[i].at]
  BY DEF CallersWait
<1> HIDE DEF n, waiting
<1>4. ASSUME NEW i \in 1 .. Len(waiting)
      PROVE  waiting[i].at \in 3 .. 6 /\ waiting[i].resets \in SUBSET Before[waiting[i].at]
  <2>1. CASE i \in 1 .. n
    BY <1>2, <1>3, <2>1
  <2>2. CASE i = n + 1
    BY <1>2, <2>2
  <2> QED  BY <1>2, <2>1, <2>2
<1> QED  BY <1>2, <1>4 DEF waiting

LEMMA CallersReturn ==
  ASSUME CronTypeOK, CallersWait, callers # <<>>
  PROVE  /\ Front(callers) \in Seq(Call)
         /\ \A i \in 1 .. Len(Front(callers)) :
              /\ Front(callers)[i].at \in 3 .. 6
              /\ Front(callers)[i].resets \in SUBSET Before[Front(callers)[i].at]
         /\ Last(callers).at \in 3 .. 6 /\ Last(callers).resets \in SUBSET Before[Last(callers).at]
         /\ Last(callers).resets \subseteq Fields
<1>1. callers \in Seq(Call)
  BY DEF CronTypeOK
<1> DEFINE n == Len(callers)
<1>2. /\ Front(callers) \in Seq(Call) /\ Len(Front(callers)) = n - 1 /\ n \in Nat \ {0}
      /\ \A i \in 1 .. n - 1 : Front(callers)[i] = callers[i]
      /\ Last(callers) = callers[n] /\ Last(callers) \in Call
  BY <1>1, FrontOf
<1>3. ASSUME NEW i \in 1 .. n
      PROVE  callers[i].at \in 3 .. 6 /\ callers[i].resets \in SUBSET Before[callers[i].at]
  BY DEF CallersWait
<1> HIDE DEF n
<1>4. n \in 1 .. n /\ \A i \in 1 .. n - 1 : i \in 1 .. n
  BY <1>2
<1>5. Last(callers).resets \subseteq Fields
  BY <1>2 DEF Call
<1>6. ASSUME NEW i \in 1 .. Len(Front(callers))
      PROVE  /\ Front(callers)[i].at \in 3 .. 6
             /\ Front(callers)[i].resets \in SUBSET Before[Front(callers)[i].at]
  <2>1. Front(callers)[i] = callers[i] /\ i \in 1 .. n
    BY <1>2, <1>4
  <2> QED  BY <1>3, <2>1
<1> QED  BY <1>2, <1>3, <1>4, <1>5, <1>6

LEMMA CronInitInv == CronInit => CronIInv
<1> SUFFICES ASSUME CronInit PROVE CronIInv
  OBVIOUS
<1>1. from \in Nat /\ next = from /\ calls = 0 /\ MaxCalls \in Nat
  BY CronAssumption DEF CronInit
<1>2. Proper(cal) /\ dot = cal.year
  BY <1>1, BrokenProper DEF CronInit
<1>3. AcceptedInCalendar
  BY ParseInCalendar DEF CronInit, AcceptedInCalendar
<1>4. at = Idle /\ resets = {} /\ callers = <<>> /\ again = FALSE /\ pattern \in CronPatterns
  BY DEF CronInit
<1>5. callers \in Seq(Call)
  BY <1>4
<1>6. CronTypeOK
  <2>1. dot \in 1 .. cal.year
    BY <1>2, ProperYear
  <2>2. Instant(cal) \in Nat /\ cal = Broken(Instant(cal))
    BY <1>2, ProperTime
  <2>3. calls \in 0 .. MaxCalls /\ at \in Idle .. Done /\ resets \subseteq Fields
    BY <1>1, <1>4 DEF Idle, Done
  <2>4. again \in BOOLEAN
    BY <1>4, Zenon
  <2> QED  BY <1>1, <1>3, <1>4, <1>5, <2>1, <2>2, <2>3, <2>4 DEF CronTypeOK
<1> QED  BY <1>1, <1>4, <1>6 DEF CronIInv, SearchBegun, CallersWait, AnswersMatch, Answered

LEMMA SearchFacts ==
  ASSUME CronIInv, at # Idle
  PROVE  /\ Proper(cal) /\ InCalendar(expr) /\ at \in 1 .. 6 /\ from \in Nat /\ Instant(cal) \in Nat
         /\ Instant(cal) >= from /\ resets \in SUBSET Before[at] /\ callers \in Seq(Call)
         /\ dot \in 1 .. cal.year
<1>1. Proper(cal) /\ AcceptedInCalendar /\ from \in Nat /\ Instant(cal) \in Nat /\ callers \in Seq(Call)
      /\ dot \in 1 .. cal.year
  BY ProperTime DEF CronIInv, CronTypeOK
<1>2. at \in 1 .. 6
  BY DEF CronIInv, CronTypeOK, Idle, Done
<1> QED  BY <1>1, <1>2 DEF CronIInv, SearchBegun, AcceptedInCalendar

\* A step of the search that goes on with it.
LEMMA GoesOn ==
  ASSUME CronIInv, at # Idle, UNCHANGED <<question, dot>>, again' = again,
         Proper(cal'), Instant(cal) <= Instant(cal'),
         at' \in 1 .. 6, resets' \in SUBSET Before[at'], resets' \subseteq Fields, callers' \in Seq(Call)
  PROVE  CronTypeOK' /\ SearchBegun' /\ AnswersMatch'
<1>1. /\ Proper(cal) /\ from \in Nat /\ Instant(cal) \in Nat /\ Instant(cal) >= from
      /\ dot \in 1 .. cal.year
  BY SearchFacts
<1>2. pattern' = pattern /\ expr' = expr /\ from' = from /\ next' = next /\ calls' = calls /\ dot' = dot
  BY DEF question
<1>3. cal.year <= cal'.year /\ cal.year \in Nat /\ cal'.year \in Nat
  BY <1>1, LaterYear, ProperYear
<1>4. Instant(cal') \in Nat /\ cal' = Broken(Instant(cal'))
  BY ProperTime
<1>5. at' # Idle /\ at' \in Idle .. Done
  BY DEF Idle, Done
<1>6. CronTypeOK'
  <2>1. dot' \in 1 .. cal'.year
    BY <1>1, <1>2, <1>3
  <2>2. AcceptedInCalendar' /\ again' \in BOOLEAN
    BY <1>2 DEF CronIInv, CronTypeOK, AcceptedInCalendar
  <2> QED  BY <1>2, <1>4, <1>5, <2>1, <2>2 DEF CronIInv, CronTypeOK
<1>7. SearchBegun'
  <2>1. expr # Rejected /\ (again => Instant(cal) > from)
    BY DEF CronIInv, SearchBegun
  <2>2. Instant(cal') >= from /\ (again => Instant(cal') > from)
    BY <1>1, <1>4, <2>1
  <2> QED  BY <1>2, <2>1, <2>2 DEF SearchBegun
<1>8. AnswersMatch'
  BY <1>5 DEF AnswersMatch, Answered
<1> QED  BY <1>6, <1>7, <1>8

LEMMA ParseGetNextInv == CronIInv /\ ParseGetNext => CronIInv'
<1> SUFFICES ASSUME CronIInv, ParseGetNext PROVE CronIInv'
  OBVIOUS
<1>1. /\ at = Idle /\ expr # Rejected /\ next # Invalid /\ calls < MaxCalls /\ calls' = calls + 1
      /\ from' = next /\ again' = FALSE /\ cal' = Broken(next) /\ dot' = Broken(next).year
      /\ at' = 1 /\ resets' = {} /\ callers' = callers /\ pattern' = pattern /\ expr' = expr /\ next' = next
  BY DEF ParseGetNext, DoNext, Enter
<1>2. next \in Nat
  BY <1>1 DEF CronIInv, CronTypeOK
<1>3. Proper(cal') /\ Instant(cal') = next
  BY <1>1, <1>2, BrokenProper
<1>4. CronTypeOK'
  <2>1. dot' \in 1 .. cal'.year
    BY <1>1, <1>3, ProperYear
  <2>2. Instant(cal') \in Nat /\ cal' = Broken(Instant(cal'))
    BY <1>3, ProperTime
  <2>3. at' \in Idle .. Done /\ calls' \in 0 .. MaxCalls /\ resets' \subseteq Fields
    BY <1>1, CronAssumption DEF Idle, Done, CronIInv, CronTypeOK
  <2>4. AcceptedInCalendar'
    BY <1>1 DEF CronIInv, CronTypeOK, AcceptedInCalendar
  <2>5. again' \in BOOLEAN
    BY <1>1, Zenon
  <2> QED  BY <1>1, <1>2, <2>1, <2>2, <2>3, <2>4, <2>5 DEF CronIInv, CronTypeOK
<1>5. SearchBegun'
  BY <1>1, <1>2, <1>3 DEF SearchBegun, Before
<1>6. CallersWait'
  BY <1>1 DEF CronIInv, CallersWait
<1>7. MatchedBefore' /\ AnswersMatch'
  BY <1>1 DEF MatchedBefore, AnswersMatch, Answered, Idle
<1> QED  BY <1>4, <1>5, <1>6, <1>7 DEF CronIInv

\* What a field finds, for the search as it stands.
LEMMA FoundMoves ==
  ASSUME CronIInv, NEW f \in Fields, AtField(f)
  PROVE  LET found == Find(expr, f, cal, resets)
             d == found.cal
         IN /\ Proper(d) /\ Instant(cal) <= Instant(d) /\ (d = cal \/ Instant(cal) < Instant(d))
            /\ found.value # cal[f] => d # cal
            /\ found.value = cal[f] /\ (f # "mday" \/ OneWay(expr)) =>
                 /\ d = cal /\ cal[f] \in expr[f]
                 /\ f = "mday" => Weekday(Instant(cal)) \in expr.wday
            /\ f = "sec" => d.sec \in expr.sec
            /\ at \in 1 .. 5 /\ at # Idle /\ f = Order[at] /\ (f = "sec" <=> at = 1) /\ (f = "mday" <=> at = 4)
            /\ Before[at + 1] = Before[at] \cup {f} /\ Before[at] \subseteq Fields
<1>1. at \in 1 .. 5 /\ at # Idle /\ f = Order[at] /\ (f = "sec" <=> at = 1) /\ (f = "mday" <=> at = 4)
  BY DEF AtField, Idle, Order
<1>2. /\ Proper(cal) /\ InCalendar(expr) /\ resets \in SUBSET Before[at] /\ Instant(cal) \in Nat
  BY <1>1, SearchFacts
<1>3. LET found == Find(expr, f, cal, resets)
          d == found.cal
      IN /\ Proper(d) /\ (d = cal \/ Instant(cal) < Instant(d))
         /\ found.value # cal[f] => d # cal
         /\ found.value = cal[f] /\ (at # 4 \/ OneWay(expr)) =>
              /\ d = cal /\ cal[f] \in expr[f]
              /\ at = 4 => Weekday(Instant(cal)) \in expr.wday
         /\ at = 1 => d.sec \in expr.sec
  BY <1>1, <1>2, FindMoves, SMTT(30)
<1>4. LET d == Find(expr, f, cal, resets).cal IN Instant(cal) <= Instant(d)
  BY <1>2, <1>3, ProperUnits
<1>5. Before[at + 1] = Before[at] \cup {f} /\ Before[at] \subseteq Fields
  BY <1>1, FieldsBefore
<1> QED  BY <1>1, <1>3, <1>4, <1>5

LEMMA FieldStaysInv == CronIInv /\ FieldStays => CronIInv'
<1> SUFFICES ASSUME CronIInv, FieldStays PROVE CronIInv'
  OBVIOUS
<1> DEFINE Found(f) == Find(expr, f, cal, resets)
<1>1. PICK f \in {Order[i] : i \in 1 .. 5} :
        /\ AtField(f) /\ Found(f).value = cal[f]
        /\ cal' = Found(f).cal /\ at' = at + 1 /\ resets' = resets \cup {f}
        /\ UNCHANGED <<question, dot, again, callers>>
  BY DEF FieldStays
<1>2. f \in Fields
  BY FieldsBefore
<1>3. /\ Proper(cal') /\ Instant(cal) <= Instant(cal')
      /\ (f # "mday" \/ OneWay(expr)) =>
           /\ cal' = cal /\ cal[f] \in expr[f]
           /\ f = "mday" => Weekday(Instant(cal)) \in expr.wday
      /\ at \in 1 .. 5 /\ at # Idle /\ f = Order[at] /\ (f = "mday" <=> at = 4)
      /\ Before[at + 1] = Before[at] \cup {f} /\ Before[at] \subseteq Fields
  BY <1>1, <1>2, FoundMoves
<1> HIDE DEF Found
<1>4. resets \in SUBSET Before[at] /\ callers \in Seq(Call)
  BY <1>3, SearchFacts
<1>5. at' \in 1 .. 6 /\ resets' \in SUBSET Before[at'] /\ resets' \subseteq Fields /\ callers' \in Seq(Call)
  BY <1>1, <1>2, <1>3, <1>4
<1>6. CronTypeOK' /\ SearchBegun' /\ AnswersMatch'
  BY <1>1, <1>3, <1>5, GoesOn
<1>7. CallersWait'
  BY <1>1 DEF CronIInv, CallersWait
<1>8. expr' = expr
  BY <1>1 DEF question
<1>9. ASSUME OneWay(expr) PROVE MatchedBefore'
  <2>1. MatchedBefore
    BY <1>3, <1>9 DEF CronIInv
  <2>2. cal' = cal /\ cal[Order[at]] \in expr[Order[at]] /\ (at = 4 => Weekday(Instant(cal)) \in expr.wday)
    BY <1>3, <1>9
  <2>3. ASSUME NEW i \in 1 .. 5, i < at' PROVE cal'[Order[i]] \in expr'[Order[i]]
    BY <1>1, <1>3, <1>8, <2>1, <2>2, <2>3 DEF MatchedBefore
  <2>4. at' > 4 => Weekday(Instant(cal')) \in expr'.wday
    BY <1>1, <1>3, <1>8, <2>1, <2>2 DEF MatchedBefore
  <2> QED  BY <2>3, <2>4 DEF MatchedBefore
<1> QED  BY <1>6, <1>7, <1>8, <1>9 DEF CronIInv

LEMMA SecondChangesInv == CronIInv /\ SecondChanges => CronIInv'
<1> SUFFICES ASSUME CronIInv, SecondChanges PROVE CronIInv'
  OBVIOUS
<1> DEFINE found == Find(expr, "sec", cal, resets)
<1>1. /\ AtField("sec") /\ found.value # cal.sec
      /\ cal' = found.cal /\ at' = at + 1
      /\ UNCHANGED <<question, dot, again, resets, callers>>
  BY DEF SecondChanges
<1>2. "sec" \in Fields
  BY DEF Fields, Bounds
<1>3. /\ Proper(cal') /\ Instant(cal) <= Instant(cal') /\ cal'.sec \in expr.sec
      /\ at = 1 /\ at # Idle /\ Before[at + 1] = Before[at] \cup {"sec"} /\ Before[at] \subseteq Fields
  BY <1>1, <1>2, FoundMoves
<1> HIDE DEF found
<1>4. resets \in SUBSET Before[at] /\ callers \in Seq(Call)
  BY <1>3, SearchFacts
<1>5. at' \in 1 .. 6 /\ resets' \in SUBSET Before[at'] /\ resets' \subseteq Fields /\ callers' \in Seq(Call)
  BY <1>1, <1>3, <1>4
<1>6. CronTypeOK' /\ SearchBegun' /\ AnswersMatch'
  BY <1>1, <1>3, <1>5, GoesOn
<1>7. CallersWait'
  BY <1>1 DEF CronIInv, CallersWait
<1>8. MatchedBefore'
  <2>1. expr' = expr /\ at' = 2 /\ Order[1] = "sec"
    BY <1>1, <1>3 DEF question, Order
  <2> QED  BY <1>3, <2>1 DEF MatchedBefore
<1> QED  BY <1>6, <1>7, <1>8 DEF CronIInv

LEMMA FieldChangesInv == CronIInv /\ FieldChanges => CronIInv'
<1> SUFFICES ASSUME CronIInv, FieldChanges PROVE CronIInv'
  OBVIOUS
<1> DEFINE Found(f) == Find(expr, f, cal, resets)
<1>1. PICK f \in {Order[i] : i \in 2 .. 5} :
        /\ AtField(f) /\ cal' = Found(f).cal
        /\ callers' = Append(callers, [at |-> at + 1, resets |-> resets]) /\ Enter
        /\ UNCHANGED <<question, dot, again>>
  BY DEF FieldChanges
<1>2. f \in Fields /\ f # "sec"
  BY FieldsBefore DEF Order
<1>3. /\ Proper(cal') /\ Instant(cal) <= Instant(cal')
      /\ at \in 1 .. 5 /\ at # Idle /\ at # 1
      /\ Before[at + 1] = Before[at] \cup {f} /\ Before[at] \subseteq Fields
  BY <1>1, <1>2, FoundMoves
<1> HIDE DEF Found
<1> DEFINE frame == [at |-> at + 1, resets |-> resets]
<1>4. resets \in SUBSET Before[at]
  BY <1>3, SearchFacts
<1>5. /\ frame \in Call /\ frame.at \in 3 .. 6 /\ frame.resets \in SUBSET Before[frame.at]
      /\ callers' = Append(callers, frame)
  BY <1>1, <1>3, <1>4 DEF Call, Done
<1> HIDE DEF frame
<1>6. CronTypeOK /\ CallersWait
  BY DEF CronIInv
<1>7. callers' \in Seq(Call) /\ CallersWait'
  BY <1>5, <1>6, CallersTyped DEF CallersWait
<1>8. at' = 1 /\ resets' = {}
  BY <1>1 DEF Enter
<1>9. CronTypeOK' /\ SearchBegun' /\ AnswersMatch'
  <2>1. at' \in 1 .. 6 /\ resets' \in SUBSET Before[at'] /\ resets' \subseteq Fields
    BY <1>8
  <2> QED  BY <1>1, <1>3, <1>7, <2>1, GoesOn
<1>10. MatchedBefore'
  BY <1>8 DEF MatchedBefore
<1> QED  BY <1>7, <1>9, <1>10 DEF CronIInv

LEMMA GiveUpInv == CronIInv /\ GiveUp => CronIInv'
<1> SUFFICES ASSUME CronIInv, GiveUp PROVE CronIInv'
  OBVIOUS
<1> DEFINE found == Find(expr, "mon", cal, resets)
<1>1. /\ AtField("mon") /\ cal' = found.cal /\ next' = Invalid /\ at' = Idle /\ callers' = <<>>
      /\ UNCHANGED <<pattern, expr, from, calls, dot, again, resets>>
  BY DEF GiveUp
<1>2. "mon" \in Fields
  BY DEF Fields, Bounds
<1>3. Proper(cal') /\ Instant(cal) <= Instant(cal') /\ at # Idle
  BY <1>1, <1>2, FoundMoves
<1> HIDE DEF found
<1>4. Proper(cal) /\ dot \in 1 .. cal.year
  BY <1>3, SearchFacts
<1>5. CronTypeOK'
  <2>1. cal.year <= cal'.year /\ cal.year \in Nat /\ cal'.year \in Nat
    BY <1>3, <1>4, LaterYear, ProperYear
  <2>2. dot' \in 1 .. cal'.year
    BY <1>1, <1>4, <2>1
  <2>3. Instant(cal') \in Nat /\ cal' = Broken(Instant(cal'))
    BY <1>3, ProperTime
  <2>4. next' \in Nat \cup {Invalid} /\ at' \in Idle .. Done /\ callers' \in Seq(Call)
    BY <1>1 DEF Idle, Done
  <2>5. AcceptedInCalendar'
    BY <1>1 DEF CronIInv, CronTypeOK, AcceptedInCalendar
  <2> QED  BY <1>1, <2>2, <2>3, <2>4, <2>5 DEF CronIInv, CronTypeOK
<1>6. SearchBegun' /\ CallersWait' /\ AnswersMatch'
  BY <1>1 DEF SearchBegun, CallersWait, AnswersMatch
<1> QED  BY <1>1, <1>5, <1>6 DEF CronIInv

\* When a do_next is done, all fields match, and they do so for those that wait for it.
LEMMA AllMatch ==
  ASSUME CronIInv, at = Done, OneWay(expr)
  PROVE  /\ \A i \in 1 .. 5 : cal[Order[i]] \in expr[Order[i]]
         /\ Weekday(Instant(cal)) \in expr.wday
  BY DEF CronIInv, MatchedBefore, Done, Idle

LEMMA ReturnInv == CronIInv /\ Return => CronIInv'
<1> SUFFICES ASSUME CronIInv, Return PROVE CronIInv'
  OBVIOUS
<1>1. /\ at = Done /\ callers # <<>>
      /\ at' = Last(callers).at /\ resets' = Last(callers).resets /\ callers' = Front(callers)
      /\ UNCHANGED <<question, cal, dot, again>>
  BY DEF Return
<1>2. CronTypeOK /\ CallersWait
  BY DEF CronIInv
<1>3. /\ callers' \in Seq(Call) /\ CallersWait' /\ at' \in 3 .. 6
      /\ resets' \in SUBSET Before[at'] /\ resets' \subseteq Fields
  BY <1>1, <1>2, CallersReturn DEF CallersWait
<1>4. at # Idle
  BY <1>1 DEF Idle, Done
<1>5. Proper(cal') /\ Instant(cal) <= Instant(cal')
  BY <1>1, <1>4, SearchFacts
<1>6. CronTypeOK' /\ SearchBegun' /\ AnswersMatch'
  <2>1. at' \in 1 .. 6
    BY <1>3
  <2> QED  BY <1>1, <1>3, <1>4, <1>5, <2>1, GoesOn
<1>7. OneWay(expr) => MatchedBefore'
  <2>1. expr' = expr /\ cal' = cal
    BY <1>1 DEF question
  <2> QED  BY <1>1, <2>1, AllMatch DEF MatchedBefore
<1>8. expr' = expr
  BY <1>1 DEF question
<1> QED  BY <1>3, <1>6, <1>7, <1>8 DEF CronIInv

LEMMA SearchAgainInv == CronIInv /\ SearchAgain => CronIInv'
<1> SUFFICES ASSUME CronIInv, SearchAgain PROVE CronIInv'
  OBVIOUS
<1>1. /\ at = Done /\ callers = <<>> /\ Instant(cal) = from /\ again' = TRUE
      /\ cal' = AddToField(cal, "sec") /\ dot' = cal'.year /\ at' = 1 /\ resets' = {}
      /\ callers' = callers /\ UNCHANGED question
  BY DEF SearchAgain, DoNext, Enter
<1>2. at # Idle
  BY <1>1 DEF Idle, Done
<1>3. Proper(cal) /\ from \in Nat
  BY <1>2, SearchFacts
<1>4. Proper(cal') /\ Instant(cal') = from + 1
  BY <1>1, <1>3, NextSecond
<1>5. pattern' = pattern /\ expr' = expr /\ from' = from /\ next' = next /\ calls' = calls
  BY <1>1 DEF question
<1>6. CronTypeOK'
  <2>1. dot' \in 1 .. cal'.year
    BY <1>1, <1>4, ProperYear
  <2>2. Instant(cal') \in Nat /\ cal' = Broken(Instant(cal'))
    BY <1>4, ProperTime
  <2>3. at' \in Idle .. Done /\ resets' \subseteq Fields
    BY <1>1 DEF Idle, Done
  <2>4. AcceptedInCalendar'
    BY <1>5 DEF CronIInv, CronTypeOK, AcceptedInCalendar
  <2>5. again' \in BOOLEAN
    BY <1>1, Zenon
  <2> QED  BY <1>1, <1>5, <2>1, <2>2, <2>3, <2>4, <2>5 DEF CronIInv, CronTypeOK
<1>7. SearchBegun'
  <2>1. expr # Rejected
    BY <1>2 DEF CronIInv, SearchBegun
  <2> QED  BY <1>1, <1>3, <1>4, <1>5, <2>1 DEF SearchBegun
<1>8. CallersWait' /\ MatchedBefore' /\ AnswersMatch'
  BY <1>1 DEF CronIInv, CallersWait, MatchedBefore, AnswersMatch, Answered, Idle
<1> QED  BY <1>6, <1>7, <1>8 DEF CronIInv

LEMMA AnswerInv == CronIInv /\ Answer => CronIInv'
<1> SUFFICES ASSUME CronIInv, Answer PROVE CronIInv'
  OBVIOUS
<1>1. /\ at = Done /\ callers = <<>> /\ (Instant(cal) # from \/ again)
      /\ next' = Instant(cal) /\ at' = Idle
      /\ pattern' = pattern /\ expr' = expr /\ from' = from /\ calls' = calls /\ cal' = cal /\ dot' = dot
      /\ again' = again /\ resets' = resets /\ callers' = callers
  BY DEF Answer
<1>2. at # Idle
  BY <1>1 DEF Idle, Done
<1>3. Proper(cal) /\ from \in Nat /\ Instant(cal) \in Nat
  BY <1>2, SearchFacts
<1>4. CronTypeOK'
  <2>1. at' \in Idle .. Done
    BY <1>1 DEF Idle, Done
  <2>2. AcceptedInCalendar'
    BY <1>1 DEF CronIInv, CronTypeOK, AcceptedInCalendar
  <2> QED  BY <1>1, <1>3, <2>1, <2>2 DEF CronIInv, CronTypeOK
<1>5. next' > from'
  <2>1. Instant(cal) >= from /\ (again => Instant(cal) > from)
    BY <1>2 DEF CronIInv, SearchBegun
  <2> QED  BY <1>1, <1>3, <2>1
<1>6. EveryDate' \/ EveryWeekday' => Matches(next)'
  <2>1. SUFFICES ASSUME OneWay(expr) PROVE Matches(Instant(cal))
    BY <1>1 DEF EveryDate, EveryWeekday, OneWay, Matches
  <2>2. /\ \A i \in 1 .. 5 : cal[Order[i]] \in expr[Order[i]]
        /\ Weekday(Instant(cal)) \in expr.wday
    BY <1>1, <2>1, AllMatch
  <2>3. /\ cal.sec \in expr.sec /\ cal.min \in expr.min /\ cal.hour \in expr.hour
        /\ cal.mday \in expr.mday /\ cal.mon \in expr.mon
    BY <2>2 DEF Order
  <2>4. Broken(Instant(cal)) = cal
    BY <1>3, ProperBroken
  <2> QED  BY <2>2, <2>3, <2>4 DEF Matches
<1>7. AnswersMatch'
  BY <1>5, <1>6 DEF AnswersMatch
<1>8. SearchBegun' /\ CallersWait'
  BY <1>1 DEF CronIInv, SearchBegun, CallersWait
<1> QED  BY <1>1, <1>4, <1>7, <1>8 DEF CronIInv

LEMMA CronStepInv == CronIInv /\ [CronNext]_cronVars => CronIInv'
<1>1. ASSUME CronIInv, UNCHANGED cronVars PROVE CronIInv'
  <2>1. /\ pattern' = pattern /\ expr' = expr /\ from' = from /\ next' = next /\ calls' = calls
        /\ cal' = cal /\ dot' = dot /\ again' = again /\ at' = at /\ resets' = resets /\ callers' = callers
    BY <1>1 DEF cronVars
  <2>2. CronTypeOK' /\ SearchBegun' /\ CallersWait'
    BY <1>1, <2>1 DEF CronIInv, CronTypeOK, AcceptedInCalendar, SearchBegun, CallersWait
  <2>3. at' # Idle /\ OneWay(expr') => MatchedBefore'
    BY <1>1, <2>1 DEF CronIInv, MatchedBefore
  <2>4. AnswersMatch'
    BY <1>1, <2>1 DEF CronIInv, AnswersMatch, Answered, Matches, EveryDate, EveryWeekday
  <2> QED  BY <2>2, <2>3, <2>4 DEF CronIInv
<1> QED
  BY <1>1, ParseGetNextInv, FieldStaysInv, SecondChangesInv, FieldChangesInv, GiveUpInv,
     ReturnInv, SearchAgainInv, AnswerInv DEF CronNext, Search

THEOREM CronInvariant == CronSpec => []CronIInv
<1> QED  BY CronInitInv, CronStepInv, PTL DEF CronSpec

\* The type invariant of the search: the time that it moves is always one of the
\* calendar, whatever a step carries over (timegm and gmtime_r).
THEOREM CronTypesAreCorrect == CronSpec => []CronTypeOK
<1>1. CronIInv => CronTypeOK
  BY DEF CronIInv
<1> QED  BY <1>1, CronInvariant, PTL

\* What dcmCronParseGetNext answers is later than the instant it was asked about and
\* matches the pattern, for every pattern that restricts the days in at most one way,
\* every instant and all units of the day (dcm_cronparse.c:845).
THEOREM AnswersAreMatches == CronSpec => []AnswersMatch
<1>1. CronIInv => AnswersMatch
  BY DEF CronIInv
<1> QED  BY <1>1, CronInvariant, PTL

\* A search never goes back in time.
THEOREM SearchGoesForward == CronSpec => SearchMovesOn
<1>1. CronIInv /\ [CronNext]_cronVars
      => [(at # Idle /\ cal' # cal) => Instant(cal') > Instant(cal)]_cronVars
  <2> SUFFICES ASSUME CronIInv, CronNext, at # Idle, cal' # cal
               PROVE  Instant(cal') > Instant(cal)
    OBVIOUS
  <2>1. Proper(cal) /\ Instant(cal) \in Nat
    BY SearchFacts
  <2>2. ASSUME NEW f \in Fields, AtField(f), cal' = Find(expr, f, cal, resets).cal
        PROVE  Instant(cal') > Instant(cal)
    <3>1. Proper(cal') /\ Instant(cal) < Instant(cal')
      BY <2>2, FoundMoves
    <3> QED  BY <2>1, <3>1, ProperUnits
  <2>3. "sec" \in Fields /\ "mon" \in Fields
    BY DEF Fields, Bounds
  <2>4. CASE FieldStays \/ FieldChanges
    BY <2>2, <2>4, FieldsBefore DEF FieldStays, FieldChanges
  <2>5. CASE SecondChanges \/ GiveUp
    BY <2>2, <2>3, <2>5 DEF SecondChanges, GiveUp
  <2>6. CASE SearchAgain
    BY <2>1, <2>6, NextSecond DEF SearchAgain, DoNext
  <2>7. CASE ParseGetNext \/ Return \/ Answer
    BY <2>7 DEF ParseGetNext, Return, Answer
  <2> QED  BY <2>4, <2>5, <2>6, <2>7 DEF CronNext, Search
<1> QED  BY <1>1, CronInvariant, PTL DEF CronSpec, SearchMovesOn

-----------------------------------------------------------------------------
(* What lies between two times.                                            *)

\* From c on no unit is earlier than that of c.
LEMMA NotEarlier ==
  ASSUME NEW c, Proper(c), NEW w \in Nat, Instant(c) <= w
  PROVE  /\ MinutesOf(c) <= MinuteOf(w) /\ HoursOf(c) <= HourOf(w) /\ DayNumber(c) <= DayOf(w)
         /\ MonthNumber(c) <= MonthNumber(Broken(w))
<1> DEFINE b == Broken(w)
<1>1. /\ Proper(b) /\ Instant(b) = w /\ DayNumber(b) = DayOf(w) /\ HoursOf(b) = HourOf(w)
      /\ MinutesOf(b) = MinuteOf(w)
  BY BrokenProper
<1> HIDE DEF b
<1>2. /\ MinutesOf(c) \in Nat /\ HoursOf(c) \in Nat /\ DayNumber(c) \in Nat /\ Instant(c) \in Nat
      /\ MinutesOf(b) \in Nat /\ HoursOf(b) \in Nat /\ DayNumber(b) \in Nat
  BY <1>1, ProperUnits
<1>3. MonthNumber(c) \in Nat /\ MonthNumber(b) \in Nat
  BY <1>1 DEF Proper, Time, MonthNumber
<1>4. ~(Instant(b) < Instant(c))
  BY <1>1, <1>2
<1> QED  BY <1>1, <1>2, <1>3, <1>4, LaterInstant DEF b

\* Before d a unit is earlier than that of d, or the second is, if d is at the
\* beginning of its unit but for the second.
LEMMA StillBefore ==
  ASSUME NEW d, Proper(d), NEW w \in Nat, w < Instant(d)
  PROVE  LET early == w % MaxSeconds < d.sec
         IN /\ MinuteOf(w) < MinutesOf(d) \/ early
            /\ d.min = 0 => HourOf(w) < HoursOf(d) \/ early
            /\ d.min = 0 /\ d.hour = 0 => DayOf(w) < DayNumber(d) \/ early
            /\ d.min = 0 /\ d.hour = 0 /\ d.mday = 1 =>
                 MonthNumber(Broken(w)) < MonthNumber(d) \/ early
<1> DEFINE b == Broken(w)
<1>1. /\ Proper(b) /\ Instant(b) = w /\ DayNumber(b) = DayOf(w) /\ HoursOf(b) = HourOf(w)
      /\ MinutesOf(b) = MinuteOf(w)
  BY BrokenProper
<1> HIDE DEF b
<1>2. /\ MinutesOf(d) \in Nat /\ HoursOf(d) \in Nat /\ DayNumber(d) \in Nat /\ Instant(d) \in Nat
      /\ MinutesOf(b) \in Nat /\ HoursOf(b) \in Nat /\ DayNumber(b) \in Nat /\ b.sec = w % MaxSeconds
  BY <1>1, ProperUnits
<1>3. /\ MonthNumber(d) \in Nat /\ MonthNumber(b) \in Nat /\ b.sec \in Nat /\ d.sec \in Nat
      /\ b.min \in Nat /\ b.hour \in Nat /\ b.mday \in 1 .. 31
      /\ b.year \in Nat \ {0} /\ b.mon \in 0 .. 11 /\ d.year \in Nat \ {0} /\ d.mon \in 0 .. 11
  BY <1>1 DEF Proper, Time, MonthNumber
<1>4. ~(Instant(d) < Instant(b))
  BY <1>1, <1>2
<1>5. /\ ~(MinutesOf(d) < MinutesOf(b)) /\ ~(HoursOf(d) < HoursOf(b)) /\ ~(DayNumber(d) < DayNumber(b))
      /\ ~(MonthNumber(d) < MonthNumber(b))
  BY <1>1, <1>4, LaterInstant
<1>6. MinutesOf(b) < MinutesOf(d) \/ b.sec < d.sec
  <2>1. SUFFICES ASSUME MinutesOf(b) = MinutesOf(d) PROVE b.sec < d.sec
    BY <1>2, <1>5
  <2>2. MinutesOf(b) * MaxSeconds + b.sec < MinutesOf(b) * MaxSeconds + d.sec
    BY <1>1, <2>1, SplitInstant
  <2>3. MinutesOf(b) * MaxSeconds \in Nat
    BY <1>2, Units
  <2> QED  BY <1>3, <2>2, <2>3
<1>7. d.min = 0 => HoursOf(b) < HoursOf(d) \/ b.sec < d.sec
  <2>1. SUFFICES ASSUME d.min = 0, HoursOf(b) = HoursOf(d) PROVE b.sec < d.sec
    BY <1>2, <1>5
  <2>2. MinutesOf(b) = HoursOf(d) * MaxMinutes + b.min /\ MinutesOf(d) = HoursOf(d) * MaxMinutes + 0
    BY <2>1 DEF MinutesOf
  <2>3. HoursOf(d) * MaxMinutes \in Nat
    BY <1>2, Units
  <2>4. ~(MinutesOf(b) < MinutesOf(d))
    BY <1>3, <2>2, <2>3
  <2> QED  BY <1>6, <2>4
<1>8. d.min = 0 /\ d.hour = 0 => DayNumber(b) < DayNumber(d) \/ b.sec < d.sec
  <2>1. SUFFICES ASSUME d.min = 0, d.hour = 0, DayNumber(b) = DayNumber(d) PROVE b.sec < d.sec
    BY <1>2, <1>5
  <2>2. HoursOf(b) = DayNumber(d) * MaxHours + b.hour /\ HoursOf(d) = DayNumber(d) * MaxHours + 0
    BY <2>1 DEF HoursOf
  <2>3. DayNumber(d) * MaxHours \in Nat
    BY <1>2, Units
  <2>4. ~(HoursOf(b) < HoursOf(d))
    BY <1>3, <2>2, <2>3
  <2> QED  BY <1>7, <2>1, <2>4
<1>9. d.min = 0 /\ d.hour = 0 /\ d.mday = 1 => MonthNumber(b) < MonthNumber(d) \/ b.sec < d.sec
  <2>1. SUFFICES ASSUME d.min = 0, d.hour = 0, d.mday = 1, MonthNumber(b) = MonthNumber(d)
                 PROVE  b.sec < d.sec
    BY <1>3, <1>5
  <2>2. b.year = d.year /\ b.mon = d.mon
    BY <1>3, <2>1 DEF MonthNumber
  <2>3. /\ DayNumber(b) = DaysBefore(d.year, d.mon) + b.mday - 1
        /\ DayNumber(d) = DaysBefore(d.year, d.mon) + 1 - 1
    BY <1>1, <2>1, <2>2, DayInMonth
  <2>4. DaysBefore(d.year, d.mon) \in Nat
    <3>1. d.mon \in 0 .. 12
      BY <1>3
    <3> QED  BY <1>3, <3>1, DaysBeforeNat
  <2>5. ~(DayNumber(b) < DayNumber(d))
    BY <1>3, <2>3, <2>4
  <2> QED  BY <1>8, <2>1, <2>5
<1> QED  BY <1>1, <1>2, <1>6, <1>7, <1>8, <1>9 DEF b

\* What an instant that matches must have.
LEMMA MatchesUnits ==
  ASSUME NEW w, Matches(w)
  PROVE  /\ w % MaxSeconds \in expr.sec /\ MinuteOf(w) % MaxMinutes \in expr.min
         /\ HourOf(w) % MaxHours \in expr.hour /\ DayMatches(expr, w) /\ Broken(w).mon \in expr.mon
<1>1. /\ Broken(w).sec = w % MaxSeconds /\ Broken(w).min = MinuteOf(w) % MaxMinutes
      /\ Broken(w).hour = HourOf(w) % MaxHours
  BY DEF Broken, BrokenInYear, BrokenIn
<1> QED  BY <1>1 DEF Matches, DayMatches

\* Nothing that matches is between c and d.
Between(c, d) == \A w \in Nat : Instant(c) <= w /\ w < Instant(d) => ~Matches(w)

\* The second of d does not lie behind those of the pattern.
SecondNotBehind(d) == \A s \in expr.sec : d.sec <= s

LEMMA EarlySecond ==
  ASSUME NEW d, SecondNotBehind(d), d.sec \in Nat, InCalendar(expr), NEW w \in Nat, w % MaxSeconds < d.sec
  PROVE  ~Matches(w)
<1>1. \A s \in expr.sec : s \in Int
  BY DEF InCalendar
<1>2. w % MaxSeconds \in Int
  BY Units
<1>3. w % MaxSeconds \notin expr.sec
  BY <1>1, <1>2 DEF SecondNotBehind
<1> QED  BY <1>3, MatchesUnits

LEMMA SecondSkips ==
  ASSUME NEW c, Proper(c), InCalendar(expr)
  PROVE  Between(c, FindNext(expr, "sec", c, {}).cal)
<1> DEFINE found == FindNext(expr, "sec", c, {})
<1>1. /\ found.value = c.sec => found.cal = c
      /\ found.value # c.sec =>
           \A w \in Int : Instant(c) <= w /\ w < Instant(found.cal) => w % MaxSeconds \notin expr.sec
  BY FindSecond
<1>2. Instant(c) \in Nat
  BY ProperUnits
<1> HIDE DEF found
<1>3. ASSUME NEW w \in Nat, Instant(c) <= w, w < Instant(found.cal) PROVE ~Matches(w)
  <2>1. found.value # c.sec
    BY <1>1, <1>2, <1>3
  <2> QED  BY <1>1, <1>3, <2>1, MatchesUnits
<1> QED  BY <1>3 DEF Between, found

LEMMA MinuteSkips ==
  ASSUME NEW c, Proper(c), InCalendar(expr), NEW lower \in SUBSET {"sec"}, c.min \notin expr.min,
         SecondNotBehind(c)
  PROVE  LET d == FindNext(expr, "min", c, lower).cal IN Between(c, d) /\ SecondNotBehind(d)
<1> DEFINE found == FindNext(expr, "min", c, lower)
           d == found.cal
<1>1. lower \in SUBSET {"sec"}
  OBVIOUS
<1>2. found.value # c.min
  BY <1>1, FindMinute
<1>3. /\ Proper(d) /\ d.sec = (IF "sec" \in lower THEN 0 ELSE c.sec)
      /\ \A w \in Int : MinutesOf(c) <= w /\ w < MinutesOf(d) => w % MaxMinutes \notin expr.min
  BY <1>1, <1>2, FindMinute
<1> HIDE DEF found
<1>4. SecondNotBehind(d) /\ d.sec \in Nat
  BY <1>3 DEF SecondNotBehind, InCalendar, Proper, Time
<1>5. ASSUME NEW w \in Nat, Instant(c) <= w, w < Instant(d) PROVE ~Matches(w)
  <2>1. CASE w % MaxSeconds < d.sec
    BY <1>4, <2>1, EarlySecond
  <2>2. CASE MinuteOf(w) < MinutesOf(d)
    <3>1. MinutesOf(c) <= MinuteOf(w) /\ MinuteOf(w) \in Int
      BY <1>5, NotEarlier, InstantUnits, SMTT(30)
    <3> QED  BY <1>3, <2>2, <3>1, MatchesUnits
  <2> QED  BY <1>3, <1>5, <2>1, <2>2, StillBefore
<1> QED  BY <1>4, <1>5 DEF Between, found

LEMMA HourSkips ==
  ASSUME NEW c, Proper(c), InCalendar(expr), NEW lower \in SUBSET {"sec", "min"}, c.hour \notin expr.hour,
         SecondNotBehind(c), "min" \in lower \/ c.min = 0
  PROVE  LET d == FindNext(expr, "hour", c, lower).cal IN Between(c, d) /\ SecondNotBehind(d)
<1> DEFINE found == FindNext(expr, "hour", c, lower)
           d == found.cal
<1>1. lower \in SUBSET {"sec", "min"}
  OBVIOUS
<1>2. found.value # c.hour
  BY <1>1, FindHour
<1>3. /\ Proper(d) /\ d.sec = (IF "sec" \in lower THEN 0 ELSE c.sec) /\ d.min = 0
      /\ \A w \in Int : HoursOf(c) <= w /\ w < HoursOf(d) => w % MaxHours \notin expr.hour
  BY <1>1, <1>2, FindHour
<1> HIDE DEF found
<1>4. SecondNotBehind(d) /\ d.sec \in Nat
  BY <1>3 DEF SecondNotBehind, InCalendar, Proper, Time
<1>5. ASSUME NEW w \in Nat, Instant(c) <= w, w < Instant(d) PROVE ~Matches(w)
  <2>1. CASE w % MaxSeconds < d.sec
    BY <1>4, <2>1, EarlySecond
  <2>2. CASE HourOf(w) < HoursOf(d)
    <3>1. HoursOf(c) <= HourOf(w) /\ HourOf(w) \in Int
      BY <1>5, NotEarlier, InstantUnits
    <3> QED  BY <1>3, <2>2, <3>1, MatchesUnits
  <2> QED  BY <1>3, <1>5, <2>1, <2>2, StillBefore
<1> QED  BY <1>4, <1>5 DEF Between, found

LEMMA DaySkips ==
  ASSUME NEW c, Proper(c), InCalendar(expr), NEW lower \in SUBSET {"sec", "min", "hour"},
         SecondNotBehind(c), "min" \in lower \/ c.min = 0, "hour" \in lower \/ c.hour = 0,
         DaysToGo(expr, Instant(c)) # 0
  PROVE  LET d == FindNextDay(expr, c, lower).cal
         IN Between(c, d) /\ SecondNotBehind(d) /\ d.min = 0 /\ d.hour = 0
<1> DEFINE k == DaysToGo(expr, Instant(c))
           found == FindNextDay(expr, c, lower)
           d == found.cal
<1>1. lower \in SUBSET {"sec", "min", "hour"}
  OBVIOUS
<1> HIDE DEF found, k
<1>0. k # 0
  BY DEF k
<1>2. /\ k \in 0 .. 366 /\ Proper(d) /\ DayNumber(d) = DayNumber(c) + k
      /\ \A w : DayOf(w) \in DayNumber(c) .. DayNumber(c) + k - 1 => ~DayMatches(expr, w)
  <2>1. k \in 0 .. 366 /\ Proper(d) /\ DayNumber(d) = DayNumber(c) + k
    BY <1>1, FindDay, SMTT(30) DEF k, found
  <2>2. \A w : DayOf(w) \in DayNumber(c) .. DayNumber(c) + k - 1 => ~DayMatches(expr, w)
    BY <1>1, FindDay DEF k, found
  <2> QED  BY <2>1, <2>2
<1>3. d.sec = (IF "sec" \in lower THEN 0 ELSE c.sec) /\ d.min = 0 /\ d.hour = 0
  <2>1. /\ d.sec = (IF "sec" \in lower THEN 0 ELSE c.sec)
        /\ d.min = (IF "min" \in lower THEN 0 ELSE c.min)
        /\ d.hour = (IF "hour" \in lower THEN 0 ELSE c.hour)
    BY <1>0, <1>1, FindDay DEF k, found
  <2> QED  BY <2>1
<1>4. SecondNotBehind(d) /\ d.sec \in Nat
  BY <1>2, <1>3 DEF SecondNotBehind, InCalendar, Proper, Time
<1>5. ASSUME NEW w \in Nat, Instant(c) <= w, w < Instant(d) PROVE ~Matches(w)
  <2>1. CASE w % MaxSeconds < d.sec
    BY <1>4, <2>1, EarlySecond
  <2>2. CASE DayOf(w) < DayNumber(d)
    <3>1. DayNumber(c) <= DayOf(w) /\ DayOf(w) \in Int /\ DayNumber(c) \in Nat
      <4>1. DayNumber(c) <= DayOf(w)
        BY <1>5, NotEarlier
      <4> QED  BY <4>1, InstantUnits, DayInMonth
    <3>2. DayOf(w) \in DayNumber(c) .. DayNumber(c) + k - 1
      BY <1>2, <2>2, <3>1
    <3> QED  BY <1>2, <3>2, MatchesUnits
  <2> QED  BY <1>2, <1>3, <1>5, <2>1, <2>2, StillBefore
<1> QED  BY <1>3, <1>4, <1>5 DEF Between, found

LEMMA MonthSkips ==
  ASSUME NEW c, Proper(c), InCalendar(expr), NEW lower \in SUBSET {"sec", "min", "hour", "mday"},
         SecondNotBehind(c), "min" \in lower \/ c.min = 0, "hour" \in lower \/ c.hour = 0,
         "mday" \in lower, c.mday <= 28, c.mon \notin expr.mon
  PROVE  LET d == FindNext(expr, "mon", c, lower).cal IN Between(c, d) /\ SecondNotBehind(d)
<1> DEFINE found == FindNext(expr, "mon", c, lower)
           d == found.cal
<1>1. lower \in SUBSET {"sec", "min", "hour", "mday"}
  OBVIOUS
<1>2. found.value # c.mon
  <2> HIDE DEF found
  <2>1. found.value = c.mon <=> c.mon \in expr.mon
    BY <1>1, FindMonth DEF found
  <2> QED  BY <2>1
<1>3. /\ Proper(d) /\ d.sec = (IF "sec" \in lower THEN 0 ELSE c.sec)
      /\ d.min = 0 /\ d.hour = 0 /\ d.mday = 1
  BY <1>1, <1>2, FindMonth
<1>4. \A w \in Int : MonthNumber(c) <= w /\ w < MonthNumber(d) => w % 12 \notin expr.mon
  BY <1>1, <1>2, FindMonth
<1> HIDE DEF found
<1>5. SecondNotBehind(d) /\ d.sec \in Nat
  BY <1>3 DEF SecondNotBehind, InCalendar, Proper, Time
<1>6. ASSUME NEW w \in Nat, Instant(c) <= w, w < Instant(d) PROVE ~Matches(w)
  <2>1. CASE w % MaxSeconds < d.sec
    BY <1>5, <2>1, EarlySecond
  <2>2. CASE MonthNumber(Broken(w)) < MonthNumber(d)
    <3> DEFINE n == MonthNumber(Broken(w))
    <3>1. MonthNumber(c) <= n /\ Proper(Broken(w))
      BY <1>6, NotEarlier, BrokenProper
    <3>2. n \in Int /\ n % 12 = Broken(w).mon
      <4>1. Broken(w).year \in Nat /\ Broken(w).mon \in 0 .. 11
        BY <3>1 DEF Proper, Time
      <4> QED  BY <4>1 DEF MonthNumber
    <3> HIDE DEF n
    <3>3. n % 12 \notin expr.mon
      BY <1>4, <2>2, <3>1, <3>2 DEF n
    <3> QED  BY <3>2, <3>3, MatchesUnits
  <2> QED  BY <1>3, <1>6, <2>1, <2>2, StillBefore
<1> QED  BY <1>5, <1>6 DEF Between, found

-----------------------------------------------------------------------------
(* The invariant that nothing is left out.                                 *)

\* The patterns that NothingIsSkipped is about.
Covered ==
  /\ \E s \in expr.sec : expr.sec = {s}
  /\ expr.mon = 0 .. 11 \/ (EveryWeekday /\ expr.mday \subseteq 1 .. 28)

AtMidnight == cal.min = 0 /\ cal.hour = 0

\* Nothing that matches lies between from and the time of the search. That the next step
\* keeps it so depends on what the field that changes does not reset: a minute or an hour
\* that is not reset is 0 already, or all fields matched when it was looked at; a month
\* is not changed with the day kept. A day that does not match is passed only at midnight.
NothingPassed ==
  /\ \A t \in from + 1 .. Instant(cal) - 1 : ~Matches(t)
  /\ at > 1 \/ callers # <<>> => SecondNotBehind(cal)
  /\ \A f \in {"min", "hour"} \cap Before[at] : f \in resets \/ cal[f] = 0 \/ Matches(Instant(cal))
  /\ MatchedBefore \/ (at >= 3 /\ AtMidnight)
  /\ at = 5 => "mday" \in resets \/ cal.mon \in expr.mon
  /\ at = 6 => cal.mon \in expr.mon
  /\ dot >= Broken(from).year

SkipIInv ==
  /\ CronIInv /\ (at = Idle => callers = <<>>)
  /\ at # Idle /\ Covered => NothingPassed
  /\ NothingIsSkipped

LEMMA TimeMatches ==
  ASSUME NEW c, Proper(c), Matches(Instant(c))
  PROVE  /\ c.sec \in expr.sec /\ c.min \in expr.min /\ c.hour \in expr.hour /\ c.mon \in expr.mon
         /\ DayMatches(expr, Instant(c))
<1>1. Broken(Instant(c)) = c
  BY ProperBroken
<1> QED  BY <1>1, MatchesUnits DEF Matches

\* The step of a field that changes passes nothing.
LEMMA ChangeSkips ==
  ASSUME SkipIInv, Covered, NEW f \in {Order[i] : i \in 2 .. 5}, AtField(f),
         Find(expr, f, cal, resets).value # cal[f]
  PROVE  LET d == Find(expr, f, cal, resets).cal IN Between(cal, d) /\ SecondNotBehind(d)
<1>1. f = "min" \/ f = "hour" \/ f = "mday" \/ f = "mon"
  BY DEF Order
<1>2. f \in Fields /\ CronIInv
  BY <1>1 DEF Fields, Bounds, SkipIInv
<1>3. at \in 1 .. 5 /\ at # Idle /\ f = Order[at] /\ at # 1
  BY <1>1, <1>2, FoundMoves
<1>4. Proper(cal) /\ InCalendar(expr) /\ resets \in SUBSET Before[at]
  BY <1>2, <1>3, SearchFacts
<1>5. NothingPassed
  BY <1>3 DEF SkipIInv
<1>6. SecondNotBehind(cal)
  BY <1>3, <1>5 DEF NothingPassed
<1>7. ASSUME NEW g \in {"min", "hour"}, g \in Before[at], ~Matches(Instant(cal))
      PROVE  g \in resets \/ cal[g] = 0
  BY <1>5, <1>7 DEF NothingPassed
<1>8. CASE f = "min"
  <2>1. at = 2 /\ Find(expr, f, cal, resets) = FindNext(expr, "min", cal, resets)
    BY <1>3, <1>8 DEF Order, Find
  <2>2. resets \in SUBSET {"sec"}
    BY <1>4, <2>1 DEF Before
  <2>3. cal.min \notin expr.min
    BY <1>4, <1>8, <2>1, <2>2, FindMinute
  <2> QED  BY <1>4, <1>6, <2>1, <2>2, <2>3, MinuteSkips
<1>9. CASE f = "hour"
  <2>1. at = 3 /\ Find(expr, f, cal, resets) = FindNext(expr, "hour", cal, resets)
    BY <1>3, <1>9 DEF Order, Find
  <2>2. resets \in SUBSET {"sec", "min"} /\ "min" \in Before[at]
    BY <1>4, <2>1 DEF Before
  <2>3. cal.hour \notin expr.hour
    BY <1>4, <1>9, <2>1, <2>2, FindHour
  <2>4. "min" \in resets \/ cal.min = 0
    BY <1>4, <1>7, <2>2, <2>3, TimeMatches
  <2> QED  BY <1>4, <1>6, <2>1, <2>2, <2>3, <2>4, HourSkips
<1>10. CASE f = "mday"
  <2>1. at = 4 /\ Find(expr, f, cal, resets) = FindNextDay(expr, cal, resets)
    BY <1>3, <1>10 DEF Order, Find
  <2>2. resets \in SUBSET {"sec", "min", "hour"} /\ "min" \in Before[at] /\ "hour" \in Before[at]
    BY <1>4, <2>1 DEF Before
  <2> DEFINE k == DaysToGo(expr, Instant(cal))
  <2>3. k # 0
    <3>1. FindNextDay(expr, cal, resets).value = FindNextDay(expr, cal, resets).cal.mday
      BY DEF FindNextDay, DayFound
    <3>2. FindNextDay(expr, cal, resets).cal # cal
      BY <1>10, <2>1, <3>1
    <3>3. k = 0 => FindNextDay(expr, cal, resets).cal = cal
      BY DEF FindNextDay, DayFound, DaysLater
    <3> QED  BY <3>2, <3>3
  <2>4. ~Matches(Instant(cal))
    <3>1. k # 0 => ~DayMatches(expr, Instant(cal))
      BY <1>4, <2>2, FindDay
    <3> QED  BY <1>4, <2>3, <3>1, TimeMatches
  <2>5. ("min" \in resets \/ cal.min = 0) /\ ("hour" \in resets \/ cal.hour = 0)
    BY <1>7, <2>2, <2>4
  <2> QED  BY <1>4, <1>6, <2>1, <2>2, <2>3, <2>5, DaySkips
<1>11. CASE f = "mon"
  <2>1. at = 5 /\ Find(expr, f, cal, resets) = FindNext(expr, "mon", cal, resets)
    BY <1>3, <1>11 DEF Order, Find
  <2>2. resets \in SUBSET {"sec", "min", "hour", "mday"} /\ "min" \in Before[at] /\ "hour" \in Before[at]
    BY <1>4, <2>1 DEF Before
  <2>3. cal.mon \notin expr.mon
    BY <1>4, <1>11, <2>1, <2>2, FindMonth
  <2>4. ~Matches(Instant(cal))
    BY <1>4, <2>3, TimeMatches
  <2>5. ("min" \in resets \/ cal.min = 0) /\ ("hour" \in resets \/ cal.hour = 0)
    BY <1>7, <2>2, <2>4
  <2>6. "mday" \in resets
    BY <1>5, <2>1, <2>3 DEF NothingPassed
  <2>7. EveryWeekday /\ expr.mday \subseteq 1 .. 28
    <3>1. cal.mon \in 0 .. 11
      BY <1>4 DEF Proper, Time
    <3> QED  BY <2>3, <3>1 DEF Covered
  <2>8. cal.mday <= 28
    <3>1. MatchedBefore /\ Order[4] = "mday"
      BY <1>2, <1>3, <2>7 DEF CronIInv, OneWay, EveryWeekday, Order
    <3>2. cal.mday \in expr.mday
      BY <2>1, <3>1 DEF MatchedBefore
    <3> QED  BY <2>7, <3>2
  <2> QED  BY <1>4, <1>6, <2>1, <2>2, <2>3, <2>5, <2>6, <2>8, MonthSkips
<1> QED  BY <1>1, <1>8, <1>9, <1>10, <1>11

\* What has been passed, after a step that passes nothing.
LEMMA PassedSoFar ==
  ASSUME NothingPassed, Between(cal, cal'), expr' = expr, from' = from,
         from \in Nat, Instant(cal) \in Nat, Instant(cal) >= from, Instant(cal') \in Nat
  PROVE  \A t \in from' + 1 .. Instant(cal') - 1 : ~Matches(t)'
<1> SUFFICES ASSUME NEW t \in from + 1 .. Instant(cal') - 1 PROVE ~Matches(t)
  BY DEF Matches
<1>1. t \in Nat /\ (t \in from + 1 .. Instant(cal) - 1 \/ (Instant(cal) <= t /\ t < Instant(cal')))
  OBVIOUS
<1> QED  BY <1>1 DEF NothingPassed, Between

LEMMA StillSearching ==
  ASSUME CronIInv', at' # Idle, expr' = expr, Covered => NothingPassed'
  PROVE  SkipIInv'
<1>1. Covered' <=> Covered
  BY DEF Covered, EveryWeekday
<1>2. NothingIsSkipped'
  BY DEF NothingIsSkipped, Answered
<1> QED  BY <1>1, <1>2 DEF SkipIInv

LEMMA CronInitSkips == CronInit => SkipIInv
  BY CronInitInv DEF CronInit, SkipIInv, NothingIsSkipped, Answered

LEMMA ParseGetNextSkips == SkipIInv /\ ParseGetNext => SkipIInv'
<1> SUFFICES ASSUME SkipIInv, ParseGetNext PROVE SkipIInv'
  OBVIOUS
<1>1. /\ at = Idle /\ next # Invalid /\ from' = next /\ cal' = Broken(next) /\ dot' = Broken(next).year
      /\ at' = 1 /\ resets' = {} /\ callers' = callers /\ expr' = expr
  BY DEF ParseGetNext, DoNext, Enter
<1>2. CronIInv /\ CronIInv' /\ at' # Idle /\ callers = <<>>
  BY <1>1, ParseGetNextInv DEF SkipIInv, Idle
<1>3. next \in Nat
  BY <1>1, <1>2 DEF CronIInv, CronTypeOK
<1>4. Proper(cal') /\ Instant(cal') = next
  BY <1>1, <1>3, BrokenProper
<1>5. NothingPassed'
  <2>1. from' + 1 .. Instant(cal') - 1 = {}
    BY <1>1, <1>3, <1>4
  <2>2. MatchedBefore' /\ Before[at'] = {}
    BY <1>1 DEF MatchedBefore, Before
  <2>3. dot' \in Nat /\ dot' = Broken(from').year
    BY <1>1, <1>4, ProperYear
  <2>4. dot' >= Broken(from').year
    BY <2>3
  <2> QED  BY <1>1, <1>2, <2>1, <2>2, <2>4 DEF NothingPassed
<1> QED  BY <1>1, <1>2, <1>5, StillSearching

LEMMA FieldStaysSkips == SkipIInv /\ FieldStays => SkipIInv'
<1> SUFFICES ASSUME SkipIInv, FieldStays PROVE SkipIInv'
  OBVIOUS
<1> DEFINE Found(f) == Find(expr, f, cal, resets)
<1>1. PICK f \in {Order[i] : i \in 1 .. 5} :
        /\ AtField(f) /\ Found(f).value = cal[f]
        /\ cal' = Found(f).cal /\ at' = at + 1 /\ resets' = resets \cup {f}
        /\ UNCHANGED <<question, dot, again, callers>>
  BY DEF FieldStays
<1>2. f \in Fields /\ CronIInv /\ CronIInv'
  BY FieldsBefore, FieldStaysInv DEF SkipIInv
<1>3. /\ Proper(cal') /\ Instant(cal) <= Instant(cal')
      /\ (f # "mday" \/ OneWay(expr)) =>
           /\ cal' = cal /\ cal[f] \in expr[f]
           /\ f = "mday" => Weekday(Instant(cal)) \in expr.wday
      /\ at \in 1 .. 5 /\ at # Idle /\ f = Order[at] /\ (f = "sec" <=> at = 1) /\ (f = "mday" <=> at = 4)
      /\ Before[at + 1] = Before[at] \cup {f} /\ Before[at] \subseteq Fields
  BY <1>1, <1>2, FoundMoves
<1>4. /\ Proper(cal) /\ InCalendar(expr) /\ from \in Nat /\ Instant(cal) \in Nat /\ Instant(cal) >= from
      /\ resets \in SUBSET Before[at]
  BY <1>2, <1>3, SearchFacts
<1>5. /\ expr' = expr /\ from' = from /\ dot' = dot /\ callers' = callers /\ at' # Idle
      /\ Before[at'] = Before[at] \cup {f}
  BY <1>1, <1>3 DEF question, Idle
<1>6. SUFFICES ASSUME Covered PROVE NothingPassed'
  BY <1>2, <1>5, StillSearching
<1>7. NothingPassed
  BY <1>3, <1>6 DEF SkipIInv
<1>8. (at' = 5 => "mday" \in resets') /\ dot' >= Broken(from').year
  BY <1>1, <1>3, <1>5, <1>7 DEF NothingPassed
<1>9. ASSUME cal' = cal, cal[f] \in expr[f], f = "mday" => Weekday(Instant(cal)) \in expr.wday
      PROVE  NothingPassed'
  <2>1. \A t \in from' + 1 .. Instant(cal') - 1 : ~Matches(t)'
    BY <1>5, <1>7, <1>9 DEF NothingPassed, Matches
  <2>2. SecondNotBehind(cal)'
    <3>1. CASE at > 1
      BY <1>5, <1>7, <1>9, <3>1 DEF NothingPassed, SecondNotBehind
    <3>2. CASE at = 1
      <4>1. cal.sec \in expr.sec
        BY <1>3, <1>9, <3>2
      <4>2. PICK s \in expr.sec : expr.sec = {s}
        BY <1>6 DEF Covered
      <4>3. \A v \in expr.sec : cal.sec = v /\ v \in Int
        BY <1>4, <4>1, <4>2 DEF InCalendar
      <4> QED  BY <1>5, <1>9, <4>3 DEF SecondNotBehind
    <3> QED  BY <1>3, <3>1, <3>2
  <2>3. ASSUME NEW g \in {"min", "hour"} \cap Before[at']
        PROVE  g \in resets' \/ cal'[g] = 0 \/ Matches(Instant(cal))'
    <3>1. g = f => g \in resets'
      BY <1>1
    <3>2. g # f => g \in {"min", "hour"} \cap Before[at]
      BY <1>5
    <3> QED  BY <1>1, <1>5, <1>7, <1>9, <3>1, <3>2 DEF NothingPassed, Matches
  <2>4. MatchedBefore => MatchedBefore'
    <3>1. SUFFICES ASSUME MatchedBefore PROVE MatchedBefore'
      OBVIOUS
    <3>2. ASSUME NEW i \in 1 .. 5, i < at' PROVE cal'[Order[i]] \in expr'[Order[i]]
      BY <1>1, <1>3, <1>5, <1>9, <3>1, <3>2 DEF MatchedBefore
    <3>3. at' > 4 => Weekday(Instant(cal')) \in expr'.wday
      BY <1>1, <1>3, <1>5, <1>9, <3>1 DEF MatchedBefore
    <3> QED  BY <3>2, <3>3 DEF MatchedBefore
  <2>5. MatchedBefore' \/ (at' >= 3 /\ AtMidnight')
    BY <1>1, <1>3, <1>7, <1>9, <2>4 DEF NothingPassed, AtMidnight
  <2>6. at' = 6 => cal'.mon \in expr'.mon
    BY <1>1, <1>3, <1>5, <1>9 DEF Order
  <2> QED  BY <1>8, <2>1, <2>2, <2>3, <2>5, <2>6 DEF NothingPassed
<1>10. ASSUME f = "mday", ~OneWay(expr), cal' # cal \/ ~DayMatches(expr, Instant(cal))
       PROVE  NothingPassed'
  <2>1. at = 4 /\ Found(f) = FindNextDay(expr, cal, resets)
    BY <1>3, <1>10 DEF Find
  <2>2. resets \in SUBSET {"sec", "min", "hour"} /\ "min" \in Before[at] /\ "hour" \in Before[at]
    BY <1>4, <2>1 DEF Before
  <2>3. DaysToGo(expr, Instant(cal)) # 0 /\ ~DayMatches(expr, Instant(cal))
    BY <1>1, <1>4, <1>10, <2>1, <2>2, FindDay
  <2>4. ~Matches(Instant(cal)) /\ SecondNotBehind(cal)
    BY <1>4, <1>7, <2>1, <2>3, TimeMatches DEF NothingPassed
  <2>5. ("min" \in resets \/ cal.min = 0) /\ ("hour" \in resets \/ cal.hour = 0)
    BY <1>7, <2>2, <2>4 DEF NothingPassed
  <2>6. Between(cal, cal') /\ SecondNotBehind(cal') /\ cal'.min = 0 /\ cal'.hour = 0
    BY <1>1, <1>4, <2>1, <2>2, <2>3, <2>4, <2>5, DaySkips
  <2>7. \A t \in from' + 1 .. Instant(cal') - 1 : ~Matches(t)'
    BY <1>3, <1>4, <1>5, <1>7, <2>6, PassedSoFar, ProperUnits
  <2>8. SecondNotBehind(cal)' /\ AtMidnight' /\ at' = 5
    BY <1>1, <1>5, <2>1, <2>6 DEF SecondNotBehind, AtMidnight
  <2> QED  BY <1>8, <2>6, <2>7, <2>8 DEF NothingPassed
<1> QED  BY <1>3, <1>9, <1>10, ProperBroken, <1>4 DEF DayMatches

LEMMA SecondChangesSkips == SkipIInv /\ SecondChanges => SkipIInv'
<1> SUFFICES ASSUME SkipIInv, SecondChanges PROVE SkipIInv'
  OBVIOUS
<1> DEFINE found == Find(expr, "sec", cal, resets)
<1>1. /\ AtField("sec") /\ cal' = found.cal /\ at' = at + 1
      /\ UNCHANGED <<question, dot, again, resets, callers>>
  BY DEF SecondChanges
<1>2. "sec" \in Fields /\ CronIInv /\ CronIInv'
  BY SecondChangesInv DEF Fields, Bounds, SkipIInv
<1>3. Proper(cal') /\ Instant(cal) <= Instant(cal') /\ cal'.sec \in expr.sec /\ at = 1 /\ at # Idle
  BY <1>1, <1>2, FoundMoves
<1>4. /\ Proper(cal) /\ InCalendar(expr) /\ from \in Nat /\ Instant(cal) \in Nat /\ Instant(cal) >= from
      /\ resets = {}
  BY <1>2, <1>3, SearchFacts DEF Before
<1>5. expr' = expr /\ from' = from /\ dot' = dot /\ at' = 2 /\ at' # Idle
  BY <1>1, <1>3 DEF question, Idle
<1>6. SUFFICES ASSUME Covered PROVE NothingPassed'
  BY <1>2, <1>5, StillSearching
<1>7. NothingPassed
  BY <1>3, <1>6 DEF SkipIInv
<1>8. Between(cal, cal')
  BY <1>1, <1>4, SecondSkips DEF Find
<1>9. \A t \in from' + 1 .. Instant(cal') - 1 : ~Matches(t)'
  BY <1>3, <1>4, <1>5, <1>7, <1>8, PassedSoFar, ProperUnits
<1>10. SecondNotBehind(cal)'
  <2>1. PICK s \in expr.sec : expr.sec = {s}
    BY <1>6 DEF Covered
  <2>2. \A v \in expr.sec : cal'.sec = v /\ v \in Int
    BY <1>3, <1>4, <2>1 DEF InCalendar
  <2> QED  BY <1>5, <2>2 DEF SecondNotBehind
<1>11. MatchedBefore' /\ {"min", "hour"} \cap Before[at'] = {}
  BY <1>3, <1>5 DEF MatchedBefore, Order, Before
<1>12. dot' >= Broken(from').year
  BY <1>5, <1>7 DEF NothingPassed
<1> QED  BY <1>5, <1>9, <1>10, <1>11, <1>12 DEF NothingPassed

LEMMA FieldChangesSkips == SkipIInv /\ FieldChanges => SkipIInv'
<1> SUFFICES ASSUME SkipIInv, FieldChanges PROVE SkipIInv'
  OBVIOUS
<1> DEFINE Found(f) == Find(expr, f, cal, resets)
<1>1. PICK f \in {Order[i] : i \in 2 .. 5} :
        /\ AtField(f) /\ Found(f).value # cal[f] /\ cal' = Found(f).cal
        /\ Enter /\ UNCHANGED <<question, dot, again>>
  BY DEF FieldChanges
<1>2. f \in Fields /\ CronIInv /\ CronIInv'
  BY FieldsBefore, FieldChangesInv DEF SkipIInv
<1>3. Proper(cal') /\ Instant(cal) <= Instant(cal') /\ at # Idle
  BY <1>1, <1>2, FoundMoves
<1>4. from \in Nat /\ Instant(cal) \in Nat /\ Instant(cal) >= from
  BY <1>2, <1>3, SearchFacts
<1>5. expr' = expr /\ from' = from /\ dot' = dot /\ at' = 1 /\ resets' = {} /\ at' # Idle
  BY <1>1 DEF question, Enter, Idle
<1>6. SUFFICES ASSUME Covered PROVE NothingPassed'
  BY <1>2, <1>5, StillSearching
<1>7. NothingPassed
  BY <1>3, <1>6 DEF SkipIInv
<1>8. Between(cal, cal') /\ SecondNotBehind(cal')
  BY <1>1, <1>6, ChangeSkips
<1>9. \A t \in from' + 1 .. Instant(cal') - 1 : ~Matches(t)'
  BY <1>3, <1>4, <1>5, <1>7, <1>8, PassedSoFar, ProperUnits
<1>10. SecondNotBehind(cal)' /\ MatchedBefore' /\ Before[at'] = {}
  BY <1>5, <1>8 DEF SecondNotBehind, MatchedBefore, Before
<1>11. dot' >= Broken(from').year
  BY <1>5, <1>7 DEF NothingPassed
<1> QED  BY <1>5, <1>9, <1>10, <1>11 DEF NothingPassed

\* A year that is too far is more than four years later.
LEMMA FourYears ==
  ASSUME NEW t \in Nat, NEW c, Proper(c), c.year - Broken(t).year > 4
  PROVE  t + 4 * 365 * DaySeconds < Instant(c)
<1> DEFINE b == Broken(t)
           y == b.year
<1>1. Proper(b) /\ Instant(b) = t /\ y \in Nat \ {0} /\ c.year \in Nat \ {0}
  BY BrokenProper, ProperYear
<1>2. b.mon + 1 \in 0 .. 12 /\ c.mon \in 0 .. 12
  BY <1>1 DEF Proper, Time
<1> HIDE DEF b
<1>3. DayNumber(b) < YearStart(y + 1) /\ YearStart(y + 1) \in Int
  <2>1. DayNumber(b) < DaysBefore(y, b.mon + 1) /\ DayNumber(b) \in Nat
    BY <1>1, DayInMonth
  <2>2. DaysBefore(y, b.mon + 1) <= DaysBefore(y, 12)
    <3>1. 12 \in 0 .. 12 /\ b.mon + 1 <= 12
      BY <1>2
    <3> QED  BY <1>1, <1>2, <3>1, MonthsInOrder
  <2>3. DaysBefore(y, 12) = YearStart(y + 1) /\ DaysBefore(y, b.mon + 1) \in Nat /\ DaysBefore(y, 12) \in Nat
    <3>1. 12 \in 0 .. 12 /\ y \in Int
      BY <1>1
    <3> HIDE DEF y
    <3> QED  BY <1>1, <1>2, <3>1, YearEnd, DaysBeforeNat
  <2> QED  BY <2>1, <2>2, <2>3
<1>4. YearStart(y + 1) + 4 * 365 <= YearStart(c.year)
  <2> DEFINE k == c.year - (y + 1)
  <2>1. k \in Nat /\ k >= 4 /\ y + 1 \in Int /\ c.year = (y + 1) + k
    BY <1>1 DEF b
  <2> HIDE DEF k
  <2>2. YearStart(y + 1) + 365 * k <= YearStart((y + 1) + k)
    BY <2>1, YearsLater
  <2>3. YearStart(c.year) \in Int
    BY <1>1, YearStartInt
  <2> QED  BY <1>3, <2>1, <2>2, <2>3
<1>5. YearStart(c.year) <= DayNumber(c) /\ YearStart(c.year) \in Int /\ DayNumber(c) \in Nat
  <2>1. DaysBefore(c.year, c.mon) <= DayNumber(c) /\ DayNumber(c) \in Nat
    BY DayInMonth
  <2>2. DaysBefore(c.year, 0) <= DaysBefore(c.year, c.mon)
    <3>1. 0 \in 0 .. 12 /\ 0 <= c.mon
      BY <1>2
    <3> QED  BY <1>1, <1>2, <3>1, MonthsInOrder
  <2>3. DaysBefore(c.year, 0) = YearStart(c.year) /\ YearStart(c.year) \in Int
    BY <1>1, YearStartInt
  <2>4. DaysBefore(c.year, c.mon) \in Nat
    BY <1>1, <1>2, DaysBeforeNat
  <2> QED  BY <2>1, <2>2, <2>3, <2>4
<1> DEFINE u == Instant(b) + 1460 * DaySeconds
           d == Broken(u)
<1>6. u \in Nat /\ Proper(d) /\ DayNumber(d) = DayNumber(b) + 1460
  <2> DEFINE k == 1460
  <2>1. k \in Nat
    OBVIOUS
  <2> HIDE DEF k
  <2>2. LET v == Instant(b) + k * DaySeconds
        IN v \in Nat /\ Proper(Broken(v)) /\ DayNumber(Broken(v)) = DayNumber(b) + k
    BY <1>1, <2>1, DaysLaterProper
  <2> QED  BY <2>2 DEF k
<1>7. Instant(d) = u
  BY <1>6, BrokenProper
<1> HIDE DEF d, u
<1>8. DayNumber(b) \in Nat
  BY <1>1, DayInMonth
<1>9. u < Instant(c)
  <2>1. DayNumber(d) < DayNumber(c)
    BY <1>3, <1>4, <1>5, <1>6, <1>8
  <2> QED  BY <1>6, <1>7, <2>1, LaterInstant
<1>10. DaySeconds \in Nat
  <2>1. MaxHours * MaxMinutes \in Nat
    BY Units
  <2> QED  BY <2>1, Units DEF DaySeconds
<1> QED  BY <1>1, <1>9, <1>10 DEF u

LEMMA GiveUpSkips == SkipIInv /\ GiveUp => SkipIInv'
<1> SUFFICES ASSUME SkipIInv, GiveUp PROVE SkipIInv'
  OBVIOUS
<1> DEFINE found == Find(expr, "mon", cal, resets)
<1>1. /\ AtField("mon") /\ found.value # cal.mon /\ TooFar("mon", found.cal)
      /\ cal' = found.cal /\ next' = Invalid /\ at' = Idle /\ callers' = <<>>
      /\ expr' = expr /\ from' = from /\ dot' = dot
  BY DEF GiveUp
<1>2. "mon" \in Fields /\ CronIInv /\ CronIInv'
  BY GiveUpInv DEF Fields, Bounds, SkipIInv
<1>3. Proper(cal') /\ Instant(cal) <= Instant(cal') /\ at # Idle
  BY <1>1, <1>2, FoundMoves
<1>4. from \in Nat /\ Instant(cal) \in Nat /\ Instant(cal) >= from /\ dot \in Nat /\ cal'.year \in Nat
  BY <1>2, <1>3, SearchFacts, ProperYear
<1>5. ASSUME Covered PROVE \A t \in from + 1 .. from + 4 * 365 * DaySeconds : ~Matches(t)'
  <2>1. NothingPassed
    BY <1>3, <1>5 DEF SkipIInv
  <2>2. "mon" \in {Order[i] : i \in 2 .. 5}
    BY DEF Order
  <2>3. Between(cal, cal')
    BY <1>1, <1>5, <2>2, ChangeSkips
  <2>4. \A t \in from' + 1 .. Instant(cal') - 1 : ~Matches(t)'
    BY <1>1, <1>3, <1>4, <2>1, <2>3, PassedSoFar, ProperUnits
  <2>5. cal'.year - Broken(from).year > 4
    <3>1. cal'.year - dot > 4
      BY <1>1 DEF TooFar
    <3>2. dot >= Broken(from).year /\ Broken(from).year \in Nat
      BY <1>4, <2>1, BrokenProper, ProperYear DEF NothingPassed
    <3> QED  BY <1>4, <3>1, <3>2
  <2>6. from + 4 * 365 * DaySeconds < Instant(cal')
    BY <1>3, <1>4, <2>5, FourYears
  <2> DEFINE last == from + 4 * 365 * DaySeconds
  <2>7. last \in Int /\ last < Instant(cal') /\ Instant(cal') \in Nat
    <3>1. MaxHours * MaxMinutes \in Nat
      BY Units
    <3>2. DaySeconds \in Nat
      BY <3>1, Units DEF DaySeconds
    <3> QED  BY <1>3, <1>4, <2>6, <3>2, ProperUnits
  <2> HIDE DEF last
  <2>8. \A t \in from + 1 .. last : t \in from' + 1 .. Instant(cal') - 1
    BY <1>1, <1>4, <2>7
  <2> QED  BY <2>4, <2>8 DEF last
<1>6. NothingIsSkipped'
  <2>1. Covered => \A t \in from' + 1 .. from' + 4 * 365 * DaySeconds : ~Matches(t)'
    BY <1>1, <1>5
  <2> QED  BY <1>1, <2>1 DEF NothingIsSkipped, Covered, EveryWeekday
<1> QED  BY <1>1, <1>2, <1>6 DEF SkipIInv

LEMMA ReturnSkips == SkipIInv /\ Return => SkipIInv'
<1> SUFFICES ASSUME SkipIInv, Return PROVE SkipIInv'
  OBVIOUS
<1>1. /\ at = Done /\ callers # <<>> /\ at' = Last(callers).at /\ resets' = Last(callers).resets
      /\ expr' = expr /\ from' = from /\ cal' = cal /\ dot' = dot
  BY DEF Return, question
<1>2. CronIInv /\ CronIInv' /\ CronTypeOK /\ CallersWait
  BY ReturnInv DEF SkipIInv, CronIInv
<1>3. at' \in 3 .. 6 /\ resets' \in SUBSET Before[at']
  BY <1>1, <1>2, CallersReturn
<1>4. at = 6 /\ at # Idle /\ at' # Idle
  BY <1>1, <1>3 DEF Idle, Done
<1>5. Proper(cal)
  BY <1>2, <1>4, SearchFacts
<1>6. SUFFICES ASSUME Covered PROVE NothingPassed'
  BY <1>1, <1>2, <1>4, StillSearching
<1>7. NothingPassed
  BY <1>4, <1>6 DEF SkipIInv
<1>8. MatchedBefore => Matches(Instant(cal)) /\ MatchedBefore'
  <2>1. SUFFICES ASSUME MatchedBefore PROVE Matches(Instant(cal)) /\ MatchedBefore'
    OBVIOUS
  <2>2. (\A i \in 1 .. 5 : cal[Order[i]] \in expr[Order[i]]) /\ Weekday(Instant(cal)) \in expr.wday
    BY <1>4, <2>1 DEF MatchedBefore
  <2>3. /\ cal.sec \in expr.sec /\ cal.min \in expr.min /\ cal.hour \in expr.hour
        /\ cal.mday \in expr.mday /\ cal.mon \in expr.mon
    BY <2>2 DEF Order
  <2>4. Broken(Instant(cal)) = cal
    BY <1>5, ProperBroken
  <2>5. Matches(Instant(cal))
    BY <2>2, <2>3, <2>4 DEF Matches
  <2> QED  BY <1>1, <2>2, <2>5 DEF MatchedBefore
<1>9. \A t \in from' + 1 .. Instant(cal') - 1 : ~Matches(t)'
  BY <1>1, <1>7 DEF NothingPassed, Matches
<1>10. SecondNotBehind(cal)' /\ cal'.mon \in expr'.mon /\ dot' >= Broken(from').year
  BY <1>1, <1>4, <1>7 DEF NothingPassed, SecondNotBehind
<1>11. MatchedBefore' \/ AtMidnight'
  BY <1>1, <1>7, <1>8 DEF NothingPassed, AtMidnight
<1>12. ASSUME NEW g \in {"min", "hour"} PROVE cal'[g] = 0 \/ Matches(Instant(cal))'
  BY <1>1, <1>7, <1>8 DEF NothingPassed, AtMidnight, Matches
<1> QED  BY <1>3, <1>9, <1>10, <1>11, <1>12 DEF NothingPassed

LEMMA SearchAgainSkips == SkipIInv /\ SearchAgain => SkipIInv'
<1> SUFFICES ASSUME SkipIInv, SearchAgain PROVE SkipIInv'
  OBVIOUS
<1>1. /\ at = Done /\ callers = <<>> /\ Instant(cal) = from
      /\ cal' = AddToField(cal, "sec") /\ dot' = cal'.year /\ at' = 1 /\ resets' = {}
      /\ callers' = callers /\ expr' = expr /\ from' = from
  BY DEF SearchAgain, DoNext, Enter, question
<1>2. CronIInv /\ CronIInv' /\ at # Idle /\ at' # Idle
  BY <1>1, SearchAgainInv DEF SkipIInv, Idle, Done
<1>3. Proper(cal) /\ from \in Nat
  BY <1>2, SearchFacts
<1>4. Proper(cal') /\ Instant(cal') = from + 1
  BY <1>1, <1>3, NextSecond
<1>5. NothingPassed'
  <2>1. from' + 1 .. Instant(cal') - 1 = {}
    BY <1>1, <1>3, <1>4
  <2>2. MatchedBefore' /\ Before[at'] = {}
    BY <1>1 DEF MatchedBefore, Before
  <2>3. Broken(from).year <= cal'.year
    <3>1. Proper(Broken(from)) /\ Instant(Broken(from)) = from
      BY <1>3, BrokenProper
    <3>2. Instant(Broken(from)) <= Instant(cal')
      BY <1>3, <1>4, <3>1
    <3> QED  BY <1>4, <3>1, <3>2, LaterYear
  <2> QED  BY <1>1, <2>1, <2>2, <2>3 DEF NothingPassed
<1> QED  BY <1>1, <1>2, <1>5, StillSearching

LEMMA AnswerSkips == SkipIInv /\ Answer => SkipIInv'
<1> SUFFICES ASSUME SkipIInv, Answer PROVE SkipIInv'
  OBVIOUS
<1>1. /\ at = Done /\ callers = <<>> /\ next' = Instant(cal) /\ at' = Idle
      /\ expr' = expr /\ from' = from /\ cal' = cal /\ callers' = callers
  BY DEF Answer
<1>2. CronIInv /\ CronIInv' /\ at # Idle
  BY <1>1, AnswerInv DEF SkipIInv, Idle, Done
<1>3. Instant(cal) \in Nat /\ next' # Invalid
  <2>1. Instant(cal) \in Nat
    BY <1>2, SearchFacts
  <2> QED  BY <1>1, <2>1 DEF Invalid
<1>4. Covered => \A t \in from' + 1 .. next' - 1 : ~Matches(t)'
  BY <1>1, <1>2 DEF SkipIInv, NothingPassed, Matches
<1>5. NothingIsSkipped'
  BY <1>1, <1>3, <1>4 DEF NothingIsSkipped, Covered, EveryWeekday
<1> QED  BY <1>1, <1>2, <1>5 DEF SkipIInv

LEMMA SkipStepInv == SkipIInv /\ [CronNext]_cronVars => SkipIInv'
<1>1. ASSUME SkipIInv, UNCHANGED cronVars PROVE SkipIInv'
  <2>1. /\ expr' = expr /\ from' = from /\ next' = next /\ calls' = calls /\ cal' = cal /\ dot' = dot
        /\ at' = at /\ resets' = resets /\ callers' = callers
    BY <1>1 DEF cronVars
  <2>2. CronIInv' /\ (at' = Idle => callers' = <<>>)
    BY <1>1, <2>1, CronStepInv DEF SkipIInv
  <2>3. Covered' <=> Covered
    BY <2>1 DEF Covered, EveryWeekday
  <2>4. NothingPassed => NothingPassed'
    BY <2>1 DEF NothingPassed, Matches, SecondNotBehind, MatchedBefore, AtMidnight
  <2>5. NothingIsSkipped'
    BY <1>1, <2>1 DEF SkipIInv, NothingIsSkipped, Answered, Matches, EveryWeekday
  <2> QED  BY <1>1, <2>1, <2>2, <2>3, <2>4, <2>5 DEF SkipIInv
<1> QED
  BY <1>1, ParseGetNextSkips, FieldStaysSkips, SecondChangesSkips, FieldChangesSkips, GiveUpSkips,
     ReturnSkips, SearchAgainSkips, AnswerSkips DEF CronNext, Search

\* No instant that matches is left out before the answer, nor in the four years after
\* which dcmCronParseGetNext gives up (dcm_cronparse.c:762): for every pattern that the
\* condition of NothingIsSkipped allows, every instant and all units of the day.
THEOREM NothingIsLeftOut == CronSpec => []NothingIsSkipped
<1>1. SkipIInv => NothingIsSkipped
  BY DEF SkipIInv
<1>2. CronSpec => []SkipIInv
  BY CronInitSkips, SkipStepInv, PTL DEF CronSpec
<1> QED  BY <1>1, <1>2, PTL

\* What dcmCronParseExp accepts has a value for every field, and none that the calendar
\* does not have, whatever the text (dcm_cronparse.c:845).
THEOREM AcceptedIsInCalendar == CronSpec => []AcceptedInCalendar
<1>1. CronTypeOK => AcceptedInCalendar
  BY DEF CronTypeOK
<1> QED  BY <1>1, CronTypesAreCorrect, PTL
================================================================================
