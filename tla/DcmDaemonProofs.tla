---------------------------- MODULE DcmDaemonProofs ----------------------------
(***************************************************************************)
(* For any set of configurations that T2 may send, readable or not, and    *)
(* wherever main fails or the signal strikes: both jobs follow one         *)
(* configuration, and the daemon drives each of them as ScheduledJob       *)
(* allows, down to the exit of the process.                                *)
(***************************************************************************)
EXTENDS DcmDaemon, TLAPS

(***************************************************************************)
(* The types are not inductive by themselves: that a job that is on has a  *)
(* handle and a configuration depends on what main has done on its way to  *)
(* each of its stages.                                                     *)
(***************************************************************************)
Prepared == StartStages \cup {"boot", "wait", "send", "poll", "parse", "upload", "store", "reset"}

\* dcmDaemonMainInit has made both handles before main waits for T2.
HandlesMade ==
  /\ mpc = "adddifd" => "log" \in added
  /\ mpc \in Prepared => added = Jobs

\* The buffers hold the configuration that main has parsed, until it comes back.
HasParsed == mpc \in {"upload", "store"} \cup StartStages => parsed \in Confs

TypeInv == TypeOK /\ HandlesMade /\ HasParsed

(***************************************************************************)
(* One configuration: between the two starts the log job follows what was  *)
(* parsed last, and the firmware job what was parsed before.               *)
(***************************************************************************)
LogJobIsRestarted ==
  mpc \in {"startdifd", "indifd"} => (on["log"] => cron["log"] = parsed)

NoJobIsRestarted ==
  mpc \notin {"startdifd", "indifd"} => (on["log"] /\ on["difd"] => cron["log"] = cron["difd"])

ConfInv == LogJobIsRestarted /\ NoJobIsRestarted

(***************************************************************************)
(* The contract: what the calls of dcmDaemonMainUnInit made so far leave   *)
(* of each job, and that no callback runs in a job main is starting.       *)
(***************************************************************************)
NoHandlerYet == {"no", "free", "bus", "stoplog", "stopdifd", "removelog"}
KeptUntil(j) == IF j = "log" THEN NoHandlerYet ELSE NoHandlerYet \cup {"joinlog", "removedifd"}
Joined(j) == IF j = "log" THEN {"removedifd", "joindifd", "done"} ELSE {"done"}

MainHoldsAlone == \A j \in Jobs : HeldByMain(j) => ~running[j]

RemovedInOrder ==
  \A j \in Jobs :
    /\ upc \in KeptUntil(j) => ~gone[j]
    /\ upc \notin KeptUntil(j) /\ j \in added => gone[j] /\ ~on[j]
    /\ upc \in Joined(j) /\ j \in added => ~armed[j] /\ ~running[j]

ContractInv == MainHoldsAlone /\ RemovedInOrder

-----------------------------------------------------------------------------
\* Where dcmDaemonMainUnInit makes each of its calls to the scheduler.
LEMMA CallPlaces ==
  /\ Call("stop", "log") <=> upc = "stoplog"
  /\ Call("stop", "difd") <=> upc = "stopdifd"
  /\ Call("remove", "log") <=> upc = "removelog"
  /\ Call("remove", "difd") <=> upc = "removedifd"
  /\ Call("join", "log") <=> upc = "joinlog"
  /\ Call("join", "difd") <=> upc = "joindifd"
  BY DEF Call

\* ... and in which order.
LEMMA CallOrder ==
  /\ After["stoplog"] = "stopdifd" /\ After["stopdifd"] = "removelog"
  /\ After["removelog"] = "joinlog" /\ After["joinlog"] = "removedifd"
  /\ After["removedifd"] = "joindifd" /\ After["joindifd"] = "done"
  BY DEF After

LEMMA InitTypes == Init => TypeInv
<1> SUFFICES ASSUME Init PROVE TypeInv
  OBVIOUS
<1> USE ConfAssumption DEF Init, Jobs, Events
<1>1. HandlesMade /\ HasParsed
  BY DEF HandlesMade, HasParsed, Prepared, StartStages
<1>2. TypeOK
  BY DEF TypeOK, MainStates, InitStages, StartStages, UnInitStates
<1> QED
  BY <1>1, <1>2 DEF TypeInv

\* One leaf for each action.
LEMMA StepTypes == TypeInv /\ [Next]_vars => TypeInv'
<1> SUFFICES ASSUME TypeInv, [Next]_vars PROVE TypeInv'
  OBVIOUS
<1> USE ConfAssumption
    DEF TypeInv, TypeOK, HandlesMade, HasParsed, Prepared, MainStates, InitStages, StartStages,
        UnInitStates, Jobs, Events, CronKinds, Main, rbus, conf, jobs
<1>1. CASE InitSettings
  BY <1>1 DEF InitSettings
<1>2. CASE InitRbus
  BY <1>2 DEF InitRbus
<1>3. CASE GetT2Version
  BY <1>3 DEF GetT2Version
<1>4. CASE Subscribe
  BY <1>4 DEF Subscribe
<1>5. CASE AllocBuffer
  BY <1>5 DEF AllocBuffer
<1>6. CASE AddJobs
  <2>1. CASE mpc = "addlog"
    BY <1>6, <2>1 DEF AddJobs
  <2>2. CASE mpc = "adddifd"
    <3>1. added' = Jobs /\ mpc' = "boot" /\ UNCHANGED <<upc, mm, rbus, conf, exec, cron, on, armed, gone, cb>>
      <4>1. "log" \in added /\ added \subseteq Jobs
        BY <2>2
      <4>2. mpc' = "boot" /\ added' = added \cup {"difd"}
        BY <1>6, <2>2 DEF AddJobs
      <4>3. added' = Jobs
        BY <4>1, <4>2, Zenon
      <4> QED
        BY <1>6, <4>2, <4>3 DEF AddJobs
    <3> QED
      BY <3>1
  <2> QED
    BY <1>6, <2>1, <2>2 DEF AddJobs
<1>7. CASE DefaultBoot
  BY <1>7 DEF DefaultBoot
<1>8. CASE EventsSubscribed
  BY <1>8 DEF EventsSubscribed
<1>9. CASE SendEvent
  BY <1>9 DEF SendEvent
<1>10. CASE StartScheduling
  BY <1>10 DEF StartScheduling
<1>11. CASE ParseConf
  BY <1>11, ZenonT(60) DEF ParseConf
<1>12. CASE UploadsDone
  BY <1>12 DEF UploadsDone
<1>13. CASE StoreTempConf
  BY <1>13 DEF StoreTempConf
<1>14. ASSUME NEW j \in Jobs, StartJob(j) PROVE TypeInv'
  BY <1>14 DEF StartJob, HeldByMain
<1>15. CASE ResetStatus
  BY <1>15 DEF ResetStatus
<1>16. ASSUME NEW j \in Jobs, EnterStart(j) PROVE TypeInv'
  BY <1>16 DEF EnterStart, StageOf, MutexFree
<1>17. CASE InitFails
  BY <1>17 DEF InitFails
<1>18. ASSUME NEW e \in Events, SubscriptionAnswered(e) PROVE TypeInv'
  BY <1>18 DEF SubscriptionAnswered
<1>19. ASSUME NEW c \in Confs, SetConf(c) PROVE TypeInv'
  BY <1>19 DEF SetConf
<1>20. CASE ProcConf
  BY <1>20 DEF ProcConf
<1>21. ASSUME NEW j \in Jobs, Arm(j) PROVE TypeInv'
  BY <1>21 DEF Arm
<1>22. ASSUME NEW j \in Jobs, Disarm(j) PROVE TypeInv'
  BY <1>22 DEF Disarm
<1>23. ASSUME NEW j \in Jobs, Fire(j) PROVE TypeInv'
  BY <1>23 DEF Fire
<1>24. ASSUME NEW j \in Jobs, CallbackStart(j) PROVE TypeInv'
  BY <1>24 DEF CallbackStart
<1>25. ASSUME NEW j \in Jobs, CallbackEnd(j) PROVE TypeInv'
  BY <1>25 DEF CallbackEnd
<1>26. CASE UnInitAtExit
  BY <1>26 DEF UnInitAtExit
<1>27. CASE Signal
  BY <1>27 DEF Signal
<1>28. CASE FreeBuffers
  BY <1>28 DEF FreeBuffers
<1>29. CASE RbusUnInit
  BY <1>29 DEF RbusUnInit
<1>30. CASE SkipNoHandle
  BY <1>30, CallPlaces, CallOrder DEF SkipNoHandle
<1>31. ASSUME NEW j \in Jobs, StopJob(j) PROVE TypeInv'
  BY <1>31, CallPlaces, CallOrder DEF StopJob
<1>32. ASSUME NEW j \in Jobs, RemoveJob(j) PROVE TypeInv'
  BY <1>32, CallPlaces, CallOrder DEF RemoveJob
<1>33. ASSUME NEW j \in Jobs, JoinJob(j) PROVE TypeInv'
  BY <1>33, CallPlaces, CallOrder DEF JoinJob
<1>34. CASE UNCHANGED vars
  BY <1>34 DEF vars
<1> QED
  BY <1>1, <1>2, <1>3, <1>4, <1>5, <1>6, <1>7, <1>8, <1>9, <1>10, <1>11, <1>12, <1>13, <1>14, <1>15, <1>16, <1>17,
     <1>18, <1>19, <1>20, <1>21, <1>22, <1>23, <1>24, <1>25, <1>26, <1>27, <1>28, <1>29, <1>30, <1>31, <1>32, <1>33, <1>34
     DEF Next, MainRuns, Rbus, Job, UnInit

\* The settings, the handles and the jobs stay in their ranges, whatever T2 sends when.
THEOREM TypeCorrect == Spec => []TypeOK
<1>1. Spec => []TypeInv
  BY InitTypes, StepTypes, PTL DEF Spec
<1> QED
  BY <1>1, PTL DEF TypeInv

-----------------------------------------------------------------------------
LEMMA InitConf == Init => ConfInv
  BY DEF Init, ConfInv, LogJobIsRestarted, NoJobIsRestarted, Jobs

LEMMA StepConf == TypeInv /\ ConfInv /\ [Next]_vars => ConfInv'
<1> SUFFICES ASSUME TypeInv, ConfInv, [Next]_vars PROVE ConfInv'
  OBVIOUS
<1> USE DEF TypeInv, TypeOK, ConfInv, LogJobIsRestarted, NoJobIsRestarted, HeldByMain, Main,
            Jobs, InitStages, rbus, conf, jobs
<1>1. CASE InitSettings
  BY <1>1 DEF InitSettings
<1>2. CASE InitRbus
  BY <1>2 DEF InitRbus
<1>3. CASE GetT2Version
  BY <1>3 DEF GetT2Version
<1>4. CASE Subscribe
  BY <1>4 DEF Subscribe
<1>5. CASE AllocBuffer
  BY <1>5 DEF AllocBuffer
<1>6. CASE AddJobs
  BY <1>6 DEF AddJobs
<1>7. CASE DefaultBoot
  BY <1>7 DEF DefaultBoot
<1>8. CASE EventsSubscribed
  BY <1>8 DEF EventsSubscribed
<1>9. CASE SendEvent
  BY <1>9 DEF SendEvent
<1>10. CASE StartScheduling
  BY <1>10 DEF StartScheduling
<1>11. CASE ParseConf
  BY <1>11 DEF ParseConf
<1>12. CASE UploadsDone
  BY <1>12 DEF UploadsDone
<1>13. CASE StoreTempConf
  BY <1>13 DEF StoreTempConf
<1>14. ASSUME NEW j \in Jobs, StartJob(j) PROVE ConfInv'
  BY <1>14 DEF StartJob
<1>15. CASE ResetStatus
  BY <1>15 DEF ResetStatus
<1>16. ASSUME NEW j \in Jobs, EnterStart(j) PROVE ConfInv'
  BY <1>16 DEF EnterStart, StageOf, MutexFree
<1>17. CASE InitFails
  BY <1>17 DEF InitFails
<1>18. ASSUME NEW e \in Events, SubscriptionAnswered(e) PROVE ConfInv'
  BY <1>18 DEF SubscriptionAnswered
<1>19. ASSUME NEW c \in Confs, SetConf(c) PROVE ConfInv'
  BY <1>19 DEF SetConf
<1>20. CASE ProcConf
  BY <1>20 DEF ProcConf
<1>21. ASSUME NEW j \in Jobs, Arm(j) PROVE ConfInv'
  BY <1>21 DEF Arm
<1>22. ASSUME NEW j \in Jobs, Disarm(j) PROVE ConfInv'
  BY <1>22 DEF Disarm
<1>23. ASSUME NEW j \in Jobs, Fire(j) PROVE ConfInv'
  BY <1>23 DEF Fire, MutexFree
<1>24. ASSUME NEW j \in Jobs, CallbackStart(j) PROVE ConfInv'
  BY <1>24 DEF CallbackStart
<1>25. ASSUME NEW j \in Jobs, CallbackEnd(j) PROVE ConfInv'
  BY <1>25 DEF CallbackEnd
<1>26. CASE UnInitAtExit
  BY <1>26 DEF UnInitAtExit
<1>27. CASE Signal
  BY <1>27 DEF Signal
<1>28. CASE FreeBuffers
  BY <1>28 DEF FreeBuffers
<1>29. CASE RbusUnInit
  BY <1>29 DEF RbusUnInit
<1>30. CASE SkipNoHandle
  BY <1>30, CallPlaces, CallOrder DEF SkipNoHandle
<1>31. ASSUME NEW j \in Jobs, StopJob(j) PROVE ConfInv'
  BY <1>31, CallPlaces, CallOrder DEF StopJob
<1>32. ASSUME NEW j \in Jobs, RemoveJob(j) PROVE ConfInv'
  BY <1>32, CallPlaces, CallOrder DEF RemoveJob
<1>33. ASSUME NEW j \in Jobs, JoinJob(j) PROVE ConfInv'
  BY <1>33, CallPlaces, CallOrder DEF JoinJob
<1>34. CASE UNCHANGED vars
  BY <1>34 DEF vars
<1> QED
  BY <1>1, <1>2, <1>3, <1>4, <1>5, <1>6, <1>7, <1>8, <1>9, <1>10, <1>11, <1>12, <1>13, <1>14, <1>15, <1>16, <1>17,
     <1>18, <1>19, <1>20, <1>21, <1>22, <1>23, <1>24, <1>25, <1>26, <1>27, <1>28, <1>29, <1>30, <1>31, <1>32, <1>33, <1>34
     DEF Next, MainRuns, Rbus, Job, UnInit

\* The log job and the firmware check never follow different configurations while main
\* waits, whichever patterns were rejected and wherever parsing has failed.
THEOREM OneConfiguration == Spec => []JobsFollowOneConf
<1>1. TypeInv /\ ConfInv /\ [Next]_vars => (TypeInv /\ ConfInv)'
  BY StepTypes, StepConf
<1>2. ConfInv => JobsFollowOneConf
  BY DEF ConfInv, NoJobIsRestarted, JobsFollowOneConf, Starting, StartStages
<1> QED
  BY <1>1, <1>2, InitTypes, InitConf, PTL DEF Spec

-----------------------------------------------------------------------------
LEMMA InitContract == Init => ContractInv
  BY DEF Init, ContractInv, MainHoldsAlone, RemovedInOrder, HeldByMain, KeptUntil, Joined,
     NoHandlerYet, Jobs

LEMMA StepContract == TypeInv /\ ContractInv /\ [Next]_vars => ContractInv'
<1> SUFFICES ASSUME TypeInv, ContractInv, [Next]_vars PROVE ContractInv'
  OBVIOUS
<1> USE DEF TypeInv, TypeOK, ContractInv, MainHoldsAlone, RemovedInOrder, HeldByMain, KeptUntil,
            Joined, NoHandlerYet, running, Main, Jobs, InitStages, rbus, conf, jobs
<1>1. CASE InitSettings
  BY <1>1 DEF InitSettings
<1>2. CASE InitRbus
  BY <1>2 DEF InitRbus
<1>3. CASE GetT2Version
  BY <1>3 DEF GetT2Version
<1>4. CASE Subscribe
  BY <1>4 DEF Subscribe
<1>5. CASE AllocBuffer
  BY <1>5 DEF AllocBuffer
<1>6. CASE AddJobs
  BY <1>6 DEF AddJobs
<1>7. CASE DefaultBoot
  BY <1>7 DEF DefaultBoot
<1>8. CASE EventsSubscribed
  BY <1>8 DEF EventsSubscribed
<1>9. CASE SendEvent
  BY <1>9 DEF SendEvent
<1>10. CASE StartScheduling
  BY <1>10 DEF StartScheduling
<1>11. CASE ParseConf
  BY <1>11 DEF ParseConf
<1>12. CASE UploadsDone
  BY <1>12 DEF UploadsDone
<1>13. CASE StoreTempConf
  BY <1>13 DEF StoreTempConf
<1>14. ASSUME NEW j \in Jobs, StartJob(j) PROVE ContractInv'
  BY <1>14 DEF StartJob
<1>15. CASE ResetStatus
  BY <1>15 DEF ResetStatus
<1>16. ASSUME NEW j \in Jobs, EnterStart(j) PROVE ContractInv'
  BY <1>16 DEF EnterStart, StageOf, MutexFree
<1>17. CASE InitFails
  BY <1>17 DEF InitFails
<1>18. ASSUME NEW e \in Events, SubscriptionAnswered(e) PROVE ContractInv'
  BY <1>18 DEF SubscriptionAnswered
<1>19. ASSUME NEW c \in Confs, SetConf(c) PROVE ContractInv'
  BY <1>19 DEF SetConf
<1>20. CASE ProcConf
  BY <1>20 DEF ProcConf
<1>21. ASSUME NEW j \in Jobs, Arm(j) PROVE ContractInv'
  BY <1>21 DEF Arm
<1>22. ASSUME NEW j \in Jobs, Disarm(j) PROVE ContractInv'
  BY <1>22 DEF Disarm
<1>23. ASSUME NEW j \in Jobs, Fire(j) PROVE ContractInv'
  BY <1>23 DEF Fire, MutexFree
<1>24. ASSUME NEW j \in Jobs, CallbackStart(j) PROVE ContractInv'
  BY <1>24 DEF CallbackStart
<1>25. ASSUME NEW j \in Jobs, CallbackEnd(j) PROVE ContractInv'
  BY <1>25 DEF CallbackEnd
<1>26. CASE UnInitAtExit
  BY <1>26 DEF UnInitAtExit
<1>27. CASE Signal
  BY <1>27 DEF Signal
<1>28. CASE FreeBuffers
  BY <1>28 DEF FreeBuffers
<1>29. CASE RbusUnInit
  BY <1>29 DEF RbusUnInit
<1>30. CASE SkipNoHandle
  BY <1>30, CallPlaces, CallOrder DEF SkipNoHandle
<1>31. ASSUME NEW j \in Jobs, StopJob(j) PROVE ContractInv'
  BY <1>31, CallPlaces, CallOrder DEF StopJob
<1>32. ASSUME NEW j \in Jobs, RemoveJob(j) PROVE ContractInv'
  BY <1>32, CallPlaces, CallOrder DEF RemoveJob
<1>33. ASSUME NEW j \in Jobs, JoinJob(j) PROVE ContractInv'
  BY <1>33, CallPlaces, CallOrder DEF JoinJob
<1>34. CASE UNCHANGED vars
  BY <1>34 DEF vars
<1> QED
  BY <1>1, <1>2, <1>3, <1>4, <1>5, <1>6, <1>7, <1>8, <1>9, <1>10, <1>11, <1>12, <1>13, <1>14, <1>15, <1>16, <1>17,
     <1>18, <1>19, <1>20, <1>21, <1>22, <1>23, <1>24, <1>25, <1>26, <1>27, <1>28, <1>29, <1>30, <1>31, <1>32, <1>33, <1>34
     DEF Next, MainRuns, Rbus, Job, UnInit

\* What the daemon does with job k in a step is what ScheduledJob allows, or nothing.
JobStep(k) == Contract(k)!Next \/ UNCHANGED Contract(k)!job

LEMMA StepJob == TypeInv /\ ContractInv /\ [Next]_vars => \A k \in Jobs : JobStep(k)
<1> SUFFICES ASSUME TypeInv, ContractInv, [Next]_vars, NEW k \in Jobs PROVE JobStep(k)
  OBVIOUS
<1> USE DEF TypeInv, TypeOK, ContractInv, MainHoldsAlone, RemovedInOrder, HeldByMain, KeptUntil,
            NoHandlerYet, running, Main, Jobs, InitStages, rbus, conf, jobs, JobStep,
            Contract!Next, Contract!job
<1>1. CASE InitSettings
  BY <1>1 DEF InitSettings
<1>2. CASE InitRbus
  BY <1>2 DEF InitRbus
<1>3. CASE GetT2Version
  BY <1>3 DEF GetT2Version
<1>4. CASE Subscribe
  BY <1>4 DEF Subscribe
<1>5. CASE AllocBuffer
  BY <1>5 DEF AllocBuffer
<1>6. CASE AddJobs
  BY <1>6 DEF AddJobs
<1>7. CASE DefaultBoot
  BY <1>7 DEF DefaultBoot
<1>8. CASE EventsSubscribed
  BY <1>8 DEF EventsSubscribed
<1>9. CASE SendEvent
  BY <1>9 DEF SendEvent
<1>10. CASE StartScheduling
  BY <1>10 DEF StartScheduling
<1>11. CASE ParseConf
  BY <1>11 DEF ParseConf
<1>12. CASE UploadsDone
  BY <1>12 DEF UploadsDone
<1>13. CASE StoreTempConf
  BY <1>13 DEF StoreTempConf
<1>14. ASSUME NEW j \in Jobs, StartJob(j) PROVE JobStep(k)
  BY <1>14 DEF StartJob, Contract!SwitchOn, Contract!SwitchOff
<1>15. CASE ResetStatus
  BY <1>15 DEF ResetStatus
<1>16. ASSUME NEW j \in Jobs, EnterStart(j) PROVE JobStep(k)
  BY <1>16 DEF EnterStart, StageOf, MutexFree
<1>17. CASE InitFails
  BY <1>17 DEF InitFails
<1>18. ASSUME NEW e \in Events, SubscriptionAnswered(e) PROVE JobStep(k)
  BY <1>18 DEF SubscriptionAnswered
<1>19. ASSUME NEW c \in Confs, SetConf(c) PROVE JobStep(k)
  BY <1>19 DEF SetConf
<1>20. CASE ProcConf
  BY <1>20 DEF ProcConf
<1>21. ASSUME NEW j \in Jobs, Arm(j) PROVE JobStep(k)
  BY <1>21 DEF Arm, MutexFree, Contract!Arm
<1>22. ASSUME NEW j \in Jobs, Disarm(j) PROVE JobStep(k)
  BY <1>22 DEF Disarm, Contract!Disarm
<1>23. ASSUME NEW j \in Jobs, Fire(j) PROVE JobStep(k)
  BY <1>23 DEF Fire, MutexFree, Contract!Run
<1>24. ASSUME NEW j \in Jobs, CallbackStart(j) PROVE JobStep(k)
  BY <1>24 DEF CallbackStart, Contract!Finish
<1>25. ASSUME NEW j \in Jobs, CallbackEnd(j) PROVE JobStep(k)
  BY <1>25 DEF CallbackEnd, Contract!Finish
<1>26. CASE UnInitAtExit
  BY <1>26 DEF UnInitAtExit
<1>27. CASE Signal
  BY <1>27 DEF Signal
<1>28. CASE FreeBuffers
  BY <1>28 DEF FreeBuffers
<1>29. CASE RbusUnInit
  BY <1>29 DEF RbusUnInit
<1>30. CASE SkipNoHandle
  BY <1>30, CallPlaces, CallOrder DEF SkipNoHandle
<1>31. ASSUME NEW j \in Jobs, StopJob(j) PROVE JobStep(k)
  BY <1>31, CallPlaces, CallOrder DEF StopJob, MutexFree, Contract!SwitchOff
<1>32. ASSUME NEW j \in Jobs, RemoveJob(j) PROVE JobStep(k)
  BY <1>32, CallPlaces, CallOrder DEF RemoveJob, MutexFree, Contract!Remove
<1>33. ASSUME NEW j \in Jobs, JoinJob(j) PROVE JobStep(k)
  BY <1>33, CallPlaces, CallOrder DEF JoinJob
<1>34. CASE UNCHANGED vars
  BY <1>34 DEF vars
<1> QED
  BY <1>1, <1>2, <1>3, <1>4, <1>5, <1>6, <1>7, <1>8, <1>9, <1>10, <1>11, <1>12, <1>13, <1>14, <1>15, <1>16, <1>17,
     <1>18, <1>19, <1>20, <1>21, <1>22, <1>23, <1>24, <1>25, <1>26, <1>27, <1>28, <1>29, <1>30, <1>31, <1>32, <1>33, <1>34
     DEF Next, MainRuns, Rbus, Job, UnInit

\* No job is started or stopped in its callback or used once it is removed, and the
\* process exits when neither can run: the daemon is a client that ScheduledJob, and
\* with it DcmScheduler, is made for.
THEOREM DrivesJobsAsPromised == Spec => JobsKeepPromise
<1>1. Init => \A j \in Jobs : Contract(j)!Init
  BY DEF Init, Contract!Init, running, Jobs
<1>2. TypeInv /\ ContractInv /\ [Next]_vars => (TypeInv /\ ContractInv)'
  BY StepTypes, StepContract
<1>3. TypeInv /\ ContractInv /\ [Next]_vars
        => [\A j \in Jobs : [Contract(j)!Next]_(Contract(j)!job)]_vars
  BY StepJob DEF JobStep
<1>4. TypeInv /\ ContractInv
        => (upc = "done" => \A j \in added : gone[j] /\ ~running[j] /\ ~armed[j])
  BY DEF TypeInv, TypeOK, ContractInv, RemovedInOrder, KeptUntil, Joined, NoHandlerYet, Jobs
<1> QED
  BY <1>1, <1>2, <1>3, <1>4, InitTypes, InitContract, PTL DEF Spec, JobsKeepPromise
================================================================================
