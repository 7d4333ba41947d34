------------------------------- MODULE DcmDaemon -------------------------------
(***************************************************************************)
(* The dcmd process (dcm.c, dcm_rbus.c and dcmSettingParseConf): the main  *)
(* thread, which initialises, waits for telemetry (T2) and serves its      *)
(* Processconfig events; the rbus thread, which runs the event callbacks;  *)
(* the two job threads; and the signal handler, which shuts down on top of *)
(* whatever the main thread was doing.                                     *)
(*                                                                         *)
(* The job threads are the promise of ScheduledJob, which DcmScheduler     *)
(* implements: this module adds what the callback does and who holds the   *)
(* job's tMutex. The two configuration variables of rbus (confPath and     *)
(* schedJob) are shared with no lock.                                      *)
(***************************************************************************)
EXTENDS Integers

CONSTANTS Confs,     \* configurations T2 can put at a path
          NoConf,    \* no configuration: an empty buffer or path
          Readable,  \* those whose file opens and is JSON
          LogCron,   \* LogCron[c]: is its log upload cron "good", "bad" or "missing"
          DifdCron   \* the same for the firmware check (DIFD) cron

CronKinds == {"good", "bad", "missing"}

ASSUME ConfAssumption ==
  /\ NoConf \notin Confs
  /\ Readable \subseteq Confs
  /\ LogCron \in [Confs -> CronKinds]
  /\ DifdCron \in [Confs -> CronKinds]

Jobs == {"log", "difd"}

VARIABLES
  mpc,        \* where the main thread is
  upc,        \* where dcmDaemonMainUnInit is, "no" before it starts
  mm,         \* g_bMMEnable: maintenance is run by the maintenance manager
  subs,       \* state of the two rbus subscriptions
  eventSub,   \* DCMRBusHandle.eventSub
  schedJob,   \* DCMRBusHandle.schedJob
  confPath,   \* DCMRBusHandle.confPath: the configuration it leads to
  parsed,     \* logCron, difdCron and the upload settings come from it
  stored,     \* DCM_TMP_CONF and DCM_OPT_CONF come from it
  owed,       \* history: a Processconfig has come since the path was last read
  exec,       \* pExecBuff
  added,      \* jobs with a handle
  cron,       \* the configuration each job was last started with
  on, armed, gone, \* the jobs, as in ScheduledJob
  cb          \* where each job's callback is

rbus == <<subs, eventSub, schedJob, confPath, owed>>
conf == <<parsed, stored>>
jobs == <<added, cron, on, armed, gone, cb>>
vars == <<mpc, upc, mm, subs, eventSub, schedJob, confPath, owed,
          parsed, stored, exec, added, cron, on, armed, gone, cb>>

InitStages == {"settings", "rbus", "subscribe", "buffer", "addlog", "adddifd"}
StartStages == {"startlog", "inlog", "startdifd", "indifd"}
MainStates == InitStages \cup StartStages \cup
  {"version", "boot", "wait", "send", "poll", "parse", "upload", "store", "reset", "uninit"}
UnInitStates == {"no", "free", "bus", "stoplog", "stopdifd", "removelog", "joinlog",
                 "removedifd", "joindifd", "done"}
Events == {"setconf", "procconf"}

TypeOK ==
  /\ mpc \in MainStates
  /\ upc \in UnInitStates
  /\ mm \in BOOLEAN
  /\ subs \in [Events -> {"no", "pending", "ok", "failed"}]
  /\ {eventSub, schedJob, owed} \subseteq BOOLEAN
  /\ {confPath, parsed, stored} \subseteq Confs \cup {NoConf}
  /\ exec \in {"null", "garbage", "fwcmd", "freed"}
  /\ added \subseteq Jobs
  /\ cron \in [Jobs -> Confs \cup {NoConf}]
  /\ {on, armed, gone} \subseteq [Jobs -> BOOLEAN]
  /\ cb \in [Jobs -> {"idle", "start", "work"}]
  /\ \A j \in Jobs : on[j] => j \in added /\ cron[j] \in Confs

Init ==
  /\ mpc = "settings" /\ upc = "no"
  /\ mm \in BOOLEAN
  /\ subs = [e \in Events |-> "no"]
  /\ eventSub = FALSE /\ schedJob = FALSE
  /\ confPath = NoConf
  /\ owed = FALSE
  /\ parsed = NoConf /\ stored = NoConf
  /\ exec = "null"
  /\ added = {}
  /\ cron = [j \in Jobs |-> NoConf]
  /\ on = [j \in Jobs |-> FALSE]
  /\ armed = [j \in Jobs |-> FALSE]
  /\ gone = [j \in Jobs |-> FALSE]
  /\ cb = [j \in Jobs |-> "idle"]

\* Main runs its own code only while no handler runs on top of it.
Main(at) == upc = "no" /\ mpc = at

\* The process has not exited.
Alive == upc # "done"

running == [j \in Jobs |-> cb[j] # "idle"]

\* The job's tMutex: held through a callback, and by main inside dcmSchedStartJob.
HeldByMain(j) == mpc = (IF j = "log" THEN "inlog" ELSE "indifd")
MutexFree(j) == ~running[j] /\ ~HeldByMain(j)

-----------------------------------------------------------------------------
(* Initialisation, dcmDaemonMainInit and the start of main().              *)

\* dcmSettingsInit, then the handlers are registered. ENABLE_MAINTENANCE is in
\* device.properties or not: mm was chosen in Init.
InitSettings ==
  /\ Main("settings")
  /\ mpc' = "rbus"
  /\ UNCHANGED <<upc, mm, rbus, conf, exec, jobs>>

InitRbus ==
  /\ Main("rbus")
  /\ mpc' = "version"
  /\ UNCHANGED <<upc, mm, rbus, conf, exec, jobs>>

\* dcmRbusGetT2Version: without an answer from T2 the initialisation goes on.
GetT2Version ==
  /\ Main("version")
  /\ mpc' = "subscribe"
  /\ UNCHANGED <<upc, mm, rbus, conf, exec, jobs>>

\* dcmRbusSubscribeEvents: both subscriptions are asynchronous.
Subscribe ==
  /\ Main("subscribe")
  /\ subs' = [e \in Events |-> "pending"]
  /\ mpc' = "buffer"
  /\ UNCHANGED <<upc, mm, eventSub, schedJob, confPath, owed,
                 conf, exec, jobs>>

\* pExecBuff comes from malloc and is not initialised.
AllocBuffer ==
  /\ Main("buffer")
  /\ exec' = "garbage"
  /\ mpc' = "addlog"
  /\ UNCHANGED <<upc, mm, rbus, conf, jobs>>

AddJobs ==
  /\ \/ Main("addlog") /\ added' = added \cup {"log"} /\ mpc' = "adddifd"
     \/ Main("adddifd") /\ added' = added \cup {"difd"} /\ mpc' = "boot"
  /\ UNCHANGED <<upc, mm, rbus, conf, exec, cron, on, armed, gone, cb>>

\* Any stage can fail; main() then un-initialises what there is.
InitFails ==
  /\ \E at \in InitStages : Main(at)
  /\ mpc' = "uninit"
  /\ UNCHANGED <<upc, mm, rbus, conf, exec, jobs>>

\* dcmSettingDefaultBoot stores the configuration of the previous boot, if any.
DefaultBoot ==
  /\ Main("boot")
  /\ stored' \in Confs \cup {NoConf}
  /\ mpc' = "wait"
  /\ UNCHANGED <<upc, mm, rbus, parsed, exec, jobs>>

\* main() polls eventSub once a second ...
EventsSubscribed ==
  /\ Main("wait")
  /\ eventSub
  /\ mpc' = "send"
  /\ UNCHANGED <<upc, mm, rbus, conf, exec, jobs>>

\* ... and publishes Reloadconfig once, whether T2 listens to it yet or not
\* (g_eventsub); main does not look at the answer.
SendEvent ==
  /\ Main("send")
  /\ mpc' = "poll"
  /\ UNCHANGED <<upc, mm, rbus, conf, exec, jobs>>

-----------------------------------------------------------------------------
(* The event loop.                                                         *)

StartScheduling ==
  /\ Main("poll")
  /\ schedJob
  /\ mpc' = "parse"
  /\ UNCHANGED <<upc, mm, rbus, conf, exec, jobs>>

\* dcmSettingParseConf up to the first upload: the buffers are overwritten even
\* if the function will fail for want of a DIFD cron.
ParseConf ==
  /\ Main("parse")
  /\ IF confPath \in Readable
       THEN parsed' = confPath /\ mpc' = "upload"
       ELSE UNCHANGED parsed /\ mpc' = "reset"
  /\ owed' = FALSE
  /\ UNCHANGED <<upc, mm, subs, eventSub, schedJob, confPath, stored,
                 exec, jobs>>

\* The uploads of dcmSettingParseConf run in the main thread and take minutes;
\* how many there are depends on UploadOnReboot and on the log upload cron.
UploadsDone ==
  /\ Main("upload")
  /\ mpc' = "store"
  /\ UNCHANGED <<upc, mm, rbus, conf, exec, jobs>>

\* dcmSettingStoreTempConf opens the path again, which is rbus's own buffer: the
\* files are truncated before the JSON is parsed. The status returned is that of
\* the DIFD cron, the last value read.
StoreTempConf ==
  /\ Main("store")
  /\ stored' = IF confPath \in Readable THEN confPath ELSE NoConf
  /\ mpc' = IF DifdCron[parsed] = "missing" THEN "reset" ELSE "startlog"
  /\ UNCHANGED <<upc, mm, rbus, parsed, exec, jobs>>

StageOf(j) == IF j = "log" THEN "startlog" ELSE "startdifd"

\* Variant: the start waits until the run that is armed has happened.
EnterStartOnceFired(j) ==
  /\ Main(StageOf(j))
  /\ MutexFree(j) /\ ~armed[j]
  /\ mpc' = IF j = "log" THEN "inlog" ELSE "indifd"
  /\ UNCHANGED <<upc, mm, rbus, conf, exec, jobs>>

\* dcmSchedStartJob takes the mutex of j ...
EnterStart(j) ==
  /\ Main(StageOf(j))
  /\ MutexFree(j)
  /\ mpc' = IF j = "log" THEN "inlog" ELSE "indifd"
  /\ UNCHANGED <<upc, mm, rbus, conf, exec, jobs>>

\* Variant: a rejected pattern leaves the job as it was.
StartJobKeepsOld(j) ==
  /\ upc = "no" /\ HeldByMain(j)
  /\ LET kind == IF j = "log" THEN LogCron[parsed] ELSE DifdCron[parsed]
     IN  /\ on' = [on EXCEPT ![j] = @ \/ kind = "good"]
         /\ cron' = IF kind = "good" THEN [cron EXCEPT ![j] = parsed] ELSE cron
  /\ mpc' = IF j = "log" THEN "startdifd" ELSE "reset"
  /\ UNCHANGED <<upc, mm, rbus, conf, exec, added, armed, gone, cb>>

\* Variant: the job is started but the pattern is not kept.
StartJobForgetsPattern(j) ==
  /\ upc = "no" /\ HeldByMain(j)
  /\ LET kind == IF j = "log" THEN LogCron[parsed] ELSE DifdCron[parsed]
     IN  on' = [on EXCEPT ![j] = (kind = "good")]
  /\ mpc' = IF j = "log" THEN "startdifd" ELSE "reset"
  /\ UNCHANGED <<upc, mm, rbus, conf, exec, added, cron, armed, gone, cb>>

\* ... starts it if the pattern is good, switches it off if not, and releases.
StartJob(j) ==
  /\ upc = "no" /\ HeldByMain(j)
  /\ LET kind == IF j = "log" THEN LogCron[parsed] ELSE DifdCron[parsed]
     IN  /\ on' = [on EXCEPT ![j] = (kind = "good")]
         /\ cron' = IF kind = "good" THEN [cron EXCEPT ![j] = parsed] ELSE cron
  /\ mpc' = IF j = "log" THEN "startdifd" ELSE "reset"
  /\ UNCHANGED <<upc, mm, rbus, conf, exec, added, armed, gone, cb>>

\* dcmRbusSchedResetStatus, after everything: an event that came meanwhile is lost.
ResetStatus ==
  /\ Main("reset")
  /\ schedJob' = FALSE
  /\ mpc' = "poll"
  /\ UNCHANGED <<upc, mm, subs, eventSub, confPath, owed,
                 conf, exec, jobs>>

-----------------------------------------------------------------------------
(* The rbus thread and T2.                                                 *)

\* rbusAsyncSubCB: either subscription's answer sets the one flag.
SubscriptionAnswered(e) ==
  /\ Alive
  /\ subs[e] = "pending"
  /\ \E ok \in BOOLEAN :
       /\ subs' = [subs EXCEPT ![e] = IF ok THEN "ok" ELSE "failed"]
       /\ eventSub' = ok
  /\ UNCHANGED <<mpc, upc, mm, schedJob, confPath, owed,
                 conf, exec, jobs>>

\* rbusSetConf: strncpy into the buffer main reads.
SetConf(c) ==
  /\ Alive
  /\ subs["setconf"] = "ok"
  /\ confPath' = c
  /\ UNCHANGED <<mpc, upc, mm, subs, eventSub, schedJob, owed,
                 conf, exec, jobs>>

\* rbusProcConf.
ProcConf ==
  /\ Alive
  /\ subs["procconf"] = "ok"
  /\ schedJob' = TRUE
  /\ owed' = TRUE
  /\ UNCHANGED <<mpc, upc, mm, subs, eventSub, confPath, conf, exec,
                 jobs>>

Rbus ==
  \/ \E e \in Events : SubscriptionAnswered(e)
  \/ \E c \in Confs : SetConf(c)
  \/ ProcConf

-----------------------------------------------------------------------------
(* The job threads: the steps ScheduledJob allows, and the callback.       *)

\* Variant: the thread arms a run without taking the mutex or testing the flag.
ArmAnyTime(j) ==
  /\ Alive
  /\ j \in added /\ ~armed[j] /\ ~gone[j] /\ ~running[j]
  /\ armed' = [armed EXCEPT ![j] = TRUE]
  /\ UNCHANGED <<mpc, upc, mm, rbus, conf, exec, added, cron, on, gone, cb>>

Arm(j) ==
  /\ Alive
  /\ on[j] /\ ~armed[j] /\ MutexFree(j)
  /\ armed' = [armed EXCEPT ![j] = TRUE]
  /\ UNCHANGED <<mpc, upc, mm, rbus, conf, exec, added, cron, on, gone, cb>>

Disarm(j) ==
  /\ Alive
  /\ armed[j] /\ ~on[j] /\ MutexFree(j)
  /\ armed' = [armed EXCEPT ![j] = FALSE]
  /\ UNCHANGED <<mpc, upc, mm, rbus, conf, exec, added, cron, on, gone, cb>>

\* The scheduler calls dcmRunJobs, with the mutex held until it returns.
Fire(j) ==
  /\ Alive
  /\ armed[j] /\ ~gone[j] /\ MutexFree(j)
  /\ armed' = [armed EXCEPT ![j] = FALSE]
  /\ cb' = [cb EXCEPT ![j] = "start"]
  /\ UNCHANGED <<mpc, upc, mm, rbus, conf, exec, added, cron, on, gone>>

\* dcmRunJobs reads the settings, and the log job uploads with them. The DIFD job
\* prints its command in pExecBuff, which both jobs share.
CallbackStart(j) ==
  /\ Alive
  /\ cb[j] = "start"
  /\ cb' = [cb EXCEPT ![j] = IF mm THEN "idle" ELSE "work"]
  /\ exec' = IF j = "difd" /\ ~mm /\ exec # "freed" THEN "fwcmd" ELSE exec
  /\ UNCHANGED <<mpc, upc, mm, rbus, conf, added, cron, on, armed, gone>>

\* The common end of dcmRunJobs: pExecBuff is executed, whichever job this is.
CallbackEnd(j) ==
  /\ Alive
  /\ cb[j] = "work"
  /\ cb' = [cb EXCEPT ![j] = "idle"]
  /\ UNCHANGED <<mpc, upc, mm, rbus, conf, exec, added, cron, on, armed, gone>>

Job(j) == Arm(j) \/ Disarm(j) \/ Fire(j) \/ CallbackStart(j) \/ CallbackEnd(j)

-----------------------------------------------------------------------------
(* dcmDaemonMainUnInit, at the end of main() or on top of it.              *)

UnInitAtExit ==
  /\ Main("uninit")
  /\ upc' = "free"
  /\ UNCHANGED <<mpc, mm, rbus, conf, exec, jobs>>

\* sig_handler runs on the main thread, which resumes no more.
Signal ==
  /\ upc = "no"
  /\ mpc \notin {"settings", "uninit"}
  /\ upc' = "free"
  /\ UNCHANGED <<mpc, mm, rbus, conf, exec, jobs>>

\* The PID file, pExecBuff and the settings go first.
FreeBuffers ==
  /\ upc = "free"
  /\ exec' = IF exec = "null" THEN exec ELSE "freed"
  /\ upc' = "bus"
  /\ UNCHANGED <<mpc, mm, rbus, conf, jobs>>

RbusUnInit ==
  /\ upc = "bus"
  /\ subs' = [e \in Events |-> "no"]
  /\ upc' = "stoplog"
  /\ UNCHANGED <<mpc, mm, eventSub, schedJob, confPath, owed, conf,
                 exec, jobs>>

\* The rest of the order: each call, its job and what follows.
Call(op, j) ==
  upc = CASE op = "stop"   -> IF j = "log" THEN "stoplog" ELSE "stopdifd"
          [] op = "remove" -> IF j = "log" THEN "removelog" ELSE "removedifd"
          [] op = "join"   -> IF j = "log" THEN "joinlog" ELSE "joindifd"

After == [stoplog |-> "stopdifd", stopdifd |-> "removelog", removelog |-> "joinlog",
          joinlog |-> "removedifd", removedifd |-> "joindifd", joindifd |-> "done"]

\* Each scheduler call returns at once on a NULL handle.
SkipNoHandle ==
  /\ \E op \in {"stop", "remove", "join"}, j \in Jobs \ added : Call(op, j)
  /\ upc' = After[upc]
  /\ UNCHANGED <<mpc, mm, rbus, conf, exec, jobs>>

StopJob(j) ==
  /\ Call("stop", j) /\ j \in added
  /\ MutexFree(j)
  /\ on' = [on EXCEPT ![j] = FALSE]
  /\ upc' = After[upc]
  /\ UNCHANGED <<mpc, mm, rbus, conf, exec, added, cron, armed, gone, cb>>

RemoveJob(j) ==
  /\ Call("remove", j) /\ j \in added
  /\ MutexFree(j)
  /\ on' = [on EXCEPT ![j] = FALSE]
  /\ gone' = [gone EXCEPT ![j] = TRUE]
  /\ upc' = After[upc]
  /\ UNCHANGED <<mpc, mm, rbus, conf, exec, added, cron, armed, cb>>

\* pthread_join: the thread leaves its wait and exits.
JoinJob(j) ==
  /\ Call("join", j) /\ j \in added
  /\ ~armed[j] /\ ~running[j]
  /\ upc' = After[upc]
  /\ UNCHANGED <<mpc, mm, rbus, conf, exec, jobs>>

UnInit ==
  \/ UnInitAtExit \/ FreeBuffers \/ RbusUnInit \/ SkipNoHandle
  \/ \E j \in Jobs : StopJob(j) \/ RemoveJob(j) \/ JoinJob(j)

-----------------------------------------------------------------------------
\* Main's steps that wait for nobody's mutex.
MainRuns ==
  \/ InitSettings \/ InitRbus \/ GetT2Version \/ Subscribe \/ AllocBuffer \/ AddJobs
  \/ DefaultBoot
  \/ EventsSubscribed \/ SendEvent
  \/ StartScheduling \/ ParseConf \/ UploadsDone \/ StoreTempConf
  \/ \E j \in Jobs : StartJob(j)
  \/ ResetStatus

Next ==
  \/ MainRuns \/ (\E j \in Jobs : EnterStart(j)) \/ InitFails
  \/ Rbus \/ (\E j \in Jobs : Job(j)) \/ UnInit \/ Signal

Spec == Init /\ [][Next]_vars

(***************************************************************************)
(* Fairness. Main and the handler are scheduled; a callback returns, since *)
(* an upload's attempts are bounded and each has a timeout; a job thread   *)
(* told to stop leaves its wait (DcmScheduler, CallsReturn); a mutex       *)
(* that becomes free again and again is obtained in the end. T2 and the    *)
(* user who sends a signal owe nothing.                                    *)
(***************************************************************************)
Fairness ==
  /\ WF_vars(MainRuns)
  /\ SF_vars(\E j \in Jobs : EnterStart(j))
  /\ SF_vars(UnInit)
  /\ \A j \in Jobs : /\ WF_vars(CallbackStart(j) \/ CallbackEnd(j))
                     /\ SF_vars(Disarm(j))

FairSpec == Spec /\ Fairness

-----------------------------------------------------------------------------
(* Properties.                                                             *)

Starting == mpc \in StartStages

\* Both scheduled jobs follow one configuration: the main thread never waits for
\* events with the log job on one and the firmware check on another, although it
\* starts them one by one, may find either pattern rejected, and may give up
\* between parsing and starting.
JobsFollowOneConf ==
  ~Starting /\ on["log"] /\ on["difd"] => cron["log"] = cron["difd"]

\* The daemon drives its two jobs as ScheduledJob allows: never started or
\* stopped in a callback, never used once removed. DcmScheduler keeps its
\* promise to any such client. The process exits only when neither job can run
\* any more.
Contract(j) == INSTANCE ScheduledJob
                 WITH on <- on[j], armed <- armed[j], running <- running[j], gone <- gone[j]

JobsKeepPromise ==
  /\ \A j \in Jobs : Contract(j)!Init
  /\ [][\A j \in Jobs : [Contract(j)!Next]_(Contract(j)!job)]_vars
  /\ [](upc = "done" => \A j \in added : gone[j] /\ ~running[j] /\ ~armed[j])

\* The main thread always comes back to its events: no callback, however often
\* its job fires, keeps the mutex main needs for ever. Nor does it get stuck when
\* its initialisation fails: that is cleaned up and the process exits, whatever
\* stage had been reached and with T2's events still coming in.
MainComesBack ==
  /\ (mpc = "parse") ~> (mpc = "poll" \/ upc # "no")
  /\ (mpc = "uninit") ~> (upc = "done")

\* README.md:38: "On receiving a Device.DCM.Processconfig event, parses the DCM
\* settings file and starts/restarts the scheduled jobs". After an event the
\* path is read, unless the daemon shuts down.
EventIsServed == owed ~> (~owed \/ upc # "no")
=============================================================================
