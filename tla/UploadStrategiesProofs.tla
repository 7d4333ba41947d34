------------------------- MODULE UploadStrategiesProofs -------------------------
(***************************************************************************)
(* For any number of boots, of runs and of permanent directories, whichever *)
(* phase of a run fails, and wherever it is killed: what is said of a run  *)
(* is true, no log is lost that the disk could keep, a run that ends       *)
(* leaves no working files, and what a batching run owes is on the list.   *)
(* At the end: what the gates of the reboot strategy (SyncGates) conclude  *)
(* of their sentinels.                                                     *)
(***************************************************************************)
EXTENDS UploadStrategies, SyncGates, TLAPS

RunType ==
  [who : Processes, strategy : Strategies, batching : BOOLEAN, located : BOOLEAN,
   success : BOOLEAN, ret : {0, -1}, exit : {0, 1}, status : Statuses]

LogsType == [base : SUBSET Boots, bak : SUBSET Boots, own : SUBSET Boots, old : SUBSET Boots]
StaticsType == [Processes -> [path : Dirs \cup {NoDir}, prefix : BOOLEAN]]
Events == {"success", "failed", "complete", "error", "lost"}

(***************************************************************************)
(* Where a run can be, by its strategy.                                    *)
(***************************************************************************)
Setup == {"start", "gate", "look", "prepare", "copy", "flag", "batch", "collect"}

InPlace ==
  /\ pc \in {"gate", "prepare", "dri", "keep", "enlist"} => run.strategy = "reboot"
  /\ pc \in {"copy", "flag", "batch"} => run.strategy = "dcm"
  /\ pc = "look" => run.strategy \in {"reboot", "ondemand"}
  /\ pc = "collect" => run.strategy \in {"ondemand", "now"}
  /\ pc \in {"archive", "upload", "cleanup"} =>
       run.strategy \in {"reboot", "dcm", "ondemand", "now"}
  /\ pc = "enlist" => Path \in Dirs

TypeInv == TypeOK /\ InPlace

(***************************************************************************)
(* What is true of the outcome: nothing is decided before the upload, and  *)
(* a run that has succeeded has sent and told it, and goes on telling.     *)
(***************************************************************************)
Undecided ==
  /\ pc \notin NoRun => run.exit = 1
  /\ pc \in Setup \cup {"archive", "upload"} => ~run.success /\ run.ret = 0
  /\ pc = "start" => run.status = "none" /\ packed = {}

SuccessIsTold ==
  run.success =>
    /\ packed \subseteq sent
    /\ run.strategy # "now" =>
         Told("success") /\ (Announces /\ run.strategy # "rrd" => Told("complete"))

\* The upload on request says at its end what its status file says.
Satisfied == {"Complete", "No files to upload"}

RequestIsTold ==
  run.strategy = "now" =>
    /\ packed = {}
    /\ pc = "cleanup" => IF run.ret = 0 THEN run.status \in Satisfied ELSE run.status \notin Satisfied
    /\ pc = "over" => IF run.exit = 0 THEN run.status \in Satisfied ELSE run.status \notin Satisfied

ExitIsEarned ==
  (pc = "over" /\ run.exit = 0) => run.success \/ run.strategy \in {"privacy", "now"}

OutcomeInv == Undecided /\ SuccessIsTold /\ RequestIsTold /\ ExitIsEarned

(***************************************************************************)
(* What is in PreviousLogs: stamps of this run only, which it knows of, and *)
(* only once the sentinel was there; before, no process has a directory.   *)
(***************************************************************************)
StampsAreKnown ==
  prev.own # {} =>
    /\ pc \in {"archive", "upload", "dri", "cleanup"} /\ run.strategy = "reboot"
    /\ statics[run.who].prefix /\ done

GateIsKept ==
  /\ (pc \in {"look", "prepare", "archive", "upload", "dri"} /\ run.strategy = "reboot") => done
  /\ ~done => \A p \in Processes : statics[p].path = NoDir

LogsInv == StampsAreKnown /\ GateIsKept

\* Whose the working files are, and that the cleanup will find them.
FilesHaveOwners ==
  trouble = {} =>
    /\ prev.old = {}
    /\ "tar" \in left =>
         /\ run.strategy = "reboot"
         /\ pc = "upload" \/ (pc \in {"dri", "cleanup"} /\ run.located)
    /\ "dcm" \in left =>
         \/ run.strategy = "dcm" /\ pc \in {"flag", "batch", "archive", "upload", "cleanup"}
         \/ run.strategy = "now" /\ pc \in {"collect", "archive", "upload", "cleanup"}
    /\ "ondemand" \in left =>
         run.strategy = "ondemand" /\ pc \in {"collect", "archive", "upload", "cleanup"}

\* The directory a batching run has named and not yet put on the list.
Promised ==
  IF run.strategy = "reboot" /\ run.batching
       /\ pc \in {"archive", "upload", "dri", "cleanup", "keep", "enlist"}
  THEN {Path} ELSE {}

OwedIsPromised == trouble = {} => owed \subseteq list \cup Promised

TidyInv == FilesHaveOwners /\ OwedIsPromised

-----------------------------------------------------------------------------
(* The messages of a run, each of which may get lost.                      *)

LEMMA SentTells ==
  ASSUME NEW told, NEW event, NEW after \in Sent(told, event)
  PROVE  after = told \cup {event} \/ after = told \cup {"lost"}
  BY DEF Sent

LEMMA BothTell ==
  ASSUME NEW event, NEW maintenance, NEW after \in SendBoth(event, maintenance)
  PROVE  \E e \in {event, "lost"}, m \in {maintenance, "lost"} : after = events \cup {e, m}
<1>1. PICK told \in send_iarm_event(event) : after \in Sent(told, maintenance)
  BY DEF SendBoth
<1>2. PICK e \in {event, "lost"} : told = events \cup {e}
  BY SentTells DEF send_iarm_event
<1>3. PICK m \in {maintenance, "lost"} : after = told \cup {m}
  BY <1>1, SentTells
<1>4. after = events \cup {e, m}
  BY <1>2, <1>3
<1> QED
  BY <1>4

\* What the engine tells of an outcome.
Tells(before, after) == before \subseteq after /\ after \subseteq before \cup Events

LEMMA OutcomeTells ==
  ASSUME NEW ok \in BOOLEAN, NEW after \in Outcome(ok)
  PROVE  /\ Tells(events, after)
         /\ (ok /\ run.strategy # "now") =>
              /\ "success" \in after \/ "lost" \in after
              /\ (Announces /\ run.strategy # "rrd") => "complete" \in after \/ "lost" \in after
<1> DEFINE event == IF ok THEN "success" ELSE "failed"
           maintenance == IF ok THEN "complete" ELSE "error"
<1>1. CASE run.strategy = "now"
  BY <1>1 DEF Outcome, Tells
<1>2. CASE run.strategy # "now" /\ (~Announces \/ (ok /\ run.strategy = "rrd"))
  <2>1. after \in Sent(events, event)
    BY <1>2 DEF Outcome, send_iarm_event
  <2>2. after = events \cup {event} \/ after = events \cup {"lost"}
    BY <2>1, SentTells
  <2> QED
    BY <1>2, <2>2 DEF Tells, Events
<1>3. CASE run.strategy # "now" /\ ~(~Announces \/ (ok /\ run.strategy = "rrd"))
  <2>1. after \in SendBoth(event, maintenance)
    BY <1>3 DEF Outcome
  <2> HIDE DEF event, maintenance
  <2>2. PICK e \in {event, "lost"}, m \in {maintenance, "lost"} : after = events \cup {e, m}
    BY <2>1, BothTell
  <2> QED
    BY <1>3, <2>2 DEF Tells, Events, event, maintenance
<1> QED
  BY <1>1, <1>2, <1>3

LEMMA AbortsTell ==
  /\ \A after \in emit_privacy_abort : Tells(events, after)
  /\ \A after \in emit_folder_missing_error : Tells(events, after)
  /\ \A after \in emit_upload_aborted : Tells(events, after)
  /\ \A after \in NothingToUpload : Tells(events, after)
<1>1. \A after \in send_iarm_event_maintenance("complete") : Tells(events, after)
  BY SentTells DEF send_iarm_event_maintenance, Tells, Events
<1>2. ASSUME NEW after \in emit_upload_aborted PROVE Tells(events, after)
  <2>1. PICK e \in {"failed", "lost"}, m \in {"error", "lost"} : after = events \cup {e, m}
    BY BothTell DEF emit_upload_aborted
  <2> QED
    BY <2>1 DEF Tells, Events
<1>3. \A after \in NothingToUpload : Tells(events, after)
  BY <1>1 DEF NothingToUpload, Tells
<1> QED
  BY <1>1, <1>2, <1>3 DEF emit_privacy_abort, emit_folder_missing_error

-----------------------------------------------------------------------------
(* How a run begins.                                                       *)

Beginning(r) ==
  /\ r \in RunType
  /\ ~r.success /\ r.ret = 0 /\ r.exit = 1 /\ r.status = "none" /\ ~r.located

LEMMA NewRunBegins ==
  ASSUME NEW who \in Processes, NEW call, NEW strategy \in Strategies
  PROVE  Beginning(NewRun(who, call, strategy))
  BY DEF NewRun, Beginning, RunType, Strategies, Statuses, Processes

LEMMA NobodyBegins == Beginning(Nobody)
  BY NewRunBegins DEF Nobody, Processes, Strategies

LEMMA RunsBegin == \A b \in Beginnings : Beginning(b.run)
<1> SUFFICES ASSUME NEW b \in Beginnings PROVE Beginning(b.run)
  OBVIOUS
<1>0. PICK type \in Types, who \in Processes :
        b \in {[type |-> type,
               run |-> NewRun(who, call, IF call.now THEN "now" ELSE EarlyChecks(type, call, private))] :
                 call \in Calls(who), private \in load_tr181_params}
  BY DEF Beginnings
<1>1. PICK call \in Calls(who), private \in load_tr181_params :
        b = [type |-> type,
             run |-> NewRun(who, call, IF call.now THEN "now" ELSE EarlyChecks(type, call, private))]
  BY <1>0
<1>2. (IF call.now THEN "now" ELSE EarlyChecks(type, call, private)) \in Strategies
  BY DEF EarlyChecks, Strategies
<1>3. b.run = NewRun(who, call, IF call.now THEN "now" ELSE EarlyChecks(type, call, private))
  BY <1>1
<1> QED
  BY <1>2, <1>3, NewRunBegins

-----------------------------------------------------------------------------
LEMMA InitTypes == Init => TypeInv
<1> SUFFICES ASSUME Init PROVE TypeInv
  OBVIOUS
<1>1. run \in RunType
  BY NobodyBegins DEF Init, Beginning
<1>2. device \in [type : Types, maintained : BOOLEAN]
  BY DEF Init, load_environment
<1>3. boot \in Boots /\ runs \in 0 .. MaxRuns
  BY StrategiesAssumption DEF Init, Boots
<1>4. TypeOK
  BY <1>1, <1>2, <1>3 DEF Init, TypeOK, RunType, NoLogs, NoRun, FreshStatics
<1>5. InPlace
  BY DEF Init, InPlace
<1> QED
  BY <1>4, <1>5 DEF TypeInv

\* A process that stamps remembers it.
LEMMA StampingIsKept ==
  ASSUME TypeOK
  PROVE  [statics EXCEPT ![run.who].prefix = TRUE]
           \in [Processes -> [path : Dirs \cup {NoDir}, prefix : BOOLEAN]]
<1>1. statics \in [Processes -> [path : Dirs \cup {NoDir}, prefix : BOOLEAN]] /\ run.who \in Processes
  BY DEF TypeOK
<1>2. [statics[run.who] EXCEPT !.prefix = TRUE] \in [path : Dirs \cup {NoDir}, prefix : BOOLEAN]
  BY <1>1
<1> QED
  BY <1>1, <1>2

LEMMA StepTypes == TypeInv /\ [Next]_vars => TypeOK'
<1> SUFFICES ASSUME TypeOK, InPlace, [Next]_vars PROVE TypeOK'
  BY DEF TypeInv
<1> USE DEF TypeOK, NoRun, files, history
<1>1. ASSUME NEW p \in Processes, Start(p) PROVE TypeOK'
  <2>1. run' \in RunType
    BY <1>1, RunsBegin DEF Start, Beginning
  <2>2. runs' \in 0 .. MaxRuns
    BY <1>1, StrategiesAssumption DEF Start
  <2>3. statics' \in [Processes -> [path : Dirs \cup {NoDir}, prefix : BOOLEAN]]
    BY <1>1 DEF Start, FreshStatics
  <2> QED
    BY <1>1, <2>1, <2>2, <2>3 DEF Start, RunType
<1>2. CASE NoContext
  BY <1>2 DEF NoContext
<1>3. CASE Rejected
  BY <1>3, AbortsTell DEF Rejected, Tells, Events
<1>4. CASE Privacy
  BY <1>4, AbortsTell DEF Privacy, Tells, Events
<1>5. CASE Rrd
  <2>1. CASE UNCHANGED <<run, events>>
    BY <1>5, <2>1 DEF Rrd
  <2>2. ASSUME NEW ok \in BOOLEAN, events' \in Outcome(ok),
               run' = [run EXCEPT !.success = ok, !.exit = IF ok THEN 0 ELSE 1]
        PROVE  TypeOK'
    <3>1. run' \in RunType
      BY <2>2 DEF RunType
    <3>2. events' \subseteq Events
      BY <2>2, OutcomeTells DEF Tells, Events
    <3> QED
      BY <1>5, <3>1, <3>2 DEF Rrd, RunType, Events
  <2> QED
    BY <1>5, <2>1, <2>2 DEF Rrd
<1>6. CASE Workflow
  <2>1. pc' \in {"gate", "look", "copy"}
    BY <1>6 DEF Workflow
  <2> QED
    BY <1>6, <2>1 DEF Workflow, CleanupOldArchives
<1>7. CASE Gate
  BY <1>7 DEF Gate, FailPhase
<1>8. CASE LookReboot
  BY <1>8, AbortsTell DEF LookReboot, FailPhase, Tells, Events
<1>9. CASE LookOndemand
  BY <1>9, AbortsTell DEF LookOndemand, FailPhase, Tells, Events
<1>10. CASE collect_logs
  BY <1>10 DEF collect_logs, FailPhase
<1>11. ASSUME NEW d \in Dirs, Prepare(d) PROVE TypeOK'
  BY <1>11, ZenonT(60) DEF Prepare, CleanupOldLogBackups
<1>12. CASE Copy
  <2>1. (IF run.batching THEN copy_opt_logs_files ELSE copy_all_files_to_dcm) \subseteq Boots
    BY DEF copy_opt_logs_files, copy_all_files_to_dcm
  <2> QED
    BY <1>12, <2>1 DEF Copy, FailPhase
<1>13. CASE dcm_setup
  <2>1. statics' \in [Processes -> [path : Dirs \cup {NoDir}, prefix : BOOLEAN]]
    BY <1>13, StampingIsKept DEF dcm_setup
  <2> QED
    BY <1>13, <2>1 DEF dcm_setup, FailPhase
<1>14. CASE ReadList
  BY <1>14 DEF ReadList
<1>15. CASE RequestSetup
  BY <1>15, ZenonT(60) DEF RequestSetup, write_upload_status, Statuses
<1>16. CASE RequestCopy
  <2>1. statics' \in [Processes -> [path : Dirs \cup {NoDir}, prefix : BOOLEAN]]
    BY <1>16, StampingIsKept DEF RequestCopy, add_timestamp_to_files_uploadlogsnow
  <2>2. run' \in RunType /\ pc' \in {"cleanup", "archive"}
    BY <1>16, ZenonT(60) DEF RequestCopy, Fails, write_upload_status, RunType, Statuses
  <2> QED
    BY <1>16, <2>1, <2>2 DEF RequestCopy, RunType
<1>17. CASE RequestEnds
  BY <1>17 DEF RequestEnds, Disk
<1>18. CASE ArchiveDcm
  BY <1>18 DEF ArchiveDcm, create_archive, FailPhase
<1>19. CASE ArchiveOndemand
  BY <1>19 DEF ArchiveOndemand, create_archive, FailPhase
<1>20. CASE ArchiveRequest
  BY <1>20, ZenonT(60) DEF ArchiveRequest, create_archive, Fails, Statuses
<1>21. CASE ArchivePrevious
  <2>1. PreviousLogs \subseteq Boots
    BY DEF PreviousLogs
  <2> QED
    BY <1>21, <2>1 DEF ArchivePrevious, FailPhase
<1>22. CASE Refuse
  BY <1>22, AbortsTell DEF Refuse, Tells, Events
<1>23. CASE Dri
  BY <1>23, OutcomeTells, ZenonT(60) DEF Dri, Tells, Events
<1>24. ASSUME NEW ok \in BOOLEAN, UploadDcm(ok) PROVE TypeOK'
  BY <1>24, OutcomeTells DEF UploadDcm, upload_archive, Uploaded, Tells, Events
<1>25. ASSUME NEW ok \in BOOLEAN, UploadOndemand(ok) PROVE TypeOK'
  BY <1>25, OutcomeTells DEF UploadOndemand, upload_archive, Uploaded, Tells, Events
<1>26. ASSUME NEW ok \in BOOLEAN, UploadPrevious(ok) PROVE TypeOK'
  BY <1>26, OutcomeTells DEF UploadPrevious, upload_archive, Uploaded, Tells, Events
<1>27. ASSUME NEW ok \in BOOLEAN, UploadRequest(ok) PROVE TypeOK'
  BY <1>27, OutcomeTells DEF UploadRequest, upload_archive, Uploaded, Tells, Events, Statuses
<1>28. CASE dcm_cleanup
  BY <1>28, ZenonT(60) DEF dcm_cleanup, remove_directory, Exit, Disk
<1>29. CASE ondemand_cleanup
  BY <1>29, ZenonT(60) DEF ondemand_cleanup, remove_directory, Exit, Disk
<1>30. CASE Restore
  <2>1. prev' \in [base : SUBSET Boots, bak : SUBSET Boots, own : SUBSET Boots, old : SUBSET Boots]
    <3>1. CASE statics[run.who].prefix
      <4>1. prev' = [prev EXCEPT !.base = prev.base \cup prev.own, !.own = {}]
        BY <1>30, <3>1 DEF Restore, Restored
      <4> QED
        BY <4>1
    <3>2. CASE ~statics[run.who].prefix /\ prev.old = {}
      BY <1>30, <3>2 DEF Restore, Restored
    <3>3. CASE ~statics[run.who].prefix /\ prev.old # {}
      <4>1. PICK b \in prev.old : prev' = [prev EXCEPT !.base = {b}, !.old = {}]
        BY <1>30, <3>3 DEF Restore, Restored
      <4>2. {b} \in SUBSET Boots
        BY <4>1
      <4> QED
        BY <4>1, <4>2
    <3> QED
      BY <3>1, <3>2, <3>3
  <2> QED
    BY <1>30, <2>1 DEF Restore
<1>31. CASE NoPermanentDir
  BY <1>31 DEF NoPermanentDir, Exit, Disk
<1>32. CASE Keep
  <2>1. PICK moved \in SUBSET PreviousLogs :
          perm' = [perm EXCEPT ![Path] = @ \cup moved] /\ Disk(moved # PreviousLogs)
    BY <1>32 DEF Keep
  <2>2. perm' \in [Dirs -> SUBSET Boots]
    <3>1. moved \subseteq Boots /\ Path \in Dirs
      BY <1>32 DEF Keep, PreviousLogs, Path
    <3> QED
      BY <2>1, <3>1
  <2>3. trouble' \subseteq {"kill", "disk"}
    BY <2>1 DEF Disk
  <2> QED
    BY <1>32, <2>2, <2>3 DEF Keep, NoLogs
<1>33. CASE Enlist
  BY <1>33 DEF Enlist, Exit, InPlace, Path
<1>34. CASE Assemble
  BY <1>34 DEF Assemble
<1>35. CASE MakeSentinel
  BY <1>35 DEF MakeSentinel
<1>36. CASE Kill
  BY <1>36, NobodyBegins DEF Kill, Abandon, FreshStatics, Beginning, RunType
<1>37. CASE Reboot
  <2>1. boot' \in Boots
    BY <1>37, StrategiesAssumption DEF Reboot, Boots
  <2>2. run' \in RunType
    BY <1>37, NobodyBegins DEF Reboot, Abandon, Beginning
  <2>3. prev' \in [base : SUBSET Boots, bak : SUBSET Boots, own : SUBSET Boots, old : SUBSET Boots]
    BY <1>37 DEF Reboot, Abandon
  <2> QED
    BY <1>37, <2>1, <2>2, <2>3 DEF Reboot, Abandon, FreshStatics, RunType
<1>38. CASE UNCHANGED vars
  BY <1>38 DEF vars
<1> QED
  BY <1>1, <1>2, <1>3, <1>4, <1>5, <1>6, <1>7, <1>8, <1>9, <1>10, <1>11, <1>12, <1>13, <1>14,
     <1>15, <1>16, <1>17, <1>18, <1>19, <1>20, <1>21, <1>22, <1>23, <1>24, <1>25, <1>26,
     <1>27, <1>28, <1>29, <1>30, <1>31, <1>32, <1>33, <1>34, <1>35, <1>36, <1>37, <1>38
     DEF Next, Run

LEMMA RunFields == TypeOK => run \in RunType
  BY DEF TypeOK, RunType

LEMMA LogFields == TypeOK => prev \in LogsType /\ statics \in StaticsType
  BY DEF TypeOK, LogsType, StaticsType

LEMMA StepPlace == TypeInv /\ [Next]_vars => InPlace'
<1> SUFFICES ASSUME InPlace, run \in RunType, TypeOK, [Next]_vars PROVE InPlace'
  BY RunFields DEF TypeInv
<1> USE DEF InPlace, RunType, NoRun, files, history, Path
<1>1. ASSUME NEW p \in Processes, Start(p) PROVE InPlace'
  BY <1>1, RunsBegin DEF Start, FreshStatics, Beginning, RunType
<1>2. CASE NoContext
  BY <1>2 DEF NoContext
<1>3. CASE Rejected
  BY <1>3 DEF Rejected, Tells, Events
<1>4. CASE Privacy
  BY <1>4 DEF Privacy, Tells, Events
<1>5. CASE Rrd
  BY <1>5 DEF Rrd, Tells, Events
<1>6. CASE Workflow
  BY <1>6 DEF Workflow
<1>7. CASE Gate
  BY <1>7 DEF Gate, FailPhase
<1>8. CASE LookReboot
  BY <1>8 DEF LookReboot, FailPhase, Tells, Events
<1>9. CASE LookOndemand
  BY <1>9 DEF LookOndemand, FailPhase, Tells, Events
<1>10. CASE collect_logs
  BY <1>10 DEF collect_logs, FailPhase
<1>11. ASSUME NEW d \in Dirs, Prepare(d) PROVE InPlace'
  BY <1>11 DEF Prepare, CleanupOldLogBackups
<1>12. CASE Copy
  BY <1>12 DEF Copy, FailPhase
<1>13. CASE dcm_setup
  BY <1>13 DEF dcm_setup, FailPhase
<1>14. CASE ReadList
  BY <1>14 DEF ReadList
<1>15. CASE RequestSetup
  BY <1>15 DEF RequestSetup, write_upload_status, Statuses
<1>16. CASE RequestCopy
  BY <1>16 DEF RequestCopy, Fails, write_upload_status, add_timestamp_to_files_uploadlogsnow,
     Statuses
<1>17. CASE RequestEnds
  BY <1>17 DEF RequestEnds, Disk
<1>18. CASE ArchiveDcm
  BY <1>18 DEF ArchiveDcm, create_archive, FailPhase
<1>19. CASE ArchiveOndemand
  BY <1>19 DEF ArchiveOndemand, create_archive, FailPhase
<1>20. CASE ArchiveRequest
  BY <1>20 DEF ArchiveRequest, create_archive, Fails, Statuses
<1>21. CASE ArchivePrevious
  BY <1>21 DEF ArchivePrevious, FailPhase
<1>22. CASE Refuse
  BY <1>22 DEF Refuse, Tells, Events
<1>23. CASE Dri
  BY <1>23 DEF Dri, Tells, Events
<1>24. ASSUME NEW ok \in BOOLEAN, UploadDcm(ok) PROVE InPlace'
  BY <1>24 DEF UploadDcm, upload_archive, Uploaded, Tells, Events
<1>25. ASSUME NEW ok \in BOOLEAN, UploadOndemand(ok) PROVE InPlace'
  BY <1>25 DEF UploadOndemand, upload_archive, Uploaded, Tells, Events
<1>26. ASSUME NEW ok \in BOOLEAN, UploadPrevious(ok) PROVE InPlace'
  BY <1>26 DEF UploadPrevious, upload_archive, Uploaded, Tells, Events
<1>27. ASSUME NEW ok \in BOOLEAN, UploadRequest(ok) PROVE InPlace'
  BY <1>27 DEF UploadRequest, upload_archive, Uploaded, Tells, Events, Statuses
<1>28. CASE dcm_cleanup
  BY <1>28 DEF dcm_cleanup, remove_directory, Exit, Disk
<1>29. CASE ondemand_cleanup
  BY <1>29 DEF ondemand_cleanup, remove_directory, Exit, Disk
<1>30. CASE Restore
  BY <1>30 DEF Restore, Restored
<1>31. CASE NoPermanentDir
  BY <1>31 DEF NoPermanentDir, Exit, Disk
<1>32. CASE Keep
  <2>1. Path \in Dirs
    BY <1>32 DEF Keep, TypeOK
  <2> QED
    BY <1>32, <2>1 DEF Keep
<1>33. CASE Enlist
  BY <1>33 DEF Enlist
<1>34. CASE Assemble
  BY <1>34 DEF Assemble
<1>35. CASE MakeSentinel
  BY <1>35 DEF MakeSentinel
<1>36. CASE Kill
  BY <1>36, NobodyBegins DEF Kill, Abandon, FreshStatics, Beginning, RunType
<1>37. CASE Reboot
  BY <1>37, NobodyBegins DEF Reboot, Abandon, FreshStatics, Beginning, RunType
<1>38. CASE UNCHANGED vars
  BY <1>38 DEF vars
<1> QED
  BY <1>1, <1>2, <1>3, <1>4, <1>5, <1>6, <1>7, <1>8, <1>9, <1>10, <1>11, <1>12, <1>13, <1>14,
     <1>15, <1>16, <1>17, <1>18, <1>19, <1>20, <1>21, <1>22, <1>23, <1>24, <1>25, <1>26,
     <1>27, <1>28, <1>29, <1>30, <1>31, <1>32, <1>33, <1>34, <1>35, <1>36, <1>37, <1>38
     DEF Next, Run

LEMMA TypesInductive == TypeInv /\ [Next]_vars => TypeInv'
  BY StepTypes, StepPlace DEF TypeInv

\* The files, the statics and the run stay in their ranges, and a run that has moved its
\* logs knows where: it exits with 0 or 1, whatever its workflow returned.
THEOREM TypeCorrect == Spec => []TypeOK
<1>1. TypeInv => TypeOK
  BY DEF TypeInv
<1> QED
  BY <1>1, InitTypes, TypesInductive, PTL DEF Spec

-----------------------------------------------------------------------------
LEMMA InitOutcome == Init => OutcomeInv
  BY NobodyBegins DEF Init, Beginning, OutcomeInv, Undecided, SuccessIsTold, RequestIsTold,
     ExitIsEarned, Setup, Satisfied, NoRun, Nobody, NewRun

LEMMA StepUndecided == TypeInv /\ OutcomeInv /\ [Next]_vars => Undecided'
<1> SUFFICES ASSUME InPlace, run \in RunType, Undecided, [Next]_vars PROVE Undecided'
  BY RunFields DEF TypeInv, OutcomeInv
<1> USE DEF InPlace, RunType, Undecided, Setup, NoRun, files, history
<1>1. ASSUME NEW p \in Processes, Start(p) PROVE Undecided'
  BY <1>1, RunsBegin DEF Start, FreshStatics, Beginning
<1>2. CASE NoContext
  BY <1>2 DEF NoContext
<1>3. CASE Rejected
  BY <1>3, AbortsTell DEF Rejected, Tells, Events
<1>4. CASE Privacy
  BY <1>4, AbortsTell DEF Privacy, Tells, Events
<1>5. CASE Rrd
  BY <1>5, OutcomeTells DEF Rrd, Tells, Events
<1>6. CASE Workflow
  BY <1>6 DEF Workflow
<1>7. CASE Gate
  BY <1>7 DEF Gate, FailPhase
<1>8. CASE LookReboot
  BY <1>8, AbortsTell DEF LookReboot, FailPhase, Tells, Events
<1>9. CASE LookOndemand
  BY <1>9, AbortsTell DEF LookOndemand, FailPhase, Tells, Events
<1>10. CASE collect_logs
  BY <1>10 DEF collect_logs, FailPhase
<1>11. ASSUME NEW d \in Dirs, Prepare(d) PROVE Undecided'
  BY <1>11 DEF Prepare, CleanupOldLogBackups
<1>12. CASE Copy
  BY <1>12 DEF Copy, FailPhase
<1>13. CASE dcm_setup
  BY <1>13 DEF dcm_setup, FailPhase
<1>14. CASE ReadList
  BY <1>14 DEF ReadList
<1>15. CASE RequestSetup
  BY <1>15 DEF RequestSetup, write_upload_status, Statuses
<1>16. CASE RequestCopy
  BY <1>16 DEF RequestCopy, Fails, write_upload_status, add_timestamp_to_files_uploadlogsnow,
     Statuses
<1>17. CASE RequestEnds
  BY <1>17 DEF RequestEnds, Disk
<1>18. CASE ArchiveDcm
  BY <1>18 DEF ArchiveDcm, create_archive, FailPhase
<1>19. CASE ArchiveOndemand
  BY <1>19 DEF ArchiveOndemand, create_archive, FailPhase
<1>20. CASE ArchiveRequest
  BY <1>20 DEF ArchiveRequest, create_archive, Fails, Statuses
<1>21. CASE ArchivePrevious
  BY <1>21 DEF ArchivePrevious, FailPhase
<1>22. CASE Refuse
  BY <1>22, AbortsTell DEF Refuse, Tells, Events
<1>23. CASE Dri
  BY <1>23, OutcomeTells DEF Dri, Tells, Events
<1>24. ASSUME NEW ok \in BOOLEAN, UploadDcm(ok) PROVE Undecided'
  BY <1>24, OutcomeTells DEF UploadDcm, upload_archive, Uploaded, Tells, Events
<1>25. ASSUME NEW ok \in BOOLEAN, UploadOndemand(ok) PROVE Undecided'
  BY <1>25, OutcomeTells DEF UploadOndemand, upload_archive, Uploaded, Tells, Events
<1>26. ASSUME NEW ok \in BOOLEAN, UploadPrevious(ok) PROVE Undecided'
  BY <1>26, OutcomeTells DEF UploadPrevious, upload_archive, Uploaded, Tells, Events
<1>27. ASSUME NEW ok \in BOOLEAN, UploadRequest(ok) PROVE Undecided'
  BY <1>27, OutcomeTells DEF UploadRequest, upload_archive, Uploaded, Tells, Events, Statuses
<1>28. CASE dcm_cleanup
  BY <1>28 DEF dcm_cleanup, remove_directory, Exit, Disk
<1>29. CASE ondemand_cleanup
  BY <1>29 DEF ondemand_cleanup, remove_directory, Exit, Disk
<1>30. CASE Restore
  BY <1>30 DEF Restore, Restored
<1>31. CASE NoPermanentDir
  BY <1>31 DEF NoPermanentDir, Exit, Disk
<1>32. CASE Keep
  BY <1>32 DEF Keep, Disk
<1>33. CASE Enlist
  BY <1>33 DEF Enlist, Exit, InPlace, Path
<1>34. CASE Assemble
  BY <1>34 DEF Assemble
<1>35. CASE MakeSentinel
  BY <1>35 DEF MakeSentinel
<1>36. CASE Kill
  BY <1>36, NobodyBegins DEF Kill, Abandon, FreshStatics, Beginning
<1>37. CASE Reboot
  BY <1>37, NobodyBegins DEF Reboot, Abandon, FreshStatics, Beginning
<1>38. CASE UNCHANGED vars
  BY <1>38 DEF vars
<1> QED
  BY <1>1, <1>2, <1>3, <1>4, <1>5, <1>6, <1>7, <1>8, <1>9, <1>10, <1>11, <1>12, <1>13, <1>14,
     <1>15, <1>16, <1>17, <1>18, <1>19, <1>20, <1>21, <1>22, <1>23, <1>24, <1>25, <1>26,
     <1>27, <1>28, <1>29, <1>30, <1>31, <1>32, <1>33, <1>34, <1>35, <1>36, <1>37, <1>38
     DEF Next, Run

LEMMA StepTold == TypeInv /\ OutcomeInv /\ [Next]_vars => SuccessIsTold'
<1> SUFFICES ASSUME InPlace, run \in RunType, Undecided, SuccessIsTold, [Next]_vars PROVE SuccessIsTold'
  BY RunFields DEF TypeInv, OutcomeInv
<1> USE DEF InPlace, RunType, Undecided, SuccessIsTold, Setup, NoRun, Told, Tells, Announces, files, history
<1>1. ASSUME NEW p \in Processes, Start(p) PROVE SuccessIsTold'
  BY <1>1, RunsBegin DEF Start, FreshStatics, Beginning
<1>2. CASE NoContext
  BY <1>2 DEF NoContext
<1>3. CASE Rejected
  BY <1>3, AbortsTell DEF Rejected, Tells, Events
<1>4. CASE Privacy
  BY <1>4, AbortsTell DEF Privacy, Tells, Events
<1>5. CASE Rrd
  BY <1>5, OutcomeTells, ZenonT(60) DEF Rrd, Tells, Events
<1>6. CASE Workflow
  BY <1>6 DEF Workflow
<1>7. CASE Gate
  BY <1>7 DEF Gate, FailPhase
<1>8. CASE LookReboot
  BY <1>8, AbortsTell DEF LookReboot, FailPhase, Tells, Events
<1>9. CASE LookOndemand
  BY <1>9, AbortsTell DEF LookOndemand, FailPhase, Tells, Events
<1>10. CASE collect_logs
  BY <1>10 DEF collect_logs, FailPhase
<1>11. ASSUME NEW d \in Dirs, Prepare(d) PROVE SuccessIsTold'
  BY <1>11 DEF Prepare, CleanupOldLogBackups
<1>12. CASE Copy
  BY <1>12 DEF Copy, FailPhase
<1>13. CASE dcm_setup
  BY <1>13 DEF dcm_setup, FailPhase
<1>14. CASE ReadList
  BY <1>14 DEF ReadList
<1>15. CASE RequestSetup
  BY <1>15 DEF RequestSetup, write_upload_status, Statuses
<1>16. CASE RequestCopy
  BY <1>16 DEF RequestCopy, Fails, write_upload_status, add_timestamp_to_files_uploadlogsnow,
     Statuses
<1>17. CASE RequestEnds
  BY <1>17 DEF RequestEnds, Disk
<1>18. CASE ArchiveDcm
  BY <1>18 DEF ArchiveDcm, create_archive, FailPhase
<1>19. CASE ArchiveOndemand
  BY <1>19 DEF ArchiveOndemand, create_archive, FailPhase
<1>20. CASE ArchiveRequest
  BY <1>20 DEF ArchiveRequest, create_archive, Fails, Statuses
<1>21. CASE ArchivePrevious
  <2>1. CASE FailPhase /\ packed' = packed
    BY <1>21, <2>1 DEF ArchivePrevious, FailPhase
  <2>2. CASE run' = run
    BY <1>21, <2>2 DEF ArchivePrevious
  <2> QED
    BY <1>21, <2>1, <2>2 DEF ArchivePrevious
<1>22. CASE Refuse
  BY <1>22, AbortsTell DEF Refuse, Tells, Events
<1>23. CASE Dri
  BY <1>23, OutcomeTells DEF Dri, Tells, Events
<1>24. ASSUME NEW ok \in BOOLEAN, UploadDcm(ok) PROVE SuccessIsTold'
  BY <1>24, OutcomeTells DEF UploadDcm, upload_archive, Uploaded, Tells, Events
<1>25. ASSUME NEW ok \in BOOLEAN, UploadOndemand(ok) PROVE SuccessIsTold'
  BY <1>25, OutcomeTells DEF UploadOndemand, upload_archive, Uploaded, Tells, Events
<1>26. ASSUME NEW ok \in BOOLEAN, UploadPrevious(ok) PROVE SuccessIsTold'
  BY <1>26, OutcomeTells DEF UploadPrevious, upload_archive, Uploaded, Tells, Events
<1>27. ASSUME NEW ok \in BOOLEAN, UploadRequest(ok) PROVE SuccessIsTold'
  BY <1>27, OutcomeTells DEF UploadRequest, upload_archive, Uploaded, Tells, Events, Statuses
<1>28. CASE dcm_cleanup
  BY <1>28 DEF dcm_cleanup, remove_directory, Exit, Disk
<1>29. CASE ondemand_cleanup
  BY <1>29 DEF ondemand_cleanup, remove_directory, Exit, Disk
<1>30. CASE Restore
  BY <1>30 DEF Restore, Restored
<1>31. CASE NoPermanentDir
  BY <1>31 DEF NoPermanentDir, Exit, Disk
<1>32. CASE Keep
  BY <1>32 DEF Keep, Disk
<1>33. CASE Enlist
  BY <1>33 DEF Enlist, Exit, InPlace, Path
<1>34. CASE Assemble
  BY <1>34 DEF Assemble
<1>35. CASE MakeSentinel
  BY <1>35 DEF MakeSentinel
<1>36. CASE Kill
  BY <1>36, NobodyBegins DEF Kill, Abandon, FreshStatics, Beginning
<1>37. CASE Reboot
  BY <1>37, NobodyBegins DEF Reboot, Abandon, FreshStatics, Beginning
<1>38. CASE UNCHANGED vars
  BY <1>38 DEF vars
<1> QED
  BY <1>1, <1>2, <1>3, <1>4, <1>5, <1>6, <1>7, <1>8, <1>9, <1>10, <1>11, <1>12, <1>13, <1>14,
     <1>15, <1>16, <1>17, <1>18, <1>19, <1>20, <1>21, <1>22, <1>23, <1>24, <1>25, <1>26,
     <1>27, <1>28, <1>29, <1>30, <1>31, <1>32, <1>33, <1>34, <1>35, <1>36, <1>37, <1>38
     DEF Next, Run

LEMMA StepRequest == TypeInv /\ OutcomeInv /\ [Next]_vars => RequestIsTold'
<1> SUFFICES ASSUME InPlace, run \in RunType, Undecided, RequestIsTold, [Next]_vars PROVE RequestIsTold'
  BY RunFields DEF TypeInv, OutcomeInv
<1> USE DEF InPlace, RunType, Undecided, RequestIsTold, Setup, NoRun, files, history
<1>1. ASSUME NEW p \in Processes, Start(p) PROVE RequestIsTold'
  BY <1>1, RunsBegin DEF Start, FreshStatics, Beginning
<1>2. CASE NoContext
  <2>1. run' = run /\ packed' = packed /\ pc' = "over" /\ pc = "start"
    BY <1>2 DEF NoContext
  <2>2. run.exit = 1 /\ run.status \notin Satisfied
    BY <2>1 DEF Satisfied
  <2> QED
    BY <2>1, <2>2
<1>3. CASE Rejected
  BY <1>3, AbortsTell DEF Rejected, Tells, Events
<1>4. CASE Privacy
  BY <1>4, AbortsTell DEF Privacy, Tells, Events
<1>5. CASE Rrd
  <2>1. CASE UNCHANGED <<run, events>>
    BY <1>5, <2>1 DEF Rrd
  <2>2. ASSUME NEW ok \in BOOLEAN, events' \in Outcome(ok),
               run' = [run EXCEPT !.success = ok, !.exit = IF ok THEN 0 ELSE 1]
        PROVE  RequestIsTold'
    <3>1. Tells(events, events')
      BY <2>2, OutcomeTells
    <3> QED  BY <1>5, <2>2, <3>1 DEF Rrd, Tells, Events
  <2> QED  BY <1>5, <2>1, <2>2 DEF Rrd
<1>6. CASE Workflow
  BY <1>6 DEF Workflow
<1>7. CASE Gate
  BY <1>7 DEF Gate, FailPhase
<1>8. CASE LookReboot
  BY <1>8, AbortsTell DEF LookReboot, FailPhase, Tells, Events
<1>9. CASE LookOndemand
  BY <1>9, AbortsTell DEF LookOndemand, FailPhase, Tells, Events
<1>10. CASE collect_logs
  BY <1>10 DEF collect_logs, FailPhase
<1>11. ASSUME NEW d \in Dirs, Prepare(d) PROVE RequestIsTold'
  BY <1>11 DEF Prepare, CleanupOldLogBackups
<1>12. CASE Copy
  BY <1>12 DEF Copy, FailPhase
<1>13. CASE dcm_setup
  BY <1>13 DEF dcm_setup, FailPhase
<1>14. CASE ReadList
  BY <1>14 DEF ReadList
<1>15. CASE RequestSetup
  <2>1. CASE pc' = "collect"
    BY <1>15, <2>1 DEF RequestSetup
  <2>2. CASE run' = [run EXCEPT !.status = "Failed", !.ret = -1] /\ pc' = "over"
    <3>1. run'.exit = 1 /\ run'.status \notin Satisfied
      BY <1>15, <2>2 DEF RequestSetup, Satisfied
    <3> QED
      BY <1>15, <2>2, <3>1 DEF RequestSetup
  <2> QED
    BY <1>15, <2>1, <2>2 DEF RequestSetup
<1>16. CASE RequestCopy
  <2>0. packed' = packed /\ packed = {}
    BY <1>16 DEF RequestCopy
  <2>1. CASE Fails
    <3>1. run'.ret = -1 /\ run'.status \notin Satisfied /\ pc' = "cleanup"
      BY <2>1 DEF Fails, Satisfied
    <3> QED
      BY <2>0, <3>1
  <2>2. CASE write_upload_status("No files to upload") /\ pc' = "cleanup"
    <3>1. run'.ret = 0 /\ run'.status \in Satisfied
      BY <1>16, <2>2 DEF RequestCopy, write_upload_status, Satisfied
    <3> QED
      BY <1>16, <2>0, <2>2, <3>1 DEF RequestCopy
  <2>3. CASE pc' = "archive"
    BY <1>16, <2>0, <2>3 DEF RequestCopy
  <2> QED
    BY <1>16, <2>1, <2>2, <2>3 DEF RequestCopy
<1>17. CASE RequestEnds
  BY <1>17 DEF RequestEnds, Disk
<1>18. CASE ArchiveDcm
  BY <1>18 DEF ArchiveDcm, create_archive, FailPhase
<1>19. CASE ArchiveOndemand
  BY <1>19 DEF ArchiveOndemand, create_archive, FailPhase
<1>20. CASE ArchiveRequest
  <2>0. packed' = packed /\ packed = {}
    BY <1>20 DEF ArchiveRequest, create_archive
  <2>1. CASE Fails
    <3>1. run'.ret = -1 /\ run'.status \notin Satisfied /\ pc' = "cleanup"
      BY <2>1 DEF Fails, Satisfied
    <3> QED
      BY <2>0, <3>1
  <2>2. CASE pc' = "upload"
    BY <2>0, <2>2
  <2> QED
    BY <1>20, <2>1, <2>2 DEF ArchiveRequest, create_archive
<1>21. CASE ArchivePrevious
  BY <1>21 DEF ArchivePrevious, FailPhase
<1>22. CASE Refuse
  BY <1>22, AbortsTell DEF Refuse, Tells, Events
<1>23. CASE Dri
  BY <1>23, OutcomeTells DEF Dri, Tells, Events
<1>24. ASSUME NEW ok \in BOOLEAN, UploadDcm(ok) PROVE RequestIsTold'
  BY <1>24, OutcomeTells DEF UploadDcm, upload_archive, Uploaded, Tells, Events
<1>25. ASSUME NEW ok \in BOOLEAN, UploadOndemand(ok) PROVE RequestIsTold'
  BY <1>25, OutcomeTells DEF UploadOndemand, upload_archive, Uploaded, Tells, Events
<1>26. ASSUME NEW ok \in BOOLEAN, UploadPrevious(ok) PROVE RequestIsTold'
  BY <1>26, OutcomeTells DEF UploadPrevious, upload_archive, Uploaded, Tells, Events
<1>27. ASSUME NEW ok \in BOOLEAN, UploadRequest(ok) PROVE RequestIsTold'
  <2>0. packed' = packed /\ packed = {} /\ pc' = "cleanup"
    BY <1>27 DEF UploadRequest, upload_archive
  <2>1. CASE ok
    <3>1. run'.ret = 0 /\ run'.status \in Satisfied
      BY <1>27, <2>1 DEF UploadRequest, Uploaded, Satisfied
    <3> QED
      BY <2>0, <3>1
  <2>2. CASE ~ok
    <3>1. run'.ret = -1 /\ run'.status \notin Satisfied
      BY <1>27, <2>2 DEF UploadRequest, Uploaded, Satisfied
    <3> QED
      BY <2>0, <3>1
  <2> QED
    BY <2>1, <2>2
<1>28. CASE dcm_cleanup
  BY <1>28 DEF dcm_cleanup, remove_directory, Exit, Disk
<1>29. CASE ondemand_cleanup
  BY <1>29 DEF ondemand_cleanup, remove_directory, Exit, Disk
<1>30. CASE Restore
  BY <1>30 DEF Restore, Restored
<1>31. CASE NoPermanentDir
  BY <1>31 DEF NoPermanentDir, Exit, Disk
<1>32. CASE Keep
  BY <1>32 DEF Keep, Disk
<1>33. CASE Enlist
  BY <1>33 DEF Enlist, Exit, InPlace, Path
<1>34. CASE Assemble
  BY <1>34 DEF Assemble
<1>35. CASE MakeSentinel
  BY <1>35 DEF MakeSentinel
<1>36. CASE Kill
  BY <1>36, NobodyBegins DEF Kill, Abandon, FreshStatics, Beginning
<1>37. CASE Reboot
  BY <1>37, NobodyBegins DEF Reboot, Abandon, FreshStatics, Beginning
<1>38. CASE UNCHANGED vars
  BY <1>38 DEF vars
<1> QED
  BY <1>1, <1>2, <1>3, <1>4, <1>5, <1>6, <1>7, <1>8, <1>9, <1>10, <1>11, <1>12, <1>13, <1>14,
     <1>15, <1>16, <1>17, <1>18, <1>19, <1>20, <1>21, <1>22, <1>23, <1>24, <1>25, <1>26,
     <1>27, <1>28, <1>29, <1>30, <1>31, <1>32, <1>33, <1>34, <1>35, <1>36, <1>37, <1>38
     DEF Next, Run

LEMMA StepEarned == TypeInv /\ OutcomeInv /\ [Next]_vars => ExitIsEarned'
<1> SUFFICES ASSUME InPlace, run \in RunType, Undecided, ExitIsEarned, [Next]_vars PROVE ExitIsEarned'
  BY RunFields DEF TypeInv, OutcomeInv
<1> USE DEF InPlace, RunType, Undecided, ExitIsEarned, Setup, NoRun, files, history
<1>1. ASSUME NEW p \in Processes, Start(p) PROVE ExitIsEarned'
  BY <1>1, RunsBegin DEF Start, FreshStatics, Beginning
<1>2. CASE NoContext
  BY <1>2 DEF NoContext
<1>3. CASE Rejected
  BY <1>3, AbortsTell DEF Rejected, Tells, Events
<1>4. CASE Privacy
  BY <1>4, AbortsTell DEF Privacy, Tells, Events
<1>5. CASE Rrd
  <2>1. CASE UNCHANGED <<run, events>>
    BY <1>5, <2>1 DEF Rrd
  <2>2. ASSUME NEW ok \in BOOLEAN,
               run' = [run EXCEPT !.success = ok, !.exit = IF ok THEN 0 ELSE 1]
        PROVE  ExitIsEarned'
    <3>1. run'.exit = 0 => run'.success
      BY <2>2
    <3> QED
      BY <3>1
  <2> QED
    BY <1>5, <2>1, <2>2 DEF Rrd
<1>6. CASE Workflow
  BY <1>6 DEF Workflow
<1>7. CASE Gate
  BY <1>7 DEF Gate, FailPhase
<1>8. CASE LookReboot
  BY <1>8, AbortsTell DEF LookReboot, FailPhase, Tells, Events
<1>9. CASE LookOndemand
  BY <1>9, AbortsTell DEF LookOndemand, FailPhase, Tells, Events
<1>10. CASE collect_logs
  BY <1>10 DEF collect_logs, FailPhase
<1>11. ASSUME NEW d \in Dirs, Prepare(d) PROVE ExitIsEarned'
  BY <1>11 DEF Prepare, CleanupOldLogBackups
<1>12. CASE Copy
  BY <1>12 DEF Copy, FailPhase
<1>13. CASE dcm_setup
  BY <1>13 DEF dcm_setup, FailPhase
<1>14. CASE ReadList
  BY <1>14 DEF ReadList
<1>15. CASE RequestSetup
  BY <1>15 DEF RequestSetup, write_upload_status, Statuses
<1>16. CASE RequestCopy
  BY <1>16 DEF RequestCopy, Fails, write_upload_status, add_timestamp_to_files_uploadlogsnow,
     Statuses
<1>17. CASE RequestEnds
  BY <1>17 DEF RequestEnds, Disk
<1>18. CASE ArchiveDcm
  BY <1>18 DEF ArchiveDcm, create_archive, FailPhase
<1>19. CASE ArchiveOndemand
  BY <1>19 DEF ArchiveOndemand, create_archive, FailPhase
<1>20. CASE ArchiveRequest
  BY <1>20 DEF ArchiveRequest, create_archive, Fails, Statuses
<1>21. CASE ArchivePrevious
  BY <1>21 DEF ArchivePrevious, FailPhase
<1>22. CASE Refuse
  BY <1>22, AbortsTell DEF Refuse, Tells, Events
<1>23. CASE Dri
  BY <1>23, OutcomeTells DEF Dri, Tells, Events
<1>24. ASSUME NEW ok \in BOOLEAN, UploadDcm(ok) PROVE ExitIsEarned'
  BY <1>24, OutcomeTells DEF UploadDcm, upload_archive, Uploaded, Tells, Events
<1>25. ASSUME NEW ok \in BOOLEAN, UploadOndemand(ok) PROVE ExitIsEarned'
  BY <1>25, OutcomeTells DEF UploadOndemand, upload_archive, Uploaded, Tells, Events
<1>26. ASSUME NEW ok \in BOOLEAN, UploadPrevious(ok) PROVE ExitIsEarned'
  BY <1>26, OutcomeTells DEF UploadPrevious, upload_archive, Uploaded, Tells, Events
<1>27. ASSUME NEW ok \in BOOLEAN, UploadRequest(ok) PROVE ExitIsEarned'
  BY <1>27, OutcomeTells DEF UploadRequest, upload_archive, Uploaded, Tells, Events, Statuses
<1>28. CASE dcm_cleanup
  <2>1. PICK ret \in {run.ret, -1} : Exit(ret)
    BY <1>28 DEF dcm_cleanup, remove_directory
  <2>2. CASE ret = 0 /\ run.success
    <3>1. run'.success
      BY <2>1, <2>2 DEF Exit
    <3> QED
      BY <3>1
  <2>3. CASE ~(ret = 0 /\ run.success)
    <3>1. run'.exit = 1
      BY <2>1, <2>3 DEF Exit
    <3> QED
      BY <3>1
  <2> QED
    BY <2>2, <2>3
<1>29. CASE ondemand_cleanup
  <2>1. PICK ret \in {run.ret, -1} : Exit(ret)
    BY <1>29 DEF ondemand_cleanup, remove_directory
  <2>2. CASE ret = 0 /\ run.success
    <3>1. run'.success
      BY <2>1, <2>2 DEF Exit
    <3> QED
      BY <3>1
  <2>3. CASE ~(ret = 0 /\ run.success)
    <3>1. run'.exit = 1
      BY <2>1, <2>3 DEF Exit
    <3> QED
      BY <3>1
  <2> QED
    BY <2>2, <2>3
<1>30. CASE Restore
  BY <1>30 DEF Restore, Restored
<1>31. CASE NoPermanentDir
  BY <1>31 DEF NoPermanentDir, Exit, Disk
<1>32. CASE Keep
  BY <1>32 DEF Keep, Disk
<1>33. CASE Enlist
  BY <1>33 DEF Enlist, Exit, InPlace, Path
<1>34. CASE Assemble
  BY <1>34 DEF Assemble
<1>35. CASE MakeSentinel
  BY <1>35 DEF MakeSentinel
<1>36. CASE Kill
  BY <1>36, NobodyBegins DEF Kill, Abandon, FreshStatics, Beginning
<1>37. CASE Reboot
  BY <1>37, NobodyBegins DEF Reboot, Abandon, FreshStatics, Beginning
<1>38. CASE UNCHANGED vars
  BY <1>38 DEF vars
<1> QED
  BY <1>1, <1>2, <1>3, <1>4, <1>5, <1>6, <1>7, <1>8, <1>9, <1>10, <1>11, <1>12, <1>13, <1>14,
     <1>15, <1>16, <1>17, <1>18, <1>19, <1>20, <1>21, <1>22, <1>23, <1>24, <1>25, <1>26,
     <1>27, <1>28, <1>29, <1>30, <1>31, <1>32, <1>33, <1>34, <1>35, <1>36, <1>37, <1>38
     DEF Next, Run

LEMMA OutcomeIsSent == OutcomeInv => SuccessMeansSent
  BY DEF OutcomeInv, SuccessIsTold, RequestIsTold, ExitIsEarned, Satisfied, SuccessMeansSent

\* An exit status of 0 is never wrong: what was packed is on the server, the managers
\* were told, and the status file of an upload on request agrees.
THEOREM OutcomesAreTrue == Spec => []SuccessMeansSent
<1>1. TypeInv /\ OutcomeInv /\ [Next]_vars => (TypeInv /\ OutcomeInv)'
  BY TypesInductive, StepUndecided, StepTold, StepRequest, StepEarned DEF OutcomeInv
<1> QED
  BY <1>1, InitTypes, InitOutcome, OutcomeIsSent, PTL DEF Spec

-----------------------------------------------------------------------------
LEMMA InitLogs == Init => LogsInv
  BY DEF Init, LogsInv, StampsAreKnown, GateIsKept, NoLogs, FreshStatics

LEMMA StepStamps == TypeInv /\ LogsInv /\ [Next]_vars => StampsAreKnown'
<1> SUFFICES ASSUME InPlace, run \in RunType, prev \in LogsType, statics \in StaticsType,
                    StampsAreKnown, GateIsKept, [Next]_vars
             PROVE  StampsAreKnown'
  BY RunFields, LogFields DEF TypeInv, LogsInv
<1> USE DEF InPlace, RunType, LogsType, StaticsType, StampsAreKnown, GateIsKept, NoRun, files, history
<1>1. ASSUME NEW p \in Processes, Start(p) PROVE StampsAreKnown'
  BY <1>1 DEF Start, FreshStatics
<1>2. CASE NoContext
  BY <1>2 DEF NoContext
<1>3. CASE Rejected
  BY <1>3 DEF Rejected
<1>4. CASE Privacy
  BY <1>4 DEF Privacy
<1>5. CASE Rrd
  BY <1>5 DEF Rrd
<1>6. CASE Workflow
  BY <1>6 DEF Workflow, CleanupOldArchives
<1>7. CASE Gate
  BY <1>7 DEF Gate, FailPhase
<1>8. CASE LookReboot
  BY <1>8 DEF LookReboot, FailPhase
<1>9. CASE LookOndemand
  BY <1>9 DEF LookOndemand, FailPhase
<1>10. CASE collect_logs
  BY <1>10 DEF collect_logs, FailPhase
<1>11. ASSUME NEW d \in Dirs, Prepare(d) PROVE StampsAreKnown'
  BY <1>11 DEF Prepare, CleanupOldLogBackups
<1>12. CASE Copy
  BY <1>12 DEF Copy, FailPhase
<1>13. CASE dcm_setup
  BY <1>13 DEF dcm_setup, FailPhase
<1>14. CASE ReadList
  BY <1>14 DEF ReadList
<1>15. CASE RequestSetup
  BY <1>15 DEF RequestSetup, write_upload_status
<1>16. CASE RequestCopy
  BY <1>16 DEF RequestCopy, Fails, write_upload_status, add_timestamp_to_files_uploadlogsnow
<1>17. CASE RequestEnds
  BY <1>17 DEF RequestEnds, Disk
<1>18. CASE ArchiveDcm
  BY <1>18 DEF ArchiveDcm, create_archive, FailPhase
<1>19. CASE ArchiveOndemand
  BY <1>19 DEF ArchiveOndemand, create_archive, FailPhase
<1>20. CASE ArchiveRequest
  BY <1>20 DEF ArchiveRequest, create_archive, Fails
<1>21. CASE ArchivePrevious
  BY <1>21 DEF ArchivePrevious, FailPhase
<1>22. CASE Refuse
  BY <1>22 DEF Refuse
<1>23. CASE Dri
  BY <1>23 DEF Dri
<1>24. ASSUME NEW ok \in BOOLEAN, UploadDcm(ok) PROVE StampsAreKnown'
  BY <1>24 DEF UploadDcm, upload_archive, Uploaded
<1>25. ASSUME NEW ok \in BOOLEAN, UploadOndemand(ok) PROVE StampsAreKnown'
  BY <1>25 DEF UploadOndemand, upload_archive, Uploaded
<1>26. ASSUME NEW ok \in BOOLEAN, UploadPrevious(ok) PROVE StampsAreKnown'
  BY <1>26 DEF UploadPrevious, upload_archive, Uploaded
<1>27. ASSUME NEW ok \in BOOLEAN, UploadRequest(ok) PROVE StampsAreKnown'
  BY <1>27 DEF UploadRequest, upload_archive, Uploaded
<1>28. CASE dcm_cleanup
  BY <1>28 DEF dcm_cleanup, remove_directory, Exit, Disk
<1>29. CASE ondemand_cleanup
  BY <1>29 DEF ondemand_cleanup, remove_directory, Exit, Disk
<1>30. CASE Restore
  <2>1. prev'.own = {}
    <3>1. CASE statics[run.who].prefix
      BY <1>30, <3>1 DEF Restore, Restored
    <3>2. CASE ~statics[run.who].prefix
      <4>1. prev.own = {}
        BY <3>2
      <4>2. prev' = prev \/ \E b \in prev.old : prev' = [prev EXCEPT !.base = {b}, !.old = {}]
        BY <1>30, <3>2 DEF Restore, Restored
      <4> QED
        BY <4>1, <4>2
    <3> QED
      BY <3>1, <3>2
  <2> QED
    BY <2>1
<1>31. CASE NoPermanentDir
  BY <1>31 DEF NoPermanentDir, Exit, Disk
<1>32. CASE Keep
  BY <1>32 DEF Keep, Disk, NoLogs
<1>33. CASE Enlist
  BY <1>33 DEF Enlist, Exit
<1>34. CASE Assemble
  BY <1>34 DEF Assemble
<1>35. CASE MakeSentinel
  BY <1>35 DEF MakeSentinel
<1>36. CASE Kill
  BY <1>36 DEF Kill, Abandon, FreshStatics
<1>37. CASE Reboot
  BY <1>37 DEF Reboot, Abandon, FreshStatics
<1>38. CASE UNCHANGED vars
  BY <1>38 DEF vars
<1> QED
  BY <1>1, <1>2, <1>3, <1>4, <1>5, <1>6, <1>7, <1>8, <1>9, <1>10, <1>11, <1>12, <1>13, <1>14,
     <1>15, <1>16, <1>17, <1>18, <1>19, <1>20, <1>21, <1>22, <1>23, <1>24, <1>25, <1>26,
     <1>27, <1>28, <1>29, <1>30, <1>31, <1>32, <1>33, <1>34, <1>35, <1>36, <1>37, <1>38
     DEF Next, Run

\* Stamping changes no path.
LEMMA StampedPaths ==
  ASSUME statics \in StaticsType, run \in RunType, NEW p \in Processes
  PROVE  [statics EXCEPT ![run.who].prefix = TRUE][p].path = statics[p].path
  BY DEF StaticsType, RunType

LEMMA StepGate == TypeInv /\ LogsInv /\ [Next]_vars => GateIsKept'
<1> SUFFICES ASSUME InPlace, run \in RunType, statics \in StaticsType, GateIsKept, [Next]_vars
             PROVE  GateIsKept'
  BY RunFields, LogFields DEF TypeInv, LogsInv
<1> USE DEF InPlace, RunType, StaticsType, GateIsKept, NoRun, files, history
<1>1. ASSUME NEW p \in Processes, Start(p) PROVE GateIsKept'
  BY <1>1 DEF Start, FreshStatics
<1>2. CASE NoContext
  BY <1>2 DEF NoContext
<1>3. CASE Rejected
  BY <1>3 DEF Rejected
<1>4. CASE Privacy
  BY <1>4 DEF Privacy
<1>5. CASE Rrd
  BY <1>5 DEF Rrd
<1>6. CASE Workflow
  BY <1>6 DEF Workflow, CleanupOldArchives
<1>7. CASE Gate
  BY <1>7 DEF Gate, FailPhase
<1>8. CASE LookReboot
  BY <1>8 DEF LookReboot, FailPhase
<1>9. CASE LookOndemand
  BY <1>9 DEF LookOndemand, FailPhase
<1>10. CASE collect_logs
  BY <1>10 DEF collect_logs, FailPhase
<1>11. ASSUME NEW d \in Dirs, Prepare(d) PROVE GateIsKept'
  BY <1>11 DEF Prepare, CleanupOldLogBackups
<1>12. CASE Copy
  BY <1>12 DEF Copy, FailPhase
<1>13. CASE dcm_setup
  BY <1>13 DEF dcm_setup, FailPhase
<1>14. CASE ReadList
  BY <1>14 DEF ReadList
<1>15. CASE RequestSetup
  BY <1>15 DEF RequestSetup, write_upload_status
<1>16. CASE RequestCopy
  <2>1. \A q \in Processes : statics'[q].path = statics[q].path
    <3>1. statics' = statics \/ statics' = [statics EXCEPT ![run.who].prefix = TRUE]
      BY <1>16 DEF RequestCopy, add_timestamp_to_files_uploadlogsnow
    <3> QED
      BY <3>1, StampedPaths
  <2> QED
    BY <1>16, <2>1 DEF RequestCopy, Fails, write_upload_status
<1>17. CASE RequestEnds
  BY <1>17 DEF RequestEnds, Disk
<1>18. CASE ArchiveDcm
  BY <1>18 DEF ArchiveDcm, create_archive, FailPhase
<1>19. CASE ArchiveOndemand
  BY <1>19 DEF ArchiveOndemand, create_archive, FailPhase
<1>20. CASE ArchiveRequest
  BY <1>20 DEF ArchiveRequest, create_archive, Fails
<1>21. CASE ArchivePrevious
  BY <1>21 DEF ArchivePrevious, FailPhase
<1>22. CASE Refuse
  BY <1>22 DEF Refuse
<1>23. CASE Dri
  BY <1>23 DEF Dri
<1>24. ASSUME NEW ok \in BOOLEAN, UploadDcm(ok) PROVE GateIsKept'
  BY <1>24 DEF UploadDcm, upload_archive, Uploaded
<1>25. ASSUME NEW ok \in BOOLEAN, UploadOndemand(ok) PROVE GateIsKept'
  BY <1>25 DEF UploadOndemand, upload_archive, Uploaded
<1>26. ASSUME NEW ok \in BOOLEAN, UploadPrevious(ok) PROVE GateIsKept'
  BY <1>26 DEF UploadPrevious, upload_archive, Uploaded
<1>27. ASSUME NEW ok \in BOOLEAN, UploadRequest(ok) PROVE GateIsKept'
  BY <1>27 DEF UploadRequest, upload_archive, Uploaded
<1>28. CASE dcm_cleanup
  BY <1>28 DEF dcm_cleanup, remove_directory, Exit, Disk
<1>29. CASE ondemand_cleanup
  BY <1>29 DEF ondemand_cleanup, remove_directory, Exit, Disk
<1>30. CASE Restore
  BY <1>30 DEF Restore, Restored
<1>31. CASE NoPermanentDir
  BY <1>31 DEF NoPermanentDir, Exit, Disk
<1>32. CASE Keep
  BY <1>32 DEF Keep, Disk, NoLogs
<1>33. CASE Enlist
  BY <1>33 DEF Enlist, Exit
<1>34. CASE Assemble
  BY <1>34 DEF Assemble
<1>35. CASE MakeSentinel
  BY <1>35 DEF MakeSentinel
<1>36. CASE Kill
  BY <1>36 DEF Kill, Abandon, FreshStatics
<1>37. CASE Reboot
  BY <1>37 DEF Reboot, Abandon, FreshStatics
<1>38. CASE UNCHANGED vars
  BY <1>38 DEF vars
<1> QED
  BY <1>1, <1>2, <1>3, <1>4, <1>5, <1>6, <1>7, <1>8, <1>9, <1>10, <1>11, <1>12, <1>13, <1>14,
     <1>15, <1>16, <1>17, <1>18, <1>19, <1>20, <1>21, <1>22, <1>23, <1>24, <1>25, <1>26,
     <1>27, <1>28, <1>29, <1>30, <1>31, <1>32, <1>33, <1>34, <1>35, <1>36, <1>37, <1>38
     DEF Next, Run

LEMMA LogsInductive == TypeInv /\ LogsInv /\ [Next]_vars => LogsInv'
  BY StepStamps, StepGate DEF LogsInv

\* Logs without a stamp of a killed run, and the restored ones, stay what they were.
LEMMA RestoredLogs ==
  ASSUME TypeOK, prev.old = {}, Restore
  PROVE  /\ prev'.bak = prev.bak /\ prev'.old = {}
         /\ \/ statics[run.who].prefix /\ prev'.base = prev.base \cup prev.own /\ prev'.own = {}
            \/ prev' = prev
<1>1. prev \in LogsType
  BY LogFields
<1>2. prev' \in IF statics[run.who].prefix
                THEN {[prev EXCEPT !.base = prev.base \cup prev.own, !.own = {}]} ELSE {prev}
  BY DEF Restore, Restored
<1> QED
  BY <1>1, <1>2 DEF LogsType

-----------------------------------------------------------------------------
(* No log is lost.                                                         *)

KeptByStep ==
  prev.old = {} =>
    /\ (pc # "prepare" /\ "disk" \notin trouble') =>
         PreviousLogs \cup UNION {perm[d] : d \in Dirs}
           \subseteq (PreviousLogs \cup UNION {perm[d] : d \in Dirs})'
    /\ (~done /\ there' = there) => prev' = prev

LEMMA StepKeeps == TypeInv /\ LogsInv /\ [Next]_vars => KeptByStep
<1> SUFFICES ASSUME TypeOK, InPlace, prev \in LogsType, LogsInv, [Next]_vars
             PROVE  KeptByStep
  BY LogFields DEF TypeInv
<1>0. UNCHANGED <<prev, perm>> => KeptByStep
  BY DEF KeptByStep, PreviousLogs
<1> USE DEF files, history
<1>1. ASSUME NEW p \in Processes, Start(p) PROVE KeptByStep
  BY <1>1, <1>0 DEF Start, FreshStatics
<1>2. CASE NoContext
  BY <1>2, <1>0 DEF NoContext
<1>3. CASE Rejected
  BY <1>3, <1>0 DEF Rejected
<1>4. CASE Privacy
  BY <1>4, <1>0 DEF Privacy
<1>5. CASE Rrd
  BY <1>5, <1>0 DEF Rrd
<1>6. CASE Workflow
  BY <1>6, <1>0 DEF Workflow, CleanupOldArchives
<1>7. CASE Gate
  BY <1>7, <1>0 DEF Gate, FailPhase
<1>8. CASE LookReboot
  BY <1>8, <1>0 DEF LookReboot, FailPhase
<1>9. CASE LookOndemand
  BY <1>9, <1>0 DEF LookOndemand, FailPhase
<1>10. CASE collect_logs
  BY <1>10, <1>0 DEF collect_logs, FailPhase
<1>11. ASSUME NEW d \in Dirs, Prepare(d) PROVE KeptByStep
  <2>1. pc = "prepare" /\ done
    BY <1>11 DEF Prepare, LogsInv, GateIsKept, InPlace
  <2> QED
    BY <2>1 DEF KeptByStep
<1>12. CASE Copy
  BY <1>12, <1>0 DEF Copy, FailPhase
<1>13. CASE dcm_setup
  BY <1>13, <1>0 DEF dcm_setup, FailPhase
<1>14. CASE ReadList
  BY <1>14, <1>0 DEF ReadList
<1>15. CASE RequestSetup
  BY <1>15, <1>0 DEF RequestSetup, write_upload_status
<1>16. CASE RequestCopy
  BY <1>16, <1>0 DEF RequestCopy, Fails, write_upload_status, add_timestamp_to_files_uploadlogsnow
<1>17. CASE RequestEnds
  BY <1>17, <1>0 DEF RequestEnds, Disk
<1>18. CASE ArchiveDcm
  BY <1>18, <1>0 DEF ArchiveDcm, create_archive, FailPhase
<1>19. CASE ArchiveOndemand
  BY <1>19, <1>0 DEF ArchiveOndemand, create_archive, FailPhase
<1>20. CASE ArchiveRequest
  BY <1>20, <1>0 DEF ArchiveRequest, create_archive, Fails
<1>21. CASE ArchivePrevious
  BY <1>21, <1>0 DEF ArchivePrevious, FailPhase
<1>22. CASE Refuse
  BY <1>22, <1>0 DEF Refuse
<1>23. CASE Dri
  BY <1>23, <1>0 DEF Dri
<1>24. ASSUME NEW ok \in BOOLEAN, UploadDcm(ok) PROVE KeptByStep
  BY <1>24, <1>0 DEF UploadDcm, upload_archive, Uploaded
<1>25. ASSUME NEW ok \in BOOLEAN, UploadOndemand(ok) PROVE KeptByStep
  BY <1>25, <1>0 DEF UploadOndemand, upload_archive, Uploaded
<1>26. ASSUME NEW ok \in BOOLEAN, UploadPrevious(ok) PROVE KeptByStep
  BY <1>26, <1>0 DEF UploadPrevious, upload_archive, Uploaded
<1>27. ASSUME NEW ok \in BOOLEAN, UploadRequest(ok) PROVE KeptByStep
  BY <1>27, <1>0 DEF UploadRequest, upload_archive, Uploaded
<1>28. CASE dcm_cleanup
  BY <1>28, <1>0 DEF dcm_cleanup, remove_directory, Exit, Disk
<1>29. CASE ondemand_cleanup
  BY <1>29, <1>0 DEF ondemand_cleanup, remove_directory, Exit, Disk
<1>30. CASE Restore
  <2> SUFFICES ASSUME prev.old = {} PROVE KeptByStep
    BY DEF KeptByStep
  <2>1. PreviousLogs \subseteq PreviousLogs'
    BY <1>30, RestoredLogs DEF PreviousLogs
  <2>2. ~done => prev' = prev
    <3> SUFFICES ASSUME ~done PROVE prev' = prev
      OBVIOUS
    <3>1. prev.own = {}
      BY DEF LogsInv, StampsAreKnown
    <3>2. prev' = prev \/ prev' = [prev EXCEPT !.base = prev.base \cup prev.own, !.own = {}]
      BY <1>30 DEF Restore, Restored
    <3> QED
      BY <3>1, <3>2 DEF LogsType
  <2>3. perm' = perm
    BY <1>30 DEF Restore
  <2> QED
    BY <2>1, <2>2, <2>3 DEF KeptByStep
<1>31. CASE NoPermanentDir
  BY <1>31, <1>0 DEF NoPermanentDir, Exit, Disk
<1>32. CASE Keep
  <2>1. PICK moved \in SUBSET PreviousLogs :
          perm' = [perm EXCEPT ![Path] = @ \cup moved] /\ Disk(moved # PreviousLogs)
    BY <1>32 DEF Keep
  <2>2. Path \in Dirs /\ perm \in [Dirs -> SUBSET Boots]
    BY <1>32 DEF Keep, Path, TypeOK
  <2>3. ASSUME "disk" \notin trouble'
        PROVE  PreviousLogs \cup UNION {perm[d] : d \in Dirs} \subseteq UNION {perm'[d] : d \in Dirs}
    <3>1. moved = PreviousLogs
      BY <2>1, <2>3 DEF Disk
    <3>2. \A d \in Dirs : perm[d] \subseteq perm'[d]
      BY <2>1, <2>2
    <3>3. PreviousLogs \subseteq perm'[Path]
      BY <2>1, <2>2, <3>1
    <3> QED
      BY <2>2, <3>2, <3>3
  <2>4. done
    BY <1>32 DEF Keep, Path, LogsInv, GateIsKept, TypeOK
  <2> QED
    BY <2>3, <2>4 DEF KeptByStep
<1>33. CASE Enlist
  BY <1>33, <1>0 DEF Enlist, Exit
<1>34. CASE Assemble
  <2>1. PreviousLogs \subseteq PreviousLogs'
    BY <1>34 DEF Assemble, PreviousLogs, LogsType
  <2>2. perm' = perm /\ there' # there
    BY <1>34 DEF Assemble
  <2> QED
    BY <2>1, <2>2 DEF KeptByStep
<1>35. CASE MakeSentinel
  BY <1>35, <1>0 DEF MakeSentinel
<1>36. CASE Kill
  <2>1. prev' = [prev EXCEPT !.own = {}, !.old = prev.old \cup prev.own] /\ perm' = perm
    BY <1>36 DEF Kill, Abandon
  <2>2. PreviousLogs \subseteq PreviousLogs'
    BY <2>1 DEF PreviousLogs, LogsType
  <2>3. ~done => prev.own = {}
    BY DEF LogsInv, StampsAreKnown
  <2>4. prev.own = {} => prev' = prev
    BY <2>1 DEF LogsType
  <2> QED
    BY <2>1, <2>2, <2>3, <2>4 DEF KeptByStep
<1>37. CASE Reboot
  <2>1. prev' = [prev EXCEPT !.own = {}, !.old = prev.old \cup prev.own] /\ perm' = perm
    BY <1>37 DEF Reboot, Abandon
  <2>2. PreviousLogs \subseteq PreviousLogs'
    BY <2>1 DEF PreviousLogs, LogsType
  <2>3. ~done => prev.own = {}
    BY DEF LogsInv, StampsAreKnown
  <2>4. prev.own = {} => prev' = prev
    BY <2>1 DEF LogsType
  <2> QED
    BY <2>1, <2>2, <2>3, <2>4 DEF KeptByStep
<1>38. CASE UNCHANGED vars
  BY <1>38, <1>0 DEF vars
<1> QED
  BY <1>1, <1>2, <1>3, <1>4, <1>5, <1>6, <1>7, <1>8, <1>9, <1>10, <1>11, <1>12, <1>13, <1>14,
     <1>15, <1>16, <1>17, <1>18, <1>19, <1>20, <1>21, <1>22, <1>23, <1>24, <1>25, <1>26,
     <1>27, <1>28, <1>29, <1>30, <1>31, <1>32, <1>33, <1>34, <1>35, <1>36, <1>37, <1>38
     DEF Next, Run

\* Whatever phase of a run fails, and wherever it is killed, its logs are in PreviousLogs
\* or in a permanent directory, and nothing touches PreviousLogs while the backup is still
\* filling them.
THEOREM NoLogIsLost == Spec => LogsAreKept
<1>1. TypeInv /\ LogsInv /\ [Next]_vars => (TypeInv /\ LogsInv)'
  BY TypesInductive, LogsInductive
<1>2. TypeInv /\ LogsInv /\ [Next]_vars =>
        [prev.old = {} =>
           /\ (pc # "prepare" /\ "disk" \notin trouble') =>
                PreviousLogs \cup UNION {perm[d] : d \in Dirs}
                  \subseteq (PreviousLogs \cup UNION {perm[d] : d \in Dirs})'
           /\ (~done /\ there' = there) => prev' = prev]_vars
  BY StepKeeps DEF KeptByStep
<1> QED
  BY <1>1, <1>2, InitTypes, InitLogs, PTL DEF Spec, LogsAreKept

-----------------------------------------------------------------------------
LEMMA InitTidy == Init => TidyInv
  BY DEF Init, TidyInv, FilesHaveOwners, OwedIsPromised, NoLogs

LEMMA StepOwners == TypeInv /\ LogsInv /\ TidyInv /\ [Next]_vars => FilesHaveOwners'
<1> SUFFICES ASSUME InPlace, run \in RunType, prev \in LogsType, StampsAreKnown, FilesHaveOwners, [Next]_vars
             PROVE  FilesHaveOwners'
  BY RunFields, LogFields DEF TypeInv, LogsInv, TidyInv
<1> USE DEF InPlace, RunType, LogsType, StampsAreKnown, FilesHaveOwners, NoRun, files, history
<1>1. ASSUME NEW p \in Processes, Start(p) PROVE FilesHaveOwners'
  BY <1>1 DEF Start, FreshStatics
<1>2. CASE NoContext
  BY <1>2 DEF NoContext
<1>3. CASE Rejected
  BY <1>3 DEF Rejected
<1>4. CASE Privacy
  BY <1>4 DEF Privacy
<1>5. CASE Rrd
  BY <1>5 DEF Rrd
<1>6. CASE Workflow
  BY <1>6 DEF Workflow, CleanupOldArchives
<1>7. CASE Gate
  BY <1>7 DEF Gate, FailPhase
<1>8. CASE LookReboot
  BY <1>8 DEF LookReboot, FailPhase
<1>9. CASE LookOndemand
  BY <1>9 DEF LookOndemand, FailPhase
<1>10. CASE collect_logs
  BY <1>10 DEF collect_logs, FailPhase
<1>11. ASSUME NEW d \in Dirs, Prepare(d) PROVE FilesHaveOwners'
  BY <1>11 DEF Prepare, CleanupOldLogBackups
<1>12. CASE Copy
  BY <1>12 DEF Copy, FailPhase
<1>13. CASE dcm_setup
  BY <1>13 DEF dcm_setup, FailPhase
<1>14. CASE ReadList
  BY <1>14 DEF ReadList
<1>15. CASE RequestSetup
  BY <1>15 DEF RequestSetup, write_upload_status
<1>16. CASE RequestCopy
  BY <1>16 DEF RequestCopy, Fails, write_upload_status, add_timestamp_to_files_uploadlogsnow
<1>17. CASE RequestEnds
  BY <1>17 DEF RequestEnds, Disk
<1>18. CASE ArchiveDcm
  BY <1>18 DEF ArchiveDcm, create_archive, FailPhase
<1>19. CASE ArchiveOndemand
  BY <1>19 DEF ArchiveOndemand, create_archive, FailPhase
<1>20. CASE ArchiveRequest
  BY <1>20 DEF ArchiveRequest, create_archive, Fails
<1>21. CASE ArchivePrevious
  BY <1>21 DEF ArchivePrevious, FailPhase
<1>22. CASE Refuse
  BY <1>22 DEF Refuse
<1>23. CASE Dri
  BY <1>23 DEF Dri
<1>24. ASSUME NEW ok \in BOOLEAN, UploadDcm(ok) PROVE FilesHaveOwners'
  BY <1>24 DEF UploadDcm, upload_archive, Uploaded
<1>25. ASSUME NEW ok \in BOOLEAN, UploadOndemand(ok) PROVE FilesHaveOwners'
  BY <1>25 DEF UploadOndemand, upload_archive, Uploaded
<1>26. ASSUME NEW ok \in BOOLEAN, UploadPrevious(ok) PROVE FilesHaveOwners'
  BY <1>26 DEF UploadPrevious, upload_archive, Uploaded
<1>27. ASSUME NEW ok \in BOOLEAN, UploadRequest(ok) PROVE FilesHaveOwners'
  BY <1>27 DEF UploadRequest, upload_archive, Uploaded
<1>28. CASE dcm_cleanup
  BY <1>28 DEF dcm_cleanup, remove_directory, Exit, Disk
<1>29. CASE ondemand_cleanup
  BY <1>29 DEF ondemand_cleanup, remove_directory, Exit, Disk
<1>30. CASE Restore
  BY <1>30 DEF Restore, Restored
<1>31. CASE NoPermanentDir
  BY <1>31 DEF NoPermanentDir, Exit, Disk
<1>32. CASE Keep
  BY <1>32 DEF Keep, Disk, NoLogs
<1>33. CASE Enlist
  BY <1>33 DEF Enlist, Exit
<1>34. CASE Assemble
  BY <1>34 DEF Assemble
<1>35. CASE MakeSentinel
  BY <1>35 DEF MakeSentinel
<1>36. CASE Kill
  BY <1>36 DEF Kill, Abandon, FreshStatics
<1>37. CASE Reboot
  BY <1>37 DEF Reboot, Abandon, FreshStatics
<1>38. CASE UNCHANGED vars
  BY <1>38 DEF vars
<1> QED
  BY <1>1, <1>2, <1>3, <1>4, <1>5, <1>6, <1>7, <1>8, <1>9, <1>10, <1>11, <1>12, <1>13, <1>14,
     <1>15, <1>16, <1>17, <1>18, <1>19, <1>20, <1>21, <1>22, <1>23, <1>24, <1>25, <1>26,
     <1>27, <1>28, <1>29, <1>30, <1>31, <1>32, <1>33, <1>34, <1>35, <1>36, <1>37, <1>38
     DEF Next, Run

LEMMA StepOwed == TypeInv /\ TidyInv /\ [Next]_vars => OwedIsPromised'
<1> SUFFICES ASSUME InPlace, run \in RunType, statics \in StaticsType, owed \subseteq Dirs,
                    OwedIsPromised, [Next]_vars
             PROVE  OwedIsPromised'
  BY RunFields, LogFields DEF TypeInv, TidyInv, TypeOK
<1> USE DEF InPlace, RunType, StaticsType, OwedIsPromised, Promised, Path, NoRun, files, history
<1>1. ASSUME NEW p \in Processes, Start(p) PROVE OwedIsPromised'
  BY <1>1 DEF Start, FreshStatics
<1>2. CASE NoContext
  BY <1>2 DEF NoContext
<1>3. CASE Rejected
  BY <1>3 DEF Rejected
<1>4. CASE Privacy
  BY <1>4 DEF Privacy
<1>5. CASE Rrd
  BY <1>5 DEF Rrd
<1>6. CASE Workflow
  BY <1>6 DEF Workflow, CleanupOldArchives
<1>7. CASE Gate
  BY <1>7 DEF Gate, FailPhase
<1>8. CASE LookReboot
  BY <1>8 DEF LookReboot, FailPhase
<1>9. CASE LookOndemand
  BY <1>9 DEF LookOndemand, FailPhase
<1>10. CASE collect_logs
  BY <1>10 DEF collect_logs, FailPhase
<1>11. ASSUME NEW d \in Dirs, Prepare(d) PROVE OwedIsPromised'
  BY <1>11 DEF Prepare, CleanupOldLogBackups
<1>12. CASE Copy
  BY <1>12 DEF Copy, FailPhase
<1>13. CASE dcm_setup
  BY <1>13 DEF dcm_setup, FailPhase
<1>14. CASE ReadList
  BY <1>14 DEF ReadList
<1>15. CASE RequestSetup
  BY <1>15 DEF RequestSetup, write_upload_status
<1>16. CASE RequestCopy
  BY <1>16 DEF RequestCopy, Fails, write_upload_status, add_timestamp_to_files_uploadlogsnow
<1>17. CASE RequestEnds
  BY <1>17 DEF RequestEnds, Disk
<1>18. CASE ArchiveDcm
  BY <1>18 DEF ArchiveDcm, create_archive, FailPhase
<1>19. CASE ArchiveOndemand
  BY <1>19 DEF ArchiveOndemand, create_archive, FailPhase
<1>20. CASE ArchiveRequest
  BY <1>20 DEF ArchiveRequest, create_archive, Fails
<1>21. CASE ArchivePrevious
  BY <1>21 DEF ArchivePrevious, FailPhase
<1>22. CASE Refuse
  BY <1>22 DEF Refuse
<1>23. CASE Dri
  BY <1>23 DEF Dri
<1>24. ASSUME NEW ok \in BOOLEAN, UploadDcm(ok) PROVE OwedIsPromised'
  BY <1>24 DEF UploadDcm, upload_archive, Uploaded
<1>25. ASSUME NEW ok \in BOOLEAN, UploadOndemand(ok) PROVE OwedIsPromised'
  BY <1>25 DEF UploadOndemand, upload_archive, Uploaded
<1>26. ASSUME NEW ok \in BOOLEAN, UploadPrevious(ok) PROVE OwedIsPromised'
  BY <1>26 DEF UploadPrevious, upload_archive, Uploaded
<1>27. ASSUME NEW ok \in BOOLEAN, UploadRequest(ok) PROVE OwedIsPromised'
  BY <1>27 DEF UploadRequest, upload_archive, Uploaded
<1>28. CASE dcm_cleanup
  BY <1>28 DEF dcm_cleanup, remove_directory, Exit, Disk
<1>29. CASE ondemand_cleanup
  BY <1>29 DEF ondemand_cleanup, remove_directory, Exit, Disk
<1>30. CASE Restore
  BY <1>30 DEF Restore, Restored
<1>31. CASE NoPermanentDir
  <2>1. CASE Path # NoDir
    BY <1>31, <2>1 DEF NoPermanentDir, Disk
  <2>2. CASE Path = NoDir
    <3>1. (trouble' = {}) => trouble = {}
      BY <1>31 DEF NoPermanentDir, Disk
    <3>2. (trouble = {}) => owed \subseteq list
      BY <2>2, StrategiesAssumption
    <3> QED
      BY <1>31, <3>1, <3>2 DEF NoPermanentDir
  <2> QED
    BY <2>1, <2>2
<1>32. CASE Keep
  BY <1>32 DEF Keep, Disk, NoLogs
<1>33. CASE Enlist
  BY <1>33 DEF Enlist, Exit
<1>34. CASE Assemble
  BY <1>34 DEF Assemble
<1>35. CASE MakeSentinel
  BY <1>35 DEF MakeSentinel
<1>36. CASE Kill
  BY <1>36 DEF Kill, Abandon, FreshStatics
<1>37. CASE Reboot
  BY <1>37 DEF Reboot, Abandon, FreshStatics
<1>38. CASE UNCHANGED vars
  BY <1>38 DEF vars
<1> QED
  BY <1>1, <1>2, <1>3, <1>4, <1>5, <1>6, <1>7, <1>8, <1>9, <1>10, <1>11, <1>12, <1>13, <1>14,
     <1>15, <1>16, <1>17, <1>18, <1>19, <1>20, <1>21, <1>22, <1>23, <1>24, <1>25, <1>26,
     <1>27, <1>28, <1>29, <1>30, <1>31, <1>32, <1>33, <1>34, <1>35, <1>36, <1>37, <1>38
     DEF Next, Run

LEMMA TidyInductive == TypeInv /\ LogsInv /\ TidyInv /\ [Next]_vars => TidyInv'
  BY StepOwners, StepOwed DEF TidyInv

LEMMA StrategiesInductive ==
  TypeInv /\ LogsInv /\ TidyInv /\ [Next]_vars => (TypeInv /\ LogsInv /\ TidyInv)'
  BY TypesInductive, LogsInductive, TidyInductive

\* A run that was not killed, on a disk that works, leaves no stamp in PreviousLogs and
\* neither an archive nor a working directory, whichever of its phases failed.
THEOREM NothingIsLeft == Spec => []LeavesNothingBehind
<1>1. ASSUME TypeInv, LogsInv, TidyInv PROVE LeavesNothingBehind
  <2> SUFFICES ASSUME pc \in NoRun, trouble = {}
               PROVE  prev.own = {} /\ prev.old = {} /\ left = {}
    BY DEF LeavesNothingBehind
  <2>1. prev.own = {}
    BY <1>1 DEF LogsInv, StampsAreKnown, NoRun
  <2>2. "tar" \notin left /\ "dcm" \notin left /\ "ondemand" \notin left /\ prev.old = {}
    BY <1>1 DEF TidyInv, FilesHaveOwners, NoRun
  <2>3. left \subseteq {"tar", "dcm", "ondemand"}
    BY <1>1 DEF TypeInv, TypeOK
  <2> QED
    BY <2>1, <2>2, <2>3
<1> QED
  BY <1>1, StrategiesInductive, InitTypes, InitLogs, InitTidy, PTL DEF Spec

\* A directory that a batching run has named is on the list of the next DCM upload when
\* the run ends, though its archive or its upload may have failed.
THEOREM DirectoriesAreListed == Spec => []BatchesAreListed
<1>1. TidyInv => BatchesAreListed
  BY DEF TidyInv, OwedIsPromised, Promised, BatchesAreListed, NoRun
<1> QED
  BY <1>1, StrategiesInductive, InitTypes, InitLogs, InitTidy, PTL DEF Spec

-----------------------------------------------------------------------------
(***************************************************************************)
(* The gates of the reboot strategy (SyncGates), for every timeout,        *)
(* heartbeat and queue.                                                    *)
(***************************************************************************)
\* The types need the heartbeat that runs while select blocks.
GateTypeInv ==
    /\ GateTypeOK
    /\ gatePc = "select" => remaining + Heartbeat - nap >= 1

LEMMA InitGateTypes == GateInit => GateTypeInv
<1> SUFFICES ASSUME GateInit PROVE GateTypeInv
  OBVIOUS
<1>1. made \in [Sentinels -> BOOLEAN] /\ old \in [Sentinels -> BOOLEAN] /\ watching \in BOOLEAN
      /\ lost \in BOOLEAN
  BY DEF GateInit
<1>2. gate \in Sentinels /\ outcome \in [Sentinels -> {"none", "there", "late", "failed"}]
  BY DEF GateInit, Sentinels
<1>3. queue \in Seq(Sentinels \cup {"other"}) /\ Len(queue) <= MaxQueue
  BY GateAssumption DEF GateInit
<1>4. /\ remaining \in (1 - Heartbeat)..Timeout /\ nap \in 0..Heartbeat /\ noise \in 0..MaxNoise
      /\ gatePc = "backup" /\ refTime = "system"
  BY GateAssumption DEF GateInit
<1> QED  BY <1>1, <1>2, <1>3, <1>4 DEF GateTypeInv, GateTypeOK

\* What ends a wait keeps the types, whatever its result.
LEMMA ConcludeTypes ==
    ASSUME GateTypeInv, NEW result \in {"there", "late", "failed"},
           Conclude(result)
    PROVE  GateTypeInv'
<1>1. gatePc' \in {"proceed", "look", "nudge"} /\ gate' \in Sentinels
  BY DEF GateTypeInv, GateTypeOK, Conclude, Sentinels
<1>2. outcome' \in [Sentinels -> {"none", "there", "late", "failed"}]
  BY DEF GateTypeInv, GateTypeOK, Conclude
<1>3. queue' \in Seq(Sentinels \cup {"other"}) /\ Len(queue') <= MaxQueue
  BY GateAssumption DEF Conclude
<1>4. remaining' \in (1 - Heartbeat)..Timeout /\ nap' \in 0..Heartbeat
  BY GateAssumption DEF Conclude
<1>5. /\ made' \in [Sentinels -> BOOLEAN] /\ old' \in [Sentinels -> BOOLEAN]
      /\ watching' \in BOOLEAN /\ lost' \in BOOLEAN
      /\ noise' \in 0..MaxNoise /\ refTime' \in {"system", "saved"}
  BY DEF GateTypeInv, GateTypeOK, Conclude, gateFiles
<1> QED  BY <1>1, <1>2, <1>3, <1>4, <1>5 DEF GateTypeInv, GateTypeOK

LEMMA DeliverTypes ==
    ASSUME GateTypeInv, NEW e \in Sentinels \cup {"other"}, Deliver(e)
    PROVE  /\ queue' \in Seq(Sentinels \cup {"other"}) /\ Len(queue') <= MaxQueue
           /\ watching' \in BOOLEAN /\ lost' \in BOOLEAN
<1>1. /\ queue \in Seq(Sentinels \cup {"other"}) /\ Len(queue) <= MaxQueue
      /\ watching \in BOOLEAN /\ lost \in BOOLEAN
  BY DEF GateTypeInv, GateTypeOK
<1>2. CASE UNCHANGED kernel
  BY <1>1, <1>2 DEF kernel
<1>3. CASE Len(queue) < MaxQueue /\ queue' = Append(queue, e) /\ UNCHANGED <<watching, lost>>
  <2>1. Len(queue) \in Nat /\ Len(queue') = Len(queue) + 1
    BY <1>1, <1>3
  <2>2. queue' \in Seq(Sentinels \cup {"other"})
    BY <1>1, <1>3
  <2> QED  BY <1>1, <1>3, <2>1, <2>2, GateAssumption
<1>4. CASE lost' = TRUE /\ UNCHANGED <<watching, queue>>
  BY <1>1, <1>4
<1> QED  BY <1>2, <1>3, <1>4 DEF Deliver

LEMMA StepGateTypes ==
    GateTypeInv /\ [GateNext]_gateVars => GateTypeInv'
<1> SUFFICES ASSUME GateTypeInv, [GateNext]_gateVars PROVE GateTypeInv'
  OBVIOUS
<1> USE GateAssumption
<1>1. CASE BackupGate
  BY <1>1 DEF BackupGate, GateTypeInv, GateTypeOK, gateFiles, kernel
<1>2. CASE ClockGate
  BY <1>2 DEF ClockGate, apply_ntp_fallback_time, GateTypeInv, GateTypeOK,
     gateFiles, kernel
<1>3. CASE Look
  <2>1. CASE Conclude("there")  BY <2>1, ConcludeTypes
  <2>2. CASE Goto("watch") /\ UNCHANGED <<kernel, nap>>
    BY <2>2 DEF Goto, GateTypeInv, GateTypeOK, gateFiles, kernel
  <2> QED  BY <1>3, <2>1, <2>2 DEF Look
<1>4. CASE Watch
  <2>1. CASE Conclude("failed")  BY <2>1, ConcludeTypes
  <2>2. CASE Goto("again") /\ watching' = TRUE /\ UNCHANGED <<queue, lost, nap>>
    BY <2>2 DEF Goto, GateTypeInv, GateTypeOK, gateFiles
  <2> QED  BY <1>4, <2>1, <2>2 DEF Watch
<1>5. CASE LookAgain
  <2>1. CASE Conclude("there")   BY <2>1, ConcludeTypes
  <2>2. CASE Conclude("failed")  BY <2>2, ConcludeTypes
  <2>3. CASE Goto("top") /\ UNCHANGED <<kernel, nap>>
    BY <2>3 DEF Goto, GateTypeInv, GateTypeOK, gateFiles, kernel
  <2> QED  BY <1>5, <2>1, <2>2, <2>3 DEF LookAgain
<1>6. CASE LoopHead
  <2>1. CASE Conclude("late")  BY <2>1, ConcludeTypes
  <2>2. CASE remaining > 0 /\ Goto("select") /\ nap' = Heartbeat /\ UNCHANGED kernel
    BY <2>2 DEF Goto, GateTypeInv, GateTypeOK, gateFiles, kernel
  <2>3. remaining \in Int  BY DEF GateTypeInv, GateTypeOK
  <2> QED  BY <1>6, <2>1, <2>2, <2>3 DEF LoopHead
<1>7. CASE SelectReturns
  BY <1>7 DEF SelectReturns, Goto, GateTypeInv, GateTypeOK, gateFiles,
     kernel
<1>8. CASE ReadEvents
  <2>1. CASE Conclude("there")  BY <2>1, ConcludeTypes
  <2>2. ASSUME NEW k \in 1..Len(queue), Goto("top"),
               queue' = SubSeq(queue, k + 1, Len(queue)), UNCHANGED <<watching, lost, nap>>
        PROVE  GateTypeInv'
    <3>1. queue' \in Seq(Sentinels \cup {"other"}) /\ Len(queue') <= MaxQueue
      BY <2>2 DEF GateTypeInv, GateTypeOK
    <3> QED  BY <2>2, <3>1 DEF Goto, GateTypeInv, GateTypeOK, gateFiles
  <2>3. CASE /\ noise < MaxNoise /\ gatePc' = "top" /\ noise' = noise + 1
             /\ UNCHANGED <<gate, remaining, outcome, refTime, gateFiles, kernel, nap>>
    BY <2>3 DEF GateTypeInv, GateTypeOK, gateFiles, kernel
  <2> QED  BY <1>8, <2>1, <2>2, <2>3 DEF ReadEvents
<1>9. CASE Nudge
  BY <1>9 DEF Nudge, GateTypeInv, GateTypeOK, kernel, Sentinels
<1>10. CASE SelectFails
  <2>1. CASE Conclude("failed")  BY <2>1, ConcludeTypes
  <2>2. CASE /\ noise < MaxNoise /\ gatePc' = "top" /\ noise' = noise + 1
             /\ UNCHANGED <<gate, remaining, outcome, refTime, gateFiles, kernel, nap>>
    BY <2>2 DEF GateTypeInv, GateTypeOK, gateFiles, kernel
  <2> QED  BY <1>10, <2>1, <2>2 DEF SelectFails
<1>11. ASSUME NEW s \in Sentinels, WriteSentinel(s) PROVE GateTypeInv'
  BY <1>11, DeliverTypes DEF WriteSentinel, GateTypeInv, GateTypeOK, thread
<1>12. CASE OtherFile
  BY <1>12, DeliverTypes DEF OtherFile, GateTypeInv, GateTypeOK, thread, gateFiles
<1>13. CASE Tick
  BY <1>13 DEF Tick, GateTypeInv, GateTypeOK, kernel
<1>14. CASE UNCHANGED gateVars
  BY <1>14 DEF gateVars, thread, gateFiles, kernel, GateTypeInv, GateTypeOK
<1> QED
  BY <1>1, <1>2, <1>3, <1>4, <1>5, <1>6, <1>7, <1>8, <1>9, <1>10, <1>11, <1>12,
     <1>13, <1>14 DEF GateNext, GateSetup

\* Every state is well typed; a wait overruns its deadline by less than a
\* heartbeat (the loop of wait_for_sentinel, strategies.c:253).
THEOREM GateTypesAreCorrect == GateSpec => []GateTypeOK
<1>1. GateTypeInv => GateTypeOK  BY DEF GateTypeInv
<1> QED  BY InitGateTypes, StepGateTypes, <1>1, PTL DEF GateSpec

-----------------------------------------------------------------------------
\* While the loop waits, a sentinel that was made is on the queue, unless the
\* queue overflowed; so no second passes with the sentinel there.  What is on
\* the queue was made.
Awaiting == gatePc \in {"top", "select", "read"}

WaitInv ==
    /\ Awaiting \/ gatePc = "again" => watching
    /\ Awaiting /\ made[gate] /\ ~lost => \E i \in 1..Len(queue) : queue[i] = gate
    /\ Awaiting /\ old[gate] => lost
    /\ \A i \in 1..Len(queue) : queue[i] \in Sentinels => made[queue[i]]
    /\ \A s \in Sentinels : old[s] => made[s]

LEMMA InitWait == GateInit => WaitInv
  BY DEF GateInit, WaitInv, Awaiting, Sentinels

LEMMA ConcludeWaits ==
    ASSUME GateTypeInv, WaitInv, NEW result, Conclude(result)
    PROVE  WaitInv'
<1>1. gatePc' \in {"proceed", "look", "nudge"} /\ queue' = <<>>
  BY DEF Conclude
<1> QED  BY <1>1 DEF Conclude, WaitInv, Awaiting, gateFiles

LEMMA DeliverWaits ==
    ASSUME GateTypeInv, WaitInv, NEW e \in Sentinels \cup {"other"},
           Deliver(e)
    PROVE  /\ watching' = watching /\ (lost => lost')
           /\ \A i \in 1..Len(queue) : i \in 1..Len(queue') /\ queue'[i] = queue[i]
           /\ watching /\ ~lost' => \E i \in 1..Len(queue') : queue'[i] = e
           /\ \A i \in 1..Len(queue') : i \in 1..Len(queue) \/ queue'[i] = e
           /\ Len(queue') \in Nat
<1> queue \in Seq(Sentinels \cup {"other"}) /\ Len(queue) \in Nat
  BY DEF GateTypeInv, GateTypeOK
<1>1. CASE queue' = Append(queue, e) /\ UNCHANGED <<watching, lost>>
  <2>1. Len(queue') = Len(queue) + 1 /\ queue'[Len(queue) + 1] = e
    BY <1>1
  <2>2. \A i \in 1..Len(queue) : queue'[i] = queue[i]
    BY <1>1
  <2> QED  BY <1>1, <2>1, <2>2
<1>2. CASE lost' = TRUE /\ UNCHANGED <<watching, queue>>
  BY <1>2
<1>3. CASE ~watching /\ UNCHANGED kernel
  BY <1>3 DEF kernel
<1> QED  BY <1>1, <1>2, <1>3 DEF Deliver

\* A step of the wait that stays in it and leaves the files and the queue.
LEMMA StaysWaiting ==
    ASSUME GateTypeInv, WaitInv, Awaiting, gate' = gate,
           UNCHANGED <<gateFiles, kernel>>
    PROVE  WaitInv'
  BY DEF WaitInv, Awaiting, gateFiles, kernel

LEMMA StepWait ==
    GateTypeInv /\ WaitInv /\ [GateNext]_gateVars => WaitInv'
<1> SUFFICES ASSUME GateTypeInv, WaitInv, [GateNext]_gateVars PROVE WaitInv'
  OBVIOUS
<1> /\ queue \in Seq(Sentinels \cup {"other"}) /\ Len(queue) \in Nat
    /\ made \in [Sentinels -> BOOLEAN] /\ old \in [Sentinels -> BOOLEAN]
    /\ gate \in Sentinels
  BY DEF GateTypeInv, GateTypeOK
<1>1. CASE BackupGate
  BY <1>1 DEF BackupGate, WaitInv, Awaiting, gateFiles, kernel
<1>2. CASE ClockGate
  BY <1>2 DEF ClockGate, WaitInv, Awaiting, gateFiles, kernel
<1>3. CASE Look
  <2>1. CASE Conclude("there")  BY <2>1, ConcludeWaits
  <2>2. CASE Goto("watch") /\ UNCHANGED <<kernel, nap>>
    BY <2>2 DEF Goto, WaitInv, Awaiting, gateFiles, kernel
  <2> QED  BY <1>3, <2>1, <2>2 DEF Look
<1>4. CASE Watch
  <2>1. CASE Conclude("failed")  BY <2>1, ConcludeWaits
  <2>2. CASE Goto("again") /\ watching' = TRUE /\ UNCHANGED <<queue, lost, nap>>
    BY <2>2 DEF Goto, WaitInv, Awaiting, gateFiles
  <2> QED  BY <1>4, <2>1, <2>2 DEF Watch
<1>5. CASE LookAgain
  <2>1. CASE Conclude("there")   BY <2>1, ConcludeWaits
  <2>2. CASE Conclude("failed")  BY <2>2, ConcludeWaits
  <2>3. CASE ~made[gate] /\ Goto("top") /\ UNCHANGED <<kernel, nap>>
    <3>1. ~old[gate] /\ watching  BY <1>5, <2>3 DEF LookAgain, WaitInv
    <3> QED  BY <2>3, <3>1 DEF Goto, WaitInv, Awaiting, gateFiles, kernel
  <2> QED  BY <1>5, <2>1, <2>2, <2>3 DEF LookAgain
<1>6. CASE LoopHead
  <2>1. CASE Conclude("late")  BY <2>1, ConcludeWaits
  <2>2. CASE Goto("select") /\ nap' = Heartbeat /\ UNCHANGED kernel
    BY <1>6, <2>2, StaysWaiting DEF LoopHead, Awaiting, Goto
  <2> QED  BY <1>6, <2>1, <2>2 DEF LoopHead
<1>7. CASE SelectReturns
  BY <1>7, StaysWaiting DEF SelectReturns, Wakes, Awaiting, Goto
<1>8. CASE ReadEvents
  <2>1. CASE Conclude("there")  BY <2>1, ConcludeWaits
  <2>2. ASSUME NEW k \in 1..Len(queue), ~Contains(SubSeq(queue, 1, k), gate),
               Goto("top"),
               queue' = SubSeq(queue, k + 1, Len(queue)), UNCHANGED <<watching, lost, nap>>
        PROVE  WaitInv'
    <3>1. /\ Len(queue') = Len(queue) - k
          /\ \A i \in 1..Len(queue') : queue'[i] = queue[i + k] /\ i + k \in 1..Len(queue)
      BY <2>2
    <3>2. \A i \in 1..k : queue[i] # gate
      <4>1. Len(SubSeq(queue, 1, k)) = k /\ \A i \in 1..k : SubSeq(queue, 1, k)[i] = queue[i]
        BY <2>2
      <4> QED  BY <2>2, <4>1 DEF Contains
    <3>3. ASSUME NEW i \in 1..Len(queue), queue[i] = gate
          PROVE  \E j \in 1..Len(queue') : queue'[j] = gate
      <4>1. i - k \in 1..Len(queue') /\ (i - k) + k = i  BY <3>1, <3>2, <3>3, <2>2
      <4> QED  BY <4>1, <3>1, <3>3
    <3>4. /\ Awaiting /\ gate' = gate /\ UNCHANGED gateFiles /\ lost' = lost /\ watching' = watching
      BY <1>8, <2>2 DEF ReadEvents, Awaiting, Goto
    <3>5. \A i \in 1..Len(queue') : queue'[i] \in Sentinels => made[queue'[i]]
      BY <3>1 DEF WaitInv
    <3> QED  BY <3>3, <3>4, <3>5 DEF WaitInv, Awaiting, gateFiles
  <2>3. CASE UNCHANGED <<gate, remaining, outcome, refTime, gateFiles, kernel, nap>>
    BY <1>8, <2>3, StaysWaiting DEF ReadEvents, Awaiting
  <2> QED  BY <1>8, <2>1, <2>2, <2>3 DEF ReadEvents
<1>9. CASE Nudge
  BY <1>9 DEF Nudge, WaitInv, Awaiting, kernel, Sentinels
<1>10. CASE SelectFails
  <2>1. CASE Conclude("failed")  BY <2>1, ConcludeWaits
  <2>2. CASE UNCHANGED <<gate, remaining, outcome, refTime, gateFiles, kernel, nap>>
    BY <1>10, <2>2, StaysWaiting DEF SelectFails, Awaiting
  <2> QED  BY <1>10, <2>1, <2>2 DEF SelectFails
<1>11. ASSUME NEW s \in Sentinels, WriteSentinel(s) PROVE WaitInv'
  <2>1. Deliver(s) /\ made' = [made EXCEPT ![s] = TRUE] /\ old' = old /\ UNCHANGED thread
    BY <1>11 DEF WriteSentinel
  <2>2. /\ gate' = gate /\ (Awaiting' <=> Awaiting) /\ (gatePc' = gatePc) /\ made'[s]
        /\ \A t \in Sentinels : made'[t] <=> made[t] \/ t = s
    BY <2>1 DEF thread, Awaiting
  <2>3. watching' = watching /\ (lost => lost')
    BY <2>1, DeliverWaits
  <2>4. ASSUME Awaiting', made'[gate'], ~lost' PROVE \E i \in 1..Len(queue') : queue'[i] = gate'
    <3>1. CASE gate = s
      BY <2>1, <2>2, <2>4, <3>1, DeliverWaits DEF WaitInv
    <3>2. CASE gate # s
      <4>1. PICK i \in 1..Len(queue) : queue[i] = gate
        BY <2>2, <2>3, <2>4, <3>2 DEF WaitInv
      <4> QED  BY <2>1, <2>2, <4>1, DeliverWaits
    <3> QED  BY <3>1, <3>2
  <2>5. ASSUME NEW i \in 1..Len(queue'), queue'[i] \in Sentinels PROVE made'[queue'[i]]
    <3>1. CASE i \in 1..Len(queue) /\ queue'[i] = queue[i]
      BY <2>2, <2>5, <3>1 DEF WaitInv
    <3>2. CASE queue'[i] = s
      BY <2>2, <3>2
    <3> QED  BY <2>1, <2>5, <3>1, <3>2, DeliverWaits
  <2> QED  BY <2>1, <2>2, <2>3, <2>4, <2>5 DEF WaitInv
<1>12. CASE OtherFile
  <2>1. Deliver("other") /\ UNCHANGED thread /\ UNCHANGED gateFiles
    BY <1>12 DEF OtherFile
  <2>2. /\ gate' = gate /\ (Awaiting' <=> Awaiting) /\ gatePc' = gatePc /\ made' = made /\ old' = old
        /\ watching' = watching /\ (lost => lost')
    BY <2>1, DeliverWaits DEF thread, gateFiles, Awaiting
  <2>3. ASSUME Awaiting', made'[gate'], ~lost' PROVE \E i \in 1..Len(queue') : queue'[i] = gate'
    <3>1. PICK i \in 1..Len(queue) : queue[i] = gate
      BY <2>2, <2>3 DEF WaitInv
    <3> QED  BY <2>1, <2>2, <3>1, DeliverWaits
  <2>4. ASSUME NEW i \in 1..Len(queue'), queue'[i] \in Sentinels PROVE made'[queue'[i]]
    <3>1. CASE i \in 1..Len(queue) /\ queue'[i] = queue[i]
      BY <2>2, <2>4, <3>1 DEF WaitInv
    <3>2. CASE queue'[i] = "other"
      BY <2>4, <3>2 DEF Sentinels
    <3> QED  BY <2>1, <2>4, <3>1, <3>2, DeliverWaits
  <2> QED  BY <2>2, <2>3, <2>4 DEF WaitInv
<1>13. CASE Tick
  <2>1. Len(queue) = 0 /\ Awaiting  BY <1>13 DEF Tick, Awaiting
  <2>2. made[gate] => lost  BY <2>1 DEF WaitInv
  <2>3. /\ gatePc' = gatePc /\ gate' = gate /\ old' = made /\ made' = made
        /\ queue' = queue /\ watching' = watching /\ lost' = lost
    BY <1>13 DEF Tick, kernel
  <2>4. (Awaiting \/ gatePc = "again" => watching)' /\ (Awaiting /\ old[gate] => lost)'
    BY <2>2, <2>3 DEF WaitInv, Awaiting
  <2>5. (Awaiting /\ made[gate] /\ ~lost => \E i \in 1..Len(queue) : queue[i] = gate)'
    BY <2>2, <2>3
  <2>6. (\A i \in 1..Len(queue) : queue[i] \in Sentinels => made[queue[i]])'
    BY <2>3 DEF WaitInv
  <2>7. (\A s \in Sentinels : old[s] => made[s])'
    BY <2>3
  <2> QED  BY <2>4, <2>5, <2>6, <2>7 DEF WaitInv
<1>14. CASE UNCHANGED gateVars
  BY <1>14 DEF gateVars, thread, gateFiles, kernel, WaitInv, Awaiting
<1> QED
  BY <1>1, <1>2, <1>3, <1>4, <1>5, <1>6, <1>7, <1>8, <1>9, <1>10, <1>11, <1>12,
     <1>13, <1>14 DEF GateNext, GateSetup

\* OutcomeIsTrue at one step.
TrueStep == \A s \in Sentinels : outcome[s] = "none" =>
                /\ outcome'[s] = "there" => made[s]
                /\ outcome'[s] = "late" => ~old[s] \/ lost

LEMMA ConcludeOutcome ==
    ASSUME GateTypeInv, NEW result, Conclude(result),
           result = "there" => made[gate], result = "late" => ~old[gate] \/ lost
    PROVE  TrueStep
  BY DEF GateTypeInv, GateTypeOK, Conclude, TrueStep

LEMMA StepOutcomeTrue ==
    GateTypeInv /\ WaitInv /\ [GateNext]_gateVars => TrueStep
<1> SUFFICES ASSUME GateTypeInv, WaitInv, [GateNext]_gateVars PROVE TrueStep
  OBVIOUS
<1>1. CASE UNCHANGED outcome
  BY <1>1 DEF TrueStep
<1>2. CASE Conclude("failed")
  BY <1>2, ConcludeOutcome
<1>3. CASE Look
  BY <1>1, <1>3, ConcludeOutcome DEF Look, Goto
<1>4. CASE Watch
  BY <1>1, <1>2, <1>4 DEF Watch, Goto
<1>5. CASE LookAgain
  BY <1>1, <1>2, <1>5, ConcludeOutcome DEF LookAgain, Goto
<1>6. CASE LoopHead
  <2>1. ~old[gate] \/ lost  BY <1>6 DEF LoopHead, WaitInv, Awaiting
  <2> QED  BY <1>1, <1>6, <2>1, ConcludeOutcome DEF LoopHead, Goto
<1>7. CASE ReadEvents
  <2>1. ASSUME NEW k \in 1..Len(queue), Contains(SubSeq(queue, 1, k), gate),
               Conclude("there")
        PROVE  TrueStep
    <3>1. PICK i \in 1..k : queue[i] = gate
      <4>1. Len(SubSeq(queue, 1, k)) = k /\ \A i \in 1..k : SubSeq(queue, 1, k)[i] = queue[i]
        BY <2>1 DEF GateTypeInv, GateTypeOK
      <4> QED  BY <2>1, <4>1 DEF Contains
    <3>2. made[gate]
      BY <2>1, <3>1 DEF WaitInv, GateTypeInv, GateTypeOK
    <3> QED  BY <2>1, <3>2, ConcludeOutcome
  <2> QED  BY <1>1, <1>7, <2>1 DEF ReadEvents, Goto
<1>8. CASE SelectFails
  BY <1>1, <1>2, <1>8 DEF SelectFails
<1>9. CASE \/ BackupGate \/ ClockGate \/ SelectReturns \/ Nudge
           \/ OtherFile \/ Tick
           \/ (\E s \in Sentinels : WriteSentinel(s)) \/ UNCHANGED gateVars
  BY <1>1, <1>9 DEF BackupGate, ClockGate, SelectReturns, Nudge,
     OtherFile, Tick, WriteSentinel,
                    Goto, gateVars, thread
<1> QED
  BY <1>3, <1>4, <1>5, <1>6, <1>7, <1>8, <1>9 DEF GateNext, GateSetup

\* A wait that reports its sentinel is right, and one that gives up at the
\* deadline is at most a second wrong unless the kernel dropped events
\* (wait_for_sentinel, strategies.c:217), for every timeout and queue.
THEOREM GateOutcomesAreTrue == GateSpec => OutcomeIsTrue
<1>1. GateInit => GateTypeInv /\ WaitInv
  BY InitGateTypes, InitWait
<1>2. (GateTypeInv /\ WaitInv) /\ [GateNext]_gateVars => (GateTypeInv /\ WaitInv)'
  BY StepGateTypes, StepWait
<1>3. (GateTypeInv /\ WaitInv) /\ [GateNext]_gateVars => [TrueStep]_gateVars
  BY StepOutcomeTrue
<1> QED
  BY <1>1, <1>2, <1>3, PTL DEF GateSpec, OutcomeIsTrue, TrueStep
=================================================================================
