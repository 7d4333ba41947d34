--------------------------- MODULE UploadStrategies ----------------------------
(***************************************************************************)
(* The upload runs of a device, one after another (UploadLock), over the   *)
(* files they share: PreviousLogs, the permanent directories its logs move *)
(* to, and the batch list of those that a DCM upload is to send. A run is  *)
(* made by dcmd, whose statics outlive it, or by the command line program, *)
(* which also serves uploads on request ("now") without a strategy handler.*)
(* A strategy has four phases, and the last one, the cleanup, follows      *)
(* whichever phase failed. The upload itself is UploadEngine; only its     *)
(* outcome matters here. BackupLogs assembles PreviousLogs at each boot,   *)
(* SyncGates has the waits of the reboot strategy.                         *)
(*                                                                         *)
(* A boot stands for the logs that its backup brings to PreviousLogs, a    *)
(* directory name for the time it is made of. Names are unique.            *)
(***************************************************************************)
EXTENDS Integers, Sequences, FiniteSets

CONSTANTS Dirs,      \* names of permanent directories
          MaxBoots,  \* bound: boots
          MaxRuns    \* bound: upload runs

NoDir == "none"

ASSUME StrategiesAssumption == NoDir \notin Dirs /\ MaxBoots \in Nat \ {0} /\ MaxRuns \in Nat

VARIABLES
  device,   \* DEVICE_TYPE and ENABLE_MAINTENANCE
  boot,     \* number of this boot
  there,    \* its backup has moved the logs to PreviousLogs
  done,     \* BACKUP_LOGS_DONE_FLAG
  prev,     \* PreviousLogs: files without prefix, with bak prefix, stamped by this run,
            \* stamped by a run that was killed
  perm,     \* content of the permanent directories
  list,     \* directories in the batch list, LOG_PATH/dcm_upload
  statics,  \* perm_log_path_storage, and whether g_timestamp_prefix is set
  pc,       \* where the run is
  run,      \* its parameters, as far as they matter later, and its session
  packed,   \* the logs in its working directory or archive
  events,   \* the events it has sent, of an upload to the system manager ("success", "failed")
            \* and to the maintenance manager ("complete", "error"), or "lost" for what got lost
  left,     \* working directories in use and archives that exist
  sent,     \* history: logs that the server has got from the run
  owed,     \* history: directories of batching runs that no DCM upload has read
  runs,     \* history: how many runs there were
  trouble   \* history: "kill" or "disk" trouble so far

files == <<prev, perm, list, left>>
history == <<sent, owed, runs, trouble>>
vars == <<device, boot, there, done, files, statics, pc, run, packed, events, history>>

Boots == 1 .. MaxBoots
Processes == {"dcmd", "cli"}
Types == {"mediaclient", "broadband"}  \* others are like a mediaclient that shares its logs
Strategies == {"rrd", "privacy", "ondemand", "reboot", "dcm", "now"}
Statuses == {"none", "Triggered", "No files to upload", "In progress", "Failed", "Complete"}
NoRun == {"idle", "over"}

\* The type invariant; among others, that a run exits with 0 or 1.
TypeOK ==
  /\ device \in [type : Types, maintained : BOOLEAN]
  /\ boot \in Boots /\ there \in BOOLEAN /\ done \in BOOLEAN
  /\ prev \in [base : SUBSET Boots, bak : SUBSET Boots, own : SUBSET Boots, old : SUBSET Boots]
  /\ perm \in [Dirs -> SUBSET Boots] /\ list \subseteq Dirs
  /\ statics \in [Processes -> [path : Dirs \cup {NoDir}, prefix : BOOLEAN]]
  /\ pc \in NoRun \cup {"start", "gate", "look", "prepare", "copy", "flag", "batch", "collect",
                        "archive", "upload", "dri", "cleanup", "keep", "enlist"}
  /\ run \in [who : Processes, strategy : Strategies, batching : BOOLEAN,
              located : BOOLEAN, success : BOOLEAN, ret : {0, -1}, exit : {0, 1},
              status : Statuses]
  /\ packed \subseteq Boots /\ sent \subseteq Boots /\ owed \subseteq Dirs
  /\ events \subseteq {"success", "failed", "complete", "error", "lost"}
  /\ left \subseteq {"tar", "dcm", "ondemand"}
  /\ runs \in 0 .. MaxRuns /\ trouble \subseteq {"kill", "disk"}

FreshStatics == [path |-> NoDir, prefix |-> FALSE]
NoLogs == [base |-> {}, bak |-> {}, own |-> {}, old |-> {}]
LogJobCall ==
  [now |-> FALSE, flag |-> FALSE, dcm |-> TRUE, uor |-> FALSE, ondemand |-> FALSE, rrd |-> FALSE]

\* located: archive_file is a whole path; create_archive sets it to a name only. A run
\* batches if DCM settings are in force without an upload at every reboot. status is
\* what an upload on request has last written to the status file.
NewRun(who, call, strategy) ==
  [who |-> who, strategy |-> strategy,
   batching |-> strategy \in {"reboot", "dcm"} /\ call.dcm /\ ~call.uor,
   located |-> FALSE, success |-> FALSE, ret |-> 0, exit |-> 1, status |-> "none"]

Nobody == NewRun("dcmd", LogJobCall, "dcm")

\* ENABLE_MAINTENANCE may be missing, or say anything.
load_environment(type, maintenance) == [type |-> type, maintained |-> maintenance = "true"]

Init ==
  /\ \E type \in Types, maintenance \in {"true", "false", "missing"} :
       device = load_environment(type, maintenance)
  /\ boot = 1 /\ there = FALSE /\ done = FALSE
  /\ prev = NoLogs /\ perm = [d \in Dirs |-> {}] /\ list = {} /\ left = {}
  /\ statics = [p \in Processes |-> FreshStatics]
  /\ pc = "idle" /\ run = Nobody /\ packed = {} /\ events = {}
  /\ sent = {} /\ owed = {} /\ runs = 0 /\ trouble = {}

-----------------------------------------------------------------------------
(* The start of a run.                                                     *)

\* The command lines: the words that matter at each place. A line may end anywhere.
CommandLines ==
  {SubSeq(<<first, flag, dcm, uor, "HTTPS", "link", trigger, rrd, "archive">>, 1, length) :
     first \in {"uploadlogsnow", "server"}, flag \in {"0", "1"}, dcm \in {"0", "1"},
     uor \in {"false", "true", "1"}, trigger \in {"cron", "ondemand"},
     rrd \in {"false", "true"}, length \in 0 .. 9}

\* What is not said is zero. After uploadlogsnow nothing else is looked at.
parse_args(line) ==
  LET Says(i, words) == i <= Len(line) /\ line[i] \in words
      now == Says(1, {"uploadlogsnow"})
  IN  [now |-> now, flag |-> now \/ Says(2, {"1"}), dcm |-> now \/ Says(3, {"1"}),
       uor |-> now \/ Says(4, {"true", "1"}), ondemand |-> now \/ Says(7, {"ondemand"}),
       rrd |-> ~now /\ Says(8, {"true"})]

CommandLineCalls == {parse_args(line) : line \in CommandLines}

\* dcmd uploads once or twice for each configuration, and whenever the log job fires.
Calls(who) ==
  IF who = "cli" THEN CommandLineCalls
  ELSE {LogJobCall} \cup {[LogJobCall EXCEPT !.flag = TRUE, !.uor = u] : u \in BOOLEAN}

\* early_checks; non-DCM uploads have the handler of reboot uploads.
EarlyChecks(type, call, private) ==
  IF call.rrd THEN "rrd"
  ELSE IF type = "mediaclient" /\ private THEN "privacy"
  ELSE IF ~call.dcm THEN "reboot"
  ELSE IF call.flag THEN IF call.ondemand THEN "ondemand" ELSE "reboot"
  ELSE "dcm"

\* A parameter has one of its values, unless rbus cannot tell.
rbus_get_string_param(values) == values \cup {"unknown"}

\* The privacy mode, when it is known; otherwise logs may be shared.
load_tr181_params ==
  {mode = "DO_NOT_SHARE" : mode \in rbus_get_string_param({"DO_NOT_SHARE", "SHARE"})}

\* The runs that begin, by device type. An upload on request does not come to
\* early_checks, nor to their privacy mode.
Beginnings ==
  UNION {{[type |-> type,
           run |-> NewRun(who, call, IF call.now THEN "now" ELSE EarlyChecks(type, call, private))] :
             call \in Calls(who), private \in load_tr181_params} : type \in Types, who \in Processes}

Start(who) ==
  /\ pc \in NoRun
  /\ runs < MaxRuns /\ runs' = runs + 1
  /\ run' \in {b.run : b \in {c \in Beginnings : c.type = device.type /\ c.run.who = who}}
  /\ statics' = IF who = "cli" THEN [statics EXCEPT ![who] = FreshStatics] ELSE statics
  /\ pc' = "start" /\ packed' = {} /\ events' = {} /\ sent' = {}
  /\ UNCHANGED <<device, boot, there, done, files, owed, trouble>>

-----------------------------------------------------------------------------
(* What a run tells the system and the maintenance manager, and its exit   *)
(* status.                                                                 *)

\* Whether there is a connection to the bus, which each message tries to make anew as
\* long as there is none.
init_iarm_connection == BOOLEAN

\* A message gets lost without a connection, or if the bus does not take it. Nobody
\* looks at that.
Sent(told, event) ==
  {told \cup {IF connected /\ taken THEN event ELSE "lost"} :
     connected \in init_iarm_connection, taken \in BOOLEAN}

send_iarm_event(event) == Sent(events, event)
send_iarm_event_maintenance(event) == Sent(events, event)
SendBoth(event, maintenance) == UNION {Sent(told, maintenance) : told \in send_iarm_event(event)}

Announces == device.type # "broadband" /\ device.maintained

emit_privacy_abort == send_iarm_event_maintenance("complete")
emit_folder_missing_error == send_iarm_event_maintenance("complete")
emit_upload_aborted == SendBoth("failed", "error")

\* Nothing is said of an upload on request, and the maintenance manager does not hear
\* of the success of RRD, but of its failure.
Outcome(ok) ==
  LET event == IF ok THEN "success" ELSE "failed"
  IN  IF run.strategy = "now" THEN {events}
      ELSE IF ~Announces \/ (ok /\ run.strategy = "rrd") THEN send_iarm_event(event)
      ELSE SendBoth(event, IF ok THEN "complete" ELSE "error")

\* The exit status, after a workflow that returned ret.
Exit(ret) ==
  run' = [run EXCEPT !.ret = ret, !.exit = IF ret = 0 /\ run.success THEN 0 ELSE 1]

\* Whether there is a connection to rbus, and a MAC address. Only the first lasts.
rbus_init == BOOLEAN
get_mac_address == BOOLEAN

\* Without either there is no context, and no upload of any kind.
NoContext ==
  /\ pc = "start"
  /\ \E bus \in rbus_init, mac \in get_mac_address : ~(bus /\ mac)
  /\ pc' = "over"
  /\ UNCHANGED <<device, boot, there, done, files, statics, run, packed, events, history>>

\* The system is not valid; a missing PreviousLogs is announced as a completion.
Rejected ==
  /\ pc = "start" /\ run.strategy # "now"
  /\ \/ UNCHANGED events
     \/ run.strategy # "rrd" /\ events' \in emit_folder_missing_error
  /\ pc' = "over"
  /\ UNCHANGED <<device, boot, there, done, files, statics, run, packed, history>>

\* enforce_privacy empties all files in LOG_PATH, the batch list among them.
Privacy ==
  /\ pc = "start" /\ run.strategy = "privacy"
  /\ list' = {} /\ owed' = {}
  /\ events' \in emit_privacy_abort
  /\ run' = [run EXCEPT !.exit = 0]
  /\ pc' = "over"
  /\ UNCHANGED <<device, boot, there, done, prev, perm, left, statics, packed, sent, runs, trouble>>

\* An RRD archive is uploaded as it is, if it is there.
Rrd ==
  /\ pc = "start" /\ run.strategy = "rrd"
  /\ \/ UNCHANGED <<run, events>>
     \/ \E ok \in BOOLEAN :
          /\ run' = [run EXCEPT !.success = ok, !.exit = IF ok THEN 0 ELSE 1]
          /\ events' \in Outcome(ok)
  /\ pc' = "over"
  /\ UNCHANGED <<device, boot, there, done, files, statics, packed, history>>

\* cleanup_old_archives removes every archive under LOG_PATH.
CleanupOldArchives == left' = left \ {"tar"}

\* execute_strategy_workflow begins with it and goes on with the setup phase.
Workflow ==
  /\ pc = "start"
  /\ pc' = CASE run.strategy = "reboot" -> "gate"
             [] run.strategy = "ondemand" -> "look"
             [] run.strategy = "dcm" -> "copy"
             [] OTHER -> pc
  /\ pc' # pc
  /\ CleanupOldArchives
  /\ UNCHANGED <<device, boot, there, done, prev, perm, list, statics, run, packed, events, history>>

\* A phase fails, having done what else the action says; the cleanup follows.
FailPhase == run' = [run EXCEPT !.ret = -1] /\ pc' = "cleanup"

Disk(wrong) == trouble' = IF wrong THEN trouble \cup {"disk"} ELSE trouble

-----------------------------------------------------------------------------
(* The setup phases.                                                       *)

\* reboot_setup gives up without the sentinel of backup_logs. Its waits for the clock,
\* the reboot reason and telemetry end by themselves and refuse nothing.
Gate ==
  /\ pc = "gate"
  /\ IF done THEN pc' = "look" /\ UNCHANGED run ELSE FailPhase
  /\ UNCHANGED <<device, boot, there, done, files, statics, packed, events, history>>

PreviousLogs == prev.base \cup prev.bak \cup prev.own \cup prev.old

\* A reboot upload and an upload on demand that find no logs announce that they are
\* complete; only the former asks for the device type.
NothingToUpload ==
  IF device.maintained /\ (run.strategy = "reboot" => device.type # "broadband")
  THEN send_iarm_event_maintenance("complete") ELSE {events}

\* Without logs the setup fails, as it does, without a word, for want of a directory.
LookReboot ==
  /\ pc = "look" /\ run.strategy = "reboot"
  /\ \/ PreviousLogs # {} /\ pc' = "prepare" /\ UNCHANGED <<run, events>>
     \/ PreviousLogs = {} /\ FailPhase /\ events' \in {events} \cup NothingToUpload
  /\ UNCHANGED <<device, boot, there, done, files, statics, packed, history>>

\* ondemand_setup makes its directory in /tmp anew if LOG_PATH has logs, ...
LookOndemand ==
  /\ pc = "look" /\ run.strategy = "ondemand"
  /\ \/ FailPhase /\ events' \in {events} \cup NothingToUpload /\ UNCHANGED left
     \/ FailPhase /\ left' = left \ {"ondemand"} /\ UNCHANGED events
     \/ pc' = "collect" /\ left' = left \cup {"ondemand"} /\ UNCHANGED <<run, events>>
  /\ UNCHANGED <<device, boot, there, done, prev, perm, list, statics, packed, history>>

\* ... and copies the logs of this boot to it. No file may be copied.
collect_logs ==
  /\ pc = "collect" /\ run.strategy = "ondemand"
  /\ FailPhase \/ (pc' = "archive" /\ UNCHANGED run)
  /\ UNCHANGED <<device, boot, there, done, files, statics, packed, events, history>>

\* cleanup_old_log_backups removes the permanent directories older than three days,
\* whether they are on the list or not.
CleanupOldLogBackups ==
  \E expired \in SUBSET {d \in Dirs : perm[d] # {}} :
    perm' = [d \in Dirs |-> IF d \in expired THEN {} ELSE perm[d]]

\* The rest of reboot_setup: old directories go, this run's is named, and the files of
\* PreviousLogs without a bak prefix are stamped.
Prepare(d) ==
  /\ pc = "prepare"
  /\ \A p \in Processes : statics[p].path # d
  /\ perm[d] = {} /\ d \notin list \cup owed
  /\ CleanupOldLogBackups
  /\ statics' = [statics EXCEPT ![run.who] = [path |-> d, prefix |-> TRUE]]
  /\ prev' = [prev EXCEPT !.base = {}, !.own = prev.base]
  /\ owed' = IF run.batching THEN owed \cup {d} ELSE owed
  /\ pc' = "archive"
  /\ UNCHANGED <<device, boot, there, done, list, left, run, packed, events, sent, runs, trouble>>

\* What the copy of LOG_PATH takes along of the logs that are followed: all files and
\* directories, the permanent ones among them, or regular files only.
copy_all_files_to_dcm == UNION {perm[d] : d \in Dirs}
copy_opt_logs_files == {}

\* dcm_setup makes DCM_LOG_PATH anew and copies LOG_PATH there, ...
Copy ==
  /\ pc = "copy"
  /\ \/ FailPhase /\ left' \in {left, left \ {"dcm"}} /\ UNCHANGED packed
     \/ /\ left' = left \cup {"dcm"}
        /\ packed' = IF run.batching THEN copy_opt_logs_files ELSE copy_all_files_to_dcm
        /\ pc' = "flag"
        /\ UNCHANGED run
  /\ UNCHANGED <<device, boot, there, done, prev, perm, list, statics, events, history>>

\* upload_flag in DCMSettings.conf, which says FALSE if it lacks the line, and TRUE if
\* it is not there at all.
read_dcm_upload_flag ==
  {flag # "false" /\ flag # "none" : flag \in {"true", "false", "none", "no file"}}

\* ... before it looks at upload_flag. What it stamps are copies.
dcm_setup ==
  /\ pc = "flag"
  /\ \E upload_flag \in read_dcm_upload_flag :
       IF upload_flag
         THEN /\ statics' = [statics EXCEPT ![run.who].prefix = TRUE]
              /\ pc' = IF run.batching THEN "batch" ELSE "archive"
              /\ UNCHANGED run
         ELSE FailPhase /\ UNCHANGED statics
  /\ UNCHANGED <<device, boot, there, done, files, packed, events, history>>

\* process_dcm_upload_list: the directories in the list are copied too, and the list
\* is emptied.
ReadList ==
  /\ pc = "batch"
  /\ packed' = packed \cup UNION {perm[d] : d \in list}
  /\ list' = {} /\ owed' = owed \ list
  /\ pc' = "archive"
  /\ UNCHANGED <<device, boot, there, done, prev, perm, left, statics, run, events, sent, runs, trouble>>

-----------------------------------------------------------------------------
(* The upload on request, up to its archive.                               *)

write_upload_status(status) == run' = [run EXCEPT !.status = status]

\* It gives up: the status file says so, and the working directory goes.
Fails == run' = [run EXCEPT !.status = "Failed", !.ret = -1] /\ pc' = "cleanup"

\* DCM_LOG_PATH is made if it is not there; what is in it stays.
RequestSetup ==
  /\ pc = "start" /\ run.strategy = "now"
  /\ \/ run' = [run EXCEPT !.status = "Failed", !.ret = -1] /\ pc' = "over" /\ UNCHANGED left
     \/ write_upload_status("Triggered") /\ pc' = "collect" /\ left' = left \cup {"dcm"}
  /\ UNCHANGED <<device, boot, there, done, prev, perm, list, statics, packed, events, history>>

\* The copies are stamped, which the process remembers as if they were its PreviousLogs.
add_timestamp_to_files_uploadlogsnow == statics' = [statics EXCEPT ![run.who].prefix = TRUE]

\* The files of LOG_PATH are copied, and the copies stamped; with none to copy that is
\* all. Directories are no files: the permanent ones are not taken along.
RequestCopy ==
  /\ pc = "collect" /\ run.strategy = "now"
  /\ \/ Fails /\ UNCHANGED statics
     \/ write_upload_status("No files to upload") /\ pc' = "cleanup" /\ UNCHANGED statics
     \/ /\ write_upload_status("In progress") /\ pc' = "archive"
        /\ add_timestamp_to_files_uploadlogsnow
  /\ UNCHANGED <<device, boot, there, done, files, packed, events, history>>

-----------------------------------------------------------------------------
(* The archive and the upload phases.                                      *)

\* create_archive packs the working directory, where the archive is made, too; it
\* removes an archive it could not finish.
create_archive(strategy, OnFailure) ==
  /\ pc = "archive" /\ run.strategy = strategy
  /\ OnFailure \/ (pc' = "upload" /\ UNCHANGED run)
  /\ UNCHANGED <<device, boot, there, done, files, statics, packed, events, history>>

ArchiveDcm == create_archive("dcm", FailPhase)
ArchiveOndemand == create_archive("ondemand", FailPhase)
ArchiveRequest == create_archive("now", Fails)

\* A reboot upload packs PreviousLogs where they are.
ArchivePrevious ==
  /\ pc = "archive" /\ run.strategy = "reboot"
  /\ \/ FailPhase /\ UNCHANGED <<packed, left>>
     \/ packed' = PreviousLogs /\ left' = left \cup {"tar"} /\ pc' = "upload" /\ UNCHANGED run
  /\ UNCHANGED <<device, boot, there, done, prev, perm, list, statics, events, history>>

\* Variant: archive_file stays a name.
RefuseUnlocated ==
  /\ pc = "upload" /\ run.strategy = "reboot" /\ run.batching
  /\ events' \in emit_upload_aborted
  /\ pc' = "cleanup"
  /\ UNCHANGED <<device, boot, there, done, files, statics, run, packed, history>>

\* A batching device uploads after a reboot only if that was not scheduled and its
\* RFC allows it; the emission of the refusal looks at nothing. It is no failure.
Refuse ==
  /\ pc = "upload" /\ run.strategy = "reboot" /\ run.batching
  /\ events' \in emit_upload_aborted
  /\ run' = [run EXCEPT !.located = TRUE]
  /\ pc' = "cleanup"
  /\ UNCHANGED <<device, boot, there, done, files, statics, packed, history>>

\* What the upload phases and the upload on request have in common: the outcome is
\* announced by the engine.
upload_archive(strategy, ok) ==
  /\ pc = "upload" /\ run.strategy = strategy
  /\ events' \in Outcome(ok)
  /\ sent' = IF ok THEN sent \cup packed ELSE sent
  /\ UNCHANGED <<device, boot, there, done, files, statics, packed, owed, runs, trouble>>

Uploaded(ok) == [run EXCEPT !.located = TRUE, !.success = ok, !.ret = IF ok THEN 0 ELSE -1]

UploadDcm(ok) == upload_archive("dcm", ok) /\ run' = Uploaded(ok) /\ pc' = "cleanup"
UploadOndemand(ok) == upload_archive("ondemand", ok) /\ run' = Uploaded(ok) /\ pc' = "cleanup"
UploadPrevious(ok) == upload_archive("reboot", ok) /\ run' = Uploaded(ok) /\ pc' = "dri"

\* Only the upload on request writes the outcome down.
UploadRequest(ok) ==
  /\ upload_archive("now", ok)
  /\ run' = [Uploaded(ok) EXCEPT !.status = IF ok THEN "Complete" ELSE "Failed"]
  /\ pc' = "cleanup"

\* The DRI logs, if there are any, are a second upload, with a session of its own that
\* reports like the first one.
Dri ==
  /\ pc = "dri"
  /\ events' \in {events} \cup Outcome(TRUE) \cup Outcome(FALSE)
  /\ pc' = "cleanup"
  /\ UNCHANGED <<device, boot, there, done, files, statics, run, packed, history>>

-----------------------------------------------------------------------------
(* The cleanup phases.                                                     *)

\* remove_directory may fail: the working directory stays, and so does the archive.
remove_directory(strategy) ==
  /\ pc = "cleanup" /\ run.strategy = strategy
  /\ \/ left' = left \ {strategy} /\ Exit(run.ret) /\ UNCHANGED trouble
     \/ strategy \in left /\ Exit(-1) /\ Disk(TRUE) /\ UNCHANGED left
  /\ pc' = "over"
  /\ UNCHANGED <<device, boot, there, done, prev, perm, list, statics, packed, events, sent, owed, runs>>

dcm_cleanup == remove_directory("dcm")
ondemand_cleanup == remove_directory("ondemand")

\* Variant: what a failing removal returns is the result.
RequestEndsAsRemoval ==
  /\ pc = "cleanup" /\ run.strategy = "now"
  /\ \/ left' = left \ {"dcm"} /\ run' = [run EXCEPT !.exit = 0] /\ UNCHANGED trouble
     \/ run' = [run EXCEPT !.exit = 1] /\ Disk(TRUE) /\ UNCHANGED left
  /\ pc' = "over"
  /\ UNCHANGED <<device, boot, there, done, prev, perm, list, statics, packed, events, sent, owed, runs>>

\* The upload on request ends with its result, though the directory may not go.
RequestEnds ==
  /\ pc = "cleanup" /\ run.strategy = "now"
  /\ \/ left' = left \ {"dcm"} /\ UNCHANGED trouble
     \/ Disk(TRUE) /\ UNCHANGED left
  /\ run' = [run EXCEPT !.exit = IF run.ret = 0 THEN 0 ELSE 1]
  /\ pc' = "over"
  /\ UNCHANGED <<device, boot, there, done, prev, perm, list, statics, packed, events, sent, owed, runs>>

\* remove_timestamp_from_files: a process that has stamped restores the names of its
\* own stamp; one that has not restores any stamped name, over a file that has it.
Restored(process) ==
  IF statics[process].prefix
  THEN {[prev EXCEPT !.base = prev.base \cup prev.own, !.own = {}]}
  ELSE IF prev.old = {} THEN {prev}
  ELSE {[prev EXCEPT !.base = {b}, !.old = {}] : b \in prev.old}

\* reboot_cleanup, also after a setup that has stamped nothing. The archive goes if
\* archive_file says where it is.
Restore ==
  /\ pc = "cleanup" /\ run.strategy = "reboot"
  /\ left' = IF run.located THEN left \ {"tar"} ELSE left
  /\ prev' \in Restored(run.who)
  /\ pc' = "keep"
  /\ UNCHANGED <<device, boot, there, done, perm, list, statics, run, packed, events, history>>

Path == statics[run.who].path

\* Variant: PreviousLogs is emptied though nothing could be moved.
KeepAnyway ==
  /\ pc = "keep"
  /\ Path = NoDir
  /\ Exit(-1)
  /\ prev' = NoLogs
  /\ pc' = "over"
  /\ UNCHANGED <<device, boot, there, done, perm, list, left, statics, packed, events, history>>

\* Without a permanent directory, since none was named or it cannot be made, the logs
\* stay in PreviousLogs.
NoPermanentDir ==
  /\ pc = "keep"
  /\ Disk(Path # NoDir)
  /\ Exit(-1)
  /\ pc' = "over"
  /\ UNCHANGED <<device, boot, there, done, files, statics, packed, events, sent, owed, runs>>

\* The logs move there, and what could not be moved is removed.
Keep ==
  /\ pc = "keep" /\ Path # NoDir
  /\ \E moved \in SUBSET PreviousLogs :
       /\ perm' = [perm EXCEPT ![Path] = @ \cup moved]
       /\ Disk(moved # PreviousLogs)
  /\ prev' = NoLogs
  /\ pc' = "enlist"
  /\ UNCHANGED <<device, boot, there, done, list, left, statics, run, packed, events, sent, owed, runs>>

\* Variant: only a directory whose logs were uploaded gets on the list.
EnlistOnSuccess ==
  /\ pc = "enlist"
  /\ list' = IF run.batching /\ run.success THEN list \cup {Path} ELSE list
  /\ Exit(run.ret)
  /\ pc' = "over"
  /\ UNCHANGED <<device, boot, there, done, prev, perm, left, statics, packed, events, history>>

\* A batching device leaves the directory to the next DCM upload.
Enlist ==
  /\ pc = "enlist"
  /\ list' = IF run.batching THEN list \cup {Path} ELSE list
  /\ Exit(run.ret)
  /\ pc' = "over"
  /\ UNCHANGED <<device, boot, there, done, prev, perm, left, statics, packed, events, history>>

-----------------------------------------------------------------------------
(* The rest of the device.                                                 *)

\* backup_logs, which uses the name of a generation that is free (BackupLogs).
Assemble ==
  /\ ~there
  /\ there' = TRUE
  /\ prev' = IF prev.base = {} THEN [prev EXCEPT !.base = {boot}]
                               ELSE [prev EXCEPT !.bak = prev.bak \cup {boot}]
  /\ UNCHANGED <<device, boot, done, perm, list, left, statics, pc, run, packed, events, history>>

MakeSentinel ==
  /\ there /\ ~done
  /\ done' = TRUE
  /\ UNCHANGED <<device, boot, there, files, statics, pc, run, packed, events, history>>

\* What a run leaves in PreviousLogs when it dies is stamped, and stays so. What it had
\* in memory is gone.
Abandon ==
  /\ prev' = [prev EXCEPT !.own = {}, !.old = prev.old \cup prev.own]
  /\ trouble' = IF pc \in NoRun THEN trouble ELSE trouble \cup {"kill"}
  /\ pc' = "idle" /\ run' = Nobody /\ packed' = {} /\ events' = {} /\ sent' = {}

Kill ==
  /\ pc \notin NoRun
  /\ Abandon
  /\ statics' = [statics EXCEPT ![run.who] = FreshStatics]
  /\ UNCHANGED <<device, boot, there, done, perm, list, left, owed, runs>>

\* /tmp is empty after a reboot. A device without a disk moves the batch list to
\* PreviousLogs like any other file of LOG_PATH.
Reboot ==
  /\ boot < MaxBoots /\ boot' = boot + 1
  /\ there' = FALSE /\ done' = FALSE
  /\ Abandon
  /\ left' = left \ {"ondemand"}
  /\ statics' = [p \in Processes |-> FreshStatics]
  /\ \/ UNCHANGED <<list, owed>>
     \/ list' = {} /\ owed' = {}
  /\ UNCHANGED <<device, perm, runs>>

Run ==
  \/ NoContext \/ Rejected \/ Privacy \/ Rrd \/ Workflow
  \/ Gate \/ LookReboot \/ LookOndemand \/ collect_logs \/ \E d \in Dirs : Prepare(d)
  \/ Copy \/ dcm_setup \/ ReadList
  \/ RequestSetup \/ RequestCopy \/ RequestEnds
  \/ ArchiveDcm \/ ArchiveOndemand \/ ArchiveRequest \/ ArchivePrevious
  \/ Refuse \/ Dri
  \/ \E ok \in BOOLEAN :
       UploadDcm(ok) \/ UploadOndemand(ok) \/ UploadPrevious(ok) \/ UploadRequest(ok)
  \/ dcm_cleanup \/ ondemand_cleanup \/ Restore \/ NoPermanentDir \/ Keep \/ Enlist

Next == (\E p \in Processes : Start(p)) \/ Run \/ Assemble \/ MakeSentinel \/ Kill \/ Reboot

Spec == Init /\ [][Next]_vars

-----------------------------------------------------------------------------
(* Properties.                                                             *)

\* Whatever phase fails, and with whatever path an earlier run has left in the statics,
\* the logs in PreviousLogs and the permanent directories are lost only to age and to
\* a failing disk; or, after a run was killed, to a file whose stamp is removed. Nor
\* does any run touch the PreviousLogs that the backup is still assembling, though the
\* cleanup follows a gate that refused too.
LogsAreKept ==
  [][prev.old = {} =>
       /\ (pc # "prepare" /\ "disk" \notin trouble') =>
            PreviousLogs \cup UNION {perm[d] : d \in Dirs}
              \subseteq (PreviousLogs \cup UNION {perm[d] : d \in Dirs})'
       /\ (~done /\ there' = there) => prev' = prev]_vars

\* A run that was not killed leaves neither stamped logs nor working files behind,
\* whichever phase failed.
LeavesNothingBehind ==
  (pc \in NoRun /\ trouble = {}) => prev.own = {} /\ prev.old = {} /\ left = {}

\* An exit status of 0 means that all logs the run had packed have reached the server,
\* and that both managers were told so, unless a message was lost. After an upload on
\* request, which tells nobody, the status file says the same as the exit status.
Told(event) == event \in events \/ "lost" \in events

SuccessMeansSent ==
  pc = "over" =>
     /\ (run.exit = 0 /\ run.strategy # "privacy") => packed \subseteq sent
     /\ (run.exit = 0 /\ run.strategy \notin {"privacy", "now"}) =>
          Told("success") /\ (Announces /\ run.strategy # "rrd" => Told("complete"))
     /\ run.strategy = "now" => (run.exit = 0 <=> run.status \in {"Complete", "No files to upload"})

\* Once a batching run has named a directory, that is on the list when it ends, though
\* its archive or upload may have failed, until a DCM upload has read it.
BatchesAreListed ==
  (pc \in NoRun /\ trouble = {}) => owed \subseteq list
================================================================================
