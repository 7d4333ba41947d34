------------------------------ MODULE DcmSettings ------------------------------
(***************************************************************************)
(* The files dcmd keeps (dcm_utils.c, dcm_parseconf.c): the PID file, by   *)
(* which a second daemon is refused; what it stores of a configuration for *)
(* other programs, in DCM_TMP_CONF, DCM_OPT_CONF and the file of the       *)
(* maintenance manager; and the file of T2 that it reads, which is also    *)
(* the one of the default boot. Nothing locks any of them. Daemons come    *)
(* and go by signals and by crashes; the PID of one that has gone may be   *)
(* given to any other process. DcmDaemon has the threads of one daemon.    *)
(***************************************************************************)
EXTENDS Integers, FiniteSets

CONSTANTS Pids,      \* PIDs that daemons get
          Confs,     \* contents of T2's file
          FirstLine, \* those whose first line is JSON, once the telemetry part is cut off
          Whole,     \* those that are JSON as a whole
          UploadOn,  \* those with "urn:settings:LogUploadSettings:upload" true
          NoDifd     \* those without a cron for the firmware check

Absent == "absent"  \* no such file, or no configuration yet
Blank == "blank"    \* an empty file
Torn == "torn"      \* parts of several contents

ASSUME ContentAssumption ==
  /\ {Absent, Blank, Torn} \cap (Confs \cup Pids) = {}
  /\ FirstLine \cup Whole \cup UploadOn \cup NoDifd \subseteq Confs

VARIABLES
  mm,      \* g_bMMEnable: the device has an ENABLE_MAINTENANCE property
  pid,     \* content of DCM_PID_FILE
  conf,    \* of T2's file
  tmp,     \* DCM_TMP_CONF: the configuration it was made of
  opt,     \* DCM_OPT_CONF, the same
  maint,   \* DCM_MAINT_CONF_PATH: the one whose DIFD cron and zone are in it
  pc,      \* where the process with each PID is, "none" if there is no such process
  seen,    \* what it has read in the PID file
  parsed,  \* what its settings and cron patterns come from
  buffer,  \* what dcmSettingStoreTempConf is about to write
  spoilt,  \* history: something came between the last parsing and the storing
  race     \* history: two daemons have been in dcmUtilsCheckDaemonStatus at once

stored == <<tmp, opt, maint>>
history == <<spoilt, race>>
vars == <<mm, pid, conf, stored, pc, seen, parsed, buffer, history>>

Checking == {"stat", "open", "write"}
Storing == {"opentmp", "openopt", "read", "closeopt", "closetmp"}
Serving == {"boot", "wait", "upload", "maint"} \cup Storing
Leaving == {"remove", "leave"}
Contents == Confs \cup {Absent, Blank, Torn}

\* The type invariant; every process in the event loop or storing has passed the check.
TypeOK ==
  /\ mm \in BOOLEAN /\ spoilt \in BOOLEAN /\ race \in BOOLEAN
  /\ pid \in Pids \cup {Absent, Blank}
  /\ conf \in Confs \cup {Absent} /\ maint \in Confs \cup {Absent}
  /\ tmp \in Contents /\ opt \in Contents
  /\ pc \in [Pids -> {"none", "other", "check", "init"} \cup Checking \cup Serving \cup Leaving]
  /\ seen \in [Pids -> Pids \cup {Absent, Blank}]
  /\ parsed \in [Pids -> FirstLine \cup {Absent}]
  /\ buffer \in [Pids -> Whole \cup {Absent}]
  /\ \A d \in Pids : pc[d] \in {"upload", "maint"} => parsed[d] # Absent

Init ==
  /\ mm \in BOOLEAN
  /\ pid = Absent /\ conf \in Confs \cup {Absent}
  /\ tmp = Absent /\ opt = Absent /\ maint = Absent
  /\ pc = [d \in Pids |-> "none"]
  /\ seen = [d \in Pids |-> Absent]
  /\ parsed = [d \in Pids |-> Absent] /\ buffer = [d \in Pids |-> Absent]
  /\ spoilt = FALSE /\ race = FALSE

Goes(d, to) == pc' = [pc EXCEPT ![d] = to]

\* The process ends, and what it had in memory is gone.
Ends(d) ==
  /\ Goes(d, "none")
  /\ seen' = [seen EXCEPT ![d] = Absent]
  /\ parsed' = [parsed EXCEPT ![d] = Absent] /\ buffer' = [buffer EXCEPT ![d] = Absent]

-----------------------------------------------------------------------------
(* dcmUtilsCheckDaemonStatus.                                              *)

\* The fork of main() has the PID d.
StartDaemon(d) ==
  /\ pc[d] = "none"
  /\ Goes(d, "check")
  /\ UNCHANGED <<mm, pid, conf, stored, seen, parsed, buffer, history>>

\* An empty file leaves the buffer for the PID uninitialised: "blank" is any PID.
ReadPid(d) ==
  /\ pc[d] = "check"
  /\ seen' = [seen EXCEPT ![d] = pid]
  /\ Goes(d, IF pid = Absent THEN "open" ELSE "stat")
  /\ race' = (race \/ \E e \in Pids \ {d} : pc[e] \in Checking)
  /\ UNCHANGED <<mm, pid, conf, stored, parsed, buffer, spoilt>>

\* dcmUtilsFilePresentCheck of /proc/PID: there is such a process, of whatever program.
IsRunning(p) == IF p = Blank THEN TRUE ELSE pc[p] # "none"

\* Variant: isDCMRunning is not set, and the PID file is removed.
AlreadyRunningCleansUp(d) ==
  /\ pc[d] = "stat"
  /\ IsRunning(seen[d])
  /\ seen' = [seen EXCEPT ![d] = Absent]
  /\ Goes(d, "remove")
  /\ UNCHANGED <<mm, pid, conf, stored, parsed, buffer, history>>

\* It is taken for the daemon, be it another program or the asking process itself, and
\* the daemon gives up (isDCMRunning) ...
AlreadyRunning(d) ==
  /\ pc[d] = "stat"
  /\ IsRunning(seen[d])
  /\ seen' = [seen EXCEPT ![d] = Absent]
  /\ Goes(d, "leave")
  /\ UNCHANGED <<mm, pid, conf, stored, parsed, buffer, history>>

\* ... or the file is a relic.
PidIsStale(d) ==
  /\ pc[d] = "stat"
  /\ IsRunning(seen[d]) => seen[d] = Blank
  /\ seen' = [seen EXCEPT ![d] = Absent]
  /\ Goes(d, "open")
  /\ UNCHANGED <<mm, pid, conf, stored, parsed, buffer, history>>

OpenPid(d) ==
  /\ pc[d] = "open"
  /\ \/ pid' = Blank /\ Goes(d, "write")
     \/ Goes(d, "leave") /\ UNCHANGED pid
  /\ UNCHANGED <<mm, conf, stored, seen, parsed, buffer, history>>

WritePid(d) ==
  /\ pc[d] = "write"
  /\ pid' = d
  /\ Goes(d, "init")
  /\ UNCHANGED <<mm, conf, stored, seen, parsed, buffer, history>>

-----------------------------------------------------------------------------
(* The rest of the start, and the default boot.                            *)

\* Any part of dcmDaemonMainInit may fail; main() then un-initialises.
InitDaemon(d) ==
  /\ pc[d] = "init"
  /\ Goes(d, "boot") \/ Goes(d, "remove")
  /\ UNCHANGED <<mm, pid, conf, stored, seen, parsed, buffer, history>>

\* The directory of T2's file is an entry of include.properties, or a default one, which
\* may be another: whether it leads to T2's file.
dcmUtilsGetFileEntry == BOOLEAN

\* dcmSettingDefaultBoot, if T2 has left a file.
DefaultBoot(d) ==
  /\ pc[d] = "boot"
  /\ \E found \in dcmUtilsGetFileEntry :
       Goes(d, IF found /\ conf # Absent THEN "opentmp" ELSE "wait")
  /\ UNCHANGED <<mm, pid, conf, stored, seen, parsed, buffer, history>>

-----------------------------------------------------------------------------
(* dcmSettingParseConf.                                                    *)

\* Variant: a first line that is no JSON is taken as one without any settings.
ParseConfUnchecked(d) ==
  /\ pc[d] = "wait" /\ conf # Absent
  /\ parsed' = [parsed EXCEPT ![d] = conf]
  /\ spoilt' = FALSE
  /\ Goes(d, "upload")
  /\ UNCHANGED <<mm, pid, conf, stored, seen, buffer, race>>

\* A Processconfig event: dcmSettingJsonInit reads one line. If that is no JSON the
\* event is over; otherwise the settings are overwritten and uploads are made with them.
ParseConf(d) ==
  /\ pc[d] = "wait" /\ conf \in FirstLine
  /\ parsed' = [parsed EXCEPT ![d] = conf]
  /\ spoilt' = FALSE
  /\ Goes(d, "upload")
  /\ UNCHANGED <<mm, pid, conf, stored, seen, buffer, race>>

\* Variant: a configuration without a DIFD cron is refused before it is stored.
UploadsDoneOrRefused(d) ==
  /\ pc[d] = "upload"
  /\ Goes(d, IF parsed[d] \in NoDifd THEN "wait" ELSE "opentmp")
  /\ UNCHANGED <<mm, pid, conf, stored, seen, parsed, buffer, history>>

\* The uploads take minutes and ask for the upload flag of what was stored before.
UploadsDone(d) ==
  /\ pc[d] = "upload"
  /\ Goes(d, "opentmp")
  /\ UNCHANGED <<mm, pid, conf, stored, seen, parsed, buffer, history>>

\* What follows dcmSettingStoreTempConf, whatever it returned.
Continue(d) == Goes(d, IF parsed[d] # Absent /\ mm THEN "maint" ELSE "wait")

\* Both files are opened for writing, which empties them, before the input is read.
OpenTmp(d) ==
  /\ pc[d] = "opentmp"
  /\ \/ tmp' = Blank /\ Goes(d, "openopt") /\ UNCHANGED spoilt
     \/ spoilt' = TRUE /\ Continue(d) /\ UNCHANGED tmp
  /\ UNCHANGED <<mm, pid, conf, opt, maint, seen, parsed, buffer, race>>

OpenOpt(d) ==
  /\ pc[d] = "openopt"
  /\ \/ opt' = Blank /\ Goes(d, "read") /\ UNCHANGED spoilt
     \/ spoilt' = TRUE /\ Continue(d) /\ UNCHANGED opt
  /\ UNCHANGED <<mm, pid, conf, tmp, maint, seen, parsed, buffer, race>>

\* The whole file is parsed this time, and printed to the buffers of both.
ReadConf(d) ==
  /\ pc[d] = "read"
  /\ IF conf \in Whole THEN buffer' = [buffer EXCEPT ![d] = conf] /\ Goes(d, "closeopt")
                       ELSE Continue(d) /\ UNCHANGED buffer
  /\ UNCHANGED <<mm, pid, conf, stored, seen, parsed, history>>

CloseOpt(d) ==
  /\ pc[d] = "closeopt"
  /\ opt' = buffer[d]
  /\ Goes(d, "closetmp")
  /\ UNCHANGED <<mm, pid, conf, tmp, maint, seen, parsed, buffer, history>>

CloseTmp(d) ==
  /\ pc[d] = "closetmp"
  /\ tmp' = buffer[d]
  /\ buffer' = [buffer EXCEPT ![d] = Absent]
  /\ Continue(d)
  /\ UNCHANGED <<mm, pid, conf, opt, maint, seen, parsed, history>>

\* dcmSettingSaveMaintenance: the minute and the hour of the DIFD cron, 0 for want of one.
SaveMaintenance(d) ==
  /\ pc[d] = "maint"
  /\ \/ maint' = parsed[d] /\ UNCHANGED spoilt
     \/ spoilt' = TRUE /\ UNCHANGED maint
  /\ Goes(d, "wait")
  /\ UNCHANGED <<mm, pid, conf, tmp, opt, seen, parsed, buffer, race>>

-----------------------------------------------------------------------------
(* The end of a daemon.                                                    *)

\* The handlers are registered in dcmDaemonMainInit. The main thread stops where it is.
Signal(d) ==
  /\ pc[d] \in Serving \cup {"init"}
  /\ Goes(d, "remove")
  /\ UNCHANGED <<mm, pid, conf, stored, seen, parsed, buffer, history>>

\* dcmUtilsRemovePIDfile comes first in dcmDaemonMainUnInit, which then waits for the jobs.
RemovePidFile(d) ==
  /\ pc[d] = "remove"
  /\ pid' = Absent
  /\ Goes(d, "leave")
  /\ UNCHANGED <<mm, conf, stored, seen, parsed, buffer, history>>

\* exit() writes what is still in the buffers, over what may be another daemon's.
Leave(d) ==
  /\ pc[d] = "leave"
  /\ Ends(d)
  /\ IF buffer[d] # Absent
       THEN tmp' \in {tmp, Torn} /\ opt' \in {opt, Torn} /\ spoilt' = TRUE
       ELSE UNCHANGED <<tmp, opt, spoilt>>
  /\ UNCHANGED <<mm, pid, conf, maint, race>>

Crash(d) ==
  /\ pc[d] \notin {"none", "other"}
  /\ Ends(d)
  /\ UNCHANGED <<mm, pid, conf, stored, history>>

-----------------------------------------------------------------------------
(* The rest of the device.                                                 *)

\* Another program gets a PID that is free, and ends.
OtherProgram(d) ==
  /\ \/ pc[d] = "none" /\ Goes(d, "other")
     \/ pc[d] = "other" /\ Goes(d, "none")
  /\ UNCHANGED <<mm, pid, conf, stored, seen, parsed, buffer, history>>

\* T2 replaces its file at any time.
T2Writes(c) ==
  /\ conf' = c
  /\ spoilt' = (spoilt \/ \E d \in Pids : pc[d] \in {"upload", "opentmp", "openopt", "read"})
  /\ UNCHANGED <<mm, pid, stored, pc, seen, parsed, buffer, race>>

\* /tmp does not survive a reboot.
Reboot ==
  /\ pid' = Absent /\ tmp' = Absent
  /\ pc' = [d \in Pids |-> "none"]
  /\ seen' = [d \in Pids |-> Absent]
  /\ parsed' = [d \in Pids |-> Absent] /\ buffer' = [d \in Pids |-> Absent]
  /\ spoilt' = FALSE /\ race' = FALSE
  /\ UNCHANGED <<mm, conf, opt, maint>>

Daemon(d) ==
  \/ StartDaemon(d) \/ ReadPid(d) \/ AlreadyRunning(d) \/ PidIsStale(d)
  \/ OpenPid(d) \/ WritePid(d) \/ InitDaemon(d) \/ DefaultBoot(d)
  \/ ParseConf(d) \/ UploadsDone(d) \/ OpenTmp(d) \/ OpenOpt(d) \/ ReadConf(d)
  \/ CloseOpt(d) \/ CloseTmp(d) \/ SaveMaintenance(d)
  \/ Signal(d) \/ RemovePidFile(d) \/ Leave(d) \/ Crash(d)

Next ==
  \/ \E d \in Pids : Daemon(d) \/ OtherProgram(d)
  \/ \E c \in Confs : T2Writes(c)
  \/ Reboot

Spec == Init /\ [][Next]_vars

-----------------------------------------------------------------------------
(* Properties.                                                             *)

\* read_dcm_upload_flag, of the upload strategies: uploads are on without the file and
\* off with an empty one.
UploadFlag == tmp = Absent \/ tmp \in UploadOn

InForce(d) == pc[d] \in Serving \cup {"init"}

\* The PID file keeps a second daemon out, after crashes, with PIDs that are used again
\* and with an older daemon still on its way out, unless two have asked at the same
\* time; and it names the daemon that serves, so that the next one will find it.
OneDaemon ==
  ~race => \A d \in Pids : InForce(d) => pid = d /\ \A e \in Pids \ {d} : ~InForce(e)

\* What other programs read agrees with the settings the daemon has in force, though
\* they were taken from one line of the file minutes before the rest was read, and the
\* event may be rejected in the end for want of a DIFD cron: a file that is not JSON
\* after its first line switches the uploads off.
StoredAsParsed ==
  \A d \in Pids :
    (pc[d] = "wait" /\ parsed[d] # Absent /\ ~spoilt /\ ~race) =>
      /\ UploadFlag <=> parsed[d] \in Whole \cap UploadOn
      /\ opt = tmp
      /\ mm => maint = parsed[d]
================================================================================
