------------------------------ MODULE UsbLogUpload ------------------------------
(***************************************************************************)
(* usblogupload: the logs move from LOG_PATH to a directory in /opt/tmpusb *)
(* that is named after the minute, are archived there, and the archive is  *)
(* copied to the USB drive. Nothing keeps two invocations apart, and the   *)
(* processes that write the logs hold them open: they write on to a file   *)
(* that has moved until syslog-ng is told to open its files again.         *)
(*                                                                         *)
(* A line stands for what a process writes to a log at once. A directory   *)
(* of logs is a function from the names it has to their lines.             *)
(***************************************************************************)
EXTENDS Integers, FiniteSets

CONSTANTS Runs,       \* invocations of usblogupload
          Logs,       \* names of log files
          MaxMinutes, \* bound: minutes
          MaxLines    \* bound: lines written

ASSUME UsbAssumption == MaxMinutes \in Nat \ {0} /\ MaxLines \in Nat

VARIABLES
  device,   \* SYSLOG_NG_ENABLED is true
  minute,   \* of the clock, of which an archive is named
  log,      \* LOG_PATH
  tmp,      \* /opt/tmpusb: logs and archives of the directories it has
  drive,    \* Log in the mount point, with or without a drive: its archives
  handle,   \* where the file is that the writer of a log holds open
  hup,      \* a SIGHUP is on its way to syslog-ng
  run,      \* the invocations
  written,  \* history: how many lines were written
  late      \* history: those that went to a file that had moved

places == <<log, tmp, drive>>
vars == <<device, minute, places, handle, hup, run, written, late>>

Minutes == 1 .. MaxMinutes
NoMinute == 0
Lines == 1 .. MaxLines
Gone == -1
InLog == 0
Empty == [x \in {} |-> {}]

IsPartial(f, S, T) == DOMAIN f \subseteq S /\ f \in [DOMAIN f -> T]
Archive == [lines : SUBSET Lines, whole : BOOLEAN]
Partly == [lines |-> {}, whole |-> FALSE]
Steps == {"start", "move", "begin", "pack", "open", "write", "cleanup", "over", "killed"}

\* The type invariant; a log that a writer holds is where its handle says.
TypeOK ==
  /\ device \in BOOLEAN /\ minute \in Minutes
  /\ IsPartial(log, Logs, SUBSET Lines) /\ DOMAIN tmp \subseteq Minutes
  /\ \A m \in DOMAIN tmp : /\ IsPartial(tmp[m].logs, Logs, SUBSET Lines)
                           /\ IsPartial(tmp[m].tars, Minutes, Archive)
  /\ IsPartial(drive, Minutes, Archive)
  /\ handle \in [Logs -> {InLog, Gone} \cup Minutes]
  /\ \A l \in Logs :
       CASE handle[l] = InLog -> l \in DOMAIN log
         [] handle[l] \in Minutes -> handle[l] \in DOMAIN tmp /\ l \in DOMAIN tmp[handle[l]].logs
         [] OTHER -> TRUE
  /\ hup \in BOOLEAN
  /\ run \in [Runs -> [pc : Steps, status : -2 .. 4, dir : Minutes \cup {NoMinute},
                       name : Minutes \cup {NoMinute}, todo : SUBSET Logs,
                       noted : SUBSET Lines, moved : SUBSET Lines, tar : Archive,
                       short : BOOLEAN]]
  /\ written \in 0 .. MaxLines /\ late \subseteq Lines

Init ==
  /\ device \in BOOLEAN /\ minute = 1
  /\ log = [l \in Logs |-> {}] /\ tmp = Empty /\ drive = Empty
  /\ handle = [l \in Logs |-> InLog] /\ hup = FALSE
  /\ run = [r \in Runs |-> [pc |-> "start", status |-> 0, dir |-> NoMinute, name |-> NoMinute,
                            todo |-> {}, noted |-> {}, moved |-> {}, tar |-> Partly,
                            short |-> FALSE]]
  /\ written = 0 /\ late = {}

Put(f, x, value) == [y \in DOMAIN f \cup {x} |-> IF y = x THEN value ELSE f[y]]
Without(f, x) == [y \in DOMAIN f \ {x} |-> f[y]]
Content(logs) == UNION {logs[l] : l \in DOMAIN logs}
Stored(archives) == UNION {archives[m].lines : m \in DOMAIN archives}

-----------------------------------------------------------------------------
(* The steps of an invocation r.                                           *)

At(r, pc) == run[r].pc = pc
GoTo(r, pc) == run' = [run EXCEPT ![r].pc = pc]
Return(r, status) == run' = [run EXCEPT ![r].pc = "over", ![r].status = status]

\* The session is forgotten.
End(r, pc) == run' = [run EXCEPT ![r].pc = pc, ![r].name = NoMinute, ![r].todo = {},
                                 ![r].noted = {}, ![r].tar = Partly]

\* Variant: the exit status is the error number of the failing call.
AbortWithErrno(r, status) == run' = [run EXCEPT ![r].pc = "cleanup", ![r].status = -28]

\* Variant: the failure is logged only.
AbortUnnoticed(r, status) == run' = [run EXCEPT ![r].pc = "cleanup"]

\* After the logs have moved a failure removes them with the directory.
Abort(r, status) == run' = [run EXCEPT ![r].pc = "cleanup", ![r].status = status]

Refuse(r, status) ==
  /\ At(r, "start")
  /\ Return(r, status)
  /\ UNCHANGED <<device, minute, places, handle, hup, written, late>>

\* main refuses other arguments than one, and a device that is not a TV.
Unusable(r) == Refuse(r, 4)

\* Only the existence of the mount point is tested, not that a drive is mounted there.
NoMountPoint(r) == Refuse(r, 2)
NoLogDirectory(r) == Refuse(r, -2)
NoMacAddress(r) == Refuse(r, 1)
NoTemporaryDirectory(r) == Refuse(r, 3)

\* MAC, kind and minute; directory and archive in it have a name each.
ArchiveName == minute

\* mkdir -p: a directory that is there serves as well.
CreateDirectory(dir) ==
  tmp' = IF dir \in DOMAIN tmp THEN tmp ELSE Put(tmp, dir, [logs |-> Empty, tars |-> Empty])

\* usb_log_upload_execute up to the opendir of LOG_PATH, nothing before which tells on
\* another invocation.
Begin(r) ==
  /\ At(r, "start")
  /\ CreateDirectory(ArchiveName)
  /\ \/ run' = [run EXCEPT ![r].pc = "move", ![r].dir = ArchiveName, ![r].todo = DOMAIN log]
     \/ run' = [run EXCEPT ![r].pc = "cleanup", ![r].dir = ArchiveName, ![r].status = -2]
  /\ UNCHANGED <<device, minute, log, drive, handle, hup, written, late>>

\* The files that a writer holds move with their names, and a file of that name that
\* was in the directory is gone.
HandlesAfterMove(l, dir) ==
  [handle EXCEPT ![l] = CASE handle[l] = InLog -> dir [] handle[l] = dir -> Gone [] OTHER -> @]

\* A rename that fails is logged and forgotten, so is a file that another invocation
\* has moved in the meantime.
MoveFile(r, l) ==
  LET dir == run[r].dir IN
  /\ At(r, "move") /\ l \in run[r].todo
  /\ \/ /\ l \in DOMAIN log /\ dir \in DOMAIN tmp
        /\ log' = Without(log, l)
        /\ tmp' = [tmp EXCEPT ![dir].logs = Put(@, l, log[l])]
        /\ handle' = HandlesAfterMove(l, dir)
        /\ run' = [run EXCEPT ![r].todo = @ \ {l}, ![r].moved = @ \cup log[l]]
     \/ run' = [run EXCEPT ![r].todo = @ \ {l}] /\ UNCHANGED <<log, tmp, handle>>
  /\ UNCHANGED <<device, minute, drive, hup, written, late>>

\* reload_syslog_service, whose failures nobody looks at.
Reload(r) ==
  /\ At(r, "move") /\ run[r].todo = {}
  /\ \/ device /\ hup' = TRUE
     \/ UNCHANGED hup
  /\ GoTo(r, "begin")
  /\ UNCHANGED <<device, minute, places, handle, written, late>>

\* create_archive names its file anew and takes the size of a log before it reads it.
BeginArchive(r) ==
  LET dir == run[r].dir IN
  /\ At(r, "begin")
  /\ \/ dir \notin DOMAIN tmp /\ Abort(r, -2) /\ UNCHANGED tmp
     \/ dir \in DOMAIN tmp /\ Abort(r, 3) /\ UNCHANGED tmp
     \/ /\ dir \in DOMAIN tmp
        /\ tmp' = [tmp EXCEPT ![dir].tars = Put(@, ArchiveName, Partly)]
        /\ run' = [run EXCEPT ![r].pc = "pack", ![r].name = ArchiveName,
                              ![r].noted = Content(tmp[dir].logs)]
  /\ UNCHANGED <<device, minute, log, drive, handle, hup, written, late>>

\* A log that grows after its size was written to the header breaks the archive.
FitsItsHeaders(r, logs) == Content(logs) = run[r].noted

\* Everything in the directory but the archive itself, less the files that cannot be
\* opened, which are only warned of.
AddDirectoryToTar(r, unread) ==
  LET files == tmp[run[r].dir] IN
  [lines |-> (UNION {files.logs[l] : l \in DOMAIN files.logs \ unread})
               \cup Stored(Without(files.tars, run[r].name)),
   whole |-> FitsItsHeaders(r, files.logs)]

HasTar(r) == run[r].dir \in DOMAIN tmp /\ run[r].name \in DOMAIN tmp[run[r].dir].tars

\* The end of create_archive, which removes an archive it could not finish.
FinishArchive(r) ==
  LET dir == run[r].dir IN
  /\ At(r, "pack")
  /\ \/ ~HasTar(r) /\ Abort(r, 3) /\ UNCHANGED tmp
     \/ /\ HasTar(r)
        /\ Abort(r, 3)
        /\ tmp' = [tmp EXCEPT ![dir].tars = Without(@, run[r].name)]
     \/ /\ HasTar(r)
        /\ \E unread \in SUBSET DOMAIN tmp[dir].logs :
             /\ tmp' = [tmp EXCEPT ![dir].tars[run[r].name] = AddDirectoryToTar(r, unread)]
             /\ run' = [run EXCEPT ![r].pc = "open", ![r].short = unread # {}, ![r].noted = {}]
  /\ UNCHANGED <<device, minute, log, drive, handle, hup, written, late>>

Deliver(r, archive) == drive' = Put(drive, run[r].dir, archive)

\* copy_file_and_delete empties an archive of the same name.
OpenCopy(r) ==
  /\ At(r, "open")
  /\ \/ Abort(r, 3) /\ UNCHANGED drive
     \/ /\ HasTar(r)
        /\ Deliver(r, Partly)
        /\ run' = [run EXCEPT ![r].pc = "write", ![r].tar = tmp[run[r].dir].tars[run[r].name]]
  /\ UNCHANGED <<device, minute, log, tmp, handle, hup, written, late>>

RemoveTar(r) ==
  tmp' = IF HasTar(r) THEN [tmp EXCEPT ![run[r].dir].tars = Without(@, run[r].name)] ELSE tmp

\* It removes a copy it could not write; but the last of the data is written by fclose,
\* whose answer it does not look at.
WriteCopy(r) ==
  /\ At(r, "write")
  /\ \/ /\ Abort(r, 3)
        /\ drive' = Without(drive, run[r].dir)
        /\ UNCHANGED tmp
     \/ /\ Deliver(r, run[r].tar)
        /\ RemoveTar(r)
        /\ GoTo(r, "cleanup")
     \/ /\ RemoveTar(r)
        /\ UNCHANGED drive
        /\ run' = [run EXCEPT ![r].pc = "cleanup", ![r].short = TRUE]
  /\ UNCHANGED <<device, minute, log, handle, hup, written, late>>

RemoveDirectory(dir) == tmp' = Without(tmp, dir)

\* Variant: the parent of the directory is removed.
CleanupAll(r) ==
  /\ At(r, "cleanup")
  /\ End(r, "over")
  /\ tmp' = Empty
  /\ handle' = [l \in Logs |-> IF handle[l] = InLog THEN InLog ELSE Gone]
  /\ UNCHANGED <<device, minute, log, drive, hup, written, late>>

\* cleanup_temporary_files, which removes all or, when it fails, here nothing; nobody looks
\* at its answer, and the exit status stands.
Cleanup(r) ==
  LET dir == run[r].dir IN
  /\ At(r, "cleanup")
  /\ End(r, "over")
  /\ \/ /\ RemoveDirectory(dir)
        /\ handle' = [l \in Logs |-> IF handle[l] = dir THEN Gone ELSE handle[l]]
     \/ UNCHANGED <<tmp, handle>>
  /\ UNCHANGED <<device, minute, log, drive, hup, written, late>>

Step(r) ==
  \/ Unusable(r) \/ NoMountPoint(r) \/ NoLogDirectory(r) \/ NoMacAddress(r)
  \/ NoTemporaryDirectory(r) \/ Begin(r)
  \/ (\E l \in Logs : MoveFile(r, l)) \/ Reload(r)
  \/ BeginArchive(r) \/ FinishArchive(r) \/ OpenCopy(r) \/ WriteCopy(r) \/ Cleanup(r)

-----------------------------------------------------------------------------
(* The rest of the device.                                                 *)

\* A process writes a line to the file it holds open.
Write(l) ==
  /\ written < MaxLines /\ written' = written + 1
  /\ IF handle[l] = InLog
     THEN log' = [log EXCEPT ![l] = @ \cup {written'}] /\ UNCHANGED <<tmp, late>>
     ELSE /\ late' = late \cup {written'}
          /\ tmp' = IF handle[l] = Gone THEN tmp
                    ELSE [tmp EXCEPT ![handle[l]].logs[l] = @ \cup {written'}]
          /\ UNCHANGED log
  /\ UNCHANGED <<device, minute, drive, handle, hup, run>>

\* syslog-ng opens its files, and makes those that have moved.
Reopen ==
  /\ hup /\ hup' = FALSE
  /\ log' = [l \in Logs |-> IF l \in DOMAIN log THEN log[l] ELSE {}]
  /\ handle' = [l \in Logs |-> InLog]
  /\ UNCHANGED <<device, minute, tmp, drive, run, written, late>>

Tick ==
  /\ minute < MaxMinutes /\ minute' = minute + 1
  /\ UNCHANGED <<device, places, handle, hup, run, written, late>>

Kill(r) ==
  /\ run[r].pc \notin {"start", "over", "killed"}
  /\ End(r, "killed")
  /\ UNCHANGED <<device, minute, places, handle, hup, written, late>>

Next ==
  \/ \E r \in Runs : Step(r) \/ Kill(r)
  \/ (\E l \in Logs : Write(l)) \/ Reopen \/ Tick

Spec == Init /\ [][Next]_vars

-----------------------------------------------------------------------------
(* Properties.                                                             *)

\* No other invocation has had the minute of r, and with it its directory and name.
Alone(r) == \A q \in Runs \ {r} : run[q].dir # run[r].dir

\* usb_log_upload_execute returns 0 only if all that was in the logs as they moved is
\* in the archive on the drive, whatever other invocations do in other minutes; and the
\* archive can be read unless a writer has written to a log that had moved. What the
\* code does not notice is excepted: a log it could not read, and a drive that is full
\* when the copy is closed; and a drive that was never mounted is not told from one.
SuccessMeansOnDrive ==
  \A r \in Runs :
    (At(r, "over") /\ run[r].status = 0 /\ Alone(r) /\ ~run[r].short) =>
      /\ run[r].dir \in DOMAIN drive
      /\ run[r].moved \subseteq drive[run[r].dir].lines
      /\ drive[run[r].dir].whole \/ late # {}

\* A line is lost only after it was written to a log that had moved, or with the logs
\* that an invocation moved and could not archive or copy, or only in part, or for which
\* it shared its minute; a kill at any step, another invocation, a file that is not
\* renamed and any other exit status lose nothing.
LossesHaveCauses ==
  LET kept == Content(log) \cup Stored(drive)
                \cup UNION {Content(tmp[m].logs) \cup Stored(tmp[m].tars) : m \in DOMAIN tmp}
      excused == {r \in Runs : run[r].status = 3 \/ run[r].short \/ ~Alone(r)}
  IN (1 .. written) \ kept \subseteq late \cup UNION {run[r].moved : r \in excused}
================================================================================
