------------------------------ MODULE BackupLogs ------------------------------
(***************************************************************************)
(* backup_logs, which runs once at every boot before anything is logged,   *)
(* and moves what the boot before has left in LOG_PATH to PreviousLogs. A  *)
(* device with a disk keeps a directory per boot; one without keeps four   *)
(* generations by prefix ("", bak1_, bak2_, bak3_) and finds out from      *)
(* messages.txt which of them are in use. A move is a copy and a remove.   *)
(* The upload after a reboot moves PreviousLogs to a permanent directory.  *)
(* The power may fail at any point of either, and the disk may be full.    *)
(*                                                                         *)
(* Boots are numbered as they log, and a file stands for the newest boot   *)
(* whose lines are in it. Special files, logs in /tmp and version files,   *)
(* are brought to LOG_PATH when the older logs have left it; there they    *)
(* are followed until the backup ends, and are like any other file then.   *)
(***************************************************************************)
EXTENDS Integers, Sequences, FiniteSets

CONSTANTS Files,       \* names of log files
          SysLog,      \* messages.txt, which every boot that logs writes
          MaxLogged,   \* bound: boots that log
          MaxTrouble   \* bound: how often something goes wrong

NoFile == "none"

ASSUME FilesAssumption ==
  SysLog \in Files /\ NoFile \notin Files /\ MaxLogged \in Nat /\ MaxTrouble \in Nat

VARIABLES
  logged,  \* how many boots have logged
  quiet,   \* this boot has not logged yet
  hdd,     \* HDD_ENABLED
  pc,      \* where backup_logs is; "up" once it has ended
  special, \* special files: entries to execute, sources there, copies complete
  todo,    \* the passes still to make, each from one place to another
  left,    \* files that the first of them has not reached
  copied,  \* the file whose source is to be removed next
  store,   \* content of each file in each place
  done,    \* the sentinel BACKUP_LOGS_DONE_FLAG, in /tmp
  upload,  \* where the upload after the reboot is with PreviousLogs
  trouble  \* history: how often what has gone wrong so far

vars == <<logged, quiet, hdd, pc, special, todo, left, copied, store, done, upload, trouble>>

Absent == -1  \* the file is not there
Torn == 0     \* it is there, but a copy to it was not finished

Generations == <<"base", "bak1", "bak2", "bak3">>
\* Previous is what is in PreviousLogs: the generations, and base files that bear the
\* time stamp of the upload in progress.
Previous == {"base", "bak1", "bak2", "bak3", "stamped"}
Places == Previous \cup {"log"}
\* Where no file ever overwrites another one, and nothing is followed any more.
Own == "own"
Troubles == {"disk", "backup", "upload"}  \* full disk, power failure in either

\* The special files in /tmp are moved to LOG_PATH, the others copied.
Specials == {"moved", "copied"}
NoSpecials == [entries |-> {}, sources |-> {}, landed |-> {}]

\* The type invariant: every file's content is a boot that has logged, or torn.
TypeOK ==
  /\ logged \in 0 .. MaxLogged /\ quiet \in BOOLEAN /\ hdd \in BOOLEAN
  /\ pc \in {"boot", "move", "clean", "load", "common", "up"}
  /\ special \in [entries : SUBSET Specials, sources : SUBSET Specials, landed : SUBSET Specials]
  /\ todo \in Seq(Places \X (Previous \cup {Own})) /\ Len(todo) <= Len(Generations)
  /\ left \subseteq Files /\ copied \in Files \cup {NoFile}
  /\ store \in [Places -> [Files -> Absent .. logged]]
  /\ done \in BOOLEAN
  /\ upload \in {"off", "stamp", "move"}
  /\ trouble \in [Troubles -> 0 .. MaxTrouble]

Empty == [f \in Files |-> Absent]

\* config_load: HDD_ENABLED may be missing, or say anything.
HddEnabled(property) == property \notin {"missing", "false"}

Init ==
  /\ logged = 0 /\ quiet = TRUE
  /\ \E property \in {"missing", "false", "true"} : hdd = HddEnabled(property)
  /\ pc = "boot" /\ special = NoSpecials /\ todo = <<>> /\ left = {} /\ copied = NoFile
  /\ store = [p \in Places |-> Empty]
  /\ done = FALSE /\ upload = "off" /\ trouble = [t \in Troubles |-> 0]

\* Something goes wrong, within the bound.
Goes(wrong) ==
  /\ trouble' = [t \in Troubles |-> IF t \in wrong THEN trouble[t] + 1 ELSE trouble[t]]
  /\ wrong # {} => trouble["disk"] + trouble["backup"] + trouble["upload"] < MaxTrouble

-----------------------------------------------------------------------------
(* The plan, chosen from the messages.txt that are there.                  *)

InUse(p) == store[p][SysLog] # Absent

\* Generations without a messages.txt, by their index.
Free == {i \in 1 .. Len(Generations) : ~InUse(Generations[i])}

FirstFree == CHOOSE i \in Free : \A j \in Free : i <= j

\* The full rotation gives the oldest generation up.
Rotate == <<<<"bak1", "base">>, <<"bak2", "bak1">>, <<"bak3", "bak2">>, <<"log", "bak3">>>>

\* Variant: the new logs go to the last free generation.
PlanFromTheEnd ==
  IF hdd THEN <<<<"log", IF InUse("base") THEN Own ELSE "base">>>>
  ELSE IF Free # {} THEN <<<<"log", Generations[CHOOSE i \in Free : \A j \in Free : i >= j]>>>>
  ELSE Rotate

\* Variant: the test for bak3_ is forgotten.
PlanWithThree ==
  IF hdd THEN <<<<"log", IF InUse("base") THEN Own ELSE "base">>>>
  ELSE IF Free \ {4} # {} THEN <<<<"log", Generations[FirstFree]>>>>
  ELSE Rotate

Plan ==
  IF hdd THEN <<<<"log", IF InUse("base") THEN Own ELSE "base">>>>
  ELSE IF Free # {} THEN <<<<"log", Generations[FirstFree]>>>>
  ELSE Rotate

FilesIn(p) == {f \in Files : store[p][f] # Absent}

Source == todo[1][1]
Dest == todo[1][2]

-----------------------------------------------------------------------------
(* backup_logs.                                                            *)

\* backup_logs_init, or the directory of this boot, cannot be made: backup_logs
\* gives up, before anything was moved.
GiveUp ==
  /\ pc = "boot"
  /\ pc' = "up"
  /\ UNCHANGED <<logged, quiet, hdd, todo, left, copied, store, done, upload, trouble>>

Start ==
  /\ pc = "boot"
  /\ pc' = "move"
  /\ todo' = Plan
  /\ left' = FilesIn(Plan[1][1])
  /\ UNCHANGED <<logged, quiet, hdd, copied, store, done, upload, trouble>>

Write(f, content) == IF Dest = Own THEN store ELSE [store EXCEPT ![Dest][f] = content]

\* copyFiles of the next file the directory lists, in any order.
CopyFile(f) ==
  /\ pc = "move" /\ copied = NoFile /\ f \in left
  /\ store' = Write(f, store[Source][f])
  /\ copied' = f
  /\ left' = left \ {f}
  /\ UNCHANGED <<logged, quiet, hdd, pc, todo, done, upload, trouble>>

\* A file that cannot be copied stays, and the loop goes on with the next one. What
\* was written of the copy is left behind.
CopyFails(f) ==
  /\ pc = "move" /\ copied = NoFile /\ f \in left
  /\ Goes({"disk"})
  /\ store' \in {store, Write(f, Torn)}
  /\ left' = left \ {f}
  /\ UNCHANGED <<logged, quiet, hdd, pc, todo, copied, done, upload>>

\* Variant: the source is not removed.
KeepSource ==
  /\ copied # NoFile
  /\ copied' = NoFile
  /\ UNCHANGED <<logged, quiet, hdd, pc, todo, left, store, done, upload, trouble>>

\* The source is removed after its copy succeeded; that may fail as well.
RemoveSource ==
  /\ copied # NoFile
  /\ \/ store' = [store EXCEPT ![Source][copied] = Absent] /\ UNCHANGED trouble
     \/ Goes({"disk"}) /\ UNCHANGED store
  /\ copied' = NoFile
  /\ UNCHANGED <<logged, quiet, hdd, pc, todo, left, done, upload>>

\* Variant: the last pass of a rotation is left out.
NextPassOffByOne ==
  /\ pc = "move" /\ copied = NoFile /\ left = {}
  /\ todo' = Tail(todo)
  /\ IF Len(todo) > 2 THEN left' = FilesIn(todo[2][1]) /\ pc' = pc
                      ELSE left' = {} /\ pc' = "clean"
  /\ UNCHANGED <<logged, quiet, hdd, copied, store, done, upload, trouble>>

NextPass ==
  /\ pc = "move" /\ copied = NoFile /\ left = {}
  /\ todo' = Tail(todo)
  /\ IF Len(todo) > 1 THEN left' = FilesIn(todo[2][1]) /\ pc' = pc
                      ELSE left' = {} /\ pc' = "clean"
  /\ UNCHANGED <<logged, quiet, hdd, copied, store, done, upload, trouble>>

\* Without a disk, all that is still in LOG_PATH is removed.
CleanLogPath ==
  /\ pc = "clean"
  /\ store' = IF hdd THEN store ELSE [store EXCEPT !["log"] = Empty]
  /\ pc' = "load"
  /\ UNCHANGED <<logged, quiet, hdd, todo, left, copied, done, upload, trouble>>

\* special_files.conf names the special files, of which some are there. Without it, or
\* without an entry in it, there are none to execute.
LoadSpecials ==
  /\ pc = "load"
  /\ pc' = "common"
  /\ \E listed \in SUBSET Specials : \E present \in SUBSET listed :
       special' = [entries |-> listed, sources |-> present, landed |-> {}]
  /\ UNCHANGED <<logged, quiet, hdd, todo, left, copied, store, done, upload, trouble>>

\* One entry, in any order. A missing source is passed over, a copy may fail, and so may
\* the removal of what is moved; the other entries follow all the same.
ExecuteEntry(e) ==
  /\ pc = "common" /\ e \in special.entries
  /\ \E copies, removes \in BOOLEAN :
       /\ special' = [entries |-> special.entries \ {e},
                      sources |-> IF copies /\ removes /\ e = "moved"
                                  THEN special.sources \ {e} ELSE special.sources,
                      landed  |-> IF copies /\ e \in special.sources
                                  THEN special.landed \cup {e} ELSE special.landed]
       /\ Goes(IF e \in special.sources /\ ~(copies /\ (e = "moved" => removes))
               THEN {"disk"} ELSE {})
  /\ UNCHANGED <<logged, quiet, hdd, pc, todo, left, copied, store, done, upload>>

\* After the last entry systemd is told, and the sentinel made if it can be.
CommonOperations ==
  /\ pc = "common" /\ special.entries = {}
  /\ special' = NoSpecials
  /\ done' \in BOOLEAN
  /\ pc' = "up"
  /\ UNCHANGED <<logged, quiet, hdd, todo, left, copied, store, upload, trouble>>

BackupSteps ==
  \/ GiveUp \/ Start \/ NextPass \/ RemoveSource \/ CleanLogPath
  \/ \E f \in Files : CopyFile(f) \/ CopyFails(f)

SpecialSteps == LoadSpecials \/ CommonOperations \/ \E e \in Specials : ExecuteEntry(e)

Backup == (BackupSteps /\ UNCHANGED special) \/ SpecialSteps
-----------------------------------------------------------------------------
(* The upload after a reboot, as far as it moves files.                    *)

\* reboot_setup: its gate is the sentinel, and there must be logs.
UploadStarts ==
  /\ pc = "up" /\ upload = "off"
  /\ done
  /\ \E i \in 1 .. Len(Generations) : FilesIn(Generations[i]) # {}
  /\ upload' = "stamp"
  /\ UNCHANGED <<logged, quiet, hdd, pc, todo, left, copied, store, done, trouble>>

\* add_timestamp_to_files renames what has no bak prefix.
Stamp(f) ==
  /\ upload = "stamp" /\ f \in FilesIn("base")
  /\ store' = [store EXCEPT !["base"][f] = Absent, !["stamped"][f] = store["base"][f]]
  /\ UNCHANGED <<logged, quiet, hdd, pc, todo, left, copied, done, upload, trouble>>

\* reboot_cleanup: the names are restored; all stays if the permanent directory cannot
\* be made, ...
Unstamp ==
  /\ upload = "stamp" /\ FilesIn("base") = {}
  /\ store' = [store EXCEPT !["base"] = store["stamped"], !["stamped"] = Empty]
  /\ upload' \in {"move", "off"}
  /\ UNCHANGED <<logged, quiet, hdd, pc, todo, left, copied, done, trouble>>

\* ... otherwise each file goes to the permanent directory ...
Take(p, f) ==
  /\ upload = "move" /\ p \in Previous /\ f \in FilesIn(p)
  /\ store' = [store EXCEPT ![p][f] = Absent]
  /\ UNCHANGED <<logged, quiet, hdd, pc, todo, left, copied, done, upload, trouble>>

\* ... and what could not be moved is removed.
UploadEnds ==
  /\ upload = "move"
  /\ Goes(IF \E p \in Previous : FilesIn(p) # {} THEN {"disk"} ELSE {})
  /\ store' = [p \in Places |-> IF p \in Previous THEN Empty ELSE store[p]]
  /\ upload' = "off"
  /\ UNCHANGED <<logged, quiet, hdd, pc, todo, left, copied, done>>

Upload ==
  \/ UploadStarts \/ Unstamp \/ UploadEnds
  \/ \E f \in Files : Stamp(f) \/ \E p \in Previous : Take(p, f)

-----------------------------------------------------------------------------
(* The rest of the system.                                                 *)

\* The boot logs, in messages.txt and perhaps in other files.
Log ==
  /\ pc = "up" /\ quiet
  /\ logged < MaxLogged
  /\ logged' = logged + 1 /\ quiet' = FALSE
  /\ \E S \in SUBSET Files :
       /\ SysLog \in S
       /\ store' = [store EXCEPT !["log"] = [f \in Files |-> IF f \in S THEN logged' ELSE @[f]]]
  /\ UNCHANGED <<hdd, pc, todo, left, copied, done, upload, trouble>>

\* A reboot, or the power fails: the copy that was being made is torn, the sentinel is
\* gone, and files left stamped keep a name that no other upload gives or removes.
Reboot ==
  /\ quiet' = TRUE
  /\ pc' = "boot" /\ special' = NoSpecials /\ todo' = <<>> /\ left' = {} /\ copied' = NoFile
  /\ done' = FALSE /\ upload' = "off"
  /\ Goes((IF pc = "move" THEN {"backup"} ELSE {}) \cup (IF upload # "off" THEN {"upload"} ELSE {}))
  /\ \/ store' = [store EXCEPT !["stamped"] = Empty]
     \/ pc = "move" /\ copied = NoFile /\ \E f \in left : store' = Write(f, Torn)
  /\ UNCHANGED <<logged, hdd>>

Next == Backup \/ ((Upload \/ Log) /\ UNCHANGED special) \/ Reboot

Spec == Init /\ [][Next]_vars

-----------------------------------------------------------------------------
(* Properties.                                                             *)

\* The boots whose lines of file f are followed, and those whose lines this step takes
\* to where nothing overwrites them.
Alive(f) == {store[p][f] : p \in Places}

Taken(f) ==
  {store[p][f] : p \in {q \in Places :
     \/ q = "log" /\ copied = f /\ copied' = NoFile /\ Dest = Own
     \/ q # "log" /\ upload = "move" /\ upload' = "move"
     \/ q = "stamped" /\ pc' = "boot"}}

\* The lines of boot b vanish from a file. (Lines that a boot adds to those of the one
\* before, after a backup that gave up, share their fate.)
Loses(b) == logged' = logged /\ \E f \in Files : b \in Alive(f) \ (Alive(f)' \cup Taken(f))

\* What went wrong so far is all of these kinds.
Only(kinds) == \A t \in Troubles \ kinds : trouble[t] = 0

\* Nothing but age removes a log before it was offered for upload: while nothing goes
\* wrong, only a boot that three newer ones have followed is given up.
KeepsNewBoots ==
  [][Only({})' => \A b \in 1 .. logged : Loses(b) => b + 3 <= logged]_vars

\* A power failure in the backup itself may disorder the older generations, but the
\* logs of the last boot that has logged survive it and all that follows.
KeepsLastBoot ==
  [][(Only({"backup"}) /\ trouble["backup"] <= 1)' => ~Loses(logged)]_vars

\* backup_logs_requirements.md:309: "Log rotation maintains proper sequence": the
\* generations in use are the first ones, and each is newer than the one before it.
GenerationsInOrder ==
  (Only({}) /\ pc = "up" /\ upload = "off") =>
     \A i, j \in 1 .. Len(Generations) :
        (i < j /\ InUse(Generations[j])) =>
           /\ InUse(Generations[i])
           /\ store[Generations[i]][SysLog] < store[Generations[j]][SysLog]

\* What the sentinel promises to the upload and to telemetry: when it is made, all that
\* earlier boots have logged has left LOG_PATH, whatever power failures there were, and
\* every special file that the configuration names is there instead.
SentinelMeansAssembled ==
  [][(~done /\ done' /\ trouble["disk"] = 0) =>
       /\ store["log"]' = Empty
       /\ special.sources \subseteq special.landed \cap {"copied"}]_vars
================================================================================
