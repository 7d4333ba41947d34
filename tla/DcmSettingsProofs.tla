--------------------------- MODULE DcmSettingsProofs ---------------------------
(***************************************************************************)
(* The PID file keeps a second daemon out, for any number of processes and *)
(* any configurations: crashes, PIDs that are used again and a removal     *)
(* long before the exit included, as long as no two daemons ask at once.   *)
(* Then only one daemon stores settings, and the files that other programs *)
(* read say what it has in force.                                          *)
(***************************************************************************)
EXTENDS DcmSettings, TLAPS

LEMMA InitTypes == Init => TypeOK
  BY ContentAssumption DEF Init, TypeOK, Contents, Checking, Serving, Storing, Leaving

\* No action leaves the types; one leaf for each.
LEMMA StepTypes == TypeOK /\ [Next]_vars => TypeOK'
<1> SUFFICES ASSUME TypeOK, [Next]_vars PROVE TypeOK'
  OBVIOUS
<1> USE ContentAssumption DEF TypeOK, Goes, Ends, Continue, stored, history,
        Checking, Serving, Storing, Leaving, Contents
<1>1. ASSUME NEW d \in Pids, StartDaemon(d) PROVE TypeOK'
  BY <1>1 DEF StartDaemon
<1>2. ASSUME NEW d \in Pids, ReadPid(d) PROVE TypeOK'
  BY <1>2 DEF ReadPid
<1>3. ASSUME NEW d \in Pids, AlreadyRunning(d) PROVE TypeOK'
  BY <1>3 DEF AlreadyRunning
<1>4. ASSUME NEW d \in Pids, PidIsStale(d) PROVE TypeOK'
  BY <1>4 DEF PidIsStale
<1>5. ASSUME NEW d \in Pids, OpenPid(d) PROVE TypeOK'
  BY <1>5 DEF OpenPid
<1>6. ASSUME NEW d \in Pids, WritePid(d) PROVE TypeOK'
  BY <1>6 DEF WritePid
<1>7. ASSUME NEW d \in Pids, InitDaemon(d) PROVE TypeOK'
  BY <1>7 DEF InitDaemon
<1>8. ASSUME NEW d \in Pids, DefaultBoot(d) PROVE TypeOK'
  BY <1>8 DEF DefaultBoot, dcmUtilsGetFileEntry
<1>9. ASSUME NEW d \in Pids, ParseConf(d) PROVE TypeOK'
  BY <1>9 DEF ParseConf
<1>10. ASSUME NEW d \in Pids, UploadsDone(d) PROVE TypeOK'
  BY <1>10 DEF UploadsDone
<1>11. ASSUME NEW d \in Pids, OpenTmp(d) PROVE TypeOK'
  BY <1>11, ZenonT(60) DEF OpenTmp
<1>12. ASSUME NEW d \in Pids, OpenOpt(d) PROVE TypeOK'
  BY <1>12, ZenonT(60) DEF OpenOpt
<1>13. ASSUME NEW d \in Pids, ReadConf(d) PROVE TypeOK'
  BY <1>13 DEF ReadConf
<1>14. ASSUME NEW d \in Pids, CloseOpt(d) PROVE TypeOK'
  BY <1>14 DEF CloseOpt
<1>15. ASSUME NEW d \in Pids, CloseTmp(d) PROVE TypeOK'
  BY <1>15 DEF CloseTmp
<1>16. ASSUME NEW d \in Pids, SaveMaintenance(d) PROVE TypeOK'
  BY <1>16, ZenonT(60) DEF SaveMaintenance
<1>17. ASSUME NEW d \in Pids, Signal(d) PROVE TypeOK'
  BY <1>17 DEF Signal
<1>18. ASSUME NEW d \in Pids, RemovePidFile(d) PROVE TypeOK'
  BY <1>18 DEF RemovePidFile
<1>19. ASSUME NEW d \in Pids, Leave(d) PROVE TypeOK'
  BY <1>19 DEF Leave
<1>20. ASSUME NEW d \in Pids, Crash(d) PROVE TypeOK'
  BY <1>20 DEF Crash
<1>21. ASSUME NEW d \in Pids, OtherProgram(d) PROVE TypeOK'
  BY <1>21 DEF OtherProgram
<1>22. ASSUME NEW c \in Confs, T2Writes(c) PROVE TypeOK'
  BY <1>22 DEF T2Writes
<1>23. CASE Reboot
  BY <1>23 DEF Reboot
<1>24. CASE UNCHANGED vars
  BY <1>24 DEF vars
<1> QED
  BY <1>1, <1>2, <1>3, <1>4, <1>5, <1>6, <1>7, <1>8, <1>9, <1>10, <1>11, <1>12, <1>13,
     <1>14, <1>15, <1>16, <1>17, <1>18, <1>19, <1>20, <1>21, <1>22, <1>23, <1>24
     DEF Next, Daemon

\* What the daemon knows and has stored stays in its range, whatever T2 writes.
THEOREM TypeCorrect == Spec => []TypeOK
  BY InitTypes, StepTypes, PTL DEF Spec

-----------------------------------------------------------------------------
(***************************************************************************)
(* The invariant follows a daemon from the writing of its PID to the       *)
(* removal of the file, not only while it serves: all that time the file   *)
(* names it, so that whoever asks has read its PID and finds it alive.     *)
(* Nobody is between the check and the writing then, and before that there *)
(* is never more than one.                                                 *)
(***************************************************************************)
Registered(d) == pc[d] \in Serving \cup {"init", "remove"}

Excludes(d) ==
  /\ pid = d
  /\ \A e \in Pids \ {d} :
       ~Registered(e) /\ (pc[e] \in Checking => pc[e] = "stat" /\ seen[e] = d)

OneChecks(d) == \A e \in Pids \ {d} : pc[e] \notin Checking

PidInv ==
  ~race => \A d \in Pids : /\ Registered(d) => Excludes(d)
                           /\ pc[d] \in Checking => OneChecks(d)

LEMMA InitPid == Init => PidInv
<1> SUFFICES ASSUME Init, NEW d \in Pids PROVE ~Registered(d) /\ pc[d] \notin Checking
  BY DEF PidInv
<1>1. pc[d] = "none"
  BY DEF Init
<1> QED
  BY <1>1 DEF Registered, Checking, Serving, Storing

LEMMA StepPid == TypeOK /\ PidInv /\ [Next]_vars => PidInv'
<1> SUFFICES ASSUME TypeOK, PidInv, [Next]_vars PROVE PidInv'
  OBVIOUS
<1> USE ContentAssumption DEF TypeOK, PidInv, Registered, Excludes, OneChecks, Goes, Ends,
        Continue, Checking, Serving, Storing, Leaving, history
<1>1. ASSUME NEW d \in Pids, StartDaemon(d) PROVE PidInv'
  BY <1>1 DEF StartDaemon
<1>2. ASSUME NEW d \in Pids, ReadPid(d) PROVE PidInv'
  <2>1. CASE race \/ \E e \in Pids \ {d} : pc[e] \in Checking
    BY <1>2, <2>1 DEF ReadPid
  <2>2. CASE ~race /\ \A e \in Pids \ {d} : pc[e] \notin Checking
    <3>1. pc' = [pc EXCEPT ![d] = IF pid = Absent THEN "open" ELSE "stat"]
          /\ seen' = [seen EXCEPT ![d] = pid] /\ pid' = pid /\ pc[d] = "check"
      BY <1>2 DEF ReadPid
    <3>2. \A e \in Pids : pc'[e] \in Checking <=> e = d
      BY <2>2, <3>1
    <3>3. ASSUME NEW e \in Pids, Registered(e)' PROVE Excludes(e)'
      <4>1. e # d /\ Registered(e) /\ Excludes(e)
        BY <2>2, <3>1, <3>3
      <4> QED BY <3>1, <3>2, <4>1
    <3> QED BY <3>2, <3>3
  <2> QED BY <2>1, <2>2
<1>3. ASSUME NEW d \in Pids, AlreadyRunning(d) PROVE PidInv'
  BY <1>3 DEF AlreadyRunning
<1>4. ASSUME NEW d \in Pids, PidIsStale(d) PROVE PidInv'
  BY <1>4 DEF PidIsStale, IsRunning
<1>5. ASSUME NEW d \in Pids, OpenPid(d) PROVE PidInv'
  BY <1>5 DEF OpenPid
<1>6. ASSUME NEW d \in Pids, WritePid(d) PROVE PidInv'
  BY <1>6 DEF WritePid
<1>7. ASSUME NEW d \in Pids, Registered(d), Registered(d)', pid' = pid, seen' = seen, race' = race,
             \A e \in Pids \ {d} : pc'[e] = pc[e]
      PROVE  PidInv'
  BY <1>7
<1>8. ASSUME NEW d \in Pids,
             \/ InitDaemon(d) \/ DefaultBoot(d) \/ ParseConf(d) \/ UploadsDone(d) \/ OpenTmp(d)
             \/ OpenOpt(d) \/ ReadConf(d) \/ CloseOpt(d) \/ CloseTmp(d) \/ SaveMaintenance(d)
             \/ Signal(d)
      PROVE  PidInv'
  <2>1. /\ Registered(d) /\ Registered(d)' /\ pid' = pid /\ seen' = seen /\ race' = race
        /\ \A e \in Pids \ {d} : pc'[e] = pc[e]
    BY <1>8 DEF InitDaemon, DefaultBoot, ParseConf, UploadsDone, OpenTmp, OpenOpt, ReadConf,
       CloseOpt, CloseTmp, SaveMaintenance, Signal
  <2> QED BY <2>1, <1>7
<1>9. ASSUME NEW d \in Pids, RemovePidFile(d) PROVE PidInv'
  BY <1>9 DEF RemovePidFile
<1>10. ASSUME NEW d \in Pids, Leave(d) PROVE PidInv'
  BY <1>10 DEF Leave
<1>11. ASSUME NEW d \in Pids, Crash(d) PROVE PidInv'
  BY <1>11 DEF Crash
<1>12. ASSUME NEW d \in Pids, OtherProgram(d) PROVE PidInv'
  BY <1>12 DEF OtherProgram
<1>13. ASSUME NEW c \in Confs, T2Writes(c) PROVE PidInv'
  BY <1>13 DEF T2Writes
<1>14. CASE Reboot
  BY <1>14 DEF Reboot
<1>15. CASE UNCHANGED vars
  BY <1>15 DEF vars
<1> QED
  BY <1>1, <1>2, <1>3, <1>4, <1>5, <1>6, <1>8, <1>9, <1>10, <1>11, <1>12, <1>13, <1>14, <1>15
     DEF Next, Daemon

LEMMA PidInvExcludes == PidInv => OneDaemon
  BY DEF PidInv, OneDaemon, Registered, Excludes, InForce

\* At most one daemon serves, and the PID file names it, whatever processes there are.
THEOREM Exclusion == Spec => []OneDaemon
<1>1. Init => TypeOK /\ PidInv
  BY InitTypes, InitPid
<1>2. TypeOK /\ PidInv /\ [Next]_vars => (TypeOK /\ PidInv)'
  BY StepTypes, StepPid
<1> QED
  BY <1>1, <1>2, PidInvExcludes, PTL DEF Spec

-----------------------------------------------------------------------------
(***************************************************************************)
(* What a daemon has stored, at each place between an event and the next.  *)
(* Only the daemon that the PID file names writes the two files, so that   *)
(* no other daemon comes between its steps; T2 may, which is spoilt.       *)
(***************************************************************************)
Unparsed == {"none", "other", "check", "init", "boot"} \cup Checking

\* The settings a daemon has in force are those of an event it has had itself.
ParsedInService == \A d \in Pids : pc[d] \in Unparsed => parsed[d] = Absent

\* Up to the second reading of the file it is the one that the first was made from, and
\* what is opened is empty.
BeforeReading(d) ==
  /\ pc[d] \in {"upload", "opentmp", "openopt", "read"} => conf = parsed[d]
  /\ pc[d] \in {"openopt", "read"} => tmp = Blank
  /\ pc[d] = "read" => opt = Blank

\* Then the buffers have all of it, and are written one after the other.
AfterReading(d) ==
  /\ pc[d] \in {"closeopt", "closetmp"} => buffer[d] = parsed[d] /\ parsed[d] \in Whole
  /\ pc[d] = "closetmp" => opt = parsed[d]

\* In the end both files have the configuration, or both are empty.
StoredSettings(d) == IF parsed[d] \in Whole THEN parsed[d] ELSE Blank

Stored(d) ==
  /\ pc[d] \in {"maint", "wait"} => tmp = StoredSettings(d) /\ opt = StoredSettings(d)
  /\ pc[d] = "wait" => (mm => maint = parsed[d])

Settled(d) ==
  (parsed[d] # Absent /\ ~spoilt /\ ~race) => BeforeReading(d) /\ AfterReading(d) /\ Stored(d)

StoringInv == ParsedInService /\ \A d \in Pids : Settled(d)

LEMMA InitStoring == Init => StoringInv
  BY DEF Init, StoringInv, ParsedInService, Settled

\* A step of the daemon in force cannot unsettle another one: there is none.
LEMMA StepInForce ==
  ASSUME PidInv, PidInv', StoringInv, NEW d \in Pids, Registered(d)', Settled(d)', ParsedInService'
  PROVE  StoringInv'
<1> SUFFICES ASSUME NEW e \in Pids, e # d PROVE Settled(e)'
  BY DEF StoringInv
<1>1. CASE race'
  BY <1>1 DEF Settled
<1>2. CASE ~race'
  <2>1. ~Registered(e)'
    BY <1>2 DEF PidInv, Excludes
  <2>2. ~Registered(e)' => Settled(e)'
    BY DEF Settled, Registered, Serving, Storing, BeforeReading, AfterReading, Stored
  <2> QED
    BY <2>1, <2>2
<1> QED
  BY <1>1, <1>2

LEMMA StepStoring == TypeOK /\ PidInv /\ PidInv' /\ StoringInv /\ [Next]_vars => StoringInv'
<1> SUFFICES ASSUME TypeOK, PidInv, PidInv', StoringInv, [Next]_vars PROVE StoringInv'
  OBVIOUS
<1> USE ContentAssumption DEF TypeOK, StoringInv, ParsedInService, Goes, Ends, Continue,
        Unparsed, Checking, Serving, Storing, Leaving, history, stored
(* Before it serves, and when it leaves, a process writes nothing of this. *)
<1>1. ASSUME NEW d \in Pids,
             \/ StartDaemon(d) \/ ReadPid(d) \/ AlreadyRunning(d) \/ PidIsStale(d) \/ OpenPid(d)
             \/ WritePid(d) \/ RemovePidFile(d) \/ Crash(d) \/ OtherProgram(d)
      PROVE  StoringInv'
  <2>1. /\ ParsedInService'
        /\ \A e \in Pids : pc'[e] \in Serving => e # d /\ UNCHANGED <<pc[e], parsed[e], buffer[e]>>
        /\ UNCHANGED <<mm, conf, tmp, opt, maint, spoilt>> /\ (race => race')
    BY <1>1 DEF StartDaemon, ReadPid, AlreadyRunning, PidIsStale, OpenPid, WritePid,
       RemovePidFile, Crash, OtherProgram
  <2> QED
    BY <2>1 DEF Settled, BeforeReading, AfterReading, Stored, StoredSettings
<1>2. ASSUME NEW d \in Pids, Leave(d) PROVE StoringInv'
  BY <1>2 DEF Leave, Settled, BeforeReading, AfterReading, Stored, StoredSettings
(* The daemon in force. *)
<1>3. ASSUME NEW d \in Pids,
             \/ InitDaemon(d) \/ DefaultBoot(d) \/ ParseConf(d) \/ UploadsDone(d) \/ OpenTmp(d)
             \/ OpenOpt(d) \/ ReadConf(d) \/ CloseOpt(d) \/ CloseTmp(d) \/ SaveMaintenance(d)
             \/ Signal(d)
      PROVE  StoringInv'
  <2> USE DEF Settled, BeforeReading, AfterReading, Stored, StoredSettings
  <2>1. Registered(d)'
    BY <1>3 DEF InitDaemon, DefaultBoot, ParseConf, UploadsDone, OpenTmp, OpenOpt, ReadConf,
       CloseOpt, CloseTmp, SaveMaintenance, Signal, Registered
  <2>2. ParsedInService'
    BY <1>3 DEF InitDaemon, DefaultBoot, ParseConf, UploadsDone, OpenTmp, OpenOpt, ReadConf,
       CloseOpt, CloseTmp, SaveMaintenance, Signal
  <2>3. Settled(d)'
    <3>1. CASE InitDaemon(d)
      BY <3>1 DEF InitDaemon
    <3>2. CASE DefaultBoot(d)
      BY <3>2 DEF DefaultBoot
    <3>3. CASE ParseConf(d)
      BY <3>3 DEF ParseConf
    <3>4. CASE UploadsDone(d)
      BY <3>4 DEF UploadsDone
    <3>5. CASE OpenTmp(d)
      BY <3>5 DEF OpenTmp
    <3>6. CASE OpenOpt(d)
      BY <3>6 DEF OpenOpt
    <3>7. CASE ReadConf(d)
      BY <3>7 DEF ReadConf
    <3>8. CASE CloseOpt(d)
      BY <3>8 DEF CloseOpt
    <3>9. CASE CloseTmp(d)
      BY <3>9 DEF CloseTmp
    <3>10. CASE SaveMaintenance(d)
      BY <3>10 DEF SaveMaintenance
    <3>11. CASE Signal(d)
      BY <3>11 DEF Signal
    <3> QED
      BY <1>3, <3>1, <3>2, <3>3, <3>4, <3>5, <3>6, <3>7, <3>8, <3>9, <3>10, <3>11
  <2> QED
    BY <2>1, <2>2, <2>3, StepInForce
<1>4. ASSUME NEW c \in Confs, T2Writes(c) PROVE StoringInv'
  BY <1>4 DEF T2Writes, Settled, BeforeReading, AfterReading, Stored, StoredSettings
<1>5. CASE Reboot
  BY <1>5 DEF Reboot, Settled
<1>6. CASE UNCHANGED vars
  BY <1>6 DEF vars, Settled, BeforeReading, AfterReading, Stored, StoredSettings
<1> QED
  BY <1>1, <1>2, <1>3, <1>4, <1>5, <1>6 DEF Next, Daemon

LEMMA SettledAsParsed == TypeOK /\ StoringInv => StoredAsParsed
<1> SUFFICES ASSUME TypeOK, StoringInv, NEW d \in Pids,
                    pc[d] = "wait", parsed[d] # Absent, ~spoilt, ~race
             PROVE  /\ UploadFlag <=> parsed[d] \in Whole \cap UploadOn
                    /\ opt = tmp
                    /\ mm => maint = parsed[d]
  BY DEF StoredAsParsed
<1>1. tmp = StoredSettings(d) /\ opt = StoredSettings(d) /\ (mm => maint = parsed[d])
  BY DEF StoringInv, Settled, Stored
<1>2. CASE parsed[d] \in Whole
  BY <1>1, <1>2, ContentAssumption DEF StoredSettings, UploadFlag
<1>3. CASE parsed[d] \notin Whole
  <2>1. tmp = "blank"
    BY <1>1, <1>3 DEF StoredSettings, Blank
  <2>2. "blank" \notin UploadOn
    BY ContentAssumption DEF Blank
  <2> QED
    BY <1>1, <1>3, <2>1, <2>2 DEF UploadFlag, Absent
<1> QED
  BY <1>2, <1>3

\* Other programs read what the daemon has in force: for any configurations, whole or cut,
\* and across crashes, default boots and daemons on their way out.
THEOREM StoredIsParsed == Spec => []StoredAsParsed
<1>1. Init => TypeOK /\ PidInv /\ StoringInv
  BY InitTypes, InitPid, InitStoring
<1>2. TypeOK /\ PidInv /\ StoringInv /\ [Next]_vars => (TypeOK /\ PidInv /\ StoringInv)'
  BY StepTypes, StepPid, StepStoring
<1> QED
  BY <1>1, <1>2, SettledAsParsed, PTL DEF Spec
================================================================================
