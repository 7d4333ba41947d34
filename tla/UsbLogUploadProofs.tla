--------------------------- MODULE UsbLogUploadProofs --------------------------
(***************************************************************************)
(* For any number of invocations, logs, minutes and lines: an invocation   *)
(* that has its minute for itself carries what it moves from its directory *)
(* over its archive to the drive, whatever the others do and wherever they *)
(* are killed; so success is true, and each loss has one of few causes.    *)
(***************************************************************************)
EXTENDS UsbLogUpload, TLAPS

(***************************************************************************)
(* Types: a directory of /opt/tmpusb is a record, and nothing else.        *)
(***************************************************************************)
IsDirectory(d) == /\ d = [logs |-> d.logs, tars |-> d.tars]
                  /\ IsPartial(d.logs, Logs, SUBSET Lines) /\ IsPartial(d.tars, Minutes, Archive)

HandlesHold ==
  \A l \in Logs :
    /\ handle[l] = InLog => l \in DOMAIN log
    /\ handle[l] \in Minutes => handle[l] \in DOMAIN tmp /\ l \in DOMAIN tmp[handle[l]].logs

Invocation == [pc : Steps, status : -2 .. 4, dir : Minutes \cup {NoMinute},
               name : Minutes \cup {NoMinute}, todo : SUBSET Logs, noted : SUBSET Lines,
               moved : SUBSET Lines, tar : Archive, short : BOOLEAN]
RunType == [Runs -> Invocation]

PlacesType ==
  /\ device \in BOOLEAN /\ minute \in Minutes /\ hup \in BOOLEAN
  /\ written \in 0 .. MaxLines /\ late \subseteq Lines
  /\ IsPartial(log, Logs, SUBSET Lines) /\ IsPartial(drive, Minutes, Archive)
  /\ DOMAIN tmp \subseteq Minutes /\ \A m \in DOMAIN tmp : IsDirectory(tmp[m])
  /\ handle \in [Logs -> {InLog, Gone} \cup Minutes]

TypeInv == PlacesType /\ run \in RunType /\ HandlesHold

(***************************************************************************)
(* Where the lines of an invocation are that has its minute for itself.    *)
(***************************************************************************)
Busy == {"move", "begin", "pack", "open", "write"}

InDirectory(r) ==
  run[r].dir \in DOMAIN tmp /\ run[r].moved \subseteq Content(tmp[run[r].dir].logs)

Has(r, archive) == run[r].moved \subseteq archive.lines /\ (archive.whole \/ late # {})

OnDrive(r) == run[r].dir \in DOMAIN drive /\ Has(r, drive[run[r].dir])

Carried(r) ==
  /\ run[r].pc \in Busy => InDirectory(r)
  /\ At(r, "move") => run[r].todo \cap DOMAIN tmp[run[r].dir].logs = {}
  /\ At(r, "pack") => run[r].noted = Content(tmp[run[r].dir].logs) \/ late # {}
  /\ (At(r, "open") /\ HasTar(r) /\ ~run[r].short) => Has(r, tmp[run[r].dir].tars[run[r].name])
  /\ (At(r, "write") /\ ~run[r].short) => Has(r, run[r].tar)
  /\ (run[r].pc \in {"cleanup", "over"} /\ run[r].status = 0 /\ ~run[r].short) => OnDrive(r)
  /\ (run[r].pc \in {"cleanup", "over"} /\ run[r].status \notin {0, 3}) => run[r].moved = {}
  /\ (At(r, "killed") /\ run[r].status # 3 /\ ~run[r].short) =>
       run[r].moved = {} \/ OnDrive(r) \/ InDirectory(r)

\* Only an invocation that has begun has a directory, and whatever moves logs has not
\* failed yet.
BegunBy(r) ==
  /\ At(r, "start") => run[r].dir = NoMinute /\ run[r].status = 0
  /\ run[r].dir = NoMinute =>
       run[r].moved = {} /\ (At(r, "start") \/ (At(r, "over") /\ run[r].status # 0))
  /\ run[r].pc \in Busy => run[r].status = 0
Begun == \A r \in Runs : BegunBy(r)

\* Every directory is that of an invocation: the next minute's is a new one.
Named == \A m \in DOMAIN tmp : \E r \in Runs : run[r].dir = m

CarryInv == Begun /\ Named /\ \A r \in Runs : Alone(r) => Carried(r)

\* Every line is in LOG_PATH, was moved by an invocation, or was written late.
LinesInv == 1 .. written \subseteq late \cup Content(log) \cup UNION {run[r].moved : r \in Runs}

-----------------------------------------------------------------------------
(* Types.                                                                  *)

LEMMA TypeInvIsType == TypeInv => TypeOK
<1> SUFFICES ASSUME TypeInv PROVE TypeOK
  OBVIOUS
<1>1. \A l \in Logs :
       CASE handle[l] = InLog -> l \in DOMAIN log
         [] handle[l] \in Minutes -> handle[l] \in DOMAIN tmp /\ l \in DOMAIN tmp[handle[l]].logs
         [] OTHER -> TRUE
  BY DEF TypeInv, HandlesHold
<1> QED
  BY <1>1 DEF TypeInv, PlacesType, TypeOK, IsDirectory, RunType, Invocation

LEMMA PutType ==
  ASSUME NEW f, NEW S, NEW T, IsPartial(f, S, T), NEW x \in S, NEW v \in T
  PROVE  IsPartial(Put(f, x, v), S, T)
  BY DEF IsPartial, Put

LEMMA WithoutType ==
  ASSUME NEW f, NEW S, NEW T, IsPartial(f, S, T), NEW x
  PROVE  IsPartial(Without(f, x), S, T)
  BY DEF IsPartial, Without

LEMMA ExceptType ==
  ASSUME NEW f, NEW S, NEW T, IsPartial(f, S, T), NEW x \in DOMAIN f, NEW v \in T
  PROVE  IsPartial([f EXCEPT ![x] = v], S, T)
  BY DEF IsPartial

LEMMA PartialIsFunction ==
  ASSUME NEW f, NEW S, NEW T, IsPartial(f, S, T)
  PROVE  \A x \in DOMAIN f : x \in S /\ f[x] \in T
  BY DEF IsPartial

\* A step that changes the logs, or the archives, of one directory.
LEMMA LogsChange ==
  ASSUME NEW d \in DOMAIN tmp, IsDirectory(tmp[d]), NEW logs, tmp' = [tmp EXCEPT ![d].logs = logs]
  PROVE  /\ DOMAIN tmp' = DOMAIN tmp
         /\ tmp'[d] = [logs |-> logs, tars |-> tmp[d].tars]
         /\ \A m \in DOMAIN tmp \ {d} : tmp'[m] = tmp[m]
<1>1. tmp' = [tmp EXCEPT ![d] = [tmp[d] EXCEPT !.logs = logs]]
  OBVIOUS
<1>2. [tmp[d] EXCEPT !.logs = logs] = [logs |-> logs, tars |-> tmp[d].tars]
  BY DEF IsDirectory
<1> QED
  BY <1>1, <1>2

LEMMA TarsChange ==
  ASSUME NEW d \in DOMAIN tmp, IsDirectory(tmp[d]), NEW tars, tmp' = [tmp EXCEPT ![d].tars = tars]
  PROVE  /\ DOMAIN tmp' = DOMAIN tmp
         /\ tmp'[d] = [logs |-> tmp[d].logs, tars |-> tars]
         /\ \A m \in DOMAIN tmp \ {d} : tmp'[m] = tmp[m]
<1>1. tmp' = [tmp EXCEPT ![d] = [tmp[d] EXCEPT !.tars = tars]]
  OBVIOUS
<1>2. [tmp[d] EXCEPT !.tars = tars] = [logs |-> tmp[d].logs, tars |-> tars]
  BY DEF IsDirectory
<1> QED
  BY <1>1, <1>2

LEMMA ContentType ==
  ASSUME NEW logs, IsPartial(logs, Logs, SUBSET Lines)
  PROVE  Content(logs) \subseteq Lines
  BY DEF Content, IsPartial

LEMMA StoredType ==
  ASSUME NEW tars, IsPartial(tars, Minutes, Archive)
  PROVE  Stored(tars) \subseteq Lines
  BY DEF Stored, IsPartial, Archive

LEMMA InitTypes == Init => TypeInv
<1> SUFFICES ASSUME Init PROVE TypeInv
  OBVIOUS
<1>1. IsPartial(log, Logs, SUBSET Lines)
  BY DEF Init, IsPartial
<1>2. DOMAIN drive = {} /\ drive \in [{} -> Archive] /\ DOMAIN tmp = {}
  BY DEF Init, Empty
<1>3. run \in RunType
  BY DEF Init, RunType, Invocation, Steps, Partly, Archive
<1>4. minute \in Minutes /\ written \in 0 .. MaxLines /\ \A l \in Logs : handle[l] = InLog /\ l \in DOMAIN log
  BY UsbAssumption DEF Init, Minutes
<1>5. InLog \notin Minutes
  BY UsbAssumption DEF Minutes, InLog
<1>6. HandlesHold
  BY <1>4, <1>5 DEF HandlesHold
<1>7. PlacesType
  BY <1>1, <1>2, <1>4 DEF Init, PlacesType, IsPartial
<1> QED
  BY <1>3, <1>6, <1>7 DEF TypeInv

\* What is known of every place, and of the record of an invocation.
LEMMA Known ==
  ASSUME TypeInv
  PROVE  /\ \A r \in Runs :
              /\ run[r].pc \in Steps /\ run[r].status \in -2 .. 4
              /\ run[r].dir \in Minutes \cup {NoMinute} /\ run[r].name \in Minutes \cup {NoMinute}
              /\ run[r].todo \subseteq Logs /\ run[r].noted \subseteq Lines
              /\ run[r].moved \subseteq Lines /\ run[r].tar \in Archive /\ run[r].short \in BOOLEAN
         /\ \A l \in DOMAIN log : l \in Logs /\ log[l] \subseteq Lines
         /\ \A m \in DOMAIN tmp : m \in Minutes /\ IsDirectory(tmp[m])
         /\ \A m \in DOMAIN drive : m \in Minutes /\ drive[m] \in Archive
  BY DEF TypeInv, PlacesType, RunType, Invocation, IsPartial

LEMMA RunOnly ==
  ASSUME TypeInv, run' \in RunType, hup' \in BOOLEAN,
         UNCHANGED <<device, minute, places, handle, written, late>>
  PROVE  TypeInv'
  BY DEF TypeInv, PlacesType, HandlesHold, places

\* The steps that create and copy archives leave every log where it is.
LEMMA ArchivesOnly ==
  ASSUME TypeInv, run' \in RunType,
         UNCHANGED <<device, minute, log, handle, hup, written, late>>,
         IsPartial(drive', Minutes, Archive),
         DOMAIN tmp' \subseteq Minutes, DOMAIN tmp \subseteq DOMAIN tmp',
         \A m \in DOMAIN tmp' : IsDirectory(tmp'[m]),
         \A m \in DOMAIN tmp : tmp'[m].logs = tmp[m].logs
  PROVE  TypeInv'
<1>1. PlacesType'
  BY DEF TypeInv, PlacesType
<1>2. HandlesHold'
  BY DEF TypeInv, HandlesHold
<1> QED
  BY <1>1, <1>2 DEF TypeInv

LEMMA TarsKeepType ==
  ASSUME TypeInv, run' \in RunType, NEW d \in DOMAIN tmp, NEW tars, IsPartial(tars, Minutes, Archive),
         UNCHANGED <<device, minute, log, handle, hup, written, late>>,
         IsPartial(drive', Minutes, Archive), tmp' = [tmp EXCEPT ![d].tars = tars]
  PROVE  TypeInv'
<1>1. \A m \in DOMAIN tmp : m \in Minutes /\ IsDirectory(tmp[m])
  BY Known
<1>2. DOMAIN tmp' = DOMAIN tmp /\ tmp'[d] = [logs |-> tmp[d].logs, tars |-> tars]
      /\ \A m \in DOMAIN tmp \ {d} : tmp'[m] = tmp[m]
  BY <1>1, TarsChange
<1>3. IsDirectory(tmp'[d]) /\ tmp'[d].logs = tmp[d].logs
  BY <1>1, <1>2 DEF IsDirectory
<1> QED
  BY <1>1, <1>2, <1>3, ArchivesOnly

LEMMA RunChange ==
  ASSUME TypeInv, NEW r \in Runs, NEW x \in Invocation, run' = [run EXCEPT ![r] = x]
  PROVE  run' \in RunType
  BY DEF TypeInv, RunType

LEMMA RunMember ==
  ASSUME TypeInv, NEW r \in Runs
  PROVE  run[r] \in Invocation
  BY DEF TypeInv, RunType

LEMMA AbortTypes ==
  ASSUME TypeInv, NEW r \in Runs, NEW status \in -2 .. 4, Abort(r, status)
  PROVE  run' \in RunType
<1>1. [run[r] EXCEPT !.pc = "cleanup", !.status = status] \in Invocation
  BY RunMember DEF Invocation, Steps
<1> QED
  BY <1>1, RunChange, ZenonT(60) DEF Abort

LEMMA RefuseTypes ==
  ASSUME TypeInv, NEW r \in Runs, NEW status \in -2 .. 4, Refuse(r, status)
  PROVE  TypeInv'
<1>1. [run[r] EXCEPT !.pc = "over", !.status = status] \in Invocation
  BY RunMember DEF Invocation, Steps
<1>2. run' \in RunType
  BY <1>1, RunChange DEF Refuse, Return
<1> QED
  BY <1>2, RunOnly DEF Refuse, TypeInv, PlacesType

LEMMA InvocationBegins ==
  ASSUME NEW x \in Invocation, NEW pc \in Steps, NEW dir \in Minutes
  PROVE  /\ \A todo \in SUBSET Logs : [x EXCEPT !.pc = pc, !.dir = dir, !.todo = todo] \in Invocation
         /\ \A status \in -2 .. 4 : [x EXCEPT !.pc = pc, !.dir = dir, !.status = status] \in Invocation
  BY DEF Invocation

LEMMA BeginTypes ==
  ASSUME TypeInv, NEW r \in Runs, Begin(r)
  PROVE  TypeInv'
<1>1. run \in RunType /\ minute \in Minutes /\ DOMAIN log \subseteq Logs
  BY DEF TypeInv, PlacesType, IsPartial
<1>2. run' \in RunType
  <2>1. CASE run' = [run EXCEPT ![r].pc = "move", ![r].dir = minute, ![r].todo = DOMAIN log]
    <3>1. "move" \in Steps
      BY DEF Steps
    <3>2. [run[r] EXCEPT !.pc = "move", !.dir = minute, !.todo = DOMAIN log] \in Invocation
      BY <1>1, <3>1, RunMember, InvocationBegins
    <3>3. run' = [run EXCEPT ![r] = [run[r] EXCEPT !.pc = "move", !.dir = minute, !.todo = DOMAIN log]]
      BY <2>1
    <3> QED
      BY <3>2, <3>3, RunChange
  <2>2. CASE run' = [run EXCEPT ![r].pc = "cleanup", ![r].dir = minute, ![r].status = -2]
    <3>1. "cleanup" \in Steps /\ -2 \in -2 .. 4
      BY DEF Steps
    <3>2. [run[r] EXCEPT !.pc = "cleanup", !.dir = minute, !.status = -2] \in Invocation
      BY <1>1, <3>1, RunMember, InvocationBegins
    <3>3. run' = [run EXCEPT ![r] = [run[r] EXCEPT !.pc = "cleanup", !.dir = minute, !.status = -2]]
      BY <2>2
    <3> QED
      BY <3>2, <3>3, RunChange
  <2> QED
    BY <2>1, <2>2 DEF Begin, ArchiveName
<1>3. \A m \in DOMAIN tmp : m \in Minutes /\ IsDirectory(tmp[m])
  BY Known
<1>4. IsDirectory([logs |-> Empty, tars |-> Empty])
  BY DEF IsDirectory, IsPartial, Empty
<1>5. tmp' = tmp \/ (minute \notin DOMAIN tmp /\ tmp' = Put(tmp, minute, [logs |-> Empty, tars |-> Empty]))
  BY DEF Begin, CreateDirectory, ArchiveName
<1>6. /\ DOMAIN tmp' \subseteq Minutes /\ DOMAIN tmp \subseteq DOMAIN tmp'
      /\ \A m \in DOMAIN tmp' : IsDirectory(tmp'[m])
      /\ \A m \in DOMAIN tmp : tmp'[m].logs = tmp[m].logs
  BY <1>1, <1>3, <1>4, <1>5 DEF Put
<1>7. IsPartial(drive', Minutes, Archive)
  BY DEF Begin, TypeInv, PlacesType
<1> QED
  BY <1>2, <1>6, <1>7, ArchivesOnly DEF Begin

LEMMA MoveTypes ==
  ASSUME TypeInv, NEW r \in Runs, NEW l \in Logs, MoveFile(r, l)
  PROVE  TypeInv'
<1> DEFINE dir == run[r].dir
<1>2. CASE run' = [run EXCEPT ![r].todo = @ \ {l}] /\ UNCHANGED <<log, tmp, handle>>
  <2>1. run' \in RunType
    <3>1. [run[r] EXCEPT !.todo = @ \ {l}] \in Invocation
      BY RunMember DEF Invocation
    <3> QED
      BY <1>2, <3>1, RunChange
  <2> QED
    BY <1>2, <2>1, RunOnly DEF MoveFile, places, TypeInv, PlacesType
<1>3. CASE /\ l \in DOMAIN log /\ dir \in DOMAIN tmp
           /\ log' = Without(log, l)
           /\ tmp' = [tmp EXCEPT ![dir].logs = Put(tmp[dir].logs, l, log[l])]
           /\ handle' = HandlesAfterMove(l, dir)
           /\ run' = [run EXCEPT ![r].todo = @ \ {l}, ![r].moved = @ \cup log[l]]
  <2>1. log[l] \subseteq Lines /\ dir \in Minutes /\ \A m \in DOMAIN tmp : m \in Minutes /\ IsDirectory(tmp[m])
    BY <1>3, Known
  <2>2. run' \in RunType
    <3>1. [run[r] EXCEPT !.todo = @ \ {l}, !.moved = @ \cup log[l]] \in Invocation
      BY <2>1, RunMember DEF Invocation
    <3> QED
      BY <1>3, <3>1, RunChange
  <2>3. IsPartial(log', Logs, SUBSET Lines) /\ DOMAIN log' = DOMAIN log \ {l}
    BY <1>3, WithoutType DEF TypeInv, PlacesType, Without
  <2>4. IsPartial(Put(tmp[dir].logs, l, log[l]), Logs, SUBSET Lines)
    BY <1>3, <2>1, PutType DEF IsDirectory
  <2>5. /\ DOMAIN tmp' = DOMAIN tmp
        /\ tmp'[dir] = [logs |-> Put(tmp[dir].logs, l, log[l]), tars |-> tmp[dir].tars]
        /\ \A m \in DOMAIN tmp \ {dir} : tmp'[m] = tmp[m]
    BY <1>3, <2>1, LogsChange
  <2>6. \A m \in DOMAIN tmp' : IsDirectory(tmp'[m])
    <3>1. IsPartial(tmp[dir].tars, Minutes, Archive)
      BY <1>3, <2>1 DEF IsDirectory
    <3>2. IsDirectory(tmp'[dir])
      BY <2>4, <2>5, <3>1 DEF IsDirectory
    <3> QED
      BY <2>1, <2>5, <3>2
  <2>7. handle \in [Logs -> {InLog, Gone} \cup Minutes] /\ HandlesHold /\ InLog \notin Minutes /\ Gone \notin Minutes
    BY UsbAssumption DEF TypeInv, PlacesType, Minutes, InLog, Gone
  <2>8. /\ handle' \in [Logs -> {InLog, Gone} \cup Minutes]
        /\ handle'[l] # InLog /\ (handle'[l] # dir => handle'[l] = handle[l] \/ handle'[l] = Gone)
        /\ \A k \in Logs \ {l} : handle'[k] = handle[k]
    BY <1>3, <2>1, <2>7 DEF HandlesAfterMove, InLog, Gone
  <2>9. DOMAIN tmp'[dir].logs = DOMAIN tmp[dir].logs \cup {l}
    BY <2>5 DEF Put
  <2>10. \A m \in DOMAIN tmp : DOMAIN tmp[m].logs \subseteq DOMAIN tmp'[m].logs
    BY <2>5, <2>9
  <2>11. HandlesHold'
    <3> SUFFICES ASSUME NEW k \in Logs
                 PROVE  /\ handle'[k] = InLog => k \in DOMAIN log'
                        /\ handle'[k] \in Minutes =>
                             handle'[k] \in DOMAIN tmp' /\ k \in DOMAIN tmp'[handle'[k]].logs
      BY DEF HandlesHold
    <3>1. CASE k # l
      BY <2>3, <2>5, <2>7, <2>8, <2>10, <3>1 DEF HandlesHold
    <3>2. CASE k = l
      BY <1>3, <2>5, <2>7, <2>8, <2>9, <2>10, <3>2 DEF HandlesHold
    <3> QED
      BY <3>1, <3>2
  <2>12. PlacesType'
    BY <2>1, <2>3, <2>5, <2>6, <2>8 DEF MoveFile, TypeInv, PlacesType
  <2> QED
    BY <2>2, <2>11, <2>12 DEF TypeInv
<1> QED
  BY <1>2, <1>3 DEF MoveFile

LEMMA ReloadTypes ==
  ASSUME TypeInv, NEW r \in Runs, Reload(r)
  PROVE  TypeInv'
<1>1. [run[r] EXCEPT !.pc = "begin"] \in Invocation
  BY RunMember DEF Invocation, Steps
<1>2. run' \in RunType
  BY <1>1, RunChange DEF Reload, GoTo
<1>3. hup' \in BOOLEAN
  BY DEF Reload, TypeInv, PlacesType
<1> QED
  BY <1>2, <1>3, RunOnly DEF Reload

LEMMA DriveStays == ASSUME TypeInv, UNCHANGED drive PROVE IsPartial(drive', Minutes, Archive)
  BY DEF TypeInv, PlacesType

LEMMA BeginArchiveTypes ==
  ASSUME TypeInv, NEW r \in Runs, BeginArchive(r)
  PROVE  TypeInv'
<1> DEFINE dir == run[r].dir
<1>1. IsPartial(drive', Minutes, Archive)
  BY DriveStays DEF BeginArchive
<1>2. CASE (Abort(r, -2) \/ Abort(r, 3)) /\ UNCHANGED tmp
  <2>1. run' \in RunType
    BY <1>2, AbortTypes
  <2>2. \A m \in DOMAIN tmp : m \in Minutes /\ IsDirectory(tmp[m])
    BY Known
  <2> QED
    BY <1>1, <1>2, <2>1, <2>2, ArchivesOnly DEF BeginArchive
<1>3. CASE /\ dir \in DOMAIN tmp
           /\ tmp' = [tmp EXCEPT ![dir].tars = Put(tmp[dir].tars, minute, Partly)]
           /\ run' = [run EXCEPT ![r].pc = "pack", ![r].name = minute,
                                 ![r].noted = Content(tmp[dir].logs)]
  <2>1. minute \in Minutes /\ IsDirectory(tmp[dir])
    BY <1>3, Known DEF TypeInv, PlacesType
  <2>2. Content(tmp[dir].logs) \subseteq Lines
    BY <2>1, ContentType DEF IsDirectory
  <2>3. [run[r] EXCEPT !.pc = "pack", !.name = minute, !.noted = Content(tmp[dir].logs)] \in Invocation
    <3>1. \A x \in Invocation, pc \in Steps, name \in Minutes, noted \in SUBSET Lines :
            [x EXCEPT !.pc = pc, !.name = name, !.noted = noted] \in Invocation
      BY DEF Invocation
    <3>2. "pack" \in Steps
      BY DEF Steps
    <3> QED
      BY <2>1, <2>2, <3>1, <3>2, RunMember
  <2>4. run' = [run EXCEPT ![r] = [run[r] EXCEPT !.pc = "pack", !.name = minute,
                                                 !.noted = Content(tmp[dir].logs)]]
    BY <1>3
  <2>5. run' \in RunType
    BY <2>3, <2>4, RunChange
  <2>6. Partly \in Archive
    BY DEF Partly, Archive
  <2>7. IsPartial(Put(tmp[dir].tars, minute, Partly), Minutes, Archive)
    BY <2>1, <2>6, PutType DEF IsDirectory
  <2> QED
    BY <1>1, <1>3, <2>5, <2>7, TarsKeepType DEF BeginArchive
<1> QED
  BY <1>2, <1>3 DEF BeginArchive, ArchiveName

LEMMA PackedType ==
  ASSUME TypeInv, NEW r \in Runs, run[r].dir \in DOMAIN tmp, NEW unread
  PROVE  AddDirectoryToTar(r, unread) \in Archive
<1> DEFINE d == tmp[run[r].dir]
           some == UNION {d.logs[l] : l \in DOMAIN d.logs \ unread}
           others == Stored(Without(d.tars, run[r].name))
<1>1. IsDirectory(d)
  BY Known
<1>2. some \subseteq Lines
  BY <1>1 DEF IsDirectory, IsPartial
<1>3. others \subseteq Lines
  BY <1>1, WithoutType, StoredType DEF IsDirectory
<1>4. AddDirectoryToTar(r, unread)
        = [lines |-> some \cup others, whole |-> (Content(d.logs) = run[r].noted)]
  BY DEF AddDirectoryToTar, FitsItsHeaders
<1>5. \A whole \in BOOLEAN : [lines |-> some \cup others, whole |-> whole] \in Archive
  <2> HIDE DEF some, others
  <2> QED
    BY <1>2, <1>3 DEF Archive
<1>6. (Content(d.logs) = run[r].noted) \in BOOLEAN
  OBVIOUS
<1> HIDE DEF some, others, d
<1> QED
  BY <1>4, <1>5, <1>6

LEMMA FinishArchiveTypes ==
  ASSUME TypeInv, NEW r \in Runs, FinishArchive(r)
  PROVE  TypeInv'
<1> DEFINE dir == run[r].dir
           name == run[r].name
<1>1. IsPartial(drive', Minutes, Archive)
  BY DriveStays DEF FinishArchive
<1>2. CASE Abort(r, 3) /\ UNCHANGED tmp
  <2>1. run' \in RunType
    BY <1>2, AbortTypes
  <2>2. \A m \in DOMAIN tmp : m \in Minutes /\ IsDirectory(tmp[m])
    BY Known
  <2> QED
    BY <1>1, <1>2, <2>1, <2>2, ArchivesOnly DEF FinishArchive
<1>3. CASE /\ HasTar(r) /\ Abort(r, 3)
           /\ tmp' = [tmp EXCEPT ![dir].tars = Without(tmp[dir].tars, name)]
  <2>1. run' \in RunType
    BY <1>3, AbortTypes
  <2>2. dir \in DOMAIN tmp /\ IsDirectory(tmp[dir])
    BY <1>3, Known DEF HasTar
  <2>3. IsPartial(Without(tmp[dir].tars, name), Minutes, Archive)
    BY <2>2, WithoutType DEF IsDirectory
  <2> QED
    BY <1>1, <1>3, <2>1, <2>2, <2>3, TarsKeepType DEF FinishArchive
<1>4. ASSUME HasTar(r), NEW unread \in SUBSET DOMAIN tmp[dir].logs,
             tmp' = [tmp EXCEPT ![dir].tars[name] = AddDirectoryToTar(r, unread)],
             run' = [run EXCEPT ![r].pc = "open", ![r].short = unread # {}, ![r].noted = {}]
      PROVE  TypeInv'
  <2>1. dir \in DOMAIN tmp /\ name \in DOMAIN tmp[dir].tars /\ IsDirectory(tmp[dir])
    BY <1>4, Known DEF HasTar
  <2>2. AddDirectoryToTar(r, unread) \in Archive
    BY <2>1, PackedType
  <2>3. IsPartial([tmp[dir].tars EXCEPT ![name] = AddDirectoryToTar(r, unread)], Minutes, Archive)
    BY <2>1, <2>2, ExceptType DEF IsDirectory
  <2>4. tmp' = [tmp EXCEPT ![dir].tars = [tmp[dir].tars EXCEPT ![name] = AddDirectoryToTar(r, unread)]]
    BY <1>4
  <2>5. [run[r] EXCEPT !.pc = "open", !.short = (unread # {}), !.noted = {}] \in Invocation
    <3>1. \A x \in Invocation, pc \in Steps, short \in BOOLEAN, noted \in SUBSET Lines :
            [x EXCEPT !.pc = pc, !.short = short, !.noted = noted] \in Invocation
      BY DEF Invocation
    <3>2. "open" \in Steps /\ (unread # {}) \in BOOLEAN /\ {} \in SUBSET Lines
      BY DEF Steps
    <3> QED
      BY <3>1, <3>2, RunMember
  <2>6. run' = [run EXCEPT ![r] = [run[r] EXCEPT !.pc = "open", !.short = (unread # {}), !.noted = {}]]
    BY <1>4
  <2>7. run' \in RunType
    BY <2>5, <2>6, RunChange
  <2> QED
    BY <1>1, <2>1, <2>3, <2>4, <2>7, TarsKeepType DEF FinishArchive
<1> QED
  BY <1>2, <1>3, <1>4 DEF FinishArchive

LEMMA OpenCopyTypes ==
  ASSUME TypeInv, NEW r \in Runs, OpenCopy(r)
  PROVE  TypeInv'
<1>1. \A m \in DOMAIN tmp : m \in Minutes /\ IsDirectory(tmp[m])
  BY Known
<1>2. CASE Abort(r, 3) /\ UNCHANGED drive
  <2>1. run' \in RunType /\ IsPartial(drive', Minutes, Archive)
    BY <1>2, AbortTypes, DriveStays
  <2> QED
    BY <1>1, <2>1, ArchivesOnly DEF OpenCopy
<1>3. CASE /\ HasTar(r) /\ drive' = Put(drive, run[r].dir, Partly)
           /\ run' = [run EXCEPT ![r].pc = "write", ![r].tar = tmp[run[r].dir].tars[run[r].name]]
  <2>1. run[r].dir \in Minutes /\ tmp[run[r].dir].tars[run[r].name] \in Archive
    BY <1>1, <1>3 DEF HasTar, IsDirectory, IsPartial
  <2>2. [run[r] EXCEPT !.pc = "write", !.tar = tmp[run[r].dir].tars[run[r].name]] \in Invocation
    <3>1. \A x \in Invocation, pc \in Steps, tar \in Archive : [x EXCEPT !.pc = pc, !.tar = tar] \in Invocation
      BY DEF Invocation
    <3>2. "write" \in Steps
      BY DEF Steps
    <3> QED
      BY <2>1, <3>1, <3>2, RunMember
  <2>3. run' \in RunType
    BY <1>3, <2>2, RunChange
  <2>4. Partly \in Archive
    BY DEF Partly, Archive
  <2>5. IsPartial(drive', Minutes, Archive)
    BY <1>3, <2>1, <2>4, PutType DEF TypeInv, PlacesType
  <2> QED
    BY <1>1, <2>3, <2>5, ArchivesOnly DEF OpenCopy
<1> QED
  BY <1>2, <1>3 DEF OpenCopy, Deliver

\* RemoveTar on the archives of an invocation's directory.
LEMMA RemoveTarTypes ==
  ASSUME TypeInv, NEW r \in Runs, RemoveTar(r), run' \in RunType,
         UNCHANGED <<device, minute, log, handle, hup, written, late>>,
         IsPartial(drive', Minutes, Archive)
  PROVE  TypeInv'
<1>1. \A m \in DOMAIN tmp : m \in Minutes /\ IsDirectory(tmp[m])
  BY Known
<1>2. CASE HasTar(r)
  <2>1. run[r].dir \in DOMAIN tmp
    BY <1>2 DEF HasTar
  <2>2. IsPartial(Without(tmp[run[r].dir].tars, run[r].name), Minutes, Archive)
    BY <1>1, <2>1, WithoutType DEF IsDirectory
  <2>3. tmp' = [tmp EXCEPT ![run[r].dir].tars = Without(tmp[run[r].dir].tars, run[r].name)]
    BY <1>2 DEF RemoveTar
  <2> QED
    BY <2>1, <2>2, <2>3, TarsKeepType
<1>3. CASE ~HasTar(r)
  BY <1>1, <1>3, ArchivesOnly DEF RemoveTar
<1> QED
  BY <1>2, <1>3

LEMMA WriteCopyTypes ==
  ASSUME TypeInv, Begun, NEW r \in Runs, WriteCopy(r)
  PROVE  TypeInv'
<1>1. \A m \in DOMAIN tmp : m \in Minutes /\ IsDirectory(tmp[m])
  BY Known
<1>2. CASE Abort(r, 3) /\ drive' = Without(drive, run[r].dir) /\ UNCHANGED tmp
  <2>1. run' \in RunType /\ IsPartial(drive', Minutes, Archive)
    BY <1>2, AbortTypes, WithoutType DEF TypeInv, PlacesType
  <2> QED
    BY <1>1, <1>2, <2>1, ArchivesOnly DEF WriteCopy
<1>3. CASE Deliver(r, run[r].tar) /\ RemoveTar(r) /\ GoTo(r, "cleanup") /\ At(r, "write")
  <2>1. [run[r] EXCEPT !.pc = "cleanup"] \in Invocation
    BY RunMember DEF Invocation, Steps
  <2>2. run' \in RunType
    BY <1>3, <2>1, RunChange DEF GoTo
  <2>3. run[r].dir \in Minutes /\ run[r].tar \in Archive
    BY <1>3, Known DEF Begun, BegunBy, At, Busy
  <2>4. IsPartial(drive', Minutes, Archive)
    BY <1>3, <2>3, PutType DEF Deliver, TypeInv, PlacesType
  <2> QED
    BY <1>3, <2>2, <2>4, RemoveTarTypes DEF WriteCopy
<1>4. CASE /\ RemoveTar(r) /\ UNCHANGED drive
           /\ run' = [run EXCEPT ![r].pc = "cleanup", ![r].short = TRUE]
  <2>1. [run[r] EXCEPT !.pc = "cleanup", !.short = TRUE] \in Invocation
    <3>1. \A x \in Invocation, pc \in Steps, short \in BOOLEAN : [x EXCEPT !.pc = pc, !.short = short] \in Invocation
      BY DEF Invocation
    <3>2. "cleanup" \in Steps
      BY DEF Steps
    <3> QED
      BY <3>1, <3>2, RunMember
  <2>2. run' \in RunType
    BY <1>4, <2>1, RunChange
  <2> QED
    BY <1>4, <2>2, DriveStays, RemoveTarTypes DEF WriteCopy
<1> QED
  BY <1>2, <1>3, <1>4 DEF WriteCopy

LEMMA EndTypes ==
  ASSUME TypeInv, NEW r \in Runs, NEW pc \in Steps, End(r, pc)
  PROVE  run' \in RunType
<1>1. NoMinute \in Minutes \cup {NoMinute} /\ {} \in SUBSET Logs /\ {} \in SUBSET Lines /\ Partly \in Archive
  BY DEF Partly, Archive
<1>2. \A x \in Invocation, name \in Minutes \cup {NoMinute}, todo \in SUBSET Logs, noted \in SUBSET Lines,
         tar \in Archive :
        [x EXCEPT !.pc = pc, !.name = name, !.todo = todo, !.noted = noted, !.tar = tar] \in Invocation
  BY DEF Invocation
<1>3. [run[r] EXCEPT !.pc = pc, !.name = NoMinute, !.todo = {}, !.noted = {}, !.tar = Partly] \in Invocation
  BY <1>1, <1>2, RunMember
<1>4. run' = [run EXCEPT ![r] = [run[r] EXCEPT !.pc = pc, !.name = NoMinute, !.todo = {},
                                               !.noted = {}, !.tar = Partly]]
  BY DEF End
<1> QED
  BY <1>3, <1>4, RunChange

LEMMA CleanupTypes ==
  ASSUME TypeInv, NEW r \in Runs, Cleanup(r)
  PROVE  TypeInv'
<1> DEFINE dir == run[r].dir
<1>1. "over" \in Steps
  BY DEF Steps
<1>2. run' \in RunType
  BY <1>1, EndTypes DEF Cleanup
<1>3. CASE UNCHANGED <<tmp, handle>>
  BY <1>2, <1>3, RunOnly DEF Cleanup, places, TypeInv, PlacesType
<1>4. CASE RemoveDirectory(dir) /\ handle' = [l \in Logs |-> IF handle[l] = dir THEN Gone ELSE handle[l]]
  <2>1. DOMAIN tmp' = DOMAIN tmp \ {dir} /\ \A m \in DOMAIN tmp' : tmp'[m] = tmp[m]
    BY <1>4 DEF RemoveDirectory, Without
  <2>2. PlacesType /\ HandlesHold
    BY DEF TypeInv
  <2>3. PlacesType'
    BY <1>4, <2>1, <2>2 DEF Cleanup, PlacesType
  <2>4. Gone \notin Minutes /\ Gone # InLog
    BY UsbAssumption DEF Minutes, Gone, InLog
  <2>5. HandlesHold'
    BY <1>4, <2>1, <2>2, <2>4 DEF Cleanup, HandlesHold
  <2> QED
    BY <1>2, <2>3, <2>5 DEF TypeInv
<1> QED
  BY <1>3, <1>4 DEF Cleanup

LEMMA KillTypes ==
  ASSUME TypeInv, NEW r \in Runs, Kill(r)
  PROVE  TypeInv'
<1>1. "killed" \in Steps
  BY DEF Steps
<1>2. run' \in RunType
  BY <1>1, EndTypes DEF Kill
<1> QED
  BY <1>2, RunOnly DEF Kill, TypeInv, PlacesType

\* The writers and syslog-ng.
LEMMA WriteTypes ==
  ASSUME TypeInv, NEW l \in Logs, Write(l)
  PROVE  TypeInv'
<1>1. PlacesType /\ HandlesHold /\ run \in RunType
  BY DEF TypeInv
<1>2. written' \in Lines /\ written' \in 0 .. MaxLines
  BY UsbAssumption, <1>1 DEF Write, PlacesType, Lines
<1>3. \A m \in DOMAIN tmp : m \in Minutes /\ IsDirectory(tmp[m])
  BY Known
<1>4. CASE handle[l] = InLog
  <2>1. log' = [log EXCEPT ![l] = @ \cup {written'}] /\ UNCHANGED <<tmp, late>>
    BY <1>4 DEF Write
  <2>2. l \in DOMAIN log
    BY <1>1, <1>4 DEF HandlesHold
  <2>3. log[l] \cup {written'} \in SUBSET Lines
    BY <1>2, <2>2, Known
  <2>4. IsPartial(log', Logs, SUBSET Lines) /\ DOMAIN log' = DOMAIN log
    BY <1>1, <2>1, <2>2, <2>3, ExceptType DEF PlacesType
  <2>5. PlacesType'
    BY <1>1, <1>2, <2>1, <2>4 DEF Write, PlacesType
  <2>6. HandlesHold'
    BY <1>1, <2>1, <2>4 DEF Write, HandlesHold
  <2> QED
    BY <1>1, <2>5, <2>6 DEF Write, TypeInv
<1>5. CASE handle[l] # InLog
  <2>1. log' = log /\ late' = late \cup {written'} /\ UNCHANGED <<device, minute, drive, handle, hup, run>>
    BY <1>5 DEF Write
  <2>2. late' \subseteq Lines
    BY <1>1, <1>2, <2>1 DEF PlacesType
  <2>3. CASE handle[l] = Gone
    <3>1. tmp' = tmp
      BY <1>5, <2>3 DEF Write
    <3>2. PlacesType'
      BY <1>1, <1>2, <2>1, <2>2, <3>1 DEF PlacesType
    <3>3. HandlesHold'
      BY <1>1, <2>1, <3>1 DEF HandlesHold
    <3> QED
      BY <1>1, <2>1, <3>2, <3>3 DEF TypeInv
  <2>4. CASE handle[l] # Gone
    <3> DEFINE h == handle[l]
               logs == [tmp[h].logs EXCEPT ![l] = @ \cup {written'}]
    <3>1. h \in Minutes
      BY <1>1, <1>5, <2>4 DEF PlacesType
    <3>2. h \in DOMAIN tmp /\ l \in DOMAIN tmp[h].logs /\ IsDirectory(tmp[h])
      BY <1>1, <1>3, <3>1 DEF HandlesHold
    <3>3. tmp' = [tmp EXCEPT ![h].logs = logs]
      BY <1>5, <2>4 DEF Write
    <3>4. tmp[h].logs[l] \cup {written'} \in SUBSET Lines
      BY <1>2, <3>2 DEF IsDirectory, IsPartial
    <3>5. IsPartial(logs, Logs, SUBSET Lines) /\ DOMAIN logs = DOMAIN tmp[h].logs
      BY <3>2, <3>4, ExceptType DEF IsDirectory
    <3>6. /\ DOMAIN tmp' = DOMAIN tmp
          /\ tmp'[h] = [logs |-> logs, tars |-> tmp[h].tars]
          /\ \A m \in DOMAIN tmp \ {h} : tmp'[m] = tmp[m]
      BY <3>2, <3>3, LogsChange
    <3>7. IsDirectory(tmp'[h]) /\ DOMAIN tmp'[h].logs = DOMAIN tmp[h].logs
      BY <3>2, <3>5, <3>6 DEF IsDirectory
    <3>8. PlacesType'
      BY <1>1, <1>2, <1>3, <2>1, <2>2, <3>6, <3>7 DEF PlacesType
    <3>9. HandlesHold'
      BY <1>1, <2>1, <3>6, <3>7 DEF HandlesHold
    <3> QED
      BY <1>1, <2>1, <3>8, <3>9 DEF TypeInv
  <2> QED
    BY <2>3, <2>4
<1> QED
  BY <1>4, <1>5

LEMMA ReopenTypes ==
  ASSUME TypeInv, Reopen
  PROVE  TypeInv'
<1>1. PlacesType /\ run \in RunType
  BY DEF TypeInv
<1>2. IsPartial(log', Logs, SUBSET Lines)
  BY <1>1 DEF Reopen, PlacesType, IsPartial
<1>3. PlacesType'
  BY <1>1, <1>2 DEF Reopen, PlacesType
<1>4. InLog \notin Minutes
  BY UsbAssumption DEF Minutes, InLog
<1>5. HandlesHold'
  BY <1>4 DEF Reopen, HandlesHold
<1> QED
  BY <1>1, <1>3, <1>5 DEF Reopen, TypeInv

LEMMA TickTypes ==
  ASSUME TypeInv, Tick
  PROVE  TypeInv'
<1>1. minute' \in Minutes
  BY UsbAssumption DEF Tick, TypeInv, PlacesType, Minutes
<1> QED
  BY <1>1 DEF Tick, places, TypeInv, PlacesType, HandlesHold

LEMMA StepTypes ==
  ASSUME TypeInv, Begun, [Next]_vars
  PROVE  TypeInv'
<1>1. ASSUME NEW r \in Runs, Step(r) PROVE TypeInv'
  <2>1. ASSUME NEW status \in -2 .. 4, Refuse(r, status) PROVE TypeInv'
    BY <2>1, RefuseTypes
  <2>2. Unusable(r) \/ NoMountPoint(r) \/ NoLogDirectory(r) \/ NoMacAddress(r) \/ NoTemporaryDirectory(r)
          => TypeInv'
    BY <2>1 DEF Unusable, NoMountPoint, NoLogDirectory, NoMacAddress, NoTemporaryDirectory
  <2> QED
    BY <1>1, <2>2, BeginTypes, MoveTypes, ReloadTypes, BeginArchiveTypes, FinishArchiveTypes,
       OpenCopyTypes, WriteCopyTypes, CleanupTypes DEF Step
<1>2. UNCHANGED vars => TypeInv'
  BY DEF vars, places, TypeInv, PlacesType, HandlesHold
<1> QED
  BY <1>1, <1>2, KillTypes, WriteTypes, ReopenTypes, TickTypes DEF Next

-----------------------------------------------------------------------------
(* What is carried.                                                        *)

\* What a step of an invocation does to its own record, and to no other.
LEMMA OthersWait ==
  ASSUME TypeInv, NEW q \in Runs, Step(q) \/ Kill(q)
  PROVE  \A r \in Runs \ {q} : run'[r] = run[r]
<1> USE DEF RunType
<1>1. run \in RunType
  BY DEF TypeInv
<1>2. ASSUME NEW status, Refuse(q, status) PROVE \A r \in Runs \ {q} : run'[r] = run[r]
  BY <1>1, <1>2 DEF Refuse, Return
<1>3. ASSUME NEW l \in Logs, MoveFile(q, l) PROVE \A r \in Runs \ {q} : run'[r] = run[r]
  BY <1>1, <1>3 DEF MoveFile
<1>4. Begin(q) => \A r \in Runs \ {q} : run'[r] = run[r]
  BY <1>1 DEF Begin
<1>5. Reload(q) \/ BeginArchive(q) => \A r \in Runs \ {q} : run'[r] = run[r]
  BY <1>1 DEF Reload, GoTo, BeginArchive, Abort
<1>6. FinishArchive(q) => \A r \in Runs \ {q} : run'[r] = run[r]
  BY <1>1 DEF FinishArchive, Abort
<1>7. OpenCopy(q) \/ WriteCopy(q) => \A r \in Runs \ {q} : run'[r] = run[r]
  BY <1>1 DEF OpenCopy, WriteCopy, Abort, GoTo
<1>8. Cleanup(q) \/ Kill(q) => \A r \in Runs \ {q} : run'[r] = run[r]
  BY <1>1 DEF Cleanup, Kill, End
<1> QED
  BY <1>2, <1>3, <1>4, <1>5, <1>6, <1>7, <1>8
  DEF Step, Unusable, NoMountPoint, NoLogDirectory, NoMacAddress, NoTemporaryDirectory

\* How the record of an invocation goes on.
Goes(r, from, to) ==
  /\ run[r].pc \in from /\ run'[r].pc \in to /\ run'[r].dir = run[r].dir
  /\ run'[r].moved = run[r].moved

LEMMA HowRefuse ==
  ASSUME TypeInv, NEW r \in Runs, NEW status, Refuse(r, status)
  PROVE  Goes(r, {"start"}, {"over"}) /\ run'[r].status = status
  BY DEF TypeInv, RunType, Invocation, Refuse, Return, At, Goes

LEMMA HowAbort ==
  ASSUME TypeInv, NEW r \in Runs, NEW status, Abort(r, status)
  PROVE  /\ run'[r].pc = "cleanup" /\ run'[r].status = status /\ run'[r].dir = run[r].dir
         /\ run'[r].moved = run[r].moved
  BY DEF TypeInv, RunType, Invocation, Abort

LEMMA HowEnd ==
  ASSUME TypeInv, NEW r \in Runs, NEW pc, End(r, pc)
  PROVE  /\ run'[r].pc = pc /\ run'[r].status = run[r].status /\ run'[r].dir = run[r].dir
         /\ run'[r].moved = run[r].moved /\ run'[r].short = run[r].short
<1> DEFINE x == run[r]
<1>1. run' = [run EXCEPT ![r] = [x EXCEPT !.pc = pc, !.name = NoMinute, !.todo = {},
                                          !.noted = {}, !.tar = Partly]]
  BY DEF End
<1>2. x \in Invocation /\ run'[r] = [x EXCEPT !.pc = pc, !.name = NoMinute, !.todo = {},
                                              !.noted = {}, !.tar = Partly]
  BY <1>1, RunMember DEF TypeInv, RunType
<1> HIDE DEF x
<1>3. /\ run'[r].pc = pc /\ run'[r].status = x.status /\ run'[r].dir = x.dir
      /\ run'[r].moved = x.moved /\ run'[r].short = x.short
  BY <1>2 DEF Invocation
<1> QED
  BY <1>3 DEF x

LEMMA HowBegin ==
  ASSUME TypeInv, NEW r \in Runs, Begin(r)
  PROVE  /\ run[r].pc = "start" /\ run'[r].dir = minute /\ run'[r].moved = run[r].moved
         /\ \/ run'[r].pc = "move" /\ run'[r].status = run[r].status
            \/ run'[r].pc = "cleanup" /\ run'[r].status = -2
<1>1. run[r] \in Invocation /\ run \in [Runs -> Invocation]
  BY RunMember DEF TypeInv, RunType
<1>2. \/ run'[r] = [run[r] EXCEPT !.pc = "move", !.dir = minute, !.todo = DOMAIN log]
      \/ run'[r] = [run[r] EXCEPT !.pc = "cleanup", !.dir = minute, !.status = -2]
  BY <1>1 DEF Begin, ArchiveName
<1> QED
  BY <1>1, <1>2 DEF Begin, At, Invocation

LEMMA HowMove ==
  ASSUME TypeInv, NEW r \in Runs, NEW l \in Logs, MoveFile(r, l)
  PROVE  /\ run[r].pc = "move" /\ run'[r].pc = "move" /\ run'[r].dir = run[r].dir
         /\ run'[r].status = run[r].status /\ run'[r].todo = run[r].todo \ {l}
         /\ \/ run'[r].moved = run[r].moved /\ UNCHANGED <<log, tmp>>
            \/ run'[r].moved = run[r].moved \cup log[l]
<1>1. run[r] \in Invocation /\ run \in [Runs -> Invocation]
  BY RunMember DEF TypeInv, RunType
<1>2. \/ run'[r] = [run[r] EXCEPT !.todo = @ \ {l}] /\ UNCHANGED <<log, tmp>>
      \/ run'[r] = [run[r] EXCEPT !.todo = @ \ {l}, !.moved = @ \cup log[l]]
  BY <1>1 DEF MoveFile
<1> QED
  BY <1>1, <1>2 DEF MoveFile, At, Invocation

LEMMA HowArchive ==
  ASSUME TypeInv, NEW r \in Runs
  PROVE  /\ Reload(r) => Goes(r, {"move"}, {"begin"}) /\ run'[r].status = run[r].status
         /\ BeginArchive(r) => /\ Goes(r, {"begin"}, {"pack", "cleanup"})
                               /\ run'[r].pc = "pack" => run'[r].status = run[r].status
         /\ OpenCopy(r) => /\ Goes(r, {"open"}, {"write", "cleanup"})
                           /\ run'[r].pc = "write" => run'[r].status = run[r].status
         /\ WriteCopy(r) => Goes(r, {"write"}, {"cleanup"})
<1>1. run[r] \in Invocation /\ run \in [Runs -> Invocation]
  BY RunMember DEF TypeInv, RunType
<1>2. ASSUME Reload(r) PROVE Goes(r, {"move"}, {"begin"}) /\ run'[r].status = run[r].status
  BY <1>1, <1>2 DEF Reload, GoTo, At, Goes, Invocation
<1>3. ASSUME BeginArchive(r)
      PROVE  /\ Goes(r, {"begin"}, {"pack", "cleanup"})
             /\ run'[r].pc = "pack" => run'[r].status = run[r].status
  <2>1. CASE \E status \in {-2, 3} : Abort(r, status)
    BY <1>3, <2>1, HowAbort DEF BeginArchive, At, Goes
  <2>2. CASE run' = [run EXCEPT ![r].pc = "pack", ![r].name = ArchiveName,
                                ![r].noted = Content(tmp[run[r].dir].logs)]
    <3>1. run'[r] = [run[r] EXCEPT !.pc = "pack", !.name = ArchiveName,
                                   !.noted = Content(tmp[run[r].dir].logs)]
      BY <1>1, <2>2
    <3> QED
      BY <1>1, <1>3, <3>1 DEF BeginArchive, At, Goes, Invocation
  <2> QED
    BY <1>3, <2>1, <2>2 DEF BeginArchive
<1>4. ASSUME OpenCopy(r)
      PROVE  /\ Goes(r, {"open"}, {"write", "cleanup"})
             /\ run'[r].pc = "write" => run'[r].status = run[r].status
  <2>1. CASE Abort(r, 3)
    BY <1>4, <2>1, HowAbort DEF OpenCopy, At, Goes
  <2>2. CASE run' = [run EXCEPT ![r].pc = "write", ![r].tar = tmp[run[r].dir].tars[run[r].name]]
    BY <1>1, <1>4, <2>2 DEF OpenCopy, At, Goes, Invocation
  <2> QED
    BY <1>4, <2>1, <2>2 DEF OpenCopy
<1>5. ASSUME WriteCopy(r) PROVE Goes(r, {"write"}, {"cleanup"})
  <2>1. CASE Abort(r, 3)
    BY <1>5, <2>1, HowAbort DEF WriteCopy, At, Goes
  <2>2. CASE GoTo(r, "cleanup")
    BY <1>1, <1>5, <2>2 DEF WriteCopy, GoTo, At, Goes, Invocation
  <2>3. CASE run' = [run EXCEPT ![r].pc = "cleanup", ![r].short = TRUE]
    BY <1>1, <1>5, <2>3 DEF WriteCopy, At, Goes, Invocation
  <2> QED
    BY <1>5, <2>1, <2>2, <2>3 DEF WriteCopy
<1> QED
  BY <1>2, <1>3, <1>4, <1>5

LEMMA HowFinish ==
  ASSUME TypeInv, NEW r \in Runs, FinishArchive(r)
  PROVE  /\ Goes(r, {"pack"}, {"open", "cleanup"})
         /\ run'[r].pc = "open" => run'[r].status = run[r].status /\ run'[r].name = run[r].name
<1>1. run[r] \in Invocation /\ run \in [Runs -> Invocation]
  BY RunMember DEF TypeInv, RunType
<1>2. CASE Abort(r, 3)
  BY <1>2, HowAbort DEF FinishArchive, At, Goes
<1>3. ASSUME NEW short, run' = [run EXCEPT ![r].pc = "open", ![r].short = short, ![r].noted = {}]
      PROVE  /\ Goes(r, {"pack"}, {"open", "cleanup"})
             /\ run'[r].status = run[r].status /\ run'[r].name = run[r].name
  <2>1. run'[r] = [run[r] EXCEPT !.pc = "open", !.short = short, !.noted = {}]
    BY <1>1, <1>3
  <2> QED
    BY <1>1, <2>1 DEF FinishArchive, At, Goes, Invocation
<1> QED
  BY <1>2, <1>3 DEF FinishArchive

LEMMA StepBegunBy ==
  ASSUME TypeInv, NEW r \in Runs, BegunBy(r), Step(r) \/ Kill(r)
  PROVE  BegunBy(r)'
<1> USE DEF BegunBy, At, Busy, Goes
<1>1. ASSUME NEW status \in {4, 2, -2, 1, 3}, Refuse(r, status) PROVE BegunBy(r)'
  BY <1>1, HowRefuse
<1>2. Unusable(r) \/ NoMountPoint(r) \/ NoLogDirectory(r) \/ NoMacAddress(r) \/ NoTemporaryDirectory(r)
        => BegunBy(r)'
  BY <1>1 DEF Unusable, NoMountPoint, NoLogDirectory, NoMacAddress, NoTemporaryDirectory
<1>3. ASSUME Begin(r) PROVE BegunBy(r)'
  <2>1. minute # NoMinute
    BY UsbAssumption DEF TypeInv, PlacesType, Minutes, NoMinute
  <2> QED
    BY <1>3, <2>1, HowBegin
<1>4. ASSUME NEW l \in Logs, MoveFile(r, l) PROVE BegunBy(r)'
  BY <1>4, HowMove
<1>5. Reload(r) \/ BeginArchive(r) \/ OpenCopy(r) \/ WriteCopy(r) => BegunBy(r)'
  BY HowArchive
<1>6. FinishArchive(r) => BegunBy(r)'
  BY HowFinish
<1>7. ASSUME Cleanup(r) PROVE BegunBy(r)'
  BY <1>7, HowEnd DEF Cleanup
<1>8. ASSUME Kill(r) PROVE BegunBy(r)'
  BY <1>8, HowEnd DEF Kill
<1> QED
  BY <1>2, <1>3, <1>4, <1>5, <1>6, <1>7, <1>8 DEF Step

LEMMA InitBegun == Init => Begun
  BY DEF Init, Begun, BegunBy, At, Busy

\* No step but the first names the directory of an invocation.
LEMMA DirsStay ==
  ASSUME TypeInv, NEW q \in Runs, Step(q) \/ Kill(q), ~Begin(q)
  PROVE  \A r \in Runs : run'[r].dir = run[r].dir
<1> USE DEF Goes
<1>1. ASSUME NEW status, Refuse(q, status) PROVE run'[q].dir = run[q].dir
  BY <1>1, HowRefuse
<1>2. Cleanup(q) \/ Kill(q) => run'[q].dir = run[q].dir
  BY HowEnd DEF Cleanup, Kill
<1>3. Reload(q) \/ BeginArchive(q) \/ OpenCopy(q) \/ WriteCopy(q) => run'[q].dir = run[q].dir
  BY HowArchive
<1>4. FinishArchive(q) => run'[q].dir = run[q].dir
  BY HowFinish
<1>5. ASSUME NEW l \in Logs, MoveFile(q, l) PROVE run'[q].dir = run[q].dir
  BY <1>5, HowMove
<1>6. run'[q].dir = run[q].dir
  BY <1>1, <1>2, <1>3, <1>4, <1>5
  DEF Step, Unusable, NoMountPoint, NoLogDirectory, NoMacAddress, NoTemporaryDirectory
<1> QED
  BY <1>6, OthersWait

LEMMA StepBegun ==
  ASSUME TypeInv, Begun, [Next]_vars
  PROVE  Begun'
<1>1. ASSUME NEW q \in Runs, Step(q) \/ Kill(q) PROVE Begun'
  <2>1. BegunBy(q)'
    BY <1>1, StepBegunBy DEF Begun
  <2>2. ASSUME NEW r \in Runs \ {q} PROVE BegunBy(r)'
    BY <1>1, <2>2, OthersWait DEF Begun, BegunBy, At
  <2> QED
    BY <2>1, <2>2 DEF Begun
<1>2. CASE UNCHANGED run
  BY <1>2 DEF Begun, BegunBy, At
<1> QED
  BY <1>1, <1>2 DEF Next, Write, Reopen, Tick, vars

\* A step of an invocation is about its own directory and its own archive on the drive.
Elsewhere(d) ==
  \A m \in Minutes \ {d} :
    /\ m \in DOMAIN tmp <=> m \in DOMAIN tmp'
    /\ m \in DOMAIN tmp => tmp'[m] = tmp[m]
    /\ m \in DOMAIN drive <=> m \in DOMAIN drive'
    /\ m \in DOMAIN drive => drive'[m] = drive[m]

LEMMA StepElsewhere ==
  ASSUME TypeInv, NEW q \in Runs, Step(q) \/ Kill(q)
  PROVE  Elsewhere(run'[q].dir) /\ late' = late
<1> DEFINE d == run[q].dir
<1>0. \A m \in DOMAIN tmp : IsDirectory(tmp[m])
  BY Known
<1>1. ASSUME NEW status, Refuse(q, status) PROVE Elsewhere(run'[q].dir) /\ late' = late
  BY <1>1 DEF Refuse, places, Elsewhere
<1>2. ASSUME Begin(q) PROVE Elsewhere(run'[q].dir) /\ late' = late
  BY <1>2, HowBegin DEF Begin, CreateDirectory, ArchiveName, Put, Elsewhere
<1>3. ASSUME ~Begin(q), Elsewhere(d) PROVE Elsewhere(run'[q].dir)
  BY <1>3, DirsStay
<1>4. ASSUME NEW l \in Logs, MoveFile(q, l) PROVE Elsewhere(d) /\ late' = late
  <2>1. CASE UNCHANGED tmp
    BY <1>4, <2>1 DEF MoveFile, Elsewhere
  <2>2. CASE d \in DOMAIN tmp /\ tmp' = [tmp EXCEPT ![d].logs = Put(tmp[d].logs, l, log[l])]
    BY <1>0, <1>4, <2>2, LogsChange DEF MoveFile, Elsewhere
  <2> QED
    BY <1>4, <2>1, <2>2 DEF MoveFile
<1>5. ASSUME Reload(q) \/ Kill(q) PROVE Elsewhere(d) /\ late' = late
  BY <1>5 DEF Reload, Kill, places, Elsewhere
<1>6. ASSUME NEW tars, d \in DOMAIN tmp, tmp' = [tmp EXCEPT ![d].tars = tars]
      PROVE  \A m \in Minutes \ {d} : /\ m \in DOMAIN tmp <=> m \in DOMAIN tmp'
                                      /\ m \in DOMAIN tmp => tmp'[m] = tmp[m]
  BY <1>0, <1>6, TarsChange
<1>7. ASSUME BeginArchive(q) PROVE Elsewhere(d) /\ late' = late
  <2>1. CASE UNCHANGED tmp
    BY <1>7, <2>1 DEF BeginArchive, Elsewhere
  <2>2. CASE d \in DOMAIN tmp /\ tmp' = [tmp EXCEPT ![d].tars = Put(tmp[d].tars, ArchiveName, Partly)]
    BY <1>6, <1>7, <2>2 DEF BeginArchive, Elsewhere
  <2> QED
    BY <1>7, <2>1, <2>2 DEF BeginArchive
<1>8. ASSUME FinishArchive(q) PROVE Elsewhere(d) /\ late' = late
  <2>1. CASE UNCHANGED tmp
    BY <1>8, <2>1 DEF FinishArchive, Elsewhere
  <2>2. CASE d \in DOMAIN tmp /\ \E tars : tmp' = [tmp EXCEPT ![d].tars = tars]
    BY <1>6, <1>8, <2>2 DEF FinishArchive, Elsewhere
  <2>3. ASSUME NEW unread, HasTar(q),
               tmp' = [tmp EXCEPT ![d].tars[run[q].name] = AddDirectoryToTar(q, unread)]
        PROVE  d \in DOMAIN tmp /\ \E tars : tmp' = [tmp EXCEPT ![d].tars = tars]
    <3>1. tmp' = [tmp EXCEPT ![d].tars = [tmp[d].tars EXCEPT ![run[q].name] = AddDirectoryToTar(q, unread)]]
      BY <2>3
    <3> QED
      BY <2>3, <3>1 DEF HasTar
  <2>4. ASSUME HasTar(q), tmp' = [tmp EXCEPT ![d].tars = Without(tmp[d].tars, run[q].name)]
        PROVE  d \in DOMAIN tmp /\ \E tars : tmp' = [tmp EXCEPT ![d].tars = tars]
    BY <2>4 DEF HasTar
  <2> QED
    BY <1>8, <2>1, <2>2, <2>3, <2>4 DEF FinishArchive
<1>9. ASSUME NEW archive, Deliver(q, archive)
      PROVE  \A m \in Minutes \ {d} : /\ m \in DOMAIN drive <=> m \in DOMAIN drive'
                                      /\ m \in DOMAIN drive => drive'[m] = drive[m]
  BY <1>9 DEF Deliver, Put
<1>10. ASSUME OpenCopy(q) PROVE Elsewhere(d) /\ late' = late
  BY <1>9, <1>10 DEF OpenCopy, Elsewhere
<1>11. ASSUME RemoveTar(q)
       PROVE  \A m \in Minutes \ {d} : /\ m \in DOMAIN tmp <=> m \in DOMAIN tmp'
                                       /\ m \in DOMAIN tmp => tmp'[m] = tmp[m]
  BY <1>6, <1>11 DEF RemoveTar, HasTar
<1>12. ASSUME WriteCopy(q) PROVE Elsewhere(d) /\ late' = late
  <2>1. CASE UNCHANGED tmp /\ drive' = Without(drive, d)
    BY <1>12, <2>1 DEF WriteCopy, Without, Elsewhere
  <2>2. CASE RemoveTar(q) /\ (Deliver(q, run[q].tar) \/ UNCHANGED drive)
    BY <1>9, <1>11, <1>12, <2>2 DEF WriteCopy, Elsewhere
  <2> QED
    BY <1>12, <2>1, <2>2 DEF WriteCopy
<1>13. ASSUME Cleanup(q) PROVE Elsewhere(d) /\ late' = late
  BY <1>13 DEF Cleanup, RemoveDirectory, Without, Elsewhere
<1>14. Begin(q) \/ (\E status : Refuse(q, status)) => Elsewhere(run'[q].dir) /\ late' = late
  BY <1>1, <1>2
<1>15. ASSUME ~Begin(q), ~\E status : Refuse(q, status) PROVE Elsewhere(d) /\ late' = late
  BY <1>4, <1>5, <1>7, <1>8, <1>10, <1>12, <1>13, <1>15
  DEF Step, Unusable, NoMountPoint, NoLogDirectory, NoMacAddress, NoTemporaryDirectory
<1> QED
  BY <1>3, <1>14, <1>15

\* What is in the directory and on the drive of an invocation stays there.
LEMMA CarriedStays ==
  ASSUME NEW r \in Runs, Carried(r), run'[r] = run[r], late \subseteq late',
         run[r].dir \in DOMAIN tmp <=> run[r].dir \in DOMAIN tmp',
         run[r].dir \in DOMAIN tmp => tmp'[run[r].dir] = tmp[run[r].dir],
         run[r].dir \in DOMAIN drive <=> run[r].dir \in DOMAIN drive',
         run[r].dir \in DOMAIN drive => drive'[run[r].dir] = drive[run[r].dir]
  PROVE  Carried(r)'
<1>1. InDirectory(r) => InDirectory(r)'
  BY DEF InDirectory
<1>2. OnDrive(r) => OnDrive(r)'
  BY DEF OnDrive, Has
<1>3. HasTar(r)' = HasTar(r)
  BY DEF HasTar
<1>4. (run[r].pc \in Busy => InDirectory(r)) => (run[r].pc \in Busy => run[r].dir \in DOMAIN tmp)
  BY DEF InDirectory
<1>5. (run[r].pc \in Busy => InDirectory(r))'
  BY <1>1 DEF Carried
<1>6. (At(r, "move") => run[r].todo \cap DOMAIN tmp[run[r].dir].logs = {})'
  BY <1>4 DEF Carried, At, Busy
<1>7. (At(r, "pack") => run[r].noted = Content(tmp[run[r].dir].logs) \/ late # {})'
  BY <1>4 DEF Carried, At, Busy
<1>8. ((At(r, "open") /\ HasTar(r) /\ ~run[r].short) => Has(r, tmp[run[r].dir].tars[run[r].name]))'
  BY <1>3, <1>4 DEF Carried, At, Busy, Has
<1>9. ((At(r, "write") /\ ~run[r].short) => Has(r, run[r].tar))'
  BY DEF Carried, At, Has
<1>10. ((run[r].pc \in {"cleanup", "over"} /\ run[r].status = 0 /\ ~run[r].short) => OnDrive(r))'
  BY <1>2 DEF Carried
<1>11. ((run[r].pc \in {"cleanup", "over"} /\ run[r].status \notin {0, 3}) => run[r].moved = {})'
  BY DEF Carried
<1>12. ((At(r, "killed") /\ run[r].status # 3 /\ ~run[r].short) =>
          run[r].moved = {} \/ OnDrive(r) \/ InDirectory(r))'
  BY <1>1, <1>2 DEF Carried, At
<1> QED
  BY <1>5, <1>6, <1>7, <1>8, <1>9, <1>10, <1>11, <1>12 DEF Carried

\* An invocation that has no directory yet, or was refused, has moved nothing.
LEMMA OthersCarried ==
  ASSUME TypeInv, Begun, \A r \in Runs : Alone(r) => Carried(r),
         NEW q \in Runs, Step(q) \/ Kill(q), NEW r \in Runs \ {q}, Alone(r)'
  PROVE  Carried(r)'
<1>1. run'[r] = run[r] /\ run'[r].dir # run'[q].dir
  BY OthersWait DEF Alone
<1>2. CASE run[r].dir = NoMinute
  <2>1. run[r].pc \notin Busy /\ ~At(r, "killed") /\ run[r].moved = {}
    BY <1>2 DEF Begun, BegunBy, At, Busy
  <2>2. ~(run[r].pc \in {"cleanup", "over"} /\ run[r].status = 0)
    BY <1>2 DEF Begun, BegunBy, At
  <2> QED
    BY <1>1, <2>1, <2>2 DEF Carried, At, Busy
<1>3. CASE run[r].dir \in Minutes
  <2>1. Alone(r)
    <3>1. CASE Begin(q)
      <4>1. run[q].dir = NoMinute
        BY <3>1 DEF Begin, Begun, BegunBy
      <4>2. NoMinute \notin Minutes
        BY UsbAssumption DEF Minutes, NoMinute
      <4> QED
        BY <1>1, <1>3, <4>1, <4>2, OthersWait DEF Alone
    <3>2. CASE ~Begin(q)
      BY <3>2, DirsStay DEF Alone
    <3> QED
      BY <3>1, <3>2
  <2>2. Elsewhere(run'[q].dir) /\ late' = late
    BY StepElsewhere
  <2>3. /\ run[r].dir \in DOMAIN tmp <=> run[r].dir \in DOMAIN tmp'
        /\ run[r].dir \in DOMAIN tmp => tmp'[run[r].dir] = tmp[run[r].dir]
        /\ run[r].dir \in DOMAIN drive <=> run[r].dir \in DOMAIN drive'
        /\ run[r].dir \in DOMAIN drive => drive'[run[r].dir] = drive[run[r].dir]
    BY <1>1, <1>3, <2>2 DEF Elsewhere
  <2> QED
    BY <1>1, <2>1, <2>2, <2>3, CarriedStays
<1> QED
  BY <1>2, <1>3, Known

\* A directory belongs to the invocations that were named after its minute.
LEMMA StepNamed ==
  ASSUME TypeInv, Begun, Named, [Next]_vars
  PROVE  Named'
<1>0. \A m \in DOMAIN tmp : m \in Minutes
  BY Known
<1>1. ASSUME NEW q \in Runs, Step(q) \/ Kill(q) PROVE Named'
  <2>1. \A m \in DOMAIN tmp' : m \in DOMAIN tmp \/ m = run'[q].dir
    <3>1. DOMAIN tmp' \subseteq Minutes
      BY <1>1, StepTypes DEF Next, TypeInv, PlacesType
    <3> QED
      BY <1>1, <3>1, StepElsewhere DEF Elsewhere
  <2>2. CASE ~Begin(q)
    BY <1>1, <2>1, <2>2, DirsStay DEF Named
  <2>3. CASE Begin(q)
    <3>1. run[q].dir = NoMinute /\ NoMinute \notin Minutes
      BY UsbAssumption, <2>3 DEF Begin, Begun, BegunBy, Minutes, NoMinute
    <3>2. ASSUME NEW m \in DOMAIN tmp PROVE \E r \in Runs : run'[r].dir = m
      BY <1>0, <1>1, <3>1, OthersWait DEF Named
    <3> QED
      BY <2>1, <3>2 DEF Named
  <2> QED
    BY <2>2, <2>3
<1>2. ASSUME NEW l \in Logs, Write(l) PROVE Named'
  <2>1. DOMAIN tmp' = DOMAIN tmp /\ run' = run
    BY <1>2 DEF Write
  <2> QED
    BY <2>1 DEF Named
<1>3. CASE Reopen \/ Tick \/ UNCHANGED vars
  BY <1>3 DEF Reopen, Tick, vars, places, Named
<1> QED
  BY <1>1, <1>2, <1>3 DEF Next

\* An invocation that fails with 3, or before it moved anything, promises nothing.
LEMMA AbortCarried ==
  ASSUME TypeInv, NEW r \in Runs, NEW status, Abort(r, status),
         status = 3 \/ (status # 0 /\ run[r].moved = {})
  PROVE  Carried(r)'
<1>1. run'[r].pc = "cleanup" /\ run'[r].status = status /\ run'[r].moved = run[r].moved
  BY HowAbort
<1> QED
  BY <1>1 DEF Carried, At, Busy

LEMMA RefuseCarried ==
  ASSUME TypeInv, Begun, NEW r \in Runs, NEW status, Refuse(r, status), status # 0
  PROVE  Carried(r)'
<1>1. run'[r].pc = "over" /\ run'[r].status = status /\ run'[r].moved = run[r].moved
  BY HowRefuse DEF Goes
<1>2. run[r].moved = {}
  BY DEF Begun, BegunBy, Refuse
<1> QED
  BY <1>1, <1>2 DEF Carried, At, Busy

\* A directory that nobody else is named after is a new one.
LEMMA BeginCarried ==
  ASSUME TypeInv, Begun, Named, NEW r \in Runs, Begin(r), Alone(r)'
  PROVE  Carried(r)'
<1>1. /\ run[r].pc = "start" /\ run'[r].dir = minute /\ run'[r].moved = run[r].moved
      /\ \/ run'[r].pc = "move"
         \/ run'[r].pc = "cleanup" /\ run'[r].status = -2
  BY HowBegin
<1>2. run[r].moved = {} /\ run[r].dir = NoMinute
  BY <1>1 DEF Begun, BegunBy, At
<1>3. minute \notin DOMAIN tmp
  <2>1. \A q \in Runs \ {r} : run[q].dir # minute
    BY <1>1, OthersWait DEF Alone, Step
  <2>2. run[r].dir # minute
    BY UsbAssumption, <1>2 DEF TypeInv, PlacesType, Minutes, NoMinute
  <2> QED
    BY <2>1, <2>2 DEF Named
<1>4. minute \in DOMAIN tmp' /\ tmp'[minute] = [logs |-> Empty, tars |-> Empty]
  BY <1>3 DEF Begin, CreateDirectory, ArchiveName, Put
<1>5. DOMAIN tmp'[minute].logs = {}
  BY <1>4 DEF Empty
<1>6. InDirectory(r)'
  BY <1>1, <1>2, <1>4 DEF InDirectory
<1>7. CASE run'[r].pc = "move"
  BY <1>1, <1>5, <1>6, <1>7 DEF Carried, At, Busy
<1>8. CASE run'[r].pc = "cleanup" /\ run'[r].status = -2
  BY <1>1, <1>2, <1>8 DEF Carried, At, Busy
<1> QED
  BY <1>1, <1>7, <1>8

\* No file of the name is in the directory, so that what moves there adds to it.
LEMMA MoveCarried ==
  ASSUME TypeInv, NEW r \in Runs, Carried(r), NEW l \in Logs, MoveFile(r, l)
  PROVE  Carried(r)'
<1> DEFINE d == run[r].dir
<1>1. /\ run[r].pc = "move" /\ run'[r].pc = "move" /\ run'[r].dir = d
      /\ run'[r].todo = run[r].todo \ {l}
  BY HowMove
<1>2. InDirectory(r) /\ run[r].todo \cap DOMAIN tmp[d].logs = {}
  BY <1>1 DEF Carried, At, Busy
<1>3. CASE run'[r].moved = run[r].moved /\ UNCHANGED tmp
  <2>1. InDirectory(r)'
    BY <1>1, <1>2, <1>3 DEF InDirectory
  <2> QED
    BY <1>1, <1>2, <1>3, <2>1 DEF Carried, At, Busy
<1>4. CASE d \in DOMAIN tmp /\ run'[r].moved = run[r].moved \cup log[l]
           /\ tmp' = [tmp EXCEPT ![d].logs = Put(tmp[d].logs, l, log[l])]
  <2>1. IsDirectory(tmp[d])
    BY <1>4, Known
  <2>2. d \in DOMAIN tmp' /\ tmp'[d].logs = Put(tmp[d].logs, l, log[l])
    <3> HIDE DEF d
    <3>1. \A logs : tmp' = [tmp EXCEPT ![d].logs = logs] =>
             /\ DOMAIN tmp' = DOMAIN tmp
             /\ tmp'[d] = [logs |-> logs, tars |-> tmp[d].tars]
      BY <1>4, <2>1, LogsChange
    <3> QED
      BY <1>4, <3>1
  <2>3. l \in run[r].todo /\ l \notin DOMAIN tmp[d].logs
    BY <1>2 DEF MoveFile
  <2>4. DOMAIN tmp'[d].logs = DOMAIN tmp[d].logs \cup {l}
    BY <2>2 DEF Put
  <2>5. Content(tmp[d].logs) \cup log[l] \subseteq Content(tmp'[d].logs)
    BY <2>2, <2>3 DEF Put, Content
  <2>6. InDirectory(r)'
    BY <1>1, <1>2, <1>4, <2>2, <2>5 DEF InDirectory
  <2>7. (run[r].todo \cap DOMAIN tmp[run[r].dir].logs = {})'
    BY <1>1, <1>2, <2>4
  <2> QED
    BY <1>1, <2>6, <2>7 DEF Carried, At, Busy
<1>5. MoveFile(r, l) =>
        \/ run' = [run EXCEPT ![r].todo = @ \ {l}] /\ UNCHANGED tmp
        \/ /\ d \in DOMAIN tmp /\ tmp' = [tmp EXCEPT ![d].logs = Put(tmp[d].logs, l, log[l])]
           /\ run' = [run EXCEPT ![r].todo = @ \ {l}, ![r].moved = @ \cup log[l]]
  BY DEF MoveFile
<1>6. /\ run' = [run EXCEPT ![r].todo = @ \ {l}] => run'[r].moved = run[r].moved
      /\ run' = [run EXCEPT ![r].todo = @ \ {l}, ![r].moved = @ \cup log[l]]
           => run'[r].moved = run[r].moved \cup log[l]
  <2>1. run[r] \in Invocation /\ run \in [Runs -> Invocation]
    BY RunMember DEF TypeInv, RunType
  <2> QED
    BY <2>1 DEF Invocation
<1> QED
  BY <1>3, <1>4, <1>5, <1>6

LEMMA ReloadCarried ==
  ASSUME TypeInv, NEW r \in Runs, Carried(r), Reload(r)
  PROVE  Carried(r)'
<1>1. /\ run[r].pc = "move" /\ run'[r].pc = "begin" /\ run'[r].dir = run[r].dir
      /\ run'[r].moved = run[r].moved
  BY HowArchive DEF Goes
<1>2. InDirectory(r)
  BY <1>1 DEF Carried, Busy
<1>3. InDirectory(r)'
  BY <1>1, <1>2 DEF InDirectory, Reload, places
<1> QED
  BY <1>1, <1>3 DEF Carried, At, Busy

LEMMA BeginArchiveCarried ==
  ASSUME TypeInv, NEW r \in Runs, Carried(r), BeginArchive(r)
  PROVE  Carried(r)'
<1> DEFINE d == run[r].dir
<1>1. run[r].pc = "begin" /\ run'[r].dir = d /\ run'[r].moved = run[r].moved
  BY HowArchive DEF Goes
<1>2. InDirectory(r)
  BY <1>1 DEF Carried, Busy
<1>3. CASE Abort(r, -2) /\ d \notin DOMAIN tmp
  BY <1>2, <1>3 DEF InDirectory
<1>4. CASE Abort(r, 3)
  BY <1>4, AbortCarried
<1>5. CASE /\ d \in DOMAIN tmp
           /\ tmp' = [tmp EXCEPT ![d].tars = Put(tmp[d].tars, ArchiveName, Partly)]
           /\ run' = [run EXCEPT ![r].pc = "pack", ![r].name = ArchiveName,
                                 ![r].noted = Content(tmp[d].logs)]
  <2>1. d \in DOMAIN tmp' /\ tmp'[d].logs = tmp[d].logs
    <3>1. IsDirectory(tmp[d])
      BY <1>5, Known
    <3> HIDE DEF d
    <3>2. \A tars : tmp' = [tmp EXCEPT ![d].tars = tars] =>
             DOMAIN tmp' = DOMAIN tmp /\ tmp'[d] = [logs |-> tmp[d].logs, tars |-> tars]
      BY <1>5, <3>1, TarsChange
    <3> QED
      BY <1>5, <3>2
  <2>2. run'[r].pc = "pack" /\ run'[r].noted = Content(tmp[d].logs)
    <3>1. run[r] \in Invocation /\ run \in [Runs -> Invocation]
      BY RunMember DEF TypeInv, RunType
    <3>2. run'[r] = [run[r] EXCEPT !.pc = "pack", !.name = ArchiveName,
                                   !.noted = Content(tmp[d].logs)]
      BY <1>5, <3>1
    <3> QED
      BY <3>1, <3>2 DEF Invocation
  <2>3. InDirectory(r)'
    BY <1>1, <1>2, <2>1 DEF InDirectory
  <2>4. (run[r].noted = Content(tmp[run[r].dir].logs))'
    BY <1>1, <2>1, <2>2
  <2> QED
    BY <2>2, <2>3, <2>4 DEF Carried, At, Busy
<1> QED
  BY <1>3, <1>4, <1>5 DEF BeginArchive

\* All that was moved is packed, and fits its headers if nobody writes late.
LEMMA FinishArchiveCarried ==
  ASSUME TypeInv, NEW r \in Runs, Carried(r), FinishArchive(r)
  PROVE  Carried(r)'
<1> DEFINE d == run[r].dir
           name == run[r].name
<1>1. run[r].pc = "pack" /\ run'[r].dir = d /\ run'[r].moved = run[r].moved /\ late' = late
  BY HowFinish DEF Goes, FinishArchive
<1>2. InDirectory(r) /\ (run[r].noted = Content(tmp[d].logs) \/ late # {})
  BY <1>1 DEF Carried, At, Busy
<1>3. CASE Abort(r, 3)
  BY <1>3, AbortCarried
<1>4. ASSUME HasTar(r), NEW unread \in SUBSET DOMAIN tmp[d].logs,
             tmp' = [tmp EXCEPT ![d].tars[name] = AddDirectoryToTar(r, unread)],
             run' = [run EXCEPT ![r].pc = "open", ![r].short = unread # {}, ![r].noted = {}]
      PROVE  Carried(r)'
  <2>1. d \in DOMAIN tmp /\ name \in DOMAIN tmp[d].tars /\ IsDirectory(tmp[d])
    BY <1>4, Known DEF HasTar
  <2>2. /\ d \in DOMAIN tmp' /\ tmp'[d].logs = tmp[d].logs
        /\ tmp'[d].tars = [tmp[d].tars EXCEPT ![name] = AddDirectoryToTar(r, unread)]
    <3>1. tmp' = [tmp EXCEPT ![d].tars = [tmp[d].tars EXCEPT ![name] = AddDirectoryToTar(r, unread)]]
      BY <1>4
    <3> DEFINE new == [tmp[d].tars EXCEPT ![name] = AddDirectoryToTar(r, unread)]
    <3> HIDE DEF new, d
    <3>2. DOMAIN tmp' = DOMAIN tmp /\ tmp'[d] = [logs |-> tmp[d].logs, tars |-> new]
      BY <2>1, <3>1, TarsChange DEF new
    <3> QED
      BY <2>1, <3>2 DEF new
  <2>3. tmp'[d].tars[name] = AddDirectoryToTar(r, unread)
    BY <2>1, <2>2
  <2>4. /\ run'[r].pc = "open" /\ run'[r].short = (unread # {}) /\ run'[r].name = name
    <3>1. run[r] \in Invocation /\ run \in [Runs -> Invocation]
      BY RunMember DEF TypeInv, RunType
    <3>2. run'[r] = [run[r] EXCEPT !.pc = "open", !.short = (unread # {}), !.noted = {}]
      BY <1>4, <3>1
    <3> QED
      BY <3>1, <3>2 DEF Invocation
  <2>5. InDirectory(r)'
    BY <1>1, <1>2, <2>2 DEF InDirectory
  <2>6. ASSUME unread = {} PROVE Has(r, AddDirectoryToTar(r, unread))
    <3>1. Content(tmp[d].logs) \subseteq AddDirectoryToTar(r, unread).lines
      BY <2>6 DEF AddDirectoryToTar, Content
    <3>2. AddDirectoryToTar(r, unread).whole = (Content(tmp[d].logs) = run[r].noted)
      BY DEF AddDirectoryToTar, FitsItsHeaders
    <3> QED
      BY <1>2, <3>1, <3>2 DEF Has, InDirectory
  <2>7. unread = {} => Has(r, tmp[run[r].dir].tars[run[r].name])'
    BY <1>1, <2>3, <2>4, <2>6 DEF Has
  <2> QED
    BY <2>4, <2>5, <2>7 DEF Carried, At, Busy
<1> QED
  BY <1>3, <1>4 DEF FinishArchive

LEMMA OpenCopyCarried ==
  ASSUME TypeInv, NEW r \in Runs, Carried(r), OpenCopy(r)
  PROVE  Carried(r)'
<1>1. run[r].pc = "open" /\ run'[r].dir = run[r].dir /\ run'[r].moved = run[r].moved
      /\ tmp' = tmp /\ late' = late
  BY HowArchive DEF Goes, OpenCopy
<1>2. CASE Abort(r, 3)
  BY <1>2, AbortCarried
<1>3. CASE HasTar(r) /\ run' = [run EXCEPT ![r].pc = "write", ![r].tar = tmp[run[r].dir].tars[run[r].name]]
  <2>1. run'[r].pc = "write" /\ run'[r].tar = tmp[run[r].dir].tars[run[r].name]
        /\ run'[r].short = run[r].short
    <3>1. run[r] \in Invocation /\ run \in [Runs -> Invocation]
      BY RunMember DEF TypeInv, RunType
    <3> QED
      BY <1>3, <3>1 DEF Invocation
  <2>2. InDirectory(r) /\ (~run[r].short => Has(r, tmp[run[r].dir].tars[run[r].name]))
    BY <1>1, <1>3 DEF Carried, At, Busy
  <2>3. InDirectory(r)' /\ (~run[r].short => Has(r, run[r].tar)')
    BY <1>1, <2>1, <2>2 DEF InDirectory, Has
  <2> QED
    BY <2>1, <2>3 DEF Carried, At, Busy
<1> QED
  BY <1>2, <1>3 DEF OpenCopy

\* The copy is the archive, unless the drive is full when it is closed.
LEMMA WriteCopyCarried ==
  ASSUME TypeInv, Begun, NEW r \in Runs, Carried(r), WriteCopy(r)
  PROVE  Carried(r)'
<1>0. run[r] \in Invocation /\ run \in [Runs -> Invocation]
  BY RunMember DEF TypeInv, RunType
<1>1. run[r].pc = "write" /\ run'[r].dir = run[r].dir /\ run'[r].moved = run[r].moved
      /\ late' = late /\ run[r].status = 0
  BY HowArchive DEF Goes, WriteCopy, Begun, BegunBy, Busy
<1>2. CASE Abort(r, 3)
  BY <1>2, AbortCarried
<1>3. CASE Deliver(r, run[r].tar) /\ GoTo(r, "cleanup")
  <2>1. run'[r].pc = "cleanup" /\ run'[r].status = 0 /\ run'[r].short = run[r].short
    BY <1>0, <1>1, <1>3 DEF GoTo, Invocation
  <2>2. run[r].dir \in DOMAIN drive' /\ drive'[run[r].dir] = run[r].tar
    BY <1>3 DEF Deliver, Put
  <2>3. ~run[r].short => Has(r, run[r].tar)
    BY <1>1 DEF Carried, At
  <2>4. ~run[r].short => OnDrive(r)'
    BY <1>1, <2>2, <2>3 DEF OnDrive, Has
  <2> QED
    BY <2>1, <2>4 DEF Carried, At, Busy
<1>4. CASE run' = [run EXCEPT ![r].pc = "cleanup", ![r].short = TRUE]
  <2>1. run'[r].pc = "cleanup" /\ run'[r].status = 0 /\ run'[r].short = TRUE
    BY <1>0, <1>1, <1>4 DEF Invocation
  <2> QED
    BY <2>1 DEF Carried, At, Busy
<1> QED
  BY <1>2, <1>3, <1>4 DEF WriteCopy

\* The end of an invocation, which removes what it moved, archived or not.
LEMMA CleanupCarried ==
  ASSUME TypeInv, NEW r \in Runs, Carried(r), Cleanup(r)
  PROVE  Carried(r)'
<1>1. run[r].pc = "cleanup" /\ drive' = drive /\ late' = late
  BY DEF Cleanup, At
<1>2. /\ run'[r].pc = "over" /\ run'[r].status = run[r].status /\ run'[r].dir = run[r].dir
      /\ run'[r].moved = run[r].moved /\ run'[r].short = run[r].short
  BY HowEnd DEF Cleanup
<1>3. OnDrive(r) => OnDrive(r)'
  BY <1>1, <1>2 DEF OnDrive, Has
<1>4. /\ (run[r].status = 0 /\ ~run[r].short) => OnDrive(r)
      /\ run[r].status \notin {0, 3} => run[r].moved = {}
  BY <1>1 DEF Carried
<1> QED
  BY <1>2, <1>3, <1>4 DEF Carried, At, Busy

LEMMA KillCarried ==
  ASSUME TypeInv, Begun, NEW r \in Runs, Carried(r), Kill(r)
  PROVE  Carried(r)'
<1>1. tmp' = tmp /\ drive' = drive /\ late' = late
  BY DEF Kill, places
<1>2. /\ run'[r].pc = "killed" /\ run'[r].status = run[r].status /\ run'[r].dir = run[r].dir
      /\ run'[r].moved = run[r].moved /\ run'[r].short = run[r].short
  BY HowEnd DEF Kill
<1>3. /\ OnDrive(r) => OnDrive(r)'
      /\ InDirectory(r) => InDirectory(r)'
  BY <1>1, <1>2 DEF OnDrive, InDirectory, Has
<1>4. CASE run[r].pc = "cleanup"
  <2>1. (run[r].status # 3 /\ ~run[r].short) => run[r].moved = {} \/ OnDrive(r)
    BY <1>4 DEF Carried
  <2> QED
    BY <1>2, <1>3, <2>1 DEF Carried, At, Busy
<1>5. CASE run[r].pc \in Busy
  <2>1. InDirectory(r)
    BY <1>5 DEF Carried
  <2> QED
    BY <1>2, <1>3, <2>1 DEF Carried, At, Busy
<1>6. run[r].pc = "cleanup" \/ run[r].pc \in Busy
  BY RunMember DEF Kill, Invocation, Steps, Busy
<1> QED
  BY <1>4, <1>5, <1>6

\* A line that is written late adds to a directory; the archive it breaks is excused.
LEMMA WriteKeeps ==
  ASSUME TypeInv, NEW l \in Logs, Write(l)
  PROVE  /\ run' = run /\ drive' = drive /\ DOMAIN tmp' = DOMAIN tmp /\ late \subseteq late'
         /\ \A m \in DOMAIN tmp : /\ tmp'[m].tars = tmp[m].tars
                                  /\ DOMAIN tmp'[m].logs = DOMAIN tmp[m].logs
                                  /\ Content(tmp[m].logs) \subseteq Content(tmp'[m].logs)
         /\ tmp' = tmp \/ late' # {}
<1>1. run' = run /\ drive' = drive /\ late \subseteq late'
  BY DEF Write
<1>2. CASE UNCHANGED tmp
  BY <1>1, <1>2
<1>3. CASE /\ handle[l] \notin {InLog, Gone} /\ late' = late \cup {written'}
           /\ tmp' = [tmp EXCEPT ![handle[l]].logs[l] = @ \cup {written'}]
  <2> DEFINE h == handle[l]
             logs == [tmp[h].logs EXCEPT ![l] = @ \cup {written'}]
  <2>1. h \in DOMAIN tmp /\ l \in DOMAIN tmp[h].logs /\ IsDirectory(tmp[h])
    BY <1>3, Known DEF TypeInv, PlacesType, HandlesHold
  <2>2. tmp' = [tmp EXCEPT ![h].logs = logs]
    BY <1>3
  <2>3. DOMAIN logs = DOMAIN tmp[h].logs /\ Content(tmp[h].logs) \subseteq Content(logs)
    BY <2>1 DEF Content
  <2>4. /\ DOMAIN tmp' = DOMAIN tmp
        /\ tmp'[h] = [logs |-> logs, tars |-> tmp[h].tars]
        /\ \A m \in DOMAIN tmp \ {h} : tmp'[m] = tmp[m]
    BY <2>1, <2>2, LogsChange
  <2>5. tmp'[h].logs = logs /\ tmp'[h].tars = tmp[h].tars
    BY <2>4
  <2> HIDE DEF h, logs
  <2> QED
    BY <1>1, <1>3, <2>3, <2>4, <2>5
<1> QED
  BY <1>2, <1>3 DEF Write

LEMMA WriteCarried ==
  ASSUME TypeInv, NEW l \in Logs, Write(l), NEW r \in Runs, Carried(r)
  PROVE  Carried(r)'
<1> DEFINE d == run[r].dir
<1>1. /\ run' = run /\ drive' = drive /\ DOMAIN tmp' = DOMAIN tmp /\ late \subseteq late'
      /\ \A m \in DOMAIN tmp : /\ tmp'[m].tars = tmp[m].tars
                               /\ DOMAIN tmp'[m].logs = DOMAIN tmp[m].logs
                               /\ Content(tmp[m].logs) \subseteq Content(tmp'[m].logs)
      /\ tmp' = tmp \/ late' # {}
  BY WriteKeeps
<1>2. InDirectory(r) => InDirectory(r)'
  BY <1>1 DEF InDirectory
<1>3. OnDrive(r) => OnDrive(r)'
  BY <1>1 DEF OnDrive, Has
<1>4. run[r].pc \in Busy => d \in DOMAIN tmp
  BY DEF Carried, InDirectory
<1>5. (run[r].pc \in Busy => InDirectory(r))'
  BY <1>1, <1>2 DEF Carried
<1>6. (At(r, "move") => run[r].todo \cap DOMAIN tmp[run[r].dir].logs = {})'
  BY <1>1, <1>4 DEF Carried, At, Busy
<1>7. (At(r, "pack") => run[r].noted = Content(tmp[run[r].dir].logs) \/ late # {})'
  BY <1>1 DEF Carried, At
<1>8. ((At(r, "open") /\ HasTar(r) /\ ~run[r].short) => Has(r, tmp[run[r].dir].tars[run[r].name]))'
  <2>1. SUFFICES ASSUME At(r, "open"), HasTar(r)', ~run[r].short
                 PROVE  Has(r, tmp[run[r].dir].tars[run[r].name])'
    BY <1>1 DEF At
  <2>2. HasTar(r)
    BY <1>1, <2>1 DEF HasTar
  <2>3. Has(r, tmp[run[r].dir].tars[run[r].name])
    BY <2>1, <2>2 DEF Carried
  <2> QED
    BY <1>1, <2>2, <2>3 DEF Has, HasTar
<1>9. ((At(r, "write") /\ ~run[r].short) => Has(r, run[r].tar))'
  BY <1>1 DEF Carried, At, Has
<1>10. ((run[r].pc \in {"cleanup", "over"} /\ run[r].status = 0 /\ ~run[r].short) => OnDrive(r))'
  BY <1>1, <1>3 DEF Carried
<1>11. ((run[r].pc \in {"cleanup", "over"} /\ run[r].status \notin {0, 3}) => run[r].moved = {})'
  BY <1>1 DEF Carried
<1>12. ((At(r, "killed") /\ run[r].status # 3 /\ ~run[r].short) =>
          run[r].moved = {} \/ OnDrive(r) \/ InDirectory(r))'
  BY <1>1, <1>2, <1>3 DEF Carried, At
<1> QED
  BY <1>5, <1>6, <1>7, <1>8, <1>9, <1>10, <1>11, <1>12 DEF Carried

LEMMA RunCarried ==
  ASSUME TypeInv, CarryInv, NEW q \in Runs, Step(q) \/ Kill(q), Alone(q)'
  PROVE  Carried(q)'
<1>1. Begun /\ Named
  BY DEF CarryInv
<1>2. ASSUME NEW status, status # 0, Refuse(q, status) PROVE Carried(q)'
  BY <1>1, <1>2, RefuseCarried
<1>3. Unusable(q) \/ NoMountPoint(q) \/ NoLogDirectory(q) \/ NoMacAddress(q) \/ NoTemporaryDirectory(q)
        => Carried(q)'
  BY <1>2 DEF Unusable, NoMountPoint, NoLogDirectory, NoMacAddress, NoTemporaryDirectory
<1>4. CASE Begin(q)
  BY <1>1, <1>4, BeginCarried
<1>5. CASE ~Begin(q)
  <2>1. Alone(q)
    BY <1>5, DirsStay DEF Alone
  <2>2. Carried(q)
    BY <2>1 DEF CarryInv
  <2> QED
    BY <1>1, <1>3, <1>5, <2>2, MoveCarried, ReloadCarried, BeginArchiveCarried,
       FinishArchiveCarried, OpenCopyCarried, WriteCopyCarried, CleanupCarried, KillCarried
       DEF Step
<1> QED
  BY <1>4, <1>5

LEMMA StepCarry ==
  ASSUME TypeInv, CarryInv, [Next]_vars
  PROVE  CarryInv'
<1>1. Begun' /\ Named'
  BY StepBegun, StepNamed DEF CarryInv
<1>2. ASSUME NEW q \in Runs, Step(q) \/ Kill(q), NEW r \in Runs, Alone(r)' PROVE Carried(r)'
  <2>1. CASE r = q
    BY <1>2, <2>1, RunCarried
  <2>2. CASE r # q
    BY <1>2, <2>2, OthersCarried DEF CarryInv
  <2> QED
    BY <2>1, <2>2
<1>3. ASSUME NEW l \in Logs, Write(l), NEW r \in Runs, Alone(r)' PROVE Carried(r)'
  <2>1. Alone(r)
    BY <1>3 DEF Write, Alone
  <2> QED
    BY <1>3, <2>1, WriteCarried DEF CarryInv
<1>4. ASSUME UNCHANGED <<tmp, drive, run, late>>, NEW r \in Runs, Alone(r)' PROVE Carried(r)'
  <2>1. Alone(r)
    BY <1>4 DEF Alone
  <2> QED
    BY <1>4, <2>1, CarriedStays DEF CarryInv
<1>5. \A r \in Runs : Alone(r)' => Carried(r)'
  BY <1>2, <1>3, <1>4 DEF Next, Reopen, Tick, vars, places
<1> QED
  BY <1>1, <1>5 DEF CarryInv

-----------------------------------------------------------------------------
\* No step takes a line from a log but the one that notes it as moved.
LEMMA LinesStay ==
  ASSUME LinesInv, written' = written, late' = late,
         \A r \in Runs : run'[r].moved = run[r].moved,
         Content(log) \subseteq Content(log')
  PROVE  LinesInv'
  BY DEF LinesInv

LEMMA StepLines ==
  ASSUME TypeInv, LinesInv, [Next]_vars
  PROVE  LinesInv'
<1>0. \A l \in DOMAIN log : l \in Logs /\ log[l] \subseteq Lines
  BY Known
<1>1. ASSUME NEW q \in Runs, Step(q) \/ Kill(q), ~\E l \in Logs : MoveFile(q, l) PROVE LinesInv'
  <2>1. run'[q].moved = run[q].moved
    <3>1. ASSUME NEW status, Refuse(q, status) PROVE run'[q].moved = run[q].moved
      BY <3>1, HowRefuse DEF Goes
    <3>2. Cleanup(q) \/ Kill(q) => run'[q].moved = run[q].moved
      BY HowEnd DEF Cleanup, Kill
    <3>3. Reload(q) \/ BeginArchive(q) \/ OpenCopy(q) \/ WriteCopy(q) => run'[q].moved = run[q].moved
      BY HowArchive DEF Goes
    <3>4. FinishArchive(q) => run'[q].moved = run[q].moved
      BY HowFinish DEF Goes
    <3>5. Begin(q) => run'[q].moved = run[q].moved
      BY HowBegin
    <3> QED
      BY <1>1, <3>1, <3>2, <3>3, <3>4, <3>5
      DEF Step, Unusable, NoMountPoint, NoLogDirectory, NoMacAddress, NoTemporaryDirectory
  <2>2. UNCHANGED <<log, written, late>>
    BY <1>1
    DEF Step, Unusable, NoMountPoint, NoLogDirectory, NoMacAddress, NoTemporaryDirectory, Refuse,
        Begin, Reload, BeginArchive, FinishArchive, OpenCopy, WriteCopy, Cleanup, Kill, places
  <2>3. \A r \in Runs : run'[r].moved = run[r].moved
    BY <1>1, <2>1, OthersWait
  <2> QED
    BY <2>2, <2>3, LinesStay
<1>2. ASSUME NEW q \in Runs, NEW l \in Logs, MoveFile(q, l) PROVE LinesInv'
  <2>1. written' = written /\ late' = late /\ \A r \in Runs \ {q} : run'[r] = run[r]
    BY <1>2, OthersWait DEF MoveFile, Step
  <2>2. CASE run'[q].moved = run[q].moved /\ UNCHANGED log
    BY <2>1, <2>2, LinesStay
  <2>3. CASE run'[q].moved = run[q].moved \cup log[l] /\ log' = Without(log, l)
    <3>1. \A x \in Content(log) : x \in Content(log') \/ x \in log[l]
      BY <2>3 DEF Content, Without
    <3>2. \A x : x \in UNION {run[r].moved : r \in Runs} => x \in UNION {run'[r].moved : r \in Runs}
      BY <2>1, <2>3
    <3>3. \A x \in log[l] : x \in UNION {run'[r].moved : r \in Runs}
      BY <2>3
    <3> QED
      BY <2>1, <3>1, <3>2, <3>3 DEF LinesInv
  <2>4. \/ run'[q].moved = run[q].moved /\ UNCHANGED log
        \/ run'[q].moved = run[q].moved \cup log[l] /\ log' = Without(log, l)
    <3>1. run[q] \in Invocation /\ run \in [Runs -> Invocation]
      BY RunMember DEF TypeInv, RunType
    <3>2. \/ run'[q] = [run[q] EXCEPT !.todo = @ \ {l}] /\ UNCHANGED log
          \/ run'[q] = [run[q] EXCEPT !.todo = @ \ {l}, !.moved = @ \cup log[l]] /\ log' = Without(log, l)
      BY <1>2, <3>1 DEF MoveFile
    <3> QED
      BY <3>1, <3>2 DEF Invocation
  <2> QED
    BY <2>2, <2>3, <2>4
<1>3. ASSUME NEW l \in Logs, Write(l) PROVE LinesInv'
  <2>1. written \in Nat /\ written' = written + 1 /\ run' = run
    BY UsbAssumption, <1>3 DEF Write, TypeInv, PlacesType
  <2>2. 1 .. written' = (1 .. written) \cup {written'}
    BY <2>1
  <2>3. late \subseteq late' /\ Content(log) \subseteq Content(log')
        /\ (written' \in late' \/ written' \in Content(log'))
    <3>1. CASE handle[l] = InLog
      <4>1. l \in DOMAIN log /\ log' = [log EXCEPT ![l] = @ \cup {written'}] /\ late' = late
        BY <1>3, <3>1 DEF Write, TypeInv, HandlesHold
      <4> QED
        BY <4>1 DEF Content
    <3>2. CASE handle[l] # InLog
      BY <1>3, <3>2 DEF Write
    <3> QED
      BY <3>1, <3>2
  <2> QED
    BY <2>1, <2>2, <2>3 DEF LinesInv
<1>4. ASSUME Reopen PROVE LinesInv'
  <2>1. Content(log) \subseteq Content(log')
    BY <1>0, <1>4 DEF Reopen, Content
  <2> QED
    BY <1>4, <2>1, LinesStay DEF Reopen
<1>5. CASE Tick \/ UNCHANGED vars
  BY <1>5, LinesStay DEF Tick, vars, places
<1> QED
  BY <1>1, <1>2, <1>3, <1>4, <1>5 DEF Next

-----------------------------------------------------------------------------
(* The inductive invariant, and what follows from it.                      *)

UsbInv == TypeInv /\ CarryInv /\ LinesInv

LEMMA InitUsbInv == Init => UsbInv
<1> SUFFICES ASSUME Init PROVE UsbInv
  OBVIOUS
<1>1. TypeInv /\ Begun
  BY InitTypes, InitBegun
<1>2. Named
  BY DEF Init, Empty, Named
<1>3. \A r \in Runs : run[r].pc = "start"
  BY DEF Init
<1>4. CarryInv
  BY <1>1, <1>2, <1>3 DEF CarryInv, Carried, At, Busy
<1>5. LinesInv
  BY DEF Init, LinesInv
<1> QED
  BY <1>1, <1>4, <1>5 DEF UsbInv

LEMMA StepUsbInv == UsbInv /\ [Next]_vars => UsbInv'
<1> SUFFICES ASSUME UsbInv, [Next]_vars PROVE UsbInv'
  OBVIOUS
<1>1. Begun
  BY DEF UsbInv, CarryInv
<1> QED
  BY <1>1, StepTypes, StepCarry, StepLines DEF UsbInv

LEMMA SuccessFollows == UsbInv => SuccessMeansOnDrive
<1> SUFFICES ASSUME UsbInv, NEW r \in Runs, At(r, "over"), run[r].status = 0, Alone(r), ~run[r].short
             PROVE  /\ run[r].dir \in DOMAIN drive
                    /\ run[r].moved \subseteq drive[run[r].dir].lines
                    /\ drive[run[r].dir].whole \/ late # {}
  BY DEF SuccessMeansOnDrive
<1>1. Carried(r)
  BY DEF UsbInv, CarryInv
<1>2. OnDrive(r)
  BY <1>1 DEF Carried, At
<1> QED
  BY <1>2 DEF OnDrive, Has

\* What an invocation has moved that has its minute for itself, and no excuse.
LEMMA MovedIsKept ==
  ASSUME UsbInv, NEW r \in Runs, run[r].status # 3, ~run[r].short, Alone(r)
  PROVE  \/ run[r].moved = {}
         \/ InDirectory(r)
         \/ OnDrive(r)
<1>1. Begun /\ Carried(r) /\ run[r].pc \in Steps
  BY Known DEF UsbInv, CarryInv
<1>2. CASE run[r].pc = "start"
  BY <1>1, <1>2 DEF Begun, BegunBy, At
<1>3. CASE run[r].pc \in Busy
  BY <1>1, <1>3 DEF Carried
<1>4. CASE run[r].pc \in {"cleanup", "over"}
  BY <1>1, <1>4 DEF Carried
<1>5. CASE run[r].pc = "killed"
  BY <1>1, <1>5 DEF Carried, At
<1> QED
  BY <1>1, <1>2, <1>3, <1>4, <1>5 DEF Steps, Busy

LEMMA LossesFollow == UsbInv => LossesHaveCauses
<1> DEFINE inTmp == UNION {Content(tmp[m].logs) \cup Stored(tmp[m].tars) : m \in DOMAIN tmp}
           kept == Content(log) \cup Stored(drive) \cup inTmp
           excused == {r \in Runs : run[r].status = 3 \/ run[r].short \/ ~Alone(r)}
<1> SUFFICES ASSUME UsbInv, NEW x \in 1 .. written, x \notin kept, x \notin late
             PROVE  \E r \in excused : x \in run[r].moved
  BY DEF LossesHaveCauses
<1>1. PICK r \in Runs : x \in run[r].moved
  BY DEF UsbInv, LinesInv
<1>2. CASE r \in excused
  BY <1>1, <1>2
<1>3. CASE r \notin excused
  <2>1. run[r].status # 3 /\ ~run[r].short /\ Alone(r)
    BY <1>3
  <2>2. CASE InDirectory(r)
    BY <1>1, <2>2 DEF InDirectory
  <2>3. CASE OnDrive(r)
    BY <1>1, <2>3 DEF OnDrive, Has, Stored
  <2> QED
    BY <1>1, <2>1, <2>2, <2>3, MovedIsKept
<1> QED
  BY <1>2, <1>3

LEMMA UsbInvariant == Spec => []UsbInv
<1>1. Init => UsbInv
  BY InitUsbInv
<1>2. UsbInv /\ [Next]_vars => UsbInv'
  BY StepUsbInv
<1> QED
  BY <1>1, <1>2, PTL DEF Spec

\* Every file and every invocation is in its range, and a writer's file is where its
\* handle says, for any bounds, names and number of invocations.
THEOREM TypeCorrect == Spec => []TypeOK
<1>1. UsbInv => TypeOK
  BY TypeInvIsType DEF UsbInv
<1> QED
  BY <1>1, UsbInvariant, PTL

\* usb_log_upload_execute returns 0 only with the logs it moved on the drive.
THEOREM SuccessIsOnDrive == Spec => []SuccessMeansOnDrive
  BY SuccessFollows, UsbInvariant, PTL

\* No line of a log is lost without one of the causes that LossesHaveCauses lists.
THEOREM LossesAreExplained == Spec => []LossesHaveCauses
  BY LossesFollow, UsbInvariant, PTL
=============================================================================
