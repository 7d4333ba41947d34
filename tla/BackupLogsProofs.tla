---------------------------- MODULE BackupLogsProofs ----------------------------
(***************************************************************************)
(* For any log files, any number of boots and of troubles: what the        *)
(* sentinel promises; as long as nothing goes wrong, the order of the      *)
(* generations and that only age removes a log; and that one loss of       *)
(* power spares the logs of the last boot.                                 *)
(***************************************************************************)
EXTENDS BackupLogs, TLAPS

(***************************************************************************)
(* The passes that a backup can still have to make.                        *)
(***************************************************************************)
LastPasses == {<<<<"log", p>>>> : p \in {"base", "bak1", "bak2", "bak3", Own}}
Rotation2 == <<<<"bak2", "bak1">>, <<"bak3", "bak2">>, <<"log", "bak3">>>>
Rotation3 == <<<<"bak3", "bak2">>, <<"log", "bak3">>>>
Rotations == {Rotate, Rotation2, Rotation3}

Ready ==
  /\ pc = "move" => todo \in LastPasses \cup Rotations
  /\ copied # NoFile => pc = "move" /\ copied \notin left
  /\ upload # "off" => pc = "up"
  /\ pc # "up" => ~done

StoreType == [Places -> [Files -> Absent .. logged]]

TypeInv == TypeOK /\ Ready

(***************************************************************************)
(* The older logs leave LOG_PATH in the last pass, if the disk is not full. *)
(***************************************************************************)
LogLeaves ==
  /\ (pc = "move" /\ todo \in LastPasses) => FilesIn("log") \subseteq left \cup {copied}
  /\ pc \in {"clean", "load", "common"} => FilesIn("log") = {}

SpecialsLand ==
  pc = "common" =>
    special.sources \subseteq special.entries \cup (special.landed \cap {"copied"})

AssembledInv == trouble["disk"] = 0 => LogLeaves /\ SpecialsLand

(***************************************************************************)
(* While nothing goes wrong. The generations are in a line, with LOG_PATH  *)
(* at its end. Of the two ends of a pass, and of the two names of the base *)
(* files during an upload, one has what the other has not.                 *)
(***************************************************************************)
Line == {"base", "bak1", "bak2", "bak3", "log"}
Rank == [base |-> 1, bak1 |-> 2, bak2 |-> 3, bak3 |-> 4, log |-> 5]

Either(p, q) == [f \in Files |-> IF store[p][f] # Absent THEN store[p][f] ELSE store[q][f]]

\* A file has lines of no later boot than messages.txt beside it has.
Headed(content) == \A f \in Files : content[f] <= content[SysLog]

\* Whether p is being emptied, or filled.
Busy(p) ==
  \/ pc = "move" /\ p \in {Source, Dest}
  \/ upload # "off" /\ p \in {"base", "stamped"}
  \/ upload = "move" /\ p \in Previous

PlacesHeaded == \A p \in Places : Busy(p) \/ Headed(store[p])

\* messages.txt in p, by either name.
Held(p) == IF upload = "stamp" /\ p = "base" THEN Either("base", "stamped")[SysLog] ELSE store[p][SysLog]

\* messages.txt gets newer along the line, ...
Ascending ==
  upload # "move" =>
    \A p, q \in Line :
      (Rank[p] < Rank[q] /\ Held(p) # Absent /\ Held(q) # Absent) =>
         \/ Held(p) < Held(q)
         \/ copied = SysLog /\ Dest = p /\ Source = q

\* ... and the generations in use are the first ones.
Gapless ==
  \A p, q \in Line \ {"log"} : (Rank[p] < Rank[q] /\ Held(q) # Absent) => Held(p) # Absent

GaplessAtRest == (pc # "move" /\ upload # "move") => Gapless

\* During a pass: what is still to copy is there, what is overwritten is old enough, and
\* both ends together have the files of one boot.
OldEnough(content) == content = Absent \/ content + 3 <= logged

InPass ==
  pc = "move" =>
    /\ FilesIn(Source) = left \cup ({copied} \ {NoFile})
    /\ Dest # Own =>
         /\ copied # NoFile => store[Dest][copied] = store[Source][copied]
         /\ \A f \in left : OldEnough(store[Dest][f])
         /\ Headed(Either(Source, Dest))

\* Which generations are in use while the files move.
InRotation ==
  pc = "move" =>
    /\ todo \in Rotations =>
         /\ \A p \in Line \ {"log", Source, Dest} : InUse(p)
         /\ Either(Source, Dest)[SysLog] # Absent
    /\ (todo \in LastPasses /\ Dest # Own) =>
         \A p \in Line \ {"log", Dest} : InUse(p) <=> Rank[p] < Rank[Dest]
    /\ Dest = Own => Gapless

\* The stamped names are those of the upload in progress, and a file has one of both.
Stamping ==
  /\ upload # "stamp" => FilesIn("stamped") = {}
  /\ FilesIn("stamped") \cap FilesIn("base") = {}
  /\ upload = "stamp" => Headed(Either("base", "stamped"))

Untroubled == PlacesHeaded /\ Ascending /\ GaplessAtRest /\ InPass /\ InRotation /\ Stamping

OrderInv == Only({}) => Untroubled

(***************************************************************************)
(* With at most one power failure, in a backup. A full rotation that finds *)
(* no messages.txt in LOG_PATH leaves bak3 free, so there is no other one  *)
(* before a boot logs; one that finds it moves it to bak3, so there may be *)
(* one more. The last boot that has logged must be far enough from base.   *)
(***************************************************************************)
Tame == Only({"backup"}) /\ trouble["backup"] <= 1

Gens == Line \ {"log"}

\* p has lines of the last boot that has logged.
Newest(p) ==
  \E f \in Files :
    logged = IF upload = "stamp" /\ p = "base" THEN Either("base", "stamped")[f] ELSE store[p][f]

\* LOG_PATH has no older version of a file whose newest is elsewhere.
Fresh ==
  /\ \A p \in Places, f \in Files : store[p][f] = logged => store["log"][f] \in {Absent, logged}
  /\ logged = 0 => \A p \in Places, f \in Files : store[p][f] = Absent

Moving ==
  pc = "move" =>
    /\ FilesIn(Source) = left \cup ({copied} \ {NoFile})
    /\ Dest # Own =>
         /\ copied # NoFile => store[Dest][copied] = store[Source][copied]
         /\ \A f \in left : store[Dest][f] = logged => store[Source][f] = logged

Stamped ==
  /\ upload # "stamp" => FilesIn("stamped") = {}
  /\ FilesIn("stamped") \cap FilesIn("base") = {}

\* No other generation is in use without base.
Based ==
  /\ (pc # "move" /\ upload # "move" /\ Held("base") = Absent) => \A p \in Gens : Held(p) = Absent
  /\ pc = "move" =>
       /\ Dest # Own
       /\ todo \in Rotations => InUse("base")
       /\ todo \in LastPasses =>
            IF Dest = "base" THEN \A p \in Gens \ {"base"} : ~InUse(p) ELSE InUse("base")

\* The last boot is not in base if the next backup may rotate, nor in bak1 if two may.
UnthreatenedAtRest ==
  pc # "move" =>
    /\ (\A p \in Gens : Held(p) # Absent) => ~Newest("base") /\ (InUse("log") => ~Newest("bak1"))
    /\ (InUse("log") /\ \E q \in Gens : \A p \in Gens \ {q} : Held(p) # Absent) => ~Newest("base")

Unthreatened ==
  /\ UnthreatenedAtRest
  /\ (pc = "move" /\ todo \in LastPasses /\ (\A p \in Gens \ {Dest} : InUse(p)) /\ (InUse(Dest) \/ InUse("log")))
       => ~Newest("base")
  /\ (pc = "move" /\ todo \in Rotations /\ InUse("log"))
       => ~Newest("base") /\ (todo = Rotate => ~Newest("bak1"))

Fine == Fresh /\ Moving /\ Stamped /\ (~hdd => Based /\ Unthreatened)

LastInv == Tame => Fine

-----------------------------------------------------------------------------
(* The passes.                                                             *)

LEMMA PassEnds ==
  ASSUME todo \in LastPasses \cup Rotations
  PROVE  /\ Source \in Places /\ Dest \in Previous \cup {Own} /\ Source # Dest /\ Source # "stamped"
         /\ Dest # "stamped" /\ Dest # "log"
         /\ Len(todo) \in 1 .. 4 /\ (Len(todo) = 1 <=> todo \in LastPasses)
         /\ todo \in LastPasses <=> Source = "log"
  BY DEF LastPasses, Rotations, Rotate, Rotation2, Rotation3, Source, Dest, Places, Previous, Own

LEMMA PassesFollow ==
  ASSUME todo \in LastPasses \cup Rotations, Len(todo) > 1
  PROVE  /\ todo \in Rotations /\ Tail(todo) \in LastPasses \cup Rotations
         /\ Tail(todo)[1] = todo[2]
<1>1. Tail(Rotate) = Rotation2
  BY DEF Rotate, Rotation2
<1>2. Tail(Rotation2) = Rotation3
  BY DEF Rotation2, Rotation3
<1>3. Tail(Rotation3) = <<<<"log", "bak3">>>>
  BY DEF Rotation3
<1>4. todo \in Rotations
  BY DEF LastPasses
<1>5. Rotate[2] = Rotation2[1] /\ Rotation2[2] = Rotation3[1] /\ Rotation3[2] = <<"log", "bak3">>
  BY DEF Rotate, Rotation2, Rotation3
<1> QED
  BY <1>1, <1>2, <1>3, <1>4, <1>5 DEF LastPasses, Rotations

LEMMA PassesExist == \A t \in LastPasses \cup Rotations : t # <<>>
<1>1. Rotate # <<>>
  BY DEF Rotate
<1>2. Rotation2 # <<>>
  BY DEF Rotation2
<1>3. Rotation3 # <<>>
  BY DEF Rotation3
<1>4. ASSUME NEW q PROVE <<<<"log", q>>>> # <<>>
  OBVIOUS
<1> QED
  BY <1>1, <1>2, <1>3, <1>4 DEF LastPasses, Rotations

LEMMA PlanIsPasses == Plan \in LastPasses \cup Rotations
<1>1. CASE hdd
  BY <1>1 DEF Plan, LastPasses
<1>2. CASE ~hdd /\ Free # {}
  <2>1. Generations[FirstFree] \in {"base", "bak1", "bak2", "bak3"}
    <3>1. \E i \in Free : \A j \in Free : i <= j
      BY <1>2 DEF Free, Generations
    <3>2. FirstFree \in Free
      BY <3>1 DEF FirstFree
    <3>3. FirstFree \in 1 .. 4
      BY <3>2 DEF Free, Generations
    <3> QED
      BY <3>3 DEF Generations
  <2> QED
    BY <1>2, <2>1 DEF Plan, LastPasses
<1>3. CASE ~hdd /\ Free = {}
  BY <1>3 DEF Plan, Rotations
<1> QED
  BY <1>1, <1>2, <1>3

LEMMA PassesAreSequences ==
  \A t \in LastPasses \cup Rotations : t \in Seq(Places \X (Previous \cup {Own})) /\ Len(t) <= Len(Generations)
<1> DEFINE Pass == Places \X (Previous \cup {Own})
<1>1. ASSUME NEW q \in {"base", "bak1", "bak2", "bak3", Own} PROVE <<<<"log", q>>>> \in Seq(Pass)
  <2>1. <<"log", q>> \in Pass
    BY DEF Places, Previous
  <2> QED
    BY <2>1
<1>2. Rotate \in Seq(Pass) /\ Rotation2 \in Seq(Pass) /\ Rotation3 \in Seq(Pass)
  <2>1. /\ <<"bak1", "base">> \in Pass /\ <<"bak2", "bak1">> \in Pass
        /\ <<"bak3", "bak2">> \in Pass /\ <<"log", "bak3">> \in Pass
    BY DEF Places, Previous
  <2> HIDE DEF Pass
  <2> QED
    BY <2>1 DEF Rotate, Rotation2, Rotation3
<1>3. Len(Generations) = 4
  BY DEF Generations
<1>4. Len(Rotate) = 4 /\ Len(Rotation2) = 3 /\ Len(Rotation3) = 2 /\ \A t \in LastPasses : Len(t) = 1
  BY DEF LastPasses, Rotate, Rotation2, Rotation3
<1>5. ASSUME NEW t \in LastPasses PROVE t \in Seq(Pass) /\ Len(t) <= Len(Generations)
  <2>1. PICK q \in {"base", "bak1", "bak2", "bak3", Own} : t = <<<<"log", q>>>>
    BY DEF LastPasses
  <2>2. t \in Seq(Pass)
    BY <1>1, <2>1
  <2> HIDE DEF Pass
  <2> QED
    BY <1>3, <1>4, <2>2
<1> HIDE DEF Pass
<1>6. ASSUME NEW t \in Rotations PROVE t \in Seq(Pass) /\ Len(t) <= Len(Generations)
  <2>1. t \in Seq(Pass)
    BY <1>2 DEF Rotations
  <2>2. Len(Rotate) <= 4 /\ Len(Rotation2) <= 4 /\ Len(Rotation3) <= 4
    BY <1>4
  <2>3. Len(t) <= 4
    BY <2>2, Zenon DEF Rotations
  <2> QED
    BY <1>3, <2>1, <2>3
<1> QED
  BY <1>5, <1>6 DEF Pass

-----------------------------------------------------------------------------
LEMMA InitTypes == Init => TypeInv
<1> SUFFICES ASSUME Init PROVE TypeInv
  OBVIOUS
<1>1. hdd \in BOOLEAN
  BY DEF Init, HddEnabled
<1>2. store \in StoreType
  BY FilesAssumption DEF Init, StoreType, Empty, Absent
<1>3. trouble \in [Troubles -> 0 .. MaxTrouble] /\ logged \in 0 .. MaxLogged
  BY FilesAssumption DEF Init
<1>4. todo \in Seq(Places \X (Previous \cup {Own})) /\ Len(todo) <= Len(Generations)
  BY DEF Init, Generations
<1> QED
  BY <1>1, <1>2, <1>3, <1>4 DEF Init, TypeInv, TypeOK, Ready, StoreType, NoSpecials

LEMMA TroubleCounts ==
  ASSUME TypeOK, NEW wrong \in SUBSET Troubles, Goes(wrong)
  PROVE  trouble' \in [Troubles -> 0 .. MaxTrouble]
<1>1. trouble \in [Troubles -> 0 .. MaxTrouble] /\ MaxTrouble \in Nat
  BY FilesAssumption DEF TypeOK
<1>2. CASE wrong = {}
  BY <1>1, <1>2 DEF Goes
<1>3. CASE wrong # {}
  <2>1. \A t \in Troubles : trouble[t] \in 0 .. MaxTrouble /\ trouble[t] < MaxTrouble
    BY <1>1, <1>3 DEF Goes, Troubles
  <2> QED
    BY <1>1, <2>1 DEF Goes
<1> QED
  BY <1>2, <1>3

LEMMA Contents ==
  ASSUME NEW s \in StoreType, NEW q \in Places, NEW f \in Files, NEW content \in Absent .. logged
  PROVE  [s EXCEPT ![q][f] = content] \in StoreType
<1>1. [s[q] EXCEPT ![f] = content] \in [Files -> Absent .. logged]
  BY DEF StoreType
<1> QED
  BY <1>1 DEF StoreType

LEMMA AbsentIsContent == TypeOK => Absent \in Absent .. logged /\ Torn \in Absent .. logged
  BY FilesAssumption DEF TypeOK, Absent, Torn

LEMMA Written ==
  ASSUME TypeInv, pc = "move", NEW f \in Files, NEW content \in Absent .. logged
  PROVE  Write(f, content) \in StoreType
<1>1. Dest \in Previous \cup {Own} /\ Source \in Places
  BY PassEnds DEF TypeInv, Ready
<1>2. store \in StoreType
  BY DEF TypeInv, TypeOK, StoreType
<1> QED
  BY <1>1, <1>2 DEF Write, StoreType, Places

LEMMA StepTypes == TypeInv /\ [Next]_vars => TypeOK'
<1> SUFFICES ASSUME TypeInv, TypeOK, [Next]_vars PROVE TypeOK'
  BY DEF TypeInv
<1>0. store \in StoreType /\ (pc = "move" => Source \in Places /\ Dest \in Previous \cup {Own})
  BY PassEnds DEF TypeInv, TypeOK, StoreType, Ready
<1> USE DEF TypeOK
<1>1. CASE GiveUp /\ UNCHANGED special
  BY <1>1 DEF GiveUp
<1>2. CASE Start /\ UNCHANGED special
  <2>1. Plan \in Seq(Places \X (Previous \cup {Own})) /\ Len(Plan) <= Len(Generations)
    BY PlanIsPasses, PassesAreSequences
  <2> QED
    BY <1>2, <2>1 DEF Start, FilesIn
<1>3. ASSUME NEW f \in Files, CopyFile(f) /\ UNCHANGED special PROVE TypeOK'
  <2>1. store' \in StoreType
    BY <1>3, <1>0, Written DEF CopyFile, StoreType
  <2> QED
    BY <1>3, <2>1 DEF CopyFile, StoreType
<1>4. ASSUME NEW f \in Files, CopyFails(f) /\ UNCHANGED special PROVE TypeOK'
  <2>1. store' \in StoreType
    BY <1>4, <1>0, Written DEF CopyFails, Torn, Absent
  <2>2. trouble' \in [Troubles -> 0 .. MaxTrouble]
    BY <1>4, TroubleCounts DEF CopyFails, Troubles
  <2> QED
    BY <1>4, <2>1, <2>2 DEF CopyFails, StoreType
<1>5. CASE RemoveSource /\ UNCHANGED special
  <2>1. pc = "move" /\ copied \in Files
    BY <1>5 DEF RemoveSource, TypeInv, Ready
  <2>2. store' \in StoreType
    <3>1. store' = store \/ store' = [store EXCEPT ![Source][copied] = Absent]
      BY <1>5 DEF RemoveSource
    <3> QED
      BY <1>0, <2>1, <3>1, Contents, AbsentIsContent
  <2>3. trouble' \in [Troubles -> 0 .. MaxTrouble]
    BY <1>5, TroubleCounts DEF RemoveSource, Troubles
  <2> QED
    BY <1>5, <2>2, <2>3 DEF RemoveSource, StoreType
<1>6. CASE NextPass /\ UNCHANGED special
  <2>1. todo' \in Seq(Places \X (Previous \cup {Own})) /\ Len(todo') <= Len(Generations)
    <3>1. todo \in Seq(Places \X (Previous \cup {Own})) /\ todo # <<>>
      <4>1. todo \in LastPasses \cup Rotations
        BY <1>6 DEF NextPass, TypeInv, Ready

      <4> QED
        BY <4>1, PassesExist
    <3>2. Tail(todo) \in Seq(Places \X (Previous \cup {Own})) /\ Len(Tail(todo)) = Len(todo) - 1
      BY <3>1
    <3>3. Len(Generations) = 4
      BY DEF Generations
    <3> QED
      BY <1>6, <3>1, <3>2, <3>3 DEF NextPass
  <2> QED
    BY <1>6, <2>1 DEF NextPass, FilesIn
<1>7. CASE CleanLogPath /\ UNCHANGED special
  <2>1. Empty \in [Files -> Absent .. logged]
    BY DEF Empty, Absent
  <2>2. store' \in StoreType
    BY <1>7, <1>0, <2>1 DEF CleanLogPath, StoreType
  <2> QED
    BY <1>7, <2>2 DEF CleanLogPath, StoreType
<1>8. CASE LoadSpecials
  BY <1>8 DEF LoadSpecials
<1>9. ASSUME NEW e \in Specials, ExecuteEntry(e) PROVE TypeOK'
  <2>1. PICK copies \in BOOLEAN, removes \in BOOLEAN :
          /\ special' = [entries |-> special.entries \ {e},
                        sources |-> IF copies /\ removes /\ e = "moved"
                                    THEN special.sources \ {e} ELSE special.sources,
                        landed  |-> IF copies /\ e \in special.sources
                                    THEN special.landed \cup {e} ELSE special.landed]
          /\ Goes(IF e \in special.sources /\ ~(copies /\ (e = "moved" => removes))
                  THEN {"disk"} ELSE {})
    BY <1>9 DEF ExecuteEntry
  <2>2. trouble' \in [Troubles -> 0 .. MaxTrouble]
    BY <2>1, TroubleCounts DEF Troubles
  <2>3. special' \in [entries : SUBSET Specials, sources : SUBSET Specials, landed : SUBSET Specials]
    BY <1>9, <2>1
  <2> QED
    BY <1>9, <2>2, <2>3 DEF ExecuteEntry
<1>10. CASE CommonOperations
  BY <1>10 DEF CommonOperations, NoSpecials
<1>11. CASE UploadStarts /\ UNCHANGED special
  BY <1>11 DEF UploadStarts
<1>12. ASSUME NEW f \in Files, Stamp(f) /\ UNCHANGED special PROVE TypeOK'
  <2>1. [store EXCEPT !["base"][f] = Absent] \in StoreType
    BY <1>0, Contents, AbsentIsContent DEF Places, Previous
  <2>2. store["base"][f] \in Absent .. logged
    BY <1>0 DEF StoreType, Places, Previous
  <2>3. [[store EXCEPT !["base"][f] = Absent] EXCEPT !["stamped"][f] = store["base"][f]] \in StoreType
    BY <2>1, <2>2, Contents DEF Places, Previous
  <2>4. store' \in StoreType
    BY <1>12, <2>3 DEF Stamp
  <2> QED
    BY <1>12, <2>4 DEF Stamp, StoreType
<1>13. CASE Unstamp /\ UNCHANGED special
  <2>1. Empty \in [Files -> Absent .. logged]
    BY DEF Empty, Absent
  <2>2. store' \in StoreType
    BY <1>13, <1>0, <2>1 DEF Unstamp, StoreType, Places, Previous
  <2> QED
    BY <1>13, <2>2 DEF Unstamp, StoreType
<1>14. ASSUME NEW p \in Previous, NEW f \in Files, Take(p, f) /\ UNCHANGED special PROVE TypeOK'
  <2>1. store' \in StoreType
    BY <1>14, <1>0, Contents, AbsentIsContent DEF Take, Places
  <2> QED
    BY <1>14, <2>1 DEF Take, StoreType
<1>15. CASE UploadEnds /\ UNCHANGED special
  <2>1. Empty \in [Files -> Absent .. logged]
    BY DEF Empty, Absent
  <2>2. store' \in StoreType
    BY <1>15, <1>0, <2>1 DEF UploadEnds, StoreType
  <2>3. trouble' \in [Troubles -> 0 .. MaxTrouble]
    BY <1>15, TroubleCounts DEF UploadEnds, Troubles
  <2> QED
    BY <1>15, <2>2, <2>3 DEF UploadEnds, StoreType
<1>16. CASE Log /\ UNCHANGED special
  <2>1. PICK S \in SUBSET Files :
          store' = [store EXCEPT !["log"] = [f \in Files |-> IF f \in S THEN logged' ELSE @[f]]]
    BY <1>16 DEF Log
  <2>2. logged' \in 0 .. MaxLogged /\ logged < logged'
    BY <1>16, FilesAssumption DEF Log
  <2>3. \A f \in Files : store["log"][f] \in Absent .. logged' /\ logged' \in Absent .. logged'
    BY <1>0, <2>2 DEF StoreType, Absent, Places
  <2>4. store' \in [Places -> [Files -> Absent .. logged']]
    <3>1. [f \in Files |-> IF f \in S THEN logged' ELSE store["log"][f]] \in [Files -> Absent .. logged']
      BY <2>3
    <3>2. \A q \in Places : store[q] \in [Files -> Absent .. logged']
      <4>1. \A q \in Places : store[q] \in [Files -> Absent .. logged]
        BY <1>0 DEF StoreType
      <4>2. Absent .. logged \subseteq Absent .. logged'
        BY <2>2, FilesAssumption DEF Absent
      <4> QED
        BY <4>1, <4>2
    <3>3. store' = [store EXCEPT !["log"] = [f \in Files |-> IF f \in S THEN logged' ELSE store["log"][f]]]
      BY <2>1
    <3> QED
      BY <1>0, <3>1, <3>2, <3>3 DEF StoreType
  <2> QED
    BY <1>16, <2>2, <2>4 DEF Log
<1>17. CASE Reboot
  <2>1. Empty \in [Files -> Absent .. logged]
    BY DEF Empty, Absent
  <2>2. store' \in StoreType
    <3>1. CASE store' = [store EXCEPT !["stamped"] = Empty]
      BY <1>0, <2>1, <3>1 DEF StoreType
    <3>2. ASSUME pc = "move", NEW f \in left, store' = Write(f, Torn) PROVE store' \in StoreType
      BY <3>2, Written DEF Torn, Absent
    <3> QED
      BY <1>17, <3>1, <3>2 DEF Reboot
  <2>3. trouble' \in [Troubles -> 0 .. MaxTrouble]
    BY <1>17, TroubleCounts DEF Reboot, Troubles
  <2>4. todo' \in Seq(Places \X (Previous \cup {Own})) /\ Len(todo') <= Len(Generations)
    BY <1>17 DEF Reboot, Generations
  <2> QED
    BY <1>17, <2>2, <2>3, <2>4 DEF Reboot, StoreType, NoSpecials
<1>18. CASE UNCHANGED vars
  BY <1>18 DEF vars
<1> QED
  BY <1>1, <1>2, <1>3, <1>4, <1>5, <1>6, <1>7, <1>8, <1>9, <1>10, <1>11, <1>12, <1>13, <1>14, <1>15, <1>16, <1>17, <1>18
     DEF Next, Backup, BackupSteps, SpecialSteps, Upload

LEMMA StepReady == TypeInv /\ [Next]_vars => Ready'
<1> SUFFICES ASSUME TypeOK, Ready, [Next]_vars PROVE Ready'
  BY DEF TypeInv
<1> USE DEF Ready
<1>1. CASE GiveUp /\ UNCHANGED special
  BY <1>1 DEF GiveUp
<1>2. CASE Start /\ UNCHANGED special
  BY <1>2, PlanIsPasses DEF Start
<1>3. ASSUME NEW f \in Files, CopyFile(f) /\ UNCHANGED special PROVE Ready'
  BY <1>3 DEF CopyFile
<1>4. ASSUME NEW f \in Files, CopyFails(f) /\ UNCHANGED special PROVE Ready'
  BY <1>4 DEF CopyFails
<1>5. CASE RemoveSource /\ UNCHANGED special
  BY <1>5 DEF RemoveSource
<1>6. CASE NextPass /\ UNCHANGED special
  <2>1. todo \in LastPasses \cup Rotations /\ Len(todo) \in 1 .. 4
    BY <1>6, PassEnds DEF NextPass
  <2>2. CASE Len(todo) > 1
    BY <1>6, <2>1, <2>2, PassesFollow DEF NextPass
  <2>3. CASE ~(Len(todo) > 1)
    BY <1>6, <2>3 DEF NextPass
  <2> QED
    BY <2>2, <2>3
<1>7. CASE CleanLogPath /\ UNCHANGED special
  BY <1>7 DEF CleanLogPath
<1>8. CASE LoadSpecials
  BY <1>8 DEF LoadSpecials
<1>9. ASSUME NEW e \in Specials, ExecuteEntry(e) PROVE Ready'
  BY <1>9 DEF ExecuteEntry
<1>10. CASE CommonOperations
  BY <1>10 DEF CommonOperations
<1>11. CASE UploadStarts /\ UNCHANGED special
  BY <1>11 DEF UploadStarts
<1>12. ASSUME NEW f \in Files, Stamp(f) /\ UNCHANGED special PROVE Ready'
  BY <1>12 DEF Stamp
<1>13. CASE Unstamp /\ UNCHANGED special
  BY <1>13 DEF Unstamp
<1>14. ASSUME NEW p \in Previous, NEW f \in Files, Take(p, f) /\ UNCHANGED special PROVE Ready'
  BY <1>14 DEF Take
<1>15. CASE UploadEnds /\ UNCHANGED special
  BY <1>15 DEF UploadEnds
<1>16. CASE Log /\ UNCHANGED special
  BY <1>16 DEF Log
<1>17. CASE Reboot
  BY <1>17 DEF Reboot
<1>18. CASE UNCHANGED vars
  BY <1>18 DEF vars
<1> QED
  BY <1>1, <1>2, <1>3, <1>4, <1>5, <1>6, <1>7, <1>8, <1>9, <1>10, <1>11, <1>12, <1>13, <1>14, <1>15, <1>16, <1>17, <1>18
     DEF Next, Backup, BackupSteps, SpecialSteps, Upload

LEMMA TypesInductive == TypeInv /\ [Next]_vars => TypeInv'
  BY StepTypes, StepReady DEF TypeInv

\* The content of a log is one of the boots that have logged, or torn, and a backup goes
\* from a place to one that it knows.
THEOREM TypeCorrect == Spec => []TypeOK
<1>1. TypeInv => TypeOK
  BY DEF TypeInv
<1> QED
  BY <1>1, InitTypes, TypesInductive, PTL DEF Spec

-----------------------------------------------------------------------------
(* What the sentinel promises.                                             *)

LEMMA NothingWrong ==
  ASSUME TypeOK, NEW wrong \in SUBSET Troubles, Goes(wrong), NEW t \in Troubles, trouble'[t] = 0
  PROVE  t \notin wrong /\ trouble[t] = 0
<1>1. trouble[t] \in Nat
  BY FilesAssumption DEF TypeOK
<1>2. trouble'[t] = IF t \in wrong THEN trouble[t] + 1 ELSE trouble[t]
  BY DEF Goes
<1> QED
  BY <1>1, <1>2

\* What is in a place after a step that writes to another, or takes one file.
LEMMA WriteElsewhere ==
  ASSUME TypeInv, pc = "move", NEW f \in Files, NEW content, NEW q \in Places, q # Dest
  PROVE  Write(f, content)[q] = store[q]
<1>1. store \in StoreType
  BY DEF TypeInv, TypeOK, StoreType
<1> QED
  BY <1>1 DEF Write, StoreType

LEMMA InitAssembled == Init => AssembledInv
  BY DEF Init, AssembledInv, LogLeaves, SpecialsLand

LEMMA StepLeaves == TypeInv /\ AssembledInv /\ [Next]_vars => (trouble["disk"] = 0 => LogLeaves)'
<1> SUFFICES ASSUME TypeOK, Ready, trouble["disk"] = 0 => LogLeaves, [Next]_vars, trouble'["disk"] = 0
             PROVE  LogLeaves'
  BY DEF TypeInv, AssembledInv
<1>0. store \in StoreType /\ trouble["disk"] = 0 /\ LogLeaves
  <2>1. store \in StoreType
    BY DEF TypeOK, StoreType
  <2>2. trouble["disk"] = 0
    <3>1. UNCHANGED trouble \/ \E wrong \in SUBSET Troubles : Goes(wrong)
      BY DEF Next, Backup, BackupSteps, SpecialSteps, Upload, GiveUp, Start, NextPass, RemoveSource,
         CleanLogPath, CopyFile, CopyFails, LoadSpecials, ExecuteEntry, CommonOperations,
         UploadStarts, Stamp, Unstamp, Take, UploadEnds, Log, Reboot, Troubles, vars
    <3> QED
      BY <3>1, NothingWrong DEF Troubles
  <2> QED
    BY <2>1, <2>2
<1> USE DEF Ready, LogLeaves, FilesIn
<1>1. CASE GiveUp /\ UNCHANGED special
  BY <1>1 DEF GiveUp
<1>2. CASE Start /\ UNCHANGED special
  <2>1. Plan \in LastPasses => Plan[1][1] = "log"
    BY DEF LastPasses
  <2> QED
    BY <1>2, <2>1 DEF Start
<1>3. ASSUME NEW f \in Files, CopyFile(f) /\ UNCHANGED special PROVE LogLeaves'
  <2>1. store'["log"] = store["log"]
    <3>1. Dest # "log" /\ pc = "move"
      BY <1>3, PassEnds DEF CopyFile
    <3> QED
      BY <1>3, <3>1, WriteElsewhere DEF CopyFile, TypeInv, Places, Ready
  <2> QED
    BY <1>0, <1>3, <2>1, FilesAssumption DEF CopyFile
<1>4. ASSUME NEW f \in Files, CopyFails(f) /\ UNCHANGED special PROVE LogLeaves'
  BY <1>4, NothingWrong DEF CopyFails, Troubles
<1>5. CASE RemoveSource /\ UNCHANGED special
  <2>1. store' = [store EXCEPT ![Source][copied] = Absent]
    BY <1>5, NothingWrong DEF RemoveSource, Troubles
  <2>2. pc = "move" /\ (todo \in LastPasses => Source = "log")
    BY <1>5, PassEnds DEF RemoveSource
  <2>3. todo \in LastPasses => FilesIn("log")' \subseteq left
    BY <1>0, <2>1, <2>2 DEF StoreType, Places
  <2> QED
    BY <1>5, <2>2, <2>3 DEF RemoveSource
<1>6. CASE NextPass /\ UNCHANGED special
  <2>1. todo \in LastPasses \cup Rotations /\ pc = "move" /\ left = {} /\ copied = NoFile
    BY <1>6 DEF NextPass
  <2>2. CASE Len(todo) > 1
    <3>1. Tail(todo) \in LastPasses => todo[2][1] = "log"
      <4>1. Tail(todo)[1] = todo[2]
        BY <2>1, <2>2, PassesFollow
      <4>2. \A t \in LastPasses : t[1][1] = "log"
        BY DEF LastPasses
      <4> QED
        BY <4>1, <4>2
    <3> QED
      BY <1>6, <2>2, <3>1 DEF NextPass
  <2>3. CASE ~(Len(todo) > 1)
    <3>1. todo \in LastPasses
      BY <2>1, <2>3, PassEnds, SMTT(30)
    <3>2. FilesIn("log") = {}
      BY <1>0, <2>1, <3>1, FilesAssumption
    <3> QED
      BY <1>6, <2>3, <3>2 DEF NextPass
  <2> QED
    BY <2>2, <2>3
<1>7. CASE CleanLogPath /\ UNCHANGED special
  <2>1. FilesIn("log")' = {}
    BY <1>0, <1>7 DEF CleanLogPath, StoreType, Places, Empty
  <2> QED
    BY <1>7, <2>1 DEF CleanLogPath
<1>8. CASE LoadSpecials
  BY <1>8 DEF LoadSpecials
<1>9. ASSUME NEW e \in Specials, ExecuteEntry(e) PROVE LogLeaves'
  BY <1>0, <1>9 DEF ExecuteEntry
<1>10. CASE CommonOperations
  BY <1>10 DEF CommonOperations
<1>11. CASE UploadStarts /\ UNCHANGED special
  BY <1>11 DEF UploadStarts
<1>12. ASSUME NEW f \in Files, Stamp(f) /\ UNCHANGED special PROVE LogLeaves'
  BY <1>12 DEF Stamp
<1>13. CASE Unstamp /\ UNCHANGED special
  BY <1>13 DEF Unstamp
<1>14. ASSUME NEW p \in Previous, NEW f \in Files, Take(p, f) /\ UNCHANGED special PROVE LogLeaves'
  BY <1>14 DEF Take
<1>15. CASE UploadEnds /\ UNCHANGED special
  BY <1>15 DEF UploadEnds
<1>16. CASE Log /\ UNCHANGED special
  BY <1>16 DEF Log
<1>17. CASE Reboot
  BY <1>17 DEF Reboot
<1>18. CASE UNCHANGED vars
  BY <1>18 DEF vars
<1> QED
  BY <1>1, <1>2, <1>3, <1>4, <1>5, <1>6, <1>7, <1>8, <1>9, <1>10, <1>11, <1>12, <1>13, <1>14, <1>15, <1>16, <1>17, <1>18
     DEF Next, Backup, BackupSteps, SpecialSteps, Upload

LEMMA StepSpecials == TypeInv /\ AssembledInv /\ [Next]_vars => (trouble["disk"] = 0 => SpecialsLand)'
<1> SUFFICES ASSUME TypeOK, Ready, trouble["disk"] = 0 => SpecialsLand, [Next]_vars, trouble'["disk"] = 0
             PROVE  SpecialsLand'
  BY DEF TypeInv, AssembledInv
<1> USE DEF Ready, SpecialsLand
<1>1. CASE GiveUp /\ UNCHANGED special
  BY <1>1 DEF GiveUp
<1>2. CASE Start /\ UNCHANGED special
  BY <1>2 DEF Start
<1>3. ASSUME NEW f \in Files, CopyFile(f) /\ UNCHANGED special PROVE SpecialsLand'
  BY <1>3 DEF CopyFile
<1>4. ASSUME NEW f \in Files, CopyFails(f) /\ UNCHANGED special PROVE SpecialsLand'
  BY <1>4 DEF CopyFails
<1>5. CASE RemoveSource /\ UNCHANGED special
  BY <1>5 DEF RemoveSource
<1>6. CASE NextPass /\ UNCHANGED special
  BY <1>6 DEF NextPass
<1>7. CASE CleanLogPath /\ UNCHANGED special
  BY <1>7 DEF CleanLogPath
<1>8. CASE LoadSpecials
  BY <1>8 DEF LoadSpecials
<1>9. ASSUME NEW e \in Specials, ExecuteEntry(e) PROVE SpecialsLand'
  <2>1. PICK copies \in BOOLEAN, removes \in BOOLEAN :
          /\ special' = [entries |-> special.entries \ {e},
                        sources |-> IF copies /\ removes /\ e = "moved"
                                    THEN special.sources \ {e} ELSE special.sources,
                        landed  |-> IF copies /\ e \in special.sources
                                    THEN special.landed \cup {e} ELSE special.landed]
          /\ Goes(IF e \in special.sources /\ ~(copies /\ (e = "moved" => removes))
                  THEN {"disk"} ELSE {})
    BY <1>9 DEF ExecuteEntry
  <2>2. trouble["disk"] = 0 /\ ~(e \in special.sources /\ ~(copies /\ (e = "moved" => removes)))
    BY <2>1, NothingWrong DEF Troubles
  <2>3. pc = "common"
    BY <1>9 DEF ExecuteEntry
  <2>4. special.sources \subseteq special.entries \cup (special.landed \cap {"copied"})
    BY <2>2, <2>3
  <2>5. e = "moved" \/ e = "copied"
    BY DEF Specials
  <2>6. CASE e \in special.sources
    <3>1. copies /\ (e = "moved" => removes)
      BY <2>2, <2>6
    <3>2. special'.entries = special.entries \ {e} /\ special'.landed = special.landed \cup {e}
      BY <2>1, <2>6, <3>1
    <3>3. special'.sources = IF e = "moved" THEN special.sources \ {e} ELSE special.sources
      BY <2>1, <3>1
    <3> QED
      BY <2>4, <2>5, <3>2, <3>3
  <2>7. CASE e \notin special.sources
    <3>1. special'.entries = special.entries \ {e} /\ special'.landed = special.landed
      BY <2>1, <2>7
    <3>2. special'.sources = special.sources
      BY <2>1, <2>7 DEF TypeOK
    <3> QED
      BY <2>4, <2>7, <3>1, <3>2
  <2> QED
    BY <2>6, <2>7
<1>10. CASE CommonOperations
  BY <1>10 DEF CommonOperations
<1>11. CASE UploadStarts /\ UNCHANGED special
  BY <1>11 DEF UploadStarts
<1>12. ASSUME NEW f \in Files, Stamp(f) /\ UNCHANGED special PROVE SpecialsLand'
  BY <1>12 DEF Stamp
<1>13. CASE Unstamp /\ UNCHANGED special
  BY <1>13 DEF Unstamp
<1>14. ASSUME NEW p \in Previous, NEW f \in Files, Take(p, f) /\ UNCHANGED special PROVE SpecialsLand'
  BY <1>14 DEF Take
<1>15. CASE UploadEnds /\ UNCHANGED special
  BY <1>15 DEF UploadEnds
<1>16. CASE Log /\ UNCHANGED special
  BY <1>16 DEF Log
<1>17. CASE Reboot
  BY <1>17 DEF Reboot
<1>18. CASE UNCHANGED vars
  BY <1>18 DEF vars
<1> QED
  BY <1>1, <1>2, <1>3, <1>4, <1>5, <1>6, <1>7, <1>8, <1>9, <1>10, <1>11, <1>12, <1>13, <1>14, <1>15, <1>16, <1>17, <1>18
     DEF Next, Backup, BackupSteps, SpecialSteps, Upload

LEMMA AssembledInductive == TypeInv /\ AssembledInv /\ [Next]_vars => AssembledInv'
  BY StepLeaves, StepSpecials DEF AssembledInv

\* When the sentinel appears on a disk that has had room, whatever power failures there
\* were, no older log is in LOG_PATH any more, and every special file is.
THEOREM SentinelIsTrue == Spec => SentinelMeansAssembled
<1>1. TypeInv /\ AssembledInv /\ [Next]_vars => (TypeInv /\ AssembledInv)'
  BY TypesInductive, AssembledInductive
<1>2. TypeInv /\ AssembledInv /\ [Next]_vars =>
        [(~done /\ done' /\ trouble["disk"] = 0) =>
           /\ store["log"]' = Empty
           /\ special.sources \subseteq special.landed \cap {"copied"}]_vars
  <2> SUFFICES ASSUME TypeInv, AssembledInv, Next, ~done, done', trouble["disk"] = 0
               PROVE  /\ store["log"]' = Empty
                      /\ special.sources \subseteq special.landed \cap {"copied"}
    OBVIOUS
  <2>1. CommonOperations
    BY DEF Next, Backup, BackupSteps, SpecialSteps, Upload, GiveUp, Start, NextPass, RemoveSource,
       CleanLogPath, CopyFile, CopyFails, LoadSpecials, ExecuteEntry,
       UploadStarts, Stamp, Unstamp, Take, UploadEnds, Log, Reboot
  <2>2. pc = "common" /\ special.entries = {} /\ store' = store
    BY <2>1 DEF CommonOperations
  <2>3. LogLeaves /\ SpecialsLand
    BY DEF AssembledInv
  <2>4. store["log"] = Empty
    <3>1. \A f \in Files : store["log"][f] = Absent
      BY <2>2, <2>3 DEF LogLeaves, FilesIn
    <3>2. store["log"] \in [Files -> Absent .. logged]
      BY DEF TypeInv, TypeOK, Places
    <3> QED
      BY <3>1, <3>2 DEF Empty
  <2> QED
    BY <2>2, <2>3, <2>4 DEF SpecialsLand
<1> QED
  BY <1>1, <1>2, InitTypes, InitAssembled, PTL DEF Spec, SentinelMeansAssembled

-----------------------------------------------------------------------------
(* The generations, while nothing goes wrong.                              *)

LEMMA StaysCalm == TypeInv /\ [Next]_vars /\ Only({})' => Only({})
<1> SUFFICES ASSUME TypeOK, [Next]_vars, NEW t \in Troubles, trouble'[t] = 0
             PROVE  trouble[t] = 0
  BY DEF Only, TypeInv
<1>1. UNCHANGED trouble \/ \E wrong \in SUBSET Troubles : Goes(wrong)
  BY DEF Next, Backup, BackupSteps, SpecialSteps, Upload, GiveUp, Start, NextPass, RemoveSource,
     CleanLogPath, CopyFile, CopyFails, LoadSpecials, ExecuteEntry, CommonOperations,
     UploadStarts, Stamp, Unstamp, Take, UploadEnds, Log, Reboot, Troubles, vars
<1> QED
  BY <1>1, NothingWrong

LEMMA NothingGoes ==
  ASSUME TypeOK, NEW wrong \in SUBSET Troubles, Goes(wrong), Only({})'
  PROVE  wrong = {}
  BY NothingWrong DEF Only

LEMMA StoreValues ==
  ASSUME TypeOK
  PROVE  /\ logged \in Nat
         /\ \A p \in Places, f \in Files :
              store[p][f] \in Int /\ Absent <= store[p][f] /\ store[p][f] <= logged
<1>1. logged \in Nat /\ store \in StoreType
  BY FilesAssumption DEF TypeOK, StoreType
<1>2. \A c \in Absent .. logged : c \in Int /\ Absent <= c /\ c <= logged
  BY <1>1 DEF Absent
<1> QED
  BY <1>1, <1>2 DEF StoreType

LEMMA PassKinds ==
  /\ \A t \in LastPasses : t \notin Rotations /\ t[1][1] = "log"
  /\ \A t \in Rotations :
       /\ t \notin LastPasses /\ t[1][1] \in {"bak1", "bak2", "bak3"}
       /\ t[1][2] \in {"base", "bak1", "bak2"} /\ Rank[t[1][1]] = Rank[t[1][2]] + 1
<1>1. /\ Rotate[1] = <<"bak1", "base">>
      /\ Rotation2[1] = <<"bak2", "bak1">>
      /\ Rotation3[1] = <<"bak3", "bak2">>
  BY DEF Rotate, Rotation2, Rotation3
<1>2. \A t \in LastPasses : t[1][1] = "log"
  BY DEF LastPasses
<1>3. ASSUME NEW t \in Rotations
      PROVE  /\ t[1][1] \in {"bak1", "bak2", "bak3"}
             /\ t[1][2] \in {"base", "bak1", "bak2"} /\ Rank[t[1][1]] = Rank[t[1][2]] + 1
  BY <1>1 DEF Rotations, Rank
<1> QED
  BY <1>2, <1>3

\* A step at rest that moves no file.
LEMMA RestStep ==
  ASSUME TypeInv, Untroubled, pc # "move", pc' # "move", copied' = NoFile,
         store' = store, upload' = upload
  PROVE  Untroubled'
<1>1. copied = NoFile /\ NoFile # SysLog
  BY FilesAssumption DEF TypeInv, Ready
<1>2. \A p \in Line : Held(p)' = Held(p)
  BY DEF Held, Either
<1>3. PlacesHeaded'
  BY DEF Untroubled, PlacesHeaded, Busy, Headed
<1>4. Ascending'
  BY <1>1, <1>2 DEF Untroubled, Ascending
<1>5. GaplessAtRest'
  BY <1>2 DEF Untroubled, GaplessAtRest, Gapless
<1>6. InPass' /\ InRotation'
  BY DEF InPass, InRotation
<1>7. Stamping'
  BY DEF Untroubled, Stamping, FilesIn, Headed, Either
<1> QED
  BY <1>3, <1>4, <1>5, <1>6, <1>7 DEF Untroubled

-----------------------------------------------------------------------------
(* The backup moves the generations.                                       *)

LEMMA CopyKeepsOrder ==
  ASSUME TypeInv, Untroubled, NEW f \in Files, CopyFile(f)
  PROVE  Untroubled'
<1>1. /\ pc = "move" /\ pc' = "move" /\ todo' = todo /\ upload' = upload /\ logged' = logged
      /\ copied = NoFile /\ copied' = f /\ f \in left /\ left' = left \ {f}
  BY DEF CopyFile
<1>0. \A p \in Places : Held(p) = store[p][SysLog] /\ Held(p)' = store'[p][SysLog]
  BY <1>1 DEF Held, TypeInv, Ready
<1>2. /\ Source \in Places /\ Source # "stamped" /\ Dest \in Previous \cup {Own} /\ Source # Dest
      /\ Dest # "stamped" /\ Source' = Source /\ Dest' = Dest /\ upload = "off"
  BY <1>1, PassEnds DEF TypeInv, Ready, Source, Dest
<1>3. \A p \in Places, g \in Files :
        store'[p][g] = IF p = Dest /\ g = f THEN store[Source][f] ELSE store[p][g]
  BY <1>2 DEF CopyFile, Write, TypeInv, TypeOK, Own, Places, Previous
<1>4. \A p \in Places \ {Dest} : store'[p] = store[p]
  BY <1>1, <1>2, WriteElsewhere DEF CopyFile
<1>5. store[Source][f] # Absent /\ NoFile # SysLog /\ NoFile \notin Files
  BY <1>1, FilesAssumption DEF Untroubled, InPass, FilesIn
<1>6. PlacesHeaded'
  BY <1>1, <1>2, <1>4 DEF Untroubled, PlacesHeaded, Busy, Headed
<1>7. Dest # Own => \A g \in Files : Either(Source, Dest)'[g] = Either(Source, Dest)[g]
  BY <1>2, <1>3, <1>5 DEF Either, Places
<1>8. InPass'
  <2>1. FilesIn(Source)' = left' \cup ({copied'} \ {NoFile})
    BY <1>1, <1>2, <1>4, <1>5 DEF Untroubled, InPass, FilesIn
  <2>2. ASSUME Dest # Own
        PROVE  /\ store'[Dest][copied'] = store'[Source][copied']
               /\ \A g \in left' : OldEnough(store[Dest][g])'
               /\ Headed(Either(Source, Dest))'
    <3>1. left \subseteq Files /\ Dest \in Places
      BY <1>2, <2>2 DEF TypeInv, TypeOK, Places
    <3>2. store'[Dest][copied'] = store'[Source][copied']
      BY <1>1, <1>2, <1>3, <3>1
    <3>3. \A g \in left' : OldEnough(store[Dest][g])'
      <4>1. \A g \in left : OldEnough(store[Dest][g])
        BY <1>1, <2>2 DEF Untroubled, InPass
      <4>2. \A g \in left' : g \in left /\ store'[Dest'][g] = store[Dest][g]
        BY <1>1, <1>2, <1>3, <3>1
      <4> QED
        BY <1>1, <4>1, <4>2 DEF OldEnough
    <3>4. Headed(Either(Source, Dest))'
      BY <1>1, <1>7, <2>2, FilesAssumption DEF Untroubled, InPass, Headed
    <3> QED
      BY <3>2, <3>3, <3>4
  <2> QED
    BY <1>2, <2>1, <2>2 DEF InPass
<1>9. InRotation'
  <2>1. \A p \in Line \ {Dest} : InUse(p)' = InUse(p)
    BY <1>4 DEF InUse, Line, Places, Previous
  <2>2. Dest = Own => Gapless'
    <3>1. Dest = Own => \A p \in Line : Held(p)' = Held(p)
      BY <1>0, <1>4 DEF Line, Places, Previous, Own
    <3> QED
      BY <1>1, <3>1 DEF Untroubled, InRotation, Gapless
  <2>3. todo \in Rotations => Either(Source, Dest)'[SysLog] # Absent
    <3>1. todo \in Rotations => Dest # Own
      BY PassKinds DEF Dest, Own
    <3> QED
      BY <1>1, <1>7, <3>1, FilesAssumption DEF Untroubled, InRotation
  <2> QED
    BY <1>1, <1>2, <2>1, <2>2, <2>3 DEF Untroubled, InRotation
<1>10. Ascending'
  <2>1. CASE f # SysLog \/ Dest = Own
    <3>1. \A p \in Line : Held(p)' = Held(p)
      BY <1>0, <1>3, <2>1, FilesAssumption DEF Line, Places, Previous, Own
    <3>2. upload # "move" /\ copied # SysLog
      BY <1>1, <1>2, <1>5
    <3>3. \A p, q \in Line : (Rank[p] < Rank[q] /\ Held(p) # Absent /\ Held(q) # Absent) => Held(p) < Held(q)
      BY <3>2 DEF Untroubled, Ascending
    <3> QED
      BY <3>1, <3>3 DEF Ascending
  <2>2. CASE f = SysLog /\ Dest # Own
    <3> SUFFICES ASSUME NEW p \in Line, NEW q \in Line, Rank[p] < Rank[q],
                        Held(p)' # Absent, Held(q)' # Absent, ~(Dest = p /\ Source = q)
                 PROVE  Held(p)' < Held(q)'
      BY <1>1, <1>2, <2>2 DEF Ascending
    <3>1. \A r \in Line : Held(r)' = IF r = Dest THEN Held(Source) ELSE Held(r)
      BY <1>0, <1>2, <1>3, <2>2, FilesAssumption DEF Line, Places, Previous
    <3>2. \A r, u \in Line : (Rank[r] < Rank[u] /\ Held(r) # Absent /\ Held(u) # Absent) => Held(r) < Held(u)
      BY <1>1, <1>2, <1>5 DEF Untroubled, Ascending
    <3>3. Held(Source) # Absent /\ Source \in Line /\ Dest \in Line
      BY <1>2, <1>5, <2>2 DEF Held, Line, Places, Previous
    <3>4. /\ Rank[Dest] < Rank[Source]
          /\ \A r \in Line : (Rank[Dest] < Rank[r] /\ Rank[r] < Rank[Source]) => Held(r) = Absent
      <4>1. CASE todo \in Rotations
        BY <3>3, <4>1, PassKinds DEF Source, Dest, Rank, Line
      <4>2. CASE todo \in LastPasses
        <5>1. Source = "log" /\ Dest # "log"
          BY <1>2, <4>2, PassKinds DEF Source, Places, Previous, Own
        <5>2. \A r \in Line \ {"log", Dest} : InUse(r) <=> Rank[r] < Rank[Dest]
          BY <1>1, <2>2, <4>2 DEF Untroubled, InRotation
        <5> QED
          BY <1>2, <3>3, <5>1, <5>2 DEF Line, Rank, InUse, Held
      <4> QED
        BY <1>1, <4>1, <4>2 DEF TypeInv, Ready
    <3>5. \A r \in Line : Rank[r] \in 1 .. 5 /\ \A u \in Line : Rank[r] = Rank[u] => r = u
      BY DEF Line, Rank
    <3> QED
      BY <3>1, <3>2, <3>3, <3>4, <3>5
  <2> QED
    BY <2>1, <2>2
<1>11. GaplessAtRest' /\ Stamping'
  <2>1. store'["stamped"] = store["stamped"] /\ FilesIn("stamped") = {}
    BY <1>2, <1>4 DEF Untroubled, Stamping, Places, Previous
  <2> QED
    BY <1>1, <1>2, <2>1 DEF GaplessAtRest, Stamping, FilesIn
<1> QED
  BY <1>6, <1>8, <1>9, <1>10, <1>11 DEF Untroubled

LEMMA RemoveKeepsOrder ==
  ASSUME TypeInv, Untroubled, RemoveSource, Only({})'
  PROVE  Untroubled'
<1>1. /\ pc = "move" /\ pc' = "move" /\ todo' = todo /\ upload' = upload /\ logged' = logged
      /\ copied # NoFile /\ copied' = NoFile /\ copied \in Files /\ left' = left /\ copied \notin left
  BY DEF RemoveSource, TypeInv, TypeOK, Ready
<1>2. /\ Source \in Places /\ Source # "stamped" /\ Dest \in Previous \cup {Own} /\ Source # Dest
      /\ Dest # "stamped" /\ Source' = Source /\ Dest' = Dest /\ upload = "off"
      /\ Dest = Own => Source = "log"
  <2>1. todo \in LastPasses \cup Rotations /\ upload = "off"
    BY <1>1 DEF TypeInv, Ready
  <2>2. Dest = Own => Source = "log"
    BY <2>1, PassKinds DEF Source, Dest, Own
  <2> QED
    BY <1>1, <2>1, <2>2, PassEnds DEF Source, Dest
<1>3. store' = [store EXCEPT ![Source][copied] = Absent]
  BY NothingGoes DEF RemoveSource, Troubles, TypeInv
<1>4. \A p \in Places, g \in Files :
        store'[p][g] = IF p = Source /\ g = copied THEN Absent ELSE store[p][g]
  BY <1>2, <1>3 DEF TypeInv, TypeOK
<1>5. \A p \in Places \ {Source} : store'[p] = store[p]
  BY <1>2, <1>3 DEF TypeInv, TypeOK
<1>6. \A p \in Places : Held(p) = store[p][SysLog] /\ Held(p)' = store'[p][SysLog]
  BY <1>1, <1>2 DEF Held
<1>7. PlacesHeaded'
  BY <1>1, <1>2, <1>5 DEF Untroubled, PlacesHeaded, Busy, Headed
<1>8. /\ FilesIn(Source) = left \cup {copied}
      /\ Dest # Own => /\ store[Dest][copied] = store[Source][copied]
                       /\ \A g \in left : OldEnough(store[Dest][g])
                       /\ Headed(Either(Source, Dest))
  BY <1>1 DEF Untroubled, InPass
<1>9. Dest # Own => \A g \in Files : Either(Source, Dest)'[g] = Either(Source, Dest)[g]
  BY <1>1, <1>2, <1>4, <1>8 DEF Either, Places
<1>10. InPass'
  <2>1. FilesIn(Source)' = left' \cup ({copied'} \ {NoFile})
    BY <1>1, <1>2, <1>4, <1>8 DEF FilesIn
  <2>2. ASSUME Dest # Own
        PROVE  (\A g \in left' : OldEnough(store[Dest][g])') /\ Headed(Either(Source, Dest))'
    <3>1. \A g \in left' : g \in left /\ store'[Dest'][g] = store[Dest][g]
      BY <1>1, <1>2, <1>5, <2>2 DEF Places
    <3>2. \A g \in left' : OldEnough(store[Dest][g])'
      BY <1>1, <1>8, <2>2, <3>1 DEF OldEnough
    <3>3. Headed(Either(Source, Dest))'
      BY <1>8, <1>9, <2>2, FilesAssumption DEF Headed
    <3> QED
      BY <3>2, <3>3
  <2> QED
    BY <1>1, <1>2, <2>1, <2>2 DEF InPass
<1>11. InRotation'
  <2>1. \A p \in Line \ {Source} : InUse(p)' = InUse(p)
    BY <1>5 DEF InUse, Line, Places, Previous
  <2>2. Dest = Own => Gapless'
    <3>1. Dest = Own => \A p \in Line \ {"log"} : Held(p)' = Held(p)
      BY <1>2, <1>5, <1>6 DEF Line, Places, Previous
    <3> QED
      BY <1>1, <3>1 DEF Untroubled, InRotation, Gapless
  <2>3. todo \in Rotations => Either(Source, Dest)'[SysLog] # Absent
    <3>1. todo \in Rotations => Dest # Own
      BY PassKinds DEF Dest, Own
    <3> QED
      BY <1>1, <1>9, <3>1, FilesAssumption DEF Untroubled, InRotation
  <2>4. todo \in LastPasses => Source = "log"
    BY PassKinds DEF Source
  <2> QED
    BY <1>1, <1>2, <2>1, <2>2, <2>3, <2>4 DEF Untroubled, InRotation
<1>12. Ascending'
  <2>1. \A p \in Line : Held(p)' = IF p = Source /\ copied = SysLog THEN Absent ELSE Held(p)
    BY <1>4, <1>6, FilesAssumption DEF Line, Places, Previous
  <2>2. \A p, q \in Line :
          (Rank[p] < Rank[q] /\ Held(p) # Absent /\ Held(q) # Absent) =>
             Held(p) < Held(q) \/ (copied = SysLog /\ Dest = p /\ Source = q)
    BY <1>2 DEF Untroubled, Ascending
  <2> QED
    BY <2>1, <2>2 DEF Ascending
<1>13. GaplessAtRest' /\ Stamping'
  <2>1. store'["stamped"] = store["stamped"] /\ FilesIn("stamped") = {}
    BY <1>2, <1>5 DEF Untroubled, Stamping, Places, Previous
  <2> QED
    BY <1>1, <1>2, <2>1 DEF GaplessAtRest, Stamping, FilesIn
<1> QED
  BY <1>7, <1>10, <1>11, <1>12, <1>13 DEF Untroubled

\* Each pass of a rotation fills what the one before it has emptied.
LEMMA NextPassFills ==
  ASSUME todo \in LastPasses \cup Rotations, Len(todo) > 1
  PROVE  /\ todo \in Rotations /\ todo[2][2] = Source /\ todo[2][1] \notin {Source, Dest}
         /\ todo[2][1] \in {"bak2", "bak3", "log"} /\ Tail(todo)[1] = todo[2]
         /\ Tail(todo) \in Rotations => todo[2][1] # "log"
         /\ Tail(todo) \in LastPasses => Source = "bak3"
<1>1. todo \in Rotations /\ Tail(todo)[1] = todo[2] /\ Tail(todo) \in LastPasses \cup Rotations
  BY PassesFollow
<1>2. /\ Rotate[1] = <<"bak1", "base">> /\ Rotate[2] = <<"bak2", "bak1">>
      /\ Rotation2[1] = <<"bak2", "bak1">> /\ Rotation2[2] = <<"bak3", "bak2">>
      /\ Rotation3[1] = <<"bak3", "bak2">> /\ Rotation3[2] = <<"log", "bak3">>
  BY DEF Rotate, Rotation2, Rotation3
<1>3. todo[2][1] \in {"bak2", "bak3", "log"} /\ todo[2][2] = Source
      /\ Source \in {"bak1", "bak2", "bak3"} /\ Dest \in {"base", "bak1", "bak2"}
      /\ todo[2][1] \notin {Source, Dest}
      /\ (todo[2][1] = "log" => Source = "bak3")
  <2>1. \/ todo[1] = <<"bak1", "base">> /\ todo[2] = <<"bak2", "bak1">>
        \/ todo[1] = <<"bak2", "bak1">> /\ todo[2] = <<"bak3", "bak2">>
        \/ todo[1] = <<"bak3", "bak2">> /\ todo[2] = <<"log", "bak3">>
    BY <1>1, <1>2, Zenon DEF Rotations
  <2>2. \/ Source = "bak1" /\ Dest = "base" /\ todo[2][1] = "bak2" /\ todo[2][2] = "bak1"
        \/ Source = "bak2" /\ Dest = "bak1" /\ todo[2][1] = "bak3" /\ todo[2][2] = "bak2"
        \/ Source = "bak3" /\ Dest = "bak2" /\ todo[2][1] = "log" /\ todo[2][2] = "bak3"
    BY <2>1 DEF Source, Dest
  <2> QED
    BY <2>2
<1>4. Tail(todo) \in Rotations => todo[2][1] # "log"
  BY <1>1, PassKinds
<1>5. Tail(todo) \in LastPasses => todo[2][1] = "log"
  BY <1>1, PassKinds
<1> QED
  BY <1>1, <1>3, <1>4, <1>5 DEF Line

LEMMA NextPassKeepsOrder ==
  ASSUME TypeInv, Untroubled, NextPass
  PROVE  Untroubled'
<1>1. /\ pc = "move" /\ todo' = Tail(todo) /\ upload' = upload /\ logged' = logged /\ store' = store
      /\ copied = NoFile /\ copied' = NoFile /\ left = {} /\ NoFile # SysLog
      /\ todo \in LastPasses \cup Rotations /\ upload = "off"
  BY FilesAssumption DEF NextPass, TypeInv, Ready
<1>2. /\ Source \in Places /\ Dest \in Previous \cup {Own} /\ Source # Dest
      /\ (Len(todo) = 1 <=> todo \in LastPasses) /\ (todo \in LastPasses => Source = "log")
      /\ Len(todo) \in 1 .. 4
  BY <1>1, PassEnds
<1>3. \A p \in Places : Held(p) = store[p][SysLog] /\ Held(p)' = store[p][SysLog]
  BY <1>1 DEF Held
<1>4. /\ \A g \in Files : store[Source][g] = Absent
      /\ Dest # Own => Headed(Either(Source, Dest))
  BY <1>1 DEF Untroubled, InPass, FilesIn
<1>5. Dest # Own => (\A g \in Files : Either(Source, Dest)[g] = store[Dest][g]) /\ Headed(store[Dest])
  BY <1>4, FilesAssumption DEF Either, Headed
<1>6. Headed(store[Source])
  BY <1>4, FilesAssumption DEF Headed, Absent
<1>7. \A p \in Places : Headed(store[p])
  BY <1>1, <1>5, <1>6 DEF Untroubled, PlacesHeaded, Busy, Places, Previous, Own
<1>8. PlacesHeaded'
  BY <1>1, <1>7 DEF PlacesHeaded, Headed
<1>9. Ascending'
  BY <1>1, <1>3 DEF Untroubled, Ascending, Line, Places, Previous
<1>10. Stamping'
  BY <1>1 DEF Untroubled, Stamping, FilesIn
<1>11. CASE Len(todo) > 1
  <2>1. pc' = "move" /\ left' = FilesIn(todo[2][1])
    BY <1>11 DEF NextPass
  <2>2. /\ todo \in Rotations /\ Dest' = Source /\ Source' = todo[2][1] /\ Source' \notin {Source, Dest}
        /\ Source' \in Line /\ (todo' \in Rotations => Source' # "log")
        /\ (todo' \in LastPasses => Dest' = "bak3") /\ Dest # Own /\ Dest' # Own
    BY <1>1, <1>2, <1>11, NextPassFills, PassKinds DEF Source, Dest, Own, Places, Previous, Line
  <2>3. \A g \in Files : Either(Source, Dest)'[g] = store[Source'][g]
    BY <1>1, <1>4, <2>2 DEF Either
  <2>4. InPass'
    <3>1. Headed(Either(Source, Dest))'
      BY <1>7, <2>2, <2>3, FilesAssumption DEF Headed, Line, Places, Previous
    <3>2. FilesIn(Source)' = left'
      BY <1>1, <2>1, <2>2 DEF FilesIn
    <3>3. \A g \in left' : store'[Dest'][g] = Absent
      BY <1>1, <1>4, <2>1, <2>2 DEF FilesIn
    <3> QED
      BY <1>1, <3>1, <3>2, <3>3 DEF InPass, OldEnough
  <2>5. \A p \in Line \ {"log", Source} : InUse(p)
    BY <1>1, <1>5, <2>2, FilesAssumption DEF Untroubled, InRotation, InUse
  <2>6. InRotation'
    <3>1. \A p : InUse(p)' = InUse(p)
      BY <1>1 DEF InUse
    <3>2. todo' \in Rotations => Either(Source, Dest)'[SysLog] # Absent
      BY <2>2, <2>3, <2>5, FilesAssumption DEF InUse
    <3>3. todo' \in LastPasses => \A p \in Line \ {"log", Dest'} : InUse(p) /\ Rank[p] < Rank[Dest']
      BY <2>2, <2>5 DEF Line, Rank
    <3> QED
      BY <2>2, <2>5, <3>1, <3>2, <3>3 DEF InRotation
  <2>7. GaplessAtRest'
    BY <2>1 DEF GaplessAtRest
  <2> QED
    BY <1>8, <1>9, <1>10, <2>4, <2>6, <2>7 DEF Untroubled
<1>12. CASE ~(Len(todo) > 1)
  <2>1. pc' = "clean" /\ todo \in LastPasses
    BY <1>2, <1>12, SMTT(30) DEF NextPass
  <2>2. InPass' /\ InRotation'
    BY <2>1 DEF InPass, InRotation
  <2>3. Gapless
    <3>1. CASE Dest = Own
      BY <1>1, <3>1 DEF Untroubled, InRotation
    <3>2. CASE Dest # Own
      <4>1. \A p \in Line \ {"log", Dest} : Held(p) # Absent <=> Rank[p] < Rank[Dest]
        BY <1>1, <1>3, <2>1, <3>2 DEF Untroubled, InRotation, InUse, Line, Places, Previous
      <4>2. \A p \in Line : Rank[p] \in 1 .. 5
        BY DEF Line, Rank
      <4>3. Dest \in Line
        BY <1>1, <3>2, PassEnds DEF Line, Previous
      <4> QED
        BY <4>1, <4>2, <4>3 DEF Gapless
    <3> QED
      BY <3>1, <3>2
  <2>4. GaplessAtRest'
    BY <1>3, <2>3 DEF GaplessAtRest, Gapless, Line, Places, Previous
  <2> QED
    BY <1>8, <1>9, <1>10, <2>2, <2>4 DEF Untroubled
<1> QED
  BY <1>11, <1>12

LEMMA FreeGeneration ==
  ASSUME Free # {}
  PROVE  /\ Generations[FirstFree] \in Line \ {"log"} /\ ~InUse(Generations[FirstFree])
         /\ \A p \in Line \ {"log"} : Rank[p] < Rank[Generations[FirstFree]] => InUse(p)
<1>1. \E i \in Free : \A j \in Free : i <= j
  BY DEF Free, Generations
<1>2. FirstFree \in Free /\ \A j \in Free : FirstFree <= j
  BY <1>1 DEF FirstFree
<1>3. FirstFree \in 1 .. 4 /\ ~InUse(Generations[FirstFree])
  BY <1>2 DEF Free, Generations
<1>4. \A i \in 1 .. 4 : Generations[i] \in Line \ {"log"} /\ Rank[Generations[i]] = i
  BY DEF Generations, Line, Rank
<1>5. \A i \in 1 .. 4 : i < FirstFree => InUse(Generations[i])
  BY <1>2, <1>3 DEF Free, Generations
<1>6. \A p \in Line \ {"log"} : Rank[p] \in 1 .. 4 /\ Generations[Rank[p]] = p
  BY DEF Generations, Line, Rank
<1> QED
  BY <1>3, <1>4, <1>5, <1>6

LEMMA StartKeepsOrder ==
  ASSUME TypeInv, Untroubled, Start
  PROVE  Untroubled'
<1>1. /\ pc = "boot" /\ pc' = "move" /\ todo' = Plan /\ left' = FilesIn(Plan[1][1]) /\ upload' = upload
      /\ logged' = logged /\ store' = store /\ copied' = NoFile /\ copied = NoFile /\ NoFile # SysLog
      /\ upload = "off"
  BY FilesAssumption DEF Start, TypeInv, Ready
<1>2. \A p \in Places : Held(p) = store[p][SysLog] /\ Held(p)' = store[p][SysLog]
  BY <1>1 DEF Held
<1>3. \A p \in Places : Headed(store[p])
  BY <1>1 DEF Untroubled, PlacesHeaded, Busy
<1>4. Gapless
  BY <1>1 DEF Untroubled, GaplessAtRest
<1>5. PlacesHeaded' /\ GaplessAtRest'
  BY <1>1, <1>3 DEF PlacesHeaded, Headed, GaplessAtRest
<1>6. Ascending'
  BY <1>1, <1>2 DEF Untroubled, Ascending, Line, Places, Previous
<1>7. Stamping'
  BY <1>1 DEF Untroubled, Stamping, FilesIn
<1>8. \A p \in Line : p \in Places /\ Held(p) = store[p][SysLog]
  BY <1>2 DEF Line, Places, Previous
<1>9. logged \in Nat /\ \A p \in Places, g \in Files :
        store[p][g] \in Int /\ Absent <= store[p][g] /\ store[p][g] <= logged
  BY StoreValues DEF TypeInv
<1>10. SysLog \in Files /\ Absent = -1
  BY FilesAssumption DEF Absent
<1>11. FilesIn(Source)' = left'
  BY <1>1 DEF FilesIn, Source
<1>12. ASSUME NEW d \in Line \ {"log"}, Plan = <<<<"log", d>>>>, ~InUse(d),
              \A p \in Line \ {"log"} : Rank[p] < Rank[d] => InUse(p)
       PROVE  InPass' /\ InRotation'
  <2>1. Source' = "log" /\ Dest' = d /\ d # Own /\ d # "log" /\ todo' \in LastPasses
    BY <1>1, <1>12 DEF Source, Dest, Line, Own, LastPasses
  <2>2. \A g \in Files : store[d][g] = Absent
    BY <1>3, <1>8, <1>9, <1>10, <1>12 DEF Headed, InUse
  <2>3. InPass'
    <3>1. \A g \in Files : Either(Source, Dest)'[g] = store["log"][g]
      BY <1>1, <2>1, <2>2 DEF Either
    <3>2. Headed(Either(Source, Dest))'
      BY <1>3, <1>10, <3>1 DEF Headed, Places
    <3>3. left' \subseteq Files
      BY <1>1 DEF FilesIn
    <3> QED
      BY <1>1, <1>11, <2>1, <2>2, <3>2, <3>3 DEF InPass, OldEnough
  <2>4. InRotation'
    <3>1. \A p \in Line \ {"log", d} : InUse(p)' <=> Rank[p] < Rank[d]
      <4>1. \A p \in Line \ {"log"} : Rank[p] \in 1 .. 4 /\ (Rank[p] = Rank[d] => p = d)
        BY <1>12 DEF Line, Rank
      <4>2. \A p \in Line \ {"log"} : Rank[d] < Rank[p] => ~InUse(p)
        BY <1>4, <1>8, <1>12 DEF Gapless, InUse
      <4> QED
        BY <1>1, <1>12, <4>1, <4>2 DEF InUse
    <3> QED
      BY <2>1, <3>1, PassKinds DEF InRotation
  <2> QED
    BY <2>3, <2>4
<1>13. CASE hdd
  <2>1. CASE InUse("base")
    <3>1. Plan = <<<<"log", Own>>>>
      BY <1>13, <2>1 DEF Plan
    <3>2. Dest' = Own /\ todo' \in LastPasses
      BY <1>1, <3>1 DEF Dest, LastPasses
    <3>3. Gapless'
      BY <1>2, <1>4, <1>8 DEF Gapless
    <3>4. InPass' /\ InRotation'
      BY <1>1, <1>11, <3>2, <3>3, PassKinds DEF InPass, InRotation
    <3> QED
      BY <1>5, <1>6, <1>7, <3>4 DEF Untroubled
  <2>2. CASE ~InUse("base")
    <3>1. Plan = <<<<"log", "base">>>>
      BY <1>13, <2>2 DEF Plan
    <3>2. "base" \in Line \ {"log"} /\ \A p \in Line \ {"log"} : ~(Rank[p] < Rank["base"])
      BY DEF Line, Rank
    <3>3. InPass' /\ InRotation'
      BY <1>12, <2>2, <3>1, <3>2
    <3> QED
      BY <1>5, <1>6, <1>7, <3>3 DEF Untroubled
  <2> QED
    BY <2>1, <2>2
<1>14. CASE ~hdd /\ Free # {}
  <2>1. Plan = <<<<"log", Generations[FirstFree]>>>>
    BY <1>14 DEF Plan
  <2>2. InPass' /\ InRotation'
    BY <1>12, <1>14, <2>1, FreeGeneration
  <2> QED
    BY <1>5, <1>6, <1>7, <2>2 DEF Untroubled
<1>15. CASE ~hdd /\ Free = {}
  <2>1. \A p \in {"base", "bak1", "bak2", "bak3"} : store[p][SysLog] # Absent
    BY <1>15 DEF Free, Generations, InUse
  <2>2. /\ store["base"][SysLog] < store["bak1"][SysLog]
        /\ store["bak1"][SysLog] < store["bak2"][SysLog]
        /\ store["bak2"][SysLog] < store["bak3"][SysLog]
    <3>1. \A p, q \in Line :
            (Rank[p] < Rank[q] /\ store[p][SysLog] # Absent /\ store[q][SysLog] # Absent) =>
               store[p][SysLog] < store[q][SysLog]
      BY <1>1, <1>8 DEF Untroubled, Ascending
    <3> QED
      BY <2>1, <3>1 DEF Line, Rank
  <2>3. store["base"][SysLog] + 3 <= logged
    BY <1>9, <1>10, <2>2 DEF Places, Previous
  <2>4. Source' = "bak1" /\ Dest' = "base" /\ todo' \in Rotations /\ todo' \notin LastPasses
    <3>1. todo' = Rotate
      BY <1>1, <1>15 DEF Plan
    <3>2. Rotate[1] = <<"bak1", "base">>
      BY DEF Rotate
    <3> QED
      BY <3>1, <3>2, PassKinds DEF Rotations, Source, Dest
  <2>5. \A g \in Files : store["base"][g] <= store["base"][SysLog] /\ store["bak1"][g] <= store["bak1"][SysLog]
    BY <1>3 DEF Headed, Places, Previous
  <2>6. \A g \in Files : Either(Source, Dest)'[g] = IF store["bak1"][g] # Absent THEN store["bak1"][g] ELSE store["base"][g]
    BY <1>1, <2>4 DEF Either
  <2>7. Headed(Either(Source, Dest))' /\ Either(Source, Dest)'[SysLog] # Absent
    <3>1. Either(Source, Dest)'[SysLog] = store["bak1"][SysLog]
      BY <1>10, <2>1, <2>6
    <3>2. \A g \in Files : Either(Source, Dest)'[g] <= store["bak1"][SysLog]
      BY <1>9, <1>10, <2>2, <2>5, <2>6 DEF Places, Previous
    <3> QED
      BY <2>1, <3>1, <3>2 DEF Headed
  <2>8. \A g \in left' : OldEnough(store[Dest][g])'
    <3>1. \A g \in left' : store["base"][g] + 3 <= logged
      BY <1>1, <1>9, <1>10, <2>3, <2>5 DEF FilesIn, Places, Previous
    <3> QED
      BY <1>1, <2>4, <3>1 DEF OldEnough
  <2>9. InPass' /\ InRotation'
    BY <1>1, <1>11, <2>1, <2>4, <2>7, <2>8 DEF InPass, InRotation, InUse, Line, Own
  <2> QED
    BY <1>5, <1>6, <1>7, <2>9 DEF Untroubled
<1> QED
  BY <1>13, <1>14, <1>15

-----------------------------------------------------------------------------
(* The upload moves the generations, and the boot logs.                    *)

LEMMA Idle ==
  ASSUME pc # "move", pc' # "move"
  PROVE  InPass' /\ InRotation' /\ GaplessAtRest' = (upload' # "move" => Gapless')
  BY DEF InPass, InRotation, GaplessAtRest

LEMMA UploadStartsKeepsOrder ==
  ASSUME TypeInv, Untroubled, UploadStarts
  PROVE  Untroubled'
<1>1. /\ pc = "up" /\ pc' = "up" /\ upload = "off" /\ upload' = "stamp" /\ store' = store
      /\ copied' = copied /\ copied = NoFile /\ NoFile # SysLog
  BY FilesAssumption DEF UploadStarts, TypeInv, Ready
<1>2. \A g \in Files : store["stamped"][g] = Absent /\ Either("base", "stamped")'[g] = store["base"][g]
  BY <1>1 DEF Untroubled, Stamping, FilesIn, Either
<1>3. \A p \in Line : Held(p)' = Held(p)
  BY <1>1, <1>2, FilesAssumption DEF Held
<1>4. \A p \in Places : Headed(store[p])
  BY <1>1 DEF Untroubled, PlacesHeaded, Busy
<1>5. PlacesHeaded'
  BY <1>1, <1>4 DEF PlacesHeaded, Headed
<1>6. Ascending'
  BY <1>1, <1>3 DEF Untroubled, Ascending
<1>7. GaplessAtRest' /\ InPass' /\ InRotation'
  BY <1>1, <1>3, Idle DEF Untroubled, GaplessAtRest, Gapless
<1>8. Stamping'
  <2>1. Headed(Either("base", "stamped"))'
    BY <1>2, <1>4, FilesAssumption DEF Headed, Places, Previous
  <2> QED
    BY <1>1, <1>2, <2>1 DEF Stamping, FilesIn
<1> QED
  BY <1>5, <1>6, <1>7, <1>8 DEF Untroubled

LEMMA StampKeepsOrder ==
  ASSUME TypeInv, Untroubled, NEW f \in Files, Stamp(f)
  PROVE  Untroubled'
<1>1. /\ pc = "up" /\ pc' = "up" /\ upload = "stamp" /\ upload' = "stamp"
      /\ copied' = copied /\ copied = NoFile /\ NoFile # SysLog
  BY FilesAssumption DEF Stamp, TypeInv, Ready
<1>2. store \in StoreType /\ store' = [store EXCEPT !["base"][f] = Absent, !["stamped"][f] = store["base"][f]]
  BY DEF Stamp, TypeInv, TypeOK, StoreType
<1>3. /\ \A p \in Places \ {"base", "stamped"} : store'[p] = store[p]
      /\ \A g \in Files \ {f} : store'["base"][g] = store["base"][g] /\ store'["stamped"][g] = store["stamped"][g]
      /\ store'["base"][f] = Absent /\ store'["stamped"][f] = store["base"][f]
  BY <1>2 DEF StoreType, Places, Previous
<1>4. store["base"][f] # Absent
  BY DEF Stamp, FilesIn
<1>5. \A g \in Files : Either("base", "stamped")'[g] = Either("base", "stamped")[g]
  BY <1>3, <1>4 DEF Either
<1>6. \A p \in Line : Held(p)' = Held(p)
  BY <1>1, <1>3, <1>5, FilesAssumption DEF Held, Line, Places, Previous
<1>7. PlacesHeaded'
  BY <1>1, <1>3 DEF Untroubled, PlacesHeaded, Busy, Headed
<1>8. Ascending'
  BY <1>1, <1>6 DEF Untroubled, Ascending
<1>9. GaplessAtRest' /\ InPass' /\ InRotation'
  BY <1>1, <1>6, Idle DEF Untroubled, GaplessAtRest, Gapless
<1>10. Stamping'
  <2>1. Headed(Either("base", "stamped"))'
    BY <1>1, <1>5, FilesAssumption DEF Untroubled, Stamping, Headed
  <2>2. FilesIn("stamped")' \cap FilesIn("base")' = {}
    BY <1>3 DEF Untroubled, Stamping, FilesIn
  <2> QED
    BY <1>1, <2>1, <2>2 DEF Stamping
<1> QED
  BY <1>7, <1>8, <1>9, <1>10 DEF Untroubled

LEMMA UnstampKeepsOrder ==
  ASSUME TypeInv, Untroubled, Unstamp
  PROVE  Untroubled'
<1>1. /\ pc = "up" /\ pc' = "up" /\ upload = "stamp" /\ upload' \in {"move", "off"}
      /\ copied' = copied /\ copied = NoFile /\ NoFile # SysLog
  BY FilesAssumption DEF Unstamp, TypeInv, Ready
<1>2. store \in StoreType /\ store' = [store EXCEPT !["base"] = store["stamped"], !["stamped"] = Empty]
  BY DEF Unstamp, TypeInv, TypeOK, StoreType
<1>3. /\ \A p \in Places \ {"base", "stamped"} : store'[p] = store[p]
      /\ store'["base"] = store["stamped"] /\ store'["stamped"] = Empty
  BY <1>2 DEF StoreType, Places, Previous
<1>4. \A g \in Files : Either("base", "stamped")[g] = store'["base"][g]
  BY <1>3 DEF Unstamp, FilesIn, Either
<1>5. \A p \in Line : Held(p)' = Held(p)
  BY <1>1, <1>3, <1>4, FilesAssumption DEF Held, Line, Places, Previous
<1>6. PlacesHeaded'
  <2>1. Headed(store["base"])'
    BY <1>1, <1>4, FilesAssumption DEF Untroubled, Stamping, Headed
  <2>2. Headed(store["stamped"])'
    BY <1>3, FilesAssumption DEF Headed, Empty, Absent
  <2>3. \A p \in Places \ {"base", "stamped"} : Busy(p) => upload = "move" \/ pc = "move"
    BY DEF Busy
  <2>4. \A p \in Places \ {"base", "stamped"} : Headed(store[p])'
    BY <1>1, <1>3, <2>3 DEF Untroubled, PlacesHeaded, Headed
  <2> QED
    BY <2>1, <2>2, <2>4 DEF PlacesHeaded
<1>7. Ascending'
  BY <1>1, <1>5 DEF Untroubled, Ascending
<1>8. GaplessAtRest' /\ InPass' /\ InRotation'
  BY <1>1, <1>5, Idle DEF Untroubled, GaplessAtRest, Gapless
<1>9. Stamping'
  BY <1>1, <1>3 DEF Stamping, FilesIn, Empty
<1> QED
  BY <1>6, <1>7, <1>8, <1>9 DEF Untroubled

LEMMA TakeKeepsOrder ==
  ASSUME TypeInv, Untroubled, NEW p \in Previous, NEW f \in Files, Take(p, f)
  PROVE  Untroubled'
<1>1. pc = "up" /\ pc' = "up" /\ upload = "move" /\ upload' = "move"
  BY DEF Take, TypeInv, Ready
<1>2. store' = [store EXCEPT ![p][f] = Absent] /\ store \in StoreType
  BY DEF Take, TypeInv, TypeOK, StoreType
<1>3. store'["log"] = store["log"] /\ FilesIn("stamped")' = {}
  BY <1>1, <1>2 DEF Untroubled, Stamping, FilesIn, StoreType, Places, Previous
<1>4. PlacesHeaded'
  BY <1>1, <1>3 DEF Untroubled, PlacesHeaded, Busy, Headed, Places, Previous
<1>5. Ascending' /\ GaplessAtRest' /\ InPass' /\ InRotation'
  BY <1>1, Idle DEF Ascending
<1>6. Stamping'
  BY <1>1, <1>3 DEF Stamping
<1> QED
  BY <1>4, <1>5, <1>6 DEF Untroubled

LEMMA UploadEndsKeepsOrder ==
  ASSUME TypeInv, Untroubled, UploadEnds
  PROVE  Untroubled'
<1>1. pc = "up" /\ pc' = "up" /\ upload = "move" /\ upload' = "off"
  BY DEF UploadEnds, TypeInv, Ready
<1>2. \A p \in Places : store'[p] = IF p \in Previous THEN Empty ELSE store[p]
  BY DEF UploadEnds
<1>3. SysLog \in Files /\ "log" \notin Previous
  BY FilesAssumption DEF Previous
<1>4. \A p \in Line \ {"log"} : Held(p)' = Absent
  BY <1>1, <1>2, <1>3 DEF Held, Line, Places, Previous, Empty
<1>5. PlacesHeaded'
  <2>1. Headed(Empty)
    BY <1>3 DEF Headed, Empty, Absent
  <2>2. Headed(store["log"])
    BY <1>1, <1>3 DEF Untroubled, PlacesHeaded, Busy, Places
  <2> QED
    BY <1>2, <2>1, <2>2 DEF PlacesHeaded, Headed, Places, Previous, Empty
<1>6. Ascending'
  BY <1>4 DEF Ascending, Line, Rank
<1>7. GaplessAtRest' /\ InPass' /\ InRotation'
  BY <1>1, <1>4, Idle DEF GaplessAtRest, Gapless
<1>8. Stamping'
  BY <1>1, <1>2 DEF Stamping, FilesIn, Empty, Places, Previous
<1> QED
  BY <1>5, <1>6, <1>7, <1>8 DEF Untroubled

LEMMA LogKeepsOrder ==
  ASSUME TypeInv, Untroubled, Log
  PROVE  Untroubled'
<1>1. pc = "up" /\ pc' = "up" /\ upload' = upload /\ logged' = logged + 1 /\ copied' = copied
  BY DEF Log
<1>2. logged \in Nat /\ \A p \in Places, g \in Files :
        store[p][g] \in Int /\ Absent <= store[p][g] /\ store[p][g] <= logged
  BY StoreValues DEF TypeInv
<1>3. PICK S \in SUBSET Files :
        /\ SysLog \in S
        /\ store' = [store EXCEPT !["log"] = [f \in Files |-> IF f \in S THEN logged' ELSE store["log"][f]]]
  BY DEF Log
<1>4. store \in StoreType /\ SysLog \in Files
  BY FilesAssumption DEF TypeInv, TypeOK, StoreType
<1>5. /\ \A p \in Places \ {"log"} : store'[p] = store[p]
      /\ \A g \in Files : store'["log"][g] = IF g \in S THEN logged + 1 ELSE store["log"][g]
  BY <1>1, <1>3, <1>4 DEF StoreType, Places
<1>6. PlacesHeaded'
  <2>1. Headed(store["log"])'
    BY <1>2, <1>3, <1>4, <1>5 DEF Headed, Places
  <2> QED
    BY <1>1, <1>5, <2>1 DEF Untroubled, PlacesHeaded, Busy, Headed
<1>7. \A p \in Line \ {"log"} : Held(p)' = Held(p) /\ Held(p) \in Int /\ Held(p) <= logged
  BY <1>1, <1>2, <1>4, <1>5 DEF Held, Either, Line, Places, Previous
<1>8. Held("log")' = logged + 1 /\ copied = NoFile /\ NoFile # SysLog
  BY <1>1, <1>3, <1>4, <1>5, FilesAssumption DEF Held, TypeInv, Ready
<1>9. Ascending'
  <2>1. \A p \in Line : Rank[p] \in 1 .. 5 /\ (p # "log" => Rank[p] < Rank["log"])
    BY DEF Line, Rank
  <2>2. upload # "move" => \A p, q \in Line :
          (Rank[p] < Rank[q] /\ Held(p) # Absent /\ Held(q) # Absent) => Held(p) < Held(q)
    BY <1>8 DEF Untroubled, Ascending
  <2> QED
    BY <1>1, <1>2, <1>7, <1>8, <2>1, <2>2 DEF Ascending, Line
<1>10. GaplessAtRest' /\ InPass' /\ InRotation'
  BY <1>1, <1>7, Idle DEF Untroubled, GaplessAtRest, Gapless
<1>11. Stamping'
  BY <1>1, <1>5 DEF Untroubled, Stamping, FilesIn, Either, Headed, Places, Previous
<1> QED
  BY <1>6, <1>9, <1>10, <1>11 DEF Untroubled

LEMMA CleaningFindsNothing ==
  ASSUME TypeInv, LogLeaves, CleanLogPath
  PROVE  store' = store
<1>1. FilesIn("log") = {}
  BY DEF CleanLogPath, LogLeaves
<1>2. store \in StoreType
  BY DEF TypeInv, TypeOK, StoreType
<1>3. store["log"] = Empty
  BY <1>1, <1>2 DEF FilesIn, Empty, StoreType, Places
<1>4. [store EXCEPT !["log"] = Empty] = store
  BY <1>2, <1>3 DEF StoreType
<1> QED
  BY <1>4 DEF CleanLogPath

LEMMA RebootFindsNothing ==
  ASSUME TypeInv, Untroubled, Reboot, Only({})'
  PROVE  pc # "move" /\ upload = "off" /\ store' = store
<1>1. pc # "move" /\ upload = "off"
  <2>1. (IF pc = "move" THEN {"backup"} ELSE {}) \cup (IF upload # "off" THEN {"upload"} ELSE {}) = {}
    BY NothingGoes DEF Reboot, Troubles, TypeInv
  <2> QED
    BY <2>1
<1>2. store \in StoreType
  BY DEF TypeInv, TypeOK, StoreType
<1>3. store["stamped"] = Empty
  BY <1>1, <1>2 DEF Untroubled, Stamping, FilesIn, Empty, StoreType, Places, Previous
<1>4. [store EXCEPT !["stamped"] = Empty] = store
  BY <1>2, <1>3 DEF StoreType
<1> QED
  BY <1>1, <1>4 DEF Reboot

LEMMA StepOrder == TypeInv /\ AssembledInv /\ OrderInv /\ [Next]_vars => OrderInv'
<1> SUFFICES ASSUME TypeInv, AssembledInv, OrderInv, [Next]_vars, Only({})'
             PROVE  Untroubled'
  BY DEF OrderInv
<1>0. Untroubled /\ LogLeaves
  BY StaysCalm DEF OrderInv, AssembledInv, Only, Troubles
<1>1. CASE GiveUp /\ UNCHANGED special
  <2>1. copied = NoFile
    BY <1>1 DEF GiveUp, TypeInv, Ready
  <2> QED
    BY <1>1, <1>0, <2>1, RestStep DEF GiveUp
<1>2. CASE Start /\ UNCHANGED special
  BY <1>2, <1>0, StartKeepsOrder
<1>3. ASSUME NEW f \in Files, CopyFile(f) /\ UNCHANGED special PROVE Untroubled'
  BY <1>3, <1>0, CopyKeepsOrder
<1>4. ASSUME NEW f \in Files, CopyFails(f) /\ UNCHANGED special PROVE Untroubled'
  <2>1. {"disk"} = {}
    BY <1>4, NothingGoes DEF CopyFails, Troubles, TypeInv
  <2> QED
    BY <2>1
<1>5. CASE RemoveSource /\ UNCHANGED special
  BY <1>5, <1>0, RemoveKeepsOrder
<1>6. CASE NextPass /\ UNCHANGED special
  BY <1>6, <1>0, NextPassKeepsOrder
<1>7. CASE CleanLogPath /\ UNCHANGED special
  <2>1. copied = NoFile
    BY <1>7 DEF CleanLogPath, TypeInv, Ready
  <2>2. store' = store
    BY <1>7, <1>0, CleaningFindsNothing DEF LogLeaves
  <2> QED
    BY <1>7, <1>0, <2>1, <2>2, RestStep DEF CleanLogPath
<1>8. CASE LoadSpecials
  <2>1. copied = NoFile
    BY <1>8 DEF LoadSpecials, TypeInv, Ready
  <2> QED
    BY <1>8, <1>0, <2>1, RestStep DEF LoadSpecials
<1>9. ASSUME NEW e \in Specials, ExecuteEntry(e) PROVE Untroubled'
  <2>1. copied = NoFile
    BY <1>9 DEF ExecuteEntry, TypeInv, Ready
  <2> QED
    BY <1>9, <1>0, <2>1, RestStep DEF ExecuteEntry
<1>10. CASE CommonOperations
  <2>1. copied = NoFile
    BY <1>10 DEF CommonOperations, TypeInv, Ready
  <2> QED
    BY <1>10, <1>0, <2>1, RestStep DEF CommonOperations
<1>11. CASE UploadStarts /\ UNCHANGED special
  BY <1>11, <1>0, UploadStartsKeepsOrder
<1>12. ASSUME NEW f \in Files, Stamp(f) /\ UNCHANGED special PROVE Untroubled'
  BY <1>12, <1>0, StampKeepsOrder
<1>13. CASE Unstamp /\ UNCHANGED special
  BY <1>13, <1>0, UnstampKeepsOrder
<1>14. ASSUME NEW p \in Previous, NEW f \in Files, Take(p, f) /\ UNCHANGED special PROVE Untroubled'
  BY <1>14, <1>0, TakeKeepsOrder
<1>15. CASE UploadEnds /\ UNCHANGED special
  BY <1>15, <1>0, UploadEndsKeepsOrder
<1>16. CASE Log /\ UNCHANGED special
  BY <1>16, <1>0, LogKeepsOrder
<1>17. CASE Reboot
  <2>1. pc # "move" /\ store' = store /\ upload = "off"
    BY <1>17, <1>0, RebootFindsNothing
  <2> QED
    BY <1>17, <1>0, <2>1, RestStep DEF Reboot
<1>18. CASE UNCHANGED vars
  <2>1. /\ logged' = logged /\ pc' = pc /\ todo' = todo /\ left' = left /\ copied' = copied
        /\ store' = store /\ upload' = upload
    BY <1>18 DEF vars
  <2>2. PlacesHeaded' /\ Stamping'
    BY <1>0, <2>1 DEF Untroubled, PlacesHeaded, Busy, Headed, Stamping, FilesIn, Either, Source, Dest
  <2>3. Ascending' /\ GaplessAtRest'
    BY <1>0, <2>1 DEF Untroubled, Ascending, Held, Either, GaplessAtRest, Gapless, Source, Dest
  <2>4. InPass'
    BY <1>0, <2>1 DEF Untroubled, InPass, FilesIn, Headed, Either, OldEnough, Source, Dest
  <2>5. InRotation'
    BY <1>0, <2>1 DEF Untroubled, InRotation, Gapless, Held, InUse, Either, Source, Dest
  <2> QED
    BY <2>2, <2>3, <2>4, <2>5 DEF Untroubled
<1> QED
  BY <1>1, <1>2, <1>3, <1>4, <1>5, <1>6, <1>7, <1>8, <1>9, <1>10, <1>11, <1>12, <1>13, <1>14, <1>15, <1>16, <1>17, <1>18
     DEF Next, Backup, BackupSteps, SpecialSteps, Upload

LEMMA InitOrder == Init => OrderInv
<1> SUFFICES ASSUME Init PROVE Untroubled
  BY DEF OrderInv
<1>1. /\ pc = "boot" /\ upload = "off" /\ \A p \in Places, f \in Files : store[p][f] = Absent
      /\ \A p \in Line : p \in Places /\ Held(p) = Absent
  BY FilesAssumption DEF Init, Empty, Held, Line, Places, Previous
<1> QED
  BY <1>1, FilesAssumption DEF Untroubled, PlacesHeaded, Headed, Ascending, GaplessAtRest, Gapless, InPass,
     InRotation, Stamping, FilesIn, Places, Previous, Absent

BackupInv == TypeInv /\ AssembledInv /\ OrderInv

LEMMA BackupInductive ==
  /\ Init => BackupInv
  /\ BackupInv /\ [Next]_vars => BackupInv'
  BY InitTypes, InitAssembled, InitOrder, TypesInductive, AssembledInductive, StepOrder DEF BackupInv

\* Whatever boots, backups and uploads there were, as long as nothing went wrong the generations
\* in use are the first ones, and each is newer than the one before it.
THEOREM GenerationsStayInOrder == Spec => []GenerationsInOrder
<1>1. BackupInv => GenerationsInOrder
  <2> SUFFICES ASSUME TypeInv, Untroubled, pc = "up", upload = "off",
                      NEW i \in 1 .. Len(Generations), NEW j \in 1 .. Len(Generations),
                      i < j, InUse(Generations[j])
               PROVE  /\ InUse(Generations[i])
                      /\ store[Generations[i]][SysLog] < store[Generations[j]][SysLog]
    BY DEF BackupInv, OrderInv, GenerationsInOrder
  <2>1. \A k \in 1 .. Len(Generations) : Generations[k] \in Line \ {"log"} /\ Rank[Generations[k]] = k
    BY DEF Generations, Line, Rank
  <2>2. copied # SysLog
    BY FilesAssumption DEF TypeInv, Ready
  <2>3. \A p \in Line : Held(p) = store[p][SysLog]
    BY DEF Held
  <2>4. \A p, q \in Line \ {"log"} : (Rank[p] < Rank[q] /\ Held(q) # Absent) => Held(p) # Absent
    BY DEF Untroubled, GaplessAtRest, Gapless
  <2>5. \A p, q \in Line : (Rank[p] < Rank[q] /\ Held(p) # Absent /\ Held(q) # Absent) => Held(p) < Held(q)
    BY <2>2 DEF Untroubled, Ascending
  <2> QED
    BY <2>1, <2>3, <2>4, <2>5 DEF InUse
<1> QED
  BY <1>1, BackupInductive, PTL DEF Spec

-----------------------------------------------------------------------------
(* What a step keeps while nothing goes wrong: all but what is old enough. *)

Kept == \A p \in Places, f \in Files : store[p][f] \in Alive(f)' \cup Taken(f) \/ OldEnough(store[p][f])

LEMMA NothingMoves == store' = store => Kept
  BY DEF Kept, Alive

LEMMA StepKeeps ==
  ASSUME BackupInv, [Next]_vars, Only({})'
  PROVE  logged' = logged => Kept
<1> SUFFICES ASSUME TypeInv PROVE logged' = logged => Kept
  BY DEF BackupInv
<1>0. Untroubled /\ LogLeaves
  BY StaysCalm DEF BackupInv, OrderInv, AssembledInv, Only, Troubles
<1>b. store \in StoreType
  BY DEF TypeInv, TypeOK, StoreType
<1>1. CASE GiveUp /\ UNCHANGED special
  <2>1. store' = store
    BY <1>1 DEF GiveUp
  <2> QED
    BY <2>1, NothingMoves
<1>2. CASE Start /\ UNCHANGED special
  <2>1. store' = store
    BY <1>2 DEF Start
  <2> QED
    BY <2>1, NothingMoves
<1>3. ASSUME NEW f \in Files, CopyFile(f) /\ UNCHANGED special PROVE logged' = logged => Kept
  <2>1. pc = "move" /\ f \in left /\ logged' = logged
    BY <1>3 DEF CopyFile
  <2>2. Dest # Own => OldEnough(store[Dest][f])
    BY <1>0, <2>1 DEF Untroubled, InPass
  <2>3. \A p \in Places, g \in Files : (p = Dest /\ g = f) \/ store'[p][g] = store[p][g]
    BY <1>3, <1>b DEF CopyFile, Write, StoreType
  <2>4. Own \notin Places
    BY DEF Own, Places, Previous
  <2> QED
    BY <2>2, <2>3, <2>4 DEF Kept, Alive
<1>4. ASSUME NEW f \in Files, CopyFails(f) /\ UNCHANGED special PROVE logged' = logged => Kept
  <2>1. {"disk"} = {}
    BY <1>4, NothingGoes DEF CopyFails, Troubles, TypeInv
  <2> QED
    BY <2>1
<1>5. CASE RemoveSource /\ UNCHANGED special
  <2>1. /\ pc = "move" /\ copied # NoFile /\ copied' = NoFile /\ copied \in Files
        /\ store' = [store EXCEPT ![Source][copied] = Absent]
    BY <1>5, NothingGoes DEF RemoveSource, Troubles, TypeInv, TypeOK, Ready
  <2>2. /\ Source \in Places /\ Source # Dest /\ (Dest = Own => Source = "log")
        /\ (Dest # Own => Dest \in Places)
    <3>1. todo \in LastPasses \cup Rotations
      BY <2>1 DEF TypeInv, Ready
    <3>2. Dest = Own => Source = "log"
      BY <3>1, PassKinds DEF Source, Dest, Own
    <3> QED
      BY <3>1, <3>2, PassEnds DEF Places
  <2>3. \A p \in Places, g \in Files : (p = Source /\ g = copied) \/ store'[p][g] = store[p][g]
    BY <1>b, <2>1 DEF StoreType
  <2>4. CASE Dest = Own
    <3>1. store[Source][copied] \in Taken(copied)
      BY <2>1, <2>2, <2>4 DEF Taken
    <3> QED
      BY <2>3, <3>1 DEF Kept, Alive
  <2>5. CASE Dest # Own
    <3>1. store[Source][copied] = store'[Dest][copied]
      BY <1>0, <2>1, <2>2, <2>3, <2>5 DEF Untroubled, InPass
    <3> QED
      BY <2>2, <2>3, <2>5, <3>1 DEF Kept, Alive
  <2> QED
    BY <2>4, <2>5
<1>6. CASE NextPass /\ UNCHANGED special
  <2>1. store' = store
    BY <1>6 DEF NextPass
  <2> QED
    BY <2>1, NothingMoves
<1>7. CASE CleanLogPath /\ UNCHANGED special
  <2>1. store' = store
    BY <1>7, <1>0, CleaningFindsNothing DEF LogLeaves
  <2> QED
    BY <2>1, NothingMoves
<1>8. CASE LoadSpecials
  <2>1. store' = store
    BY <1>8 DEF LoadSpecials
  <2> QED
    BY <2>1, NothingMoves
<1>9. ASSUME NEW e \in Specials, ExecuteEntry(e) PROVE logged' = logged => Kept
  <2>1. store' = store
    BY <1>9 DEF ExecuteEntry
  <2> QED
    BY <2>1, NothingMoves
<1>10. CASE CommonOperations
  <2>1. store' = store
    BY <1>10 DEF CommonOperations
  <2> QED
    BY <2>1, NothingMoves
<1>11. CASE UploadStarts /\ UNCHANGED special
  <2>1. store' = store
    BY <1>11 DEF UploadStarts
  <2> QED
    BY <2>1, NothingMoves
<1>12. ASSUME NEW f \in Files, Stamp(f) /\ UNCHANGED special PROVE logged' = logged => Kept
  <2>1. store' = [store EXCEPT !["base"][f] = Absent, !["stamped"][f] = store["base"][f]]
    BY <1>12 DEF Stamp
  <2>2. /\ \A p \in Places, g \in Files : (p \in {"base", "stamped"} /\ g = f) \/ store'[p][g] = store[p][g]
        /\ store'["stamped"][f] = store["base"][f]
    BY <1>b, <2>1 DEF StoreType, Places, Previous
  <2>3. store["stamped"][f] = Absent
    BY <1>12, <1>0 DEF Stamp, Untroubled, Stamping, FilesIn
  <2> QED
    BY <2>2, <2>3 DEF Kept, Alive, OldEnough, Places, Previous
<1>13. CASE Unstamp /\ UNCHANGED special
  <2>1. store' = [store EXCEPT !["base"] = store["stamped"], !["stamped"] = Empty]
    BY <1>13 DEF Unstamp
  <2>2. /\ \A p \in Places \ {"base", "stamped"} : store'[p] = store[p]
        /\ store'["base"] = store["stamped"]
    BY <1>b, <2>1 DEF StoreType, Places, Previous
  <2>3. \A g \in Files : store["base"][g] = Absent
    BY <1>13 DEF Unstamp, FilesIn
  <2> QED
    BY <2>2, <2>3 DEF Kept, Alive, OldEnough, Places, Previous
<1>14. ASSUME NEW p \in Previous, NEW f \in Files, Take(p, f) /\ UNCHANGED special PROVE logged' = logged => Kept
  <2>1. store' = [store EXCEPT ![p][f] = Absent] /\ upload = "move" /\ upload' = "move"
    BY <1>14 DEF Take
  <2>2. p \in Places /\ p # "log"
    BY DEF Places, Previous
  <2>3. \A q \in Places, g \in Files : (q = p /\ g = f) \/ store'[q][g] = store[q][g]
    BY <1>b, <2>1 DEF StoreType
  <2>4. store[p][f] \in Taken(f)
    BY <2>1, <2>2 DEF Taken
  <2> QED
    BY <2>3, <2>4 DEF Kept, Alive
<1>15. CASE UploadEnds /\ UNCHANGED special
  <2>1. \A p \in Previous : FilesIn(p) = {}
    <3>1. (IF \E p \in Previous : FilesIn(p) # {} THEN {"disk"} ELSE {}) = {}
      BY <1>15, NothingGoes DEF UploadEnds, Troubles, TypeInv
    <3> QED
      BY <3>1
  <2>2. \A p \in Previous, g \in Files : store[p][g] = Absent
    BY <2>1 DEF FilesIn
  <2>3. \A p \in Places \ Previous : store'[p] = store[p]
    BY <1>15 DEF UploadEnds
  <2> QED
    BY <2>2, <2>3 DEF Kept, Alive, OldEnough
<1>16. CASE Log /\ UNCHANGED special
  BY <1>16 DEF Log, TypeInv, TypeOK
<1>17. CASE Reboot
  <2>1. store' = store
    BY <1>17, <1>0, RebootFindsNothing
  <2> QED
    BY <2>1, NothingMoves
<1>18. CASE UNCHANGED vars
  <2>1. store' = store
    BY <1>18 DEF vars
  <2> QED
    BY <2>1, NothingMoves
<1> QED
  BY <1>1, <1>2, <1>3, <1>4, <1>5, <1>6, <1>7, <1>8, <1>9, <1>10, <1>11, <1>12, <1>13, <1>14, <1>15, <1>16, <1>17, <1>18
     DEF Next, Backup, BackupSteps, SpecialSteps, Upload

\* While nothing goes wrong, only a boot that three newer ones have followed is given up: no
\* step of a backup or of an upload makes away with the lines of a newer one.
THEOREM NewBootsAreKept == Spec => KeepsNewBoots
<1>1. BackupInv /\ [Next]_vars =>
        [Only({})' => \A b \in 1 .. logged : Loses(b) => b + 3 <= logged]_vars
  <2> SUFFICES ASSUME BackupInv, [Next]_vars, Only({})', NEW b \in 1 .. logged, Loses(b)
               PROVE  b + 3 <= logged
    OBVIOUS
  <2>1. Kept
    BY StepKeeps DEF Loses
  <2>2. PICK f \in Files : b \in Alive(f) \ (Alive(f)' \cup Taken(f))
    BY DEF Loses
  <2>3. PICK p \in Places : store[p][f] = b
    BY <2>2 DEF Alive
  <2>4. OldEnough(b)
    BY <2>1, <2>2, <2>3 DEF Kept
  <2>5. logged \in Nat
    BY FilesAssumption DEF BackupInv, TypeInv, TypeOK
  <2> QED
    BY <2>4, <2>5 DEF OldEnough, Absent
<1> QED
  BY <1>1, BackupInductive, PTL DEF Spec, KeepsNewBoots

-----------------------------------------------------------------------------
(* The last boot that has logged, with at most one power failure.          *)

LEMMA StaysTame ==
  ASSUME TypeInv, [Next]_vars, Tame'
  PROVE  Tame
<1>1. UNCHANGED trouble \/ \E wrong \in SUBSET Troubles : Goes(wrong)
  BY DEF Next, Backup, BackupSteps, SpecialSteps, Upload, GiveUp, Start, NextPass, RemoveSource,
     CleanLogPath, CopyFile, CopyFails, LoadSpecials, ExecuteEntry, CommonOperations,
     UploadStarts, Stamp, Unstamp, Take, UploadEnds, Log, Reboot, Troubles, vars
<1>2. CASE UNCHANGED trouble
  BY <1>2 DEF Tame, Only
<1>3. ASSUME NEW wrong \in SUBSET Troubles, Goes(wrong) PROVE Tame
  <2>1. \A t \in Troubles : trouble[t] \in Nat /\ trouble'[t] = IF t \in wrong THEN trouble[t] + 1 ELSE trouble[t]
    BY <1>3, FilesAssumption DEF TypeInv, TypeOK, Goes
  <2> QED
    BY <2>1 DEF Tame, Only, Troubles
<1> QED
  BY <1>1, <1>2, <1>3

LEMMA TameGoes ==
  ASSUME TypeInv, NEW wrong \in SUBSET Troubles, Goes(wrong), Tame'
  PROVE  wrong \subseteq {"backup"} /\ (wrong # {} => Only({}))
<1>1. \A t \in Troubles : trouble[t] \in Nat /\ trouble'[t] = IF t \in wrong THEN trouble[t] + 1 ELSE trouble[t]
  BY FilesAssumption DEF TypeInv, TypeOK, Goes
<1>2. \A t \in Troubles \ {"backup"} : t \notin wrong /\ trouble[t] = 0
  BY <1>1 DEF Tame, Only
<1>3. "backup" \in wrong => trouble["backup"] = 0
  BY <1>1 DEF Tame, Troubles
<1> QED
  BY <1>2, <1>3 DEF Only

LEMMA RestStaysFine ==
  ASSUME TypeInv, Fine, pc # "move", pc' # "move", store' = store, upload' = upload,
         logged' = logged, hdd' = hdd
  PROVE  Fine'
<1>1. \A p \in Line : Held(p)' = Held(p) /\ Newest(p)' = Newest(p) /\ InUse(p)' = InUse(p)
  BY DEF Held, Newest, InUse, Either
<1>2. Fresh' /\ Moving' /\ Stamped'
  BY DEF Fine, Fresh, Moving, Stamped, FilesIn
<1>3. ~hdd => Based'
  BY <1>1 DEF Fine, Based, Gens, Line
<1>4. ~hdd => Unthreatened'
  BY <1>1 DEF Fine, Unthreatened, UnthreatenedAtRest, Gens, Line
<1> QED
  BY <1>2, <1>3, <1>4 DEF Fine

LEMMA CopyStaysFine ==
  ASSUME TypeInv, Fine, NEW f \in Files, CopyFile(f)
  PROVE  Fine'
<1>1. /\ pc = "move" /\ pc' = "move" /\ todo' = todo /\ upload' = upload /\ logged' = logged /\ hdd' = hdd
      /\ copied = NoFile /\ copied' = f /\ f \in left /\ left' = left \ {f} /\ upload = "off"
  BY DEF CopyFile, TypeInv, Ready
<1>2. /\ Source \in Places /\ Source # "stamped" /\ Dest \in Previous \cup {Own} /\ Source # Dest
      /\ Dest # "stamped" /\ Dest # "log" /\ Source' = Source /\ Dest' = Dest
      /\ todo \in LastPasses \cup Rotations /\ (todo \in LastPasses <=> Source = "log")
  BY <1>1, PassEnds DEF TypeInv, Ready, Source, Dest
<1>3. \A p \in Places, g \in Files :
        store'[p][g] = IF p = Dest /\ g = f THEN store[Source][f] ELSE store[p][g]
  BY <1>2 DEF CopyFile, Write, TypeInv, TypeOK, Own, Places, Previous
<1>4. \A p \in Places \ {Dest} : store'[p] = store[p]
  BY <1>1, <1>2, WriteElsewhere DEF CopyFile
<1>5. store[Source][f] # Absent /\ NoFile # SysLog /\ NoFile \notin Files
  BY <1>1, FilesAssumption DEF Fine, Moving, FilesIn
<1>6. Fresh'
  <2>1. "log" \in Places /\ store'["log"] = store["log"]
    BY <1>2, <1>4 DEF Places
  <2> QED
    BY <1>1, <1>2, <1>3, <1>5, <2>1 DEF Fine, Fresh
<1>7. Moving'
  <2>1. FilesIn(Source)' = left' \cup ({copied'} \ {NoFile})
    BY <1>1, <1>2, <1>4, <1>5 DEF Fine, Moving, FilesIn
  <2>2. ASSUME Dest # Own
        PROVE  /\ store'[Dest][copied'] = store'[Source][copied']
               /\ \A g \in left' : store'[Dest][g] = logged => store'[Source][g] = logged
    <3>1. left \subseteq Files /\ Dest \in Places
      BY <1>2, <2>2 DEF TypeInv, TypeOK, Places
    <3>2. store'[Dest][copied'] = store'[Source][copied']
      BY <1>1, <1>2, <1>3, <3>1
    <3>3. \A g \in left' : g \in left /\ store'[Dest][g] = store[Dest][g] /\ store'[Source][g] = store[Source][g]
      BY <1>1, <1>2, <1>3, <3>1
    <3> QED
      BY <1>1, <2>2, <3>2, <3>3 DEF Fine, Moving
  <2> QED
    BY <1>1, <1>2, <2>1, <2>2 DEF Moving
<1>8. Stamped'
  <2>1. store'["stamped"] = store["stamped"] /\ FilesIn("stamped") = {}
    BY <1>1, <1>2, <1>4 DEF Fine, Stamped, Places, Previous
  <2> QED
    BY <1>1, <2>1 DEF Stamped, FilesIn
<1>9. ASSUME ~hdd PROVE Based' /\ Unthreatened'
  <2>1. Dest \in Gens /\ Based /\ Unthreatened
    BY <1>1, <1>2, <1>9 DEF Fine, Based, Gens, Line, Previous
  <2>2. \A p \in Line : InUse(p)' <=> (InUse(p) \/ (p = Dest /\ f = SysLog))
    BY <1>2, <1>3, <1>5, FilesAssumption DEF InUse, Line, Places, Previous
  <2>3. \A p \in Line \ {Dest} : Newest(p)' = Newest(p)
    BY <1>1, <1>4 DEF Newest, Line, Places, Previous
  <2>4. \A p \in Line : Newest(p)' => Newest(p) \/ (p = Dest /\ store[Source][f] = logged)
    <3>1. \A p \in Line : Newest(p)' <=> \E g \in Files : logged = store'[p][g]
      BY <1>1, <1>2 DEF Newest
    <3>2. \A p \in Line : Newest(p) <=> \E g \in Files : logged = store[p][g]
      BY <1>1 DEF Newest
    <3> QED
      BY <1>3, <3>1, <3>2 DEF Line, Places, Previous
  <2>5. Source = "log" /\ f = SysLog => InUse("log")
    BY <1>5 DEF InUse
  <2>6. Based'
    BY <1>1, <1>2, <2>1, <2>2 DEF Based, Gens, Line
  <2>7. CASE todo \in LastPasses
    <3>1. todo \notin Rotations /\ Source = "log"
      BY <1>2, <2>7, PassKinds
    <3>2. ASSUME \A p \in Gens \ {Dest} : InUse(p)', InUse(Dest)' \/ InUse("log")'
          PROVE  ~Newest("base")'
      <4>1. \A p \in Gens \ {Dest} : InUse(p)
        BY <2>2, <3>2 DEF Gens
      <4>2. Dest # "base"
        BY <1>1, <2>1, <2>7, <4>1 DEF Based, Gens, Line
      <4>3. InUse(Dest) \/ InUse("log")
        BY <2>1, <2>2, <2>5, <3>1, <3>2, <1>2 DEF Gens, Line
      <4> QED
        BY <1>1, <2>1, <2>3, <2>7, <4>1, <4>2, <4>3 DEF Unthreatened, Line
    <3> QED
      BY <1>1, <1>2, <2>6, <3>1, <3>2 DEF Unthreatened, UnthreatenedAtRest
  <2>8. CASE todo \in Rotations
    <3>1. todo \notin LastPasses
      BY <2>8, PassKinds
    <3>2. ASSUME InUse("log")' PROVE ~Newest("base")' /\ (todo = Rotate => ~Newest("bak1")')
      <4>1. InUse("log")
        BY <1>2, <2>2, <3>2 DEF Line
      <4>2. ~Newest("base") /\ (todo = Rotate => ~Newest("bak1"))
        BY <1>1, <2>1, <2>8, <4>1 DEF Unthreatened
      <4>3. todo = Rotate => Source = "bak1" /\ Dest = "base"
        BY DEF Rotate, Source, Dest
      <4>4. todo # Rotate => Dest # "base"
        <5>1. Rotation2[1] = <<"bak2", "bak1">> /\ Rotation3[1] = <<"bak3", "bak2">>
          BY DEF Rotation2, Rotation3
        <5> QED
          BY <2>8, <5>1 DEF Rotations, Dest
      <4>5. Source = "bak1" => (store[Source][f] = logged => Newest("bak1"))
        BY DEF Newest
      <4> QED
        <5>1. "base" \in Line /\ "bak1" \in Line
          BY DEF Line
        <5>2. CASE todo = Rotate
          BY <2>4, <4>2, <4>3, <4>5, <5>1, <5>2
        <5>3. CASE todo # Rotate
          BY <2>3, <4>2, <4>4, <5>1, <5>3
        <5> QED
          BY <5>2, <5>3
    <3> QED
      BY <1>1, <1>2, <2>6, <3>1, <3>2 DEF Unthreatened, UnthreatenedAtRest
  <2> QED
    BY <1>2, <2>6, <2>7, <2>8
<1> QED
  BY <1>1, <1>6, <1>7, <1>8, <1>9 DEF Fine

LEMMA RemoveStaysFine ==
  ASSUME TypeInv, Fine, RemoveSource, Tame'
  PROVE  Fine'
<1>1. /\ pc = "move" /\ pc' = "move" /\ todo' = todo /\ upload' = upload /\ logged' = logged /\ hdd' = hdd
      /\ copied # NoFile /\ copied' = NoFile /\ copied \in Files /\ left' = left /\ copied \notin left
      /\ upload = "off"
  BY DEF RemoveSource, TypeInv, TypeOK, Ready
<1>2. /\ Source \in Places /\ Source # "stamped" /\ Dest \in Previous \cup {Own} /\ Source # Dest
      /\ Source' = Source /\ Dest' = Dest /\ Source # "base"
      /\ todo \in LastPasses \cup Rotations /\ (todo \in LastPasses <=> Source = "log")
  <2>1. todo \in LastPasses \cup Rotations
    BY <1>1 DEF TypeInv, Ready
  <2>2. Source # "base"
    BY <2>1, PassKinds DEF Source
  <2> QED
    BY <1>1, <2>1, <2>2, PassEnds DEF Source, Dest
<1>3. store' = [store EXCEPT ![Source][copied] = Absent]
  <2>1. ~Goes({"disk"})
    BY TameGoes DEF Troubles
  <2> QED
    BY <2>1 DEF RemoveSource
<1>4. \A p \in Places, g \in Files :
        store'[p][g] = IF p = Source /\ g = copied THEN Absent ELSE store[p][g]
  BY <1>2, <1>3 DEF TypeInv, TypeOK
<1>5. \A p \in Places \ {Source} : store'[p] = store[p]
  BY <1>2, <1>3 DEF TypeInv, TypeOK
<1>6. logged \in Nat /\ Absent = -1
  BY StoreValues DEF TypeInv, Absent
<1>7. Fresh'
  BY <1>1, <1>4, <1>6 DEF Fine, Fresh, Places
<1>8. Moving'
  <2>1. FilesIn(Source)' = left' \cup ({copied'} \ {NoFile})
    BY <1>1, <1>2, <1>4 DEF Fine, Moving, FilesIn
  <2>2. Dest # Own => \A g \in left' : store'[Dest][g] = store[Dest][g] /\ store'[Source][g] = store[Source][g]
    BY <1>1, <1>2, <1>4 DEF TypeInv, TypeOK, Places
  <2> QED
    BY <1>1, <1>2, <2>1, <2>2 DEF Fine, Moving
<1>9. Stamped'
  <2>1. store'["stamped"] = store["stamped"] /\ FilesIn("stamped") = {}
    BY <1>1, <1>2, <1>5 DEF Fine, Stamped, Places, Previous
  <2> QED
    BY <1>1, <2>1 DEF Stamped, FilesIn
<1>10. ASSUME ~hdd PROVE Based' /\ Unthreatened'
  <2>1. \A p \in Line \ {Source} : InUse(p)' = InUse(p)
    BY <1>5 DEF InUse, Line, Places, Previous
  <2>2. InUse("log")' => InUse("log")
    BY <1>4, FilesAssumption DEF InUse, Places
  <2>3. \A p \in Line : Newest(p)' => Newest(p)
    <3>1. \A p \in Line : Newest(p)' <=> \E g \in Files : logged = store'[p][g]
      BY <1>1 DEF Newest
    <3>2. \A p \in Line : Newest(p) <=> \E g \in Files : logged = store[p][g]
      BY <1>1 DEF Newest
    <3> QED
      BY <1>4, <1>6, <3>1, <3>2 DEF Line, Places, Previous
  <2>4. Based /\ Unthreatened /\ "base" \in Line /\ "bak1" \in Line
    BY <1>10 DEF Fine, Line
  <2>5. Dest \in Gens \ {Source}
    BY <1>1, <1>2, <2>4, PassEnds DEF Based, Gens, Line, Previous
  <2>6. CASE todo \in LastPasses
    <3>1. todo \notin Rotations /\ Source = "log"
      BY <1>2, <2>6, PassKinds
    <3>2. \A p \in Gens : InUse(p)' = InUse(p)
      BY <2>1, <3>1 DEF Gens
    <3>3. Based'
      BY <1>1, <1>2, <2>4, <2>6, <3>1, <3>2 DEF Based, Gens, Line
    <3>4. Unthreatened'
      BY <1>1, <1>2, <2>2, <2>3, <2>4, <2>5, <2>6, <3>1, <3>2 DEF Unthreatened, UnthreatenedAtRest, Gens
    <3> QED
      BY <3>3, <3>4
  <2>7. CASE todo \in Rotations
    <3>1. todo \notin LastPasses
      BY <2>7, PassKinds
    <3>2. Based'
      BY <1>1, <1>2, <2>1, <2>4, <2>7, <3>1 DEF Based
    <3>3. Unthreatened'
      BY <1>1, <1>2, <2>2, <2>3, <2>4, <2>7, <3>1 DEF Unthreatened, UnthreatenedAtRest
    <3> QED
      BY <3>2, <3>3
  <2> QED
    BY <1>2, <2>6, <2>7
<1> QED
  BY <1>1, <1>7, <1>8, <1>9, <1>10 DEF Fine

LEMMA NextPassStaysFine ==
  ASSUME TypeInv, Fine, NextPass
  PROVE  Fine'
<1>1. /\ pc = "move" /\ todo' = Tail(todo) /\ upload' = upload /\ logged' = logged /\ store' = store
      /\ copied = NoFile /\ copied' = NoFile /\ left = {} /\ NoFile # SysLog /\ hdd' = hdd
      /\ todo \in LastPasses \cup Rotations /\ upload = "off"
  BY FilesAssumption DEF NextPass, TypeInv, Ready
<1>2. /\ Source \in Places /\ Dest \in Previous \cup {Own} /\ Source # Dest
      /\ (Len(todo) = 1 <=> todo \in LastPasses) /\ (todo \in LastPasses => Source = "log")
      /\ Len(todo) \in 1 .. 4
  BY <1>1, PassEnds
<1>3. \A p : /\ Held(p) = store[p][SysLog] /\ Held(p)' = store[p][SysLog]
             /\ Newest(p)' = Newest(p) /\ InUse(p)' = InUse(p) /\ InUse(p) = (Held(p) # Absent)
  BY <1>1 DEF Held, Newest, InUse
<1>4. (\A g \in Files : store[Source][g] = Absent) /\ ~InUse(Source)
  BY <1>1, FilesAssumption DEF Fine, Moving, FilesIn, InUse
<1>5. logged \in Nat /\ Absent = -1
  BY StoreValues DEF TypeInv, Absent
<1>6. Fresh' /\ Stamped'
  BY <1>1 DEF Fine, Fresh, Stamped, FilesIn
<1>7. CASE Len(todo) > 1
  <2>1. pc' = "move" /\ left' = FilesIn(todo[2][1])
    BY <1>7 DEF NextPass
  <2>2. /\ todo \in Rotations /\ Dest' = Source /\ Source' = todo[2][1] /\ Source' \notin {Source, Dest}
        /\ Source' \in Line \ {"base"} /\ (todo' \in LastPasses => Dest' = "bak3") /\ Dest' # Own
        /\ todo' # Rotate
    <3>1. Rotate[1][1] = "bak1" /\ Source \in {"bak1", "bak2", "bak3"} /\ Dest \in {"base", "bak1", "bak2"}
      BY <1>1, <1>7, NextPassFills, PassKinds DEF Rotate, Source, Dest
    <3>2. Tail(todo)[1][1] # "bak1"
      <4>1. todo[2][1] # "bak1" /\ Tail(todo)[1] = todo[2]
        BY <1>1, <1>7, NextPassFills
      <4> QED
        BY <4>1
    <3> QED
      BY <1>1, <1>7, <3>1, <3>2, NextPassFills DEF Source, Dest, Own, Line
  <2>3. Moving'
    BY <1>1, <1>4, <1>5, <2>1, <2>2 DEF Moving, FilesIn
  <2>4. ASSUME ~hdd PROVE Based' /\ Unthreatened'
    <3>1. /\ Based /\ Unthreatened /\ InUse("base") /\ (InUse("log") => ~Newest("base"))
      BY <1>1, <2>2, <2>4 DEF Fine, Based, Unthreatened
    <3>2. Based'
      BY <1>3, <2>1, <2>2, <3>1 DEF Based
    <3>3. todo' \in LastPasses => ~InUse(Dest')
      BY <1>4, <2>2
    <3> QED
      BY <1>3, <2>1, <2>2, <3>1, <3>2, <3>3 DEF Unthreatened, UnthreatenedAtRest
  <2> QED
    BY <1>1, <1>6, <2>3, <2>4 DEF Fine
<1>8. CASE ~(Len(todo) > 1)
  <2>1. pc' = "clean" /\ todo \in LastPasses
    BY <1>2, <1>8, SMTT(30) DEF NextPass
  <2>2. Moving'
    BY <2>1 DEF Moving
  <2>3. ASSUME ~hdd PROVE Based' /\ Unthreatened'
    <3>1. Based /\ Unthreatened /\ ~InUse("log") /\ "base" \in Gens
      BY <1>2, <1>4, <2>1, <2>3 DEF Fine, Gens, Line
    <3>2. Based'
      BY <1>1, <1>3, <2>1, <3>1 DEF Based
    <3>3. Dest \in Gens
      BY <1>1, <3>1, PassEnds DEF Based, Gens, Line, Previous
    <3>4. Unthreatened'
      BY <1>1, <1>3, <2>1, <3>1, <3>3 DEF Unthreatened, UnthreatenedAtRest
    <3> QED
      BY <3>2, <3>4
  <2> QED
    BY <1>1, <1>6, <2>2, <2>3 DEF Fine
<1> QED
  BY <1>7, <1>8

LEMMA StartStaysFine ==
  ASSUME TypeInv, Fine, Start
  PROVE  Fine'
<1>1. /\ pc = "boot" /\ pc' = "move" /\ todo' = Plan /\ left' = FilesIn(Plan[1][1]) /\ upload' = upload
      /\ logged' = logged /\ store' = store /\ copied' = NoFile /\ copied = NoFile /\ NoFile # SysLog
      /\ upload = "off" /\ hdd' = hdd
  BY FilesAssumption DEF Start, TypeInv, Ready
<1>2. \A p : /\ Held(p) = store[p][SysLog] /\ Held(p)' = store[p][SysLog]
             /\ Newest(p)' = Newest(p) /\ InUse(p)' = InUse(p) /\ InUse(p) = (Held(p) # Absent)
  BY <1>1 DEF Held, Newest, InUse
<1>3. Fresh' /\ Stamped'
  BY <1>1 DEF Fine, Fresh, Stamped, FilesIn
<1>4. FilesIn(Source)' = left' /\ todo' \in LastPasses \cup Rotations
  BY <1>1, PlanIsPasses DEF FilesIn, Source
<1>5. CASE Plan \in LastPasses
  <2>1. Source' = "log" /\ todo' \notin Rotations
    BY <1>1, <1>5, PassKinds DEF Source
  <2>2. Dest' # Own => Dest' \in Places
    BY <1>4, PassEnds, <1>1, <1>5 DEF LastPasses, Dest, Places, Previous
  <2>3. Moving'
    <3>1. ASSUME Dest' # Own, NEW g \in left', store[Dest'][g] = logged PROVE store["log"][g] = logged
      BY <1>1, <1>4, <2>1, <2>2, <3>1 DEF Fine, Fresh, FilesIn
    <3> QED
      BY <1>1, <1>4, <2>1, <3>1 DEF Moving
  <2>4. ASSUME ~hdd PROVE Based' /\ Unthreatened'
    <3>1. Free # {}
      <4>1. Free = {} => Plan = Rotate
        BY <2>4 DEF Plan
      <4> QED
        BY <1>5, <4>1, PassKinds DEF Rotations
    <3>2. PICK d \in Gens : d = Generations[FirstFree]
      BY <3>1, FreeGeneration DEF Gens
    <3>3. Plan = <<<<"log", d>>>> /\ ~InUse(d) /\ \A p \in Gens : Rank[p] < Rank[d] => InUse(p)
      BY <2>4, <3>1, <3>2, FreeGeneration DEF Plan, Gens
    <3>4. Dest' = d /\ d # Own
      BY <1>1, <3>3 DEF Dest, Gens, Line, Own
    <3>5. d # "base" => InUse("base")
      BY <3>3 DEF Gens, Line, Rank
    <3>6. Based /\ Unthreatened
      BY <2>4 DEF Fine
    <3>7. Based'
      BY <1>1, <1>2, <2>1, <3>3, <3>4, <3>5, <3>6 DEF Based
    <3>8. Unthreatened'
      BY <1>1, <1>2, <2>1, <3>2, <3>3, <3>4, <3>6 DEF Unthreatened, UnthreatenedAtRest
    <3> QED
      BY <3>7, <3>8
  <2> QED
    BY <1>1, <1>3, <2>3, <2>4 DEF Fine
<1>6. CASE Plan \notin LastPasses
  <2>1. ~hdd /\ Free = {} /\ Plan = Rotate
    <3>1. hdd => Plan \in LastPasses
      BY DEF Plan, LastPasses
    <3>2. (~hdd /\ Free # {}) => Plan \in LastPasses
      <4>1. Free # {} => Generations[FirstFree] \in {"base", "bak1", "bak2", "bak3"}
        BY FreeGeneration DEF Line
      <4> QED
        BY <4>1 DEF Plan, LastPasses
    <3> QED
      BY <1>6, <3>1, <3>2 DEF Plan
  <2>2. \A p \in Gens : InUse(p) /\ Held(p) # Absent
    <3>1. \A p \in {"base", "bak1", "bak2", "bak3"} : InUse(p)
      BY <2>1 DEF Free, Generations
    <3> QED
      BY <1>2, <3>1 DEF Gens, Line
  <2>3. Source' = "bak1" /\ Dest' = "base"
    <3>1. Rotate[1] = <<"bak1", "base">>
      BY DEF Rotate
    <3> QED
      BY <1>1, <2>1, <3>1 DEF Source, Dest
  <2>4. Based /\ Unthreatened /\ ~Newest("base") /\ (InUse("log") => ~Newest("bak1"))
    BY <1>1, <2>1, <2>2 DEF Fine, Unthreatened, UnthreatenedAtRest
  <2>5. Moving'
    <3>1. \A g \in Files : store["base"][g] # logged
      BY <1>1, <2>4 DEF Newest
    <3> QED
      BY <1>1, <1>4, <2>3, <3>1 DEF Moving, FilesIn, Own
  <2>6. Based' /\ Unthreatened'
    BY <1>1, <1>2, <1>6, <2>2, <2>3, <2>4 DEF Based, Unthreatened, UnthreatenedAtRest, Own, Gens, Line
  <2> QED
    BY <1>1, <1>3, <2>5, <2>6 DEF Fine
<1> QED
  BY <1>5, <1>6

LEMMA UploadStartsStaysFine ==
  ASSUME TypeInv, Fine, UploadStarts
  PROVE  Fine'
<1>1. /\ pc = "up" /\ pc' = "up" /\ upload = "off" /\ upload' = "stamp" /\ store' = store
      /\ logged' = logged /\ hdd' = hdd
  BY DEF UploadStarts
<1>2. \A g \in Files : store["stamped"][g] = Absent /\ Either("base", "stamped")'[g] = store["base"][g]
  BY <1>1 DEF Fine, Stamped, FilesIn, Either
<1>3. \A p \in Line : Held(p)' = Held(p) /\ InUse(p)' = InUse(p)
  BY <1>1, <1>2, FilesAssumption DEF Held, InUse
<1>4. \A p \in Line : Newest(p)' <=> Newest(p)
  BY <1>1, <1>2 DEF Newest
<1>5. Fresh' /\ Moving' /\ Stamped'
  BY <1>1, <1>2 DEF Fine, Fresh, Moving, Stamped, FilesIn
<1>6. ~hdd => Based' /\ Unthreatened'
  BY <1>1, <1>3, <1>4 DEF Fine, Based, Unthreatened, UnthreatenedAtRest, Gens, Line
<1> QED
  BY <1>1, <1>5, <1>6 DEF Fine

LEMMA StampStaysFine ==
  ASSUME TypeInv, Fine, NEW f \in Files, Stamp(f)
  PROVE  Fine'
<1>1. pc = "up" /\ pc' = "up" /\ upload = "stamp" /\ upload' = "stamp" /\ logged' = logged /\ hdd' = hdd
  BY DEF Stamp, TypeInv, Ready
<1>2. store \in StoreType /\ store' = [store EXCEPT !["base"][f] = Absent, !["stamped"][f] = store["base"][f]]
  BY DEF Stamp, TypeInv, TypeOK, StoreType
<1>3. /\ \A p \in Places \ {"base", "stamped"} : store'[p] = store[p]
      /\ \A g \in Files \ {f} : store'["base"][g] = store["base"][g] /\ store'["stamped"][g] = store["stamped"][g]
      /\ store'["base"][f] = Absent /\ store'["stamped"][f] = store["base"][f]
  BY <1>2 DEF StoreType, Places, Previous
<1>4. store["base"][f] # Absent /\ logged \in Nat /\ Absent = -1
  BY StoreValues DEF Stamp, FilesIn, TypeInv, Absent
<1>5. \A g \in Files : Either("base", "stamped")'[g] = Either("base", "stamped")[g]
  BY <1>3, <1>4 DEF Either
<1>6. \A p \in Line : Held(p)' = Held(p) /\ (InUse(p)' => InUse(p))
  BY <1>1, <1>3, <1>5, FilesAssumption DEF Held, InUse, Line, Places, Previous
<1>7. \A p \in Line : Newest(p)' <=> Newest(p)
  BY <1>1, <1>3, <1>5 DEF Newest, Line, Places, Previous
<1>8. Fresh'
  BY <1>1, <1>3, <1>4 DEF Fine, Fresh, Places, Previous
<1>9. Moving' /\ Stamped'
  BY <1>1, <1>3 DEF Fine, Moving, Stamped, FilesIn
<1>10. ~hdd => Based' /\ Unthreatened'
  BY <1>1, <1>6, <1>7 DEF Fine, Based, Unthreatened, UnthreatenedAtRest, Gens, Line
<1> QED
  BY <1>1, <1>8, <1>9, <1>10 DEF Fine

LEMMA UnstampStaysFine ==
  ASSUME TypeInv, Fine, Unstamp
  PROVE  Fine'
<1>1. /\ pc = "up" /\ pc' = "up" /\ upload = "stamp" /\ upload' \in {"move", "off"}
      /\ logged' = logged /\ hdd' = hdd
  BY DEF Unstamp, TypeInv, Ready
<1>2. store \in StoreType /\ store' = [store EXCEPT !["base"] = store["stamped"], !["stamped"] = Empty]
  BY DEF Unstamp, TypeInv, TypeOK, StoreType
<1>3. /\ \A p \in Places \ {"base", "stamped"} : store'[p] = store[p]
      /\ store'["base"] = store["stamped"] /\ store'["stamped"] = Empty
  BY <1>2 DEF StoreType, Places, Previous
<1>4. \A g \in Files : Either("base", "stamped")[g] = store'["base"][g]
  BY <1>3 DEF Unstamp, FilesIn, Either
<1>5. logged \in Nat /\ Absent = -1
  BY StoreValues DEF TypeInv, Absent
<1>6. \A p \in Line : Held(p)' = Held(p)
  BY <1>1, <1>3, <1>4, FilesAssumption DEF Held, Line, Places, Previous
<1>7. \A p \in Line : Newest(p)' <=> Newest(p)
  BY <1>1, <1>3, <1>4 DEF Newest, Line, Places, Previous
<1>8. InUse("log")' = InUse("log")
  BY <1>3 DEF InUse, Places, Previous
<1>9. Fresh' /\ Moving' /\ Stamped'
  <2>1. Fresh'
    BY <1>1, <1>3, <1>5 DEF Fine, Fresh, Places, Previous, Empty
  <2> QED
    BY <1>1, <1>3, <2>1 DEF Moving, Stamped, FilesIn, Empty
<1>10. ~hdd => Based' /\ Unthreatened'
  BY <1>1, <1>6, <1>7, <1>8 DEF Fine, Based, Unthreatened, UnthreatenedAtRest, Gens, Line
<1> QED
  BY <1>1, <1>9, <1>10 DEF Fine

LEMMA TakeStaysFine ==
  ASSUME TypeInv, Fine, NEW p \in Previous, NEW f \in Files, Take(p, f)
  PROVE  Fine'
<1>1. pc = "up" /\ pc' = "up" /\ upload = "move" /\ upload' = "move" /\ logged' = logged /\ hdd' = hdd
  BY DEF Take, TypeInv, Ready
<1>2. store \in StoreType /\ store' = [store EXCEPT ![p][f] = Absent]
  BY DEF Take, TypeInv, TypeOK, StoreType
<1>3. \A q \in Places, g \in Files : store'[q][g] = Absent \/ store'[q][g] = store[q][g]
  BY <1>2 DEF StoreType
<1>4. store'["log"] = store["log"] /\ logged \in Nat /\ Absent = -1
  BY <1>2, StoreValues DEF StoreType, Places, Previous, TypeInv, Absent
<1>5. \A q \in Line : (Held(q)' # Absent => Held(q) # Absent) /\ (Newest(q)' => Newest(q))
  BY <1>1, <1>3, <1>4, FilesAssumption DEF Held, Newest, Line, Places, Previous
<1>6. Fresh' /\ Moving' /\ Stamped'
  <2>1. Fresh'
    BY <1>1, <1>3, <1>4 DEF Fine, Fresh, Places
  <2>2. FilesIn("stamped")' = {}
    BY <1>1, <1>3 DEF Fine, Stamped, FilesIn, Places, Previous
  <2> QED
    BY <1>1, <2>1, <2>2 DEF Moving, Stamped
<1>7. InUse("log")' = InUse("log")
  BY <1>4 DEF InUse
<1>8. ~hdd => Based' /\ Unthreatened'
  BY <1>1, <1>5, <1>7 DEF Fine, Based, Unthreatened, UnthreatenedAtRest, Gens, Line
<1> QED
  BY <1>1, <1>6, <1>8 DEF Fine

LEMMA UploadEndsStaysFine ==
  ASSUME TypeInv, Fine, UploadEnds
  PROVE  Fine'
<1>1. pc = "up" /\ pc' = "up" /\ upload = "move" /\ upload' = "off" /\ logged' = logged /\ hdd' = hdd
  BY DEF UploadEnds, TypeInv, Ready
<1>2. \A p \in Places : store'[p] = IF p \in Previous THEN Empty ELSE store[p]
  BY DEF UploadEnds
<1>3. SysLog \in Files /\ "log" \notin Previous /\ logged \in Nat /\ Absent = -1
  BY FilesAssumption, StoreValues DEF Previous, TypeInv, Absent
<1>4. \A p \in Gens : Held(p)' = Absent /\ ~Newest(p)'
  BY <1>1, <1>2, <1>3 DEF Held, Newest, Gens, Line, Places, Previous, Empty
<1>5. Fresh' /\ Moving' /\ Stamped'
  <2>1. Fresh'
    BY <1>1, <1>2, <1>3 DEF Fine, Fresh, Places, Empty
  <2> QED
    BY <1>1, <1>2, <2>1 DEF Moving, Stamped, FilesIn, Empty, Places, Previous
<1>6. Based' /\ Unthreatened'
  BY <1>1, <1>4 DEF Based, Unthreatened, UnthreatenedAtRest, Gens, Line
<1> QED
  BY <1>5, <1>6 DEF Fine

LEMMA LogStaysFine ==
  ASSUME TypeInv, Fine, Log
  PROVE  Fine'
<1>1. pc = "up" /\ pc' = "up" /\ upload' = upload /\ logged' = logged + 1 /\ hdd' = hdd
  BY DEF Log
<1>2. logged \in Nat /\ \A p \in Places, g \in Files :
        store[p][g] \in Int /\ Absent <= store[p][g] /\ store[p][g] <= logged
  BY StoreValues DEF TypeInv
<1>3. PICK S \in SUBSET Files :
        /\ SysLog \in S
        /\ store' = [store EXCEPT !["log"] = [f \in Files |-> IF f \in S THEN logged' ELSE store["log"][f]]]
  BY DEF Log
<1>4. store \in StoreType /\ SysLog \in Files
  BY FilesAssumption DEF TypeInv, TypeOK, StoreType
<1>5. /\ \A p \in Places \ {"log"} : store'[p] = store[p]
      /\ \A g \in Files : store'["log"][g] = IF g \in S THEN logged + 1 ELSE store["log"][g]
  BY <1>1, <1>3, <1>4 DEF StoreType, Places
<1>6. \A p \in Gens : Held(p)' = Held(p) /\ ~Newest(p)'
  BY <1>1, <1>2, <1>4, <1>5 DEF Held, Newest, Either, Gens, Line, Places, Previous
<1>7. Fresh'
  BY <1>1, <1>2, <1>5 DEF Fresh, Places
<1>8. Moving' /\ Stamped'
  BY <1>1, <1>5 DEF Fine, Moving, Stamped, FilesIn, Places, Previous
<1>9. ~hdd => Based' /\ Unthreatened'
  BY <1>1, <1>6 DEF Fine, Based, Unthreatened, UnthreatenedAtRest, Gens, Line
<1> QED
  BY <1>1, <1>7, <1>8, <1>9 DEF Fine

\* The power fails during a backup, for the first time. Until then the generations were in order.
LEMMA PowerFails ==
  ASSUME TypeInv, Untroubled, Fine, Reboot, pc = "move"
  PROVE  Fine'
<1>1. /\ pc' = "boot" /\ upload' = "off" /\ logged' = logged /\ hdd' = hdd /\ upload = "off"
      /\ todo \in LastPasses \cup Rotations
  BY DEF Reboot, TypeInv, Ready
<1>2. /\ Source \in Places /\ Source # "stamped" /\ Dest \in Previous \cup {Own} /\ Source # Dest
      /\ Dest # "stamped" /\ Dest # "log" /\ (todo \in LastPasses <=> Source = "log")
  BY <1>1, PassEnds
<1>3. /\ logged \in Nat /\ Absent = -1 /\ Torn = 0 /\ SysLog \in Files
      /\ \A p \in Places, f \in Files : store[p][f] \in Int /\ Absent <= store[p][f] /\ store[p][f] <= logged
  BY StoreValues, FilesAssumption DEF TypeInv, Absent, Torn
<1>4. store \in StoreType /\ FilesIn("stamped") = {} /\ left \subseteq Files
  BY <1>1 DEF TypeInv, TypeOK, StoreType, Untroubled, Stamping
<1>5. /\ \A p \in Places, f \in Files :
           \/ store'[p][f] = store[p][f]
           \/ p = Dest /\ f \in left /\ store'[p][f] = Torn
      /\ \A p \in Places \ {Dest} : store'[p] = store[p]
  <2>1. CASE store' = [store EXCEPT !["stamped"] = Empty]
    BY <1>4, <2>1 DEF StoreType, Empty, FilesIn, Places, Previous
  <2>2. ASSUME NEW f \in left, store' = Write(f, Torn)
        PROVE  /\ \A p \in Places, g \in Files :
                    store'[p][g] = store[p][g] \/ (p = Dest /\ g \in left /\ store'[p][g] = Torn)
               /\ \A p \in Places \ {Dest} : store'[p] = store[p]
    BY <1>4, <2>2 DEF Write, StoreType
  <2> QED
    BY <2>1, <2>2 DEF Reboot
<1>6. \A f \in left : logged # Torn
  <2>1. \A f \in left : store[Source][f] # Absent
    BY DEF Fine, Moving, FilesIn
  <2> QED
    BY <1>2, <1>3, <1>4, <2>1 DEF Fine, Fresh
<1>7. \A p \in Line : /\ p \in Places /\ Held(p) = store[p][SysLog] /\ Held(p)' = store'[p][SysLog]
                      /\ (Newest(p)' => \E f \in Files : store[p][f] = logged)
                      /\ (p # Dest => (Held(p)' # Absent <=> InUse(p)))
                      /\ (InUse(p) => Held(p)' # Absent)
                      /\ Held(p) \in Int /\ Held(p) <= logged
  BY <1>1, <1>3, <1>5, <1>6 DEF Held, Newest, InUse, Line, Places, Previous
<1>8. InUse("log")' = InUse("log")
  BY <1>2, <1>5 DEF InUse, Places
<1>9. Fresh'
  <2>1. store'["log"] = store["log"]
    BY <1>2, <1>5 DEF Places
  <2> QED
    BY <1>1, <1>5, <1>6, <2>1 DEF Fine, Fresh, Torn
<1>10. Moving' /\ Stamped'
  BY <1>1, <1>2, <1>4, <1>5 DEF Moving, Stamped, FilesIn, Places, Previous
<1>11. ASSUME ~hdd PROVE Based'
  <2>1. Based /\ "base" \in Line
    BY <1>11 DEF Fine, Line
  <2>2. CASE todo \in LastPasses
    BY <1>1, <1>7, <2>1, <2>2 DEF Based, Gens
  <2>3. CASE todo \in Rotations
    BY <1>1, <1>7, <2>1, <2>3 DEF Based, Gens
  <2> QED
    BY <1>1, <2>2, <2>3
\* Nothing comes after the last boot in the line.
<1>12. ASSUME NEW p \in Line, Held(p) = logged, NEW r \in Line, Rank[p] < Rank[r],
              ~(p = Dest /\ r = Source)
       PROVE  ~InUse(r)
  <2>1. Held(r) # Absent => Held(p) < Held(r)
    BY <1>1, <1>3, <1>12 DEF Untroubled, Ascending
  <2> QED
    BY <1>7, <1>12, <2>1 DEF InUse
<1>13. ASSUME NEW p \in Line, p \notin {Source, Dest}, Newest(p)' PROVE Held(p) = logged
  <2>1. Headed(store[p])
    BY <1>1, <1>7, <1>13 DEF Untroubled, PlacesHeaded, Busy
  <2> QED
    BY <1>3, <1>7, <1>13, <2>1 DEF Headed
<1>14. ASSUME ~hdd PROVE Unthreatened'
  <2> SUFFICES /\ (\A p \in Gens : Held(p)' # Absent) => ~Newest("base")' /\ (InUse("log") => ~Newest("bak1")')
               /\ (InUse("log") /\ \E r \in Gens : \A p \in Gens \ {r} : Held(p)' # Absent) => ~Newest("base")'
    BY <1>1, <1>8 DEF Unthreatened, UnthreatenedAtRest
  <2>1. Dest \in Gens
    BY <1>2, <1>14 DEF Fine, Based, Gens, Line, Previous
  <2>2. /\ Rank["base"] = 1 /\ Rank["bak1"] = 2 /\ Rank["bak2"] = 3 /\ Rank["bak3"] = 4 /\ Rank["log"] = 5
        /\ Gens = {"base", "bak1", "bak2", "bak3"} /\ Line = Gens \cup {"log"}
    BY DEF Rank, Gens, Line
  <2>3. CASE todo \in LastPasses
    <3>1. Source = "log" /\ Dest # "log" /\ \A p \in Gens \ {Dest} : InUse(p) <=> Rank[p] < Rank[Dest]
      BY <1>2, <1>14, <2>1, <2>3 DEF Untroubled, InRotation, Fine, Based, Gens
    <3>2. ASSUME \A p \in Gens : Held(p)' # Absent PROVE ~Newest("base")' /\ ~Newest("bak1")'
      <4>1. Dest = "bak3"
        BY <1>7, <2>1, <2>2, <3>1, <3>2
      <4>2. InUse("bak1") /\ InUse("bak2")
        BY <2>2, <3>1, <4>1
      <4> QED
        BY <1>12, <1>13, <2>2, <3>1, <4>1, <4>2
    <3>3. ASSUME InUse("log"), NEW r \in Gens, \A p \in Gens \ {r} : Held(p)' # Absent, Newest("base")'
          PROVE  FALSE
      <4>1. CASE Dest = "base"
        BY <1>7, <2>2, <3>1, <3>3, <4>1
      <4>2. CASE Dest # "base"
        BY <1>12, <1>13, <2>2, <3>1, <3>3, <4>2
      <4> QED
        BY <4>1, <4>2
    <3> QED
      BY <3>2, <3>3
  <2>4. CASE todo \in Rotations
    <3>1. /\ \A p \in Line \ {"log", Source, Dest} : InUse(p)
          /\ FilesIn(Source) = left \cup ({copied} \ {NoFile})
          /\ copied # NoFile => store[Dest][copied] = store[Source][copied]
          /\ \A f \in left : OldEnough(store[Dest][f])
          /\ Headed(Either(Source, Dest))
      BY <1>14, <2>4 DEF Untroubled, InRotation, InPass, Fine, Based
    <3>2. ASSUME NEW p \in {Source, Dest} \cap Line, Newest(p)'
          PROVE  Held(Source) = logged \/ Held(Dest) = logged
      <4>1. PICK f \in Files : store[p][f] = logged
        BY <1>7, <3>2
      <4>2. Either(Source, Dest)[f] = logged
        BY <1>3, <3>1, <3>2, <4>1 DEF Either, FilesIn, OldEnough
      <4>3. Either(Source, Dest)[SysLog] \in {store[Source][SysLog], store[Dest][SysLog]}
        BY <1>3 DEF Either
      <4>4. store[Source][SysLog] = Held(Source) /\ store[Dest][SysLog] = Held(Dest)
        BY <1>1 DEF Held
      <4> QED
        BY <1>2, <1>3, <2>1, <2>2, <3>1, <4>2, <4>3, <4>4 DEF Headed, Places, Previous
    <3>3. \/ Source = "bak1" /\ Dest = "base"
          \/ Source = "bak2" /\ Dest = "bak1"
          \/ Source = "bak3" /\ Dest = "bak2"
      <4>1. todo[1] \in {<<"bak1", "base">>, <<"bak2", "bak1">>, <<"bak3", "bak2">>}
        <5>1. Rotate[1] = <<"bak1", "base">> /\ Rotation2[1] = <<"bak2", "bak1">> /\ Rotation3[1] = <<"bak3", "bak2">>
          BY DEF Rotate, Rotation2, Rotation3
        <5> QED
          BY <2>4, <5>1, Zenon DEF Rotations
      <4> QED
        BY <4>1 DEF Source, Dest
    <3>4. CASE Source = "bak1" /\ Dest = "base"
      <4>1. InUse("bak2")
        BY <2>2, <3>1, <3>4
      <4> QED
        BY <1>12, <2>2, <3>2, <3>4, <4>1
    <3>5. CASE Source = "bak2" /\ Dest = "bak1"
      <4>1. InUse("bak3")
        BY <2>2, <3>1, <3>5
      <4> QED
        BY <1>12, <1>13, <2>2, <3>2, <3>5, <4>1
    <3>6. CASE Source = "bak3" /\ Dest = "bak2"
      <4>1. InUse("bak1")
        BY <2>2, <3>1, <3>6
      <4> QED
        BY <1>12, <1>13, <2>2, <3>6, <4>1
    <3> QED
      BY <3>3, <3>4, <3>5, <3>6
  <2> QED
    BY <1>1, <2>3, <2>4
<1> QED
  BY <1>1, <1>9, <1>10, <1>11, <1>14 DEF Fine

LEMMA RebootMovesNothing ==
  ASSUME TypeInv, Fine, Reboot, Tame', pc # "move" \/ store' = store
  PROVE  store' = store /\ (pc # "move" => upload = "off")
<1>1. CASE store' = store /\ pc = "move"
  BY <1>1
<1>2. CASE pc # "move"
  <2>1. upload = "off"
    <3>1. (IF pc = "move" THEN {"backup"} ELSE {}) \cup (IF upload # "off" THEN {"upload"} ELSE {}) \subseteq {"backup"}
      BY TameGoes DEF Reboot, Troubles
    <3> QED
      BY <3>1
  <2>2. store \in StoreType
    BY DEF TypeInv, TypeOK, StoreType
  <2>3. store["stamped"] = Empty
    BY <2>1, <2>2 DEF Fine, Stamped, FilesIn, Empty, StoreType, Places, Previous
  <2>4. [store EXCEPT !["stamped"] = Empty] = store
    BY <2>2, <2>3 DEF StoreType
  <2> QED
    BY <1>2, <2>1, <2>4 DEF Reboot
<1> QED
  BY <1>1, <1>2

LEMMA BackupFailsOnce ==
  ASSUME BackupInv, Reboot, Tame', pc = "move"
  PROVE  Untroubled
<1>1. TypeInv /\ OrderInv
  BY DEF BackupInv
<1>2. {"backup"} \cup (IF upload # "off" THEN {"upload"} ELSE {}) \in SUBSET Troubles
  BY DEF Troubles
<1>3. Goes({"backup"} \cup (IF upload # "off" THEN {"upload"} ELSE {}))
  BY DEF Reboot
<1>4. Only({})
  BY <1>1, <1>2, <1>3, TameGoes
<1> QED
  BY <1>1, <1>4 DEF OrderInv

LEMMA StepLast == BackupInv /\ LastInv /\ [Next]_vars => LastInv'
<1> SUFFICES ASSUME BackupInv, LastInv, [Next]_vars, Tame' PROVE Fine'
  BY DEF LastInv
<1>0. TypeInv /\ Fine /\ LogLeaves
  BY StaysTame DEF BackupInv, LastInv, AssembledInv, Tame, Only, Troubles
<1>1. CASE GiveUp /\ UNCHANGED special
  <2>1. store' = store /\ upload' = upload /\ logged' = logged /\ hdd' = hdd /\ pc # "move" /\ pc' # "move"
    BY <1>1 DEF GiveUp
  <2> QED
    BY <1>0, <2>1, RestStaysFine
<1>2. CASE Start /\ UNCHANGED special
  BY <1>2, <1>0, StartStaysFine
<1>3. ASSUME NEW f \in Files, CopyFile(f) /\ UNCHANGED special PROVE Fine'
  BY <1>3, <1>0, CopyStaysFine
<1>4. ASSUME NEW f \in Files, CopyFails(f) /\ UNCHANGED special PROVE Fine'
  <2>1. "disk" \notin {"backup"} /\ {"disk"} \in SUBSET Troubles
    BY DEF Troubles
  <2> QED
    BY <1>0, <1>4, <2>1, TameGoes DEF CopyFails
<1>5. CASE RemoveSource /\ UNCHANGED special
  BY <1>5, <1>0, RemoveStaysFine
<1>6. CASE NextPass /\ UNCHANGED special
  BY <1>6, <1>0, NextPassStaysFine
<1>7. CASE CleanLogPath /\ UNCHANGED special
  <2>1. store' = store
    BY <1>7, <1>0, CleaningFindsNothing
  <2>2. upload' = upload /\ logged' = logged /\ hdd' = hdd /\ pc # "move" /\ pc' # "move"
    BY <1>7 DEF CleanLogPath
  <2> QED
    BY <1>0, <2>1, <2>2, RestStaysFine
<1>8. CASE LoadSpecials
  <2>1. store' = store /\ upload' = upload /\ logged' = logged /\ hdd' = hdd /\ pc # "move" /\ pc' # "move"
    BY <1>8 DEF LoadSpecials
  <2> QED
    BY <1>0, <2>1, RestStaysFine
<1>9. ASSUME NEW e \in Specials, ExecuteEntry(e) PROVE Fine'
  <2>1. store' = store /\ upload' = upload /\ logged' = logged /\ hdd' = hdd /\ pc # "move" /\ pc' # "move"
    BY <1>9 DEF ExecuteEntry
  <2> QED
    BY <1>0, <2>1, RestStaysFine
<1>10. CASE CommonOperations
  <2>1. store' = store /\ upload' = upload /\ logged' = logged /\ hdd' = hdd /\ pc # "move" /\ pc' # "move"
    BY <1>10 DEF CommonOperations
  <2> QED
    BY <1>0, <2>1, RestStaysFine
<1>11. CASE UploadStarts /\ UNCHANGED special
  BY <1>11, <1>0, UploadStartsStaysFine
<1>12. ASSUME NEW f \in Files, Stamp(f) /\ UNCHANGED special PROVE Fine'
  BY <1>12, <1>0, StampStaysFine
<1>13. CASE Unstamp /\ UNCHANGED special
  BY <1>13, <1>0, UnstampStaysFine
<1>14. ASSUME NEW p \in Previous, NEW f \in Files, Take(p, f) /\ UNCHANGED special PROVE Fine'
  BY <1>14, <1>0, TakeStaysFine
<1>15. CASE UploadEnds /\ UNCHANGED special
  BY <1>15, <1>0, UploadEndsStaysFine
<1>16. CASE Log /\ UNCHANGED special
  BY <1>16, <1>0, LogStaysFine
<1>17. CASE Reboot
  <2>1. CASE pc = "move"
    BY <1>17, <1>0, <2>1, BackupFailsOnce, PowerFails
  <2>2. CASE pc # "move"
    <3>1. store' = store /\ upload' = upload
      BY <1>17, <1>0, <2>2, RebootMovesNothing DEF Reboot
    <3>2. logged' = logged /\ hdd' = hdd /\ pc' # "move"
      BY <1>17 DEF Reboot
    <3> QED
      BY <1>0, <2>2, <3>1, <3>2, RestStaysFine
  <2> QED
    BY <2>1, <2>2
<1>18. CASE UNCHANGED vars
  <2>1. /\ logged' = logged /\ pc' = pc /\ todo' = todo /\ left' = left /\ copied' = copied
        /\ store' = store /\ upload' = upload /\ hdd' = hdd
    BY <1>18 DEF vars
  <2>2. Source' = Source /\ Dest' = Dest
    BY <2>1 DEF Source, Dest
  <2>3. \A p : Held(p)' = Held(p) /\ (Newest(p)' <=> Newest(p)) /\ InUse(p)' = InUse(p)
    BY <2>1 DEF Held, Newest, InUse, Either
  <2>4. Fresh' /\ Moving' /\ Stamped'
    BY <1>0, <2>1, <2>2 DEF Fine, Fresh, Moving, Stamped, FilesIn
  <2>5. ~hdd => Based'
    BY <1>0, <2>1, <2>2, <2>3 DEF Fine, Based, InUse
  <2>6. ~hdd => Unthreatened'
    BY <1>0, <2>1, <2>2, <2>3 DEF Fine, Unthreatened, UnthreatenedAtRest, InUse
  <2> QED
    BY <2>1, <2>4, <2>5, <2>6 DEF Fine
<1> QED
  BY <1>1, <1>2, <1>3, <1>4, <1>5, <1>6, <1>7, <1>8, <1>9, <1>10, <1>11, <1>12, <1>13, <1>14, <1>15, <1>16, <1>17, <1>18
     DEF Next, Backup, BackupSteps, SpecialSteps, Upload

LEMMA InitLast == Init => LastInv
<1> SUFFICES ASSUME Init PROVE Fine
  BY DEF LastInv
<1>1. /\ pc = "boot" /\ upload = "off" /\ logged = 0 /\ \A p \in Places, f \in Files : store[p][f] = Absent
      /\ \A p \in Line : p \in Places /\ Held(p) = Absent
  BY FilesAssumption DEF Init, Empty, Held, Line, Places, Previous
<1>2. \A p \in Line : ~Newest(p)
  BY <1>1 DEF Newest, Absent
<1>3. Fresh /\ Moving /\ Stamped
  BY <1>1 DEF Fresh, Moving, Stamped, FilesIn, Places, Previous, Absent
<1>4. Based /\ Unthreatened
  BY <1>1, <1>2 DEF Based, Unthreatened, UnthreatenedAtRest, Gens, Line
<1> QED
  BY <1>3, <1>4 DEF Fine

LastKept == \A p \in Places, f \in Files : store[p][f] = logged => logged \in Alive(f)' \cup Taken(f)

LEMMA StepKeepsLast ==
  ASSUME BackupInv, LastInv, [Next]_vars, Tame'
  PROVE  logged' = logged => LastKept
<1>0. TypeInv /\ Fine /\ LogLeaves
  BY StaysTame DEF BackupInv, LastInv, AssembledInv, Tame, Only, Troubles
<1>b. store \in StoreType
  BY <1>0 DEF TypeInv, TypeOK, StoreType
<1>c. logged # Absent
  BY <1>0, StoreValues DEF TypeInv, Absent
<1>1. CASE GiveUp /\ UNCHANGED special
  <2>1. store' = store
    BY <1>1 DEF GiveUp
  <2> QED
    BY <2>1 DEF LastKept, Alive
<1>2. CASE Start /\ UNCHANGED special
  <2>1. store' = store
    BY <1>2 DEF Start
  <2> QED
    BY <2>1 DEF LastKept, Alive
<1>3. ASSUME NEW f \in Files, CopyFile(f) /\ UNCHANGED special PROVE logged' = logged => LastKept
  <2>1. pc = "move" /\ f \in left
    BY <1>3 DEF CopyFile
  <2>2. Source \in Places /\ Source # Dest /\ Own \notin Places
    BY <1>0, <2>1, PassEnds DEF TypeInv, Ready, Own, Places, Previous
  <2>3. Dest # Own => (store[Dest][f] = logged => store[Source][f] = logged)
    BY <1>0, <2>1 DEF Fine, Moving
  <2>4. \A p \in Places, g \in Files : (p = Dest /\ g = f) \/ store'[p][g] = store[p][g]
    BY <1>3, <1>b DEF CopyFile, Write, StoreType
  <2> QED
    BY <2>2, <2>3, <2>4 DEF LastKept, Alive
<1>4. ASSUME NEW f \in Files, CopyFails(f) /\ UNCHANGED special PROVE logged' = logged => LastKept
  <2>1. "disk" \notin {"backup"} /\ {"disk"} \in SUBSET Troubles
    BY DEF Troubles
  <2> QED
    BY <1>0, <1>4, <2>1, TameGoes DEF CopyFails
<1>5. CASE RemoveSource /\ UNCHANGED special
  <2>1. /\ pc = "move" /\ copied # NoFile /\ copied' = NoFile /\ copied \in Files
    BY <1>0, <1>5 DEF RemoveSource, TypeInv, TypeOK, Ready
  <2>2. Source \in Places /\ Source # Dest /\ Own \notin Places
    BY <1>0, <2>1, PassEnds DEF TypeInv, Ready, Own, Places, Previous
  <2>3. (Dest = Own => Source = "log") /\ (Dest # Own => Dest \in Places)
    <3>1. todo \in LastPasses \cup Rotations
      BY <1>0, <2>1 DEF TypeInv, Ready
    <3>2. Dest = Own => Source = "log"
      BY <3>1, PassKinds DEF Source, Dest, Own
    <3> QED
      BY <3>1, <3>2, PassEnds DEF Places
  <2>4. \A p \in Places, g \in Files : (p = Source /\ g = copied) \/ store'[p][g] = store[p][g]
    BY <1>5, <1>b, <2>1 DEF RemoveSource, StoreType
  <2>5. CASE Dest = Own
    <3>1. store[Source][copied] \in Taken(copied)
      BY <2>1, <2>2, <2>3, <2>5 DEF Taken
    <3> QED
      BY <2>4, <3>1 DEF LastKept, Alive
  <2>6. CASE Dest # Own
    <3>1. store[Source][copied] = store'[Dest][copied]
      BY <1>0, <2>1, <2>2, <2>3, <2>4, <2>6 DEF Fine, Moving
    <3> QED
      BY <2>3, <2>4, <2>6, <3>1 DEF LastKept, Alive
  <2> QED
    BY <2>5, <2>6
<1>6. CASE NextPass /\ UNCHANGED special
  <2>1. store' = store
    BY <1>6 DEF NextPass
  <2> QED
    BY <2>1 DEF LastKept, Alive
<1>7. CASE CleanLogPath /\ UNCHANGED special
  <2>1. store' = store
    BY <1>7, <1>0, CleaningFindsNothing
  <2> QED
    BY <2>1 DEF LastKept, Alive
<1>8. CASE LoadSpecials
  <2>1. store' = store
    BY <1>8 DEF LoadSpecials
  <2> QED
    BY <2>1 DEF LastKept, Alive
<1>9. ASSUME NEW e \in Specials, ExecuteEntry(e) PROVE logged' = logged => LastKept
  <2>1. store' = store
    BY <1>9 DEF ExecuteEntry
  <2> QED
    BY <2>1 DEF LastKept, Alive
<1>10. CASE CommonOperations
  <2>1. store' = store
    BY <1>10 DEF CommonOperations
  <2> QED
    BY <2>1 DEF LastKept, Alive
<1>11. CASE UploadStarts /\ UNCHANGED special
  <2>1. store' = store
    BY <1>11 DEF UploadStarts
  <2> QED
    BY <2>1 DEF LastKept, Alive
<1>12. ASSUME NEW f \in Files, Stamp(f) /\ UNCHANGED special PROVE logged' = logged => LastKept
  <2>1. store' = [store EXCEPT !["base"][f] = Absent, !["stamped"][f] = store["base"][f]]
    BY <1>12 DEF Stamp
  <2>2. /\ \A p \in Places, g \in Files : (p \in {"base", "stamped"} /\ g = f) \/ store'[p][g] = store[p][g]
        /\ store'["stamped"][f] = store["base"][f]
    BY <1>b, <2>1 DEF StoreType, Places, Previous
  <2>3. store["stamped"][f] = Absent
    BY <1>12, <1>0 DEF Stamp, Fine, Stamped, FilesIn
  <2> QED
    BY <1>c, <2>2, <2>3 DEF LastKept, Alive, Places, Previous
<1>13. CASE Unstamp /\ UNCHANGED special
  <2>1. store' = [store EXCEPT !["base"] = store["stamped"], !["stamped"] = Empty]
    BY <1>13 DEF Unstamp
  <2>2. /\ \A p \in Places \ {"base", "stamped"} : store'[p] = store[p]
        /\ store'["base"] = store["stamped"]
    BY <1>b, <2>1 DEF StoreType, Places, Previous
  <2>3. \A g \in Files : store["base"][g] = Absent
    BY <1>13 DEF Unstamp, FilesIn
  <2> QED
    BY <1>c, <2>2, <2>3 DEF LastKept, Alive, Places, Previous
<1>14. ASSUME NEW p \in Previous, NEW f \in Files, Take(p, f) /\ UNCHANGED special PROVE logged' = logged => LastKept
  <2>1. store' = [store EXCEPT ![p][f] = Absent] /\ upload = "move" /\ upload' = "move"
    BY <1>14 DEF Take
  <2>2. p \in Places /\ p # "log"
    BY DEF Places, Previous
  <2>3. \A q \in Places, g \in Files : (q = p /\ g = f) \/ store'[q][g] = store[q][g]
    BY <1>b, <2>1 DEF StoreType
  <2>4. store[p][f] \in Taken(f)
    BY <2>1, <2>2 DEF Taken
  <2> QED
    BY <2>3, <2>4 DEF LastKept, Alive
<1>15. CASE UploadEnds /\ UNCHANGED special
  <2>1. \A p \in Previous : FilesIn(p) = {}
    <3>1. (IF \E p \in Previous : FilesIn(p) # {} THEN {"disk"} ELSE {}) \subseteq {"backup"}
      BY <1>15, <1>0, TameGoes DEF UploadEnds, Troubles
    <3> QED
      BY <3>1
  <2>2. \A p \in Previous, g \in Files : store[p][g] = Absent
    BY <2>1 DEF FilesIn
  <2>3. \A p \in Places \ Previous : store'[p] = store[p]
    BY <1>15 DEF UploadEnds
  <2> QED
    BY <1>c, <2>2, <2>3 DEF LastKept, Alive
<1>16. CASE Log /\ UNCHANGED special
  BY <1>16 DEF Log, TypeInv, TypeOK
<1>17. CASE Reboot
  <2>1. CASE pc # "move" \/ store' = store
    <3>1. store' = store
      BY <1>17, <1>0, <2>1, RebootMovesNothing
    <3> QED
      BY <3>1 DEF LastKept, Alive
  <2>2. ASSUME pc = "move", NEW f \in left, store' = Write(f, Torn) PROVE LastKept
    <3>1. Source \in Places /\ Source # Dest /\ Own \notin Places
      BY <1>0, <2>2, PassEnds DEF TypeInv, Ready, Own, Places, Previous
    <3>2. Dest # Own => (store[Dest][f] = logged => store[Source][f] = logged)
      BY <1>0, <2>2 DEF Fine, Moving
    <3>3. \A p \in Places, g \in Files : (p = Dest /\ g = f) \/ store'[p][g] = store[p][g]
      BY <1>b, <2>2 DEF Write, StoreType
    <3> QED
      BY <3>1, <3>2, <3>3 DEF LastKept, Alive
  <2>3. CASE pc = "move" /\ store' = [store EXCEPT !["stamped"] = Empty]
    <3>1. FilesIn("stamped") = {}
      BY <1>0, <2>3 DEF Fine, Stamped, TypeInv, Ready
    <3>2. \A p \in Places \ {"stamped"} : store'[p] = store[p]
      BY <1>b, <2>3 DEF StoreType
    <3> QED
      BY <1>c, <3>1, <3>2 DEF LastKept, Alive, FilesIn
  <2> QED
    BY <1>17, <2>1, <2>2, <2>3 DEF Reboot
<1>18. CASE UNCHANGED vars
  <2>1. store' = store
    BY <1>18 DEF vars
  <2> QED
    BY <2>1 DEF LastKept, Alive
<1> QED
  BY <1>1, <1>2, <1>3, <1>4, <1>5, <1>6, <1>7, <1>8, <1>9, <1>10, <1>11, <1>12, <1>13, <1>14, <1>15, <1>16, <1>17, <1>18
     DEF Next, Backup, BackupSteps, SpecialSteps, Upload

\* Even if the power fails once during a backup, at any point of it, and whatever boots, backups
\* and uploads follow: no step makes away with the lines of the last boot that has logged.
THEOREM LastBootIsKept == Spec => KeepsLastBoot
<1>1. BackupInv /\ LastInv /\ [Next]_vars =>
        [(Only({"backup"}) /\ trouble["backup"] <= 1)' => ~Loses(logged)]_vars
  <2> SUFFICES ASSUME BackupInv, LastInv, [Next]_vars, Tame', Loses(logged) PROVE FALSE
    BY DEF Tame
  <2>1. LastKept
    BY StepKeepsLast DEF Loses
  <2> QED
    BY <2>1 DEF LastKept, Loses, Alive
<1> QED
  BY <1>1, BackupInductive, InitLast, StepLast, PTL DEF Spec, KeepsLastBoot
================================================================================
