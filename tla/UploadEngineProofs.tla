-------------------------- MODULE UploadEngineProofs ---------------------------
(***************************************************************************)
(* Proofs about UploadEngine, for any limits, block times and callers: the *)
(* type invariant, the bound on the attempts, the blocks and the promise   *)
(* of ArchiveDelivery, all from the one inductive invariant IInv.          *)
(***************************************************************************)
EXTENDS UploadEngine, TLAPS

\* Where a session is says which path it works on and what it has announced.
PlaceInv ==
  /\ pc \in {"post", "put", "proxy"} => path = "direct"
  /\ pc = "codebig" => path = "codebig"
  /\ pc \notin {"idle", "won", "ended"} => ~session.success
  /\ pc \notin {"idle", "ended"} => told = "nothing"
  /\ pc = "ended" /\ session.kind # "now" =>
       told = IF session.success THEN "success" ELSE "failure"
  /\ pc = "ended" /\ session.kind = "now" => told = "nothing"
  /\ pc # "idle" => ~removed

\* Only the path at work has been attempted, and the fallback round, which is that
\* of the first primary again, starts with counters that may be at their maximum.
RoundInv ==
  pc # "idle" =>
    /\ path = IF session.usedFallback THEN session.fallback ELSE session.primary
    /\ \A p \in Paths : p # path => session.attempts[p] = 0
    /\ session.usedFallback \/ session.fallback # NoPath => path = "direct"
    /\ path \in Paths =>
         LET most == MaxAttempts[path] + (IF session.usedFallback THEN 1 ELSE 0)
         IN  IF pc \in {"try", "sleep"} THEN session.attempts[path] < most
                                        ELSE session.attempts[path] <= most
    /\ pc = "sleep" => path \in Paths

\* A path at work was not blocked when its session began, unless the session did
\* not decide its paths and works on Direct; only finalize writes a marker.
BlockInv ==
  pc # "idle" =>
    /\ session.kind = "log" => path = "direct"
    /\ session.kind # "log" => path \notin blocked
    /\ "codebig" \notin blocked => block["codebig"] = 0

\* What a session leaves behind when it has ended.
PastInv == AttemptsAreBounded /\ DecidedPathsHonourBlocks

IInv == TypeOK /\ PlaceInv /\ RoundInv /\ BlockInv /\ PastInv

LEMMA InitIInv == Init => IInv
<1> SUFFICES ASSUME Init PROVE IInv
  OBVIOUS
<1>1. PICK k \in Kinds : session = NewSession(k, TRUE, DefaultPaths)
  BY DEF Init
<1>2. session \in Sessions /\ \A p \in Paths : session.attempts[p] = 0
  BY <1>1 DEF NewSession, DefaultPaths, Sessions, Paths, NoPath, Codes
<1>3. /\ pc = "idle" /\ path = NoPath /\ told = "nothing" /\ removed = FALSE
      /\ block = [p \in Paths |-> 0] /\ blocked = {}
  BY DEF Init
<1>4. TypeOK
  <2>1. block \in [Paths -> Nat] /\ \A p \in Paths : block[p] <= BlockTime[p]
    BY <1>3, EngineAssumption
  <2> QED BY <1>2, <1>3, <2>1 DEF TypeOK
<1>5. PlaceInv /\ RoundInv /\ BlockInv
  BY <1>3 DEF PlaceInv, RoundInv, BlockInv
<1>6. PastInv
  BY <1>2, <1>3, EngineAssumption DEF PastInv, AttemptsAreBounded, DecidedPathsHonourBlocks, Paths
<1> QED BY <1>4, <1>5, <1>6 DEF IInv

-----------------------------------------------------------------------------
(* One lemma per action or group of actions.                               *)

\* The start of a session, whoever calls.
LEMMA StartKeepsIInv == ASSUME IInv, NEW k \in Kinds, Start(k) PROVE IInv'
<1>1. PICK url, access \in BOOLEAN :
        session' = NewSession(k, url, IF k = "log" THEN DefaultPaths
                                                   ELSE DecidePaths(blocked', access))
  BY DEF Start
<1>2. session' \in Sessions /\ session'.kind = k
  BY <1>1 DEF NewSession, DefaultPaths, DecidePaths, Sessions, Paths, NoPath, Codes
<1>3. TypeOK'
  BY <1>2 DEF Start, IInv, TypeOK, Sessions
<1>4. PlaceInv'
  BY <1>1 DEF Start, NewSession, PlaceInv
<1>5. RoundInv'
  BY EngineAssumption
     DEF Start, NewSession, DefaultPaths, DecidePaths, RoundInv, Paths, NoPath
<1>6. BlockInv'
  <2>1. "codebig" \notin blocked' => block'["codebig"] = 0
    BY DEF Start, IInv, TypeOK, Paths
  <2>2. k = "log" => path' = "direct"
    BY <1>1 DEF Start, NewSession, DefaultPaths
  <2>3. k # "log" => path' \notin blocked'
    BY <1>1 DEF Start, NewSession, DecidePaths, Paths, NoPath
  <2> QED BY <1>2, <2>1, <2>2, <2>3 DEF BlockInv
<1>7. PastInv'
  BY EngineAssumption
     DEF Start, NewSession, PastInv, AttemptsAreBounded, DecidedPathsHonourBlocks, Paths
<1> QED BY <1>3, <1>4, <1>5, <1>6, <1>7 DEF IInv

\* One attempt more, within what the round allows.
LEMMA AttemptKeepsIInv == ASSUME IInv, Attempt PROVE IInv'
<1>1. TypeOK'
  <2>1. session' \in Sessions
    BY DEF Attempt, IncrementAttempts, SingleAttempt, IInv, TypeOK, Sessions
  <2> QED BY <2>1 DEF Attempt, IncrementAttempts, SingleAttempt, IInv, TypeOK
<1>2. PlaceInv'
  BY DEF Attempt, IncrementAttempts, SingleAttempt, IInv, TypeOK, Sessions, Paths, PlaceInv
<1>3. RoundInv'
  BY EngineAssumption
     DEF Attempt, IncrementAttempts, SingleAttempt, IInv, TypeOK, Sessions, Paths, NoPath, RoundInv
<1>4. BlockInv'
  BY DEF Attempt, IncrementAttempts, SingleAttempt, IInv, TypeOK, Sessions, BlockInv
<1>5. PastInv'
  BY EngineAssumption
     DEF Attempt, IncrementAttempts, SingleAttempt, IInv, TypeOK, Sessions, Paths,
         RoundInv, BlockInv, PastInv, AttemptsAreBounded, DecidedPathsHonourBlocks
<1> QED BY <1>1, <1>2, <1>3, <1>4, <1>5 DEF IInv

\* What an answer changes in a session and what it leaves.
LEMMA AnswerChanges ==
  ASSUME IInv, NEW h \in Codes, NEW ok \in BOOLEAN, NEW won \in BOOLEAN,
         session' = [session EXCEPT !.http = h, !.curlOk = ok, !.success = won]
  PROVE  /\ session' \in Sessions
         /\ session'.success = won
         /\ \A f \in {"kind", "primary", "fallback", "attempts", "usedFallback"} :
              session'[f] = session[f]
  BY DEF IInv, TypeOK, Sessions

\* The POST, the PUTs and CodeBig: they change the codes, and where to go on.
LEMMA TransferKeepsIInv ==
  ASSUME IInv, MetadataPost \/ NoPresignedUrl \/ S3Put \/ ProxyPut \/ Codebig
  PROVE  IInv'
<1>1. session' \in Sessions
  <2>1. CASE MetadataPost BY <2>1 DEF MetadataPost, Answer, IInv, TypeOK, Sessions
  <2>2. CASE NoPresignedUrl BY <2>2 DEF NoPresignedUrl, IInv, TypeOK
  <2>3. CASE S3Put BY <2>3 DEF S3Put, Verified, IInv, TypeOK, Sessions
  <2>4. CASE ProxyPut BY <2>4 DEF ProxyPut, Verified, IInv, TypeOK, Sessions
  <2>5. CASE Codebig
    <3>1. PICK h \in Codes, ok \in BOOLEAN : \/ UNCHANGED session
                                          \/ session' = [session EXCEPT !.http = h, !.curlOk = ok]
      BY <2>5 DEF Codebig, Answer, Codes
    <3> QED BY <3>1 DEF IInv, TypeOK, Sessions
  <2> QED BY <2>1, <2>2, <2>3, <2>4, <2>5
<1>2. /\ session'.kind = session.kind /\ session'.attempts = session.attempts
      /\ session'.primary = session.primary /\ session'.fallback = session.fallback
      /\ session'.usedFallback = session.usedFallback
  BY DEF MetadataPost, NoPresignedUrl, S3Put, ProxyPut, Codebig, Answer, IInv, TypeOK, Sessions
<1>3. /\ UNCHANGED <<path, told, removed, block, blocked>>
      /\ pc \in {"post", "put", "proxy", "codebig"}
      /\ pc' \in {"put", "proxy", "won", "lost"}
      /\ pc' \in {"put", "proxy"} => pc \in {"post", "put"}
  BY DEF MetadataPost, NoPresignedUrl, S3Put, ProxyPut, Codebig, IInv, TypeOK
<1>4. pc' # "won" => ~session'.success
  <2>1. CASE MetadataPost
    BY <2>1 DEF MetadataPost, Answer, Verified, IInv, TypeOK, Sessions, PlaceInv
  <2>2. CASE NoPresignedUrl BY <2>2 DEF NoPresignedUrl, IInv, PlaceInv
  <2>3. CASE S3Put BY <2>3 DEF S3Put, Verified, IInv, TypeOK, Sessions
  <2>4. CASE ProxyPut BY <2>4 DEF ProxyPut, Verified, IInv, TypeOK, Sessions, PlaceInv
  <2>5. CASE Codebig BY <2>5 DEF Codebig, Answer, IInv, TypeOK, Sessions, PlaceInv
  <2> QED BY <2>1, <2>2, <2>3, <2>4, <2>5
<1>5. TypeOK'
  BY <1>1, <1>3 DEF IInv, TypeOK
<1>6. PlaceInv'
  BY <1>3, <1>4 DEF IInv, PlaceInv
<1>7. RoundInv' /\ BlockInv'
  BY <1>2, <1>3 DEF IInv, RoundInv, BlockInv
<1>8. PastInv'
  BY <1>2, <1>3 DEF IInv, PastInv, AttemptsAreBounded, DecidedPathsHonourBlocks
<1> QED BY <1>5, <1>6, <1>7, <1>8 DEF IInv

\* The retries and the outcome.
LEMMA CycleKeepsIInv ==
  ASSUME IInv, Retry \/ Wake \/ UploadSucceeds \/ UploadFails
  PROVE  IInv'
<1>1. CASE Retry
  BY <1>1, EngineAssumption
     DEF Retry, ShouldRetry, TerminalFailure, IInv, TypeOK, Sessions, PlaceInv, RoundInv, BlockInv,
         PastInv, AttemptsAreBounded, DecidedPathsHonourBlocks, Paths, NoPath, Codes
<1>2. CASE Wake
  BY <1>2, EngineAssumption
     DEF Wake, IInv, TypeOK, Sessions, PlaceInv, RoundInv, BlockInv,
         PastInv, AttemptsAreBounded, DecidedPathsHonourBlocks, Paths, NoPath, Codes
<1>3. CASE UploadSucceeds
  BY <1>3, EngineAssumption
     DEF UploadSucceeds, Outcome, IInv, TypeOK, Sessions, PlaceInv, RoundInv, BlockInv,
         PastInv, AttemptsAreBounded, DecidedPathsHonourBlocks, Paths, NoPath, Codes
<1>4. CASE UploadFails
  BY <1>4, EngineAssumption
     DEF UploadFails, Outcome, IInv, TypeOK, Sessions, PlaceInv, RoundInv, BlockInv,
         PastInv, AttemptsAreBounded, DecidedPathsHonourBlocks, Paths, NoPath, Codes
<1> QED BY <1>1, <1>2, <1>3, <1>4

\* The swap: only a session whose primary was Direct has a fallback, and after the
\* swap what is called the fallback is that primary.
LEMMA FallbackKeepsIInv == ASSUME IInv, SwitchToFallback PROVE IInv'
<1>1. /\ session' \in Sessions
      /\ session'.primary = session.fallback /\ session'.fallback = session.primary
      /\ session'.usedFallback
      /\ session'.kind = session.kind /\ session'.attempts = session.attempts
      /\ session'.success = session.success
  BY DEF SwitchToFallback, IInv, TypeOK, Sessions
<1>2. path = "direct" /\ path' = path
  BY <1>1 DEF SwitchToFallback, ShouldFallback, IInv, RoundInv
<1>3. TypeOK'
  BY <1>1, <1>2 DEF SwitchToFallback, IInv, TypeOK
<1>4. PlaceInv'
  BY <1>1, <1>2 DEF SwitchToFallback, IInv, PlaceInv
<1>5. RoundInv'
  BY <1>1, <1>2, EngineAssumption
     DEF SwitchToFallback, ShouldFallback, IInv, TypeOK, Sessions, RoundInv, Paths, NoPath
<1>6. BlockInv' /\ PastInv'
  BY <1>1, <1>2
     DEF SwitchToFallback, IInv, BlockInv, PastInv, AttemptsAreBounded, DecidedPathsHonourBlocks
<1> QED BY <1>3, <1>4, <1>5, <1>6 DEF IInv

\* finalize writes one marker at most, each for its own time.
LEMMA MarkersWritten ==
  ASSUME IInv, Finalize
  PROVE  \/ UNCHANGED block
         \/ \E p \in Paths : block' = [block EXCEPT ![p] = BlockTime[p]]
  BY DEF Finalize, RemoveArchive, UpdateBlockMarkers, CreateMarker, Paths

\* The end of a session, and what happens between sessions.
LEMMA EndKeepsIInv ==
  ASSUME IInv, Finalize \/ EndUnfinalized \/ Tick \/ Kill
  PROVE  IInv'
<1>1. CASE Finalize
  <2>1. /\ pc' = "idle" /\ removed' \in BOOLEAN
        /\ UNCHANGED <<session, path, told, blocked>>
    BY <1>1 DEF Finalize, RemoveArchive, IInv, TypeOK, Sessions
  <2>2. block' \in [Paths -> Nat] /\ \A p \in Paths : block'[p] <= BlockTime[p]
    BY <1>1, MarkersWritten, EngineAssumption DEF IInv, TypeOK, Paths
  <2> QED
    BY <2>1, <2>2
       DEF IInv, TypeOK, PlaceInv, RoundInv, BlockInv, PastInv, AttemptsAreBounded,
           DecidedPathsHonourBlocks
<1>2. CASE EndUnfinalized
  BY <1>2, EngineAssumption
     DEF EndUnfinalized, IInv, TypeOK, Sessions, PlaceInv, RoundInv, BlockInv,
         PastInv, AttemptsAreBounded, DecidedPathsHonourBlocks, Paths, NoPath, Codes
<1>3. CASE Tick
  BY <1>3, EngineAssumption
     DEF Tick, IInv, TypeOK, Sessions, PlaceInv, RoundInv, BlockInv,
         PastInv, AttemptsAreBounded, DecidedPathsHonourBlocks, Paths, NoPath, Codes
<1>4. CASE Kill
  BY <1>4, EngineAssumption
     DEF Kill, IInv, TypeOK, Sessions, PlaceInv, RoundInv, BlockInv,
         PastInv, AttemptsAreBounded, DecidedPathsHonourBlocks, Paths, NoPath, Codes
<1> QED BY <1>1, <1>2, <1>3, <1>4

LEMMA StepIInv == ASSUME IInv, [Next]_vars PROVE IInv'
<1>1. CASE \E k \in Kinds : Start(k)
  BY <1>1, StartKeepsIInv
<1>2. CASE Run
  BY <1>2, AttemptKeepsIInv, TransferKeepsIInv, CycleKeepsIInv, FallbackKeepsIInv, EndKeepsIInv
     DEF Run
<1>3. CASE Tick \/ Kill
  BY <1>3, EndKeepsIInv
<1>4. CASE UNCHANGED vars
  BY <1>4 DEF vars, IInv, TypeOK, PlaceInv, RoundInv, BlockInv, PastInv, AttemptsAreBounded,
              DecidedPathsHonourBlocks
<1> QED BY <1>1, <1>2, <1>3, <1>4 DEF Next
-----------------------------------------------------------------------------
(* The theorems.                                                           *)

LEMMA Invariance == Spec => []IInv
  BY InitIInv, StepIInv, PTL DEF Spec

\* Every field of the session and of the markers stays in its range.
THEOREM TypeCorrect == Spec => []TypeOK
  BY Invariance, PTL DEF IInv

\* The fallback round adds one attempt at most to the limits, whatever they are.
THEOREM AttemptsBounded == Spec => []AttemptsAreBounded
  BY Invariance, PTL DEF IInv, PastInv

\* A session that decided its paths never attempts one that it found blocked.
THEOREM BlocksAreHonoured == Spec => []DecidedPathsHonourBlocks
  BY Invariance, PTL DEF IInv, PastInv

\* No step lengthens a block on CodeBig that still counts.
LEMMA CodebigBlockStep ==
  ASSUME IInv, [Next]_vars
  PROVE  block["codebig"] > 0 => block'["codebig"] <= block["codebig"]
<1>1. CASE Finalize
  <2>1. CASE session.attempts["codebig"] = 0
    BY <1>1, <2>1 DEF Finalize, RemoveArchive, UpdateBlockMarkers, CreateMarker, IInv, TypeOK, Paths
  <2>2. CASE session.attempts["codebig"] # 0
    <3>1. path = "codebig" /\ "codebig" \notin blocked /\ pc # "idle"
      BY <1>1, <2>2 DEF Finalize, RemoveArchive, IInv, RoundInv, BlockInv, Paths
    <3> QED BY <3>1 DEF IInv, BlockInv
  <2> QED BY <2>1, <2>2
<1>2. CASE Tick
  BY <1>2 DEF Tick, IInv, TypeOK, Paths
<1>3. CASE UNCHANGED block
  BY <1>3 DEF IInv, TypeOK, Paths
<1> QED
  BY <1>1, <1>2, <1>3
     DEF Next, Run, Start, Attempt, IncrementAttempts, SingleAttempt, MetadataPost, NoPresignedUrl,
         S3Put, ProxyPut, Codebig, Retry, Wake, SwitchToFallback, UploadSucceeds, UploadFails, Outcome, EndUnfinalized,
         Kill, vars

\* A block on CodeBig runs out: sessions cannot keep it up.
THEOREM CodebigBlockExpires == Spec => CodebigBlockRunsOut
<1>1. IInv /\ [Next]_vars
        => [block["codebig"] > 0 => block'["codebig"] <= block["codebig"]]_vars
  BY CodebigBlockStep
<1> QED
  BY <1>1, Invariance, PTL DEF Spec, CodebigBlockRunsOut

-----------------------------------------------------------------------------
(* The engine implements ArchiveDelivery.                                  *)

LEMMA StepDelivery ==
  ASSUME IInv, IInv', [Next]_vars
  PROVE  [Delivery!Next]_(Delivery!delivery)
<1> USE DEF Delivery!Next, Delivery!delivery
<1>1. CASE \E k \in Kinds : Start(k)
  BY <1>1 DEF Start, Archive, Delivery!Submit
<1>2. CASE Attempt \/ MetadataPost \/ NoPresignedUrl \/ Retry \/ Wake \/ SwitchToFallback
  <2>1. /\ UNCHANGED <<told, removed>> /\ ~removed
        /\ {pc, pc'} \subseteq {"try", "post", "put", "proxy", "codebig", "lost", "sleep"}
    BY <1>2
       DEF Attempt, IncrementAttempts, SingleAttempt, MetadataPost, NoPresignedUrl,
           Retry, Wake, SwitchToFallback, IInv, PlaceInv
  <2> QED BY <2>1 DEF Archive
<1>3. CASE S3Put \/ ProxyPut \/ Codebig
  <2>1. /\ UNCHANGED <<told, removed>> /\ ~removed /\ told = "nothing"
        /\ pc \in {"put", "proxy", "codebig"} /\ pc' \in {"proxy", "lost", "won"}
    BY <1>3 DEF S3Put, ProxyPut, Codebig, IInv, PlaceInv
  <2> QED BY <2>1 DEF Archive, Delivery!Store
<1>4. CASE UploadSucceeds
  <2>1. pc' = "ended" /\ session'.success /\ ~removed /\ ~removed'
    BY <1>4 DEF UploadSucceeds, Outcome, IInv, TypeOK, Sessions, PlaceInv
  <2>2. Archive = "stored" /\ Archive' = "stored" /\ told = "nothing" /\ told' \in {told, "success"}
    BY <1>4, <2>1 DEF UploadSucceeds, Outcome, Archive, IInv, PlaceInv
  <2> QED BY <2>2 DEF Delivery!Announce
<1>5. CASE UploadFails
  <2>1. pc' = "ended" /\ ~session'.success /\ ~removed /\ ~removed'
    BY <1>5 DEF UploadFails, Outcome, IInv, TypeOK, Sessions, PlaceInv
  <2>2. Archive = "waiting" /\ Archive' = "waiting" /\ told = "nothing"
        /\ told' \in {told, "failure"}
    BY <1>5, <2>1 DEF UploadFails, Outcome, Archive, IInv, PlaceInv
  <2> QED BY <2>2 DEF Delivery!Announce
<1>6. CASE Finalize
  <2>1. /\ pc = "ended" /\ pc' = "idle" /\ UNCHANGED <<session, told>> /\ ~removed
        /\ session.kind # "now" /\ (removed' => session.success)
    BY <1>6 DEF Finalize, RemoveArchive, IInv, TypeOK, Sessions, PlaceInv
  <2>2. CASE removed' /\ session.kind = "rrd"
    BY <2>1, <2>2 DEF Archive, Delivery!Remove, IInv, PlaceInv
  <2>3. CASE ~(removed' /\ session.kind = "rrd")
    BY <2>1, <2>3 DEF Archive, Delivery!Leave
  <2> QED BY <2>2, <2>3
<1>7. CASE EndUnfinalized \/ Kill
  <2>1. /\ pc # "idle" /\ pc' = "idle" /\ UNCHANGED <<session, told>>
        /\ ~(removed' /\ session.kind = "rrd")
    BY <1>7 DEF EndUnfinalized, Kill, IInv, PlaceInv
  <2> QED BY <2>1 DEF Archive, Delivery!Leave
<1>8. CASE Tick \/ UNCHANGED vars
  BY <1>8 DEF Tick, vars, Archive
<1> QED
  BY <1>1, <1>2, <1>3, <1>4, <1>5, <1>6, <1>7, <1>8 DEF Next, Run

\* Every step of the engine is a step of ArchiveDelivery or none: an archive is
\* announced once, truthfully, and removed only when it was announced as stored.
THEOREM EngineDelivers == Spec => KeepsDelivery
<1>1. Init => Delivery!Init
  BY DEF Init, Delivery!Init, Archive
<1> QED
  BY <1>1, Invariance, StepDelivery, PTL DEF Spec, KeepsDelivery, Delivery!Spec
================================================================================
