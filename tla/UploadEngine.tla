----------------------------- MODULE UploadEngine ------------------------------
(***************************************************************************)
(* The upload engine: one session after another chooses its paths from the *)
(* block markers, tries its primary path with retries, may fall back once, *)
(* announces the outcome and, in finalize, writes the markers that the     *)
(* next sessions obey. The markers live in /tmp and outlive the process.   *)
(*                                                                         *)
(* Three kinds of caller drive it. RRD uploads call decide_paths and always*)
(* finalize. The strategies (log) leave primary and fallback as zeroed     *)
(* memory, which is PATH_DIRECT, and are finalized only if their workflow  *)
(* succeeds. uploadlogsnow (now) calls decide_paths, announces nothing and *)
(* never finalizes. Sessions do not overlap (UploadLock).                  *)
(***************************************************************************)
EXTENDS Integers

CONSTANTS
  Kinds,        \* which callers there are
  MaxAttempts,  \* direct_max_attempts and codebig_max_attempts
  BlockTime,    \* how long each path's marker blocks it, in ticks
  HasProxy      \* a mediaclient device with a PROXY_BUCKET

Paths == {"direct", "codebig"}
NoPath == "none"
Codes == {"000", "200", "404", "other"}  \* HTTP status, "other" is also -1

ASSUME EngineAssumption ==
  /\ Kinds \subseteq {"rrd", "log", "now"}
  /\ MaxAttempts \in [Paths -> Nat \ {0}]
  /\ BlockTime \in [Paths -> Nat \ {0}]
  /\ HasProxy \in BOOLEAN

VARIABLES
  pc,       \* where the session is
  session,  \* SessionState, with the kind of caller and whether there is a URL
  path,     \* the path retry_upload works on
  told,     \* what the session announced
  removed,  \* the archive of the session was removed, by finalize or by the caller
  block,    \* ticks each block marker still counts for, 0 without a marker
  blocked   \* the paths that ctx.direct_blocked and ctx.codebig_blocked hold blocked

vars == <<pc, session, path, told, removed, block, blocked>>

Sessions == [kind : Kinds, url : BOOLEAN, primary : Paths \cup {NoPath},
             fallback : Paths \cup {NoPath}, attempts : [Paths -> Nat], http : Codes,
             curlOk : BOOLEAN, usedFallback : BOOLEAN, success : BOOLEAN]

TypeOK ==
  /\ pc \in {"idle", "try", "post", "put", "proxy", "codebig", "won", "lost", "sleep", "ended"}
  /\ session \in Sessions
  /\ path \in Paths \cup {NoPath}
  /\ told \in {"nothing", "success", "failure"}
  /\ removed \in BOOLEAN
  /\ block \in [Paths -> Nat] /\ \A p \in Paths : block[p] <= BlockTime[p]
  /\ blocked \subseteq Paths

\* SessionState session = {0}: PATH_DIRECT is 0, and so are the codes.
DefaultPaths == [primary |-> "direct", fallback |-> "direct"]

NewSession(k, url, paths) ==
  [kind |-> k, url |-> url, primary |-> paths.primary, fallback |-> paths.fallback,
   attempts |-> [p \in Paths |-> 0], http |-> "000", curlOk |-> TRUE,
   usedFallback |-> FALSE, success |-> FALSE]

Init ==
  /\ pc = "idle"
  /\ \E k \in Kinds : session = NewSession(k, TRUE, DefaultPaths)
  /\ path = NoPath
  /\ told = "nothing"
  /\ removed = FALSE
  /\ block = [p \in Paths |-> 0]
  /\ blocked = {}

-----------------------------------------------------------------------------
(* The start of a session.                                                 *)

\* Variant: CodeBig's marker is not looked at.
DecideIgnoringCodebig(shut, access) ==
  [primary  |-> IF "direct" \notin shut THEN "direct" ELSE IF access THEN "codebig" ELSE NoPath,
   fallback |-> IF "direct" \notin shut /\ access THEN "codebig" ELSE NoPath]

\* decide_paths: Direct unless it is blocked, and CodeBig behind it or instead of
\* it unless it is blocked or its access check fails.
DecidePaths(shut, access) ==
  LET codebig == "codebig" \notin shut /\ access
  IN  [primary  |-> IF "direct" \notin shut THEN "direct" ELSE IF codebig THEN "codebig" ELSE NoPath,
       fallback |-> IF "direct" \notin shut /\ codebig THEN "codebig" ELSE NoPath]

\* init_context reads the markers, and drops those that have run out.
Start(k) ==
  /\ pc = "idle"
  /\ blocked' = {p \in Paths : block[p] > 0}
  /\ \E url, access \in BOOLEAN :
       session' = NewSession(k, url, IF k = "log" THEN DefaultPaths
                                                  ELSE DecidePaths(blocked', access))
  /\ path' = session'.primary
  /\ pc' = "try"
  /\ told' = "nothing" /\ removed' = FALSE
  /\ UNCHANGED block

-----------------------------------------------------------------------------
(* One attempt: execute_direct_path and execute_codebig_path.              *)

Verified(h, ok) == ok /\ h = "200"

\* What curl and the server answered is written to the session.
Answer(h, ok) == session' = [session EXCEPT !.http = h, !.curlOk = ok]

\* single_attempt_upload: the function of the path. Direct needs a URL.
SingleAttempt == IF path = "codebig" THEN "codebig" ELSE IF session.url THEN "post" ELSE "lost"

IncrementAttempts == session' = [session EXCEPT !.attempts[path] = @ + 1]

\* Variant: increment_attempts is forgotten.
AttemptUncounted ==
  /\ pc = "try"
  /\ \/ path \in Paths /\ pc' = SingleAttempt
     \/ path = NoPath /\ pc' = "lost"
  /\ UNCHANGED <<session, path, told, removed, block, blocked>>

\* retry_upload counts the attempt and makes it; there is nothing to do for PATH_NONE.
Attempt ==
  /\ pc = "try"
  /\ \/ path \in Paths /\ IncrementAttempts /\ pc' = SingleAttempt
     \/ path = NoPath /\ pc' = "lost" /\ UNCHANGED session
  /\ UNCHANGED <<path, told, removed, block, blocked>>

\* perform_metadata_post asks for the presigned URL.
MetadataPost ==
  /\ pc = "post"
  /\ \E h \in Codes, ok \in BOOLEAN :
       /\ Answer(h, ok)
       /\ pc' = IF Verified(h, ok) THEN "put" ELSE "lost"
  /\ UNCHANGED <<path, told, removed, block, blocked>>

\* The results file holds no URL: the codes of the POST stay in the session.
NoPresignedUrl ==
  /\ pc \in {"put", "codebig"}
  /\ pc' = "lost"
  /\ UNCHANGED <<session, path, told, removed, block, blocked>>

\* perform_s3_put_with_fallback up to the proxy.
S3Put ==
  /\ pc = "put"
  /\ \E h \in Codes, ok \in BOOLEAN :
       /\ session' = [session EXCEPT !.http = h, !.curlOk = ok, !.success = Verified(h, ok)]
       /\ pc' = IF Verified(h, ok) THEN "won" ELSE IF HasProxy THEN "proxy" ELSE "lost"
  /\ UNCHANGED <<path, told, removed, block, blocked>>

\* attempt_proxy_fallback, unless no proxy URL can be made of the S3 URL.
ProxyPut ==
  /\ pc = "proxy"
  /\ \/ \E h \in Codes, ok \in BOOLEAN :
          /\ session' = [session EXCEPT !.http = h, !.curlOk = ok, !.success = Verified(h, ok)]
          /\ pc' = IF Verified(h, ok) THEN "won" ELSE "lost"
     \/ pc' = "lost" /\ UNCHANGED session
  /\ UNCHANGED <<path, told, removed, block, blocked>>

\* POST and PUT of CodeBig: a POST that fails reports any status, a PUT only
\* whether it worked.
Codebig ==
  /\ pc = "codebig"
  /\ \/ \E h \in Codes : Answer(h, FALSE) /\ pc' = "lost"
     \/ Answer("200", TRUE) /\ pc' = "won"
     \/ Answer("000", FALSE) /\ pc' = "lost"
  /\ UNCHANGED <<path, told, removed, block, blocked>>

-----------------------------------------------------------------------------
(* Retry, fallback and the outcome: retry_upload and execute_upload_cycle.  *)

TerminalFailure(h) == h = "404"

\* A network failure, 000, is left to the fallback.
ShouldRetry ==
  /\ path \in Paths
  /\ session.http # "000" /\ ~TerminalFailure(session.http)
  /\ session.attempts[path] < MaxAttempts[path]

\* Variant: the fallback may be used again.
FallbackAgain == session.fallback # NoPath

ShouldFallback == session.fallback # NoPath /\ ~session.usedFallback

Retry ==
  /\ pc = "lost" /\ ShouldRetry
  /\ pc' = "sleep"
  /\ UNCHANGED <<session, path, told, removed, block, blocked>>

Wake ==
  /\ pc = "sleep"
  /\ pc' = "try"
  /\ UNCHANGED <<session, path, told, removed, block, blocked>>

\* switch_to_fallback swaps the two paths, and the cycle goes on with what is
\* then called the fallback.
SwitchToFallback ==
  /\ pc = "lost" /\ ~ShouldRetry /\ ShouldFallback
  /\ session' = [session EXCEPT !.primary = session.fallback, !.fallback = session.primary,
                                !.usedFallback = TRUE]
  /\ path' = session'.fallback
  /\ pc' = "try"
  /\ UNCHANGED <<told, removed, block, blocked>>

\* emit_upload_success and emit_upload_failure keep silent for uploadlogsnow.
Outcome(ok) ==
  /\ session' = [session EXCEPT !.success = ok]
  /\ told' = IF session.kind = "now" THEN told ELSE IF ok THEN "success" ELSE "failure"
  /\ pc' = "ended"
  /\ UNCHANGED <<path, removed, block, blocked>>

UploadSucceeds == pc = "won" /\ Outcome(TRUE)

UploadFails == pc = "lost" /\ ~ShouldRetry /\ ~ShouldFallback /\ Outcome(FALSE)

-----------------------------------------------------------------------------
(* The end of a session.                                                   *)

\* Variant: the two durations are swapped.
SwapDurations(p) ==
  block' = [block EXCEPT ![p] = BlockTime[IF p = "direct" THEN "codebig" ELSE "direct"]]

\* create_block_marker: the marker starts afresh, if the file can be written.
CreateMarker(p) == block' = [block EXCEPT ![p] = BlockTime[p]] \/ UNCHANGED block

UpdateBlockMarkers ==
  LET s == session
  IN  CASE s.success /\ (s.usedFallback \/ s.attempts["codebig"] > 0) -> CreateMarker("direct")
        [] ~s.success /\ s.attempts["codebig"] > 0 -> CreateMarker("codebig")
        [] OTHER -> UNCHANGED block

\* remove_archive, unless it is a memory capture. The file may resist.
RemoveArchive == removed' \in BOOLEAN

\* Variant: the archive is removed whatever the outcome.
FinalizeRemoves ==
  /\ pc = "ended"
  /\ session.kind # "now"
  /\ UpdateBlockMarkers
  /\ removed' = TRUE
  /\ pc' = "idle"
  /\ UNCHANGED <<session, path, told, blocked>>

\* finalize: a successful session's archive goes. The strategies have removed theirs
\* before.
Finalize ==
  /\ pc = "ended"
  /\ session.kind = "rrd" \/ (session.kind = "log" /\ session.success)
  /\ UpdateBlockMarkers
  /\ IF session.success THEN RemoveArchive ELSE UNCHANGED removed
  /\ pc' = "idle"
  /\ UNCHANGED <<session, path, told, blocked>>

\* uploadlogsnow has no finalize; a strategy returns before it when its upload or
\* its own cleanup has failed. Either removes its archive, which is a copy of the
\* logs, whatever came of it.
EndUnfinalized ==
  /\ pc = "ended"
  /\ session.kind \in {"log", "now"}
  /\ removed' \in BOOLEAN
  /\ pc' = "idle"
  /\ UNCHANGED <<session, path, told, block, blocked>>

-----------------------------------------------------------------------------
(* Time and failure.                                                       *)

Tick ==
  /\ \E p \in Paths : block[p] > 0
  /\ block' = [p \in Paths |-> IF block[p] > 0 THEN block[p] - 1 ELSE 0]
  /\ UNCHANGED <<pc, session, path, told, removed, blocked>>

\* The process is killed; what is in /tmp stays.
Kill ==
  /\ pc # "idle"
  /\ pc' = "idle"
  /\ UNCHANGED <<session, path, told, removed, block, blocked>>

Run ==
  \/ Attempt \/ MetadataPost \/ NoPresignedUrl \/ S3Put \/ ProxyPut \/ Codebig
  \/ Retry \/ Wake \/ SwitchToFallback \/ UploadSucceeds \/ UploadFails
  \/ Finalize \/ EndUnfinalized

Next == (\E k \in Kinds : Start(k)) \/ Run \/ Tick \/ Kill

Spec == Init /\ [][Next]_vars

\* A session runs on: curl has timeouts, and the sleeps end.
FairSpec == Spec /\ WF_vars(Run)

-----------------------------------------------------------------------------
(* Properties.                                                             *)

\* The two rounds of a session share the attempt counters: the fallback round adds
\* one attempt to the maximum on Direct at most, and none on CodeBig.
AttemptsAreBounded ==
  /\ session.attempts["direct"] <= MaxAttempts["direct"] + 1
  /\ session.attempts["codebig"] <= MaxAttempts["codebig"]

\* A block on CodeBig runs out: no session writes its marker again while it still
\* counts, since a session that found it does not try CodeBig.
CodebigBlockRunsOut ==
  [][block["codebig"] > 0 => block'["codebig"] <= block["codebig"]]_vars

\* The sessions that decide their paths keep off a blocked one to their end, the
\* retries and the fallback after the swap included.
DecidedPathsHonourBlocks ==
  session.kind # "log" => \A p \in blocked : session.attempts[p] = 0

\* Whatever the paths, retries and the fallback do, the session keeps the promise of
\* ArchiveDelivery. What must not be lost is the archive of RRD, the only kind that
\* is no copy.
Archive ==
  IF pc = "idle" THEN IF removed /\ session.kind = "rrd" THEN "gone" ELSE "none"
  ELSE IF pc = "won" \/ (pc = "ended" /\ session.success) THEN "stored" ELSE "waiting"

Delivery == INSTANCE ArchiveDelivery WITH archive <- Archive

KeepsDelivery == Delivery!Spec

\* A session that begins comes to its end: the retries and the fallback stop.
SessionEnds == (pc = "try") ~> (pc = "idle")
================================================================================
