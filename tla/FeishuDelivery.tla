---------------------------- MODULE FeishuDelivery ----------------------------
(***************************************************************************)
(* Delivery of a video's results to its Base row: lib/feishu/automation.ts *)
(* (early and final delivery, the delivery worker, the subtitle bridges),  *)
(* lib/feishu/delivery-guard.ts, the delivery jobs of lib/database.ts, the *)
(* paid subtitle requests of lib/subtitle.ts, lib/media-retention.ts and,  *)
(* of lib/analysis.ts, the results an attempt adds to the video row.       *)
(*                                                                         *)
(* The module is about one Base row.  The row lock of a process keeps its  *)
(* deliveries apart, so that a process is at one delivery at a time; two   *)
(* processes share nothing but the database and the row.  A delivery reads *)
(* the job, the video and the row, uploads, asks for subtitles, reads the  *)
(* row again and writes: a click, a retry, a person's edit, the pruning of *)
(* the file and another process may come between any two of these steps.   *)
(***************************************************************************)
EXTENDS Naturals

CONSTANTS
    MaxProcesses, \* bound on the processes that deliver
    Videos,       \* a video belongs to the click that created it
    First,        \* the video of the first click
    Links,        \* what the link column of the row may show
    MaxAttempts,  \* bound on the attempts of one video
    GiveUp,       \* failed passes before a job is paused (6 in the code)
    PutTries,     \* tries of one pass to write the row (3 in the code)
    Retries,      \* second requests of one translation (config.retries, 0 or 1)
    Budgets,      \* bounds on clicks, restarts, edits, crashes, faults and
                  \* prunes, and the processes at work
    Person,       \* the content a person, or a bridge asked by one, has written
    None

ASSUME DeliveryConstants ==
    /\ First \in Videos /\ Links # {} /\ MaxProcesses \in Nat
    /\ MaxAttempts \in Nat /\ GiveUp \in Nat \ {0} /\ PutTries \in Nat \ {0} /\ Retries \in Nat
    /\ Budgets \subseteq [{"clicks", "restarts", "edits", "crashes", "faults", "prunes", "workers"} -> Nat]
    /\ Person \notin Videos /\ None \notin Videos /\ Person # None

VARIABLES
    video,    \* rows of videos: status, attempt_count, link, stored results
    stage,    \* video_stage_results: the translation of each attempt
    asking,   \* translations under way: the attempt that asked, or 0
    early,    \* videos whose text is waiting for an early delivery
    job,      \* feishu_automation_jobs with its block and its retry time
    row,      \* the link column of the row; the video of its last click (history)
    cell,     \* the other columns: None, Person, or the video delivered there
    markers,  \* .request-N files of each video and attempt
    cache,    \* subtitle translations kept on disk
    paid,     \* subtitle requests sent to the provider (history)
    disk,     \* the media file exists
    prune,    \* pruneExpiredMedia, at each video
    crossed,  \* videos whose last download came while their directory was to be removed (history)
    proc,     \* the delivery each process is at
    unseen,   \* what happened since a process last looked (history)
    budget    \* what is left of the bounds

dataVars  == <<video, stage, asking, early>>
rowVars   == <<row, cell>>
paidVars  == <<markers, cache, paid>>
mediaVars == <<disk, prune, crossed>>
vars == <<dataVars, job, rowVars, paidVars, mediaVars, proc, unseen, budget>>

Processes == 1 .. MaxProcesses
\* subtitle stands for the attachment and the two columns of timestamped text.
Fields   == {"file", "speech", "translation", "subtitle"}
Results  == Fields \ {"subtitle"}
Numbers  == 1 .. MaxAttempts
Terminal == {"completed", "failed"}

SubtitleGiveUpAfter == 2  \* SUBTITLE_RETRY_GIVE_UP_AFTER
SubtitleRequests    == 2  \* marker files an attempt may leave

NoJob   == [on |-> FALSE, attempts |-> 0, blocked |-> "no", due |-> TRUE]
NewJob  == [NoJob EXCEPT !.on = TRUE]
NoVideo == [status |-> "none", n |-> 0, link |-> None, has |-> {}]
Idle == [pc |-> "idle", goal |-> "final", v |-> First, n |-> 0, done |-> FALSE, has |-> {},
         jobAttempts |-> 0, seen |-> {}, filled |-> {}, tries |-> 0, asks |-> 0,
         filePending |-> FALSE, subtitlePending |-> FALSE, subtitle |-> FALSE]

NewVideo(l) == [NoVideo EXCEPT !.status = "queued", !.link = l]

Init ==
    LET l == CHOOSE l \in Links : TRUE IN
    /\ video = [v \in Videos |-> IF v = First THEN NewVideo(l) ELSE NoVideo]
    /\ job = [v \in Videos |-> IF v = First THEN NewJob ELSE NoJob]
    /\ row = [link |-> l, owner |-> First]
    /\ stage = [v \in Videos |-> [n \in Numbers |-> "none"]]
    /\ asking = [v \in Videos |-> 0]
    /\ early = {}
    /\ cell = [f \in Fields |-> None]
    /\ markers = [v \in Videos |-> [n \in Numbers |-> 0]]
    /\ cache = [v \in Videos |-> [n \in Numbers |-> FALSE]]
    /\ paid = [v \in Videos |-> [n \in Numbers |-> 0]]
    /\ disk = [v \in Videos |-> FALSE]
    /\ prune = [v \in Videos |-> "no"]
    /\ crossed = {}
    /\ proc = [p \in Processes |-> Idle]
    /\ unseen = [p \in Processes |-> {}]
    /\ budget \in Budgets

Spend(what) == budget[what] > 0 /\ budget' = [budget EXCEPT ![what] = @ - 1]
Fault(bad)  == IF bad THEN Spend("faults") ELSE UNCHANGED budget
Happens(what) == unseen' = [p \in Processes |-> unseen[p] \cup {what}]

-----------------------------------------------------------------------------
(* The clicks of the row, the attempts of the videos.                      *)

\* saveFeishuAutomationJob, in the transaction that creates the video: the row
\* has one current generation, its older jobs go with their blocks and retries.
SaveJob(v) == job' = [w \in Videos |-> IF w = v THEN NewJob ELSE NoJob]

Click(v, l) ==
    /\ Spend("clicks")
    /\ video[v].status = "none"
    /\ video' = [video EXCEPT ![v] = NewVideo(l)]
    /\ SaveJob(v)
    /\ row' = [link |-> l, owner |-> v]
    /\ Happens("click")
    /\ UNCHANGED <<stage, asking, early, cell, paidVars, mediaVars, proc>>

\* prepareVideoForQueue(restart): the job of a retried video starts afresh.
ResumeJob(j) == IF j.on THEN NewJob ELSE j

Restart(v) ==
    /\ Spend("restarts")
    /\ video[v].status = "failed"
    /\ video' = [video EXCEPT ![v].status = "queued"]
    /\ job' = [job EXCEPT ![v] = ResumeJob(@)]
    /\ Happens("restart")
    /\ UNCHANGED <<stage, asking, early, rowVars, paidVars, mediaVars, proc>>

StartAttempt(v) ==
    /\ video[v].status = "queued" /\ video[v].n < MaxAttempts
    /\ video' = [video EXCEPT ![v].status = "running", ![v].n = @ + 1]
    /\ UNCHANGED <<stage, asking, early, job, rowVars, paidVars, mediaVars, proc, unseen, budget>>

Transcribe(v) ==
    /\ video[v].status = "running" /\ "speech" \notin video[v].has
    /\ video' = [video EXCEPT ![v].has = @ \cup {"speech"}]
    /\ early' = early \cup {v}
    /\ UNCHANGED <<stage, asking, job, rowVars, paidVars, mediaVars, proc, unseen, budget>>

\* scheduleTranscriptTranslation: once per attempt, also when the attempt failed.
Translate(v) ==
    LET n == video[v].n IN
    /\ video[v].status \in {"running", "failed"} /\ asking[v] = 0
    /\ {"speech", "translation"} \cap video[v].has = {"speech"}
    /\ stage[v][n] = "none"
    /\ asking' = [asking EXCEPT ![v] = n]
    /\ stage' = [stage EXCEPT ![v][n] = "running"]
    /\ UNCHANGED <<video, early, job, rowVars, paidVars, mediaVars, proc, unseen, budget>>

\* The answer of an older attempt is dropped; a stage of one is not recorded.
TranslationEnds(v, ok) ==
    LET n == asking[v] IN
    /\ n # 0
    /\ asking' = [asking EXCEPT ![v] = 0]
    /\ IF n # video[v].n THEN UNCHANGED <<video, stage, early>> ELSE
       /\ stage' = [stage EXCEPT ![v][n] = IF ok THEN "completed" ELSE "failed"]
       /\ video' = IF ok THEN [video EXCEPT ![v].has = @ \cup {"translation"}] ELSE video
       /\ early' = IF ok THEN early \cup {v} ELSE early
    /\ UNCHANGED <<job, rowVars, paidVars, mediaVars, proc, unseen, budget>>

\* The process that was asking dies.
TranslationLost(v) ==
    /\ Spend("crashes")
    /\ asking[v] # 0
    /\ asking' = [asking EXCEPT ![v] = 0]
    /\ UNCHANGED <<video, stage, early, job, rowVars, paidVars, mediaVars, proc, unseen>>

\* Mutant: only the stages of older attempts are given up.
AgeOlderStage(v, n) ==
    /\ stage[v][n] = "running" /\ asking[v] # n /\ n < video[v].n
    /\ stage' = [stage EXCEPT ![v][n] = "stale"]
    /\ UNCHANGED <<video, asking, early, job, rowVars, paidVars, mediaVars, proc, unseen, budget>>

\* Thirty minutes without news: a stage that still says running is not waited for.
AgeStage(v, n) ==
    /\ stage[v][n] = "running" /\ asking[v] # n
    /\ stage' = [stage EXCEPT ![v][n] = "stale"]
    /\ UNCHANGED <<video, asking, early, job, rowVars, paidVars, mediaVars, proc, unseen, budget>>

Download(v) ==
    /\ video[v].status = "running" /\ "file" \notin video[v].has
    /\ video' = [video EXCEPT ![v].has = @ \cup {"file"}]
    /\ disk' = [disk EXCEPT ![v] = TRUE]
    /\ crossed' = IF prune[v] = "released" THEN crossed \cup {v} ELSE crossed \ {v}
    /\ UNCHANGED <<stage, asking, early, job, rowVars, paidVars, prune, proc, unseen, budget>>

\* An attempt completes with a file and after its translation; when it fails or
\* is stopped its translation may go on.
EndAttempt(v, ok) ==
    LET d == video[v]
        translated == "speech" \notin d.has \/ "translation" \in d.has
                      \/ stage[v][d.n] \in {"completed", "failed"}
    IN  /\ d.status = "running"
        /\ ok => "file" \in d.has /\ translated
        /\ video' = [video EXCEPT ![v].status = IF ok THEN "completed" ELSE "failed"]
        /\ UNCHANGED <<stage, asking, early, job, rowVars, paidVars, mediaVars, proc, unseen, budget>>

-----------------------------------------------------------------------------
(* People: an edit of a cell or of the link, and the subtitle bridges,     *)
(* which write what they are asked for whatever the row holds.             *)

Edit(f) ==
    /\ Spend("edits")
    /\ cell' = [cell EXCEPT ![f] = Person]
    /\ Happens(f)
    /\ UNCHANGED <<dataVars, job, row, paidVars, mediaVars, proc>>

EditLink(l) ==
    /\ Spend("edits")
    /\ row' = [row EXCEPT !.link = l]
    /\ UNCHANGED <<dataVars, job, cell, paidVars, mediaVars, proc, unseen>>

\* From the file, from the link, or from the timestamped text already there.
BridgeSubtitle ==
    /\ Spend("edits")
    /\ cell["file"] # None \/ row.link # None \/ cell["subtitle"] # None
    /\ cell' = [cell EXCEPT !["subtitle"] = Person]
    /\ Happens("subtitle")
    /\ UNCHANGED <<dataVars, job, row, paidVars, mediaVars, proc>>

-----------------------------------------------------------------------------
(* Jobs.                                                                   *)

\* incrementFeishuAutomationJobAttempts: a deleted job stays deleted, a pause
\* keeps its reason.
Increment(j) ==
    LET k == j.attempts + 1 IN
    IF ~j.on THEN j
    ELSE IF k < GiveUp THEN [j EXCEPT !.attempts = k, !.due = FALSE]
    ELSE [j EXCEPT !.attempts = k, !.blocked = IF @ = "no" THEN "exhausted" ELSE @]

\* blockFeishuAutomationJob: no pause for a job that is gone; the last reason stays.
Block(j, reason) == IF j.on THEN [j EXCEPT !.blocked = reason] ELSE j

Deliverable(j) == j.on /\ j.blocked = "no" /\ j.due

RetryDue(v) ==
    /\ job[v].on /\ ~job[v].due
    /\ job' = [job EXCEPT ![v].due = TRUE]
    /\ UNCHANGED <<dataVars, rowVars, paidVars, mediaVars, proc, unseen, budget>>

-----------------------------------------------------------------------------
(* One delivery.  Each step is a wait of the code: a request to Feishu, to *)
(* the translation provider or to the database.                            *)

Current(v, n) == video[v].n = n /\ video[v].status # "queued"
Filled == {f \in Fields : cell[f] # None}

Become(p, d) == proc' = [proc EXCEPT ![p] = d]
Finish(p)    == Become(p, Idle)
Pause(p, reason) == job' = [job EXCEPT ![proc[p].v] = Block(@, reason)] /\ Finish(p)
CountFailure(p)  == job' = [job EXCEPT ![proc[p].v] = Increment(@)] /\ Finish(p)

Free(p) == proc[p].pc = "idle" /\ p <= budget["workers"]

\* runFeishuAutomationDeliveryPass, or the end of an attempt.
BeginFinal(p, v) ==
    LET d == video[v] IN
    /\ Free(p) /\ Deliverable(job[v]) /\ d.status \in Terminal
    /\ Become(p, [Idle EXCEPT !.pc = "check", !.v = v, !.n = d.n, !.has = d.has,
                              !.done = d.status = "completed"])
    /\ UNCHANGED <<dataVars, job, rowVars, paidVars, mediaVars, unseen, budget>>

\* deliverEarlyTranscript: the text only, and whatever the outcome the job stays.
BeginEarly(p, v) ==
    /\ Free(p) /\ v \in early
    /\ early' = early \ {v}
    /\ IF job[v].on /\ job[v].blocked = "no"
       THEN Become(p, [Idle EXCEPT !.pc = "read", !.goal = "early", !.v = v, !.n = video[v].n,
                                   !.has = video[v].has])
       ELSE UNCHANGED proc
    /\ UNCHANGED <<video, stage, asking, job, rowVars, paidVars, mediaVars, unseen, budget>>

\* After the file: subtitles of a completed video, in the first two passes only.
AfterFile(d) ==
    LET wanted == d.done /\ "speech" \in d.has /\ "subtitle" \notin d.seen
        now == wanted /\ d.jobAttempts < SubtitleGiveUpAfter
    IN  [d EXCEPT !.goal = "final", !.subtitlePending = wanted, !.pc = IF now THEN "subtitle" ELSE "read"]

AfterCheck(d) ==
    IF "file" \in d.has \ d.seen THEN [d EXCEPT !.pc = "upload"] ELSE AfterFile(d)

\* Under the row lock: the job again, the attempt, the row and its columns.
CheckRow(p, outcome) ==
    LET d == proc[p]
        v == d.v
    IN  /\ d.pc = "check" /\ Fault(outcome # "ok")
        /\ IF ~Deliverable(job[v]) \/ ~Current(v, d.n) THEN outcome = "ok" /\ Finish(p) /\ UNCHANGED job
           ELSE CASE outcome = "denied" -> Pause(p, "denied")
                  [] outcome = "failed" -> CountFailure(p)
                  [] outcome = "ok" /\ row.link # video[v].link -> Pause(p, "source")
                  [] OTHER -> /\ Become(p, AfterCheck([d EXCEPT !.seen = Filled,
                                                           !.jobAttempts = job[v].attempts]))
                              /\ UNCHANGED job
        /\ UNCHANGED <<dataVars, rowVars, paidVars, mediaVars, unseen>>

\* Mutant: a file that could not be written is forgotten.
FileForgotten(d) == AfterFile(d)

\* Writing the file failed: the text is delivered without it.
FileFailed(d) == AfterFile([d EXCEPT !.filePending = TRUE])

UploadFile(p, outcome) ==
    LET d == proc[p] IN
    /\ d.pc = "upload" /\ Fault(outcome # "ok")
    /\ CASE outcome = "denied" -> Pause(p, "denied")
         [] outcome # "denied" /\ (outcome = "failed" \/ ~disk[d.v]) -> Become(p, FileFailed(d)) /\ UNCHANGED job
         [] OTHER -> Become(p, [d EXCEPT !.pc = "read", !.goal = "file"]) /\ UNCHANGED job
    /\ UNCHANGED <<dataVars, rowVars, paidVars, mediaVars, unseen>>

\* cachedTranslations: a translation kept on disk costs nothing.
TranslationKept(d) == cache[d.v][d.n]

\* generateBilingualSubtitleFile, and the upload of its file, which may fail.
Subtitles(p, outcome) ==
    LET d == proc[p]
        kept == TranslationKept(d)
        ready == kept /\ outcome = "ok"
    IN  /\ d.pc = "subtitle" /\ Fault(outcome # "ok") /\ (~kept => outcome = "ok")
        /\ Become(p, IF kept THEN [d EXCEPT !.pc = "read", !.subtitle = ready, !.subtitlePending = ~ready]
                             ELSE [d EXCEPT !.pc = "reserve"])
        /\ UNCHANGED <<dataVars, job, rowVars, paidVars, mediaVars, unseen>>

\* Mutant: the requests are counted by the pass, no marker is left.
CountRequest(p) ==
    LET d == proc[p] IN
    /\ d.pc = "reserve"
    /\ Become(p, [d EXCEPT !.pc = IF d.asks < SubtitleRequests THEN "ask" ELSE "read"])
    /\ UNCHANGED <<dataVars, job, rowVars, paidVars, mediaVars, unseen, budget>>

\* Mutant: one marker too many.
ReserveThree(p) ==
    LET d == proc[p]
        free == markers[d.v][d.n] <= SubtitleRequests
    IN  /\ d.pc = "reserve"
        /\ markers' = IF free THEN [markers EXCEPT ![d.v][d.n] = @ + 1] ELSE markers
        /\ Become(p, [d EXCEPT !.pc = IF free THEN "ask" ELSE "read"])
        /\ UNCHANGED <<dataVars, job, rowVars, cache, paid, mediaVars, unseen, budget>>

\* beforeRequest: a marker is created exclusively before each request.
ReserveRequest(p) ==
    LET d == proc[p]
        free == markers[d.v][d.n] < SubtitleRequests
    IN  /\ d.pc = "reserve"
        /\ markers' = IF free THEN [markers EXCEPT ![d.v][d.n] = @ + 1] ELSE markers
        /\ Become(p, [d EXCEPT !.pc = IF free THEN "ask" ELSE "read"])
        /\ UNCHANGED <<dataVars, job, rowVars, cache, paid, mediaVars, unseen, budget>>

\* requestTranslation: sent, and charged whatever comes back.
AskTranslation(p, outcome) ==
    LET d == proc[p] IN
    /\ d.pc = "ask" /\ Fault(outcome # "ok")
    /\ paid' = [paid EXCEPT ![d.v][d.n] = @ + 1]
    /\ cache' = IF outcome = "ok" THEN [cache EXCEPT ![d.v][d.n] = TRUE] ELSE cache
    /\ Become(p, CASE outcome = "ok" -> [d EXCEPT !.pc = "subtitle"]
                   [] outcome = "failed" /\ d.asks < Retries -> [d EXCEPT !.pc = "reserve", !.asks = @ + 1]
                   [] OTHER -> [d EXCEPT !.pc = "read"])
    /\ UNCHANGED <<dataVars, job, rowVars, markers, mediaVars, unseen>>

\* A transient failure of a read or of a write of the row.
WriteFailed(p, limited) ==
    LET d == proc[p] IN
    CASE d.goal = "early" -> Finish(p) /\ UNCHANGED job
      [] d.goal = "file"  -> Become(p, FileFailed(d)) /\ UNCHANGED job
      [] d.goal = "final" /\ ~limited /\ d.tries + 1 < PutTries ->
            Become(p, [d EXCEPT !.pc = "read", !.tries = @ + 1]) /\ UNCHANGED job
      [] OTHER -> CountFailure(p)

\* patchEmptyDeliveryFields, its reads: the job, the attempt, the row.
ReadRow(p, outcome) ==
    LET d == proc[p]
        v == d.v
    IN  /\ d.pc = "read" /\ Fault(outcome # "ok")
        /\ IF ~job[v].on \/ job[v].blocked # "no" \/ ~Current(v, d.n)
           THEN outcome = "ok" /\ Finish(p) /\ UNCHANGED <<job, unseen>>
           ELSE CASE outcome = "denied" -> Pause(p, "denied") /\ UNCHANGED unseen
                  [] outcome \in {"failed", "limited"} -> WriteFailed(p, outcome = "limited") /\ UNCHANGED unseen
                  [] outcome = "ok" /\ row.link # video[v].link -> Pause(p, "source") /\ UNCHANGED unseen
                  [] OTHER -> /\ Become(p, [d EXCEPT !.pc = "verify", !.filled = Filled])
                              /\ unseen' = [unseen EXCEPT ![p] = {}]
                              /\ UNCHANGED job
        /\ UNCHANGED <<dataVars, rowVars, paidVars, mediaVars>>

\* patchEmptyDeliveryFields: the attempt once more, just before the write.
VerifyAttempt(p) ==
    LET d == proc[p]
        ok == Current(d.v, d.n)
    IN  /\ d.pc = "verify"
        /\ IF ok THEN Become(p, [d EXCEPT !.pc = "put"]) ELSE Finish(p)
        /\ unseen' = [unseen EXCEPT ![p] = IF ok THEN @ \ {"restart"} ELSE @]
        /\ UNCHANGED <<dataVars, job, rowVars, paidVars, mediaVars, budget>>

Proposed(d) ==
    CASE d.goal = "file"  -> {"file"}
      [] d.goal = "early" -> d.has \cap {"speech", "translation"}
      [] OTHER -> (d.has \cap {"speech", "translation"}) \cup (IF d.subtitle THEN {"subtitle"} ELSE {})

\* Mutant: the row as it was before the uploads decides.
StalePatch(d) == Proposed(d) \ d.seen

\* emptyFieldPatch: only what was empty when the row was read.
EmptyFieldPatch(d) == Proposed(d) \ d.filled

AfterPut(d) ==
    CASE d.goal = "file" -> AfterFile(d)
      [] d.goal = "early" -> Idle
      [] OTHER -> [d EXCEPT !.pc = "settle"]

\* The answer of a write that took place may be lost.
PutRow(p, outcome) ==
    LET d == proc[p]
        fields == IF outcome \in {"ok", "lost"} THEN EmptyFieldPatch(d) ELSE {}
    IN  /\ d.pc = "put" /\ Fault(outcome # "ok") /\ (EmptyFieldPatch(d) = {} => outcome = "ok")
        /\ cell' = [f \in Fields |-> IF f \in fields THEN d.v ELSE cell[f]]
        /\ unseen' = [q \in Processes |-> IF q = p THEN unseen[q] ELSE unseen[q] \cup fields]
        /\ CASE outcome = "ok" -> Become(p, AfterPut(d)) /\ UNCHANGED job
             [] outcome = "denied" -> Pause(p, "denied")
             [] OTHER -> WriteFailed(p, outcome = "limited")
        /\ UNCHANGED <<dataVars, row, paidVars, mediaVars>>

\* The text that is neither in the row nor in the video.
Missing(d) == {"speech", "translation"} \ (d.seen \cup d.has)

\* The end of a pass, once the row is written.
SettleJob(p) ==
    LET d == proc[p]
        j == job[d.v]
        giveUp == d.subtitlePending /\ ~d.filePending /\ d.jobAttempts + 1 >= SubtitleGiveUpAfter
        settled == IF d.filePending \/ d.subtitlePending
                      THEN (IF giveUp THEN Block(Increment(j), "subtitle") ELSE Increment(j))
                   ELSE IF Missing(d) = {} THEN NoJob
                   ELSE IF "translation" \in Missing(d) /\ stage[d.v][d.n] = "running" THEN j
                   ELSE IF "speech" \in Missing(d) THEN Block(j, "speech")
                   ELSE Block(j, "translation")
    IN  /\ d.pc = "settle"
        /\ job' = [job EXCEPT ![d.v] = settled]
        /\ Finish(p)
        /\ UNCHANGED <<dataVars, rowVars, paidVars, mediaVars, unseen, budget>>

Crash(p) ==
    /\ Spend("crashes")
    /\ proc[p].pc # "idle" /\ Finish(p)
    /\ UNCHANGED <<dataVars, job, rowVars, paidVars, mediaVars, unseen>>

-----------------------------------------------------------------------------
(* pruneExpiredMedia: the candidate is read, the row lets go of the file,  *)
(* then the directory of the task is removed.                              *)

\* Mutant: a pending delivery does not keep the file.
PruneAny(v) ==
    /\ Spend("prunes")
    /\ prune[v] = "no" /\ video[v].status \in Terminal /\ "file" \in video[v].has
    /\ prune' = [prune EXCEPT ![v] = "candidate"]
    /\ UNCHANGED <<dataVars, job, rowVars, paidVars, disk, crossed, proc, unseen>>

PruneCandidate(v) ==
    /\ Spend("prunes")
    /\ prune[v] = "no" /\ video[v].status \in Terminal /\ "file" \in video[v].has /\ ~job[v].on
    /\ prune' = [prune EXCEPT ![v] = "candidate"]
    /\ UNCHANGED <<dataVars, job, rowVars, paidVars, disk, crossed, proc, unseen>>

PruneRelease(v) ==
    LET free == video[v].status \in Terminal /\ "file" \in video[v].has IN
    /\ prune[v] = "candidate"
    /\ prune' = [prune EXCEPT ![v] = IF free THEN "released" ELSE "no"]
    /\ video' = IF free THEN [video EXCEPT ![v].has = @ \ {"file"}] ELSE video
    /\ UNCHANGED <<stage, asking, early, job, rowVars, paidVars, disk, crossed, proc, unseen, budget>>

PruneRemove(v) ==
    /\ prune[v] = "released"
    /\ prune' = [prune EXCEPT ![v] = "no"]
    /\ disk' = [disk EXCEPT ![v] = FALSE]
    /\ UNCHANGED <<dataVars, job, rowVars, paidVars, crossed, proc, unseen, budget>>

-----------------------------------------------------------------------------
Outcomes == {"ok", "failed", "denied"}

Attempt(v) ==
    \/ StartAttempt(v) \/ Transcribe(v) \/ Translate(v) \/ Download(v)
    \/ \E ok \in BOOLEAN : EndAttempt(v, ok) \/ TranslationEnds(v, ok)
    \/ \E n \in Numbers : AgeStage(v, n)

Deliver(p) ==
    \/ \E o \in Outcomes : CheckRow(p, o) \/ UploadFile(p, o) \/ AskTranslation(p, o)
    \/ \E o \in {"ok", "failed"} : Subtitles(p, o)
    \/ ReserveRequest(p) \/ VerifyAttempt(p) \/ SettleJob(p)
    \/ \E o \in Outcomes \cup {"limited"} : ReadRow(p, o)
    \/ \E o \in Outcomes \cup {"limited", "lost"} : PutRow(p, o)

Prune(v) == PruneRelease(v) \/ PruneRemove(v)

Next ==
    \/ \E v \in Videos : \/ \E l \in Links : Click(v, l)
                         \/ Restart(v) \/ Attempt(v) \/ RetryDue(v) \/ TranslationLost(v) \/ PruneCandidate(v) \/ Prune(v)
    \/ \E f \in Fields : Edit(f)
    \/ \E l \in Links : EditLink(l)
    \/ BridgeSubtitle
    \/ \E p \in Processes : \/ \E v \in Videos : BeginFinal(p, v) \/ BeginEarly(p, v)
                            \/ Deliver(p) \/ Crash(p)

Spec == Init /\ [][Next]_vars

\* The worker of every process runs a pass every 30 s, a request ends (each has a
\* timeout), the retry time of a job comes, and the queue runs queued videos.
Fairness ==
    /\ \A v \in Videos : WF_vars(Attempt(v)) /\ WF_vars(RetryDue(v))
    /\ \A p \in Processes : /\ WF_vars(Deliver(p))
                            /\ \A v \in Videos : WF_vars(BeginFinal(p, v))

FairSpec == Spec /\ Fairness

-----------------------------------------------------------------------------
(* Properties.                                                             *)

Pauses == {"no", "denied", "source", "exhausted", "subtitle", "speech", "translation"}

VideoRow == [status : {"none", "queued", "running"} \cup Terminal, n : 0 .. MaxAttempts,
             link : Links \cup {None}, has : SUBSET Results]
JobRow   == [on : BOOLEAN, attempts : Nat, blocked : Pauses, due : BOOLEAN]
Delivery == [pc : {"idle", "check", "upload", "subtitle", "reserve", "ask", "read", "verify",
                   "put", "settle"},
             goal : {"final", "file", "early"}, v : Videos, n : 0 .. MaxAttempts,
             done : BOOLEAN, has : SUBSET Results, jobAttempts : Nat,
             seen : SUBSET Fields, filled : SUBSET Fields, tries : 0 .. PutTries,
             asks : 0 .. Retries, filePending : BOOLEAN,
             subtitlePending : BOOLEAN, subtitle : BOOLEAN]

\* Every row, job, cell, marker and delivery has a value the code can give it.  The
\* attempts of a job have no bound: two processes may each count a failure of its last.
TypeOK ==
    /\ video \in [Videos -> VideoRow]
    /\ stage \in [Videos -> [Numbers -> {"none", "running", "stale", "completed", "failed"}]]
    /\ asking \in [Videos -> 0 .. MaxAttempts] /\ early \subseteq Videos
    /\ job \in [Videos -> JobRow]
    /\ row \in [link : Links, owner : Videos]
    /\ cell \in [Fields -> Videos \cup {Person, None}]
    /\ markers \in [Videos -> [Numbers -> 0 .. SubtitleRequests]]
    /\ cache \in [Videos -> [Numbers -> BOOLEAN]]
    /\ paid \in [Videos -> [Numbers -> Nat]]
    /\ disk \in [Videos -> BOOLEAN] /\ prune \in [Videos -> {"no", "candidate", "released"}]
    /\ crossed \subseteq Videos
    /\ proc \in [Processes -> Delivery]
    /\ unseen \in [Processes -> SUBSET (Fields \cup {"click", "restart"})]

\* A delivery replaces what a cell holds (a person's text, another delivery's) only
\* when it was put there after the delivery read the row for this very write: never
\* what came during its uploads, its subtitle requests or its earlier tries.  And it
\* writes for the video of the row's last click and the attempt that video is at, unless
\* the click came after its last look at the job or the retry after its last look at the
\* attempt (patchEmptyDeliveryFields, automation.ts:369-387).
PutsRespectRow ==
    [][\A p \in Processes :
          LET d == proc[p] IN
          d.pc = "put" /\ proc'[p] # d /\ cell' # cell
          => /\ \A f \in Fields : cell[f] # None /\ cell'[f] # cell[f] => f \in unseen[p]
             /\ d.v = row.owner \/ "click" \in unseen[p]
             /\ Current(d.v, d.n) \/ "restart" \in unseen[p]]_vars

\* The subtitles of one attempt are never asked of the provider more than twice,
\* whatever the passes, the retries, the crashes and the processes (subtitle.ts:82).
SubtitleBudget == \A v \in Videos, n \in Numbers : paid[v][n] <= SubtitleRequests

\* A pass deletes the job only when everything it was to deliver is in the row, where people
\* may fill cells and do not empty them (automation.ts:699-719).
RetiredWhenDelivered ==
    [][\A p \in Processes :
          LET d == proc[p] IN
          d.pc = "settle" /\ proc'[p] # d /\ job[d.v].on /\ ~job'[d.v].on
          => /\ d.has \subseteq Filled
             /\ d.done /\ "speech" \in d.has => "subtitle" \in Filled]_vars

\* "The database stops pointing at the file before it is deleted, so a later retry or
\* handcard sync never tries to upload a missing file" (media-retention.ts:15-16): a row
\* names a file that is gone only where a retry has downloaded it between the UPDATE and the
\* deletion (media-retention.ts:46-54), and never where a delivery job will upload it.
NoMissingFile ==
    \A v \in Videos : "file" \in video[v].has /\ ~disk[v] => v \in crossed /\ ~job[v].on

\* Every job of a video that has ended is delivered, paused with a reason,
\* superseded, or its video is retried: none is tried for ever.
EveryJobSettles ==
    \A v \in Videos :
        job[v].on /\ job[v].blocked = "no" /\ video[v].status \in Terminal
        ~> ~job[v].on \/ job[v].blocked # "no" \/ video[v].status \notin Terminal

\* What an ended attempt has obtained is in the row, or a job will bring it
\* there: "Explicit new attempts resume delivery" (database.ts:1228).
NoResultStranded ==
    \A v \in Videos : video[v].status \in Terminal /\ row.owner = v /\ ~job[v].on
                       => video[v].has \subseteq Filled
=============================================================================
