------------------------------ MODULE VideoQueue ------------------------------
(***************************************************************************)
(* The video queue: lib/queue.ts (the queue of a process and the run of    *)
(* one video), lib/video-execution.ts (the MySQL session locks that share  *)
(* two execution slots and one task lock per video between processes),     *)
(* the video rows of lib/database.ts and, of lib/analysis.ts, the control  *)
(* of one attempt: what it reads of the row and what it writes to it.      *)
(*                                                                         *)
(* A run belongs to one process; the attempt it starts is a promise that   *)
(* goes on when the run gives up on it.  A run reads the row, decides, and *)
(* writes in a later step: other processes, the attempts of earlier runs,  *)
(* an administrator's retry and a stop may come in between.  Processes     *)
(* crash, sessions are cut and are noticed later, statements fail.         *)
(***************************************************************************)
EXTENDS Naturals, FiniteSets

CONSTANTS
    Processes,
    Videos,
    Inbox,        \* the videos bound to a completed inbox task
    Slots,        \* execution slots of the database (2 in the code)
    MaxActive,    \* videos one process runs at a time (2 in the code)
    MaxAttempts,  \* bound on the attempts of one video
    Budgets,      \* bounds on calls, stops, crashes, cuts and errors, the
                  \* processes at work and the videos that wait for them
    None

Bounded == [calls : Nat, stops : Nat, crashes : Nat, cuts : Nat, errors : Nat,
            workers : SUBSET Processes, open : SUBSET Videos]

ASSUME QueueConstants ==
    /\ Inbox \subseteq Videos
    /\ MaxActive \in Nat \ {0}
    /\ MaxAttempts \in Nat
    /\ Budgets \subseteq Bounded
    /\ None \notin Processes \X Videos

VARIABLES
    status,     \* videos.status
    started,    \* videos.processing_started_at: the attempt that set it, or 0
    count,      \* videos.attempt_count
    attempt,    \* video_attempts.status
    asked,      \* times a user put the video into the queue (history)
    disturbed,  \* sessions cut and statements failed while it was run (history)
    taskLock,   \* MySQL lock of each video: the run whose session holds it
    slot,       \* MySQL lock of each slot: the run whose session holds it
    queue,      \* __viralQueue of each process
    deferred,   \* __viralQueueDeferred of each process
    fresh,      \* the process has not yet done its startup recovery
    run,        \* runVideo of each process and video
    analysis,   \* analyzeVideo of each video and attempt
    adding,     \* calls of enqueueVideos under way
    stopping,   \* calls of stopVideo that have yet to write the row
    budget      \* what is left of the bounds

rowVars  == <<status, started, count, attempt, asked, disturbed>>
lockVars == <<taskLock, slot>>
memVars  == <<queue, deferred, fresh>>
callVars == <<adding, stopping>>
vars     == <<rowVars, lockVars, memVars, run, analysis, callVars, budget>>

Terminal == {"completed", "failed", "stopped"}
Numbers  == 1 .. MaxAttempts

\* conn: the session of the lease is up, was cut, or is known to be lost.
\* sig: the reason the abort signal of the run was given.  seen: what was read.
NoRun == [pc |-> "off", conn |-> "none", sig |-> "none", n |-> 0, seen |-> "none"]
NoAnalysis == [pc |-> "none", sig |-> "none", by |-> None]

\* Every video was created 'queued'; its process may have died before waking it.
\* A video that does not wait was stopped before any process came to it.
Init ==
    /\ budget \in Budgets
    /\ status = [v \in Videos |-> IF v \in budget.open THEN "queued" ELSE "stopped"]
    /\ started = [v \in Videos |-> 0]
    /\ count = [v \in Videos |-> 0]
    /\ attempt = [v \in Videos |-> [n \in Numbers |-> "none"]]
    /\ asked = [v \in Videos |-> 1]
    /\ disturbed = [v \in Videos |-> 0]
    /\ taskLock = [v \in Videos |-> None]
    /\ slot = [s \in Slots |-> None]
    /\ queue = [p \in Processes |-> {}]
    /\ deferred = [p \in Processes |-> {}]
    /\ fresh = [p \in Processes |-> TRUE]
    /\ run = [p \in Processes |-> [v \in Videos |-> NoRun]]
    /\ analysis = [v \in Videos |-> [n \in Numbers |-> NoAnalysis]]
    /\ adding = {} /\ stopping = {}

Spend(what) == budget[what] > 0 /\ budget' = [budget EXCEPT ![what] = @ - 1]

-----------------------------------------------------------------------------
(* The queue of a process.                                                 *)

Active(runs) == {v \in Videos : runs[v].pc # "off"}

\* schedule(): start queued videos until MaxActive run or the queue is empty.
\* The order of the queue is not kept; a queued video that is still active when
\* its turn comes is dropped.
Schedule(p, waiting, runs) ==
    \E start \in SUBSET (waiting \ Active(runs)), drop \in SUBSET (waiting \cap Active(runs)) :
        LET busy == Cardinality(Active(runs) \cup start) IN
        /\ busy <= MaxActive
        /\ busy < MaxActive => waiting = start \cup drop
        /\ Cardinality(Active(runs)) = MaxActive => drop = {}
        /\ queue' = [queue EXCEPT ![p] = waiting \ (start \cup drop)]
        /\ run' = [run EXCEPT ![p] = [v \in Videos |->
              IF v \in start THEN [NoRun EXCEPT !.pc = "acquiring"] ELSE runs[v]]]

\* enqueueVideos: an active video is skipped.  The administrator's retry first
\* reads that the video failed or was stopped.
EnqueueVideo(p, v, restart) ==
    /\ Spend("calls") /\ p \in budget.workers
    /\ restart => status[v] \in {"failed", "stopped"}
    /\ run[p][v].pc = "off"
    /\ adding' = adding \cup {[proc |-> p, video |-> v, restart |-> restart, ready |-> FALSE]}
    /\ UNCHANGED <<rowVars, lockVars, memVars, run, analysis, stopping>>

\* One UPDATE: never while an attempt is marked as started.
PrepareVideoForQueue(c) ==
    LET v == c.video
        allowed == started[v] = 0 /\ (status[v] = "queued" \/ (c.restart /\ status[v] \in Terminal))
    IN  /\ ~c.ready
        /\ status' = IF allowed THEN [status EXCEPT ![v] = "queued"] ELSE status
        /\ asked' = IF allowed /\ status[v] # "queued" THEN [asked EXCEPT ![v] = @ + 1] ELSE asked
        /\ adding' = (adding \ {c}) \cup {d \in {[c EXCEPT !.ready = TRUE]} : allowed}
        /\ UNCHANGED <<started, count, attempt, disturbed, lockVars, memVars, run, analysis, stopping, budget>>

AddToQueue(c) ==
    /\ c.ready
    /\ adding' = adding \ {c}
    /\ Schedule(c.proc, queue[c.proc] \cup {c.video}, run[c.proc])
    /\ UNCHANGED <<rowVars, lockVars, deferred, fresh, analysis, stopping, budget>>

\* Mutant: a terminal row that is still marked as being executed is not found.
OpenVideos(all) == {v \in Videos : status[v] \notin Terminal /\ (all \/ v \in Inbox)}

\* getPendingVideoIds: all of them at startup, those of the inbox every 10 s.
PendingVideos(all) ==
    {v \in Videos : (status[v] \notin Terminal \/ started[v] # 0) /\ (all \/ v \in Inbox)}

ResumePendingVideos(p) ==
    LET pending == PendingVideos(fresh[p]) \cup deferred[p] IN
    /\ p \in budget.workers
    /\ fresh[p] \/ ~ pending \subseteq (queue[p] \cup Active(run[p])) \/ deferred[p] # {}
    /\ fresh' = [fresh EXCEPT ![p] = FALSE]
    /\ deferred' = [deferred EXCEPT ![p] = {}]
    /\ Schedule(p, queue[p] \cup (pending \ Active(run[p])), run[p])
    /\ UNCHANGED <<rowVars, lockVars, analysis, callVars, budget>>

-----------------------------------------------------------------------------
(* runVideo.                                                               *)

GoTo(p, v, pc) == run' = [run EXCEPT ![p][v].pc = pc]
\* Mutant: what was read is not handed on to the step that writes.
GoToUnseeing(p, v, pc, seen) == GoTo(p, v, pc)
GoToSeeing(p, v, pc, seen) == run' = [run EXCEPT ![p][v].pc = pc, ![p][v].seen = seen]

\* The signal is shared with the attempt of the run; the first reason stays.
Abort(p, v, reason) ==
    LET n == run[p][v].n IN
    /\ run' = [run EXCEPT ![p][v].sig = IF @ = "none" THEN reason ELSE @]
    /\ analysis' = IF n = 0 THEN analysis
                   ELSE [analysis EXCEPT ![v][n].sig = IF @ = "none" THEN reason ELSE @]

\* Locks a session gives up, by release() or because it ended.
Unlocked(lock, session) == [x \in DOMAIN lock |-> IF lock[x] = session THEN None ELSE lock[x]]
\* Mutant: only the first lock that was taken is released.
ReleaseTaskLock(session) == taskLock' = Unlocked(taskLock, session) /\ UNCHANGED slot
ReleaseLocks(session) ==
    /\ taskLock' = Unlocked(taskLock, session)
    /\ slot' = Unlocked(slot, session)

RunEnds(p, v) == Schedule(p, queue[p], [run[p] EXCEPT ![v] = NoRun])

\* A video that is locked elsewhere, or for which no slot is free, is tried again
\* by the next recovery.
Defer(p, v) ==
    /\ deferred' = [deferred EXCEPT ![p] = @ \cup {v}]
    /\ RunEnds(p, v)

NeedsSlot(v) == status[v] = "queued" /\ started[v] = 0
FreeSlots == {s \in Slots : slot[s] = None}

\* tryAcquireVideoExecution: the task lock, the row, and a slot if the row is
\* that of a video to be executed.
Acquire(p, v) ==
    /\ run[p][v].pc = "acquiring"
    /\ \/ /\ taskLock[v] = None
          /\ \/ ~NeedsSlot(v) /\ UNCHANGED slot
             \/ NeedsSlot(v) /\ \E s \in FreeSlots : slot' = [slot EXCEPT ![s] = <<p, v>>]
          /\ taskLock' = [taskLock EXCEPT ![v] = <<p, v>>]
          /\ run' = [run EXCEPT ![p][v].pc = "leased", ![p][v].conn = "up"]
          /\ UNCHANGED <<queue, deferred>>
       \/ /\ taskLock[v] # None \/ (NeedsSlot(v) /\ FreeSlots = {})
          /\ Defer(p, v)
          /\ UNCHANGED lockVars
    /\ UNCHANGED <<rowVars, fresh, analysis, callVars, budget>>

\* Mutant: a queued row is executed without looking at its marker.
InspectStatusOnly(p, v) ==
    /\ run[p][v].pc = "leased"
    /\ GoTo(p, v, IF status[v] \in Terminal THEN "releasing"
                  ELSE IF status[v] = "queued" THEN "starting" ELSE "orphaned")
    /\ UNCHANGED <<rowVars, lockVars, memVars, analysis, callVars, budget>>

\* What the row says once the lease is held.
Inspect(p, v) ==
    /\ run[p][v].pc = "leased"
    /\ \/ status[v] \in Terminal /\ started[v] = 0 /\ GoTo(p, v, "releasing")
       \/ status[v] \in Terminal /\ started[v] # 0 /\ GoToSeeing(p, v, "closing", status[v])
       \/ status[v] \notin Terminal /\ ~NeedsSlot(v) /\ GoTo(p, v, "orphaned")
       \/ NeedsSlot(v) /\ GoTo(p, v, IF run[p][v].sig = "none" THEN "starting" ELSE "caught")
    /\ UNCHANGED <<rowVars, lockVars, memVars, analysis, callVars, budget>>

\* Mutant: open attempts of earlier runs are left as they are.
OpenAttemptsKept(v, outcome) == attempt

\* finishOpenVideoAttempts.
OpenAttemptsFinished(v, outcome) ==
    [attempt EXCEPT ![v] = [n \in Numbers |-> IF @[n] = "running" THEN outcome ELSE @[n]]]

\* An ended attempt whose worker never settled it.
CloseAttempts(p, v) ==
    /\ run[p][v].pc = "closing"
    /\ attempt' = OpenAttemptsFinished(v, run[p][v].seen)
    /\ GoTo(p, v, "clearing")
    /\ UNCHANGED <<status, started, count, asked, disturbed, lockVars, memVars, analysis, callVars, budget>>

ClearMarker(p, v) ==
    /\ run[p][v].pc = "clearing"
    /\ started' = [started EXCEPT ![v] = 0]
    /\ GoTo(p, v, "releasing")
    /\ UNCHANGED <<status, count, attempt, asked, disturbed, lockVars, memVars, analysis, callVars, budget>>

\* An attempt whose worker died: it is stopped, never replayed.
StopOrphan(p, v) ==
    /\ run[p][v].pc = "orphaned"
    /\ IF run[p][v].conn = "lost"
       THEN GoTo(p, v, "releasing") /\ UNCHANGED <<status, started>>
       ELSE /\ status' = [status EXCEPT ![v] = "stopped"]
            /\ started' = [started EXCEPT ![v] = 0]
            /\ GoTo(p, v, "closing_orphan")
    /\ UNCHANGED <<count, attempt, asked, disturbed, lockVars, memVars, analysis, callVars, budget>>

CloseOrphan(p, v) ==
    /\ run[p][v].pc = "closing_orphan"
    /\ attempt' = OpenAttemptsFinished(v, "stopped")
    /\ GoTo(p, v, "releasing")
    /\ UNCHANGED <<status, started, count, asked, disturbed, lockVars, memVars, analysis, callVars, budget>>

\* One transaction; it does not look at the status again.
StartVideoAttempt(p, v) ==
    LET n == count[v] + 1 IN
    /\ run[p][v].pc = "starting" /\ n \in Numbers
    /\ count' = [count EXCEPT ![v] = n]
    /\ started' = [started EXCEPT ![v] = n]
    /\ attempt' = [OpenAttemptsFinished(v, "stopped") EXCEPT ![v][n] = "running"]
    /\ run' = [run EXCEPT ![p][v].pc = "racing", ![p][v].n = n]
    /\ analysis' = [analysis EXCEPT ![v][n] = [pc |-> "loading", sig |-> run[p][v].sig, by |-> p]]
    /\ UNCHANGED <<status, asked, disturbed, lockVars, memVars, callVars, budget>>

\* Promise.race of the analysis and the abort signal, and the catch clause.  A run
\* that knows its lease is lost leaves the row to the recovery; otherwise the row
\* is read and, if need be, published in a later step.
Throws(p, v) ==
    LET r == run[p][v] IN
    r.pc = "caught" \/ (r.pc = "racing" /\ (analysis[v][r.n].pc = "rejected" \/ r.sig # "none"))

Catch(p, v) ==
    LET sig == run[p][v].sig
        lost == run[p][v].conn = "lost"
    IN  /\ Throws(p, v)
        /\ deferred' = IF lost THEN [deferred EXCEPT ![p] = @ \cup {v}] ELSE deferred
        /\ IF ~lost /\ (status[v] \notin Terminal \/ (sig = "timeout" /\ status[v] # "completed"))
           THEN GoToSeeing(p, v, "publishing", IF sig = "none" THEN "failed" ELSE "stopped")
           ELSE GoTo(p, v, "settling")
        /\ UNCHANGED <<rowVars, lockVars, queue, fresh, analysis, callVars, budget>>

Publish(p, v) ==
    /\ run[p][v].pc = "publishing"
    /\ status' = [status EXCEPT ![v] = run[p][v].seen]
    /\ started' = [started EXCEPT ![v] = 0]
    /\ GoToSeeing(p, v, "settling", "none")
    /\ UNCHANGED <<count, attempt, asked, disturbed, lockVars, memVars, analysis, callVars, budget>>

\* The finally clause: the outcome of the attempt is read off the row.
ReadOutcome(p, v) ==
    /\ \/ run[p][v].pc = "settling"
       \/ run[p][v].pc = "racing" /\ analysis[v][run[p][v].n].pc = "resolved"
    /\ IF run[p][v].n = 0 \/ run[p][v].conn = "lost"
       THEN GoTo(p, v, "releasing")
       ELSE GoToSeeing(p, v, "finishing",
                IF status[v] \in {"completed", "stopped"} THEN status[v] ELSE "failed")
    /\ UNCHANGED <<rowVars, lockVars, memVars, analysis, callVars, budget>>

\* After a timeout the cached files are removed; should that fail, the row says so.
PublishCleanupFailure(p, v) ==
    /\ run[p][v].pc = "cleaning"
    /\ status' = [status EXCEPT ![v] = "stopped"]
    /\ started' = [started EXCEPT ![v] = 0]
    /\ GoToSeeing(p, v, "settling", "stopped")
    /\ UNCHANGED <<count, attempt, asked, disturbed, lockVars, memVars, analysis, callVars, budget>>

\* Mutant: the attempt is settled whether or not it is still open.
FinishAnyAttempt(p, v) ==
    LET n == run[p][v].n IN
    /\ run[p][v].pc = "finishing"
    /\ attempt' = [attempt EXCEPT ![v][n] = run[p][v].seen]
    /\ started' = [started EXCEPT ![v] = IF @ = n THEN 0 ELSE @]
    /\ GoTo(p, v, "releasing")
    /\ UNCHANGED <<status, count, asked, disturbed, lockVars, memVars, analysis, callVars, budget>>

FinishVideoAttempt(p, v) ==
    LET n == run[p][v].n IN
    /\ run[p][v].pc = "finishing"
    /\ IF attempt[v][n] = "running"
       THEN /\ attempt' = [attempt EXCEPT ![v][n] = run[p][v].seen]
            /\ started' = [started EXCEPT ![v] = IF @ = n THEN 0 ELSE @]
       ELSE UNCHANGED <<attempt, started>>
    /\ GoTo(p, v, "releasing")
    /\ UNCHANGED <<status, count, asked, disturbed, lockVars, memVars, analysis, callVars, budget>>

Release(p, v) ==
    /\ run[p][v].pc = "releasing"
    /\ ReleaseLocks(<<p, v>>)
    /\ RunEnds(p, v)
    /\ analysis' = [analysis EXCEPT ![v] = [n \in Numbers |->
          IF n = run[p][v].n /\ @[n].pc \in {"resolved", "rejected"} THEN NoAnalysis ELSE @[n]]]
    /\ UNCHANGED <<rowVars, deferred, fresh, callVars, budget>>
-----------------------------------------------------------------------------
(* What aborts a run: the timer, the heartbeat of its lease, a stop.       *)

\* Where the signal may still be read.
SignalRead == {"leased", "closing", "clearing", "orphaned", "closing_orphan", "starting",
               "racing", "caught"}

Timeout(p, v) ==
    /\ run[p][v].pc \in SignalRead /\ run[p][v].n # 0
    /\ run[p][v].sig = "none"
    /\ Abort(p, v, "timeout")
    /\ UNCHANGED <<rowVars, lockVars, memVars, callVars, budget>>

\* The row was stopped, possibly by another process.
HeartbeatSeesStop(p, v) ==
    /\ run[p][v].pc \in SignalRead /\ run[p][v].conn = "up" /\ run[p][v].sig = "none"
    /\ status[v] = "stopped"
    /\ Abort(p, v, "stop")
    /\ UNCHANGED <<rowVars, lockVars, memVars, callVars, budget>>

\* lost(): the session is found to be gone.
NoticeLoss(p, v) ==
    LET r == run[p][v] IN
    /\ r.conn = "cut" /\ r.pc # "releasing"
    /\ run' = [run EXCEPT ![p][v].conn = "lost",
                          ![p][v].sig = IF @ = "none" THEN "lost" ELSE @]
    /\ analysis' = IF r.n = 0 THEN analysis
                   ELSE [analysis EXCEPT ![v][r.n].sig = IF @ = "none" THEN "lost" ELSE @]
    /\ UNCHANGED <<rowVars, lockVars, memVars, callVars, budget>>

StopVideo(p, v) ==
    /\ Spend("stops") /\ p \in budget.workers
    /\ queue' = [queue EXCEPT ![p] = @ \ {v}]
    /\ deferred' = [deferred EXCEPT ![p] = @ \ {v}]
    /\ IF run[p][v].pc = "off" THEN UNCHANGED <<run, analysis>> ELSE Abort(p, v, "stop")
    /\ stopping' = stopping \cup {<<p, v>>}
    /\ UNCHANGED <<rowVars, lockVars, fresh, adding>>

\* The marker of the attempt stays until its owner has stopped.
WriteStopped(c) ==
    /\ stopping' = stopping \ {c}
    /\ status' = [status EXCEPT ![c[2]] = "stopped"]
    /\ UNCHANGED <<started, count, attempt, asked, disturbed, lockVars, memVars, run, analysis, adding, budget>>

-----------------------------------------------------------------------------
(* analyzeVideo, attempt n of video v.  Its signal no longer changes once   *)
(* its run is over.                                                        *)

AnalysisAt(v, n, pc) == analysis' = [analysis EXCEPT ![v][n].pc = pc]

\* The promise ends; one whose run is over is observed by nobody.
AnalysisEnds(v, n, pc) == analysis' = [analysis EXCEPT ![v][n] =
    IF run[@.by][v].n = n THEN [@ EXCEPT !.pc = pc] ELSE NoAnalysis]
OnlyAnalysis == UNCHANGED <<rowVars, lockVars, memVars, run, callVars, budget>>

\* The video and its product are read before the try block.
LoadVideo(v, n) ==
    /\ analysis[v][n].pc = "loading"
    /\ AnalysisAt(v, n, "checking") \/ AnalysisEnds(v, n, "rejected")
    /\ OnlyAnalysis

OwnsVideoAttempt(v, n) == count[v] = n
MayGoOn(v, n) ==
    analysis[v][n].sig = "none" /\ status[v] # "stopped" /\ OwnsVideoAttempt(v, n)

\* assertVideoAttempt, before more work or before the result is published.
AssertVideoAttempt(v, n) ==
    /\ analysis[v][n].pc = "checking"
    /\ IF MayGoOn(v, n)
       THEN AnalysisAt(v, n, "working") \/ AnalysisAt(v, n, "completing")
       ELSE AnalysisAt(v, n, "failing")
    /\ OnlyAnalysis

\* setStage: not every one follows a check (the second one comes after the
\* requests of the first, and retries report their stage as well).
SetStage(v, n) ==
    /\ analysis[v][n].pc = "working"
    /\ status' = [status EXCEPT ![v] = "downloading"]
    /\ AnalysisAt(v, n, "working") \/ AnalysisAt(v, n, "checking")
    /\ UNCHANGED <<started, count, attempt, asked, disturbed, lockVars, memVars, run, callVars, budget>>

\* A provider, a download or the abort signal throws.
WorkThrows(v, n) ==
    /\ analysis[v][n].pc \in {"working", "checking"}
    /\ AnalysisAt(v, n, "failing")
    /\ OnlyAnalysis

CompleteVideo(v, n) ==
    /\ analysis[v][n].pc = "completing"
    /\ status' = [status EXCEPT ![v] = "completed"]
    /\ started' = [started EXCEPT ![v] = 0]
    /\ AnalysisAt(v, n, "delivering")
    /\ UNCHANGED <<count, attempt, asked, disturbed, lockVars, memVars, run, callVars, budget>>

\* The check after the delivery to the product document.
AssertStillOwned(v, n) ==
    /\ analysis[v][n].pc = "delivering"
    /\ IF MayGoOn(v, n) THEN AnalysisEnds(v, n, "resolved") ELSE AnalysisAt(v, n, "failing")
    /\ OnlyAnalysis

\* The catch clause: timeouts and lost leases are published by others.
AnalysisCatch(v, n) ==
    /\ analysis[v][n].pc = "failing"
    /\ IF analysis[v][n].sig \in {"timeout", "lost"} \/ ~OwnsVideoAttempt(v, n)
       THEN AnalysisEnds(v, n, "rejected")
       ELSE AnalysisAt(v, n, "writing")
    /\ OnlyAnalysis

WriteFailed(v, n) ==
    /\ analysis[v][n].pc = "writing"
    /\ status' = [status EXCEPT ![v] = IF analysis[v][n].sig = "none" THEN "failed" ELSE "stopped"]
    /\ started' = [started EXCEPT ![v] = 0]
    /\ AnalysisEnds(v, n, "rejected")
    /\ UNCHANGED <<count, attempt, asked, disturbed, lockVars, memVars, run, callVars, budget>>

-----------------------------------------------------------------------------
(* Faults.                                                                 *)

Disturb(v, what) == Spend(what) /\ disturbed' = [disturbed EXCEPT ![v] = @ + 1]

\* The server ends the session of a lease, and with it its locks.
CutSession(p, v) ==
    /\ run[p][v].conn = "up" /\ run[p][v].pc # "releasing"
    /\ Disturb(v, "cuts")
    /\ ReleaseLocks(<<p, v>>)
    /\ run' = [run EXCEPT ![p][v].conn = "cut"]
    /\ UNCHANGED <<status, started, count, attempt, asked, memVars, analysis, callVars>>

\* A process is killed and started again: what it had in memory is gone.
Crash(p) ==
    /\ Spend("crashes") /\ p \in budget.workers
    /\ LET mine == {p} \X Videos IN
          /\ taskLock' = [v \in Videos |-> IF taskLock[v] \in mine THEN None ELSE taskLock[v]]
          /\ slot' = [s \in Slots |-> IF slot[s] \in mine THEN None ELSE slot[s]]
          /\ stopping' = stopping \ mine
    /\ queue' = [queue EXCEPT ![p] = {}]
    /\ deferred' = [deferred EXCEPT ![p] = {}]
    /\ fresh' = [fresh EXCEPT ![p] = TRUE]
    /\ run' = [run EXCEPT ![p] = [v \in Videos |-> NoRun]]
    /\ analysis' = [v \in Videos |-> [n \in Numbers |->
          IF analysis[v][n].by = p THEN NoAnalysis ELSE analysis[v][n]]]
    /\ adding' = {c \in adding : c.proc # p}
    /\ UNCHANGED rowVars

\* A statement of runVideo fails: before the catch clause it leads there, in the
\* catch clause it leads to the finally clause, and there it leads to release().
StatementFails(p, v) ==
    /\ Disturb(v, "errors")
    /\ \/ /\ run[p][v].pc \in {"leased", "closing", "clearing", "orphaned", "closing_orphan", "starting"}
          /\ GoTo(p, v, "caught")
          /\ UNCHANGED attempt
       \/ /\ Throws(p, v) /\ run[p][v].conn # "lost"
          /\ GoTo(p, v, "settling")
          /\ UNCHANGED attempt
       \/ /\ run[p][v].pc = "publishing"
          /\ GoToSeeing(p, v, "settling", "none")
          /\ UNCHANGED attempt
       \/ /\ run[p][v].pc = "settling" /\ run[p][v].n # 0 /\ run[p][v].conn # "lost"
          /\ GoToSeeing(p, v, "finishing", "failed")
          /\ UNCHANGED attempt
       \/ /\ run[p][v].pc = "settling" /\ run[p][v].n # 0 /\ run[p][v].conn # "lost"
          /\ run[p][v].sig = "timeout" /\ run[p][v].seen = "none" /\ status[v] # "completed"
          /\ GoTo(p, v, "cleaning")
          /\ UNCHANGED attempt
       \/ /\ run[p][v].pc = "finishing"
          /\ \/ UNCHANGED attempt
             \/ /\ run[p][v].seen # "completed"
                /\ attempt' = OpenAttemptsFinished(v, run[p][v].seen)
          /\ GoTo(p, v, "releasing")
    /\ UNCHANGED <<status, started, count, asked, lockVars, memVars, analysis, callVars>>

\* tryAcquireVideoExecution throws: there is no lease, the video is deferred.
AcquireFails(p, v) ==
    /\ run[p][v].pc = "acquiring"
    /\ Disturb(v, "errors")
    /\ Defer(p, v)
    /\ UNCHANGED <<status, started, count, attempt, asked, lockVars, fresh, analysis, callVars>>

\* A statement of analyzeVideo fails: it leads to the catch clause, and there out.
AnalysisStatementFails(v, n) ==
    /\ Disturb(v, "errors")
    /\ \/ analysis[v][n].pc \in {"completing", "delivering"} /\ AnalysisAt(v, n, "failing")
       \/ analysis[v][n].pc \in {"failing", "writing"} /\ AnalysisEnds(v, n, "rejected")
    /\ UNCHANGED <<status, started, count, attempt, asked, lockVars, memVars, run, callVars>>

-----------------------------------------------------------------------------
RunStep(p, v) ==
    \/ Acquire(p, v) \/ Inspect(p, v)
    \/ CloseAttempts(p, v) \/ ClearMarker(p, v)
    \/ StopOrphan(p, v) \/ CloseOrphan(p, v)
    \/ StartVideoAttempt(p, v)
    \/ Catch(p, v) \/ Publish(p, v) \/ PublishCleanupFailure(p, v)
    \/ ReadOutcome(p, v) \/ FinishVideoAttempt(p, v) \/ Release(p, v)

AnalysisStep(v, n) ==
    \/ LoadVideo(v, n) \/ AssertVideoAttempt(v, n) \/ SetStage(v, n) \/ WorkThrows(v, n)
    \/ CompleteVideo(v, n) \/ AssertStillOwned(v, n) \/ AnalysisCatch(v, n) \/ WriteFailed(v, n)

Next ==
    \/ \E p \in Processes : ResumePendingVideos(p) \/ Crash(p)
    \/ \E p \in Processes, v \in Videos :
          \/ \E restart \in BOOLEAN : EnqueueVideo(p, v, restart)
          \/ StopVideo(p, v)
          \/ RunStep(p, v)
          \/ Timeout(p, v) \/ HeartbeatSeesStop(p, v) \/ NoticeLoss(p, v)
          \/ CutSession(p, v) \/ StatementFails(p, v) \/ AcquireFails(p, v)
    \/ \E c \in adding : PrepareVideoForQueue(c) \/ AddToQueue(c)
    \/ \E c \in stopping : WriteStopped(c)
    \/ \E v \in Videos, n \in Numbers : AnalysisStep(v, n) \/ AnalysisStatementFails(v, n)

Spec == Init /\ [][Next]_vars

Calls == [proc : Processes, video : Videos, restart : BOOLEAN, ready : BOOLEAN]

\* The ten-second timer goes on, statements return, the thirty-minute timer fires
\* and a lost session is noticed.  Providers may hang for ever.
FairSpec ==
    /\ Spec
    /\ \A p \in Processes : WF_vars(ResumePendingVideos(p))
    /\ \A p \in Processes, v \in Videos :
          /\ WF_vars(RunStep(p, v)) /\ WF_vars(Timeout(p, v)) /\ WF_vars(NoticeLoss(p, v))
          /\ WF_vars(<<p, v>> \in stopping /\ WriteStopped(<<p, v>>))
    /\ \A c \in Calls : WF_vars(c \in adding /\ (PrepareVideoForQueue(c) \/ AddToQueue(c)))
-----------------------------------------------------------------------------
(* Properties.                                                             *)

RunState == [
    pc   : {"off", "acquiring", "leased", "closing", "clearing", "orphaned", "closing_orphan",
            "starting", "racing", "caught", "publishing", "settling", "cleaning", "finishing",
            "releasing"},
    conn : {"none", "up", "cut", "lost"},
    sig  : {"none", "stop", "timeout", "lost"},
    n    : 0 .. MaxAttempts,
    seen : {"none"} \cup Terminal]

AnalysisState == [
    pc  : {"none", "loading", "checking", "working", "completing", "delivering", "resolved",
           "failing", "writing", "rejected"},
    sig : {"none", "stop", "timeout", "lost"},
    by  : Processes \cup {None}]

\* Every row, lock, queue, run and promise has a value the code can give it.
TypeOK ==
    /\ status \in [Videos -> {"queued", "downloading"} \cup Terminal]
    /\ started \in [Videos -> 0 .. MaxAttempts]
    /\ count \in [Videos -> 0 .. MaxAttempts]
    /\ attempt \in [Videos -> [Numbers -> {"none", "running"} \cup Terminal]]
    /\ asked \in [Videos -> Nat]
    /\ disturbed \in [Videos -> Nat]
    /\ taskLock \in [Videos -> (Processes \X Videos) \cup {None}]
    /\ slot \in [Slots -> (Processes \X Videos) \cup {None}]
    /\ queue \in [Processes -> SUBSET Videos]
    /\ deferred \in [Processes -> SUBSET Videos]
    /\ fresh \in [Processes -> BOOLEAN]
    /\ run \in [Processes -> [Videos -> RunState]]
    /\ analysis \in [Videos -> [Numbers -> AnalysisState]]
    /\ adding \in SUBSET Calls
    /\ stopping \in SUBSET (Processes \X Videos)
    /\ budget \in Bounded

\* The locks of the database are those of the leases whose session is up: no early
\* return, failed statement, timeout or crash leaks a slot or a task lock, and a lock is
\* held for the video that its session was opened for (video-execution.ts 16-93).  Of a
\* run whose session was cut this says that it holds nothing, not that it has stopped.
Leased(p, v) == run[p][v].conn = "up"
LocksFollowLeases ==
    /\ \A p \in Processes, v \in Videos : Leased(p, v) <=> taskLock[v] = <<p, v>>
    /\ \A s \in Slots, p \in Processes, v \in Videos : slot[s] = <<p, v>> => Leased(p, v)

\* What is paid for was asked for: beyond the attempts users asked for there is at
\* most one per cut session or failed statement.  Crashes, timeouts and wake-ups
\* by any number of processes start no further attempt (queue.ts 129-141).  Only the
\* latest attempt may be open, and the marker of the row is its own: a run that a newer
\* attempt has overtaken cannot leave its mark on the video (database.ts 1236-1304).
AttemptsAccountedFor == \A v \in Videos :
    /\ count[v] <= asked[v] + disturbed[v]
    /\ started[v] \in {0, count[v]}
    /\ \A n \in Numbers : attempt[v][n] = "running" => n = count[v]

\* The outcome recorded for an attempt is never rewritten, neither by the run that
\* settles late nor by the recovery of another process (database.ts 1264-1304).
AttemptOutcomeIsFinal ==
    [][\A v \in Videos, n \in Numbers :
          attempt[v][n] \in Terminal => attempt'[v][n] = attempt[v][n]]_vars

\* Whenever the row of an inbox video is open, or marked as being executed, it is
\* later terminal and unmarked: deferred videos are tried again, dead attempts are
\* closed, hanging ones time out (queue.ts 110-256).
InboxVideoSettles == \A v \in Inbox :
    [](status[v] \notin Terminal \/ started[v] # 0 => <>(status[v] \in Terminal /\ started[v] = 0))

\* An attempt under way that nothing has aborted, whatever became of its session.
Executing(p, v) == run[p][v].pc = "racing" /\ run[p][v].sig = "none"

\* All processes of one database execute at most as many videos as there are slots
\* (README.md 55, video-execution.ts 12).
AtMostSlots ==
    Cardinality({w \in Processes \X Videos : Executing(w[1], w[2])}) <= Cardinality(Slots)
=============================================================================
