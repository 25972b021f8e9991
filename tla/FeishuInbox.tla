----------------------------- MODULE FeishuInbox -----------------------------
(***************************************************************************)
(* The durable inbox of Feishu actions: lib/feishu/request-dedup.ts (the   *)
(* receipt and the task are inserted by one transaction) and               *)
(* lib/feishu/inbox.ts (the workers that resume the tasks).                *)
(*                                                                         *)
(* Each process runs at most one pass per kind of task.  A pass holds a    *)
(* MySQL session lock of that kind, reads the oldest open tasks once, and  *)
(* processes them one after the other through the session that holds the   *)
(* lock.  Processes crash, sessions are lost while their process goes on,  *)
(* statements fail, and a COMMIT may succeed although its acknowledgement  *)
(* is lost.  Every such fault is drawn from the budget MaxFaults.          *)
(***************************************************************************)
EXTENDS Naturals, FiniteSets

CONSTANTS
    Requests,    \* invocation ids (the digest of scope and request id)
    Kind,        \* [Requests -> Kinds]
    RowOf,       \* [Requests -> rows of the task table]
    Processes,   \* application processes on one database
    Batch,       \* tasks read by one pass (10 in the code)
    MaxCalls,    \* bound on the HTTP calls of one behaviour
    MaxFaults,   \* bound on the faults of one behaviour
    None

Kinds == {"handcard", "video"}
Workers == Processes \X Kinds
Rows == {RowOf[r] : r \in Requests}

ASSUME InboxConstants ==
    /\ Kind \in [Requests -> Kinds]
    /\ Batch \in Nat \ {0} /\ MaxCalls \in Nat /\ MaxFaults \in Nat
    /\ None \notin Processes /\ None \notin Requests

VARIABLES
    clock,      \* number of HTTP calls so far: orders their timestamps
    calls,      \* calls between reading the time and their transaction
    receipt,    \* feishu_request_receipts.state
    task,       \* feishu_inbox_tasks.state
    created,    \* feishu_inbox_tasks.created_at
    videos,     \* number of videos created for a task
    job,        \* feishu_automation_jobs: the task whose video a row receives
    lock,       \* MySQL named lock of each kind: the process whose session holds it
    worker,     \* the pass of each process and kind
    claimed,    \* tasks set to 'running' so far (history)
    ran,        \* number of times the hand card handler was entered (history)
    returned,   \* what the handler returned, "none" before (history)
    faults

dbVars   == <<receipt, task, created, videos, job>>
histVars == <<claimed, ran, returned>>
vars     == <<clock, calls, dbVars, lock, worker, histVars, faults>>

Open    == {"pending", "running"}
Settled == {"completed", "partial", "failed", "paused"}

\* Mutant: the receipt of a paused task is set to 'paused'.
ReceiptOfUnmapped(state) == state

\* finish() writes "failed" to the receipt of a paused task.
ReceiptOf(state) == IF state = "paused" THEN "failed" ELSE state

Idle == [pc |-> "idle", alive |-> FALSE, todo |-> {}, cur |-> None,
         outcome |-> "failed", guarded |-> FALSE]

Init ==
    /\ clock = 0 /\ calls = {} /\ faults = 0
    /\ receipt = [r \in Requests |-> "none"]
    /\ task = [r \in Requests |-> "none"]
    /\ created = [r \in Requests |-> 0]
    /\ videos = [r \in Requests |-> 0]
    /\ job = [row \in Rows |-> None]
    /\ lock = [k \in Kinds |-> None]
    /\ worker = [w \in Workers |-> Idle]
    /\ claimed = {}
    /\ ran = [r \in Requests |-> 0]
    /\ returned = [r \in Requests |-> "none"]

-----------------------------------------------------------------------------
(* The HTTP routes.  The timestamp is taken before the transaction starts, *)
(* so calls may commit in another order than that of their timestamps.     *)

Arrive(r) ==
    /\ clock < MaxCalls
    /\ clock' = clock + 1
    /\ calls' = calls \cup {[id |-> r, at |-> clock']}
    /\ UNCHANGED <<dbVars, lock, worker, histVars, faults>>

\* Mutant: ON DUPLICATE KEY UPDATE state='accepted' instead of INSERT IGNORE.
ClaimUpserting(c) ==
    /\ calls' = calls \ {c}
    /\ receipt' = [receipt EXCEPT ![c.id] = "accepted"]
    /\ task' = [task EXCEPT ![c.id] = "pending"]
    /\ created' = [created EXCEPT ![c.id] = c.at]
    /\ UNCHANGED <<clock, videos, job, lock, worker, histVars, faults>>

\* INSERT IGNORE: a known id is answered with its state (or with 409 when the
\* contents differ) and nothing is written.  A call whose transaction is rolled
\* back, or whose process dies before the COMMIT, is one that never gets here.
ClaimFeishuRequest(c) ==
    /\ calls' = calls \ {c}
    /\ IF receipt[c.id] = "none"
       THEN /\ receipt' = [receipt EXCEPT ![c.id] = "accepted"]
            /\ task' = [task EXCEPT ![c.id] = "pending"]
            /\ created' = [created EXCEPT ![c.id] = c.at]
       ELSE UNCHANGED <<receipt, task, created>>
    /\ UNCHANGED <<clock, videos, job, lock, worker, histVars, faults>>

-----------------------------------------------------------------------------
(* The pass of process w[1] over the tasks of kind w[2].                   *)

\* Mutant: the pass reads only pending tasks, and interrupted ones are forgotten.
PendingTasks(k) == {r \in Requests : Kind[r] = k /\ task[r] = "pending"}

OpenTasks(k) == {r \in Requests : Kind[r] = k /\ task[r] \in Open}
Older(r, S) == {q \in S : created[q] < created[r]}

\* ORDER BY created_at LIMIT Batch, with the state each row had when read.
Snapshot(k) ==
    {<<r, task[r]>> : r \in {q \in OpenTasks(k) : Cardinality(Older(q, OpenTasks(k))) < Batch}}

\* The rows of a snapshot are processed in the order of their timestamps.
IsNext(row, todo) == row \in todo /\ \A other \in todo : created[row[1]] <= created[other[1]]

\* A pass that finds no row changes nothing and is left out.
BeginPass(w) ==
    /\ worker[w].pc = "idle"
    /\ lock[w[2]] = None
    /\ Snapshot(w[2]) # {}
    /\ lock' = [lock EXCEPT ![w[2]] = w[1]]
    /\ worker' = [worker EXCEPT ![w] =
          [Idle EXCEPT !.pc = "next", !.alive = TRUE, !.todo = Snapshot(w[2])]]
    /\ UNCHANGED <<clock, calls, dbVars, histVars, faults>>

\* The end of the pass: RELEASE_LOCK, or the session is destroyed with its lock.
Released(w) == [lock EXCEPT ![w[2]] = IF @ = w[1] THEN None ELSE @]

EndPass(w) ==
    /\ worker[w].pc = "next" /\ worker[w].todo = {}
    /\ worker' = [worker EXCEPT ![w] = Idle]
    /\ lock' = Released(w)
    /\ UNCHANGED <<clock, calls, dbVars, histVars, faults>>

\* How processTask goes on: to another statement, to finish() (inside the try
\* block or not), or back to the loop over the rows.
GoTo(w, pc) == worker' = [worker EXCEPT ![w].pc = pc]
Finishing(w, outcome, guarded) == worker' = [worker EXCEPT
    ![w].pc = "finishing", ![w].outcome = outcome, ![w].guarded = guarded]
NextRow(w) == worker' = [worker EXCEPT ![w].pc = "next", ![w].cur = None]

\* The row the loop takes next: in a snapshot, an interrupted hand card is one
\* whose state was 'running' when it was read.
TakeRow(w, row, pc, outcome) == worker' = [worker EXCEPT
    ![w].todo = @ \ {row}, ![w].cur = row[1],
    ![w].pc = pc, ![w].outcome = outcome, ![w].guarded = FALSE]
Interrupted(w, row) == w[2] = "handcard" /\ row[2] = "running"

\* Mutant: an interrupted hand card is resumed where it was interrupted.
ResumeTask(w, row) ==
    /\ worker[w].pc = "next"
    /\ IsNext(row, worker[w].todo)
    /\ TakeRow(w, row, IF Interrupted(w, row) THEN "claimed" ELSE "reading", "failed")
    /\ UNCHANGED <<clock, calls, dbVars, lock, histVars, faults>>

ProcessTask(w, row) ==
    /\ worker[w].pc = "next"
    /\ IsNext(row, worker[w].todo)
    /\ IF Interrupted(w, row)
       THEN TakeRow(w, row, "finishing", "paused")
       ELSE TakeRow(w, row, "reading", "failed")
    /\ UNCHANGED <<clock, calls, dbVars, lock, histVars, faults>>

\* The input and the row's current cells are checked, the product is found.
CheckRow(w) ==
    /\ worker[w].pc = "reading"
    /\ \/ GoTo(w, IF w[2] = "video" THEN "materializing" ELSE "claiming")
       \/ Finishing(w, "failed", FALSE)
    /\ UNCHANGED <<clock, calls, dbVars, lock, histVars, faults>>

\* Mutant: the receipt is not part of the transaction.
CreateVideoWithoutReceipt(r) ==
    /\ task' = [task EXCEPT ![r] = "completed"]
    /\ videos' = [videos EXCEPT ![r] = @ + 1]
    /\ job' = [job EXCEPT ![RowOf[r]] = r]
    /\ UNCHANGED <<receipt, created>>

\* One transaction: the video, the row's delivery job, the task and the receipt.
CreateVideoAndJob(r) ==
    /\ task' = [task EXCEPT ![r] = "completed"]
    /\ receipt' = [receipt EXCEPT ![r] = IF @ = "accepted" THEN "completed" ELSE @]
    /\ videos' = [videos EXCEPT ![r] = @ + 1]
    /\ job' = [job EXCEPT ![RowOf[r]] = r]
    /\ UNCHANGED created

MaterializeInboxVideo(w) ==
    /\ worker[w].pc = "materializing" /\ worker[w].alive
    /\ \/ /\ task[worker[w].cur] = "completed"
          /\ NextRow(w)
          /\ UNCHANGED dbVars
       \/ /\ task[worker[w].cur] = "pending"
          /\ NextRow(w)
          /\ CreateVideoAndJob(worker[w].cur)
       \/ /\ task[worker[w].cur] \notin {"pending", "completed"}
          /\ Finishing(w, "failed", FALSE)
          /\ UNCHANGED dbVars
    /\ UNCHANGED <<clock, calls, lock, histVars, faults>>

\* The compare-and-set pending -> running.
SetRunning(r) ==
    /\ task[r] = "pending"
    /\ task' = [task EXCEPT ![r] = "running"]
    /\ claimed' = claimed \cup {r}
    /\ UNCHANGED <<receipt, created, videos, job, ran, returned>>

ClaimTask(w) ==
    /\ worker[w].pc = "claiming" /\ worker[w].alive
    /\ \/ SetRunning(worker[w].cur) /\ GoTo(w, "claimed")
       \/ /\ task[worker[w].cur] # "pending"
          /\ NextRow(w)
          /\ UNCHANGED <<dbVars, histVars>>
    /\ UNCHANGED <<clock, calls, lock, faults>>

\* handleFeishuAutomation: external, paid, and not bound to the session.
StartHandler(w) ==
    /\ worker[w].pc = "claimed"
    /\ ran' = [ran EXCEPT ![worker[w].cur] = @ + 1]
    /\ GoTo(w, "handling")
    /\ UNCHANGED <<clock, calls, dbVars, lock, claimed, returned, faults>>

\* Mutant: productRefreshError and writeBackError are ignored.
HandlerReturnsUnchecked(w) ==
    /\ worker[w].pc = "handling"
    /\ \E outcome \in {"completed", "partial", "failed"} :
          /\ returned' = [returned EXCEPT ![worker[w].cur] = outcome]
          /\ Finishing(w, IF outcome = "failed" THEN "failed" ELSE "completed", outcome # "failed")
    /\ UNCHANGED <<clock, calls, dbVars, lock, claimed, ran, faults>>

HandlerReturns(w) ==
    /\ worker[w].pc = "handling"
    /\ \E outcome \in {"completed", "partial", "failed"} :
          /\ returned' = [returned EXCEPT ![worker[w].cur] = outcome]
          /\ Finishing(w, outcome, outcome # "failed")
    /\ UNCHANGED <<clock, calls, dbVars, lock, claimed, ran, faults>>

\* One transaction; a task that is no longer open is left alone, receipt included.
SettleTask(r, outcome) ==
    /\ IF task[r] \in Open
       THEN /\ task' = [task EXCEPT ![r] = outcome]
            /\ receipt' = [receipt EXCEPT ![r] = IF @ = "accepted" THEN ReceiptOf(outcome) ELSE @]
       ELSE UNCHANGED <<task, receipt>>
    /\ UNCHANGED <<created, videos, job>>

Finish(w) ==
    /\ worker[w].pc = "finishing" /\ worker[w].alive
    /\ SettleTask(worker[w].cur, worker[w].outcome)
    /\ NextRow(w)
    /\ UNCHANGED <<clock, calls, lock, histVars, faults>>

-----------------------------------------------------------------------------
(* Faults.                                                                 *)

Fault == faults < MaxFaults /\ faults' = faults + 1

InStatement(w) == worker[w].pc \in {"materializing", "claiming", "finishing"}

\* A statement of processTask fails.  Inside its try block the catch clause
\* tries finish("failed") next; a failing finish of the catch clause, or of the
\* paused branch before the block, ends the pass and destroys the session.
StatementError(w) ==
    IF worker[w].pc = "finishing" /\ ~worker[w].guarded
    THEN worker' = [worker EXCEPT ![w] = Idle] /\ lock' = Released(w)
    ELSE Finishing(w, "failed", FALSE) /\ UNCHANGED lock

\* The statement fails without effect: always on a lost session, or by a fault.
StatementFails(w) ==
    /\ InStatement(w)
    /\ \/ ~worker[w].alive /\ UNCHANGED faults
       \/ worker[w].alive /\ Fault
    /\ StatementError(w)
    /\ UNCHANGED <<clock, calls, dbVars, histVars>>

\* The session, and the lock with it, is lost while the process goes on.
Disconnect(w) ==
    /\ worker[w].alive
    /\ Fault
    /\ worker' = [worker EXCEPT ![w].alive = FALSE]
    /\ lock' = Released(w)
    /\ UNCHANGED <<clock, calls, dbVars, histVars>>

\* The statement takes effect but its caller sees an error.  Usually the session
\* is lost with the acknowledgement; the code does not rely on that.
AcknowledgementLost(w) ==
    /\ worker[w].alive /\ Fault
    /\ \/ /\ worker[w].pc = "materializing" /\ task[worker[w].cur] = "pending"
          /\ CreateVideoAndJob(worker[w].cur)
          /\ UNCHANGED histVars
       \/ worker[w].pc = "claiming" /\ SetRunning(worker[w].cur)
       \/ /\ worker[w].pc = "finishing"
          /\ SettleTask(worker[w].cur, worker[w].outcome)
          /\ UNCHANGED histVars
    /\ \/ StatementError(w)
       \/ /\ worker[w].pc # "finishing" \/ worker[w].guarded
          /\ worker' = [worker EXCEPT ![w] = [@ EXCEPT !.pc = "finishing",
                !.outcome = "failed", !.guarded = FALSE, !.alive = FALSE]]
          /\ lock' = Released(w)
    /\ UNCHANGED <<clock, calls>>

\* The process dies; the server ends its sessions.
Crash(p) ==
    /\ Fault
    /\ \E k \in Kinds : worker[<<p, k>>].pc # "idle"
    /\ worker' = [w \in Workers |-> IF w[1] = p THEN Idle ELSE worker[w]]
    /\ lock' = [k \in Kinds |-> IF lock[k] = p THEN None ELSE lock[k]]
    /\ UNCHANGED <<clock, calls, dbVars, histVars>>

-----------------------------------------------------------------------------
\* What the worker does next by itself: no fault of this step's own.
WorkerStep(w) ==
    \/ BeginPass(w)
    \/ \E row \in worker[w].todo : ProcessTask(w, row)
    \/ CheckRow(w)
    \/ MaterializeInboxVideo(w)
    \/ ClaimTask(w)
    \/ StartHandler(w)
    \/ HandlerReturns(w)
    \/ Finish(w)
    \/ ~worker[w].alive /\ StatementFails(w)
    \/ EndPass(w)

FaultStep(w) ==
    \/ worker[w].alive /\ StatementFails(w)
    \/ AcknowledgementLost(w)
    \/ Disconnect(w)

Next ==
    \/ \E r \in Requests : Arrive(r)
    \/ \E c \in calls : ClaimFeishuRequest(c)
    \/ \E w \in Workers : WorkerStep(w) \/ FaultStep(w)
    \/ \E p \in Processes : Crash(p)

Spec == Init /\ [][Next]_vars

\* The ten-second timer starts passes for ever and a running pass goes on;
\* nothing is assumed of callers or of faults.
FairSpec == Spec /\ \A w \in Workers : WF_vars(WorkerStep(w))
-----------------------------------------------------------------------------
(* Properties.                                                             *)

WorkerState == [
    pc      : {"idle", "next", "reading", "materializing", "claiming", "claimed",
               "handling", "finishing"},
    alive   : BOOLEAN,
    todo    : SUBSET (Requests \X Open),
    cur     : Requests \cup {None},
    outcome : Settled,
    guarded : BOOLEAN]

\* Every variable has its type.
TypeOK ==
    /\ clock \in Nat /\ faults \in Nat
    /\ calls \in SUBSET [id : Requests, at : Nat]
    /\ receipt \in [Requests -> {"none", "accepted", "completed", "partial", "failed"}]
    /\ task \in [Requests -> {"none"} \cup Open \cup Settled]
    /\ created \in [Requests -> Nat]
    /\ videos \in [Requests -> Nat]
    /\ job \in [Rows -> Requests \cup {None}]
    /\ lock \in [Kinds -> Processes \cup {None}]
    /\ worker \in [Workers -> WorkerState]
    /\ claimed \in SUBSET Requests
    /\ ran \in [Requests -> Nat]
    /\ returned \in [Requests -> {"none", "completed", "partial", "failed"}]

\* What a caller who repeats its request is told always agrees with what became
\* of the task: the receipt and the task are written by the same transactions
\* (request-dedup.ts:40-50, inbox.ts:22-36 and 57-72), whatever crashes or is
\* lost between them.
ReceiptAgreesWithTask == \A r \in Requests :
    /\ task[r] = "none" <=> receipt[r] = "none"
    /\ task[r] \in Open <=> receipt[r] = "accepted"
    /\ task[r] \in Settled => receipt[r] = ReceiptOf(task[r])

\* The paid hand card handler is entered at most once per invocation, although
\* tasks are resumed after crashes, lost sessions and lost acknowledgements, and
\* although a worker that lost its lock may still be running
\* (inbox.ts:81-86 and 101-104).
HandlerRunsAtMostOnce == \A r \in Requests : ran[r] <= 1

\* A video task is completed exactly when its one video exists: no second video
\* is made from a stale snapshot or after a lost COMMIT acknowledgement, and none
\* is left behind by a task that failed (inbox.ts:45-78).
OneVideoPerTask == \A r \in Requests :
    videos[r] = IF Kind[r] = "video" /\ task[r] = "completed" THEN 1 ELSE 0

\* Whatever crashes, is lost or is repeated, what an invocation costs or leaves
\* behind happens once (inbox.ts:45-86).
EffectsHappenOnce == HandlerRunsAtMostOnce /\ OneVideoPerTask

\* A hand card is reported done only after its handler returned, and with what
\* the handler returned; a paused one had been started (inbox.ts:82-86, 104-106).
OutcomeIsEarned == \A r \in Requests : Kind[r] = "handcard" =>
    /\ task[r] \in {"completed", "partial"} => returned[r] = task[r]
    /\ task[r] = "paused" => r \in claimed

\* An outcome is never changed again, neither by a worker that lost its lock nor
\* by a catch clause that runs after a COMMIT whose acknowledgement was lost
\* (inbox.ts:28-33: "Do not turn an already committed video or a paused task
\* back into a failed operation").  A consequence of ImplementsContract and
\* ReceiptAgreesWithTask, proved on its own.
OutcomeIsFinal ==
    [][\A r \in Requests : task[r] \in Settled =>
          task'[r] = task[r] /\ receipt'[r] = receipt[r]]_vars

\* Every acknowledged task is eventually given an outcome, although nobody calls
\* again and the pass that held it died: "startup/polling can recover it"
\* (app/api/feishu/automation/route.ts:30).  In particular an interrupted hand
\* card does not stay 'running'.
EveryTaskSettles == \A r \in Requests : task[r] \in Open ~> task[r] \in Settled

-----------------------------------------------------------------------------
(* The inbox implements its contract.                                      *)

EffectsOf == [r \in Requests |-> IF Kind[r] = "video" THEN videos[r] ELSE ran[r]]
OpOf == [r \in Requests |-> IF receipt[r] = "none" THEN "new" ELSE receipt[r]]

Contract == INSTANCE InboxContract WITH
    IsVideo <- [r \in Requests |-> Kind[r] = "video"],
    op      <- OpOf,
    started <- [r \in Requests |-> r \in claimed],
    effects <- EffectsOf

\* Every behaviour of the tables and the workers is one the contract allows.
ImplementsContract == Contract!Spec
=============================================================================
