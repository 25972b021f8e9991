------------------------- MODULE FeishuInbox_proofs -------------------------
(***************************************************************************)
(* The safety properties of the inbox, proved for any number of requests,  *)
(* processes, calls and faults.                                            *)
(***************************************************************************)
EXTENDS FeishuInbox, TLAPS

-----------------------------------------------------------------------------
(* The inductive invariant.                                                *)

\* What the tables and the history say of one request.
RequestInv(r) ==
    /\ task[r] = "none" <=> receipt[r] = "none"
    /\ task[r] \in Open <=> receipt[r] = "accepted"
    /\ task[r] \in Settled => receipt[r] = ReceiptOf(task[r])
    /\ r \in claimed => Kind[r] = "handcard" /\ task[r] \notin {"none", "pending"}
    /\ task[r] = "running" => r \in claimed
    /\ ran[r] = 0 \/ (ran[r] = 1 /\ r \in claimed)
    /\ returned[r] # "none" => ran[r] = 1
    /\ videos[r] = IF Kind[r] = "video" /\ task[r] = "completed" THEN 1 ELSE 0
    /\ Kind[r] = "handcard" /\ task[r] \in {"completed", "partial"} => returned[r] = task[r]
    /\ Kind[r] = "handcard" /\ task[r] = "paused" => r \in claimed

\* The rows of a snapshot are accepted tasks of the pass's kind, and one that
\* was read as 'running' had been claimed.
TodoInv(w) == \A row \in worker[w].todo :
    /\ Kind[row[1]] = w[2]
    /\ task[row[1]] # "none"
    /\ w[2] = "handcard" /\ row[2] = "running" => row[1] \in claimed

\* What the state of a worker, which may be stale, still guarantees of its task.
CurInv(w) == LET s == worker[w] IN
    /\ s.pc \notin {"idle", "next"} =>
          s.cur \in Requests /\ Kind[s.cur] = w[2] /\ task[s.cur] # "none"
    /\ s.pc = "materializing" => w[2] = "video"
    /\ s.pc \in {"claiming", "claimed", "handling"} => w[2] = "handcard"
    /\ s.pc = "claimed" => s.cur \in claimed /\ ran[s.cur] = 0
    /\ s.pc = "handling" => s.cur \in claimed /\ ran[s.cur] = 1 /\ returned[s.cur] = "none"
    /\ s.pc = "finishing" =>
          /\ s.outcome \in {"completed", "partial"} =>
                w[2] = "handcard" /\ s.cur \in claimed /\ returned[s.cur] = s.outcome
          /\ s.outcome = "paused" => w[2] = "handcard" /\ s.cur \in claimed

\* Two workers never hold the right to run the handler of one request.
Exclusive == \A v, w \in Workers :
    (/\ v # w
     /\ worker[v].pc \in {"claimed", "handling"}
     /\ worker[w].pc \in {"claimed", "handling"}) => worker[v].cur # worker[w].cur

IInv ==
    /\ TypeOK
    /\ \A r \in Requests : RequestInv(r)
    /\ \A w \in Workers : TodoInv(w) /\ CurInv(w)
    /\ Exclusive

-----------------------------------------------------------------------------
(* Typing.                                                                 *)

\* The initial state is well typed.
LEMMA InitTypeOK == Init => TypeOK
<1> SUFFICES ASSUME Init PROVE TypeOK
  OBVIOUS
<1>1. Idle \in WorkerState
  BY DEF Idle, WorkerState, Settled
<1> QED
  BY <1>1, InboxConstants DEF Init, TypeOK, Rows

\* The updates of one worker's record.
LEMMA RecordType ==
  ASSUME NEW s \in WorkerState
  PROVE  /\ \A outcome \in Settled, guarded \in BOOLEAN :
               [s EXCEPT !.pc = "finishing", !.outcome = outcome, !.guarded = guarded] \in WorkerState
         /\ [s EXCEPT !.pc = "next", !.cur = None] \in WorkerState
         /\ \A row \in s.todo, pc \in {"reading", "finishing"}, outcome \in Settled :
               [s EXCEPT !.todo = @ \ {row}, !.cur = row[1], !.pc = pc,
                         !.outcome = outcome, !.guarded = FALSE] \in WorkerState
         /\ [s EXCEPT !.alive = FALSE] \in WorkerState
         /\ [s EXCEPT !.pc = "finishing", !.outcome = "failed", !.guarded = FALSE,
                      !.alive = FALSE] \in WorkerState
<1>1. \A row \in s.todo : row[1] \in Requests /\ s.todo \ {row} \in SUBSET (Requests \X Open)
  BY DEF WorkerState
<1> QED
  BY <1>1 DEF WorkerState, Settled

\* The workers stay well typed however processTask goes on.
LEMMA WorkerType ==
  ASSUME TypeOK, NEW w \in Workers
  PROVE  /\ \A pc \in {"materializing", "claiming", "claimed", "handling"} :
               GoTo(w, pc) => worker' \in [Workers -> WorkerState]
         /\ \A outcome \in Settled, guarded \in BOOLEAN :
               Finishing(w, outcome, guarded) => worker' \in [Workers -> WorkerState]
         /\ NextRow(w) => worker' \in [Workers -> WorkerState]
         /\ \A row \in worker[w].todo, pc \in {"reading", "finishing"}, outcome \in Settled :
               TakeRow(w, row, pc, outcome) => worker' \in [Workers -> WorkerState]
         /\ worker[w].outcome \in Settled
<1> USE DEF TypeOK
<1>1. ASSUME NEW pc \in {"materializing", "claiming", "claimed", "handling"}, GoTo(w, pc)
      PROVE  worker' \in [Workers -> WorkerState]
  BY <1>1 DEF GoTo, WorkerState
<1>2. ASSUME NEW outcome \in Settled, NEW guarded \in BOOLEAN, Finishing(w, outcome, guarded)
      PROVE  worker' \in [Workers -> WorkerState]
  <2>1. [worker[w] EXCEPT !.pc = "finishing", !.outcome = outcome, !.guarded = guarded]
          \in WorkerState
    BY RecordType
  <2> QED
    BY <1>2, <2>1 DEF Finishing
<1>3. ASSUME NextRow(w) PROVE worker' \in [Workers -> WorkerState]
  <2>1. [worker[w] EXCEPT !.pc = "next", !.cur = None] \in WorkerState
    BY RecordType
  <2> QED
    BY <1>3, <2>1 DEF NextRow
<1>4. ASSUME NEW row \in worker[w].todo, NEW pc \in {"reading", "finishing"},
             NEW outcome \in Settled, TakeRow(w, row, pc, outcome)
      PROVE  worker' \in [Workers -> WorkerState]
  <2>1. [worker[w] EXCEPT !.todo = @ \ {row}, !.cur = row[1], !.pc = pc,
            !.outcome = outcome, !.guarded = FALSE] \in WorkerState
    BY RecordType
  <2> QED
    BY <1>4, <2>1 DEF TakeRow
<1>5. worker[w].outcome \in Settled
  BY DEF WorkerState
<1> QED
  BY <1>1, <1>2, <1>3, <1>4, <1>5

\* The tables stay well typed under each of the three transactions.
LEMMA DbType ==
  ASSUME TypeOK, NEW r \in Requests
  PROVE  LET DbTypeOK ==
               /\ receipt' \in [Requests -> {"none", "accepted", "completed", "partial", "failed"}]
               /\ task' \in [Requests -> {"none"} \cup Open \cup Settled]
               /\ created' \in [Requests -> Nat]
               /\ videos' \in [Requests -> Nat]
               /\ job' \in [Rows -> Requests \cup {None}]
         IN  /\ CreateVideoAndJob(r) => DbTypeOK
             /\ SetRunning(r) => DbTypeOK /\ claimed' \in SUBSET Requests
             /\ \A outcome \in Settled : SettleTask(r, outcome) => DbTypeOK
<1> USE DEF TypeOK, Open, Settled
<1>1. CreateVideoAndJob(r) => videos' \in [Requests -> Nat]
  BY DEF CreateVideoAndJob
<1>2. CreateVideoAndJob(r) =>
        receipt' \in [Requests -> {"none", "accepted", "completed", "partial", "failed"}]
  BY DEF CreateVideoAndJob
<1>3. CreateVideoAndJob(r) => /\ task' \in [Requests -> {"none"} \cup Open \cup Settled]
                              /\ created' \in [Requests -> Nat]
  BY DEF CreateVideoAndJob
<1>4. CreateVideoAndJob(r) => job' \in [Rows -> Requests \cup {None}]
  BY DEF CreateVideoAndJob
<1>5. SetRunning(r) => /\ task' \in [Requests -> {"none"} \cup Open \cup Settled]
                       /\ claimed' \in SUBSET Requests
  BY DEF SetRunning
<1>6. ASSUME NEW outcome \in Settled, SettleTask(r, outcome)
      PROVE  /\ receipt' \in [Requests -> {"none", "accepted", "completed", "partial", "failed"}]
             /\ task' \in [Requests -> {"none"} \cup Open \cup Settled]
  <2>1. ReceiptOf(outcome) \in {"completed", "partial", "failed"}
    BY DEF ReceiptOf
  <2> QED
    BY <1>6, <2>1 DEF SettleTask
<1> QED
  BY <1>1, <1>2, <1>3, <1>4, <1>5, <1>6 DEF SetRunning, SettleTask

\* Giving a lock up leaves it well typed.
LEMMA ReleasedType ==
  ASSUME TypeOK, NEW w \in Workers
  PROVE  Released(w) \in [Kinds -> Processes \cup {None}]
  BY DEF TypeOK, Released, Workers

\* A failing statement leaves workers and locks well typed.
LEMMA StatementErrorType ==
  ASSUME TypeOK, NEW w \in Workers, StatementError(w)
  PROVE  worker' \in [Workers -> WorkerState] /\ lock' \in [Kinds -> Processes \cup {None}]
<1>1. Idle \in WorkerState /\ "failed" \in Settled
  BY DEF Idle, WorkerState, Settled
<1> QED
  BY <1>1, WorkerType, ReleasedType DEF StatementError, TypeOK

\* Every step, faults included, leaves the variables well typed.
LEMMA NextTypeOK == IInv /\ [Next]_vars => TypeOK'
<1> SUFFICES ASSUME TypeOK, \A w \in Workers : CurInv(w), [Next]_vars PROVE TypeOK'
  BY DEF IInv
<1>a. ASSUME NEW w \in Workers, worker[w].pc \notin {"idle", "next"} PROVE worker[w].cur \in Requests
  BY <1>a DEF CurInv
<1> USE InboxConstants DEF TypeOK, dbVars, histVars
<1>0. Idle \in WorkerState
  BY DEF Idle, WorkerState, Settled
<1>1. ASSUME NEW r \in Requests, Arrive(r) PROVE TypeOK'
  BY <1>1 DEF Arrive
<1>2. ASSUME NEW c \in calls, ClaimFeishuRequest(c) PROVE TypeOK'
  BY <1>2 DEF ClaimFeishuRequest, Open, Settled
<1>3. ASSUME NEW w \in Workers, BeginPass(w) PROVE TypeOK'
  <2>1. \A r \in OpenTasks(w[2]) : r \in Requests /\ task[r] \in Open
    BY DEF OpenTasks
  <2>2. Snapshot(w[2]) \subseteq Requests \X Open
    BY <2>1 DEF Snapshot
  <2>3. [Idle EXCEPT !.pc = "next", !.alive = TRUE, !.todo = Snapshot(w[2])] \in WorkerState
    BY <1>0, <2>2 DEF WorkerState
  <2> QED
    BY <1>3, <2>3 DEF BeginPass, Workers
<1>4. ASSUME NEW w \in Workers, NEW row \in worker[w].todo, ProcessTask(w, row) PROVE TypeOK'
  BY <1>4, WorkerType DEF ProcessTask, Settled
<1>5. ASSUME NEW w \in Workers, CheckRow(w) PROVE TypeOK'
  BY <1>5, WorkerType DEF CheckRow, Settled
<1>6. ASSUME NEW w \in Workers, MaterializeInboxVideo(w) PROVE TypeOK'
  <2>1. worker' \in [Workers -> WorkerState]
    BY <1>6, WorkerType DEF MaterializeInboxVideo, Settled
  <2> QED
    BY <1>6, <1>a, <2>1, DbType DEF MaterializeInboxVideo
<1>7. ASSUME NEW w \in Workers, ClaimTask(w) PROVE TypeOK'
  <2>1. worker' \in [Workers -> WorkerState]
    BY <1>7, WorkerType DEF ClaimTask
  <2> QED
    BY <1>7, <1>a, <2>1, DbType DEF ClaimTask, SetRunning
<1>8. ASSUME NEW w \in Workers, StartHandler(w) PROVE TypeOK'
  <2>1. worker' \in [Workers -> WorkerState]
    BY <1>8, WorkerType DEF StartHandler
  <2>2. ran' \in [Requests -> Nat]
    BY <1>8, <1>a DEF StartHandler
  <2> QED
    BY <1>8, <2>1, <2>2 DEF StartHandler
<1>9. ASSUME NEW w \in Workers, HandlerReturns(w) PROVE TypeOK'
  <2>1. worker' \in [Workers -> WorkerState]
    <3>1. PICK outcome \in {"completed", "partial", "failed"} :
            Finishing(w, outcome, outcome # "failed")
      BY <1>9 DEF HandlerReturns
    <3>2. outcome \in Settled /\ (outcome # "failed") \in BOOLEAN
      BY DEF Settled
    <3> QED
      BY <3>1, <3>2, WorkerType
  <2> QED
    BY <1>9, <1>a, <2>1 DEF HandlerReturns
<1>10. ASSUME NEW w \in Workers, Finish(w) PROVE TypeOK'
  BY <1>10, <1>a, WorkerType, DbType DEF Finish
<1>11. ASSUME NEW w \in Workers, EndPass(w) PROVE TypeOK'
  BY <1>11, <1>0, ReleasedType DEF EndPass
<1>12. ASSUME NEW w \in Workers, StatementFails(w) PROVE TypeOK'
  BY <1>12, StatementErrorType DEF StatementFails, Fault
<1>13. ASSUME NEW w \in Workers, Disconnect(w) PROVE TypeOK'
  <2>1. worker' \in [Workers -> WorkerState]
    <3>1. [worker[w] EXCEPT !.alive = FALSE] \in WorkerState
      BY RecordType
    <3> QED
      BY <1>13, <3>1 DEF Disconnect
  <2> QED
    BY <1>13, <2>1, ReleasedType DEF Disconnect, Fault
<1>14. ASSUME NEW w \in Workers, AcknowledgementLost(w) PROVE TypeOK'
  <2>1. /\ worker' \in [Workers -> WorkerState]
        /\ lock' \in [Kinds -> Processes \cup {None}]
    <3>1. CASE StatementError(w)
      BY <3>1, StatementErrorType
    <3>2. CASE /\ worker' = [worker EXCEPT ![w] = [@ EXCEPT !.pc = "finishing",
                     !.outcome = "failed", !.guarded = FALSE, !.alive = FALSE]]
               /\ lock' = Released(w)
      <4>1. [worker[w] EXCEPT !.pc = "finishing", !.outcome = "failed", !.guarded = FALSE,
                !.alive = FALSE] \in WorkerState
        BY RecordType
      <4> QED
        BY <3>2, <4>1, ReleasedType
    <3> QED
      BY <1>14, <3>1, <3>2 DEF AcknowledgementLost
  <2> QED
    BY <1>14, <1>a, <2>1, DbType, WorkerType DEF AcknowledgementLost, Fault, SetRunning
<1>15. ASSUME NEW p \in Processes, Crash(p) PROVE TypeOK'
  BY <1>15, <1>0 DEF Crash, Fault, Workers
<1>16. CASE UNCHANGED vars
  BY <1>16 DEF vars
<1> QED
  BY <1>1, <1>2, <1>3, <1>4, <1>5, <1>6, <1>7, <1>8, <1>9, <1>10, <1>11, <1>12, <1>13,
     <1>14, <1>15, <1>16 DEF Next, WorkerStep, FaultStep

-----------------------------------------------------------------------------
(* The steps seen from a worker that does not take them.                   *)

\* Accepted tasks stay accepted and claimed ones stay claimed.
Monotone ==
    /\ \A r \in Requests : task[r] # "none" => task'[r] # "none"
    /\ claimed \subseteq claimed'

\* The history of the task v works on does not change where v relies on it.
HistoryKept(v) == LET s == worker[v] IN
    /\ s.pc \in {"claimed", "handling"} =>
          ran'[s.cur] = ran[s.cur] /\ returned'[s.cur] = returned[s.cur]
    /\ s.pc = "finishing" /\ s.outcome \in {"completed", "partial"} =>
          returned'[s.cur] = returned[s.cur]

\* What a worker relies on survives the steps of all others.
LEMMA Bystander ==
  ASSUME TypeOK, NEW v \in Workers, TodoInv(v), CurInv(v),
         worker'[v] = worker[v], Monotone, HistoryKept(v)
  PROVE  TodoInv(v)' /\ CurInv(v)'
<1>1. TodoInv(v)'
  <2>1. \A row \in worker[v].todo : row[1] \in Requests
    BY DEF TypeOK, WorkerState
  <2> QED
    BY <2>1 DEF TodoInv, Monotone
<1>2. CurInv(v)'
  BY DEF CurInv, Monotone, HistoryKept
<1> QED
  BY <1>1, <1>2

\* A step of worker w preserves the invariant when it keeps what the requests
\* and w itself rely on and w does not take over another worker's right.
LEMMA StepOf ==
  ASSUME IInv, TypeOK', NEW w \in Workers,
         \A v \in Workers \ {w} : worker'[v] = worker[v] /\ HistoryKept(v),
         Monotone,
         \A r \in Requests : RequestInv(r)',
         TodoInv(w)', CurInv(w)',
         worker'[w].pc \in {"claimed", "handling"} =>
            \A v \in Workers \ {w} : worker[v].pc \in {"claimed", "handling"} =>
                worker[v].cur # worker'[w].cur
  PROVE  IInv'
<1>1. ASSUME NEW v \in Workers PROVE TodoInv(v)' /\ CurInv(v)'
  <2>1. CASE v = w
    BY <2>1
  <2>2. CASE v # w
    BY <2>2, Bystander DEF IInv
  <2> QED
    BY <2>1, <2>2
<1>2. Exclusive'
  BY DEF IInv, Exclusive
<1> QED
  BY <1>1, <1>2 DEF IInv

\* The transaction that completes a pending video.
LEMMA CreateVideoKeeps ==
  ASSUME IInv, NEW r \in Requests, Kind[r] = "video", task[r] = "pending",
         CreateVideoAndJob(r), UNCHANGED histVars
  PROVE  Monotone /\ \A q \in Requests : RequestInv(q)'
<1>1. Monotone
  BY DEF IInv, TypeOK, Monotone, CreateVideoAndJob, histVars
<1>2. ASSUME NEW q \in Requests PROVE RequestInv(q)'
  <2>1. RequestInv(q)
    BY DEF IInv
  <2>2. CASE q = r
    BY <2>1, <2>2 DEF RequestInv, CreateVideoAndJob, histVars, IInv, TypeOK, Open, Settled, ReceiptOf
  <2>3. CASE q # r
    BY <2>1, <2>3 DEF RequestInv, CreateVideoAndJob, histVars, IInv, TypeOK
  <2> QED
    BY <2>2, <2>3
<1> QED
  BY <1>1, <1>2

\* The compare-and-set that claims a hand card.
LEMMA SetRunningKeeps ==
  ASSUME IInv, NEW r \in Requests, Kind[r] = "handcard", SetRunning(r)
  PROVE  Monotone /\ r \notin claimed /\ ran[r] = 0 /\ \A q \in Requests : RequestInv(q)'
<1>1. Monotone
  BY DEF IInv, TypeOK, Monotone, SetRunning
<1>2. r \notin claimed /\ ran[r] = 0
  BY DEF IInv, RequestInv, SetRunning
<1>3. ASSUME NEW q \in Requests PROVE RequestInv(q)'
  <2>1. RequestInv(q)
    BY DEF IInv
  <2>2. CASE q = r
    BY <2>1, <2>2 DEF RequestInv, SetRunning, IInv, TypeOK, Open, Settled
  <2>3. CASE q # r
    BY <2>1, <2>3 DEF RequestInv, SetRunning, IInv, TypeOK
  <2> QED
    BY <2>2, <2>3
<1> QED
  BY <1>1, <1>2, <1>3

\* The transaction that settles a task, with an outcome its worker may give.
LEMMA SettleKeeps ==
  ASSUME IInv, NEW w \in Workers, worker[w].pc = "finishing",
         SettleTask(worker[w].cur, worker[w].outcome), UNCHANGED histVars
  PROVE  Monotone /\ \A q \in Requests : RequestInv(q)'
<1> DEFINE r == worker[w].cur
           outcome == worker[w].outcome
<1>1. /\ r \in Requests /\ Kind[r] = w[2] /\ outcome \in Settled /\ Kind[r] \in Kinds
      /\ outcome \in {"completed", "partial"} =>
            Kind[r] = "handcard" /\ returned[r] = outcome
      /\ outcome = "paused" => Kind[r] = "handcard" /\ r \in claimed
  BY InboxConstants DEF IInv, CurInv, TypeOK, WorkerState
<1>2. SettleTask(r, outcome)
  OBVIOUS
<1> HIDE DEF r, outcome
<1>3. Monotone
  BY <1>1, <1>2 DEF IInv, TypeOK, Monotone, SettleTask, histVars, Settled
<1>4. ASSUME NEW q \in Requests PROVE RequestInv(q)'
  <2>1. RequestInv(q)
    BY DEF IInv
  <2>2. CASE q = r /\ task[r] \in Open
    BY <1>1, <1>2, <2>1, <2>2
    DEF RequestInv, SettleTask, ReceiptOf, histVars, IInv, TypeOK, Open, Settled, Kinds
  <2>3. CASE ~(q = r /\ task[r] \in Open)
    BY <1>1, <1>2, <2>1, <2>3 DEF RequestInv, SettleTask, histVars, IInv, TypeOK
  <2> QED
    BY <2>2, <2>3
<1> QED
  BY <1>3, <1>4
-----------------------------------------------------------------------------
(* The invariant is inductive.                                             *)

\* The invariant holds initially.
LEMMA InitIInv == Init => IInv
<1> SUFFICES ASSUME Init PROVE IInv
  OBVIOUS
<1>1. \A r \in Requests : RequestInv(r)
  BY DEF Init, RequestInv, Open, Settled
<1>2. \A w \in Workers : worker[w] = Idle
  BY DEF Init
<1>3. \A w \in Workers : TodoInv(w) /\ CurInv(w)
  BY <1>2 DEF TodoInv, CurInv, Idle
<1>4. Exclusive
  BY <1>2 DEF Exclusive, Idle
<1> QED
  BY <1>1, <1>3, <1>4, InitTypeOK DEF IInv

\* A step that changes neither the tables nor the history keeps what is said of
\* the requests and of the workers that do not take it.
LEMMA TablesKept ==
  ASSUME IInv, UNCHANGED <<dbVars, histVars>>
  PROVE  /\ Monotone
         /\ \A v \in Workers : HistoryKept(v)
         /\ \A r \in Requests : RequestInv(r)'
<1>1. UNCHANGED <<receipt, task, videos, claimed, ran, returned>>
  BY DEF dbVars, histVars
<1>2. Monotone
  BY <1>1 DEF Monotone
<1>3. \A v \in Workers : HistoryKept(v)
  BY <1>1 DEF HistoryKept
<1>4. \A r \in Requests : RequestInv(r)'
  BY <1>1 DEF IInv, RequestInv
<1> QED
  BY <1>2, <1>3, <1>4

\* What an open task of the tables guarantees the pass that reads it.
LEMMA SnapshotInv ==
  ASSUME IInv, NEW k \in Kinds, NEW row \in Snapshot(k)
  PROVE  /\ row[1] \in Requests /\ Kind[row[1]] = k /\ task[row[1]] # "none"
         /\ row[2] = "running" => row[1] \in claimed
<1>1. PICK r \in OpenTasks(k) : row = <<r, task[r]>>
  BY DEF Snapshot
<1>2. r \in Requests /\ Kind[r] = k /\ task[r] \in Open
  BY DEF OpenTasks
<1>3. RequestInv(r)
  BY <1>2 DEF IInv
<1> QED
  BY <1>1, <1>2, <1>3 DEF RequestInv, Open

\* How a failing statement leaves its own worker.
LEMMA StatementErrorKeeps ==
  ASSUME IInv, NEW w \in Workers, InStatement(w), StatementError(w), Monotone
  PROVE  /\ \A v \in Workers \ {w} : worker'[v] = worker[v]
         /\ worker'[w].pc \notin {"claimed", "handling"}
         /\ TodoInv(w)' /\ CurInv(w)'
<1> DEFINE s == worker[w]
<1>1. /\ s \in WorkerState /\ TodoInv(w) /\ CurInv(w)
      /\ s.pc \notin {"idle", "next"}
  BY DEF IInv, TypeOK, InStatement
<1>2. s.cur \in Requests /\ Kind[s.cur] = w[2] /\ task[s.cur] # "none"
  BY <1>1 DEF CurInv
<1>3. CASE worker' = [worker EXCEPT ![w] = Idle]
  <2>1. worker'[w] = Idle
    BY <1>3 DEF IInv, TypeOK
  <2>2. TodoInv(w)' /\ CurInv(w)'
    BY <2>1 DEF TodoInv, CurInv, Idle
  <2> QED
    BY <1>3, <2>1, <2>2 DEF Idle, IInv, TypeOK
<1>4. CASE Finishing(w, "failed", FALSE)
  <2>1. /\ worker'[w].pc = "finishing" /\ worker'[w].outcome = "failed"
        /\ worker'[w].cur = s.cur /\ worker'[w].todo = s.todo
    BY <1>1, <1>4 DEF Finishing, IInv, TypeOK, WorkerState
  <2>2. \A row \in s.todo : row[1] \in Requests
    BY <1>1 DEF WorkerState
  <2>3. TodoInv(w)'
    BY <1>1, <2>1, <2>2 DEF TodoInv, Monotone
  <2>4. CurInv(w)'
    BY <1>2, <2>1 DEF CurInv, Monotone
  <2>5. \A v \in Workers \ {w} : worker'[v] = worker[v]
    BY <1>4 DEF Finishing, IInv, TypeOK
  <2> QED
    BY <2>1, <2>3, <2>4, <2>5
<1> QED
  BY <1>3, <1>4 DEF StatementError

\* Every step, faults included, preserves the invariant.
LEMMA NextIInv == IInv /\ [Next]_vars => IInv'
<1> SUFFICES ASSUME IInv, [Next]_vars PROVE IInv'
  OBVIOUS
<1>0. TypeOK /\ TypeOK'
  BY NextTypeOK DEF IInv
<1>a. \A v \in Workers : /\ worker[v] \in WorkerState /\ v[1] \in Processes /\ v[2] \in Kinds
                        /\ TodoInv(v) /\ CurInv(v)
  BY DEF IInv, TypeOK, Workers
\* Steps that change no worker.
<1>b. ASSUME worker' = worker, Monotone, \A v \in Workers : HistoryKept(v),
             \A r \in Requests : RequestInv(r)'
      PROVE  IInv'
  <2>1. \A v \in Workers : TodoInv(v)' /\ CurInv(v)'
    BY <1>0, <1>a, <1>b, Bystander
  <2>2. Exclusive'
    BY <1>b DEF IInv, Exclusive
  <2> QED
    BY <1>0, <1>b, <2>1, <2>2 DEF IInv
<1>1. ASSUME NEW r \in Requests, Arrive(r) PROVE IInv'
  BY <1>1, <1>b, TablesKept DEF Arrive
<1>2. ASSUME NEW c \in calls, ClaimFeishuRequest(c) PROVE IInv'
  <2>1. Monotone /\ \A v \in Workers : HistoryKept(v)
    BY <1>0, <1>2 DEF ClaimFeishuRequest, histVars, Monotone, HistoryKept, TypeOK
  <2>2. ASSUME NEW q \in Requests PROVE RequestInv(q)'
    <3>1. RequestInv(q)
      BY DEF IInv
    <3>2. CASE q = c.id /\ receipt[q] = "none"
      BY <1>0, <1>2, <3>1, <3>2 DEF ClaimFeishuRequest, histVars, RequestInv, TypeOK, Open, Settled
    <3>3. CASE ~(q = c.id /\ receipt[q] = "none")
      BY <1>0, <1>2, <3>1, <3>3 DEF ClaimFeishuRequest, histVars, RequestInv, TypeOK
    <3> QED
      BY <3>2, <3>3
  <2> QED
    BY <1>2, <1>b, <2>1, <2>2 DEF ClaimFeishuRequest
<1>3. ASSUME NEW w \in Workers, BeginPass(w) PROVE IInv'
  <2>1. /\ worker'[w].pc = "next" /\ worker'[w].todo = Snapshot(w[2])
        /\ \A v \in Workers \ {w} : worker'[v] = worker[v]
    BY <1>0, <1>3 DEF BeginPass, TypeOK, Idle
  <2>2. TodoInv(w)' /\ CurInv(w)'
    <3>1. UNCHANGED <<task, claimed>>
      BY <1>3 DEF BeginPass, dbVars, histVars
    <3> QED
      BY <1>a, <2>1, <3>1, SnapshotInv DEF TodoInv, CurInv
  <2> QED
    BY <1>0, <1>3, <2>1, <2>2, StepOf, TablesKept DEF BeginPass
<1>4. ASSUME NEW w \in Workers, NEW row \in worker[w].todo, ProcessTask(w, row) PROVE IInv'
  <2>1. PICK pc \in {"reading", "finishing"}, outcome \in {"failed", "paused"} :
          /\ TakeRow(w, row, pc, outcome)
          /\ outcome = "paused" => Interrupted(w, row)
    BY <1>4 DEF ProcessTask
  <2>2. /\ worker'[w].pc = pc /\ worker'[w].outcome = outcome /\ worker'[w].cur = row[1]
        /\ worker'[w].todo = worker[w].todo \ {row}
        /\ \A v \in Workers \ {w} : worker'[v] = worker[v]
    BY <1>0, <1>a, <2>1 DEF TakeRow, TypeOK, WorkerState
  <2>3. UNCHANGED <<task, claimed, ran, returned>>
    BY <1>4 DEF ProcessTask, dbVars, histVars
  <2>4. /\ row[1] \in Requests /\ Kind[row[1]] = w[2] /\ task[row[1]] # "none"
        /\ outcome = "paused" => w[2] = "handcard" /\ row[1] \in claimed
    BY <1>a, <2>1 DEF TodoInv, WorkerState, Interrupted
  <2>5. TodoInv(w)'
    BY <1>a, <2>2, <2>3 DEF TodoInv
  <2>6. CurInv(w)'
    BY <2>2, <2>3, <2>4 DEF CurInv
  <2> QED
    BY <1>0, <1>4, <2>2, <2>5, <2>6, StepOf, TablesKept DEF ProcessTask
<1>5. ASSUME NEW w \in Workers, CheckRow(w) PROVE IInv'
  <2>1. /\ \/ worker'[w].pc = "materializing" /\ w[2] = "video"
           \/ worker'[w].pc = "claiming" /\ w[2] = "handcard"
           \/ worker'[w].pc = "finishing" /\ worker'[w].outcome = "failed"
        /\ worker'[w].cur = worker[w].cur /\ worker'[w].todo = worker[w].todo
        /\ \A v \in Workers \ {w} : worker'[v] = worker[v]
    BY <1>0, <1>a, <1>5 DEF CheckRow, GoTo, Finishing, TypeOK, WorkerState, Kinds
  <2>2. UNCHANGED <<task, claimed, ran, returned>>
    BY <1>5 DEF CheckRow, dbVars, histVars
  <2>3. worker[w].pc = "reading"
    BY <1>5 DEF CheckRow
  <2>4. TodoInv(w)'
    BY <1>a, <2>1, <2>2 DEF TodoInv
  <2>5. CurInv(w)'
    BY <1>a, <2>1, <2>2, <2>3 DEF CurInv
  <2> QED
    BY <1>0, <1>5, <2>1, <2>4, <2>5, StepOf, TablesKept DEF CheckRow
<1>6. ASSUME NEW w \in Workers, MaterializeInboxVideo(w) PROVE IInv'
  <2> DEFINE r == worker[w].cur
  <2>1. /\ worker[w].pc = "materializing" /\ r \in Requests /\ Kind[r] = w[2] /\ w[2] = "video"
        /\ task[r] # "none" /\ UNCHANGED histVars
    BY <1>6, <1>a DEF MaterializeInboxVideo, CurInv
  <2>2. Monotone /\ \A q \in Requests : RequestInv(q)'
    <3>1. CASE CreateVideoAndJob(r) /\ task[r] = "pending"
      BY <2>1, <3>1, CreateVideoKeeps
    <3>2. CASE UNCHANGED dbVars
      BY <2>1, <3>2, TablesKept
    <3> QED
      BY <1>6, <3>1, <3>2 DEF MaterializeInboxVideo
  <2>3. /\ \/ worker'[w].pc = "next"
           \/ /\ worker'[w].pc = "finishing" /\ worker'[w].outcome = "failed"
              /\ worker'[w].cur = r
        /\ worker'[w].todo = worker[w].todo
        /\ \A v \in Workers \ {w} : worker'[v] = worker[v]
    BY <1>0, <1>a, <1>6 DEF MaterializeInboxVideo, NextRow, Finishing, TypeOK, WorkerState
  <2>4. TodoInv(w)'
    BY <1>a, <2>2, <2>3 DEF TodoInv, Monotone, WorkerState
  <2>5. CurInv(w)'
    BY <2>1, <2>2, <2>3 DEF CurInv, Monotone
  <2>6. \A v \in Workers : HistoryKept(v)
    BY <2>1 DEF HistoryKept, histVars
  <2> QED
    BY <1>0, <2>2, <2>3, <2>4, <2>5, <2>6, StepOf
<1>7. ASSUME NEW w \in Workers, ClaimTask(w) PROVE IInv'
  <2> DEFINE r == worker[w].cur
  <2>1. /\ worker[w].pc = "claiming" /\ r \in Requests /\ Kind[r] = w[2] /\ w[2] = "handcard"
        /\ UNCHANGED <<ran, returned>>
    BY <1>7, <1>a DEF ClaimTask, CurInv, SetRunning, histVars
  <2>2. Monotone /\ \A q \in Requests : RequestInv(q)'
    <3>1. CASE SetRunning(r)
      BY <2>1, <3>1, SetRunningKeeps
    <3>2. CASE UNCHANGED <<dbVars, histVars>>
      BY <3>2, TablesKept
    <3> QED
      BY <1>7, <3>1, <3>2 DEF ClaimTask
  <2>3. /\ \/ worker'[w].pc = "next"
           \/ worker'[w].pc = "claimed" /\ worker'[w].cur = r /\ SetRunning(r)
        /\ worker'[w].todo = worker[w].todo
        /\ \A v \in Workers \ {w} : worker'[v] = worker[v]
    BY <1>0, <1>a, <1>7 DEF ClaimTask, NextRow, GoTo, TypeOK, WorkerState
  <2>4. SetRunning(r) => r \notin claimed /\ ran[r] = 0 /\ r \in claimed' /\ task'[r] # "none"
    BY <1>0, <2>1, SetRunningKeeps DEF SetRunning, TypeOK
  <2>5. TodoInv(w)'
    BY <1>a, <2>2, <2>3 DEF TodoInv, Monotone, WorkerState
  <2>6. CurInv(w)'
    BY <2>1, <2>3, <2>4 DEF CurInv
  <2>7. \A v \in Workers : HistoryKept(v)
    BY <2>1 DEF HistoryKept
  <2>8. worker'[w].pc \in {"claimed", "handling"} =>
          \A v \in Workers \ {w} : worker[v].pc \in {"claimed", "handling"} =>
             worker[v].cur # worker'[w].cur
    BY <1>a, <2>3, <2>4 DEF CurInv
  <2> QED
    BY <1>0, <2>2, <2>3, <2>5, <2>6, <2>7, <2>8, StepOf
<1>8. ASSUME NEW w \in Workers, StartHandler(w) PROVE IInv'
  <2> DEFINE r == worker[w].cur
  <2>1. /\ worker[w].pc = "claimed" /\ r \in Requests /\ Kind[r] = w[2] /\ w[2] = "handcard"
        /\ r \in claimed /\ ran[r] = 0 /\ task[r] # "none"
    BY <1>8, <1>a DEF StartHandler, CurInv
  <2>2. /\ ran' = [ran EXCEPT ![r] = ran[r] + 1]
        /\ UNCHANGED <<receipt, task, videos, claimed, returned>>
    BY <1>8 DEF StartHandler, dbVars
  <2>3. /\ worker'[w].pc = "handling" /\ worker'[w].cur = r /\ worker'[w].todo = worker[w].todo
        /\ \A v \in Workers \ {w} : worker'[v] = worker[v]
    BY <1>0, <1>a, <1>8 DEF StartHandler, GoTo, TypeOK, WorkerState
  <2>4. /\ ran'[r] = 1 /\ returned[r] = "none"
        /\ \A q \in Requests \ {r} : ran'[q] = ran[q]
    BY <1>0, <2>1, <2>2 DEF IInv, RequestInv, TypeOK
  <2>5. Monotone
    BY <2>2 DEF Monotone
  <2>6. ASSUME NEW q \in Requests PROVE RequestInv(q)'
    BY <2>1, <2>2, <2>4 DEF IInv, RequestInv
  <2>7. TodoInv(w)'
    BY <1>a, <2>2, <2>3 DEF TodoInv
  <2>8. CurInv(w)'
    BY <2>1, <2>2, <2>3, <2>4 DEF CurInv
  <2>9. ASSUME NEW v \in Workers \ {w} PROVE HistoryKept(v)
    <3>1. worker[v].pc \in {"claimed", "handling"} => worker[v].cur # r /\ worker[v].cur \in Requests
      BY <1>a, <2>1 DEF IInv, Exclusive, CurInv
    <3> QED
      BY <2>2, <2>4, <3>1 DEF HistoryKept
  <2>10. \A v \in Workers \ {w} : worker[v].pc \in {"claimed", "handling"} => worker[v].cur # r
    BY <2>1 DEF IInv, Exclusive
  <2> QED
    BY <1>0, <2>3, <2>5, <2>6, <2>7, <2>8, <2>9, <2>10, StepOf
<1>9. ASSUME NEW w \in Workers, HandlerReturns(w) PROVE IInv'
  <2> DEFINE r == worker[w].cur
  <2>1. /\ worker[w].pc = "handling" /\ r \in Requests /\ Kind[r] = w[2] /\ w[2] = "handcard"
        /\ r \in claimed /\ ran[r] = 1 /\ returned[r] = "none" /\ task[r] # "none"
    BY <1>9, <1>a DEF HandlerReturns, CurInv
  <2>2. PICK outcome \in {"completed", "partial", "failed"} :
          /\ returned' = [returned EXCEPT ![r] = outcome]
          /\ Finishing(w, outcome, outcome # "failed")
    BY <1>9 DEF HandlerReturns
  <2>3. UNCHANGED <<receipt, task, videos, claimed, ran>>
    BY <1>9 DEF HandlerReturns, dbVars
  <2>4. /\ worker'[w].pc = "finishing" /\ worker'[w].outcome = outcome
        /\ worker'[w].cur = r /\ worker'[w].todo = worker[w].todo
        /\ \A v \in Workers \ {w} : worker'[v] = worker[v]
    BY <1>0, <1>a, <2>2 DEF Finishing, TypeOK, WorkerState
  <2>5. returned'[r] = outcome /\ \A q \in Requests \ {r} : returned'[q] = returned[q]
    BY <1>0, <2>1, <2>2 DEF TypeOK
  <2>6. Monotone
    BY <2>3 DEF Monotone
  <2>7. ASSUME NEW q \in Requests PROVE RequestInv(q)'
    BY <2>1, <2>3, <2>5 DEF IInv, RequestInv
  <2>8. TodoInv(w)'
    BY <1>a, <2>3, <2>4 DEF TodoInv
  <2>9. CurInv(w)'
    BY <2>1, <2>3, <2>4, <2>5 DEF CurInv
  <2>10. ASSUME NEW v \in Workers \ {w} PROVE HistoryKept(v)
    <3>1. worker[v].pc \in {"claimed", "handling"} => worker[v].cur # r /\ worker[v].cur \in Requests
      BY <1>a, <2>1 DEF IInv, Exclusive, CurInv
    <3>2. worker[v].pc = "finishing" /\ worker[v].outcome \in {"completed", "partial"} =>
            worker[v].cur # r /\ worker[v].cur \in Requests
      BY <1>a, <2>1 DEF CurInv
    <3> QED
      BY <2>3, <2>5, <3>1, <3>2 DEF HistoryKept
  <2> QED
    BY <1>0, <2>4, <2>6, <2>7, <2>8, <2>9, <2>10, StepOf
<1>10. ASSUME NEW w \in Workers, Finish(w) PROVE IInv'
  <2>1. Monotone /\ \A q \in Requests : RequestInv(q)'
    BY <1>10, SettleKeeps DEF Finish
  <2>2. /\ worker'[w].pc = "next" /\ worker'[w].todo = worker[w].todo
        /\ \A v \in Workers \ {w} : worker'[v] = worker[v]
    BY <1>0, <1>a, <1>10 DEF Finish, NextRow, TypeOK, WorkerState
  <2>3. TodoInv(w)' /\ CurInv(w)'
    BY <1>a, <2>1, <2>2 DEF TodoInv, CurInv, Monotone, WorkerState
  <2>4. \A v \in Workers : HistoryKept(v)
    BY <1>10 DEF Finish, HistoryKept, histVars
  <2> QED
    BY <1>0, <2>1, <2>2, <2>3, <2>4, StepOf
<1>11. ASSUME NEW w \in Workers, EndPass(w) PROVE IInv'
  <2>1. /\ worker'[w] = Idle /\ \A v \in Workers \ {w} : worker'[v] = worker[v]
    BY <1>0, <1>11 DEF EndPass, TypeOK
  <2>2. TodoInv(w)' /\ CurInv(w)'
    BY <2>1 DEF TodoInv, CurInv, Idle
  <2> QED
    BY <1>0, <1>11, <2>1, <2>2, StepOf, TablesKept DEF EndPass, Idle
<1>12. ASSUME NEW w \in Workers, StatementFails(w) PROVE IInv'
  BY <1>0, <1>12, StatementErrorKeeps, StepOf, TablesKept DEF StatementFails
<1>13. ASSUME NEW w \in Workers, Disconnect(w) PROVE IInv'
  <2>1. /\ worker'[w].pc = worker[w].pc /\ worker'[w].cur = worker[w].cur
        /\ worker'[w].todo = worker[w].todo /\ worker'[w].outcome = worker[w].outcome
        /\ \A v \in Workers \ {w} : worker'[v] = worker[v]
    BY <1>0, <1>a, <1>13 DEF Disconnect, TypeOK, WorkerState
  <2>2. UNCHANGED <<task, claimed, ran, returned>>
    BY <1>13 DEF Disconnect, dbVars, histVars
  <2>3. TodoInv(w)'
    BY <1>a, <2>1, <2>2 DEF TodoInv
  <2>4. CurInv(w)'
    BY <1>a, <2>1, <2>2 DEF CurInv
  <2>5. worker[w].pc \in {"claimed", "handling"} =>
          \A v \in Workers \ {w} : worker[v].pc \in {"claimed", "handling"} =>
             worker[v].cur # worker[w].cur
    BY DEF IInv, Exclusive
  <2> QED
    BY <1>0, <1>13, <2>1, <2>3, <2>4, <2>5, StepOf, TablesKept DEF Disconnect
<1>14. ASSUME NEW w \in Workers, AcknowledgementLost(w) PROVE IInv'
  <2> DEFINE r == worker[w].cur
  <2>1. /\ InStatement(w) /\ r \in Requests /\ Kind[r] = w[2]
        /\ worker[w].pc = "materializing" => w[2] = "video"
        /\ worker[w].pc = "claiming" => w[2] = "handcard"
    BY <1>14, <1>a DEF AcknowledgementLost, InStatement, CurInv
  <2>2. /\ Monotone /\ \A q \in Requests : RequestInv(q)'
        /\ UNCHANGED <<ran, returned>>
    <3>1. CASE worker[w].pc = "materializing"
      BY <1>14, <2>1, <3>1, CreateVideoKeeps DEF AcknowledgementLost, histVars
    <3>2. CASE worker[w].pc = "claiming"
      BY <1>14, <2>1, <3>2, SetRunningKeeps DEF AcknowledgementLost, SetRunning
    <3>3. CASE worker[w].pc = "finishing"
      BY <1>14, <3>3, SettleKeeps DEF AcknowledgementLost, histVars
    <3> QED
      BY <2>1, <3>1, <3>2, <3>3 DEF InStatement
  <2>3. \A v \in Workers : HistoryKept(v)
    BY <2>2 DEF HistoryKept
  <2>4. CASE StatementError(w)
    BY <1>0, <2>1, <2>2, <2>3, <2>4, StatementErrorKeeps, StepOf
  <2>5. CASE worker' = [worker EXCEPT ![w] = [@ EXCEPT !.pc = "finishing",
                !.outcome = "failed", !.guarded = FALSE, !.alive = FALSE]]
    <3>1. /\ worker'[w].pc = "finishing" /\ worker'[w].outcome = "failed"
          /\ worker'[w].cur = r /\ worker'[w].todo = worker[w].todo
          /\ \A v \in Workers \ {w} : worker'[v] = worker[v]
      BY <1>0, <1>a, <2>5 DEF TypeOK, WorkerState
    <3>2. TodoInv(w)'
      BY <1>a, <2>2, <3>1 DEF TodoInv, Monotone, WorkerState
    <3>3. CurInv(w)'
      BY <1>a, <2>1, <2>2, <3>1 DEF CurInv, Monotone, InStatement
    <3> QED
      BY <1>0, <2>2, <2>3, <3>1, <3>2, <3>3, StepOf
  <2> QED
    BY <1>14, <2>4, <2>5 DEF AcknowledgementLost
<1>15. ASSUME NEW p \in Processes, Crash(p) PROVE IInv'
  <2>1. \A v \in Workers : worker'[v] = worker[v] \/ worker'[v] = Idle
    BY <1>15 DEF Crash
  <2>2. UNCHANGED <<dbVars, histVars>>
    BY <1>15 DEF Crash
  <2>3. ASSUME NEW v \in Workers PROVE TodoInv(v)' /\ CurInv(v)'
    <3>1. CASE worker'[v] = Idle
      BY <3>1 DEF TodoInv, CurInv, Idle
    <3>2. CASE worker'[v] = worker[v]
      BY <1>0, <1>a, <2>2, <3>2, Bystander, TablesKept
    <3> QED
      BY <2>1, <3>1, <3>2
  <2>4. Exclusive'
    BY <2>1 DEF IInv, Exclusive, Idle
  <2> QED
    BY <1>0, <2>2, <2>3, <2>4, TablesKept DEF IInv
<1>16. CASE UNCHANGED vars
  BY <1>16, <1>b, TablesKept DEF vars
<1> QED
  BY <1>1, <1>2, <1>3, <1>4, <1>5, <1>6, <1>7, <1>8, <1>9, <1>10, <1>11, <1>12, <1>13,
     <1>14, <1>15, <1>16 DEF Next, WorkerStep, FaultStep

\* The invariant holds in every reachable state.
LEMMA Invariance == Spec => []IInv
  BY InitIInv, NextIInv, PTL DEF Spec

-----------------------------------------------------------------------------
(* The properties.                                                         *)

\* Every variable has its type, whatever crashes or is lost.
THEOREM TypeCorrect == Spec => []TypeOK
<1>1. IInv => TypeOK
  BY DEF IInv
<1> QED
  BY <1>1, Invariance, PTL

\* What a caller is told when it repeats a request agrees with what became of
\* its task (request-dedup.ts:40-50, inbox.ts:22-36 and 57-72).
THEOREM ReceiptsAgree == Spec => []ReceiptAgreesWithTask
<1>1. IInv => ReceiptAgreesWithTask
  BY DEF IInv, RequestInv, ReceiptAgreesWithTask
<1> QED
  BY <1>1, Invariance, PTL

\* The paid hand card handler is entered at most once per invocation
\* (inbox.ts:81-86 and 101-104).
THEOREM HandlerOnce == Spec => []HandlerRunsAtMostOnce
<1>1. IInv => HandlerRunsAtMostOnce
  BY DEF IInv, RequestInv, HandlerRunsAtMostOnce
<1> QED
  BY <1>1, Invariance, PTL

\* A video task is completed exactly when its one video exists (inbox.ts:45-78).
THEOREM OneVideo == Spec => []OneVideoPerTask
<1>1. IInv => OneVideoPerTask
  BY DEF IInv, RequestInv, OneVideoPerTask
<1> QED
  BY <1>1, Invariance, PTL

\* What an invocation costs or leaves behind happens once (inbox.ts:45-86).
THEOREM EffectsOnce == Spec => []EffectsHappenOnce
BY HandlerOnce, OneVideo, PTL DEF EffectsHappenOnce

\* A hand card is reported done only with what its handler returned, and paused
\* only if it had been started (inbox.ts:82-86 and 104-106).
THEOREM OutcomesEarned == Spec => []OutcomeIsEarned
<1>1. IInv => OutcomeIsEarned
  BY DEF IInv, RequestInv, OutcomeIsEarned
<1> QED
  BY <1>1, Invariance, PTL

\* The transactions write neither the task nor the receipt of a settled task.
LEMMA SettledKept ==
  ASSUME IInv, NEW q \in Requests, task[q] \in Settled, [Next]_vars
  PROVE  task'[q] = task[q] /\ receipt'[q] = receipt[q]
<1>0. TypeOK /\ RequestInv(q) /\ \A w \in Workers : CurInv(w)
  BY DEF IInv
<1> USE <1>0 DEF TypeOK, dbVars, histVars
<1>1. ASSUME NEW c \in calls, ClaimFeishuRequest(c)
      PROVE  task'[q] = task[q] /\ receipt'[q] = receipt[q]
  BY <1>1 DEF ClaimFeishuRequest, RequestInv, Settled
<1>2. ASSUME NEW r \in Requests, task[r] = "pending", CreateVideoAndJob(r)
      PROVE  task'[q] = task[q] /\ receipt'[q] = receipt[q]
  BY <1>2 DEF CreateVideoAndJob, Settled
<1>3. ASSUME NEW r \in Requests, SetRunning(r)
      PROVE  task'[q] = task[q] /\ receipt'[q] = receipt[q]
  BY <1>3 DEF SetRunning, Settled
<1>4. ASSUME NEW r \in Requests, NEW outcome, SettleTask(r, outcome)
      PROVE  task'[q] = task[q] /\ receipt'[q] = receipt[q]
  BY <1>4 DEF SettleTask, Settled, Open
<1>5. ASSUME NEW w \in Workers, worker[w].pc \in {"materializing", "claiming", "finishing"}
      PROVE  worker[w].cur \in Requests
  BY <1>5 DEF CurInv
<1>6. ASSUME NEW w \in Workers, MaterializeInboxVideo(w) \/ ClaimTask(w) \/ Finish(w)
      PROVE  task'[q] = task[q] /\ receipt'[q] = receipt[q]
  BY <1>2, <1>3, <1>4, <1>5, <1>6 DEF MaterializeInboxVideo, ClaimTask, Finish
<1>7. ASSUME NEW w \in Workers, AcknowledgementLost(w)
      PROVE  task'[q] = task[q] /\ receipt'[q] = receipt[q]
  BY <1>2, <1>3, <1>4, <1>5, <1>7 DEF AcknowledgementLost
<1>8. CASE UNCHANGED dbVars
  BY <1>8
<1>9. \/ \E c \in calls : ClaimFeishuRequest(c)
      \/ \E w \in Workers : MaterializeInboxVideo(w) \/ ClaimTask(w) \/ Finish(w)
                             \/ AcknowledgementLost(w)
      \/ UNCHANGED dbVars
  BY DEF Next, WorkerStep, FaultStep, Arrive, BeginPass, ProcessTask, CheckRow, StartHandler,
     HandlerReturns, StatementFails, EndPass, Disconnect, Crash, vars
<1> QED
  BY <1>1, <1>6, <1>7, <1>8, <1>9

\* An outcome is never changed again, neither by a worker that lost its lock nor
\* after a COMMIT whose acknowledgement was lost (inbox.ts:28-33).
THEOREM OutcomesFinal == Spec => OutcomeIsFinal
<1>1. IInv /\ [Next]_vars =>
        [\A r \in Requests : task[r] \in Settled =>
             task'[r] = task[r] /\ receipt'[r] = receipt[r]]_vars
  BY SettledKept
<1> QED
  BY <1>1, Invariance, PTL DEF Spec, OutcomeIsFinal

-----------------------------------------------------------------------------
(* The inbox implements its contract.                                      *)

\* Initial states are initial states of the contract.
LEMMA InitMaps == Init => Contract!Init
<1> SUFFICES ASSUME Init PROVE Contract!Init
  OBVIOUS
<1>1. OpOf = [r \in Requests |-> "new"]
  BY DEF Init, OpOf
<1>2. EffectsOf = [r \in Requests |-> 0]
  BY DEF Init, EffectsOf
<1>3. ASSUME NEW r \in Requests PROVE (r \in claimed) = FALSE
  BY DEF Init
<1>4. [r \in Requests |-> r \in claimed] = [r \in Requests |-> FALSE]
  BY <1>3, Zenon
<1> QED
  BY <1>1, <1>2, <1>4 DEF Contract!Init

\* Steps that leave receipts, videos and history alone are not seen.
LEMMA Unseen == UNCHANGED <<receipt, videos, claimed, ran>> => UNCHANGED Contract!vars
  BY DEF Contract!vars, OpOf, EffectsOf

\* A new call is an operation accepted; a repeated one is not seen.
LEMMA CallMaps ==
  ASSUME IInv, NEW c \in calls, ClaimFeishuRequest(c)
  PROVE  Contract!Accept(c.id) \/ UNCHANGED Contract!vars
<1>1. c.id \in Requests
  BY DEF IInv, TypeOK
<1>2. CASE receipt[c.id] = "none"
  BY <1>1, <1>2 DEF ClaimFeishuRequest, Contract!Accept, OpOf, EffectsOf, IInv, TypeOK, histVars
<1>3. CASE receipt[c.id] # "none"
  BY <1>3, Unseen DEF ClaimFeishuRequest, histVars
<1> QED
  BY <1>2, <1>3

\* The video transaction completes the operation and is its effect.
LEMMA VideoMaps ==
  ASSUME IInv, NEW r \in Requests, Kind[r] = "video", task[r] = "pending",
         CreateVideoAndJob(r), UNCHANGED histVars
  PROVE  Contract!Materialize(r)
<1>1. receipt[r] = "accepted"
  BY DEF IInv, RequestInv, Open
<1>2. OpOf' = [OpOf EXCEPT ![r] = "completed"]
  BY <1>1 DEF OpOf, CreateVideoAndJob, IInv, TypeOK
<1>3. EffectsOf' = [EffectsOf EXCEPT ![r] = @ + 1]
  BY DEF EffectsOf, CreateVideoAndJob, IInv, TypeOK, histVars
<1>4. OpOf[r] = "accepted"
  BY <1>1 DEF OpOf
<1> QED
  BY <1>2, <1>3, <1>4 DEF Contract!Materialize, histVars

\* Claiming a hand card starts its operation.
LEMMA StartMaps ==
  ASSUME IInv, NEW r \in Requests, Kind[r] = "handcard", SetRunning(r)
  PROVE  Contract!Start(r)
<1>1. receipt[r] = "accepted" /\ r \notin claimed
  BY SetRunningKeeps DEF IInv, RequestInv, Open, SetRunning
<1>2. claimed' = claimed \cup {r} /\ UNCHANGED <<receipt, videos, ran>>
  BY DEF SetRunning
<1> DEFINE Started == [q \in Requests |-> q \in claimed]
<1>3. ASSUME NEW q \in Requests PROVE Started'[q] = [Started EXCEPT ![r] = TRUE][q]
  <2>1. CASE q = r
    <3>1. (q \in claimed') = TRUE
      BY <1>2, <2>1
    <3> QED
      BY <2>1, <3>1, Zenon
  <2>2. CASE q # r
    <3>1. (q \in claimed') = (q \in claimed)
      BY <1>2, <2>2
    <3> QED
      BY <2>2, <3>1, Zenon
  <2> QED
    BY <2>1, <2>2
<1>4. Started' = [Started EXCEPT ![r] = TRUE]
  BY <1>3, Zenon
<1>5. Kind[r] # "video" /\ ~Started[r]
  BY <1>1
<1>6. OpOf[r] = "accepted" /\ OpOf' = OpOf /\ EffectsOf' = EffectsOf
  BY <1>1, <1>2 DEF OpOf, EffectsOf
<1> QED
  BY <1>4, <1>5, <1>6 DEF Contract!Start

\* Entering the handler is the effect of a started operation.
LEMMA HandlerMaps ==
  ASSUME IInv, NEW w \in Workers, StartHandler(w)
  PROVE  Contract!TakeEffect(worker[w].cur)
<1> DEFINE r == worker[w].cur
<1>1. r \in Requests /\ Kind[r] = "handcard" /\ r \in claimed /\ ran[r] = 0
  BY DEF StartHandler, IInv, CurInv
<1>2. ran' = [ran EXCEPT ![r] = 1] /\ UNCHANGED <<receipt, videos, claimed>>
  BY <1>1 DEF StartHandler, dbVars, IInv, TypeOK
<1> HIDE DEF r
<1>3. EffectsOf' = [EffectsOf EXCEPT ![r] = 1]
  BY <1>1, <1>2 DEF EffectsOf, IInv, TypeOK
<1> QED
  BY <1>1, <1>2, <1>3 DEF Contract!TakeEffect, EffectsOf, OpOf, r

\* Settling an open task settles its operation, with an outcome it has earned.
LEMMA SettleMaps ==
  ASSUME IInv, NEW w \in Workers, worker[w].pc = "finishing",
         SettleTask(worker[w].cur, worker[w].outcome), UNCHANGED histVars
  PROVE  Contract!Settle(worker[w].cur) \/ UNCHANGED Contract!vars
<1> DEFINE r == worker[w].cur
           outcome == worker[w].outcome
<1>1. /\ r \in Requests /\ outcome \in Settled /\ RequestInv(r)
      /\ outcome \in {"completed", "partial"} =>
            Kind[r] = "handcard" /\ r \in claimed /\ returned[r] = outcome
  BY DEF IInv, CurInv, TypeOK, WorkerState
<1>2. SettleTask(r, outcome)
  OBVIOUS
<1> HIDE DEF r, outcome
<1>3. CASE task[r] \in Open
  <2>1. receipt[r] = "accepted" /\ receipt' = [receipt EXCEPT ![r] = ReceiptOf(outcome)]
    BY <1>1, <1>2, <1>3 DEF SettleTask, RequestInv, IInv, TypeOK
  <2>2. ReceiptOf(outcome) \in {"completed", "partial", "failed"}
    BY <1>1 DEF ReceiptOf, Settled
  <2>3. OpOf[r] = "accepted" /\ OpOf' = [OpOf EXCEPT ![r] = ReceiptOf(outcome)]
    BY <1>1, <2>1, <2>2 DEF OpOf, IInv, TypeOK
  <2>4. ReceiptOf(outcome) # "failed" => r \in claimed /\ EffectsOf[r] = 1
    BY <1>1 DEF ReceiptOf, Settled, RequestInv, EffectsOf
  <2>5. UNCHANGED <<videos, claimed, ran>>
    BY <1>2 DEF SettleTask, histVars
  <2>6. EffectsOf' = EffectsOf
    BY <2>5 DEF EffectsOf
  <2>7. Contract!Settle(r)
    BY <1>1, <2>2, <2>3, <2>4, <2>5, <2>6 DEF Contract!Settle, Contract!Outcomes
  <2> QED
    BY <2>7 DEF r
<1>4. CASE task[r] \notin Open
  BY <1>2, <1>4, Unseen DEF SettleTask, histVars
<1> QED
  BY <1>3, <1>4

\* Every step is a step of the contract or is not seen.
LEMMA StepMaps == IInv /\ [Next]_vars => [Contract!Next]_(Contract!vars)
<1> SUFFICES ASSUME IInv, [Next]_vars PROVE Contract!Next \/ UNCHANGED Contract!vars
  OBVIOUS
<1>1. ASSUME NEW r \in Requests, Contract!Accept(r) \/ Contract!Start(r) \/ Contract!TakeEffect(r)
                                 \/ Contract!Settle(r) \/ Contract!Materialize(r)
      PROVE  Contract!Next
  BY <1>1 DEF Contract!Next
<1>2. ASSUME NEW w \in Workers, worker[w].pc \notin {"idle", "next"}
      PROVE  /\ worker[w].cur \in Requests /\ Kind[worker[w].cur] = w[2]
             /\ worker[w].pc = "materializing" => w[2] = "video"
             /\ worker[w].pc = "claiming" => w[2] = "handcard"
  BY <1>2 DEF IInv, CurInv
<1>3. ASSUME NEW c \in calls, ClaimFeishuRequest(c) PROVE Contract!Next \/ UNCHANGED Contract!vars
  BY <1>1, <1>3, CallMaps DEF IInv, TypeOK
<1>4. ASSUME NEW w \in Workers, MaterializeInboxVideo(w)
      PROVE  Contract!Next \/ UNCHANGED Contract!vars
  BY <1>1, <1>2, <1>4, VideoMaps, Unseen DEF MaterializeInboxVideo, dbVars, histVars
<1>5. ASSUME NEW w \in Workers, ClaimTask(w) PROVE Contract!Next \/ UNCHANGED Contract!vars
  BY <1>1, <1>2, <1>5, StartMaps, Unseen DEF ClaimTask, dbVars, histVars
<1>6. ASSUME NEW w \in Workers, StartHandler(w) PROVE Contract!Next
  BY <1>1, <1>2, <1>6, HandlerMaps DEF StartHandler
<1>7. ASSUME NEW w \in Workers, Finish(w) PROVE Contract!Next \/ UNCHANGED Contract!vars
  BY <1>1, <1>2, <1>7, SettleMaps DEF Finish
<1>8. ASSUME NEW w \in Workers, AcknowledgementLost(w)
      PROVE  Contract!Next \/ UNCHANGED Contract!vars
  <2>1. CASE worker[w].pc = "materializing"
    BY <1>1, <1>2, <1>8, <2>1, VideoMaps DEF AcknowledgementLost
  <2>2. CASE worker[w].pc = "claiming"
    BY <1>1, <1>2, <1>8, <2>2, StartMaps DEF AcknowledgementLost
  <2>3. CASE worker[w].pc = "finishing"
    BY <1>1, <1>2, <1>8, <2>3, SettleMaps DEF AcknowledgementLost
  <2> QED
    BY <1>8, <2>1, <2>2, <2>3 DEF AcknowledgementLost
<1>9. CASE UNCHANGED <<receipt, videos, claimed, ran>>
  BY <1>9, Unseen
<1>10. \/ \E c \in calls : ClaimFeishuRequest(c)
       \/ \E w \in Workers : MaterializeInboxVideo(w) \/ ClaimTask(w) \/ StartHandler(w)
                              \/ Finish(w) \/ AcknowledgementLost(w)
       \/ UNCHANGED <<receipt, videos, claimed, ran>>
  BY DEF Next, WorkerStep, FaultStep, Arrive, BeginPass, ProcessTask, CheckRow,
     HandlerReturns, StatementFails, EndPass, Disconnect, Crash, vars, dbVars, histVars
<1> QED
  BY <1>3, <1>4, <1>5, <1>6, <1>7, <1>8, <1>9, <1>10

\* Whatever crashes, is lost or is repeated, a caller sees each operation
\* accepted once, taking effect at most once, and given one earned and final
\* outcome: the inbox implements InboxContract.
THEOREM Implements == Spec => ImplementsContract
  BY InitMaps, StepMaps, Invariance, PTL DEF Spec, ImplementsContract, Contract!Spec
=============================================================================
