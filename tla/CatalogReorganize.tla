-------------------------- MODULE CatalogReorganize --------------------------
(***************************************************************************)
(* The catalog of one product together with its reorganizations:           *)
(* lib/products/catalog-reorganize.ts, which an administrator starts with  *)
(* a task id, and the repair of a failed analysis in backfill.ts, whose id *)
(* is derived from the failure.  A reorganization asks the model again     *)
(* about the saved product while lookups go on, and publishes its result   *)
(* into the row of the lookups.  Each process runs its reorganizations one *)
(* after another; a named lock of MySQL keeps processes apart.             *)
(***************************************************************************)
EXTENDS ProductCatalog

CONSTANTS
    Repairs,    \* the reorganizations derived from a failed analysis
    Nobody

ASSUME ReorganizeConstants == Repairs \subseteq Tasks /\ Nobody \notin Workers \cup Tasks

VARIABLES
    task,       \* product_catalog_reorganizations, with the files of the id
    archived,   \* the results in the directories moved away with a refusal
    admin,      \* the reorganization each process is at
    lock,       \* GET_LOCK("catalog-reorganize:" + pid): the process whose session holds it
    repairable, \* calls of the repair that read a failed analysis
    requests    \* requests of each reorganization to the model (history)

taskVars == <<task, archived, admin, lock, repairable, requests>>
allVars  == <<vars, taskVars>>

NoTask  == [state |-> "none", started |-> FALSE, organized |-> FALSE]
\* cut: the session was lost, and the process has not noticed yet.
NoAdmin == [pc |-> "idle", id |-> Nobody, cut |-> FALSE]

InitAll ==
    /\ Init
    /\ task = [t \in Tasks |-> NoTask]
    /\ archived = {}
    /\ admin = [p \in Workers |-> NoAdmin]
    /\ lock = Nobody
    /\ repairable = {}
    /\ requests = [t \in Tasks |-> 0]

At(p, pc) == [admin EXCEPT ![p].pc = pc]

\* The end of runReorganization: whatever happened, its lock is released.
Release(p) ==
    /\ admin' = [admin EXCEPT ![p] = NoAdmin]
    /\ lock' = IF lock = p THEN Nobody ELSE lock

\* writeProductCard read the row: a failed analysis of a fetched product.
RequestRepair(p) ==
    /\ row.fetch = "ready" /\ row.analysis = "failed"
    /\ repairable' = repairable \cup {p}
    /\ UNCHANGED <<vars, task, archived, admin, lock, requests>>

Saved == public.receipt = "ready" \/ supplier.receipt = "data"

\* Mutant: another unfinished task is not looked for.
BeginBeside(p, t) ==
    /\ admin[p].pc = "idle" /\ lock = Nobody
    /\ t \in Repairs => p \in repairable
    /\ task[t].state = "none" /\ row.fetch = "ready" /\ row.analysis # "requested" /\ Saved
    /\ repairable' = repairable \ {p}
    /\ admin' = [admin EXCEPT ![p] = [NoAdmin EXCEPT !.pc = "insert", !.id = t]]
    /\ lock' = p
    /\ UNCHANGED <<vars, task, archived, requests>>

\* runReorganization up to its INSERT.  A task that has a result is published; a
\* new one needs a saved product, no other unfinished task, and no lookup that
\* is at its own analysis.
Begin(p, t) ==
    /\ admin[p].pc = "idle" /\ lock = Nobody
    /\ t \in Repairs => p \in repairable
    /\ repairable' = IF t \in Repairs THEN repairable \ {p} ELSE repairable
    /\ \/ /\ task[t].state \notin {"none", "ready"} /\ task[t].organized
          /\ admin' = [admin EXCEPT ![p] = [NoAdmin EXCEPT !.pc = "publish", !.id = t]]
       \/ /\ task[t].state = "none"
          /\ \A other \in Tasks : task[other].state # "requested"
          /\ row.fetch = "ready" /\ row.analysis # "requested"
          /\ Saved
          /\ admin' = [admin EXCEPT ![p] = [NoAdmin EXCEPT !.pc = "insert", !.id = t]]
    /\ lock' = p
    /\ UNCHANGED <<vars, task, archived, requests>>

\* Mutant: the task is inserted in a state no one knows.
InsertRunning(p) ==
    /\ admin[p].pc = "insert" /\ ~admin[p].cut
    /\ task' = [task EXCEPT ![admin[p].id].state = "running"]
    /\ admin' = At(p, "ask")
    /\ UNCHANGED <<vars, archived, lock, repairable, requests>>

InsertTask(p) ==
    /\ admin[p].pc = "insert" /\ ~admin[p].cut
    /\ task' = [task EXCEPT ![admin[p].id].state = "requested"]
    /\ admin' = At(p, "ask")
    /\ UNCHANGED <<vars, archived, lock, repairable, requests>>

\* analyzeCatalog with the id: the exclusive marker, then the model.
AskModel(p) ==
    /\ admin[p].pc = "ask"
    /\ LET t == admin[p].id IN
       IF task[t].started
       THEN UNCHANGED <<task, requests>> /\ admin' = At(p, "failTask")
       ELSE /\ task' = [task EXCEPT ![t].started = TRUE]
            /\ requests' = [requests EXCEPT ![t] = @ + 1]
            /\ admin' = At(p, "model")
    /\ UNCHANGED <<vars, archived, lock, repairable>>

\* Mutant: the result is published before it is saved.
ReplyUnsaved(p) ==
    /\ admin[p].pc = "model"
    /\ task' = task
    /\ admin' \in {At(p, "publish"), At(p, "failTask")}
    /\ UNCHANGED <<vars, archived, lock, repairable, requests>>

ModelReplies(p) ==
    /\ admin[p].pc = "model"
    /\ \/ /\ task' = [task EXCEPT ![admin[p].id].organized = TRUE]
          /\ admin' = At(p, "publish")
       \/ task' = task /\ admin' = At(p, "failTask")
    /\ UNCHANGED <<vars, archived, lock, repairable, requests>>

\* One transaction: the row, unless a lookup is at its analysis, and the task.
MayPublish == row.fetch = "ready" /\ row.analysis # "requested"

Publish(p) ==
    /\ admin[p].pc = "publish" /\ ~admin[p].cut
    /\ UpdateRow(MayPublish, [row EXCEPT !.analysis = "ready", !.result = admin[p].id], worker)
    /\ task' = IF MayPublish THEN [task EXCEPT ![admin[p].id].state = "ready"] ELSE task
    /\ Release(p)
    /\ UNCHANGED <<metadata, files, history, setting, faults, archived, repairable, requests>>

\* The catch: a task without a result fails, if the session can still say so.
FailTask(p) ==
    /\ admin[p].pc = "failTask"
    /\ task' = IF ~admin[p].cut /\ task[admin[p].id].state = "requested"
               THEN [task EXCEPT ![admin[p].id].state = "failed"] ELSE task
    /\ Release(p)
    /\ UNCHANGED <<vars, archived, repairable, requests>>

\* A statement of a lost session fails; a task with a result keeps its state.
NoticeCut(p) ==
    /\ admin[p].pc \in {"insert", "publish"} /\ admin[p].cut
    /\ Release(p)
    /\ UNCHANGED <<vars, task, archived, repairable, requests>>

\* The session is lost, and its lock with it, while the process goes on.
CutSession(p) ==
    /\ admin[p].pc # "idle" /\ ~admin[p].cut /\ faults < MaxFaults
    /\ faults' = faults + 1
    /\ admin' = [admin EXCEPT ![p].cut = TRUE] /\ lock' = Nobody
    /\ UNCHANGED <<row, metadata, files, worker, history, setting, task, archived, repairable, requests>>

\* The process dies, or a statement fails: the task stays as it is.
AbandonTask(p) ==
    /\ admin[p].pc # "idle" /\ faults < MaxFaults
    /\ faults' = faults + 1
    /\ Release(p)
    /\ UNCHANGED <<row, metadata, files, worker, history, setting, task, archived, repairable, requests>>

TaskStep(p) ==
    InsertTask(p) \/ AskModel(p) \/ ModelReplies(p) \/ Publish(p) \/ FailTask(p) \/ NoticeCut(p)

\* A release restarts the processes and cuts their sessions.
DeployAll ==
    /\ Deploy
    /\ admin' = [p \in Workers |-> NoAdmin] /\ lock' = Nobody /\ repairable' = {}
    /\ UNCHANGED <<task, archived, requests>>

NextLookup ==
    \/ \E w \in Workers : \/ StartName(w) \/ StartCatalog(w) \/ StepInPlace(w)
                          \/ Abandon(w) \/ StatementFails(w)
    \/ CoolDown

\* The files of the reorganizations are below the directory that a refusal is
\* archived with; a result that another lookup or a reorganization saved there
\* after the refusal was read goes with it.
ArchiveAll(w) ==
    /\ MoveDirectory(w)
    /\ archived' = archived \cup {t \in Tasks : task[t].organized}
                            \cup {result \in {"own"} : supplier.organized}
    /\ task' = [t \in Tasks |-> [task[t] EXCEPT !.started = FALSE, !.organized = FALSE]]
    /\ UNCHANGED <<admin, lock, repairable, requests>>

NextAll ==
    \/ NextLookup /\ UNCHANGED taskVars
    \/ DeployAll
    \/ \E p \in Workers :
          \/ ArchiveAll(p)
          \/ RequestRepair(p)
          \/ \E t \in Tasks : Begin(p, t)
          \/ TaskStep(p)
          \/ CutSession(p)
          \/ AbandonTask(p)

SpecAll == InitAll /\ [][NextAll]_allVars

-----------------------------------------------------------------------------
(* Properties.                                                             *)

\* Type correctness: the tasks, the reorganizations under way and the lock.
TypeOKAll ==
    /\ TypeOK
    /\ archived \subseteq {"own"} \cup Tasks
    /\ task \in [Tasks -> [state : {"none", "requested", "failed", "ready"},
                           started : BOOLEAN, organized : BOOLEAN]]
    /\ admin \in [Workers -> [pc : {"idle", "insert", "ask", "model", "failTask", "publish"},
                              id : Tasks \cup {Nobody}, cut : BOOLEAN]]
    /\ lock \in Workers \cup {Nobody}
    /\ repairable \subseteq Workers
    /\ requests \in [Tasks -> Nat]

\* Every analysis that was paid for is asked once, whoever asks and resumes it, and a
\* result in the row is one that was saved to a file first and is there still, if only
\* among the refusals that were archived with it (catalog-reorganize.ts:38-39 and 74,
\* catalog.ts:206-209, catalog-source.ts:37-42 "Preserve the complete rejected attempt").
\* One reorganization of a product is unfinished and one process asks the model for it,
\* also where a session is cut and its lock passes on (catalog-reorganize.ts:31-44); and
\* once the lookups have an analysis no failure makes the row forget it
\* (catalog.ts:213-214).
EachAnalysisPaidOnce ==
    /\ runs <= 1
    /\ \A t \in Tasks : requests[t] <= 1
    /\ row.result = "own" => supplier.organized \/ "own" \in archived
    /\ row.result \in Tasks => task[row.result].organized \/ row.result \in archived
    /\ \A p, q \in Workers :
          admin[p].pc \in {"ask", "model"} /\ admin[q].pc \in {"ask", "model"} => p = q
    /\ \A s, t \in Tasks : task[s].state = "requested" /\ task[t].state = "requested" => s = t
    /\ supplier.organized => row.analysis \in {"requested", "ready"}

\* A product that has an analysis keeps one: neither a lookup nor a reorganization
\* that fails, loses a race or resumes late takes it away, and a lookup never
\* replaces the result an administrator asked for (catalog-reorganize.ts:74-78).
AnalysisIsKept ==
    [][/\ row.analysis = "ready" => row'.analysis = "ready" /\ row'.result # "none"
       /\ row.result \in Tasks => row'.result \in Tasks]_allVars
=============================================================================
