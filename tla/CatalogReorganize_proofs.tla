---------------------- MODULE CatalogReorganize_proofs ----------------------
(***************************************************************************)
(* Theorems about CatalogReorganize: the types of the catalog with its     *)
(* reorganizations, that each analysis is paid for once, that an analysis  *)
(* is kept, and that the promises of the lookups alone are still kept.     *)
(***************************************************************************)
EXTENDS CatalogReorganize, ProductCatalog_proofs

\* The types of what the reorganizations add.
TaskType  == [state : {"none", "requested", "failed", "ready"}, started : BOOLEAN, organized : BOOLEAN]
AdminPCs  == {"idle", "insert", "ask", "model", "failTask", "publish"}
AdminType == [pc : AdminPCs, id : Tasks \cup {Nobody}, cut : BOOLEAN]

TaskTypes ==
    /\ task \in [Tasks -> TaskType] /\ archived \subseteq {"own"} \cup Tasks
    /\ admin \in [Workers -> AdminType] /\ lock \in Workers \cup {Nobody}
    /\ repairable \subseteq Workers /\ requests \in [Tasks -> Nat]

-----------------------------------------------------------------------------
(* The inductive invariant.                                                *)

\* The result of the lookups was saved to a file, and that of a task.
OwnSaved     == supplier.organized \/ "own" \in archived
TaskSaved(t) == task[t].organized \/ t \in archived

\* The lookup that claimed the analysis, until there is a result or none.
Claiming    == {"analyze", "model", "failAnalysis"}
Claimant(w) == worker[w].pc \in Claiming

\* The row follows the one analysis of the lookups.
RowFollows ==
    /\ row.analysis = "ready" <=> row.result # "none"
    /\ row.result = "own" => OwnSaved
    /\ OwnSaved => row.analysis \in {"requested", "ready"}
    /\ row.analysis = "waiting" => runs = 0
    /\ runs \in {0, 1}

AnalysisAt(w) ==
    /\ Claimant(w) => row.analysis = "requested" /\ ~OwnSaved
    /\ worker[w].pc = "analyze" => runs = 0
    /\ worker[w].pc = "finish" => OwnSaved

OneClaimant == \A v, w \in Workers : Claimant(v) /\ Claimant(w) => v = w

Analysing == RowFollows /\ OneClaimant /\ \A w \in Workers : AnalysisAt(w)

\* The session of a process holds the lock until it is cut.
Holds(p) == admin[p].pc # "idle" /\ ~admin[p].cut
Locked   == \A p \in Workers : lock = p <=> Holds(p)

\* A process that asks for a task, and one that is past it.
Asks(p) == admin[p].pc \in {"ask", "model"}
Past(p) == admin[p].pc \in {"failTask", "publish"}

Requested == {t \in Tasks : task[t].state = "requested"}

TaskAt(p) ==
    /\ admin[p].pc # "idle" => admin[p].id \in Tasks
    /\ admin[p].pc = "insert" /\ ~admin[p].cut =>
          task[admin[p].id].state = "none" /\ Requested = {}
    /\ Asks(p) => task[admin[p].id].state = "requested" /\ ~TaskSaved(admin[p].id)
    /\ admin[p].pc = "ask" => requests[admin[p].id] = 0
    /\ Past(p) => task[admin[p].id].state # "none"
    /\ admin[p].pc = "publish" => TaskSaved(admin[p].id)

OneAsks == \A p, q \in Workers :
    Asks(p) /\ (Asks(q) \/ (Past(q) /\ admin[q].id = admin[p].id)) => p = q

Paid(t) ==
    /\ requests[t] \in {0, 1}
    /\ task[t].state = "none" => requests[t] = 0 /\ ~TaskSaved(t)

TasksFollow ==
    /\ \A s, t \in Requested : s = t
    /\ \A t \in Tasks : Paid(t)
    /\ row.result \in Tasks => TaskSaved(row.result)

Reorganizing == Locked /\ OneAsks /\ TasksFollow /\ \A p \in Workers : TaskAt(p)

AllInv == IInv /\ TaskTypes /\ Analysing /\ Reorganizing

-----------------------------------------------------------------------------
(* Steps of a lookup that leave the analysis aside.                        *)

Ending == Claiming \cup {"finish"}

\* No lookup comes to its analysis.
Calm(ws) == \A v \in Workers : ws[v].pc \in Ending => ws[v].pc = worker[v].pc

Aside ==
    /\ row'.analysis = row.analysis /\ row'.result = row.result /\ runs' = runs
    /\ supplier'.organized = supplier.organized
    /\ Calm(worker')

LEMMA OthersCalm ==
    ASSUME NEW w \in Workers, NEW ws, Others(ws, w), ws[w].pc \notin Ending
    PROVE  Calm(ws)
BY DEF Others, Calm

LEMMA BecomesCalm ==
    ASSUME worker \in Lookups, NEW w \in Workers, NEW l, l.pc \notin Ending
    PROVE  Calm(Becomes(w, l))
BY DEF Lookups, Becomes, Calm

LEMMA GoCalm ==
    ASSUME worker \in Lookups, NEW w \in Workers, NEW pc \in PCs \ Ending
    PROVE  Go(w, pc) \in Lookups /\ Calm(Go(w, pc))
BY GoActs, OthersCalm

LEMMA LeaveCalm ==
    ASSUME worker \in Lookups, NEW w \in Workers
    PROVE  Leave(w) \in Lookups /\ Calm(Leave(w))
BY LeaveActs, OthersCalm DEF Ending, Claiming

LEMMA PageCalm ==
    ASSUME worker \in Lookups, NEW w \in Workers, NEW item \in Items
    PROVE  /\ WithItem(w, item) \in Lookups /\ Calm(WithItem(w, item))
           /\ PublicFails(w) \in Lookups /\ Calm(PublicFails(w))
BY WithItemActs, PublicFailsActs, OthersCalm DEF Ending, Claiming

LEMMA UpdateAside ==
    ASSUME NEW matches, NEW written, NEW next \in Lookups, UpdateRow(matches, written, next),
           written.analysis = row.analysis, written.result = row.result, Calm(next),
           UNCHANGED <<files, history>>
    PROVE  Aside
BY StaleAgrees DEF UpdateRow, Agree, Calm, Aside, files, history

LEMMA StartAside ==
    ASSUME Types, NEW w \in Workers, StartName(w) \/ StartCatalog(w) \/ Lookup(w)
    PROVE  Aside
<1> DEFINE pc == IF row.fetch = "failed" THEN "recover" ELSE "lookup"
           name == [Idle EXCEPT !.op = "name", !.fresh = row.fetch = "failed", !.pc = pc]
           catalog == [Idle EXCEPT !.op = "catalog", !.seen = row, !.fresh = row.fetch = "failed", !.pc = pc]
           found == [worker[w] EXCEPT !.item = CachedItem,
                       !.pc = IF worker[w].op = "catalog" /\ worker[w].seen = NoRow THEN "claim" ELSE "remember"]
<1>1. name.pc \notin Ending /\ catalog.pc \notin Ending
    BY DEF Idle, Ending, Claiming
<1>2. found.pc \notin Ending
    BY DEF Types, Lookups, LookupType, Ending, Claiming
<1>3. worker' \in {Becomes(w, name), Becomes(w, catalog), Becomes(w, found), Go(w, "claim"), Leave(w)}
    BY DEF StartName, StartCatalog, Lookup
<1>4. "claim" \in PCs \ Ending /\ worker \in Lookups
    BY DEF PCs, Ending, Claiming, Types
<1> HIDE DEF name, catalog, found
<1>5. Calm(worker')
    BY <1>1, <1>2, <1>3, <1>4, BecomesCalm, GoCalm, LeaveCalm
<1> QED BY <1>5 DEF StartName, StartCatalog, Lookup, Aside, files, history

LEMMA ClaimAside ==
    ASSUME Types, NEW w \in Workers, ClaimCatalog(w) \/ ClaimRecovery(w) \/ ClaimCreditRetry(w)
    PROVE  Aside
<1> DEFINE written == [row EXCEPT !.fetch = "requested"]
           next == IF worker[w].item # "none" THEN Go(w, "reread")
                   ELSE IF row = NoRow THEN Go(w, "public") ELSE Leave(w)
           recovery == [worker[w] EXCEPT !.mode = "recovery", !.pc = "public"]
           credit == [worker[w] EXCEPT !.mode = "credit", !.pc = "archive"]
           Next1(l) == IF CanReclaim(w) THEN Becomes(w, l) ELSE Leave(w)
<1>1. written.analysis = row.analysis /\ written.result = row.result
    BY DEF Types, Rows
<1>2. {"reread", "public"} \subseteq PCs \ Ending /\ worker \in Lookups
    BY DEF PCs, Ending, Claiming, Types
<1>3. next \in Lookups /\ Calm(next)
    BY <1>2, GoCalm, LeaveCalm
<1>4. /\ recovery \in LookupType /\ recovery.pc \notin Ending
      /\ credit \in LookupType /\ credit.pc \notin Ending
    BY DEF Types, Lookups, LookupType, PCs, Ending, Claiming
<1>5. UNCHANGED <<files, history>>
    BY DEF ClaimCatalog, ClaimRecovery, ClaimCreditRetry
<1>6. \/ UpdateRow(row = NoRow, written, next)
      \/ UpdateRow(CanReclaim(w), written, Next1(recovery))
      \/ UpdateRow(CanReclaim(w), written, Next1(credit))
    BY DEF ClaimCatalog, ClaimRecovery, ClaimCreditRetry, Reclaim
<1> HIDE DEF written, next, recovery, credit
<1>7. /\ Next1(recovery) \in Lookups /\ Calm(Next1(recovery))
      /\ Next1(credit) \in Lookups /\ Calm(Next1(credit))
    BY <1>2, <1>4, BecomesActs, BecomesCalm, LeaveCalm
<1> HIDE DEF Next1
<1> QED BY <1>1, <1>3, <1>5, <1>6, <1>7, UpdateAside

LEMMA ReceiptAside ==
    ASSUME NEW w \in Workers, NEW kind \in {"ready"} \cup Failures, NEW page \in {"none", "match", "other"},
           NEW next \in Lookups, Calm(next), public \in PublicType, NewReceipt(w, kind, page, next),
           UNCHANGED <<row, supplier, history>>
    PROVE  Aside
BY NewReceiptActs DEF Agree, Calm, Aside, history

LEMMA PageAside ==
    ASSUME Types, NEW w \in Workers, OpenPublic(w) \/ MarkRetry(w) \/ \E kind \in Pages : CapturePage(w, kind)
    PROVE  Aside
<1> DEFINE retry == [worker[w] EXCEPT !.pc = "retry", !.kept = TRUE]
           first == [worker[w] EXCEPT !.pc = "capture", !.again = FALSE]
           again == [worker[w] EXCEPT !.pc = "capture", !.again = TRUE]
           captured(kind) == [worker[w] EXCEPT !.pc = "captured", !.got = kind]
<1>1. worker \in Lookups /\ "public" \in Items /\ public \in PublicType
    BY DEF Types, Items
<1>2. /\ retry.pc \notin Ending /\ first.pc \notin Ending /\ again.pc \notin Ending
      /\ \A kind : captured(kind).pc \notin Ending
    BY <1>1 DEF Lookups, LookupType, Ending, Claiming
<1>3. UNCHANGED <<row, supplier, history>>
    BY DEF OpenPublic, MarkRetry, CapturePage, files
<1>4. \/ worker' \in {WithItem(w, "public"), PublicFails(w),
                      Becomes(w, retry), Becomes(w, first), Becomes(w, again)}
      \/ \E kind : worker' = Becomes(w, captured(kind))
      \/ NewReceipt(w, "ready", "match", WithItem(w, "public"))
    BY DEF OpenPublic, MarkRetry, CapturePage
<1> HIDE DEF retry, first, again, captured
<1>5. CASE NewReceipt(w, "ready", "match", WithItem(w, "public"))
    BY <1>1, <1>3, <1>5, PageCalm, ReceiptAside
<1>6. CASE Calm(worker')
    BY <1>3, <1>6 DEF Aside, history
<1> QED BY <1>1, <1>2, <1>4, <1>5, <1>6, PageCalm, BecomesCalm

LEMMA CaptureAside ==
    ASSUME IInv, NEW w \in Workers, CaptureReceipt(w) \/ CaptureFails(w)
    PROVE  Aside
<1>1. worker \in Lookups /\ "public" \in Items /\ public \in PublicType /\ "network" \in Failures
    BY DEF IInv, Types, Items, Failures
<1>2. UNCHANGED <<row, supplier, history>>
    BY DEF CaptureReceipt, CaptureFails, files
<1>3. ASSUME NEW kind
      PROVE  AfterFailure(w, kind) \in Lookups /\ Calm(AfterFailure(w, kind))
    <2>1. "retry" \in PCs \ Ending
        BY DEF PCs, Ending, Claiming
    <2> QED BY <1>1, <2>1, GoCalm, PageCalm DEF AfterFailure
<1>4. CASE NewReceipt(w, "ready", "match", WithItem(w, "public"))
    BY <1>1, <1>2, <1>4, PageCalm, ReceiptAside
<1>5. CASE \E kind \in Failures, page \in {"none", "match", "other"} :
              NewReceipt(w, kind, page, AfterFailure(w, kind))
    BY <1>1, <1>2, <1>3, <1>5, ReceiptAside
<1>6. CASE CaptureReceipt(w)
    <2>1. worker[w].got \in {"data"} \cup Failures
        BY <1>6 DEF CaptureReceipt, IInv, Entitled
    <2>2. \/ NewReceipt(w, "ready", "match", WithItem(w, "public"))
          \/ worker[w].got \in Failures /\ NewReceipt(w, worker[w].got, "match", AfterFailure(w, worker[w].got))
        BY <1>6, <2>1 DEF CaptureReceipt
    <2> QED BY <1>4, <1>5, <2>2
<1>7. CASE CaptureFails(w)
    <2>1. \E page \in {"none", "match", "other"} :
              NewReceipt(w, "network", page, AfterFailure(w, "network"))
        BY <1>7 DEF CaptureFails
    <2> QED BY <1>1, <1>5, <2>1
<1> QED BY <1>6, <1>7

LEMMA SupplierAside ==
    ASSUME Types, NEW w \in Workers,
           \/ FindProof(w) \/ CheckArchive(w) \/ MarkRequest(w) \/ SaveAnswer(w)
           \/ \E answer \in Answers : AskSupplier(w, answer)
    PROVE  Aside
<1> DEFINE claim == [worker[w] EXCEPT !.pc = "creditClaim", !.fresh = TRUE]
           answered(answer) == [worker[w] EXCEPT !.pc = "answered", !.got = answer]
           failed == [Afresh(worker[w]) EXCEPT !.pc = "failFetch"]
<1>1. worker \in Lookups /\ "paid" \in Items /\ supplier \in SupplierType
    BY DEF Types, Items
<1>2. /\ claim.pc \notin Ending /\ failed.pc \notin Ending
      /\ \A answer : answered(answer).pc \notin Ending
    BY <1>1, AfreshActs DEF Lookups, LookupType, Ending, Claiming
<1>3. {"rename", "failFetch", "ask"} \subseteq PCs \ Ending
    BY DEF PCs, Ending, Claiming
<1>4. \/ worker' \in {Becomes(w, claim), Leave(w), Becomes(w, failed), WithItem(w, "paid"),
                      Go(w, "rename"), Go(w, "failFetch"), Go(w, "ask")}
      \/ \E answer : worker' = Becomes(w, answered(answer))
    BY DEF FindProof, CheckArchive, MarkRequest, SaveAnswer, AskSupplier
<1>5. /\ row' = row /\ runs' = runs /\ supplier'.organized = supplier.organized
    BY <1>1 DEF FindProof, CheckArchive, MarkRequest, SaveAnswer, AskSupplier, files, history, SupplierType
<1> HIDE DEF claim, answered, failed
<1>6. Calm(worker')
    BY <1>1, <1>2, <1>3, <1>4, PageCalm, GoCalm, LeaveCalm, BecomesCalm
<1> QED BY <1>5, <1>6 DEF Aside

LEMMA RowAside ==
    ASSUME Types, NEW w \in Workers,
           RecoveryFails(w) \/ FailFetch(w) \/ MarkFetched(w) \/ Reread(w) \/ Remember(w)
    PROVE  Aside
<1> DEFINE failed == [row EXCEPT !.fetch = "failed"]
           l == [worker[w] EXCEPT !.seen = row, !.pc = "remember"]
<1>1. worker \in Lookups
    BY DEF Types
<1>2. /\ failed.analysis = row.analysis /\ failed.result = row.result
      /\ Fetched(row).analysis = row.analysis /\ Fetched(row).result = row.result
    BY DEF Types, Rows, Fetched
<1>3. l.pc \notin Ending
    BY <1>1 DEF Lookups, LookupType, Ending, Claiming
<1>4. {"proof", "remember", "reread", "organize"} \subseteq PCs \ Ending
    BY DEF PCs, Ending, Claiming
<1>5. UNCHANGED <<files, history>>
    BY DEF RecoveryFails, FailFetch, MarkFetched, Reread, Remember
<1>6. \/ \E next \in {Go(w, "proof"), Leave(w)} : UpdateRow(row.fetch = "requested", failed, next)
      \/ \E next \in {Go(w, "remember"), Go(w, "reread"), Go(w, "organize")} :
            UpdateRow(row.fetch = "requested", Fetched(row), next)
      \/ row' = row /\ worker' \in {Becomes(w, l), Leave(w)}
    BY DEF RecoveryFails, FailFetch, MarkFetched, Reread, Remember
<1> HIDE DEF failed, l
<1>7. ASSUME NEW next \in {Go(w, "proof"), Leave(w), Go(w, "remember"), Go(w, "reread"), Go(w, "organize")}
      PROVE  next \in Lookups /\ Calm(next)
    BY <1>1, <1>4, GoCalm, LeaveCalm
<1>8. CASE \E next \in {Go(w, "proof"), Leave(w)} : UpdateRow(row.fetch = "requested", failed, next)
    BY <1>2, <1>5, <1>7, <1>8, UpdateAside
<1>9. CASE \E next \in {Go(w, "remember"), Go(w, "reread"), Go(w, "organize")} :
            UpdateRow(row.fetch = "requested", Fetched(row), next)
    BY <1>2, <1>5, <1>7, <1>9, UpdateAside
<1>10. CASE row' = row /\ worker' \in {Becomes(w, l), Leave(w)}
    BY <1>1, <1>3, <1>5, <1>10, BecomesCalm, LeaveCalm DEF Aside, files, history
<1> QED BY <1>6, <1>8, <1>9, <1>10

LEMMA FaultAside ==
    ASSUME Types, NEW w \in Workers, Abandon(w) \/ StatementFails(w)
    PROVE  Aside
<1>1. worker \in Lookups
    BY DEF Types
<1>2. {"recoveryFailed", "failFetch"} \subseteq PCs \ Ending
    BY DEF PCs, Ending, Claiming
<1>3. worker' \in {Leave(w), Go(w, "recoveryFailed"), Go(w, "failFetch")}
    BY DEF Abandon, StatementFails
<1> QED BY <1>1, <1>2, <1>3, GoCalm, LeaveCalm DEF Abandon, StatementFails, Aside, files, history

LEMMA SurroundingsAside ==
    ASSUME CoolDown \/ Deploy
    PROVE  Aside
BY DEF CoolDown, Deploy, Idle, Calm, Ending, Claiming, Aside, files, history

-----------------------------------------------------------------------------
(* The analysis of the lookups.                                            *)

\* What a step of the lookups does to the row: an analysis that is there stays,
\* and the only result it brings is their own.
Result ==
    /\ row'.result \in {row.result, "own"}
    /\ row.analysis = "ready" => row'.analysis = "ready" /\ row'.result = row.result

LEMMA AsideKeeps ==
    ASSUME Analysing, Aside, archived' = archived
    PROVE  Analysing' /\ Result
<1>1. OwnSaved' = OwnSaved
    BY DEF Aside, OwnSaved
<1>2. RowFollows' /\ Result
    BY <1>1 DEF Analysing, RowFollows, Aside, Result
<1>3. \A w \in Workers : (Claimant(w)' => Claimant(w)) /\ AnalysisAt(w)'
    BY <1>1 DEF Analysing, AnalysisAt, Claimant, Aside, Calm, Ending, Claiming
<1> QED BY <1>2, <1>3 DEF Analysing, OneClaimant

LEMMA OrganizeFollows ==
    ASSUME IInv, Analysing, NEW w \in Workers, Organize(w), archived' = archived
    PROVE  Analysing' /\ Result
<1> DEFINE mine == row.fetch = "ready" /\ row.analysis = "waiting"
           written == [row EXCEPT !.analysis = "requested"]
<1>1. Types /\ worker \in Lookups
    BY DEF IInv, Types
<1>2. runs' = runs /\ supplier' = supplier /\ OwnSaved' = OwnSaved
    BY DEF Organize, OwnSaved, files, history
<1>3. CASE row' = row /\ worker' = Go(w, "finish") /\ supplier.organized
    <2>1. OwnSaved
        BY <1>3 DEF OwnSaved
    <2>2. worker'[w].pc = "finish" /\ Others(worker', w)
        BY <1>1, <1>3, GoActs DEF PCs
    <2>3. \A v \in Workers : (Claimant(v)' => Claimant(v)) /\ AnalysisAt(v)'
        BY <1>2, <1>3, <2>1, <2>2 DEF Others, Analysing, AnalysisAt, Claimant, Claiming
    <2> QED BY <1>2, <1>3, <2>3 DEF Analysing, RowFollows, OneClaimant, Result
<1>4. CASE mine /\ UpdateRow(mine, written, Go(w, "analyze"))
    <2>1. Go(w, "analyze") \in Lookups /\ Others(Go(w, "analyze"), w) /\ Go(w, "analyze")[w].pc = "analyze"
        BY <1>1, GoActs DEF PCs
    <2>2. /\ row'.analysis = "requested" /\ row'.result = row.result
          /\ Others(worker', w) /\ worker'[w].pc = "analyze"
        BY <1>1, <1>4, <2>1, StaleAgrees DEF UpdateRow, Types, Rows, Agree, Others
    <2>3. runs = 0 /\ ~OwnSaved /\ row.result = "none" /\ \A v \in Workers : ~Claimant(v)
        BY <1>4 DEF Analysing, RowFollows, AnalysisAt
    <2>4. RowFollows' /\ Result
        BY <1>2, <1>4, <2>2, <2>3 DEF RowFollows, Result
    <2>5. \A v \in Workers : (Claimant(v)' => v = w) /\ AnalysisAt(v)'
        BY <1>2, <2>2, <2>3 DEF Others, Analysing, AnalysisAt, Claimant, Claiming
    <2> QED BY <2>4, <2>5 DEF Analysing, OneClaimant
<1>5. CASE ~mine /\ UpdateRow(mine, written, Leave(w))
    <2>1. Aside
        BY <1>1, <1>2, <1>5, LeaveCalm DEF UpdateRow, Aside
    <2> QED BY <2>1, AsideKeeps
<1> QED BY <1>3, <1>4, <1>5 DEF Organize

LEMMA AnalyzeFollows ==
    ASSUME IInv, Analysing, NEW w \in Workers, Analyze(w), archived' = archived
    PROVE  Analysing' /\ Result
<1>1. worker \in Lookups /\ supplier \in SupplierType
    BY DEF IInv, Types
<1>2. /\ row.analysis = "requested" /\ ~OwnSaved /\ ~supplier.organized /\ runs = 0
      /\ \A v \in Workers : Claimant(v) => v = w
    BY DEF Analyze, Analysing, OneClaimant, AnalysisAt, Claimant, Claiming, OwnSaved
<1>3. \E pc \in {"model", "failAnalysis"} : worker' = Go(w, pc)
    BY <1>2 DEF Analyze
<1>4. Others(worker', w) /\ worker'[w].pc \in {"model", "failAnalysis"}
    BY <1>1, <1>3, GoActs DEF PCs
<1>5. row' = row /\ runs' \in {0, 1} /\ supplier'.organized = supplier.organized
    BY <1>1, <1>2 DEF Analyze, SupplierType
<1>6. OwnSaved' = OwnSaved
    BY <1>5 DEF OwnSaved
<1>7. RowFollows' /\ Result
    BY <1>2, <1>5, <1>6 DEF Analysing, RowFollows, Result
<1>8. \A v \in Workers : (Claimant(v)' => v = w) /\ AnalysisAt(v)'
    BY <1>2, <1>4, <1>5, <1>6 DEF Others, Analysing, AnalysisAt, Claimant, Claiming
<1> QED BY <1>7, <1>8 DEF Analysing, OneClaimant

LEMMA AnswerFollows ==
    ASSUME IInv, Analysing, NEW w \in Workers, ModelAnswers(w), archived' = archived
    PROVE  Analysing' /\ Result
<1>1. worker \in Lookups /\ supplier \in SupplierType
    BY DEF IInv, Types
<1>2. row.analysis = "requested" /\ ~OwnSaved /\ \A v \in Workers : Claimant(v) => v = w
    BY DEF ModelAnswers, Analysing, OneClaimant, AnalysisAt, Claimant, Claiming
<1>3. row' = row /\ runs' = runs
    BY DEF ModelAnswers, history
<1>4. CASE supplier' = [supplier EXCEPT !.organized = TRUE] /\ worker' = Go(w, "finish")
    <2>1. OwnSaved'
        BY <1>1, <1>4 DEF OwnSaved, SupplierType
    <2>2. Others(worker', w) /\ worker'[w].pc = "finish"
        BY <1>1, <1>4, GoActs DEF PCs
    <2>3. RowFollows' /\ Result
        BY <1>2, <1>3, <2>1 DEF Analysing, RowFollows, Result
    <2>4. \A v \in Workers : ~Claimant(v)' /\ AnalysisAt(v)'
        BY <1>2, <2>1, <2>2 DEF Others, AnalysisAt, Claimant, Claiming
    <2> QED BY <2>3, <2>4 DEF Analysing, OneClaimant
<1>5. CASE supplier' = supplier /\ worker' = Go(w, "failAnalysis")
    <2>1. OwnSaved' = OwnSaved
        BY <1>5 DEF OwnSaved
    <2>2. Others(worker', w) /\ worker'[w].pc = "failAnalysis"
        BY <1>1, <1>5, GoActs DEF PCs
    <2>3. RowFollows' /\ Result
        BY <1>2, <1>3, <2>1 DEF Analysing, RowFollows, Result
    <2>4. \A v \in Workers : (Claimant(v)' => v = w) /\ AnalysisAt(v)'
        BY <1>2, <1>3, <2>1, <2>2 DEF Others, Analysing, AnalysisAt, Claimant, Claiming
    <2> QED BY <2>3, <2>4 DEF Analysing, OneClaimant
<1> QED BY <1>4, <1>5 DEF ModelAnswers

LEMMA EndFollows ==
    ASSUME IInv, Analysing, NEW w \in Workers, FinishAnalysis(w) \/ FailAnalysis(w), archived' = archived
    PROVE  Analysing' /\ Result
<1> DEFINE finished == [row EXCEPT !.analysis = "ready", !.result = "own"]
           failed == [row EXCEPT !.analysis = "failed"]
           asks == row.analysis = "requested"
<1>1. worker \in Lookups /\ row \in Rows
    BY DEF IInv, Types
<1>2. /\ finished.analysis = "ready" /\ finished.result = "own"
      /\ failed.analysis = "failed" /\ failed.result = row.result
    BY <1>1 DEF Rows
<1>3. runs' = runs /\ OwnSaved' = OwnSaved
    BY DEF FinishAnalysis, FailAnalysis, OwnSaved, files, history
<1>4. Leave(w) \in Lookups /\ Others(Leave(w), w) /\ Leave(w)[w].pc = "idle"
    BY <1>1, LeaveActs
<1>5. \/ worker[w].pc = "finish" /\ UpdateRow(asks, finished, Leave(w))
      \/ worker[w].pc = "failAnalysis" /\ UpdateRow(asks, failed, Leave(w))
    BY DEF FinishAnalysis, FailAnalysis
<1> HIDE DEF finished, failed
<1>6. Others(worker', w) /\ worker'[w].pc = "idle"
    BY <1>4, <1>5, StaleAgrees DEF UpdateRow, Agree, Others
<1>7. \A v \in Workers : Claimant(v)' => Claimant(v) /\ v # w
    BY <1>6 DEF Others, Claimant, Claiming
<1>8. CASE worker[w].pc = "finish"
    <2>1. OwnSaved /\ \A v \in Workers : ~Claimant(v)
        BY <1>8 DEF Analysing, AnalysisAt
    <2>2. row' = IF asks THEN finished ELSE row
        BY <1>5, <1>8 DEF UpdateRow
    <2>3. RowFollows' /\ Result
        BY <1>2, <1>3, <2>1, <2>2 DEF Analysing, RowFollows, Result
    <2>4. \A v \in Workers : AnalysisAt(v)'
        BY <1>3, <1>7, <2>1 DEF AnalysisAt, Claimant, Claiming
    <2> QED BY <1>7, <2>1, <2>3, <2>4 DEF Analysing, OneClaimant
<1>9. CASE worker[w].pc = "failAnalysis"
    <2>1. ~OwnSaved /\ asks /\ \A v \in Workers : ~Claimant(v) \/ v = w
        BY <1>9 DEF Analysing, OneClaimant, AnalysisAt, Claimant, Claiming
    <2>2. row' = failed
        BY <1>5, <1>9, <2>1 DEF UpdateRow
    <2>3. RowFollows' /\ Result
        BY <1>2, <1>3, <2>1, <2>2 DEF Analysing, RowFollows, Result
    <2>4. \A v \in Workers : ~Claimant(v)' /\ AnalysisAt(v)'
        BY <1>3, <1>6, <1>7, <2>1 DEF Analysing, AnalysisAt, Claimant, Claiming, Others
    <2> QED BY <2>3, <2>4 DEF Analysing, OneClaimant
<1> QED BY <1>5, <1>8, <1>9

\* A directory that is moved away takes the saved result along.
LEMMA ArchiveFollows ==
    ASSUME IInv, Analysing, NEW w \in Workers, ArchiveAll(w)
    PROVE  Analysing' /\ Result
<1>1. worker \in Lookups
    BY DEF IInv, Types
<1>2. row' = row /\ runs' = runs
    BY DEF ArchiveAll, MoveDirectory, history
<1>3. Calm(worker')
    <2>1. "paid" \in PCs \ Ending
        BY DEF PCs, Ending, Claiming
    <2> QED BY <1>1, <2>1, GoCalm DEF ArchiveAll, MoveDirectory
<1>4. OwnSaved' = OwnSaved
    BY CatalogConstants DEF ArchiveAll, MoveDirectory, EmptySupplier, OwnSaved
<1>5. RowFollows' /\ Result
    BY <1>2, <1>4 DEF Analysing, RowFollows, Result
<1>6. \A v \in Workers : (Claimant(v)' => Claimant(v)) /\ AnalysisAt(v)'
    BY <1>2, <1>3, <1>4 DEF Analysing, AnalysisAt, Claimant, Calm, Ending, Claiming
<1> QED BY <1>5, <1>6 DEF Analysing, OneClaimant

-----------------------------------------------------------------------------
(* The reorganizations while the lookups go on.                            *)

LEMMA LookupFollows ==
    ASSUME IInv, Analysing, NextLookup, archived' = archived
    PROVE  Analysing' /\ Result
<1>1. Types
    BY DEF IInv
<1>2. CASE CoolDown
    BY <1>2, SurroundingsAside, AsideKeeps
<1>3. ASSUME NEW w \in Workers,
             StartName(w) \/ StartCatalog(w) \/ StepInPlace(w) \/ Abandon(w) \/ StatementFails(w)
      PROVE  Analysing' /\ Result
    <2>1. CASE StartName(w) \/ StartCatalog(w) \/ Lookup(w)
        BY <1>1, <2>1, StartAside, AsideKeeps
    <2>2. CASE ClaimCatalog(w) \/ ClaimRecovery(w) \/ ClaimCreditRetry(w)
        BY <1>1, <2>2, ClaimAside, AsideKeeps
    <2>3. CASE OpenPublic(w) \/ MarkRetry(w) \/ \E kind \in Pages : CapturePage(w, kind)
        BY <1>1, <2>3, PageAside, AsideKeeps
    <2>4. CASE CaptureReceipt(w) \/ CaptureFails(w)
        BY <2>4, CaptureAside, AsideKeeps
    <2>5. CASE \/ FindProof(w) \/ CheckArchive(w) \/ MarkRequest(w) \/ SaveAnswer(w)
               \/ \E answer \in Answers : AskSupplier(w, answer)
        BY <1>1, <2>5, SupplierAside, AsideKeeps
    <2>6. CASE RecoveryFails(w) \/ FailFetch(w) \/ MarkFetched(w) \/ Reread(w) \/ Remember(w)
        BY <1>1, <2>6, RowAside, AsideKeeps
    <2>7. CASE Organize(w)
        BY <2>7, OrganizeFollows
    <2>8. CASE Analyze(w)
        BY <2>8, AnalyzeFollows
    <2>9. CASE ModelAnswers(w)
        BY <2>9, AnswerFollows
    <2>10. CASE FinishAnalysis(w) \/ FailAnalysis(w)
        BY <2>10, EndFollows
    <2>11. CASE Abandon(w) \/ StatementFails(w)
        BY <1>1, <2>11, FaultAside, AsideKeeps
    <2> QED BY <1>3, <2>1, <2>2, <2>3, <2>4, <2>5, <2>6, <2>7, <2>8, <2>9, <2>10, <2>11 DEF StepInPlace
<1> QED BY <1>2, <1>3 DEF NextLookup

LEMMA LookupLeavesTasks ==
    ASSUME Reorganizing, Result, UNCHANGED taskVars
    PROVE  Reorganizing'
<1>1. row'.result \in Tasks => row'.result = row.result
    BY CatalogConstants DEF Result
<1> QED BY <1>1 DEF Reorganizing, taskVars, Locked, Holds, OneAsks, TasksFollow, TaskAt, Asks, Past,
                    Requested, Paid, TaskSaved

LEMMA ArchiveKeepsTasks ==
    ASSUME TaskTypes, Reorganizing, Result, NEW w \in Workers, ArchiveAll(w)
    PROVE  TaskTypes' /\ Reorganizing'
<1>1. row'.result \in Tasks => row'.result = row.result
    BY CatalogConstants DEF Result
<1>2. task' \in [Tasks -> TaskType] /\ \A t \in Tasks : task'[t].state = task[t].state /\ ~task'[t].organized
    BY DEF ArchiveAll, TaskTypes, TaskType
<1>3. archived' \subseteq {"own"} \cup Tasks /\ \A t \in Tasks : t \in archived' <=> TaskSaved(t)
    BY CatalogConstants DEF ArchiveAll, TaskTypes, TaskSaved
<1>4. TaskTypes'
    BY <1>2, <1>3 DEF TaskTypes, ArchiveAll
<1>5. \A t \in Tasks : TaskSaved(t)' <=> TaskSaved(t)
    BY <1>2, <1>3 DEF TaskSaved
<1>6. Requested' = Requested /\ UNCHANGED <<admin, lock, requests>>
    BY <1>2 DEF Requested, ArchiveAll
<1>7. Locked' /\ OneAsks'
    BY <1>6 DEF Reorganizing, Locked, Holds, OneAsks, Asks, Past
<1>8. TasksFollow'
    BY <1>1, <1>2, <1>5, <1>6 DEF Reorganizing, TasksFollow, Paid
<1>9. \A p \in Workers : TaskAt(p)'
    BY <1>2, <1>5, <1>6 DEF Reorganizing, TaskAt, Asks, Past
<1> QED BY <1>4, <1>7, <1>8, <1>9 DEF Reorganizing

-----------------------------------------------------------------------------
(* The steps of a reorganization.                                          *)

\* The other processes stay where they are, and p has this record.
Moves(p, record) ==
    /\ admin' \in [Workers -> AdminType] /\ admin'[p] = record
    /\ \A q \in Workers \ {p} : admin'[q] = admin[q]

LEMMA AtMoves ==
    ASSUME TaskTypes, NEW p \in Workers, NEW pc \in AdminPCs, admin' = At(p, pc)
    PROVE  /\ Moves(p, [admin[p] EXCEPT !.pc = pc])
           /\ admin'[p].pc = pc /\ admin'[p].id = admin[p].id /\ admin'[p].cut = admin[p].cut
BY DEF TaskTypes, AdminType, At, Moves

LEMMA ReleaseMoves ==
    ASSUME TaskTypes, Locked, NEW p \in Workers, Release(p)
    PROVE  /\ Moves(p, NoAdmin) /\ admin'[p].pc = "idle"
           /\ lock' \in Workers \cup {Nobody} /\ Locked'
<1>1. NoAdmin \in AdminType /\ NoAdmin.pc = "idle"
    BY DEF NoAdmin, AdminType, AdminPCs
<1>2. Moves(p, NoAdmin) /\ admin'[p].pc = "idle"
    BY <1>1 DEF TaskTypes, Release, Moves
<1>3. lock' \in Workers \cup {Nobody} /\ Locked'
    BY <1>2, ReorganizeConstants DEF TaskTypes, Release, Locked, Holds, Moves
<1> QED BY <1>2, <1>3

\* A process that gives up leaves its task as it is.
LEMMA ReleaseKeeps ==
    ASSUME TaskTypes, Reorganizing, NEW p \in Workers, Release(p),
           row'.result = row.result, UNCHANGED <<task, archived, repairable, requests>>
    PROVE  TaskTypes' /\ Reorganizing'
<1>1. /\ Moves(p, NoAdmin) /\ admin'[p].pc = "idle"
      /\ lock' \in Workers \cup {Nobody} /\ Locked'
    BY ReleaseMoves DEF Reorganizing
<1>2. TaskTypes'
    BY <1>1 DEF TaskTypes, Moves
<1>3. OneAsks'
    BY <1>1 DEF Reorganizing, OneAsks, Asks, Past, Moves
<1>4. TasksFollow'
    BY DEF Reorganizing, TasksFollow, Requested, Paid, TaskSaved
<1>5. \A q \in Workers : TaskAt(q)'
    BY <1>1 DEF Reorganizing, TaskAt, Asks, Past, Requested, TaskSaved, Moves
<1> QED BY <1>1, <1>2, <1>3, <1>4, <1>5 DEF Reorganizing

LEMMA BeginKeeps ==
    ASSUME TaskTypes, Reorganizing, NEW p \in Workers, NEW t \in Tasks, Begin(p, t)
    PROVE  TaskTypes' /\ Reorganizing'
<1> DEFINE Begun(pc) == [NoAdmin EXCEPT !.pc = pc, !.id = t]
<1>1. \A pc \in AdminPCs : /\ Begun(pc) \in AdminType
                           /\ Begun(pc).pc = pc /\ Begun(pc).id = t /\ ~Begun(pc).cut
    BY DEF NoAdmin, AdminType, AdminPCs
<1>2. PICK pc \in {"publish", "insert"} :
          /\ admin' = [admin EXCEPT ![p] = Begun(pc)]
          /\ pc = "publish" => task[t].state # "none" /\ task[t].organized
          /\ pc = "insert" => task[t].state = "none" /\ \A other \in Tasks : task[other].state # "requested"
    BY DEF Begin
<1> HIDE DEF Begun
<1>3. Moves(p, Begun(pc)) /\ pc \in AdminPCs
    BY <1>1, <1>2 DEF TaskTypes, Moves, AdminPCs
<1>4. admin'[p].pc = pc /\ admin'[p].id = t /\ ~admin'[p].cut
    BY <1>1, <1>3 DEF Moves
<1>5. /\ lock = Nobody /\ lock' = p /\ repairable' \in {repairable, repairable \ {p}}
      /\ row' = row /\ UNCHANGED <<task, archived, requests>>
    BY DEF Begin, vars
<1>6. TaskTypes'
    BY <1>3, <1>5 DEF TaskTypes, Moves
<1>7. Locked'
    BY <1>3, <1>4, <1>5, ReorganizeConstants DEF Reorganizing, Locked, Holds, Moves
<1>8. OneAsks'
    <2>1. ASSUME NEW q \in Workers, Asks(q)
          PROVE  task[admin[q].id].state = "requested" /\ ~task[admin[q].id].organized
        BY <2>1 DEF Reorganizing, TaskAt, TaskSaved
    <2> QED BY <1>2, <1>3, <1>4, <2>1 DEF Reorganizing, OneAsks, Asks, Past, Moves
<1>9. TasksFollow'
    BY <1>5 DEF Reorganizing, TasksFollow, Requested, Paid, TaskSaved
<1>10. ASSUME NEW q \in Workers
       PROVE  TaskAt(q)'
    <2>1. CASE q = p
        BY <1>2, <1>4, <1>5, <2>1 DEF TaskAt, Asks, Past, Requested, TaskSaved
    <2>2. CASE q # p
        BY <1>3, <1>5, <2>2 DEF Reorganizing, TaskAt, Asks, Past, Requested, TaskSaved, Moves
    <2> QED BY <2>1, <2>2
<1> QED BY <1>6, <1>7, <1>8, <1>9, <1>10 DEF Reorganizing

LEMMA InsertKeeps ==
    ASSUME TaskTypes, Reorganizing, NEW p \in Workers, InsertTask(p)
    PROVE  TaskTypes' /\ Reorganizing'
<1> DEFINE t == admin[p].id
<1>1. /\ t \in Tasks /\ task[t].state = "none" /\ Requested = {} /\ requests[t] = 0
      /\ Holds(p) /\ ~TaskSaved(t)
    <2>1. t \in Tasks /\ task[t].state = "none" /\ Requested = {}
        BY DEF InsertTask, Reorganizing, TaskAt
    <2> QED BY <2>1 DEF InsertTask, Reorganizing, TasksFollow, Paid, Holds
<1>2. /\ Moves(p, [admin[p] EXCEPT !.pc = "ask"])
      /\ admin'[p].pc = "ask" /\ admin'[p].id = t /\ admin'[p].cut = admin[p].cut
    BY AtMoves DEF InsertTask, AdminPCs
<1>3. row' = row /\ UNCHANGED <<archived, lock, repairable, requests>>
    BY DEF InsertTask, vars
<1>4. /\ task' \in [Tasks -> TaskType] /\ task'[t].state = "requested"
      /\ \A s \in Tasks : /\ task'[s].organized = task[s].organized
                          /\ s # t => task'[s] = task[s]
    BY <1>1 DEF InsertTask, TaskTypes, TaskType
<1> HIDE DEF t
<1>5. TaskTypes'
    BY <1>2, <1>3, <1>4 DEF TaskTypes, Moves
<1>6. Requested' = {t} /\ \A s \in Tasks : TaskSaved(s)' <=> TaskSaved(s)
    BY <1>1, <1>3, <1>4 DEF Requested, TaskSaved
<1>7. ASSUME NEW q \in Workers, q # p
      PROVE  /\ admin'[q] = admin[q] /\ ~Asks(q) /\ ~Asks(q)' /\ ~Holds(q)
             /\ Past(q) => admin[q].id \in Tasks /\ admin[q].id # t
    <2>1. admin'[q] = admin[q] /\ TaskAt(q)
        BY <1>2, <1>7 DEF Moves, Reorganizing
    <2>2. ~Asks(q)
        BY <1>1, <2>1 DEF TaskAt, Asks, Requested
    <2>3. ~Holds(q)
        BY <1>1, <1>7 DEF Reorganizing, Locked
    <2>4. Past(q) => admin[q].id \in Tasks /\ admin[q].id # t
        BY <1>1, <2>1 DEF TaskAt, Past
    <2> QED BY <2>1, <2>2, <2>3, <2>4 DEF Asks
<1>8. Locked'
    BY <1>1, <1>2, <1>3, <1>7 DEF Reorganizing, Locked, Holds, InsertTask
<1>9. OneAsks'
    BY <1>2, <1>7 DEF OneAsks, Asks, Past
<1>10. TasksFollow'
    BY <1>1, <1>3, <1>4, <1>6 DEF Reorganizing, TasksFollow, Paid
<1>11. TaskAt(p)'
    BY <1>1, <1>2, <1>3, <1>4, <1>6 DEF TaskAt, Asks, Past
<1>12. ASSUME NEW q \in Workers, q # p
       PROVE  TaskAt(q)'
    BY <1>3, <1>4, <1>6, <1>7, <1>12 DEF Reorganizing, TaskAt, Asks, Past, Holds
<1> QED BY <1>5, <1>8, <1>9, <1>10, <1>11, <1>12 DEF Reorganizing

LEMMA AskKeeps ==
    ASSUME TaskTypes, Reorganizing, NEW p \in Workers, AskModel(p)
    PROVE  TaskTypes' /\ Reorganizing'
<1> DEFINE t == admin[p].id
           pc == IF task[t].started THEN "failTask" ELSE "model"
<1>1. /\ t \in Tasks /\ task[t].state = "requested" /\ requests[t] = 0 /\ ~TaskSaved(t)
      /\ Asks(p) /\ admin[p].pc = "ask"
    BY DEF AskModel, Reorganizing, TaskAt, Asks
<1>2. /\ Moves(p, [admin[p] EXCEPT !.pc = pc])
      /\ admin'[p].pc = pc /\ admin'[p].id = t /\ admin'[p].cut = admin[p].cut
    <2>1. pc \in AdminPCs /\ admin' = At(p, pc)
        BY DEF AskModel, AdminPCs
    <2> HIDE DEF pc
    <2> QED BY <2>1, AtMoves
<1>3. row' = row /\ UNCHANGED <<archived, lock, repairable>>
    BY DEF AskModel, vars
<1>4. /\ task' \in [Tasks -> TaskType]
      /\ \A s \in Tasks : task'[s].organized = task[s].organized /\ task'[s].state = task[s].state
    <2>1. CASE task' = task
        BY <2>1 DEF TaskTypes
    <2>2. CASE task' = [task EXCEPT ![t].started = TRUE]
        BY <1>1, <2>2 DEF TaskTypes, TaskType
    <2> QED BY <2>1, <2>2 DEF AskModel
<1>5. /\ requests' \in [Tasks -> Nat] /\ requests'[t] \in {0, 1}
      /\ \A s \in Tasks : s # t => requests'[s] = requests[s]
    BY <1>1 DEF AskModel, TaskTypes
<1>6. pc \in {"failTask", "model"}
    OBVIOUS
<1> HIDE DEF t, pc
<1>7. TaskTypes'
    BY <1>2, <1>3, <1>4, <1>5 DEF TaskTypes, Moves
<1>8. Requested' = Requested /\ \A s \in Tasks : TaskSaved(s)' <=> TaskSaved(s)
    BY <1>3, <1>4 DEF Requested, TaskSaved
<1>9. \A q \in Workers \ {p} : admin'[q] = admin[q] /\ ~Asks(q) /\ (Past(q) => admin[q].id # t)
    BY <1>1, <1>2 DEF Moves, Reorganizing, OneAsks, t
<1>10. Locked'
    BY <1>1, <1>2, <1>3, <1>6, <1>9 DEF Reorganizing, Locked, Holds
<1>11. OneAsks'
    BY <1>1, <1>2, <1>6, <1>9 DEF OneAsks, Asks, Past
<1>12. TasksFollow'
    BY <1>1, <1>3, <1>4, <1>5, <1>8 DEF Reorganizing, TasksFollow, Paid
<1>13. TaskAt(p)'
    BY <1>1, <1>2, <1>4, <1>6, <1>8 DEF TaskAt, Asks, Past
<1>14. ASSUME NEW q \in Workers, q # p
       PROVE  TaskAt(q)'
    BY <1>4, <1>8, <1>9, <1>14 DEF Reorganizing, TaskAt, Asks, Past
<1> QED BY <1>7, <1>10, <1>11, <1>12, <1>13, <1>14 DEF Reorganizing

LEMMA ReplyKeeps ==
    ASSUME TaskTypes, Reorganizing, NEW p \in Workers, ModelReplies(p)
    PROVE  TaskTypes' /\ Reorganizing'
<1> DEFINE t == admin[p].id
<1>1. /\ t \in Tasks /\ task[t].state = "requested" /\ ~TaskSaved(t)
      /\ Asks(p) /\ admin[p].pc = "model"
    BY DEF ModelReplies, Reorganizing, TaskAt, Asks
<1>2. PICK pc \in {"publish", "failTask"} :
          /\ admin' = At(p, pc)
          /\ pc = "publish" => task' = [task EXCEPT ![t].organized = TRUE]
          /\ pc = "failTask" => task' = task
    BY DEF ModelReplies
<1>3. /\ Moves(p, [admin[p] EXCEPT !.pc = pc])
      /\ admin'[p].pc = pc /\ admin'[p].id = t /\ admin'[p].cut = admin[p].cut
    BY <1>2, AtMoves DEF AdminPCs
<1>4. row' = row /\ UNCHANGED <<archived, lock, repairable, requests>>
    BY DEF ModelReplies, vars
<1>5. /\ task' \in [Tasks -> TaskType]
      /\ \A s \in Tasks : /\ task'[s].state = task[s].state
                          /\ task[s].organized => task'[s].organized
                          /\ s # t => task'[s] = task[s]
      /\ pc = "publish" => task'[t].organized
    <2>1. CASE pc = "failTask"
        BY <1>2, <2>1 DEF TaskTypes
    <2>2. CASE pc = "publish"
        <3>1. task \in [Tasks -> TaskType] /\ task' = [task EXCEPT ![t].organized = TRUE]
            BY <1>2, <2>2 DEF TaskTypes
        <3> HIDE DEF t
        <3> QED BY <1>1, <3>1 DEF TaskType
    <2> QED BY <2>1, <2>2
<1> HIDE DEF t
<1>6. TaskTypes'
    BY <1>3, <1>4, <1>5 DEF TaskTypes, Moves
<1>7. /\ Requested' = Requested
      /\ \A s \in Tasks : (TaskSaved(s) => TaskSaved(s)') /\ (s # t => (TaskSaved(s)' <=> TaskSaved(s)))
    BY <1>4, <1>5 DEF Requested, TaskSaved
<1>8. \A q \in Workers \ {p} : admin'[q] = admin[q] /\ ~Asks(q) /\ (Past(q) => admin[q].id # t)
    BY <1>1, <1>3 DEF Moves, Reorganizing, OneAsks, t
<1>9. Locked'
    BY <1>1, <1>3, <1>4, <1>8 DEF Reorganizing, Locked, Holds
<1>10. OneAsks'
    BY <1>3, <1>8 DEF OneAsks, Asks, Past
<1>11. TasksFollow'
    BY <1>1, <1>4, <1>5, <1>7 DEF Reorganizing, TasksFollow, Paid
<1>12. TaskAt(p)'
    BY <1>1, <1>3, <1>5 DEF TaskAt, Asks, Past, TaskSaved
<1>13. ASSUME NEW q \in Workers, q # p
       PROVE  TaskAt(q)'
    BY <1>1, <1>5, <1>7, <1>8, <1>13 DEF Reorganizing, TaskAt, Asks, Past
<1> QED BY <1>6, <1>9, <1>10, <1>11, <1>12, <1>13 DEF Reorganizing

\* The end of a task that has been asked for: it takes another state.
LEMMA EndOfTask ==
    ASSUME TaskTypes, Reorganizing, NEW p \in Workers, Past(p), Release(p),
           NEW state \in {"failed", "ready"},
           task' = [task EXCEPT ![admin[p].id].state = state],
           row'.result \in {row.result, admin[p].id}, row'.result = row.result \/ admin[p].pc = "publish",
           UNCHANGED <<archived, repairable, requests>>
    PROVE  TaskTypes' /\ Reorganizing'
<1> DEFINE t == admin[p].id
<1>1. t \in Tasks /\ task[t].state # "none" /\ (admin[p].pc = "publish" => TaskSaved(t))
    BY DEF Past, Reorganizing, TaskAt
<1>2. /\ Moves(p, NoAdmin) /\ admin'[p].pc = "idle"
      /\ lock' \in Workers \cup {Nobody} /\ Locked'
    BY ReleaseMoves DEF Reorganizing
<1>3. /\ task' \in [Tasks -> TaskType]
      /\ \A s \in Tasks : /\ task'[s].organized = task[s].organized
                          /\ s # t => task'[s] = task[s]
      /\ task'[t].state = state
    <2>1. task' = [task EXCEPT ![t].state = state]
        OBVIOUS
    <2> HIDE DEF t
    <2> DEFINE ended == [task[t] EXCEPT !.state = state]
    <2>2. ended \in TaskType /\ ended.state = state /\ ended.organized = task[t].organized
        BY <1>1 DEF TaskTypes, TaskType
    <2>3. task' = [task EXCEPT ![t] = ended]
        BY <2>1
    <2> HIDE DEF ended
    <2> QED BY <1>1, <2>2, <2>3 DEF TaskTypes
<1>4. \A q \in Workers : Asks(q) => q # p /\ admin[q].id # t
    BY DEF Reorganizing, OneAsks, Asks, Past
<1> HIDE DEF t
<1>5. TaskTypes'
    BY <1>2, <1>3 DEF TaskTypes, Moves
<1>6. /\ Requested' \subseteq Requested
      /\ \A s \in Tasks : TaskSaved(s)' <=> TaskSaved(s)
    BY <1>3 DEF Requested, TaskSaved
<1>7. OneAsks'
    BY <1>2 DEF Reorganizing, OneAsks, Asks, Past, Moves
<1>8. \A s \in Tasks : Paid(s)'
    BY <1>1, <1>3, <1>6 DEF Reorganizing, TasksFollow, Paid
<1>9. TasksFollow'
    BY <1>1, <1>6, <1>8 DEF Reorganizing, TasksFollow, t
<1>10. ASSUME NEW q \in Workers
       PROVE  TaskAt(q)'
    <2>1. CASE q = p
        BY <1>2, <2>1 DEF TaskAt, Asks, Past
    <2>2. CASE q # p
        <3>1. admin'[q] = admin[q] /\ TaskAt(q)
            BY <1>2, <2>2 DEF Moves, Reorganizing
        <3>2. admin[q].pc = "insert" /\ ~admin[q].cut => admin[q].id # t /\ Requested' = {}
            BY <1>1, <1>6, <3>1 DEF TaskAt
        <3>3. \A s \in Tasks : task[s].state # "none" => task'[s].state # "none"
            BY <1>1, <1>3
        <3> QED BY <1>3, <1>4, <1>6, <3>1, <3>2, <3>3 DEF TaskAt, Asks, Past
    <2> QED BY <2>1, <2>2
<1> QED BY <1>2, <1>5, <1>7, <1>9, <1>10 DEF Reorganizing

LEMMA CutKeeps ==
    ASSUME TaskTypes, Reorganizing, NEW p \in Workers, CutSession(p)
    PROVE  TaskTypes' /\ Reorganizing'
<1>1. /\ Moves(p, [admin[p] EXCEPT !.cut = TRUE])
      /\ admin'[p].pc = admin[p].pc /\ admin'[p].id = admin[p].id /\ admin'[p].cut
    BY DEF CutSession, TaskTypes, AdminType, Moves
<1>2. /\ Holds(p) /\ lock = p /\ lock' = Nobody
      /\ row' = row /\ UNCHANGED <<task, archived, repairable, requests>>
    BY DEF CutSession, Holds, Reorganizing, Locked
<1>3. TaskTypes'
    BY <1>1, <1>2 DEF TaskTypes, Moves
<1>4. Locked'
    BY <1>1, <1>2, ReorganizeConstants DEF Reorganizing, Locked, Holds, Moves
<1>5. \A q \in Workers : admin'[q].pc = admin[q].pc /\ admin'[q].id = admin[q].id
                         /\ (~admin'[q].cut => ~admin[q].cut)
    BY <1>1 DEF Moves
<1>6. OneAsks'
    BY <1>5 DEF Reorganizing, OneAsks, Asks, Past
<1>7. TasksFollow' /\ \A q \in Workers : TaskAt(q)'
    BY <1>2, <1>5 DEF Reorganizing, TasksFollow, TaskAt, Asks, Past, Requested, Paid, TaskSaved
<1> QED BY <1>3, <1>4, <1>6, <1>7 DEF Reorganizing

LEMMA DeployKeepsTasks ==
    ASSUME TaskTypes, Reorganizing, DeployAll
    PROVE  TaskTypes' /\ Reorganizing'
<1>1. NoAdmin \in AdminType /\ NoAdmin.pc = "idle"
    BY DEF NoAdmin, AdminType, AdminPCs
<1>2. \A p \in Workers : admin'[p].pc = "idle"
    BY <1>1 DEF DeployAll
<1>3. TaskTypes'
    BY <1>1 DEF DeployAll, TaskTypes
<1>4. row' = row /\ lock' = Nobody /\ UNCHANGED <<task, archived, requests>>
    BY DEF DeployAll, Deploy
<1>5. Locked' /\ OneAsks' /\ \A p \in Workers : TaskAt(p)'
    BY <1>2, <1>4, ReorganizeConstants DEF Locked, Holds, OneAsks, TaskAt, Asks, Past
<1>6. TasksFollow'
    BY <1>4 DEF Reorganizing, TasksFollow, Requested, Paid, TaskSaved
<1> QED BY <1>3, <1>5, <1>6 DEF Reorganizing

-----------------------------------------------------------------------------
(* What the reorganizations do to the lookups.                             *)

LEMMA RowKeeps ==
    ASSUME IInv, row' \in Rows, row'.fetch = row.fetch, worker' \in Lookups, Agree(worker', worker),
           faults' \in 0 .. MaxFaults, UNCHANGED <<metadata, files, history, setting>>
    PROVE  IInv'
<1>1. Types'
    BY DEF IInv, Types, files, history, setting
<1>2. \A w \in Workers : Owner(w)' = Owner(w) /\ Entitled(w)'
    BY DEF IInv, Entitled, Owner, Agree, files, history
<1> QED BY <1>1, <1>2 DEF IInv, SingleOwner, Books, files, history

\* A step of an administrator: the lookups and the row stay as they are.
LEMMA ApartKeeps ==
    ASSUME IInv, Analysing, faults' \in 0 .. MaxFaults,
           UNCHANGED <<row, metadata, files, worker, history, setting, archived>>
    PROVE  IInv' /\ Analysing'
<1>1. worker' \in Lookups /\ Agree(worker', worker) /\ row' \in Rows
    BY DEF IInv, Types, Agree
<1>2. Aside
    BY DEF Aside, Calm, files, history
<1> QED BY <1>1, <1>2, RowKeeps, AsideKeeps

LEMMA PublishKeeps ==
    ASSUME AllInv, NEW p \in Workers, Publish(p)
    PROVE  /\ AllInv'
           /\ row' = row \/ (row'.analysis = "ready" /\ row'.result \in Tasks)
<1> DEFINE t == admin[p].id
           published == [row EXCEPT !.analysis = "ready", !.result = t]
<1>1. /\ IInv /\ Types /\ Analysing /\ TaskTypes /\ Reorganizing
      /\ t \in Tasks /\ Past(p) /\ admin[p].pc = "publish" /\ Release(p)
      /\ UNCHANGED <<metadata, files, history, setting, faults, archived, repairable, requests>>
    BY DEF AllInv, IInv, Publish, Past, Reorganizing, TaskAt
<1>2. CASE ~MayPublish
    <2>1. row' = row /\ worker' = worker /\ task' = task
        BY <1>2 DEF Publish, UpdateRow
    <2>2. faults' \in 0 .. MaxFaults
        BY <1>1 DEF Types
    <2> QED BY <1>1, <2>1, <2>2, ApartKeeps, ReleaseKeeps DEF AllInv
<1>3. CASE MayPublish
    <2>1. row' = published /\ worker' = Stale(worker) /\ task' = [task EXCEPT ![t].state = "ready"]
        BY <1>3 DEF Publish, UpdateRow
    <2>2. published \in Rows /\ published.fetch = row.fetch /\ published.analysis = "ready" /\ published.result = t
        BY <1>1 DEF Types, Rows
    <2>3. worker' \in Lookups /\ Agree(worker', worker) /\ faults' \in 0 .. MaxFaults
        BY <1>1, <2>1, StaleAgrees DEF Types
    <2>4. IInv'
        BY <1>1, <2>1, <2>2, <2>3, RowKeeps
    <2>5. t \notin {"none", "own"} /\ OwnSaved' = OwnSaved /\ runs' = runs
        BY <1>1, CatalogConstants DEF OwnSaved, files, history
    <2>6. RowFollows'
        BY <1>1, <2>1, <2>2, <2>5 DEF Analysing, RowFollows
    <2>7. \A w \in Workers : ~Claimant(w)
        BY <1>1, <1>3 DEF MayPublish, Analysing, AnalysisAt
    <2>8. \A w \in Workers : ~Claimant(w)' /\ AnalysisAt(w)'
        BY <1>1, <2>3, <2>5, <2>7 DEF Agree, Analysing, AnalysisAt, Claimant, Claiming
    <2>9. Analysing'
        BY <2>6, <2>8 DEF Analysing, OneClaimant
    <2>10. TaskTypes' /\ Reorganizing'
        BY <1>1, <2>1, <2>2, EndOfTask
    <2> QED BY <1>1, <2>1, <2>2, <2>4, <2>9, <2>10 DEF AllInv
<1> QED BY <1>2, <1>3

-----------------------------------------------------------------------------
(* The invariant of the specification.                                     *)

\* What a step may do to the row.
RowKept ==
    /\ row.analysis = "ready" => row'.analysis = "ready" /\ row'.result # "none"
    /\ row.result \in Tasks => row'.result \in Tasks

LEMMA InitAllInv == InitAll => AllInv
<1> SUFFICES ASSUME InitAll PROVE AllInv
    OBVIOUS
<1>1. IInv
    BY InitIInv DEF InitAll
<1>2. NoAdmin \in AdminType /\ NoAdmin.pc = "idle" /\ NoTask \in TaskType
      /\ NoTask.state = "none" /\ ~NoTask.organized
    BY DEF NoAdmin, AdminType, AdminPCs, NoTask, TaskType
<1>3. TaskTypes
    BY <1>2 DEF InitAll, TaskTypes
<1>4. \A w \in Workers : worker[w].pc = "idle"
    BY DEF InitAll, Init, Idle
<1>5. ~OwnSaved /\ row.analysis = "waiting" /\ row.result = "none" /\ runs = 0
    BY DEF InitAll, Init, OwnSaved, EmptySupplier, NoRow
<1>6. Analysing
    BY <1>4, <1>5 DEF Analysing, RowFollows, OneClaimant, AnalysisAt, Claimant, Claiming
<1>7. \A p \in Workers : admin[p].pc = "idle" /\ lock # p
    BY <1>2, ReorganizeConstants DEF InitAll
<1>8. Locked /\ OneAsks /\ \A p \in Workers : TaskAt(p)
    BY <1>7 DEF Locked, Holds, OneAsks, TaskAt, Asks, Past
<1>9. \A t \in Tasks : task[t].state = "none" /\ ~TaskSaved(t) /\ requests[t] = 0
    BY <1>2 DEF InitAll, TaskSaved
<1>10. TasksFollow
    BY <1>5, <1>9, CatalogConstants DEF TasksFollow, Requested, Paid
<1> QED BY <1>1, <1>3, <1>6, <1>8, <1>10 DEF AllInv, Reorganizing

LEMMA LookupKeepsAll ==
    ASSUME AllInv, NextLookup, UNCHANGED taskVars
    PROVE  AllInv' /\ RowKept /\ Next
<1>1. Next
    BY DEF NextLookup, Next, Step
<1>2. Analysing' /\ Result
    BY LookupFollows DEF AllInv, taskVars
<1>3. TaskTypes' /\ Reorganizing'
    BY <1>2, LookupLeavesTasks DEF AllInv, TaskTypes, taskVars
<1>4. IInv'
    BY <1>1, NextIInv DEF AllInv
<1>5. RowKept
    BY <1>2, CatalogConstants DEF AllInv, Analysing, RowFollows, Result, RowKept
<1> QED BY <1>1, <1>2, <1>3, <1>4, <1>5 DEF AllInv

LEMMA ArchiveKeepsAll ==
    ASSUME AllInv, NEW w \in Workers, ArchiveAll(w)
    PROVE  AllInv' /\ RowKept /\ Next
<1>1. Next
    BY DEF ArchiveAll, Next, Step
<1>2. Analysing' /\ Result
    BY ArchiveFollows DEF AllInv
<1>3. TaskTypes' /\ Reorganizing'
    BY <1>2, ArchiveKeepsTasks DEF AllInv
<1>4. IInv'
    BY <1>1, NextIInv DEF AllInv
<1>5. RowKept
    BY <1>2, CatalogConstants DEF AllInv, Analysing, RowFollows, Result, RowKept
<1> QED BY <1>1, <1>2, <1>3, <1>4, <1>5 DEF AllInv

LEMMA DeployKeepsAll ==
    ASSUME AllInv, DeployAll
    PROVE  AllInv' /\ RowKept /\ Next
<1>1. Next
    BY DEF DeployAll, Next
<1>2. Analysing' /\ Result
    BY SurroundingsAside, AsideKeeps DEF DeployAll, AllInv
<1>3. TaskTypes' /\ Reorganizing'
    BY DeployKeepsTasks DEF AllInv
<1>4. IInv'
    BY <1>1, NextIInv DEF AllInv
<1>5. RowKept
    BY <1>2, CatalogConstants DEF AllInv, Analysing, RowFollows, Result, RowKept
<1> QED BY <1>1, <1>2, <1>3, <1>4, <1>5 DEF AllInv

\* A step of an administrator that does not publish.
Administers(p) ==
    \/ RequestRepair(p) \/ \E t \in Tasks : Begin(p, t)
    \/ InsertTask(p) \/ AskModel(p) \/ ModelReplies(p) \/ FailTask(p) \/ NoticeCut(p)
    \/ CutSession(p) \/ AbandonTask(p)

LEMMA AdministerKeeps ==
    ASSUME AllInv, NEW p \in Workers, Administers(p)
    PROVE  AllInv' /\ UNCHANGED <<row, metadata, files, worker, history, setting>>
<1>1. IInv /\ Types /\ Analysing /\ TaskTypes /\ Reorganizing
    BY DEF AllInv, IInv
<1>2. /\ faults' \in 0 .. MaxFaults
      /\ UNCHANGED <<row, metadata, files, worker, history, setting, archived>>
    <2>1. CASE CutSession(p) \/ AbandonTask(p)
        BY <1>1, <2>1, CatalogConstants DEF CutSession, AbandonTask, Types
    <2>2. CASE UNCHANGED vars /\ archived' = archived
        BY <1>1, <2>2 DEF vars, Types
    <2> QED BY <2>1, <2>2 DEF Administers, RequestRepair, Begin, InsertTask, AskModel, ModelReplies,
                            FailTask, NoticeCut
<1>3. IInv' /\ Analysing'
    BY <1>1, <1>2, ApartKeeps
<1>4. CASE RequestRepair(p)
    <2>1. UNCHANGED <<task, archived, admin, lock, requests>> /\ repairable' \subseteq Workers
        BY <1>1, <1>4 DEF RequestRepair, TaskTypes
    <2>2. TaskTypes' /\ Reorganizing'
        BY <1>1, <1>2, <2>1 DEF TaskTypes, Reorganizing, Locked, Holds, OneAsks, TasksFollow, TaskAt,
                                Asks, Past, Requested, Paid, TaskSaved
    <2> QED BY <1>2, <1>3, <2>2 DEF AllInv
<1>5. CASE \/ \E t \in Tasks : Begin(p, t)
           \/ InsertTask(p) \/ AskModel(p) \/ ModelReplies(p) \/ CutSession(p)
    BY <1>1, <1>2, <1>3, <1>5, BeginKeeps, InsertKeeps, AskKeeps, ReplyKeeps, CutKeeps DEF AllInv
<1>6. CASE NoticeCut(p) \/ AbandonTask(p)
    <2>1. Release(p) /\ row'.result = row.result /\ UNCHANGED <<task, archived, repairable, requests>>
        BY <1>2, <1>6 DEF NoticeCut, AbandonTask
    <2> QED BY <1>1, <1>2, <1>3, <2>1, ReleaseKeeps DEF AllInv
<1>7. CASE FailTask(p)
    <2>1. /\ Release(p) /\ Past(p) /\ row'.result = row.result
          /\ UNCHANGED <<archived, repairable, requests>>
          /\ task' = task \/ task' = [task EXCEPT ![admin[p].id].state = "failed"]
        BY <1>2, <1>7 DEF FailTask, Past
    <2> QED BY <1>1, <1>2, <1>3, <2>1, ReleaseKeeps, EndOfTask DEF AllInv
<1> QED BY <1>4, <1>5, <1>6, <1>7 DEF Administers

\* Of one step: the invariant, what becomes of the row, and what it is to the
\* lookups: a step of theirs, or one that leaves the files and the bill alone.
LEMMA NextKeepsAll ==
    ASSUME AllInv, [NextAll]_allVars
    PROVE  AllInv' /\ RowKept /\ (Next \/ UNCHANGED <<files, history>>)
<1>1. CASE NextLookup /\ UNCHANGED taskVars
    BY <1>1, LookupKeepsAll
<1>2. CASE DeployAll
    BY <1>2, DeployKeepsAll
<1>3. CASE \E p \in Workers : ArchiveAll(p)
    BY <1>3, ArchiveKeepsAll
<1>4. CASE \E p \in Workers : Publish(p)
    <2>1. AllInv' /\ UNCHANGED <<files, history>>
        BY <1>4, PublishKeeps DEF Publish
    <2>2. row' = row \/ (row'.analysis = "ready" /\ row'.result \in Tasks)
        BY <1>4, PublishKeeps
    <2>3. RowKept
        BY <2>2, CatalogConstants DEF AllInv, Analysing, RowFollows, RowKept
    <2> QED BY <2>1, <2>3
<1>5. CASE \E p \in Workers : Administers(p)
    <2>1. AllInv' /\ row' = row /\ UNCHANGED <<files, history>>
        BY <1>5, AdministerKeeps
    <2>2. RowKept
        BY <2>1 DEF AllInv, Analysing, RowFollows, RowKept
    <2> QED BY <2>1, <2>2
<1>6. CASE UNCHANGED allVars
    <2>1. UNCHANGED vars /\ UNCHANGED taskVars
        BY <1>6 DEF allVars
    <2>2. IInv'
        BY <2>1, NextIInv DEF AllInv
    <2>3. Aside /\ archived' = archived
        BY <2>1 DEF vars, files, history, taskVars, Aside, Calm
    <2>4. Analysing' /\ Result
        BY <2>3, AsideKeeps DEF AllInv
    <2>5. TaskTypes' /\ Reorganizing'
        BY <2>1, <2>4, LookupLeavesTasks DEF AllInv, TaskTypes, taskVars
    <2>6. RowKept
        BY <2>1 DEF AllInv, Analysing, RowFollows, RowKept, vars
    <2> QED BY <2>1, <2>2, <2>4, <2>5, <2>6 DEF AllInv, vars
<1> QED BY <1>1, <1>2, <1>3, <1>4, <1>5, <1>6 DEF NextAll, TaskStep, Administers

THEOREM InvarianceAll == SpecAll => []AllInv
BY InitAllInv, NextKeepsAll, PTL DEF SpecAll

-----------------------------------------------------------------------------
(* The theorems.                                                           *)

\* The tasks, the reorganizations under way, the lock and all of the lookups stay
\* in their types.
THEOREM TypesCorrect == SpecAll => []TypeOKAll
<1>1. AllInv => TypeOKAll
    BY DEF AllInv, IInv, Types, TypeOK, PublicType, SupplierType, Lookups, LookupType, Results,
           TypeOKAll, TaskTypes, TaskType, AdminType, AdminPCs
<1> QED BY <1>1, InvarianceAll, PTL

\* However many processes look the product up, reorganize and repair it, each
\* analysis is asked once, one task is open at a time, and what the row holds was
\* saved first.
THEOREM PaidOnce == SpecAll => []EachAnalysisPaidOnce
<1>1. AllInv => EachAnalysisPaidOnce
    <2> SUFFICES ASSUME AllInv PROVE EachAnalysisPaidOnce
        OBVIOUS
    <2>1. runs <= 1 /\ (row.result = "own" => OwnSaved)
          /\ (supplier.organized => row.analysis \in {"requested", "ready"})
        BY DEF AllInv, Analysing, RowFollows, OwnSaved
    <2>2. (\A t \in Tasks : requests[t] <= 1) /\ (row.result \in Tasks => TaskSaved(row.result))
        BY DEF AllInv, Reorganizing, TasksFollow, Paid
    <2>3. \A p, q \in Workers : Asks(p) /\ Asks(q) => p = q
        BY DEF AllInv, Reorganizing, OneAsks
    <2>4. \A s, t \in Tasks : task[s].state = "requested" /\ task[t].state = "requested" => s = t
        BY DEF AllInv, Reorganizing, TasksFollow, Requested
    <2> QED BY <2>1, <2>2, <2>3, <2>4 DEF EachAnalysisPaidOnce, OwnSaved, TaskSaved, Asks
<1> QED BY <1>1, InvarianceAll, PTL

\* A product that has an analysis keeps one, and a lookup never replaces what an
\* administrator asked for.
THEOREM AnalysisKept == SpecAll => AnalysisIsKept
<1> DEFINE Kept == /\ row.analysis = "ready" => row'.analysis = "ready" /\ row'.result # "none"
                   /\ row.result \in Tasks => row'.result \in Tasks
<1>1. AllInv /\ [NextAll]_allVars => [Kept]_allVars
    BY NextKeepsAll DEF RowKept
<1> QED BY <1>1, InvarianceAll, PTL DEF SpecAll, AnalysisIsKept

\* Also beside the reorganizations one lookup at a time is fetching, the supplier is
\* asked again only after a refusal, and a saved product is not replaced.
THEOREM LookupsUndisturbed == SpecAll => []OneFetcher /\ ChargedAtMostOnce /\ SavedProductIsKept
<1> DEFINE Kept == /\ public.receipt = "ready" => public'.receipt = "ready" /\ public'.page = public.page
                   /\ supplier.receipt = "data" => supplier'.receipt = "data" /\ asked' = asked
<1>1. AllInv => OneFetcher
    BY DEF AllInv, IInv, SingleOwner, Owner, OneFetcher
<1>2. InitAll => Ledger!Init
    BY DEF InitAll, Init, Ledger!Init
<1>3. AllInv /\ [NextAll]_allVars => [Ledger!Ask]_(Ledger!vars)
    <2> SUFFICES ASSUME AllInv, [NextAll]_allVars PROVE [Ledger!Ask]_(Ledger!vars)
        OBVIOUS
    <2>1. CASE Next
        BY <2>1, OnlyAskPays DEF AllInv, Ledger!vars
    <2>2. CASE UNCHANGED <<files, history>>
        BY <2>2 DEF history, Ledger!vars
    <2> QED BY <2>1, <2>2, NextKeepsAll
<1>4. AllInv /\ [NextAll]_allVars => [Kept]_vars
    <2> SUFFICES ASSUME AllInv, [NextAll]_allVars PROVE Kept
        OBVIOUS
    <2>1. CASE Next
        BY <2>1, ProductStays DEF AllInv
    <2>2. CASE UNCHANGED <<files, history>>
        BY <2>2 DEF files, history
    <2> QED BY <2>1, <2>2, NextKeepsAll
<1> QED BY <1>1, <1>2, <1>3, <1>4, InvarianceAll, PTL
        DEF SpecAll, ChargedAtMostOnce, Ledger!Spec, SavedProductIsKept

================================================================================
