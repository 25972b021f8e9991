--------------------------- MODULE ProductCatalog ---------------------------
(***************************************************************************)
(* The catalog of one product: lib/products/catalog.ts with the row it     *)
(* keeps in product_catalog_cache (catalog-store.ts), the directory of the *)
(* free public page (tiktok-public-source.ts), the directory of the paid   *)
(* supplier (catalog-source.ts) and the model request (catalog-analyzer.ts)*)
(*                                                                         *)
(* A worker is a process: its queue runs one lookup at a time.  A lookup   *)
(* reads the row or a directory in one step and writes in a later one;     *)
(* between them other processes act on the same row and files.  A process  *)
(* may die, or a statement fail, between any two steps.  Nothing of one    *)
(* product is shared with another but the queue, so one product is enough. *)
(***************************************************************************)
EXTENDS Naturals

CONSTANTS
    Workers,
    Pages,         \* what a capture of the public page may find
    Answers,       \* what a request to the supplier may come to
    Tasks,         \* reorganizations whose results the row may hold beside a lookup's own
    MaxRefusals,   \* bound on the refusals of the supplier
    MaxFaults      \* bound on crashes and failing statements

ASSUME CatalogConstants ==
    /\ Pages \subseteq {"data", "busy", "rejected"}
    /\ Answers \subseteq {"data", "refused", "other", "lost"}
    /\ {"none", "own"} \cap Tasks = {}
    /\ MaxRefusals \in Nat /\ MaxFaults \in Nat

VARIABLES
    row,        \* the row of product_catalog_cache
    metadata,   \* product_catalog_metadata.source
    public,     \* the directory of the public page
    supplier,   \* the directory of the supplier, with the model's files
    worker,     \* the lookup each process is at
    asked,      \* requests sent to the supplier (history)
    refused,    \* those it refused for lack of credit (history)
    runs,       \* requests of an analysis to the model (history)
    deployed,   \* the repaired parser is running
    fallback,   \* CHUHAIJIANG_FALLBACK_ENABLED
    faults

files    == <<public, supplier>>
history  == <<asked, refused, runs>>
setting  == <<deployed, fallback>>
vars     == <<row, metadata, files, worker, history, setting, faults>>

\* result: whose analysis result_json holds.
NoRow == [fetch |-> "none", analysis |-> "waiting", result |-> "none"]

\* receipt: the state of receipt.json; the kinds of failure are a page that may
\* be asked for again, no page at all, and a page the parser does not accept.
\* page: response.html against the hash in the receipt.  retried: this failure
\* has its retry marker.  recent: it is younger than a minute.
EmptyPublic == [marker |-> FALSE, receipt |-> "none", page |-> "none",
                retried |-> FALSE, recent |-> FALSE]
Failures == {"busy", "network", "rejected"}

\* started: analysis-started.json.  organized: organized.json.
EmptySupplier == [marker |-> FALSE, receipt |-> "none", started |-> FALSE, organized |-> FALSE]

\* seen: the row as the lookup read it.  fresh: updated_at is still the one it
\* read.  kept: the public receipt is still the one it read.  mode: whether it
\* holds the first claim, that of a free recovery, or that of a paid retry.
Idle == [pc |-> "idle", op |-> "none", mode |-> "first", seen |-> NoRow, fresh |-> FALSE,
         kept |-> FALSE, again |-> FALSE, item |-> "none", got |-> "none"]

Init ==
    /\ row = NoRow /\ metadata = "none"
    /\ public = EmptyPublic /\ supplier = EmptySupplier
    /\ worker = [w \in Workers |-> Idle]
    /\ asked = 0 /\ refused = 0 /\ runs = 0
    /\ deployed = FALSE /\ fallback \in BOOLEAN
    /\ faults = 0

Becomes(w, lookup) == [worker EXCEPT ![w] = lookup]
Go(w, pc) == Becomes(w, [worker[w] EXCEPT !.pc = pc])
Leave(w)  == Becomes(w, Idle)

\* An UPDATE that matches gives the row a new updated_at.
Stale(workers) == [w \in Workers |-> [workers[w] EXCEPT !.fresh = FALSE]]
UpdateRow(matches, written, next) ==
    IF matches THEN row' = written /\ worker' = Stale(next)
               ELSE row' = row /\ worker' = next

-----------------------------------------------------------------------------
(* The beginning of a lookup.                                              *)

\* getProductNameByPid.
StartName(w) ==
    /\ worker[w].pc = "idle"
    /\ worker' = Becomes(w, [Idle EXCEPT !.op = "name", !.fresh = row.fetch = "failed",
                    !.pc = IF row.fetch = "failed" THEN "recover" ELSE "lookup"])
    /\ UNCHANGED <<row, metadata, files, history, setting, faults>>

\* runCatalog: a finished or failed analysis is the answer, and nothing is done.
StartCatalog(w) ==
    /\ worker[w].pc = "idle"
    /\ row.analysis \notin {"ready", "failed"}
    /\ worker' = Becomes(w, [Idle EXCEPT !.op = "catalog", !.seen = row,
                    !.fresh = row.fetch = "failed",
                    !.pc = IF row.fetch = "failed" THEN "recover" ELSE "lookup"])
    /\ UNCHANGED <<row, metadata, files, history, setting, faults>>

\* cachedCatalogProduct: the public product, else what the supplier answered;
\* an answer that is no product raises an error.  A lookup that found no
\* product goes on only where there is no row.
CachedItem ==
    IF public.receipt = "ready" THEN "public"
    ELSE CASE supplier.receipt = "data" -> "paid"
           [] supplier.receipt = "none" -> "none"
           [] supplier.receipt \in {"refused", "other"} -> "error"

Lookup(w) ==
    /\ worker[w].pc = "lookup"
    /\ LET new == worker[w].op = "catalog" /\ worker[w].seen = NoRow IN
       \/ /\ CachedItem \in {"public", "paid"}
          /\ worker' = Becomes(w, [worker[w] EXCEPT !.item = CachedItem,
                                      !.pc = IF new THEN "claim" ELSE "remember"])
       \/ /\ CachedItem = "none" /\ (new \/ worker[w].op = "name")
          /\ worker' = Go(w, "claim")
       \/ /\ CachedItem = "error" \/ (CachedItem = "none" /\ ~new /\ worker[w].op = "catalog")
          /\ worker' = Leave(w)
    /\ UNCHANGED <<row, metadata, files, history, setting, faults>>

\* Mutant: a lookup that lost the INSERT fetches all the same.
ClaimAnyway(w) ==
    /\ worker[w].pc = "claim"
    /\ UpdateRow(row = NoRow, [row EXCEPT !.fetch = "requested"],
         Go(w, IF worker[w].item # "none" THEN "reread" ELSE "public"))
    /\ UNCHANGED <<metadata, files, history, setting, faults>>

\* claimCatalog: INSERT IGNORE.  The winner without a product fetches it; a
\* loser goes on only with a saved one.
ClaimCatalog(w) ==
    /\ worker[w].pc = "claim"
    /\ UpdateRow(row = NoRow, [row EXCEPT !.fetch = "requested"],
         IF worker[w].item # "none" THEN Go(w, "reread")
         ELSE IF row = NoRow THEN Go(w, "public") ELSE Leave(w))
    /\ UNCHANGED <<metadata, files, history, setting, faults>>

\* claimCatalogPublicRecovery and claimCatalogCreditRetry: compare and set.
CanReclaim(w) ==
    /\ row.fetch = "failed" /\ row.analysis = "waiting" /\ row.result = "none"
    /\ worker[w].fresh

Reclaim(w, mode, next) ==
    UpdateRow(CanReclaim(w), [row EXCEPT !.fetch = "requested"],
        IF CanReclaim(w) THEN Becomes(w, [worker[w] EXCEPT !.mode = mode, !.pc = next])
                         ELSE Leave(w))

ClaimRecovery(w) ==
    /\ worker[w].pc = "recover"
    /\ Reclaim(w, "recovery", "public")
    /\ UNCHANGED <<metadata, files, history, setting, faults>>

-----------------------------------------------------------------------------
(* The free public page: fetchPublicProductOnce.                           *)

\* Where a lookup goes once it has the product, and once the public page failed:
\* to the supplier only from a first claim, and only where that is enabled.
Afresh(lookup) == [lookup EXCEPT !.kept = FALSE, !.again = FALSE, !.got = "none"]
WithItem(w, item) ==
    Becomes(w, [Afresh(worker[w]) EXCEPT !.item = item,
        !.pc = IF worker[w].op = "name" \/ worker[w].mode # "first" THEN "fetched" ELSE "reread"])
PublicFails(w) ==
    Becomes(w, [Afresh(worker[w]) EXCEPT
        !.pc = IF worker[w].mode = "recovery" THEN "recoveryFailed"
               ELSE IF fallback THEN "paid" ELSE "failFetch"])

\* recoverPublicProductFromSavedPage: a saved page that is still the one of the
\* receipt is parsed again, which a repaired parser may achieve, and saved.
Reparsed == public.page = "match" /\ public.receipt \in Failures /\ deployed

\* retryFailedPublicProduct before its marker: the receipt must tell of a failure
\* that may be retried, a minute old unless the capture was this lookup's own.
\* recoverPublicProductFromSavedPage came first, and its checksum error (a page
\* that is there but is not the one of the receipt) ends the matter.
Retryable ==
    /\ public.receipt \in {"busy", "network"}
    /\ public.page # "other"
    /\ ~public.recent

\* A new receipt: what others read of the old one is out of date.
NewReceipt(w, kind, page, next) ==
    /\ public' = [public EXCEPT !.receipt = kind, !.page = page, !.retried = FALSE,
                                !.recent = kind # "ready"]
    /\ worker' = [v \in Workers |-> [next[v] EXCEPT !.kept = v = w /\ next[v].pc = "retry"]]

OpenPublic(w) ==
    /\ worker[w].pc = "public"
    /\ \/ /\ public.receipt = "ready"
          /\ public' = public /\ worker' = WithItem(w, "public")
       \/ Reparsed /\ NewReceipt(w, "ready", "match", WithItem(w, "public"))
       \/ /\ public.receipt = "none" /\ ~public.marker
          /\ public' = [public EXCEPT !.marker = TRUE]
          /\ worker' = Becomes(w, [worker[w] EXCEPT !.pc = "capture", !.again = FALSE])
       \/ /\ public.receipt = "none" /\ public.marker
          /\ public' = public /\ worker' = PublicFails(w)
       \/ /\ public.receipt \in Failures
          /\ public' = public
          /\ worker' = IF Retryable THEN Becomes(w, [worker[w] EXCEPT !.pc = "retry", !.kept = TRUE])
                                    ELSE PublicFails(w)
    /\ UNCHANGED <<row, metadata, supplier, history, setting, faults>>

\* The exclusive marker of this failure, then the receipt is compared again.
MarkRetry(w) ==
    /\ worker[w].pc = "retry"
    /\ IF worker[w].kept /\ ~public.retried
       THEN /\ public' = [public EXCEPT !.retried = TRUE]
            /\ worker' = Becomes(w, [worker[w] EXCEPT !.pc = "capture", !.again = TRUE])
       ELSE public' = public /\ worker' = PublicFails(w)
    /\ UNCHANGED <<row, metadata, supplier, history, setting, faults>>

\* capturePublicProduct: the page is saved first, the receipt after it.
CapturePage(w, kind) ==
    /\ worker[w].pc = "capture"
    /\ public' = [public EXCEPT !.page = "other"]
    /\ worker' = Becomes(w, [worker[w] EXCEPT !.pc = "captured", !.got = kind])
    /\ UNCHANGED <<row, metadata, supplier, history, setting, faults>>

\* The owner of a first capture may retry it at once.
AfterFailure(w, kind) ==
    IF ~worker[w].again /\ kind # "rejected" THEN Go(w, "retry") ELSE PublicFails(w)

CaptureReceipt(w) ==
    /\ worker[w].pc = "captured"
    /\ LET got == worker[w].got IN
       IF got = "data" THEN NewReceipt(w, "ready", "match", WithItem(w, "public"))
                       ELSE NewReceipt(w, got, "match", AfterFailure(w, got))
    /\ UNCHANGED <<row, metadata, supplier, history, setting, faults>>

\* No page arrived: the receipt has no hash, and an earlier page stays on disk.
CaptureFails(w) ==
    /\ worker[w].pc = "capture"
    /\ NewReceipt(w, "network", IF public.page = "none" THEN "none" ELSE "other",
                  AfterFailure(w, "network"))
    /\ UNCHANGED <<row, metadata, supplier, history, setting, faults>>

\* recoverFailedWithPublicSource after the public page failed: the row fails
\* again, is read again, and a proof of the supplier's refusal lets it be claimed.
RecoveryFails(w) ==
    /\ worker[w].pc = "recoveryFailed"
    /\ UpdateRow(row.fetch = "requested", [row EXCEPT !.fetch = "failed"], Go(w, "proof"))
    /\ UNCHANGED <<metadata, files, history, setting, faults>>

-----------------------------------------------------------------------------
(* The paid supplier: fetchProductOnce and the retry of a refusal.         *)

\* Mutant: any receipt of the supplier will do.
RejectedByAnyReceipt == supplier.receipt # "none" /\ ~supplier.organized /\ ~supplier.started

\* readCreditRejection: a receipt that says so, and no trace of the model.
CreditRejected == supplier.receipt = "refused" /\ ~supplier.organized /\ ~supplier.started

FindProof(w) ==
    /\ worker[w].pc = "proof"
    /\ worker' = IF fallback /\ CreditRejected /\ row.analysis = "waiting" /\ row.result = "none"
                 THEN Becomes(w, [worker[w] EXCEPT !.pc = "creditClaim", !.fresh = TRUE])
                 ELSE Leave(w)
    /\ UNCHANGED <<row, metadata, files, history, setting, faults>>

ClaimCreditRetry(w) ==
    /\ worker[w].pc = "creditClaim"
    /\ Reclaim(w, "credit", "archive")
    /\ UNCHANGED <<metadata, files, history, setting, faults>>

\* archiveCreditRejection: the refusal is read again, then the directory is moved
\* away with its marker.
CheckArchive(w) ==
    /\ worker[w].pc = "archive"
    /\ worker' = Go(w, IF CreditRejected THEN "rename" ELSE "failFetch")
    /\ UNCHANGED <<row, metadata, files, history, setting, faults>>

MoveDirectory(w) ==
    /\ worker[w].pc = "rename"
    /\ supplier' = EmptySupplier
    /\ worker' = Go(w, "paid")
    /\ UNCHANGED <<row, metadata, public, history, setting, faults>>

\* fetchProductOnce up to its exclusive, durable marker.
MarkRequest(w) ==
    /\ worker[w].pc = "paid"
    /\ \/ /\ supplier.receipt = "data"
          /\ supplier' = supplier /\ worker' = WithItem(w, "paid")
       \/ /\ supplier.receipt = "none" /\ ~supplier.marker
          /\ supplier' = [supplier EXCEPT !.marker = TRUE]
          /\ worker' = Go(w, "ask")
       \/ /\ supplier.receipt \in {"refused", "other"}
                \/ (supplier.receipt = "none" /\ supplier.marker)
          /\ supplier' = supplier /\ worker' = Go(w, "failFetch")
    /\ UNCHANGED <<row, metadata, public, history, setting, faults>>

\* The request, and what becomes of it: the product, a refusal for lack of
\* credit, an answer of no use, or none within 45 seconds.
AskSupplier(w, answer) ==
    /\ worker[w].pc = "ask"
    /\ asked' = asked + 1
    /\ IF answer = "refused" THEN refused < MaxRefusals /\ refused' = refused + 1
                             ELSE refused' = refused
    /\ worker' = Becomes(w, [worker[w] EXCEPT !.pc = "answered", !.got = answer])
    /\ UNCHANGED <<row, metadata, files, runs, setting, faults>>

\* Mutant: a request that timed out is given a receipt as well.
SaveTimeout(w) ==
    /\ worker[w].pc = "answered"
    /\ supplier' = [supplier EXCEPT !.receipt = worker[w].got]
    /\ worker' = IF worker[w].got = "data" THEN WithItem(w, "paid") ELSE Go(w, "failFetch")
    /\ UNCHANGED <<row, metadata, public, history, setting, faults>>

SaveAnswer(w) ==
    /\ worker[w].pc = "answered"
    /\ supplier' = IF worker[w].got = "lost" THEN supplier
                   ELSE [supplier EXCEPT !.receipt = worker[w].got]
    /\ worker' = IF worker[w].got = "data" THEN WithItem(w, "paid")
                 ELSE Becomes(w, [Afresh(worker[w]) EXCEPT !.pc = "failFetch"])
    /\ UNCHANGED <<row, metadata, public, history, setting, faults>>

\* failCatalog(pid, "fetch").
FailFetch(w) ==
    /\ worker[w].pc = "failFetch"
    /\ UpdateRow(row.fetch = "requested", [row EXCEPT !.fetch = "failed"], Leave(w))
    /\ UNCHANGED <<metadata, files, history, setting, faults>>

-----------------------------------------------------------------------------
(* What follows with a product.                                            *)

Fetched(r) == [r EXCEPT !.fetch = "ready"]

\* markCatalogFetched after a fetch of a name lookup or of a recovery.
MarkFetched(w) ==
    /\ worker[w].pc = "fetched"
    /\ UpdateRow(row.fetch = "requested", Fetched(row),
                 Go(w, IF worker[w].op = "name" THEN "remember" ELSE "reread"))
    /\ UNCHANGED <<metadata, files, history, setting, faults>>

\* The second readCatalog of runCatalog.
Reread(w) ==
    /\ worker[w].pc = "reread"
    /\ worker' = Becomes(w, [worker[w] EXCEPT !.seen = row, !.pc = "remember"])
    /\ UNCHANGED <<row, metadata, files, history, setting, faults>>

\* Mutant: the fetch of a product found on disk is not marked.
RememberOnly(w) ==
    /\ worker[w].pc = "remember"
    /\ metadata' = worker[w].item
    /\ worker' = IF worker[w].op = "name" THEN Leave(w) ELSE Go(w, "organize")
    /\ UNCHANGED <<row, files, history, setting, faults>>

\* rememberCatalogProduct; a name lookup ends here, a catalog marks the fetch.
Remember(w) ==
    /\ worker[w].pc = "remember"
    /\ metadata' = worker[w].item
    /\ IF worker[w].op = "name" THEN row' = row /\ worker' = Leave(w)
       ELSE UpdateRow(row.fetch = "requested", Fetched(row), Go(w, "organize"))
    /\ UNCHANGED <<files, history, setting, faults>>

\* Mutant: an analysis under way is claimed again.
OrganizeAgain(w) ==
    /\ worker[w].pc = "organize"
    /\ IF worker[w].seen.analysis = "requested" /\ supplier.organized
       THEN row' = row /\ worker' = Go(w, "finish")
       ELSE LET mine == row.fetch = "ready" /\ row.analysis \in {"waiting", "requested"} IN
            UpdateRow(mine, [row EXCEPT !.analysis = "requested"],
                      IF mine THEN Go(w, "analyze") ELSE Leave(w))
    /\ UNCHANGED <<metadata, files, history, setting, faults>>

\* A row that was read as 'requested' is finished from organized.json; otherwise
\* claimCatalogAnalysis.
Organize(w) ==
    /\ worker[w].pc = "organize"
    /\ IF worker[w].seen.analysis = "requested" /\ supplier.organized
       THEN row' = row /\ worker' = Go(w, "finish")
       ELSE LET mine == row.fetch = "ready" /\ row.analysis = "waiting" IN
            UpdateRow(mine, [row EXCEPT !.analysis = "requested"],
                      IF mine THEN Go(w, "analyze") ELSE Leave(w))
    /\ UNCHANGED <<metadata, files, history, setting, faults>>

\* A saved result is used; else the exclusive marker, then the model.
Analyze(w) ==
    /\ worker[w].pc = "analyze"
    /\ IF supplier.organized \/ supplier.started
       THEN /\ UNCHANGED <<supplier, runs>>
            /\ worker' = Go(w, IF supplier.organized THEN "finish" ELSE "failAnalysis")
       ELSE /\ supplier' = [supplier EXCEPT !.started = TRUE]
            /\ runs' = runs + 1
            /\ worker' = Go(w, "model")
    /\ UNCHANGED <<row, metadata, public, asked, refused, setting, faults>>

\* The answer is validated and saved as organized.json, or the analysis fails.
ModelAnswers(w) ==
    /\ worker[w].pc = "model"
    /\ \/ /\ supplier' = [supplier EXCEPT !.organized = TRUE]
          /\ worker' = Go(w, "finish")
       \/ /\ supplier' = supplier
          /\ worker' = Go(w, "failAnalysis")
    /\ UNCHANGED <<row, metadata, public, history, setting, faults>>

\* Mutant: the result is written whatever the state of the row.
FinishAlways(w) ==
    /\ worker[w].pc = "finish"
    /\ UpdateRow(TRUE, [row EXCEPT !.analysis = "ready", !.result = "own"], Leave(w))
    /\ UNCHANGED <<metadata, files, history, setting, faults>>

\* finishCatalogAnalysis and failCatalog(pid, "analysis").
FinishAnalysis(w) ==
    /\ worker[w].pc = "finish"
    /\ UpdateRow(row.analysis = "requested",
                 [row EXCEPT !.analysis = "ready", !.result = "own"], Leave(w))
    /\ UNCHANGED <<metadata, files, history, setting, faults>>

FailAnalysis(w) ==
    /\ worker[w].pc = "failAnalysis"
    /\ UpdateRow(row.analysis = "requested", [row EXCEPT !.analysis = "failed"], Leave(w))
    /\ UNCHANGED <<metadata, files, history, setting, faults>>

-----------------------------------------------------------------------------
(* Faults and surroundings.                                                *)

\* A process dies, or a statement outside a try block fails: nothing more is done.
Abandon(w) ==
    /\ worker[w].pc # "idle" /\ faults < MaxFaults
    /\ faults' = faults + 1
    /\ worker' = Leave(w)
    /\ UNCHANGED <<row, metadata, files, history, setting>>

\* A statement inside a try block fails and the catch goes on: markCatalogFetched
\* of a recovery, and finishCatalogAnalysis, whose result is already saved.
StatementFails(w) ==
    /\ faults < MaxFaults
    /\ faults' = faults + 1
    /\ \/ worker[w].pc = "finish" /\ worker' = Leave(w)
       \/ /\ worker[w].pc = "fetched" /\ worker[w].mode = "recovery"
          /\ worker' = Go(w, "recoveryFailed")
       \/ /\ worker[w].pc = "fetched" /\ worker[w].mode = "credit"
          /\ worker' = Go(w, "failFetch")
    /\ UNCHANGED <<row, metadata, files, history, setting>>

\* A minute passes after a failed capture.
CoolDown ==
    /\ public.recent
    /\ public' = [public EXCEPT !.recent = FALSE]
    /\ UNCHANGED <<row, metadata, supplier, worker, history, setting, faults>>

\* A release with a repaired parser, and perhaps with another fallback setting,
\* restarts the processes.
Deploy ==
    /\ ~deployed
    /\ deployed' = TRUE
    /\ fallback' \in BOOLEAN
    /\ worker' = [w \in Workers |-> Idle]
    /\ UNCHANGED <<row, metadata, files, history, faults>>

\* The steps that leave the directory of the supplier in its place.
StepInPlace(w) ==
    \/ Lookup(w) \/ ClaimCatalog(w) \/ ClaimRecovery(w)
    \/ OpenPublic(w) \/ MarkRetry(w)
    \/ \E kind \in Pages : CapturePage(w, kind)
    \/ CaptureReceipt(w) \/ CaptureFails(w)
    \/ RecoveryFails(w) \/ FindProof(w) \/ ClaimCreditRetry(w)
    \/ CheckArchive(w) \/ MarkRequest(w)
    \/ \E answer \in Answers : AskSupplier(w, answer)
    \/ SaveAnswer(w) \/ FailFetch(w)
    \/ MarkFetched(w) \/ Reread(w) \/ Remember(w)
    \/ Organize(w) \/ Analyze(w) \/ ModelAnswers(w) \/ FinishAnalysis(w) \/ FailAnalysis(w)

Step(w) == StepInPlace(w) \/ MoveDirectory(w)

Next ==
    \/ \E w \in Workers : StartName(w) \/ StartCatalog(w) \/ Step(w) \/ Abandon(w) \/ StatementFails(w)
    \/ CoolDown \/ Deploy

Spec == Init /\ [][Next]_vars

\* Processes go on with what they began, and users click again where the answer
\* was to look later.
Fairness == \A w \in Workers : WF_vars(Step(w)) /\ SF_vars(StartCatalog(w))
FairSpec == Spec /\ Fairness

-----------------------------------------------------------------------------
(* Properties.                                                             *)

PCs == {"idle", "lookup", "claim", "recover", "public", "retry", "capture", "captured",
        "recoveryFailed", "proof", "creditClaim", "archive", "rename", "paid", "ask", "answered",
        "failFetch", "fetched", "reread", "remember", "organize", "analyze", "model", "finish",
        "failAnalysis"}
Items == {"none", "public", "paid"}
Rows == [fetch : {"none", "requested", "ready", "failed"},
         analysis : {"waiting", "requested", "ready", "failed"},
         result : {"none", "own"} \cup Tasks]

\* Type correctness: the state of the row (catalog-store.ts:6-11), of the two
\* directories and of a lookup.
TypeOK ==
    /\ row \in Rows
    /\ metadata \in Items
    /\ public \in [marker : BOOLEAN, receipt : {"none", "ready"} \cup Failures,
                   page : {"none", "match", "other"}, retried : BOOLEAN, recent : BOOLEAN]
    /\ supplier \in [marker : BOOLEAN, receipt : {"none", "data", "refused", "other"},
                     started : BOOLEAN, organized : BOOLEAN]
    /\ worker \in [Workers -> [pc : PCs, op : {"none", "name", "catalog"},
                     mode : {"first", "recovery", "credit"}, seen : Rows,
                     fresh : BOOLEAN, kept : BOOLEAN, again : BOOLEAN, item : Items,
                     got : {"none", "data", "busy", "rejected", "refused", "other", "lost"}]]
    /\ asked \in Nat /\ refused \in Nat /\ runs \in Nat
    /\ deployed \in BOOLEAN /\ fallback \in BOOLEAN /\ faults \in 0 .. MaxFaults

Fetching == {"public", "retry", "capture", "captured", "archive", "rename", "paid", "ask",
             "answered", "failFetch", "recoveryFailed"}

\* However many processes look a product up, at most one of them is between its
\* claim of the row and the end of the fetch: only it touches the two directories,
\* whose checks and writes are separate steps (catalog.ts:118-218, "The existing
\* DB claim and durable request marker protect other processes").
OneFetcher == \A v, w \in Workers :
    worker[v].pc \in Fetching /\ worker[w].pc \in Fetching => v = w

\* The supplier is asked again only after it refused for lack of credit, through
\* crashes, lost answers, rival processes and archived directories
\* (catalog.ts:146 "One paid source request").
Ledger == INSTANCE PaidRequests
ChargedAtMostOnce == Ledger!Spec

\* A product that was saved is never replaced, and what the supplier answered is
\* never paid for again, not even by an archived directory
\* (tiktok-public-source.ts:323 "a successful snapshot is never replaced").
SavedProductIsKept ==
    [][/\ public.receipt = "ready" => public'.receipt = "ready" /\ public'.page = public.page
       /\ supplier.receipt = "data" => supplier'.receipt = "data" /\ asked' = asked]_vars

\* A product that is saved gets analysed, as long as users click: an interrupted
\* fetch or a dead process does not strand what was saved.  (What the supplier
\* answered counts while the row has not failed.)
SavedProductIsOrganized ==
    /\ row.fetch # "none" /\ row.analysis = "waiting"
    /\ public.receipt = "ready" \/ (supplier.receipt = "data" /\ row.fetch # "failed")
    ~> row.analysis # "waiting" \/ (public.receipt # "ready" /\ row.fetch = "failed")
=============================================================================
