# Verification of viral-video-analyzer

TLA+ models of the parts of this repository in which several processes,
sessions and promises work on the same MySQL rows, with the TLC runs that check
them on small instances and the TLAPS proofs that hold for every instance.
Paths are relative to the repository (`lib/queue.ts`, ...).

## 1. The system

The application receives clicks from Feishu (Lark) tables, creates product
cards ("hand cards") or video tasks, downloads and transcribes TikTok videos
through paid providers, and writes results back to the table row and to product
documents. Every process of one database starts the same background workers
(`instrumentation.ts`); MySQL is all they share.

| component | state | operations | talks to |
|---|---|---|---|
| Feishu inbox (`lib/feishu/request-dedup.ts`, `inbox.ts`) | `feishu_request_receipts`, `feishu_inbox_tasks`; a named lock per kind; one pass per process and kind | `claimFeishuRequest`, `runFeishuInboxKind`, `processTask`, `materializeInboxVideo`, `finish` | routes call it; creates videos and delivery jobs; wakes the video queue; calls the hand card handler |
| Video queue (`lib/queue.ts`) | queue, deferred and active sets, abort controllers of a process; `videos.status`, `processing_started_at`, `attempt_count`, `video_attempts` | `enqueueVideos`, `schedule`, `resumePendingVideos`, `runVideo`, `settleAttempt`, `stopVideo` | execution lease, analysis |
| Execution lease (`lib/video-execution.ts`) | MySQL session locks: one per video, two slots; a heartbeat | `tryAcquireVideoExecution`, `lost`, `release` | aborts the run it belongs to |
| Analysis (`lib/analysis.ts`, `lib/providers/`, the downloads) | promises of an attempt, request slots of the model; the video row and the files | `analyzeVideo`, `fetchTikTok`, `translateTranscriptWithQwen`, `assertVideoAttempt` | providers, deliveries |
| Delivery to the Base row (`lib/feishu/automation.ts`, `delivery-guard.ts`) | `feishu_automation_jobs`, `_delivery_blocks`, `_delivery_retries`; a promise chain per row | `completeFeishuAutomation`, `deliverEarlyTranscript`, `runFeishuAutomationDeliveryPass` | Feishu API, subtitle budget |
| Hand card creation (`automation.ts`, `product-lookup.ts`, `document.ts`) | products, card mappings; locks per PID and row | `handleFeishuAutomation`, `findOrCreateProduct` | catalog, documents |
| Product documents (`product-doc-sync.ts`, `product-doc-discovery.ts`) | row bindings, cached revision, delivery epochs, discovery work | `syncProductDocument`, `syncVideoToProductDocument`, `poll`, `pump` | video queue, Feishu API |
| Product catalog (`lib/products/catalog*.ts`, `tiktok-public-source.ts`) | `product_catalog_cache`; request markers and results in files | `runCatalog`, `claimCatalog*`, `finishCatalogAnalysis`, `failCatalog`, recoveries | paid supplier, model |
| Subtitle budget (`lib/subtitle.ts`) | marker files, results | `generateBilingualSubtitleFile` | model |
| Media retention (`lib/media-retention.ts`) | files, `original_path` | `pruneExpiredMedia` | deliveries, restarts |
| Connection (`runtime.ts`, `read-control.ts`) | channel, connect promise, pauses | `ensureFeishuConnection`, `restart`, `stop` | everything that calls Feishu |
| Routes, admin pages, settings, parsing, documents' layout | no interleaving of their own | | |

What makes it hard: paid requests must not be repeated, yet processes die,
sessions end with their locks and their owners find out later, COMMIT
acknowledgements are lost, promises outlive the run that gave up on them, and
most decisions are taken on a row that was read in an earlier statement.

What makes each component correct:

- **Inbox**: an invocation is accepted once; its effect happens at most once;
  receipt and task agree; an outcome is earned and final; every accepted task
  gets one; the latest click owns its row.
- **Video queue and lease**: one executor per video, unless a session is cut; at
  most as many as slots; no lock leaked; no attempt that nobody asked for; one
  open attempt per video, the last; a recorded outcome stays; every inbox video
  settles.
- **Delivery**: a superseded or restarted job never writes or deletes the newer
  one; user content is not overwritten within the read-write window; retries
  end; a job is deleted only when its row is complete.
- **Documents**: no result is lost between a scan and a delivery; an edit seen
  during a scan is scanned again; failures back off but recover.
- **Catalog**: at most one paid fetch and one analysis per PID except after a
  proof of non-payment; a saved result is never paid for again.
- **Analysis**: nested retries stay bounded; the row points at a file that
  exists; what was obtained is kept; every promise ends.
- **Hand card, subtitles, retention, connection**: one document per PID and no
  more than sessions cut explain; at most two paid requests per attempt; no
  pruned file is referred to; one connection at a time.

`PROJECT.json` lists every component, the hazards at their lines, and the
definitions with the code they stand for.

## 2. Modules

| module | models | extends |
|---|---|---|
| `InboxContract` | what the inbox promises its callers, without tables or workers | |
| `FeishuInbox` | `request-dedup.ts`, `inbox.ts` | instance of `InboxContract` |
| `FeishuInbox_proofs` | theorems about it | `FeishuInbox`, TLAPS |
| `VideoQueue` | `queue.ts`, `video-execution.ts`, the video rows of `database.ts`, the control of `analysis.ts` as several processes see it | |
| `VideoAnalysis` | one attempt in detail: `analysis.ts`, `providers/tokscript.ts`, `tiktok-video-download.ts`, `video-processing.ts`, `providers/qwen.ts`, the clean-ups of `queue.ts` | |
| `FeishuDelivery` | the deliveries of `automation.ts`, `delivery-guard.ts`, the job tables, the paid requests of `subtitle.ts`, `media-retention.ts` | |
| `HandCard` | `handleFeishuAutomation`, the card of `document.ts`, `product-lookup.ts`, the repair of `backfill.ts`, the migration route | |
| `ProductDocSync` | `product-doc-sync.ts`, `product-doc-discovery.ts`, `docx-file.ts` | |
| `PaidRequests` | what the catalog promises about the supplier's bill | |
| `ProductCatalog` | `products/catalog.ts`, `catalog-store.ts`, the markers and receipts of `catalog-source.ts` and `tiktok-public-source.ts`, the control of `catalog-analyzer.ts` | instance of `PaidRequests` |
| `CatalogReorganize` | `catalog-reorganize.ts` and the repair in `backfill.ts`, beside the lookups | `ProductCatalog` |
| `ProductCatalog_proofs` | theorems about it | `ProductCatalog`, TLAPS |
| `CatalogReorganize_proofs` | theorems about both side by side | `CatalogReorganize`, `ProductCatalog_proofs` |
| `VideoQueue_proofs`, `VideoAnalysis_proofs`, `FeishuDelivery_proofs`, `HandCard_proofs`, `ProductDocSync_proofs` | theorems about the module each is named after | that module, TLAPS |

Each `MC` module holds the instances of the module it is named after.

Definitions named "Mutant" in a comment are not part of a specification: each
is a plausible mistake in the definition below it, kept to show that the
property it breaks can be broken.

The modules meet at these places. The inbox creates a video with its delivery
job (`CreateVideo`) and starts a hand card (`StartCard` of `HandCard` is the
call that `FeishuInbox` takes for one step). `VideoQueue` starts and ends
attempts; `VideoAnalysis` opens the attempt up and takes from the queue what it
does to one process's attempts: the race, the abort, the settlement, the
clean-up. `FeishuDelivery` and `ProductDocSync` take from an attempt what it
leaves in the video row, and when. A hand card asks for the catalog in one
step that `ProductCatalog` opens up, and its repairs write what a
reorganization has produced.

### FeishuInbox

`receipt` and `task` are the two tables, `created` the timestamp column,
`videos` and `job` what a video task writes in its transaction, `lock` the
named lock of a kind and `worker` the pass of each process and kind: where
`processTask` is, the rows it has yet to take with the states they had when
read, and whether its session is alive. `claimed`, `ran` and `returned` are
history. An HTTP call takes its timestamp in `Arrive` and runs its transaction
in `ClaimFeishuRequest`; each statement or transaction of `processTask` is an
action, and so is the whole external handler's start and its return. A
statement on a lost session fails; `StatementError` is where the code's try and
catch blocks lead. `AcknowledgementLost` commits and then reports an error.

### VideoQueue

A run (`run[p][v]`) is `runVideo` at one of its awaits (`pc`), with its lease
(`conn`), the reason its signal was aborted with (`sig`), the number of its
attempt (`n`) and what it read and will write (`seen`). The attempt is a promise
of its own (`analysis[v][n]`) that may outlive the run. `taskLock` and `slot`
are the named locks, `status`, `started`, `count` and `attempt` the columns;
`processing_started_at` is represented by the number of the attempt that set it.
`asked` and `disturbed` count, per video, what users requested and how many
faults hit it. Reading a row and writing it are different steps throughout;
`GET_LOCK` of task and slot with the row read in between is one step, since a
competitor sees no difference but a lock that is taken. `setStage` stands for
all stage writes, `disturbed` statements fail without effect (lost
acknowledgements are explored in the inbox only). The intermediate statuses are
all "downloading"; "waiting" is never written.

### VideoAnalysis

The attempts of one process at its videos. `at[a]` is `analyzeVideo` of attempt
`a`: its program counter and the locals that outlive an await (the text, whether
it is translated, the file it has chosen, the sources still to try, a file
without sound it may fall back on, what its signal was aborted with). `tool[a]`
are the two calls of tools that `fetchTikTok` makes in parallel, `trans[a]` the
translation task, which is a promise of its own and may outlive the attempt;
`active` and `waiters` are the request slots of `qwen.ts` with their queue.
`run[v]` is what `runVideo` does around it: the race with the thirty minutes,
the publication, `settleAttempt`, and the deletion of an aborted attempt's
files. `files` are the originals on the disk by video, attempt and source;
`asks` counts the requests of each attempt, anew once it is aborted. `Sending`
says that statements of one process are applied in the order in which they are
sent: the race ends only when the statement the attempt has sent is applied.
A text is "spoken" or a "diagnostic", an error message of the provider that an
older version stored as the text; the code recognises these and tries again.
Lost leases and crashes are in `VideoQueue` and not repeated here. A clean-up
whose `rm` succeeds and whose UPDATE fails leaves a path to a deleted file; the
code reports this to the administrator and the model leaves it out.

### FeishuDelivery

One Base row, whose columns are a file, the spoken text, its translation and
"subtitle" (the attachment and the two timed columns). `video` is the row of
each video with the results it has, `stage` the translation of each attempt,
`asking` a translation under way, `early` the videos whose text waits for an
early delivery. `job` is a row of `feishu_automation_jobs` with its block and
its retry time, `markers` and `cache` are the files of a paid subtitle request,
`disk` and `prune` the media file and the three steps of `pruneExpiredMedia`,
`crossed` the history of downloads that came between the last two.
`proc[p]` is the delivery that process `p` is at: `check` reads the job and the
video, then `upload`, `subtitle`, `reserve` (the exclusive marker), `ask`,
`read` and `verify` of the row before every try, `put`, and `settle`, which
deletes or blocks the job or sets its retry. `unseen[p]` is history: what
happened since that process last looked. The row lock of a process is why it is
at one delivery at a time; two processes share nothing but MySQL and the row.
The status column and the link of the product document follow the text and are
left out.

### ProductDocSync

One product document and one process with its two lanes for it, `discover`
(scans that polling starts) and `write` (deliveries and the manual call).
`pass[l]` is `syncProductDocumentUnlocked` at one of its awaits, with the
snapshot it works through, the row it is at and what it has read of it; `doc` is
the table in the document (the link, the translation cell, previews of each
video), `scanState` the stored revision, `binding` and `video` the rows of the
database, `discovery` the work, `checked` and failures of the discovery,
`delivery` the coalesced deliveries of each video with their dirty mark.
A revision is known by what it is compared with: the current one, an older one,
or invalidated. `typed`, `created`, `excused` and `lost` are history:
the number of links typed and of tasks made, rows for which a task may be made
again (they were handled on a snapshot that no longer held, or could not be bound
to the task made for them, `Unbound`), and deliveries that were dropped.

### HandCard

Actors are clicks, product lookups of video tasks, repairs of a card and calls
of the migration; each has a program counter and what it has read. `row` is the
Base rows, `doc` the documents in Feishu with their place, owner and two lines:
the PID in the text, and one of the product facts, which stands for all of them
(the code treats them alike). `product`, `mapping` and `video` are the tables,
`held` the promise chains of each process (row, identity, document), `session`
the inbox's named lock for hand cards, `copied` and `cut` the history of copies and
of sessions cut.
`blind` and `moved` are history too: somebody changed the line, or the PID of
the row, since the actor last looked. A click goes through the reads of the row
before each use, the search for a card, the copy, the lines of the card with
their checks, the patch of the row with its single retries, the mapping, the
catalog and the final status. `todo` is the set of cells a patch still has to
send, always in the order link, card, video (`First`). Layout, images and the
six texts are data.

### ProductCatalog and CatalogReorganize

One product: nothing of a product is shared with another but the queue of a
process. `row` is its row of `product_catalog_cache`, `public` and `supplier`
its two directories (marker, receipt and saved page; marker, receipt, the
model's marker and its result), `worker` the lookup each process runs, which is
a call of `getProductNameByPid` or of `runCatalog`. Each statement, each
exclusive file and each request is an action; `AskSupplier` sends the paid
request and `SaveAnswer` writes its receipt, so a process can die with an
answer in hand. Some data is represented by what it is compared with:

- `updated_at`, compared in the two conditional claims of a failed row, by
  `fresh`: whether the row still is as the lookup read it. An UPDATE that
  matches clears it for every other lookup (two of them in one millisecond
  would share a timestamp; that is left out).
- the hash of a receipt, which names the directory of its retry, by `kept` and
  `retried`; the hash of the saved page by `page`; the age of a failure by
  `recent`, which `CoolDown` ends.
- what the page holds by three kinds: a product, a page that may be asked for
  again, a page the parser does not accept. `Deploy` brings a repaired parser
  and perhaps another setting of the fallback, and restarts the processes.

A cache read looks into both directories in one step. In
`CatalogReorganize` each task id of `Tasks` has its row and its files (`task`), a
process the reorganization it runs (`admin`), and `lock` is the named lock, which
is gone with its session (`CutSession`) while the process goes on. The catalog's
own actions are used, with one addition: moving the supplier's directory away
after a refusal (`ArchiveAll`) takes the results of the tasks in it along, which
`archived` remembers. `requests` and `runs` count the requests to the model, for
each task and for the lookups.

## 3. Runs

| run | instance | shows |
|---|---|---|
| `inbox` | 2 processes, 2 hand cards and a video on one row, passes of 1 row, 2 calls, 2 faults | receipts agree with tasks, effects happen once, outcomes are earned, the contract is implemented, every task settles |
| `video_safety` | 2 processes, 1 video, 1 slot; a restart and a crash, a cut session and a crash, 2 failing statements, or a crash and one | locks follow leases, attempts are accounted for, outcomes stay |
| `video_liveness` | 2 processes and 1 video with a stop and a crash, or a crash and a failing statement; 1 process and 2 videos for 1 slot with a crash; 1 process and 1 video with a wake-up or a retry | every inbox video settles and its marker is cleared |
| `video_slots` | 2 videos, 1 slot, one retry, no fault | **violation**: two videos execute on one slot |
| `analysis` | a new video that runs out of time; one with a diagnostic for its text, retried; one with its text that runs out of time and is retried; one with its file, stopped and retried; two videos that share one request slot, with a stop and a retry | slots and files are accounted for, requests are bounded, results are kept, every attempt and translation ends |
| `delivery` | 1 process: a click; a retry and a failing request; a retry, a crash and a prune; an edit and a failing request; 3 failing requests. 2 processes: a crash | puts respect the row, subtitles are paid twice at most, no row names a pruned file but for a download within the pruning, jobs go only when all is delivered, every job settles |
| `delivery_stranded` | 1 process, one retry | **violation**: results of a retry whose job is gone never reach the row |
| `hand_card` | two clicks of one PID with a fault, with a crash in two processes, or with a cut session in two; a click with two edits, two notes, a trashed folder or three faults; a click beside a repair (also with a cut session in two processes), a migration, or two video lookups | no more copies of the template than sessions cut explain, no write for another PID or over people's text, no final status without a link, migration is earned, all return |
| `doc_sync` | 2 rows; a text edited; a link edited; a manual call and a retry; a failing call; a crash after an offline spell; an older video with the link of both rows; a link typed into one row that the other has, with a manual call | one task per link and one preview per file, people's text and links respected, results arrive |
| `doc_sync_lost` | one offline spell | **violation**: a result never reaches its row |
| `catalog` | 2 processes, one refusal, 2 crashes or failing statements, a release | one fetcher, one charge, nothing saved is replaced, what is saved gets organised |
| `catalog_reorganize` | 2 processes, an administrator's task and a repair, one refusal of the supplier, one crash, failing statement or cut session | every analysis asked once and saved first, one task open, an analysis is never taken away |

**Bounds.** Faults and calls are drawn from budgets (`MaxFaults`, `MaxCalls`,
`Budgets`). A set of budgets is a set of initial states: TLC explores each
combination it names in full, with its events at any moment. Where the state
space allows it two faults are in a budget, so that one can hit the recovery
from the other, which is where this code is delicate. Two processes are enough
for every race over a lock: the code treats all competitors alike. `Batch` is 1
instead of 10, so that a task can be left out of a batch. One slot and two
videos stand for two slots and three, and one request slot for the two of
`qwen.ts`. `MaxAttempts` is above what the budgets allow, so that no attempt is
prevented by it. In the delivery a job gives up after 3 passes for 6 and a put
after 2 tries for 3: a third failure still meets a job that was blocked by the
second. In the catalog `MaxRefusals` bounds the requests: one refusal allows one
retry, and the argument for a further one is the same. The reorganization is run
with pages and answers of one kind and a refusal, whose directory is moved away
under the tasks (3.6 million states). In the delivery a job's failed passes have
no cap of their own: the statement that counts them (`database.ts:408-427`) also
runs for a job that is blocked already, so that `attempts` may pass the limit at
which it gives up. Where two clicks meet a cut session, both are of one row and
the catalog answers with facts: this is half of the 1.4 million states of
`hand_card`, and without these two limits it would not end in time. Process
symmetry is used in safety runs only.

**Deadlock** is not checked: when every task is settled and no call is left the
system rests, as the application does.

**Fairness.** Inbox: the ten-second timer starts passes for ever and a running
pass continues (`WF` on `WorkerStep`). Queue: the recovery timer, the statements
of a run, its thirty-minute timer, the heartbeat's discovery of a lost session
and the calls of the queue's own API go on. Analysis: a run, an attempt and a
translation go on, since each request has a timeout; a translation that waits
for a slot has none of its own, and the property is that it gets one. Delivery:
attempts end, the retry time comes, the worker starts the delivery of a due job
and a delivery goes on. Hand cards: the inbox starts an accepted click and every
started call goes on. Documents: polling, the pump, the end of a back-off, the
audit after five minutes (`product-doc-discovery.ts:108-113`), the announcement
of a result, the connection and the steps of a lane go on; a delivery that waits
for its lane is started if the lane is free again and again (`SF`: the promise
chain is first come, first served). Catalog: a lookup that runs continues, and
users click again where the answer was to look later (`SF` on `StartCatalog`;
the code has no timer of its own). Nothing is assumed of other callers, of
people or of faults. In the queue an attempt may hang for ever, and
`video_liveness` shows that its video settles all the same.

**Disagreements found.** Three are runs that expect a violation (`video_slots`,
`delivery_stranded`, `doc_sync_lost`); their findings quote the lines that say
otherwise. The others were met while modelling and are stated here only.

- *Queue.* A session cut between the read of the row and the start of the
  attempt gives its video to two processes (`queue.ts:143`, against "one owner
  per task" and "NOT auto-replayed" at `video-execution.ts:12-13`);
  `AttemptsAccountedFor` bounds the attempts this adds by one per fault. A retry
  requeues a video while its older attempt is still 'running'.
- *Inbox.* The earlier of two clicks can take the row from the later one
  (`request-dedup.ts:34`): the timestamp is taken before the transaction.
- *Analysis.* `TokScriptSetupError` names a timeout "TokScriptRetryableError"
  (`tokscript.ts:203-213`), but `fetchTikTok` replaces it by its own message
  (`tokscript.ts:746-755`), which `transientNetworkFailure`
  (`analysis.ts:20-25`) does not recognise: a timeout is not retried. The same
  goes for a download (`video-processing.ts:24-36`), whose message says that it
  was. The catch clause translates a stored diagnostic when the fetch fails
  before it was replaced (`analysis.ts:93-99`, `284-300`), against the comment
  that diagnostics are never treated as spoken words. A file that was downloaded
  just before a stop stays on the disk (`analysis.ts:219`).
- *Delivery.* A retry that downloads between the UPDATE and the `rmSync` of
  `media-retention.ts:46-54` loses its new file, which takes a video whose
  delivery job is gone, against the comment of lines 15-16; `NoMissingFile`
  excuses exactly these downloads (`crossed`). `completeFeishuAutomation` reads
  the video at `automation.ts:596` and the stages at 710-716: a translation that
  ends in between is recorded as 'translation_failed' although it is there
  (`deploy/RELIABILITY_AUDIT_20260930.md:97`).
- *Hand cards.* After the inbox session is cut, two processes can copy a card of
  one PID each (`automation.ts:92-93` counts on a lock of one process);
  `CopiesAccountedFor` bounds the copies by the cuts. A product is looked up and
  created in separate statements (`product-lookup.ts:11` and `:22`), so that a
  click and a video task can create two products of one PID, against "one
  product row" at `:5-9`. A card whose facts are filled but whose PID line is
  blank is reported as incomplete (`automation.ts:949-990`). A line is written
  without compare-and-set, as `deploy/ISOLATED_ACCEPTANCE.md:33` says itself.
  And `updateProduct` reads a row and writes all columns, so that it can undo
  another writer's column.
- *Documents.* The dirty mark of a delivery is dropped when the one under way
  throws (`product-doc-sync.ts:588-593`). A manual call and a scan that handle
  one row at a time, each from its snapshot, can create two tasks for one link;
  `OneTaskPerLink` excuses exactly these rows. While a document is listed for
  the first time the proof found another way: the lock under which a row is
  bound is a row's own (`product-doc-sync.ts:371-373`), so that a pass at
  another row with the same link can find the video which was just created and
  not bound yet (`:404-418`) and take it. The row it was made for is refused and
  gets another task; a failing `saveProductDocumentVideoRow` or a crash between
  the two calls leaves such a task without a row, too, while the queue processes
  it. These rows are excused as well. A manual call that listed a row before its
  link was typed deletes the binding that a newer scan made, and the scan stores
  the revision as current: the row stays without its binding until something
  else changes the document, though its results still arrive by their own
  delivery (`HasTask`). And a manual call's older revision can overwrite the
  mark of a failed scan, so that the retry waits for the five-minute audit.
- *Catalog.* A retry that gets no page leaves a receipt without a hash, and
  every later click fails the checksum (`tiktok-public-source.ts:297`, `:360`,
  against `deploy/PRODUCT_CATALOG.md:8`). A process that dies between saving a
  refusal and `failCatalog` leaves the row 'requested', so "recharge and click
  again" (`catalog-source.ts:12`) cannot help. A paid answer whose row failed
  (`catalog.ts:109`) is not looked at while the free page keeps failing. When
  the statement at `catalog.ts:70` fails after the free page was saved, the
  supplier is paid for it (`deploy/PRODUCT_CATALOG.md:29`). A refusal is read
  and the directory is renamed afterwards (`catalog-source.ts:37-47`): a result
  that another lookup or a reorganization saves in between is archived with it,
  while the row comes to name it; when the statement that finishes it fails as
  well, the row stays 'requested' with its result out of reach.
- *Connection* (not modelled). `ensureFeishuConnection` awaits the credentials
  before it looks at the connect promise (`runtime.ts:50-57`), so that a slow
  caller with older credentials can reconnect after a newer forced restart,
  which the comment above it excludes.

## 4. Proofs

Every invariant and every action property that a passing run checks is a theorem
here, for all values of the constants; the liveness properties are left to TLC.
Each module below proves its inductive invariant first (checked by TLC on small
instances before), with one lemma per action.

`FeishuInbox_proofs` proves for every set of requests, rows and processes and
any bounds, from `InboxConstants` alone:

- `TypeCorrect`, `ReceiptsAgree`, `EffectsOnce`, `OutcomesEarned` (the
  invariants of `inbox`);
- `HandlerOnce` and `OneVideo`, the two halves of `EffectsOnce`, and
  `OutcomesFinal`: an outcome is never rewritten;
- `Implements`: `Spec => Contract!Spec`.

None of the invariants is inductive. A worker's program counter has to say what
it entitles it to: the one that is about to start a handler must be the only one
that claimed its task. `IInv` adds to `TypeOK`

- `RequestInv(r)`: how task, receipt, videos, `claimed`, `ran` and `returned` of
  one request fit together;
- `TodoInv(w)`, `CurInv(w)`: the rows a pass holds are of its kind, a row read
  as 'running' was claimed, and at each `pc` what is true of the current row;
- `Exclusive`: no two passes are between claiming and finishing one task, which
  has to hold without the session lock, since that may be lost.

Lemmas about the transactions (`CreateVideoKeeps`, `SettleKeeps`,
`SetRunningKeeps`) give the part of a step that concerns the tables,
`StepOf` and `Bystander` the part that concerns other requests and workers;
`NextIInv` then has one step per action. The refinement maps each action to one
of the contract or to a stutter (`VideoMaps`, `StartMaps`, `HandlerMaps`,
`SettleMaps`, `Unseen`).

`ProductCatalog_proofs` proves for every set of processes and any bounds, from
`CatalogConstants` alone: `TypeCorrect`, `OneFetches` (`OneFetcher`),
`ChargedOnce` (the refinement of `PaidRequests`) and `ProductKept`
(`SavedProductIsKept`). `OneFetcher` is not inductive: a recovery that has its
product may come back to the supplier when `markCatalogFetched` fails, and a
conditional claim has to find no one fetching. `IInv` adds to the types

- `SingleOwner`: at most one lookup owns the fetch (`Owner` includes that
  recovery), and
- `Entitled(w)`: while it does, the row is 'requested' or 'ready', so that no
  claim of a missing or failed row can succeed; and what each place implies for
  the files: no ready page at a capture, an unanswered marker and a ledger that
  is even before a request, a refusal before the directory is moved away;
- `Books`: without a marker, or with the receipt of a refusal, every request
  that was sent had been refused.

`StepKeeps` states what a step of one lookup must do to keep this (create an
owner only where the row has none, fail the row only as its owner, touch the
books only as the owner), `QuietKeeps` the same for the many steps that touch
neither, and each action has a lemma of its own.

`CatalogReorganize_proofs` proves, for every set of processes and tasks and from
`CatalogConstants` and `ReorganizeConstants` alone, `PaidOnce`
(`EachAnalysisPaidOnce`), `AnalysisKept` and `TypesCorrect`; `LookupsUndisturbed`
says that everything proved of the lookups alone still holds beside the
reorganizations. `AllInv` is the `IInv` of the catalog with

- `Analysing`: the row follows the one analysis of the lookups (`RowFollows`), at
  most one lookup has claimed it and has no result yet (`OneClaimant`), and what
  each place of a lookup implies (`AnalysisAt`);
- `Reorganizing`: the lock is held by the reorganization whose session is not cut
  (`Locked`), a task is asked by one process (`OneAsks`) and once
  (`TasksFollow`, `TaskAt`), a cut session not excepted.

A step of the catalog leaves the tasks alone but for the archive
(`LookupLeavesTasks`, `ArchiveKeepsTasks`), a step of a reorganization leaves the
lookups alone but for the row's analysis (`RowKeeps`, `ApartKeeps`).

`VideoQueue_proofs` proves, for every set of videos, processes and slots and any
bounds, `TypeCorrect`, `LeasesFollow` (`LocksFollowLeases`), `AttemptsCounted`
(`AttemptsAccountedFor`), `OutcomesStay` (`AttemptOutcomeIsFinal`) and
`OneExecutor`: if two processes execute one video, the session of one of them is
gone. (That they may is stated under "Disagreements found"; an attempt counts as
executed until its signal is aborted, whatever became of its session.) Its
`IInv` has three parts besides the types:

- `Placed`: what the place of a run says of its lease and its attempt;
- `Numbered`: the marker and the one open attempt are the last, and an attempt
  that has published its result has cleared its marker;
- `Accounted`: attempts made, one more if the row invites another, and the runs
  that are astray (they may start an attempt nobody asked for, since they lost the
  lease under which they read the row, or failed to publish how theirs ended) are
  together no more than what users asked for and faults explain.
  `AttemptsAccountedFor` itself is not inductive, for the row and the runs can hold
  an attempt that is still to come. The lemmas `FaultClaims`, `RequestClaims`,
  `StrayReleases` and `AttemptClaims` say what each kind of step does to this sum.

`FeishuDelivery_proofs` proves, for every set of videos, links, processes and
bounds, from `DeliveryConstants`: `TypeCorrect`, `SubtitlesBudgeted`
(`SubtitleBudget`), `FilesKept` (`NoMissingFile`), `PutsRespect`
(`PutsRespectRow`) and `RetiredDelivered` (`RetiredWhenDelivered`). `Belongs`
ties a job to the row's owner and to the file it needs; `Marked` counts requests
under way with those that were paid, each of which owns a marker; `Sound` says
what a delivery knows of the row at each place, up to what happened unseen since
it looked; `RowKnown` and `AttemptKnown` that what it remembers of row and
attempt still stands or was superseded. The type invariant was corrected by its
proof: it had bounded the attempts of a job.

`VideoAnalysis_proofs` proves, for every set of videos, any number of slots,
attempts and requests: `SlotsAccounted`, `RequestsBound`, `FilesAccounted`,
`ResultsKept` (the invariants and the action property of `analysis`) and
`TypesCorrect`. `IInv` is proved in four parts, each with the help of those
before it: the types; `SlotInv`, that the queue of the slots holds each waiting
translation once, and the slots are those of requests under way; `RequestInv`,
what each place of an attempt still may ask; and `FileInv`. The last one turns on
`Awaited`: an attempt that is under way is the one its run waits for, hence one
for a video, and only it writes the row's text, path and status. `Keeps(a)` is
what a step of one attempt leaves to the others. The numbering of the queue
(`FirstOfQueue`, `Left`, `Admitted`) needs bijections rather than induction.

`HandCard_proofs` proves, for every set of clicks, lookups, repairs, migrations,
rows, PIDs and documents: `TypesCorrect`, `LinkFirst` (`LinkBeforeStatus`),
`MigrationEarned`, `CardsActForTheirRow` (`ActsForRow`), `NotesSurvive`
(`NotesAreKept`) and `CopiesCounted` (`CopiesAccountedFor`). `IInv` says what
fits an actor at each place of its program (`Fits`) and what it relies on in the
tables (`Sound`): a link that is queued is due, failed or in the row, for one.
`Keeps` is what each step leaves to all other actors. `CopiesCounted` needs
`CardInv` besides: the handlers of one process run one after the other
(`Apart`), a cut leaves at most one handler at work whose session is gone
(`Strays`), and a handler that is about to copy found no copy when it looked, so
that the copies of a PID, made or about to be made, are no more than the
handlers that may have looked for it at once, one more than the sessions cut. It
holds for every scenario, however many clicks and cuts it has; where nothing is
cut there is one card for a PID.

`ProductDocSync_proofs` proves, for any rows, links, videos and scenarios and from
`SyncConstants` alone: `TypeCorrect`, `NothingIsMadeTwice` (`NothingTwice`) and
`RowRespected` (`WritesRespectRow`). Neither half of `NothingTwice` is inductive.
`Fits` says what a pass may rely on at each place of its program: the write lane
alone attaches files, so that from its row on the document has the previews of
its snapshot, and none at a row for which it is about to add one; before a write the
link and the blank cell still stand or were edited since the look. `TaskInv`
counts tasks: a row that shows a link is bound to it, or a pass that holds the
row's lock brings its task, or else the link has had fewer tasks than it was typed
(`Spare`), which is what a pass needs to create one. `StepKeeps` serves the steps
that bind nothing, `BindKeeps` the three that do (`ClaimRow`, `CreateVideo`,
`SaveRow`), and `RowStays` the rows that a step leaves alone. The first attempt
failed at `SaveRow`: the property was false where another row takes the task, as
stated under "Disagreements found".

Two things that the proofs brought to light and that the runs had not: a `CASE`
whose guards overlap chooses among them (TLC takes the first), so that a model may
mean more than TLC checks; the guards are disjoint now where this happened. And
constants need what TLC takes for granted (`Links # {}`, numbers and strings that
differ from model values), which is in the assumptions of each module.

Left to TLC: liveness under fairness, which is out of the prover's reach
(`EveryTaskSettles`, `InboxVideoSettles`, `EveryJobSettles`, `ResultsArrive`,
`AllReturn`, `EveryAttemptEnds`, `SavedProductIsOrganized`).

## 5. Not modelled

- **Connection and read control** (`runtime.ts`, `read-control.ts`): one
  connection of one process, kept by a promise, and a shared pause after a rate
  limit. What a connection that is missing means to its callers is in
  `ProductDocSync` (`Connect`).
- **Settings, credentials, sessions; schema and pool; parsing**: single-row
  reads and writes, what MySQL provides, pure functions.
- **Routes and pages** validate, call the components and render; the calls that
  change state are actions of the components.
- **The stages table**, a display of the steps of an attempt, except for the
  stage of the translation, which the delivery reads.
- **Videos without an inbox task** are recovered at startup only, and that
  call's failure is swallowed (`queue.ts:263`): `InboxVideoSettles` is about
  videos of the inbox, since for the others it does not hold.
- **Older creation paths** of cards that nothing outside the tests calls
  (`ensureProductCardShell`, `ensureProductDocument`,
  `ensureFeishuReportDocument`, `claimFeishuProductCardDocument`,
  `findProductDocumentByTitle`).
- In `ProductDocSync`: the limit of four active jobs and their priorities,
  metadata in batches, the status and analysis cells, a second process.
- In `FeishuDelivery`: people fill cells and never empty one, so that
  `RetiredWhenDelivered` says nothing of a cell that is emptied between the last
  look and the settlement. `SettleJob` counts a failed pass and blocks the job
  in one step (`automation.ts:702-704`, two statements), does not wait for a
  transcript stage that is still shown as running (712-713; the code looks again
  until the stage is thirty minutes old), and its own statements do not fail
  (721-731). The clean-up of an attempt that was timed out (`queue.ts:45-55`) is
  in `VideoAnalysis`, `EndAttempt` leaves the file.
- In `VideoAnalysis`: the request slots of `qwen.ts` are shared with the
  subtitles and with the transcription of a media file, whose waiters go first
  (`qwen.ts:37-38`, `302`); each gives its slot back after a timeout as the
  translations do. The stage written before a download (`analysis.ts:199`) and
  those that the retries write without waiting (156, 207) are display, and
  guarded no differently from the writes around them. The stop of a video that
  is idle or queued (`queue.ts:268-276`) is in `VideoQueue`.
- In `ProductDocSync`: a video that is being bound obtains no result until the row is
  saved (`Obtain`); a binding that stores another form of its video's link
  (`product-doc-sync.ts:376-379`) does not occur.
- In `HandCard`: the PID of a click is the one the row shows when it is accepted
  (`inbox.ts:98-100` fills in a missing one when the task is processed), and a template
  that is not as expected (`automation.ts:930`, `939`) ends the reading of the card
  like a failing call does, and is taken from the same budget.
- In `ProductCatalog`: an analysis is one request to the model for the books, which
  stands for up to `retries + 1` HTTP requests (`catalog-analyzer.ts:139-162`). A
  `failCatalog` that fails in the catch clause ends as a process that dies there
  (`Abandon`); the checks of keys and settings between the steps are left out.
- Wording, layout, encryption, media and HTTP details. Provider calls are
  actions with any outcome.

The component list of `PROJECT.json` says the same part by part.

## 6. Plan

What is left, the most valuable first:

1. `FeishuConnection` (one channel, the connect promise, forced restarts and the
   pauses of `read-control.ts`), with the hazard at `runtime.ts:43`.
2. `InboxToVideo`, the inbox and the queue composed from a click to a settled
   video, if there is room for its run.
3. The parts of `document.ts` and `database.ts` that only old cards reach.
