---------------------------- MODULE ProductDocSync ----------------------------
(***************************************************************************)
(* Synchronisation of one product document (the hand card) with its        *)
(* videos: lib/feishu/product-doc-sync.ts, product-doc-discovery.ts,       *)
(* docx-file.ts and the rows of product_document_video_rows and            *)
(* product_document_video_scan_state in lib/database.ts.                   *)
(*                                                                         *)
(* One process.  It has two lanes for a document, each a lock of its own:  *)
(* "discover" for the scans that polling starts, "write" for deliveries of *)
(* one video and for the manual synchronisation.  A pass of a lane lists   *)
(* the document once and works through that snapshot while people edit the *)
(* rows, videos obtain results and the other lane goes on.  Statements of  *)
(* the process reach MySQL in the order in which they are issued.          *)
(***************************************************************************)
EXTENDS Integers, FiniteSets

CONSTANTS
    NRows,    \* rows of the document's video table
    Links,    \* what a link cell may show
    Videos,   \* numbers, in the order in which videos are created
    Budgets,  \* bounds on edits of links, texts beside links, faults, offline spells,
              \* crashes, retries and manual calls, the results there are, the links
              \* and the video at first
    Person,   \* text a person has written
    None

Scenarios == [texts : Nat, faults : Nat, offline : Nat, crashes : Nat, retries : Nat, calls : Nat,
              edits : [1 .. NRows -> Nat], links : [1 .. NRows -> Links \cup {None}],
              earlier : Links \cup {None}, results : SUBSET {"file", "translation"}]

ASSUME SyncConstants ==
    /\ NRows \in Nat /\ Videos \subseteq Nat \ {0}
    /\ Person \notin Videos /\ None \notin Videos \cup Links /\ Person # None
    /\ Budgets \subseteq Scenarios

VARIABLES
    doc,       \* rows of the table: link, translation cell, previews of each video
    scanState, \* product_document_video_scan_state: none, or its revision
    binding,   \* product_document_video_rows: the video and the link of each row
    video,     \* rows of videos: status, attempt_count, link, results
    discovery, \* work, checked and failures of ProductDocumentDiscovery
    pass,      \* syncProductDocumentUnlocked in each lane
    delivery,  \* __productDocDeliveries: syncVideoToProductDocument
    announced, \* results saved whose delivery has yet to be asked for
    typed,     \* times a link was put into a row (history)
    created,   \* videos created for a row (history)
    excused,   \* rows handled on a snapshot that no longer held, or whose own video
               \* could not be bound to them (history)
    lost,      \* videos whose delivery was given up unnoticed (history)
    budget     \* what is left of the bounds

dbVars   == <<scanState, binding, video>>
memVars  == <<discovery, delivery>>
history  == <<typed, created, excused, lost>>
vars     == <<doc, dbVars, memVars, pass, announced, history, budget>>

Rows    == 1 .. NRows
Lanes   == {"discover", "write"}
Results == {"file", "translation"}

NoBinding == [v |-> 0, link |-> None]
NoVideo   == [status |-> "none", n |-> 0, link |-> None, has |-> {}]
NoCopies  == [v \in Videos |-> 0]
NoWork    == [at |-> "none", seen |-> FALSE, taken |-> FALSE, again |-> FALSE]
\* rev: the revision read at the beginning is unknown, still current or outdated.
\* moved: the delivery epoch has changed.  old: the video as it was claimed.  late:
\* what others changed in the row of the pass since it last looked (history).
Idle == [pc |-> "idle", mode |-> "none", only |-> 0, row |-> 0, snap |-> <<>>, rev |-> "unknown",
         moved |-> FALSE, failed |-> FALSE, migrate |-> FALSE, v |-> 0, old |-> NoVideo,
         has |-> {}, late |-> {}]

Init ==
    /\ budget \in Budgets
    /\ doc = [r \in Rows |-> [link |-> budget.links[r], text |-> None, copies |-> NoCopies]]
    /\ scanState = "none"
    /\ binding = [r \in Rows |-> NoBinding]
    /\ video = [v \in Videos |-> IF v = 1 /\ budget.earlier # None
                  THEN [NoVideo EXCEPT !.status = "running", !.link = budget.earlier] ELSE NoVideo]
    /\ discovery = [work |-> NoWork, checked |-> FALSE, backoff |-> FALSE]
    /\ pass = [l \in Lanes |-> Idle]
    /\ delivery = [v \in Videos |-> [pc |-> "off", dirty |-> FALSE]]
    /\ announced = {}
    /\ typed = [r \in Rows |-> [l \in Links |-> IF budget.links[r] = l THEN 1 ELSE 0]]
    /\ created = [r \in Rows |-> {}]
    /\ excused = {} /\ lost = {}

Spend(what) == budget[what] > 0 /\ budget' = [budget EXCEPT ![what] = @ - 1]
Fault(bad)  == IF bad THEN Spend("faults") ELSE UNCHANGED budget

-----------------------------------------------------------------------------
(* The document.  Every change gives it a new revision and a new time of   *)
(* modification: what was read of it before is outdated.                   *)

Outdated(q) == [l \in Lanes |-> [q[l] EXCEPT !.rev = IF @ = "current" THEN "old" ELSE @]]
Late(q, r, what) == [l \in Lanes |-> IF q[l].row = r THEN [q[l] EXCEPT !.late = @ \cup {what}] ELSE q[l]]

Changed ==
    /\ scanState' = IF scanState = "current" THEN "old" ELSE scanState
    /\ discovery' = [work |-> [discovery.work EXCEPT !.seen = FALSE, !.taken = FALSE],
                     checked |-> FALSE, backoff |-> FALSE]

EditLink(r, l) ==
    /\ budget.edits[r] > 0 /\ budget' = [budget EXCEPT !.edits[r] = @ - 1]
    /\ doc[r].link # l
    /\ doc' = [doc EXCEPT ![r].link = l]
    /\ Changed /\ pass' = Late(Outdated(pass), r, "link")
    /\ typed' = IF l = None THEN typed ELSE [typed EXCEPT ![r][l] = @ + 1]
    /\ UNCHANGED <<binding, video, delivery, announced, created, excused, lost>>

EditText(r) ==
    /\ Spend("texts")
    /\ doc[r].link # None
    /\ doc' = [doc EXCEPT ![r].text = Person]
    /\ Changed /\ pass' = Late(Outdated(pass), r, "text")
    /\ UNCHANGED <<binding, video, delivery, announced, history>>

-----------------------------------------------------------------------------
(* The videos.  One is processed once it is bound to its row and enqueued; *)
(* each result is saved, and its delivery asked for afterwards.  A retry   *)
(* waits in the queue; what the earlier attempt obtained is still there.   *)

Obtain(v, x) ==
    /\ x \in budget.results
    /\ video[v].status = "queued" \/ (video[v].status = "running" /\ x \notin video[v].has)
    /\ \A l \in Lanes : ~(pass[l].pc = "save" /\ pass[l].v = v)
    /\ video' = [video EXCEPT ![v].status = "running", ![v].has = @ \cup {x},
                             ![v].n = IF video[v].status = "queued" THEN @ + 1 ELSE @]
    /\ announced' = announced \cup {v}
    /\ UNCHANGED <<doc, scanState, binding, memVars, pass, history, budget>>

Retry(v) ==
    /\ Spend("retries")
    /\ video[v].status = "running"
    /\ video' = [video EXCEPT ![v].status = "queued"]
    /\ UNCHANGED <<doc, scanState, binding, memVars, pass, announced, history>>

-----------------------------------------------------------------------------
(* syncVideoToProductDocument and deliverVideoToProductDocument.           *)

\* A second request only leaves a mark on the delivery under way.
Requested(dl, v) ==
    IF dl[v].pc = "off" THEN [dl EXCEPT ![v].pc = "connect"] ELSE [dl EXCEPT ![v].dirty = TRUE]

Announce(v) ==
    /\ v \in announced
    /\ announced' = announced \ {v}
    /\ delivery' = Requested(delivery, v)
    /\ UNCHANGED <<doc, dbVars, discovery, pass, history, budget>>

\* The loop of syncVideoToProductDocument: a marked delivery runs once more.
Delivered(dl, v) ==
    [dl EXCEPT ![v] = [pc |-> IF dl[v].dirty THEN "connect" ELSE "off", dirty |-> FALSE]]

\* An exception leaves the loop, and takes the mark with it.
GivenUp(dl, v) == [dl EXCEPT ![v] = [pc |-> "off", dirty |-> FALSE]]

\* A bound video goes to its row, another one to the documents of its product.
\* Without a connection the delivery is over.
Connect(v, ok) ==
    /\ delivery[v].pc = "connect"
    /\ IF ok THEN UNCHANGED <<budget, lost>> ELSE Spend("offline") /\ lost' = lost \cup {v}
    /\ delivery' = IF ok THEN [delivery EXCEPT ![v].pc = "wait"] ELSE Delivered(delivery, v)
    /\ UNCHANGED <<doc, dbVars, discovery, pass, announced, typed, created, excused>>

\* The delivery gets the lock of the document.
StartDelivery(v) ==
    /\ delivery[v].pc = "wait" /\ pass["write"].pc = "idle"
    /\ delivery' = [delivery EXCEPT ![v].pc = "run"]
    /\ pass' = [pass EXCEPT !["write"] = [Idle EXCEPT !.pc = "begin", !.mode = "deliver", !.only = v]]
    /\ UNCHANGED <<doc, dbVars, discovery, announced, history, budget>>

\* The manual synchronisation of an administrator.
StartManual ==
    /\ Spend("calls")
    /\ pass["write"].pc = "idle"
    /\ pass' = [pass EXCEPT !["write"] = [Idle EXCEPT !.pc = "begin", !.mode = "manual"]]
    /\ UNCHANGED <<doc, dbVars, memVars, announced, history>>

-----------------------------------------------------------------------------
(* ProductDocumentDiscovery: poll and pump.                                *)

\* A document is left alone while it backs off, and when it was scanned as it is
\* and its scan state was not invalidated.
Due ==
    /\ ~discovery.backoff
    /\ scanState = "invalid" \/ ~discovery.checked

\* Work under way learns of the version.
Offered(w) ==
    IF w.at = "none" THEN [NoWork EXCEPT !.at = "queued", !.seen = TRUE]
                     ELSE [w EXCEPT !.seen = TRUE, !.again = w.at = "running"]

\* The timer's call of syncAllProductDocuments.
Poll ==
    /\ Due
    /\ discovery.work.at = "none" \/ ~discovery.work.seen
    /\ discovery' = [discovery EXCEPT !.work = Offered(@)]
    /\ UNCHANGED <<doc, dbVars, delivery, pass, announced, history, budget>>

\* One round of the version loop.
Round(w) == [w EXCEPT !.at = "running", !.taken = w.seen, !.again = FALSE]
NewScan  == [Idle EXCEPT !.pc = "begin", !.mode = "discover"]

Pump ==
    /\ discovery.work.at = "queued"
    /\ discovery' = [discovery EXCEPT !.work = Round(@)]
    /\ pass' = [pass EXCEPT !["discover"] = NewScan]
    /\ UNCHANGED <<doc, dbVars, delivery, announced, history, budget>>

\* The version scanned is remembered; a newer one is scanned at once.
Scanned(ds) ==
    [work |-> IF ds.work.again THEN Round(ds.work) ELSE NoWork,
     checked |-> ds.work.taken, backoff |-> FALSE]

\* A failure makes the version back off, unless a newer one was seen meanwhile.
ScanFailed(ds) ==
    IF ds.work.again THEN [ds EXCEPT !.work = Round(@)]
    ELSE [work |-> NoWork, checked |-> FALSE, backoff |-> ds.work.seen]

BackoffEnds ==
    /\ discovery.backoff
    /\ discovery' = [discovery EXCEPT !.backoff = FALSE]
    /\ UNCHANGED <<doc, dbVars, delivery, pass, announced, history, budget>>

\* Recent edits, unavailable metadata and the periodic audit.
Audit ==
    /\ discovery.checked
    /\ discovery' = [discovery EXCEPT !.checked = FALSE]
    /\ UNCHANGED <<doc, dbVars, delivery, pass, announced, history, budget>>

-----------------------------------------------------------------------------
(* syncProductDocumentUnlocked.  Each step is a wait of the code.          *)

Set(l, d) == [pass EXCEPT ![l] = d]
Go(l, pc) == Set(l, [pass[l] EXCEPT !.pc = pc])
NextRow(d) == [d EXCEPT !.pc = "row", !.row = @ + 1, !.v = 0, !.old = NoVideo, !.has = {}, !.late = {}]
RowFailed(d) == NextRow([d EXCEPT !.failed = TRUE])

Over(q, l) == [q EXCEPT ![l] = IF l = "discover" /\ discovery.work.again THEN NewScan ELSE Idle]

\* The pass returns to the discovery or to the delivery that asked for it.
Return(l) ==
    /\ pass' = Over(pass, l)
    /\ CASE pass[l].mode = "discover" -> discovery' = Scanned(discovery) /\ UNCHANGED delivery
         [] pass[l].mode = "deliver"  -> delivery' = Delivered(delivery, pass[l].only) /\ UNCHANGED discovery
         [] OTHER -> UNCHANGED memVars

Throw(l) ==
    LET v == pass[l].only IN
    /\ pass' = Over(pass, l)
    /\ lost' = IF pass[l].mode = "deliver" /\ delivery[v].dirty THEN lost \cup {v} ELSE lost
    /\ CASE pass[l].mode = "discover" -> discovery' = ScanFailed(discovery) /\ UNCHANGED delivery
         [] pass[l].mode = "deliver"  -> delivery' = GivenUp(delivery, v) /\ UNCHANGED discovery
         [] OTHER -> UNCHANGED memVars

\* A delivery tells the scans under way, and invalidates the revision of the last.
Begin(l) ==
    LET d == pass[l]
        told == [k \in Lanes |-> IF k = l THEN [d EXCEPT !.pc = "list"] ELSE [pass[k] EXCEPT !.moved = TRUE]]
    IN  /\ d.pc = "begin"
        /\ pass' = IF d.mode = "deliver" THEN told ELSE Go(l, "revision")
        /\ scanState' = IF d.mode = "deliver" /\ scanState # "none" THEN "invalid" ELSE scanState
        /\ UNCHANGED <<doc, binding, video, memVars, announced, history, budget>>

\* The revision at which the document was last scanned lets the scan stop here.
ReadRevision(l, outcome) ==
    /\ pass[l].pc = "revision" /\ Fault(outcome # "ok")
    /\ CASE outcome = "limited" -> Throw(l)
         [] outcome = "failed"  -> pass' = Go(l, "list") /\ UNCHANGED <<memVars, lost>>
         [] outcome = "ok" /\ scanState = "current" -> Return(l) /\ UNCHANGED lost
         [] OTHER -> /\ pass' = Set(l, [pass[l] EXCEPT !.pc = "list", !.rev = "current"])
                     /\ UNCHANGED <<memVars, lost>>
    /\ UNCHANGED <<doc, dbVars, announced, typed, created, excused>>

\* What the cells of the table show: the link, a blank for what is none; the text of
\* the whole translation cell; the files by their names.
Shown == doc

ListBlocks(l, ok) ==
    /\ pass[l].pc = "list" /\ Fault(~ok)
    /\ IF ok THEN /\ pass' = Set(l, [pass[l] EXCEPT !.pc = "row", !.row = 1, !.snap = Shown,
                                                    !.migrate = scanState = "none"])
                  /\ UNCHANGED <<memVars, lost>>
             ELSE Throw(l)
    /\ UNCHANGED <<doc, dbVars, announced, typed, created, excused>>

\* The videos of the product with this link; the newest comes first.
Earlier(l) == {v \in Videos : video[v].link = l}
Newest(S)  == CHOOSE v \in S : \A w \in S : w <= v
Claimed(v, r) == \E s \in Rows \ {r} : binding[s].v = v
Binding(q, l) == q[l].pc \in {"create", "save"}

\* A preview counts when it bears the video's name.
HasPreview(s, v) == s.copies[v] > 0

\* What a pass does with the row of a video once it has it.  A discovery only asks
\* for the delivery of what is missing, and is to come again.
Handle(l, v) ==
    LET d == [pass[l] EXCEPT !.v = v]
        s == d.snap[d.row]
        missing == \/ "file" \in video[v].has /\ ~HasPreview(s, v)
                   \/ "translation" \in video[v].has /\ s.text = None
    IN  IF d.mode = "discover"
        THEN /\ pass' = Set(l, NextRow([d EXCEPT !.failed = @ \/ missing]))
             /\ delivery' = IF missing THEN Requested(delivery, v) ELSE delivery
        ELSE /\ pass' = Set(l, IF video[v].status = "queued" THEN NextRow(d)
                               ELSE [d EXCEPT !.pc = "peek", !.old = video[v]])
             /\ UNCHANGED delivery

\* The rows whose snapshot no longer holds.
Stale(d) == IF d.snap[d.row].link # doc[d.row].link THEN {d.row} ELSE {}

\* Mutant: the row's own binding is not looked up.
ClaimAnew(l) ==
    LET d == pass[l] IN
    /\ d.pc = "row" /\ d.row \in Rows /\ d.mode # "deliver" /\ d.snap[d.row].link # None
    /\ pass' = Set(l, [d EXCEPT !.pc = "create"])
    /\ excused' = excused \cup Stale(d)
    /\ UNCHANGED <<doc, dbVars, memVars, announced, typed, created, lost, budget>>

\* A row without a link lets go of its video; otherwise, under the lock of the
\* row, its video is looked up, or one is to be bound or created.
ClaimRow(l) ==
    LET d == pass[l]
        r == d.row
        s == d.snap[r].link
        b == binding[r]
        bound == IF b.link = s THEN b.v ELSE 0
        old == IF d.migrate /\ b.v = 0 THEN Earlier(s) ELSE {}
        mine == {v \in {d.only} : b.v \in {0, v} /\ video[v].link = s /\ ~Claimed(v, r)}
        claim == IF d.mode = "deliver" THEN mine
                 ELSE IF old # {} /\ ~Claimed(Newest(old), r) THEN {Newest(old)} ELSE {}
    IN  /\ d.pc = "row" /\ r \in Rows
        /\ s = None \/ \A k \in Lanes \ {l} : ~(Binding(pass, k) /\ pass[k].row = r)
        /\ excused' = excused \cup Stale(d)
        /\ binding' = IF s = None /\ d.mode # "deliver" THEN [binding EXCEPT ![r] = NoBinding] ELSE binding
        /\ IF s = None \/ (d.mode = "deliver" /\ bound # d.only /\ claim = {})
              THEN pass' = Set(l, NextRow(d)) /\ UNCHANGED delivery
           ELSE IF bound # 0 THEN Handle(l, bound)
           ELSE /\ pass' = Set(l, IF claim = {} THEN [d EXCEPT !.pc = "create"]
                                  ELSE [d EXCEPT !.pc = "save", !.v = Newest(claim)])
                /\ UNCHANGED delivery
        /\ UNCHANGED <<doc, scanState, video, discovery, announced, typed, created, lost, budget>>

\* Mutant: the new task is not taken over.
CreateForgotten(l) ==
    LET d == pass[l]
        v == CHOOSE v \in Videos : video[v].status = "none"
    IN  /\ d.pc = "create"
        /\ \E u \in Videos : video[u].status = "none"
        /\ video' = [video EXCEPT ![v] = [NoVideo EXCEPT !.status = "queued", !.link = d.snap[d.row].link]]
        /\ pass' = Set(l, [d EXCEPT !.pc = "save"])
        /\ UNCHANGED <<doc, scanState, binding, memVars, announced, history, budget>>

CreateVideo(l) ==
    LET d == pass[l]
        v == CHOOSE v \in Videos : video[v].status = "none" /\ \A w \in Videos : w < v => video[w].status # "none"
    IN  /\ d.pc = "create"
        /\ \E u \in Videos : video[u].status = "none"
        /\ video' = [video EXCEPT ![v] = [NoVideo EXCEPT !.status = "queued", !.link = d.snap[d.row].link]]
        /\ pass' = Set(l, [d EXCEPT !.pc = "save", !.v = v])
        /\ created' = [created EXCEPT ![d.row] = @ \cup {v}]
        /\ UNCHANGED <<doc, scanState, binding, memVars, announced, typed, excused, lost, budget>>

\* The row of a pass that was to bind a video which was made for that row.
Unbound(d) == IF d.pc = "save" /\ d.v \in created[d.row] THEN {d.row} ELSE {}

\* saveProductDocumentVideoRow: one transaction, which refuses another row's video.
SaveRow(l, ok) ==
    LET d == pass[l] IN
    /\ d.pc = "save" /\ Fault(~ok)
    /\ IF ok /\ ~Claimed(d.v, d.row)
       THEN /\ binding' = [binding EXCEPT ![d.row] = [v |-> d.v, link |-> d.snap[d.row].link]]
            /\ Handle(l, d.v)
            /\ UNCHANGED excused
       ELSE /\ pass' = Set(l, RowFailed(d))
            /\ excused' = excused \cup Unbound(d)
            /\ UNCHANGED <<binding, delivery>>
    /\ UNCHANGED <<doc, scanState, video, discovery, announced, typed, created, lost>>

\* Mutant: what the listing showed decides.
PeekSnapshot(l, ok) ==
    LET d == [pass[l] EXCEPT !.has = video[pass[l].v].has, !.late = {}]
        wanted == "translation" \in d.has /\ d.snap[d.row].text = None
    IN  /\ pass[l].pc = "peek" /\ ok
        /\ pass' = Set(l, [d EXCEPT !.pc = IF wanted THEN "text" ELSE "check"])
        /\ UNCHANGED <<doc, dbVars, memVars, announced, history, budget>>

\* The link and the translation cell of a row at the document's present revision.
Latest(r) == [link |-> doc[r].link, text |-> doc[r].text]
RowMatches(r, v) == Latest(r).link = video[v].link
Blank(r, v) == RowMatches(r, v) /\ Latest(r).text = None

\* The row is read again; a cell that is not blank, or another link, is left alone.
Peek(l, ok) ==
    LET d == [pass[l] EXCEPT !.has = video[pass[l].v].has, !.late = {}]
        wanted == "translation" \in d.has /\ d.snap[d.row].text = None
    IN  /\ pass[l].pc = "peek" /\ Fault(~ok) /\ (~wanted => ok)
        /\ pass' = Set(l, CASE ~ok -> [d EXCEPT !.pc = "check", !.failed = TRUE]
                            [] ok /\ wanted /\ Blank(d.row, d.v) -> [d EXCEPT !.pc = "text"]
                            [] OTHER -> [d EXCEPT !.pc = "check"])
        /\ UNCHANGED <<doc, dbVars, memVars, announced, history>>

\* The answer of a write that took place may be lost.
WriteText(l, outcome) ==
    LET d == [pass[l] EXCEPT !.pc = "check", !.failed = @ \/ outcome # "ok"] IN
    /\ pass[l].pc = "text" /\ Fault(outcome # "ok")
    /\ IF outcome = "failed" THEN UNCHANGED <<doc, scanState, discovery>> /\ pass' = Set(l, d)
       ELSE /\ doc' = [doc EXCEPT ![d.row].text = d.v]
            /\ Changed /\ pass' = Outdated(Set(l, d))
    /\ UNCHANGED <<binding, video, delivery, announced, history>>

\* validatePreviewBinding: the link, the binding, the attempt and the path, again.
Valid(d) ==
    /\ RowMatches(d.row, d.v)
    /\ binding[d.row] = [v |-> d.v, link |-> video[d.v].link]
    /\ video[d.v].n = d.old.n
    /\ "file" \in video[d.v].has <=> "file" \in d.old.has

CheckPreview(l, ok) ==
    LET d == pass[l]
        wanted == "file" \in d.has /\ ~HasPreview(d.snap[d.row], d.v)
    IN  /\ d.pc = "check" /\ Fault(~ok) /\ (~wanted => ok)
        /\ pass' = Set(l, CASE ~ok -> RowFailed(d)
                            [] ok /\ wanted /\ Valid(d) -> [d EXCEPT !.pc = "upload"]
                            [] OTHER -> NextRow(d))
        /\ UNCHANGED <<doc, dbVars, memVars, announced, history>>

\* deleteChild takes a block out, and changes the document like every write.
Removed(q) == Changed /\ pass' = Outdated(q)

\* An empty preview block is added and the file uploaded into it.
UploadPreview(l, ok) ==
    LET d == pass[l] IN
    /\ d.pc = "upload" /\ Fault(~ok)
    /\ IF ok THEN Changed /\ pass' = Outdated(Set(l, [d EXCEPT !.pc = "confirm"]))
             ELSE Removed(Set(l, RowFailed(d)))
    /\ UNCHANGED <<doc, binding, video, delivery, announced, history>>

\* After the upload everything is looked at again.
ConfirmPreview(l, ok) ==
    LET d == [pass[l] EXCEPT !.late = {}] IN
    /\ d.pc = "confirm" /\ Fault(~ok)
    /\ IF ok /\ Valid(d)
       THEN pass' = Set(l, [d EXCEPT !.pc = "patch"]) /\ UNCHANGED <<scanState, discovery>>
       ELSE Removed(Set(l, IF ok THEN NextRow(d) ELSE RowFailed(d)))
    /\ UNCHANGED <<doc, binding, video, delivery, announced, history>>

\* The block gets its file.  After an error the block goes; it stays, with its file,
\* when the answer was lost and the block cannot be deleted either.
PatchPreview(l, outcome) ==
    LET d == pass[l] IN
    /\ d.pc = "patch" /\ Fault(outcome # "ok")
    /\ doc' = IF outcome = "failed" THEN doc ELSE [doc EXCEPT ![d.row].copies[d.v] = @ + 1]
    /\ Removed(Set(l, IF outcome = "ok" THEN NextRow(d) ELSE RowFailed(d)))
    /\ UNCHANGED <<binding, video, delivery, announced, history>>

\* Mutant: a delivery during the scan does not matter.
StoredAnyway(d) == IF d.failed \/ d.rev = "unknown" THEN "invalid" ELSE d.rev

\* The revision is stored unless something is still to be delivered.
Stored(d) == IF d.failed \/ d.moved \/ d.rev = "unknown" THEN "invalid" ELSE d.rev

Finish(l) ==
    LET d == pass[l] IN
    /\ d.pc = "row" /\ d.row \notin Rows
    /\ scanState' = IF d.mode = "deliver" THEN scanState ELSE Stored(d)
    /\ Return(l)
    /\ UNCHANGED <<doc, binding, video, announced, history, budget>>

-----------------------------------------------------------------------------
\* The process dies and starts again: what it was asked to deliver is forgotten.
Crash ==
    /\ Spend("crashes")
    /\ lost' = lost \cup announced \cup {v \in Videos : delivery[v].pc # "off"}
    /\ announced' = {}
    /\ discovery' = [work |-> NoWork, checked |-> FALSE, backoff |-> FALSE]
    /\ pass' = [l \in Lanes |-> Idle]
    /\ delivery' = [v \in Videos |-> [pc |-> "off", dirty |-> FALSE]]
    /\ excused' = excused \cup UNION {Unbound(pass[l]) : l \in Lanes}
    /\ UNCHANGED <<doc, dbVars, typed, created>>

Step(l) ==
    \/ Begin(l) \/ ClaimRow(l) \/ CreateVideo(l) \/ Finish(l)
    \/ \E o \in {"ok", "failed", "limited"} : ReadRevision(l, o)
    \/ \E o \in {"ok", "failed", "lost"} : WriteText(l, o) \/ PatchPreview(l, o)
    \/ \E ok \in BOOLEAN : \/ ListBlocks(l, ok) \/ SaveRow(l, ok) \/ Peek(l, ok)
                           \/ CheckPreview(l, ok) \/ UploadPreview(l, ok) \/ ConfirmPreview(l, ok)

Next ==
    \/ \E r \in Rows : EditText(r) \/ \E k \in Links \cup {None} : EditLink(r, k)
    \/ \E v \in Videos : \/ \E x \in Results : Obtain(v, x)
                         \/ Retry(v) \/ Announce(v) \/ StartDelivery(v)
                         \/ \E ok \in BOOLEAN : Connect(v, ok)
    \/ StartManual \/ Poll \/ Pump \/ BackoffEnds \/ Audit \/ Crash
    \/ \E l \in Lanes : Step(l)

Spec == Init /\ [][Next]_vars

\* The twenty-second timer polls and audits a document after five minutes, waits end,
\* requests come back, and the lock of the document is given in the order in which it
\* was asked for.
Fairness ==
    /\ \A l \in Lanes : WF_vars(Step(l))
    /\ WF_vars(Poll) /\ WF_vars(Pump) /\ WF_vars(BackoffEnds) /\ WF_vars(Audit)
    /\ \A v \in Videos : /\ WF_vars(Announce(v)) /\ WF_vars(Connect(v, TRUE))
                         /\ SF_vars(StartDelivery(v))

FairSpec == Spec /\ Fairness

-----------------------------------------------------------------------------
(* Properties.                                                             *)

\* The types of a row, of a video, of the discovery's work and of a pass.
DocRow     == [link : Links \cup {None}, text : Videos \cup {Person, None}, copies : [Videos -> Nat]]
VideoState == [status : {"none", "queued", "running"}, n : Nat, link : Links \cup {None},
               has : SUBSET Results]
WorkState  == [at : {"none", "queued", "running"}, seen : BOOLEAN, taken : BOOLEAN, again : BOOLEAN]
PassState  ==
    [pc : {"idle", "begin", "revision", "list", "row", "create", "save", "peek", "text", "check",
           "upload", "confirm", "patch"},
     mode : {"none", "discover", "deliver", "manual"}, only : Videos \cup {0}, row : Nat,
     snap : [Rows -> DocRow] \cup {<<>>}, rev : {"unknown", "current", "old"}, moved : BOOLEAN,
     failed : BOOLEAN, migrate : BOOLEAN, v : Videos \cup {0}, old : VideoState,
     has : SUBSET Results, late : SUBSET {"link", "text"}]

\* The variables have their types.
TypeOK ==
    /\ doc \in [Rows -> DocRow]
    /\ scanState \in {"none", "invalid", "old", "current"}
    /\ binding \in [Rows -> [v : Videos \cup {0}, link : Links \cup {None}]]
    /\ video \in [Videos -> VideoState]
    /\ discovery \in [work : WorkState, checked : BOOLEAN, backoff : BOOLEAN]
    /\ pass \in [Lanes -> PassState]
    /\ delivery \in [Videos -> [pc : {"off", "connect", "wait", "run"}, dirty : BOOLEAN]]
    /\ announced \subseteq Videos /\ lost \subseteq Videos /\ excused \subseteq Rows
    /\ typed \in [Rows -> [Links -> Nat]] /\ created \in [Rows -> SUBSET Videos]
    /\ \A l \in Lanes :
          pass[l].pc \in {"save", "peek", "text", "check", "upload", "confirm", "patch"} => pass[l].v # 0

\* A link that a person puts into a row once costs one task, whatever the passes and
\* the order of deliveries, scans and manual calls, unless a pass handles the row
\* after it was edited since its listing, or the row cannot get the task that was made
\* for it, which another row with that link may have taken (product-doc-sync.ts:371-423).
OneTaskPerLink ==
    \A r \in Rows \ excused, l \in Links :
        Cardinality({v \in created[r] : video[v].link = l}) <= typed[r][l]

\* A file is attached to a row once, whatever is tried again and whoever asks
\* (docx-file.ts:70, product-doc-sync.ts:298).
PreviewOnce == \A r \in Rows, v \in Videos : doc[r].copies[v] <= 1

\* Neither a paid task nor an attachment is made a second time.
NothingTwice == OneTaskPerLink /\ PreviewOnce

\* What is written stands beside the video's own link, and text only in a cell
\* without text: whatever a person did before the last look at the row is respected
\* (product-doc-sync.ts:225-248, 459-472).
Beside(l) ==
    LET d == pass[l] IN doc[d.row].link = video[d.v].link \/ "link" \in d.late

WritesRespectRow ==
    [][\A l \in Lanes :
          /\ pass[l].pc = "text" /\ doc' # doc /\ pass'[l].pc = "check"
             => Beside(l) /\ (doc[pass[l].row].text = None \/ "text" \in pass[l].late)
          /\ pass[l].pc = "patch" /\ doc' # doc /\ pass'[l].pc # "patch" => Beside(l)]_vars

\* Every link gets its task, and what a bound video has obtained reaches its row,
\* whatever failed on the way, once people let the row alone, unless a request for
\* the delivery was dropped (product-doc-sync.ts:543-546, 582-596,
\* product-doc-discovery.ts:30-56).  A pass that listed the row before its link was
\* typed may take the task from the row again.
Undelivered(r, v) ==
    /\ binding[r].v = v /\ doc[r].link = video[v].link /\ video[v].status = "running"
    /\ \/ "file" \in video[v].has /\ doc[r].copies[v] = 0
       \/ "translation" \in video[v].has /\ doc[r].text = None

HasTask(r) ==
    \/ binding[r].link = doc[r].link
    \/ r \in excused /\ \E v \in created[r] : video[v].link = doc[r].link

ResultsArrive ==
    []<>(\A r \in Rows :
            /\ doc[r].link # None => HasTask(r)
            /\ \A v \in Videos : Undelivered(r, v) => v \in lost)

\* No request is dropped: "Invalidate before external calls so a failed immediate
\* delivery gets a polling retry" (product-doc-sync.ts:320-321).
NothingIsLost == []<>(\A r \in Rows, v \in Videos : ~Undelivered(r, v))
=============================================================================
