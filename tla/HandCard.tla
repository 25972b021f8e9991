------------------------------- MODULE HandCard -------------------------------
(***************************************************************************)
(* Hand cards: handleFeishuAutomation (lib/feishu/automation.ts) with the  *)
(* documents it finds, copies and fills (lib/feishu/document.ts) and the   *)
(* products, card mappings and videos it writes (lib/database.ts), beside  *)
(* findOrCreateProduct of the video tasks (lib/feishu/product-lookup.ts),  *)
(* the writers of lib/products/backfill.ts and the migration of documents  *)
(* (app/api/feishu/product-document-migration).                            *)
(*                                                                         *)
(* Actors are clicks, which the inbox hands to one process after another   *)
(* while its session lives, video tasks, repairs of one card and           *)
(* migrations.  A document has two lines that matter: the PID in its text, *)
(* and one of the six product facts, which stands for all of them.         *)
(***************************************************************************)
EXTENDS Integers, FiniteSets, Sequences

CONSTANTS
    Processes,
    Clicks,    \* hand card tasks accepted by the inbox
    Lookups,   \* video tasks that look up the product of their row
    Repairs,   \* calls of backfillProductCard and refreshProductCard
    Moves,     \* confirmed calls of the migration route
    Rows, Pids, Documents,
    Notes,     \* facts that people have written
    Budgets,   \* what each scenario starts with, and how often something may happen
    None

Actors == Clicks \cup Lookups \cup Repairs \cup Moves

Scenario == [actors : SUBSET Actors, rows : [Rows -> Pids \cup {None}], legacy : Pids \cup {None},
             catalog : SUBSET {"facts", "pending"}, videos : BOOLEAN, at : SUBSET Processes,
             edits : Nat, notes : Nat, trash : Nat, faults : Nat, crashes : Nat, cuts : Nat]

ASSUME CardConstants ==
    /\ None \notin Pids \cup Documents \cup Rows \cup Processes
    /\ Clicks \cap (Lookups \cup Repairs \cup Moves) = {} /\ Lookups \cap (Repairs \cup Moves) = {}
    /\ Repairs \cap Moves = {} /\ Documents # {}
    /\ Notes \cap {"blank", "pending", "facts"} = {}
    /\ Budgets \subseteq Scenario

VARIABLES
    row,      \* the Base rows: PID, card link, card status, video status
    doc,      \* the documents: PID of the title, the two lines, folder, owner
    product,  \* the rows of products, in the order of their creation
    mapping,  \* feishu_product_card_mappings
    video,    \* the video a click has created, and whether it has a delivery job
    actor,    \* every actor: its program counter and what it has read
    held,     \* locks taken in each process
    session,  \* the process whose session holds the inbox lock of hand cards
    copied,   \* documents copied from the template (history)
    cut,      \* how many sessions of the inbox have been cut (history)
    budget    \* what is left of the bounds

tables == <<product, mapping, video>>
vars   == <<row, doc, tables, actor, held, session, copied, cut, budget>>

Facts   == Notes \cup {"blank", "pending", "facts"}
Missing == {"blank", "pending"}      \* isMissingCatalogText
Cells   == {"link", "card", "video"}
NoDoc   == [pid |-> None, id |-> None, text |-> "blank", place |-> "none", owner |-> "app"]
NoLines == [id |-> None, text |-> "blank"]
NoProduct == [pid |-> None, doc |-> None]

Fresh(S) == CHOOSE d \in S : TRUE

\* pre: the lines as a call first read them.  base: the line as it was listed.  blind:
\* somebody has changed it since it was last looked at (history).  moved: the row has got
\* another PID since the last step (history).
Idle == [pc |-> "idle", proc |-> None, row |-> None, pid |-> None, doc |-> None, refresh |-> FALSE,
         pre |-> NoLines, stage |-> "none", label |-> "id", value |-> None, base |-> None,
         then |-> "none", todo |-> {}, pending |-> {}, failed |-> {}, card |-> "", final |-> "", error |-> FALSE,
         tries |-> 0, docs |-> {}, ok |-> {}, found |-> 0, copy |-> NoProduct, blind |-> FALSE,
         moved |-> FALSE,
         outcome |-> "none"]

Init ==
    /\ budget \in Budgets
    /\ row = [r \in Rows |-> [pid |-> budget.rows[r], link |-> None, card |-> "", video |-> ""]]
    /\ doc = [d \in Documents |-> IF budget.legacy # None /\ d = Fresh(Documents)
                 THEN [NoDoc EXCEPT !.pid = budget.legacy, !.id = budget.legacy, !.place = "elsewhere"]
                 ELSE NoDoc]
    /\ product = IF budget.legacy = None THEN <<>>
                 ELSE <<[pid |-> budget.legacy, doc |-> Fresh(Documents)]>>
    /\ mapping = [r \in Rows |-> [product |-> 0, doc |-> None]]
    /\ video = [c \in Clicks |-> "none"]
    /\ actor = [a \in Actors |-> Idle]
    /\ held = {} /\ session = None /\ copied = {} /\ cut = 0

Spend(what) == budget[what] > 0 /\ budget' = [budget EXCEPT ![what] = @ - 1]
Fault(bad)  == IF bad THEN Spend("faults") ELSE UNCHANGED budget

Set(a, x) == actor' = [actor EXCEPT ![a] = [x EXCEPT !.moved = FALSE]]
Go(a, pc) == Set(a, [actor[a] EXCEPT !.pc = pc])

\* A chain of promises for each key: whoever waits comes in when the key is free.
Lock(a, key)    == <<actor[a].proc, key>> \notin held /\ held' = held \cup {<<actor[a].proc, key>>}
Release(a, key) == held' = held \ {<<actor[a].proc, key>>}
Busy(a) == actor[a].pc \notin {"idle", "waiting", "done"}

-----------------------------------------------------------------------------
(* People, and Feishu.                                                     *)

\* Another PID in a row.
EditPid(r, p) ==
    /\ Spend("edits") /\ row[r].pid # p
    /\ row' = [row EXCEPT ![r].pid = p]
    /\ actor' = [a \in Actors |-> [actor[a] EXCEPT !.moved = @ \/ actor[a].row = r]]
    /\ UNCHANGED <<doc, tables, held, session, copied, cut>>

\* Other facts in a document.
EditFacts(d, t) ==
    /\ Spend("notes") /\ doc[d].place \in {"folder", "elsewhere"} /\ doc[d].text # t
    /\ doc' = [doc EXCEPT ![d].text = t]
    /\ actor' = [a \in Actors |-> [actor[a] EXCEPT !.blind = @ \/ actor[a].doc = d]]
    /\ UNCHANGED <<row, tables, held, session, copied, cut>>

TrashCard(d) ==
    /\ Spend("trash") /\ doc[d].place = "folder"
    /\ doc' = [doc EXCEPT ![d].place = "trash"]
    /\ UNCHANGED <<row, tables, actor, held, session, copied, cut>>

\* A move or a transfer that was accepted takes place later.
TakesEffect(d) ==
    /\ \/ doc[d].place = "moving" /\ doc' = [doc EXCEPT ![d].place = "folder"]
       \/ doc[d].owner = "changing" /\ doc' = [doc EXCEPT ![d].owner = "team"]
    /\ UNCHANGED <<row, tables, actor, held, session, copied, cut, budget>>

-----------------------------------------------------------------------------
(* The inbox: a click keeps the PID of its row, and one handler runs at a  *)
(* time as long as the session of the pass lives.                          *)

Accept(c, r) ==
    /\ c \in budget.actors /\ actor[c].pc = "idle" /\ row[r].pid # None
    /\ Set(c, [Idle EXCEPT !.pc = "waiting", !.row = r, !.pid = row[r].pid])
    /\ UNCHANGED <<row, doc, tables, held, session, copied, cut, budget>>

RowKey(a) == <<"row", actor[a].row>>
PidKey(a) == <<"card", actor[a].pid>>
Keys(a) == {RowKey(a), PidKey(a), <<"product", actor[a].pid>>}

\* withProductCardRecordLock, and the first look at the row.
StartCard(c, p) ==
    /\ actor[c].pc = "waiting" /\ session = None
    /\ \A a \in Clicks : Busy(a) => actor[a].proc # p
    /\ session' = p
    /\ held' = held \cup {<<p, RowKey(c)>>}
    /\ Set(c, [actor[c] EXCEPT !.pc = "check", !.then = "name", !.proc = p])
    /\ UNCHANGED <<row, doc, tables, copied, cut, budget>>

\* The session is cut: the pass goes on without its lock.
CutSession ==
    /\ Spend("cuts") /\ session # None /\ session' = None /\ cut' = cut + 1
    /\ UNCHANGED <<row, doc, tables, actor, held, copied>>

\* The handler has returned or thrown, finish() has recorded the outcome, and the
\* pass is over.
End(c, outcome) ==
    /\ Set(c, [actor[c] EXCEPT !.pc = "done", !.outcome = outcome])
    /\ held' = held \ ({actor[c].proc} \X Keys(c))
    /\ session' = IF session = actor[c].proc THEN None ELSE session

-----------------------------------------------------------------------------
(* handleFeishuAutomation.                                                 *)

\* The try block is left for its catch clause.
Caught(x) == [x EXCEPT !.pc = "check", !.then = "latest", !.stage = "placeholder",
                       !.error = TRUE, !.final = "incomplete"]

\* A flush sends the link first, then the status of the card, then that of the video.
First(todo) == IF "link" \in todo THEN "link" ELSE IF "card" \in todo THEN "card" ELSE "video"

CellFailed(x) == [x EXCEPT !.pc = "flush", !.failed = @ \cup {First(x.todo)}, !.todo = @ \ {First(x.todo)}]

\* assertCurrentPid: the row is read again, and a handler whose PID is no longer there
\* stops.  Where a failing read leads depends on the try block around it.
CheckPid(c, ok) ==
    LET x == actor[c] IN
    /\ x.pc = "check" /\ Fault(~ok)
    /\ IF ok /\ row[x.row].pid = x.pid
          THEN Set(c, [x EXCEPT !.pc = x.then]) /\ UNCHANGED <<held, session>>
       ELSE IF ok \/ (x.then # "put" /\ x.stage \notin {"fill", "placeholder"}) THEN End(c, "failed")
       ELSE /\ Set(c, CASE x.then = "put"       -> CellFailed(x)
                        [] x.then = "latest"    -> [x EXCEPT !.pc = "product"]
                        [] OTHER                -> Caught(x))
            /\ UNCHANGED <<held, session>>
    /\ UNCHANGED <<row, doc, tables, copied, cut>>

\* Without a name in the row the catalog is asked for it.
NameCard(c, how) ==
    /\ actor[c].pc = "name" /\ Fault(how = "failed")
    /\ CASE how = "given"     -> Go(c, "find") /\ UNCHANGED <<held, session>>
         [] how = "looked up" -> Set(c, [actor[c] EXCEPT !.pc = "check", !.then = "find"])
                                 /\ UNCHANGED <<held, session>>
         [] OTHER             -> End(c, "failed")
    /\ UNCHANGED <<row, doc, tables, copied, cut>>

Cards(p) == {d \in Documents : doc[d].place = "folder" /\ doc[d].pid = p}

\* Mutant: the card is looked up by the mapping of the row.
FindByMapping(c, ok) ==
    LET x == actor[c] IN
    /\ x.pc = "find" /\ ok
    /\ Lock(c, PidKey(c))
    /\ Set(c, IF mapping[x.row].doc = None THEN [x EXCEPT !.pc = "copy"]
              ELSE [x EXCEPT !.pc = "title", !.doc = mapping[x.row].doc])
    /\ UNCHANGED <<row, doc, tables, session, copied, cut, budget>>

\* ensureProductCardByPid, under the lock of the PID: any of several cards may be the one
\* edited last.  A listing that stops half-way is an error.
FindCard(c, ok) ==
    LET x == actor[c] IN
    /\ x.pc = "find" /\ <<x.proc, PidKey(c)>> \notin held /\ Fault(~ok)
    /\ IF ~ok THEN End(c, "failed")
       ELSE /\ Lock(c, PidKey(c)) /\ UNCHANGED session
            /\ \/ Cards(x.pid) = {} /\ Go(c, "copy")
               \/ \E d \in Cards(x.pid) : Set(c, [x EXCEPT !.pc = "title", !.doc = d])
    /\ UNCHANGED <<row, doc, tables, copied, cut>>

\* The answer of a copy that was made may be lost.
CopyTemplate(c, outcome) ==
    LET x == actor[c]
        unused == {d \in Documents : doc[d].place = "none"}
        d == Fresh(unused)
    IN
    /\ x.pc = "copy" /\ unused # {} /\ Fault(outcome # "ok")
    /\ IF outcome = "failed" THEN UNCHANGED <<doc, copied>>
       ELSE /\ doc' = [doc EXCEPT ![d] = [NoDoc EXCEPT !.pid = x.pid, !.place = "folder"]]
            /\ copied' = copied \cup {d}
    /\ IF outcome = "ok" THEN Set(c, [x EXCEPT !.pc = "rename", !.doc = d]) /\ UNCHANGED <<held, session>>
                         ELSE End(c, "failed")
    /\ UNCHANGED <<row, tables, cut>>

\* A trashed document answers every call with an error.
Readable(d) == doc[d].place \notin {"none", "trash"}
Answers(a, ok) == IF Readable(actor[a].doc) THEN Fault(~ok) ELSE ~ok /\ UNCHANGED budget

\* A copy is renamed, and a card that was found if its title differs; a card that cannot be
\* opened to the company is only warned of.
TitleCard(c, ok) ==
    /\ actor[c].pc \in {"title", "rename"}
    /\ IF ok /\ actor[c].pc = "title" THEN UNCHANGED budget ELSE Answers(c, ok)
    /\ IF ok THEN Go(c, "owner") /\ UNCHANGED <<held, session>> ELSE End(c, "failed")
    /\ UNCHANGED <<row, doc, tables, copied, cut>>

\* queuePatch and the snapshot of flushPatch.
Flush(x, cells) == [x EXCEPT !.pc = "flush", !.pending = @ \cup cells, !.todo = x.pending \cup cells]

\* The link is delivered before anything slow or paid.
Deliver(x) == Flush([x EXCEPT !.stage = "early", !.card = "working"], {"link", "card"})

\* Mutant: the row is looked at once, before the first cell.
FlushUnchecked(c) ==
    /\ actor[c].pc = "flush" /\ actor[c].todo # {}
    /\ Go(c, "put")
    /\ UNCHANGED <<row, doc, tables, held, session, copied, cut, budget>>

FlushNext(c) ==
    /\ actor[c].pc = "flush" /\ actor[c].todo # {}
    /\ Set(c, [actor[c] EXCEPT !.pc = "check", !.then = "put"])
    /\ UNCHANGED <<row, doc, tables, held, session, copied, cut, budget>>

\* patchBaseRecord of one cell; the answer of a write that took place may be lost.
PutCell(c, outcome) ==
    LET x == actor[c]
        k == First(x.todo)
        v == CASE k = "link" -> x.doc [] k = "card" -> x.card [] k = "video" -> "queued"
    IN  /\ x.pc = "put" /\ Fault(outcome # "ok")
        /\ row' = IF outcome = "failed" THEN row ELSE [row EXCEPT ![x.row][k] = v]
        /\ Set(c, IF outcome # "ok" THEN CellFailed(x)
                  ELSE [x EXCEPT !.pc = "flush", !.todo = @ \ {k}, !.pending = @ \ {k}, !.failed = @ \ {k}])
        /\ UNCHANGED <<doc, tables, held, session, copied, cut>>

Lines(d) == [id |-> doc[d].id, text |-> doc[d].text]
CardKey(a) == <<"managed", actor[a].doc>>

\* A listing waits for the lock of the document, and is lost or answered.
Listing(a, ok) == <<actor[a].proc, CardKey(a)>> \notin held /\ Answers(a, ok)

Sync(x, stage, label, value) ==
    [x EXCEPT !.pc = "read", !.stage = stage, !.label = label, !.value = value]

\* The first reading of the card, and the PID of its text: a template that is not as
\* expected and a card of another product end the try block.
Preflight(c, ok) ==
    LET x == actor[c]
        l == Lines(x.doc)
    IN  /\ x.pc = "preflight" /\ Listing(c, ok)
        /\ Set(c, IF ok /\ l.id \in {None, x.pid}
                  THEN Sync([x EXCEPT !.pre = l], "identity", "id", x.pid) ELSE Caught(x))
        /\ UNCHANGED <<row, doc, tables, held, session, copied, cut>>

\* The lines read last decide on the status.
Accepted(x, l) ==
    IF l.id # x.pid THEN Caught(x)
    ELSE [x EXCEPT !.pc = "product", !.error = l.text \in Missing,
                   !.final = IF l.text \in Missing THEN "incomplete" ELSE "complete"]

\* getProductCatalog, which may be paid, only for facts that are missing.
AskCatalog(c, v) ==
    LET x == actor[c] IN
    /\ x.pc = "ask" /\ v \in budget.catalog \cup {"failed"} /\ Fault(v = "failed")
    /\ Set(c, IF v = "failed" THEN Caught(x)
              ELSE [Sync(x, "fill", "text", v) EXCEPT !.pc = "check", !.then = "read"])
    /\ UNCHANGED <<row, doc, tables, held, session, copied, cut>>

VerifyCard(c, ok) ==
    /\ actor[c].pc = "verify" /\ Listing(c, ok)
    /\ Set(c, IF ok THEN Accepted(actor[c], Lines(actor[c].doc)) ELSE Caught(actor[c]))
    /\ UNCHANGED <<row, doc, tables, held, session, copied, cut>>

\* The catch clause marks the facts that are missing in a card of this product.
ReadLatest(c, ok) ==
    LET x == actor[c] IN
    /\ x.pc = "latest" /\ Listing(c, ok)
    /\ Set(c, IF ok /\ doc[x.doc].id = x.pid
              THEN Sync([x EXCEPT !.pre = Lines(x.doc)], "placeholder", "text", "pending")
              ELSE [x EXCEPT !.pc = "product"])
    /\ UNCHANGED <<row, doc, tables, held, session, copied, cut>>

OfPid(p) == {k \in DOMAIN product : product[k].pid = p}

\* The product is looked up and written under the lock of the PID.
FindProduct(c, ok) ==
    LET x == actor[c] IN
    /\ x.pc = "product" /\ <<x.proc, <<"product", x.pid>>>> \notin held /\ Fault(~ok)
    /\ IF ~ok THEN End(c, "failed")
       ELSE /\ Lock(c, <<"product", x.pid>>) /\ UNCHANGED session
            /\ \/ OfPid(x.pid) = {} /\ Set(c, [x EXCEPT !.pc = "save", !.found = 0])
               \/ \E k \in OfPid(x.pid) : Set(c, [x EXCEPT !.pc = "save", !.found = k])
    /\ UNCHANGED <<row, doc, tables, copied, cut>>

\* Mutant: the id of a product that was created is not kept.
SaveAnonymously(c, ok) ==
    LET x == actor[c] IN
    /\ x.pc = "save" /\ ok
    /\ product' = IF x.found = 0 THEN Append(product, [pid |-> x.pid, doc |-> x.doc])
                                 ELSE [product EXCEPT ![x.found] = [pid |-> x.pid, doc |-> x.doc]]
    /\ Set(c, [x EXCEPT !.pc = "check", !.then = "map", !.stage = "map"])
    /\ Release(c, <<"product", x.pid>>)
    /\ UNCHANGED <<row, doc, mapping, video, session, copied, cut, budget>>

SaveProduct(c, ok) ==
    LET x == actor[c]
        new == x.found = 0
    IN  /\ x.pc = "save" /\ Fault(~ok)
        /\ product' = CASE ~ok -> product
                        [] ok /\ new -> Append(product, [pid |-> x.pid, doc |-> x.doc])
                        [] OTHER -> [product EXCEPT ![x.found] = [pid |-> x.pid, doc |-> x.doc]]
        /\ IF ~ok THEN End(c, "failed")
           ELSE /\ Set(c, [x EXCEPT !.pc = "check", !.then = "map", !.stage = "map",
                                    !.found = IF new THEN Len(product') ELSE @])
                /\ Release(c, <<"product", x.pid>>) /\ UNCHANGED session
        /\ UNCHANGED <<row, doc, mapping, video, copied, cut>>

\* upsertFeishuProductCardMapping; the cells that failed get another attempt.
MapCard(c, ok) ==
    LET x == actor[c] IN
    /\ x.pc = "map" /\ Fault(~ok)
    /\ mapping' = IF ok THEN [mapping EXCEPT ![x.row] = [product |-> x.found, doc |-> x.doc]] ELSE mapping
    /\ IF ok THEN Set(c, Flush([x EXCEPT !.stage = "again"], {})) /\ UNCHANGED <<held, session>>
             ELSE End(c, "failed")
    /\ UNCHANGED <<row, doc, product, video, copied, cut>>

\* Mutant: the status does not depend on the link.
DecideBlindly(x) == [x EXCEPT !.card = x.final]

\* The status that is published depends on what became of the link.
Decide(x) == [x EXCEPT !.card = IF "link" \in x.failed THEN "no link" ELSE x.final]

\* The end of a flush.
Flushed(c) ==
    LET x == actor[c] IN
    /\ x.pc = "flush" /\ x.todo = {}
    /\ IF x.stage = "last"
       THEN End(c, IF x.error \/ x.failed # {} THEN "partial" ELSE "completed")
       ELSE /\ Set(c, CASE x.stage = "early" -> [x EXCEPT !.pc = "preflight"]
                        [] x.stage # "early" /\ budget.videos -> [Decide(x) EXCEPT !.pc = "video"]
                        [] OTHER -> Flush([Decide(x) EXCEPT !.stage = "last"], {"card"}))
            /\ UNCHANGED <<held, session>>
    /\ UNCHANGED <<row, doc, tables, copied, cut, budget>>

\* A row whose button also sends a video link: the video and its delivery job are
\* statements of their own.
CreateCardVideo(c, ok) ==
    /\ actor[c].pc = "video" /\ Fault(~ok)
    /\ IF ok THEN /\ video' = [video EXCEPT ![c] = IF @ = "none" THEN "created" ELSE "owned"]
                  /\ Set(c, IF video[c] = "none" THEN actor[c]
                            ELSE Flush([actor[c] EXCEPT !.stage = "last"], {"card", "video"}))
                  /\ UNCHANGED <<held, session>>
       ELSE End(c, "failed") /\ UNCHANGED video
    /\ UNCHANGED <<row, doc, product, mapping, copied, cut>>

-----------------------------------------------------------------------------
(* syncProductCardManagedFields: one line of a card, under the lock of the *)
(* document.  It is written if it still is what the call was told to       *)
(* expect, after another look; Feishu writes whatever is there by then.    *)

Line(a) == doc[actor[a].doc][actor[a].label]

\* Where a call of a click or of a repair leads, when it returns or throws.
Synced(x) ==
    CASE x.stage = "identity" /\ x.pre.text \notin Missing -> Accepted(x, x.pre)
      [] x.stage = "identity" /\ x.pre.text \in Missing -> [x EXCEPT !.pc = "check", !.then = "ask", !.stage = "fill"]
      [] x.stage = "fill"        -> [x EXCEPT !.pc = "verify"]
      [] x.stage = "placeholder" -> [x EXCEPT !.pc = "product"]
      [] x.stage = "repair"      -> [x EXCEPT !.pc = "done"]

SyncFailed(x) ==
    CASE x.stage \in {"identity", "fill"} -> Caught(x)
      [] x.stage = "placeholder"          -> [x EXCEPT !.pc = "product"]
      [] x.stage = "repair"               -> [x EXCEPT !.pc = "done"]

\* Only an explicit refresh replaces a fact, and nothing is replaced by a placeholder.
Wanted(x, line) ==
    /\ line = x.pre[x.label] /\ line # x.value
    /\ x.label = "text" /\ line \notin Missing => x.refresh /\ x.value \notin Missing

ReadLine(a, ok) ==
    LET x == actor[a] IN
    /\ x.pc = "read" /\ Listing(a, ok)
    /\ IF ok /\ Wanted(x, Line(a))
       THEN Set(a, [x EXCEPT !.pc = "look", !.base = Line(a)]) /\ Lock(a, CardKey(a))
       ELSE Set(a, IF ok THEN Synced(x) ELSE SyncFailed(x)) /\ UNCHANGED held
    /\ UNCHANGED <<row, doc, tables, session, copied, cut>>

\* Mutant: the listing decides.
LookOnce(a, ok) ==
    /\ actor[a].pc = "look" /\ ok /\ Readable(actor[a].doc)
    /\ Set(a, [actor[a] EXCEPT !.pc = "write", !.blind = FALSE])
    /\ UNCHANGED <<row, doc, tables, held, session, copied, cut, budget>>

LookAgain(a, ok) ==
    LET x == actor[a] IN
    /\ x.pc = "look" /\ Answers(a, ok)
    /\ IF ok /\ Line(a) = x.base
       THEN Set(a, [x EXCEPT !.pc = "write", !.blind = FALSE]) /\ UNCHANGED held
       ELSE Set(a, IF ok THEN Synced(x) ELSE SyncFailed(x)) /\ Release(a, CardKey(a))
    /\ UNCHANGED <<row, doc, tables, session, copied, cut>>

\* Mutant: the lock is kept when the call throws.
WriteKeepingLock(a, outcome) ==
    LET x == actor[a] IN
    /\ x.pc = "write" /\ Fault(outcome # "ok") /\ Readable(x.doc)
    /\ doc' = IF outcome = "failed" THEN doc ELSE [doc EXCEPT ![x.doc][x.label] = x.value]
    /\ Set(a, IF outcome = "ok" THEN Synced(x) ELSE SyncFailed(x))
    /\ IF outcome = "ok" THEN Release(a, CardKey(a)) ELSE UNCHANGED held
    /\ UNCHANGED <<row, tables, session, copied, cut>>

WriteLine(a, outcome) ==
    LET x == actor[a] IN
    /\ x.pc = "write"
    /\ IF Readable(x.doc) THEN Fault(outcome # "ok") ELSE outcome = "failed" /\ UNCHANGED budget
    /\ doc' = IF outcome = "failed" THEN doc ELSE [doc EXCEPT ![x.doc][x.label] = x.value]
    /\ Set(a, IF outcome = "ok" THEN Synced(x) ELSE SyncFailed(x))
    /\ Release(a, CardKey(a))
    /\ UNCHANGED <<row, tables, session, copied, cut>>

-----------------------------------------------------------------------------
(* writeProductCard: the repair of missing facts, or an explicit refresh.  *)

StartRepair(b, p, refresh, k) ==
    /\ b \in budget.actors /\ actor[b].pc = "idle" /\ product[k].doc # None /\ product[k].pid # None
    /\ Set(b, [Idle EXCEPT !.pc = "first", !.proc = p, !.refresh = refresh,
                           !.pid = product[k].pid, !.doc = product[k].doc, !.stage = "repair"])
    /\ UNCHANGED <<row, doc, tables, held, session, copied, cut, budget>>

\* A card without the PID is left alone, and so is one that lacks nothing.
RepairPreflight(b, ok) ==
    LET x == actor[b]
        l == Lines(x.doc)
        begins == ok /\ l.id = x.pid /\ (x.refresh \/ l.text \in Missing)
    IN  /\ x.pc = "first" /\ Listing(b, ok)
        /\ Set(b, [x EXCEPT !.pc = IF begins THEN "facts" ELSE "done", !.pre = l])
        /\ UNCHANGED <<row, doc, tables, held, session, copied, cut>>

\* A refresh uses what the cache has; a repair goes on with the placeholder.
RepairFacts(b, v) ==
    LET x == actor[b]
        known == IF v = "failed" THEN "pending" ELSE v
        stops == (x.refresh /\ v = "failed") \/ (known = "pending" /\ x.pre.text \notin Missing)
    IN  /\ x.pc = "facts" /\ v \in budget.catalog \cup {"failed"} /\ Fault(v = "failed")
        /\ Set(b, IF stops THEN [x EXCEPT !.pc = "done"] ELSE Sync(x, "repair", "text", known))
        /\ UNCHANGED <<row, doc, tables, held, session, copied, cut>>

-----------------------------------------------------------------------------
(* findOrCreateProduct for the video task of a row: the table is listed,   *)
(* and then a product is created, or completed with the PID: updateProduct *)
(* reads the row and writes all its columns.                               *)

StartLookup(l, r) ==
    /\ l \in budget.actors /\ actor[l].pc = "idle"
    /\ Set(l, [Idle EXCEPT !.pc = "list", !.pid = row[r].pid])
    /\ UNCHANGED <<row, doc, tables, held, session, copied, cut, budget>>

\* Some product has the name of the row; one with another PID does not count.
ListProducts(l, named) ==
    LET p == actor[l].pid
        found == IF p # None /\ OfPid(p) # {} THEN OfPid(p)
                 ELSE named \cap {k \in DOMAIN product : p = None \/ product[k].pid \in {None, p}}
    IN  /\ actor[l].pc = "list"
        /\ \/ found = {} /\ Set(l, [actor[l] EXCEPT !.pc = "create"])
           \/ \E k \in found : Set(l, [actor[l] EXCEPT !.found = k,
                 !.pc = IF p # None /\ product[k].pid = None THEN "reread" ELSE "done"])
        /\ UNCHANGED <<row, doc, tables, held, session, copied, cut, budget>>

RereadProduct(l) ==
    /\ actor[l].pc = "reread"
    /\ Set(l, [actor[l] EXCEPT !.pc = "create", !.copy = product[actor[l].found]])
    /\ UNCHANGED <<row, doc, tables, held, session, copied, cut, budget>>

StoreProduct(l) ==
    LET x == actor[l] IN
    /\ x.pc = "create"
    /\ product' = IF x.found = 0 THEN Append(product, [pid |-> x.pid, doc |-> None])
                  ELSE [product EXCEPT ![x.found] = [x.copy EXCEPT !.pid = x.pid]]
    /\ Go(l, "done")
    /\ UNCHANGED <<row, doc, mapping, video, held, session, copied, cut, budget>>

-----------------------------------------------------------------------------
(* The migration of documents, one at a time in a process, and the owner   *)
(* of a document, which a hand card looks after as well.                   *)

\* The folder is validated before the first document.
StartMigration(m, p) ==
    /\ m \in budget.actors /\ actor[m].pc = "idle" /\ <<p, <<"migration", None>>>> \notin held
    /\ held' = held \cup {<<p, <<"migration", None>>>>}
    /\ Set(m, [Idle EXCEPT !.pc = "next", !.proc = p,
                  !.docs = {product[k].doc : k \in DOMAIN product} \ {None}])
    /\ UNCHANGED <<row, doc, tables, session, copied, cut, budget>>

NextDocument(m) ==
    LET x == actor[m] IN
    /\ x.pc = "next"
    /\ IF x.docs = {} THEN Go(m, "done") /\ Release(m, <<"migration", None>>)
       ELSE /\ \E d \in x.docs : Set(m, [x EXCEPT !.pc = "locate", !.doc = d, !.docs = @ \ {d}])
            /\ UNCHANGED held
    /\ UNCHANGED <<row, doc, tables, session, copied, cut, budget>>

\* A document that fails does not keep the others from being moved.
Moved(x, ok) == [x EXCEPT !.pc = "next", !.ok = IF ok THEN @ \cup {x.doc} ELSE @]

LocateDocument(m, ok) ==
    LET x == actor[m] IN
    /\ x.pc = "locate" /\ Fault(~ok)
    /\ Set(m, IF ~ok THEN Moved(x, FALSE)
              ELSE [x EXCEPT !.pc = IF doc[x.doc].place = "folder" THEN "owner" ELSE "move"])
    /\ UNCHANGED <<row, doc, tables, held, session, copied, cut>>

\* Mutant: the answer of the move is enough.
MoveUnverified(m, outcome) ==
    LET x == actor[m] IN
    /\ x.pc = "move" /\ outcome = "ok" /\ doc[x.doc].place = "elsewhere"
    /\ doc' = [doc EXCEPT ![x.doc].place = "moving"]
    /\ Go(m, "owner")
    /\ UNCHANGED <<row, tables, held, session, copied, cut, budget>>

MoveDocument(m, outcome) ==
    LET x == actor[m] IN
    /\ x.pc = "move" /\ Answers(m, outcome = "ok")
    /\ doc' = IF outcome = "failed" \/ doc[x.doc].place # "elsewhere" THEN doc
              ELSE [doc EXCEPT ![x.doc].place = "moving"]
    /\ Set(m, IF outcome = "ok" THEN [x EXCEPT !.pc = "arrive", !.tries = 1] ELSE Moved(x, FALSE))
    /\ UNCHANGED <<row, tables, held, session, copied, cut>>

\* Three looks at the folder.
ConfirmMove(m, ok) ==
    LET x == actor[m] IN
    /\ x.pc = "arrive" /\ Fault(~ok)
    /\ Set(m, CASE ok /\ doc[x.doc].place = "folder" -> [x EXCEPT !.pc = "owner"]
                [] ok /\ doc[x.doc].place # "folder" /\ x.tries < 3 -> [x EXCEPT !.tries = @ + 1]
                [] OTHER -> Moved(x, FALSE))
    /\ UNCHANGED <<row, doc, tables, held, session, copied, cut>>

\* ensureProductDocumentOwner returns or throws: to the migration, or to the hand card,
\* which only warns, and gives up the lock of the PID.
Owned(a, ok) ==
    IF a \in Moves THEN Set(a, Moved(actor[a], ok)) /\ UNCHANGED held
                   ELSE Set(a, Deliver(actor[a])) /\ Release(a, PidKey(a))

ReadOwner(a, ok) ==
    /\ actor[a].pc = "owner" /\ Answers(a, ok)
    /\ IF ok /\ doc[actor[a].doc].owner # "team" THEN Go(a, "transfer") /\ UNCHANGED held
                                                 ELSE Owned(a, ok)
    /\ UNCHANGED <<row, doc, tables, session, copied, cut>>

TransferOwner(a, outcome) ==
    LET x == actor[a] IN
    /\ x.pc = "transfer" /\ Answers(a, outcome = "ok")
    /\ doc' = IF outcome = "failed" \/ doc[x.doc].owner = "team" THEN doc
              ELSE [doc EXCEPT ![x.doc].owner = "changing"]
    /\ IF outcome = "ok" THEN Set(a, [x EXCEPT !.pc = "confirm", !.tries = 1]) /\ UNCHANGED held
                         ELSE Owned(a, FALSE)
    /\ UNCHANGED <<row, tables, session, copied, cut>>

ConfirmOwner(a, ok) ==
    LET x == actor[a]
        done == doc[x.doc].owner = "team"
    IN  /\ x.pc = "confirm" /\ Answers(a, ok)
        /\ IF ok /\ ~done /\ x.tries < 3
           THEN Set(a, [x EXCEPT !.tries = @ + 1]) /\ UNCHANGED held
           ELSE Owned(a, ok /\ done)
        /\ UNCHANGED <<row, doc, tables, session, copied, cut>>

-----------------------------------------------------------------------------
\* A process dies with its locks; a hand card it was at is paused by the next pass.
Crash(p) ==
    /\ Spend("crashes")
    /\ actor' = [a \in Actors |-> IF Busy(a) /\ actor[a].proc = p
                    THEN [actor[a] EXCEPT !.pc = "done", !.outcome = "paused"] ELSE actor[a]]
    /\ held' = {h \in held : h[1] # p}
    /\ session' = IF session = p THEN None ELSE session
    /\ UNCHANGED <<row, doc, tables, copied, cut>>

Answer == {"ok", "failed", "lost"}

CardStep(c) ==
    \/ FlushNext(c) \/ Flushed(c)
    \/ \E how \in {"given", "looked up", "failed"} : NameCard(c, how)
    \/ \E v \in {"facts", "pending", "failed"} : AskCatalog(c, v)
    \/ \E o \in Answer : PutCell(c, o) \/ CopyTemplate(c, o)
    \/ \E ok \in BOOLEAN : \/ CheckPid(c, ok) \/ FindCard(c, ok) \/ TitleCard(c, ok) \/ Preflight(c, ok)
                           \/ VerifyCard(c, ok) \/ ReadLatest(c, ok) \/ FindProduct(c, ok)
                           \/ SaveProduct(c, ok) \/ MapCard(c, ok) \/ CreateCardVideo(c, ok)

SyncStep(a) ==
    \/ \E ok \in BOOLEAN : ReadLine(a, ok) \/ LookAgain(a, ok)
    \/ \E o \in Answer : WriteLine(a, o)

RepairStep(b) ==
    \/ \E ok \in BOOLEAN : RepairPreflight(b, ok)
    \/ \E v \in {"facts", "pending", "failed"} : RepairFacts(b, v)

LookupStep(l) == RereadProduct(l) \/ StoreProduct(l) \/ \E named \in SUBSET DOMAIN product : ListProducts(l, named)

MigrationStep(m) ==
    \/ NextDocument(m)
    \/ \E ok \in BOOLEAN : LocateDocument(m, ok) \/ ConfirmMove(m, ok)
    \/ \E o \in Answer : MoveDocument(m, o)

OwnerStep(a) ==
    \/ \E ok \in BOOLEAN : ReadOwner(a, ok) \/ ConfirmOwner(a, ok)
    \/ \E o \in Answer : TransferOwner(a, o)

Step(a) ==
    \/ a \in Clicks /\ CardStep(a)
    \/ a \in Clicks \cup Repairs /\ SyncStep(a)
    \/ a \in Clicks \cup Moves /\ OwnerStep(a)
    \/ a \in Repairs /\ RepairStep(a)
    \/ a \in Lookups /\ LookupStep(a)
    \/ a \in Moves /\ MigrationStep(a)

Next ==
    \/ \E r \in Rows : \/ \E p \in Pids : EditPid(r, p)
                       \/ \E c \in Clicks : Accept(c, r)
                       \/ \E l \in Lookups : StartLookup(l, r)
    \/ \E d \in Documents : TrashCard(d) \/ TakesEffect(d) \/ \E t \in Notes \cup {"blank"} : EditFacts(d, t)
    \/ \E p \in budget.at : \/ Crash(p)
                           \/ \E c \in Clicks : StartCard(c, p)
                           \/ \E m \in Moves : StartMigration(m, p)
                           \/ \E b \in Repairs, refresh \in BOOLEAN, k \in DOMAIN product :
                                 StartRepair(b, p, refresh, k)
    \/ CutSession
    \/ \E a \in Actors : Step(a)

Spec == Init /\ [][Next]_vars

\* The timer of the inbox starts passes for ever; calls end and promises go on.
Fairness ==
    /\ \A c \in Clicks : WF_vars(\E p \in budget.at : StartCard(c, p))
    /\ \A a \in Actors : WF_vars(Step(a))

FairSpec == Spec /\ Fairness

-----------------------------------------------------------------------------
(* Properties.                                                             *)

Statuses   == {"", "working", "complete", "incomplete", "no link"}
ProductRow == [pid : Pids \cup {None}, doc : Documents \cup {None}]
CardRow    == [pid : Pids \cup {None}, link : Documents \cup {None}, card : Statuses, video : {"", "queued"}]
Document   == [pid : Pids \cup {None}, id : Pids \cup {None}, text : Facts,
               place : {"none", "folder", "elsewhere", "moving", "trash"}, owner : {"app", "team", "changing"}]

ClickPcs  == {"idle", "waiting", "check", "name", "find", "copy", "title", "rename", "owner", "transfer",
              "confirm", "flush", "put", "preflight", "read", "look", "write", "ask", "verify", "latest",
              "product", "save", "map", "video", "done"}
RepairPcs == {"idle", "first", "facts", "read", "look", "write", "done"}
LookupPcs == {"idle", "list", "reread", "create", "done"}
MovePcs   == {"idle", "next", "locate", "move", "arrive", "owner", "transfer", "confirm", "done"}

Pcs      == ClickPcs \cup RepairPcs \cup LookupPcs \cup MovePcs
Stages   == {"none", "early", "identity", "fill", "placeholder", "map", "again", "last", "repair"}
Thens    == {"none", "name", "find", "put", "ask", "read", "latest", "map"}
Labels   == {"id", "text"}
Values   == Facts \cup Pids \cup {None}
Read     == [id : Pids \cup {None}, text : Facts]
Outcomes == {"none", "failed", "partial", "completed", "paused"}

ActorState ==
    [pc : Pcs, proc : Processes \cup {None}, row : Rows \cup {None}, pid : Pids \cup {None},
     doc : Documents \cup {None}, refresh : BOOLEAN, pre : Read, stage : Stages, label : Labels,
     value : Values, base : Values, then : Thens, todo : SUBSET Cells, pending : SUBSET Cells,
     failed : SUBSET Cells, card : Statuses, final : Statuses, error : BOOLEAN, tries : 0 .. 3,
     docs : SUBSET Documents, ok : SUBSET Documents, found : Nat, copy : ProductRow,
     blind : BOOLEAN, moved : BOOLEAN, outcome : Outcomes]

\* The variables have their types.
TypeOK ==
    /\ row \in [Rows -> CardRow] /\ doc \in [Documents -> Document] /\ product \in Seq(ProductRow)
    /\ mapping \in [Rows -> [product : DOMAIN product, doc : Documents] \cup {[product |-> 0, doc |-> None]}]
    /\ video \in [Clicks -> {"none", "created", "owned"}]
    /\ session \in Processes \cup {None} /\ copied \subseteq Documents /\ cut \in Nat
    /\ actor \in [Actors -> ActorState] /\ \A a \in Actors : actor[a].found \in 0 .. Len(product)

\* A row, its mapping and the paid catalog are only touched for the PID that the row
\* had when the handler last looked, immediately before (automation.ts:847-852, 866,
\* 952, 955, 1044).
ActsForRow ==
    [][\A c \in Clicks : LET x == actor[c] IN
          \/ x.pc \in {"put", "map"} /\ (row' # row \/ mapping' # mapping) /\ actor'[c].pc # x.pc
          \/ x.pc = "ask" /\ actor'[c].pc # "ask"
          => x.moved \/ row[x.row].pid = x.pid]_vars

\* What a person has written into a card stays, unless it was written between the last
\* look at the line and the write (deploy/ISOLATED_ACCEPTANCE.md:33), or a refresh was
\* asked for by somebody who could see it (document.ts:1402-1418, 1585-1620).
Overwrites(a, d) ==
    actor[a].pc = "write" /\ actor[a].doc = d /\ actor'[a].pc # "write" /\ actor[a].label = "text"

NotesAreKept ==
    [][\A d \in Documents, a \in Clicks \cup Repairs :
          doc[d].text \in Notes /\ doc'[d].text # doc[d].text /\ Overwrites(a, d)
          => actor[a].blind \/ (actor[a].refresh /\ actor[a].pre.text = doc[d].text)]_vars

\* A row that is told of the final state of its card shows the link of a card: "Never tell
\* the user done while the row still has no hand-card link" (automation.ts:1057-1064).
LinkBeforeStatus ==
    \A r \in Rows : row[r].card \in {"complete", "incomplete"} => row[r].link # None

Copies(p) == {d \in copied : doc[d].pid = p /\ doc[d].place = "folder"}

\* However often a row or another row of the same PID is clicked, and whatever failed or
\* crashed in between, the copies of the template that serve the PID exceed one by no more
\* than the sessions of the inbox that were cut: each cut leaves one handler at work beside
\* the next (inbox.ts:130-142, document.ts:758-786).
CopiesAccountedFor == \A p \in Pids : Cardinality(Copies(p)) <= 1 + cut

\* A document is reported as migrated once it is in the folder and belongs to the team
\* (document.ts:1015-1046).
MigrationIsEarned ==
    \A m \in Moves : \A d \in actor[m].ok : doc[d].place \in {"folder", "trash"} /\ doc[d].owner = "team"

\* Every handler, repair and migration comes to an end, and every accepted click is
\* handled, although they wait for each other's locks.
AllReturn == []<>(\A a \in Actors : ~Busy(a) /\ actor[a].pc # "waiting")
=============================================================================
