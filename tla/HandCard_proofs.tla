---------------------------- MODULE HandCard_proofs ----------------------------
(***************************************************************************)
(* Theorems about the hand cards, for any clicks, lookups, repairs and     *)
(* migrations, any rows, PIDs and documents, and any scenarios.            *)
(*                                                                         *)
(* IInv is inductive.  It says what fits an actor at each place of its     *)
(* program (Fits), and what an actor in flight may rely on in the tables,  *)
(* however the others go on (Sound).  Keeps is what each step of one actor *)
(* leaves to all others.                                                   *)
(***************************************************************************)
EXTENDS HandCard, FiniteSetTheorems, SequenceTheorems, TLAPS

\* A check of the PID belongs to the place it leads to.
At(x) == IF x.pc = "check" THEN x.then ELSE x.pc

\* Before a document is in hand, while it is opened, and while a line of it is synchronised.
Early   == {"idle", "waiting", "name", "find", "copy"}
Opening == {"title", "rename", "owner", "transfer", "confirm"}
Syncing == {"read", "look", "write"}
Final   == {"complete", "incomplete"}

-----------------------------------------------------------------------------
\* What fits a click, at each place.
ClickFits(x) ==
    /\ x.pc \in ClickPcs /\ At(x) # "none"
    /\ x.pc # "idle" => x.row \in Rows /\ x.pid \in Pids
    /\ x.pc \notin {"idle", "waiting"} => x.proc \in Processes
    /\ At(x) \notin Early \cup {"done"} => x.doc \in Documents
    /\ At(x) \in Early \cup Opening => x.stage = "none"
    /\ At(x) \notin Early \cup Opening \cup {"done"} => x.stage # "none"
    /\ At(x) \in Syncing => x.stage \in {"identity", "fill", "placeholder"}
    /\ At(x) \notin {"flush", "put", "done"} => x.todo = {}
    /\ At(x) = "put" => x.todo # {}
    /\ At(x) = "map" => x.found # 0

\* A line gets a value of its kind, and a fact is replaced by a refresh alone.
SyncFits(x) ==
    /\ At(x) \in Syncing => \/ x.label = "id" /\ x.value \in Pids
                            \/ x.label = "text" /\ x.value \in {"facts", "pending"}
    /\ x.pc \in {"look", "write"} /\ x.label = "text" =>
          x.base = x.pre.text /\ (x.base \notin Missing => x.refresh)

RepairFits(x) ==
    /\ x.pc \in RepairPcs
    /\ x.pc \notin {"idle", "done"} => x.doc \in Documents /\ x.stage = "repair"

LookupFits(x) == x.pc \in LookupPcs /\ (x.pc = "reread" => x.found # 0)

MoveFits(x) ==
    /\ x.pc \in MovePcs
    /\ x.pc \notin {"idle", "next", "done"} => x.doc \in Documents

Fits(a, x) ==
    /\ x \in ActorState
    /\ a \in Clicks  => ClickFits(x) /\ SyncFits(x)
    /\ a \in Repairs => RepairFits(x) /\ SyncFits(x)
    /\ a \in Lookups => LookupFits(x)
    /\ a \in Moves   => MoveFits(x)

-----------------------------------------------------------------------------
\* Once the link was queued it is due, has failed, or is in the row; a final status is
\* decided when the row has a link; whoever is about to act for a PID has just seen it.
ClickSound(x) ==
    /\ x.stage # "none" => /\ "link" \in x.todo \cup x.failed \/ row[x.row].link # None
                           /\ x.card \in Final => row[x.row].link # None
    /\ x.pc \in {"put", "map", "ask"} => x.moved \/ row[x.row].pid = x.pid

\* What people wrote is what was seen, or it was written since.
SyncSound(x) ==
    x.pc = "write" /\ x.label = "text" /\ ~x.blind /\ doc[x.doc].text \in Notes => doc[x.doc].text = x.base

Placed(d) == doc[d].place \in {"folder", "trash"}

MoveSound(x) ==
    /\ x.pc \in {"owner", "transfer", "confirm"} => Placed(x.doc)
    /\ \A d \in x.ok : Placed(d) /\ doc[d].owner = "team"

Sound(a, x) ==
    /\ x.found <= Len(product)
    /\ a \in Clicks => ClickSound(x)
    /\ a \in Clicks \cup Repairs => SyncSound(x)
    /\ a \in Moves => MoveSound(x)

Tables ==
    /\ row \in [Rows -> CardRow] /\ doc \in [Documents -> Document] /\ product \in Seq(ProductRow)
    /\ mapping \in [Rows -> [product : DOMAIN product, doc : Documents] \cup {[product |-> 0, doc |-> None]}]
    /\ video \in [Clicks -> {"none", "created", "owned"}]
    /\ session \in Processes \cup {None} /\ copied \subseteq Documents
    /\ budget \in Scenario
    /\ LinkBeforeStatus

IInv ==
    /\ Tables
    /\ actor \in [Actors -> ActorState]
    /\ \A a \in Actors : Fits(a, actor[a]) /\ Sound(a, actor[a])

-----------------------------------------------------------------------------
(* Records.                                                                *)

LEMMA Kinds ==
    /\ Clicks \cap (Lookups \cup Repairs \cup Moves) = {} /\ Lookups \cap (Repairs \cup Moves) = {}
    /\ Repairs \cap Moves = {} /\ None \notin Pids \cup Documents \cup Rows \cup Processes
    /\ Notes \cap {"blank", "pending", "facts"} = {} /\ Documents # {}
BY CardConstants

\* What the values of the program are members of.
LEMMA Names ==
    /\ ClickPcs \cup RepairPcs \cup LookupPcs \cup MovePcs \subseteq Pcs
    /\ {"name", "find", "put", "ask", "read", "latest", "map"} \subseteq Thens
    /\ {"none", "early", "identity", "fill", "placeholder", "map", "again", "last", "repair"} \subseteq Stages
    /\ {"working", "complete", "incomplete", "no link"} \subseteq Statuses
    /\ {"failed", "partial", "completed", "paused"} \subseteq Outcomes
    /\ {"facts", "pending"} \cup Pids \cup Facts \subseteq Values /\ {"id", "text"} \subseteq Labels
    /\ "link" \in Cells /\ "card" \in Cells /\ "video" \in Cells
BY DEF Pcs, Thens, Stages, Statuses, Outcomes, Values, Labels, Facts, Cells

LEMMA IdleFits == Idle \in ActorState
<1>1. "idle" \in Pcs /\ "none" \in Stages /\ "none" \in Thens /\ "none" \in Outcomes /\ "" \in Statuses
      /\ "id" \in Labels
    BY DEF Pcs, ClickPcs, Stages, Thens, Outcomes, Statuses, Labels
<1>2. NoLines \in Read /\ NoProduct \in ProductRow /\ None \in Values /\ 0 \in 0 .. 3 /\ 0 \in Nat
    BY DEF NoLines, Read, NoProduct, ProductRow, Values, Facts
<1> QED
    BY <1>1, <1>2, Zenon DEF Idle, ActorState

\* The fields that a change of the place alone leaves as they were.
Alike(x, y) ==
    /\ y.row = x.row /\ y.pid = x.pid /\ y.proc = x.proc /\ y.doc = x.doc /\ y.refresh = x.refresh
    /\ y.card = x.card /\ y.failed = x.failed /\ y.pending = x.pending /\ y.final = x.final
    /\ y.docs = x.docs /\ y.ok = x.ok /\ y.copy = x.copy
LineAlike(x, y) ==
    y.pre = x.pre /\ y.label = x.label /\ y.value = x.value /\ y.base = x.base /\ y.blind = x.blind

\* The step has been taken, and the row was the same in it.
LEMMA Unmoved ==
    ASSUME NEW x \in ActorState
    PROVE  LET y == [x EXCEPT !.moved = FALSE] IN
           /\ y \in ActorState /\ ~y.moved /\ y.pc = x.pc /\ y.then = x.then /\ y.stage = x.stage
           /\ y.todo = x.todo /\ y.found = x.found /\ Alike(x, y) /\ LineAlike(x, y)
<1>1. [x EXCEPT !.moved = FALSE] \in ActorState
    BY Zenon DEF ActorState
<1> QED
    BY <1>1 DEF ActorState, Alike, LineAlike

LEMMA Goes ==
    ASSUME NEW x \in ActorState, NEW pc \in Pcs
    PROVE  LET y == [x EXCEPT !.pc = pc] IN
           /\ y \in ActorState /\ y.pc = pc /\ y.then = x.then /\ y.stage = x.stage
           /\ y.todo = x.todo /\ y.found = x.found /\ Alike(x, y) /\ LineAlike(x, y)
<1>1. [x EXCEPT !.pc = pc] \in ActorState
    BY Zenon DEF ActorState
<1> QED
    BY <1>1 DEF ActorState, Alike, LineAlike

LEMMA Checks ==
    ASSUME NEW x \in ActorState, NEW then \in Thens
    PROVE  LET y == [x EXCEPT !.pc = "check", !.then = then] IN
           /\ y \in ActorState /\ y.pc = "check" /\ y.then = then /\ y.stage = x.stage
           /\ y.todo = x.todo /\ y.found = x.found /\ Alike(x, y) /\ LineAlike(x, y)
<1>1. "check" \in Pcs
    BY Names DEF ClickPcs
<1>2. [x EXCEPT !.pc = "check", !.then = then] \in ActorState
    BY <1>1, Zenon DEF ActorState
<1> QED
    BY <1>2 DEF ActorState, Alike, LineAlike

LEMMA Ends ==
    ASSUME NEW x \in ActorState, NEW outcome \in Outcomes
    PROVE  LET y == [x EXCEPT !.pc = "done", !.outcome = outcome] IN
           /\ y \in ActorState /\ y.pc = "done" /\ y.then = x.then /\ y.stage = x.stage
           /\ y.todo = x.todo /\ y.found = x.found /\ Alike(x, y) /\ LineAlike(x, y) /\ y.moved = x.moved
<1>1. "done" \in Pcs
    BY Names DEF ClickPcs
<1>2. [x EXCEPT !.pc = "done", !.outcome = outcome] \in ActorState
    BY <1>1, Zenon DEF ActorState
<1> QED
    BY <1>2 DEF ActorState, Alike, LineAlike

LEMMA CaughtIs ==
    ASSUME NEW x \in ActorState
    PROVE  LET y == Caught(x) IN
           /\ y \in ActorState /\ y.pc = "check" /\ y.then = "latest" /\ y.stage = "placeholder"
           /\ y.row = x.row /\ y.pid = x.pid /\ y.proc = x.proc /\ y.doc = x.doc /\ y.todo = x.todo
           /\ y.failed = x.failed /\ y.card = x.card /\ y.found = x.found
<1>1. "check" \in Pcs /\ "latest" \in Thens /\ "placeholder" \in Stages /\ "incomplete" \in Statuses
    BY Names DEF ClickPcs
<1>2. Caught(x) \in ActorState
    BY <1>1, Zenon DEF Caught, ActorState
<1> QED
    BY <1>2 DEF Caught, ActorState

LEMMA CellFailedIs ==
    ASSUME NEW x \in ActorState
    PROVE  LET y == CellFailed(x) IN
           /\ y \in ActorState /\ y.pc = "flush" /\ y.stage = x.stage
           /\ y.row = x.row /\ y.pid = x.pid /\ y.proc = x.proc /\ y.doc = x.doc
           /\ y.todo \cup y.failed = x.todo \cup x.failed \cup {First(x.todo)}
           /\ y.card = x.card /\ y.found = x.found
<1>1. "flush" \in Pcs /\ First(x.todo) \in Cells
    BY Names DEF ClickPcs, First
<1>2. x.failed \cup {First(x.todo)} \in SUBSET Cells /\ x.todo \ {First(x.todo)} \in SUBSET Cells
    BY <1>1 DEF ActorState
<1>3. CellFailed(x) \in ActorState
    BY <1>1, <1>2, Zenon DEF CellFailed, ActorState
<1>4. LET y == CellFailed(x) IN
      /\ y.pc = "flush" /\ y.stage = x.stage /\ y.row = x.row /\ y.pid = x.pid /\ y.proc = x.proc
      /\ y.doc = x.doc /\ y.card = x.card /\ y.found = x.found
      /\ y.failed = x.failed \cup {First(x.todo)} /\ y.todo = x.todo \ {First(x.todo)}
    BY DEF CellFailed, ActorState
<1> QED
    BY <1>3, <1>4

LEMMA FlushIs ==
    ASSUME NEW x \in ActorState, NEW cells \in SUBSET Cells
    PROVE  LET y == Flush(x, cells) IN
           /\ y \in ActorState /\ y.pc = "flush" /\ y.stage = x.stage
           /\ y.row = x.row /\ y.pid = x.pid /\ y.proc = x.proc /\ y.doc = x.doc
           /\ y.failed = x.failed /\ cells \subseteq y.todo /\ y.card = x.card /\ y.found = x.found
<1>1. "flush" \in Pcs /\ x.pending \cup cells \in SUBSET Cells
    BY Names DEF ClickPcs, ActorState
<1>2. Flush(x, cells) \in ActorState
    BY <1>1, Zenon DEF Flush, ActorState
<1> QED
    BY <1>2 DEF Flush, ActorState

LEMMA DeliverIs ==
    ASSUME NEW x \in ActorState
    PROVE  LET y == Deliver(x) IN
           /\ y \in ActorState /\ y.pc = "flush" /\ y.stage = "early" /\ y.card = "working" /\ "link" \in y.todo
           /\ y.row = x.row /\ y.pid = x.pid /\ y.proc = x.proc /\ y.doc = x.doc /\ y.found = x.found
<1> DEFINE w == [x EXCEPT !.stage = "early", !.card = "working"]
<1>1. "early" \in Stages /\ "working" \in Statuses /\ {"link", "card"} \in SUBSET Cells
    BY Names
<1>2. w \in ActorState
    BY <1>1, Zenon DEF ActorState
<1>3. w.stage = "early" /\ w.card = "working" /\ w.row = x.row /\ w.pid = x.pid /\ w.proc = x.proc
      /\ w.doc = x.doc /\ w.found = x.found
    BY DEF ActorState
<1>4. Deliver(x) = Flush(w, {"link", "card"})
    BY DEF Deliver
<1> HIDE DEF w
<1> QED
    BY <1>1, <1>2, <1>3, <1>4, FlushIs

LEMMA SyncIs ==
    ASSUME NEW x \in ActorState, NEW stage \in Stages, NEW label \in Labels, NEW value \in Values
    PROVE  LET y == Sync(x, stage, label, value) IN
           /\ y \in ActorState /\ y.pc = "read" /\ y.stage = stage /\ y.label = label /\ y.value = value
           /\ y.row = x.row /\ y.pid = x.pid /\ y.proc = x.proc /\ y.doc = x.doc /\ y.todo = x.todo
           /\ y.failed = x.failed /\ y.card = x.card /\ y.found = x.found
<1>1. "read" \in Pcs
    BY Names DEF ClickPcs
<1>2. Sync(x, stage, label, value) \in ActorState
    BY <1>1, Zenon DEF Sync, ActorState
<1> QED
    BY <1>2 DEF Sync, ActorState

LEMMA DecideIs ==
    ASSUME NEW x \in ActorState
    PROVE  LET y == Decide(x) IN
           /\ y \in ActorState /\ y.pc = x.pc /\ y.stage = x.stage /\ y.then = x.then
           /\ y.row = x.row /\ y.pid = x.pid /\ y.proc = x.proc /\ y.doc = x.doc /\ y.todo = x.todo
           /\ y.failed = x.failed /\ y.found = x.found /\ (y.card \in Final => "link" \notin x.failed)
<1>1. "no link" \in Statuses /\ x.final \in Statuses
    BY Names DEF ActorState
<1>2. (IF "link" \in x.failed THEN "no link" ELSE x.final) \in Statuses
    BY <1>1
<1>3. Decide(x) \in ActorState
    BY <1>2, Zenon DEF Decide, ActorState
<1> QED
    BY <1>3 DEF Decide, ActorState, Final

-----------------------------------------------------------------------------
(* Where the parts of the handler lead.                                    *)

ClickGood(x) ==
    x \in ActorState /\ ClickFits(x) /\ SyncFits(x) /\ ClickSound(x) /\ SyncSound(x) /\ x.found <= Len(product)
RepairGood(x) ==
    x \in ActorState /\ RepairFits(x) /\ SyncFits(x) /\ SyncSound(x) /\ x.found <= Len(product)

\* The link was queued, and no cell is due.
Inside(x) == At(x) \notin Early \cup Opening \cup {"put", "done"} /\ x.todo = {}

\* A click that goes to a place where nothing is asked of it but a card and a stage.
LEMMA Proceeds ==
    ASSUME NEW x, ClickGood(x), Inside(x), NEW y \in ActorState,
           y.row = x.row, y.pid = x.pid, y.proc = x.proc, y.doc = x.doc, y.todo = x.todo,
           y.failed = x.failed, y.card = x.card, y.found = x.found,
           y.stage # "none",
           \/ y.pc \in {"preflight", "product", "verify", "latest", "save", "video"}
           \/ y.pc = "check" /\ y.then \in {"ask", "latest"}
           \/ y.pc = "check" /\ y.then = "map" /\ y.found # 0
    PROVE  ClickGood(y)
<1>1. /\ x.row \in Rows /\ x.pid \in Pids /\ x.proc \in Processes /\ x.doc \in Documents /\ x.todo = {}
      /\ x.stage # "none"
    BY DEF ClickGood, ClickFits, Inside, At, Early, Opening
<1>2. At(y) \in {"preflight", "product", "verify", "latest", "save", "video", "ask", "map"}
      /\ y.pc \notin {"idle", "waiting", "put", "map", "ask", "look", "write"}
    BY DEF At
<1>3. ClickFits(y)
    BY <1>1, <1>2 DEF ClickFits, ClickPcs, Early, Opening, Syncing, At
<1>4. SyncFits(y) /\ SyncSound(y)
    BY <1>2 DEF SyncFits, Syncing, SyncSound
<1>5. ClickSound(y)
    BY <1>1, <1>2 DEF ClickGood, ClickSound
<1> QED
    BY <1>3, <1>4, <1>5 DEF ClickGood

LEMMA CaughtGood ==
    ASSUME NEW x, ClickGood(x), Inside(x)
    PROVE  ClickGood(Caught(x))
BY CaughtIs, Proceeds DEF ClickGood

LEMMA AcceptedGood ==
    ASSUME NEW x, ClickGood(x), Inside(x), NEW l \in Read
    PROVE  ClickGood(Accepted(x, l))
<1>1. CASE l.id # x.pid
    BY <1>1, CaughtGood DEF Accepted
<1>2. CASE l.id = x.pid
  <2> DEFINE final == IF l.text \in Missing THEN "incomplete" ELSE "complete"
             bad == l.text \in Missing
             y == [x EXCEPT !.pc = "product", !.error = bad, !.final = final]
  <2>0. "product" \in Pcs /\ final \in Statuses
      BY Names DEF ClickPcs
  <2>1. bad \in BOOLEAN
    <3>1. CASE l.text \in Missing
      <4>1. bad = TRUE
          BY <3>1
      <4> QED
          BY <4>1
    <3>2. CASE l.text \notin Missing
      <4>1. bad = FALSE
          BY <3>2
      <4> QED
          BY <4>1
    <3> QED
        BY <3>1, <3>2
  <2>2. Accepted(x, l) = y
      BY <1>2 DEF Accepted
  <2> HIDE DEF final, bad
  <2>3. y \in ActorState
      BY <2>0, <2>1, Zenon DEF ActorState, ClickGood
  <2>4. /\ y.pc = "product" /\ y.row = x.row /\ y.pid = x.pid /\ y.proc = x.proc /\ y.doc = x.doc
        /\ y.todo = x.todo /\ y.failed = x.failed /\ y.card = x.card /\ y.found = x.found /\ y.stage = x.stage
      BY DEF ActorState, ClickGood
  <2>5. x.stage # "none"
      BY DEF ClickGood, ClickFits, Inside
  <2> HIDE DEF y
  <2> QED
      BY <2>2, <2>3, <2>4, <2>5, Proceeds
<1> QED
    BY <1>1, <1>2

LEMMA SyncedGood ==
    ASSUME NEW x, ClickGood(x), x.pc \in Syncing
    PROVE  ClickGood(Synced(x)) /\ Synced(x).pc # "write"
<1>1. Inside(x) /\ x.stage \in {"identity", "fill", "placeholder"} /\ x.pre \in Read /\ x \in ActorState
    BY DEF ClickGood, ClickFits, ActorState, Inside, At, Syncing, Early, Opening
<1>2. CASE x.stage = "identity" /\ x.pre.text \notin Missing
  <2>1. Synced(x) = Accepted(x, x.pre)
      BY <1>2 DEF Synced
  <2>2. Accepted(x, x.pre).pc # "write"
      BY <1>1 DEF Accepted, Caught, ActorState
  <2> QED
      BY <1>1, <2>1, <2>2, AcceptedGood
<1>3. CASE x.stage = "identity" /\ x.pre.text \in Missing
  <2> DEFINE y == [x EXCEPT !.pc = "check", !.then = "ask", !.stage = "fill"]
  <2>1. "check" \in Pcs /\ "ask" \in Thens /\ "fill" \in Stages
      BY Names DEF ClickPcs
  <2>2. y \in ActorState
      BY <1>1, <2>1, Zenon DEF ActorState
  <2>3. /\ y.pc = "check" /\ y.then = "ask" /\ y.stage = "fill" /\ y.row = x.row /\ y.pid = x.pid
        /\ y.proc = x.proc /\ y.doc = x.doc /\ y.todo = x.todo /\ y.failed = x.failed /\ y.card = x.card
        /\ y.found = x.found
      BY <1>1 DEF ActorState
  <2>4. Synced(x) = y
      BY <1>3 DEF Synced
  <2> HIDE DEF y
  <2> QED
      BY <1>1, <2>2, <2>3, <2>4, Proceeds
<1>4. CASE x.stage \in {"fill", "placeholder"}
  <2>1. PICK pc \in {"verify", "product"} : Synced(x) = [x EXCEPT !.pc = pc]
      BY <1>4 DEF Synced
  <2>2. pc \in Pcs
      BY Names DEF ClickPcs
  <2> DEFINE y == [x EXCEPT !.pc = pc]
  <2>3. y \in ActorState /\ y.pc = pc /\ y.stage = x.stage /\ y.todo = x.todo /\ y.found = x.found
        /\ Alike(x, y)
      BY <1>1, <2>2, Goes
  <2> HIDE DEF y
  <2>4. ClickGood(y)
      BY <1>1, <2>3, Proceeds DEF Alike
  <2> QED
      BY <2>1, <2>3, <2>4 DEF y
<1> QED
    BY <1>1, <1>2, <1>3, <1>4

LEMMA SyncFailedGood ==
    ASSUME NEW x, ClickGood(x), x.pc \in Syncing
    PROVE  ClickGood(SyncFailed(x)) /\ SyncFailed(x).pc # "write"
<1>1. Inside(x) /\ x.stage \in {"identity", "fill", "placeholder"} /\ x \in ActorState
    BY DEF ClickGood, ClickFits, ActorState, Inside, At, Syncing, Early, Opening
<1>2. CASE x.stage \in {"identity", "fill"}
  <2>1. SyncFailed(x) = Caught(x)
      BY <1>2 DEF SyncFailed
  <2> QED
      BY <1>1, <2>1, CaughtGood, CaughtIs
<1>3. CASE x.stage = "placeholder"
  <2> DEFINE y == [x EXCEPT !.pc = "product"]
  <2>1. SyncFailed(x) = y
      BY <1>3 DEF SyncFailed
  <2>2. "product" \in Pcs
      BY Names DEF ClickPcs
  <2>3. y \in ActorState /\ y.pc = "product" /\ y.stage = x.stage /\ y.todo = x.todo /\ y.found = x.found
        /\ Alike(x, y)
      BY <1>1, <2>2, Goes
  <2> HIDE DEF y
  <2>4. ClickGood(y)
      BY <1>1, <2>3, Proceeds DEF Alike
  <2> QED
      BY <2>1, <2>3, <2>4
<1> QED
    BY <1>1, <1>2, <1>3

-----------------------------------------------------------------------------
(* What a step leaves to the others.                                       *)

\* Products are added, rows keep their PID and their link, nobody invents what people
\* have written, and a document in the folder, or that of the team, remains there.
Keeps ==
    /\ Len(product) <= Len(product')
    /\ \A r \in Rows : row'[r].pid = row[r].pid /\ (row[r].link # None => row'[r].link # None)
    /\ \A d \in Documents :
          /\ doc'[d].text \in Notes => doc'[d].text = doc[d].text
          /\ doc[d].place \in {"folder", "trash"} =>
                doc'[d].place \in {"folder", "trash"} /\ (doc[d].owner = "team" => doc'[d].owner = "team")

\* What is left of the bounds.
Spending == budget' \in Scenario

LEMMA Spent ==
    ASSUME budget \in Scenario
    PROVE  /\ Spend("edits") => Spending
           /\ Spend("notes") => Spending
           /\ Spend("trash") => Spending
           /\ Spend("faults") => Spending
           /\ Spend("crashes") => Spending
           /\ Spend("cuts") => Spending
           /\ UNCHANGED budget => Spending
<1>1. ASSUME Spend("edits") PROVE Spending
    BY <1>1 DEF Spend, Spending, Scenario
<1>2. ASSUME Spend("notes") PROVE Spending
    BY <1>2 DEF Spend, Spending, Scenario
<1>3. ASSUME Spend("trash") PROVE Spending
    BY <1>3 DEF Spend, Spending, Scenario
<1>4. ASSUME Spend("faults") PROVE Spending
    BY <1>4 DEF Spend, Spending, Scenario
<1>5. ASSUME Spend("crashes") PROVE Spending
    BY <1>5 DEF Spend, Spending, Scenario
<1>6. ASSUME Spend("cuts") PROVE Spending
    BY <1>6 DEF Spend, Spending, Scenario
<1>7. ASSUME UNCHANGED budget PROVE Spending
    BY <1>7 DEF Spending
<1> QED
    BY <1>1, <1>2, <1>3, <1>4, <1>5, <1>6, <1>7

LEMMA Faults ==
    ASSUME budget \in Scenario, NEW bad, Fault(bad)
    PROVE  Spending
BY Spent DEF Fault

LEMMA AnswersSpend ==
    ASSUME budget \in Scenario, NEW a, NEW ok, Answers(a, ok)
    PROVE  Spending
BY Spent, Faults DEF Answers

\* Who does not step relies on the same as before.
LEMMA Undisturbed ==
    ASSUME Tables, Tables', Keeps, NEW a \in Actors, NEW x, Fits(a, x), Sound(a, x)
    PROVE  Sound(a, x)'
<1>1. x.found <= Len(product')
  <2>1. Len(product) \in Nat /\ Len(product') \in Nat /\ x.found \in Nat
      BY LenProperties DEF Tables, Fits, ActorState
  <2> QED
      BY <2>1 DEF Keeps, Sound
<1>2. ASSUME a \in Clicks PROVE ClickSound(x)'
  <2>1. ClickFits(x) /\ ClickSound(x)
      BY <1>2 DEF Fits, Sound
  <2>2. x.stage # "none" \/ x.pc \in {"put", "map", "ask"} => x.row \in Rows
      BY <2>1 DEF ClickFits, At, Early
  <2> QED
      BY <2>1, <2>2 DEF ClickSound, Keeps
<1>3. ASSUME a \in Clicks \cup Repairs PROVE SyncSound(x)'
  <2>1. SyncSound(x)
      BY <1>3 DEF Sound
  <2>2. x.pc = "write" => x.doc \in Documents
      BY <1>3 DEF Fits, ClickFits, RepairFits, At, Early
  <2> QED
      BY <2>1, <2>2 DEF SyncSound, Keeps
<1>4. ASSUME a \in Moves PROVE MoveSound(x)'
  <2>1. MoveSound(x) /\ x.ok \subseteq Documents
      BY <1>4 DEF Sound, Fits, ActorState
  <2>2. x.pc \in {"owner", "transfer", "confirm"} => x.doc \in Documents
      BY <1>4 DEF Fits, MoveFits
  <2> QED
      BY <2>1, <2>2 DEF MoveSound, Placed, Keeps
<1> QED
    BY <1>1, <1>2, <1>3, <1>4 DEF Sound

\* A step of one actor: it has looked at its row in this step, or it is not about to act
\* for the row.
Looked(a, x) == a \in Clicks /\ x.pc \in {"put", "map", "ask"} => row[x.row].pid = x.pid

LEMMA StepHolds ==
    ASSUME IInv, Tables', Keeps, NEW a \in Actors, NEW y, Set(a, y),
           Fits(a, y), Sound(a, y)', Looked(a, y)'
    PROVE  IInv'
<1> DEFINE z == [y EXCEPT !.moved = FALSE]
<1>1. actor' = [actor EXCEPT ![a] = z]
    BY DEF Set
<1>2. /\ z \in ActorState /\ ~z.moved /\ z.pc = y.pc /\ z.then = y.then /\ z.stage = y.stage
      /\ z.todo = y.todo /\ z.found = y.found /\ Alike(y, z) /\ LineAlike(y, z)
    BY Unmoved DEF Fits
<1> HIDE DEF z
<1>3. Fits(a, z)
  <2>1. ClickFits(y) => ClickFits(z)
      BY <1>2 DEF ClickFits, At, Alike
  <2>2. SyncFits(y) => SyncFits(z)
      BY <1>2 DEF SyncFits, At, Alike, LineAlike
  <2>3. /\ RepairFits(y) => RepairFits(z)
        /\ LookupFits(y) => LookupFits(z)
        /\ MoveFits(y) => MoveFits(z)
      BY <1>2 DEF RepairFits, LookupFits, MoveFits, Alike
  <2> QED
      BY <1>2, <2>1, <2>2, <2>3 DEF Fits
<1>4. Sound(a, z)'
  <2>1. a \in Clicks /\ ClickSound(y)' => ClickSound(z)'
      BY <1>2 DEF ClickSound, Alike, Looked
  <2>2. SyncSound(y)' => SyncSound(z)'
      BY <1>2 DEF SyncSound, Alike, LineAlike
  <2>3. MoveSound(y)' => MoveSound(z)'
      BY <1>2 DEF MoveSound, Alike
  <2> QED
      BY <1>2, <2>1, <2>2, <2>3 DEF Sound
<1>5. actor \in [Actors -> ActorState]
    BY DEF IInv
<1>6. actor' \in [Actors -> ActorState]
    BY <1>1, <1>2, <1>5
<1>7. ASSUME NEW b \in Actors PROVE (Fits(b, actor[b]) /\ Sound(b, actor[b]))'
  <2>1. PICK x : x = actor'[b] /\ Fits(b, x) /\ Sound(b, x)'
    <3>1. CASE b = a
        BY <1>1, <1>3, <1>4, <1>5, <3>1
    <3>2. CASE b # a
      <4>1. actor'[b] = actor[b]
          BY <1>1, <1>5, <3>2
      <4>2. PICK x : x = actor[b]
          OBVIOUS
      <4>3. Fits(b, x) /\ Sound(b, x)
          BY <4>2 DEF IInv
      <4>4. Sound(b, x)'
          BY <4>3, Undisturbed DEF IInv
      <4> QED
          BY <4>1, <4>2, <4>3, <4>4
    <3> QED
        BY <3>1, <3>2
  <2> QED
      BY <2>1 DEF Fits, Sound, ClickSound, SyncSound, MoveSound, Placed
<1> QED
    BY <1>6, <1>7 DEF IInv

\* A step that leaves all tables alone.
Quietly ==
    UNCHANGED <<row, doc, product, mapping, video, copied>> /\ Spending /\ session' \in Processes \cup {None}

LEMMA QuietTables ==
    ASSUME Tables, Quietly
    PROVE  Tables' /\ Keeps
<1>1. Len(product) \in Nat
    BY LenProperties DEF Tables
<1>2. Tables'
    BY DEF Tables, Quietly, Spending, LinkBeforeStatus
<1>3. Keeps
    BY <1>1 DEF Keeps, Quietly
<1> QED
    BY <1>2, <1>3

LEMMA QuietStep ==
    ASSUME IInv, Quietly, NEW a \in Actors, NEW y, Set(a, y), Fits(a, y), Sound(a, y), Looked(a, y)
    PROVE  IInv'
<1>1. Tables /\ Tables' /\ Keeps
    BY QuietTables DEF IInv
<1>2. Sound(a, y)'
    BY <1>1, Undisturbed
<1>3. Looked(a, y)'
    BY DEF Looked, Quietly
<1> QED
    BY <1>1, <1>2, <1>3, StepHolds

LEMMA ClickIs ==
    ASSUME NEW c \in Clicks, NEW x
    PROVE  ClickGood(x) <=> Fits(c, x) /\ Sound(c, x)
BY Kinds DEF ClickGood, Fits, Sound

LEMMA RepairIs ==
    ASSUME NEW b \in Repairs, NEW x
    PROVE  RepairGood(x) <=> Fits(b, x) /\ Sound(b, x)
BY Kinds DEF RepairGood, Fits, Sound

LEMMA ClickStep ==
    ASSUME IInv, Quietly, NEW c \in Clicks, NEW y, Set(c, y), ClickGood(y),
           y.pc \in {"put", "map", "ask"} => row[y.row].pid = y.pid
    PROVE  IInv'
BY ClickIs, QuietStep DEF Looked, Actors

LEMMA RepairStepHolds ==
    ASSUME IInv, Quietly, NEW b \in Repairs, NEW y, Set(b, y), RepairGood(y)
    PROVE  IInv'
<1>1. b \notin Clicks /\ b \in Actors
    BY Kinds DEF Actors
<1> QED
    BY <1>1, RepairIs, QuietStep DEF Looked

LEMMA ClickHas ==
    ASSUME IInv, NEW c \in Clicks
    PROVE  ClickGood(actor[c])
<1>1. PICK x : x = actor[c]
    OBVIOUS
<1>2. Fits(c, x) /\ Sound(c, x)
    BY <1>1 DEF IInv, Actors
<1> QED
    BY <1>1, <1>2, ClickIs

LEMMA RepairHas ==
    ASSUME IInv, NEW b \in Repairs
    PROVE  RepairGood(actor[b])
<1>1. PICK x : x = actor[b]
    OBVIOUS
<1>2. Fits(b, x) /\ Sound(b, x)
    BY <1>1 DEF IInv, Actors
<1> QED
    BY <1>1, <1>2, RepairIs

\* A click that is over.
LEMMA DoneGood ==
    ASSUME NEW x, ClickGood(x), x.pc \notin {"idle", "waiting"}, NEW outcome \in Outcomes
    PROVE  ClickGood([x EXCEPT !.pc = "done", !.outcome = outcome])
<1> DEFINE y == [x EXCEPT !.pc = "done", !.outcome = outcome]
<1>1. /\ y \in ActorState /\ y.pc = "done" /\ y.stage = x.stage /\ y.todo = x.todo /\ y.found = x.found
      /\ Alike(x, y)
    BY Ends DEF ClickGood
<1> HIDE DEF y
<1>2. ClickFits(y)
    BY <1>1 DEF ClickGood, ClickFits, At, ClickPcs, Early, Opening, Syncing, Alike
<1>3. SyncFits(y) /\ SyncSound(y)
    BY <1>1 DEF SyncFits, SyncSound, At, Syncing
<1>4. ClickSound(y)
    BY <1>1 DEF ClickGood, ClickSound, Alike
<1> QED
    BY <1>1, <1>2, <1>3, <1>4 DEF ClickGood, y

LEMMA EndHolds ==
    ASSUME IInv, NEW c \in Clicks, NEW outcome \in Outcomes, End(c, outcome),
           actor[c].pc \notin {"idle", "waiting"},
           UNCHANGED <<row, doc, product, mapping, video, copied>>, Spending
    PROVE  IInv'
<1>1. PICK x : x = actor[c] /\ ClickGood(x)
    BY ClickHas
<1> DEFINE y == [x EXCEPT !.pc = "done", !.outcome = outcome]
<1>2. ClickGood(y)
    BY <1>1, DoneGood
<1>3. Set(c, y)
    BY <1>1 DEF End
<1>4. Quietly
    BY DEF Quietly, End, IInv, Tables
<1>5. y.pc = "done"
    BY <1>1, Ends DEF ClickGood
<1> HIDE DEF y
<1> QED
    BY <1>2, <1>3, <1>4, <1>5, ClickStep

-----------------------------------------------------------------------------
(* The steps of a click, one by one.                                       *)

LEMMA AcceptHolds ==
    ASSUME IInv, NEW c \in Clicks, NEW r \in Rows, Accept(c, r)
    PROVE  IInv'
<1> DEFINE y == [Idle EXCEPT !.pc = "waiting", !.row = r, !.pid = row[r].pid]
<1>1. row[r].pid \in Pids /\ "waiting" \in Pcs
    BY Names DEF Accept, IInv, Tables, CardRow, ClickPcs
<1>2. y \in ActorState
    BY <1>1, IdleFits, Zenon DEF ActorState
<1>3. /\ y.pc = "waiting" /\ y.row = r /\ y.pid \in Pids /\ y.stage = "none" /\ y.todo = {} /\ y.found = 0
    BY <1>1, IdleFits DEF ActorState, Idle
<1>4. Set(c, y) /\ Quietly
    BY Spent DEF Accept, Quietly, IInv, Tables, tables
<1> HIDE DEF y
<1>5. ClickFits(y) /\ SyncFits(y) /\ ClickSound(y) /\ SyncSound(y)
    BY <1>1, <1>3 DEF ClickFits, SyncFits, ClickSound, SyncSound, At, ClickPcs, Early, Opening, Syncing
<1>6. y.found <= Len(product)
    BY <1>3, LenProperties DEF IInv, Tables
<1> QED
    BY <1>2, <1>3, <1>4, <1>5, <1>6, ClickStep DEF ClickGood

LEMMA StartCardHolds ==
    ASSUME IInv, NEW c \in Clicks, NEW p \in budget.at, StartCard(c, p)
    PROVE  IInv'
<1>1. PICK x : x = actor[c] /\ ClickGood(x) /\ x.pc = "waiting"
    BY ClickHas DEF StartCard
<1>2. p \in Processes
    BY DEF IInv, Tables, Scenario
<1> DEFINE y == [x EXCEPT !.pc = "check", !.then = "name", !.proc = p]
<1>3. "check" \in Pcs /\ "name" \in Thens /\ p \in Processes \cup {None}
    BY <1>2, Names DEF ClickPcs
<1>4. y \in ActorState
    BY <1>1, <1>3, Zenon DEF ActorState, ClickGood
<1>5. /\ y.pc = "check" /\ y.then = "name" /\ y.proc = p /\ y.row = x.row /\ y.pid = x.pid
      /\ y.stage = x.stage /\ y.todo = x.todo /\ y.found = x.found
    BY <1>1 DEF ActorState, ClickGood
<1>6. Set(c, y) /\ Quietly
    BY <1>1, <1>2, Spent DEF StartCard, Quietly, IInv, Tables, tables
<1> HIDE DEF y
<1>7. ClickFits(y) /\ SyncFits(y) /\ ClickSound(y) /\ SyncSound(y)
    BY <1>1, <1>2, <1>5
    DEF ClickGood, ClickFits, SyncFits, ClickSound, SyncSound, At, ClickPcs, Early, Opening, Syncing
<1> QED
    BY <1>1, <1>4, <1>5, <1>6, <1>7, ClickStep DEF ClickGood

\* A check that was passed leads to where it belongs, with the PID just seen in the row.
LEMMA PassedGood ==
    ASSUME NEW x, ClickGood(x), x.pc = "check", row[x.row].pid = x.pid
    PROVE  LET y == [x EXCEPT !.pc = x.then] IN ClickGood(y) /\ row[y.row].pid = y.pid
<1> DEFINE y == [x EXCEPT !.pc = x.then]
<1>1. x.then \in Thens \ {"none"} /\ x \in ActorState
    BY DEF ClickGood, ClickFits, At, ActorState
<1>2. x.then \in ClickPcs /\ x.then \notin {"check", "idle", "waiting", "look", "write"}
    BY <1>1 DEF Thens, ClickPcs
<1>3. /\ y \in ActorState /\ y.pc = x.then /\ y.stage = x.stage /\ y.todo = x.todo /\ y.found = x.found
      /\ Alike(x, y) /\ LineAlike(x, y)
    BY <1>1, <1>2, Goes, Names
<1> HIDE DEF y
<1>4. At(y) = At(x) /\ At(x) = x.then
    BY <1>2, <1>3 DEF At
<1>5. ClickFits(y) /\ SyncFits(y) /\ SyncSound(y)
    BY <1>2, <1>3, <1>4 DEF ClickGood, ClickFits, SyncFits, SyncSound, Alike, LineAlike
<1>6. ClickSound(y)
    BY <1>3 DEF ClickGood, ClickSound, Alike
<1> QED
    BY <1>3, <1>5, <1>6 DEF ClickGood, Alike, y

\* A cell that cannot be written has failed, and the flush goes on.
LEMMA CellFailedGood ==
    ASSUME NEW x, ClickGood(x), At(x) = "put"
    PROVE  ClickGood(CellFailed(x))
<1> DEFINE y == CellFailed(x)
<1>1. /\ y \in ActorState /\ y.pc = "flush" /\ y.stage = x.stage
      /\ y.row = x.row /\ y.pid = x.pid /\ y.proc = x.proc /\ y.doc = x.doc
      /\ y.todo \cup y.failed = x.todo \cup x.failed \cup {First(x.todo)}
      /\ y.card = x.card /\ y.found = x.found
    BY CellFailedIs DEF ClickGood
<1> HIDE DEF y
<1>2. x.pc \notin {"idle", "waiting"}
    BY DEF At
<1>3. ClickFits(y)
    BY <1>1, <1>2 DEF ClickGood, ClickFits, At, ClickPcs, Early, Opening, Syncing
<1>4. SyncFits(y) /\ SyncSound(y)
    BY <1>1 DEF SyncFits, SyncSound, At, Syncing
<1>5. ClickSound(y)
  <2>1. "link" \in x.todo \cup x.failed => "link" \in y.todo \cup y.failed
      BY <1>1
  <2> QED
      BY <1>1, <2>1 DEF ClickGood, ClickSound
<1> QED
    BY <1>1, <1>3, <1>4, <1>5 DEF ClickGood, y

LEMMA CheckPidHolds ==
    ASSUME IInv, NEW c \in Clicks, NEW ok \in BOOLEAN, CheckPid(c, ok)
    PROVE  IInv'
<1>1. PICK x : x = actor[c] /\ ClickGood(x) /\ x.pc = "check"
    BY ClickHas DEF CheckPid
<1>2. UNCHANGED <<row, doc, product, mapping, video, copied>> /\ Spending
    BY Faults DEF CheckPid, tables, IInv, Tables
<1>3. CASE End(c, "failed")
    BY <1>1, <1>2, <1>3, EndHolds, Names
<1>4. CASE UNCHANGED session /\ row[x.row].pid = x.pid /\ Set(c, [x EXCEPT !.pc = x.then])
  <2>1. Quietly
      BY <1>2, <1>4 DEF Quietly, IInv, Tables
  <2> QED
      BY <1>1, <1>4, <2>1, PassedGood, ClickStep
<1>5. CASE /\ UNCHANGED session /\ (x.then = "put" \/ x.stage \in {"fill", "placeholder"})
           /\ Set(c, CASE x.then = "put"       -> CellFailed(x)
                       [] x.then = "latest"    -> [x EXCEPT !.pc = "product"]
                       [] OTHER                -> Caught(x))
  <2>1. Quietly
      BY <1>2, <1>5 DEF Quietly, IInv, Tables
  <2>2. CASE x.then = "put"
    <3>1. Set(c, CellFailed(x)) /\ At(x) = "put"
        BY <1>1, <1>5, <2>2 DEF At
    <3>2. ClickGood(CellFailed(x)) /\ CellFailed(x).pc = "flush"
        BY <1>1, <3>1, CellFailedGood, CellFailedIs DEF ClickGood
    <3> QED
        BY <2>1, <3>1, <3>2, ClickStep
  <2>3. CASE x.then # "put"
    <3>1. x.stage \in {"fill", "placeholder"} /\ At(x) = x.then
        BY <1>1, <1>5, <2>3 DEF At
    <3>2. Inside(x)
      <4>1. x.then \in Thens
          BY <1>1 DEF ClickGood, ActorState
      <4> QED
          BY <1>1, <2>3, <3>1, <4>1 DEF Inside, ClickGood, ClickFits, Thens
    <3>3. CASE x.then = "latest"
      <4> DEFINE y == [x EXCEPT !.pc = "product"]
      <4>1. Set(c, y)
          BY <1>5, <2>3, <3>3
      <4>2. "product" \in Pcs
          BY Names DEF ClickPcs
      <4>3. /\ y \in ActorState /\ y.pc = "product" /\ y.stage = x.stage /\ y.todo = x.todo /\ y.found = x.found
            /\ Alike(x, y)
          BY <1>1, <4>2, Goes DEF ClickGood
      <4> HIDE DEF y
      <4>4. ClickGood(y)
          BY <1>1, <3>1, <3>2, <4>3, Proceeds DEF Alike
      <4> QED
          BY <2>1, <4>1, <4>3, <4>4, ClickStep
    <3>4. CASE x.then # "latest"
      <4>1. Set(c, Caught(x))
          BY <1>5, <2>3, <3>4
      <4>2. ClickGood(Caught(x)) /\ Caught(x).pc = "check"
          BY <1>1, <3>2, CaughtGood, CaughtIs DEF ClickGood
      <4> QED
          BY <2>1, <4>1, <4>2, ClickStep
    <3> QED
        BY <3>3, <3>4
  <2> QED
      BY <2>2, <2>3
<1> QED
    BY <1>1, <1>3, <1>4, <1>5 DEF CheckPid

\* A click that has no card in hand, or is about to open it.
LEMMA OpensGood ==
    ASSUME NEW x, ClickGood(x), x.pc \in {"name", "find", "copy"} \cup Opening, NEW y \in ActorState,
           y.row = x.row, y.pid = x.pid, y.proc = x.proc, y.stage = x.stage, y.todo = x.todo, y.found = x.found,
           \/ y.pc \in {"find", "copy"}
           \/ y.pc = "check" /\ y.then = "find"
           \/ y.pc \in Opening /\ y.doc \in Documents
    PROVE  ClickGood(y)
<1>1. /\ x.row \in Rows /\ x.pid \in Pids /\ x.proc \in Processes /\ x.stage = "none" /\ x.todo = {}
    BY DEF ClickGood, ClickFits, At, Early, Opening
<1>2. ClickFits(y)
    BY <1>1 DEF ClickFits, At, ClickPcs, Early, Opening, Syncing
<1>3. SyncFits(y) /\ SyncSound(y) /\ ClickSound(y)
    BY <1>1 DEF SyncFits, SyncSound, ClickSound, At, Syncing, Opening
<1> QED
    BY <1>2, <1>3 DEF ClickGood

LEMMA NameCardHolds ==
    ASSUME IInv, NEW c \in Clicks, NEW how, NameCard(c, how)
    PROVE  IInv'
<1>1. PICK x : x = actor[c] /\ ClickGood(x) /\ x.pc = "name"
    BY ClickHas DEF NameCard
<1>2. UNCHANGED <<row, doc, product, mapping, video, copied>> /\ Spending
    BY Faults DEF NameCard, tables, IInv, Tables
<1>3. CASE End(c, "failed")
    BY <1>1, <1>2, <1>3, EndHolds, Names
<1>4. CASE UNCHANGED session /\ Set(c, [x EXCEPT !.pc = "find"])
  <2> DEFINE y == [x EXCEPT !.pc = "find"]
  <2>1. "find" \in Pcs
      BY Names DEF ClickPcs
  <2>2. /\ y \in ActorState /\ y.pc = "find" /\ y.stage = x.stage /\ y.todo = x.todo /\ y.found = x.found
        /\ Alike(x, y)
      BY <1>1, <2>1, Goes DEF ClickGood
  <2> HIDE DEF y
  <2>3. ClickGood(y)
      BY <1>1, <2>2, OpensGood DEF Alike
  <2> QED
      BY <1>2, <1>4, <2>2, <2>3, ClickStep DEF Quietly, IInv, Tables, y
<1>5. CASE UNCHANGED session /\ Set(c, [x EXCEPT !.pc = "check", !.then = "find"])
  <2> DEFINE y == [x EXCEPT !.pc = "check", !.then = "find"]
  <2>1. "find" \in Thens /\ x \in ActorState
      BY <1>1, Names DEF ClickGood
  <2>2. /\ y \in ActorState /\ y.pc = "check" /\ y.then = "find" /\ y.stage = x.stage /\ y.todo = x.todo
        /\ y.found = x.found /\ Alike(x, y)
      BY <2>1, Checks
  <2> HIDE DEF y
  <2>3. ClickGood(y)
      BY <1>1, <2>2, OpensGood DEF Alike
  <2> QED
      BY <1>2, <1>5, <2>2, <2>3, ClickStep DEF Quietly, IInv, Tables, y
<1> QED
    BY <1>1, <1>3, <1>4, <1>5 DEF NameCard, Go

LEMMA FindCardHolds ==
    ASSUME IInv, NEW c \in Clicks, NEW ok \in BOOLEAN, FindCard(c, ok)
    PROVE  IInv'
<1>1. PICK x : x = actor[c] /\ ClickGood(x) /\ x.pc = "find"
    BY ClickHas DEF FindCard
<1>2. UNCHANGED <<row, doc, product, mapping, video, copied>> /\ Spending
    BY Faults DEF FindCard, tables, IInv, Tables
<1>3. CASE End(c, "failed")
    BY <1>1, <1>2, <1>3, EndHolds, Names
<1>4. CASE UNCHANGED session /\ Set(c, [x EXCEPT !.pc = "copy"])
  <2> DEFINE y == [x EXCEPT !.pc = "copy"]
  <2>1. "copy" \in Pcs
      BY Names DEF ClickPcs
  <2>2. /\ y \in ActorState /\ y.pc = "copy" /\ y.stage = x.stage /\ y.todo = x.todo /\ y.found = x.found
        /\ Alike(x, y)
      BY <1>1, <2>1, Goes DEF ClickGood
  <2> HIDE DEF y
  <2>3. ClickGood(y)
      BY <1>1, <2>2, OpensGood DEF Alike
  <2> QED
      BY <1>2, <1>4, <2>2, <2>3, ClickStep DEF Quietly, IInv, Tables, y
<1>5. ASSUME NEW d \in Documents, UNCHANGED session, Set(c, [x EXCEPT !.pc = "title", !.doc = d])
      PROVE  IInv'
  <2> DEFINE y == [x EXCEPT !.pc = "title", !.doc = d]
  <2>1. "title" \in Pcs /\ d \in Documents \cup {None}
      BY Names DEF ClickPcs
  <2>2. y \in ActorState
      BY <1>1, <2>1, Zenon DEF ClickGood, ActorState
  <2>3. /\ y.pc = "title" /\ y.doc = d /\ y.stage = x.stage /\ y.todo = x.todo /\ y.found = x.found
        /\ y.row = x.row /\ y.pid = x.pid /\ y.proc = x.proc
      BY <1>1 DEF ClickGood, ActorState
  <2> HIDE DEF y
  <2>4. ClickGood(y)
      BY <1>1, <2>2, <2>3, OpensGood DEF Opening
  <2> QED
      BY <1>2, <1>5, <2>3, <2>4, ClickStep DEF Quietly, IInv, Tables, y
<1> QED
    BY <1>1, <1>3, <1>4, <1>5 DEF FindCard, Go, Cards

LEMMA TitleCardHolds ==
    ASSUME IInv, NEW c \in Clicks, NEW ok \in BOOLEAN, TitleCard(c, ok)
    PROVE  IInv'
<1>1. PICK x : x = actor[c] /\ ClickGood(x) /\ x.pc \in {"title", "rename"}
    BY ClickHas DEF TitleCard
<1>2. UNCHANGED <<row, doc, product, mapping, video, copied>> /\ Spending
    BY AnswersSpend, Spent DEF TitleCard, tables, IInv, Tables
<1>3. CASE End(c, "failed")
    BY <1>1, <1>2, <1>3, EndHolds, Names
<1>4. CASE UNCHANGED session /\ Set(c, [x EXCEPT !.pc = "owner"])
  <2> DEFINE y == [x EXCEPT !.pc = "owner"]
  <2>1. "owner" \in Pcs
      BY Names DEF ClickPcs
  <2>2. /\ y \in ActorState /\ y.pc = "owner" /\ y.stage = x.stage /\ y.todo = x.todo /\ y.found = x.found
        /\ Alike(x, y)
      BY <1>1, <2>1, Goes DEF ClickGood
  <2> HIDE DEF y
  <2>3. x.doc \in Documents
      BY <1>1 DEF ClickGood, ClickFits, At, Early
  <2>4. ClickGood(y)
      BY <1>1, <2>2, <2>3, OpensGood DEF Alike, Opening
  <2> QED
      BY <1>2, <1>4, <2>2, <2>4, ClickStep DEF Quietly, IInv, Tables, y
<1> QED
    BY <1>1, <1>3, <1>4 DEF TitleCard, Go

\* A copy: a document that was not there takes the place of none.
LEMMA CopyWritten ==
    ASSUME IInv, NEW d \in Documents, doc[d].place = "none", NEW p \in Pids, Spending,
           UNCHANGED <<row, product, mapping, video>>, session' \in Processes \cup {None},
           doc' = [doc EXCEPT ![d] = [NoDoc EXCEPT !.pid = p, !.place = "folder"]],
           copied' = copied \cup {d}
    PROVE  Tables' /\ Keeps
<1> DEFINE n == [NoDoc EXCEPT !.pid = p, !.place = "folder"]
<1>1. n \in Document /\ n.text = "blank" /\ n.place = "folder" /\ n.pid = p
    BY DEF NoDoc, Document, Facts
<1> HIDE DEF n
<1>2. doc \in [Documents -> Document] /\ product \in Seq(ProductRow)
    BY DEF IInv, Tables
<1>3. doc' \in [Documents -> Document] /\ doc'[d] = n /\ \A e \in Documents : e # d => doc'[e] = doc[e]
    BY <1>1, <1>2 DEF n
<1>4. Tables'
    BY <1>3 DEF IInv, Tables, Spending, LinkBeforeStatus
<1>5. Len(product) \in Nat
    BY <1>2, LenProperties
<1>6. "blank" \notin Notes
    BY Kinds
<1>7. ASSUME NEW e \in Documents
      PROVE  /\ doc'[e].text \in Notes => doc'[e].text = doc[e].text
             /\ doc[e].place \in {"folder", "trash"} => doc'[e] = doc[e]
    BY <1>1, <1>3, <1>6
<1>8. Keeps
    BY <1>5, <1>7 DEF Keeps
<1> QED
    BY <1>4, <1>8

LEMMA CopyTemplateHolds ==
    ASSUME IInv, NEW c \in Clicks, NEW outcome, CopyTemplate(c, outcome)
    PROVE  IInv'
<1>1. PICK x : x = actor[c] /\ ClickGood(x) /\ x.pc = "copy"
    BY ClickHas DEF CopyTemplate
<1>2. UNCHANGED <<row, product, mapping, video>> /\ Spending
    BY Faults DEF CopyTemplate, tables, IInv, Tables
<1>3. PICK d \in Documents : d = Fresh({e \in Documents : doc[e].place = "none"}) /\ doc[d].place = "none"
    BY DEF CopyTemplate, Fresh
<1>4. CASE outcome = "failed"
    BY <1>1, <1>2, <1>4, EndHolds, Names DEF CopyTemplate
<1>5. CASE outcome # "failed"
  <2>1. /\ doc' = [doc EXCEPT ![d] = [NoDoc EXCEPT !.pid = x.pid, !.place = "folder"]]
        /\ copied' = copied \cup {d}
      BY <1>1, <1>3, <1>5 DEF CopyTemplate
  <2>2. session' \in Processes \cup {None} /\ x.pid \in Pids
      BY <1>1 DEF CopyTemplate, End, IInv, Tables, ClickGood, ClickFits
  <2>3. Tables' /\ Keeps
      BY <1>2, <1>3, <2>1, <2>2, CopyWritten
  <2>4. ASSUME NEW y, ClickGood(y), Set(c, y), y.pc \notin {"put", "map", "ask"}
        PROVE  IInv'
    <3>1. Fits(c, y) /\ Sound(c, y)
        BY <2>4, ClickIs
    <3>2. Sound(c, y)'
        BY <2>3, <3>1, Undisturbed DEF IInv, Actors
    <3> QED
        BY <2>3, <2>4, <3>1, <3>2, StepHolds DEF Actors, Looked
  <2>5. CASE outcome = "ok"
    <3> DEFINE y == [x EXCEPT !.pc = "rename", !.doc = d]
    <3>1. "rename" \in Pcs /\ d \in Documents \cup {None}
        BY Names DEF ClickPcs
    <3>2. y \in ActorState
        BY <1>1, <3>1, Zenon DEF ClickGood, ActorState
    <3>3. /\ y.pc = "rename" /\ y.doc = d /\ y.stage = x.stage /\ y.todo = x.todo /\ y.found = x.found
          /\ y.row = x.row /\ y.pid = x.pid /\ y.proc = x.proc
        BY <1>1 DEF ClickGood, ActorState
    <3>4. Set(c, y)
        BY <1>1, <1>3, <2>5 DEF CopyTemplate
    <3> HIDE DEF y
    <3>5. ClickGood(y)
        BY <1>1, <3>2, <3>3, OpensGood DEF Opening
    <3> QED
        BY <2>4, <3>3, <3>4, <3>5
  <2>6. CASE outcome # "ok"
    <3> DEFINE y == [x EXCEPT !.pc = "done", !.outcome = "failed"]
    <3>1. Set(c, y)
        BY <1>1, <2>6 DEF CopyTemplate, End
    <3>2. ClickGood(y) /\ y.pc = "done"
        BY <1>1, DoneGood, Ends, Names DEF ClickGood
    <3> HIDE DEF y
    <3> QED
        BY <2>4, <3>1, <3>2
  <2> QED
      BY <2>5, <2>6
<1> QED
    BY <1>4, <1>5

LEMMA FlushNextHolds ==
    ASSUME IInv, NEW c \in Clicks, FlushNext(c)
    PROVE  IInv'
<1>1. PICK x : x = actor[c] /\ ClickGood(x) /\ x.pc = "flush" /\ x.todo # {}
    BY ClickHas DEF FlushNext
<1> DEFINE y == [x EXCEPT !.pc = "check", !.then = "put"]
<1>2. "put" \in Thens /\ x \in ActorState
    BY <1>1, Names DEF ClickGood
<1>3. /\ y \in ActorState /\ y.pc = "check" /\ y.then = "put" /\ y.stage = x.stage /\ y.todo = x.todo
      /\ y.found = x.found /\ Alike(x, y)
    BY <1>2, Checks
<1>4. Set(c, y) /\ Quietly
    BY <1>1, Spent DEF FlushNext, Quietly, IInv, Tables, tables
<1> HIDE DEF y
<1>5. ClickFits(y) /\ SyncFits(y) /\ SyncSound(y)
    BY <1>1, <1>3
    DEF ClickGood, ClickFits, SyncFits, SyncSound, At, ClickPcs, Early, Opening, Syncing, Alike
<1>6. ClickSound(y)
    BY <1>1, <1>3 DEF ClickGood, ClickSound, Alike
<1> QED
    BY <1>1, <1>3, <1>4, <1>5, <1>6, ClickStep DEF ClickGood

\* A cell of a row is written: a link is never taken back, and a final status follows it.
LEMMA CellWritten ==
    ASSUME IInv, NEW r \in Rows, NEW k \in Cells, NEW v, row' = [row EXCEPT ![r][k] = v],
           k = "link" => v \in Documents,
           k = "card" => v \in Statuses /\ (v \in Final => row[r].link # None),
           k = "video" => v = "queued",
           UNCHANGED <<doc, product, mapping, video, copied, session>>, Spending
    PROVE  Tables' /\ Keeps /\ (k = "link" => row'[r].link # None)
<1>1. row \in [Rows -> CardRow] /\ LinkBeforeStatus /\ product \in Seq(ProductRow)
    BY DEF IInv, Tables
<1>2. /\ row' \in [Rows -> CardRow] /\ (k = "link" => row'[r].link # None)
      /\ \A s \in Rows : /\ row'[s].pid = row[s].pid /\ (row[s].link # None => row'[s].link # None)
                         /\ row'[s].card \in Final => row'[s].link # None
  <2>1. \A s \in Rows : row[s] \in CardRow /\ (row[s].card \in Final => row[s].link # None)
      BY <1>1 DEF LinkBeforeStatus, Final
  <2>2. ASSUME NEW n \in CardRow, row' = [row EXCEPT ![r] = n], n.pid = row[r].pid,
               row[r].link # None \/ k = "link" => n.link # None, n.card \in Final => n.link # None
        PROVE  /\ row' \in [Rows -> CardRow] /\ (k = "link" => row'[r].link # None)
               /\ \A s \in Rows : /\ row'[s].pid = row[s].pid /\ (row[s].link # None => row'[s].link # None)
                                  /\ row'[s].card \in Final => row'[s].link # None
    <3>1. row' \in [Rows -> CardRow] /\ row'[r] = n /\ \A s \in Rows : s # r => row'[s] = row[s]
        BY <1>1, <2>2
    <3>2. ASSUME NEW s \in Rows
          PROVE  /\ row'[s].pid = row[s].pid /\ (row[s].link # None => row'[s].link # None)
                 /\ row'[s].card \in Final => row'[s].link # None
      <4>1. CASE s = r
          BY <2>2, <3>1, <4>1
      <4>2. CASE s # r
          BY <2>1, <3>1, <4>2
      <4> QED
          BY <4>1, <4>2
    <3> QED
        BY <2>2, <3>1, <3>2
  <2>3. CASE k = "link"
    <3> DEFINE n == [row[r] EXCEPT !.link = v]
    <3>1. n \in CardRow /\ n.pid = row[r].pid /\ n.link = v /\ n.card = row[r].card /\ v # None
        BY <2>1, <2>3, Kinds DEF CardRow
    <3>2. row' = [row EXCEPT ![r] = n]
        BY <2>3, <1>1
    <3> HIDE DEF n
    <3> QED
        BY <2>1, <2>2, <3>1, <3>2
  <2>4. CASE k = "card"
    <3> DEFINE n == [row[r] EXCEPT !.card = v]
    <3>1. n \in CardRow /\ n.pid = row[r].pid /\ n.link = row[r].link /\ n.card = v
        BY <2>1, <2>4 DEF CardRow
    <3>2. row' = [row EXCEPT ![r] = n]
        BY <2>4, <1>1
    <3> HIDE DEF n
    <3> QED
        BY <2>1, <2>2, <2>4, <3>1, <3>2
  <2>5. CASE k = "video"
    <3> DEFINE n == [row[r] EXCEPT !.video = v]
    <3>1. n \in CardRow /\ n.pid = row[r].pid /\ n.link = row[r].link /\ n.card = row[r].card
        BY <2>1, <2>5 DEF CardRow
    <3>2. row' = [row EXCEPT ![r] = n]
        BY <2>5, <1>1
    <3> HIDE DEF n
    <3> QED
        BY <2>1, <2>2, <2>5, <3>1, <3>2
  <2> QED
      BY <2>3, <2>4, <2>5 DEF Cells
<1>3. Tables'
    BY <1>2 DEF IInv, Tables, Spending, LinkBeforeStatus, Final
<1>4. Len(product) \in Nat
    BY <1>1, LenProperties
<1>5. Keeps
    BY <1>2, <1>4 DEF Keeps
<1> QED
    BY <1>2, <1>3, <1>5

LEMMA PutCellHolds ==
    ASSUME IInv, NEW c \in Clicks, NEW outcome, PutCell(c, outcome)
    PROVE  IInv'
<1>1. PICK x : x = actor[c] /\ ClickGood(x) /\ x.pc = "put"
    BY ClickHas DEF PutCell
<1>2. UNCHANGED <<doc, product, mapping, video, copied, session>> /\ Spending
    BY Faults DEF PutCell, tables, IInv, Tables
<1>3. PICK k : k = First(x.todo) /\ k \in Cells /\ k \in x.todo
  <2>1. x.todo # {} /\ x.todo \subseteq Cells
      BY <1>1 DEF ClickGood, ClickFits, ActorState, At
  <2> QED
      BY <2>1 DEF First, Cells
<1>4. /\ x.row \in Rows /\ x.pid \in Pids /\ x.proc \in Processes /\ x.doc \in Documents /\ x.stage # "none"
      /\ x.card \in Statuses /\ x \in ActorState
    BY <1>1 DEF ClickGood, ClickFits, At, Early, Opening, ActorState
<1>5. CASE outcome = "failed"
  <2>1. Quietly /\ Set(c, CellFailed(x))
      BY <1>1, <1>2, <1>5 DEF PutCell, Quietly, IInv, Tables
  <2>2. ClickGood(CellFailed(x)) /\ CellFailed(x).pc = "flush"
      BY <1>1, <1>4, CellFailedGood, CellFailedIs DEF At
  <2> QED
      BY <2>1, <2>2, ClickStep
<1>6. CASE outcome # "failed"
  <2> DEFINE v == CASE k = "link" -> x.doc [] k = "card" -> x.card [] k = "video" -> "queued"
  <2>1. row' = [row EXCEPT ![x.row][k] = v]
      BY <1>1, <1>3, <1>6 DEF PutCell
  <2>2. /\ k = "link" => v \in Documents
        /\ k = "card" => v \in Statuses /\ (v \in Final => row[x.row].link # None)
        /\ k = "video" => v = "queued"
      BY <1>1, <1>4 DEF ClickGood, ClickSound
  <2> HIDE DEF v
  <2>3. Tables' /\ Keeps /\ (k = "link" => row'[x.row].link # None)
      BY <1>2, <1>3, <1>4, <2>1, <2>2, CellWritten
  <2>4. CASE outcome # "ok"
    <3>1. Set(c, CellFailed(x))
        BY <1>1, <2>4 DEF PutCell
    <3>2. PICK y : y = CellFailed(x)
        OBVIOUS
    <3>3. ClickGood(y) /\ y.pc = "flush"
        BY <1>1, <1>4, <3>2, CellFailedGood, CellFailedIs DEF At
    <3>4. Fits(c, y) /\ Sound(c, y)
        BY <3>3, ClickIs
    <3>5. Sound(c, y)'
        BY <2>3, <3>4, Undisturbed DEF IInv, Actors
    <3> QED
        BY <2>3, <3>1, <3>2, <3>3, <3>4, <3>5, StepHolds DEF Actors, Looked
  <2>5. CASE outcome = "ok"
    <3> DEFINE y == [x EXCEPT !.pc = "flush", !.todo = @ \ {k}, !.pending = @ \ {k}, !.failed = @ \ {k}]
    <3>1. "flush" \in Pcs /\ x.todo \ {k} \in SUBSET Cells /\ x.pending \ {k} \in SUBSET Cells
          /\ x.failed \ {k} \in SUBSET Cells
        BY <1>4, Names DEF ClickPcs, ActorState
    <3>2. y \in ActorState
        BY <1>4, <3>1, Zenon DEF ActorState
    <3>3. /\ y.pc = "flush" /\ y.stage = x.stage /\ y.row = x.row /\ y.pid = x.pid /\ y.proc = x.proc
          /\ y.doc = x.doc /\ y.card = x.card /\ y.found = x.found
          /\ y.todo = x.todo \ {k} /\ y.failed = x.failed \ {k}
        BY <1>4 DEF ActorState
    <3>4. Set(c, y)
        BY <1>1, <1>3, <2>5 DEF PutCell
    <3> HIDE DEF y
    <3>5. ClickFits(y) /\ SyncFits(y)
        BY <1>1, <1>4, <3>3 DEF ClickGood, ClickFits, SyncFits, At, ClickPcs, Early, Opening, Syncing
    <3>6. Fits(c, y)
        BY <3>2, <3>5, Kinds DEF Fits
    <3>7. ClickSound(y)'
      <4>1. /\ "link" \in x.todo \cup x.failed \/ row[x.row].link # None
            /\ x.card \in Final => row[x.row].link # None
          BY <1>1, <1>4 DEF ClickGood, ClickSound
      <4>2. row[x.row].link # None => row'[x.row].link # None
          BY <1>4, <2>3 DEF Keeps
      <4>3. "link" \in y.todo \cup y.failed \/ row'[x.row].link # None
          BY <2>3, <3>3, <4>1, <4>2
      <4> QED
          BY <3>3, <4>1, <4>2, <4>3 DEF ClickSound
    <3>8. x.found <= Len(product')
        BY <1>1, <1>2 DEF ClickGood
    <3>9. Sound(c, y)'
        BY <3>3, <3>7, <3>8, Kinds DEF Sound, SyncSound
    <3> QED
        BY <2>3, <3>3, <3>4, <3>6, <3>9, StepHolds DEF Actors, Looked
  <2> QED
      BY <2>4, <2>5
<1> QED
    BY <1>5, <1>6

\* A line of the card is to be synchronised.
LEMMA SyncGood ==
    ASSUME NEW x, ClickGood(x), Inside(x), NEW y \in ActorState,
           y.row = x.row, y.pid = x.pid, y.proc = x.proc, y.doc = x.doc, y.todo = x.todo,
           y.failed = x.failed, y.card = x.card, y.found = x.found,
           y.stage \in {"identity", "fill", "placeholder"},
           (y.label = "id" /\ y.value \in Pids) \/ (y.label = "text" /\ y.value \in {"facts", "pending"}),
           y.pc = "read" \/ (y.pc = "check" /\ y.then = "read")
    PROVE  ClickGood(y)
<1>1. /\ x.row \in Rows /\ x.pid \in Pids /\ x.proc \in Processes /\ x.doc \in Documents /\ x.todo = {}
      /\ x.stage # "none"
    BY DEF ClickGood, ClickFits, Inside, At, Early, Opening
<1>2. At(y) = "read" /\ y.pc \in {"read", "check"}
    BY DEF At
<1>3. ClickFits(y) /\ SyncFits(y) /\ SyncSound(y)
    BY <1>1, <1>2 DEF ClickFits, SyncFits, SyncSound, ClickPcs, Early, Opening, Syncing
<1>4. ClickSound(y)
    BY <1>1, <1>2 DEF ClickGood, ClickSound
<1> QED
    BY <1>3, <1>4 DEF ClickGood

\* A step of a click with a card in hand that leads to y.
LEMMA InsideStep ==
    ASSUME IInv, NEW c \in Clicks, NEW y, Set(c, y), ClickGood(y), y.pc \notin {"put", "map", "ask"},
           UNCHANGED <<row, doc, product, mapping, video, copied, session>>, Spending
    PROVE  IInv'
BY ClickStep DEF Quietly, IInv, Tables

LEMMA LinesRead ==
    ASSUME IInv, NEW d \in Documents
    PROVE  Lines(d) \in Read
BY DEF IInv, Tables, Document, Lines, Read

LEMMA PreflightHolds ==
    ASSUME IInv, NEW c \in Clicks, NEW ok \in BOOLEAN, Preflight(c, ok)
    PROVE  IInv'
<1>1. PICK x : x = actor[c] /\ ClickGood(x) /\ x.pc = "preflight"
    BY ClickHas DEF Preflight
<1>2. UNCHANGED <<row, doc, product, mapping, video, copied, session>> /\ Spending
    BY AnswersSpend DEF Preflight, Listing, tables, IInv, Tables
<1>3. Inside(x) /\ x.doc \in Documents /\ x.pid \in Pids /\ x \in ActorState
    BY <1>1 DEF Inside, At, Early, Opening, ClickGood, ClickFits
<1>4. CASE Set(c, Caught(x))
    BY <1>1, <1>2, <1>3, <1>4, CaughtGood, CaughtIs, InsideStep
<1>5. CASE Set(c, Sync([x EXCEPT !.pre = Lines(x.doc)], "identity", "id", x.pid))
  <2> DEFINE w == [x EXCEPT !.pre = Lines(x.doc)]
             y == Sync(w, "identity", "id", x.pid)
  <2>1. Lines(x.doc) \in Read
      BY <1>3, LinesRead
  <2>2. w \in ActorState
      BY <1>3, <2>1, Zenon DEF ActorState
  <2>3. /\ w.row = x.row /\ w.pid = x.pid /\ w.proc = x.proc /\ w.doc = x.doc /\ w.todo = x.todo
        /\ w.failed = x.failed /\ w.card = x.card /\ w.found = x.found
      BY <1>3 DEF ActorState
  <2>4. "identity" \in Stages /\ "id" \in Labels /\ x.pid \in Values
      BY <1>3, Names
  <2> HIDE DEF w
  <2>5. /\ y \in ActorState /\ y.pc = "read" /\ y.stage = "identity" /\ y.label = "id" /\ y.value = x.pid
        /\ y.row = w.row /\ y.pid = w.pid /\ y.proc = w.proc /\ y.doc = w.doc /\ y.todo = w.todo
        /\ y.failed = w.failed /\ y.card = w.card /\ y.found = w.found
      BY <2>2, <2>4, SyncIs
  <2>6. Set(c, y)
      BY <1>5 DEF w
  <2> HIDE DEF y
  <2>7. /\ y.row = x.row /\ y.pid = x.pid /\ y.proc = x.proc /\ y.doc = x.doc /\ y.todo = x.todo
        /\ y.failed = x.failed /\ y.card = x.card /\ y.found = x.found
      BY <2>3, <2>5
  <2>8. y.stage \in {"identity", "fill", "placeholder"} /\ (y.label = "id" /\ y.value \in Pids)
      BY <1>3, <2>5
  <2>9. ClickGood(y)
      BY <1>1, <1>3, <2>5, <2>7, <2>8, SyncGood
  <2> QED
      BY <1>2, <2>5, <2>6, <2>9, InsideStep
<1> QED
    BY <1>1, <1>4, <1>5 DEF Preflight

LEMMA AskCatalogHolds ==
    ASSUME IInv, NEW c \in Clicks, NEW v \in {"facts", "pending", "failed"}, AskCatalog(c, v)
    PROVE  IInv'
<1>1. PICK x : x = actor[c] /\ ClickGood(x) /\ x.pc = "ask"
    BY ClickHas DEF AskCatalog
<1>2. UNCHANGED <<row, doc, product, mapping, video, copied, session>> /\ Spending
    BY Faults DEF AskCatalog, tables, IInv, Tables
<1>3. Inside(x) /\ x \in ActorState
    BY <1>1 DEF Inside, At, Early, Opening, ClickGood, ClickFits
<1>4. CASE v = "failed"
  <2>1. Set(c, Caught(x))
      BY <1>1, <1>4 DEF AskCatalog
  <2> QED
      BY <1>1, <1>2, <1>3, <2>1, CaughtGood, CaughtIs, InsideStep
<1>5. CASE v # "failed"
  <2>1. "fill" \in Stages /\ "text" \in Labels /\ v \in Values /\ v \in {"facts", "pending"} /\ "read" \in Thens
      BY <1>5, Names
  <2>2. PICK w : w = Sync(x, "fill", "text", v)
      OBVIOUS
  <2>3. /\ w \in ActorState /\ w.pc = "read" /\ w.stage = "fill" /\ w.label = "text" /\ w.value = v
        /\ w.row = x.row /\ w.pid = x.pid /\ w.proc = x.proc /\ w.doc = x.doc /\ w.todo = x.todo
        /\ w.failed = x.failed /\ w.card = x.card /\ w.found = x.found
      BY <1>3, <2>1, <2>2, SyncIs
  <2> DEFINE y == [w EXCEPT !.pc = "check", !.then = "read"]
  <2>4. /\ y \in ActorState /\ y.pc = "check" /\ y.then = "read" /\ y.stage = w.stage /\ y.todo = w.todo
        /\ y.found = w.found /\ Alike(w, y) /\ LineAlike(w, y)
      BY <2>1, <2>3, Checks
  <2>5. Set(c, y)
      BY <1>1, <1>5, <2>2 DEF AskCatalog
  <2> HIDE DEF y
  <2>6. ClickGood(y)
      BY <1>1, <1>3, <2>1, <2>3, <2>4, SyncGood DEF Alike, LineAlike
  <2> QED
      BY <1>2, <2>4, <2>5, <2>6, InsideStep
<1> QED
    BY <1>4, <1>5

LEMMA VerifyCardHolds ==
    ASSUME IInv, NEW c \in Clicks, NEW ok \in BOOLEAN, VerifyCard(c, ok)
    PROVE  IInv'
<1>1. PICK x : x = actor[c] /\ ClickGood(x) /\ x.pc = "verify"
    BY ClickHas DEF VerifyCard
<1>2. UNCHANGED <<row, doc, product, mapping, video, copied, session>> /\ Spending
    BY AnswersSpend DEF VerifyCard, Listing, tables, IInv, Tables
<1>3. Inside(x) /\ x.doc \in Documents /\ x \in ActorState
    BY <1>1 DEF Inside, At, Early, Opening, ClickGood, ClickFits
<1>4. CASE Set(c, Caught(x))
    BY <1>1, <1>2, <1>3, <1>4, CaughtGood, CaughtIs, InsideStep
<1>5. CASE Set(c, Accepted(x, Lines(x.doc)))
  <2>1. ClickGood(Accepted(x, Lines(x.doc)))
      BY <1>1, <1>3, LinesRead, AcceptedGood
  <2>2. Accepted(x, Lines(x.doc)).pc \in {"check", "product"}
      BY <1>3 DEF Accepted, Caught, ActorState
  <2> QED
      BY <1>2, <1>5, <2>1, <2>2, InsideStep
<1> QED
    BY <1>1, <1>4, <1>5 DEF VerifyCard

LEMMA ReadLatestHolds ==
    ASSUME IInv, NEW c \in Clicks, NEW ok \in BOOLEAN, ReadLatest(c, ok)
    PROVE  IInv'
<1>1. PICK x : x = actor[c] /\ ClickGood(x) /\ x.pc = "latest"
    BY ClickHas DEF ReadLatest
<1>2. UNCHANGED <<row, doc, product, mapping, video, copied, session>> /\ Spending
    BY AnswersSpend DEF ReadLatest, Listing, tables, IInv, Tables
<1>3. Inside(x) /\ x.doc \in Documents /\ x.stage # "none" /\ x \in ActorState
    BY <1>1 DEF Inside, At, Early, Opening, ClickGood, ClickFits
<1>4. CASE Set(c, [x EXCEPT !.pc = "product"])
  <2> DEFINE y == [x EXCEPT !.pc = "product"]
  <2>1. "product" \in Pcs
      BY Names DEF ClickPcs
  <2>2. /\ y \in ActorState /\ y.pc = "product" /\ y.stage = x.stage /\ y.todo = x.todo /\ y.found = x.found
        /\ Alike(x, y)
      BY <1>3, <2>1, Goes
  <2> HIDE DEF y
  <2>3. ClickGood(y)
      BY <1>1, <1>3, <2>2, Proceeds DEF Alike
  <2> QED
      BY <1>2, <1>4, <2>2, <2>3, InsideStep DEF y
<1>5. CASE Set(c, Sync([x EXCEPT !.pre = Lines(x.doc)], "placeholder", "text", "pending"))
  <2> DEFINE w == [x EXCEPT !.pre = Lines(x.doc)]
             y == Sync(w, "placeholder", "text", "pending")
  <2>1. Lines(x.doc) \in Read
      BY <1>3, LinesRead
  <2>2. w \in ActorState
      BY <1>3, <2>1, Zenon DEF ActorState
  <2>3. /\ w.row = x.row /\ w.pid = x.pid /\ w.proc = x.proc /\ w.doc = x.doc /\ w.todo = x.todo
        /\ w.failed = x.failed /\ w.card = x.card /\ w.found = x.found
      BY <1>3 DEF ActorState
  <2>4. "placeholder" \in Stages /\ "text" \in Labels /\ "pending" \in Values
      BY Names
  <2> HIDE DEF w
  <2>5. /\ y \in ActorState /\ y.pc = "read" /\ y.stage = "placeholder" /\ y.label = "text" /\ y.value = "pending"
        /\ y.row = w.row /\ y.pid = w.pid /\ y.proc = w.proc /\ y.doc = w.doc /\ y.todo = w.todo
        /\ y.failed = w.failed /\ y.card = w.card /\ y.found = w.found
      BY <2>2, <2>4, SyncIs
  <2>6. Set(c, y)
      BY <1>5 DEF w
  <2> HIDE DEF y
  <2>7. /\ y.row = x.row /\ y.pid = x.pid /\ y.proc = x.proc /\ y.doc = x.doc /\ y.todo = x.todo
        /\ y.failed = x.failed /\ y.card = x.card /\ y.found = x.found
      BY <2>3, <2>5
  <2>8. y.stage \in {"identity", "fill", "placeholder"} /\ (y.label = "text" /\ y.value \in {"facts", "pending"})
      BY <1>3, <2>5
  <2>9. ClickGood(y)
      BY <1>1, <1>3, <2>5, <2>7, <2>8, SyncGood
  <2> QED
      BY <1>2, <2>5, <2>6, <2>9, InsideStep
<1> QED
    BY <1>1, <1>4, <1>5 DEF ReadLatest

LEMMA FindProductHolds ==
    ASSUME IInv, NEW c \in Clicks, NEW ok \in BOOLEAN, FindProduct(c, ok)
    PROVE  IInv'
<1>1. PICK x : x = actor[c] /\ ClickGood(x) /\ x.pc = "product"
    BY ClickHas DEF FindProduct
<1>2. UNCHANGED <<row, doc, product, mapping, video, copied>> /\ Spending
    BY Faults DEF FindProduct, tables, IInv, Tables
<1>3. CASE End(c, "failed")
    BY <1>1, <1>2, <1>3, EndHolds, Names
<1>4. ASSUME NEW k \in {0} \cup DOMAIN product, UNCHANGED session, Set(c, [x EXCEPT !.pc = "save", !.found = k])
      PROVE  IInv'
  <2> DEFINE y == [x EXCEPT !.pc = "save", !.found = k]
  <2>0. "save" \in Pcs
      BY Names DEF ClickPcs
  <2>1. k \in Nat /\ k <= Len(product)
      BY LenProperties DEF IInv, Tables
  <2>2. y \in ActorState
      BY <1>1, <2>0, <2>1, Zenon DEF ClickGood, ActorState
  <2>3. /\ y.pc = "save" /\ y.found = k /\ y.stage = x.stage /\ y.todo = x.todo /\ y.failed = x.failed
        /\ y.row = x.row /\ y.pid = x.pid /\ y.proc = x.proc /\ y.doc = x.doc /\ y.card = x.card
      BY <1>1 DEF ClickGood, ActorState
  <2> HIDE DEF y
  <2>4. /\ ClickFits(y) /\ SyncFits(y) /\ ClickSound(y) /\ SyncSound(y)
      BY <1>1, <2>3
      DEF ClickGood, ClickFits, SyncFits, ClickSound, SyncSound, At, ClickPcs, Early, Opening, Syncing
  <2> QED
      BY <1>2, <1>4, <2>1, <2>2, <2>3, <2>4, InsideStep DEF y, ClickGood
<1> QED
    BY <1>1, <1>3, <1>4 DEF FindProduct, OfPid

\* A product is added, or one is written.
LEMMA ProductWritten ==
    ASSUME IInv, NEW n \in ProductRow, NEW k \in Nat, k <= Len(product),
           product' = IF k = 0 THEN Append(product, n) ELSE [product EXCEPT ![k] = n],
           UNCHANGED <<row, doc, mapping, video, copied>>, session' \in Processes \cup {None}, Spending
    PROVE  /\ Tables' /\ Keeps
           /\ LET found == IF k = 0 THEN Len(product') ELSE k IN
              found \in Nat /\ found # 0 /\ found <= Len(product')
<1>1. product \in Seq(ProductRow) /\ Len(product) \in Nat
    BY LenProperties DEF IInv, Tables
<1>2. /\ product' \in Seq(ProductRow) /\ Len(product) <= Len(product') /\ DOMAIN product \subseteq DOMAIN product'
      /\ Len(product') \in Nat /\ (k = 0 => Len(product') # 0)
  <2>1. CASE k = 0
    <3>1. /\ Append(product, n) \in Seq(ProductRow) /\ Len(Append(product, n)) = Len(product) + 1
          /\ DOMAIN product = 1 .. Len(product) /\ DOMAIN Append(product, n) = 1 .. Len(product) + 1
        BY <1>1, AppendProperties, LenProperties
    <3> QED
        BY <1>1, <2>1, <3>1
  <2>2. CASE k # 0
    <3>1. k \in 1 .. Len(product)
        BY <1>1, <2>2
    <3>2. /\ [product EXCEPT ![k] = n] \in Seq(ProductRow) /\ Len([product EXCEPT ![k] = n]) = Len(product)
        BY <1>1, <3>1, ExceptSeq
    <3>3. DOMAIN product' = DOMAIN product
        BY <2>2
    <3> QED
        BY <1>1, <2>2, <3>2, <3>3
  <2> QED
      BY <2>1, <2>2
<1>3. Tables'
  <2>1. mapping \in [Rows -> [product : DOMAIN product', doc : Documents] \cup {[product |-> 0, doc |-> None]}]
      BY <1>2 DEF IInv, Tables
  <2> QED
      BY <1>2, <2>1 DEF IInv, Tables, Spending, LinkBeforeStatus
<1>4. Keeps
    BY <1>2 DEF Keeps
<1> QED
    BY <1>1, <1>2, <1>3, <1>4

LEMMA SaveProductHolds ==
    ASSUME IInv, NEW c \in Clicks, NEW ok \in BOOLEAN, SaveProduct(c, ok)
    PROVE  IInv'
<1>1. PICK x : x = actor[c] /\ ClickGood(x) /\ x.pc = "save"
    BY ClickHas DEF SaveProduct
<1>2. UNCHANGED <<row, doc, mapping, video, copied>> /\ Spending
    BY Faults DEF SaveProduct, IInv, Tables
<1>3. CASE ~ok
  <2>1. UNCHANGED product /\ End(c, "failed")
      BY <1>3 DEF SaveProduct
  <2> QED
      BY <1>1, <1>2, <2>1, EndHolds, Names
<1>4. CASE ok
  <2>1. /\ x \in ActorState /\ x.row \in Rows /\ x.pid \in Pids /\ x.proc \in Processes /\ x.doc \in Documents
        /\ x.todo = {} /\ x.stage # "none" /\ x.found \in Nat /\ x.found <= Len(product)
      BY <1>1 DEF ClickGood, ClickFits, At, Early, Opening, ActorState
  <2> DEFINE n == [pid |-> x.pid, doc |-> x.doc]
             found == IF x.found = 0 THEN Len(product') ELSE x.found
             y == [x EXCEPT !.pc = "check", !.then = "map", !.stage = "map", !.found = found]
  <2>2. n \in ProductRow
      BY <2>1 DEF ProductRow
  <2>3. product' = IF x.found = 0 THEN Append(product, n) ELSE [product EXCEPT ![x.found] = n]
      BY <1>1, <1>4 DEF SaveProduct
  <2>4. session' \in Processes \cup {None} /\ Set(c, y)
      BY <1>1, <1>4, <2>1 DEF SaveProduct, IInv, Tables, ActorState
  <2> HIDE DEF n
  <2>5. Tables' /\ Keeps /\ found \in Nat /\ found # 0 /\ found <= Len(product')
      BY <1>2, <2>1, <2>2, <2>3, <2>4, ProductWritten
  <2>6. PICK k : k = found
      OBVIOUS
  <2> HIDE DEF found
  <2>7. PICK z : z = [x EXCEPT !.pc = "check", !.then = "map", !.stage = "map", !.found = k]
      OBVIOUS
  <2>8. "check" \in Pcs /\ "map" \in Thens /\ "map" \in Stages /\ k \in Nat
      BY <2>5, <2>6, Names DEF ClickPcs
  <2>9. z \in ActorState
      BY <2>1, <2>7, <2>8, Zenon DEF ActorState
  <2>10. /\ z.pc = "check" /\ z.then = "map" /\ z.stage = "map" /\ z.found = k
         /\ z.row = x.row /\ z.pid = x.pid /\ z.proc = x.proc /\ z.doc = x.doc /\ z.todo = x.todo
         /\ z.failed = x.failed /\ z.card = x.card
      BY <2>1, <2>7 DEF ActorState
  <2>11. Set(c, z)
      BY <2>4, <2>6, <2>7
  <2>12. ClickFits(z) /\ SyncFits(z)
      BY <2>1, <2>5, <2>6, <2>10 DEF ClickFits, SyncFits, At, ClickPcs, Early, Opening, Syncing
  <2>13. Fits(c, z)
      BY <2>9, <2>12, Kinds DEF Fits
  <2>14. ClickSound(z)'
      BY <1>1, <1>2, <2>1, <2>10 DEF ClickGood, ClickSound
  <2>15. Sound(c, z)'
      BY <2>5, <2>6, <2>10, <2>14, Kinds DEF Sound, SyncSound
  <2> QED
      BY <2>5, <2>10, <2>11, <2>13, <2>15, StepHolds DEF Actors, Looked
<1> QED
    BY <1>3, <1>4

LEMMA FlushGood ==
    ASSUME NEW x, ClickGood(x), Inside(x), NEW w \in ActorState, NEW cells \in SUBSET Cells,
           w.row = x.row, w.pid = x.pid, w.proc = x.proc, w.doc = x.doc, w.failed = x.failed, w.found = x.found,
           w.stage # "none", w.card \in Final => row[x.row].link # None
    PROVE  ClickGood(Flush(w, cells)) /\ Flush(w, cells).pc = "flush"
<1>1. /\ x.row \in Rows /\ x.pid \in Pids /\ x.proc \in Processes /\ x.doc \in Documents /\ x.todo = {}
      /\ x.stage # "none"
    BY DEF ClickGood, ClickFits, Inside, At, Early, Opening
<1>2. PICK y : y = Flush(w, cells)
    OBVIOUS
<1>3. /\ y \in ActorState /\ y.pc = "flush" /\ y.stage = w.stage
      /\ y.row = w.row /\ y.pid = w.pid /\ y.proc = w.proc /\ y.doc = w.doc
      /\ y.failed = w.failed /\ y.card = w.card /\ y.found = w.found
    BY <1>2, FlushIs
<1>4. ClickFits(y) /\ SyncFits(y) /\ SyncSound(y)
    BY <1>1, <1>3 DEF ClickFits, SyncFits, SyncSound, At, ClickPcs, Early, Opening, Syncing
<1>5. ClickSound(y)
    BY <1>1, <1>3 DEF ClickGood, ClickSound
<1> QED
    BY <1>2, <1>3, <1>4, <1>5 DEF ClickGood

LEMMA MapCardHolds ==
    ASSUME IInv, NEW c \in Clicks, NEW ok \in BOOLEAN, MapCard(c, ok)
    PROVE  IInv'
<1>1. PICK x : x = actor[c] /\ ClickGood(x) /\ x.pc = "map"
    BY ClickHas DEF MapCard
<1>2. UNCHANGED <<row, doc, product, video, copied>> /\ Spending
    BY Faults DEF MapCard, IInv, Tables
<1>3. CASE ~ok
  <2>1. UNCHANGED mapping /\ End(c, "failed")
      BY <1>3 DEF MapCard
  <2> QED
      BY <1>1, <1>2, <2>1, EndHolds, Names
<1>4. CASE ok
  <2>1. /\ x \in ActorState /\ x.row \in Rows /\ x.doc \in Documents /\ x.stage # "none" /\ Inside(x)
        /\ x.found \in Nat /\ x.found # 0 /\ x.found <= Len(product)
      BY <1>1 DEF ClickGood, ClickFits, At, Early, Opening, ActorState, Inside
  <2>2. x.found \in DOMAIN product
      BY <2>1, LenProperties DEF IInv, Tables
  <2>3. mapping' = [mapping EXCEPT ![x.row] = [product |-> x.found, doc |-> x.doc]]
      BY <1>1, <1>4 DEF MapCard
  <2>4. mapping' \in [Rows -> [product : DOMAIN product, doc : Documents] \cup {[product |-> 0, doc |-> None]}]
      BY <2>1, <2>2, <2>3 DEF IInv, Tables
  <2>5. Tables' /\ Keeps
    <3>1. UNCHANGED session
        BY <1>4 DEF MapCard
    <3>2. Len(product) \in Nat
        BY LenProperties DEF IInv, Tables
    <3> QED
        BY <1>2, <2>4, <3>1, <3>2 DEF IInv, Tables, Spending, LinkBeforeStatus, Keeps
  <2> DEFINE w == [x EXCEPT !.stage = "again"]
  <2>6. "again" \in Stages /\ {} \in SUBSET Cells
      BY Names
  <2>7. w \in ActorState
      BY <2>1, <2>6, Zenon DEF ActorState
  <2>8. /\ w.stage = "again" /\ w.row = x.row /\ w.pid = x.pid /\ w.proc = x.proc /\ w.doc = x.doc
        /\ w.failed = x.failed /\ w.found = x.found /\ w.card = x.card
      BY <2>1 DEF ActorState
  <2>9. Set(c, Flush(w, {}))
      BY <1>1, <1>4 DEF MapCard
  <2>10. w.card \in Final => row[x.row].link # None
      BY <1>1, <2>1, <2>8 DEF ClickGood, ClickSound
  <2> HIDE DEF w
  <2>11. PICK y : y = Flush(w, {})
      OBVIOUS
  <2>12. ClickGood(y) /\ y.pc = "flush"
      BY <1>1, <2>1, <2>6, <2>7, <2>8, <2>10, <2>11, FlushGood
  <2>13. Fits(c, y) /\ Sound(c, y)
      BY <2>12, ClickIs
  <2>14. Sound(c, y)'
      BY <2>5, <2>13, Undisturbed DEF IInv, Actors
  <2> QED
      BY <2>5, <2>9, <2>11, <2>12, <2>13, <2>14, StepHolds DEF Actors, Looked
<1> QED
    BY <1>3, <1>4

LEMMA FlushedHolds ==
    ASSUME IInv, NEW c \in Clicks, Flushed(c)
    PROVE  IInv'
<1>1. PICK x : x = actor[c] /\ ClickGood(x) /\ x.pc = "flush" /\ x.todo = {}
    BY ClickHas DEF Flushed
<1>2. UNCHANGED <<row, doc, product, mapping, video, copied>> /\ Spending
    BY Spent DEF Flushed, tables, IInv, Tables
<1>3. /\ x \in ActorState /\ Inside(x) /\ x.row \in Rows /\ x.stage # "none"
    BY <1>1 DEF ClickGood, ClickFits, At, Early, Opening, Inside
<1>4. PICK w : w = Decide(x)
    OBVIOUS
<1>5. /\ w \in ActorState /\ w.stage = x.stage /\ w.then = x.then
      /\ w.row = x.row /\ w.pid = x.pid /\ w.proc = x.proc /\ w.doc = x.doc /\ w.todo = x.todo
      /\ w.failed = x.failed /\ w.found = x.found /\ (w.card \in Final => "link" \notin x.failed)
    BY <1>3, <1>4, DecideIs
<1>6. w.card \in Final => row[x.row].link # None
    BY <1>1, <1>3, <1>5 DEF ClickGood, ClickSound
<1>7. ASSUME NEW outcome \in {"partial", "completed"}, End(c, outcome)
      PROVE  IInv'
    BY <1>1, <1>2, <1>7, EndHolds, Names
<1>8. CASE UNCHANGED session /\ Set(c, [x EXCEPT !.pc = "preflight"])
  <2> DEFINE y == [x EXCEPT !.pc = "preflight"]
  <2>1. "preflight" \in Pcs
      BY Names DEF ClickPcs
  <2>2. /\ y \in ActorState /\ y.pc = "preflight" /\ y.stage = x.stage /\ y.todo = x.todo /\ y.found = x.found
        /\ Alike(x, y)
      BY <1>3, <2>1, Goes
  <2> HIDE DEF y
  <2>3. ClickGood(y)
      BY <1>1, <1>3, <2>2, Proceeds DEF Alike
  <2> QED
      BY <1>2, <1>8, <2>2, <2>3, InsideStep DEF y
<1>9. CASE UNCHANGED session /\ Set(c, [w EXCEPT !.pc = "video"])
  <2> DEFINE y == [w EXCEPT !.pc = "video"]
  <2>1. "video" \in Pcs
      BY Names DEF ClickPcs
  <2>2. /\ y \in ActorState /\ y.pc = "video" /\ y.stage = w.stage /\ y.todo = w.todo /\ y.found = w.found
        /\ Alike(w, y)
      BY <1>5, <2>1, Goes
  <2> HIDE DEF y
  <2>3. ClickFits(y) /\ SyncFits(y) /\ SyncSound(y)
      BY <1>1, <1>3, <1>5, <2>2
      DEF ClickGood, ClickFits, SyncFits, SyncSound, At, ClickPcs, Early, Opening, Syncing, Alike
  <2>4. ClickSound(y)
      BY <1>1, <1>3, <1>5, <1>6, <2>2 DEF ClickGood, ClickSound, Alike
  <2>5. ClickGood(y)
      BY <1>1, <1>5, <2>2, <2>3, <2>4 DEF ClickGood
  <2> QED
      BY <1>2, <1>9, <2>2, <2>5, InsideStep DEF y
<1>10. CASE UNCHANGED session /\ Set(c, Flush([w EXCEPT !.stage = "last"], {"card"}))
  <2> DEFINE v == [w EXCEPT !.stage = "last"]
  <2>1. "last" \in Stages /\ {"card"} \in SUBSET Cells
      BY Names
  <2>2. v \in ActorState
      BY <1>5, <2>1, Zenon DEF ActorState
  <2>3. /\ v.stage = "last" /\ v.row = x.row /\ v.pid = x.pid /\ v.proc = x.proc /\ v.doc = x.doc
        /\ v.failed = x.failed /\ v.found = x.found /\ v.card = w.card
      BY <1>5 DEF ActorState
  <2> HIDE DEF v
  <2>4. ClickGood(Flush(v, {"card"})) /\ Flush(v, {"card"}).pc = "flush"
      BY <1>1, <1>3, <1>6, <2>1, <2>2, <2>3, FlushGood
  <2> QED
      BY <1>2, <1>10, <2>4, InsideStep DEF v
<1>11. CASE x.stage = "last"
    BY <1>1, <1>7, <1>11 DEF Flushed
<1>12. CASE x.stage # "last"
  <2>1. UNCHANGED session
      BY <1>1, <1>12 DEF Flushed
  <2>2. CASE x.stage = "early"
      BY <1>1, <1>8, <1>12, <2>1, <2>2 DEF Flushed
  <2>3. CASE x.stage # "early" /\ budget.videos
      BY <1>1, <1>4, <1>9, <1>12, <2>1, <2>3 DEF Flushed
  <2>4. CASE x.stage # "early" /\ ~budget.videos
      BY <1>1, <1>4, <1>10, <1>12, <2>1, <2>4 DEF Flushed
  <2> QED
      BY <2>2, <2>3, <2>4
<1> QED
    BY <1>11, <1>12

LEMMA CreateCardVideoHolds ==
    ASSUME IInv, NEW c \in Clicks, NEW ok \in BOOLEAN, CreateCardVideo(c, ok)
    PROVE  IInv'
<1>1. PICK x : x = actor[c] /\ ClickGood(x) /\ x.pc = "video"
    BY ClickHas DEF CreateCardVideo
<1>2. UNCHANGED <<row, doc, product, mapping, copied>> /\ Spending
    BY Faults DEF CreateCardVideo, IInv, Tables
<1>3. CASE ~ok
  <2>1. UNCHANGED video /\ End(c, "failed")
      BY <1>3 DEF CreateCardVideo
  <2> QED
      BY <1>1, <1>2, <2>1, EndHolds, Names
<1>4. CASE ok
  <2>1. x \in ActorState /\ x.row \in Rows /\ x.stage # "none" /\ Inside(x)
      BY <1>1 DEF ClickGood, ClickFits, At, Early, Opening, Inside
  <2>2. UNCHANGED session /\ video' \in [Clicks -> {"none", "created", "owned"}]
      BY <1>4 DEF CreateCardVideo, IInv, Tables
  <2>3. Tables' /\ Keeps
    <3>1. Len(product) \in Nat
        BY LenProperties DEF IInv, Tables
    <3> QED
        BY <1>2, <2>2, <3>1 DEF IInv, Tables, Spending, LinkBeforeStatus, Keeps
  <2>4. ASSUME NEW y, ClickGood(y), Set(c, y), y.pc \notin {"put", "map", "ask"}
        PROVE  IInv'
    <3>1. Fits(c, y) /\ Sound(c, y)
        BY <2>4, ClickIs
    <3>2. Sound(c, y)'
        BY <2>3, <3>1, Undisturbed DEF IInv, Actors
    <3> QED
        BY <2>3, <2>4, <3>1, <3>2, StepHolds DEF Actors, Looked
  <2>5. CASE video[c] = "none"
    <3>1. Set(c, x)
        BY <1>1, <1>4, <2>5 DEF CreateCardVideo
    <3> QED
        BY <1>1, <2>4, <3>1
  <2>6. CASE video[c] # "none"
    <3> DEFINE w == [x EXCEPT !.stage = "last"]
    <3>1. "last" \in Stages /\ {"card", "video"} \in SUBSET Cells
        BY Names
    <3>2. w \in ActorState
        BY <2>1, <3>1, Zenon DEF ActorState
    <3>3. /\ w.stage = "last" /\ w.row = x.row /\ w.pid = x.pid /\ w.proc = x.proc /\ w.doc = x.doc
          /\ w.failed = x.failed /\ w.found = x.found /\ w.card = x.card
        BY <2>1 DEF ActorState
    <3>4. w.card \in Final => row[x.row].link # None
        BY <1>1, <2>1, <3>3 DEF ClickGood, ClickSound
    <3>5. Set(c, Flush(w, {"card", "video"}))
        BY <1>1, <1>4, <2>6 DEF CreateCardVideo
    <3> HIDE DEF w
    <3>6. ClickGood(Flush(w, {"card", "video"})) /\ Flush(w, {"card", "video"}).pc = "flush"
        BY <1>1, <2>1, <3>1, <3>2, <3>3, <3>4, FlushGood
    <3> QED
        BY <2>4, <3>5, <3>6
  <2> QED
      BY <2>5, <2>6
<1> QED
    BY <1>3, <1>4

-----------------------------------------------------------------------------
(* One line of a card, for a click or a repair.                            *)

LEMMA RepairDone ==
    ASSUME NEW x, RepairGood(x)
    PROVE  RepairGood([x EXCEPT !.pc = "done"])
<1> DEFINE y == [x EXCEPT !.pc = "done"]
<1>1. "done" \in Pcs /\ x \in ActorState
    BY Names DEF ClickPcs, RepairGood
<1>2. y \in ActorState /\ y.pc = "done" /\ y.found = x.found
    BY <1>1, Goes
<1> HIDE DEF y
<1>3. RepairFits(y) /\ SyncFits(y) /\ SyncSound(y)
    BY <1>2 DEF RepairFits, RepairPcs, SyncFits, SyncSound, At, Syncing
<1> QED
    BY <1>2, <1>3 DEF RepairGood, y

\* What is known of an actor that synchronises, and where it goes afterwards.
LEMMA SyncHas ==
    ASSUME IInv, NEW a \in Clicks \cup Repairs, NEW x, x = actor[a], x.pc \in Syncing
    PROVE  /\ x \in ActorState /\ x.doc \in Documents /\ SyncFits(x) /\ SyncSound(x)
           /\ Fits(a, x) /\ Sound(a, x)
           /\ Fits(a, Synced(x)) /\ Sound(a, Synced(x)) /\ Looked(a, Synced(x))
           /\ Fits(a, SyncFailed(x)) /\ Sound(a, SyncFailed(x)) /\ Looked(a, SyncFailed(x))
<1>1. CASE a \in Clicks
  <2>1. ClickGood(x)
      BY <1>1, ClickHas
  <2>2. x.doc \in Documents
      BY <2>1 DEF ClickGood, ClickFits, At, Syncing, Early
  <2>3. /\ ClickGood(Synced(x)) /\ ClickGood(SyncFailed(x))
      BY <2>1, SyncedGood, SyncFailedGood
  <2>4. Synced(x).pc \notin {"put", "map", "ask"} /\ SyncFailed(x).pc \notin {"put", "map", "ask"}
    <3>1. x \in ActorState /\ x.stage \in {"identity", "fill", "placeholder"}
        BY <2>1 DEF ClickGood, ClickFits, At, Syncing
    <3>2. Synced(x).pc \in {"product", "check", "verify"}
        BY <3>1 DEF Synced, Accepted, Caught, ActorState
    <3>3. SyncFailed(x).pc \in {"product", "check"}
        BY <3>1 DEF SyncFailed, Caught, ActorState
    <3> QED
        BY <3>2, <3>3
  <2> QED
      BY <1>1, <2>1, <2>2, <2>3, <2>4, ClickIs DEF ClickGood, Looked
<1>2. CASE a \in Repairs
  <2>1. RepairGood(x)
      BY <1>2, RepairHas
  <2>2. x.doc \in Documents /\ x.stage = "repair"
      BY <2>1 DEF RepairGood, RepairFits, Syncing
  <2>3. Synced(x) = [x EXCEPT !.pc = "done"] /\ SyncFailed(x) = [x EXCEPT !.pc = "done"]
      BY <2>2 DEF Synced, SyncFailed
  <2>4. a \notin Clicks
      BY <1>2, Kinds
  <2> QED
      BY <1>2, <2>1, <2>2, <2>3, <2>4, RepairDone, RepairIs DEF RepairGood, Looked
<1> QED
    BY <1>1, <1>2

\* The call goes on with the same line.
LEMMA SyncGoesOn ==
    ASSUME NEW a \in Clicks \cup Repairs, NEW x, Fits(a, x), Sound(a, x), x.pc \in Syncing,
           NEW y \in ActorState, y.pc \in {"look", "write"}, SyncFits(y), SyncSound(y),
           y.stage = x.stage, y.todo = x.todo, y.found = x.found, Alike(x, y)
    PROVE  Fits(a, y) /\ Sound(a, y) /\ Looked(a, y)
<1>1. ASSUME a \in Clicks PROVE ClickFits(y) /\ ClickSound(y)
  <2>1. ClickFits(x) /\ ClickSound(x)
      BY <1>1 DEF Fits, Sound
  <2>2. ClickFits(y)
      BY <2>1 DEF ClickFits, At, ClickPcs, Early, Opening, Syncing, Alike
  <2>3. ClickSound(y)
      BY <2>1 DEF ClickSound, Alike
  <2> QED
      BY <2>2, <2>3
<1>2. ASSUME a \in Repairs PROVE RepairFits(y)
  <2>1. RepairFits(x)
      BY <1>2 DEF Fits
  <2> QED
      BY <2>1 DEF RepairFits, RepairPcs, Syncing, Alike
<1>3. a \notin Lookups /\ a \notin Moves
    BY Kinds
<1>4. y.found <= Len(product)
    BY DEF Sound
<1> QED
    BY <1>1, <1>2, <1>3, <1>4 DEF Fits, Sound, Looked

LEMMA LineIs ==
    ASSUME IInv, NEW a \in Clicks \cup Repairs, actor[a].doc \in Documents
    PROVE  /\ actor[a].label = "id" => Line(a) = doc[actor[a].doc].id
           /\ actor[a].label = "text" => Line(a) = doc[actor[a].doc].text
           /\ actor[a].label \in Labels => Line(a) \in Values
<1>1. doc[actor[a].doc].id \in Values /\ doc[actor[a].doc].text \in Values
    BY DEF IInv, Tables, Document, Values
<1> QED
    BY <1>1 DEF Line, Labels

LEMMA ReadLineHolds ==
    ASSUME IInv, NEW a \in Clicks \cup Repairs, NEW ok \in BOOLEAN, ReadLine(a, ok)
    PROVE  IInv'
<1>1. PICK x : x = actor[a] /\ x.pc = "read"
    BY DEF ReadLine
<1>2. Quietly
    BY AnswersSpend DEF ReadLine, Listing, tables, IInv, Tables, Quietly
<1>3. /\ x \in ActorState /\ x.doc \in Documents /\ SyncFits(x)
      /\ Fits(a, x) /\ Sound(a, x)
      /\ Fits(a, Synced(x)) /\ Sound(a, Synced(x)) /\ Looked(a, Synced(x))
      /\ Fits(a, SyncFailed(x)) /\ Sound(a, SyncFailed(x)) /\ Looked(a, SyncFailed(x))
    BY <1>1, SyncHas DEF Syncing
<1>4. CASE Set(a, Synced(x)) \/ Set(a, SyncFailed(x))
    BY <1>2, <1>3, <1>4, QuietStep DEF Actors
<1>5. CASE Wanted(x, Line(a)) /\ Set(a, [x EXCEPT !.pc = "look", !.base = Line(a)])
  <2>1. PICK l : l = Line(a)
      OBVIOUS
  <2>2. x.label \in Labels /\ "look" \in Pcs
      BY <1>3, Names DEF ClickPcs, ActorState
  <2>3. l \in Values
      BY <1>1, <1>3, <2>1, <2>2, LineIs
  <2> DEFINE y == [x EXCEPT !.pc = "look", !.base = l]
  <2>4. y \in ActorState
      BY <1>3, <2>2, <2>3, Zenon DEF ActorState
  <2>5. /\ y.pc = "look" /\ y.base = l /\ y.stage = x.stage /\ y.todo = x.todo /\ y.found = x.found
        /\ y.pre = x.pre /\ y.label = x.label /\ y.value = x.value /\ y.refresh = x.refresh /\ Alike(x, y)
      BY <1>3 DEF ActorState, Alike
  <2> HIDE DEF y
  <2>6. x.label = "text" => l = x.pre.text /\ (l \notin Missing => x.refresh)
    <3>1. l = x.pre[x.label] /\ (x.label = "text" /\ l \notin Missing => x.refresh)
        BY <1>5, <2>1 DEF Wanted
    <3> QED
        BY <3>1
  <2>7. SyncFits(y) /\ SyncSound(y)
      BY <1>1, <1>3, <2>5, <2>6 DEF SyncFits, SyncSound, At, Syncing
  <2>8. Fits(a, y) /\ Sound(a, y) /\ Looked(a, y)
      BY <1>1, <1>3, <2>4, <2>5, <2>7, SyncGoesOn DEF Syncing
  <2> QED
      BY <1>2, <1>5, <2>1, <2>8, QuietStep DEF Actors, y
<1> QED
    BY <1>1, <1>4, <1>5 DEF ReadLine

LEMMA LookAgainHolds ==
    ASSUME IInv, NEW a \in Clicks \cup Repairs, NEW ok \in BOOLEAN, LookAgain(a, ok)
    PROVE  IInv'
<1>1. PICK x : x = actor[a] /\ x.pc = "look"
    BY DEF LookAgain
<1>2. Quietly
    BY AnswersSpend DEF LookAgain, tables, IInv, Tables, Quietly
<1>3. /\ x \in ActorState /\ x.doc \in Documents /\ SyncFits(x)
      /\ Fits(a, x) /\ Sound(a, x)
      /\ Fits(a, Synced(x)) /\ Sound(a, Synced(x)) /\ Looked(a, Synced(x))
      /\ Fits(a, SyncFailed(x)) /\ Sound(a, SyncFailed(x)) /\ Looked(a, SyncFailed(x))
    BY <1>1, SyncHas DEF Syncing
<1>4. CASE Set(a, Synced(x)) \/ Set(a, SyncFailed(x))
    BY <1>2, <1>3, <1>4, QuietStep DEF Actors
<1>5. CASE Line(a) = x.base /\ Set(a, [x EXCEPT !.pc = "write", !.blind = FALSE])
  <2> DEFINE y == [x EXCEPT !.pc = "write", !.blind = FALSE]
  <2>1. "write" \in Pcs
      BY Names DEF ClickPcs
  <2>2. y \in ActorState
      BY <1>3, <2>1, Zenon DEF ActorState
  <2>3. /\ y.pc = "write" /\ y.base = x.base /\ y.stage = x.stage /\ y.todo = x.todo /\ y.found = x.found
        /\ y.pre = x.pre /\ y.label = x.label /\ y.value = x.value /\ y.refresh = x.refresh /\ Alike(x, y)
      BY <1>3 DEF ActorState, Alike
  <2> HIDE DEF y
  <2>4. SyncFits(y)
      BY <1>1, <1>3, <2>3 DEF SyncFits, At, Syncing
  <2>5. SyncSound(y)
    <3>1. x.label = "text" => doc[x.doc].text = x.base
        BY <1>1, <1>3, <1>5, LineIs
    <3> QED
        BY <2>3, <3>1 DEF SyncSound, Alike
  <2>6. Fits(a, y) /\ Sound(a, y) /\ Looked(a, y)
      BY <1>1, <1>3, <2>2, <2>3, <2>4, <2>5, SyncGoesOn DEF Syncing
  <2> QED
      BY <1>2, <1>5, <2>6, QuietStep DEF Actors, y
<1> QED
    BY <1>1, <1>4, <1>5 DEF LookAgain

\* A document is written.
LEMMA DocWritten ==
    ASSUME IInv, NEW d \in Documents, NEW n \in Document, doc' = [doc EXCEPT ![d] = n],
           n.text \in Notes => n.text = doc[d].text,
           doc[d].place \in {"folder", "trash"} =>
               n.place \in {"folder", "trash"} /\ (doc[d].owner = "team" => n.owner = "team"),
           UNCHANGED <<row, product, mapping, video, copied, session>>, Spending
    PROVE  Tables' /\ Keeps
<1>1. doc \in [Documents -> Document] /\ product \in Seq(ProductRow)
    BY DEF IInv, Tables
<1>2. doc' \in [Documents -> Document] /\ doc'[d] = n /\ \A e \in Documents : e # d => doc'[e] = doc[e]
    BY <1>1
<1>3. ASSUME NEW e \in Documents
      PROVE  /\ doc'[e].text \in Notes => doc'[e].text = doc[e].text
             /\ doc[e].place \in {"folder", "trash"} =>
                   doc'[e].place \in {"folder", "trash"} /\ (doc[e].owner = "team" => doc'[e].owner = "team")
    BY <1>2
<1>4. Len(product) \in Nat
    BY <1>1, LenProperties
<1>5. Keeps
    BY <1>3, <1>4 DEF Keeps
<1> QED
    BY <1>2, <1>5 DEF IInv, Tables, Spending, LinkBeforeStatus

\* A line is written: never with something that people have to write.
LEMMA LineWritten ==
    ASSUME IInv, NEW d \in Documents, NEW label, NEW value,
           (label = "id" /\ value \in Pids) \/ (label = "text" /\ value \in {"facts", "pending"}),
           doc' = [doc EXCEPT ![d][label] = value],
           UNCHANGED <<row, product, mapping, video, copied, session>>, Spending
    PROVE  Tables' /\ Keeps
<1>1. doc \in [Documents -> Document]
    BY DEF IInv, Tables
<1>3. CASE label = "id" /\ value \in Pids
  <2> DEFINE n == [doc[d] EXCEPT !.id = value]
  <2>1. n \in Document /\ n.place = doc[d].place /\ n.owner = doc[d].owner /\ n.text = doc[d].text
      BY <1>1, <1>3 DEF Document
  <2>2. doc' = [doc EXCEPT ![d] = n]
      BY <1>1, <1>3
  <2> HIDE DEF n
  <2> QED
      BY <2>1, <2>2, DocWritten
<1>4. CASE label = "text" /\ value \in {"facts", "pending"}
  <2> DEFINE n == [doc[d] EXCEPT !.text = value]
  <2>1. n \in Document /\ n.place = doc[d].place /\ n.owner = doc[d].owner /\ n.text \in {"facts", "pending"}
      BY <1>1, <1>4 DEF Document, Facts
  <2>2. doc' = [doc EXCEPT ![d] = n]
      BY <1>1, <1>4
  <2>3. "facts" \notin Notes /\ "pending" \notin Notes
      BY Kinds
  <2> HIDE DEF n
  <2> QED
      BY <2>1, <2>2, <2>3, DocWritten
<1> QED
    BY <1>3, <1>4

LEMMA WriteLineHolds ==
    ASSUME IInv, NEW a \in Clicks \cup Repairs, NEW outcome, WriteLine(a, outcome)
    PROVE  IInv'
<1>1. PICK x : x = actor[a] /\ x.pc = "write"
    BY DEF WriteLine
<1>2. UNCHANGED <<row, product, mapping, video, copied, session>> /\ Spending
    BY Faults, Spent DEF WriteLine, tables, IInv, Tables
<1>3. /\ x \in ActorState /\ x.doc \in Documents /\ SyncFits(x)
      /\ Fits(a, Synced(x)) /\ Sound(a, Synced(x)) /\ Looked(a, Synced(x))
      /\ Fits(a, SyncFailed(x)) /\ Sound(a, SyncFailed(x)) /\ Looked(a, SyncFailed(x))
    BY <1>1, SyncHas DEF Syncing
<1>4. Tables' /\ Keeps
  <2>1. CASE outcome = "failed"
    <3>1. Quietly
        BY <1>1, <1>2, <2>1 DEF WriteLine, Quietly, IInv, Tables
    <3> QED
        BY <3>1, QuietTables DEF IInv
  <2>2. CASE outcome # "failed"
    <3>1. doc' = [doc EXCEPT ![x.doc][x.label] = x.value]
        BY <1>1, <2>2 DEF WriteLine
    <3>2. (x.label = "id" /\ x.value \in Pids) \/ (x.label = "text" /\ x.value \in {"facts", "pending"})
        BY <1>1, <1>3 DEF SyncFits, At, Syncing
    <3> QED
        BY <1>2, <1>3, <3>1, <3>2, LineWritten
  <2> QED
      BY <2>1, <2>2
<1>5. ASSUME NEW y, Set(a, y), Fits(a, y), Sound(a, y), Looked(a, y)
      PROVE  IInv'
  <2>1. Sound(a, y)'
      BY <1>4, <1>5, Undisturbed DEF IInv, Actors
  <2>2. Looked(a, y)'
      BY <1>2, <1>5 DEF Looked
  <2> QED
      BY <1>4, <1>5, <2>1, <2>2, StepHolds DEF Actors
<1>6. Set(a, Synced(x)) \/ Set(a, SyncFailed(x))
    BY <1>1 DEF WriteLine
<1> QED
    BY <1>3, <1>5, <1>6

-----------------------------------------------------------------------------
(* Repairs and lookups.                                                    *)

LEMMA StartRepairHolds ==
    ASSUME IInv, NEW b \in Repairs, NEW p \in budget.at, NEW refresh \in BOOLEAN, NEW k \in DOMAIN product,
           StartRepair(b, p, refresh, k)
    PROVE  IInv'
<1> DEFINE y == [Idle EXCEPT !.pc = "first", !.proc = p, !.refresh = refresh,
                             !.pid = product[k].pid, !.doc = product[k].doc, !.stage = "repair"]
<1>1. product[k].pid \in Pids /\ product[k].doc \in Documents /\ p \in Processes
  <2>1. product[k] \in ProductRow
      BY ElementOfSeq, LenProperties DEF IInv, Tables
  <2> QED
      BY <2>1 DEF ProductRow, StartRepair, IInv, Tables, Scenario
<1>2. "first" \in Pcs /\ "repair" \in Stages /\ p \in Processes \cup {None}
      /\ product[k].pid \in Pids \cup {None} /\ product[k].doc \in Documents \cup {None}
    BY <1>1, Names DEF RepairPcs
<1>3. y \in ActorState
    BY <1>2, IdleFits, Zenon DEF ActorState
<1>4. y.pc = "first" /\ y.doc = product[k].doc /\ y.stage = "repair" /\ y.found = 0
    BY IdleFits DEF ActorState, Idle
<1>5. Set(b, y) /\ Quietly
    BY Spent DEF StartRepair, Quietly, IInv, Tables, tables
<1> HIDE DEF y
<1>6. RepairFits(y) /\ SyncFits(y) /\ SyncSound(y)
    BY <1>1, <1>4 DEF RepairFits, RepairPcs, SyncFits, SyncSound, At, Syncing
<1>7. y.found <= Len(product)
    BY <1>4, LenProperties DEF IInv, Tables
<1> QED
    BY <1>3, <1>5, <1>6, <1>7, RepairStepHolds DEF RepairGood

LEMMA RepairPreflightHolds ==
    ASSUME IInv, NEW b \in Repairs, NEW ok \in BOOLEAN, RepairPreflight(b, ok)
    PROVE  IInv'
<1>1. PICK x : x = actor[b] /\ RepairGood(x) /\ x.pc = "first"
    BY RepairHas DEF RepairPreflight
<1>2. Quietly
    BY AnswersSpend DEF RepairPreflight, Listing, tables, IInv, Tables, Quietly
<1>3. PICK pc \in {"facts", "done"} : Set(b, [x EXCEPT !.pc = pc, !.pre = Lines(x.doc)])
  <2>1. CASE ok /\ Lines(x.doc).id = x.pid /\ (x.refresh \/ Lines(x.doc).text \in Missing)
      BY <1>1, <2>1 DEF RepairPreflight
  <2>2. CASE ~(ok /\ Lines(x.doc).id = x.pid /\ (x.refresh \/ Lines(x.doc).text \in Missing))
      BY <1>1, <2>2 DEF RepairPreflight
  <2> QED
      BY <2>1, <2>2
<1> DEFINE y == [x EXCEPT !.pc = pc, !.pre = Lines(x.doc)]
<1>4. x \in ActorState /\ x.doc \in Documents /\ x.stage = "repair"
    BY <1>1 DEF RepairGood, RepairFits
<1>5. pc \in Pcs /\ Lines(x.doc) \in Read
    BY <1>4, LinesRead, Names DEF RepairPcs
<1>6. y \in ActorState
    BY <1>4, <1>5, Zenon DEF ActorState
<1>7. y.pc = pc /\ y.doc = x.doc /\ y.stage = x.stage /\ y.found = x.found
    BY <1>4 DEF ActorState
<1> HIDE DEF y
<1>8. RepairFits(y) /\ SyncFits(y) /\ SyncSound(y)
    BY <1>4, <1>7 DEF RepairFits, RepairPcs, SyncFits, SyncSound, At, Syncing
<1> QED
    BY <1>1, <1>2, <1>3, <1>6, <1>7, <1>8, RepairStepHolds DEF RepairGood, y

LEMMA RepairFactsHolds ==
    ASSUME IInv, NEW b \in Repairs, NEW v \in {"facts", "pending", "failed"}, RepairFacts(b, v)
    PROVE  IInv'
<1>1. PICK x : x = actor[b] /\ RepairGood(x) /\ x.pc = "facts"
    BY RepairHas DEF RepairFacts
<1>2. Quietly
    BY Faults DEF RepairFacts, tables, IInv, Tables, Quietly
<1>3. x \in ActorState /\ x.doc \in Documents /\ x.stage = "repair"
    BY <1>1 DEF RepairGood, RepairFits
<1>4. PICK known \in {"facts", "pending"} :
         Set(b, [x EXCEPT !.pc = "done"]) \/ Set(b, Sync(x, "repair", "text", known))
  <2> DEFINE known == IF v = "failed" THEN "pending" ELSE v
  <2>1. known \in {"facts", "pending"}
      OBVIOUS
  <2>2. Set(b, [x EXCEPT !.pc = "done"]) \/ Set(b, Sync(x, "repair", "text", known))
      BY <1>1 DEF RepairFacts
  <2> HIDE DEF known
  <2> QED
      BY <2>1, <2>2
<1>5. CASE Set(b, [x EXCEPT !.pc = "done"])
    BY <1>1, <1>2, <1>5, RepairDone, RepairStepHolds
<1>6. CASE Set(b, Sync(x, "repair", "text", known))
  <2>1. PICK y : y = Sync(x, "repair", "text", known)
      OBVIOUS
  <2>2. "repair" \in Stages /\ "text" \in Labels /\ known \in Values
      BY Names
  <2>3. /\ y \in ActorState /\ y.pc = "read" /\ y.stage = "repair" /\ y.label = "text" /\ y.value = known
        /\ y.doc = x.doc /\ y.found = x.found
      BY <1>3, <2>1, <2>2, SyncIs
  <2>4. RepairFits(y) /\ SyncFits(y) /\ SyncSound(y)
      BY <1>3, <2>3 DEF RepairFits, RepairPcs, SyncFits, SyncSound, At, Syncing
  <2> QED
      BY <1>1, <1>2, <1>6, <2>1, <2>3, <2>4, RepairStepHolds DEF RepairGood
<1> QED
    BY <1>4, <1>5, <1>6

LEMMA LookupIs ==
    ASSUME NEW l \in Lookups, NEW x
    PROVE  /\ Fits(l, x) /\ Sound(l, x) <=> x \in ActorState /\ LookupFits(x) /\ x.found <= Len(product)
           /\ Looked(l, x) /\ l \in Actors
BY Kinds DEF Fits, Sound, Looked, Actors

LEMMA StartLookupHolds ==
    ASSUME IInv, NEW l \in Lookups, NEW r \in Rows, StartLookup(l, r)
    PROVE  IInv'
<1> DEFINE y == [Idle EXCEPT !.pc = "list", !.pid = row[r].pid]
<1>1. row[r].pid \in Pids \cup {None} /\ "list" \in Pcs
    BY Names DEF LookupPcs, IInv, Tables, CardRow
<1>2. y \in ActorState
    BY <1>1, IdleFits, Zenon DEF ActorState
<1>3. y.pc = "list" /\ y.found = 0
    BY IdleFits DEF ActorState, Idle
<1>4. Set(l, y) /\ Quietly
    BY Spent DEF StartLookup, Quietly, IInv, Tables, tables
<1> HIDE DEF y
<1>5. LookupFits(y) /\ y.found <= Len(product)
    BY <1>3, LenProperties DEF LookupFits, LookupPcs, IInv, Tables
<1> QED
    BY <1>2, <1>4, <1>5, LookupIs, QuietStep

LEMMA LookupHas ==
    ASSUME IInv, NEW l \in Lookups
    PROVE  actor[l] \in ActorState /\ LookupFits(actor[l]) /\ actor[l].found <= Len(product)
<1>1. PICK x : x = actor[l]
    OBVIOUS
<1>2. Fits(l, x) /\ Sound(l, x)
    BY <1>1, LookupIs DEF IInv
<1> QED
    BY <1>1, <1>2, LookupIs

LEMMA ListProductsHolds ==
    ASSUME IInv, NEW l \in Lookups, NEW named \in SUBSET DOMAIN product, ListProducts(l, named)
    PROVE  IInv'
<1>1. PICK x : x = actor[l] /\ x \in ActorState /\ LookupFits(x) /\ x.found <= Len(product)
    BY LookupHas
<1>2. Quietly
    BY Spent DEF ListProducts, tables, IInv, Tables, Quietly
<1>3. CASE Set(l, [x EXCEPT !.pc = "create"])
  <2> DEFINE y == [x EXCEPT !.pc = "create"]
  <2>1. "create" \in Pcs
      BY Names DEF LookupPcs
  <2>2. y \in ActorState /\ y.pc = "create" /\ y.found = x.found
      BY <1>1, <2>1, Goes
  <2> HIDE DEF y
  <2>3. LookupFits(y) /\ y.found <= Len(product)
      BY <1>1, <2>2 DEF LookupFits, LookupPcs
  <2> QED
      BY <1>2, <1>3, <2>2, <2>3, LookupIs, QuietStep DEF y
<1>4. ASSUME NEW k \in DOMAIN product, NEW pc \in {"reread", "done"}, Set(l, [x EXCEPT !.found = k, !.pc = pc])
      PROVE  IInv'
  <2> DEFINE y == [x EXCEPT !.found = k, !.pc = pc]
  <2>1. pc \in Pcs
      BY Names DEF LookupPcs
  <2>2. k \in Nat /\ k # 0 /\ k <= Len(product)
      BY LenProperties DEF IInv, Tables
  <2>3. y \in ActorState
      BY <1>1, <2>1, <2>2, Zenon DEF ActorState
  <2>4. y.pc = pc /\ y.found = k
      BY <1>1 DEF ActorState
  <2> HIDE DEF y
  <2>5. LookupFits(y) /\ y.found <= Len(product)
      BY <2>2, <2>4 DEF LookupFits, LookupPcs
  <2> QED
      BY <1>2, <1>4, <2>3, <2>5, LookupIs, QuietStep DEF y
<1>5. \/ Set(l, [x EXCEPT !.pc = "create"])
      \/ \E k \in DOMAIN product, pc \in {"reread", "done"} : Set(l, [x EXCEPT !.found = k, !.pc = pc])
  <2>1. CASE Set(l, [x EXCEPT !.pc = "create"])
      BY <2>1
  <2>2. ASSUME NEW k \in DOMAIN product,
               Set(l, [x EXCEPT !.found = k,
                                !.pc = IF x.pid # None /\ product[k].pid = None THEN "reread" ELSE "done"])
        PROVE  \E pc \in {"reread", "done"} : Set(l, [x EXCEPT !.found = k, !.pc = pc])
    <3>1. PICK pc : pc = IF x.pid # None /\ product[k].pid = None THEN "reread" ELSE "done"
        OBVIOUS
    <3> QED
        BY <2>2, <3>1
  <2> QED
      BY <1>1, <2>1, <2>2 DEF ListProducts, OfPid
<1> QED
    BY <1>3, <1>4, <1>5

LEMMA RereadProductHolds ==
    ASSUME IInv, NEW l \in Lookups, RereadProduct(l)
    PROVE  IInv'
<1>1. PICK x : x = actor[l] /\ x \in ActorState /\ LookupFits(x) /\ x.found <= Len(product) /\ x.pc = "reread"
    BY LookupHas DEF RereadProduct
<1>2. Quietly
    BY Spent DEF RereadProduct, tables, IInv, Tables, Quietly
<1>3. product[x.found] \in ProductRow
  <2>1. x.found \in 1 .. Len(product)
      BY <1>1, LenProperties DEF LookupFits, ActorState, IInv, Tables
  <2> QED
      BY <2>1, ElementOfSeq DEF IInv, Tables
<1> DEFINE y == [x EXCEPT !.pc = "create", !.copy = product[x.found]]
<1>4. "create" \in Pcs
    BY Names DEF LookupPcs
<1>5. y \in ActorState
    BY <1>1, <1>3, <1>4, Zenon DEF ActorState
<1>6. y.pc = "create" /\ y.found = x.found
    BY <1>1 DEF ActorState
<1>7. Set(l, y)
    BY <1>1 DEF RereadProduct
<1> HIDE DEF y
<1>8. LookupFits(y) /\ y.found <= Len(product)
    BY <1>1, <1>6 DEF LookupFits, LookupPcs
<1> QED
    BY <1>2, <1>5, <1>7, <1>8, LookupIs, QuietStep

LEMMA StoreProductHolds ==
    ASSUME IInv, NEW l \in Lookups, StoreProduct(l)
    PROVE  IInv'
<1>1. PICK x : x = actor[l] /\ x \in ActorState /\ LookupFits(x) /\ x.found <= Len(product)
    BY LookupHas
<1>2. UNCHANGED <<row, doc, mapping, video, copied, session>> /\ Spending
    BY Spent DEF StoreProduct, IInv, Tables
<1>3. x.found \in Nat /\ x.pid \in Pids \cup {None} /\ x.copy \in ProductRow
    BY <1>1 DEF ActorState
<1> DEFINE n == IF x.found = 0 THEN [pid |-> x.pid, doc |-> None] ELSE [x.copy EXCEPT !.pid = x.pid]
<1>4. n \in ProductRow
    BY <1>3 DEF ProductRow
<1>5. product' = IF x.found = 0 THEN Append(product, n) ELSE [product EXCEPT ![x.found] = n]
    BY <1>1 DEF StoreProduct
<1> HIDE DEF n
<1>6. Tables' /\ Keeps
    BY <1>1, <1>2, <1>3, <1>4, <1>5, ProductWritten DEF IInv, Tables
<1> DEFINE y == [x EXCEPT !.pc = "done"]
<1>7. "done" \in Pcs
    BY Names DEF LookupPcs
<1>8. y \in ActorState /\ y.pc = "done" /\ y.found = x.found
    BY <1>1, <1>7, Goes
<1>9. Set(l, y)
    BY <1>1 DEF StoreProduct, Go
<1>10. PICK z : z = y
    OBVIOUS
<1> HIDE DEF y
<1>11. LookupFits(z) /\ z.found <= Len(product)
    BY <1>1, <1>8, <1>10 DEF LookupFits, LookupPcs
<1>12. Fits(l, z) /\ Sound(l, z) /\ l \in Actors
    BY <1>8, <1>10, <1>11, LookupIs
<1>13. Sound(l, z)'
    BY <1>6, <1>12, Undisturbed DEF IInv
<1>14. Looked(l, z)'
    BY Kinds DEF Looked
<1> QED
    BY <1>6, <1>9, <1>10, <1>12, <1>13, <1>14, StepHolds

-----------------------------------------------------------------------------
(* Migrations, and the owner of a document.                                *)

MoveGood(x) == x \in ActorState /\ MoveFits(x) /\ MoveSound(x) /\ x.found <= Len(product)

LEMMA MoveIs ==
    ASSUME NEW m \in Moves, NEW x
    PROVE  /\ Fits(m, x) /\ Sound(m, x) <=> MoveGood(x)
           /\ Looked(m, x) /\ m \in Actors
BY Kinds DEF Fits, Sound, Looked, Actors, MoveGood

LEMMA MoveHas ==
    ASSUME IInv, NEW m \in Moves
    PROVE  MoveGood(actor[m])
<1>1. PICK x : x = actor[m]
    OBVIOUS
<1>2. Fits(m, x) /\ Sound(m, x)
    BY <1>1, MoveIs DEF IInv
<1> QED
    BY <1>1, <1>2, MoveIs

LEMMA MoveStep ==
    ASSUME IInv, NEW m \in Moves, NEW y, Set(m, y), MoveGood(y), Tables', Keeps
    PROVE  IInv'
<1>1. Fits(m, y) /\ Sound(m, y) /\ m \in Actors
    BY MoveIs
<1>2. Sound(m, y)'
    BY <1>1, Undisturbed DEF IInv
<1>3. Looked(m, y)'
    BY Kinds DEF Looked
<1> QED
    BY <1>1, <1>2, <1>3, StepHolds

\* The next document, whatever became of the one before.
LEMMA MovedGood ==
    ASSUME NEW x, MoveGood(x), x.doc \in Documents, NEW ok \in BOOLEAN,
           ok => Placed(x.doc) /\ doc[x.doc].owner = "team"
    PROVE  MoveGood(Moved(x, ok))
<1> DEFINE y == Moved(x, ok)
           done == IF ok THEN x.ok \cup {x.doc} ELSE x.ok
<1>1. x \in ActorState /\ "next" \in Pcs
    BY Names DEF MovePcs, MoveGood
<1>2. done \in SUBSET Documents
    BY <1>1 DEF ActorState
<1>3. y = [x EXCEPT !.pc = "next", !.ok = done]
    BY <1>1 DEF Moved, ActorState
<1>4. \A d \in done : Placed(d) /\ doc[d].owner = "team"
    BY DEF MoveGood, MoveSound
<1> HIDE DEF done
<1>5. [x EXCEPT !.pc = "next", !.ok = done] \in ActorState
    BY <1>1, <1>2, Zenon DEF ActorState
<1>6. y \in ActorState /\ y.pc = "next" /\ y.ok = done /\ y.found = x.found
    BY <1>1, <1>3, <1>5 DEF ActorState
<1> HIDE DEF y
<1>7. MoveFits(y) /\ MoveSound(y)
    BY <1>4, <1>6 DEF MoveFits, MovePcs, MoveSound
<1> QED
    BY <1>6, <1>7 DEF MoveGood, y

\* A migration goes on with the same document.
LEMMA MoveGoesOn ==
    ASSUME NEW x, MoveGood(x), NEW y \in ActorState, y.pc \in MovePcs,
           y.pc \notin {"idle", "next", "done"} => y.doc \in Documents,
           y.pc \in {"owner", "transfer", "confirm"} => Placed(y.doc),
           y.ok = x.ok, y.found = x.found
    PROVE  MoveGood(y)
BY DEF MoveGood, MoveFits, MoveSound

LEMMA StartMigrationHolds ==
    ASSUME IInv, NEW m \in Moves, NEW p \in budget.at, StartMigration(m, p)
    PROVE  IInv'
<1> DEFINE docs == {product[k].doc : k \in DOMAIN product} \ {None}
           y == [Idle EXCEPT !.pc = "next", !.proc = p, !.docs = docs]
<1>1. docs \in SUBSET Documents
  <2>1. ASSUME NEW k \in DOMAIN product PROVE product[k].doc \in Documents \cup {None}
    <3>1. product[k] \in ProductRow
        BY ElementOfSeq, LenProperties DEF IInv, Tables
    <3> QED
        BY <3>1 DEF ProductRow
  <2> QED
      BY <2>1
<1>2. p \in Processes \cup {None} /\ "next" \in Pcs
    BY Names DEF IInv, Tables, Scenario, MovePcs
<1>3. Set(m, y) /\ Quietly
    BY Spent DEF StartMigration, Quietly, IInv, Tables, tables
<1> HIDE DEF docs
<1>4. y \in ActorState
    BY <1>1, <1>2, IdleFits, Zenon DEF ActorState
<1>5. y.pc = "next" /\ y.ok = {} /\ y.found = 0
    BY IdleFits DEF ActorState, Idle
<1>6. PICK z : z = y
    OBVIOUS
<1> HIDE DEF y
<1>7. MoveGood(z)
    BY <1>4, <1>5, <1>6, LenProperties DEF MoveGood, MoveFits, MovePcs, MoveSound, IInv, Tables
<1> QED
    BY <1>3, <1>6, <1>7, MoveStep, QuietTables DEF IInv

LEMMA NextDocumentHolds ==
    ASSUME IInv, NEW m \in Moves, NextDocument(m)
    PROVE  IInv'
<1>1. PICK x : x = actor[m] /\ MoveGood(x) /\ x.pc = "next"
    BY MoveHas DEF NextDocument
<1>2. Quietly
    BY Spent DEF NextDocument, tables, IInv, Tables, Quietly
<1>3. x \in ActorState /\ x.docs \in SUBSET Documents
    BY <1>1 DEF MoveGood, ActorState
<1>4. CASE Set(m, [x EXCEPT !.pc = "done"])
  <2> DEFINE y == [x EXCEPT !.pc = "done"]
  <2>1. "done" \in Pcs
      BY Names DEF MovePcs
  <2>2. y \in ActorState /\ y.pc = "done" /\ y.found = x.found /\ Alike(x, y)
      BY <1>3, <2>1, Goes
  <2> HIDE DEF y
  <2>3. MoveGood(y)
      BY <1>1, <2>2, MoveGoesOn DEF Alike, MovePcs
  <2> QED
      BY <1>2, <1>4, <2>3, MoveStep, QuietTables DEF IInv, y
<1>5. ASSUME NEW d \in x.docs, Set(m, [x EXCEPT !.pc = "locate", !.doc = d, !.docs = @ \ {d}])
      PROVE  IInv'
  <2> DEFINE y == [x EXCEPT !.pc = "locate", !.doc = d, !.docs = @ \ {d}]
  <2>1. "locate" \in Pcs /\ d \in Documents \cup {None} /\ x.docs \ {d} \in SUBSET Documents
      BY <1>3, Names DEF MovePcs
  <2>2. y \in ActorState
      BY <1>3, <2>1, Zenon DEF ActorState
  <2>3. y.pc = "locate" /\ y.doc = d /\ y.ok = x.ok /\ y.found = x.found
      BY <1>3 DEF ActorState
  <2> HIDE DEF y
  <2>4. MoveGood(y)
      BY <1>1, <1>3, <2>2, <2>3, MoveGoesOn DEF MovePcs
  <2> QED
      BY <1>2, <1>5, <2>4, MoveStep, QuietTables DEF IInv, y
<1> QED
    BY <1>1, <1>4, <1>5 DEF NextDocument, Go

LEMMA LocateDocumentHolds ==
    ASSUME IInv, NEW m \in Moves, NEW ok \in BOOLEAN, LocateDocument(m, ok)
    PROVE  IInv'
<1>1. PICK x : x = actor[m] /\ MoveGood(x) /\ x.pc = "locate"
    BY MoveHas DEF LocateDocument
<1>2. Quietly
    BY Faults DEF LocateDocument, tables, IInv, Tables, Quietly
<1>3. x \in ActorState /\ x.doc \in Documents
    BY <1>1 DEF MoveGood, MoveFits
<1>4. CASE Set(m, Moved(x, FALSE))
    BY <1>1, <1>2, <1>3, <1>4, MovedGood, MoveStep, QuietTables DEF IInv
<1>5. ASSUME NEW pc \in {"owner", "move"}, Set(m, [x EXCEPT !.pc = pc]), pc = "owner" => Placed(x.doc)
      PROVE  IInv'
  <2> DEFINE y == [x EXCEPT !.pc = pc]
  <2>1. pc \in Pcs
      BY Names DEF MovePcs
  <2>2. y \in ActorState /\ y.pc = pc /\ y.found = x.found /\ Alike(x, y)
      BY <1>3, <2>1, Goes
  <2> HIDE DEF y
  <2>3. MoveGood(y)
      BY <1>1, <1>3, <1>5, <2>2, MoveGoesOn DEF Alike, MovePcs
  <2> QED
      BY <1>2, <1>5, <2>3, MoveStep, QuietTables DEF IInv, y
<1>6. CASE ok /\ doc[x.doc].place = "folder"
    BY <1>1, <1>5, <1>6 DEF LocateDocument, Placed
<1>7. CASE ok /\ doc[x.doc].place # "folder"
    BY <1>1, <1>5, <1>7 DEF LocateDocument
<1> QED
    BY <1>1, <1>4, <1>6, <1>7 DEF LocateDocument

LEMMA MoveDocumentHolds ==
    ASSUME IInv, NEW m \in Moves, NEW outcome, MoveDocument(m, outcome)
    PROVE  IInv'
<1>1. PICK x : x = actor[m] /\ MoveGood(x) /\ x.pc = "move"
    BY MoveHas DEF MoveDocument
<1>2. UNCHANGED <<row, product, mapping, video, copied, session>> /\ Spending
    BY AnswersSpend DEF MoveDocument, tables, IInv, Tables
<1>3. x \in ActorState /\ x.doc \in Documents
    BY <1>1 DEF MoveGood, MoveFits
<1>4. Tables' /\ Keeps
  <2>1. CASE UNCHANGED doc
      BY <1>2, <2>1, QuietTables DEF Quietly, IInv, Tables
  <2>2. CASE doc[x.doc].place = "elsewhere" /\ doc' = [doc EXCEPT ![x.doc].place = "moving"]
    <3> DEFINE n == [doc[x.doc] EXCEPT !.place = "moving"]
    <3>1. doc[x.doc] \in Document /\ doc' = [doc EXCEPT ![x.doc] = n]
        BY <1>3, <2>2 DEF IInv, Tables
    <3>2. n \in Document /\ n.text = doc[x.doc].text
        BY <3>1 DEF Document
    <3> HIDE DEF n
    <3> QED
        BY <1>2, <1>3, <2>2, <3>1, <3>2, DocWritten
  <2> QED
      BY <1>1, <2>1, <2>2 DEF MoveDocument
<1>5. CASE Set(m, Moved(x, FALSE))
    BY <1>1, <1>3, <1>4, <1>5, MovedGood, MoveStep
<1>6. CASE Set(m, [x EXCEPT !.pc = "arrive", !.tries = 1])
  <2> DEFINE y == [x EXCEPT !.pc = "arrive", !.tries = 1]
  <2>0. 1 \in 0 .. 3
      OBVIOUS
  <2>1. "arrive" \in Pcs
      BY Names DEF MovePcs
  <2>2. y \in ActorState
      BY <1>3, <2>0, <2>1, Zenon DEF ActorState
  <2>3. y.pc = "arrive" /\ y.doc = x.doc /\ y.ok = x.ok /\ y.found = x.found
      BY <1>3 DEF ActorState
  <2> HIDE DEF y
  <2>4. MoveGood(y)
      BY <1>1, <1>3, <2>2, <2>3, MoveGoesOn DEF MovePcs
  <2> QED
      BY <1>4, <1>6, <2>4, MoveStep DEF y
<1> QED
    BY <1>1, <1>5, <1>6 DEF MoveDocument

LEMMA ConfirmMoveHolds ==
    ASSUME IInv, NEW m \in Moves, NEW ok \in BOOLEAN, ConfirmMove(m, ok)
    PROVE  IInv'
<1>1. PICK x : x = actor[m] /\ MoveGood(x) /\ x.pc = "arrive"
    BY MoveHas DEF ConfirmMove
<1>2. Quietly
    BY Faults DEF ConfirmMove, tables, IInv, Tables, Quietly
<1>3. x \in ActorState /\ x.doc \in Documents /\ x.tries \in 0 .. 3
    BY <1>1 DEF MoveGood, MoveFits, ActorState
<1>4. CASE ok /\ doc[x.doc].place = "folder"
  <2> DEFINE y == [x EXCEPT !.pc = "owner"]
  <2>1. Set(m, y)
      BY <1>1, <1>4 DEF ConfirmMove
  <2>2. "owner" \in Pcs
      BY Names DEF MovePcs
  <2>3. y \in ActorState /\ y.pc = "owner" /\ y.found = x.found /\ Alike(x, y)
      BY <1>3, <2>2, Goes
  <2> HIDE DEF y
  <2>4. MoveGood(y)
      BY <1>1, <1>3, <1>4, <2>3, MoveGoesOn DEF Alike, MovePcs, Placed
  <2> QED
      BY <1>2, <2>1, <2>4, MoveStep, QuietTables DEF IInv
<1>5. CASE ok /\ doc[x.doc].place # "folder" /\ x.tries < 3
  <2> DEFINE y == [x EXCEPT !.tries = @ + 1]
  <2>1. Set(m, y)
      BY <1>1, <1>5 DEF ConfirmMove
  <2>2. x.tries + 1 \in 0 .. 3
      BY <1>3, <1>5
  <2>3. y \in ActorState
      BY <1>3, <2>2, Zenon DEF ActorState
  <2>4. y.pc = "arrive" /\ y.doc = x.doc /\ y.ok = x.ok /\ y.found = x.found
      BY <1>1, <1>3 DEF ActorState
  <2> HIDE DEF y
  <2>5. MoveGood(y)
      BY <1>1, <1>3, <2>3, <2>4, MoveGoesOn DEF MovePcs
  <2> QED
      BY <1>2, <2>1, <2>5, MoveStep, QuietTables DEF IInv
<1>6. CASE ~(ok /\ doc[x.doc].place = "folder") /\ ~(ok /\ doc[x.doc].place # "folder" /\ x.tries < 3)
  <2>1. Set(m, Moved(x, FALSE))
      BY <1>1, <1>6 DEF ConfirmMove
  <2> QED
      BY <1>1, <1>2, <1>3, <2>1, MovedGood, MoveStep, QuietTables DEF IInv
<1> QED
    BY <1>4, <1>5, <1>6

\* An actor at the owner of a document, and where it goes when that is settled.
LEMMA OwnerHas ==
    ASSUME IInv, NEW a \in Clicks \cup Moves, NEW x, x = actor[a], x.pc \in {"owner", "transfer", "confirm"}
    PROVE  /\ x \in ActorState /\ x.doc \in Documents /\ Fits(a, x) /\ Sound(a, x)
           /\ a \in Moves => Placed(x.doc)
<1>1. CASE a \in Clicks
  <2>1. ClickGood(x)
      BY <1>1, ClickHas
  <2>2. x \in ActorState /\ x.doc \in Documents
      BY <2>1 DEF ClickGood, ClickFits, At, Early
  <2> QED
      BY <1>1, <2>1, <2>2, ClickIs, Kinds
<1>2. CASE a \in Moves
  <2>1. MoveGood(x)
      BY <1>2, MoveHas
  <2> QED
      BY <1>2, <2>1, MoveIs DEF MoveGood, MoveFits, MoveSound
<1> QED
    BY <1>1, <1>2

LEMMA DeliverGood ==
    ASSUME NEW x, ClickGood(x), x.pc \in Opening
    PROVE  ClickGood(Deliver(x)) /\ Deliver(x).pc = "flush"
<1>1. PICK y : y = Deliver(x)
    OBVIOUS
<1>2. /\ y \in ActorState /\ y.pc = "flush" /\ y.stage = "early" /\ y.card = "working" /\ "link" \in y.todo
      /\ y.row = x.row /\ y.pid = x.pid /\ y.proc = x.proc /\ y.doc = x.doc /\ y.found = x.found
    BY <1>1, DeliverIs DEF ClickGood
<1>3. x.row \in Rows /\ x.pid \in Pids /\ x.proc \in Processes /\ x.doc \in Documents
    BY DEF ClickGood, ClickFits, At, Early, Opening
<1>4. ClickFits(y) /\ SyncFits(y) /\ SyncSound(y) /\ ClickSound(y)
    BY <1>2, <1>3
    DEF ClickFits, SyncFits, SyncSound, ClickSound, At, ClickPcs, Early, Opening, Syncing, Final
<1> QED
    BY <1>1, <1>2, <1>4 DEF ClickGood

LEMMA OwnedHolds ==
    ASSUME IInv, Tables', Keeps, NEW a \in Clicks \cup Moves, NEW x, x = actor[a],
           x.pc \in {"owner", "transfer", "confirm"}, NEW ok \in BOOLEAN, Owned(a, ok),
           ok => doc[x.doc].owner = "team"
    PROVE  IInv'
<1>1. CASE a \in Moves
  <2>1. MoveGood(x) /\ x.doc \in Documents /\ Placed(x.doc)
      BY <1>1, MoveHas, OwnerHas DEF MoveGood
  <2>2. MoveGood(Moved(x, ok))
      BY <2>1, MovedGood
  <2>3. Set(a, Moved(x, ok))
      BY <1>1 DEF Owned
  <2> QED
      BY <1>1, <2>2, <2>3, MoveStep
<1>2. CASE a \in Clicks
  <2>1. ClickGood(x)
      BY <1>2, ClickHas
  <2>2. PICK y : y = Deliver(x)
      OBVIOUS
  <2>3. ClickGood(y) /\ y.pc = "flush"
      BY <2>1, <2>2, DeliverGood DEF Opening
  <2>4. Set(a, y)
      BY <1>2, <2>2, Kinds DEF Owned
  <2>5. Fits(a, y) /\ Sound(a, y)
      BY <1>2, <2>3, ClickIs
  <2>6. Sound(a, y)'
      BY <2>5, Undisturbed DEF IInv, Actors
  <2> QED
      BY <2>3, <2>4, <2>5, <2>6, StepHolds DEF Looked, Actors
<1> QED
    BY <1>1, <1>2

\* It goes on with the owner of the document.
LEMMA OwnerGoesOn ==
    ASSUME IInv, Tables', Keeps, NEW a \in Clicks \cup Moves, NEW x, x = actor[a],
           x.pc \in {"owner", "transfer", "confirm"}, NEW y \in ActorState, Set(a, y),
           y.pc \in {"transfer", "confirm"}, y.found = x.found, y.stage = x.stage, y.todo = x.todo, Alike(x, y)
    PROVE  IInv'
<1>1. x \in ActorState /\ x.doc \in Documents /\ Fits(a, x) /\ Sound(a, x) /\ (a \in Moves => Placed(x.doc))
    BY OwnerHas
<1>2. CASE a \in Moves
  <2>1. MoveGood(x)
      BY <1>2, MoveHas
  <2>2. MoveGood(y)
      BY <1>1, <1>2, <2>1, MoveGoesOn DEF MovePcs, Alike
  <2> QED
      BY <1>2, <2>2, MoveStep
<1>3. CASE a \in Clicks
  <2>1. ClickGood(x)
      BY <1>3, ClickHas
  <2>2. ClickGood(y)
      BY <1>1, <2>1, OpensGood DEF Alike, Opening
  <2>3. Fits(a, y) /\ Sound(a, y)
      BY <1>3, <2>2, ClickIs
  <2>4. Sound(a, y)'
      BY <2>3, Undisturbed DEF IInv, Actors
  <2> QED
      BY <2>3, <2>4, StepHolds DEF Looked, Actors
<1> QED
    BY <1>2, <1>3

LEMMA ReadOwnerHolds ==
    ASSUME IInv, NEW a \in Clicks \cup Moves, NEW ok \in BOOLEAN, ReadOwner(a, ok)
    PROVE  IInv'
<1>1. PICK x : x = actor[a] /\ x.pc = "owner"
    BY DEF ReadOwner
<1>2. Tables' /\ Keeps
    BY AnswersSpend, QuietTables DEF ReadOwner, tables, IInv, Tables, Quietly
<1>3. x \in ActorState /\ x.doc \in Documents
    BY <1>1, OwnerHas
<1>4. CASE ok /\ doc[x.doc].owner # "team"
  <2> DEFINE y == [x EXCEPT !.pc = "transfer"]
  <2>1. Set(a, y)
      BY <1>1, <1>4 DEF ReadOwner, Go
  <2>2. "transfer" \in Pcs
      BY Names DEF ClickPcs
  <2>3. /\ y \in ActorState /\ y.pc = "transfer" /\ y.stage = x.stage /\ y.todo = x.todo /\ y.found = x.found
        /\ Alike(x, y)
      BY <1>3, <2>2, Goes
  <2> HIDE DEF y
  <2> QED
      BY <1>1, <1>2, <2>1, <2>3, OwnerGoesOn
<1>5. CASE ~(ok /\ doc[x.doc].owner # "team")
  <2>1. Owned(a, ok)
      BY <1>1, <1>5 DEF ReadOwner
  <2> QED
      BY <1>1, <1>2, <1>5, <2>1, OwnedHolds
<1> QED
    BY <1>4, <1>5

LEMMA TransferOwnerHolds ==
    ASSUME IInv, NEW a \in Clicks \cup Moves, NEW outcome, TransferOwner(a, outcome)
    PROVE  IInv'
<1>1. PICK x : x = actor[a] /\ x.pc = "transfer"
    BY DEF TransferOwner
<1>2. UNCHANGED <<row, product, mapping, video, copied, session>> /\ Spending
    BY AnswersSpend DEF TransferOwner, tables, IInv, Tables
<1>3. x \in ActorState /\ x.doc \in Documents
    BY <1>1, OwnerHas
<1>4. Tables' /\ Keeps
  <2>1. CASE UNCHANGED doc
      BY <1>2, <2>1, QuietTables DEF Quietly, IInv, Tables
  <2>2. CASE doc[x.doc].owner # "team" /\ doc' = [doc EXCEPT ![x.doc].owner = "changing"]
    <3> DEFINE n == [doc[x.doc] EXCEPT !.owner = "changing"]
    <3>1. doc[x.doc] \in Document /\ doc' = [doc EXCEPT ![x.doc] = n]
        BY <1>3, <2>2 DEF IInv, Tables
    <3>2. n \in Document /\ n.text = doc[x.doc].text /\ n.place = doc[x.doc].place
        BY <3>1 DEF Document
    <3> HIDE DEF n
    <3> QED
        BY <1>2, <1>3, <2>2, <3>1, <3>2, DocWritten
  <2> QED
      BY <1>1, <2>1, <2>2 DEF TransferOwner
<1>5. CASE outcome = "ok"
  <2> DEFINE y == [x EXCEPT !.pc = "confirm", !.tries = 1]
  <2>1. Set(a, y)
      BY <1>1, <1>5 DEF TransferOwner
  <2>2. "confirm" \in Pcs
      BY Names DEF ClickPcs
  <2>3. 1 \in 0 .. 3
      OBVIOUS
  <2>4. y \in ActorState
      BY <1>3, <2>2, <2>3, Zenon DEF ActorState
  <2>5. /\ y.pc = "confirm" /\ y.stage = x.stage /\ y.todo = x.todo /\ y.found = x.found /\ Alike(x, y)
      BY <1>3 DEF ActorState, Alike
  <2> HIDE DEF y
  <2> QED
      BY <1>1, <1>4, <2>1, <2>4, <2>5, OwnerGoesOn
<1>6. CASE outcome # "ok"
  <2>1. Owned(a, FALSE)
      BY <1>6 DEF TransferOwner
  <2> QED
      BY <1>1, <1>4, <2>1, OwnedHolds
<1> QED
    BY <1>5, <1>6

LEMMA ConfirmOwnerHolds ==
    ASSUME IInv, NEW a \in Clicks \cup Moves, NEW ok \in BOOLEAN, ConfirmOwner(a, ok)
    PROVE  IInv'
<1>1. PICK x : x = actor[a] /\ x.pc = "confirm"
    BY DEF ConfirmOwner
<1>2. Tables' /\ Keeps
    BY AnswersSpend, QuietTables DEF ConfirmOwner, tables, IInv, Tables, Quietly
<1>3. x \in ActorState /\ x.doc \in Documents /\ x.tries \in 0 .. 3
    BY <1>1, OwnerHas DEF ActorState
<1>4. CASE ok /\ doc[x.doc].owner # "team" /\ x.tries < 3
  <2> DEFINE y == [x EXCEPT !.tries = @ + 1]
  <2>1. Set(a, y)
      BY <1>1, <1>4 DEF ConfirmOwner
  <2>2. x.tries + 1 \in 0 .. 3
      BY <1>3, <1>4
  <2>3. y \in ActorState
      BY <1>3, <2>2, Zenon DEF ActorState
  <2>4. /\ y.pc = "confirm" /\ y.stage = x.stage /\ y.todo = x.todo /\ y.found = x.found /\ Alike(x, y)
      BY <1>1, <1>3 DEF ActorState, Alike
  <2> HIDE DEF y
  <2> QED
      BY <1>1, <1>2, <2>1, <2>3, <2>4, OwnerGoesOn
<1>5. CASE ~(ok /\ doc[x.doc].owner # "team" /\ x.tries < 3)
  <2>1. PICK b \in BOOLEAN : Owned(a, b) /\ (b => doc[x.doc].owner = "team")
    <3>1. CASE ok /\ doc[x.doc].owner = "team"
      <4>1. (ok /\ doc[x.doc].owner = "team") = TRUE
          BY <3>1
      <4>2. Owned(a, TRUE)
          BY <1>1, <1>5, <4>1 DEF ConfirmOwner
      <4> QED
          BY <3>1, <4>2
    <3>2. CASE ~(ok /\ doc[x.doc].owner = "team")
      <4>1. (ok /\ doc[x.doc].owner = "team") = FALSE
          BY <3>2
      <4>2. Owned(a, FALSE)
          BY <1>1, <1>5, <4>1 DEF ConfirmOwner
      <4> QED
          BY <4>2
    <3> QED
        BY <3>1, <3>2
  <2> QED
      BY <1>1, <1>2, <2>1, OwnedHolds
<1> QED
    BY <1>4, <1>5

-----------------------------------------------------------------------------
(* People, Feishu, and the end of a process.                               *)

\* A flag of an actor is raised, or not.
LEMMA Flagged ==
    ASSUME NEW x \in ActorState
    PROVE  /\ LET y == [x EXCEPT !.moved = TRUE] IN
              /\ y \in ActorState /\ y.moved /\ y.pc = x.pc /\ y.then = x.then /\ y.stage = x.stage
              /\ y.todo = x.todo /\ y.found = x.found /\ Alike(x, y) /\ LineAlike(x, y)
           /\ LET y == [x EXCEPT !.blind = TRUE] IN
              /\ y \in ActorState /\ y.blind /\ y.moved = x.moved /\ y.pc = x.pc /\ y.then = x.then
              /\ y.stage = x.stage /\ y.todo = x.todo /\ y.found = x.found /\ Alike(x, y)
              /\ y.pre = x.pre /\ y.label = x.label /\ y.value = x.value /\ y.base = x.base
           /\ [x EXCEPT !.moved = x.moved] = x /\ [x EXCEPT !.blind = x.blind] = x
<1>1. [x EXCEPT !.moved = TRUE] \in ActorState /\ [x EXCEPT !.blind = TRUE] \in ActorState
    BY Zenon DEF ActorState
<1>2. [x EXCEPT !.moved = x.moved] = x /\ [x EXCEPT !.blind = x.blind] = x
    BY DEF ActorState
<1> QED
    BY <1>1, <1>2 DEF ActorState, Alike, LineAlike

\* Everybody has the same place and the same work, with a flag that may have been raised.
LEMMA FitsAlike ==
    ASSUME NEW a \in Actors, NEW x, Fits(a, x), NEW y \in ActorState,
           y.pc = x.pc, y.then = x.then, y.stage = x.stage, y.todo = x.todo, y.found = x.found, Alike(x, y),
           y.pre = x.pre, y.label = x.label, y.value = x.value, y.base = x.base
    PROVE  Fits(a, y)
<1>1. ClickFits(x) => ClickFits(y)
    BY DEF ClickFits, At, Alike
<1>2. SyncFits(x) => SyncFits(y)
    BY DEF SyncFits, At, Alike
<1>3. /\ RepairFits(x) => RepairFits(y)
      /\ LookupFits(x) => LookupFits(y)
      /\ MoveFits(x) => MoveFits(y)
    BY DEF RepairFits, LookupFits, MoveFits, Alike
<1> QED
    BY <1>1, <1>2, <1>3 DEF Fits

\* A step of nobody.
LEMMA AllHold ==
    ASSUME IInv, Tables', NEW next \in [Actors -> ActorState], actor' = next,
           \A a \in Actors : Fits(a, next[a]) /\ Sound(a, next[a])'
    PROVE  IInv'
<1>1. ASSUME NEW a \in Actors PROVE (Fits(a, actor[a]) /\ Sound(a, actor[a]))'
  <2>1. PICK x : x = actor'[a] /\ Fits(a, x) /\ Sound(a, x)'
    <3>1. PICK x : x = next[a]
        OBVIOUS
    <3>2. Fits(a, x) /\ Sound(a, x)'
        BY <3>1 DEF Sound, ClickSound, SyncSound, MoveSound, Placed
    <3> QED
        BY <3>1, <3>2
  <2> QED
      BY <2>1 DEF Fits, Sound, ClickSound, SyncSound, MoveSound, Placed
<1> QED
    BY <1>1 DEF IInv

LEMMA EditPidHolds ==
    ASSUME IInv, NEW r \in Rows, NEW p \in Pids, EditPid(r, p)
    PROVE  IInv'
<1>1. /\ row \in [Rows -> CardRow] /\ actor \in [Actors -> ActorState]
    BY DEF IInv, Tables
<1>2. row' = [row EXCEPT ![r].pid = p] /\ UNCHANGED <<doc, product, mapping, video, session, copied>> /\ Spending
    BY Spent DEF EditPid, tables, IInv, Tables
<1>3. /\ row' \in [Rows -> CardRow] /\ row'[r].pid = p
      /\ \A s \in Rows : /\ row'[s].link = row[s].link /\ row'[s].card = row[s].card
                         /\ s # r => row'[s] = row[s]
  <2>1. row[r] \in CardRow
      BY <1>1
  <2>2. [row[r] EXCEPT !.pid = p] \in CardRow
      BY <2>1 DEF CardRow
  <2>3. row' = [row EXCEPT ![r] = [row[r] EXCEPT !.pid = p]]
      BY <1>1, <1>2
  <2> QED
      BY <1>1, <2>1, <2>2, <2>3 DEF CardRow
<1>4. Tables'
    BY <1>2, <1>3 DEF IInv, Tables, Spending, LinkBeforeStatus
<1>5. PICK next : next = [a \in Actors |-> [actor[a] EXCEPT !.moved = @ \/ actor[a].row = r]] /\ actor' = next
    BY DEF EditPid
<1>6. ASSUME NEW a \in Actors PROVE next[a] \in ActorState /\ Fits(a, next[a]) /\ Sound(a, next[a])'
  <2>1. PICK x : x = actor[a] /\ x \in ActorState /\ Fits(a, x) /\ Sound(a, x)
    <3>1. PICK x : x = actor[a]
        OBVIOUS
    <3>2. Fits(a, x) /\ Sound(a, x)
        BY <3>1 DEF IInv
    <3> QED
        BY <1>1, <3>1, <3>2
  <2>2. PICK y : y = next[a]
      OBVIOUS
  <2>3. CASE x.row = r
    <3>1. y = [x EXCEPT !.moved = TRUE]
      <4>1. (x.moved \/ x.row = r) = TRUE
          BY <2>3
      <4>2. y = [x EXCEPT !.moved = x.moved \/ x.row = r]
          BY <1>5, <2>1, <2>2, Zenon
      <4> QED
          BY <4>1, <4>2, Zenon
    <3>2. /\ y \in ActorState /\ y.moved /\ y.pc = x.pc /\ y.then = x.then /\ y.stage = x.stage
          /\ y.todo = x.todo /\ y.found = x.found /\ Alike(x, y) /\ LineAlike(x, y)
        BY <2>1, <3>1, Flagged
    <3>3. Fits(a, y)
        BY <2>1, <3>2, FitsAlike DEF LineAlike
    <3>4. a \in Clicks => ClickSound(y)'
      <4>1. a \in Clicks => ClickSound(x) /\ (x.stage # "none" => x.row \in Rows)
          BY <2>1, <2>3 DEF Sound
      <4> QED
          BY <1>3, <3>2, <4>1 DEF ClickSound, Alike
    <3>5. SyncSound(x) => SyncSound(y)'
        BY <1>2, <3>2 DEF SyncSound, Alike, LineAlike
    <3>6. MoveSound(x) => MoveSound(y)'
        BY <1>2, <3>2 DEF MoveSound, Alike, Placed
    <3>7. y.found <= Len(product')
        BY <1>2, <2>1, <3>2 DEF Sound
    <3>8. Sound(a, y)'
        BY <2>1, <3>4, <3>5, <3>6, <3>7 DEF Sound
    <3> QED
        BY <2>2, <3>2, <3>3, <3>8 DEF Sound, ClickSound, SyncSound, MoveSound, Placed
  <2>4. CASE x.row # r
    <3>1. y = x
      <4>1. (x.moved \/ x.row = r) = x.moved
        <5>1. x.moved \in BOOLEAN
            BY <2>1 DEF ActorState
        <5> QED
            BY <2>4, <5>1
      <4>2. y = [x EXCEPT !.moved = x.moved \/ x.row = r]
          BY <1>5, <2>1, <2>2, Zenon
      <4>3. y = [x EXCEPT !.moved = x.moved]
          BY <4>1, <4>2, Zenon
      <4> QED
          BY <2>1, <4>3, Flagged
    <3>2. a \in Clicks => ClickSound(x)'
      <4>1. a \in Clicks => ClickFits(x) /\ ClickSound(x)
          BY <2>1 DEF Sound, Fits
      <4>2. a \in Clicks /\ (x.stage # "none" \/ x.pc \in {"put", "map", "ask"}) => x.row \in Rows
          BY <4>1 DEF ClickFits, At, Early
      <4> QED
          BY <1>3, <2>4, <4>1, <4>2 DEF ClickSound
    <3>3. (SyncSound(x) => SyncSound(x)') /\ (MoveSound(x) => MoveSound(x)') /\ x.found <= Len(product')
        BY <1>2, <2>1 DEF SyncSound, MoveSound, Placed, Sound
    <3>4. Sound(a, x)'
        BY <2>1, <3>2, <3>3 DEF Sound
    <3> QED
        BY <2>1, <2>2, <3>1, <3>4 DEF Sound, ClickSound, SyncSound, MoveSound, Placed
  <2> QED
      BY <2>3, <2>4
<1>7. next \in [Actors -> ActorState]
    BY <1>5, <1>6
<1> QED
    BY <1>4, <1>5, <1>6, <1>7, AllHold

LEMMA EditFactsHolds ==
    ASSUME IInv, NEW d \in Documents, NEW t \in Facts, EditFacts(d, t)
    PROVE  IInv'
<1>1. doc \in [Documents -> Document] /\ actor \in [Actors -> ActorState]
    BY DEF IInv, Tables
<1>2. doc' = [doc EXCEPT ![d].text = t] /\ UNCHANGED <<row, product, mapping, video, session, copied>> /\ Spending
    BY Spent DEF EditFacts, tables, IInv, Tables
<1>3. /\ doc' \in [Documents -> Document]
      /\ \A e \in Documents : /\ doc'[e].place = doc[e].place /\ doc'[e].owner = doc[e].owner
                              /\ e # d => doc'[e] = doc[e]
  <2>1. doc[d] \in Document
      BY <1>1
  <2>2. [doc[d] EXCEPT !.text = t] \in Document
      BY <2>1 DEF Document
  <2>3. doc' = [doc EXCEPT ![d] = [doc[d] EXCEPT !.text = t]]
      BY <1>1, <1>2
  <2> QED
      BY <1>1, <2>1, <2>2, <2>3 DEF Document
<1>4. Tables'
    BY <1>2, <1>3 DEF IInv, Tables, Spending, LinkBeforeStatus
<1>5. PICK next : next = [a \in Actors |-> [actor[a] EXCEPT !.blind = @ \/ actor[a].doc = d]] /\ actor' = next
    BY DEF EditFacts
<1>6. ASSUME NEW a \in Actors PROVE next[a] \in ActorState /\ Fits(a, next[a]) /\ Sound(a, next[a])'
  <2>1. PICK x : x = actor[a] /\ x \in ActorState /\ Fits(a, x) /\ Sound(a, x)
    <3>1. PICK x : x = actor[a]
        OBVIOUS
    <3>2. Fits(a, x) /\ Sound(a, x)
        BY <3>1 DEF IInv
    <3> QED
        BY <1>1, <3>1, <3>2
  <2>2. PICK y : y = next[a]
      OBVIOUS
  <2>3. a \in Moves => x.ok \subseteq Documents /\ (x.pc \in {"owner", "transfer", "confirm"} => x.doc \in Documents)
      BY <2>1 DEF Fits, MoveFits, ActorState
  <2>4. a \in Clicks \cup Repairs => (x.pc = "write" => x.doc \in Documents)
      BY <2>1 DEF Fits, ClickFits, RepairFits, At, Early
  <2>5. CASE x.doc = d
    <3>1. y = [x EXCEPT !.blind = TRUE]
      <4>1. (x.blind \/ x.doc = d) = TRUE
          BY <2>5
      <4>2. y = [x EXCEPT !.blind = x.blind \/ x.doc = d]
          BY <1>5, <2>1, <2>2, Zenon
      <4> QED
          BY <4>1, <4>2, Zenon
    <3>2. /\ y \in ActorState /\ y.blind /\ y.moved = x.moved /\ y.pc = x.pc /\ y.then = x.then
          /\ y.stage = x.stage /\ y.todo = x.todo /\ y.found = x.found /\ Alike(x, y)
          /\ y.pre = x.pre /\ y.label = x.label /\ y.value = x.value /\ y.base = x.base
        BY <2>1, <3>1, Flagged
    <3>3. Fits(a, y)
        BY <2>1, <3>2, FitsAlike
    <3>4. ClickSound(x) => ClickSound(y)'
        BY <1>2, <3>2 DEF ClickSound, Alike
    <3>5. SyncSound(y)'
        BY <3>2 DEF SyncSound
    <3>6. a \in Moves => MoveSound(y)'
        BY <1>3, <2>1, <2>3, <3>2 DEF Sound, MoveSound, Alike, Placed
    <3>7. y.found <= Len(product')
        BY <1>2, <2>1, <3>2 DEF Sound
    <3>8. Sound(a, y)'
        BY <2>1, <3>4, <3>5, <3>6, <3>7 DEF Sound
    <3> QED
        BY <2>2, <3>2, <3>3, <3>8 DEF Sound, ClickSound, SyncSound, MoveSound, Placed
  <2>6. CASE x.doc # d
    <3>1. y = x
      <4>1. (x.blind \/ x.doc = d) = x.blind
        <5>1. x.blind \in BOOLEAN
            BY <2>1 DEF ActorState
        <5> QED
            BY <2>6, <5>1
      <4>2. y = [x EXCEPT !.blind = x.blind \/ x.doc = d]
          BY <1>5, <2>1, <2>2, Zenon
      <4>3. y = [x EXCEPT !.blind = x.blind]
          BY <4>1, <4>2, Zenon
      <4> QED
          BY <2>1, <4>3, Flagged
    <3>2. ClickSound(x) => ClickSound(x)'
        BY <1>2 DEF ClickSound
    <3>3. a \in Clicks \cup Repairs => SyncSound(x)'
        BY <1>3, <2>1, <2>4, <2>6 DEF Sound, SyncSound
    <3>4. a \in Moves => MoveSound(x)'
        BY <1>3, <2>1, <2>3 DEF Sound, MoveSound, Placed
    <3>5. x.found <= Len(product')
        BY <1>2, <2>1 DEF Sound
    <3>6. Sound(a, x)'
        BY <2>1, <3>2, <3>3, <3>4, <3>5 DEF Sound
    <3> QED
        BY <2>1, <2>2, <3>1, <3>6 DEF Sound, ClickSound, SyncSound, MoveSound, Placed
  <2> QED
      BY <2>5, <2>6
<1>7. next \in [Actors -> ActorState]
    BY <1>5, <1>6
<1> QED
    BY <1>4, <1>5, <1>6, <1>7, AllHold

\* A step in which no actor does anything.
LEMMA NobodyHolds ==
    ASSUME IInv, Tables', Keeps, UNCHANGED actor
    PROVE  IInv'
<1>1. PICK next : next = actor
    OBVIOUS
<1>2. next \in [Actors -> ActorState] /\ actor' = next
    BY <1>1 DEF IInv
<1>3. ASSUME NEW a \in Actors PROVE Fits(a, next[a]) /\ Sound(a, next[a])'
  <2>1. PICK x : x = actor[a]
      OBVIOUS
  <2>2. Fits(a, x) /\ Sound(a, x)
      BY <2>1 DEF IInv
  <2>3. Sound(a, x)'
      BY <2>2, Undisturbed DEF IInv
  <2> QED
      BY <1>1, <2>1, <2>2, <2>3 DEF Sound, ClickSound, SyncSound, MoveSound, Placed
<1> QED
    BY <1>2, <1>3, AllHold

LEMMA TrashCardHolds ==
    ASSUME IInv, NEW d \in Documents, TrashCard(d)
    PROVE  IInv'
<1> DEFINE n == [doc[d] EXCEPT !.place = "trash"]
<1>1. doc \in [Documents -> Document]
    BY DEF IInv, Tables
<1>2. n \in Document /\ n.text = doc[d].text /\ n.place = "trash" /\ n.owner = doc[d].owner
    BY <1>1 DEF Document
<1>3. doc' = [doc EXCEPT ![d] = n]
    BY <1>1 DEF TrashCard
<1>4. UNCHANGED <<row, product, mapping, video, copied, session, actor>> /\ Spending
    BY Spent DEF TrashCard, tables, IInv, Tables
<1> HIDE DEF n
<1>5. Tables' /\ Keeps
    BY <1>2, <1>3, <1>4, DocWritten
<1> QED
    BY <1>4, <1>5, NobodyHolds

LEMMA TakesEffectHolds ==
    ASSUME IInv, NEW d \in Documents, TakesEffect(d)
    PROVE  IInv'
<1>1. doc \in [Documents -> Document]
    BY DEF IInv, Tables
<1>2. UNCHANGED <<row, product, mapping, video, copied, session, actor>> /\ Spending
    BY Spent DEF TakesEffect, tables, IInv, Tables
<1>3. CASE doc[d].place = "moving" /\ doc' = [doc EXCEPT ![d].place = "folder"]
  <2> DEFINE n == [doc[d] EXCEPT !.place = "folder"]
  <2>1. n \in Document /\ n.text = doc[d].text /\ n.place = "folder" /\ n.owner = doc[d].owner
      BY <1>1 DEF Document
  <2>2. doc' = [doc EXCEPT ![d] = n]
      BY <1>1, <1>3
  <2> HIDE DEF n
  <2>3. Tables' /\ Keeps
      BY <1>2, <2>1, <2>2, DocWritten
  <2> QED
      BY <1>2, <2>3, NobodyHolds
<1>4. CASE doc[d].owner = "changing" /\ doc' = [doc EXCEPT ![d].owner = "team"]
  <2> DEFINE n == [doc[d] EXCEPT !.owner = "team"]
  <2>1. n \in Document /\ n.text = doc[d].text /\ n.place = doc[d].place /\ n.owner = "team"
      BY <1>1 DEF Document
  <2>2. doc' = [doc EXCEPT ![d] = n]
      BY <1>1, <1>4
  <2> HIDE DEF n
  <2>3. Tables' /\ Keeps
      BY <1>2, <2>1, <2>2, DocWritten
  <2> QED
      BY <1>2, <2>3, NobodyHolds
<1> QED
    BY <1>3, <1>4 DEF TakesEffect

LEMMA CutSessionHolds ==
    ASSUME IInv, CutSession
    PROVE  IInv'
<1>1. UNCHANGED actor /\ Quietly
    BY Spent DEF CutSession, Quietly, tables, IInv, Tables
<1> QED
    BY <1>1, QuietTables, NobodyHolds DEF IInv

LEMMA CrashHolds ==
    ASSUME IInv, NEW p \in budget.at, Crash(p)
    PROVE  IInv'
<1>1. actor \in [Actors -> ActorState]
    BY DEF IInv
<1>2. Quietly
    BY Spent DEF Crash, Quietly, tables, IInv, Tables
<1>3. Tables' /\ Keeps
    BY <1>2, QuietTables DEF IInv
<1>4. PICK next : /\ next = [a \in Actors |-> IF Busy(a) /\ actor[a].proc = p
                                THEN [actor[a] EXCEPT !.pc = "done", !.outcome = "paused"] ELSE actor[a]]
                  /\ actor' = next
    BY DEF Crash
<1>5. ASSUME NEW a \in Actors PROVE next[a] \in ActorState /\ Fits(a, next[a]) /\ Sound(a, next[a])'
  <2>1. PICK x : x = actor[a] /\ x \in ActorState /\ Fits(a, x) /\ Sound(a, x)
    <3>1. PICK x : x = actor[a]
        OBVIOUS
    <3>2. Fits(a, x) /\ Sound(a, x)
        BY <3>1 DEF IInv
    <3> QED
        BY <1>1, <3>1, <3>2
  <2>2. PICK y : y = next[a]
      OBVIOUS
  <2>3. y \in ActorState /\ Fits(a, y) /\ Sound(a, y)
    <3>1. CASE y = x
        BY <2>1, <3>1
    <3>2. CASE Busy(a) /\ y = [x EXCEPT !.pc = "done", !.outcome = "paused"]
      <4>1. x.pc \notin {"idle", "waiting"} /\ "paused" \in Outcomes
          BY <2>1, <3>2, Names DEF Busy
      <4>2. /\ y \in ActorState /\ y.pc = "done" /\ y.then = x.then /\ y.stage = x.stage
            /\ y.todo = x.todo /\ y.found = x.found /\ Alike(x, y) /\ LineAlike(x, y)
          BY <2>1, <3>2, <4>1, Ends
      <4>3. a \in Clicks => ClickGood(y)
          BY <2>1, <3>2, <4>1, ClickIs, DoneGood
      <4>4. a \in Repairs => RepairFits(y) /\ SyncFits(y) /\ SyncSound(y)
          BY <4>2 DEF RepairFits, RepairPcs, SyncFits, SyncSound, At, Syncing
      <4>5. a \in Lookups => LookupFits(y)
          BY <4>2 DEF LookupFits, LookupPcs
      <4>6. a \in Moves => MoveFits(y) /\ MoveSound(y)
          BY <2>1, <4>2 DEF MoveFits, MovePcs, Sound, MoveSound, Alike
      <4>7. a \in Clicks => Fits(a, y) /\ Sound(a, y)
          BY <4>3, ClickIs
      <4> QED
          BY <2>1, <4>2, <4>4, <4>5, <4>6, <4>7 DEF Fits, Sound
    <3>3. y = x \/ (Busy(a) /\ y = [x EXCEPT !.pc = "done", !.outcome = "paused"])
        BY <1>4, <2>1, <2>2
    <3> QED
        BY <3>1, <3>2, <3>3
  <2>4. Sound(a, y)'
      BY <1>3, <2>3, Undisturbed DEF IInv
  <2> QED
      BY <2>2, <2>3, <2>4 DEF Sound, ClickSound, SyncSound, MoveSound, Placed
<1>6. next \in [Actors -> ActorState]
    BY <1>4, <1>5
<1> QED
    BY <1>3, <1>4, <1>5, <1>6, AllHold

\* Nobody does anything.
LEMMA StutterHolds ==
    ASSUME IInv, UNCHANGED vars
    PROVE  IInv'
<1>1. UNCHANGED actor /\ Quietly
    BY Spent DEF vars, Quietly, tables, IInv, Tables
<1> QED
    BY <1>1, QuietTables, NobodyHolds DEF IInv

-----------------------------------------------------------------------------
(* The invariant.                                                          *)

LEMMA InitHolds == Init => IInv
<1> SUFFICES ASSUME Init PROVE IInv
    OBVIOUS
<1>1. PICK d0 \in Documents : d0 = Fresh(Documents)
    BY Kinds DEF Fresh
<1>2. /\ budget \in Scenario /\ budget.legacy \in Pids \cup {None} /\ budget.rows \in [Rows -> Pids \cup {None}]
    BY CardConstants DEF Init, Scenario
<1>3. row \in [Rows -> CardRow] /\ LinkBeforeStatus
  <2>1. ASSUME NEW r \in Rows
        PROVE  [pid |-> budget.rows[r], link |-> None, card |-> "", video |-> ""] \in CardRow
      BY <1>2 DEF CardRow, Statuses
  <2>2. row \in [Rows -> CardRow] /\ \A r \in Rows : row[r].card = ""
      BY <2>1 DEF Init
  <2> QED
      BY <2>2 DEF LinkBeforeStatus
<1>4. doc \in [Documents -> Document]
  <2>1. NoDoc \in Document
      BY DEF NoDoc, Document, Facts
  <2>2. [NoDoc EXCEPT !.pid = budget.legacy, !.id = budget.legacy, !.place = "elsewhere"] \in Document
      BY <1>2, <2>1 DEF Document
  <2> QED
      BY <2>1, <2>2 DEF Init
<1>5. product \in Seq(ProductRow)
  <2>1. CASE product = <<>>
      BY <2>1
  <2>2. CASE product = <<[pid |-> budget.legacy, doc |-> d0]>>
    <3>1. [pid |-> budget.legacy, doc |-> d0] \in ProductRow
        BY <1>2 DEF ProductRow
    <3> QED
        BY <2>2, <3>1
  <2> QED
      BY <1>1, <2>1, <2>2 DEF Init
<1>6. mapping \in [Rows -> [product : DOMAIN product, doc : Documents] \cup {[product |-> 0, doc |-> None]}]
    BY DEF Init
<1>7. Tables
    BY <1>2, <1>3, <1>4, <1>5, <1>6 DEF Tables, Init
<1>8. /\ Idle \in ActorState /\ Idle.pc = "idle" /\ Idle.stage = "none" /\ Idle.todo = {} /\ Idle.found = 0
      /\ Idle.ok = {}
    BY IdleFits DEF Idle
<1>9. actor \in [Actors -> ActorState] /\ \A a \in Actors : actor[a] = Idle
    BY <1>8 DEF Init
<1>10. ASSUME NEW a \in Actors PROVE Fits(a, actor[a]) /\ Sound(a, actor[a])
  <2>1. PICK x : x = Idle
      OBVIOUS
  <2>2. Fits(a, x)
      BY <1>8, <2>1
      DEF Fits, ClickFits, SyncFits, RepairFits, LookupFits, MoveFits, At, Early, Opening, Syncing,
          ClickPcs, RepairPcs, LookupPcs, MovePcs
  <2>3. x.found <= Len(product)
      BY <1>5, <1>8, <2>1, LenProperties
  <2>4. Sound(a, x)
      BY <1>8, <2>1, <2>3 DEF Sound, ClickSound, SyncSound, MoveSound
  <2> QED
      BY <1>9, <2>1, <2>2, <2>4
<1> QED
    BY <1>7, <1>9, <1>10 DEF IInv

LEMMA CardStepHolds ==
    ASSUME IInv, NEW c \in Clicks, CardStep(c)
    PROVE  IInv'
<1>1. CASE FlushNext(c) \/ Flushed(c)
    BY <1>1, FlushNextHolds, FlushedHolds
<1>2. CASE \E how \in {"given", "looked up", "failed"} : NameCard(c, how)
    BY <1>2, NameCardHolds
<1>3. CASE \E v \in {"facts", "pending", "failed"} : AskCatalog(c, v)
    BY <1>3, AskCatalogHolds
<1>4. CASE \E o \in Answer : PutCell(c, o) \/ CopyTemplate(c, o)
    BY <1>4, PutCellHolds, CopyTemplateHolds
<1>5. ASSUME NEW ok \in BOOLEAN, CheckPid(c, ok) \/ FindCard(c, ok) \/ TitleCard(c, ok) \/ Preflight(c, ok)
      PROVE  IInv'
    BY <1>5, CheckPidHolds, FindCardHolds, TitleCardHolds, PreflightHolds
<1>6. ASSUME NEW ok \in BOOLEAN, VerifyCard(c, ok) \/ ReadLatest(c, ok) \/ FindProduct(c, ok)
      PROVE  IInv'
    BY <1>6, VerifyCardHolds, ReadLatestHolds, FindProductHolds
<1>7. ASSUME NEW ok \in BOOLEAN, SaveProduct(c, ok) \/ MapCard(c, ok) \/ CreateCardVideo(c, ok)
      PROVE  IInv'
    BY <1>7, SaveProductHolds, MapCardHolds, CreateCardVideoHolds
<1> QED
    BY <1>1, <1>2, <1>3, <1>4, <1>5, <1>6, <1>7 DEF CardStep

LEMMA ActorStepHolds ==
    ASSUME IInv, NEW a \in Actors, Step(a)
    PROVE  IInv'
<1>1. CASE a \in Clicks /\ CardStep(a)
    BY <1>1, CardStepHolds
<1>2. CASE a \in Clicks \cup Repairs /\ SyncStep(a)
    BY <1>2, ReadLineHolds, LookAgainHolds, WriteLineHolds DEF SyncStep
<1>3. CASE a \in Clicks \cup Moves /\ OwnerStep(a)
    BY <1>3, ReadOwnerHolds, ConfirmOwnerHolds, TransferOwnerHolds DEF OwnerStep
<1>4. CASE a \in Repairs /\ RepairStep(a)
    BY <1>4, RepairPreflightHolds, RepairFactsHolds DEF RepairStep
<1>5. CASE a \in Lookups /\ LookupStep(a)
    BY <1>5, RereadProductHolds, StoreProductHolds, ListProductsHolds DEF LookupStep
<1>6. CASE a \in Moves /\ MigrationStep(a)
    BY <1>6, NextDocumentHolds, LocateDocumentHolds, ConfirmMoveHolds, MoveDocumentHolds DEF MigrationStep
<1> QED
    BY <1>1, <1>2, <1>3, <1>4, <1>5, <1>6 DEF Step

LEMMA NextHolds ==
    ASSUME IInv, [Next]_vars
    PROVE  IInv'
<1>1. ASSUME NEW r \in Rows,
             \/ \E p \in Pids : EditPid(r, p)
             \/ \E c \in Clicks : Accept(c, r)
             \/ \E l \in Lookups : StartLookup(l, r)
      PROVE  IInv'
    BY <1>1, EditPidHolds, AcceptHolds, StartLookupHolds
<1>2. ASSUME NEW d \in Documents, TrashCard(d) \/ TakesEffect(d) \/ \E t \in Notes \cup {"blank"} : EditFacts(d, t)
      PROVE  IInv'
  <2>1. Notes \cup {"blank"} \subseteq Facts
      BY DEF Facts
  <2> QED
      BY <1>2, <2>1, TrashCardHolds, TakesEffectHolds, EditFactsHolds
<1>3. ASSUME NEW p \in budget.at,
             \/ Crash(p)
             \/ \E c \in Clicks : StartCard(c, p)
             \/ \E m \in Moves : StartMigration(m, p)
      PROVE  IInv'
    BY <1>3, CrashHolds, StartCardHolds, StartMigrationHolds
<1>4. ASSUME NEW p \in budget.at, NEW b \in Repairs, NEW refresh \in BOOLEAN, NEW k \in DOMAIN product,
             StartRepair(b, p, refresh, k)
      PROVE  IInv'
    BY <1>4, StartRepairHolds
<1>5. CASE CutSession
    BY <1>5, CutSessionHolds
<1>6. CASE \E a \in Actors : Step(a)
    BY <1>6, ActorStepHolds
<1>7. CASE UNCHANGED vars
    BY <1>7, StutterHolds
<1> QED
    BY <1>1, <1>2, <1>3, <1>4, <1>5, <1>6, <1>7 DEF Next

LEMMA InvHolds == Spec => []IInv
<1>1. IInv /\ [Next]_vars => IInv'
    BY NextHolds
<1> QED
    BY InitHolds, <1>1, PTL DEF Spec

\* Only a cut of the session is counted as one.
LEMMA StepCuts ==
    ASSUME NEW a \in Actors, Step(a)
    PROVE  UNCHANGED cut
<1>1. CardStep(a) => UNCHANGED cut
    BY DEF CardStep, FlushNext, Flushed, NameCard, AskCatalog, PutCell, CopyTemplate, CheckPid, FindCard,
           TitleCard, Preflight, VerifyCard, ReadLatest, FindProduct, SaveProduct, MapCard, CreateCardVideo
<1>2. SyncStep(a) => UNCHANGED cut
    BY DEF SyncStep, ReadLine, LookAgain, WriteLine
<1>3. OwnerStep(a) => UNCHANGED cut
    BY DEF OwnerStep, ReadOwner, ConfirmOwner, TransferOwner
<1>4. RepairStep(a) \/ LookupStep(a) => UNCHANGED cut
    BY DEF RepairStep, RepairPreflight, RepairFacts, LookupStep, RereadProduct, StoreProduct, ListProducts
<1>5. MigrationStep(a) => UNCHANGED cut
    BY DEF MigrationStep, NextDocument, LocateDocument, ConfirmMove, MoveDocument
<1> QED
    BY <1>1, <1>2, <1>3, <1>4, <1>5 DEF Step

Counted == cut \in Nat

LEMMA CutsCounted == Spec => []Counted
<1>1. Init => Counted
  <2>1. Init => cut = 0
      BY Zenon DEF Init
  <2> QED
      BY <2>1 DEF Counted
<1>2. Counted /\ [Next]_vars => Counted'
  <2> SUFFICES ASSUME cut \in Nat, [Next]_vars PROVE cut' \in Nat
      BY DEF Counted
  <2>1. CASE \E a \in Actors : Step(a)
      BY <2>1, StepCuts
  <2>2. CASE \E r \in Rows : \/ \E p \in Pids : EditPid(r, p)
                             \/ \E c \in Clicks : Accept(c, r)
                             \/ \E l \in Lookups : StartLookup(l, r)
      BY <2>2 DEF EditPid, Accept, StartLookup
  <2>3. CASE \E d \in Documents : TrashCard(d) \/ TakesEffect(d) \/ \E t \in Notes \cup {"blank"} : EditFacts(d, t)
      BY <2>3 DEF TrashCard, TakesEffect, EditFacts
  <2>4. CASE \E p \in budget.at : \/ Crash(p)
                                  \/ \E c \in Clicks : StartCard(c, p)
                                  \/ \E m \in Moves : StartMigration(m, p)
                                  \/ \E b \in Repairs, refresh \in BOOLEAN, k \in DOMAIN product :
                                        StartRepair(b, p, refresh, k)
      BY <2>4 DEF Crash, StartCard, StartMigration, StartRepair
  <2> QED
      BY <2>1, <2>2, <2>3, <2>4 DEF Next, CutSession, vars
<1> QED
    BY <1>1, <1>2, PTL DEF Spec

-----------------------------------------------------------------------------
(* Theorems.                                                               *)

\* The rows of the Base, the documents, the products, the card mappings, the videos and
\* every handler in flight keep the form that the code gives them.
THEOREM TypesCorrect == Spec => []TypeOK
<1>1. IInv /\ Counted => TypeOK
  <2> SUFFICES ASSUME IInv, cut \in Nat PROVE TypeOK
      BY DEF Counted
  <2>1. ASSUME NEW a \in Actors PROVE actor[a].found \in 0 .. Len(product)
    <3>1. PICK x : x = actor[a]
        OBVIOUS
    <3>2. Fits(a, x) /\ Sound(a, x)
        BY <3>1 DEF IInv
    <3>3. x.found \in Nat /\ x.found <= Len(product) /\ Len(product) \in Nat
        BY <3>2, LenProperties DEF Fits, ActorState, Sound, IInv, Tables
    <3> QED
        BY <3>1, <3>3
  <2> QED
      BY <2>1 DEF TypeOK, IInv, Tables
<1> QED
    BY <1>1, InvHolds, CutsCounted, PTL

\* A row that shows the final state of its card shows a link (automation.ts:1057-1064),
\* whatever failed, crashed, or was answered too late on the way.
THEOREM LinkFirst == Spec => []LinkBeforeStatus
<1>1. IInv => LinkBeforeStatus
    BY DEF IInv, Tables
<1> QED
    BY <1>1, InvHolds, PTL

\* A document that a migration reports is in the folder (or was trashed from it) and
\* belongs to the team (document.ts:1015-1046), for any number of concurrent migrations.
THEOREM MigrationEarned == Spec => []MigrationIsEarned
<1>1. IInv => MigrationIsEarned
  <2> SUFFICES ASSUME IInv, NEW m \in Moves, NEW d \in actor[m].ok
               PROVE  doc[d].place \in {"folder", "trash"} /\ doc[d].owner = "team"
      BY DEF MigrationIsEarned
  <2> QED
      BY MoveHas DEF MoveGood, MoveSound, Placed
<1> QED
    BY <1>1, InvHolds, PTL

\* Whoever writes into a row or a mapping, or asks the paid catalog, has seen the PID it
\* acts for in the row, and the row has it still, unless somebody has edited it since that
\* look (automation.ts:847-852, 866, 952, 955, 1044).
THEOREM CardsActForTheirRow == Spec => ActsForRow
<1>1. IInv => \A c \in Clicks : LET x == actor[c] IN
                 x.pc \in {"put", "map", "ask"} => x.moved \/ row[x.row].pid = x.pid
    BY ClickHas DEF ClickGood, ClickSound
<1>2. IInv => \A c \in Clicks : LET x == actor[c] IN
                 \/ x.pc \in {"put", "map"} /\ (row' # row \/ mapping' # mapping) /\ actor'[c].pc # x.pc
                 \/ x.pc = "ask" /\ actor'[c].pc # "ask"
                 => x.moved \/ row[x.row].pid = x.pid
    BY <1>1
<1> QED
    BY <1>2, InvHolds, PTL DEF ActsForRow

\* A handler that is about to write a fact into a card with something that a person has
\* written has either been overtaken since its last look (document.ts:1585-1620), or is a
\* refresh that was asked for with that text in sight (document.ts:1402-1418).
THEOREM NotesSurvive == Spec => NotesAreKept
<1>1. ASSUME IInv, NEW a \in Clicks \cup Repairs, NEW d, actor[a].pc = "write", actor[a].doc = d,
             actor[a].label = "text", doc[d].text \in Notes
      PROVE  actor[a].blind \/ (actor[a].refresh /\ actor[a].pre.text = doc[d].text)
  <2>1. PICK x : x = actor[a]
      OBVIOUS
  <2>2. SyncFits(x) /\ SyncSound(x)
    <3>1. a \in Clicks => ClickGood(x)
        BY <1>1, <2>1, ClickHas
    <3>2. a \in Repairs => RepairGood(x)
        BY <1>1, <2>1, RepairHas
    <3> QED
        BY <3>1, <3>2 DEF ClickGood, RepairGood
  <2>3. CASE x.blind
      BY <2>1, <2>3
  <2>4. CASE ~x.blind
    <3>1. doc[x.doc].text = x.base
        BY <1>1, <2>1, <2>2, <2>4 DEF SyncSound
    <3>2. x.base \notin Missing
        BY <1>1, <2>1, <3>1, Kinds DEF Missing
    <3>3. x.base = x.pre.text /\ x.refresh
        BY <1>1, <2>1, <2>2, <3>2 DEF SyncFits
    <3> QED
        BY <1>1, <2>1, <3>1, <3>3
  <2> QED
      BY <2>3, <2>4
<1>2. IInv => \A d \in Documents, a \in Clicks \cup Repairs :
                 doc[d].text \in Notes /\ doc'[d].text # doc[d].text /\ Overwrites(a, d)
                 => actor[a].blind \/ (actor[a].refresh /\ actor[a].pre.text = doc[d].text)
    BY <1>1 DEF Overwrites
<1> QED
    BY <1>2, InvHolds, PTL DEF NotesAreKept

-----------------------------------------------------------------------------
(* One card per PID.                                                       *)

\* A click that goes on, in the process that runs it.  Only a search that has found no
\* card leads to a copy.
Led(x, y) ==
    LET z == [y EXCEPT !.moved = FALSE] IN z.proc = x.proc /\ z.pc \notin {"idle", "waiting", "copy"}

Onward(c) ==
    /\ actor'[c].proc = actor[c].proc /\ actor'[c].pc \notin {"idle", "waiting"}
    /\ actor'[c].pc = "copy" => Cards(actor'[c].pid) = {}
    /\ \A e \in Actors \ {c} : actor'[e] = actor[e]

Turn(c) == Busy(c) /\ ((\E o \in Outcomes : End(c, o)) \/ (UNCHANGED session /\ Onward(c)))

LEMMA Leads ==
    ASSUME NEW x \in ActorState
    PROVE  /\ Led(x, Caught(x)) /\ Led(x, CellFailed(x)) /\ Led(x, Deliver(x))
           /\ \A pc : pc \notin {"idle", "waiting", "copy"} => Led(x, [x EXCEPT !.pc = pc])
           /\ \A then : Led(x, [x EXCEPT !.pc = "check", !.then = then])
           /\ \A l : Led(x, Accepted(x, l))
<1>1. Led(x, Caught(x))
    BY DEF Led, Caught, ActorState
<1>2. Led(x, CellFailed(x))
    BY DEF Led, CellFailed, ActorState
<1>3. Led(x, Deliver(x))
    BY DEF Led, Deliver, Flush, ActorState
<1>4. \A pc : pc \notin {"idle", "waiting", "copy"} => Led(x, [x EXCEPT !.pc = pc])
    BY DEF Led, ActorState
<1>5. \A then : Led(x, [x EXCEPT !.pc = "check", !.then = then])
    BY DEF Led, ActorState
<1>6. \A l : Led(x, Accepted(x, l))
    BY <1>1 DEF Led, Accepted, ActorState
<1> QED
    BY <1>1, <1>2, <1>3, <1>4, <1>5, <1>6

LEMMA SyncLeads ==
    ASSUME NEW x \in ActorState, x.stage \in {"identity", "fill", "placeholder"}
    PROVE  Led(x, Synced(x)) /\ Led(x, SyncFailed(x))
<1>1. Led(x, SyncFailed(x))
  <2>1. SyncFailed(x) = Caught(x) \/ SyncFailed(x) = [x EXCEPT !.pc = "product"]
      BY DEF SyncFailed
  <2> QED
      BY <2>1, Leads
<1>2. Led(x, Synced(x))
  <2>1. Led(x, [x EXCEPT !.pc = "check", !.then = "ask", !.stage = "fill"])
      BY DEF Led, ActorState
  <2>2. CASE x.stage = "identity"
    <3>1. CASE x.pre.text \in Missing
      <4>1. Synced(x) = [x EXCEPT !.pc = "check", !.then = "ask", !.stage = "fill"]
          BY <2>2, <3>1 DEF Synced
      <4> QED
          BY <2>1, <4>1
    <3>2. CASE x.pre.text \notin Missing
      <4>1. Synced(x) = Accepted(x, x.pre)
          BY <2>2, <3>2 DEF Synced
      <4> QED
          BY <4>1, Leads
    <3> QED
        BY <3>1, <3>2
  <2>3. CASE x.stage # "identity"
    <3>1. Synced(x) = [x EXCEPT !.pc = "verify"] \/ Synced(x) = [x EXCEPT !.pc = "product"]
        BY <2>3 DEF Synced
    <3> QED
        BY <3>1, Leads
  <2> QED
      BY <2>2, <2>3
<1> QED
    BY <1>1, <1>2

LEMMA SetLeads ==
    ASSUME IInv, NEW c \in Clicks, NEW x, x = actor[c], NEW y, Set(c, y), Led(x, y)
    PROVE  Onward(c)
<1>1. actor \in [Actors -> ActorState] /\ c \in Actors
    BY DEF IInv, Actors
<1>2. actor' = [actor EXCEPT ![c] = [y EXCEPT !.moved = FALSE]]
    BY DEF Set
<1>3. PICK z : z = [y EXCEPT !.moved = FALSE] /\ z.proc = x.proc /\ z.pc \notin {"idle", "waiting", "copy"}
    BY DEF Led
<1> QED
    BY <1>1, <1>2, <1>3 DEF Onward

LEMMA TurnOf ==
    ASSUME IInv, NEW c \in Clicks, NEW x, x = actor[c], x.pc \notin {"idle", "waiting", "done"},
           \/ \E o \in Outcomes : End(c, o)
           \/ UNCHANGED session /\ \E y : Set(c, y) /\ Led(x, y)
    PROVE  Turn(c)
BY SetLeads DEF Turn, Busy

\* A click at some place of its program.
LEMMA ClickAt ==
    ASSUME IInv, NEW c \in Clicks
    PROVE  \E x \in ActorState : x = actor[c] /\ ClickGood(x)
BY ClickHas DEF ClickGood

LEMMA CardTurns ==
    ASSUME IInv, NEW c \in Clicks, CardStep(c), \A o \in Answer : ~CopyTemplate(c, o)
    PROVE  Turn(c)
<1>1. PICK x \in ActorState : x = actor[c] /\ ClickGood(x)
    BY ClickAt
<1>2. "failed" \in Outcomes /\ "partial" \in Outcomes /\ "completed" \in Outcomes
    BY Names DEF Outcomes
<1>3. CASE FlushNext(c)
    BY <1>1, <1>3, Leads, TurnOf DEF FlushNext
<1>4. CASE Flushed(c)
  <2>1. Led(x, [x EXCEPT !.pc = "preflight"]) /\ Led(x, [Decide(x) EXCEPT !.pc = "video"])
      BY DEF Led, Decide, ActorState
  <2>2. Led(x, Flush([Decide(x) EXCEPT !.stage = "last"], {"card"}))
      BY DEF Led, Decide, Flush, ActorState
  <2> QED
      BY <1>1, <1>2, <1>4, <2>1, <2>2, TurnOf DEF Flushed
<1>5. ASSUME NEW how, NameCard(c, how) PROVE Turn(c)
    BY <1>1, <1>2, <1>5, Leads, TurnOf DEF NameCard, Go
<1>6. ASSUME NEW v, AskCatalog(c, v) PROVE Turn(c)
  <2>1. Led(x, [Sync(x, "fill", "text", v) EXCEPT !.pc = "check", !.then = "read"])
      BY DEF Led, Sync, ActorState
  <2> QED
      BY <1>1, <1>6, <2>1, Leads, TurnOf DEF AskCatalog, tables
<1>7. ASSUME NEW o, PutCell(c, o) PROVE Turn(c)
  <2>1. \A k : Led(x, [x EXCEPT !.pc = "flush", !.todo = @ \ {k}, !.pending = @ \ {k}, !.failed = @ \ {k}])
      BY DEF Led, ActorState
  <2> QED
      BY <1>1, <1>7, <2>1, Leads, TurnOf DEF PutCell
<1>8. ASSUME NEW ok, CheckPid(c, ok) PROVE Turn(c)
  <2>1. CASE End(c, "failed")
      BY <1>1, <1>2, <1>8, <2>1, TurnOf DEF CheckPid
  <2>2. CASE UNCHANGED session /\ Set(c, [x EXCEPT !.pc = x.then])
    <3>1. x.pc = "check" /\ x.then \in Thens \ {"none"}
        BY <1>1, <1>8 DEF CheckPid, ClickGood, ClickFits, At, ActorState
    <3>2. x.then \notin {"idle", "waiting", "copy"}
        BY <3>1 DEF Thens
    <3> QED
        BY <1>1, <2>2, <3>1, <3>2, Leads, TurnOf
  <2>3. CASE UNCHANGED session /\ Set(c, CASE x.then = "put"    -> CellFailed(x)
                                           [] x.then = "latest" -> [x EXCEPT !.pc = "product"]
                                           [] OTHER             -> Caught(x))
    <3>1. Set(c, CellFailed(x)) \/ Set(c, [x EXCEPT !.pc = "product"]) \/ Set(c, Caught(x))
        BY <2>3
    <3> QED
        BY <1>1, <1>8, <2>3, <3>1, Leads, TurnOf DEF CheckPid
  <2> QED
      BY <1>1, <1>8, <2>1, <2>2, <2>3 DEF CheckPid
<1>9. ASSUME NEW ok, FindCard(c, ok) PROVE Turn(c)
  <2>1. CASE End(c, "failed")
      BY <1>1, <1>2, <1>9, <2>1, TurnOf DEF FindCard
  <2>2. CASE UNCHANGED session /\ Cards(x.pid) = {} /\ Go(c, "copy")
    <3>1. PICK z : z = [[x EXCEPT !.pc = "copy"] EXCEPT !.moved = FALSE]
        OBVIOUS
    <3>2. z.pc = "copy" /\ z.pid = x.pid /\ z.proc = x.proc
        BY <3>1 DEF ActorState
    <3>3. actor' = [actor EXCEPT ![c] = z] /\ actor \in [Actors -> ActorState] /\ c \in Actors
        BY <1>1, <2>2, <3>1 DEF Go, Set, IInv, Actors
    <3> QED
        BY <1>1, <1>9, <2>2, <3>2, <3>3 DEF Turn, Onward, Busy, FindCard
  <2>3. CASE UNCHANGED session /\ \E d \in Cards(x.pid) : Set(c, [x EXCEPT !.pc = "title", !.doc = d])
    <3>1. \A d : Led(x, [x EXCEPT !.pc = "title", !.doc = d])
        BY DEF Led, ActorState
    <3> QED
        BY <1>1, <1>9, <2>3, <3>1, TurnOf DEF FindCard
  <2> QED
      BY <1>1, <1>9, <2>1, <2>2, <2>3 DEF FindCard
<1>10. ASSUME NEW ok, TitleCard(c, ok) PROVE Turn(c)
    BY <1>1, <1>2, <1>10, Leads, TurnOf DEF TitleCard, Go
<1>11. ASSUME NEW ok, Preflight(c, ok) PROVE Turn(c)
  <2>1. \A l : Led(x, Sync([x EXCEPT !.pre = l], "identity", "id", x.pid))
      BY DEF Led, Sync, ActorState
  <2> QED
      BY <1>1, <1>11, <2>1, Leads, TurnOf DEF Preflight
<1>12. ASSUME NEW ok, VerifyCard(c, ok) PROVE Turn(c)
    BY <1>1, <1>12, Leads, TurnOf DEF VerifyCard
<1>13. ASSUME NEW ok, ReadLatest(c, ok) PROVE Turn(c)
  <2>1. \A l : Led(x, Sync([x EXCEPT !.pre = l], "placeholder", "text", "pending"))
      BY DEF Led, Sync, ActorState
  <2> QED
      BY <1>1, <1>13, <2>1, Leads, TurnOf DEF ReadLatest
<1>14. ASSUME NEW ok, FindProduct(c, ok) PROVE Turn(c)
  <2>1. \A k : Led(x, [x EXCEPT !.pc = "save", !.found = k])
      BY DEF Led, ActorState
  <2> QED
      BY <1>1, <1>2, <1>14, <2>1, TurnOf DEF FindProduct
<1>15. ASSUME NEW ok, SaveProduct(c, ok) PROVE Turn(c)
  <2>1. \A k : Led(x, [x EXCEPT !.pc = "check", !.then = "map", !.stage = "map", !.found = k])
      BY DEF Led, ActorState
  <2>2. CASE End(c, "failed")
      BY <1>1, <1>2, <1>15, <2>2, TurnOf DEF SaveProduct
  <2>3. CASE /\ UNCHANGED session
             /\ Set(c, [x EXCEPT !.pc = "check", !.then = "map", !.stage = "map",
                                 !.found = IF x.found = 0 THEN Len(product') ELSE @])
      BY <1>1, <1>15, <2>1, <2>3, TurnOf DEF SaveProduct
  <2> QED
      BY <1>1, <1>15, <2>2, <2>3 DEF SaveProduct
<1>16. ASSUME NEW ok, MapCard(c, ok) PROVE Turn(c)
  <2>1. Led(x, Flush([x EXCEPT !.stage = "again"], {}))
      BY DEF Led, Flush, ActorState
  <2> QED
      BY <1>1, <1>2, <1>16, <2>1, TurnOf DEF MapCard
<1>17. ASSUME NEW ok, CreateCardVideo(c, ok) PROVE Turn(c)
  <2>1. Led(x, Flush([x EXCEPT !.stage = "last"], {"card", "video"}))
      BY DEF Led, Flush, ActorState
  <2>2. x.pc = "video" => Led(x, x)
      BY DEF Led, ActorState
  <2> QED
      BY <1>1, <1>2, <1>17, <2>1, <2>2, TurnOf DEF CreateCardVideo
<1> QED
    BY <1>3, <1>4, <1>5, <1>6, <1>7, <1>8, <1>9, <1>10, <1>11, <1>12, <1>13, <1>14, <1>15, <1>16, <1>17
    DEF CardStep

LEMMA LineTurns ==
    ASSUME IInv, NEW c \in Clicks, SyncStep(c)
    PROVE  Turn(c)
<1>1. PICK x \in ActorState : x = actor[c] /\ ClickGood(x)
    BY ClickAt
<1>2. x.pc \in Syncing => Led(x, Synced(x)) /\ Led(x, SyncFailed(x))
  <2>1. x.pc \in Syncing => x.stage \in {"identity", "fill", "placeholder"}
      BY <1>1 DEF ClickGood, ClickFits, At, Syncing
  <2> QED
      BY <2>1, SyncLeads
<1>3. ASSUME NEW ok, ReadLine(c, ok) PROVE Turn(c)
  <2>1. \A b : Led(x, [x EXCEPT !.pc = "look", !.base = b])
      BY DEF Led, ActorState
  <2> QED
      BY <1>1, <1>2, <1>3, <2>1, TurnOf DEF ReadLine, Syncing
<1>4. ASSUME NEW ok, LookAgain(c, ok) PROVE Turn(c)
  <2>1. Led(x, [x EXCEPT !.pc = "write", !.blind = FALSE])
      BY DEF Led, ActorState
  <2> QED
      BY <1>1, <1>2, <1>4, <2>1, TurnOf DEF LookAgain, Syncing
<1>5. ASSUME NEW o, WriteLine(c, o) PROVE Turn(c)
    BY <1>1, <1>2, <1>5, TurnOf DEF WriteLine, Syncing
<1> QED
    BY <1>3, <1>4, <1>5 DEF SyncStep

LEMMA OwnerTurns ==
    ASSUME IInv, NEW c \in Clicks, OwnerStep(c)
    PROVE  Turn(c)
<1>1. PICK x \in ActorState : x = actor[c] /\ ClickGood(x)
    BY ClickAt
<1>2. \A ok : Owned(c, ok) => Set(c, Deliver(x))
    BY <1>1, Kinds DEF Owned
<1>3. ASSUME NEW ok, ReadOwner(c, ok) PROVE Turn(c)
    BY <1>1, <1>2, <1>3, Leads, TurnOf DEF ReadOwner, Go
<1>4. ASSUME NEW ok, ConfirmOwner(c, ok) PROVE Turn(c)
  <2>1. x.pc = "confirm" => Led(x, [x EXCEPT !.tries = @ + 1])
      BY DEF Led, ActorState
  <2> QED
      BY <1>1, <1>2, <1>4, <2>1, Leads, TurnOf DEF ConfirmOwner
<1>5. ASSUME NEW o, TransferOwner(c, o) PROVE Turn(c)
  <2>1. Led(x, [x EXCEPT !.pc = "confirm", !.tries = 1])
      BY DEF Led, ActorState
  <2> QED
      BY <1>1, <1>2, <1>5, <2>1, Leads, TurnOf DEF TransferOwner
<1> QED
    BY <1>3, <1>4, <1>5 DEF OwnerStep

\* What a click can see of the documents that were copied: they keep their PID, and leave
\* the folder for the trash alone.
DocsKept ==
    /\ copied' = copied
    /\ \A d \in Documents : doc[d].place \in {"folder", "trash"} =>
          doc'[d].pid = doc[d].pid /\ doc'[d].place \in {doc[d].place, "trash"}

\* The clicks that are about to copy the template for a PID, and those whose session is gone.
Copying(p) == {c \in Clicks : actor[c].pc = "copy" /\ actor[c].pid = p}
Strays     == {c \in Clicks : Busy(c) /\ actor[c].proc # session}

\* No two handlers of clicks run in one process.
Apart == \A c, e \in Clicks : Busy(c) /\ Busy(e) /\ actor[c].proc = actor[e].proc => c = e

\* Each cut leaves one stray at most, so that no more than one handler runs beside the
\* strays; and a PID has as many copies, made or about to be made, as handlers that may
\* have looked for its card at once.
CardInv ==
    /\ cut \in Nat /\ Apart
    /\ IsFiniteSet(Strays) /\ Cardinality(Strays) <= cut
    /\ \A d \in copied : Placed(d)
    /\ \A p \in Pids : /\ IsFiniteSet(Copies(p)) /\ IsFiniteSet(Copying(p))
                       /\ Cardinality(Copies(p)) + Cardinality(Copying(p)) <= 1 + cut

LEMMA LinesKept ==
    ASSUME IInv, NEW d \in Documents, NEW n, doc' = [doc EXCEPT ![d] = n], copied' = copied,
           n.pid = doc[d].pid, doc[d].place \in {"folder", "trash"} => n.place \in {doc[d].place, "trash"}
    PROVE  DocsKept
<1>1. doc \in [Documents -> Document]
    BY DEF IInv, Tables
<1>2. doc'[d] = n /\ \A e \in Documents : e # d => doc'[e] = doc[e]
    BY <1>1
<1> QED
    BY <1>2 DEF DocsKept

LEMMA WriteLineKeeps ==
    ASSUME IInv, NEW a \in Clicks \cup Repairs, NEW outcome, WriteLine(a, outcome)
    PROVE  DocsKept
<1>1. PICK x : x = actor[a] /\ x.pc = "write"
    BY DEF WriteLine
<1>2. x.doc \in Documents /\ SyncFits(x)
    BY <1>1, SyncHas DEF Syncing
<1>3. doc[x.doc] \in Document
    BY <1>2 DEF IInv, Tables
<1>4. CASE UNCHANGED doc
    BY <1>4 DEF WriteLine, DocsKept
<1>5. CASE doc' = [doc EXCEPT ![x.doc][x.label] = x.value]
  <2>1. x.label = "id" \/ x.label = "text"
      BY <1>1, <1>2 DEF SyncFits, At, Syncing
  <2>2. PICK n : n = [doc[x.doc] EXCEPT ![x.label] = x.value]
      OBVIOUS
  <2>3. doc' = [doc EXCEPT ![x.doc] = n]
      BY <1>5, <2>2
  <2>4. n.pid = doc[x.doc].pid /\ n.place = doc[x.doc].place
      BY <1>3, <2>1, <2>2 DEF Document
  <2> QED
      BY <1>2, <2>3, <2>4, LinesKept DEF WriteLine
<1> QED
    BY <1>1, <1>4, <1>5 DEF WriteLine

LEMMA TransferKeeps ==
    ASSUME IInv, NEW a \in Clicks \cup Moves, NEW outcome, TransferOwner(a, outcome)
    PROVE  DocsKept
<1>1. PICK x : x = actor[a] /\ x.pc = "transfer"
    BY DEF TransferOwner
<1>2. x.doc \in Documents
    BY <1>1, OwnerHas
<1>3. doc[x.doc] \in Document
    BY <1>2 DEF IInv, Tables
<1>4. CASE UNCHANGED doc
    BY <1>4 DEF TransferOwner, DocsKept
<1>5. CASE doc' = [doc EXCEPT ![x.doc].owner = "changing"]
  <2>1. PICK n : n = [doc[x.doc] EXCEPT !.owner = "changing"]
      OBVIOUS
  <2>2. doc' = [doc EXCEPT ![x.doc] = n]
      BY <1>5, <2>1
  <2>3. n.pid = doc[x.doc].pid /\ n.place = doc[x.doc].place
      BY <1>3, <2>1 DEF Document
  <2> QED
      BY <1>2, <2>2, <2>3, LinesKept DEF TransferOwner
<1> QED
    BY <1>1, <1>4, <1>5 DEF TransferOwner

LEMMA MoveKeeps ==
    ASSUME IInv, NEW m \in Moves, NEW outcome, MoveDocument(m, outcome)
    PROVE  DocsKept
<1>1. PICK x : x = actor[m] /\ x.pc = "move" /\ x.doc \in Documents
    BY MoveHas DEF MoveDocument, MoveGood, MoveFits
<1>2. doc[x.doc] \in Document
    BY <1>1 DEF IInv, Tables
<1>3. CASE UNCHANGED doc
    BY <1>3 DEF MoveDocument, DocsKept
<1>4. CASE doc[x.doc].place = "elsewhere" /\ doc' = [doc EXCEPT ![x.doc].place = "moving"]
  <2>1. PICK n : n = [doc[x.doc] EXCEPT !.place = "moving"]
      OBVIOUS
  <2>2. doc' = [doc EXCEPT ![x.doc] = n]
      BY <1>4, <2>1
  <2>3. n.pid = doc[x.doc].pid
      BY <1>2, <2>1 DEF Document
  <2> QED
      BY <1>1, <1>4, <2>2, <2>3, LinesKept DEF MoveDocument
<1> QED
    BY <1>1, <1>3, <1>4 DEF MoveDocument

\* A step of people or of Feishu in a document.
LEMMA PeopleKeep ==
    ASSUME IInv, NEW d \in Documents, TrashCard(d) \/ TakesEffect(d) \/ \E t \in Facts : EditFacts(d, t)
    PROVE  DocsKept
<1>1. doc[d] \in Document
    BY DEF IInv, Tables
<1>2. CASE TrashCard(d)
  <2>1. PICK n : n = [doc[d] EXCEPT !.place = "trash"]
      OBVIOUS
  <2>2. doc' = [doc EXCEPT ![d] = n] /\ copied' = copied
      BY <1>2, <2>1 DEF TrashCard
  <2>3. n.pid = doc[d].pid /\ n.place = "trash"
      BY <1>1, <2>1 DEF Document
  <2> QED
      BY <2>2, <2>3, LinesKept
<1>3. CASE TakesEffect(d) /\ doc[d].place = "moving" /\ doc' = [doc EXCEPT ![d].place = "folder"]
  <2>1. PICK n : n = [doc[d] EXCEPT !.place = "folder"]
      OBVIOUS
  <2>2. doc' = [doc EXCEPT ![d] = n] /\ copied' = copied
      BY <1>3, <2>1 DEF TakesEffect
  <2>3. n.pid = doc[d].pid
      BY <1>1, <2>1 DEF Document
  <2> QED
      BY <1>3, <2>2, <2>3, LinesKept
<1>4. CASE TakesEffect(d) /\ doc' = [doc EXCEPT ![d].owner = "team"]
  <2>1. PICK n : n = [doc[d] EXCEPT !.owner = "team"]
      OBVIOUS
  <2>2. doc' = [doc EXCEPT ![d] = n] /\ copied' = copied
      BY <1>4, <2>1 DEF TakesEffect
  <2>3. n.pid = doc[d].pid /\ n.place = doc[d].place
      BY <1>1, <2>1 DEF Document
  <2> QED
      BY <2>2, <2>3, LinesKept
<1>5. ASSUME NEW t, EditFacts(d, t) PROVE DocsKept
  <2>1. PICK n : n = [doc[d] EXCEPT !.text = t]
      OBVIOUS
  <2>2. doc' = [doc EXCEPT ![d] = n] /\ copied' = copied
      BY <1>5, <2>1 DEF EditFacts
  <2>3. n.pid = doc[d].pid /\ n.place = doc[d].place
      BY <1>1, <2>1 DEF Document
  <2> QED
      BY <2>2, <2>3, LinesKept
<1> QED
    BY <1>2, <1>3, <1>4, <1>5 DEF TakesEffect

LEMMA Untouched ==
    ASSUME UNCHANGED <<doc, copied>>
    PROVE  DocsKept
BY DEF DocsKept

LEMMA CardKeeps ==
    ASSUME NEW c \in Clicks, CardStep(c), \A o \in Answer : ~CopyTemplate(c, o)
    PROVE  DocsKept
<1>1. CASE FlushNext(c) \/ Flushed(c)
    BY <1>1, Untouched DEF FlushNext, Flushed
<1>2. ASSUME NEW how, NameCard(c, how) PROVE DocsKept
    BY <1>2, Untouched DEF NameCard
<1>3. ASSUME NEW v, AskCatalog(c, v) PROVE DocsKept
    BY <1>3, Untouched DEF AskCatalog
<1>4. ASSUME NEW o, PutCell(c, o) PROVE DocsKept
    BY <1>4, Untouched DEF PutCell
<1>5. ASSUME NEW ok, CheckPid(c, ok) \/ FindCard(c, ok) \/ FindProduct(c, ok) \/ TitleCard(c, ok) PROVE DocsKept
    BY <1>5, Untouched DEF CheckPid, FindCard, FindProduct, TitleCard
<1>6. ASSUME NEW ok, SaveProduct(c, ok) \/ MapCard(c, ok) \/ CreateCardVideo(c, ok) PROVE DocsKept
    BY <1>6, Untouched DEF SaveProduct, MapCard, CreateCardVideo
<1>7. ASSUME NEW ok, Preflight(c, ok) \/ VerifyCard(c, ok) \/ ReadLatest(c, ok) PROVE DocsKept
    BY <1>7, Untouched DEF Preflight, VerifyCard, ReadLatest
<1> QED
    BY <1>1, <1>2, <1>3, <1>4, <1>5, <1>6, <1>7 DEF CardStep

LEMMA SyncKeeps ==
    ASSUME IInv, NEW a \in Clicks \cup Repairs, SyncStep(a)
    PROVE  DocsKept
<1>1. ASSUME NEW ok, ReadLine(a, ok) \/ LookAgain(a, ok) PROVE DocsKept
    BY <1>1, Untouched DEF ReadLine, LookAgain
<1> QED
    BY <1>1, WriteLineKeeps DEF SyncStep

LEMMA OwnerKeeps ==
    ASSUME IInv, NEW a \in Clicks \cup Moves, OwnerStep(a)
    PROVE  DocsKept
<1>1. ASSUME NEW ok, ReadOwner(a, ok) \/ ConfirmOwner(a, ok) PROVE DocsKept
    BY <1>1, Untouched DEF ReadOwner, ConfirmOwner
<1> QED
    BY <1>1, TransferKeeps DEF OwnerStep

LEMMA OthersKeep ==
    ASSUME IInv, NEW a \in Actors,
           \/ a \in Repairs /\ RepairStep(a)
           \/ a \in Lookups /\ LookupStep(a)
           \/ a \in Moves /\ MigrationStep(a)
    PROVE  DocsKept /\ UNCHANGED session
<1>1. CASE a \in Repairs /\ RepairStep(a)
    BY <1>1, Untouched DEF RepairStep, RepairPreflight, RepairFacts
<1>2. CASE a \in Lookups /\ LookupStep(a)
    BY <1>2, Untouched DEF LookupStep, RereadProduct, StoreProduct, ListProducts
<1>3. CASE a \in Moves /\ MigrationStep(a)
  <2>1. CASE NextDocument(a)
      BY <2>1, Untouched DEF NextDocument
  <2>2. ASSUME NEW ok, LocateDocument(a, ok) \/ ConfirmMove(a, ok)
        PROVE  DocsKept /\ UNCHANGED session
      BY <2>2, Untouched DEF LocateDocument, ConfirmMove
  <2>3. ASSUME NEW o, MoveDocument(a, o) PROVE UNCHANGED session
      BY <2>3 DEF MoveDocument
  <2> QED
      BY <1>3, <2>1, <2>2, <2>3, MoveKeeps DEF MigrationStep
<1> QED
    BY <1>1, <1>2, <1>3

\* A set that has one element beside those of a small one.
LEMMA Few ==
    ASSUME NEW S, NEW T, IsFiniteSet(T), NEW n \in Nat, Cardinality(T) <= n,
           \A x, y \in S : x \notin T /\ y \notin T => x = y
    PROVE  IsFiniteSet(S) /\ Cardinality(S) <= 1 + n
<1>1. Cardinality(T) \in Nat
    BY FS_CardinalityType
<1>2. CASE S \subseteq T
    BY <1>1, <1>2, FS_Subset, FS_CardinalityType
<1>3. CASE \E x \in S : x \notin T
  <2>1. PICK x \in S : x \notin T
      BY <1>3
  <2>2. IsFiniteSet(T \cup {x}) /\ Cardinality(T \cup {x}) = Cardinality(T) + 1
      BY <2>1, FS_AddElement
  <2>3. S \subseteq T \cup {x}
      BY <2>1
  <2>4. IsFiniteSet(S) /\ Cardinality(S) <= Cardinality(T \cup {x}) /\ Cardinality(S) \in Nat
      BY <2>2, <2>3, FS_Subset, FS_CardinalityType
  <2> QED
      BY <1>1, <2>2, <2>4
<1> QED
    BY <1>2, <1>3

\* A smaller set is not larger.
LEMMA Fewer ==
    ASSUME NEW T, IsFiniteSet(T), NEW S \in SUBSET T
    PROVE  IsFiniteSet(S) /\ Cardinality(S) \in Nat /\ Cardinality(T) \in Nat /\ Cardinality(S) <= Cardinality(T)
BY FS_Subset, FS_CardinalityType

\* The counts of CardInv make room for a click that has looked for a card and found none.
LEMMA RoomToCopy ==
    ASSUME NEW C, C = {}, NEW H, IsFiniteSet(H), NEW n \in Nat, Cardinality(H) <= 1 + n
    PROVE  IsFiniteSet(C) /\ Cardinality(C) + Cardinality(H) <= 1 + n
BY FS_EmptySet, FS_CardinalityType

\* A step that cuts no session, after which no two handlers are in one process, none is a
\* stray that was not one before, and whoever has come to a copy has seen no card.
LEMMA CardHolds ==
    ASSUME IInv, IInv', CardInv, DocsKept, UNCHANGED cut, Apart', Strays' \subseteq Strays,
           \A p \in Pids : Copying(p)' \subseteq Copying(p) \/ Cards(p) = {}
    PROVE  CardInv'
<1>1. cut \in Nat /\ cut' = cut /\ IsFiniteSet(Strays) /\ Cardinality(Strays) <= cut /\ copied' = copied
    BY DEF CardInv, DocsKept
<1>2. IsFiniteSet(Strays') /\ Cardinality(Strays') <= cut
  <2>1. PICK S : S = Strays
      OBVIOUS
  <2>2. PICK T : T = Strays'
      OBVIOUS
  <2>3. IsFiniteSet(T) /\ Cardinality(T) \in Nat /\ Cardinality(S) \in Nat /\ Cardinality(T) <= Cardinality(S)
      BY <1>1, <2>1, <2>2, Fewer
  <2> QED
      BY <1>1, <2>1, <2>2, <2>3
<1>3. ASSUME NEW d \in copied
      PROVE  /\ d \in Documents /\ doc'[d].pid = doc[d].pid /\ doc'[d].place \in {"folder", "trash"}
             /\ doc'[d].place = "folder" => doc[d].place = "folder"
    BY <1>3 DEF DocsKept, CardInv, Placed, IInv, Tables
<1>4. \A d \in copied' : Placed(d)'
    BY <1>1, <1>3 DEF Placed
<1>5. ASSUME NEW p \in Pids
      PROVE  /\ IsFiniteSet(Copies(p)') /\ IsFiniteSet(Copying(p)')
             /\ Cardinality(Copies(p)') + Cardinality(Copying(p)') <= 1 + cut
  <2>1. PICK C : C = Copies(p)
      OBVIOUS
  <2>2. PICK D : D = Copies(p)'
      OBVIOUS
  <2>3. PICK G : G = Copying(p)
      OBVIOUS
  <2>4. PICK H : H = Copying(p)'
      OBVIOUS
  <2>5. /\ IsFiniteSet(C) /\ IsFiniteSet(G) /\ Cardinality(C) + Cardinality(G) <= 1 + cut
        /\ D \subseteq C
      BY <1>1, <1>3, <2>1, <2>2, <2>3 DEF CardInv, Copies
  <2>6. /\ IsFiniteSet(D) /\ Cardinality(D) \in Nat /\ Cardinality(C) \in Nat
        /\ Cardinality(D) <= Cardinality(C)
      BY <2>5, Fewer
  <2>7. CASE H \subseteq G
    <3>1. /\ IsFiniteSet(H) /\ Cardinality(H) \in Nat /\ Cardinality(G) \in Nat
          /\ Cardinality(H) <= Cardinality(G)
        BY <2>5, <2>7, Fewer
    <3> QED
        BY <1>1, <2>2, <2>4, <2>5, <2>6, <3>1
  <2>8. CASE Cards(p) = {}
    <3>1. D = {}
        BY <1>1, <1>3, <2>2, <2>8 DEF Cards, Copies
    <3>2. PICK T : T = Strays'
        OBVIOUS
    <3>3. \A x, y \in H : x \notin T /\ y \notin T => x = y
        BY <2>4, <3>2 DEF Copying, Strays, Apart, Busy
    <3>4. IsFiniteSet(H) /\ Cardinality(H) <= 1 + cut
        BY <1>1, <1>2, <3>2, <3>3, Few
    <3> QED
        BY <1>1, <2>2, <2>4, <3>1, <3>4, <2>6, RoomToCopy
  <2> QED
      BY <2>3, <2>4, <2>7, <2>8
<1> QED
    BY <1>1, <1>2, <1>4, <1>5 DEF CardInv

LEMMA TurnLeaves ==
    ASSUME IInv, CardInv, NEW c \in Clicks, Turn(c)
    PROVE  /\ Apart' /\ Strays' \subseteq Strays
           /\ \A p \in Pids : Copying(p)' \subseteq Copying(p) \/ Cards(p) = {}
<1>1. actor \in [Actors -> ActorState] /\ c \in Actors /\ Clicks \subseteq Actors
    BY DEF IInv, Actors
<1>2. /\ Busy(c) /\ \A e \in Clicks \ {c} : actor'[e] = actor[e]
      /\ \/ /\ actor'[c].pc = "done"
            /\ session' = IF session = actor[c].proc THEN None ELSE session
         \/ /\ UNCHANGED session /\ actor'[c].proc = actor[c].proc
            /\ actor'[c].pc \notin {"idle", "waiting"}
            /\ actor'[c].pc = "copy" => Cards(actor'[c].pid) = {}
  <2>1. ASSUME NEW o \in Outcomes, End(c, o)
        PROVE  /\ actor'[c].pc = "done" /\ \A e \in Clicks \ {c} : actor'[e] = actor[e]
               /\ session' = IF session = actor[c].proc THEN None ELSE session
    <3>1. PICK x \in ActorState : x = actor[c]
        BY <1>1
    <3>2. PICK y : y = [x EXCEPT !.pc = "done", !.outcome = o] /\ y \in ActorState /\ y.pc = "done"
        BY Ends
    <3>3. [y EXCEPT !.moved = FALSE].pc = "done"
        BY <3>2, Unmoved
    <3> QED
        BY <1>1, <2>1, <3>1, <3>2, <3>3 DEF End, Set
  <2> QED
      BY <1>1, <2>1 DEF Turn, Onward
<1>3. \A e \in Clicks : Busy(e)' => Busy(e) /\ actor'[e].proc = actor[e].proc
    BY <1>2 DEF Busy
<1>4. Apart'
    BY <1>3 DEF CardInv, Apart
<1>5. Strays' \subseteq Strays
  <2> SUFFICES ASSUME NEW e \in Clicks, Busy(e)', actor'[e].proc # session'
               PROVE  Busy(e) /\ actor[e].proc # session
      BY DEF Strays
  <2>1. CASE actor'[c].pc = "done" /\ session = actor[c].proc
    <3>1. e # c
        BY <2>1 DEF Busy
    <3> QED
        BY <1>2, <1>3, <2>1, <3>1 DEF CardInv, Apart
  <2>2. CASE session' = session
      BY <1>3, <2>2
  <2> QED
      BY <1>2, <2>1, <2>2
<1>6. ASSUME NEW p \in Pids PROVE Copying(p)' \subseteq Copying(p) \/ Cards(p) = {}
    BY <1>2 DEF Copying
<1> QED
    BY <1>4, <1>5, <1>6

LEMMA TurnHolds ==
    ASSUME IInv, IInv', CardInv, NEW c \in Clicks, Turn(c), DocsKept, UNCHANGED cut
    PROVE  CardInv'
BY TurnLeaves, CardHolds

\* A step that leaves every click where it is.
LEMMA StillHolds ==
    ASSUME IInv, IInv', CardInv, DocsKept, UNCHANGED <<session, cut>>,
           \A c \in Clicks : /\ actor'[c].pc = actor[c].pc /\ actor'[c].proc = actor[c].proc
                             /\ actor'[c].pid = actor[c].pid
    PROVE  CardInv'
<1>1. Apart' /\ Strays' \subseteq Strays
    BY DEF CardInv, Apart, Strays, Busy
<1>2. \A p \in Pids : Copying(p)' \subseteq Copying(p)
    BY DEF Copying
<1> QED
    BY <1>1, <1>2, CardHolds

LEMMA AcceptAlone ==
    ASSUME IInv, IInv', CardInv, NEW c \in Clicks, NEW r \in Rows, Accept(c, r)
    PROVE  CardInv'
<1>1. UNCHANGED <<session, cut>> /\ DocsKept
    BY Untouched DEF Accept
<1>2. actor'[c].pc = "waiting" /\ \A e \in Clicks \ {c} : actor'[e] = actor[e]
  <2>1. actor \in [Actors -> ActorState] /\ c \in Actors /\ Clicks \subseteq Actors
      BY DEF IInv, Actors
  <2>2. [[Idle EXCEPT !.pc = "waiting", !.row = r, !.pid = row[r].pid] EXCEPT !.moved = FALSE].pc = "waiting"
      BY DEF Idle
  <2> QED
      BY <2>1, <2>2 DEF Accept, Set
<1>3. \A e \in Clicks : Busy(e)' => Busy(e) /\ actor'[e] = actor[e]
    BY <1>2 DEF Busy
<1>4. Apart' /\ Strays' \subseteq Strays
    BY <1>1, <1>3 DEF CardInv, Apart, Strays
<1>5. \A p \in Pids : Copying(p)' \subseteq Copying(p)
    BY <1>2 DEF Copying
<1> QED
    BY <1>1, <1>4, <1>5, CardHolds

\* A handler starts when the session is free, and so whoever is at work already is a stray.
LEMMA StartAlone ==
    ASSUME IInv, IInv', CardInv, NEW c \in Clicks, NEW p \in budget.at, StartCard(c, p)
    PROVE  CardInv'
<1>1. /\ actor[c].pc = "waiting" /\ session = None /\ session' = p /\ DocsKept /\ UNCHANGED cut
      /\ \A e \in Clicks : Busy(e) => actor[e].proc # p
    BY Untouched DEF StartCard
<1>2. /\ actor'[c].pc = "check" /\ actor'[c].proc = p /\ \A e \in Clicks \ {c} : actor'[e] = actor[e]
  <2>1. actor \in [Actors -> ActorState] /\ c \in Actors /\ Clicks \subseteq Actors
      BY DEF IInv, Actors
  <2>2. PICK x \in ActorState : x = actor[c]
      BY <2>1
  <2>3. PICK z : z = [[x EXCEPT !.pc = "check", !.then = "name", !.proc = p] EXCEPT !.moved = FALSE]
      OBVIOUS
  <2>4. z.pc = "check" /\ z.proc = p
      BY <2>3 DEF ActorState
  <2> QED
      BY <2>1, <2>2, <2>3, <2>4 DEF StartCard, Set
<1>3. ASSUME NEW e \in Clicks, Busy(e) PROVE actor[e].proc # None
  <2>1. actor[e].proc \in Processes
      BY <1>3, ClickHas DEF ClickGood, ClickFits, Busy
  <2> QED
      BY <2>1, Kinds
<1>4. \A e \in Clicks : Busy(e)' => e = c \/ (Busy(e) /\ actor'[e] = actor[e] /\ e # c)
    BY <1>2 DEF Busy
<1>5. Apart'
    BY <1>1, <1>2, <1>4 DEF CardInv, Apart
<1>6. Strays' \subseteq Strays
    BY <1>1, <1>2, <1>3, <1>4 DEF Strays
<1>7. \A q \in Pids : Copying(q)' \subseteq Copying(q)
    BY <1>2 DEF Copying
<1> QED
    BY <1>1, <1>5, <1>6, <1>7, CardHolds

\* The cut makes a stray of the one handler that the session was for.
LEMMA CutAlone ==
    ASSUME IInv, IInv', CardInv, CutSession
    PROVE  CardInv'
<1>1. cut \in Nat /\ cut' = cut + 1 /\ IsFiniteSet(Strays) /\ Cardinality(Strays) <= cut
    BY DEF CardInv, CutSession
<1>2. UNCHANGED <<doc, copied, actor>>
    BY DEF CutSession
<1>3. IsFiniteSet(Strays') /\ Cardinality(Strays') <= cut'
  <2>1. PICK T : T = Strays
      OBVIOUS
  <2>2. PICK S : S = Strays'
      OBVIOUS
  <2>3. \A x, y \in S : x \notin T /\ y \notin T => x = y
      BY <1>2, <2>1, <2>2 DEF Strays, Busy, CardInv, Apart
  <2>4. IsFiniteSet(S) /\ Cardinality(S) <= 1 + cut
      BY <1>1, <2>1, <2>3, Few
  <2> QED
      BY <1>1, <2>2, <2>4
<1>4. Apart' /\ \A d \in copied' : Placed(d)'
    BY <1>2 DEF CardInv, Apart, Busy, Placed
<1>5. ASSUME NEW p \in Pids
      PROVE  /\ IsFiniteSet(Copies(p)') /\ IsFiniteSet(Copying(p)')
             /\ Cardinality(Copies(p)') + Cardinality(Copying(p)') <= 1 + cut'
  <2>1. Copies(p)' = Copies(p) /\ Copying(p)' = Copying(p)
      BY <1>2 DEF Copies, Copying
  <2>2. Cardinality(Copies(p)) \in Nat /\ Cardinality(Copying(p)) \in Nat
      BY FS_CardinalityType DEF CardInv
  <2> QED
      BY <1>1, <2>1, <2>2 DEF CardInv
<1> QED
    BY <1>1, <1>3, <1>4, <1>5 DEF CardInv

LEMMA CrashAlone ==
    ASSUME IInv, IInv', CardInv, NEW p \in budget.at, Crash(p)
    PROVE  CardInv'
<1>1. DocsKept /\ UNCHANGED cut /\ session' = IF session = p THEN None ELSE session
    BY Untouched DEF Crash
<1>2. ASSUME NEW c \in Clicks
      PROVE  \/ Busy(c) /\ actor[c].proc = p /\ actor'[c].pc = "done"
             \/ ~(Busy(c) /\ actor[c].proc = p) /\ actor'[c] = actor[c]
  <2>1. PICK x \in ActorState : x = actor[c]
      BY DEF IInv, Actors
  <2>2. [x EXCEPT !.pc = "done", !.outcome = "paused"].pc = "done"
      BY DEF ActorState
  <2>3. actor'[c] = IF Busy(c) /\ actor[c].proc = p
                    THEN [actor[c] EXCEPT !.pc = "done", !.outcome = "paused"] ELSE actor[c]
      BY DEF Crash, Actors
  <2> QED
      BY <2>1, <2>2, <2>3
<1>3. ASSUME NEW c \in Clicks, Busy(c)' PROVE Busy(c) /\ actor'[c] = actor[c] /\ actor[c].proc # p
  <2>1. actor'[c].pc # "done"
      BY <1>3 DEF Busy
  <2>2. actor'[c] = actor[c]
      BY <1>2, <2>1
  <2>3. Busy(c)
      BY <1>3, <2>2 DEF Busy
  <2> QED
      BY <1>2, <2>1, <2>2, <2>3
<1>4. Apart' /\ Strays' \subseteq Strays
    BY <1>1, <1>3 DEF CardInv, Apart, Strays
<1>5. \A q \in Pids : Copying(q)' \subseteq Copying(q)
  <2>1. \A c \in Clicks : actor'[c].pc = "copy" => actor'[c] = actor[c]
      BY <1>2
  <2> QED
      BY <2>1 DEF Copying
<1> QED
    BY <1>1, <1>4, <1>5, CardHolds

\* A copy is made by a handler that had found no card: it was counted with the copies already.
LEMMA CopyAlone ==
    ASSUME IInv, IInv', CardInv, NEW c \in Clicks, NEW outcome, CopyTemplate(c, outcome)
    PROVE  CardInv'
<1>1. PICK x \in ActorState : x = actor[c] /\ x.pc = "copy" /\ x.pid \in Pids
    BY ClickAt DEF CopyTemplate, ClickGood, ClickFits
<1>2. "failed" \in Outcomes /\ UNCHANGED cut
    BY Names DEF CopyTemplate
<1>3. Turn(c)
  <2>1. \A d : Led(x, [x EXCEPT !.pc = "rename", !.doc = d])
      BY DEF Led, ActorState
  <2> QED
      BY <1>1, <1>2, <2>1, TurnOf DEF CopyTemplate
<1>4. CASE outcome = "failed"
    BY <1>2, <1>3, <1>4, Untouched, TurnHolds DEF CopyTemplate
<1>5. CASE outcome # "failed"
  <2>1. PICK d \in Documents : d = Fresh({e \in Documents : doc[e].place = "none"}) /\ doc[d].place = "none"
      BY DEF CopyTemplate, Fresh
  <2>2. PICK n : n = [NoDoc EXCEPT !.pid = x.pid, !.place = "folder"]
      OBVIOUS
  <2>3. n.pid = x.pid /\ n.place = "folder"
      BY <2>2 DEF NoDoc
  <2>4. doc' = [doc EXCEPT ![d] = n] /\ copied' = copied \cup {d}
      BY <1>1, <1>5, <2>1, <2>2 DEF CopyTemplate
  <2>5. doc'[d] = n /\ \A e \in Documents : e # d => doc'[e] = doc[e]
      BY <2>4 DEF IInv, Tables
  <2>6. copied \subseteq Documents /\ d \notin copied
      BY <2>1 DEF CardInv, Placed, IInv, Tables
  <2>7. \A e \in copied : doc'[e] = doc[e]
      BY <2>5, <2>6
  <2>8. actor'[c].pc \notin {"idle", "waiting", "copy"} /\ \A e \in Clicks \ {c} : actor'[e] = actor[e]
    <3>1. actor \in [Actors -> ActorState] /\ c \in Actors /\ Clicks \subseteq Actors
        BY DEF IInv, Actors
    <3>2. CASE outcome = "ok"
      <4>1. [[x EXCEPT !.pc = "rename", !.doc = d] EXCEPT !.moved = FALSE].pc = "rename"
          BY DEF ActorState
      <4>2. actor' = [actor EXCEPT ![c] = [[x EXCEPT !.pc = "rename", !.doc = d] EXCEPT !.moved = FALSE]]
          BY <1>1, <2>1, <3>2 DEF CopyTemplate, Set
      <4> QED
          BY <3>1, <4>1, <4>2
    <3>3. CASE outcome # "ok"
      <4>1. [[x EXCEPT !.pc = "done", !.outcome = "failed"] EXCEPT !.moved = FALSE].pc = "done"
          BY DEF ActorState
      <4>2. actor' = [actor EXCEPT ![c] = [[x EXCEPT !.pc = "done", !.outcome = "failed"] EXCEPT !.moved = FALSE]]
          BY <1>1, <3>3 DEF CopyTemplate, End, Set
      <4> QED
          BY <3>1, <4>1, <4>2
    <3> QED
        BY <3>2, <3>3
  <2>9. Apart' /\ Strays' \subseteq Strays
      BY <1>3, TurnLeaves
  <2>10. cut \in Nat /\ IsFiniteSet(Strays') /\ Cardinality(Strays') <= cut
    <3>1. PICK T : T = Strays
        OBVIOUS
    <3>2. PICK S : S = Strays'
        OBVIOUS
    <3>3. IsFiniteSet(T) /\ Cardinality(T) <= cut /\ cut \in Nat /\ S \subseteq T
        BY <2>9, <3>1, <3>2 DEF CardInv
    <3>4. /\ IsFiniteSet(S) /\ Cardinality(S) \in Nat /\ Cardinality(T) \in Nat
          /\ Cardinality(S) <= Cardinality(T)
        BY <3>3, Fewer
    <3> QED
        BY <3>2, <3>3, <3>4
  <2>11. \A e \in copied' : Placed(e)'
      BY <2>3, <2>4, <2>5, <2>7 DEF CardInv, Placed
  <2>12. ASSUME NEW p \in Pids
         PROVE  /\ IsFiniteSet(Copies(p)') /\ IsFiniteSet(Copying(p)')
                /\ Cardinality(Copies(p)') + Cardinality(Copying(p)') <= 1 + cut
    <3>1. PICK C : C = Copies(p)
        OBVIOUS
    <3>2. PICK G : G = Copying(p)
        OBVIOUS
    <3>3. IsFiniteSet(C) /\ IsFiniteSet(G) /\ Cardinality(C) + Cardinality(G) <= 1 + cut
        BY <3>1, <3>2 DEF CardInv
    <3>4. CASE p = x.pid
      <4>1. Copies(p)' = C \cup {d} /\ d \notin C
          BY <2>3, <2>4, <2>5, <2>6, <2>7, <3>1, <3>4 DEF Copies
      <4>2. Copying(p)' = G \ {c} /\ c \in G
          BY <1>1, <2>8, <3>2, <3>4 DEF Copying
      <4>3. IsFiniteSet(C \cup {d}) /\ Cardinality(C \cup {d}) = Cardinality(C) + 1
          BY <3>3, <4>1, FS_AddElement
      <4>4. IsFiniteSet(G \ {c}) /\ Cardinality(G \ {c}) = Cardinality(G) - 1
          BY <3>3, <4>2, FS_RemoveElement
      <4>5. Cardinality(C) \in Nat /\ Cardinality(G) \in Nat
          BY <3>3, FS_CardinalityType
      <4> QED
          BY <2>10, <3>3, <4>1, <4>2, <4>3, <4>4, <4>5
    <3>5. CASE p # x.pid
      <4>1. Copies(p)' = C
          BY <2>3, <2>4, <2>5, <2>7, <3>1, <3>5 DEF Copies
      <4>2. Copying(p)' = G
          BY <1>1, <2>8, <3>2, <3>5 DEF Copying
      <4> QED
          BY <3>3, <4>1, <4>2
    <3> QED
        BY <3>4, <3>5
  <2> QED
      BY <1>2, <2>9, <2>10, <2>11, <2>12 DEF CardInv
<1> QED
    BY <1>4, <1>5

\* The steps of the others are none of a click.
Aside == \A c \in Clicks : actor'[c] = actor[c]

LEMMA SetAside ==
    ASSUME IInv, NEW a \in Actors \ Clicks, NEW y, Set(a, y)
    PROVE  Aside
BY DEF IInv, Set, Aside, Actors

LEMMA OthersAside ==
    ASSUME IInv, NEW a \in Actors \ Clicks, Step(a)
    PROVE  Aside
<1>1. ASSUME NEW ok, ReadLine(a, ok) \/ LookAgain(a, ok) \/ RepairPreflight(a, ok) PROVE Aside
    BY <1>1, SetAside DEF ReadLine, LookAgain, RepairPreflight
<1>2. ASSUME NEW o, WriteLine(a, o) \/ RepairFacts(a, o) \/ MoveDocument(a, o) PROVE Aside
    BY <1>2, SetAside DEF WriteLine, RepairFacts, MoveDocument
<1>3. ASSUME NEW ok, Owned(a, ok) PROVE Aside
    BY <1>3, SetAside DEF Owned
<1>4. ASSUME NEW ok, ReadOwner(a, ok) \/ ConfirmOwner(a, ok) \/ TransferOwner(a, ok) PROVE Aside
    BY <1>3, <1>4, SetAside DEF ReadOwner, ConfirmOwner, TransferOwner, Go
<1>5. ASSUME NEW ok, LocateDocument(a, ok) \/ ConfirmMove(a, ok) PROVE Aside
    BY <1>5, SetAside DEF LocateDocument, ConfirmMove
<1>6. ASSUME NextDocument(a) PROVE Aside
    BY <1>6, SetAside DEF NextDocument, Go
<1>7. ASSUME NEW named, ListProducts(a, named) PROVE Aside
    BY <1>7, SetAside DEF ListProducts
<1>8. ASSUME RereadProduct(a) \/ StoreProduct(a) PROVE Aside
    BY <1>8, SetAside DEF RereadProduct, StoreProduct, Go
<1> QED
    BY <1>1, <1>2, <1>4, <1>5, <1>6, <1>7, <1>8
    DEF Step, SyncStep, OwnerStep, RepairStep, LookupStep, MigrationStep

LEMMA StepAlone ==
    ASSUME IInv, IInv', CardInv, NEW a \in Actors, Step(a), UNCHANGED cut
    PROVE  CardInv'
<1>1. CASE a \in Clicks
  <2>1. CASE CardStep(a) /\ \A o \in Answer : ~CopyTemplate(a, o)
      BY <1>1, <2>1, CardTurns, CardKeeps, TurnHolds
  <2>2. CASE \E o \in Answer : CopyTemplate(a, o)
      BY <1>1, <2>2, CopyAlone
  <2>3. CASE SyncStep(a)
      BY <1>1, <2>3, LineTurns, SyncKeeps, TurnHolds
  <2>4. CASE OwnerStep(a)
      BY <1>1, <2>4, OwnerTurns, OwnerKeeps, TurnHolds
  <2> QED
      BY <1>1, <2>1, <2>2, <2>3, <2>4, Kinds DEF Step
<1>2. CASE a \notin Clicks
  <2>1. Aside
      BY <1>2, OthersAside
  <2>2. UNCHANGED session
      BY <1>2, OthersKeep
      DEF Step, SyncStep, ReadLine, LookAgain, WriteLine, OwnerStep, ReadOwner, ConfirmOwner, TransferOwner
  <2>3. DocsKept
      BY <1>2, OthersKeep, SyncKeeps, OwnerKeeps DEF Step
  <2> QED
      BY <2>1, <2>2, <2>3, StillHolds DEF Aside
<1> QED
    BY <1>1, <1>2

LEMMA AloneHolds ==
    ASSUME IInv, IInv', CardInv, [Next]_vars
    PROVE  CardInv'
<1>0. actor \in [Actors -> ActorState] /\ Clicks \subseteq Actors
    BY DEF IInv, Actors
<1>1. ASSUME NEW r \in Rows, NEW p \in Pids, EditPid(r, p) PROVE CardInv'
  <2>1. DocsKept /\ UNCHANGED <<session, cut>>
      BY <1>0, <1>1, Untouched DEF EditPid
  <2>2. ASSUME NEW c \in Clicks
        PROVE  actor'[c].pc = actor[c].pc /\ actor'[c].proc = actor[c].proc /\ actor'[c].pid = actor[c].pid
    <3>1. PICK x \in ActorState : x = actor[c]
        BY <1>0
    <3>2. \A b : LET y == [x EXCEPT !.moved = b] IN y.pc = x.pc /\ y.proc = x.proc /\ y.pid = x.pid
        BY DEF ActorState
    <3>3. actor'[c] = [x EXCEPT !.moved = @ \/ x.row = r]
        BY <1>0, <1>1, <3>1, Zenon DEF EditPid
    <3> QED
        BY <3>1, <3>2, <3>3
  <2> QED
      BY <2>1, <2>2, StillHolds
<1>2. ASSUME NEW d \in Documents, NEW t \in Facts, EditFacts(d, t) PROVE CardInv'
  <2>1. DocsKept /\ UNCHANGED <<session, cut>>
      BY <1>0, <1>2, PeopleKeep DEF EditFacts
  <2>2. ASSUME NEW c \in Clicks
        PROVE  actor'[c].pc = actor[c].pc /\ actor'[c].proc = actor[c].proc /\ actor'[c].pid = actor[c].pid
    <3>1. PICK x \in ActorState : x = actor[c]
        BY <1>0
    <3>2. \A b : LET y == [x EXCEPT !.blind = b] IN y.pc = x.pc /\ y.proc = x.proc /\ y.pid = x.pid
        BY DEF ActorState
    <3>3. actor'[c] = [x EXCEPT !.blind = @ \/ x.doc = d]
        BY <1>0, <1>2, <3>1, Zenon DEF EditFacts
    <3> QED
        BY <3>1, <3>2, <3>3
  <2> QED
      BY <2>1, <2>2, StillHolds
<1>3. ASSUME NEW d \in Documents, TrashCard(d) \/ TakesEffect(d) PROVE CardInv'
  <2>1. DocsKept /\ UNCHANGED <<session, cut, actor>>
      BY <1>0, <1>3, PeopleKeep DEF TrashCard, TakesEffect
  <2> QED
      BY <2>1, StillHolds
<1>4. ASSUME NEW a \in Actors \ Clicks, NEW y, Set(a, y), UNCHANGED <<session, cut, doc, copied>>
      PROVE  CardInv'
  <2>1. Aside
      BY <1>4, SetAside
  <2> QED
      BY <1>0, <1>4, <2>1, Untouched, StillHolds DEF Aside
<1>5. ASSUME NEW l \in Lookups, NEW r \in Rows, StartLookup(l, r) PROVE CardInv'
    BY <1>4, <1>5, Kinds DEF StartLookup, Actors
<1>6. ASSUME NEW m \in Moves, NEW p, StartMigration(m, p) PROVE CardInv'
    BY <1>4, <1>6, Kinds DEF StartMigration, Actors
<1>7. ASSUME NEW b \in Repairs, NEW p, NEW refresh, NEW k, StartRepair(b, p, refresh, k) PROVE CardInv'
    BY <1>4, <1>7, Kinds DEF StartRepair, Actors
<1>8. CASE UNCHANGED vars
    BY <1>0, <1>8, Untouched, StillHolds DEF vars
<1>9. CASE CutSession
    BY <1>9, CutAlone
<1>10. CASE \E a \in Actors : Step(a)
    BY <1>10, StepAlone, StepCuts
<1>11. ASSUME NEW r \in Rows,
              \/ \E p \in Pids : EditPid(r, p)
              \/ \E c \in Clicks : Accept(c, r)
              \/ \E l \in Lookups : StartLookup(l, r)
       PROVE  CardInv'
    BY <1>1, <1>5, <1>11, AcceptAlone
<1>12. ASSUME NEW d \in Documents, TrashCard(d) \/ TakesEffect(d) \/ \E t \in Notes \cup {"blank"} : EditFacts(d, t)
       PROVE  CardInv'
  <2>1. Notes \cup {"blank"} \subseteq Facts
      BY DEF Facts
  <2> QED
      BY <1>2, <1>3, <1>12, <2>1
<1>13. ASSUME NEW p \in budget.at,
              \/ Crash(p)
              \/ \E c \in Clicks : StartCard(c, p)
              \/ \E m \in Moves : StartMigration(m, p)
              \/ \E b \in Repairs, refresh \in BOOLEAN, k \in DOMAIN product : StartRepair(b, p, refresh, k)
       PROVE  CardInv'
    BY <1>6, <1>7, <1>13, CrashAlone, StartAlone
<1> QED
    BY <1>8, <1>9, <1>10, <1>11, <1>12, <1>13 DEF Next

\* However often the rows of a PID are clicked, and whatever failed or crashed between a copy
\* and its answer, the copies of the template that serve it exceed one by no more than the
\* sessions of the inbox that were cut (document.ts:758-786, inbox.ts:130-142).
THEOREM CopiesCounted == Spec => []CopiesAccountedFor
<1>1. Init => CardInv
  <2> SUFFICES ASSUME Init PROVE CardInv
      OBVIOUS
  <2>1. copied = {} /\ cut = 0
      BY DEF Init
  <2>2. \A c \in Clicks : actor[c].pc = "idle"
      BY DEF Init, Actors, Idle
  <2>3. Strays = {} /\ \A p \in Pids : Copies(p) = {} /\ Copying(p) = {}
      BY <2>1, <2>2 DEF Strays, Copies, Copying, Busy
  <2>4. Apart
      BY <2>2 DEF Apart, Busy
  <2> QED
      BY <2>1, <2>3, <2>4, FS_EmptySet DEF CardInv
<1>2. IInv /\ IInv' /\ CardInv /\ [Next]_vars => CardInv'
    BY AloneHolds
<1>3. CardInv => CopiesAccountedFor
  <2> SUFFICES ASSUME CardInv, NEW p \in Pids PROVE Cardinality(Copies(p)) <= 1 + cut
      BY DEF CopiesAccountedFor
  <2>1. Cardinality(Copies(p)) \in Nat /\ Cardinality(Copying(p)) \in Nat
      BY FS_CardinalityType DEF CardInv
  <2> QED
      BY <2>1 DEF CardInv
<1> QED
    BY <1>1, <1>2, <1>3, InvHolds, PTL DEF Spec

================================================================================
