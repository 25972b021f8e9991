------------------------- MODULE ProductDocSync_proofs -------------------------
(***************************************************************************)
(* Theorems about ProductDocSync, for any rows, links, videos and          *)
(* scenarios: its types, that no task and no attachment is made twice, and *)
(* that what a person wrote is respected.                                  *)
(*                                                                         *)
(* IInv is inductive.  Fits says what a pass may rely on at each place of  *)
(* its program; TaskInv counts the tasks of a row and its link beside      *)
(* those that a pass is still to make.                                     *)
(***************************************************************************)
EXTENDS ProductDocSync, FiniteSetTheorems, WellFoundedInduction, TLAPS

\* Where a pass has listed the document, has a row, has its video, writes, and has
\* found the preview missing.
Filling == {"upload", "confirm", "patch"}
Writing == {"peek", "text", "check"} \cup Filling
Holding == {"save"} \cup Writing
AtARow  == {"create"} \cup Holding
Listed  == {"row"} \cup AtARow
PCs     == {"idle", "begin", "revision", "list"} \cup Listed

-----------------------------------------------------------------------------
(* The inductive invariant.                                                *)

\* The document still shows the link of the video, unless it was edited since the pass
\* looked.
Shows(d) == doc[d.row].link = video[d.v].link \/ "link" \in d.late

Fits(l, d) ==
    /\ d.pc # "idle" => d.mode \in IF l = "discover" THEN {"discover"} ELSE {"deliver", "manual"}
    /\ d.mode = "deliver" => d.only # 0
    /\ d.pc \in Listed => d.snap \in [Rows -> DocRow]
    /\ d.pc \in AtARow => d.row \in Rows /\ d.snap[d.row].link # None
    /\ d.pc \in Holding => d.v # 0 /\ video[d.v].status # "none"
    /\ d.pc \in Writing => l = "write"
    /\ d.pc = "text" => Shows(d) /\ (doc[d.row].text = None \/ "text" \in d.late)
    /\ d.pc = "patch" => Shows(d)
    /\ l = "write" /\ d.pc \in Listed =>
          \A r \in Rows, v \in Videos : r >= d.row => doc[r].copies[v] = d.snap[r].copies[v]
    /\ d.pc \in Filling => doc[d.row].copies[d.v] = 0

\* What the tables say of the videos.
Known(v) == video[v].status # "none"
Tables ==
    /\ budget \in Scenarios
    /\ \A v \in Videos : ~Known(v) => video[v].link = None
    /\ \A r \in Rows : binding[r].v # 0 => Known(binding[r].v)
    /\ \A r \in Rows : IsFiniteSet(created[r]) /\ \A v \in created[r] : Known(v)
    /\ \E n \in Videos \cup {0} : \A v \in Videos : Known(v) => v <= n
    /\ PreviewOnce

\* A pass binds a row under the row's lock.
At(q, l, r) == Binding(q, l) /\ q[l].row = r

\* The tasks made for a row and a link, and whether the link may be given another.
Tasks(r, k) == {v \in created[r] : video[v].link = k}
Spare(r, k) == Cardinality(Tasks(r, k)) < typed[r][k]

\* A row that shows a link has its task, or a pass is about to make or to bind it, and no
\* other one; otherwise the link may be given one.
Brings(d, r, k) == d.snap[r].link = k /\ (d.pc = "create" \/ d.v \in created[r])
Served(r, k) ==
    IF \E l \in Lanes : At(pass, l, r)
    THEN \A l \in Lanes : At(pass, l, r) => Brings(pass[l], r, k)
    ELSE binding[r].v # 0 /\ binding[r].link = k

TaskAt(r, k) ==
    /\ Cardinality(Tasks(r, k)) <= typed[r][k]
    /\ \A l \in Lanes : At(pass, l, r) /\ pass[l].pc = "create" /\ pass[l].snap[r].link = k => Spare(r, k)
    /\ doc[r].link = k /\ ~Served(r, k) => Spare(r, k)

Alone(r)  == \A k, l \in Lanes : At(pass, k, r) /\ At(pass, l, r) => k = l
TaskOk(r) == Alone(r) /\ (r \notin excused => \A k \in Links : TaskAt(r, k))
TaskInv  == \A r \in Rows : TaskOk(r)

\* The discovery starts a scan when none is under way.
Scanning == discovery.work.at # "running" => pass["discover"].pc = "idle"

IInv == TypeOK /\ Tables /\ Scanning /\ (\A l \in Lanes : Fits(l, pass[l])) /\ TaskInv

-----------------------------------------------------------------------------
(* Passes.                                                                 *)

\* Two passes that differ in what no step of another lane depends on.
Alike(x, y) ==
    /\ y.pc = x.pc /\ y.mode = x.mode /\ y.only = x.only /\ y.row = x.row /\ y.snap = x.snap
    /\ y.v = x.v /\ y.late = x.late

\* Lane l goes on as y, the other one stays where it is.
Moves(l, y) ==
    /\ pass' \in [Lanes -> PassState] /\ Alike(y, pass'[l])
    /\ \A k \in Lanes \ {l} : Alike(pass[k], pass'[k])

LEMMA FitsAlike ==
    ASSUME NEW l, NEW x, NEW y, Alike(x, y)
    PROVE  (Fits(l, x) => Fits(l, y)) /\ (Fits(l, x)' => Fits(l, y)')
  BY DEF Alike, Fits, Shows

LEMMA IdleIs == NoVideo \in VideoState /\ Idle \in PassState
<1>1. NoVideo \in VideoState
  BY DEF NoVideo, VideoState
<1> QED
  BY <1>1 DEF Idle, PassState

LEMMA NextRowIs ==
    ASSUME NEW d \in PassState
    PROVE  LET y == NextRow(d) IN
           /\ y \in PassState /\ y.pc = "row" /\ y.row = d.row + 1 /\ y.snap = d.snap
           /\ y.mode = d.mode /\ y.only = d.only /\ y.late = {}
<1>1. d.row + 1 \in Nat
  BY DEF PassState
<1> QED
  BY <1>1, IdleIs DEF NextRow, PassState

LEMMA RowFailedIs ==
    ASSUME NEW d \in PassState
    PROVE  LET y == RowFailed(d) IN
           /\ y \in PassState /\ y.pc = "row" /\ y.row = d.row + 1 /\ y.snap = d.snap
           /\ y.mode = d.mode /\ y.only = d.only /\ y.late = {}
<1> DEFINE f == [d EXCEPT !.failed = TRUE]
<1>1. f \in PassState /\ f.row = d.row /\ f.snap = d.snap /\ f.mode = d.mode /\ f.only = d.only
  BY DEF PassState
<1> HIDE DEF f
<1>2. PICK g : g = f
  OBVIOUS
<1> QED
  BY <1>1, <1>2, NextRowIs DEF RowFailed, f

LEMMA OutdatedIs ==
    ASSUME NEW q \in [Lanes -> PassState]
    PROVE  /\ Outdated(q) \in [Lanes -> PassState]
           /\ \A l \in Lanes : Alike(q[l], Outdated(q)[l])
<1>1. ASSUME NEW l \in Lanes
      PROVE  LET y == [q[l] EXCEPT !.rev = IF @ = "current" THEN "old" ELSE @] IN
             y \in PassState /\ Alike(q[l], y)
  <2>1. q[l] \in PassState
    OBVIOUS
  <2>2. (IF q[l].rev = "current" THEN "old" ELSE q[l].rev) \in {"unknown", "current", "old"}
    BY <2>1 DEF PassState
  <2>3. [q[l] EXCEPT !.rev = IF @ = "current" THEN "old" ELSE @] \in PassState
    BY <2>1, <2>2 DEF PassState
  <2> QED
    BY <2>1, <2>3 DEF PassState, Alike
<1> QED
  BY <1>1 DEF Outdated

LEMMA SetMoves ==
    ASSUME TypeOK, NEW l \in Lanes, NEW y \in PassState,
           pass' = Set(l, y) \/ pass' = Outdated(Set(l, y))
    PROVE  Moves(l, y)
<1>1. /\ Set(l, y) \in [Lanes -> PassState] /\ Set(l, y)[l] = y
      /\ \A k \in Lanes \ {l} : Set(l, y)[k] = pass[k]
  BY DEF TypeOK, Set
<1>2. CASE pass' = Set(l, y)
  BY <1>1, <1>2 DEF Moves, Alike
<1>3. CASE pass' = Outdated(Set(l, y))
  BY <1>1, <1>3, OutdatedIs DEF Moves
<1> QED
  BY <1>2, <1>3

-----------------------------------------------------------------------------
(* What a step leaves to the passes and to the rows it does not touch.     *)

VideosKeep ==
    \A v \in Videos : Known(v) => video'[v].status # "none" /\ video'[v].link = video[v].link

LEMMA LaneFits ==
    ASSUME IInv, NEW l \in Lanes, NEW y \in PassState, Moves(l, y), Fits(l, y)', VideosKeep,
           l = "discover" => doc' = doc
    PROVE  \A k \in Lanes : Fits(k, pass[k])'
<1> SUFFICES ASSUME NEW k \in Lanes
             PROVE  Fits(k, pass[k])'
  OBVIOUS
<1>1. PICK z : z = pass'[k]
  OBVIOUS
<1>2. CASE k = l
  <2>1. Alike(y, z)
    BY <1>1, <1>2 DEF Moves
  <2>2. Fits(k, z)'
    BY <2>1, <1>2, FitsAlike
  <2> QED
    BY <2>2, <1>1 DEF Fits, Shows
<1>3. CASE k # l
  <2>1. PICK x : x = pass[k]
    OBVIOUS
  <2>2. x \in PassState /\ Alike(x, z) /\ Fits(k, x)
    BY <1>1, <1>3, <2>1 DEF Moves, IInv, TypeOK
  <2>3. Fits(k, x)'
    <3>1. k = "discover" \/ (k = "write" /\ doc' = doc)
      BY <1>3 DEF Lanes
    <3>2. x.v \in Videos \cup {0}
      BY <2>2 DEF PassState
    <3>3. x.pc \in Holding => x.v # 0 /\ video'[x.v].status # "none" /\ video'[x.v].link = video[x.v].link
      BY <2>2, <3>2 DEF Fits, VideosKeep, Known
    <3>4. CASE k = "discover"
      BY <2>2, <3>3, <3>4 DEF Fits, Shows, Filling, Writing, Holding
    <3>5. CASE doc' = doc
      BY <2>2, <3>3, <3>5 DEF Fits, Shows, Filling, Writing, Holding
    <3> QED
      BY <3>1, <3>4, <3>5
  <2>4. Fits(k, z)'
    BY <2>2, <2>3, FitsAlike
  <2> QED
    BY <2>4, <1>1 DEF Fits, Shows
<1> QED
  BY <1>2, <1>3

RowKept(r) ==
    /\ doc'[r].link = doc[r].link /\ binding'[r] = binding[r] /\ typed'[r] = typed[r]
    /\ created'[r] = created[r] /\ (r \in excused => r \in excused')

LanesKept(r) ==
    \A l \in Lanes :
        /\ At(pass', l, r) <=> At(pass, l, r)
        /\ At(pass, l, r) => pass'[l].pc = pass[l].pc /\ pass'[l].snap = pass[l].snap /\ pass'[l].v = pass[l].v

LEMMA RowStays ==
    ASSUME IInv, VideosKeep, NEW r \in Rows, RowKept(r), LanesKept(r)
    PROVE  TaskOk(r)'
<1>1. TaskOk(r) /\ \A v \in created[r] : v \in Videos /\ Known(v)
  BY DEF IInv, TaskInv, Tables, TypeOK
<1>2. \A k : Tasks(r, k)' = Tasks(r, k)
  BY <1>1 DEF Tasks, VideosKeep, RowKept
<1>3. \A l \in Lanes : At(pass, l, r)' <=> At(pass, l, r)
  BY DEF LanesKept, At, Binding
<1>4. Alone(r)'
  BY <1>1, <1>3 DEF Alone, TaskOk
<1>5. ASSUME r \notin excused', NEW k \in Links
      PROVE  TaskAt(r, k)'
  <2>1. TaskAt(r, k)
    BY <1>1, <1>5 DEF TaskOk, RowKept
  <2>2. Spare(r, k)' <=> Spare(r, k)
    BY <1>2 DEF Spare, RowKept
  <2>3. \A l \in Lanes : At(pass, l, r) => (Brings(pass[l], r, k)' <=> Brings(pass[l], r, k))
    BY DEF LanesKept, RowKept, Brings
  <2>4. Served(r, k)' <=> Served(r, k)
    BY <1>3, <2>3 DEF Served, RowKept
  <2> QED
    BY <1>2, <1>3, <2>1, <2>2, <2>4 DEF TaskAt, LanesKept, RowKept
<1> QED
  BY <1>4, <1>5 DEF TaskOk

\* The types of what a step may change freely.
Loose ==
    /\ doc \in [Rows -> DocRow] /\ scanState \in {"none", "invalid", "old", "current"}
    /\ discovery \in [work : WorkState, checked : BOOLEAN, backoff : BOOLEAN]
    /\ delivery \in [Videos -> [pc : {"off", "connect", "wait", "run"}, dirty : BOOLEAN]]
    /\ announced \subseteq Videos /\ lost \subseteq Videos

\* A step that neither binds a row nor makes a task.
Apart ==
    /\ UNCHANGED <<binding, video, typed, created>>
    /\ excused \subseteq excused' /\ excused' \subseteq Rows
    /\ budget' \in Scenarios /\ Loose'
    /\ \A r \in Rows : doc'[r].link = doc[r].link

LEMMA ApartKeeps ==
    ASSUME IInv, Apart, PreviewOnce', Scanning', pass' \in [Lanes -> PassState],
           \A l \in Lanes : Fits(l, pass[l])', \A r \in Rows : LanesKept(r)
    PROVE  IInv'
<1>1. TypeOK'
  <2>1. \A l \in Lanes : pass'[l].pc \in Holding => pass'[l].v # 0
    BY DEF Fits
  <2> QED
    BY <2>1 DEF IInv, TypeOK, Apart, Loose, Holding, Writing, Filling
<1>2. Tables'
  BY DEF IInv, Tables, Apart, Known
<1>3. TaskInv'
  <2>1. VideosKeep /\ \A r \in Rows : RowKept(r)
    BY DEF VideosKeep, Known, Apart, RowKept
  <2> QED
    BY <2>1, RowStays DEF TaskInv
<1> QED
  BY <1>1, <1>2, <1>3 DEF IInv

LEMMA StepKeeps ==
    ASSUME IInv, NEW l \in Lanes, NEW y \in PassState, Moves(l, y), Fits(l, y)', Apart, PreviewOnce',
           Scanning', pass[l].pc \notin {"create", "save"}, y.pc \notin {"create", "save"},
           l = "discover" => doc' = doc
    PROVE  IInv'
<1>1. VideosKeep
  BY DEF VideosKeep, Known, Apart
<1>2. \A k \in Lanes : Fits(k, pass[k])'
  BY <1>1, LaneFits
<1>3. \A r \in Rows : LanesKept(r)
  BY DEF Moves, Alike, LanesKept, At, Binding
<1> QED
  BY <1>2, <1>3, ApartKeeps DEF Moves

\* A step of something else than a lane.
LEMMA AsideKeeps ==
    ASSUME IInv, Apart, Scanning', UNCHANGED <<doc, pass>>
    PROVE  IInv'
<1>1. \A l \in Lanes : Fits(l, pass[l])'
  BY DEF IInv, Fits, Shows, Apart
<1>2. \A r \in Rows : LanesKept(r)
  BY DEF LanesKept, At, Binding
<1>3. PreviewOnce' /\ pass' \in [Lanes -> PassState]
  BY DEF IInv, Tables, PreviewOnce, TypeOK
<1> QED
  BY <1>1, <1>2, <1>3, ApartKeeps

-----------------------------------------------------------------------------
(* Bounds, and what the document's changes do to the stored revision.      *)

LEMMA Spent ==
    ASSUME IInv, NEW what \in {"texts", "faults", "offline", "crashes", "retries", "calls"}, Spend(what)
    PROVE  budget' \in Scenarios
<1>1. budget \in Scenarios /\ budget[what] > 0
  BY DEF IInv, Tables, Spend
<1>2. \A x : x \in Nat /\ x > 0 => x - 1 \in Nat
  OBVIOUS
<1> DEFINE left == budget[what] - 1
<1>3. left \in Nat /\ budget' = [budget EXCEPT ![what] = left]
  BY <1>1, <1>2 DEF Scenarios, Spend
<1> HIDE DEF left
<1> QED
  BY <1>1, <1>3 DEF Scenarios

LEMMA Faults ==
    ASSUME IInv, NEW bad, Fault(bad)
    PROVE  budget' \in Scenarios
<1>1. CASE bad
  BY <1>1, Spent DEF Fault
<1>2. CASE ~bad
  BY <1>2 DEF Fault, IInv, Tables
<1> QED
  BY <1>1, <1>2

LEMMA ChangedTypes ==
    ASSUME IInv, Changed
    PROVE  /\ scanState' \in {"none", "invalid", "old", "current"}
           /\ discovery' \in [work : WorkState, checked : BOOLEAN, backoff : BOOLEAN]
<1>1. [discovery.work EXCEPT !.seen = FALSE, !.taken = FALSE] \in WorkState
  BY DEF IInv, TypeOK, WorkState
<1> QED
  BY <1>1 DEF IInv, TypeOK, Changed

\* A step under a work that goes on.
LEMMA ScanGoesOn ==
    ASSUME IInv, NEW l \in Lanes, NEW y, Moves(l, y), pass[l].pc # "idle",
           discovery'.work.at = discovery.work.at
    PROVE  Scanning'
  BY DEF IInv, Scanning, Moves, Alike, Lanes

LEMMA ChangedScan ==
    ASSUME IInv, Changed
    PROVE  discovery'.work.at = discovery.work.at
<1>1. discovery.work \in WorkState
  BY DEF IInv, TypeOK
<1>2. [discovery.work EXCEPT !.seen = FALSE, !.taken = FALSE].at = discovery.work.at
  BY <1>1 DEF WorkState
<1> QED
  BY <1>2 DEF Changed

-----------------------------------------------------------------------------
(* Deliveries and the work of the discovery.                               *)

Deliveries  == [Videos -> [pc : {"off", "connect", "wait", "run"}, dirty : BOOLEAN]]
Discoveries == [work : WorkState, checked : BOOLEAN, backoff : BOOLEAN]

LEMMA DeliveryTypes ==
    ASSUME NEW dl \in Deliveries, NEW v \in Videos
    PROVE  Requested(dl, v) \in Deliveries /\ Delivered(dl, v) \in Deliveries /\ GivenUp(dl, v) \in Deliveries
<1>1. ASSUME NEW pc \in {"off", "connect", "wait", "run"}, NEW b \in BOOLEAN
      PROVE  [dl EXCEPT ![v] = [pc |-> pc, dirty |-> b]] \in Deliveries
  BY <1>1 DEF Deliveries
<1>2. dl[v] \in [pc : {"off", "connect", "wait", "run"}, dirty : BOOLEAN]
  BY DEF Deliveries
<1>3. Requested(dl, v) \in Deliveries
  BY <1>2 DEF Requested, Deliveries
<1>4. (IF dl[v].dirty THEN "connect" ELSE "off") \in {"off", "connect", "wait", "run"}
  OBVIOUS
<1>5. Delivered(dl, v) \in Deliveries
  BY <1>1, <1>4 DEF Delivered
<1>6. GivenUp(dl, v) \in Deliveries
  BY <1>1 DEF GivenUp
<1> QED
  BY <1>3, <1>5, <1>6

LEMMA WorkTypes ==
    ASSUME NEW w \in WorkState
    PROVE  /\ NoWork \in WorkState /\ NoWork.at = "none"
           /\ Round(w) \in WorkState /\ Round(w).at = "running"
           /\ Offered(w) \in WorkState /\ (Offered(w).at = "running" <=> w.at = "running")
<1>1. NoWork \in WorkState /\ NoWork.at = "none"
  BY DEF NoWork, WorkState
<1>2. Round(w) \in WorkState /\ Round(w).at = "running"
  BY DEF Round, WorkState
<1>3. /\ [NoWork EXCEPT !.at = "queued", !.seen = TRUE] \in WorkState
      /\ [NoWork EXCEPT !.at = "queued", !.seen = TRUE].at = "queued"
  BY DEF NoWork, WorkState
<1>4. ASSUME NEW b \in BOOLEAN
      PROVE  /\ [w EXCEPT !.seen = TRUE, !.again = b] \in WorkState
             /\ [w EXCEPT !.seen = TRUE, !.again = b].at = w.at
  BY DEF WorkState
<1>5. (w.at = "running") \in BOOLEAN
  OBVIOUS
<1> QED
  BY <1>1, <1>2, <1>3, <1>4, <1>5 DEF Offered

LEMMA ScanTypes ==
    ASSUME NEW ds \in Discoveries
    PROVE  /\ Scanned(ds) \in Discoveries /\ ScanFailed(ds) \in Discoveries
           /\ ds.work.again => Scanned(ds).work.at = "running" /\ ScanFailed(ds).work.at = "running"
<1>1. ds.work \in WorkState /\ ds.work.taken \in BOOLEAN /\ ds.work.seen \in BOOLEAN
  BY DEF Discoveries, WorkState
<1>2. \A w \in WorkState : [ds EXCEPT !.work = w] \in Discoveries /\ [ds EXCEPT !.work = w].work = w
  BY DEF Discoveries
<1>3. \A w \in WorkState, c, b \in BOOLEAN :
          LET e == [work |-> w, checked |-> c, backoff |-> b] IN e \in Discoveries /\ e.work = w
  BY DEF Discoveries
<1>4. /\ Round(ds.work) \in WorkState /\ Round(ds.work).at = "running" /\ NoWork \in WorkState
  BY <1>1, WorkTypes
<1> HIDE DEF Discoveries
<1> QED
  BY <1>1, <1>2, <1>3, <1>4 DEF Scanned, ScanFailed

\* A pass returns, or fails, and its caller goes on.
Ends(l) ==
    /\ pass' = Over(pass, l)
    /\ CASE pass[l].mode = "discover" -> discovery' \in {Scanned(discovery), ScanFailed(discovery)}
                                         /\ UNCHANGED delivery
         [] pass[l].mode = "deliver"  -> delivery' \in {Delivered(delivery, pass[l].only),
                                                        GivenUp(delivery, pass[l].only)}
                                         /\ UNCHANGED discovery
         [] OTHER -> UNCHANGED memVars

LEMMA EndsBoth ==
    ASSUME NEW l \in Lanes, Return(l) \/ Throw(l)
    PROVE  Ends(l)
  BY DEF Return, Throw, Ends

\* Where a lane is after a pass: nowhere, or at the begin of the next scan.
LEMMA EndsIs ==
    ASSUME IInv, NEW l \in Lanes, Ends(l), pass[l].pc # "idle"
    PROVE  /\ \E y \in {Idle, NewScan} : /\ y \in PassState /\ Moves(l, y) /\ Fits(l, y)'
                                         /\ y.pc \in {"idle", "begin"}
           /\ Scanning' /\ discovery' \in Discoveries /\ delivery' \in Deliveries
<1>1. pass[l] \in PassState /\ discovery \in Discoveries /\ delivery \in Deliveries
  BY DEF IInv, TypeOK, Discoveries, Deliveries
<1>2. /\ pass[l].mode = "discover" <=> l = "discover"
      /\ pass[l].mode = "deliver" => pass[l].only \in Videos
  BY <1>1 DEF IInv, Fits, Lanes, PassState
<1>3. NewScan \in PassState /\ NewScan.pc = "begin" /\ NewScan.mode = "discover"
  BY IdleIs DEF NewScan, PassState
<1>4. Idle \in PassState /\ Idle.pc = "idle" /\ Idle.mode = "none"
  BY IdleIs DEF Idle
<1>5. discovery' \in Discoveries /\ delivery' \in Deliveries
  BY <1>1, <1>2, DeliveryTypes, ScanTypes DEF Ends, memVars
<1>6. Over(pass, l) = Set(l, IF l = "discover" /\ discovery.work.again THEN NewScan ELSE Idle)
  BY DEF Over, Set
<1>7. CASE l = "discover" /\ discovery.work.again
  <2>1. Moves(l, NewScan)
    BY <1>3, <1>6, <1>7, SetMoves DEF IInv, Ends
  <2>2. Fits(l, NewScan)'
    BY <1>3, <1>7 DEF Fits, Listed, AtARow, Holding, Writing, Filling
  <2>3. discovery'.work.at = "running"
    BY <1>1, <1>2, <1>7, ScanTypes DEF Ends
  <2> QED
    BY <1>3, <1>5, <2>1, <2>2, <2>3 DEF Scanning
<1>8. CASE ~(l = "discover" /\ discovery.work.again)
  <2>1. Moves(l, Idle)
    BY <1>4, <1>6, <1>8, SetMoves DEF IInv, Ends
  <2>2. Fits(l, Idle)'
    BY <1>4 DEF Fits, Listed, AtARow, Holding, Writing, Filling
  <2>3. Scanning'
    <3>1. CASE l = "discover"
      BY <1>4, <2>1, <3>1 DEF Moves, Alike, Scanning
    <3>2. CASE l = "write"
      <4>1. discovery' = discovery
        BY <1>2, <3>2 DEF Ends, memVars
      <4>2. pass'["discover"].pc = pass["discover"].pc
        BY <2>1, <3>2 DEF Moves, Alike, Lanes
      <4> QED
        BY <4>1, <4>2 DEF IInv, Scanning
    <3> QED
      BY <3>1, <3>2 DEF Lanes
  <2> QED
    BY <1>4, <1>5, <2>1, <2>2, <2>3
<1> QED
  BY <1>7, <1>8

-----------------------------------------------------------------------------
(* The steps of callers, of deliveries and of the discovery.               *)

LEMMA LooseTypes ==
    ASSUME IInv
    PROVE  Loose /\ discovery \in Discoveries /\ delivery \in Deliveries /\ budget \in Scenarios
           /\ pass \in [Lanes -> PassState]
  BY DEF IInv, TypeOK, Loose, Tables, Discoveries, Deliveries

LEMMA AnnounceKeeps ==
    ASSUME IInv, NEW v \in Videos, Announce(v)
    PROVE  IInv'
<1>1. delivery' \in Deliveries
  BY LooseTypes, DeliveryTypes DEF Announce
<1>2. Apart
  BY <1>1, LooseTypes DEF Announce, dbVars, history, Apart, Loose, IInv, TypeOK, Deliveries
<1>3. Scanning'
  BY DEF Announce, IInv, Scanning
<1> QED
  BY <1>2, <1>3, AsideKeeps DEF Announce

LEMMA ConnectKeeps ==
    ASSUME IInv, NEW v \in Videos, NEW ok \in BOOLEAN, Connect(v, ok)
    PROVE  IInv'
<1>1. budget' \in Scenarios /\ lost' \subseteq Videos
  BY LooseTypes, Spent DEF Connect, IInv, TypeOK
<1>2. delivery' \in Deliveries
  <2>1. [delivery EXCEPT ![v].pc = "wait"] \in Deliveries
    BY LooseTypes DEF Deliveries
  <2> QED
    BY <2>1, LooseTypes, DeliveryTypes DEF Connect
<1>3. Apart
  BY <1>1, <1>2, LooseTypes DEF Connect, dbVars, Apart, Loose, IInv, TypeOK, Deliveries
<1>4. Scanning'
  BY DEF Connect, IInv, Scanning
<1> QED
  BY <1>3, <1>4, AsideKeeps DEF Connect

LEMMA PollingKeeps ==
    ASSUME IInv, Poll \/ BackoffEnds \/ Audit
    PROVE  IInv'
<1>1. discovery \in Discoveries /\ discovery.work \in WorkState
  BY LooseTypes DEF Discoveries
<1>2. discovery' \in Discoveries /\ (discovery'.work.at = "running" <=> discovery.work.at = "running")
  <2>1. CASE Poll
    <3>1. PICK w : w = Offered(discovery.work)
      OBVIOUS
    <3>2. w \in WorkState /\ (w.at = "running" <=> discovery.work.at = "running")
      BY <1>1, <3>1, WorkTypes
    <3>3. discovery' = [discovery EXCEPT !.work = w]
      BY <2>1, <3>1 DEF Poll
    <3> QED
      BY <1>1, <3>2, <3>3 DEF Discoveries
  <2>2. CASE BackoffEnds
    BY <1>1, <2>2 DEF BackoffEnds, Discoveries
  <2>3. CASE Audit
    BY <1>1, <2>3 DEF Audit, Discoveries
  <2> QED
    BY <2>1, <2>2, <2>3
<1>3. UNCHANGED <<doc, dbVars, delivery, pass, announced, history, budget>>
  BY DEF Poll, BackoffEnds, Audit
<1>4. Apart
  BY <1>2, <1>3, LooseTypes DEF dbVars, history, Apart, Loose, IInv, TypeOK, Discoveries
<1>5. Scanning'
  BY <1>2, <1>3 DEF IInv, Scanning
<1> QED
  BY <1>3, <1>4, <1>5, AsideKeeps

\* A pass that begins.
LEMMA BeginFits ==
    ASSUME NEW l \in Lanes, NEW y, y.pc = "begin",
           y.mode \in IF l = "discover" THEN {"discover"} ELSE {"deliver", "manual"},
           y.mode = "deliver" => y.only # 0
    PROVE  Fits(l, y)'
  BY DEF Fits, Listed, AtARow, Holding, Writing, Filling

LEMMA StartKeeps ==
    ASSUME IInv, NEW l \in Lanes, NEW y \in PassState, pass' = [pass EXCEPT ![l] = y], y.pc = "begin",
           y.mode \in IF l = "discover" THEN {"discover"} ELSE {"deliver", "manual"},
           y.mode = "deliver" => y.only # 0,
           Apart, UNCHANGED doc, Scanning', pass[l].pc = "idle"
    PROVE  IInv'
<1>1. Moves(l, y)
  BY SetMoves DEF IInv, Set
<1>2. Fits(l, y)'
  BY BeginFits
<1>3. PreviewOnce'
  BY DEF IInv, Tables, PreviewOnce
<1> QED
  BY <1>1, <1>2, <1>3, StepKeeps

LEMMA StartDeliveryKeeps ==
    ASSUME IInv, NEW v \in Videos, StartDelivery(v)
    PROVE  IInv'
<1> DEFINE z == [Idle EXCEPT !.pc = "begin", !.mode = "deliver", !.only = v]
<1>1. z \in PassState /\ z.pc = "begin" /\ z.mode = "deliver" /\ z.only = v
  <2>1. Idle \in PassState /\ v \in Videos \cup {0}
    BY IdleIs
  <2> QED
    BY <2>1 DEF PassState
<1> HIDE DEF z
<1>2. [delivery EXCEPT ![v].pc = "run"] \in Deliveries
  BY LooseTypes DEF Deliveries
<1>3. Apart /\ UNCHANGED doc
  BY <1>2, LooseTypes DEF StartDelivery, dbVars, history, Apart, Loose, IInv, TypeOK, Deliveries
<1>4. pass' = [pass EXCEPT !["write"] = z] /\ pass["write"].pc = "idle"
  BY DEF StartDelivery, z
<1>5. Scanning'
  BY <1>4, LooseTypes DEF StartDelivery, IInv, Scanning, Lanes
<1>6. v # 0
  BY SyncConstants
<1> QED
  BY <1>1, <1>3, <1>4, <1>5, <1>6, StartKeeps DEF Lanes

LEMMA StartManualKeeps ==
    ASSUME IInv, StartManual
    PROVE  IInv'
<1> DEFINE z == [Idle EXCEPT !.pc = "begin", !.mode = "manual"]
<1>1. z \in PassState /\ z.pc = "begin" /\ z.mode = "manual"
  BY IdleIs DEF PassState
<1> HIDE DEF z
<1>2. budget' \in Scenarios
  BY Spent DEF StartManual
<1>3. Apart /\ UNCHANGED doc
  BY <1>2, LooseTypes DEF StartManual, dbVars, memVars, history, Apart, Loose, IInv, TypeOK, Deliveries
<1>4. pass' = [pass EXCEPT !["write"] = z] /\ pass["write"].pc = "idle"
  BY DEF StartManual, z
<1>5. Scanning'
  BY <1>4, LooseTypes DEF StartManual, memVars, IInv, Scanning, Lanes
<1> QED
  BY <1>1, <1>3, <1>4, <1>5, StartKeeps DEF Lanes

LEMMA PumpKeeps ==
    ASSUME IInv, Pump
    PROVE  IInv'
<1>1. NewScan \in PassState /\ NewScan.pc = "begin" /\ NewScan.mode = "discover"
  BY IdleIs DEF NewScan, PassState
<1>2. discovery' \in Discoveries /\ discovery'.work.at = "running"
  <2>1. PICK w : w = Round(discovery.work)
    OBVIOUS
  <2>2. w \in WorkState /\ w.at = "running"
    BY <2>1, LooseTypes, WorkTypes DEF Discoveries
  <2>3. discovery' = [discovery EXCEPT !.work = w]
    BY <2>1 DEF Pump
  <2> QED
    BY <2>2, <2>3, LooseTypes DEF Discoveries
<1>3. Apart /\ UNCHANGED doc
  BY <1>2, LooseTypes DEF Pump, dbVars, history, Apart, Loose, IInv, TypeOK, Discoveries
<1>4. pass' = [pass EXCEPT !["discover"] = NewScan] /\ pass["discover"].pc = "idle"
  BY DEF Pump, IInv, Scanning
<1>5. Scanning'
  BY <1>2 DEF Scanning
<1> QED
  BY <1>1, <1>3, <1>4, <1>5, StartKeeps DEF Lanes

-----------------------------------------------------------------------------
(* The steps of the queue and of people.                                   *)

\* A step of a task that was made.
LEMMA TaskKeeps ==
    ASSUME IInv, NEW v \in Videos, NEW x \in VideoState, video' = [video EXCEPT ![v] = x],
           Known(v), x.status # "none", x.link = video[v].link,
           UNCHANGED <<doc, scanState, binding, memVars, pass, history>>,
           announced' \subseteq Videos, budget' \in Scenarios
    PROVE  IInv'
<1>1. /\ video' \in [Videos -> VideoState]
      /\ \A w \in Videos : video'[w].link = video[w].link /\ (video'[w].status # "none" <=> Known(w))
  BY DEF IInv, TypeOK, Known
<1>2. TypeOK'
  BY <1>1 DEF IInv, TypeOK, memVars, history
<1>3. Tables'
  <2>1. /\ \A w \in Videos : Known(w)' <=> Known(w)
        /\ \A r \in Rows : binding[r].v # 0 => binding[r].v \in Videos
        /\ \A r \in Rows : created[r] \subseteq Videos
    BY <1>1 DEF Known, IInv, TypeOK
  <2>2. UNCHANGED <<doc, binding, created>> /\ budget' \in Scenarios
    BY DEF history
  <2>3. \A w \in Videos : ~Known(w)' => video'[w].link = None
    BY <1>1, <2>1 DEF IInv, Tables
  <2> HIDE DEF Known
  <2>4. PreviewOnce'
    BY <2>2 DEF IInv, Tables, PreviewOnce
  <2> QED
    BY <2>1, <2>2, <2>3, <2>4 DEF IInv, Tables
<1>4. \A l \in Lanes : Fits(l, pass[l])'
  <2> SUFFICES ASSUME NEW l \in Lanes
               PROVE  Fits(l, pass[l])'
    OBVIOUS
  <2>1. Fits(l, pass[l]) /\ pass[l].v \in Videos \cup {0} /\ pass' = pass /\ doc' = doc
    BY DEF IInv, TypeOK, PassState
  <2>2. pass[l].pc \in Holding =>
            video'[pass[l].v].status # "none" /\ video'[pass[l].v].link = video[pass[l].v].link
    BY <1>1, <2>1 DEF Fits, Known
  <2> QED
    BY <2>1, <2>2 DEF Fits, Shows, Filling, Writing, Holding
<1>5. TaskInv'
  <2>1. VideosKeep /\ \A r \in Rows : RowKept(r) /\ LanesKept(r)
    BY <1>1 DEF VideosKeep, Known, RowKept, LanesKept, At, Binding, history
  <2> QED
    BY <2>1, RowStays DEF TaskInv
<1> QED
  BY <1>2, <1>3, <1>4, <1>5 DEF IInv, Scanning, memVars

LEMMA ObtainKeeps ==
    ASSUME IInv, NEW v \in Videos, NEW x \in Results, Obtain(v, x)
    PROVE  IInv'
<1>1. video[v] \in VideoState /\ video[v].n \in Nat
  BY DEF IInv, TypeOK, VideoState
<1> DEFINE n == IF video[v].status = "queued" THEN video[v].n + 1 ELSE video[v].n
           y == [video[v] EXCEPT !.status = "running", !.has = @ \cup {x}, !.n = n]
<1>2. n \in Nat /\ video[v].has \cup {x} \in SUBSET Results
  BY <1>1 DEF VideoState
<1> HIDE DEF n
<1>3. y \in VideoState /\ y.status = "running" /\ y.link = video[v].link
  BY <1>1, <1>2 DEF VideoState
<1>4. video' = [video EXCEPT ![v] = y]
  BY DEF Obtain, n, IInv, TypeOK
<1>5. Known(v)
  BY DEF Obtain, Known
<1> HIDE DEF y
<1> QED
  BY <1>3, <1>4, <1>5, LooseTypes, TaskKeeps DEF Obtain, IInv, TypeOK

LEMMA RetryKeeps ==
    ASSUME IInv, NEW v \in Videos, Retry(v)
    PROVE  IInv'
<1> DEFINE y == [video[v] EXCEPT !.status = "queued"]
<1>1. y \in VideoState /\ y.status = "queued" /\ y.link = video[v].link
  BY DEF IInv, TypeOK, VideoState
<1>2. video' = [video EXCEPT ![v] = y] /\ Known(v) /\ budget' \in Scenarios
  BY Spent DEF Retry, Known, IInv, TypeOK
<1> HIDE DEF y
<1> QED
  BY <1>1, <1>2, TaskKeeps DEF Retry, IInv, TypeOK

\* What a person does to row r is late for the passes that are at it.
LEMMA LateIs ==
    ASSUME IInv, NEW r \in Rows, NEW what \in {"link", "text"}, pass' = Late(Outdated(pass), r, what)
    PROVE  /\ pass' \in [Lanes -> PassState]
           /\ \A l \in Lanes : /\ pass'[l].pc = pass[l].pc /\ pass'[l].mode = pass[l].mode
                               /\ pass'[l].only = pass[l].only /\ pass'[l].row = pass[l].row
                               /\ pass'[l].snap = pass[l].snap /\ pass'[l].v = pass[l].v
                               /\ pass[l].late \subseteq pass'[l].late
                               /\ pass[l].row = r => what \in pass'[l].late
<1>1. PICK q : q = Outdated(pass)
  OBVIOUS
<1>2. q \in [Lanes -> PassState] /\ \A l \in Lanes : Alike(pass[l], q[l])
  BY <1>1, LooseTypes, OutdatedIs
<1>3. ASSUME NEW l \in Lanes
      PROVE  LET y == IF q[l].row = r THEN [q[l] EXCEPT !.late = @ \cup {what}] ELSE q[l] IN
             /\ y \in PassState /\ y.pc = q[l].pc /\ y.mode = q[l].mode /\ y.only = q[l].only
             /\ y.row = q[l].row /\ y.snap = q[l].snap /\ y.v = q[l].v /\ q[l].late \subseteq y.late
             /\ q[l].row = r => what \in y.late
  <2>1. q[l] \in PassState /\ q[l].late \cup {what} \in SUBSET {"link", "text"}
    BY <1>2 DEF PassState
  <2>2. [q[l] EXCEPT !.late = @ \cup {what}] \in PassState
    BY <2>1 DEF PassState
  <2> QED
    BY <2>1, <2>2 DEF PassState
<1>4. pass' = [l \in Lanes |-> IF q[l].row = r THEN [q[l] EXCEPT !.late = @ \cup {what}] ELSE q[l]]
  BY <1>1 DEF Late
<1> QED
  BY <1>2, <1>3, <1>4 DEF Alike

\* After an edit the passes know what they may still rely on.
LEMMA EditFits ==
    ASSUME IInv, NEW r \in Rows, NEW what \in {"link", "text"}, pass' = Late(Outdated(pass), r, what),
           doc' \in [Rows -> DocRow], UNCHANGED video,
           \A s \in Rows : doc'[s].copies = doc[s].copies,
           \A s \in Rows : (s # r \/ what = "text") => doc'[s].link = doc[s].link,
           \A s \in Rows : (s # r \/ what = "link") => doc'[s].text = doc[s].text
    PROVE  \A l \in Lanes : Fits(l, pass[l])'
<1> SUFFICES ASSUME NEW l \in Lanes
             PROVE  Fits(l, pass[l])'
  OBVIOUS
<1>1. Fits(l, pass[l]) /\ pass[l] \in PassState
  BY DEF IInv, TypeOK
<1>2. pass[l].pc \in Writing => pass[l].row \in Rows
  BY <1>1 DEF Fits, AtARow, Holding
<1>3. pass[l].pc \in Writing /\ Shows(pass[l]) => Shows(pass[l])'
  BY <1>2, LateIs DEF Shows
<1>4. pass[l].pc \in Writing /\ (doc[pass[l].row].text = None \/ "text" \in pass[l].late)
      => doc'[pass'[l].row].text = None \/ "text" \in pass'[l].late
  BY <1>2, LateIs
<1> QED
  BY <1>1, <1>2, <1>3, <1>4, LateIs DEF Fits, Filling, Writing

LEMMA EditTextKeeps ==
    ASSUME IInv, NEW r \in Rows, EditText(r)
    PROVE  IInv'
<1>1. /\ doc' \in [Rows -> DocRow]
      /\ \A s \in Rows : /\ doc'[s].copies = doc[s].copies /\ doc'[s].link = doc[s].link
                         /\ s # r => doc'[s].text = doc[s].text
  <2>1. doc[r] \in DocRow /\ doc' = [doc EXCEPT ![r].text = Person]
    BY DEF EditText, IInv, TypeOK
  <2>2. LET y == [doc[r] EXCEPT !.text = Person] IN
        y \in DocRow /\ y.copies = doc[r].copies /\ y.link = doc[r].link
    BY <2>1 DEF DocRow
  <2> QED
    BY <2>1, <2>2 DEF IInv, TypeOK
<1>2. pass' = Late(Outdated(pass), r, "text") /\ budget' \in Scenarios
  BY Spent DEF EditText
<1>3. \A l \in Lanes : Fits(l, pass[l])'
  BY <1>1, <1>2, EditFits DEF EditText
<1>4. Apart
  BY <1>1, <1>2, LooseTypes, ChangedTypes DEF EditText, Apart, Loose, history, IInv, TypeOK
<1>5. PreviewOnce' /\ Scanning' /\ pass' \in [Lanes -> PassState]
  BY <1>1, <1>2, LateIs, ChangedScan DEF EditText, IInv, Tables, PreviewOnce, Scanning, Lanes
<1>6. \A s \in Rows : LanesKept(s)
  BY <1>2, LateIs DEF LanesKept, At, Binding
<1> QED
  BY <1>3, <1>4, <1>5, <1>6, ApartKeeps

LEMMA CountType ==
    ASSUME IInv, NEW r \in Rows, NEW k
    PROVE  IsFiniteSet(Tasks(r, k)) /\ Cardinality(Tasks(r, k)) \in Nat
<1>1. IsFiniteSet(created[r]) /\ Tasks(r, k) \subseteq created[r]
  BY DEF IInv, Tables, Tasks
<1> QED
  BY <1>1, FS_Subset, FS_CardinalityType

LEMMA EditLinkKeeps ==
    ASSUME IInv, NEW r \in Rows, NEW l \in Links \cup {None}, EditLink(r, l)
    PROVE  IInv'
<1>1. /\ doc' \in [Rows -> DocRow] /\ doc'[r].link = l
      /\ \A s \in Rows : /\ doc'[s].copies = doc[s].copies /\ doc'[s].text = doc[s].text
                         /\ s # r => doc'[s].link = doc[s].link
  <2>1. doc[r] \in DocRow /\ doc' = [doc EXCEPT ![r].link = l]
    BY DEF EditLink, IInv, TypeOK
  <2>2. LET y == [doc[r] EXCEPT !.link = l] IN
        y \in DocRow /\ y.copies = doc[r].copies /\ y.text = doc[r].text /\ y.link = l
    BY <2>1 DEF DocRow
  <2> QED
    BY <2>1, <2>2 DEF IInv, TypeOK
<1>2. budget' \in Scenarios
  <2>1. budget \in Scenarios /\ budget.edits \in [1 .. NRows -> Nat] /\ budget.edits[r] > 0
    BY LooseTypes DEF Scenarios, EditLink
  <2>2. [budget.edits EXCEPT ![r] = @ - 1] \in [1 .. NRows -> Nat]
    <3>1. PICK e \in [1 .. NRows -> Nat] : e = budget.edits
      BY <2>1
    <3>2. e[r] \in Nat /\ e[r] > 0
      BY <2>1, <3>1 DEF Rows
    <3>3. e[r] - 1 \in Nat
      BY <3>2
    <3> QED
      BY <3>1, <3>3
  <2>3. budget' = [budget EXCEPT !.edits = [budget.edits EXCEPT ![r] = @ - 1]]
    BY <2>1 DEF EditLink, Scenarios
  <2> QED
    BY <2>1, <2>2, <2>3 DEF Scenarios
<1>3. /\ typed' \in [Rows -> [Links -> Nat]]
      /\ \A s \in Rows : s # r => typed'[s] = typed[s]
      /\ \A k \in Links : typed'[r][k] = IF k = l THEN typed[r][k] + 1 ELSE typed[r][k]
  BY SyncConstants DEF EditLink, IInv, TypeOK
<1>4. pass' = Late(Outdated(pass), r, "link")
  BY DEF EditLink
<1>5. \A k \in Lanes : Fits(k, pass[k])'
  BY <1>1, <1>4, EditFits DEF EditLink
<1>6. PreviewOnce' /\ Scanning' /\ pass' \in [Lanes -> PassState]
  BY <1>1, <1>4, LateIs, ChangedScan DEF EditLink, IInv, Tables, PreviewOnce, Scanning, Lanes
<1>7. \A s \in Rows : LanesKept(s)
  BY <1>4, LateIs DEF LanesKept, At, Binding
<1>8. TypeOK'
  <2>1. \A k \in Lanes : pass'[k].pc \in Holding => pass'[k].v # 0
    BY <1>5 DEF Fits
  <2>2. UNCHANGED <<binding, video, delivery, announced, created, excused, lost>> /\ Changed
    BY DEF EditLink
  <2> QED
    BY <1>1, <1>3, <1>6, <2>1, <2>2, ChangedTypes DEF IInv, TypeOK, Discoveries, Holding, Writing, Filling
<1>9. Tables'
  BY <1>2, <1>6 DEF EditLink, IInv, Tables, Known
<1>10. TaskInv'
  <2>1. VideosKeep /\ UNCHANGED <<binding, video, created, excused>>
    BY DEF EditLink, VideosKeep, Known
  <2>2. ASSUME NEW s \in Rows, s # r
        PROVE  TaskOk(s)'
    BY <1>1, <1>3, <1>7, <2>1, <2>2, RowStays DEF RowKept
  <2>3. TaskOk(r) /\ Alone(r)'
    BY <1>7 DEF IInv, TaskInv, TaskOk, Alone, LanesKept, At, Binding
  <2>4. ASSUME r \notin excused, NEW k \in Links
        PROVE  TaskAt(r, k)'
    <3>1. Tasks(r, k)' = Tasks(r, k) /\ Cardinality(Tasks(r, k)) \in Nat
      BY <2>1, CountType DEF Tasks
    <3>2. TaskAt(r, k) /\ typed[r][k] \in Nat
      BY <2>3, <2>4 DEF TaskOk, IInv, TypeOK
    <3>3. CASE k = l
      <4>1. Spare(r, k)'
        BY <1>3, <3>1, <3>2, <3>3 DEF TaskAt, Spare
      <4>2. (Cardinality(Tasks(r, k)) <= typed[r][k])'
        BY <1>3, <3>1, <3>2, <3>3 DEF TaskAt
      <4> QED
        BY <4>1, <4>2 DEF TaskAt
    <3>4. CASE k # l
      <4>1. Spare(r, k)' <=> Spare(r, k)
        BY <1>3, <3>1, <3>4 DEF Spare
      <4>2. (Cardinality(Tasks(r, k)) <= typed[r][k])'
        BY <1>3, <3>1, <3>2, <3>4 DEF TaskAt
      <4>3. doc'[r].link # k
        BY <1>1, <3>4
      <4> QED
        BY <1>7, <3>2, <4>1, <4>2, <4>3 DEF TaskAt, LanesKept, At, Binding
    <3> QED
      BY <3>3, <3>4
  <2> QED
    BY <2>1, <2>2, <2>3, <2>4 DEF TaskInv, TaskOk
<1> QED
  BY <1>5, <1>6, <1>8, <1>9, <1>10 DEF IInv

-----------------------------------------------------------------------------
(* The steps of a lane that neither bind a row nor make a task.            *)

LEMMA EarlyFits ==
    ASSUME IInv, NEW l \in Lanes, pass[l].pc # "idle", NEW y, y.pc \in {"revision", "list"},
           y.mode = pass[l].mode, y.only = pass[l].only
    PROVE  Fits(l, y)'
  BY DEF IInv, Fits, Listed, AtARow, Holding, Writing, Filling

\* A pass goes on to the next row; only the row it leaves may have got a preview.
LEMMA RowFits ==
    ASSUME IInv, NEW l \in Lanes, pass[l].pc \in Listed, NEW y, y.pc = "row", y.row = pass[l].row + 1,
           y.snap = pass[l].snap, y.mode = pass[l].mode, y.only = pass[l].only,
           \A r \in Rows : r # pass[l].row => doc'[r].copies = doc[r].copies
    PROVE  Fits(l, y)'
<1>1. Fits(l, pass[l]) /\ pass[l].row \in Nat /\ pass[l].pc # "idle"
  BY DEF IInv, TypeOK, PassState, Listed, AtARow, Holding, Writing, Filling
<1>2. \A r \in Rows : r >= pass[l].row + 1 => r >= pass[l].row /\ r # pass[l].row
  BY <1>1 DEF Rows
<1>3. l = "write" => \A r \in Rows, v \in Videos : r >= y.row => doc'[r].copies[v] = y.snap[r].copies[v]
  BY <1>1, <1>2 DEF Fits
<1> QED
  BY <1>1, <1>3 DEF Fits, AtARow, Holding, Writing, Filling

\* A pass stays at its row, and the previews stay.
LEMMA StayFits ==
    ASSUME IInv, NEW l \in Lanes, pass[l].pc \in Listed, pass[l].row \in Rows,
           pass[l].snap[pass[l].row].link # None,
           NEW y, y.pc \in AtARow, y.row = pass[l].row, y.snap = pass[l].snap, y.mode = pass[l].mode,
           y.only = pass[l].only, \A r \in Rows : doc'[r].copies = doc[r].copies,
           y.pc \in Holding => y.v # 0 /\ video'[y.v].status # "none",
           y.pc \in Writing => l = "write",
           y.pc = "text" => Shows(y)' /\ (doc'[y.row].text = None \/ "text" \in y.late),
           y.pc = "patch" => Shows(y)',
           y.pc \in Filling => doc'[y.row].copies[y.v] = 0
    PROVE  Fits(l, y)'
<1>1. Fits(l, pass[l]) /\ pass[l].pc # "idle"
  BY DEF IInv, Listed, AtARow, Holding, Writing, Filling
<1>2. y.snap \in [Rows -> DocRow]' /\ (l = "write" =>
          \A r \in Rows, v \in Videos : r >= y.row => doc'[r].copies[v] = y.snap[r].copies[v])
  BY <1>1 DEF Fits, DocRow, Rows
<1>3. Shows(y)' <=> doc'[y.row].link = video'[y.v].link \/ "link" \in y.late
  BY DEF Shows
<1> QED
  BY <1>1, <1>2, <1>3 DEF Fits, Shows

\* What a pass does that changes nothing outside but what it loses or requests.
Inner(l) ==
    /\ UNCHANGED <<doc, scanState, binding, video, typed, created, announced>>
    /\ excused \subseteq excused' /\ excused' \subseteq Rows
    /\ budget' \in Scenarios /\ lost' \subseteq Videos
    /\ discovery' \in Discoveries /\ delivery' \in Deliveries

LEMMA InnerKeeps ==
    ASSUME IInv, NEW l \in Lanes, NEW y \in PassState, Inner(l), Moves(l, y), Fits(l, y)', Scanning',
           pass[l].pc \notin {"create", "save"}, y.pc \notin {"create", "save"}
    PROVE  IInv'
<1>1. Apart
  BY LooseTypes DEF Inner, Apart, Loose, Discoveries, Deliveries
<1>2. PreviewOnce' /\ doc' = doc
  BY DEF Inner, IInv, Tables, PreviewOnce
<1> QED
  BY <1>1, <1>2, StepKeeps

LEMMA EndKeeps ==
    ASSUME IInv, NEW l \in Lanes, Ends(l), pass[l].pc \notin {"idle", "create", "save"},
           UNCHANGED <<doc, scanState, binding, video, typed, created, announced, excused>>,
           budget' \in Scenarios, lost' \subseteq Videos
    PROVE  IInv'
<1>1. PICK y \in {Idle, NewScan} : y \in PassState /\ Moves(l, y) /\ Fits(l, y)' /\ y.pc \in {"idle", "begin"}
  BY EndsIs
<1>2. Scanning' /\ Inner(l)
  BY EndsIs DEF Inner, IInv, TypeOK
<1> QED
  BY <1>1, <1>2, InnerKeeps

LEMMA ThrowLoses ==
    ASSUME IInv, NEW l \in Lanes, Throw(l), pass[l].pc # "idle"
    PROVE  lost' \subseteq Videos
<1>1. pass[l].mode = "deliver" => pass[l].only \in Videos
  BY DEF IInv, Fits, TypeOK, PassState
<1> QED
  BY <1>1 DEF Throw, IInv, TypeOK

\* A pass at another place of its program.
LEMMA PlaceIs ==
    ASSUME NEW d \in PassState, NEW pc \in PCs
    PROVE  LET y == [d EXCEPT !.pc = pc] IN
           /\ y \in PassState /\ y.pc = pc /\ y.mode = d.mode /\ y.only = d.only /\ y.row = d.row
           /\ y.snap = d.snap /\ y.v = d.v /\ y.old = d.old /\ y.has = d.has /\ y.late = d.late
  BY DEF PassState, PCs, Listed, AtARow, Holding, Writing, Filling

LEMMA BeginKeeps ==
    ASSUME IInv, NEW l \in Lanes, Begin(l)
    PROVE  IInv'
<1>1. pass[l] \in PassState /\ pass[l].pc = "begin"
  BY DEF IInv, TypeOK, Begin
<1>2. PICK at \in {"revision", "list"} : at = IF pass[l].mode = "deliver" THEN "list" ELSE "revision"
  OBVIOUS
<1>3. PICK z : z = [pass[l] EXCEPT !.pc = at]
  OBVIOUS
<1>4. z \in PassState /\ z.pc = at /\ z.mode = pass[l].mode /\ z.only = pass[l].only
  BY <1>1, <1>3, PlaceIs DEF PCs
<1>5. Fits(l, z)'
  BY <1>1, <1>4, EarlyFits
<1>6. Moves(l, z)
  <2>1. CASE pass[l].mode # "deliver"
    BY <1>2, <1>3, <1>4, <2>1, SetMoves DEF Begin, Go, IInv
  <2>2. CASE pass[l].mode = "deliver"
    <3>1. pass' = [k \in Lanes |-> IF k = l THEN z ELSE [pass[k] EXCEPT !.moved = TRUE]]
      BY <1>2, <1>3, <2>2 DEF Begin
    <3>2. ASSUME NEW k \in Lanes
          PROVE  LET x == [pass[k] EXCEPT !.moved = TRUE] IN x \in PassState /\ Alike(pass[k], x)
      <4>1. PICK x : x = pass[k]
        OBVIOUS
      <4>2. x \in PassState
        BY <4>1, LooseTypes
      <4>3. [x EXCEPT !.moved = TRUE] \in PassState /\ Alike(x, [x EXCEPT !.moved = TRUE])
        BY <4>2 DEF PassState, Alike
      <4> QED
        BY <4>1, <4>3
    <3> QED
      BY <1>4, <3>1, <3>2 DEF Moves, Alike
  <2> QED
    BY <2>1, <2>2
<1>7. Scanning'
  BY <1>1, <1>6, ScanGoesOn DEF Begin, memVars
<1>8. Apart /\ PreviewOnce' /\ doc' = doc
  BY LooseTypes DEF Begin, Apart, Loose, memVars, history, IInv, TypeOK, Tables, PreviewOnce
<1> QED
  BY <1>1, <1>4, <1>5, <1>6, <1>7, <1>8, StepKeeps

LEMMA ReadRevisionKeeps ==
    ASSUME IInv, NEW l \in Lanes, NEW o \in {"ok", "failed", "limited"}, ReadRevision(l, o)
    PROVE  IInv'
<1>1. /\ pass[l] \in PassState /\ pass[l].pc = "revision" /\ budget' \in Scenarios
      /\ UNCHANGED <<doc, dbVars, announced, typed, created, excused>>
  BY Faults DEF IInv, TypeOK, ReadRevision
<1>2. ASSUME Ends(l), lost' \subseteq Videos
      PROVE  IInv'
  BY <1>1, <1>2, EndKeeps DEF dbVars
<1>3. ASSUME NEW y \in PassState, y.pc = "list", y.mode = pass[l].mode, y.only = pass[l].only,
             pass' = Set(l, y), UNCHANGED <<memVars, lost>>
      PROVE  IInv'
  <2>1. Moves(l, y) /\ Fits(l, y)'
    BY <1>1, <1>3, SetMoves, EarlyFits DEF IInv
  <2>2. Scanning'
    BY <1>1, <1>3, <2>1, ScanGoesOn DEF memVars
  <2>3. Inner(l)
    BY <1>1, <1>3, LooseTypes DEF Inner, memVars, dbVars, IInv, TypeOK
  <2> QED
    BY <1>1, <1>3, <2>1, <2>2, <2>3, InnerKeeps
<1>4. CASE o = "limited"
  <2>1. Throw(l)
    BY <1>4 DEF ReadRevision
  <2> QED
    BY <1>1, <1>2, <2>1, EndsBoth, ThrowLoses
<1>5. CASE o = "failed"
  <2>1. [pass[l] EXCEPT !.pc = "list"] \in PassState
    BY <1>1 DEF PassState
  <2> QED
    BY <1>1, <1>3, <1>5, <2>1 DEF ReadRevision, Go, PassState
<1>6. CASE o = "ok" /\ scanState = "current"
  <2>1. Return(l) /\ lost' = lost
    BY <1>6 DEF ReadRevision
  <2> QED
    BY <1>1, <1>2, <2>1, EndsBoth DEF IInv, TypeOK
<1>7. CASE o = "ok" /\ scanState # "current"
  <2>1. [pass[l] EXCEPT !.pc = "list", !.rev = "current"] \in PassState
    BY <1>1 DEF PassState
  <2>2. pass' = Set(l, [pass[l] EXCEPT !.pc = "list", !.rev = "current"]) /\ UNCHANGED <<memVars, lost>>
    BY <1>7 DEF ReadRevision
  <2> QED
    BY <1>1, <1>3, <2>1, <2>2 DEF PassState
<1> QED
  BY <1>4, <1>5, <1>6, <1>7

LEMMA ListBlocksKeeps ==
    ASSUME IInv, NEW l \in Lanes, NEW ok \in BOOLEAN, ListBlocks(l, ok)
    PROVE  IInv'
<1>1. /\ pass[l] \in PassState /\ pass[l].pc = "list" /\ budget' \in Scenarios
      /\ UNCHANGED <<doc, dbVars, announced, typed, created, excused>>
  BY Faults DEF IInv, TypeOK, ListBlocks
<1>2. CASE ~ok
  <2>1. Throw(l)
    BY <1>2 DEF ListBlocks
  <2> QED
    BY <1>1, <2>1, EndsBoth, ThrowLoses, EndKeeps DEF dbVars
<1>3. CASE ok
  <2> DEFINE new == scanState = "none"
             z == [pass[l] EXCEPT !.pc = "row", !.row = 1, !.snap = Shown, !.migrate = new]
  <2>1. pass' = Set(l, z) /\ UNCHANGED <<memVars, lost>>
    BY <1>3 DEF ListBlocks
  <2>2. Shown \in [Rows -> DocRow] /\ new \in BOOLEAN
    BY DEF IInv, TypeOK, Shown
  <2> HIDE DEF new
  <2>3. /\ z \in PassState /\ z.pc = "row" /\ z.row = 1 /\ z.snap = doc /\ z.mode = pass[l].mode
        /\ z.only = pass[l].only
    BY <1>1, <2>2 DEF PassState, Shown
  <2> HIDE DEF z
  <2>4. PICK y \in PassState : y = z
    BY <2>3
  <2>5. Fits(l, y)'
    BY <1>1, <2>2, <2>3, <2>4 DEF IInv, Fits, Listed, AtARow, Holding, Writing, Filling, Shown
  <2>6. Moves(l, y) /\ Scanning'
    BY <1>1, <2>1, <2>4, SetMoves, ScanGoesOn DEF IInv, memVars
  <2>7. Inner(l)
    BY <1>1, <2>1, LooseTypes DEF Inner, memVars, dbVars, IInv, TypeOK
  <2> QED
    BY <1>1, <2>3, <2>4, <2>5, <2>6, <2>7, InnerKeeps
<1> QED
  BY <1>2, <1>3

-----------------------------------------------------------------------------
(* The steps of a pass that has its row's video.                           *)

LEMMA WritingIs ==
    ASSUME IInv, NEW l \in Lanes, pass[l].pc \in Writing
    PROVE  /\ l = "write" /\ pass[l] \in PassState /\ pass[l].pc \in Listed /\ pass[l].pc # "idle"
           /\ pass[l].pc \notin {"create", "save"} /\ pass[l].row \in Rows
           /\ pass[l].snap[pass[l].row].link # None /\ pass[l].v \in Videos
           /\ video[pass[l].v].status # "none" /\ Fits(l, pass[l])
           /\ doc[pass[l].row].copies[pass[l].v] = pass[l].snap[pass[l].row].copies[pass[l].v]
<1>1. Fits(l, pass[l]) /\ pass[l] \in PassState
  BY DEF IInv, TypeOK
<1>2. pass[l].row \in Rows /\ pass[l].v \in Videos
  BY <1>1 DEF Fits, PassState, AtARow, Holding
<1> QED
  BY <1>1, <1>2 DEF Fits, Listed, AtARow, Holding, Writing, Filling, Rows

\* A pass looks again, and goes on with its row.
LEMMA LookKeeps ==
    ASSUME IInv, NEW l \in Lanes, pass[l].pc \in Writing, NEW y \in PassState, pass' = Set(l, y),
           UNCHANGED <<doc, dbVars, memVars, announced, history>>, budget' \in Scenarios,
           y.pc \in Writing, y.row = pass[l].row, y.snap = pass[l].snap, y.mode = pass[l].mode,
           y.only = pass[l].only, y.v = pass[l].v,
           y.pc = "text" => Shows(y) /\ (doc[y.row].text = None \/ "text" \in y.late),
           y.pc = "patch" => Shows(y),
           y.pc \in Filling => doc[y.row].copies[y.v] = 0
    PROVE  IInv'
<1>1. Moves(l, y) /\ Scanning'
  BY SetMoves, ScanGoesOn, WritingIs DEF IInv, memVars
<1>2. UNCHANGED <<doc, video>> /\ (Shows(y)' <=> Shows(y))
  BY DEF dbVars, Shows
<1>3. Fits(l, y)'
  <2>1. y.v # 0 /\ video'[y.v].status # "none"
    BY <1>2, WritingIs, SyncConstants
  <2>2. y.pc \in AtARow
    BY DEF AtARow, Holding
  <2> QED
    BY <1>2, <2>1, <2>2, WritingIs, StayFits
<1>4. Inner(l)
  BY LooseTypes DEF Inner, memVars, dbVars, history, IInv, TypeOK
<1>5. y.pc \notin {"create", "save"}
  BY DEF Writing, Filling
<1> QED
  BY <1>1, <1>3, <1>4, <1>5, WritingIs, InnerKeeps

\* A pass leaves its row without a change.
LEMMA LeaveKeeps ==
    ASSUME IInv, NEW l \in Lanes, pass[l].pc \in Writing,
           pass' \in {Set(l, NextRow(pass[l])), Set(l, RowFailed(pass[l]))},
           UNCHANGED <<doc, dbVars, memVars, announced, history>>, budget' \in Scenarios
    PROVE  IInv'
<1>1. PICK y \in {NextRow(pass[l]), RowFailed(pass[l])} : pass' = Set(l, y)
  OBVIOUS
<1>2. /\ y \in PassState /\ y.pc = "row" /\ y.row = pass[l].row + 1 /\ y.snap = pass[l].snap
      /\ y.mode = pass[l].mode /\ y.only = pass[l].only
  BY WritingIs, NextRowIs, RowFailedIs
<1>3. Moves(l, y) /\ Scanning'
  BY <1>1, <1>2, SetMoves, ScanGoesOn, WritingIs DEF IInv, memVars
<1>4. Fits(l, y)'
  BY <1>2, WritingIs, RowFits
<1>5. Inner(l)
  BY LooseTypes DEF Inner, memVars, dbVars, history, IInv, TypeOK
<1> QED
  BY <1>2, <1>3, <1>4, <1>5, WritingIs, InnerKeeps

\* A pass changes the document, though no link.
LEMMA ChangeKeeps ==
    ASSUME IInv, NEW l \in Lanes, pass[l].pc \in Writing, NEW y \in PassState, pass' = Outdated(Set(l, y)),
           Changed, UNCHANGED <<binding, video, delivery, announced, history>>, budget' \in Scenarios,
           doc' \in [Rows -> DocRow], \A r \in Rows : doc'[r].link = doc[r].link, PreviewOnce',
           Fits(l, y)', y.pc \notin {"create", "save"}
    PROVE  IInv'
<1>1. Moves(l, y)
  BY SetMoves DEF IInv
<1>2. Scanning'
  BY <1>1, WritingIs, ChangedScan, ScanGoesOn
<1>3. Apart
  BY ChangedTypes, LooseTypes DEF Apart, Loose, history, IInv, TypeOK
<1> QED
  BY <1>1, <1>2, <1>3, WritingIs, StepKeeps

LEMMA LookIs ==
    ASSUME NEW d \in PassState, NEW h \in SUBSET Results
    PROVE  LET y == [d EXCEPT !.has = h, !.late = {}] IN
           /\ y \in PassState /\ y.late = {} /\ y.row = d.row /\ y.snap = d.snap
           /\ y.mode = d.mode /\ y.only = d.only /\ y.v = d.v
  BY DEF PassState

LEMMA PeekKeeps ==
    ASSUME IInv, NEW l \in Lanes, NEW ok \in BOOLEAN, Peek(l, ok)
    PROVE  IInv'
<1>1. pass[l].pc \in Writing /\ budget' \in Scenarios
  BY Faults DEF Peek, Writing
<1> DEFINE d == [pass[l] EXCEPT !.has = video[pass[l].v].has, !.late = {}]
           wanted == "translation" \in d.has /\ d.snap[d.row].text = None
<1>2. /\ d \in PassState /\ d.late = {} /\ d.row = pass[l].row /\ d.snap = pass[l].snap
      /\ d.mode = pass[l].mode /\ d.only = pass[l].only /\ d.v = pass[l].v
  <2>1. video[pass[l].v].has \in SUBSET Results
    BY <1>1, WritingIs DEF IInv, TypeOK, VideoState
  <2>2. pass[l] \in PassState
    BY <1>1, WritingIs
  <2> QED
    BY <2>1, <2>2, LookIs
<1>3. pass' = Set(l, CASE ~ok -> [d EXCEPT !.pc = "check", !.failed = TRUE]
                       [] ok /\ wanted /\ Blank(d.row, d.v) -> [d EXCEPT !.pc = "text"]
                       [] OTHER -> [d EXCEPT !.pc = "check"])
  BY DEF Peek
<1> HIDE DEF d, wanted
<1>4. PICK y : /\ pass' = Set(l, y)
               /\ \/ y = [d EXCEPT !.pc = "check", !.failed = TRUE] \/ y = [d EXCEPT !.pc = "check"]
                  \/ y = [d EXCEPT !.pc = "text"] /\ Blank(d.row, d.v)
  BY <1>3
<1>5. /\ y \in PassState /\ y.pc \in {"check", "text"} /\ y.late = {} /\ y.row = d.row /\ y.snap = d.snap
      /\ y.mode = d.mode /\ y.only = d.only /\ y.v = d.v
      /\ y.pc = "text" => Blank(d.row, d.v)
  BY <1>2, <1>4 DEF PassState
<1>6. y.pc = "text" => Shows(y) /\ doc[y.row].text = None
  BY <1>5 DEF Blank, RowMatches, Latest, Shows
<1> QED
  BY <1>1, <1>2, <1>4, <1>5, <1>6, LookKeeps DEF Peek, Writing, Filling

LEMMA CheckPreviewKeeps ==
    ASSUME IInv, NEW l \in Lanes, NEW ok \in BOOLEAN, CheckPreview(l, ok)
    PROVE  IInv'
<1>1. pass[l].pc \in Writing /\ budget' \in Scenarios
  BY Faults DEF CheckPreview, Writing
<1>2. UNCHANGED <<doc, dbVars, memVars, announced, history>>
  BY DEF CheckPreview
<1> DEFINE wanted == "file" \in pass[l].has /\ ~HasPreview(pass[l].snap[pass[l].row], pass[l].v)
<1>3. pass' = Set(l, CASE ~ok -> RowFailed(pass[l])
                       [] ok /\ wanted /\ Valid(pass[l]) -> [pass[l] EXCEPT !.pc = "upload"]
                       [] OTHER -> NextRow(pass[l]))
  BY DEF CheckPreview
<1>4. CASE ok /\ wanted /\ Valid(pass[l])
  <2>1. PICK y : y = [pass[l] EXCEPT !.pc = "upload"]
    OBVIOUS
  <2>2. /\ y \in PassState /\ y.pc = "upload" /\ y.row = pass[l].row /\ y.snap = pass[l].snap
        /\ y.mode = pass[l].mode /\ y.only = pass[l].only /\ y.v = pass[l].v
    <3>1. pass[l] \in PassState
      BY <1>1, WritingIs
    <3>2. "upload" \in PCs
      BY DEF PCs, Listed, AtARow, Holding, Writing, Filling
    <3> QED
      BY <2>1, <3>1, <3>2, PlaceIs
  <2>3. pass' = Set(l, y)
    BY <1>3, <1>4, <2>1
  <2>4. doc[y.row].copies[y.v] = 0
    <3>1. doc[y.row].copies[y.v] \in Nat
      BY <1>1, <2>2, WritingIs DEF IInv, TypeOK, DocRow
    <3> QED
      BY <1>1, <1>4, <2>2, <3>1, WritingIs DEF HasPreview
  <2> QED
    BY <1>1, <1>2, <2>2, <2>3, <2>4, LookKeeps DEF Writing, Filling
<1>5. CASE ~(ok /\ wanted /\ Valid(pass[l]))
  BY <1>1, <1>2, <1>3, <1>5, LeaveKeeps
<1> QED
  BY <1>4, <1>5

LEMMA WriteTextKeeps ==
    ASSUME IInv, NEW l \in Lanes, NEW o \in {"ok", "failed", "lost"}, WriteText(l, o)
    PROVE  IInv'
<1>1. pass[l].pc \in Writing /\ pass[l].pc = "text" /\ budget' \in Scenarios
  BY Faults DEF WriteText, Writing
<1>2. PICK y : y = [pass[l] EXCEPT !.pc = "check", !.failed = @ \/ o # "ok"]
  OBVIOUS
<1>3. /\ y \in PassState /\ y.pc = "check" /\ y.row = pass[l].row /\ y.snap = pass[l].snap
      /\ y.mode = pass[l].mode /\ y.only = pass[l].only /\ y.v = pass[l].v
  <2>1. PICK b \in BOOLEAN : b = (pass[l].failed \/ o # "ok")
    OBVIOUS
  <2>2. y = [pass[l] EXCEPT !.pc = "check", !.failed = b] /\ pass[l] \in PassState
    BY <1>1, <1>2, <2>1, WritingIs
  <2> QED
    BY <2>2 DEF PassState
<1>4. CASE o = "failed"
  <2>1. pass' = Set(l, y) /\ UNCHANGED <<doc, dbVars, memVars, announced, history>>
    BY <1>2, <1>4 DEF WriteText, dbVars, memVars
  <2> QED
    BY <1>1, <1>3, <2>1, LookKeeps DEF Writing, Filling
<1>5. CASE o # "failed"
  <2>1. /\ Changed /\ pass' = Outdated(Set(l, y)) /\ doc' = [doc EXCEPT ![y.row].text = y.v]
        /\ UNCHANGED <<binding, video, delivery, announced, history>>
    BY <1>2, <1>5 DEF WriteText
  <2>2. /\ doc' \in [Rows -> DocRow]
        /\ \A r \in Rows : doc'[r].link = doc[r].link /\ doc'[r].copies = doc[r].copies
    <3>1. y.row \in Rows /\ y.v \in Videos
      BY <1>1, <1>3, WritingIs
    <3>2. doc[y.row] \in DocRow
      BY <3>1 DEF IInv, TypeOK
    <3>3. PICK z : z = [doc[y.row] EXCEPT !.text = y.v]
      OBVIOUS
    <3>4. z \in DocRow /\ z.link = doc[y.row].link /\ z.copies = doc[y.row].copies
      BY <3>1, <3>2, <3>3 DEF DocRow
    <3>5. doc' = [doc EXCEPT ![y.row] = z]
      BY <2>1, <3>1, <3>3 DEF IInv, TypeOK
    <3> QED
      BY <3>1, <3>4, <3>5 DEF IInv, TypeOK
  <2>3. PreviewOnce'
    BY <2>2 DEF PreviewOnce, IInv, Tables
  <2>4. Fits(l, y)'
    <3>1. y.v # 0 /\ video'[y.v].status # "none"
      BY <1>1, <1>3, <2>1, WritingIs, SyncConstants
    <3> QED
      BY <1>1, <1>3, <2>2, <3>1, WritingIs, StayFits DEF AtARow, Holding, Writing, Filling
  <2> QED
    BY <1>1, <1>3, <2>1, <2>2, <2>3, <2>4, ChangeKeeps
<1> QED
  BY <1>4, <1>5

\* A pass leaves its row, and takes out the block it had added.
LEMMA RemoveKeeps ==
    ASSUME IInv, NEW l \in Lanes, pass[l].pc \in Filling,
           NEW d \in PassState, d.row = pass[l].row, d.snap = pass[l].snap, d.mode = pass[l].mode,
           d.only = pass[l].only, Removed(Set(l, NextRow(d))) \/ Removed(Set(l, RowFailed(d))),
           UNCHANGED <<binding, video, delivery, announced, history>>, budget' \in Scenarios,
           doc' = doc \/ doc' = [doc EXCEPT ![pass[l].row].copies[pass[l].v] = @ + 1]
    PROVE  IInv'
<1>1. pass[l].pc \in Writing
  BY DEF Writing
<1>2. PICK y \in {NextRow(d), RowFailed(d)} : pass' = Outdated(Set(l, y)) /\ Changed
  BY DEF Removed
<1>3. /\ y \in PassState /\ y.pc = "row" /\ y.row = pass[l].row + 1 /\ y.snap = pass[l].snap
      /\ y.mode = pass[l].mode /\ y.only = pass[l].only
  BY NextRowIs, RowFailedIs
<1>4. /\ doc' \in [Rows -> DocRow]
      /\ \A r \in Rows : /\ doc'[r].link = doc[r].link
                         /\ r # pass[l].row => doc'[r].copies = doc[r].copies
                         /\ \A v \in Videos : doc'[r].copies[v] <= 1
  <2>1. CASE doc' = doc
    BY <2>1 DEF IInv, TypeOK, Tables, PreviewOnce
  <2>2. CASE doc' = [doc EXCEPT ![pass[l].row].copies[pass[l].v] = @ + 1]
    <3>1. PICK r \in Rows, v \in Videos : r = pass[l].row /\ v = pass[l].v
      BY <1>1, WritingIs
    <3>2. doc[r] \in DocRow /\ doc[r].copies[v] = 0
      BY <1>1, <3>1, WritingIs DEF IInv, TypeOK, Fits
    <3>3. PICK c : c = [doc[r].copies EXCEPT ![v] = @ + 1]
      OBVIOUS
    <3>4. c \in [Videos -> Nat] /\ \A w \in Videos : c[w] <= 1
      BY <3>2, <3>3 DEF DocRow, IInv, Tables, PreviewOnce
    <3>5. PICK z : z = [doc[r] EXCEPT !.copies = c]
      OBVIOUS
    <3>6. z \in DocRow /\ z.link = doc[r].link /\ z.copies = c
      BY <3>2, <3>4, <3>5 DEF DocRow
    <3>7. doc' = [doc EXCEPT ![r] = z]
      BY <2>2, <3>1, <3>2, <3>3, <3>5 DEF IInv, TypeOK, DocRow
    <3> QED
      BY <3>1, <3>4, <3>6, <3>7 DEF IInv, TypeOK, Tables, PreviewOnce
  <2> QED
    BY <2>1, <2>2
<1>5. Fits(l, y)'
  BY <1>1, <1>3, <1>4, WritingIs, RowFits
<1> QED
  BY <1>1, <1>2, <1>3, <1>4, <1>5, ChangeKeeps DEF PreviewOnce

LEMMA UploadPreviewKeeps ==
    ASSUME IInv, NEW l \in Lanes, NEW ok \in BOOLEAN, UploadPreview(l, ok)
    PROVE  IInv'
<1>1. pass[l].pc \in Writing /\ pass[l].pc = "upload" /\ budget' \in Scenarios
  BY Faults DEF UploadPreview, Writing, Filling
<1>2. UNCHANGED <<doc, binding, video, delivery, announced, history>>
  BY DEF UploadPreview
<1>3. CASE ok
  <2>1. PICK y : y = [pass[l] EXCEPT !.pc = "confirm"]
    OBVIOUS
  <2>2. /\ y \in PassState /\ y.pc = "confirm" /\ y.row = pass[l].row /\ y.snap = pass[l].snap
        /\ y.mode = pass[l].mode /\ y.only = pass[l].only /\ y.v = pass[l].v
    <3>1. pass[l] \in PassState
      BY <1>1, WritingIs
    <3>2. "confirm" \in PCs
      BY DEF PCs, Listed, AtARow, Holding, Writing, Filling
    <3> QED
      BY <2>1, <3>1, <3>2, PlaceIs
  <2>3. Changed /\ pass' = Outdated(Set(l, y))
    BY <1>3, <2>1 DEF UploadPreview
  <2>4. Fits(l, y)'
    <3>1. y.v # 0 /\ video'[y.v].status # "none"
      BY <1>1, <1>2, <2>2, WritingIs, SyncConstants
    <3>2. doc'[y.row].copies[y.v] = 0
      BY <1>1, <1>2, <2>2, WritingIs DEF Fits, Filling
    <3> QED
      BY <1>1, <1>2, <2>2, <3>1, <3>2, WritingIs, StayFits DEF AtARow, Holding, Writing, Filling
  <2>5. PreviewOnce'
    BY <1>2 DEF PreviewOnce, IInv, Tables
  <2> QED
    BY <1>1, <1>2, <2>2, <2>3, <2>4, <2>5, ChangeKeeps DEF IInv, TypeOK
<1>4. CASE ~ok
  BY <1>1, <1>2, <1>4, WritingIs, RemoveKeeps DEF UploadPreview, Filling
<1> QED
  BY <1>3, <1>4

LEMMA PatchPreviewKeeps ==
    ASSUME IInv, NEW l \in Lanes, NEW o \in {"ok", "failed", "lost"}, PatchPreview(l, o)
    PROVE  IInv'
<1>1. pass[l].pc \in Filling /\ budget' \in Scenarios
  BY Faults DEF PatchPreview, Filling
<1>2. pass[l] \in PassState
  BY LooseTypes
<1> QED
  BY <1>1, <1>2, RemoveKeeps DEF PatchPreview

LEMMA ConfirmPreviewKeeps ==
    ASSUME IInv, NEW l \in Lanes, NEW ok \in BOOLEAN, ConfirmPreview(l, ok)
    PROVE  IInv'
<1>1. pass[l].pc \in Writing /\ pass[l].pc = "confirm" /\ budget' \in Scenarios
  BY Faults DEF ConfirmPreview, Writing, Filling
<1>2. UNCHANGED <<doc, binding, video, delivery, announced, history>>
  BY DEF ConfirmPreview
<1> DEFINE d == [pass[l] EXCEPT !.late = {}]
<1>3. /\ d \in PassState /\ d.row = pass[l].row /\ d.snap = pass[l].snap
      /\ d.mode = pass[l].mode /\ d.only = pass[l].only /\ d.v = pass[l].v
  <2>1. pass[l] \in PassState
    BY <1>1, WritingIs
  <2> QED
    BY <2>1 DEF PassState
<1>4. IF ok /\ Valid(d)
      THEN pass' = Set(l, [d EXCEPT !.pc = "patch"]) /\ UNCHANGED <<scanState, discovery>>
      ELSE Removed(Set(l, IF ok THEN NextRow(d) ELSE RowFailed(d)))
  BY DEF ConfirmPreview
<1> HIDE DEF d
<1>5. CASE ok /\ Valid(d)
  <2>1. PICK y : y = [d EXCEPT !.pc = "patch"]
    OBVIOUS
  <2>2. /\ y \in PassState /\ y.pc = "patch" /\ y.row = pass[l].row /\ y.snap = pass[l].snap
        /\ y.mode = pass[l].mode /\ y.only = pass[l].only /\ y.v = pass[l].v
    <3>1. "patch" \in PCs
      BY DEF PCs, Listed, AtARow, Holding, Writing, Filling
    <3> QED
      BY <1>3, <2>1, <3>1, PlaceIs
  <2>3. pass' = Set(l, y) /\ UNCHANGED <<doc, dbVars, memVars, announced, history>>
    BY <1>2, <1>4, <1>5, <2>1 DEF dbVars, memVars
  <2>4. Shows(y)
    BY <1>3, <1>5, <2>2 DEF Valid, RowMatches, Latest, Shows
  <2>5. doc[y.row].copies[y.v] = 0
    BY <1>1, <2>2, WritingIs DEF Fits, Filling
  <2> QED
    BY <1>1, <2>2, <2>3, <2>4, <2>5, LookKeeps DEF Writing, Filling
<1>6. CASE ~(ok /\ Valid(d))
  BY <1>1, <1>2, <1>3, <1>4, <1>6, RemoveKeeps DEF Filling
<1> QED
  BY <1>5, <1>6

\* A pass that has worked through its rows.
LEMMA FinishKeeps ==
    ASSUME IInv, NEW l \in Lanes, Finish(l)
    PROVE  IInv'
<1>1. pass[l] \in PassState /\ pass[l].pc = "row" /\ Ends(l)
  BY LooseTypes, EndsBoth DEF Finish
<1>2. PICK y \in {Idle, NewScan} : y \in PassState /\ Moves(l, y) /\ Fits(l, y)' /\ y.pc \in {"idle", "begin"}
  BY <1>1, EndsIs
<1>3. Scanning' /\ discovery' \in Discoveries /\ delivery' \in Deliveries
  BY <1>1, EndsIs
<1>4. scanState' \in {"none", "invalid", "old", "current"}
  <2>1. Stored(pass[l]) \in {"invalid", "old", "current"}
    BY <1>1 DEF Stored, PassState
  <2> QED
    BY <2>1, LooseTypes DEF Finish, Loose
<1>5. Apart /\ PreviewOnce' /\ doc' = doc
  BY <1>3, <1>4, LooseTypes
     DEF Finish, Apart, Loose, history, IInv, TypeOK, Tables, PreviewOnce, Discoveries, Deliveries
<1> QED
  BY <1>1, <1>2, <1>3, <1>5, StepKeeps

-----------------------------------------------------------------------------
(* The least of a set of numbers, and the newest video of a few.           *)

LEMMA LeastOf ==
    ASSUME NEW S \in SUBSET Nat, S # {}
    PROVE  \E m \in S : \A n \in S : m <= n
<1>1. PICK m \in S : \A n \in S : ~(<<n, m>> \in OpToRel(<, Nat))
  BY WFMin, NatLessThanWellFounded, Zenon
<1>2. \A n \in S : ~(n < m)
  BY <1>1 DEF OpToRel
<1> QED
  BY <1>2

LEMMA NewestIn ==
    ASSUME IInv, NEW S \in SUBSET Videos, S # {}, \A v \in S : Known(v)
    PROVE  Newest(S) \in S
<1>1. S \subseteq Nat /\ 0 \notin S
  BY SyncConstants
<1>2. PICK n \in Nat : \A v \in S : v <= n
  BY <1>1, SyncConstants DEF IInv, Tables
<1> DEFINE Above == {m \in Nat : \A v \in S : v <= m}
<1>3. PICK m \in Above : \A k \in Above : m <= k
  <2>1. Above \in SUBSET Nat /\ Above # {}
    BY <1>2
  <2> HIDE DEF Above
  <2> QED
    BY <2>1, LeastOf
<1>4. m \in S
  <2> SUFFICES ASSUME m \notin S
               PROVE  FALSE
    OBVIOUS
  <2>1. m \in Nat /\ \A v \in S : v \in Nat /\ v <= m /\ v # m
    BY <1>1
  <2>2. m - 1 \in Nat /\ \A v \in S : v <= m - 1
    <3>1. PICK w \in S : w \in Nat /\ w # 0 /\ w <= m
      BY <1>1, <2>1
    <3>2. m - 1 \in Nat
      BY <2>1, <3>1
    <3>3. ASSUME NEW v \in S
          PROVE  v <= m - 1
      BY <2>1
    <3> QED
      BY <3>2, <3>3
  <2>3. m <= m - 1
    BY <1>3, <2>2
  <2> QED
    BY <2>1, <2>3
<1>5. \E v \in S : \A w \in S : w <= v
  BY <1>4
<1> QED
  BY <1>5 DEF Newest

-----------------------------------------------------------------------------
(* The steps that make a task or bind a row.                               *)

\* The types of what such a step changes.
Stores ==
    /\ binding \in [Rows -> [v : Videos \cup {0}, link : Links \cup {None}]]
    /\ video \in [Videos -> VideoState] /\ created \in [Rows -> SUBSET Videos]
    /\ typed \in [Rows -> [Links -> Nat]] /\ excused \subseteq Rows /\ Loose

\* Only the row of the pass, and what it is bound to, may change.
LEMMA BindKeeps ==
    ASSUME IInv, NEW l \in Lanes, NEW y \in PassState, Moves(l, y), Fits(l, y)', VideosKeep, Scanning',
           NEW r \in Rows, r = pass[l].row, y.pc \in {"create", "save"} => y.row = r,
           doc' = doc, Stores', Tables', \A s \in Rows \ {r} : RowKept(s), TaskOk(r)'
    PROVE  IInv'
<1>1. \A k \in Lanes : Fits(k, pass[k])'
  BY LaneFits
<1>2. ASSUME NEW s \in Rows \ {r}
      PROVE  TaskOk(s)'
  <2>1. LanesKept(s)
    BY <1>2 DEF LanesKept, Moves, Alike, At, Binding
  <2> QED
    BY <1>2, <2>1, RowStays
<1>3. TaskInv'
  <2>1. \A s \in Rows : TaskOk(s)'
    BY <1>2
  <2> QED
    BY <2>1 DEF TaskInv
<1>4. TypeOK'
  <2>1. \A k \in Lanes : pass'[k].pc \in Holding => pass'[k].v # 0
    BY <1>1 DEF Fits
  <2> QED
    BY <2>1 DEF Moves, Stores, Loose, TypeOK, Holding, Writing, Filling
<1> QED
  BY <1>1, <1>3, <1>4 DEF IInv

\* A pass that has got the row's video asks for a delivery, leaves it, or looks again.
LEMMA HandleIs ==
    ASSUME IInv, NEW l \in Lanes, NEW v \in Videos, Known(v), Handle(l, v), UNCHANGED <<doc, video>>,
           pass[l].pc \in {"row", "save"}, pass[l].row \in Rows, pass[l].snap[pass[l].row].link # None
    PROVE  /\ \E y \in PassState : Moves(l, y) /\ Fits(l, y)' /\ y.pc \in {"row", "peek"}
           /\ delivery' \in Deliveries
<1> DEFINE d == [pass[l] EXCEPT !.v = v]
           s == d.snap[d.row]
           missing == \/ "file" \in video[v].has /\ ~HasPreview(s, v)
                      \/ "translation" \in video[v].has /\ s.text = None
<1>1. Fits(l, pass[l]) /\ pass[l] \in PassState /\ pass[l].pc \in Listed /\ v \in Videos \cup {0} /\ v # 0
  BY SyncConstants DEF IInv, TypeOK, Listed, AtARow, Holding
<1>2. /\ d \in PassState /\ d.row = pass[l].row /\ d.snap = pass[l].snap /\ d.mode = pass[l].mode
      /\ d.only = pass[l].only /\ d.v = v
  BY <1>1 DEF PassState
<1>3. /\ d.mode = "discover" => /\ pass' = Set(l, NextRow([d EXCEPT !.failed = @ \/ missing]))
                                /\ delivery' = IF missing THEN Requested(delivery, v) ELSE delivery
      /\ d.mode # "discover" => /\ pass' = Set(l, IF video[v].status = "queued" THEN NextRow(d)
                                                   ELSE [d EXCEPT !.pc = "peek", !.old = video[v]])
                                /\ UNCHANGED delivery
  BY DEF Handle
<1>4. missing \in BOOLEAN
  OBVIOUS
<1> HIDE DEF d, missing
<1>5. delivery' \in Deliveries
  BY <1>3, LooseTypes, DeliveryTypes
<1>6. ASSUME NEW e \in PassState, e.row = d.row, e.snap = d.snap, e.mode = d.mode, e.only = d.only,
             pass' = Set(l, NextRow(e))
      PROVE  \E y \in PassState : Moves(l, y) /\ Fits(l, y)' /\ y.pc \in {"row", "peek"}
  <2>1. PICK y : y = NextRow(e)
    OBVIOUS
  <2>2. /\ y \in PassState /\ y.pc = "row" /\ y.row = pass[l].row + 1 /\ y.snap = pass[l].snap
        /\ y.mode = pass[l].mode /\ y.only = pass[l].only
    BY <1>2, <1>6, <2>1, NextRowIs
  <2>3. Moves(l, y) /\ Fits(l, y)'
    BY <1>1, <1>6, <2>1, <2>2, SetMoves, RowFits DEF IInv
  <2> QED
    BY <2>2, <2>3
<1>7. CASE d.mode = "discover"
  <2>1. PICK f \in BOOLEAN : f = (d.failed \/ missing)
    OBVIOUS
  <2>2. PICK e : e = [d EXCEPT !.failed = f]
    OBVIOUS
  <2>3. e \in PassState /\ e.row = d.row /\ e.snap = d.snap /\ e.mode = d.mode /\ e.only = d.only
    BY <1>2, <2>2 DEF PassState
  <2>4. pass' = Set(l, NextRow(e))
    BY <1>3, <1>7, <2>1, <2>2
  <2> QED
    BY <1>5, <1>6, <2>3, <2>4
<1>8. CASE d.mode # "discover" /\ video[v].status = "queued"
  BY <1>2, <1>3, <1>5, <1>6, <1>8
<1>9. CASE d.mode # "discover" /\ video[v].status # "queued"
  <2>1. PICK y : y = [d EXCEPT !.pc = "peek", !.old = video[v]]
    OBVIOUS
  <2>2. /\ y \in PassState /\ y.pc = "peek" /\ y.row = pass[l].row /\ y.snap = pass[l].snap
        /\ y.mode = pass[l].mode /\ y.only = pass[l].only /\ y.v = v
    <3>1. video[v] \in VideoState
      BY DEF IInv, TypeOK
    <3> QED
      BY <1>2, <2>1, <3>1 DEF PassState
  <2>3. pass' = Set(l, y)
    BY <1>3, <1>9, <2>1
  <2>4. l = "write"
    BY <1>1, <1>2, <1>9 DEF Fits, Lanes, Listed, AtARow, Holding
  <2>5. Moves(l, y) /\ Fits(l, y)'
    <3>1. y.v # 0 /\ video'[y.v].status # "none"
      BY <1>1, <2>2 DEF Known
    <3> QED
      BY <1>1, <2>2, <2>3, <2>4, <3>1, SetMoves, StayFits DEF IInv, AtARow, Holding, Writing, Filling
  <2> QED
    BY <1>5, <2>2, <2>5
<1> QED
  BY <1>7, <1>8, <1>9

LEMMA ToBindIs ==
    ASSUME NEW d \in PassState, NEW v \in Videos
    PROVE  LET y == [d EXCEPT !.pc = "save", !.v = v] IN
           /\ y \in PassState /\ y.pc = "save" /\ y.row = d.row /\ y.snap = d.snap
           /\ y.mode = d.mode /\ y.only = d.only /\ y.v = v
  BY DEF PassState

\* What a pass does with a row: it leaves it to the next or looks again, or is to make
\* or to bind its task while the row is not bound to the link.
Onward(l, d, r, k, y) ==
    /\ Moves(l, y) /\ Fits(l, y)'
    /\ \/ y.pc \in {"row", "peek"}
       \/ /\ k # None /\ ~(binding[r].v # 0 /\ binding[r].link = k)
          /\ y.pc \in {"create", "save"} /\ y.row = r /\ y.snap = d.snap

LEMMA ClaimIs ==
    ASSUME IInv, NEW l \in Lanes, ClaimRow(l), NEW d, NEW r, NEW k, d = pass[l], r = d.row, k = d.snap[r].link
    PROVE  (\E y \in PassState : Onward(l, d, r, k, y)) /\ delivery' \in Deliveries
<1> DEFINE b == binding[r]
           bound == IF b.link = k THEN b.v ELSE 0
           old == IF d.migrate /\ b.v = 0 THEN Earlier(k) ELSE {}
           mine == {v \in {d.only} : b.v \in {0, v} /\ video[v].link = k /\ ~Claimed(v, r)}
           claim == IF d.mode = "deliver" THEN mine
                    ELSE IF old # {} /\ ~Claimed(Newest(old), r) THEN {Newest(old)} ELSE {}
           skip == d.mode = "deliver" /\ bound # d.only /\ claim = {}
<1>1. /\ d \in PassState /\ d.pc = "row" /\ r \in Rows /\ Fits(l, d) /\ k \in Links \cup {None}
      /\ b.v \in Videos \cup {0} /\ (b.v # 0 => Known(b.v))
  <2>1. d \in PassState /\ d.pc = "row" /\ r \in Rows /\ Fits(l, d)
    BY DEF ClaimRow, IInv, TypeOK
  <2>2. k \in Links \cup {None}
    BY <2>1 DEF Fits, Listed, DocRow
  <2> QED
    BY <2>1, <2>2 DEF IInv, TypeOK, Tables
<1>2. UNCHANGED <<doc, video>> /\ d.pc \in Listed
  BY <1>1 DEF ClaimRow, Listed
<1>3. IF k = None \/ skip
         THEN pass' = Set(l, NextRow(d)) /\ UNCHANGED delivery
      ELSE IF bound # 0 THEN Handle(l, bound)
      ELSE /\ pass' = Set(l, IF claim = {} THEN [d EXCEPT !.pc = "create"]
                             ELSE [d EXCEPT !.pc = "save", !.v = Newest(claim)])
           /\ UNCHANGED delivery
  BY DEF ClaimRow
<1>4. CASE k = None \/ skip
  <2>1. PICK y : y = NextRow(d)
    OBVIOUS
  <2>2. /\ y \in PassState /\ y.pc = "row" /\ y.row = r + 1 /\ y.snap = d.snap
        /\ y.mode = d.mode /\ y.only = d.only
    BY <1>1, <2>1, NextRowIs
  <2>3. Moves(l, y) /\ delivery' = delivery
    BY <1>3, <1>4, <2>1, <2>2, SetMoves DEF IInv
  <2>4. Fits(l, y)'
    BY <1>2, <2>2, RowFits
  <2> QED
    BY <2>2, <2>3, <2>4, LooseTypes DEF Onward
<1>5. CASE ~(k = None \/ skip) /\ bound # 0
  <2>1. PICK v \in Videos : v = bound /\ Known(v)
    <3>1. bound = b.v /\ b.v # 0
      BY <1>5
    <3> QED
      BY <1>1, <3>1
  <2>2. Handle(l, v)
    BY <1>3, <1>5, <2>1
  <2> QED
    BY <1>1, <1>2, <1>5, <2>1, <2>2, HandleIs DEF Onward
<1>6. CASE ~(k = None \/ skip) /\ bound = 0
  <2>1. ~(b.v # 0 /\ b.link = k) /\ delivery' = delivery
    BY <1>3, <1>6
  <2>2. claim \subseteq Videos /\ \A v \in claim : Known(v)
    <3>1. CASE d.mode = "deliver"
      <4>1. d.only \in Videos
        BY <1>1, <3>1 DEF Fits, PassState
      <4>2. \A v \in mine : v \in Videos /\ video[v].link # None
        BY <1>6, <4>1
      <4> QED
        BY <3>1, <4>2 DEF IInv, Tables
    <3>2. CASE d.mode # "deliver"
      <4>1. old \subseteq Videos /\ \A v \in old : Known(v)
        BY <1>6 DEF Earlier, IInv, Tables
      <4>2. old # {} => Newest(old) \in old
        BY <4>1, NewestIn
      <4> QED
        BY <3>2, <4>1, <4>2
    <3> QED
      BY <3>1, <3>2
  <2>3. CASE claim = {}
    <3>1. PICK y : y = [d EXCEPT !.pc = "create"]
      OBVIOUS
    <3>2. /\ y \in PassState /\ y.pc = "create" /\ y.row = r /\ y.snap = d.snap /\ y.mode = d.mode
          /\ y.only = d.only
      <4>1. "create" \in PCs
        BY DEF PCs, Listed, AtARow
      <4> QED
        BY <1>1, <3>1, <4>1, PlaceIs
    <3>3. Moves(l, y)
      BY <1>3, <1>6, <2>3, <3>1, <3>2, SetMoves DEF IInv
    <3>4. Fits(l, y)'
      BY <1>1, <1>2, <1>6, <3>2, StayFits DEF AtARow, Holding, Writing, Filling
    <3> QED
      BY <1>6, <2>1, <3>2, <3>3, <3>4, LooseTypes DEF Onward
  <2>4. CASE claim # {}
    <3>1. PICK v \in Videos : v = Newest(claim) /\ Known(v)
      <4> HIDE DEF claim
      <4> QED
        BY <2>2, <2>4, NewestIn
    <3>2. PICK y : y = [d EXCEPT !.pc = "save", !.v = v]
      OBVIOUS
    <3>3. /\ y \in PassState /\ y.pc = "save" /\ y.row = r /\ y.snap = d.snap /\ y.mode = d.mode
          /\ y.only = d.only /\ y.v = v
      BY <1>1, <3>2, ToBindIs
    <3>4. Moves(l, y)
      BY <1>3, <1>6, <2>4, <3>1, <3>2, <3>3, SetMoves DEF IInv
    <3>5. Fits(l, y)'
      <4>1. y.v # 0 /\ video'[y.v].status # "none"
        BY <1>2, <3>1, <3>3, SyncConstants DEF Known
      <4> QED
        BY <1>1, <1>2, <1>6, <3>3, <4>1, StayFits DEF AtARow, Holding, Writing, Filling
    <3> QED
      BY <1>6, <2>1, <3>3, <3>4, <3>5, LooseTypes DEF Onward
  <2> QED
    BY <2>3, <2>4
<1> QED
  BY <1>4, <1>5, <1>6

LEMMA ClaimRowKeeps ==
    ASSUME IInv, NEW l \in Lanes, ClaimRow(l)
    PROVE  IInv'
<1>1. PICK d, r, k : d = pass[l] /\ r = d.row /\ k = d.snap[r].link
  OBVIOUS
<1>2. /\ d.pc = "row" /\ r \in Rows /\ Fits(l, d) /\ excused' = excused \cup Stale(d)
      /\ k = None \/ \A m \in Lanes \ {l} : ~(Binding(pass, m) /\ pass[m].row = r)
      /\ binding' = IF k = None /\ d.mode # "deliver" THEN [binding EXCEPT ![r] = NoBinding] ELSE binding
      /\ UNCHANGED <<doc, scanState, video, discovery, announced, typed, created, lost, budget>>
  BY <1>1 DEF ClaimRow, IInv
<1>3. PICK y \in PassState : Onward(l, d, r, k, y)
  BY <1>1, ClaimIs
<1>4. delivery' \in Deliveries
  BY <1>1, ClaimIs
<1>5. Stale(d) \subseteq {r} /\ (r \notin excused' => doc[r].link = k)
  BY <1>1, <1>2 DEF Stale
<1>6. /\ binding' \in [Rows -> [v : Videos \cup {0}, link : Links \cup {None}]]
      /\ \A s \in Rows : s # r => binding'[s] = binding[s]
      /\ k # None => binding' = binding
      /\ binding'[r] = binding[r] \/ binding'[r].v = 0
  BY <1>2 DEF IInv, TypeOK, NoBinding
<1>7. Stores'
  BY <1>2, <1>4, <1>5, <1>6, LooseTypes DEF Stores, Loose, IInv, TypeOK, Deliveries
<1>8. Tables'
  <2>1. \A s \in Rows : binding'[s].v # 0 => video'[binding'[s].v].status # "none"
    BY <1>2, <1>6 DEF IInv, Tables, Known
  <2> QED
    BY <1>2, <2>1 DEF IInv, Tables, Known, PreviewOnce
<1>9. TaskOk(r)'
  <2>1. \A m \in Lanes \ {l} : At(pass', m, r) <=> At(pass, m, r)
    BY <1>3 DEF Onward, Moves, Alike, At, Binding
  <2>2. ~At(pass, l, r)
    BY <1>1, <1>2 DEF At, Binding
  <2>3. At(pass', l, r) => /\ k # None /\ ~(binding[r].v # 0 /\ binding[r].link = k)
                           /\ pass'[l].snap[r].link = k
    BY <1>1, <1>3 DEF Onward, Moves, Alike, At, Binding
  <2>4. k # None => \A m \in Lanes : ~At(pass, m, r)
    BY <1>2, <2>2 DEF At
  <2>5. Alone(r)'
    <3>1. \A m, n \in Lanes : At(pass', m, r) /\ At(pass', n, r) => m = n
      <4>1. Alone(r)
        BY <1>2 DEF IInv, TaskInv, TaskOk
      <4> QED
        BY <2>1, <2>3, <2>4, <4>1 DEF Alone
    <3> QED
      BY <3>1 DEF Alone, At, Binding
  <2>6. ASSUME r \notin excused', NEW h \in Links
        PROVE  TaskAt(r, h)'
    <3>1. TaskAt(r, h) /\ doc[r].link = k /\ doc' = doc
      BY <1>2, <1>5, <2>6 DEF IInv, TaskInv, TaskOk
    <3>2. (Spare(r, h)' <=> Spare(r, h)) /\ (Cardinality(Tasks(r, h)) <= typed[r][h])'
      BY <1>2, <3>1 DEF Spare, Tasks, TaskAt
    <3>3. ASSUME NEW m \in Lanes, At(pass', m, r), pass'[m].pc = "create", pass'[m].snap[r].link = h
          PROVE  Spare(r, h)
      <4>1. CASE m = l
        BY <2>3, <2>4, <3>1, <3>3, <4>1 DEF TaskAt, Served
      <4>2. CASE m # l
        <5>1. At(pass, m, r) /\ pass[m].pc = "create" /\ pass[m].snap[r].link = h
          BY <1>3, <2>1, <3>3, <4>2 DEF Onward, Moves, Alike
        <5> QED
          BY <3>1, <5>1 DEF TaskAt
      <4> QED
        BY <4>1, <4>2
    <3>4. ASSUME doc[r].link = h, ~Served(r, h)'
          PROVE  Spare(r, h)
      <4>1. k = h /\ k # None /\ binding' = binding
        BY <1>6, <3>1, <3>4, SyncConstants
      <4>2. CASE binding[r].v # 0 /\ binding[r].link = k
        <5>1. \A m \in Lanes : ~At(pass', m, r)
          BY <2>1, <2>3, <2>4, <4>1, <4>2
        <5>2. \A m \in Lanes : ~At(pass, m, r)'
          BY <5>1 DEF At, Binding
        <5>3. Served(r, h)'
          BY <4>1, <4>2, <5>2 DEF Served
        <5> QED
          BY <3>4, <5>3
      <4>3. CASE ~(binding[r].v # 0 /\ binding[r].link = k)
        BY <2>4, <3>1, <4>1, <4>3 DEF TaskAt, Served
      <4> QED
        BY <4>2, <4>3
    <3>5. \A m \in Lanes : At(pass, m, r)' <=> At(pass', m, r)
      BY DEF At, Binding
    <3> QED
      BY <3>1, <3>2, <3>3, <3>4, <3>5 DEF TaskAt
  <2> QED
    BY <2>5, <2>6 DEF TaskOk
<1>10. ASSUME NEW s \in Rows \ {r}
       PROVE  RowKept(s)
  BY <1>2, <1>6 DEF RowKept
<1>11. VideosKeep /\ Scanning' /\ Moves(l, y) /\ Fits(l, y)'
       /\ (y.pc \in {"create", "save"} => y.row = r)
  <2>1. Moves(l, y) /\ Fits(l, y)' /\ (y.pc \in {"create", "save"} => y.row = r)
    BY <1>3 DEF Onward
  <2> QED
    BY <1>1, <1>2, <2>1, ScanGoesOn DEF VideosKeep, Known
<1> QED
  BY <1>1, <1>2, <1>7, <1>8, <1>9, <1>10, <1>11, BindKeeps

LEMMA CreateVideoKeeps ==
    ASSUME IInv, NEW l \in Lanes, CreateVideo(l)
    PROVE  IInv'
<1>1. PICK d, r, k : d = pass[l] /\ r = d.row /\ k = d.snap[r].link
  OBVIOUS
<1>2. /\ d \in PassState /\ d.pc = "create" /\ r \in Rows /\ Fits(l, d) /\ k \in Links
  BY <1>1 DEF CreateVideo, IInv, TypeOK, Fits, AtARow, Listed, DocRow
<1>3. PICK v \in Videos : /\ video[v].status = "none"
                          /\ v = CHOOSE u \in Videos :
                                     /\ video[u].status = "none"
                                     /\ \A w \in Videos : w < u => video[w].status # "none"
  <2>1. {u \in Videos : video[u].status = "none"} \in SUBSET Nat
    BY SyncConstants
  <2>2. {u \in Videos : video[u].status = "none"} # {}
    BY DEF CreateVideo
  <2>3. PICK u \in Videos : /\ video[u].status = "none"
                            /\ \A w \in Videos : video[w].status = "none" => u <= w
    BY <2>1, <2>2, LeastOf
  <2>4. \A w \in Videos : w < u => ~(u <= w)
    BY SyncConstants
  <2>5. \E x \in Videos : video[x].status = "none" /\ \A w \in Videos : w < x => video[w].status # "none"
    BY <2>3, <2>4
  <2> QED
    BY <2>5
<1>4. PICK x, y : /\ x = [NoVideo EXCEPT !.status = "queued", !.link = k]
                  /\ y = [d EXCEPT !.pc = "save", !.v = v]
  OBVIOUS
<1>5. /\ video' = [video EXCEPT ![v] = x] /\ pass' = Set(l, y)
      /\ created' = [created EXCEPT ![r] = @ \cup {v}]
      /\ UNCHANGED <<doc, scanState, binding, memVars, announced, typed, excused, lost, budget>>
  BY <1>1, <1>3, <1>4 DEF CreateVideo
<1>6. x \in VideoState /\ x.status = "queued" /\ x.link = k
  BY <1>2, <1>4, IdleIs DEF VideoState
<1>7. /\ y \in PassState /\ y.pc = "save" /\ y.row = r /\ y.snap = d.snap /\ y.mode = d.mode
      /\ y.only = d.only /\ y.v = v
  <2>1. y = [d EXCEPT !.pc = "save", !.v = v]
    BY <1>4
  <2>2. d \in PassState /\ d.row = r
    BY <1>1, <1>2
  <2> QED
    BY <2>1, <2>2, ToBindIs
<1>8. /\ video' \in [Videos -> VideoState] /\ video'[v].status = "queued" /\ video'[v].link = k
      /\ \A w \in Videos : w # v => video'[w] = video[w]
  BY <1>5, <1>6 DEF IInv, TypeOK
<1>9. VideosKeep /\ \A w \in Videos : video'[w].status # "none" <=> Known(w) \/ w = v
  BY <1>3, <1>8 DEF VideosKeep, Known
<1>10. /\ created' \in [Rows -> SUBSET Videos] /\ created'[r] = created[r] \cup {v}
       /\ \A s \in Rows : s # r => created'[s] = created[s]
  BY <1>2, <1>5 DEF IInv, TypeOK
<1>11. Stores'
  BY <1>5, <1>8, <1>10, LooseTypes DEF Stores, Loose, IInv, TypeOK, memVars
<1>12. Tables'
  <2>1. budget' \in Scenarios /\ PreviewOnce'
    BY <1>5 DEF IInv, Tables, PreviewOnce
  <2>2. \A w \in Videos : ~Known(w)' => video'[w].link = None
    BY <1>8, <1>9 DEF IInv, Tables, Known
  <2>3. \A s \in Rows : binding'[s].v # 0 => Known(binding[s].v)'
    BY <1>5, <1>9 DEF IInv, Tables, Known, TypeOK
  <2>4. ASSUME NEW s \in Rows
        PROVE  IsFiniteSet(created'[s]) /\ \A w \in created'[s] : Known(w)'
    <3>1. /\ IsFiniteSet(created[s]) /\ created[s] \subseteq Videos
          /\ \A w \in created[s] : Known(w)
      BY DEF IInv, Tables, TypeOK
    <3>2. IsFiniteSet(created'[s])
      BY <1>10, <3>1, FS_AddElement
    <3> QED
      BY <1>9, <1>10, <3>1, <3>2 DEF Known
  <2>5. \E n \in Videos \cup {0} : \A w \in Videos : Known(w)' => w <= n
    <3>1. PICK n \in Videos \cup {0} : \A w \in Videos : Known(w) => w <= n
      BY DEF IInv, Tables
    <3>2. PICK m \in Videos \cup {0} : m = IF n <= v THEN v ELSE n
      OBVIOUS
    <3>3. v \in Nat /\ n \in Nat /\ Videos \subseteq Nat
      BY SyncConstants
    <3>4. \A w \in Videos : w <= n \/ w = v => w <= m
      BY <3>2, <3>3
    <3>5. \A w \in Videos : Known(w)' => w <= m
      BY <1>9, <3>1, <3>4 DEF Known
    <3> QED
      BY <3>5
  <2>6. \A s \in Rows : binding'[s] = binding[s]
    BY <1>5
  <2> QED
    BY <2>1, <2>2, <2>3, <2>4, <2>5, <2>6 DEF Tables
<1>13. TaskOk(r)'
  <2>1. TaskOk(r) /\ At(pass, l, r) /\ v \notin created[r] /\ created[r] \subseteq Videos
    BY <1>1, <1>2, <1>3 DEF IInv, TaskInv, At, Binding, Tables, Known, TypeOK
  <2>2. Moves(l, y)
    BY <1>5, <1>7, SetMoves DEF IInv
  <2>3. pass'[l].pc = "save" /\ pass'[l].snap = d.snap /\ pass'[l].v = v /\ pass'[l].row = r
    BY <1>7, <2>2 DEF Moves, Alike
  <2>4. \A m \in Lanes : At(pass', m, r) <=> m = l
    <3>1. ASSUME NEW m \in Lanes, At(pass', m, r)
          PROVE  m = l
      <4>1. m # l => At(pass, m, r)
        BY <2>2, <3>1 DEF Moves, Alike, At, Binding
      <4> QED
        BY <2>1, <4>1 DEF TaskOk, Alone
    <3>2. At(pass', l, r)
      BY <2>3 DEF At, Binding
    <3> QED
      BY <3>1, <3>2
  <2>5. \A m \in Lanes : At(pass, m, r)' <=> m = l
    BY <2>4 DEF At, Binding
  <2>6. ASSUME r \notin excused', NEW h \in Links
        PROVE  TaskAt(r, h)'
    <3>1. TaskAt(r, h) /\ typed'[r][h] = typed[r][h] /\ typed[r][h] \in Nat /\ doc' = doc
      BY <1>2, <1>5, <2>1, <2>6 DEF TaskOk, IInv, TypeOK
    <3>2. IsFiniteSet(Tasks(r, h)) /\ Cardinality(Tasks(r, h)) \in Nat
      BY <1>2, CountType
    <3>3. CASE h = k
      <4>1. Tasks(r, h)' = Tasks(r, h) \cup {v} /\ v \notin Tasks(r, h)
        BY <1>8, <1>10, <2>1, <3>3 DEF Tasks
      <4>2. Cardinality(Tasks(r, h)') = Cardinality(Tasks(r, h)) + 1
        BY <3>2, <4>1, FS_AddElement
      <4>3. Spare(r, h)
        BY <1>1, <1>2, <2>1, <3>1, <3>3 DEF TaskAt
      <4>4. Served(r, h)'
        <5>1. Brings(pass[l], r, h)'
          BY <1>1, <1>10, <2>3, <3>3 DEF Brings
        <5> QED
          BY <2>5, <5>1 DEF Served
      <4> QED
        BY <2>3, <2>5, <3>1, <3>2, <4>2, <4>3, <4>4 DEF TaskAt, Spare
    <3>4. CASE h # k
      <4>1. Tasks(r, h)' = Tasks(r, h)
        BY <1>8, <1>10, <2>1, <3>4 DEF Tasks
      <4>2. Spare(r, h)' <=> Spare(r, h)
        BY <3>1, <4>1 DEF Spare
      <4>3. ~Served(r, h)
        BY <1>1, <2>1, <3>4 DEF Served, Brings
      <4> QED
        BY <2>3, <2>5, <3>1, <4>1, <4>2, <4>3 DEF TaskAt
    <3> QED
      BY <3>3, <3>4
  <2> QED
    BY <2>5, <2>6 DEF TaskOk, Alone
<1>14. \A s \in Rows \ {r} : RowKept(s)
  BY <1>5, <1>10 DEF RowKept
<1>15. Fits(l, y)'
  <2>1. y.v # 0 /\ video'[y.v].status # "none"
    BY <1>7, <1>8, SyncConstants
  <2>2. k # None /\ pass[l].pc \in Listed /\ doc' = doc
    BY <1>1, <1>2, <1>5, SyncConstants DEF Listed, AtARow
  <2> QED
    BY <1>1, <1>2, <1>7, <2>1, <2>2, StayFits DEF AtARow, Holding, Writing, Filling
<1>16. Moves(l, y) /\ Scanning'
  BY <1>1, <1>2, <1>5, <1>7, SetMoves, ScanGoesOn DEF IInv, memVars
<1> QED
  BY <1>1, <1>2, <1>5, <1>7, <1>9, <1>11, <1>12, <1>13, <1>14, <1>15, <1>16, BindKeeps

\* The pass at a row is alone there, and leaves it.
LEMMA LeftAlone ==
    ASSUME IInv, NEW l \in Lanes, NEW y, Moves(l, y), NEW r \in Rows, At(pass, l, r),
           y.pc \notin {"create", "save"}
    PROVE  /\ \A m \in Lanes : At(pass, m, r) => m = l
           /\ \A m \in Lanes : ~At(pass, m, r)'
<1>1. Alone(r)
  BY DEF IInv, TaskInv, TaskOk
<1>2. \A m \in Lanes : At(pass, m, r) => m = l
  BY <1>1 DEF Alone
<1>3. \A m \in Lanes : ~At(pass', m, r)
  BY <1>2 DEF Moves, Alike, At, Binding
<1> QED
  BY <1>2, <1>3 DEF At, Binding

LEMMA SaveRowKeeps ==
    ASSUME IInv, NEW l \in Lanes, NEW ok \in BOOLEAN, SaveRow(l, ok)
    PROVE  IInv'
<1>1. PICK d, r, k : d = pass[l] /\ r = d.row /\ k = d.snap[r].link
  OBVIOUS
<1>2. /\ d \in PassState /\ d.pc = "save" /\ r \in Rows /\ Fits(l, d) /\ k \in Links
      /\ d.v \in Videos /\ Known(d.v)
  <2>1. /\ d \in PassState /\ d.pc = "save" /\ Fits(l, d)
    BY <1>1 DEF SaveRow, IInv, TypeOK
  <2> QED
    BY <1>1, <2>1 DEF Fits, PassState, Known, AtARow, Holding, Listed, DocRow
<1>3. /\ UNCHANGED <<doc, scanState, video, discovery, announced, typed, created, lost>>
      /\ budget' \in Scenarios
  BY Faults DEF SaveRow
<1>4. At(pass, l, r) /\ pass[l].pc \in Listed /\ k # None
  BY <1>1, <1>2, SyncConstants DEF At, Binding, Listed, AtARow, Holding
<1>5. ASSUME NEW y \in PassState, Moves(l, y), Fits(l, y)', y.pc \in {"row", "peek"},
             delivery' \in Deliveries, excused' \subseteq Rows, excused \subseteq excused',
             \/ binding' = [binding EXCEPT ![r] = [v |-> d.v, link |-> k]]
             \/ binding' = binding /\ (d.v \in created[r] => r \in excused')
      PROVE  IInv'
  <2>1. /\ binding' \in [Rows -> [v : Videos \cup {0}, link : Links \cup {None}]]
        /\ \A s \in Rows : s # r => binding'[s] = binding[s]
        /\ binding'[r] = binding[r] \/ (binding'[r].v = d.v /\ binding'[r].link = k)
    BY <1>2, <1>5 DEF IInv, TypeOK
  <2>2. Stores'
    BY <1>3, <1>5, <2>1, LooseTypes DEF Stores, Loose, IInv, TypeOK, Deliveries
  <2>3. Tables'
    <3>1. \A s \in Rows : binding'[s].v # 0 => video'[binding'[s].v].status # "none"
      BY <1>2, <1>3, <2>1 DEF IInv, Tables, Known
    <3> QED
      BY <1>3, <3>1 DEF IInv, Tables, Known, PreviewOnce
  <2>4. /\ \A m \in Lanes : At(pass, m, r) => m = l
        /\ \A m \in Lanes : ~At(pass, m, r)'
    BY <1>2, <1>4, <1>5, LeftAlone
  <2>5. ASSUME r \notin excused', NEW h \in Links
        PROVE  TaskAt(r, h)'
    <3>1. TaskAt(r, h)
      BY <1>2, <1>5, <2>5 DEF IInv, TaskInv, TaskOk
    <3>2. (Spare(r, h)' <=> Spare(r, h)) /\ (Cardinality(Tasks(r, h)) <= typed[r][h])'
      BY <1>3, <3>1 DEF Spare, Tasks, TaskAt
    <3>3. Served(r, h)' <=> binding'[r].v # 0 /\ binding'[r].link = h
      BY <2>4 DEF Served
    <3>4. CASE binding' = [binding EXCEPT ![r] = [v |-> d.v, link |-> k]]
      <4>1. Served(r, h)' <=> h = k
        BY <1>2, <3>3, <3>4, SyncConstants DEF IInv, TypeOK
      <4>2. h # k => ~Served(r, h)
        BY <1>1, <1>4 DEF Served, Brings
      <4> QED
        BY <1>3, <2>4, <3>1, <3>2, <4>1, <4>2 DEF TaskAt
    <3>5. CASE binding' = binding /\ (d.v \in created[r] => r \in excused')
      <4>1. ~Served(r, h)
        BY <1>1, <1>2, <1>4, <2>5, <3>5 DEF Served, Brings
      <4> QED
        BY <1>3, <2>4, <3>1, <3>2, <4>1 DEF TaskAt
    <3> QED
      BY <1>5, <3>4, <3>5
  <2>6. TaskOk(r)'
    BY <2>4, <2>5 DEF TaskOk, Alone
  <2>7. \A s \in Rows \ {r} : RowKept(s)
    BY <1>3, <1>5, <2>1 DEF RowKept
  <2>8. VideosKeep /\ Scanning'
    BY <1>1, <1>2, <1>3, <1>5, ScanGoesOn DEF VideosKeep, Known
  <2> QED
    BY <1>1, <1>2, <1>3, <1>5, <2>2, <2>3, <2>6, <2>7, <2>8, BindKeeps
<1>6. CASE ok /\ ~Claimed(d.v, r)
  <2>1. binding' = [binding EXCEPT ![r] = [v |-> d.v, link |-> k]] /\ Handle(l, d.v) /\ excused' = excused
    BY <1>1, <1>6 DEF SaveRow
  <2>2. /\ \E y \in PassState : Moves(l, y) /\ Fits(l, y)' /\ y.pc \in {"row", "peek"}
        /\ delivery' \in Deliveries
    BY <1>1, <1>2, <1>3, <1>4, <2>1, HandleIs
  <2> QED
    BY <1>5, <2>1, <2>2 DEF IInv, TypeOK
<1>7. CASE ~(ok /\ ~Claimed(d.v, r))
  <2>1. pass' = Set(l, RowFailed(d)) /\ excused' = excused \cup Unbound(d) /\ UNCHANGED <<binding, delivery>>
    BY <1>1, <1>7 DEF SaveRow
  <2>2. PICK y : y = RowFailed(d)
    OBVIOUS
  <2>3. /\ y \in PassState /\ y.pc = "row" /\ y.row = r + 1 /\ y.snap = d.snap
        /\ y.mode = d.mode /\ y.only = d.only
    BY <1>1, <1>2, <2>2, RowFailedIs
  <2>4. Moves(l, y)
    BY <2>1, <2>2, <2>3, SetMoves DEF IInv
  <2>5. Fits(l, y)'
    BY <1>1, <1>3, <1>4, <2>3, RowFits
  <2>6. excused' \subseteq Rows /\ (d.v \in created[r] => r \in excused')
    BY <1>1, <1>2, <2>1 DEF Unbound, IInv, TypeOK
  <2> QED
    BY <1>5, <2>1, <2>3, <2>4, <2>5, <2>6, LooseTypes
<1> QED
  BY <1>6, <1>7

-----------------------------------------------------------------------------
(* A crash, and the whole.                                                 *)

LEMMA CrashKeeps ==
    ASSUME IInv, Crash
    PROVE  IInv'
<1>1. pass' = [l \in Lanes |-> Idle] /\ Idle \in PassState /\ Idle.pc = "idle" /\ Idle.mode = "none"
  BY IdleIs DEF Crash, Idle
<1>2. /\ budget' \in Scenarios /\ UNCHANGED <<doc, scanState, binding, video, typed, created>>
      /\ announced' = {} /\ lost' \subseteq Videos
      /\ excused' = excused \cup UNION {Unbound(pass[l]) : l \in Lanes}
  BY Spent DEF Crash, dbVars, IInv, TypeOK
<1>3. \A l \in Lanes : pass'[l].pc = "idle" /\ pass'[l].mode = "none"
  BY <1>1
<1>4. \A l \in Lanes : Unbound(pass[l]) \subseteq Rows
  BY DEF IInv, Fits, Unbound, AtARow, Holding
<1>5. discovery' \in Discoveries /\ delivery' \in Deliveries
  <2>1. NoWork \in WorkState
    BY DEF NoWork, WorkState
  <2> QED
    BY <2>1 DEF Crash, Discoveries, Deliveries
<1>6. TypeOK'
  BY <1>1, <1>2, <1>4, <1>5 DEF IInv, TypeOK, Discoveries, Deliveries
<1>7. Tables'
  BY <1>2 DEF IInv, Tables, Known, PreviewOnce
<1>8. Scanning' /\ \A l \in Lanes : Fits(l, pass[l])'
  BY <1>3 DEF Scanning, Fits, Listed, AtARow, Holding, Writing, Filling, Lanes
<1>9. ASSUME NEW r \in Rows
      PROVE  TaskOk(r)'
  <2>1. TaskOk(r) /\ \A l \in Lanes : ~At(pass, l, r)'
    BY <1>3 DEF IInv, TaskInv, At, Binding
  <2>2. ASSUME r \notin excused', NEW k \in Links
        PROVE  TaskAt(r, k)'
    <3>1. TaskAt(r, k)
      BY <1>2, <2>1, <2>2 DEF TaskOk
    <3>2. (Spare(r, k)' <=> Spare(r, k)) /\ (Cardinality(Tasks(r, k)) <= typed[r][k])'
      BY <1>2, <3>1 DEF Spare, Tasks, TaskAt
    <3>3. ASSUME doc[r].link = k, ~Served(r, k)'
          PROVE  Spare(r, k)
      <4>1. CASE \E l \in Lanes : At(pass, l, r)
        <5>1. PICK l \in Lanes : At(pass, l, r)
          BY <4>1
        <5>2. pass[l].pc = "create" \/ pass[l].v \notin created[r]
          BY <1>2, <2>2, <5>1 DEF Unbound, At, Binding
        <5>3. CASE Brings(pass[l], r, k)
          BY <3>1, <5>1, <5>2, <5>3 DEF TaskAt, Brings
        <5>4. CASE ~Brings(pass[l], r, k)
          BY <3>1, <3>3, <5>1, <5>4 DEF TaskAt, Served
        <5> QED
          BY <5>3, <5>4
      <4>2. CASE ~\E l \in Lanes : At(pass, l, r)
        <5>1. Served(r, k)' <=> Served(r, k)
          BY <1>2, <2>1, <4>2 DEF Served
        <5> QED
          BY <3>1, <3>3, <5>1 DEF TaskAt
      <4> QED
        BY <4>1, <4>2
    <3> QED
      BY <1>2, <2>1, <3>2, <3>3 DEF TaskAt
  <2> QED
    BY <2>1, <2>2 DEF TaskOk, Alone
<1> QED
  BY <1>6, <1>7, <1>8, <1>9 DEF IInv, TaskInv

LEMMA InitIInv == Init => IInv
<1> SUFFICES ASSUME Init
             PROVE  IInv
  OBVIOUS
<1>1. /\ budget \in Scenarios /\ budget.links \in [Rows -> Links \cup {None}]
      /\ budget.earlier \in Links \cup {None}
  BY SyncConstants DEF Init, Scenarios, Rows
<1>2. \A l \in Lanes : pass[l] = Idle /\ Idle.pc = "idle" /\ Idle.mode = "none"
  BY DEF Init, Idle
<1>3. TypeOK
  <2>1. doc \in [Rows -> DocRow]
    <3>1. NoCopies \in [Videos -> Nat]
      BY DEF NoCopies
    <3>2. \A r \in Rows : [link |-> budget.links[r], text |-> None, copies |-> NoCopies] \in DocRow
      BY <1>1, <3>1 DEF DocRow
    <3> QED
      BY <3>2 DEF Init
  <2>2. video \in [Videos -> VideoState]
    <3>1. [NoVideo EXCEPT !.status = "running", !.link = budget.earlier] \in VideoState
      BY <1>1, IdleIs DEF VideoState
    <3> QED
      BY <3>1, IdleIs DEF Init
  <2>3. discovery \in Discoveries /\ delivery \in Deliveries
    <3>1. NoWork \in WorkState
      BY DEF NoWork, WorkState
    <3> QED
      BY <3>1 DEF Init, Discoveries, Deliveries
  <2>4. pass \in [Lanes -> PassState]
    BY IdleIs DEF Init
  <2>5. typed \in [Rows -> [Links -> Nat]] /\ created \in [Rows -> SUBSET Videos]
    BY DEF Init
  <2>6. scanState = "none" /\ announced = {} /\ lost = {} /\ excused = {}
    BY DEF Init
  <2>7. binding \in [Rows -> [v : Videos \cup {0}, link : Links \cup {None}]]
    BY DEF Init, NoBinding
  <2> QED
    BY <1>2, <2>1, <2>2, <2>3, <2>4, <2>5, <2>6, <2>7 DEF TypeOK, Discoveries, Deliveries
<1>4. Tables
  <2>1. \A v \in Videos : ~Known(v) => video[v].link = None
    BY DEF Init, Known, NoVideo
  <2>2. \A r \in Rows : binding[r].v = 0 /\ created[r] = {} /\ IsFiniteSet(created[r])
    BY FS_EmptySet DEF Init, NoBinding
  <2>3. \A v \in Videos : Known(v) => v = 1
    BY DEF Init, Known, NoVideo
  <2>4. \E n \in Videos \cup {0} : \A v \in Videos : Known(v) => v <= n
    BY <2>3
  <2>5. PreviewOnce
    BY DEF Init, PreviewOnce, NoCopies
  <2> QED
    BY <1>1, <2>1, <2>2, <2>4, <2>5 DEF Tables
<1>5. Scanning /\ \A l \in Lanes : Fits(l, pass[l])
  BY <1>2 DEF Scanning, Fits, Listed, AtARow, Holding, Writing, Filling, Lanes
<1>6. TaskInv
  <2>1. \A r \in Rows, l \in Lanes : ~At(pass, l, r)
    BY <1>2 DEF At, Binding
  <2>2. ASSUME NEW r \in Rows, NEW k \in Links
        PROVE  TaskAt(r, k)
    <3>1. Tasks(r, k) = {} /\ Cardinality(Tasks(r, k)) = 0
      BY FS_EmptySet DEF Init, Tasks
    <3>2. typed[r][k] = IF doc[r].link = k THEN 1 ELSE 0
      BY DEF Init
    <3> QED
      BY <2>1, <3>1, <3>2 DEF TaskAt, Spare
  <2> QED
    BY <2>1, <2>2 DEF TaskInv, TaskOk, Alone
<1> QED
  BY <1>3, <1>4, <1>5, <1>6 DEF IInv

LEMMA StepIInv ==
    ASSUME IInv, NEW l \in Lanes, Step(l)
    PROVE  IInv'
  BY BeginKeeps, ClaimRowKeeps, CreateVideoKeeps, FinishKeeps, ReadRevisionKeeps, WriteTextKeeps,
     PatchPreviewKeeps, ListBlocksKeeps, SaveRowKeeps, PeekKeeps, CheckPreviewKeeps,
     UploadPreviewKeeps, ConfirmPreviewKeeps DEF Step

LEMMA NextIInv == IInv /\ [Next]_vars => IInv'
<1> SUFFICES ASSUME IInv, [Next]_vars
             PROVE  IInv'
  OBVIOUS
<1>1. CASE \E r \in Rows : EditText(r) \/ \E k \in Links \cup {None} : EditLink(r, k)
  BY <1>1, EditTextKeeps, EditLinkKeeps
<1>2. CASE \E v \in Videos : \/ \E x \in Results : Obtain(v, x)
                            \/ Retry(v) \/ Announce(v) \/ StartDelivery(v)
                            \/ \E ok \in BOOLEAN : Connect(v, ok)
  BY <1>2, ObtainKeeps, RetryKeeps, AnnounceKeeps, StartDeliveryKeeps, ConnectKeeps
<1>3. CASE StartManual \/ Poll \/ Pump \/ BackoffEnds \/ Audit \/ Crash
  BY <1>3, StartManualKeeps, PollingKeeps, PumpKeeps, CrashKeeps
<1>4. CASE \E l \in Lanes : Step(l)
  BY <1>4, StepIInv
<1>5. CASE UNCHANGED vars
  <2>1. Apart
    BY <1>5, LooseTypes DEF vars, dbVars, memVars, history, Apart, Loose, IInv, TypeOK
  <2>2. Scanning' /\ UNCHANGED <<doc, pass>>
    BY <1>5 DEF vars, memVars, IInv, Scanning
  <2> QED
    BY <2>1, <2>2, AsideKeeps
<1> QED
  BY <1>1, <1>2, <1>3, <1>4, <1>5 DEF Next

\* The inductive invariant holds in every behaviour of the document's synchronisation.
THEOREM Invariance == Spec => []IInv
  BY InitIInv, NextIInv, PTL DEF Spec

-----------------------------------------------------------------------------
(* The theorems.                                                           *)

\* The variables have their types, however many rows, links and videos there are: in
\* particular a pass that binds, looks or writes has a video.
THEOREM TypeCorrect == Spec => []TypeOK
<1>1. IInv => TypeOK
  BY DEF IInv
<1> QED
  BY <1>1, Invariance, PTL

\* A link that a person put into a row so many times has cost at most so many tasks made
\* for that row, unless the row is excused, and no video's file is attached to a row
\* twice, whatever deliveries, scans, manual calls, retries, edits, faults and crashes
\* there are and however they interleave (product-doc-sync.ts:371-423, docx-file.ts:70).
THEOREM NothingIsMadeTwice == Spec => []NothingTwice
<1>1. IInv => NothingTwice
  BY DEF IInv, TaskInv, TaskOk, TaskAt, Tasks, Tables, NothingTwice, OneTaskPerLink
<1> QED
  BY <1>1, Invariance, PTL

\* What a pass writes stands beside the video's own link, and its text in a cell
\* without text, except for what a person did after the pass had looked at the row
\* (product-doc-sync.ts:225-248, 459-472).
THEOREM RowRespected == Spec => WritesRespectRow
<1>1. IInv /\ [Next]_vars =>
        [\A l \in Lanes :
          /\ pass[l].pc = "text" /\ doc' # doc /\ pass'[l].pc = "check"
             => Beside(l) /\ (doc[pass[l].row].text = None \/ "text" \in pass[l].late)
          /\ pass[l].pc = "patch" /\ doc' # doc /\ pass'[l].pc # "patch" => Beside(l)]_vars
  <2>1. ASSUME IInv, NEW l \in Lanes
        PROVE  /\ pass[l].pc = "text" => Beside(l) /\ (doc[pass[l].row].text = None \/ "text" \in pass[l].late)
               /\ pass[l].pc = "patch" => Beside(l)
    BY <2>1 DEF IInv, Fits, Shows, Beside
  <2> QED
    BY <2>1
<1> QED
  BY <1>1, Invariance, PTL DEF Spec, WritesRespectRow

=============================================================================
