------------------------ MODULE ProductCatalog_proofs ------------------------
(***************************************************************************)
(* Theorems about ProductCatalog: its types, that one lookup at a time is  *)
(* fetching, and that the supplier is asked again only after a refusal.    *)
(***************************************************************************)
EXTENDS ProductCatalog, TLAPS

\* The types of the parts.
PublicType   == [marker : BOOLEAN, receipt : {"none", "ready"} \cup Failures,
                 page : {"none", "match", "other"}, retried : BOOLEAN, recent : BOOLEAN]
SupplierType == [marker : BOOLEAN, receipt : {"none", "data", "refused", "other"},
                 started : BOOLEAN, organized : BOOLEAN]
Results      == {"none", "data", "busy", "rejected", "refused", "other", "lost"}
LookupType   == [pc : PCs, op : {"none", "name", "catalog"},
                 mode : {"first", "recovery", "credit"}, seen : Rows,
                 fresh : BOOLEAN, kept : BOOLEAN, again : BOOLEAN, item : Items, got : Results]
Lookups      == [Workers -> LookupType]

Types ==
    /\ row \in Rows /\ metadata \in Items
    /\ public \in PublicType /\ supplier \in SupplierType /\ worker \in Lookups
    /\ asked \in Nat /\ refused \in Nat /\ runs \in Nat
    /\ deployed \in BOOLEAN /\ fallback \in BOOLEAN /\ faults \in 0 .. MaxFaults

-----------------------------------------------------------------------------
(* The inductive invariant.                                                *)

\* The lookup that holds the claim of the row, until it has marked the fetch; a
\* recovery that still has to mark it may yet come back to the supplier.
Owner(w) ==
    \/ worker[w].pc \in Fetching
    \/ worker[w].pc = "fetched" /\ worker[w].mode # "first"

SingleOwner == \A v, w \in Workers : Owner(v) /\ Owner(w) => v = w

\* What the place a lookup is at entitles it to.
Entitling == {"captured", "ask", "answered", "rename"}
Capturing == {"retry", "capture", "captured"}

Entitled(w) ==
    /\ Owner(w) => row.fetch \in {"requested", "ready"}
    /\ worker[w].pc \in Capturing => public.receipt # "ready"
    /\ worker[w].pc = "captured" => worker[w].got \in {"data"} \cup Failures
    /\ worker[w].pc = "ask" =>
          asked = refused /\ supplier.marker /\ supplier.receipt = "none"
    /\ worker[w].pc = "answered" =>
          /\ worker[w].got \in {"data", "refused", "other", "lost"}
          /\ supplier.marker /\ supplier.receipt = "none"
          /\ worker[w].got = "refused" => asked = refused
    /\ worker[w].pc = "rename" => asked = refused /\ supplier.receipt = "refused"

\* The files of the supplier remember every request that was not refused.
Books ==
    /\ asked \in {refused, refused + 1}
    /\ ~supplier.marker => asked = refused
    /\ supplier.receipt = "refused" => asked = refused

IInv == Types /\ SingleOwner /\ Books /\ \A w \in Workers : Entitled(w)

-----------------------------------------------------------------------------
(* Where a step leaves the lookup it belongs to, and the others.           *)

\* What entitles the other lookups is untouched.
Others(ws, w) ==
    \A v \in Workers \ {w} : /\ ws[v].pc = worker[v].pc
                             /\ ws[v].mode = worker[v].mode
                             /\ ws[v].got = worker[v].got

\* Two functions agree on what entitles.
Agree(ws, vs) ==
    \A v \in Workers : ws[v].pc = vs[v].pc /\ ws[v].mode = vs[v].mode /\ ws[v].got = vs[v].got

LEMMA BecomesActs ==
    ASSUME worker \in Lookups, NEW w \in Workers, NEW l \in LookupType
    PROVE  Becomes(w, l) \in Lookups /\ Becomes(w, l)[w] = l /\ Others(Becomes(w, l), w)
BY DEF Becomes, Lookups, Others

LEMMA GoActs ==
    ASSUME worker \in Lookups, NEW w \in Workers, NEW pc \in PCs
    PROVE  /\ Go(w, pc) \in Lookups /\ Others(Go(w, pc), w)
           /\ Go(w, pc)[w].pc = pc /\ Go(w, pc)[w].mode = worker[w].mode
           /\ Go(w, pc)[w].got = worker[w].got
<1> DEFINE l == [worker[w] EXCEPT !.pc = pc]
<1>1. /\ l \in LookupType
      /\ l.pc = pc /\ l.mode = worker[w].mode /\ l.got = worker[w].got
    BY DEF Lookups, LookupType
<1> HIDE DEF l
<1> QED BY <1>1, BecomesActs DEF Go, l

LEMMA LeaveActs ==
    ASSUME worker \in Lookups, NEW w \in Workers
    PROVE  Leave(w) \in Lookups /\ Others(Leave(w), w) /\ Leave(w)[w].pc = "idle"
<1>1. Idle \in LookupType /\ Idle.pc = "idle"
    BY DEF Idle, NoRow, LookupType, Rows, PCs, Items, Results
<1> QED BY <1>1, BecomesActs DEF Leave

LEMMA AfreshActs ==
    ASSUME NEW l \in LookupType
    PROVE  Afresh(l) \in LookupType /\ Afresh(l).mode = l.mode
BY DEF Afresh, LookupType, Results

LEMMA WithItemActs ==
    ASSUME worker \in Lookups, NEW w \in Workers, NEW item \in Items
    PROVE  /\ WithItem(w, item) \in Lookups /\ Others(WithItem(w, item), w)
           /\ WithItem(w, item)[w].pc \in {"fetched", "reread"}
<1> DEFINE pc == IF worker[w].op = "name" \/ worker[w].mode # "first" THEN "fetched" ELSE "reread"
           l == [Afresh(worker[w]) EXCEPT !.item = item, !.pc = pc]
<1>1. pc \in PCs /\ pc \in {"fetched", "reread"}
    BY DEF PCs
<1>2. Afresh(worker[w]) \in LookupType
    BY AfreshActs DEF Lookups
<1>3. l \in LookupType /\ l.pc = pc
    <2> HIDE DEF pc
    <2> QED BY <1>1, <1>2 DEF LookupType
<1>4. WithItem(w, item) = Becomes(w, l)
    BY DEF WithItem
<1> HIDE DEF l, pc
<1> QED BY <1>1, <1>3, <1>4, BecomesActs

LEMMA PublicFailsActs ==
    ASSUME worker \in Lookups, NEW w \in Workers
    PROVE  /\ PublicFails(w) \in Lookups /\ Others(PublicFails(w), w)
           /\ PublicFails(w)[w].pc \in {"recoveryFailed", "paid", "failFetch"}
<1> DEFINE pc == IF worker[w].mode = "recovery" THEN "recoveryFailed"
                 ELSE IF fallback THEN "paid" ELSE "failFetch"
           l == [Afresh(worker[w]) EXCEPT !.pc = pc]
<1>1. pc \in PCs /\ pc \in {"recoveryFailed", "paid", "failFetch"}
    BY DEF PCs
<1>2. Afresh(worker[w]) \in LookupType
    BY AfreshActs DEF Lookups
<1>3. l \in LookupType /\ l.pc = pc
    <2> HIDE DEF pc
    <2> QED BY <1>1, <1>2 DEF LookupType
<1>4. PublicFails(w) = Becomes(w, l)
    BY DEF PublicFails
<1> HIDE DEF l, pc
<1> QED BY <1>1, <1>3, <1>4, BecomesActs

LEMMA StaleAgrees ==
    ASSUME NEW ws \in Lookups
    PROVE  Stale(ws) \in Lookups /\ Agree(Stale(ws), ws)
BY DEF Stale, Lookups, LookupType, Agree

LEMMA UpdateRowActs ==
    ASSUME NEW matches, NEW written \in Rows, NEW next \in Lookups, row \in Rows,
           UpdateRow(matches, written, next)
    PROVE  /\ row' \in Rows /\ worker' \in Lookups /\ Agree(worker', next)
           /\ row' = IF matches THEN written ELSE row
BY StaleAgrees DEF UpdateRow, Agree

LEMMA NewReceiptActs ==
    ASSUME NEW w \in Workers, NEW kind \in {"ready"} \cup Failures, NEW page \in {"none", "match", "other"},
           NEW next \in Lookups, public \in PublicType, NewReceipt(w, kind, page, next)
    PROVE  /\ public' \in PublicType /\ public'.receipt = kind
           /\ worker' \in Lookups /\ Agree(worker', next)
BY DEF NewReceipt, PublicType, Lookups, LookupType, Agree

-----------------------------------------------------------------------------
(* What a step of one lookup must do to keep the invariant.                *)

\* The step creates an owner only where there is none, lets the row fail only by
\* its owner, and touches the books only as the owner.
StepOf(w) ==
    /\ Types' /\ Books' /\ Entitled(w)'
    /\ Others(worker', w)
    /\ Owner(w)' => Owner(w) \/ row.fetch \notin {"requested", "ready"}
    /\ row'.fetch \in {"requested", "ready"} \/ row'.fetch = row.fetch \/ (Owner(w) /\ ~Owner(w)')
    /\ Owner(w) \/ (/\ asked' = asked /\ refused' = refused /\ public'.receipt = public.receipt
                    /\ supplier'.marker = supplier.marker /\ supplier'.receipt = supplier.receipt)

LEMMA StepKeeps ==
    ASSUME IInv, NEW w \in Workers, StepOf(w)
    PROVE  IInv'
<1> USE DEF IInv
<1>1. ASSUME NEW v \in Workers \ {w}
      PROVE  Owner(v)' <=> Owner(v)
    BY <1>1 DEF StepOf, Others, Owner
<1>2. ASSUME NEW v \in Workers \ {w}, Owner(v)
      PROVE  ~Owner(w) /\ ~Owner(w)'
    BY <1>2 DEF StepOf, SingleOwner, Entitled
<1>3. SingleOwner'
    BY <1>1, <1>2 DEF SingleOwner
<1>4. ASSUME NEW v \in Workers \ {w}
      PROVE  Entitled(v)'
    <2>1. CASE Owner(v)
        <3>1. Entitled(v) /\ ~Owner(w)
            BY <1>2, <1>4, <2>1
        <3> QED BY <1>4, <3>1, <2>1 DEF Entitled, StepOf, Others
    <2>2. CASE ~Owner(v)
        <3>1. ~Owner(v)'
            BY <1>1, <1>4, <2>2
        <3> QED BY <3>1 DEF Entitled, Owner, Fetching, Capturing
    <2> QED BY <2>1, <2>2
<1> QED BY <1>3, <1>4 DEF StepOf

\* A step that touches neither the claim nor the books.
Quiet(w) ==
    /\ Types' /\ Others(worker', w)
    /\ Owner(w)' => Owner(w)
    /\ worker'[w].pc \notin Entitling
    /\ worker'[w].pc \in Capturing => public'.receipt # "ready"
    /\ Owner(w) \/ public'.receipt = public.receipt
    /\ row'.fetch = row.fetch \/ (row.fetch = "requested" /\ row'.fetch = "ready")
    /\ asked' = asked /\ refused' = refused
    /\ supplier'.marker = supplier.marker /\ supplier'.receipt = supplier.receipt

LEMMA QuietKeeps ==
    ASSUME IInv, NEW w \in Workers, Quiet(w)
    PROVE  IInv'
<1>1. Books'
    BY DEF IInv, Books, Quiet
<1>2. Entitled(w)'
    BY DEF IInv, Entitled, Entitling, Quiet
<1>3. StepOf(w)
    BY <1>1, <1>2 DEF StepOf, Quiet
<1> QED BY <1>3, StepKeeps

-----------------------------------------------------------------------------
(* The beginning of a lookup and its claims.                               *)

LEMMA StartKeeps ==
    ASSUME IInv, NEW w \in Workers, StartName(w) \/ StartCatalog(w)
    PROVE  IInv'
<1> DEFINE pc == IF row.fetch = "failed" THEN "recover" ELSE "lookup"
           name == [Idle EXCEPT !.op = "name", !.fresh = row.fetch = "failed", !.pc = pc]
           catalog == [Idle EXCEPT !.op = "catalog", !.seen = row, !.fresh = row.fetch = "failed", !.pc = pc]
<1>1. Types
    BY DEF IInv
<1>2. pc \in PCs /\ pc \in {"recover", "lookup"}
    BY DEF PCs
<1>3. /\ name \in LookupType /\ name.pc = pc
      /\ catalog \in LookupType /\ catalog.pc = pc
    <2>1. row \in Rows
        BY <1>1 DEF Types
    <2> HIDE DEF pc
    <2> QED BY <1>2, <2>1 DEF Idle, NoRow, LookupType, Rows, Items, Results
<1>4. worker' = Becomes(w, name) \/ worker' = Becomes(w, catalog)
    BY DEF StartName, StartCatalog
<1> HIDE DEF pc, name, catalog
<1>5. worker' \in Lookups /\ Others(worker', w) /\ worker'[w].pc \in {"recover", "lookup"}
    BY <1>1, <1>2, <1>3, <1>4, BecomesActs DEF Types
<1>6. Quiet(w)
    BY <1>1, <1>5 DEF StartName, StartCatalog, Quiet, Types, Owner, Fetching, files, history, setting, Entitling, Capturing
<1> QED BY <1>6, QuietKeeps

LEMMA LookupKeeps ==
    ASSUME IInv, NEW w \in Workers, Lookup(w)
    PROVE  IInv'
<1> DEFINE new == worker[w].op = "catalog" /\ worker[w].seen = NoRow
           pc == IF new THEN "claim" ELSE "remember"
           l == [worker[w] EXCEPT !.item = CachedItem, !.pc = pc]
<1>1. Types
    BY DEF IInv
<1>2. pc \in PCs /\ pc \in {"claim", "remember"}
    BY DEF PCs
<1>3. CASE CachedItem \in {"public", "paid"} /\ worker' = Becomes(w, l)
    <2>1. l \in LookupType /\ l.pc = pc
        <3>1. worker[w] \in LookupType
            BY <1>1 DEF Types, Lookups
        <3>2. CachedItem \in Items
            BY <1>3 DEF Items
        <3> HIDE DEF pc
        <3> QED BY <1>2, <3>1, <3>2 DEF LookupType
    <2> HIDE DEF l, pc
    <2>2. worker' \in Lookups /\ Others(worker', w) /\ worker'[w].pc \in {"claim", "remember"}
        BY <1>1, <1>2, <1>3, <2>1, BecomesActs DEF Types
    <2>3. Quiet(w)
        BY <1>1, <2>2 DEF Lookup, Quiet, Types, Owner, Fetching, files, history, setting, Entitling, Capturing
    <2> QED BY <2>3, QuietKeeps
<1>4. CASE worker' = Go(w, "claim") \/ worker' = Leave(w)
    <2>1. worker' \in Lookups /\ Others(worker', w) /\ worker'[w].pc \in {"claim", "idle"}
        BY <1>1, <1>4, GoActs, LeaveActs DEF Types, PCs
    <2>2. Quiet(w)
        BY <1>1, <2>1 DEF Lookup, Quiet, Types, Owner, Fetching, files, history, setting, Entitling, Capturing
    <2> QED BY <2>2, QuietKeeps
<1> QED BY <1>3, <1>4 DEF Lookup

LEMMA ClaimCatalogKeeps ==
    ASSUME IInv, NEW w \in Workers, ClaimCatalog(w)
    PROVE  IInv'
<1> DEFINE written == [row EXCEPT !.fetch = "requested"]
           next == IF worker[w].item # "none" THEN Go(w, "reread")
                   ELSE IF row = NoRow THEN Go(w, "public") ELSE Leave(w)
<1>1. Types
    BY DEF IInv
<1>2. /\ next \in Lookups /\ Others(next, w) /\ next[w].pc \in {"reread", "public", "idle"}
      /\ next[w].pc = "public" => row = NoRow
    BY <1>1, GoActs, LeaveActs DEF Types, PCs
<1>3. written \in Rows /\ written.fetch = "requested"
    BY <1>1 DEF Types, Rows
<1>4. UpdateRow(row = NoRow, written, next)
    BY DEF ClaimCatalog
<1> HIDE DEF written, next
<1>5. /\ row' \in Rows /\ worker' \in Lookups /\ Agree(worker', next)
      /\ row' = IF row = NoRow THEN written ELSE row
    BY <1>1, <1>2, <1>3, <1>4, UpdateRowActs DEF Types
<1>6. /\ Others(worker', w) /\ worker'[w].pc \in {"reread", "public", "idle"}
      /\ worker'[w].pc = "public" => row = NoRow
    BY <1>2, <1>5 DEF Agree, Others
<1>7. Types'
    BY <1>1, <1>5 DEF Types, ClaimCatalog, files, history, setting
<1>8. row = NoRow => row.fetch = "none" /\ row'.fetch = "requested"
    BY <1>3, <1>5 DEF NoRow
<1>9. Books' /\ Entitled(w)'
    BY <1>5, <1>6, <1>8 DEF IInv, Books, Entitled, Owner, Fetching, ClaimCatalog, files, history, Capturing
<1>10. StepOf(w)
    BY <1>5, <1>6, <1>7, <1>8, <1>9 DEF StepOf, Owner, Fetching, ClaimCatalog, files, history
<1> QED BY <1>10, StepKeeps

\* A conditional claim of a failed row, from a place that owns nothing.
LEMMA ReclaimKeeps ==
    ASSUME IInv, NEW w \in Workers, NEW mode \in {"recovery", "credit"}, NEW pc \in {"public", "archive"},
           Reclaim(w, mode, pc), UNCHANGED <<metadata, files, history, setting, faults>>
    PROVE  IInv'
<1> DEFINE written == [row EXCEPT !.fetch = "requested"]
           l == [worker[w] EXCEPT !.mode = mode, !.pc = pc]
           next == IF CanReclaim(w) THEN Becomes(w, l) ELSE Leave(w)
<1>1. Types
    BY DEF IInv
<1>2. l \in LookupType /\ l.pc = pc
    <2>1. pc \in PCs
        BY DEF PCs
    <2> QED BY <1>1, <2>1 DEF Types, Lookups, LookupType
<1>3. written \in Rows /\ written.fetch = "requested"
    BY <1>1 DEF Types, Rows
<1>4. UpdateRow(CanReclaim(w), written, next)
    BY DEF Reclaim
<1> HIDE DEF l, written
<1>5. /\ next \in Lookups /\ Others(next, w)
      /\ next[w].pc = IF CanReclaim(w) THEN pc ELSE "idle"
    BY <1>1, <1>2, BecomesActs, LeaveActs DEF Types
<1> HIDE DEF next
<1>6. /\ row' \in Rows /\ worker' \in Lookups /\ Agree(worker', next)
      /\ row' = IF CanReclaim(w) THEN written ELSE row
    BY <1>1, <1>3, <1>4, <1>5, UpdateRowActs DEF Types
<1>7. /\ Others(worker', w)
      /\ worker'[w].pc = IF CanReclaim(w) THEN pc ELSE "idle"
    BY <1>5, <1>6 DEF Agree, Others
<1>8. Types'
    BY <1>1, <1>6 DEF Types, files, history, setting
<1>9. CanReclaim(w) => row.fetch = "failed" /\ row'.fetch = "requested"
    BY <1>3, <1>6 DEF CanReclaim
<1>10. Books' /\ Entitled(w)'
    BY <1>6, <1>7, <1>9 DEF IInv, Books, Entitled, Owner, Fetching, files, history, Capturing
<1>11. StepOf(w)
    BY <1>6, <1>7, <1>8, <1>9, <1>10 DEF StepOf, Owner, Fetching, files, history
<1> QED BY <1>11, StepKeeps

-----------------------------------------------------------------------------
(* The free public page, which only the owner of the fetch looks at.       *)

LEMMA PageKeeps ==
    ASSUME IInv, NEW w \in Workers, worker[w].pc \in Fetching,
           worker' \in Lookups, Others(worker', w),
           worker'[w].pc \notin Entitling, public' \in PublicType,
           worker'[w].pc \in Capturing => public'.receipt # "ready",
           UNCHANGED <<row, metadata, supplier, history, setting, faults>>
    PROVE  IInv'
<1>1. Quiet(w)
    BY DEF Quiet, IInv, Types, Owner, history, setting
<1> QED BY <1>1, QuietKeeps

LEMMA OpenPublicKeeps ==
    ASSUME IInv, NEW w \in Workers, OpenPublic(w)
    PROVE  IInv'
<1> DEFINE retry == [worker[w] EXCEPT !.pc = "retry", !.kept = TRUE]
           capture == [worker[w] EXCEPT !.pc = "capture", !.again = FALSE]
<1>1. Types
    BY DEF IInv
<1>2. /\ retry \in LookupType /\ retry.pc = "retry"
      /\ capture \in LookupType /\ capture.pc = "capture"
    BY <1>1 DEF Types, Lookups, LookupType, PCs
<1>3. worker[w].pc \in Fetching /\ "ready" \notin Failures
    BY DEF OpenPublic, Fetching, Failures
<1>4. CASE /\ \/ worker' \in {WithItem(w, "public"), PublicFails(w)}
              \/ worker' \in {Becomes(w, retry), Becomes(w, capture)} /\ public.receipt # "ready"
           /\ public' = public \/ public' = [public EXCEPT !.marker = TRUE]
    <2> HIDE DEF retry, capture
    <2>1. /\ worker' \in Lookups /\ Others(worker', w)
          /\ worker'[w].pc \notin Entitling
          /\ worker'[w].pc \in Capturing => public.receipt # "ready"
        BY <1>1, <1>2, <1>4, WithItemActs, PublicFailsActs, BecomesActs DEF Types, Items, Entitling, Capturing
    <2>2. public' \in PublicType /\ public'.receipt = public.receipt
        BY <1>1, <1>4 DEF Types, PublicType
    <2> QED BY <1>3, <2>1, <2>2, PageKeeps DEF OpenPublic
<1>5. CASE NewReceipt(w, "ready", "match", WithItem(w, "public"))
    <2>1. /\ WithItem(w, "public") \in Lookups /\ Others(WithItem(w, "public"), w)
          /\ WithItem(w, "public")[w].pc \notin Entitling \cup Capturing
        BY <1>1, WithItemActs DEF Types, Items, Entitling, Capturing
    <2>2. public' \in PublicType /\ worker' \in Lookups /\ Agree(worker', WithItem(w, "public"))
        BY <1>1, <1>5, <2>1, NewReceiptActs DEF Types
    <2>3. Others(worker', w) /\ worker'[w].pc \notin Entitling \cup Capturing
        BY <2>1, <2>2 DEF Agree, Others
    <2> QED BY <1>3, <2>2, <2>3, PageKeeps DEF OpenPublic
<1> QED BY <1>3, <1>4, <1>5 DEF OpenPublic

LEMMA MarkRetryKeeps ==
    ASSUME IInv, NEW w \in Workers, MarkRetry(w)
    PROVE  IInv'
<1> DEFINE capture == [worker[w] EXCEPT !.pc = "capture", !.again = TRUE]
<1>1. Types
    BY DEF IInv
<1>2. capture \in LookupType /\ capture.pc = "capture"
    BY <1>1 DEF Types, Lookups, LookupType, PCs
<1>3. worker' = Becomes(w, capture) \/ worker' = PublicFails(w)
    BY DEF MarkRetry
<1> HIDE DEF capture
<1>4. /\ worker' \in Lookups /\ Others(worker', w)
      /\ worker'[w].pc \notin Entitling
    BY <1>1, <1>2, <1>3, PublicFailsActs, BecomesActs DEF Types, Entitling
<1>5. public' \in PublicType /\ public'.receipt # "ready"
    BY <1>1 DEF MarkRetry, Types, PublicType, IInv, Entitled, Capturing
<1>6. worker[w].pc \in Fetching
    BY DEF MarkRetry, Fetching
<1> QED BY <1>4, <1>5, <1>6, PageKeeps DEF MarkRetry

LEMMA CapturePageKeeps ==
    ASSUME IInv, NEW w \in Workers, NEW kind \in Pages, CapturePage(w, kind)
    PROVE  IInv'
<1> DEFINE captured == [worker[w] EXCEPT !.pc = "captured", !.got = kind]
<1>1. Types
    BY DEF IInv
<1>2. kind \in Results /\ kind \in {"data"} \cup Failures
    BY CatalogConstants DEF Results, Failures
<1>3. captured \in LookupType /\ captured.pc = "captured" /\ captured.got = kind
    BY <1>1, <1>2 DEF Types, Lookups, LookupType, PCs
<1>4. worker' = Becomes(w, captured)
    BY DEF CapturePage
<1> HIDE DEF captured
<1>5. /\ worker' \in Lookups /\ Others(worker', w)
      /\ worker'[w].pc = "captured" /\ worker'[w].got = kind
    BY <1>1, <1>3, <1>4, BecomesActs DEF Types
<1>6. public' \in PublicType /\ public'.receipt # "ready"
    BY <1>1 DEF CapturePage, Types, PublicType, IInv, Entitled, Capturing
<1>7. Owner(w) /\ row.fetch \in {"requested", "ready"}
    BY DEF CapturePage, Owner, Fetching, IInv, Entitled
<1>8. Types' /\ Books'
    BY <1>5, <1>6 DEF CapturePage, IInv, Types, Books, history, setting
<1>9. Entitled(w)'
    BY <1>2, <1>5, <1>6, <1>7 DEF CapturePage, Entitled
<1>10. StepOf(w)
    BY <1>5, <1>7, <1>8, <1>9 DEF CapturePage, StepOf
<1> QED BY <1>10, StepKeeps

LEMMA AfterFailureActs ==
    ASSUME worker \in Lookups, NEW w \in Workers, NEW kind
    PROVE  /\ AfterFailure(w, kind) \in Lookups /\ Others(AfterFailure(w, kind), w)
           /\ AfterFailure(w, kind)[w].pc \notin Entitling
BY GoActs, PublicFailsActs DEF AfterFailure, PCs, Entitling

\* Both ends of a capture write a receipt.
LEMMA ReceiptKeeps ==
    ASSUME IInv, NEW w \in Workers, worker[w].pc \in Fetching,
           NEW kind \in {"ready"} \cup Failures, NEW page \in {"none", "match", "other"},
           NEW next, next = WithItem(w, "public") \/ (next = AfterFailure(w, kind) /\ kind \in Failures),
           NewReceipt(w, kind, page, next),
           UNCHANGED <<row, metadata, supplier, history, setting, faults>>
    PROVE  IInv'
<1>1. Types
    BY DEF IInv
<1>2. /\ next \in Lookups /\ Others(next, w) /\ next[w].pc \notin Entitling
      /\ next[w].pc \in Capturing => kind \in Failures
    BY <1>1, WithItemActs, AfterFailureActs DEF Types, Items, Entitling, Capturing
<1>3. public' \in PublicType /\ public'.receipt = kind /\ worker' \in Lookups /\ Agree(worker', next)
    BY <1>1, <1>2, NewReceiptActs DEF Types
<1>4. /\ Others(worker', w) /\ worker'[w].pc \notin Entitling
      /\ worker'[w].pc \in Capturing => public'.receipt # "ready"
    BY <1>2, <1>3 DEF Agree, Others, Failures
<1> QED BY <1>3, <1>4, PageKeeps

LEMMA CaptureReceiptKeeps ==
    ASSUME IInv, NEW w \in Workers, CaptureReceipt(w)
    PROVE  IInv'
<1>1. worker[w].pc \in Fetching
    BY DEF CaptureReceipt, Fetching
<1>2. \/ NewReceipt(w, "ready", "match", WithItem(w, "public"))
      \/ worker[w].got \in Failures /\ NewReceipt(w, worker[w].got, "match", AfterFailure(w, worker[w].got))
    BY DEF CaptureReceipt, IInv, Entitled
<1> QED BY <1>1, <1>2, ReceiptKeeps DEF CaptureReceipt

LEMMA CaptureFailsKeeps ==
    ASSUME IInv, NEW w \in Workers, CaptureFails(w)
    PROVE  IInv'
<1> DEFINE page == IF public.page = "none" THEN "none" ELSE "other"
<1>1. worker[w].pc \in Fetching /\ page \in {"none", "match", "other"} /\ "network" \in Failures
    BY DEF CaptureFails, Fetching, Failures
<1>2. NewReceipt(w, "network", page, AfterFailure(w, "network"))
    BY DEF CaptureFails
<1> HIDE DEF page
<1> QED BY <1>1, <1>2, ReceiptKeeps DEF CaptureFails

-----------------------------------------------------------------------------
(* The end of a fetch that failed.                                         *)

\* The owner writes 'failed' and gives the claim up.
LEMMA FailKeeps ==
    ASSUME IInv, NEW w \in Workers, worker[w].pc \in Fetching,
           NEW next \in Lookups, Others(next, w), next[w].pc \in {"idle", "proof"},
           UpdateRow(row.fetch = "requested", [row EXCEPT !.fetch = "failed"], next),
           UNCHANGED <<metadata, files, history, setting, faults>>
    PROVE  IInv'
<1> DEFINE written == [row EXCEPT !.fetch = "failed"]
<1>1. Types
    BY DEF IInv
<1>2. written \in Rows
    BY <1>1 DEF Types, Rows
<1> HIDE DEF written
<1>3. /\ row' \in Rows /\ worker' \in Lookups /\ Agree(worker', next)
    BY <1>1, <1>2, UpdateRowActs DEF Types, written
<1>4. Others(worker', w) /\ worker'[w].pc \in {"idle", "proof"}
    BY <1>3 DEF Agree, Others
<1>5. Types' /\ Books'
    BY <1>1, <1>3 DEF IInv, Types, Books, files, history, setting
<1>6. Owner(w) /\ ~Owner(w)' /\ Entitled(w)'
    BY <1>4 DEF Owner, Entitled, Fetching, Capturing
<1>7. StepOf(w)
    BY <1>4, <1>5, <1>6 DEF StepOf
<1> QED BY <1>7, StepKeeps

LEMMA RecoveryFailsKeeps ==
    ASSUME IInv, NEW w \in Workers, RecoveryFails(w)
    PROVE  IInv'
<1>1. Go(w, "proof") \in Lookups /\ Others(Go(w, "proof"), w) /\ Go(w, "proof")[w].pc = "proof"
    BY GoActs DEF IInv, Types, PCs
<1> QED BY <1>1, FailKeeps DEF RecoveryFails, Fetching

LEMMA FailFetchKeeps ==
    ASSUME IInv, NEW w \in Workers, FailFetch(w)
    PROVE  IInv'
<1>1. Leave(w) \in Lookups /\ Others(Leave(w), w) /\ Leave(w)[w].pc = "idle"
    BY LeaveActs DEF IInv, Types
<1> QED BY <1>1, FailKeeps DEF FailFetch, Fetching

LEMMA FindProofKeeps ==
    ASSUME IInv, NEW w \in Workers, FindProof(w)
    PROVE  IInv'
<1> DEFINE claim == [worker[w] EXCEPT !.pc = "creditClaim", !.fresh = TRUE]
<1>1. Types
    BY DEF IInv
<1>2. claim \in LookupType /\ claim.pc = "creditClaim"
    BY <1>1 DEF Types, Lookups, LookupType, PCs
<1>3. worker' = Becomes(w, claim) \/ worker' = Leave(w)
    BY DEF FindProof
<1> HIDE DEF claim
<1>4. worker' \in Lookups /\ Others(worker', w) /\ worker'[w].pc \in {"creditClaim", "idle"}
    BY <1>1, <1>2, <1>3, BecomesActs, LeaveActs DEF Types
<1>5. Quiet(w)
    BY <1>1, <1>4 DEF FindProof, Quiet, Types, Owner, Fetching, Entitling, files, history, setting, Capturing
<1> QED BY <1>5, QuietKeeps

-----------------------------------------------------------------------------
(* The paid supplier.                                                      *)

\* A step of the owner at the supplier.
LEMMA SupplierKeeps ==
    ASSUME IInv, NEW w \in Workers, worker[w].pc \in Fetching,
           worker' \in Lookups, Others(worker', w),
           supplier' \in SupplierType, asked' \in Nat, refused' \in Nat, Books',
           worker'[w].pc = "ask" => asked' = refused' /\ supplier'.marker /\ supplier'.receipt = "none",
           worker'[w].pc = "answered" =>
              /\ worker'[w].got \in {"data", "refused", "other", "lost"}
              /\ supplier'.marker /\ supplier'.receipt = "none"
              /\ worker'[w].got = "refused" => asked' = refused',
           worker'[w].pc = "rename" => asked' = refused' /\ supplier'.receipt = "refused",
           worker'[w].pc \notin Capturing,
           UNCHANGED <<row, metadata, public, runs, setting, faults>>
    PROVE  IInv'
<1>1. Owner(w) /\ row.fetch \in {"requested", "ready"}
    BY DEF Owner, IInv, Entitled
<1>2. Types'
    BY DEF IInv, Types, setting
<1>3. Entitled(w)'
    BY <1>1 DEF Entitled, Capturing
<1>4. StepOf(w)
    BY <1>1, <1>2, <1>3 DEF StepOf
<1> QED BY <1>4, StepKeeps

LEMMA CheckArchiveKeeps ==
    ASSUME IInv, NEW w \in Workers, CheckArchive(w)
    PROVE  IInv'
<1>1. /\ worker' \in Lookups /\ Others(worker', w) /\ worker'[w].pc \in {"rename", "failFetch"}
      /\ worker'[w].pc = "rename" => CreditRejected
    BY GoActs DEF CheckArchive, IInv, Types, PCs
<1>2. CreditRejected => asked = refused /\ supplier.receipt = "refused"
    BY DEF CreditRejected, IInv, Books
<1>3. worker[w].pc \in Fetching
    BY DEF CheckArchive, Fetching
<1>4. /\ supplier' \in SupplierType /\ asked' \in Nat /\ refused' \in Nat /\ Books'
      /\ UNCHANGED <<row, metadata, public, runs, setting, faults>>
      /\ asked' = asked /\ refused' = refused /\ supplier' = supplier
    BY DEF CheckArchive, IInv, Types, Books, files, history
<1> QED BY <1>1, <1>2, <1>3, <1>4, SupplierKeeps DEF Capturing

LEMMA MoveDirectoryKeeps ==
    ASSUME IInv, NEW w \in Workers, MoveDirectory(w)
    PROVE  IInv'
<1>1. worker' \in Lookups /\ Others(worker', w) /\ worker'[w].pc = "paid"
    BY GoActs DEF MoveDirectory, IInv, Types, PCs
<1>2. worker[w].pc \in Fetching
    BY DEF MoveDirectory, Fetching
<1>3. asked = refused
    BY DEF MoveDirectory, IInv, Entitled
<1>4. supplier' \in SupplierType
    BY DEF MoveDirectory, EmptySupplier, SupplierType
<1>5. /\ asked' \in Nat /\ refused' \in Nat /\ asked' = asked /\ refused' = refused /\ Books'
      /\ UNCHANGED <<row, metadata, public, runs, setting, faults>>
    BY <1>3 DEF MoveDirectory, IInv, Types, Books, history
<1> QED BY <1>1, <1>2, <1>4, <1>5, SupplierKeeps DEF Capturing

LEMMA MarkRequestKeeps ==
    ASSUME IInv, NEW w \in Workers, MarkRequest(w)
    PROVE  IInv'
<1>1. /\ worker' \in Lookups /\ Others(worker', w)
      /\ worker'[w].pc \in {"fetched", "reread", "ask", "failFetch"}
      /\ worker'[w].pc = "ask" => /\ supplier.receipt = "none" /\ ~supplier.marker
                                 /\ supplier' = [supplier EXCEPT !.marker = TRUE]
    BY GoActs, WithItemActs DEF MarkRequest, IInv, Types, PCs, Items
<1>2. worker[w].pc \in Fetching
    BY DEF MarkRequest, Fetching
<1>3. /\ supplier' \in SupplierType
      /\ supplier' = supplier \/ (/\ supplier'.marker /\ supplier'.receipt = supplier.receipt
                                  /\ ~supplier.marker)
    BY DEF MarkRequest, IInv, Types, SupplierType
<1>4. /\ asked' \in Nat /\ refused' \in Nat /\ asked' = asked /\ refused' = refused
      /\ UNCHANGED <<row, metadata, public, runs, setting, faults>>
    BY DEF MarkRequest, IInv, Types, history
<1>5. Books' /\ (~supplier.marker => asked = refused)
    BY <1>3, <1>4 DEF IInv, Books
<1>6. worker'[w].pc = "ask" => asked' = refused' /\ supplier'.marker /\ supplier'.receipt = "none"
    BY <1>1, <1>4, <1>5 DEF IInv, Types, SupplierType
<1> QED BY <1>1, <1>2, <1>3, <1>4, <1>5, <1>6, SupplierKeeps DEF Capturing

LEMMA AskSupplierKeeps ==
    ASSUME IInv, NEW w \in Workers, NEW answer \in Answers, AskSupplier(w, answer)
    PROVE  IInv' /\ asked = refused /\ asked' = asked + 1 /\ refused' \in {refused, refused + 1}
<1> DEFINE l == [worker[w] EXCEPT !.pc = "answered", !.got = answer]
<1>1. Types
    BY DEF IInv
<1>2. answer \in Results /\ answer \in {"data", "refused", "other", "lost"}
    BY CatalogConstants DEF Results
<1>3. l \in LookupType /\ l.pc = "answered" /\ l.got = answer
    BY <1>1, <1>2 DEF Types, Lookups, LookupType, PCs
<1>4. worker' = Becomes(w, l)
    BY DEF AskSupplier
<1> HIDE DEF l
<1>5. worker' \in Lookups /\ Others(worker', w) /\ worker'[w].pc = "answered" /\ worker'[w].got = answer
    BY <1>1, <1>3, <1>4, BecomesActs DEF Types
<1>6. asked = refused /\ supplier.marker /\ supplier.receipt = "none"
    BY DEF AskSupplier, IInv, Entitled
<1>7. /\ asked' = asked + 1 /\ refused' \in {refused, refused + 1} /\ asked \in Nat /\ refused \in Nat
      /\ answer = "refused" => refused' = refused + 1
      /\ supplier' = supplier
      /\ UNCHANGED <<row, metadata, public, runs, setting, faults>>
    BY <1>1 DEF AskSupplier, Types, files
<1>8. Books' /\ asked' \in Nat /\ refused' \in Nat
    <2>1. asked' \in {refused', refused' + 1} /\ asked' \in Nat /\ refused' \in Nat
        <3>1. refused \in Nat /\ asked' = refused + 1
            BY <1>6, <1>7
        <3>2. refused' = refused \/ refused' = refused + 1
            BY <1>7
        <3> QED BY <3>1, <3>2
    <2>2. supplier'.marker /\ supplier'.receipt # "refused"
        BY <1>6, <1>7
    <2> QED BY <2>1, <2>2 DEF Books
<1>9. worker[w].pc \in Fetching
    BY DEF AskSupplier, Fetching
<1>10. supplier' \in SupplierType
    BY <1>1, <1>7 DEF Types
<1>11. IInv'
    BY <1>2, <1>5, <1>6, <1>7, <1>8, <1>9, <1>10, SupplierKeeps DEF Capturing
<1> QED BY <1>6, <1>7, <1>11

LEMMA SaveAnswerKeeps ==
    ASSUME IInv, NEW w \in Workers, SaveAnswer(w)
    PROVE  IInv'
<1> DEFINE failed == [Afresh(worker[w]) EXCEPT !.pc = "failFetch"]
<1>1. Types
    BY DEF IInv
<1>2. failed \in LookupType /\ failed.pc = "failFetch"
    <2>1. Afresh(worker[w]) \in LookupType
        BY <1>1, AfreshActs DEF Types, Lookups
    <2> QED BY <2>1 DEF LookupType, PCs
<1>3. worker' = WithItem(w, "paid") \/ worker' = Becomes(w, failed)
    BY DEF SaveAnswer
<1> HIDE DEF failed
<1>4. worker' \in Lookups /\ Others(worker', w) /\ worker'[w].pc \in {"fetched", "reread", "failFetch"}
    BY <1>1, <1>2, <1>3, WithItemActs, BecomesActs DEF Types, Items
<1>5. /\ worker[w].got \in {"data", "refused", "other", "lost"}
      /\ supplier.marker /\ supplier.receipt = "none"
      /\ worker[w].got = "refused" => asked = refused
    BY DEF SaveAnswer, IInv, Entitled
<1>6. /\ supplier' \in SupplierType /\ supplier'.marker
      /\ supplier'.receipt = "refused" => asked = refused
    BY <1>1, <1>5 DEF SaveAnswer, Types, SupplierType
<1>7. /\ asked' = asked /\ refused' = refused
      /\ UNCHANGED <<row, metadata, public, runs, setting, faults>>
    BY DEF SaveAnswer, history
<1>8. Books' /\ asked' \in Nat /\ refused' \in Nat
    BY <1>1, <1>6, <1>7 DEF IInv, Books, Types
<1>9. worker[w].pc \in Fetching
    BY DEF SaveAnswer, Fetching
<1> QED BY <1>4, <1>6, <1>7, <1>8, <1>9, SupplierKeeps DEF Capturing

-----------------------------------------------------------------------------
(* What follows with a product.                                            *)

\* An UPDATE that leaves the fetch as it is, or ends it.
LEMMA UpdateKeeps ==
    ASSUME IInv, NEW w \in Workers, NEW matches, NEW written \in Rows,
           matches => \/ written.fetch = row.fetch
                      \/ row.fetch = "requested" /\ written.fetch = "ready",
           NEW next \in Lookups, Others(next, w), next[w].pc \notin Fetching \cup {"fetched"},
           UpdateRow(matches, written, next), metadata' \in Items,
           UNCHANGED <<files, history, setting, faults>>
    PROVE  IInv'
<1>1. Types
    BY DEF IInv
<1>2. /\ row' \in Rows /\ worker' \in Lookups /\ Agree(worker', next)
      /\ row' = IF matches THEN written ELSE row
    BY <1>1, UpdateRowActs DEF Types
<1>3. Others(worker', w) /\ worker'[w].pc \notin Fetching \cup {"fetched"}
    BY <1>2 DEF Agree, Others
<1>4. Types'
    BY <1>1, <1>2 DEF Types, files, history, setting
<1>5. ~Owner(w)' /\ worker'[w].pc \notin Entitling \cup Capturing
    BY <1>3 DEF Owner, Fetching, Entitling, Capturing
<1>6. Quiet(w)
    BY <1>2, <1>3, <1>4, <1>5 DEF Quiet, files, history
<1> QED BY <1>6, QuietKeeps

\* A step that leaves the row alone.
LEMMA AloneKeeps ==
    ASSUME IInv, NEW w \in Workers,
           worker' \in Lookups, Others(worker', w), worker'[w].pc \notin Fetching \cup {"fetched"},
           supplier' \in SupplierType, runs' \in Nat,
           supplier'.marker = supplier.marker, supplier'.receipt = supplier.receipt,
           faults' \in 0 .. MaxFaults,
           UNCHANGED <<row, metadata, public, asked, refused, setting>>
    PROVE  IInv'
<1>1. ~Owner(w)' /\ worker'[w].pc \notin Entitling \cup Capturing
    BY DEF Owner, Fetching, Entitling, Capturing
<1>2. Quiet(w)
    BY <1>1 DEF IInv, Types, Quiet, setting
<1> QED BY <1>2, QuietKeeps

LEMMA FetchedType ==
    ASSUME row \in Rows
    PROVE  Fetched(row) \in Rows /\ Fetched(row).fetch = "ready"
BY DEF Fetched, Rows

LEMMA MarkFetchedKeeps ==
    ASSUME IInv, NEW w \in Workers, MarkFetched(w)
    PROVE  IInv'
<1> DEFINE pc == IF worker[w].op = "name" THEN "remember" ELSE "reread"
<1>1. pc \in PCs /\ pc \notin Fetching \cup {"fetched"}
    BY DEF PCs, Fetching
<1>2. UpdateRow(row.fetch = "requested", Fetched(row), Go(w, pc))
    BY DEF MarkFetched
<1> HIDE DEF pc
<1>3. Go(w, pc) \in Lookups /\ Others(Go(w, pc), w) /\ Go(w, pc)[w].pc = pc
    BY <1>1, GoActs DEF IInv, Types
<1>4. Fetched(row) \in Rows /\ Fetched(row).fetch = "ready" /\ metadata' \in Items
    BY FetchedType DEF MarkFetched, IInv, Types
<1> QED BY <1>1, <1>2, <1>3, <1>4, UpdateKeeps DEF MarkFetched

LEMMA RereadKeeps ==
    ASSUME IInv, NEW w \in Workers, Reread(w)
    PROVE  IInv'
<1> DEFINE l == [worker[w] EXCEPT !.seen = row, !.pc = "remember"]
<1>1. Types
    BY DEF IInv
<1>2. l \in LookupType /\ l.pc = "remember"
    BY <1>1 DEF Types, Lookups, LookupType, PCs
<1>3. worker' = Becomes(w, l)
    BY DEF Reread
<1> HIDE DEF l
<1>4. worker' \in Lookups /\ Others(worker', w) /\ worker'[w].pc \notin Fetching \cup {"fetched"}
    BY <1>1, <1>2, <1>3, BecomesActs DEF Types, Fetching
<1> QED BY <1>1, <1>4, AloneKeeps DEF Reread, Types, files, history

LEMMA RememberKeeps ==
    ASSUME IInv, NEW w \in Workers, Remember(w)
    PROVE  IInv'
<1>1. Types /\ metadata' \in Items
    BY DEF IInv, Remember, Types, Lookups, LookupType
<1>2. CASE row' = row /\ worker' = Leave(w)
    <2>1. worker' \in Lookups /\ Others(worker', w) /\ worker'[w].pc \notin Fetching \cup {"fetched"}
        BY <1>1, <1>2, LeaveActs DEF Types, Fetching
    <2>2. Quiet(w)
        BY <1>1, <1>2, <2>1 DEF Remember, Quiet, Types, Owner, Fetching, Entitling, files, history, setting, Capturing
    <2> QED BY <2>2, QuietKeeps
<1>3. CASE UpdateRow(row.fetch = "requested", Fetched(row), Go(w, "organize"))
    <2>1. /\ Go(w, "organize") \in Lookups /\ Others(Go(w, "organize"), w)
          /\ Go(w, "organize")[w].pc \notin Fetching \cup {"fetched"}
        BY <1>1, GoActs DEF Types, PCs, Fetching
    <2>2. Fetched(row) \in Rows /\ Fetched(row).fetch = "ready"
        BY <1>1, FetchedType DEF Types
    <2> QED BY <1>1, <1>3, <2>1, <2>2, UpdateKeeps DEF Remember
<1> QED BY <1>2, <1>3 DEF Remember

LEMMA OrganizeKeeps ==
    ASSUME IInv, NEW w \in Workers, Organize(w)
    PROVE  IInv'
<1> DEFINE mine == row.fetch = "ready" /\ row.analysis = "waiting"
           written == [row EXCEPT !.analysis = "requested"]
           next == IF mine THEN Go(w, "analyze") ELSE Leave(w)
<1>1. Types
    BY DEF IInv
<1>2. CASE row' = row /\ worker' = Go(w, "finish")
    <2>1. worker' \in Lookups /\ Others(worker', w) /\ worker'[w].pc \notin Fetching \cup {"fetched"}
        BY <1>1, <1>2, GoActs DEF Types, PCs, Fetching
    <2> QED BY <1>1, <1>2, <2>1, AloneKeeps DEF Organize, Types, files, history
<1>3. CASE UpdateRow(mine, written, next)
    <2>1. next \in Lookups /\ Others(next, w) /\ next[w].pc \notin Fetching \cup {"fetched"}
        BY <1>1, GoActs, LeaveActs DEF Types, PCs, Fetching
    <2>2. written \in Rows /\ written.fetch = row.fetch
        BY <1>1 DEF Types, Rows
    <2>3. metadata' \in Items /\ UNCHANGED <<files, history, setting, faults>>
        BY <1>1 DEF Organize, Types
    <2> HIDE DEF mine, written, next
    <2> QED BY <1>3, <2>1, <2>2, <2>3, UpdateKeeps
<1> QED BY <1>2, <1>3 DEF Organize

LEMMA ModelKeeps ==
    ASSUME IInv, NEW w \in Workers, Analyze(w) \/ ModelAnswers(w)
    PROVE  IInv'
<1>1. Types
    BY DEF IInv
<1>2. worker' \in Lookups /\ Others(worker', w) /\ worker'[w].pc \notin Fetching \cup {"fetched"}
    <2>1. \E pc \in {"finish", "failAnalysis", "model"} : worker' = Go(w, pc)
        BY DEF Analyze, ModelAnswers
    <2>2. PICK pc \in {"finish", "failAnalysis", "model"} : worker' = Go(w, pc)
        BY <2>1
    <2>3. pc \in PCs /\ pc \notin Fetching \cup {"fetched"}
        BY DEF PCs, Fetching
    <2> QED BY <1>1, <2>2, <2>3, GoActs DEF Types
<1>3. /\ supplier' \in SupplierType /\ runs' \in Nat
      /\ supplier'.marker = supplier.marker /\ supplier'.receipt = supplier.receipt
    <2>1. supplier' \in {supplier, [supplier EXCEPT !.started = TRUE], [supplier EXCEPT !.organized = TRUE]}
        BY DEF Analyze, ModelAnswers
    <2>2. runs' = runs \/ runs' = runs + 1
        BY DEF Analyze, ModelAnswers, history
    <2>3. supplier \in SupplierType /\ runs \in Nat
        BY <1>1 DEF Types
    <2>4. runs' \in Nat
        BY <2>2, <2>3
    <2> QED BY <2>1, <2>3, <2>4 DEF SupplierType
<1>4. faults' \in 0 .. MaxFaults /\ UNCHANGED <<row, metadata, public, asked, refused, setting>>
    BY <1>1 DEF Analyze, ModelAnswers, Types, history
<1> QED BY <1>2, <1>3, <1>4, AloneKeeps

LEMMA EndKeeps ==
    ASSUME IInv, NEW w \in Workers, FinishAnalysis(w) \/ FailAnalysis(w)
    PROVE  IInv'
<1> DEFINE finished == [row EXCEPT !.analysis = "ready", !.result = "own"]
           failed == [row EXCEPT !.analysis = "failed"]
<1>1. Types
    BY DEF IInv
<1>2. /\ finished \in Rows /\ finished.fetch = row.fetch
      /\ failed \in Rows /\ failed.fetch = row.fetch
    BY <1>1 DEF Types, Rows
<1>3. Leave(w) \in Lookups /\ Others(Leave(w), w) /\ Leave(w)[w].pc \notin Fetching \cup {"fetched"}
    BY <1>1, LeaveActs DEF Types, Fetching
<1>4. metadata' \in Items /\ UNCHANGED <<files, history, setting, faults>>
    BY <1>1 DEF FinishAnalysis, FailAnalysis, Types
<1>5. \/ UpdateRow(row.analysis = "requested", finished, Leave(w))
      \/ UpdateRow(row.analysis = "requested", failed, Leave(w))
    BY DEF FinishAnalysis, FailAnalysis
<1> HIDE DEF finished, failed
<1> QED BY <1>2, <1>3, <1>4, <1>5, UpdateKeeps

-----------------------------------------------------------------------------
(* Faults and surroundings.                                                *)

LEMMA AbandonKeeps ==
    ASSUME IInv, NEW w \in Workers, Abandon(w)
    PROVE  IInv'
<1>1. Types
    BY DEF IInv
<1>2. worker' \in Lookups /\ Others(worker', w) /\ worker'[w].pc \notin Fetching \cup {"fetched"}
    BY <1>1, LeaveActs DEF Abandon, Types, Fetching
<1>3. faults' \in 0 .. MaxFaults
    BY <1>1, CatalogConstants DEF Abandon, Types
<1> QED BY <1>1, <1>2, <1>3, AloneKeeps DEF Abandon, Types, files, history

LEMMA StatementFailsKeeps ==
    ASSUME IInv, NEW w \in Workers, StatementFails(w)
    PROVE  IInv'
<1>1. Types
    BY DEF IInv
<1>2. /\ worker' \in Lookups /\ Others(worker', w)
      /\ worker'[w].pc \in {"idle", "recoveryFailed", "failFetch"}
      /\ worker'[w].pc # "idle" => Owner(w)
    BY <1>1, LeaveActs, GoActs DEF StatementFails, Types, PCs, Owner
<1>3. faults' \in 0 .. MaxFaults
    BY <1>1, CatalogConstants DEF StatementFails, Types
<1>4. ~(worker'[w].pc = "idle" /\ Owner(w)')
    BY DEF Owner, Fetching
<1>5. Quiet(w)
    BY <1>1, <1>2, <1>3, <1>4 DEF StatementFails, Quiet, Types, Entitling, files, history, setting, Capturing
<1> QED BY <1>5, QuietKeeps

LEMMA CoolDownKeeps ==
    ASSUME IInv, CoolDown
    PROVE  IInv'
<1>1. public' \in PublicType
    BY DEF CoolDown, IInv, Types, PublicType
<1> QED BY <1>1 DEF CoolDown, IInv, Types, SingleOwner, Books, Entitled, Owner, history, setting

LEMMA DeployKeeps ==
    ASSUME IInv, Deploy
    PROVE  IInv'
<1>1. Idle \in LookupType /\ Idle.pc = "idle"
    BY DEF Idle, NoRow, LookupType, Rows, PCs, Items, Results
<1>2. worker' \in Lookups /\ \A w \in Workers : worker'[w].pc = "idle"
    BY <1>1 DEF Deploy, Lookups
<1>3. \A w \in Workers : ~Owner(w)' /\ Entitled(w)'
    BY <1>2 DEF Owner, Entitled, Fetching, Capturing
<1>4. Types' /\ Books'
    BY <1>2 DEF Deploy, IInv, Types, Books, files, history
<1> QED BY <1>3, <1>4 DEF IInv, SingleOwner

-----------------------------------------------------------------------------
(* The invariant of the specification.                                     *)

LEMMA InitIInv == Init => IInv
<1> SUFFICES ASSUME Init PROVE IInv
    OBVIOUS
<1>1. Idle \in LookupType /\ Idle.pc = "idle"
    BY DEF Idle, NoRow, LookupType, Rows, PCs, Items, Results
<1>2. worker \in Lookups /\ \A w \in Workers : worker[w].pc = "idle"
    BY <1>1 DEF Init, Lookups
<1>3. \A w \in Workers : ~Owner(w) /\ Entitled(w)
    BY <1>2 DEF Owner, Entitled, Fetching, Capturing
<1>4. /\ row \in Rows /\ metadata \in Items
      /\ public \in PublicType /\ supplier \in SupplierType
    BY DEF Init, NoRow, EmptyPublic, EmptySupplier, Rows, PublicType, SupplierType, Items
<1>5. /\ asked = 0 /\ refused = 0 /\ runs = 0 /\ deployed \in BOOLEAN /\ fallback \in BOOLEAN
      /\ faults \in 0 .. MaxFaults
    <2>1. deployed \in BOOLEAN /\ fallback \in BOOLEAN
        BY DEF Init
    <2>2. asked = 0 /\ refused = 0 /\ runs = 0 /\ faults \in 0 .. MaxFaults
        BY CatalogConstants DEF Init
    <2> QED BY <2>1, <2>2
<1>6. Types /\ Books
    BY <1>2, <1>4, <1>5 DEF Types, Books
<1> QED BY <1>3, <1>6 DEF IInv, SingleOwner

LEMMA StepIInv ==
    ASSUME IInv, NEW w \in Workers, Step(w)
    PROVE  IInv'
<1>1. CASE Lookup(w) BY <1>1, LookupKeeps
<1>2. CASE ClaimCatalog(w) BY <1>2, ClaimCatalogKeeps
<1>3. CASE ClaimRecovery(w) BY <1>3, ReclaimKeeps DEF ClaimRecovery
<1>4. CASE OpenPublic(w) BY <1>4, OpenPublicKeeps
<1>5. CASE MarkRetry(w) BY <1>5, MarkRetryKeeps
<1>6. CASE \E kind \in Pages : CapturePage(w, kind) BY <1>6, CapturePageKeeps
<1>7. CASE CaptureReceipt(w) BY <1>7, CaptureReceiptKeeps
<1>8. CASE CaptureFails(w) BY <1>8, CaptureFailsKeeps
<1>9. CASE RecoveryFails(w) BY <1>9, RecoveryFailsKeeps
<1>10. CASE FindProof(w) BY <1>10, FindProofKeeps
<1>11. CASE ClaimCreditRetry(w) BY <1>11, ReclaimKeeps DEF ClaimCreditRetry
<1>12. CASE CheckArchive(w) BY <1>12, CheckArchiveKeeps
<1>13. CASE MoveDirectory(w) BY <1>13, MoveDirectoryKeeps
<1>14. CASE MarkRequest(w) BY <1>14, MarkRequestKeeps
<1>15. CASE \E answer \in Answers : AskSupplier(w, answer) BY <1>15, AskSupplierKeeps
<1>16. CASE SaveAnswer(w) BY <1>16, SaveAnswerKeeps
<1>17. CASE FailFetch(w) BY <1>17, FailFetchKeeps
<1>18. CASE MarkFetched(w) BY <1>18, MarkFetchedKeeps
<1>19. CASE Reread(w) BY <1>19, RereadKeeps
<1>20. CASE Remember(w) BY <1>20, RememberKeeps
<1>21. CASE Organize(w) BY <1>21, OrganizeKeeps
<1>22. CASE Analyze(w) \/ ModelAnswers(w) BY <1>22, ModelKeeps
<1>23. CASE FinishAnalysis(w) \/ FailAnalysis(w) BY <1>23, EndKeeps
<1> QED BY <1>1, <1>2, <1>3, <1>4, <1>5, <1>6, <1>7, <1>8, <1>9, <1>10, <1>11, <1>12, <1>13, <1>14,
           <1>15, <1>16, <1>17, <1>18, <1>19, <1>20, <1>21, <1>22, <1>23 DEF Step, StepInPlace

LEMMA NextIInv == IInv /\ [Next]_vars => IInv'
<1> SUFFICES ASSUME IInv, [Next]_vars PROVE IInv'
    OBVIOUS
<1>1. CASE \E w \in Workers : StartName(w) \/ StartCatalog(w) BY <1>1, StartKeeps
<1>2. CASE \E w \in Workers : Step(w) BY <1>2, StepIInv
<1>3. CASE \E w \in Workers : Abandon(w) BY <1>3, AbandonKeeps
<1>4. CASE \E w \in Workers : StatementFails(w) BY <1>4, StatementFailsKeeps
<1>5. CASE CoolDown BY <1>5, CoolDownKeeps
<1>6. CASE Deploy BY <1>6, DeployKeeps
<1>7. CASE UNCHANGED vars
    BY <1>7 DEF vars, files, history, setting, IInv, Types, SingleOwner, Books, Entitled, Owner
<1> QED BY <1>1, <1>2, <1>3, <1>4, <1>5, <1>6, <1>7 DEF Next

THEOREM Invariance == Spec => []IInv
BY InitIInv, NextIInv, PTL DEF Spec

-----------------------------------------------------------------------------
(* The theorems.                                                           *)

\* The row, the two directories and every lookup stay in their types.
THEOREM TypeCorrect == Spec => []TypeOK
<1>1. IInv => TypeOK
    BY DEF IInv, Types, TypeOK, PublicType, SupplierType, Lookups, LookupType, Results
<1> QED BY <1>1, Invariance, PTL

\* However many processes look a product up, at most one of them is fetching it.
THEOREM OneFetches == Spec => []OneFetcher
<1>1. IInv => OneFetcher
    BY DEF IInv, SingleOwner, Owner, OneFetcher
<1> QED BY <1>1, Invariance, PTL

\* Of one step: only AskSupplier sends a request, and only when all were refused.
LEMMA OnlyAskPays ==
    ASSUME IInv, Next
    PROVE  Ledger!Ask \/ UNCHANGED <<asked, refused>>
<1>1. CASE \E w \in Workers, answer \in Answers : AskSupplier(w, answer)
    BY <1>1, AskSupplierKeeps DEF Ledger!Ask
<1>2. CASE \E w \in Workers : \/ StartName(w) \/ StartCatalog(w) \/ Lookup(w) \/ ClaimCatalog(w)
                             \/ ClaimRecovery(w) \/ FindProof(w) \/ ClaimCreditRetry(w)
    BY <1>2 DEF StartName, StartCatalog, Lookup, ClaimCatalog, ClaimRecovery, FindProof, ClaimCreditRetry,
                history
<1>3. CASE \E w \in Workers : \/ OpenPublic(w) \/ MarkRetry(w) \/ CaptureReceipt(w) \/ CaptureFails(w)
                             \/ RecoveryFails(w) \/ \E kind \in Pages : CapturePage(w, kind)
    BY <1>3 DEF OpenPublic, MarkRetry, CaptureReceipt, CaptureFails, RecoveryFails, CapturePage, history
<1>4. CASE \E w \in Workers : \/ CheckArchive(w) \/ MoveDirectory(w) \/ MarkRequest(w) \/ SaveAnswer(w)
                             \/ FailFetch(w) \/ MarkFetched(w) \/ Reread(w) \/ Remember(w)
    BY <1>4 DEF CheckArchive, MoveDirectory, MarkRequest, SaveAnswer, FailFetch, MarkFetched, Reread,
                Remember, history
<1>5. CASE \E w \in Workers : \/ Organize(w) \/ Analyze(w) \/ ModelAnswers(w) \/ FinishAnalysis(w)
                             \/ FailAnalysis(w) \/ Abandon(w) \/ StatementFails(w)
    BY <1>5 DEF Organize, Analyze, ModelAnswers, FinishAnalysis, FailAnalysis, Abandon, StatementFails, history
<1>6. CASE CoolDown \/ Deploy
    BY <1>6 DEF CoolDown, Deploy, history
<1> QED BY <1>1, <1>2, <1>3, <1>4, <1>5, <1>6 DEF Next, Step, StepInPlace

\* The catalog keeps its promise about the supplier's bill: a request goes out only
\* while every earlier one was refused.
THEOREM ChargedOnce == Spec => ChargedAtMostOnce
<1>1. Init => Ledger!Init
    BY DEF Init, Ledger!Init
<1>2. IInv /\ [Next]_vars => [Ledger!Ask]_(Ledger!vars)
    BY OnlyAskPays DEF vars, history, Ledger!vars
<1> QED BY <1>1, <1>2, Invariance, PTL DEF Spec, ChargedAtMostOnce, Ledger!Spec

\* Of one step: the page changes under its owner, before there is a product, and
\* the supplier's directory is moved away with a refusal in it.
LEMMA ProductStays ==
    ASSUME IInv, Next
    PROVE  /\ public.receipt = "ready" => public'.receipt = "ready" /\ public'.page = public.page
           /\ supplier.receipt = "data" => supplier'.receipt = "data" /\ asked' = asked
<1> USE DEF history, files
<1>1. public \in PublicType /\ supplier \in SupplierType
    BY DEF IInv, Types
<1>2. CASE \E w \in Workers : \/ StartName(w) \/ StartCatalog(w) \/ Lookup(w) \/ ClaimCatalog(w)
                             \/ ClaimRecovery(w) \/ FindProof(w) \/ ClaimCreditRetry(w) \/ RecoveryFails(w)
                             \/ CheckArchive(w) \/ FailFetch(w) \/ MarkFetched(w) \/ Reread(w) \/ Remember(w)
    BY <1>2 DEF StartName, StartCatalog, Lookup, ClaimCatalog, ClaimRecovery, FindProof, ClaimCreditRetry,
                RecoveryFails, CheckArchive, FailFetch, MarkFetched, Reread, Remember
<1>3. CASE \E w \in Workers : OpenPublic(w)
    BY <1>1, <1>3 DEF OpenPublic, Reparsed, NewReceipt, Failures, PublicType
<1>4. CASE \E w \in Workers : \/ MarkRetry(w) \/ CaptureReceipt(w) \/ CaptureFails(w)
                             \/ \E kind \in Pages : CapturePage(w, kind)
    <2>1. PICK w \in Workers : \/ MarkRetry(w) \/ CaptureReceipt(w) \/ CaptureFails(w)
                             \/ \E kind \in Pages : CapturePage(w, kind)
        BY <1>4
    <2>2. worker[w].pc \in Capturing
        BY <2>1 DEF MarkRetry, CaptureReceipt, CaptureFails, CapturePage, Capturing
    <2>3. public.receipt # "ready"
        BY <2>2 DEF IInv, Entitled
    <2> QED BY <2>1, <2>3 DEF MarkRetry, CaptureReceipt, CaptureFails, CapturePage
<1>5. CASE \E w \in Workers : MoveDirectory(w) \/ SaveAnswer(w) \/ \E answer \in Answers : AskSupplier(w, answer)
    <2>1. PICK w \in Workers : MoveDirectory(w) \/ SaveAnswer(w) \/ \E answer \in Answers : AskSupplier(w, answer)
        BY <1>5
    <2>2. worker[w].pc \in {"rename", "ask", "answered"}
        BY <2>1 DEF MoveDirectory, SaveAnswer, AskSupplier
    <2>3. supplier.receipt # "data"
        BY <2>2 DEF IInv, Entitled
    <2> QED BY <2>1, <2>3 DEF MoveDirectory, SaveAnswer, AskSupplier
<1>6. CASE \E w \in Workers : MarkRequest(w) \/ Analyze(w) \/ ModelAnswers(w)
    BY <1>1, <1>6 DEF MarkRequest, Analyze, ModelAnswers, SupplierType
<1>7. CASE \E w \in Workers : \/ Organize(w) \/ FinishAnalysis(w) \/ FailAnalysis(w)
                             \/ Abandon(w) \/ StatementFails(w)
    BY <1>7 DEF Organize, FinishAnalysis, FailAnalysis, Abandon, StatementFails
<1>8. CASE CoolDown \/ Deploy
    BY <1>1, <1>8 DEF CoolDown, Deploy, PublicType
<1> QED BY <1>2, <1>3, <1>4, <1>5, <1>6, <1>7, <1>8 DEF Next, Step, StepInPlace

\* A product that was saved is never replaced, nor paid for again.
THEOREM ProductKept == Spec => SavedProductIsKept
<1> DEFINE Kept == /\ public.receipt = "ready" => public'.receipt = "ready" /\ public'.page = public.page
                   /\ supplier.receipt = "data" => supplier'.receipt = "data" /\ asked' = asked
<1>1. IInv /\ [Next]_vars => [Kept]_vars
    BY ProductStays
<1> QED BY <1>1, Invariance, PTL DEF Spec, SavedProductIsKept
=============================================================================
