------------------------- MODULE FeishuDelivery_proofs -------------------------
(***************************************************************************)
(* Theorems about FeishuDelivery: its types, the budget of paid subtitle   *)
(* requests, what a write may replace, when a job is deleted, and that the *)
(* file of a pending delivery is kept.                                     *)
(***************************************************************************)
EXTENDS FeishuDelivery, FiniteSetTheorems, TLAPS

Stages == [Videos -> [Numbers -> {"none", "running", "stale", "completed", "failed"}]]
Events == Fields \cup {"click", "restart"}

-----------------------------------------------------------------------------
(* The inductive invariant.                                                *)

\* Only the video of the last click has a job; what is being pruned has none, and never
\* gets one again; the rows agree with what was done to the video.
Belongs(v) ==
    /\ job[v].on => row.owner = v /\ prune[v] = "no"
    /\ video[v].status = "none" =>
          ~job[v].on /\ prune[v] = "no" /\ v \notin early /\ asking[v] = 0
    /\ video[v].status \in {"running"} \cup Terminal => video[v].n # 0
    /\ job[v].on /\ "file" \in video[v].has => disk[v]
    /\ "file" \in video[v].has /\ (prune[v] = "released" \/ ~disk[v]) => v \in crossed

\* Each request under way, like each that was paid, has left a marker of its own.
Asking(v, n) == {p \in Processes : proc[p].pc = "ask" /\ proc[p].v = v /\ proc[p].n = n}
Marked(v, n) == paid[v][n] + Cardinality(Asking(v, n)) <= markers[v][n]

\* What the delivery has yet to write, or will not write, is known to it.
FileIsIn(d, full)     == "file" \in d.has => "file" \in full \/ d.filePending
SubtitleIsIn(d, full) == d.done /\ "speech" \in d.has => "subtitle" \in full \/ d.subtitlePending
TextIsIn(d, full)     == d.has \cap {"speech", "translation"} \subseteq full

Asks == {"subtitle", "reserve", "ask"}
Sound(d, full) ==
    /\ d.seen \cup d.filled \subseteq full
    /\ d.pc # "idle" /\ d.goal # "early" => d.n # 0
    /\ d.goal # "final" => d.pc \in {"read", "verify", "put"}
    /\ d.pc \in Asks => d.subtitlePending
    /\ d.pc \notin {"idle", "check", "upload"} /\ d.goal = "final" =>
          /\ FileIsIn(d, full)
          /\ (d.subtitle /\ d.pc # "settle") \/ SubtitleIsIn(d, full)
    /\ d.pc = "settle" => TextIsIn(d, full)

\* What happened since the delivery looked at the row, the job and the attempt.
RowKnown(p) ==
    LET d == proc[p] IN
    /\ Filled \ d.filled \subseteq unseen[p]
    /\ d.v = row.owner \/ "click" \in unseen[p]
AttemptKnown(p) == Current(proc[p].v, proc[p].n) \/ "restart" \in unseen[p]

Held(p) ==
    /\ Sound(proc[p], Filled)
    /\ proc[p].pc # "idle" => video[proc[p].v].status # "none"
    /\ proc[p].pc \in {"verify", "put"} => RowKnown(p)
    /\ proc[p].pc = "put" => AttemptKnown(p)

IInv ==
    /\ TypeOK
    /\ \A v \in Videos : Belongs(v) /\ \A n \in Numbers : Marked(v, n)
    /\ \A p \in Processes : Held(p)

-----------------------------------------------------------------------------
(* What a step leaves alone.                                               *)

\* The delivery of p sees its row and its video keep, or learns of what happened.
LEMMA HeldKept ==
    ASSUME TypeOK, NEW p \in Processes, Held(p), proc'[p] = proc[p],
           \A f \in Fields : cell[f] # None => cell'[f] # None,
           \A f \in Fields : cell'[f] # None => cell[f] # None \/ f \in unseen'[p],
           unseen[p] \subseteq unseen'[p],
           row'.owner = row.owner \/ "click" \in unseen'[p],
           LET w == proc[p].v IN
           video[w].status # "none" =>
               /\ video'[w].status # "none"
               /\ \A n : Current(w, n) => Current(w, n)' \/ "restart" \in unseen'[p]
    PROVE  Held(p)'
<1> DEFINE d == proc[p]
<1>1. d \in Delivery /\ d.v \in Videos /\ d.has \subseteq Results
    BY DEF TypeOK, Delivery
<1>2. Filled \subseteq Filled' /\ Filled' \subseteq Filled \cup unseen'[p]
    BY DEF Filled
<1>3. Sound(d, Filled) => Sound(d, Filled')
    BY <1>2 DEF Sound, FileIsIn, SubtitleIsIn, TextIsIn
<1>4. RowKnown(p) => RowKnown(p)'
    BY <1>2 DEF RowKnown
<1>5. video[d.v].status # "none" /\ AttemptKnown(p) => AttemptKnown(p)'
    BY DEF AttemptKnown
<1> QED BY <1>3, <1>4, <1>5 DEF Held

LEMMA AsksFinite ==
    ASSUME MaxProcesses \in Nat, NEW S, S \subseteq Processes
    PROVE  IsFiniteSet(S) /\ Cardinality(S) \in Nat
<1>1. IsFiniteSet(Processes)
    BY FS_Interval DEF Processes
<1> QED BY <1>1, FS_Subset, FS_CardinalityType

LEMMA OneMore ==
    ASSUME NEW S, NEW T, NEW x, IsFiniteSet(S), Cardinality(S) \in Nat, T \subseteq S \cup {x}
    PROVE  Cardinality(T) \in Nat /\ Cardinality(T) <= Cardinality(S) + 1
<1>1. IsFiniteSet(S \cup {x}) /\ Cardinality(S \cup {x}) <= Cardinality(S) + 1
    BY FS_AddElement
<1>2. /\ Cardinality(T) <= Cardinality(S \cup {x})
      /\ Cardinality(T) \in Nat /\ Cardinality(S \cup {x}) \in Nat
    BY <1>1, FS_Subset, FS_CardinalityType
<1> QED BY <1>1, <1>2

LEMMA OneLess ==
    ASSUME NEW S, NEW T, NEW x \in S, IsFiniteSet(S), Cardinality(S) \in Nat, T \subseteq S \ {x}
    PROVE  Cardinality(T) \in Nat /\ Cardinality(T) + 1 <= Cardinality(S)
<1>1. IsFiniteSet(S \ {x}) /\ Cardinality(S \ {x}) = Cardinality(S) - 1
    BY FS_RemoveElement
<1>2. /\ Cardinality(T) <= Cardinality(S \ {x})
      /\ Cardinality(T) \in Nat /\ Cardinality(S \ {x}) \in Nat
    BY <1>1, FS_Subset, FS_CardinalityType
<1> QED BY <1>1, <1>2

\* No request begins.
LEMMA MarkedKept ==
    ASSUME TypeOK, NEW v \in Videos, NEW n \in Numbers, Marked(v, n),
           UNCHANGED <<markers, paid>>,
           \A p \in Processes : proc'[p].pc = "ask" => proc'[p] = proc[p]
    PROVE  Marked(v, n)'
<1>1. Asking(v, n)' \subseteq Asking(v, n)
    BY DEF Asking
<1>2. Asking(v, n) \subseteq Processes /\ Asking(v, n)' \subseteq Processes
    BY DEF Asking
<1>3. /\ Cardinality(Asking(v, n)') <= Cardinality(Asking(v, n))
      /\ Cardinality(Asking(v, n)') \in Nat /\ Cardinality(Asking(v, n)) \in Nat
    BY <1>1, <1>2, AsksFinite, FS_Subset, DeliveryConstants
<1>4. markers[v][n] \in Nat /\ paid[v][n] \in Nat
    <2>1. markers[v] \in [Numbers -> 0 .. SubtitleRequests] /\ paid[v] \in [Numbers -> Nat]
        BY DEF TypeOK
    <2> QED BY <2>1 DEF SubtitleRequests
<1> QED BY <1>3, <1>4 DEF Marked

\* A row of a video goes on; it may have news of its attempt for the deliveries.
GoesOn(v) ==
    video[v].status # "none" =>
        /\ video'[v].status # "none"
        /\ video[v].status # "queued" => video'[v].status # "queued" /\ video'[v].n = video[v].n

\* Steps beside the row and the deliveries.
LEMMA AsideKeeps ==
    ASSUME IInv, UNCHANGED <<cell, markers, paid, proc, unseen>>, row'.owner = row.owner,
           \A v \in Videos : GoesOn(v) /\ Belongs(v)', TypeOK'
    PROVE  IInv'
<1>1. ASSUME NEW v \in Videos, NEW n \in Numbers PROVE Marked(v, n)'
    BY <1>1, MarkedKept DEF IInv
<1>2. ASSUME NEW p \in Processes PROVE Held(p)'
    <2>1. proc[p].v \in Videos
        BY DEF IInv, TypeOK, Delivery
    <2> QED BY <2>1, HeldKept DEF IInv, GoesOn, Current
<1> QED BY <1>1, <1>2 DEF IInv

\* Only the row of v changes, to r.
LEMMA VideoActs ==
    ASSUME TypeOK, NEW v \in Videos, NEW r \in VideoRow, video' = [video EXCEPT ![v] = r]
    PROVE  /\ video' \in [Videos -> VideoRow] /\ video'[v] = r
           /\ \A w \in Videos \ {v} : video'[w] = video[w]
BY DEF TypeOK

\* A video has new results, or its attempt begins or ends.
LEMMA VideoKeeps ==
    ASSUME IInv, NEW v \in Videos, NEW r \in VideoRow, video' = [video EXCEPT ![v] = r],
           GoesOn(v), Belongs(v)', UNCHANGED <<rowVars, paidVars, job, prune, proc, unseen>>,
           stage' \in Stages,
           asking' \in [Videos -> 0 .. MaxAttempts],
           \A w \in Videos \ {v} : asking'[w] = asking[w], early' \subseteq early \cup {v},
           disk' = disk \/ disk' = [disk EXCEPT ![v] = TRUE],
           crossed' = crossed \/ crossed' = crossed \cup {v} \/ crossed' = crossed \ {v}
    PROVE  IInv'
<1>1. TypeOK
    BY DEF IInv
<1>2. /\ video' \in [Videos -> VideoRow] /\ video'[v] = r
      /\ \A w \in Videos \ {v} : video'[w] = video[w]
    BY <1>1, VideoActs
<1>3. /\ disk' \in [Videos -> BOOLEAN] /\ crossed' \subseteq Videos
      /\ \A w \in Videos \ {v} : disk'[w] = disk[w] /\ (w \in crossed' <=> w \in crossed)
    BY <1>1 DEF TypeOK
<1>4. TypeOK'
    BY <1>1, <1>2, <1>3 DEF TypeOK, Stages, rowVars, paidVars
<1>5. ASSUME NEW w \in Videos, w # v PROVE GoesOn(w) /\ Belongs(w)'
    BY <1>2, <1>3, <1>5 DEF IInv, GoesOn, Belongs, rowVars
<1> QED BY <1>4, <1>5, AsideKeeps DEF rowVars, paidVars

-----------------------------------------------------------------------------
(* The attempts of a video.                                                *)

LEMMA StartAttemptKeeps ==
    ASSUME IInv, NEW v \in Videos, StartAttempt(v)
    PROVE  IInv'
<1> DEFINE r == [video[v] EXCEPT !.status = "running", !.n = @ + 1]
<1>1. TypeOK /\ video[v] \in VideoRow /\ Belongs(v)
    BY DEF IInv, TypeOK
<1>2. /\ r \in VideoRow /\ r.status = "running" /\ r.n # 0 /\ r.has = video[v].has
    <2>1. video[v].n + 1 \in 0 .. MaxAttempts /\ video[v].n + 1 # 0
        BY <1>1, DeliveryConstants DEF VideoRow, StartAttempt
    <2> QED BY <1>1, <2>1 DEF VideoRow
<1>3. video' = [video EXCEPT ![v] = r]
    BY <1>1 DEF StartAttempt, TypeOK
<1> HIDE DEF r
<1>4. video'[v] = r
    BY <1>1, <1>2, <1>3, VideoActs
<1>5. GoesOn(v) /\ Belongs(v)'
    BY <1>1, <1>2, <1>4 DEF StartAttempt, GoesOn, Belongs, rowVars, mediaVars
<1> QED BY <1>1, <1>2, <1>3, <1>5, VideoKeeps DEF StartAttempt, TypeOK, Stages, rowVars, mediaVars

LEMMA TranscribeKeeps ==
    ASSUME IInv, NEW v \in Videos, Transcribe(v)
    PROVE  IInv'
<1> DEFINE r == [video[v] EXCEPT !.has = @ \cup {"speech"}]
<1>1. TypeOK /\ video[v] \in VideoRow /\ Belongs(v)
    BY DEF IInv, TypeOK
<1>2. /\ r \in VideoRow /\ r.status = "running" /\ r.n = video[v].n
      /\ r.has = video[v].has \cup {"speech"} /\ video[v].status = "running"
    BY <1>1 DEF VideoRow, Transcribe, Results, Fields
<1>3. video' = [video EXCEPT ![v] = r]
    BY <1>1 DEF Transcribe, TypeOK
<1> HIDE DEF r
<1>4. video'[v] = r
    BY <1>1, <1>2, <1>3, VideoActs
<1>5. GoesOn(v) /\ Belongs(v)'
    BY <1>1, <1>2, <1>4 DEF Transcribe, GoesOn, Belongs, rowVars, mediaVars
<1> QED BY <1>1, <1>2, <1>3, <1>5, VideoKeeps DEF Transcribe, TypeOK, Stages, rowVars, mediaVars

LEMMA DownloadKeeps ==
    ASSUME IInv, NEW v \in Videos, Download(v)
    PROVE  IInv'
<1> DEFINE r == [video[v] EXCEPT !.has = @ \cup {"file"}]
<1>1. TypeOK /\ video[v] \in VideoRow /\ Belongs(v)
    BY DEF IInv, TypeOK
<1>2. /\ r \in VideoRow /\ r.status = "running" /\ r.n = video[v].n
      /\ video[v].status = "running"
    BY <1>1 DEF VideoRow, Download, Results, Fields
<1>3. video' = [video EXCEPT ![v] = r]
    BY <1>1 DEF Download, TypeOK
<1> HIDE DEF r
<1>4. video'[v] = r /\ disk'[v]
    BY <1>1, <1>2, <1>3, VideoActs DEF Download, TypeOK
<1>5. GoesOn(v) /\ Belongs(v)'
    BY <1>1, <1>2, <1>4 DEF Download, GoesOn, Belongs, rowVars, mediaVars, Terminal
<1> QED BY <1>1, <1>2, <1>3, <1>5, VideoKeeps DEF Download, TypeOK, Stages, rowVars, mediaVars

LEMMA EndAttemptKeeps ==
    ASSUME IInv, NEW v \in Videos, NEW ok \in BOOLEAN, EndAttempt(v, ok)
    PROVE  IInv'
<1> DEFINE r == [video[v] EXCEPT !.status = IF ok THEN "completed" ELSE "failed"]
<1>1. TypeOK /\ video[v] \in VideoRow /\ Belongs(v)
    BY DEF IInv, TypeOK
<1>2. /\ r \in VideoRow /\ r.status \in Terminal /\ r.n = video[v].n /\ r.has = video[v].has
      /\ video[v].status = "running"
    BY <1>1 DEF VideoRow, EndAttempt, Terminal
<1>3. video' = [video EXCEPT ![v] = r]
    BY <1>1 DEF EndAttempt, TypeOK
<1> HIDE DEF r
<1>4. video'[v] = r
    BY <1>1, <1>2, <1>3, VideoActs
<1>5. GoesOn(v) /\ Belongs(v)'
    BY <1>1, <1>2, <1>4 DEF EndAttempt, GoesOn, Belongs, rowVars, mediaVars, Terminal
<1> QED BY <1>1, <1>2, <1>3, <1>5, VideoKeeps DEF EndAttempt, TypeOK, Stages, rowVars, mediaVars

LEMMA StageActs ==
    ASSUME TypeOK, NEW v \in Videos, NEW n, NEW s \in {"running", "stale", "completed", "failed"},
           stage' = [stage EXCEPT ![v][n] = s]
    PROVE  stage' \in Stages
BY DEF TypeOK, Stages

LEMMA AskingActs ==
    ASSUME TypeOK
    PROVE  /\ asking \in [Videos -> 0 .. MaxAttempts]
           /\ \A v \in Videos : \A n \in {0} \cup (0 .. MaxAttempts) :
                 LET a == [asking EXCEPT ![v] = n] IN
                 /\ a \in [Videos -> 0 .. MaxAttempts]
                 /\ a[v] = n /\ \A w \in Videos \ {v} : a[w] = asking[w]
<1>1. 0 \in 0 .. MaxAttempts
    BY DeliveryConstants
<1> QED BY <1>1 DEF TypeOK

\* A translation is asked for, lost, or no longer waited for: the rows of the videos stay.
LEMMA StageKeeps ==
    ASSUME IInv, NEW v \in Videos,
           Translate(v) \/ TranslationLost(v) \/ \E n \in Numbers : AgeStage(v, n)
    PROVE  IInv'
<1>1. TypeOK /\ video[v] \in VideoRow /\ video[v].n \in 0 .. MaxAttempts
    BY DEF IInv, TypeOK, VideoRow
<1>2. /\ stage' \in Stages /\ asking' \in [Videos -> 0 .. MaxAttempts]
      /\ \A w \in Videos \ {v} : asking'[w] = asking[w]
    <2>1. /\ \/ stage' = stage
             \/ \E n : \E s \in {"running", "stale"} : stage' = [stage EXCEPT ![v][n] = s]
          /\ \/ asking' = asking
             \/ \E n \in {0} \cup (0 .. MaxAttempts) : asking' = [asking EXCEPT ![v] = n]
        BY <1>1 DEF Translate, TranslationLost, AgeStage
    <2>2. stage' \in Stages
        BY <1>1, <2>1, StageActs DEF TypeOK, Stages
    <2> QED BY <1>1, <2>1, <2>2, AskingActs
<1>3. UNCHANGED <<video, early, job, rowVars, paidVars, mediaVars, proc, unseen>>
    BY DEF Translate, TranslationLost, AgeStage
<1>4. video' = [video EXCEPT ![v] = video[v]] /\ GoesOn(v) /\ Belongs(v)'
    <2>1. asking'[v] = 0 \/ video[v].status # "none"
        BY <1>1 DEF Translate, TranslationLost, AgeStage, IInv, TypeOK, Belongs, Terminal
    <2> QED BY <1>1, <1>3, <2>1 DEF IInv, TypeOK, GoesOn, Belongs, rowVars, mediaVars
<1> QED BY <1>1, <1>2, <1>3, <1>4, VideoKeeps DEF mediaVars

LEMMA TranslationEndsKeeps ==
    ASSUME IInv, NEW v \in Videos, NEW ok \in BOOLEAN, TranslationEnds(v, ok)
    PROVE  IInv'
<1> DEFINE r == [video[v] EXCEPT !.has = @ \cup {"translation"}]
<1>1. TypeOK /\ video[v] \in VideoRow /\ Belongs(v)
    BY DEF IInv, TypeOK
<1>2. /\ r \in VideoRow /\ r.status = video[v].status /\ r.n = video[v].n
      /\ r.has = video[v].has \cup {"translation"}
    BY <1>1 DEF VideoRow, Results, Fields
<1>3. /\ stage' \in Stages /\ asking' \in [Videos -> 0 .. MaxAttempts]
      /\ asking'[v] = 0 /\ \A w \in Videos \ {v} : asking'[w] = asking[w]
    <2>1. /\ \/ stage' = stage
             \/ \E n : \E s \in {"completed", "failed"} : stage' = [stage EXCEPT ![v][n] = s]
          /\ asking' = [asking EXCEPT ![v] = 0]
        BY DEF TranslationEnds
    <2>2. stage' \in Stages
        BY <1>1, <2>1, StageActs DEF TypeOK, Stages
    <2> QED BY <1>1, <2>1, <2>2, AskingActs
<1>4. UNCHANGED <<job, rowVars, paidVars, mediaVars, proc, unseen, budget>>
    BY DEF TranslationEnds
<1>5. CASE UNCHANGED <<video, early>>
    <2>1. video' = [video EXCEPT ![v] = video[v]] /\ GoesOn(v) /\ Belongs(v)'
        BY <1>1, <1>3, <1>4, <1>5 DEF TypeOK, GoesOn, Belongs, rowVars, mediaVars
    <2> QED BY <1>1, <1>3, <1>4, <1>5, <2>1, VideoKeeps DEF mediaVars
<1>6. CASE video' = [video EXCEPT ![v] = r] /\ early' = early \cup {v} /\ video[v].status # "none"
    <2> HIDE DEF r
    <2>1. video'[v] = r
        BY <1>1, <1>2, <1>6, VideoActs
    <2>2. GoesOn(v) /\ Belongs(v)'
        BY <1>1, <1>2, <1>4, <1>6, <2>1 DEF GoesOn, Belongs, rowVars, mediaVars
    <2> QED BY <1>2, <1>3, <1>4, <1>6, <2>2, VideoKeeps DEF mediaVars
<1>7. video[v].status # "none"
    BY <1>1 DEF TranslationEnds, Belongs
<1> QED BY <1>1, <1>5, <1>6, <1>7 DEF TranslationEnds, TypeOK

-----------------------------------------------------------------------------
(* Jobs and the pruning of files.                                          *)

LEMMA JobTypes ==
    ASSUME NEW j \in JobRow, NEW reason \in Pauses
    PROVE  /\ Increment(j) \in JobRow /\ (Increment(j).on <=> j.on)
           /\ Block(j, reason) \in JobRow /\ (Block(j, reason).on <=> j.on)
           /\ NoJob \in JobRow /\ ~NoJob.on
           /\ NewJob \in JobRow /\ NewJob.on
           /\ ResumeJob(j) \in JobRow /\ (ResumeJob(j).on <=> j.on)
<1>1. "no" \in Pauses /\ "exhausted" \in Pauses
    BY DEF Pauses
<1>2. NoJob \in JobRow /\ ~NoJob.on /\ NewJob \in JobRow /\ NewJob.on
    BY <1>1 DEF NoJob, NewJob, JobRow
<1>3. Increment(j) \in JobRow /\ (Increment(j).on <=> j.on)
    <2>1. j.attempts + 1 \in Nat
        BY DEF JobRow
    <2> QED BY <1>1, <2>1 DEF Increment, JobRow
<1>4. Block(j, reason) \in JobRow /\ (Block(j, reason).on <=> j.on)
    BY DEF Block, JobRow
<1> QED BY <1>2, <1>3, <1>4 DEF ResumeJob

LEMMA JobActs ==
    ASSUME TypeOK, NEW v \in Videos, NEW j \in JobRow, job' = [job EXCEPT ![v] = j],
           j.on => job[v].on, \A w \in Videos : Belongs(w),
           UNCHANGED <<video, row, prune, early, asking, disk, crossed>>
    PROVE  job' \in [Videos -> JobRow] /\ \A w \in Videos : Belongs(w)'
<1>1. /\ job' \in [Videos -> JobRow] /\ job'[v] = j
      /\ \A w \in Videos \ {v} : job'[w] = job[w]
    BY DEF TypeOK
<1>2. \A w \in Videos : job'[w].on => job[w].on
    BY <1>1
<1> QED BY <1>1, <1>2 DEF Belongs

LEMMA RetryDueKeeps ==
    ASSUME IInv, NEW v \in Videos, RetryDue(v)
    PROVE  IInv'
<1> DEFINE j == [job[v] EXCEPT !.due = TRUE]
<1>1. TypeOK /\ job[v] \in JobRow
    BY DEF IInv, TypeOK
<1>2. j \in JobRow /\ (j.on <=> job[v].on)
    BY <1>1 DEF JobRow
<1>3. job' = [job EXCEPT ![v] = j]
    BY <1>1 DEF RetryDue, TypeOK
<1>4. UNCHANGED <<dataVars, rowVars, paidVars, mediaVars, proc, unseen, budget>>
    BY DEF RetryDue
<1> HIDE DEF j
<1>5. job' \in [Videos -> JobRow] /\ \A w \in Videos : Belongs(w)'
    BY <1>1, <1>2, <1>3, <1>4, JobActs DEF IInv, dataVars, rowVars, mediaVars
<1>6. TypeOK'
    BY <1>1, <1>4, <1>5 DEF TypeOK, dataVars, rowVars, paidVars, mediaVars
<1> QED BY <1>4, <1>5, <1>6, AsideKeeps DEF GoesOn, dataVars, rowVars, paidVars

LEMMA PruneKeeps ==
    ASSUME IInv, NEW v \in Videos, PruneCandidate(v) \/ PruneRelease(v) \/ PruneRemove(v)
    PROVE  IInv'
<1> DEFINE r == [video[v] EXCEPT !.has = @ \ {"file"}]
<1>1. TypeOK /\ video[v] \in VideoRow /\ \A w \in Videos : Belongs(w)
    BY DEF IInv, TypeOK
<1>2. r \in VideoRow /\ r.status = video[v].status /\ r.n = video[v].n /\ "file" \notin r.has
    BY <1>1 DEF VideoRow
<1>3. UNCHANGED <<stage, asking, early, job, rowVars, paidVars, proc, unseen>>
    BY DEF PruneCandidate, PruneRelease, PruneRemove, dataVars
<1>4. UNCHANGED video \/ video' = [video EXCEPT ![v] = r]
    BY <1>1 DEF PruneCandidate, PruneRelease, PruneRemove, dataVars, TypeOK
<1> HIDE DEF r
<1>5. /\ video' \in [Videos -> VideoRow]
      /\ \A w \in Videos : /\ video'[w].status = video[w].status /\ video'[w].n = video[w].n
                           /\ "file" \in video'[w].has => "file" \in video[w].has
    BY <1>1, <1>2, <1>4, VideoActs DEF TypeOK
<1>6. /\ prune' \in [Videos -> {"no", "candidate", "released"}] /\ disk' \in [Videos -> BOOLEAN]
      /\ crossed' = crossed
      /\ \A w \in Videos \ {v} : prune'[w] = prune[w] /\ disk'[w] = disk[w]
    BY <1>1 DEF PruneCandidate, PruneRelease, PruneRemove, TypeOK
<1>10. PruneRelease(v) /\ "file" \in video'[v].has => prune'[v] = "no" /\ disk'[v] = disk[v]
    BY <1>1, <1>2, VideoActs DEF PruneRelease, TypeOK, r
<1>7. ~job[v].on /\ video[v].status # "none"
    BY <1>1 DEF PruneCandidate, PruneRelease, PruneRemove, Belongs, Terminal
<1>8. TypeOK'
    BY <1>1, <1>3, <1>5, <1>6 DEF TypeOK, rowVars, paidVars
<1>9. ASSUME NEW w \in Videos PROVE GoesOn(w) /\ Belongs(w)'
    <2>1. CASE w = v
        <3>1. "file" \in video'[v].has /\ (prune'[v] = "released" \/ ~disk'[v]) => v \in crossed'
            BY <1>1, <1>10, <1>5, <1>6 DEF PruneCandidate, PruneRelease, PruneRemove, Belongs, TypeOK, dataVars
        <3> QED BY <1>1, <1>3, <1>5, <1>7, <2>1, <3>1 DEF GoesOn, Belongs, rowVars
    <2>2. CASE w # v
        BY <1>1, <1>3, <1>5, <1>6, <2>2 DEF GoesOn, Belongs, rowVars
    <2> QED BY <2>1, <2>2
<1> QED BY <1>3, <1>8, <1>9, AsideKeeps DEF rowVars, paidVars

-----------------------------------------------------------------------------
(* Clicks, retries and edits.                                              *)

LEMMA HappensActs ==
    ASSUME TypeOK, NEW what \in Events, Happens(what)
    PROVE  /\ unseen' \in [Processes -> SUBSET Events]
           /\ \A p \in Processes : unseen'[p] = unseen[p] \cup {what}
BY DEF TypeOK, Happens, Events

LEMMA EditLinkKeeps ==
    ASSUME IInv, NEW l \in Links, EditLink(l)
    PROVE  IInv'
<1>1. TypeOK /\ UNCHANGED <<dataVars, job, cell, paidVars, mediaVars, proc, unseen>>
    BY DEF IInv, EditLink
<1>2. row' \in [link : Links, owner : Videos] /\ row'.owner = row.owner
    BY <1>1 DEF EditLink, TypeOK
<1>3. TypeOK'
    BY <1>1, <1>2 DEF TypeOK, dataVars, paidVars, mediaVars
<1> QED BY <1>1, <1>2, <1>3, AsideKeeps DEF IInv, GoesOn, Belongs, dataVars, paidVars, mediaVars

LEMMA EditKeeps ==
    ASSUME IInv, NEW f \in Fields, Edit(f) \/ (BridgeSubtitle /\ f = "subtitle")
    PROVE  IInv'
<1>1. TypeOK /\ UNCHANGED <<dataVars, job, row, paidVars, mediaVars, proc>>
    BY DEF IInv, Edit, BridgeSubtitle
<1>2. /\ unseen' \in [Processes -> SUBSET Events]
      /\ \A p \in Processes : unseen'[p] = unseen[p] \cup {f}
    BY <1>1, HappensActs DEF Edit, BridgeSubtitle, Events
<1>3. /\ cell' \in [Fields -> Videos \cup {Person, None}]
      /\ cell'[f] = Person /\ \A g \in Fields \ {f} : cell'[g] = cell[g]
    BY <1>1 DEF Edit, BridgeSubtitle, TypeOK
<1>4. TypeOK'
    BY <1>1, <1>2, <1>3 DEF TypeOK, Events, dataVars, paidVars, mediaVars
<1>5. ASSUME NEW p \in Processes PROVE Held(p)'
    BY <1>1, <1>2, <1>3, HeldKept, DeliveryConstants DEF IInv, Current, dataVars
<1>6. ASSUME NEW v \in Videos, NEW n \in Numbers PROVE Belongs(v)' /\ Marked(v, n)'
    BY <1>1, MarkedKept DEF IInv, Belongs, dataVars, paidVars, mediaVars
<1>7. ASSUME NEW v \in Videos PROVE Belongs(v)'
    BY <1>1 DEF IInv, Belongs, dataVars, mediaVars
<1> QED BY <1>4, <1>5, <1>6, <1>7 DEF IInv

LEMMA RestartKeeps ==
    ASSUME IInv, NEW v \in Videos, Restart(v)
    PROVE  IInv'
<1> DEFINE r == [video[v] EXCEPT !.status = "queued"]
<1>1. /\ TypeOK /\ video[v] \in VideoRow /\ job[v] \in JobRow /\ Belongs(v)
      /\ video[v].status = "failed"
    BY DEF IInv, TypeOK, Restart
<1>2. r \in VideoRow /\ r.status = "queued" /\ r.n = video[v].n /\ r.has = video[v].has
    BY <1>1 DEF VideoRow
<1>3. video' = [video EXCEPT ![v] = r]
    BY <1>1 DEF Restart, TypeOK
<1>4. UNCHANGED <<stage, asking, early, rowVars, paidVars, mediaVars, proc>>
    BY DEF Restart
<1> HIDE DEF r
<1>5. /\ video' \in [Videos -> VideoRow] /\ video'[v] = r
      /\ \A w \in Videos \ {v} : video'[w] = video[w]
    BY <1>1, <1>2, <1>3, VideoActs
<1>6. /\ job' \in [Videos -> JobRow] /\ \A w \in Videos : job'[w].on => job[w].on
    <2>1. /\ ResumeJob(job[v]) \in JobRow /\ (ResumeJob(job[v]).on <=> job[v].on)
        BY <1>1, JobTypes DEF Pauses
    <2>2. job' = [job EXCEPT ![v] = ResumeJob(job[v])]
        BY <1>1 DEF Restart, TypeOK
    <2> QED BY <1>1, <2>1, <2>2 DEF TypeOK
<1>7. /\ unseen' \in [Processes -> SUBSET Events]
      /\ \A p \in Processes : unseen'[p] = unseen[p] \cup {"restart"}
    BY <1>1, HappensActs DEF Restart, Events
<1>8. TypeOK'
    BY <1>1, <1>4, <1>5, <1>6, <1>7 DEF TypeOK, Events, rowVars, paidVars, mediaVars
<1>9. ASSUME NEW p \in Processes PROVE Held(p)'
    <2>1. \A w \in Videos : video[w].status # "none" => video'[w].status # "none"
        BY <1>2, <1>5
    <2>2. proc[p].v \in Videos
        BY <1>1 DEF TypeOK, Delivery
    <2> QED BY <1>1, <1>4, <1>7, <2>1, <2>2, HeldKept DEF IInv, rowVars
<1>10. ASSUME NEW w \in Videos PROVE Belongs(w)' /\ \A n \in Numbers : Marked(w, n)'
    <2>1. Belongs(w)'
        BY <1>1, <1>2, <1>4, <1>5, <1>6 DEF IInv, Belongs, rowVars, mediaVars, Terminal
    <2> QED BY <1>1, <1>4, <2>1, MarkedKept DEF IInv, paidVars
<1> QED BY <1>8, <1>9, <1>10 DEF IInv

LEMMA NewVideoType ==
    ASSUME NEW l \in Links
    PROVE  /\ NewVideo(l) \in VideoRow /\ NewVideo(l).status = "queued" /\ NewVideo(l).has = {}
           /\ NoVideo \in VideoRow /\ NoVideo.status = "none" /\ NoVideo.has = {}
<1>1. 0 \in 0 .. MaxAttempts
    BY DeliveryConstants
<1>2. NoVideo \in VideoRow /\ NoVideo.status = "none" /\ NoVideo.has = {}
    BY <1>1 DEF NoVideo, VideoRow
<1>3. NewVideo(l) \in VideoRow /\ NewVideo(l).status = "queued" /\ NewVideo(l).has = NoVideo.has
    BY <1>2 DEF NewVideo, VideoRow
<1> QED BY <1>2, <1>3

LEMMA ClickKeeps ==
    ASSUME IInv, NEW v \in Videos, NEW l \in Links, Click(v, l)
    PROVE  IInv'
<1> DEFINE r == NewVideo(l)
<1>1. TypeOK /\ Belongs(v) /\ video[v].status = "none"
    BY DEF IInv, Click
<1>2. r \in VideoRow /\ r.status = "queued" /\ r.has = {}
    BY NewVideoType
<1>3. UNCHANGED <<stage, asking, early, cell, paidVars, mediaVars, proc>>
    BY DEF Click
<1> HIDE DEF r
<1>4. /\ video' \in [Videos -> VideoRow] /\ video'[v] = r
      /\ \A w \in Videos \ {v} : video'[w] = video[w]
    BY <1>1, <1>2, VideoActs DEF Click, r
<1>5. /\ job' \in [Videos -> JobRow] /\ \A w \in Videos \ {v} : ~job'[w].on
    BY JobTypes DEF Click, SaveJob, NewJob, NoJob, JobRow, Pauses
<1>6. row' \in [link : Links, owner : Videos] /\ row'.owner = v
    BY DEF Click
<1>7. /\ unseen' \in [Processes -> SUBSET Events]
      /\ \A p \in Processes : unseen'[p] = unseen[p] \cup {"click"}
    BY <1>1, HappensActs DEF Click, Events
<1>8. TypeOK'
    BY <1>1, <1>3, <1>4, <1>5, <1>6, <1>7 DEF TypeOK, Events, paidVars, mediaVars
<1>9. ASSUME NEW p \in Processes PROVE Held(p)'
    <2>1. \A w \in Videos : video[w].status # "none" => video'[w] = video[w]
        BY <1>1, <1>4
    <2>2. proc[p].v \in Videos
        BY <1>1 DEF TypeOK, Delivery
    <2> QED BY <1>1, <1>3, <1>7, <2>1, <2>2, HeldKept DEF IInv, Current
<1>10. ASSUME NEW w \in Videos PROVE Belongs(w)' /\ \A n \in Numbers : Marked(w, n)'
    <2>1. Belongs(w)'
        BY <1>1, <1>2, <1>3, <1>4, <1>5, <1>6 DEF IInv, Belongs, mediaVars, Terminal
    <2> QED BY <1>1, <1>3, <2>1, MarkedKept DEF IInv, paidVars
<1> QED BY <1>8, <1>9, <1>10 DEF IInv

-----------------------------------------------------------------------------
(* The steps of a delivery.                                                *)

LEMMA BecomeActs ==
    ASSUME TypeOK, NEW p \in Processes, NEW d \in Delivery, Become(p, d)
    PROVE  /\ proc' \in [Processes -> Delivery] /\ proc'[p] = d
           /\ \A q \in Processes \ {p} : proc'[q] = proc[q]
BY DEF TypeOK, Become

\* Delivery p moves, to d: the others see what it writes.
LEMMA MoveKeeps ==
    ASSUME IInv, NEW p \in Processes, NEW d \in Delivery, Become(p, d), Held(p)',
           UNCHANGED <<video, stage, asking, row, mediaVars>>, early' \subseteq early,
           job' \in [Videos -> JobRow], \A v \in Videos : job'[v].on => job[v].on,
           cell' \in [Fields -> Videos \cup {Person, None}],
           \A f \in Fields : cell[f] # None => cell'[f] # None,
           unseen' \in [Processes -> SUBSET Events],
           \A q \in Processes \ {p} :
               /\ unseen[q] \subseteq unseen'[q]
               /\ \A f \in Fields : cell'[f] # None => cell[f] # None \/ f \in unseen'[q],
           markers' \in [Videos -> [Numbers -> 0 .. SubtitleRequests]],
           cache' \in [Videos -> [Numbers -> BOOLEAN]], paid' \in [Videos -> [Numbers -> Nat]],
           \A v \in Videos, n \in Numbers : Marked(v, n)'
    PROVE  IInv'
<1>1. TypeOK
    BY DEF IInv
<1>2. proc' \in [Processes -> Delivery] /\ \A q \in Processes \ {p} : proc'[q] = proc[q]
    BY <1>1, BecomeActs
<1>3. TypeOK'
    BY <1>1, <1>2 DEF TypeOK, mediaVars, Events
<1>4. ASSUME NEW q \in Processes PROVE Held(q)'
    <2>1. CASE q # p
        BY <1>1, <1>2, <2>1, HeldKept DEF IInv, Current
    <2> QED BY <2>1
<1>5. ASSUME NEW v \in Videos PROVE Belongs(v)'
    BY DEF IInv, Belongs, mediaVars
<1> QED BY <1>3, <1>4, <1>5 DEF IInv

\* A delivery that neither writes the row nor asks for a translation.
LEMMA QuietKeeps ==
    ASSUME IInv, NEW p \in Processes, NEW d \in Delivery, Become(p, d), Held(p)', d.pc # "ask",
           UNCHANGED <<video, stage, asking, rowVars, paidVars, mediaVars>>, early' \subseteq early,
           job' \in [Videos -> JobRow], \A v \in Videos : job'[v].on => job[v].on,
           unseen' \in [Processes -> SUBSET Events],
           \A q \in Processes \ {p} : unseen'[q] = unseen[q]
    PROVE  IInv'
<1>1. TypeOK
    BY DEF IInv
<1>2. proc'[p] = d /\ \A q \in Processes \ {p} : proc'[q] = proc[q]
    BY <1>1, BecomeActs
<1>3. ASSUME NEW v \in Videos, NEW n \in Numbers PROVE Marked(v, n)'
    BY <1>1, <1>2, MarkedKept DEF IInv, paidVars
<1> QED BY <1>1, <1>3, MoveKeeps DEF TypeOK, rowVars, paidVars

LEMMA IdleHeld ==
    ASSUME NEW p \in Processes, proc'[p] = Idle
    PROVE  Held(p)'
<1>1. /\ Idle.pc = "idle" /\ Idle.goal = "final" /\ Idle.seen = {} /\ Idle.filled = {}
    BY DEF Idle
<1> QED BY <1>1 DEF Held, Sound, Asks

LEMMA IdleType == Idle \in Delivery
<1>1. 0 \in 0 .. MaxAttempts /\ 0 \in 0 .. PutTries /\ 0 \in 0 .. Retries
    BY DeliveryConstants
<1> QED BY <1>1, DeliveryConstants DEF Idle, Delivery

\* A delivery ends, and its job may have been written.
LEMMA FinishKeeps ==
    ASSUME IInv, NEW p \in Processes, Finish(p),
           UNCHANGED <<video, stage, asking, rowVars, paidVars, mediaVars>>, early' \subseteq early,
           job' \in [Videos -> JobRow], \A v \in Videos : job'[v].on => job[v].on,
           unseen' \in [Processes -> SUBSET Events],
           \A q \in Processes \ {p} : unseen'[q] = unseen[q]
    PROVE  IInv'
<1>1. proc'[p] = Idle /\ Become(p, Idle) /\ Idle.pc # "ask"
    BY IdleType, BecomeActs DEF IInv, Finish, Idle
<1> QED BY <1>1, IdleType, IdleHeld, QuietKeeps

\* What a paused job, and a counted failure, leave of the jobs.
LEMMA PauseActs ==
    ASSUME TypeOK, NEW p \in Processes, NEW reason \in Pauses,
           Pause(p, reason) \/ CountFailure(p)
    PROVE  /\ Finish(p) /\ job' \in [Videos -> JobRow]
           /\ \A v \in Videos : job'[v].on <=> job[v].on
<1> DEFINE v == proc[p].v
<1>1. v \in Videos /\ job[v] \in JobRow
    BY DEF TypeOK, Delivery
<1>2. /\ Block(job[v], reason) \in JobRow /\ (Block(job[v], reason).on <=> job[v].on)
      /\ Increment(job[v]) \in JobRow /\ (Increment(job[v]).on <=> job[v].on)
    BY <1>1, JobTypes
<1>3. \E j \in JobRow : (j.on <=> job[v].on) /\ job' = [job EXCEPT ![v] = j]
    BY <1>1, <1>2 DEF Pause, CountFailure, TypeOK
<1>4. Finish(p)
    BY DEF Pause, CountFailure
<1> HIDE DEF v
<1> QED BY <1>1, <1>3, <1>4 DEF TypeOK

LEMMA AfterFileActs ==
    ASSUME NEW d \in Delivery, NEW full, d.seen \cup d.filled \subseteq full, d.n # 0,
           FileIsIn(d, full)
    PROVE  LET a == AfterFile(d) IN
           a \in Delivery /\ a.v = d.v /\ a.pc \in {"subtitle", "read"} /\ Sound(a, full)
<1> DEFINE wanted == d.done /\ "speech" \in d.has /\ "subtitle" \notin d.seen
           now == wanted /\ d.jobAttempts < SubtitleGiveUpAfter
           pc == IF now THEN "subtitle" ELSE "read"
           a == [d EXCEPT !.goal = "final", !.subtitlePending = wanted, !.pc = pc]
<1>1. AfterFile(d) = a
    BY DEF AfterFile
<1>2. wanted \in BOOLEAN /\ pc \in {"subtitle", "read"} /\ (pc = "subtitle" => wanted)
    BY DEF Delivery
<1>3. wanted <=> d.done /\ "speech" \in d.has /\ "subtitle" \notin d.seen
    OBVIOUS
<1> HIDE DEF wanted, pc
<1>4. /\ a \in Delivery /\ a.v = d.v /\ a.pc = pc /\ a.goal = "final" /\ a.subtitlePending = wanted
      /\ a.n = d.n /\ a.done = d.done /\ a.has = d.has /\ a.seen = d.seen /\ a.filled = d.filled
      /\ a.filePending = d.filePending
    BY <1>2 DEF Delivery
<1> HIDE DEF a
<1>5. FileIsIn(a, full) /\ SubtitleIsIn(a, full)
    BY <1>3, <1>4 DEF FileIsIn, SubtitleIsIn
<1>6. Sound(a, full)
    BY <1>2, <1>4, <1>5 DEF Sound, Asks
<1> QED BY <1>1, <1>2, <1>4, <1>6

LEMMA FileFailedActs ==
    ASSUME NEW d \in Delivery, NEW full, d.seen \cup d.filled \subseteq full, d.n # 0
    PROVE  LET a == FileFailed(d) IN
           a \in Delivery /\ a.v = d.v /\ a.pc \in {"subtitle", "read"} /\ Sound(a, full)
<1> DEFINE b == [d EXCEPT !.filePending = TRUE]
<1>1. /\ b \in Delivery /\ b.v = d.v /\ b.n = d.n /\ b.seen = d.seen /\ b.filled = d.filled
      /\ b.filePending
    BY DEF Delivery
<1>2. FileFailed(d) = AfterFile(b)
    BY DEF FileFailed
<1> HIDE DEF b
<1> QED BY <1>1, <1>2, AfterFileActs DEF FileIsIn

\* A delivery that moves, on an attempt it knows nothing of: before it has read the row.
LEMMA SoundIsHeld ==
    ASSUME IInv, NEW p \in Processes, NEW d \in Delivery, Become(p, d), Sound(d, Filled),
           d.pc \notin {"verify", "put"}, video[d.v].status # "none", UNCHANGED <<video, cell>>
    PROVE  Held(p)'
<1>1. proc'[p] = d /\ Filled' = Filled
    BY BecomeActs DEF IInv, Filled
<1> QED BY <1>1 DEF Held

LEMMA BeginFinalKeeps ==
    ASSUME IInv, NEW p \in Processes, NEW v \in Videos, BeginFinal(p, v)
    PROVE  IInv'
<1> DEFINE w == video[v]
           done == w.status = "completed"
           d == [Idle EXCEPT !.pc = "check", !.v = v, !.n = w.n, !.has = w.has, !.done = done]
<1>1. /\ TypeOK /\ w \in VideoRow /\ w.n \in 0 .. MaxAttempts /\ w.has \subseteq Results
      /\ w.n # 0 /\ w.status # "none" /\ done \in BOOLEAN
    BY DEF IInv, TypeOK, BeginFinal, Belongs, VideoRow, Terminal
<1>2. Become(p, d) /\ UNCHANGED <<dataVars, job, rowVars, paidVars, mediaVars, unseen, budget>>
    BY DEF BeginFinal
<1>3. /\ d \in Delivery /\ d.pc = "check" /\ d.v = v /\ d.n = w.n /\ d.goal = "final"
      /\ d.seen = {} /\ d.filled = {}
    <2> HIDE DEF w, done
    <2>1. Idle.goal = "final" /\ Idle.seen = {} /\ Idle.filled = {}
        BY DEF Idle
    <2> QED BY <1>1, <2>1, IdleType DEF Delivery
<1> HIDE DEF d
<1>4. Sound(d, Filled)
    BY <1>1, <1>3 DEF Sound, Asks
<1>5. Held(p)'
    BY <1>1, <1>2, <1>3, <1>4, SoundIsHeld DEF dataVars, rowVars
<1> QED BY <1>1, <1>2, <1>3, <1>5, QuietKeeps DEF TypeOK, Events, dataVars

LEMMA BeginEarlyKeeps ==
    ASSUME IInv, NEW p \in Processes, NEW v \in Videos, BeginEarly(p, v)
    PROVE  IInv'
<1> DEFINE w == video[v]
           d == [Idle EXCEPT !.pc = "read", !.goal = "early", !.v = v, !.n = w.n, !.has = w.has]
<1>1. /\ TypeOK /\ w \in VideoRow /\ w.n \in 0 .. MaxAttempts /\ w.has \subseteq Results
      /\ w.status # "none"
    BY DEF IInv, TypeOK, BeginEarly, Belongs, VideoRow
<1>2. /\ UNCHANGED <<video, stage, asking, job, rowVars, paidVars, mediaVars, unseen, budget>>
      /\ early' \subseteq early
    BY DEF BeginEarly
<1>3. /\ d \in Delivery /\ d.pc = "read" /\ d.v = v /\ d.n = w.n /\ d.goal = "early"
      /\ d.seen = {} /\ d.filled = {}
    <2> HIDE DEF w
    <2>1. Idle.seen = {} /\ Idle.filled = {}
        BY DEF Idle
    <2> QED BY <1>1, <2>1, IdleType DEF Delivery
<1>4. CASE Become(p, d)
    <2> HIDE DEF d
    <2>1. Sound(d, Filled)
        BY <1>1, <1>3 DEF Sound, Asks
    <2>2. Held(p)'
        BY <1>1, <1>2, <1>3, <1>4, <2>1, SoundIsHeld DEF rowVars
    <2> QED BY <1>1, <1>2, <1>3, <1>4, <2>2, QuietKeeps DEF TypeOK, Events
<1>5. CASE UNCHANGED proc
    <2>1. TypeOK'
        BY <1>1, <1>2, <1>5 DEF TypeOK, rowVars, paidVars, mediaVars
    <2> QED BY <1>2, <1>5, <2>1, AsideKeeps DEF IInv, GoesOn, Belongs, rowVars, paidVars, mediaVars
<1> QED BY <1>4, <1>5 DEF BeginEarly

LEMMA CrashKeeps ==
    ASSUME IInv, NEW p \in Processes, Crash(p)
    PROVE  IInv'
BY FinishKeeps DEF Crash, IInv, TypeOK, Events, dataVars

\* What is known of a delivery that is under way.
LEMMA UnderWay ==
    ASSUME IInv, NEW p \in Processes, proc[p].pc # "idle"
    PROVE  /\ TypeOK /\ proc[p] \in Delivery /\ proc[p].v \in Videos /\ proc[p].n \in 0 .. MaxAttempts
           /\ job[proc[p].v] \in JobRow
           /\ Held(p) /\ Sound(proc[p], Filled) /\ video[proc[p].v].status # "none"
BY DEF IInv, Held, TypeOK, Delivery

LEMMA CheckRowKeeps ==
    ASSUME IInv, NEW p \in Processes, NEW outcome \in Outcomes, CheckRow(p, outcome)
    PROVE  IInv'
<1> DEFINE d == proc[p]
           attempts == job[d.v].attempts
           b == [d EXCEPT !.seen = Filled, !.jobAttempts = attempts]
           e == AfterCheck(b)
<1>1. /\ TypeOK /\ d \in Delivery /\ d.v \in Videos /\ attempts \in Nat /\ d.pc = "check"
      /\ Sound(d, Filled) /\ video[d.v].status # "none"
    BY UnderWay DEF CheckRow, JobRow
<1>2. UNCHANGED <<dataVars, rowVars, paidVars, mediaVars, unseen>>
    BY DEF CheckRow
<1>3. CASE Finish(p) /\ UNCHANGED job
    BY <1>1, <1>2, <1>3, FinishKeeps DEF TypeOK, Events, dataVars
<1>4. CASE \E reason \in Pauses : Pause(p, reason) \/ CountFailure(p)
    BY <1>1, <1>2, <1>4, PauseActs, FinishKeeps DEF TypeOK, Events, dataVars
<1>5. CASE Become(p, e) /\ UNCHANGED job
    <2>1. /\ b \in Delivery /\ b.pc = "check" /\ b.v = d.v /\ b.n = d.n /\ b.goal = "final"
          /\ b.seen = Filled /\ b.filled \subseteq Filled /\ b.n # 0
        <3>1. Filled \subseteq Fields
            BY DEF Filled
        <3>2. d.goal = "final" /\ d.n # 0 /\ d.filled \subseteq Filled
            BY <1>1 DEF Sound
        <3> HIDE DEF d, attempts
        <3> QED BY <1>1, <3>1, <3>2 DEF Delivery
    <2> HIDE DEF b
    <2>2. e \in Delivery /\ e.v = d.v /\ e.pc \in {"subtitle", "read", "upload"} /\ Sound(e, Filled)
        <3>1. CASE "file" \in b.has \ b.seen
            <4> DEFINE u == [b EXCEPT !.pc = "upload"]
            <4>1. /\ u \in Delivery /\ u.pc = "upload" /\ u.v = b.v /\ u.n = b.n /\ u.goal = "final"
                  /\ u.seen = b.seen /\ u.filled = b.filled
                BY <2>1 DEF Delivery
            <4>2. e = u
                BY <3>1 DEF AfterCheck
            <4> HIDE DEF u, e
            <4> QED BY <2>1, <4>1, <4>2 DEF Sound, Asks
        <3>2. CASE "file" \notin b.has \ b.seen
            <4>1. e = AfterFile(b)
                BY <3>2 DEF AfterCheck
            <4>2. FileIsIn(b, Filled)
                BY <2>1, <3>2 DEF FileIsIn
            <4> HIDE DEF e
            <4> QED BY <2>1, <4>1, <4>2, AfterFileActs
        <3> QED BY <3>1, <3>2
    <2> HIDE DEF e
    <2>3. Held(p)'
        BY <1>1, <1>2, <1>5, <2>2, SoundIsHeld DEF dataVars, rowVars
    <2> QED BY <1>1, <1>2, <1>5, <2>2, <2>3, QuietKeeps DEF TypeOK, Events, dataVars
<1> QED BY <1>3, <1>4, <1>5 DEF CheckRow, Pauses

LEMMA UploadKeeps ==
    ASSUME IInv, NEW p \in Processes, NEW outcome \in Outcomes, UploadFile(p, outcome)
    PROVE  IInv'
<1> DEFINE d == proc[p]
           e == FileFailed(d)
           u == [d EXCEPT !.pc = "read", !.goal = "file"]
<1>1. /\ TypeOK /\ d \in Delivery /\ d.v \in Videos /\ d.pc = "upload"
      /\ Sound(d, Filled) /\ video[d.v].status # "none"
    BY UnderWay DEF UploadFile
<1>2. d.n # 0 /\ d.seen \cup d.filled \subseteq Filled
    BY <1>1 DEF Sound
<1>3. UNCHANGED <<dataVars, rowVars, paidVars, mediaVars, unseen>>
    BY DEF UploadFile
<1>4. CASE Pause(p, "denied")
    BY <1>1, <1>3, <1>4, PauseActs, FinishKeeps DEF TypeOK, Events, dataVars, Pauses
<1>5. CASE Become(p, e) /\ UNCHANGED job
    <2>1. e \in Delivery /\ e.v = d.v /\ e.pc \in {"subtitle", "read"} /\ Sound(e, Filled)
        BY <1>1, <1>2, FileFailedActs
    <2> HIDE DEF e
    <2>2. Held(p)'
        BY <1>1, <1>3, <1>5, <2>1, SoundIsHeld DEF dataVars, rowVars
    <2> QED BY <1>1, <1>3, <1>5, <2>1, <2>2, QuietKeeps DEF TypeOK, Events, dataVars
<1>6. CASE Become(p, u) /\ UNCHANGED job
    <2>1. /\ u \in Delivery /\ u.v = d.v /\ u.pc = "read" /\ u.goal = "file" /\ u.n = d.n
          /\ u.seen = d.seen /\ u.filled = d.filled
        BY <1>1 DEF Delivery
    <2> HIDE DEF u
    <2>2. Sound(u, Filled)
        BY <1>2, <2>1 DEF Sound, Asks
    <2>3. Held(p)'
        BY <1>1, <1>3, <1>6, <2>1, <2>2, SoundIsHeld DEF dataVars, rowVars
    <2> QED BY <1>1, <1>3, <1>6, <2>1, <2>3, QuietKeeps DEF TypeOK, Events, dataVars
<1> QED BY <1>4, <1>5, <1>6 DEF UploadFile

\* The delivery goes on with what is known of it, but for its place and its subtitles.
Same(d, e) ==
    /\ e.v = d.v /\ e.n = d.n /\ e.goal = d.goal /\ e.done = d.done /\ e.has = d.has
    /\ e.seen = d.seen /\ e.filled = d.filled /\ e.filePending = d.filePending

LEMMA GoesTo ==
    ASSUME NEW d \in Delivery, NEW e \in Delivery, NEW full, Sound(d, full), Same(d, e),
           d.goal = "final", d.pc \in Asks, e.pc \in Asks \cup {"read"},
           e.pc \in Asks => e.subtitlePending, e.subtitle \/ e.subtitlePending
    PROVE  Sound(e, full)
<1>1. FileIsIn(e, full) /\ (e.subtitle \/ SubtitleIsIn(e, full))
    BY DEF Sound, FileIsIn, SubtitleIsIn, Asks, Same
<1> QED BY <1>1 DEF Sound, Asks, Same

LEMMA SubtitlesKeeps ==
    ASSUME IInv, NEW p \in Processes, NEW outcome \in {"ok", "failed"}, Subtitles(p, outcome)
    PROVE  IInv'
<1> DEFINE d == proc[p]
           ready == TranslationKept(d) /\ outcome = "ok"
           e == [d EXCEPT !.pc = "read", !.subtitle = ready, !.subtitlePending = ~ready]
           u == [d EXCEPT !.pc = "reserve"]
<1>1. /\ TypeOK /\ d \in Delivery /\ d.v \in Videos /\ d.pc = "subtitle"
      /\ Sound(d, Filled) /\ video[d.v].status # "none"
    BY UnderWay DEF Subtitles
<1>2. d.goal = "final" /\ d.subtitlePending /\ d.pc \in Asks
    BY <1>1 DEF Sound, Asks
<1>3. UNCHANGED <<dataVars, job, rowVars, paidVars, mediaVars, unseen>>
    BY DEF Subtitles
<1>4. /\ e \in Delivery /\ e.pc = "read" /\ Same(d, e)
      /\ e.subtitle = ready /\ e.subtitlePending = ~ready
    BY <1>1 DEF Delivery, Same
<1>5. u \in Delivery /\ u.pc = "reserve" /\ Same(d, u) /\ u.subtitlePending
    BY <1>1, <1>2 DEF Delivery, Same
<1>6. e.subtitle \/ e.subtitlePending
    BY <1>4
<1>7. Become(p, e) \/ Become(p, u)
    BY DEF Subtitles
<1> HIDE DEF e, u
<1>8. ASSUME NEW x \in {e, u}, Become(p, x) PROVE IInv'
    <2>1. x \in Delivery /\ x.v = d.v /\ x.pc \in {"read", "reserve"} /\ Sound(x, Filled)
        BY <1>1, <1>2, <1>4, <1>5, <1>6, GoesTo DEF Same, Asks
    <2>2. Held(p)'
        BY <1>1, <1>3, <1>8, <2>1, SoundIsHeld DEF dataVars, rowVars
    <2> QED BY <1>1, <1>3, <1>8, <2>1, <2>2, QuietKeeps DEF TypeOK, Events, dataVars
<1> QED BY <1>7, <1>8

\* A delivery moves on, to a place that does not write: between requests for subtitles.
LEMMA AsksOn ==
    ASSUME IInv, NEW p \in Processes, proc[p].pc \in {"reserve", "ask"}, NEW e \in Delivery,
           Become(p, e), Same(proc[p], e), e.subtitlePending = proc[p].subtitlePending,
           e.pc \in Asks \cup {"read"}, UNCHANGED <<dataVars, rowVars>>
    PROVE  /\ Held(p)' /\ proc[p].v \in Videos /\ proc[p].n \in Numbers
           /\ proc'[p] = e /\ \A q \in Processes \ {p} : proc'[q] = proc[q]
<1> DEFINE d == proc[p]
<1>1. /\ TypeOK /\ d \in Delivery /\ d.v \in Videos /\ d.n \in 0 .. MaxAttempts
      /\ Sound(d, Filled) /\ video[d.v].status # "none"
    BY UnderWay
<1>2. d.goal = "final" /\ d.subtitlePending /\ d.pc \in Asks /\ d.n # 0
    BY <1>1 DEF Sound, Asks
<1>3. Sound(e, Filled)
    BY <1>1, <1>2, GoesTo
<1>4. Held(p)'
    BY <1>1, <1>3, SoundIsHeld DEF Same, Asks, dataVars, rowVars
<1>5. d.n \in Numbers
    BY <1>1, <1>2, DeliveryConstants DEF Numbers
<1> QED BY <1>1, <1>4, <1>5, BecomeActs

LEMMA MarkerActs ==
    ASSUME TypeOK, NEW v \in Videos, NEW n \in Numbers
    PROVE  /\ markers[v][n] \in 0 .. SubtitleRequests /\ paid[v][n] \in Nat
           /\ \A k \in 0 .. SubtitleRequests :
                 LET m == [markers EXCEPT ![v][n] = k] IN
                 /\ m \in [Videos -> [Numbers -> 0 .. SubtitleRequests]] /\ m[v][n] = k
                 /\ \A w \in Videos, k2 \in Numbers : <<w, k2>> # <<v, n>> => m[w][k2] = markers[w][k2]
           /\ \A k \in Nat :
                 LET m == [paid EXCEPT ![v][n] = k] IN
                 /\ m \in [Videos -> [Numbers -> Nat]] /\ m[v][n] = k
                 /\ \A w \in Videos, k2 \in Numbers : <<w, k2>> # <<v, n>> => m[w][k2] = paid[w][k2]
BY DEF TypeOK

LEMMA ReserveRequestKeeps ==
    ASSUME IInv, NEW p \in Processes, ReserveRequest(p)
    PROVE  IInv'
<1> DEFINE d == proc[p]
           free == markers[d.v][d.n] < SubtitleRequests
           e == [d EXCEPT !.pc = IF free THEN "ask" ELSE "read"]
<1>1. TypeOK /\ d \in Delivery /\ d.pc = "reserve"
    BY UnderWay DEF ReserveRequest
<1>2. /\ e \in Delivery /\ e.pc = (IF free THEN "ask" ELSE "read") /\ Same(d, e)
      /\ e.subtitlePending = d.subtitlePending
    BY <1>1 DEF Delivery, Same
<1>3. Become(p, e) /\ UNCHANGED <<dataVars, job, rowVars, cache, paid, mediaVars, unseen, budget>>
    BY DEF ReserveRequest
<1>4. CASE ~free
    <2>1. e.pc = "read" /\ UNCHANGED paidVars
        BY <1>2, <1>3, <1>4 DEF ReserveRequest, paidVars
    <2> HIDE DEF e
    <2>2. Held(p)'
        BY <1>1, <1>2, <1>3, <2>1, AsksOn
    <2> QED BY <1>1, <1>2, <1>3, <2>1, <2>2, QuietKeeps DEF TypeOK, Events, dataVars
<1>5. CASE free
    <2>1. e.pc = "ask" /\ markers' = [markers EXCEPT ![d.v][d.n] = @ + 1]
        BY <1>2, <1>5 DEF ReserveRequest
    <2> HIDE DEF e
    <2>2. /\ Held(p)' /\ d.v \in Videos /\ d.n \in Numbers
          /\ proc'[p] = e /\ \A q \in Processes \ {p} : proc'[q] = proc[q]
        BY <1>1, <1>2, <1>3, <2>1, AsksOn DEF Asks
    <2>3. /\ markers' \in [Videos -> [Numbers -> 0 .. SubtitleRequests]]
          /\ markers'[d.v][d.n] = markers[d.v][d.n] + 1 /\ markers[d.v][d.n] \in Nat
          /\ \A w \in Videos, k \in Numbers : <<w, k>> # <<d.v, d.n>> => markers'[w][k] = markers[w][k]
        <3>1. markers[d.v][d.n] + 1 \in 0 .. SubtitleRequests
            BY <1>1, <1>5, <2>2, MarkerActs DEF SubtitleRequests
        <3>2. markers' = [markers EXCEPT ![d.v][d.n] = markers[d.v][d.n] + 1]
            BY <1>1, <2>1, <2>2 DEF TypeOK
        <3> HIDE DEF d
        <3> QED BY <1>1, <2>2, <3>1, <3>2, MarkerActs
    <2>4. ASSUME NEW v \in Videos, NEW n \in Numbers PROVE Marked(v, n)'
        <3> DEFINE S == Asking(v, n)
                   T == Asking(v, n)'
        <3>1. S \subseteq Processes /\ T \subseteq Processes
            BY DEF Asking
        <3>2. IsFiniteSet(S) /\ Cardinality(S) \in Nat /\ Cardinality(T) \in Nat
            BY <3>1, AsksFinite, DeliveryConstants
        <3>3. /\ paid'[v][n] = paid[v][n] /\ paid[v][n] \in Nat
              /\ markers[v][n] \in Nat /\ markers'[v][n] \in Nat
            <4>1. markers'[v] \in [Numbers -> 0 .. SubtitleRequests]
                BY <2>3
            <4>2. paid[v][n] \in Nat /\ markers[v][n] \in 0 .. SubtitleRequests
                BY <1>1, MarkerActs
            <4> QED BY <1>3, <4>1, <4>2 DEF SubtitleRequests
        <3> HIDE DEF S, T
        <3>4. CASE <<v, n>> = <<d.v, d.n>>
            <4>1. T \subseteq S \cup {p}
                BY <2>2 DEF Asking, S, T
            <4>2. Cardinality(T) <= Cardinality(S) + 1
                BY <3>2, <4>1, OneMore
            <4> QED BY <2>3, <3>2, <3>3, <3>4, <4>2 DEF IInv, Marked, S, T
        <3>5. CASE <<v, n>> # <<d.v, d.n>>
            <4>1. T \subseteq S
                BY <1>2, <2>2, <3>5 DEF Asking, Same, S, T
            <4>2. Cardinality(T) <= Cardinality(S)
                BY <3>2, <4>1, FS_Subset
            <4> QED BY <2>3, <3>2, <3>3, <3>5, <4>2 DEF IInv, Marked, S, T
        <3> QED BY <3>4, <3>5
    <2> QED BY <1>1, <1>2, <1>3, <2>2, <2>3, <2>4, MoveKeeps DEF TypeOK, Events, dataVars, rowVars
<1> QED BY <1>4, <1>5

LEMMA AskTranslationKeeps ==
    ASSUME IInv, NEW p \in Processes, NEW outcome \in Outcomes, AskTranslation(p, outcome)
    PROVE  IInv'
<1> DEFINE d == proc[p]
           again == outcome = "failed" /\ d.asks < Retries
           e == IF outcome = "ok" THEN [d EXCEPT !.pc = "subtitle"]
                ELSE IF again THEN [d EXCEPT !.pc = "reserve", !.asks = @ + 1]
                ELSE [d EXCEPT !.pc = "read"]
<1>1. TypeOK /\ d \in Delivery /\ d.pc = "ask" /\ d.asks \in 0 .. Retries
    BY UnderWay DEF AskTranslation, Delivery
<1>2. /\ e \in Delivery /\ e.pc \in {"subtitle", "reserve", "read"} /\ Same(d, e)
      /\ e.subtitlePending = d.subtitlePending
    <2>1. again => d.asks + 1 \in 0 .. Retries
        BY <1>1, DeliveryConstants
    <2> HIDE DEF again
    <2> QED BY <1>1, <2>1 DEF Delivery, Same
<1>3. Become(p, e) /\ UNCHANGED <<dataVars, job, rowVars, markers, mediaVars, unseen>>
    BY DEF AskTranslation
<1>4. /\ paid' = [paid EXCEPT ![d.v][d.n] = @ + 1]
      /\ cache' = cache \/ cache' = [cache EXCEPT ![d.v][d.n] = TRUE]
    BY DEF AskTranslation
<1> HIDE DEF e
<1>5. /\ Held(p)' /\ d.v \in Videos /\ d.n \in Numbers
      /\ proc'[p] = e /\ \A q \in Processes \ {p} : proc'[q] = proc[q]
    BY <1>1, <1>2, <1>3, AsksOn DEF Asks
<1>6. /\ paid' \in [Videos -> [Numbers -> Nat]]
      /\ paid'[d.v][d.n] = paid[d.v][d.n] + 1
      /\ \A w \in Videos, k \in Numbers : <<w, k>> # <<d.v, d.n>> => paid'[w][k] = paid[w][k]
    <2>1. paid[d.v][d.n] + 1 \in Nat
        BY <1>1, <1>5, MarkerActs
    <2>2. paid' = [paid EXCEPT ![d.v][d.n] = paid[d.v][d.n] + 1]
        BY <1>1, <1>4, <1>5 DEF TypeOK
    <2> HIDE DEF d
    <2> QED BY <1>1, <1>5, <2>1, <2>2, MarkerActs
<1>7. cache' \in [Videos -> [Numbers -> BOOLEAN]]
    <2>1. cache \in [Videos -> [Numbers -> BOOLEAN]]
        BY <1>1 DEF TypeOK
    <2>2. CASE cache' = cache
        BY <2>1, <2>2
    <2>3. CASE cache' = [cache EXCEPT ![d.v][d.n] = TRUE]
        <3>1. [cache[d.v] EXCEPT ![d.n] = TRUE] \in [Numbers -> BOOLEAN]
            BY <1>5, <2>1
        <3>2. cache' = [cache EXCEPT ![d.v] = [cache[d.v] EXCEPT ![d.n] = TRUE]]
            BY <1>5, <2>1, <2>3
        <3> QED BY <1>5, <2>1, <3>1, <3>2
    <2> QED BY <1>4, <2>2, <2>3
<1>8. ASSUME NEW v \in Videos, NEW n \in Numbers PROVE Marked(v, n)'
    <2> DEFINE S == Asking(v, n)
               T == Asking(v, n)'
    <2>1. S \subseteq Processes /\ T \subseteq Processes
        BY DEF Asking
    <2>2. IsFiniteSet(S) /\ Cardinality(S) \in Nat /\ Cardinality(T) \in Nat
        BY <2>1, AsksFinite, DeliveryConstants
    <2>3. markers'[v][n] = markers[v][n] /\ markers[v][n] \in Nat /\ paid[v][n] \in Nat
        <3>1. markers[v][n] \in 0 .. SubtitleRequests /\ paid[v][n] \in Nat
            BY <1>1, MarkerActs
        <3> QED BY <1>3, <3>1 DEF SubtitleRequests
    <2>4. T \subseteq S \ {p}
        BY <1>2, <1>5 DEF Asking
    <2>5. p \in S <=> <<v, n>> = <<d.v, d.n>>
        BY <1>1 DEF Asking
    <2> HIDE DEF S, T
    <2>6. CASE <<v, n>> = <<d.v, d.n>>
        <3>1. Cardinality(T) + 1 <= Cardinality(S)
            BY <2>2, <2>4, <2>5, <2>6, OneLess
        <3> QED BY <1>6, <2>2, <2>3, <2>6, <3>1 DEF IInv, Marked, S, T
    <2>7. CASE <<v, n>> # <<d.v, d.n>>
        <3>1. Cardinality(T) <= Cardinality(S)
            BY <2>2, <2>4, FS_Subset
        <3> QED BY <1>6, <2>2, <2>3, <2>7, <3>1 DEF IInv, Marked, S, T
    <2> QED BY <2>6, <2>7
<1> QED BY <1>1, <1>2, <1>3, <1>5, <1>6, <1>7, <1>8, MoveKeeps DEF TypeOK, Events, dataVars, rowVars

\* The row only fills up.
LEMMA SoundGrows ==
    ASSUME NEW d, NEW full, NEW more, Sound(d, full), full \subseteq more
    PROVE  Sound(d, more)
BY DEF Sound, FileIsIn, SubtitleIsIn, TextIsIn

\* A read or a write of the row failed: the delivery ends, or goes on without its file,
\* or tries again.
LEMMA WriteFailedActs ==
    ASSUME TypeOK, NEW p \in Processes, NEW outcome, WriteFailed(p, outcome = "limited"),
           NEW full, Sound(proc[p], full), proc[p].pc \in {"read", "put"}
    PROVE  \/ /\ Finish(p) /\ job' \in [Videos -> JobRow]
              /\ \A v \in Videos : job'[v].on <=> job[v].on
           \/ /\ UNCHANGED job
              /\ \E e \in Delivery : /\ Become(p, e) /\ e.v = proc[p].v
                                     /\ e.pc \in {"subtitle", "read"} /\ Sound(e, full)
<1> DEFINE d == proc[p]
<1>1. d \in Delivery
    BY DEF TypeOK
<1>2. CASE d.goal = "early"
    BY <1>2 DEF WriteFailed, TypeOK
<1>3. CASE d.goal = "file"
    <2>1. Become(p, FileFailed(d)) /\ UNCHANGED job
        BY <1>3 DEF WriteFailed
    <2>2. d.n # 0 /\ d.seen \cup d.filled \subseteq full
        BY <1>3 DEF Sound
    <2>3. /\ FileFailed(d) \in Delivery /\ FileFailed(d).v = d.v
          /\ FileFailed(d).pc \in {"subtitle", "read"} /\ Sound(FileFailed(d), full)
        BY <1>1, <2>2, FileFailedActs
    <2> QED BY <2>1, <2>3
<1>4. CASE d.goal = "final" /\ outcome # "limited" /\ d.tries + 1 < PutTries
    <2> DEFINE e == [d EXCEPT !.pc = "read", !.tries = @ + 1]
    <2>1. d.tries + 1 \in 0 .. PutTries
        BY <1>1, <1>4, DeliveryConstants DEF Delivery
    <2>2. /\ e \in Delivery /\ e.pc = "read" /\ Same(d, e)
          /\ e.subtitle = d.subtitle /\ e.subtitlePending = d.subtitlePending
        BY <1>1, <2>1 DEF Delivery, Same
    <2>3. Become(p, e) /\ UNCHANGED job
        BY <1>4 DEF WriteFailed
    <2> HIDE DEF e
    <2>4. Sound(e, full)
        BY <1>4, <2>2 DEF Sound, Same, Asks, FileIsIn, SubtitleIsIn
    <2> QED BY <2>2, <2>3, <2>4 DEF Same
<1>5. CASE CountFailure(p)
    BY <1>5, PauseActs DEF Pauses
<1> QED BY <1>1, <1>2, <1>3, <1>4, <1>5 DEF WriteFailed, Delivery

LEMMA ReadRowKeeps ==
    ASSUME IInv, NEW p \in Processes, NEW outcome \in Outcomes \cup {"limited"}, ReadRow(p, outcome)
    PROVE  IInv'
<1> DEFINE d == proc[p]
           e == [d EXCEPT !.pc = "verify", !.filled = Filled]
<1>1. /\ TypeOK /\ d \in Delivery /\ d.v \in Videos /\ d.pc = "read"
      /\ Sound(d, Filled) /\ video[d.v].status # "none"
    BY UnderWay DEF ReadRow
<1>2. UNCHANGED <<dataVars, rowVars, paidVars, mediaVars>>
    BY DEF ReadRow
<1>3. CASE Finish(p) /\ UNCHANGED <<job, unseen>>
    BY <1>1, <1>2, <1>3, FinishKeeps DEF TypeOK, Events, dataVars
<1>4. CASE (\E reason \in Pauses : Pause(p, reason)) /\ UNCHANGED unseen
    BY <1>1, <1>2, <1>4, PauseActs, FinishKeeps DEF TypeOK, Events, dataVars
<1>5. CASE WriteFailed(p, outcome = "limited") /\ UNCHANGED unseen
    <2>1. CASE /\ Finish(p) /\ job' \in [Videos -> JobRow]
               /\ \A v \in Videos : job'[v].on <=> job[v].on
        BY <1>1, <1>2, <1>5, <2>1, FinishKeeps DEF TypeOK, Events, dataVars
    <2>2. ASSUME NEW x \in Delivery, Become(p, x), x.v = d.v, x.pc \in {"subtitle", "read"},
                 Sound(x, Filled), UNCHANGED job
          PROVE  IInv'
        <3>1. Held(p)'
            BY <1>1, <1>2, <2>2, SoundIsHeld DEF dataVars, rowVars
        <3> QED BY <1>1, <1>2, <1>5, <2>2, <3>1, QuietKeeps DEF TypeOK, Events, dataVars
    <2> QED BY <1>1, <1>5, <2>1, <2>2, WriteFailedActs
<1>6. CASE Become(p, e) /\ unseen' = [unseen EXCEPT ![p] = {}] /\ UNCHANGED job /\ job[d.v].on
    <2>1. Filled \subseteq Fields
        BY DEF Filled
    <2>2. /\ e \in Delivery /\ e.pc = "verify" /\ e.filled = Filled /\ e.v = d.v
          /\ e.n = d.n /\ e.goal = d.goal /\ e.done = d.done /\ e.has = d.has
          /\ e.seen = d.seen /\ e.filePending = d.filePending
          /\ e.subtitle = d.subtitle /\ e.subtitlePending = d.subtitlePending
        BY <1>1, <2>1 DEF Delivery
    <2> HIDE DEF e
    <2>3. Sound(e, Filled)
        BY <1>1, <2>2 DEF Sound, Asks, FileIsIn, SubtitleIsIn
    <2>4. proc'[p] = e /\ Filled' = Filled
        BY <1>1, <1>2, <1>6, <2>2, BecomeActs DEF Filled, rowVars
    <2>5. e.v = row.owner
        BY <1>1, <1>6, <2>2 DEF IInv, Belongs
    <2>6. Held(p)'
        BY <1>1, <1>2, <2>2, <2>3, <2>4, <2>5 DEF Held, RowKnown, dataVars, rowVars
    <2>7. /\ unseen' \in [Processes -> SUBSET Events]
          /\ \A q \in Processes \ {p} : unseen'[q] = unseen[q]
        BY <1>1, <1>6 DEF TypeOK, Events
    <2> QED BY <1>1, <1>2, <1>6, <2>2, <2>6, <2>7, QuietKeeps DEF TypeOK, dataVars
<1> QED BY <1>3, <1>4, <1>5, <1>6 DEF ReadRow, Pauses

LEMMA VerifyAttemptKeeps ==
    ASSUME IInv, NEW p \in Processes, VerifyAttempt(p)
    PROVE  IInv'
<1> DEFINE d == proc[p]
           e == [d EXCEPT !.pc = "put"]
<1>1. /\ TypeOK /\ d \in Delivery /\ d.v \in Videos /\ d.pc = "verify"
      /\ Sound(d, Filled) /\ video[d.v].status # "none" /\ RowKnown(p)
    BY UnderWay DEF VerifyAttempt, Held
<1>2. UNCHANGED <<dataVars, job, rowVars, paidVars, mediaVars>>
    BY DEF VerifyAttempt
<1>3. /\ unseen' \in [Processes -> SUBSET Events]
      /\ \A q \in Processes \ {p} : unseen'[q] = unseen[q]
      /\ unseen[p] \ {"restart"} \subseteq unseen'[p]
    BY <1>1 DEF VerifyAttempt, TypeOK, Events
<1>4. CASE Finish(p)
    BY <1>1, <1>2, <1>3, <1>4, FinishKeeps DEF TypeOK, dataVars
<1>5. CASE Become(p, e) /\ Current(d.v, d.n)
    <2>1. /\ e \in Delivery /\ e.pc = "put" /\ Same(d, e)
          /\ e.subtitle = d.subtitle /\ e.subtitlePending = d.subtitlePending
        BY <1>1 DEF Delivery, Same
    <2> HIDE DEF e
    <2>2. Sound(e, Filled)
        BY <1>1, <2>1 DEF Sound, Asks, FileIsIn, SubtitleIsIn, Same
    <2>3. proc'[p] = e /\ Filled' = Filled
        BY <1>1, <1>2, <1>5, <2>1, BecomeActs DEF Filled, rowVars
    <2>4. RowKnown(p)'
        BY <1>1, <1>2, <1>3, <2>1, <2>3 DEF RowKnown, Same, rowVars, Filled, Fields
    <2>5. AttemptKnown(p)'
        BY <1>2, <1>5, <2>1, <2>3 DEF AttemptKnown, Current, Same, dataVars
    <2>6. Held(p)'
        BY <1>1, <1>2, <2>1, <2>2, <2>3, <2>4, <2>5 DEF Held, Same, dataVars
    <2> QED BY <1>1, <1>2, <1>3, <1>5, <2>1, <2>6, QuietKeeps DEF TypeOK, dataVars
<1> QED BY <1>4, <1>5 DEF VerifyAttempt

LEMMA SettleJobKeeps ==
    ASSUME IInv, NEW p \in Processes, SettleJob(p)
    PROVE  IInv'
<1> DEFINE v == proc[p].v
<1>1. TypeOK /\ v \in Videos /\ job[v] \in JobRow
    BY UnderWay DEF SettleJob
<1>2. \E j \in JobRow : (j.on => job[v].on) /\ job' = [job EXCEPT ![v] = j]
    <2>1. \A j \in JobRow, reason \in {"subtitle", "speech", "translation"} :
             /\ Increment(j) \in JobRow /\ (Increment(j).on <=> j.on)
             /\ Block(j, reason) \in JobRow /\ (Block(j, reason).on <=> j.on)
             /\ NoJob \in JobRow /\ ~NoJob.on
        BY JobTypes DEF Pauses
    <2>2. /\ \A j \in {Increment(job[v]), job[v], NoJob} : j \in JobRow /\ (j.on => job[v].on)
          /\ \A reason \in {"subtitle", "speech", "translation"} :
                /\ Block(job[v], reason) \in JobRow /\ (Block(job[v], reason).on => job[v].on)
                /\ Block(Increment(job[v]), reason) \in JobRow
                /\ Block(Increment(job[v]), reason).on => job[v].on
        BY <1>1, <2>1
    <2>3. \/ \E j \in {Increment(job[v]), job[v], NoJob} : job' = [job EXCEPT ![v] = j]
          \/ \E reason \in {"subtitle", "speech", "translation"} :
                \/ job' = [job EXCEPT ![v] = Block(job[v], reason)]
                \/ job' = [job EXCEPT ![v] = Block(Increment(job[v]), reason)]
        BY DEF SettleJob
    <2> QED BY <2>2, <2>3
<1>3. Finish(p) /\ UNCHANGED <<dataVars, rowVars, paidVars, mediaVars, unseen, budget>>
    BY DEF SettleJob
<1> HIDE DEF v
<1>4. job' \in [Videos -> JobRow] /\ \A w \in Videos : job'[w].on => job[w].on
    BY <1>1, <1>2 DEF TypeOK
<1> QED BY <1>1, <1>3, <1>4, FinishKeeps DEF TypeOK, Events, dataVars

\* What a delivery writes: only what was empty when it read the row, and all of that.
Written(d, outcome) == IF outcome \in {"ok", "lost"} THEN EmptyFieldPatch(d) ELSE {}

LEMMA PutActs ==
    ASSUME IInv, NEW p \in Processes, NEW outcome, PutRow(p, outcome)
    PROVE  LET fields == Written(proc[p], outcome) IN
           /\ fields \subseteq Fields /\ Filled' = Filled \cup fields
           /\ cell' \in [Fields -> Videos \cup {Person, None}]
           /\ \A f \in Fields \ fields : cell'[f] = cell[f]
           /\ \A f \in fields : cell'[f] # None
           /\ unseen' \in [Processes -> SUBSET Events] /\ unseen'[p] = unseen[p]
           /\ \A q \in Processes \ {p} : unseen'[q] = unseen[q] \cup fields
<1> DEFINE d == proc[p]
           fields == Written(d, outcome)
<1>1. TypeOK /\ d \in Delivery /\ d.v \in Videos
    BY UnderWay DEF PutRow
<1>2. /\ cell' = [f \in Fields |-> IF f \in fields THEN d.v ELSE cell[f]]
      /\ unseen' = [q \in Processes |-> IF q = p THEN unseen[q] ELSE unseen[q] \cup fields]
    BY DEF PutRow, Written
<1>3. fields \subseteq Fields
    BY <1>1 DEF Written, EmptyFieldPatch, Proposed, Fields
<1>4. d.v # None
    BY <1>1, DeliveryConstants
<1> HIDE DEF fields, d
<1>5. /\ cell' \in [Fields -> Videos \cup {Person, None}]
      /\ \A f \in Fields \ fields : cell'[f] = cell[f]
      /\ \A f \in fields : cell'[f] # None
    BY <1>1, <1>2, <1>3, <1>4 DEF TypeOK
<1>6. Filled' = Filled \cup fields
    BY <1>3, <1>5 DEF Filled
<1>7. /\ unseen' \in [Processes -> SUBSET Events] /\ unseen'[p] = unseen[p]
      /\ \A q \in Processes \ {p} : unseen'[q] = unseen[q] \cup fields
    BY <1>1, <1>2, <1>3 DEF TypeOK, Events
<1> QED BY <1>3, <1>5, <1>6, <1>7 DEF fields, d

\* A write that took place has put what the delivery was to put.
LEMMA AfterPutActs ==
    ASSUME NEW d \in Delivery, NEW full, NEW more, Sound(d, full), d.pc = "put",
           full \cup EmptyFieldPatch(d) = more, d.goal # "early"
    PROVE  LET a == AfterPut(d) IN
           a \in Delivery /\ a.v = d.v /\ a.pc \in {"subtitle", "read", "settle"} /\ Sound(a, more)
<1>1. Sound(d, more) /\ d.filled \subseteq more
    BY SoundGrows DEF Sound
<1>2. Proposed(d) \subseteq more
    BY <1>1 DEF EmptyFieldPatch
<1>3. CASE d.goal = "file"
    <2>1. FileIsIn(d, more) /\ d.n # 0 /\ d.seen \cup d.filled \subseteq more
        BY <1>1, <1>2, <1>3 DEF Proposed, FileIsIn, Sound
    <2>2. AfterPut(d) = AfterFile(d)
        BY <1>3 DEF AfterPut
    <2> QED BY <2>1, <2>2, AfterFileActs
<1>4. CASE d.goal = "final"
    <2> DEFINE a == [d EXCEPT !.pc = "settle"]
    <2>1. AfterPut(d) = a
        BY <1>4 DEF AfterPut
    <2>2. a \in Delivery /\ a.pc = "settle" /\ Same(d, a) /\ a.subtitlePending = d.subtitlePending
        BY DEF Delivery, Same
    <2> HIDE DEF a
    <2>3. TextIsIn(a, more)
        BY <1>2, <1>4, <2>2 DEF TextIsIn, Proposed, Same
    <2>4. FileIsIn(a, more) /\ SubtitleIsIn(a, more)
        <3>1. FileIsIn(d, more) /\ (d.subtitle \/ SubtitleIsIn(d, more))
            BY <1>1, <1>4 DEF Sound
        <3>2. d.subtitle => "subtitle" \in more
            BY <1>2, <1>4 DEF Proposed
        <3> QED BY <2>2, <3>1, <3>2 DEF FileIsIn, SubtitleIsIn, Same
    <2>5. Sound(a, more)
        BY <1>1, <1>4, <2>2, <2>3, <2>4 DEF Sound, Same, Asks
    <2> QED BY <2>1, <2>2, <2>5 DEF Same
<1> QED BY <1>3, <1>4 DEF Delivery

LEMMA PutRowKeeps ==
    ASSUME IInv, NEW p \in Processes, NEW outcome \in Outcomes \cup {"limited", "lost"},
           PutRow(p, outcome)
    PROVE  IInv'
<1> DEFINE d == proc[p]
           fields == Written(d, outcome)
<1>1. /\ TypeOK /\ d \in Delivery /\ d.v \in Videos /\ d.pc = "put"
      /\ Sound(d, Filled) /\ video[d.v].status # "none"
    BY UnderWay DEF PutRow
<1>2. UNCHANGED <<dataVars, row, paidVars, mediaVars>>
    BY DEF PutRow
<1>3. /\ fields \subseteq Fields /\ Filled' = Filled \cup fields
      /\ cell' \in [Fields -> Videos \cup {Person, None}]
      /\ \A f \in Fields \ fields : cell'[f] = cell[f]
      /\ \A f \in fields : cell'[f] # None
      /\ unseen' \in [Processes -> SUBSET Events]
      /\ \A q \in Processes \ {p} : unseen'[q] = unseen[q] \cup fields
    BY PutActs
<1>4. ASSUME NEW x \in Delivery, Become(p, x), x.pc # "ask", Held(p)',
             job' \in [Videos -> JobRow], \A v \in Videos : job'[v].on => job[v].on
      PROVE  IInv'
    <2>1. proc'[p] = x /\ \A q \in Processes \ {p} : proc'[q] = proc[q]
        BY <1>1, <1>4, BecomeActs
    <2>2. ASSUME NEW v \in Videos, NEW n \in Numbers PROVE Marked(v, n)'
        BY <1>1, <1>2, <1>4, <2>1, MarkedKept DEF IInv, paidVars
    <2>3. /\ \A f \in Fields : cell[f] # None => cell'[f] # None
          /\ \A q \in Processes \ {p} :
                /\ unseen[q] \subseteq unseen'[q]
                /\ \A f \in Fields : cell'[f] # None => cell[f] # None \/ f \in unseen'[q]
        <3> HIDE DEF fields
        <3> QED BY <1>3
    <2> QED BY <1>1, <1>2, <1>3, <1>4, <2>2, <2>3, MoveKeeps DEF TypeOK, dataVars, paidVars
<1>5. CASE /\ Finish(p) /\ job' \in [Videos -> JobRow]
           /\ \A v \in Videos : job'[v].on => job[v].on
    <2>1. Become(p, Idle) /\ proc'[p] = Idle /\ Idle.pc # "ask"
        BY <1>1, <1>5, IdleType, BecomeActs DEF Finish, Idle
    <2> QED BY <1>4, <1>5, <2>1, IdleType, IdleHeld
<1>6. ASSUME NEW x \in Delivery, Become(p, x), x.v = d.v, x.pc \in {"subtitle", "read", "settle"},
             Sound(x, Filled'), UNCHANGED job
      PROVE  IInv'
    <2>1. proc'[p] = x
        BY <1>1, <1>6, BecomeActs
    <2>2. Held(p)'
        BY <1>1, <1>2, <1>6, <2>1 DEF Held, dataVars
    <2> QED BY <1>1, <1>4, <1>6, <2>2 DEF TypeOK
<1>7. CASE Become(p, AfterPut(d)) /\ UNCHANGED job /\ outcome = "ok"
    <2>1. CASE d.goal = "early"
        BY <1>1, <1>5, <1>7, <2>1 DEF AfterPut, Finish, TypeOK
    <2>2. CASE d.goal # "early"
        <3>1. Filled \cup EmptyFieldPatch(d) = Filled'
            BY <1>3, <1>7 DEF Written
        <3>2. /\ AfterPut(d) \in Delivery /\ AfterPut(d).v = d.v
              /\ AfterPut(d).pc \in {"subtitle", "read", "settle"} /\ Sound(AfterPut(d), Filled')
            BY <1>1, <2>2, <3>1, AfterPutActs
        <3> QED BY <1>6, <1>7, <3>2
    <2> QED BY <2>1, <2>2
<1>8. CASE Pause(p, "denied")
    BY <1>1, <1>5, <1>8, PauseActs DEF Pauses
<1>9. CASE WriteFailed(p, outcome = "limited")
    <2>1. Sound(d, Filled')
        BY <1>1, <1>3, SoundGrows
    <2> QED BY <1>1, <1>5, <1>6, <1>9, <2>1, WriteFailedActs
<1> QED BY <1>7, <1>8, <1>9 DEF PutRow

-----------------------------------------------------------------------------
(* The invariant.                                                          *)

LEMMA InitIInv ==
    ASSUME Init
    PROVE  IInv
<1> DEFINE l == CHOOSE x \in Links : TRUE
<1>1. /\ l \in Links /\ First \in Videos /\ 0 \in 0 .. MaxAttempts /\ 0 \in 0 .. SubtitleRequests
      /\ None \in Videos \cup {Person, None}
    BY DeliveryConstants DEF SubtitleRequests
<1>2. /\ video = [v \in Videos |-> IF v = First THEN NewVideo(l) ELSE NoVideo]
      /\ row = [link |-> l, owner |-> First]
    BY DEF Init
<1>3. /\ NewVideo(l) \in VideoRow /\ NewVideo(l).status = "queued" /\ NewVideo(l).has = {}
      /\ NoVideo \in VideoRow /\ NoVideo.status = "none" /\ NoVideo.has = {}
    BY <1>1, NewVideoType
<1>4. /\ video \in [Videos -> VideoRow] /\ row \in [link : Links, owner : Videos]
      /\ \A v \in Videos : /\ video[v].has = {} /\ video[v].status \in {"none", "queued"}
                           /\ video[v].status = "none" => v # First
    BY <1>1, <1>2, <1>3
<1>5. job \in [Videos -> JobRow] /\ \A v \in Videos : job[v].on => v = First
    <2>1. job = [v \in Videos |-> IF v = First THEN NewJob ELSE NoJob]
        BY DEF Init
    <2> QED BY <2>1, JobTypes DEF Pauses, JobRow, NoJob, NewJob
<1>6. proc \in [Processes -> Delivery] /\ \A p \in Processes : proc[p] = Idle
    BY IdleType DEF Init
<1>7. TypeOK
    <2>1. /\ stage \in Stages /\ asking \in [Videos -> 0 .. MaxAttempts] /\ early \subseteq Videos
          /\ cell \in [Fields -> Videos \cup {Person, None}]
          /\ markers \in [Videos -> [Numbers -> 0 .. SubtitleRequests]]
          /\ cache \in [Videos -> [Numbers -> BOOLEAN]]
          /\ paid \in [Videos -> [Numbers -> Nat]]
          /\ disk \in [Videos -> BOOLEAN] /\ prune \in [Videos -> {"no", "candidate", "released"}]
          /\ crossed \subseteq Videos
          /\ unseen \in [Processes -> SUBSET Events]
        BY <1>1 DEF Init, Stages
    <2> QED BY <1>4, <1>5, <1>6, <2>1 DEF TypeOK, Stages, Events
<1>8. ASSUME NEW v \in Videos PROVE Belongs(v)
    BY <1>4, <1>5 DEF Init, Belongs, Terminal
<1>9. ASSUME NEW v \in Videos, NEW n \in Numbers PROVE Marked(v, n)
    <2>1. Asking(v, n) = {}
        BY <1>6 DEF Asking, Idle
    <2>2. Cardinality(Asking(v, n)) = 0
        BY <2>1, FS_EmptySet
    <2> QED BY <2>2 DEF Init, Marked
<1>10. ASSUME NEW p \in Processes PROVE Held(p)
    <2>1. /\ proc[p] = Idle /\ Idle.pc = "idle" /\ Idle.goal = "final"
          /\ Idle.seen = {} /\ Idle.filled = {}
        BY <1>6 DEF Idle
    <2> QED BY <2>1 DEF Held, Sound, Asks
<1> QED BY <1>7, <1>8, <1>9, <1>10 DEF IInv

LEMMA StutterIInv ==
    ASSUME IInv, UNCHANGED vars
    PROVE  IInv'
<1>1. TypeOK'
    BY DEF IInv, TypeOK, vars, dataVars, rowVars, paidVars, mediaVars
<1> QED BY <1>1, AsideKeeps
        DEF IInv, GoesOn, Belongs, vars, dataVars, rowVars, paidVars, mediaVars

LEMMA NextIInv ==
    ASSUME IInv, [Next]_vars
    PROVE  IInv'
<1>1. ASSUME NEW v \in Videos, Attempt(v) PROVE IInv'
    <2>1. ASSUME NEW ok \in BOOLEAN, EndAttempt(v, ok) PROVE IInv'
        BY <2>1, EndAttemptKeeps
    <2>2. ASSUME NEW ok \in BOOLEAN, TranslationEnds(v, ok) PROVE IInv'
        BY <2>2, TranslationEndsKeeps
    <2>3. ASSUME Translate(v) \/ \E n \in Numbers : AgeStage(v, n) PROVE IInv'
        BY <2>3, StageKeeps
    <2>4. ASSUME StartAttempt(v) PROVE IInv'
        BY <2>4, StartAttemptKeeps
    <2>5. ASSUME Transcribe(v) PROVE IInv'
        BY <2>5, TranscribeKeeps
    <2>6. ASSUME Download(v) PROVE IInv'
        BY <2>6, DownloadKeeps
    <2> QED BY <1>1, <2>1, <2>2, <2>3, <2>4, <2>5, <2>6 DEF Attempt
<1>2. ASSUME NEW v \in Videos,
             (\E l \in Links : Click(v, l)) \/ Restart(v) \/ RetryDue(v) \/ TranslationLost(v)
             \/ PruneCandidate(v) \/ Prune(v)
      PROVE  IInv'
    <2>1. ASSUME PruneCandidate(v) \/ Prune(v) PROVE IInv'
        BY <2>1, PruneKeeps DEF Prune
    <2> QED BY <1>2, <2>1, ClickKeeps, RestartKeeps, RetryDueKeeps, StageKeeps
<1>3. ASSUME (\E f \in Fields : Edit(f)) \/ (\E l \in Links : EditLink(l)) \/ BridgeSubtitle
      PROVE  IInv'
    BY <1>3, EditKeeps, EditLinkKeeps DEF Fields
<1>4. ASSUME NEW p \in Processes, Deliver(p) PROVE IInv'
    <2>1. ASSUME NEW o \in Outcomes, CheckRow(p, o) \/ UploadFile(p, o) \/ AskTranslation(p, o)
          PROVE  IInv'
        BY <2>1, CheckRowKeeps, UploadKeeps, AskTranslationKeeps
    <2>2. ASSUME ReserveRequest(p) \/ VerifyAttempt(p) \/ SettleJob(p) PROVE IInv'
        BY <2>2, ReserveRequestKeeps, VerifyAttemptKeeps, SettleJobKeeps
    <2> QED BY <1>4, <2>1, <2>2, SubtitlesKeeps, ReadRowKeeps, PutRowKeeps DEF Deliver
<1>5. ASSUME NEW p \in Processes,
             (\E v \in Videos : BeginFinal(p, v) \/ BeginEarly(p, v)) \/ Crash(p)
      PROVE  IInv'
    BY <1>5, BeginFinalKeeps, BeginEarlyKeeps, CrashKeeps
<1> QED BY <1>1, <1>2, <1>3, <1>4, <1>5, StutterIInv DEF Next

\* Whatever the clicks, the retries, the edits, the faults, the crashes and the number of
\* processes, the jobs belong to the row's last click, every paid request has its own
\* marker, and a delivery knows what it has still to write.
THEOREM Invariant == Spec => []IInv
<1>1. Init => IInv
    BY InitIInv
<1>2. IInv /\ [Next]_vars => IInv'
    BY NextIInv
<1> QED BY <1>1, <1>2, PTL DEF Spec

\* Rows, jobs, cells, markers and deliveries keep their types (the tables of
\* database.ts:120, the delivery state of automation.ts:501).
THEOREM TypeCorrect == Spec => []TypeOK
<1>1. IInv => TypeOK
    BY DEF IInv
<1> QED BY <1>1, Invariant, PTL

\* The provider is asked at most twice for the subtitles of one attempt, whatever the
\* passes, their retries, the crashes and the processes (subtitle.ts:82): each request
\* under way, like each that was sent, has left a marker of its own.
THEOREM SubtitlesBudgeted == Spec => []SubtitleBudget
<1>1. ASSUME IInv, NEW v \in Videos, NEW n \in Numbers PROVE paid[v][n] <= SubtitleRequests
    <2>1. markers[v][n] \in 0 .. SubtitleRequests /\ paid[v][n] \in Nat /\ Marked(v, n)
        BY <1>1, MarkerActs DEF IInv
    <2>2. Cardinality(Asking(v, n)) \in Nat
        BY AsksFinite, DeliveryConstants DEF Asking
    <2> QED BY <2>1, <2>2 DEF Marked, SubtitleRequests
<1>2. IInv => SubtitleBudget
    BY <1>1 DEF SubtitleBudget
<1> QED BY <1>2, Invariant, PTL

\* A row names a file that the pruning has deleted only if a retry downloaded it between the
\* two; where a job is pending never, for what is pruned has none and gets none again
\* (media-retention.ts:41-54).
THEOREM FilesKept == Spec => []NoMissingFile
<1>1. IInv => NoMissingFile
    BY DEF IInv, Belongs, NoMissingFile
<1> QED BY <1>1, Invariant, PTL

-----------------------------------------------------------------------------
(* What a write replaces, and when a job is deleted.                       *)

\* A delivery moves by a step of its own process.
LEMMA MovesItself ==
    ASSUME IInv, Next, NEW p \in Processes, proc'[p] # proc[p]
    PROVE  (\E v \in Videos : BeginFinal(p, v) \/ BeginEarly(p, v)) \/ Deliver(p) \/ Crash(p)
<1> DEFINE Moves(q) == \E d : Become(q, d)
<1>1. UNCHANGED proc \/ \E q \in Processes :
         (\E v \in Videos : BeginFinal(q, v) \/ BeginEarly(q, v)) \/ Deliver(q) \/ Crash(q)
    BY DEF Next, Click, Restart, Attempt, StartAttempt, Transcribe, Translate, Download, EndAttempt,
           TranslationEnds, AgeStage, RetryDue, TranslationLost, PruneCandidate, Prune, PruneRelease,
           PruneRemove, Edit, EditLink, BridgeSubtitle
<1>2. ASSUME NEW q \in Processes,
             (\E v \in Videos : BeginFinal(q, v) \/ BeginEarly(q, v)) \/ Crash(q)
      PROVE  UNCHANGED proc \/ Moves(q)
    BY <1>2 DEF BeginFinal, BeginEarly, Crash, Finish
<1>3. ASSUME NEW q \in Processes, Deliver(q) PROVE Moves(q)
    <2>1. \A l : WriteFailed(q, l) => Moves(q)
        BY DEF WriteFailed, Finish, CountFailure
    <2>2. \A reason : Pause(q, reason) => Moves(q)
        BY DEF Pause, Finish
    <2>3. CountFailure(q) \/ Finish(q) => Moves(q)
        BY DEF CountFailure, Finish
    <2>4. \A o : /\ CheckRow(q, o) \/ UploadFile(q, o) \/ AskTranslation(q, o) => Moves(q)
                 /\ Subtitles(q, o) => Moves(q)
        BY <2>2, <2>3 DEF CheckRow, UploadFile, AskTranslation, Subtitles
    <2>5. \A o : ReadRow(q, o) \/ PutRow(q, o) => Moves(q)
        BY <2>1, <2>2, <2>3 DEF ReadRow, PutRow
    <2>6. ReserveRequest(q) \/ VerifyAttempt(q) \/ SettleJob(q) => Moves(q)
        BY <2>3 DEF ReserveRequest, VerifyAttempt, SettleJob
    <2> QED BY <1>3, <2>4, <2>5, <2>6 DEF Deliver
<1>4. ASSUME NEW q \in Processes, UNCHANGED proc \/ Moves(q) PROVE q = p
    BY <1>4 DEF IInv, TypeOK, Become
<1> QED BY <1>1, <1>2, <1>3, <1>4

LEMMA PutsStep ==
    ASSUME IInv, Next, NEW p \in Processes, proc[p].pc = "put", proc'[p] # proc[p], cell' # cell
    PROVE  /\ \A f \in Fields : cell[f] # None /\ cell'[f] # cell[f] => f \in unseen[p]
           /\ proc[p].v = row.owner \/ "click" \in unseen[p]
           /\ Current(proc[p].v, proc[p].n) \/ "restart" \in unseen[p]
<1> DEFINE d == proc[p]
<1>1. PICK o \in Outcomes \cup {"limited", "lost"} : PutRow(p, o)
    <2>1. (\E v \in Videos : BeginFinal(p, v) \/ BeginEarly(p, v)) \/ Deliver(p) \/ Crash(p)
        BY MovesItself
    <2> QED BY <2>1 DEF Deliver, BeginFinal, BeginEarly, Crash, Free, CheckRow, UploadFile,
                        AskTranslation, Subtitles, ReserveRequest, VerifyAttempt, SettleJob, ReadRow,
                        rowVars
<1>2. Held(p)
    BY DEF IInv
<1>3. RowKnown(p) /\ AttemptKnown(p)
    BY <1>2 DEF Held
<1>4. ASSUME NEW f \in Fields, cell[f] # None, cell'[f] # cell[f] PROVE f \in unseen[p]
    <2>1. f \in Written(d, o)
        BY <1>1, <1>4, PutActs
    <2>2. f \notin d.filled /\ f \in Filled
        BY <1>4, <2>1 DEF Written, EmptyFieldPatch, Filled
    <2> QED BY <1>3, <2>2 DEF RowKnown
<1> QED BY <1>3, <1>4 DEF RowKnown, AttemptKnown

\* A write replaces what a cell holds only when it was put there after the delivery read
\* the row for that very write, and writes for the row's last click and the attempt that
\* the video is at, unless the click or the retry came after its last look
\* (automation.ts:369-387).
THEOREM PutsRespect == Spec => PutsRespectRow
<1>1. IInv /\ [Next]_vars =>
      [\A p \in Processes :
          LET d == proc[p] IN
          d.pc = "put" /\ proc'[p] # d /\ cell' # cell
          => /\ \A f \in Fields : cell[f] # None /\ cell'[f] # cell[f] => f \in unseen[p]
             /\ d.v = row.owner \/ "click" \in unseen[p]
             /\ Current(d.v, d.n) \/ "restart" \in unseen[p]]_vars
    BY PutsStep
<1> QED BY <1>1, Invariant, PTL DEF Spec, PutsRespectRow

LEMMA RetiresStep ==
    ASSUME IInv, Next, NEW p \in Processes, proc[p].pc = "settle", proc'[p] # proc[p],
           job[proc[p].v].on, ~job'[proc[p].v].on
    PROVE  /\ proc[p].has \subseteq Filled
           /\ proc[p].done /\ "speech" \in proc[p].has => "subtitle" \in Filled
<1> DEFINE d == proc[p]
           j == job[d.v]
<1>1. SettleJob(p)
    <2>1. (\E v \in Videos : BeginFinal(p, v) \/ BeginEarly(p, v)) \/ Deliver(p) \/ Crash(p)
        BY MovesItself
    <2> QED BY <2>1 DEF Deliver, BeginFinal, BeginEarly, Crash, Free, CheckRow, UploadFile,
                        AskTranslation, Subtitles, ReserveRequest, VerifyAttempt, ReadRow, PutRow
<1>2. TypeOK /\ d \in Delivery /\ d.v \in Videos /\ j \in JobRow /\ Sound(d, Filled)
    BY UnderWay
<1>3. ~d.filePending /\ ~d.subtitlePending
    <2>1. \A reason \in {"subtitle", "speech", "translation"} :
             /\ Increment(j).on <=> j.on
             /\ Block(j, reason).on <=> j.on
             /\ Block(Increment(j), reason).on <=> j.on
        BY <1>2, JobTypes DEF Pauses
    <2>2. CASE d.filePending \/ d.subtitlePending
        <3>1. \/ job' = [job EXCEPT ![d.v] = Block(Increment(j), "subtitle")]
              \/ job' = [job EXCEPT ![d.v] = Increment(j)]
            BY <1>1, <2>2 DEF SettleJob
        <3>2. job'[d.v].on <=> j.on
            BY <1>2, <2>1, <3>1 DEF TypeOK
        <3> QED BY <3>2
    <2> QED BY <2>2
<1>4. FileIsIn(d, Filled) /\ SubtitleIsIn(d, Filled) /\ TextIsIn(d, Filled)
    BY <1>2 DEF Sound
<1>5. d.has \subseteq Results
    BY <1>2 DEF Delivery
<1> QED BY <1>3, <1>4, <1>5 DEF FileIsIn, SubtitleIsIn, TextIsIn, Results, Fields

\* A pass that deletes its job has found or written in the row everything the video had
\* when it began: the file, the text and, of a completed video, the subtitles
\* (automation.ts:585).
THEOREM RetiredDelivered == Spec => RetiredWhenDelivered
<1>1. IInv /\ [Next]_vars =>
      [\A p \in Processes :
          LET d == proc[p] IN
          d.pc = "settle" /\ proc'[p] # d /\ job[d.v].on /\ ~job'[d.v].on
          => /\ d.has \subseteq Filled
             /\ d.done /\ "speech" \in d.has => "subtitle" \in Filled]_vars
    BY RetiresStep
<1> QED BY <1>1, Invariant, PTL DEF Spec, RetiredWhenDelivered

================================================================================
