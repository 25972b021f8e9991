------------------------- MODULE VideoAnalysis_proofs -------------------------
(***************************************************************************)
(* Theorems about the attempts at videos, for any videos, any bounds on    *)
(* attempts, requests and retries, and any budgets.                        *)
(*                                                                         *)
(* IInv is inductive.  It is proved in four parts, each of which uses only *)
(* those before it: the types, the slots, the requests, and the files with *)
(* the run that an attempt belongs to.                                     *)
(***************************************************************************)
EXTENDS VideoAnalysis, FiniteSetTheorems, SequenceTheorems, TLAPS

\* Where an attempt is: before it has looked for a file, while it looks, with one in hand
\* that the row does not know yet, and with the one of the row.
Early   == {"begin", "fetch", "connect", "pause", "tools", "fetched", "save"}
Looking == {"next", "mark", "download"}
Chosen  == {"chosen", "savePath"}
Late    == {"use", "await", "complete", "deliver"}
Unsaved == {"none", "load"} \cup Early \cup Looking \cup Chosen

\* It is under way, and its run waits for it.
Live(a) == at[a].pc \notin {"none", "resolved", "rejected"} /\ (~Aborted(a) \/ Sending(a))

\* A number that was not given yet.
Untouched(a) ==
    a[2] > row[a[1]].n =>
        at[a] = NoAttempt /\ tool[a] = NoCalls /\ trans[a] = "off" /\ asks[a] = Unasked

-----------------------------------------------------------------------------
\* Tasks that hold a slot, and that wait for one.
Holding(tasks) == {a \in Attempts : tasks[a] = "ask"}
Waiting(tasks) == {a \in Attempts : tasks[a] = "slot"}

\* A queue holds each of those that wait once.
Queue(queue, tasks) ==
    /\ queue \in Seq(Attempts)
    /\ {queue[k] : k \in DOMAIN queue} = Waiting(tasks)
    /\ \A j, k \in DOMAIN queue : queue[j] = queue[k] => j = k

SlotInv ==
    /\ IsFiniteSet(Holding(trans)) /\ active = Cardinality(Holding(trans))
    /\ Queue(waiters, trans)
    /\ waiters # <<>> => active = MaxRequests

\* What an attempt has asked for at each place, and may still ask for.
FetchesAt(a) ==
    /\ at[a].pc \in {"none", "load", "begin", "fetch"} => asks[a]["fetch"] = 0
    /\ at[a].pc = "pause" => asks[a]["fetch"] <= 1
    /\ asks[a]["fetch"] <= 2

CallsAt(a, t) ==
    /\ at[a].pc \in {"none", "load", "begin", "fetch", "connect", "pause"} => asks[a][t] = 0
    /\ tool[a][t] = "first" => asks[a][t] <= 1
    /\ asks[a][t] <= 2

DownloadsAt(a) ==
    /\ \/ at[a].pc \in {"none", "load"} \cup Early
       \/ at[a].pc = "next" /\ at[a].left # <<>> /\ Head(at[a].left) = "TokScript"
       => asks[a]["TokScript"] = 0
    /\ asks[a]["TokScript"] <= 2

TranslationsAt(a) ==
    /\ trans[a] \in {"off", "check"} => asks[a]["translation"] = 0
    /\ trans[a] = "slot" => asks[a]["translation"] <= Retries
    /\ asks[a]["translation"] <= Retries + 1

RequestsAt(a) ==
    IF Aborted(a) THEN asks[a] = Unasked /\ tool[a] = NoCalls /\ trans[a] # "slot"
    ELSE /\ FetchesAt(a) /\ CallsAt(a, "transcript") /\ CallsAt(a, "download")
         /\ DownloadsAt(a) /\ TranslationsAt(a)

-----------------------------------------------------------------------------
\* The run of a video: the number of the row is its own, what it cleans up is not
\* completed, and the row points at a file of the video.
RunOf(v) ==
    /\ run[v].n = row[v].n
    /\ run[v].pc # "idle" => run[v].n \in Numbers
    /\ run[v].pc \in {"clean", "forget"} => row[v].status # "completed"

PathOf(v) ==
    /\ row[v].path # None =>
          row[v].path.video = v /\ (row[v].path \in files \/ run[v].pc = "forget")
    /\ row[v].status = "completed" => row[v].path # None

\* The run of an attempt that is live waits for that attempt.
Awaited(a) == Live(a) => run[a[1]].pc = "racing" /\ run[a[1]].n = a[2]

\* What was spoken is in hand before the row is written.
TextAt(a) ==
    Live(a) /\ at[a].pc # "load" /\ row[a[1]].text = "spoken" => at[a].text = "spoken"

\* The file in hand is that of the row, or its own and on the disk.
PathAt(a) ==
    Live(a) =>
        /\ at[a].pc \in Early \cup Late => at[a].path = row[a[1]].path
        /\ at[a].pc \in Late => at[a].path # None
        /\ at[a].pc \in Looking => at[a].path = None /\ row[a[1]].path = None
        /\ at[a].pc \in Chosen => at[a].path # None /\ at[a].path \in OwnFiles(a)

\* The files of an attempt: none before it looks for one; the row does not know them
\* before it writes the path.
FilesAt(a) ==
    /\ at[a].spare # None => at[a].spare.video = a[1] /\ at[a].spare.n = a[2]
    /\ at[a].pc \in {"none", "load"} \cup Early => OwnFiles(a) = {}
    /\ at[a].pc \in Looking => OwnFiles(a) \subseteq {at[a].spare}
    /\ at[a].pc \notin Looking => OwnFiles(a) \subseteq {at[a].path}
    /\ at[a].pc \in Unsaved /\ row[a[1]].path # None => row[a[1]].path.n # a[2]

-----------------------------------------------------------------------------
RequestInv == \A a \in Attempts : Untouched(a) /\ RequestsAt(a)
ResultsAt(a) == Awaited(a) /\ TextAt(a) /\ PathAt(a) /\ FilesAt(a)
FileInv == (\A v \in Videos : RunOf(v) /\ PathOf(v)) /\ \A a \in Attempts : ResultsAt(a)
IInv == TypeOK /\ SlotInv /\ RequestInv /\ FileInv

LEMMA Limits == MaxAttempts \in Nat /\ MaxRequests \in Nat \ {0} /\ Retries \in {0, 1}
BY AnalysisConstants

-----------------------------------------------------------------------------
(* The queue for the slots.                                                *)

\* The first m of a queue are m, and whoever is behind them is the rest.
LEMMA FirstOfQueue ==
    ASSUME NEW queue \in Seq(Attempts), NEW m \in Nat, m <= Len(queue),
           \A j, k \in DOMAIN queue : queue[j] = queue[k] => j = k
    PROVE  LET in == {queue[k] : k \in 1 .. m} IN IsFiniteSet(in) /\ Cardinality(in) = m
<1> DEFINE in == {queue[k] : k \in 1 .. m}
           f == [k \in 1 .. m |-> queue[k]]
<1>1. 1 .. m \subseteq DOMAIN queue
    BY LenProperties
<1>2. f \in Bijection(1 .. m, in)
  <2>1. f \in [1 .. m -> in] /\ \A k \in 1 .. m : f[k] = queue[k]
      OBVIOUS
  <2>2. \A j, k \in 1 .. m : f[j] = f[k] => j = k
      BY <1>1, <2>1
  <2>3. \A x \in in : \E k \in 1 .. m : f[k] = x
      BY <2>1
  <2> HIDE DEF f, in
  <2> QED
      BY <2>1, <2>2, <2>3 DEF Bijection, Injection, Surjection, IsInjective
<1>3. IsFiniteSet(1 .. m) /\ Cardinality(1 .. m) = m
    BY FS_Interval
<1> QED
    BY <1>2, <1>3, FS_Bijection DEF ExistsBijection

\* Whoever comes last in a queue.
LEMMA Appended ==
    ASSUME NEW queue, NEW tasks \in [Attempts -> TaskStates], Queue(queue, tasks),
           NEW a \in Attempts, tasks[a] # "slot"
    PROVE  Queue(Append(queue, a), [tasks EXCEPT ![a] = "slot"])
<1> DEFINE q == Append(queue, a)
           t == [tasks EXCEPT ![a] = "slot"]
<1>1. queue \in Seq(Attempts) /\ q \in Seq(Attempts) /\ Len(q) = Len(queue) + 1 /\ Len(queue) \in Nat
    BY DEF Queue
<1>2. /\ DOMAIN queue = 1 .. Len(queue) /\ DOMAIN q = 1 .. Len(queue) + 1
      /\ \A k \in DOMAIN queue : q[k] = queue[k]
      /\ q[Len(queue) + 1] = a
    BY <1>1
<1>3. \A k \in DOMAIN queue : queue[k] \in Waiting(tasks) /\ queue[k] # a
    BY DEF Queue, Waiting
<1>4. \A j, k \in DOMAIN q : q[j] = q[k] => j = k
  <2> SUFFICES ASSUME NEW j \in DOMAIN q, NEW k \in DOMAIN q, q[j] = q[k] PROVE j = k
      OBVIOUS
  <2>1. CASE j \in DOMAIN queue /\ k \in DOMAIN queue
      BY <2>1, <1>2 DEF Queue
  <2>2. CASE ~(j \in DOMAIN queue /\ k \in DOMAIN queue)
      BY <2>2, <1>1, <1>2, <1>3
  <2> QED
      BY <2>1, <2>2
<1>5. {q[k] : k \in DOMAIN q} = Waiting(t)
  <2>1. Waiting(t) = Waiting(tasks) \cup {a}
      BY DEF Waiting
  <2>2. \A b \in Waiting(tasks) : \E k \in DOMAIN q : b = q[k]
      BY <1>1, <1>2 DEF Queue
  <2>3. a = q[Len(queue) + 1] /\ Len(queue) + 1 \in DOMAIN q
      BY <1>1, <1>2
  <2>4. \A k \in DOMAIN q : q[k] \in Waiting(tasks) \cup {a}
      BY <1>1, <1>2, <1>3
  <2> HIDE DEF q, t
  <2>5. Waiting(t) \subseteq {q[k] : k \in DOMAIN q}
      BY <2>1, <2>2, <2>3
  <2>6. {q[k] : k \in DOMAIN q} \subseteq Waiting(t)
      BY <2>1, <2>4
  <2> QED
      BY <2>5, <2>6
<1> HIDE DEF q, t
<1> QED
    BY <1>1, <1>4, <1>5 DEF Queue, q, t

\* Whoever leaves the queue as it gives up.
LEMMA Left ==
    ASSUME NEW queue, NEW tasks \in [Attempts -> TaskStates], Queue(queue, tasks),
           NEW a \in Attempts, tasks[a] = "slot", NEW k \in DOMAIN queue, queue[k] = a,
           NEW q, q = [j \in 1 .. Len(queue) - 1 |-> queue[IF j < k THEN j ELSE j + 1]]
    PROVE  Queue(q, [tasks EXCEPT ![a] = "done"]) /\ queue # <<>>
<1> DEFINE t == [tasks EXCEPT ![a] = "done"]
           g(j) == IF j < k THEN j ELSE j + 1
<1>1. queue \in Seq(Attempts) /\ Len(queue) \in Nat /\ DOMAIN queue = 1 .. Len(queue)
    BY LenProperties DEF Queue
<1>2. Len(queue) - 1 \in Nat /\ queue # <<>> /\ k \in 1 .. Len(queue)
    BY <1>1
<1>3. \A j \in 1 .. Len(queue) - 1 : g(j) \in DOMAIN queue /\ g(j) # k /\ q[j] = queue[g(j)]
    BY <1>1, <1>2
<1>4. q \in Seq(Attempts) /\ DOMAIN q = 1 .. Len(queue) - 1
  <2>1. \A j \in 1 .. Len(queue) - 1 : queue[g(j)] \in Attempts
      BY <1>1, <1>3
  <2> QED
      BY <1>2, <2>1, IsASeq
<1>5. \A i, j \in DOMAIN q : q[i] = q[j] => i = j
  <2> SUFFICES ASSUME NEW i \in DOMAIN q, NEW j \in DOMAIN q, q[i] = q[j] PROVE i = j
      OBVIOUS
  <2>1. g(i) = g(j)
      BY <1>3, <1>4 DEF Queue
  <2> QED
      BY <2>1, <1>2, <1>4
<1>6. {q[j] : j \in DOMAIN q} = Waiting(t)
  <2>1. \A j \in DOMAIN q : q[j] \in Waiting(tasks) /\ q[j] # a
    <3> TAKE j \in DOMAIN q
    <3>1. queue[g(j)] # a
        BY <1>3, <1>4 DEF Queue
    <3> QED
        BY <3>1, <1>3, <1>4 DEF Queue
  <2>2. \A b \in Waiting(t) : b \in Waiting(tasks) /\ b # a
      BY DEF Waiting
  <2>3. \A b \in Waiting(t) : \E j \in DOMAIN q : b = q[j]
    <3> TAKE b \in Waiting(t)
    <3>1. PICK i \in DOMAIN queue : b = queue[i]
        BY <2>2 DEF Queue
    <3>2. i # k
        BY <3>1, <2>2
    <3>3. CASE i < k
      <4>1. i \in DOMAIN q /\ g(i) = i
          BY <3>3, <1>1, <1>2, <1>4
      <4> QED
          BY <4>1, <3>1, <1>3, <1>4
    <3>4. CASE i > k
      <4>1. i - 1 \in DOMAIN q /\ g(i - 1) = i
          BY <3>4, <1>1, <1>2, <1>4
      <4> QED
          BY <4>1, <3>1, <1>3, <1>4
    <3> QED
        BY <3>2, <3>3, <3>4, <1>1, <1>2
  <2>4. Waiting(t) = Waiting(tasks) \ {a}
      BY DEF Waiting, TaskStates
  <2> HIDE DEF t
  <2>5. Waiting(t) \subseteq {q[j] : j \in DOMAIN q}
      BY <2>3
  <2>6. {q[j] : j \in DOMAIN q} \subseteq Waiting(t)
      BY <2>1, <2>4
  <2> QED
      BY <2>5, <2>6
<1> HIDE DEF t
<1> QED
    BY <1>2, <1>4, <1>5, <1>6 DEF Queue, t

\* Whoever is let in: tasks is what they are at before, and busy the requests under way.
LEMMA Admitted ==
    ASSUME NEW queue, NEW busy \in 0 .. MaxRequests, NEW tasks \in [Attempts -> TaskStates],
           Queue(queue, tasks), IsFiniteSet(Holding(tasks)), busy = Cardinality(Holding(tasks)),
           asks \in [Attempts -> [Requests -> Nat]], Admit(queue, busy, tasks)
    PROVE  /\ SlotInv' /\ active' \in 0 .. MaxRequests
           /\ trans' \in [Attempts -> TaskStates] /\ asks' \in [Attempts -> [Requests -> Nat]]
           /\ \A b \in Attempts :
                 \/ trans'[b] = tasks[b] /\ asks'[b] = asks[b]
                 \/ /\ tasks[b] = "slot" /\ trans'[b] = "ask"
                    /\ asks'[b] = [asks[b] EXCEPT !["translation"] = @ + 1]
<1> DEFINE room == MaxRequests - busy
           m == IF room < Len(queue) THEN room ELSE Len(queue)
           in == {queue[k] : k \in {j \in DOMAIN queue : j <= room}}
<1>1. /\ queue \in Seq(Attempts) /\ Len(queue) \in Nat /\ DOMAIN queue = 1 .. Len(queue)
      /\ room \in Nat /\ MaxRequests \in Nat /\ busy \in Nat
  <2>1. MaxRequests \in Nat
      BY Limits
  <2>2. queue \in Seq(Attempts)
      BY DEF Queue
  <2> QED
      BY <2>1, <2>2, LenProperties
<1>2. m \in Nat /\ m <= Len(queue) /\ m <= room /\ (m < Len(queue) => m = room)
    BY <1>1
<1>3. {j \in DOMAIN queue : j <= room} = 1 .. m
    BY <1>1, <1>2
<1>4. in = {queue[k] : k \in 1 .. m}
    BY <1>3
<1>5. IsFiniteSet(in) /\ Cardinality(in) = m
    BY <1>1, <1>2, <1>4, FirstOfQueue DEF Queue
<1> HIDE DEF m, room
<1>6. in \subseteq Waiting(tasks)
    BY <1>3 DEF Queue
<1>7. /\ active' = busy + m
      /\ waiters' = SubSeq(queue, m + 1, Len(queue))
      /\ trans' = [a \in Attempts |-> IF a \in in THEN "ask" ELSE tasks[a]]
      /\ asks' = [a \in Attempts |-> IF a \in in THEN [asks[a] EXCEPT !["translation"] = @ + 1]
                                     ELSE asks[a]]
    BY <1>5 DEF Admit, room
<1>8. Holding(trans') = Holding(tasks) \cup in /\ Holding(tasks) \cap in = {}
    BY <1>6, <1>7 DEF Holding, Waiting
<1>9. IsFiniteSet(Holding(trans')) /\ Cardinality(Holding(trans')) = busy + m
  <2>1. Cardinality(Holding(tasks) \cap in) = 0
      BY <1>8, FS_EmptySet
  <2> HIDE DEF in
  <2>2. /\ IsFiniteSet(Holding(tasks) \cup in)
        /\ Cardinality(Holding(tasks) \cup in)
             = Cardinality(Holding(tasks)) + Cardinality(in) - Cardinality(Holding(tasks) \cap in)
      BY <1>5, FS_Union
  <2> QED
      BY <2>1, <2>2, <1>1, <1>2, <1>5, <1>8
<1>10. /\ waiters' \in Seq(Attempts) /\ DOMAIN waiters' = 1 .. Len(queue) - m
       /\ Len(waiters') = Len(queue) - m
       /\ \A k \in 1 .. Len(queue) - m : waiters'[k] = queue[k + m] /\ k + m \in DOMAIN queue
  <2>1. \A i \in m + 1 .. Len(queue) : queue[i] \in Attempts
      BY <1>1, <1>2
  <2>2. /\ SubSeq(queue, m + 1, Len(queue)) \in Seq(Attempts)
        /\ Len(SubSeq(queue, m + 1, Len(queue)))
             = IF m + 1 <= Len(queue) THEN Len(queue) - (m + 1) + 1 ELSE 0
        /\ \A i \in 1 .. Len(queue) - (m + 1) + 1 :
              SubSeq(queue, m + 1, Len(queue))[i] = queue[m + 1 + i - 1]
      BY <2>1, <1>1, <1>2, SubSeqProperties
  <2>3. Len(waiters') = Len(queue) - m /\ waiters' \in Seq(Attempts)
    <3>1. (IF m + 1 <= Len(queue) THEN Len(queue) - (m + 1) + 1 ELSE 0) = Len(queue) - m
      <4>1. \A l, i \in Nat : i <= l => (IF i + 1 <= l THEN l - (i + 1) + 1 ELSE 0) = l - i
          OBVIOUS
      <4> QED
          BY <4>1, <1>1, <1>2
    <3> QED
        BY <3>1, <2>2, <1>7
  <2>4. DOMAIN waiters' = 1 .. Len(waiters')
      BY <2>3, LenProperties
  <2>5. \A k \in 1 .. Len(queue) - m : waiters'[k] = queue[k + m] /\ k + m \in DOMAIN queue
    <3> TAKE k \in 1 .. Len(queue) - m
    <3>1. k \in 1 .. Len(queue) - (m + 1) + 1 /\ m + 1 + k - 1 = k + m /\ k + m \in 1 .. Len(queue)
        BY <1>1, <1>2
    <3> QED
        BY <3>1, <2>2, <1>1, <1>7
  <2> QED
      BY <2>3, <2>4, <2>5
<1>11. {waiters'[k] : k \in DOMAIN waiters'} = Waiting(trans')
  <2>1. Waiting(trans') = Waiting(tasks) \ in
      BY <1>7 DEF Waiting
  <2>2. \A b \in Waiting(trans') : \E k \in DOMAIN waiters' : b = waiters'[k]
    <3> TAKE b \in Waiting(trans')
    <3>1. PICK i \in DOMAIN queue : b = queue[i]
        BY <2>1 DEF Queue
    <3>2. i \notin 1 .. m
        BY <3>1, <2>1, <1>4
    <3>3. i - m \in 1 .. Len(queue) - m /\ (i - m) + m = i
        BY <3>1, <3>2, <1>1, <1>2
    <3> QED
        BY <3>1, <3>3, <1>10
  <2>3. \A k \in DOMAIN waiters' : waiters'[k] \in Waiting(tasks) /\ waiters'[k] \notin in
    <3> TAKE k \in DOMAIN waiters'
    <3>1. waiters'[k] = queue[k + m] /\ k + m \in DOMAIN queue /\ k + m \notin 1 .. m
        BY <1>1, <1>2, <1>10
    <3>2. \A i \in 1 .. m : i \in DOMAIN queue /\ queue[i] # queue[k + m]
      <4> TAKE i \in 1 .. m
      <4>1. i \in DOMAIN queue /\ i # k + m
          BY <3>1, <1>1, <1>2
      <4> QED
          BY <4>1, <3>1 DEF Queue
    <3> QED
        BY <3>1, <3>2, <1>4 DEF Queue
  <2>4. Waiting(trans') \subseteq {waiters'[k] : k \in DOMAIN waiters'}
      BY <2>2
  <2>5. {waiters'[k] : k \in DOMAIN waiters'} \subseteq Waiting(trans')
      BY <2>1, <2>3
  <2> QED
      BY <2>4, <2>5
<1>12. \A j, k \in DOMAIN waiters' : waiters'[j] = waiters'[k] => j = k
  <2> SUFFICES ASSUME NEW j \in DOMAIN waiters', NEW k \in DOMAIN waiters', waiters'[j] = waiters'[k]
               PROVE  j = k
      OBVIOUS
  <2>1. j + m = k + m
      BY <1>10 DEF Queue
  <2> QED
      BY <2>1, <1>1, <1>2, <1>10
<1>13. waiters' # <<>> => active' = MaxRequests
  <2>1. SUFFICES ASSUME waiters' # <<>> PROVE m = room
      BY <1>1, <1>7 DEF room
  <2>2. Len(waiters') # 0
      BY <2>1, <1>10, EmptySeq
  <2> QED
      BY <2>2, <1>1, <1>2, <1>10
<1>14. active' \in 0 .. MaxRequests
    BY <1>1, <1>2, <1>7 DEF room
<1> HIDE DEF in
<1>15. trans' \in [Attempts -> TaskStates]
    BY <1>7 DEF TaskStates
<1>16. asks' \in [Attempts -> [Requests -> Nat]]
  <2>1. \A a \in Attempts : [asks[a] EXCEPT !["translation"] = @ + 1] \in [Requests -> Nat]
    <3> TAKE a \in Attempts
    <3>1. asks[a] \in [Requests -> Nat] /\ asks[a]["translation"] + 1 \in Nat
        BY DEF Requests
    <3> QED
        BY <3>1
  <2> QED
      BY <2>1, <1>7
<1>17. \A b \in Attempts :
          \/ trans'[b] = tasks[b] /\ asks'[b] = asks[b]
          \/ /\ tasks[b] = "slot" /\ trans'[b] = "ask"
             /\ asks'[b] = [asks[b] EXCEPT !["translation"] = @ + 1]
    BY <1>6, <1>7 DEF Waiting
<1>18. SlotInv'
    BY <1>7, <1>9, <1>10, <1>11, <1>12, <1>13 DEF SlotInv, Queue
<1> QED
    BY <1>14, <1>15, <1>16, <1>17, <1>18

-----------------------------------------------------------------------------
(* The types.                                                              *)

AtOK ==
    /\ at \in [Attempts -> AnalysisAt]
    /\ \A a \in Attempts : at[a].pc \in {"mark", "download"} => at[a].left # <<>>

LEMMA Entries ==
    ASSUME TypeOK, NEW a \in Attempts
    PROVE  /\ a = <<a[1], a[2]>> /\ a[1] \in Videos /\ a[2] \in Numbers /\ a[2] \in Nat /\ MaxAttempts \in Nat
           /\ at[a] \in AnalysisAt /\ row[a[1]] \in VideoRow /\ run[a[1]] \in RunState
           /\ tool[a] \in Calls /\ asks[a] \in [Requests -> Nat] /\ trans[a] \in TaskStates
<1>1. MaxAttempts \in Nat
    BY Limits
<1>2. a = <<a[1], a[2]>> /\ a[1] \in Videos /\ a[2] \in Numbers
    BY DEF Attempts
<1>3. a[2] \in Nat
    BY <1>1, <1>2 DEF Numbers
<1> QED
    BY <1>1, <1>2, <1>3 DEF TypeOK

LEMMA SetOK ==
    ASSUME TypeOK, NEW a \in Attempts, NEW r \in AnalysisAt,
           r.pc \in {"mark", "download"} => r.left # <<>>, Set(a, r)
    PROVE  AtOK'
BY DEF TypeOK, AtOK, Set

LEMMA GoOK ==
    ASSUME TypeOK, NEW a \in Attempts, NEW pc \in Places,
           pc \in {"mark", "download"} => at[a].left # <<>>, Go(a, pc)
    PROVE  AtOK'
<1>1. [at[a] EXCEPT !.pc = pc] \in AnalysisAt
    BY Entries DEF AnalysisAt
<1>2. [at[a] EXCEPT !.pc = pc].pc = pc /\ [at[a] EXCEPT !.pc = pc].left = at[a].left
    BY Entries DEF AnalysisAt
<1> QED
    BY <1>1, <1>2, SetOK DEF Go

LEMMA AskedOK ==
    ASSUME TypeOK, NEW a \in Attempts, NEW q \in Requests
    PROVE  Asked(a, q) \in [Attempts -> [Requests -> Nat]]
<1>1. [asks[a] EXCEPT ![q] = @ + 1] \in [Requests -> Nat]
    BY Entries
<1> QED
    BY <1>1 DEF Asked, TypeOK

LEMMA EndOK ==
    ASSUME TypeOK, NEW a \in Attempts, NEW pc \in {"resolved", "rejected"}, End(a, pc)
    PROVE  AtOK' /\ tool' \in [Attempts -> Calls] /\ asks' \in [Attempts -> [Requests -> Nat]]
<1> DEFINE r == [at[a] EXCEPT !.pc = pc, !.text = "", !.zh = FALSE, !.left = <<>>, !.spare = None]
<1>1. r \in AnalysisAt /\ r.pc = pc
    BY Entries DEF AnalysisAt, Places, Texts, Ways, Paths
<1>2. [Unasked EXCEPT !["translation"] = asks[a]["translation"]] \in [Requests -> Nat]
    BY Entries DEF Unasked, Requests
<1>3. NoCalls \in Calls
    BY DEF NoCalls, Calls
<1>4. Set(a, r)
    BY DEF End
<1> HIDE DEF r
<1>5. AtOK'
    BY <1>1, <1>4, SetOK
<1>6. tool' \in [Attempts -> Calls] /\ asks' \in [Attempts -> [Requests -> Nat]]
    BY <1>2, <1>3 DEF End, TypeOK
<1> QED
    BY <1>5, <1>6

\* Steps that leave the slots and their queue alone.
LEMMA QuietSlots ==
    ASSUME SlotInv, UNCHANGED slotVars,
           \A b \in Attempts : (trans'[b] = "ask" <=> trans[b] = "ask") /\ (trans'[b] = "slot" <=> trans[b] = "slot")
    PROVE  SlotInv'
<1>1. Holding(trans') = Holding(trans) /\ Waiting(trans') = Waiting(trans)
    BY DEF Holding, Waiting
<1> QED
    BY <1>1 DEF SlotInv, Queue, slotVars

LEMMA TranslateOK ==
    ASSUME TypeOK, SlotInv, NEW a \in Attempts, Translate(a), UNCHANGED slotVars
    PROVE  trans' \in [Attempts -> TaskStates] /\ SlotInv'
<1>1. /\ trans' \in [Attempts -> TaskStates]
      /\ \A b \in Attempts : trans'[b] = trans[b] \/ (trans[b] = "off" /\ trans'[b] = "check")
    BY DEF Translate, TypeOK, TaskStates
<1> QED
    BY <1>1, QuietSlots

LEMMA StatusOK ==
    ASSUME TypeOK, NEW v \in Videos, NEW s \in {"queued", "running"} \cup Terminal,
           row' = [row EXCEPT ![v].status = s]
    PROVE  row' \in [Videos -> VideoRow]
<1>1. row[v] \in VideoRow
    BY DEF TypeOK
<1>2. [row[v] EXCEPT !.status = s] \in VideoRow
    BY <1>1 DEF VideoRow
<1> QED
    BY <1>2 DEF TypeOK

\* What the fetch does to the types, one step after another.
LEMMA FetchTypes ==
    ASSUME TypeOK, SlotInv, NEW a \in Attempts, LoadVideo(a) \/ FetchStep(a)
    PROVE  TypeOK' /\ SlotInv'
<1> USE Entries
<1>0. /\ {"begin", "fail", "fetch", "use", "connect", "tools", "pause", "fetched", "save", "next"}
           \cap {"mark", "download"} = {}
      /\ {"begin", "fail", "fetch", "use", "connect", "tools", "pause", "fetched", "save", "next"} \subseteq Places
    BY DEF Places
<1>1. CASE LoadVideo(a)
  <2>1. [at[a] EXCEPT !.pc = "begin", !.text = row[a[1]].text, !.zh = row[a[1]].zh, !.path = row[a[1]].path]
          \in AnalysisAt
      BY DEF AnalysisAt, Places, VideoRow
  <2>2. AtOK'
      BY <1>1, <2>1 DEF LoadVideo, Set, AtOK, TypeOK, AnalysisAt
  <2> QED
      BY <1>1, <2>2, QuietSlots DEF LoadVideo, slotVars, TypeOK, AtOK
<1>2. CASE BeginFetch(a)
  <2>1. AtOK'
      BY <1>0, <1>2, GoOK DEF BeginFetch
  <2> QED
      BY <1>2, <2>1, QuietSlots DEF BeginFetch, slotVars, TypeOK, AtOK
<1>3. CASE FetchTikTok(a)
  <2>1. AtOK'
      BY <1>0, <1>3, GoOK DEF FetchTikTok
  <2>2. row' \in [Videos -> VideoRow]
      BY <1>3, StatusOK DEF FetchTikTok
  <2>3. asks' \in [Attempts -> [Requests -> Nat]]
      BY <1>3, AskedOK DEF FetchTikTok, Requests, TypeOK
  <2> QED
      BY <1>3, <2>1, <2>2, <2>3, QuietSlots DEF FetchTikTok, slotVars, TypeOK, AtOK
<1>4. CASE Connect(a)
  <2>1. AtOK'
      BY <1>0, <1>4, GoOK DEF Connect
  <2>2. [t \in Tools |-> IF t \in Wanted(a) THEN "first" ELSE "off"] \in Calls
      BY DEF Calls
  <2>3. [q \in Requests |-> IF q \in Wanted(a) THEN asks[a][q] + 1 ELSE asks[a][q]] \in [Requests -> Nat]
      OBVIOUS
  <2>4. tool' \in [Attempts -> Calls] /\ asks' \in [Attempts -> [Requests -> Nat]]
      BY <1>4, <2>2, <2>3 DEF Connect, TypeOK
  <2> QED
      BY <1>4, <2>1, <2>4, QuietSlots DEF Connect, slotVars, TypeOK, AtOK
<1>5. CASE ConnectAgain(a)
  <2>1. AtOK'
      BY <1>0, <1>5, GoOK DEF ConnectAgain
  <2>2. asks' \in [Attempts -> [Requests -> Nat]]
    <3>1. "fetch" \in Requests
        BY DEF Requests
    <3>2. asks' = asks \/ asks' = Asked(a, "fetch")
        BY <1>5 DEF ConnectAgain
    <3> QED
        BY <3>1, <3>2, AskedOK DEF TypeOK
  <2> QED
      BY <1>5, <2>1, <2>2, QuietSlots DEF ConnectAgain, slotVars, TypeOK, AtOK
<1>6. ASSUME NEW t \in Tools, CallTool(a, t) PROVE TypeOK' /\ SlotInv'
  <2>1. asks' \in [Attempts -> [Requests -> Nat]]
    <3>1. t \in Requests
        BY DEF Requests
    <3>2. asks' = asks \/ asks' = Asked(a, t)
        BY <1>6 DEF CallTool
    <3> QED
        BY <3>1, <3>2, AskedOK DEF TypeOK
  <2>2. tool' \in [Attempts -> Calls]
    <3>1. \A s \in {"done", "none", "second"} : [tool[a] EXCEPT ![t] = s] \in Calls
        BY DEF Calls
    <3> QED
        BY <1>6, <3>1 DEF CallTool, TypeOK
  <2> QED
      BY <1>6, <2>1, <2>2, QuietSlots DEF CallTool, slotVars, TypeOK
<1>7. CASE ReadTools(a)
  <2>1. AtOK'
    <3>1. CASE Aborted(a)
        BY <1>0, <1>7, <3>1, GoOK DEF ReadTools
    <3>2. CASE ~Aborted(a)
      <4>1. PICK zh \in BOOLEAN :
               Set(a, [at[a] EXCEPT !.pc = "fetched", !.zh = @ \/ zh,
                !.text = IF tool[a]["transcript"] = "done" THEN "spoken"
                         ELSE IF @ = "diagnostic" THEN "" ELSE @])
          BY <1>7, <3>2 DEF ReadTools
      <4> DEFINE z == at[a].zh \/ zh
                 x == IF tool[a]["transcript"] = "done" THEN "spoken"
                      ELSE IF at[a].text = "diagnostic" THEN "" ELSE at[a].text
                 r == [at[a] EXCEPT !.pc = "fetched", !.zh = z, !.text = x]
      <4>2. z \in BOOLEAN /\ x \in Texts
          BY DEF AnalysisAt, Texts
      <4>3. Set(a, r)
          BY <4>1
      <4> HIDE DEF z, x
      <4>4. r \in AnalysisAt /\ r.pc = "fetched"
          BY <4>2 DEF AnalysisAt, Places
      <4> HIDE DEF r
      <4> QED
          BY <4>3, <4>4, SetOK
    <3> QED
        BY <3>1, <3>2
  <2> QED
      BY <1>7, <2>1, QuietSlots DEF ReadTools, slotVars, TypeOK, AtOK
<1>8. CASE CheckFetched(a)
  <2>1. AtOK'
      BY <1>0, <1>8, GoOK DEF CheckFetched
  <2> QED
      BY <1>8, <2>1, QuietSlots DEF CheckFetched, slotVars, TypeOK, AtOK
<1>9. CASE SaveTranscript(a)
  <2>1. AtOK'
    <3>1. [at[a] EXCEPT !.pc = "next", !.left = Candidates(a)] \in AnalysisAt
        BY DEF AnalysisAt, Places, Candidates, Ways
    <3>2. [at[a] EXCEPT !.pc = "next", !.left = Candidates(a)].pc = "next"
        BY DEF AnalysisAt
    <3>3. CASE at[a].path = None
        BY <1>9, <3>1, <3>2, <3>3, SetOK DEF SaveTranscript
    <3>4. CASE at[a].path # None
        BY <1>0, <1>9, <3>4, GoOK DEF SaveTranscript
    <3> QED
        BY <3>3, <3>4
  <2>2. row' \in [Videos -> VideoRow]
    <3> DEFINE z == row[a[1]].zh \/ at[a].zh
    <3>1. z \in BOOLEAN /\ at[a].text \in Texts
        BY DEF AnalysisAt, VideoRow
    <3>2. row' = [row EXCEPT ![a[1]] = [row[a[1]] EXCEPT !.text = at[a].text, !.zh = z]]
        BY <1>9 DEF SaveTranscript, TypeOK
    <3> HIDE DEF z
    <3>3. [row[a[1]] EXCEPT !.text = at[a].text, !.zh = z] \in VideoRow
        BY <3>1 DEF VideoRow
    <3> QED
        BY <3>2, <3>3 DEF TypeOK
  <2>3. trans' \in [Attempts -> TaskStates] /\ SlotInv'
      BY <1>9, TranslateOK DEF SaveTranscript
  <2> QED
      BY <1>9, <2>1, <2>2, <2>3 DEF SaveTranscript, slotVars, TypeOK, AtOK
<1> QED
    BY <1>1, <1>2, <1>3, <1>4, <1>5, <1>6, <1>7, <1>8, <1>9 DEF FetchStep

LEMMA Sequel ==
    ASSUME NEW l \in Ways, l # <<>>
    PROVE  /\ Tail(l) \in Ways /\ Head(l) \in Sources
           /\ Tail(l) # <<>> => Head(Tail(l)) # "TokScript"
<1>1. CASE l = <<"web">>
    BY <1>1 DEF Ways, Sources
<1>2. CASE l = <<"yt-dlp", "web">>
  <2>1. Tail(l) = <<"web">> /\ Head(l) = "yt-dlp"
      BY <1>2
  <2> QED
      BY <2>1 DEF Ways, Sources
<1>3. CASE l = <<"TokScript", "yt-dlp", "web">>
  <2>1. Tail(l) = <<"yt-dlp", "web">> /\ Head(l) = "TokScript"
      BY <1>3
  <2> QED
      BY <2>1 DEF Ways, Sources
<1> QED
    BY <1>1, <1>2, <1>3 DEF Ways

LEMMA OwnFile ==
    ASSUME NEW a \in Attempts, NEW s \in Sources
    PROVE  /\ File(a, s) \in Originals /\ File(a, s).video = a[1] /\ File(a, s).n = a[2]
           /\ File(a, s) # None
<1>1. a[1] \in Videos /\ a[2] \in 0 .. MaxAttempts
  <2>1. a[1] \in Videos /\ a[2] \in Numbers
      BY DEF Attempts
  <2>2. Numbers \subseteq 0 .. MaxAttempts
      BY Limits DEF Numbers
  <2> QED
      BY <2>1, <2>2
<1>2. File(a, s) \in Originals /\ File(a, s).video = a[1] /\ File(a, s).n = a[2]
    BY <1>1 DEF File, Originals
<1> QED
    BY <1>2, NoneIsNoFile

LEMMA AcceptOK ==
    ASSUME TypeOK, NEW a \in Attempts, NEW f \in Originals, Accept(a, f)
    PROVE  AtOK' /\ files' \subseteq Originals
<1>1. [at[a] EXCEPT !.pc = "chosen", !.path = f, !.left = <<>>] \in AnalysisAt
    BY Entries DEF AnalysisAt, Places, Paths, Ways
<1>2. [at[a] EXCEPT !.pc = "chosen", !.path = f, !.left = <<>>].pc = "chosen"
    BY Entries DEF AnalysisAt
<1>3. AtOK'
    BY <1>1, <1>2, SetOK DEF Accept
<1> QED
    BY <1>3 DEF Accept, TypeOK

LEMMA NextSourceOK ==
    ASSUME TypeOK, NEW a \in Attempts, NEW f \in Paths, at[a].left # <<>>, NextSource(a, f)
    PROVE  AtOK'
<1>1. at[a].left \in Ways /\ at[a] \in AnalysisAt
    BY Entries DEF AnalysisAt
<1>2. Tail(at[a].left) \in Ways
    BY <1>1, Sequel
<1> DEFINE r == [at[a] EXCEPT !.pc = "next", !.left = Tail(@), !.spare = f]
<1>3. r \in AnalysisAt /\ r.pc = "next"
    BY <1>1, <1>2 DEF AnalysisAt, Places
<1> QED
    BY <1>3, SetOK DEF NextSource

\* The steps that look for the file.
LEMMA FileTypes ==
    ASSUME TypeOK, SlotInv, NEW a \in Attempts,
           BeforeSource(a) \/ MarkSource(a) \/ Download(a) \/ SourcesExhausted(a) \/ CheckFile(a) \/ SavePath(a)
    PROVE  TypeOK' /\ SlotInv'
<1> USE Entries
<1>0. /\ {"fail", "savePath", "use"} \cap {"mark", "download"} = {}
      /\ {"fail", "savePath", "use", "mark", "download"} \subseteq Places
    BY DEF Places
<1>a. at[a].left # <<>> => Head(at[a].left) \in Sources
    BY Sequel DEF AnalysisAt
<1>b. "TokScript" \in Requests /\ files \ OwnFiles(a) \subseteq Originals
    BY DEF Requests, TypeOK
<1>1. CASE BeforeSource(a)
  <2>1. AtOK'
      BY <1>0, <1>1, GoOK DEF BeforeSource
  <2>2. asks' \in [Attempts -> [Requests -> Nat]]
    <3>1. asks' = asks \/ asks' = Asked(a, "TokScript")
        BY <1>1 DEF BeforeSource
    <3> QED
        BY <1>b, <3>1, AskedOK DEF TypeOK
  <2>3. files' \subseteq Originals
      BY <1>1, <1>b DEF BeforeSource, TypeOK
  <2> QED
      BY <1>1, <2>1, <2>2, <2>3, QuietSlots DEF BeforeSource, slotVars, TypeOK, AtOK
<1>2. CASE MarkSource(a)
  <2>1. AtOK'
    <3>1. at[a].left # <<>>
        BY <1>2 DEF MarkSource, TypeOK
    <3> QED
        BY <1>0, <1>2, <3>1, GoOK DEF MarkSource
  <2>2. row' \in [Videos -> VideoRow]
      BY <1>2, StatusOK DEF MarkSource
  <2> QED
      BY <1>2, <2>1, <2>2, QuietSlots DEF MarkSource, slotVars, TypeOK, AtOK
<1>3. CASE Download(a)
  <2> DEFINE f == File(a, Head(at[a].left))
  <2>1. at[a].left # <<>> /\ Head(at[a].left) \in Sources
      BY <1>3, <1>a DEF Download, TypeOK
  <2>2. f \in Originals /\ f \in Paths /\ at[a].spare \in Paths
      BY <2>1, OwnFile DEF Paths, AnalysisAt
  <2> HIDE DEF f
  <2>3. \/ files' = files \ OwnFiles(a) /\ Go(a, "fail") /\ UNCHANGED asks
        \/ Accept(a, f) /\ UNCHANGED asks
        \/ files' = files \cup {f} /\ NextSource(a, f) /\ UNCHANGED asks
        \/ UNCHANGED files /\ NextSource(a, at[a].spare) /\ UNCHANGED asks
        \/ asks' = Asked(a, Head(at[a].left)) /\ UNCHANGED <<files, at>>
      BY <1>3 DEF Download, f
  <2>4. AtOK' /\ files' \subseteq Originals
    <3>1. CASE files' = files \ OwnFiles(a) /\ Go(a, "fail")
        BY <3>1, <1>0, <1>b, GoOK
    <3>2. CASE Accept(a, f)
        BY <3>2, <2>2, AcceptOK
    <3>3. CASE files' = files \cup {f} /\ NextSource(a, f)
        BY <3>3, <2>1, <2>2, NextSourceOK DEF TypeOK
    <3>4. CASE UNCHANGED files /\ NextSource(a, at[a].spare)
        BY <3>4, <2>1, <2>2, NextSourceOK DEF TypeOK
    <3>5. CASE UNCHANGED <<files, at>>
        BY <3>5 DEF TypeOK, AtOK
    <3> QED
        BY <2>3, <3>1, <3>2, <3>3, <3>4, <3>5
  <2>5. asks' \in [Attempts -> [Requests -> Nat]]
    <3>1. Head(at[a].left) \in Requests \/ asks' = asks
      <4>1. Outcomes[Head(at[a].left)] \in {DownloadMedia, YtDlp, FromWeb}
          BY <2>1 DEF Outcomes
      <4>2. Head(at[a].left) # "TokScript" => "again" \notin Outcomes[Head(at[a].left)]
          BY <2>1 DEF Outcomes, YtDlp, FromWeb
      <4> QED
          BY <1>3, <1>b, <4>2 DEF Download
    <3> QED
        BY <2>3, <3>1, AskedOK DEF TypeOK
  <2> QED
      BY <1>3, <2>4, <2>5, QuietSlots DEF Download, slotVars, TypeOK, AtOK
<1>4. CASE SourcesExhausted(a)
  <2>1. AtOK' /\ files' \subseteq Originals
    <3>1. CASE at[a].spare # None /\ ~Aborted(a)
      <4>1. at[a].spare \in Originals
          BY <3>1 DEF AnalysisAt, Paths
      <4> QED
          BY <1>4, <3>1, <4>1, AcceptOK DEF SourcesExhausted
    <3>2. CASE ~(at[a].spare # None /\ ~Aborted(a))
        BY <1>4, <3>2, <1>0, <1>b, GoOK DEF SourcesExhausted
    <3> QED
        BY <3>1, <3>2
  <2> QED
      BY <1>4, <2>1, QuietSlots DEF SourcesExhausted, slotVars, TypeOK, AtOK
<1>5. CASE CheckFile(a)
  <2>1. AtOK'
      BY <1>0, <1>5, GoOK DEF CheckFile
  <2> QED
      BY <1>5, <2>1, QuietSlots DEF CheckFile, slotVars, TypeOK, AtOK
<1>6. CASE SavePath(a)
  <2>1. AtOK'
      BY <1>0, <1>6, GoOK DEF SavePath
  <2>2. row' \in [Videos -> VideoRow]
    <3>1. [row[a[1]] EXCEPT !.path = at[a].path] \in VideoRow
        BY DEF VideoRow, AnalysisAt
    <3> QED
        BY <1>6, <3>1 DEF SavePath, TypeOK
  <2> QED
      BY <1>6, <2>1, <2>2, QuietSlots DEF SavePath, slotVars, TypeOK, AtOK
<1> QED
    BY <1>1, <1>2, <1>3, <1>4, <1>5, <1>6

\* The end of an attempt.
LEMMA EndTypes ==
    ASSUME TypeOK, SlotInv, NEW a \in Attempts,
           \/ UseResults(a) \/ CheckLast(a) \/ CompleteVideo(a) \/ AssertStillOwned(a)
           \/ AnalysisCatch(a) \/ WriteFailed(a)
    PROVE  TypeOK' /\ SlotInv'
<1> USE Entries
<1>0. /\ {"await", "complete", "deliver", "fail", "write"} \cap {"mark", "download"} = {}
      /\ {"await", "complete", "deliver", "fail", "write"} \subseteq Places
    BY DEF Places
<1>1. CASE UseResults(a)
  <2>1. AtOK'
      BY <1>0, <1>1, GoOK DEF UseResults
  <2>2. trans' \in [Attempts -> TaskStates] /\ SlotInv'
      BY <1>1, TranslateOK DEF UseResults
  <2> QED
      BY <1>1, <2>1, <2>2 DEF UseResults, slotVars, TypeOK, AtOK
<1>2. CASE CheckLast(a)
  <2>1. AtOK'
      BY <1>0, <1>2, GoOK DEF CheckLast
  <2> QED
      BY <1>2, <2>1, QuietSlots DEF CheckLast, slotVars, TypeOK, AtOK
<1>3. CASE CompleteVideo(a)
  <2>1. AtOK'
      BY <1>0, <1>3, GoOK DEF CompleteVideo
  <2>2. row' \in [Videos -> VideoRow]
    <3> DEFINE z == row[a[1]].zh \/ at[a].zh
    <3>1. z \in BOOLEAN /\ at[a].text \in Texts
        BY DEF AnalysisAt, VideoRow
    <3>2. row' = [row EXCEPT ![a[1]] = [row[a[1]] EXCEPT !.status = "completed", !.text = at[a].text, !.zh = z]]
        BY <1>3 DEF CompleteVideo, TypeOK
    <3> HIDE DEF z
    <3>3. [row[a[1]] EXCEPT !.status = "completed", !.text = at[a].text, !.zh = z] \in VideoRow
        BY <3>1 DEF VideoRow, Terminal
    <3> QED
        BY <3>2, <3>3 DEF TypeOK
  <2> QED
      BY <1>3, <2>1, <2>2, QuietSlots DEF CompleteVideo, slotVars, TypeOK, AtOK
<1>4. CASE AssertStillOwned(a)
  <2>1. AtOK' /\ tool' \in [Attempts -> Calls] /\ asks' \in [Attempts -> [Requests -> Nat]]
    <3>1. CASE MayGoOn(a)
        BY <1>4, <3>1, EndOK DEF AssertStillOwned
    <3>2. CASE ~MayGoOn(a)
      <4>1. AtOK'
          BY <1>0, <1>4, <3>2, GoOK DEF AssertStillOwned
      <4> QED
          BY <1>4, <3>2, <4>1 DEF AssertStillOwned, TypeOK
    <3> QED
        BY <3>1, <3>2
  <2> QED
      BY <1>4, <2>1, QuietSlots DEF AssertStillOwned, slotVars, TypeOK, AtOK
<1>5. CASE AnalysisCatch(a)
  <2> DEFINE over == at[a].sig = "timeout" \/ row[a[1]].n # a[2]
  <2>1. AtOK' /\ tool' \in [Attempts -> Calls] /\ asks' \in [Attempts -> [Requests -> Nat]]
    <3>1. CASE over
        BY <1>5, <3>1, EndOK DEF AnalysisCatch
    <3>2. CASE ~over
      <4>1. AtOK'
          BY <1>0, <1>5, <3>2, GoOK DEF AnalysisCatch
      <4> QED
          BY <1>5, <3>2, <4>1 DEF AnalysisCatch, TypeOK
    <3> QED
        BY <3>1, <3>2
  <2> QED
      BY <1>5, <2>1, QuietSlots DEF AnalysisCatch, slotVars, TypeOK, AtOK
<1>6. CASE WriteFailed(a)
  <2>1. AtOK' /\ tool' \in [Attempts -> Calls] /\ asks' \in [Attempts -> [Requests -> Nat]]
      BY <1>6, EndOK DEF WriteFailed
  <2>2. row' \in [Videos -> VideoRow]
    <3>1. (IF Aborted(a) THEN "stopped" ELSE "failed") \in {"queued", "running"} \cup Terminal
        BY DEF Terminal
    <3> QED
        BY <1>6, <3>1, StatusOK DEF WriteFailed
  <2>3. trans' \in [Attempts -> TaskStates] /\ SlotInv'
      BY <1>6, TranslateOK DEF WriteFailed
  <2> QED
      BY <1>6, <2>1, <2>2, <2>3 DEF WriteFailed, slotVars, TypeOK, AtOK
<1> QED
    BY <1>1, <1>2, <1>3, <1>4, <1>5, <1>6

\* Where a task that is not in the queue goes without a slot.
LEMMA TaskMoves ==
    ASSUME TypeOK, SlotInv, NEW a \in Attempts, NEW s \in {"done", "store"}, trans[a] \in {"check", "answered", "store"},
           trans' = [trans EXCEPT ![a] = s], UNCHANGED slotVars
    PROVE  trans' \in [Attempts -> TaskStates] /\ SlotInv'
<1>1. trans' \in [Attempts -> TaskStates]
    BY DEF TypeOK, TaskStates
<1>2. \A b \in Attempts : (trans'[b] = "ask" <=> trans[b] = "ask") /\ (trans'[b] = "slot" <=> trans[b] = "slot")
    BY DEF TypeOK
<1> QED
    BY <1>1, <1>2, QuietSlots

\* Who is answered gives back a slot.
LEMMA Returned ==
    ASSUME TypeOK, SlotInv, NEW a \in Attempts, trans[a] = "ask", NEW s \in {"answered", "done"}
    PROVE  LET t == [trans EXCEPT ![a] = s] IN
           /\ t \in [Attempts -> TaskStates] /\ Queue(waiters, t)
           /\ IsFiniteSet(Holding(t)) /\ active - 1 = Cardinality(Holding(t)) /\ active - 1 \in 0 .. MaxRequests
<1> DEFINE t == [trans EXCEPT ![a] = s]
<1>1. t \in [Attempts -> TaskStates] /\ Waiting(t) = Waiting(trans) /\ Holding(t) = Holding(trans) \ {a}
    BY DEF TypeOK, TaskStates, Waiting, Holding
<1>2. a \in Holding(trans)
    BY DEF Holding
<1>3. IsFiniteSet(Holding(t)) /\ Cardinality(Holding(t)) = active - 1
    BY <1>1, <1>2, FS_RemoveElement DEF SlotInv
<1>4. active - 1 \in 0 .. MaxRequests
  <2>1. Cardinality(Holding(t)) \in Nat
      BY <1>3, FS_CardinalityType
  <2> QED
      BY <2>1, <1>3, Limits DEF TypeOK
<1> HIDE DEF t
<1>5. Queue(waiters, t)
    BY <1>1 DEF SlotInv, Queue
<1> QED
    BY <1>1, <1>3, <1>4, <1>5 DEF t

\* The same, for who waits for another.
LEMMA Requeued ==
    ASSUME TypeOK, SlotInv, NEW a \in Attempts, trans[a] = "ask"
    PROVE  LET t == [trans EXCEPT ![a] = "slot"] IN
           /\ t \in [Attempts -> TaskStates] /\ Queue(Append(waiters, a), t)
           /\ IsFiniteSet(Holding(t)) /\ active - 1 = Cardinality(Holding(t)) /\ active - 1 \in 0 .. MaxRequests
<1> DEFINE t == [trans EXCEPT ![a] = "slot"]
           u == [trans EXCEPT ![a] = "done"]
<1>1. t \in [Attempts -> TaskStates] /\ Holding(t) = Holding(u)
    BY DEF TypeOK, TaskStates, Holding
<1>2. Queue(Append(waiters, a), t)
    BY Appended DEF SlotInv, TypeOK
<1>3. IsFiniteSet(Holding(u)) /\ active - 1 = Cardinality(Holding(u)) /\ active - 1 \in 0 .. MaxRequests
    BY Returned
<1> HIDE DEF t, u
<1> QED
    BY <1>1, <1>2, <1>3 DEF t

\* The steps of a translation.
LEMMA TranslationTypes ==
    ASSUME TypeOK, SlotInv, NEW a \in Attempts, TranslationStep(a)
    PROVE  TypeOK' /\ SlotInv'
<1>0. asks \in [Attempts -> [Requests -> Nat]] /\ trans \in [Attempts -> TaskStates]
    BY DEF TypeOK
<1>1. CASE TranslationBegins(a)
  <2>1. /\ SlotInv' /\ active' \in 0 .. MaxRequests
        /\ trans' \in [Attempts -> TaskStates] /\ asks' \in [Attempts -> [Requests -> Nat]]
    <3>1. CASE MayGoOn(a)
      <4> DEFINE t == [trans EXCEPT ![a] = "slot"]
      <4>1. trans[a] = "check" /\ Admit(Append(waiters, a), active, t)
          BY <1>1, <3>1 DEF TranslationBegins
      <4>2. t \in [Attempts -> TaskStates] /\ Holding(t) = Holding(trans)
          BY <4>1, <1>0 DEF TaskStates, Holding
      <4>3. Queue(Append(waiters, a), t)
          BY <4>1, <1>0, Appended DEF SlotInv
      <4> HIDE DEF t
      <4>4. active \in 0 .. MaxRequests /\ IsFiniteSet(Holding(t)) /\ active = Cardinality(Holding(t))
          BY <4>2 DEF SlotInv, TypeOK
      <4> QED
          BY <1>0, <4>1, <4>2, <4>3, <4>4, Admitted
    <3>2. CASE ~MayGoOn(a)
      <4>1. /\ trans[a] = "check" /\ trans' = [trans EXCEPT ![a] = "done"]
            /\ UNCHANGED slotVars /\ UNCHANGED asks
          BY <1>1, <3>2 DEF TranslationBegins
      <4> QED
          BY <4>1, TaskMoves DEF TypeOK, slotVars
    <3> QED
        BY <3>1, <3>2
  <2> QED
      BY <1>1, <2>1 DEF TranslationBegins, TypeOK, SlotInv, Queue
<1>2. CASE TranslationAnswered(a)
  <2>1. /\ SlotInv' /\ active' \in 0 .. MaxRequests
        /\ trans' \in [Attempts -> TaskStates] /\ asks' \in [Attempts -> [Requests -> Nat]]
    <3>1. ASSUME NEW s \in {"answered", "done"}, Admit(waiters, active - 1, [trans EXCEPT ![a] = s])
          PROVE  /\ SlotInv' /\ active' \in 0 .. MaxRequests
                 /\ trans' \in [Attempts -> TaskStates] /\ asks' \in [Attempts -> [Requests -> Nat]]
        BY <1>0, <1>2, <3>1, Returned, Admitted DEF TranslationAnswered
    <3>2. CASE Admit(Append(waiters, a), active - 1, [trans EXCEPT ![a] = "slot"])
        BY <1>0, <1>2, <3>2, Requeued, Admitted DEF TranslationAnswered
    <3> QED
        BY <1>2, <3>1, <3>2 DEF TranslationAnswered
  <2> QED
      BY <1>2, <2>1 DEF TranslationAnswered, TypeOK, SlotInv, Queue
<1>3. CASE TranslationChecked(a)
  <2>1. \E s \in {"done", "store"} : trans' = [trans EXCEPT ![a] = s]
      BY <1>3 DEF TranslationChecked
  <2>2. trans' \in [Attempts -> TaskStates] /\ SlotInv'
      BY <1>3, <2>1, TaskMoves DEF TranslationChecked
  <2> QED
      BY <1>3, <2>2 DEF TranslationChecked, TypeOK, slotVars
<1>4. CASE StoreTranslation(a)
  <2>1. trans' \in [Attempts -> TaskStates] /\ SlotInv'
      BY <1>4, TaskMoves DEF StoreTranslation
  <2>2. row' \in [Videos -> VideoRow]
    <3>1. [row[a[1]] EXCEPT !.zh = TRUE] \in VideoRow
        BY Entries DEF VideoRow
    <3> QED
        BY <1>4, <3>1 DEF StoreTranslation, TypeOK
  <2> QED
      BY <1>4, <2>1, <2>2 DEF StoreTranslation, TypeOK, slotVars
<1> QED
    BY <1>1, <1>2, <1>3, <1>4 DEF TranslationStep

LEMMA RunOK ==
    ASSUME TypeOK, NEW v \in Videos, NEW pc \in {"idle", "racing", "publish", "finally", "clean", "forget"},
           RunAt(v, pc)
    PROVE  run' \in [Videos -> RunState]
<1>1. [run[v] EXCEPT !.pc = pc] \in RunState
    BY DEF TypeOK, RunState
<1> QED
    BY <1>1 DEF RunAt, TypeOK

\* A number between the bounds makes an attempt.
LEMMA Numbered ==
    ASSUME NEW v \in Videos, NEW n \in Numbers
    PROVE  <<v, n>> \in Attempts
BY DEF Attempts

LEMMA LeaveQueueOK ==
    ASSUME TypeOK, SlotInv, NEW a \in Attempts, LeaveQueue(a)
    PROVE  /\ SlotInv' /\ active' \in 0 .. MaxRequests /\ trans' \in [Attempts -> TaskStates]
           /\ \A b \in Attempts : trans'[b] = trans[b] \/ (b = a /\ trans[b] = "slot" /\ trans'[b] = "done")
<1>1. CASE trans[a] # "slot"
    BY <1>1, QuietSlots DEF LeaveQueue, TypeOK, slotVars
<1>2. CASE trans[a] = "slot"
  <2> DEFINE k == CHOOSE j \in DOMAIN waiters : waiters[j] = a
             t == [trans EXCEPT ![a] = "done"]
  <2>1. \E j \in DOMAIN waiters : waiters[j] = a
    <3>1. a \in Waiting(trans)
        BY <1>2 DEF Waiting
    <3> QED
        BY <3>1 DEF SlotInv, Queue
  <2>2. k \in DOMAIN waiters /\ waiters[k] = a
      BY <2>1
  <2>3. /\ waiters' = [j \in 1 .. Len(waiters) - 1 |-> waiters[IF j < k THEN j ELSE j + 1]]
        /\ trans' = t /\ active' = active
      BY <1>2 DEF LeaveQueue
  <2> HIDE DEF k
  <2>4. Queue(waiters', t) /\ waiters # <<>>
      BY <1>2, <2>2, <2>3, Left DEF SlotInv, TypeOK
  <2>5. t \in [Attempts -> TaskStates] /\ Holding(t) = Holding(trans)
      BY <1>2 DEF TypeOK, TaskStates, Holding
  <2>6. \A b \in Attempts : t[b] = trans[b] \/ (b = a /\ trans[b] = "slot" /\ t[b] = "done")
      BY <1>2 DEF TypeOK
  <2> HIDE DEF t
  <2>7. SlotInv'
      BY <2>3, <2>4, <2>5 DEF SlotInv
  <2> QED
      BY <2>3, <2>5, <2>6, <2>7 DEF TypeOK
<1> QED
    BY <1>1, <1>2

LEMMA AbortOK ==
    ASSUME TypeOK, SlotInv, NEW v \in Videos, run[v].n \in Numbers, NEW why \in {"stop", "timeout"}, Abort(v, why)
    PROVE  /\ SlotInv' /\ active' \in 0 .. MaxRequests /\ trans' \in [Attempts -> TaskStates]
           /\ waiters' \in Seq(Attempts) /\ AtOK' /\ tool' \in [Attempts -> Calls]
           /\ asks' \in [Attempts -> [Requests -> Nat]]
<1> DEFINE a == Current(v)
           r == [at[a] EXCEPT !.sig = why]
<1>1. a \in Attempts
    BY Numbered DEF Current
<1>2. Set(a, r) /\ tool' = [tool EXCEPT ![a] = NoCalls] /\ asks' = [asks EXCEPT ![a] = Unasked] /\ LeaveQueue(a)
    BY DEF Abort
<1> HIDE DEF a
<1>3. at[a] \in AnalysisAt
    BY <1>1, Entries
<1>4. r \in AnalysisAt /\ r.pc = at[a].pc /\ r.left = at[a].left
    BY <1>3 DEF AnalysisAt
<1>5. AtOK'
    BY <1>1, <1>2, <1>4, SetOK DEF TypeOK
<1>6. NoCalls \in Calls /\ Unasked \in [Requests -> Nat]
    BY DEF NoCalls, Calls, Unasked
<1>7. tool' \in [Attempts -> Calls] /\ asks' \in [Attempts -> [Requests -> Nat]]
    BY <1>2, <1>6 DEF TypeOK
<1>8. /\ SlotInv' /\ active' \in 0 .. MaxRequests /\ trans' \in [Attempts -> TaskStates]
    BY <1>1, <1>2, LeaveQueueOK
<1> QED
    BY <1>5, <1>7, <1>8 DEF SlotInv, Queue

LEMMA SpendOK ==
    ASSUME TypeOK, NEW what, what # "audio", Spend(what)
    PROVE  budget'.audio \in BOOLEAN
BY DEF Spend, TypeOK

\* The steps of a run, and what users and the clock do.
LEMMA RunTypes ==
    ASSUME TypeOK, SlotInv, NEW v \in Videos, RunOf(v), RunStep(v) \/ Timeout(v) \/ StopVideo(v) \/ Restart(v)
    PROVE  TypeOK' /\ SlotInv'
<1>0. row[v] \in VideoRow
    BY DEF TypeOK
<1>1. CASE StartAttempt(v)
  <2> DEFINE n == row[v].n + 1
             a == <<v, n>>
  <2>1. n \in Numbers /\ n \in 0 .. MaxAttempts
      BY <1>1, Limits DEF StartAttempt, Numbers
  <2>2. a \in Attempts
      BY <2>1, Numbered
  <2>3. /\ row' = [row EXCEPT ![v].n = n]
        /\ run' = [run EXCEPT ![v] = [pc |-> "racing", n |-> n]]
        /\ Go(a, "load")
      BY <1>1 DEF StartAttempt, Go, Set, TypeOK
  <2> HIDE DEF n, a
  <2>4. [row[v] EXCEPT !.n = n] \in VideoRow /\ [pc |-> "racing", n |-> n] \in RunState
      BY <1>0, <2>1 DEF VideoRow, RunState
  <2>5. row' \in [Videos -> VideoRow] /\ run' \in [Videos -> RunState]
      BY <2>3, <2>4 DEF TypeOK
  <2>6. AtOK'
    <3>1. "load" \in Places /\ "load" \notin {"mark", "download"}
        BY DEF Places
    <3> QED
        BY <3>1, <2>2, <2>3, GoOK
  <2> QED
      BY <1>1, <2>5, <2>6, QuietSlots DEF StartAttempt, TypeOK, AtOK, slotVars
<1>2. CASE RaceEnds(v)
  <2>1. run' \in [Videos -> RunState]
      BY <1>2, RunOK DEF RaceEnds
  <2> QED
      BY <1>2, <2>1, QuietSlots DEF RaceEnds, TypeOK, slotVars
<1>3. CASE PublishEnd(v)
  <2>1. run' \in [Videos -> RunState]
      BY <1>3, RunOK DEF PublishEnd
  <2>2. row' \in [Videos -> VideoRow]
    <3>1. (IF Aborted(Current(v)) THEN "stopped" ELSE "failed") \in {"queued", "running"} \cup Terminal
        BY DEF Terminal
    <3> QED
        BY <1>3, <3>1, StatusOK DEF PublishEnd
  <2> QED
      BY <1>3, <2>1, <2>2, QuietSlots DEF PublishEnd, TypeOK, slotVars
<1>4. CASE SettleRun(v)
  <2>1. run' \in [Videos -> RunState]
      BY <1>4, RunOK DEF SettleRun
  <2> QED
      BY <1>4, <2>1, QuietSlots DEF SettleRun, TypeOK, slotVars
<1>5. CASE DeleteAttemptCache(v)
  <2>1. run' \in [Videos -> RunState]
      BY <1>5, RunOK DEF DeleteAttemptCache
  <2>2. files' \subseteq Originals
      BY <1>5 DEF DeleteAttemptCache, TypeOK
  <2> QED
      BY <1>5, <2>1, <2>2, QuietSlots DEF DeleteAttemptCache, TypeOK, slotVars
<1>6. CASE ForgetOriginal(v)
  <2>1. run' \in [Videos -> RunState]
      BY <1>6, RunOK DEF ForgetOriginal
  <2>2. row' \in [Videos -> VideoRow]
    <3>1. [row[v] EXCEPT !.path = None] \in VideoRow
        BY <1>0 DEF VideoRow, Paths
    <3> QED
        BY <1>6, <3>1 DEF ForgetOriginal, TypeOK
  <2> QED
      BY <1>6, <2>1, <2>2, QuietSlots DEF ForgetOriginal, TypeOK, slotVars
<1>7. CASE Timeout(v)
  <2>1. Abort(v, "timeout") /\ run[v].n \in Numbers
      BY <1>7 DEF Timeout, RunOf
  <2>2. budget'.audio \in BOOLEAN
      BY <1>7, SpendOK DEF Timeout
  <2> QED
      BY <1>7, <2>1, <2>2, AbortOK DEF Timeout, TypeOK, AtOK
<1>8. CASE StopVideo(v)
  <2>1. Abort(v, "stop") /\ run[v].n \in Numbers
      BY <1>8 DEF StopVideo, Abort, RunOf
  <2>2. budget'.audio \in BOOLEAN
      BY <1>8, SpendOK DEF StopVideo
  <2>3. row' \in [Videos -> VideoRow]
      BY <1>8, StatusOK DEF StopVideo, Terminal
  <2> QED
      BY <1>8, <2>1, <2>2, <2>3, AbortOK DEF StopVideo, TypeOK, AtOK
<1>9. CASE Restart(v)
  <2>1. budget'.audio \in BOOLEAN
      BY <1>9, SpendOK DEF Restart
  <2>2. row' \in [Videos -> VideoRow]
      BY <1>9, StatusOK DEF Restart
  <2> QED
      BY <1>9, <2>1, <2>2, QuietSlots DEF Restart, TypeOK, slotVars
<1> QED
    BY <1>1, <1>2, <1>3, <1>4, <1>5, <1>6, <1>7, <1>8, <1>9 DEF RunStep

-----------------------------------------------------------------------------
(* What a step of an attempt leaves alone.                                 *)

Frame(a) ==
    /\ at[a].pc \notin {"none", "resolved", "rejected"} /\ at'[a].pc # "none" /\ at'[a].sig = at[a].sig
    /\ \A b \in Attempts \ {a} :
          at'[b] = at[b] /\ tool'[b] = tool[b] /\ trans'[b] = trans[b] /\ asks'[b] = asks[b]
    /\ \A v \in Videos : row'[v].n = row[v].n /\ (v # a[1] => row'[v] = row[v])
    /\ run' = run

LEMMA SetFrame ==
    ASSUME TypeOK, NEW a \in Attempts, NEW r \in AnalysisAt, Set(a, r)
    PROVE  at'[a] = r /\ \A b \in Attempts \ {a} : at'[b] = at[b]
BY DEF Set, TypeOK

LEMMA GoFrame ==
    ASSUME TypeOK, NEW a \in Attempts, NEW pc, Go(a, pc)
    PROVE  /\ at'[a] = [at[a] EXCEPT !.pc = pc] /\ at'[a].pc = pc /\ at'[a].sig = at[a].sig
           /\ at'[a].text = at[a].text /\ at'[a].zh = at[a].zh /\ at'[a].path = at[a].path
           /\ at'[a].left = at[a].left /\ at'[a].spare = at[a].spare
           /\ \A b \in Attempts \ {a} : at'[b] = at[b]
<1>1. at[a] \in AnalysisAt
    BY Entries
<1>2. at'[a] = [at[a] EXCEPT !.pc = pc] /\ \A b \in Attempts \ {a} : at'[b] = at[b]
    BY DEF Go, Set, TypeOK
<1> QED
    BY <1>1, <1>2 DEF AnalysisAt

LEMMA EndFrame ==
    ASSUME TypeOK, NEW a \in Attempts, NEW pc, End(a, pc)
    PROVE  /\ at'[a].pc = pc /\ at'[a].sig = at[a].sig /\ at'[a].path = at[a].path
           /\ tool'[a] = NoCalls
           /\ \A q \in Requests : asks'[a][q] = IF q = "translation" THEN asks[a][q] ELSE 0
           /\ asks[a] = Unasked => asks'[a] = Unasked
           /\ \A b \in Attempts \ {a} : at'[b] = at[b] /\ tool'[b] = tool[b] /\ asks'[b] = asks[b]
<1>1. at[a] \in AnalysisAt
    BY Entries
<1>2. /\ at'[a] = [at[a] EXCEPT !.pc = pc, !.text = "", !.zh = FALSE, !.left = <<>>, !.spare = None]
      /\ \A b \in Attempts \ {a} : at'[b] = at[b] /\ tool'[b] = tool[b] /\ asks'[b] = asks[b]
      /\ tool'[a] = NoCalls /\ asks'[a] = [Unasked EXCEPT !["translation"] = asks[a]["translation"]]
    BY DEF End, Set, TypeOK
<1>3. at'[a].pc = pc /\ at'[a].sig = at[a].sig /\ at'[a].path = at[a].path
    BY <1>1, <1>2 DEF AnalysisAt
<1>4. \A q \in Requests : asks'[a][q] = IF q = "translation" THEN asks[a][q] ELSE 0
    BY <1>2 DEF Unasked
<1>5. asks[a] = Unasked => asks'[a] = Unasked
    BY <1>2 DEF Unasked
<1> QED
    BY <1>2, <1>3, <1>4, <1>5

\* The request that is counted, and no other.
LEMMA AskedFrame ==
    ASSUME TypeOK, NEW a \in Attempts, NEW q \in Requests, asks' = Asked(a, q)
    PROVE  /\ \A p \in Requests : asks'[a][p] = IF p = q THEN asks[a][p] + 1 ELSE asks[a][p]
           /\ \A b \in Attempts \ {a} : asks'[b] = asks[b]
<1>1. asks[a] \in [Requests -> Nat]
    BY Entries
<1>2. asks'[a] = [asks[a] EXCEPT ![q] = @ + 1] /\ \A b \in Attempts \ {a} : asks'[b] = asks[b]
    BY DEF Asked, TypeOK
<1> QED
    BY <1>1, <1>2

\* What a write of a row changes: the fields it names, in the row of its video.
LEMMA Written ==
    ASSUME TypeOK, NEW v \in Videos, NEW r \in VideoRow, r.n = row[v].n, row' = [row EXCEPT ![v] = r]
    PROVE  row'[v] = r /\ \A w \in Videos : row'[w].n = row[w].n /\ (w # v => row'[w] = row[w])
BY DEF TypeOK

LEMMA StatusWritten ==
    ASSUME TypeOK, NEW v \in Videos, NEW s \in {"queued", "running"} \cup Terminal,
           row' = [row EXCEPT ![v].status = s]
    PROVE  /\ row'[v].status = s /\ row'[v].text = row[v].text /\ row'[v].zh = row[v].zh
           /\ row'[v].path = row[v].path
           /\ \A w \in Videos : row'[w].n = row[w].n /\ (w # v => row'[w] = row[w])
<1> DEFINE r == [row[v] EXCEPT !.status = s]
<1>1. row[v] \in VideoRow
    BY DEF TypeOK
<1>2. r \in VideoRow /\ r.status = s /\ r.text = row[v].text /\ r.zh = row[v].zh
      /\ r.path = row[v].path /\ r.n = row[v].n
    BY <1>1 DEF VideoRow
<1>3. row' = [row EXCEPT ![v] = r]
    BY DEF TypeOK
<1> HIDE DEF r
<1> QED
    BY <1>2, <1>3, Written

LEMMA PathWritten ==
    ASSUME TypeOK, NEW v \in Videos, NEW p \in Paths, row' = [row EXCEPT ![v].path = p]
    PROVE  /\ row'[v].path = p /\ row'[v].text = row[v].text /\ row'[v].zh = row[v].zh
           /\ row'[v].status = row[v].status
           /\ \A w \in Videos : row'[w].n = row[w].n /\ (w # v => row'[w] = row[w])
<1> DEFINE r == [row[v] EXCEPT !.path = p]
<1>1. row[v] \in VideoRow
    BY DEF TypeOK
<1>2. r \in VideoRow /\ r.path = p /\ r.text = row[v].text /\ r.zh = row[v].zh
      /\ r.status = row[v].status /\ r.n = row[v].n
    BY <1>1 DEF VideoRow
<1>3. row' = [row EXCEPT ![v] = r]
    BY DEF TypeOK
<1> HIDE DEF r
<1> QED
    BY <1>2, <1>3, Written

LEMMA TranslationWritten ==
    ASSUME TypeOK, NEW v \in Videos, row' = [row EXCEPT ![v].zh = TRUE]
    PROVE  /\ row'[v].path = row[v].path /\ row'[v].text = row[v].text /\ row'[v].zh
           /\ row'[v].status = row[v].status
           /\ \A w \in Videos : row'[w].n = row[w].n /\ (w # v => row'[w] = row[w])
<1> DEFINE r == [row[v] EXCEPT !.zh = TRUE]
<1>1. row[v] \in VideoRow
    BY DEF TypeOK
<1>2. r \in VideoRow /\ r.path = row[v].path /\ r.text = row[v].text /\ r.zh = TRUE
      /\ r.status = row[v].status /\ r.n = row[v].n
    BY <1>1 DEF VideoRow
<1>3. row' = [row EXCEPT ![v] = r]
    BY DEF TypeOK
<1> HIDE DEF r
<1>4. row'[v] = r /\ \A w \in Videos : row'[w].n = row[w].n /\ (w # v => row'[w] = row[w])
    BY <1>2, <1>3, Written
<1> QED
    BY <1>2, <1>4

LEMMA TranscriptWritten ==
    ASSUME TypeOK, NEW v \in Videos, NEW x \in Texts, NEW y \in BOOLEAN,
           row' = [row EXCEPT ![v].text = x, ![v].zh = @ \/ y]
    PROVE  /\ row'[v].path = row[v].path /\ row'[v].text = x /\ (row[v].zh => row'[v].zh)
           /\ row'[v].status = row[v].status
           /\ \A w \in Videos : row'[w].n = row[w].n /\ (w # v => row'[w] = row[w])
<1> DEFINE z == row[v].zh \/ y
           r == [row[v] EXCEPT !.text = x, !.zh = z]
<1>1. row[v] \in VideoRow
    BY DEF TypeOK
<1>2. z \in BOOLEAN
    OBVIOUS
<1>3. row' = [row EXCEPT ![v] = r]
    BY DEF TypeOK
<1>4. row[v].zh => z = TRUE
    BY <1>2
<1> HIDE DEF z
<1>5. r \in VideoRow /\ r.path = row[v].path /\ r.text = x /\ r.zh = z
      /\ r.status = row[v].status /\ r.n = row[v].n
    BY <1>1, <1>2 DEF VideoRow
<1> HIDE DEF r
<1>6. row'[v] = r /\ \A w \in Videos : row'[w].n = row[w].n /\ (w # v => row'[w] = row[w])
    BY <1>3, <1>5, Written
<1> QED
    BY <1>4, <1>5, <1>6

LEMMA CompletionWritten ==
    ASSUME TypeOK, NEW v \in Videos, NEW x \in Texts, NEW y \in BOOLEAN,
           row' = [row EXCEPT ![v].status = "completed", ![v].text = x, ![v].zh = @ \/ y]
    PROVE  /\ row'[v].path = row[v].path /\ row'[v].text = x /\ (row[v].zh => row'[v].zh)
           /\ row'[v].status = "completed"
           /\ \A w \in Videos : row'[w].n = row[w].n /\ (w # v => row'[w] = row[w])
<1> DEFINE z == row[v].zh \/ y
           r == [row[v] EXCEPT !.status = "completed", !.text = x, !.zh = z]
<1>1. row[v] \in VideoRow
    BY DEF TypeOK
<1>2. z \in BOOLEAN
    OBVIOUS
<1>3. row' = [row EXCEPT ![v] = r]
    BY DEF TypeOK
<1>4. row[v].zh => z = TRUE
    BY <1>2
<1> HIDE DEF z
<1>5. r \in VideoRow /\ r.path = row[v].path /\ r.text = x /\ r.zh = z
      /\ r.status = "completed" /\ r.n = row[v].n
    BY <1>1, <1>2 DEF VideoRow, Terminal
<1> HIDE DEF r
<1>6. row'[v] = r /\ \A w \in Videos : row'[w].n = row[w].n /\ (w # v => row'[w] = row[w])
    BY <1>3, <1>5, Written
<1> QED
    BY <1>4, <1>5, <1>6

-----------------------------------------------------------------------------
(* The requests.                                                           *)

LEMMA RequestNames ==
    /\ "fetch" \in Requests /\ "transcript" \in Requests /\ "download" \in Requests
    /\ "TokScript" \in Requests /\ "translation" \in Requests
    /\ Tools \subseteq Requests /\ \A t \in Tools : t \notin {"fetch", "TokScript", "translation"}
BY DEF Requests, Tools

\* Steps without a request: the attempt goes to a place where the same may be asked for.
LEMMA QuietRequests ==
    ASSUME TypeOK, NEW a \in Attempts, RequestsAt(a), at'[a].sig = at[a].sig,
           tool'[a] = tool[a], asks'[a] = asks[a],
           trans'[a] = trans[a] \/ (trans[a] = "off" /\ trans'[a] = "check"),
           at'[a].pc \in {"none", "load", "begin", "fetch"} => at[a].pc \in {"none", "load", "begin", "fetch"},
           at'[a].pc = "pause" => asks[a]["fetch"] <= 1,
           at'[a].pc \in {"connect", "pause"} =>
              at[a].pc \in {"none", "load", "begin", "fetch", "connect", "pause"},
           \/ at'[a].pc \in {"none", "load"} \cup Early
           \/ at'[a].pc = "next" /\ at'[a].left # <<>> /\ Head(at'[a].left) = "TokScript"
           => at[a].pc \in {"none", "load"} \cup Early
    PROVE  RequestsAt(a)'
<1>1. CASE Aborted(a)
    BY <1>1 DEF RequestsAt, Aborted
<1>2. CASE ~Aborted(a)
  <2>1. FetchesAt(a)' /\ CallsAt(a, "transcript")' /\ CallsAt(a, "download")'
      BY <1>2 DEF RequestsAt, FetchesAt, CallsAt
  <2>2. DownloadsAt(a)'
      BY <1>2 DEF RequestsAt, DownloadsAt
  <2>3. TranslationsAt(a)'
      BY <1>2 DEF RequestsAt, TranslationsAt
  <2> QED
      BY <1>2, <2>1, <2>2, <2>3 DEF RequestsAt, Aborted
<1> QED
    BY <1>1, <1>2

\* At its end an attempt has asked for nothing more.
LEMMA EndRequests ==
    ASSUME TypeOK, NEW a \in Attempts, RequestsAt(a), NEW pc \in {"resolved", "rejected"}, End(a, pc),
           trans'[a] = trans[a] \/ (trans[a] = "off" /\ trans'[a] = "check")
    PROVE  RequestsAt(a)'
<1>1. /\ at'[a].pc = pc /\ at'[a].sig = at[a].sig /\ tool'[a] = NoCalls
      /\ \A q \in Requests : asks'[a][q] = IF q = "translation" THEN asks[a][q] ELSE 0
      /\ asks[a] = Unasked => asks'[a] = Unasked
    BY EndFrame
<1>2. CASE Aborted(a)
    BY <1>1, <1>2 DEF RequestsAt, Aborted
<1>3. CASE ~Aborted(a)
  <2>1. /\ asks'[a]["fetch"] = 0 /\ asks'[a]["transcript"] = 0 /\ asks'[a]["download"] = 0
        /\ asks'[a]["TokScript"] = 0 /\ asks'[a]["translation"] = asks[a]["translation"]
      BY <1>1, RequestNames
  <2>2. FetchesAt(a)' /\ CallsAt(a, "transcript")' /\ CallsAt(a, "download")' /\ DownloadsAt(a)'
      BY <2>1 DEF FetchesAt, CallsAt, DownloadsAt
  <2>3. TranslationsAt(a)'
      BY <1>3, <2>1 DEF RequestsAt, TranslationsAt
  <2> QED
      BY <1>1, <1>3, <2>2, <2>3 DEF RequestsAt, Aborted
<1> QED
    BY <1>2, <1>3

LEMMA FetchRequests ==
    ASSUME TypeOK, NEW a \in Attempts, RequestsAt(a), LoadVideo(a) \/ FetchStep(a)
    PROVE  Frame(a) /\ RequestsAt(a)'
<1> USE Entries, RequestNames
<1>1. CASE LoadVideo(a)
  <2>1. at'[a] = [at[a] EXCEPT !.pc = "begin", !.text = row[a[1]].text, !.zh = row[a[1]].zh,
                               !.path = row[a[1]].path]
        /\ \A b \in Attempts \ {a} : at'[b] = at[b]
      BY <1>1 DEF LoadVideo, Set, TypeOK
  <2>2. at'[a].pc = "begin" /\ at'[a].sig = at[a].sig
      BY <2>1 DEF AnalysisAt
  <2>3. Frame(a)
      BY <1>1, <2>1, <2>2 DEF Frame, LoadVideo
  <2>4. RequestsAt(a)'
      BY <1>1, <2>2, QuietRequests DEF LoadVideo
  <2> QED
      BY <2>3, <2>4
<1>2. CASE BeginFetch(a)
  <2>1. PICK pc \in {"fail", "fetch", "use"} : Go(a, pc)
      BY <1>2 DEF BeginFetch
  <2>2. at'[a].pc = pc /\ at'[a].sig = at[a].sig /\ \A b \in Attempts \ {a} : at'[b] = at[b]
      BY <2>1, GoFrame
  <2>3. Frame(a)
      BY <1>2, <2>2 DEF Frame, BeginFetch
  <2>4. RequestsAt(a)'
      BY <1>2, <2>2, QuietRequests DEF BeginFetch, Early
  <2> QED
      BY <2>3, <2>4
<1>3. CASE FetchTikTok(a)
  <2>2. at'[a].pc = "connect" /\ at'[a].sig = at[a].sig /\ \A b \in Attempts \ {a} : at'[b] = at[b]
      BY <1>3, GoFrame DEF FetchTikTok
  <2>3. /\ Aborted(a) => asks'[a] = asks[a]
        /\ ~Aborted(a) => \A p \in Requests : asks'[a][p] = IF p = "fetch" THEN asks[a][p] + 1 ELSE asks[a][p]
        /\ \A b \in Attempts \ {a} : asks'[b] = asks[b]
      BY <1>3, AskedFrame DEF FetchTikTok
  <2>4. Frame(a)
      BY <1>3, <2>2, <2>3, StatusWritten DEF Frame, FetchTikTok
  <2>5. RequestsAt(a)'
    <3>1. CASE Aborted(a)
        BY <1>3, <3>1, <2>2, <2>3 DEF RequestsAt, Aborted, FetchTikTok
    <3>2. CASE ~Aborted(a)
        BY <1>3, <3>2, <2>2, <2>3 DEF RequestsAt, Aborted, FetchTikTok, FetchesAt, CallsAt, DownloadsAt,
              TranslationsAt, Early
    <3> QED
        BY <3>1, <3>2
  <2> QED
      BY <2>4, <2>5
<1>4. CASE Connect(a)
  <2>1. CASE ~Aborted(a) /\ Go(a, "tools")
              /\ tool' = [tool EXCEPT ![a] = [t \in Tools |-> IF t \in Wanted(a) THEN "first" ELSE "off"]]
              /\ asks' = [asks EXCEPT ![a] = [q \in Requests |-> IF q \in Wanted(a) THEN @[q] + 1 ELSE @[q]]]
    <3>1. at'[a].pc = "tools" /\ at'[a].sig = at[a].sig /\ \A b \in Attempts \ {a} : at'[b] = at[b]
        BY <2>1, GoFrame
    <3>2. /\ \A q \in Requests : asks'[a][q] = IF q \in Wanted(a) THEN asks[a][q] + 1 ELSE asks[a][q]
          /\ \A b \in Attempts \ {a} : asks'[b] = asks[b] /\ tool'[b] = tool[b]
        BY <2>1 DEF TypeOK
    <3>3. Frame(a)
        BY <1>4, <3>1, <3>2 DEF Frame, Connect
    <3>4. Wanted(a) \subseteq Tools
        BY DEF Wanted
    <3>5. /\ asks'[a]["fetch"] = asks[a]["fetch"] /\ asks'[a]["TokScript"] = asks[a]["TokScript"]
          /\ asks'[a]["translation"] = asks[a]["translation"]
          /\ asks'[a]["transcript"] <= asks[a]["transcript"] + 1
          /\ asks'[a]["download"] <= asks[a]["download"] + 1
        BY <3>2, <3>4
    <3>6. RequestsAt(a)'
        BY <1>4, <2>1, <3>1, <3>5 DEF RequestsAt, Aborted, Connect, FetchesAt, CallsAt, DownloadsAt,
              TranslationsAt, Early
    <3> QED
        BY <3>3, <3>6
  <2>2. CASE UNCHANGED <<tool, asks>> /\ \E c \in Categories :
                Go(a, IF ~Aborted(a) /\ Transient(Raised(c)) /\ asks[a]["fetch"] = 1
                      THEN "pause" ELSE "fail")
    <3>1. PICK pc \in {"pause", "fail"} : Go(a, pc) /\ (pc = "pause" => asks[a]["fetch"] = 1)
        BY <2>2
    <3>2. at'[a].pc = pc /\ at'[a].sig = at[a].sig /\ \A b \in Attempts \ {a} : at'[b] = at[b]
        BY <3>1, GoFrame
    <3>3. Frame(a)
        BY <1>4, <2>2, <3>2 DEF Frame, Connect
    <3>4. RequestsAt(a)'
        BY <1>4, <2>2, <3>1, <3>2, QuietRequests DEF Connect, Early
    <3> QED
        BY <3>3, <3>4
  <2> QED
      BY <1>4, <2>1, <2>2 DEF Connect
<1>5. CASE ConnectAgain(a)
  <2>1. CASE Aborted(a)
    <3>1. at'[a].pc = "fail" /\ at'[a].sig = at[a].sig /\ \A b \in Attempts \ {a} : at'[b] = at[b]
        BY <1>5, <2>1, GoFrame DEF ConnectAgain
    <3>2. Frame(a)
        BY <1>5, <2>1, <3>1 DEF Frame, ConnectAgain
    <3>3. RequestsAt(a)'
        BY <1>5, <2>1, <3>1, QuietRequests DEF ConnectAgain, Early
    <3> QED
        BY <3>2, <3>3
  <2>2. CASE ~Aborted(a)
    <3>1. at'[a].pc = "connect" /\ at'[a].sig = at[a].sig /\ \A b \in Attempts \ {a} : at'[b] = at[b]
        BY <1>5, <2>2, GoFrame DEF ConnectAgain
    <3>2. /\ \A p \in Requests : asks'[a][p] = IF p = "fetch" THEN asks[a][p] + 1 ELSE asks[a][p]
          /\ \A b \in Attempts \ {a} : asks'[b] = asks[b]
        BY <1>5, <2>2, AskedFrame DEF ConnectAgain
    <3>3. Frame(a)
        BY <1>5, <2>2, <3>1, <3>2 DEF Frame, ConnectAgain
    <3>4. RequestsAt(a)'
        BY <1>5, <2>2, <3>1, <3>2 DEF RequestsAt, Aborted, ConnectAgain, FetchesAt, CallsAt, DownloadsAt,
              TranslationsAt, Early
    <3> QED
        BY <3>3, <3>4
  <2> QED
      BY <2>1, <2>2
<1>6. ASSUME NEW t \in Tools, CallTool(a, t) PROVE Frame(a) /\ RequestsAt(a)'
  <2>0. /\ at' = at /\ trans' = trans /\ at[a].pc = "tools" /\ tool[a][t] \in {"first", "second"}
        /\ UNCHANGED <<row, run, files>>
      BY <1>6 DEF CallTool
  <2>a. ~Aborted(a)
    <3>1. NoCalls[t] = "off"
        BY DEF NoCalls
    <3> QED
        BY <2>0, <3>1 DEF RequestsAt
  <2>1. /\ \A b \in Attempts \ {a} : tool'[b] = tool[b]
        /\ \A s \in Tools : s # t => tool'[a][s] = tool[a][s]
        /\ tool'[a][t] # "first"
    <3>1. PICK s \in {"done", "none", "second"} : tool' = [tool EXCEPT ![a][t] = s]
        BY <1>6 DEF CallTool
    <3>2. tool'[a] = [tool[a] EXCEPT ![t] = s] /\ \A b \in Attempts \ {a} : tool'[b] = tool[b]
        BY <3>1 DEF TypeOK
    <3> QED
        BY <3>2 DEF Calls
  <2>2. /\ \A b \in Attempts \ {a} : asks'[b] = asks[b]
        /\ \/ asks'[a] = asks[a]
           \/ /\ tool[a][t] = "first"
              /\ \A p \in Requests : asks'[a][p] = IF p = t THEN asks[a][p] + 1 ELSE asks[a][p]
      BY <1>6, AskedFrame DEF CallTool
  <2>3. Frame(a)
      BY <2>0, <2>1, <2>2 DEF Frame
  <2>4. FetchesAt(a)' /\ DownloadsAt(a)' /\ TranslationsAt(a)'
      BY <2>0, <2>a, <2>2 DEF RequestsAt, FetchesAt, DownloadsAt, TranslationsAt
  <2>5. CallsAt(a, "transcript")' /\ CallsAt(a, "download")'
      BY <2>0, <2>a, <2>1, <2>2 DEF RequestsAt, CallsAt, Tools
  <2> QED
      BY <2>0, <2>a, <2>3, <2>4, <2>5 DEF RequestsAt, Aborted
<1>7. CASE ReadTools(a)
  <2>1. /\ at'[a].pc \in {"fail", "fetched"} /\ at'[a].sig = at[a].sig
        /\ \A b \in Attempts \ {a} : at'[b] = at[b]
    <3>1. CASE Aborted(a)
        BY <1>7, <3>1, GoFrame DEF ReadTools
    <3>2. CASE ~Aborted(a)
      <4>1. PICK z, x : at' = [at EXCEPT ![a] = [at[a] EXCEPT !.pc = "fetched", !.zh = z, !.text = x]]
          BY <1>7, <3>2 DEF ReadTools, Set
      <4>2. at'[a] = [at[a] EXCEPT !.pc = "fetched", !.zh = z, !.text = x]
            /\ \A b \in Attempts \ {a} : at'[b] = at[b]
          BY <4>1 DEF TypeOK
      <4> QED
          BY <4>2 DEF AnalysisAt
    <3> QED
        BY <3>1, <3>2
  <2>2. Frame(a)
      BY <1>7, <2>1 DEF Frame, ReadTools
  <2>3. RequestsAt(a)'
      BY <1>7, <2>1, QuietRequests DEF ReadTools, Early
  <2> QED
      BY <2>2, <2>3
<1>8. CASE CheckFetched(a)
  <2>1. PICK pc \in {"fail", "save"} : Go(a, pc)
      BY <1>8 DEF CheckFetched
  <2>2. at'[a].pc = pc /\ at'[a].sig = at[a].sig /\ \A b \in Attempts \ {a} : at'[b] = at[b]
      BY <2>1, GoFrame
  <2>3. Frame(a)
      BY <1>8, <2>2 DEF Frame, CheckFetched
  <2>4. RequestsAt(a)'
      BY <1>8, <2>2, QuietRequests DEF CheckFetched, Early
  <2> QED
      BY <2>3, <2>4
<1>9. CASE SaveTranscript(a)
  <2>1. /\ at'[a].pc \in {"next", "use"} /\ at'[a].sig = at[a].sig
        /\ \A b \in Attempts \ {a} : at'[b] = at[b]
    <3>1. CASE at[a].path = None
      <4>1. at'[a] = [at[a] EXCEPT !.pc = "next", !.left = Candidates(a)]
            /\ \A b \in Attempts \ {a} : at'[b] = at[b]
          BY <1>9, <3>1 DEF SaveTranscript, Set, TypeOK
      <4> QED
          BY <4>1 DEF AnalysisAt
    <3>2. CASE at[a].path # None
        BY <1>9, <3>2, GoFrame DEF SaveTranscript
    <3> QED
        BY <3>1, <3>2
  <2>2. /\ trans'[a] = trans[a] \/ (trans[a] = "off" /\ trans'[a] = "check")
        /\ \A b \in Attempts \ {a} : trans'[b] = trans[b]
      BY <1>9 DEF SaveTranscript, Translate, TypeOK
  <2>3. \A v \in Videos : row'[v].n = row[v].n /\ (v # a[1] => row'[v] = row[v])
      BY <1>9, TranscriptWritten DEF SaveTranscript, AnalysisAt
  <2>4. Frame(a)
      BY <1>9, <2>1, <2>2, <2>3 DEF Frame, SaveTranscript
  <2>5. RequestsAt(a)'
      BY <1>9, <2>1, <2>2, QuietRequests DEF SaveTranscript, Early
  <2> QED
      BY <2>4, <2>5
<1> QED
    BY <1>1, <1>2, <1>3, <1>4, <1>5, <1>6, <1>7, <1>8, <1>9 DEF FetchStep

\* The file that is taken, and what is removed.
LEMMA AcceptFrame ==
    ASSUME TypeOK, NEW a \in Attempts, NEW f \in Originals, Accept(a, f)
    PROVE  /\ at'[a].pc = "chosen" /\ at'[a].sig = at[a].sig /\ at'[a].path = f /\ at'[a].text = at[a].text
           /\ \A b \in Attempts \ {a} : at'[b] = at[b]
           /\ files' = (files \ OwnFiles(a)) \cup {f}
<1>1. at[a] \in AnalysisAt
    BY Entries
<1>2. at'[a] = [at[a] EXCEPT !.pc = "chosen", !.path = f, !.left = <<>>]
      /\ \A b \in Attempts \ {a} : at'[b] = at[b]
    BY DEF Accept, Set, TypeOK
<1> QED
    BY <1>1, <1>2 DEF AnalysisAt, Accept

LEMMA NextSourceFrame ==
    ASSUME TypeOK, NEW a \in Attempts, NEW f \in Paths, at[a].left # <<>>, NextSource(a, f)
    PROVE  /\ at'[a].pc = "next" /\ at'[a].sig = at[a].sig /\ at'[a].path = at[a].path
           /\ at'[a].text = at[a].text /\ at'[a].spare = f
           /\ at'[a].left # <<>> => Head(at'[a].left) # "TokScript"
           /\ \A b \in Attempts \ {a} : at'[b] = at[b]
<1>1. at[a] \in AnalysisAt
    BY Entries
<1>2. at'[a] = [at[a] EXCEPT !.pc = "next", !.left = Tail(at[a].left), !.spare = f]
      /\ \A b \in Attempts \ {a} : at'[b] = at[b]
    BY DEF NextSource, Set, TypeOK
<1>3. at'[a].left = Tail(at[a].left)
    BY <1>1, <1>2 DEF AnalysisAt
<1>4. at'[a].left # <<>> => Head(at'[a].left) # "TokScript"
    BY <1>1, <1>3, Sequel DEF AnalysisAt
<1> QED
    BY <1>1, <1>2, <1>4 DEF AnalysisAt

\* How a download goes on.
LEMMA DownloadCases ==
    ASSUME TypeOK, NEW a \in Attempts, Download(a)
    PROVE  LET f == File(a, Head(at[a].left)) IN
           /\ at[a].left # <<>> /\ Head(at[a].left) \in Sources
           /\ f \in Originals /\ f \in Paths /\ at[a].spare \in Paths /\ f.video = a[1] /\ f.n = a[2]
           /\ \/ Aborted(a) /\ files' = files \ OwnFiles(a) /\ Go(a, "fail") /\ UNCHANGED asks
              \/ ~Aborted(a) /\ Accept(a, f) /\ UNCHANGED asks
              \/ /\ ~Aborted(a) /\ at[a].spare = None /\ files' = files \cup {f}
                 /\ NextSource(a, f) /\ UNCHANGED asks
              \/ ~Aborted(a) /\ UNCHANGED files /\ NextSource(a, at[a].spare) /\ UNCHANGED asks
              \/ ~Aborted(a) /\ asks[a]["TokScript"] = 1 /\ asks' = Asked(a, "TokScript") /\ UNCHANGED <<files, at>>
<1>1. at[a].left # <<>> /\ at[a] \in AnalysisAt
    BY Entries DEF Download, TypeOK
<1>2. Head(at[a].left) \in Sources
    BY <1>1, Sequel DEF AnalysisAt
<1>3. Head(at[a].left) # "TokScript" => "again" \notin Outcomes[Head(at[a].left)]
    BY <1>2 DEF Outcomes, YtDlp, FromWeb
<1>4. at[a].spare \in Paths
    BY <1>1 DEF AnalysisAt
<1> DEFINE f == File(a, Head(at[a].left))
<1>5. f \in Originals /\ f \in Paths /\ f.video = a[1] /\ f.n = a[2]
    BY <1>2, OwnFile DEF Paths
<1> HIDE DEF f
<1>6. \/ Aborted(a) /\ files' = files \ OwnFiles(a) /\ Go(a, "fail") /\ UNCHANGED asks
      \/ ~Aborted(a) /\ Accept(a, f) /\ UNCHANGED asks
      \/ /\ ~Aborted(a) /\ at[a].spare = None /\ files' = files \cup {f}
         /\ NextSource(a, f) /\ UNCHANGED asks
      \/ ~Aborted(a) /\ UNCHANGED files /\ NextSource(a, at[a].spare) /\ UNCHANGED asks
      \/ ~Aborted(a) /\ asks[a]["TokScript"] = 1 /\ asks' = Asked(a, "TokScript") /\ UNCHANGED <<files, at>>
    BY <1>3 DEF Download, f
<1> QED
    BY <1>1, <1>2, <1>4, <1>5, <1>6 DEF f

LEMMA FileRequests ==
    ASSUME TypeOK, NEW a \in Attempts, RequestsAt(a),
           BeforeSource(a) \/ MarkSource(a) \/ Download(a) \/ SourcesExhausted(a) \/ CheckFile(a) \/ SavePath(a)
    PROVE  Frame(a) /\ RequestsAt(a)'
<1> USE Entries, RequestNames
<1>1. CASE BeforeSource(a)
  <2>1. /\ at'[a].pc \in {"download", "mark", "fail"} /\ at'[a].sig = at[a].sig
        /\ \A b \in Attempts \ {a} : at'[b] = at[b]
      BY <1>1, GoFrame DEF BeforeSource
  <2>2. CASE asks' = asks
    <3>1. Frame(a)
        BY <1>1, <2>1, <2>2 DEF Frame, BeforeSource
    <3>2. RequestsAt(a)'
        BY <1>1, <2>1, <2>2, QuietRequests DEF BeforeSource, Early
    <3> QED
        BY <3>1, <3>2
  <2>3. CASE asks' # asks
    <3>1. ~Aborted(a) /\ Head(at[a].left) = "TokScript" /\ asks' = Asked(a, "TokScript")
        BY <1>1, <2>3 DEF BeforeSource, MayGoOn
    <3>2. /\ \A p \in Requests : asks'[a][p] = IF p = "TokScript" THEN asks[a][p] + 1 ELSE asks[a][p]
          /\ \A b \in Attempts \ {a} : asks'[b] = asks[b]
        BY <3>1, AskedFrame
    <3>3. Frame(a)
        BY <1>1, <2>1, <3>2 DEF Frame, BeforeSource
    <3>4. RequestsAt(a)'
        BY <1>1, <2>1, <3>1, <3>2 DEF RequestsAt, Aborted, BeforeSource, FetchesAt, CallsAt, DownloadsAt,
              TranslationsAt, Early
    <3> QED
        BY <3>3, <3>4
  <2> QED
      BY <2>2, <2>3
<1>2. CASE MarkSource(a)
  <2>1. at'[a].pc = "download" /\ at'[a].sig = at[a].sig /\ \A b \in Attempts \ {a} : at'[b] = at[b]
      BY <1>2, GoFrame DEF MarkSource
  <2>2. \A v \in Videos : row'[v].n = row[v].n /\ (v # a[1] => row'[v] = row[v])
      BY <1>2, StatusWritten DEF MarkSource
  <2>3. Frame(a)
      BY <1>2, <2>1, <2>2 DEF Frame, MarkSource
  <2>4. RequestsAt(a)'
      BY <1>2, <2>1, QuietRequests DEF MarkSource, Early
  <2> QED
      BY <2>3, <2>4
<1>3. CASE Download(a)
  <2> DEFINE f == File(a, Head(at[a].left))
  <2>1. /\ at[a].left # <<>> /\ f \in Originals /\ f \in Paths /\ at[a].spare \in Paths
        /\ f.video = a[1] /\ f.n = a[2]
      BY <1>3, DownloadCases
  <2>2. \/ files' = files \ OwnFiles(a) /\ Go(a, "fail") /\ UNCHANGED asks
        \/ Accept(a, f) /\ UNCHANGED asks
        \/ files' = files \cup {f} /\ NextSource(a, f) /\ UNCHANGED asks
        \/ UNCHANGED files /\ NextSource(a, at[a].spare) /\ UNCHANGED asks
        \/ ~Aborted(a) /\ asks[a]["TokScript"] = 1 /\ asks' = Asked(a, "TokScript") /\ UNCHANGED <<files, at>>
      BY <1>3, DownloadCases
  <2> HIDE DEF f
  <2>3. CASE asks' = asks /\ (Go(a, "fail") \/ Accept(a, f) \/ NextSource(a, f) \/ NextSource(a, at[a].spare))
    <3>1. /\ at'[a].pc \in {"fail", "chosen", "next"} /\ at'[a].sig = at[a].sig
          /\ at'[a].pc = "next" /\ at'[a].left # <<>> => Head(at'[a].left) # "TokScript"
          /\ \A b \in Attempts \ {a} : at'[b] = at[b]
      <4>1. CASE Go(a, "fail")
        <5>1. at'[a].pc = "fail" /\ at'[a].sig = at[a].sig /\ \A b \in Attempts \ {a} : at'[b] = at[b]
            BY <4>1, GoFrame
        <5> QED
            BY <5>1
      <4>2. CASE Accept(a, f)
          BY <4>2, <2>1, AcceptFrame
      <4>3. CASE NextSource(a, f)
          BY <4>3, <2>1, NextSourceFrame
      <4>4. CASE NextSource(a, at[a].spare)
          BY <4>4, <2>1, NextSourceFrame
      <4> QED
          BY <2>3, <4>1, <4>2, <4>3, <4>4
    <3>2. RequestsAt(a)'
        BY <1>3, <2>3, <3>1, QuietRequests DEF Download, Early
    <3>3. Frame(a)
        BY <1>3, <2>3, <3>1 DEF Frame, Download
    <3> QED
        BY <3>2, <3>3
  <2>4. CASE ~Aborted(a) /\ asks[a]["TokScript"] = 1 /\ asks' = Asked(a, "TokScript") /\ UNCHANGED <<files, at>>
    <3>1. /\ \A p \in Requests : asks'[a][p] = IF p = "TokScript" THEN asks[a][p] + 1 ELSE asks[a][p]
          /\ \A b \in Attempts \ {a} : asks'[b] = asks[b]
        BY <2>4, AskedFrame
    <3>2. Frame(a)
        BY <1>3, <2>4, <3>1 DEF Frame, Download
    <3>3. RequestsAt(a)'
        BY <1>3, <2>4, <3>1 DEF RequestsAt, Aborted, Download, FetchesAt, CallsAt, DownloadsAt,
              TranslationsAt, Early
    <3> QED
        BY <3>2, <3>3
  <2> QED
      BY <2>2, <2>3, <2>4
<1>4. CASE SourcesExhausted(a)
  <2>1. at[a].spare # None => at[a].spare \in Originals
      BY DEF AnalysisAt, Paths
  <2>2. /\ at'[a].pc \in {"chosen", "fail"} /\ at'[a].sig = at[a].sig
        /\ \A b \in Attempts \ {a} : at'[b] = at[b]
    <3>1. CASE at[a].spare # None /\ ~Aborted(a)
        BY <1>4, <2>1, <3>1, AcceptFrame DEF SourcesExhausted
    <3>2. CASE ~(at[a].spare # None /\ ~Aborted(a))
        BY <1>4, <3>2, GoFrame DEF SourcesExhausted
    <3> QED
        BY <3>1, <3>2
  <2>3. Frame(a)
      BY <1>4, <2>2 DEF Frame, SourcesExhausted
  <2>4. RequestsAt(a)'
      BY <1>4, <2>2, QuietRequests DEF SourcesExhausted, Early
  <2> QED
      BY <2>3, <2>4
<1>5. CASE CheckFile(a)
  <2>1. /\ at'[a].pc \in {"savePath", "fail"} /\ at'[a].sig = at[a].sig
        /\ \A b \in Attempts \ {a} : at'[b] = at[b]
      BY <1>5, GoFrame DEF CheckFile
  <2>2. Frame(a)
      BY <1>5, <2>1 DEF Frame, CheckFile
  <2>3. RequestsAt(a)'
      BY <1>5, <2>1, QuietRequests DEF CheckFile, Early
  <2> QED
      BY <2>2, <2>3
<1>6. CASE SavePath(a)
  <2>1. at'[a].pc = "use" /\ at'[a].sig = at[a].sig /\ \A b \in Attempts \ {a} : at'[b] = at[b]
      BY <1>6, GoFrame DEF SavePath
  <2>2. \A v \in Videos : row'[v].n = row[v].n /\ (v # a[1] => row'[v] = row[v])
      BY <1>6, PathWritten DEF SavePath, AnalysisAt
  <2>3. Frame(a)
      BY <1>6, <2>1, <2>2 DEF Frame, SavePath
  <2>4. RequestsAt(a)'
      BY <1>6, <2>1, QuietRequests DEF SavePath, Early
  <2> QED
      BY <2>3, <2>4
<1> QED
    BY <1>1, <1>2, <1>3, <1>4, <1>5, <1>6

LEMMA LastRequests ==
    ASSUME TypeOK, NEW a \in Attempts, RequestsAt(a),
           \/ UseResults(a) \/ CheckLast(a) \/ CompleteVideo(a) \/ AssertStillOwned(a)
           \/ AnalysisCatch(a) \/ WriteFailed(a)
    PROVE  Frame(a) /\ RequestsAt(a)'
<1> USE Entries, RequestNames
<1>1. CASE UseResults(a)
  <2>1. at'[a].pc = "await" /\ at'[a].sig = at[a].sig /\ \A b \in Attempts \ {a} : at'[b] = at[b]
      BY <1>1, GoFrame DEF UseResults
  <2>2. /\ trans'[a] = trans[a] \/ (trans[a] = "off" /\ trans'[a] = "check")
        /\ \A b \in Attempts \ {a} : trans'[b] = trans[b]
      BY <1>1 DEF UseResults, Translate, TypeOK
  <2>3. Frame(a)
      BY <1>1, <2>1, <2>2 DEF Frame, UseResults
  <2>4. RequestsAt(a)'
      BY <1>1, <2>1, <2>2, QuietRequests DEF UseResults, Early
  <2> QED
      BY <2>3, <2>4
<1>2. CASE CheckLast(a)
  <2>1. /\ at'[a].pc \in {"complete", "fail"} /\ at'[a].sig = at[a].sig
        /\ \A b \in Attempts \ {a} : at'[b] = at[b]
      BY <1>2, GoFrame DEF CheckLast
  <2>2. Frame(a)
      BY <1>2, <2>1 DEF Frame, CheckLast
  <2>3. RequestsAt(a)'
      BY <1>2, <2>1, QuietRequests DEF CheckLast, Early
  <2> QED
      BY <2>2, <2>3
<1>3. CASE CompleteVideo(a)
  <2>1. at'[a].pc = "deliver" /\ at'[a].sig = at[a].sig /\ \A b \in Attempts \ {a} : at'[b] = at[b]
      BY <1>3, GoFrame DEF CompleteVideo
  <2>2. \A v \in Videos : row'[v].n = row[v].n /\ (v # a[1] => row'[v] = row[v])
      BY <1>3, CompletionWritten DEF CompleteVideo, AnalysisAt
  <2>3. Frame(a)
      BY <1>3, <2>1, <2>2 DEF Frame, CompleteVideo
  <2>4. RequestsAt(a)'
      BY <1>3, <2>1, QuietRequests DEF CompleteVideo, Early
  <2> QED
      BY <2>3, <2>4
<1>4. CASE AssertStillOwned(a)
  <2>1. CASE MayGoOn(a)
    <3>1. End(a, "resolved")
        BY <1>4, <2>1 DEF AssertStillOwned
    <3>2. Frame(a)
        BY <1>4, <3>1, EndFrame DEF Frame, AssertStillOwned
    <3>3. RequestsAt(a)'
        BY <1>4, <3>1, EndRequests DEF AssertStillOwned
    <3> QED
        BY <3>2, <3>3
  <2>2. CASE ~MayGoOn(a)
    <3>1. at'[a].pc = "fail" /\ at'[a].sig = at[a].sig /\ \A b \in Attempts \ {a} : at'[b] = at[b]
        BY <1>4, <2>2, GoFrame DEF AssertStillOwned
    <3>2. Frame(a)
        BY <1>4, <2>2, <3>1 DEF Frame, AssertStillOwned
    <3>3. RequestsAt(a)'
        BY <1>4, <2>2, <3>1, QuietRequests DEF AssertStillOwned, Early
    <3> QED
        BY <3>2, <3>3
  <2> QED
      BY <2>1, <2>2
<1>5. CASE AnalysisCatch(a)
  <2> DEFINE over == at[a].sig = "timeout" \/ row[a[1]].n # a[2]
  <2>1. CASE over
    <3>1. End(a, "rejected")
        BY <1>5, <2>1 DEF AnalysisCatch
    <3>2. Frame(a)
        BY <1>5, <3>1, EndFrame DEF Frame, AnalysisCatch
    <3>3. RequestsAt(a)'
        BY <1>5, <3>1, EndRequests DEF AnalysisCatch
    <3> QED
        BY <3>2, <3>3
  <2>2. CASE ~over
    <3>1. at'[a].pc = "write" /\ at'[a].sig = at[a].sig /\ \A b \in Attempts \ {a} : at'[b] = at[b]
        BY <1>5, <2>2, GoFrame DEF AnalysisCatch
    <3>2. Frame(a)
        BY <1>5, <2>2, <3>1 DEF Frame, AnalysisCatch
    <3>3. RequestsAt(a)'
        BY <1>5, <2>2, <3>1, QuietRequests DEF AnalysisCatch, Early
    <3> QED
        BY <3>2, <3>3
  <2> QED
      BY <2>1, <2>2
<1>6. CASE WriteFailed(a)
  <2>1. End(a, "rejected")
      BY <1>6 DEF WriteFailed
  <2>2. /\ trans'[a] = trans[a] \/ (trans[a] = "off" /\ trans'[a] = "check")
        /\ \A b \in Attempts \ {a} : trans'[b] = trans[b]
      BY <1>6 DEF WriteFailed, Translate, TypeOK
  <2>3. \A v \in Videos : row'[v].n = row[v].n /\ (v # a[1] => row'[v] = row[v])
    <3>1. (IF Aborted(a) THEN "stopped" ELSE "failed") \in {"queued", "running"} \cup Terminal
        BY DEF Terminal
    <3> QED
        BY <1>6, <3>1, StatusWritten DEF WriteFailed
  <2>4. Frame(a)
      BY <1>6, <2>1, <2>2, <2>3, EndFrame DEF Frame, WriteFailed
  <2>5. RequestsAt(a)'
      BY <1>6, <2>1, <2>2, EndRequests DEF WriteFailed
  <2> QED
      BY <2>4, <2>5
<1> QED
    BY <1>1, <1>2, <1>3, <1>4, <1>5, <1>6

\* What a step of an attempt changes of another.
LEMMA OthersRequests ==
    ASSUME TypeOK, RequestInv, NEW a \in Attempts, Frame(a), RequestsAt(a)'
    PROVE  RequestInv'
<1> SUFFICES ASSUME NEW b \in Attempts PROVE Untouched(b)' /\ RequestsAt(b)'
    BY DEF RequestInv
<1>1. b[1] \in Videos /\ row'[b[1]].n = row[b[1]].n
    BY Entries DEF Frame
<1>2. CASE b = a
  <2>1. at[a] # NoAttempt
    <3>1. NoAttempt.pc = "none"
        BY DEF NoAttempt
    <3> QED
        BY <3>1 DEF Frame
  <2>2. ~(a[2] > row[a[1]].n)
      BY <2>1 DEF RequestInv, Untouched
  <2> QED
      BY <1>1, <1>2, <2>2 DEF Untouched
<1>3. CASE b # a
  <2>1. at'[b] = at[b] /\ tool'[b] = tool[b] /\ trans'[b] = trans[b] /\ asks'[b] = asks[b]
      BY <1>3 DEF Frame
  <2>2. Untouched(b) /\ RequestsAt(b)
      BY DEF RequestInv
  <2>3. Untouched(b)'
      BY <1>1, <2>1, <2>2 DEF Untouched
  <2>4. RequestsAt(b)'
      BY <2>1, <2>2 DEF RequestsAt, FetchesAt, CallsAt, DownloadsAt, TranslationsAt, Aborted
  <2> QED
      BY <2>3, <2>4
<1> QED
    BY <1>2, <1>3

LEMMA AttemptRequests ==
    ASSUME TypeOK, RequestInv, NEW a \in Attempts, AttemptStep(a)
    PROVE  Frame(a) /\ RequestInv'
<1>1. RequestsAt(a)
    BY DEF RequestInv
<1>2. Frame(a) /\ RequestsAt(a)'
    BY <1>1, FetchRequests, FileRequests, LastRequests DEF AttemptStep
<1> QED
    BY <1>2, OthersRequests

\* Whoever is let in was in the queue, and may ask once more.
LEMMA AdmittedRequests ==
    ASSUME TypeOK, NEW b \in Attempts, RequestsAt(b), Untouched(b), UNCHANGED <<at, tool>>,
           row'[b[1]].n = row[b[1]].n,
           \/ trans'[b] = trans[b] /\ asks'[b] = asks[b]
           \/ /\ trans[b] = "slot" /\ trans'[b] = "ask"
              /\ asks'[b] = [asks[b] EXCEPT !["translation"] = @ + 1]
    PROVE  RequestsAt(b)' /\ Untouched(b)'
<1> USE Entries, RequestNames
<1>1. CASE trans'[b] = trans[b] /\ asks'[b] = asks[b]
    BY <1>1 DEF RequestsAt, Untouched, FetchesAt, CallsAt, DownloadsAt, TranslationsAt, Aborted
<1>2. CASE /\ trans[b] = "slot" /\ trans'[b] = "ask"
           /\ asks'[b] = [asks[b] EXCEPT !["translation"] = @ + 1]
  <2>1. ~Aborted(b) /\ ~(b[2] > row[b[1]].n)
      BY <1>2 DEF RequestsAt, Untouched
  <2>2. /\ asks'[b]["translation"] = asks[b]["translation"] + 1
        /\ \A q \in Requests : q # "translation" => asks'[b][q] = asks[b][q]
      BY <1>2
  <2>3. FetchesAt(b)' /\ CallsAt(b, "transcript")' /\ CallsAt(b, "download")' /\ DownloadsAt(b)'
      BY <2>1, <2>2 DEF RequestsAt, FetchesAt, CallsAt, DownloadsAt, Tools
  <2>4. TranslationsAt(b)'
      BY <1>2, <2>1, <2>2, Limits DEF RequestsAt, TranslationsAt
  <2> QED
      BY <2>1, <2>3, <2>4 DEF RequestsAt, Untouched, Aborted
<1> QED
    BY <1>1, <1>2

\* A task that goes on without being let in.
LEMMA MovedRequests ==
    ASSUME TypeOK, NEW a \in Attempts, RequestsAt(a), Untouched(a), UNCHANGED <<at, tool>>,
           row'[a[1]].n = row[a[1]].n, trans[a] # "off", trans'[a] \in {"answered", "store", "done"},
           asks'[a] = asks[a]
    PROVE  RequestsAt(a)' /\ Untouched(a)'
<1>1. ~(a[2] > row[a[1]].n)
    BY DEF Untouched
<1>2. RequestsAt(a)'
    BY DEF RequestsAt, FetchesAt, CallsAt, DownloadsAt, TranslationsAt, Aborted
<1> QED
    BY <1>1, <1>2 DEF Untouched

LEMMA TranslationRequests ==
    ASSUME TypeOK, SlotInv, RequestInv, NEW a \in Attempts, TranslationStep(a)
    PROVE  RequestInv'
<1> SUFFICES ASSUME NEW b \in Attempts PROVE RequestsAt(b)' /\ Untouched(b)'
    BY DEF RequestInv
<1>0. /\ asks \in [Attempts -> [Requests -> Nat]] /\ trans \in [Attempts -> TaskStates]
      /\ RequestsAt(b) /\ Untouched(b) /\ RequestsAt(a) /\ Untouched(a)
      /\ b[1] \in Videos /\ a[1] \in Videos /\ active \in 0 .. MaxRequests
    BY Entries DEF TypeOK, RequestInv
<1>1. UNCHANGED <<at, tool>> /\ row'[b[1]].n = row[b[1]].n /\ row'[a[1]].n = row[a[1]].n
  <2>1. CASE StoreTranslation(a)
      BY <1>0, <2>1, TranslationWritten DEF StoreTranslation
  <2>2. CASE ~StoreTranslation(a)
      BY <2>2 DEF TranslationStep, TranslationBegins, TranslationAnswered, TranslationChecked
  <2> QED
      BY <2>1, <2>2
<1>2. ASSUME NEW s \in {"done", "store"}, trans[a] \in {"check", "answered", "store"},
             trans' = [trans EXCEPT ![a] = s], UNCHANGED asks
      PROVE  RequestsAt(b)' /\ Untouched(b)'
  <2>1. CASE b = a
      BY <1>0, <1>1, <1>2, <2>1, MovedRequests
  <2>2. CASE b # a
      BY <1>0, <1>1, <1>2, <2>2, AdmittedRequests
  <2> QED
      BY <2>1, <2>2
<1>3. CASE TranslationBegins(a)
  <2>1. CASE MayGoOn(a)
    <3> DEFINE t == [trans EXCEPT ![a] = "slot"]
    <3>1. trans[a] = "check" /\ Admit(Append(waiters, a), active, t) /\ ~Aborted(a)
        BY <1>3, <2>1 DEF TranslationBegins, MayGoOn
    <3>2. t \in [Attempts -> TaskStates] /\ Holding(t) = Holding(trans) /\ t[a] = "slot"
          /\ \A c \in Attempts \ {a} : t[c] = trans[c]
        BY <3>1, <1>0 DEF TaskStates, Holding
    <3>3. Queue(Append(waiters, a), t)
        BY <3>1, <1>0, Appended DEF SlotInv
    <3> HIDE DEF t
    <3>4. IsFiniteSet(Holding(t)) /\ active = Cardinality(Holding(t))
        BY <3>2 DEF SlotInv
    <3>5. \/ trans'[b] = t[b] /\ asks'[b] = asks[b]
          \/ /\ t[b] = "slot" /\ trans'[b] = "ask"
             /\ asks'[b] = [asks[b] EXCEPT !["translation"] = @ + 1]
        BY <1>0, <3>1, <3>2, <3>3, <3>4, Admitted
    <3>6. CASE b # a
        BY <1>0, <1>1, <3>2, <3>5, <3>6, AdmittedRequests
    <3>7. CASE b = a
      <4>1. ~(a[2] > row[a[1]].n) /\ asks[a]["translation"] = 0
          BY <1>0, <3>1 DEF Untouched, RequestsAt, TranslationsAt
      <4>2. /\ asks'[a]["translation"] \in {0, 1} /\ (trans'[a] = "slot" => asks'[a]["translation"] = 0)
            /\ \A q \in Requests : q # "translation" => asks'[a][q] = asks[a][q]
            /\ trans'[a] \in {"slot", "ask"}
          BY <1>0, <3>2, <3>5, <3>7, <4>1, RequestNames
      <4>3. FetchesAt(a)' /\ CallsAt(a, "transcript")' /\ CallsAt(a, "download")' /\ DownloadsAt(a)'
          BY <1>0, <1>1, <3>1, <4>2, RequestNames DEF RequestsAt, FetchesAt, CallsAt, DownloadsAt
      <4>4. TranslationsAt(a)'
          BY <1>0, <4>2, RequestNames, Limits DEF TranslationsAt
      <4> QED
          BY <1>1, <3>1, <3>7, <4>1, <4>3, <4>4 DEF RequestsAt, Untouched, Aborted
    <3> QED
        BY <3>6, <3>7
  <2>2. CASE ~MayGoOn(a)
      BY <1>2, <1>3, <2>2 DEF TranslationBegins
  <2> QED
      BY <2>1, <2>2
<1>4. CASE TranslationAnswered(a)
  <2>1. trans[a] = "ask"
      BY <1>4 DEF TranslationAnswered
  <2>2. ASSUME NEW s \in {"answered", "done"}, Admit(waiters, active - 1, [trans EXCEPT ![a] = s])
        PROVE  RequestsAt(b)' /\ Untouched(b)'
    <3> DEFINE t == [trans EXCEPT ![a] = s]
    <3>1. /\ t \in [Attempts -> TaskStates] /\ Queue(waiters, t)
          /\ IsFiniteSet(Holding(t)) /\ active - 1 = Cardinality(Holding(t)) /\ active - 1 \in 0 .. MaxRequests
        BY <2>1, Returned
    <3>2. t[a] = s /\ \A c \in Attempts \ {a} : t[c] = trans[c]
        BY <1>0
    <3>3. Admit(waiters, active - 1, t)
        BY <2>2
    <3> HIDE DEF t
    <3>4. \/ trans'[b] = t[b] /\ asks'[b] = asks[b]
          \/ /\ t[b] = "slot" /\ trans'[b] = "ask"
             /\ asks'[b] = [asks[b] EXCEPT !["translation"] = @ + 1]
        BY <1>0, <3>1, <3>3, Admitted
    <3>5. CASE b # a
        BY <1>0, <1>1, <3>2, <3>4, <3>5, AdmittedRequests
    <3>6. CASE b = a
        BY <1>0, <1>1, <2>1, <3>2, <3>4, <3>6, MovedRequests
    <3> QED
        BY <3>5, <3>6
  <2>3. CASE /\ ~Aborted(a) /\ asks[a]["translation"] <= Retries
             /\ Admit(Append(waiters, a), active - 1, [trans EXCEPT ![a] = "slot"])
    <3> DEFINE t == [trans EXCEPT ![a] = "slot"]
    <3>1. /\ t \in [Attempts -> TaskStates] /\ Queue(Append(waiters, a), t)
          /\ IsFiniteSet(Holding(t)) /\ active - 1 = Cardinality(Holding(t)) /\ active - 1 \in 0 .. MaxRequests
        BY <2>1, Requeued
    <3>2. t[a] = "slot" /\ \A c \in Attempts \ {a} : t[c] = trans[c]
        BY <1>0
    <3>3. Admit(Append(waiters, a), active - 1, t)
        BY <2>3
    <3> HIDE DEF t
    <3>4. \/ trans'[b] = t[b] /\ asks'[b] = asks[b]
          \/ /\ t[b] = "slot" /\ trans'[b] = "ask"
             /\ asks'[b] = [asks[b] EXCEPT !["translation"] = @ + 1]
        BY <1>0, <3>1, <3>3, Admitted
    <3>5. CASE b # a
        BY <1>0, <1>1, <3>2, <3>4, <3>5, AdmittedRequests
    <3>6. CASE b = a
      <4>1. ~(a[2] > row[a[1]].n)
          BY <1>0, <2>1 DEF Untouched
      <4>2. /\ asks'[a]["translation"] <= Retries + 1
            /\ trans'[a] = "slot" => asks'[a]["translation"] <= Retries
            /\ \A q \in Requests : q # "translation" => asks'[a][q] = asks[a][q]
            /\ trans'[a] \in {"slot", "ask"}
          BY <1>0, <2>3, <3>2, <3>4, <3>6, RequestNames, Limits
      <4>3. FetchesAt(a)' /\ CallsAt(a, "transcript")' /\ CallsAt(a, "download")' /\ DownloadsAt(a)'
          BY <1>0, <1>1, <2>3, <4>2, RequestNames DEF RequestsAt, FetchesAt, CallsAt, DownloadsAt
      <4>4. TranslationsAt(a)'
          BY <4>2 DEF TranslationsAt
      <4> QED
          BY <1>1, <2>3, <3>6, <4>1, <4>3, <4>4 DEF RequestsAt, Untouched, Aborted
    <3> QED
        BY <3>5, <3>6
  <2> QED
      BY <1>4, <2>2, <2>3 DEF TranslationAnswered
<1>5. CASE TranslationChecked(a)
  <2>1. \E s \in {"done", "store"} : trans' = [trans EXCEPT ![a] = s]
      BY <1>5 DEF TranslationChecked
  <2> QED
      BY <1>2, <1>5, <2>1 DEF TranslationChecked
<1>6. CASE StoreTranslation(a)
    BY <1>2, <1>6 DEF StoreTranslation
<1> QED
    BY <1>3, <1>4, <1>5, <1>6 DEF TranslationStep

\* Steps that send nothing, and at most start an attempt.
LEMMA StillRequests ==
    ASSUME TypeOK, RequestInv, UNCHANGED <<tool, trans, asks>>,
           \A v \in Videos : row'[v].n \in Nat /\ row'[v].n >= row[v].n,
           \A b \in Attempts :
              \/ at'[b] = at[b]
              \/ /\ at'[b].sig = at[b].sig /\ at[b].pc = "none" /\ at'[b].pc = "load"
                 /\ at'[b].left = at[b].left /\ b[2] = row'[b[1]].n
    PROVE  RequestInv'
<1> SUFFICES ASSUME NEW b \in Attempts PROVE RequestsAt(b)' /\ Untouched(b)'
    BY DEF RequestInv
<1>1. RequestsAt(b) /\ Untouched(b) /\ b[1] \in Videos /\ b[2] \in Nat /\ row[b[1]].n \in Nat
    BY Entries DEF RequestInv, VideoRow
<1>2. CASE at'[b] = at[b]
    BY <1>1, <1>2 DEF RequestsAt, Untouched, FetchesAt, CallsAt, DownloadsAt, TranslationsAt, Aborted
<1>3. CASE at'[b] # at[b]
  <2>1. RequestsAt(b)'
      BY <1>1, <1>3, QuietRequests DEF Early
  <2> QED
      BY <1>1, <1>3, <2>1 DEF Untouched
<1> QED
    BY <1>2, <1>3

LEMMA AbortRequests ==
    ASSUME TypeOK, SlotInv, RequestInv, NEW v \in Videos, RunOf(v), NEW why \in {"stop", "timeout"}, Abort(v, why),
           \A w \in Videos : row'[w].n = row[w].n
    PROVE  RequestInv'
<1>a. PICK a \in Attempts : a = Current(v)
    BY Numbered DEF RunOf, Abort, Current
<1>1. a[1] = v /\ a[2] = run[v].n
    BY <1>a DEF Current
<1>2. Set(a, [at[a] EXCEPT !.sig = why]) /\ tool' = [tool EXCEPT ![a] = NoCalls]
      /\ asks' = [asks EXCEPT ![a] = Unasked] /\ LeaveQueue(a)
    BY <1>a DEF Abort
<1>3. at[a] \in AnalysisAt
    BY <1>1, Entries
<1>4. /\ at'[a].sig = why /\ at'[a].pc = at[a].pc /\ tool'[a] = NoCalls /\ asks'[a] = Unasked
      /\ \A b \in Attempts \ {a} : at'[b] = at[b] /\ tool'[b] = tool[b] /\ asks'[b] = asks[b]
    BY <1>1, <1>2, <1>3 DEF Set, TypeOK, AnalysisAt
<1>5. /\ \A b \in Attempts \ {a} : trans'[b] = trans[b]
      /\ trans'[a] # "slot"
  <2>1. \A b \in Attempts : trans'[b] = trans[b] \/ (b = a /\ trans[b] = "slot" /\ trans'[b] = "done")
      BY <1>1, <1>2, LeaveQueueOK
  <2>2. trans'[a] # "slot"
      BY <1>1, <1>2 DEF LeaveQueue, TypeOK
  <2> QED
      BY <2>1, <2>2
<1> SUFFICES ASSUME NEW b \in Attempts PROVE RequestsAt(b)' /\ Untouched(b)'
    BY DEF RequestInv
<1>6. RequestsAt(b) /\ Untouched(b) /\ b[1] \in Videos
    BY Entries DEF RequestInv
<1>7. CASE b = a
  <2>a. at'[a].sig # "none" /\ asks'[a] = Unasked /\ tool'[a] = NoCalls /\ trans'[a] # "slot"
      BY <1>4, <1>5
  <2>1. RequestsAt(a)'
      BY <2>a DEF RequestsAt, Aborted
  <2>2. ~(a[2] > row'[a[1]].n)
    <3>1. a[2] \in Nat /\ run[v].n = row'[v].n
        BY <1>1, Entries DEF RunOf
    <3> QED
        BY <1>1, <3>1
  <2> QED
      BY <1>7, <2>1, <2>2 DEF Untouched
<1>8. CASE b # a
  <2>1. /\ at'[b] = at[b] /\ tool'[b] = tool[b] /\ asks'[b] = asks[b] /\ trans'[b] = trans[b]
        /\ row'[b[1]].n = row[b[1]].n
      BY <1>4, <1>5, <1>6, <1>8
  <2> QED
      BY <2>1, <1>6 DEF RequestsAt, Untouched, FetchesAt, CallsAt, DownloadsAt, TranslationsAt, Aborted
<1> QED
    BY <1>7, <1>8

LEMMA RunRequests ==
    ASSUME TypeOK, SlotInv, RequestInv, NEW v \in Videos, RunOf(v),
           RunStep(v) \/ Timeout(v) \/ StopVideo(v) \/ Restart(v)
    PROVE  RequestInv'
<1>0. \A w \in Videos : row[w].n \in Nat /\ row[w] \in VideoRow
    BY Limits DEF TypeOK, VideoRow
<1>1. CASE StartAttempt(v)
  <2>a. PICK n \in Numbers : n = row[v].n + 1
      BY <1>1 DEF StartAttempt
  <2>b. PICK a \in Attempts : a = <<v, n>>
      BY Numbered
  <2>1. Go(a, "load") /\ row' = [row EXCEPT ![v].n = n] /\ UNCHANGED <<tool, trans, asks>>
      BY <1>1, <2>a, <2>b DEF StartAttempt, Go, Set, TypeOK
  <2>2. a[2] > row[a[1]].n /\ a[1] = v /\ a[2] = n /\ n \in Nat
      BY <1>0, <2>a, <2>b DEF Numbers
  <2>3. at[a] = NoAttempt /\ NoAttempt.pc = "none"
      BY <2>2 DEF RequestInv, Untouched, NoAttempt
  <2>4. at[a].pc = "none" /\ at'[a].pc = "load" /\ at'[a].sig = at[a].sig /\ at'[a].left = at[a].left
        /\ \A b \in Attempts \ {a} : at'[b] = at[b]
      BY <2>1, <2>3, GoFrame
  <2>5. row'[v].n = n /\ n >= row[v].n /\ n \in Nat /\ \A w \in Videos : w # v => row'[w] = row[w]
      BY <1>0, <2>1, <2>2, <2>a DEF TypeOK, VideoRow
  <2>6. \A w \in Videos : row'[w].n \in Nat /\ row'[w].n >= row[w].n
      BY <1>0, <2>5
  <2> QED
      BY <2>1, <2>2, <2>4, <2>5, <2>6, StillRequests
<1>2. CASE Timeout(v)
    BY <1>2, AbortRequests DEF Timeout
<1>3. CASE StopVideo(v)
    BY <1>3, AbortRequests, StatusWritten DEF StopVideo, Terminal
<1>4. CASE RaceEnds(v) \/ PublishEnd(v) \/ SettleRun(v) \/ DeleteAttemptCache(v) \/ ForgetOriginal(v) \/ Restart(v)
  <2>1. UNCHANGED <<at, tool, trans, asks>>
      BY <1>4 DEF RaceEnds, PublishEnd, SettleRun, DeleteAttemptCache, ForgetOriginal, Restart
  <2>2. \A w \in Videos : row'[w].n = row[w].n
    <3>1. CASE PublishEnd(v)
      <4>1. (IF Aborted(Current(v)) THEN "stopped" ELSE "failed") \in {"queued", "running"} \cup Terminal
          BY DEF Terminal
      <4> QED
          BY <3>1, <4>1, StatusWritten DEF PublishEnd
    <3>2. CASE ForgetOriginal(v)
        BY <3>2, PathWritten DEF ForgetOriginal, Paths
    <3>3. CASE Restart(v)
        BY <3>3, StatusWritten DEF Restart
    <3>4. CASE RaceEnds(v) \/ SettleRun(v) \/ DeleteAttemptCache(v)
        BY <3>4 DEF RaceEnds, SettleRun, DeleteAttemptCache
    <3> QED
        BY <1>4, <3>1, <3>2, <3>3, <3>4
  <2>3. \A w \in Videos : row'[w].n \in Nat /\ row'[w].n >= row[w].n
      BY <1>0, <2>2
  <2> QED
      BY <2>1, <2>3, StillRequests
<1> QED
    BY <1>1, <1>2, <1>3, <1>4 DEF RunStep

-----------------------------------------------------------------------------
(* The runs and the files.                                                 *)

\* Two attempts of one video have different numbers.
LEMMA OneOfEach ==
    ASSUME NEW a \in Attempts, NEW b \in Attempts, a[1] = b[1], a[2] = b[2]
    PROVE  a = b
BY DEF Attempts

\* What a step of a leaves to the others: their files, and what a live one has to itself.
Keeps(a) ==
    /\ \A f : ~(f.video = a[1] /\ f.n = a[2]) => (f \in files' <=> f \in files)
    /\ Live(a)' => Live(a)
    /\ Live(a) \/ (row'[a[1]].text = row[a[1]].text /\ row'[a[1]].path = row[a[1]].path)
    /\ Live(a) \/ row'[a[1]].status = row[a[1]].status \/ row'[a[1]].status # "completed"
    /\ row'[a[1]].path = row[a[1]].path \/ row'[a[1]].path.n = a[2]

LEMMA OthersFiles ==
    ASSUME TypeOK, FileInv, NEW a \in Attempts, Frame(a), Keeps(a), NEW b \in Attempts, b # a
    PROVE  ResultsAt(b)'
<1>1. at'[b] = at[b] /\ ResultsAt(b) /\ a[1] \in Videos /\ b[1] \in Videos /\ run' = run /\ a[2] \in Numbers
    BY Entries DEF Frame, FileInv
<1>2. OwnFiles(b)' = OwnFiles(b)
  <2>1. ~(b[1] = a[1] /\ b[2] = a[2])
      BY OneOfEach
  <2>2. \A f : f.video = b[1] /\ f.n = b[2] => (f \in files' <=> f \in files)
      BY <2>1 DEF Keeps
  <2> QED
      BY <2>2 DEF OwnFiles
<1>3. Live(b)' <=> Live(b)
    BY <1>1 DEF Live, Aborted, Sending
<1>4. Awaited(b)'
    BY <1>1, <1>3 DEF ResultsAt, Awaited
<1>5. CASE row'[b[1]].text = row[b[1]].text /\ row'[b[1]].path = row[b[1]].path
    BY <1>1, <1>2, <1>3, <1>4, <1>5 DEF ResultsAt, TextAt, PathAt, FilesAt
<1>6. CASE ~(row'[b[1]].text = row[b[1]].text /\ row'[b[1]].path = row[b[1]].path)
  <2>1. b[1] = a[1] /\ Live(a)
      BY <1>1, <1>6 DEF Frame, Keeps
  <2>2. ~Live(b)
    <3>1. Live(b) => run[b[1]].n = b[2]
        BY <1>1 DEF ResultsAt, Awaited
    <3>2. run[a[1]].n = a[2]
        BY <2>1 DEF FileInv, ResultsAt, Awaited
    <3> QED
        BY <2>1, <3>1, <3>2, OneOfEach
  <2>3. at[b].pc \in Unsaved /\ row'[b[1]].path # None => row'[b[1]].path.n # b[2]
    <3>1. CASE row'[b[1]].path = row[b[1]].path
        BY <1>1, <3>1 DEF ResultsAt, FilesAt
    <3>2. CASE row'[b[1]].path.n = a[2]
        BY <2>1, <3>2, OneOfEach
    <3> QED
        BY <2>1, <3>1, <3>2 DEF Keeps
  <2>4. FilesAt(b)'
      BY <1>1, <1>2, <2>3 DEF ResultsAt, FilesAt
  <2> QED
      BY <1>3, <1>4, <2>2, <2>4 DEF ResultsAt, TextAt, PathAt
<1> QED
    BY <1>5, <1>6

\* A step of an attempt, once what it has in hand itself is accounted for.
LEMMA AttemptKept ==
    ASSUME TypeOK, FileInv, NEW a \in Attempts, Frame(a), Keeps(a),
           PathOf(a[1])', TextAt(a)', PathAt(a)', FilesAt(a)'
    PROVE  FileInv'
<1>1. Awaited(a)'
    BY DEF Frame, Keeps, FileInv, ResultsAt, Awaited
<1>2. \A b \in Attempts : ResultsAt(b)'
    BY <1>1, OthersFiles DEF ResultsAt
<1>3. ASSUME NEW v \in Videos PROVE RunOf(v)' /\ PathOf(v)'
  <2>1. RunOf(v) /\ PathOf(v) /\ a[1] \in Videos /\ run' = run /\ row'[v].n = row[v].n
      BY Entries DEF FileInv, Frame
  <2>2. CASE v = a[1]
    <3>1. Live(a) => run[v].pc = "racing"
        BY <2>2 DEF FileInv, ResultsAt, Awaited
    <3>2. RunOf(v)'
        BY <2>1, <2>2, <3>1 DEF Keeps, RunOf
    <3> QED
        BY <2>2, <3>2
  <2>3. CASE v # a[1]
    <3>1. row'[v] = row[v]
        BY <2>3 DEF Frame
    <3>2. row[v].path # None => (row[v].path \in files' <=> row[v].path \in files)
        BY <2>1, <2>3 DEF Keeps, PathOf
    <3> QED
        BY <2>1, <3>1, <3>2 DEF RunOf, PathOf
  <2> QED
      BY <2>2, <2>3
<1> QED
    BY <1>2, <1>3 DEF FileInv

\* Steps that neither take nor remove a file, nor write its path.
LEMMA QuietFiles ==
    ASSUME TypeOK, FileInv, NEW a \in Attempts, Frame(a), UNCHANGED files,
           at'[a].path = at[a].path, at'[a].spare \in {at[a].spare, None},
           Live(a)' => Live(a), TextAt(a)',
           Live(a) \/ row'[a[1]].text = row[a[1]].text, row'[a[1]].path = row[a[1]].path,
           \/ row'[a[1]].status = row[a[1]].status
           \/ row'[a[1]].status # "completed"
           \/ Live(a) /\ row[a[1]].path # None,
           at[a].pc # "load", at'[a].pc # "load",
           at'[a].pc \in Early => at[a].pc \in Early,
           at'[a].pc \in Looking => \/ at[a].pc \in Looking /\ at'[a].spare = at[a].spare
                                    \/ at[a].pc \in Early /\ at[a].path = None,
           at[a].pc \in Looking => at'[a].pc \in Looking,
           at'[a].pc \in Chosen => at[a].pc \in Chosen,
           at'[a].pc \in Late => at[a].pc \in Late \/ (at[a].pc \in Early /\ at[a].path # None)
    PROVE  FileInv'
<1>1. ResultsAt(a) /\ a[1] \in Videos /\ PathOf(a[1]) /\ run' = run
    BY Entries DEF FileInv, Frame
<1>2. OwnFiles(a)' = OwnFiles(a)
    BY DEF OwnFiles
<1>3. PathAt(a)'
    BY <1>1, <1>2 DEF ResultsAt, PathAt, Early, Late, Looking, Chosen
<1>4. FilesAt(a)'
  <2>1. at'[a].spare # None => at'[a].spare.video = a[1] /\ at'[a].spare.n = a[2]
      BY <1>1 DEF ResultsAt, FilesAt
  <2>2. at'[a].pc \in {"none", "load"} \cup Early => OwnFiles(a) = {}
      BY <1>1 DEF ResultsAt, FilesAt, Frame
  <2>3. at'[a].pc \in Looking => OwnFiles(a) \subseteq {at'[a].spare}
      BY <1>1 DEF ResultsAt, FilesAt
  <2>4. at'[a].pc \notin Looking => OwnFiles(a) \subseteq {at'[a].path}
      BY <1>1 DEF ResultsAt, FilesAt
  <2>5. at'[a].pc \in Unsaved => at[a].pc \in Unsaved
      BY DEF Frame, Unsaved
  <2>6. at'[a].pc \in Unsaved /\ row'[a[1]].path # None => row'[a[1]].path.n # a[2]
      BY <1>1, <2>5 DEF ResultsAt, FilesAt
  <2> QED
      BY <1>2, <2>1, <2>2, <2>3, <2>4, <2>6 DEF FilesAt
<1>5. Keeps(a)
    BY DEF Keeps
<1>6. PathOf(a[1])'
    BY <1>1 DEF PathOf
<1> QED
    BY <1>3, <1>4, <1>5, <1>6, AttemptKept

\* An attempt goes to another place, and at most the status of its row changes.
LEMMA GoFiles ==
    ASSUME TypeOK, FileInv, NEW a \in Attempts, Frame(a), NEW pc, Go(a, pc), UNCHANGED files,
           row'[a[1]].text = row[a[1]].text, row'[a[1]].path = row[a[1]].path,
           row'[a[1]].status = row[a[1]].status \/ row'[a[1]].status # "completed",
           pc \in {"fetch", "save", "mark", "savePath", "complete"} => ~Aborted(a),
           at[a].pc # "load", pc # "load",
           pc \in Early => at[a].pc \in Early,
           pc \in Looking <=> at[a].pc \in Looking,
           pc \in Chosen => at[a].pc \in Chosen,
           pc \in Late => at[a].pc \in Late \/ (at[a].pc \in Early /\ at[a].path # None)
    PROVE  FileInv'
<1>1. /\ at'[a].pc = pc /\ at'[a].sig = at[a].sig /\ at'[a].text = at[a].text
      /\ at'[a].path = at[a].path /\ at'[a].spare = at[a].spare
    BY GoFrame
<1>2. Live(a)' => Live(a)
    BY <1>1 DEF Live, Aborted, Sending, Frame
<1>3. TextAt(a)'
    BY <1>1, <1>2 DEF TextAt, FileInv, ResultsAt
<1> QED
    BY <1>1, <1>2, <1>3, QuietFiles

LEMMA FetchFiles ==
    ASSUME TypeOK, FileInv, NEW a \in Attempts, Frame(a), LoadVideo(a) \/ FetchStep(a)
    PROVE  FileInv'
<1> USE Entries
<1>0. ResultsAt(a) /\ PathOf(a[1]) /\ row[a[1]] \in VideoRow /\ at[a] \in AnalysisAt
    BY DEF FileInv
<1>1. CASE LoadVideo(a)
  <2>1. at'[a] = [at[a] EXCEPT !.pc = "begin", !.text = row[a[1]].text, !.zh = row[a[1]].zh,
                               !.path = row[a[1]].path]
      BY <1>1 DEF LoadVideo, Set, TypeOK
  <2>2. /\ at'[a].pc = "begin" /\ at'[a].sig = at[a].sig /\ at'[a].text = row[a[1]].text
        /\ at'[a].path = row[a[1]].path /\ at'[a].spare = at[a].spare
      BY <1>0, <2>1 DEF AnalysisAt
  <2>3. OwnFiles(a)' = OwnFiles(a) /\ row' = row /\ files' = files /\ run' = run /\ at[a].pc = "load"
      BY <1>1 DEF OwnFiles, LoadVideo
  <2>4. Keeps(a)
      BY <2>2, <2>3 DEF Keeps, Live, Aborted, Sending
  <2>5. TextAt(a)' /\ PathAt(a)'
      BY <2>2, <2>3 DEF TextAt, PathAt, Early, Late, Looking, Chosen
  <2>6. FilesAt(a)'
      BY <1>0, <2>2, <2>3 DEF ResultsAt, FilesAt, Early, Looking, Unsaved
  <2>7. PathOf(a[1])'
      BY <1>0, <2>3 DEF PathOf
  <2> QED
      BY <2>4, <2>5, <2>6, <2>7, AttemptKept
<1>2. CASE BeginFetch(a)
  <2>1. PICK pc \in {"fail", "fetch", "use"} :
           Go(a, pc) /\ (pc = "fetch" => ~Aborted(a)) /\ (pc = "use" => at[a].path # None)
    <3>1. CASE ~MayGoOn(a)
      <4>1. Go(a, "fail")
          BY <1>2, <3>1 DEF BeginFetch
      <4> QED
          BY <4>1
    <3>2. CASE MayGoOn(a) /\ NeedsTokScript(a)
        BY <1>2, <3>2 DEF BeginFetch, MayGoOn
    <3>3. CASE MayGoOn(a) /\ ~NeedsTokScript(a)
      <4>1. Go(a, "use")
          BY <1>2, <3>3 DEF BeginFetch
      <4> QED
          BY <4>1, <3>3 DEF NeedsTokScript
    <3> QED
        BY <3>1, <3>2, <3>3
  <2> QED
      BY <1>2, <2>1, GoFiles DEF BeginFetch, Early, Late, Looking, Chosen
<1>3. CASE FetchTikTok(a)
    BY <1>3, StatusWritten, GoFiles DEF FetchTikTok, Early, Late, Looking, Chosen
<1>4. CASE Connect(a)
  <2>1. PICK pc \in {"tools", "pause", "fail"} : Go(a, pc)
      BY <1>4 DEF Connect
  <2> QED
      BY <1>4, <2>1, GoFiles DEF Connect, Early, Late, Looking, Chosen
<1>5. CASE ConnectAgain(a)
  <2>1. PICK pc \in {"connect", "fail"} : Go(a, pc)
      BY <1>5 DEF ConnectAgain
  <2> QED
      BY <1>5, <2>1, GoFiles DEF ConnectAgain, Early, Late, Looking, Chosen
<1>6. ASSUME NEW t \in Tools, CallTool(a, t) PROVE FileInv'
  <2>1. UNCHANGED <<at, row, files, run>> /\ at[a].pc = "tools"
      BY <1>6 DEF CallTool
  <2>2. TextAt(a)' /\ (Live(a)' => Live(a))
      BY <1>0, <2>1 DEF ResultsAt, TextAt, Live, Aborted, Sending
  <2> QED
      BY <2>1, <2>2, QuietFiles DEF Early, Late, Looking, Chosen
<1>7. CASE ReadTools(a)
  <2>1. CASE Aborted(a)
      BY <1>7, <2>1, GoFiles DEF ReadTools, Early, Late, Looking, Chosen
  <2>2. CASE ~Aborted(a)
    <3>1. PICK z, x : /\ at' = [at EXCEPT ![a] = [at[a] EXCEPT !.pc = "fetched", !.zh = z, !.text = x]]
                      /\ at[a].text = "spoken" => x = "spoken"
        BY <1>7, <2>2 DEF ReadTools, Set
    <3>2. at'[a] = [at[a] EXCEPT !.pc = "fetched", !.zh = z, !.text = x]
        BY <3>1 DEF TypeOK
    <3>a. /\ at'[a].pc = "fetched" /\ at'[a].sig = at[a].sig /\ at'[a].path = at[a].path
          /\ at'[a].spare = at[a].spare /\ at'[a].text = x
        BY <1>0, <3>2 DEF AnalysisAt
    <3>3. /\ at'[a].pc = "fetched" /\ at'[a].sig = at[a].sig /\ at'[a].path = at[a].path
          /\ at'[a].spare = at[a].spare /\ (at[a].text = "spoken" => at'[a].text = "spoken")
        BY <3>1, <3>a
    <3>4. UNCHANGED <<row, files>> /\ at[a].pc = "tools"
        BY <1>7 DEF ReadTools
    <3>5. TextAt(a)' /\ (Live(a)' => Live(a))
        BY <1>0, <3>3, <3>4 DEF ResultsAt, TextAt, Live, Aborted, Sending
    <3> QED
        BY <3>3, <3>4, <3>5, QuietFiles DEF Early, Late, Looking, Chosen
  <2> QED
      BY <2>1, <2>2
<1>8. CASE CheckFetched(a)
  <2>1. PICK pc \in {"fail", "save"} : Go(a, pc) /\ (pc = "save" => ~Aborted(a))
      BY <1>8 DEF CheckFetched, MayGoOn
  <2> QED
      BY <1>8, <2>1, GoFiles DEF CheckFetched, Early, Late, Looking, Chosen
<1>9. CASE SaveTranscript(a)
  <2>1. /\ at'[a].sig = at[a].sig /\ at'[a].path = at[a].path /\ at'[a].spare = at[a].spare
        /\ at'[a].text = at[a].text
        /\ IF at[a].path = None THEN at'[a].pc = "next" ELSE at'[a].pc = "use"
    <3>1. CASE at[a].path = None
      <4>1. at'[a] = [at[a] EXCEPT !.pc = "next", !.left = Candidates(a)]
          BY <1>9, <3>1 DEF SaveTranscript, Set, TypeOK
      <4> QED
          BY <1>0, <3>1, <4>1 DEF AnalysisAt
    <3>2. CASE at[a].path # None
        BY <1>9, <3>2, GoFrame DEF SaveTranscript
    <3> QED
        BY <3>1, <3>2
  <2>2. /\ row'[a[1]].text = at[a].text /\ row'[a[1]].path = row[a[1]].path
        /\ row'[a[1]].status = row[a[1]].status
    <3>1. at[a].text \in Texts /\ at[a].zh \in BOOLEAN /\ a[1] \in Videos
        BY <1>0 DEF AnalysisAt
    <3>2. row' = [row EXCEPT ![a[1]].text = at[a].text, ![a[1]].zh = @ \/ at[a].zh]
        BY <1>9 DEF SaveTranscript
    <3> QED
        BY <3>1, <3>2, TranscriptWritten
  <2>3. files' = files /\ at[a].pc = "save"
      BY <1>9 DEF SaveTranscript
  <2>4. Live(a) /\ TextAt(a)'
      BY <2>1, <2>2, <2>3 DEF Live, Sending, TextAt
  <2> QED
      BY <2>1, <2>2, <2>3, <2>4, QuietFiles DEF Early, Late, Looking, Chosen
<1> QED
    BY <1>1, <1>2, <1>3, <1>4, <1>5, <1>6, <1>7, <1>8, <1>9 DEF FetchStep

\* An attempt gives up while it looks for a file: what it has on the disk goes.
LEMMA GiveUpFiles ==
    ASSUME TypeOK, FileInv, NEW a \in Attempts, Frame(a), Go(a, "fail"), at[a].pc \in Looking,
           files' = files \ OwnFiles(a), row' = row
    PROVE  FileInv'
<1>0. ResultsAt(a) /\ PathOf(a[1])
    BY Entries DEF FileInv
<1>1. /\ at'[a].pc = "fail" /\ at'[a].sig = at[a].sig /\ at'[a].text = at[a].text
      /\ at'[a].path = at[a].path /\ at'[a].spare = at[a].spare
    BY GoFrame
<1>2. Live(a)' => Live(a)
    BY <1>1 DEF Live, Aborted, Sending, Looking
<1>3. Keeps(a)
    BY <1>2 DEF Keeps, OwnFiles
<1>4. OwnFiles(a)' = {}
    BY DEF OwnFiles
<1>5. TextAt(a)' /\ PathAt(a)' /\ FilesAt(a)'
    BY <1>0, <1>1, <1>2, <1>4 DEF ResultsAt, TextAt, PathAt, FilesAt, Early, Late, Looking, Chosen, Unsaved
<1>6. PathOf(a[1])'
  <2>1. row[a[1]].path # None => row[a[1]].path.n # a[2]
      BY <1>0 DEF ResultsAt, FilesAt, Unsaved
  <2> QED
      BY <1>0, <2>1 DEF PathOf, OwnFiles, Frame
<1> QED
    BY <1>3, <1>5, <1>6, AttemptKept

\* It takes a file of its own, and only that one stays on the disk.
LEMMA AcceptFiles ==
    ASSUME TypeOK, FileInv, NEW a \in Attempts, Frame(a), at[a].pc \in Looking, ~Aborted(a), row' = row,
           NEW f \in Originals, f.video = a[1], f.n = a[2], Accept(a, f)
    PROVE  FileInv'
<1>0. ResultsAt(a) /\ PathOf(a[1]) /\ f # None
    BY Entries, NoneIsNoFile DEF FileInv
<1>1. /\ at'[a].pc = "chosen" /\ at'[a].sig = at[a].sig /\ at'[a].text = at[a].text
      /\ at'[a].path = f /\ files' = (files \ OwnFiles(a)) \cup {f}
    BY AcceptFrame
<1>2. Live(a)
    BY DEF Live, Looking
<1>3. Keeps(a)
    BY <1>1, <1>2 DEF Keeps, OwnFiles
<1>4. OwnFiles(a)' = {f}
    BY <1>1 DEF OwnFiles
<1>5. at'[a].spare = at[a].spare
  <2>1. at[a] \in AnalysisAt /\ at'[a] = [at[a] EXCEPT !.pc = "chosen", !.path = f, !.left = <<>>]
      BY Entries DEF Accept, Set, TypeOK
  <2> QED
      BY <2>1 DEF AnalysisAt
<1>6. row[a[1]].path # None => row[a[1]].path.n # a[2]
    BY <1>0 DEF ResultsAt, FilesAt, Unsaved
<1>7. TextAt(a)' /\ PathAt(a)'
    BY <1>0, <1>1, <1>2, <1>4 DEF ResultsAt, TextAt, PathAt, Early, Late, Looking, Chosen
<1>8. FilesAt(a)'
    BY <1>0, <1>1, <1>4, <1>5, <1>6 DEF ResultsAt, FilesAt, Early, Looking
<1>9. PathOf(a[1])'
    BY <1>0, <1>1, <1>6 DEF PathOf, OwnFiles, Frame
<1> QED
    BY <1>3, <1>7, <1>8, <1>9, AttemptKept

\* It goes on with the next source, and keeps its first file without sound.
LEMMA NextSourceFiles ==
    ASSUME TypeOK, FileInv, NEW a \in Attempts, Frame(a), at[a].pc \in Looking, ~Aborted(a), row' = row,
           at[a].left # <<>>, NEW f \in Paths, NextSource(a, f),
           \/ files' = files /\ f = at[a].spare
           \/ /\ files' = files \cup {f} /\ at[a].spare = None
              /\ f.video = a[1] /\ f.n = a[2] /\ f \in Originals
    PROVE  FileInv'
<1>0. ResultsAt(a) /\ PathOf(a[1])
    BY Entries DEF FileInv
<1>1. /\ at'[a].pc = "next" /\ at'[a].sig = at[a].sig /\ at'[a].text = at[a].text
      /\ at'[a].path = at[a].path /\ at'[a].spare = f
    BY NextSourceFrame
<1>2. Live(a)
    BY DEF Live, Looking
<1>3. Keeps(a)
    BY <1>2 DEF Keeps
<1>4. /\ OwnFiles(a)' \subseteq {f}
      /\ f # None => f.video = a[1] /\ f.n = a[2]
  <2>1. OwnFiles(a) \subseteq {at[a].spare} /\ (at[a].spare # None => at[a].spare.video = a[1] /\ at[a].spare.n = a[2])
      BY <1>0 DEF ResultsAt, FilesAt
  <2>2. None \notin OwnFiles(a)
      BY NoneIsNoFile DEF OwnFiles, TypeOK
  <2>3. CASE files' = files /\ f = at[a].spare
      BY <2>1, <2>3 DEF OwnFiles
  <2>4. CASE files' = files \cup {f} /\ at[a].spare = None /\ f.video = a[1] /\ f.n = a[2] /\ f \in Originals
      BY <2>1, <2>2, <2>4 DEF OwnFiles
  <2> QED
      BY <2>3, <2>4
<1>5. TextAt(a)' /\ PathAt(a)'
    BY <1>0, <1>1, <1>2 DEF ResultsAt, TextAt, PathAt, Early, Late, Looking, Chosen
<1>6. FilesAt(a)'
    BY <1>0, <1>1, <1>4 DEF ResultsAt, FilesAt, Early, Looking, Unsaved
<1>7. PathOf(a[1])'
    BY <1>0 DEF PathOf, Frame
<1> QED
    BY <1>3, <1>5, <1>6, <1>7, AttemptKept

LEMMA FileFiles ==
    ASSUME TypeOK, FileInv, NEW a \in Attempts, Frame(a),
           BeforeSource(a) \/ MarkSource(a) \/ Download(a) \/ SourcesExhausted(a) \/ CheckFile(a) \/ SavePath(a)
    PROVE  FileInv'
<1> USE Entries
<1>0. ResultsAt(a) /\ PathOf(a[1]) /\ row[a[1]] \in VideoRow /\ at[a] \in AnalysisAt
    BY DEF FileInv
<1>1. CASE BeforeSource(a)
  <2>0. at[a].pc = "next" /\ row' = row
      BY <1>1 DEF BeforeSource
  <2>1. CASE MayGoOn(a)
    <3>1. PICK pc \in {"download", "mark"} : Go(a, pc)
        BY <1>1, <2>1 DEF BeforeSource
    <3>2. files' = files /\ ~Aborted(a)
        BY <1>1, <2>1 DEF BeforeSource, MayGoOn
    <3> QED
        BY <2>0, <3>1, <3>2, GoFiles DEF Early, Late, Looking, Chosen
  <2>2. CASE ~MayGoOn(a)
    <3>1. files' = files \ OwnFiles(a) /\ Go(a, "fail")
        BY <1>1, <2>2 DEF BeforeSource
    <3> QED
        BY <2>0, <3>1, GiveUpFiles DEF Looking
  <2> QED
      BY <2>1, <2>2
<1>2. CASE MarkSource(a)
    BY <1>2, StatusWritten, GoFiles DEF MarkSource, Early, Late, Looking, Chosen
<1>3. CASE Download(a)
  <2> DEFINE f == File(a, Head(at[a].left))
  <2>0. at[a].pc \in Looking /\ row' = row
      BY <1>3 DEF Download, Looking
  <2>1. /\ at[a].left # <<>> /\ f \in Originals /\ f \in Paths /\ at[a].spare \in Paths
        /\ f.video = a[1] /\ f.n = a[2]
      BY <1>3, DownloadCases
  <2>2. \/ files' = files \ OwnFiles(a) /\ Go(a, "fail")
        \/ ~Aborted(a) /\ Accept(a, f)
        \/ ~Aborted(a) /\ at[a].spare = None /\ files' = files \cup {f} /\ NextSource(a, f)
        \/ ~Aborted(a) /\ UNCHANGED files /\ NextSource(a, at[a].spare)
        \/ UNCHANGED <<files, at>>
      BY <1>3, DownloadCases
  <2> HIDE DEF f
  <2>3. CASE UNCHANGED <<files, at>>
    <3>1. TextAt(a)' /\ (Live(a)' => Live(a))
        BY <1>0, <2>0, <2>3 DEF ResultsAt, TextAt, Live, Aborted, Sending
    <3> QED
        BY <2>0, <2>3, <3>1, QuietFiles DEF Early, Late, Looking, Chosen
  <2> QED
      BY <2>0, <2>1, <2>2, <2>3, GiveUpFiles, AcceptFiles, NextSourceFiles
<1>4. CASE SourcesExhausted(a)
  <2>1. at[a].pc \in Looking /\ row' = row
      BY <1>4 DEF SourcesExhausted, Looking
  <2>2. CASE at[a].spare # None /\ ~Aborted(a)
    <3>1. at[a].spare \in Originals /\ at[a].spare.video = a[1] /\ at[a].spare.n = a[2]
        BY <1>0, <2>2 DEF AnalysisAt, Paths, ResultsAt, FilesAt
    <3> QED
        BY <1>4, <2>1, <2>2, <3>1, AcceptFiles DEF SourcesExhausted
  <2>3. CASE ~(at[a].spare # None /\ ~Aborted(a))
      BY <1>4, <2>1, <2>3, GiveUpFiles DEF SourcesExhausted
  <2> QED
      BY <2>2, <2>3
<1>5. CASE CheckFile(a)
  <2>1. PICK pc \in {"savePath", "fail"} : Go(a, pc) /\ (pc = "savePath" => ~Aborted(a))
      BY <1>5 DEF CheckFile, MayGoOn
  <2> QED
      BY <1>5, <2>1, GoFiles DEF CheckFile, Early, Late, Looking, Chosen
<1>6. CASE SavePath(a)
  <2>1. /\ at'[a].pc = "use" /\ at'[a].sig = at[a].sig /\ at'[a].text = at[a].text
        /\ at'[a].path = at[a].path /\ at'[a].spare = at[a].spare
      BY <1>6, GoFrame DEF SavePath
  <2>2. /\ row'[a[1]].path = at[a].path /\ row'[a[1]].text = row[a[1]].text
        /\ row'[a[1]].status = row[a[1]].status
    <3>1. at[a].path \in Paths /\ a[1] \in Videos
        BY <1>0 DEF AnalysisAt
    <3>2. row' = [row EXCEPT ![a[1]].path = at[a].path]
        BY <1>6 DEF SavePath
    <3> QED
        BY <3>1, <3>2, PathWritten
  <2>3. files' = files /\ at[a].pc = "savePath" /\ OwnFiles(a)' = OwnFiles(a)
      BY <1>6 DEF SavePath, OwnFiles
  <2>4. Live(a)
      BY <2>3 DEF Live, Sending
  <2>5. at[a].path # None /\ at[a].path \in files /\ at[a].path.video = a[1] /\ at[a].path.n = a[2]
      BY <1>0, <2>3, <2>4 DEF ResultsAt, PathAt, Chosen, OwnFiles
  <2>6. Keeps(a)
      BY <2>2, <2>3, <2>4, <2>5 DEF Keeps
  <2>7. TextAt(a)' /\ PathAt(a)'
      BY <1>0, <2>1, <2>2, <2>3, <2>4, <2>5 DEF ResultsAt, TextAt, PathAt, Early, Late, Looking, Chosen
  <2>8. FilesAt(a)'
      BY <1>0, <2>1, <2>3 DEF ResultsAt, FilesAt, Early, Looking, Chosen, Unsaved
  <2>9. PathOf(a[1])'
      BY <1>0, <2>2, <2>3, <2>5 DEF PathOf
  <2> QED
      BY <2>6, <2>7, <2>8, <2>9, AttemptKept
<1> QED
    BY <1>1, <1>2, <1>3, <1>4, <1>5, <1>6

LEMMA LastFiles ==
    ASSUME TypeOK, FileInv, NEW a \in Attempts, Frame(a),
           \/ UseResults(a) \/ CheckLast(a) \/ CompleteVideo(a) \/ AssertStillOwned(a)
           \/ AnalysisCatch(a) \/ WriteFailed(a)
    PROVE  FileInv'
<1> USE Entries
<1>0. ResultsAt(a) /\ PathOf(a[1]) /\ row[a[1]] \in VideoRow /\ at[a] \in AnalysisAt
    BY DEF FileInv
<1>1. CASE UseResults(a)
    BY <1>1, GoFiles DEF UseResults, Early, Late, Looking, Chosen
<1>2. CASE CheckLast(a)
  <2>1. PICK pc \in {"complete", "fail"} : Go(a, pc) /\ (pc = "complete" => ~Aborted(a))
      BY <1>2 DEF CheckLast, MayGoOn
  <2> QED
      BY <1>2, <2>1, GoFiles DEF CheckLast, Early, Late, Looking, Chosen
<1>3. CASE CompleteVideo(a)
  <2>1. /\ at'[a].pc = "deliver" /\ at'[a].sig = at[a].sig /\ at'[a].text = at[a].text
        /\ at'[a].path = at[a].path /\ at'[a].spare = at[a].spare
      BY <1>3, GoFrame DEF CompleteVideo
  <2>2. row'[a[1]].path = row[a[1]].path /\ row'[a[1]].text = at[a].text
    <3>1. at[a].text \in Texts /\ at[a].zh \in BOOLEAN /\ a[1] \in Videos
        BY <1>0 DEF AnalysisAt
    <3>2. row' = [row EXCEPT ![a[1]].status = "completed", ![a[1]].text = at[a].text,
                             ![a[1]].zh = @ \/ at[a].zh]
        BY <1>3 DEF CompleteVideo
    <3> QED
        BY <3>1, <3>2, CompletionWritten
  <2>3. files' = files /\ at[a].pc = "complete"
      BY <1>3 DEF CompleteVideo
  <2>4. Live(a)
      BY <2>3 DEF Live, Sending
  <2>5. row[a[1]].path # None
      BY <1>0, <2>3, <2>4 DEF ResultsAt, PathAt, Late
  <2>6. TextAt(a)'
      BY <2>1, <2>2 DEF TextAt
  <2> QED
      BY <2>1, <2>2, <2>3, <2>4, <2>5, <2>6, QuietFiles DEF Early, Late, Looking, Chosen
<1>4. ASSUME NEW pc \in {"resolved", "rejected"}, End(a, pc), UNCHANGED files,
             at[a].pc \in {"deliver", "fail", "write"},
             row'[a[1]].text = row[a[1]].text, row'[a[1]].path = row[a[1]].path,
             row'[a[1]].status = row[a[1]].status \/ row'[a[1]].status # "completed"
      PROVE  FileInv'
  <2>1. at'[a].pc = pc /\ at'[a].path = at[a].path /\ at'[a].spare = None
    <3>1. at'[a] = [at[a] EXCEPT !.pc = pc, !.text = "", !.zh = FALSE, !.left = <<>>, !.spare = None]
        BY <1>4 DEF End, Set, TypeOK
    <3> QED
        BY <1>0, <3>1 DEF AnalysisAt
  <2>2. ~Live(a)'
      BY <2>1 DEF Live
  <2>3. TextAt(a)'
      BY <2>2 DEF TextAt
  <2> QED
      BY <1>4, <2>1, <2>2, <2>3, QuietFiles DEF Early, Late, Looking, Chosen
<1>5. CASE AssertStillOwned(a)
  <2>1. at[a].pc = "deliver" /\ row' = row /\ files' = files /\ (End(a, "resolved") \/ Go(a, "fail"))
      BY <1>5 DEF AssertStillOwned
  <2> QED
      BY <1>4, <2>1, GoFiles DEF Early, Late, Looking, Chosen
<1>6. CASE AnalysisCatch(a)
  <2>1. at[a].pc = "fail" /\ row' = row /\ files' = files /\ (End(a, "rejected") \/ Go(a, "write"))
      BY <1>6 DEF AnalysisCatch
  <2> QED
      BY <1>4, <2>1, GoFiles DEF Early, Late, Looking, Chosen
<1>7. CASE WriteFailed(a)
  <2>1. PICK s \in {"stopped", "failed"} : row' = [row EXCEPT ![a[1]].status = s]
      BY <1>7 DEF WriteFailed
  <2>2. /\ row'[a[1]].text = row[a[1]].text /\ row'[a[1]].path = row[a[1]].path
        /\ row'[a[1]].status # "completed"
      BY <2>1, StatusWritten DEF Terminal
  <2> QED
      BY <1>4, <1>7, <2>2 DEF WriteFailed
<1> QED
    BY <1>1, <1>2, <1>3, <1>5, <1>6, <1>7

\* Steps of translations and of runs that leave attempts, files and runs as they are, or
\* ask an attempt to end.
LEMMA StillFiles ==
    ASSUME TypeOK, FileInv, UNCHANGED <<run, files>>,
           \A v \in Videos :
              /\ row'[v].n = row[v].n /\ row'[v].text = row[v].text /\ row'[v].path = row[v].path
              /\ row'[v].status = row[v].status \/ row'[v].status # "completed",
           \A a \in Attempts :
              /\ at'[a].pc = at[a].pc /\ at'[a].text = at[a].text
              /\ at'[a].path = at[a].path /\ at'[a].spare = at[a].spare
              /\ at'[a].sig = at[a].sig \/ at'[a].sig # "none"
    PROVE  FileInv'
<1>1. ASSUME NEW v \in Videos PROVE RunOf(v)' /\ PathOf(v)'
    BY DEF FileInv, RunOf, PathOf
<1>2. ASSUME NEW a \in Attempts PROVE ResultsAt(a)'
  <2>1. ResultsAt(a) /\ a[1] \in Videos /\ OwnFiles(a)' = OwnFiles(a)
      BY Entries DEF FileInv, OwnFiles
  <2>2. Live(a)' => Live(a)
      BY DEF Live, Aborted, Sending
  <2>3. Awaited(a)' /\ TextAt(a)'
      BY <2>1, <2>2 DEF ResultsAt, Awaited, TextAt
  <2>4. PathAt(a)' /\ FilesAt(a)'
      BY <2>1, <2>2 DEF ResultsAt, PathAt, FilesAt
  <2> QED
      BY <2>3, <2>4 DEF ResultsAt
<1> QED
    BY <1>1, <1>2 DEF FileInv

\* Steps of a run nobody is live in.
LEMMA QuietRun ==
    ASSUME TypeOK, FileInv, UNCHANGED at, NEW v \in Videos,
           \A a \in Attempts : a[1] = v => ~Live(a),
           files' \subseteq files, \A f \in files : f.video # v => f \in files',
           \A w \in Videos : w # v => row'[w] = row[w] /\ run'[w] = run[w],
           row'[v].path \in {row[v].path, None}, RunOf(v)', PathOf(v)'
    PROVE  FileInv'
<1>1. ASSUME NEW w \in Videos, w # v PROVE RunOf(w)' /\ PathOf(w)'
    BY <1>1 DEF FileInv, RunOf, PathOf
<1>2. ASSUME NEW a \in Attempts PROVE ResultsAt(a)'
  <2>1. ResultsAt(a) /\ a[1] \in Videos /\ OwnFiles(a)' \subseteq OwnFiles(a) /\ (Live(a)' <=> Live(a))
      BY Entries DEF FileInv, OwnFiles, Live, Aborted, Sending
  <2>2. row'[a[1]].path \in {row[a[1]].path, None}
      BY <2>1
  <2>3. FilesAt(a)'
      BY <2>1, <2>2 DEF ResultsAt, FilesAt
  <2>4. CASE a[1] = v
      BY <2>1, <2>3, <2>4 DEF ResultsAt, Awaited, TextAt, PathAt
  <2>5. CASE a[1] # v
    <3>1. OwnFiles(a)' = OwnFiles(a)
        BY <2>1, <2>5 DEF OwnFiles
    <3>2. row'[a[1]] = row[a[1]] /\ run'[a[1]] = run[a[1]]
        BY <2>1, <2>5
    <3> QED
        BY <2>1, <2>3, <3>1, <3>2 DEF ResultsAt, Awaited, TextAt, PathAt
  <2> QED
      BY <2>4, <2>5
<1> QED
    BY <1>1, <1>2 DEF FileInv

LEMMA TranslationFiles ==
    ASSUME TypeOK, FileInv, NEW a \in Attempts, TranslationStep(a)
    PROVE  FileInv'
<1>1. UNCHANGED <<at, files, run>> /\ a[1] \in Videos
    BY Entries DEF TranslationStep, TranslationBegins, TranslationAnswered, TranslationChecked, StoreTranslation
<1>2. \A v \in Videos : row'[v].n = row[v].n /\ row'[v].text = row[v].text /\ row'[v].path = row[v].path
                        /\ row'[v].status = row[v].status
  <2>1. CASE StoreTranslation(a)
      BY <1>1, <2>1, TranslationWritten DEF StoreTranslation
  <2>2. CASE ~StoreTranslation(a)
      BY <2>2 DEF TranslationStep, TranslationBegins, TranslationAnswered, TranslationChecked
  <2> QED
      BY <2>1, <2>2
<1> QED
    BY <1>1, <1>2, StillFiles

\* An attempt begins: it is the only one of its run.
LEMMA StartFiles ==
    ASSUME TypeOK, RequestInv, FileInv, NEW v \in Videos, StartAttempt(v)
    PROVE  FileInv'
<1>a. PICK n \in Numbers : n = row[v].n + 1
    BY DEF StartAttempt
<1>b. PICK a \in Attempts : a = <<v, n>>
    BY Numbered
<1>1. /\ Go(a, "load") /\ row' = [row EXCEPT ![v].n = n] /\ run' = [run EXCEPT ![v] = [pc |-> "racing", n |-> n]]
      /\ run[v].pc = "idle" /\ files' = files
    BY <1>a, <1>b DEF StartAttempt, Go, Set, TypeOK
<1>2. row[v] \in VideoRow /\ row[v].n \in Nat /\ a[1] = v /\ a[2] = n /\ n \in Nat /\ a[2] > row[a[1]].n
    BY <1>a, <1>b, Limits DEF Numbers, TypeOK, VideoRow
<1>3. at[a] = NoAttempt /\ NoAttempt.pc = "none"
    BY <1>2 DEF RequestInv, Untouched, NoAttempt
<1>4. /\ at'[a].pc = "load" /\ at'[a].spare = at[a].spare
      /\ \A b \in Attempts \ {a} : at'[b] = at[b]
    BY <1>1, GoFrame
<1>5. /\ row'[v].n = n /\ row'[v].text = row[v].text /\ row'[v].path = row[v].path
      /\ row'[v].status = row[v].status
      /\ \A w \in Videos : w # v => row'[w] = row[w] /\ run'[w] = run[w]
      /\ run'[v].pc = "racing" /\ run'[v].n = n
    BY <1>1, <1>2 DEF TypeOK, VideoRow
<1>6. ASSUME NEW w \in Videos PROVE RunOf(w)' /\ PathOf(w)'
  <2>1. RunOf(w) /\ PathOf(w)
      BY DEF FileInv
  <2>2. CASE w = v
      BY <1>1, <1>5, <2>1, <2>2 DEF RunOf, PathOf
  <2>3. CASE w # v
      BY <1>1, <1>5, <2>1, <2>3 DEF RunOf, PathOf
  <2> QED
      BY <2>2, <2>3
<1>7. ResultsAt(a)'
  <2>1. ResultsAt(a) /\ OwnFiles(a)' = OwnFiles(a)
      BY <1>1 DEF FileInv, OwnFiles
  <2>2. Awaited(a)' /\ TextAt(a)' /\ PathAt(a)'
      BY <1>2, <1>4, <1>5 DEF Awaited, TextAt, PathAt, Early, Late, Looking, Chosen
  <2>3. FilesAt(a)'
      BY <1>2, <1>3, <1>4, <1>5, <2>1 DEF ResultsAt, FilesAt, Early, Looking, Unsaved
  <2> QED
      BY <2>2, <2>3 DEF ResultsAt
<1>8. ASSUME NEW b \in Attempts, b # a PROVE ResultsAt(b)'
  <2>1. /\ ResultsAt(b) /\ b[1] \in Videos /\ at'[b] = at[b] /\ OwnFiles(b)' = OwnFiles(b)
        /\ row'[b[1]].text = row[b[1]].text /\ row'[b[1]].path = row[b[1]].path
      BY <1>1, <1>4, <1>5, <1>8, Entries DEF FileInv, OwnFiles
  <2>2. Live(b)' <=> Live(b)
      BY <2>1 DEF Live, Aborted, Sending
  <2>3. TextAt(b)' /\ PathAt(b)' /\ FilesAt(b)'
      BY <2>1, <2>2 DEF ResultsAt, TextAt, PathAt, FilesAt
  <2>4. Awaited(b)'
      BY <1>1, <1>5, <2>1, <2>2 DEF ResultsAt, Awaited
  <2> QED
      BY <2>3, <2>4 DEF ResultsAt
<1> QED
    BY <1>6, <1>7, <1>8 DEF FileInv

LEMMA RunFiles ==
    ASSUME TypeOK, RequestInv, FileInv, NEW v \in Videos,
           RunStep(v) \/ Timeout(v) \/ StopVideo(v) \/ Restart(v)
    PROVE  FileInv'
<1>0. /\ row[v] \in VideoRow /\ run[v] \in RunState /\ RunOf(v) /\ PathOf(v)
      /\ \A a \in Attempts : Awaited(a)
    BY DEF TypeOK, FileInv, ResultsAt
<1>1. CASE StartAttempt(v)
    BY <1>1, StartFiles
<1>2. ASSUME NEW why \in {"stop", "timeout"}, Abort(v, why), UNCHANGED <<run, files>>,
             \A w \in Videos :
                /\ row'[w].n = row[w].n /\ row'[w].text = row[w].text /\ row'[w].path = row[w].path
                /\ row'[w].status = row[w].status \/ row'[w].status # "completed"
      PROVE  FileInv'
  <2>1. PICK a \in Attempts : a = Current(v)
      BY <1>0, <1>2, Numbered DEF RunOf, Abort, Current
  <2>2. at[a] \in AnalysisAt /\ at'[a] = [at[a] EXCEPT !.sig = why] /\ \A b \in Attempts \ {a} : at'[b] = at[b]
      BY <1>2, <2>1, Entries DEF Abort, Set, TypeOK
  <2>3. /\ at'[a].pc = at[a].pc /\ at'[a].text = at[a].text /\ at'[a].path = at[a].path
        /\ at'[a].spare = at[a].spare /\ at'[a].sig # "none"
      BY <2>2 DEF AnalysisAt
  <2> QED
      BY <1>2, <2>2, <2>3, StillFiles
<1>3. CASE Timeout(v)
    BY <1>2, <1>3 DEF Timeout
<1>4. CASE StopVideo(v)
  <2>1. \A w \in Videos :
           /\ row'[w].n = row[w].n /\ row'[w].text = row[w].text /\ row'[w].path = row[w].path
           /\ row'[w].status = row[w].status \/ row'[w].status # "completed"
      BY <1>4, StatusWritten DEF StopVideo, Terminal
  <2> QED
      BY <1>2, <1>4, <2>1 DEF StopVideo
<1>5. CASE RaceEnds(v)
  <2>1. PICK pc \in {"publish", "finally"} : run' = [run EXCEPT ![v].pc = pc]
      BY <1>5 DEF RaceEnds, RunAt
  <2>2. run'[v].pc = pc /\ run'[v].n = run[v].n /\ (\A w \in Videos : w # v => run'[w] = run[w])
      BY <1>0, <2>1 DEF TypeOK, RunState
  <2>3. UNCHANGED <<at, row, files>> /\ run[v].pc = "racing"
      BY <1>5 DEF RaceEnds
  <2>4. \A a \in Attempts : a[1] = v => ~Live(a)
    <3> SUFFICES ASSUME NEW a \in Attempts, a[1] = v, Live(a) PROVE FALSE
        OBVIOUS
    <3>1. a = Current(v)
        BY <1>0, Entries DEF Awaited, Current
    <3>2. at[a].pc \in {"resolved", "rejected"} \/ (Aborted(a) /\ ~Sending(a))
        BY <1>5, <3>1 DEF RaceEnds
    <3> QED
        BY <3>2 DEF Live
  <2>5. RunOf(v)' /\ PathOf(v)'
      BY <1>0, <2>2, <2>3 DEF RunOf, PathOf
  <2> QED
      BY <2>2, <2>3, <2>4, <2>5, QuietRun
<1>6. ASSUME NEW pc, run[v].pc # "racing", run' = [run EXCEPT ![v].pc = pc], UNCHANGED at,
             files' \subseteq files, \A f \in files : f.video # v => f \in files',
             row'[v].n = row[v].n, \A w \in Videos : w # v => row'[w] = row[w],
             row'[v].path \in {row[v].path, None},
             pc # "idle" => run[v].pc # "idle",
             pc \in {"clean", "forget"} => row'[v].status # "completed",
             row'[v].path # None => row'[v].path \in files' \/ pc = "forget",
             row'[v].status = "completed" => row'[v].path # None
      PROVE  FileInv'
  <2>1. run'[v].pc = pc /\ run'[v].n = run[v].n /\ (\A w \in Videos : w # v => run'[w] = run[w])
      BY <1>0, <1>6 DEF TypeOK, RunState
  <2>2. \A a \in Attempts : a[1] = v => ~Live(a)
      BY <1>0, <1>6 DEF Awaited
  <2>3. RunOf(v)'
      BY <1>0, <1>6, <2>1 DEF RunOf
  <2>4. PathOf(v)'
      BY <1>0, <1>6, <2>1 DEF PathOf
  <2> QED
      BY <1>6, <2>1, <2>2, <2>3, <2>4, QuietRun
<1>7. CASE PublishEnd(v)
  <2>1. PICK s \in {"stopped", "failed"} : row' = [row EXCEPT ![v].status = s]
      BY <1>7 DEF PublishEnd
  <2>2. /\ row'[v].status # "completed" /\ row'[v].path = row[v].path
        /\ \A w \in Videos : row'[w].n = row[w].n /\ (w # v => row'[w] = row[w])
      BY <2>1, StatusWritten DEF Terminal
  <2>3. run[v].pc = "publish" /\ run' = [run EXCEPT ![v].pc = "finally"] /\ UNCHANGED <<at, files>>
      BY <1>7 DEF PublishEnd, RunAt
  <2> QED
      BY <1>0, <1>6, <2>2, <2>3 DEF PathOf
<1>8. CASE SettleRun(v)
  <2>1. PICK pc \in {"clean", "idle"} :
           run' = [run EXCEPT ![v].pc = pc] /\ (pc = "clean" => row[v].status # "completed")
      BY <1>8 DEF SettleRun, RunAt
  <2>2. run[v].pc = "finally" /\ UNCHANGED <<at, row, files>>
      BY <1>8 DEF SettleRun
  <2> QED
      BY <1>0, <1>6, <2>1, <2>2 DEF PathOf
<1>9. CASE DeleteAttemptCache(v)
  <2>1. /\ run[v].pc = "clean" /\ run' = [run EXCEPT ![v].pc = "forget"] /\ UNCHANGED <<at, row>>
        /\ files' = {f \in files : f.video # v} /\ row[v].status # "completed"
      BY <1>0, <1>9 DEF DeleteAttemptCache, RunAt, RunOf
  <2> QED
      BY <1>6, <2>1
<1>10. CASE ForgetOriginal(v)
  <2>1. /\ run[v].pc = "forget" /\ run' = [run EXCEPT ![v].pc = "idle"] /\ UNCHANGED <<at, files>>
        /\ row[v].status # "completed"
      BY <1>0, <1>10 DEF ForgetOriginal, RunAt, RunOf
  <2>2. /\ row'[v].path = None /\ row'[v].status = row[v].status
        /\ \A w \in Videos : row'[w].n = row[w].n /\ (w # v => row'[w] = row[w])
      BY <1>10, PathWritten DEF ForgetOriginal, Paths
  <2> QED
      BY <1>6, <2>1, <2>2
<1>11. CASE Restart(v)
  <2>1. /\ \A w \in Videos : row'[w].n = row[w].n /\ (w # v => row'[w] = row[w])
        /\ row'[v].status # "completed" /\ row'[v].text = row[v].text /\ row'[v].path = row[v].path
      BY <1>11, StatusWritten DEF Restart
  <2>2. UNCHANGED <<run, at, files>>
      BY <1>11 DEF Restart
  <2> QED
      BY <2>1, <2>2, StillFiles
<1> QED
    BY <1>1, <1>3, <1>4, <1>5, <1>7, <1>8, <1>9, <1>10, <1>11 DEF RunStep

-----------------------------------------------------------------------------
(* The invariant.                                                          *)

\* The rows to begin with: nobody has begun, and the files are those of the rows.
LEMMA FirstRows ==
    ASSUME Init, NEW v \in Videos
    PROVE  /\ row[v] \in VideoRow /\ row[v].n = 0 /\ row[v].status # "completed"
           /\ row[v].path \in {None, Cached(v)}
<1>1. Cached(v) \in Originals /\ 0 \in 0 .. MaxAttempts
    BY Limits DEF Cached, Originals, Sources
<1>2. CASE v \in DOMAIN budget.rows
  <2>1. budget.rows[v].text \in Texts
    <3>1. budget \in Budgets
        BY DEF Init
    <3> QED
        BY <1>2, <3>1, AnalysisConstants DEF Texts
  <2>2. PICK p \in {None, Cached(v)} :
           row[v] = [status |-> "queued", n |-> 0, text |-> budget.rows[v].text, zh |-> FALSE, path |-> p]
      BY <1>2 DEF Init
  <2>3. p \in Paths
      BY <1>1 DEF Paths
  <2>4. [status |-> "queued", n |-> 0, text |-> budget.rows[v].text, zh |-> FALSE, path |-> p] \in VideoRow
      BY <1>1, <2>1, <2>3 DEF VideoRow
  <2>5. row[v].n = 0 /\ row[v].status = "queued" /\ row[v].path = p
      BY <2>2
  <2> QED
      BY <2>2, <2>4, <2>5
<1>3. CASE v \notin DOMAIN budget.rows
  <2> DEFINE r == [status |-> "stopped", n |-> 0, text |-> "", zh |-> FALSE, path |-> None]
  <2>1. row[v] = r
      BY <1>3 DEF Init
  <2>2. r \in VideoRow /\ r.n = 0 /\ r.status = "stopped" /\ r.path = None
      BY <1>1 DEF VideoRow, Paths, Terminal, Texts
  <2> HIDE DEF r
  <2> QED
      BY <2>1, <2>2
<1> QED
    BY <1>2, <1>3

LEMMA InitTypes ==
    ASSUME Init
    PROVE  TypeOK /\ SlotInv
<1>1. budget.audio \in BOOLEAN
    BY AnalysisConstants DEF Init
<1>2. row \in [Videos -> VideoRow]
    BY FirstRows DEF Init
<1>3. 0 \in 0 .. MaxAttempts /\ 0 \in 0 .. MaxRequests
    BY Limits
<1>4. run \in [Videos -> RunState]
    BY <1>3 DEF Init, RunState, NoRun
<1>5. NoAttempt \in AnalysisAt /\ NoAttempt.pc = "none"
    BY DEF NoAttempt, AnalysisAt, Places, Texts, Paths, Ways
<1>6. NoCalls \in Calls /\ Unasked \in [Requests -> Nat] /\ "off" \in TaskStates
    BY DEF NoCalls, Calls, Unasked, TaskStates
<1>7. /\ at = [a \in Attempts |-> NoAttempt] /\ tool = [a \in Attempts |-> NoCalls]
      /\ trans = [a \in Attempts |-> "off"] /\ asks = [a \in Attempts |-> Unasked]
      /\ active = 0 /\ waiters = <<>>
    BY DEF Init
<1>8. files \subseteq Originals
  <2>1. \A v \in Videos : Cached(v) \in Originals
      BY <1>3 DEF Cached, Originals, Sources
  <2> QED
      BY <2>1 DEF Init
<1>9. SlotInv
  <2>1. Holding(trans) = {} /\ Waiting(trans) = {}
      BY <1>7 DEF Holding, Waiting
  <2>2. IsFiniteSet({}) /\ Cardinality({}) = 0
      BY FS_EmptySet
  <2>3. <<>> \in Seq(Attempts) /\ DOMAIN <<>> = {}
      BY EmptySeq
  <2>4. Queue(waiters, trans)
      BY <1>7, <2>1, <2>3 DEF Queue
  <2> QED
      BY <1>7, <2>1, <2>2, <2>4 DEF SlotInv
<1>10. waiters \in Seq(Attempts)
    BY <1>9 DEF SlotInv, Queue
<1>11. at \in [Attempts -> AnalysisAt] /\ \A a \in Attempts : at[a].pc \in {"mark", "download"} => at[a].left # <<>>
    BY <1>5, <1>7
<1> QED
    BY <1>1, <1>2, <1>3, <1>4, <1>6, <1>7, <1>8, <1>9, <1>10, <1>11 DEF TypeOK

LEMMA InitInv ==
    ASSUME Init
    PROVE  IInv
<1>1. TypeOK /\ SlotInv
    BY InitTypes
<1>2. ASSUME NEW a \in Attempts
      PROVE  at[a] = NoAttempt /\ tool[a] = NoCalls /\ trans[a] = "off" /\ asks[a] = Unasked
    BY DEF Init
<1>3. \A q \in Requests : Unasked[q] = 0
    BY DEF Unasked
<1>4. ASSUME NEW a \in Attempts PROVE Untouched(a) /\ RequestsAt(a)
  <2>1. \A q \in Requests : asks[a][q] = 0
      BY <1>2, <1>3
  <2>2. FetchesAt(a) /\ CallsAt(a, "transcript") /\ CallsAt(a, "download") /\ DownloadsAt(a) /\ TranslationsAt(a)
      BY <2>1, RequestNames, Limits DEF FetchesAt, CallsAt, DownloadsAt, TranslationsAt
  <2>3. at[a].sig = "none"
    <3>1. NoAttempt.sig = "none"
        BY DEF NoAttempt
    <3> QED
        BY <1>2, <3>1
  <2> QED
      BY <1>2, <2>2, <2>3 DEF Untouched, RequestsAt, Aborted
<1>5. ASSUME NEW v \in Videos PROVE RunOf(v) /\ PathOf(v)
  <2>1. run[v].pc = "idle" /\ run[v].n = 0
      BY DEF Init, NoRun
  <2>2. row[v].path # None => row[v].path \in files /\ row[v].path.video = v
    <3>1. row[v].path # None => row[v].path = Cached(v)
        BY FirstRows
    <3>2. files = {Cached(w) : w \in {u \in Videos : row[u].path # None}}
        BY DEF Init
    <3> QED
        BY <3>1, <3>2 DEF Cached
  <2> QED
      BY <2>1, <2>2, FirstRows DEF RunOf, PathOf
<1>6. ASSUME NEW a \in Attempts PROVE ResultsAt(a)
  <2>1. at[a].pc = "none" /\ at[a].spare = None
    <3>1. NoAttempt.pc = "none" /\ NoAttempt.spare = None
        BY DEF NoAttempt
    <3> QED
        BY <1>2, <3>1
  <2>2. a[1] \in Videos /\ a[2] # 0
      BY Limits DEF Attempts, Numbers
  <2>3. OwnFiles(a) = {}
    <3>1. \A f \in files : f.n = 0
      <4>1. \A f \in files : \E v \in Videos : f = Cached(v)
          BY DEF Init
      <4>2. \A v \in Videos : Cached(v).n = 0
          BY DEF Cached
      <4> QED
          BY <4>1, <4>2
    <3> QED
        BY <2>2, <3>1 DEF OwnFiles
  <2>4. row[a[1]].path # None => row[a[1]].path.n # a[2]
    <3>1. Cached(a[1]).n = 0
        BY DEF Cached
    <3> QED
        BY <2>2, <3>1, FirstRows
  <2>5. ~Live(a)
      BY <2>1 DEF Live
  <2>6. Awaited(a) /\ TextAt(a) /\ PathAt(a)
      BY <2>5 DEF Awaited, TextAt, PathAt
  <2>7. FilesAt(a)
      BY <2>1, <2>3, <2>4 DEF FilesAt
  <2> QED
      BY <2>6, <2>7 DEF ResultsAt
<1> QED
    BY <1>1, <1>4, <1>5, <1>6 DEF IInv, RequestInv, FileInv

LEMMA AttemptInv ==
    ASSUME IInv, NEW a \in Attempts, AttemptStep(a)
    PROVE  IInv'
<1>1. TypeOK /\ SlotInv /\ RequestInv /\ FileInv
    BY DEF IInv
<1>2. TypeOK' /\ SlotInv'
    BY <1>1, FetchTypes, FileTypes, EndTypes DEF AttemptStep
<1>3. Frame(a) /\ RequestInv'
    BY <1>1, AttemptRequests
<1>4. FileInv'
    BY <1>1, <1>3, FetchFiles, FileFiles, LastFiles DEF AttemptStep
<1> QED
    BY <1>2, <1>3, <1>4 DEF IInv

LEMMA StepInv ==
    ASSUME IInv, [Next]_vars
    PROVE  IInv'
<1>1. TypeOK /\ SlotInv /\ RequestInv /\ FileInv
    BY DEF IInv
<1>2. ASSUME NEW v \in Videos, RunStep(v) \/ Timeout(v) \/ StopVideo(v) \/ Restart(v) PROVE IInv'
  <2>1. RunOf(v)
      BY <1>1 DEF FileInv
  <2>2. TypeOK' /\ SlotInv'
      BY <1>1, <1>2, <2>1, RunTypes
  <2>3. RequestInv'
      BY <1>1, <1>2, <2>1, RunRequests
  <2>4. FileInv'
      BY <1>1, <1>2, RunFiles
  <2> QED
      BY <2>2, <2>3, <2>4 DEF IInv
<1>3. ASSUME NEW a \in Attempts, TranslationStep(a) PROVE IInv'
  <2>1. TypeOK' /\ SlotInv'
      BY <1>1, <1>3, TranslationTypes
  <2>2. RequestInv'
      BY <1>1, <1>3, TranslationRequests
  <2>3. FileInv'
      BY <1>1, <1>3, TranslationFiles
  <2> QED
      BY <2>1, <2>2, <2>3 DEF IInv
<1>4. CASE UNCHANGED vars
  <2>1. TypeOK'
      BY <1>1, <1>4 DEF TypeOK, vars, slotVars
  <2>2. SlotInv'
      BY <1>1, <1>4 DEF SlotInv, Queue, Holding, Waiting, vars, slotVars
  <2>3. RequestInv'
      BY <1>1, <1>4 DEF RequestInv, Untouched, RequestsAt, FetchesAt, CallsAt, DownloadsAt, TranslationsAt,
            Aborted, vars
  <2>4. FileInv'
      BY <1>1, <1>4, StillFiles DEF vars
  <2> QED
      BY <2>1, <2>2, <2>3, <2>4 DEF IInv
<1> QED
    BY <1>2, <1>3, <1>4, AttemptInv DEF Next

LEMMA InvHolds == Spec => []IInv
<1>1. Init => IInv
    BY InitInv
<1>2. IInv /\ [Next]_vars => IInv'
    BY StepInv
<1> QED
    BY <1>1, <1>2, PTL DEF Spec

-----------------------------------------------------------------------------
(* The theorems.                                                           *)

\* The variables have their types: an attempt only ever is at a place of the code, with
\* sources left to try when it downloads, and nobody has more slots than there are.
THEOREM TypesCorrect == Spec => []TypeOK
<1>1. IInv => TypeOK
    BY DEF IInv
<1> QED
    BY <1>1, InvHolds, PTL

\* The slots of the requests to the model (qwen.ts:34-76): each that is taken belongs to a
\* request under way, the queue holds whoever waits, once, and nobody waits beside a free
\* slot, however attempts are stopped, run out of time and are started again.
THEOREM SlotsAccounted == Spec => []SlotsAccountedFor
<1>1. IInv => SlotsAccountedFor
    BY DEF IInv, SlotInv, SlotsAccountedFor, Queue, Holding, Waiting
<1> QED
    BY <1>1, InvHolds, PTL

\* The requests of an attempt have a bound, whichever of its nested retries fail, and one
\* that is to end asks for nothing more (analysis.ts:31-48, tokscript.ts:223-265,
\* qwen.ts:343-380).
THEOREM RequestsBound == Spec => []RequestsBounded
<1>1. ASSUME IInv PROVE RequestsBounded
  <2> SUFFICES ASSUME NEW a \in Attempts, NEW q \in Requests
               PROVE  asks[a][q] <= IF Aborted(a) THEN 0 ELSE Most(q)
      BY DEF RequestsBounded
  <2>1. RequestsAt(a)
      BY <1>1 DEF IInv, RequestInv
  <2>2. CASE Aborted(a)
      BY <2>1, <2>2 DEF RequestsAt, Unasked
  <2>3. CASE ~Aborted(a)
    <3>1. /\ asks[a]["fetch"] <= 2 /\ asks[a]["transcript"] <= 2 /\ asks[a]["download"] <= 2
          /\ asks[a]["TokScript"] <= 2 /\ asks[a]["translation"] <= Retries + 1
        BY <2>1, <2>3 DEF RequestsAt, FetchesAt, CallsAt, DownloadsAt, TranslationsAt
    <3> QED
        BY <2>3, <3>1 DEF Most, Requests, Tools
  <2> QED
      BY <2>2, <2>3
<1> QED
    BY <1>1, InvHolds, PTL

\* The original a row points at is on the disk unless it is just being forgotten, a
\* completed video has one, and an attempt leaves nothing but the file it chose
\* (tiktok-video-download.ts:156-159, queue.ts:45-55, 183-196).
THEOREM FilesAccounted == Spec => []FilesAccountedFor
<1>1. ASSUME IInv PROVE FilesAccountedFor
  <2>1. \A v \in Videos : PathOf(v)
      BY <1>1 DEF IInv, FileInv
  <2>2. ASSUME NEW a \in Attempts
        PROVE  OwnFiles(a) \subseteq
                  {at[a].path} \cup (IF at[a].pc \in {"next", "mark", "download"} THEN {at[a].spare} ELSE {})
    <3>1. FilesAt(a)
        BY <1>1 DEF IInv, FileInv, ResultsAt
    <3>2. CASE at[a].pc \in {"next", "mark", "download"}
        BY <3>1, <3>2 DEF FilesAt, Looking
    <3>3. CASE at[a].pc \notin {"next", "mark", "download"}
        BY <3>1, <3>3 DEF FilesAt, Looking
    <3> QED
        BY <3>2, <3>3
  <2> QED
      BY <2>1, <2>2 DEF FilesAccountedFor, PathOf
<1> QED
    BY <1>1, InvHolds, PTL

\* No step takes what was spoken, or its translation, out of the row: whoever writes the
\* transcript is live, so it has the text of the row in hand (analysis.ts:164-166).
LEMMA ResultsStep ==
    ASSUME IInv, [Next]_vars, NEW v \in Videos
    PROVE  /\ row[v].text = "spoken" => row'[v].text = "spoken"
           /\ row[v].zh => row'[v].zh
<1>1. TypeOK /\ \A a \in Attempts : TextAt(a)
    BY DEF IInv, FileInv, ResultsAt
<1>2. ASSUME NEW a \in Attempts, SaveTranscript(a) \/ CompleteVideo(a)
      PROVE  (row[v].text = "spoken" => row'[v].text = "spoken") /\ (row[v].zh => row'[v].zh)
  <2>1. at[a].text \in Texts /\ at[a].zh \in BOOLEAN /\ a[1] \in Videos
      BY <1>1, Entries DEF AnalysisAt
  <2>2. \/ row' = [row EXCEPT ![a[1]].text = at[a].text, ![a[1]].zh = @ \/ at[a].zh]
        \/ row' = [row EXCEPT ![a[1]].status = "completed", ![a[1]].text = at[a].text,
                              ![a[1]].zh = @ \/ at[a].zh]
      BY <1>2 DEF SaveTranscript, CompleteVideo
  <2>3. /\ row'[a[1]].text = at[a].text /\ (row[a[1]].zh => row'[a[1]].zh)
        /\ \A w \in Videos : w # a[1] => row'[w] = row[w]
    <3>1. CASE row' = [row EXCEPT ![a[1]].text = at[a].text, ![a[1]].zh = @ \/ at[a].zh]
      <4>1. /\ row'[a[1]].text = at[a].text /\ (row[a[1]].zh => row'[a[1]].zh)
            /\ \A w \in Videos : row'[w].n = row[w].n /\ (w # a[1] => row'[w] = row[w])
          BY <1>1, <2>1, <3>1, TranscriptWritten, Zenon
      <4> QED
          BY <4>1
    <3>2. CASE row' = [row EXCEPT ![a[1]].status = "completed", ![a[1]].text = at[a].text,
                                  ![a[1]].zh = @ \/ at[a].zh]
      <4>1. /\ row'[a[1]].text = at[a].text /\ (row[a[1]].zh => row'[a[1]].zh)
            /\ \A w \in Videos : row'[w].n = row[w].n /\ (w # a[1] => row'[w] = row[w])
          BY <1>1, <2>1, <3>2, CompletionWritten, Zenon
      <4> QED
          BY <4>1
    <3> QED
        BY <2>2, <3>1, <3>2
  <2>4. row[a[1]].text = "spoken" => at[a].text = "spoken"
      BY <1>1, <1>2 DEF TextAt, Live, Sending, SaveTranscript, CompleteVideo
  <2> QED
      BY <2>3, <2>4
<1>3. ASSUME NEW w \in Videos, NEW s \in {"queued", "running"} \cup Terminal, row' = [row EXCEPT ![w].status = s]
      PROVE  row'[v].text = row[v].text /\ row'[v].zh = row[v].zh
    BY <1>1, <1>3, StatusWritten
<1>4. ASSUME NEW a \in Attempts, AttemptStep(a), ~SaveTranscript(a), ~CompleteVideo(a)
      PROVE  row'[v].text = row[v].text /\ row'[v].zh = row[v].zh
  <2>1. a[1] \in Videos /\ at[a].path \in Paths
      BY <1>1, Entries DEF AnalysisAt
  <2>2. CASE FetchTikTok(a) \/ MarkSource(a)
      BY <1>3, <2>1, <2>2 DEF FetchTikTok, MarkSource
  <2>3. CASE SavePath(a)
      BY <1>1, <2>1, <2>3, PathWritten DEF SavePath
  <2>4. CASE WriteFailed(a)
    <3>1. PICK s \in {"stopped", "failed"} : row' = [row EXCEPT ![a[1]].status = s]
        BY <2>4 DEF WriteFailed
    <3> QED
        BY <1>3, <2>1, <3>1 DEF Terminal
  <2>5. CASE UNCHANGED row
      BY <2>5
  <2> QED
      BY <1>4, <2>2, <2>3, <2>4, <2>5 DEF AttemptStep, FetchStep, LoadVideo, BeginFetch, Connect, ConnectAgain,
            CallTool, ReadTools, CheckFetched, BeforeSource, Download, SourcesExhausted, CheckFile, UseResults,
            CheckLast, AssertStillOwned, AnalysisCatch
<1>5. ASSUME NEW a \in Attempts, TranslationStep(a)
      PROVE  row'[v].text = row[v].text /\ (row[v].zh => row'[v].zh)
  <2>1. CASE StoreTranslation(a)
      BY <1>1, <2>1, Entries, TranslationWritten DEF StoreTranslation
  <2>2. CASE UNCHANGED row
      BY <2>2
  <2> QED
      BY <1>5, <2>1, <2>2 DEF TranslationStep, TranslationBegins, TranslationAnswered, TranslationChecked
<1>6. ASSUME NEW w \in Videos, RunStep(w) \/ Timeout(w) \/ StopVideo(w) \/ Restart(w)
      PROVE  row'[v].text = row[v].text /\ row'[v].zh = row[v].zh
  <2>1. CASE StartAttempt(w)
    <3>1. \E n : row' = [row EXCEPT ![w].n = n]
        BY <2>1 DEF StartAttempt
    <3> QED
        BY <1>1, <3>1 DEF TypeOK, VideoRow
  <2>2. CASE StopVideo(w) \/ Restart(w)
      BY <1>3, <2>2 DEF StopVideo, Restart, Terminal
  <2>3. CASE PublishEnd(w)
    <3>1. PICK s \in {"stopped", "failed"} : row' = [row EXCEPT ![w].status = s]
        BY <2>3 DEF PublishEnd
    <3> QED
        BY <1>3, <3>1 DEF Terminal
  <2>4. CASE ForgetOriginal(w)
      BY <1>1, <2>4, PathWritten DEF ForgetOriginal, Paths
  <2>5. CASE UNCHANGED row
      BY <2>5
  <2> QED
      BY <1>6, <2>1, <2>2, <2>3, <2>4, <2>5 DEF RunStep, Timeout, RaceEnds, SettleRun, DeleteAttemptCache
<1>7. CASE UNCHANGED vars
    BY <1>7 DEF vars
<1> QED
    BY <1>2, <1>4, <1>5, <1>6, <1>7 DEF Next

\* What was spoken and its translation stay in the row, for any number of attempts that
\* fail, stop or end late beside their successor.
THEOREM ResultsKept == Spec => ResultsAreKept
<1>1. IInv /\ [Next]_vars =>
         [\A v \in Videos : /\ row[v].text = "spoken" => row'[v].text = "spoken"
                            /\ row[v].zh => row'[v].zh]_vars
    BY ResultsStep
<1> QED
    BY <1>1, InvHolds, PTL DEF Spec, ResultsAreKept

================================================================================
