--------------------------- MODULE VideoQueue_proofs ---------------------------
(***************************************************************************)
(* Theorems about VideoQueue: its types, that locks follow leases and one  *)
(* process executes a video, that attempts are accounted for and that the  *)
(* outcome of an attempt is final.                                         *)
(***************************************************************************)
EXTENDS VideoQueue, FiniteSetTheorems, TLAPS

Runs     == [Processes -> [Videos -> RunState]]
Promises == [Videos -> [Numbers -> AnalysisState]]
PCs      == {"off", "acquiring", "leased", "closing", "clearing", "orphaned", "closing_orphan",
             "starting", "racing", "caught", "publishing", "settling", "cleaning", "finishing",
             "releasing"}

-----------------------------------------------------------------------------
(* The inductive invariant.                                                *)

\* What the place a run is at says of its lease, its attempt and what it read.
Placed(r) ==
    /\ r.pc \in {"off", "acquiring"} => r.conn = "none" /\ r.n = 0
    /\ r.pc \in {"publishing", "closing"} => r.seen # "none"
    /\ r.pc = "finishing" => r.seen # "none" /\ r.n # 0
    /\ r.pc = "racing" => r.n # 0

Typed == TypeOK /\ \A p \in Processes, v \in Videos : Placed(run[p][v])

\* The marker, the open attempt and the runs of a video are no later than its count; an
\* attempt that has published its result has cleared its marker.
Published == {"delivering", "resolved"}
Numbered(v) ==
    /\ started[v] \in {0, count[v]}
    /\ \A n \in Numbers :
          /\ attempt[v][n] # "none" => n <= count[v]
          /\ attempt[v][n] = "running" => n = count[v]
          /\ analysis[v][n].pc \in Published => started[v] # n
    /\ \A p \in Processes : run[p][v].n <= count[v]

\* A run that may start an attempt, or let one be started, which nobody asked for: it
\* has lost the lease under which it read the row, or it failed to publish how its own
\* attempt ended.
Astray(r, state, marker) ==
    \/ r.conn # "up" /\ r.pc \in {"leased", "closing", "clearing", "starting"}
    \/ /\ r.pc \in {"settling", "cleaning", "finishing"} /\ r.n # 0
       /\ marker = r.n /\ state = "queued"
       /\ ~(r.pc = "settling" /\ r.conn = "lost")
Strays(v) == {p \in Processes : Astray(run[p][v], status[v], started[v])}

\* The row, or the run that holds the lease, lets one more attempt be started.
Ready(r, state) ==
    /\ r.conn = "up"
    /\ \/ r.pc = "starting"
       \/ state = "queued" /\ r.pc \in {"closing", "clearing"}
Due(v) ==
    \/ status[v] = "queued" /\ started[v] = 0
    \/ \E p \in Processes : Ready(run[p][v], status[v])

\* Attempts made and attempts that may come were asked for, or a fault explains them.
Accounted(v) ==
    /\ IsFiniteSet(Strays(v))
    /\ count[v] + (IF Due(v) THEN 1 ELSE 0) + Cardinality(Strays(v)) <= asked[v] + disturbed[v]

IInv ==
    /\ Typed /\ LocksFollowLeases
    /\ \A v \in Videos : Numbered(v) /\ Accounted(v)

-----------------------------------------------------------------------------
(* Where a step leaves the runs and the promises.                          *)

\* Only run v of process p moves.
OnlyRun(p, v) ==
    /\ run' \in Runs
    /\ \A q \in Processes, w \in Videos : q # p \/ w # v => run'[q][w] = run[q][w]

\* It goes to pc, with what it has now read.
Moves(p, v, pc, seen) ==
    /\ OnlyRun(p, v)
    /\ run'[p][v].pc = pc /\ run'[p][v].seen = seen
    /\ run'[p][v].conn = run[p][v].conn
    /\ run'[p][v].sig = run[p][v].sig /\ run'[p][v].n = run[p][v].n

\* Runs of process p end or begin, those of the others stay.
Starts(p, runs) ==
    /\ run' \in Runs
    /\ \A q \in Processes \ {p} : run'[q] = run[q]
    /\ \A w \in Videos :
          \/ run'[p][w] = runs[w]
          \/ runs[w].pc = "off" /\ run'[p][w] = [NoRun EXCEPT !.pc = "acquiring"]

LEMMA NoRunType == NoRun \in RunState
BY QueueConstants DEF NoRun, RunState

LEMMA OneRunActs ==
    ASSUME run \in Runs, NEW p \in Processes, NEW v \in Videos, NEW r \in RunState,
           run' = [run EXCEPT ![p] = [run[p] EXCEPT ![v] = r]]
    PROVE  OnlyRun(p, v) /\ run'[p][v] = r
BY DEF OnlyRun, Runs

LEMMA GoToActs ==
    ASSUME run \in Runs, NEW p \in Processes, NEW v \in Videos, NEW pc \in PCs, GoTo(p, v, pc)
    PROVE  Moves(p, v, pc, run[p][v].seen)
<1> DEFINE r == [run[p][v] EXCEPT !.pc = pc]
<1>1. /\ r \in RunState /\ r.pc = pc /\ r.seen = run[p][v].seen
      /\ r.conn = run[p][v].conn /\ r.sig = run[p][v].sig /\ r.n = run[p][v].n
    <2>1. run[p][v] \in RunState
        BY DEF Runs
    <2> QED BY <2>1 DEF RunState, PCs
<1>2. run' = [run EXCEPT ![p] = [run[p] EXCEPT ![v] = r]]
    BY DEF GoTo
<1> HIDE DEF r
<1> QED BY <1>1, <1>2, OneRunActs DEF Moves

LEMMA GoToSeeingActs ==
    ASSUME run \in Runs, NEW p \in Processes, NEW v \in Videos, NEW pc \in PCs,
           NEW seen \in {"none"} \cup Terminal, GoToSeeing(p, v, pc, seen)
    PROVE  Moves(p, v, pc, seen)
<1> DEFINE r == [run[p][v] EXCEPT !.pc = pc, !.seen = seen]
<1>1. /\ r \in RunState /\ r.pc = pc /\ r.seen = seen
      /\ r.conn = run[p][v].conn /\ r.sig = run[p][v].sig /\ r.n = run[p][v].n
    <2>1. run[p][v] \in RunState
        BY DEF Runs
    <2> QED BY <2>1 DEF RunState, PCs
<1>2. run' = [run EXCEPT ![p] = [run[p] EXCEPT ![v] = r]]
    BY DEF GoToSeeing, Runs
<1> HIDE DEF r
<1> QED BY <1>1, <1>2, OneRunActs DEF Moves

LEMMA ScheduleActs ==
    ASSUME NEW p \in Processes, NEW runs \in [Videos -> RunState], run \in Runs,
           NEW waiting \in SUBSET Videos, queue \in [Processes -> SUBSET Videos],
           Schedule(p, waiting, runs)
    PROVE  queue' \in [Processes -> SUBSET Videos] /\ Starts(p, runs)
<1>1. PICK start \in SUBSET (waiting \ Active(runs)), drop \in SUBSET (waiting \cap Active(runs)) :
          /\ queue' = [queue EXCEPT ![p] = waiting \ (start \cup drop)]
          /\ run' = [run EXCEPT ![p] = [v \in Videos |->
                IF v \in start THEN [NoRun EXCEPT !.pc = "acquiring"] ELSE runs[v]]]
    BY DEF Schedule
<1>2. [NoRun EXCEPT !.pc = "acquiring"] \in RunState
    BY QueueConstants DEF NoRun, RunState
<1>3. \A w \in start : runs[w].pc = "off"
    BY DEF Active
<1> QED BY <1>1, <1>2, <1>3 DEF Starts, Runs

LEMMA RunEndsActs ==
    ASSUME NEW p \in Processes, NEW v \in Videos, run \in Runs,
           queue \in [Processes -> SUBSET Videos], RunEnds(p, v)
    PROVE  /\ queue' \in [Processes -> SUBSET Videos]
           /\ Starts(p, [run[p] EXCEPT ![v] = NoRun])
<1>1. [run[p] EXCEPT ![v] = NoRun] \in [Videos -> RunState]
    BY NoRunType DEF Runs
<1>2. queue[p] \in SUBSET Videos
    OBVIOUS
<1> QED BY <1>1, <1>2, ScheduleActs DEF RunEnds

-----------------------------------------------------------------------------
(* The sum of attempts made, attempts that may come, and faults.           *)

LEMMA Fewer ==
    ASSUME NEW S, NEW T, IsFiniteSet(S), T \subseteq S
    PROVE  /\ IsFiniteSet(T) /\ Cardinality(T) <= Cardinality(S)
           /\ Cardinality(T) \in Nat /\ Cardinality(S) \in Nat
BY FS_Subset, FS_CardinalityType

LEMMA OneMore ==
    ASSUME NEW S, NEW T, NEW x, IsFiniteSet(S), T \subseteq S \cup {x}
    PROVE  /\ IsFiniteSet(T) /\ Cardinality(T) <= Cardinality(S) + 1
           /\ Cardinality(T) \in Nat /\ Cardinality(S) \in Nat
<1>1. IsFiniteSet(S \cup {x}) /\ Cardinality(S \cup {x}) <= Cardinality(S) + 1
    <2>1. Cardinality(S) \in Nat
        BY FS_CardinalityType
    <2> QED BY <2>1, FS_AddElement
<1>2. IsFiniteSet(T) /\ Cardinality(T) <= Cardinality(S \cup {x})
    BY <1>1, Fewer
<1> QED BY <1>1, <1>2, FS_CardinalityType

LEMMA OneLess ==
    ASSUME NEW S, NEW T, NEW x \in S, IsFiniteSet(S), T \subseteq S \ {x}
    PROVE  /\ IsFiniteSet(T) /\ Cardinality(T) + 1 <= Cardinality(S)
           /\ Cardinality(T) \in Nat /\ Cardinality(S) \in Nat
<1>1. IsFiniteSet(S \ {x}) /\ Cardinality(S \ {x}) = Cardinality(S) - 1
    BY FS_RemoveElement
<1>2. IsFiniteSet(T) /\ Cardinality(T) <= Cardinality(S \ {x})
    BY <1>1, Fewer
<1> QED BY <1>1, <1>2, FS_CardinalityType

\* The counters of v stay, but for a request or a fault that is counted.
Counts(v, request, fault) ==
    /\ count'[v] = count[v]
    /\ asked'[v] = asked[v] + request
    /\ disturbed'[v] = disturbed[v] + fault

Counted(v) == count[v] \in Nat /\ asked[v] \in Nat /\ disturbed[v] \in Nat

LEMMA NoClaim ==
    ASSUME NEW v \in Videos, Counted(v), Accounted(v), NEW fault \in {0, 1}, Counts(v, 0, fault),
           Strays(v)' \subseteq Strays(v), Due(v)' => Due(v)
    PROVE  Accounted(v)'
<1>1. /\ IsFiniteSet(Strays(v)') /\ Cardinality(Strays(v)') <= Cardinality(Strays(v))
      /\ Cardinality(Strays(v)') \in Nat /\ Cardinality(Strays(v)) \in Nat
    BY Fewer DEF Accounted
<1> QED BY <1>1 DEF Accounted, Counts, Counted

LEMMA FaultClaims ==
    ASSUME NEW v \in Videos, Counted(v), Accounted(v), Counts(v, 0, 1), NEW p,
           Strays(v)' \subseteq Strays(v) \cup {p}, Due(v)' => Due(v)
    PROVE  Accounted(v)'
<1>1. /\ IsFiniteSet(Strays(v)') /\ Cardinality(Strays(v)') <= Cardinality(Strays(v)) + 1
      /\ Cardinality(Strays(v)') \in Nat /\ Cardinality(Strays(v)) \in Nat
    BY OneMore DEF Accounted
<1> QED BY <1>1 DEF Accounted, Counts, Counted

LEMMA RequestClaims ==
    ASSUME NEW v \in Videos, Counted(v), Accounted(v), Counts(v, 1, 0),
           Strays(v)' \subseteq Strays(v)
    PROVE  Accounted(v)'
<1>1. /\ IsFiniteSet(Strays(v)') /\ Cardinality(Strays(v)') <= Cardinality(Strays(v))
      /\ Cardinality(Strays(v)') \in Nat /\ Cardinality(Strays(v)) \in Nat
    BY Fewer DEF Accounted
<1> QED BY <1>1 DEF Accounted, Counts, Counted

LEMMA StrayReleases ==
    ASSUME NEW v \in Videos, Counted(v), Accounted(v), Counts(v, 0, 0),
           NEW p \in Strays(v), Strays(v)' \subseteq Strays(v) \ {p}
    PROVE  Accounted(v)'
<1>1. /\ IsFiniteSet(Strays(v)') /\ Cardinality(Strays(v)') + 1 <= Cardinality(Strays(v))
      /\ Cardinality(Strays(v)') \in Nat /\ Cardinality(Strays(v)) \in Nat
    BY OneLess DEF Accounted
<1> QED BY <1>1 DEF Accounted, Counts, Counted

LEMMA AttemptClaims ==
    ASSUME NEW v \in Videos, Counted(v), Accounted(v),
           count'[v] = count[v] + 1, asked'[v] = asked[v], disturbed'[v] = disturbed[v],
           \/ /\ Due(v) /\ ~Due(v)' /\ Strays(v)' \subseteq Strays(v)
           \/ /\ Due(v)' => Due(v)
              /\ \E p \in Strays(v) : Strays(v)' \subseteq Strays(v) \ {p}
    PROVE  Accounted(v)'
<1>1. CASE Due(v) /\ ~Due(v)' /\ Strays(v)' \subseteq Strays(v)
    BY <1>1, Fewer DEF Accounted, Counted
<1>2. CASE /\ Due(v)' => Due(v)
           /\ \E p \in Strays(v) : Strays(v)' \subseteq Strays(v) \ {p}
    BY <1>2, OneLess DEF Accounted, Counted
<1> QED BY <1>1, <1>2

-----------------------------------------------------------------------------
(* What a step does not disturb.                                           *)

\* No attempt publishes its result in this step.
NonePublishes ==
    \A v \in Videos, n \in Numbers :
        analysis'[v][n].pc \in Published => analysis[v][n].pc \in Published

\* The row of v and the runs of v are as they were.
Undisturbed(v) ==
    /\ status'[v] = status[v] /\ started'[v] = started[v] /\ count'[v] = count[v]
    /\ attempt'[v] = attempt[v] /\ asked'[v] = asked[v] /\ disturbed'[v] = disturbed[v]
    /\ \A p \in Processes : run'[p][v] = run[p][v]

LEMMA TypesOfCounts ==
    ASSUME TypeOK, NEW v \in Videos
    PROVE  Counted(v)
BY QueueConstants DEF TypeOK, Counted

LEMMA UndisturbedKeeps ==
    ASSUME IInv, NEW v \in Videos, Undisturbed(v),
           \A n \in Numbers : analysis'[v][n].pc \in Published => analysis[v][n].pc \in Published
    PROVE  Numbered(v)' /\ Accounted(v)'
<1>1. Numbered(v)'
    BY DEF IInv, Numbered, Undisturbed
<1>2. Strays(v)' = Strays(v)
    BY DEF Undisturbed, Strays
<1>3. Due(v)' <=> Due(v)
    BY DEF Undisturbed, Due
<1>4. Accounted(v)'
    BY <1>2, <1>3 DEF IInv, Accounted, Undisturbed
<1> QED BY <1>1, <1>4

LEMMA LeasesKept ==
    ASSUME LocksFollowLeases, NEW p \in Processes, NEW v \in Videos, OnlyRun(p, v),
           run'[p][v].conn = "up" <=> run[p][v].conn = "up", UNCHANGED lockVars
    PROVE  LocksFollowLeases'
BY DEF LocksFollowLeases, Leased, OnlyRun, lockVars

LEMMA PlacedKept ==
    ASSUME Typed, NEW p \in Processes, NEW v \in Videos, OnlyRun(p, v), Placed(run'[p][v]), TypeOK'
    PROVE  Typed'
<1>1. ASSUME NEW q \in Processes, NEW w \in Videos PROVE Placed(run'[q][w])
    BY DEF OnlyRun, Typed
<1> QED BY <1>1 DEF Typed

\* Unless the row of v is put into the queue, only the run that moves can go astray.
LEMMA StraysKept ==
    ASSUME NEW p \in Processes, NEW v \in Videos, OnlyRun(p, v),
           status'[v] = "queued" /\ started'[v] # 0 =>
               status[v] = "queued" /\ started'[v] = started[v]
    PROVE  /\ Strays(v)' \subseteq Strays(v) \cup {p}
           /\ ~Astray(run'[p][v], status'[v], started'[v]) => Strays(v)' \subseteq Strays(v) \ {p}
           /\ (Astray(run'[p][v], status'[v], started'[v]) => p \in Strays(v)) => Strays(v)' \subseteq Strays(v)
<1>1. ASSUME NEW q \in Processes, q # p, Astray(run'[q][v], status'[v], started'[v])
      PROVE  Astray(run[q][v], status[v], started[v])
    <2>1. run'[q][v] = run[q][v]
        BY <1>1 DEF OnlyRun
    <2> QED BY <1>1, <2>1 DEF Astray
<1>2. Strays(v)' = {q \in Processes : Astray(run'[q][v], status'[v], started'[v])}
    BY DEF Strays
<1> QED BY <1>1, <1>2 DEF Strays

LEMMA DueKept ==
    ASSUME NEW p \in Processes, NEW v \in Videos, OnlyRun(p, v),
           status'[v] = "queued" => status[v] = "queued" /\ started'[v] = started[v],
           Ready(run'[p][v], status'[v]) => Due(v)
    PROVE  Due(v)' => Due(v)
<1>1. ASSUME NEW q \in Processes, q # p, Ready(run'[q][v], status'[v]) PROVE Due(v)
    <2>1. run'[q][v] = run[q][v]
        BY <1>1 DEF OnlyRun
    <2> QED BY <1>1, <2>1 DEF Ready, Due
<1>2. Due(v)' <=> \/ status'[v] = "queued" /\ started'[v] = 0
                  \/ \E q \in Processes : Ready(run'[q][v], status'[v])
    BY DEF Due
<1> QED BY <1>1, <1>2 DEF Due

\* A run moves, and writes nothing.
LEMMA MoveKeeps ==
    ASSUME IInv, NEW p \in Processes, NEW v \in Videos, OnlyRun(p, v), Placed(run'[p][v]),
           run'[p][v].conn = "up" <=> run[p][v].conn = "up", run'[p][v].n = run[p][v].n,
           UNCHANGED <<status, started, count, attempt, asked, lockVars>>,
           TypeOK', NonePublishes,
           \A w \in Videos \ {v} : disturbed'[w] = disturbed[w],
           \/ /\ disturbed'[v] = disturbed[v]
              /\ Astray(run'[p][v], status[v], started[v]) => p \in Strays(v)
           \/ disturbed'[v] = disturbed[v] + 1,
           Ready(run'[p][v], status[v]) => Due(v)
    PROVE  IInv'
<1>1. Typed' /\ LocksFollowLeases'
    BY PlacedKept, LeasesKept DEF IInv
<1>2. ASSUME NEW w \in Videos, w # v PROVE Numbered(w)' /\ Accounted(w)'
    BY <1>2, UndisturbedKeeps DEF Undisturbed, OnlyRun, NonePublishes
<1>3. Numbered(v)'
    BY DEF IInv, Numbered, OnlyRun, NonePublishes
<1>4. Accounted(v)'
    <2>1. Counted(v) /\ Accounted(v)
        BY TypesOfCounts DEF IInv, Typed
    <2>2. Due(v)' => Due(v)
        BY DueKept
    <2>3. CASE /\ disturbed'[v] = disturbed[v]
               /\ Astray(run'[p][v], status[v], started[v]) => p \in Strays(v)
        <3>1. Strays(v)' \subseteq Strays(v) /\ Counts(v, 0, 0)
            BY <2>1, <2>3, StraysKept DEF Counts, Counted
        <3> QED BY <2>1, <2>2, <3>1, NoClaim
    <2>4. CASE disturbed'[v] = disturbed[v] + 1
        <3>1. Strays(v)' \subseteq Strays(v) \cup {p} /\ Counts(v, 0, 1)
            BY <2>1, <2>4, StraysKept DEF Counts, Counted
        <3> QED BY <2>1, <2>2, <3>1, FaultClaims
    <2> QED BY <2>3, <2>4
<1> QED BY <1>1, <1>2, <1>3, <1>4 DEF IInv

-----------------------------------------------------------------------------
(* Steps of a run that write nothing.                                      *)

LEMMA InspectKeeps ==
    ASSUME IInv, NEW p \in Processes, NEW v \in Videos, Inspect(p, v)
    PROVE  IInv'
<1>1. TypeOK /\ run \in Runs /\ run[p][v] \in RunState /\ run[p][v].pc = "leased"
    BY DEF Inspect, IInv, Typed, TypeOK, Runs
<1>2. \/ \E pc \in {"releasing", "orphaned", "caught"} : Moves(p, v, pc, run[p][v].seen)
      \/ status[v] \in Terminal /\ Moves(p, v, "closing", status[v])
      \/ NeedsSlot(v) /\ Moves(p, v, "starting", run[p][v].seen)
    BY <1>1, GoToActs, GoToSeeingActs DEF Inspect, PCs
<1>3. TypeOK'
    BY <1>1, <1>2 DEF Inspect, TypeOK, Moves, OnlyRun, Runs, rowVars, lockVars, memVars, callVars
<1> QED BY <1>1, <1>2, <1>3, MoveKeeps
        DEF Inspect, Moves, Placed, Astray, Strays, Ready, Due, NeedsSlot, Terminal, NonePublishes, rowVars

LEMMA CatchKeeps ==
    ASSUME IInv, NEW p \in Processes, NEW v \in Videos, Catch(p, v)
    PROVE  IInv'
<1>1. TypeOK /\ run \in Runs /\ run[p][v] \in RunState /\ run[p][v].pc \in {"caught", "racing"}
    BY DEF Catch, Throws, IInv, Typed, TypeOK, Runs
<1>2. \/ \E seen \in {"failed", "stopped"} : Moves(p, v, "publishing", seen)
      \/ /\ Moves(p, v, "settling", run[p][v].seen)
         /\ run[p][v].conn = "lost" \/ status[v] \in Terminal
    <2>1. CASE GoToSeeing(p, v, "publishing", IF run[p][v].sig = "none" THEN "failed" ELSE "stopped")
        BY <1>1, <2>1, GoToSeeingActs DEF PCs, Terminal
    <2>2. CASE /\ GoTo(p, v, "settling")
               /\ run[p][v].conn = "lost" \/ status[v] \in Terminal
        BY <1>1, <2>2, GoToActs DEF PCs
    <2> QED BY <2>1, <2>2 DEF Catch
<1>3. TypeOK'
    BY <1>1, <1>2 DEF Catch, TypeOK, Moves, OnlyRun, Runs, rowVars, lockVars, callVars
<1> QED BY <1>1, <1>2, <1>3, MoveKeeps
        DEF Catch, Moves, Placed, Astray, Strays, Ready, Terminal, NonePublishes, rowVars

LEMMA ReadOutcomeKeeps ==
    ASSUME IInv, NEW p \in Processes, NEW v \in Videos, ReadOutcome(p, v)
    PROVE  IInv'
<1>1. TypeOK /\ run \in Runs /\ run[p][v] \in RunState
    BY DEF IInv, Typed, TypeOK, Runs
<1>2. \/ Moves(p, v, "releasing", run[p][v].seen)
      \/ /\ \E seen \in Terminal : Moves(p, v, "finishing", seen)
         /\ run[p][v].n # 0 /\ run[p][v].conn # "lost"
    <2>1. CASE GoTo(p, v, "releasing")
        BY <1>1, <2>1, GoToActs DEF PCs
    <2>2. CASE /\ GoToSeeing(p, v, "finishing",
                      IF status[v] \in {"completed", "stopped"} THEN status[v] ELSE "failed")
               /\ run[p][v].n # 0 /\ run[p][v].conn # "lost"
        BY <1>1, <2>2, GoToSeeingActs DEF PCs, Terminal
    <2> QED BY <2>1, <2>2 DEF ReadOutcome
<1>3. run[p][v].pc = "racing" => started[v] # run[p][v].n
    BY <1>1 DEF ReadOutcome, IInv, Typed, Placed, Numbered, Published, RunState, Numbers
<1>4. run[p][v].pc \in {"settling", "racing"}
    BY DEF ReadOutcome
<1>5. TypeOK'
    BY <1>1, <1>2 DEF ReadOutcome, TypeOK, Moves, OnlyRun, Runs, rowVars, lockVars, memVars, callVars
<1> QED BY <1>1, <1>2, <1>3, <1>4, <1>5, MoveKeeps
        DEF ReadOutcome, Moves, Placed, Astray, Strays, Ready, Terminal, NonePublishes, rowVars

\* An abort changes only signals.
LEMMA AbortActs ==
    ASSUME run \in Runs, analysis \in Promises, NEW p \in Processes, NEW v \in Videos,
           NEW reason \in {"stop", "timeout", "lost"}, Abort(p, v, reason)
    PROVE  /\ OnlyRun(p, v)
           /\ run'[p][v].pc = run[p][v].pc /\ run'[p][v].seen = run[p][v].seen
           /\ run'[p][v].conn = run[p][v].conn /\ run'[p][v].n = run[p][v].n
           /\ analysis' \in Promises /\ NonePublishes
<1> DEFINE r == [run[p][v] EXCEPT !.sig = IF @ = "none" THEN reason ELSE @]
           n == run[p][v].n
<1>1. run[p][v] \in RunState
    BY DEF Runs
<1>2. /\ r \in RunState /\ r.pc = run[p][v].pc /\ r.seen = run[p][v].seen
      /\ r.conn = run[p][v].conn /\ r.n = run[p][v].n
    BY <1>1 DEF RunState
<1>3. run' = [run EXCEPT ![p] = [run[p] EXCEPT ![v] = r]]
    BY DEF Abort, Runs
<1>4. analysis' \in Promises /\ NonePublishes
    <2>1. CASE n = 0
        BY <2>1 DEF Abort, NonePublishes
    <2>2. CASE n # 0
        <3> DEFINE a == [analysis[v][n] EXCEPT !.sig = IF @ = "none" THEN reason ELSE @]
        <3>1. n \in Numbers
            BY <1>1, <2>2, QueueConstants DEF RunState, Numbers
        <3>2. a \in AnalysisState /\ a.pc = analysis[v][n].pc
            <4>1. analysis[v][n] \in AnalysisState
                BY <3>1 DEF Promises
            <4> HIDE DEF n
            <4> QED BY <4>1 DEF AnalysisState
        <3>3. analysis' = [analysis EXCEPT ![v] = [analysis[v] EXCEPT ![n] = a]]
            BY <2>2, <3>1 DEF Abort, Promises
        <3> HIDE DEF a, n
        <3> QED BY <3>1, <3>2, <3>3 DEF Promises, NonePublishes
    <2> QED BY <2>1, <2>2
<1> HIDE DEF r
<1> QED BY <1>2, <1>3, <1>4, OneRunActs

LEMMA AbortKeeps ==
    ASSUME IInv, NEW p \in Processes, NEW v \in Videos, NEW reason \in {"stop", "timeout", "lost"},
           Abort(p, v, reason), UNCHANGED <<rowVars, lockVars>>,
           TypeOK /\ run' \in Runs /\ analysis' \in Promises => TypeOK'
    PROVE  IInv'
<1>1. run \in Runs /\ analysis \in Promises /\ TypeOK
    BY DEF IInv, Typed, TypeOK, Runs, Promises
<1>2. /\ OnlyRun(p, v)
      /\ run'[p][v].pc = run[p][v].pc /\ run'[p][v].seen = run[p][v].seen
      /\ run'[p][v].conn = run[p][v].conn /\ run'[p][v].n = run[p][v].n
      /\ analysis' \in Promises /\ NonePublishes
    BY <1>1, AbortActs
<1>3. Placed(run[p][v])
    BY DEF IInv, Typed
<1> QED BY <1>1, <1>2, <1>3, MoveKeeps DEF OnlyRun, Placed, Astray, Strays, Ready, Due, rowVars

LEMMA TimeoutKeeps ==
    ASSUME IInv, NEW p \in Processes, NEW v \in Videos, Timeout(p, v) \/ HeartbeatSeesStop(p, v)
    PROVE  IInv'
<1>1. TypeOK /\ run' \in Runs /\ analysis' \in Promises => TypeOK'
    BY DEF Timeout, HeartbeatSeesStop, TypeOK, Runs, Promises, rowVars, lockVars, memVars, callVars
<1> QED BY <1>1, AbortKeeps DEF Timeout, HeartbeatSeesStop

LEMMA NoticeLossKeeps ==
    ASSUME IInv, NEW p \in Processes, NEW v \in Videos, NoticeLoss(p, v)
    PROVE  IInv'
<1> DEFINE old == run[p][v]
           n == old.n
           r == [old EXCEPT !.conn = "lost", !.sig = IF @ = "none" THEN "lost" ELSE @]
<1>1. TypeOK /\ run \in Runs /\ analysis \in Promises /\ old \in RunState /\ Placed(old)
    BY DEF IInv, Typed, TypeOK, Runs, Promises
<1>2. r \in RunState /\ r.pc = old.pc /\ r.conn = "lost" /\ r.n = n /\ r.seen = old.seen
    BY <1>1 DEF RunState
<1>3. run' = [run EXCEPT ![p] = [run[p] EXCEPT ![v] = r]]
    BY <1>1 DEF NoticeLoss, Runs
<1>4. OnlyRun(p, v) /\ run'[p][v] = r
    <2> HIDE DEF r
    <2> QED BY <1>1, <1>2, <1>3, OneRunActs
<1>5. analysis' \in Promises /\ NonePublishes
    <2>1. CASE n = 0
        BY <1>1, <2>1 DEF NoticeLoss, NonePublishes
    <2>2. CASE n # 0
        <3> DEFINE a == [analysis[v][n] EXCEPT !.sig = IF @ = "none" THEN "lost" ELSE @]
        <3>1. n \in Numbers
            BY <1>1, <2>2, QueueConstants DEF RunState, Numbers
        <3>2. a \in AnalysisState /\ a.pc = analysis[v][n].pc
            <4>1. analysis[v][n] \in AnalysisState
                BY <1>1, <3>1 DEF Promises
            <4> HIDE DEF n
            <4> QED BY <4>1 DEF AnalysisState
        <3>3. analysis' = [analysis EXCEPT ![v] = [analysis[v] EXCEPT ![n] = a]]
            BY <1>1, <2>2, <3>1 DEF NoticeLoss, Promises
        <3> HIDE DEF a, n
        <3> QED BY <1>1, <3>1, <3>2, <3>3 DEF Promises, NonePublishes
    <2> QED BY <2>1, <2>2
<1>6. TypeOK'
    BY <1>1, <1>4, <1>5
    DEF NoticeLoss, TypeOK, OnlyRun, Runs, Promises, rowVars, lockVars, memVars, callVars
<1>7. old.conn = "cut"
    BY DEF NoticeLoss
<1> HIDE DEF r
<1>8. Placed(r)
    BY <1>1, <1>2, <1>7 DEF Placed
<1>9. Astray(r, status[v], started[v]) => p \in Strays(v)
    BY <1>1, <1>2, <1>7 DEF Astray, Strays
<1>10. ~Ready(r, status[v])
    BY <1>2 DEF Ready
<1> QED BY <1>1, <1>2, <1>4, <1>5, <1>6, <1>7, <1>8, <1>9, <1>10, MoveKeeps
        DEF NoticeLoss, rowVars

-----------------------------------------------------------------------------
(* Steps that touch neither rows, nor locks, nor runs.                     *)

LEMMA AsideKeeps ==
    ASSUME IInv, UNCHANGED <<rowVars, lockVars, run>>, NonePublishes, TypeOK'
    PROVE  IInv'
<1>1. Typed' /\ LocksFollowLeases'
    BY DEF IInv, Typed, LocksFollowLeases, Leased, lockVars
<1>2. ASSUME NEW w \in Videos PROVE Numbered(w)' /\ Accounted(w)'
    BY UndisturbedKeeps DEF Undisturbed, NonePublishes, rowVars
<1> QED BY <1>1, <1>2 DEF IInv

LEMMA SpendActs ==
    ASSUME budget \in Bounded, NEW what \in {"calls", "stops", "crashes", "cuts", "errors"},
           Spend(what)
    PROVE  budget' \in Bounded
<1> DEFINE b == [budget EXCEPT ![what] = @ - 1]
<1>1. budget[what] \in Nat /\ budget[what] > 0 /\ budget' = b
    BY DEF Bounded, Spend
<1>2. budget[what] - 1 \in Nat
    BY <1>1
<1>3. CASE what = "calls"
    BY <1>1, <1>2, <1>3 DEF Bounded
<1>4. CASE what = "stops"
    BY <1>1, <1>2, <1>4 DEF Bounded
<1>5. CASE what = "crashes"
    BY <1>1, <1>2, <1>5 DEF Bounded
<1>6. CASE what = "cuts"
    BY <1>1, <1>2, <1>6 DEF Bounded
<1>7. CASE what = "errors"
    BY <1>1, <1>2, <1>7 DEF Bounded
<1> QED BY <1>3, <1>4, <1>5, <1>6, <1>7

LEMMA EnqueueKeeps ==
    ASSUME IInv, NEW p \in Processes, NEW v \in Videos, NEW restart \in BOOLEAN,
           EnqueueVideo(p, v, restart)
    PROVE  IInv'
<1>1. budget' \in Bounded
    BY SpendActs DEF IInv, Typed, TypeOK, EnqueueVideo
<1>2. adding' \in SUBSET Calls
    <2>1. [proc |-> p, video |-> v, restart |-> restart, ready |-> FALSE] \in Calls
        BY DEF Calls
    <2> QED BY <2>1 DEF IInv, Typed, TypeOK, EnqueueVideo
<1>3. TypeOK'
    BY <1>1, <1>2 DEF IInv, Typed, TypeOK, EnqueueVideo, rowVars, lockVars, memVars
<1> QED BY <1>3, AsideKeeps DEF EnqueueVideo, NonePublishes, rowVars

\* A promise goes to one of pcs, or is forgotten.
MovesPromise(v, n, pcs) ==
    /\ analysis' \in Promises
    /\ analysis'[v][n].pc \in pcs \cup {"none"}
    /\ \A w \in Videos, m \in Numbers : w # v \/ m # n => analysis'[w][m] = analysis[w][m]

LEMMA AnalysisAtActs ==
    ASSUME analysis \in Promises, NEW v \in Videos, NEW n \in Numbers, NEW pc,
           [analysis[v][n] EXCEPT !.pc = pc] \in AnalysisState, AnalysisAt(v, n, pc)
    PROVE  MovesPromise(v, n, {pc})
<1> DEFINE a == [analysis[v][n] EXCEPT !.pc = pc]
<1>1. a.pc = pc
    <2>1. analysis[v][n] \in AnalysisState
        BY DEF Promises
    <2> QED BY <2>1 DEF AnalysisState
<1>2. analysis' = [analysis EXCEPT ![v] = [analysis[v] EXCEPT ![n] = a]]
    BY DEF AnalysisAt, Promises
<1> HIDE DEF a
<1> QED BY <1>1, <1>2 DEF MovesPromise, Promises, a

LEMMA AnalysisEndsActs ==
    ASSUME analysis \in Promises, NEW v \in Videos, NEW n \in Numbers, NEW pc,
           [analysis[v][n] EXCEPT !.pc = pc] \in AnalysisState, AnalysisEnds(v, n, pc)
    PROVE  MovesPromise(v, n, {pc})
<1> DEFINE over == run[analysis[v][n].by][v].n = n
           a == IF over THEN [analysis[v][n] EXCEPT !.pc = pc] ELSE NoAnalysis
<1>1. a \in AnalysisState /\ a.pc \in {pc, "none"}
    <2>1. analysis[v][n] \in AnalysisState
        BY DEF Promises
    <2>2. NoAnalysis \in AnalysisState /\ NoAnalysis.pc = "none"
        BY DEF NoAnalysis, AnalysisState
    <2> HIDE DEF over
    <2> QED BY <2>1, <2>2 DEF AnalysisState
<1>2. analysis' = [analysis EXCEPT ![v] = [analysis[v] EXCEPT ![n] = a]]
    BY DEF AnalysisEnds, Promises
<1> HIDE DEF a
<1> QED BY <1>1, <1>2 DEF MovesPromise, Promises

LEMMA PromiseGoes ==
    ASSUME analysis \in Promises, NEW v \in Videos, NEW n \in Numbers,
           NEW pc \in {"loading", "checking", "working", "completing", "delivering", "resolved",
                       "failing", "writing", "rejected"}
    PROVE  [analysis[v][n] EXCEPT !.pc = pc] \in AnalysisState
<1>1. analysis[v][n] \in AnalysisState
    BY DEF Promises
<1> QED BY <1>1 DEF AnalysisState

\* The steps of an attempt that write nothing.
Thinks(v, n) ==
    \/ LoadVideo(v, n) \/ AssertVideoAttempt(v, n) \/ WorkThrows(v, n)
    \/ AssertStillOwned(v, n) \/ AnalysisCatch(v, n)

LEMMA ThinkKeeps ==
    ASSUME IInv, NEW v \in Videos, NEW n \in Numbers, Thinks(v, n)
    PROVE  IInv'
<1>1. analysis \in Promises /\ TypeOK
    BY DEF IInv, Typed, TypeOK, Promises
<1>2. /\ \/ \E pc \in {"checking", "working", "completing", "failing", "writing", "rejected"} :
               MovesPromise(v, n, {pc})
         \/ analysis[v][n].pc = "delivering" /\ MovesPromise(v, n, {"resolved"})
      /\ OnlyAnalysis
    BY <1>1, PromiseGoes, AnalysisAtActs, AnalysisEndsActs
    DEF Thinks, LoadVideo, AssertVideoAttempt, WorkThrows, AssertStillOwned, AnalysisCatch
<1>3. NonePublishes /\ analysis' \in Promises
    BY <1>2 DEF MovesPromise, NonePublishes, Published
<1>4. TypeOK'
    BY <1>1, <1>2, <1>3 DEF OnlyAnalysis, TypeOK, Promises, rowVars, lockVars, memVars, callVars
<1> QED BY <1>2, <1>3, <1>4, AsideKeeps DEF OnlyAnalysis

-----------------------------------------------------------------------------
(* Steps that write the row of a video.                                    *)

\* The row of v changes, and no other; v was not and is not put into the queue.
WritesRow(v) ==
    /\ UNCHANGED <<count, asked, disturbed>>
    /\ \A w \in Videos \ {v} : /\ status'[w] = status[w] /\ started'[w] = started[w]
                               /\ attempt'[w] = attempt[w]

\* A promise writes an outcome or a stage into the row.
LEMMA PromiseWrites ==
    ASSUME IInv, NEW v \in Videos, WritesRow(v), UNCHANGED <<attempt, run, lockVars>>,
           status'[v] # "queued", started'[v] \in {0, started[v]}, TypeOK',
           \A w \in Videos, m \in Numbers :
               analysis'[w][m].pc \in Published =>
                   analysis[w][m].pc \in Published \/ (w = v /\ started'[v] = 0)
    PROVE  IInv'
<1>1. Typed' /\ LocksFollowLeases'
    BY DEF IInv, Typed, LocksFollowLeases, Leased, lockVars
<1>2. ASSUME NEW w \in Videos, w # v PROVE Numbered(w)' /\ Accounted(w)'
    BY <1>2, UndisturbedKeeps DEF Undisturbed, WritesRow
<1>3. Numbered(v)'
    BY DEF IInv, Numbered, WritesRow, Numbers
<1>4. Accounted(v)'
    <2>1. Counted(v) /\ Accounted(v)
        BY TypesOfCounts DEF IInv, Typed
    <2>2. Strays(v)' \subseteq Strays(v)
        BY DEF Strays, Astray
    <2>3. Due(v)' => Due(v)
        BY DEF Due, Ready
    <2>4. Counts(v, 0, 0)
        BY <2>1 DEF Counts, Counted, WritesRow
    <2> QED BY <2>1, <2>2, <2>3, <2>4, NoClaim
<1> QED BY <1>1, <1>2, <1>3, <1>4 DEF IInv

LEMMA StageKeeps ==
    ASSUME IInv, NEW v \in Videos, NEW n \in Numbers, SetStage(v, n)
    PROVE  IInv'
<1>1. analysis \in Promises /\ TypeOK
    BY DEF IInv, Typed, TypeOK, Promises
<1>2. \E pc \in {"checking", "working"} : MovesPromise(v, n, {pc})
    BY <1>1, PromiseGoes, AnalysisAtActs DEF SetStage
<1>3. status' \in [Videos -> {"queued", "downloading"} \cup Terminal] /\ status'[v] = "downloading"
    BY <1>1 DEF SetStage, TypeOK
<1>4. TypeOK'
    BY <1>1, <1>2, <1>3 DEF SetStage, TypeOK, MovesPromise, Promises, lockVars, memVars, callVars
<1>5. WritesRow(v)
    BY <1>1 DEF SetStage, WritesRow, TypeOK
<1> QED BY <1>1, <1>2, <1>3, <1>4, <1>5, PromiseWrites DEF SetStage, MovesPromise, Published

LEMMA CompleteKeeps ==
    ASSUME IInv, NEW v \in Videos, NEW n \in Numbers, CompleteVideo(v, n)
    PROVE  IInv'
<1>1. analysis \in Promises /\ TypeOK
    BY DEF IInv, Typed, TypeOK, Promises
<1>2. MovesPromise(v, n, {"delivering"})
    BY <1>1, PromiseGoes, AnalysisAtActs DEF CompleteVideo
<1>3. /\ status' \in [Videos -> {"queued", "downloading"} \cup Terminal] /\ status'[v] = "completed"
      /\ started' \in [Videos -> 0 .. MaxAttempts] /\ started'[v] = 0
    BY <1>1, QueueConstants DEF CompleteVideo, TypeOK, Terminal
<1>4. TypeOK'
    BY <1>1, <1>2, <1>3 DEF CompleteVideo, TypeOK, MovesPromise, Promises, lockVars, memVars, callVars
<1>5. WritesRow(v)
    BY <1>1 DEF CompleteVideo, WritesRow, TypeOK
<1> QED BY <1>1, <1>2, <1>3, <1>4, <1>5, PromiseWrites DEF CompleteVideo, MovesPromise

LEMMA WriteFailedKeeps ==
    ASSUME IInv, NEW v \in Videos, NEW n \in Numbers, WriteFailed(v, n)
    PROVE  IInv'
<1>1. analysis \in Promises /\ TypeOK
    BY DEF IInv, Typed, TypeOK, Promises
<1>2. MovesPromise(v, n, {"rejected"})
    BY <1>1, PromiseGoes, AnalysisEndsActs DEF WriteFailed
<1>3. /\ status' \in [Videos -> {"queued", "downloading"} \cup Terminal]
      /\ status'[v] \in {"failed", "stopped"}
      /\ started' \in [Videos -> 0 .. MaxAttempts] /\ started'[v] = 0
    BY <1>1, QueueConstants DEF WriteFailed, TypeOK, Terminal
<1>4. TypeOK'
    BY <1>1, <1>2, <1>3 DEF WriteFailed, TypeOK, MovesPromise, Promises, lockVars, memVars, callVars
<1>5. WritesRow(v)
    BY <1>1 DEF WriteFailed, WritesRow, TypeOK
<1> QED BY <1>1, <1>2, <1>3, <1>4, <1>5, PromiseWrites DEF WriteFailed, MovesPromise, Published

LEMMA WriteStoppedKeeps ==
    ASSUME IInv, NEW c \in stopping, WriteStopped(c)
    PROVE  IInv'
<1>1. TypeOK /\ c[2] \in Videos
    BY DEF IInv, Typed, TypeOK
<1>2. status' \in [Videos -> {"queued", "downloading"} \cup Terminal] /\ status'[c[2]] = "stopped"
    BY <1>1 DEF WriteStopped, TypeOK, Terminal
<1>3. TypeOK'
    BY <1>1, <1>2 DEF WriteStopped, TypeOK, lockVars, memVars
<1>4. WritesRow(c[2])
    BY <1>1 DEF WriteStopped, WritesRow, TypeOK
<1> QED BY <1>1, <1>2, <1>3, <1>4, PromiseWrites DEF WriteStopped

\* An open attempt of v may end, and nothing else happens to its attempts.
EndsOpen(v) ==
    \A n \in Numbers :
        \/ attempt'[v][n] = attempt[v][n]
        \/ attempt[v][n] = "running" /\ attempt'[v][n] # "running"

LEMMA OpenAttemptsActs ==
    ASSUME TypeOK, NEW v \in Videos, NEW outcome \in {"none"} \cup Terminal
    PROVE  LET a == OpenAttemptsFinished(v, outcome) IN
           /\ a \in [Videos -> [Numbers -> {"none", "running"} \cup Terminal]]
           /\ \A w \in Videos \ {v} : a[w] = attempt[w]
           /\ \A n \in Numbers :
                 a[v][n] = IF attempt[v][n] = "running" THEN outcome ELSE attempt[v][n]
BY DEF OpenAttemptsFinished, TypeOK

\* A run moves and writes the row of its video, which is not put into the queue.
LEMMA RunWrites ==
    ASSUME IInv, NEW p \in Processes, NEW v \in Videos, OnlyRun(p, v), WritesRow(v),
           run'[p][v].conn = run[p][v].conn, run'[p][v].n = run[p][v].n, UNCHANGED lockVars,
           Placed(run'[p][v]), TypeOK', NonePublishes, EndsOpen(v),
           started'[v] \in {0, started[v]}, status'[v] = "queued" => status[v] = "queued",
           \/ /\ Astray(run'[p][v], status'[v], started'[v]) => p \in Strays(v)
              /\ Due(v)' => Due(v)
           \/ p \in Strays(v) /\ ~Astray(run'[p][v], status'[v], started'[v])
    PROVE  IInv'
<1>1. Typed' /\ LocksFollowLeases'
    BY PlacedKept, LeasesKept DEF IInv
<1>2. ASSUME NEW w \in Videos, w # v PROVE Numbered(w)' /\ Accounted(w)'
    BY <1>2, UndisturbedKeeps DEF Undisturbed, WritesRow, OnlyRun, NonePublishes
<1>3. Numbered(v)'
    BY DEF IInv, Numbered, WritesRow, OnlyRun, NonePublishes, EndsOpen, Numbers
<1>4. Accounted(v)'
    <2>1. Counted(v) /\ Accounted(v)
        BY TypesOfCounts DEF IInv, Typed
    <2>2. Counts(v, 0, 0)
        BY <2>1 DEF Counts, Counted, WritesRow
    <2>3. CASE /\ Astray(run'[p][v], status'[v], started'[v]) => p \in Strays(v)
               /\ Due(v)' => Due(v)
        <3>1. Strays(v)' \subseteq Strays(v)
            BY <2>3, StraysKept
        <3> QED BY <2>1, <2>2, <2>3, <3>1, NoClaim
    <2>4. CASE p \in Strays(v) /\ ~Astray(run'[p][v], status'[v], started'[v])
        <3>1. Strays(v)' \subseteq Strays(v) \ {p}
            BY <2>4, StraysKept
        <3> QED BY <2>1, <2>2, <2>4, <3>1, StrayReleases
    <2> QED BY <2>3, <2>4
<1> QED BY <1>1, <1>2, <1>3, <1>4 DEF IInv

LEMMA CloseAttemptsKeeps ==
    ASSUME IInv, NEW p \in Processes, NEW v \in Videos, CloseAttempts(p, v)
    PROVE  IInv'
<1>1. /\ TypeOK /\ run \in Runs /\ run[p][v] \in RunState /\ run[p][v].pc = "closing"
      /\ run[p][v].seen \in {"none"} \cup Terminal /\ Placed(run[p][v])
    BY DEF CloseAttempts, IInv, Typed, TypeOK, Runs, RunState
<1>2. Moves(p, v, "clearing", run[p][v].seen)
    BY <1>1, GoToActs DEF CloseAttempts, PCs
<1>3. /\ attempt' \in [Videos -> [Numbers -> {"none", "running"} \cup Terminal]]
      /\ \A w \in Videos \ {v} : attempt'[w] = attempt[w]
      /\ EndsOpen(v)
    BY <1>1, OpenAttemptsActs DEF CloseAttempts, EndsOpen, Terminal
<1>4. TypeOK'
    BY <1>1, <1>2, <1>3
    DEF CloseAttempts, TypeOK, Moves, OnlyRun, Runs, lockVars, memVars, callVars
<1>5. WritesRow(v)
    BY <1>3 DEF CloseAttempts, WritesRow
<1>6. Due(v)' => Due(v)
    BY <1>1, <1>2, DueKept DEF CloseAttempts, Moves, Ready, Due
<1> QED BY <1>1, <1>2, <1>3, <1>4, <1>5, <1>6, RunWrites
        DEF CloseAttempts, Moves, Placed, Astray, Strays, NonePublishes

LEMMA ClearMarkerKeeps ==
    ASSUME IInv, NEW p \in Processes, NEW v \in Videos, ClearMarker(p, v)
    PROVE  IInv'
<1>1. TypeOK /\ run \in Runs /\ run[p][v] \in RunState /\ run[p][v].pc = "clearing"
    BY DEF ClearMarker, IInv, Typed, TypeOK, Runs
<1>2. Moves(p, v, "releasing", run[p][v].seen)
    BY <1>1, GoToActs DEF ClearMarker, PCs
<1>3. started' \in [Videos -> 0 .. MaxAttempts] /\ started'[v] = 0
    BY <1>1, QueueConstants DEF ClearMarker, TypeOK
<1>4. TypeOK'
    BY <1>1, <1>2, <1>3
    DEF ClearMarker, TypeOK, Moves, OnlyRun, Runs, lockVars, memVars, callVars
<1>5. WritesRow(v) /\ EndsOpen(v)
    BY <1>1 DEF ClearMarker, WritesRow, EndsOpen, TypeOK
<1>6. CASE run[p][v].conn = "up"
    <2>1. Due(v)' => Due(v)
        <3>1. ASSUME NEW q \in Processes, Ready(run'[q][v], status'[v]) PROVE Due(v)
            <4>1. q # p
                BY <1>2, <3>1 DEF Moves, Ready
            <4>2. run'[q][v] = run[q][v] /\ status'[v] = status[v]
                BY <1>2, <4>1 DEF Moves, OnlyRun, ClearMarker
            <4> QED BY <3>1, <4>2 DEF Due
        <3>2. status[v] = "queued" => Ready(run[p][v], status[v])
            BY <1>1, <1>6 DEF Ready
        <3> QED BY <3>1, <3>2 DEF Due, ClearMarker
    <2> QED BY <1>2, <1>3, <1>4, <1>5, <2>1, RunWrites
            DEF ClearMarker, Moves, Placed, Astray, NonePublishes
<1>7. CASE run[p][v].conn # "up"
    BY <1>1, <1>2, <1>3, <1>4, <1>5, <1>7, RunWrites
    DEF ClearMarker, Moves, Placed, Astray, Strays, NonePublishes
<1> QED BY <1>6, <1>7

LEMMA StopOrphanKeeps ==
    ASSUME IInv, NEW p \in Processes, NEW v \in Videos, StopOrphan(p, v)
    PROVE  IInv'
<1>1. TypeOK /\ run \in Runs /\ run[p][v] \in RunState /\ run[p][v].pc = "orphaned"
    BY DEF StopOrphan, IInv, Typed, TypeOK, Runs
<1>2. \/ Moves(p, v, "releasing", run[p][v].seen) /\ UNCHANGED <<status, started>>
      \/ /\ Moves(p, v, "closing_orphan", run[p][v].seen)
         /\ status' = [status EXCEPT ![v] = "stopped"] /\ started' = [started EXCEPT ![v] = 0]
    BY <1>1, GoToActs DEF StopOrphan, PCs
<1>3. status' \in [Videos -> {"queued", "downloading"} \cup Terminal]
    <2>1. status \in [Videos -> {"queued", "downloading"} \cup Terminal] /\ "stopped" \in Terminal
        BY <1>1 DEF TypeOK, Terminal
    <2> QED BY <1>2, <2>1
<1>4. started' \in [Videos -> 0 .. MaxAttempts]
    <2>1. started \in [Videos -> 0 .. MaxAttempts] /\ 0 \in 0 .. MaxAttempts
        BY <1>1, QueueConstants DEF TypeOK
    <2> QED BY <1>2, <2>1
<1>5. TypeOK'
    BY <1>1, <1>2, <1>3, <1>4
    DEF StopOrphan, TypeOK, Moves, OnlyRun, Runs, lockVars, memVars, callVars
<1>6. WritesRow(v) /\ EndsOpen(v)
    BY <1>1, <1>2 DEF StopOrphan, WritesRow, EndsOpen, TypeOK
<1>7. /\ status'[v] = "queued" => status[v] = "queued" /\ started'[v] = started[v]
      /\ started'[v] \in {0, started[v]}
    BY <1>1, <1>2 DEF TypeOK
<1>8. Due(v)' => Due(v)
    BY <1>2, <1>7, DueKept DEF Moves, Ready
<1> QED BY <1>2, <1>5, <1>6, <1>7, <1>8, RunWrites
        DEF StopOrphan, Moves, Placed, Astray, NonePublishes

LEMMA CloseOrphanKeeps ==
    ASSUME IInv, NEW p \in Processes, NEW v \in Videos, CloseOrphan(p, v)
    PROVE  IInv'
<1>1. TypeOK /\ run \in Runs /\ run[p][v] \in RunState
    BY DEF IInv, Typed, TypeOK, Runs
<1>2. Moves(p, v, "releasing", run[p][v].seen)
    BY <1>1, GoToActs DEF CloseOrphan, PCs
<1>3. /\ attempt' \in [Videos -> [Numbers -> {"none", "running"} \cup Terminal]]
      /\ \A w \in Videos \ {v} : attempt'[w] = attempt[w]
      /\ EndsOpen(v)
    BY <1>1, OpenAttemptsActs DEF CloseOrphan, EndsOpen, Terminal
<1>4. TypeOK'
    BY <1>1, <1>2, <1>3
    DEF CloseOrphan, TypeOK, Moves, OnlyRun, Runs, lockVars, memVars, callVars
<1>5. WritesRow(v)
    BY <1>3 DEF CloseOrphan, WritesRow
<1>6. Due(v)' => Due(v)
    BY <1>2, DueKept DEF CloseOrphan, Moves, Ready
<1> QED BY <1>2, <1>3, <1>4, <1>5, <1>6, RunWrites
        DEF CloseOrphan, Moves, Placed, Astray, NonePublishes

\* A row is marked, or its marker is cleared.
LEMMA MarkerActs ==
    ASSUME TypeOK, NEW v \in Videos, NEW m \in 0 .. MaxAttempts, started' = [started EXCEPT ![v] = m]
    PROVE  /\ started' \in [Videos -> 0 .. MaxAttempts] /\ started'[v] = m
           /\ \A w \in Videos \ {v} : started'[w] = started[w]
<1>1. started \in [Videos -> 0 .. MaxAttempts]
    BY DEF TypeOK
<1> QED BY <1>1

LEMMA NoAttempt == 0 \in 0 .. MaxAttempts
BY QueueConstants

LEMMA PublishKeeps ==
    ASSUME IInv, NEW p \in Processes, NEW v \in Videos, Publish(p, v) \/ PublishCleanupFailure(p, v)
    PROVE  IInv'
<1>1. /\ TypeOK /\ run \in Runs /\ run[p][v] \in RunState
      /\ Publish(p, v) => run[p][v].seen \in Terminal
    BY DEF IInv, Typed, TypeOK, Placed, Publish, Runs, RunState
<1>2. \E seen \in {"none", "stopped"} : Moves(p, v, "settling", seen)
    BY <1>1, GoToSeeingActs DEF Publish, PublishCleanupFailure, PCs, Terminal
<1>3. /\ status' \in [Videos -> {"queued", "downloading"} \cup Terminal] /\ status'[v] \in Terminal
      /\ \A w \in Videos \ {v} : status'[w] = status[w]
    BY <1>1 DEF Publish, PublishCleanupFailure, TypeOK, Terminal
<1>4. /\ started' \in [Videos -> 0 .. MaxAttempts] /\ started'[v] = 0
      /\ \A w \in Videos \ {v} : started'[w] = started[w]
    BY <1>1, NoAttempt, MarkerActs DEF Publish, PublishCleanupFailure
<1>5. UNCHANGED <<count, attempt, asked, disturbed, lockVars, memVars, analysis, callVars, budget>>
    BY DEF Publish, PublishCleanupFailure
<1>6. TypeOK'
    BY <1>1, <1>2, <1>3, <1>4, <1>5
    DEF TypeOK, Moves, OnlyRun, Runs, lockVars, memVars, callVars
<1>7. WritesRow(v) /\ EndsOpen(v) /\ status'[v] # "queued"
    BY <1>3, <1>4, <1>5 DEF WritesRow, EndsOpen, Terminal
<1>8. Due(v)' => Due(v)
    BY <1>2, <1>7, DueKept DEF Moves, Ready
<1>9. ~Astray(run'[p][v], status'[v], started'[v])
    BY <1>2, <1>7 DEF Astray, Moves
<1> QED BY <1>2, <1>4, <1>5, <1>6, <1>7, <1>8, <1>9, RunWrites DEF Moves, Placed, NonePublishes

LEMMA FinishKeeps ==
    ASSUME IInv, NEW p \in Processes, NEW v \in Videos, FinishVideoAttempt(p, v)
    PROVE  IInv'
<1> DEFINE n == run[p][v].n
           seen == run[p][v].seen
<1>1. /\ TypeOK /\ run \in Runs /\ run[p][v] \in RunState /\ run[p][v].pc = "finishing"
      /\ seen \in Terminal /\ n \in Numbers
    BY QueueConstants DEF IInv, Typed, TypeOK, Placed, FinishVideoAttempt, Runs, RunState, Numbers
<1>2. Moves(p, v, "releasing", seen)
    BY <1>1, GoToActs DEF FinishVideoAttempt, PCs
<1>3. /\ attempt' \in [Videos -> [Numbers -> {"none", "running"} \cup Terminal]]
      /\ \A w \in Videos \ {v} : attempt'[w] = attempt[w]
      /\ EndsOpen(v)
    <2>1. attempt \in [Videos -> [Numbers -> {"none", "running"} \cup Terminal]]
        BY <1>1 DEF TypeOK
    <2>2. seen # "running"
        BY <1>1 DEF Terminal
    <2>3. CASE UNCHANGED attempt
        BY <2>1, <2>3 DEF EndsOpen
    <2>4. CASE attempt[v][n] = "running" /\ attempt' = [attempt EXCEPT ![v][n] = seen]
        <3> HIDE DEF n, seen
        <3> QED BY <1>1, <2>1, <2>2, <2>4 DEF EndsOpen
    <2> QED BY <2>3, <2>4 DEF FinishVideoAttempt
<1>4. /\ started' \in [Videos -> 0 .. MaxAttempts]
      /\ \A w \in Videos \ {v} : started'[w] = started[w]
      /\ started'[v] = started[v] \/ (started[v] = n /\ started'[v] = 0)
    <2>1. CASE UNCHANGED started
        BY <1>1, <2>1 DEF TypeOK
    <2>2. CASE started' = [started EXCEPT ![v] = IF @ = n THEN 0 ELSE @]
        <3>1. (IF started[v] = n THEN 0 ELSE started[v]) \in 0 .. MaxAttempts
            BY <1>1, NoAttempt DEF TypeOK
        <3> HIDE DEF n
        <3> QED BY <1>1, <2>2, <3>1, MarkerActs
    <2> QED BY <2>1, <2>2 DEF FinishVideoAttempt
<1>5. UNCHANGED <<status, count, asked, disturbed, lockVars, memVars, analysis, callVars, budget>>
    BY DEF FinishVideoAttempt
<1>6. TypeOK'
    BY <1>1, <1>2, <1>3, <1>4, <1>5
    DEF TypeOK, Moves, OnlyRun, Runs, lockVars, memVars, callVars
<1>7. WritesRow(v)
    BY <1>3, <1>4, <1>5 DEF WritesRow
<1>8. ~Astray(run'[p][v], status'[v], started'[v]) /\ ~Ready(run'[p][v], status'[v])
    BY <1>2 DEF Astray, Ready, Moves
<1>9. CASE status[v] = "queued" /\ started[v] = n
    <2>1. p \in Strays(v)
        BY <1>1, <1>9, QueueConstants DEF Strays, Astray, Numbers
    <2> QED BY <1>2, <1>3, <1>4, <1>5, <1>6, <1>7, <1>8, <2>1, RunWrites
            DEF Moves, Placed, NonePublishes
<1>10. CASE ~(status[v] = "queued" /\ started[v] = n)
    <2>1. Due(v)' => Due(v)
        BY <1>2, <1>4, <1>5, <1>8, <1>10, DueKept DEF Moves
    <2> QED BY <1>2, <1>3, <1>4, <1>5, <1>6, <1>7, <1>8, <2>1, RunWrites
            DEF Moves, Placed, NonePublishes
<1> QED BY <1>9, <1>10

-----------------------------------------------------------------------------
(* An attempt begins.                                                      *)

\* What the transaction writes, and where the run and its promise are then.
LEMMA StartActs ==
    ASSUME TypeOK, NEW p \in Processes, NEW v \in Videos, StartVideoAttempt(p, v)
    PROVE  LET n == count[v] + 1 IN
           /\ n \in Numbers /\ run[p][v].pc = "starting"
           /\ count' \in [Videos -> 0 .. MaxAttempts] /\ count'[v] = n
           /\ started' \in [Videos -> 0 .. MaxAttempts] /\ started'[v] = n
           /\ \A w \in Videos \ {v} : /\ count'[w] = count[w] /\ started'[w] = started[w]
                                      /\ attempt'[w] = attempt[w]
           /\ attempt' \in [Videos -> [Numbers -> {"none", "running"} \cup Terminal]]
           /\ \A m \in Numbers \ {n} :
                 /\ attempt'[v][m] # "running"
                 /\ attempt'[v][m] # "none" => attempt[v][m] # "none"
           /\ OnlyRun(p, v)
           /\ run'[p][v].pc = "racing" /\ run'[p][v].n = n /\ run'[p][v].conn = run[p][v].conn
           /\ MovesPromise(v, n, {"loading"})
<1> DEFINE n == count[v] + 1
           old == run[p][v]
           r == [old EXCEPT !.pc = "racing", !.n = n]
           begun == [pc |-> "loading", sig |-> old.sig, by |-> p]
<1>1. n \in Numbers /\ n \in 0 .. MaxAttempts /\ old.pc = "starting"
    BY QueueConstants DEF StartVideoAttempt, TypeOK, Numbers
<1>2. old \in RunState /\ run \in Runs /\ analysis \in Promises
    BY DEF TypeOK, Runs, Promises
<1>3. /\ r \in RunState /\ r.pc = "racing" /\ r.n = n /\ r.conn = old.conn
      /\ begun \in AnalysisState /\ begun.pc = "loading"
    <2> HIDE DEF n
    <2> QED BY <1>1, <1>2 DEF RunState, AnalysisState
<1>4. OnlyRun(p, v) /\ run'[p][v] = r
    <2>1. run' = [run EXCEPT ![p] = [run[p] EXCEPT ![v] = r]]
        BY <1>2 DEF StartVideoAttempt, Runs
    <2> HIDE DEF r
    <2> QED BY <1>2, <1>3, <2>1, OneRunActs
<1>5. MovesPromise(v, n, {"loading"})
    <2>1. analysis' = [analysis EXCEPT ![v] = [analysis[v] EXCEPT ![n] = begun]]
        BY <1>2 DEF StartVideoAttempt, Promises
    <2> HIDE DEF begun, n
    <2> QED BY <1>1, <1>2, <1>3, <2>1 DEF MovesPromise, Promises
<1>6. /\ count' \in [Videos -> 0 .. MaxAttempts] /\ count'[v] = n
      /\ \A w \in Videos \ {v} : count'[w] = count[w]
    <2>1. count' = [count EXCEPT ![v] = n] /\ count \in [Videos -> 0 .. MaxAttempts]
        BY DEF StartVideoAttempt, TypeOK
    <2> HIDE DEF n
    <2> QED BY <1>1, <2>1
<1>7. /\ started' \in [Videos -> 0 .. MaxAttempts] /\ started'[v] = n
      /\ \A w \in Videos \ {v} : started'[w] = started[w]
    BY <1>1, MarkerActs DEF StartVideoAttempt
<1>8. /\ attempt' \in [Videos -> [Numbers -> {"none", "running"} \cup Terminal]]
      /\ \A w \in Videos \ {v} : attempt'[w] = attempt[w]
      /\ \A m \in Numbers \ {n} : /\ attempt'[v][m] # "running"
                                  /\ attempt'[v][m] # "none" => attempt[v][m] # "none"
    <2> DEFINE a == OpenAttemptsFinished(v, "stopped")
    <2>1. /\ a \in [Videos -> [Numbers -> {"none", "running"} \cup Terminal]]
          /\ \A w \in Videos \ {v} : a[w] = attempt[w]
          /\ \A m \in Numbers :
                a[v][m] = IF attempt[v][m] = "running" THEN "stopped" ELSE attempt[v][m]
        BY OpenAttemptsActs DEF Terminal
    <2>2. attempt' = [a EXCEPT ![v] = [a[v] EXCEPT ![n] = "running"]]
        BY <2>1 DEF StartVideoAttempt
    <2> HIDE DEF a, n
    <2> QED BY <1>1, <2>1, <2>2
<1> HIDE DEF r
<1> QED BY <1>1, <1>3, <1>4, <1>5, <1>6, <1>7, <1>8

LEMMA StartKeeps ==
    ASSUME IInv, NEW p \in Processes, NEW v \in Videos, StartVideoAttempt(p, v)
    PROVE  IInv'
<1> DEFINE n == count[v] + 1
<1>1. TypeOK /\ Counted(v) /\ Accounted(v) /\ Numbered(v)
    BY TypesOfCounts DEF IInv, Typed
<1>2. /\ n \in Numbers /\ run[p][v].pc = "starting"
      /\ count' \in [Videos -> 0 .. MaxAttempts] /\ count'[v] = n
      /\ started' \in [Videos -> 0 .. MaxAttempts] /\ started'[v] = n
      /\ \A w \in Videos \ {v} : /\ count'[w] = count[w] /\ started'[w] = started[w]
                                 /\ attempt'[w] = attempt[w]
      /\ attempt' \in [Videos -> [Numbers -> {"none", "running"} \cup Terminal]]
      /\ \A m \in Numbers \ {n} : /\ attempt'[v][m] # "running"
                                  /\ attempt'[v][m] # "none" => attempt[v][m] # "none"
      /\ OnlyRun(p, v)
      /\ run'[p][v].pc = "racing" /\ run'[p][v].n = n /\ run'[p][v].conn = run[p][v].conn
      /\ MovesPromise(v, n, {"loading"})
    BY <1>1, StartActs
<1>3. UNCHANGED <<status, asked, disturbed, lockVars, memVars, callVars, budget>>
    BY DEF StartVideoAttempt
<1>4. n # 0 /\ n = count[v] + 1 /\ count[v] \in Nat
    BY <1>1 DEF Counted
<1> HIDE DEF n
<1>5. Typed' /\ LocksFollowLeases'
    <2>1. TypeOK'
        BY <1>1, <1>2, <1>3
        DEF TypeOK, OnlyRun, MovesPromise, Runs, Promises, lockVars, memVars, callVars
    <2>2. Placed(run'[p][v])
        BY <1>2, <1>4 DEF Placed
    <2> QED BY <1>2, <1>3, <2>1, <2>2, PlacedKept, LeasesKept DEF IInv
<1>6. ASSUME NEW w \in Videos, w # v PROVE Numbered(w)' /\ Accounted(w)'
    BY <1>2, <1>3, <1>6, UndisturbedKeeps DEF Undisturbed, OnlyRun, MovesPromise
<1>7. ASSUME NEW q \in Processes PROVE run[q][v].n \in Nat /\ run[q][v].n <= count[v]
    <2>1. run[q][v] \in RunState
        BY <1>1 DEF TypeOK
    <2> QED BY <1>1, <2>1, QueueConstants DEF Numbered, RunState
<1>8. Numbered(v)'
    <2>1. ASSUME NEW q \in Processes PROVE run'[q][v].n <= n
        <3>1. CASE q = p
            BY <1>2, <1>4, <3>1
        <3>2. CASE q # p
            BY <1>2, <1>4, <1>7, <3>2 DEF OnlyRun
        <3> QED BY <3>1, <3>2
    <2>2. ASSUME NEW m \in Numbers
          PROVE  /\ attempt'[v][m] # "none" => m <= n
                 /\ attempt'[v][m] = "running" => m = n
                 /\ analysis'[v][m].pc \in Published => n # m
        <3>1. CASE m = n
            BY <1>2, <1>4, <3>1 DEF MovesPromise, Published
        <3>2. CASE m # n
            BY <1>1, <1>2, <1>4, <3>2 DEF Numbered, Numbers
        <3> QED BY <3>1, <3>2
    <2> QED BY <1>2, <2>1, <2>2 DEF Numbered
<1>9. ASSUME NEW q \in Strays(v)' PROVE q \in Strays(v) \ {p}
    <2>1. q # p
        BY <1>2, <1>9 DEF Strays, Astray
    <2>2. run'[q][v] = run[q][v] /\ run[q][v].n # n
        BY <1>2, <1>4, <1>7, <1>9, <2>1 DEF OnlyRun, Strays
    <2> QED BY <1>2, <1>3, <1>9, <2>1, <2>2 DEF Strays, Astray
<1>10. Accounted(v)'
    <2>1. CASE run[p][v].conn = "up"
        <3>1. Due(v)
            BY <1>2, <2>1 DEF Due, Ready
        <3>2. ~Due(v)'
            <4>1. ASSUME NEW q \in Processes, Ready(run'[q][v], status'[v]) PROVE FALSE
                <5>1. q # p
                    BY <1>2, <4>1 DEF Ready
                <5>2. run[q][v].conn = "up"
                    BY <1>2, <4>1, <5>1 DEF Ready, OnlyRun
                <5>3. taskLock[v] = <<p, v>> /\ taskLock[v] = <<q, v>>
                    BY <2>1, <5>2 DEF IInv, LocksFollowLeases, Leased
                <5> QED BY <5>1, <5>3
            <4> QED BY <1>2, <1>4, <4>1 DEF Due
        <3> QED BY <1>1, <1>2, <1>3, <1>4, <1>9, <3>1, <3>2, AttemptClaims
    <2>2. CASE run[p][v].conn # "up"
        <3>1. p \in Strays(v)
            BY <1>2, <2>2 DEF Strays, Astray
        <3>2. Due(v)' => Due(v)
            <4>1. ASSUME NEW q \in Processes, Ready(run'[q][v], status'[v]) PROVE Due(v)
                <5>1. q # p
                    BY <1>2, <4>1 DEF Ready
                <5>2. run'[q][v] = run[q][v]
                    BY <1>2, <5>1 DEF OnlyRun
                <5> QED BY <1>3, <4>1, <5>2 DEF Due
            <4> QED BY <1>2, <1>4, <4>1 DEF Due
        <3> QED BY <1>1, <1>2, <1>3, <1>4, <1>9, <3>1, <3>2, AttemptClaims
    <2> QED BY <2>1, <2>2
<1> QED BY <1>5, <1>6, <1>8, <1>10 DEF IInv

-----------------------------------------------------------------------------
(* Statements that fail, and sessions that are cut.                        *)

\* The fault is counted for v, and for no other video.
Faulty(v) == /\ disturbed' \in [Videos -> Nat] /\ disturbed'[v] = disturbed[v] + 1
             /\ \A w \in Videos \ {v} : disturbed'[w] = disturbed[w]

LEMMA DisturbActs ==
    ASSUME TypeOK, NEW v \in Videos, NEW what \in {"cuts", "errors"}, Disturb(v, what)
    PROVE  budget' \in Bounded /\ Faulty(v)
<1>1. budget' \in Bounded
    BY SpendActs DEF Disturb, TypeOK
<1>2. disturbed \in [Videos -> Nat] /\ disturbed' = [disturbed EXCEPT ![v] = @ + 1]
    BY DEF Disturb, TypeOK
<1> QED BY <1>1, <1>2 DEF Faulty

LEMMA FaultKeeps ==
    ASSUME IInv, NEW p \in Processes, NEW v \in Videos, OnlyRun(p, v), Faulty(v), EndsOpen(v),
           \A w \in Videos \ {v} : attempt'[w] = attempt[w],
           UNCHANGED <<status, started, count, asked>>,
           run'[p][v].n = run[p][v].n, ~Ready(run'[p][v], status[v]),
           NonePublishes, Typed', LocksFollowLeases'
    PROVE  IInv'
<1>1. ASSUME NEW w \in Videos, w # v PROVE Numbered(w)' /\ Accounted(w)'
    BY <1>1, UndisturbedKeeps DEF Undisturbed, OnlyRun, NonePublishes, Faulty
<1>2. Numbered(v)'
    BY DEF IInv, Numbered, OnlyRun, NonePublishes, EndsOpen
<1>3. Accounted(v)'
    <2>1. Counted(v) /\ Accounted(v)
        BY TypesOfCounts DEF IInv, Typed
    <2>2. Due(v)' => Due(v)
        BY DueKept
    <2>3. Strays(v)' \subseteq Strays(v) \cup {p} /\ Counts(v, 0, 1)
        BY <2>1, StraysKept DEF Counts, Counted, Faulty
    <2> QED BY <2>1, <2>2, <2>3, FaultClaims
<1> QED BY <1>1, <1>2, <1>3 DEF IInv

LEMMA StatementFailsKeeps ==
    ASSUME IInv, NEW p \in Processes, NEW v \in Videos, StatementFails(p, v)
    PROVE  IInv'
<1> DEFINE seen == run[p][v].seen
<1>1. TypeOK /\ run \in Runs /\ run[p][v] \in RunState /\ Placed(run[p][v])
    BY DEF IInv, Typed, TypeOK, Runs
<1>2. budget' \in Bounded /\ Faulty(v)
    BY <1>1, DisturbActs DEF StatementFails
<1>3. \/ \E pc \in {"caught", "settling", "cleaning"} :
            UNCHANGED attempt /\ \E s \in {"none", seen} : Moves(p, v, pc, s)
      \/ UNCHANGED attempt /\ run[p][v].n # 0 /\ Moves(p, v, "finishing", "failed")
      \/ /\ run[p][v].pc = "finishing" /\ Moves(p, v, "releasing", seen)
         /\ attempt' = attempt \/ attempt' = OpenAttemptsFinished(v, seen)
    <2>1. "none" \in {"none"} \cup Terminal /\ "failed" \in {"none"} \cup Terminal
        BY DEF Terminal
    <2>2. {"caught", "settling", "cleaning", "finishing", "releasing"} \subseteq PCs
        BY DEF PCs
    <2> QED BY <1>1, <2>1, <2>2, GoToActs, GoToSeeingActs DEF StatementFails
<1>4. /\ attempt' \in [Videos -> [Numbers -> {"none", "running"} \cup Terminal]]
      /\ \A w \in Videos \ {v} : attempt'[w] = attempt[w]
      /\ EndsOpen(v)
    <2>1. CASE UNCHANGED attempt
        BY <1>1, <2>1 DEF TypeOK, EndsOpen
    <2>2. CASE run[p][v].pc = "finishing" /\ attempt' = OpenAttemptsFinished(v, seen)
        <3>1. seen \in Terminal /\ "running" \notin Terminal
            BY <1>1, <2>2 DEF Placed, RunState, Terminal
        <3> HIDE DEF seen
        <3> QED BY <1>1, <2>2, <3>1, OpenAttemptsActs DEF EndsOpen
    <2> QED BY <1>3, <2>1, <2>2
<1>5. UNCHANGED <<status, started, count, asked, lockVars, memVars, analysis, callVars>>
    BY DEF StatementFails
<1>6. /\ OnlyRun(p, v) /\ run'[p][v].n = run[p][v].n /\ run'[p][v].conn = run[p][v].conn
      /\ ~Ready(run'[p][v], status[v]) /\ Placed(run'[p][v])
    BY <1>1, <1>3 DEF Moves, Ready, Placed
<1>7. TypeOK'
    BY <1>1, <1>2, <1>4, <1>5, <1>6
    DEF TypeOK, OnlyRun, Runs, Faulty, lockVars, memVars, callVars
<1>8. Typed' /\ LocksFollowLeases'
    BY <1>5, <1>6, <1>7, PlacedKept, LeasesKept DEF IInv
<1> QED BY <1>2, <1>4, <1>5, <1>6, <1>8, FaultKeeps DEF NonePublishes

LEMMA AnalysisFailsKeeps ==
    ASSUME IInv, NEW v \in Videos, NEW n \in Numbers, AnalysisStatementFails(v, n)
    PROVE  IInv'
<1>1. TypeOK /\ analysis \in Promises /\ Counted(v) /\ Accounted(v)
    BY TypesOfCounts DEF IInv, Typed, TypeOK, Promises
<1>2. budget' \in Bounded /\ Faulty(v)
    BY <1>1, DisturbActs DEF AnalysisStatementFails
<1>3. \E pc \in {"failing", "rejected"} : MovesPromise(v, n, {pc})
    BY <1>1, PromiseGoes, AnalysisAtActs, AnalysisEndsActs DEF AnalysisStatementFails
<1>4. UNCHANGED <<status, started, count, attempt, asked, lockVars, memVars, run, callVars>>
    BY DEF AnalysisStatementFails
<1>5. TypeOK'
    BY <1>1, <1>2, <1>3, <1>4
    DEF TypeOK, MovesPromise, Promises, Faulty, lockVars, memVars, callVars
<1>6. Typed' /\ LocksFollowLeases'
    BY <1>4, <1>5 DEF IInv, Typed, LocksFollowLeases, Leased, lockVars
<1>7. NonePublishes
    BY <1>3 DEF NonePublishes, MovesPromise, Published
<1>8. ASSUME NEW w \in Videos, w # v PROVE Numbered(w)' /\ Accounted(w)'
    BY <1>2, <1>4, <1>7, <1>8, UndisturbedKeeps DEF Undisturbed, NonePublishes, Faulty
<1>9. Numbered(v)'
    BY <1>4, <1>7 DEF IInv, Numbered, NonePublishes
<1>10. Accounted(v)'
    <2>1. Strays(v)' = Strays(v) /\ Due(v)' = Due(v)
        BY <1>4 DEF Strays, Due
    <2>2. Counts(v, 0, 1)
        BY <1>1, <1>2, <1>4 DEF Counts, Counted, Faulty
    <2> QED BY <1>1, <2>1, <2>2, NoClaim
<1> QED BY <1>6, <1>8, <1>9, <1>10 DEF IInv

LEMMA UnlockedActs ==
    ASSUME NEW lock, NEW session
    PROVE  LET u == Unlocked(lock, session) IN
           /\ \A S, T : lock \in [S -> T \cup {None}] => u \in [S -> T \cup {None}]
           /\ \A x \in DOMAIN lock : u[x] = IF lock[x] = session THEN None ELSE lock[x]
BY DEF Unlocked

\* A session gives up its locks.
LEMMA LeaseReleased ==
    ASSUME TypeOK, LocksFollowLeases, NEW p \in Processes, NEW v \in Videos,
           ReleaseLocks(<<p, v>>),
           \A q \in Processes, w \in Videos :
               run'[q][w].conn = "up" <=> run[q][w].conn = "up" /\ (q # p \/ w # v)
    PROVE  /\ taskLock' \in [Videos -> (Processes \X Videos) \cup {None}]
           /\ slot' \in [Slots -> (Processes \X Videos) \cup {None}]
           /\ LocksFollowLeases'
<1>1. /\ taskLock' \in [Videos -> (Processes \X Videos) \cup {None}]
      /\ slot' \in [Slots -> (Processes \X Videos) \cup {None}]
    BY UnlockedActs DEF ReleaseLocks, TypeOK
<1>2. /\ \A w \in Videos : taskLock'[w] = IF taskLock[w] = <<p, v>> THEN None ELSE taskLock[w]
      /\ \A s \in Slots : slot'[s] = IF slot[s] = <<p, v>> THEN None ELSE slot[s]
    <2>1. DOMAIN taskLock = Videos /\ DOMAIN slot = Slots
        BY DEF TypeOK
    <2> QED BY <2>1, UnlockedActs DEF ReleaseLocks
<1>3. ASSUME NEW q \in Processes, NEW w \in Videos
      PROVE  /\ taskLock'[w] = <<q, w>> <=> taskLock[w] = <<q, w>> /\ (q # p \/ w # v)
             /\ \A s \in Slots : slot'[s] = <<q, w>> => slot[s] = <<q, w>> /\ (q # p \/ w # v)
    <2>1. None # <<q, w>>
        BY QueueConstants
    <2>2. <<q, w>> = <<p, v>> <=> q = p /\ w = v
        OBVIOUS
    <2> QED BY <1>2, <2>1, <2>2
<1>4. LocksFollowLeases'
    BY <1>3 DEF LocksFollowLeases, Leased
<1> QED BY <1>1, <1>4

LEMMA CutKeeps ==
    ASSUME IInv, NEW p \in Processes, NEW v \in Videos, CutSession(p, v)
    PROVE  IInv'
<1> DEFINE old == run[p][v]
           r == [old EXCEPT !.conn = "cut"]
<1>1. TypeOK /\ run \in Runs /\ old \in RunState /\ Placed(old) /\ old.conn = "up"
    BY DEF IInv, Typed, TypeOK, Runs, CutSession
<1>2. budget' \in Bounded /\ Faulty(v)
    BY <1>1, DisturbActs DEF CutSession
<1>3. r \in RunState /\ r.pc = old.pc /\ r.n = old.n /\ r.seen = old.seen /\ r.conn = "cut"
    BY <1>1 DEF RunState
<1>4. OnlyRun(p, v) /\ run'[p][v] = r
    <2>1. run' = [run EXCEPT ![p] = [run[p] EXCEPT ![v] = r]]
        BY <1>1 DEF CutSession, Runs
    <2> HIDE DEF r
    <2> QED BY <1>1, <1>3, <2>1, OneRunActs
<1> HIDE DEF r
<1>5. /\ taskLock' \in [Videos -> (Processes \X Videos) \cup {None}]
      /\ slot' \in [Slots -> (Processes \X Videos) \cup {None}]
      /\ LocksFollowLeases'
    BY <1>1, <1>3, <1>4, LeaseReleased DEF CutSession, IInv, OnlyRun
<1>6. UNCHANGED <<status, started, count, attempt, asked, memVars, analysis, callVars>>
    BY DEF CutSession
<1>7. TypeOK'
    BY <1>1, <1>2, <1>4, <1>5, <1>6
    DEF TypeOK, OnlyRun, Runs, Faulty, memVars, callVars
<1>8. Placed(r) /\ ~Ready(r, status[v])
    BY <1>1, <1>3 DEF Placed, Ready
<1>9. Typed'
    BY <1>4, <1>7, <1>8, PlacedKept DEF IInv
<1> QED BY <1>2, <1>3, <1>4, <1>5, <1>6, <1>8, <1>9, FaultKeeps DEF EndsOpen, NonePublishes

-----------------------------------------------------------------------------
(* Runs that begin and end.                                                *)

\* A run of w stays, or it is over, or a new one tries to acquire the video.
BeginOrEnd ==
    \A q \in Processes, w \in Videos :
        run'[q][w] = run[q][w] \/ run'[q][w] \in {NoRun, [NoRun EXCEPT !.pc = "acquiring"]}

LEMMA NewRuns ==
    ASSUME NEW r \in {NoRun, [NoRun EXCEPT !.pc = "acquiring"]}
    PROVE  /\ r.pc \in {"off", "acquiring"} /\ r.conn = "none" /\ r.n = 0
           /\ Placed(r) /\ \A s, m : ~Astray(r, s, m) /\ ~Ready(r, s)
<1>1. r.pc \in {"off", "acquiring"} /\ r.conn = "none" /\ r.n = 0
    BY DEF NoRun
<1> QED BY <1>1 DEF Placed, Astray, Ready

LEMMA BeginOrEndKeeps ==
    ASSUME IInv, BeginOrEnd, UNCHANGED <<status, started, count, attempt, asked>>,
           \A w \in Videos : disturbed'[w] \in {disturbed[w], disturbed[w] + 1},
           NonePublishes, TypeOK', LocksFollowLeases'
    PROVE  IInv'
<1>1. Typed'
    <2>1. ASSUME NEW q \in Processes, NEW w \in Videos PROVE Placed(run'[q][w])
        BY NewRuns DEF BeginOrEnd, IInv, Typed
    <2> QED BY <2>1 DEF Typed
<1>2. ASSUME NEW w \in Videos PROVE Numbered(w)' /\ Accounted(w)'
    <2>1. Counted(w) /\ Accounted(w) /\ Numbered(w)
        BY TypesOfCounts DEF IInv, Typed
    <2>2. ASSUME NEW q \in Processes PROVE run'[q][w].n <= count[w]
        <3>1. run'[q][w].n \in {run[q][w].n, 0}
            BY NewRuns DEF BeginOrEnd
        <3> QED BY <2>1, <3>1 DEF Numbered, Counted
    <2>3. Numbered(w)'
        BY <2>1, <2>2 DEF Numbered, NonePublishes
    <2>4. Strays(w)' \subseteq Strays(w)
        BY NewRuns DEF BeginOrEnd, Strays
    <2>5. Due(w)' => Due(w)
        BY NewRuns DEF BeginOrEnd, Due
    <2>6. \E fault \in {0, 1} : Counts(w, 0, fault)
        BY <2>1 DEF Counts, Counted
    <2>7. Accounted(w)'
        BY <2>1, <2>4, <2>5, <2>6, NoClaim
    <2> QED BY <2>3, <2>7
<1> QED BY <1>1, <1>2 DEF IInv

\* When the run of v ends without a lease, or none ends, the locks stay.
LEMMA StartsKeeps ==
    ASSUME IInv, NEW p \in Processes, NEW runs \in [Videos -> RunState], Starts(p, runs),
           \A w \in Videos : runs[w] = run[p][w] \/ (runs[w] = NoRun /\ run[p][w].conn = "none"),
           UNCHANGED <<status, started, count, attempt, asked, lockVars, analysis>>,
           \A w \in Videos : disturbed'[w] \in {disturbed[w], disturbed[w] + 1}, TypeOK'
    PROVE  IInv'
<1>1. BeginOrEnd
    BY DEF BeginOrEnd, Starts
<1>2. ASSUME NEW q \in Processes, NEW w \in Videos
      PROVE  run'[q][w].conn = "up" <=> run[q][w].conn = "up"
    <2>1. CASE q # p
        BY <2>1 DEF Starts
    <2>2. CASE q = p /\ run'[p][w] = runs[w]
        BY <2>2, NewRuns
    <2>3. CASE q = p /\ runs[w].pc = "off" /\ run'[p][w] = [NoRun EXCEPT !.pc = "acquiring"]
        BY <2>3, NewRuns DEF IInv, Typed, Placed
    <2> QED BY <2>1, <2>2, <2>3 DEF Starts
<1>3. LocksFollowLeases'
    BY <1>2 DEF IInv, LocksFollowLeases, Leased, lockVars
<1> QED BY <1>1, <1>3, BeginOrEndKeeps DEF NonePublishes

LEMMA AddKeeps ==
    ASSUME IInv, NEW c \in adding, AddToQueue(c)
    PROVE  IInv'
<1>1. TypeOK /\ run \in Runs /\ c \in Calls /\ c.proc \in Processes /\ c.video \in Videos
    BY DEF IInv, Typed, TypeOK, Runs, Calls
<1>2. queue' \in [Processes -> SUBSET Videos] /\ Starts(c.proc, run[c.proc])
    <2>1. Schedule(c.proc, queue[c.proc] \cup {c.video}, run[c.proc])
        BY DEF AddToQueue
    <2>2. queue[c.proc] \cup {c.video} \in SUBSET Videos
        BY <1>1 DEF TypeOK
    <2> QED BY <1>1, <2>1, <2>2, ScheduleActs DEF TypeOK, Runs
<1>3. TypeOK'
    BY <1>1, <1>2 DEF AddToQueue, TypeOK, Starts, Runs, rowVars, lockVars
<1> QED BY <1>1, <1>2, <1>3, StartsKeeps DEF AddToQueue, Runs, rowVars

LEMMA ResumeKeeps ==
    ASSUME IInv, NEW p \in Processes, ResumePendingVideos(p)
    PROVE  IInv'
<1> DEFINE pending == PendingVideos(fresh[p]) \cup deferred[p]
<1>1. TypeOK /\ run \in Runs /\ pending \subseteq Videos
    BY DEF IInv, Typed, TypeOK, Runs, PendingVideos
<1>2. queue' \in [Processes -> SUBSET Videos] /\ Starts(p, run[p])
    <2>1. Schedule(p, queue[p] \cup (pending \ Active(run[p])), run[p])
        BY DEF ResumePendingVideos
    <2>2. queue[p] \cup (pending \ Active(run[p])) \in SUBSET Videos
        BY <1>1 DEF TypeOK
    <2> HIDE DEF pending
    <2> QED BY <1>1, <2>1, <2>2, ScheduleActs DEF TypeOK, Runs
<1>3. TypeOK'
    BY <1>1, <1>2 DEF ResumePendingVideos, TypeOK, Starts, Runs, rowVars, lockVars, callVars
<1> QED BY <1>1, <1>2, <1>3, StartsKeeps DEF ResumePendingVideos, Runs, rowVars

\* The run ends and the video is deferred.
LEMMA DeferActs ==
    ASSUME IInv, NEW p \in Processes, NEW v \in Videos, run[p][v].pc = "acquiring", Defer(p, v)
    PROVE  /\ queue' \in [Processes -> SUBSET Videos]
           /\ deferred' \in [Processes -> SUBSET Videos]
           /\ \E runs \in [Videos -> RunState] :
                 /\ Starts(p, runs)
                 /\ \A w \in Videos :
                       runs[w] = run[p][w] \/ (runs[w] = NoRun /\ run[p][w].conn = "none")
<1>1. TypeOK /\ run \in Runs /\ run[p][v].conn = "none"
    BY DEF IInv, Typed, TypeOK, Runs, Placed
<1>2. queue' \in [Processes -> SUBSET Videos] /\ Starts(p, [run[p] EXCEPT ![v] = NoRun])
    BY <1>1, RunEndsActs DEF Defer, TypeOK
<1>3. deferred' \in [Processes -> SUBSET Videos]
    BY <1>1 DEF Defer, TypeOK
<1>4. /\ [run[p] EXCEPT ![v] = NoRun] \in [Videos -> RunState]
      /\ \A w \in Videos : LET r == [run[p] EXCEPT ![v] = NoRun][w] IN
             r = run[p][w] \/ (r = NoRun /\ run[p][w].conn = "none")
    BY <1>1, NoRunType DEF Runs
<1> QED BY <1>2, <1>3, <1>4

LEMMA AcquireFailsKeeps ==
    ASSUME IInv, NEW p \in Processes, NEW v \in Videos, AcquireFails(p, v)
    PROVE  IInv'
<1>1. TypeOK /\ run \in Runs
    BY DEF IInv, Typed, TypeOK, Runs
<1>2. budget' \in Bounded /\ Faulty(v)
    BY <1>1, DisturbActs DEF AcquireFails
<1>3. /\ queue' \in [Processes -> SUBSET Videos] /\ deferred' \in [Processes -> SUBSET Videos]
      /\ run' \in Runs
    BY DeferActs DEF AcquireFails, Starts
<1>4. TypeOK'
    BY <1>1, <1>2, <1>3 DEF AcquireFails, TypeOK, Runs, Faulty, lockVars, callVars
<1>5. \A w \in Videos : disturbed'[w] \in {disturbed[w], disturbed[w] + 1}
    BY <1>2 DEF Faulty
<1> QED BY <1>4, <1>5, DeferActs, StartsKeeps DEF AcquireFails

\* The session gets the task lock, and a slot for a video to be executed.
LEMMA LeaseTaken ==
    ASSUME TypeOK, LocksFollowLeases, NEW p \in Processes, NEW v \in Videos,
           taskLock[v] = None, taskLock' = [taskLock EXCEPT ![v] = <<p, v>>],
           slot' = slot \/ \E s \in FreeSlots : slot' = [slot EXCEPT ![s] = <<p, v>>],
           OnlyRun(p, v), run'[p][v].conn = "up"
    PROVE  /\ taskLock' \in [Videos -> (Processes \X Videos) \cup {None}]
           /\ slot' \in [Slots -> (Processes \X Videos) \cup {None}]
           /\ LocksFollowLeases'
<1>1. /\ taskLock \in [Videos -> (Processes \X Videos) \cup {None}]
      /\ slot \in [Slots -> (Processes \X Videos) \cup {None}]
      /\ <<p, v>> \in Processes \X Videos
    BY DEF TypeOK
<1>2. /\ taskLock' \in [Videos -> (Processes \X Videos) \cup {None}]
      /\ slot' \in [Slots -> (Processes \X Videos) \cup {None}]
    BY <1>1
<1>3. ASSUME NEW q \in Processes, NEW w \in Videos PROVE Leased(q, w)' <=> taskLock'[w] = <<q, w>>
    <2>1. taskLock'[v] = <<p, v>> /\ (w # v => taskLock'[w] = taskLock[w])
        BY <1>1
    <2>2. CASE q = p /\ w = v
        BY <2>1, <2>2 DEF Leased
    <2>3. CASE q # p /\ w = v
        <3>1. None # <<q, w>> /\ <<p, v>> # <<q, w>>
            BY <2>3, QueueConstants
        <3>2. run'[q][w] = run[q][w]
            BY <2>3 DEF OnlyRun
        <3> QED BY <2>1, <2>3, <3>1, <3>2 DEF LocksFollowLeases, Leased
    <2>4. CASE w # v
        BY <2>1, <2>4 DEF LocksFollowLeases, Leased, OnlyRun
    <2> QED BY <2>2, <2>3, <2>4
<1>4. ASSUME NEW s \in Slots, NEW q \in Processes, NEW w \in Videos, slot'[s] = <<q, w>>
      PROVE  Leased(q, w)'
    <2>1. slot[s] = <<q, w>> \/ (q = p /\ w = v)
        BY <1>1, <1>4
    <2> QED BY <2>1 DEF LocksFollowLeases, Leased, OnlyRun
<1> QED BY <1>2, <1>3, <1>4 DEF LocksFollowLeases

LEMMA AcquireKeeps ==
    ASSUME IInv, NEW p \in Processes, NEW v \in Videos, Acquire(p, v)
    PROVE  IInv'
<1> DEFINE old == run[p][v]
           r == [old EXCEPT !.pc = "leased", !.conn = "up"]
<1>1. TypeOK /\ run \in Runs /\ old \in RunState /\ Counted(v) /\ Accounted(v)
    BY TypesOfCounts DEF IInv, Typed, TypeOK, Runs
<1>2. UNCHANGED <<rowVars, fresh, analysis, callVars, budget>> /\ run[p][v].pc = "acquiring"
    BY DEF Acquire
<1>3. CASE Defer(p, v) /\ UNCHANGED lockVars
    <2>1. /\ queue' \in [Processes -> SUBSET Videos] /\ deferred' \in [Processes -> SUBSET Videos]
          /\ run' \in Runs
        BY <1>2, <1>3, DeferActs DEF Starts
    <2>2. TypeOK'
        BY <1>1, <1>2, <1>3, <2>1 DEF TypeOK, Runs, rowVars, lockVars, callVars
    <2> QED BY <1>2, <1>3, <2>2, DeferActs, StartsKeeps DEF rowVars
<1>4. CASE /\ taskLock[v] = None /\ taskLock' = [taskLock EXCEPT ![v] = <<p, v>>]
           /\ slot' = slot \/ \E s \in FreeSlots : slot' = [slot EXCEPT ![s] = <<p, v>>]
           /\ run' = [run EXCEPT ![p][v].pc = "leased", ![p][v].conn = "up"]
           /\ UNCHANGED <<queue, deferred>>
    <2>1. r \in RunState /\ r.pc = "leased" /\ r.conn = "up" /\ r.n = old.n
        BY <1>1 DEF RunState
    <2>2. OnlyRun(p, v) /\ run'[p][v] = r
        <3>1. run' = [run EXCEPT ![p] = [run[p] EXCEPT ![v] = r]]
            BY <1>1, <1>4 DEF Runs
        <3> HIDE DEF r
        <3> QED BY <1>1, <2>1, <3>1, OneRunActs
    <2> HIDE DEF r
    <2>3. /\ taskLock' \in [Videos -> (Processes \X Videos) \cup {None}]
          /\ slot' \in [Slots -> (Processes \X Videos) \cup {None}]
          /\ LocksFollowLeases'
        BY <1>1, <1>4, <2>1, <2>2, LeaseTaken DEF IInv
    <2>4. TypeOK'
        BY <1>1, <1>2, <1>4, <2>2, <2>3 DEF TypeOK, OnlyRun, Runs, rowVars, callVars
    <2>5. Typed'
        BY <2>1, <2>2, <2>4, PlacedKept DEF IInv, Placed
    <2>6. ASSUME NEW w \in Videos, w # v PROVE Numbered(w)' /\ Accounted(w)'
        BY <1>2, <2>2, <2>6, UndisturbedKeeps DEF Undisturbed, OnlyRun, rowVars
    <2>7. Numbered(v)'
        BY <1>2, <2>1, <2>2 DEF IInv, Numbered, OnlyRun, rowVars
    <2>8. Due(v)' => Due(v)
        BY <1>2, <2>1, <2>2, DueKept DEF Ready, rowVars
    <2>9. Strays(v)' \subseteq Strays(v)
        BY <1>2, <2>1, <2>2, StraysKept DEF Astray, rowVars
    <2>10. Counts(v, 0, 0)
        BY <1>1, <1>2 DEF Counts, Counted, rowVars
    <2>11. Accounted(v)'
        BY <1>1, <2>8, <2>9, <2>10, NoClaim
    <2> QED BY <2>3, <2>5, <2>6, <2>7, <2>11 DEF IInv
<1> QED BY <1>3, <1>4 DEF Acquire

LEMMA ReleaseKeeps ==
    ASSUME IInv, NEW p \in Processes, NEW v \in Videos, Release(p, v)
    PROVE  IInv'
<1> DEFINE runs == [run[p] EXCEPT ![v] = NoRun]
<1>1. TypeOK /\ run \in Runs /\ analysis \in Promises
    BY DEF IInv, Typed, TypeOK, Runs, Promises
<1>2. queue' \in [Processes -> SUBSET Videos] /\ Starts(p, runs)
    BY <1>1, RunEndsActs DEF Release, TypeOK
<1>3. \A w \in Videos : runs[w] = IF w = v THEN NoRun ELSE run[p][w]
    BY <1>1 DEF Runs
<1> HIDE DEF runs
<1>4. BeginOrEnd
    BY <1>2, <1>3 DEF BeginOrEnd, Starts
<1>5. ASSUME NEW q \in Processes, NEW w \in Videos
      PROVE  run'[q][w].conn = "up" <=> run[q][w].conn = "up" /\ (q # p \/ w # v)
    <2>1. CASE q # p
        BY <1>2, <2>1 DEF Starts
    <2>2. CASE q = p /\ run'[p][w] = runs[w]
        BY <1>3, <2>2, NewRuns
    <2>3. CASE q = p /\ runs[w].pc = "off" /\ run'[p][w] = [NoRun EXCEPT !.pc = "acquiring"]
        BY <1>3, <2>3, NewRuns DEF IInv, Typed, Placed
    <2> QED BY <1>2, <2>1, <2>2, <2>3 DEF Starts
<1>6. /\ taskLock' \in [Videos -> (Processes \X Videos) \cup {None}]
      /\ slot' \in [Slots -> (Processes \X Videos) \cup {None}]
      /\ LocksFollowLeases'
    BY <1>1, <1>5, LeaseReleased DEF Release, IInv
<1>7. analysis' \in Promises /\ NonePublishes
    <2>1. NoAnalysis \in AnalysisState /\ NoAnalysis.pc \notin Published
        BY DEF NoAnalysis, AnalysisState, Published
    <2>2. ASSUME NEW w \in Videos, NEW m \in Numbers
          PROVE  analysis'[w][m] \in {analysis[w][m], NoAnalysis}
        BY <1>1 DEF Release, Promises
    <2>3. analysis' \in [Videos -> [Numbers -> {a \in AnalysisState : TRUE}]]
        BY <1>1, <2>1 DEF Release, Promises
    <2> QED BY <2>1, <2>2, <2>3 DEF NonePublishes, Promises
<1>8. TypeOK'
    BY <1>1, <1>2, <1>6, <1>7 DEF Release, TypeOK, Starts, Runs, Promises, rowVars, callVars
<1> QED BY <1>4, <1>6, <1>7, <1>8, BeginOrEndKeeps DEF Release, rowVars

LEMMA CrashKeeps ==
    ASSUME IInv, NEW p \in Processes, Crash(p)
    PROVE  IInv'
<1> DEFINE mine == {p} \X Videos
<1>1. TypeOK /\ run \in Runs /\ analysis \in Promises
    BY DEF IInv, Typed, TypeOK, Runs, Promises
<1>2. budget' \in Bounded /\ UNCHANGED rowVars
    BY <1>1, SpendActs DEF Crash, TypeOK
<1>3. run' \in Runs /\ \A q \in Processes : run'[q] = IF q = p THEN [v \in Videos |-> NoRun] ELSE run[q]
    BY <1>1, NoRunType DEF Crash, Runs
<1>4. BeginOrEnd
    BY <1>3 DEF BeginOrEnd
<1>5. /\ \A w \in Videos : taskLock'[w] = IF taskLock[w] \in mine THEN None ELSE taskLock[w]
      /\ \A s \in Slots : slot'[s] = IF slot[s] \in mine THEN None ELSE slot[s]
      /\ taskLock' \in [Videos -> (Processes \X Videos) \cup {None}]
      /\ slot' \in [Slots -> (Processes \X Videos) \cup {None}]
    BY <1>1 DEF Crash, TypeOK
<1>6. LocksFollowLeases'
    <2>1. ASSUME NEW q \in Processes, NEW w \in Videos
          PROVE  /\ None # <<q, w>>
                 /\ <<q, w>> \in mine <=> q = p
                 /\ run'[q][w].conn = "up" <=> run[q][w].conn = "up" /\ q # p
        <3>1. None # <<q, w>> /\ (<<q, w>> \in mine <=> q = p)
            BY QueueConstants
        <3>2. NoRun.conn # "up"
            BY DEF NoRun
        <3> QED BY <1>3, <3>1, <3>2
    <2>2. ASSUME NEW q \in Processes, NEW w \in Videos
          PROVE  /\ taskLock'[w] = <<q, w>> <=> taskLock[w] = <<q, w>> /\ q # p
                 /\ \A s \in Slots : slot'[s] = <<q, w>> => slot[s] = <<q, w>> /\ q # p
        <3> HIDE DEF mine
        <3> QED BY <1>5, <2>1
    <2>3. LocksFollowLeases
        BY DEF IInv
    <2> HIDE DEF mine
    <2> QED BY <2>1, <2>2, <2>3 DEF LocksFollowLeases, Leased
<1>7. analysis' \in Promises /\ NonePublishes
    <2>1. NoAnalysis \in AnalysisState /\ NoAnalysis.pc \notin Published
        BY DEF NoAnalysis, AnalysisState, Published
    <2>2. ASSUME NEW w \in Videos, NEW m \in Numbers
          PROVE  analysis'[w][m] \in {analysis[w][m], NoAnalysis}
        BY <1>1 DEF Crash, Promises
    <2>3. analysis' \in [Videos -> [Numbers -> AnalysisState]]
        BY <1>1, <2>1 DEF Crash, Promises
    <2> QED BY <2>1, <2>2, <2>3 DEF NonePublishes, Promises
<1>8. TypeOK'
    <2>1. /\ queue' \in [Processes -> SUBSET Videos] /\ deferred' \in [Processes -> SUBSET Videos]
          /\ fresh' \in [Processes -> BOOLEAN]
          /\ adding' \in SUBSET Calls /\ stopping' \in SUBSET (Processes \X Videos)
        BY <1>1 DEF Crash, TypeOK
    <2> QED BY <1>1, <1>2, <1>3, <1>5, <1>7, <2>1 DEF TypeOK, Runs, Promises, rowVars
<1> QED BY <1>2, <1>4, <1>6, <1>7, <1>8, BeginOrEndKeeps DEF rowVars

-----------------------------------------------------------------------------
(* Requests of users.                                                      *)

LEMMA StopKeeps ==
    ASSUME IInv, NEW p \in Processes, NEW v \in Videos, StopVideo(p, v)
    PROVE  IInv'
<1>1. TypeOK /\ budget' \in Bounded
    BY SpendActs DEF IInv, Typed, TypeOK, StopVideo
<1>2. /\ queue' \in [Processes -> SUBSET Videos] /\ deferred' \in [Processes -> SUBSET Videos]
      /\ stopping' \in SUBSET (Processes \X Videos)
    BY <1>1 DEF StopVideo, TypeOK
<1>3. UNCHANGED <<rowVars, lockVars, fresh, adding>>
    BY DEF StopVideo
<1>4. run' \in Runs /\ analysis' \in Promises => TypeOK'
    BY <1>1, <1>2, <1>3 DEF TypeOK, Runs, Promises, rowVars, lockVars
<1>5. CASE UNCHANGED <<run, analysis>>
    <2>1. TypeOK'
        BY <1>1, <1>4, <1>5 DEF TypeOK, Runs, Promises
    <2> QED BY <1>3, <1>5, <2>1, AsideKeeps DEF NonePublishes
<1>6. CASE Abort(p, v, "stop")
    BY <1>3, <1>4, <1>6, AbortKeeps
<1> QED BY <1>5, <1>6 DEF StopVideo

LEMMA PrepareKeeps ==
    ASSUME IInv, NEW c \in adding, PrepareVideoForQueue(c)
    PROVE  IInv'
<1> DEFINE v == c.video
           allowed == started[v] = 0 /\ (status[v] = "queued" \/ (c.restart /\ status[v] \in Terminal))
<1>1. TypeOK /\ c \in Calls /\ v \in Videos /\ [c EXCEPT !.ready = TRUE] \in Calls
    BY DEF IInv, Typed, TypeOK, Calls
<1>2. UNCHANGED <<started, count, attempt, disturbed, lockVars, memVars, run, analysis, stopping, budget>>
    BY DEF PrepareVideoForQueue
<1>3. adding' \in SUBSET Calls
    BY <1>1 DEF PrepareVideoForQueue, TypeOK
<1>4. /\ status \in [Videos -> {"queued", "downloading"} \cup Terminal]
      /\ asked \in [Videos -> Nat]
    BY <1>1 DEF TypeOK
<1>5. /\ status' = IF allowed THEN [status EXCEPT ![v] = "queued"] ELSE status
      /\ asked' = IF allowed /\ status[v] # "queued" THEN [asked EXCEPT ![v] = @ + 1] ELSE asked
    BY DEF PrepareVideoForQueue
<1>6. allowed => started[v] = 0
    OBVIOUS
<1> HIDE DEF v, allowed
<1>7. TypeOK'
    BY <1>1, <1>2, <1>3, <1>4, <1>5 DEF TypeOK, lockVars, memVars
<1>8. CASE ~allowed \/ status[v] = "queued"
    <2>1. UNCHANGED <<status, asked>>
        BY <1>4, <1>5, <1>8
    <2> QED BY <1>2, <1>7, <2>1, AsideKeeps DEF NonePublishes, rowVars
<1>9. CASE allowed /\ status[v] # "queued"
    <2>1. /\ status'[v] = "queued" /\ asked'[v] = asked[v] + 1 /\ started[v] = 0
          /\ \A w \in Videos \ {v} : status'[w] = status[w] /\ asked'[w] = asked[w]
        BY <1>1, <1>4, <1>5, <1>6, <1>9
    <2>2. Typed' /\ LocksFollowLeases'
        BY <1>2, <1>7 DEF IInv, Typed, LocksFollowLeases, Leased, lockVars
    <2>3. ASSUME NEW w \in Videos, w # v PROVE Numbered(w)' /\ Accounted(w)'
        BY <1>2, <2>1, <2>3, UndisturbedKeeps DEF Undisturbed
    <2>4. Numbered(v)'
        BY <1>1, <1>2 DEF IInv, Numbered
    <2>5. Accounted(v)'
        <3>1. Counted(v) /\ Accounted(v)
            BY <1>1, TypesOfCounts DEF IInv
        <3>2. Strays(v)' \subseteq Strays(v)
            BY <1>2, <2>1 DEF Strays, Astray
        <3>3. Counts(v, 1, 0)
            BY <1>2, <2>1, <3>1 DEF Counts, Counted
        <3> QED BY <1>1, <3>1, <3>2, <3>3, RequestClaims
    <2> QED BY <2>2, <2>3, <2>4, <2>5 DEF IInv
<1> QED BY <1>8, <1>9

-----------------------------------------------------------------------------
(* Every step keeps the invariant.                                         *)

LEMMA InitIInv ==
    ASSUME Init
    PROVE  IInv
<1>1. TypeOK
    <2>1. budget \in Bounded
        BY QueueConstants DEF Init
    <2>2. NoAnalysis \in AnalysisState
        BY DEF NoAnalysis, AnalysisState
    <2>3. /\ status \in [Videos -> {"queued", "downloading"} \cup Terminal]
          /\ attempt \in [Videos -> [Numbers -> {"none", "running"} \cup Terminal]]
        BY DEF Init, Terminal
    <2> QED BY <2>1, <2>2, <2>3, NoRunType, NoAttempt DEF Init, TypeOK
<1>2. \A p \in Processes, v \in Videos : run[p][v] = NoRun
    BY DEF Init
<1>3. Typed
    BY <1>1, <1>2, NewRuns DEF Typed
<1>4. LocksFollowLeases
    <2>1. \A p \in Processes, v \in Videos : ~Leased(p, v)
        BY <1>2, NewRuns DEF Leased
    <2>2. \A p \in Processes, v \in Videos : None # <<p, v>>
        BY QueueConstants
    <2> QED BY <2>1, <2>2 DEF Init, LocksFollowLeases
<1>5. ASSUME NEW v \in Videos PROVE Numbered(v) /\ Accounted(v)
    <2>1. Numbered(v)
        <3>1. NoAnalysis.pc \notin Published
            BY DEF NoAnalysis, Published
        <3> QED BY <1>2, <3>1, NewRuns DEF Init, Numbered
    <2>2. Strays(v) = {}
        BY <1>2, NewRuns DEF Strays
    <2>3. IsFiniteSet(Strays(v)) /\ Cardinality(Strays(v)) = 0
        BY <2>2, FS_EmptySet
    <2>4. count[v] = 0 /\ asked[v] = 1 /\ disturbed[v] = 0
        BY DEF Init
    <2> QED BY <2>1, <2>3, <2>4 DEF Accounted
<1> QED BY <1>3, <1>4, <1>5 DEF IInv

LEMMA NextIInv ==
    ASSUME IInv, [Next]_vars
    PROVE  IInv'
<1>1. ASSUME NEW p \in Processes, ResumePendingVideos(p) \/ Crash(p) PROVE IInv'
    BY <1>1, ResumeKeeps, CrashKeeps
<1>2. ASSUME NEW p \in Processes, NEW v \in Videos, NEW restart \in BOOLEAN,
             EnqueueVideo(p, v, restart) \/ StopVideo(p, v)
      PROVE  IInv'
    BY <1>2, EnqueueKeeps, StopKeeps
<1>3. ASSUME NEW p \in Processes, NEW v \in Videos, RunStep(p, v) PROVE IInv'
    BY <1>3, AcquireKeeps, InspectKeeps, CloseAttemptsKeeps, ClearMarkerKeeps, StopOrphanKeeps,
       CloseOrphanKeeps, StartKeeps, CatchKeeps, PublishKeeps, ReadOutcomeKeeps, FinishKeeps,
       ReleaseKeeps
    DEF RunStep
<1>4. ASSUME NEW p \in Processes, NEW v \in Videos,
             \/ Timeout(p, v) \/ HeartbeatSeesStop(p, v) \/ NoticeLoss(p, v)
             \/ CutSession(p, v) \/ StatementFails(p, v) \/ AcquireFails(p, v)
      PROVE  IInv'
    BY <1>4, TimeoutKeeps, NoticeLossKeeps, CutKeeps, StatementFailsKeeps, AcquireFailsKeeps
<1>5. ASSUME NEW c \in adding, PrepareVideoForQueue(c) \/ AddToQueue(c) PROVE IInv'
    BY <1>5, PrepareKeeps, AddKeeps
<1>6. ASSUME NEW c \in stopping, WriteStopped(c) PROVE IInv'
    BY <1>6, WriteStoppedKeeps
<1>7. ASSUME NEW v \in Videos, NEW n \in Numbers, AnalysisStep(v, n) \/ AnalysisStatementFails(v, n)
      PROVE  IInv'
    BY <1>7, ThinkKeeps, StageKeeps, CompleteKeeps, WriteFailedKeeps, AnalysisFailsKeeps
    DEF AnalysisStep, Thinks
<1>8. CASE UNCHANGED vars
    <2>1. TypeOK'
        BY <1>8 DEF IInv, Typed, TypeOK, vars, rowVars, lockVars, memVars, callVars
    <2> QED BY <1>8, <2>1, AsideKeeps DEF vars, NonePublishes
<1> QED BY <1>1, <1>2, <1>3, <1>4, <1>5, <1>6, <1>7, <1>8 DEF Next

\* The rows, the locks, the runs and the promises keep to the invariant, whatever processes
\* and administrators do and whatever fails (queue.ts 33-256, video-execution.ts 16-93).
THEOREM Invariant == Spec => []IInv
BY InitIInv, NextIInv, PTL DEF Spec

\* Every row, lock, queue, run and promise keeps to the values the code can give it.
THEOREM TypeCorrect == Spec => []TypeOK
<1>1. IInv => TypeOK
    BY DEF IInv, Typed
<1> QED BY <1>1, Invariant, PTL

\* The locks of the database are at all times those of the leases whose session is up: no
\* return, error, timeout, crash or cut session leaks one (video-execution.ts 16-93).
THEOREM LeasesFollow == Spec => []LocksFollowLeases
<1>1. IInv => LocksFollowLeases
    BY DEF IInv
<1> QED BY <1>1, Invariant, PTL

\* Where two processes execute one video, the session of one of them is gone: crashes,
\* recoveries, timeouts and retries alone never bring it about (video-execution.ts 40-61).
THEOREM OneExecutor ==
    Spec => [](\A p, q \in Processes, v \in Videos :
                  Executing(p, v) /\ Executing(q, v) /\ p # q => ~Leased(p, v) \/ ~Leased(q, v))
<1>1. ASSUME LocksFollowLeases, NEW p \in Processes, NEW q \in Processes, NEW v \in Videos,
             Leased(p, v), Leased(q, v)
      PROVE  p = q
    <2>1. taskLock[v] = <<p, v>> /\ taskLock[v] = <<q, v>>
        BY <1>1 DEF LocksFollowLeases, Leased
    <2> QED BY <2>1
<1>2. LocksFollowLeases =>
          \A p, q \in Processes, v \in Videos :
              Executing(p, v) /\ Executing(q, v) /\ p # q => ~Leased(p, v) \/ ~Leased(q, v)
    BY <1>1
<1> QED BY <1>2, LeasesFollow, PTL

\* Attempts are asked for, or explained by a fault: timers, wake-ups and crashes start none,
\* with any number of processes; the marker of a row and its open attempt are those of the
\* latest attempt (queue.ts 129-141, database.ts 1236-1304).
THEOREM AttemptsCounted == Spec => []AttemptsAccountedFor
<1>1. ASSUME IInv, NEW v \in Videos
      PROVE  /\ count[v] <= asked[v] + disturbed[v]
             /\ started[v] \in {0, count[v]}
             /\ \A n \in Numbers : attempt[v][n] = "running" => n = count[v]
    <2>1. Counted(v) /\ Accounted(v) /\ Numbered(v)
        BY <1>1, TypesOfCounts DEF IInv, Typed
    <2>2. Cardinality(Strays(v)) \in Nat
        BY <2>1, FS_CardinalityType DEF Accounted
    <2>3. count[v] <= asked[v] + disturbed[v]
        BY <2>1, <2>2 DEF Accounted, Counted
    <2> QED BY <2>1, <2>3 DEF Numbered
<1>2. IInv => AttemptsAccountedFor
    BY <1>1 DEF AttemptsAccountedFor
<1> QED BY <1>2, Invariant, PTL

-----------------------------------------------------------------------------
(* Outcomes stay.                                                          *)

OutcomesKept == \A v \in Videos, n \in Numbers :
    attempt[v][n] \in Terminal => attempt'[v][n] = attempt[v][n]

LEMMA OpenAttemptsOnly ==
    ASSUME TypeOK, NEW v \in Videos, NEW outcome \in {"none"} \cup Terminal,
           attempt' = OpenAttemptsFinished(v, outcome)
    PROVE  OutcomesKept
<1>1. "running" \notin Terminal
    BY DEF Terminal
<1>2. ASSUME NEW w \in Videos, NEW n \in Numbers, attempt[w][n] \in Terminal
      PROVE  attempt'[w][n] = attempt[w][n]
    BY <1>1, <1>2, OpenAttemptsActs
<1> QED BY <1>2 DEF OutcomesKept

\* The number of a new attempt was not used before.
LEMMA StartKeepsOutcomes ==
    ASSUME IInv, NEW p \in Processes, NEW v \in Videos, StartVideoAttempt(p, v)
    PROVE  OutcomesKept
<1> DEFINE k == count[v] + 1
           a == OpenAttemptsFinished(v, "stopped")
<1>1. TypeOK /\ Counted(v) /\ Numbered(v) /\ k \in Numbers
    BY TypesOfCounts DEF IInv, Typed, StartVideoAttempt
<1>2. attempt[v][k] = "none"
    BY <1>1 DEF Numbered, Counted
<1>3. "running" \notin Terminal /\ "none" \notin Terminal /\ "stopped" \in Terminal
    BY DEF Terminal
<1>4. /\ a \in [Videos -> [Numbers -> {"none", "running"} \cup Terminal]]
      /\ \A w \in Videos \ {v} : a[w] = attempt[w]
      /\ \A m \in Numbers : a[v][m] = IF attempt[v][m] = "running" THEN "stopped" ELSE attempt[v][m]
    BY <1>1, <1>3, OpenAttemptsActs
<1>5. attempt' = [a EXCEPT ![v] = [a[v] EXCEPT ![k] = "running"]]
    BY <1>4 DEF StartVideoAttempt
<1> HIDE DEF a, k
<1>6. ASSUME NEW w \in Videos, NEW m \in Numbers, attempt[w][m] \in Terminal
      PROVE  attempt'[w][m] = attempt[w][m]
    <2>1. CASE w # v
        BY <1>4, <1>5, <2>1
    <2>2. CASE w = v
        <3>1. m # k
            BY <1>2, <1>3, <1>6, <2>2
        <3>2. a[v][m] = attempt[v][m]
            BY <1>3, <1>4, <1>6, <2>2
        <3> QED BY <1>1, <1>4, <1>5, <2>2, <3>1, <3>2
    <2> QED BY <2>1, <2>2
<1> QED BY <1>6 DEF OutcomesKept

LEMMA RunKeepsOutcomes ==
    ASSUME IInv, NEW p \in Processes, NEW v \in Videos,
           CloseAttempts(p, v) \/ CloseOrphan(p, v) \/ FinishVideoAttempt(p, v) \/ StatementFails(p, v)
    PROVE  OutcomesKept
<1> DEFINE seen == run[p][v].seen
<1>1. TypeOK /\ seen \in {"none"} \cup Terminal /\ "stopped" \in Terminal /\ "running" \notin Terminal
    <2>1. run[p][v] \in RunState /\ TypeOK
        BY DEF IInv, Typed, TypeOK
    <2> QED BY <2>1 DEF RunState, Terminal
<1>2. \/ UNCHANGED attempt
      \/ \E outcome \in {"none"} \cup Terminal : attempt' = OpenAttemptsFinished(v, outcome)
      \/ \E n : attempt[v][n] = "running" /\ attempt' = [attempt EXCEPT ![v][n] = seen]
    BY <1>1 DEF CloseAttempts, CloseOrphan, FinishVideoAttempt, StatementFails
<1>3. CASE UNCHANGED attempt
    BY <1>3 DEF OutcomesKept
<1>4. CASE \E outcome \in {"none"} \cup Terminal : attempt' = OpenAttemptsFinished(v, outcome)
    BY <1>1, <1>4, OpenAttemptsOnly
<1>5. CASE \E n : attempt[v][n] = "running" /\ attempt' = [attempt EXCEPT ![v][n] = seen]
    BY <1>1, <1>5 DEF OutcomesKept, TypeOK
<1> QED BY <1>2, <1>3, <1>4, <1>5

\* The outcome of an attempt is never rewritten, neither by a run that settles late nor by
\* the recovery of another process (database.ts 1264-1304).
THEOREM OutcomesStay == Spec => AttemptOutcomeIsFinal
<1>1. ASSUME IInv, [Next]_vars PROVE OutcomesKept
    <2>1. ASSUME NEW p \in Processes, NEW v \in Videos, RunStep(p, v) PROVE OutcomesKept
        BY <1>1, <2>1, RunKeepsOutcomes, StartKeepsOutcomes
        DEF RunStep, OutcomesKept, rowVars, Acquire, Inspect, ClearMarker, StopOrphan, Catch, Publish,
            PublishCleanupFailure, ReadOutcome, Release
    <2>2. ASSUME NEW p \in Processes, NEW v \in Videos, StatementFails(p, v) PROVE OutcomesKept
        BY <1>1, <2>2, RunKeepsOutcomes
    <2>3. ASSUME NEW p \in Processes, NEW v \in Videos,
                 \/ \E restart \in BOOLEAN : EnqueueVideo(p, v, restart)
                 \/ StopVideo(p, v) \/ Timeout(p, v) \/ HeartbeatSeesStop(p, v) \/ NoticeLoss(p, v)
                 \/ CutSession(p, v) \/ AcquireFails(p, v)
          PROVE  UNCHANGED attempt
        BY <2>3 DEF EnqueueVideo, StopVideo, Timeout, HeartbeatSeesStop, NoticeLoss, CutSession,
                    AcquireFails, rowVars
    <2>4. ASSUME \/ \E p \in Processes : ResumePendingVideos(p) \/ Crash(p)
                 \/ \E c \in adding : PrepareVideoForQueue(c) \/ AddToQueue(c)
                 \/ \E c \in stopping : WriteStopped(c)
          PROVE  UNCHANGED attempt
        BY <2>4 DEF ResumePendingVideos, Crash, PrepareVideoForQueue, AddToQueue, WriteStopped, rowVars
    <2>5. ASSUME NEW v \in Videos, NEW n \in Numbers, AnalysisStep(v, n) \/ AnalysisStatementFails(v, n)
          PROVE  UNCHANGED attempt
        BY <2>5 DEF AnalysisStep, AnalysisStatementFails, OnlyAnalysis, LoadVideo, AssertVideoAttempt,
                    SetStage, WorkThrows, CompleteVideo, AssertStillOwned, AnalysisCatch, WriteFailed, rowVars
    <2>6. UNCHANGED vars => UNCHANGED attempt
        BY DEF vars, rowVars
    <2>7. UNCHANGED attempt => OutcomesKept
        BY DEF OutcomesKept
    <2> QED BY <1>1, <2>1, <2>2, <2>3, <2>4, <2>5, <2>6, <2>7 DEF Next
<1>2. IInv /\ [Next]_vars => [OutcomesKept]_vars
    BY <1>1
<1>3. AttemptOutcomeIsFinal <=> [][OutcomesKept]_vars
    BY PTL DEF AttemptOutcomeIsFinal, OutcomesKept
<1> QED BY <1>2, <1>3, Invariant, PTL DEF Spec

================================================================================
