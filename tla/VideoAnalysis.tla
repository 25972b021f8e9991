---------------------------- MODULE VideoAnalysis ----------------------------
(***************************************************************************)
(* What one attempt at a video does: lib/analysis.ts with the provider of  *)
(* the transcript (providers/tokscript.ts), the three sources of the file  *)
(* (tiktok-video-download.ts, video-processing.ts), the translation and    *)
(* its request slots (providers/qwen.ts), and what runVideo of queue.ts    *)
(* does with the files of an attempt that ran out of time.                 *)
(*                                                                         *)
(* An attempt is a promise with promises of its own: two calls of tools in *)
(* parallel, and a translation that outlives it.  It goes on when its run  *)
(* gave up on it, beside the attempt that a retry starts.  The videos are  *)
(* those of one process.  Its statements are applied in the order in which *)
(* they are sent; locks, crashes and other processes are in VideoQueue.    *)
(***************************************************************************)
EXTENDS Naturals, Sequences, FiniteSets

CONSTANTS
    Videos,
    MaxAttempts,  \* bound on the attempts of one video
    MaxRequests,  \* requests to the model at a time (2 in the code)
    Retries,      \* of a translation: 0 or 1, a setting
    Budgets,      \* the rows to begin with, whether the sound of the file is
                  \* needed, and bounds on stops, timeouts and retries
    None

ASSUME AnalysisConstants ==
    /\ MaxAttempts \in Nat /\ MaxRequests \in Nat \ {0} /\ Retries \in {0, 1}
    /\ \A b \in Budgets :
          /\ b.audio \in BOOLEAN /\ DOMAIN b.rows \subseteq Videos
          /\ \A v \in DOMAIN b.rows :
                b.rows[v].text \in {"", "spoken", "diagnostic"} /\ b.rows[v].file \in BOOLEAN
          /\ \A what \in {"stops", "timeouts", "retries"} : b[what] \in Nat

VARIABLES
    row,        \* the row of each video
    run,        \* runVideo of each video
    at,         \* the attempts: what analyzeVideo of each has in hand
    tool,       \* the tool calls of each attempt
    trans,      \* the translation task of each attempt
    active,     \* __qwenRequestActive
    waiters,    \* __qwenTranslationWaiters
    files,      \* the originals on the disk
    asks,       \* requests of each attempt, counted anew once it is to end (history)
    budget      \* what is left of the bounds

slotVars == <<active, waiters>>
vars     == <<row, run, at, tool, trans, slotVars, files, asks, budget>>

Numbers   == 1 .. MaxAttempts
Attempts  == Videos \X Numbers
Sources   == {"TokScript", "yt-dlp", "web"}
Tools     == {"transcript", "download"}
Requests  == {"fetch", "translation", "TokScript"} \cup Tools
Terminal  == {"completed", "failed", "stopped"}
Texts     == {"", "spoken", "diagnostic"}

\* An original lies in the directory of its source, within that of its attempt.
File(a, s) == [video |-> a[1], n |-> a[2], source |-> s]
Cached(v)  == [video |-> v, n |-> 0, source |-> "TokScript"]
Originals == [video : Videos, n : 0 .. MaxAttempts, source : Sources]
ASSUME NoneIsNoFile == None \notin Originals
OwnFiles(a) == {f \in files : f.video = a[1] /\ f.n = a[2]}

\* text: "" or what is spoken, or a diagnostic that was stored in its place.
\* left: the sources still to be tried.  spare: a file without sound.
NoAttempt == [pc |-> "none", sig |-> "none", text |-> "", zh |-> FALSE, path |-> None,
              left |-> <<>>, spare |-> None]
NoRun == [pc |-> "idle", n |-> 0]
Unasked == [q \in Requests |-> 0]
NoCalls == [t \in Tools |-> "off"]

Init ==
    /\ budget \in Budgets
    /\ row = [v \in Videos |->
          IF v \in DOMAIN budget.rows
          THEN [status |-> "queued", n |-> 0, text |-> budget.rows[v].text, zh |-> FALSE,
                path |-> IF budget.rows[v].file THEN Cached(v) ELSE None]
          ELSE [status |-> "stopped", n |-> 0, text |-> "", zh |-> FALSE, path |-> None]]
    /\ files = {Cached(v) : v \in {w \in Videos : row[w].path # None}}
    /\ run = [v \in Videos |-> NoRun]
    /\ at = [a \in Attempts |-> NoAttempt]
    /\ tool = [a \in Attempts |-> NoCalls]
    /\ trans = [a \in Attempts |-> "off"]
    /\ active = 0 /\ waiters = <<>>
    /\ asks = [a \in Attempts |-> Unasked]

Spend(what) == budget[what] > 0 /\ budget' = [budget EXCEPT ![what] = @ - 1]
Asked(a, q) == [asks EXCEPT ![a][q] = @ + 1]

-----------------------------------------------------------------------------
(* Steps of an attempt that all of them share.                             *)

Set(a, r) == at' = [at EXCEPT ![a] = r]
Go(a, pc) == Set(a, [at[a] EXCEPT !.pc = pc])
Aborted(a) == at[a].sig # "none"

\* The promise of the attempt settles, and what it had in hand is gone.
End(a, pc) ==
    /\ Set(a, [at[a] EXCEPT !.pc = pc, !.text = "", !.zh = FALSE, !.left = <<>>, !.spare = None])
    /\ tool' = [tool EXCEPT ![a] = NoCalls]
    /\ asks' = [asks EXCEPT ![a] = [Unasked EXCEPT !["translation"] = asks[a]["translation"]]]

\* assertVideoAttempt.
MayGoOn(a) ==
    ~Aborted(a) /\ row[a[1]].status # "stopped" /\ row[a[1]].n = a[2]

\* scheduleTranscriptTranslation: once for an attempt, and not after its end was
\* asked for.  The text is taken as it is.
Translate(a) ==
    trans' = IF trans[a] = "off" /\ at[a].text # "" /\ ~at[a].zh /\ ~Aborted(a)
             THEN [trans EXCEPT ![a] = "check"] ELSE trans

LoadVideo(a) ==
    /\ at[a].pc = "load"
    /\ LET r == row[a[1]] IN
       Set(a, [at[a] EXCEPT !.pc = "begin", !.text = r.text, !.zh = r.zh, !.path = r.path])
    /\ UNCHANGED <<row, run, tool, trans, slotVars, files, asks, budget>>

-----------------------------------------------------------------------------
(* The transcript and the address of the file: fetchTikTok.                *)

NeedsTokScript(a) == at[a].path = None \/ at[a].text # "spoken"

BeginFetch(a) ==
    /\ at[a].pc = "begin"
    /\ Go(a, IF ~MayGoOn(a) THEN "fail" ELSE IF NeedsTokScript(a) THEN "fetch" ELSE "use")
    /\ UNCHANGED <<row, run, tool, trans, slotVars, files, asks, budget>>

FetchTikTok(a) ==
    /\ at[a].pc = "fetch"
    /\ row' = [row EXCEPT ![a[1]].status = "running"]
    /\ asks' = IF Aborted(a) THEN asks ELSE Asked(a, "fetch")
    /\ Go(a, "connect")
    /\ UNCHANGED <<run, tool, trans, slotVars, files, budget>>

\* Which tools are called: what is there already is not asked for.
Wanted(a) == {t \in Tools : IF t = "transcript" THEN at[a].text # "spoken" ELSE at[a].path = None}

\* What may go wrong before a tool is called, what the fetch makes of it, and what is
\* worth another try: the error that replaces a timeout is not known as transient.
Categories   == {"timeout", "network_error", "other"}
Raised(c)    == IF c = "timeout" THEN "other" ELSE c
Transient(e) == e = "network_error"

\* The address is resolved, the session opened and the tools are listed.
Connect(a) ==
    /\ at[a].pc = "connect"
    /\ \/ /\ ~Aborted(a)
          /\ tool' = [tool EXCEPT ![a] = [t \in Tools |-> IF t \in Wanted(a) THEN "first" ELSE "off"]]
          /\ asks' = [asks EXCEPT ![a] = [q \in Requests |-> IF q \in Wanted(a) THEN @[q] + 1 ELSE @[q]]]
          /\ Go(a, "tools")
       \/ /\ \E c \in Categories :
                Go(a, IF ~Aborted(a) /\ Transient(Raised(c)) /\ asks[a]["fetch"] = 1
                      THEN "pause" ELSE "fail")
          /\ UNCHANGED <<tool, asks>>
    /\ UNCHANGED <<row, run, trans, slotVars, files, budget>>

\* withOneNetworkRetry, a second later.
ConnectAgain(a) ==
    /\ at[a].pc = "pause"
    /\ IF Aborted(a) THEN Go(a, "fail") /\ UNCHANGED asks
       ELSE Go(a, "connect") /\ asks' = Asked(a, "fetch")
    /\ UNCHANGED <<row, run, tool, trans, slotVars, files, budget>>

\* callTokScriptToolWithOneRetry.  A tool may not be there, refuse the input for
\* good, or use up the time of both; only an abort, which ends both, is thrown on.
CallTool(a, t) ==
    /\ at[a].pc = "tools" /\ tool[a][t] \in {"first", "second"}
    /\ \/ /\ \E answer \in {"done", "none"} : tool' = [tool EXCEPT ![a][t] = answer]
          /\ UNCHANGED asks
       \/ /\ tool[a][t] = "first"
          /\ tool' = [tool EXCEPT ![a][t] = "second"]
          /\ asks' = Asked(a, t)
    /\ UNCHANGED <<row, run, at, trans, slotVars, files, budget>>

\* Mutant: a tool that fails twice fails the fetch, which is tried again.
RaiseToolFailure(a) ==
    /\ at[a].pc = "tools" /\ \A t \in Tools : tool[a][t] \notin {"first", "second"}
    /\ IF asks[a]["fetch"] = 1 /\ \E t \in Tools : tool[a][t] = "none" THEN Go(a, "pause") ELSE Go(a, "fetched")
    /\ UNCHANGED <<row, run, tool, trans, slotVars, files, asks, budget>>

\* Both calls have ended; what is not speech is dropped.  The translation may have
\* come with either answer.
ReadTools(a) ==
    /\ at[a].pc = "tools" /\ \A t \in Tools : tool[a][t] \notin {"first", "second"}
    /\ IF Aborted(a) THEN Go(a, "fail")
       ELSE \E zh \in {z \in BOOLEAN : z => \E t \in Tools : tool[a][t] = "done"} :
            Set(a, [at[a] EXCEPT !.pc = "fetched", !.zh = @ \/ zh,
                !.text = IF tool[a]["transcript"] = "done" THEN "spoken"
                         ELSE IF @ = "diagnostic" THEN "" ELSE @])
    /\ UNCHANGED <<row, run, tool, trans, slotVars, files, asks, budget>>

CheckFetched(a) ==
    /\ at[a].pc = "fetched"
    /\ Go(a, IF MayGoOn(a) THEN "save" ELSE "fail")
    /\ UNCHANGED <<row, run, tool, trans, slotVars, files, asks, budget>>

\* The sources in their order; the first one needs the address of the provider.
Candidates(a) ==
    IF tool[a]["download"] = "done" THEN <<"TokScript", "yt-dlp", "web">> ELSE <<"yt-dlp", "web">>

\* Mutant: what this fetch brought is written, not what is known.
SaveAnswerOnly(a) ==
    /\ at[a].pc = "save"
    /\ row' = [row EXCEPT ![a[1]].text = IF tool[a]["transcript"] = "done" THEN "spoken" ELSE "",
                          ![a[1]].zh = @ \/ at[a].zh]
    /\ Translate(a)
    /\ IF at[a].path = None THEN Set(a, [at[a] EXCEPT !.pc = "next", !.left = Candidates(a)])
       ELSE Go(a, "use")
    /\ UNCHANGED <<run, tool, slotVars, files, asks, budget>>

\* Text first: it is in the row before the file is looked for.
SaveTranscript(a) ==
    /\ at[a].pc = "save"
    /\ row' = [row EXCEPT ![a[1]].text = at[a].text, ![a[1]].zh = @ \/ at[a].zh]
    /\ Translate(a)
    /\ IF at[a].path = None THEN Set(a, [at[a] EXCEPT !.pc = "next", !.left = Candidates(a)])
       ELSE Go(a, "use")
    /\ UNCHANGED <<run, tool, slotVars, files, asks, budget>>

-----------------------------------------------------------------------------
(* The file: downloadTikTokVideoWithFallback.                              *)

\* How a source may end.  "again": a network error that is worth another try (a timeout
\* is not).
DownloadMedia == {"sound", "mute", "again", "failed"}
YtDlp         == {"sound", "mute", "failed"}
\* The page's file is decoded and compared before it is taken.
FromWeb       == {"sound", "failed"}
Outcomes == [s \in Sources |-> CASE s = "TokScript" -> DownloadMedia [] s = "yt-dlp" -> YtDlp [] OTHER -> FromWeb]

\* beforeSource.
BeforeSource(a) ==
    LET s == Head(at[a].left) IN
    /\ at[a].pc = "next" /\ at[a].left # <<>>
    /\ IF MayGoOn(a)
       THEN /\ asks' = IF s = "TokScript" THEN Asked(a, s) ELSE asks
            /\ Go(a, IF s = "TokScript" THEN "download" ELSE "mark")
            /\ UNCHANGED files
       ELSE /\ files' = files \ OwnFiles(a)
            /\ Go(a, "fail")
            /\ UNCHANGED asks
    /\ UNCHANGED <<row, run, tool, trans, slotVars, budget>>

MarkSource(a) ==
    /\ at[a].pc = "mark"
    /\ row' = [row EXCEPT ![a[1]].status = "running"]
    /\ Go(a, "download")
    /\ UNCHANGED <<run, tool, trans, slotVars, files, asks, budget>>

\* Mutant: the file without sound stays beside the one that is taken.
AcceptBeside(a, f) ==
    /\ files' = files \cup {f}
    /\ Set(a, [at[a] EXCEPT !.pc = "chosen", !.path = f, !.left = <<>>])

\* A file is there, and good enough: it is the only one that is kept.
Accept(a, f) ==
    /\ files' = (files \ OwnFiles(a)) \cup {f}
    /\ Set(a, [at[a] EXCEPT !.pc = "chosen", !.path = f, !.left = <<>>])

NextSource(a, spare) == Set(a, [at[a] EXCEPT !.pc = "next", !.left = Tail(@), !.spare = spare])

Download(a) ==
    LET s == Head(at[a].left)
        f == File(a, s)
    IN  /\ at[a].pc = "download"
        /\ \/ /\ Aborted(a)
              /\ files' = files \ OwnFiles(a)
              /\ Go(a, "fail")
              /\ UNCHANGED asks
           \/ /\ ~Aborted(a)
              /\ \E outcome \in Outcomes[s] :
                 \/ /\ outcome = "sound" \/ (outcome = "mute" /\ ~budget.audio)
                    /\ Accept(a, f)
                    /\ UNCHANGED asks
                 \/ /\ outcome = "mute" /\ budget.audio
                    /\ IF at[a].spare = None
                       THEN files' = files \cup {f} /\ NextSource(a, f)
                       ELSE UNCHANGED files /\ NextSource(a, at[a].spare)
                    /\ UNCHANGED asks
                 \/ /\ outcome = "again" /\ asks[a]["TokScript"] = 1
                    /\ asks' = Asked(a, s)
                    /\ UNCHANGED <<files, at>>
                 \/ /\ outcome = "failed" \/ (outcome = "again" /\ asks[a]["TokScript"] = 2)
                    /\ NextSource(a, at[a].spare)
                    /\ UNCHANGED <<files, asks>>
        /\ UNCHANGED <<row, run, tool, trans, slotVars, budget>>

\* No source is left: the file without sound is better than none.
SourcesExhausted(a) ==
    /\ at[a].pc = "next" /\ at[a].left = <<>>
    /\ IF at[a].spare # None /\ ~Aborted(a)
       THEN Accept(a, at[a].spare)
       ELSE files' = files \ OwnFiles(a) /\ Go(a, "fail")
    /\ UNCHANGED <<row, run, tool, trans, slotVars, asks, budget>>

CheckFile(a) ==
    /\ at[a].pc = "chosen"
    /\ Go(a, IF MayGoOn(a) THEN "savePath" ELSE "fail")
    /\ UNCHANGED <<row, run, tool, trans, slotVars, files, asks, budget>>

SavePath(a) ==
    /\ at[a].pc = "savePath"
    /\ row' = [row EXCEPT ![a[1]].path = at[a].path]
    /\ Go(a, "use")
    /\ UNCHANGED <<run, tool, trans, slotVars, files, asks, budget>>

-----------------------------------------------------------------------------
(* The end of an attempt.                                                  *)

\* What was saved earlier is translated now; the attempt waits for that.
UseResults(a) ==
    /\ at[a].pc = "use"
    /\ Translate(a)
    /\ Go(a, "await")
    /\ UNCHANGED <<row, run, tool, slotVars, files, asks, budget>>

CheckLast(a) ==
    /\ at[a].pc = "await" /\ trans[a] \in {"off", "done"}
    /\ Go(a, IF MayGoOn(a) THEN "complete" ELSE "fail")
    /\ UNCHANGED <<row, run, tool, trans, slotVars, files, asks, budget>>

CompleteVideo(a) ==
    /\ at[a].pc = "complete"
    /\ row' = [row EXCEPT ![a[1]].status = "completed", ![a[1]].text = at[a].text,
                          ![a[1]].zh = @ \/ at[a].zh]
    /\ Go(a, "deliver")
    /\ UNCHANGED <<run, tool, trans, slotVars, files, asks, budget>>

AssertStillOwned(a) ==
    /\ at[a].pc = "deliver"
    /\ IF MayGoOn(a) THEN End(a, "resolved") ELSE Go(a, "fail") /\ UNCHANGED <<tool, asks>>
    /\ UNCHANGED <<row, run, trans, slotVars, files, budget>>

\* The catch clause; the queue publishes a timeout.
AnalysisCatch(a) ==
    /\ at[a].pc = "fail"
    /\ IF at[a].sig = "timeout" \/ row[a[1]].n # a[2] THEN End(a, "rejected")
       ELSE Go(a, "write") /\ UNCHANGED <<tool, asks>>
    /\ UNCHANGED <<row, run, trans, slotVars, files, budget>>

\* What was obtained is still translated, unless the attempt was stopped.
WriteFailed(a) ==
    /\ at[a].pc = "write"
    /\ row' = [row EXCEPT ![a[1]].status = IF Aborted(a) THEN "stopped" ELSE "failed"]
    /\ Translate(a)
    /\ End(a, "rejected")
    /\ UNCHANGED <<run, slotVars, files, budget>>

-----------------------------------------------------------------------------
(* The translation and the slots of its requests.                          *)

\* acquireQwenRequestSlot and drainQwenRequests: a is the last to wait, and the
\* first ones are let in while there is room.  A request begins as it is let in.
Admit(queue, busy, tasks) ==
    LET room == MaxRequests - busy
        in   == {queue[k] : k \in {j \in DOMAIN queue : j <= room}}
    IN  /\ active' = busy + Cardinality(in)
        /\ waiters' = SubSeq(queue, Cardinality(in) + 1, Len(queue))
        /\ trans' = [a \in Attempts |-> IF a \in in THEN "ask" ELSE tasks[a]]
        /\ asks' = [a \in Attempts |-> IF a \in in THEN [asks[a] EXCEPT !["translation"] = @ + 1]
                                       ELSE asks[a]]

TranslationBegins(a) ==
    /\ trans[a] = "check"
    /\ IF MayGoOn(a)
       THEN Admit(Append(waiters, a), active, [trans EXCEPT ![a] = "slot"])
       ELSE trans' = [trans EXCEPT ![a] = "done"] /\ UNCHANGED <<slotVars, asks>>
    /\ UNCHANGED <<row, run, at, tool, files, budget>>

\* Mutant: a request that fails for good does not give its slot back.
AnsweredKeepingSlot(a) ==
    /\ trans[a] = "ask"
    /\ \/ ~Aborted(a) /\ Admit(waiters, active - 1, [trans EXCEPT ![a] = "answered"])
       \/ trans' = [trans EXCEPT ![a] = "done"] /\ UNCHANGED <<slotVars, asks>>
       \/ /\ ~Aborted(a) /\ asks[a]["translation"] <= Retries
          /\ Admit(Append(waiters, a), active - 1, [trans EXCEPT ![a] = "slot"])
    /\ UNCHANGED <<row, run, at, tool, files, budget>>

\* requestTranslation: an answer, an error that is worth another request (which
\* waits its turn behind the others), or another.  The slot is given back.
TranslationAnswered(a) ==
    /\ trans[a] = "ask"
    /\ \/ ~Aborted(a) /\ Admit(waiters, active - 1, [trans EXCEPT ![a] = "answered"])
       \/ Admit(waiters, active - 1, [trans EXCEPT ![a] = "done"])
       \/ /\ ~Aborted(a) /\ asks[a]["translation"] <= Retries
          /\ Admit(Append(waiters, a), active - 1, [trans EXCEPT ![a] = "slot"])
    /\ UNCHANGED <<row, run, at, tool, files, budget>>

\* It is only used for the attempt it was asked for, and one that is there is kept.
TranslationChecked(a) ==
    /\ trans[a] = "answered"
    /\ IF MayGoOn(a)
       THEN trans' = [trans EXCEPT ![a] = IF row[a[1]].zh THEN "done" ELSE "store"]
       ELSE trans' = [trans EXCEPT ![a] = "done"]
    /\ UNCHANGED <<row, run, at, tool, slotVars, files, asks, budget>>

StoreTranslation(a) ==
    /\ trans[a] = "store"
    /\ row' = [row EXCEPT ![a[1]].zh = TRUE]
    /\ trans' = [trans EXCEPT ![a] = "done"]
    /\ UNCHANGED <<run, at, tool, slotVars, files, asks, budget>>

-----------------------------------------------------------------------------
(* The run of the queue.                                                   *)

RunAt(v, pc) == run' = [run EXCEPT ![v].pc = pc]
Current(v) == <<v, run[v].n>>

StartAttempt(v) ==
    LET n == row[v].n + 1 IN
    /\ run[v].pc = "idle" /\ row[v].status = "queued" /\ n \in Numbers
    /\ row' = [row EXCEPT ![v].n = n]
    /\ run' = [run EXCEPT ![v] = [pc |-> "racing", n |-> n]]
    /\ at' = [at EXCEPT ![<<v, n>>].pc = "load"]
    /\ UNCHANGED <<tool, trans, slotVars, files, asks, budget>>

\* Mutant: who gives up waiting for a slot stays in the queue.
LeaveQueued(a) == UNCHANGED slotVars /\ trans' = IF trans[a] = "slot" THEN [trans EXCEPT ![a] = "done"] ELSE trans

\* The listener of a request that waits for its slot: it is taken out of the queue.
LeaveQueue(a) ==
    /\ waiters' = IF trans[a] # "slot" THEN waiters
                  ELSE LET k == CHOOSE j \in DOMAIN waiters : waiters[j] = a IN
                       [j \in 1 .. Len(waiters) - 1 |-> waiters[IF j < k THEN j ELSE j + 1]]
    /\ trans' = IF trans[a] = "slot" THEN [trans EXCEPT ![a] = "done"] ELSE trans
    /\ UNCHANGED active

Abort(v, reason) ==
    LET a == Current(v) IN
    /\ run[v].pc # "idle" /\ at[a].sig = "none"
    /\ Set(a, [at[a] EXCEPT !.sig = reason])
    /\ tool' = [tool EXCEPT ![a] = NoCalls]
    /\ asks' = [asks EXCEPT ![a] = Unasked]
    /\ LeaveQueue(a)

Timeout(v) ==
    /\ Spend("timeouts")
    /\ run[v].pc \in {"racing", "publish"}
    /\ Abort(v, "timeout")
    /\ UNCHANGED <<row, run, files>>

StopVideo(v) ==
    /\ Spend("stops")
    /\ Abort(v, "stop")
    /\ row' = [row EXCEPT ![v].status = "stopped"]
    /\ UNCHANGED <<run, files>>

\* The attempt has sent a statement that its run cannot overtake.
Sending(a) == at[a].pc \in {"fetch", "save", "mark", "savePath", "complete"}

\* The race is over, one way or the other, and the row is read.
RaceEnds(v) ==
    LET a == Current(v) IN
    /\ run[v].pc = "racing"
    /\ at[a].pc \in {"resolved", "rejected"} \/ (Aborted(a) /\ ~Sending(a))
    /\ RunAt(v, IF \/ at[a].sig = "timeout" /\ row[v].status # "completed"
                   \/ at[a].pc # "resolved" /\ row[v].status \notin Terminal
                THEN "publish" ELSE "finally")
    /\ UNCHANGED <<row, at, tool, trans, slotVars, files, asks, budget>>

PublishEnd(v) ==
    /\ run[v].pc = "publish"
    /\ row' = [row EXCEPT ![v].status = IF Aborted(Current(v)) THEN "stopped" ELSE "failed"]
    /\ RunAt(v, "finally")
    /\ UNCHANGED <<at, tool, trans, slotVars, files, asks, budget>>

SettleRun(v) ==
    /\ run[v].pc = "finally"
    /\ RunAt(v, IF at[Current(v)].sig = "timeout" /\ row[v].status # "completed" THEN "clean" ELSE "idle")
    /\ UNCHANGED <<row, at, tool, trans, slotVars, files, asks, budget>>

\* Mutant: the row goes on pointing at what is removed.
DeleteOnly(v) ==
    /\ run[v].pc = "clean"
    /\ files' = {f \in files : f.video # v}
    /\ RunAt(v, "idle")
    /\ UNCHANGED <<row, at, tool, trans, slotVars, asks, budget>>

\* deleteVideoAttemptCache: the directory of the video, of all its attempts.
DeleteAttemptCache(v) ==
    /\ run[v].pc = "clean"
    /\ files' = {f \in files : f.video # v}
    /\ RunAt(v, "forget")
    /\ UNCHANGED <<row, at, tool, trans, slotVars, asks, budget>>

ForgetOriginal(v) ==
    /\ run[v].pc = "forget"
    /\ row' = [row EXCEPT ![v].path = None]
    /\ RunAt(v, "idle")
    /\ UNCHANGED <<at, tool, trans, slotVars, files, asks, budget>>

\* A retry by an administrator.
Restart(v) ==
    /\ Spend("retries") /\ v \in DOMAIN budget.rows
    /\ run[v].pc = "idle" /\ row[v].status \in {"failed", "stopped"} /\ row[v].n < MaxAttempts
    /\ row' = [row EXCEPT ![v].status = "queued"]
    /\ UNCHANGED <<run, at, tool, trans, slotVars, files, asks>>

-----------------------------------------------------------------------------
FetchStep(a) ==
    \/ BeginFetch(a) \/ FetchTikTok(a) \/ Connect(a) \/ ConnectAgain(a)
    \/ \E t \in Tools : CallTool(a, t)
    \/ ReadTools(a) \/ CheckFetched(a) \/ SaveTranscript(a)

AttemptStep(a) ==
    \/ LoadVideo(a) \/ FetchStep(a)
    \/ BeforeSource(a) \/ MarkSource(a) \/ Download(a) \/ SourcesExhausted(a) \/ CheckFile(a) \/ SavePath(a)
    \/ UseResults(a) \/ CheckLast(a) \/ CompleteVideo(a) \/ AssertStillOwned(a)
    \/ AnalysisCatch(a) \/ WriteFailed(a)

TranslationStep(a) ==
    TranslationBegins(a) \/ TranslationAnswered(a) \/ TranslationChecked(a) \/ StoreTranslation(a)

RunStep(v) ==
    \/ StartAttempt(v) \/ RaceEnds(v) \/ PublishEnd(v) \/ SettleRun(v)
    \/ DeleteAttemptCache(v) \/ ForgetOriginal(v)

Next ==
    \/ \E v \in Videos : RunStep(v) \/ Timeout(v) \/ StopVideo(v) \/ Restart(v)
    \/ \E a \in Attempts : AttemptStep(a) \/ TranslationStep(a)

Spec == Init /\ [][Next]_vars

\* Every request ends: all of them have a timeout.  A translation that waits for a
\* slot has none of its own.
Fairness ==
    /\ \A v \in Videos : WF_vars(RunStep(v))
    /\ \A a \in Attempts : WF_vars(AttemptStep(a)) /\ WF_vars(TranslationStep(a))
FairSpec == Spec /\ Fairness

-----------------------------------------------------------------------------
(* Properties.                                                             *)

\* The variables have their types.
Paths      == Originals \cup {None}
VideoRow   == [status : {"queued", "running"} \cup Terminal, n : 0 .. MaxAttempts, text : Texts,
               zh : BOOLEAN, path : Paths]
RunState   == [pc : {"idle", "racing", "publish", "finally", "clean", "forget"}, n : 0 .. MaxAttempts]
Places     == {"none", "load", "begin", "fetch", "connect", "pause", "tools", "fetched", "save",
               "next", "mark", "download", "chosen", "savePath", "use", "await", "complete",
               "deliver", "fail", "write", "resolved", "rejected"}
Ways       == {<<>>, <<"web">>, <<"yt-dlp", "web">>, <<"TokScript", "yt-dlp", "web">>}
AnalysisAt == [pc : Places, sig : {"none", "stop", "timeout"}, text : Texts, zh : BOOLEAN,
               path : Paths, left : Ways, spare : Paths]
Calls      == [Tools -> {"off", "first", "second", "done", "none"}]
TaskStates == {"off", "check", "slot", "ask", "answered", "store", "done"}
TypeOK ==
    /\ row \in [Videos -> VideoRow] /\ run \in [Videos -> RunState]
    /\ at \in [Attempts -> AnalysisAt]
    /\ \A a \in Attempts : at[a].pc \in {"mark", "download"} => at[a].left # <<>>
    /\ tool \in [Attempts -> Calls] /\ trans \in [Attempts -> TaskStates]
    /\ active \in 0 .. MaxRequests /\ waiters \in Seq(Attempts)
    /\ files \subseteq Originals
    /\ asks \in [Attempts -> [Requests -> Nat]]
    /\ budget.audio \in BOOLEAN

\* Every slot that is taken belongs to a request under way, everybody who waits for one
\* is in the queue, once, and nobody waits while a slot is free: whoever is answered,
\* fails, or gives up while it waits gives back what it had (qwen.ts:34-76).
SlotsAccountedFor ==
    /\ active = Cardinality({a \in Attempts : trans[a] = "ask"})
    /\ {waiters[k] : k \in DOMAIN waiters} = {a \in Attempts : trans[a] = "slot"}
    /\ \A j, k \in DOMAIN waiters : waiters[j] = waiters[k] => j = k
    /\ waiters # <<>> => active = MaxRequests

\* However its retries are nested, an attempt opens two sessions with the provider of
\* the transcript at most, calls each tool twice, downloads from the address it got
\* twice, and asks for one translation and its retry; once it is to end, nothing more
\* (analysis.ts:31-48, tokscript.ts:223-265, qwen.ts:343-380, TIKTOK_DOWNLOAD_FALLBACK.md:20-23).
Most(q) == IF q = "translation" THEN Retries + 1 ELSE 2
RequestsBounded ==
    \A a \in Attempts, q \in Requests : asks[a][q] <= IF Aborted(a) THEN 0 ELSE Most(q)

\* The file the row points at is there, unless it is just being forgotten, although an
\* attempt whose time ran out or that was stopped goes on beside the next one and both
\* clean up; and an attempt leaves no file behind but the one it chose
\* ("never ... let a cancelled request remove another attempt's media",
\* tiktok-video-download.ts:156-159, queue.ts:45-55, 183-196).
FilesAccountedFor ==
    /\ \A v \in Videos :
          /\ row[v].path # None => row[v].path \in files \/ run[v].pc = "forget"
          /\ row[v].status = "completed" => row[v].path # None
    /\ \A a \in Attempts :
          OwnFiles(a) \subseteq {at[a].path} \cup (IF at[a].pc \in {"next", "mark", "download"} THEN {at[a].spare} ELSE {})

\* What was spoken and its translation stay in the row, whichever attempts fail, stop or
\* end late beside their successor: a retry "keeps the already-fetched transcript ...
\* instead of losing the whole TokScript result" (analysis.ts:164-166).
ResultsAreKept ==
    [][\A v \in Videos :
          /\ row[v].text = "spoken" => row'[v].text = "spoken"
          /\ row[v].zh => row'[v].zh]_vars

\* Every attempt ends, with its translation, whatever it waits for, and every run with
\* it: no abort or failed request keeps a slot, and no waiter is passed over
\* (qwen.ts:34-76, 343-380).
EveryAttemptEnds ==
    []<>(/\ \A v \in Videos : run[v].pc = "idle"
         /\ \A a \in Attempts : /\ at[a].pc \in {"none", "resolved", "rejected"}
                                /\ trans[a] \in {"off", "done"})
=============================================================================
