------------------------------ MODULE Dashboard ------------------------------
(***************************************************************************)
(* The browser's analysis driver (apps/web/src/lib/useAnalysis.ts and      *)
(* apiClient.ts).  Every request it sends runs on its own and writes into  *)
(* one shared state when it is answered; refs say which job is active and  *)
(* whether it is settled.  The n-th analysis makes job n.  A job has one   *)
(* stage, whose events the stream may replay in any order.                 *)
(***************************************************************************)
EXTENDS Naturals, Sequences, FiniteSets

CONSTANTS
  Targets,     \* what the user analyses, one after another
  Requests,    \* of one kind about one job, in flight at once
  Questions,   \* how many the user asks about one job
  EventSources \* what may be true of the browser: that it has EventSource

VARIABLES
  phase, target, jobId, stage, result,   \* state
  askAbout, asking,                      \* ask: the job the answer is about
  source, streams,                       \* sourceRef, and the streams that are open
  silent,                                \* those of them that will not say that the job ended
  pollRef, intervals,                    \* pollRef, and the intervals that run
  activeJob, settled,                    \* activeJobRef, settledRef
  sent,                                  \* the requests in flight
  server,                                \* the state of each job
  analyses,                              \* how many were started
  \* The rest only observes.
  calm,                                  \* whether the last analysis began alone
  refused                                \* whether a request of the last one failed, or had no result

shown == <<phase, target, jobId, stage, result>>
asked == <<askAbout, asking>>
channels == <<source, streams, silent, pollRef, intervals>>
refs == <<activeJob, settled>>
dashboardVars == <<shown, asked, channels, refs, sent, server, analyses, calm, refused>>

None == 0
Job == DOMAIN Targets
Kinds == {"create", "tick", "getJob", "getResult", "ask"}

Init ==
  /\ phase = "idle" /\ target = None /\ jobId = None /\ stage = "none" /\ result = None
  /\ askAbout = None /\ asking = FALSE
  /\ source = None /\ streams = {} /\ silent = {} /\ pollRef = None /\ intervals = {}
  /\ activeJob = None /\ settled = FALSE
  /\ sent = [k \in Kinds |-> [j \in Job |-> 0]]
  /\ server = [j \in Job |-> "none"]
  /\ analyses = 0
  /\ calm = TRUE /\ refused = FALSE

TypeOK ==
  /\ phase \in {"idle", "starting", "running", "ready", "failed"}
  /\ {jobId, result, askAbout, source, pollRef, activeJob} \subseteq Job \cup {None}
  /\ streams \subseteq Job /\ silent \subseteq streams /\ intervals \subseteq Job
  /\ stage \in {"none", "running", "completed"}
  /\ \A k \in Kinds, j \in Job : sent[k][j] \in Nat

Send(k, j) == sent[k][j] < Requests /\ sent' = [sent EXCEPT ![k][j] = @ + 1]
InFlight(k, j) == sent[k][j] > 0
Answered(k, j) == sent' = [sent EXCEPT ![k][j] = @ - 1]
Quiet == \A k \in Kinds, j \in Job : ~InFlight(k, j)

----------------------------------------------------------------------------
(* The job, elsewhere                                                       *)

Ended(j) == server[j] \in {"completed", "failed"}

\* The job ends after its stage, its record and result before its `done`.
Serve(j) ==
  /\ server[j] = "running"
  /\ \E end \in {"completed", "failed"} : server' = [server EXCEPT ![j] = end]
  /\ UNCHANGED <<shown, asked, channels, refs, sent, analyses, calm, refused>>

\* A stream stays open and delivers nothing more: its read of the log rejects
\* (jobs.ts:78), or its `done` was published before it listened and is not in
\* the log (module SseStream).
GoesSilent(j) ==
  /\ j \in streams \ silent
  /\ silent' = silent \cup {j}
  /\ UNCHANGED <<shown, asked, source, streams, pollRef, intervals, refs, sent, server, analyses, calm, refused>>

----------------------------------------------------------------------------
(* The driver                                                               *)

\* Clears the interval and closes the stream the refs hold.
teardown ==
  /\ intervals' = intervals \ {pollRef} /\ pollRef' = None
  /\ streams' = streams \ {source} /\ silent' = silent \ {source} /\ source' = None

fail == phase' = "failed" /\ UNCHANGED <<target, jobId, stage, result>>

analyze ==
  /\ analyses < Len(Targets)
  /\ analyses' = analyses + 1
  /\ Send("create", analyses')
  /\ teardown
  /\ settled' = FALSE
  /\ phase' = "starting" /\ target' = Targets[analyses'] /\ jobId' = None /\ stage' = "none" /\ result' = None
  /\ askAbout' = None /\ asking' = FALSE
  /\ calm' = (Quiet /\ streams' = {} /\ intervals' = {}) /\ refused' = FALSE
  /\ UNCHANGED <<activeJob, server>>

\* One request at once, and one at every interval.
startPolling(j) ==
  /\ intervals' = intervals \cup {j} /\ pollRef' = j
  /\ sent' = [sent EXCEPT !["tick"][j] = @ + 1]

\* createAnalysisJob is answered: the job becomes the active one, whatever the
\* user started meanwhile.
created(j) ==
  /\ InFlight("create", j)
  /\ activeJob' = j
  /\ phase' = "running" /\ jobId' = j
  /\ server' = [server EXCEPT ![j] = "running"]
  /\ \/ /\ TRUE \in EventSources
        /\ streams' = streams \cup {j} /\ source' = j
        /\ Answered("create", j)
        /\ UNCHANGED <<pollRef, intervals>>
     \/ /\ FALSE \in EventSources
        /\ source' = None /\ UNCHANGED streams
        /\ intervals' = intervals \cup {j} /\ pollRef' = j
        /\ sent' = [sent EXCEPT !["create"][j] = @ - 1, !["tick"][j] = @ + 1]
  /\ UNCHANGED <<target, stage, result, asked, silent, settled, analyses, calm, refused>>

createFails(j) ==
  /\ InFlight("create", j) /\ Answered("create", j)
  /\ fail /\ refused' = TRUE
  /\ UNCHANGED <<asked, channels, refs, server, analyses, calm>>

terminal(status) == status = "completed"

\* Mutant: the last event wins.
mergeLast(existing, status) == status

\* A replayed event does not make a finished stage look unfinished.
merge(existing, status) ==
  IF ~terminal(existing) \/ terminal(status) THEN status ELSE existing

onStageEvent(j) ==
  /\ j \in streams \ silent
  /\ activeJob = j
  /\ \E status \in {"running", "completed"} : stage' = merge(stage, status)
  /\ UNCHANGED <<phase, target, jobId, result, asked, channels, refs, sent, server, analyses, calm, refused>>

\* The stream's `done` frame: finalize asks for the job first.  The stream is
\* closed, and stays in sourceRef.
onDone(j) ==
  /\ j \in streams \ silent /\ Ended(j)
  /\ streams' = streams \ {j}
  /\ IF settled \/ activeJob # j THEN UNCHANGED sent ELSE Send("getJob", j)
  /\ UNCHANGED <<shown, asked, source, silent, pollRef, intervals, refs, server, analyses, calm, refused>>

\* The stream breaks: polling takes over.
onError(j) ==
  /\ j \in streams
  /\ streams' = streams \ {j} /\ silent' = silent \ {j}
  /\ IF activeJob = j /\ ~settled THEN startPolling(j) ELSE UNCHANGED <<pollRef, intervals, sent>>
  /\ UNCHANGED <<shown, asked, source, refs, server, analyses, calm, refused>>

tick(j) ==
  /\ j \in intervals
  /\ Send("tick", j)
  /\ UNCHANGED <<shown, asked, channels, refs, server, analyses, calm, refused>>

\* finalize from where it knows the job's end: settle, then show the failure
\* or ask for the result.  k is the request whose answer brought the end.
settle(j, k) ==
  /\ settled' = TRUE
  /\ teardown
  /\ IF server[j] = "failed"
     THEN fail /\ Answered(k, j)
     ELSE /\ UNCHANGED shown
          /\ sent' = [sent EXCEPT ![k][j] = @ - 1, !["getResult"][j] = @ + 1]

\* getJob answers a tick.
tickAnswered(j) ==
  /\ InFlight("tick", j)
  /\ IF activeJob = j /\ Ended(j) /\ ~settled
     THEN settle(j, "tick")
     ELSE Answered("tick", j) /\ UNCHANGED <<shown, channels, settled>>
  /\ UNCHANGED <<asked, activeJob, server, analyses, calm, refused>>

\* The catch of a tick asks nothing about the job it belongs to.
tickFails(j) ==
  /\ InFlight("tick", j) /\ Answered("tick", j)
  /\ teardown /\ fail /\ refused' = TRUE
  /\ UNCHANGED <<asked, refs, server, analyses, calm>>

\* getJob answers finalize.
finalizeAnswered(j) ==
  /\ InFlight("getJob", j)
  /\ IF activeJob = j THEN settle(j, "getJob")
     ELSE Answered("getJob", j) /\ UNCHANGED <<shown, channels, settled>>
  /\ UNCHANGED <<asked, activeJob, server, analyses, calm, refused>>

\* Mutant: does not look whose result it is.
resultAnsweredAnyway(j) ==
  /\ InFlight("getResult", j) /\ Answered("getResult", j)
  /\ phase' = "ready" /\ result' = j /\ UNCHANGED <<target, jobId, stage>>
  /\ UNCHANGED <<asked, channels, refs, server, analyses, calm, refused>>

\* getResult answers finalize.  A completed job whose result is still pending
\* is shown as failed.
resultAnswered(j) ==
  /\ InFlight("getResult", j) /\ Answered("getResult", j)
  /\ IF activeJob # j THEN UNCHANGED <<shown, refused>>
     ELSE \/ phase' = "ready" /\ result' = j /\ UNCHANGED <<target, jobId, stage, refused>>
          \/ fail /\ refused' = TRUE
  /\ UNCHANGED <<asked, channels, refs, server, analyses, calm>>

finalizeFails(j) ==
  /\ \E k \in {"getJob", "getResult"} : InFlight(k, j) /\ Answered(k, j)
  /\ settled' = TRUE
  /\ teardown /\ fail /\ refused' = TRUE
  /\ UNCHANGED <<asked, activeJob, server, analyses, calm>>

\* The answer is shown whatever is analysed by then.
askQuestion ==
  /\ jobId # None
  /\ sent["ask"][jobId] < Questions /\ Send("ask", jobId)
  /\ askAbout' = None /\ asking' = TRUE
  /\ UNCHANGED <<shown, channels, refs, server, analyses, calm, refused>>
askAnswered(j) ==
  /\ InFlight("ask", j) /\ Answered("ask", j)
  /\ asking' = FALSE
  /\ \/ askAbout' = j
     \/ askAbout' = None
  /\ UNCHANGED <<shown, channels, refs, server, analyses, calm, refused>>

User == analyze \/ askQuestion
Hook(j) ==
  \/ created(j) \/ createFails(j) \/ onDone(j) \/ onError(j) \/ tick(j)
  \/ tickAnswered(j) \/ tickFails(j) \/ finalizeAnswered(j) \/ resultAnswered(j) \/ finalizeFails(j)
  \/ askAnswered(j)
Next == User \/ \E j \in Job : Hook(j) \/ onStageEvent(j) \/ Serve(j) \/ GoesSilent(j)

\* Requests are answered or fail, jobs end, streams that do not go silent end
\* with them, intervals fire.
Fairness ==
  \A j \in Job :
    /\ WF_dashboardVars(Serve(j))
    /\ WF_dashboardVars(created(j) \/ createFails(j))
    /\ WF_dashboardVars(j \notin silent /\ (onDone(j) \/ (Ended(j) /\ onError(j))))
    /\ WF_dashboardVars(tick(j))
    /\ WF_dashboardVars(tickAnswered(j) \/ tickFails(j))
    /\ WF_dashboardVars(finalizeAnswered(j) \/ resultAnswered(j) \/ finalizeFails(j))

----------------------------------------------------------------------------

\* The result shown beside a job's id is that job's, of what the user asked
\* for unless two analyses overlapped (useAnalysis.ts:95-127, :163-164).
ResultIsOfTheJob ==
  phase = "ready" /\ jobId # None =>
    /\ result = jobId
    /\ calm => target = Targets[jobId]

\* An analysis that began alone is shown as failed when the job failed or a
\* request did, and no other way (useAnalysis.ts:103-122).
FailuresAreReal ==
  calm /\ phase = "failed" => refused \/ server[activeJob] = "failed"

\* So is the answer to a question, unless the user went on to another
\* repository before it came (useAnalysis.ts:197-212).
AnswerIsAboutTheJob ==
  calm /\ ~asking /\ askAbout # None => askAbout = jobId

\* Once it settled nothing of it is left open, and it is never watched twice
\* (useAnalysis.ts:77-86).
NothingIsLeftOpen ==
  calm /\ phase # "starting" =>
    /\ Cardinality(streams) + Cardinality(intervals) <= 1
    /\ settled => streams = {} /\ intervals = {}

DashboardIsHonest == TypeOK /\ ResultIsOfTheJob /\ AnswerIsAboutTheJob /\ FailuresAreReal /\ NothingIsLeftOpen

\* A stage shown as ended stays so while its job is shown (useAnalysis.ts:28-30).
StagesStayEnded ==
  [][jobId' = jobId /\ terminal(stage) => terminal(stage')]_dashboardVars

\* An analysis that began alone ends, or the user starts another over it, or the
\* stream it waits for has gone silent, which the driver does not notice: it
\* polls only when there is no stream or the stream breaks (useAnalysis.ts:18-24,
\* :186-193).
AnalysesEnd ==
  (calm /\ phase \in {"starting", "running"}) ~>
    (~calm \/ phase \in {"ready", "failed"} \/ silent # {})

DashboardSettles == StagesStayEnded /\ AnalysesEnd
=============================================================================
