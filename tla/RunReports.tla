----------------------------- MODULE RunReports -----------------------------
(***************************************************************************)
(* The reports of one execution: RunExecutor.execute sends events,         *)
(* heartbeats, log chunks, snapshots, the end of the log and the result;   *)
(* what the platform does not answer goes to the Agent's spool, a          *)
(* directory that is flushed in order after every Agent heartbeat.         *)
(*                                                                         *)
(* An answer may be lost after the platform has stored the report.  Then   *)
(* the report is sent again.  The platform stores the chunks of a stream   *)
(* under a unique number, everything else as often as it comes.            *)
(*                                                                         *)
(* The node stays: an Agent whose node is removed is part of NodeLifecycle.*)
(***************************************************************************)
EXTENDS Naturals, Sequences

VARIABLES
    execution,     \* the thread that executes the run
    spool,         \* spool_dir, oldest first
    stored,        \* what the platform has of the run
    instance       \* the process of the Agent: the one that took the run or a later one

reportVars == <<execution, spool, stored, instance>>

Verdicts == {"SUCCEEDED", "FAILED", "TIMED_OUT"}
Kinds    == {"EVENT", "CHUNK", "ERROR_CHUNK", "SNAPSHOT", "FINAL", "RESULT"}

\* What is done next, by the way the execution goes.  The reports of a stage
\* that do not differ to the platform are one.
Course == [
    START     |-> <<"EVENT", "PULL", "BEAT", "EVENT", "RUN", "EVENT", "SNAPSHOT", "BEAT", "WAIT">>,
    EXITED    |-> <<"CHUNK", "SNAPSHOT", "FINAL", "EVENT", "RESULT", "CLEAN">>,
    TIMED_OUT |-> <<"CHUNK", "FINAL", "EVENT", "SNAPSHOT", "RESULT", "CLEAN">>,
    RAISED    |-> <<"EVENT", "ERROR_CHUNK", "FINAL", "RESULT", "CLEAN">>,
    GONE      |-> <<"NOTHING">>]

\* One type invariant for the Agent's and the platform's side.
ReportTypeOK ==
    /\ execution.way \in DOMAIN Course
    /\ execution.step \in 1..Len(Course[execution.way])
    /\ execution.verdict \in Verdicts \cup {"NONE"}
    /\ \A i \in DOMAIN spool : spool[i] \in [kind : Kinds, verdict : Verdicts \cup {"NONE"}]
    /\ stored \in [chunks : SUBSET {"CHUNK", "ERROR_CHUNK"},
                   log    : {"PENDING", "UPLOADING", "COMPLETE", "FAILED"},
                   status : {"ACTIVE", "LOST"} \cup Verdicts,
                   result : Verdicts \cup {"NONE"}]
    /\ instance \in {"SAME", "STARTED", "NEW"}

\* The run has been claimed.
ReportInit ==
    /\ execution = [way |-> "START", step |-> 1, verdict |-> "NONE"]
    /\ spool = <<>>
    /\ stored = [chunks |-> {}, log |-> "PENDING", status |-> "ACTIVE", result |-> "NONE"]
    /\ instance = "SAME"

Doing == Course[execution.way][execution.step]
Onward == [execution EXCEPT !.step = @ + 1]

Goes(way, verdict) == [way |-> way, step |-> 1, verdict |-> verdict]

\* Mutant: the verdict is not set.
RaisedUndecided ==
    IF execution.way = "RAISED"
    THEN [execution EXCEPT !.step = Len(Course["RAISED"])]
    ELSE Goes("RAISED", "NONE")

\* except Exception: FAILED is reported.  A second exception ends it all.
Raised ==
    IF execution.way = "RAISED"
    THEN [execution EXCEPT !.step = Len(Course["RAISED"])]
    ELSE Goes("RAISED", "FAILED")

-----------------------------------------------------------------------------
(* The platform *)

\* _agent_run, and finish_run: not the instance that sent the last heartbeat.
Replaced == instance = "NEW"

\* append_chunk, container snapshots, finalize, finish_run.  A log that goes
\* on after its end is UPLOADING again; a result does not change a status
\* that is terminal but takes the place of the stored one.
Stores(report) ==
    CASE report.kind \in {"CHUNK", "ERROR_CHUNK"} ->
             [stored EXCEPT !.chunks = @ \cup {report.kind}, !.log = "UPLOADING"]
      [] report.kind = "FINAL" ->
             [stored EXCEPT !.log = IF report.verdict = "FAILED" THEN "FAILED" ELSE "COMPLETE"]
      [] report.kind = "RESULT" ->
             [stored EXCEPT !.result = report.verdict,
                            !.status = IF @ = "ACTIVE" THEN report.verdict ELSE @]
      [] OTHER -> stored

\* uk_run_log_chunk_seq: the chunk is there already, the answer is an error.
Duplicate(report) == report.kind \in stored.chunks

-----------------------------------------------------------------------------
(* The execution *)

Report == [kind |-> Doing,
           verdict |-> CASE Doing = "RESULT" -> execution.verdict
                         [] Doing = "FINAL" /\ execution.way = "RAISED" -> "FAILED"
                         [] OTHER -> "NONE"]

Reporting == Doing \in Kinds

\* The report is stored and answered.
Reports ==
    /\ Reporting
    /\ stored' = Stores(Report)
    /\ execution' = Onward
    /\ UNCHANGED <<spool, instance>>

\* except PlatformUnavailable: the report goes to the spool.
Spooled ==
    /\ spool' = Append(spool, Report)
    /\ execution' = Onward

\* It is stored, but the answer is lost ...
AnswerLost ==
    /\ Reporting
    /\ stored' = Stores(Report)
    /\ Spooled
    /\ UNCHANGED instance

\* ... or it did not arrive.
Unreachable ==
    /\ Reporting
    /\ Spooled
    /\ UNCHANGED <<stored, instance>>

\* A heartbeat of the run is answered.
Beats ==
    /\ Doing = "BEAT" /\ stored.status = "ACTIVE"
    /\ execution' = Onward
    /\ UNCHANGED <<spool, stored, instance>>

\* It is refused, or not answered: it is not spooled but raises.
BeatRaises ==
    /\ Doing = "BEAT"
    /\ execution' = Raised
    /\ UNCHANGED <<spool, stored, instance>>

\* The image is pulled and verified, the container created.
Docker ==
    /\ Doing \in {"PULL", "RUN"}
    /\ execution' \in {Onward, Raised}
    /\ UNCHANGED <<spool, stored, instance>>

\* The container exits, also because the keepalive thread stopped it, or is
\* stopped after the timeout, or the Docker daemon fails.
Exits ==
    /\ Doing = "WAIT"
    /\ execution' \in {Goes("EXITED", "SUCCEEDED"), Goes("EXITED", "FAILED"),
                       Goes("TIMED_OUT", "TIMED_OUT"), Raised}
    /\ UNCHANGED <<spool, stored, instance>>

\* finally: the container is removed.
Cleans ==
    /\ Doing = "CLEAN"
    /\ execution' = Goes("GONE", "NONE")
    /\ UNCHANGED <<spool, stored, instance>>

-----------------------------------------------------------------------------
(* The loop of the Agent, and what happens around it *)

\* Mutant: a report is given up at the first error.
KeptNot == Tail(spool)

\* except Exception: break.
Kept == spool

\* flush_spool: the oldest report is stored and removed.
FlushDelivers ==
    /\ spool # <<>> /\ ~Replaced /\ instance # "STARTED"
    /\ ~Duplicate(Head(spool))
    /\ stored' = Stores(Head(spool))
    /\ spool' = Tail(spool)
    /\ UNCHANGED <<execution, instance>>

\* It does not arrive, the answer is lost, or the answer is an error.
FlushFails ==
    /\ spool # <<>> /\ ~Replaced /\ instance # "STARTED"
    /\ stored' \in {stored} \cup
           {Stores(report) : report \in {r \in {Head(spool)} : ~Duplicate(r)}}
    /\ spool' = Kept
    /\ UNCHANGED <<execution, instance>>

\* except LeaseLostError: it is given up.
FlushDrops ==
    /\ spool # <<>> /\ Replaced
    /\ spool' = Tail(spool)
    /\ UNCHANGED <<execution, stored, instance>>

\* The Agent restarts: the thread is gone, the spool is not.
AgentDies ==
    /\ instance = "SAME"
    /\ instance' = "STARTED"
    /\ execution' = Goes("GONE", "NONE")
    /\ UNCHANGED <<spool, stored>>

\* Its first heartbeat makes the new process the Agent's instance; a run
\* whose container it does not see is LOST.
AgentReturns ==
    /\ instance = "STARTED"
    /\ instance' = "NEW"
    /\ stored' \in {stored, [stored EXCEPT !.status = IF @ = "ACTIVE" THEN "LOST" ELSE @]}
    /\ UNCHANGED <<execution, spool>>

\* mark_lost_runs: no heartbeat of the run in time.
LeaseExpires ==
    /\ stored.status = "ACTIVE"
    /\ stored' = [stored EXCEPT !.status = "LOST"]
    /\ UNCHANGED <<execution, spool, instance>>

ReportNext ==
    \/ Reports \/ AnswerLost \/ Unreachable
    \/ Beats \/ BeatRaises \/ Docker \/ Exits \/ Cleans
    \/ FlushDelivers \/ FlushFails \/ FlushDrops
    \/ AgentDies \/ AgentReturns \/ LeaseExpires

-----------------------------------------------------------------------------
(* Fairness: a platform that keeps being asked answers in the end.  Nothing *)
(* else is assumed: an execution may last for ever.                         *)

ReportSpec == ReportInit /\ [][ReportNext]_reportVars /\ SF_reportVars(FlushDelivers)

\* A chunk whose answer was lost is at the head: it is refused as a duplicate
\* for ever and everything behind it stays.
Blocked == spool # <<>> /\ Duplicate(Head(spool))

\* A result that arrived is never exchanged for another one: what is sent
\* again, after a lost answer, from the spool or after an exception, is the
\* same verdict (RunExecutor.execute, flush_spool, finish_run).
ResultStays == [][stored.result # "NONE" => stored'.result = stored.result]_reportVars

\* Besides, an execution that is over has its result on the platform in the
\* end, although any report may have been left to the spool
\* (RELEASE_NOTES_1.0.15.md:13), unless a chunk blocks the spool or the Agent
\* restarts, whose new process has its reports refused (flush_spool,
\* finish_run).  GONE is never left.
ResultReported ==
    /\ ResultStays
    /\ []<>(execution.way = "GONE" => stored.result # "NONE" \/ Blocked \/ instance # "SAME")

=============================================================================
