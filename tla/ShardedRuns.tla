----------------------------- MODULE ShardedRuns -----------------------------
(***************************************************************************)
(* A run in SHARDED mode: a parent row that no Agent ever takes, and one   *)
(* row per shard.  The requests that end a shard look whether all shards   *)
(* of the parent have ended and then end the parent, but not all of them:  *)
(* the sweep of lost leases and finish_run do, a cancel of a queued shard, *)
(* a configuration that does not resolve and the replacement of an Agent   *)
(* do not.                                                                 *)
(*                                                                         *)
(* A retry is another row of its shard.  The session does not flush before *)
(* a query (db.py: autoflush=False), so that the row a request has created *)
(* last is in the database without its parent when the same request looks  *)
(* for the rows of the parent.                                             *)
(*                                                                         *)
(* Where a shard runs is not modelled (RunScheduler), nor are the two      *)
(* heartbeats between the claim and RUNNING.                               *)
(***************************************************************************)
EXTENDS Naturals, SequencesExt

LOCAL INSTANCE RunStates

CONSTANTS
    MaxShards,    \* required_node_count, max_parallel_nodes
    MaxAttempts,  \* max_retry_count + 1
    MaxRows,      \* a bound of the model: the shards with their retries
    Results       \* what an Agent may report of a shard

ASSUME ShardAssumption ==
    /\ MaxRows \in Nat /\ MaxShards \in 1..MaxRows /\ MaxAttempts \in Nat \ {0}
    /\ Results \subseteq AgentResults

VARIABLES
    parent,       \* the status of the parent row
    shard,        \* the rows with its parent_run_id, oldest first
    ending        \* whether the request that ended a shard last aggregated

shardVars == <<parent, shard, ending>>

Rows == DOMAIN shard

ShardTypeOK ==
    /\ parent \in {"RUNNING", "CANCEL_REQUESTED"} \cup Terminal
    /\ Len(shard) <= MaxRows
    /\ \A i \in Rows : shard[i] \in [status : RunStatus, stranded : BOOLEAN, lease : BOOLEAN,
                                     heard : BOOLEAN, attempt : 1..MaxAttempts]
    /\ ending \in {"NONE", "TOLD", "SILENT"}

Fresh(attempt) == [status |-> "QUEUED", stranded |-> FALSE, lease |-> FALSE,
                   heard |-> FALSE, attempt |-> attempt]

\* _create_sharded_run
ShardInit ==
    /\ parent = "RUNNING"
    /\ \E count \in 1..MaxShards : shard = [i \in 1..count |-> Fresh(1)]
    /\ ending = "NONE"

-----------------------------------------------------------------------------
(* Aggregation *)

\* The outcome of a parent, by the statuses of its rows; the first that fits.
OutcomeOf(statuses) ==
    IF statuses = {"SUCCEEDED"} THEN "SUCCEEDED"
    ELSE IF "SUCCEEDED" \in statuses THEN "PARTIAL_SUCCESS"
    ELSE IF statuses = {"CANCELLED"} THEN "CANCELLED"
    ELSE IF "TIMED_OUT" \in statuses THEN "TIMED_OUT"
    ELSE IF "LOST" \in statuses THEN "LOST"
    ELSE "FAILED"

StatusesOf(rows) == {rows[i].status : i \in DOMAIN rows}

\* aggregate_sharded_parent, which finds the given rows.
Aggregated(rows) ==
    IF parent \in Terminal \/ ~(StatusesOf(rows) \subseteq Terminal) THEN parent
    ELSE OutcomeOf(StatusesOf(rows))

\* maybe_retry
RetryDue(row) == row.status \in AutoRetry /\ row.attempt < MaxAttempts

\* The retries of the rows that have ended.
Retries(rows, ended) ==
    LET due == SetToSeq({i \in ended : RetryDue(rows[i])})
    IN  [k \in DOMAIN due |-> Fresh(rows[due[k]].attempt + 1)]

\* Mutant: the parent is looked at before the result is stored.
AggregatedFirst(rows, retries, flushed) == parent' = Aggregated(shard)

\* Both requests retry first and then look at the parent, where the newest
\* retry is missing, unless a row of another parent was retried in between.
RetriedAndAggregated(rows, retries, flushed) ==
    parent' = Aggregated(rows \o IF retries = <<>> \/ flushed THEN retries ELSE Front(retries))

EndsTold(rows, ended, flushed) ==
    LET retries == Retries(rows, ended)
    IN  /\ Len(rows) + Len(retries) <= MaxRows
        /\ shard' = rows \o retries
        /\ RetriedAndAggregated(rows, retries, flushed)
        /\ ending' = "TOLD"

\* A request that does not aggregate, and ends a shard or not.
Sets(rows) ==
    /\ shard' = rows
    /\ ending' = IF \E i \in Rows : shard[i].status \notin Terminal /\ rows[i].status \in Terminal
                 THEN "SILENT" ELSE ending
    /\ UNCHANGED parent

-----------------------------------------------------------------------------
(* Agents *)

Waiting(i) == shard[i].status = "QUEUED" /\ ~shard[i].stranded
Taken(i)   == shard[i].status \in Executing

\* claim_run: the shard is taken ...
ClaimShard(i) ==
    /\ Waiting(i)
    /\ Sets([shard EXCEPT ![i].status = "RUNNING", ![i].lease = TRUE, ![i].heard = TRUE])

\* ... or its task is switched off: ROUTE_CANCELLED ...
ShardStranded(i) ==
    /\ Waiting(i)
    /\ Sets([shard EXCEPT ![i].stranded = TRUE])

\* ... or its configuration does not resolve.
ShardMisconfigured(i) ==
    /\ Waiting(i)
    /\ Sets([shard EXCEPT ![i].status = "FAILED", ![i].stranded = TRUE])

\* finish_run, also for a result that comes late or twice.
FinishShard(i, result) ==
    /\ shard[i].heard
    /\ EndsTold([shard EXCEPT ![i].status = SafeSet(@, result), ![i].lease = FALSE], {i}, FALSE)

\* mark_lost_runs: the rows S have run out; one is the last it takes.
SweepLosesShards(S, last, flushed) ==
    LET lost == [i \in Rows |-> IF i \in S THEN [shard[i] EXCEPT !.status = "LOST", !.lease = FALSE]
                                ELSE shard[i]]
    IN  /\ last \in S
        /\ \A i \in S : Taken(i) /\ shard[i].lease
        /\ flushed => ~RetryDue(lost[last])
        /\ EndsTold(lost, S, flushed)

\* _mark_agent_runs_lost: A are the shards of one Agent, whose new process is
\* not the one that may report, and kept those whose container it found.
AgentReplaced(A, kept) ==
    /\ A # {} /\ \A i \in A : shard[i].heard
    /\ kept \subseteq {i \in A : Taken(i)}
    /\ Sets([i \in Rows |->
          IF i \notin A THEN shard[i]
          ELSE IF i \in kept THEN [shard[i] EXCEPT !.heard = FALSE, !.lease = TRUE]
          ELSE IF Taken(i) THEN [shard[i] EXCEPT !.heard = FALSE, !.lease = FALSE, !.status = "LOST"]
          ELSE [shard[i] EXCEPT !.heard = FALSE]])

-----------------------------------------------------------------------------
(* Users and the scheduler *)

Cancelled(row) ==
    CASE row.status = "QUEUED"  -> [row EXCEPT !.status = "CANCELLED", !.stranded = TRUE]
      [] row.status = "RUNNING" -> [row EXCEPT !.status = "CANCEL_REQUESTED"]
      [] OTHER -> row

\* request_cancel, of a shard ...
CancelShard(i) ==
    /\ shard[i].status \in {"QUEUED", "RUNNING"}
    /\ Sets([shard EXCEPT ![i] = Cancelled(@)])

\* ... and of the parent, whose shards go on.
CancelParent ==
    /\ parent = "RUNNING"
    /\ parent' = "CANCEL_REQUESTED"
    /\ UNCHANGED <<shard, ending>>

\* The overlap policy CANCEL_OLD takes every row of the task for itself.
CancelOld ==
    /\ parent = "RUNNING" \/ \E i \in Rows : Cancelled(shard[i]) # shard[i]
    /\ shard' = [i \in Rows |-> Cancelled(shard[i])]
    /\ ending' = IF \E i \in Rows : shard[i].status = "QUEUED" THEN "SILENT" ELSE ending
    /\ parent' = IF parent = "RUNNING" THEN "CANCEL_REQUESTED" ELSE parent

ShardNext ==
    \/ \E i \in Rows : \/ ClaimShard(i) \/ ShardStranded(i) \/ ShardMisconfigured(i)
                       \/ CancelShard(i)
                       \/ \E result \in Results : FinishShard(i, result)
    \/ \E S \in SUBSET Rows : \/ \E last \in S, flushed \in BOOLEAN : SweepLosesShards(S, last, flushed)
                              \/ \E kept \in SUBSET S : AgentReplaced(S, kept)
    \/ CancelParent \/ CancelOld

ShardSpec == ShardInit /\ [][ShardNext]_shardVars

-----------------------------------------------------------------------------
(* Properties *)

\* The parent ends with its shards.  Once ended it stays as it is, whatever
\* comes late or twice.  When it ends no row of a shard that was there before
\* goes on, and one retry at most has just begun beside it (maybe_retry,
\* aggregate_sharded_parent).  It never hides a shard that failed.  And it is
\* left behind by its shards only when the last of them was ended by a
\* request that does not look at it.
ParentFollowsShards ==
    /\ [][(parent \in Terminal) => UNCHANGED parent]_shardVars
    /\ [][(parent \notin Terminal) /\ parent' \in Terminal =>
            /\ \A i \in Rows : shard'[i].status \in Terminal
            /\ Len(shard') <= Len(shard) + 1]_shardVars
    /\ [](parent = "SUCCEEDED" => StatusesOf(shard) = {"SUCCEEDED"})
    /\ [](StatusesOf(shard) \subseteq Terminal => parent \in Terminal \/ ending = "SILENT")

=============================================================================
