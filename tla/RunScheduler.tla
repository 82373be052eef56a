----------------------------- MODULE RunScheduler -----------------------------
(***************************************************************************)
(* The life of the run instances of one project: how the scheduler, the    *)
(* API, the Agents' requests and the maintenance worker create, route,     *)
(* hand out, renew, cancel, lose, retry and finish them.  One action per   *)
(* handler; each handler is one database transaction and is atomic here.   *)
(* Tasks run in SINGLE mode.                                               *)
(*                                                                         *)
(* Sources: run_service.py, scheduler_service.py, routing_service.py and   *)
(* agent_service.py of backend/app/services, the loops scheduler_main.py   *)
(* and worker_main.py, and task_service.py for the switches of a task.     *)
(***************************************************************************)
EXTENDS Naturals, FiniteSets, RunStates

CONSTANTS
  Tasks, Servers,   \* tasks of the project; nodes, each with one Agent
  None,             \* no task, no server
  MaxRuns,          \* BOUND: rows of crawler_task_run
  MaxConc,          \* task_max_concurrency, 0 for no limit
  Group, GroupMax,  \* task_group and group_max_concurrency
  Exclusive,        \* exclusive_mode
  Locks,            \* resource_locks
  Targets,          \* enabled task_server_targets; every node when there are none
  Retryable,        \* idempotency_policy is IDEMPOTENT or CHECKPOINTABLE
  MaxAttempts,      \* max_attempts = max_retry_count + 1
  Scheduled,        \* the tasks whose schedule_type is CRON, not MANUAL
  Overlap,          \* overlap_policy of the task's schedule
  Slots, Priority,  \* slots the project may use on a node; its priority there
  Results,          \* the results the executors report
  NodeModes,        \* the modes the environment puts a node in
  TaskStatuses      \* the statuses the operators give a task

ASSUME ConstantsAssumption ==
  /\ None \notin Tasks /\ None \notin Servers
  /\ MaxRuns \in Nat
  /\ IsFiniteSet(Servers)
  /\ MaxConc \in [Tasks -> Nat]
  /\ DOMAIN Group = Tasks
  /\ GroupMax \in [Tasks -> Nat]
  /\ Exclusive \in [Tasks -> BOOLEAN]
  /\ DOMAIN Locks = Tasks
  /\ Targets \in [Tasks -> SUBSET Servers]
  /\ Retryable \in [Tasks -> BOOLEAN]
  /\ MaxAttempts \in [Tasks -> Nat \ {0}]
  /\ Scheduled \subseteq Tasks
  /\ Overlap \in [Tasks -> {"SKIP", "QUEUE", "CONCURRENT", "CANCEL_OLD"}]
  /\ Slots \in [Servers -> Nat]
  /\ Priority \in [Servers -> Nat]
  /\ Results \subseteq AgentResults /\ "FAILED" \in Results
  /\ NodeModes \subseteq {"READY", "REFUSING", "CLOSED"} /\ "READY" \in NodeModes
  /\ TaskStatuses \subseteq {"ENABLED", "DRAFT", "DISABLED"} /\ "ENABLED" \in TaskStatuses

VARIABLES
  run,         \* the rows of crawler_task_run, by run_id
  node,        \* what a node may do for the project
  taskStatus,  \* CrawlerTask.status (DISABLED also for a disabled project)
  sched        \* the task's schedule: WAIT, DUE, or OFF (PAUSED, ERROR)

vars == <<run, node, taskStatus, sched>>

RunIds == 1..MaxRuns

(***************************************************************************)
(* A row.  held: routing_reason says the overlap policy queues the run.    *)
(* agent: the Agent of that node holds the lease token.  owner: whether    *)
(* the Agent process that received the token is still the registered       *)
(* instance (requests of a replaced one are answered 403).  lease: where   *)
(* lease_expires_at is.  reported: finish_run has stored a result.         *)
(***************************************************************************)
Row == [task : Tasks \cup {None}, trigger : {"MANUAL", "SCHEDULE"},
        status : RunStatus \cup {"ABSENT"}, routing : RoutingStatus, held : BOOLEAN,
        server : Servers \cup {None}, agent : Servers \cup {None},
        owner : {"none", "current", "replaced"}, lease : {"none", "live", "expired"},
        attempt : Nat, root : 0..MaxRuns, retryOf : 0..MaxRuns, reported : BOOLEAN]

Absent == [task |-> None, trigger |-> "MANUAL", status |-> "ABSENT",
           routing |-> "PENDING", held |-> FALSE, server |-> None, agent |-> None,
           owner |-> "none", lease |-> "none", attempt |-> 1, root |-> 0, retryOf |-> 0, reported |-> FALSE]

\* node is READY when _resolve_candidates selects it and claims are accepted;
\* REFUSING when its Agent is served but _can_server_claim is false (paused or
\* ejected, image not ready, another release); CLOSED when claim_run returns
\* before it looks for a run (offline, unhealthy, full, not ENABLED).
TypeOK ==
  /\ run \in [RunIds -> Row]
  /\ node \in [Servers -> NodeModes]
  /\ taskStatus \in [Tasks -> TaskStatuses]
  /\ sched \in [Tasks -> {"WAIT", "DUE", "OFF"}]

Init ==
  /\ run = [r \in RunIds |-> Absent]
  /\ node = [s \in Servers |-> "READY"]
  /\ taskStatus = [t \in Tasks |-> "ENABLED"]
  /\ sched = [t \in Tasks |-> IF t \in Scheduled THEN "WAIT" ELSE "OFF"]

-------------------------------------------------------------------------------
(* Routing: RoutingService *)

\* Mutant: only the runs an Agent holds count, as the comment of the code says.
CompetingHeldByAgents(rs, r) == {q \in RunIds \ {r} : rs[q].status \in Executing}

\* The rows _runtime_policy_block_reason counts against r.
Competing(rs, r) ==
  {q \in RunIds \ {r} : rs[q].status \in Active /\ rs[q].routing # "ROUTE_CANCELLED"}

GroupLimit(t) == IF GroupMax[t] = 0 THEN 1 ELSE GroupMax[t]

\* Mutant: the resource locks are only compared with the runs of the same task.
BlockedByOwnLocks(rs, r) ==
  LET t == rs[r].task
      others == Competing(rs, r)
  IN \/ Cardinality({q \in others : Group[rs[q].task] = Group[t]}) >= GroupLimit(t)
     \/ \E q \in others : rs[q].task = t /\ Locks[t] # {}

Blocked(rs, r) ==
  LET t == rs[r].task
      others == Competing(rs, r)
  IN \/ /\ MaxConc[t] > 0
        /\ Cardinality({q \in others : rs[q].task = t}) >= MaxConc[t]
     \/ Cardinality({q \in others : Group[rs[q].task] = Group[t]}) >= GroupLimit(t)
     \/ Exclusive[t] /\ others # {}
     \/ \E q \in others : Locks[t] \cap Locks[rs[q].task] # {}

\* _resolve_candidates: the nodes that qualify, whatever their load.
Candidates(nd, t) == {s \in Targets[t] : nd[s] = "READY"}

Load(rs, s) == Cardinality({q \in RunIds : rs[q].server = s /\ rs[q].status \in Executing})

\* _score_candidates, with the weights of priority and of the two load terms.
Available(rs, nd, t) == {s \in Candidates(nd, t) : Load(rs, s) < Slots[s]}
Score(rs, s) == 100000 * Priority[s] + 1100 * Load(rs, s)
Best(rs, S) == CHOOSE s \in S : \A q \in S : Score(rs, s) <= Score(rs, q)

\* route_run: the row of r afterwards. Equal scores keep the order of the
\* query, which CHOOSE fixes.
Route(rs, nd, r) ==
  LET free == Available(rs, nd, rs[r].task)
  IN IF Blocked(rs, r) \/ free = {}
       THEN [rs[r] EXCEPT !.server = None, !.routing = "WAITING_RESOURCE", !.held = FALSE]
       ELSE [rs[r] EXCEPT !.server = Best(rs, free), !.routing = "ROUTED", !.held = FALSE]

\* Mutant: queued runs do not see one another.
HasOtherStarted(rs, r) ==
  \E q \in RunIds \ {r} : rs[q].task = rs[r].task /\ rs[q].status \in Executing

\* _has_older_active_run: any other active run of the task, older or not.
HasOtherActive(rs, r) ==
  \E q \in RunIds \ {r} : /\ rs[q].task = rs[r].task
                          /\ rs[q].root # rs[r].root
                          /\ rs[q].status \in Active

\* Mutant: the query selects by run_status alone.
UnclaimedAnyRouting(rs) == {r \in RunIds : rs[r].status = "QUEUED"}

Unclaimed(rs) ==
  {r \in RunIds : /\ rs[r].status = "QUEUED"
                  /\ rs[r].routing \in {"PENDING", "WAITING_RESOURCE", "WARMING_IMAGE", "ROUTED"}}

\* The rows the loop skips: queued behind another run, or routed to a node
\* that still qualifies (_server_still_eligible).
Settled(rs, nd, r) ==
  \/ rs[r].held /\ HasOtherActive(rs, r)
  \/ ~rs[r].held /\ rs[r].routing = "ROUTED" /\ rs[r].server \in Candidates(nd, rs[r].task)

\* reroute_or_wait_unclaimed: the session does not flush between the rows
\* (autoflush is off), so each row is routed against the state before the loop.
Rerouted(rs, nd) ==
  [r \in RunIds |-> IF r \in Unclaimed(rs) /\ ~Settled(rs, nd, r)
                      THEN Route(rs, nd, r) ELSE rs[r]]

-------------------------------------------------------------------------------
(* Creation: RunService.create_run, maybe_retry and the scheduler's rows *)

IsNextId(rs, n) ==
  /\ rs[n].status = "ABSENT"
  /\ \A m \in RunIds : m < n => rs[m].status # "ABSENT"

Fresh(t, n, by) ==
  [Absent EXCEPT !.task = t, !.trigger = by, !.status = "QUEUED", !.root = n]

Inserted(rs, t, n, by) == [rs EXCEPT ![n] = Fresh(t, n, by)]

Held(row) == [row EXCEPT !.routing = "WAITING_RESOURCE", !.held = TRUE]

\* _create_single_run: the row is inserted and flushed, then routed or held.
Created(rs, nd, t, n, by) ==
  LET born == Inserted(rs, t, n, by)
  IN [born EXCEPT ![n] = Route(born, nd, n)]

Queued(rs, t, n, by) == [rs EXCEPT ![n] = Held(Fresh(t, n, by))]

\* _create_skipped: a terminal row that only records the missed trigger.
Skipped(rs, t, n) ==
  [rs EXCEPT ![n] = [Absent EXCEPT !.task = t, !.trigger = "SCHEDULE",
                                   !.status = "SKIPPED", !.routing = "ROUTE_CANCELLED"]]

\* Mutant: off by one, max_attempts counts the retries only.
RetryDueOnceMore(row) ==
  row.status \in AutoRetry /\ Retryable[row.task] /\ row.attempt <= MaxAttempts[row.task]

RetryDue(row) ==
  /\ row.status \in AutoRetry
  /\ Retryable[row.task]
  /\ row.attempt < MaxAttempts[row.task]

\* A retry is an ordinary new run, tied to its root after it has been routed.
Retried(rs, nd, r, n) ==
  [Created(rs, nd, rs[r].task, n, rs[r].trigger) EXCEPT ![n] =
     [@ EXCEPT !.attempt = rs[r].attempt + 1, !.root = rs[r].root, !.retryOf = r]]

\* maybe_retry, the last step of the handlers that end a run: it does not ask
\* whether r has been retried before.
MaybeRetry(rs, r) ==
  IF RetryDue(rs[r])
    THEN \E n \in RunIds : IsNextId(rs, n) /\ run' = Retried(rs, node, r, n)
    ELSE run' = rs

-------------------------------------------------------------------------------
(* The scheduler and the operators *)

ActiveOf(t) == {r \in RunIds : run[r].task = t /\ run[r].status \in Active}

\* The node part of TaskRuntimeReadinessService.evaluate.
NodesReady(t) == Candidates(node, t) # {}

Tick(t) ==
  /\ sched[t] = "WAIT"
  /\ sched' = [sched EXCEPT ![t] = "DUE"]
  /\ UNCHANGED <<run, node, taskStatus>>

\* _advance: next_run_at moves to the next time of the cron expression.
Advance(t) == sched' = [sched EXCEPT ![t] = "WAIT"]

\* dispatch_due_schedules, disabled task and overlap policy SKIP.
DispatchSkipped(t) ==
  /\ sched[t] = "DUE"
  /\ \/ taskStatus[t] # "ENABLED"
     \/ ActiveOf(t) # {} /\ Overlap[t] = "SKIP"
  /\ \E n \in RunIds : IsNextId(run, n) /\ run' = Skipped(run, t, n)
  /\ Advance(t)
  /\ UNCHANGED <<node, taskStatus>>

CancelOld(row) ==
  CASE row.status = "QUEUED" ->
         [row EXCEPT !.status = SafeSet(row.status, "CANCELLED"),
                     !.routing = "ROUTE_CANCELLED", !.held = FALSE]
    [] row.status \in {"ASSIGNED", "STARTING", "RUNNING"} ->
         [row EXCEPT !.status = SafeSet(row.status, "CANCEL_REQUESTED")]
    [] OTHER -> row

\* dispatch_due_schedules, the branch that creates a run.
Dispatch(t) ==
  /\ sched[t] = "DUE" /\ taskStatus[t] = "ENABLED" /\ NodesReady(t)
  /\ ActiveOf(t) = {} \/ Overlap[t] # "SKIP"
  /\ LET cleared == [r \in RunIds |-> IF Overlap[t] = "CANCEL_OLD" /\ r \in ActiveOf(t)
                                        THEN CancelOld(run[r]) ELSE run[r]]
         hold == Overlap[t] = "QUEUE" /\ ActiveOf(t) # {}
     IN \E n \in RunIds :
          /\ IsNextId(run, n)
          /\ run' = IF hold THEN Queued(cleared, t, n, "SCHEDULE")
                            ELSE Created(cleared, node, t, n, "SCHEDULE")
  /\ Advance(t)
  /\ UNCHANGED <<node, taskStatus>>

\* dispatch_due_schedules, create_run refused: no ready node, a missing binding
\* (both may come and go: BLOCKED) or a drifted contract, which turns the
\* schedule to ERROR. The rollback also undoes CANCEL_OLD.
DispatchRefused(t) ==
  /\ sched[t] = "DUE" /\ taskStatus[t] = "ENABLED"
  /\ ActiveOf(t) = {} \/ Overlap[t] # "SKIP"
  /\ \E n \in RunIds : IsNextId(run, n) /\ run' = Skipped(run, t, n)
  /\ Advance(t) \/ sched' = [sched EXCEPT ![t] = "OFF"]
  /\ UNCHANGED <<node, taskStatus>>

\* create_manual_run: it does not look at the other runs of the task, and a
\* task in DRAFT may be run by hand.
CreateManual(t) ==
  /\ taskStatus[t] \in {"ENABLED", "DRAFT"} /\ NodesReady(t)
  /\ \E n \in RunIds : IsNextId(run, n) /\ run' = Created(run, node, t, n, "MANUAL")
  /\ UNCHANGED <<node, taskStatus, sched>>

\* update_task: leaving ENABLED pauses the schedule and touches no run.
UpdateTask(t, st) ==
  /\ st = "ENABLED" => NodesReady(t)
  /\ taskStatus' = [taskStatus EXCEPT ![t] = st]
  /\ sched' = IF st = "ENABLED" THEN sched ELSE [sched EXCEPT ![t] = "OFF"]
  /\ UNCHANGED <<run, node>>

\* update_schedule
UpdateSchedule(t) ==
  /\ t \in Scheduled
  /\ \/ sched' = [sched EXCEPT ![t] = "OFF"]
     \/ /\ taskStatus[t] = "ENABLED" /\ NodesReady(t)
        /\ sched' = [sched EXCEPT ![t] = "WAIT"]
  /\ UNCHANGED <<run, node, taskStatus>>

\* request_cancel: a run an Agent holds is asked to stop; a second request on
\* it, like the first one on a queued run, cancels it at once.
Cancelled(row) ==
  IF row.status \in {"ASSIGNED", "STARTING", "RUNNING"}
    THEN [row EXCEPT !.status = SafeSet(row.status, "CANCEL_REQUESTED")]
    ELSE [row EXCEPT !.status = SafeSet(row.status, "CANCELLED"),
                     !.routing = "ROUTE_CANCELLED", !.held = FALSE]

RequestCancel(r) ==
  /\ run[r].status \in Active
  /\ run' = [run EXCEPT ![r] = Cancelled(@)]
  /\ UNCHANGED <<node, taskStatus, sched>>

Reroute ==
  /\ run' = Rerouted(run, node)
  /\ UNCHANGED <<node, taskStatus, sched>>

\* mark_lost_runs, the body of the loop for one row whose lease has run out
\* (a row the sweep passes over is a row whose lease ran out just after it).
Lost(row) == [row EXCEPT !.status = SafeSet(row.status, "LOST"), !.lease = "none"]

MarkLost(r) ==
  /\ run[r].status \in Executing /\ run[r].lease = "expired"
  /\ MaybeRetry([run EXCEPT ![r] = Lost(@)], r)
  /\ UNCHANGED <<node, taskStatus, sched>>

\* 90 seconds without a renewal; only the lease of a run an Agent holds matters.
LeaseExpires(r) ==
  /\ run[r].status \in Executing /\ run[r].lease = "live"
  /\ run' = [run EXCEPT ![r].lease = "expired"]
  /\ UNCHANGED <<node, taskStatus, sched>>

\* An operator or a release changes what a node may do.
SetNode(s, m) ==
  /\ node' = [node EXCEPT ![s] = m]
  /\ UNCHANGED <<run, taskStatus, sched>>

\* worker_main: the nodes silent for 120 seconds go offline. The reroute of
\* the same pass queries before that is flushed, so it still sees them ready.
WorkerSweep(S) ==
  /\ node' = [s \in Servers |-> IF s \in S THEN "CLOSED" ELSE node[s]]
  /\ run' = Rerouted(run, node)
  /\ UNCHANGED <<taskStatus, sched>>

-------------------------------------------------------------------------------
(* The requests of the Agents: AgentService *)

\* heartbeat of the registered process: health and capacity are settled and
\* flushed, then the waiting runs are routed again.
Heartbeat(s, m) ==
  /\ node' = [node EXCEPT ![s] = m]
  /\ run' = Rerouted(run, node')
  /\ UNCHANGED <<taskStatus, sched>>

\* Mutant: the runs a new process keeps pass to it without a lease.
ReplacedWithoutLease(rs, s, keep) ==
  [r \in RunIds |->
     IF rs[r].agent # s THEN rs[r]
     ELSE IF r \in keep THEN [rs[r] EXCEPT !.owner = "replaced", !.lease = "none"]
     ELSE [rs[r] EXCEPT !.owner = "replaced", !.status = SafeSet(@, "LOST")]]

\* _mark_agent_runs_lost: neither a retry nor a parent is looked after here.
Replaced(rs, s, keep) ==
  [r \in RunIds |->
     IF rs[r].agent # s THEN rs[r]
     ELSE IF rs[r].status \notin Executing THEN [rs[r] EXCEPT !.owner = "replaced"]
     ELSE IF r \in keep THEN [rs[r] EXCEPT !.owner = "replaced", !.lease = "live"]
     ELSE [Lost(rs[r]) EXCEPT !.owner = "replaced"]]

\* The first heartbeat of a new Agent process on s; keep are the runs whose
\* containers it found running.
AgentRestart(s, m, keep) ==
  /\ \A r \in keep : run[r].agent = s /\ run[r].status \in Executing
  /\ node' = [node EXCEPT ![s] = m]
  /\ run' = Rerouted(Replaced(run, s, keep), node')
  /\ UNCHANGED <<taskStatus, sched>>

\* claim_run takes the oldest routed run of the node ...
Head(s, r) ==
  /\ node[s] # "CLOSED"
  /\ run[r].status = "QUEUED" /\ run[r].routing = "ROUTED" /\ run[r].server = s
  /\ \A q \in RunIds : (/\ run[q].status = "QUEUED" /\ run[q].routing = "ROUTED"
                        /\ run[q].server = s) => r <= q

\* ... whose task may have been switched off: the run stays QUEUED ...
ClaimRefused(s, r) ==
  /\ Head(s, r)
  /\ taskStatus[run[r].task] # "ENABLED"
  /\ run' = [run EXCEPT ![r].routing = "ROUTE_CANCELLED"]
  /\ UNCHANGED <<node, taskStatus, sched>>

\* ... whose node may no longer take it ...
ClaimReturned(s, r) ==
  /\ Head(s, r)
  /\ taskStatus[run[r].task] = "ENABLED" /\ node[s] = "REFUSING"
  /\ run' = [run EXCEPT ![r] = [@ EXCEPT !.server = None, !.routing = "PENDING"]]
  /\ UNCHANGED <<node, taskStatus, sched>>

\* ... whose configuration may not resolve ...
\* Mutant: the status is also written to routing_status.
MisconfiguredRouting(row) ==
  [row EXCEPT !.status = SafeSet(row.status, "FAILED"), !.routing = "FAILED"]

Misconfigured(row) ==
  [row EXCEPT !.status = SafeSet(row.status, "FAILED"), !.routing = "ROUTE_CANCELLED"]

ClaimMisconfigured(s, r) ==
  /\ Head(s, r)
  /\ taskStatus[run[r].task] = "ENABLED" /\ node[s] = "READY"
  /\ run' = [run EXCEPT ![r] = Misconfigured(@)]
  /\ UNCHANGED <<node, taskStatus, sched>>

\* ... and otherwise gets a lease token, by a compare-and-set on the row.
\* Mutant: lease_expires_at is left empty until the first renewal.
LeasedOnRenewal(row, s) == [row EXCEPT !.status = "ASSIGNED", !.agent = s, !.owner = "current"]

Leased(row, s) ==
  [row EXCEPT !.status = "ASSIGNED", !.agent = s, !.owner = "current", !.lease = "live"]

Claim(s, r) ==
  /\ Head(s, r)
  /\ taskStatus[run[r].task] = "ENABLED" /\ node[s] = "READY"
  /\ run' = [run EXCEPT ![r] = Leased(@, s)]
  /\ UNCHANGED <<node, taskStatus, sched>>

\* run_heartbeat. A run asked to cancel only learns so, without a new lease;
\* a terminal run is answered 403.
Renewed(row) ==
  [row EXCEPT !.lease = "live",
              !.status = CASE row.status = "ASSIGNED" -> SafeSet(row.status, "STARTING")
                           [] row.status = "STARTING" -> SafeSet(row.status, "RUNNING")
                           [] OTHER -> row.status]

RunHeartbeat(r) ==
  /\ run[r].owner = "current"
  /\ run[r].status \in {"ASSIGNED", "STARTING", "RUNNING"}
  /\ run' = [run EXCEPT ![r] = Renewed(@)]
  /\ UNCHANGED <<node, taskStatus, sched>>

\* What the executor may report: a container runs only after two heartbeats the
\* platform answered, and a report is repeated, with the same result, if the
\* answer was lost (a run still CANCEL_REQUESTED can only have reported success;
\* for a terminal run the result no longer matters).
MayReport(row, res) ==
  /\ row.owner = "current"
  /\ row.status \in {"ASSIGNED", "STARTING"} => res = "FAILED"
  /\ row.status = "CANCEL_REQUESTED" /\ row.reported => res = "SUCCEEDED"

\* finish_run: the status moves if the table allows it; the lease is dropped,
\* and a retry considered, whether or not it did.
Finished(row, res) ==
  [row EXCEPT !.status = SafeSet(row.status, res), !.lease = "none", !.reported = TRUE]

FinishRun(r, res) ==
  /\ MayReport(run[r], res)
  /\ MaybeRetry([run EXCEPT ![r] = Finished(@, res)], r)
  /\ UNCHANGED <<node, taskStatus, sched>>

-------------------------------------------------------------------------------
Operate ==
  \/ \E t \in Tasks : Tick(t) \/ CreateManual(t) \/ UpdateSchedule(t)
  \/ \E t \in Tasks, st \in TaskStatuses : UpdateTask(t, st)
  \/ \E s \in Servers, m \in NodeModes : SetNode(s, m)
  \/ \E r \in RunIds : RequestCancel(r)

DispatchDue(t) == DispatchSkipped(t) \/ Dispatch(t) \/ DispatchRefused(t)

Sweep ==
  \/ \E t \in Tasks : DispatchDue(t)
  \/ Reroute
  \/ \E r \in RunIds : MarkLost(r) \/ LeaseExpires(r)
  \/ "CLOSED" \in NodeModes /\ \E S \in SUBSET Servers : WorkerSweep(S)

ClaimRun(s) ==
  \E r \in RunIds : \/ ClaimRefused(s, r) \/ ClaimReturned(s, r)
                    \/ ClaimMisconfigured(s, r) \/ Claim(s, r)

Deliver(r) == \E res \in Results : FinishRun(r, res)

AgentRequest ==
  \/ \E s \in Servers, m \in NodeModes : Heartbeat(s, m)
  \/ \E s \in Servers, m \in NodeModes, keep \in SUBSET RunIds : AgentRestart(s, m, keep)
  \/ \E s \in Servers : ClaimRun(s)
  \/ \E r \in RunIds : RunHeartbeat(r) \/ Deliver(r)

Next == Operate \/ Sweep \/ AgentRequest

Spec == Init /\ [][Next]_vars

(***************************************************************************)
(* The loops of the scheduler never stop, an Agent polls for runs, and a   *)
(* run an Agent holds is either reported (the executor stops a container   *)
(* at its time limit) or no longer renewed. A sweep finds an expired lease *)
(* even if an Agent keeps renewing others late: hence SF.                  *)
(***************************************************************************)
Fairness ==
  /\ WF_vars(Reroute)
  /\ \A t \in Tasks : WF_vars(DispatchDue(t))
  /\ \A s \in Servers : WF_vars(ClaimRun(s))
  /\ \A r \in RunIds : WF_vars(Deliver(r) \/ LeaseExpires(r)) /\ SF_vars(MarkLost(r))

FairSpec == Spec /\ Fairness

-------------------------------------------------------------------------------
(* Safety *)

\* Released to the Agents: a node has been chosen and the run is not over.
Admitted == {r \in RunIds : run[r].status \in Active /\ run[r].routing = "ROUTED"}

\* taskMaxConcurrency and groupMaxConcurrency hold at every moment for the
\* runs released, however creation, rerouting, retries, cancels and restarts
\* interleave, although no handler ever looks at the total it leaves behind.
ConcurrencyLimit ==
  \A t \in Tasks :
    /\ MaxConc[t] > 0 => Cardinality({r \in Admitted : run[r].task = t}) <= MaxConc[t]
    /\ \E u \in Tasks :
         /\ Group[u] = Group[t]
         /\ Cardinality({r \in Admitted : Group[run[r].task] = Group[t]}) <= GroupLimit(u)

\* Two runs that declare a common resource lock (an account, a profile, a
\* proxy) are never released at the same time, on whatever nodes.
LockExclusion ==
  \A p, q \in Admitted : p # q => Locks[run[p].task] \cap Locks[run[q].task] = {}

\* The rounds of a task whose schedule queues do not overlap: of the runs the
\* scheduler created for it, leaving retries aside, at most one is out of the
\* queue and active, although a sweep decides on all the queued ones at once
\* and manual runs of the same task come and go.
Rounds(t) == {r \in RunIds : /\ run[r].task = t /\ run[r].trigger = "SCHEDULE"
                             /\ run[r].retryOf = 0}
QueuedRounds ==
  \A t \in Tasks : Overlap[t] = "QUEUE" =>
    \A p, q \in {r \in Rounds(t) : run[r].status \in Active /\ ~run[r].held} : p = q

\* The custody of a run: while an Agent holds it, the row names the Agent's
\* own node and stays ROUTED; while the run may still make progress it has a
\* lease, so mark_lost_runs will find it if the Agent falls silent.
Custody ==
  \A r \in RunIds :
    run[r].status \in Executing =>
      /\ run[r].agent \in Servers /\ run[r].agent = run[r].server
      /\ run[r].routing = "ROUTED" /\ run[r].owner # "none"
      /\ run[r].status # "CANCEL_REQUESTED" => run[r].lease # "none"

\* A retry has a cause that stands: the run it repeats has ended badly for
\* good, the policy of the task allows it, and the numbers of attempts along
\* the chain go up to max_attempts.
RetryHasCause ==
  \A r \in RunIds :
    /\ run[r].status # "ABSENT" => run[r].attempt <= MaxAttempts[run[r].task]
    /\ LET p == run[r].retryOf
       IN p # 0 => /\ run[p].status \in AutoRetry /\ Retryable[run[p].task]
                   /\ run[r].task = run[p].task /\ run[r].root = run[p].root
                   /\ run[r].attempt = run[p].attempt + 1

\* No handler ever asks set_routing_status for a move it raises an error on:
\* an error in the reroute loop would end the scheduler process, which has no
\* handler for it, and leave the claim of an Agent without an answer.
RoutingNeverRaises ==
  [][\A r \in RunIds : run[r].status # "ABSENT" =>
       RoutingAllowed(run[r].routing, run'[r].routing)]_vars

\* Refinement: every handler keeps the promise of RunPromise, whatever it does
\* to whichever runs. A late result, a renewal after a cancel, a second claim
\* or a lost lease found twice cannot change an outcome, revive a cancelled
\* run or hand a run out again.
Phase(row) ==
  CASE row.status = "ABSENT" -> "none"
    [] row.status = "QUEUED" -> "queued"
    [] row.status \in {"ASSIGNED", "STARTING", "RUNNING"} -> "taken"
    [] row.status = "CANCEL_REQUESTED" -> "stopping"
    [] OTHER -> row.status

Promise == INSTANCE RunPromise WITH
  RunCount <- MaxRuns, Agents <- Servers,
  phase <- [r \in RunIds |-> Phase(run[r])],
  holder <- [r \in RunIds |-> run[r].agent]

KeepsPromise == Promise!Spec

-------------------------------------------------------------------------------
(* Liveness *)

\* A run an Agent has taken ends or is asked to cancel, whether the Agent
\* reports, restarts (keeping its containers or not) or falls silent.
TakenRunEnds ==
  \A r \in RunIds :
    run[r].status \in {"ASSIGNED", "STARTING", "RUNNING"} ~>
      run[r].status \in Terminal \cup {"CANCEL_REQUESTED"}

-------------------------------------------------------------------------------
(* What the code or its documents say, and the code does not do *)

\* "任务级并发：包括已分配和运行中的同一任务实例" (routing_service.py): only
\* runs that are assigned or running use up the limit, so a run does not wait
\* for ever while no run of the project is.
WaitsForNobody(r) ==
  /\ run[r].status = "QUEUED" /\ run[r].routing = "WAITING_RESOURCE"
  /\ \A q \in RunIds : run[q].status \notin Executing
WaitingRunLeaves == \A r \in RunIds : WaitsForNobody(r) ~> ~WaitsForNobody(r)

\* "该任务运行时项目内不再释放其他新运行" (routing_service.py): while a run of
\* an exclusive task is released, no other run of the project is.
ExclusiveRunsAlone ==
  \A p, q \in Admitted : Exclusive[run[p].task] => p = q

\* max_retry_count bounds the retries of a run: a root has at most
\* max_attempts rows.
RetriesWithinBudget ==
  \A x \in RunIds : run[x].status # "ABSENT" =>
    Cardinality({r \in RunIds : run[r].root = x}) <= MaxAttempts[run[x].task]

\* finish_run records "运行实例已结束" (the run has ended) and its end time.
ReportedRunHasEnded ==
  \A r \in RunIds : run[r].reported => run[r].status \in Terminal
===============================================================================
