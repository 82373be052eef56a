# Formal models of the crawler platform

TLA+ models of the platform's backend (`src/backend`) and of the Agents it
drives (`src/agent`), the TLC configurations that check them on small instances,
and machine-checked proofs of the properties that matter most.

## 1. The system

A FastAPI backend over MySQL is the only shared state. Four kinds of processes
work on it, none of which talks to another except through its rows:

| process | code | what it does |
| --- | --- | --- |
| API | `backend/app/api/*` | one transaction per request of a user or an Agent |
| scheduler | `backend/app/scheduler_main.py` | loop: dispatch due schedules, reroute waiting runs, mark runs with expired leases LOST |
| worker | `backend/app/worker_main.py` | loop: mark silent Agents OFFLINE, reroute, deliver alerts |
| Agent, one per node | `agent/crawler_agent` | heartbeats, polls for runs, runs each in a container, reports results |

### Components, their state and what makes them right

| component | state | operations | must hold | hard because |
| --- | --- | --- | --- | --- |
| Run state machine (`state_machine.py`) | `run_status`, `routing_status` | two transition tables and their checked setters | terminal is final; no illegal routing move | forbidden run moves are dropped silently, forbidden routing moves raise |
| Schedule dispatcher (`scheduler_service.py`) | schedule, its next time | dispatch with SKIP / QUEUE / CONCURRENT / CANCEL_OLD | rounds of a queueing task do not overlap; every trigger leaves a row | runs of other origins of the same task come and go |
| Cron expressions (`cron_service.py`) | expression(s), next time | make, check, advance | a plan fires when its configuration asks | several expressions per plan, edits during a round |
| Routing (`routing_service.py`) | server and routing of a run | `route_run`, the reroute loop | task and group limits, resource locks | one pass decides on many rows over one unflushed state |
| Run service (`run_service.py`) | run rows | create, cancel, lost leases, retries, sharded parents | retries have a standing cause and stay in budget; a parent follows its shards | late, duplicate and crossing results, unflushed rows |
| Agent requests (`agent_service.py`) | run rows, node health | heartbeat, claim, renew, finish, replacement | one holder per run; a taken run ends | restarts, lost requests, nodes going away |
| Account leases and subjects (`account_status_service.py`) | account, lease, subject rows | acquire, release, enable/disable, status events, operators' bindings | one lease per account; an account IN_USE is leased; a subject stays with its account | snapshot reads beside row and gap locks, opposite lock orders |
| Tasks and definitions (`task_service.py`, `task_definition_lifecycle_service.py`, `task_runtime_readiness_service.py`) | definitions, tasks, schedules | synchronise, ignore, take up, edit, reconcile, delete, ask for readiness | an enabled task can run; definitions agree with tasks and channel | every release may drop and restore definitions |
| Resources (`company_resource_service.py`, `runtime_resource_service.py`) | connections, bindings | save, test, switch, resolve at the claim | only a connection found valid is handed out | test against save, readiness against claim |
| Commands, rollout (`agent_command_service.py`, `release_activation_service.py`, `project_service.py`) | command queue of a node, deployment targets, pool, channel | deploy, dispatch within `maxParallelPulls`, acknowledge, activate | what a node is said to run was tested there; activation is all at once | expired or truncated commands, late answers, two rollouts at once |
| Agent process (`agent/crawler_agent`) | futures, containers, spool | main loop, executor, spool replay | every result arrives or is given up | restart with containers running, spool of an old process |
| Server lifecycle (`server_service.py`, `container_cleanup_service.py`, `install-agent.sh`) | life of a node, tokens, commands | invite, install, drain, decommission, delete, clean up | a confirmed removal is final; joins and removals end | steps on two machines, convergence by heartbeats |
| Node health (`agent_service.py` 507-594) | counters, scheduling status | hysteresis, eject, recover | the pool follows the health | three writers, thresholds per direction |
| Alerts (`alert_service.py`) | event, deliveries | raise, acknowledge, resolve, deliver | an open alert reaches somebody | delivery pass over stale rows, unique key |
| Sessions (`auth_service.py`, `password_service.py`) | session rows | log in, force, log out, change, reset, revoke | one active session; none outlives the password it was opened with (for the exception see section 3) | only the login takes the lock |
| Build center (`build_center_service.py`) | build job, thread set | start, poll, retry, cancel, requeue, build | one thread per job; a cancelled build registers nothing | thread against request, restart |
| Run logs (`run_log_service.py`, `container_snapshot_service.py`) | chunks, snapshots | append, finalise | with the spool: results arrive unchanged | repeated reports |
| Settings, companies, read models, frontend, scripts | descriptive rows | row editing, queries, data handling | - | no interleaving decides anything |

`PROJECT.json` lists every component with its status, and every behaviour that is
hard to test at its line, with the property that covers it or the reason why
none does.

## 2. Modules

| module | models | proofs |
| --- | --- | --- |
| `RunStates` | the transition tables, the setters, the status sets; extended by `RunScheduler`, used by `ShardedRuns` | with `RunScheduler` |
| `RunPromise` | abstract: what a run is to its user, without routing, leases or retries; refined by `RunScheduler` | `HandlersKeepPromise` |
| `RunScheduler` | the life of the runs of one project | `RunSchedulerProofs` |
| `MCRunScheduler` | constants for TLC | |
| `CredentialLease` | one platform account and the requests that contend for it | `CredentialLeaseProofs` |
| `MCRunsAndAccounts` | composes `RunScheduler` and `CredentialLease` for TLC | |
| `ReleaseRollout` | releases, deployments, commands, activation, the pool of a project | `ReleaseRolloutProofs` |
| `TaskOrchestration` | definitions, tasks, schedules and the start of runs, on top of `ReleaseRollout` | `TaskOrchestrationProofs` |
| `ResourceBinding` | one data resource, one slot of a task, one run that claims it | `TaskPartsProofs` |
| `CronPlan` | configuration, expressions and next time of one schedule | `TaskPartsProofs` |
| `ShardedRuns` | one sharded run with its shards and their retries | `TaskPartsProofs` |
| `SubjectBinding` | one business subject and the accounts it may be bound to | `TaskPartsProofs` |
| `MCParallelPulls` | an instance of `ReleaseRollout` with two preparations at a time | |
| `MCTaskOrchestration` | composes `TaskOrchestration` and the four modules after it for TLC | `TaskPartsProofs` |
| `NodeLifecycle` | one node from its invitation to its removal, both sides | `NodeLifecycleProofs` |
| `BuildCenter` | build jobs, their threads, the requests on them | `BuildCenterProofs` |
| `SessionAuth` | the sessions of one user | `ConsoleProofs` |
| `AlertDelivery` | P0 alerts and the worker's pass | `ConsoleProofs` |
| `NodeHealth` | the health of one node and its row in the pool | `ConsoleProofs` |
| `RunReports` | the reports of one execution through the Agent's spool | `ConsoleProofs` |
| `MCConsole` | composes the five modules above for TLC | `ConsoleProofs` |

### RunScheduler

State: `run[r]` is the row of run `r` (the columns its decisions read; `owner`
stands for the Agent's `agent_instance_id` check, `lease` for where
`lease_expires_at` is, `held` for a `routing_reason` that starts with
"重叠策略排队"), `node[s]` what a node may do for the project, `taskStatus[t]`, and
`sched[t]`, whether the schedule of a task is waiting, due or off.

One action is one handler with everything it calls: `CreateManual`,
`RequestCancel`, `UpdateTask`, `UpdateSchedule` (users); `DispatchSkipped`,
`Dispatch`, `DispatchRefused`, `Reroute`, `MarkLost` (scheduler); `WorkerSweep`
(worker); `Heartbeat`, `AgentRestart`, `ClaimRefused`, `ClaimReturned`,
`ClaimMisconfigured`, `Claim`, `RunHeartbeat`, `FinishRun` (Agents). Time is
`Tick` (a schedule falls due) and `LeaseExpires`; `SetNode` stands for whatever
else changes a node. Details the model keeps because they decide:

* the session does not flush by itself (`autoflush=False`, `db.py:19`): the
  reroute loop routes every row against the state before the loop (`Rerouted`),
  and the worker's pass does not see the OFFLINE marks it has just made
  (`WorkerSweep`), while a creation flushes before it routes (`Created`);
* a queued run that waits counts against the limits of the others (`Competing`);
* `finish_run` drops the lease and considers a retry even when the transition
  table drops the result (`Finished`, `MaybeRetry`);
* a container runs only after two answered heartbeats, so an Agent can report
  success only for a run that got that far, or for one asked to cancel
  (`MayReport`); a result may be delivered again, and late.

Abstracted: each handler is atomic; tasks run in SINGLE mode; the policy columns a
run copies from its task do not change; which nodes qualify (health, capacity,
release, role, dispatch mode, fallback pools) is one mode per node, and the Best
of equal scores is an arbitrary fixed choice; sweeps are not cut at 300 or 500
rows; a mass of lost runs raises an alert that nothing here reads. `MarkLost`
takes one row at a time: a sweep over several is several steps.

### CredentialLease

A request is an InnoDB transaction at REPEATABLE READ in steps: the first query
fixes its snapshot (`Begin`), `SELECT ... FOR UPDATE` waits for a row lock and reads
the committed row (`AcquireLock`, `AcquireReady`, `ReleaseLock`), an object already
in the session is not refreshed by it, and the commit writes the changed columns
only (`WrittenAccount`). `Victim` is InnoDB's deadlock detection. The database and the
session are external code, modelled from how the service uses them; the sources are the
configuration in `db.py` and the statements of the service.

Abstracted: one account (leases of different accounts share nothing), the two
health values `set_enabled` distinguishes, the status codes by the usage they map
to, and the descriptive columns.

### ReleaseRollout and TaskOrchestration

State: `pool[s]` is the row of a node in the project's pool, `rollout[d]` a
deployment with a target per node, `queue[s]` the commands kept in the node's
metrics, of which `expired[s]` are past `expiresAt`, `inHand` and `pulling` what the Agent
works on, `tested[s]` (history) the releases whose smoke test the node has
reported as passed, `channel` and `definition` the rows of those names, and
`task[k]` the task made of a definition, with its schedule and whether runs of it
exist. `Answer` is one acknowledgement with all that follows: the target, the
free slots dispatched again, and `Applied` when it was the last, which switches
nodes, channel and definitions. Commands may expire, be cut from a full queue,
be answered late, twice or not at all (`Prepare`, `PrepareUnheard`, `Expire`,
`AgentRestart`). `TaskOrchestration` extends it, so that a
task is created, reconciled and started on the pool and definitions the
rollouts have left.

Abstracted: a task runs on one node, without preferred nodes or the company's
fallback pool; a contract is one model value, and the bindings of a task satisfy
it or do not; whether the accounts are usable is a free choice.

### ResourceBinding, CronPlan, ShardedRuns, SubjectBinding

`ResourceBinding` splits a save and a test into read and commit, and keeps in
`past` what happened to the resource, so that the property can say which events
excuse an unusual claim. `CronPlan` takes the calendar as a parameter and
computes expressions and next times as `cron_service.py` does, while
the property asks the configuration itself. `ShardedRuns` keeps what an unflushed session does to
the aggregation: the row created last by a request is invisible to it
(`EndsTold`). `SubjectBinding` is written like `CredentialLease`: transactions with row and gap
locks, and an operator who reads unlocked.

### NodeLifecycle

Rows of the platform (`server`, `agent`, `token`, `command`, `cleanup`, `run`) and the
host (`box`: the Agent's container and its restart policy; `cont` and `futures`:
task containers and threads; `env`: the identity on disk; `install`: the
installer). A heartbeat reads (`HeartbeatBegin`) and commits (`HeartbeatCommit`)
the columns it changed, the document `metrics` with the queued commands as a
whole, and requests of users come between. The installer is `install-agent.sh`, step by
step: inspection of the host (a host with running tasks stops it, `--force` overrides
that), resumption or consumption of a token, replacement of the container or rollback, after which the old
one may be up or down. `Listed` is the Agent's view of its containers
(`running_platform_run_ids`): a listing that Docker fails is an empty one to the caller, so a
heartbeat may report no runs and a preparation may find the host idle while a task is
up (`work.blind`, a history variable). A lease ends when nothing renews it (`LeaseExpires`), or when the
renewals do not get through (`LeaseLapses`). Left out: the upgrade of an Agent, which nothing in the
repository starts, and a copy of the old container that the installer fails to remove.

### BuildCenter, SessionAuth, AlertDelivery, NodeHealth, RunReports

In all five a request or a pass is a read and a later commit that writes the
columns it changed. A build thread is a sequence of stages with a
commit and a look at the status between them; the tools behind a stage succeed, are
refused or break. All jobs are of one project and version, the case in which they meet: they
share the Docker tag, which `docker build` moves (`tag`), the registry (`pushed`) and the one row of the
release (`release`). An image stands for its content and so for its digest; Docker knows
a digest once the image has been pushed (`Readable`; RepoDigests of the classic image
store). What a job registers is read through the tag, so it may be the image of an overlapping
job, while the commit in its manifest is its own: `RegisteredIsPushed` says that it
is in the registry and is the digest of the release, no more. Of two jobs that add the release
at the same time, the second stays SUCCEEDED without one (`AddFails`). A login locks the user's row, every other request does not; a
reset that read no session remembers nothing of a login in flight (`crossed`, a history variable). The
worker's pass collects its writes (`sending.writes`) and commits them at
once, or fails on the unique key of fingerprint and status. `NodeHealth`
counts reports; ages are three values, below and above the two thresholds.
`RunReports` follows `RunExecutor.execute` by a table of what is sent in which case
(`Course`); every report is answered, lost with or without being stored, or spooled.

## 3. Runs

| run | checks | instance | states | shows |
| --- | --- | --- | --- | --- |
| `lifecycle` | `TypeOK` `Custody` `RetryHasCause` `KeepsPromise` `RoutingNeverRaises` | 2 tasks that may be disabled (SKIP with one attempt, CANCEL_OLD with two), 1 node in all modes, 2 runs | 1.1 million | custody, causes of retries, refinement of `RunPromise`, no illegal routing move |
| `limits` | `ConcurrencyLimit` `LockExclusion` `QueuedRounds` | 3 tasks of one group of limit 2, one with limit 1, two sharing a lock, one queueing; 3 runs | 1.2 million | limits, locks and rounds under batch rerouting |
| `ends`, part runs | `TakenRunEnds` | 1 task, 2 runs, a node in all modes | 160 thousand with the other part | a taken run ends, under fairness |
| `ends`, part lease | `LeaseTypeOK` `SingleLease` `InUseIsLeased` `RequestsEnd` | 2 clients, 2 leases | | no double lease, no orphaned IN_USE, every request answered |
| `rollout`, part tasks | `OrchestrationTypeOK` `RunningReleaseIsTested` `SinglePull` `DefinitionsInStep` `EnabledCanRun` `AtomicActivation` `StartedOnTested` | 2 releases that share one definition of two, 2 nodes, 2 deployments, 2 upsets | 890 thousand with the other parts | what runs was tested, activation is all at once, definitions and tasks agree with it |
| `rollout`, part binding | `ClaimIsJustified` | 1 resource, 1 slot, 1 run | | which claims get a connection and which may fail |
| `rollout`, part plan | `PlanFiresAsConfigured` | 10 configurations, a year of four dates in two months | | the next time is the one configured |
| `rollout`, part shards | `ParentFollowsShards` | 1 or 2 shards, 2 attempts, 4 rows | | a parent ends with its shards, or is left by a silent ending |
| `rollout`, part subject | `SubjectStaysBound` | 2 reporters, 2 accounts, a success and a failure of each | | no rebinding without an operator, failures counted once |
| `nodes` | `NodeTypeOK` `ConfirmedRemoval` `UnusedTokenNeverCompletes` `ConfirmedHostIsIdle` `LeavingEnds` `JoiningEnds` | 1 run, 2 tokens, 2 identities, 4 upsets | 710 thousand | a confirmed removal is final and the host idle unless the listing failed, joins and removals end |
| `console`, part build | `ConsoleTypeOK` `OneThreadPerJob` `RegisteredIsPushed` `CancelStopsBuild` `JobEnds` | 2 jobs, 2 images, 1 request in flight, 1 restart | 560 thousand with the other parts | one thread per job, what is registered is in the registry, a cancel seen during a stage stops it |
| `console`, part session | `SessionsBounded` `ReplacedWasAsked` | 3 logins, 2 passwords, 2 requests | | one session, none with an old password but for a reset that met a login |
| `console`, part alert | `AlertReaches` | 2 alerts, 2 fingerprints, 1 crash | | an open alert reaches somebody |
| `console`, part health | `PoolFollowsHealth` | 1 node | | the pool follows the health |
| `console`, part report | `ResultReported` | 1 execution | | the result arrives and is not exchanged |
| `waiting` | `WaitingRunLeaves` | violated | | waiting runs block each other for ever |
| `exclusive` | `ExclusiveRunsAlone` | violated | | an exclusive run has company |
| `retries` | `RetriesWithinBudget` | violated | | duplicate results exceed the retry budget |
| `reported` | `ReportedRunHasEnded` | violated | | success after a cancel request leaves the run open |
| `expired` | `OccupiedByLiveLease` | violated | | an expired lease keeps its account |
| `pulls` | `ParallelPulls` | violated | | a prewarm frees the slot of a command that is still out |

The six violated properties state what a comment, a label, an event text or the
release notes of the repository say; `PROJECT.json` quotes each under `findings`.

Composition. `MCTaskOrchestration` and `MCConsole` each put five specifications
that share no state into one run, `MCRunsAndAccounts` two. A variable `part`, chosen by the initial state
and never changed, says which of them a behaviour is about; the others stay as
they began. So each is explored in full and the states add up instead of
multiplying, and a property that speaks of one part holds in the others because
nothing moves there. Where fairness is stated in `ConsoleSpec`, one condition may cover
actions of two parts: in a behaviour of either part it is the condition on
the actions of that part.

Exceptions. Some properties name what may break the rule, because the code has
it: an overtaken round (`PlanFiresAsConfigured`), a save that overlapped a test or
a replaced key (`ClaimIsJustified`), an ending that does not aggregate
(`ParentFollowsShards`), a run stranded by a refused claim (`LeavingEnds`), a fingerprint
that recurs (`AlertReaches`, where it takes a third alert), a reset that met a login in flight
(`SessionsBounded`), a failed listing of containers (`ConfirmedHostIsIdle`), a chunk that blocks the spool or an Agent
that restarts (`ResultReported`). The last three stand against sentences of the release
notes: `RELEASE_NOTES_1.0.2.md:16` (the sessions of a user are revoked after a change *or a
reset* of the password), `RELEASE_NOTES_1.0.71.md:16` (an Agent *without running tasks* switches off
its restart policy and confirms) and `RELEASE_NOTES_1.0.15.md:13`. TLC finds each property violated
without its exception; each is explained under `hazards`.

Bounds. `MaxRuns` is the number of rows. Three rows are the least with which two
runs can wait for a third and a batch reroute can release two runs against one active:
`limits` has them. Two are enough for `lifecycle`, where they are two rounds, or a
run and its retry, and for `ends`, whose property is about one run at a time with
another to fill the node. Creation stops when the rows are
used up and everything else goes on; a lost or failed run that is due a retry waits
for a row, which only delays it. One node is enough for the safety properties, which
never compare nodes; the proofs hold for any number. `MaxLeases` 2 lets one lease
end and another be granted, and two clients make every pair of requests
concurrent. No symmetry is declared: rows are ordered by their ids and TLC
forbids it for the liveness runs.

In `rollout`, two nodes with `MaxParallel` 1 make one target wait for the other;
two deployments can overlap, and their releases differ in a definition and in the
contract of the one they share. `QueueLimit` 1 stands for the 100 commands of the code: the
second command pushes the first out. `MaxUpsets` counts edits of users and
failures together. A node is `UP` or `HELD`; `DOWN` (no heartbeats at all) only
disables steps and is left out of the instance. `HealthChoices` and `OnlineChoices` keep one value of
each class the code distinguishes. Calendar: an hour of four minutes, a day of three hours, a
week of three days, a month of three days and one of a single day, so that a day is
missing from a month, intervals do and do not divide the hour or the day, and a plan
crosses midnight, week and month within `LastMinute` 24. `MaxRows` 4 lets both shards be retried once. `Results` has a success and a failure, as a timeout is retried like a failure.

`pulls` needs four nodes (two hold the slots, two wait), a node that an activation has
left behind on another release, hence two releases and three deployments, and no
failure: the constraint `NothingFails` only shortens the search for the violation.

In `nodes`, two tokens and two identities let an invitation be replaced while the first
is in use, and `MaxUpsets` 4 bounds lost answers, restarts, failures and edits
together. In `console`, one client makes a request overlap the threads and two
jobs share the thread set and the tag. `MaxImages` 2 lets them build different images, or the same one
from cached layers; `TagGrows` lets the tag move to the image it names or to the next, so a
build that returns to an image of old, which the module and the proofs allow, is left out of the instance. Three logins allow a forced one to overtake another;
`Enough` is 4 instead of the 5 good reports of the code, which keeps it above the other
threshold, 3.

Each property of a passing run has a fault variant beside the definition it
replaces (comments that begin with "Mutant"): an implementation slip of that
handler that the property detects.

Fairness. `RunScheduler!FairSpec` uses weak fairness of the scheduler's `Reroute`
and `DispatchDue` and of each Agent's poll (endless loops), strong fairness of
`MarkLost(r)` because a lease may be renewed between two sweeps, and weak fairness of
"the result of `r` is delivered or its lease runs out": an executor stops its
container at the time limit and then no longer renews. Nothing is assumed of
users, heartbeats or nodes. `TakenRunEnds` counts CANCEL_REQUESTED as an end,
since the run `reported` shows that state can last. `CredentialLease!LeaseFairness`
assumes that a request that can go on again and again does (InnoDB's lock queues
are first come first served), and nothing about when requests start.

`NodeLifecycle!Spec`: the Agent's main loop, the rerouting loop, the end of
leases that nothing renews and of task containers go on; a claim is strongly fair, since drains and
rerouting come between its attempts. Nothing is assumed of users, installers, Docker's
restarts and lost answers, which `MaxUpsets` bounds. `ConsoleSpec`: a build thread runs, and the
publish page polls its job until it has ended (`JobEnds` depends on it: nothing else
requeues a job after a restart); the worker loops, an alert comes due, and a
send that is tried again and again is answered in the end; a node that is up sends heartbeats, and the spool, flushed
after each, gets through again and again. `MCTaskOrchestration` states no fairness: its properties
are of safety.

## 4. Proofs

`RunSchedulerProofs`, for every set of tasks and nodes, any number of rows and
all policies:

* `AlwaysWellFormed`: the inductive invariant on single rows. Statuses alone are
  not inductive: that an Agent's run has a lease needs that its owner is known,
  that its routing is ROUTED and that only QUEUED runs have no holder; that a
  retry's cause stands needs that terminal statuses are final and ids grow. It is the
  conjunction that every handler keeps. The proof abstracts a step first (`StepShape`: it
  moves rows along the tables, then adds at most one row, or reroutes, or hands
  one run out) so that the later theorems have six cases and not twenty.
* `TypeCorrect`, `CustodyHolds`, `RoutingIsLegal` follow from it.
* `HandlersKeepPromise`: `Spec => Promise!Spec`; every shape maps to `Settle`,
  `HandOut` or a stutter.
* `LimitsHold`, `LocksExclude`: a run is admitted only against a count of *all*
  competing rows of the state the decision was made on; the lemma `Admission` says
  that every step has one such state, in which each run admitted after the step
  counts, and each that was not admitted before was not blocked. So of several runs
  released by one pass each had counted the others. This is why the batch is
  safe, and also why the run `waiting` starves.
* `RoundsDoNotOverlap`: with the strengthening `RoundsApart` (a round out of
  the queue has no other round with it).
* `RetriesHaveCauses`: with links between rows, `AllCaused`.

`CredentialLeaseProofs`, for any number of clients and leases: `LeaseInvHolds`
(at most one request is past the account's row lock; a granting request's account
has no active lease; a release whose lease is still active has seen the account
IN_USE if it is, and no other active lease in its snapshot; with `SingleLease` and
`InUseIsLeased`), and from it `LeasesExclude`, `UsageFollowsLease`, and
`LeaseTypeCorrect`.

`ReleaseRolloutProofs`, for any nodes, releases, channels, manifests, limits and any
number of deployments, failures and edits. A step is one of six kinds
(`StepKinds`): quiet, the begin of a rollout, an answer, an answer that is too late, the
report of a prewarm, the removal of the project. `RolloutInv` is the conjunction of

* `RolloutTyped`: the types of all the rows, queues included (no command twice in a
  queue, at most `QueueLimit` of them);
* `TestedInv`: `RunningReleaseIsTested` is not inductive, because the release of a row
  changes when the *last* target answers, long after this node has. It needs
  `DeployedIsTested`: a target that is DEPLOYED has been tested for the release of its rollout;
* `CommandInv`: a live rollout has a release, and what is queued or in hand belongs to a rollout
  that was begun (answers to others are not accepted);
* `PullsCounted`: at most `MaxParallel` targets are counted as being worked on; it
  rests on `ChosenCount`, that the first n waiting nodes are at most n;
* `OneQueue`, for `MaxParallel` 1: the command of a live rollout is in one queue at most, on
  a target that is worked on or, after the report of a prewarm, with no other one
  worked on. For larger limits the analogue is false, which is how the run `pulls` was found;
* `ActivationInv`: a queued command has its target, a finished rollout has only
  answered targets, targets have rows in the pool, an absent row runs nothing. From it
  `ActivationIsAtomic`: *every* target moves, so none may have lost its row;
* `OfferInv`: the definitions on offer are those of the release of some channel.

`OfferFollowsChannel` is the form that holds for all projects. `DefinitionsFollowChannel`,
which the run checks, names the stable channel: an activation synchronises the
definitions whatever the release's channel is (`release_activation_service.py:101`), so
it is proved under `OnlyStable`, every release on the stable channel, the default of a
manifest and the case of the run.

`TaskOrchestrationProofs`: every step either is one of the rollouts or leaves all their
state alone but the orchestration of one definition (`TaskOnlyRollout`), so `RolloutInv`
carries over and `TaskInv` is added: types, `TakenUpOnce` (the half of `DefinitionsInStep`
that needs no assumption), `EnabledCanRun`, and `RunsHaveTask`, without which the end of a
run could be that of a task that is gone. `DeleteTask`, for instance, keeps `TakenUpOnce`
only because a task with runs is archived and one without is removed *with* its mark. From it
`DefinitionsStayInStep`, `EnabledTasksCanRun`, `RunsStartOnTested` and `RolloutsUnderTasks`.

`NodeLifecycleProofs`, for any runs, slots, tokens and identities: `RemovedStaysDown`
needs that whatever process is about to confirm has disarmed its container, through
restarts and re-installations; `ConfirmedWhenIdle` that a process which has
prepared its removal asked its threads and the listing after it stopped claiming, and that only a failed
listing can have hidden a container from it (`IdleWhenPrepared`);
`CompletedTokenWasUsed` that the token a heartbeat has met is the one it compared.

`BuildCenterProofs`, for any number of jobs, builders and restarts: `OneThreadBuilds` needs that the set of
threads names every thread that is alive and that a request launches only what it has
entered there; `RegisteredWasPushed`, for any number of images that share the tag, that a digest in a
manifest, in the release or in a row has been pushed by somebody and that all rows name
the one of the release (`PushInv`); `CancelsStop` what a stage has read when it commits.

`ConsoleProofs`, about the components beside the build center in `MCConsole`:

* sessions, for any number of requests and passwords: at most one login is past the
  user's lock, and it has seen every session that is active; the session that may act has the
  present password, or was opened across a reset that saw none (`SessionInv`); from it
  `SessionsAreBounded` and `SessionsReplacedWhenAsked`;
* reports: an execution has one verdict (`OneVerdict`): the result on the platform, those in the
  spool and the one still to be sent agree, and before the container has ended there is
  none. So a result is not exchanged for another, however often reports are lost,
  repeated or delayed and wherever an exception or a restart cuts the course
  (`ResultsStay`, the first half of `ResultReported`);
* `ConsoleTypeCorrect`: a step of one part leaves the variables of the others alone
  (`OfOnePart`), so the invariants of the five hold together. For the alerts and for the node's
  health the types are all that is proved.

`TaskPartsProofs`, about the components beside the tasks in `MCTaskOrchestration`:

* the resource: a complete status is explained by what happened to it, a save that is alone
  knows the status of the row, and a run that nothing has touched is still in order
  (`ResourceExplained`, `SaveAlone`, `RunStillInOrder`); from it `ClaimsJustified`;
* the subject: one transaction at most holds the row, and what it has seen is the row; a gap is
  locked only while there is no row; the failures of the row are as many as the
  events counted since (`ReportLocked`, `FailuresCounted`); from it `SubjectsStayBound`;
* the shards: a parent that succeeded hides no shard that did not, and when all rows have
  ended so has the parent, unless the last ending was silent (`ShardInv`); from it `ParentsFollowShards`;
* the plan: `ExpressionsAsk` says that the expressions made from a configuration
  admit exactly the times it asks for, the lemma `CombinedKeepsFirst` that however few times are
  taken of each expression the first of all is among them, and `EveryYear` that what has been accepted once
  has a next time for ever, as minute, hour and date repeat with the calendar (`SameOfDays`)
  or with the week. The invariant `PlanInv` says that the plan and a round keep only
  configurations that were accepted, and that a round nobody has overtaken works on the plan as
  it is. `PlansFireAsConfigured` follows, for any length of hour, day, week and months;
* `OrchestrationTypeCorrect`: the same composition as for the console.

Assumptions are those the modules name (`ConstantsAssumption`, `BoundAssumption`,
`RolloutAssumption`, `OrchestrationAssumption` and those of the other components): types
of the parameters, a finite set of nodes, limits of at least one, a row for every shard, one
fingerprint at least. `CalendarAssumption` wants days of the month up to 31 and a year of
a week at least, `ConfigsAssumption` times within the day and typed expressions that restrict the
day of the month or that of the week, not both. TLC evaluates all of them on every instance.

Only model-checked: `TakenRunEnds`, `RequestsEnd`, `LeavingEnds`, `JoiningEnds`,
`JobEnds`, `AlertReaches`, `PoolFollowsHealth` and the second half of
`ResultReported`, since the prover does not reason about fairness. Every safety property of a
passing run is a theorem.

## 5. Not modelled, and the plan

Next: with the safety of the present models proved, what is left are hazards that they
abstract from. The one that matters most is the first below. Where it is split, the
operator `StepShape` of `RunSchedulerProofs` is the place to start, since the later theorems speak
of the shapes of a step and not of its handlers.

Not modelled:

* races between handlers on one run row (`finish_run`, `mark_lost_runs`,
  `request_cancel`, routing, snapshots): the handlers of `RunScheduler` are atomic.
  Splitting them into read and commit would multiply its states; the race is listed as a hazard;
* the upgrade of an Agent: no code starts one;
* system settings, companies, profiles, notification channels: rows edited one at a
  time under a role check; platform actions: one script behind two locks;
* the validation of manifests, contracts and engine keys beyond its verdict, and
  the columns a run copies for the executor (data handling);
* the runtime entry (sequential), queries and read models, the thin routes,
  frontend, deployment scripts and migrations.
