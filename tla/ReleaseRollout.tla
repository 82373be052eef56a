---------------------------- MODULE ReleaseRollout ----------------------------
(***************************************************************************)
(* From a registered release of one project to the release its nodes run:  *)
(* registration and import, rollouts with their targets, the commands      *)
(* queued for the Agents and their answers, prewarming, the activation     *)
(* that switches nodes, channel and task definitions, the pool of nodes,   *)
(* and the removal of the project.  One action per handler.                *)
(*                                                                         *)
(* Sources: project_service.py, agent_command_service.py,                  *)
(* release_activation_service.py, task_definition_lifecycle_service.py and *)
(* agent_service.py of backend/app/services; main.py, api.py and           *)
(* docker_runner.py of agent/crawler_agent.                                *)
(*                                                                         *)
(* image_readiness_status of a target is a function of its target_status   *)
(* and is left out, and so is the copy of the targets kept in the strategy *)
(* of a deployment.  A node that is deleted takes its targets with it (the *)
(* foreign keys cascade): the branch for a missing node is never taken.    *)
(***************************************************************************)
EXTENDS Naturals, FiniteSets, Sequences

CONSTANTS
  Servers,          \* nodes, by server_id
  Releases, None,   \* versions of the project; no release
  ChannelOf,        \* release_channel of a release
  Keys, Manifest,   \* definition keys; those in the manifest of a release
  MaxDeployments,   \* BOUND: rows of crawler_project_deployment
  MaxParallel,      \* maxParallelPulls of a rollout
  QueueLimit,       \* commands kept per node, 100 in the code
  TargetChoices,    \* the sets of nodes a user selects
  PoolChoices,      \* the scheduling_status a user gives a node
  OnlineChoices,    \* the online_status a user gives the project
  MinChoices,       \* the min_available_servers a user gives the project
  NodeModes,        \* the modes the environment puts a node in
  HealthChoices,    \* the health the heartbeats of a node amount to
  MaxUpsets         \* BOUND: edits of users and failures of nodes

Deployments == 1 .. MaxDeployments
Channels == {ChannelOf[r] : r \in Releases} \union {"stable"}

ASSUME RolloutAssumption ==
  /\ Servers \subseteq Nat /\ IsFiniteSet(Servers)
  /\ None \notin Releases
  /\ DOMAIN ChannelOf = Releases
  /\ Manifest \in [Releases -> SUBSET Keys]
  /\ MaxDeployments \in Nat
  /\ MaxParallel \in Nat \ {0}
  /\ QueueLimit \in Nat \ {0}
  /\ TargetChoices \subseteq SUBSET Servers
  /\ PoolChoices \subseteq {"ENABLED", "PAUSED", "DRAINING", "AUTO_EJECTED", "RECOVERING", "DISABLED"}
  /\ OnlineChoices \subseteq {"DRAFT", "READY", "ONLINE", "SUSPENDED", "OFFLINE"}
  /\ MinChoices \subseteq Nat \ {0} /\ 1 \in MinChoices
  /\ NodeModes \subseteq {"UP", "HELD", "DOWN"} /\ "UP" \in NodeModes
  /\ HealthChoices \subseteq {"WELL", "ILL", "UNKNOWN"}
  /\ MaxUpsets \in Nat

VARIABLES
  project,      \* the project's status, online_status and min_available_servers
  published,    \* the releases registered, by published_at
  pool,         \* crawler_project_server, by server_id
  rollout,      \* crawler_project_deployment and its targets
  channel,      \* crawler_release_channel, by channel_name
  definition,   \* crawler_project_task_definition, by definition_key
  queue,        \* pendingAgentCommands of a node: the rollouts they are for
  expired,      \* the commands in it whose expiresAt has passed
  node,         \* UP, HELD (draining, upgrading, leaving), DOWN (no heartbeats)
  inHand,       \* commands an Agent has received and not yet worked off
  pulling,      \* the release an Agent prewarms
  tested,       \* releases a node has reported the smoke test of as passed
  upsets        \* edits and failures so far

platform == <<project, published, pool, rollout, channel, definition, queue>>
agents == <<expired, node, inHand, pulling, tested>>
vars == <<project, published, pool, rollout, channel, definition, queue,
          expired, node, inHand, pulling, tested, upsets>>

-----------------------------------------------------------------------------
(* The queue of commands                                                    *)

(* The sequence without e, which is in it once at most: both lists that     *)
(* change this way take a member out before they append it.                 *)
Without(q, e) ==
  IF \E i \in DOMAIN q : q[i] = e
  THEN LET i == CHOOSE j \in DOMAIN q : q[j] = e
       IN  SubSeq(q, 1, i - 1) \o SubSeq(q, i + 1, Len(q))
  ELSE q

Enqueued(q, d) ==
  LET all == Append(Without(q, d), d)
      cut == IF Len(all) > QueueLimit THEN Len(all) - QueueLimit ELSE 0
  IN  SubSeq(all, cut + 1, Len(all))

InQueue(q) == {q[i] : i \in DOMAIN q}

Acknowledged(q, d) == Without(q, d)

(* pending_for_server hides what has expired, and the heartbeat what is not *)
(* for the lifecycle of a node that drains, upgrades or leaves.             *)
PendingCommands(s) ==
  IF node[s] = "HELD" THEN {} ELSE InQueue(queue[s]) \ expired[s]

-----------------------------------------------------------------------------
(* Rollouts                                                                 *)

TargetsOf(t) == {s \in Servers : t[s].status # "NONE"}
Statuses(t) == {t[s].status : s \in TargetsOf(t)}

FreeSlots(t) ==
  LET active == {s \in Servers : t[s].status \in {"DISPATCHED", "DEPLOYING"}}
  IN  IF Cardinality(active) < MaxParallel THEN MaxParallel - Cardinality(active) ELSE 0

(* Mutant: the slots are counted down after the comparison. *)
ChosenOneMore(t) ==
  LET waiting == {s \in Servers : t[s].status = "PENDING_AGENT"}
  IN  {s \in waiting : Cardinality({p \in waiting : p < s}) <= FreeSlots(t)}

(* The targets the next free slots go to, by target_id (that is, by node). *)
Chosen(t) ==
  LET waiting == {s \in Servers : t[s].status = "PENDING_AGENT"}
  IN  {s \in waiting : Cardinality({p \in waiting : p < s}) < FreeSlots(t)}

Dispatched(t) ==
  [s \in Servers |-> IF s \in Chosen(t) THEN [t[s] EXCEPT !.status = "DISPATCHED"] ELSE t[s]]

QueuesAfter(qs, t, d) ==
  [s \in Servers |-> IF s \in Chosen(t) THEN Enqueued(qs[s], d) ELSE qs[s]]

NoProject == [status |-> "NONE", online |-> "READY", min |-> 1]
NoDefinition == [disc |-> "NONE", orch |-> "PENDING", from |-> None]
NoRow == [dep |-> "ABSENT", sched |-> "PAUSED", img |-> "UNKNOWN", latest |-> None]
(* Mutant: a new node is entered as one that is being deployed to. *)
NewRowDeploying == [NoRow EXCEPT !.dep = "DEPLOYING"]
NewRow == [NoRow EXCEPT !.dep = "PENDING"]
NoTarget == [status |-> "NONE", desired |-> "ENABLED"]
NoRollout == [status |-> "NONE", release |-> None, target |-> [s \in Servers |-> NoTarget]]

(* The scheduling a node is to have once the release runs: what it has now. *)
Desired(row) ==
  IF row.dep # "ABSENT" /\ row.sched # "AUTO_EJECTED" THEN row.sched ELSE "ENABLED"

NewTargets(S) ==
  [s \in Servers |-> IF s \in S
                     THEN [status |-> "PENDING_AGENT", desired |-> Desired(pool[s])]
                     ELSE NoTarget]

-----------------------------------------------------------------------------
(* Activation                                                               *)

(* Mutant: every node that has some release deployed counts. *)
ReadyNodesOfAny(rows, r) ==
  {s \in Servers : rows[s].dep = "DEPLOYED" /\ rows[s].sched \in {"ENABLED", "RECOVERING"}}

(* The nodes ready_server_count counts for a release. *)
ReadyNodes(rows, r) ==
  {s \in Servers : /\ rows[s].latest = r /\ rows[s].dep = "DEPLOYED"
                   /\ rows[s].img = "READY" /\ rows[s].sched \in {"ENABLED", "RECOVERING"}}

Floor == project.min

(* refresh_project_runtime_status *)
Refreshed ==
  LET r == channel["stable"]
      ready == IF r = None THEN {} ELSE ReadyNodes(pool, r)
  IN  IF project.status # "ENABLED" \/ project.online \in {"SUSPENDED", "OFFLINE"} THEN project
      ELSE [project EXCEPT !.online = IF Cardinality(ready) >= Floor THEN "ONLINE" ELSE "READY"]

(* activate_deployment moves every target to the release at once and marks  *)
(* the other nodes that ran an older one.                                   *)
Promoted(rows, r, t) ==
  [s \in Servers |->
     IF rows[s].dep = "ABSENT" THEN rows[s]
     ELSE IF s \in TargetsOf(t)
     THEN [dep |-> "DEPLOYED", sched |-> t[s].desired, img |-> "READY", latest |-> r]
     ELSE IF rows[s].latest \notin {None, r} THEN [rows[s] EXCEPT !.img = "OUTDATED"]
     ELSE rows[s]]

(* Mutant: definitions the manifest has dropped stay on offer. *)
SyncedWithoutRemoval(r) ==
  [k \in Keys |-> IF k \in Manifest[r]
                   THEN [definition[k] EXCEPT !.disc = "ACTIVE", !.from = r]
                   ELSE definition[k]]

(* Mutant: a definition that is seen again starts afresh. *)
SyncedAfresh(r) ==
  [k \in Keys |-> IF k \in Manifest[r]
                   THEN [disc |-> "ACTIVE", orch |-> "PENDING", from |-> r]
                   ELSE IF definition[k].disc = "NONE" THEN definition[k]
                   ELSE [definition[k] EXCEPT !.disc = "REMOVED"]]

(* sync_from_release: the manifest owns discovery, the user orchestration.  *)
Synced(r) ==
  [k \in Keys |->
     IF k \in Manifest[r]
     THEN [definition[k] EXCEPT !.disc = "ACTIVE", !.from = r]
     ELSE IF definition[k].disc = "NONE" THEN definition[k]
     ELSE [definition[k] EXCEPT !.disc = "REMOVED"]]

Brought(p) ==
  IF p.status = "ENABLED" /\ p.online \notin {"SUSPENDED", "OFFLINE"}
  THEN [p EXCEPT !.online = "ONLINE"] ELSE p

(* Mutant: a rollout is done when no target is waiting any more. *)
OutcomeOfRest(t) ==
  IF Statuses(t) \cap {"PENDING_AGENT", "DISPATCHED", "DEPLOYING"} = {}
  THEN IF Cardinality(TargetsOf(t)) >= Floor THEN "DEPLOYED" ELSE "BLOCKED"
  ELSE "DEPLOYING"

(* The outcome of a rollout whose targets are t, after the answer of one. *)
Outcome(t) ==
  IF Statuses(t) = {"DEPLOYED"}
  THEN IF Cardinality(TargetsOf(t)) >= Floor THEN "DEPLOYED" ELSE "BLOCKED"
  ELSE IF "FAILED" \in Statuses(t)
          /\ Statuses(t) \cap {"PENDING_AGENT", "DISPATCHED", "DEPLOYING"} = {}
  THEN "FAILED" ELSE "DEPLOYING"

-----------------------------------------------------------------------------
(* Registration, import and the edits of users                              *)

Init ==
  /\ project = NoProject
  /\ published = << >>
  /\ pool = [s \in Servers |-> NoRow]
  /\ rollout = [d \in Deployments |-> NoRollout]
  /\ channel = [c \in Channels |-> None]
  /\ definition = [k \in Keys |-> NoDefinition]
  /\ queue = [s \in Servers |-> << >>]
  /\ expired = [s \in Servers |-> {}]
  /\ node = [s \in Servers |-> "UP"]
  /\ inHand = [s \in Servers |-> {}]
  /\ pulling = [s \in Servers |-> None]
  /\ tested = [s \in Servers |-> {}]
  /\ upsets = 0

Latest == published[Len(published)]
IsPublished(r) == \E i \in DOMAIN published : published[i] = r

(* upsert_discovered: a version registered again counts as published now.   *)
Register(r) ==
  /\ published' = Append(Without(published, r), r)
  /\ UNCHANGED <<project, pool, rollout, channel, definition, queue, agents>>

(* import_project, once something is registered and not imported. *)
Imported == [NoProject EXCEPT !.status = "ENABLED"]

Import ==
  /\ project.status = "NONE" /\ published # << >>
  /\ project' = Imported
  /\ UNCHANGED <<published, pool, rollout, channel, definition, queue, agents>>

EnabledRows(rows) ==
  {s \in Servers : rows[s].dep = "DEPLOYED" /\ rows[s].sched \in {"ENABLED", "RECOVERING"}}

(* _validate_project_pool, in load balancing *)
PoolSuffices(p, rows) == p.online = "ONLINE" => Cardinality(EnabledRows(rows)) >= p.min

UpdateProject(online, min) ==
  LET edited == [project EXCEPT !.online = online, !.min = min]
  IN  /\ project.status # "NONE"
      /\ PoolSuffices(edited, pool)
      /\ project' = edited
      /\ UNCHANGED <<published, pool, rollout, channel, definition, queue, agents>>

(* update_server_pool, after analyze_server_pool has agreed. *)
MayJoin(s) ==
  pool[s].dep = "DEPLOYED" => pool[s].img \in {"READY", "OUTDATED", "WARMING"}

UpdateServerPool(S, sched) ==
  LET rows == [s \in Servers |->
                 IF s \in S
                 THEN [(IF pool[s].dep = "ABSENT" THEN NewRow ELSE pool[s]) EXCEPT !.sched = sched]
                 ELSE pool[s]]
  IN  /\ project.status # "NONE"
      /\ \A s \in S : MayJoin(s)
      /\ (IF sched \in {"ENABLED", "RECOVERING"} THEN Cardinality(S) ELSE 0) >= Floor
      /\ PoolSuffices(project, rows)
      /\ pool' = rows
      /\ UNCHANGED <<project, published, rollout, channel, definition, queue, agents>>

(* delete_project: a project that has run is archived, with its nodes        *)
(* disabled; another is removed with all its rows and may be imported again. *)
ArchiveProject ==
  /\ project.status # "NONE"
  /\ project' = [project EXCEPT !.status = "ARCHIVED", !.online = "SUSPENDED"]
  /\ pool' = [s \in Servers |-> IF pool[s].dep = "ABSENT" THEN pool[s]
                                 ELSE [pool[s] EXCEPT !.sched = "DISABLED"]]
  /\ UNCHANGED <<published, rollout, channel, definition, queue, agents>>

RemovedRollouts ==
  [d \in Deployments |-> IF rollout[d].status = "NONE" THEN rollout[d]
                         ELSE [NoRollout EXCEPT !.status = "DELETED"]]

RemoveProject ==
  /\ project.status # "NONE"
  /\ project' = NoProject
  /\ published' = << >>
  /\ pool' = [s \in Servers |-> NoRow]
  /\ rollout' = RemovedRollouts
  /\ channel' = [c \in Channels |-> None]
  /\ definition' = [k \in Keys |-> NoDefinition]
  /\ UNCHANGED <<queue, agents>>

-----------------------------------------------------------------------------
(* Rollouts                                                                 *)

(* _server_deploy_block_reason *)
Deployable(s) == node[s] = "UP"

(* _auto_select_deploy_servers: nodes of the pool first, then others.       *)
AutoSelected ==
  LET inPool == {s \in Servers : pool[s].sched \in {"ENABLED", "RECOVERING"}
                                 /\ pool[s].dep # "ABSENT" /\ Deployable(s)}
      others == {s \in Servers \ inPool : Deployable(s)}
      First(S, n) == {s \in S : Cardinality({q \in S : q < s}) < n}
  IN  IF Cardinality(inPool) >= Floor THEN First(inPool, Floor)
      ELSE inPool \union First(others, Floor - Cardinality(inPool))

(* The guard against a rollout that is not finished looks at a status no    *)
(* handler sets on a row of the pool any more.                              *)
NoRolloutOn(S) == \A s \in S : pool[s].dep \notin {"DEPLOYING", "ROLLING_BACK", "CLEANING"}

(* deploy_release_to_servers *)
Deploy(d, r, S) ==
  LET t == NewTargets(S)
  IN  /\ project.status # "NONE"
      /\ IsPublished(r)
      /\ S # {} /\ \A s \in S : Deployable(s)
      /\ Cardinality(S) >= Floor
      /\ NoRolloutOn(S)
      /\ rollout[d].status = "NONE" /\ \A e \in 1 .. d - 1 : rollout[e].status # "NONE"
      /\ pool' = [s \in Servers |-> IF s \in S /\ pool[s].dep = "ABSENT" THEN NewRow ELSE pool[s]]
      /\ rollout' = [rollout EXCEPT ![d] = [status |-> "DEPLOYING", release |-> r,
                                            target |-> Dispatched(t)]]
      /\ queue' = QueuesAfter(queue, t, d)
      /\ UNCHANGED <<project, published, channel, definition, agents>>

(* run_publish_pipeline, where the project or a release to import is known: *)
(* the import and the rollout of the latest release in one call.            *)
Publish(d, S) ==
  /\ project.status # "ARCHIVED" /\ published # << >>
  /\ IF project.status = "NONE"
     THEN LET t == NewTargets(S)
          IN  /\ S # {} /\ \A s \in S : Deployable(s)
              /\ rollout[d].status = "NONE" /\ \A e \in 1 .. d - 1 : rollout[e].status # "NONE"
              /\ project' = Imported
              /\ pool' = [s \in Servers |-> IF s \in S THEN NewRow ELSE pool[s]]
              /\ rollout' = [rollout EXCEPT ![d] = [status |-> "DEPLOYING", release |-> Latest,
                                                    target |-> Dispatched(t)]]
              /\ queue' = QueuesAfter(queue, t, d)
              /\ UNCHANGED <<published, channel, definition, agents>>
     ELSE Deploy(d, Latest, S)

(* dispatch_project_deployment_targets leaves a rollout alone whose project *)
(* or release is gone; a rollout that went with its project ignores the     *)
(* answer (apply_project_deploy_result).                                    *)
Applied(s, d, ok) ==
  LET r == rollout[d].release
      t == [rollout[d].target EXCEPT ![s].status = IF ok THEN "DEPLOYED" ELSE "FAILED"]
      after == Dispatched(t)
      outcome == Outcome(after)
      failedFirst == ~ok /\ pool[s].dep # "ABSENT" /\ pool[s].latest = None
      rows == IF failedFirst
              THEN [pool EXCEPT ![s] = [NoRow EXCEPT !.dep = "FAILED", !.img = "FAILED"]]
              ELSE pool
  IN  /\ rollout' = [rollout EXCEPT ![d].target = after, ![d].status = outcome]
      /\ queue' = QueuesAfter([queue EXCEPT ![s] = Acknowledged(queue[s], d)], t, d)
      /\ IF outcome = "DEPLOYED"
         THEN /\ pool' = Promoted(rows, r, after)
              /\ channel' = [channel EXCEPT ![ChannelOf[r]] = r]
              /\ definition' = Synced(r)
              /\ project' = Brought(project)
         ELSE /\ pool' = rows
              /\ project' = IF outcome = "BLOCKED" THEN Refreshed ELSE project
              /\ UNCHANGED <<channel, definition>>
      /\ UNCHANGED published

(* report_agent_command_result: an answer to a command that is not queued   *)
(* (any more) is not accepted.                                              *)
Answer(s, d, ok) ==
  IF d \notin InQueue(queue[s]) THEN UNCHANGED platform
  ELSE IF rollout[d].status = "DELETED"
  THEN /\ queue' = [queue EXCEPT ![s] = Acknowledged(queue[s], d)]
       /\ UNCHANGED <<project, published, pool, rollout, channel, definition>>
  ELSE Applied(s, d, ok)

-----------------------------------------------------------------------------
(* Agents                                                                   *)

(* _sync_project_server_scheduling *)
Rescheduled(row, health) ==
  IF row.dep # "DEPLOYED" THEN row
  ELSE IF health = "ILL" /\ row.sched \in {"ENABLED", "RECOVERING"}
  THEN [row EXCEPT !.sched = "AUTO_EJECTED"]
  ELSE IF health = "WELL" /\ row.sched = "AUTO_EJECTED" THEN [row EXCEPT !.sched = "RECOVERING"]
  ELSE IF health = "WELL" /\ row.sched = "RECOVERING" THEN [row EXCEPT !.sched = "ENABLED"]
  ELSE row

(* _pending_image_pulls *)
NeedsPull(s, row) ==
  /\ node[s] # "HELD" /\ PendingCommands(s) = {}
  /\ row.dep = "DEPLOYED" /\ row.sched \in {"ENABLED", "RECOVERING", "PAUSED"}
  /\ row.img \in {"OUTDATED", "UNKNOWN", "FAILED", "WARMING"}
  /\ project.status = "ENABLED" /\ row.latest # None /\ IsPublished(row.latest)

(* A heartbeat hands the Agent its commands, or what to prewarm: the Agent  *)
(* prewarms when it is idle and not too soon after the last attempt.        *)
Heartbeat(s, health) ==
  /\ node[s] # "DOWN" /\ inHand[s] = {} /\ pulling[s] = None
  /\ pool' = [pool EXCEPT ![s] = Rescheduled(pool[s], health)]
  /\ inHand' = [inHand EXCEPT ![s] = PendingCommands(s)]
  /\ \/ pulling' = pulling
     \/ NeedsPull(s, pool'[s]) /\ pulling' = [pulling EXCEPT ![s] = pool[s].latest]
  /\ UNCHANGED <<project, published, rollout, channel, definition, queue, expired, node, tested>>

(* prepare_project_runtime pulls the image and runs the smoke test.         *)
Tests(s, d) ==
  IF rollout[d].release = None THEN tested
  ELSE [tested EXCEPT ![s] = @ \union {rollout[d].release}]

(* handle_agent_commands: when the report of a success fails, the Agent     *)
(* reports a failure; when that fails as well the command stays queued.     *)
Prepare(s, d) ==
  /\ d \in inHand[s] /\ node[s] # "DOWN"
  /\ inHand' = [inHand EXCEPT ![s] = @ \ {d}]
  /\ \/ tested' = Tests(s, d) /\ Answer(s, d, TRUE)
     \/ tested' = tested /\ Answer(s, d, FALSE)
  /\ UNCHANGED <<expired, node, pulling>>

PrepareUnheard(s, d) ==
  /\ d \in inHand[s]
  /\ inHand' = [inHand EXCEPT ![s] = @ \ {d}]
  /\ UNCHANGED <<platform, expired, node, pulling, tested>>

(* Mutant: a report about a release the node has left is taken as well. *)
PulledAnyRelease(s, r, verdict) ==
  IF pool[s].dep = "ABSENT" THEN UNCHANGED platform
  ELSE /\ pool' = [pool EXCEPT ![s].img = verdict, ![s].latest = r]
       /\ UNCHANGED <<project, published, rollout, channel, definition, queue>>

(* report_image_pull_result: a report about a release the node has left is  *)
(* ignored; another sets every target of that release on the node.          *)
Pulled(s, r, verdict) ==
  IF pool[s].dep = "ABSENT" \/ pool[s].latest \notin {None, r} THEN UNCHANGED platform
  ELSE /\ pool' = [pool EXCEPT ![s].img = verdict]
       /\ rollout' = [d \in Deployments |->
                        IF rollout[d].release = pool[s].latest /\ rollout[d].target[s].status # "NONE"
                        THEN [rollout[d] EXCEPT !.target[s].status = verdict]
                        ELSE rollout[d]]
       /\ UNCHANGED <<project, published, channel, definition, queue>>

(* prewarm_image *)
Prewarm(s) ==
  /\ pulling[s] # None
  /\ pulling' = [pulling EXCEPT ![s] = None]
  /\ \/ node[s] # "DOWN" /\ \E verdict \in {"READY", "FAILED"} : Pulled(s, pulling[s], verdict)
     \/ UNCHANGED platform
  /\ UNCHANGED <<expired, node, inHand, tested>>

AgentRestart(s) ==
  /\ inHand[s] # {} \/ pulling[s] # None
  /\ inHand' = [inHand EXCEPT ![s] = {}]
  /\ pulling' = [pulling EXCEPT ![s] = None]
  /\ UNCHANGED <<platform, expired, node, tested>>

SetNode(s, mode) ==
  /\ node[s] # mode
  /\ node' = [node EXCEPT ![s] = mode]
  /\ UNCHANGED <<platform, expired, inHand, pulling, tested>>

(* 24 hours have passed since the command was queued. *)
Expire(s, d) ==
  /\ d \in InQueue(queue[s]) \ expired[s]
  /\ expired' = [expired EXCEPT ![s] = @ \union {d}]
  /\ UNCHANGED <<platform, node, inHand, pulling, tested>>

-----------------------------------------------------------------------------
Rollout ==
  \/ \E r \in Releases : Register(r)
  \/ Import
  \/ \E d \in Deployments, r \in Releases, S \in TargetChoices \union {AutoSelected} : Deploy(d, r, S)
  \/ \E d \in Deployments, S \in TargetChoices : Publish(d, S)

AgentStep(s) ==
  \/ \E health \in HealthChoices \ {"ILL"} : Heartbeat(s, health)
  \/ \E d \in Deployments : Prepare(s, d) \/ PrepareUnheard(s, d)
  \/ Prewarm(s)
  \/ AgentRestart(s)

Edit ==
  \/ \E online \in OnlineChoices, min \in MinChoices : UpdateProject(online, min)
  \/ \E S \in TargetChoices, sched \in PoolChoices : UpdateServerPool(S, sched)
  \/ ArchiveProject
  \/ RemoveProject

Failure(s) ==
  \/ \E health \in HealthChoices \cap {"ILL"} : Heartbeat(s, health)
  \/ \E mode \in NodeModes : SetNode(s, mode)
  \/ \E d \in Deployments : Expire(s, d)

Next ==
  \/ (Rollout \/ \E s \in Servers : AgentStep(s)) /\ UNCHANGED upsets
  \/ /\ Edit \/ \E s \in Servers : Failure(s)
     /\ upsets < MaxUpsets /\ upsets' = upsets + 1

Spec == Init /\ [][Next]_vars

-----------------------------------------------------------------------------
TypeOK ==
  /\ project \in [status : {"NONE", "ENABLED", "ARCHIVED"},
                  online : OnlineChoices \union {"READY", "ONLINE", "SUSPENDED"}, min : MinChoices]
  /\ pool \in [Servers -> [dep : {"ABSENT", "PENDING", "DEPLOYED", "FAILED"},
                           sched : PoolChoices \union {"ENABLED", "PAUSED", "RECOVERING", "AUTO_EJECTED", "DISABLED"},
                           img : {"UNKNOWN", "READY", "FAILED", "OUTDATED"},
                           latest : Releases \union {None}]]

(* What a row of the pool says a node runs has been pulled and has passed    *)
(* the smoke test on that very node (state ownership in the design note     *)
(* release-runtime-consistency-1.0.110.md), whatever answers were lost,     *)
(* doubled or crossed, and whatever was prewarmed meanwhile.                *)
RunningReleaseIsTested ==
  \A s \in Servers : pool[s].latest # None => pool[s].latest \in tested[s]

(* The commands of a rollout that nodes still have to answer: "only the      *)
(* given number of preparations at a time" (RELEASE_NOTES_1.0.110.md, 2).    *)
Outstanding(d) == {s \in Servers : d \in InQueue(queue[s])}
ParallelPulls ==
  \A d \in Deployments : rollout[d].status # "DELETED" => Cardinality(Outstanding(d)) <= MaxParallel

(* "At any moment only one candidate command exists when maxParallelPulls   *)
(* is 1" (the same notes, under tests).  With more it fails: the slots are  *)
(* counted by the status of the targets, which the report of a prewarm of   *)
(* the same release overwrites while the command is still queued.           *)
SinglePull == MaxParallel = 1 => ParallelPulls

(* Nodes and channel move only in the step that completes a rollout, and    *)
(* then all its nodes and its channel move to its release together.         *)
AtomicActivation ==
  [][ (channel' # channel \/ \E s \in Servers : pool'[s].latest # pool[s].latest)
      => \/ project'.status = "NONE"
         \/ \E d \in Deployments :
              /\ rollout[d].status # "DEPLOYED" /\ rollout'[d].status = "DEPLOYED"
              /\ channel'[ChannelOf[rollout[d].release]] = rollout[d].release
              /\ \A s \in Servers : pool'[s].latest # pool[s].latest
                   => rollout[d].target[s].status # "NONE"
              /\ \A s \in TargetsOf(rollout[d].target) : pool'[s].latest = rollout[d].release
    ]_vars

(* The definitions on offer are those of the release that was activated.    *)
DefinitionsFollowChannel ==
  \A k \in Keys : definition[k].disc = "ACTIVE"
                  <=> channel["stable"] # None /\ k \in Manifest[channel["stable"]]
=============================================================================
