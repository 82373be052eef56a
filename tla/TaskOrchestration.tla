--------------------------- MODULE TaskOrchestration ---------------------------
(***************************************************************************)
(* The tasks users make of the definitions a release offers, on top of the *)
(* rollouts that change those definitions and the nodes under them: how a  *)
(* definition is taken up, ignored and restored, what a task copies from   *)
(* it, when a task or its schedule may be switched on, when a run may      *)
(* start, and what deleting a task or the project leaves behind.           *)
(*                                                                         *)
(* Sources: task_service.py, task_definition_lifecycle_service.py,         *)
(* task_runtime_readiness_service.py, run_service.py (create_run) and      *)
(* project_service.py (delete_project) of backend/app/services.            *)
(*                                                                         *)
(* Tasks of one node each, without explicit target nodes and without the   *)
(* company's fallback nodes; what a contract demands is one model value,   *)
(* and the bindings either satisfy the contract of the task or not.  The   *)
(* accounts a task is bound to may be ill or in use at any moment, which   *)
(* refuses a start or an edit like any other reason not to take it.        *)
(***************************************************************************)
EXTENDS ReleaseRollout

CONSTANTS
  Contract,         \* what the manifest of a release demands for a key
  NoContract,
  TaskStatuses,     \* the statuses a user gives a task
  ScheduleStatuses, \* and a schedule
  PinChoices        \* fixed_release_id of a PINNED task; None: the stable channel

ASSUME OrchestrationAssumption ==
  /\ TaskStatuses \subseteq {"DRAFT", "ENABLED", "PAUSED", "DISABLED", "ARCHIVED"}
  /\ ScheduleStatuses \subseteq {"PAUSED", "ENABLED", "DISABLED", "ERROR"}
  /\ PinChoices \subseteq Releases \union {None}
  /\ DOMAIN Contract = Releases
  /\ \A r \in Releases : Manifest[r] \subseteq DOMAIN Contract[r]

VARIABLE task    \* crawler_task, its schedule and whether runs of it exist

NoTask == [status |-> "ABSENT", schedule |-> "PAUSED", contract |-> NoContract,
           bound |-> FALSE, pin |-> None, runs |-> "NONE"]

Exists(k) == task[k].status # "ABSENT"

(* The contract a definition offers is that of the release it was last seen *)
(* in: the copy sync_from_release makes.                                    *)
Offered(k) == Contract[definition[k].from][k]

-----------------------------------------------------------------------------
(* Readiness                                                                *)

(* resolve_release *)
ReleaseOf(t) ==
  LET r == IF t.pin # None THEN t.pin ELSE channel["stable"]
  IN  IF r # None /\ IsPublished(r) THEN r ELSE None

(* _ready_server_count *)
RunnableNodes(r) == {s \in ReadyNodes(pool, r) : node[s] = "UP"}

(* evaluate, for a task t of the definition k whose orchestration is orch *)
Ready(k, t, orch) ==
  LET r == ReleaseOf(t)
  IN  /\ project.status = "ENABLED" /\ project.online = "ONLINE"
      /\ r # None
      /\ definition[k].disc = "ACTIVE" /\ orch = "ORCHESTRATED"
      /\ k \in Manifest[r]
      /\ t.contract = Contract[r][k]
      /\ t.bound
      /\ RunnableNodes(r) # {}

-----------------------------------------------------------------------------
(* Users                                                                    *)

rest == <<project, published, pool, rollout, channel, queue, agents>>

SetOrch(k, orch) == definition' = [definition EXCEPT ![k].orch = orch]

IgnoreDefinition(k) ==
  /\ definition[k].disc = "ACTIVE" /\ definition[k].orch # "ORCHESTRATED" /\ ~Exists(k)
  /\ SetOrch(k, "IGNORED")
  /\ UNCHANGED <<task, rest>>

RestoreDefinition(k) ==
  /\ definition[k].orch = "IGNORED"
  /\ SetOrch(k, IF Exists(k) THEN "ORCHESTRATED" ELSE "PENDING")
  /\ UNCHANGED <<task, rest>>

(* _validate_task_contract_bindings and _validate_image_binding *)
BindingsAllowed(status, bound) == status = "ENABLED" => bound
PinAllowed(pin) == pin = None \/ IsPublished(pin)

(* create_from_definition *)
CreateTask(k, status, schedule, bound, pin) ==
  LET t == [NoTask EXCEPT !.status = status, !.schedule = schedule, !.bound = bound,
                          !.pin = pin, !.contract = Offered(k)]
  IN  /\ definition[k].disc = "ACTIVE" /\ definition[k].orch = "PENDING" /\ ~Exists(k)
      /\ status # "ARCHIVED" /\ schedule # "ERROR"
      /\ schedule = "ENABLED" => status = "ENABLED"
      /\ BindingsAllowed(status, bound) /\ PinAllowed(pin)
      /\ status = "ENABLED" => Ready(k, t, "ORCHESTRATED")
      /\ task' = [task EXCEPT ![k] = t]
      /\ SetOrch(k, "ORCHESTRATED")
      /\ UNCHANGED rest

(* update_task: a task that is not enabled stops its schedule. *)
UpdateTask(k, status, bound, pin) ==
  LET t == [task[k] EXCEPT !.status = status, !.bound = bound, !.pin = pin,
              !.schedule = IF status # "ENABLED" /\ @ = "ENABLED" THEN "PAUSED" ELSE @]
  IN  /\ Exists(k) /\ t # task[k]
      /\ BindingsAllowed(status, bound) /\ PinAllowed(pin)
      /\ status = "ENABLED" => Ready(k, t, definition[k].orch)
      /\ task' = [task EXCEPT ![k] = t]
      /\ UNCHANGED <<definition, rest>>

UpdateSchedule(k, schedule) ==
  /\ Exists(k) /\ task[k].schedule # schedule
  /\ schedule = "ENABLED" => task[k].status = "ENABLED" /\ Ready(k, task[k], definition[k].orch)
  /\ task' = [task EXCEPT ![k].schedule = schedule]
  /\ UNCHANGED <<definition, rest>>

(* Mutant: the bindings are not validated against the new contract. *)
ReconcileUnvalidated(k, bound) ==
  /\ Exists(k)
  /\ definition[k].disc = "ACTIVE" /\ definition[k].orch = "ORCHESTRATED"
  /\ task' = [task EXCEPT ![k].contract = Offered(k), ![k].bound = bound]
  /\ UNCHANGED <<definition, rest>>

(* reconcile_definition: the task takes the contract on offer. *)
ReconcileDefinition(k, bound) ==
  /\ Exists(k)
  /\ definition[k].disc = "ACTIVE" /\ definition[k].orch = "ORCHESTRATED"
  /\ BindingsAllowed(task[k].status, bound)
  /\ task' = [task EXCEPT ![k].contract = Offered(k), ![k].bound = bound]
  /\ UNCHANGED <<definition, rest>>

(* delete_task: a task that has run is archived, another removed.           *)
DeleteTask(k) ==
  /\ Exists(k) /\ task[k].runs # "ACTIVE"
  /\ IF task[k].runs = "ENDED"
     THEN /\ task' = [task EXCEPT ![k].status = "ARCHIVED", ![k].schedule = "DISABLED"]
          /\ UNCHANGED definition
     ELSE /\ task' = [task EXCEPT ![k] = NoTask]
          /\ IF definition[k].orch = "ORCHESTRATED" THEN SetOrch(k, "PENDING")
             ELSE UNCHANGED definition
  /\ UNCHANGED rest

(* delete_project decides as delete_task does, over all the tasks.          *)
DeleteProject ==
  /\ \A k \in Keys : task[k].runs # "ACTIVE"
  /\ IF \E k \in Keys : task[k].runs = "ENDED"
     THEN /\ ArchiveProject
          /\ task' = [k \in Keys |-> IF Exists(k)
                        THEN [task[k] EXCEPT !.status = "ARCHIVED", !.schedule = "DISABLED"]
                        ELSE NoTask]
     ELSE RemoveProject /\ task' = [k \in Keys |-> NoTask]

-----------------------------------------------------------------------------
(* Runs                                                                     *)

(* create_run, by a user (a draft may be tried out) or by the schedule      *)
StartRun(k) ==
  /\ task[k].status \in {"ENABLED", "DRAFT"}
  /\ Ready(k, task[k], definition[k].orch)
  /\ task' = [task EXCEPT ![k].runs = "ACTIVE"]
  /\ UNCHANGED <<definition, rest>>

(* definition_changed: only an operator can make the task runnable again.   *)
Drifted(k) ==
  LET r == ReleaseOf(task[k])
  IN  /\ project.status = "ENABLED" /\ task[k].status = "ENABLED" /\ r # None
      /\ k \notin Manifest[r] \/ task[k].contract # Contract[r][k]

(* A round of the schedule that may not start leaves a row that has ended,  *)
(* and a task that drifted loses its schedule.                              *)
SkipRound(k) ==
  /\ task[k].schedule = "ENABLED"
  /\ \/ task[k].status # "ENABLED" \/ ~Ready(k, task[k], definition[k].orch)
     \/ task[k].bound      \* to an account that is ill or in use
  /\ task' = [task EXCEPT ![k].runs = IF @ = "NONE" THEN "ENDED" ELSE @,
                          ![k].schedule = IF Drifted(k) THEN "ERROR" ELSE @]
  /\ UNCHANGED <<definition, rest>>

RunsEnd(k) ==
  /\ task[k].runs = "ACTIVE"
  /\ task' = [task EXCEPT ![k].runs = "ENDED"]
  /\ UNCHANGED <<definition, rest>>

-----------------------------------------------------------------------------
TaskInit == Init /\ task = [k \in Keys |-> NoTask]

RunStep(k) == StartRun(k) \/ SkipRound(k) \/ RunsEnd(k)

TakeUp(k) ==
  \E status \in TaskStatuses, schedule \in ScheduleStatuses, bound \in BOOLEAN, pin \in PinChoices :
    CreateTask(k, status, schedule, bound, pin)

TaskEdit(k) ==
  \/ IgnoreDefinition(k) \/ RestoreDefinition(k)
  \/ \E status \in TaskStatuses, bound \in BOOLEAN, pin \in PinChoices :
        UpdateTask(k, status, bound, pin)
  \/ \E schedule \in ScheduleStatuses : UpdateSchedule(k, schedule)
  \/ \E bound \in BOOLEAN : ReconcileDefinition(k, bound)
  \/ DeleteTask(k)

ProjectEdit ==
  \/ \E online \in OnlineChoices, min \in MinChoices : UpdateProject(online, min)
  \/ \E S \in TargetChoices, sched \in PoolChoices : UpdateServerPool(S, sched)

TaskNext ==
  \/ (Rollout \/ \E s \in Servers : AgentStep(s)) /\ UNCHANGED <<task, upsets>>
  \/ (\E k \in Keys : RunStep(k)) /\ UNCHANGED upsets
  \/ /\ \/ ProjectEdit /\ UNCHANGED task
        \/ (\E s \in Servers : Failure(s)) /\ UNCHANGED task
        \/ \E k \in Keys : TakeUp(k) \/ TaskEdit(k)
        \/ DeleteProject
     /\ upsets < MaxUpsets /\ upsets' = upsets + 1

TaskSpec == TaskInit /\ [][TaskNext]_<<vars, task>>

-----------------------------------------------------------------------------
TaskTypeOK ==
  /\ TypeOK
  /\ task \in [Keys -> [status : TaskStatuses \union {"ABSENT", "ARCHIVED"},
                        schedule : ScheduleStatuses \union {"PAUSED", "DISABLED", "ERROR"},
                        contract : (UNION {{Contract[r][k] : k \in Manifest[r]} : r \in Releases})
                                     \union {NoContract},
                        bound : BOOLEAN, pin : PinChoices \union {None},
                        runs : {"NONE", "ACTIVE", "ENDED"}]]

(* The definitions on offer are those of the release that was activated,    *)
(* and one is marked as taken up exactly as long as its task exists,        *)
(* through releases that drop and restore it, ignoring, deletion of the     *)
(* task and removal of the project: otherwise it could be taken up twice or *)
(* never again (create_from_definition, delete_task).                       *)
DefinitionsInStep ==
  /\ DefinitionsFollowChannel
  /\ \A k \in Keys : definition[k].orch = "ORCHESTRATED" <=> Exists(k)

(* An enabled task has every binding its contract demands, which a draft may *)
(* lack (RELEASE_NOTES_1.0.110.md, "progressive orchestration"), also after  *)
(* its contract was replaced; and no schedule fires for a task that is       *)
(* switched off, whichever of the two was edited last (update_task,          *)
(* update_schedule, reconcile_definition, delete_task).                      *)
EnabledCanRun ==
  \A k \in Keys :
    /\ task[k].status = "ENABLED" => task[k].bound
    /\ task[k].schedule = "ENABLED" => task[k].status = "ENABLED"

(* A run starts only when a node is up on which its release was pulled and  *)
(* passed the smoke test, and only with the contract of that release.       *)
StartedOnTested ==
  [][ \A k \in Keys :
        task[k].runs # "ACTIVE" /\ task'[k].runs = "ACTIVE"
        => LET r == ReleaseOf(task[k])
           IN  /\ \E s \in Servers : node[s] = "UP" /\ r \in tested[s]
               /\ task[k].contract = Contract[r][k]
    ]_<<vars, task>>
=============================================================================
