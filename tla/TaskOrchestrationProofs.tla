------------------------ MODULE TaskOrchestrationProofs ------------------------
(***************************************************************************)
(* What holds of the tasks and of the rollouts under them, for any nodes,  *)
(* releases, manifests and users.  A step of the tasks either is a step of *)
(* the rollouts or leaves all of their state alone but the orchestration   *)
(* of a definition, so that the invariant of the rollouts is used as it is.*)
(***************************************************************************)
EXTENDS TaskOrchestration, ReleaseRolloutProofs

Contracts == (UNION {{Contract[r][k] : k \in Manifest[r]} : r \in Releases}) \union {NoContract}

TaskRows == [status : TaskStatuses \union {"ABSENT", "ARCHIVED"},
             schedule : ScheduleStatuses \union {"PAUSED", "DISABLED", "ERROR"},
             contract : Contracts, bound : BOOLEAN, pin : PinChoices \union {None},
             runs : {"NONE", "ACTIVE", "ENDED"}]

TaskTyped == task \in [Keys -> TaskRows]

\* One half of DefinitionsInStep; the other follows from OfferInv.
TakenUpOnce == \A k \in Keys : definition[k].orch = "ORCHESTRATED" <=> Exists(k)

\* Runs belong to a task, which is why the end of one finds its row.
RunsHaveTask == \A k \in Keys : task[k].runs # "NONE" => Exists(k)

TaskInv == TaskTyped /\ TakenUpOnce /\ RunsHaveTask /\ EnabledCanRun

OrchestrationInv == RolloutInv /\ TaskInv

LEMMA NoTaskIs == NoTask \in TaskRows /\ NoTask.status = "ABSENT" /\ NoTask.schedule = "PAUSED"
                  /\ NoTask.bound = FALSE /\ NoTask.runs = "NONE"
<1>1. NoContract \in Contracts
  BY DEF Contracts
<1> QED
  BY <1>1 DEF NoTask, TaskRows

LEMMA InitOrchestration == TaskInit => OrchestrationInv
<1> SUFFICES ASSUME TaskInit PROVE OrchestrationInv
  OBVIOUS
<1>1. RolloutInv
  BY InitRollout DEF TaskInit
<1>2. TaskTyped
  BY NoTaskIs DEF TaskInit, TaskTyped
<1>3. TakenUpOnce
  BY NoTaskIs DEF TaskInit, TakenUpOnce, Exists, Init, NoDefinition
<1>4. EnabledCanRun /\ RunsHaveTask
  BY NoTaskIs DEF TaskInit, EnabledCanRun, RunsHaveTask
<1> QED
  BY <1>1, <1>2, <1>3, <1>4 DEF OrchestrationInv, TaskInv

-----------------------------------------------------------------------------
(* Steps of the tasks                                                       *)

\* A step that leaves the rollouts alone, and of the definitions what was found.
TaskOnly ==
  /\ UNCHANGED rest
  /\ definition' \in [Keys -> DefinitionRows]
  /\ \A k \in Keys : /\ definition'[k].disc = definition[k].disc
                     /\ definition'[k].from = definition[k].from

LEMMA TaskOnlyRollout ==
  ASSUME RolloutInv, TaskOnly
  PROVE  RolloutInv' /\ ActivatesAtOnce
<1>1. UNCHANGED <<project, published, pool, rollout, channel, queue, agents>>
  BY DEF TaskOnly, rest
<1>2. RolloutTyped'
  BY <1>1 DEF TaskOnly, agents, RolloutInv, RolloutTyped, PlatformTyped, AgentsTyped,
       PublishedTyped, QueuesTyped
<1>3. TestedInv'
  BY <1>1 DEF agents, RolloutInv, TestedInv, DeployedIsTested, RunningReleaseIsTested
<1>4. CommandInv' /\ PullsCounted'
  BY <1>1 DEF RolloutInv, CommandInv, LiveHasRelease, NoStrays, PullsCounted, Working
<1>5. (MaxParallel = 1 => OneQueue)'
  BY <1>1 DEF RolloutInv, OneQueue
<1>6. ActivationInv'
  BY <1>1 DEF RolloutInv, ActivationInv, CommandTargets, DoneIsAnswered, TargetsHaveRows,
       AbsentRunNothing, GoneHasNothing
<1>7. OfferInv'
  BY <1>1, KeepsOffer DEF RolloutInv, TaskOnly
<1>8. ActivatesAtOnce
  BY <1>1 DEF ActivatesAtOnce
<1> QED
  BY <1>2, <1>3, <1>4, <1>5, <1>6, <1>7, <1>8 DEF RolloutInv

LEMMA SetOrchKeeps ==
  ASSUME RolloutTyped, NEW k \in Keys, NEW orch \in {"PENDING", "ORCHESTRATED", "IGNORED"},
         SetOrch(k, orch), UNCHANGED rest
  PROVE  /\ TaskOnly
         /\ \A q \in Keys : definition'[q].orch = IF q = k THEN orch ELSE definition[q].orch
<1>1. \A q \in Keys : definition[q] \in DefinitionRows
  BY DEF RolloutTyped, PlatformTyped
<1>2. [definition[k] EXCEPT !.orch = orch] \in DefinitionRows
  BY <1>1 DEF DefinitionRows
<1>3. definition' \in [Keys -> DefinitionRows]
  BY <1>2 DEF SetOrch, RolloutTyped, PlatformTyped
<1>4. \A q \in Keys : /\ definition'[q].disc = definition[q].disc
                      /\ definition'[q].from = definition[q].from
                      /\ definition'[q].orch = IF q = k THEN orch ELSE definition[q].orch
  BY <1>1 DEF SetOrch, RolloutTyped, PlatformTyped, DefinitionRows
<1> QED
  BY <1>3, <1>4 DEF TaskOnly

LEMMA DefinitionKept ==
  ASSUME RolloutTyped, UNCHANGED <<definition, rest>>
  PROVE  TaskOnly
BY DEF RolloutTyped, PlatformTyped, TaskOnly, rest

\* A definition on offer offers one of the contracts.
LEMMA OfferedTyped ==
  ASSUME RolloutInv, NEW k \in Keys, definition[k].disc = "ACTIVE"
  PROVE  Offered(k) \in Contracts
<1> DEFINE r == definition[k].from
<1>1. r \in Releases /\ k \in Manifest[r]
  BY DEF RolloutInv, OfferInv, OfferIsCopied
<1>2. Contract[r][k] \in {Contract[r][q] : q \in Manifest[r]}
  BY <1>1
<1> QED
  BY <1>1, <1>2 DEF Offered, Contracts

\* The step of one task that leaves its orchestration in step with its existence.
LEMMA OneTaskStep ==
  ASSUME TaskInv, NEW k \in Keys, NEW t \in TaskRows,
         task' = [task EXCEPT ![k] = t],
         \A q \in Keys \ {k} : definition'[q].orch = definition[q].orch,
         definition'[k].orch = "ORCHESTRATED" <=> t.status # "ABSENT",
         t.status = "ENABLED" => t.bound,
         t.schedule = "ENABLED" => t.status = "ENABLED",
         t.runs # "NONE" => t.status # "ABSENT"
  PROVE  TaskInv'
<1>1. \A q \in Keys : task'[q] = IF q = k THEN t ELSE task[q]
  BY DEF TaskInv, TaskTyped
<1>2. TaskTyped'
  BY <1>1 DEF TaskInv, TaskTyped
<1>3. TakenUpOnce'
  BY <1>1 DEF TaskInv, TakenUpOnce, Exists
<1>4. EnabledCanRun' /\ RunsHaveTask'
  BY <1>1 DEF TaskInv, EnabledCanRun, RunsHaveTask, Exists
<1> QED
  BY <1>2, <1>3, <1>4 DEF TaskInv

LEMMA CreateTaskKeeps ==
  ASSUME OrchestrationInv, NEW k \in Keys, NEW status \in TaskStatuses,
         NEW schedule \in ScheduleStatuses, NEW bound \in BOOLEAN, NEW pin \in PinChoices,
         CreateTask(k, status, schedule, bound, pin)
  PROVE  TaskOnly /\ TaskInv'
<1> DEFINE t == [NoTask EXCEPT !.status = status, !.schedule = schedule, !.bound = bound,
                               !.pin = pin, !.contract = Offered(k)]
<1>1. /\ definition[k].disc = "ACTIVE"
      /\ schedule = "ENABLED" => status = "ENABLED"
      /\ status = "ENABLED" => bound
      /\ task' = [task EXCEPT ![k] = t]
      /\ SetOrch(k, "ORCHESTRATED")
      /\ UNCHANGED rest
  BY DEF CreateTask, BindingsAllowed
<1>2. Offered(k) \in Contracts
  BY <1>1, OfferedTyped DEF OrchestrationInv
<1>3. /\ t \in TaskRows /\ t.status = status /\ t.schedule = schedule /\ t.bound = bound
      /\ t.runs = "NONE"
  BY <1>2 DEF NoTask, TaskRows
<1>4. status # "ABSENT"
  BY OrchestrationAssumption
<1>5. /\ TaskOnly
      /\ \A q \in Keys : definition'[q].orch = IF q = k THEN "ORCHESTRATED" ELSE definition[q].orch
  BY <1>1, SetOrchKeeps DEF OrchestrationInv, RolloutInv
<1> HIDE DEF t
<1>6. TaskInv'
  BY <1>1, <1>3, <1>4, <1>5, OneTaskStep DEF OrchestrationInv
<1> QED
  BY <1>5, <1>6

LEMMA UpdateTaskKeeps ==
  ASSUME OrchestrationInv, NEW k \in Keys, NEW status \in TaskStatuses,
         NEW bound \in BOOLEAN, NEW pin \in PinChoices, UpdateTask(k, status, bound, pin)
  PROVE  TaskOnly /\ TaskInv'
<1> DEFINE t == [task[k] EXCEPT !.status = status, !.bound = bound, !.pin = pin,
                   !.schedule = IF status # "ENABLED" /\ @ = "ENABLED" THEN "PAUSED" ELSE @]
<1>1. /\ Exists(k) /\ (status = "ENABLED" => bound)
      /\ task' = [task EXCEPT ![k] = t]
      /\ UNCHANGED <<definition, rest>>
  BY DEF UpdateTask, BindingsAllowed
<1>2. task[k] \in TaskRows
  BY DEF OrchestrationInv, TaskInv, TaskTyped
<1>3. /\ t \in TaskRows /\ t.status = status /\ t.bound = bound
      /\ t.schedule = IF status # "ENABLED" /\ task[k].schedule = "ENABLED" THEN "PAUSED"
                      ELSE task[k].schedule
  BY <1>2 DEF TaskRows
<1>4. status # "ABSENT" /\ definition[k].orch = "ORCHESTRATED"
  BY <1>1, OrchestrationAssumption DEF OrchestrationInv, TaskInv, TakenUpOnce
<1> HIDE DEF t
<1>5. TaskInv'
  BY <1>1, <1>3, <1>4, OneTaskStep DEF OrchestrationInv
<1> QED
  BY <1>1, <1>5, DefinitionKept DEF OrchestrationInv, RolloutInv

LEMMA UpdateScheduleKeeps ==
  ASSUME OrchestrationInv, NEW k \in Keys, NEW schedule \in ScheduleStatuses,
         UpdateSchedule(k, schedule)
  PROVE  TaskOnly /\ TaskInv'
<1> DEFINE t == [task[k] EXCEPT !.schedule = schedule]
<1>1. /\ Exists(k) /\ (schedule = "ENABLED" => task[k].status = "ENABLED")
      /\ task' = [task EXCEPT ![k] = t]
      /\ UNCHANGED <<definition, rest>>
  BY DEF UpdateSchedule, OrchestrationInv, TaskInv, TaskTyped
<1>2. task[k] \in TaskRows
  BY DEF OrchestrationInv, TaskInv, TaskTyped
<1>3. t \in TaskRows /\ t.status = task[k].status /\ t.bound = task[k].bound /\ t.schedule = schedule
  BY <1>2 DEF TaskRows
<1>4. /\ definition[k].orch = "ORCHESTRATED" /\ task[k].status # "ABSENT"
      /\ task[k].status = "ENABLED" => task[k].bound
  BY <1>1 DEF OrchestrationInv, TaskInv, TakenUpOnce, EnabledCanRun, Exists
<1> HIDE DEF t
<1>5. TaskInv'
  BY <1>1, <1>3, <1>4, OneTaskStep DEF OrchestrationInv
<1> QED
  BY <1>1, <1>5, DefinitionKept DEF OrchestrationInv, RolloutInv

LEMMA ReconcileKeeps ==
  ASSUME OrchestrationInv, NEW k \in Keys, NEW bound \in BOOLEAN, ReconcileDefinition(k, bound)
  PROVE  TaskOnly /\ TaskInv'
<1> DEFINE t == [task[k] EXCEPT !.contract = Offered(k), !.bound = bound]
<1>1. /\ Exists(k) /\ definition[k].disc = "ACTIVE" /\ definition[k].orch = "ORCHESTRATED"
      /\ task[k].status = "ENABLED" => bound
      /\ task' = [task EXCEPT ![k] = t]
      /\ UNCHANGED <<definition, rest>>
  BY DEF ReconcileDefinition, BindingsAllowed, OrchestrationInv, TaskInv, TaskTyped
<1>2. task[k] \in TaskRows /\ Offered(k) \in Contracts
  BY <1>1, OfferedTyped DEF OrchestrationInv, TaskInv, TaskTyped
<1>3. t \in TaskRows /\ t.status = task[k].status /\ t.bound = bound /\ t.schedule = task[k].schedule
  BY <1>2 DEF TaskRows
<1>4. task[k].status # "ABSENT" /\ (task[k].schedule = "ENABLED" => task[k].status = "ENABLED")
  BY <1>1 DEF OrchestrationInv, TaskInv, EnabledCanRun, Exists
<1> HIDE DEF t
<1>5. TaskInv'
  BY <1>1, <1>3, <1>4, OneTaskStep DEF OrchestrationInv
<1> QED
  BY <1>1, <1>5, DefinitionKept DEF OrchestrationInv, RolloutInv

LEMMA DeleteTaskKeeps ==
  ASSUME OrchestrationInv, NEW k \in Keys, DeleteTask(k)
  PROVE  TaskOnly /\ TaskInv'
<1>1. task[k] \in TaskRows /\ Exists(k) /\ definition[k].orch = "ORCHESTRATED"
  BY DEF DeleteTask, OrchestrationInv, TaskInv, TaskTyped, TakenUpOnce
<1>2. CASE task[k].runs = "ENDED"
  <2> DEFINE t == [task[k] EXCEPT !.status = "ARCHIVED", !.schedule = "DISABLED"]
  <2>1. task' = [task EXCEPT ![k] = t] /\ UNCHANGED <<definition, rest>>
    BY <1>2 DEF DeleteTask, OrchestrationInv, TaskInv, TaskTyped
  <2>2. t \in TaskRows /\ t.status = "ARCHIVED" /\ t.schedule = "DISABLED"
    BY <1>1 DEF TaskRows
  <2> HIDE DEF t
  <2>3. TaskInv'
    BY <1>1, <2>1, <2>2, OneTaskStep DEF OrchestrationInv
  <2> QED
    BY <2>1, <2>3, DefinitionKept DEF OrchestrationInv, RolloutInv
<1>3. CASE task[k].runs # "ENDED"
  <2>1. task' = [task EXCEPT ![k] = NoTask] /\ SetOrch(k, "PENDING") /\ UNCHANGED rest
    BY <1>1, <1>3 DEF DeleteTask
  <2>2. /\ TaskOnly
        /\ \A q \in Keys : definition'[q].orch = IF q = k THEN "PENDING" ELSE definition[q].orch
    BY <2>1, SetOrchKeeps DEF OrchestrationInv, RolloutInv
  <2>3. TaskInv'
    BY <2>1, <2>2, NoTaskIs, OneTaskStep DEF OrchestrationInv
  <2> QED
    BY <2>2, <2>3
<1> QED
  BY <1>2, <1>3

LEMMA IgnoreKeeps ==
  ASSUME OrchestrationInv, NEW k \in Keys, IgnoreDefinition(k) \/ RestoreDefinition(k)
  PROVE  TaskOnly /\ TaskInv'
<1> DEFINE orch == IF IgnoreDefinition(k) THEN "IGNORED"
                   ELSE IF Exists(k) THEN "ORCHESTRATED" ELSE "PENDING"
<1>1. SetOrch(k, orch) /\ task' = task /\ UNCHANGED rest
  BY DEF IgnoreDefinition, RestoreDefinition
<1>2. /\ TaskOnly
      /\ \A q \in Keys : definition'[q].orch = IF q = k THEN orch ELSE definition[q].orch
  BY <1>1, SetOrchKeeps DEF OrchestrationInv, RolloutInv
<1>3. orch = "ORCHESTRATED" <=> Exists(k)
  BY DEF IgnoreDefinition, RestoreDefinition, OrchestrationInv, TaskInv, TakenUpOnce
<1> HIDE DEF orch
<1>4. TakenUpOnce'
  BY <1>1, <1>2, <1>3 DEF OrchestrationInv, TaskInv, TakenUpOnce, Exists
<1>5. TaskTyped' /\ EnabledCanRun' /\ RunsHaveTask'
  BY <1>1 DEF OrchestrationInv, TaskInv, TaskTyped, EnabledCanRun, RunsHaveTask, Exists
<1> QED
  BY <1>2, <1>4, <1>5 DEF TaskInv

LEMMA RunStepKeeps ==
  ASSUME OrchestrationInv, NEW k \in Keys, RunStep(k)
  PROVE  TaskOnly /\ TaskInv'
<1>1. UNCHANGED <<definition, rest>> /\ task[k] \in TaskRows /\ task[k].status # "ABSENT"
  <2>1. task[k] \in TaskRows
    BY DEF OrchestrationInv, TaskInv, TaskTyped
  <2>2. CASE StartRun(k)
    BY <2>1, <2>2 DEF StartRun
  <2>3. CASE SkipRound(k)
    BY <2>1, <2>3 DEF SkipRound, OrchestrationInv, TaskInv, EnabledCanRun
  <2>4. CASE RunsEnd(k)
    BY <2>1, <2>4 DEF RunsEnd, OrchestrationInv, TaskInv, RunsHaveTask, Exists
  <2> QED
    BY <2>1, <2>2, <2>3, <2>4 DEF RunStep
<1>2. TaskOnly
  BY <1>1, DefinitionKept DEF OrchestrationInv, RolloutInv
<1>3. ASSUME NEW t \in TaskRows, task' = [task EXCEPT ![k] = t],
             t.status = task[k].status, t.bound = task[k].bound,
             t.schedule \in {task[k].schedule, "ERROR"}
      PROVE  TaskInv'
  <2>1. /\ definition[k].orch = "ORCHESTRATED"
        /\ task[k].status = "ENABLED" => task[k].bound
        /\ task[k].schedule = "ENABLED" => task[k].status = "ENABLED"
    BY <1>1 DEF OrchestrationInv, TaskInv, TakenUpOnce, EnabledCanRun, Exists
  <2> QED
    BY <1>1, <1>3, <2>1, OneTaskStep DEF OrchestrationInv
<1>4. CASE StartRun(k)
  <2> DEFINE t == [task[k] EXCEPT !.runs = "ACTIVE"]
  <2>1. task' = [task EXCEPT ![k] = t]
    BY <1>4 DEF StartRun, OrchestrationInv, TaskInv, TaskTyped
  <2>2. /\ t \in TaskRows /\ t.status = task[k].status /\ t.bound = task[k].bound
        /\ t.schedule = task[k].schedule
    BY <1>1 DEF TaskRows
  <2> HIDE DEF t
  <2> QED
    BY <1>2, <1>3, <2>1, <2>2
<1>5. CASE RunsEnd(k)
  <2> DEFINE t == [task[k] EXCEPT !.runs = "ENDED"]
  <2>1. task' = [task EXCEPT ![k] = t]
    BY <1>5 DEF RunsEnd, OrchestrationInv, TaskInv, TaskTyped
  <2>2. /\ t \in TaskRows /\ t.status = task[k].status /\ t.bound = task[k].bound
        /\ t.schedule = task[k].schedule
    BY <1>1 DEF TaskRows
  <2> HIDE DEF t
  <2> QED
    BY <1>2, <1>3, <2>1, <2>2
<1>6. CASE SkipRound(k)
  <2> DEFINE runs == IF task[k].runs = "NONE" THEN "ENDED" ELSE task[k].runs
             schedule == IF Drifted(k) THEN "ERROR" ELSE task[k].schedule
             t == [task[k] EXCEPT !.runs = runs, !.schedule = schedule]
  <2>1. task' = [task EXCEPT ![k] = t]
    BY <1>1, <1>6 DEF SkipRound, OrchestrationInv, TaskInv, TaskTyped, TaskRows
  <2>2. runs \in {"NONE", "ACTIVE", "ENDED"}
    BY <1>1 DEF TaskRows
  <2>3. schedule \in {task[k].schedule, "ERROR"}
    OBVIOUS
  <2> HIDE DEF runs, schedule
  <2>4. /\ t \in TaskRows /\ t.status = task[k].status /\ t.bound = task[k].bound
        /\ t.schedule = schedule
    BY <1>1, <2>2, <2>3 DEF TaskRows
  <2> HIDE DEF t
  <2> QED
    BY <1>2, <1>3, <2>1, <2>3, <2>4
<1> QED
  BY <1>4, <1>5, <1>6 DEF RunStep

-----------------------------------------------------------------------------
(* Steps of the rollouts                                                    *)

\* A new release may drop and restore definitions, but what the user made of
\* them stays (sync_from_release).
LEMMA OrchKept ==
  ASSUME OrchestrationInv,
         Rollout \/ ProjectEdit \/ \E s \in Servers : AgentStep(s) \/ Failure(s)
  PROVE  \A k \in Keys : definition'[k].orch = definition[k].orch
<1>1. RolloutTyped /\ AbsentRunNothing
  BY DEF OrchestrationInv, RolloutInv, ActivationInv
<1>2. CASE Rollout
  BY <1>2 DEF Rollout, Register, Import, Deploy, Publish
<1>3. CASE ProjectEdit
  BY <1>3 DEF ProjectEdit, UpdateProject, UpdateServerPool
<1>4. ASSUME NEW s \in Servers, AgentStep(s) \/ Failure(s)
      PROVE  \A k \in Keys : definition'[k].orch = definition[k].orch
  <2>1. CASE UNCHANGED definition
    BY <2>1
  <2>2. ASSUME NEW d \in Deployments, NEW ok \in BOOLEAN, AnswerStep(s, d, ok)
        PROVE  \A k \in Keys : definition'[k].orch = definition[k].orch
    <3>1. definition' = definition \/ definition' = Synced(rollout[d].release)
      BY <1>1, <2>2, AppliedPool DEF AnswerStep
    <3> QED
      BY <1>1, <3>1, SyncedIs
  <2>3. ASSUME NEW r, NEW verdict \in {"READY", "FAILED"}, Pulled(s, r, verdict)
        PROVE  UNCHANGED definition
    BY <1>1, <2>3, PulledKeeps
  <2>4. \/ UNCHANGED definition
        \/ \E d \in Deployments, ok \in BOOLEAN : AnswerStep(s, d, ok)
        \/ \E verdict \in {"READY", "FAILED"} : \E r : Pulled(s, r, verdict)
    BY <1>1, <1>4, AgentKinds DEF QuietStep, LateStep
  <2> QED
    BY <2>1, <2>2, <2>3, <2>4
<1> QED
  BY <1>2, <1>3, <1>4

LEMMA RolloutKeepsTasks ==
  ASSUME OrchestrationInv,
         Rollout \/ ProjectEdit \/ \E s \in Servers : AgentStep(s) \/ Failure(s),
         task' = task
  PROVE  OrchestrationInv' /\ ActivatesAtOnce
<1>1. ReleaseStep
  BY DEF ReleaseStep, ProjectEdit, Edit
<1>2. RolloutInv' /\ ActivatesAtOnce
  BY <1>1, StepRollout DEF OrchestrationInv
<1>3. TakenUpOnce'
  BY OrchKept DEF OrchestrationInv, TaskInv, TakenUpOnce, Exists
<1>4. TaskTyped' /\ RunsHaveTask' /\ EnabledCanRun'
  BY DEF OrchestrationInv, TaskInv, TaskTyped, RunsHaveTask, EnabledCanRun, Exists
<1> QED
  BY <1>2, <1>3, <1>4 DEF OrchestrationInv, TaskInv

LEMMA DeleteProjectKeeps ==
  ASSUME OrchestrationInv, DeleteProject
  PROVE  OrchestrationInv' /\ ActivatesAtOnce
<1>1. RolloutInv' /\ ActivatesAtOnce
  BY StepRollout DEF DeleteProject, ReleaseStep, Edit, OrchestrationInv
<1>2. CASE RemoveProject /\ task' = [k \in Keys |-> NoTask]
  <2>1. \A k \in Keys : definition'[k].orch = "PENDING" /\ task'[k] = NoTask
    BY <1>2 DEF RemoveProject, NoDefinition
  <2>2. TaskTyped'
    BY <1>2, NoTaskIs DEF TaskTyped
  <2> QED
    BY <1>1, <2>1, <2>2, NoTaskIs
       DEF OrchestrationInv, TaskInv, TakenUpOnce, RunsHaveTask, EnabledCanRun, Exists
<1>3. CASE /\ ArchiveProject
           /\ task' = [k \in Keys |-> IF Exists(k)
                         THEN [task[k] EXCEPT !.status = "ARCHIVED", !.schedule = "DISABLED"]
                         ELSE NoTask]
  <2>1. definition' = definition
    BY <1>3 DEF ArchiveProject
  <2>2. ASSUME NEW k \in Keys
        PROVE  /\ task'[k] \in TaskRows
               /\ Exists(k) => task'[k].status = "ARCHIVED" /\ task'[k].schedule = "DISABLED"
               /\ ~Exists(k) => task'[k] = NoTask
    <3>1. task[k] \in TaskRows
      BY DEF OrchestrationInv, TaskInv, TaskTyped
    <3>2. CASE Exists(k)
      <4>1. task'[k] = [task[k] EXCEPT !.status = "ARCHIVED", !.schedule = "DISABLED"]
        BY <1>3, <3>2
      <4> QED
        BY <3>1, <3>2, <4>1 DEF TaskRows
    <3>3. CASE ~Exists(k)
      BY <1>3, <3>3, NoTaskIs
    <3> QED
      BY <3>2, <3>3
  <2>3. TaskTyped'
    BY <1>3, <2>2 DEF TaskTyped
  <2>4. \A k \in Keys : Exists(k)' <=> Exists(k)
    BY <2>2, NoTaskIs DEF Exists
  <2>5. TakenUpOnce'
    BY <2>1, <2>4 DEF OrchestrationInv, TaskInv, TakenUpOnce
  <2>6. EnabledCanRun' /\ RunsHaveTask'
    BY <2>2, NoTaskIs DEF EnabledCanRun, RunsHaveTask, Exists
  <2> QED
    BY <1>1, <2>3, <2>5, <2>6 DEF OrchestrationInv, TaskInv
<1> QED
  BY <1>2, <1>3 DEF DeleteProject

-----------------------------------------------------------------------------
(* The specification                                                        *)

LEMMA TaskEditKeeps ==
  ASSUME OrchestrationInv, NEW k \in Keys, RunStep(k) \/ TakeUp(k) \/ TaskEdit(k)
  PROVE  OrchestrationInv' /\ ActivatesAtOnce
<1>1. TaskOnly /\ TaskInv'
  BY RunStepKeeps, CreateTaskKeeps, IgnoreKeeps, UpdateTaskKeeps, UpdateScheduleKeeps,
     ReconcileKeeps, DeleteTaskKeeps DEF TakeUp, TaskEdit
<1> QED
  BY <1>1, TaskOnlyRollout DEF OrchestrationInv

LEMMA StepOrchestration ==
  ASSUME OrchestrationInv, [TaskNext]_<<vars, task>>
  PROVE  OrchestrationInv' /\ ActivatesAtOnce
<1>1. CASE TaskNext
  BY <1>1, RolloutKeepsTasks, DeleteProjectKeeps, TaskEditKeeps DEF TaskNext
<1>2. CASE UNCHANGED <<vars, task>>
  <2>1. UNCHANGED <<definition, rest>>
    BY <1>2 DEF vars, rest, agents
  <2>2. RolloutInv' /\ ActivatesAtOnce
    BY <2>1, DefinitionKept, TaskOnlyRollout DEF OrchestrationInv, RolloutInv
  <2>3. TaskInv'
    BY <1>2, <2>1 DEF OrchestrationInv, TaskInv, TaskTyped, TakenUpOnce, RunsHaveTask,
         EnabledCanRun, Exists
  <2> QED
    BY <2>2, <2>3 DEF OrchestrationInv
<1> QED
  BY <1>1, <1>2

LEMMA OrchestrationInvariant == TaskSpec => []OrchestrationInv
BY InitOrchestration, StepOrchestration, PTL DEF TaskSpec

\* Only the start of a run makes one active: a task is never made, edited or
\* removed into having a run, and a round that was skipped leaves one that ended.
LEMMA RunsBegin ==
  ASSUME OrchestrationInv, [TaskNext]_<<vars, task>>, NEW k \in Keys,
         task[k].runs # "ACTIVE", task'[k].runs = "ACTIVE"
  PROVE  StartRun(k)
<1>1. TaskTyped /\ task[k] \in TaskRows
  BY DEF OrchestrationInv, TaskInv, TaskTyped
<1>2. task' # task
  OBVIOUS
<1>3. ASSUME NEW q \in Keys, RunStep(q) PROVE StartRun(k)
  <2>1. CASE StartRun(q)
    <3>1. q = k
      BY <1>1, <2>1 DEF StartRun, TaskTyped
    <3> QED
      BY <2>1, <3>1
  <2>2. CASE SkipRound(q) \/ RunsEnd(q)
    <3> DEFINE skipped == [task[q] EXCEPT !.runs = IF @ = "NONE" THEN "ENDED" ELSE @,
                                          !.schedule = IF Drifted(q) THEN "ERROR" ELSE @]
               ended == [task[q] EXCEPT !.runs = "ENDED"]
    <3>1. task' = [task EXCEPT ![q] = skipped] \/ task' = [task EXCEPT ![q] = ended]
      BY <1>1, <2>2 DEF SkipRound, RunsEnd, TaskTyped
    <3>2. q = k => skipped.runs # "ACTIVE" /\ ended.runs # "ACTIVE"
      BY <1>1 DEF TaskRows
    <3> HIDE DEF skipped, ended
    <3> QED
      BY <1>1, <3>1, <3>2 DEF TaskTyped
  <2> QED
    BY <1>3, <2>1, <2>2 DEF RunStep
<1>4. ASSUME NEW q \in Keys, TakeUp(q) PROVE FALSE
  <2>1. PICK status \in TaskStatuses, schedule \in ScheduleStatuses, bound \in BOOLEAN,
             pin \in PinChoices : CreateTask(q, status, schedule, bound, pin)
    BY <1>4 DEF TakeUp
  <2> DEFINE t == [NoTask EXCEPT !.status = status, !.schedule = schedule, !.bound = bound,
                                 !.pin = pin, !.contract = Offered(q)]
  <2>2. task' = [task EXCEPT ![q] = t]
    BY <2>1 DEF CreateTask
  <2>3. t.runs = "NONE"
    BY DEF NoTask
  <2> HIDE DEF t
  <2> QED
    BY <1>1, <2>2, <2>3 DEF TaskTyped
<1>5. ASSUME NEW q \in Keys, TaskEdit(q) PROVE FALSE
  <2> DEFINE SameRuns(t) == task' = [task EXCEPT ![q] = t] /\ (q = k => t.runs # "ACTIVE")
  <2>1. ASSUME NEW status \in TaskStatuses, NEW bound \in BOOLEAN, NEW pin \in PinChoices,
               UpdateTask(q, status, bound, pin)
        PROVE  \E t : SameRuns(t)
    <3> DEFINE t == [task[q] EXCEPT !.status = status, !.bound = bound, !.pin = pin,
                       !.schedule = IF status # "ENABLED" /\ @ = "ENABLED" THEN "PAUSED" ELSE @]
    <3>1. task' = [task EXCEPT ![q] = t]
      BY <2>1 DEF UpdateTask
    <3>2. q = k => t.runs # "ACTIVE"
      BY <1>1 DEF TaskRows
    <3> HIDE DEF t
    <3> QED
      BY <3>1, <3>2
  <2>2. ASSUME NEW schedule \in ScheduleStatuses, UpdateSchedule(q, schedule)
        PROVE  \E t : SameRuns(t)
    <3> DEFINE t == [task[q] EXCEPT !.schedule = schedule]
    <3>1. task' = [task EXCEPT ![q] = t]
      BY <1>1, <2>2 DEF UpdateSchedule, TaskTyped
    <3>2. q = k => t.runs # "ACTIVE"
      BY <1>1 DEF TaskRows
    <3> HIDE DEF t
    <3> QED
      BY <3>1, <3>2
  <2>3. ASSUME NEW bound \in BOOLEAN, ReconcileDefinition(q, bound)
        PROVE  \E t : SameRuns(t)
    <3> DEFINE t == [task[q] EXCEPT !.contract = Offered(q), !.bound = bound]
    <3>1. task' = [task EXCEPT ![q] = t]
      BY <1>1, <2>3 DEF ReconcileDefinition, TaskTyped
    <3>2. q = k => t.runs # "ACTIVE"
      BY <1>1 DEF TaskRows
    <3> HIDE DEF t
    <3> QED
      BY <3>1, <3>2
  <2>4. CASE DeleteTask(q)
    <3> DEFINE t == [task[q] EXCEPT !.status = "ARCHIVED", !.schedule = "DISABLED"]
    <3>1. task' = [task EXCEPT ![q] = t] \/ task' = [task EXCEPT ![q] = NoTask]
      BY <1>1, <2>4 DEF DeleteTask, TaskTyped
    <3>2. q = k => t.runs # "ACTIVE"
      BY <1>1 DEF TaskRows
    <3>3. NoTask.runs # "ACTIVE"
      BY NoTaskIs
    <3>4. CASE task' = [task EXCEPT ![q] = t]
      <4> HIDE DEF t
      <4> QED
        BY <3>2, <3>4
    <3>5. CASE task' = [task EXCEPT ![q] = NoTask]
      BY <3>3, <3>5
    <3> QED
      BY <3>1, <3>4, <3>5
  <2>5. CASE IgnoreDefinition(q) \/ RestoreDefinition(q)
    BY <1>2, <2>5 DEF IgnoreDefinition, RestoreDefinition
  <2>6. ~\E t : SameRuns(t)
    BY <1>1 DEF TaskTyped
  <2> HIDE DEF SameRuns
  <2> QED
    BY <1>5, <2>1, <2>2, <2>3, <2>4, <2>5, <2>6 DEF TaskEdit
<1>6. ~DeleteProject
  <2>1. SUFFICES ASSUME DeleteProject PROVE FALSE
    OBVIOUS
  <2>2. task'[k] = NoTask \/ task'[k] = [task[k] EXCEPT !.status = "ARCHIVED", !.schedule = "DISABLED"]
    BY <2>1 DEF DeleteProject
  <2> QED
    BY <1>1, <2>2, NoTaskIs DEF TaskRows
<1> QED
  BY <1>2, <1>3, <1>4, <1>5, <1>6 DEF TaskNext

\* The body of StartedOnTested.
StartsOnTested ==
  \A k \in Keys :
    task[k].runs # "ACTIVE" /\ task'[k].runs = "ACTIVE"
    => LET r == ReleaseOf(task[k])
       IN  /\ \E s \in Servers : node[s] = "UP" /\ r \in tested[s]
           /\ task[k].contract = Contract[r][k]

LEMMA StepStartsOnTested ==
  ASSUME OrchestrationInv, [TaskNext]_<<vars, task>>
  PROVE  StartsOnTested
<1> SUFFICES ASSUME NEW k \in Keys, task[k].runs # "ACTIVE", task'[k].runs = "ACTIVE"
             PROVE  LET r == ReleaseOf(task[k])
                    IN  /\ \E s \in Servers : node[s] = "UP" /\ r \in tested[s]
                        /\ task[k].contract = Contract[r][k]
  BY DEF StartsOnTested
<1> DEFINE r == ReleaseOf(task[k])
<1>1. Ready(k, task[k], definition[k].orch)
  BY RunsBegin DEF StartRun
<1>2. r # None /\ task[k].contract = Contract[r][k] /\ RunnableNodes(r) # {}
  BY <1>1 DEF Ready
<1>3. PICK s \in Servers : node[s] = "UP" /\ pool[s].latest = r
  BY <1>2 DEF RunnableNodes, ReadyNodes
<1>4. r \in tested[s]
  BY <1>2, <1>3 DEF OrchestrationInv, RolloutInv, TestedInv, RunningReleaseIsTested
<1> QED
  BY <1>2, <1>3, <1>4

\* With tasks and users on top, the rows of the project, its pool and its tasks
\* keep their types, and a task keeps a contract some release demands
\* (task_service.py, task_definition_lifecycle_service.py, project_service.py).
THEOREM TaskTypeCorrect == TaskSpec => []TaskTypeOK
<1>1. OrchestrationInv => TaskTypeOK
  BY TypedImpliesTypeOK DEF OrchestrationInv, RolloutInv, TaskInv, TaskTyped, TaskRows, Contracts, TaskTypeOK
<1> QED
  BY <1>1, OrchestrationInvariant, PTL

\* A definition is taken up exactly as long as its task exists, whatever
\* releases, users and the removal of tasks and projects do
\* (create_from_definition, delete_task, delete_project), and where the stable
\* channel is the only one the definitions on offer are those of its release.
THEOREM DefinitionsStayInStep == TaskSpec => [](TakenUpOnce /\ (OnlyStable => DefinitionsInStep))
<1>1. OrchestrationInv => TakenUpOnce /\ (OnlyStable => DefinitionsInStep)
  BY OfferOfStable DEF OrchestrationInv, RolloutInv, TaskInv, TakenUpOnce, DefinitionsInStep
<1> QED
  BY <1>1, OrchestrationInvariant, PTL

\* An enabled task has its bindings and a schedule that is on an enabled task,
\* whichever was edited last (update_task, update_schedule, reconcile_definition).
THEOREM EnabledTasksCanRun == TaskSpec => []EnabledCanRun
<1>1. OrchestrationInv => EnabledCanRun
  BY DEF OrchestrationInv, TaskInv
<1> QED
  BY <1>1, OrchestrationInvariant, PTL

\* What a node runs has passed its test there, one candidate command at a time
\* is out when maxParallelPulls is 1, and nodes and channel move at once: also
\* in the system with tasks (activate_deployment, agent_command_service.py).
THEOREM RolloutsUnderTasks == TaskSpec => []RunningReleaseIsTested /\ []SinglePull /\ AtomicActivation
<1>1. OrchestrationInv => RunningReleaseIsTested /\ SinglePull
  BY OneQueueIsSinglePull DEF OrchestrationInv, RolloutInv, TestedInv
<1>2. OrchestrationInv /\ [TaskNext]_<<vars, task>> => [ActivatesAtOnce]_vars
  BY StepOrchestration
<1>3. TaskSpec => [][ActivatesAtOnce]_vars
  BY <1>2, OrchestrationInvariant, PTL DEF TaskSpec
<1>4. TaskSpec => []RunningReleaseIsTested /\ []SinglePull
  BY <1>1, OrchestrationInvariant, PTL
<1> QED
  BY <1>3, <1>4 DEF AtomicActivation, ActivatesAtOnce

\* A run starts only where a node is up that has pulled and tested its release,
\* and with the contract of that release (create_run, evaluate).
THEOREM RunsStartOnTested == TaskSpec => StartedOnTested
<1>1. OrchestrationInv /\ [TaskNext]_<<vars, task>> => [StartsOnTested]_<<vars, task>>
  BY StepStartsOnTested
<1>2. TaskSpec => [][StartsOnTested]_<<vars, task>>
  BY <1>1, OrchestrationInvariant, PTL DEF TaskSpec
<1> QED
  BY <1>2 DEF StartedOnTested, StartsOnTested

===============================================================================
