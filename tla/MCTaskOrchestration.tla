-------------------------- MODULE MCTaskOrchestration --------------------------
(***************************************************************************)
(* One run for the tasks with the rollouts under them, and for four        *)
(* smaller components that share no state with them here: the data         *)
(* resource a task is bound to, the plan that fires it, the shards of a    *)
(* run and the account a subject of the runs is bound to.  A behaviour     *)
(* belongs to one of the five, its part, and leaves the others in their    *)
(* initial state, so that the states are the sum and not the product; each *)
(* is explored in full.                                                    *)
(*                                                                         *)
(* Instances: two versions of one project, which share a definition whose  *)
(* contract changes, and two nodes; an hour of four minutes, a day and a   *)
(* week of three, and months of three days and of one; a success and a     *)
(* failure of each of two accounts.                                        *)
(***************************************************************************)
EXTENDS TaskOrchestration, ResourceBinding, CronPlan, ShardedRuns, SubjectBinding

VARIABLE part

taskVars == <<vars, task>>
allVars  == <<part, taskVars, bindingVars, planVars, shardVars, subjectVars>>

OrchestrationInit ==
  /\ part \in {"tasks", "binding", "plan", "shards", "subject"}
  /\ TaskInit /\ BindingInit /\ PlanInit /\ ShardInit /\ SubjectInit
  /\ part # "shards" => Len(shard) = 1

\* The steps of one part.
InTasks   == part = "tasks"   /\ UNCHANGED <<part, bindingVars, planVars, shardVars, subjectVars>>
InBinding == part = "binding" /\ UNCHANGED <<part, taskVars, planVars, shardVars, subjectVars>>
InPlan    == part = "plan"    /\ UNCHANGED <<part, taskVars, bindingVars, shardVars, subjectVars>>
InShards  == part = "shards"  /\ UNCHANGED <<part, taskVars, bindingVars, planVars, subjectVars>>
InSubject == part = "subject" /\ UNCHANGED <<part, taskVars, bindingVars, planVars, shardVars>>

OrchestrationNext ==
  \/ InTasks   /\ TaskNext
  \/ InBinding /\ BindingNext
  \/ InPlan    /\ PlanNext
  \/ InShards  /\ ShardNext
  \/ InSubject /\ SubjectNext

OrchestrationSpec == OrchestrationInit /\ [][OrchestrationNext]_allVars

\* The type invariants of the five parts; the others are as they began.
OrchestrationTypeOK ==
  CASE part = "tasks"   -> TaskTypeOK
    [] part = "binding" -> BindingTypeOK
    [] part = "plan"    -> PlanTypeOK
    [] part = "shards"  -> ShardTypeOK
    [] part = "subject" -> SubjectTypeOK

-----------------------------------------------------------------------------
AllStable == [r \in Releases |-> "stable"]
TwoManifests == [r \in Releases |-> IF r = 1 THEN {"a", "b"} ELSE {"b"}]
OwnContracts == [r \in Releases |-> [k \in Manifest[r] |-> r]]

SomeTold == <<[account |-> "x", success |-> TRUE], [account |-> "y", success |-> TRUE],
              [account |-> "x", success |-> FALSE], [account |-> "y", success |-> FALSE]>>

ShortMonths == <<1, 2, 3, 1>>

At(mode, times, days) == [NoConfig EXCEPT !.mode = mode, !.times = times, !.days = days]
Every(mode, n)        == [NoConfig EXCEPT !.mode = mode, !.n = n]

\* Times of one minute and of two, a day no month but one has, a Sunday as 3,
\* intervals that divide the hour or the day and some that do not.
FewConfigs ==
  {At("daily_times", {<<0, 1>>, <<2, 1>>}, {}), At("daily_times", {<<0, 1>>, <<2, 3>>}, {}),
   At("daily_times", {}, {}),
   At("weekly_times", {<<1, 0>>}, {1, 3}), At("monthly_times", {<<1, 2>>, <<1, 3>>}, {2, 3}),
   Every("EVERY_N_MINUTES", 1), Every("EVERY_N_MINUTES", 3),
   Every("EVERY_N_HOURS", 2), Every("EVERY_N_HOURS", 3),
   [NoConfig EXCEPT !.typed = [minute |-> Listed({0, 2}), hour |-> AnyHour,
                               day |-> AnyDay, weekday |-> Listed({3})]]}
=============================================================================
