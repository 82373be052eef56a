---------------------------- MODULE MCParallelPulls ----------------------------
(***************************************************************************)
(* Rollouts with two preparations at a time, the default of the platform   *)
(* (schemas.py, maxParallelPulls): four nodes, two releases without tasks. *)
(***************************************************************************)
EXTENDS ReleaseRollout

AllStable == [r \in Releases |-> "stable"]
NoTasks == [r \in Releases |-> {}]

\* The shortest way to too many commands has no failure in it.
NothingFails ==
  /\ \A d \in Deployments : "FAILED" \notin Statuses(rollout[d].target)
  /\ published \in {<< >>, <<1>>, <<1, 2>>}
================================================================================
