------------------------------ MODULE RunStates ------------------------------
(***************************************************************************)
(* The statuses of a run instance (CrawlerTaskRun.run_status and           *)
(* .routing_status) and the transition tables every service goes through:  *)
(* backend/app/services/state_machine.py, with the status sets the other   *)
(* services keep beside it.                                                *)
(***************************************************************************)

\* RUN_TERMINAL
Terminal == {"SUCCEEDED", "PARTIAL_SUCCESS", "SKIPPED", "FAILED",
             "CANCELLED", "TIMED_OUT", "LOST"}

\* The statuses in which an Agent holds the run: the list mark_lost_runs,
\* the heartbeat of a replaced Agent and the load of a node all select.
Executing == {"ASSIGNED", "STARTING", "RUNNING", "CANCEL_REQUESTED"}

\* ACTIVE_RUN_STATUSES
Active == Executing \cup {"QUEUED"}

\* CREATED is in the table of the code but no service ever writes it.
RunStatus == Active \cup Terminal

\* RUN_TRANSITIONS
RunTransitions ==
  [s \in RunStatus |->
     CASE s = "QUEUED"    -> {"ASSIGNED", "SKIPPED", "CANCELLED", "FAILED", "LOST"}
       [] s = "ASSIGNED"  -> {"STARTING", "RUNNING", "CANCEL_REQUESTED", "FAILED", "LOST"}
       [] s = "STARTING"  -> {"RUNNING", "SUCCEEDED", "PARTIAL_SUCCESS", "CANCEL_REQUESTED",
                              "CANCELLED", "FAILED", "TIMED_OUT", "LOST"}
       [] s = "RUNNING"   -> {"SUCCEEDED", "PARTIAL_SUCCESS", "FAILED", "TIMED_OUT", "LOST",
                              "CANCEL_REQUESTED", "CANCELLED"}
       [] s = "CANCEL_REQUESTED" -> {"CANCELLED", "FAILED", "TIMED_OUT", "LOST"}
       [] OTHER -> {}]

\* Mutant: the status is set without the table (set_run_status with force).
SetUnchecked(current, next) == next

\* safe_set_run_status: the status the run has afterwards. A move the table
\* does not allow, and every move of a terminal run, is dropped silently.
SafeSet(current, next) ==
  IF next \in RunTransitions[current] THEN next ELSE current

RoutingStatus == {"PENDING", "WAITING_RESOURCE", "WARMING_IMAGE", "ROUTED",
                  "ROUTE_FAILED", "ROUTE_CANCELLED"}

\* ROUTING_TRANSITIONS
RoutingTransitions ==
  [s \in RoutingStatus |->
     CASE s = "PENDING" -> {"WAITING_RESOURCE", "WARMING_IMAGE", "ROUTED",
                            "ROUTE_FAILED", "ROUTE_CANCELLED"}
       [] s = "WAITING_RESOURCE" -> {"WARMING_IMAGE", "ROUTED", "ROUTE_FAILED",
                                     "ROUTE_CANCELLED", "PENDING"}
       [] s = "WARMING_IMAGE" -> {"ROUTED", "WAITING_RESOURCE", "ROUTE_FAILED"}
       [] s = "ROUTED" -> {"PENDING", "ROUTE_CANCELLED"}
       [] OTHER -> {}]

\* set_routing_status raises an error on every other move; the scheduler may
\* repair PENDING, WAITING_RESOURCE and ROUTED into one another.
RoutingAllowed(current, next) ==
  \/ next = current
  \/ next \in RoutingTransitions[current]
  \/ {current, next} \subseteq {"PENDING", "WAITING_RESOURCE", "ROUTED"}

\* AUTO_RETRY_STATUSES
AutoRetry == {"FAILED", "TIMED_OUT", "LOST"}

\* What the executor of an Agent reports: exit code 0, another exit code or an
\* exception, the time limit. It never reports PARTIAL_SUCCESS or CANCELLED.
AgentResults == {"SUCCEEDED", "FAILED", "TIMED_OUT"}
==============================================================================
