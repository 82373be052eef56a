----------------------------- MODULE NodeHealth -----------------------------
(***************************************************************************)
(* The health of one execution node as the platform sees it, and the row   *)
(* that puts the node into the pool of one project.  Three writers:        *)
(*   - a heartbeat counts good and bad reports before it believes them and *)
(*     then ejects the row or lets it recover;                             *)
(*   - the maintenance worker ejects the row of a node that is silent, in  *)
(*     a transaction that lasts as long as its whole pass;                 *)
(*   - a user who lists the nodes marks the silent ones OFFLINE.           *)
(* An UPDATE writes the columns that differ from what was read.            *)
(***************************************************************************)
EXTENDS Naturals

CONSTANT Enough    \* good reports that make a node HEALTHY or NORMAL again (5)

ASSUME HealthAssumption == Enough \in Nat /\ Enough > 3

VARIABLES
    machine,       \* what the Agent would report: the environment
    silence,       \* how long ago the last heartbeat was
    connection,    \* crawler_agent.connection_status
    node,          \* crawler_server: health, capacity and the counters
    row,           \* crawler_project_server.scheduling_status
    pass           \* what the pass of the worker will write

healthVars == <<machine, silence, connection, node, row, pass>>

Loads  == {"NORMAL", "PRESSURE", "EXHAUSTED"}
Health == {"UNKNOWN", "HEALTHY", "DEGRADED", "UNHEALTHY", "OFFLINE"}
Pooled == {"ENABLED", "RECOVERING"}
Counters == {"badHealth", "goodHealth", "badCapacity", "goodCapacity"}

\* Heartbeat ages: below 120 s, above (OFFLINE for the worker) and above
\* 180 s (OFFLINE for the list, twice the lease).  STALE, after 60 s, is
\* treated like ONLINE by all three and stands for it.
Ages   == {"BEATING", "SILENT", "LOST"}
Older  == [a \in Ages |-> IF a = "BEATING" THEN "SILENT" ELSE "LOST"]

\* One type invariant for the node, its row and the worker.
HealthTypeOK ==
    /\ machine \in [unhealthy : BOOLEAN, load : Loads]
    /\ silence \in Ages
    /\ connection \in {"ONLINE", "OFFLINE"}
    /\ node \in [health : Health, capacity : Loads \cup {"UNKNOWN"}, count : [Counters -> 0..Enough]]
    /\ row \in Pooled \cup {"AUTO_EJECTED"}
    /\ pass \subseteq {"OFFLINE", "UNHEALTHY", "AUTO_EJECTED"}

\* A node that has just been set up and that the project has been deployed on.
HealthInit ==
    /\ machine = [unhealthy |-> FALSE, load |-> "NORMAL"]
    /\ silence = "BEATING" /\ connection = "ONLINE"
    /\ node = [health |-> "UNKNOWN", capacity |-> "UNKNOWN", count |-> [c \in Counters |-> 0]]
    /\ row = "ENABLED"
    /\ pass = {}

-----------------------------------------------------------------------------
(* The heartbeat *)

Exhausted == machine.load = "EXHAUSTED"
Least(a, b) == IF a < b THEN a ELSE b

\* A report adds to one counter of a pair and resets the other.  What is
\* above the last threshold of a counter does not matter.
Counted ==
    LET up(c) == Least(node.count[c] + 1, IF c \in {"badHealth", "badCapacity"} THEN 3 ELSE Enough) IN
    [badHealth    |-> IF machine.unhealthy THEN up("badHealth") ELSE 0,
     goodHealth   |-> IF machine.unhealthy THEN 0 ELSE up("goodHealth"),
     badCapacity  |-> IF Exhausted THEN up("badCapacity") ELSE 0,
     goodCapacity |-> IF Exhausted THEN 0 ELSE up("goodCapacity")]

\* The first good report is believed; after that three bad ones make a node
\* UNHEALTHY, three good ones DEGRADED and Enough good ones HEALTHY again.
HealthAfter(count) ==
    IF node.health = "UNKNOWN" /\ ~machine.unhealthy THEN "HEALTHY"
    ELSE IF count.badHealth >= 3 THEN "UNHEALTHY"
    ELSE IF count.goodHealth >= 3 /\ node.health = "UNHEALTHY" THEN "DEGRADED"
    ELSE IF count.goodHealth >= Enough THEN "HEALTHY"
    ELSE node.health

\* No slot three times in a row: EXHAUSTED; few slots: PRESSURE at once.
CapacityAfter(count) ==
    IF node.capacity = "UNKNOWN" /\ ~Exhausted THEN machine.load
    ELSE IF count.badCapacity >= 3 THEN "EXHAUSTED"
    ELSE IF machine.load = "PRESSURE" THEN "PRESSURE"
    ELSE IF count.goodCapacity >= Enough \/ node.capacity = "UNKNOWN" THEN "NORMAL"
    ELSE node.capacity

Unfit(health, capacity) == health = "UNHEALTHY" \/ capacity = "EXHAUSTED"
Fit(health, capacity) == health \in {"HEALTHY", "DEGRADED"} /\ capacity \in {"NORMAL", "PRESSURE"}

\* Mutant: a row under observation stays under observation.
ScheduledOnce(health, capacity) ==
    CASE Unfit(health, capacity) /\ row \in Pooled       -> "AUTO_EJECTED"
      [] Fit(health, capacity) /\ row = "AUTO_EJECTED"   -> "RECOVERING"
      [] OTHER                                           -> row

\* _sync_project_server_scheduling: the row recovers in two steps.
Scheduled(health, capacity) ==
    CASE Unfit(health, capacity) /\ row \in Pooled       -> "AUTO_EJECTED"
      [] Fit(health, capacity) /\ row = "AUTO_EJECTED"   -> "RECOVERING"
      [] Fit(health, capacity) /\ row = "RECOVERING"     -> "ENABLED"
      [] OTHER                                           -> row

NodeBeats ==
    LET count == Counted
        health == HealthAfter(count)
        capacity == CapacityAfter(count)
    IN /\ node' = [health |-> health, capacity |-> capacity, count |-> count]
       /\ row' = Scheduled(health, capacity)
       /\ silence' = "BEATING"
       /\ connection' = "ONLINE"
       /\ UNCHANGED <<machine, pass>>

-----------------------------------------------------------------------------
(* The worker and the list *)

\* Agents that are not OFFLINE yet; only what differs will be written.
PassReads ==
    /\ pass = {} /\ connection # "OFFLINE" /\ silence # "BEATING"
    /\ pass' = {"OFFLINE"} \cup ({"UNHEALTHY"} \ {node.health})
                           \cup (IF row \in Pooled THEN {"AUTO_EJECTED"} ELSE {})
    /\ UNCHANGED <<machine, silence, connection, node, row>>

\* The rest of the pass may take long; heartbeats come in between.
PassCommits ==
    /\ pass # {}
    /\ connection' = "OFFLINE"
    /\ node' = IF "UNHEALTHY" \in pass THEN [node EXCEPT !.health = "UNHEALTHY"] ELSE node
    /\ row' = IF "AUTO_EJECTED" \in pass THEN "AUTO_EJECTED" ELSE row
    /\ pass' = {}
    /\ UNCHANGED <<machine, silence>>

\* list_servers: the row of the project is left as it is.
NodesListed ==
    /\ silence = "LOST"
    /\ connection # "OFFLINE" \/ node.health # "OFFLINE"
    /\ connection' = "OFFLINE"
    /\ node' = [node EXCEPT !.health = "OFFLINE"]
    /\ UNCHANGED <<machine, silence, row, pass>>

\* No heartbeat for a while, whatever the reason.
SilenceGrows ==
    /\ silence # "LOST"
    /\ silence' = Older[silence]
    /\ UNCHANGED <<machine, connection, node, row, pass>>

MachineChanges ==
    /\ \/ machine' = [machine EXCEPT !.unhealthy = ~@]
       \/ \E load \in Loads : machine' = [machine EXCEPT !.load = load]
    /\ UNCHANGED <<silence, connection, node, row, pass>>

HealthNext ==
    NodeBeats \/ PassReads \/ PassCommits \/ NodesListed \/ SilenceGrows \/ MachineChanges

-----------------------------------------------------------------------------
(* Fairness: the Agent goes on reporting and the worker goes on working.    *)

HealthSpec ==
    /\ HealthInit /\ [][HealthNext]_healthVars
    /\ WF_healthVars(NodeBeats) /\ WF_healthVars(PassReads \/ PassCommits)

Calm == silence = "BEATING" /\ ~machine.unhealthy /\ ~Exhausted

\* A node that is well for good comes back into the pool of its project and
\* one that is ill or full for good leaves it, whoever has marked it before,
\* in whatever order (_update_server_health_capacity,
\* _sync_project_server_scheduling, the worker).
PoolFollowsHealth ==
    /\ <>[]Calm => []<>(row = "ENABLED")
    /\ <>[]machine.unhealthy \/ <>[]Exhausted => <>[](row = "AUTO_EJECTED")

=============================================================================
