------------------------ MODULE NodeLifecycleProofs ------------------------
EXTENDS NodeLifecycle, FiniteSetTheorems, TLAPS

-----------------------------------------------------------------------------
(* Types.  RowsTyped speaks of the platform, HostTyped of the host; both    *)
(* add to NodeTypeOK what keeps it: the types of the tokens, the heartbeat  *)
(* and the installer, and that a heartbeat in progress has a node.          *)

Commands   == {"NONE", "FRESH", "OLD"}
ServerRows == [life : {"ABSENT", "IDLE", "BOOTSTRAPPING", "DRAINING", "DECOMMISSIONING", "BLOCKED"},
               manage : {"ENABLED", "MAINTENANCE", "DISABLED"},
               desired : {"ONLINE", "DECOMMISSIONED"}, action : {"", "JOIN", "DECOMMISSION"}]
AgentRows  == [conn : {"UNREGISTERED", "ONLINE", "STALE", "OFFLINE"}, cred : 0 .. MaxCreds,
               inst : {"NONE", "THIS", "OTHER"}, able : BOOLEAN, late : BOOLEAN]
TokenRows  == [status : {"NONE", "ACTIVE", "USED", "EXPIRED", "CANCELLED", "GONE"},
               invite : {"PENDING", "CONFIG_ISSUED", "FAILED", "ACTIVATED", "CANCELLED"},
               old : BOOLEAN]
Beats      == [on : BOOLEAN, server : ServerRows, command : Commands, cleanup : BOOLEAN,
               known : SUBSET Runs, busy : BOOLEAN]
Boxes      == [state : {"NONE", "UP", "DOWN"}, policy : {"always", "no"}, cred : 0 .. MaxCreds,
               kind : {"CURRENT", "LEGACY"}]
Works      == [step : {"LOOP", "ASKED", "PREPARED", "LEAVING"}, clean : BOOLEAN,
               blind : BOOLEAN]
Installs   == [pc : {"IDLE", "CHECKED", "RESUMED", "ISSUED"}, tok : 0 .. MaxTokens]

PlatformTyped ==
  /\ server \in ServerRows /\ agent \in AgentRows
  /\ issued \in 0 .. MaxCreds /\ agent.cred <= issued
  /\ agent.cred # 0 => server.life # "ABSENT"
  /\ command \in Commands /\ cleanup \in BOOLEAN
  /\ run \in [Runs -> {"NONE", "ROUTED", "TAKEN", "STRANDED"}]
  /\ beat \in Beats
  /\ beat.on => server.life # "ABSENT"

TokensTyped == token \in [Tokens -> TokenRows]

TasksTyped ==
  /\ futures \subseteq Runs /\ cont \subseteq Runs
  /\ Cardinality(futures) <= Slots

HostTyped ==
  /\ box \in Boxes /\ work \in Works /\ install \in Installs
  /\ install.pc # "IDLE" => install.tok \in Tokens
  /\ issued \in 0 .. MaxCreds
  /\ env \in 0 .. MaxCreds /\ env <= issued /\ box.cred <= issued

NodeTyped == PlatformTyped /\ TokensTyped /\ TasksTyped /\ HostTyped

LEMMA StartingNode ==
  /\ 0 \in 0 .. MaxCreds /\ 0 \in 0 .. MaxTokens
  /\ NoServer \in ServerRows /\ NoAgent \in AgentRows /\ NoBeat \in Beats
  /\ NoBox \in Boxes /\ NoWork \in Works /\ NoInstall \in Installs
<1>1. 0 \in 0 .. MaxCreds /\ 0 \in 0 .. MaxTokens
  BY NodeAssumption
<1>2. NoServer \in ServerRows
  BY DEF NoServer, ServerRows
<1>3. NoAgent \in AgentRows /\ NoBox \in Boxes /\ NoInstall \in Installs
  BY <1>1 DEF NoAgent, AgentRows, NoBox, Boxes, NoInstall, Installs
<1>4. NoBeat \in Beats /\ NoWork \in Works
  BY <1>2 DEF NoBeat, Beats, Commands, NoWork, Works
<1>. QED
  BY <1>1, <1>2, <1>3, <1>4

\* An update of single columns keeps a row of its type.
LEMMA ServerUpdates ==
  ASSUME NEW s \in ServerRows
  PROVE  /\ \A m \in {"ENABLED", "MAINTENANCE", "DISABLED"} : [s EXCEPT !.manage = m] \in ServerRows
         /\ [s EXCEPT !.life = "BLOCKED"] \in ServerRows
         /\ [s EXCEPT !.life = "IDLE"] \in ServerRows
BY DEF ServerRows

LEMMA AgentUpdates ==
  ASSUME NEW a \in AgentRows
  PROVE  /\ [a EXCEPT !.late = TRUE] \in AgentRows
         /\ \A c \in {"STALE", "OFFLINE"} : [a EXCEPT !.conn = c] \in AgentRows
         /\ \A n \in 0 .. MaxCreds : [a EXCEPT !.cred = n] \in AgentRows
         /\ NewProcess(a) \in AgentRows /\ NewProcess(a).cred = a.cred
BY DEF AgentRows, NewProcess

LEMMA BoxUpdates ==
  ASSUME NEW b \in Boxes
  PROVE  /\ \A s \in {"UP", "DOWN"} : [b EXCEPT !.state = s] \in Boxes
         /\ [b EXCEPT !.policy = "no"] \in Boxes
BY DEF Boxes

\* What a heartbeat writes of the row of the node.
LEMMA WrittenTyped ==
  ASSUME server \in ServerRows, NEW s \in ServerRows, NEW busy
  PROVE  /\ Converged(s, busy) \in ServerRows
         /\ Written(s, Converged(s, busy)) \in ServerRows
         /\ server.life # "ABSENT" => Written(s, Converged(s, busy)).life # "ABSENT"
<1>1. Converged(s, busy) \in ServerRows
  BY ZenonT(40) DEF Converged, Leaving, ServerRows
<1>2. Converged(s, busy).life # "ABSENT" \/ Converged(s, busy).life = s.life
  BY DEF Converged, Leaving, ServerRows
<1>3. DOMAIN s = {"life", "manage", "desired", "action"}
  BY DEF ServerRows
<1>4. ASSUME NEW n \in ServerRows
      PROVE  /\ Written(s, n) \in ServerRows
             /\ Written(s, n).life = IF n.life = s.life THEN server.life ELSE n.life
  <2>. DEFINE life    == IF n.life = s.life THEN server.life ELSE n.life
              manage  == IF n.manage = s.manage THEN server.manage ELSE n.manage
              desired == IF n.desired = s.desired THEN server.desired ELSE n.desired
              action  == IF n.action = s.action THEN server.action ELSE n.action
  <2>1. life \in {"ABSENT", "IDLE", "BOOTSTRAPPING", "DRAINING", "DECOMMISSIONING", "BLOCKED"}
    BY DEF ServerRows
  <2>2. manage \in {"ENABLED", "MAINTENANCE", "DISABLED"}
    BY DEF ServerRows
  <2>3. desired \in {"ONLINE", "DECOMMISSIONED"} /\ action \in {"", "JOIN", "DECOMMISSION"}
    BY DEF ServerRows
  <2>4. Written(s, n) = [life |-> life, manage |-> manage, desired |-> desired, action |-> action]
    BY <1>3 DEF Written
  <2>5. Written(s, n).life = life
    BY <2>4
  <2>6. ASSUME NEW l \in {"ABSENT", "IDLE", "BOOTSTRAPPING", "DRAINING", "DECOMMISSIONING", "BLOCKED"},
               NEW m \in {"ENABLED", "MAINTENANCE", "DISABLED"},
               NEW d \in {"ONLINE", "DECOMMISSIONED"}, NEW a \in {"", "JOIN", "DECOMMISSION"}
        PROVE  [life |-> l, manage |-> m, desired |-> d, action |-> a] \in ServerRows
    BY DEF ServerRows
  <2>. HIDE DEF life, manage, desired, action
  <2>7. Written(s, n) \in ServerRows
    BY ZenonT(40), <2>1, <2>2, <2>3, <2>4, <2>6
  <2>. QED
    BY <2>5, <2>7 DEF life
<1>. QED
  BY <1>1, <1>2, <1>4

LEMMA DeletedTyped ==
  ASSUME PlatformTyped, TokensTyped, RecordsDeleted, UNCHANGED issued
  PROVE  PlatformTyped' /\ TokensTyped'
<1>1. TokensTyped'
  BY DEF TokensTyped, RecordsDeleted, TokenRows
<1>2. PlatformTyped'
  <2>1. server' \in ServerRows /\ agent' \in AgentRows /\ agent'.cred = 0 /\ beat' \in Beats
          /\ ~beat'.on
    BY StartingNode DEF RecordsDeleted, NoAgent, NoBeat
  <2>2. command' \in Commands /\ cleanup' \in BOOLEAN
          /\ run' \in [Runs -> {"NONE", "ROUTED", "TAKEN", "STRANDED"}]
    BY DEF RecordsDeleted, Commands
  <2>3. issued' \in 0 .. MaxCreds /\ 0 <= issued'
    BY NodeAssumption DEF PlatformTyped
  <2>. QED
    BY <2>1, <2>2, <2>3 DEF PlatformTyped
<1>. QED
  BY <1>1, <1>2

LEMMA TokenMetTyped ==
  ASSUME TokensTyped, NEW t \in Tokens
  PROVE  TokenMet(t) \in TokenRows
BY DEF TokensTyped, TokenMet, TokenRows

LEMMA CommitTyped ==
  ASSUME PlatformTyped, TokensTyped, BeatCommits, UNCHANGED issued
  PROVE  PlatformTyped' /\ TokensTyped'
<1>1. TokensTyped'
  BY TokenMetTyped DEF TokensTyped, BeatCommits
<1>2. server' \in ServerRows /\ server'.life # "ABSENT"
  BY WrittenTyped DEF PlatformTyped, BeatCommits, Beats
<1>3. agent' \in AgentRows /\ agent'.cred = agent.cred
  BY DEF PlatformTyped, BeatCommits, AgentRows
<1>4. command' \in Commands /\ cleanup' \in BOOLEAN
  BY DEF PlatformTyped, BeatCommits, Beats, Commands
<1>5. run' \in [Runs -> {"NONE", "ROUTED", "TAKEN", "STRANDED"}]
  BY DEF PlatformTyped, BeatCommits, RunsKept
<1>6. beat' \in Beats /\ ~beat'.on
  BY StartingNode DEF BeatCommits, NoBeat
<1>. QED
  BY <1>1, <1>2, <1>3, <1>4, <1>5, <1>6 DEF PlatformTyped

\* Steps that leave the host and the tasks on it alone.
LEMMA HostUnchanged ==
  ASSUME HostTyped, TasksTyped, UNCHANGED <<issued, host>>
  PROVE  HostTyped' /\ TasksTyped'
BY DEF HostTyped, TasksTyped, host

LEMMA TasksUnchanged ==
  ASSUME TasksTyped, UNCHANGED <<futures, cont>>
  PROVE  TasksTyped'
BY DEF TasksTyped

LEMMA TasksEnd ==
  ASSUME TasksTyped, futures' \subseteq futures, cont' \subseteq cont
  PROVE  TasksTyped'
<1>1. IsFiniteSet(futures)
  BY FS_Subset, NodeAssumption DEF TasksTyped
<1>2. Cardinality(futures') <= Cardinality(futures) /\ IsFiniteSet(futures')
  BY <1>1, FS_Subset
<1>3. Cardinality(futures) \in Nat /\ Cardinality(futures') \in Nat
  BY <1>1, <1>2, FS_CardinalityType
<1>. QED
  BY <1>2, <1>3, NodeAssumption DEF TasksTyped

-----------------------------------------------------------------------------
LEMMA UsersKeepTypes ==
  ASSUME NodeTyped, Users
  PROVE  NodeTyped'
<1>. USE DEF NodeTyped
<1>1. ASSUME UNCHANGED <<issued, host>>, PlatformTyped', TokensTyped'
      PROVE  NodeTyped'
  BY <1>1, HostUnchanged
<1>2. CASE CreateServer
  <2>1. [NoServer EXCEPT !.life = "IDLE"] \in ServerRows
    BY DEF NoServer, ServerRows
  <2>2. PlatformTyped'
    BY <1>2, <2>1 DEF CreateServer, PlatformTyped, NoServer
  <2>. QED
    BY <1>1, <1>2, <2>2 DEF CreateServer, TokensTyped
<1>3. CASE DeleteServer
  <2>1. CASE DeleteDrains
    BY <1>1, <1>3, <2>1 DEF DeleteServer, DeleteDrains, PlatformTyped, TokensTyped, ServerRows
  <2>2. CASE DeleteAsks
    BY <1>1, <1>3, <2>2
    DEF DeleteServer, DeleteAsks, PlatformTyped, TokensTyped, ServerRows, Commands
  <2>3. CASE DeleteAtOnce
    BY <1>1, <1>3, <2>3, DeletedTyped DEF DeleteServer, DeleteAtOnce
  <2>. QED
    BY <1>3, <2>1, <2>2, <2>3 DEF DeleteServer
<1>4. CASE RegisterAgent
  <2>1. issued' = issued + 1 /\ issued' \in 0 .. MaxCreds /\ issued <= issued'
    BY <1>4, NodeAssumption DEF RegisterAgent, PlatformTyped
  <2>2. server' \in ServerRows /\ server'.life # "ABSENT"
    BY <1>4 DEF RegisterAgent, PlatformTyped, NoServer, ServerRows
  <2>3. agent' \in AgentRows /\ agent'.cred = issued'
    BY <1>4, <2>1, AgentUpdates DEF RegisterAgent, PlatformTyped, AgentRows
  <2>4. PlatformTyped' /\ TokensTyped'
    BY <1>4, <2>1, <2>2, <2>3 DEF RegisterAgent, PlatformTyped, TokensTyped
  <2>5. HostTyped'
    BY <1>4, <2>1 DEF RegisterAgent, HostTyped, host, Boxes
  <2>. QED
    BY <1>4, <2>4, <2>5, TasksUnchanged DEF RegisterAgent, host
<1>5. CASE EnqueueCleanup
  BY <1>1, <1>5 DEF EnqueueCleanup, PlatformTyped, TokensTyped
<1>6. ASSUME NEW m \in {"ENABLED", "MAINTENANCE", "DISABLED"}, UpdateServer(m)
      PROVE  NodeTyped'
  <2>1. server' \in ServerRows /\ server'.life = server.life
    BY ZenonT(40), <1>6, ServerUpdates DEF UpdateServer, PlatformTyped, ServerRows
  <2>. QED
    BY <1>1, <1>6, <2>1 DEF UpdateServer, PlatformTyped, TokensTyped
<1>7. ASSUME NEW t \in Tokens, CreateToken(t) \/ MarkStaleJoin(t) \/ DeleteToken(t)
      PROVE  NodeTyped'
  <2>1. TokensTyped'
    <3>1. [status |-> "ACTIVE", invite |-> "PENDING", old |-> FALSE] \in TokenRows
            /\ [token[t] EXCEPT !.invite = "FAILED"] \in TokenRows
            /\ [token[t] EXCEPT !.status = "GONE"] \in TokenRows
      BY DEF TokensTyped, TokenRows
    <3>. QED
      BY <1>7, <3>1 DEF CreateToken, MarkStaleJoin, DeleteToken, TokensTyped
  <2>2. PlatformTyped' /\ UNCHANGED <<issued, host>>
    BY <1>7 DEF CreateToken, MarkStaleJoin, DeleteToken, PlatformTyped
  <2>. QED
    BY <1>1, <2>1, <2>2
<1>. QED
  BY <1>2, <1>3, <1>4, <1>5, <1>6, <1>7 DEF Users

LEMMA TimeKeepsTypes ==
  ASSUME NodeTyped, Time
  PROVE  NodeTyped'
<1>. USE DEF NodeTyped
<1>1. ASSUME UNCHANGED <<issued, host>>, PlatformTyped', TokensTyped'
      PROVE  NodeTyped'
  BY <1>1, HostUnchanged
<1>2. CASE HeartbeatAges
  <2>1. agent' \in AgentRows /\ agent'.cred = agent.cred
    BY <1>2, AgentUpdates DEF HeartbeatAges, PlatformTyped, AgentRows
  <2>. QED
    BY <1>1, <1>2, <2>1 DEF HeartbeatAges, PlatformTyped, TokensTyped
<1>3. CASE CommandAges
  BY <1>1, <1>3 DEF CommandAges, PlatformTyped, TokensTyped, Commands
<1>4. ASSUME NEW c \in {"STALE", "OFFLINE"}, MarkOffline(c)
      PROVE  NodeTyped'
  <2>1. agent' \in AgentRows /\ agent'.cred = agent.cred
    BY <1>4, AgentUpdates DEF MarkOffline, PlatformTyped, AgentRows
  <2>. QED
    BY <1>1, <1>4, <2>1 DEF MarkOffline, PlatformTyped, TokensTyped
<1>5. ASSUME NEW t \in Tokens, TokenAges(t)
      PROVE  NodeTyped'
  <2>1. TokensTyped'
    BY <1>5 DEF TokenAges, TokensTyped, TokenRows
  <2>. QED
    BY <1>1, <1>5, <2>1 DEF TokenAges, PlatformTyped
<1>6. ASSUME NEW r \in Runs, LeaseExpires(r) \/ LeaseLapses(r)
      PROVE  NodeTyped'
  BY <1>1, <1>6 DEF LeaseExpires, LeaseLapses, PlatformTyped, TokensTyped
<1>7. ASSUME NEW r \in Runs, ContainerExits(r)
      PROVE  NodeTyped'
  <2>1. TasksTyped'
    BY <1>7, TasksEnd DEF ContainerExits
  <2>. QED
    BY <1>7, <2>1 DEF ContainerExits, PlatformTyped, TokensTyped, HostTyped, rows
<1>. QED
  BY <1>2, <1>3, <1>4, <1>5, <1>6, <1>7 DEF Time

\* The reports of an Agent.
LEMMA ReportsTyped ==
  ASSUME PlatformTyped, TokensTyped, UNCHANGED issued,
         \/ /\ FailureReported
            /\ UNCHANGED <<agent, token, cleanup, run, beat>>
         \/ SuccessReported
  PROVE  PlatformTyped' /\ TokensTyped'
<1>1. CASE UNCHANGED <<server, agent, token, command, cleanup, run, beat>>
  BY <1>1 DEF PlatformTyped, TokensTyped
<1>2. CASE RecordsDeleted
  BY <1>2, DeletedTyped
<1>3. CASE /\ server' = [server EXCEPT !.life = "BLOCKED"] /\ command' = "NONE"
           /\ UNCHANGED <<agent, token, cleanup, run, beat>>
  <2>1. server' \in ServerRows /\ server'.life # "ABSENT"
    BY ZenonT(40), <1>3, ServerUpdates DEF PlatformTyped, ServerRows
  <2>. QED
    BY <1>3, <2>1 DEF PlatformTyped, TokensTyped, Commands
<1>. QED
  BY <1>1, <1>2, <1>3 DEF FailureReported, SuccessReported

\* Steps that only move the main loop on.
LEMMA WorkTyped ==
  ASSUME NEW w \in Works
  PROVE  \A s \in {"LOOP", "ASKED", "PREPARED", "LEAVING"} :
           /\ [w EXCEPT !.step = s] \in Works
           /\ \A b \in BOOLEAN : [w EXCEPT !.step = s, !.blind = b] \in Works
BY DEF Works

LEMMA LoopKeepsTypes ==
  ASSUME NodeTyped, AgentLoop
  PROVE  NodeTyped'
<1>. USE DEF NodeTyped
<1>1. ASSUME UNCHANGED <<issued, box, futures, cont, env, install>>, PlatformTyped', TokensTyped',
             work' \in Works
      PROVE  NodeTyped'
  BY <1>1, TasksUnchanged DEF HostTyped
<1>2. ASSUME UNCHANGED rows
      PROVE  PlatformTyped' /\ TokensTyped'
  BY <1>2 DEF rows, PlatformTyped, TokensTyped
<1>3. work \in Works /\ \A s \in {"LOOP", "ASKED", "PREPARED", "LEAVING"} :
                            /\ [work EXCEPT !.step = s] \in Works
                            /\ \A b \in BOOLEAN : [work EXCEPT !.step = s, !.blind = b] \in Works
  BY WorkTyped DEF HostTyped
<1>4. CASE HeartbeatBegin
  <2>1. beat' \in Beats /\ server.life # "ABSENT"
    <3>1. PICK seen \in SUBSET cont :
            beat' = [on |-> TRUE, server |-> server, command |-> command, cleanup |-> cleanup,
                     known |-> futures \union seen,
                     busy |-> futures \union seen # {} \/ Active # {}]
      BY <1>4 DEF HeartbeatBegin
    <3>2. server \in ServerRows /\ command \in Commands /\ cleanup \in BOOLEAN
      BY DEF PlatformTyped
    <3>3. ASSUME NEW busy \in BOOLEAN
          PROVE  [on |-> TRUE, server |-> server, command |-> command, cleanup |-> cleanup,
                  known |-> futures \union seen, busy |-> busy] \in Beats
      BY <3>2 DEF Beats, TasksTyped
    <3>4. server.life # "ABSENT"
      BY <1>4 DEF HeartbeatBegin, Authorised, PlatformTyped
    <3>. QED
      BY <3>1, <3>3, <3>4
  <2>2. PlatformTyped' /\ TokensTyped'
    BY <1>4, <2>1 DEF HeartbeatBegin, PlatformTyped, TokensTyped
  <2>. QED
    BY <1>4, <2>2, HostUnchanged DEF HeartbeatBegin
<1>5. CASE HeartbeatCommit
  <2>1. PlatformTyped' /\ TokensTyped'
    BY <1>5, CommitTyped DEF HeartbeatCommit
  <2>2. work' \in Works
    BY <1>5, <2>1 DEF HeartbeatCommit, NoWork, Works, PlatformTyped
  <2>. QED
    BY <1>1, <1>5, <2>1, <2>2 DEF HeartbeatCommit
<1>6. CASE HeartbeatLost \/ HeartbeatRemoves
  BY <1>6, CommitTyped, DeletedTyped, HostUnchanged DEF HeartbeatLost, HeartbeatRemoves
<1>7. CASE AgentRefuses \/ PrepareFails
  <2>1. PlatformTyped' /\ TokensTyped'
    BY <1>7, ReportsTyped DEF AgentRefuses, PrepareFails
  <2>. QED
    BY <1>1, <1>3, <1>7, <2>1 DEF AgentRefuses, PrepareFails
<1>8. CASE AgentPrepares
  <2>1. box' \in Boxes /\ box'.cred = box.cred
    BY <1>8, BoxUpdates DEF AgentPrepares, Disarmed, HostTyped, Boxes
  <2>2. work' \in Works
    <3>1. PICK seen : work' = [work EXCEPT !.step = "PREPARED", !.blind = seen # cont]
      BY <1>8 DEF AgentPrepares
    <3>2. (seen # cont) \in BOOLEAN
      OBVIOUS
    <3>. QED
      BY <1>3, <3>1, <3>2
  <2>. QED
    BY <1>2, <1>8, <2>1, <2>2, TasksUnchanged DEF AgentPrepares, HostTyped, rows
<1>9. CASE AgentConfirms
  <2>1. PlatformTyped' /\ TokensTyped'
    BY <1>9, ReportsTyped DEF AgentConfirms
  <2>. QED
    BY <1>1, <1>3, <1>9, <2>1 DEF AgentConfirms
<1>10. CASE ConfirmationLost
  <2>1. PlatformTyped' /\ TokensTyped'
    <3>1. UNCHANGED issued
      BY <1>10 DEF ConfirmationLost
    <3>. HIDE DEF NodeTyped
    <3>2. PlatformTyped /\ TokensTyped
      BY DEF NodeTyped
    <3>3. CASE SuccessReported
      BY <3>1, <3>2, <3>3, ReportsTyped
    <3>4. CASE FailureReported /\ UNCHANGED <<agent, token, cleanup, run, beat>>
      BY <3>1, <3>2, <3>4, ReportsTyped
    <3>5. CASE UNCHANGED <<server, agent, token, command, cleanup, run, beat>>
      BY <3>1, <3>2, <3>5 DEF PlatformTyped, TokensTyped
    <3>. QED
      BY <1>10, <3>3, <3>4, <3>5 DEF ConfirmationLost
  <2>. QED
    BY <1>1, <1>3, <1>10, <2>1 DEF ConfirmationLost
<1>11. CASE AgentLeaves
  <2>1. box' \in Boxes /\ box'.cred <= issued
    BY <1>11, BoxUpdates, StartingNode DEF AgentLeaves, HostTyped, Boxes, NoBox
  <2>2. 0 <= issued
    BY NodeAssumption DEF HostTyped
  <2>. QED
    BY <1>2, <1>11, <2>1, <2>2, StartingNode, TasksUnchanged DEF AgentLeaves, HostTyped, rows
<1>12. CASE AgentCleansUp
  <2>1. cleanup' \in BOOLEAN
    <3>1. cleanup \in BOOLEAN
      BY DEF PlatformTyped
    <3>. QED
      BY <1>12, <3>1 DEF AgentCleansUp
  <2>2. PlatformTyped' /\ TokensTyped'
    BY <1>12, <2>1 DEF AgentCleansUp, PlatformTyped, TokensTyped
  <2>3. TasksTyped'
    BY <1>12, TasksEnd DEF AgentCleansUp
  <2>. QED
    BY <1>12, <2>2, <2>3, StartingNode DEF AgentCleansUp, HostTyped
<1>13. CASE AgentStops
  <2>1. agent' \in AgentRows /\ agent'.cred = agent.cred
    BY <1>13, AgentUpdates DEF AgentStops, PlatformTyped
  <2>2. PlatformTyped' /\ TokensTyped'
    BY <1>13, <2>1, StartingNode DEF AgentStops, PlatformTyped, TokensTyped, NoBeat
  <2>3. TasksTyped'
    BY <1>13, TasksEnd DEF AgentStops, Stopped
  <2>4. box' \in Boxes /\ box'.cred = box.cred
    BY <1>13, BoxUpdates DEF AgentStops, HostTyped, Boxes
  <2>. QED
    BY <1>13, <2>2, <2>3, <2>4, StartingNode DEF AgentStops, Stopped, HostTyped
<1>14. CASE AgentRestarts
  <2>1. box' \in Boxes /\ box'.cred = box.cred
    BY <1>14, BoxUpdates DEF AgentRestarts, HostTyped, Boxes
  <2>. QED
    BY <1>2, <1>14, <2>1, TasksUnchanged DEF AgentRestarts, HostTyped, rows
<1>15. ASSUME NEW r \in Runs, ClaimRun(r)
       PROVE  NodeTyped'
  <2>1. IsFiniteSet(futures)
    BY FS_Subset, NodeAssumption DEF TasksTyped
  <2>2. Cardinality(futures \cup {r}) <= Cardinality(futures) + 1
    BY <2>1, FS_AddElement, FS_CardinalityType
  <2>3. Cardinality(futures) \in Nat /\ Cardinality(futures \cup {r}) \in Nat
    BY <2>1, FS_AddElement, FS_CardinalityType
  <2>4. Cardinality(futures \cup {r}) <= Slots
    BY <1>15, <2>2, <2>3, NodeAssumption DEF ClaimRun, CanClaim
  <2>5. TasksTyped'
    BY <1>15, <2>4 DEF ClaimRun, TasksTyped
  <2>. QED
    BY <1>15, <2>5 DEF ClaimRun, PlatformTyped, TokensTyped, HostTyped
<1>16. ASSUME NEW r \in Runs, ClaimRefused(r)
       PROVE  NodeTyped'
  BY <1>16, HostUnchanged DEF ClaimRefused, PlatformTyped, TokensTyped
<1>17. ASSUME NEW r \in Runs, ExecuteEnds(r)
       PROVE  NodeTyped'
  <2>1. TasksTyped'
    BY <1>17, TasksEnd DEF ExecuteEnds
  <2>2. run' \in [Runs -> {"NONE", "ROUTED", "TAKEN", "STRANDED"}]
    BY <1>17 DEF ExecuteEnds, PlatformTyped
  <2>. QED
    BY <1>17, <2>1, <2>2 DEF ExecuteEnds, PlatformTyped, TokensTyped, HostTyped
<1>. QED
  BY <1>4, <1>5, <1>6, <1>7, <1>8, <1>9, <1>10, <1>11, <1>12, <1>13, <1>14, <1>15, <1>16, <1>17
  DEF AgentLoop

LEMMA InstallerKeepsTypes ==
  ASSUME NodeTyped, Installer
  PROVE  NodeTyped'
<1>. USE DEF NodeTyped
<1>1. ASSUME UNCHANGED rows
      PROVE  PlatformTyped' /\ TokensTyped'
  BY <1>1 DEF rows, PlatformTyped, TokensTyped
<1>2. ASSUME NEW t \in Tokens, InstallStarts(t)
      PROVE  NodeTyped'
  <2>1. install' \in Installs /\ install'.tok \in Tokens
    BY <1>2, NodeAssumption DEF InstallStarts, Installs, Tokens
  <2>. QED
    BY <1>1, <1>2, <2>1, TasksUnchanged DEF InstallStarts, HostTyped, rows
<1>3. CASE InstallResumes
  BY <1>1, <1>3, TasksUnchanged DEF InstallResumes, HostTyped, Installs, rows
<1>4. CASE InstallConsumes
  <2>1. issued' = issued + 1 /\ issued' \in 0 .. MaxCreds /\ issued <= issued'
    BY <1>4, NodeAssumption DEF InstallConsumes, Consumed, PlatformTyped
  <2>2. server' \in ServerRows /\ server'.life # "ABSENT"
    BY <1>4 DEF InstallConsumes, Consumed, PlatformTyped, ServerRows
  <2>3. agent' \in AgentRows /\ agent'.cred = issued'
    BY <1>4, <2>1, AgentUpdates DEF InstallConsumes, Consumed, PlatformTyped, AgentRows
  <2>4. TokensTyped'
    BY ZenonT(40), <1>4 DEF InstallConsumes, Consumed, TokensTyped, TokenRows
  <2>5. PlatformTyped'
    BY <1>4, <2>1, <2>2, <2>3 DEF InstallConsumes, PlatformTyped
  <2>6. install' \in Installs /\ (install'.pc # "IDLE" => install'.tok \in Tokens)
    BY <1>4, StartingNode DEF InstallConsumes, HostTyped, Installs, NoInstall
  <2>7. env' \in 0 .. MaxCreds /\ env' <= issued' /\ box.cred <= issued'
    BY <1>4, <2>1, NodeAssumption DEF InstallConsumes, HostTyped, Boxes
  <2>. QED
    BY <1>4, <2>1, <2>4, <2>5, <2>6, <2>7, TasksUnchanged DEF InstallConsumes, HostTyped
<1>5. CASE InstallRefused
  <2>1. TokensTyped'
    BY ZenonT(40), <1>5 DEF InstallRefused, Expired, TokensTyped, TokenRows
  <2>. QED
    BY <1>5, <2>1, StartingNode, TasksUnchanged
    DEF InstallRefused, HostTyped, PlatformTyped, NoInstall
<1>6. JoinFailed => TokensTyped'
  <2>1. \A t \in Tokens : [token[t] EXCEPT !.invite = "FAILED"] \in TokenRows
    BY DEF TokensTyped, TokenRows
  <2>. QED
    BY <2>1 DEF JoinFailed, TokensTyped
<1>7. CASE InstallFails
  BY <1>6, <1>7, StartingNode, TasksUnchanged
  DEF InstallFails, HostTyped, PlatformTyped, NoInstall
<1>8. CASE InstallReplaces \/ InstallRollsBack
  <2>1. agent' \in AgentRows /\ agent'.cred = agent.cred
    BY <1>8, AgentUpdates DEF InstallReplaces, InstallRollsBack, PlatformTyped
  <2>2. PlatformTyped'
    <3>1. UNCHANGED <<server, issued, command, cleanup, run>> /\ beat' = NoBeat
      BY <1>8 DEF InstallReplaces, InstallRollsBack
    <3>2. beat' \in Beats /\ ~beat'.on
      BY <3>1, StartingNode DEF NoBeat
    <3>. QED
      BY <2>1, <3>1, <3>2 DEF PlatformTyped
  <2>3. TokensTyped'
    BY <1>6, <1>8 DEF InstallReplaces, InstallRollsBack, TokensTyped
  <2>4. TasksTyped'
    BY <1>8, TasksEnd DEF InstallReplaces, InstallRollsBack, Stopped
  <2>5. box' \in Boxes /\ box'.cred <= issued
    <3>1. CASE InstallReplaces
      BY <3>1, NodeAssumption DEF InstallReplaces, HostTyped, Boxes
    <3>2. CASE InstallRollsBack
      BY <3>2, BoxUpdates DEF InstallRollsBack, HostTyped, Boxes
    <3>. QED
      BY <1>8, <3>1, <3>2
  <2>. QED
    BY <1>8, <2>2, <2>3, <2>4, <2>5, StartingNode
    DEF InstallReplaces, InstallRollsBack, Stopped, HostTyped, NoInstall
<1>. QED
  BY <1>2, <1>3, <1>4, <1>5, <1>7, <1>8 DEF Installer

LEMMA NodeTypesKept == Spec => []NodeTyped
<1>1. Init => NodeTyped
  <2>. SUFFICES ASSUME Init
                PROVE  NodeTyped
    OBVIOUS
  <2>1. TokensTyped
    BY DEF Init, TokensTyped, TokenRows
  <2>2. PlatformTyped
    <3>1. agent \in AgentRows /\ agent.cred = 0 /\ beat \in Beats /\ ~beat.on
      BY StartingNode DEF Init, NoAgent, NoBeat
    <3>2. run \in [Runs -> {"NONE", "ROUTED", "TAKEN", "STRANDED"}]
      BY DEF Init
    <3>3. issued = 0 /\ command \in Commands /\ cleanup \in BOOLEAN /\ server \in ServerRows
      BY StartingNode DEF Init, Commands
    <3>. QED
      BY <3>1, <3>2, <3>3, StartingNode DEF PlatformTyped
  <2>3. TasksTyped
    BY FS_EmptySet, NodeAssumption DEF Init, TasksTyped
  <2>4. HostTyped
    BY StartingNode DEF Init, HostTyped, NoBox, NoInstall
  <2>. QED
    BY <2>1, <2>2, <2>3, <2>4 DEF NodeTyped
<1>2. NodeTyped /\ [Next]_vars => NodeTyped'
  <2>. SUFFICES ASSUME NodeTyped, [Next]_vars
                PROVE  NodeTyped'
    OBVIOUS
  <2>1. CASE UNCHANGED vars
    BY <2>1 DEF vars, NodeTyped, PlatformTyped, TokensTyped, TasksTyped, HostTyped
  <2>2. ASSUME NEW r \in Runs, Route(r) \/ Reroute(r)
        PROVE  NodeTyped'
    BY <2>2, HostUnchanged DEF Route, Reroute, NodeTyped, PlatformTyped, TokensTyped
  <2>. QED
    BY <2>1, <2>2, UsersKeepTypes, TimeKeepsTypes, LoopKeepsTypes, InstallerKeepsTypes DEF Next
<1>. QED
  BY <1>1, <1>2, PTL DEF Spec

\* The rows of the node, its Agent and its runs, and what is on the host, keep
\* their types; an Agent's row has its node's, no more runs execute than the
\* Agent has slots for, and no process uses an identity that was not issued.
THEOREM NodeTypeCorrect == Spec => []NodeTypeOK
<1>1. NodeTyped => NodeTypeOK
  BY DEF NodeTyped, PlatformTyped, TasksTyped, HostTyped, NodeTypeOK, ServerRows, AgentRows,
         Commands, Works
<1>. QED
  BY <1>1, NodeTypesKept, PTL

-----------------------------------------------------------------------------
(* What an Agent does before it confirms its removal.  From the preparation *)
(* on its container is not started again, and until the confirmation no     *)
(* task container is up but those the listing has missed, because a run is  *)
(* claimed by a loop at rest only.                                          *)

Prepared == work.step \in {"PREPARED", "LEAVING"} => box.policy = "no"

IdleWhenPrepared == work.step = "PREPARED" => futures = {} /\ (cont = {} \/ work.blind)

RemovalInv == Prepared /\ IdleWhenPrepared /\ ConfirmedRemoval

\* Which steps touch what the invariant speaks of.
HostKept == UNCHANGED <<confirmed, box, work, futures, cont>>

LEMMA QuietNodeSteps ==
  ASSUME Users \/ Time \/ \E r \in Runs : Route(r) \/ Reroute(r)
  PROVE  HostKept \/ \E r \in Runs : ContainerExits(r)
BY DEF Users, Time, HostKept, host, CreateServer, DeleteServer, RegisterAgent, EnqueueCleanup,
       UpdateServer, CreateToken, MarkStaleJoin, DeleteToken, HeartbeatAges, CommandAges,
       MarkOffline, TokenAges, LeaseExpires, LeaseLapses, Route, Reroute

LEMMA RemovalKept ==
  ASSUME NodeTyped, RemovalInv, [Next]_vars
  PROVE  RemovalInv'
<1>. USE DEF RemovalInv, Prepared, IdleWhenPrepared, ConfirmedRemoval
<1>1. CASE HostKept
  BY <1>1 DEF HostKept
<1>2. ASSUME work'.step \in {"LOOP", "ASKED"}, UNCHANGED <<confirmed, box>>
      PROVE  RemovalInv'
  BY <1>2
<1>3. ASSUME UNCHANGED <<confirmed, box, work>>, futures' \subseteq futures, cont' \subseteq cont
      PROVE  RemovalInv'
  BY <1>3
<1>4. work \in Works /\ box \in Boxes
  BY DEF NodeTyped, HostTyped
<1>5. NoWork.step = "LOOP" /\ NoBox.state = "NONE"
  BY DEF NoWork, NoBox
<1>6. ASSUME NEW r \in Runs, ContainerExits(r)
      PROVE  RemovalInv'
  BY <1>3, <1>6 DEF ContainerExits, rows
<1>7. CASE AgentLoop
  <2>1. CASE HeartbeatBegin \/ HeartbeatLost \/ HeartbeatRemoves
    BY <1>1, <2>1 DEF HeartbeatBegin, HeartbeatLost, HeartbeatRemoves, host, HostKept
  <2>2. CASE HeartbeatCommit \/ AgentRefuses \/ PrepareFails \/ AgentCleansUp
    BY <1>2, <1>4, <1>5, <2>2
    DEF HeartbeatCommit, AgentRefuses, PrepareFails, AgentCleansUp, NoWork, Works
  <2>3. CASE AgentPrepares
    <3>1. PICK seen : /\ futures = {} /\ seen = {}
                      /\ work' = [work EXCEPT !.step = "PREPARED", !.blind = seen # cont]
      BY <2>3 DEF AgentPrepares, Idle
    <3>2. work'.blind = (seen # cont)
      BY <1>4, <3>1 DEF Works
    <3>3. IdleWhenPrepared'
      BY <2>3, <3>1, <3>2 DEF AgentPrepares
    <3>4. box'.policy = "no"
      BY <1>4, <2>3 DEF AgentPrepares, Disarmed, Boxes
    <3>. QED
      BY <2>3, <3>3, <3>4 DEF AgentPrepares, rows
  <2>4. CASE AgentConfirms
    BY <1>4, <2>4 DEF AgentConfirms, SuccessReported, Works
  <2>5. CASE ConfirmationLost
    BY <1>4, <2>5 DEF ConfirmationLost, SuccessReported, Works
  <2>6. CASE AgentLeaves
    BY <1>4, <1>5, <2>6 DEF AgentLeaves, rows, Boxes
  <2>7. CASE AgentStops
    BY <1>4, <1>5, <2>7 DEF AgentStops, Stopped, Boxes
  <2>8. CASE AgentRestarts
    BY <1>4, <2>8 DEF AgentRestarts, rows, Boxes
  <2>9. ASSUME NEW r \in Runs, ClaimRun(r)
        PROVE  RemovalInv'
    BY <1>2, <1>5, <2>9 DEF ClaimRun, CanClaim, Looping
  <2>10. ASSUME NEW r \in Runs, ClaimRefused(r)
         PROVE  RemovalInv'
    BY <1>1, <2>10 DEF ClaimRefused, host, HostKept
  <2>11. ASSUME NEW r \in Runs, ExecuteEnds(r)
         PROVE  RemovalInv'
    BY <1>3, <2>11 DEF ExecuteEnds
  <2>. QED
    BY <1>7, <2>1, <2>2, <2>3, <2>4, <2>5, <2>6, <2>7, <2>8, <2>9, <2>10, <2>11 DEF AgentLoop
<1>8. CASE Installer
  <2>1. ASSUME NEW t \in Tokens, InstallStarts(t)
        PROVE  RemovalInv'
    BY <1>1, <2>1 DEF InstallStarts, rows, HostKept
  <2>2. CASE InstallResumes \/ InstallConsumes \/ InstallRefused \/ InstallFails
    BY <1>1, <2>2 DEF InstallResumes, InstallConsumes, InstallRefused, InstallFails, rows, HostKept
  <2>3. CASE InstallReplaces
    BY <1>5, <2>3 DEF InstallReplaces, Stopped
  <2>4. CASE InstallRollsBack
    BY <1>4, <1>5, <2>4 DEF InstallRollsBack, Stopped, Boxes
  <2>. QED
    BY <1>8, <2>1, <2>2, <2>3, <2>4 DEF Installer
<1>9. CASE UNCHANGED vars
  BY <1>1, <1>9 DEF vars, HostKept
<1>. QED
  BY <1>1, <1>6, <1>7, <1>8, <1>9, QuietNodeSteps DEF Next

LEMMA RemovalInvariant == Spec => []RemovalInv
<1>1. Init => RemovalInv
  BY DEF Init, RemovalInv, Prepared, IdleWhenPrepared, ConfirmedRemoval, NoWork
<1>2. NodeTyped /\ RemovalInv /\ [Next]_vars => RemovalInv'
  BY RemovalKept
<1>. QED
  BY <1>1, <1>2, NodeTypesKept, PTL DEF Spec

\* Once the records of a node are gone because its Agent confirmed it, Docker
\* will not start that Agent again, whatever got lost in between
\* (handle_agent_commands, prepare_agent_decommission).
THEOREM RemovedStaysDown == Spec => []ConfirmedRemoval
<1>1. RemovalInv => ConfirmedRemoval
  BY DEF RemovalInv
<1>. QED
  BY <1>1, RemovalInvariant, PTL

\* An Agent confirms its removal only when it executes no run and no task
\* container is up on its host, also none that an earlier process of it has
\* left behind, but for those that a failed listing has kept from it
\* (handle_agent_commands, running_platform_run_ids).
THEOREM ConfirmedWhenIdle == Spec => ConfirmedHostIsIdle
<1>1. NodeTyped /\ RemovalInv /\ [Next]_vars =>
        [confirmed' /\ ~confirmed => futures = {} /\ (cont = {} \/ work.blind)]_vars
  <2>. SUFFICES ASSUME NodeTyped, RemovalInv, Next, confirmed', ~confirmed
                PROVE  work.step = "PREPARED"
    BY DEF RemovalInv, IdleWhenPrepared
  <2>1. CASE AgentLoop
    BY <2>1
    DEF AgentLoop, HeartbeatBegin, HeartbeatCommit, HeartbeatLost, HeartbeatRemoves, AgentRefuses,
        PrepareFails, AgentPrepares, AgentConfirms, ConfirmationLost, AgentLeaves, AgentCleansUp,
        AgentStops, AgentRestarts, ClaimRun, ClaimRefused, ExecuteEnds, rows
  <2>2. CASE Installer
    BY <2>2
    DEF Installer, InstallStarts, InstallResumes, InstallConsumes, InstallRefused, InstallFails,
        InstallReplaces, InstallRollsBack, rows
  <2>3. ASSUME NEW r \in Runs, ContainerExits(r)
        PROVE  FALSE
    BY <2>3 DEF ContainerExits, rows
  <2>. QED
    BY <2>1, <2>2, <2>3, QuietNodeSteps DEF Next, HostKept
<1>. QED
  BY <1>1, NodeTypesKept, RemovalInvariant, PTL DEF Spec, ConfirmedHostIsIdle

-----------------------------------------------------------------------------
(* Invitations.  No step takes a used token back, and the heartbeat looks   *)
(* at the status before it calls an invitation done.                        *)

\* What a step may make of a token.
TokenStep(t) ==
  \/ token'[t].invite # "ACTIVATED"
  \/ token'[t].status = "USED"
  \/ token'[t].invite = token[t].invite /\ token'[t].status \in {token[t].status, "GONE"}

LEMMA TokenSteps ==
  ASSUME NodeTyped, UnusedTokenNeverCompletes, [Next]_vars
  PROVE  \A t \in Tokens : TokenStep(t)
<1>. USE DEF TokenStep
<1>1. token \in [Tokens -> TokenRows]
  BY DEF NodeTyped, TokensTyped
<1>2. CASE UNCHANGED token
  BY <1>2
<1>3. CASE RecordsDeleted
  BY <1>1, <1>3 DEF RecordsDeleted, TokenRows
<1>4. CASE BeatCommits
  BY <1>1, <1>4 DEF BeatCommits, TokenMet, TokenRows
<1>5. CASE Users
  <2>1. ASSUME NEW t \in Tokens, CreateToken(t) \/ MarkStaleJoin(t) \/ DeleteToken(t)
        PROVE  \A u \in Tokens : TokenStep(u)
    BY <1>1, <2>1 DEF CreateToken, MarkStaleJoin, DeleteToken, TokenRows
  <2>. QED
    BY <1>2, <1>3, <1>5, <2>1
    DEF Users, CreateServer, DeleteServer, DeleteDrains, DeleteAsks, DeleteAtOnce, RegisterAgent,
        EnqueueCleanup, UpdateServer
<1>6. CASE Time
  <2>1. ASSUME NEW t \in Tokens, TokenAges(t)
        PROVE  \A u \in Tokens : TokenStep(u)
    BY <1>1, <2>1 DEF TokenAges, TokenRows
  <2>. QED
    BY <1>2, <1>6, <2>1
    DEF Time, HeartbeatAges, CommandAges, MarkOffline, LeaseExpires, LeaseLapses, ContainerExits,
        rows
<1>7. CASE AgentLoop
  BY <1>2, <1>3, <1>4, <1>7
  DEF AgentLoop, HeartbeatBegin, HeartbeatCommit, HeartbeatLost, HeartbeatRemoves, AgentRefuses,
      PrepareFails, AgentPrepares, AgentConfirms, ConfirmationLost, SuccessReported, AgentLeaves,
      AgentCleansUp, AgentStops, AgentRestarts, ClaimRun, ClaimRefused, ExecuteEnds, rows
<1>8. CASE Installer
  <2>1. JoinFailed => \A u \in Tokens : TokenStep(u)
    BY <1>1 DEF JoinFailed, TokenRows
  <2>2. CASE InstallConsumes
    BY <1>1, <2>2 DEF InstallConsumes, Consumed, TokenRows
  <2>3. CASE InstallRefused
    <3>1. CASE token' = Expired(install.tok) /\ token[install.tok].status = "ACTIVE"
      BY <1>1, <3>1 DEF Expired, TokenRows, UnusedTokenNeverCompletes
    <3>. QED
      BY <1>2, <2>3, <3>1 DEF InstallRefused
  <2>. QED
    BY <1>2, <1>8, <2>1, <2>2, <2>3
    DEF Installer, InstallStarts, InstallResumes, InstallFails, InstallReplaces, InstallRollsBack,
        rows
<1>9. ASSUME NEW r \in Runs, Route(r) \/ Reroute(r)
      PROVE  UNCHANGED token
  BY <1>9 DEF Route, Reroute
<1>10. CASE UNCHANGED vars
  BY <1>2, <1>10 DEF vars
<1>. QED
  BY <1>2, <1>5, <1>6, <1>7, <1>8, <1>9, <1>10 DEF Next

\* An invitation is reported as completed only after the installer has used
\* it, whatever Agent of the node sends heartbeats (heartbeat).
THEOREM CompletedTokenWasUsed == Spec => []UnusedTokenNeverCompletes
<1>1. Init => UnusedTokenNeverCompletes
  BY DEF Init, UnusedTokenNeverCompletes
<1>2. NodeTyped /\ UnusedTokenNeverCompletes /\ [Next]_vars => UnusedTokenNeverCompletes'
  BY TokenSteps DEF TokenStep, UnusedTokenNeverCompletes
<1>. QED
  BY <1>1, <1>2, NodeTypesKept, PTL DEF Spec

=============================================================================
