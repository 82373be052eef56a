---------------------------- MODULE NodeLifecycle ----------------------------
(***************************************************************************)
(* One execution node from its invitation to its removal: the row of the   *)
(* platform, the Agent's identity and its join tokens, the installer on    *)
(* the host, the Agent's container and main loop, and the task containers  *)
(* that outlive both.                                                      *)
(*                                                                         *)
(* A heartbeat is a transaction in two steps: it reads the rows, and       *)
(* commits the columns it has changed, among them the whole JSON document  *)
(* metrics, in which the commands for the node are kept.  Every other      *)
(* request is one step.                                                    *)
(*                                                                         *)
(* Sources: server_service.py, agent_service.py, agent_command_service.py, *)
(* container_cleanup_service.py of backend/app/services, install-agent.sh  *)
(* of backend/app/templates, main.py and docker_runner.py of               *)
(* agent/crawler_agent.                                                    *)
(*                                                                         *)
(* Left out: previous_manage_status and the upgrade of an Agent (nothing   *)
(* sets lifecycle_action to AGENT_UPGRADE before an upgrade command has    *)
(* succeeded, and nothing else enqueues one); a copy of the old container  *)
(* that the installer cannot remove (docker rm fails after the new one is  *)
(* up); health and capacity (NodeHealth); rollouts (ReleaseRollout).       *)
(***************************************************************************)
EXTENDS Naturals, FiniteSets

CONSTANTS
  Runs,        \* task runs that may be placed on the node
  MaxTokens,   \* BOUND: join tokens
  MaxCreds,    \* BOUND: identities the platform issues to the Agent
  Slots,       \* max_slots of the Agent
  AgentKinds,  \* versions of the Agent in use: CURRENT, LEGACY
  MaxUpsets    \* BOUND: failures, restarts, lost answers, edits of users

Tokens == 1 .. MaxTokens

ASSUME NodeAssumption ==
  /\ IsFiniteSet(Runs)
  /\ MaxTokens \in Nat /\ MaxCreds \in Nat /\ MaxUpsets \in Nat
  /\ Slots \in Nat \ {0}
  /\ AgentKinds \subseteq {"CURRENT", "LEGACY"}

VARIABLES
  server,     \* the row of the node
  agent,      \* the row of its Agent; cred 0: no row
  token,      \* the join tokens, by token_id
  issued,     \* identities issued so far
  command,    \* AGENT_DECOMMISSION in pendingAgentCommands: NONE, FRESH, OLD
  cleanup,    \* a cleanup command is in pendingContainerCleanups
  run,        \* what the platform knows of a run on this node
  beat,       \* the heartbeat request in progress
  box,        \* the container of the Agent
  work,       \* what the main loop of the Agent is at; blind (history): it was
              \* prepared on a listing of containers that had failed
  futures,    \* runs the Agent process executes
  cont,       \* runs whose task container is up
  env,        \* the identity in the .env file of the host
  install,    \* the installer on the host
  confirmed,  \* history: the records went on the word of the Agent in the box
  upsets

rows == <<server, agent, token, issued, command, cleanup, run, beat, confirmed>>
host == <<box, work, futures, cont, env, install>>
vars == <<server, agent, token, issued, command, cleanup, run, beat, box,
          work, futures, cont, env, install, confirmed, upsets>>

NoServer == [life |-> "ABSENT", manage |-> "ENABLED", desired |-> "ONLINE", action |-> ""]
NoAgent == [conn |-> "UNREGISTERED", cred |-> 0, inst |-> "NONE", able |-> FALSE, late |-> FALSE]
NoBeat == [on |-> FALSE, server |-> NoServer, command |-> "NONE", cleanup |-> FALSE,
           known |-> {}, busy |-> FALSE]
NoBox == [state |-> "NONE", policy |-> "always", cred |-> 0, kind |-> "CURRENT"]
NoWork == [step |-> "LOOP", clean |-> FALSE, blind |-> FALSE]
NoInstall == [pc |-> "IDLE", tok |-> 0]

Upset == upsets < MaxUpsets /\ upsets' = upsets + 1

Authorised(c) == c # 0 /\ c = agent.cred
Active == {r \in Runs : run[r] # "NONE"}
Observed == futures \union cont

(* running_platform_run_ids: the containers that are up, or none when Docker *)
(* does not answer; the caller cannot tell.                                  *)
Listed(seen) ==
  \/ seen = cont /\ UNCHANGED upsets
  \/ seen = {} /\ cont # {} /\ Upset

Online == agent.cred # 0 /\ agent.conn = "ONLINE" /\ ~agent.late

-----------------------------------------------------------------------------
(* Removal of the records                                                   *)

(* Mutant: the row of the Agent outlives that of its node. *)
RecordsDeletedButAgent ==
  /\ server' = NoServer
  /\ agent' = [agent EXCEPT !.conn = "UNREGISTERED"]
  /\ token' = [t \in Tokens |-> IF token[t].status = "NONE" THEN token[t]
                                ELSE [token[t] EXCEPT !.status = "GONE"]]
  /\ command' = "NONE"
  /\ cleanup' = FALSE
  /\ run' = [r \in Runs |-> "NONE"]
  /\ beat' = NoBeat

(* _delete_server_records *)
RecordsDeleted ==
  /\ server' = NoServer
  /\ agent' = NoAgent
  /\ token' = [t \in Tokens |-> IF token[t].status = "NONE" THEN token[t]
                                ELSE [token[t] EXCEPT !.status = "GONE"]]
  /\ command' = "NONE"
  /\ cleanup' = FALSE
  /\ run' = [r \in Runs |-> "NONE"]
  /\ beat' = NoBeat               \* a heartbeat in progress fails on the missing row

(* delete_server: drain first, ask an Agent that can be asked, or delete. *)
DeleteDrains ==
  /\ Active # {}
  /\ server' = [life |-> "DRAINING", manage |-> "MAINTENANCE",
                desired |-> "DECOMMISSIONED", action |-> "DECOMMISSION"]
  /\ UNCHANGED <<agent, token, command, cleanup, run, beat>>

DeleteAsks ==
  /\ Active = {}
  /\ Online /\ agent.able
  /\ server' = [life |-> "DECOMMISSIONING", manage |-> "DISABLED",
                desired |-> "DECOMMISSIONED", action |-> "DECOMMISSION"]
  /\ command' = IF command = "NONE" THEN "FRESH" ELSE command
  /\ UNCHANGED <<agent, token, cleanup, run, beat>>

DeleteAtOnce ==
  /\ Active = {}
  /\ ~(Online /\ agent.able)
  /\ RecordsDeleted

DeleteServer ==
  /\ server.life # "ABSENT"
  /\ DeleteDrains \/ DeleteAsks \/ DeleteAtOnce
  /\ Upset
  /\ UNCHANGED <<issued, confirmed, host>>

-----------------------------------------------------------------------------
(* Invitations and identities                                               *)

CreateToken(t) ==
  /\ token[t].status = "NONE"
  /\ \A u \in Tokens : u < t => token[u].status # "NONE"
  /\ agent.cred = 0 \/ agent.conn # "ONLINE"
  /\ token' = [token EXCEPT ![t] = [status |-> "ACTIVE", invite |-> "PENDING", old |-> FALSE]]
  /\ UNCHANGED <<server, agent, issued, command, cleanup, run, beat, confirmed, host, upsets>>

(* expires_at passes. *)
TokenAges(t) ==
  /\ token[t].status = "ACTIVE" /\ ~token[t].old
  /\ token' = [token EXCEPT ![t].old = TRUE]
  /\ Upset
  /\ UNCHANGED <<server, agent, issued, command, cleanup, run, beat, confirmed, host>>

(* list_agent_join_tokens: five minutes without a first heartbeat. *)
MarkStaleJoin(t) ==
  /\ token[t].status = "USED" /\ token[t].invite = "CONFIG_ISSUED"
  /\ token' = [token EXCEPT ![t].invite = "FAILED"]
  /\ UNCHANGED <<server, agent, issued, command, cleanup, run, beat, confirmed, host, upsets>>

DeleteToken(t) ==
  /\ token[t].status \notin {"NONE", "GONE"}
  /\ server.life = "ABSENT"
  /\ token' = [token EXCEPT ![t].status = "GONE"]
  /\ UNCHANGED <<server, agent, issued, command, cleanup, run, beat, confirmed, host, upsets>>

Expired(t) == [token EXCEPT ![t].status = "EXPIRED"]

(* The node is told to come online, whatever it was told before; its        *)
(* manage_status and the commands in its metrics stay.                      *)
Consumed(t) ==
  /\ token[t].status = "ACTIVE" /\ ~token[t].old
  /\ issued < MaxCreds
  /\ issued' = issued + 1
  /\ server' = [life |-> "BOOTSTRAPPING", desired |-> "ONLINE", action |-> "JOIN",
                manage |-> IF server.life = "ABSENT" THEN "ENABLED" ELSE server.manage]
  /\ agent' = [agent EXCEPT !.cred = issued + 1]
  /\ token' = [token EXCEPT ![t].status = "USED", ![t].invite = "CONFIG_ISSUED"]

(* POST /agents: a token for an Agent that is set up by hand. *)
RegisterAgent ==
  /\ issued < MaxCreds
  /\ issued' = issued + 1
  /\ server' = IF server.life = "ABSENT" THEN [NoServer EXCEPT !.life = "IDLE"] ELSE server
  /\ agent' = [agent EXCEPT !.cred = issued + 1]
  /\ Upset
  /\ UNCHANGED <<token, command, cleanup, run, beat, confirmed, host>>

(* POST /servers: a node that no Agent has joined yet. *)
CreateServer ==
  /\ server.life = "ABSENT"
  /\ server' = [NoServer EXCEPT !.life = "IDLE"]
  /\ Upset
  /\ UNCHANGED <<agent, token, issued, command, cleanup, run, beat, confirmed, host>>

UpdateServer(m) ==
  /\ server.life # "ABSENT" /\ server.manage # m
  /\ server' = [server EXCEPT !.manage = m]
  /\ Upset
  /\ UNCHANGED <<agent, token, issued, command, cleanup, run, beat, confirmed, host>>

(* A task or its project is deleted. *)
EnqueueCleanup ==
  /\ server.life # "ABSENT" /\ ~cleanup
  /\ cleanup' = TRUE
  /\ Upset
  /\ UNCHANGED <<server, agent, token, issued, command, run, beat, confirmed, host>>

(* No heartbeat for a while; then the worker, or a user who lists the       *)
(* nodes, marks the Agent.                                                  *)
HeartbeatAges ==
  /\ agent.cred # 0 /\ agent.conn # "UNREGISTERED" /\ ~agent.late
  /\ agent' = [agent EXCEPT !.late = TRUE]
  /\ UNCHANGED <<server, token, issued, command, cleanup, run, beat, confirmed, host, upsets>>

MarkOffline(c) ==
  /\ agent.late /\ agent.conn # c
  /\ c = "STALE" => agent.conn = "ONLINE"
  /\ agent' = [agent EXCEPT !.conn = c]
  /\ UNCHANGED <<server, token, issued, command, cleanup, run, beat, confirmed, host, upsets>>

CommandAges ==
  /\ command = "FRESH"
  /\ command' = "OLD"
  /\ UNCHANGED <<server, agent, token, issued, cleanup, run, beat, confirmed, host, upsets>>

-----------------------------------------------------------------------------
(* Runs on the node                                                         *)

Route(r) ==
  /\ run[r] = "NONE" /\ r \notin Observed
  /\ server.life # "ABSENT" /\ server.manage = "ENABLED" /\ agent.conn = "ONLINE"
  /\ run' = [run EXCEPT ![r] = "ROUTED"]
  /\ UNCHANGED <<server, agent, token, issued, command, cleanup, beat, confirmed, host, upsets>>

(* A node that is not ENABLED or not ONLINE loses what it has not taken. *)
Reroute(r) ==
  /\ run[r] = "ROUTED"
  /\ server.manage # "ENABLED" \/ agent.conn # "ONLINE"
  /\ run' = [run EXCEPT ![r] = "NONE"]
  /\ UNCHANGED <<server, agent, token, issued, command, cleanup, beat, confirmed, host, upsets>>

Renewed(r) == r \in futures /\ box.state = "UP" /\ Authorised(box.cred)

(* mark_lost_runs: nothing renews the lease, *)
LeaseExpires(r) ==
  /\ run[r] = "TAKEN" /\ ~Renewed(r)
  /\ run' = [run EXCEPT ![r] = "NONE"]
  /\ UNCHANGED <<server, agent, token, issued, command, cleanup, beat, confirmed, host, upsets>>

(* or what renews it does not get through for the length of the lease. *)
LeaseLapses(r) ==
  /\ run[r] = "TAKEN" /\ Renewed(r)
  /\ run' = [run EXCEPT ![r] = "NONE"]
  /\ Upset
  /\ UNCHANGED <<server, agent, token, issued, command, cleanup, beat, confirmed, host>>

-----------------------------------------------------------------------------
(* The heartbeat                                                            *)

Looping == box.state = "UP" /\ work = NoWork /\ ~beat.on

HeartbeatBegin ==
  /\ Looping
  /\ Authorised(box.cred)
  /\ \E seen \in SUBSET cont :
       /\ Listed(seen)
       /\ beat' = [on |-> TRUE, server |-> server, command |-> command, cleanup |-> cleanup,
                   known |-> futures \union seen,
                   busy |-> futures \union seen # {} \/ Active # {}]
  /\ UNCHANGED <<server, agent, token, issued, command, cleanup, run, confirmed, host>>

(* Mutant: a removal that has failed once is not taken up again. *)
LeavingUnlessBlocked(s) == s.action = "DECOMMISSION" /\ s.life # "BLOCKED"
Leaving(s) == s.action = "DECOMMISSION"

(* Mutant: joining is not concluded by the first heartbeat. *)
ConvergedStillJoining(s, busy) ==
  IF Leaving(s)
  THEN IF busy THEN [s EXCEPT !.manage = "MAINTENANCE", !.life = "DRAINING"]
       ELSE [s EXCEPT !.manage = "DISABLED", !.life = "DECOMMISSIONING"]
  ELSE s

(* _converge_agent_lifecycle, and the end of a join. *)
Converged(s, busy) ==
  IF Leaving(s)
  THEN IF busy THEN [s EXCEPT !.manage = "MAINTENANCE", !.life = "DRAINING"]
       ELSE [s EXCEPT !.manage = "DISABLED", !.life = "DECOMMISSIONING"]
  ELSE IF s.life = "BOOTSTRAPPING" THEN [s EXCEPT !.life = "IDLE", !.action = ""] ELSE s

(* Only the columns that differ from what was read are written. *)
Written(read, new) ==
  [f \in DOMAIN read |-> IF new[f] = read[f] THEN server[f] ELSE new[f]]

Asks(b) == Leaving(b.server) /\ ~b.busy

Existing == {t \in Tokens : token[t].status \notin {"NONE", "GONE"}}
Latest(t) == t \in Existing /\ \A u \in Existing : u <= t

(* Mutant: an invitation nobody has used counts as done, too. *)
TokenMetAny(t) ==
  IF ~Latest(t) THEN token[t]
  ELSE IF token[t].invite \in {"PENDING", "CONFIG_ISSUED", "FAILED"}
  THEN [token[t] EXCEPT !.invite = "ACTIVATED"]
  ELSE token[t]

TokenMet(t) ==
  IF ~Latest(t) THEN token[t]
  ELSE IF token[t].status = "USED" /\ token[t].invite \in {"CONFIG_ISSUED", "FAILED"}
  THEN [token[t] EXCEPT !.invite = "ACTIVATED"]
  ELSE IF token[t].status = "ACTIVE" /\ token[t].invite = "PENDING"
  THEN [token[t] EXCEPT !.status = "CANCELLED", !.invite = "CANCELLED"]
  ELSE token[t]

(* A new process takes over what still runs; the rest is LOST. *)
RunsKept ==
  [r \in Runs |-> IF agent.inst = "OTHER" /\ run[r] = "TAKEN" /\ r \notin beat.known
                  THEN "NONE" ELSE run[r]]

BeatCommits ==
  /\ beat.on
  /\ ~(Asks(beat) /\ box.kind = "LEGACY")
  /\ server' = Written(beat.server, Converged(beat.server, beat.busy))
  /\ agent' = [agent EXCEPT !.conn = "ONLINE", !.late = FALSE, !.inst = "THIS",
                            !.able = box.kind = "CURRENT"]
  /\ command' = IF Asks(beat) THEN "FRESH" ELSE beat.command
  /\ cleanup' = beat.cleanup
  /\ token' = [t \in Tokens |-> TokenMet(t)]
  /\ run' = RunsKept
  /\ beat' = NoBeat

HeartbeatCommit ==
  /\ box.state = "UP"
  /\ BeatCommits
  /\ work' = [NoWork EXCEPT !.step = IF command' = "FRESH" THEN "ASKED" ELSE "LOOP",
                             !.clean = cleanup']
  /\ UNCHANGED <<issued, confirmed, box, futures, cont, env, install, upsets>>

(* The answer does not arrive. *)
HeartbeatLost ==
  /\ BeatCommits
  /\ Upset
  /\ UNCHANGED <<issued, confirmed, host>>

(* finalize_agent_decommission_unconfirmed: an Agent that cannot be asked. *)
HeartbeatRemoves ==
  /\ beat.on
  /\ Asks(beat) /\ box.kind = "LEGACY"
  /\ RecordsDeleted
  /\ UNCHANGED <<issued, confirmed, host, upsets>>

-----------------------------------------------------------------------------
(* The Agent                                                                *)

(* Mutants: containers the process has not started itself are overlooked;   *)
(* what it executes itself is not asked for.                                *)
IdleByFutures(seen) == futures = {}
IdleByListing(seen) == seen = {}

(* handle_agent_commands asks its own threads, prepare_agent_decommission   *)
(* the listing.                                                             *)
Idle(seen) == futures = {} /\ seen = {}

(* report_agent_command_result for a failure. *)
FailureReported ==
  IF Authorised(box.cred) /\ command # "NONE"
  THEN /\ server' = [server EXCEPT !.life = "BLOCKED"]
       /\ command' = "NONE"
  ELSE UNCHANGED <<server, command>>

AgentRefuses ==
  /\ box.state = "UP" /\ work.step = "ASKED"
  /\ \E seen \in SUBSET cont : Listed(seen) /\ ~Idle(seen)
  /\ FailureReported
  /\ work' = [work EXCEPT !.step = "LOOP"]
  /\ UNCHANGED <<agent, token, issued, cleanup, run, beat, confirmed, box, futures, cont,
                 env, install>>

(* Docker fails in prepare_agent_decommission once the listing has named    *)
(* nothing.                                                                 *)
PrepareFails ==
  /\ box.state = "UP" /\ work.step = "ASKED"
  /\ Idle({})
  /\ FailureReported
  /\ work' = [work EXCEPT !.step = "LOOP"]
  /\ Upset
  /\ UNCHANGED <<agent, token, issued, cleanup, run, beat, confirmed, box, futures, cont,
                 env, install>>

(* Mutant: the container keeps its restart policy. *)
DisarmedNot == box
(* prepare_agent_decommission *)
Disarmed == [box EXCEPT !.policy = "no"]

AgentPrepares ==
  /\ box.state = "UP" /\ work.step = "ASKED"
  /\ \E seen \in SUBSET cont :
       /\ Listed(seen) /\ Idle(seen)
       /\ work' = [work EXCEPT !.step = "PREPARED", !.blind = seen # cont]
  /\ box' = Disarmed
  /\ UNCHANGED <<rows, futures, cont, env, install>>

(* report_agent_command_result for a success. *)
SuccessReported ==
  IF command # "NONE"
  THEN RecordsDeleted /\ confirmed' = TRUE
  ELSE UNCHANGED <<server, agent, token, command, cleanup, run, beat, confirmed>>

AgentConfirms ==
  /\ box.state = "UP" /\ work.step = "PREPARED"
  /\ Authorised(box.cred)
  /\ SuccessReported
  /\ work' = [work EXCEPT !.step = "LEAVING"]
  /\ UNCHANGED <<issued, box, futures, cont, env, install, upsets>>

(* The report of the success raises, before or after it was stored: the     *)
(* Agent reports a failure instead and goes on.                             *)
ConfirmationLost ==
  /\ box.state = "UP" /\ work.step = "PREPARED"
  /\ work' = [work EXCEPT !.step = "LOOP", !.blind = FALSE]
  /\ \/ /\ Authorised(box.cred)
        /\ SuccessReported
        /\ Upset
     \/ /\ Authorised(box.cred)
        /\ FailureReported
        /\ Upset
        /\ UNCHANGED <<agent, token, cleanup, run, beat, confirmed>>
     \/ /\ ~Authorised(box.cred)
        /\ UNCHANGED <<server, agent, token, command, cleanup, run, beat, confirmed, upsets>>
  /\ UNCHANGED <<issued, box, futures, cont, env, install>>

(* The credentials and the container go; the process goes even if the       *)
(* container stays.                                                         *)
AgentLeaves ==
  /\ box.state = "UP" /\ work.step = "LEAVING"
  /\ env' = 0
  /\ work' = NoWork
  /\ \/ box' = NoBox /\ UNCHANGED upsets
     \/ box' = [box EXCEPT !.state = "DOWN"] /\ Upset
  /\ UNCHANGED <<rows, futures, cont, install>>

(* Cleanup commands come after the other commands and are repeated until    *)
(* their result arrives.  When Docker fails, the containers stay; the       *)
(* result says so, and ends the command all the same (acknowledge).         *)
AgentCleansUp ==
  /\ box.state = "UP" /\ work.step = "LOOP" /\ work.clean
  /\ work' = NoWork
  /\ \/ cont' = {} /\ cleanup' = (cleanup /\ ~Authorised(box.cred)) /\ UNCHANGED upsets
     \/ cont' = {} /\ UNCHANGED cleanup /\ Upset
     \/ UNCHANGED cont /\ cleanup' = (cleanup /\ ~Authorised(box.cred)) /\ Upset
  /\ UNCHANGED <<server, agent, token, issued, command, run, beat, confirmed, box, futures,
                 env, install>>

CanClaim(r) ==
  /\ Looping /\ Authorised(box.cred) /\ agent.inst = "THIS"
  /\ Cardinality(futures) < Slots
  /\ server.manage = "ENABLED" /\ server.desired = "ONLINE" /\ server.life = "IDLE"
  /\ agent.conn = "ONLINE"
  /\ run[r] = "ROUTED"

ClaimRun(r) ==
  /\ CanClaim(r)
  /\ run' = [run EXCEPT ![r] = "TAKEN"]
  /\ futures' = futures \union {r}
  /\ cont' = cont \union {r}
  /\ UNCHANGED <<server, agent, token, issued, command, cleanup, beat, confirmed, box, work,
                 env, install, upsets>>

(* The task or its project is switched off: the run stays on the node. *)
ClaimRefused(r) ==
  /\ CanClaim(r)
  /\ run' = [run EXCEPT ![r] = "STRANDED"]
  /\ Upset
  /\ UNCHANGED <<server, agent, token, issued, command, cleanup, beat, confirmed, host>>

(* execute comes to its end; a result the platform refuses is dropped. *)
ExecuteEnds(r) ==
  /\ box.state = "UP" /\ r \in futures
  /\ futures' = futures \ {r}
  /\ cont' = cont \ {r}
  /\ run' = IF Authorised(box.cred) /\ run[r] = "TAKEN" THEN [run EXCEPT ![r] = "NONE"] ELSE run
  /\ UNCHANGED <<server, agent, token, issued, command, cleanup, beat, confirmed, box, work,
                 env, install, upsets>>

(* A task container without an executor comes to its end. *)
ContainerExits(r) ==
  /\ r \in cont \ futures
  /\ cont' = cont \ {r}
  /\ UNCHANGED <<rows, box, work, futures, env, install, upsets>>

(* The process dies, the task containers go on. *)
Stopped == futures' = {} /\ work' = NoWork
NewProcess(a) == IF a.inst = "THIS" THEN [a EXCEPT !.inst = "OTHER"] ELSE a

AgentStops ==
  /\ box.state = "UP"
  /\ box' = [box EXCEPT !.state = "DOWN"]
  /\ Stopped
  /\ agent' = NewProcess(agent)
  /\ beat' = NoBeat               \* or commits first: HeartbeatLost
  /\ Upset
  /\ UNCHANGED <<server, token, issued, command, cleanup, run, confirmed, cont, env, install>>

AgentRestarts ==
  /\ box.state = "DOWN" /\ box.policy = "always"
  /\ box' = [box EXCEPT !.state = "UP"]
  /\ UNCHANGED <<rows, work, futures, cont, env, install, upsets>>

-----------------------------------------------------------------------------
(* The installer                                                            *)

(* inspect_existing_agent_before_join: tasks that are up stop the installer, *)
(* unless it is run with --force.                                            *)
InstallStarts(t) ==
  /\ install.pc = "IDLE" /\ token[t].status \notin {"NONE", "GONE"}
  /\ \E force \in BOOLEAN : box.state = "UP" /\ cont # {} => force
  /\ install' = [pc |-> "CHECKED", tok |-> t]
  /\ Upset
  /\ UNCHANGED <<rows, box, work, futures, cont, env>>

CanResume ==
  /\ Authorised(env)
  /\ server.desired # "DECOMMISSIONED" /\ server.action # "DECOMMISSION"
  /\ token[install.tok].status \notin {"NONE", "GONE"}

(* resume_agent_bootstrap_env, for credentials left on the host *)
InstallResumes ==
  /\ install.pc = "CHECKED"
  /\ CanResume
  /\ install' = [install EXCEPT !.pc = "RESUMED"]
  /\ UNCHANGED <<rows, box, work, futures, cont, env, upsets>>

(* consume_agent_join_token; the answer with the identity may get lost. *)
InstallConsumes ==
  /\ install.pc = "CHECKED"
  /\ ~CanResume
  /\ Consumed(install.tok)
  /\ \/ /\ env' = issued + 1
        /\ install' = [install EXCEPT !.pc = "ISSUED"]
        /\ UNCHANGED upsets
     \/ /\ install' = NoInstall
        /\ Upset
        /\ UNCHANGED env
  /\ UNCHANGED <<command, cleanup, run, beat, confirmed, box, work, futures, cont>>

InstallRefused ==
  /\ install.pc = "CHECKED"
  /\ ~CanResume
  /\ token[install.tok].status # "ACTIVE" \/ token[install.tok].old
  /\ token' = IF token[install.tok].status = "ACTIVE" THEN Expired(install.tok) ELSE token
  /\ install' = NoInstall
  /\ UNCHANGED <<server, agent, issued, command, cleanup, run, beat, confirmed, box, work,
                 futures, cont, env, upsets>>

(* report_agent_join_failure, from the installer's exit trap. *)
JoinFailed ==
  token' = IF install.pc = "ISSUED" /\ token[install.tok].status # "GONE"
           THEN [token EXCEPT ![install.tok].invite = "FAILED"] ELSE token

(* The registry does not answer, the image cannot be pulled, or the old     *)
(* container cannot be stopped: the container stays as it is.               *)
InstallFails ==
  /\ install.pc \in {"RESUMED", "ISSUED"}
  /\ JoinFailed
  /\ install' = NoInstall
  /\ Upset
  /\ UNCHANGED <<server, agent, issued, command, cleanup, run, beat, confirmed, box, work,
                 futures, cont, env>>

(* replace_agent_container_with_rollback: the new container is up, *)
InstallReplaces ==
  /\ install.pc \in {"RESUMED", "ISSUED"}
  /\ \E k \in AgentKinds :
       box' = [state |-> "UP", policy |-> "always", cred |-> env, kind |-> k]
  /\ Stopped
  /\ agent' = NewProcess(agent)
  /\ beat' = NoBeat
  /\ install' = NoInstall
  /\ confirmed' = FALSE
  /\ UNCHANGED <<server, token, issued, command, cleanup, run, cont, env, upsets>>

(* or the old one, already stopped, is started again if that works. *)
InstallRollsBack ==
  /\ install.pc \in {"RESUMED", "ISSUED"}
  /\ \/ box.state = "NONE" /\ UNCHANGED box
     \/ box.state # "NONE" /\ \E s \in {"UP", "DOWN"} : box' = [box EXCEPT !.state = s]
  /\ Stopped
  /\ agent' = NewProcess(agent)
  /\ beat' = NoBeat
  /\ JoinFailed
  /\ install' = NoInstall
  /\ Upset
  /\ UNCHANGED <<server, issued, command, cleanup, run, confirmed, cont, env>>

-----------------------------------------------------------------------------
Init ==
  /\ server = NoServer /\ agent = NoAgent
  /\ token = [t \in Tokens |-> [status |-> "NONE", invite |-> "PENDING", old |-> FALSE]]
  /\ issued = 0 /\ command = "NONE" /\ cleanup = FALSE
  /\ run = [r \in Runs |-> "NONE"]
  /\ beat = NoBeat
  /\ box = NoBox /\ work = NoWork /\ futures = {} /\ cont = {} /\ env = 0
  /\ install = NoInstall
  /\ confirmed = FALSE /\ upsets = 0

Users ==
  \/ CreateServer \/ DeleteServer \/ RegisterAgent \/ EnqueueCleanup
  \/ \E m \in {"ENABLED", "MAINTENANCE", "DISABLED"} : UpdateServer(m)
  \/ \E t \in Tokens : CreateToken(t) \/ MarkStaleJoin(t) \/ DeleteToken(t)

Time ==
  \/ HeartbeatAges \/ CommandAges
  \/ \E c \in {"STALE", "OFFLINE"} : MarkOffline(c)
  \/ \E t \in Tokens : TokenAges(t)
  \/ \E r \in Runs : LeaseExpires(r) \/ LeaseLapses(r) \/ ContainerExits(r)

AgentLoop ==
  \/ HeartbeatBegin \/ HeartbeatCommit \/ HeartbeatLost \/ HeartbeatRemoves
  \/ AgentRefuses \/ PrepareFails \/ AgentPrepares \/ AgentConfirms
  \/ ConfirmationLost \/ AgentLeaves \/ AgentCleansUp
  \/ AgentStops \/ AgentRestarts
  \/ \E r \in Runs : ClaimRun(r) \/ ClaimRefused(r) \/ ExecuteEnds(r)

Installer ==
  \/ InstallResumes \/ InstallConsumes \/ InstallRefused \/ InstallFails
  \/ InstallReplaces \/ InstallRollsBack
  \/ \E t \in Tokens : InstallStarts(t)

Next ==
  \/ Users \/ Time \/ AgentLoop \/ Installer
  \/ \E r \in Runs : Route(r) \/ Reroute(r)

(* The Agent's main loop goes on, the loops that reroute and that end       *)
(* leases go on, and task containers come to an end.  Nothing is assumed of *)
(* Docker restarting an Agent.                                              *)
Fairness ==
  /\ WF_vars(HeartbeatBegin) /\ WF_vars(HeartbeatCommit) /\ WF_vars(HeartbeatRemoves)
  /\ WF_vars(AgentRefuses) /\ WF_vars(AgentPrepares) /\ WF_vars(AgentConfirms)
  /\ WF_vars(ConfirmationLost) /\ WF_vars(AgentLeaves) /\ WF_vars(AgentCleansUp)
  /\ \A r \in Runs : /\ SF_vars(ClaimRun(r)) /\ WF_vars(Reroute(r))
                     /\ WF_vars(LeaseExpires(r)) /\ WF_vars(ExecuteEnds(r))
                     /\ WF_vars(ContainerExits(r))

Spec == Init /\ [][Next]_vars /\ Fairness

-----------------------------------------------------------------------------
(* The type invariant, with the two references that a removal or a join     *)
(* may leave dangling: an Agent's row needs its node's, and no process uses *)
(* an identity that was never issued.                                       *)
NodeTypeOK ==
  /\ server \in [life : {"ABSENT", "IDLE", "BOOTSTRAPPING", "DRAINING", "DECOMMISSIONING", "BLOCKED"},
                 manage : {"ENABLED", "MAINTENANCE", "DISABLED"},
                 desired : {"ONLINE", "DECOMMISSIONED"}, action : {"", "JOIN", "DECOMMISSION"}]
  /\ agent \in [conn : {"UNREGISTERED", "ONLINE", "STALE", "OFFLINE"}, cred : 0 .. MaxCreds,
                inst : {"NONE", "THIS", "OTHER"}, able : BOOLEAN, late : BOOLEAN]
  /\ agent.cred # 0 => server.life # "ABSENT"
  /\ command \in {"NONE", "FRESH", "OLD"} /\ cleanup \in BOOLEAN
  /\ run \in [Runs -> {"NONE", "ROUTED", "TAKEN", "STRANDED"}]
  /\ work.step \in {"LOOP", "ASKED", "PREPARED", "LEAVING"}
  /\ futures \subseteq Runs /\ cont \subseteq Runs
  /\ Cardinality(futures) <= Slots
  /\ env <= issued /\ box.cred <= issued

(* Once the platform has removed a node because its Agent confirmed it,    *)
(* Docker will not start that Agent again, whatever got lost in between:   *)
(* the restart policy is switched off before the confirmation is sent      *)
(* (main.py, handle_agent_commands; docker_runner.py,                      *)
(* prepare_agent_decommission).                                            *)
ConfirmedRemoval ==
  confirmed => box.state = "NONE" \/ box.policy = "no"

(* An Agent confirms its removal only when it executes no run, and when no *)
(* task container is up on the host, also none that an earlier process of  *)
(* it has left behind, whatever the rows of the platform say of them.      *)
(* Excepted are the containers it could not see because Docker did not     *)
(* list them: running_platform_run_ids takes that for an idle host, and    *)
(* the removal goes through with a task up.                                *)
ConfirmedHostIsIdle ==
  [][confirmed' /\ ~confirmed => futures = {} /\ (cont = {} \/ work.blind)]_vars

(* An invitation is reported as completed only after the installer has     *)
(* used it, whatever Agent of the node sends heartbeats (the comment in    *)
(* agent_service.py, heartbeat).                                           *)
UnusedTokenNeverCompletes ==
  \A t \in Tokens : token[t].invite = "ACTIVATED" => token[t].status \in {"USED", "GONE"}

Serving == box.state = "UP" /\ Authorised(box.cred)

(* A node that is leaving does leave: without a second request its runs    *)
(* end, the Agent is asked again after every failure, and the records go.  *)
(* Excepted are a node whose Agent is gone, one that was invited anew, and *)
(* one that keeps a run whose routing was cancelled.                       *)
LeavingEnds ==
  server.action = "DECOMMISSION" ~> \/ server.action # "DECOMMISSION"
                                    \/ ~Serving
                                    \/ \E r \in Runs : run[r] = "STRANDED"

(* A node that joins is opened by the first heartbeats of its Agent,       *)
(* unless it is told to leave or its Agent goes.                           *)
JoiningEnds ==
  server.life = "BOOTSTRAPPING" ~> server.life # "BOOTSTRAPPING" \/ ~Serving
=============================================================================
