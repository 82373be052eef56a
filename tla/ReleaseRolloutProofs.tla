-------------------------- MODULE ReleaseRolloutProofs --------------------------
(***************************************************************************)
(* What holds of the rollouts for any nodes, releases and users.           *)
(***************************************************************************)
EXTENDS ReleaseRollout, FiniteSetTheorems, TLAPS

-----------------------------------------------------------------------------
(* Queues                                                                   *)

Distinct(q) == \A i, j \in DOMAIN q : q[i] = q[j] => i = j

\* What is left of a sequence without e is the rest of it, in its order.
LEMMA WithoutIs ==
  ASSUME NEW S, NEW q \in Seq(S), NEW e, Distinct(q)
  PROVE  /\ Without(q, e) \in Seq(S)
         /\ InQueue(Without(q, e)) = InQueue(q) \ {e}
         /\ Distinct(Without(q, e))
         /\ Len(Without(q, e)) <= Len(q)
<1>1. CASE ~\E i \in DOMAIN q : q[i] = e
  BY <1>1 DEF Without, InQueue, Distinct
<1>2. CASE \E i \in DOMAIN q : q[i] = e
  <2> DEFINE k == CHOOSE j \in DOMAIN q : q[j] = e
  <2>1. k \in 1 .. Len(q) /\ q[k] = e
    BY <1>2
  <2> HIDE DEF k
  <2> DEFINE a == SubSeq(q, 1, k - 1)
             b == SubSeq(q, k + 1, Len(q))
             w == a \o b
  <2>2. Without(q, e) = w
    BY <1>2 DEF Without, k
  <2>3. /\ a \in Seq(S) /\ Len(a) = k - 1
        /\ \A i \in 1 .. k - 1 : a[i] = q[i]
    BY <2>1
  <2>4. /\ b \in Seq(S) /\ Len(b) = Len(q) - k
        /\ \A i \in 1 .. Len(q) - k : b[i] = q[k + i]
    BY <2>1
  <2> HIDE DEF a, b
  <2>5. /\ w \in Seq(S) /\ Len(w) = Len(q) - 1
        /\ \A i \in 1 .. Len(q) - 1 : w[i] = IF i < k THEN q[i] ELSE q[i + 1]
    <3>1. w \in Seq(S) /\ Len(w) = Len(q) - 1
      <4>1. Len(w) = (k - 1) + (Len(q) - k)
        <5>1. Len(w) = Len(a) + Len(b)
          BY <2>3, <2>4
        <5> HIDE DEF w
        <5> QED
          BY <5>1, <2>3, <2>4
      <4>2. w \in Seq(S)
        BY <2>3, <2>4
      <4>3. (k - 1) + (Len(q) - k) = Len(q) - 1
        BY <2>1
      <4> QED
        BY <4>1, <4>2, <4>3
    <3>2. ASSUME NEW i \in 1 .. Len(q) - 1
          PROVE  w[i] = IF i < k THEN q[i] ELSE q[i + 1]
      <4>1. CASE i < k
        BY <4>1, <2>1, <2>3, <2>4
      <4>2. CASE i >= k
        <5>1. w[i] = b[i - (k - 1)]
          BY <4>2, <2>1, <2>3, <2>4
        <5>2. i - (k - 1) \in 1 .. Len(q) - k /\ k + (i - (k - 1)) = i + 1
          BY <4>2, <2>1
        <5> QED
          BY <5>1, <5>2, <4>2, <2>1, <2>4
      <4>3. i < k \/ i >= k
        BY <2>1
      <4> QED
        BY <4>1, <4>2, <4>3
    <3> QED
      BY <3>1, <3>2
  <2> HIDE DEF w
  <2>6. Distinct(w)
    <3> SUFFICES ASSUME NEW i \in 1 .. Len(w), NEW j \in 1 .. Len(w), w[i] = w[j]
                 PROVE  i = j
      BY <2>5 DEF Distinct
    <3> DEFINE at(n) == IF n < k THEN n ELSE n + 1
    <3>1. \A n \in 1 .. Len(w) : at(n) \in DOMAIN q /\ w[n] = q[at(n)]
      BY SMTT(30), <2>1, <2>5
    <3>2. at(i) = at(j)
      BY <3>1 DEF Distinct
    <3> QED
      BY <3>2, <2>1, <2>5
  <2>7. InQueue(w) \subseteq InQueue(q) \ {e}
    BY SMTT(30), <2>1, <2>5 DEF InQueue, Distinct
  <2>8. InQueue(q) \ {e} \subseteq InQueue(w)
    <3> SUFFICES ASSUME NEW i \in 1 .. Len(q), q[i] # e
                 PROVE  \E j \in 1 .. Len(w) : w[j] = q[i]
      BY <2>5 DEF InQueue
    <3>1. CASE i < k
      BY <3>1, <2>1, <2>5
    <3>2. CASE i > k
      <4>1. i - 1 \in 1 .. Len(w) /\ w[i - 1] = q[i]
        BY <3>2, <2>1, <2>5
      <4> QED
        BY <4>1
    <3> QED
      BY <3>1, <3>2, <2>1
  <2> QED
    BY <2>1, <2>2, <2>5, <2>6, <2>7, <2>8
<1> QED
  BY <1>1, <1>2

\* A queue takes a command at its end and never grows beyond its limit.
LEMMA EnqueuedIs ==
  ASSUME NEW S, NEW q \in Seq(S), NEW e \in S, Distinct(q)
  PROVE  /\ Enqueued(q, e) \in Seq(S)
         /\ InQueue(Enqueued(q, e)) \subseteq InQueue(q) \union {e}
         /\ e \in InQueue(Enqueued(q, e))
         /\ Distinct(Enqueued(q, e))
         /\ Len(Enqueued(q, e)) <= QueueLimit
<1> DEFINE w == Without(q, e)
           all == Append(w, e)
           cut == IF Len(all) > QueueLimit THEN Len(all) - QueueLimit ELSE 0
           u == SubSeq(all, cut + 1, Len(all))
<1>1. /\ w \in Seq(S) /\ Distinct(w)
      /\ \A i \in 1 .. Len(w) : w[i] # e /\ w[i] \in InQueue(q)
  <2>1. w \in Seq(S) /\ Distinct(w) /\ InQueue(w) = InQueue(q) \ {e}
    BY WithoutIs
  <2> HIDE DEF w
  <2>2. \A i \in 1 .. Len(w) : w[i] \in InQueue(w)
    BY <2>1 DEF InQueue
  <2> QED
    BY <2>1, <2>2
<1> HIDE DEF w
<1>2. /\ all \in Seq(S) /\ Len(all) = Len(w) + 1 /\ all[Len(w) + 1] = e
      /\ \A i \in 1 .. Len(w) : all[i] = w[i]
  BY <1>1
<1> HIDE DEF all
<1>3. /\ cut \in 0 .. Len(w) /\ Len(all) - cut <= QueueLimit
  BY <1>1, <1>2, RolloutAssumption
<1> HIDE DEF cut
<1>4. /\ u \in Seq(S) /\ Len(u) = Len(all) - cut
      /\ \A i \in 1 .. Len(u) : u[i] = all[cut + i] /\ cut + i \in 1 .. Len(w) + 1
  BY <1>1, <1>2, <1>3
<1> HIDE DEF u
<1>5. Enqueued(q, e) = u
  BY DEF Enqueued, u, cut, all, w
<1>6. InQueue(u) \subseteq InQueue(q) \union {e}
  <2> SUFFICES ASSUME NEW i \in 1 .. Len(u)
               PROVE  u[i] \in InQueue(q) \union {e}
    BY <1>4 DEF InQueue
  <2>1. CASE cut + i \in 1 .. Len(w)
    BY <2>1, <1>1, <1>2, <1>4
  <2>2. CASE cut + i = Len(w) + 1
    BY <2>2, <1>2, <1>4
  <2> QED
    BY <2>1, <2>2, <1>1, <1>4
<1>7. e \in InQueue(u)
  <2>1. Len(u) \in 1 .. Len(u) /\ cut + Len(u) = Len(w) + 1
    BY <1>1, <1>2, <1>3, <1>4
  <2>2. u[Len(u)] = e
    BY <2>1, <1>2, <1>4
  <2> QED
    BY <2>1, <2>2, <1>4 DEF InQueue
<1>8. Distinct(u)
  <2>1. ASSUME NEW i \in 1 .. Len(w) + 1, NEW j \in 1 .. Len(w) + 1, all[i] = all[j]
        PROVE  i = j
    <3>1. CASE i \in 1 .. Len(w) /\ j \in 1 .. Len(w)
      BY <3>1, <2>1, <1>1, <1>2 DEF Distinct
    <3>2. CASE i = Len(w) + 1 \/ j = Len(w) + 1
      BY <3>2, <2>1, <1>1, <1>2
    <3> QED
      BY <3>1, <3>2, <1>1
  <2> SUFFICES ASSUME NEW i \in 1 .. Len(u), NEW j \in 1 .. Len(u), u[i] = u[j]
               PROVE  i = j
    BY <1>4 DEF Distinct
  <2>2. cut + i = cut + j
    BY <2>1, <1>4
  <2> QED
    BY <2>2, <1>3
<1> QED
  BY <1>3, <1>4, <1>5, <1>6, <1>7, <1>8

-----------------------------------------------------------------------------
(* Types                                                                    *)

Scheds == PoolChoices \union {"ENABLED", "PAUSED", "RECOVERING", "AUTO_EJECTED", "DISABLED"}
Versions == Releases \union {None}

ProjectRows == [status : {"NONE", "ENABLED", "ARCHIVED"},
                online : OnlineChoices \union {"READY", "ONLINE", "SUSPENDED"}, min : MinChoices]
PoolRows == [dep : {"ABSENT", "PENDING", "DEPLOYED", "FAILED"}, sched : Scheds,
             img : {"UNKNOWN", "READY", "FAILED", "OUTDATED"}, latest : Versions]
TargetRows == [status : {"NONE", "PENDING_AGENT", "DISPATCHED", "DEPLOYED", "FAILED", "READY"},
               desired : Scheds]
Targets == [Servers -> TargetRows]
RolloutRows == [status : {"NONE", "DEPLOYING", "DEPLOYED", "BLOCKED", "FAILED", "DELETED"},
                release : Versions, target : Targets]
DefinitionRows == [disc : {"NONE", "ACTIVE", "REMOVED"},
                   orch : {"PENDING", "ORCHESTRATED", "IGNORED"}, from : Versions]

PublishedTyped == published \in Seq(Releases) /\ Distinct(published)
QueuesTyped(qs) == qs \in [Servers -> Seq(Deployments)] /\ \A s \in Servers : Distinct(qs[s])

PlatformTyped ==
  /\ project \in ProjectRows
  /\ PublishedTyped
  /\ pool \in [Servers -> PoolRows]
  /\ rollout \in [Deployments -> RolloutRows]
  /\ channel \in [Channels -> Versions]
  /\ definition \in [Keys -> DefinitionRows]
  /\ QueuesTyped(queue)

AgentsTyped ==
  /\ expired \in [Servers -> SUBSET Deployments]
  /\ node \in [Servers -> {"UP", "HELD", "DOWN"}]
  /\ inHand \in [Servers -> SUBSET Deployments]
  /\ pulling \in [Servers -> Versions]
  /\ tested \in [Servers -> SUBSET Releases]

RolloutTyped == PlatformTyped /\ AgentsTyped

LEMMA TypedImpliesTypeOK == RolloutTyped => TypeOK
BY DEF RolloutTyped, PlatformTyped, TypeOK, ProjectRows, PoolRows, Scheds, Versions

LEMMA InitTyped == Init => RolloutTyped
<1> SUFFICES ASSUME Init PROVE RolloutTyped
  OBVIOUS
<1> USE DEF Init
<1>1. NoProject \in ProjectRows /\ NoRow \in PoolRows /\ NoDefinition \in DefinitionRows
  BY RolloutAssumption DEF NoProject, NoRow, NoDefinition, ProjectRows, PoolRows,
       DefinitionRows, Scheds, Versions
<1>2. NoRollout \in RolloutRows
  <2>1. NoTarget \in TargetRows
    BY DEF NoTarget, TargetRows, Scheds
  <2> QED
    BY <2>1 DEF NoRollout, RolloutRows, Targets, Versions
<1>3. PublishedTyped /\ QueuesTyped(queue)
  BY DEF PublishedTyped, QueuesTyped, Distinct
<1>4. channel \in [Channels -> Versions]
  BY DEF Versions
<1>5. PlatformTyped
  BY <1>1, <1>2, <1>3, <1>4 DEF PlatformTyped
<1>6. AgentsTyped
  BY DEF AgentsTyped, Versions
<1> QED
  BY <1>5, <1>6 DEF RolloutTyped

LEMMA DispatchedTyped ==
  ASSUME NEW t \in Targets
  PROVE  Dispatched(t) \in Targets
<1> SUFFICES ASSUME NEW s \in Servers
             PROVE  [t[s] EXCEPT !.status = "DISPATCHED"] \in TargetRows /\ t[s] \in TargetRows
  BY DEF Dispatched, Targets
<1> QED
  BY DEF Targets, TargetRows

LEMMA QueuesAfterTyped ==
  ASSUME NEW qs, QueuesTyped(qs), NEW t, NEW d \in Deployments
  PROVE  /\ QueuesTyped(QueuesAfter(qs, t, d))
         /\ \A s \in Servers : InQueue(QueuesAfter(qs, t, d)[s])
              \subseteq InQueue(qs[s]) \union (IF s \in Chosen(t) THEN {d} ELSE {})
<1>1. ASSUME NEW s \in Servers
      PROVE  /\ Enqueued(qs[s], d) \in Seq(Deployments) /\ Distinct(Enqueued(qs[s], d))
             /\ InQueue(Enqueued(qs[s], d)) \subseteq InQueue(qs[s]) \union {d}
  BY EnqueuedIs DEF QueuesTyped
<1> QED
  BY <1>1 DEF QueuesTyped, QueuesAfter

LEMMA NewTargetsTyped ==
  ASSUME PlatformTyped, NEW S
  PROVE  NewTargets(S) \in Targets
<1> SUFFICES ASSUME NEW s \in Servers
             PROVE  /\ [status |-> "PENDING_AGENT", desired |-> Desired(pool[s])] \in TargetRows
                    /\ NoTarget \in TargetRows
  BY DEF NewTargets, Targets
<1>1. pool[s].sched \in Scheds
  BY DEF PlatformTyped, PoolRows
<1>2. Desired(pool[s]) \in Scheds
  BY <1>1 DEF Desired, Scheds
<1> QED
  BY <1>2 DEF TargetRows, NoTarget, Scheds

-----------------------------------------------------------------------------
(* The handlers keep the types                                              *)

LEMMA RegisterTyped ==
  ASSUME RolloutTyped, NEW r \in Releases, Register(r)
  PROVE  RolloutTyped'
<1> USE DEF Register, agents
<1>1. /\ Without(published, r) \in Seq(Releases) /\ Distinct(Without(published, r))
      /\ InQueue(Without(published, r)) = InQueue(published) \ {r}
  BY WithoutIs DEF RolloutTyped, PlatformTyped, PublishedTyped
<1> DEFINE w == Without(published, r)
<1> HIDE DEF w
<1>2. /\ w \in Seq(Releases) /\ Distinct(w) /\ r \notin InQueue(w) /\ published' = Append(w, r)
  BY <1>1 DEF w
<1>3. \A i \in 1 .. Len(w) : w[i] # r
  BY <1>2 DEF InQueue
<1>4. PublishedTyped'
  BY <1>2, <1>3 DEF PublishedTyped, Distinct
<1> QED
  BY <1>4 DEF RolloutTyped, PlatformTyped, AgentsTyped, QueuesTyped

LEMMA ImportTyped == RolloutTyped /\ Import => RolloutTyped'
<1> SUFFICES ASSUME RolloutTyped, Import PROVE RolloutTyped'
  OBVIOUS
<1>1. Imported \in ProjectRows
  BY RolloutAssumption DEF Imported, NoProject, ProjectRows
<1> QED
  BY <1>1 DEF Import, agents, RolloutTyped, PlatformTyped, AgentsTyped, PublishedTyped, QueuesTyped

\* What the rollout of a release puts in the rows, whoever asks for it.
LEMMA RolledOutTyped ==
  ASSUME PlatformTyped, NEW d \in Deployments, NEW r \in Releases, NEW S
  PROVE  /\ [rollout EXCEPT ![d] = [status |-> "DEPLOYING", release |-> r,
                                    target |-> Dispatched(NewTargets(S))]]
              \in [Deployments -> RolloutRows]
         /\ QueuesTyped(QueuesAfter(queue, NewTargets(S), d))
         /\ NewRow \in PoolRows
<1>1. Dispatched(NewTargets(S)) \in Targets
  BY NewTargetsTyped, DispatchedTyped
<1>2. [status |-> "DEPLOYING", release |-> r, target |-> Dispatched(NewTargets(S))]
        \in RolloutRows
  BY <1>1 DEF RolloutRows, Versions
<1>3. QueuesTyped(QueuesAfter(queue, NewTargets(S), d))
  BY QueuesAfterTyped DEF PlatformTyped
<1>4. NewRow \in PoolRows
  BY DEF NewRow, NoRow, PoolRows, Scheds, Versions
<1> QED
  BY <1>2, <1>3, <1>4 DEF PlatformTyped

LEMMA DeployTyped ==
  ASSUME RolloutTyped, NEW d \in Deployments, NEW r \in Releases, NEW S, Deploy(d, r, S)
  PROVE  RolloutTyped'
<1>1. PlatformTyped /\ AgentsTyped
  BY DEF RolloutTyped
<1>2. /\ rollout' \in [Deployments -> RolloutRows] /\ QueuesTyped(queue') /\ NewRow \in PoolRows
  BY <1>1, RolledOutTyped DEF Deploy
<1>3. pool' \in [Servers -> PoolRows]
  BY <1>1, <1>2 DEF Deploy, PlatformTyped
<1>4. PlatformTyped'
  BY <1>1, <1>2, <1>3 DEF Deploy, PlatformTyped, PublishedTyped, QueuesTyped
<1> QED
  BY <1>1, <1>4 DEF Deploy, agents, RolloutTyped, AgentsTyped

LEMMA LatestIsRelease ==
  ASSUME PlatformTyped, published # << >>
  PROVE  Latest \in Releases /\ IsPublished(Latest)
BY DEF PlatformTyped, PublishedTyped, Latest, IsPublished

LEMMA PublishTyped ==
  ASSUME RolloutTyped, NEW d \in Deployments, NEW S, Publish(d, S)
  PROVE  RolloutTyped'
<1>1. PlatformTyped /\ AgentsTyped /\ Latest \in Releases
  BY LatestIsRelease DEF RolloutTyped, Publish
<1>2. CASE project.status = "NONE"
  <2>1. /\ rollout' \in [Deployments -> RolloutRows] /\ QueuesTyped(queue') /\ NewRow \in PoolRows
    <3>1. /\ rollout' = [rollout EXCEPT ![d] = [status |-> "DEPLOYING", release |-> Latest,
                                                target |-> Dispatched(NewTargets(S))]]
          /\ queue' = QueuesAfter(queue, NewTargets(S), d)
      BY <1>2 DEF Publish
    <3> QED
      BY <1>1, <3>1, RolledOutTyped
  <2>2. Imported \in ProjectRows
    BY RolloutAssumption DEF Imported, NoProject, ProjectRows
  <2>3. PlatformTyped'
    BY <1>1, <1>2, <2>1, <2>2 DEF Publish, PlatformTyped, PublishedTyped, QueuesTyped
  <2> QED
    BY <1>1, <1>2, <2>3 DEF Publish, agents, RolloutTyped, AgentsTyped
<1>3. CASE project.status # "NONE"
  BY <1>1, <1>3, DeployTyped DEF Publish
<1> QED
  BY <1>2, <1>3

LEMMA EditsTyped == RolloutTyped /\ Edit => RolloutTyped'
<1> SUFFICES ASSUME RolloutTyped, Edit PROVE RolloutTyped'
  OBVIOUS
<1> USE DEF RolloutTyped, agents
<1>1. ASSUME NEW online \in OnlineChoices, NEW min \in MinChoices, UpdateProject(online, min)
      PROVE  RolloutTyped'
  <2>1. project' \in ProjectRows
    BY <1>1 DEF UpdateProject, PlatformTyped, ProjectRows
  <2> QED
    BY <1>1, <2>1 DEF UpdateProject, PlatformTyped, PublishedTyped, QueuesTyped, AgentsTyped
<1>2. ASSUME NEW S \in TargetChoices, NEW sched \in PoolChoices, UpdateServerPool(S, sched)
      PROVE  RolloutTyped'
  <2>1. ASSUME NEW s \in Servers
        PROVE  [(IF pool[s].dep = "ABSENT" THEN NewRow ELSE pool[s]) EXCEPT !.sched = sched]
                 \in PoolRows
    <3>1. NewRow \in PoolRows /\ pool[s] \in PoolRows /\ sched \in Scheds
      BY DEF NewRow, NoRow, PoolRows, Scheds, Versions, PlatformTyped
    <3> QED
      BY <3>1 DEF PoolRows
  <2>2. pool' \in [Servers -> PoolRows]
    BY <1>2, <2>1 DEF UpdateServerPool, PlatformTyped
  <2> QED
    BY <1>2, <2>2 DEF UpdateServerPool, PlatformTyped, PublishedTyped, QueuesTyped, AgentsTyped
<1>3. CASE ArchiveProject
  <2>1. project' \in ProjectRows
    BY <1>3 DEF ArchiveProject, PlatformTyped, ProjectRows
  <2>2. ASSUME NEW s \in Servers
        PROVE  [pool[s] EXCEPT !.sched = "DISABLED"] \in PoolRows /\ pool[s] \in PoolRows
    BY DEF PlatformTyped, PoolRows, Scheds
  <2>3. pool' \in [Servers -> PoolRows]
    BY <1>3, <2>2 DEF ArchiveProject
  <2> QED
    BY <1>3, <2>1, <2>3 DEF ArchiveProject, PlatformTyped, PublishedTyped, QueuesTyped, AgentsTyped
<1>4. CASE RemoveProject
  <2>1. NoProject \in ProjectRows /\ NoRow \in PoolRows /\ NoDefinition \in DefinitionRows
    BY RolloutAssumption DEF NoProject, NoRow, NoDefinition, ProjectRows, PoolRows,
         DefinitionRows, Scheds, Versions
  <2>2. [NoRollout EXCEPT !.status = "DELETED"] \in RolloutRows
    <3>1. NoTarget \in TargetRows
      BY DEF NoTarget, TargetRows, Scheds
    <3> QED
      BY <3>1 DEF NoRollout, RolloutRows, Targets, Versions
  <2>3. rollout' \in [Deployments -> RolloutRows]
    BY <1>4, <2>2 DEF RemoveProject, RemovedRollouts, PlatformTyped
  <2>4. PublishedTyped' /\ channel' \in [Channels -> Versions]
    BY <1>4 DEF RemoveProject, PublishedTyped, Distinct, Versions
  <2> QED
    BY <1>4, <2>1, <2>3, <2>4 DEF RemoveProject, PlatformTyped, QueuesTyped, AgentsTyped
<1> QED
  BY <1>1, <1>2, <1>3, <1>4 DEF Edit

\* The targets of a rollout after the answer of a node.
AnsweredTargets(s, d, ok) ==
  [rollout[d].target EXCEPT ![s].status = IF ok THEN "DEPLOYED" ELSE "FAILED"]

LEMMA AnsweredTyped ==
  ASSUME PlatformTyped, NEW s \in Servers, NEW d \in Deployments, NEW ok
  PROVE  /\ AnsweredTargets(s, d, ok) \in Targets
         /\ \A p \in Servers : AnsweredTargets(s, d, ok)[p].status =
              IF p = s THEN (IF ok THEN "DEPLOYED" ELSE "FAILED")
              ELSE rollout[d].target[p].status
<1>1. rollout[d].target \in Targets
  BY DEF PlatformTyped, RolloutRows
<1>2. \A x \in TargetRows : [x EXCEPT !.status = IF ok THEN "DEPLOYED" ELSE "FAILED"]
                              \in TargetRows
  BY DEF TargetRows
<1>3. AnsweredTargets(s, d, ok) \in Targets
  BY <1>1, <1>2 DEF AnsweredTargets, Targets
<1> QED
  BY <1>1, <1>3 DEF AnsweredTargets, Targets, TargetRows

LEMMA OutcomeTyped ==
  ASSUME NEW t
  PROVE  Outcome(t) \in {"DEPLOYED", "BLOCKED", "FAILED", "DEPLOYING"}
BY DEF Outcome

LEMMA AppliedTyped ==
  ASSUME PlatformTyped, NEW s \in Servers, NEW d \in Deployments, NEW ok \in BOOLEAN,
         Applied(s, d, ok)
  PROVE  PlatformTyped'
<1> DEFINE r == rollout[d].release
           t == AnsweredTargets(s, d, ok)
           after == Dispatched(t)
           outcome == Outcome(after)
           failedFirst == ~ok /\ pool[s].dep # "ABSENT" /\ pool[s].latest = None
           failed == [NoRow EXCEPT !.dep = "FAILED", !.img = "FAILED"]
           rows == IF failedFirst THEN [pool EXCEPT ![s] = failed] ELSE pool
<1>1. /\ rollout' = [rollout EXCEPT ![d].target = after, ![d].status = outcome]
      /\ queue' = QueuesAfter([queue EXCEPT ![s] = Acknowledged(queue[s], d)], t, d)
      /\ IF outcome = "DEPLOYED"
         THEN /\ pool' = Promoted(rows, r, after)
              /\ channel' = [channel EXCEPT ![ChannelOf[r]] = r]
              /\ definition' = Synced(r)
              /\ project' = Brought(project)
         ELSE /\ pool' = rows
              /\ project' = IF outcome = "BLOCKED" THEN Refreshed ELSE project
              /\ UNCHANGED <<channel, definition>>
      /\ published' = published
  BY DEF Applied, AnsweredTargets
<1>2. t \in Targets
  BY AnsweredTyped
<1>3. after \in Targets
  BY <1>2, DispatchedTyped
<1>4. outcome \in {"DEPLOYED", "BLOCKED", "FAILED", "DEPLOYING"}
  BY OutcomeTyped
<1>5. r \in Versions
  BY DEF PlatformTyped, RolloutRows
<1> HIDE DEF r, t, after, outcome, failedFirst, failed
<1>6. rollout' \in [Deployments -> RolloutRows]
  <2>1. [rollout[d] EXCEPT !.target = after, !.status = outcome] \in RolloutRows
    BY <1>3, <1>4 DEF PlatformTyped, RolloutRows
  <2>2. rollout' = [rollout EXCEPT ![d] = [rollout[d] EXCEPT !.target = after, !.status = outcome]]
    BY <1>1 DEF PlatformTyped, RolloutRows
  <2> QED
    BY <2>1, <2>2 DEF PlatformTyped
<1>7. QueuesTyped(queue')
  <2>1. QueuesTyped([queue EXCEPT ![s] = Acknowledged(queue[s], d)])
    BY WithoutIs DEF PlatformTyped, QueuesTyped, Acknowledged
  <2> QED
    BY <1>1, <2>1, QueuesAfterTyped
<1>8. rows \in [Servers -> PoolRows]
  <2>1. failed \in PoolRows
    BY DEF failed, NoRow, PoolRows, Scheds, Versions
  <2> QED
    BY <2>1 DEF PlatformTyped
<1> HIDE DEF rows
<1>9. Promoted(rows, r, after) \in [Servers -> PoolRows]
  <2> SUFFICES ASSUME NEW p \in Servers
               PROVE  /\ rows[p] \in PoolRows
                      /\ [dep |-> "DEPLOYED", sched |-> after[p].desired, img |-> "READY",
                          latest |-> r] \in PoolRows
                      /\ [rows[p] EXCEPT !.img = "OUTDATED"] \in PoolRows
    BY DEF Promoted
  <2>1. after[p].desired \in Scheds
    BY <1>3 DEF Targets, TargetRows
  <2> QED
    BY <1>5, <1>8, <2>1 DEF PoolRows
<1>10. [channel EXCEPT ![ChannelOf[r]] = r] \in [Channels -> Versions]
  BY <1>5 DEF PlatformTyped
<1>11. Synced(r) \in [Keys -> DefinitionRows]
  <2> SUFFICES ASSUME NEW k \in Keys
               PROVE  /\ [definition[k] EXCEPT !.disc = "ACTIVE", !.from = r] \in DefinitionRows
                      /\ [definition[k] EXCEPT !.disc = "REMOVED"] \in DefinitionRows
                      /\ definition[k] \in DefinitionRows
    BY DEF Synced
  <2> QED
    BY <1>5 DEF PlatformTyped, DefinitionRows
<1>12. Brought(project) \in ProjectRows /\ Refreshed \in ProjectRows
  BY DEF Brought, Refreshed, PlatformTyped, ProjectRows
<1>13. project' \in ProjectRows /\ pool' \in [Servers -> PoolRows]
  BY <1>1, <1>8, <1>9, <1>12 DEF PlatformTyped
<1>14. channel' \in [Channels -> Versions] /\ definition' \in [Keys -> DefinitionRows]
  BY <1>1, <1>10, <1>11 DEF PlatformTyped
<1>15. PublishedTyped'
  BY <1>1 DEF PlatformTyped, PublishedTyped
<1> QED
  BY <1>6, <1>7, <1>13, <1>14, <1>15 DEF PlatformTyped, QueuesTyped

LEMMA AnswerTyped ==
  ASSUME PlatformTyped, NEW s \in Servers, NEW d \in Deployments, NEW ok \in BOOLEAN,
         Answer(s, d, ok)
  PROVE  PlatformTyped'
<1>1. CASE d \notin InQueue(queue[s])
  BY <1>1 DEF Answer, platform, PlatformTyped, PublishedTyped, QueuesTyped
<1>2. CASE d \in InQueue(queue[s]) /\ rollout[d].status = "DELETED"
  <2>1. QueuesTyped(queue')
    <3>1. QueuesTyped([queue EXCEPT ![s] = Acknowledged(queue[s], d)])
      BY WithoutIs DEF PlatformTyped, QueuesTyped, Acknowledged
    <3> QED
      BY <1>2, <3>1 DEF Answer
  <2> QED
    BY <1>2, <2>1 DEF Answer, PlatformTyped, PublishedTyped, QueuesTyped
<1>3. CASE d \in InQueue(queue[s]) /\ rollout[d].status # "DELETED"
  BY <1>3, AppliedTyped DEF Answer
<1> QED
  BY <1>1, <1>2, <1>3

LEMMA PulledTyped ==
  ASSUME PlatformTyped, NEW s \in Servers, NEW r, NEW verdict \in {"READY", "FAILED"},
         Pulled(s, r, verdict)
  PROVE  PlatformTyped'
<1>1. CASE pool[s].dep = "ABSENT" \/ pool[s].latest \notin {None, r}
  BY <1>1 DEF Pulled, platform, PlatformTyped, PublishedTyped, QueuesTyped
<1>2. CASE ~(pool[s].dep = "ABSENT" \/ pool[s].latest \notin {None, r})
  <2>1. [pool[s] EXCEPT !.img = verdict] \in PoolRows
    BY DEF PlatformTyped, PoolRows
  <2>2. pool' \in [Servers -> PoolRows]
    BY <1>2, <2>1 DEF Pulled, PlatformTyped
  <2>3. ASSUME NEW d \in Deployments
        PROVE  [rollout[d] EXCEPT !.target[s].status = verdict] \in RolloutRows
    <3>1. rollout[d] \in RolloutRows /\ rollout[d].target \in [Servers -> TargetRows]
      BY DEF PlatformTyped, RolloutRows, Targets
    <3>2. [rollout[d].target[s] EXCEPT !.status = verdict] \in TargetRows
      BY <3>1 DEF TargetRows
    <3>3. [rollout[d].target EXCEPT ![s].status = verdict] \in Targets
      BY <3>1, <3>2 DEF Targets
    <3> QED
      BY <3>1, <3>3 DEF RolloutRows
  <2>4. rollout' \in [Deployments -> RolloutRows]
    BY <1>2, <2>3 DEF Pulled, PlatformTyped
  <2> QED
    BY <1>2, <2>2, <2>4 DEF Pulled, PlatformTyped, PublishedTyped, QueuesTyped
<1> QED
  BY <1>1, <1>2

LEMMA HeartbeatTyped ==
  ASSUME RolloutTyped, NEW s \in Servers, NEW health, Heartbeat(s, health)
  PROVE  RolloutTyped'
<1>1. PlatformTyped /\ AgentsTyped
  BY DEF RolloutTyped
<1>2. Rescheduled(pool[s], health) \in PoolRows
  <2>1. pool[s] \in PoolRows
    BY <1>1 DEF PlatformTyped
  <2>2. /\ [pool[s] EXCEPT !.sched = "AUTO_EJECTED"] \in PoolRows
        /\ [pool[s] EXCEPT !.sched = "RECOVERING"] \in PoolRows
        /\ [pool[s] EXCEPT !.sched = "ENABLED"] \in PoolRows
    BY <2>1 DEF PoolRows, Scheds
  <2> QED
    BY <2>1, <2>2 DEF Rescheduled
<1>3. PlatformTyped'
  BY <1>1, <1>2 DEF Heartbeat, PlatformTyped, PublishedTyped, QueuesTyped
<1>4. PendingCommands(s) \subseteq Deployments
  <2>1. queue[s] \in Seq(Deployments)
    BY <1>1 DEF PlatformTyped, QueuesTyped
  <2> QED
    BY <2>1 DEF PendingCommands, InQueue
<1>5. inHand' \in [Servers -> SUBSET Deployments]
  BY <1>1, <1>4 DEF Heartbeat, AgentsTyped
<1>6. pulling' \in [Servers -> Versions]
  <2>1. pool[s].latest \in Versions
    BY <1>1 DEF PlatformTyped, PoolRows
  <2> QED
    BY <1>1, <2>1 DEF Heartbeat, AgentsTyped
<1>7. AgentsTyped'
  BY <1>1, <1>5, <1>6 DEF Heartbeat, AgentsTyped
<1> QED
  BY <1>3, <1>7 DEF RolloutTyped

LEMMA PrepareTyped ==
  ASSUME RolloutTyped, NEW s \in Servers, NEW d \in Deployments,
         Prepare(s, d) \/ PrepareUnheard(s, d)
  PROVE  RolloutTyped'
<1>1. PlatformTyped /\ AgentsTyped
  BY DEF RolloutTyped
<1>2. CASE Prepare(s, d)
  <2>1. PlatformTyped'
    BY <1>1, <1>2, AnswerTyped DEF Prepare
  <2>2. Tests(s, d) \in [Servers -> SUBSET Releases]
    <3>1. rollout[d].release \in Versions
      BY <1>1 DEF PlatformTyped, RolloutRows
    <3> QED
      BY <1>1, <3>1 DEF Tests, AgentsTyped, Versions
  <2>3. AgentsTyped'
    BY <1>1, <1>2, <2>2 DEF Prepare, AgentsTyped
  <2> QED
    BY <2>1, <2>3 DEF RolloutTyped
<1>3. CASE PrepareUnheard(s, d)
  BY <1>1, <1>3 DEF PrepareUnheard, platform, RolloutTyped, PlatformTyped, PublishedTyped,
       QueuesTyped, AgentsTyped
<1> QED
  BY <1>2, <1>3

LEMMA PrewarmTyped ==
  ASSUME RolloutTyped, NEW s \in Servers, Prewarm(s)
  PROVE  RolloutTyped'
<1>1. PlatformTyped /\ AgentsTyped
  BY DEF RolloutTyped
<1>2. PlatformTyped'
  <2>1. CASE UNCHANGED platform
    BY <1>1, <2>1 DEF platform, PlatformTyped, PublishedTyped, QueuesTyped
  <2>2. CASE \E verdict \in {"READY", "FAILED"} : Pulled(s, pulling[s], verdict)
    BY <1>1, <2>2, PulledTyped
  <2> QED
    BY <2>1, <2>2 DEF Prewarm
<1>3. AgentsTyped'
  BY <1>1 DEF Prewarm, AgentsTyped, Versions
<1> QED
  BY <1>2, <1>3 DEF RolloutTyped

\* What touches no row of the platform: restarts, outages, commands that age.
LEMMA OutsideTyped ==
  ASSUME RolloutTyped, NEW s \in Servers,
         \/ AgentRestart(s)
         \/ \E mode \in NodeModes : SetNode(s, mode)
         \/ \E d \in Deployments : Expire(s, d)
  PROVE  RolloutTyped'
<1>1. PlatformTyped /\ AgentsTyped
  BY DEF RolloutTyped
<1>2. UNCHANGED platform
  BY DEF AgentRestart, SetNode, Expire
<1>3. PlatformTyped'
  BY <1>1, <1>2 DEF platform, PlatformTyped, PublishedTyped, QueuesTyped
<1>4. AgentsTyped'
  <2>1. CASE AgentRestart(s)
    BY <1>1, <2>1 DEF AgentRestart, AgentsTyped, Versions
  <2>2. ASSUME NEW mode \in NodeModes, SetNode(s, mode)
        PROVE  AgentsTyped'
    BY <1>1, <2>2, RolloutAssumption DEF SetNode, AgentsTyped
  <2>3. ASSUME NEW d \in Deployments, Expire(s, d)
        PROVE  AgentsTyped'
    BY <1>1, <2>3 DEF Expire, AgentsTyped
  <2> QED
    BY <2>1, <2>2, <2>3
<1> QED
  BY <1>3, <1>4 DEF RolloutTyped

\* The steps of the system, without the count of the upsets.
ReleaseStep ==
  \/ Rollout \/ Edit
  \/ \E s \in Servers : AgentStep(s) \/ Failure(s)

LEMMA StepTyped == RolloutTyped /\ ReleaseStep => RolloutTyped'
<1> SUFFICES ASSUME RolloutTyped, ReleaseStep PROVE RolloutTyped'
  OBVIOUS
<1>1. CASE Rollout
  BY <1>1, RegisterTyped, ImportTyped, DeployTyped, PublishTyped DEF Rollout
<1>2. CASE Edit
  BY <1>2, EditsTyped
<1>3. ASSUME NEW s \in Servers, AgentStep(s) PROVE RolloutTyped'
  BY <1>3, HeartbeatTyped, PrepareTyped, PrewarmTyped, OutsideTyped DEF AgentStep
<1>4. ASSUME NEW s \in Servers, Failure(s) PROVE RolloutTyped'
  BY <1>4, HeartbeatTyped, OutsideTyped DEF Failure
<1> QED
  BY <1>1, <1>2, <1>3, <1>4 DEF ReleaseStep

LEMMA NextIsReleaseStep == [Next]_vars => ReleaseStep \/ UNCHANGED vars
BY DEF Next, ReleaseStep

LEMMA StutterTyped == RolloutTyped /\ UNCHANGED <<platform, agents>> => RolloutTyped'
BY DEF platform, agents, RolloutTyped, PlatformTyped, AgentsTyped, PublishedTyped, QueuesTyped

-----------------------------------------------------------------------------
(* What runs has been tested                                                *)

\* A target that has answered well was prepared on its node, and the test is
\* never forgotten: that is what makes RunningReleaseIsTested inductive, for the
\* release reaches the pool much later, when the last target answers.
DeployedIsTested ==
  \A d \in Deployments, s \in Servers :
    rollout[d].target[s].status = "DEPLOYED"
      => rollout[d].release \in tested[s] \union {None}

TestedInv == DeployedIsTested /\ RunningReleaseIsTested

LEMMA InitTested == Init => TestedInv
BY DEF Init, TestedInv, DeployedIsTested, RunningReleaseIsTested, NoRollout, NoTarget, NoRow

\* No target is deployed before a node has answered.
LEMMA FreshTargets ==
  ASSUME NEW S, NEW s \in Servers
  PROVE  Dispatched(NewTargets(S))[s].status # "DEPLOYED"
<1>1. NewTargets(S)[s].status \in {"PENDING_AGENT", "NONE"}
  BY DEF NewTargets, NoTarget
<1>2. Dispatched(NewTargets(S))[s].status \in {NewTargets(S)[s].status, "DISPATCHED"}
  <2>1. NewTargets(S)[s] = [status |-> NewTargets(S)[s].status,
                            desired |-> NewTargets(S)[s].desired]
    BY DEF NewTargets, NoTarget
  <2> QED
    BY <2>1 DEF Dispatched
<1> QED
  BY <1>1, <1>2

LEMMA DeployTested ==
  ASSUME RolloutTyped, TestedInv, NEW d \in Deployments, NEW r, NEW S,
         rollout' = [rollout EXCEPT ![d] = [status |-> "DEPLOYING", release |-> r,
                                            target |-> Dispatched(NewTargets(S))]],
         \A s \in Servers : pool'[s].latest \in {pool[s].latest, None},
         tested' = tested
  PROVE  TestedInv'
<1>1. RunningReleaseIsTested'
  BY DEF TestedInv, RunningReleaseIsTested
<1>2. ASSUME NEW e \in Deployments, NEW s \in Servers,
             rollout'[e].target[s].status = "DEPLOYED"
      PROVE  rollout'[e].release \in tested'[s] \union {None}
  <2>1. e # d
    BY <1>2, FreshTargets DEF RolloutTyped, PlatformTyped
  <2>2. rollout'[e] = rollout[e]
    BY <2>1 DEF RolloutTyped, PlatformTyped
  <2> QED
    BY <1>2, <2>2 DEF TestedInv, DeployedIsTested
<1> QED
  BY <1>1, <1>2 DEF TestedInv, DeployedIsTested

LEMMA DispatchKeepsDeployed ==
  ASSUME NEW t \in Targets, NEW s \in Servers
  PROVE  Dispatched(t)[s].status = "DEPLOYED" <=> t[s].status = "DEPLOYED"
BY DEF Dispatched, Chosen, Targets, TargetRows

\* The answer of one node, and the activation it may bring about.
LEMMA AppliedTested ==
  ASSUME RolloutTyped, TestedInv, NEW s \in Servers, NEW d \in Deployments, NEW ok \in BOOLEAN,
         Applied(s, d, ok),
         \A p \in Servers : tested[p] \subseteq tested'[p],
         ok => rollout[d].release \in tested'[s] \union {None}
  PROVE  TestedInv'
<1> DEFINE r == rollout[d].release
           t == AnsweredTargets(s, d, ok)
           after == Dispatched(t)
<1>1. PlatformTyped /\ t \in Targets
  BY AnsweredTyped DEF RolloutTyped
<1>2. rollout' = [rollout EXCEPT ![d].target = after, ![d].status = Outcome(after)]
  BY DEF Applied, AnsweredTargets
<1>3. /\ rollout'[d].release = r /\ rollout'[d].target = after
      /\ \A e \in Deployments \ {d} : rollout'[e] = rollout[e]
  BY <1>1, <1>2 DEF PlatformTyped, RolloutRows
<1>4. ASSUME NEW p \in Servers, after[p].status = "DEPLOYED"
      PROVE  r \in tested'[p] \union {None}
  <2>1. t[p].status = "DEPLOYED"
    BY <1>1, <1>4, DispatchKeepsDeployed
  <2>2. CASE p = s
    BY <1>1, <2>1, <2>2, AnsweredTyped
  <2>3. CASE p # s
    <3>1. rollout[d].target[p].status = "DEPLOYED"
      BY <1>1, <2>1, <2>3, AnsweredTyped
    <3> QED
      BY <3>1 DEF TestedInv, DeployedIsTested
  <2> QED
    BY <2>2, <2>3
<1>5. DeployedIsTested'
  <2> SUFFICES ASSUME NEW e \in Deployments, NEW p \in Servers,
                      rollout'[e].target[p].status = "DEPLOYED"
               PROVE  rollout'[e].release \in tested'[p] \union {None}
    BY DEF DeployedIsTested
  <2>1. CASE e = d
    BY <2>1, <1>3, <1>4
  <2>2. CASE e # d
    BY <2>2, <1>3 DEF TestedInv, DeployedIsTested
  <2> QED
    BY <2>1, <2>2
<1>6. RunningReleaseIsTested'
  <2> SUFFICES ASSUME NEW p \in Servers, pool'[p].latest # None
               PROVE  pool'[p].latest \in tested'[p]
    BY DEF RunningReleaseIsTested
  <2> DEFINE failedFirst == ~ok /\ pool[s].dep # "ABSENT" /\ pool[s].latest = None
             failed == [NoRow EXCEPT !.dep = "FAILED", !.img = "FAILED"]
             rows == IF failedFirst THEN [pool EXCEPT ![s] = failed] ELSE pool
  <2>1. pool' = IF Outcome(after) = "DEPLOYED" THEN Promoted(rows, r, after) ELSE rows
    BY DEF Applied, AnsweredTargets
  <2>2. rows[p].latest \in {pool[p].latest, None}
    BY <1>1 DEF PlatformTyped, NoRow
  <2>3. rows[p].latest # None => rows[p].latest \in tested'[p]
    BY <2>2 DEF TestedInv, RunningReleaseIsTested
  <2>4. CASE pool'[p].latest = rows[p].latest
    BY <2>3, <2>4
  <2>5. CASE pool'[p].latest # rows[p].latest
    <3> HIDE DEF t, after, rows, r
    <3>1. /\ Outcome(after) = "DEPLOYED" /\ p \in TargetsOf(after) /\ pool'[p].latest = r
      <4>1. Outcome(after) = "DEPLOYED"
        BY <2>1, <2>5
      <4>2. rows[p] \in PoolRows
        BY <1>1 DEF PlatformTyped, PoolRows, NoRow, Scheds, Versions, rows
      <4>3. [rows[p] EXCEPT !.img = "OUTDATED"].latest = rows[p].latest
        BY <4>2 DEF PoolRows
      <4> QED
        BY <2>1, <2>5, <4>1, <4>3 DEF Promoted
    <3>2. after[p].status = "DEPLOYED"
      <4>1. Statuses(after) = {"DEPLOYED"}
        BY <3>1 DEF Outcome
      <4> QED
        BY <3>1, <4>1 DEF Statuses
    <3>3. r \in tested'[p] \union {None}
      BY <1>4, <3>2 DEF t, after, r
    <3> QED
      BY <3>1, <3>3
  <2> QED
    BY <2>4, <2>5
<1> QED
  BY <1>5, <1>6 DEF TestedInv

\* Steps that neither deploy, nor move a node, nor forget a test.
LEMMA KeepsTested ==
  ASSUME RolloutTyped, TestedInv,
         \A s \in Servers : /\ tested[s] \subseteq tested'[s]
                            /\ pool'[s].latest \in {pool[s].latest, None},
         \A d \in Deployments, s \in Servers :
           rollout'[d].target[s].status = "DEPLOYED"
             => /\ rollout[d].target[s].status = "DEPLOYED"
                /\ rollout'[d].release = rollout[d].release
  PROVE  TestedInv'
BY DEF TestedInv, DeployedIsTested, RunningReleaseIsTested

LEMMA AnswerTested ==
  ASSUME RolloutTyped, TestedInv, NEW s \in Servers, NEW d \in Deployments, NEW ok \in BOOLEAN,
         Answer(s, d, ok),
         \A p \in Servers : tested[p] \subseteq tested'[p],
         ok => rollout[d].release \in tested'[s] \union {None}
  PROVE  TestedInv'
<1>1. CASE UNCHANGED <<pool, rollout>>
  BY <1>1, KeepsTested
<1>2. CASE Applied(s, d, ok)
  BY <1>2, AppliedTested
<1> QED
  BY <1>1, <1>2 DEF Answer, platform

LEMMA PulledTested ==
  ASSUME RolloutTyped, TestedInv, NEW s \in Servers, NEW r, NEW verdict \in {"READY", "FAILED"},
         Pulled(s, r, verdict), tested' = tested
  PROVE  TestedInv'
<1>1. CASE UNCHANGED platform
  BY <1>1, KeepsTested DEF platform
<1>2. CASE ~UNCHANGED platform
  <2>1. /\ pool' = [pool EXCEPT ![s].img = verdict]
        /\ rollout' = [d \in Deployments |->
                         IF rollout[d].release = pool[s].latest /\ rollout[d].target[s].status # "NONE"
                         THEN [rollout[d] EXCEPT !.target[s].status = verdict]
                         ELSE rollout[d]]
    BY <1>2 DEF Pulled
  <2>2. \A p \in Servers : pool'[p].latest = pool[p].latest
    BY <2>1 DEF RolloutTyped, PlatformTyped, PoolRows
  <2>3. ASSUME NEW d \in Deployments, NEW p \in Servers,
               rollout'[d].target[p].status = "DEPLOYED"
        PROVE  /\ rollout[d].target[p].status = "DEPLOYED"
               /\ rollout'[d].release = rollout[d].release
    <3>1. rollout[d] \in RolloutRows /\ rollout[d].target \in [Servers -> TargetRows]
      BY DEF RolloutTyped, PlatformTyped, RolloutRows, Targets
    <3>2. rollout[d].target[s] \in TargetRows
      BY <3>1
    <3>3. [rollout[d] EXCEPT !.target[s].status = verdict].target[p].status
            = IF p = s THEN verdict ELSE rollout[d].target[p].status
      BY <3>1, <3>2 DEF RolloutRows, TargetRows
    <3>4. [rollout[d] EXCEPT !.target[s].status = verdict].release = rollout[d].release
      BY <3>1 DEF RolloutRows
    <3> QED
      BY <2>1, <2>3, <3>3, <3>4
  <2> QED
    BY <2>2, <2>3, KeepsTested
<1> QED
  BY <1>1, <1>2

LEMMA RolloutTested ==
  ASSUME RolloutTyped, TestedInv, Rollout
  PROVE  TestedInv'
<1>1. CASE \E r \in Releases : Register(r)
  BY <1>1, KeepsTested DEF Register, agents
<1>2. CASE Import
  BY <1>2, KeepsTested DEF Import, agents
<1>3. ASSUME NEW d \in Deployments, NEW r, NEW S, Deploy(d, r, S) PROVE TestedInv'
  <2>1. \A s \in Servers : pool'[s].latest \in {pool[s].latest, None}
    BY <1>3 DEF Deploy, NewRow, NoRow
  <2>2. /\ rollout' = [rollout EXCEPT ![d] = [status |-> "DEPLOYING", release |-> r,
                                              target |-> Dispatched(NewTargets(S))]]
        /\ tested' = tested
    BY <1>3 DEF Deploy, agents
  <2> QED
    BY <2>1, <2>2, DeployTested
<1>4. ASSUME NEW d \in Deployments, NEW S, Publish(d, S) PROVE TestedInv'
  <2>1. CASE project.status = "NONE"
    <3>1. /\ pool' = [s \in Servers |-> IF s \in S THEN NewRow ELSE pool[s]]
          /\ rollout' = [rollout EXCEPT ![d] = [status |-> "DEPLOYING", release |-> Latest,
                                                target |-> Dispatched(NewTargets(S))]]
          /\ tested' = tested
      BY <1>4, <2>1 DEF Publish, agents
    <3>2. \A s \in Servers : pool'[s].latest \in {pool[s].latest, None}
      BY <3>1 DEF NewRow, NoRow
    <3> QED
      BY <3>1, <3>2, DeployTested
  <2>2. CASE project.status # "NONE"
    BY <1>4, <2>2, <1>3 DEF Publish
  <2> QED
    BY <2>1, <2>2
<1> QED
  BY <1>1, <1>2, <1>3, <1>4 DEF Rollout

LEMMA EditTested ==
  ASSUME RolloutTyped, TestedInv, Edit
  PROVE  TestedInv'
<1>1. CASE RemoveProject
  <2>1. \A s \in Servers : pool'[s].latest = None /\ tested'[s] = tested[s]
    BY <1>1 DEF RemoveProject, NoRow, agents
  <2>2. \A d \in Deployments, s \in Servers :
          rollout'[d].target[s].status = "DEPLOYED" => rollout'[d] = rollout[d]
    BY <1>1 DEF RemoveProject, RemovedRollouts, NoRollout, NoTarget
  <2> QED
    BY <2>1, <2>2, KeepsTested
<1>2. CASE \/ \E online \in OnlineChoices, min \in MinChoices : UpdateProject(online, min)
           \/ \E S \in TargetChoices, sched \in PoolChoices : UpdateServerPool(S, sched)
           \/ ArchiveProject
  <2>1. \A s \in Servers : pool[s] \in PoolRows
    BY DEF RolloutTyped, PlatformTyped
  <2>2. \A s \in Servers : pool'[s].latest \in {pool[s].latest, None}
    <3>1. ASSUME NEW S, NEW sched, UpdateServerPool(S, sched), NEW s \in Servers
          PROVE  pool'[s].latest = IF s \in S /\ pool[s].dep = "ABSENT" THEN None
                                   ELSE pool[s].latest
      <4>1. NewRow \in PoolRows /\ NewRow.latest = None
        BY DEF NewRow, NoRow, PoolRows, Scheds, Versions
      <4>2. \A x \in PoolRows : [x EXCEPT !.sched = sched].latest = x.latest
        BY DEF PoolRows
      <4> QED
        BY <2>1, <3>1, <4>1, <4>2 DEF UpdateServerPool
    <3>2. ASSUME ArchiveProject, NEW s \in Servers
          PROVE  pool'[s].latest = pool[s].latest
      BY <2>1, <3>2 DEF ArchiveProject, PoolRows
    <3> QED
      BY <1>2, <3>1, <3>2 DEF UpdateProject
  <2>3. UNCHANGED <<rollout, tested>>
    BY <1>2 DEF UpdateProject, UpdateServerPool, ArchiveProject, agents
  <2> QED
    BY <2>2, <2>3, KeepsTested
<1> QED
  BY <1>1, <1>2 DEF Edit

LEMMA HeartbeatTested ==
  ASSUME RolloutTyped, TestedInv, NEW s \in Servers, NEW health, Heartbeat(s, health)
  PROVE  TestedInv'
<1>1. pool[s] \in PoolRows
  BY DEF RolloutTyped, PlatformTyped
<1>2. Rescheduled(pool[s], health).latest = pool[s].latest
  BY <1>1 DEF Rescheduled, PoolRows
<1>3. \A p \in Servers : pool'[p].latest = pool[p].latest
  BY <1>2 DEF Heartbeat, RolloutTyped, PlatformTyped
<1>4. UNCHANGED <<rollout, tested>>
  BY DEF Heartbeat
<1> QED
  BY <1>3, <1>4, KeepsTested

LEMMA AgentTested ==
  ASSUME RolloutTyped, TestedInv, NEW s \in Servers, AgentStep(s) \/ Failure(s)
  PROVE  TestedInv'
<1>1. CASE \E health : Heartbeat(s, health)
  BY <1>1, HeartbeatTested
<1>2. ASSUME NEW d \in Deployments, Prepare(s, d) PROVE TestedInv'
  <2>1. rollout[d].release \in Versions /\ tested \in [Servers -> SUBSET Releases]
    BY DEF RolloutTyped, PlatformTyped, AgentsTyped, RolloutRows
  <2>2. /\ \A p \in Servers : tested[p] \subseteq Tests(s, d)[p]
        /\ rollout[d].release \in Tests(s, d)[s] \union {None}
    BY <2>1 DEF Tests
  <2> QED
    BY <1>2, <2>2, AnswerTested DEF Prepare
<1>3. CASE Prewarm(s)
  <2>1. CASE UNCHANGED platform
    BY <1>3, <2>1, KeepsTested DEF platform, Prewarm
  <2>2. CASE \E verdict \in {"READY", "FAILED"} : Pulled(s, pulling[s], verdict)
    BY <1>3, <2>2, PulledTested DEF Prewarm
  <2> QED
    BY <1>3, <2>1, <2>2 DEF Prewarm
<1>4. CASE \/ \E d \in Deployments : PrepareUnheard(s, d) \/ Expire(s, d)
           \/ AgentRestart(s)
           \/ \E mode \in NodeModes : SetNode(s, mode)
  <2>1. UNCHANGED <<pool, rollout, tested>>
    BY <1>4 DEF PrepareUnheard, AgentRestart, SetNode, Expire, platform
  <2> QED
    BY <2>1, KeepsTested
<1> QED
  BY <1>1, <1>2, <1>3, <1>4 DEF AgentStep, Failure

LEMMA StepTested == RolloutTyped /\ TestedInv /\ ReleaseStep => TestedInv'
BY RolloutTested, EditTested, AgentTested DEF ReleaseStep

LEMMA StutterTested == TestedInv /\ UNCHANGED <<platform, agents>> => TestedInv'
BY DEF platform, agents, TestedInv, DeployedIsTested, RunningReleaseIsTested

-----------------------------------------------------------------------------
(* The commands in the queues are those of rollouts that have begun         *)

\* Between them they make a command that is answered one of a release: a rollout
\* that has begun has a release until its project is removed, and a rollout that
\* has not begun is in no queue, so that its first commands are its own.
LiveHasRelease ==
  \A d \in Deployments : rollout[d].status \notin {"NONE", "DELETED"}
                         => rollout[d].release \in Releases
NoStrays ==
  \A s \in Servers, d \in Deployments : d \in InQueue(queue[s]) => rollout[d].status # "NONE"

CommandInv == LiveHasRelease /\ NoStrays

LEMMA InitCommand == Init => CommandInv
BY DEF Init, CommandInv, LiveHasRelease, NoStrays, NoRollout, InQueue

\* What the rollout of a release does to the rollouts and queues.
RolledOut(d, r, S) ==
  /\ rollout[d].status = "NONE"
  /\ rollout' = [rollout EXCEPT ![d] = [status |-> "DEPLOYING", release |-> r,
                                        target |-> Dispatched(NewTargets(S))]]
  /\ queue' = QueuesAfter(queue, NewTargets(S), d)

LEMMA RolloutsBegin ==
  ASSUME RolloutTyped, Rollout
  PROVE  \/ UNCHANGED <<rollout, queue>>
         \/ \E d \in Deployments, r \in Releases : \E S : RolledOut(d, r, S)
<1>1. ASSUME NEW d \in Deployments, NEW r \in Releases, NEW S, Deploy(d, r, S)
      PROVE  RolledOut(d, r, S)
  BY <1>1 DEF Deploy, RolledOut
<1>2. ASSUME NEW d \in Deployments, NEW S, Publish(d, S)
      PROVE  RolledOut(d, Latest, S) /\ Latest \in Releases
  <2>1. Latest \in Releases
    BY <1>2, LatestIsRelease DEF Publish, RolloutTyped
  <2>2. CASE project.status = "NONE"
    BY <1>2, <2>1, <2>2 DEF Publish, RolledOut
  <2>3. CASE project.status # "NONE"
    BY <1>2, <2>1, <2>3, <1>1 DEF Publish
  <2> QED
    BY <2>2, <2>3, <2>1
<1>3. CASE Import \/ \E r \in Releases : Register(r)
  BY <1>3 DEF Import, Register
<1>4. CASE \E d \in Deployments, r \in Releases, S \in TargetChoices \union {AutoSelected} :
             Deploy(d, r, S)
  BY <1>4, <1>1
<1>5. CASE \E d \in Deployments, S \in TargetChoices : Publish(d, S)
  BY <1>5, <1>2
<1> QED
  BY <1>3, <1>4, <1>5 DEF Rollout

\* A prewarm report changes the status of targets, and nothing else of a rollout.
LEMMA PulledKeeps ==
  ASSUME RolloutTyped, NEW s \in Servers, NEW r, NEW verdict \in {"READY", "FAILED"},
         Pulled(s, r, verdict)
  PROVE  /\ queue' = queue /\ UNCHANGED <<project, published, channel, definition>>
         /\ \A d \in Deployments :
              /\ rollout'[d].status = rollout[d].status
              /\ rollout'[d].release = rollout[d].release
              /\ \A p \in Servers : rollout'[d].target[p].status
                   \in {rollout[d].target[p].status, verdict}
<1>1. CASE UNCHANGED platform
  BY <1>1 DEF platform
<1>2. CASE ~UNCHANGED platform
  <2>1. /\ queue' = queue /\ UNCHANGED <<project, published, channel, definition>>
        /\ rollout' = [d \in Deployments |->
                         IF rollout[d].release = pool[s].latest /\ rollout[d].target[s].status # "NONE"
                         THEN [rollout[d] EXCEPT !.target[s].status = verdict]
                         ELSE rollout[d]]
    BY <1>2 DEF Pulled
  <2>2. ASSUME NEW d \in Deployments
        PROVE  /\ rollout'[d].status = rollout[d].status
               /\ rollout'[d].release = rollout[d].release
               /\ \A p \in Servers : rollout'[d].target[p].status
                    \in {rollout[d].target[p].status, verdict}
    <3>1. /\ rollout[d] \in RolloutRows /\ rollout[d].target \in [Servers -> TargetRows]
          /\ rollout[d].target[s] \in TargetRows
      BY DEF RolloutTyped, PlatformTyped, RolloutRows, Targets
    <3> DEFINE x == [rollout[d] EXCEPT !.target[s].status = verdict]
    <3>2. /\ x.status = rollout[d].status /\ x.release = rollout[d].release
          /\ \A p \in Servers : x.target[p].status
                                  = IF p = s THEN verdict ELSE rollout[d].target[p].status
      BY <3>1 DEF RolloutRows, TargetRows
    <3> HIDE DEF x
    <3>3. rollout'[d] \in {x, rollout[d]}
      BY <2>1 DEF x
    <3> QED
      BY <3>2, <3>3
  <2> QED
    BY <2>1, <2>2
<1> QED
  BY <1>1, <1>2

\* What the answer of a node to a command does to the rollouts and queues.
LEMMA AppliedRows ==
  ASSUME RolloutTyped, NEW s \in Servers, NEW d \in Deployments, NEW ok \in BOOLEAN,
         Applied(s, d, ok)
  PROVE  /\ rollout'[d].status \in {"DEPLOYED", "BLOCKED", "FAILED", "DEPLOYING"}
         /\ rollout'[d].release = rollout[d].release
         /\ rollout'[d].target = Dispatched(AnsweredTargets(s, d, ok))
         /\ \A e \in Deployments \ {d} : rollout'[e] = rollout[e]
         /\ \A p \in Servers :
              InQueue(queue'[p])
                \subseteq (InQueue(queue[p]) \ (IF p = s THEN {d} ELSE {}))
                          \union (IF p \in Chosen(AnsweredTargets(s, d, ok)) THEN {d} ELSE {})
<1> DEFINE t == AnsweredTargets(s, d, ok)
           after == Dispatched(t)
           qs == [queue EXCEPT ![s] = Acknowledged(queue[s], d)]
<1>1. /\ rollout' = [rollout EXCEPT ![d].target = after, ![d].status = Outcome(after)]
      /\ queue' = QueuesAfter(qs, t, d)
  BY DEF Applied, AnsweredTargets
<1>2. Outcome(after) \in {"DEPLOYED", "BLOCKED", "FAILED", "DEPLOYING"}
  BY OutcomeTyped
<1>3. /\ QueuesTyped(qs)
      /\ \A p \in Servers : InQueue(qs[p]) = InQueue(queue[p]) \ (IF p = s THEN {d} ELSE {})
  BY WithoutIs DEF RolloutTyped, PlatformTyped, QueuesTyped, Acknowledged
<1> HIDE DEF t, after, qs
<1>4. \A p \in Servers : InQueue(queue'[p])
                           \subseteq InQueue(qs[p]) \union (IF p \in Chosen(t) THEN {d} ELSE {})
  BY <1>1, <1>3, QueuesAfterTyped
<1>5. /\ rollout'[d].status = Outcome(after) /\ rollout'[d].release = rollout[d].release
      /\ rollout'[d].target = after
      /\ \A e \in Deployments \ {d} : rollout'[e] = rollout[e]
  BY <1>1 DEF RolloutTyped, PlatformTyped, RolloutRows
<1> QED
  BY <1>2, <1>3, <1>4, <1>5 DEF t, after

\* The other steps of the system leave the rollouts and the queues alone, but for
\* the removal of the project and the acknowledgment of a command of its own.
LEMMA RolloutsChange ==
  ASSUME RolloutTyped, ReleaseStep
  PROVE  \/ UNCHANGED <<rollout, queue>>
         \/ \E d \in Deployments, r \in Releases : \E S : RolledOut(d, r, S)
         \/ \E s \in Servers, d \in Deployments, ok \in BOOLEAN :
              /\ d \in InQueue(queue[s]) /\ rollout[d].status # "DELETED"
              /\ Applied(s, d, ok)
         \/ \E s \in Servers, d \in Deployments :
              /\ rollout[d].status = "DELETED"
              /\ queue' = [queue EXCEPT ![s] = Acknowledged(queue[s], d)] /\ rollout' = rollout
         \/ \E s \in Servers, verdict \in {"READY", "FAILED"} : \E r : Pulled(s, r, verdict)
         \/ rollout' = RemovedRollouts /\ queue' = queue
<1>1. CASE Rollout
  BY <1>1, RolloutsBegin
<1>2. CASE Edit
  <2>1. CASE RemoveProject
    BY <2>1 DEF RemoveProject
  <2>2. CASE ~RemoveProject
    BY <1>2, <2>2 DEF Edit, UpdateProject, UpdateServerPool, ArchiveProject
  <2> QED
    BY <2>1, <2>2
<1>3. ASSUME NEW s \in Servers, NEW d \in Deployments, NEW ok \in BOOLEAN, Answer(s, d, ok)
      PROVE  \/ UNCHANGED <<rollout, queue>>
             \/ /\ d \in InQueue(queue[s]) /\ rollout[d].status # "DELETED"
                /\ Applied(s, d, ok)
             \/ /\ rollout[d].status = "DELETED"
                /\ queue' = [queue EXCEPT ![s] = Acknowledged(queue[s], d)] /\ rollout' = rollout
  BY <1>3 DEF Answer, platform
<1>4. ASSUME NEW s \in Servers, NEW d \in Deployments, Prepare(s, d)
      PROVE  \E ok \in BOOLEAN : Answer(s, d, ok)
  BY <1>4 DEF Prepare
<1>5. ASSUME NEW s \in Servers, Prewarm(s)
      PROVE  \/ UNCHANGED <<rollout, queue>>
             \/ \E verdict \in {"READY", "FAILED"} : \E r : Pulled(s, r, verdict)
  <2>1. UNCHANGED platform \/ \E verdict \in {"READY", "FAILED"} : Pulled(s, pulling[s], verdict)
    BY <1>5 DEF Prewarm
  <2>2. UNCHANGED platform => UNCHANGED <<rollout, queue>>
    BY DEF platform
  <2> QED
    BY <2>1, <2>2
<1>6. ASSUME NEW s \in Servers, AgentStep(s) \/ Failure(s)
      PROVE  \/ UNCHANGED <<rollout, queue>> \/ Prewarm(s)
             \/ \E d \in Deployments : Prepare(s, d)
  BY <1>6 DEF AgentStep, Failure, Heartbeat, PrepareUnheard, AgentRestart, SetNode, Expire,
       platform
<1>7. ASSUME NEW s \in Servers, NEW d \in Deployments, Prepare(s, d)
      PROVE  \/ UNCHANGED <<rollout, queue>>
             \/ \E ok \in BOOLEAN : /\ d \in InQueue(queue[s]) /\ rollout[d].status # "DELETED"
                                    /\ Applied(s, d, ok)
             \/ /\ rollout[d].status = "DELETED"
                /\ queue' = [queue EXCEPT ![s] = Acknowledged(queue[s], d)] /\ rollout' = rollout
  <2>1. PICK ok \in BOOLEAN : Answer(s, d, ok)
    BY <1>4, <1>7
  <2> QED
    BY <2>1, <1>3
<1>8. ASSUME NEW s \in Servers, AgentStep(s) \/ Failure(s)
      PROVE  \/ UNCHANGED <<rollout, queue>>
             \/ \E d \in Deployments, ok \in BOOLEAN :
                  /\ d \in InQueue(queue[s]) /\ rollout[d].status # "DELETED"
                  /\ Applied(s, d, ok)
             \/ \E d \in Deployments :
                  /\ rollout[d].status = "DELETED"
                  /\ queue' = [queue EXCEPT ![s] = Acknowledged(queue[s], d)]
                  /\ rollout' = rollout
             \/ \E verdict \in {"READY", "FAILED"} : \E r : Pulled(s, r, verdict)
  BY <1>5, <1>6, <1>7, <1>8
<1> QED
  BY <1>1, <1>2, <1>8 DEF ReleaseStep

\* The rows of a removed project, and those of one that has just begun.
LEMMA RemovedRows ==
  ASSUME RolloutTyped, NEW d \in Deployments
  PROVE  /\ RemovedRollouts[d].status = IF rollout[d].status = "NONE" THEN "NONE" ELSE "DELETED"
         /\ rollout[d].status # "NONE" =>
              \A s \in Servers : RemovedRollouts[d].target[s].status = "NONE"
         /\ rollout[d].status = "NONE" => RemovedRollouts[d] = rollout[d]
BY DEF RemovedRollouts, NoRollout, NoTarget

LEMMA RolledOutRows ==
  ASSUME RolloutTyped, NEW d \in Deployments, NEW r \in Releases, NEW S, RolledOut(d, r, S)
  PROVE  /\ rollout[d].status = "NONE" /\ rollout'[d].status = "DEPLOYING"
         /\ rollout'[d].release = r /\ rollout'[d].target = Dispatched(NewTargets(S))
         /\ \A e \in Deployments \ {d} : rollout'[e] = rollout[e]
         /\ \A s \in Servers : InQueue(queue'[s])
              \subseteq InQueue(queue[s]) \union (IF s \in Chosen(NewTargets(S)) THEN {d} ELSE {})
<1>1. QueuesTyped(queue)
  BY DEF RolloutTyped, PlatformTyped
<1>2. \A s \in Servers : InQueue(queue'[s])
        \subseteq InQueue(queue[s]) \union (IF s \in Chosen(NewTargets(S)) THEN {d} ELSE {})
  BY <1>1, QueuesAfterTyped DEF RolledOut
<1> QED
  BY <1>2 DEF RolledOut, RolloutTyped, PlatformTyped

LEMMA AcknowledgedRows ==
  ASSUME RolloutTyped, NEW s \in Servers, NEW d \in Deployments,
         queue' = [queue EXCEPT ![s] = Acknowledged(queue[s], d)]
  PROVE  \A p \in Servers : InQueue(queue'[p]) \subseteq InQueue(queue[p])
BY WithoutIs DEF RolloutTyped, PlatformTyped, QueuesTyped, Acknowledged

LEMMA StepCommand == RolloutTyped /\ CommandInv /\ ReleaseStep => CommandInv'
<1> SUFFICES ASSUME RolloutTyped, CommandInv, ReleaseStep PROVE CommandInv'
  OBVIOUS
<1> USE DEF CommandInv, LiveHasRelease, NoStrays
<1>1. CASE UNCHANGED <<rollout, queue>>
  BY <1>1
<1>2. ASSUME NEW d \in Deployments, NEW r \in Releases, NEW S, RolledOut(d, r, S)
      PROVE  CommandInv'
  BY <1>2, RolledOutRows
<1>3. ASSUME NEW s \in Servers, NEW d \in Deployments, NEW ok \in BOOLEAN,
             d \in InQueue(queue[s]), rollout[d].status # "DELETED", Applied(s, d, ok)
      PROVE  CommandInv'
  <2>1. rollout[d].status # "NONE" /\ rollout[d].release \in Releases
    BY <1>3
  <2> QED
    BY <1>3, <2>1, AppliedRows
<1>4. ASSUME NEW s \in Servers, NEW d \in Deployments,
             queue' = [queue EXCEPT ![s] = Acknowledged(queue[s], d)], rollout' = rollout
      PROVE  CommandInv'
  BY <1>4, AcknowledgedRows
<1>5. ASSUME NEW s \in Servers, NEW r, NEW verdict \in {"READY", "FAILED"}, Pulled(s, r, verdict)
      PROVE  CommandInv'
  BY <1>5, PulledKeeps
<1>6. CASE rollout' = RemovedRollouts /\ queue' = queue
  BY <1>6, RemovedRows
<1> QED
  BY <1>1, <1>2, <1>3, <1>4, <1>5, <1>6, RolloutsChange

LEMMA StutterCommand == CommandInv /\ UNCHANGED <<platform, agents>> => CommandInv'
BY DEF platform, agents, CommandInv, LiveHasRelease, NoStrays

-----------------------------------------------------------------------------
(* The slots of a rollout                                                   *)

Working(t) == {s \in Servers : t[s].status \in {"DISPATCHED", "DEPLOYING"}}

\* The free slots bound how many targets are chosen: each target is chosen for
\* the number of those that wait before it.
LEMMA ChosenCount ==
  ASSUME NEW t
  PROVE  /\ IsFiniteSet(Chosen(t)) /\ IsFiniteSet(Working(t))
         /\ FreeSlots(t) \in Nat
         /\ Cardinality(Chosen(t)) <= FreeSlots(t)
<1> DEFINE waiting == {s \in Servers : t[s].status = "PENDING_AGENT"}
           before(s) == {p \in waiting : p < s}
           place == [s \in Chosen(t) |-> Cardinality(before(s))]
           n == FreeSlots(t)
<1>1. IsFiniteSet(Servers) /\ Servers \subseteq Nat
  BY RolloutAssumption
<1>2. /\ waiting \subseteq Servers /\ Chosen(t) \subseteq waiting /\ Working(t) \subseteq Servers
      /\ \A s \in Chosen(t) : Cardinality(before(s)) < n
  BY DEF Chosen, Working
<1>3. IsFiniteSet(waiting) /\ IsFiniteSet(Chosen(t)) /\ IsFiniteSet(Working(t))
  BY <1>1, <1>2, FS_Subset
<1>4. n \in Nat
  <2>1. Cardinality(Working(t)) \in Nat
    BY <1>3, FS_CardinalityType
  <2> QED
    BY <2>1, RolloutAssumption DEF FreeSlots, Working
<1>5. \A s \in Servers : IsFiniteSet(before(s)) /\ Cardinality(before(s)) \in Nat
  BY <1>3, FS_Subset, FS_CardinalityType
<1>6. ASSUME NEW p \in Chosen(t), NEW s \in Chosen(t), p < s
      PROVE  Cardinality(before(p)) # Cardinality(before(s))
  <2>1. p \in waiting /\ s \in waiting /\ p \in Nat /\ s \in Nat
    BY <1>1, <1>2
  <2>2. before(p) \subseteq before(s)
    <3> SUFFICES ASSUME NEW x \in waiting, x < p PROVE x < s
      OBVIOUS
    <3>1. x \in Nat
      BY <1>1, <1>2
    <3> QED
      BY <3>1, <2>1, <1>6
  <2>3. p \in before(s) /\ p \notin before(p)
    BY <1>6, <2>1
  <2> QED
    BY <2>2, <2>3, <1>2, <1>5, FS_Subset
<1> HIDE DEF n
<1>7. place \in Injection(Chosen(t), 0 .. n - 1)
  <2>1. place \in [Chosen(t) -> 0 .. n - 1]
    <3> SUFFICES ASSUME NEW s \in Chosen(t) PROVE Cardinality(before(s)) \in 0 .. n - 1
      OBVIOUS
    <3>1. s \in Servers /\ Cardinality(before(s)) < n
      BY <1>2
    <3>2. Cardinality(before(s)) \in Nat
      BY <3>1, <1>5
    <3> QED
      BY <3>1, <3>2, <1>4
  <2>2. ASSUME NEW p \in Chosen(t), NEW s \in Chosen(t), place[p] = place[s]
        PROVE  p = s
    <3>1. p \in Nat /\ s \in Nat
      BY <1>1, <1>2
    <3> QED
      BY <3>1, <2>2, <1>6
  <2> QED
    BY <2>1, <2>2 DEF Injection, IsInjective
<1>8. IsFiniteSet(0 .. n - 1) /\ Cardinality(0 .. n - 1) = n
  BY <1>4, FS_Interval
<1>9. Cardinality(Chosen(t)) <= Cardinality(0 .. n - 1)
  BY <1>7, <1>8, FS_Injection
<1> QED
  BY <1>3, <1>4, <1>8, <1>9 DEF n

\* The targets a rollout counts as being worked on are within its limit, whatever
\* the answers and the prewarms of its nodes: the slots it hands out are free ones.
PullsCounted == \A d \in Deployments : Cardinality(Working(rollout[d].target)) <= MaxParallel

LEMMA DispatchCount ==
  ASSUME NEW t \in Targets, Cardinality(Working(t)) <= MaxParallel
  PROVE  Cardinality(Working(Dispatched(t))) <= MaxParallel
<1>1. /\ IsFiniteSet(Chosen(t)) /\ IsFiniteSet(Working(t))
      /\ FreeSlots(t) \in Nat /\ Cardinality(Chosen(t)) <= FreeSlots(t)
  BY ChosenCount
<1>2. Working(Dispatched(t)) = Working(t) \union Chosen(t)
  BY DEF Working, Dispatched, Chosen, Targets, TargetRows
<1>3. Working(t) \intersect Chosen(t) = {}
  BY DEF Working, Chosen
<1>4. /\ Cardinality(Working(t)) \in Nat /\ Cardinality(Chosen(t)) \in Nat
      /\ Cardinality(Working(t) \union Chosen(t)) = Cardinality(Working(t)) + Cardinality(Chosen(t))
  <2>1. Cardinality(Working(t)) \in Nat /\ Cardinality(Chosen(t)) \in Nat
    BY <1>1, FS_CardinalityType
  <2>2. Cardinality(Working(t) \union Chosen(t))
          = Cardinality(Working(t)) + Cardinality(Chosen(t)) - Cardinality(Working(t) \cap Chosen(t))
    BY <1>1, FS_Union
  <2>3. Cardinality(Working(t) \cap Chosen(t)) = 0
    BY <1>3, FS_EmptySet
  <2> QED
    BY <2>1, <2>2, <2>3
<1>5. FreeSlots(t) + Cardinality(Working(t)) <= MaxParallel
  BY <1>4, RolloutAssumption DEF FreeSlots, Working
<1> QED
  BY <1>1, <1>2, <1>4, <1>5, RolloutAssumption

\* Fewer targets at work are still within the limit.
LEMMA FewerCount ==
  ASSUME NEW t, NEW u, Working(u) \subseteq Working(t), Cardinality(Working(t)) <= MaxParallel
  PROVE  Cardinality(Working(u)) <= MaxParallel
<1>1. IsFiniteSet(Working(t)) /\ IsFiniteSet(Working(u))
  BY ChosenCount
<1>2. Cardinality(Working(u)) <= Cardinality(Working(t))
  BY <1>1, FS_Subset
<1> QED
  BY <1>1, <1>2, FS_CardinalityType, RolloutAssumption

LEMMA NoneWorking ==
  ASSUME NEW t, \A s \in Servers : t[s].status \notin {"DISPATCHED", "DEPLOYING"}
  PROVE  Cardinality(Working(t)) <= MaxParallel
<1>1. Working(t) = {}
  BY DEF Working
<1> QED
  BY <1>1, FS_EmptySet, RolloutAssumption

LEMMA InitCounted == Init => PullsCounted
<1> SUFFICES ASSUME Init, NEW d \in Deployments
             PROVE  Cardinality(Working(rollout[d].target)) <= MaxParallel
  BY DEF PullsCounted
<1>1. \A s \in Servers : rollout[d].target[s].status = "NONE"
  BY DEF Init, NoRollout, NoTarget
<1> QED
  BY <1>1, NoneWorking

LEMMA StepCounted == RolloutTyped /\ PullsCounted /\ ReleaseStep => PullsCounted'
<1> SUFFICES ASSUME RolloutTyped, PullsCounted, ReleaseStep, NEW e \in Deployments
             PROVE  Cardinality(Working(rollout'[e].target)) <= MaxParallel
  BY DEF PullsCounted, Working
<1>1. Cardinality(Working(rollout[e].target)) <= MaxParallel
  BY DEF PullsCounted
<1>2. CASE rollout'[e].target = rollout[e].target
  BY <1>1, <1>2
<1>3. ASSUME NEW d \in Deployments, NEW r \in Releases, NEW S, RolledOut(d, r, S), e = d
      PROVE  Cardinality(Working(rollout'[e].target)) <= MaxParallel
  <2>1. NewTargets(S) \in Targets
    BY NewTargetsTyped DEF RolloutTyped
  <2>2. \A s \in Servers : NewTargets(S)[s].status \notin {"DISPATCHED", "DEPLOYING"}
    BY DEF NewTargets, NoTarget
  <2>3. Cardinality(Working(NewTargets(S))) <= MaxParallel
    BY <2>2, NoneWorking
  <2> QED
    BY <1>3, <2>1, <2>3, DispatchCount, RolledOutRows
<1>4. ASSUME NEW s \in Servers, NEW ok \in BOOLEAN, Applied(s, e, ok)
      PROVE  Cardinality(Working(rollout'[e].target)) <= MaxParallel
  <2> DEFINE t == AnsweredTargets(s, e, ok)
  <2>1. /\ t \in Targets
        /\ \A p \in Servers : t[p].status = IF p = s THEN (IF ok THEN "DEPLOYED" ELSE "FAILED")
                                            ELSE rollout[e].target[p].status
    BY AnsweredTyped DEF RolloutTyped
  <2>2. Working(t) \subseteq Working(rollout[e].target)
    BY <2>1 DEF Working
  <2>3. Cardinality(Working(t)) <= MaxParallel
    BY <1>1, <2>2, FewerCount
  <2>4. rollout'[e].target = Dispatched(t)
    BY <1>4, AppliedRows
  <2> QED
    BY <2>1, <2>3, <2>4, DispatchCount
<1>5. ASSUME NEW s \in Servers, NEW r, NEW verdict \in {"READY", "FAILED"}, Pulled(s, r, verdict)
      PROVE  Cardinality(Working(rollout'[e].target)) <= MaxParallel
  <2>1. Working(rollout'[e].target) \subseteq Working(rollout[e].target)
    BY <1>5, PulledKeeps DEF Working
  <2> QED
    BY <1>1, <2>1, FewerCount
<1>6. CASE rollout' = RemovedRollouts
  <2>1. CASE rollout[e].status = "NONE"
    BY <1>2, <1>6, <2>1, RemovedRows
  <2>2. CASE rollout[e].status # "NONE"
    BY <1>6, <2>2, RemovedRows, NoneWorking
  <2> QED
    BY <2>1, <2>2
<1>7. ASSUME NEW d \in Deployments, NEW r \in Releases, NEW S, RolledOut(d, r, S), e # d
      PROVE  Cardinality(Working(rollout'[e].target)) <= MaxParallel
  BY <1>7, <1>2, RolledOutRows
<1>8. ASSUME NEW s \in Servers, NEW d \in Deployments, NEW ok \in BOOLEAN, Applied(s, d, ok), e # d
      PROVE  Cardinality(Working(rollout'[e].target)) <= MaxParallel
  BY <1>8, <1>2, AppliedRows
<1> QED
  BY <1>2, <1>3, <1>4, <1>5, <1>6, <1>7, <1>8, RolloutsChange

LEMMA StutterCounted == PullsCounted /\ UNCHANGED <<platform, agents>> => PullsCounted'
BY DEF platform, agents, PullsCounted, Working

-----------------------------------------------------------------------------
(* One pull at a time                                                       *)

\* With one slot, a command is in one queue at most: the slot is counted again
\* only in the step in which the one node that has the command answers it.
OneQueue ==
  \A d \in Deployments, s, p \in Servers :
    rollout[d].status # "DELETED" /\ d \in InQueue(queue[s]) /\ d \in InQueue(queue[p]) => s = p

LEMMA ChosenOne ==
  ASSUME MaxParallel = 1, NEW t
  PROVE  \A s, p \in Chosen(t) : s = p
<1>1. IsFiniteSet(Chosen(t)) /\ Cardinality(Chosen(t)) \in Nat /\ Cardinality(Chosen(t)) <= 1
  <2>1. /\ IsFiniteSet(Chosen(t)) /\ IsFiniteSet(Working(t)) /\ FreeSlots(t) \in Nat
        /\ Cardinality(Chosen(t)) <= FreeSlots(t)
    BY ChosenCount
  <2>2. Cardinality(Working(t)) \in Nat /\ Cardinality(Chosen(t)) \in Nat
    BY <2>1, FS_CardinalityType
  <2>3. FreeSlots(t) <= 1
    BY <2>2 DEF FreeSlots, Working
  <2> QED
    BY <2>1, <2>2, <2>3
<1>2. CASE Cardinality(Chosen(t)) = 0
  BY <1>1, <1>2, FS_EmptySet
<1>3. CASE Cardinality(Chosen(t)) = 1
  BY <1>1, <1>3, FS_Singleton
<1> QED
  BY <1>1, <1>2, <1>3

LEMMA InitOneQueue == Init => OneQueue
BY DEF Init, OneQueue, InQueue

LEMMA StepOneQueue ==
  MaxParallel = 1 /\ RolloutTyped /\ CommandInv /\ OneQueue /\ ReleaseStep => OneQueue'
<1> SUFFICES ASSUME MaxParallel = 1, RolloutTyped, CommandInv, OneQueue, ReleaseStep
             PROVE  OneQueue'
  OBVIOUS
<1>1. CASE UNCHANGED <<rollout, queue>>
  BY <1>1 DEF OneQueue
<1>2. ASSUME NEW d \in Deployments, NEW r \in Releases, NEW S, RolledOut(d, r, S)
      PROVE  OneQueue'
  <2>1. \A s \in Servers : d \notin InQueue(queue[s])
    BY <1>2, RolledOutRows DEF CommandInv, NoStrays
  <2> QED
    BY <1>2, <2>1, RolledOutRows, ChosenOne DEF OneQueue
<1>3. ASSUME NEW s \in Servers, NEW d \in Deployments, NEW ok \in BOOLEAN,
             d \in InQueue(queue[s]), rollout[d].status # "DELETED", Applied(s, d, ok)
      PROVE  OneQueue'
  <2> DEFINE t == AnsweredTargets(s, d, ok)
  <2>1. /\ \A e \in Deployments \ {d} : rollout'[e] = rollout[e]
        /\ \A p \in Servers :
             InQueue(queue'[p]) \subseteq (InQueue(queue[p]) \ (IF p = s THEN {d} ELSE {}))
                                          \union (IF p \in Chosen(t) THEN {d} ELSE {})
    BY <1>3, AppliedRows
  <2> HIDE DEF t
  <2>2. \A p \in Servers : d \in InQueue(queue[p]) => p = s
    BY <1>3 DEF OneQueue
  <2>3. \A p \in Servers : d \in InQueue(queue'[p]) => p \in Chosen(t)
    BY <2>1, <2>2
  <2>4. \A p \in Servers, e \in Deployments \ {d} :
          e \in InQueue(queue'[p]) => e \in InQueue(queue[p])
    BY <2>1
  <2> QED
    BY <2>1, <2>3, <2>4, ChosenOne DEF OneQueue
<1>4. ASSUME NEW s \in Servers, NEW d \in Deployments,
             queue' = [queue EXCEPT ![s] = Acknowledged(queue[s], d)], rollout' = rollout
      PROVE  OneQueue'
  BY <1>4, AcknowledgedRows DEF OneQueue
<1>5. ASSUME NEW s \in Servers, NEW r, NEW verdict \in {"READY", "FAILED"}, Pulled(s, r, verdict)
      PROVE  OneQueue'
  BY <1>5, PulledKeeps DEF OneQueue
<1>6. CASE rollout' = RemovedRollouts /\ queue' = queue
  BY <1>6, RemovedRows DEF OneQueue, CommandInv, NoStrays
<1> QED
  BY <1>1, <1>2, <1>3, <1>4, <1>5, <1>6, RolloutsChange

LEMMA StutterOneQueue == OneQueue /\ UNCHANGED <<platform, agents>> => OneQueue'
BY DEF platform, agents, OneQueue

LEMMA OneQueueIsSinglePull == (MaxParallel = 1 => OneQueue) => SinglePull
<1> SUFFICES ASSUME MaxParallel = 1, OneQueue, NEW d \in Deployments, rollout[d].status # "DELETED"
             PROVE  Cardinality(Outstanding(d)) <= MaxParallel
  BY DEF SinglePull, ParallelPulls
<1>1. \A s, p \in Outstanding(d) : s = p
  BY DEF OneQueue, Outstanding
<1>2. CASE Outstanding(d) = {}
  BY <1>2, FS_EmptySet
<1>3. CASE Outstanding(d) # {}
  <2>1. PICK s : Outstanding(d) = {s}
    BY <1>1, <1>3
  <2>2. Cardinality({s}) = 1
    BY FS_Singleton
  <2> QED
    BY <2>1, <2>2
<1> QED
  BY <1>2, <1>3

-----------------------------------------------------------------------------
(* Activation                                                               *)

\* Why a rollout completes once, and finds a row for each of its nodes: a node
\* that still has the command has not deployed (a prewarm may have set its target
\* to READY or FAILED), a completed rollout is in no queue any more, and the rows
\* of the pool go only together with the rollouts, when the project goes.
CommandTargets ==
  \A d \in Deployments, s \in Servers :
    d \in InQueue(queue[s]) /\ rollout[d].status # "DELETED"
      => rollout[d].target[s].status \in {"DISPATCHED", "READY", "FAILED"}
DoneIsAnswered ==
  \A d \in Deployments, s \in Servers : rollout[d].status = "DEPLOYED" => d \notin InQueue(queue[s])
TargetsHaveRows ==
  \A d \in Deployments, s \in Servers :
    rollout[d].status \notin {"NONE", "DELETED"} /\ rollout[d].target[s].status # "NONE"
      => pool[s].dep # "ABSENT"
AbsentRunNothing == \A s \in Servers : pool[s].dep = "ABSENT" => pool[s].latest = None
GoneHasNothing ==
  project.status = "NONE" =>
    /\ \A d \in Deployments : rollout[d].status \in {"NONE", "DELETED"}
    /\ \A s \in Servers : pool[s].dep = "ABSENT"

ActivationInv ==
  /\ CommandTargets /\ DoneIsAnswered /\ TargetsHaveRows
  /\ AbsentRunNothing /\ GoneHasNothing

LEMMA InitActivation == Init => ActivationInv
BY DEF Init, ActivationInv, CommandTargets, DoneIsAnswered, TargetsHaveRows, AbsentRunNothing,
     GoneHasNothing, NoRollout, NoTarget, NoRow, InQueue

\* A row stays what it is for the activation, or is entered.
RowKept(s) == pool'[s].dep = pool[s].dep /\ pool'[s].latest = pool[s].latest
RowEntered(s) == pool[s].dep = "ABSENT" /\ pool'[s].dep = "PENDING" /\ pool'[s].latest = None
RowsGrow ==
  /\ \A s \in Servers : RowKept(s) \/ (RowEntered(s) /\ project'.status # "NONE")
  /\ project'.status = "NONE" => project.status = "NONE"

\* The kinds of step, for the rows an activation looks at.
QuietStep == RowsGrow /\ UNCHANGED <<rollout, queue, channel, definition>>
BeginStep(d, r, S) ==
  /\ RolledOut(d, r, S) /\ RowsGrow /\ project'.status # "NONE"
  /\ \A s \in S \intersect Servers : pool'[s].dep # "ABSENT"
  /\ UNCHANGED <<channel, definition>>
AnswerStep(s, d, ok) ==
  /\ d \in InQueue(queue[s]) /\ rollout[d].status # "DELETED"
  /\ Applied(s, d, ok)
LateStep(s, d) ==
  /\ rollout[d].status = "DELETED"
  /\ queue' = [queue EXCEPT ![s] = Acknowledged(queue[s], d)]
  /\ UNCHANGED <<project, pool, rollout, channel, definition>>

LEMMA NewRowIs == NewRow \in PoolRows /\ NewRow.dep = "PENDING" /\ NewRow.latest = None
BY DEF NewRow, NoRow, PoolRows, Scheds, Versions

LEMMA BeginKinds ==
  ASSUME RolloutTyped, GoneHasNothing, NEW d \in Deployments, NEW S,
         (\E r \in Releases : Deploy(d, r, S)) \/ Publish(d, S)
  PROVE  \E r \in Releases : BeginStep(d, r, S)
<1>1. ASSUME NEW r \in Releases, Deploy(d, r, S)
      PROVE  BeginStep(d, r, S)
  <2>1. /\ RolledOut(d, r, S) /\ UNCHANGED <<project, channel, definition>>
        /\ project.status # "NONE"
        /\ pool' = [s \in Servers |-> IF s \in S /\ pool[s].dep = "ABSENT" THEN NewRow ELSE pool[s]]
    BY <1>1 DEF Deploy, RolledOut
  <2> QED
    BY <2>1, NewRowIs DEF BeginStep, RowsGrow, RowKept, RowEntered
<1>2. CASE Publish(d, S) /\ project.status = "NONE"
  <2>1. Latest \in Releases
    BY <1>2, LatestIsRelease DEF Publish, RolloutTyped
  <2>2. /\ RolledOut(d, Latest, S) /\ UNCHANGED <<channel, definition>>
        /\ project' = Imported
        /\ pool' = [s \in Servers |-> IF s \in S THEN NewRow ELSE pool[s]]
    BY <1>2 DEF Publish, RolledOut
  <2>3. project'.status # "NONE"
    BY <2>2 DEF Imported, NoProject
  <2>4. \A s \in Servers : pool[s].dep = "ABSENT"
    BY <1>2 DEF GoneHasNothing
  <2> QED
    BY <2>1, <2>2, <2>3, <2>4, NewRowIs DEF BeginStep, RowsGrow, RowKept, RowEntered
<1>3. CASE Publish(d, S) /\ project.status # "NONE"
  <2>1. Latest \in Releases /\ Deploy(d, Latest, S)
    BY <1>3, LatestIsRelease DEF Publish, RolloutTyped
  <2> QED
    BY <2>1, <1>1
<1> QED
  BY <1>1, <1>2, <1>3

LEMMA EditKinds ==
  ASSUME RolloutTyped, Edit
  PROVE  QuietStep \/ RemoveProject
<1>1. ASSUME NEW online, NEW min, UpdateProject(online, min) PROVE QuietStep
  <2>1. project'.status = project.status
    BY <1>1 DEF UpdateProject, RolloutTyped, PlatformTyped, ProjectRows
  <2> QED
    BY <1>1, <2>1 DEF UpdateProject, QuietStep, RowsGrow, RowKept
<1>2. ASSUME NEW S, NEW sched, UpdateServerPool(S, sched) PROVE QuietStep
  <2>1. \A x \in PoolRows : /\ [x EXCEPT !.sched = sched].dep = x.dep
                            /\ [x EXCEPT !.sched = sched].latest = x.latest
    BY DEF PoolRows
  <2>2. ASSUME NEW s \in Servers PROVE RowKept(s) \/ RowEntered(s)
    <3>1. pool[s] \in PoolRows
      BY DEF RolloutTyped, PlatformTyped
    <3> QED
      BY <1>2, <2>1, <3>1, NewRowIs DEF UpdateServerPool, RowKept, RowEntered
  <2> QED
    BY <1>2, <2>2 DEF UpdateServerPool, QuietStep, RowsGrow
<1>3. CASE ArchiveProject
  <2>1. ASSUME NEW s \in Servers PROVE RowKept(s)
    <3>1. pool[s] \in PoolRows
      BY DEF RolloutTyped, PlatformTyped
    <3> QED
      BY <1>3, <3>1 DEF ArchiveProject, RowKept, PoolRows
  <2> QED
    BY <1>3, <2>1 DEF ArchiveProject, QuietStep, RowsGrow
<1> QED
  BY <1>1, <1>2, <1>3 DEF Edit

LEMMA AgentKinds ==
  ASSUME RolloutTyped, NEW s \in Servers, AgentStep(s) \/ Failure(s)
  PROVE  \/ QuietStep
         \/ \E d \in Deployments, ok \in BOOLEAN : AnswerStep(s, d, ok)
         \/ \E d \in Deployments : LateStep(s, d)
         \/ \E verdict \in {"READY", "FAILED"} : \E r : Pulled(s, r, verdict)
<1>1. CASE UNCHANGED platform
  BY <1>1 DEF platform, QuietStep, RowsGrow, RowKept
<1>2. ASSUME NEW health, Heartbeat(s, health) PROVE QuietStep
  <2>1. pool[s] \in PoolRows
    BY DEF RolloutTyped, PlatformTyped
  <2>2. /\ Rescheduled(pool[s], health).dep = pool[s].dep
        /\ Rescheduled(pool[s], health).latest = pool[s].latest
    BY <2>1 DEF Rescheduled, PoolRows
  <2>3. \A p \in Servers : RowKept(p)
    BY <1>2, <2>2 DEF Heartbeat, RowKept, RolloutTyped, PlatformTyped
  <2> QED
    BY <1>2, <2>3 DEF Heartbeat, QuietStep, RowsGrow
<1>3. ASSUME NEW d \in Deployments, Prepare(s, d)
      PROVE  \/ UNCHANGED platform \/ LateStep(s, d)
             \/ \E ok \in BOOLEAN : AnswerStep(s, d, ok)
  <2>1. PICK ok \in BOOLEAN : Answer(s, d, ok)
    BY <1>3 DEF Prepare
  <2> QED
    BY <2>1 DEF Answer, AnswerStep, LateStep
<1>4. CASE Prewarm(s)
  <2>1. UNCHANGED platform \/ \E verdict \in {"READY", "FAILED"} : Pulled(s, pulling[s], verdict)
    BY <1>4 DEF Prewarm
  <2> QED
    BY <1>1, <2>1
<1>5. CASE \/ \E d \in Deployments : PrepareUnheard(s, d) \/ Expire(s, d)
           \/ AgentRestart(s)
           \/ \E mode \in NodeModes : SetNode(s, mode)
  <2>1. UNCHANGED platform
    BY <1>5 DEF PrepareUnheard, AgentRestart, SetNode, Expire
  <2> QED
    BY <1>1, <2>1
<1>6. ASSUME NEW d \in Deployments, Prepare(s, d)
      PROVE  \/ QuietStep \/ LateStep(s, d) \/ \E ok \in BOOLEAN : AnswerStep(s, d, ok)
  BY <1>3, <1>6 DEF platform, QuietStep, RowsGrow, RowKept
<1> QED
  BY <1>2, <1>4, <1>5, <1>6 DEF AgentStep, Failure

LEMMA StepKinds ==
  ASSUME RolloutTyped, GoneHasNothing, ReleaseStep
  PROVE  \/ QuietStep
         \/ \E d \in Deployments, r \in Releases : \E S : BeginStep(d, r, S)
         \/ \E s \in Servers, d \in Deployments, ok \in BOOLEAN : AnswerStep(s, d, ok)
         \/ \E s \in Servers, d \in Deployments : LateStep(s, d)
         \/ \E s \in Servers, verdict \in {"READY", "FAILED"} : \E r : Pulled(s, r, verdict)
         \/ RemoveProject
<1>1. CASE Rollout
  <2>1. CASE \E r \in Releases : Register(r)
    BY <2>1 DEF Register, QuietStep, RowsGrow, RowKept
  <2>2. CASE Import
    <3>1. project'.status # "NONE"
      BY <2>2 DEF Import, Imported, NoProject
    <3> QED
      BY <2>2, <3>1 DEF Import, QuietStep, RowsGrow, RowKept
  <2>3. ASSUME NEW d \in Deployments, NEW S, (\E r \in Releases : Deploy(d, r, S)) \/ Publish(d, S)
        PROVE  \E r \in Releases : BeginStep(d, r, S)
    BY <2>3, BeginKinds
  <2>4. CASE \E d \in Deployments, r \in Releases, S \in TargetChoices \union {AutoSelected} :
               Deploy(d, r, S)
    BY <2>3, <2>4
  <2>5. CASE \E d \in Deployments, S \in TargetChoices : Publish(d, S)
    BY <2>3, <2>5
  <2> QED
    BY <1>1, <2>1, <2>2, <2>4, <2>5 DEF Rollout
<1>2. CASE Edit
  BY <1>2, EditKinds
<1>3. ASSUME NEW s \in Servers, AgentStep(s) \/ Failure(s)
      PROVE  \/ QuietStep
             \/ \E d \in Deployments, ok \in BOOLEAN : AnswerStep(s, d, ok)
             \/ \E d \in Deployments : LateStep(s, d)
             \/ \E verdict \in {"READY", "FAILED"} : \E r : Pulled(s, r, verdict)
  BY <1>3, AgentKinds
<1> QED
  BY <1>1, <1>2, <1>3 DEF ReleaseStep

\* What the answer of a node does to the pool, the channel and the definitions.
LEMMA AppliedPool ==
  ASSUME RolloutTyped, AbsentRunNothing, NEW s \in Servers, NEW d \in Deployments,
         NEW ok \in BOOLEAN, Applied(s, d, ok)
  PROVE  /\ project'.status = project.status
         /\ \A p \in Servers : pool'[p].dep = "ABSENT" <=> pool[p].dep = "ABSENT"
         /\ rollout'[d].status # "DEPLOYED" =>
              /\ \A p \in Servers : pool'[p].latest = pool[p].latest
              /\ UNCHANGED <<channel, definition>>
         /\ rollout'[d].status = "DEPLOYED" =>
              /\ \A p \in Servers :
                   pool'[p].latest = IF p \in TargetsOf(rollout'[d].target) /\ pool[p].dep # "ABSENT"
                                     THEN rollout[d].release ELSE pool[p].latest
              /\ channel' = [channel EXCEPT ![ChannelOf[rollout[d].release]] = rollout[d].release]
              /\ definition' = Synced(rollout[d].release)
<1> DEFINE r == rollout[d].release
           after == Dispatched(AnsweredTargets(s, d, ok))
           failedFirst == ~ok /\ pool[s].dep # "ABSENT" /\ pool[s].latest = None
           failed == [NoRow EXCEPT !.dep = "FAILED", !.img = "FAILED"]
           rows == IF failedFirst THEN [pool EXCEPT ![s] = failed] ELSE pool
<1>1. /\ rollout' = [rollout EXCEPT ![d].target = after, ![d].status = Outcome(after)]
      /\ IF Outcome(after) = "DEPLOYED"
         THEN /\ pool' = Promoted(rows, r, after)
              /\ channel' = [channel EXCEPT ![ChannelOf[r]] = r]
              /\ definition' = Synced(r)
              /\ project' = Brought(project)
         ELSE /\ pool' = rows
              /\ project' = IF Outcome(after) = "BLOCKED" THEN Refreshed ELSE project
              /\ UNCHANGED <<channel, definition>>
  BY DEF Applied, AnsweredTargets
<1>2. rollout'[d].status = Outcome(after) /\ rollout'[d].target = after
  BY <1>1 DEF RolloutTyped, PlatformTyped, RolloutRows
<1>3. failed \in PoolRows /\ failed.dep = "FAILED" /\ failed.latest = None
  BY DEF failed, NoRow, PoolRows, Scheds, Versions
<1>4. \A p \in Servers : /\ rows[p] \in PoolRows
                         /\ rows[p].dep = "ABSENT" <=> pool[p].dep = "ABSENT"
                         /\ rows[p].latest = pool[p].latest
  BY <1>3 DEF RolloutTyped, PlatformTyped
<1> HIDE DEF after, rows, r, failed, failedFirst
<1>5. ASSUME NEW p \in Servers
      PROVE  /\ Promoted(rows, r, after)[p].dep = "ABSENT" <=> pool[p].dep = "ABSENT"
             /\ Promoted(rows, r, after)[p].latest
                  = IF p \in TargetsOf(after) /\ pool[p].dep # "ABSENT" THEN r ELSE pool[p].latest
  <2>1. /\ [rows[p] EXCEPT !.img = "OUTDATED"].latest = rows[p].latest
        /\ [rows[p] EXCEPT !.img = "OUTDATED"].dep = rows[p].dep
    BY <1>4 DEF PoolRows
  <2> QED
    BY <1>4, <2>1 DEF Promoted
<1>6. Brought(project).status = project.status /\ Refreshed.status = project.status
  BY DEF Brought, Refreshed, RolloutTyped, PlatformTyped, ProjectRows
<1>7. CASE Outcome(after) = "DEPLOYED"
  BY <1>1, <1>2, <1>5, <1>6, <1>7 DEF r
<1>8. CASE Outcome(after) # "DEPLOYED"
  BY <1>1, <1>2, <1>4, <1>6, <1>8
<1> QED
  BY <1>7, <1>8

LEMMA PulledPool ==
  ASSUME RolloutTyped, NEW s \in Servers, NEW r, NEW verdict, Pulled(s, r, verdict)
  PROVE  \A p \in Servers : RowKept(p)
BY DEF Pulled, platform, RowKept, RolloutTyped, PlatformTyped, PoolRows

\* The targets of a rollout in which the answer of s has been entered.
LEMMA AnsweredStatuses ==
  ASSUME RolloutTyped, NEW s \in Servers, NEW d \in Deployments, NEW ok \in BOOLEAN
  PROVE  LET t == AnsweredTargets(s, d, ok) IN
         \A p \in Servers :
           Dispatched(t)[p].status = IF p \in Chosen(t) THEN "DISPATCHED"
                                     ELSE IF p = s THEN (IF ok THEN "DEPLOYED" ELSE "FAILED")
                                     ELSE rollout[d].target[p].status
<1> DEFINE t == AnsweredTargets(s, d, ok)
<1>1. /\ t \in Targets
      /\ \A p \in Servers : t[p].status = IF p = s THEN (IF ok THEN "DEPLOYED" ELSE "FAILED")
                                          ELSE rollout[d].target[p].status
  BY AnsweredTyped DEF RolloutTyped
<1> HIDE DEF t
<1>2. \A p \in Servers : Dispatched(t)[p].status = IF p \in Chosen(t) THEN "DISPATCHED"
                                                   ELSE t[p].status
  BY <1>1 DEF Dispatched, Targets, TargetRows
<1> QED
  BY <1>1, <1>2 DEF t

LEMMA BeginActivation ==
  ASSUME RolloutTyped, CommandInv, ActivationInv, NEW d \in Deployments, NEW r \in Releases,
         NEW S, BeginStep(d, r, S)
  PROVE  ActivationInv'
<1> DEFINE t == NewTargets(S)
<1>1. /\ rollout[d].status = "NONE" /\ rollout'[d].status = "DEPLOYING"
      /\ rollout'[d].release = r /\ rollout'[d].target = Dispatched(t)
      /\ \A e \in Deployments \ {d} : rollout'[e] = rollout[e]
      /\ \A s \in Servers : InQueue(queue'[s])
           \subseteq InQueue(queue[s]) \union (IF s \in Chosen(t) THEN {d} ELSE {})
  BY RolledOutRows DEF BeginStep
<1>2. \A s \in Servers : d \notin InQueue(queue[s])
  BY <1>1 DEF CommandInv, NoStrays
<1>3. ASSUME NEW s \in Servers
      PROVE  /\ s \in Chosen(t) => Dispatched(t)[s].status = "DISPATCHED"
             /\ Dispatched(t)[s].status # "NONE" => s \in S
  <2>1. t \in Targets
    BY NewTargetsTyped DEF RolloutTyped
  <2>2. t[s].status = "NONE" \/ s \in S
    BY DEF NewTargets, NoTarget
  <2>3. s \in Chosen(t) => t[s].status = "PENDING_AGENT"
    BY DEF Chosen
  <2> QED
    BY <2>1, <2>2, <2>3 DEF Dispatched, Targets, TargetRows
<1> HIDE DEF t
<1>4. CommandTargets'
  BY <1>1, <1>2, <1>3 DEF ActivationInv, CommandTargets
<1>5. DoneIsAnswered'
  BY <1>1 DEF ActivationInv, DoneIsAnswered
<1>6. \A s \in Servers : pool[s].dep # "ABSENT" => pool'[s].dep # "ABSENT"
  BY DEF BeginStep, RowsGrow, RowKept, RowEntered
<1>7. TargetsHaveRows'
  BY <1>1, <1>3, <1>6 DEF ActivationInv, TargetsHaveRows, BeginStep
<1>8. AbsentRunNothing' /\ GoneHasNothing'
  BY DEF ActivationInv, AbsentRunNothing, GoneHasNothing, BeginStep, RowsGrow, RowKept, RowEntered
<1> QED
  BY <1>4, <1>5, <1>7, <1>8 DEF ActivationInv

LEMMA AnswerActivation ==
  ASSUME RolloutTyped, CommandInv, ActivationInv, NEW s \in Servers, NEW d \in Deployments,
         NEW ok \in BOOLEAN, AnswerStep(s, d, ok)
  PROVE  ActivationInv'
<1> DEFINE t == AnsweredTargets(s, d, ok)
           after == Dispatched(t)
<1>1. /\ rollout'[d].target = after
      /\ \A e \in Deployments \ {d} : rollout'[e] = rollout[e]
      /\ \A p \in Servers :
           InQueue(queue'[p]) \subseteq (InQueue(queue[p]) \ (IF p = s THEN {d} ELSE {}))
                                        \union (IF p \in Chosen(t) THEN {d} ELSE {})
  BY AppliedRows DEF AnswerStep
<1>2. \A p \in Servers : after[p].status = IF p \in Chosen(t) THEN "DISPATCHED"
                                           ELSE IF p = s THEN (IF ok THEN "DEPLOYED" ELSE "FAILED")
                                           ELSE rollout[d].target[p].status
  BY AnsweredStatuses
<1>3. rollout[d].status \notin {"NONE", "DELETED"}
  BY DEF AnswerStep, CommandInv, NoStrays
<1>4. rollout'[d].status = Outcome(after)
  BY DEF AnswerStep, Applied, AnsweredTargets, RolloutTyped, PlatformTyped, RolloutRows
<1>5. /\ project'.status = project.status
      /\ \A p \in Servers : pool'[p].dep = "ABSENT" <=> pool[p].dep = "ABSENT"
      /\ \A p \in Servers : pool[p].dep = "ABSENT" => pool'[p].latest = pool[p].latest
  BY AppliedPool DEF AnswerStep, ActivationInv
<1>6. s \in Servers /\ d \in InQueue(queue[s]) /\ rollout[d].target[s].status # "NONE"
  BY DEF AnswerStep, ActivationInv, CommandTargets
<1> HIDE DEF t, after
<1>7. ASSUME NEW p \in Servers, d \in InQueue(queue'[p])
      PROVE  after[p].status \in {"DISPATCHED", "READY", "FAILED"}
  <2>1. CASE p \in Chosen(t)
    BY <1>2, <2>1
  <2>2. CASE p \notin Chosen(t)
    <3>1. p # s /\ d \in InQueue(queue[p])
      BY <1>1, <1>7, <2>2
    <3> QED
      BY <1>2, <2>2, <3>1 DEF AnswerStep, ActivationInv, CommandTargets
  <2> QED
    BY <2>1, <2>2
<1>8. \A p \in Servers, e \in Deployments \ {d} :
        e \in InQueue(queue'[p]) => e \in InQueue(queue[p])
  BY <1>1
<1>9. CommandTargets'
  BY <1>1, <1>7, <1>8 DEF ActivationInv, CommandTargets
<1>10. DoneIsAnswered'
  <2>1. ASSUME rollout'[d].status = "DEPLOYED", NEW p \in Servers
        PROVE  d \notin InQueue(queue'[p])
    <3>1. Statuses(after) = {"DEPLOYED"}
      BY <1>4, <2>1 DEF Outcome
    <3>2. after[p].status \in {"NONE", "DEPLOYED"}
      BY <3>1 DEF Statuses, TargetsOf
    <3> QED
      BY <1>7, <3>2
  <2> QED
    BY <2>1, <1>1, <1>8 DEF ActivationInv, DoneIsAnswered
<1>11. TargetsHaveRows'
  <2>1. ASSUME NEW p \in Servers, after[p].status # "NONE"
        PROVE  rollout[d].target[p].status # "NONE"
    <3>1. p \in Chosen(t) => t[p].status = "PENDING_AGENT"
      BY DEF Chosen
    <3>2. t[p].status = "PENDING_AGENT" => rollout[d].target[p].status = "PENDING_AGENT"
      BY AnsweredTyped DEF RolloutTyped, t
    <3> QED
      BY <1>2, <1>6, <2>1, <3>1, <3>2
  <2> QED
    BY <2>1, <1>1, <1>3, <1>5 DEF ActivationInv, TargetsHaveRows
<1>12. AbsentRunNothing'
  BY <1>5 DEF ActivationInv, AbsentRunNothing
<1>13. GoneHasNothing'
  BY <1>3, <1>5 DEF ActivationInv, GoneHasNothing
<1> QED
  BY <1>9, <1>10, <1>11, <1>12, <1>13 DEF ActivationInv

LEMMA StepActivation ==
  RolloutTyped /\ CommandInv /\ ActivationInv /\ ReleaseStep => ActivationInv'
<1> SUFFICES ASSUME RolloutTyped, CommandInv, ActivationInv, ReleaseStep
             PROVE  ActivationInv'
  OBVIOUS
<1>1. CASE QuietStep
  <2>1. /\ CommandTargets' /\ DoneIsAnswered'
    BY <1>1 DEF QuietStep, ActivationInv, CommandTargets, DoneIsAnswered
  <2>2. TargetsHaveRows' /\ AbsentRunNothing'
    BY <1>1 DEF QuietStep, RowsGrow, RowKept, RowEntered, ActivationInv, TargetsHaveRows,
         AbsentRunNothing
  <2>3. GoneHasNothing'
    BY <1>1 DEF QuietStep, RowsGrow, RowKept, RowEntered, ActivationInv, GoneHasNothing
  <2> QED
    BY <2>1, <2>2, <2>3 DEF ActivationInv
<1>2. ASSUME NEW d \in Deployments, NEW r \in Releases, NEW S, BeginStep(d, r, S)
      PROVE  ActivationInv'
  BY <1>2, BeginActivation
<1>3. ASSUME NEW s \in Servers, NEW d \in Deployments, NEW ok \in BOOLEAN, AnswerStep(s, d, ok)
      PROVE  ActivationInv'
  BY <1>3, AnswerActivation
<1>4. ASSUME NEW s \in Servers, NEW d \in Deployments, LateStep(s, d)
      PROVE  ActivationInv'
  <2>1. \A p \in Servers : InQueue(queue'[p]) \subseteq InQueue(queue[p])
    BY <1>4, AcknowledgedRows DEF LateStep
  <2> QED
    BY <1>4, <2>1 DEF LateStep, ActivationInv, CommandTargets, DoneIsAnswered, TargetsHaveRows,
         AbsentRunNothing, GoneHasNothing
<1>5. ASSUME NEW s \in Servers, NEW r, NEW verdict \in {"READY", "FAILED"}, Pulled(s, r, verdict)
      PROVE  ActivationInv'
  <2>1. /\ queue' = queue /\ UNCHANGED <<project, published, channel, definition>>
        /\ \A d \in Deployments :
             /\ rollout'[d].status = rollout[d].status
             /\ \A p \in Servers : rollout'[d].target[p].status
                                     \in {rollout[d].target[p].status, verdict}
        /\ \A p \in Servers : RowKept(p)
    BY <1>5, PulledKeeps, PulledPool
  <2>2. ASSUME NEW d \in Deployments, NEW p \in Servers, rollout[d].target[p].status = "NONE"
        PROVE  rollout'[d].target[p].status = "NONE"
    <3>1. /\ rollout[d] \in RolloutRows /\ rollout[d].target \in [Servers -> TargetRows]
          /\ rollout[d].target[s] \in TargetRows
      BY DEF RolloutTyped, PlatformTyped, RolloutRows, Targets
    <3>2. p # s => [rollout[d] EXCEPT !.target[s].status = verdict].target[p] = rollout[d].target[p]
      BY <3>1 DEF RolloutRows
    <3> QED
      BY <1>5, <2>2, <3>2 DEF Pulled, platform
  <2>3. CommandTargets' /\ DoneIsAnswered'
    BY <2>1 DEF ActivationInv, CommandTargets, DoneIsAnswered
  <2>4. TargetsHaveRows' /\ AbsentRunNothing' /\ GoneHasNothing'
    BY <2>1, <2>2 DEF RowKept, ActivationInv, TargetsHaveRows, AbsentRunNothing, GoneHasNothing
  <2> QED
    BY <2>3, <2>4 DEF ActivationInv
<1>6. CASE RemoveProject
  <2>1. /\ rollout' = RemovedRollouts /\ queue' = queue
        /\ \A s \in Servers : pool'[s].dep = "ABSENT" /\ pool'[s].latest = None
    BY <1>6 DEF RemoveProject, NoRow
  <2>2. \A d \in Deployments : rollout'[d].status = IF rollout[d].status = "NONE" THEN "NONE"
                                                    ELSE "DELETED"
    BY <2>1, RemovedRows
  <2> QED
    BY <2>1, <2>2 DEF ActivationInv, CommandTargets, DoneIsAnswered, TargetsHaveRows,
         AbsentRunNothing, GoneHasNothing, CommandInv, NoStrays
<1> QED
  BY <1>1, <1>2, <1>3, <1>4, <1>5, <1>6, StepKinds DEF ActivationInv

LEMMA StutterActivation == ActivationInv /\ UNCHANGED <<platform, agents>> => ActivationInv'
BY DEF platform, agents, ActivationInv, CommandTargets, DoneIsAnswered, TargetsHaveRows,
     AbsentRunNothing, GoneHasNothing

\* The property AtomicActivation, as a formula about one step.
ActivatesAtOnce ==
  (channel' # channel \/ \E s \in Servers : pool'[s].latest # pool[s].latest)
  => \/ project'.status = "NONE"
     \/ \E d \in Deployments :
          /\ rollout[d].status # "DEPLOYED" /\ rollout'[d].status = "DEPLOYED"
          /\ channel'[ChannelOf[rollout[d].release]] = rollout[d].release
          /\ \A s \in Servers : pool'[s].latest # pool[s].latest
               => rollout[d].target[s].status # "NONE"
          /\ \A s \in TargetsOf(rollout[d].target) : pool'[s].latest = rollout[d].release

\* The targets of a rollout are the same before and after an answer.
LEMMA AnswerKeepsTargets ==
  ASSUME RolloutTyped, ActivationInv, NEW s \in Servers, NEW d \in Deployments,
         NEW ok \in BOOLEAN, AnswerStep(s, d, ok)
  PROVE  TargetsOf(rollout'[d].target) = TargetsOf(rollout[d].target)
<1> DEFINE t == AnsweredTargets(s, d, ok)
<1>1. rollout'[d].target = Dispatched(t)
  BY AppliedRows DEF AnswerStep
<1>2. \A p \in Servers : Dispatched(t)[p].status =
          IF p \in Chosen(t) THEN "DISPATCHED"
          ELSE IF p = s THEN (IF ok THEN "DEPLOYED" ELSE "FAILED") ELSE rollout[d].target[p].status
  BY AnsweredStatuses
<1>3. rollout[d].target[s].status # "NONE"
  BY DEF AnswerStep, ActivationInv, CommandTargets
<1>4. \A p \in Servers : t[p].status = IF p = s THEN (IF ok THEN "DEPLOYED" ELSE "FAILED")
                                       ELSE rollout[d].target[p].status
  BY AnsweredTyped DEF RolloutTyped
<1>5. \A p \in Chosen(t) : t[p].status = "PENDING_AGENT"
  BY DEF Chosen
<1> HIDE DEF t
<1>6. \A p \in Servers : p \in Chosen(t) => p # s /\ rollout[d].target[p].status = "PENDING_AGENT"
  BY <1>4, <1>5
<1> QED
  BY <1>1, <1>2, <1>3, <1>6 DEF TargetsOf

LEMMA StepActivates ==
  RolloutTyped /\ CommandInv /\ ActivationInv /\ ReleaseStep => ActivatesAtOnce
<1> SUFFICES ASSUME RolloutTyped, CommandInv, ActivationInv, ReleaseStep
             PROVE  ActivatesAtOnce
  OBVIOUS
<1>1. CASE QuietStep
  <2>1. \A s \in Servers : pool'[s].latest = pool[s].latest
    BY <1>1 DEF QuietStep, RowsGrow, RowKept, RowEntered, ActivationInv, AbsentRunNothing
  <2> QED
    BY <1>1, <2>1 DEF QuietStep, ActivatesAtOnce
<1>2. ASSUME NEW d \in Deployments, NEW r \in Releases, NEW S, BeginStep(d, r, S)
      PROVE  ActivatesAtOnce
  <2>1. \A s \in Servers : pool'[s].latest = pool[s].latest
    BY <1>2 DEF BeginStep, RowsGrow, RowKept, RowEntered, ActivationInv, AbsentRunNothing
  <2> QED
    BY <1>2, <2>1 DEF BeginStep, ActivatesAtOnce
<1>3. ASSUME NEW s \in Servers, NEW d \in Deployments, NEW ok \in BOOLEAN, AnswerStep(s, d, ok)
      PROVE  ActivatesAtOnce
  <2> DEFINE r == rollout[d].release
  <2>1. CASE rollout'[d].status # "DEPLOYED"
    BY <1>3, <2>1, AppliedPool DEF AnswerStep, ActivationInv, ActivatesAtOnce
  <2>2. CASE rollout'[d].status = "DEPLOYED"
    <3>1. /\ \A p \in Servers :
               pool'[p].latest = IF p \in TargetsOf(rollout'[d].target) /\ pool[p].dep # "ABSENT"
                                 THEN r ELSE pool[p].latest
          /\ channel' = [channel EXCEPT ![ChannelOf[r]] = r]
      BY <1>3, <2>2, AppliedPool DEF AnswerStep, ActivationInv
    <3>2. TargetsOf(rollout'[d].target) = TargetsOf(rollout[d].target)
      BY <1>3, AnswerKeepsTargets
    <3>3. rollout[d].status \notin {"NONE", "DELETED", "DEPLOYED"} /\ r \in Releases
      <4>1. rollout[d].status \notin {"NONE", "DELETED", "DEPLOYED"}
        BY <1>3 DEF AnswerStep, CommandInv, NoStrays, ActivationInv, DoneIsAnswered
      <4> QED
        BY <4>1 DEF CommandInv, LiveHasRelease
    <3>4. \A p \in TargetsOf(rollout[d].target) : p \in Servers /\ pool[p].dep # "ABSENT"
      BY <3>3 DEF ActivationInv, TargetsHaveRows, TargetsOf
    <3>5. channel'[ChannelOf[r]] = r
      <4>1. ChannelOf[r] \in Channels
        BY <3>3 DEF Channels
      <4> QED
        BY <3>1, <4>1 DEF RolloutTyped, PlatformTyped
    <3>6. \A p \in Servers : pool'[p].latest # pool[p].latest => rollout[d].target[p].status # "NONE"
      BY <3>1, <3>2 DEF TargetsOf
    <3>7. \A p \in TargetsOf(rollout[d].target) : pool'[p].latest = r
      BY <3>1, <3>2, <3>4
    <3> QED
      BY <2>2, <3>3, <3>5, <3>6, <3>7 DEF ActivatesAtOnce
  <2> QED
    BY <2>1, <2>2
<1>4. ASSUME NEW s \in Servers, NEW d \in Deployments, LateStep(s, d)
      PROVE  ActivatesAtOnce
  BY <1>4 DEF LateStep, ActivatesAtOnce
<1>5. ASSUME NEW s \in Servers, NEW r, NEW verdict \in {"READY", "FAILED"}, Pulled(s, r, verdict)
      PROVE  ActivatesAtOnce
  BY <1>5, PulledKeeps, PulledPool DEF RowKept, ActivatesAtOnce
<1>6. CASE RemoveProject
  BY <1>6 DEF RemoveProject, NoProject, ActivatesAtOnce
<1> QED
  BY <1>1, <1>2, <1>3, <1>4, <1>5, <1>6, StepKinds DEF ActivationInv

LEMMA StutterActivates == UNCHANGED <<platform, agents>> => ActivatesAtOnce
BY DEF platform, agents, ActivatesAtOnce

-----------------------------------------------------------------------------
(* Definitions                                                              *)

\* The definitions on offer are those of a release some channel points to: the
\* one activated last, for every activation moves its channel and the definitions
\* together.  With more than one channel it need not be the stable one.
OfferedBy(r) == \A k \in Keys : definition[k].disc = "ACTIVE" <=> k \in Manifest[r]
NothingOffered ==
  /\ \A k \in Keys : definition[k].disc # "ACTIVE"
  /\ \A c \in Channels : channel[c] = None
OfferFollowsChannel ==
  NothingOffered \/ \E c \in Channels : channel[c] \in Releases /\ OfferedBy(channel[c])

\* A definition on offer is in the manifest it was copied from.
OfferIsCopied ==
  \A k \in Keys : definition[k].disc = "ACTIVE"
                  => definition[k].from \in Releases /\ k \in Manifest[definition[k].from]

OfferInv == OfferFollowsChannel /\ OfferIsCopied

LEMMA InitOffer == Init => OfferInv
BY DEF Init, OfferInv, OfferFollowsChannel, NothingOffered, OfferIsCopied, NoDefinition

\* What the invariant says of the definitions depends on two of their fields only.
LEMMA KeepsOffer ==
  ASSUME OfferInv, channel' = channel,
         \A k \in Keys : /\ definition'[k].disc = definition[k].disc
                         /\ definition'[k].from = definition[k].from
  PROVE  OfferInv'
BY DEF OfferInv, OfferFollowsChannel, NothingOffered, OfferedBy, OfferIsCopied

LEMMA SyncedIs ==
  ASSUME RolloutTyped, NEW r, NEW k \in Keys
  PROVE  /\ Synced(r)[k].disc = "ACTIVE" <=> k \in Manifest[r]
         /\ k \in Manifest[r] => Synced(r)[k].from = r
         /\ Synced(r)[k].orch = definition[k].orch
<1>1. definition[k] \in DefinitionRows
  BY DEF RolloutTyped, PlatformTyped
<1> QED
  BY <1>1 DEF Synced, DefinitionRows

LEMMA StepOffer ==
  RolloutTyped /\ CommandInv /\ ActivationInv /\ OfferInv /\ ReleaseStep => OfferInv'
<1> SUFFICES ASSUME RolloutTyped, CommandInv, ActivationInv, OfferInv, ReleaseStep
             PROVE  OfferInv'
  OBVIOUS
<1>1. CASE UNCHANGED <<channel, definition>>
  BY <1>1, KeepsOffer
<1>2. ASSUME NEW s \in Servers, NEW d \in Deployments, NEW ok \in BOOLEAN, AnswerStep(s, d, ok)
      PROVE  OfferInv'
  <2> DEFINE r == rollout[d].release
  <2>1. CASE rollout'[d].status # "DEPLOYED"
    BY <1>1, <1>2, <2>1, AppliedPool DEF AnswerStep, ActivationInv
  <2>2. CASE rollout'[d].status = "DEPLOYED"
    <3>1. channel' = [channel EXCEPT ![ChannelOf[r]] = r] /\ definition' = Synced(r)
      BY <1>2, <2>2, AppliedPool DEF AnswerStep, ActivationInv
    <3>2. r \in Releases
      BY <1>2 DEF AnswerStep, CommandInv, NoStrays, LiveHasRelease
    <3>3. ChannelOf[r] \in Channels /\ channel'[ChannelOf[r]] = r
      BY <3>1, <3>2 DEF Channels, RolloutTyped, PlatformTyped
    <3>4. \A k \in Keys : /\ definition'[k].disc = "ACTIVE" <=> k \in Manifest[r]
                          /\ k \in Manifest[r] => definition'[k].from = r
      BY <3>1, SyncedIs
    <3>5. OfferIsCopied'
      BY <3>2, <3>4 DEF OfferIsCopied
    <3>6. OfferFollowsChannel'
      BY <3>2, <3>3, <3>4 DEF OfferFollowsChannel, OfferedBy
    <3> QED
      BY <3>5, <3>6 DEF OfferInv
  <2> QED
    BY <2>1, <2>2
<1>3. CASE RemoveProject
  <2>1. /\ \A k \in Keys : definition'[k].disc = "NONE"
        /\ \A c \in Channels : channel'[c] = None
    BY <1>3 DEF RemoveProject, NoDefinition
  <2> QED
    BY <2>1 DEF OfferInv, OfferFollowsChannel, NothingOffered, OfferIsCopied
<1>4. ASSUME NEW s \in Servers, NEW r, NEW verdict \in {"READY", "FAILED"}, Pulled(s, r, verdict)
      PROVE  UNCHANGED <<channel, definition>>
  BY <1>4, PulledKeeps
<1> QED
  BY <1>1, <1>2, <1>3, <1>4, StepKinds DEF ActivationInv, QuietStep, BeginStep, LateStep

\* The releases of a project that uses the stable channel alone, the default of
\* a manifest (schemas.py).
OnlyStable == \A r \in Releases : ChannelOf[r] = "stable"

LEMMA OfferOfStable == RolloutTyped /\ OnlyStable /\ OfferInv => DefinitionsFollowChannel
<1> SUFFICES ASSUME RolloutTyped, OnlyStable, OfferInv PROVE DefinitionsFollowChannel
  OBVIOUS
<1>1. Channels = {"stable"}
  BY DEF OnlyStable, Channels
<1>2. None \notin Releases
  BY RolloutAssumption
<1> QED
  BY <1>1, <1>2 DEF OfferInv, OfferFollowsChannel, NothingOffered, OfferedBy,
       DefinitionsFollowChannel

-----------------------------------------------------------------------------
(* The specification                                                        *)

RolloutInv ==
  /\ RolloutTyped /\ TestedInv /\ CommandInv /\ PullsCounted
  /\ MaxParallel = 1 => OneQueue
  /\ ActivationInv /\ OfferInv

LEMMA InitRollout == Init => RolloutInv
BY InitTyped, InitTested, InitCommand, InitCounted, InitOneQueue, InitActivation, InitOffer
   DEF RolloutInv

LEMMA StepRollout == RolloutInv /\ ReleaseStep => RolloutInv' /\ ActivatesAtOnce
BY StepTyped, StepTested, StepCommand, StepCounted, StepOneQueue, StepActivation, StepOffer,
   StepActivates DEF RolloutInv

LEMMA StutterRollout == RolloutInv /\ UNCHANGED <<platform, agents>> => RolloutInv' /\ ActivatesAtOnce
<1> SUFFICES ASSUME RolloutInv, UNCHANGED <<platform, agents>>
             PROVE  RolloutInv' /\ ActivatesAtOnce
  OBVIOUS
<1>1. OfferInv'
  BY KeepsOffer DEF RolloutInv, platform
<1>2. RolloutTyped' /\ TestedInv' /\ CommandInv' /\ PullsCounted' /\ ActivationInv'
  BY StutterTyped, StutterTested, StutterCommand, StutterCounted, StutterActivation DEF RolloutInv
<1>3. (MaxParallel = 1 => OneQueue)'
  BY StutterOneQueue DEF RolloutInv
<1> QED
  BY <1>1, <1>2, <1>3, StutterActivates DEF RolloutInv

LEMMA RolloutInvariant == Spec => []RolloutInv
<1>1. RolloutInv /\ [Next]_vars => RolloutInv'
  <2>1. UNCHANGED vars => UNCHANGED <<platform, agents>>
    BY DEF vars, platform, agents
  <2> QED
    BY <2>1, NextIsReleaseStep, StepRollout, StutterRollout
<1> QED
  BY <1>1, InitRollout, PTL DEF Spec

\* The rows of the project, its pool, rollouts, channels and definitions keep
\* their types, whatever the handlers do (project_service.py and the others).
THEOREM RolloutTypeCorrect == Spec => []TypeOK
<1>1. RolloutInv => TypeOK
  BY TypedImpliesTypeOK DEF RolloutInv
<1> QED
  BY <1>1, RolloutInvariant, PTL

\* Rollouts by themselves: what a node runs has passed its test on that node
\* (report_agent_command_result, activate_deployment, report_image_pull_result).
THEOREM RunningIsTested == Spec => []RunningReleaseIsTested
<1>1. RolloutInv => RunningReleaseIsTested
  BY DEF RolloutInv, TestedInv
<1> QED
  BY <1>1, RolloutInvariant, PTL

\* A rollout never counts more targets as being worked on than maxParallelPulls
\* allows, for any limit (dispatch_project_deployment_targets); the commands that
\* are out are another matter, see ParallelPulls.
THEOREM SlotsRespected == Spec => []PullsCounted
<1>1. RolloutInv => PullsCounted
  BY DEF RolloutInv
<1> QED
  BY <1>1, RolloutInvariant, PTL

\* With maxParallelPulls = 1, one command of a rollout at a time is out.
THEOREM OnePullAtATime == Spec => []SinglePull
<1>1. RolloutInv => SinglePull
  BY OneQueueIsSinglePull DEF RolloutInv
<1> QED
  BY <1>1, RolloutInvariant, PTL

\* Nodes and channel move together, in the step that completes a rollout
\* (activate_deployment).
THEOREM ActivationIsAtomic == Spec => AtomicActivation
<1>1. RolloutInv /\ [Next]_vars => ActivatesAtOnce
  <2>1. UNCHANGED vars => UNCHANGED <<platform, agents>>
    BY DEF vars, platform, agents
  <2> QED
    BY <2>1, NextIsReleaseStep, StepRollout, StutterRollout
<1>2. RolloutInv /\ [Next]_vars => [ActivatesAtOnce]_vars
  BY <1>1
<1>3. Spec => [][ActivatesAtOnce]_vars
  BY <1>2, RolloutInvariant, PTL DEF Spec
<1> QED
  BY <1>3 DEF AtomicActivation, ActivatesAtOnce

\* The definitions on offer are those of some channel's release, and of the
\* stable one where it is the only channel (activate_deployment,
\* sync_from_release).
THEOREM OfferIsActivated == Spec => [](OfferFollowsChannel /\ (OnlyStable => DefinitionsFollowChannel))
<1>1. RolloutInv => OfferFollowsChannel /\ (OnlyStable => DefinitionsFollowChannel)
  BY OfferOfStable DEF RolloutInv, OfferInv
<1> QED
  BY <1>1, RolloutInvariant, PTL

===============================================================================
