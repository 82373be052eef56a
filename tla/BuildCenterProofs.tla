------------------------- MODULE BuildCenterProofs -------------------------
EXTENDS BuildCenter, TLAPS

-----------------------------------------------------------------------------
(* Types *)

BuildRows == [status  : {"ABSENT"} \cup Underway \cup Ended,
              release : {NoImage} \cup Images]
BuilderPc == Stages \cup {"IDLE", "NEW", "READY", "BUILT", "REGISTER", "ADD", "REFUSED", "BROKEN", "ENDING"}
Threads   == [pc : BuilderPc, job : Jobs, saw : Underway \cup {"NONE"},
              digest : {NoImage} \cup Images]
Calls     == [pc : {"NONE", "GET", "REQUEUE", "CANCEL", "INSERT"}, job : Jobs]

LEMMA StartingBuilds ==
  /\ 1 \in Jobs
  /\ NoJob \in BuildRows /\ Asleep \in Threads /\ Hung \in Calls
  /\ \A j \in Jobs : [Asleep EXCEPT !.pc = "NEW", !.job = j] \in Threads
<1>1. 1 \in Jobs
  BY BuildAssumption DEF Jobs
<1>. QED
  BY <1>1 DEF NoJob, BuildRows, Asleep, Threads, BuilderPc, Hung, Calls

BuildTyped ==
  /\ build \in [Jobs -> BuildRows] /\ building \subseteq Jobs
  /\ builder \in [Builders -> Threads] /\ call \in [Clients -> Calls]
  /\ tag \in {NoImage} \cup Images /\ pushed \subseteq Images
  /\ release \in {NoImage} \cup Images /\ restarts \in 0..MaxRestarts

LEMMA BuildTypes == (BuildTypeOK <=> BuildTyped) /\ (BuildTypeOK' <=> BuildTyped')
BY DEF BuildTypeOK, BuildTyped, BuildRows, Threads, BuilderPc, Calls

\* What follows a stage: nothing if the job is CANCELED.
LEMMA NextStageCases ==
  ASSUME NEW b, NEW stage \in Stages
  PROVE  /\ NextStage(b, stage) \in {"DOCKER_BUILD", "DOCKER_PUSH", "MANIFEST", "BUILT", "REFUSED"}
         /\ build[builder[b].job].status = "CANCELED" => NextStage(b, stage) = "REFUSED"
BY DEF NextStage, After, Stages, Sources

LEMMA FallbackCases ==
  Fallback["GIT"] = "BUNDLE" /\ Fallback["BUNDLE"] = "ARCHIVE"
    /\ Fallback["ARCHIVE"] = "CACHE" /\ Fallback["CACHE"] = "REFUSED"
BY DEF Fallback, Sources

\* The thread that Started picks is a free one, and works on the job.
LEMMA StartedPicks ==
  ASSUME NEW j \in Jobs, Started(j)
  PROVE  \E b \in Builders :
           /\ Resting(b)
           /\ builder' = [builder EXCEPT ![b] = [Asleep EXCEPT !.pc = "NEW", !.job = j]]
<1>. DEFINE b == IF Resting(j) THEN j ELSE CHOOSE free \in Builders : Resting(free)
<1>1. b \in Builders /\ Resting(b)
  BY BuildAssumption DEF Started, Jobs
<1>2. builder' = [builder EXCEPT ![b] = [Asleep EXCEPT !.pc = "NEW", !.job = j]]
  BY DEF Started
<1>. QED
  BY <1>1, <1>2

LEMMA LaunchKeepsType ==
  ASSUME BuildTypeOK, NEW j \in Jobs, Launch(j)
  PROVE  building' \subseteq Jobs /\ builder' \in [Builders -> Threads]
<1>1. CASE j \in building
  BY <1>1, BuildTypes DEF BuildTyped, Launch
<1>2. CASE j \notin building
  <2>1. building' = building \cup {j} /\ Started(j)
    BY <1>2 DEF Launch
  <2>. QED
    BY <2>1, StartedPicks, StartingBuilds, BuildTypes DEF BuildTyped
<1>. QED
  BY <1>1, <1>2

\* The next place of a thread that a step moves.
Advances(b) ==
  /\ builder' \in [Builders -> Threads]
  /\ \A c \in Builders \ {b} : builder'[c] = builder[c]
  /\ builder'[b].job = builder[b].job

LEMMA MovesOnward ==
  ASSUME BuildTypeOK, NEW b \in Builders, NEW pc \in BuilderPc, Moves(b, pc)
  PROVE  /\ Advances(b)
         /\ builder'[b].pc = pc /\ builder'[b].digest = builder[b].digest
<1>1. [builder[b] EXCEPT !.pc = pc] \in Threads
  BY BuildTypes DEF BuildTyped, Threads
<1>. QED
  BY <1>1, BuildTypes DEF BuildTyped, Moves, Advances, Threads

LEMMA MovesOnwardWith ==
  ASSUME BuildTypeOK, NEW b \in Builders, NEW pc \in BuilderPc,
         NEW digest \in {NoImage} \cup Images, MovesWith(b, pc, digest)
  PROVE  /\ Advances(b)
         /\ builder'[b].pc = pc /\ builder'[b].digest = digest
<1>1. [builder[b] EXCEPT !.pc = pc, !.digest = digest] \in Threads
  BY ZenonT(40), BuildTypes DEF BuildTyped, Threads
<1>. QED
  BY <1>1, BuildTypes DEF BuildTyped, MovesWith, Advances, Threads

\* Each step of a thread but its end.
Working(b) ==
  \/ BuilderReads(b) \/ BuilderStarts(b) \/ BuilderNotReady(b)
  \/ Cloned(b) \/ GitFails(b) \/ BundleFails(b) \/ ArchiveFails(b) \/ CacheFails(b)
  \/ StageWorks(b) \/ Pushes(b) \/ WritesManifest(b)
  \/ StageRefused(b) \/ StageBreaks(b)
  \/ Succeeds(b) \/ Registers(b) \/ FindsNoRelease(b) \/ AddsRelease(b) \/ AddFails(b)
  \/ RegisterRefused(b)
  \/ Refused(b) \/ Fails(b)

\* A working thread stays on its job; it takes a digest only from a manifest
\* that names the pushed image of the tag, and gives it up when it has
\* registered.
WorksOn(b) ==
  /\ Advances(b)
  /\ builder[b].pc # "IDLE" /\ builder'[b].pc # "IDLE"
  /\ builder'[b].digest \in {NoImage, builder[b].digest} \cup pushed

LEMMA WorkingWorksOn ==
  ASSUME BuildTypeOK, NEW b \in Builders, Working(b)
  PROVE  WorksOn(b)
<1>. USE DEF WorksOn
<1>. Sources \subseteq Stages /\ Stages \subseteq BuilderPc
  BY DEF Stages, BuilderPc
<1>1. CASE BuilderReads(b)
  <2>1. CASE Moves(b, "ENDING")
    BY <1>1, <2>1, MovesOnward DEF BuilderReads, BuilderPc
  <2>2. CASE /\ build[builder[b].job].status \in Underway
             /\ builder' = [builder EXCEPT ![b].pc = "READY",
                                           ![b].saw = build[builder[b].job].status]
    <3>1. builder[b] \in Threads /\ builder \in [Builders -> Threads] /\ "READY" \in BuilderPc
      BY BuildTypes DEF BuildTyped, BuilderPc
    <3>2. ASSUME NEW saw \in Underway
          PROVE  [builder[b] EXCEPT !.pc = "READY", !.saw = saw] \in Threads
      BY <3>1 DEF Threads
    <3>3. builder'[b] \in Threads /\ builder'[b] =
            [builder[b] EXCEPT !.pc = "READY", !.saw = build[builder[b].job].status]
      BY <2>2, <3>1, <3>2
    <3>. QED
      BY <1>1, <2>2, <3>1, <3>3 DEF BuilderReads, Threads, Advances
  <2>. QED
    BY <1>1, <2>1, <2>2 DEF BuilderReads
<1>2. CASE BuilderStarts(b) \/ BuilderNotReady(b)
  BY <1>2, BuildTypes DEF BuildTyped, BuilderStarts, BuilderNotReady, Threads, BuilderPc, Stages, Sources, Advances
<1>3. CASE Cloned(b) \/ StageWorks(b) \/ Pushes(b)
  <2>1. builder[b].pc \in Stages \ {"MANIFEST"} /\ Moves(b, NextStage(b, builder[b].pc))
    BY <1>3 DEF Cloned, StageWorks, Pushes, Stages, Sources
  <2>2. NextStage(b, builder[b].pc) \in BuilderPc
    BY <2>1, NextStageCases DEF BuilderPc, Stages
  <2>. QED
    BY <2>1, <2>2, MovesOnward, NextStageCases DEF Stages, Sources
<1>4. CASE GitFails(b) \/ BundleFails(b) \/ ArchiveFails(b) \/ CacheFails(b)
  <2>1. PICK pc \in {"BUNDLE", "ARCHIVE", "CACHE", "REFUSED", "BROKEN"} :
           builder[b].pc \in Sources /\ Moves(b, pc)
    BY <1>4, FallbackCases DEF GitFails, BundleFails, ArchiveFails, CacheFails, Sources
  <2>. QED
    BY <2>1, MovesOnward DEF BuilderPc, Stages, Sources
<1>5. CASE WritesManifest(b)
  <2>1. PICK pc \in {"BUILT", "REFUSED"}, digest \in {NoImage} \cup Images :
          MovesWith(b, pc, digest) /\ digest \in {NoImage} \cup pushed
    BY <1>5 DEF WritesManifest, DigestMatches, Readable
  <2>2. pc \in BuilderPc /\ builder[b].pc = "MANIFEST"
    BY <1>5 DEF WritesManifest, BuilderPc
  <2>. QED
    BY <2>1, <2>2, MovesOnwardWith
<1>6. CASE StageRefused(b) \/ StageBreaks(b)
  <2>1. PICK pc \in {"REFUSED", "BROKEN"} : builder[b].pc \in Stages \ Sources /\ Moves(b, pc)
    BY <1>6 DEF StageRefused, StageBreaks
  <2>. QED
    BY <2>1, MovesOnward DEF BuilderPc, Stages, Sources
<1>7. CASE Succeeds(b) \/ Fails(b)
  BY <1>7, MovesOnward DEF Succeeds, Fails, BuilderPc
<1>8. CASE Registers(b) \/ AddsRelease(b) \/ AddFails(b) \/ RegisterRefused(b)
  <2>1. PICK pc \in {"ENDING", "REFUSED"} :
          builder[b].pc \in {"REGISTER", "ADD"} /\ MovesWith(b, pc, NoImage)
    BY <1>8 DEF Registers, AddsRelease, AddFails, RegisterRefused
  <2>. QED
    BY <2>1, MovesOnwardWith DEF BuilderPc
<1>8a. CASE FindsNoRelease(b)
  BY <1>8a, MovesOnward DEF FindsNoRelease, BuilderPc
<1>9. CASE Refused(b)
  <2>1. PICK pc \in {"ENDING", "BROKEN"} : builder[b].pc = "REFUSED" /\ Moves(b, pc)
    BY <1>9 DEF Refused
  <2>. QED
    BY <2>1, MovesOnward DEF BuilderPc
<1>. QED
  BY <1>1, <1>2, <1>3, <1>4, <1>5, <1>6, <1>7, <1>8, <1>8a, <1>9 DEF Working

\* Each step of a request.
Requesting ==
  \/ \E j \in Jobs : StartReuses(j) \/ Retry(j) \/ Polled(j)
  \/ \E c \in Clients, j \in Jobs : CancelReads(c, j) \/ PollReads(c, j)
  \/ \E c \in Clients : StartLooks(c) \/ StartInserts(c) \/ CancelCommits(c)
                          \/ PollLeaves(c) \/ PollFindsStale(c) \/ PollRequeues(c)

\* A request writes the status of one row at most.
RowWritten ==
  \/ UNCHANGED build
  \/ \E j \in Jobs, status \in {"PENDING", "CANCELED"} :
        build' = [build EXCEPT ![j].status = status]

LaunchedAtMost == UNCHANGED <<building, builder>> \/ \E j \in Jobs : Launch(j)

LEMMA RowWrittenType ==
  ASSUME BuildTypeOK, RowWritten
  PROVE  build' \in [Jobs -> BuildRows] /\ \A j \in Jobs : build'[j].release = build[j].release
<1>1. CASE UNCHANGED build
  BY <1>1, BuildTypes DEF BuildTyped
<1>2. ASSUME NEW j \in Jobs, NEW status \in {"PENDING", "CANCELED"},
             build' = [build EXCEPT ![j].status = status]
      PROVE  build' \in [Jobs -> BuildRows] /\ \A k \in Jobs : build'[k].release = build[k].release
  <2>1. [build[j] EXCEPT !.status = status] \in BuildRows
    BY BuildTypes DEF BuildTyped, BuildRows, Underway, Ended
  <2>. QED
    BY <1>2, <2>1, BuildTypes DEF BuildTyped, BuildRows
<1>. QED
  BY <1>1, <1>2 DEF RowWritten

LEMMA RequestingWrites ==
  ASSUME BuildTypeOK, Requesting
  PROVE  /\ RowWritten /\ LaunchedAtMost /\ UNCHANGED <<imageVars, restarts>>
         /\ call' \in [Clients -> Calls]
<1>. USE DEF RowWritten, LaunchedAtMost
<1>1. ASSUME NEW j \in Jobs, StartReuses(j) \/ Retry(j) \/ Polled(j)
      PROVE  RowWritten /\ LaunchedAtMost /\ UNCHANGED <<imageVars, restarts, call>>
  BY <1>1 DEF StartReuses, Retry, Polled, PollPending, PollRecovers, Requeued, Inserted
<1>2. ASSUME NEW c \in Clients, NEW j \in Jobs, CancelReads(c, j) \/ PollReads(c, j)
      PROVE  UNCHANGED <<build, building, builder, imageVars, restarts>> /\ call' \in [Clients -> Calls]
  BY <1>2, BuildTypes DEF BuildTyped, CancelReads, PollReads, Calling, Calls
<1>3. ASSUME NEW c \in Clients, StartLooks(c) \/ PollFindsStale(c)
      PROVE  UNCHANGED <<build, building, builder, imageVars, restarts>> /\ call' \in [Clients -> Calls]
  <2>1. CASE StartLooks(c)
    <3>1. [pc |-> "INSERT", job |-> Hung.job] \in Calls
      BY StartingBuilds DEF Hung, Calls
    <3>. QED
      BY <2>1, <3>1, BuildTypes DEF BuildTyped, StartLooks, Calling
  <2>2. CASE PollFindsStale(c)
    <3>1. [call[c] EXCEPT !.pc = "REQUEUE"] \in Calls
      BY BuildTypes DEF BuildTyped, Calls
    <3>. QED
      BY <2>2, <3>1, BuildTypes DEF BuildTyped, PollFindsStale
  <2>. QED
    BY <1>3, <2>1, <2>2
<1>4. ASSUME NEW c \in Clients, StartInserts(c) \/ CancelCommits(c) \/ PollLeaves(c) \/ PollRequeues(c)
      PROVE  /\ RowWritten /\ LaunchedAtMost /\ UNCHANGED <<imageVars, restarts>>
             /\ call' = [call EXCEPT ![c] = Hung]
  <2>1. call[c].job \in Jobs
    BY BuildTypes DEF BuildTyped, Calls
  <2>. QED
    BY <1>4, <2>1 DEF StartInserts, CancelCommits, PollLeaves, PollRequeues, Requeued, Inserted
<1>. QED
  BY <1>1, <1>2, <1>3, <1>4, BuildTypes, StartingBuilds DEF BuildTyped, Requesting

\* The steps that register a release under the thread's digest, whether the
\* version has this one already or none.
Registered(b) ==
  /\ release \in {NoImage, builder[b].digest}
  /\ release' = builder[b].digest
  /\ build' = [build EXCEPT ![builder[b].job].release = builder[b].digest]
  /\ UNCHANGED <<tag, pushed>>

\* What a working thread writes besides its own state.
LEMMA WorkingWrites ==
  ASSUME BuildTypeOK, NEW b \in Builders, Working(b)
  PROVE  /\ UNCHANGED <<building, call, restarts>>
         /\ tag' = tag \/ tag' \in Images
         /\ pushed' = pushed \/ (tag # NoImage /\ pushed' = pushed \cup {tag})
         /\ \/ Registered(b)
            \/ UNCHANGED <<build, release>>
            \/ /\ UNCHANGED release
               /\ \E status \in {"RUNNING", "SUCCEEDED", "FAILED"} :
                     build' = [build EXCEPT ![builder[b].job].status = status]
<1>1. CASE Registers(b) \/ AddsRelease(b)
  BY <1>1 DEF Registers, AddsRelease, Agrees, Registered
<1>2. CASE ~Registers(b) /\ ~AddsRelease(b)
  BY <1>2
  DEF Working, BuilderReads, BuilderStarts, BuilderNotReady, Cloned, GitFails, BundleFails,
      ArchiveFails, CacheFails, StageWorks, Pushes, WritesManifest, StageRefused, StageBreaks,
      Succeeds, FindsNoRelease, AddFails, RegisterRefused, Refused, Fails, imageVars
<1>. QED
  BY <1>1, <1>2

LEMMA WorkingKeepsType ==
  ASSUME BuildTypeOK, NEW b \in Builders, Working(b)
  PROVE  BuildTypeOK'
<1>. DEFINE j == builder[b].job
<1>1. j \in Jobs /\ builder[b].digest \in {NoImage} \cup Images
  BY BuildTypes DEF BuildTyped, Threads
<1>2. builder' \in [Builders -> Threads]
  BY WorkingWorksOn DEF WorksOn, Advances
<1>3. build' \in [Jobs -> BuildRows] /\ release' \in {NoImage} \cup Images
  <2>1. CASE UNCHANGED <<build, release>>
    BY <2>1, BuildTypes DEF BuildTyped
  <2>2. ASSUME UNCHANGED release, NEW status \in {"RUNNING", "SUCCEEDED", "FAILED"},
               build' = [build EXCEPT ![j].status = status]
        PROVE  build' \in [Jobs -> BuildRows] /\ release' \in {NoImage} \cup Images
    <3>1. [build[j] EXCEPT !.status = status] \in BuildRows
      BY <1>1, BuildTypes DEF BuildTyped, BuildRows, Underway, Ended
    <3>. QED
      BY <1>1, <2>2, <3>1, BuildTypes DEF BuildTyped
  <2>3. CASE Registered(b)
    <3>1. [build[j] EXCEPT !.release = builder[b].digest] \in BuildRows
      BY <1>1, BuildTypes DEF BuildTyped, BuildRows
    <3>. QED
      BY <1>1, <2>3, <3>1, BuildTypes DEF BuildTyped, Registered
  <2>. QED
    BY <2>1, <2>2, <2>3, WorkingWrites
<1>4. /\ UNCHANGED <<building, call, restarts>>
      /\ tag' \in {NoImage} \cup Images /\ pushed' \subseteq Images
  BY WorkingWrites, BuildTypes DEF BuildTyped
<1>. QED
  BY <1>1, <1>2, <1>3, <1>4, BuildTypes DEF BuildTyped

LEMMA BuildSteps ==
  BuildNext <=> \/ \E b \in Builders : Working(b) \/ BuilderEnds(b)
                \/ Requesting
                \/ ApiRestarts
BY DEF BuildNext, BuilderSteps, Working, Requesting

LEMMA BuildTypeInitially == BuildInit => BuildTypeOK
<1>1. 0 \in 0..MaxRestarts
  BY BuildAssumption
<1>. QED
  BY <1>1, StartingBuilds, BuildTypes DEF BuildTyped, BuildInit

LEMMA BuildTypeStep == BuildTypeOK /\ [BuildNext]_buildVars => BuildTypeOK'
<1>. SUFFICES ASSUME BuildTypeOK, [BuildNext]_buildVars
              PROVE  BuildTypeOK'
  OBVIOUS
<1>1. CASE UNCHANGED buildVars
  BY <1>1, BuildTypes DEF BuildTyped, buildVars, imageVars
<1>2. ASSUME NEW b \in Builders, BuilderEnds(b)
      PROVE  BuildTypeOK'
  BY <1>2, BuildTypes, StartingBuilds DEF BuildTyped, BuilderEnds, Discarded, imageVars
<1>3. CASE Requesting
  <2>1. building' \subseteq Jobs /\ builder' \in [Builders -> Threads]
    BY <1>3, RequestingWrites, LaunchKeepsType, BuildTypes DEF BuildTyped, LaunchedAtMost
  <2>. QED
    BY <1>3, <2>1, RequestingWrites, RowWrittenType, BuildTypes DEF BuildTyped, imageVars
<1>4. CASE ApiRestarts
  <2>1. restarts' \in 0..MaxRestarts
    BY <1>4, BuildTypes, BuildAssumption DEF BuildTyped, ApiRestarts
  <2>. QED
    BY <1>4, <2>1, BuildTypes, StartingBuilds DEF BuildTyped, ApiRestarts, imageVars
<1>. QED
  BY <1>1, <1>2, <1>3, <1>4, WorkingKeepsType, BuildSteps

\* The rows, the threads and the requests keep their types.
THEOREM BuildTypeCorrect == BuildSpec => []BuildTypeOK
BY BuildTypeInitially, BuildTypeStep, PTL DEF BuildSpec

-----------------------------------------------------------------------------
(* One thread per job.  The set lists the job of every thread that has not *)
(* come to its end, so a job outside the set has no thread when one is     *)
(* started for it.                                                         *)

ThreadIsListed == \A b \in Builders : ~Resting(b) => builder[b].job \in building

ThreadsInv == OneThreadPerJob /\ ThreadIsListed

LEMMA LaunchKeepsThreads ==
  ASSUME BuildTypeOK, ThreadsInv, NEW j \in Jobs, Launch(j)
  PROVE  ThreadsInv'
<1>1. CASE j \in building
  BY <1>1 DEF Launch, ThreadsInv, OneThreadPerJob, ThreadIsListed, Resting
<1>2. CASE j \notin building
  <2>1. PICK b \in Builders :
          /\ Resting(b)
          /\ builder' = [builder EXCEPT ![b] = [Asleep EXCEPT !.pc = "NEW", !.job = j]]
    BY <1>2, StartedPicks DEF Launch
  <2>2. building' = building \cup {j}
    BY <1>2 DEF Launch
  <2>3. builder'[b].job = j /\ \A c \in Builders \ {b} : builder'[c] = builder[c]
    BY <2>1, BuildTypes DEF BuildTyped, Asleep
  <2>4. \A c \in Builders : ~Resting(c) => builder[c].job # j
    BY <1>2 DEF ThreadsInv, ThreadIsListed
  <2>5. OneThreadPerJob'
    BY <2>3, <2>4 DEF ThreadsInv, OneThreadPerJob, Resting
  <2>6. ThreadIsListed'
    BY <2>2, <2>3 DEF ThreadsInv, ThreadIsListed, Resting
  <2>. QED
    BY <2>5, <2>6 DEF ThreadsInv
<1>. QED
  BY <1>1, <1>2

LEMMA ThreadsInvariant == BuildSpec => []ThreadsInv
<1>1. BuildInit => ThreadsInv
  BY DEF BuildInit, ThreadsInv, OneThreadPerJob, ThreadIsListed, Resting, Asleep
<1>2. BuildTypeOK /\ ThreadsInv /\ [BuildNext]_buildVars => ThreadsInv'
  <2>. SUFFICES ASSUME BuildTypeOK, ThreadsInv, [BuildNext]_buildVars
                PROVE  ThreadsInv'
    OBVIOUS
  <2>. USE DEF ThreadsInv, OneThreadPerJob, ThreadIsListed, Resting
  <2>1. CASE UNCHANGED <<building, builder>>
    BY <2>1
  <2>2. ASSUME NEW b \in Builders, Working(b)
        PROVE  ThreadsInv'
    <3>1. WorksOn(b)
      BY <2>2, WorkingWorksOn
    <3>2. UNCHANGED building
      BY <2>2, WorkingWrites
    <3>. QED
      BY <3>1, <3>2 DEF WorksOn, Advances
  <2>3. ASSUME NEW b \in Builders, BuilderEnds(b)
        PROVE  ThreadsInv'
    BY <2>3, BuildTypes DEF BuildTyped, BuilderEnds, Discarded, Asleep
  <2>4. CASE Requesting
    BY <2>1, <2>4, RequestingWrites, LaunchKeepsThreads DEF LaunchedAtMost
  <2>5. CASE ApiRestarts
    BY <2>5 DEF ApiRestarts, Asleep
  <2>6. CASE UNCHANGED buildVars
    BY <2>1, <2>6 DEF buildVars
  <2>. QED
    BY <2>2, <2>3, <2>4, <2>5, <2>6, BuildSteps
<1>. QED
  BY <1>1, <1>2, BuildTypeCorrect, PTL DEF BuildSpec

\* Two threads never build the same job, whatever starts, retries, polls,
\* requeues and restarts come together (start_project_release_build_thread).
THEOREM OneThreadBuilds == BuildSpec => []OneThreadPerJob
<1>1. ThreadsInv => OneThreadPerJob
  BY DEF ThreadsInv
<1>. QED
  BY <1>1, ThreadsInvariant, PTL

-----------------------------------------------------------------------------
(* What is registered was pushed.  The tag may name any image at any time, *)
(* that of another job or one that nobody has pushed; but a thread takes a *)
(* digest from a pushed image only, and the registry loses none.  The      *)
(* release has the digest of some thread, once and for all.                *)

DigestIsPushed  == \A b \in Builders : builder[b].digest # NoImage => builder[b].digest \in pushed
ReleaseIsPushed == release # NoImage => release \in pushed

PushInv == DigestIsPushed /\ ReleaseIsPushed /\ RegisteredIsPushed

LEMMA WorkingKeepsPush ==
  ASSUME BuildTypeOK, PushInv, NEW b \in Builders, Working(b)
  PROVE  PushInv'
<1>. DEFINE j == builder[b].job
<1>1. WorksOn(b) /\ j \in Jobs
  BY WorkingWorksOn, BuildTypes DEF BuildTyped, Threads
<1>2. pushed \subseteq pushed'
  BY WorkingWrites
<1>3. DigestIsPushed'
  BY <1>1, <1>2 DEF PushInv, DigestIsPushed, WorksOn, Advances
<1>4. CASE Registered(b)
  <2>1. ReleaseIsPushed'
    BY <1>4 DEF Registered, PushInv, DigestIsPushed, ReleaseIsPushed
  <2>2. \A k \in Jobs : build'[k].release # NoImage => build'[k].release = release'
    BY <1>1, <1>4, BuildTypes
    DEF Registered, BuildTyped, BuildRows, PushInv, RegisteredIsPushed
  <2>. QED
    BY <1>3, <2>1, <2>2 DEF PushInv, ReleaseIsPushed, RegisteredIsPushed
<1>5. CASE /\ UNCHANGED release
           /\ \A k \in Jobs : build'[k].release = build[k].release
  BY <1>2, <1>3, <1>5 DEF PushInv, ReleaseIsPushed, RegisteredIsPushed
<1>6. ASSUME NEW status, build' = [build EXCEPT ![j].status = status]
      PROVE  \A k \in Jobs : build'[k].release = build[k].release
  BY <1>1, <1>6, BuildTypes DEF BuildTyped, BuildRows
<1>. QED
  BY <1>4, <1>5, <1>6, WorkingWrites

LEMMA LaunchKeepsDigests ==
  ASSUME BuildTypeOK, DigestIsPushed, UNCHANGED pushed, NEW j \in Jobs, Launch(j)
  PROVE  DigestIsPushed'
<1>1. CASE j \in building
  BY <1>1 DEF Launch, DigestIsPushed
<1>2. CASE j \notin building
  <2>1. PICK b \in Builders :
          builder' = [builder EXCEPT ![b] = [Asleep EXCEPT !.pc = "NEW", !.job = j]]
    BY <1>2, StartedPicks DEF Launch
  <2>2. builder'[b].digest = NoImage
    BY <2>1, BuildTypes DEF BuildTyped, Asleep
  <2>. QED
    BY <2>1, <2>2, BuildTypes DEF BuildTyped, DigestIsPushed
<1>. QED
  BY <1>1, <1>2

LEMMA PushInvariant == BuildSpec => []PushInv
<1>. USE DEF PushInv, ReleaseIsPushed, RegisteredIsPushed
<1>1. BuildInit => PushInv
  BY DEF BuildInit, DigestIsPushed, Asleep, NoJob
<1>2. BuildTypeOK /\ PushInv /\ [BuildNext]_buildVars => PushInv'
  <2>. SUFFICES ASSUME BuildTypeOK, PushInv, [BuildNext]_buildVars
                PROVE  PushInv'
    OBVIOUS
  <2>1. ASSUME NEW b \in Builders, BuilderEnds(b)
        PROVE  PushInv'
    BY <2>1, BuildTypes DEF BuildTyped, BuilderEnds, Asleep, DigestIsPushed, imageVars
  <2>2. CASE Requesting
    <3>1. UNCHANGED imageVars
      BY <2>2, RequestingWrites
    <3>2. DigestIsPushed'
      BY <2>2, <3>1, RequestingWrites, LaunchKeepsDigests
      DEF LaunchedAtMost, DigestIsPushed, imageVars
    <3>. QED
      BY <2>2, <3>1, <3>2, RequestingWrites, RowWrittenType DEF imageVars
  <2>3. CASE ApiRestarts
    BY <2>3 DEF ApiRestarts, Asleep, DigestIsPushed, imageVars
  <2>4. CASE UNCHANGED buildVars
    BY <2>4 DEF buildVars, imageVars, DigestIsPushed
  <2>. QED
    BY <2>1, <2>2, <2>3, <2>4, WorkingKeepsPush, BuildSteps
<1>. QED
  BY <1>1, <1>2, BuildTypeCorrect, PTL DEF BuildSpec

\* Builds of one version may move its tag under each other's hands, be
\* cancelled, retried and lost with the process: the digest under which a job
\* has been registered is that of an image in the registry and the one that
\* the release of the version still has (_run_build, _upsert_release).
THEOREM RegisteredWasPushed == BuildSpec => []RegisteredIsPushed
<1>1. PushInv => RegisteredIsPushed
  BY DEF PushInv
<1>. QED
  BY <1>1, PushInvariant, PTL

-----------------------------------------------------------------------------
(* A cancel stops the build.  While a thread is at work on a cancelled job *)
(* nobody else writes the row of the job: the other threads have other     *)
(* jobs, and a request that would queue it again has read it before.       *)

\* The rows a request may bring back from CANCELED, and whom it reads.
LEMMA RequestingKeepsCanceled ==
  ASSUME BuildTypeOK, Requesting, NEW j \in Jobs, build[j].status = "CANCELED",
         \A c \in Clients : call[c].pc \in {"GET", "REQUEUE"} => call[c].job # j
  PROVE  /\ build'[j].status = "CANCELED"
         /\ \A c \in Clients : call'[c].pc \in {"GET", "REQUEUE"} => call'[c].job # j
<1>1. ASSUME NEW k \in Jobs, Inserted(k)
      PROVE  build'[j].status = "CANCELED"
  BY <1>1, BuildTypes DEF Inserted, Unused, BuildTyped
<1>2. ASSUME NEW k \in Jobs, Requeued(k), k # j
      PROVE  build'[j].status = "CANCELED"
  BY <1>2, BuildTypes DEF Requeued, BuildTyped
<1>3. ASSUME NEW k \in Jobs, StartReuses(k) \/ Retry(k) \/ Polled(k)
      PROVE  build'[j].status = "CANCELED" /\ UNCHANGED call
  BY <1>1, <1>2, <1>3 DEF StartReuses, Retry, Polled, PollPending, PollRecovers
<1>4. ASSUME NEW c \in Clients, NEW k \in Jobs, CancelReads(c, k) \/ PollReads(c, k)
      PROVE  /\ UNCHANGED build
             /\ \A d \in Clients : call'[d].pc \in {"GET", "REQUEUE"} => call'[d].job # j
  BY <1>4, BuildTypes DEF BuildTyped, CancelReads, PollReads, Calling
<1>5. ASSUME NEW c \in Clients, StartLooks(c) \/ PollLeaves(c) \/ PollFindsStale(c)
      PROVE  /\ UNCHANGED build
             /\ \A d \in Clients : call'[d].pc \in {"GET", "REQUEUE"} => call'[d].job # j
  BY <1>5, BuildTypes DEF BuildTyped, Calls, StartLooks, PollLeaves, PollFindsStale, Calling, Hung
<1>6. ASSUME NEW c \in Clients, StartInserts(c) \/ CancelCommits(c) \/ PollRequeues(c)
      PROVE  build'[j].status = "CANCELED" /\ call' = [call EXCEPT ![c] = Hung]
  <2>1. call[c].job \in Jobs
    BY BuildTypes DEF BuildTyped, Calls
  <2>2. CASE CancelCommits(c)
    BY <2>1, <2>2, BuildTypes DEF BuildTyped, CancelCommits
  <2>. QED
    BY <1>1, <1>2, <1>6, <2>1, <2>2 DEF StartInserts, PollRequeues
<1>7. Hung.pc = "NONE"
  BY DEF Hung
<1>. QED
  BY <1>3, <1>4, <1>5, <1>6, <1>7, BuildTypes DEF BuildTyped, Requesting

LEMMA LaunchLeavesWorking ==
  ASSUME BuildTypeOK, LaunchedAtMost, NEW b \in Builders, ~Resting(b)
  PROVE  builder'[b] = builder[b]
BY StartedPicks, BuildTypes DEF LaunchedAtMost, Launch, BuildTyped

\* A cancel that is answered during a stage of the build stops it at the end
\* of that stage, without SUCCEEDED and without a release (_raise_if_canceled).
THEOREM CancelsStop == BuildSpec => CancelStopsBuild
<1>1. BuildTypeOK /\ ThreadsInv /\ [BuildNext]_buildVars =>
        [\A b \in Builders : Stopping(b) =>
            Stopping(b)' \/ builder'[b].pc \in {"REFUSED", "BROKEN", "IDLE"}]_buildVars
  <2>. SUFFICES ASSUME BuildTypeOK, ThreadsInv, BuildNext, NEW b \in Builders, Stopping(b)
                PROVE  Stopping(b)' \/ builder'[b].pc \in {"REFUSED", "BROKEN", "IDLE"}
    OBVIOUS
  <2>. DEFINE j == builder[b].job
  <2>1. /\ j \in Jobs /\ builder[b].pc \in Stages /\ build[j].status = "CANCELED"
        /\ \A c \in Clients : call[c].pc \in {"GET", "REQUEUE"} => call[c].job # j
    BY BuildTypes DEF BuildTyped, Threads, Stopping
  <2>2. ~Resting(b)
    BY <2>1 DEF Resting, Stages, Sources
  <2>3. ASSUME NEW c \in Builders, Working(c), c # b
        PROVE  Stopping(b)'
    <3>1. WorksOn(c) /\ builder[c].job \in Jobs
      BY <2>3, WorkingWorksOn, BuildTypes DEF BuildTyped, Threads
    <3>2. builder[c].job # j
      BY <2>2, <2>3, <3>1 DEF ThreadsInv, OneThreadPerJob, Resting, WorksOn
    <3>3. build'[j] = build[j] /\ UNCHANGED call
      BY <2>1, <2>3, <3>1, <3>2, WorkingWrites, BuildTypes DEF BuildTyped, Registered
    <3>. QED
      BY <2>1, <2>3, <3>1, <3>3 DEF WorksOn, Advances, Stopping
  <2>4. CASE Working(b)
    <3>1. CASE GitFails(b) \/ BundleFails(b) \/ ArchiveFails(b) \/ CacheFails(b)
      <4>1. PICK pc \in {"BUNDLE", "ARCHIVE", "CACHE", "REFUSED", "BROKEN"} : Moves(b, pc)
        BY <3>1, FallbackCases DEF GitFails, BundleFails, ArchiveFails, CacheFails
      <4>2. UNCHANGED <<build, call>>
        BY <3>1 DEF GitFails, BundleFails, ArchiveFails, CacheFails
      <4>3. Advances(b) /\ builder'[b].pc = pc
        BY <4>1, MovesOnward DEF BuilderPc, Stages, Sources
      <4>. QED
        BY <2>1, <4>2, <4>3 DEF Advances, Stopping, Stages, Sources
    <3>2. CASE Cloned(b) \/ StageWorks(b) \/ Pushes(b)
      <4>1. builder[b].pc \in Stages /\ Moves(b, NextStage(b, builder[b].pc))
        BY <2>1, <3>2 DEF Cloned, StageWorks, Pushes
      <4>2. Moves(b, "REFUSED")
        BY <2>1, <4>1, NextStageCases
      <4>. QED
        BY <4>2, MovesOnward DEF BuilderPc
    <3>3. CASE WritesManifest(b)
      <4>1. NextStage(b, "MANIFEST") = "REFUSED"
        BY <2>1, NextStageCases DEF Stages
      <4>2. MovesWith(b, "REFUSED", NoImage)
        BY <3>3, <4>1 DEF WritesManifest
      <4>. QED
        BY <4>2, MovesOnwardWith DEF BuilderPc
    <3>4. CASE StageRefused(b) \/ StageBreaks(b)
      BY <3>4, MovesOnward DEF StageRefused, StageBreaks, BuilderPc
    <3>. QED
      BY <2>1, <2>4, <3>1, <3>2, <3>3, <3>4
      DEF Working, BuilderReads, BuilderStarts, BuilderNotReady, Succeeds, Registers,
        FindsNoRelease, AddsRelease, AddFails, RegisterRefused, Refused, Fails, Stages, Sources
  <2>5. ASSUME NEW c \in Builders, BuilderEnds(c)
        PROVE  Stopping(b)'
    BY <2>1, <2>5, BuildTypes DEF BuildTyped, BuilderEnds, Stopping, Stages, Sources
  <2>6. CASE Requesting
    <3>1. builder'[b] = builder[b]
      BY <2>2, <2>6, RequestingWrites, LaunchLeavesWorking
    <3>. QED
      BY <2>1, <2>6, <3>1, RequestingKeepsCanceled DEF Stopping
  <2>7. CASE ApiRestarts
    BY <2>7 DEF ApiRestarts, Asleep
  <2>. QED
    BY <2>3, <2>4, <2>5, <2>6, <2>7, BuildSteps
<1>. QED
  BY <1>1, BuildTypeCorrect, ThreadsInvariant, PTL DEF BuildSpec, CancelStopsBuild

=============================================================================
