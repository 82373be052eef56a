---------------------------- MODULE BuildCenter ----------------------------
(***************************************************************************)
(* The build center: a job row per project build, one background thread    *)
(* per job inside the API process, and the requests (start, poll, cancel,  *)
(* retry) that read and write the same row from sessions of their own.     *)
(*                                                                         *)
(* A session keeps the row it read (expire_on_commit is off) and an UPDATE *)
(* writes only the columns it changed, without a version check, so a       *)
(* request is a read and a later commit, and a build is a sequence of      *)
(* steps each of which ends in a commit and, but for the last, in a fresh  *)
(* read of the status.  Git, archives, Docker and the registry are         *)
(* external: a step of theirs succeeds, is refused (an AppError) or breaks *)
(* (any other exception, such as a subprocess timeout).                    *)
(*                                                                         *)
(* The API runs as one process (backend/Dockerfile:38), so there is one    *)
(* set of building jobs; it is lost when the process restarts.             *)
(*                                                                         *)
(* The jobs of the model are of one project, branch and version.  They     *)
(* share one local Docker tag, <project>:<version>: a build moves it, and  *)
(* push and inspect find the image by it, whoever has built that.  They    *)
(* share one release row too, which is unique by project and version.      *)
(***************************************************************************)
EXTENDS Naturals

CONSTANTS
    MaxJobs,       \* bound: job rows, numbered as they are inserted
    Builders,      \* threads of the process, numbered; one per job is enough
    Clients,       \* requests in flight
    MaxImages,     \* bound: images that the builds yield, told apart by content
    MaxRestarts    \* bound: restarts of the API process

ASSUME BuildAssumption ==
    /\ MaxJobs \in Nat \ {0}
    /\ MaxImages \in Nat \ {0}
    /\ MaxRestarts \in Nat
    /\ 1..MaxJobs \subseteq Builders

VARIABLES
    build,         \* crawler_project_build_job: one row per job
    building,      \* _ASYNC_BUILD_THREADS
    builder,       \* the running threads
    call,          \* the requests that have read and not yet committed
    tag,           \* the image that the shared tag names
    pushed,        \* images in the registry
    release,       \* crawler_project_release: the digest of the version
    restarts

imageVars == <<tag, pushed, release>>
buildVars == <<build, building, builder, call, imageVars, restarts>>

Jobs     == 1..MaxJobs
Ended    == {"SUCCEEDED", "FAILED", "CANCELED"}
Underway == {"PENDING", "RUNNING"}
Sources  == {"GIT", "BUNDLE", "ARCHIVE", "CACHE"}
Stages   == Sources \cup {"DOCKER_BUILD", "DOCKER_PUSH", "MANIFEST"}

\* An image is its content, and so its digest.
NoImage == 0
Images  == 1..MaxImages

\* The stage after the one whose work has ended.  The first run of the
\* contract script leaves nothing behind and is part of DOCKER_BUILD.
After == [s \in Stages |->
    CASE s \in Sources       -> "DOCKER_BUILD"
      [] s = "DOCKER_BUILD"  -> "DOCKER_PUSH"
      [] s = "DOCKER_PUSH"   -> "MANIFEST"
      [] s = "MANIFEST"      -> "BUILT"]

\* The input tried when this one yields no source.
Fallback == [s \in Sources |->
    CASE s = "GIT"     -> "BUNDLE"
      [] s = "BUNDLE"  -> "ARCHIVE"
      [] s = "ARCHIVE" -> "CACHE"
      [] s = "CACHE"   -> "REFUSED"]

\* release: the digest under which the job has been registered.
NoJob == [status |-> "ABSENT", release |-> NoImage]

\* digest: the one in the manifest.
Asleep == [pc |-> "IDLE", job |-> 1, saw |-> "NONE", digest |-> NoImage]
Hung   == [pc |-> "NONE", job |-> 1]

\* One type invariant for the rows, the threads and the requests.
BuildTypeOK ==
    /\ build \in [Jobs -> [status  : {"ABSENT"} \cup Underway \cup Ended,
                           release : {NoImage} \cup Images]]
    /\ building \subseteq Jobs
    /\ builder \in [Builders -> [pc : Stages \cup {"IDLE", "NEW", "READY", "BUILT", "REGISTER",
                                                   "ADD", "REFUSED", "BROKEN", "ENDING"},
                                 job : Jobs, saw : Underway \cup {"NONE"},
                                 digest : {NoImage} \cup Images]]
    /\ call \in [Clients -> [pc : {"NONE", "GET", "REQUEUE", "CANCEL", "INSERT"}, job : Jobs]]
    /\ tag \in {NoImage} \cup Images
    /\ pushed \subseteq Images /\ release \in {NoImage} \cup Images
    /\ restarts \in 0..MaxRestarts

BuildInit ==
    /\ build = [j \in Jobs |-> NoJob]
    /\ building = {}
    /\ builder = [b \in Builders |-> Asleep]
    /\ call = [c \in Clients |-> Hung]
    /\ tag = NoImage /\ pushed = {} /\ release = NoImage
    /\ restarts = 0

-----------------------------------------------------------------------------
(* Threads *)

Unused(j)  == build[j].status = "ABSENT"
Resting(b) == builder[b].pc = "IDLE"

\* A new thread for the job.  Which one does not matter: the one with its
\* number, if that is free.
Started(j) ==
    /\ \E b \in Builders : Resting(b)
    /\ LET b == IF Resting(j) THEN j ELSE CHOOSE free \in Builders : Resting(free)
       IN builder' = [builder EXCEPT ![b] = [Asleep EXCEPT !.pc = "NEW", !.job = j]]

\* Mutant: the set is not consulted.
LaunchAlways(j) ==
    /\ building' = building \cup {j}
    /\ Started(j)

\* start_project_release_build_thread: under the lock, nothing if the job
\* is in the set, otherwise a new thread.
Launch(j) ==
    IF j \in building
    THEN UNCHANGED <<building, builder>>
    ELSE /\ building' = building \cup {j}
         /\ Started(j)

Moves(b, pc) == builder' = [builder EXCEPT ![b].pc = pc]

\* The thread goes on with the digest, or without any (NoImage).
MovesWith(b, pc, digest) ==
    builder' = [builder EXCEPT ![b].pc = pc, ![b].digest = digest]

\* The thread reads its row: an ended job is returned as it is.
BuilderReads(b) ==
    LET j == builder[b].job IN
    /\ builder[b].pc = "NEW"
    /\ IF build[j].status \in Underway
       THEN builder' = [builder EXCEPT ![b].pc = "READY", ![b].saw = build[j].status]
       ELSE Moves(b, "ENDING")
    /\ UNCHANGED <<build, building, call, imageVars, restarts>>

\* The center is ready: RUNNING is written unless the thread read it.
BuilderStarts(b) ==
    LET j == builder[b].job IN
    /\ builder[b].pc = "READY"
    /\ build' = IF builder[b].saw = "RUNNING" THEN build
                ELSE [build EXCEPT ![j].status = "RUNNING"]
    /\ builder' = [builder EXCEPT ![b].pc = "GIT", ![b].saw = "NONE"]
    /\ UNCHANGED <<building, call, imageVars, restarts>>

\* spider_project_readiness: disabled, no prefix, no executor.
BuilderNotReady(b) ==
    /\ builder[b].pc = "READY"
    /\ builder' = [builder EXCEPT ![b].pc = "REFUSED", ![b].saw = "NONE"]
    /\ UNCHANGED <<build, building, call, imageVars, restarts>>

\* Mutant: the status the session holds is trusted.
NextStageUnread(b, stage) == After[stage]

\* _raise_if_canceled: the row is read again before the next stage.
NextStage(b, stage) ==
    IF build[builder[b].job].status = "CANCELED" THEN "REFUSED" ELSE After[stage]

\* A source input yields the sources.
Cloned(b) ==
    /\ builder[b].pc \in Sources
    /\ Moves(b, NextStage(b, builder[b].pc))
    /\ UNCHANGED <<build, building, call, imageVars, restarts>>

\* git has used up its attempts (or is not installed).
GitFails(b) ==
    /\ builder[b].pc = "GIT"
    /\ Moves(b, Fallback["GIT"])
    /\ UNCHANGED <<build, building, call, imageVars, restarts>>

\* No local bundle, or none that extracts; its exceptions are caught.
BundleFails(b) ==
    /\ builder[b].pc = "BUNDLE"
    /\ Moves(b, Fallback["BUNDLE"])
    /\ UNCHANGED <<build, building, call, imageVars, restarts>>

\* Every archive address has failed; its exceptions are caught.
ArchiveFails(b) ==
    /\ builder[b].pc = "ARCHIVE"
    /\ Moves(b, Fallback["ARCHIVE"])
    /\ UNCHANGED <<build, building, call, imageVars, restarts>>

\* No cache: 40106.  A copy that breaks half way is not caught.
CacheFails(b) ==
    /\ builder[b].pc = "CACHE"
    /\ Moves(b, Fallback["CACHE"]) \/ Moves(b, "BROKEN")
    /\ UNCHANGED <<build, building, call, imageVars, restarts>>

\* docker build moves the tag to the image it has built: a new one, or one
\* that was built before when all its layers are cached.
StageWorks(b) ==
    /\ builder[b].pc = "DOCKER_BUILD"
    /\ tag' \in Images
    /\ Moves(b, NextStage(b, "DOCKER_BUILD"))
    /\ UNCHANGED <<build, building, call, pushed, release, restarts>>

\* docker push: the image that the tag names by now is in the registry
\* whatever happens next.
Pushes(b) ==
    /\ builder[b].pc = "DOCKER_PUSH" /\ tag # NoImage
    /\ pushed' = pushed \cup {tag}
    /\ Moves(b, NextStage(b, "DOCKER_PUSH"))
    /\ UNCHANGED <<build, building, call, tag, release, restarts>>

\* Mutant: the id of the local image serves as its digest.
ReadableUnpushed(image) == image # NoImage

\* RepoDigests: Docker knows a digest of an image once it has been pushed.
Readable(image) == image \in pushed

\* The digest that was read must be the one that the contract script, run
\* again, writes into the final manifest (40094).
DigestMatches(manifest) == manifest = tag

\* The digest is read by the tag: another build may have moved it since the
\* push, to an image without a digest (40098) or to one that it has pushed.
\* The script gets the digest, so that nothing shared is read until the
\* status is, for the last time; then the manifest is compared.
WritesManifest(b) ==
    /\ builder[b].pc = "MANIFEST"
    /\ \E manifest \in Images :
         IF NextStage(b, "MANIFEST") = "BUILT" /\ Readable(tag) /\ DigestMatches(manifest)
         THEN MovesWith(b, "BUILT", manifest)
         ELSE MovesWith(b, "REFUSED", NoImage)
    /\ UNCHANGED <<build, building, call, imageVars, restarts>>

\* A command exits with an error or is refused (AppError) ...
StageRefused(b) ==
    /\ builder[b].pc \in Stages \ Sources
    /\ Moves(b, "REFUSED")
    /\ UNCHANGED <<build, building, call, imageVars, restarts>>

\* ... or raises anything else: a timeout, a missing program.
StageBreaks(b) ==
    /\ builder[b].pc \in Stages \ Sources
    /\ Moves(b, "BROKEN")
    /\ UNCHANGED <<build, building, call, imageVars, restarts>>

\* SUCCEEDED is committed before anything is registered.
Succeeds(b) ==
    LET j == builder[b].job IN
    /\ builder[b].pc = "BUILT"
    /\ build' = [build EXCEPT ![j].status = "SUCCEEDED"]
    /\ Moves(b, "REGISTER")
    /\ UNCHANGED <<building, call, imageVars, restarts>>

\* Mutant: an existing release takes the new digest.
AgreesAny(digest) == release # NoImage

\* _upsert_release: the release of a version never changes its digest.
Agrees(digest) == release = digest

\* The version has its release: it is written again, as it is, and the job
\* gets its number.
Registers(b) ==
    LET digest == builder[b].digest IN
    /\ builder[b].pc = "REGISTER" /\ Agrees(digest)
    /\ release' = digest
    /\ build' = [build EXCEPT ![builder[b].job].release = digest]
    /\ MovesWith(b, "ENDING", NoImage)
    /\ UNCHANGED <<building, call, tag, pushed, restarts>>

\* It has none yet: a row is to be added ...
FindsNoRelease(b) ==
    /\ builder[b].pc = "REGISTER" /\ release = NoImage
    /\ Moves(b, "ADD")
    /\ UNCHANGED <<build, building, call, imageVars, restarts>>

\* ... and is, with the job's number, ...
AddsRelease(b) ==
    LET digest == builder[b].digest IN
    /\ builder[b].pc = "ADD" /\ release = NoImage
    /\ release' = digest
    /\ build' = [build EXCEPT ![builder[b].job].release = digest]
    /\ MovesWith(b, "ENDING", NoImage)
    /\ UNCHANGED <<building, call, tag, pushed, restarts>>

\* ... unless another job has added its own since (uk_discovered_release_
\* version).  The session is not rolled back, so that the commit of FAILED
\* raises as well: the job stays SUCCEEDED, without a release.
AddFails(b) ==
    /\ builder[b].pc = "ADD" /\ release # NoImage
    /\ MovesWith(b, "ENDING", NoImage)
    /\ UNCHANGED <<build, building, call, imageVars, restarts>>

\* The manifest has no task definition, a version that is not stable, or one
\* that has been released with another digest or commit (40046).
RegisterRefused(b) ==
    /\ builder[b].pc = "REGISTER"
    /\ MovesWith(b, "REFUSED", NoImage)
    /\ UNCHANGED <<build, building, call, imageVars, restarts>>

\* except AppError: the row is read again and CANCELED is kept.
Refused(b) ==
    /\ builder[b].pc = "REFUSED"
    /\ Moves(b, IF build[builder[b].job].status = "CANCELED" THEN "ENDING" ELSE "BROKEN")
    /\ UNCHANGED <<build, building, call, imageVars, restarts>>

\* FAILED is written without reading the row (again).
Fails(b) ==
    LET j == builder[b].job IN
    /\ builder[b].pc = "BROKEN"
    /\ build' = [build EXCEPT ![j].status = "FAILED"]
    /\ Moves(b, "ENDING")
    /\ UNCHANGED <<building, call, imageVars, restarts>>

\* Mutant: the finally clause is missing.
DiscardedNever(j) == building

\* finally: the job leaves the set.
Discarded(j) == building \ {j}

BuilderEnds(b) ==
    /\ builder[b].pc = "ENDING"
    /\ building' = Discarded(builder[b].job)
    /\ builder' = [builder EXCEPT ![b] = Asleep]
    /\ UNCHANGED <<build, call, imageVars, restarts>>

BuilderSteps(b) ==
    \/ BuilderReads(b) \/ BuilderStarts(b) \/ BuilderNotReady(b)
    \/ Cloned(b) \/ GitFails(b) \/ BundleFails(b) \/ ArchiveFails(b) \/ CacheFails(b)
    \/ StageWorks(b) \/ Pushes(b) \/ WritesManifest(b)
    \/ StageRefused(b) \/ StageBreaks(b)
    \/ Succeeds(b) \/ Registers(b) \/ FindsNoRelease(b) \/ AddsRelease(b) \/ AddFails(b)
    \/ RegisterRefused(b)
    \/ Refused(b) \/ Fails(b) \/ BuilderEnds(b)

-----------------------------------------------------------------------------
(* Requests *)

Calling(c, pc, j) ==
    /\ call[c].pc = "NONE"
    /\ call' = [call EXCEPT ![c] = [pc |-> pc, job |-> j]]

\* start_project_release_build: a job under way for the repository and the
\* branch is reused.  All jobs of the model are for the same ones.
StartReuses(j) ==
    /\ build[j].status \in Underway
    /\ Launch(j)
    /\ UNCHANGED <<build, call, imageVars, restarts>>

\* No job was under way when it looked; the row is inserted later.
StartLooks(c) ==
    /\ \A j \in Jobs : build[j].status \notin Underway
    /\ Calling(c, "INSERT", Hung.job)
    /\ UNCHANGED <<build, building, builder, imageVars, restarts>>

Inserted(j) ==
    /\ Unused(j) /\ \A k \in Jobs : k < j => ~Unused(k)
    /\ build' = [build EXCEPT ![j].status = "PENDING"]
    /\ Launch(j)

StartInserts(c) ==
    /\ call[c].pc = "INSERT"
    /\ \E j \in Jobs : Inserted(j)
    /\ call' = [call EXCEPT ![c] = Hung]
    /\ UNCHANGED <<imageVars, restarts>>

\* retry_project_release_build of an ended job: a new job (of one under
\* way: StartReuses).
Retry(j) ==
    /\ build[j].status \in Ended
    /\ \E k \in Jobs : Inserted(k)
    /\ UNCHANGED <<call, imageVars, restarts>>

\* cancel_project_release_build reads a job under way ...
CancelReads(c, j) ==
    /\ build[j].status \in Underway
    /\ Calling(c, "CANCEL", j)
    /\ UNCHANGED <<build, building, builder, imageVars, restarts>>

\* ... and writes CANCELED over whatever the row has become.
CancelCommits(c) ==
    /\ call[c].pc = "CANCEL"
    /\ build' = [build EXCEPT ![call[c].job].status = "CANCELED"]
    /\ call' = [call EXCEPT ![c] = Hung]
    /\ UNCHANGED <<building, builder, imageVars, restarts>>

\* A poll of a waiting job logs and makes sure that it has a thread.
PollPending(j) ==
    /\ build[j].status = "PENDING"
    /\ Launch(j)
    /\ UNCHANGED <<build, call, imageVars, restarts>>

\* A poll of a running job: the row is read first, ...
PollReads(c, j) ==
    /\ build[j].status = "RUNNING"
    /\ Calling(c, "GET", j)
    /\ UNCHANGED <<build, building, builder, imageVars, restarts>>

\* ... then the set, and the age of the row.  A job with a thread, or a
\* young one, is left alone; otherwise it is to be queued again.
PollLeaves(c) ==
    /\ call[c].pc = "GET"
    /\ call' = [call EXCEPT ![c] = Hung]
    /\ UNCHANGED <<build, building, builder, imageVars, restarts>>

PollFindsStale(c) ==
    /\ call[c].pc = "GET"
    /\ call[c].job \notin building
    /\ call' = [call EXCEPT ![c].pc = "REQUEUE"]
    /\ UNCHANGED <<build, building, builder, imageVars, restarts>>

Requeued(j) ==
    /\ build' = [build EXCEPT ![j].status = "PENDING"]
    /\ Launch(j)

PollRequeues(c) ==
    /\ call[c].pc = "REQUEUE"
    /\ Requeued(call[c].job)
    /\ call' = [call EXCEPT ![c] = Hung]
    /\ UNCHANGED <<imageVars, restarts>>

\* The same poll when nothing comes between its steps.
PollRecovers(j) ==
    /\ build[j].status = "RUNNING" /\ j \notin building
    /\ Requeued(j)
    /\ UNCHANGED <<call, imageVars, restarts>>

Polled(j) == PollPending(j) \/ PollRecovers(j)

\* The process restarts: its threads and requests are gone.
ApiRestarts ==
    /\ restarts < MaxRestarts
    /\ restarts' = restarts + 1
    /\ building' = {}
    /\ builder' = [b \in Builders |-> Asleep]
    /\ call' = [c \in Clients |-> Hung]
    /\ UNCHANGED <<build, imageVars>>

BuildNext ==
    \/ \E b \in Builders : BuilderSteps(b)
    \/ \E j \in Jobs : StartReuses(j) \/ Retry(j) \/ Polled(j)
    \/ \E c \in Clients, j \in Jobs : CancelReads(c, j) \/ PollReads(c, j)
    \/ \E c \in Clients : StartLooks(c) \/ StartInserts(c) \/ CancelCommits(c)
                            \/ PollLeaves(c) \/ PollFindsStale(c) \/ PollRequeues(c)
    \/ ApiRestarts

-----------------------------------------------------------------------------
(* Fairness: threads run, and the publish page polls its job until it has   *)
(* ended.  A job that nobody builds is found stale in the end, because its  *)
(* row does not change any more.  A request may hang for ever.              *)

BuildSpec ==
    /\ BuildInit /\ [][BuildNext]_buildVars
    /\ \A b \in Builders : WF_buildVars(BuilderSteps(b))
    /\ \A j \in Jobs : WF_buildVars(Polled(j))

\* Two threads never build the same job: each begins by deleting the
\* workspace of the job (start_project_release_build_thread, _run_build).
\* Start, retry, poll and requeue may all ask for a thread at any time.
OneThreadPerJob ==
    \A b, c \in Builders :
        ~Resting(b) /\ ~Resting(c) /\ builder[b].job = builder[c].job => b = c

\* Whatever builds of a version move its tag at the same time, and whatever
\* retries, cancels and restarts come between: the digest under which a job
\* has been registered is that of an image in the registry, and the one that
\* the release of the version still has (_run_build, _upsert_release).  It may
\* be that of the image of another job.
RegisteredIsPushed ==
    \A j \in Jobs : build[j].release # NoImage =>
        build[j].release \in pushed /\ build[j].release = release

\* The job is cancelled while its thread is at work, and no poll that read
\* the row before is about to queue it again.
Stopping(b) ==
    /\ builder[b].pc \in Stages
    /\ build[builder[b].job].status = "CANCELED"
    /\ \A c \in Clients : call[c].pc \in {"GET", "REQUEUE"} => call[c].job # builder[b].job

\* A cancel answered during a stage stops the build: its thread comes to an
\* end without SUCCEEDED and without a release (_raise_if_canceled).
CancelStopsBuild ==
    [][\A b \in Builders : Stopping(b) =>
          Stopping(b)' \/ builder'[b].pc \in {"REFUSED", "BROKEN", "IDLE"}]_buildVars

\* Every job under way ends, although the process may restart at any point
\* (get_job, _refresh_job_execution).  No row becomes ABSENT again.
JobEnds == \A j \in Jobs : []<>(build[j].status \notin Underway)

=============================================================================
