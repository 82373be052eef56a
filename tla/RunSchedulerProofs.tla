-------------------------- MODULE RunSchedulerProofs --------------------------
EXTENDS RunScheduler, TLAPS, FiniteSetTheorems, WellFoundedInduction

-------------------------------------------------------------------------------
(* The transition table: what safe_set_run_status does for the moves the   *)
(* handlers ask for.                                                       *)

LEMMA TransitionTable ==
  /\ {"CANCELLED", "FAILED"} \subseteq RunTransitions["QUEUED"]
  /\ {"STARTING", "FAILED", "LOST", "CANCEL_REQUESTED"} \subseteq RunTransitions["ASSIGNED"]
  /\ {"RUNNING", "FAILED", "LOST", "CANCEL_REQUESTED"} \subseteq RunTransitions["STARTING"]
  /\ AgentResults \cup {"LOST", "CANCEL_REQUESTED"} \subseteq RunTransitions["RUNNING"]
  /\ RunTransitions["CANCEL_REQUESTED"] = {"CANCELLED", "FAILED", "TIMED_OUT", "LOST"}
  /\ \A s \in Terminal : RunTransitions[s] = {}
BY DEF RunTransitions, RunStatus, Active, Executing, Terminal, AgentResults

LEMMA TerminalIsFinal ==
  ASSUME NEW s \in Terminal, NEW n
  PROVE  SafeSet(s, n) = s
BY TransitionTable DEF SafeSet

LEMMA AskedMoves ==
  /\ SafeSet("QUEUED", "CANCELLED") = "CANCELLED"
  /\ SafeSet("QUEUED", "FAILED") = "FAILED"
  /\ \A s \in {"ASSIGNED", "STARTING", "RUNNING"} :
       SafeSet(s, "CANCEL_REQUESTED") = "CANCEL_REQUESTED"
  /\ SafeSet("CANCEL_REQUESTED", "CANCELLED") = "CANCELLED"
  /\ \A s \in Executing : SafeSet(s, "LOST") = "LOST" /\ SafeSet(s, "FAILED") = "FAILED"
  /\ SafeSet("ASSIGNED", "STARTING") = "STARTING"
  /\ SafeSet("STARTING", "RUNNING") = "RUNNING"
  /\ \A res \in AgentResults : SafeSet("RUNNING", res) = res
  /\ \A res \in AgentResults :
       SafeSet("CANCEL_REQUESTED", res) = IF res = "SUCCEEDED" THEN "CANCEL_REQUESTED" ELSE res
BY TransitionTable DEF SafeSet, Executing, AgentResults

-------------------------------------------------------------------------------
(* Routing *)

LEMMA CountIsNat ==
  ASSUME NEW S \in SUBSET RunIds
  PROVE  IsFiniteSet(S) /\ Cardinality(S) \in Nat
<1>1. IsFiniteSet(RunIds)
  BY FS_Interval, ConstantsAssumption DEF RunIds
<1>. QED
  BY <1>1, FS_Subset, FS_CardinalityType

LEMMA LeastNatural ==
  ASSUME NEW N \in SUBSET Nat, N # {}
  PROVE  \E n \in N : \A m \in N : n <= m
<1>. DEFINE R == OpToRel(<, Nat)
<1>1. ASSUME NEW m \in Nat, NEW n \in Nat, m < n
      PROVE  <<m, n>> \in R
  BY <1>1 DEF OpToRel
<1>2. IsWellFoundedOn(R, Nat)
  BY NatLessThanWellFounded
<1>. HIDE DEF R
<1>3. PICK n \in N : \A m \in N : ~ (<<m, n>> \in R)
  BY <1>2, WFMin
<1>4. ASSUME NEW m \in N
      PROVE  n <= m
  <2>1. ~ (m < n)
    BY <1>1, <1>3
  <2>. QED
    BY <2>1
<1>. QED
  BY <1>4

LEMMA BestIsMember ==
  ASSUME NEW rs, NEW S \in SUBSET Servers, S # {}
  PROVE  Best(rs, S) \in S
<1>. DEFINE N == {Score(rs, s) : s \in S}
<1>1. ASSUME NEW s \in S
      PROVE  Score(rs, s) \in Nat
  <2>1. Load(rs, s) \in Nat
    BY CountIsNat DEF Load
  <2>2. Priority[s] \in Nat
    BY ConstantsAssumption
  <2>. QED
    BY <2>1, <2>2 DEF Score
<1>2. PICK n \in N : \A m \in N : n <= m
  <2>1. N \in SUBSET Nat /\ N # {}
    BY <1>1
  <2>. HIDE DEF N
  <2>. QED
    BY <2>1, LeastNatural
<1>3. \E s \in S : \A q \in S : Score(rs, s) <= Score(rs, q)
  BY <1>2
<1>. QED
  BY <1>3 DEF Best

(* What the handlers rely on, row by row.                                  *)
WellFormed(row) ==
  /\ row \in Row
  /\ row.status = "ABSENT" => row = Absent
  /\ row.status # "ABSENT" => row.task \in Tasks
  /\ row.routing \in {"PENDING", "WAITING_RESOURCE", "ROUTED", "ROUTE_CANCELLED"}
  /\ row.status = "QUEUED" => row.agent = None /\ row.owner = "none"
  /\ row.status \in Executing =>
       /\ row.agent \in Servers /\ row.agent = row.server
       /\ row.routing = "ROUTED" /\ row.owner # "none"
       /\ row.status # "CANCEL_REQUESTED" => row.lease # "none"

WellFormedRows(rs) == /\ rs \in [RunIds -> Row]
                      /\ \A r \in RunIds : WellFormed(rs[r])

\* The two rows route_run may leave behind.
Waits(row) == [row EXCEPT !.server = None, !.routing = "WAITING_RESOURCE", !.held = FALSE]
Assigns(row, s) == [row EXCEPT !.server = s, !.routing = "ROUTED", !.held = FALSE]

LEMMA RouteCases ==
  ASSUME NEW rs, NEW nd, NEW r \in RunIds, rs[r].task \in Tasks
  PROVE  \/ Route(rs, nd, r) = Waits(rs[r])
         \/ /\ ~Blocked(rs, r)
            /\ \E s \in Candidates(nd, rs[r].task) : Route(rs, nd, r) = Assigns(rs[r], s)
<1>. DEFINE free == Available(rs, nd, rs[r].task)
<1>1. CASE Blocked(rs, r) \/ free = {}
  BY <1>1 DEF Route, Waits
<1>2. CASE ~Blocked(rs, r) /\ free # {}
  <2>1. free \in SUBSET Candidates(nd, rs[r].task)
    BY DEF Available
  <2>2. free \in SUBSET Servers
    BY <2>1, ConstantsAssumption DEF Candidates
  <2>3. Best(rs, free) \in free
    BY <1>2, <2>2, BestIsMember
  <2>4. Route(rs, nd, r) = Assigns(rs[r], Best(rs, free))
    BY <1>2 DEF Route, Assigns
  <2>. QED
    BY <1>2, <2>1, <2>3, <2>4
<1>. QED
  BY <1>1, <1>2

\* Routing changes where a queued run waits, and nothing else of it.
SameRun(new, old) ==
  /\ new.task = old.task /\ new.trigger = old.trigger /\ new.attempt = old.attempt
  /\ new.root = old.root /\ new.retryOf = old.retryOf /\ new.agent = old.agent

Placed(new, old) ==
  /\ WellFormed(new) /\ SameRun(new, old)
  /\ new.status = "QUEUED" /\ ~new.held /\ new.routing \in {"ROUTED", "WAITING_RESOURCE"}

LEMMA RoutePlaces ==
  ASSUME NEW rs, NEW nd, NEW r \in RunIds, WellFormed(rs[r]), rs[r].status = "QUEUED"
  PROVE  /\ Placed(Route(rs, nd, r), rs[r])
         /\ Route(rs, nd, r).routing = "ROUTED" => ~Blocked(rs, r)
<1>. rs[r] \in Row /\ rs[r].task \in Tasks
  BY DEF WellFormed
<1>1. CASE Route(rs, nd, r) = Waits(rs[r])
  BY <1>1 DEF Waits, Placed, SameRun, WellFormed, Row, RoutingStatus, Executing
<1>2. ASSUME NEW s \in Candidates(nd, rs[r].task)
      PROVE  Placed(Assigns(rs[r], s), rs[r])
  <2>1. s \in Servers
    BY ConstantsAssumption DEF Candidates
  <2>. QED
    BY <2>1 DEF Assigns, Placed, SameRun, WellFormed, Row, RoutingStatus, Executing
<1>. QED
  BY <1>1, <1>2, RouteCases

LEMMA ReroutePlaces ==
  ASSUME NEW rs, WellFormedRows(rs), NEW nd
  PROVE  /\ WellFormedRows(Rerouted(rs, nd))
         /\ \A r \in RunIds : \/ Rerouted(rs, nd)[r] = rs[r]
                              \/ /\ r \in Unclaimed(rs) /\ ~Settled(rs, nd, r)
                                 /\ Rerouted(rs, nd)[r] = Route(rs, nd, r)
                                 /\ Placed(Rerouted(rs, nd)[r], rs[r])
<1>1. ASSUME NEW r \in RunIds
      PROVE  \/ Rerouted(rs, nd)[r] = rs[r]
             \/ /\ r \in Unclaimed(rs) /\ ~Settled(rs, nd, r)
                /\ Rerouted(rs, nd)[r] = Route(rs, nd, r)
                /\ Placed(Rerouted(rs, nd)[r], rs[r])
  <2>1. CASE r \in Unclaimed(rs) /\ ~Settled(rs, nd, r)
    <3>1. Rerouted(rs, nd)[r] = Route(rs, nd, r)
      BY <2>1 DEF Rerouted
    <3>2. WellFormed(rs[r]) /\ rs[r].status = "QUEUED"
      BY <2>1 DEF Unclaimed, WellFormedRows
    <3>3. Placed(Route(rs, nd, r), rs[r])
      BY <3>2, RoutePlaces
    <3>. QED
      BY <2>1, <3>1, <3>3
  <2>2. CASE ~(r \in Unclaimed(rs) /\ ~Settled(rs, nd, r))
    BY <2>2 DEF Rerouted
  <2>. QED
    BY <2>1, <2>2
<1>2. \A r \in RunIds : WellFormed(Rerouted(rs, nd)[r])
  BY <1>1 DEF Placed, WellFormedRows
<1>3. Rerouted(rs, nd) \in [RunIds -> Row]
  <2>1. \A r \in RunIds : Rerouted(rs, nd)[r] \in Row
    BY <1>2 DEF WellFormed
  <2>2. Rerouted(rs, nd) = [r \in RunIds |-> Rerouted(rs, nd)[r]]
    BY DEF Rerouted
  <2>. QED
    BY <2>1, <2>2
<1>. QED
  BY <1>1, <1>2, <1>3 DEF WellFormedRows

-------------------------------------------------------------------------------
(* Creation *)

LEMMA FreshRow ==
  ASSUME NEW t \in Tasks, NEW n \in RunIds, NEW by \in {"MANUAL", "SCHEDULE"}
  PROVE  /\ WellFormed(Fresh(t, n, by)) /\ Fresh(t, n, by).status = "QUEUED"
         /\ Fresh(t, n, by).agent = None /\ Fresh(t, n, by).retryOf = 0
         /\ Fresh(t, n, by).task = t /\ Fresh(t, n, by).root = n
         /\ Fresh(t, n, by).attempt = 1 /\ Fresh(t, n, by).trigger = by
<1>. DEFINE row == Fresh(t, n, by)
<1>1. Absent \in Row
  BY ConstantsAssumption DEF Absent, Row, RoutingStatus
<1>2. n \in 0..MaxRuns /\ 0 \in 0..MaxRuns
  BY ConstantsAssumption DEF RunIds
<1>3. "QUEUED" \in RunStatus \cup {"ABSENT"} /\ "PENDING" \in RoutingStatus
  BY DEF RunStatus, Active, RoutingStatus
<1>4. row \in Row
  BY <1>1, <1>2, <1>3 DEF Fresh, Row
<1>5. /\ row.status = "QUEUED" /\ row.agent = None /\ row.owner = "none" /\ row.task = t
      /\ row.root = n /\ row.attempt = 1 /\ row.retryOf = 0 /\ row.trigger = by
      /\ row.routing = "PENDING"
  BY DEF Fresh, Absent
<1>. HIDE DEF row
<1>6. WellFormed(row)
  BY <1>4, <1>5 DEF WellFormed, Executing
<1>. QED
  BY <1>5, <1>6 DEF row

LEMMA HeldRow ==
  ASSUME NEW row, WellFormed(row), row.status = "QUEUED"
  PROVE  /\ WellFormed(Held(row)) /\ SameRun(Held(row), row)
         /\ Held(row).status = "QUEUED" /\ Held(row).routing = "WAITING_RESOURCE" /\ Held(row).held
BY DEF Held, SameRun, WellFormed, Row, RoutingStatus, Executing

\* The new row of a run is routed against the rows it was inserted into ...
LEMMA RoutedRow ==
  ASSUME NEW rs, WellFormedRows(rs), NEW nd, NEW t \in Tasks, NEW n \in RunIds,
         NEW by \in {"MANUAL", "SCHEDULE"}
  PROVE  /\ WellFormedRows(Inserted(rs, t, n, by))
         /\ Inserted(rs, t, n, by)[n] = Fresh(t, n, by)
         /\ WellFormedRows(Created(rs, nd, t, n, by))
         /\ Created(rs, nd, t, n, by)[n] = Route(Inserted(rs, t, n, by), nd, n)
         /\ Placed(Route(Inserted(rs, t, n, by), nd, n), Fresh(t, n, by))
         /\ \A r \in RunIds \ {n} : /\ Inserted(rs, t, n, by)[r] = rs[r]
                                    /\ Created(rs, nd, t, n, by)[r] = rs[r]
<1>. DEFINE born == Inserted(rs, t, n, by)
            row == Route(born, nd, n)
            after == Created(rs, nd, t, n, by)
<1>1. rs \in [RunIds -> Row] /\ \A r \in RunIds : WellFormed(rs[r])
  BY DEF WellFormedRows
<1>2. born[n] = Fresh(t, n, by) /\ \A r \in RunIds \ {n} : born[r] = rs[r]
  BY <1>1 DEF Inserted
<1>3. WellFormedRows(born)
  <2>1. Fresh(t, n, by) \in Row
    BY FreshRow DEF WellFormed
  <2>. QED
    BY <1>1, <1>2, <2>1, FreshRow DEF WellFormedRows, Inserted
<1>4. after = [born EXCEPT ![n] = row]
  BY DEF Created
<1>. HIDE DEF born
<1>5. Placed(row, Fresh(t, n, by))
  BY <1>2, <1>3, FreshRow, RoutePlaces
<1>. HIDE DEF row
<1>6. /\ after[n] = row /\ \A r \in RunIds \ {n} : after[r] = born[r]
      /\ after \in [RunIds -> Row]
  BY <1>3, <1>4, <1>5 DEF WellFormedRows, Placed, WellFormed
<1>7. WellFormedRows(after)
  BY <1>3, <1>5, <1>6 DEF WellFormedRows, Placed
<1>. QED
  BY <1>2, <1>3, <1>5, <1>6, <1>7 DEF born, row

LEMMA CreatedRow ==
  ASSUME NEW rs, WellFormedRows(rs), NEW nd, NEW t \in Tasks, NEW n \in RunIds,
         NEW by \in {"MANUAL", "SCHEDULE"}
  PROVE  /\ Placed(Created(rs, nd, t, n, by)[n], Fresh(t, n, by))
         /\ \A r \in RunIds \ {n} : Created(rs, nd, t, n, by)[r] = rs[r]
<1>1. /\ Created(rs, nd, t, n, by)[n] = Route(Inserted(rs, t, n, by), nd, n)
      /\ Placed(Route(Inserted(rs, t, n, by), nd, n), Fresh(t, n, by))
  BY RoutedRow
<1>2. \A r \in RunIds \ {n} : Created(rs, nd, t, n, by)[r] = rs[r]
  BY RoutedRow
<1>. QED
  BY <1>1, <1>2

\* ... or held in the queue.
LEMMA QueuedRow ==
  ASSUME NEW rs, WellFormedRows(rs), NEW t \in Tasks, NEW n \in RunIds,
         NEW by \in {"MANUAL", "SCHEDULE"}
  PROVE  LET after == Queued(rs, t, n, by)
         IN /\ WellFormedRows(after) /\ after[n] = Held(Fresh(t, n, by))
            /\ \A r \in RunIds \ {n} : after[r] = rs[r]
<1>. DEFINE row == Held(Fresh(t, n, by))
            after == Queued(rs, t, n, by)
<1>1. rs \in [RunIds -> Row] /\ \A r \in RunIds : WellFormed(rs[r])
  BY DEF WellFormedRows
<1>2. WellFormed(row)
  BY FreshRow, HeldRow
<1>3. after = [rs EXCEPT ![n] = row]
  BY DEF Queued
<1>. HIDE DEF row
<1>4. after[n] = row /\ \A r \in RunIds \ {n} : after[r] = rs[r]
  BY <1>1, <1>3
<1>5. WellFormedRows(after)
  BY <1>1, <1>2, <1>3, <1>4 DEF WellFormedRows, WellFormed
<1>. QED
  BY <1>4, <1>5 DEF row

-------------------------------------------------------------------------------
(* The shape of every step: the handler moves some rows without routing    *)
(* them, then may create a run, retry one, record a skipped trigger or     *)
(* route the waiting runs; or it hands one run to an Agent.                *)

Moved(old, new) ==
  /\ WellFormed(new) /\ SameRun(new, old)
  /\ \/ new.status = old.status
     \/ old.status = "QUEUED" /\ new.status \in {"CANCELLED", "FAILED"}
     \/ /\ old.status \in {"ASSIGNED", "STARTING", "RUNNING"}
        /\ new.status \in Executing \cup {"SUCCEEDED", "FAILED", "TIMED_OUT", "LOST"}
     \/ /\ old.status = "CANCEL_REQUESTED"
        /\ new.status \in {"CANCELLED", "FAILED", "TIMED_OUT", "LOST"}
  /\ new.status \in Active => /\ new.routing \in {old.routing, "PENDING", "ROUTE_CANCELLED"}
                              /\ new.held = old.held
  /\ \/ new.routing = old.routing
     \/ old.routing = "ROUTED" /\ new.routing = "PENDING"
     \/ new.routing = "ROUTE_CANCELLED"

AllMoved(mid) == WellFormedRows(mid) /\ \A r \in RunIds : Moved(run[r], mid[r])

Creates(mid) ==
  \E t \in Tasks, n \in RunIds, by \in {"MANUAL", "SCHEDULE"} :
    /\ IsNextId(mid, n) /\ run' = Created(mid, node, t, n, by)
    /\ by = "SCHEDULE" /\ Overlap[t] = "QUEUE" =>
         \A q \in RunIds : mid[q].task = t => mid[q].status \notin Active

Queues(mid) ==
  \E t \in Tasks, n \in RunIds : IsNextId(mid, n) /\ run' = Queued(mid, t, n, "SCHEDULE")

Retries(mid) ==
  \E r, n \in RunIds : IsNextId(mid, n) /\ RetryDue(mid[r]) /\ run' = Retried(mid, node, r, n)

Skips(mid) == \E t \in Tasks, n \in RunIds : IsNextId(mid, n) /\ run' = Skipped(mid, t, n)

Reroutes(mid) == \E nd : run' = Rerouted(mid, nd)

Takes ==
  \E r \in RunIds, s \in Servers :
    /\ run[r].status = "QUEUED" /\ run[r].routing = "ROUTED" /\ run[r].server = s
    /\ run' = [run EXCEPT ![r] = Leased(@, s)]

StepShape ==
  \/ \E mid : AllMoved(mid) /\ (run' = mid \/ Creates(mid) \/ Queues(mid) \/ Retries(mid)
                               \/ Skips(mid) \/ Reroutes(mid))
  \/ Takes

LEMMA Still ==
  ASSUME NEW row, WellFormed(row)
  PROVE  Moved(row, row)
BY DEF Moved, SameRun

LEMMA NoneMoved ==
  ASSUME WellFormedRows(run)
  PROVE  AllMoved(run)
BY Still DEF AllMoved, WellFormedRows

LEMMA OneMoved ==
  ASSUME WellFormedRows(run), NEW r \in RunIds, NEW row, Moved(run[r], row)
  PROVE  AllMoved([run EXCEPT ![r] = row])
<1>. DEFINE mid == [run EXCEPT ![r] = row]
<1>1. run \in [RunIds -> Row] /\ row \in Row
  BY DEF WellFormedRows, Moved, WellFormed
<1>2. mid \in [RunIds -> Row] /\ mid[r] = row /\ \A q \in RunIds \ {r} : mid[q] = run[q]
  BY <1>1
<1>. HIDE DEF mid
<1>3. ASSUME NEW q \in RunIds
      PROVE  Moved(run[q], mid[q])
  <2>1. CASE q = r
    BY <1>2, <2>1
  <2>2. CASE q # r
    BY <1>2, <2>2, Still DEF WellFormedRows
  <2>. QED
    BY <2>1, <2>2
<1>4. \A q \in RunIds : WellFormed(mid[q])
  BY <1>3 DEF Moved
<1>. QED
  BY <1>2, <1>3, <1>4 DEF AllMoved, WellFormedRows, mid

LEMMA CancelOldMoves ==
  ASSUME NEW row, WellFormed(row)
  PROVE  Moved(row, CancelOld(row))
<1>1. CASE row.status = "QUEUED"
  <2>. DEFINE new == [row EXCEPT !.status = "CANCELLED", !.routing = "ROUTE_CANCELLED", !.held = FALSE]
  <2>1. CancelOld(row) = new
    BY <1>1, AskedMoves DEF CancelOld
  <2>2. Moved(row, new)
    BY ZenonT(40), <1>1 DEF Moved, SameRun, WellFormed, Row, RunStatus, Terminal, Active, Executing, RoutingStatus
  <2>. QED
    BY <2>1, <2>2
<1>2. CASE row.status \in {"ASSIGNED", "STARTING", "RUNNING"}
  <2>. DEFINE new == [row EXCEPT !.status = "CANCEL_REQUESTED"]
  <2>1. CancelOld(row) = new
    BY <1>2, AskedMoves DEF CancelOld
  <2>2. Moved(row, new)
    BY <1>2 DEF Moved, SameRun, WellFormed, Row, RunStatus, Active, Executing
  <2>. QED
    BY <2>1, <2>2
<1>3. CASE row.status \notin {"QUEUED", "ASSIGNED", "STARTING", "RUNNING"}
  BY <1>3, Still DEF CancelOld
<1>. QED
  BY <1>1, <1>2, <1>3

LEMMA RequestCancelShape ==
  ASSUME WellFormedRows(run), NEW r \in RunIds, RequestCancel(r)
  PROVE  StepShape
<1>. WellFormed(run[r])
  BY DEF WellFormedRows
<1>1. CASE run[r].status \in {"ASSIGNED", "STARTING", "RUNNING"}
  <2>. DEFINE new == [run[r] EXCEPT !.status = "CANCEL_REQUESTED"]
  <2>1. run' = [run EXCEPT ![r] = new]
    BY <1>1, AskedMoves DEF RequestCancel, Cancelled
  <2>2. Moved(run[r], new)
    BY <1>1 DEF Moved, SameRun, WellFormed, Row, RunStatus, Active, Executing
  <2>. QED
    BY <2>1, <2>2, OneMoved DEF StepShape
<1>2. CASE run[r].status \in {"QUEUED", "CANCEL_REQUESTED"}
  <2>. DEFINE new == [run[r] EXCEPT !.status = "CANCELLED", !.routing = "ROUTE_CANCELLED",
                                    !.held = FALSE]
  <2>1. run' = [run EXCEPT ![r] = new]
    BY <1>2, AskedMoves DEF RequestCancel, Cancelled
  <2>2. Moved(run[r], new)
    BY ZenonT(40), <1>2 DEF Moved, SameRun, WellFormed, Row, RunStatus, Terminal, Active, Executing, RoutingStatus
  <2>. QED
    BY <2>1, <2>2, OneMoved DEF StepShape
<1>. QED
  BY <1>1, <1>2 DEF RequestCancel, Active, Executing

LEMMA MaybeRetryShape ==
  ASSUME NEW mid, AllMoved(mid), NEW r \in RunIds, MaybeRetry(mid, r)
  PROVE  StepShape
<1>1. CASE RetryDue(mid[r])
  BY <1>1 DEF MaybeRetry, StepShape, Retries
<1>2. CASE ~RetryDue(mid[r])
  BY <1>2 DEF MaybeRetry, StepShape
<1>. QED
  BY <1>1, <1>2

LEMMA MarkLostShape ==
  ASSUME WellFormedRows(run), NEW r \in RunIds, MarkLost(r)
  PROVE  StepShape
<1>. DEFINE new == [run[r] EXCEPT !.status = "LOST", !.lease = "none"]
<1>1. run[r].status \in Executing /\ MaybeRetry([run EXCEPT ![r] = new], r)
  BY AskedMoves DEF MarkLost, Lost
<1>2. Moved(run[r], new)
  <2>1. WellFormed(run[r])
    BY DEF WellFormedRows
  <2>2. WellFormed(new)
    BY <1>1, <2>1 DEF WellFormed, Row, RunStatus, Terminal, Active, Executing
  <2>. QED
    BY <1>1, <2>1, <2>2 DEF Moved, SameRun, WellFormed, Active, Executing
<1>. QED
  BY <1>1, <1>2, OneMoved, MaybeRetryShape

LEMMA LeaseExpiresShape ==
  ASSUME WellFormedRows(run), NEW r \in RunIds, LeaseExpires(r)
  PROVE  StepShape
<1>. DEFINE new == [run[r] EXCEPT !.lease = "expired"]
<1>1. run' = [run EXCEPT ![r] = new]
  BY DEF LeaseExpires
<1>2. Moved(run[r], new)
  BY DEF LeaseExpires, Moved, SameRun, WellFormedRows, WellFormed, Row, Executing
<1>. QED
  BY <1>1, <1>2, OneMoved DEF StepShape

LEMMA RunHeartbeatShape ==
  ASSUME WellFormedRows(run), NEW r \in RunIds, RunHeartbeat(r)
  PROVE  StepShape
<1>. DEFINE now == CASE run[r].status = "ASSIGNED" -> "STARTING"
                     [] run[r].status = "STARTING" -> "RUNNING"
                     [] OTHER -> run[r].status
            new == [run[r] EXCEPT !.lease = "live", !.status = now]
<1>1. now \in {"STARTING", "RUNNING"}
  BY DEF RunHeartbeat
<1>2. run' = [run EXCEPT ![r] = new]
  BY AskedMoves DEF RunHeartbeat, Renewed
<1>. HIDE DEF now
<1>3. Moved(run[r], new)
  BY ZenonT(40), <1>1 DEF RunHeartbeat, Moved, SameRun, WellFormedRows, WellFormed, Row, RunStatus, Active, Executing
<1>. QED
  BY <1>2, <1>3, OneMoved DEF StepShape

LEMMA FinishRunShape ==
  ASSUME WellFormedRows(run), NEW r \in RunIds, NEW res \in Results, FinishRun(r, res)
  PROVE  StepShape
<1>. DEFINE now == SafeSet(run[r].status, res)
            new == [run[r] EXCEPT !.status = now, !.lease = "none", !.reported = TRUE]
<1>1. MayReport(run[r], res) /\ MaybeRetry([run EXCEPT ![r] = new], r)
  BY DEF FinishRun, Finished
<1>2. WellFormed(run[r]) /\ res \in AgentResults
  BY ConstantsAssumption DEF WellFormedRows
<1>3. run[r].status \in Executing \cup Terminal
  BY <1>1, <1>2 DEF MayReport, WellFormed, Absent, Row, RunStatus, Active
<1>4. CASE run[r].status \in Terminal
  <2>1. now = run[r].status
    BY <1>4, TerminalIsFinal
  <2>. HIDE DEF now
  <2>2. Moved(run[r], new)
    BY ZenonT(40), <1>2, <1>4, <2>1 DEF Moved, SameRun, WellFormed, Row, Terminal, Active, Executing
  <2>. QED
    BY <1>1, <2>2, OneMoved, MaybeRetryShape
<1>5. CASE run[r].status \in {"ASSIGNED", "STARTING", "RUNNING"}
  <2>1. now = res
    BY <1>1, <1>2, <1>5, AskedMoves DEF MayReport, Executing
  <2>. HIDE DEF now
  <2>2. Moved(run[r], new)
    BY <1>2, <1>5, <2>1 DEF Moved, SameRun, WellFormed, Row, RunStatus, Terminal, Active, Executing, AgentResults
  <2>. QED
    BY <1>1, <2>2, OneMoved, MaybeRetryShape
<1>6. CASE run[r].status = "CANCEL_REQUESTED"
  <2>1. now = IF res = "SUCCEEDED" THEN "CANCEL_REQUESTED" ELSE res
    BY <1>2, <1>6, AskedMoves
  <2>. HIDE DEF now
  <2>2. Moved(run[r], new)
    BY ZenonT(40), <1>2, <1>6, <2>1 DEF Moved, SameRun, WellFormed, Row, RunStatus, Terminal, Active, Executing, AgentResults
  <2>. QED
    BY <1>1, <2>2, OneMoved, MaybeRetryShape
<1>. QED
  BY <1>3, <1>4, <1>5, <1>6 DEF Executing

LEMMA ReplacedMoves ==
  ASSUME WellFormedRows(run), NEW s \in Servers, NEW keep
  PROVE  AllMoved(Replaced(run, s, keep))
<1>. DEFINE mid == Replaced(run, s, keep)
<1>1. ASSUME NEW r \in RunIds
      PROVE  Moved(run[r], mid[r])
  <2>. WellFormed(run[r])
    BY DEF WellFormedRows
  <2>1. CASE run[r].agent # s
    <3>1. mid[r] = run[r]
      BY <2>1 DEF Replaced
    <3>. QED
      BY <3>1, Still
  <2>2. CASE run[r].agent = s /\ run[r].status \notin Executing
    <3>. DEFINE new == [run[r] EXCEPT !.owner = "replaced"]
    <3>1. mid[r] = new
      BY <2>2 DEF Replaced
    <3>2. run[r].status # "QUEUED" /\ run[r].status # "ABSENT"
      BY <2>2, ConstantsAssumption DEF WellFormed, Absent
    <3>3. Moved(run[r], new)
      BY <2>2, <3>2 DEF Moved, SameRun, WellFormed, Row, Active
    <3>. QED
      BY <3>1, <3>3
  <2>3. CASE run[r].agent = s /\ run[r].status \in Executing /\ r \in keep
    <3>. DEFINE new == [run[r] EXCEPT !.owner = "replaced", !.lease = "live"]
    <3>1. mid[r] = new
      BY <2>3 DEF Replaced
    <3>2. Moved(run[r], new)
      BY <2>3 DEF Moved, SameRun, WellFormed, Row, Active, Executing
    <3>. QED
      BY <3>1, <3>2
  <2>4. CASE run[r].agent = s /\ run[r].status \in Executing /\ r \notin keep
    <3>. DEFINE new == [run[r] EXCEPT !.owner = "replaced", !.lease = "none", !.status = "LOST"]
    <3>1. mid[r] = new
      BY <2>4, AskedMoves DEF Replaced, Lost
    <3>2. Moved(run[r], new)
      BY <2>4 DEF Moved, SameRun, WellFormed, Row, RunStatus, Terminal, Active, Executing
    <3>. QED
      BY <3>1, <3>2
  <2>. QED
    BY <2>1, <2>2, <2>3, <2>4
<1>2. \A r \in RunIds : mid[r] \in Row /\ WellFormed(mid[r])
  BY <1>1 DEF Moved, WellFormed
<1>3. mid = [r \in RunIds |-> mid[r]]
  BY DEF Replaced
<1>. HIDE DEF mid
<1>4. mid \in [RunIds -> Row]
  BY <1>2, <1>3
<1>. QED
  BY <1>1, <1>2, <1>4 DEF AllMoved, WellFormedRows, mid

LEMMA SameNextId ==
  ASSUME NEW mid, AllMoved(mid), NEW n \in RunIds
  PROVE  IsNextId(run, n) <=> IsNextId(mid, n)
<1>1. \A r \in RunIds : run[r].status = "ABSENT" <=> mid[r].status = "ABSENT"
  BY DEF AllMoved, Moved, Executing
<1>. QED
  BY <1>1 DEF IsNextId

LEMMA DispatchShape ==
  ASSUME WellFormedRows(run), NEW t \in Tasks, Dispatch(t)
  PROVE  StepShape
<1>. DEFINE mid == [r \in RunIds |-> IF Overlap[t] = "CANCEL_OLD" /\ r \in ActiveOf(t)
                                        THEN CancelOld(run[r]) ELSE run[r]]
            hold == Overlap[t] = "QUEUE" /\ ActiveOf(t) # {}
<1>1. PICK n \in RunIds :
             /\ IsNextId(run, n)
             /\ run' = IF hold THEN Queued(mid, t, n, "SCHEDULE")
                               ELSE Created(mid, node, t, n, "SCHEDULE")
  BY DEF Dispatch
<1>2. ASSUME NEW r \in RunIds
      PROVE  Moved(run[r], mid[r])
  BY CancelOldMoves, Still DEF WellFormedRows
<1>3. AllMoved(mid)
  <2>1. \A r \in RunIds : mid[r] \in Row /\ WellFormed(mid[r])
    BY <1>2 DEF Moved, WellFormed
  <2>2. mid \in [RunIds -> Row]
    BY <2>1
  <2>. QED
    BY <1>2, <2>1, <2>2 DEF AllMoved, WellFormedRows
<1>4. IsNextId(mid, n)
  BY <1>1, <1>3, SameNextId
<1>5. ASSUME Overlap[t] = "QUEUE", ~hold, NEW q \in RunIds, mid[q].task = t
      PROVE  mid[q].status \notin Active
  BY <1>5 DEF ActiveOf
<1>. HIDE DEF mid, hold
<1>6. CASE hold
  <2>1. Queues(mid)
    BY <1>1, <1>4, <1>6 DEF Queues
  <2>. QED
    BY <1>3, <2>1 DEF StepShape
<1>7. CASE ~hold
  <2>1. Creates(mid)
    BY <1>1, <1>4, <1>5, <1>7 DEF Creates
  <2>. QED
    BY <1>3, <2>1 DEF StepShape
<1>. QED
  BY <1>6, <1>7

LEMMA OperateShape ==
  ASSUME WellFormedRows(run), Operate
  PROVE  StepShape
<1>1. ASSUME UNCHANGED run
      PROVE  StepShape
  BY <1>1, NoneMoved DEF StepShape
<1>2. ASSUME NEW t \in Tasks, CreateManual(t)
      PROVE  StepShape
  BY <1>2, NoneMoved DEF CreateManual, StepShape, Creates
<1>3. ASSUME NEW t \in Tasks, Tick(t) \/ UpdateSchedule(t)
      PROVE  UNCHANGED run
  BY <1>3 DEF Tick, UpdateSchedule
<1>4. ASSUME NEW t \in Tasks, NEW st \in TaskStatuses, UpdateTask(t, st)
      PROVE  UNCHANGED run
  BY <1>4 DEF UpdateTask
<1>5. ASSUME NEW s \in Servers, NEW m \in NodeModes, SetNode(s, m)
      PROVE  UNCHANGED run
  BY <1>5 DEF SetNode
<1>. QED
  BY <1>1, <1>2, <1>3, <1>4, <1>5, RequestCancelShape DEF Operate

LEMMA SweepShape ==
  ASSUME WellFormedRows(run), Sweep
  PROVE  StepShape
<1>1. ASSUME NEW t \in Tasks, DispatchSkipped(t) \/ DispatchRefused(t)
      PROVE  StepShape
  BY <1>1, NoneMoved DEF DispatchSkipped, DispatchRefused, StepShape, Skips
<1>2. ASSUME Reroute
      PROVE  StepShape
  BY <1>2, NoneMoved DEF Reroute, StepShape, Reroutes
<1>3. ASSUME NEW S \in SUBSET Servers, WorkerSweep(S)
      PROVE  StepShape
  BY <1>3, NoneMoved DEF WorkerSweep, StepShape, Reroutes
<1>. QED
  BY <1>1, <1>2, <1>3, DispatchShape, MarkLostShape, LeaseExpiresShape DEF Sweep, DispatchDue

LEMMA ClaimRunShape ==
  ASSUME WellFormedRows(run), NEW s \in Servers, ClaimRun(s)
  PROVE  StepShape
<1>1. PICK r \in RunIds : ClaimRefused(s, r) \/ ClaimReturned(s, r)
                          \/ ClaimMisconfigured(s, r) \/ Claim(s, r)
  BY DEF ClaimRun
<1>2. /\ WellFormed(run[r]) /\ run[r].status = "QUEUED" /\ run[r].routing = "ROUTED"
      /\ run[r].server = s
  BY <1>1 DEF WellFormedRows, ClaimRefused, ClaimReturned, ClaimMisconfigured, Claim, Head
<1>3. CASE ClaimRefused(s, r)
  <2>. DEFINE new == [run[r] EXCEPT !.routing = "ROUTE_CANCELLED"]
  <2>1. run' = [run EXCEPT ![r] = new]
    BY <1>3 DEF ClaimRefused
  <2>2. Moved(run[r], new)
    BY <1>2 DEF Moved, SameRun, WellFormed, Row, Executing, RoutingStatus
  <2>. QED
    BY <2>1, <2>2, OneMoved DEF StepShape
<1>4. CASE ClaimReturned(s, r)
  <2>. DEFINE new == [run[r] EXCEPT !.server = None, !.routing = "PENDING"]
  <2>1. run' = [run EXCEPT ![r] = new]
    BY <1>4 DEF ClaimReturned
  <2>2. Moved(run[r], new)
    BY <1>2 DEF Moved, SameRun, WellFormed, Row, Executing, RoutingStatus
  <2>. QED
    BY <2>1, <2>2, OneMoved DEF StepShape
<1>5. CASE ClaimMisconfigured(s, r)
  <2>. DEFINE new == [run[r] EXCEPT !.status = "FAILED", !.routing = "ROUTE_CANCELLED"]
  <2>1. run' = [run EXCEPT ![r] = new]
    BY <1>2, <1>5, AskedMoves DEF ClaimMisconfigured, Misconfigured
  <2>2. Moved(run[r], new)
    BY <1>2 DEF Moved, SameRun, WellFormed, Row, RunStatus, Terminal, Active, Executing, RoutingStatus
  <2>. QED
    BY <2>1, <2>2, OneMoved DEF StepShape
<1>6. CASE Claim(s, r)
  BY <1>2, <1>6 DEF Claim, StepShape, Takes
<1>. QED
  BY <1>1, <1>3, <1>4, <1>5, <1>6

LEMMA AgentRequestShape ==
  ASSUME WellFormedRows(run), AgentRequest
  PROVE  StepShape
<1>1. ASSUME NEW s \in Servers, NEW m \in NodeModes, Heartbeat(s, m)
      PROVE  StepShape
  BY <1>1, NoneMoved DEF Heartbeat, StepShape, Reroutes
<1>2. ASSUME NEW s \in Servers, NEW m \in NodeModes, NEW keep \in SUBSET RunIds,
             AgentRestart(s, m, keep)
      PROVE  StepShape
  BY <1>2, ReplacedMoves DEF AgentRestart, StepShape, Reroutes
<1>3. ASSUME NEW r \in RunIds, RunHeartbeat(r) \/ Deliver(r)
      PROVE  StepShape
  BY <1>3, RunHeartbeatShape, FinishRunShape DEF Deliver
<1>. QED
  BY <1>1, <1>2, <1>3, ClaimRunShape DEF AgentRequest

LEMMA NextShape ==
  ASSUME WellFormedRows(run), [Next]_vars
  PROVE  StepShape
<1>1. ASSUME UNCHANGED vars
      PROVE  StepShape
  BY <1>1, NoneMoved DEF vars, StepShape
<1>. QED
  BY <1>1, OperateShape, SweepShape, AgentRequestShape DEF Next

-------------------------------------------------------------------------------
(* Type correctness and custody *)

\* The row of a retry is the row of an ordinary new run, tied to the run it repeats.
Successor(new, old, r) ==
  /\ new.task = old.task /\ new.trigger = old.trigger /\ new.root = old.root
  /\ new.attempt = old.attempt + 1 /\ new.retryOf = r
  /\ new.status = "QUEUED" /\ new.agent = None /\ ~new.held

LEMMA RetriedRow ==
  ASSUME NEW rs, WellFormedRows(rs), NEW nd, NEW r \in RunIds, NEW n \in RunIds,
         rs[r].status # "ABSENT"
  PROVE  /\ WellFormedRows(Retried(rs, nd, r, n))
         /\ Successor(Retried(rs, nd, r, n)[n], rs[r], r)
         /\ \A q \in RunIds \ {n} : Retried(rs, nd, r, n)[q] = rs[q]
         /\ Retried(rs, nd, r, n)[n].routing = "ROUTED" =>
              ~Blocked(Inserted(rs, rs[r].task, n, rs[r].trigger), n)
<1>. PICK t, by : t = rs[r].task /\ by = rs[r].trigger
  OBVIOUS
<1>. DEFINE born == Inserted(rs, t, n, by)
            row == Route(born, nd, n)
            tied == [row EXCEPT !.attempt = rs[r].attempt + 1, !.root = rs[r].root, !.retryOf = r]
            made == Created(rs, nd, t, n, by)
            after == Retried(rs, nd, r, n)
<1>1. WellFormed(rs[r])
  BY DEF WellFormedRows
<1>2. /\ t \in Tasks /\ by \in {"MANUAL", "SCHEDULE"} /\ rs[r].attempt \in Nat
      /\ rs[r].root \in 0..MaxRuns
  BY <1>1 DEF WellFormed, Row
<1>3. WellFormedRows(born) /\ WellFormedRows(made)
  BY <1>2, RoutedRow
<1>4. /\ made[n] = row /\ born[n] = Fresh(t, n, by)
      /\ \A q \in RunIds \ {n} : made[q] = rs[q]
  BY <1>3 DEF Created, Inserted, WellFormedRows
<1>5. born[n].status = "QUEUED" /\ WellFormed(born[n])
  BY <1>2, <1>3, <1>4, FreshRow DEF WellFormedRows
<1>6. after = [made EXCEPT ![n] = tied]
  <2>1. made \in [RunIds -> Row]
    BY <1>3 DEF WellFormedRows
  <2>. QED
    BY <1>4, <2>1 DEF Retried
<1>. HIDE DEF made, born
<1>7. Placed(row, born[n]) /\ (row.routing = "ROUTED" => ~Blocked(born, n))
  BY <1>5, RoutePlaces
<1>. HIDE DEF row
<1>8. /\ row \in Row /\ WellFormed(row) /\ row.agent = None /\ row.status = "QUEUED"
      /\ row.task = t /\ row.trigger = by /\ ~row.held
  BY <1>2, <1>4, <1>7, FreshRow DEF Placed, SameRun, WellFormed
<1>9. WellFormed(tied) /\ Successor(tied, rs[r], r) /\ tied.routing = row.routing
  <2>1. r \in 0..MaxRuns /\ rs[r].attempt + 1 \in Nat
    BY <1>2, ConstantsAssumption DEF RunIds
  <2>. QED
    BY <1>2, <1>8, <2>1 DEF WellFormed, Row, Executing, Successor
<1>. HIDE DEF tied
<1>10. /\ after[n] = tied /\ \A q \in RunIds \ {n} : after[q] = rs[q]
       /\ after \in [RunIds -> Row]
  BY <1>3, <1>4, <1>6, <1>9 DEF WellFormedRows, WellFormed
<1>11. WellFormedRows(after)
  BY <1>3, <1>4, <1>6, <1>9, <1>10 DEF WellFormedRows
<1>. HIDE DEF after
<1>. QED
  BY <1>7, <1>9, <1>10, <1>11 DEF after, born

LEMMA SkippedRow ==
  ASSUME NEW rs, WellFormedRows(rs), NEW t \in Tasks, NEW n \in RunIds
  PROVE  /\ WellFormedRows(Skipped(rs, t, n))
         /\ \A q \in RunIds \ {n} : Skipped(rs, t, n)[q] = rs[q]
         /\ Skipped(rs, t, n)[n].status = "SKIPPED" /\ Skipped(rs, t, n)[n].agent = None
         /\ Skipped(rs, t, n)[n].retryOf = 0 /\ Skipped(rs, t, n)[n].attempt = 1
         /\ Skipped(rs, t, n)[n].task = t
<1>. DEFINE row == [Absent EXCEPT !.task = t, !.trigger = "SCHEDULE", !.status = "SKIPPED",
                                  !.routing = "ROUTE_CANCELLED"]
            after == Skipped(rs, t, n)
<1>1. after = [rs EXCEPT ![n] = row]
  BY DEF Skipped
<1>2. /\ row.status = "SKIPPED" /\ row.agent = None /\ row.retryOf = 0 /\ row.attempt = 1
      /\ row.task = t /\ row.routing = "ROUTE_CANCELLED"
  BY DEF Absent
<1>3. row \in Row
  <2>1. Absent \in Row
    BY ConstantsAssumption DEF Absent, Row, RoutingStatus
  <2>. QED
    BY ZenonT(40), <2>1 DEF Row, RunStatus, Terminal, RoutingStatus
<1>. HIDE DEF row
<1>4. WellFormed(row)
  BY <1>2, <1>3 DEF WellFormed, Executing
<1>5. /\ after[n] = row /\ \A q \in RunIds \ {n} : after[q] = rs[q]
      /\ after \in [RunIds -> Row]
  BY <1>1, <1>3 DEF WellFormedRows
<1>. HIDE DEF after
<1>6. WellFormedRows(after)
  BY <1>4, <1>5 DEF WellFormedRows
<1>. QED
  BY <1>2, <1>5, <1>6 DEF after

LEMMA TakenRow ==
  ASSUME NEW row, WellFormed(row), NEW s \in Servers, row.status = "QUEUED",
         row.routing = "ROUTED", row.server = s
  PROVE  LET new == Leased(row, s)
         IN /\ WellFormed(new) /\ new.status = "ASSIGNED" /\ new.agent = s
            /\ new.task = row.task /\ new.trigger = row.trigger /\ new.attempt = row.attempt
            /\ new.root = row.root /\ new.retryOf = row.retryOf /\ new.held = row.held
            /\ new.routing = "ROUTED"
BY DEF Leased, WellFormed, Row, RunStatus, Active, Executing

LEMMA RowsStayWellFormed ==
  ASSUME WellFormedRows(run), StepShape
  PROVE  WellFormedRows(run)'
<1>1. ASSUME Takes
      PROVE  WellFormedRows(run')
  <2>1. PICK r \in RunIds, s \in Servers :
               /\ run[r].status = "QUEUED" /\ run[r].routing = "ROUTED" /\ run[r].server = s
               /\ run' = [run EXCEPT ![r] = Leased(run[r], s)]
    BY <1>1 DEF Takes
  <2>2. WellFormed(Leased(run[r], s))
    BY <2>1, TakenRow DEF WellFormedRows
  <2>. QED
    BY <2>1, <2>2 DEF WellFormedRows, WellFormed
<1>2. ASSUME NEW mid, AllMoved(mid), run' = mid
      PROVE  WellFormedRows(run')
  BY <1>2 DEF AllMoved
<1>3. ASSUME NEW mid, AllMoved(mid), Creates(mid)
      PROVE  WellFormedRows(run')
  <2>1. PICK t \in Tasks, n \in RunIds, by \in {"MANUAL", "SCHEDULE"} :
               run' = Created(mid, node, t, n, by)
    BY <1>3 DEF Creates
  <2>. QED
    BY <1>3, <2>1, RoutedRow DEF AllMoved
<1>7. ASSUME NEW mid, AllMoved(mid), Queues(mid)
      PROVE  WellFormedRows(run')
  BY <1>7, QueuedRow DEF AllMoved, Queues
<1>4. ASSUME NEW mid, AllMoved(mid), Retries(mid)
      PROVE  WellFormedRows(run')
  <2>1. PICK r \in RunIds, n \in RunIds : RetryDue(mid[r]) /\ run' = Retried(mid, node, r, n)
    BY <1>4 DEF Retries
  <2>2. mid[r].status # "ABSENT"
    BY <2>1 DEF RetryDue, AutoRetry
  <2>. QED
    BY <1>4, <2>1, <2>2, RetriedRow DEF AllMoved
<1>5. ASSUME NEW mid, AllMoved(mid), Skips(mid)
      PROVE  WellFormedRows(run')
  BY <1>5, SkippedRow DEF AllMoved, Skips
<1>6. ASSUME NEW mid, AllMoved(mid), Reroutes(mid)
      PROVE  WellFormedRows(run')
  BY <1>6, ReroutePlaces DEF AllMoved, Reroutes
<1>. QED
  BY <1>1, <1>2, <1>3, <1>4, <1>5, <1>6, <1>7 DEF StepShape, WellFormedRows

LEMMA RowsStartWellFormed ==
  ASSUME Init
  PROVE  WellFormedRows(run)
<1>1. Absent \in Row /\ Absent.status = "ABSENT" /\ Absent.routing = "PENDING"
  BY ConstantsAssumption DEF Absent, Row, RoutingStatus
<1>2. WellFormed(Absent)
  BY <1>1 DEF WellFormed, Executing
<1>. QED
  BY <1>1, <1>2 DEF Init, WellFormedRows

\* In every reachable state the rows are well formed.
THEOREM AlwaysWellFormed == Spec => []WellFormedRows(run)
<1>1. Init => WellFormedRows(run)
  BY RowsStartWellFormed
<1>2. WellFormedRows(run) /\ [Next]_vars => WellFormedRows(run)'
  BY NextShape, RowsStayWellFormed
<1>. QED
  BY <1>1, <1>2, PTL DEF Spec

\* The switches of the nodes, the tasks and the schedules.
SwitchesOK ==
  /\ node \in [Servers -> NodeModes]
  /\ taskStatus \in [Tasks -> TaskStatuses]
  /\ sched \in [Tasks -> {"WAIT", "DUE", "OFF"}]

LEMMA SwitchesStayOK ==
  ASSUME SwitchesOK, [Next]_vars
  PROVE  SwitchesOK'
<1>. USE DEF SwitchesOK
<1>1. ASSUME NEW t \in Tasks, Tick(t) \/ CreateManual(t) \/ UpdateSchedule(t)
      PROVE  SwitchesOK'
  BY <1>1 DEF Tick, CreateManual, UpdateSchedule
<1>2. ASSUME NEW t \in Tasks, NEW st \in TaskStatuses, UpdateTask(t, st)
      PROVE  SwitchesOK'
  BY <1>2 DEF UpdateTask
<1>3. ASSUME NEW s \in Servers, NEW m \in NodeModes, SetNode(s, m)
      PROVE  SwitchesOK'
  BY <1>3 DEF SetNode
<1>4. ASSUME NEW r \in RunIds, RequestCancel(r) \/ MarkLost(r) \/ LeaseExpires(r)
                              \/ RunHeartbeat(r) \/ Deliver(r)
      PROVE  SwitchesOK'
  BY <1>4 DEF RequestCancel, MarkLost, LeaseExpires, RunHeartbeat, Deliver, FinishRun
<1>5. ASSUME NEW t \in Tasks, DispatchDue(t)
      PROVE  SwitchesOK'
  BY <1>5 DEF DispatchDue, DispatchSkipped, Dispatch, DispatchRefused, Advance
<1>6. ASSUME Reroute
      PROVE  SwitchesOK'
  BY <1>6 DEF Reroute
<1>7. ASSUME NEW S \in SUBSET Servers, WorkerSweep(S), "CLOSED" \in NodeModes
      PROVE  SwitchesOK'
  BY <1>7 DEF WorkerSweep
<1>8. ASSUME NEW s \in Servers, NEW m \in NodeModes, NEW keep \in SUBSET RunIds,
             Heartbeat(s, m) \/ AgentRestart(s, m, keep)
      PROVE  SwitchesOK'
  BY <1>8 DEF Heartbeat, AgentRestart
<1>9. ASSUME NEW s \in Servers, ClaimRun(s)
      PROVE  SwitchesOK'
  BY <1>9 DEF ClaimRun, ClaimRefused, ClaimReturned, ClaimMisconfigured, Claim
<1>10. ASSUME UNCHANGED vars
       PROVE  SwitchesOK'
  BY <1>10 DEF vars
<1>11. ASSUME Operate
       PROVE  SwitchesOK'
  BY <1>1, <1>2, <1>3, <1>4, <1>11 DEF Operate
<1>12. ASSUME Sweep
       PROVE  SwitchesOK'
  BY <1>4, <1>5, <1>6, <1>7, <1>12 DEF Sweep
<1>13. ASSUME AgentRequest
       PROVE  SwitchesOK'
  <2>1. CASE \E s \in Servers, m \in NodeModes : Heartbeat(s, m)
    BY <1>8, <2>1
  <2>2. CASE \E s \in Servers, m \in NodeModes, keep \in SUBSET RunIds : AgentRestart(s, m, keep)
    BY <1>8, <2>2
  <2>3. CASE \E s \in Servers : ClaimRun(s)
    BY <1>9, <2>3
  <2>4. CASE \E r \in RunIds : RunHeartbeat(r) \/ Deliver(r)
    BY <1>4, <2>4
  <2>. QED
    BY <1>13, <2>1, <2>2, <2>3, <2>4 DEF AgentRequest
<1>. QED
  BY <1>10, <1>11, <1>12, <1>13 DEF Next

\* Type correctness: every variable keeps its type, for any tasks, nodes,
\* policies and bound on the runs.
THEOREM TypeCorrect == Spec => []TypeOK
<1>1. Init => SwitchesOK
  BY ConstantsAssumption DEF Init, SwitchesOK
<1>2. SwitchesOK /\ [Next]_vars => SwitchesOK'
  BY SwitchesStayOK
<1>3. Spec => []SwitchesOK
  BY <1>1, <1>2, PTL DEF Spec
<1>4. WellFormedRows(run) /\ SwitchesOK => TypeOK
  BY DEF WellFormedRows, SwitchesOK, TypeOK
<1>. QED
  BY <1>3, <1>4, AlwaysWellFormed, PTL

\* The custody of a run an Agent holds is never lost: its row names the node
\* it was routed to, stays ROUTED, and carries a lease until a cancel is asked.
THEOREM CustodyHolds == Spec => []Custody
<1>1. WellFormedRows(run) => Custody
  BY DEF WellFormedRows, WellFormed, Custody
<1>. QED
  BY <1>1, AlwaysWellFormed, PTL

-------------------------------------------------------------------------------
(* Refinement: every step of a handler is a step of RunPromise *)

LEMMA PhaseOf ==
  ASSUME NEW row, WellFormed(row)
  PROVE  /\ Phase(row) \in Promise!Phases
         /\ Phase(row) = "none" <=> row.status = "ABSENT"
         /\ row.status = "QUEUED" => Phase(row) = "queued"
BY DEF Phase, WellFormed, Row, RunStatus, Active, Executing, Terminal,
       Promise!Phases, Promise!Outcomes

LEMMA PromiseEnds ==
  /\ Promise!Ends["queued"] = {"CANCELLED", "FAILED"}
  /\ Promise!Ends["taken"] = {"stopping", "SUCCEEDED", "FAILED", "TIMED_OUT", "LOST"}
  /\ Promise!Ends["stopping"] = {"CANCELLED", "FAILED", "TIMED_OUT", "LOST"}
BY DEF Promise!Ends, Promise!Phases

\* What a handler may do to one run when it hands out none.
Settles(r, old, new) ==
  /\ new.agent = old.agent
  /\ \/ Phase(new) = Phase(old)
     \/ Phase(new) \in Promise!Ends[Phase(old)]
     \/ Promise!IsNext(r) /\ Phase(new) \in {"queued", "SKIPPED"}

LEMMA MovedSettles ==
  ASSUME NEW r, NEW old, NEW new, WellFormed(old), Moved(old, new)
  PROVE  Settles(r, old, new)
<1>1. new.agent = old.agent
  BY DEF Moved, SameRun
<1>2. CASE new.status = old.status
  BY <1>1, <1>2 DEF Phase, Settles
<1>3. CASE old.status = "QUEUED" /\ new.status \in {"CANCELLED", "FAILED"}
  BY <1>1, <1>3, PromiseEnds DEF Phase, Settles
<1>4. CASE /\ old.status \in {"ASSIGNED", "STARTING", "RUNNING"}
           /\ new.status \in Executing \cup {"SUCCEEDED", "FAILED", "TIMED_OUT", "LOST"}
  BY <1>1, <1>4, PromiseEnds DEF Phase, Settles, Executing
<1>5. CASE /\ old.status = "CANCEL_REQUESTED"
           /\ new.status \in {"CANCELLED", "FAILED", "TIMED_OUT", "LOST"}
  BY <1>1, <1>5, PromiseEnds DEF Phase, Settles
<1>. QED
  BY <1>2, <1>3, <1>4, <1>5 DEF Moved

LEMMA NextIdIsNext ==
  ASSUME WellFormedRows(run), NEW n \in RunIds, IsNextId(run, n)
  PROVE  Promise!IsNext(n) /\ run[n].agent = None
<1>1. \A r \in RunIds : Phase(run[r]) = "none" <=> run[r].status = "ABSENT"
  BY PhaseOf DEF WellFormedRows
<1>2. run[n].agent = None
  BY DEF WellFormedRows, WellFormed, IsNextId, Absent
<1>. QED
  BY <1>1, <1>2 DEF IsNextId, Promise!IsNext, Promise!Runs, RunIds

\* The row of a run that has just been created.
Newborn(row) == row.agent = None /\ row.status \in {"QUEUED", "SKIPPED"}

LEMMA BirthSettles ==
  ASSUME WellFormedRows(run), NEW mid, AllMoved(mid), NEW n \in RunIds, IsNextId(mid, n),
         NEW after, Newborn(after[n]), \A q \in RunIds \ {n} : after[q] = mid[q]
  PROVE  \A r \in RunIds : Settles(r, run[r], after[r])
<1>1. ASSUME NEW r \in RunIds, r # n
      PROVE  Settles(r, run[r], after[r])
  <2>1. Moved(run[r], mid[r]) /\ after[r] = mid[r] /\ WellFormed(run[r])
    BY <1>1 DEF AllMoved, WellFormedRows
  <2>. QED
    BY <2>1, MovedSettles
<1>2. Settles(n, run[n], after[n])
  <2>1. Promise!IsNext(n) /\ run[n].agent = None
    BY NextIdIsNext, SameNextId
  <2>2. Phase(after[n]) \in {"queued", "SKIPPED"}
    BY DEF Newborn, Phase
  <2>. QED
    BY <2>1, <2>2 DEF Newborn, Settles
<1>. QED
  BY <1>1, <1>2

LEMMA SettlingStep ==
  ASSUME WellFormedRows(run), WellFormedRows(run'), \A r \in RunIds : Settles(r, run[r], run'[r])
  PROVE  Promise!Settle
<1>. DEFINE before == [r \in RunIds |-> Phase(run[r])]
            after == [r \in RunIds |-> Phase(run'[r])]
<1>1. after \in [RunIds -> Promise!Phases]
  BY PhaseOf DEF WellFormedRows
<1>2. [r \in RunIds |-> run'[r].agent] = [r \in RunIds |-> run[r].agent]
  BY DEF Settles
<1>3. ASSUME NEW r \in RunIds
      PROVE  \/ after[r] = before[r]
             \/ after[r] \in Promise!Ends[before[r]]
             \/ Promise!IsNext(r) /\ after[r] \in {"queued", "SKIPPED"}
  BY DEF Settles
<1>. QED
  BY <1>1, <1>2, <1>3 DEF Promise!Settle, Promise!Runs, RunIds

LEMMA HandOutStep ==
  ASSUME WellFormedRows(run), Takes
  PROVE  \E r \in Promise!Runs, s \in Servers : Promise!HandOut(r, s)
<1>1. PICK r \in RunIds, s \in Servers :
             /\ run[r].status = "QUEUED" /\ run[r].routing = "ROUTED" /\ run[r].server = s
             /\ run' = [run EXCEPT ![r] = Leased(run[r], s)]
  BY DEF Takes
<1>. DEFINE new == Leased(run[r], s)
<1>2. /\ run'[r] = new /\ \A q \in RunIds \ {r} : run'[q] = run[q]
  BY <1>1 DEF WellFormedRows
<1>3. /\ WellFormed(run[r]) /\ run[r].agent = None /\ Phase(run[r]) = "queued"
  BY <1>1, PhaseOf DEF WellFormedRows, WellFormed
<1>4. new.agent = s /\ Phase(new) = "taken"
  BY <1>1, <1>3, TakenRow DEF Phase
<1>. HIDE DEF new
<1>5. [q \in RunIds |-> Phase(run'[q])]
        = [[q \in RunIds |-> Phase(run[q])] EXCEPT ![r] = "taken"]
  BY <1>2, <1>4
<1>6. [q \in RunIds |-> run'[q].agent] = [[q \in RunIds |-> run[q].agent] EXCEPT ![r] = s]
  BY <1>2, <1>4
<1>7. Promise!HandOut(r, s)
  BY <1>3, <1>5, <1>6 DEF Promise!HandOut
<1>. QED
  BY <1>7 DEF Promise!Runs, RunIds

LEMMA PromiseStep ==
  ASSUME WellFormedRows(run), StepShape
  PROVE  Promise!Next
<1>. WellFormedRows(run')
  BY RowsStayWellFormed DEF WellFormedRows
<1>1. CASE Takes
  BY <1>1, HandOutStep DEF Promise!Next
<1>2. ASSUME NEW mid, AllMoved(mid), run' = mid
      PROVE  \A r \in RunIds : Settles(r, run[r], run'[r])
  BY <1>2, MovedSettles DEF AllMoved, WellFormedRows
<1>3. ASSUME NEW mid, AllMoved(mid), Creates(mid)
      PROVE  \A r \in RunIds : Settles(r, run[r], run'[r])
  <2>1. PICK t \in Tasks, n \in RunIds, by \in {"MANUAL", "SCHEDULE"} :
               IsNextId(mid, n) /\ run' = Created(mid, node, t, n, by)
    BY <1>3 DEF Creates
  <2>2. Placed(run'[n], Fresh(t, n, by)) /\ \A q \in RunIds \ {n} : run'[q] = mid[q]
    <3>1. WellFormedRows(mid) /\ run' = Created(mid, node, t, n, by)
      BY <1>3, <2>1 DEF AllMoved
    <3>. QED
      BY <3>1, CreatedRow
  <2>3. Newborn(run'[n])
    BY <2>2, FreshRow DEF Placed, SameRun, Newborn
  <2>. QED
    BY <1>3, <2>1, <2>2, <2>3, BirthSettles
<1>4. ASSUME NEW mid, AllMoved(mid), Queues(mid)
      PROVE  \A r \in RunIds : Settles(r, run[r], run'[r])
  <2>1. PICK t \in Tasks, n \in RunIds : IsNextId(mid, n) /\ run' = Queued(mid, t, n, "SCHEDULE")
    BY <1>4 DEF Queues
  <2>2. run'[n] = Held(Fresh(t, n, "SCHEDULE")) /\ \A q \in RunIds \ {n} : run'[q] = mid[q]
    BY <1>4, <2>1, QueuedRow DEF AllMoved
  <2>3. Newborn(run'[n])
    BY <2>2, FreshRow, HeldRow DEF SameRun, Newborn
  <2>. QED
    BY <1>4, <2>1, <2>2, <2>3, BirthSettles
<1>5. ASSUME NEW mid, AllMoved(mid), Retries(mid)
      PROVE  \A r \in RunIds : Settles(r, run[r], run'[r])
  <2>1. PICK x \in RunIds, n \in RunIds :
               IsNextId(mid, n) /\ RetryDue(mid[x]) /\ run' = Retried(mid, node, x, n)
    BY <1>5 DEF Retries
  <2>2. mid[x].status # "ABSENT"
    BY <2>1 DEF RetryDue, AutoRetry
  <2>3. Successor(run'[n], mid[x], x) /\ \A q \in RunIds \ {n} : run'[q] = mid[q]
    BY <1>5, <2>1, <2>2, RetriedRow DEF AllMoved
  <2>. QED
    BY <1>5, <2>1, <2>3, BirthSettles DEF Newborn, Successor
<1>6. ASSUME NEW mid, AllMoved(mid), Skips(mid)
      PROVE  \A r \in RunIds : Settles(r, run[r], run'[r])
  <2>1. PICK t \in Tasks, n \in RunIds : IsNextId(mid, n) /\ run' = Skipped(mid, t, n)
    BY <1>6 DEF Skips
  <2>2. Newborn(run'[n]) /\ \A q \in RunIds \ {n} : run'[q] = mid[q]
    BY <1>6, <2>1, SkippedRow DEF AllMoved, Newborn
  <2>. QED
    BY <1>6, <2>1, <2>2, BirthSettles
<1>7. ASSUME NEW mid, AllMoved(mid), Reroutes(mid)
      PROVE  \A r \in RunIds : Settles(r, run[r], run'[r])
  <2>1. PICK nd : run' = Rerouted(mid, nd)
    BY <1>7 DEF Reroutes
  <2>. SUFFICES ASSUME NEW r \in RunIds
                PROVE  Settles(r, run[r], run'[r])
    OBVIOUS
  <2>2. Settles(r, run[r], mid[r]) /\ WellFormed(mid[r])
    BY <1>7, MovedSettles DEF AllMoved, WellFormedRows
  <2>3. CASE run'[r] = mid[r]
    BY <2>2, <2>3
  <2>4. CASE r \in Unclaimed(mid) /\ Placed(run'[r], mid[r])
    <3>1. /\ run'[r].agent = mid[r].agent /\ run'[r].status = "QUEUED"
          /\ mid[r].status = "QUEUED"
      BY <2>4 DEF Placed, SameRun, Unclaimed
    <3>. QED
      BY <2>2, <3>1 DEF Settles, Phase
  <2>. QED
    BY <1>7, <2>1, <2>3, <2>4, ReroutePlaces DEF AllMoved
<1>8. CASE \A r \in RunIds : Settles(r, run[r], run'[r])
  BY <1>8, SettlingStep DEF Promise!Next
<1>. QED
  BY <1>1, <1>2, <1>3, <1>4, <1>5, <1>6, <1>7, <1>8 DEF StepShape

\* The handlers implement RunPromise: for any number of runs, tasks and nodes,
\* under any policies, whatever order they run in, an outcome is final, a run
\* is handed out once, and a run asked to stop never succeeds.
THEOREM HandlersKeepPromise == Spec => KeepsPromise
<1>1. Init => Promise!Init
  BY DEF Init, Promise!Init, Absent, Phase, Promise!Runs, RunIds
<1>2. WellFormedRows(run) /\ [Next]_vars => [Promise!Next]_Promise!promiseVars
  BY NextShape, PromiseStep
<1>. QED
  BY <1>1, <1>2, AlwaysWellFormed, PTL DEF Spec, KeepsPromise, Promise!Spec

-------------------------------------------------------------------------------
(* Admission: limits and locks.  No handler looks at the total it leaves   *)
(* behind; each run is routed against the rows before the step, all the    *)
(* waiting ones included, and that basis counts every run released after.  *)

AdmittedIn(rs) == {r \in RunIds : rs[r].status \in Active /\ rs[r].routing = "ROUTED"}

\* r counts in the basis rs, and was let in against it or released before the step.
Admits(rs, r) ==
  /\ rs[r].status \in Active /\ rs[r].routing # "ROUTE_CANCELLED"
  /\ rs[r].task = run'[r].task
  /\ ~Blocked(rs, r) \/ (r \in AdmittedIn(run) /\ run[r].task = run'[r].task)

AdmittedOn(rs) == \A r \in AdmittedIn(run') : Admits(rs, r)

\* A run that is released after the handler moved the rows was released before.
LEMMA MovedAdmits ==
  ASSUME NEW mid, AllMoved(mid), NEW r \in RunIds, r \in AdmittedIn(mid)
  PROVE  /\ r \in AdmittedIn(run) /\ run[r].task = mid[r].task
         /\ mid[r].status \in Active /\ mid[r].routing # "ROUTE_CANCELLED"
<1>1. Moved(run[r], mid[r]) /\ mid[r].status \in Active /\ mid[r].routing = "ROUTED"
  BY DEF AllMoved, AdmittedIn
<1>2. run[r].status \in Active
  BY <1>1 DEF Moved, Active, Executing
<1>. QED
  BY <1>1, <1>2 DEF Moved, SameRun, AdmittedIn

\* A step that adds the row n to the moved rows, in the basis rs too.
LEMMA BornAdmits ==
  ASSUME NEW mid, AllMoved(mid), NEW n \in RunIds, NEW rs,
         \A q \in RunIds \ {n} : run'[q] = mid[q] /\ rs[q] = mid[q],
         n \in AdmittedIn(run') => Admits(rs, n)
  PROVE  AdmittedOn(rs)
<1>1. ASSUME NEW r \in AdmittedIn(run'), r # n
      PROVE  Admits(rs, r)
  <2>1. r \in RunIds /\ r \in AdmittedIn(mid) /\ run'[r] = mid[r] /\ rs[r] = mid[r]
    BY <1>1 DEF AdmittedIn
  <2>. QED
    BY <2>1, MovedAdmits DEF Admits
<1>. QED
  BY <1>1 DEF AdmittedOn

LEMMA Admission ==
  ASSUME WellFormedRows(run), StepShape
  PROVE  \E rs : AdmittedOn(rs)
<1>1. ASSUME Takes
      PROVE  AdmittedOn(run)
  <2>1. PICK r \in RunIds, s \in Servers :
               /\ run[r].status = "QUEUED" /\ run[r].routing = "ROUTED" /\ run[r].server = s
               /\ run' = [run EXCEPT ![r] = Leased(run[r], s)]
    BY <1>1 DEF Takes
  <2>. DEFINE new == Leased(run[r], s)
  <2>2. run'[r] = new /\ \A q \in RunIds \ {r} : run'[q] = run[q]
    BY <2>1 DEF WellFormedRows
  <2>3. new.task = run[r].task
    BY <2>1, TakenRow DEF WellFormedRows
  <2>. HIDE DEF new
  <2>4. \A q \in AdmittedIn(run') : q \in AdmittedIn(run) /\ run[q].task = run'[q].task
    BY <2>1, <2>2, <2>3 DEF AdmittedIn, Active
  <2>. QED
    BY <2>4 DEF AdmittedOn, Admits, AdmittedIn
<1>2. ASSUME NEW mid, AllMoved(mid), run' = mid
      PROVE  AdmittedOn(mid)
  BY <1>2, MovedAdmits DEF AdmittedOn, Admits, AdmittedIn
<1>3. ASSUME NEW mid, AllMoved(mid), Creates(mid)
      PROVE  \E rs : AdmittedOn(rs)
  <2>1. PICK t \in Tasks, n \in RunIds, by \in {"MANUAL", "SCHEDULE"} :
               run' = Created(mid, node, t, n, by)
    BY <1>3 DEF Creates
  <2>. DEFINE born == Inserted(mid, t, n, by)
  <2>2. /\ WellFormedRows(born) /\ born[n] = Fresh(t, n, by)
        /\ run'[n] = Route(born, node, n) /\ Placed(run'[n], born[n])
        /\ \A q \in RunIds \ {n} : born[q] = mid[q] /\ run'[q] = mid[q]
    BY <1>3, <2>1, RoutedRow DEF AllMoved
  <2>3. born[n].status = "QUEUED" /\ born[n].routing = "PENDING" /\ WellFormed(born[n])
    BY <2>2 DEF WellFormedRows, Fresh, Absent
  <2>. HIDE DEF born
  <2>4. run'[n].routing = "ROUTED" => ~Blocked(born, n)
    BY <2>2, <2>3, RoutePlaces
  <2>5. n \in AdmittedIn(run') => Admits(born, n)
    BY <2>2, <2>3, <2>4 DEF Admits, AdmittedIn, Placed, SameRun, Active
  <2>. QED
    BY <1>3, <2>2, <2>5, BornAdmits
<1>4. ASSUME NEW mid, AllMoved(mid), Queues(mid)
      PROVE  \E rs : AdmittedOn(rs)
  <2>1. PICK t \in Tasks, n \in RunIds : run' = Queued(mid, t, n, "SCHEDULE")
    BY <1>4 DEF Queues
  <2>2. run'[n] = Held(Fresh(t, n, "SCHEDULE")) /\ \A q \in RunIds \ {n} : run'[q] = mid[q]
    BY <1>4, <2>1, QueuedRow DEF AllMoved
  <2>3. n \notin AdmittedIn(run')
    BY <2>2, FreshRow, HeldRow DEF AdmittedIn
  <2>. QED
    BY <1>4, <2>2, <2>3, BornAdmits
<1>5. ASSUME NEW mid, AllMoved(mid), Retries(mid)
      PROVE  \E rs : AdmittedOn(rs)
  <2>1. PICK x \in RunIds, n \in RunIds :
               RetryDue(mid[x]) /\ run' = Retried(mid, node, x, n)
    BY <1>5 DEF Retries
  <2>2. mid[x].status # "ABSENT" /\ WellFormedRows(mid)
    BY <1>5, <2>1 DEF RetryDue, AutoRetry, AllMoved
  <2>. PICK t, by : t = mid[x].task /\ by = mid[x].trigger
    OBVIOUS
  <2>. DEFINE born == Inserted(mid, t, n, by)
  <2>3. /\ Successor(run'[n], mid[x], x) /\ \A q \in RunIds \ {n} : run'[q] = mid[q]
        /\ run'[n].routing = "ROUTED" => ~Blocked(born, n)
    BY <2>1, <2>2, RetriedRow
  <2>4. t \in Tasks /\ by \in {"MANUAL", "SCHEDULE"}
    BY <2>2 DEF WellFormedRows, WellFormed, Row
  <2>5. born[n] = Fresh(t, n, by) /\ \A q \in RunIds \ {n} : born[q] = mid[q]
    BY <2>2 DEF Inserted, WellFormedRows
  <2>6. born[n].status = "QUEUED" /\ born[n].routing = "PENDING" /\ born[n].task = t
    BY <2>5 DEF Fresh, Absent
  <2>. HIDE DEF born
  <2>7. n \in AdmittedIn(run') => Admits(born, n)
    BY <2>3, <2>6 DEF Admits, AdmittedIn, Successor, Active
  <2>. QED
    BY <1>5, <2>3, <2>5, <2>7, BornAdmits
<1>6. ASSUME NEW mid, AllMoved(mid), Skips(mid)
      PROVE  \E rs : AdmittedOn(rs)
  <2>1. PICK t \in Tasks, n \in RunIds : run' = Skipped(mid, t, n)
    BY <1>6 DEF Skips
  <2>2. run'[n].status = "SKIPPED" /\ \A q \in RunIds \ {n} : run'[q] = mid[q]
    BY <1>6, <2>1, SkippedRow DEF AllMoved
  <2>3. n \notin AdmittedIn(run')
    BY <2>2 DEF AdmittedIn, Active, Executing
  <2>. QED
    BY <1>6, <2>2, <2>3, BornAdmits
<1>7. ASSUME NEW mid, AllMoved(mid), Reroutes(mid)
      PROVE  AdmittedOn(mid)
  <2>1. PICK nd : run' = Rerouted(mid, nd)
    BY <1>7 DEF Reroutes
  <2>. SUFFICES ASSUME NEW r \in AdmittedIn(run')
                PROVE  Admits(mid, r)
    BY DEF AdmittedOn
  <2>. r \in RunIds /\ WellFormed(mid[r])
    BY <1>7 DEF AdmittedIn, AllMoved, WellFormedRows
  <2>2. CASE run'[r] = mid[r]
    BY <1>7, <2>2, MovedAdmits DEF Admits, AdmittedIn
  <2>3. CASE /\ r \in Unclaimed(mid) /\ run'[r] = Route(mid, nd, r)
             /\ Placed(run'[r], mid[r])
    <3>1. mid[r].status = "QUEUED" /\ mid[r].routing # "ROUTE_CANCELLED"
      BY <2>3 DEF Unclaimed
    <3>2. run'[r].routing = "ROUTED"
      BY DEF AdmittedIn
    <3>3. ~Blocked(mid, r)
      BY <2>3, <3>1, <3>2, RoutePlaces
    <3>. QED
      BY <2>3, <3>1, <3>3 DEF Admits, Placed, SameRun, Active
  <2>. QED
    BY <1>7, <2>1, <2>2, <2>3, ReroutePlaces DEF AllMoved
<1>. QED
  BY <1>1, <1>2, <1>3, <1>4, <1>5, <1>6, <1>7 DEF StepShape

LEMMA LocksStep ==
  ASSUME WellFormedRows(run), StepShape, LockExclusion
  PROVE  LockExclusion'
<1>1. PICK rs : AdmittedOn(rs)
  BY Admission
<1>2. ASSUME NEW p \in AdmittedIn(run'), NEW q \in AdmittedIn(run'), p # q, ~Blocked(rs, p)
      PROVE  Locks[run'[p].task] \cap Locks[run'[q].task] = {}
  <2>1. q \in Competing(rs, p)
    BY <1>1, <1>2 DEF AdmittedOn, Admits, AdmittedIn, Competing
  <2>2. Locks[rs[p].task] \cap Locks[rs[q].task] = {}
    BY <1>2, <2>1 DEF Blocked
  <2>. QED
    BY <1>1, <2>2 DEF AdmittedOn, Admits
<1>3. ASSUME NEW p \in AdmittedIn(run'), NEW q \in AdmittedIn(run'), p # q
      PROVE  Locks[run'[p].task] \cap Locks[run'[q].task] = {}
  <2>1. CASE ~Blocked(rs, p)
    BY <1>2, <1>3, <2>1
  <2>2. CASE ~Blocked(rs, q)
    BY <1>2, <1>3, <2>2
  <2>3. CASE Blocked(rs, p) /\ Blocked(rs, q)
    <3>1. /\ p \in AdmittedIn(run) /\ run[p].task = run'[p].task
          /\ q \in AdmittedIn(run) /\ run[q].task = run'[q].task
      BY <1>1, <2>3 DEF AdmittedOn, Admits
    <3>. QED
      BY <1>3, <3>1 DEF LockExclusion, Admitted, AdmittedIn
  <2>. QED
    BY <2>1, <2>2, <2>3
<1>. QED
  BY <1>3 DEF LockExclusion, Admitted, AdmittedIn

\* Runs that share a resource lock are never released together, whatever locks
\* the tasks declare and however the handlers interleave.
THEOREM LocksExclude == Spec => []LockExclusion
<1>1. Init => LockExclusion
  BY DEF Init, Absent, LockExclusion, Admitted, Active, Executing
<1>2. WellFormedRows(run) /\ LockExclusion /\ [Next]_vars => LockExclusion'
  BY NextShape, LocksStep
<1>. QED
  BY <1>1, <1>2, AlwaysWellFormed, PTL DEF Spec

\* A set of released runs that counts one run let in and runs the basis
\* counted against it stays within the limit it was let in under.
LEMMA OneMore ==
  ASSUME NEW S \in SUBSET RunIds, NEW p \in S, NEW C \in SUBSET RunIds, S \ {p} \subseteq C,
         NEW limit \in Nat, ~(Cardinality(C) >= limit)
  PROVE  Cardinality(S) <= limit
<1>1. /\ IsFiniteSet(S) /\ Cardinality(S) \in Nat
      /\ IsFiniteSet(C) /\ Cardinality(C) \in Nat
  BY CountIsNat
<1>2. Cardinality(S \ {p}) = Cardinality(S) - 1
  BY <1>1, FS_RemoveElement
<1>3. Cardinality(S \ {p}) <= Cardinality(C)
  BY <1>1, FS_Subset
<1>. QED
  BY <1>1, <1>2, <1>3

LEMMA Fewer ==
  ASSUME NEW C \in SUBSET RunIds, NEW S \in SUBSET C, NEW limit \in Nat, Cardinality(C) <= limit
  PROVE  Cardinality(S) <= limit
<1>1. IsFiniteSet(C) /\ Cardinality(C) \in Nat /\ S \in SUBSET RunIds
  BY CountIsNat
<1>2. Cardinality(S) <= Cardinality(C) /\ Cardinality(S) \in Nat
  BY <1>1, FS_Subset, CountIsNat
<1>. QED
  BY <1>1, <1>2

InTask(rs, t) == {r \in AdmittedIn(rs) : rs[r].task = t}
InGroup(rs, g) == {r \in AdmittedIn(rs) : Group[rs[r].task] = g}

TaskLimit(rs, t) == MaxConc[t] > 0 => Cardinality(InTask(rs, t)) <= MaxConc[t]
GroupBound(rs, t) ==
  \E u \in Tasks : Group[u] = Group[t] /\ Cardinality(InGroup(rs, Group[t])) <= GroupLimit(u)

LEMMA LimitsOf ==
  ConcurrencyLimit <=> \A t \in Tasks : TaskLimit(run, t) /\ GroupBound(run, t)
BY DEF ConcurrencyLimit, TaskLimit, GroupBound, InTask, InGroup, Admitted, AdmittedIn

LEMMA LimitsAreNat ==
  ASSUME NEW t \in Tasks
  PROVE  MaxConc[t] \in Nat /\ GroupLimit(t) \in Nat
BY ConstantsAssumption DEF GroupLimit

LEMMA TaskLimitStep ==
  ASSUME NEW rs, AdmittedOn(rs), NEW t \in Tasks, TaskLimit(run, t)
  PROVE  TaskLimit(run', t)
<1>. SUFFICES ASSUME MaxConc[t] > 0
              PROVE  Cardinality(InTask(run', t)) <= MaxConc[t]
  BY DEF TaskLimit
<1>. MaxConc[t] \in Nat
  BY LimitsAreNat
<1>1. CASE \E p \in InTask(run', t) : ~Blocked(rs, p)
  <2>1. PICK p \in InTask(run', t) : ~Blocked(rs, p)
    BY <1>1
  <2>. DEFINE C == {q \in Competing(rs, p) : rs[q].task = t}
  <2>2. InTask(run', t) \in SUBSET RunIds /\ C \in SUBSET RunIds
    BY DEF InTask, AdmittedIn, Competing
  <2>3. InTask(run', t) \ {p} \subseteq C
    BY DEF InTask, AdmittedIn, AdmittedOn, Admits, Competing
  <2>4. ~(Cardinality(C) >= MaxConc[t])
    <3>1. rs[p].task = t
      BY DEF InTask, AdmittedOn, Admits
    <3>. QED
      BY <2>1, <3>1 DEF Blocked
  <2>. HIDE DEF C
  <2>. QED
    BY <2>2, <2>3, <2>4, OneMore
<1>2. CASE \A p \in InTask(run', t) : Blocked(rs, p)
  <2>1. InTask(run', t) \subseteq InTask(run, t) /\ InTask(run, t) \in SUBSET RunIds
    BY <1>2 DEF InTask, AdmittedOn, Admits, AdmittedIn
  <2>2. Cardinality(InTask(run, t)) <= MaxConc[t]
    BY DEF TaskLimit
  <2>. QED
    BY <2>1, <2>2, Fewer
<1>. QED
  BY <1>1, <1>2

LEMMA GroupLimitStep ==
  ASSUME NEW rs, AdmittedOn(rs), WellFormedRows(run'), NEW t \in Tasks, GroupBound(run, t)
  PROVE  GroupBound(run', t)
<1>. DEFINE g == Group[t]
<1>1. CASE \E p \in InGroup(run', g) : ~Blocked(rs, p)
  <2>1. PICK p \in InGroup(run', g) : ~Blocked(rs, p)
    BY <1>1
  <2>2. PICK u : u = run'[p].task
    OBVIOUS
  <2>3. p \in RunIds /\ u \in Tasks /\ Group[u] = g /\ rs[p].task = u /\ GroupLimit(u) \in Nat
    <3>1. p \in RunIds /\ u \in Tasks
      BY <2>2 DEF InGroup, AdmittedIn, WellFormedRows, WellFormed, Active, Executing
    <3>. QED
      BY <2>2, <3>1, LimitsAreNat DEF InGroup, AdmittedOn, Admits
  <2>. DEFINE C == {q \in Competing(rs, p) : Group[rs[q].task] = g}
  <2>4. InGroup(run', g) \in SUBSET RunIds /\ C \in SUBSET RunIds
    BY DEF InGroup, AdmittedIn, Competing
  <2>5. InGroup(run', g) \ {p} \subseteq C
    BY DEF InGroup, AdmittedIn, AdmittedOn, Admits, Competing
  <2>6. ~(Cardinality(C) >= GroupLimit(u))
    BY <2>1, <2>3 DEF Blocked
  <2>. HIDE DEF C
  <2>7. Cardinality(InGroup(run', g)) <= GroupLimit(u)
    BY <2>3, <2>4, <2>5, <2>6, OneMore
  <2>. QED
    BY <2>3, <2>7 DEF GroupBound
<1>2. CASE \A p \in InGroup(run', g) : Blocked(rs, p)
  <2>1. InGroup(run', g) \subseteq InGroup(run, g) /\ InGroup(run, g) \in SUBSET RunIds
    BY <1>2 DEF InGroup, AdmittedOn, Admits, AdmittedIn
  <2>2. PICK u \in Tasks : Group[u] = g /\ Cardinality(InGroup(run, g)) <= GroupLimit(u)
    BY DEF GroupBound
  <2>3. Cardinality(InGroup(run', g)) <= GroupLimit(u)
    BY <2>1, <2>2, Fewer, LimitsAreNat
  <2>. QED
    BY <2>2, <2>3 DEF GroupBound
<1>. QED
  BY <1>1, <1>2

LEMMA LimitsStep ==
  ASSUME WellFormedRows(run), StepShape, ConcurrencyLimit
  PROVE  ConcurrencyLimit'
<1>1. PICK rs : AdmittedOn(rs)
  BY Admission
<1>2. WellFormedRows(run')
  BY RowsStayWellFormed DEF WellFormedRows
<1>3. \A t \in Tasks : TaskLimit(run', t) /\ GroupBound(run', t)
  BY <1>1, <1>2, TaskLimitStep, GroupLimitStep, LimitsOf
<1>. QED
  BY <1>3 DEF ConcurrencyLimit, TaskLimit, GroupBound, InTask, InGroup, Admitted, AdmittedIn

\* The limits of the tasks and of the groups hold in every state, for any
\* limits, although creation, retries and reroutes never look at the total
\* they leave behind.
THEOREM LimitsHold == Spec => []ConcurrencyLimit
<1>1. Init => ConcurrencyLimit
  <2>. SUFFICES ASSUME Init
                PROVE  ConcurrencyLimit
    OBVIOUS
  <2>1. AdmittedIn(run) = {}
    BY DEF Init, Absent, AdmittedIn, Active, Executing
  <2>2. \A t \in Tasks : InTask(run, t) = {} /\ InGroup(run, Group[t]) = {}
    BY <2>1 DEF InTask, InGroup
  <2>3. Cardinality({}) = 0
    BY FS_EmptySet
  <2>4. ASSUME NEW t \in Tasks
        PROVE  TaskLimit(run, t) /\ GroupBound(run, t)
    <3>1. Cardinality(InTask(run, t)) = 0 /\ Cardinality(InGroup(run, Group[t])) = 0
      BY <2>2, <2>3
    <3>2. MaxConc[t] \in Nat /\ GroupLimit(t) \in Nat
      BY LimitsAreNat
    <3>. QED
      BY <3>1, <3>2 DEF TaskLimit, GroupBound
  <2>. QED
    BY <2>4, LimitsOf
<1>2. WellFormedRows(run) /\ ConcurrencyLimit /\ [Next]_vars => ConcurrencyLimit'
  BY NextShape, LimitsStep
<1>. QED
  BY <1>1, <1>2, AlwaysWellFormed, PTL DEF Spec

-------------------------------------------------------------------------------
(* The rounds of a queueing schedule                                       *)

InRound(row) ==
  /\ Overlap[row.task] = "QUEUE" /\ row.trigger = "SCHEDULE" /\ row.retryOf = 0
  /\ row.status \in Active /\ ~row.held

\* HasOtherActive compares roots: it sees every other round because a run that
\* is not a retry is its own root.
Rooted(row, r) == row.status \in Active /\ row.retryOf = 0 => row.root = r

RoundsApart(rs) ==
  /\ \A r \in RunIds : Rooted(rs[r], r)
  /\ \A p, q \in RunIds :
       InRound(rs[p]) /\ InRound(rs[q]) /\ rs[p].task = rs[q].task => p = q

LEMMA MovedRounds ==
  ASSUME NEW mid, AllMoved(mid), RoundsApart(run)
  PROVE  RoundsApart(mid)
<1>1. ASSUME NEW r \in RunIds
      PROVE  /\ Rooted(mid[r], r) /\ mid[r].task = run[r].task
             /\ InRound(mid[r]) => InRound(run[r])
  <2>1. Moved(run[r], mid[r]) /\ Rooted(run[r], r)
    BY DEF AllMoved, RoundsApart
  <2>2. mid[r].status \in Active => run[r].status \in Active /\ mid[r].held = run[r].held
    BY <2>1 DEF Moved, Active, Executing
  <2>. QED
    BY <2>1, <2>2 DEF Moved, SameRun, Rooted, InRound
<1>. QED
  BY <1>1 DEF RoundsApart

LEMMA BornRounds ==
  ASSUME NEW mid, RoundsApart(mid), NEW n \in RunIds, NEW after,
         \A q \in RunIds \ {n} : after[q] = mid[q], Rooted(after[n], n),
         InRound(after[n]) =>
           \A q \in RunIds : mid[q].task = after[n].task => mid[q].status \notin Active
  PROVE  RoundsApart(after)
<1>1. ASSUME NEW p \in RunIds, NEW q \in RunIds, InRound(after[p]), InRound(after[q]),
             after[p].task = after[q].task, p # q
      PROVE  FALSE
  <2>1. CASE p = n
    BY <1>1, <2>1 DEF InRound
  <2>2. CASE q = n
    BY <1>1, <2>2 DEF InRound
  <2>3. CASE p # n /\ q # n
    BY <1>1, <2>3 DEF RoundsApart
  <2>. QED
    BY <2>1, <2>2, <2>3
<1>2. \A r \in RunIds : Rooted(after[r], r)
  BY DEF RoundsApart
<1>. QED
  BY <1>1, <1>2 DEF RoundsApart

LEMMA ReroutedRounds ==
  ASSUME NEW mid, WellFormedRows(mid), RoundsApart(mid), NEW nd
  PROVE  RoundsApart(Rerouted(mid, nd))
<1>. DEFINE after == Rerouted(mid, nd)
<1>1. ASSUME NEW r \in RunIds
      PROVE  /\ after[r].task = mid[r].task /\ after[r].root = mid[r].root
             /\ after[r].status = mid[r].status /\ Rooted(after[r], r)
             /\ InRound(after[r]) => InRound(mid[r]) \/ ~HasOtherActive(mid, r)
             /\ InRound(after[r]) => mid[r].root = r /\ mid[r].status \in Active
  <2>. Rooted(mid[r], r)
    BY DEF RoundsApart
  <2>1. CASE after[r] = mid[r]
    BY <2>1 DEF InRound, Rooted
  <2>2. CASE r \in Unclaimed(mid) /\ ~Settled(mid, nd, r) /\ Placed(after[r], mid[r])
    <3>1. mid[r].status = "QUEUED" /\ (mid[r].held => ~HasOtherActive(mid, r))
      BY <2>2 DEF Unclaimed, Settled
    <3>. QED
      BY <2>2, <3>1 DEF Placed, SameRun, InRound, Rooted
  <2>. QED
    BY <2>1, <2>2, ReroutePlaces
<1>. HIDE DEF after
<1>2. ASSUME NEW p \in RunIds, NEW q \in RunIds, InRound(after[p]), InRound(after[q]),
             after[p].task = after[q].task, p # q, ~HasOtherActive(mid, p)
      PROVE  FALSE
  BY <1>1, <1>2 DEF HasOtherActive
<1>3. ASSUME NEW p \in RunIds, NEW q \in RunIds, InRound(after[p]), InRound(after[q]),
             after[p].task = after[q].task, p # q
      PROVE  FALSE
  <2>1. CASE InRound(mid[p]) /\ InRound(mid[q])
    BY <1>1, <1>3, <2>1 DEF RoundsApart
  <2>2. CASE ~HasOtherActive(mid, p) \/ ~HasOtherActive(mid, q)
    BY <1>2, <1>3, <2>2
  <2>. QED
    BY <1>1, <1>3, <2>1, <2>2
<1>. QED
  BY <1>1, <1>3 DEF RoundsApart, after

LEMMA RoundsStep ==
  ASSUME WellFormedRows(run), StepShape, RoundsApart(run)
  PROVE  RoundsApart(run')
<1>1. ASSUME Takes
      PROVE  RoundsApart(run')
  <2>1. PICK r \in RunIds, s \in Servers :
               /\ run[r].status = "QUEUED" /\ run[r].routing = "ROUTED" /\ run[r].server = s
               /\ run' = [run EXCEPT ![r] = Leased(run[r], s)]
    BY <1>1 DEF Takes
  <2>. DEFINE new == Leased(run[r], s)
  <2>2. run'[r] = new /\ \A q \in RunIds \ {r} : run'[q] = run[q]
    BY <2>1 DEF WellFormedRows
  <2>3. /\ new.task = run[r].task /\ new.trigger = run[r].trigger /\ new.root = run[r].root
        /\ new.retryOf = run[r].retryOf /\ new.held = run[r].held
    BY <2>1, TakenRow DEF WellFormedRows
  <2>. HIDE DEF new
  <2>4. \A q \in RunIds : /\ Rooted(run'[q], q) /\ run'[q].task = run[q].task
                          /\ InRound(run'[q]) => InRound(run[q])
    BY <2>1, <2>2, <2>3 DEF RoundsApart, Rooted, InRound, Active
  <2>. QED
    BY <2>4 DEF RoundsApart
<1>2. ASSUME NEW mid, AllMoved(mid)
      PROVE  RoundsApart(mid) /\ WellFormedRows(mid)
  BY <1>2, MovedRounds DEF AllMoved
<1>3. ASSUME NEW mid, AllMoved(mid), Creates(mid)
      PROVE  RoundsApart(run')
  <2>1. PICK t \in Tasks, n \in RunIds, by \in {"MANUAL", "SCHEDULE"} :
               /\ run' = Created(mid, node, t, n, by)
               /\ by = "SCHEDULE" /\ Overlap[t] = "QUEUE" =>
                    \A q \in RunIds : mid[q].task = t => mid[q].status \notin Active
    BY <1>3 DEF Creates
  <2>2. Placed(run'[n], Fresh(t, n, by)) /\ \A q \in RunIds \ {n} : run'[q] = mid[q]
    <3>1. WellFormedRows(mid) /\ run' = Created(mid, node, t, n, by)
      BY <1>3, <2>1 DEF AllMoved
    <3>. QED
      BY <3>1, CreatedRow
  <2>3. run'[n].task = t /\ run'[n].trigger = by /\ run'[n].root = n
    BY <2>2, FreshRow DEF Placed, SameRun
  <2>. QED
    BY <1>2, <1>3, <2>1, <2>2, <2>3, BornRounds DEF Rooted, InRound
<1>4. ASSUME NEW mid, AllMoved(mid), Queues(mid)
      PROVE  RoundsApart(run')
  <2>1. PICK t \in Tasks, n \in RunIds : run' = Queued(mid, t, n, "SCHEDULE")
    BY <1>4 DEF Queues
  <2>2. run'[n] = Held(Fresh(t, n, "SCHEDULE")) /\ \A q \in RunIds \ {n} : run'[q] = mid[q]
    BY <1>2, <1>4, <2>1, QueuedRow
  <2>3. run'[n].held /\ run'[n].root = n
    BY <2>2, FreshRow, HeldRow DEF SameRun
  <2>. QED
    BY <1>2, <1>4, <2>2, <2>3, BornRounds DEF Rooted, InRound
<1>5. ASSUME NEW mid, AllMoved(mid), Retries(mid)
      PROVE  RoundsApart(run')
  <2>1. PICK x \in RunIds, n \in RunIds :
               RetryDue(mid[x]) /\ run' = Retried(mid, node, x, n)
    BY <1>5 DEF Retries
  <2>2. mid[x].status # "ABSENT"
    BY <2>1 DEF RetryDue, AutoRetry
  <2>3. Successor(run'[n], mid[x], x) /\ \A q \in RunIds \ {n} : run'[q] = mid[q]
    BY <1>2, <1>5, <2>1, <2>2, RetriedRow
  <2>4. run'[n].retryOf # 0
    BY <2>3, ConstantsAssumption DEF Successor, RunIds
  <2>. QED
    BY <1>2, <1>5, <2>3, <2>4, BornRounds DEF Rooted, InRound
<1>6. ASSUME NEW mid, AllMoved(mid), Skips(mid)
      PROVE  RoundsApart(run')
  <2>1. PICK t \in Tasks, n \in RunIds : run' = Skipped(mid, t, n)
    BY <1>6 DEF Skips
  <2>2. run'[n].status = "SKIPPED" /\ \A q \in RunIds \ {n} : run'[q] = mid[q]
    BY <1>2, <1>6, <2>1, SkippedRow
  <2>. QED
    BY <1>2, <1>6, <2>2, BornRounds DEF Rooted, InRound, Active, Executing
<1>7. ASSUME NEW mid, AllMoved(mid), Reroutes(mid)
      PROVE  RoundsApart(run')
  BY <1>2, <1>7, ReroutedRounds DEF Reroutes
<1>. QED
  BY <1>1, <1>2, <1>3, <1>4, <1>5, <1>6, <1>7 DEF StepShape

\* The rounds of a queueing schedule do not overlap, whatever number of runs
\* wait and however manual runs and retries come in between.
THEOREM RoundsDoNotOverlap == Spec => []QueuedRounds
<1>1. Init => RoundsApart(run)
  BY DEF Init, Absent, RoundsApart, Rooted, InRound, Active, Executing
<1>2. WellFormedRows(run) /\ RoundsApart(run) /\ [Next]_vars => RoundsApart(run)'
  <2>1. ASSUME WellFormedRows(run), RoundsApart(run), [Next]_vars
        PROVE  RoundsApart(run')
    BY <2>1, NextShape, RoundsStep
  <2>. QED
    BY <2>1 DEF RoundsApart
<1>3. RoundsApart(run) => QueuedRounds
  BY DEF RoundsApart, InRound, QueuedRounds, Rounds
<1>. QED
  BY <1>1, <1>2, <1>3, AlwaysWellFormed, PTL DEF Spec

-------------------------------------------------------------------------------
(* Retries *)

Caused(rs, r) ==
  /\ rs[r].status # "ABSENT" => rs[r].attempt <= MaxAttempts[rs[r].task]
  /\ LET p == rs[r].retryOf
     IN p # 0 => /\ p \in RunIds /\ rs[p].status \in AutoRetry /\ Retryable[rs[p].task]
                 /\ rs[r].task = rs[p].task /\ rs[r].root = rs[p].root
                 /\ rs[r].attempt = rs[p].attempt + 1

AllCaused(rs) == \A r \in RunIds : Caused(rs, r)

\* Nothing a cause says of a row changes when the row moves: it is the same
\* run, and a status that may be retried is final.
KeepsCause(old, new) ==
  /\ SameRun(new, old) /\ (new.status = "ABSENT" <=> old.status = "ABSENT")
  /\ old.status \in AutoRetry => new.status = old.status

LEMMA CausesKept ==
  ASSUME NEW rs, AllCaused(rs), NEW after, \A r \in RunIds : KeepsCause(rs[r], after[r])
  PROVE  AllCaused(after)
BY DEF AllCaused, Caused, KeepsCause, SameRun

LEMMA BornCaused ==
  ASSUME NEW mid, AllCaused(mid), NEW n \in RunIds, IsNextId(mid, n), NEW after,
         \A q \in RunIds \ {n} : after[q] = mid[q], Caused(after, n)
  PROVE  AllCaused(after)
<1>1. ASSUME NEW r \in RunIds \ {n}
      PROVE  Caused(after, r)
  <2>1. Caused(mid, r) /\ after[r] = mid[r]
    BY DEF AllCaused
  <2>2. mid[n].status \notin AutoRetry
    BY DEF IsNextId, AutoRetry
  <2>. QED
    BY <2>1, <2>2 DEF Caused
<1>. QED
  BY <1>1 DEF AllCaused

LEMMA FirstAttempt ==
  ASSUME NEW rs, NEW n \in RunIds, rs[n].task \in Tasks, rs[n].attempt = 1, rs[n].retryOf = 0
  PROVE  Caused(rs, n)
<1>1. MaxAttempts[rs[n].task] \in Nat \ {0}
  BY ConstantsAssumption
<1>. QED
  BY <1>1 DEF Caused

LEMMA CausesStep ==
  ASSUME WellFormedRows(run), StepShape, AllCaused(run)
  PROVE  AllCaused(run')
<1>1. ASSUME Takes
      PROVE  AllCaused(run')
  <2>1. PICK r \in RunIds, s \in Servers :
               /\ run[r].status = "QUEUED" /\ run[r].routing = "ROUTED" /\ run[r].server = s
               /\ run' = [run EXCEPT ![r] = Leased(run[r], s)]
    BY <1>1 DEF Takes
  <2>. DEFINE new == Leased(run[r], s)
  <2>2. run'[r] = new /\ \A q \in RunIds \ {r} : run'[q] = run[q]
    BY <2>1 DEF WellFormedRows
  <2>3. /\ new.task = run[r].task /\ new.trigger = run[r].trigger /\ new.root = run[r].root
        /\ new.retryOf = run[r].retryOf /\ new.attempt = run[r].attempt
        /\ new.status = "ASSIGNED"
    BY <2>1, TakenRow DEF WellFormedRows
  <2>. HIDE DEF new
  <2>4. ASSUME NEW q \in RunIds
        PROVE  Caused(run', q)
    BY <2>1, <2>2, <2>3 DEF AllCaused, Caused, AutoRetry
  <2>. QED
    BY <2>4 DEF AllCaused
<1>2. ASSUME NEW mid, AllMoved(mid)
      PROVE  AllCaused(mid) /\ WellFormedRows(mid)
  <2>1. \A r \in RunIds : KeepsCause(run[r], mid[r])
    BY <1>2 DEF AllMoved, Moved, KeepsCause, AutoRetry, Executing
  <2>. QED
    BY <1>2, <2>1, CausesKept DEF AllMoved
<1>3. ASSUME NEW mid, AllMoved(mid), Creates(mid)
      PROVE  AllCaused(run')
  <2>1. PICK t \in Tasks, n \in RunIds, by \in {"MANUAL", "SCHEDULE"} :
               IsNextId(mid, n) /\ run' = Created(mid, node, t, n, by)
    BY <1>3 DEF Creates
  <2>2. Placed(run'[n], Fresh(t, n, by)) /\ \A q \in RunIds \ {n} : run'[q] = mid[q]
    <3>1. WellFormedRows(mid) /\ run' = Created(mid, node, t, n, by)
      BY <1>3, <2>1 DEF AllMoved
    <3>. QED
      BY <3>1, CreatedRow
  <2>3. Caused(run', n)
    BY <2>2, FreshRow, FirstAttempt DEF Placed, SameRun
  <2>. QED
    BY <1>2, <1>3, <2>1, <2>2, <2>3, BornCaused
<1>4. ASSUME NEW mid, AllMoved(mid), Queues(mid)
      PROVE  AllCaused(run')
  <2>1. PICK t \in Tasks, n \in RunIds :
               IsNextId(mid, n) /\ run' = Queued(mid, t, n, "SCHEDULE")
    BY <1>4 DEF Queues
  <2>2. run'[n] = Held(Fresh(t, n, "SCHEDULE")) /\ \A q \in RunIds \ {n} : run'[q] = mid[q]
    BY <1>2, <1>4, <2>1, QueuedRow
  <2>3. run'[n].task = t /\ run'[n].attempt = 1 /\ run'[n].retryOf = 0
    BY <2>2, FreshRow, HeldRow DEF SameRun
  <2>. QED
    BY <1>2, <1>4, <2>1, <2>2, <2>3, FirstAttempt, BornCaused
<1>5. ASSUME NEW mid, AllMoved(mid), Retries(mid)
      PROVE  AllCaused(run')
  <2>1. PICK x \in RunIds, n \in RunIds :
               /\ IsNextId(mid, n) /\ RetryDue(mid[x]) /\ run' = Retried(mid, node, x, n)
    BY <1>5 DEF Retries
  <2>2. mid[x].status \in AutoRetry /\ mid[x].status # "ABSENT" /\ x # n
    BY <2>1 DEF RetryDue, AutoRetry, IsNextId
  <2>3. Successor(run'[n], mid[x], x) /\ \A q \in RunIds \ {n} : run'[q] = mid[q]
    BY <1>2, <1>5, <2>1, <2>2, RetriedRow
  <2>4. mid[x].task \in Tasks /\ mid[x].attempt \in Nat /\ MaxAttempts[mid[x].task] \in Nat
    BY <1>2, <1>5, <2>2, ConstantsAssumption DEF WellFormedRows, WellFormed, Row
  <2>5. Caused(run', n)
    BY <2>1, <2>2, <2>3, <2>4 DEF Caused, Successor, RetryDue
  <2>. QED
    BY <1>2, <1>5, <2>1, <2>3, <2>5, BornCaused
<1>6. ASSUME NEW mid, AllMoved(mid), Skips(mid)
      PROVE  AllCaused(run')
  <2>1. PICK t \in Tasks, n \in RunIds : IsNextId(mid, n) /\ run' = Skipped(mid, t, n)
    BY <1>6 DEF Skips
  <2>2. /\ run'[n].task = t /\ run'[n].attempt = 1 /\ run'[n].retryOf = 0
        /\ \A q \in RunIds \ {n} : run'[q] = mid[q]
    BY <1>2, <1>6, <2>1, SkippedRow
  <2>. QED
    BY <1>2, <1>6, <2>1, <2>2, FirstAttempt, BornCaused
<1>7. ASSUME NEW mid, AllMoved(mid), Reroutes(mid)
      PROVE  AllCaused(run')
  <2>1. PICK nd : run' = Rerouted(mid, nd)
    BY <1>7 DEF Reroutes
  <2>2. ASSUME NEW r \in RunIds
        PROVE  KeepsCause(mid[r], run'[r])
    <3>1. CASE run'[r] = mid[r]
      BY <3>1 DEF KeepsCause, SameRun
    <3>2. CASE r \in Unclaimed(mid) /\ Placed(run'[r], mid[r])
      BY <3>2 DEF KeepsCause, Placed, Unclaimed, AutoRetry
    <3>. QED
      BY <1>2, <1>7, <2>1, <3>1, <3>2, ReroutePlaces
  <2>. QED
    BY <1>2, <1>7, <2>2, CausesKept
<1>. QED
  BY <1>1, <1>2, <1>3, <1>4, <1>5, <1>6, <1>7 DEF StepShape

\* A retry always has a cause that stands and an attempt number within
\* max_attempts, for any policies and any number of retries.
THEOREM RetriesHaveCauses == Spec => []RetryHasCause
<1>1. Init => AllCaused(run)
  BY DEF Init, Absent, AllCaused, Caused
<1>2. WellFormedRows(run) /\ AllCaused(run) /\ [Next]_vars => AllCaused(run)'
  <2>1. ASSUME WellFormedRows(run), AllCaused(run), [Next]_vars
        PROVE  AllCaused(run')
    BY <2>1, NextShape, CausesStep
  <2>. QED
    BY <2>1 DEF AllCaused, Caused
<1>3. AllCaused(run) => RetryHasCause
  BY DEF AllCaused, Caused, RetryHasCause
<1>. QED
  BY <1>1, <1>2, <1>3, AlwaysWellFormed, PTL DEF Spec

-------------------------------------------------------------------------------
(* The routing table is never left: among the four statuses a row ever has *)
(* only the moves out of ROUTE_CANCELLED are errors.                       *)

LEMMA RoutingTable ==
  ASSUME NEW old \in {"PENDING", "WAITING_RESOURCE", "ROUTED", "ROUTE_CANCELLED"},
         NEW new \in {"PENDING", "WAITING_RESOURCE", "ROUTED", "ROUTE_CANCELLED"},
         old = "ROUTE_CANCELLED" => new = "ROUTE_CANCELLED"
  PROVE  RoutingAllowed(old, new)
<1>1. CASE new = "ROUTE_CANCELLED"
  BY <1>1 DEF RoutingAllowed, RoutingTransitions, RoutingStatus
<1>2. CASE new # "ROUTE_CANCELLED"
  BY <1>2 DEF RoutingAllowed
<1>. QED
  BY <1>1, <1>2

StaysUnrouted(old, new) == old.routing = "ROUTE_CANCELLED" => new.routing = "ROUTE_CANCELLED"

LEMMA MovedStaysUnrouted ==
  ASSUME NEW mid, AllMoved(mid), NEW r \in RunIds
  PROVE  StaysUnrouted(run[r], mid[r])
BY DEF AllMoved, Moved, StaysUnrouted

LEMMA NextIdIsAbsent ==
  ASSUME NEW mid, AllMoved(mid), NEW n \in RunIds, IsNextId(mid, n)
  PROVE  run[n].status = "ABSENT"
BY SameNextId DEF IsNextId

LEMMA RoutingStep ==
  ASSUME WellFormedRows(run), StepShape, NEW r \in RunIds, run[r].status # "ABSENT"
  PROVE  StaysUnrouted(run[r], run'[r])
<1>1. CASE Takes
  <2>1. PICK x \in RunIds, s \in Servers :
               run[x].routing = "ROUTED" /\ run' = [run EXCEPT ![x] = Leased(@, s)]
    BY <1>1 DEF Takes
  <2>2. r # x => run'[r] = run[r]
    BY <2>1 DEF WellFormedRows
  <2>. QED
    BY <2>1, <2>2 DEF StaysUnrouted
<1>2. ASSUME NEW mid, AllMoved(mid), run' = mid
      PROVE  StaysUnrouted(run[r], run'[r])
  BY <1>2, MovedStaysUnrouted
<1>3. ASSUME NEW mid, AllMoved(mid), Creates(mid)
      PROVE  StaysUnrouted(run[r], run'[r])
  <2>1. PICK t \in Tasks, n \in RunIds, by \in {"MANUAL", "SCHEDULE"} :
               IsNextId(mid, n) /\ run' = Created(mid, node, t, n, by)
    BY <1>3 DEF Creates
  <2>2. \A q \in RunIds \ {n} : run'[q] = mid[q]
    <3>1. WellFormedRows(mid) /\ run' = Created(mid, node, t, n, by)
      BY <1>3, <2>1 DEF AllMoved
    <3>. QED
      BY <3>1, CreatedRow
  <2>. QED
    BY <1>3, <2>1, <2>2, NextIdIsAbsent, MovedStaysUnrouted
<1>4. ASSUME NEW mid, AllMoved(mid), Queues(mid)
      PROVE  StaysUnrouted(run[r], run'[r])
  <2>1. PICK t \in Tasks, n \in RunIds : IsNextId(mid, n) /\ run' = Queued(mid, t, n, "SCHEDULE")
    BY <1>4 DEF Queues
  <2>2. \A q \in RunIds \ {n} : run'[q] = mid[q]
    BY <1>4, <2>1, QueuedRow DEF AllMoved
  <2>. QED
    BY <1>4, <2>1, <2>2, NextIdIsAbsent, MovedStaysUnrouted
<1>5. ASSUME NEW mid, AllMoved(mid), Retries(mid)
      PROVE  StaysUnrouted(run[r], run'[r])
  <2>1. PICK x \in RunIds, n \in RunIds :
               IsNextId(mid, n) /\ RetryDue(mid[x]) /\ run' = Retried(mid, node, x, n)
    BY <1>5 DEF Retries
  <2>2. mid[x].status # "ABSENT"
    BY <2>1 DEF RetryDue, AutoRetry
  <2>3. \A q \in RunIds \ {n} : run'[q] = mid[q]
    BY <1>5, <2>1, <2>2, RetriedRow DEF AllMoved
  <2>. QED
    BY <1>5, <2>1, <2>3, NextIdIsAbsent, MovedStaysUnrouted
<1>6. ASSUME NEW mid, AllMoved(mid), Skips(mid)
      PROVE  StaysUnrouted(run[r], run'[r])
  <2>1. PICK t \in Tasks, n \in RunIds : IsNextId(mid, n) /\ run' = Skipped(mid, t, n)
    BY <1>6 DEF Skips
  <2>2. \A q \in RunIds \ {n} : run'[q] = mid[q]
    BY <1>6, <2>1, SkippedRow DEF AllMoved
  <2>. QED
    BY <1>6, <2>1, <2>2, NextIdIsAbsent, MovedStaysUnrouted
<1>7. ASSUME NEW mid, AllMoved(mid), Reroutes(mid)
      PROVE  StaysUnrouted(run[r], run'[r])
  <2>1. PICK nd : run' = Rerouted(mid, nd)
    BY <1>7 DEF Reroutes
  <2>2. run'[r] = mid[r] \/ r \in Unclaimed(mid)
    BY <1>7, <2>1, ReroutePlaces DEF AllMoved
  <2>3. StaysUnrouted(run[r], mid[r])
    BY <1>7, MovedStaysUnrouted
  <2>. QED
    BY <2>2, <2>3 DEF StaysUnrouted, Unclaimed
<1>. QED
  BY <1>1, <1>2, <1>3, <1>4, <1>5, <1>6, <1>7 DEF StepShape

\* set_routing_status never raises an error in a handler: no sweep dies of a
\* run it finds, whatever happened to the run before.
THEOREM RoutingIsLegal == Spec => RoutingNeverRaises
<1>1. ASSUME WellFormedRows(run), WellFormedRows(run'), [Next]_vars,
             NEW r \in RunIds, run[r].status # "ABSENT"
      PROVE  RoutingAllowed(run[r].routing, run'[r].routing)
  BY <1>1, NextShape, RoutingStep, RoutingTable DEF StaysUnrouted, WellFormedRows, WellFormed
<1>2. WellFormedRows(run) /\ WellFormedRows(run)' /\ [Next]_vars =>
        [\A r \in RunIds : run[r].status # "ABSENT" =>
           RoutingAllowed(run[r].routing, run'[r].routing)]_vars
  BY <1>1 DEF WellFormedRows
<1>. QED
  BY <1>2, AlwaysWellFormed, PTL DEF Spec, RoutingNeverRaises
==============================================================================
