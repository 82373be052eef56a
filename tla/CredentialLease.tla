--------------------------- MODULE CredentialLease ---------------------------
(***************************************************************************)
(* The lease of one platform account (a row of crawler_account_credential) *)
(* and the requests that contend for it: acquire_lease and release_lease   *)
(* of the runs, set_enabled of the operators and the status events, all of *)
(* backend/app/services/account_status_service.py.                         *)
(*                                                                         *)
(* A request is one InnoDB transaction at REPEATABLE READ, in steps: plain *)
(* reads see the snapshot of its first query (the caller's identity), FOR  *)
(* UPDATE waits for the row and reads what is committed, an object loaded  *)
(* before is not refreshed by it, and the session writes nothing before    *)
(* the commit (autoflush is off), then only the columns it has changed.    *)
(***************************************************************************)
EXTENDS Naturals, FiniteSets

CONSTANTS
  Clients,    \* the callers; each has one request at a time
  MaxLeases   \* BOUND: rows of crawler_credential_lease

ASSUME BoundAssumption == MaxLeases \in Nat

VARIABLES
  account,  \* the committed row of the account
  lease,    \* lease_status of the rows of the account
  over,     \* the leases whose lease_until is past
  request   \* what each client's transaction has read, and where it is

leaseVars == <<account, lease, over, request>>

Leases == 1..MaxLeases

Usage == {"AVAILABLE", "IN_USE", "COOLDOWN", "LOCKED"}

Account == [enabled : BOOLEAN, health : {"OTHER", "DISABLED"}, usage : Usage]

LeaseStatus == {"ABSENT", "ACTIVE", "RELEASED", "EXPIRED"}

\* Where a request is: an acquire before it has the lock of the account, with
\* the lock, and after its checks; a release before and after it has the lock of
\* the lease; and the writers of the account before their commit.
Stages == {"idle", "acquire", "acquiring", "granting", "release", "releasing", "switch", "event"}

LeaseTypeOK ==
  /\ account \in Account
  /\ lease \in [Leases -> LeaseStatus]
  /\ over \subseteq Leases
  /\ request \in [Clients -> [at : Stages, seen : Account,
                              rows : [Leases -> LeaseStatus], of : 0..MaxLeases]]

AtRest(c) == request[c].at = "idle"

NewAccount == [enabled |-> TRUE, health |-> "OTHER", usage |-> "AVAILABLE"]

\* A finished request forgets what it read.
NoRequest == [at |-> "idle", seen |-> NewAccount,
              rows |-> [l \in Leases |-> "ABSENT"], of |-> 0]

LeaseInit ==
  /\ account = NewAccount
  /\ lease = [l \in Leases |-> "ABSENT"]
  /\ over = {}
  /\ request = [c \in Clients |-> NoRequest]

\* The first query of the request fixes its snapshot.
Begin(c, stage, l) ==
  /\ AtRest(c)
  /\ request' = [request EXCEPT ![c] =
                   [at |-> stage, seen |-> account, rows |-> lease, of |-> l]]
  /\ UNCHANGED <<account, lease, over>>

End(c) == request' = [request EXCEPT ![c] = NoRequest]

ActiveLeases == {l \in Leases : lease[l] = "ACTIVE"}

\* Row locks, held from the FOR UPDATE to the end of the transaction.
AccountLocked == \E c \in Clients : request[c].at \in {"acquiring", "granting"}
LeaseLocked(l) == \E c \in Clients : request[c].at = "releasing" /\ request[c].of = l

\* The session writes a column only if its value differs from the one loaded.
Column(committed, loaded, value) == IF value = loaded THEN committed ELSE value
WrittenAccount(loaded, row) ==
  [account EXCEPT !.enabled = Column(@, loaded.enabled, row.enabled),
                  !.health = Column(@, loaded.health, row.health),
                  !.usage = Column(@, loaded.usage, row.usage)]

\* An UPDATE of the account waits for its lock; there is none without changes.
MayWrite(loaded, row) == row = loaded \/ ~AccountLocked

-------------------------------------------------------------------------------
(* acquire_lease *)

\* Mutant: the account is read without FOR UPDATE.
AcquireUnlocked(c) ==
  /\ request[c].at = "acquire"
  /\ request' = [request EXCEPT ![c].at = "acquiring"]
  /\ UNCHANGED <<account, lease, over>>

AcquireLock(c) ==
  /\ request[c].at = "acquire" /\ ~AccountLocked
  /\ request' = [request EXCEPT ![c].at = "acquiring"]
  /\ UNCHANGED <<account, lease, over>>

\* The active row is read with FOR UPDATE too, so it waits for a release.
AcquireReady(c) == request[c].at = "acquiring" /\ \A l \in ActiveLeases : ~LeaseLocked(l)

\* Mutant: the error leaves the session and its locks open.
OccupiedForEver(c) == AcquireReady(c) /\ ActiveLeases # {} /\ UNCHANGED leaseVars

\* 40980: the leases just marked EXPIRED in the session are still ACTIVE in the
\* database, so they are found too; the error rolls the marks back.
Occupied(c) ==
  /\ AcquireReady(c) /\ ActiveLeases # {}
  /\ End(c)
  /\ UNCHANGED <<account, lease, over>>

Leasable(row) == row.enabled /\ row.usage \notin {"LOCKED", "COOLDOWN"}

\* 40981, judged on the account as it was loaded before the lock.
Unusable(c) ==
  /\ AcquireReady(c) /\ ActiveLeases = {} /\ ~Leasable(request[c].seen)
  /\ End(c)
  /\ UNCHANGED <<account, lease, over>>

Usable(c) ==
  /\ AcquireReady(c) /\ ActiveLeases = {} /\ Leasable(request[c].seen)
  /\ request' = [request EXCEPT ![c].at = "granting"]
  /\ UNCHANGED <<account, lease, over>>

\* The leases the snapshot shows as active and past are written as EXPIRED.
Overdue(c) == {l \in over : request[c].rows[l] = "ACTIVE"}

Grant(c) ==
  /\ request[c].at = "granting"
  /\ \E l \in Leases :
       /\ lease[l] = "ABSENT" /\ \A k \in Leases : k < l => lease[k] # "ABSENT"
       /\ lease' = [k \in Leases |-> IF k = l THEN "ACTIVE"
                                     ELSE IF k \in Overdue(c) THEN "EXPIRED" ELSE lease[k]]
  /\ account' = WrittenAccount(request[c].seen, [request[c].seen EXCEPT !.usage = "IN_USE"])
  /\ End(c)
  /\ UNCHANGED over

-------------------------------------------------------------------------------
(* release_lease, by the Agent of the lease or by a user of the company; the *)
(* same lease may be released again.                                         *)

ReleaseLock(c) ==
  /\ request[c].at = "release" /\ ~LeaseLocked(request[c].of)
  /\ request' = [request EXCEPT ![c].at = "releasing"]
  /\ UNCHANGED <<account, lease, over>>

\* Mutant: the lease being released is not left out of the other active ones.
OtherActiveOrSelf(c) ==
  \E l \in Leases \ over : request[c].rows[l] = "ACTIVE"

OtherActive(c) ==
  \E l \in Leases \ over : request[c].rows[l] = "ACTIVE" /\ l # request[c].of

Freed(c) ==
  IF request[c].seen.usage = "IN_USE" /\ ~OtherActive(c)
    THEN [request[c].seen EXCEPT !.usage = "AVAILABLE"] ELSE request[c].seen

Release(c) ==
  /\ request[c].at = "releasing"
  /\ MayWrite(request[c].seen, Freed(c))
  /\ lease' = [lease EXCEPT ![request[c].of] = IF @ = "ACTIVE" THEN "RELEASED" ELSE @]
  /\ account' = WrittenAccount(request[c].seen, Freed(c))
  /\ End(c)
  /\ UNCHANGED over

-------------------------------------------------------------------------------
(* The other writers of the account *)

\* set_enabled
Switched(row, on) ==
  IF ~on THEN [enabled |-> FALSE, health |-> "DISABLED", usage |-> "LOCKED"]
  ELSE IF row.health = "DISABLED" THEN [enabled |-> TRUE, health |-> "OTHER", usage |-> "AVAILABLE"]
  ELSE [row EXCEPT !.enabled = TRUE]

Switch(c, on) ==
  /\ request[c].at = "switch"
  /\ MayWrite(request[c].seen, Switched(request[c].seen, on))
  /\ account' = WrittenAccount(request[c].seen, Switched(request[c].seen, on))
  /\ End(c)
  /\ UNCHANGED <<lease, over>>

\* Mutant: the quota codes get a usage of their own.
EventUsageWithQuota == {"AVAILABLE", "COOLDOWN", "LOCKED", "QUOTA"}

\* _status_mapping maps the codes of a run to one of these.
EventUsage == {"AVAILABLE", "COOLDOWN", "LOCKED"}

\* _ingest of an event that affects the credential. It also writes its time
\* of verification, so it always waits for the row.
Ingested(row, usage) ==
  IF row.enabled THEN [row EXCEPT !.health = "OTHER", !.usage = usage] ELSE row

Event(c, usage) ==
  /\ request[c].at = "event" /\ ~AccountLocked
  /\ account' = WrittenAccount(request[c].seen, Ingested(request[c].seen, usage))
  /\ End(c)
  /\ UNCHANGED <<lease, over>>

-------------------------------------------------------------------------------
(* Time, and the deadlock detection of InnoDB *)

\* The holder ended without a release, or is late.
LeaseRunsOut(l) ==
  /\ l \in ActiveLeases \ over
  /\ over' = over \cup {l}
  /\ UNCHANGED <<account, lease, request>>

\* acquire locks the account and then the lease, release the other way round.
WaitCycle(a, r) ==
  /\ request[a].at = "acquiring" /\ request[r].at = "releasing"
  /\ request[r].of \in ActiveLeases /\ ~MayWrite(request[r].seen, Freed(r))

\* One of the two is rolled back; the services do not try it again.
Victim(c) ==
  /\ \E d \in Clients : WaitCycle(c, d) \/ WaitCycle(d, c)
  /\ End(c)
  /\ UNCHANGED <<account, lease, over>>

-------------------------------------------------------------------------------
\* BOUND: an acquire starts only if there is a row left for it.
RowsLeft ==
  Cardinality({l \in Leases : lease[l] = "ABSENT"}) >
    Cardinality({c \in Clients : request[c].at \in {"acquire", "acquiring", "granting"}})

Start(c) ==
  \/ RowsLeft /\ Begin(c, "acquire", 0)
  \/ \E stage \in {"switch", "event"} : Begin(c, stage, 0)
  \/ \E l \in Leases : lease[l] # "ABSENT" /\ Begin(c, "release", l)

Acquire(c) == AcquireLock(c) \/ Occupied(c) \/ Unusable(c) \/ Usable(c) \/ Grant(c)

Store(c) ==
  \/ \E on \in BOOLEAN : Switch(c, on)
  \/ \E usage \in EventUsage : Event(c, usage)

GoOn(c) == Acquire(c) \/ ReleaseLock(c) \/ Release(c) \/ Store(c) \/ Victim(c)

LeaseNext ==
  \/ \E c \in Clients : Start(c) \/ GoOn(c)
  \/ \E l \in Leases : LeaseRunsOut(l)

LeaseSpec == LeaseInit /\ [][LeaseNext]_leaseVars

(***************************************************************************)
(* A request goes on as soon as it can; the lock queues of InnoDB are      *)
(* first come first served, so a waiting one is not overtaken for ever.    *)
(***************************************************************************)
LeaseFairness == \A c \in Clients : SF_leaseVars(GoOn(c))

-------------------------------------------------------------------------------
(* Properties *)

\* The account is never leased twice, however many requests read it as free at
\* the same time ("避免账号池并发双占").
SingleLease == \A k, l \in ActiveLeases : k = l

\* An account is never left IN_USE with nobody to free it: the usage written by
\* an acquire is undone by the release, although each decides on a snapshot
\* that the events, the operators and late second releases may have overtaken.
InUseIsLeased == account.usage = "IN_USE" => ActiveLeases # {}

\* Every request is answered, although acquire and release take the locks of
\* the account and of the lease in opposite orders.
RequestsEnd == \A c \in Clients : ~AtRest(c) ~> AtRest(c)

\* "主动清理过期 ACTIVE 租约，避免异常退出永久占用账号": the leases that have run
\* out are cleared first, so only a lease that still runs refuses an acquire.
OccupiedByLiveLease ==
  [][\A c \in Clients : Occupied(c) => ActiveLeases \ over # {}]_leaseVars
===============================================================================
