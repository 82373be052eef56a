------------------------ MODULE CredentialLeaseProofs ------------------------
EXTENDS CredentialLease, TLAPS

-------------------------------------------------------------------------------
(* Types *)

Requests == [at : Stages, seen : Account, rows : [Leases -> LeaseStatus], of : 0..MaxLeases]

LEMMA StartingValues ==
  NewAccount \in Account /\ NoRequest \in Requests
<1>1. NewAccount \in Account
  BY DEF NewAccount, Account, Usage
<1>2. 0 \in 0..MaxLeases
  BY BoundAssumption
<1>. QED
  BY <1>1, <1>2 DEF NoRequest, Requests, Stages, LeaseStatus

LEMMA WrittenIsAccount ==
  ASSUME account \in Account, NEW loaded \in Account, NEW row \in Account
  PROVE  WrittenAccount(loaded, row) \in Account
BY DEF WrittenAccount, Column, Account

LEMMA EndKeepsType ==
  ASSUME LeaseTypeOK, NEW c \in Clients, End(c)
  PROVE  request' \in [Clients -> Requests]
BY StartingValues DEF End, LeaseTypeOK, Requests

LEMMA StageKeepsType ==
  ASSUME LeaseTypeOK, NEW c \in Clients, NEW stage \in Stages,
         request' = [request EXCEPT ![c].at = stage]
  PROVE  request' \in [Clients -> Requests]
BY DEF LeaseTypeOK, Requests

LEMMA BeginKeepsType ==
  ASSUME LeaseTypeOK, NEW c \in Clients, NEW stage \in Stages, NEW l \in 0..MaxLeases,
         Begin(c, stage, l)
  PROVE  LeaseTypeOK'
BY DEF Begin, LeaseTypeOK

LEMMA GoOnKeepsType ==
  ASSUME LeaseTypeOK, NEW c \in Clients, GoOn(c)
  PROVE  LeaseTypeOK'
<1>. USE DEF Requests
<1>1. request[c].seen \in Account
  BY DEF LeaseTypeOK
<1>2. CASE AcquireLock(c) \/ Usable(c) \/ ReleaseLock(c)
  BY <1>2, StageKeepsType DEF AcquireLock, Usable, ReleaseLock, LeaseTypeOK, Stages
<1>3. CASE Occupied(c) \/ Unusable(c) \/ Victim(c)
  BY <1>3, EndKeepsType DEF Occupied, Unusable, Victim, LeaseTypeOK
<1>4. CASE Grant(c)
  <2>1. [request[c].seen EXCEPT !.usage = "IN_USE"] \in Account
    BY <1>1 DEF Account, Usage
  <2>2. account' \in Account
    BY <1>1, <1>4, <2>1, WrittenIsAccount DEF Grant, LeaseTypeOK
  <2>3. lease' \in [Leases -> LeaseStatus]
    BY <1>4 DEF Grant, LeaseTypeOK, LeaseStatus
  <2>. QED
    BY <1>4, <2>2, <2>3, EndKeepsType DEF Grant, LeaseTypeOK
<1>5. CASE Release(c)
  <2>1. Freed(c) \in Account
    BY <1>1 DEF Freed, Account, Usage
  <2>2. account' \in Account
    BY <1>1, <1>5, <2>1, WrittenIsAccount DEF Release, LeaseTypeOK
  <2>3. lease' \in [Leases -> LeaseStatus]
    BY <1>5 DEF Release, LeaseTypeOK, LeaseStatus
  <2>. QED
    BY <1>5, <2>2, <2>3, EndKeepsType DEF Release, LeaseTypeOK
<1>6. ASSUME NEW on \in BOOLEAN, Switch(c, on)
      PROVE  LeaseTypeOK'
  <2>1. Switched(request[c].seen, on) \in Account
    BY <1>1 DEF Switched, Account, Usage
  <2>2. account' \in Account
    BY <1>1, <1>6, <2>1, WrittenIsAccount DEF Switch, LeaseTypeOK
  <2>. QED
    BY <1>6, <2>2, EndKeepsType DEF Switch, LeaseTypeOK
<1>7. ASSUME NEW usage \in EventUsage, Event(c, usage)
      PROVE  LeaseTypeOK'
  <2>1. Ingested(request[c].seen, usage) \in Account
    BY <1>1 DEF Ingested, Account, Usage, EventUsage
  <2>2. account' \in Account
    BY <1>1, <1>7, <2>1, WrittenIsAccount DEF Event, LeaseTypeOK
  <2>. QED
    BY <1>7, <2>2, EndKeepsType DEF Event, LeaseTypeOK
<1>. QED
  BY <1>2, <1>3, <1>4, <1>5, <1>6, <1>7 DEF GoOn, Acquire, Store

\* The rows of the account and of its leases, and the requests, keep their types.
THEOREM LeaseTypeCorrect == LeaseSpec => []LeaseTypeOK
<1>1. LeaseInit => LeaseTypeOK
  BY StartingValues DEF LeaseInit, LeaseTypeOK, LeaseStatus, Requests
<1>2. LeaseTypeOK /\ [LeaseNext]_leaseVars => LeaseTypeOK'
  <2>. SUFFICES ASSUME LeaseTypeOK, [LeaseNext]_leaseVars
                PROVE  LeaseTypeOK'
    OBVIOUS
  <2>1. CASE UNCHANGED leaseVars
    BY <2>1 DEF leaseVars, LeaseTypeOK
  <2>2. ASSUME NEW c \in Clients, Start(c)
        PROVE  LeaseTypeOK'
    <3>1. 0 \in 0..MaxLeases /\ Leases \subseteq 0..MaxLeases
      BY BoundAssumption DEF Leases
    <3>2. {"acquire", "switch", "event", "release"} \subseteq Stages
      BY DEF Stages
    <3>. QED
      BY <2>2, <3>1, <3>2, BeginKeepsType DEF Start
  <2>3. ASSUME NEW l \in Leases, LeaseRunsOut(l)
        PROVE  LeaseTypeOK'
    BY <2>3 DEF LeaseRunsOut, LeaseTypeOK
  <2>. QED
    BY <2>1, <2>2, <2>3, GoOnKeepsType DEF LeaseNext
<1>. QED
  BY <1>1, <1>2, PTL DEF LeaseSpec

-------------------------------------------------------------------------------
(* One lease at a time, and no account in use without one.  At most one    *)
(* request holds the lock of the account, what it found free stays free    *)
(* until it has written its lease, and a release that ends the lease of an *)
(* account in use has seen it in use and held by no other lease.           *)

OnAccount(c) == request[c].at \in {"acquiring", "granting"}

LockedOnce == \A c, d \in Clients : OnAccount(c) /\ OnAccount(d) => c = d

FoundFree == \A c \in Clients : request[c].at = "granting" => ActiveLeases = {}

SeesItsLease(c) ==
  request[c].at \in {"release", "releasing"} =>
    /\ request[c].of \in Leases /\ lease[request[c].of] # "ABSENT"
    /\ lease[request[c].of] = "ACTIVE" =>
         /\ account.usage = "IN_USE" => request[c].seen.usage = "IN_USE"
         /\ \A k \in Leases : request[c].rows[k] = "ACTIVE" => k = request[c].of

ReleasesSee == \A c \in Clients : SeesItsLease(c)

LeaseInv == LockedOnce /\ FoundFree /\ SingleLease /\ InUseIsLeased /\ ReleasesSee

\* The usage becomes IN_USE in no step but a grant.
NotTakenInUse == account'.usage = "IN_USE" => account.usage = "IN_USE"

LEMMA QuietStep ==
  ASSUME LeaseTypeOK, LeaseInv, NEW c \in Clients, NEW q, request' = [request EXCEPT ![c] = q],
         q.at \in {"idle", "acquire", "switch", "event"}, lease' = lease, NotTakenInUse
  PROVE  LeaseInv'
<1>1. request'[c] = q /\ \A d \in Clients \ {c} : request'[d] = request[d]
  BY DEF LeaseTypeOK
<1>2. ActiveLeases' = ActiveLeases
  BY DEF ActiveLeases
<1>3. LockedOnce' /\ FoundFree'
  BY <1>1, <1>2 DEF LeaseInv, LockedOnce, FoundFree, OnAccount
<1>4. SingleLease' /\ InUseIsLeased'
  BY <1>2 DEF LeaseInv, SingleLease, InUseIsLeased, NotTakenInUse
<1>5. ReleasesSee'
  BY <1>1 DEF LeaseInv, ReleasesSee, SeesItsLease, NotTakenInUse
<1>. QED
  BY <1>3, <1>4, <1>5 DEF LeaseInv

\* A step of a request that moves it to another stage with what it has read.
LEMMA StageStep ==
  ASSUME LeaseTypeOK, LeaseInv, NEW c \in Clients, NEW stage,
         request' = [request EXCEPT ![c].at = stage], UNCHANGED <<account, lease>>,
         \/ stage = "acquiring" /\ ~AccountLocked
         \/ stage = "granting" /\ OnAccount(c) /\ ActiveLeases = {}
         \/ stage = "releasing" /\ request[c].at = "release"
  PROVE  LeaseInv'
<1>1. /\ request'[c].at = stage /\ request'[c].of = request[c].of
      /\ request'[c].seen = request[c].seen /\ request'[c].rows = request[c].rows
      /\ \A d \in Clients \ {c} : request'[d] = request[d]
  BY DEF LeaseTypeOK
<1>2. ActiveLeases' = ActiveLeases
  BY DEF ActiveLeases
<1>3. LockedOnce'
  BY <1>1 DEF LeaseInv, LockedOnce, OnAccount, AccountLocked
<1>4. FoundFree'
  BY <1>1, <1>2 DEF LeaseInv, FoundFree
<1>5. SingleLease' /\ InUseIsLeased'
  BY <1>2 DEF LeaseInv, SingleLease, InUseIsLeased
<1>6. ReleasesSee'
  BY <1>1 DEF LeaseInv, ReleasesSee, SeesItsLease
<1>. QED
  BY <1>3, <1>4, <1>5, <1>6 DEF LeaseInv

LEMMA BeginReleaseStep ==
  ASSUME LeaseTypeOK, LeaseInv, NEW c \in Clients, NEW l \in Leases,
         lease[l] # "ABSENT", Begin(c, "release", l)
  PROVE  LeaseInv'
<1>1. /\ request'[c] = [at |-> "release", seen |-> account, rows |-> lease, of |-> l]
      /\ \A d \in Clients \ {c} : request'[d] = request[d]
  BY DEF LeaseTypeOK, Begin
<1>2. ActiveLeases' = ActiveLeases /\ lease' = lease /\ account' = account
  BY DEF ActiveLeases, Begin
<1>3. LockedOnce' /\ FoundFree'
  BY <1>1, <1>2 DEF LeaseInv, LockedOnce, FoundFree, OnAccount
<1>4. SingleLease' /\ InUseIsLeased'
  BY <1>2 DEF LeaseInv, SingleLease, InUseIsLeased
<1>5. SeesItsLease(c)'
  BY <1>1, <1>2 DEF SeesItsLease, LeaseInv, SingleLease, ActiveLeases
<1>6. ReleasesSee'
  BY <1>1, <1>2, <1>5 DEF LeaseInv, ReleasesSee, SeesItsLease
<1>. QED
  BY <1>3, <1>4, <1>6 DEF LeaseInv

LEMMA GrantStep ==
  ASSUME LeaseTypeOK, LeaseInv, NEW c \in Clients, Grant(c)
  PROVE  LeaseInv'
<1>1. PICK l \in Leases :
             /\ lease[l] = "ABSENT"
             /\ lease' = [k \in Leases |-> IF k = l THEN "ACTIVE"
                                            ELSE IF k \in Overdue(c) THEN "EXPIRED" ELSE lease[k]]
  BY DEF Grant
<1>2. request'[c] = NoRequest /\ \A d \in Clients \ {c} : request'[d] = request[d]
  BY DEF LeaseTypeOK, Grant, End
<1>3. ActiveLeases = {} /\ OnAccount(c)
  BY DEF Grant, LeaseInv, FoundFree, OnAccount
<1>4. ActiveLeases' = {l}
  BY <1>1, <1>3 DEF ActiveLeases
<1>5. \A d \in Clients : ~OnAccount(d)'
  BY <1>2, <1>3 DEF LeaseInv, LockedOnce, OnAccount, NoRequest
<1>6. LockedOnce' /\ FoundFree'
  BY <1>5 DEF LockedOnce, FoundFree, OnAccount
<1>7. SingleLease' /\ InUseIsLeased'
  BY <1>4 DEF SingleLease, InUseIsLeased
<1>8. ASSUME NEW d \in Clients
      PROVE  SeesItsLease(d)'
  <2>1. CASE d = c
    BY <1>2, <2>1 DEF SeesItsLease, NoRequest
  <2>2. CASE d # c /\ request[d].at \in {"release", "releasing"}
    <3>1. request[d].of \in Leases /\ lease[request[d].of] # "ABSENT"
      BY <2>2 DEF LeaseInv, ReleasesSee, SeesItsLease
    <3>2. lease'[request[d].of] \notin {"ABSENT", "ACTIVE"}
      BY <1>1, <1>3, <3>1 DEF ActiveLeases
    <3>. QED
      BY <1>2, <2>2, <3>1, <3>2 DEF SeesItsLease
  <2>3. CASE d # c /\ request[d].at \notin {"release", "releasing"}
    BY <1>2, <2>3 DEF SeesItsLease
  <2>. QED
    BY <2>1, <2>2, <2>3
<1>. QED
  BY <1>6, <1>7, <1>8 DEF LeaseInv, ReleasesSee

LEMMA ReleaseStep ==
  ASSUME LeaseTypeOK, LeaseInv, NEW c \in Clients, Release(c)
  PROVE  LeaseInv'
<1>. DEFINE l == request[c].of
            seen == request[c].seen
<1>1. request'[c] = NoRequest /\ \A d \in Clients \ {c} : request'[d] = request[d]
  BY DEF LeaseTypeOK, Release, End
<1>2. l \in Leases /\ SeesItsLease(c) /\ request[c].at = "releasing"
  BY DEF Release, LeaseInv, ReleasesSee, SeesItsLease
<1>3. /\ lease' = [lease EXCEPT ![l] = IF @ = "ACTIVE" THEN "RELEASED" ELSE @]
      /\ account'.usage = Column(account.usage, seen.usage, Freed(c).usage)
  BY DEF Release, WrittenAccount, LeaseTypeOK, Account
<1>4. /\ \A k \in Leases : lease'[k] = "ACTIVE" <=> lease[k] = "ACTIVE" /\ k # l
      /\ \A k \in Leases : lease'[k] = "ABSENT" <=> lease[k] = "ABSENT"
  BY <1>2, <1>3 DEF LeaseTypeOK
<1>5. ActiveLeases' = ActiveLeases \ {l}
  BY <1>4 DEF ActiveLeases
<1>6. Freed(c).usage = seen.usage \/ Freed(c).usage = "AVAILABLE"
  BY DEF Freed, LeaseTypeOK, Account
<1>7. NotTakenInUse
  BY <1>3, <1>6 DEF Column, NotTakenInUse
<1>8. LockedOnce' /\ FoundFree' /\ SingleLease'
  BY <1>1, <1>5 DEF LeaseInv, LockedOnce, FoundFree, SingleLease, OnAccount, NoRequest
<1>9. ASSUME account.usage = "IN_USE", lease[l] = "ACTIVE"
      PROVE  account'.usage # "IN_USE"
  <2>1. seen.usage = "IN_USE" /\ ~OtherActive(c)
    BY <1>2, <1>9 DEF SeesItsLease, OtherActive
  <2>2. Freed(c).usage = "AVAILABLE"
    BY <2>1 DEF Freed, LeaseTypeOK, Account
  <2>. QED
    BY <1>3, <2>1, <2>2 DEF Column
<1>10. InUseIsLeased'
  BY <1>2, <1>5, <1>7, <1>9 DEF LeaseInv, InUseIsLeased, NotTakenInUse, SingleLease, ActiveLeases
<1>11. ReleasesSee'
  BY <1>1, <1>4, <1>7 DEF LeaseInv, ReleasesSee, SeesItsLease, NoRequest, NotTakenInUse
<1>. QED
  BY <1>8, <1>10, <1>11 DEF LeaseInv

LEMMA StoreStep ==
  ASSUME LeaseTypeOK, LeaseInv, NEW c \in Clients, Store(c)
  PROVE  LeaseInv'
<1>. NoRequest.at = "idle"
  BY DEF NoRequest
<1>1. ASSUME NEW row, account' = WrittenAccount(request[c].seen, row),
             row.usage = request[c].seen.usage \/ row.usage # "IN_USE"
      PROVE  NotTakenInUse
  BY <1>1 DEF NotTakenInUse, WrittenAccount, Column, LeaseTypeOK, Account
<1>2. ASSUME NEW on \in BOOLEAN, Switch(c, on)
      PROVE  LeaseInv'
  <2>1. LET row == Switched(request[c].seen, on)
        IN row.usage = request[c].seen.usage \/ row.usage # "IN_USE"
    BY DEF Switched, LeaseTypeOK, Account
  <2>. QED
    BY <1>1, <1>2, <2>1, QuietStep DEF Switch, End
<1>3. ASSUME NEW usage \in EventUsage, Event(c, usage)
      PROVE  LeaseInv'
  <2>1. LET row == Ingested(request[c].seen, usage)
        IN row.usage = request[c].seen.usage \/ row.usage # "IN_USE"
    BY DEF Ingested, EventUsage, LeaseTypeOK, Account
  <2>. QED
    BY <1>1, <1>3, <2>1, QuietStep DEF Event, End
<1>. QED
  BY <1>2, <1>3 DEF Store

LEMMA LeaseInvStep ==
  ASSUME LeaseTypeOK, LeaseInv, [LeaseNext]_leaseVars
  PROVE  LeaseInv'
<1>1. CASE UNCHANGED <<account, lease, request>>
  BY <1>1 DEF LeaseInv, LockedOnce, FoundFree, SingleLease, InUseIsLeased, ReleasesSee,
              SeesItsLease, OnAccount, ActiveLeases
<1>2. ASSUME NEW c \in Clients, Start(c)
      PROVE  LeaseInv'
  <2>1. ASSUME NEW stage \in {"acquire", "switch", "event"}, Begin(c, stage, 0)
        PROVE  LeaseInv'
    BY <2>1, QuietStep DEF Begin, NotTakenInUse
  <2>. QED
    BY <1>2, <2>1, BeginReleaseStep DEF Start
<1>3. ASSUME NEW c \in Clients, AcquireLock(c) \/ Usable(c) \/ ReleaseLock(c)
      PROVE  LeaseInv'
  BY <1>3, StageStep DEF AcquireLock, Usable, ReleaseLock, AcquireReady, OnAccount
<1>4. ASSUME NEW c \in Clients, Occupied(c) \/ Unusable(c) \/ Victim(c)
      PROVE  LeaseInv'
  <2>1. NoRequest.at = "idle"
    BY DEF NoRequest
  <2>. QED
    BY <1>4, <2>1, QuietStep DEF Occupied, Unusable, Victim, End, NotTakenInUse
<1>5. ASSUME NEW l \in Leases, LeaseRunsOut(l)
      PROVE  UNCHANGED <<account, lease, request>>
  BY <1>5 DEF LeaseRunsOut
<1>. QED
  BY <1>1, <1>2, <1>3, <1>4, <1>5, GrantStep, ReleaseStep, StoreStep
     DEF LeaseNext, GoOn, Acquire, leaseVars

\* In every reachable state the locks and the snapshots protect the lease.
THEOREM LeaseInvHolds == LeaseSpec => []LeaseInv
<1>1. LeaseInit => LeaseInv
  BY DEF LeaseInit, NoRequest, NewAccount, LeaseInv, LockedOnce, FoundFree, SingleLease,
         InUseIsLeased, ReleasesSee, SeesItsLease, OnAccount, ActiveLeases
<1>2. LeaseTypeOK /\ LeaseInv /\ [LeaseNext]_leaseVars => LeaseInv'
  BY LeaseInvStep
<1>. QED
  BY <1>1, <1>2, LeaseTypeCorrect, PTL DEF LeaseSpec

\* An account is never leased twice, for any number of clients and leases.
THEOREM LeasesExclude == LeaseSpec => []SingleLease
BY LeaseInvHolds, PTL DEF LeaseInv

\* No account stays IN_USE without an active lease, for any number of them.
THEOREM UsageFollowsLease == LeaseSpec => []InUseIsLeased
BY LeaseInvHolds, PTL DEF LeaseInv
==============================================================================
