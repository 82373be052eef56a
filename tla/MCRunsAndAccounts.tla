-------------------------- MODULE MCRunsAndAccounts --------------------------
(***************************************************************************)
(* One run for what must come to an end in two components that share no    *)
(* state: the runs that Agents have taken, and the requests for the lease  *)
(* of a platform account.  A behaviour belongs to one of them, its part,   *)
(* and leaves the other in its initial state; each is explored in full,    *)
(* under the fairness of its own specification.                            *)
(***************************************************************************)
EXTENDS MCRunScheduler, CredentialLease

VARIABLE part

partVars == <<part, vars, leaseVars>>

InRuns  == part = "runs"  /\ UNCHANGED <<part, leaseVars>>
InLease == part = "lease" /\ UNCHANGED <<part, vars>>

PartInit == part \in {"runs", "lease"} /\ Init /\ LeaseInit

PartNext == (InRuns /\ Next) \/ (InLease /\ LeaseNext)

\* Fairness and LeaseFairness, each for the behaviours of its part.
PartFairness ==
  /\ WF_vars(InRuns /\ Reroute)
  /\ \A t \in Tasks : WF_vars(InRuns /\ DispatchDue(t))
  /\ \A s \in Servers : WF_vars(InRuns /\ ClaimRun(s))
  /\ \A r \in RunIds : /\ WF_vars(InRuns /\ (Deliver(r) \/ LeaseExpires(r)))
                       /\ SF_vars(InRuns /\ MarkLost(r))
  /\ \A c \in Clients : SF_leaseVars(InLease /\ GoOn(c))

PartSpec == PartInit /\ [][PartNext]_partVars /\ PartFairness
==============================================================================
