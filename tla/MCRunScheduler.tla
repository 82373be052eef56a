---------------------------- MODULE MCRunScheduler ----------------------------
(***************************************************************************)
(* Instances of RunScheduler for TLC: the constants that are functions.    *)
(***************************************************************************)
EXTENDS RunScheduler, TLC

CONSTANTS t1, t2, t3, s1, login, proxy

\* task_max_concurrency, group_max_concurrency and max_attempts
Unlimited == [t \in Tasks |-> 0]
One == [t \in Tasks |-> 1]
Two == [t \in Tasks |-> 2]
Four == [t \in Tasks |-> 4]
LastOne == (t1 :> 0) @@ (t2 :> 0) @@ (t3 :> 1)
OneOrTwo == (t1 :> 1) @@ (t2 :> 2)

Same == [t \in Tasks |-> "default"]

Never == [t \in Tasks |-> FALSE]
Always == [t \in Tasks |-> TRUE]
FirstExclusive == (t1 :> TRUE) @@ (t2 :> FALSE)

NoLocks == [t \in Tasks |-> {}]
SharedAccount == (t1 :> {}) @@ (t2 :> {login}) @@ (t3 :> {login, proxy})

AnyNode == [t \in Tasks |-> Servers]

Skipping == [t \in Tasks |-> "SKIP"]
Queueing == [t \in Tasks |-> "QUEUE"]
CancellingOld == [t \in Tasks |-> "CANCEL_OLD"]
SkipOrCancelOld == (t1 :> "SKIP") @@ (t2 :> "CANCEL_OLD")

TwoSlots == [s \in Servers |-> 2]
EqualPriority == [s \in Servers |-> 100]
===============================================================================
