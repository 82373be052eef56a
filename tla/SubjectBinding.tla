--------------------------- MODULE SubjectBinding ---------------------------
(***************************************************************************)
(* Which account one business object (a subject) belongs to: the first     *)
(* report of a success binds it, later reports keep the record up to date  *)
(* and never move it to another account, an operator may.                  *)
(*                                                                         *)
(* A report is one InnoDB transaction at REPEATABLE READ: a plain read     *)
(* looks for its event, then FOR UPDATE takes the row of the subject or,   *)
(* when there is none, the gap where it would be, which others may take    *)
(* too, and the commit stores the event and the row.  An operator's        *)
(* request reads without a lock and at its commit writes the columns that  *)
(* differ from what it read.  The status of a binding is for display.      *)
(***************************************************************************)
EXTENDS Naturals, FiniteSets

CONSTANTS
    Accounts,     \* credential_key
    Told,         \* the events of the runs: what each one tells, a function
    Unbound,      \* there is no row
    Reporters     \* requests that deliver events

Policies == {"MANUAL_ONLY", "STRICT"}
Row      == [account : Accounts, policy : Policies, failures : Nat]

ASSUME SubjectAssumption ==
    /\ Unbound \notin Row
    /\ \A e \in DOMAIN Told : Told[e] \in [account : Accounts, success : BOOLEAN]

VARIABLES
    bound,        \* crawler_credential_subject_binding: the row of the subject
    stored,       \* crawler_account_status_event: the events, by event_uid
    counted,      \* history: the failures since the last success
    report,       \* the transactions of the reporters
    desk          \* the row an operator's request has read

subjectVars == <<bound, stored, counted, report, desk>>

Events == DOMAIN Told

NoReport == [at |-> "IDLE", event |-> 0, seen |-> Unbound]

\* One type invariant for the row, the events and the transactions.
SubjectTypeOK ==
    /\ bound \in Row \cup {Unbound}
    /\ stored \subseteq Events /\ counted \subseteq stored
    /\ report \in [Reporters -> [at : {"IDLE", "BEGUN", "LOCKED", "GAP"},
                                 event : Events \cup {0}, seen : Row \cup {Unbound}]]
    /\ desk \in [open : BOOLEAN, seen : Row \cup {Unbound}]

SubjectInit ==
    /\ bound = Unbound /\ stored = {} /\ counted = {}
    /\ report = [r \in Reporters |-> NoReport]
    /\ desk = [open |-> FALSE, seen |-> Unbound]

Tells(r) == Told[report[r].event]
InStage(r, stage) == report[r].at = stage
Ends(r) == report' = [report EXCEPT ![r] = NoReport]

\* Locks of other transactions: on the row, and on the gap.
RowFree == \A q \in Reporters : ~InStage(q, "LOCKED")
GapFree(r) == \A q \in Reporters \ {r} : ~InStage(q, "GAP")

-----------------------------------------------------------------------------
(* Reports *)

\* An event that is stored already is answered at once.  The same event may
\* be under way twice, when an answer was lost.
ReportBegins(r, e) ==
    /\ InStage(r, "IDLE") /\ e \notin stored
    /\ report' = [report EXCEPT ![r] = [at |-> "BEGUN", event |-> e, seen |-> Unbound]]
    /\ UNCHANGED <<bound, stored, counted, desk>>

\* Mutant: the row is read without FOR UPDATE.
ReadsUnlocked(r) ==
    /\ InStage(r, "BEGUN")
    /\ report' = [report EXCEPT ![r].at = IF bound = Unbound THEN "GAP" ELSE "LOCKED",
                                ![r].seen = bound]

\* SELECT ... FOR UPDATE waits for the row and reads what is committed.
Locks(r) ==
    /\ InStage(r, "BEGUN") /\ RowFree
    /\ report' = [report EXCEPT ![r].at = IF bound = Unbound THEN "GAP" ELSE "LOCKED",
                                ![r].seen = bound]

ReportLocks(r) == Locks(r) /\ UNCHANGED <<bound, stored, counted, desk>>

\* The commit stores the event; the unique event_uid refuses a second one.
Stores(r) ==
    /\ report[r].event \notin stored
    /\ stored' = stored \cup {report[r].event}
    /\ Ends(r)
    /\ UNCHANGED desk

\* The first success binds.  The insert waits for the gap.
ReportBinds(r) ==
    /\ InStage(r, "GAP") /\ Tells(r).success /\ GapFree(r)
    /\ bound' = [account |-> Tells(r).account, policy |-> "MANUAL_ONLY", failures |-> 0]
    /\ counted' = {}
    /\ Stores(r)

\* A success of the account the subject is bound to, or a failure of any.
\* A success of another account is a conflict noted in the event.
Updated(r) ==
    LET row == report[r].seen IN
    IF ~Tells(r).success THEN row.failures + 1
    ELSE IF row.account = Tells(r).account THEN 0
    ELSE row.failures

ReportUpdates(r) ==
    /\ InStage(r, "LOCKED")
    /\ bound' = [bound EXCEPT !.failures = Updated(r)]
    /\ counted' = IF ~Tells(r).success THEN counted \cup {report[r].event}
                  ELSE IF bound.account = Tells(r).account THEN {} ELSE counted
    /\ Stores(r)

\* A failure of a subject that is not bound leaves no trace but its event.
ReportOfUnbound(r) ==
    /\ InStage(r, "GAP") /\ ~Tells(r).success
    /\ Stores(r)
    /\ UNCHANGED <<bound, counted>>

\* The event was stored by another delivery meanwhile (an error and a
\* rollback), or two inserts wait for each other's gap and one is the victim.
ReportRolledBack(r) ==
    /\ \/ InStage(r, "LOCKED") \/ InStage(r, "GAP")
    /\ \/ report[r].event \in stored
       \/ /\ InStage(r, "GAP") /\ Tells(r).success
          /\ \E q \in Reporters \ {r} : InStage(q, "GAP") /\ Tells(q).success
    /\ Ends(r)
    /\ UNCHANGED <<bound, stored, counted, desk>>

-----------------------------------------------------------------------------
(* Operators *)

Changed(loaded, value, committed) == IF value = loaded THEN committed ELSE value

OperatorReads ==
    /\ ~desk.open
    /\ desk' = [open |-> TRUE, seen |-> bound]
    /\ UNCHANGED <<bound, stored, counted, report>>

OperatorEnds ==
    /\ desk.open
    /\ desk' = [open |-> FALSE, seen |-> Unbound]
    /\ UNCHANGED <<stored, counted, report>>

\* create_subject_binding of a subject that was not bound; somebody else may
\* have bound it since, which is an error.
OperatorBinds(account, policy) ==
    /\ desk.seen = Unbound /\ \A r \in Reporters : ~InStage(r, "GAP")
    /\ bound' = IF bound = Unbound
                THEN [account |-> account, policy |-> policy, failures |-> 0] ELSE bound
    /\ OperatorEnds

\* ... of a bound one, which is not moved when it was read as STRICT (40080);
\* update_subject_binding moves any.
OperatorMoves(account, policy, update) ==
    /\ desk.seen # Unbound /\ RowFree
    /\ bound' = IF ~update /\ desk.seen.policy = "STRICT" /\ account # desk.seen.account
                THEN bound
                ELSE [bound EXCEPT !.account = Changed(desk.seen.account, account, @),
                                   !.policy = Changed(desk.seen.policy, policy, @)]
    /\ OperatorEnds

SubjectNext ==
    \/ \E r \in Reporters :
          \/ \E e \in Events : ReportBegins(r, e)
          \/ ReportLocks(r) \/ ReportBinds(r) \/ ReportUpdates(r) \/ ReportOfUnbound(r)
          \/ ReportRolledBack(r)
    \/ OperatorReads
    \/ \E account \in Accounts, policy \in Policies :
          OperatorBinds(account, policy)
          \/ \E update \in BOOLEAN : OperatorMoves(account, policy, update)

SubjectSpec == SubjectInit /\ [][SubjectNext]_subjectVars

-----------------------------------------------------------------------------
(* Properties *)

\* A subject that is bound stays with its account until an operator moves it
\* ("不自动换绑", docs/frontend-operation-contract-and-account-binding.md:54),
\* and its failures are those reported since the last success, each counted
\* once, however deliveries, repeats and operators overlap
\* (_apply_subject_event, create_subject_binding, update_subject_binding).
SubjectStaysBound ==
    [][/\ bound # Unbound =>
            bound' # Unbound /\ (bound'.account = bound.account \/ desk' # desk)
       /\ bound' # Unbound => bound'.failures = Cardinality(counted')]_subjectVars

=============================================================================
