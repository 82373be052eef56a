---------------------------- MODULE ResourceBinding ----------------------------
(***************************************************************************)
(* One data resource of a company (a database or a bucket whose connection *)
(* is stored encrypted) and one slot of a task that is bound to it.  Users *)
(* save, test and switch the resource, and edit the task, while a run of   *)
(* it waits; a run is started only when the binding is in order, and the   *)
(* Agent that claims it is handed the connection of that moment, or the    *)
(* run ends at once because it cannot be had.                              *)
(*                                                                         *)
(* Sources: company_resource_service.py, resource_config_validator.py,     *)
(* runtime_resource_service.py, and the calls made of them by              *)
(* task_service.py, run_service.py and agent_service.py (claim_run).       *)
(*                                                                         *)
(* A save and a test read the row and commit later; an UPDATE writes the   *)
(* columns that differ from what was read.  One save and one test at a     *)
(* time, and one run; the task stays ENABLED.                              *)
(***************************************************************************)
EXTENDS Naturals

VARIABLES
    resource,  \* the row of crawler_company_resource_config
    saving,    \* an upsert between its read and its commit
    testing,   \* a test between its read and its commit, with its verdict
    slot,      \* what the contract of the task says of the slot, and its binding
    waiting,   \* the run: not there, or the binding its snapshot holds
    claimed,   \* what the last claim did
    past       \* what happened to the resource (history)

bindingVars == <<resource, saving, testing, slot, waiting, claimed, past>>

\* A stored connection: whether the required keys are there, and whether the
\* secret in it is one a user typed or the mask the console shows for it.
Connections == [complete : BOOLEAN, secret : {"TYPED", "MASK"}]

\* Written under a key the platform no longer has; it is read as an empty one.
Unreadable == [complete |-> FALSE, secret |-> "LOST"]

\* WRONG_ENGINE: of an engine other than the contract of the task asks for;
\* ELSEWHERE: kept for another project, so that the task does not find it.
Fits     == {"FITS", "WRONG_ENGINE", "ELSEWHERE"}
Complete == {"CONFIG_VALID", "MANUAL_CONFIRMED"}
TestStatuses == Complete \cup {"NOT_TESTED", "CONFIG_INVALID"}

NoResource == [there |-> FALSE, fit |-> "FITS", connection |-> Unreadable,
               status |-> "NOT_TESTED", enabled |-> FALSE]
Idle == [busy |-> FALSE]

\* One type invariant for the resource, its two writers, the task and the run.
BindingTypeOK ==
    /\ resource \in [there : BOOLEAN, fit : Fits, connection : Connections \cup {Unreadable},
                     status : TestStatuses, enabled : BOOLEAN]
    /\ saving  \in {Idle} \cup [busy : {TRUE}, resets : BOOLEAN, alone : BOOLEAN]
    /\ testing \in {Idle} \cup [busy : {TRUE}, verdict : TestStatuses \ {"NOT_TESTED"}, alone : BOOLEAN]
    /\ slot \in [need : {"NONE", "OPTIONAL", "REQUIRED"}, bound : BOOLEAN]
    /\ waiting \in {"NO_RUN", "BOUND", "UNBOUND"}
    /\ claimed \in {"NOTHING", "CONNECTION", "EMPTY", "FAILED"}
    /\ past \subseteq {"VERIFIED", "RACED", "REKEYED", "TOUCHED"}

BindingInit ==
    /\ resource = NoResource
    /\ saving = Idle /\ testing = Idle
    /\ slot = [need |-> "OPTIONAL", bound |-> FALSE]
    /\ waiting = "NO_RUN" /\ claimed = "NOTHING"
    /\ past = {}

task_side == <<slot, waiting, claimed>>

\* What a change adds to the history and takes from it.  A change counts as
\* one while a run waits.
Recorded(adds, takes) ==
    past' = (past \ takes) \cup adds \cup (IF waiting = "NO_RUN" THEN {} ELSE {"TOUCHED"})

-----------------------------------------------------------------------------
(* The resource *)

\* A secret the user left masked keeps the stored one, when it can be read.
Merged(complete, typed) ==
    [complete |-> complete,
     secret   |-> IF typed THEN "TYPED"
                  ELSE IF resource.connection = Unreadable THEN "MASK"
                  ELSE resource.connection.secret]

\* validate_resource_config looks for the keys the engine requires.
Verdict == IF resource.connection.complete THEN "CONFIG_VALID" ELSE "CONFIG_INVALID"

Overlapped(other) == IF other.busy THEN [other EXCEPT !.alone = FALSE] ELSE other

SaveReads ==
    /\ ~saving.busy
    /\ saving' = [busy |-> TRUE, resets |-> resource.status # "NOT_TESTED", alone |-> ~testing.busy]
    /\ testing' = Overlapped(testing)
    /\ UNCHANGED <<resource, task_side, past>>

\* Mutant: a saved connection keeps the verdict on the one it replaces.
SavedStillTested(typed, complete, fit, enabled) ==
    [there |-> TRUE, fit |-> fit, connection |-> Merged(complete, typed),
     status |-> resource.status, enabled |-> enabled]

\* The row an upsert leaves.  The status it writes, NOT_TESTED, is a change
\* only if it read another.
Saved(typed, complete, fit, enabled) ==
    [there |-> TRUE, fit |-> fit, connection |-> Merged(complete, typed),
     status |-> IF saving.resets THEN "NOT_TESTED" ELSE resource.status, enabled |-> enabled]

\* A new resource has no stored secret a mask could stand for.  The switch is
\* written only if the form differs from what was read, so that an
\* update_status between the read and the commit may stand: either value.
SaveCommits(typed, complete, fit, enabled) ==
    /\ saving.busy
    /\ resource.there \/ typed
    /\ resource' = Saved(typed, complete, fit, enabled)
    /\ saving' = Idle
    /\ Recorded(IF saving.alone THEN {} ELSE {"RACED"},
                {"VERIFIED"} \cup (IF saving.alone THEN {"RACED"} ELSE {})
                             \cup (IF typed THEN {"REKEYED"} ELSE {}))
    /\ UNCHANGED <<testing, task_side>>

\* test_resource decides on the row it read; forced is a user's confirmation.
TestReads(forced) ==
    /\ ~testing.busy /\ resource.there
    /\ testing' = [busy |-> TRUE, verdict |-> IF forced THEN "MANUAL_CONFIRMED" ELSE Verdict,
                   alone |-> ~saving.busy]
    /\ saving' = Overlapped(saving)
    /\ UNCHANGED <<resource, task_side, past>>

TestCommits ==
    /\ testing.busy
    /\ resource' = [resource EXCEPT !.status = testing.verdict]
    /\ testing' = Idle
    /\ Recorded((IF testing.alone THEN {} ELSE {"RACED"})
                \cup (IF testing.verdict \in Complete THEN {"VERIFIED"} ELSE {}),
                {"VERIFIED"} \cup (IF testing.alone THEN {"RACED"} ELSE {}))
    /\ UNCHANGED <<saving, task_side>>

\* update_status
SwitchResource ==
    /\ resource.there
    /\ resource' = [resource EXCEPT !.enabled = ~@]
    /\ Recorded({}, {})
    /\ UNCHANGED <<saving, testing, task_side>>

\* The platform is restarted with another SECRET_ENCRYPTION_KEY.
KeyReplaced ==
    /\ resource.there /\ resource.connection # Unreadable
    /\ resource' = [resource EXCEPT !.connection = Unreadable]
    /\ saving' = Idle /\ testing' = Idle
    /\ Recorded({"REKEYED"}, {})
    /\ UNCHANGED task_side

-----------------------------------------------------------------------------
(* The task and its run *)

Found == resource.there /\ resource.fit # "ELSEWHERE"

\* _validate_resource; a slot the contract does not name expects no engine.
Usable(need) ==
    /\ resource.enabled
    /\ resource.status \in Complete
    /\ need # "NONE" => resource.fit # "WRONG_ENGINE"

\* validate_bindings goes over the slots of the contract: a binding the
\* contract no longer names is not looked at.
InOrder(need, bound) ==
    /\ need = "REQUIRED" => bound
    /\ need # "NONE" /\ bound => Found /\ Usable(need)

\* update_task and reconcile_definition, of a task that stays enabled.
EditTask(need, bound) ==
    /\ [need |-> need, bound |-> bound] # slot
    /\ InOrder(need, bound)
    /\ slot' = [need |-> need, bound |-> bound]
    /\ Recorded({}, {})
    /\ UNCHANGED <<resource, saving, testing, waiting, claimed>>

\* create_run copies the bindings of the task, not what they point to.
BindRun ==
    /\ waiting = "NO_RUN"
    /\ InOrder(slot.need, slot.bound)
    /\ waiting' = IF slot.bound THEN "BOUND" ELSE "UNBOUND"
    /\ claimed' = "NOTHING"
    /\ UNCHANGED <<resource, saving, testing, slot, past>>

\* An empty snapshot falls back on what the task is bound to by now.
Binding == waiting = "BOUND" \/ slot.bound

\* resolve_for_task goes over the bindings and the required slots.
Resolved ==
    IF ~Binding THEN IF slot.need = "REQUIRED" THEN "FAILED" ELSE "NOTHING"
    ELSE IF ~Found THEN IF slot.need = "REQUIRED" THEN "FAILED" ELSE "NOTHING"
    ELSE IF ~Usable(slot.need) THEN "FAILED"
    ELSE IF resource.connection # Unreadable THEN "CONNECTION"
    ELSE IF slot.need = "REQUIRED" THEN "FAILED" ELSE "EMPTY"

\* claim_run: a binding that cannot be resolved ends the run as FAILED with
\* CONFIGURATION_ERROR; otherwise the connection goes to the Agent.
ClaimRun ==
    /\ waiting # "NO_RUN"
    /\ claimed' = Resolved
    /\ waiting' = "NO_RUN"
    /\ past' = past \ {"TOUCHED"}
    /\ UNCHANGED <<resource, saving, testing, slot>>

-----------------------------------------------------------------------------
BindingNext ==
    \/ SaveReads
    \/ \E typed, complete, enabled \in BOOLEAN, fit \in Fits :
          SaveCommits(typed, complete, fit, enabled)
    \/ \E forced \in BOOLEAN : TestReads(forced)
    \/ TestCommits
    \/ SwitchResource
    \/ KeyReplaced
    \/ \E need \in {"NONE", "OPTIONAL", "REQUIRED"}, bound \in BOOLEAN : EditTask(need, bound)
    \/ BindRun
    \/ ClaimRun

BindingSpec == BindingInit /\ [][BindingNext]_bindingVars

-----------------------------------------------------------------------------
\* A connection reaches an Agent only if it is the one that was found valid
\* or confirmed, and a masked secret or an empty connection only after the key
\* was replaced; a save that overlapped a test is the one exception.  And a
\* run that was found ready is not failed at the claim unless somebody
\* changed something meanwhile: the exceptions are a binding that an earlier
\* contract left behind, which only the claim looks at, and a required
\* connection that cannot be read, which only the claim tries to read
\* (company_resource_service.py:104-121, runtime_resource_service.py:58-135,
\* agent_service.py:151).
ClaimIsJustified ==
    [][ waiting # "NO_RUN" /\ waiting' = "NO_RUN" =>
          /\ claimed' \in {"CONNECTION", "EMPTY"} => past \cap {"VERIFIED", "RACED"} # {}
          /\ claimed' = "CONNECTION" => resource.connection.secret = "TYPED" \/ "REKEYED" \in past
          /\ claimed' = "EMPTY" => "REKEYED" \in past
          /\ claimed' = "FAILED" =>
                \/ "TOUCHED" \in past
                \/ slot.need = "NONE" /\ slot.bound
                \/ slot.need = "REQUIRED" /\ resource.connection = Unreadable
      ]_bindingVars
=============================================================================
