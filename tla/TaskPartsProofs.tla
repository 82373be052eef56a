--------------------------- MODULE TaskPartsProofs ---------------------------
(***************************************************************************)
(* Four small components that a task touches: the data resource it is      *)
(* bound to (ResourceBinding), the account a subject of its runs belongs   *)
(* to (SubjectBinding), the shards of a run (ShardedRuns) and the plan     *)
(* that fires it (CronPlan).  For each the inductive invariant, the type   *)
(* invariant, and the property of it; in the end, that they and the tasks  *)
(* keep their types in the run they share (MCTaskOrchestration).           *)
(***************************************************************************)
EXTENDS MCTaskOrchestration, TaskOrchestrationProofs, WellFoundedInduction

LOCAL INSTANCE RunStates

-----------------------------------------------------------------------------
(* The resource and the claim *)

\* A complete status is explained by the history; so is what a claim could
\* find in the row.  A save that is alone knows the status the row has, and a
\* run that nothing has touched is still in order.
ResourceExplained ==
    /\ resource.status \in Complete => past \cap {"VERIFIED", "RACED"} # {}
    /\ resource.there /\ resource.connection = Unreadable => "REKEYED" \in past
    /\ resource.connection.secret = "MASK" => "REKEYED" \in past
    /\ ~resource.there => resource.connection = Unreadable

SaveAlone ==
    saving.busy =>
      /\ saving.alone => ~testing.busy /\ (saving.resets \/ resource.status = "NOT_TESTED")
      /\ testing.busy => ~testing.alone

RunStillInOrder ==
    waiting # "NO_RUN" /\ "TOUCHED" \notin past =>
      /\ InOrder(slot.need, slot.bound)
      /\ waiting = "BOUND" => slot.bound

BindingInv == BindingTypeOK /\ ResourceExplained /\ SaveAlone /\ RunStillInOrder

LEMMA ResourceInitially == BindingInit => BindingInv
<1>. SUFFICES ASSUME BindingInit PROVE BindingInv
  OBVIOUS
<1>1. BindingTypeOK
  BY DEF BindingInit, BindingTypeOK, NoResource, Unreadable, Fits, TestStatuses, Complete, Idle
<1>2. ResourceExplained /\ SaveAlone /\ RunStillInOrder
  BY DEF BindingInit, ResourceExplained, SaveAlone, RunStillInOrder, NoResource, Unreadable,
         Complete, Idle
<1>. QED
  BY <1>1, <1>2 DEF BindingInv

Resources == [there : BOOLEAN, fit : Fits, connection : Connections \cup {Unreadable},
              status : TestStatuses, enabled : BOOLEAN]

\* What a change of the row does to the history, and to a run that waits.
LEMMA Recording ==
  ASSUME BindingTypeOK, NEW adds \in SUBSET {"VERIFIED", "RACED", "REKEYED"},
         NEW takes \in SUBSET {"VERIFIED", "RACED", "REKEYED"}, Recorded(adds, takes)
  PROVE  /\ past' \subseteq {"VERIFIED", "RACED", "REKEYED", "TOUCHED"}
         /\ adds \subseteq past' /\ past \ takes \subseteq past'
         /\ waiting # "NO_RUN" => "TOUCHED" \in past'
BY DEF BindingTypeOK, Recorded

LEMMA WritersAreBusy ==
  ASSUME BindingTypeOK
  PROVE  /\ saving.busy => saving \in [busy : {TRUE}, resets : BOOLEAN, alone : BOOLEAN]
         /\ testing.busy =>
              testing \in [busy : {TRUE}, verdict : TestStatuses \ {"NOT_TESTED"}, alone : BOOLEAN]
<1>1. ~Idle.busy
  BY DEF Idle
<1>2. saving = Idle \/ saving \in [busy : {TRUE}, resets : BOOLEAN, alone : BOOLEAN]
  BY DEF BindingTypeOK
<1>3. \/ testing = Idle
      \/ testing \in [busy : {TRUE}, verdict : TestStatuses \ {"NOT_TESTED"}, alone : BOOLEAN]
  BY DEF BindingTypeOK
<1>. QED
  BY <1>1, <1>2, <1>3

LEMMA SaveReadsKeeps ==
  ASSUME BindingInv, SaveReads
  PROVE  BindingInv'
<1>1. saving' \in [busy : {TRUE}, resets : BOOLEAN, alone : BOOLEAN]
  BY DEF BindingInv, BindingTypeOK, SaveReads, Idle
<1>2. testing' \in {Idle} \cup [busy : {TRUE}, verdict : TestStatuses \ {"NOT_TESTED"}, alone : BOOLEAN]
  BY DEF BindingInv, BindingTypeOK, SaveReads, Overlapped, Idle
<1>3. BindingTypeOK'
  BY <1>1, <1>2 DEF BindingInv, BindingTypeOK, SaveReads, task_side
<1>4. ResourceExplained' /\ RunStillInOrder'
  BY DEF BindingInv, SaveReads, task_side, ResourceExplained, RunStillInOrder, InOrder, Found, Usable
<1>5. SaveAlone'
  BY <1>1 DEF BindingInv, BindingTypeOK, SaveReads, Overlapped, Idle, SaveAlone
<1>. QED
  BY <1>3, <1>4, <1>5 DEF BindingInv

LEMMA SaveCommitsKeeps ==
  ASSUME BindingInv, NEW typed \in BOOLEAN, NEW complete \in BOOLEAN, NEW fit \in Fits,
         NEW enabled \in BOOLEAN, SaveCommits(typed, complete, fit, enabled)
  PROVE  BindingInv'
<1>. DEFINE adds == IF saving.alone THEN {} ELSE {"RACED"}
            takes == {"VERIFIED"} \cup (IF saving.alone THEN {"RACED"} ELSE {})
                                  \cup (IF typed THEN {"REKEYED"} ELSE {})
<1>1. saving \in [busy : {TRUE}, resets : BOOLEAN, alone : BOOLEAN]
  BY WritersAreBusy DEF BindingInv, SaveCommits
<1>2. adds \in SUBSET {"VERIFIED", "RACED", "REKEYED"} /\ takes \in SUBSET {"VERIFIED", "RACED", "REKEYED"}
      /\ Recorded(adds, takes)
  BY DEF SaveCommits
<1>3. /\ past' \subseteq {"VERIFIED", "RACED", "REKEYED", "TOUCHED"}
      /\ adds \subseteq past' /\ past \ takes \subseteq past'
      /\ waiting # "NO_RUN" => "TOUCHED" \in past'
  BY <1>2, Recording DEF BindingInv
<1>4. Merged(complete, typed) \in Connections /\ Merged(complete, typed) # Unreadable
  BY DEF BindingInv, BindingTypeOK, Merged, Connections, Unreadable
<1>5. resource' \in Resources
  <2>. DEFINE status == IF saving.resets THEN "NOT_TESTED" ELSE resource.status
  <2>1. status \in TestStatuses
    BY DEF BindingInv, BindingTypeOK, TestStatuses
  <2>2. resource' = [there |-> TRUE, fit |-> fit, connection |-> Merged(complete, typed),
                     status |-> status, enabled |-> enabled]
    BY DEF SaveCommits, Saved
  <2>. HIDE DEF status
  <2>. QED
    BY <2>1, <2>2, <1>4 DEF Resources
<1>6. BindingTypeOK'
  BY <1>3, <1>5 DEF BindingInv, BindingTypeOK, SaveCommits, task_side, Resources
<1>7. resource'.status \in Complete => "RACED" \in past'
  BY <1>1, <1>3 DEF BindingInv, SaveAlone, SaveCommits, Saved, Complete
<1>8. resource'.there /\ resource'.connection # Unreadable
  BY <1>4 DEF SaveCommits, Saved
<1>9. resource'.connection.secret = "MASK" => "REKEYED" \in past'
  BY <1>3 DEF BindingInv, ResourceExplained, SaveCommits, Saved, Merged
<1>10. ResourceExplained'
  BY <1>7, <1>8, <1>9 DEF ResourceExplained
<1>11. SaveAlone' /\ RunStillInOrder'
  BY <1>3 DEF SaveAlone, SaveCommits, Idle, task_side, RunStillInOrder
<1>. QED
  BY <1>6, <1>10, <1>11 DEF BindingInv

LEMMA TestReadsKeeps ==
  ASSUME BindingInv, NEW forced \in BOOLEAN, TestReads(forced)
  PROVE  BindingInv'
<1>. DEFINE verdict == IF forced THEN "MANUAL_CONFIRMED" ELSE Verdict
<1>1. verdict \in TestStatuses \ {"NOT_TESTED"}
  BY DEF Verdict, TestStatuses, Complete
<1>2. testing' \in [busy : {TRUE}, verdict : TestStatuses \ {"NOT_TESTED"}, alone : BOOLEAN]
  <2>. HIDE DEF verdict
  <2>1. testing' = [busy |-> TRUE, verdict |-> verdict, alone |-> ~saving.busy]
    BY DEF TestReads, verdict
  <2>2. (~saving.busy) \in BOOLEAN
    BY DEF BindingInv, BindingTypeOK, Idle
  <2>. QED
    BY <1>1, <2>1, <2>2
<1>3. saving' \in {Idle} \cup [busy : {TRUE}, resets : BOOLEAN, alone : BOOLEAN]
  BY DEF BindingInv, BindingTypeOK, TestReads, Overlapped, Idle
<1>4. BindingTypeOK'
  BY <1>2, <1>3 DEF BindingInv, BindingTypeOK, TestReads, task_side
<1>5. ResourceExplained' /\ RunStillInOrder'
  BY DEF BindingInv, TestReads, task_side, ResourceExplained, RunStillInOrder, InOrder, Found, Usable
<1>6. saving'.busy => saving.busy /\ ~saving'.alone /\ ~testing'.alone
  <2>1. CASE saving.busy
    BY <2>1 DEF BindingInv, BindingTypeOK, TestReads, Overlapped, Idle
  <2>2. CASE ~saving.busy
    BY <2>2 DEF TestReads, Overlapped
  <2>. QED
    BY <2>1, <2>2
<1>. QED
  BY <1>4, <1>5, <1>6 DEF BindingInv, SaveAlone

LEMMA TestCommitsKeeps ==
  ASSUME BindingInv, TestCommits
  PROVE  BindingInv'
<1>. DEFINE adds == (IF testing.alone THEN {} ELSE {"RACED"})
                    \cup (IF testing.verdict \in Complete THEN {"VERIFIED"} ELSE {})
            takes == {"VERIFIED"} \cup (IF testing.alone THEN {"RACED"} ELSE {})
<1>1. testing.busy /\ testing \in [busy : {TRUE}, verdict : TestStatuses \ {"NOT_TESTED"}, alone : BOOLEAN]
  BY WritersAreBusy DEF BindingInv, TestCommits
<1>2. adds \in SUBSET {"VERIFIED", "RACED", "REKEYED"} /\ takes \in SUBSET {"VERIFIED", "RACED", "REKEYED"}
      /\ Recorded(adds, takes)
  BY DEF TestCommits
<1>3. /\ past' \subseteq {"VERIFIED", "RACED", "REKEYED", "TOUCHED"}
      /\ adds \subseteq past' /\ past \ takes \subseteq past'
      /\ waiting # "NO_RUN" => "TOUCHED" \in past'
  BY <1>2, Recording DEF BindingInv
<1>4. resource' \in Resources /\ resource'.status = testing.verdict /\ resource'.there = resource.there
      /\ resource'.connection = resource.connection
  BY <1>1 DEF BindingInv, BindingTypeOK, TestCommits, Resources
<1>5. BindingTypeOK'
  BY <1>3, <1>4 DEF BindingInv, BindingTypeOK, TestCommits, task_side, Resources
<1>6. ResourceExplained'
  BY <1>3, <1>4 DEF BindingInv, ResourceExplained
<1>7. SaveAlone' /\ RunStillInOrder'
  BY <1>1, <1>3 DEF BindingInv, SaveAlone, TestCommits, Idle, task_side, RunStillInOrder
<1>. QED
  BY <1>5, <1>6, <1>7 DEF BindingInv

LEMMA SwitchKeeps ==
  ASSUME BindingInv, SwitchResource
  PROVE  BindingInv'
<1>1. /\ past' \subseteq {"VERIFIED", "RACED", "REKEYED", "TOUCHED"}
      /\ past \subseteq past'
      /\ waiting # "NO_RUN" => "TOUCHED" \in past'
  BY Recording DEF BindingInv, SwitchResource
<1>2. resource' \in Resources /\ resource'.status = resource.status /\ resource'.there = resource.there
      /\ resource'.connection = resource.connection
  BY DEF BindingInv, BindingTypeOK, SwitchResource, Resources
<1>3. BindingTypeOK'
  BY <1>1, <1>2 DEF BindingInv, BindingTypeOK, SwitchResource, task_side, Resources
<1>4. ResourceExplained'
  BY <1>1, <1>2 DEF BindingInv, ResourceExplained
<1>5. SaveAlone' /\ RunStillInOrder'
  BY <1>1, <1>2 DEF BindingInv, SaveAlone, SwitchResource, task_side, RunStillInOrder
<1>. QED
  BY <1>3, <1>4, <1>5 DEF BindingInv

LEMMA KeyReplacedKeeps ==
  ASSUME BindingInv, KeyReplaced
  PROVE  BindingInv'
<1>1. /\ past' \subseteq {"VERIFIED", "RACED", "REKEYED", "TOUCHED"}
      /\ past \cup {"REKEYED"} \subseteq past'
      /\ waiting # "NO_RUN" => "TOUCHED" \in past'
  BY Recording DEF BindingInv, KeyReplaced
<1>2. resource' \in Resources /\ resource'.status = resource.status /\ resource'.there = resource.there
      /\ resource'.connection = Unreadable
  BY DEF BindingInv, BindingTypeOK, KeyReplaced, Resources
<1>3. BindingTypeOK'
  BY <1>1, <1>2 DEF BindingInv, BindingTypeOK, KeyReplaced, task_side, Resources
<1>4. ResourceExplained'
  BY <1>1, <1>2 DEF BindingInv, ResourceExplained
<1>5. SaveAlone' /\ RunStillInOrder'
  BY <1>1, <1>2 DEF BindingInv, SaveAlone, KeyReplaced, Idle, task_side, RunStillInOrder
<1>. QED
  BY <1>3, <1>4, <1>5 DEF BindingInv

LEMMA TaskSideKeeps ==
  ASSUME BindingInv,
         \/ \E need \in {"NONE", "OPTIONAL", "REQUIRED"}, isBound \in BOOLEAN : EditTask(need, isBound)
         \/ BindRun \/ ClaimRun
  PROVE  BindingInv'
<1>1. ASSUME NEW need \in {"NONE", "OPTIONAL", "REQUIRED"}, NEW isBound \in BOOLEAN, EditTask(need, isBound)
      PROVE  BindingInv'
  <2>1. /\ past' \subseteq {"VERIFIED", "RACED", "REKEYED", "TOUCHED"}
        /\ past \subseteq past'
        /\ waiting # "NO_RUN" => "TOUCHED" \in past'
    BY <1>1, Recording DEF BindingInv, EditTask
  <2>2. BindingTypeOK'
    BY ZenonT(40), <1>1, <2>1 DEF BindingInv, BindingTypeOK, EditTask
  <2>3. ResourceExplained' /\ SaveAlone'
    BY <1>1, <2>1 DEF BindingInv, ResourceExplained, SaveAlone, EditTask
  <2>4. RunStillInOrder'
    BY <1>1, <2>1 DEF RunStillInOrder, EditTask
  <2>. QED
    BY <2>2, <2>3, <2>4 DEF BindingInv
<1>2. CASE BindRun
  <2>1. BindingTypeOK'
    BY <1>2 DEF BindingInv, BindingTypeOK, BindRun
  <2>2. ResourceExplained' /\ SaveAlone'
    BY <1>2 DEF BindingInv, ResourceExplained, SaveAlone, BindRun
  <2>3. RunStillInOrder'
    BY <1>2 DEF BindRun, RunStillInOrder, InOrder, Found, Usable
  <2>. QED
    BY <2>1, <2>2, <2>3 DEF BindingInv
<1>3. CASE ClaimRun
  <2>1. claimed' \in {"NOTHING", "CONNECTION", "EMPTY", "FAILED"}
    BY <1>3 DEF ClaimRun, Resolved
  <2>. QED
    BY ZenonT(40), <1>3, <2>1 DEF BindingInv, BindingTypeOK, ResourceExplained, SaveAlone, RunStillInOrder, ClaimRun
<1>. QED
  BY <1>1, <1>2, <1>3

LEMMA BindingStep == BindingInv /\ [BindingNext]_bindingVars => BindingInv'
<1>1. ASSUME BindingInv, UNCHANGED bindingVars
      PROVE  BindingInv'
  <2>1. BindingTypeOK'
    BY ZenonT(40), <1>1 DEF bindingVars, BindingInv, BindingTypeOK
  <2>2. ResourceExplained' /\ SaveAlone'
    BY <1>1 DEF bindingVars, BindingInv, ResourceExplained, SaveAlone
  <2>3. RunStillInOrder'
    BY <1>1 DEF bindingVars, BindingInv, RunStillInOrder, InOrder, Found, Usable
  <2>. QED
    BY <2>1, <2>2, <2>3 DEF BindingInv
<1>. QED
  BY <1>1, SaveReadsKeeps, SaveCommitsKeeps, TestReadsKeeps, TestCommitsKeeps, SwitchKeeps,
     KeyReplacedKeeps, TaskSideKeeps DEF BindingNext

\* The resource, its writers, the task and the run keep their types, whatever
\* requests overlap (company_resource_service.py, runtime_resource_service.py).
THEOREM BindingTypeCorrect == BindingSpec => []BindingTypeOK
<1>1. BindingInv => BindingTypeOK
  BY DEF BindingInv
<1>. QED
  BY <1>1, ResourceInitially, BindingStep, PTL DEF BindingSpec

LEMMA ClaimsAreJustified ==
  ASSUME BindingInv, ClaimRun
  PROVE  /\ claimed' \in {"CONNECTION", "EMPTY"} => past \cap {"VERIFIED", "RACED"} # {}
         /\ claimed' = "CONNECTION" => resource.connection.secret = "TYPED" \/ "REKEYED" \in past
         /\ claimed' = "EMPTY" => "REKEYED" \in past
         /\ claimed' = "FAILED" =>
               \/ "TOUCHED" \in past
               \/ slot.need = "NONE" /\ slot.bound
               \/ slot.need = "REQUIRED" /\ resource.connection = Unreadable
<1>1. claimed' = Resolved /\ waiting # "NO_RUN"
  BY DEF ClaimRun
<1>2. Resolved \in {"CONNECTION", "EMPTY"} => Found /\ Usable(slot.need)
  BY DEF Resolved
<1>3. Resolved \in {"CONNECTION", "EMPTY"} => past \cap {"VERIFIED", "RACED"} # {}
  BY <1>2 DEF Usable, BindingInv, ResourceExplained
<1>4. Resolved = "CONNECTION" => resource.connection # Unreadable
  BY DEF Resolved
<1>5. resource.connection # Unreadable => resource.connection.secret \in {"TYPED", "MASK"}
  BY DEF BindingInv, BindingTypeOK, Connections
<1>6. Resolved = "EMPTY" => Found /\ resource.connection = Unreadable
  BY DEF Resolved
<1>7. ASSUME Resolved = "FAILED", "TOUCHED" \notin past
      PROVE  \/ slot.need = "NONE" /\ slot.bound
             \/ slot.need = "REQUIRED" /\ resource.connection = Unreadable
  <2>1. InOrder(slot.need, slot.bound) /\ (waiting = "BOUND" => slot.bound)
    BY <1>1, <1>7 DEF BindingInv, RunStillInOrder
  <2>2. slot.need \in {"NONE", "OPTIONAL", "REQUIRED"}
    BY DEF BindingInv, BindingTypeOK
  <2>3. CASE slot.bound /\ slot.need # "NONE"
    BY <1>7, <2>1, <2>2, <2>3 DEF Resolved, InOrder, Binding
  <2>4. CASE ~slot.bound
    BY <1>7, <2>1, <2>2, <2>4 DEF Resolved, InOrder, Binding
  <2>. QED
    BY <2>2, <2>3, <2>4
<1>. QED
  BY <1>1, <1>3, <1>4, <1>5, <1>6, <1>7 DEF BindingInv, ResourceExplained, Found

\* A connection that reaches an Agent was found valid or confirmed, a masked
\* or an empty one only after the key was replaced, and a run that was ready
\* fails at its claim only for what the property names (claim_run,
\* resolve_for_task).
THEOREM ClaimsJustified == BindingSpec => ClaimIsJustified
<1>1. ASSUME BindingInv, [BindingNext]_bindingVars, waiting # "NO_RUN", waiting' = "NO_RUN"
      PROVE  ClaimRun
  BY <1>1 DEF BindingNext, bindingVars, SaveReads, SaveCommits, TestReads, TestCommits, SwitchResource,
              KeyReplaced, EditTask, BindRun, task_side
<1>2. BindingInv /\ [BindingNext]_bindingVars =>
        [waiting # "NO_RUN" /\ waiting' = "NO_RUN" =>
          /\ claimed' \in {"CONNECTION", "EMPTY"} => past \cap {"VERIFIED", "RACED"} # {}
          /\ claimed' = "CONNECTION" => resource.connection.secret = "TYPED" \/ "REKEYED" \in past
          /\ claimed' = "EMPTY" => "REKEYED" \in past
          /\ claimed' = "FAILED" =>
                \/ "TOUCHED" \in past
                \/ slot.need = "NONE" /\ slot.bound
                \/ slot.need = "REQUIRED" /\ resource.connection = Unreadable]_bindingVars
  BY <1>1, ClaimsAreJustified
<1>. QED
  BY <1>2, ResourceInitially, BindingStep, PTL DEF BindingSpec, ClaimIsJustified

-----------------------------------------------------------------------------
(* The account of a subject *)

Begun(r) == report[r].event \in Events

\* The locks that are held: one transaction at most has the row, and what it
\* has seen is the row; the gap is held only while there is no row.
ReportLocked ==
    \A r \in Reporters :
      /\ ~InStage(r, "IDLE") => Begun(r)
      /\ InStage(r, "LOCKED") => bound # Unbound /\ report[r].seen = bound
      /\ InStage(r, "GAP") => bound = Unbound
      /\ \A q \in Reporters : InStage(r, "LOCKED") /\ InStage(q, "LOCKED") => q = r

FailuresCounted ==
    /\ IsFiniteSet(counted)
    /\ bound = Unbound => counted = {}
    /\ bound # Unbound => bound.failures = Cardinality(counted)

SubjectInv ==
    /\ SubjectTypeOK /\ ReportLocked /\ FailuresCounted
    /\ desk.seen # Unbound => bound # Unbound

LEMMA SubjectInitially == SubjectInit => SubjectInv
<1>. SUFFICES ASSUME SubjectInit PROVE SubjectInv
  OBVIOUS
<1>1. SubjectTypeOK
  BY DEF SubjectInit, SubjectTypeOK, NoReport
<1>2. ReportLocked
  BY DEF SubjectInit, ReportLocked, InStage, NoReport
<1>3. FailuresCounted
  BY FS_EmptySet DEF SubjectInit, FailuresCounted
<1>. QED
  BY <1>1, <1>2, <1>3 DEF SubjectInv, SubjectInit

Reports == [at : {"IDLE", "BEGUN", "LOCKED", "GAP"}, event : Events \cup {0},
            seen : Row \cup {Unbound}]

\* A report that ends lets its lock go.
LEMMA EndsKeeps ==
  ASSUME SubjectTypeOK, ReportLocked, NEW r \in Reporters, Ends(r)
  PROVE  /\ report' \in [Reporters -> Reports]
         /\ report'[r].at = "IDLE"
         /\ \A q \in Reporters \ {r} : report'[q] = report[q]
BY DEF SubjectTypeOK, Ends, Reports, NoReport

LEMMA ReportBeginsKeeps ==
  ASSUME SubjectInv, NEW r \in Reporters, NEW e \in Events, ReportBegins(r, e)
  PROVE  SubjectInv'
<1>1. report' \in [Reporters -> Reports]
  BY DEF SubjectInv, SubjectTypeOK, ReportBegins, Reports
<1>2. /\ report'[r].at = "BEGUN" /\ report'[r].event = e
      /\ \A q \in Reporters \ {r} : report'[q] = report[q]
  BY DEF SubjectInv, SubjectTypeOK, ReportBegins
<1>3. SubjectTypeOK'
  BY <1>1 DEF SubjectInv, SubjectTypeOK, ReportBegins, Reports
<1>4. ReportLocked'
  BY <1>2 DEF SubjectInv, ReportLocked, ReportBegins, InStage, Begun
<1>5. FailuresCounted'
  BY DEF SubjectInv, FailuresCounted, ReportBegins
<1>. QED
  BY <1>3, <1>4, <1>5 DEF SubjectInv, ReportBegins

LEMMA ReportLocksKeeps ==
  ASSUME SubjectInv, NEW r \in Reporters, ReportLocks(r)
  PROVE  SubjectInv'
<1>. DEFINE stage == IF bound = Unbound THEN "GAP" ELSE "LOCKED"
<1>1. stage \in {"IDLE", "BEGUN", "LOCKED", "GAP"}
  OBVIOUS
<1>2. /\ report' = [report EXCEPT ![r].at = stage, ![r].seen = bound]
      /\ report[r].at = "BEGUN" /\ RowFree
      /\ UNCHANGED <<bound, stored, counted, desk>>
  BY DEF ReportLocks, Locks, InStage
<1>3. stage = "GAP" <=> bound = Unbound
  OBVIOUS
<1>4. stage = "LOCKED" <=> bound # Unbound
  OBVIOUS
<1>. HIDE DEF stage
<1>5. report' \in [Reporters -> Reports]
  BY ZenonT(40), <1>1, <1>2 DEF SubjectInv, SubjectTypeOK, Reports
<1>6. /\ report'[r].at = stage /\ report'[r].event = report[r].event /\ report'[r].seen = bound
      /\ \A q \in Reporters \ {r} : report'[q] = report[q]
  BY <1>2 DEF SubjectInv, SubjectTypeOK
<1>7. SubjectTypeOK'
  BY <1>2, <1>5 DEF SubjectInv, SubjectTypeOK, Reports
<1>8. ReportLocked'
  <2>1. \A q \in Reporters : report[q].at # "LOCKED"
    BY <1>2 DEF RowFree, InStage
  <2>2. \A q \in Reporters \ {r} :
          /\ report'[q].at # "LOCKED"
          /\ report'[q].at = "GAP" => bound' = Unbound
          /\ report'[q].at # "IDLE" => report'[q].event \in Events
    BY <1>2, <1>6, <2>1 DEF SubjectInv, ReportLocked, InStage, Begun
  <2>3. /\ report'[r].event \in Events /\ report'[r].seen = bound'
        /\ report'[r].at = "GAP" => bound' = Unbound
        /\ report'[r].at = "LOCKED" => bound' # Unbound
    BY <1>2, <1>3, <1>4, <1>6 DEF SubjectInv, ReportLocked, InStage, Begun
  <2>. QED
    BY <2>2, <2>3 DEF ReportLocked, InStage, Begun, Events
<1>9. FailuresCounted'
  BY <1>2 DEF SubjectInv, FailuresCounted
<1>. QED
  BY <1>2, <1>7, <1>8, <1>9 DEF SubjectInv

\* What a report tells is an account and a verdict.
LEMMA ToldIsTyped ==
  ASSUME ReportLocked, NEW r \in Reporters, ~InStage(r, "IDLE")
  PROVE  /\ Tells(r) \in [account : Accounts, success : BOOLEAN]
         /\ report[r].event \in Events
BY SubjectAssumption DEF ReportLocked, Begun, Tells, Events

LEMMA ReportBindsKeeps ==
  ASSUME SubjectInv, NEW r \in Reporters, ReportBinds(r)
  PROVE  SubjectInv' /\ bound = Unbound
<1>1. /\ report' \in [Reporters -> Reports] /\ report'[r].at = "IDLE"
      /\ \A q \in Reporters \ {r} : report'[q] = report[q]
  BY EndsKeeps DEF SubjectInv, ReportBinds, Stores
<1>2. bound = Unbound
  BY DEF SubjectInv, ReportLocked, ReportBinds
<1>3. report[r].event \in Events /\ Tells(r).account \in Accounts
  BY ToldIsTyped DEF SubjectInv, ReportBinds, InStage
<1>4. bound' = [account |-> Tells(r).account, policy |-> "MANUAL_ONLY", failures |-> 0]
  BY DEF ReportBinds
<1>5. bound' \in Row /\ bound'.failures = 0
  BY <1>3, <1>4 DEF Row, Policies
<1>6. bound' # Unbound
  BY <1>5, SubjectAssumption
<1>7. SubjectTypeOK'
  BY <1>1, <1>3, <1>5 DEF SubjectInv, SubjectTypeOK, ReportBinds, Stores, Reports
<1>8. \A q \in Reporters : ~(report'[q].at = "LOCKED") /\ ~(report'[q].at = "GAP")
  BY <1>1, <1>2 DEF SubjectInv, ReportLocked, ReportBinds, GapFree, InStage
<1>9. ReportLocked'
  BY <1>1, <1>8 DEF SubjectInv, ReportLocked, InStage, Begun
<1>10. FailuresCounted'
  BY <1>5, <1>6, FS_EmptySet DEF FailuresCounted, ReportBinds
<1>. QED
  BY <1>2, <1>6, <1>7, <1>9, <1>10 DEF SubjectInv

LEMMA ReportUpdatesKeeps ==
  ASSUME SubjectInv, NEW r \in Reporters, ReportUpdates(r)
  PROVE  SubjectInv' /\ bound' # Unbound /\ bound'.account = bound.account
<1>1. /\ report' \in [Reporters -> Reports] /\ report'[r].at = "IDLE"
      /\ \A q \in Reporters \ {r} : report'[q] = report[q]
  BY EndsKeeps DEF SubjectInv, ReportUpdates, Stores
<1>2. bound # Unbound /\ report[r].seen = bound /\ bound \in Row
  BY DEF SubjectInv, SubjectTypeOK, ReportLocked, ReportUpdates
<1>3. /\ report[r].event \in Events \ stored
      /\ Tells(r) \in [account : Accounts, success : BOOLEAN]
      /\ stored' = stored \cup {report[r].event} /\ desk' = desk
  BY ToldIsTyped DEF SubjectInv, ReportUpdates, Stores, InStage
<1>4. IsFiniteSet(counted) /\ bound.failures = Cardinality(counted) /\ Cardinality(counted) \in Nat
  BY <1>2, FS_CardinalityType DEF SubjectInv, FailuresCounted
<1>5. report[r].event \notin counted
  BY <1>3 DEF SubjectInv, SubjectTypeOK
<1>6. /\ IsFiniteSet(counted \cup {report[r].event})
      /\ Cardinality(counted \cup {report[r].event}) = Cardinality(counted) + 1
  BY <1>4, <1>5, FS_AddElement
<1>7. /\ counted' \in {counted, {}, counted \cup {report[r].event}}
      /\ IsFiniteSet(counted') /\ Updated(r) = Cardinality(counted') /\ Updated(r) \in Nat
  <2>1. CASE ~Tells(r).success
    BY <1>2, <1>4, <1>6, <2>1 DEF ReportUpdates, Updated
  <2>2. CASE Tells(r).success /\ bound.account = Tells(r).account
    <3>1. counted' = {} /\ Updated(r) = 0
      BY <1>2, <2>2 DEF ReportUpdates, Updated
    <3>. QED
      BY <3>1, FS_EmptySet
  <2>3. CASE Tells(r).success /\ bound.account # Tells(r).account
    BY <1>2, <1>4, <2>3 DEF ReportUpdates, Updated
  <2>. QED
    BY <2>1, <2>2, <2>3
<1>8. bound' = [bound EXCEPT !.failures = Updated(r)]
  BY DEF ReportUpdates
<1>9. bound' \in Row /\ bound'.failures = Updated(r) /\ bound'.account = bound.account
  BY <1>2, <1>7, <1>8 DEF Row
<1>10. bound' # Unbound
  BY <1>9, SubjectAssumption
<1>11. SubjectTypeOK'
  BY <1>1, <1>3, <1>7, <1>9 DEF SubjectInv, SubjectTypeOK, Reports
<1>12. \A q \in Reporters : ~(report'[q].at = "LOCKED") /\ ~(report'[q].at = "GAP")
  BY <1>1, <1>2 DEF SubjectInv, ReportLocked, ReportUpdates, InStage
<1>13. ReportLocked'
  BY <1>1, <1>12 DEF SubjectInv, ReportLocked, InStage, Begun
<1>14. FailuresCounted'
  BY <1>7, <1>9, <1>10 DEF FailuresCounted
<1>. QED
  BY <1>9, <1>10, <1>11, <1>13, <1>14 DEF SubjectInv

LEMMA ReportEndsKeeps ==
  ASSUME SubjectInv, NEW r \in Reporters, ReportOfUnbound(r) \/ ReportRolledBack(r)
  PROVE  SubjectInv'
<1>1. Ends(r) /\ ~InStage(r, "IDLE") /\ UNCHANGED <<bound, counted, desk>>
      /\ stored' \in {stored, stored \cup {report[r].event}}
  BY DEF ReportOfUnbound, ReportRolledBack, Stores, InStage
<1>2. /\ report' \in [Reporters -> Reports] /\ report'[r].at = "IDLE"
      /\ \A q \in Reporters \ {r} : report'[q] = report[q]
  BY <1>1, EndsKeeps DEF SubjectInv
<1>3. report[r].event \in Events
  BY <1>1, ToldIsTyped DEF SubjectInv
<1>4. SubjectTypeOK'
  BY <1>1, <1>2, <1>3 DEF SubjectInv, SubjectTypeOK, Reports
<1>5. ReportLocked'
  BY <1>1, <1>2 DEF SubjectInv, ReportLocked, InStage, Begun
<1>6. FailuresCounted'
  BY <1>1 DEF SubjectInv, FailuresCounted
<1>. QED
  BY <1>1, <1>4, <1>5, <1>6 DEF SubjectInv

\* An operator's request that has read a row finds one; it moves the account
\* or the policy, never the failures.
LEMMA OperatorKeeps ==
  ASSUME SubjectInv, NEW account \in Accounts, NEW policy \in Policies, NEW update \in BOOLEAN,
         OperatorBinds(account, policy) \/ OperatorMoves(account, policy, update)
  PROVE  /\ SubjectInv' /\ (bound # Unbound => bound' # Unbound) /\ desk' # desk
         /\ desk.open
<1>1. /\ desk.open /\ desk' = [open |-> FALSE, seen |-> Unbound]
      /\ UNCHANGED <<stored, counted, report>>
  BY DEF OperatorBinds, OperatorMoves, OperatorEnds
<1>2. desk' # desk
  BY <1>1
<1>3. \/ bound' = bound
      \/ /\ bound' \in Row /\ (bound = Unbound => bound'.failures = 0)
         /\ (bound # Unbound => bound'.failures = bound.failures)
         /\ \A r \in Reporters : ~InStage(r, "LOCKED") /\ ~InStage(r, "GAP")
  <2>1. CASE OperatorBinds(account, policy)
    <3>1. CASE bound = Unbound
      <4>1. bound' = [account |-> account, policy |-> policy, failures |-> 0]
        BY <2>1, <3>1 DEF OperatorBinds
      <4>2. bound' \in Row /\ bound'.failures = 0
        BY <4>1 DEF Row
      <4>3. \A r \in Reporters : ~InStage(r, "LOCKED") /\ ~InStage(r, "GAP")
        BY <2>1, <3>1 DEF OperatorBinds, SubjectInv, ReportLocked
      <4>. QED
        BY <3>1, <4>2, <4>3
    <3>2. CASE bound # Unbound
      BY <2>1, <3>2 DEF OperatorBinds
    <3>. QED
      BY <3>1, <3>2
  <2>2. CASE OperatorMoves(account, policy, update)
    <3>1. bound # Unbound /\ bound \in Row
      BY <2>2 DEF OperatorMoves, SubjectInv, SubjectTypeOK
    <3>2. \A r \in Reporters : ~InStage(r, "LOCKED") /\ ~InStage(r, "GAP")
      BY <2>2, <3>1 DEF OperatorMoves, RowFree, SubjectInv, ReportLocked
    <3>. DEFINE a == Changed(desk.seen.account, account, bound.account)
                p == Changed(desk.seen.policy, policy, bound.policy)
    <3>3. a \in Accounts /\ p \in Policies
      BY <3>1 DEF Changed, Row
    <3>4. bound' = bound \/ bound' = [bound EXCEPT !.account = a, !.policy = p]
      BY <2>2 DEF OperatorMoves
    <3>. HIDE DEF a, p
    <3>5. bound' = bound \/ (bound' \in Row /\ bound'.failures = bound.failures)
      BY <3>1, <3>3, <3>4 DEF Row
    <3>. QED
      BY <3>1, <3>2, <3>5
  <2>. QED
    BY <2>1, <2>2
<1>4. bound # Unbound => bound' # Unbound
  BY <1>3, SubjectAssumption
<1>5. SubjectTypeOK'
  BY <1>1, <1>3 DEF SubjectInv, SubjectTypeOK
<1>6. ReportLocked'
  BY <1>1, <1>3 DEF SubjectInv, ReportLocked, InStage, Begun
<1>7. FailuresCounted'
  <2>1. CASE bound' = bound
    BY <1>1, <2>1 DEF SubjectInv, FailuresCounted
  <2>2. CASE bound' # bound
    <3>1. bound' \in Row /\ bound' # Unbound
      BY <1>3, <2>2, SubjectAssumption
    <3>2. bound = Unbound => counted = {} /\ bound'.failures = Cardinality({})
      BY <1>3, <2>2, FS_EmptySet DEF SubjectInv, FailuresCounted
    <3>3. bound # Unbound => bound'.failures = Cardinality(counted)
      BY <1>3, <2>2 DEF SubjectInv, FailuresCounted
    <3>. QED
      BY <1>1, <3>1, <3>2, <3>3 DEF SubjectInv, FailuresCounted
  <2>. QED
    BY <2>1, <2>2
<1>. QED
  BY <1>1, <1>2, <1>4, <1>5, <1>6, <1>7 DEF SubjectInv

LEMMA OperatorReadsKeeps ==
  ASSUME SubjectInv, OperatorReads
  PROVE  SubjectInv'
<1>1. desk' \in [open : BOOLEAN, seen : Row \cup {Unbound}] /\ desk'.seen = bound
      /\ UNCHANGED <<bound, stored, counted, report>>
  BY DEF OperatorReads, SubjectInv, SubjectTypeOK
<1>2. SubjectTypeOK'
  BY <1>1 DEF SubjectInv, SubjectTypeOK
<1>3. ReportLocked' /\ FailuresCounted'
  BY <1>1 DEF SubjectInv, ReportLocked, FailuresCounted, InStage, Begun
<1>. QED
  BY <1>1, <1>2, <1>3 DEF SubjectInv

LEMMA SubjectIdles ==
  ASSUME SubjectInv, UNCHANGED subjectVars
  PROVE  SubjectInv'
<1>1. SubjectTypeOK'
  BY DEF SubjectInv, SubjectTypeOK, subjectVars
<1>2. ReportLocked' /\ FailuresCounted'
  BY DEF SubjectInv, ReportLocked, FailuresCounted, InStage, Begun, subjectVars
<1>. QED
  BY <1>1, <1>2 DEF SubjectInv, subjectVars

LEMMA SubjectStep == SubjectInv /\ [SubjectNext]_subjectVars => SubjectInv'
BY SubjectIdles, ReportBeginsKeeps, ReportLocksKeeps, ReportBindsKeeps, ReportUpdatesKeeps,
   ReportEndsKeeps, OperatorReadsKeeps, OperatorKeeps DEF SubjectNext

\* The row, the events and the transactions keep their types, for any number
\* of reporters, accounts and events (account_status_service.py).
THEOREM SubjectTypeCorrect == SubjectSpec => []SubjectTypeOK
<1>1. SubjectInv => SubjectTypeOK
  BY DEF SubjectInv
<1>. QED
  BY <1>1, SubjectInitially, SubjectStep, PTL DEF SubjectSpec

LEMMA SubjectStays ==
  ASSUME SubjectInv, [SubjectNext]_subjectVars
  PROVE  bound # Unbound => bound' # Unbound /\ (bound'.account = bound.account \/ desk' # desk)
<1>1. CASE UNCHANGED subjectVars
  BY <1>1 DEF subjectVars
<1>2. ASSUME NEW r \in Reporters,
             \/ \E e \in Events : ReportBegins(r, e)
             \/ ReportLocks(r) \/ ReportOfUnbound(r) \/ ReportRolledBack(r)
      PROVE  bound' = bound
  BY <1>2 DEF ReportBegins, ReportLocks, ReportOfUnbound, ReportRolledBack
<1>3. CASE OperatorReads
  BY <1>3 DEF OperatorReads
<1>. QED
  BY <1>1, <1>2, <1>3, ReportBindsKeeps, ReportUpdatesKeeps, OperatorKeeps DEF SubjectNext

\* A bound subject stays with its account until an operator moves it, and its
\* failures are those since the last success, each counted once
\* (_apply_subject_event, create_subject_binding, update_subject_binding).
THEOREM SubjectsStayBound == SubjectSpec => SubjectStaysBound
<1>1. SubjectInv' => (bound' # Unbound => bound'.failures = Cardinality(counted'))
  BY DEF SubjectInv, FailuresCounted
<1>2. SubjectInv /\ [SubjectNext]_subjectVars =>
        [/\ bound # Unbound =>
              bound' # Unbound /\ (bound'.account = bound.account \/ desk' # desk)
         /\ bound' # Unbound => bound'.failures = Cardinality(counted')]_subjectVars
  BY <1>1, SubjectStays, SubjectStep
<1>. QED
  BY <1>2, SubjectInitially, SubjectStep, PTL DEF SubjectSpec, SubjectStaysBound

-----------------------------------------------------------------------------
(* The shards of a run *)

ShardRows == [status : RunStatus, stranded : BOOLEAN, lease : BOOLEAN, heard : BOOLEAN,
              attempt : 1..MaxAttempts]

AllEnded == \A i \in Rows : shard[i].status \in Terminal

\* A parent that has succeeded hides no shard that has not, and one that is
\* left behind was left by a request that does not look at it.
ShardInv ==
    /\ parent \in {"RUNNING", "CANCEL_REQUESTED"} \cup Terminal
    /\ shard \in Seq(ShardRows) /\ Len(shard) \in 1..MaxRows
    /\ ending \in {"NONE", "TOLD", "SILENT"}
    /\ parent = "SUCCEEDED" => \A i \in Rows : shard[i].status = "SUCCEEDED"
    /\ AllEnded => parent \in Terminal \/ ending = "SILENT"

LEMMA SequenceOfSet ==
  ASSUME NEW S, IsFiniteSet(S)
  PROVE  SetToSeq(S) \in [1..Cardinality(S) -> S]
<1>1. ExistsBijection(1..Cardinality(S), S)
  BY FS_CardinalityType
<1>2. PICK f \in [1..Cardinality(S) -> S] : IsInjective(f)
  BY <1>1 DEF ExistsBijection, Bijection, Injection, IsInjective
<1>. QED
  BY <1>2 DEF SetToSeq

\* The statuses of the rows that end, and of those that go on.
LEMMA ShardStatuses ==
  /\ Terminal \subseteq RunStatus /\ AutoRetry \subseteq Terminal
  /\ AgentResults \subseteq RunStatus
  /\ \A s \in RunStatus, t \in RunStatus : SafeSet(s, t) \in RunStatus
  /\ \A s \in Terminal, t \in RunStatus : SafeSet(s, t) = s
  /\ "QUEUED" \in RunStatus \ Terminal /\ "RUNNING" \in RunStatus \ Terminal
  /\ "CANCEL_REQUESTED" \in RunStatus \ Terminal
  /\ "SUCCEEDED" \in Terminal \ AutoRetry
  /\ {"FAILED", "LOST", "CANCELLED"} \subseteq Terminal
  /\ Executing \subseteq RunStatus \ Terminal
<1>1. \A s \in RunStatus : RunTransitions[s] \subseteq RunStatus
  BY DEF RunTransitions, RunStatus, Active, Executing, Terminal
<1>2. \A s \in Terminal : RunTransitions[s] = {}
  BY DEF RunTransitions, RunStatus, Active, Executing, Terminal
<1>3. \A s \in RunStatus, t \in RunStatus : SafeSet(s, t) \in RunStatus
  BY <1>1 DEF SafeSet
<1>4. \A s \in Terminal, t \in RunStatus : SafeSet(s, t) = s
  BY <1>2 DEF SafeSet
<1>. QED
  BY <1>3, <1>4 DEF RunStatus, Active, Executing, Terminal, AutoRetry, AgentResults

\* The retries are rows that are queued; there is none unless one is due.
LEMMA RetriesAreQueued ==
  ASSUME NEW rows \in Seq(ShardRows), NEW ended \in SUBSET DOMAIN rows
  PROVE  /\ Retries(rows, ended) \in Seq(ShardRows)
         /\ \A k \in DOMAIN Retries(rows, ended) : Retries(rows, ended)[k].status = "QUEUED"
         /\ (\A i \in ended : ~RetryDue(rows[i])) => Retries(rows, ended) = <<>>
<1>. DEFINE D == {i \in ended : RetryDue(rows[i])}
            due == SetToSeq(D)
<1>1. IsFiniteSet(DOMAIN rows)
  BY FS_Interval
<1>2. IsFiniteSet(D)
  BY <1>1, FS_Subset
<1>3. due \in [1..Cardinality(D) -> D] /\ Cardinality(D) \in Nat
  BY <1>2, SequenceOfSet, FS_CardinalityType
<1>4. Retries(rows, ended) = [k \in DOMAIN due |-> Fresh(rows[due[k]].attempt + 1)]
  BY DEF Retries
<1>5. D = {} => Cardinality(D) = 0
  BY FS_EmptySet
<1>6. \A i \in D : Fresh(rows[i].attempt + 1) \in ShardRows /\ Fresh(rows[i].attempt + 1).status = "QUEUED"
  <2>. SUFFICES ASSUME NEW i \in D
                PROVE  Fresh(rows[i].attempt + 1) \in ShardRows
                       /\ Fresh(rows[i].attempt + 1).status = "QUEUED"
    OBVIOUS
  <2>1. rows[i] \in ShardRows /\ rows[i].attempt < MaxAttempts
    BY DEF RetryDue
  <2>2. rows[i].attempt + 1 \in 1..MaxAttempts
    BY <2>1, ShardAssumption DEF ShardRows
  <2>. QED
    BY <2>2, ShardStatuses DEF Fresh, ShardRows
<1>. HIDE DEF due
<1>7. \A k \in DOMAIN due : due[k] \in D
  BY <1>3
<1>. HIDE DEF D
<1>8. Retries(rows, ended) \in [1..Cardinality(D) -> ShardRows]
  BY <1>3, <1>4, <1>6, <1>7
<1>9. Retries(rows, ended) \in Seq(ShardRows)
  BY <1>3, <1>8
<1>10. \A k \in DOMAIN Retries(rows, ended) : Retries(rows, ended)[k].status = "QUEUED"
  BY <1>4, <1>6, <1>7
<1>11. D = {} => Retries(rows, ended) = <<>>
  BY <1>3, <1>5, <1>8
<1>. QED
  BY <1>9, <1>10, <1>11 DEF D

\* The parent, when it is looked at with the rows and without the newest
\* retry: it ends only when there is no other, and every row has ended.
LEMMA ParentLooksAtRows ==
  ASSUME NEW rows \in Seq(ShardRows), Len(rows) >= 1,
         NEW retries \in Seq(ShardRows), \A k \in DOMAIN retries : retries[k].status = "QUEUED",
         NEW flushed \in BOOLEAN,
         parent' = Aggregated(rows \o IF retries = <<>> \/ flushed THEN retries ELSE Front(retries))
  PROVE  \/ /\ parent' = parent
            /\ parent \in Terminal \/ retries # <<>> \/ \E i \in DOMAIN rows : rows[i].status \notin Terminal
         \/ /\ parent \notin Terminal /\ parent' = OutcomeOf(StatusesOf(rows))
            /\ \A i \in DOMAIN rows : rows[i].status \in Terminal
            /\ Len(retries) <= 1
<1>. DEFINE seen == IF retries = <<>> \/ flushed THEN retries ELSE Front(retries)
<1>1. seen \in Seq(ShardRows) /\ Len(seen) <= Len(retries) /\ Len(retries) <= Len(seen) + 1
  BY DEF Front
<1>2. \A k \in DOMAIN seen : seen[k].status = "QUEUED"
  BY DEF Front
<1>. HIDE DEF seen
<1>3. /\ rows \o seen \in Seq(ShardRows) /\ Len(rows \o seen) = Len(rows) + Len(seen)
      /\ \A i \in DOMAIN rows : (rows \o seen)[i] = rows[i]
  BY <1>1
<1>4. CASE seen # <<>>
  <2>1. (rows \o seen)[Len(rows) + 1] = seen[1] /\ Len(rows) + 1 \in DOMAIN (rows \o seen)
        /\ 1 \in DOMAIN seen
    BY <1>1, <1>4
  <2>2. "QUEUED" \in StatusesOf(rows \o seen)
    BY <1>2, <2>1 DEF StatusesOf
  <2>3. parent' = parent
    BY <2>2, ShardStatuses DEF Aggregated, seen
  <2>4. retries # <<>>
    BY <1>1, <1>4
  <2>. QED
    BY <2>3, <2>4
<1>5. CASE seen = <<>>
  <2>1. rows \o seen = rows /\ Len(retries) <= 1
    BY <1>1, <1>5
  <2>2. parent' = Aggregated(rows)
    BY <2>1 DEF seen
  <2>3. StatusesOf(rows) \subseteq Terminal <=> \A i \in DOMAIN rows : rows[i].status \in Terminal
    BY DEF StatusesOf
  <2>. QED
    BY <2>1, <2>2, <2>3 DEF Aggregated
<1>. QED
  BY <1>4, <1>5

LEMMA Outcomes ==
  ASSUME NEW statuses
  PROVE  /\ OutcomeOf(statuses) \in Terminal
         /\ OutcomeOf(statuses) = "SUCCEEDED" => statuses = {"SUCCEEDED"}
BY DEF OutcomeOf, Terminal

\* What a step may do to the parent.
Follows ==
    /\ parent \in Terminal => parent' = parent
    /\ parent \notin Terminal /\ parent' \in Terminal =>
         /\ \A i \in Rows : shard'[i].status \in Terminal
         /\ Len(shard') <= Len(shard) + 1

\* A request that aggregates.
LEMMA EndsToldKeeps ==
  ASSUME ShardInv, NEW rows \in Seq(ShardRows), Len(rows) = Len(shard), NEW ended \in SUBSET Rows,
         NEW flushed \in BOOLEAN, EndsTold(rows, ended, flushed),
         \A i \in Rows : shard[i].status = "SUCCEEDED" => rows[i].status = "SUCCEEDED"
  PROVE  ShardInv' /\ Follows
<1>. DEFINE retries == Retries(rows, ended)
<1>1. DOMAIN rows = Rows /\ Len(rows) \in 1..MaxRows /\ Len(rows) >= 1
  BY DEF ShardInv, Rows
<1>2. /\ retries \in Seq(ShardRows) /\ \A k \in DOMAIN retries : retries[k].status = "QUEUED"
      /\ (\A i \in Rows : rows[i].status = "SUCCEEDED") => retries = <<>>
  BY <1>1, RetriesAreQueued, ShardStatuses DEF RetryDue
<1>3. /\ Len(rows) + Len(retries) <= MaxRows /\ shard' = rows \o retries /\ ending' = "TOLD"
      /\ parent' = Aggregated(rows \o IF retries = <<>> \/ flushed THEN retries ELSE Front(retries))
  BY DEF EndsTold, RetriedAndAggregated
<1>. HIDE DEF retries
<1>4. \/ /\ parent' = parent
         /\ parent \in Terminal \/ retries # <<>> \/ \E i \in DOMAIN rows : rows[i].status \notin Terminal
      \/ /\ parent \notin Terminal /\ parent' = OutcomeOf(StatusesOf(rows))
         /\ \A i \in DOMAIN rows : rows[i].status \in Terminal
         /\ Len(retries) <= 1
  BY <1>1, <1>2, <1>3, ParentLooksAtRows
<1>5. /\ shard' \in Seq(ShardRows) /\ Len(shard') = Len(rows) + Len(retries)
      /\ Len(shard') \in 1..MaxRows
      /\ \A i \in Rows : i \in DOMAIN shard' /\ shard'[i] = rows[i]
  <2>1. /\ rows \o retries \in Seq(ShardRows) /\ Len(rows \o retries) = Len(rows) + Len(retries)
        /\ \A i \in DOMAIN rows : i \in DOMAIN (rows \o retries) /\ (rows \o retries)[i] = rows[i]
    BY SMTT(30), <1>2
  <2>2. Len(retries) \in Nat /\ Len(rows) + Len(retries) \in 1..MaxRows
    BY <1>1, <1>2, <1>3, ShardAssumption
  <2>. QED
    BY <1>1, <1>3, <2>1, <2>2
<1>6. parent' \in {"RUNNING", "CANCEL_REQUESTED"} \cup Terminal
  BY <1>4, Outcomes DEF ShardInv
<1>7. ASSUME parent' = "SUCCEEDED"
      PROVE  \A i \in Rows : rows[i].status = "SUCCEEDED"
  <2>1. CASE parent = "SUCCEEDED"
    BY <2>1 DEF ShardInv
  <2>2. CASE parent # "SUCCEEDED"
    <3>1. StatusesOf(rows) = {"SUCCEEDED"}
      BY <1>4, <1>7, <2>2, Outcomes
    <3>. QED
      BY <1>1, <3>1 DEF StatusesOf
  <2>. QED
    BY <2>1, <2>2
<1>8. retries = <<>> => shard' = rows
  BY <1>2, <1>3
<1>9. parent' = "SUCCEEDED" => \A i \in DOMAIN shard' : shard'[i].status = "SUCCEEDED"
  BY <1>1, <1>2, <1>7, <1>8
<1>10. ASSUME \A i \in DOMAIN shard' : shard'[i].status \in Terminal
       PROVE  parent' \in Terminal
  <2>1. retries = <<>>
    <3>1. SUFFICES ASSUME retries # <<>> PROVE FALSE
      OBVIOUS
    <3>2. /\ Len(rows) + 1 \in DOMAIN shard' /\ 1 \in DOMAIN retries
          /\ shard'[Len(rows) + 1] = retries[1]
      BY <1>1, <1>2, <1>3, <3>1
    <3>. QED
      BY <1>2, <1>10, <3>2, ShardStatuses
  <2>. QED
    BY <1>1, <1>4, <1>5, <1>10, <2>1, Outcomes
<1>11. ShardInv'
  BY <1>3, <1>5, <1>6, <1>9, <1>10 DEF ShardInv, AllEnded, Rows
<1>. QED
  BY <1>1, <1>4, <1>5, <1>11 DEF Follows

\* A request that does not.
LEMMA SetsKeeps ==
  ASSUME ShardInv, NEW rows \in Seq(ShardRows), Len(rows) = Len(shard), Sets(rows),
         \A i \in Rows : shard[i].status \in Terminal => rows[i].status = shard[i].status
  PROVE  ShardInv' /\ Follows
<1>1. /\ shard' = rows /\ parent' = parent /\ DOMAIN rows = Rows /\ ending' \in {ending, "SILENT"}
      /\ (\E i \in Rows : shard[i].status \notin Terminal /\ rows[i].status \in Terminal)
           => ending' = "SILENT"
  BY DEF Sets, Rows, ShardInv
<1>2. parent' = "SUCCEEDED" => \A i \in Rows : rows[i].status = "SUCCEEDED"
  BY <1>1, ShardStatuses DEF ShardInv
<1>3. (\A i \in Rows : rows[i].status \in Terminal) => parent' \in Terminal \/ ending' = "SILENT"
  BY <1>1 DEF ShardInv, AllEnded
<1>4. ShardInv'
  BY <1>1, <1>2, <1>3 DEF ShardInv, AllEnded, Rows
<1>. QED
  BY <1>1, <1>4 DEF Follows

LEMMA RowReplaced ==
  ASSUME ShardInv, NEW i \in Rows, NEW row \in ShardRows
  PROVE  /\ [shard EXCEPT ![i] = row] \in Seq(ShardRows)
         /\ Len([shard EXCEPT ![i] = row]) = Len(shard)
         /\ [shard EXCEPT ![i] = row][i] = row
         /\ \A j \in Rows \ {i} : [shard EXCEPT ![i] = row][j] = shard[j]
BY DEF ShardInv, Rows

LEMMA RowIsTyped ==
  ASSUME ShardInv, NEW i \in Rows
  PROVE  shard[i] \in ShardRows
BY DEF ShardInv, Rows

LEMMA ClaimingKeeps ==
  ASSUME ShardInv, NEW i \in Rows,
         ClaimShard(i) \/ ShardStranded(i) \/ ShardMisconfigured(i) \/ CancelShard(i)
  PROVE  ShardInv' /\ Follows
<1>1. ASSUME NEW row \in ShardRows, Sets([shard EXCEPT ![i] = row]), shard[i].status \notin Terminal
      PROVE  ShardInv' /\ Follows
  <2>. DEFINE rows == [shard EXCEPT ![i] = row]
  <2>1. rows \in Seq(ShardRows) /\ Len(rows) = Len(shard) /\ \A j \in Rows \ {i} : rows[j] = shard[j]
    BY <1>1, RowReplaced
  <2>2. Sets(rows)
    BY <1>1
  <2>. HIDE DEF rows
  <2>3. \A j \in Rows : shard[j].status \in Terminal => rows[j].status = shard[j].status
    BY <1>1, <2>1
  <2>. QED
    BY <2>1, <2>2, <2>3, SetsKeeps
<1>2. shard[i] \in ShardRows
  BY RowIsTyped
<1>3. CASE ClaimShard(i)
  <2>. DEFINE row == [shard[i] EXCEPT !.status = "RUNNING", !.lease = TRUE, !.heard = TRUE]
  <2>1. row \in ShardRows
    BY <1>2, ShardStatuses DEF ShardRows
  <2>2. [shard EXCEPT ![i] = row]
          = [shard EXCEPT ![i].status = "RUNNING", ![i].lease = TRUE, ![i].heard = TRUE]
    OBVIOUS
  <2>3. Sets([shard EXCEPT ![i] = row]) /\ shard[i].status \notin Terminal
    BY <1>3, <2>2, ShardStatuses DEF ClaimShard, Waiting
  <2>. QED
    BY <1>1, <2>1, <2>3
<1>4. CASE ShardStranded(i)
  <2>. DEFINE row == [shard[i] EXCEPT !.stranded = TRUE]
  <2>1. row \in ShardRows
    BY <1>2 DEF ShardRows
  <2>2. Sets([shard EXCEPT ![i] = row]) /\ shard[i].status \notin Terminal
    BY <1>4, ShardStatuses DEF ShardStranded, Waiting
  <2>. QED
    BY <1>1, <2>1, <2>2
<1>5. CASE ShardMisconfigured(i)
  <2>. DEFINE row == [shard[i] EXCEPT !.status = "FAILED", !.stranded = TRUE]
  <2>1. row \in ShardRows
    BY <1>2, ShardStatuses DEF ShardRows
  <2>2. [shard EXCEPT ![i] = row] = [shard EXCEPT ![i].status = "FAILED", ![i].stranded = TRUE]
    OBVIOUS
  <2>3. Sets([shard EXCEPT ![i] = row]) /\ shard[i].status \notin Terminal
    BY <1>5, <2>2, ShardStatuses DEF ShardMisconfigured, Waiting
  <2>. QED
    BY <1>1, <2>1, <2>3
<1>6. CASE CancelShard(i)
  <2>. DEFINE row == Cancelled(shard[i])
  <2>1. row \in ShardRows
    BY <1>2, ShardStatuses DEF ShardRows, Cancelled
  <2>2. Sets([shard EXCEPT ![i] = row]) /\ shard[i].status \notin Terminal
    BY <1>6, ShardStatuses DEF CancelShard
  <2>. QED
    BY <1>1, <2>1, <2>2
<1>. QED
  BY <1>3, <1>4, <1>5, <1>6

LEMMA FinishKeeps ==
  ASSUME ShardInv, NEW i \in Rows, NEW result \in Results, FinishShard(i, result)
  PROVE  ShardInv' /\ Follows
<1>. DEFINE row == [shard[i] EXCEPT !.status = SafeSet(shard[i].status, result), !.lease = FALSE]
            rows == [shard EXCEPT ![i] = row]
<1>1. shard[i] \in ShardRows /\ result \in RunStatus
  BY RowIsTyped, ShardAssumption, ShardStatuses
<1>2. SafeSet(shard[i].status, result) \in RunStatus
      /\ (shard[i].status = "SUCCEEDED" => SafeSet(shard[i].status, result) = "SUCCEEDED")
  BY <1>1, ShardStatuses DEF ShardRows
<1>3. row \in ShardRows /\ (shard[i].status = "SUCCEEDED" => row.status = "SUCCEEDED")
  BY <1>1, <1>2 DEF ShardRows
<1>4. rows = [shard EXCEPT ![i].status = SafeSet(@, result), ![i].lease = FALSE]
  OBVIOUS
<1>5. EndsTold(rows, {i}, FALSE)
  BY <1>4 DEF FinishShard
<1>. HIDE DEF row
<1>6. /\ rows \in Seq(ShardRows) /\ Len(rows) = Len(shard) /\ rows[i] = row
      /\ \A j \in Rows \ {i} : rows[j] = shard[j]
  BY <1>3, RowReplaced
<1>. HIDE DEF rows
<1>7. \A j \in Rows : shard[j].status = "SUCCEEDED" => rows[j].status = "SUCCEEDED"
  BY <1>3, <1>6
<1>. QED
  BY <1>5, <1>6, <1>7, EndsToldKeeps

LEMMA SweepKeeps ==
  ASSUME ShardInv, NEW S \in SUBSET Rows, NEW last \in S, NEW flushed \in BOOLEAN,
         SweepLosesShards(S, last, flushed)
  PROVE  ShardInv' /\ Follows
<1>. DEFINE lost == [i \in Rows |-> IF i \in S THEN [shard[i] EXCEPT !.status = "LOST", !.lease = FALSE]
                                    ELSE shard[i]]
<1>1. EndsTold(lost, S, flushed) /\ \A i \in S : Taken(i)
  BY DEF SweepLosesShards
<1>2. \A i \in Rows : lost[i] \in ShardRows
  BY RowIsTyped, ShardStatuses DEF ShardRows
<1>3. \A i \in Rows \ S : lost[i] = shard[i]
  OBVIOUS
<1>4. \A i \in S : shard[i].status # "SUCCEEDED"
  BY <1>1, ShardStatuses DEF Taken
<1>5. DOMAIN lost = Rows
  OBVIOUS
<1>6. Rows = 1..Len(shard) /\ Len(shard) \in Nat
  BY DEF Rows, ShardInv
<1>7. lost \in [1..Len(shard) -> ShardRows]
  BY <1>2, <1>6
<1>. HIDE DEF lost
<1>8. lost \in Seq(ShardRows) /\ Len(lost) = Len(shard)
  BY <1>6, <1>7
<1>9. \A i \in Rows : shard[i].status = "SUCCEEDED" => lost[i].status = "SUCCEEDED"
  BY <1>3, <1>4
<1>. QED
  BY <1>1, <1>8, <1>9, EndsToldKeeps

LEMMA ReplacedKeeps ==
  ASSUME ShardInv, NEW A \in SUBSET Rows, NEW kept \in SUBSET A, AgentReplaced(A, kept)
  PROVE  ShardInv' /\ Follows
<1>. DEFINE rows == [i \in Rows |->
          IF i \notin A THEN shard[i]
          ELSE IF i \in kept THEN [shard[i] EXCEPT !.heard = FALSE, !.lease = TRUE]
          ELSE IF Taken(i) THEN [shard[i] EXCEPT !.heard = FALSE, !.lease = FALSE, !.status = "LOST"]
          ELSE [shard[i] EXCEPT !.heard = FALSE]]
<1>1. Sets(rows) /\ kept \subseteq {i \in A : Taken(i)}
  BY DEF AgentReplaced
<1>2. \A i \in Rows : rows[i] \in ShardRows
  BY ZenonT(40), RowIsTyped, ShardStatuses DEF ShardRows
<1>3. \A i \in Rows : shard[i].status \in Terminal => rows[i].status = shard[i].status
  <2>. SUFFICES ASSUME NEW i \in Rows, shard[i].status \in Terminal
                PROVE  rows[i].status = shard[i].status
    OBVIOUS
  <2>1. ~Taken(i) /\ i \notin kept /\ shard[i] \in ShardRows
    BY <1>1, RowIsTyped, ShardStatuses DEF Taken
  <2>2. rows[i] = shard[i] \/ rows[i] = [shard[i] EXCEPT !.heard = FALSE]
    BY <2>1
  <2>. QED
    BY <2>1, <2>2 DEF ShardRows
<1>4. Rows = 1..Len(shard) /\ Len(shard) \in Nat
  BY DEF Rows, ShardInv
<1>5. rows \in [1..Len(shard) -> ShardRows]
  BY <1>2, <1>4
<1>. HIDE DEF rows
<1>6. rows \in Seq(ShardRows) /\ Len(rows) = Len(shard)
  BY <1>4, <1>5
<1>. QED
  BY <1>1, <1>3, <1>6, SetsKeeps

\* A cancel of the parent, or of everything, leaves what has ended alone; a
\* shard that it ends is one it does not tell the parent of.
LEMMA CancelKeeps ==
  ASSUME ShardInv, CancelParent \/ CancelOld
  PROVE  ShardInv' /\ Follows
<1>1. CASE CancelParent
  <2>1. parent \notin Terminal /\ parent' \notin Terminal /\ parent' \in {"RUNNING", "CANCEL_REQUESTED"}
        /\ shard' = shard /\ ending' = ending
    BY <1>1, ShardStatuses DEF CancelParent
  <2>. QED
    BY <2>1, ShardStatuses DEF ShardInv, Follows, AllEnded, Rows
<1>2. CASE CancelOld
  <2>1. /\ shard' = [i \in Rows |-> Cancelled(shard[i])]
        /\ ending' = IF \E i \in Rows : shard[i].status = "QUEUED" THEN "SILENT" ELSE ending
        /\ parent' = IF parent = "RUNNING" THEN "CANCEL_REQUESTED" ELSE parent
    BY <1>2 DEF CancelOld
  <2>2. \A i \in Rows : shard'[i] \in ShardRows
    BY <2>1, RowIsTyped, ShardStatuses DEF ShardRows, Cancelled
  <2>3. Rows = 1..Len(shard) /\ Len(shard) \in 1..MaxRows
    BY DEF Rows, ShardInv
  <2>4. shard' \in Seq(ShardRows) /\ Len(shard') = Len(shard) /\ DOMAIN shard' = Rows
    BY <2>1, <2>2, <2>3
  <2>5. \A i \in Rows : shard[i].status \in Terminal => shard'[i] = shard[i]
    BY <2>1, ShardStatuses DEF Cancelled
  <2>6. \A i \in Rows : shard'[i].status \in Terminal =>
                          shard[i].status \in Terminal \/ shard[i].status = "QUEUED"
    <3>. SUFFICES ASSUME NEW i \in Rows, shard[i].status \notin Terminal, shard[i].status # "QUEUED"
                  PROVE  shard'[i].status \notin Terminal
      OBVIOUS
    <3>1. shard[i] \in ShardRows /\ shard'[i] = Cancelled(shard[i])
      BY <2>1, RowIsTyped
    <3>2. Cancelled(shard[i]) = shard[i] \/ Cancelled(shard[i]).status = "CANCEL_REQUESTED"
      BY <3>1 DEF Cancelled, ShardRows
    <3>. QED
      BY <3>1, <3>2, ShardStatuses
  <2>7. /\ parent' \in {"RUNNING", "CANCEL_REQUESTED"} \cup Terminal
        /\ parent \in Terminal => parent' = parent
        /\ parent \notin Terminal => parent' \notin Terminal
    BY <2>1, ShardStatuses DEF ShardInv
  <2>8. parent' = "SUCCEEDED" => \A i \in Rows : shard'[i].status = "SUCCEEDED"
    BY <2>5, <2>7, ShardStatuses DEF ShardInv
  <2>9. (\A i \in Rows : shard'[i].status \in Terminal) => parent' \in Terminal \/ ending' = "SILENT"
    BY <2>1, <2>6, <2>7 DEF ShardInv, AllEnded
  <2>10. ending' \in {"NONE", "TOLD", "SILENT"}
    BY <2>1 DEF ShardInv
  <2>11. ShardInv'
    BY <2>3, <2>4, <2>7, <2>8, <2>9, <2>10 DEF ShardInv, AllEnded, Rows
  <2>. QED
    BY <2>7, <2>11 DEF Follows
<1>. QED
  BY <1>1, <1>2

LEMMA ShardInitially == ShardInit => ShardInv
<1>. SUFFICES ASSUME ShardInit PROVE ShardInv
  OBVIOUS
<1>1. PICK count \in 1..MaxShards : shard = [i \in 1..count |-> Fresh(1)]
  BY DEF ShardInit
<1>2. count \in Nat /\ count \in 1..MaxRows
  BY ShardAssumption
<1>3. Fresh(1) \in ShardRows /\ Fresh(1).status \notin Terminal
  BY ShardAssumption, ShardStatuses DEF Fresh, ShardRows
<1>4. shard \in [1..count -> ShardRows]
  BY <1>1, <1>3
<1>5. shard \in Seq(ShardRows) /\ Len(shard) = count
  BY <1>2, <1>4
<1>6. 1 \in Rows /\ shard[1].status \notin Terminal
  BY <1>1, <1>2, <1>3 DEF Rows
<1>. QED
  BY <1>2, <1>5, <1>6, ShardStatuses DEF ShardInit, ShardInv, AllEnded

LEMMA ShardStep == ShardInv /\ [ShardNext]_shardVars => ShardInv' /\ (Follows \/ UNCHANGED shardVars)
<1>1. ASSUME ShardInv, UNCHANGED shardVars
      PROVE  ShardInv'
  BY <1>1 DEF shardVars, ShardInv, AllEnded, Rows
<1>. QED
  BY <1>1, ClaimingKeeps, FinishKeeps, SweepKeeps, ReplacedKeeps, CancelKeeps DEF ShardNext

LEMMA ShardIsTyped == ShardInv => ShardTypeOK
<1>. SUFFICES ASSUME ShardInv PROVE ShardTypeOK
  OBVIOUS
<1>1. \A i \in Rows : shard[i] \in ShardRows
  BY RowIsTyped
<1>2. Len(shard) <= MaxRows
  BY ShardAssumption DEF ShardInv
<1>. QED
  BY <1>1, <1>2 DEF ShardInv, ShardTypeOK, ShardRows

\* The parent and its shards keep their types (_create_sharded_run, maybe_retry).
THEOREM ShardTypeCorrect == ShardSpec => []ShardTypeOK
BY ShardInitially, ShardStep, ShardIsTyped, PTL DEF ShardSpec

\* A parent that has ended stays as it is; it ends when every row of its
\* shards has, with one retry at most that begins beside it; it hides no
\* failed shard; and only a request that does not look at it leaves it behind
\* (maybe_retry, aggregate_sharded_parent).
THEOREM ParentsFollowShards == ShardSpec => ParentFollowsShards
<1>1. ShardInv =>
        /\ parent = "SUCCEEDED" => StatusesOf(shard) = {"SUCCEEDED"}
        /\ StatusesOf(shard) \subseteq Terminal => parent \in Terminal \/ ending = "SILENT"
  BY DEF ShardInv, StatusesOf, AllEnded, Rows
<1>2. ShardInv /\ [ShardNext]_shardVars => [(parent \in Terminal) => UNCHANGED parent]_shardVars
  BY ShardStep DEF Follows
<1>3. ShardInv /\ [ShardNext]_shardVars =>
        [(parent \notin Terminal) /\ parent' \in Terminal =>
            /\ \A i \in Rows : shard'[i].status \in Terminal
            /\ Len(shard') <= Len(shard) + 1]_shardVars
  BY ShardStep DEF Follows
<1>. QED
  BY <1>1, <1>2, <1>3, ShardInitially, ShardStep, PTL DEF ShardSpec, ParentFollowsShards

-----------------------------------------------------------------------------
(* The plan: the calendar *)

LEMMA Remainders ==
  ASSUME NEW n \in Nat \ {0}, NEW a \in Nat
  PROVE  /\ a \div n \in Nat /\ a % n \in 0..(n - 1)
         /\ a < n => a % n = a
         /\ (a % n) % n = a % n
<1>1. a \div n \in Nat /\ a % n \in 0..(n - 1)
  OBVIOUS
<1>2. ASSUME NEW b \in Nat, b < n
      PROVE  b % n = b
  BY <1>2
<1>. QED
  BY <1>1, <1>2

LEMMA Product ==
  ASSUME NEW k \in Nat \ {0}, NEW n \in Nat \ {0}
  PROVE  k * n \in Nat /\ k * n >= n
OBVIOUS

LEMMA DivDef ==
  ASSUME NEW n \in Nat \ {0}, NEW a \in Nat
  PROVE  a = n * (a \div n) + (a % n) /\ a \div n \in Nat /\ a % n \in 0..(n - 1)
OBVIOUS

LEMMA QuotientIs ==
  ASSUME NEW n \in Nat \ {0}, NEW q \in Nat, NEW r \in 0..(n - 1)
  PROVE  (q * n + r) \div n = q /\ (q * n + r) % n = r
<1>. DEFINE a == q * n + r
            x == a \div n
            s == a % n
<1>1. a \in Nat /\ a = n * x + s /\ x \in Nat /\ s \in 0..(n - 1)
  <2>1. a \in Nat
    OBVIOUS
  <2>. HIDE DEF a
  <2>. QED
    BY <2>1, DivDef DEF x, s
<1>. HIDE DEF a, x, s
<1>0. a = q * n + r
  BY DEF a
<1>2. CASE x > q
  <2>1. n * x = n * q + n * (x - q)
    BY <1>1
  <2>2. (x - q) * n >= n
    BY <1>1, <1>2, Product
  <2>. QED
    BY <1>0, <1>1, <2>1, <2>2
<1>3. CASE x < q
  <2>1. q * n = n * x + (q - x) * n
    BY <1>1
  <2>2. (q - x) * n >= n
    BY <1>1, <1>3, Product
  <2>. QED
    BY <1>0, <1>1, <2>1, <2>2
<1>4. CASE x = q
  BY <1>0, <1>1, <1>4
<1>5. x = q /\ s = r
  BY <1>0, <1>1, <1>2, <1>3, <1>4
<1>. QED
  BY <1>5 DEF x, s, a

\* What a remainder by a multiple tells of the remainder and the quotient.
Inherits(a, n, k) ==
    /\ a % n = (a % (k * n)) % n
    /\ (a \div n) % k = ((a % (k * n)) \div n) % k

LEMMA Modulo ==
  ASSUME NEW n \in Nat \ {0}, NEW k \in Nat \ {0}, NEW a \in Nat
  PROVE  Inherits(a, n, k)
<1>. DEFINE m == k * n
            q == a \div m
            r == a % m
            x == r \div n
            s == r % n
<1>1. m \in Nat \ {0}
  OBVIOUS
<1>0. m = k * n
  OBVIOUS
<1>. HIDE DEF m
<1>2. a = m * q + r /\ q \in Nat /\ r \in Nat
  BY <1>1, DivDef
<1>. HIDE DEF q, r
<1>3. r = n * x + s /\ x \in Nat /\ s \in 0..(n - 1)
  BY <1>2, DivDef
<1>. HIDE DEF x, s
<1>4. a = (k * q + x) * n + s
  <2>1. m * q = (k * q) * n
    BY <1>0, <1>2
  <2>2. (k * q + x) * n = (k * q) * n + n * x
    BY <1>2, <1>3
  <2>. QED
    BY <1>2, <1>3, <2>1, <2>2
<1>5. k * q + x \in Nat
  BY <1>2, <1>3
<1>6. a \div n = k * q + x /\ a % n = s
  BY <1>3, <1>4, <1>5, QuotientIs
<1>7. (k * q + x) % k = x % k
  <2>. DEFINE y == x \div k
              z == x % k
  <2>1. x = k * y + z /\ y \in Nat /\ z \in 0..(k - 1)
    BY <1>3, DivDef
  <2>. HIDE DEF y, z
  <2>2. k * q + x = (q + y) * k + z
    BY <1>2, <2>1
  <2>3. (k * q + x) % k = z
    BY <1>2, <2>1, <2>2, QuotientIs
  <2>. QED
    BY <2>3 DEF z
<1>. QED
  BY <1>6, <1>7 DEF Inherits, x, s, r, m

LEMMA ElementIs == ASSUME NEW S, NEW q \in Seq(S), NEW i \in 1..Len(q) PROVE q[i] \in S
OBVIOUS

LEMMA Calendars ==
  ASSUME NEW t \in Nat
  PROVE  /\ MinuteOf(t) \in 0..(Minutes - 1) /\ HourOf(t) \in 0..(Hours - 1)
         /\ DayOf(t) \in 1..31 /\ WeekdayOf(t) \in 0..(Week - 1)
<1>1. Minutes \in Nat \ {0} /\ Hours \in Nat \ {0} /\ Week \in Nat \ {0}
      /\ Len(Calendar) \in Nat \ {0} /\ Calendar \in Seq(1..31)
  BY CalendarAssumption
<1>2. MinuteOf(t) \in 0..(Minutes - 1) /\ t \div Minutes \in Nat
  BY <1>1, Remainders DEF MinuteOf
<1>3. HourOf(t) \in 0..(Hours - 1)
  BY <1>1, <1>2, Remainders DEF HourOf
<1>4. Date(t) \in Nat
  <2>1. Minutes * Hours \in Nat \ {0}
    BY <1>1
  <2>. QED
    BY <2>1, Remainders DEF Date
<1>5. WeekdayOf(t) \in 0..(Week - 1)
  BY <1>1, <1>4, Remainders DEF WeekdayOf
<1>6. Date(t) % Len(Calendar) \in 0..(Len(Calendar) - 1)
  BY <1>1, <1>4, Remainders
<1>7. DayOf(t) \in 1..31
  <2>. DEFINE i == (Date(t) % Len(Calendar)) + 1
  <2>1. i \in 1..Len(Calendar) /\ DayOf(t) = Calendar[i]
    BY <1>1, <1>6 DEF DayOf
  <2>. HIDE DEF i
  <2>2. \A j \in 1..Len(Calendar) : Calendar[j] \in 1..31
    BY <1>1, ElementIs, Zenon
  <2>. QED
    BY <2>1, <2>2
<1>. QED
  BY <1>2, <1>3, <1>5, <1>7

LEMMA OneIsNoStep == \A v \in Int : v % 1 = 0
OBVIOUS

\* What the fields of an expression admit.
LEMMA PartIs ==
  ASSUME NEW parts, NEW v
  PROVE  v \in Field(parts) <=> \E p \in parts : v \in p.from..p.to /\ (v - p.from) % p.step = 0
BY DEF Field

LEMMA ListedIs ==
  ASSUME NEW S \in SUBSET Nat
  PROVE  Field(Listed(S)) = S
<1>1. ASSUME NEW w, NEW v \in S
      PROVE  w \in v..v /\ (w - v) % 1 = 0 <=> w = v
  <2>1. v \in Nat /\ (v - v) % 1 = 0
    OBVIOUS
  <2>. QED
    BY <2>1
<1>2. ASSUME NEW w
      PROVE  w \in Field(Listed(S)) <=> \E v \in S : w \in v..v /\ (w - v) % 1 = 0
  <2>1. ASSUME NEW p \in Listed(S)
        PROVE  \E v \in S : p.from = v /\ p.to = v /\ p.step = 1
    BY DEF Listed
  <2>2. ASSUME NEW v \in S
        PROVE  \E p \in Listed(S) : p.from = v /\ p.to = v /\ p.step = 1
    <3>1. [from |-> v, to |-> v, step |-> 1] \in Listed(S)
      BY DEF Listed
    <3>. QED
      BY <3>1
  <2>3. (\E p \in Listed(S) : w \in p.from..p.to /\ (w - p.from) % p.step = 0)
           <=> \E v \in S : w \in v..v /\ (w - v) % 1 = 0
    BY <2>1, <2>2, Zenon
  <2>. QED
    BY <2>3, PartIs
<1>3. ASSUME NEW w
      PROVE  w \in Field(Listed(S)) <=> w \in S
  <2>1. (\E v \in S : w \in v..v /\ (w - v) % 1 = 0) <=> w \in S
    <3>1. \A v \in S : (w \in v..v /\ (w - v) % 1 = 0) <=> w = v
      BY <1>1
    <3>. QED
      BY <3>1, Zenon
  <2>. QED
    BY <1>2, <2>1
<1>. QED
  BY <1>3

LEMMA SteppedIs ==
  ASSUME NEW last \in Int, NEW n
  PROVE  Field(Stepped(last, n)) = {v \in 0..last : v % n = 0}
<1>1. ASSUME NEW w
      PROVE  w \in Field(Stepped(last, n)) <=> w \in 0..last /\ (w - 0) % n = 0
  <2>. DEFINE p == [from |-> 0, to |-> last, step |-> n]
  <2>1. Stepped(last, n) = {p} /\ p.from = 0 /\ p.to = last /\ p.step = n
    BY DEF Stepped
  <2>. HIDE DEF p
  <2>. QED
    BY <2>1, PartIs
<1>2. \A v \in 0..last : v - 0 = v
  OBVIOUS
<1>. QED
  BY <1>1, <1>2

LEMMA AnyIs ==
  /\ Field(AnyHour) = 0..(Hours - 1)
  /\ Field(AnyWeekday) = 0..(Week - 1)
  /\ Field(AnyDay) = 1..31
<1>1. Hours - 1 \in Int /\ Week - 1 \in Int
  BY CalendarAssumption
<1>2. Field(AnyHour) = 0..(Hours - 1) /\ Field(AnyWeekday) = 0..(Week - 1)
  <2>1. /\ Field(AnyHour) = {v \in 0..(Hours - 1) : v % 1 = 0}
        /\ Field(AnyWeekday) = {v \in 0..(Week - 1) : v % 1 = 0}
    BY <1>1, SteppedIs, Zenon DEF AnyHour, AnyWeekday
  <2>2. \A v \in 0..(Hours - 1) : v % 1 = 0
    BY <1>1, OneIsNoStep
  <2>3. \A v \in 0..(Week - 1) : v % 1 = 0
    BY <1>1, OneIsNoStep
  <2>. QED
    BY <2>1, <2>2, <2>3
<1>3. ASSUME NEW v
      PROVE  v \in Field(AnyDay) <=> v \in 1..31 /\ (v - 1) % 1 = 0
  <2>. DEFINE p == [from |-> 1, to |-> 31, step |-> 1]
  <2>1. AnyDay = {p} /\ p.from = 1 /\ p.to = 31 /\ p.step = 1
    BY DEF AnyDay
  <2>. HIDE DEF p
  <2>. QED
    BY <2>1, PartIs
<1>4. Field(AnyDay) = 1..31
  BY <1>3, OneIsNoStep
<1>. QED
  BY <1>2, <1>4

\* The days that the last two fields of an expression admit.
OnDay(t, day)         == DayOf(t) \in Field(day)
OnWeekday(t, weekday) == WeekdayOf(t) \in {v % Week : v \in Field(weekday)}

LEMMA AnyIsAdmitted ==
  ASSUME NEW t \in Nat
  PROVE  OnDay(t, AnyDay) /\ OnWeekday(t, AnyWeekday) /\ HourOf(t) \in Field(AnyHour)
<1>1. Week \in Nat \ {0} /\ WeekdayOf(t) \in 0..(Week - 1)
  BY Calendars, CalendarAssumption
<1>2. WeekdayOf(t) \in Nat /\ WeekdayOf(t) < Week
  BY <1>1
<1>3. WeekdayOf(t) = WeekdayOf(t) % Week
  BY <1>1, <1>2, Remainders
<1>4. OnWeekday(t, AnyWeekday)
  BY <1>1, <1>3, AnyIs DEF OnWeekday
<1>. QED
  BY <1>4, Calendars, AnyIs DEF OnDay

\* Times joined into expressions are the times that were given.
LEMMA TimesAreKept ==
  ASSUME NEW times, times \subseteq (0..(Hours - 1)) \X (0..(Minutes - 1)),
         NEW day, NEW weekday, NEW t \in Nat
  PROVE  (\E e \in ExpressionsForTimes(times, day, weekday) : Match(e, t)) <=>
            /\ <<HourOf(t), MinuteOf(t)>> \in times
            /\ OnDay(t, day) /\ OnWeekday(t, weekday)
<1>. DEFINE Day == OnDay(t, day) /\ OnWeekday(t, weekday)
<1>1. ASSUME NEW H \in SUBSET Nat, NEW M \in SUBSET Nat
      PROVE  Match([minute |-> Listed(M), hour |-> Listed(H), day |-> day, weekday |-> weekday], t)
                <=> MinuteOf(t) \in M /\ HourOf(t) \in H /\ Day
  <2>. DEFINE e == [minute |-> Listed(M), hour |-> Listed(H), day |-> day, weekday |-> weekday]
  <2>1. e.minute = Listed(M) /\ e.hour = Listed(H) /\ e.day = day /\ e.weekday = weekday
    OBVIOUS
  <2>. HIDE DEF e
  <2>2. Match(e, t) <=> MinuteOf(t) \in M /\ HourOf(t) \in H /\ Day
    BY <2>1, ListedIs DEF Match, OnDay, OnWeekday
  <2>. QED
    BY <2>2 DEF e
<1>2. \A x \in times : x = <<x[1], x[2]>> /\ x[1] \in Nat /\ x[2] \in Nat /\ x[2] \in 0..(Minutes - 1)
  BY CalendarAssumption
<1>. DEFINE HH == {x[1] : x \in times}
            MM == {x[2] : x \in times}
<1>3. HH \in SUBSET Nat /\ MM \in SUBSET Nat /\ MM \subseteq 0..(Minutes - 1)
  BY <1>2
<1>4. CASE Cardinality(MM) = 1
  <2>1. IsFiniteSet(MM)
    <3>1. IsFiniteSet(0..(Minutes - 1))
      BY CalendarAssumption, FS_Interval
    <3>. QED
      BY <1>3, <3>1, FS_Subset
  <2>2. PICK m : MM = {m}
    BY <1>4, <2>1, FS_Singleton
  <2>3. \A x \in times : x[2] = m
    BY <2>2
  <2>4. <<HourOf(t), MinuteOf(t)>> \in times <=> HourOf(t) \in HH /\ MinuteOf(t) = m
    BY <1>2, <2>3
  <2>5. (\E e \in ExpressionsForTimes(times, day, weekday) : Match(e, t)) <=>
           Match([minute |-> Listed(MM), hour |-> Listed(HH), day |-> day, weekday |-> weekday], t)
    BY <1>4 DEF ExpressionsForTimes
  <2>. QED
    BY <1>1, <1>3, <2>2, <2>4, <2>5
<1>5. CASE Cardinality(MM) # 1
  <2>1. (\E e \in ExpressionsForTimes(times, day, weekday) : Match(e, t)) <=>
           \E x \in times :
              Match([minute |-> Listed({x[2]}), hour |-> Listed({x[1]}), day |-> day, weekday |-> weekday], t)
    BY <1>5 DEF ExpressionsForTimes
  <2>2. ASSUME NEW x \in times
        PROVE  Match([minute |-> Listed({x[2]}), hour |-> Listed({x[1]}), day |-> day, weekday |-> weekday], t)
                  <=> MinuteOf(t) = x[2] /\ HourOf(t) = x[1] /\ Day
    <3>1. {x[1]} \in SUBSET Nat /\ {x[2]} \in SUBSET Nat
      BY <1>2
    <3>. QED
      BY <1>1, <3>1
  <2>3. (\E x \in times : MinuteOf(t) = x[2] /\ HourOf(t) = x[1]) <=> <<HourOf(t), MinuteOf(t)>> \in times
    BY <1>2
  <2>. QED
    BY <2>1, <2>2, <2>3
<1>. QED
  BY <1>4, <1>5

\* A configuration and the expressions made of it ask for the same times, with
\* times joined where their minute is the same and a Sunday written 0 or 7
\* (normalize_config, _cron_expressions_for_times, _match).
THEOREM ExpressionsAsk ==
  ASSUME NEW c \in Configs, WellFormed(c), NEW t \in Nat
  PROVE  (\E e \in Expressions(c) : Match(e, t)) <=> AskedFor(c, t)
<1>1. /\ c.mode \in Modes /\ c.n \in Nat /\ c.days \subseteq Nat
      /\ c.times \subseteq (0..(Hours - 1)) \X (0..(Minutes - 1))
  BY ConfigsAssumption
<1>2. OnDay(t, AnyDay) /\ OnWeekday(t, AnyWeekday) /\ HourOf(t) \in Field(AnyHour)
  BY AnyIsAdmitted
<1>3. CASE c.mode = "daily_times"
  <2>1. Expressions(c) = ExpressionsForTimes(c.times, AnyDay, AnyWeekday)
    BY <1>3 DEF Expressions
  <2>2. AskedFor(c, t) <=> <<HourOf(t), MinuteOf(t)>> \in c.times
    BY <1>3 DEF AskedFor
  <2>. QED
    BY <1>1, <1>2, <2>1, <2>2, TimesAreKept, Zenon
<1>4. CASE c.mode = "weekly_times"
  <2>. DEFINE days == {d % Week : d \in c.days}
  <2>1. Expressions(c) = ExpressionsForTimes(c.times, AnyDay, Listed(days))
    BY <1>4 DEF Expressions
  <2>2. ASSUME NEW d \in c.days
        PROVE  d % Week \in Nat /\ (d % Week) % Week = d % Week
    <3>1. d \in Nat /\ Week \in Nat \ {0}
      BY <1>1, CalendarAssumption
    <3>2. d % Week \in 0..(Week - 1) /\ (d % Week) % Week = d % Week
      BY <3>1, Remainders
    <3>. QED
      BY <3>1, <3>2
  <2>3. Field(Listed(days)) = days
    BY <2>2, ListedIs
  <2>4. OnWeekday(t, Listed(days)) <=> \E d \in c.days : WeekdayOf(t) = d % Week
    BY <2>2, <2>3 DEF OnWeekday
  <2>5. AskedFor(c, t) <=> /\ <<HourOf(t), MinuteOf(t)>> \in c.times
                           /\ \E d \in c.days : WeekdayOf(t) = d % Week
    BY <1>4 DEF AskedFor
  <2>. QED
    BY <1>1, <1>2, <2>1, <2>4, <2>5, TimesAreKept, Zenon
<1>5. CASE c.mode = "monthly_times"
  <2>1. Expressions(c) = ExpressionsForTimes(c.times, Listed(c.days), AnyWeekday)
    BY <1>5 DEF Expressions
  <2>2. OnDay(t, Listed(c.days)) <=> DayOf(t) \in c.days
    BY <1>1, ListedIs DEF OnDay
  <2>3. AskedFor(c, t) <=> /\ <<HourOf(t), MinuteOf(t)>> \in c.times
                           /\ DayOf(t) \in c.days
    BY <1>5 DEF AskedFor
  <2>. QED
    BY <1>1, <1>2, <2>1, <2>2, <2>3, TimesAreKept, Zenon
<1>6. CASE c.mode = "EVERY_N_MINUTES"
  <2>. DEFINE e == [minute |-> Stepped(Minutes - 1, c.n), hour |-> AnyHour, day |-> AnyDay,
                    weekday |-> AnyWeekday]
  <2>1. Expressions(c) = {e}
    BY <1>6 DEF Expressions
  <2>2. Match(e, t) <=> MinuteOf(t) \in Field(Stepped(Minutes - 1, c.n)) /\ HourOf(t) \in Field(AnyHour)
    BY <1>2 DEF Match, OnDay, OnWeekday
  <2>3. Field(Stepped(Minutes - 1, c.n)) = {v \in 0..(Minutes - 1) : v % c.n = 0}
    BY SteppedIs, CalendarAssumption
  <2>4. AskedFor(c, t) <=> MinuteOf(t) % c.n = 0
    BY <1>6 DEF AskedFor
  <2>. HIDE DEF e
  <2>. QED
    BY <2>1, <2>2, <2>3, <2>4, Calendars, AnyIs
<1>7. CASE c.mode = "EVERY_N_HOURS"
  <2>. DEFINE hour == IF c.n = Hours THEN Listed({0}) ELSE Stepped(Hours - 1, c.n)
              e == [minute |-> Listed({0}), hour |-> hour, day |-> AnyDay, weekday |-> AnyWeekday]
  <2>1. Expressions(c) = {e}
    BY <1>7 DEF Expressions
  <2>2. Match(e, t) <=> MinuteOf(t) \in Field(Listed({0})) /\ HourOf(t) \in Field(hour)
    BY <1>2 DEF Match, OnDay, OnWeekday
  <2>3. Field(Listed({0})) = {0}
    BY ListedIs
  <2>4. HourOf(t) \in Field(hour) <=> HourOf(t) % c.n = 0
    <3>1. CASE c.n = Hours
      <4>1. HourOf(t) % c.n = HourOf(t)
        <5>1. HourOf(t) \in Nat /\ HourOf(t) < Hours /\ Hours \in Nat \ {0}
          <6>1. HourOf(t) \in 0..(Hours - 1) /\ Hours \in Nat \ {0}
            BY Calendars, CalendarAssumption
          <6>. QED
            BY <6>1
        <5>. QED
          BY <3>1, <5>1, Remainders
      <4>. QED
        BY <3>1, <4>1, <2>3
    <3>2. CASE c.n # Hours
      <4>1. Field(hour) = {v \in 0..(Hours - 1) : v % c.n = 0}
        BY <3>2, SteppedIs, CalendarAssumption
      <4>. QED
        BY <4>1, Calendars
    <3>. QED
      BY <3>1, <3>2
  <2>5. AskedFor(c, t) <=> MinuteOf(t) = 0 /\ HourOf(t) % c.n = 0
    BY <1>7 DEF AskedFor
  <2>. HIDE DEF e, hour
  <2>. QED
    BY <2>1, <2>2, <2>3, <2>4, <2>5
<1>8. CASE c.mode = ""
  BY <1>8 DEF Expressions, AskedFor
<1>. QED
  BY <1>1, <1>3, <1>4, <1>5, <1>6, <1>7, <1>8 DEF Modes

-----------------------------------------------------------------------------
(* The first of several sets of times *)

LEMMA Smallest ==
  ASSUME NEW S \in SUBSET Nat, S # {}
  PROVE  Earlier(S) \in S /\ \A u \in S : Earlier(S) <= u
<1>1. PICK t \in S : \A u \in S : ~(<<u, t>> \in OpToRel(<, Nat))
  BY NatLessThanWellFounded, WFMin
<1>2. ASSUME NEW u \in S
      PROVE  t <= u
  <2>1. u \in Nat /\ t \in Nat /\ ~(u < t)
    BY <1>1 DEF OpToRel
  <2>. QED
    BY <2>1
<1>. QED
  BY <1>2 DEF Earlier

LEMMA FirstOfKeepsFirst ==
  ASSUME NEW S \in SUBSET Nat, NEW n \in Nat \ {0}
  PROVE  /\ FirstOf(S, n) \subseteq S
         /\ S # {} => Earlier(S) \in FirstOf(S, n)
<1>1. ASSUME S # {}
      PROVE  {u \in S : u < Earlier(S)} = {}
  <2>1. Earlier(S) \in Nat /\ \A u \in S : Earlier(S) <= u
    BY <1>1, Smallest
  <2>2. ASSUME NEW u \in S, u < Earlier(S)
        PROVE  FALSE
    <3>1. u \in Nat /\ Earlier(S) <= u
      BY <2>1
    <3>. QED
      BY <2>1, <2>2, <3>1
  <2>. QED
    BY <2>2
<1>. QED
  BY <1>1, Smallest, FS_EmptySet DEF FirstOf

Hits(e, t) == {u \in (t + 1)..(t + Year) : Match(e, u)}

\* However few times of each expression are taken, the first of all is there.
LEMMA CombinedKeepsFirst ==
  ASSUME NEW es, NEW t \in Nat, NEW n \in Nat \ {0}
  PROVE  LET all == UNION {Hits(e, t) : e \in es}
         IN  /\ CombinedNext(es, t, n) \subseteq all
             /\ all # {} => /\ CombinedNext(es, t, n) # {}
                            /\ Earlier(CombinedNext(es, t, n)) = Earlier(all)
<1>. DEFINE all  == UNION {Hits(e, t) : e \in es}
            each == IF 3 * n > n + 3 THEN 3 * n ELSE n + 3
            some == UNION {NextOfSingle(e, t, each) : e \in es}
<1>1. each \in Nat \ {0}
  OBVIOUS
<1>2. ASSUME NEW e \in es
      PROVE  Hits(e, t) \in SUBSET Nat
  BY DEF Hits
<1>. HIDE DEF each
<1>3. ASSUME NEW e \in es
      PROVE  /\ NextOfSingle(e, t, each) \subseteq Hits(e, t)
             /\ Hits(e, t) # {} => Earlier(Hits(e, t)) \in NextOfSingle(e, t, each)
  <2>1. NextOfSingle(e, t, each) = FirstOf(Hits(e, t), each)
    BY DEF NextOfSingle, Hits
  <2>. QED
    BY <1>1, <1>2, <2>1, FirstOfKeepsFirst
<1>4. all \in SUBSET Nat /\ some \subseteq all
  BY <1>2, <1>3
<1>5. CombinedNext(es, t, n) = FirstOf(some, n)
  BY DEF CombinedNext, each
<1>6. FirstOf(some, n) \subseteq some
  BY <1>4, FirstOfKeepsFirst
<1>7. ASSUME all # {}
      PROVE  FirstOf(some, n) # {} /\ Earlier(FirstOf(some, n)) = Earlier(all)
  <2>. DEFINE first == Earlier(all)
  <2>1. first \in all /\ \A u \in all : first <= u
    BY <1>4, <1>7, Smallest
  <2>. HIDE DEF first
  <2>2. PICK e \in es : first \in Hits(e, t)
    BY <2>1
  <2>3. first = Earlier(Hits(e, t))
    <3>1. Earlier(Hits(e, t)) \in Hits(e, t) /\ \A u \in Hits(e, t) : Earlier(Hits(e, t)) <= u
      BY <1>2, <2>2, Smallest
    <3>2. Earlier(Hits(e, t)) \in all
      BY <3>1
    <3>3. first <= Earlier(Hits(e, t)) /\ Earlier(Hits(e, t)) <= first
      BY <2>1, <2>2, <3>1, <3>2
    <3>. QED
      BY <1>4, <2>1, <3>2, <3>3
  <2>4. first \in some
    BY <1>3, <2>2, <2>3
  <2>5. first = Earlier(some)
    <3>1. Earlier(some) \in some /\ Earlier(some) <= first
      BY <1>4, <2>4, Smallest
    <3>. QED
      BY <1>4, <2>1, <3>1
  <2>6. first \in FirstOf(some, n)
    BY <1>4, <2>4, <2>5, FirstOfKeepsFirst
  <2>7. Earlier(FirstOf(some, n)) = first
    <3>1. Earlier(FirstOf(some, n)) \in FirstOf(some, n) /\ Earlier(FirstOf(some, n)) <= first
      BY <1>4, <1>6, <2>6, Smallest
    <3>2. Earlier(FirstOf(some, n)) \in all
      BY <1>4, <1>6, <3>1
    <3>3. Earlier(FirstOf(some, n)) \in Nat /\ first \in Nat /\ first <= Earlier(FirstOf(some, n))
      BY <1>4, <2>1, <3>2
    <3>. QED
      BY <3>1, <3>3
  <2>. QED
    BY <2>6, <2>7 DEF first
<1>. QED
  BY <1>4, <1>5, <1>6, <1>7

\* A plan has its next time when its configuration asks for it first.
LEMMA NextTimeIs ==
  ASSUME NEW c \in DOMAIN NextTwo, minute \in 0..LastMinute, NextTwo[c][minute] # {}
  PROVE  /\ NextTime(c) \in (minute + 1)..(minute + Year)
         /\ AskedFor(c, NextTime(c))
         /\ \A t \in (minute + 1)..(NextTime(c) - 1) : ~AskedFor(c, t)
<1>. DEFINE all == UNION {Hits(e, minute) : e \in Expressions(c)}
<1>1. c \in Configs /\ WellFormed(c) /\ minute \in Nat /\ Year \in Nat
  BY CalendarAssumption DEF NextTwo, Year
<1>2. NextTwo[c][minute] = CombinedNext(Expressions(c), minute, 2)
  BY DEF NextTwo
<1>3. all # {} /\ NextTime(c) = Earlier(all)
  BY <1>1, <1>2, CombinedKeepsFirst DEF NextTime
<1>4. \A t : t \in all <=> t \in (minute + 1)..(minute + Year) /\ AskedFor(c, t)
  <2>1. \A t : t \in all <=> t \in (minute + 1)..(minute + Year) /\ \E e \in Expressions(c) : Match(e, t)
    BY DEF Hits
  <2>2. \A t \in (minute + 1)..(minute + Year) : t \in Nat
    BY <1>1
  <2>. QED
    BY <1>1, <2>1, <2>2, ExpressionsAsk
<1>5. all \in SUBSET Nat
  BY <1>1, <1>4
<1>. HIDE DEF all
<1>6. Earlier(all) \in all /\ \A u \in all : Earlier(all) <= u
  BY <1>3, <1>5, Smallest
<1>7. ASSUME NEW t \in (minute + 1)..(NextTime(c) - 1), AskedFor(c, t)
      PROVE  FALSE
  <2>1. NextTime(c) \in Nat /\ NextTime(c) <= minute + Year
    BY <1>1, <1>3, <1>4, <1>5, <1>6
  <2>2. t \in Nat /\ t < NextTime(c) /\ t \in (minute + 1)..(minute + Year)
    BY <1>1, <1>7, <2>1
  <2>3. t \in all
    BY <1>4, <1>7, <2>2
  <2>4. NextTime(c) <= t
    BY <1>3, <1>6, <2>3
  <2>. QED
    BY <2>1, <2>2, <2>4
<1>. QED
  BY <1>3, <1>4, <1>6, <1>7

-----------------------------------------------------------------------------
(* No expression names a month: what fires at all fires in every year *)

LEMMA Within ==
  ASSUME NEW P \in Nat \ {0}, NEW t \in Nat, NEW u \in Nat
  PROVE  \E v \in (t + 1)..(t + P) : v % P = u % P
<1>. DEFINE r == u % P
            x == (t + 1) \div P
            s == (t + 1) % P
<1>1. r \in 0..(P - 1)
  BY DivDef
<1>2. t + 1 = P * x + s /\ x \in Nat /\ s \in 0..(P - 1)
  <2>1. t + 1 \in Nat
    OBVIOUS
  <2>. QED
    BY <2>1, DivDef
<1>. HIDE DEF r, x, s
<1>3. CASE r >= s
  <2>1. (x * P + r) % P = r
    BY <1>1, <1>2, QuotientIs
  <2>2. x * P + r \in (t + 1)..(t + P)
    BY <1>1, <1>2, <1>3
  <2>. QED
    BY <2>1, <2>2 DEF r
<1>4. CASE r < s
  <2>1. ((x + 1) * P + r) % P = r
    <3>1. x + 1 \in Nat
      BY <1>2
    <3>. QED
      BY <1>1, <3>1, QuotientIs
  <2>2. (x + 1) * P = P * x + P
    BY <1>2
  <2>3. (x + 1) * P + r \in (t + 1)..(t + P)
    BY <1>1, <1>2, <1>4, <2>2
  <2>. QED
    BY <2>1, <2>3 DEF r
<1>. QED
  BY <1>1, <1>2, <1>3, <1>4

\* Times a whole number of days apart, and dates that far apart.
LEMMA SameOfDays ==
  ASSUME NEW k \in Nat \ {0}, NEW t \in Nat, NEW u \in Nat,
         t % (k * (Minutes * Hours)) = u % (k * (Minutes * Hours))
  PROVE  /\ MinuteOf(t) = MinuteOf(u) /\ HourOf(t) = HourOf(u)
         /\ Date(t) % k = Date(u) % k
<1>. DEFINE day == Minutes * Hours
<1>0. Minutes \in Nat \ {0} /\ Hours \in Nat \ {0}
  BY CalendarAssumption
<1>1. day \in Nat \ {0} /\ day = Hours * Minutes
  BY <1>0
<1>. HIDE DEF day
<1>2. ASSUME NEW v \in Nat
      PROVE  /\ v % day = (v % (k * day)) % day
             /\ (v \div day) % k = ((v % (k * day)) \div day) % k
             /\ v % Minutes = (v % day) % Minutes
             /\ (v \div Minutes) % Hours = ((v % day) \div Minutes) % Hours
  <2>1. Inherits(v, Minutes, Hours) /\ Inherits(v, day, k)
    BY <1>0, <1>1, Modulo, Zenon
  <2>. QED
    BY <1>1, <2>1, Zenon DEF Inherits
<1>3. t % day = u % day /\ (t \div day) % k = (u \div day) % k
  <2>1. t % (k * day) = u % (k * day)
    BY DEF day
  <2>. QED
    BY <1>2, <2>1, Zenon
<1>4. t % Minutes = u % Minutes /\ (t \div Minutes) % Hours = (u \div Minutes) % Hours
  BY <1>2, <1>3, Zenon
<1>. QED
  BY <1>3, <1>4 DEF MinuteOf, HourOf, Date, day

\* An expression leaves the days of the month or those of the week open.
LEMMA DaysLeftOpen ==
  ASSUME NEW c \in Configs, NEW e \in Expressions(c)
  PROVE  e.day = AnyDay \/ e.weekday = AnyWeekday
<1>1. ASSUME NEW times, NEW day, NEW weekday, NEW f \in ExpressionsForTimes(times, day, weekday)
      PROVE  f.day = day /\ f.weekday = weekday
  <2>1. PICK minutes, hours :
          f = [minute |-> minutes, hour |-> hours, day |-> day, weekday |-> weekday]
    BY <1>1 DEF ExpressionsForTimes
  <2>. QED
    BY <2>1
<1>2. CASE c.mode = "daily_times"
  <2>1. e \in ExpressionsForTimes(c.times, AnyDay, AnyWeekday)
    BY <1>2 DEF Expressions
  <2>. QED
    BY <1>1, <2>1
<1>3. CASE c.mode = "weekly_times"
  <2>1. e \in ExpressionsForTimes(c.times, AnyDay, Listed({d % Week : d \in c.days}))
    BY <1>3 DEF Expressions
  <2>. QED
    BY <1>1, <2>1
<1>4. CASE c.mode = "monthly_times"
  <2>1. e \in ExpressionsForTimes(c.times, Listed(c.days), AnyWeekday)
    BY <1>4 DEF Expressions
  <2>. QED
    BY <1>1, <2>1
<1>5. CASE c.mode = "EVERY_N_MINUTES"
  <2>1. e = [minute |-> Stepped(Minutes - 1, c.n), hour |-> AnyHour, day |-> AnyDay, weekday |-> AnyWeekday]
    BY <1>5 DEF Expressions
  <2>. QED
    BY <2>1
<1>6. CASE c.mode = "EVERY_N_HOURS"
  <2>1. e = [minute |-> Listed({0}), hour |-> IF c.n = Hours THEN Listed({0}) ELSE Stepped(Hours - 1, c.n),
             day |-> AnyDay, weekday |-> AnyWeekday]
    BY <1>6 DEF Expressions
  <2>. QED
    BY <2>1
<1>7. CASE c.mode = ""
  BY <1>7, ConfigsAssumption DEF Expressions
<1>. QED
  BY <1>2, <1>3, <1>4, <1>5, <1>6, <1>7, ConfigsAssumption DEF Modes

LEMMA MatchedAgain ==
  ASSUME NEW c \in Configs, NEW e \in Expressions(c), NEW u \in Nat, Match(e, u), NEW t \in Nat
  PROVE  Hits(e, t) # {}
<1>. DEFINE day == Minutes * Hours
            n   == Len(Calendar)
<1>1. /\ day \in Nat \ {0} /\ n \in Nat \ {0} /\ Week \in Nat \ {0} /\ Week <= n
      /\ Calendar \in Seq(1..31)
  BY CalendarAssumption
<1>2. Year = n * day
  BY CalendarAssumption DEF Year
<1>. HIDE DEF day, n
<1>3. n * day \in Nat \ {0} /\ Week * day \in Nat \ {0} /\ Week * day <= n * day
  <2>1. n * day = Week * day + (n - Week) * day /\ (n - Week) * day \in Nat
    BY <1>1
  <2>. QED
    BY <1>1, <2>1
<1>4. CASE e.weekday = AnyWeekday
  <2>1. PICK v \in (t + 1)..(t + n * day) : v % (n * day) = u % (n * day)
    BY <1>3, Within
  <2>2. v \in Nat
    BY <1>3, <2>1
  <2>3. MinuteOf(v) = MinuteOf(u) /\ HourOf(v) = HourOf(u) /\ Date(v) % n = Date(u) % n
    BY <1>1, <2>1, <2>2, SameOfDays DEF day
  <2>4. DayOf(v) = DayOf(u)
    BY <2>3 DEF DayOf, n
  <2>5. OnWeekday(v, e.weekday)
    BY <1>4, <2>2, AnyIsAdmitted
  <2>6. Match(e, v)
    BY <2>3, <2>4, <2>5 DEF Match, OnWeekday
  <2>. QED
    BY <1>2, <2>1, <2>6 DEF Hits
<1>5. CASE e.day = AnyDay
  <2>1. PICK v \in (t + 1)..(t + Week * day) : v % (Week * day) = u % (Week * day)
    BY <1>3, Within
  <2>2. v \in Nat /\ v \in (t + 1)..(t + n * day)
    BY <1>3, <2>1
  <2>3. MinuteOf(v) = MinuteOf(u) /\ HourOf(v) = HourOf(u) /\ Date(v) % Week = Date(u) % Week
    BY <1>1, <2>1, <2>2, SameOfDays DEF day
  <2>4. WeekdayOf(v) = WeekdayOf(u)
    BY <2>3 DEF WeekdayOf
  <2>5. OnDay(v, e.day)
    BY <1>5, <2>2, AnyIsAdmitted
  <2>6. Match(e, v)
    BY <2>3, <2>4, <2>5 DEF Match, OnDay
  <2>. QED
    BY <1>2, <2>2, <2>6 DEF Hits
<1>. QED
  BY <1>4, <1>5, DaysLeftOpen

LEMMA EveryYear ==
  ASSUME NEW c \in DOMAIN NextTwo, NEW t \in 0..LastMinute, NEW u \in 0..LastMinute,
         NextTwo[c][t] # {}
  PROVE  NextTwo[c][u] # {}
<1>1. c \in Configs /\ t \in Nat /\ u \in Nat /\ Year \in Nat
  BY CalendarAssumption DEF NextTwo, Year
<1>2. /\ NextTwo[c][t] = CombinedNext(Expressions(c), t, 2)
      /\ NextTwo[c][u] = CombinedNext(Expressions(c), u, 2)
  BY DEF NextTwo
<1>. DEFINE before == UNION {Hits(e, t) : e \in Expressions(c)}
            after  == UNION {Hits(e, u) : e \in Expressions(c)}
<1>3. NextTwo[c][t] \subseteq before /\ (after # {} => NextTwo[c][u] # {})
  <2>1. 2 \in Nat \ {0}
    OBVIOUS
  <2>. QED
    BY <1>1, <1>2, <2>1, CombinedKeepsFirst, Zenon
<1>4. PICK e \in Expressions(c) : \E v : v \in Hits(e, t)
  <2>1. PICK v : v \in before
    BY <1>3
  <2>. QED
    BY <2>1
<1>5. PICK v \in Hits(e, t) : v \in Nat /\ Match(e, v)
  BY <1>1, <1>4 DEF Hits
<1>6. Hits(e, u) # {}
  BY <1>1, <1>5, MatchedAgain
<1>. QED
  BY <1>3, <1>6

-----------------------------------------------------------------------------
(* The steps of the plan *)

\* A configuration that has been accepted at some time.
Fires(c) == c \in DOMAIN NextTwo /\ \E t \in 0..LastMinute : NextTwo[c][t] # {}

LEMMA AcceptedFires ==
  ASSUME minute \in 0..LastMinute, NEW c \in Configs, NEW admin, Accepted(c, admin)
  PROVE  Fires(c)
<1>1. c \in DOMAIN NextTwo
  BY DEF Accepted, NextTwo
<1>2. NextTwo[c][minute] # {}
  BY FS_EmptySet DEF Accepted
<1>. QED
  BY <1>1, <1>2 DEF Fires

\* The next time of a plan, whenever it is computed.
LEMMA NextOfFiring ==
  ASSUME minute \in 0..LastMinute, NEW c, Fires(c)
  PROVE  /\ c \in Configs
         /\ NextTime(c) \in 0..(LastMinute + Year) /\ NextTime(c) > minute /\ NextTime(c) # Never
         /\ AskedFor(c, NextTime(c))
         /\ \A t \in (minute + 1)..(NextTime(c) - 1) : ~AskedFor(c, t)
<1>1. NextTwo[c][minute] # {}
  BY EveryYear DEF Fires
<1>2. /\ NextTime(c) \in (minute + 1)..(minute + Year)
      /\ AskedFor(c, NextTime(c))
      /\ \A t \in (minute + 1)..(NextTime(c) - 1) : ~AskedFor(c, t)
  BY <1>1, NextTimeIs DEF Fires
<1>3. Year \in Nat /\ LastMinute \in Nat /\ minute \in Nat /\ minute <= LastMinute
  BY CalendarAssumption DEF Year
<1>4. NextTime(c) \in 0..(LastMinute + Year) /\ NextTime(c) > minute /\ NextTime(c) # 0
  BY <1>2, <1>3
<1>. QED
  BY <1>2, <1>4 DEF Never, Fires, NextTwo

Plans  == [status : {"ENABLED", "PAUSED", "ERROR"}, type : {"CRON", "MANUAL"},
           config : Configs \cup {NoConfig}, next : 0..(LastMinute + Year)]
Rounds == [busy : BOOLEAN, config : Configs \cup {NoConfig}, overtaken : BOOLEAN]

\* What a plan keeps can be planned again, and a round that nobody has
\* overtaken works on the plan as it is.
PlanInv ==
  /\ minute \in 0..LastMinute /\ plan \in Plans /\ round \in Rounds
  /\ plan.type = "CRON" => Fires(plan.config)
  /\ round.busy => Fires(round.config)
  /\ round.busy /\ ~round.overtaken =>
        plan.config = round.config /\ plan.status = "ENABLED" /\ plan.type = "CRON"

\* The plan has the first time its configuration asks for, if it is on.
Planning(p) ==
  /\ p.next # Never <=> p.status = "ENABLED" /\ p.type = "CRON"
  /\ p.next # Never =>
        /\ p.next > minute /\ AskedFor(p.config, p.next)
        /\ \A t \in (minute + 1)..(p.next - 1) : ~AskedFor(p.config, t)

LEMMA ZeroIsTime == 0 \in 0..LastMinute /\ 0 \in 0..(LastMinute + Year)
<1>1. Year \in Nat /\ LastMinute \in Nat
  BY CalendarAssumption DEF Year
<1>. QED
  BY <1>1

LEMMA PlanInitially == PlanInit => PlanInv
<1>. SUFFICES ASSUME PlanInit PROVE PlanInv
  OBVIOUS
<1>1. plan \in Plans /\ plan.type # "CRON"
  BY ZeroIsTime DEF PlanInit, Plans, Never
<1>2. round \in Rounds /\ ~round.busy
  BY DEF PlanInit, NoRound, Rounds
<1>. QED
  BY <1>1, <1>2, ZeroIsTime DEF PlanInit, PlanInv

LEMMA PlannedIsPlanned ==
  ASSUME minute \in 0..LastMinute, NEW c, Fires(c), NEW status \in {"ENABLED", "PAUSED", "ERROR"}
  PROVE  /\ Planned(status, c) \in Plans /\ Planning(Planned(status, c))
         /\ Planned(status, c).config = c /\ Planned(status, c).type = "CRON"
<1>. DEFINE next == IF status = "ENABLED" THEN NextTime(c) ELSE Never
<1>1. Planned(status, c) = [status |-> status, type |-> "CRON", config |-> c, next |-> next]
  BY DEF Planned
<1>2. /\ next \in 0..(LastMinute + Year) /\ c \in Configs
      /\ next # Never <=> status = "ENABLED"
      /\ next # Never => /\ next > minute /\ AskedFor(c, next)
                         /\ \A t \in (minute + 1)..(next - 1) : ~AskedFor(c, t)
  BY NextOfFiring, ZeroIsTime DEF Never
<1>. HIDE DEF next
<1>3. Planned(status, c) \in Plans
  BY <1>1, <1>2 DEF Plans
<1>4. Planning(Planned(status, c))
  BY <1>1, <1>2 DEF Planning
<1>. QED
  BY <1>1, <1>3, <1>4

LEMMA PlanStep ==
  PlanInv /\ [PlanNext]_planVars =>
    PlanInv' /\ (plan' # plan /\ ~(round.overtaken /\ ~round'.busy) => Planning(plan'))
<1>. SUFFICES ASSUME PlanInv, [PlanNext]_planVars
              PROVE  PlanInv' /\ (plan' # plan /\ ~(round.overtaken /\ ~round'.busy) => Planning(plan'))
  OBVIOUS
<1>. DEFINE Goal == PlanInv' /\ (plan' # plan /\ ~(round.overtaken /\ ~round'.busy) => Planning(plan'))
<1>1. CASE UNCHANGED planVars
  BY <1>1 DEF planVars, PlanInv, Fires
<1>2. ASSUME Edited, plan' \in Plans, Planning(plan'), plan'.type = "CRON" => Fires(plan'.config)
      PROVE  Goal
  <2>1. round' \in Rounds /\ round'.config = round.config /\ round'.busy = round.busy
        /\ round'.overtaken = round.busy
    BY <1>2 DEF Edited, PlanInv, Rounds
  <2>2. minute' = minute
    BY <1>2 DEF Edited
  <2>. QED
    BY <1>2, <2>1, <2>2 DEF PlanInv, Fires
<1>3. ASSUME NEW c \in Configs, NEW status \in {"ENABLED", "PAUSED"}, NEW admin \in BOOLEAN,
             SavePlan(c, status, admin)
      PROVE  Goal
  <2>1. Fires(c) /\ plan' = Planned(status, c)
    BY <1>3, AcceptedFires DEF SavePlan, PlanInv
  <2>2. plan' \in Plans /\ Planning(plan') /\ plan'.config = c
    BY <2>1, PlannedIsPlanned DEF PlanInv
  <2>. QED
    BY <1>2, <1>3, <2>1, <2>2 DEF SavePlan
<1>4. ASSUME NEW c \in Configs, NEW admin \in BOOLEAN, TypeExpression(c, admin)
      PROVE  Goal
  <2>. DEFINE kept == IF plan.config.mode # "" THEN plan.config ELSE c
  <2>1. Accepted(kept, admin) /\ plan' = Planned(plan.status, kept) /\ plan.type = "CRON"
    BY <1>4 DEF TypeExpression
  <2>2. kept \in Configs /\ minute \in 0..LastMinute /\ plan.status \in {"ENABLED", "PAUSED", "ERROR"}
    BY <2>1 DEF PlanInv, Plans, Fires, NextTwo
  <2>. HIDE DEF kept
  <2>3. Fires(kept)
    BY <2>1, <2>2, AcceptedFires
  <2>4. plan' \in Plans /\ Planning(plan') /\ plan'.config = kept
    BY <2>1, <2>2, <2>3, PlannedIsPlanned
  <2>. QED
    BY <1>2, <1>4, <2>3, <2>4 DEF TypeExpression
<1>5. ASSUME NEW status \in {"ENABLED", "PAUSED", "ERROR"}, NEW type \in {"CRON", "MANUAL"},
             plan' = [plan EXCEPT !.status = status, !.type = type, !.next = Never],
             Edited, type = "MANUAL" \/ (type = plan.type /\ status # "ENABLED")
      PROVE  Goal
  <2>1. plan' \in Plans /\ plan'.next = Never /\ plan'.status = status /\ plan'.type = type
        /\ plan'.config = plan.config
    BY <1>5, ZeroIsTime DEF PlanInv, Plans, Never
  <2>2. Planning(plan')
    BY <1>5, <2>1 DEF Planning
  <2>. QED
    BY <1>2, <1>5, <2>1, <2>2 DEF PlanInv
<1>6. ASSUME NEW status \in {"ENABLED", "PAUSED"}, MakeManual(status)
      PROVE  Goal
  BY <1>5, <1>6 DEF MakeManual
<1>7. ASSUME NEW status \in {"PAUSED", "ERROR"}, StopPlan(status)
      PROVE  Goal
  <2>1. plan' = [plan EXCEPT !.status = status, !.type = plan.type, !.next = Never]
    BY <1>7 DEF StopPlan, PlanInv, Plans
  <2>2. plan.type \in {"CRON", "MANUAL"}
    BY DEF PlanInv, Plans
  <2>. QED
    BY <1>5, <1>7, <2>1, <2>2 DEF StopPlan
<1>8. CASE RoundReads
  <2>1. round' \in Rounds /\ round'.config = plan.config /\ ~round'.overtaken
    BY <1>8 DEF RoundReads, PlanInv, Plans, Rounds
  <2>. QED
    BY <1>8, <2>1 DEF RoundReads, PlanInv, Fires
<1>9. CASE RoundCommits
  <2>. DEFINE next == NextTime(round.config)
  <2>1. /\ next \in 0..(LastMinute + Year) /\ next > minute /\ next # Never
        /\ AskedFor(round.config, next)
        /\ \A t \in (minute + 1)..(next - 1) : ~AskedFor(round.config, t)
    BY <1>9, NextOfFiring DEF RoundCommits, PlanInv
  <2>2. plan' = [plan EXCEPT !.next = next] /\ minute' = minute
    BY <1>9 DEF RoundCommits
  <2>. HIDE DEF next
  <2>3. /\ plan' \in Plans /\ plan'.next = next /\ plan'.config = plan.config
        /\ plan'.status = plan.status /\ plan'.type = plan.type
    BY <2>1, <2>2 DEF PlanInv, Plans
  <2>4. round' \in Rounds /\ ~round'.busy
    BY <1>9 DEF RoundCommits, NoRound, Rounds
  <2>5. PlanInv'
    BY <2>2, <2>3, <2>4 DEF PlanInv, Fires
  <2>6. ~round.overtaken => Planning(plan')
    BY <1>9, <2>1, <2>3 DEF RoundCommits, PlanInv, Planning
  <2>. QED
    BY <2>4, <2>5, <2>6
<1>10. CASE MinutePasses
  <2>1. minute' \in 0..LastMinute
    BY <1>10, CalendarAssumption DEF MinutePasses, PlanInv
  <2>. QED
    BY <1>10, <2>1 DEF MinutePasses, PlanInv, Fires
<1>. QED
  BY <1>1, <1>3, <1>4, <1>6, <1>7, <1>8, <1>9, <1>10 DEF PlanNext

LEMMA PlanIsTyped == PlanInv => PlanTypeOK
BY DEF PlanInv, Plans, Rounds, PlanTypeOK

\* The clock, the plan and the scheduler's round keep their types.
THEOREM PlanTypeCorrect == PlanSpec => []PlanTypeOK
BY PlanInitially, PlanStep, PlanIsTyped, PTL DEF PlanSpec

\* For any calendar and configurations: a plan that is on has the first time
\* after now that its configuration asks for, but for a round that commits
\* over an edit it did not see (cron_service.py, update_schedule, _advance).
THEOREM PlansFireAsConfigured == PlanSpec => PlanFiresAsConfigured
<1>1. PlanInv /\ [PlanNext]_planVars =>
        [ plan' # plan /\ ~(round.overtaken /\ ~round'.busy) =>
          /\ plan'.next # Never <=> plan'.status = "ENABLED" /\ plan'.type = "CRON"
          /\ plan'.next # Never =>
                /\ plan'.next > minute /\ AskedFor(plan'.config, plan'.next)
                /\ \A t \in (minute + 1)..(plan'.next - 1) : ~AskedFor(plan'.config, t)
        ]_planVars
  BY PlanStep DEF Planning
<1>. QED
  BY <1>1, PlanInitially, PlanStep, PTL DEF PlanSpec, PlanFiresAsConfigured

-----------------------------------------------------------------------------
(* The four and the tasks together: a step is one of one part and leaves    *)
(* the others alone, so each keeps its own invariant.                       *)

PartsInv ==
  /\ part \in {"tasks", "binding", "plan", "shards", "subject"}
  /\ OrchestrationInv /\ BindingInv /\ PlanInv /\ ShardInv /\ SubjectInv

LEMMA OfOneTaskPart ==
  [OrchestrationNext]_allVars =>
    /\ UNCHANGED part
    /\ [TaskNext]_<<vars, task>> /\ [BindingNext]_bindingVars /\ [PlanNext]_planVars
    /\ [ShardNext]_shardVars /\ [SubjectNext]_subjectVars
<1>1. ASSUME UNCHANGED allVars
      PROVE  UNCHANGED <<part, taskVars, bindingVars, planVars, shardVars, subjectVars>>
  BY <1>1 DEF allVars
<1>. QED
  BY <1>1 DEF OrchestrationNext, InTasks, InBinding, InPlan, InShards, InSubject, taskVars

\* Tasks and the four components beside them keep their types in the run they
\* share.
THEOREM OrchestrationTypeCorrect == OrchestrationSpec => []OrchestrationTypeOK
<1>1. OrchestrationInit => PartsInv
  BY InitOrchestration, ResourceInitially, PlanInitially, ShardInitially, SubjectInitially
  DEF OrchestrationInit, PartsInv
<1>2. PartsInv /\ [OrchestrationNext]_allVars => PartsInv'
  <2>. SUFFICES ASSUME PartsInv, [OrchestrationNext]_allVars PROVE PartsInv'
    OBVIOUS
  <2>1. OrchestrationInv' /\ BindingInv'
    BY OfOneTaskPart, StepOrchestration, BindingStep DEF PartsInv
  <2>2. PlanInv' /\ ShardInv' /\ SubjectInv'
    BY OfOneTaskPart, PlanStep, ShardStep, SubjectStep DEF PartsInv
  <2>. QED
    BY <2>1, <2>2, OfOneTaskPart DEF PartsInv
<1>3. PartsInv => OrchestrationTypeOK
  <2>1. OrchestrationInv => TaskTypeOK
    BY TypedImpliesTypeOK DEF OrchestrationInv, RolloutInv, TaskInv, TaskTyped, TaskRows, Contracts, TaskTypeOK
  <2>. QED
    BY <2>1, PlanIsTyped, ShardIsTyped DEF PartsInv, BindingInv, SubjectInv, OrchestrationTypeOK
<1>. QED
  BY <1>1, <1>2, <1>3, PTL DEF OrchestrationSpec

===============================================================================
