------------------------------ MODULE RunPromise ------------------------------
(***************************************************************************)
(* What the platform promises to whoever starts a run, whatever handler    *)
(* moves it: runs are created one at a time in the order of their ids, a   *)
(* queued run is handed to one Agent, once, in a step of its own, a run    *)
(* asked to stop can no longer succeed, and the outcome of a run is final. *)
(* One step may end many runs (an Agent restarts, a trigger cancels the    *)
(* old runs) and create one (the trigger's run, a retry).                  *)
(***************************************************************************)
EXTENDS Naturals

CONSTANTS RunCount, Agents, None

VARIABLES phase, holder

promiseVars == <<phase, holder>>

Runs == 1..RunCount

Outcomes == {"SUCCEEDED", "PARTIAL_SUCCESS", "SKIPPED", "FAILED", "CANCELLED",
             "TIMED_OUT", "LOST"}

Phases == {"none", "queued", "taken", "stopping"} \cup Outcomes

\* The phases a run may go to without being created or handed out.
Ends ==
  [p \in Phases |->
     CASE p = "queued"   -> {"CANCELLED", "FAILED"}
       [] p = "taken"    -> {"stopping", "SUCCEEDED", "FAILED", "TIMED_OUT", "LOST"}
       [] p = "stopping" -> {"CANCELLED", "FAILED", "TIMED_OUT", "LOST"}
       [] OTHER          -> {}]

Init ==
  /\ phase = [r \in Runs |-> "none"]
  /\ holder = [r \in Runs |-> None]

IsNext(r) == phase[r] = "none" /\ \A q \in Runs : q < r => phase[q] # "none"

Settle ==
  /\ phase' \in [Runs -> Phases]
  /\ \A r \in Runs : \/ phase'[r] = phase[r]
                     \/ phase'[r] \in Ends[phase[r]]
                     \/ IsNext(r) /\ phase'[r] \in {"queued", "SKIPPED"}
  /\ UNCHANGED holder

HandOut(r, a) ==
  /\ phase[r] = "queued" /\ holder[r] = None
  /\ phase' = [phase EXCEPT ![r] = "taken"]
  /\ holder' = [holder EXCEPT ![r] = a]

Next == Settle \/ \E r \in Runs, a \in Agents : HandOut(r, a)

Spec == Init /\ [][Next]_promiseVars
===============================================================================
