----------------------------- MODULE MCConsole -----------------------------
(***************************************************************************)
(* One run for five components that share no state: the build center, the  *)
(* login sessions, the alerts, the health of a node and the reports of an  *)
(* execution.  A behaviour belongs to one of them, its part, and leaves    *)
(* the others in their initial state, so that the states are the sum and   *)
(* not the product of those of the components; each is explored in full.   *)
(* The fairness of a component is stated for the behaviours of its part.   *)
(***************************************************************************)
EXTENDS BuildCenter, SessionAuth, AlertDelivery, NodeHealth, RunReports

VARIABLE part

consoleVars == <<part, buildVars, sessionVars, alertVars, healthVars, reportVars>>

\* The steps of one part.
InBuild   == part = "build"   /\ UNCHANGED <<part, sessionVars, alertVars, healthVars, reportVars>>
InSession == part = "session" /\ UNCHANGED <<part, buildVars, alertVars, healthVars, reportVars>>
InAlert   == part = "alert"   /\ UNCHANGED <<part, buildVars, sessionVars, healthVars, reportVars>>
InHealth  == part = "health"  /\ UNCHANGED <<part, buildVars, sessionVars, alertVars, reportVars>>
InReport  == part = "report"  /\ UNCHANGED <<part, buildVars, sessionVars, alertVars, healthVars>>

ConsoleInit ==
    /\ part \in {"build", "session", "alert", "health", "report"}
    /\ BuildInit /\ SessionInit /\ AlertInit /\ HealthInit /\ ReportInit

\* Bound: the tag does not go back to an image older than the one it names.
TagGrows == tag' \in {tag, tag + 1}

ConsoleNext ==
    \/ InBuild   /\ BuildNext /\ TagGrows
    \/ InSession /\ SessionNext
    \/ InAlert   /\ AlertNext
    \/ InHealth  /\ HealthNext
    \/ InReport  /\ ReportNext

\* A condition may speak of several parts, because a behaviour stays in one;
\* the numbers are those of the jobs, their threads and the alerts.
ConsoleSpec ==
    /\ ConsoleInit /\ [][ConsoleNext]_consoleVars
    /\ \A n \in Jobs :
         /\ WF_consoleVars((InBuild /\ BuilderSteps(n)) \/ (InAlert /\ ComesDue(n)))
         /\ WF_consoleVars((InBuild /\ Polled(n)) \/ (InHealth /\ NodeBeats))
         /\ SF_consoleVars((InAlert /\ Sends(n)) \/ (InReport /\ FlushDelivers))
    /\ WF_consoleVars(\/ InAlert /\ \E a \in Alerts : WorkerSteps(a)
                      \/ InHealth /\ (PassReads \/ PassCommits))

\* The type invariants of the five components; the others are as they began.
ConsoleTypeOK ==
    CASE part = "build"   -> BuildTypeOK
      [] part = "session" -> SessionTypeOK
      [] part = "alert"   -> AlertTypeOK
      [] part = "health"  -> HealthTypeOK
      [] part = "report"  -> ReportTypeOK

=============================================================================
