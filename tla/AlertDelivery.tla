--------------------------- MODULE AlertDelivery ---------------------------
(***************************************************************************)
(* P0 alerts: raised with a fingerprint, sent by the maintenance worker in *)
(* one transaction per pass, acknowledged and resolved by people.          *)
(*                                                                         *)
(* The table has at most one row per fingerprint and status                *)
(* (uk_alert_fingerprint_status).  A commit that would make two is rolled  *)
(* back: a person gets an error, the worker, which catches nothing, dies   *)
(* and is started again by Docker.  NOTIFYING is written but overwritten   *)
(* in the same transaction; what it does is lock the row.                  *)
(***************************************************************************)
EXTENDS Naturals

CONSTANTS
    MaxAlerts,     \* bound: rows, numbered as they are created
    Fingerprints,
    People,        \* requests of people in flight
    MaxCrashes     \* bound: the worker is killed

ASSUME AlertAssumption ==
    MaxAlerts \in Nat \ {0} /\ MaxCrashes \in Nat /\ Fingerprints # {}

VARIABLES
    alert,         \* sys_alert_event
    received,      \* alerts that have reached a channel
    channel,       \* an enabled P0 channel matches
    sending,       \* the pass: the rows it has still to do, what it will write,
                   \* and whether a channel matched when it began (reads repeat)
    person,
    crashes

alertVars == <<alert, received, channel, sending, person, crashes>>

Alerts == 1..MaxAlerts
Live   == {"OPEN", "NOTIFIED", "ACKED"}
Due    == {"OPEN", "NOTIFIED"}
NoAlert == [fingerprint |-> CHOOSE f \in Fingerprints : TRUE, status |-> "ABSENT", due |-> FALSE]
NoSending == [todo |-> {}, writes |-> [a \in {} |-> "OPEN"], channel |-> TRUE]
Away     == [op |-> "NONE", on |-> 1]

\* One type invariant for the rows, the pass and the people.
AlertTypeOK ==
    /\ alert \in [Alerts -> [fingerprint : Fingerprints, due : BOOLEAN,
                             status : {"ABSENT", "SUPPRESSED", "RESOLVED"} \cup Live]]
    /\ received \subseteq Alerts
    /\ channel \in BOOLEAN
    /\ sending.todo \subseteq Alerts /\ sending.channel \in BOOLEAN
    /\ DOMAIN sending.writes \subseteq Alerts
    /\ \A a \in DOMAIN sending.writes : sending.writes[a] \in Due \cup {"SUPPRESSED"}
    /\ person \in [People -> [op : {"NONE", "ACKED", "RESOLVED"}, on : Alerts]]
    /\ crashes \in 0..MaxCrashes

AlertInit ==
    /\ alert = [a \in Alerts |-> NoAlert]
    /\ received = {}
    /\ channel = FALSE
    /\ sending = NoSending
    /\ person = [p \in People |-> Away]
    /\ crashes = 0

Exists(a) == alert[a].status # "ABSENT"
Locked(a) == a \in DOMAIN sending.writes

\* Two rows of one fingerprint would have the same status.
Clash(status) ==
    \E a, b \in Alerts :
        /\ a # b /\ alert[a].fingerprint = alert[b].fingerprint
        /\ Exists(a) /\ Exists(b) /\ status[a] = status[b]

Statuses == [a \in Alerts |-> alert[a].status]

\* raise_event: an alert of this fingerprint that is still live counts the
\* occurrence; otherwise there is a new one.
Raise(f) ==
    /\ \A a \in Alerts : Exists(a) /\ alert[a].fingerprint = f => alert[a].status \notin Live
    /\ \E a \in Alerts :
         /\ ~Exists(a) /\ \A b \in Alerts : b < a => Exists(b)
         /\ alert' = [alert EXCEPT ![a] = [fingerprint |-> f, status |-> "OPEN", due |-> TRUE]]
    /\ UNCHANGED <<received, channel, sending, person, crashes>>

-----------------------------------------------------------------------------
(* process_pending *)

Idle == sending = NoSending

PassBegins ==
    /\ Idle
    /\ \E todo \in {{a \in Alerts : alert[a].status \in Due /\ alert[a].due}} :
         /\ todo # {}
         /\ sending' = [NoSending EXCEPT !.todo = todo, !.channel = channel]
    /\ UNCHANGED <<alert, received, channel, person, crashes>>

\* The oldest row that is left.
Turn(a) == a \in sending.todo /\ \A b \in sending.todo : a <= b

Written == [a \in Alerts |-> IF Locked(a) THEN sending.writes[a] ELSE alert[a].status]

Decides(a, status) ==
    sending' = [sending EXCEPT !.todo = @ \ {a},
                               !.writes = [b \in DOMAIN @ \cup {a} |->
                                               IF b = a THEN status ELSE @[b]]]

\* No channel matches.
Suppresses(a) ==
    /\ Turn(a) /\ ~sending.channel
    /\ Decides(a, "SUPPRESSED")
    /\ UNCHANGED <<alert, received, channel, person, crashes>>

\* NOTIFYING is flushed, with what was decided before; a channel answers.
Sends(a) ==
    /\ Turn(a) /\ sending.channel /\ ~Clash(Written)
    /\ received' = received \cup {a}
    /\ Decides(a, "NOTIFIED")
    /\ UNCHANGED <<alert, channel, person, crashes>>

\* Mutant: an alert that no channel took is put away.
FailedAs(a) == "SUPPRESSED"

\* Every channel has failed: again in five minutes.
Failed(a) == "OPEN"

SendFails(a) ==
    /\ Turn(a) /\ sending.channel /\ ~Clash(Written)
    /\ Decides(a, Failed(a))
    /\ UNCHANGED <<alert, received, channel, person, crashes>>

\* One commit for the whole pass.
AlertsCommit ==
    /\ ~Idle /\ sending.todo = {} /\ ~Clash(Written)
    /\ alert' = [a \in Alerts |->
          IF Locked(a) THEN [alert[a] EXCEPT !.status = Written[a], !.due = FALSE] ELSE alert[a]]
    /\ sending' = NoSending
    /\ UNCHANGED <<received, channel, person, crashes>>

\* A flush or the commit is refused: everything is rolled back and the
\* worker begins again.
PassBreaks ==
    /\ ~Idle /\ Clash(Written)
    /\ sending' = NoSending
    /\ UNCHANGED <<alert, received, channel, person, crashes>>

\* The worker is killed in the middle of a pass.
WorkerCrashes ==
    /\ ~Idle /\ crashes < MaxCrashes
    /\ crashes' = crashes + 1
    /\ sending' = NoSending
    /\ UNCHANGED <<alert, received, channel, person>>

WorkerSteps(a) == PassBegins \/ Suppresses(a) \/ Sends(a) \/ SendFails(a) \/ AlertsCommit \/ PassBreaks

\* The cooldown of a channel, or the five minutes, have passed.
ComesDue(a) ==
    /\ alert[a].status \in Due /\ ~alert[a].due
    /\ alert' = [alert EXCEPT ![a].due = TRUE]
    /\ UNCHANGED <<received, channel, sending, person, crashes>>

-----------------------------------------------------------------------------
(* People *)

Opens(p, op, a) ==
    /\ person[p].op = "NONE"
    /\ person' = [person EXCEPT ![p] = [op |-> op, on |-> a]]
    /\ UNCHANGED <<alert, received, channel, sending, crashes>>

\* ack_event: only an open or notified alert; resolve_event: any.
AckReads(p, a) == alert[a].status \in Due /\ Opens(p, "ACKED", a)
ResolveReads(p, a) == Exists(a) /\ Opens(p, "RESOLVED", a)

\* The UPDATE waits for a row that the worker has locked, then overwrites it.
PersonCommits(p) ==
    LET status == [Statuses EXCEPT ![person[p].on] = person[p].op] IN
    /\ person[p].op # "NONE" /\ ~Locked(person[p].on)
    /\ alert' = IF Clash(status) THEN alert
                ELSE [alert EXCEPT ![person[p].on].status = person[p].op, ![person[p].on].due = FALSE]
    /\ person' = [person EXCEPT ![p] = Away]
    /\ UNCHANGED <<received, channel, sending, crashes>>

\* create_channel, update_channel.
ChannelChanges ==
    /\ channel' = ~channel
    /\ UNCHANGED <<alert, received, sending, person, crashes>>

AlertNext ==
    \/ \E f \in Fingerprints : Raise(f)
    \/ \E a \in Alerts : WorkerSteps(a) \/ ComesDue(a)
    \/ WorkerCrashes
    \/ \E p \in People, a \in Alerts : AckReads(p, a) \/ ResolveReads(p, a)
    \/ \E p \in People : PersonCommits(p)
    \/ ChannelChanges

-----------------------------------------------------------------------------
(* Fairness: the worker goes on, time passes, and a channel that is tried   *)
(* for ever works once.                                                     *)

AlertSpec ==
    /\ AlertInit /\ [][AlertNext]_alertVars
    /\ WF_alertVars(\E a \in Alerts : WorkerSteps(a))
    /\ \A a \in Alerts : WF_alertVars(ComesDue(a)) /\ SF_alertVars(Sends(a))

\* The fingerprint of others has come back after its alert was closed.
RecursBeside(a) ==
    \E b, c \in Alerts \ {a} :
        b # c /\ Exists(b) /\ Exists(c) /\ alert[b].fingerprint = alert[c].fingerprint

\* An open alert reaches a channel or a person takes it, whatever crashes
\* and failed sends come between, as long as a channel is enabled and no
\* other fingerprint has come back: the rows of one that has can make every
\* pass fail before it gets here (process_pending, ack_event, resolve_event).
\* It does not leave the queue otherwise: a pass that has a channel puts no
\* alert away.
AlertReaches ==
    /\ [][\A a \in Alerts : alert[a].status = "OPEN" /\ sending.channel =>
              alert'[a].status # "SUPPRESSED"]_alertVars
    /\ \A a \in Alerts : []<>(alert[a].status = "OPEN" /\ channel =>
                                  a \in received \/ RecursBeside(a))

=============================================================================
