---------------------------- MODULE SessionAuth ----------------------------
(***************************************************************************)
(* The login sessions of one platform user: the rows of sys_user_session,  *)
(* the columns of sys_user that say which of them is the current one, and  *)
(* the requests that end them.                                             *)
(*                                                                         *)
(* A login locks the row of the user.  Every other request works on what   *)
(* it read when it was authenticated (MySQL repeats its reads) and writes  *)
(* the columns it changed when it commits; its UPDATE waits for the lock   *)
(* of a login but is not checked against what it read.                     *)
(*                                                                         *)
(* A wrong password changes nothing here and is left out, as is the flag   *)
(* that makes the user change the first password.                          *)
(***************************************************************************)
EXTENDS Naturals

CONSTANTS
    MaxSessions,   \* bound: logins
    MaxPasswords,  \* bound: passwords the user has had, numbered
    Requests,      \* requests in flight
    NoRequest      \* nobody holds the lock of the row

ASSUME SessionAssumption ==
    /\ MaxSessions \in Nat \ {0}
    /\ MaxPasswords \in Nat \ {0}
    /\ NoRequest \notin Requests

VARIABLES
    user,          \* sys_user
    session,       \* sys_user_session, numbered by login
    request,       \* what a request read, until it commits
    locker         \* the login that has locked the row of the user

sessionVars == <<user, session, request, locker>>

Sessions == 1..MaxSessions
NoSession == 0

\* fresh: active within session_active_minutes.  password: the one it was
\* opened with, which no column records.  REVOKED stands for LOGGED_OUT,
\* PASSWORD_CHANGED, PASSWORD_RESET, ADMIN_REVOKED and USER_DISABLED; of a
\* session that has ended nothing but the status is of interest.  crossed, for the
\* properties: its login committed during a reset that had found nobody in.
Not(status) == [status |-> status, fresh |-> FALSE, password |-> 0, crossed |-> FALSE]
NoWork   == [op |-> "NONE", current |-> NoSession, active |-> {}, fresh |-> FALSE]

\* One type invariant for the user, the sessions and the requests.
SessionTypeOK ==
    /\ user \in [status : {"ENABLED", "DISABLED"}, password : 1..MaxPasswords,
                 current : Sessions \cup {NoSession}]
    /\ session \in [Sessions -> [status   : {"ABSENT", "ACTIVE", "REPLACED", "REVOKED"},
                                 fresh    : BOOLEAN,
                                 password : 0..MaxPasswords,
                                 crossed  : BOOLEAN]]
    /\ request \in [Requests -> [op : {"NONE", "LOGIN", "LOGOUT", "CHANGE", "RESET", "REVOKE"},
                                 current : Sessions \cup {NoSession},
                                 active  : SUBSET Sessions,
                                 fresh   : BOOLEAN]]
    /\ locker \in Requests \cup {NoRequest}

SessionInit ==
    /\ user = [status |-> "ENABLED", password |-> 1, current |-> NoSession]
    /\ session = [s \in Sessions |-> Not("ABSENT")]
    /\ request = [r \in Requests |-> NoWork]
    /\ locker = NoRequest

Active == {s \in Sessions : session[s].status = "ACTIVE"}
Waking == {s \in Active : session[s].fresh}

\* Mutant: the row is read without FOR UPDATE.
UnlockedAlways == TRUE

\* by_user_name_for_update, and the UPDATEs that wait for it.
Unlocked == locker = NoRequest

\* get_current_user lets the session act.
May(s) ==
    /\ user.status = "ENABLED"
    /\ session[s].status = "ACTIVE"
    /\ user.current = s

Ends(r) == request' = [request EXCEPT ![r] = NoWork]

-----------------------------------------------------------------------------
(* create_session *)

\* Mutant: any token confirms.
NamesAny(forced) == forced # NoSession

\* The token names the session that is in use (40903).
Names(forced) == forced \in Active

\* The row is locked, the active sessions read and replaced.  Nobody sees
\* that before the commit.  forced: the session named by the token it brings;
\* 40901 answers a login without one with the token of the session in use.
LoginLocks(r, forced) ==
    /\ request[r].op = "NONE"
    /\ Unlocked /\ user.status = "ENABLED"
    /\ Waking # {} => Names(forced)
    /\ request' = [request EXCEPT ![r] =
                      [op |-> "LOGIN", current |-> forced, active |-> Active, fresh |-> Waking # {}]]
    /\ locker' = r
    /\ UNCHANGED <<user, session>>

Opened(s) ==
    /\ session[s].status = "ABSENT"
    /\ \A t \in Sessions : t < s => session[t].status # "ABSENT"

\* A reset is under way that had read no current session: it will not write
\* that column (CurrentAfter).
BlindReset == \E q \in Requests : request[q].op = "RESET" /\ request[q].current = NoSession

LoginCommits(r) ==
    /\ request[r].op = "LOGIN"
    /\ \E s \in Sessions :
         /\ Opened(s)
         /\ session' = [t \in Sessions |->
               IF t = s THEN [status |-> "ACTIVE", fresh |-> TRUE,
                                password |-> user.password, crossed |-> BlindReset]
               ELSE IF t \in request[r].active THEN Not("REPLACED")
               ELSE session[t]]
         /\ user' = [user EXCEPT !.current = s]
    /\ locker' = NoRequest
    /\ Ends(r)

-----------------------------------------------------------------------------
(* Requests that end sessions *)

\* What a request reads when it is authenticated.
Reads(r, op) ==
    /\ request[r].op = "NONE"
    /\ request' = [request EXCEPT ![r] =
                      [op |-> op, current |-> user.current, active |-> Active, fresh |-> FALSE]]
    /\ UNCHANGED <<user, session, locker>>

\* The user's own requests (delete_session, update_me_password) ...
ActsFor(r, op) == (\E s \in Sessions : May(s)) /\ Reads(r, op)

\* ... and those of an administrator.
AdminActs(r, op) == Reads(r, op)

\* _revoke_sessions: the sessions that were active when it read them.
RevokedBy(r) ==
    session' = [s \in Sessions |->
        IF s \in request[r].active THEN Not("REVOKED") ELSE session[s]]

\* Mutant: the current session is not cleared.
CurrentKept(r) == user.current

\* current_session_id = "": written only by a request that read another value.
CurrentAfter(r) == IF request[r].current = NoSession THEN user.current ELSE NoSession

\* Only the session of the request, and only while it is the current one.
LogoutCommits(r) ==
    /\ request[r].op = "LOGOUT" /\ Unlocked
    /\ session' = [session EXCEPT ![request[r].current] = Not("REVOKED")]
    /\ user' = [user EXCEPT !.current = CurrentAfter(r)]
    /\ Ends(r)
    /\ UNCHANGED locker

NewPassword == user.password + 1

ChangeCommits(r) ==
    /\ request[r].op = "CHANGE" /\ Unlocked
    /\ NewPassword <= MaxPasswords
    /\ RevokedBy(r)
    /\ user' = [user EXCEPT !.password = NewPassword, !.current = CurrentAfter(r)]
    /\ Ends(r)
    /\ UNCHANGED locker

ResetCommits(r) ==
    /\ request[r].op = "RESET" /\ Unlocked
    /\ NewPassword <= MaxPasswords
    /\ RevokedBy(r)
    /\ user' = [user EXCEPT !.password = NewPassword, !.current = CurrentAfter(r)]
    /\ Ends(r)
    /\ UNCHANGED locker

RevokeCommits(r) ==
    /\ request[r].op = "REVOKE" /\ Unlocked
    /\ RevokedBy(r)
    /\ user' = [user EXCEPT !.current = CurrentAfter(r)]
    /\ Ends(r)
    /\ UNCHANGED locker

\* update_user: the other columns of the row do not matter here.
UpdateUser ==
    /\ Unlocked
    /\ user' = [user EXCEPT !.status = IF @ = "ENABLED" THEN "DISABLED" ELSE "ENABLED"]
    /\ UNCHANGED <<session, request, locker>>

\* A request of a disabled user ends the session that it came with.
DisabledRefused(s) ==
    /\ Unlocked
    /\ user.status = "DISABLED" /\ session[s].status = "ACTIVE"
    /\ session' = [session EXCEPT ![s] = Not("REVOKED")]
    /\ UNCHANGED <<user, request, locker>>

\* touch_session, or a request marked as the user's own activity.
Touched(s) ==
    /\ Unlocked
    /\ May(s) /\ ~session[s].fresh
    /\ session' = [session EXCEPT ![s].fresh = TRUE]
    /\ UNCHANGED <<user, request, locker>>

\* session_active_minutes have passed.
Idles(s) ==
    /\ session[s].status = "ACTIVE" /\ session[s].fresh
    /\ session' = [session EXCEPT ![s].fresh = FALSE]
    /\ UNCHANGED <<user, request, locker>>

SessionNext ==
    \/ UpdateUser
    \/ \E r \in Requests :
         \/ \E forced \in {s \in Sessions : session[s].status # "ABSENT"} \cup {NoSession} : LoginLocks(r, forced)
         \/ LoginCommits(r)
         \/ ActsFor(r, "LOGOUT") \/ ActsFor(r, "CHANGE")
         \/ AdminActs(r, "RESET") \/ AdminActs(r, "REVOKE")
         \/ LogoutCommits(r) \/ ChangeCommits(r) \/ ResetCommits(r) \/ RevokeCommits(r)
    \/ \E s \in Sessions : DisabledRefused(s) \/ Touched(s) \/ Idles(s)

SessionSpec == SessionInit /\ [][SessionNext]_sessionVars

-----------------------------------------------------------------------------
(* Properties *)

\* A user has one active session at most (README.md:11), whatever logins,
\* logouts and revocations overlap (create_session); and a session opened with
\* an earlier password cannot act, even if its login ran at the same time as
\* the change or the reset (change_own_password, reset_user_password;
\* RELEASE_NOTES_1.0.2.md:16).  The exception: the login crossed a reset that
\* had found nobody logged in, and neither revoked nor cleared it.
SessionsBounded ==
    /\ \A s, t \in Active : s = t
    /\ \A s \in Sessions :
         May(s) => session[s].password = user.password \/ session[s].crossed

\* A session in use is replaced only by a login that brought the token made
\* for that very session (create_session, 40901 to 40903).
ReplacedWasAsked ==
    [][\A s \in Sessions :
          session[s].status = "ACTIVE" /\ session'[s].status = "REPLACED" =>
              \E r \in Requests :
                  /\ request[r].op = "LOGIN" /\ s \in request[r].active
                  /\ request[r].fresh => request[r].current = s]_sessionVars

=============================================================================
