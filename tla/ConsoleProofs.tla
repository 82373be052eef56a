----------------------------- MODULE ConsoleProofs -----------------------------
(***************************************************************************)
(* What holds of the sessions of a user, the reports of an execution, the  *)
(* alerts and the health of a node, and of the run that puts them together *)
(* with the build center, for every value of their parameters.             *)
(***************************************************************************)
EXTENDS MCConsole, BuildCenterProofs

-----------------------------------------------------------------------------
(* Sessions: types *)

Users == [status : {"ENABLED", "DISABLED"}, password : 1..MaxPasswords,
          current : Sessions \cup {NoSession}]
SessionRows == [status   : {"ABSENT", "ACTIVE", "REPLACED", "REVOKED"},
                fresh    : BOOLEAN,
                password : 0..MaxPasswords,
                crossed  : BOOLEAN]
Work == [op : {"NONE", "LOGIN", "LOGOUT", "CHANGE", "RESET", "REVOKE"},
         current : Sessions \cup {NoSession},
         active  : SUBSET Sessions,
         fresh   : BOOLEAN]

LEMMA StartingSessions ==
  /\ 1 \in 1..MaxPasswords
  /\ NoWork \in Work
  /\ \A st \in {"ABSENT", "REPLACED", "REVOKED"} : Not(st) \in SessionRows
<1>1. 1 \in 1..MaxPasswords /\ 0 \in 0..MaxPasswords
  BY SessionAssumption
<1>. QED
  BY <1>1 DEF NoWork, Work, Not, SessionRows

LEMMA EndsKeepsType ==
  ASSUME SessionTypeOK, NEW r \in Requests, Ends(r)
  PROVE  request' \in [Requests -> Work]
BY StartingSessions DEF SessionTypeOK, Ends, Work

LEMMA ReadsKeepsType ==
  ASSUME SessionTypeOK, NEW r \in Requests,
         NEW op \in {"LOGOUT", "CHANGE", "RESET", "REVOKE"}, Reads(r, op)
  PROVE  SessionTypeOK'
<1>1. request' \in [Requests -> Work]
  BY DEF SessionTypeOK, Reads, Work, Active
<1>. QED
  BY <1>1 DEF SessionTypeOK, Reads, Work

LEMMA RevokedKeepsType ==
  ASSUME SessionTypeOK, NEW r \in Requests, RevokedBy(r)
  PROVE  session' \in [Sessions -> SessionRows]
BY StartingSessions DEF SessionTypeOK, RevokedBy, SessionRows

LEMMA CurrentAfterType ==
  ASSUME SessionTypeOK, NEW r \in Requests
  PROVE  CurrentAfter(r) \in Sessions \cup {NoSession}
BY DEF SessionTypeOK, CurrentAfter

LEMMA PasswordsAreNumbers ==
  ASSUME SessionTypeOK
  PROVE  /\ user.password \in 1..MaxPasswords
         /\ NewPassword <= MaxPasswords => NewPassword \in 1..MaxPasswords
         /\ user.password < NewPassword
<1>1. user.password \in 1..MaxPasswords
  BY DEF SessionTypeOK
<1>. QED
  BY <1>1, SessionAssumption DEF NewPassword

LEMMA SessionTypeInitially == SessionInit => SessionTypeOK
<1>1. NoSession \in Sessions \cup {NoSession}
  OBVIOUS
<1>. QED
  BY <1>1, StartingSessions DEF SessionInit, SessionTypeOK, SessionRows, Work

LEMMA SessionTypeStep == SessionTypeOK /\ [SessionNext]_sessionVars => SessionTypeOK'
<1>. SUFFICES ASSUME SessionTypeOK, [SessionNext]_sessionVars
              PROVE  SessionTypeOK'
  OBVIOUS
<1>. USE DEF Users, SessionRows, Work
<1>1. CASE UNCHANGED sessionVars
  BY <1>1 DEF sessionVars, SessionTypeOK
<1>2. CASE UpdateUser
  BY <1>2 DEF UpdateUser, SessionTypeOK
<1>3. ASSUME NEW r \in Requests, NEW forced \in Sessions \cup {NoSession}, LoginLocks(r, forced)
      PROVE  SessionTypeOK'
  BY <1>3 DEF LoginLocks, SessionTypeOK, Active
<1>4. ASSUME NEW r \in Requests, LoginCommits(r)
      PROVE  SessionTypeOK'
  <2>1. PICK s \in Sessions :
          /\ session' = [t \in Sessions |->
               IF t = s THEN [status |-> "ACTIVE", fresh |-> TRUE,
                              password |-> user.password, crossed |-> BlindReset]
               ELSE IF t \in request[r].active THEN Not("REPLACED")
               ELSE session[t]]
          /\ user' = [user EXCEPT !.current = s]
    BY <1>4 DEF LoginCommits
  <2>2. user.password \in 0..MaxPasswords
    BY PasswordsAreNumbers, SessionAssumption
  <2>2a. [status |-> "ACTIVE", fresh |-> TRUE,
          password |-> user.password, crossed |-> BlindReset] \in SessionRows
    BY <2>2 DEF BlindReset
  <2>3. session' \in [Sessions -> SessionRows]
    BY <2>1, <2>2a, StartingSessions DEF SessionTypeOK
  <2>. QED
    BY <1>4, <2>1, <2>3, EndsKeepsType DEF LoginCommits, SessionTypeOK
<1>5. ASSUME NEW r \in Requests, NEW op \in {"LOGOUT", "CHANGE", "RESET", "REVOKE"}, Reads(r, op)
      PROVE  SessionTypeOK'
  BY <1>5, ReadsKeepsType
<1>6. ASSUME NEW r \in Requests, LogoutCommits(r)
      PROVE  SessionTypeOK'
  <2>1. session' \in [Sessions -> SessionRows]
    BY <1>6, StartingSessions DEF LogoutCommits, SessionTypeOK
  <2>. QED
    BY <1>6, <2>1, EndsKeepsType, CurrentAfterType DEF LogoutCommits, SessionTypeOK
<1>7. ASSUME NEW r \in Requests, ChangeCommits(r) \/ ResetCommits(r) \/ RevokeCommits(r)
      PROVE  SessionTypeOK'
  <2>1. CurrentAfter(r) \in Sessions \cup {NoSession}
    BY CurrentAfterType
  <2>2. CASE RevokeCommits(r)
    <3>1. user' \in Users
      BY <2>1, <2>2 DEF RevokeCommits, SessionTypeOK
    <3>. QED
      BY <2>2, <3>1, EndsKeepsType, RevokedKeepsType DEF RevokeCommits, SessionTypeOK
  <2>. SUFFICES ASSUME ChangeCommits(r) \/ ResetCommits(r)
                PROVE  SessionTypeOK'
    BY <1>7, <2>2
  <2>3. NewPassword \in 1..MaxPasswords
    BY PasswordsAreNumbers DEF ChangeCommits, ResetCommits
  <2>4. user' \in Users
    BY <2>1, <2>3 DEF ChangeCommits, ResetCommits, SessionTypeOK
  <2>. QED
    BY <2>4, EndsKeepsType, RevokedKeepsType DEF ChangeCommits, ResetCommits, SessionTypeOK
<1>8. ASSUME NEW s \in Sessions, DisabledRefused(s) \/ Touched(s) \/ Idles(s)
      PROVE  SessionTypeOK'
  <2>1. session' \in [Sessions -> SessionRows]
    <3>1. CASE DisabledRefused(s)
      BY <3>1, StartingSessions DEF DisabledRefused, SessionTypeOK
    <3>2. ASSUME NEW awake \in BOOLEAN, session' = [session EXCEPT ![s].fresh = awake]
          PROVE  session' \in [Sessions -> SessionRows]
      <4>1. [session[s] EXCEPT !.fresh = awake] \in SessionRows
        BY DEF SessionTypeOK
      <4>. QED
        BY <3>2, <4>1 DEF SessionTypeOK
    <3>. QED
      BY <1>8, <3>1, <3>2 DEF Touched, Idles
  <2>. QED
    BY <1>8, <2>1 DEF DisabledRefused, Touched, Idles, SessionTypeOK
<1>. QED
  BY <1>1, <1>2, <1>3, <1>4, <1>5, <1>6, <1>7, <1>8 DEF SessionNext, ActsFor, AdminActs

\* The row of the user, the sessions and the requests keep their types.
THEOREM SessionTypeCorrect == SessionSpec => []SessionTypeOK
BY SessionTypeInitially, SessionTypeStep, PTL DEF SessionSpec

-----------------------------------------------------------------------------
(* Sessions: one is active, and none older than the user's password.  Only *)
(* the login that holds the lock changes which sessions are active to more *)
(* than it read, so what it replaces is all that is active; a change of    *)
(* the password came from a session that was the current one, and          *)
(* therefore clears it; a reset that had read a current session clears it  *)
(* too, and one that had not has crossed the login of the current session. *)

LockerLogsIn == \A r \in Requests : request[r].op = "LOGIN" <=> locker = r

LoginReadActive ==
  \A r \in Requests : locker = r =>
    /\ Active \subseteq request[r].active
    /\ request[r].fresh => request[r].current \in Active

OwnChange == \A r \in Requests : request[r].op = "CHANGE" => request[r].current # NoSession

CurrentIsRecent ==
  \A s \in Sessions :
    user.current = s /\ session[s].status = "ACTIVE" =>
      /\ session[s].password = user.password \/ session[s].crossed
      /\ BlindReset => session[s].crossed

OneActive == \A s, t \in Active : s = t

SessionInv == LockerLogsIn /\ LoginReadActive /\ OwnChange /\ CurrentIsRecent /\ OneActive

\* Steps that open no session: those active before include those after,
\* which keep the password they were opened with.
NoneOpened ==
  \A s \in Sessions : session'[s].status = "ACTIVE" =>
    /\ session[s].status = "ACTIVE" /\ session'[s].password = session[s].password
    /\ session'[s].crossed = session[s].crossed

LEMMA EndedOpensNone ==
  ASSUME SessionTypeOK, NEW r \in Requests, RevokedBy(r)
  PROVE  NoneOpened
BY DEF SessionTypeOK, RevokedBy, NoneOpened, Not

\* A step of a request that does not log in, while the row is not locked.
LEMMA UnlockedStep ==
  ASSUME SessionTypeOK, SessionInv, NEW r \in Requests, request[r].op # "LOGIN",
         Unlocked, UNCHANGED locker, NoneOpened, Ends(r)
  PROVE  LockerLogsIn' /\ LoginReadActive' /\ OwnChange' /\ OneActive'
<1>1. locker' = NoRequest
  BY DEF Unlocked
<1>2. request' = [request EXCEPT ![r] = NoWork] /\ NoWork.op = "NONE"
  BY DEF Ends, NoWork
<1>3. LockerLogsIn' /\ LoginReadActive' /\ OwnChange'
  BY <1>1, <1>2, SessionAssumption
  DEF SessionInv, LockerLogsIn, LoginReadActive, OwnChange, SessionTypeOK, Unlocked
<1>4. OneActive'
  BY DEF NoneOpened, OneActive, Active, SessionInv
<1>. QED
  BY <1>3, <1>4

LEMMA LoginLocksKeepsInv ==
  ASSUME SessionTypeOK, SessionInv, NEW r \in Requests,
         NEW forced \in Sessions \cup {NoSession}, LoginLocks(r, forced)
  PROVE  SessionInv'
<1>1. request' = [request EXCEPT ![r] =
         [op |-> "LOGIN", current |-> forced, active |-> Active, fresh |-> Waking # {}]]
  BY DEF LoginLocks
<1>2. locker = NoRequest /\ locker' = r /\ UNCHANGED <<user, session>>
  BY DEF LoginLocks, Unlocked
<1>3. LockerLogsIn'
  BY <1>1, <1>2, SessionAssumption DEF SessionInv, LockerLogsIn, SessionTypeOK
<1>4. LoginReadActive'
  <2>1. Waking # {} => forced \in Active
    BY DEF LoginLocks, Names
  <2>2. Active' = Active
    BY <1>2 DEF Active
  <2>. QED
    BY <1>1, <1>2, <2>1, <2>2 DEF LoginReadActive, SessionTypeOK
<1>5. OwnChange'
  BY <1>1 DEF SessionInv, OwnChange, SessionTypeOK
<1>6. BlindReset' => BlindReset
  BY <1>1 DEF BlindReset, SessionTypeOK
<1>. QED
  BY <1>2, <1>3, <1>4, <1>5, <1>6 DEF SessionInv, CurrentIsRecent, OneActive, Active

LEMMA LoginCommitsKeepsInv ==
  ASSUME SessionTypeOK, SessionInv, NEW r \in Requests, LoginCommits(r)
  PROVE  SessionInv'
<1>1. PICK s \in Sessions :
        /\ session' = [t \in Sessions |->
             IF t = s THEN [status |-> "ACTIVE", fresh |-> TRUE,
                              password |-> user.password, crossed |-> BlindReset]
             ELSE IF t \in request[r].active THEN Not("REPLACED")
             ELSE session[t]]
        /\ user' = [user EXCEPT !.current = s]
  BY DEF LoginCommits
<1>2. request' = [request EXCEPT ![r] = NoWork] /\ NoWork.op = "NONE" /\ locker' = NoRequest
  BY DEF LoginCommits, Ends, NoWork
<1>3. locker = r /\ Active \subseteq request[r].active
  BY DEF LoginCommits, SessionInv, LockerLogsIn, LoginReadActive
<1>4. LockerLogsIn' /\ LoginReadActive' /\ OwnChange'
  BY <1>2, <1>3, SessionAssumption
  DEF SessionInv, LockerLogsIn, LoginReadActive, OwnChange, SessionTypeOK
<1>5. \A t \in Sessions : session'[t].status = "ACTIVE" => t = s
  BY <1>1, <1>3 DEF Active, Not
<1>6. BlindReset' => BlindReset
  BY <1>2 DEF BlindReset, SessionTypeOK
<1>7. CurrentIsRecent'
  <2>1. session'[s].password = user'.password /\ session'[s].crossed = BlindReset
    BY <1>1 DEF SessionTypeOK
  <2>. QED
    BY <1>5, <1>6, <2>1 DEF CurrentIsRecent
<1>. QED
  BY <1>4, <1>5, <1>7 DEF SessionInv, OneActive, Active

LEMMA ReadsKeepsInv ==
  ASSUME SessionTypeOK, SessionInv, NEW r \in Requests,
         NEW op \in {"LOGOUT", "CHANGE", "RESET", "REVOKE"}, Reads(r, op),
         op = "CHANGE" => \E s \in Sessions : May(s)
  PROVE  SessionInv'
<1>1. request' = [request EXCEPT ![r] =
         [op |-> op, current |-> user.current, active |-> Active, fresh |-> FALSE]]
  BY DEF Reads
<1>2. request[r].op = "NONE" /\ UNCHANGED <<user, session, locker>>
  BY DEF Reads
<1>3. LockerLogsIn'
  BY <1>1, <1>2 DEF SessionInv, LockerLogsIn, SessionTypeOK
<1>4. LoginReadActive'
  BY <1>1, <1>2 DEF SessionInv, LockerLogsIn, LoginReadActive, Active, SessionTypeOK
<1>5. OwnChange'
  <2>1. op = "CHANGE" => user.current # NoSession
    BY DEF May, Sessions, NoSession
  <2>. QED
    BY <1>1, <2>1 DEF SessionInv, OwnChange, SessionTypeOK
<1>6. CurrentIsRecent'
  <2>1. BlindReset' => BlindReset \/ user.current = NoSession
    BY <1>1 DEF BlindReset, SessionTypeOK
  <2>2. NoSession \notin Sessions
    BY DEF NoSession, Sessions
  <2>. QED
    BY <1>2, <2>1, <2>2 DEF SessionInv, CurrentIsRecent
<1>. QED
  BY <1>2, <1>3, <1>4, <1>5, <1>6 DEF SessionInv, OneActive, Active

LEMMA RevokingKeepsInv ==
  ASSUME SessionTypeOK, SessionInv, NEW r \in Requests,
         LogoutCommits(r) \/ ChangeCommits(r) \/ ResetCommits(r) \/ RevokeCommits(r)
  PROVE  SessionInv'
<1>1. NoneOpened
  <2>1. CASE LogoutCommits(r)
    BY <2>1 DEF LogoutCommits, NoneOpened, SessionTypeOK, Not
  <2>. QED
    BY <2>1, EndedOpensNone DEF ChangeCommits, ResetCommits, RevokeCommits
<1>2. LockerLogsIn' /\ LoginReadActive' /\ OwnChange' /\ OneActive'
  BY <1>1, UnlockedStep DEF LogoutCommits, ChangeCommits, ResetCommits, RevokeCommits
<1>3. CurrentIsRecent'
  <2>1. NoSession \notin Sessions
    BY DEF NoSession, Sessions
  <2>2. BlindReset' => BlindReset
    BY DEF BlindReset, LogoutCommits, ChangeCommits, ResetCommits, RevokeCommits, Ends, NoWork,
           SessionTypeOK
  <2>3. CASE user'.current = NoSession
    BY <2>1, <2>3 DEF CurrentIsRecent
  <2>4. ASSUME NEW s \in Sessions, user'.current = s, session'[s].status = "ACTIVE"
        PROVE  /\ session'[s].password = user'.password \/ session'[s].crossed
               /\ BlindReset' => session'[s].crossed
    <3>1. request[r].current = NoSession /\ user.current = s
      BY <2>1, <2>4 DEF LogoutCommits, ChangeCommits, ResetCommits, RevokeCommits, CurrentAfter,
                        SessionTypeOK
    <3>2. ~ChangeCommits(r)
      BY <3>1 DEF ChangeCommits, SessionInv, OwnChange
    <3>3. ResetCommits(r) => BlindReset
      BY <3>1 DEF ResetCommits, BlindReset
    <3>4. ~ResetCommits(r) => user'.password = user.password
      BY <3>2 DEF LogoutCommits, RevokeCommits, SessionTypeOK
    <3>. QED
      BY <1>1, <2>2, <2>4, <3>1, <3>3, <3>4 DEF NoneOpened, SessionInv, CurrentIsRecent
  <2>. QED
    BY <2>4 DEF CurrentIsRecent
<1>. QED
  BY <1>2, <1>3 DEF SessionInv

LEMMA RowKeepsInv ==
  ASSUME SessionTypeOK, SessionInv, NEW s \in Sessions,
         UpdateUser \/ DisabledRefused(s) \/ Touched(s) \/ Idles(s)
  PROVE  SessionInv'
<1>1. UNCHANGED <<request, locker, user.current, user.password>>
  BY DEF UpdateUser, DisabledRefused, Touched, Idles, SessionTypeOK
<1>2. NoneOpened
  BY DEF UpdateUser, DisabledRefused, Touched, Idles, SessionTypeOK, NoneOpened, Not
<1>3. locker = NoRequest \/ Active' = Active
  <2>1. CASE Idles(s)
    BY <2>1 DEF Idles, Active, SessionTypeOK
  <2>2. CASE UpdateUser \/ DisabledRefused(s) \/ Touched(s)
    BY <2>2 DEF UpdateUser, DisabledRefused, Touched, Unlocked
  <2>. QED
    BY <2>1, <2>2
<1>4. LoginReadActive'
  BY <1>1, <1>3, SessionAssumption DEF SessionInv, LoginReadActive
<1>5. CurrentIsRecent'
  BY <1>1, <1>2 DEF SessionInv, CurrentIsRecent, NoneOpened, BlindReset
<1>. QED
  BY <1>1, <1>2, <1>4, <1>5 DEF SessionInv, LockerLogsIn, OwnChange, OneActive, Active, NoneOpened

LEMMA SessionInvariant == SessionSpec => []SessionInv
<1>1. SessionInit => SessionInv
  BY SessionAssumption
  DEF SessionInit, SessionInv, LockerLogsIn, LoginReadActive, OwnChange, CurrentIsRecent,
      OneActive, Active, Not, NoWork, BlindReset
<1>2. SessionTypeOK /\ SessionInv /\ [SessionNext]_sessionVars => SessionInv'
  <2>. SUFFICES ASSUME SessionTypeOK, SessionInv, [SessionNext]_sessionVars
                PROVE  SessionInv'
    OBVIOUS
  <2>1. CASE UNCHANGED sessionVars
    BY <2>1
    DEF sessionVars, SessionInv, LockerLogsIn, LoginReadActive, OwnChange, CurrentIsRecent,
        OneActive, Active, BlindReset
  <2>2. CASE UpdateUser
    <3>1. 1 \in Sessions
      BY SessionAssumption DEF Sessions
    <3>. QED
      BY <2>2, <3>1, RowKeepsInv
  <2>. QED
    BY <2>1, <2>2, LoginLocksKeepsInv, LoginCommitsKeepsInv, ReadsKeepsInv, RevokingKeepsInv,
       RowKeepsInv
    DEF SessionNext, ActsFor, AdminActs
<1>. QED
  BY <1>1, <1>2, SessionTypeCorrect, PTL DEF SessionSpec

\* A user has one active session at most, and no session opened with an
\* earlier password can act (create_session, change_own_password,
\* reset_user_password), whatever requests overlap, unless its login crossed a
\* reset that had found nobody logged in.
THEOREM SessionsAreBounded == SessionSpec => []SessionsBounded
<1>1. SessionInv => SessionsBounded
  BY DEF SessionInv, OneActive, CurrentIsRecent, SessionsBounded, May
<1>. QED
  BY <1>1, SessionInvariant, PTL

\* A session in use is replaced only by a login that brought the token made
\* for that very session (create_session).
THEOREM SessionsReplacedWhenAsked == SessionSpec => ReplacedWasAsked
<1>. DEFINE Asked ==
       \A s \in Sessions :
          session[s].status = "ACTIVE" /\ session'[s].status = "REPLACED" =>
              \E r \in Requests :
                  /\ request[r].op = "LOGIN" /\ s \in request[r].active
                  /\ request[r].fresh => request[r].current = s
<1>1. SessionTypeOK /\ SessionInv /\ [SessionNext]_sessionVars => [Asked]_sessionVars
  <2>. SUFFICES ASSUME SessionTypeOK, SessionInv, SessionNext,
                       NEW s \in Sessions, session[s].status = "ACTIVE",
                       session'[s].status = "REPLACED"
                PROVE  \E r \in Requests :
                          /\ request[r].op = "LOGIN" /\ s \in request[r].active
                          /\ request[r].fresh => request[r].current = s
    OBVIOUS
  <2>1. ASSUME NEW r \in Requests, LoginCommits(r)
        PROVE  /\ request[r].op = "LOGIN" /\ s \in request[r].active
               /\ request[r].fresh => request[r].current = s
    <3>1. locker = r /\ request[r].op = "LOGIN"
      BY <2>1 DEF LoginCommits, SessionInv, LockerLogsIn
    <3>2. s \in Active
      BY DEF Active
    <3>. QED
      BY <3>1, <3>2 DEF SessionInv, LoginReadActive, OneActive
  <2>2. ASSUME NEW r \in Requests, RevokedBy(r)
        PROVE  FALSE
    BY <2>2 DEF RevokedBy, Not
  <2>3. ASSUME NEW r \in Requests, LogoutCommits(r)
        PROVE  FALSE
    BY <2>3 DEF LogoutCommits, Not, SessionTypeOK
  <2>4. ASSUME NEW t \in Sessions, DisabledRefused(t) \/ Touched(t) \/ Idles(t)
        PROVE  FALSE
    BY <2>4 DEF DisabledRefused, Touched, Idles, Not, SessionTypeOK
  <2>5. CASE UNCHANGED session
    BY <2>5
  <2>. QED
    BY <2>1, <2>2, <2>3, <2>4, <2>5
    DEF SessionNext, UpdateUser, LoginLocks, ActsFor, AdminActs, Reads, ChangeCommits,
        ResetCommits, RevokeCommits
<1>. QED
  BY <1>1, SessionTypeCorrect, SessionInvariant, PTL DEF SessionSpec, ReplacedWasAsked

-----------------------------------------------------------------------------
(* The reports of an execution *)

Steps   == {"START", "EXITED", "TIMED_OUT", "RAISED", "GONE"}
Letters == [kind : Kinds, verdict : Verdicts \cup {"NONE"}]
Stored  == [chunks : SUBSET {"CHUNK", "ERROR_CHUNK"},
            log    : {"PENDING", "UPLOADING", "COMPLETE", "FAILED"},
            status : {"ACTIVE", "LOST"} \cup Verdicts,
            result : Verdicts \cup {"NONE"}]

\* What may be done at a step of a course, and what may follow it.
LEMMA CourseSteps ==
  ASSUME NEW w \in DOMAIN Course, NEW i \in 1..Len(Course[w])
  PROVE  /\ w \in Steps /\ Course[w][i] \in Kinds \cup {"PULL", "BEAT", "RUN", "WAIT", "CLEAN", "NOTHING"}
         /\ Course[w][i] \in Kinds \cup {"PULL", "BEAT", "RUN"} =>
               w # "GONE" /\ i + 1 \in 1..Len(Course[w])
         /\ Course[w][i] \in {"PULL", "BEAT", "RUN", "WAIT"} => w = "START"
         /\ Course[w][i] = "RESULT" => w # "START"
<1>1. w \in Steps
  BY DEF Course, Steps
<1>2. CASE w = "START"
  <2>1. Course[w] = <<"EVENT", "PULL", "BEAT", "EVENT", "RUN", "EVENT", "SNAPSHOT", "BEAT", "WAIT">>
    BY <1>2 DEF Course
  <2>. QED
    BY <1>2, <2>1 DEF Kinds, Steps
<1>3. CASE w = "EXITED"
  <2>1. Course[w] = <<"CHUNK", "SNAPSHOT", "FINAL", "EVENT", "RESULT", "CLEAN">>
    BY <1>3 DEF Course
  <2>. QED
    BY <1>3, <2>1 DEF Kinds, Steps
<1>4. CASE w = "TIMED_OUT"
  <2>1. Course[w] = <<"CHUNK", "FINAL", "EVENT", "SNAPSHOT", "RESULT", "CLEAN">>
    BY <1>4 DEF Course
  <2>. QED
    BY <1>4, <2>1 DEF Kinds, Steps
<1>5. CASE w = "RAISED"
  <2>1. Course[w] = <<"EVENT", "ERROR_CHUNK", "FINAL", "RESULT", "CLEAN">>
    BY <1>5 DEF Course
  <2>. QED
    BY <1>5, <2>1 DEF Kinds, Steps
<1>6. CASE w = "GONE"
  <2>1. Course[w] = <<"NOTHING">>
    BY <1>6 DEF Course
  <2>. QED
    BY <1>6, <2>1 DEF Kinds, Steps
<1>. QED
  BY <1>1, <1>2, <1>3, <1>4, <1>5, <1>6 DEF Steps

LEMMA CourseBegins == \A w \in Steps : w \in DOMAIN Course /\ 1 \in 1..Len(Course[w])
<1>1. \A w \in Steps : w \in DOMAIN Course
  BY DEF Course, Steps
<1>2. Len(Course["START"]) = 9 /\ Len(Course["EXITED"]) = 6 /\ Len(Course["TIMED_OUT"]) = 6
      /\ Len(Course["RAISED"]) = 5 /\ Len(Course["GONE"]) = 1
  BY DEF Course
<1>3. /\ 1 \in 1..Len(Course["START"]) /\ 1 \in 1..Len(Course["EXITED"])
      /\ 1 \in 1..Len(Course["TIMED_OUT"]) /\ 1 \in 1..Len(Course["RAISED"])
      /\ 1 \in 1..Len(Course["GONE"])
  BY <1>2
<1>. QED
  BY <1>1, <1>3, ZenonT(20) DEF Steps

ReportTyped ==
  /\ execution \in [way : Steps, step : Nat, verdict : Verdicts \cup {"NONE"}]
  /\ execution.step \in 1..Len(Course[execution.way])
  /\ spool \in Seq(Letters)
  /\ stored \in Stored
  /\ instance \in {"SAME", "STARTED", "NEW"}

\* An execution has one verdict: its result, once decided, is the one on the
\* platform, in the spool and still to be sent.
OneVerdict ==
  \E v \in Verdicts :
    /\ stored.result \in {"NONE", v}
    /\ \A i \in DOMAIN spool : spool[i].kind = "RESULT" => spool[i].verdict = v
    /\ execution.way \in {"EXITED", "TIMED_OUT", "RAISED"} => execution.verdict = v
    /\ execution.way = "START" =>
          stored.result = "NONE" /\ \A i \in DOMAIN spool : spool[i].kind # "RESULT"

ReportInv == ReportTyped /\ OneVerdict

LEMMA ReportInitially == ReportInit => ReportInv
<1>. SUFFICES ASSUME ReportInit PROVE ReportInv
  OBVIOUS
<1>1. ReportTyped
  BY CourseBegins DEF ReportInit, ReportTyped, Stored, Steps, Verdicts
<1>2. OneVerdict
  BY DEF ReportInit, OneVerdict, Verdicts
<1>. QED
  BY <1>1, <1>2 DEF ReportInv

\* Where an execution may be sent.
LEMMA GoesIsTyped ==
  ASSUME NEW w \in Steps, NEW v \in Verdicts \cup {"NONE"}, execution' = Goes(w, v)
  PROVE  /\ execution' \in [way : Steps, step : Nat, verdict : Verdicts \cup {"NONE"}]
         /\ execution'.step \in 1..Len(Course[execution'.way])
         /\ execution'.way = w /\ execution'.verdict = v
BY CourseBegins DEF Goes

LEMMA OnwardIsTyped ==
  ASSUME ReportTyped, Doing \in Kinds \cup {"PULL", "BEAT", "RUN"},
         execution' = [execution EXCEPT !.step = @ + 1]
  PROVE  /\ execution' \in [way : Steps, step : Nat, verdict : Verdicts \cup {"NONE"}]
         /\ execution'.step \in 1..Len(Course[execution'.way])
         /\ execution'.way = execution.way /\ execution'.verdict = execution.verdict
<1>1. execution.way \in DOMAIN Course
  BY CourseBegins DEF ReportTyped
<1>2. execution.step + 1 \in 1..Len(Course[execution.way])
  BY <1>1, CourseSteps DEF ReportTyped, Doing
<1>. QED
  BY <1>2 DEF ReportTyped

\* What the platform makes of a report.
LEMMA StoresIsTyped ==
  ASSUME stored \in Stored, NEW report \in Letters, report.kind = "RESULT" => report.verdict \in Verdicts
  PROVE  /\ Stores(report) \in Stored
         /\ Stores(report).result = IF report.kind = "RESULT" THEN report.verdict ELSE stored.result
<1>1. CASE report.kind \in {"CHUNK", "ERROR_CHUNK"}
  BY <1>1 DEF Stores, Stored
<1>2. CASE report.kind = "FINAL"
  BY <1>2 DEF Stores, Stored
<1>3. CASE report.kind = "RESULT"
  BY <1>3 DEF Stores, Stored, Verdicts
<1>4. CASE report.kind \in {"EVENT", "SNAPSHOT"}
  BY <1>4 DEF Stores, Stored
<1>. QED
  BY <1>1, <1>2, <1>3, <1>4 DEF Letters, Kinds

\* The report of a step.
LEMMA ReportIsTyped ==
  ASSUME ReportInv, Reporting
  PROVE  /\ Report \in Letters /\ execution.way # "GONE"
         /\ Report.kind = "RESULT" => execution.way \in {"EXITED", "TIMED_OUT", "RAISED"}
                                      /\ Report.verdict = execution.verdict
                                      /\ execution.verdict \in Verdicts
<1>1. execution.way \in DOMAIN Course /\ execution.step \in 1..Len(Course[execution.way])
  BY CourseBegins DEF ReportInv, ReportTyped
<1>2. execution.way # "GONE" /\ (Doing = "RESULT" => execution.way # "START")
  BY <1>1, CourseSteps DEF Reporting, Doing
<1>3. Report.kind = Doing
  BY DEF Report
<1>4. Doing = "RESULT" => Report.verdict = execution.verdict
  BY DEF Report
<1>5. Doing = "RESULT" => execution.way \in {"EXITED", "TIMED_OUT", "RAISED"}
  BY <1>2 DEF ReportInv, ReportTyped, Steps
<1>6. Report \in Letters
  BY DEF Report, Letters, Reporting, ReportInv, ReportTyped, Verdicts
<1>. QED
  BY <1>2, <1>3, <1>4, <1>5, <1>6 DEF ReportInv, OneVerdict

\* A step of the execution or of the platform keeps the verdict, if what it
\* stores and what it puts into the spool does.
LEMMA ReportStep ==
  ReportInv /\ [ReportNext]_reportVars =>
     ReportInv' /\ (stored.result # "NONE" => stored'.result = stored.result)
<1>. SUFFICES ASSUME ReportInv, [ReportNext]_reportVars
              PROVE  ReportInv' /\ (stored.result # "NONE" => stored'.result = stored.result)
  OBVIOUS
<1>. DEFINE Goal == ReportInv' /\ (stored.result # "NONE" => stored'.result = stored.result)
<1>0. PICK v \in Verdicts :
        /\ stored.result \in {"NONE", v}
        /\ \A i \in DOMAIN spool : spool[i].kind = "RESULT" => spool[i].verdict = v
        /\ execution.way \in {"EXITED", "TIMED_OUT", "RAISED"} => execution.verdict = v
        /\ execution.way = "START" =>
              stored.result = "NONE" /\ \A i \in DOMAIN spool : spool[i].kind # "RESULT"
  BY DEF ReportInv, OneVerdict
<1>1. CASE UNCHANGED reportVars
  BY <1>1 DEF reportVars, ReportInv, ReportTyped, OneVerdict
<1>2. CASE Reporting /\ execution' = Onward /\ UNCHANGED instance
           /\ stored' \in {stored, Stores(Report)} /\ spool' \in {spool, Append(spool, Report)}
  <2>1. /\ execution' \in [way : Steps, step : Nat, verdict : Verdicts \cup {"NONE"}]
        /\ execution'.step \in 1..Len(Course[execution'.way])
        /\ execution'.way = execution.way /\ execution'.verdict = execution.verdict
    BY <1>2, OnwardIsTyped DEF ReportInv, Reporting, Onward
  <2>2. Report.kind = "RESULT" => Report.verdict = v /\ execution.way # "START"
    BY <1>0, <1>2, ReportIsTyped
  <2>3. Report \in Letters
    BY <1>2, ReportIsTyped
  <2>4. /\ stored' \in Stored /\ stored'.result \in {stored.result, v}
        /\ execution.way = "START" => stored'.result = stored.result
    BY <1>2, <2>2, <2>3, StoresIsTyped DEF ReportInv, ReportTyped
  <2>5. /\ spool' \in Seq(Letters)
        /\ \A i \in DOMAIN spool' : spool'[i] = Report \/ (i \in DOMAIN spool /\ spool'[i] = spool[i])
    <3>. DEFINE r == Report
    <3>1. r \in Letters /\ spool \in Seq(Letters) /\ spool' \in {spool, Append(spool, r)}
      BY <1>2, <2>3 DEF ReportInv, ReportTyped
    <3>. HIDE DEF r
    <3>2. /\ spool' \in Seq(Letters)
          /\ \A i \in DOMAIN spool' : spool'[i] = r \/ (i \in DOMAIN spool /\ spool'[i] = spool[i])
      BY <3>1
    <3>. QED
      BY <3>2 DEF r
  <2>6. ReportTyped'
    BY <1>2, <2>1, <2>4, <2>5 DEF ReportInv, ReportTyped
  <2>7. OneVerdict'
    BY <1>0, <2>1, <2>2, <2>4, <2>5 DEF OneVerdict
  <2>. QED
    BY <1>0, <2>4, <2>6, <2>7 DEF ReportInv
<1>3. CASE Doing \in {"PULL", "RUN", "BEAT"} /\ execution' = Onward /\ UNCHANGED <<spool, stored, instance>>
  <2>1. /\ execution' \in [way : Steps, step : Nat, verdict : Verdicts \cup {"NONE"}]
        /\ execution'.step \in 1..Len(Course[execution'.way])
        /\ execution'.way = execution.way /\ execution'.verdict = execution.verdict
    BY <1>3, OnwardIsTyped DEF ReportInv, Onward
  <2>. QED
    BY <1>0, <1>3, <2>1 DEF ReportInv, ReportTyped, OneVerdict
<1>4. ASSUME Doing \in {"PULL", "RUN", "BEAT", "WAIT"}, UNCHANGED <<spool, stored, instance>>,
             \/ execution' \in {Goes("EXITED", "SUCCEEDED"), Goes("EXITED", "FAILED"),
                                Goes("TIMED_OUT", "TIMED_OUT")}
             \/ execution' = Raised
      PROVE  Goal
  <2>1. execution.way = "START"
    <3>1. execution.way \in DOMAIN Course /\ execution.step \in 1..Len(Course[execution.way])
      BY CourseBegins DEF ReportInv, ReportTyped
    <3>. QED
      BY <1>4, <3>1, CourseSteps DEF Doing
  <2>2. PICK w \in {"EXITED", "TIMED_OUT", "RAISED"}, x \in Verdicts : execution' = Goes(w, x)
    BY <1>4, <2>1 DEF Raised, Verdicts
  <2>3. w \in Steps /\ x \in Verdicts \cup {"NONE"}
    BY DEF Steps
  <2>4. /\ execution' \in [way : Steps, step : Nat, verdict : Verdicts \cup {"NONE"}]
        /\ execution'.step \in 1..Len(Course[execution'.way])
        /\ execution'.way = w /\ execution'.verdict = x
    BY <2>2, <2>3, GoesIsTyped
  <2>5. ReportTyped'
    BY <1>4, <2>4 DEF ReportInv, ReportTyped
  <2>6. OneVerdict'
    BY <1>0, <1>4, <2>1, <2>4 DEF OneVerdict
  <2>. QED
    BY <1>4, <2>5, <2>6 DEF ReportInv
<1>5. ASSUME execution' = Goes("GONE", "NONE"), UNCHANGED <<spool, stored>>,
             instance' \in {"SAME", "STARTED", "NEW"}
      PROVE  Goal
  <2>1. /\ execution' \in [way : Steps, step : Nat, verdict : Verdicts \cup {"NONE"}]
        /\ execution'.step \in 1..Len(Course[execution'.way])
        /\ execution'.way = "GONE"
    <3>1. "GONE" \in Steps
      BY DEF Steps
    <3>. QED
      BY <1>5, <3>1, GoesIsTyped
  <2>2. ReportTyped'
    BY <1>5, <2>1 DEF ReportInv, ReportTyped
  <2>3. OneVerdict'
    BY <1>0, <1>5, <2>1 DEF OneVerdict
  <2>. QED
    BY <1>5, <2>2, <2>3 DEF ReportInv
<1>6. CASE /\ spool # <<>> /\ UNCHANGED <<execution, instance>>
           /\ stored' \in {stored, Stores(Head(spool))} /\ spool' \in {spool, Tail(spool)}
  <2>1. Head(spool) \in Letters /\ Head(spool) = spool[1] /\ 1 \in DOMAIN spool
    BY <1>6 DEF ReportInv, ReportTyped
  <2>2. Head(spool).kind = "RESULT" => Head(spool).verdict = v /\ execution.way # "START"
    BY <1>0, <2>1
  <2>3. /\ stored' \in Stored /\ stored'.result \in {stored.result, v}
        /\ execution.way = "START" => stored'.result = stored.result
    BY <1>6, <2>1, <2>2, StoresIsTyped DEF ReportInv, ReportTyped
  <2>4. /\ spool' \in Seq(Letters)
        /\ \A i \in DOMAIN spool' : \E j \in DOMAIN spool : spool'[i] = spool[j]
    <3>1. CASE spool' = spool
      BY <3>1 DEF ReportInv, ReportTyped
    <3>2. CASE spool' = Tail(spool)
      <4>1. spool \in Seq(Letters)
        BY DEF ReportInv, ReportTyped
      <4>2. Tail(spool) \in Seq(Letters) /\ Len(Tail(spool)) = Len(spool) - 1
            /\ \A i \in 1..Len(spool) - 1 : Tail(spool)[i] = spool[i + 1]
        BY <1>6, <4>1
      <4>. QED
        BY <3>2, <4>1, <4>2
    <3>3. spool' = spool \/ spool' = Tail(spool)
      BY <1>6
    <3>. QED
      BY <3>1, <3>2, <3>3
  <2>5. ReportTyped'
    BY <1>6, <2>3, <2>4 DEF ReportInv, ReportTyped
  <2>6. OneVerdict'
    BY <1>0, <1>6, <2>3, <2>4 DEF OneVerdict
  <2>. QED
    BY <1>0, <2>3, <2>5, <2>6 DEF ReportInv
<1>7. CASE /\ UNCHANGED <<execution, spool>> /\ instance' \in {"SAME", "STARTED", "NEW"}
           /\ stored' \in {stored, [stored EXCEPT !.status = "LOST"]}
  <2>1. stored' \in Stored /\ stored'.result = stored.result
    BY <1>7 DEF ReportInv, ReportTyped, Stored
  <2>2. ReportTyped'
    BY <1>7, <2>1 DEF ReportInv, ReportTyped
  <2>3. OneVerdict'
    BY <1>0, <1>7, <2>1 DEF OneVerdict
  <2>. QED
    BY <2>1, <2>2, <2>3 DEF ReportInv
<1>8. CASE Reports \/ AnswerLost \/ Unreachable
  BY <1>2, <1>8 DEF Reports, AnswerLost, Unreachable, Spooled
<1>9. CASE Beats \/ BeatRaises \/ Docker \/ Exits
  BY <1>3, <1>4, <1>9 DEF Beats, BeatRaises, Docker, Exits
<1>10. CASE Cleans \/ AgentDies
  BY <1>5, <1>10 DEF Cleans, AgentDies, ReportInv, ReportTyped
<1>11. CASE FlushDelivers \/ FlushFails \/ FlushDrops
  BY <1>6, <1>11 DEF FlushDelivers, FlushFails, FlushDrops, Kept
<1>12. CASE AgentReturns \/ LeaseExpires
  <2>1. stored' \in {stored, [stored EXCEPT !.status = "LOST"]}
    BY <1>12 DEF AgentReturns, LeaseExpires, ReportInv, ReportTyped, Stored
  <2>. QED
    BY <1>7, <1>12, <2>1 DEF AgentReturns, LeaseExpires, ReportInv, ReportTyped
<1>. QED
  BY <1>1, <1>8, <1>9, <1>10, <1>11, <1>12 DEF ReportNext

LEMMA ReportIsTypeOK == ReportInv => ReportTypeOK
<1>. SUFFICES ASSUME ReportTyped PROVE ReportTypeOK
  BY DEF ReportInv
<1>1. execution.way \in DOMAIN Course /\ execution.verdict \in Verdicts \cup {"NONE"}
  BY CourseBegins DEF ReportTyped
<1>2. \A i \in DOMAIN spool : spool[i] \in Letters
  BY DEF ReportTyped
<1>3. execution.step \in 1..Len(Course[execution.way]) /\ stored \in Stored
      /\ instance \in {"SAME", "STARTED", "NEW"}
  BY DEF ReportTyped
<1>. QED
  BY <1>1, <1>2, <1>3, Zenon DEF ReportTypeOK, Letters, Stored

\* The thread, the spool and what the platform has of the run keep their types.
THEOREM ReportTypeCorrect == ReportSpec => []ReportTypeOK
BY ReportInitially, ReportStep, ReportIsTypeOK, PTL DEF ReportSpec

\* Whatever is sent twice, late, from the spool or after an exception, a
\* result on the platform stays what it is (RunExecutor.execute, finish_run).
THEOREM ResultsStay == ReportSpec => ResultStays
<1>1. ReportInv /\ [ReportNext]_reportVars =>
        [stored.result # "NONE" => stored'.result = stored.result]_reportVars
  BY ReportStep
<1>. QED
  BY <1>1, ReportInitially, ReportStep, PTL DEF ReportSpec, ResultStays

-----------------------------------------------------------------------------
(* The alerts *)

AlertRows == [fingerprint : Fingerprints, due : BOOLEAN,
              status : {"ABSENT", "SUPPRESSED", "RESOLVED"} \cup Live]
Decisions == Due \cup {"SUPPRESSED"}

AlertInv ==
  /\ alert \in [Alerts -> AlertRows]
  /\ received \subseteq Alerts
  /\ channel \in BOOLEAN
  /\ sending = [todo |-> sending.todo, writes |-> sending.writes, channel |-> sending.channel]
  /\ sending.todo \subseteq Alerts /\ sending.channel \in BOOLEAN
  /\ DOMAIN sending.writes \subseteq Alerts
  /\ \A a \in DOMAIN sending.writes : sending.writes[a] \in Decisions
  /\ person \in [People -> [op : {"NONE", "ACKED", "RESOLVED"}, on : Alerts]]
  /\ crashes \in 0..MaxCrashes

LEMMA StartingAlerts == 1 \in Alerts /\ NoAlert \in AlertRows
<1>1. (CHOOSE f \in Fingerprints : TRUE) \in Fingerprints
  BY AlertAssumption
<1>. QED
  BY <1>1, AlertAssumption DEF Alerts, NoAlert, AlertRows

\* A pass that has not begun, or has just been given up.
LEMMA NothingIsSent ==
  ASSUME sending' = NoSending
  PROVE  /\ sending' = [todo |-> sending'.todo, writes |-> sending'.writes, channel |-> sending'.channel]
         /\ sending'.todo = {} /\ sending'.channel \in BOOLEAN
         /\ DOMAIN sending'.writes = {}
BY DEF NoSending

LEMMA AlertInitially == AlertInit => AlertInv
<1>. SUFFICES ASSUME AlertInit PROVE AlertInv
  OBVIOUS
<1>1. alert \in [Alerts -> AlertRows]
  BY StartingAlerts DEF AlertInit
<1>2. person \in [People -> [op : {"NONE", "ACKED", "RESOLVED"}, on : Alerts]]
  BY StartingAlerts DEF AlertInit, Away
<1>3. /\ sending = [todo |-> sending.todo, writes |-> sending.writes, channel |-> sending.channel]
      /\ sending.todo \subseteq Alerts /\ sending.channel \in BOOLEAN
      /\ DOMAIN sending.writes = {}
  BY DEF AlertInit, NoSending
<1>4. received \subseteq Alerts /\ channel \in BOOLEAN /\ crashes \in 0..MaxCrashes
  <2>1. crashes \in 0..MaxCrashes
    BY AlertAssumption DEF AlertInit
  <2>. QED
    BY <2>1, Zenon DEF AlertInit
<1>5. DOMAIN sending.writes \subseteq Alerts
      /\ \A a \in DOMAIN sending.writes : sending.writes[a] \in Decisions
  BY <1>3
<1>. QED
  BY <1>1, <1>2, <1>3, <1>4, <1>5, Zenon DEF AlertInv

\* What a pass decides on one of its rows.
LEMMA DecidesIsTyped ==
  ASSUME AlertInv, NEW a \in Alerts, NEW status \in Decisions, Decides(a, status)
  PROVE  /\ sending' = [todo |-> sending'.todo, writes |-> sending'.writes, channel |-> sending'.channel]
         /\ sending'.todo \subseteq Alerts /\ sending'.channel \in BOOLEAN
         /\ DOMAIN sending'.writes \subseteq Alerts
         /\ \A b \in DOMAIN sending'.writes : sending'.writes[b] \in Decisions
<1>. DEFINE writes == [b \in DOMAIN sending.writes \cup {a} |->
                          IF b = a THEN status ELSE sending.writes[b]]
<1>1. sending' = [todo |-> sending.todo \ {a}, writes |-> writes, channel |-> sending.channel]
  BY DEF AlertInv, Decides
<1>2. DOMAIN writes \subseteq Alerts /\ \A b \in DOMAIN writes : writes[b] \in Decisions
  BY DEF AlertInv
<1>. HIDE DEF writes
<1>. QED
  BY <1>1, <1>2 DEF AlertInv

LEMMA AlertStep == AlertInv /\ [AlertNext]_alertVars => AlertInv'
<1>. SUFFICES ASSUME AlertInv, [AlertNext]_alertVars PROVE AlertInv'
  OBVIOUS
<1>1. CASE UNCHANGED alertVars
  BY <1>1 DEF alertVars, AlertInv
<1>2. ASSUME NEW f \in Fingerprints, Raise(f)
      PROVE  AlertInv'
  <2>1. alert' \in [Alerts -> AlertRows]
    BY <1>2 DEF Raise, AlertInv, AlertRows, Live
  <2>. QED
    BY <1>2, <2>1 DEF Raise, AlertInv
<1>3. CASE PassBegins
  <2>1. PICK todo \in SUBSET Alerts : sending' = [NoSending EXCEPT !.todo = todo, !.channel = channel]
    BY <1>3 DEF PassBegins
  <2>2. /\ sending' = [todo |-> sending'.todo, writes |-> sending'.writes, channel |-> sending'.channel]
        /\ sending'.todo \subseteq Alerts /\ sending'.channel \in BOOLEAN
        /\ DOMAIN sending'.writes = {}
    BY <2>1 DEF NoSending, AlertInv
  <2>. QED
    BY <1>3, <2>2 DEF PassBegins, AlertInv
<1>4. ASSUME NEW a \in Alerts, Suppresses(a) \/ Sends(a) \/ SendFails(a)
      PROVE  AlertInv'
  <2>1. PICK status \in Decisions : Decides(a, status)
    BY <1>4 DEF Suppresses, Sends, SendFails, Failed, Decisions, Due
  <2>2. /\ sending' = [todo |-> sending'.todo, writes |-> sending'.writes, channel |-> sending'.channel]
        /\ sending'.todo \subseteq Alerts /\ sending'.channel \in BOOLEAN
        /\ DOMAIN sending'.writes \subseteq Alerts
        /\ \A b \in DOMAIN sending'.writes : sending'.writes[b] \in Decisions
    BY <2>1, DecidesIsTyped
  <2>3. received' \subseteq Alerts /\ UNCHANGED <<alert, channel, person, crashes>>
    BY <1>4 DEF Suppresses, Sends, SendFails, AlertInv
  <2>. QED
    BY <2>2, <2>3 DEF AlertInv
<1>5. CASE AlertsCommit
  <2>1. alert' \in [Alerts -> AlertRows]
    <3>1. \A a \in Alerts : Locked(a) => Written[a] \in Decisions
      BY DEF Locked, Written, AlertInv
    <3>2. \A a \in Alerts : Locked(a) => [alert[a] EXCEPT !.status = Written[a], !.due = FALSE] \in AlertRows
      <4>1. \A a \in Alerts : alert[a] \in AlertRows
        BY DEF AlertInv
      <4>2. ASSUME NEW r \in AlertRows, NEW status \in Decisions
            PROVE  [r EXCEPT !.status = status, !.due = FALSE] \in AlertRows
        BY DEF AlertRows, Decisions, Due, Live
      <4>. QED
        BY <3>1, <4>1, <4>2
    <3>. QED
      BY <1>5, <3>2 DEF AlertsCommit, AlertInv
  <2>. QED
    BY <1>5, <2>1, NothingIsSent DEF AlertsCommit, AlertInv
<1>6. CASE PassBreaks \/ WorkerCrashes
  <2>1. crashes' \in 0..MaxCrashes
    BY <1>6, AlertAssumption DEF PassBreaks, WorkerCrashes, AlertInv
  <2>. QED
    BY <1>6, <2>1, NothingIsSent DEF PassBreaks, WorkerCrashes, AlertInv
<1>7. ASSUME NEW a \in Alerts, ComesDue(a)
      PROVE  AlertInv'
  <2>1. alert' \in [Alerts -> AlertRows]
    BY <1>7 DEF ComesDue, AlertInv, AlertRows
  <2>. QED
    BY <1>7, <2>1 DEF ComesDue, AlertInv
<1>8. ASSUME NEW p \in People, NEW a \in Alerts, AckReads(p, a) \/ ResolveReads(p, a)
      PROVE  AlertInv'
  <2>1. person' \in [People -> [op : {"NONE", "ACKED", "RESOLVED"}, on : Alerts]]
    BY <1>8 DEF AckReads, ResolveReads, Opens, AlertInv
  <2>. QED
    BY <1>8, <2>1 DEF AckReads, ResolveReads, Opens, AlertInv
<1>9. ASSUME NEW p \in People, PersonCommits(p)
      PROVE  AlertInv'
  <2>1. person[p].op \in {"ACKED", "RESOLVED"} /\ person[p].on \in Alerts
    BY <1>9 DEF PersonCommits, AlertInv
  <2>2. alert' \in [Alerts -> AlertRows]
    BY <1>9, <2>1 DEF PersonCommits, AlertInv, AlertRows, Live
  <2>3. person' \in [People -> [op : {"NONE", "ACKED", "RESOLVED"}, on : Alerts]]
    BY <1>9, StartingAlerts DEF PersonCommits, AlertInv, Away
  <2>. QED
    BY <1>9, <2>2, <2>3 DEF PersonCommits, AlertInv
<1>10. CASE ChannelChanges
  BY <1>10 DEF ChannelChanges, AlertInv
<1>. QED
  BY <1>1, <1>2, <1>3, <1>4, <1>5, <1>6, <1>7, <1>8, <1>9, <1>10 DEF AlertNext, WorkerSteps

LEMMA AlertIsTyped == AlertInv => AlertTypeOK
BY DEF AlertInv, AlertTypeOK, AlertRows, Decisions

\* The alerts, the worker's pass and the people's requests keep their types.
THEOREM AlertTypeCorrect == AlertSpec => []AlertTypeOK
BY AlertInitially, AlertStep, AlertIsTyped, PTL DEF AlertSpec

-----------------------------------------------------------------------------
(* The health of a node *)

HealthSteps == [health : Health, capacity : Loads \cup {"UNKNOWN"}, count : [Counters -> 0..Enough]]

LEMMA HealthInitially == HealthInit => HealthTypeOK
BY HealthAssumption DEF HealthInit, HealthTypeOK, Loads, Ages, Health, Pooled

\* The counters stay within the thresholds.
LEMMA CountedIsTyped ==
  ASSUME HealthTypeOK
  PROVE  Counted \in [Counters -> 0..Enough]
<1>1. \A c \in Counters : node.count[c] \in 0..Enough
  BY DEF HealthTypeOK
<1>2. \A n \in 0..Enough : Least(n + 1, 3) \in 0..Enough /\ Least(n + 1, Enough) \in 0..Enough
  BY HealthAssumption DEF Least
<1>3. 0 \in 0..Enough
  BY HealthAssumption
<1>. QED
  BY <1>1, <1>2, <1>3 DEF Counted, Counters

LEMMA HealthStep == HealthTypeOK /\ [HealthNext]_healthVars => HealthTypeOK'
<1>. SUFFICES ASSUME HealthTypeOK, [HealthNext]_healthVars PROVE HealthTypeOK'
  OBVIOUS
<1>1. CASE UNCHANGED healthVars
  BY <1>1 DEF healthVars, HealthTypeOK
<1>2. CASE NodeBeats
  <2>1. ASSUME NEW count
        PROVE  HealthAfter(count) \in Health /\ CapacityAfter(count) \in Loads \cup {"UNKNOWN"}
    BY DEF HealthAfter, CapacityAfter, HealthTypeOK, Health, Loads
  <2>2. ASSUME NEW health, NEW capacity
        PROVE  Scheduled(health, capacity) \in Pooled \cup {"AUTO_EJECTED"}
    BY DEF Scheduled, HealthTypeOK, Pooled
  <2>3. node' \in HealthSteps /\ row' \in Pooled \cup {"AUTO_EJECTED"}
    BY <1>2, <2>1, <2>2, CountedIsTyped DEF NodeBeats, HealthSteps
  <2>. QED
    BY <1>2, <2>3 DEF NodeBeats, HealthTypeOK, HealthSteps, Ages
<1>3. CASE PassReads
  BY <1>3 DEF PassReads, HealthTypeOK
<1>4. CASE PassCommits
  <2>1. node' \in HealthSteps
    BY <1>4 DEF PassCommits, HealthTypeOK, HealthSteps, Health
  <2>. QED
    BY <1>4, <2>1 DEF PassCommits, HealthTypeOK, HealthSteps
<1>5. CASE NodesListed
  <2>1. node' \in HealthSteps
    BY <1>5 DEF NodesListed, HealthTypeOK, HealthSteps, Health
  <2>. QED
    BY <1>5, <2>1 DEF NodesListed, HealthTypeOK, HealthSteps
<1>6. CASE SilenceGrows
  BY <1>6 DEF SilenceGrows, HealthTypeOK, Older, Ages
<1>7. CASE MachineChanges
  <2>1. machine' \in [unhealthy : BOOLEAN, load : Loads]
    BY <1>7 DEF MachineChanges, HealthTypeOK
  <2>. QED
    BY <1>7, <2>1 DEF MachineChanges, HealthTypeOK
<1>. QED
  BY <1>1, <1>2, <1>3, <1>4, <1>5, <1>6, <1>7 DEF HealthNext

\* The health of a node, its counters and its row in the pool keep their types.
THEOREM HealthTypeCorrect == HealthSpec => []HealthTypeOK
BY HealthInitially, HealthStep, PTL DEF HealthSpec

-----------------------------------------------------------------------------
(* The five together: a step is one of one part and leaves the others       *)
(* alone, so each keeps its own invariant.                                  *)

ConsoleInv ==
  /\ part \in {"build", "session", "alert", "health", "report"}
  /\ BuildTypeOK /\ SessionTypeOK /\ AlertInv /\ HealthTypeOK /\ ReportInv

LEMMA OfOnePart ==
  [ConsoleNext]_consoleVars =>
    /\ UNCHANGED part
    /\ [BuildNext]_buildVars /\ [SessionNext]_sessionVars /\ [AlertNext]_alertVars
    /\ [HealthNext]_healthVars /\ [ReportNext]_reportVars
<1>1. ASSUME UNCHANGED consoleVars
      PROVE  UNCHANGED <<part, buildVars, sessionVars, alertVars, healthVars, reportVars>>
  BY <1>1 DEF consoleVars
<1>. QED
  BY <1>1 DEF ConsoleNext, InBuild, InSession, InAlert, InHealth, InReport

\* Each of the five components keeps its types in the run they share.
THEOREM ConsoleTypeCorrect == ConsoleSpec => []ConsoleTypeOK
<1>1. ConsoleInit => ConsoleInv
  BY BuildTypeInitially, SessionTypeInitially, AlertInitially, HealthInitially, ReportInitially
  DEF ConsoleInit, ConsoleInv
<1>2. ConsoleInv /\ [ConsoleNext]_consoleVars => ConsoleInv'
  <2>. SUFFICES ASSUME ConsoleInv, [ConsoleNext]_consoleVars PROVE ConsoleInv'
    OBVIOUS
  <2>1. BuildTypeOK' /\ SessionTypeOK'
    BY OfOnePart, BuildTypeStep, SessionTypeStep DEF ConsoleInv
  <2>2. AlertInv' /\ HealthTypeOK' /\ ReportInv'
    BY OfOnePart, AlertStep, HealthStep, ReportStep DEF ConsoleInv
  <2>. QED
    BY <2>1, <2>2, OfOnePart DEF ConsoleInv
<1>3. ConsoleInv => ConsoleTypeOK
  BY AlertIsTyped, ReportIsTypeOK DEF ConsoleInv, ConsoleTypeOK
<1>. QED
  BY <1>1, <1>2, <1>3, PTL DEF ConsoleSpec

=============================================================================
