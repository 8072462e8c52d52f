------------------------------ MODULE Sessions ------------------------------
(***************************************************************************)
(* The administrator's sessions: POST /auth/login, behind the rate limiter, *)
(* POST /auth/logout, the checks in front of every administrative request   *)
(* (apps/api/afs/auth.py), and scripts/sync_admin_credentials.py, which     *)
(* changes the password and deletes the sessions.  The keys of the limiter  *)
(* are those of the login path, one for each client.                        *)
(*                                                                          *)
(* A login reads the password hash in one statement and commits its session *)
(* later; the script deletes the sessions it sees in one statement and      *)
(* commits later.  Neither locks the other out.                             *)
(***************************************************************************)
EXTENDS RateLimiter

CONSTANTS
    Logins,        \* logins, each with the token it hands out if it succeeds
    Calls,         \* administrative requests that change something
    Ttl,           \* settings.session_ttl_seconds
    MaxRotations   \* bound: how often the credentials are synchronised

ASSUME SessionsAssumption ==
    /\ Ttl \in Nat \ {0}
    /\ MaxRotations \in Nat

Passwords == 0 .. MaxRotations   \* in the order the administrator has had them

VARIABLES
    password,   \* users.password_hash
    sessions,   \* the rows of sessions
    login,      \* [Logins -> ...], the logins in progress
    sync,       \* the script in progress
    call        \* [Calls -> ...], the requests in progress

sessionVars == <<limiterVars, password, sessions, login, sync, call>>
limiterState == <<now, events, admitted, refused>>

\* password and overlap are history: what the login was verified with, and whether it
\* went on while the script ran.
Session == [token : Logins, password : Passwords, expires : Nat, overlap : BOOLEAN]

IdleLogin == [pc |-> "idle", password |-> 0, expires |-> 0, overlap |-> FALSE]
IdleCall == [pc |-> "idle", token |-> {}, csrf |-> {}, live |-> FALSE]

SessionsInit ==
    /\ LimiterInit
    /\ password = 0
    /\ sessions = {}
    /\ login = [l \in Logins |-> IdleLogin]
    /\ sync = [pc |-> "idle", seen |-> {}]
    /\ call = [c \in Calls |-> IdleCall]

-----------------------------------------------------------------------------
\* A login comes in and is let through; with which of the passwords is not known.
LoginArrives(l, k, p) ==
    /\ login[l].pc = "idle"
    /\ Admit(k)
    /\ login' = [login EXCEPT ![l] = [IdleLogin EXCEPT !.pc = "verify", !.password = p]]
    /\ UNCHANGED <<password, sessions, sync, call>>

LoginRefused(k) == Refuse(k) /\ UNCHANGED <<password, sessions, login, sync, call>>

\* SELECT the user, verify the password, and make the session: 401 if it is wrong.
LoginVerify(l) ==
    /\ login[l].pc = "verify"
    /\ login' = [login EXCEPT ![l] =
          IF @.password = password
          THEN [@ EXCEPT !.pc = "commit", !.expires = now + Ttl, !.overlap = (sync.pc = "commit")]
          ELSE IdleLogin]
    /\ UNCHANGED <<limiterState, password, sessions, sync, call>>

LoginCommit(l) ==
    /\ login[l].pc = "commit"
    /\ sessions' = sessions \cup {[token |-> l, password |-> login[l].password,
                                   expires |-> login[l].expires, overlap |-> login[l].overlap]}
    /\ login' = [login EXCEPT ![l].pc = "over"]
    /\ UNCHANGED <<limiterState, password, sync, call>>

\* The database fails: the open transaction is rolled back.
LoginFails(l) ==
    /\ login[l].pc \in {"verify", "commit"}
    /\ login' = [login EXCEPT ![l] = IdleLogin]
    /\ UNCHANGED <<limiterState, password, sessions, sync, call>>

-----------------------------------------------------------------------------
\* Mutant: the sessions whose time is over are deleted.
MutSyncDelete ==
    /\ sync.pc = "idle"
    /\ password < MaxRotations
    /\ sync' = [pc |-> "commit", seen |-> {x \in sessions : x.expires <= now}]
    /\ login' = [l \in Logins |-> IF login[l].pc = "commit" THEN [login[l] EXCEPT !.overlap = TRUE] ELSE login[l]]
    /\ UNCHANGED <<limiterState, password, sessions, call>>

\* The script has set the new hash and deletes the sessions it sees.
SyncDelete ==
    /\ sync.pc = "idle"
    /\ password < MaxRotations
    /\ sync' = [pc |-> "commit", seen |-> sessions]
    /\ login' = [l \in Logins |-> IF login[l].pc = "commit" THEN [login[l] EXCEPT !.overlap = TRUE] ELSE login[l]]
    /\ UNCHANGED <<limiterState, password, sessions, call>>

SyncCommit ==
    /\ sync.pc = "commit"
    /\ password' = password + 1
    /\ sessions' = sessions \ sync.seen
    /\ sync' = [pc |-> "idle", seen |-> {}]
    /\ UNCHANGED <<limiterState, login, call>>

SyncFails ==
    /\ sync.pc = "commit"
    /\ sync' = [pc |-> "idle", seen |-> {}]
    /\ UNCHANGED <<limiterState, password, sessions, login, call>>

-----------------------------------------------------------------------------
Handed == {l \in Logins : login[l].pc = "over"}
LiveSession(token) == \E x \in sessions : x.token \in token /\ x.expires > now

\* Mutant: a session is found until it is deleted.
MutFound(token) == \E x \in sessions : x.token \in token

\* The SELECTs of require_csrf and of current_user.
Found(token) == \E x \in sessions : x.token \in token /\ x.expires > now

\* A request comes in with the cookie of one login and, perhaps from another tab, the
\* CSRF token of one.  A logout is such a request.
CallArrives(c, token, csrf) ==
    /\ call[c].pc = "idle"
    /\ call' = [call EXCEPT ![c] = [pc |-> "csrf", token |-> {token}, csrf |-> {csrf},
                                    live |-> LiveSession({token})]]
    /\ UNCHANGED <<limiterState, password, sessions, login, sync>>

Answer(c) ==
    /\ call' = [call EXCEPT ![c] = IdleCall]
    /\ UNCHANGED <<limiterState, password, sessions, login, sync>>

\* require_csrf: 403 without a session, or for the CSRF token of another one.
CheckCsrf(c) ==
    /\ call[c].pc = "csrf"
    /\ IF Found(call[c].token) /\ call[c].csrf = call[c].token
       THEN /\ call' = [call EXCEPT ![c].pc = "user"]
            /\ UNCHANGED <<limiterState, password, sessions, login, sync>>
       ELSE Answer(c)

\* require_admin, a second SELECT: 401.
CheckUser(c) ==
    /\ call[c].pc = "user"
    /\ IF Found(call[c].token)
       THEN /\ call' = [call EXCEPT ![c].pc = "acting"]
            /\ UNCHANGED <<limiterState, password, sessions, login, sync>>
       ELSE Answer(c)

\* The handler commits, whatever has become of the session by now.
Act(c) == call[c].pc = "acting" /\ Answer(c)

\* logout needs the CSRF token only; it deletes the session, and forgets the cookie.
Logout(c) ==
    /\ call[c].pc = "user"
    /\ sessions' = {x \in sessions : x.token \notin call[c].token}
    /\ call' = [call EXCEPT ![c] = IdleCall]
    /\ UNCHANGED <<limiterState, password, login, sync>>

TimePasses == Tick /\ UNCHANGED <<password, sessions, login, sync, call>>

SessionsNext ==
    \/ \E l \in Logins, k \in Keys, p \in Passwords : LoginArrives(l, k, p)
    \/ \E k \in Keys : LoginRefused(k)
    \/ \E l \in Logins : LoginVerify(l) \/ LoginCommit(l) \/ LoginFails(l)
    \/ SyncDelete \/ SyncCommit \/ SyncFails
    \/ \E c \in Calls, token, csrf \in Handed : CallArrives(c, token, csrf)
    \/ \E c \in Calls : CheckCsrf(c) \/ CheckUser(c) \/ Act(c) \/ Logout(c)
    \/ TimePasses

SessionsSpec == SessionsInit /\ [][SessionsNext]_sessionVars

-----------------------------------------------------------------------------
(* Properties.                                                              *)

\* scripts/sync_admin_credentials.py ends with "existing sessions revoked": when the
\* password has changed, no session is left that was opened with another one, but by a
\* login that went on while the script did.  Such a session stays until it expires.
OldSessionsRevoked == \A x \in sessions : x.password # password => x.overlap

\* A request that gets past both checks came in with a session that was open and in
\* time: none acts on one that had ended, been logged out or been revoked before it.
ActsWithLiveSession == \A c \in Calls : call[c].pc = "acting" => call[c].live
=============================================================================
