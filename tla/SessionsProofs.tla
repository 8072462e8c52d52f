--------------------------- MODULE SessionsProofs ---------------------------
(* What Sessions keeps for any number of clients, logins and requests, any  *)
(* times and any number of changes of the password.                         *)
EXTENDS Sessions, RateLimiterProofs

LoginState == [pc : {"idle", "verify", "commit", "over"}, password : Passwords, expires : Nat,
               overlap : BOOLEAN]
CallState == [pc : {"idle", "csrf", "user", "acting"}, token : SUBSET Logins, csrf : SUBSET Logins,
              live : BOOLEAN]
SessionsTypeOK ==
    /\ login \in [Logins -> LoginState]
    /\ call \in [Calls -> CallState]
    /\ sessions \subseteq Session

\* A login that has verified an older password went on while the script did.
LoginsCurrent ==
    \A l \in Logins :
        login[l].pc = "commit" /\ login[l].password # password => login[l].overlap

\* While the script is about to commit, it has seen every session and every login
\* that has verified its password, or they overlap with it.
SyncSees ==
    sync.pc = "commit" =>
        /\ \A x \in sessions : x \in sync.seen \/ x.overlap
        /\ \A l \in Logins : login[l].pc = "commit" => login[l].overlap

RevokedInv == LoginsCurrent /\ SyncSees /\ OldSessionsRevoked

\* A request that would pass a check now had a session when it came in.
CallsLive ==
    \A c \in Calls :
        /\ call[c].pc # "idle" => call[c].token \subseteq Handed
        /\ call[c].pc = "csrf" /\ Found(call[c].token) => call[c].live
        /\ call[c].pc \in {"user", "acting"} => call[c].live

SessionsInv == now \in Nat /\ SessionsTypeOK /\ RevokedInv /\ CallsLive

LEMMA SessionsInitInv == SessionsInit => SessionsInv
<1> SUFFICES ASSUME SessionsInit PROVE SessionsInv
  OBVIOUS
<1>1. now \in Nat /\ 0 \in Passwords
  BY SessionsAssumption DEF SessionsInit, LimiterInit, Passwords
<1>2. SessionsTypeOK
  BY <1>1 DEF SessionsInit, SessionsTypeOK, LoginState, CallState, IdleLogin, IdleCall
<1>3. RevokedInv
  BY DEF SessionsInit, RevokedInv, LoginsCurrent, SyncSees, OldSessionsRevoked, IdleLogin
<1>4. CallsLive
  BY DEF SessionsInit, CallsLive, IdleCall
<1> QED
  BY <1>1, <1>2, <1>3, <1>4 DEF SessionsInv

\* What every step does with the clock.
LEMMA ClockRuns ==
    ASSUME now \in Nat, [SessionsNext]_sessionVars
    PROVE  now' \in Nat /\ now <= now'
<1>1. [LimiterNext]_limiterState \/ UNCHANGED limiterState
  BY DEF SessionsNext, sessionVars, limiterVars, limiterState, LoginArrives, LoginRefused, LoginVerify,
         LoginCommit, LoginFails, SyncDelete, SyncCommit, SyncFails, CallArrives, CheckCsrf,
         CheckUser, Act, Logout, Answer, TimePasses, LimiterNext
<1>2. now' = now \/ now' = now + 1
  BY <1>1 DEF LimiterNext, limiterState, Admit, Refuse, Tick
<1> QED
  BY <1>2

-----------------------------------------------------------------------------
(* Logins and the script.                                                   *)

LEMMA LoginStep ==
    ASSUME SessionsInv, NEW l \in Logins, now' \in Nat,
           \/ \E k \in Keys, p \in Passwords : LoginArrives(l, k, p)
           \/ LoginVerify(l)
           \/ LoginCommit(l)
           \/ LoginFails(l)
    PROVE  SessionsTypeOK' /\ RevokedInv'
<1>1. login \in [Logins -> LoginState] /\ call \in [Calls -> CallState] /\ now \in Nat
  BY DEF SessionsInv, SessionsTypeOK
<1>2. 0 \in Passwords /\ Ttl \in Nat /\ now + Ttl \in Nat
  BY <1>1, SessionsAssumption DEF Passwords
<1>3. ASSUME NEW k \in Keys, NEW p \in Passwords, LoginArrives(l, k, p)
      PROVE  SessionsTypeOK' /\ RevokedInv'
  <2> DEFINE q == [IdleLogin EXCEPT !.pc = "verify", !.password = p]
  <2>1. q \in LoginState /\ q.pc = "verify"
    BY DEF LoginState, IdleLogin
  <2>2. login' = [login EXCEPT ![l] = q] /\ UNCHANGED <<password, sessions, sync, call>>
    BY <1>3 DEF LoginArrives
  <2> HIDE DEF q
  <2> QED
    BY <1>1, <2>1, <2>2
    DEF SessionsInv, SessionsTypeOK, RevokedInv, LoginsCurrent, SyncSees, OldSessionsRevoked
<1>4. CASE LoginVerify(l)
  <2> DEFINE ok == [login[l] EXCEPT !.pc = "commit", !.expires = now + Ttl,
                                    !.overlap = (sync.pc = "commit")]
             q == IF login[l].password = password THEN ok ELSE IdleLogin
  <2>1. /\ q \in LoginState
        /\ q.pc = "commit" => q.password = password /\ (sync.pc = "commit" => q.overlap)
    <3>1. ok \in LoginState /\ ok.password = login[l].password /\ ok.overlap = (sync.pc = "commit")
      BY <1>1, <1>2 DEF LoginState
    <3>2. IdleLogin \in LoginState /\ IdleLogin.pc = "idle"
      BY <1>2 DEF LoginState, IdleLogin
    <3> HIDE DEF ok
    <3> QED
      BY <3>1, <3>2
  <2>2. login' = [login EXCEPT ![l] = q] /\ UNCHANGED <<password, sessions, sync, call>>
    BY <1>4 DEF LoginVerify
  <2> HIDE DEF q, ok
  <2> QED
    BY <1>1, <2>1, <2>2
    DEF SessionsInv, SessionsTypeOK, RevokedInv, LoginsCurrent, SyncSees, OldSessionsRevoked
<1>5. CASE LoginCommit(l)
  <2> DEFINE x == [token |-> l, password |-> login[l].password,
                   expires |-> login[l].expires, overlap |-> login[l].overlap]
             q == [login[l] EXCEPT !.pc = "over"]
  <2>1. q \in LoginState /\ q.pc = "over"
    BY <1>1 DEF LoginState
  <2>2. x \in Session /\ x.password = login[l].password /\ x.overlap = login[l].overlap
    BY <1>1 DEF Session, LoginState
  <2>3. /\ login[l].pc = "commit" /\ login' = [login EXCEPT ![l] = q]
        /\ sessions' = sessions \cup {x}
        /\ UNCHANGED <<password, sync, call>>
    BY <1>5 DEF LoginCommit
  <2> HIDE DEF q, x
  <2>4. SessionsTypeOK' /\ LoginsCurrent'
    BY <1>1, <2>1, <2>2, <2>3 DEF SessionsInv, SessionsTypeOK, RevokedInv, LoginsCurrent
  <2>5. SyncSees' /\ OldSessionsRevoked'
    BY <1>1, <2>1, <2>2, <2>3
    DEF SessionsInv, RevokedInv, LoginsCurrent, SyncSees, OldSessionsRevoked
  <2> QED
    BY <2>4, <2>5 DEF RevokedInv
<1>6. CASE LoginFails(l)
  <2>1. IdleLogin \in LoginState /\ IdleLogin.pc = "idle"
    BY <1>2 DEF LoginState, IdleLogin
  <2> QED
    BY <1>1, <1>6, <2>1
    DEF LoginFails, SessionsInv, SessionsTypeOK, RevokedInv, LoginsCurrent, SyncSees,
        OldSessionsRevoked
<1> QED
  BY <1>3, <1>4, <1>5, <1>6

LEMMA SyncStep ==
    ASSUME SessionsInv, SyncDelete \/ SyncCommit \/ SyncFails
    PROVE  SessionsTypeOK' /\ RevokedInv'
<1>1. login \in [Logins -> LoginState] /\ call \in [Calls -> CallState]
  BY DEF SessionsInv, SessionsTypeOK
<1>2. CASE SyncDelete
  <2> DEFINE q(l) == IF login[l].pc = "commit" THEN [login[l] EXCEPT !.overlap = TRUE] ELSE login[l]
  <2>1. \A l \in Logins : /\ q(l) \in LoginState /\ q(l).pc = login[l].pc
                          /\ q(l).pc = "commit" => q(l).overlap
    BY <1>1 DEF LoginState
  <2>2. /\ login' = [l \in Logins |-> q(l)]
        /\ sync' = [pc |-> "commit", seen |-> sessions]
        /\ UNCHANGED <<password, sessions, call>>
    BY <1>2 DEF SyncDelete
  <2> HIDE DEF q
  <2> QED
    BY <1>1, <2>1, <2>2
    DEF SessionsInv, SessionsTypeOK, RevokedInv, LoginsCurrent, SyncSees, OldSessionsRevoked
<1>3. CASE SyncCommit
  BY <1>1, <1>3
  DEF SyncCommit, SessionsInv, SessionsTypeOK, RevokedInv, LoginsCurrent, SyncSees,
      OldSessionsRevoked
<1>4. CASE SyncFails
  BY <1>1, <1>4
  DEF SyncFails, SessionsInv, SessionsTypeOK, RevokedInv, LoginsCurrent, SyncSees,
      OldSessionsRevoked
<1> QED
  BY <1>2, <1>3, <1>4

\* A request may end or move on; a logout takes sessions away and adds none.
LEMMA CallStep ==
    ASSUME SessionsInv, NEW c \in Calls,
           \/ \E token, csrf \in Handed : CallArrives(c, token, csrf)
           \/ CheckCsrf(c)
           \/ CheckUser(c)
           \/ Act(c)
           \/ Logout(c)
    PROVE  SessionsTypeOK' /\ RevokedInv'
<1>1. login \in [Logins -> LoginState] /\ call \in [Calls -> CallState]
  BY DEF SessionsInv, SessionsTypeOK
<1>2. UNCHANGED <<password, login, sync>> /\ sessions' \subseteq sessions
  BY DEF CallArrives, CheckCsrf, CheckUser, Act, Logout, Answer
<1>3. \E q \in CallState : call' = [call EXCEPT ![c] = q]
  <2>1. IdleCall \in CallState
    BY DEF IdleCall, CallState
  <2>2. \A token, csrf \in Handed :
            [pc |-> "csrf", token |-> {token}, csrf |-> {csrf}, live |-> LiveSession({token})] \in CallState
    BY DEF CallState, Handed, LiveSession
  <2>3. [call[c] EXCEPT !.pc = "user"] \in CallState /\ [call[c] EXCEPT !.pc = "acting"] \in CallState
    BY <1>1 DEF CallState
  <2>4. ASSUME NEW token \in Handed, NEW csrf \in Handed, CallArrives(c, token, csrf)
        PROVE  \E q \in CallState : call' = [call EXCEPT ![c] = q]
    BY <2>2, <2>4 DEF CallArrives
  <2>5. ASSUME CheckCsrf(c) \/ CheckUser(c) \/ Act(c) \/ Logout(c)
        PROVE  \E q \in CallState : call' = [call EXCEPT ![c] = q]
    BY <2>1, <2>3, <2>5 DEF CheckCsrf, CheckUser, Act, Logout, Answer
  <2> QED
    BY <2>4, <2>5
<1>4. SessionsTypeOK'
  BY <1>1, <1>2, <1>3 DEF SessionsInv, SessionsTypeOK
<1>5. RevokedInv'
  BY <1>2 DEF SessionsInv, RevokedInv, LoginsCurrent, SyncSees, OldSessionsRevoked
<1> QED
  BY <1>4, <1>5

-----------------------------------------------------------------------------
(* Requests.                                                                *)

\* A session that is found in the next state was there, but for one just opened.
LEMMA FoundBefore ==
    ASSUME SessionsInv, [SessionsNext]_sessionVars, NEW token, token \subseteq Handed,
           Found(token)'
    PROVE  Found(token)
<1>1. now \in Nat /\ now' \in Nat /\ now <= now'
  BY ClockRuns DEF SessionsInv
<1>2. PICK x \in sessions' : x.token \in token /\ x.expires > now'
  BY DEF Found
<1>3. x \in sessions
  <2>1. ASSUME NEW l \in Logins, LoginCommit(l), x \notin sessions PROVE FALSE
    <3>1. x.token = l /\ login[l].pc = "commit"
      BY <1>2, <2>1 DEF LoginCommit
    <3> QED
      BY <1>2, <3>1 DEF Handed
  <2>2. CASE \E l \in Logins : LoginCommit(l)
    BY <2>1, <2>2
  <2>3. CASE ~ \E l \in Logins : LoginCommit(l)
    <3>1. sessions' \subseteq sessions
      BY <2>3 DEF SessionsNext, sessionVars, LoginArrives, LoginRefused, LoginVerify, LoginFails,
                  SyncDelete, SyncCommit, SyncFails, CallArrives, CheckCsrf, CheckUser, Act,
                  Logout, Answer, TimePasses
    <3> QED
      BY <1>2, <3>1
  <2> QED
    BY <2>2, <2>3
<1>4. x.expires > now
  <2>1. x.expires \in Nat
    BY <1>3 DEF SessionsInv, SessionsTypeOK, Session
  <2> QED
    BY <1>1, <1>2, <2>1
<1> QED
  BY <1>2, <1>3, <1>4 DEF Found

\* A token that was handed out stays so.
LEMMA HandedStays ==
    ASSUME SessionsInv, [SessionsNext]_sessionVars
    PROVE  Handed \subseteq Handed'
<1> SUFFICES ASSUME NEW h \in Logins, login[h].pc = "over" PROVE login'[h].pc = "over"
  BY DEF Handed
<1>1. login \in [Logins -> LoginState]
  BY DEF SessionsInv, SessionsTypeOK
<1>2. ASSUME NEW l \in Logins, NEW k \in Keys, NEW p \in Passwords, LoginArrives(l, k, p)
      PROVE  login'[h].pc = "over"
  BY <1>1, <1>2 DEF LoginArrives
<1>3. ASSUME NEW l \in Logins, LoginVerify(l) \/ LoginCommit(l) \/ LoginFails(l)
      PROVE  login'[h].pc = "over"
  <2>1. CASE h = l
    BY <1>1, <1>3, <2>1 DEF LoginVerify, LoginCommit, LoginFails
  <2>2. CASE h # l
    BY <1>1, <1>3, <2>2 DEF LoginVerify, LoginCommit, LoginFails
  <2> QED
    BY <2>1, <2>2
<1>4. CASE SyncDelete
  BY <1>4 DEF SyncDelete
<1>5. CASE UNCHANGED login
  BY <1>5
<1> QED
  BY <1>2, <1>3, <1>4, <1>5
  DEF SessionsNext, sessionVars, LoginRefused, SyncCommit, SyncFails, CallArrives, CheckCsrf,
      CheckUser, Act, Logout, Answer, TimePasses

\* What one step does with one request.
LEMMA CallMoves ==
    ASSUME SessionsInv, [SessionsNext]_sessionVars, NEW c \in Calls
    PROVE  \/ call'[c] = call[c]
           \/ call'[c] = IdleCall
           \/ \E token, csrf \in Handed :
                 call'[c] = [pc |-> "csrf", token |-> {token}, csrf |-> {csrf},
                             live |-> LiveSession({token})] /\ UNCHANGED <<sessions, now>>
           \/ /\ call[c].pc = "csrf" /\ Found(call[c].token)
              /\ call'[c] = [call[c] EXCEPT !.pc = "user"]
           \/ call[c].pc = "user" /\ call'[c] = [call[c] EXCEPT !.pc = "acting"]
<1>1. call \in [Calls -> CallState]
  BY DEF SessionsInv, SessionsTypeOK
<1> DEFINE Moves ==
      \/ call'[c] = call[c]
      \/ call'[c] = IdleCall
      \/ \E token, csrf \in Handed :
            call'[c] = [pc |-> "csrf", token |-> {token}, csrf |-> {csrf},
                        live |-> LiveSession({token})] /\ UNCHANGED <<sessions, now>>
      \/ /\ call[c].pc = "csrf" /\ Found(call[c].token)
         /\ call'[c] = [call[c] EXCEPT !.pc = "user"]
      \/ call[c].pc = "user" /\ call'[c] = [call[c] EXCEPT !.pc = "acting"]
<1>2. ASSUME NEW d \in Calls, NEW token \in Handed, NEW csrf \in Handed, CallArrives(d, token, csrf)
      PROVE  Moves
  <2> DEFINE q == [pc |-> "csrf", token |-> {token}, csrf |-> {csrf}, live |-> LiveSession({token})]
  <2>1. call' = [call EXCEPT ![d] = q] /\ UNCHANGED <<sessions, now>>
    BY <1>2 DEF CallArrives, limiterState
  <2>2. CASE c = d
    <3>1. call'[c] = q
      BY <1>1, <2>1, <2>2
    <3> QED
      BY <2>1, <3>1
  <2>3. CASE c # d
    BY <1>1, <2>1, <2>3
  <2> QED
    BY <2>2, <2>3
<1>3. ASSUME NEW d \in Calls, CheckCsrf(d) \/ CheckUser(d) \/ Act(d) \/ Logout(d)
      PROVE  Moves
  <2>1. CASE c = d
    BY <1>1, <1>3, <2>1 DEF CheckCsrf, CheckUser, Act, Logout, Answer
  <2>2. CASE c # d
    BY <1>1, <1>3, <2>2 DEF CheckCsrf, CheckUser, Act, Logout, Answer
  <2> QED
    BY <2>1, <2>2
<1>4. CASE UNCHANGED call
  BY <1>4
<1>5. Moves
  BY <1>2, <1>3, <1>4
  DEF SessionsNext, sessionVars, LoginArrives, LoginRefused, LoginVerify, LoginCommit, LoginFails,
      SyncDelete, SyncCommit, SyncFails, TimePasses
<1> QED
  BY <1>5

LEMMA CallsStayLive ==
    ASSUME SessionsInv, [SessionsNext]_sessionVars
    PROVE  CallsLive'
<1> SUFFICES ASSUME NEW c \in Calls
             PROVE  /\ call'[c].pc # "idle" => call'[c].token \subseteq Handed'
                    /\ call'[c].pc = "csrf" /\ Found(call[c].token)' => call'[c].live
                    /\ call'[c].pc \in {"user", "acting"} => call'[c].live
  BY DEF CallsLive
<1>1. call[c] \in CallState
  BY DEF SessionsInv, SessionsTypeOK
<1>2. /\ call[c].pc # "idle" => call[c].token \subseteq Handed
      /\ call[c].pc = "csrf" /\ Found(call[c].token) => call[c].live
      /\ call[c].pc \in {"user", "acting"} => call[c].live
  BY DEF SessionsInv, CallsLive
<1>3. Handed \subseteq Handed'
  BY HandedStays
<1>4. CASE call'[c] = call[c]
  <2>1. call[c].pc = "csrf" /\ Found(call[c].token)' => Found(call[c].token)
    <3> SUFFICES ASSUME call[c].pc = "csrf", Found(call[c].token)' PROVE Found(call[c].token)
      OBVIOUS
    <3>1. PICK token : token = call[c].token
      OBVIOUS
    <3>2. Found(token)'
      BY <1>4, <3>1 DEF Found
    <3>3. token \subseteq Handed
      BY <1>2, <3>1
    <3>4. Found(token)
      BY <3>2, <3>3, FoundBefore
    <3> QED
      BY <3>1, <3>4
  <2> QED
    BY <1>2, <1>3, <1>4, <2>1
<1>5. CASE call'[c] = IdleCall
  BY <1>5 DEF IdleCall
<1>6. ASSUME NEW token \in Handed, NEW csrf \in Handed,
             call'[c] = [pc |-> "csrf", token |-> {token}, csrf |-> {csrf},
                         live |-> LiveSession({token})],
             UNCHANGED <<sessions, now>>
      PROVE  /\ call'[c].pc = "csrf" /\ call'[c].token \subseteq Handed'
             /\ Found(call[c].token)' => call'[c].live
  <2>1. call'[c].token = {token} /\ call'[c].live = LiveSession({token}) /\ call'[c].pc = "csrf"
    BY <1>6
  <2>2. Found(call[c].token)' => LiveSession({token})
    BY <1>6, <2>1 DEF Found, LiveSession
  <2> QED
    BY <1>3, <2>1, <2>2
<1>7. CASE /\ call[c].pc = "csrf" /\ Found(call[c].token)
           /\ call'[c] = [call[c] EXCEPT !.pc = "user"]
  <2>1. call'[c].pc = "user" /\ call'[c].token = call[c].token /\ call'[c].live = call[c].live
    BY <1>1, <1>7 DEF CallState
  <2> QED
    BY <1>2, <1>3, <1>7, <2>1
<1>8. CASE call[c].pc = "user" /\ call'[c] = [call[c] EXCEPT !.pc = "acting"]
  <2>1. call'[c].pc = "acting" /\ call'[c].token = call[c].token /\ call'[c].live = call[c].live
    BY <1>1, <1>8 DEF CallState
  <2> QED
    BY <1>2, <1>3, <1>8, <2>1
<1> QED
  BY <1>4, <1>5, <1>6, <1>7, <1>8, CallMoves

-----------------------------------------------------------------------------
LEMMA SessionsStep == SessionsInv /\ [SessionsNext]_sessionVars => SessionsInv'
<1> SUFFICES ASSUME SessionsInv, [SessionsNext]_sessionVars PROVE SessionsInv'
  OBVIOUS
<1>1. now' \in Nat
  BY ClockRuns DEF SessionsInv
<1>2. CallsLive'
  BY CallsStayLive
<1>3. SessionsTypeOK' /\ RevokedInv'
  <2>1. CASE UNCHANGED <<password, sessions, login, sync, call>>
    BY <2>1 DEF SessionsInv, SessionsTypeOK, RevokedInv, LoginsCurrent, SyncSees,
                OldSessionsRevoked
  <2>2. CASE \E l \in Logins : \/ \E k \in Keys, p \in Passwords : LoginArrives(l, k, p)
                               \/ LoginVerify(l) \/ LoginCommit(l) \/ LoginFails(l)
    BY <1>1, <2>2, LoginStep
  <2>3. CASE SyncDelete \/ SyncCommit \/ SyncFails
    BY <2>3, SyncStep
  <2>4. CASE \E c \in Calls : \/ \E token, csrf \in Handed : CallArrives(c, token, csrf)
                              \/ CheckCsrf(c) \/ CheckUser(c) \/ Act(c) \/ Logout(c)
    BY <2>4, CallStep
  <2> QED
    BY <2>1, <2>2, <2>3, <2>4 DEF SessionsNext, sessionVars, LoginRefused, TimePasses
<1> QED
  BY <1>1, <1>2, <1>3 DEF SessionsInv

LEMMA SessionsAlways == SessionsSpec => []SessionsInv
BY SessionsInitInv, SessionsStep, PTL DEF SessionsSpec

\* After a change of the password no session is left that was opened with an older one,
\* but by a login that went on while sync_admin_credentials did.
THEOREM RevokedCorrect == SessionsSpec => []OldSessionsRevoked
<1>1. SessionsInv => OldSessionsRevoked
  BY DEF SessionsInv, RevokedInv
<1> QED
  BY <1>1, SessionsAlways, PTL

\* A request that passes require_csrf and require_admin had an open session when it came in.
THEOREM LiveCorrect == SessionsSpec => []ActsWithLiveSession
<1>1. SessionsInv => ActsWithLiveSession
  BY DEF SessionsInv, CallsLive, ActsWithLiveSession
<1> QED
  BY <1>1, SessionsAlways, PTL

\* Composed with the sessions, the rate limiter takes its own steps only: what is proved
\* about it holds of the logins.
THEOREM LimiterUnchanged == SessionsSpec => LimiterSpec
<1>1. SessionsInit => LimiterInit
  BY DEF SessionsInit
<1>2. [SessionsNext]_sessionVars => [LimiterNext]_limiterVars
  BY DEF SessionsNext, sessionVars, limiterVars, limiterState, LoginArrives, LoginRefused,
         LoginVerify, LoginCommit, LoginFails, SyncDelete, SyncCommit, SyncFails, CallArrives,
         CheckCsrf, CheckUser, Act, Logout, Answer, TimePasses, LimiterNext
<1> QED
  BY <1>1, <1>2, PTL DEF SessionsSpec, LimiterSpec
=============================================================================
