-------------------------- MODULE CooldownHistory ---------------------------
(***************************************************************************)
(* CaptionIngestion within one window of 30 minutes, with a history         *)
(* variable that counts the IP-block responses YouTube has given in it.     *)
(* The code keeps no such count: it counts the failed rows that still show  *)
(* such a response.                                                         *)
(***************************************************************************)
EXTENDS MCCaptionIngestion

VARIABLE responses   \* IP-block responses so far

hvars == <<vars, responses>>

HInit == Init /\ responses = 0

\* The steps of one window: no block ages out and the date stays the same.
WindowStep ==
    \/ \E r \in Requests, zyte \in BOOLEAN, n \in Limits : StartBatch(r, zyte, n)
    \/ \E r \in Requests : RequestStep(r)
    \/ \E w \in Workers : WorkerStep(w) \/ FetchBlocked(w) \/ Raise(w)

Blocked == \E w \in Workers : worker[w].pc = "fetching" /\ worker'[w].fault = "blocked"

HNext ==
    /\ WindowStep
    /\ responses' = IF Blocked THEN responses + 1 ELSE responses

HSpec == HInit /\ [][HNext]_hvars

\* docs/approved-source-processing.md: "Direct caption requests activate a
\* 30-minute cooldown after three recent YouTube IP-block responses."  Once the
\* window has seen that many responses, no task begins another direct fetch.
CooldownKept ==
    [][\A w \in Workers :
          worker[w].pc = "marking" /\ worker'[w].pc = "checking" /\ ~worker[w].zyte
              => responses < BlockLimit]_hvars
=============================================================================
