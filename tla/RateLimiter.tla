----------------------------- MODULE RateLimiter -----------------------------
(***************************************************************************)
(* SecurityAndRateLimitMiddleware (apps/api/afs/observability.py): for each  *)
(* client and limited path a queue of the times of the requests it let      *)
(* through.  dispatch does not wait between reading the clock and appending, *)
(* so that a decision is one step.                                          *)
(***************************************************************************)
EXTENDS Integers, Sequences

CONSTANTS
    Keys,      \* client and path, for the limited paths
    Limit,     \* requests in one window: 30 in the code
    Window,    \* its length: 60 seconds
    MaxTime    \* bound: the clock

ASSUME LimiterAssumption ==
    /\ Limit \in Nat \ {0}
    /\ Window \in Nat \ {0}
    /\ MaxTime \in Nat

VARIABLES
    now,        \* time.monotonic()
    events,     \* [Keys -> Seq(times)], the queues
    admitted,   \* history: the times of all requests let through, for each key
    refused     \* history: the time of the last refusal of each key, -1 before

limiterVars == <<now, events, admitted, refused>>

LimiterInit ==
    /\ now = 0
    /\ events = [k \in Keys |-> <<>>]
    /\ admitted = [k \in Keys |-> <<>>]
    /\ refused = [k \in Keys |-> -1]

\* Mutant: a request as old as the window still counts.
MutExpired(t) == t < now - Window

\* An event that has left the window.
Expired(t) == t <= now - Window

\* The loop takes n events from the left of q: all up to the first that has not expired.
Pruned(q, n) ==
    /\ n \in 0 .. Len(q)
    /\ \A i \in 1 .. n : Expired(q[i])
    /\ n < Len(q) => ~Expired(q[n + 1])

\* Mutant: one more is let through.
MutFull(q, n) == Len(q) - n > Limit

\* What is left when n are taken reaches the limit.
Full(q, n) == Len(q) - n >= Limit

Rest(q, n) == SubSeq(q, n + 1, Len(q))

\* The request goes on to its handler.
Admit(k) ==
    /\ \E n \in 0 .. Len(events[k]) :
          /\ Pruned(events[k], n)
          /\ ~Full(events[k], n)
          /\ events' = [events EXCEPT ![k] = Append(Rest(@, n), now)]
    /\ admitted' = [admitted EXCEPT ![k] = Append(@, now)]
    /\ UNCHANGED <<now, refused>>

\* 429, with Retry-After.
Refuse(k) ==
    /\ \E n \in 0 .. Len(events[k]) :
          /\ Pruned(events[k], n)
          /\ Full(events[k], n)
          /\ events' = [events EXCEPT ![k] = Rest(@, n)]
    /\ refused' = [refused EXCEPT ![k] = now]
    /\ UNCHANGED <<now, admitted>>

Tick ==
    /\ now < MaxTime
    /\ now' = now + 1
    /\ UNCHANGED <<events, admitted, refused>>

LimiterNext == Tick \/ \E k \in Keys : Admit(k) \/ Refuse(k)

LimiterSpec == LimiterInit /\ [][LimiterNext]_limiterVars

-----------------------------------------------------------------------------
(* Properties.                                                              *)

LimiterTypeOK ==
    /\ now \in Nat
    /\ events \in [Keys -> Seq(Nat)]
    /\ admitted \in [Keys -> Seq(Nat)]
    /\ refused \in [Keys -> Nat \cup {-1}]

\* No window, wherever it begins, holds more than Limit requests of one key: of the
\* requests let through, one and the Limit-th after it are a window apart.
WindowLimit ==
    \A k \in Keys : \A i \in 1 .. Len(admitted[k]) :
        i + Limit <= Len(admitted[k]) => admitted[k][i + Limit] - admitted[k][i] >= Window

\* A request is refused only when Limit requests of its key were let through in the
\* window that ends with it: nobody is locked out by refusals or by old requests.
RefusedWhenFull ==
    \A k \in Keys : refused[k] # -1 =>
        \E i \in 1 .. Len(admitted[k]) :
            /\ i + Limit - 1 <= Len(admitted[k])
            /\ refused[k] - Window < admitted[k][i]
            /\ admitted[k][i + Limit - 1] <= refused[k]
=============================================================================
