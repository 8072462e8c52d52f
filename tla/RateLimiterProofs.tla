-------------------------- MODULE RateLimiterProofs -------------------------
(* What RateLimiter keeps for any clients, limit and window. *)
EXTENDS RateLimiter, SequenceTheorems, TLAPS

\* The queue of k is the end of what was let through.
QueueIsSuffix(k) ==
    /\ Len(events[k]) <= Limit
    /\ Len(events[k]) <= Len(admitted[k])
    /\ \A i \in 1 .. Len(events[k]) :
          events[k][i] = admitted[k][Len(admitted[k]) - Len(events[k]) + i]

\* What has been taken from the queue is out of the window.
DroppedExpired(k) == \A i \in 1 .. Len(admitted[k]) - Len(events[k]) : Expired(admitted[k][i])

\* Nothing was let through in the future.
InThePast(k) == \A i \in 1 .. Len(admitted[k]) : admitted[k][i] <= now

\* WindowLimit and RefusedWhenFull of one key.
KeyLimit(k) ==
    \A i \in 1 .. Len(admitted[k]) :
        i + Limit <= Len(admitted[k]) => admitted[k][i + Limit] - admitted[k][i] >= Window
KeyRefused(k) ==
    refused[k] # -1 =>
        \E i \in 1 .. Len(admitted[k]) :
            /\ i + Limit - 1 <= Len(admitted[k])
            /\ refused[k] - Window < admitted[k][i]
            /\ admitted[k][i + Limit - 1] <= refused[k]

KeyInv(k) == QueueIsSuffix(k) /\ DroppedExpired(k) /\ InThePast(k) /\ KeyLimit(k) /\ KeyRefused(k)

LimiterInv == LimiterTypeOK /\ \A k \in Keys : KeyInv(k)

LEMMA LimiterInitInv == LimiterInit => LimiterInv
<1> SUFFICES ASSUME LimiterInit PROVE LimiterInv
  OBVIOUS
<1>1. LimiterTypeOK
  BY DEF LimiterInit, LimiterTypeOK
<1>2. ASSUME NEW k \in Keys PROVE KeyInv(k)
  <2>1. events[k] = <<>> /\ admitted[k] = <<>> /\ refused[k] = -1
    BY DEF LimiterInit
  <2> QED
    BY <2>1, LimiterAssumption
    DEF KeyInv, QueueIsSuffix, DroppedExpired, InThePast, KeyLimit, KeyRefused
<1> QED
  BY <1>1, <1>2 DEF LimiterInv

\* What is left of the queue when its n expired events are taken.
LEMMA PrunedRest ==
    ASSUME LimiterInv, NEW k \in Keys, NEW n \in 0 .. Len(events[k]), Pruned(events[k], n)
    PROVE  LET rest == Rest(events[k], n)
               a == admitted[k]
           IN  /\ rest \in Seq(Nat)
               /\ Len(rest) = Len(events[k]) - n
               /\ Len(rest) <= Limit /\ Len(rest) <= Len(a)
               /\ \A i \in 1 .. Len(rest) : rest[i] = a[Len(a) - Len(rest) + i] /\ rest[i] = events[k][n + i]
               /\ \A i \in 1 .. Len(a) - Len(rest) : Expired(a[i])
<1> DEFINE e == events[k]  rest == Rest(e, n)  a == admitted[k]
<1>1. e \in Seq(Nat) /\ a \in Seq(Nat) /\ Limit \in Nat
  BY LimiterAssumption DEF LimiterInv, LimiterTypeOK
<1>2. /\ Len(e) <= Limit /\ Len(e) <= Len(a)
      /\ \A i \in 1 .. Len(e) : e[i] = a[Len(a) - Len(e) + i]
      /\ \A i \in 1 .. Len(a) - Len(e) : Expired(a[i])
  BY DEF LimiterInv, KeyInv, QueueIsSuffix, DroppedExpired
<1>3. Len(e) \in Nat /\ Len(a) \in Nat /\ n \in Nat /\ n <= Len(e)
  BY <1>1, LenProperties
<1>4. \A i \in n + 1 .. Len(e) : e[i] \in Nat
  BY <1>1, <1>3, ElementOfSeq
<1>5. /\ rest \in Seq(Nat)
      /\ Len(rest) = IF n + 1 <= Len(e) THEN Len(e) - (n + 1) + 1 ELSE 0
      /\ \A i \in 1 .. Len(e) - (n + 1) + 1 : rest[i] = e[n + 1 + i - 1]
  <2> HIDE DEF e
  <2> QED
    BY <1>3, <1>4, SubSeqProperties DEF Rest
<1>6. \A i \in 1 .. n : Expired(e[i])
  BY DEF Pruned
<1> HIDE DEF e, rest, a
<1>7. Len(rest) = Len(e) - n /\ Len(rest) \in Nat
  BY <1>3, <1>5
<1>8. ASSUME NEW i \in 1 .. Len(rest)
      PROVE  rest[i] = a[Len(a) - Len(rest) + i] /\ rest[i] = e[n + i]
  <2>1. i \in 1 .. Len(e) - (n + 1) + 1 /\ n + 1 + i - 1 = n + i /\ n + i \in 1 .. Len(e)
        /\ Len(a) - Len(e) + (n + i) = Len(a) - Len(rest) + i
    BY <1>3, <1>7
  <2>2. rest[i] = e[n + i]
    BY <2>1, <1>5
  <2>3. e[n + i] = a[Len(a) - Len(e) + (n + i)]
    BY <2>1, <1>2
  <2> QED
    BY <2>1, <2>2, <2>3
<1>9. ASSUME NEW i \in 1 .. Len(a) - Len(rest) PROVE Expired(a[i])
  <2>1. CASE i <= Len(a) - Len(e)
    BY <2>1, <1>2, <1>3
  <2>2. CASE i > Len(a) - Len(e)
    <3> DEFINE j == i - (Len(a) - Len(e))
    <3>1. j \in 1 .. n /\ j \in 1 .. Len(e) /\ Len(a) - Len(e) + j = i
      BY <2>2, <1>3, <1>7
    <3> HIDE DEF j
    <3>2. e[j] = a[i]
      BY <3>1, <1>2
    <3> QED
      BY <3>1, <3>2, <1>6
  <2> QED
    BY <2>1, <2>2, <1>3, <1>7
<1>10. Len(rest) <= Limit /\ Len(rest) <= Len(a)
  BY <1>1, <1>2, <1>3, <1>7
<1> QED
  BY <1>5, <1>7, <1>8, <1>9, <1>10 DEF e, rest, a

\* A step for one key leaves the others alone.
LEMMA OtherKey ==
    ASSUME NEW k, KeyInv(k), now' = now, events'[k] = events[k],
           admitted'[k] = admitted[k], refused'[k] = refused[k]
    PROVE  KeyInv(k)'
BY DEF KeyInv, QueueIsSuffix, DroppedExpired, InThePast, KeyLimit, KeyRefused, Expired

LEMMA AdmitInv ==
    ASSUME LimiterInv, NEW k \in Keys, Admit(k)
    PROVE  LimiterInv'
<1>1. PICK n \in 0 .. Len(events[k]) :
          /\ Pruned(events[k], n)
          /\ ~Full(events[k], n)
          /\ events' = [events EXCEPT ![k] = Append(Rest(@, n), now)]
  BY DEF Admit
<1> DEFINE rest == Rest(events[k], n)  a == admitted[k]  e == events[k]
           la == Len(a)  lr == Len(rest)  nextE == events'[k]  nextA == admitted'[k]
<1>2. /\ rest \in Seq(Nat) /\ lr = Len(e) - n
      /\ lr <= Limit /\ lr <= la
      /\ \A i \in 1 .. lr : rest[i] = a[la - lr + i]
      /\ \A i \in 1 .. la - lr : a[i] <= now - Window
  BY <1>1, PrunedRest DEF Expired
<1>3. /\ a \in Seq(Nat) /\ now \in Nat /\ Limit \in Nat \ {0} /\ Window \in Nat
      /\ events \in [Keys -> Seq(Nat)] /\ admitted \in [Keys -> Seq(Nat)]
      /\ refused \in [Keys -> Nat \cup {-1}]
  BY LimiterAssumption DEF LimiterInv, LimiterTypeOK
<1>4. la \in Nat /\ lr \in Nat /\ \A i \in 1 .. la : a[i] \in Nat /\ a[i] <= now
  BY <1>2, <1>3, LenProperties, ElementOfSeq DEF LimiterInv, KeyInv, InThePast
<1>5. lr < Limit
  BY <1>1, <1>2, <1>3, <1>4 DEF Full
<1>6. nextE = Append(rest, now) /\ nextA = Append(a, now) /\ UNCHANGED <<refused, now>>
  BY <1>1, <1>3 DEF Admit
<1>7. Append(rest, now) \in Seq(Nat) /\ Append(a, now) \in Seq(Nat)
  BY <1>2, <1>3, AppendProperties
<1>8. LimiterTypeOK'
  BY <1>1, <1>3, <1>6, <1>7 DEF LimiterTypeOK, Admit
<1>9. /\ Len(nextE) = lr + 1 /\ Len(nextA) = la + 1
      /\ \A i \in 1 .. lr : nextE[i] = rest[i]
      /\ \A i \in 1 .. la : nextA[i] = a[i]
      /\ nextE[lr + 1] = now /\ nextA[la + 1] = now
  <2>1. Len(nextE) = lr + 1 /\ (\A i \in 1 .. lr : nextE[i] = rest[i]) /\ nextE[lr + 1] = now
    <3> HIDE DEF rest, nextE
    <3> QED
      BY <1>2, <1>3, <1>6, AppendProperties
  <2>2. Len(nextA) = la + 1 /\ (\A i \in 1 .. la : nextA[i] = a[i]) /\ nextA[la + 1] = now
    <3> HIDE DEF a, nextA
    <3> QED
      BY <1>3, <1>6, AppendProperties
  <2> QED
    BY <2>1, <2>2
<1>10. /\ \A i \in 1 .. la : i + Limit <= la => a[i + Limit] - a[i] >= Window
       /\ refused[k] # -1 => \E i \in 1 .. la : /\ i + Limit - 1 <= la
                                                /\ refused[k] - Window < a[i]
                                                /\ a[i + Limit - 1] <= refused[k]
  BY DEF LimiterInv, KeyInv, KeyLimit, KeyRefused
<1>11. KeyInv(k)'
  <2> HIDE DEF rest, a, la, lr, e, nextE, nextA
  <2>1. QueueIsSuffix(k)'
    <3>1. ASSUME NEW i \in 1 .. lr + 1 PROVE nextE[i] = nextA[(la + 1) - (lr + 1) + i]
      <4>1. CASE i \in 1 .. lr
        <5>1. (la + 1) - (lr + 1) + i = la - lr + i /\ la - lr + i \in 1 .. la
          BY <4>1, <1>2, <1>4
        <5> QED
          BY <4>1, <5>1, <1>2, <1>9
      <4>2. CASE i = lr + 1
        <5>1. (la + 1) - (lr + 1) + i = la + 1
          BY <4>2, <1>4
        <5> QED
          BY <4>2, <5>1, <1>9
      <4> QED
        BY <4>1, <4>2, <1>4
    <3>2. lr + 1 <= Limit /\ lr + 1 <= la + 1
      BY <1>2, <1>3, <1>4, <1>5
    <3> QED
      BY <3>1, <3>2, <1>9 DEF QueueIsSuffix, nextE, nextA
  <2>2. DroppedExpired(k)'
    <3>1. ASSUME NEW i \in 1 .. (la + 1) - (lr + 1) PROVE nextA[i] <= now - Window
      <4>1. i \in 1 .. la - lr /\ i \in 1 .. la
        BY <1>2, <1>4
      <4> QED
        BY <4>1, <1>2, <1>9
    <3> QED
      BY <3>1, <1>6, <1>9 DEF DroppedExpired, Expired, nextE, nextA
  <2>3. InThePast(k)'
    <3>1. ASSUME NEW i \in 1 .. la + 1 PROVE nextA[i] <= now
      <4>1. CASE i \in 1 .. la
        BY <4>1, <1>4, <1>9
      <4>2. CASE i = la + 1
        BY <4>2, <1>3, <1>9
      <4> QED
        BY <4>1, <4>2, <1>4
    <3> QED
      BY <3>1, <1>6, <1>9 DEF InThePast, nextA
  <2>4. KeyLimit(k)'
    <3>1. ASSUME NEW i \in 1 .. la + 1, i + Limit <= la + 1
          PROVE  nextA[i + Limit] - nextA[i] >= Window
      <4>1. CASE i + Limit <= la
        <5>1. i \in 1 .. la /\ i + Limit \in 1 .. la
          BY <4>1, <1>3, <1>4
        <5> QED
          BY <4>1, <5>1, <1>9, <1>10
      <4>2. CASE i + Limit = la + 1
        <5>1. i \in 1 .. la - lr /\ i \in 1 .. la
          BY <4>2, <1>3, <1>4, <1>5
        <5>2. a[i] <= now - Window /\ a[i] \in Nat /\ nextA[i] = a[i] /\ nextA[i + Limit] = now
          BY <4>2, <5>1, <1>2, <1>4, <1>9
        <5> QED
          BY <5>2, <1>3
      <4> QED
        BY <3>1, <4>1, <4>2, <1>3, <1>4
    <3> QED
      BY <3>1, <1>9 DEF KeyLimit, nextA
  <2>5. KeyRefused(k)'
    <3>1. ASSUME refused[k] # -1
          PROVE  \E i \in 1 .. la + 1 : /\ i + Limit - 1 <= la + 1
                                        /\ refused[k] - Window < nextA[i]
                                        /\ nextA[i + Limit - 1] <= refused[k]
      <4>1. PICK i \in 1 .. la : /\ i + Limit - 1 <= la
                                 /\ refused[k] - Window < a[i]
                                 /\ a[i + Limit - 1] <= refused[k]
        BY <3>1, <1>10
      <4>2. i \in 1 .. la + 1 /\ i + Limit - 1 \in 1 .. la /\ i + Limit - 1 <= la + 1
        BY <4>1, <1>3, <1>4
      <4> QED
        BY <4>1, <4>2, <1>9
    <3> QED
      BY <3>1, <1>6, <1>9 DEF KeyRefused, nextA
  <2> QED
    BY <2>1, <2>2, <2>3, <2>4, <2>5 DEF KeyInv
<1>12. ASSUME NEW h \in Keys, h # k PROVE KeyInv(h)'
  BY <1>1, <1>3, <1>6, <1>12, OtherKey DEF LimiterInv, Admit
<1> QED
  BY <1>8, <1>11, <1>12 DEF LimiterInv

LEMMA RefuseInv ==
    ASSUME LimiterInv, NEW k \in Keys, Refuse(k)
    PROVE  LimiterInv'
<1>1. PICK n \in 0 .. Len(events[k]) :
          /\ Pruned(events[k], n)
          /\ Full(events[k], n)
          /\ events' = [events EXCEPT ![k] = Rest(@, n)]
  BY DEF Refuse
<1> DEFINE rest == Rest(events[k], n)  a == admitted[k]  e == events[k]
           la == Len(a)  lr == Len(rest)
<1>2. /\ rest \in Seq(Nat) /\ lr = Len(e) - n
      /\ lr <= Limit /\ lr <= la
      /\ \A i \in 1 .. lr : rest[i] = a[la - lr + i] /\ rest[i] = e[n + i]
      /\ \A i \in 1 .. la - lr : Expired(a[i])
  BY <1>1, PrunedRest
<1>3. /\ a \in Seq(Nat) /\ e \in Seq(Nat) /\ now \in Nat /\ Limit \in Nat \ {0} /\ Window \in Nat
      /\ events \in [Keys -> Seq(Nat)] /\ refused \in [Keys -> Nat \cup {-1}]
  BY LimiterAssumption DEF LimiterInv, LimiterTypeOK
<1>4. /\ la \in Nat /\ lr \in Nat /\ Len(e) \in Nat /\ n \in Nat
      /\ \A i \in 1 .. la : a[i] \in Nat /\ a[i] <= now
  BY <1>2, <1>3, LenProperties, ElementOfSeq DEF LimiterInv, KeyInv, InThePast
<1>5. lr = Limit /\ n < Len(e)
  <2>1. Len(e) - n >= Limit
    BY <1>1 DEF Full
  <2> HIDE DEF rest, e, lr
  <2> QED
    BY <2>1, <1>2, <1>3, <1>4
<1>6. LimiterTypeOK'
  BY <1>1, <1>2, <1>3 DEF LimiterInv, LimiterTypeOK, Refuse
<1>7. events'[k] = rest /\ admitted' = admitted /\ refused'[k] = now /\ now' = now
  BY <1>1, <1>3 DEF Refuse
<1>8. ~Expired(e[n + 1])
  BY <1>1, <1>5 DEF Pruned
<1>9. KeyInv(k)'
  <2> HIDE DEF rest, a, e, la, lr
  <2>1. QueueIsSuffix(k)' /\ DroppedExpired(k)'
    BY <1>2, <1>7 DEF QueueIsSuffix, DroppedExpired, Expired, a, la, lr
  <2>2. InThePast(k)' /\ KeyLimit(k)'
    BY <1>7 DEF LimiterInv, KeyInv, InThePast, KeyLimit
  <2>3. KeyRefused(k)'
    <3> DEFINE i == la - lr + 1
    <3>1. i \in 1 .. la /\ i + Limit - 1 = la /\ 1 \in 1 .. lr /\ la \in 1 .. la
      <4>1. lr = Limit /\ lr <= la /\ la \in Nat /\ Limit \in Nat \ {0}
        BY <1>2, <1>3, <1>4, <1>5
      <4> QED
        BY <4>1
    <3> HIDE DEF i
    <3>2. a[i] = e[n + 1] /\ a[i] \in Nat
      BY <3>1, <1>2, <1>4 DEF i
    <3>3. now - Window < a[i]
      BY <3>2, <1>3, <1>8 DEF Expired
    <3>4. a[la] <= now
      BY <3>1, <1>4
    <3> QED
      BY <3>1, <3>3, <3>4, <1>7 DEF KeyRefused, a, la
  <2> QED
    BY <2>1, <2>2, <2>3 DEF KeyInv
<1>10. ASSUME NEW h \in Keys, h # k PROVE KeyInv(h)'
  BY <1>1, <1>3, <1>7, <1>10, OtherKey DEF LimiterInv, Refuse
<1> QED
  BY <1>6, <1>9, <1>10 DEF LimiterInv

LEMMA TickInv ==
    ASSUME LimiterInv, Tick
    PROVE  LimiterInv'
<1>1. now \in Nat /\ now' = now + 1 /\ UNCHANGED <<events, admitted, refused>>
  BY DEF Tick, LimiterInv, LimiterTypeOK
<1>2. LimiterTypeOK'
  BY <1>1 DEF LimiterInv, LimiterTypeOK
<1>3. ASSUME NEW k \in Keys PROVE KeyInv(k)'
  <2> DEFINE a == admitted[k]  la == Len(a)  kept == Len(events[k])
  <2>1. a \in Seq(Nat) /\ events[k] \in Seq(Nat) /\ Window \in Nat
    BY LimiterAssumption DEF LimiterInv, LimiterTypeOK
  <2>2. la \in Nat /\ kept \in Nat /\ \A i \in 1 .. la : a[i] \in Nat
    BY <2>1, LenProperties, ElementOfSeq
  <2>3. KeyInv(k)
    BY DEF LimiterInv
  <2>4. /\ \A i \in 1 .. la - kept : a[i] <= now - Window
        /\ \A i \in 1 .. la : a[i] <= now
    BY <2>3 DEF KeyInv, DroppedExpired, InThePast, Expired
  <2>5. DroppedExpired(k)' /\ InThePast(k)'
    <3> HIDE DEF a, la, kept
    <3>1. \A i \in 1 .. la - kept : a[i] <= (now + 1) - Window
      BY <1>1, <2>1, <2>2, <2>4
    <3>2. \A i \in 1 .. la : a[i] <= now + 1
      BY <1>1, <2>2, <2>4
    <3> QED
      BY <1>1, <3>1, <3>2 DEF DroppedExpired, InThePast, Expired, a, la, kept
  <2>6. QueueIsSuffix(k)' /\ KeyLimit(k)' /\ KeyRefused(k)'
    BY <1>1, <2>3 DEF KeyInv, QueueIsSuffix, KeyLimit, KeyRefused
  <2> QED
    BY <2>5, <2>6 DEF KeyInv
<1> QED
  BY <1>2, <1>3 DEF LimiterInv

LEMMA LimiterIdle ==
    ASSUME LimiterInv, UNCHANGED limiterVars
    PROVE  LimiterInv'
BY DEF limiterVars, LimiterInv, LimiterTypeOK, KeyInv, QueueIsSuffix, DroppedExpired, InThePast,
       KeyLimit, KeyRefused, Expired

LEMMA LimiterStep == LimiterInv /\ [LimiterNext]_limiterVars => LimiterInv'
BY AdmitInv, RefuseInv, TickInv, LimiterIdle DEF LimiterNext

LEMMA LimiterInvImplies == LimiterInv => LimiterTypeOK /\ WindowLimit /\ RefusedWhenFull
BY DEF LimiterInv, KeyInv, KeyLimit, KeyRefused, WindowLimit, RefusedWhenFull

\* SecurityAndRateLimitMiddleware lets no more than Limit requests of one client and
\* path through in any window, wherever it begins.
THEOREM LimitCorrect == LimiterSpec => []WindowLimit
<1>1. LimiterSpec => []LimiterInv
  BY LimiterInitInv, LimiterStep, PTL DEF LimiterSpec
<1> QED
  BY <1>1, LimiterInvImplies, PTL

\* It refuses a request only when that many were let through in the window before it.
THEOREM RefusalCorrect == LimiterSpec => []RefusedWhenFull
<1>1. LimiterSpec => []LimiterInv
  BY LimiterInitInv, LimiterStep, PTL DEF LimiterSpec
<1> QED
  BY <1>1, LimiterInvImplies, PTL
=============================================================================
