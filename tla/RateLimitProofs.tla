----------------------------- MODULE RateLimitProofs -----------------------------
(***************************************************************************)
(* The limiters hand out no more than their buckets hold and time refills. *)
(*                                                                         *)
(* The argument is a balance per bucket, in ticks: what was handed out     *)
(* under a key, what is left there and what the key would be credited if   *)
(* it were looked at now are together no more than one full bucket per     *)
(* start of the server and the time that passed.  A clock set back takes   *)
(* credit away that was not claimed, and counts the time it goes over      *)
(* again a second time on both sides.                                      *)
(***************************************************************************)
EXTENDS RateLimit, TLAPS

\* One bucket's balance: `spent` tokens were counted against limiter l under k.
Balanced(l, k, spent) ==
  IF buckets[l][k] = None
    THEN spent * Cost(l) <= restarts * Full(l) + Passed
    ELSE spent * Cost(l) + buckets[l][k].credit + Elapsed(buckets[l][k].last_seen)
           <= (restarts + 1) * Full(l) + Passed

\* The inductive invariant.
Balance ==
  /\ \A e \in Emails : Balanced("magic_email", e, mailed[e])
  /\ \A i \in Ips : Balanced("magic_ip", i, guesses[i])

\* Constants of the limiters are positive.
LEMMA LimiterFacts ==
  ASSUME NEW l \in Limiters
  PROVE  Cost(l) \in Nat \ {0} /\ Capacity(l) \in Nat \ {0} /\ Full(l) \in Nat /\ Full(l) >= Cost(l)
<1>1. Cost(l) \in Nat \ {0} /\ Capacity(l) \in Nat \ {0}
  BY LimiterAssumption DEF Cost, Capacity
<1>2. \A x, y \in Nat \ {0} : x * y \in Nat /\ x * y >= y
  OBVIOUS
<1> QED BY <1>1, <1>2 DEF Full

\* What a key is found to have, and what is left there, are in range.
LEMMA CreditFacts ==
  ASSUME TypeOK, NEW l \in Limiters, NEW k \in Keys
  PROVE  /\ Credit(l, k) \in Nat /\ Credit(l, k) <= Full(l)
         /\ Charged(l, k) \in Bucket /\ Charged(l, k).credit <= Full(l)
         /\ Charged(l, k).last_seen = now
         /\ Charged(l, k).credit = IF Allows(l, k) THEN Credit(l, k) - Cost(l) ELSE Credit(l, k)
<1>1. Cost(l) \in Nat \ {0} /\ Full(l) \in Nat
  BY LimiterFacts
<1>2. now \in Nat /\ now \in Times
  BY TimeBoundsAssumption DEF TypeOK, Times
<1>3. buckets[l][k] # None => /\ buckets[l][k] \in Bucket
                              /\ buckets[l][k].credit <= Full(l)
  BY DEF TypeOK
<1>4. Credit(l, k) \in Nat /\ Credit(l, k) <= Full(l)
  <2>1. CASE buckets[l][k] = None
    BY <2>1, <1>1 DEF Credit
  <2>2. CASE buckets[l][k] # None
    <3>1. Elapsed(buckets[l][k].last_seen) \in Nat
      BY <1>2, <1>3, <2>2, TimeBoundsAssumption DEF Elapsed, Bucket, Times
    <3>2. buckets[l][k].credit \in Nat
      BY <1>3, <2>2 DEF Bucket
    <3> QED BY <3>1, <3>2, <2>2, <1>1 DEF Credit, Refilled, Least
  <2> QED BY <2>1, <2>2
<1>5. Allows(l, k) => Credit(l, k) >= Cost(l)
  BY DEF Allows
<1> QED BY <1>1, <1>2, <1>4, <1>5 DEF Charged, Bucket

-----------------------------------------------------------------------------
(* The limiter keeps a bucket balanced.                                    *)

\* A step that leaves the clock and the bucket alone leaves the balance alone.
LEMMA BalanceUntouched ==
  ASSUME NEW l \in Limiters, NEW k \in Keys, NEW spent \in Nat,
         Balanced(l, k, spent),
         UNCHANGED clock, buckets'[l][k] = buckets[l][k]
  PROVE  Balanced(l, k, spent)'
  BY DEF Balanced, clock, Passed, Elapsed, Full, Cost, Capacity

\* A call that is refused is counted nowhere; one that is let through may be
\* counted once.
LEMMA BalanceCharged ==
  ASSUME TypeOK, NEW l \in Limiters, NEW k \in Keys, NEW spent \in Nat, NEW more \in {0, 1},
         Balanced(l, k, spent),
         more = 1 => Allows(l, k),
         UNCHANGED clock, buckets'[l][k] = Charged(l, k)
  PROVE  Balanced(l, k, spent + more)'
<1> DEFINE c == Cost(l)
           f == Full(l)
           u == spent * c
           r == restarts * f
<1>1. c \in Nat \ {0} /\ f \in Nat /\ f >= c
  BY LimiterFacts
<1>2. now \in Nat /\ back \in Nat /\ restarts \in Nat
  BY TimeBoundsAssumption DEF TypeOK, Times
<1>3. u \in Nat /\ r \in Nat /\ (restarts + 1) * f = r + f /\ (spent + 1) * c = u + c
  <2>1. \A x, y \in Nat : x * y \in Nat /\ (x + 1) * y = x * y + y
    OBVIOUS
  <2> QED BY <2>1, <1>1, <1>2
<1>4. /\ Credit(l, k) \in Nat
      /\ Charged(l, k) # None
      /\ Charged(l, k).last_seen = now
      /\ Charged(l, k).credit = IF Allows(l, k) THEN Credit(l, k) - c ELSE Credit(l, k)
  BY CreditFacts, NoBucketAssumption
<1>5. u + Credit(l, k) <= r + f + (now + back)
  <2>1. CASE buckets[l][k] = None
    BY <2>1, <1>1, <1>2, <1>3 DEF Balanced, Passed, Credit
  <2>2. CASE buckets[l][k] # None
    <3>1. buckets[l][k] \in Bucket
      BY <2>2 DEF TypeOK
    <3>2. buckets[l][k].credit \in Nat /\ Elapsed(buckets[l][k].last_seen) \in Nat
      BY <3>1, <1>2, TimeBoundsAssumption DEF Bucket, Times, Elapsed
    <3>3. u + buckets[l][k].credit + Elapsed(buckets[l][k].last_seen) <= r + f + (now + back)
      BY <2>2, <1>3 DEF Balanced, Passed
    <3>4. Credit(l, k) <= buckets[l][k].credit + Elapsed(buckets[l][k].last_seen)
      BY <2>2, <3>2, <1>1 DEF Credit, Refilled, Least
    <3> HIDE DEF u, r, f, c
    <3> QED BY <3>2, <3>3, <3>4, <1>1, <1>2, <1>3, <1>4
  <2> QED BY <2>1, <2>2
<1>6. (spent + more) * c = u + more * c
  BY <1>1, <1>3
<1>7. (spent + more) * c + Charged(l, k).credit <= r + f + (now + back)
  <2>1. CASE more = 1
    <3>1. Charged(l, k).credit = Credit(l, k) - c
      BY <2>1, <1>4
    <3> HIDE DEF u, r, f, c
    <3> QED BY <2>1, <3>1, <1>1, <1>2, <1>3, <1>4, <1>5, <1>6
  <2>2. CASE more = 0
    <3>1. Charged(l, k).credit <= Credit(l, k) /\ Charged(l, k).credit \in Int
      BY <1>1, <1>4
    <3>2. (spent + more) * c = u
      BY <2>2, <1>1
    <3> HIDE DEF u, r, f, c
    <3> QED BY <3>1, <3>2, <1>1, <1>2, <1>3, <1>4, <1>5
  <2> QED BY <2>1, <2>2
<1>8. Charged(l, k).credit \in Nat
  BY CreditFacts DEF Bucket
<1>9. now' = now /\ back' = back /\ restarts' = restarts
  BY DEF clock
<1>10. buckets'[l][k].last_seen = now /\ now' = now
  BY <1>4, <1>9
<1>11. Elapsed(buckets[l][k].last_seen)' = 0
  BY <1>2, <1>10 DEF Elapsed
<1> QED
  <2>1. (spent + more) * c + Charged(l, k).credit + 0 <= (restarts + 1) * f + (now + back)
    BY <1>3, <1>7, <1>8, <1>6, <1>1, <1>2
  <2>2. buckets'[l][k] # None /\ buckets'[l][k].credit = Charged(l, k).credit
    BY <1>4
  <2>3. (Passed)' = now + back
    BY <1>9 DEF Passed
  <2>4. ((restarts + 1) * Full(l))' = (restarts + 1) * f /\ Cost(l)' = c
    BY <1>9 DEF Full, Cost, Capacity
  <2> QED BY <2>1, <2>2, <2>3, <2>4, <1>11 DEF Balanced

-----------------------------------------------------------------------------
(* Types.                                                                  *)

\* The seven actions keep every variable in its type.
THEOREM TypeInv == Spec => []TypeOK
<1>1. Init => TypeOK
  <2> SUFFICES ASSUME Init PROVE TypeOK
    OBVIOUS
  <2>1. 0 \in Times /\ 0 \in 0..MaxBack /\ 0 \in 0..MaxRestarts /\ 0 \in SigningKeys /\ 0 \in Epochs
    BY TimeBoundsAssumption DEF Times, SigningKeys, Epochs
  <2>2. buckets \in [Limiters -> [Keys -> Bucket \cup {None}]]
    BY DEF Init, Empty
  <2>3. \A l \in Limiters, k \in Keys : buckets[l][k] = None
    BY DEF Init, Empty
  <2> QED BY <2>1, <2>2, <2>3 DEF Init, TypeOK
<1>2. TypeOK /\ [Next]_vars => TypeOK'
  <2> SUFFICES ASSUME TypeOK, [Next]_vars PROVE TypeOK'
    OBVIOUS
  <2>0. /\ now \in Times /\ now \in Nat /\ back \in 0..MaxBack /\ restarts \in 0..MaxRestarts
        /\ key \in SigningKeys /\ epoch \in [Emails -> Epochs]
        /\ session \in [Callers -> Tokens \cup {None}]
        /\ mailed \in [Emails -> Nat] /\ guesses \in [Ips -> Nat]
        /\ buckets \in [Limiters -> [Keys -> Bucket \cup {None}]]
        /\ \A l \in Limiters, k \in Keys : buckets[l][k] # None => buckets[l][k].credit <= Full(l)
    BY TimeBoundsAssumption DEF TypeOK, Times
  <2> DEFINE BucketsOK(B) ==
        /\ B \in [Limiters -> [Keys -> Bucket \cup {None}]]
        /\ \A l \in Limiters, k \in Keys : B[l][k] # None => B[l][k].credit <= Full(l)
  <2>1. \A l \in Limiters, k \in Keys : \A B :
          BucketsOK(B) => BucketsOK([B EXCEPT ![l][k] = Charged(l, k)])
    <3> TAKE l \in Limiters, k \in Keys
    <3> TAKE B
    <3> HAVE BucketsOK(B)
    <3>1. Charged(l, k) \in Bucket /\ Charged(l, k).credit <= Full(l)
      BY CreditFacts
    <3> QED BY <3>1
  <2>2. BucketsOK(buckets)
    BY <2>0
  <2>3. BucketsOK(buckets)' <=> BucketsOK(buckets')
    BY DEF Full, Cost, Capacity
  <2>4. "magic_ip" \in Limiters /\ "magic_email" \in Limiters /\ "ceremony_ip" \in Limiters
        /\ Ips \subseteq Keys /\ Emails \subseteq Keys
    BY DEF Limiters, Keys
  <2>5. ASSUME NEW i \in Ips, NEW e \in Emails, LinkQuota(i, e), UNCHANGED <<clock, sessions>>
        PROVE  TypeOK'
    <3>1. BucketsOK(buckets')
      <4>1. CASE Allows("magic_ip", i)
        <5>1. buckets' = [buckets EXCEPT !["magic_ip"][i] = Charged("magic_ip", i),
                                         !["magic_email"][e] = Charged("magic_email", e)]
          BY <2>5, <4>1 DEF LinkQuota
        <5>2. BucketsOK([buckets EXCEPT !["magic_ip"][i] = Charged("magic_ip", i)])
          BY <2>1, <2>2, <2>4
        <5> HIDE DEF BucketsOK
        <5>3. BucketsOK([[buckets EXCEPT !["magic_ip"][i] = Charged("magic_ip", i)]
                            EXCEPT !["magic_email"][e] = Charged("magic_email", e)])
          BY <2>1, <2>4, <5>2
        <5> QED BY <5>1, <5>3
      <4>2. CASE ~Allows("magic_ip", i)
        <5>1. buckets' = [buckets EXCEPT !["magic_ip"][i] = Charged("magic_ip", i)]
          BY <2>5, <4>2 DEF LinkQuota
        <5> HIDE DEF BucketsOK
        <5> QED BY <2>1, <2>2, <2>4, <5>1
      <4> QED BY <4>1, <4>2
    <3>2. mailed' \in [Emails -> Nat] /\ guesses' \in [Ips -> Nat]
      BY <2>0, <2>5 DEF LinkQuota, history
    <3> QED BY <2>0, <2>5, <3>1, <3>2, <2>3 DEF TypeOK, clock, sessions
  <2>6. ASSUME NEW i \in Ips, NEW e \in Emails, RequestLink(i, e) \/ ReissueLink(i, e)
        PROVE  TypeOK'
    BY <2>5, <2>6 DEF RequestLink, ReissueLink
  <2>7. ASSUME NEW d \in Callers, StartCeremony(d)
        PROVE  TypeOK'
    <3>1. Quota(d) \in Limiters /\ IpOf[d] \in Keys /\ IpOf[d] \in Ips
      BY CallersAssumption DEF Quota, Limiters, Keys
    <3>2. BucketsOK(buckets')
      BY <2>1, <2>2, <2>7, <3>1 DEF StartCeremony
    <3>3. guesses' \in [Ips -> Nat]
      BY <2>0, <2>7, <3>1 DEF StartCeremony
    <3> QED BY <2>0, <2>7, <3>2, <3>3, <2>3 DEF StartCeremony, TypeOK, clock, sessions
  <2>8. ASSUME NEW d \in Callers, SignIn(d)
        PROVE  TypeOK'
    <3>1. Issue(EmailOf[d], epoch[EmailOf[d]], now, key) \in Tokens
      BY <2>0, CallersAssumption, TokenAssumption DEF Issue, Tokens, Token
    <3> QED BY <2>0, <2>8, <3>1, <2>3 DEF SignIn, TypeOK, clock, history
  <2>9. ASSUME NEW e \in Emails, SignOutEverywhere(e)
        PROVE  TypeOK'
    BY <2>0, <2>9, <2>3, TimeBoundsAssumption DEF SignOutEverywhere, TypeOK, clock, history, Epochs
  <2>10. CASE Tick
    BY <2>0, <2>10, <2>3, TimeBoundsAssumption DEF Tick, TypeOK, Times, sessions, history
  <2>11. CASE StepBack
    BY <2>0, <2>11, <2>3, TimeBoundsAssumption DEF StepBack, TypeOK, Times, sessions, history
  <2>12. CASE Restart
    <3>1. BucketsOK(buckets')
      BY <2>12 DEF Restart, Empty
    <3>2. restarts' \in 0..MaxRestarts /\ key' \in SigningKeys
      BY <2>0, <2>12, TimeBoundsAssumption DEF Restart, SigningKeys
    <3> QED BY <2>0, <2>12, <3>1, <3>2, <2>3 DEF Restart, TypeOK, history
  <2>13. CASE UNCHANGED vars
    BY <2>0, <2>13, <2>3 DEF vars, clock, sessions, history, TypeOK
  <2> QED BY <2>6, <2>7, <2>8, <2>9, <2>10, <2>11, <2>12, <2>13 DEF Next
<1> QED BY <1>1, <1>2, PTL DEF Spec

-----------------------------------------------------------------------------
(* The balance.                                                            *)

\* Both ways to have a link sent draw on both buckets.
LEMMA LinkQuotaBalance ==
  ASSUME TypeOK, Balance, NEW i \in Ips, NEW e \in Emails, LinkQuota(i, e), UNCHANGED clock
  PROVE  Balance'
<1>0. /\ "magic_ip" \in Limiters /\ "magic_email" \in Limiters
      /\ Ips \subseteq Keys /\ Emails \subseteq Keys
      /\ buckets \in [Limiters -> [Keys -> Bucket \cup {None}]]
      /\ mailed \in [Emails -> Nat] /\ guesses \in [Ips -> Nat]
  BY DEF Limiters, Keys, TypeOK
<1> DEFINE mailsMore == IF Allows("magic_ip", i) /\ Allows("magic_email", e) THEN 1 ELSE 0
           guessMore == IF Allows("magic_ip", i) THEN 1 ELSE 0
<1>1. /\ mailed' = [mailed EXCEPT ![e] = @ + mailsMore]
      /\ guesses' = [guesses EXCEPT ![i] = @ + guessMore]
  BY <1>0 DEF LinkQuota, history
<1>2. /\ buckets'["magic_ip"][i] = Charged("magic_ip", i)
      /\ \A j \in Ips : j # i => buckets'["magic_ip"][j] = buckets["magic_ip"][j]
  BY <1>0 DEF LinkQuota
<1>3. /\ \A d \in Emails : d # e => buckets'["magic_email"][d] = buckets["magic_email"][d]
      /\ Allows("magic_ip", i) => buckets'["magic_email"][e] = Charged("magic_email", e)
      /\ ~Allows("magic_ip", i) => buckets'["magic_email"][e] = buckets["magic_email"][e]
  BY <1>0 DEF LinkQuota
<1>4. ASSUME NEW j \in Ips PROVE Balanced("magic_ip", j, guesses[j])'
  <2>1. guesses[j] \in Nat /\ Balanced("magic_ip", j, guesses[j])
    BY <1>0 DEF Balance
  <2>2. CASE j = i
    <3>1. guessMore \in {0, 1} /\ (guessMore = 1 => Allows("magic_ip", i))
      OBVIOUS
    <3>2. guesses'[j] = guesses[j] + guessMore
      BY <1>0, <1>1, <2>2
    <3> HIDE DEF guessMore
    <3>3. PICK n \in Nat, m \in {0, 1} : n = guesses[j] /\ m = guessMore
      BY <2>1, <3>1
    <3>4. Balanced("magic_ip", j, n + m)'
      BY BalanceCharged, <1>0, <1>2, <2>1, <2>2, <3>1, <3>3
    <3>5. guesses'[j] = n + m
      BY <3>2, <3>3
    <3> QED BY <3>4, <3>5 DEF Balanced
  <2>3. CASE j # i
    <3>1. guesses'[j] = guesses[j] /\ buckets'["magic_ip"][j] = buckets["magic_ip"][j]
      BY <1>0, <1>1, <1>2, <2>3
    <3>2. Balanced("magic_ip", j, guesses[j])'
      BY BalanceUntouched, <1>0, <2>1, <3>1 DEF Balanced, clock, Passed, Elapsed, Full, Cost, Capacity
    <3> QED BY <3>2
  <2> QED BY <2>2, <2>3
<1>5. ASSUME NEW d \in Emails PROVE Balanced("magic_email", d, mailed[d])'
  <2>1. mailed[d] \in Nat /\ Balanced("magic_email", d, mailed[d])
    BY <1>0 DEF Balance
  <2>2. CASE d = e /\ Allows("magic_ip", i)
    <3>1. mailsMore \in {0, 1} /\ (mailsMore = 1 => Allows("magic_email", e))
      OBVIOUS
    <3>2. mailed'[d] = mailed[d] + mailsMore
      BY <1>0, <1>1, <2>2
    <3> HIDE DEF mailsMore
    <3>3. PICK n \in Nat, m \in {0, 1} : n = mailed[d] /\ m = mailsMore
      BY <2>1, <3>1
    <3>4. Balanced("magic_email", d, n + m)'
      BY BalanceCharged, <1>0, <1>3, <2>1, <2>2, <3>1, <3>3
    <3>5. mailed'[d] = n + m
      BY <3>2, <3>3
    <3> QED BY <3>4, <3>5 DEF Balanced
  <2>3. CASE ~(d = e /\ Allows("magic_ip", i))
    <3>1. mailed'[d] = mailed[d] /\ buckets'["magic_email"][d] = buckets["magic_email"][d]
      BY <1>0, <1>1, <1>3, <2>3
    <3> QED BY <1>0, <2>1, <3>1 DEF Balanced, clock, Passed, Elapsed, Full, Cost, Capacity
  <2> QED BY <2>2, <2>3
<1> QED BY <1>4, <1>5 DEF Balance

\* Every step keeps the balance.
LEMMA BalanceInv == Spec => []Balance
<1>1. Init => Balance
  <2> SUFFICES ASSUME Init PROVE Balance
    OBVIOUS
  <2>1. \A l \in Limiters, k \in Keys : buckets[l][k] = None
    BY DEF Init, Empty
  <2>2. \A l \in Limiters : 0 * Cost(l) = 0 /\ 0 * Full(l) = 0
    BY LimiterFacts
  <2>3. restarts = 0 /\ Passed = 0
    BY DEF Init, Passed
  <2>4. \A l \in Limiters, k \in Keys : Balanced(l, k, 0)
    BY <2>1, <2>2, <2>3 DEF Balanced
  <2> QED BY <2>4 DEF Init, Balance, Limiters, Keys
<1>2. TypeOK /\ TypeOK' /\ Balance /\ [Next]_vars => Balance'
  <2> SUFFICES ASSUME TypeOK, TypeOK', Balance, [Next]_vars PROVE Balance'
    OBVIOUS
  <2>0. /\ "magic_ip" \in Limiters /\ "magic_email" \in Limiters
        /\ Ips \subseteq Keys /\ Emails \subseteq Keys
        /\ buckets \in [Limiters -> [Keys -> Bucket \cup {None}]]
        /\ mailed \in [Emails -> Nat] /\ guesses \in [Ips -> Nat]
        /\ now \in Nat /\ back \in Nat /\ restarts \in Nat
    BY TimeBoundsAssumption DEF Limiters, Keys, TypeOK, Times
  <2>1. ASSUME NEW i \in Ips, NEW e \in Emails, RequestLink(i, e) \/ ReissueLink(i, e)
        PROVE  Balance'
    BY <2>1, LinkQuotaBalance DEF RequestLink, ReissueLink
  <2>2. ASSUME NEW d \in Callers, StartCeremony(d)
        PROVE  Balance'
    <3>1. IpOf[d] \in Ips /\ IpOf[d] \in Keys /\ UNCHANGED <<clock, mailed>>
      BY <2>2, CallersAssumption DEF StartCeremony, Keys
    <3>2. \A e \in Emails : buckets'["magic_email"][e] = buckets["magic_email"][e]
      BY <2>0, <2>2 DEF StartCeremony, Quota
    <3>3. ASSUME NEW e \in Emails PROVE Balanced("magic_email", e, mailed[e])'
      <4>1. Balanced("magic_email", e, mailed[e])
        BY DEF Balance
      <4> QED BY <3>1, <3>2, <4>1 DEF Balanced, clock, Passed, Elapsed, Full, Cost, Capacity
    <3>4. ASSUME NEW j \in Ips PROVE Balanced("magic_ip", j, guesses[j])'
      <4>1. Balanced("magic_ip", j, guesses[j]) /\ guesses[j] \in Nat
        BY <2>0 DEF Balance
      <4>2. CASE j = IpOf[d] /\ ~SignedIn(d)
        <5> DEFINE more == IF Allows("magic_ip", j) THEN 1 ELSE 0
        <5>1. buckets'["magic_ip"][j] = Charged("magic_ip", j)
          BY <2>0, <2>2, <4>2 DEF StartCeremony, Quota
        <5>2. guesses'[j] = guesses[j] + more
          BY <2>0, <2>2, <4>2 DEF StartCeremony, Quota
        <5>3. more \in {0, 1} /\ (more = 1 => Allows("magic_ip", j))
          OBVIOUS
        <5> HIDE DEF more
        <5>4. PICK n \in Nat, m \in {0, 1} : n = guesses[j] /\ m = more
          BY <4>1, <5>3
        <5>5. Balanced("magic_ip", j, n + m)'
          BY BalanceCharged, <2>0, <3>1, <4>1, <5>1, <5>3, <5>4
        <5>6. guesses'[j] = n + m
          BY <5>2, <5>4
        <5> QED BY <5>5, <5>6 DEF Balanced
      <4>3. CASE ~(j = IpOf[d] /\ ~SignedIn(d))
        <5>1. guesses'[j] = guesses[j] /\ buckets'["magic_ip"][j] = buckets["magic_ip"][j]
          BY <2>0, <2>2, <4>3, <3>1 DEF StartCeremony, Quota
        <5> QED BY <3>1, <4>1, <5>1 DEF Balanced, clock, Passed, Elapsed, Full, Cost, Capacity
      <4> QED BY <4>2, <4>3
    <3> QED BY <3>3, <3>4 DEF Balance
  <2>3. CASE UNCHANGED <<clock, buckets, history>>
    BY <2>3 DEF Balance, Balanced, clock, history, Passed, Elapsed, Full, Cost, Capacity
  <2>4. ASSUME NEW d \in Callers, SignIn(d) PROVE Balance'
    BY <2>3, <2>4 DEF SignIn
  <2>5. ASSUME NEW e \in Emails, SignOutEverywhere(e) PROVE Balance'
    BY <2>3, <2>5 DEF SignOutEverywhere
  <2>6. ASSUME NEW l \in Limiters, NEW k \in Keys, NEW n \in Nat, Balanced(l, k, n),
               buckets[l][k] \in Bucket \cup {None}, Tick \/ StepBack
        PROVE  Balanced(l, k, n)'
    <3>1. n * Cost(l) \in Nat /\ restarts * Full(l) \in Nat /\ (restarts + 1) * Full(l) \in Nat
      <4>1. \A x, y \in Nat : x * y \in Nat
        OBVIOUS
      <4> QED BY <4>1, <2>0, LimiterFacts
    <3>2. UNCHANGED <<buckets, restarts>> /\ Cost(l)' = Cost(l) /\ Full(l)' = Full(l)
      BY <2>6 DEF Tick, StepBack, Cost, Full, Capacity
    <3>3. Passed' >= Passed /\ Passed \in Nat /\ Passed' \in Nat
      BY <2>0, <2>6 DEF Tick, StepBack, Passed
    <3>4. CASE buckets[l][k] = None
      BY <3>1, <3>2, <3>3, <3>4, <2>6 DEF Balanced
    <3>5. CASE buckets[l][k] # None
      <4>1. buckets[l][k].credit \in Nat /\ buckets[l][k].last_seen \in Nat
        BY <2>6, <3>5, TimeBoundsAssumption DEF Bucket, Times
      <4>2. /\ Elapsed(buckets[l][k].last_seen) \in Nat
            /\ Elapsed(buckets[l][k].last_seen)' \in Nat
            /\ Elapsed(buckets[l][k].last_seen)' - Elapsed(buckets[l][k].last_seen)
                 <= Passed' - Passed
        BY <2>0, <2>6, <3>2, <4>1 DEF Elapsed, Tick, StepBack, Passed
      <4>3. n * Cost(l) + buckets[l][k].credit + Elapsed(buckets[l][k].last_seen)
              <= (restarts + 1) * Full(l) + Passed
        BY <3>5, <2>6 DEF Balanced
      <4>4. n * Cost(l) + buckets[l][k].credit + Elapsed(buckets[l][k].last_seen)'
              <= (restarts + 1) * Full(l) + Passed'
        BY <3>1, <3>3, <4>1, <4>2, <4>3
      <4> QED BY <3>2, <3>5, <4>4 DEF Balanced
    <3> QED BY <3>4, <3>5
  <2>7. CASE Tick \/ StepBack
    <3>1. UNCHANGED history
      BY <2>7 DEF Tick, StepBack
    <3>2. ASSUME NEW e \in Emails PROVE Balanced("magic_email", e, mailed[e])'
      <4>1. PICK n \in Nat : n = mailed[e]
        BY <2>0
      <4>2. Balanced("magic_email", e, n)
        BY <4>1 DEF Balance
      <4>3. Balanced("magic_email", e, n)'
        BY <2>0, <2>6, <2>7, <4>2
      <4> QED BY <3>1, <4>1, <4>3 DEF Balanced, history
    <3>3. ASSUME NEW i \in Ips PROVE Balanced("magic_ip", i, guesses[i])'
      <4>1. PICK n \in Nat : n = guesses[i]
        BY <2>0
      <4>2. Balanced("magic_ip", i, n)
        BY <4>1 DEF Balance
      <4>3. Balanced("magic_ip", i, n)'
        BY <2>0, <2>6, <2>7, <4>2
      <4> QED BY <3>1, <4>1, <4>3 DEF Balanced, history
    <3> QED BY <3>2, <3>3 DEF Balance
  <2>8. ASSUME NEW l \in Limiters, NEW k \in Keys, NEW n \in Nat, Balanced(l, k, n),
               buckets[l][k] \in Bucket \cup {None}, Restart
        PROVE  Balanced(l, k, n)'
    <3>1. n * Cost(l) \in Nat /\ restarts * Full(l) \in Nat /\ Full(l) \in Nat
          /\ (restarts + 1) * Full(l) = restarts * Full(l) + Full(l)
      <4>1. \A x, y \in Nat : x * y \in Nat /\ (x + 1) * y = x * y + y
        OBVIOUS
      <4> QED BY <4>1, <2>0, LimiterFacts
    <3>2. /\ restarts' = restarts + 1 /\ Passed' = Passed /\ Passed \in Nat
          /\ Cost(l)' = Cost(l) /\ Full(l)' = Full(l) /\ buckets'[l][k] = None
      BY <2>0, <2>8 DEF Restart, Empty, Passed, Cost, Full, Capacity
    <3>3. n * Cost(l) <= (restarts + 1) * Full(l) + Passed
      <4>1. CASE buckets[l][k] = None
        BY <4>1, <2>8, <3>1, <3>2 DEF Balanced
      <4>2. CASE buckets[l][k] # None
        <5>1. buckets[l][k].credit \in Nat /\ Elapsed(buckets[l][k].last_seen) \in Nat
          BY <2>0, <2>8, <4>2, TimeBoundsAssumption DEF Bucket, Times, Elapsed
        <5>2. n * Cost(l) + buckets[l][k].credit + Elapsed(buckets[l][k].last_seen)
                <= (restarts + 1) * Full(l) + Passed
          BY <4>2, <2>8 DEF Balanced
        <5> QED BY <5>1, <5>2, <3>1, <3>2
      <4> QED BY <4>1, <4>2
    <3> QED BY <3>2, <3>3 DEF Balanced
  <2>9. CASE Restart
    <3>1. UNCHANGED history
      BY <2>9 DEF Restart
    <3>2. ASSUME NEW e \in Emails PROVE Balanced("magic_email", e, mailed[e])'
      <4>1. PICK n \in Nat : n = mailed[e]
        BY <2>0
      <4>2. Balanced("magic_email", e, n)
        BY <4>1 DEF Balance
      <4>3. Balanced("magic_email", e, n)'
        BY <2>0, <2>8, <2>9, <4>2
      <4> QED BY <3>1, <4>1, <4>3 DEF Balanced, history
    <3>3. ASSUME NEW i \in Ips PROVE Balanced("magic_ip", i, guesses[i])'
      <4>1. PICK n \in Nat : n = guesses[i]
        BY <2>0
      <4>2. Balanced("magic_ip", i, n)
        BY <4>1 DEF Balance
      <4>3. Balanced("magic_ip", i, n)'
        BY <2>0, <2>8, <2>9, <4>2
      <4> QED BY <3>1, <4>1, <4>3 DEF Balanced, history
    <3> QED BY <3>2, <3>3 DEF Balance
  <2>10. CASE UNCHANGED vars
    BY <2>3, <2>10 DEF vars, clock, history
  <2> QED BY <2>1, <2>2, <2>4, <2>5, <2>7, <2>9, <2>10 DEF Next
<1> QED BY <1>1, <1>2, TypeInv, PTL DEF Spec

-----------------------------------------------------------------------------
(* What the balance bounds.                                                *)

\* A balanced bucket handed out no more than its allowance.
LEMMA BalanceBounds ==
  ASSUME TypeOK, NEW l \in Limiters, NEW k \in Keys, NEW n \in Nat, Balanced(l, k, n)
  PROVE  n * Cost(l) <= Allowance(l)
<1>0. now \in Nat /\ back \in Nat /\ restarts \in Nat
      /\ buckets[l][k] \in Bucket \cup {None}
  BY TimeBoundsAssumption DEF TypeOK, Times
<1>1. n * Cost(l) \in Nat /\ restarts * Full(l) \in Nat /\ Full(l) \in Nat
      /\ (restarts + 1) * Full(l) = restarts * Full(l) + Full(l)
  <2>1. \A x, y \in Nat : x * y \in Nat /\ (x + 1) * y = x * y + y
    OBVIOUS
  <2> QED BY <2>1, <1>0, LimiterFacts
<1>2. CASE buckets[l][k] = None
  BY <1>0, <1>1, <1>2 DEF Balanced, Allowance, Passed
<1>3. CASE buckets[l][k] # None
  <2>1. buckets[l][k].credit \in Nat /\ Elapsed(buckets[l][k].last_seen) \in Nat
    BY <1>0, <1>3, TimeBoundsAssumption DEF Bucket, Times, Elapsed
  <2>2. n * Cost(l) + buckets[l][k].credit + Elapsed(buckets[l][k].last_seen) <= Allowance(l)
    BY <1>3 DEF Balanced, Allowance
  <2>3. Allowance(l) \in Nat
    BY <1>0, <1>1 DEF Allowance, Passed
  <2> QED BY <1>1, <2>1, <2>2, <2>3
<1> QED BY <1>2, <1>3

\* No inbox gets more sign-in links than one bucket yields in the time that
\* passed, by both ways a link is sent, for every refill rate and capacity.
THEOREM MailsAreBounded == Spec => []MailsBounded
<1>1. TypeOK /\ Balance => MailsBounded
  <2> SUFFICES ASSUME TypeOK, Balance, NEW e \in Emails
               PROVE  mailed[e] * MagicRefill <= Allowance("magic_email")
    BY DEF MailsBounded
  <2>1. "magic_email" \in Limiters /\ e \in Keys /\ mailed[e] \in Nat
    BY DEF Limiters, Keys, TypeOK
  <2>2. Balanced("magic_email", e, mailed[e])
    BY DEF Balance
  <2>3. mailed[e] * Cost("magic_email") <= Allowance("magic_email")
    BY <2>1, <2>2, BalanceBounds
  <2> QED BY <2>3 DEF Cost
<1> QED BY <1>1, TypeInv, BalanceInv, PTL

\* No address gets more link requests and sign-ins without a session through
\* than its one bucket yields; a session that was signed out everywhere buys
\* nothing.
THEOREM GuessesAreBounded == Spec => []GuessesBounded
<1>1. TypeOK /\ Balance => GuessesBounded
  <2> SUFFICES ASSUME TypeOK, Balance, NEW i \in Ips
               PROVE  guesses[i] * MagicRefill <= Allowance("magic_ip")
    BY DEF GuessesBounded
  <2>1. "magic_ip" \in Limiters /\ i \in Keys /\ guesses[i] \in Nat
    BY DEF Limiters, Keys, TypeOK
  <2>2. Balanced("magic_ip", i, guesses[i])
    BY DEF Balance
  <2>3. guesses[i] * Cost("magic_ip") <= Allowance("magic_ip")
    BY <2>1, <2>2, BalanceBounds
  <2> QED BY <2>3 DEF Cost
<1> QED BY <1>1, TypeInv, BalanceInv, PTL

\* Whole seconds, rounded up, are at least what they are rounded from.
LEMMA RoundedUp ==
  ASSUME NEW l \in Limiters
  PROVE  RetryAfter(l) \in Nat /\ RetryAfter(l) >= Cost(l)
<1>1. \A x, y \in Nat \ {0} : /\ ((x + y - 1) \div y) * y \in Nat
                              /\ ((x + y - 1) \div y) * y >= x
  OBVIOUS
<1> QED BY <1>1, LimiterFacts, LimiterAssumption DEF RetryAfter

\* The wait the refusal quotes is enough, whatever the rates: after it the key
\* is let through.
THEOREM QuotedWaitSuffices == Spec => []QuotedWaitIsEnough
<1>1. TypeOK => QuotedWaitIsEnough
  <2> SUFFICES ASSUME TypeOK, NEW l \in Limiters, NEW k \in Keys, buckets[l][k] # None,
                      now - buckets[l][k].last_seen >= RetryAfter(l)
               PROVE  Allows(l, k)
    BY DEF QuotedWaitIsEnough
  <2>1. buckets[l][k] \in Bucket /\ now \in Nat
    BY TimeBoundsAssumption DEF TypeOK, Times
  <2>2. buckets[l][k].credit \in Nat /\ buckets[l][k].last_seen \in Nat
    BY <2>1, TimeBoundsAssumption DEF Bucket, Times
  <2>3. Cost(l) \in Nat \ {0} /\ Full(l) \in Nat /\ Full(l) >= Cost(l)
    BY LimiterFacts
  <2>4. now - buckets[l][k].last_seen >= Cost(l)
    BY <2>1, <2>2, <2>3, RoundedUp
  <2>5. Elapsed(buckets[l][k].last_seen) >= Cost(l) /\ Elapsed(buckets[l][k].last_seen) \in Nat
    BY <2>1, <2>2, <2>3, <2>4 DEF Elapsed
  <2>6. Refilled(buckets[l][k], l) >= Cost(l)
    BY <2>2, <2>3, <2>5 DEF Refilled, Least
  <2> QED BY <2>6 DEF Allows, Credit
<1> QED BY <1>1, TypeInv, PTL

=============================================================================
