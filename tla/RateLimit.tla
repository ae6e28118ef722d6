-------------------------------- MODULE RateLimit --------------------------------
(***************************************************************************)
(* The token buckets in front of the ways to sign in, and the clock they   *)
(* are filled by.  Three limiters, one bucket per key in each: magic links *)
(* by address of the caller and by address of the mail, and the ceremonies *)
(* of a caller who has a session.  A magic link leaves the server by two   *)
(* paths, a request and a click on a spent link; an anonymous passkey      *)
(* sign-in shares the bucket of the caller's address with both.            *)
(*                                                                         *)
(* The clock is the machine's: it can be set back.  The buckets are in     *)
(* memory: a restart fills them.                                           *)
(*                                                                         *)
(* A bucket counts in ticks of the clock, not in tokens: a tick of waiting *)
(* is a tick of credit, and a token costs as many as it takes to refill.   *)
(* That is the code's arithmetic without the rounding of its f64.          *)
(***************************************************************************)
EXTENDS SessionToken

CONSTANTS
  Ips, Emails,
  Callers,            \* the browsers that start passkey ceremonies
  IpOf, EmailOf,      \* functions of Callers: the address of each, its account
  MagicCapacity, MagicRefill,        \* MAGIC_*: tokens, and ticks for one more
  CeremonyCapacity, CeremonyRefill,  \* CEREMONY_*: the same
  Second,             \* ticks in a second
  MaxNow,             \* bound: the highest reading of the clock
  MaxBack,            \* bound: how far the clock is set back, all in all
  MaxRestarts,        \* bound: restarts of the server
  MaxEpoch,           \* bound: sign-outs everywhere
  None

ASSUME LimiterAssumption ==
  /\ {MagicCapacity, MagicRefill, CeremonyCapacity, CeremonyRefill, Second} \subseteq Nat \ {0}
ASSUME CallersAssumption == IpOf \in [Callers -> Ips] /\ EmailOf \in [Callers -> Emails]
ASSUME TimeBoundsAssumption == {MaxNow, MaxBack, MaxRestarts, MaxEpoch} \subseteq Nat

Limiters == {"magic_ip", "magic_email", "ceremony_ip"}
Keys == Ips \cup Emails
Cost(l) == IF l = "ceremony_ip" THEN CeremonyRefill ELSE MagicRefill
Capacity(l) == IF l = "ceremony_ip" THEN CeremonyCapacity ELSE MagicCapacity
Full(l) == Capacity(l) * Cost(l)

Times == 0..MaxNow
Epochs == 0..MaxEpoch
SigningKeys == 0..MaxRestarts
Bucket == [credit: Nat, last_seen: Times]
Tokens == Token(Emails, Epochs, Nat, SigningKeys)

ASSUME NoBucketAssumption == None \notin Bucket /\ None \notin Tokens

VARIABLES
  now,       \* the reading of the clock
  back,      \* history: how far it was set back so far
  restarts,  \* history: the restarts so far
  buckets,   \* buckets[l][k]: None until k is first seen
  key,       \* the key sessions are signed with
  epoch,     \* epoch[e]: the user row's session_epoch
  session,   \* session[c]: the session cookie of the caller
  mailed,    \* history, mailed[e]: links sent to e
  guesses    \* history, guesses[i]: what i was let do without a session

clock == <<now, back, restarts>>
sessions == <<key, epoch, session>>
history == <<mailed, guesses>>
vars == <<clock, buckets, sessions, history>>

TypeOK ==
  /\ now \in Times /\ back \in 0..MaxBack /\ restarts \in 0..MaxRestarts
  /\ buckets \in [Limiters -> [Keys -> Bucket \cup {None}]]
  /\ \A l \in Limiters, k \in Keys : buckets[l][k] # None => buckets[l][k].credit <= Full(l)
  /\ key \in SigningKeys
  /\ epoch \in [Emails -> Epochs]
  /\ session \in [Callers -> Tokens \cup {None}]
  /\ mailed \in [Emails -> Nat] /\ guesses \in [Ips -> Nat]

Empty == [l \in Limiters |-> [k \in Keys |-> None]]

Init ==
  /\ now = 0 /\ back = 0 /\ restarts = 0
  /\ buckets = Empty
  /\ key = 0
  /\ epoch = [e \in Emails |-> 0]
  /\ session = [c \in Callers |-> None]
  /\ mailed = [e \in Emails |-> 0] /\ guesses = [i \in Ips |-> 0]

-----------------------------------------------------------------------------
(* The limiter.                                                            *)

\* check_at: a clock that went back has not advanced.
Elapsed(last_seen) == IF now > last_seen THEN now - last_seen ELSE 0

Least(x, y) == IF x < y THEN x ELSE y

\* Seeded fault: an idle bucket fills beyond its capacity.
Refilled_Uncapped(b, l) == b.credit + Elapsed(b.last_seen)

Refilled(b, l) == Least(b.credit + Elapsed(b.last_seen), Full(l))

\* What check_at finds under the key: a new key starts with a full bucket.
Credit(l, k) == IF buckets[l][k] = None THEN Full(l) ELSE Refilled(buckets[l][k], l)

Allows(l, k) == Credit(l, k) >= Cost(l)

\* And what it leaves there, whether it allows the call or not.
Charged(l, k) ==
  [credit |-> IF Allows(l, k) THEN Credit(l, k) - Cost(l) ELSE Credit(l, k),
   last_seen |-> now]

\* Seeded fault: the wait is rounded down.
RetryAfter_Floor(l) == (Cost(l) \div Second) * Second

\* retry_after_secs, in ticks: whole seconds, rounded up.  It is never less than
\* one, for a cost is at least a tick.
RetryAfter(l) == ((Cost(l) + Second - 1) \div Second) * Second

-----------------------------------------------------------------------------
(* The callers.                                                            *)

\* Seeded fault: a reissue is limited by the address of the caller only.
LinkQuota_IpOnly(i, e) ==
  /\ buckets' = [buckets EXCEPT !["magic_ip"][i] = Charged("magic_ip", i)]
  /\ mailed' = IF Allows("magic_ip", i) THEN [mailed EXCEPT ![e] = @ + 1] ELSE mailed
  /\ guesses' = IF Allows("magic_ip", i) THEN [guesses EXCEPT ![i] = @ + 1] ELSE guesses

\* check_ip, and only if that allows it check_email; the token taken from the
\* first is not given back when the second refuses.
LinkQuota(i, e) ==
  IF Allows("magic_ip", i)
    THEN /\ buckets' = [buckets EXCEPT !["magic_ip"][i] = Charged("magic_ip", i),
                                       !["magic_email"][e] = Charged("magic_email", e)]
         /\ mailed' = IF Allows("magic_email", e) THEN [mailed EXCEPT ![e] = @ + 1] ELSE mailed
         /\ guesses' = [guesses EXCEPT ![i] = @ + 1]
    ELSE /\ buckets' = [buckets EXCEPT !["magic_ip"][i] = Charged("magic_ip", i)]
         /\ UNCHANGED history

\* request_magic_link, for an address that is one.
RequestLink(i, e) ==
  /\ LinkQuota(i, e)
  /\ UNCHANGED <<clock, sessions>>

\* reissue: a link of e is clicked that is spent or has expired.
ReissueLink(i, e) ==
  /\ mailed[e] > 0
  /\ LinkQuota(i, e)
  /\ UNCHANGED <<clock, sessions>>

\* The session the caller's request is found to have: middleware::attach, then
\* require_user.
SignedIn(c) ==
  /\ session[c] # None
  /\ Verifies(session[c], now, key)
  /\ IsCurrent(session[c], epoch)

\* Seeded fault: the claims of the cookie are enough for the larger quota.
Quota_Claims(c) ==
  IF session[c] # None /\ Verifies(session[c], now, key) THEN "ceremony_ip" ELSE "magic_ip"

\* passkey_login_start: which limiter the caller draws on.
Quota(c) == IF SignedIn(c) THEN "ceremony_ip" ELSE "magic_ip"

StartCeremony(c) ==
  /\ LET l == Quota(c)
         i == IpOf[c]
     IN /\ buckets' = [buckets EXCEPT ![l][i] = Charged(l, i)]
        /\ guesses' = IF Allows(l, i) /\ ~SignedIn(c)
                        THEN [guesses EXCEPT ![i] = @ + 1] ELSE guesses
  /\ UNCHANGED <<clock, sessions, mailed>>

\* A sign-in of either kind: the token is issued for the epoch of the row.
SignIn(c) ==
  /\ session' = [session EXCEPT ![c] = Issue(EmailOf[c], epoch[EmailOf[c]], now, key)]
  /\ UNCHANGED <<clock, buckets, key, epoch, history>>

\* bump_epoch: another browser of the account signs out everywhere.  A caller that
\* does so itself is left without a cookie, which is no other case here.
SignOutEverywhere(e) ==
  /\ epoch[e] < MaxEpoch
  /\ epoch' = [epoch EXCEPT ![e] = @ + 1]
  /\ UNCHANGED <<clock, buckets, key, session, history>>

\* Time passes.
Tick ==
  /\ now < MaxNow
  /\ now' = now + 1
  /\ UNCHANGED <<back, restarts, buckets, sessions, history>>

\* The clock is set back.
StepBack ==
  /\ now > 0 /\ back < MaxBack
  /\ now' = now - 1 /\ back' = back + 1
  /\ UNCHANGED <<restarts, buckets, sessions, history>>

\* The server starts again.  A debug build without SESSION_KEY makes a new key.
Restart ==
  /\ restarts < MaxRestarts
  /\ restarts' = restarts + 1
  /\ buckets' = Empty
  /\ key' \in {key, restarts + 1}
  /\ UNCHANGED <<now, back, epoch, session, history>>

Next ==
  \/ \E i \in Ips, e \in Emails : RequestLink(i, e) \/ ReissueLink(i, e)
  \/ \E c \in Callers : StartCeremony(c) \/ SignIn(c)
  \/ \E e \in Emails : SignOutEverywhere(e)
  \/ Tick \/ StepBack \/ Restart

Spec == Init /\ [][Next]_vars

-----------------------------------------------------------------------------
(* What holds.                                                             *)

\* All the time there was to refill a bucket: a clock set back by a tick passes
\* that tick twice.
Passed == now + back

\* What a limiter can have handed out under one key by now, in ticks: a full
\* bucket for every start of the server, and the time that passed.
Allowance(l) == (restarts + 1) * Full(l) + Passed

\* However requests, clicks on spent links, restarts and corrections of the clock
\* interleave, no inbox gets more links than one bucket yields, whoever asks.
MailsBounded == \A e \in Emails : mailed[e] * MagicRefill <= Allowance("magic_email")

\* Nor does one address get more requests and anonymous sign-ins through, the
\* ones of sessions that were signed out everywhere included.
GuessesBounded == \A i \in Ips : guesses[i] * MagicRefill <= Allowance("magic_ip")

\* The wait a refusal quotes is enough: who has waited that long since the last
\* call under the key is let through.
QuotedWaitIsEnough ==
  \A l \in Limiters, k \in Keys :
    /\ buckets[l][k] # None
    /\ now - buckets[l][k].last_seen >= RetryAfter(l)
    => Allows(l, k)

=============================================================================
