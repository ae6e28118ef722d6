------------------------------ MODULE SessionToken ------------------------------
(***************************************************************************)
(* The session cookie's token.  It is verified without the database, by    *)
(* its signature and the clock; whether it was revoked is asked of the     *)
(* user's row afterwards.                                                  *)
(***************************************************************************)
EXTENDS Integers

CONSTANTS
  MaxAge,  \* how long a token lives
  Skew     \* how far ahead of the verifier's clock it may have been issued

ASSUME TokenAssumption == MaxAge \in Nat \ {0} /\ Skew \in Nat

\* What a token says, and the key it is signed with.
Token(emails, epochs, times, keys) ==
  [email: emails, epoch: epochs, issued: times, expires: times, key: keys]

\* issue_at.
Issue(email, epoch, now, key) ==
  [email |-> email, epoch |-> epoch, issued |-> now, expires |-> now + MaxAge,
   key |-> key]

\* verify_at: whether the token yields its claims at `now`.
Verifies(token, now, key) ==
  /\ token.key = key
  /\ token.issued <= now + Skew
  /\ now < token.expires

\* require_user, on a token that was verified when its request arrived: the
\* user is there, and has not signed out everywhere since it was issued.
IsCurrent(token, epochOf) == token.epoch = epochOf[token.email]

=============================================================================
