----------------------------- MODULE PageSession -----------------------------
(***************************************************************************)
(* What EncryptionCtx promises the views of a page: which state may follow *)
(* which, however probes, ceremonies, locks and sign-outs overlap.         *)
(*                                                                         *)
(* EncryptionCtx implements this for each of its pages.  DayEditor and     *)
(* WeekView, which have a session of their own in its place, take no step  *)
(* with it that is not among these.                                        *)
(***************************************************************************)
CONSTANTS
  Accounts,
  None       \* nobody is signed in

VARIABLES
  user,      \* AuthCtx::user
  state,     \* EncryptionCtx::state, without the key
  reprobed   \* whether the page load has spent its re-probe

Somebody == Accounts \cup {None}
EncryptionStates == {"Unknown", "Unreachable", "Disabled", "Locked", "Unlocked"}

\* A document is loaded.
Load(u) ==
  /\ user' = u
  /\ state' = IF u = None THEN "Disabled" ELSE "Unknown"
  /\ reprobed' = FALSE

\* The user signs out, and the state follows, at once or when the effect has run.
SignOut ==
  /\ user # None
  /\ user' = None
  /\ state' \in {state, "Disabled"}
  /\ UNCHANGED reprobed

FollowSignOut ==
  /\ user = None
  /\ state' = "Disabled"
  /\ UNCHANGED <<user, reprobed>>

\* The account is asked about once more: by hand, which only a page without a key offers,
\* or because a row would not open, once in a page load.
Retry ==
  /\ user # None
  /\ state \in {"Unreachable", "Disabled"}
  /\ state' = "Unknown"
  /\ UNCHANGED <<user, reprobed>>

Reprobe ==
  /\ user # None
  /\ state = "Unlocked" /\ ~reprobed
  /\ state' = "Unknown" /\ reprobed' = TRUE
  /\ UNCHANGED user

\* A probe answers, and finds the state it has parked the page at.
Answer ==
  /\ state = "Unknown"
  /\ state' \in EncryptionStates
  /\ UNCHANGED <<user, reprobed>>

\* A ceremony gets at the key and keeps it, or the key is forgotten.
KeyComesOrGoes ==
  /\ user # None
  /\ state' \in {"Locked", "Unlocked"}
  /\ UNCHANGED <<user, reprobed>>

\* A view can be mounted at any time.
Init ==
  /\ user \in Somebody
  /\ state \in IF user = None THEN {"Disabled"} ELSE EncryptionStates
  /\ reprobed \in BOOLEAN

Next ==
  \/ \E u \in Somebody : Load(u)
  \/ SignOut \/ FollowSignOut \/ Retry \/ Reprobe \/ Answer \/ KeyComesOrGoes

Spec == Init /\ [][Next]_<<user, state, reprobed>>

=============================================================================
