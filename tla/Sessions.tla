------------------------------- MODULE Sessions -------------------------------
(***************************************************************************)
(* What the server promises of sessions: whose each browser has, and       *)
(* whether it is honoured.  One begins with an answer that lets its        *)
(* browser in and ends with its browser's cookie; nobody else's steps      *)
(* touch it, but a sign-out everywhere of its account, which ends it for   *)
(* good, and with it every answer still on its way.                        *)
(*                                                                         *)
(* There are no epochs here, no links and no passkeys.  SignIn implements  *)
(* this.                                                                   *)
(***************************************************************************)
CONSTANTS
  Accounts,
  Browsers,
  Tabs,
  None       \* nobody

VARIABLES
  home,      \* home[t]: the browser of tab t
  granted,   \* granted[t]: whom the answer on its way to t will sign in
  standing,  \* the tabs whose answer nobody has revoked since
  holder,    \* holder[b]: whose session browser b has
  honoured   \* the browsers whose session the server honours

answers == <<granted, standing>>
sessions == <<holder, honoured>>

Init ==
  /\ home \in [Tabs -> Browsers]
  /\ granted = [t \in Tabs |-> None] /\ standing = {}
  /\ holder = [b \in Browsers |-> None] /\ honoured = {}

\* The server lets the tab in.
Grant(t, a) ==
  /\ granted[t] = None
  /\ granted' = [granted EXCEPT ![t] = a]
  /\ standing' = standing \cup {t}
  /\ UNCHANGED <<home, sessions>>

\* The tab has had its answer, or will have none.
Forget(t) ==
  /\ granted[t] # None
  /\ granted' = [granted EXCEPT ![t] = None]
  /\ standing' = standing \ {t}

\* The answer arrives: its browser has that session now, whatever it had before.
Deliver(t) ==
  /\ Forget(t)
  /\ holder' = [holder EXCEPT ![home[t]] = granted[t]]
  /\ honoured' = IF t \in standing THEN honoured \cup {home[t]} ELSE honoured \ {home[t]}
  /\ UNCHANGED home

Lose(t) == Forget(t) /\ UNCHANGED <<home, sessions>>

\* A cookie is cleared, or has expired.
SignOut(b) ==
  /\ holder[b] # None
  /\ holder' = [holder EXCEPT ![b] = None]
  /\ honoured' = honoured \ {b}
  /\ UNCHANGED <<home, answers>>

\* An account signs out everywhere, and the browser that asked, whose session it has by
\* now, loses it too if the answer arrives.
OutEverywhere(a, b) ==
  /\ standing' = {t \in standing : granted[t] # a}
  /\ \/ /\ holder' = holder
        /\ honoured' = {c \in honoured : holder[c] # a}
     \/ /\ holder' = [holder EXCEPT ![b] = None]
        /\ honoured' = {c \in honoured : holder[c] # a /\ c # b}
  /\ UNCHANGED <<home, granted>>

Next ==
  \/ \E t \in Tabs : Deliver(t) \/ Lose(t) \/ \E a \in Accounts : Grant(t, a)
  \/ \E b \in Browsers : SignOut(b) \/ \E a \in Accounts : OutEverywhere(a, b)

Spec == Init /\ [][Next]_<<home, answers, sessions>>

=============================================================================
