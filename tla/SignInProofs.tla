------------------------------ MODULE SignInProofs ------------------------------
(***************************************************************************)
(* Sessions, links and passkeys end up with the account they belong to,    *)
(* for any number of accounts, browsers, tabs, passkeys and links.         *)
(*                                                                         *)
(* An epoch that was read is only ever used later, so what matters is that *)
(* the database moves one way: a user row stays and its epoch grows, a     *)
(* link stays, a passkey keeps the account it was made for.  A cookie, or  *)
(* an answer on its way to become one, is then never ahead of its account. *)
(* That is why comparing epochs implements Sessions.                       *)
(***************************************************************************)
EXTENDS SignIn, TLAPS

\* What a step may do to the database and to the world.
Forward ==
  /\ \A e \in Emails : epoch[e] # None => epoch'[e] # None /\ epoch[e] <= epoch'[e]
  /\ \A l \in Links : link[l] # None => link'[l] # None
  /\ \A c \in Creds : maker[c] # None => maker'[c] = maker[c]
  /\ home' = home

\* What a tab carries from one of its steps to the next.
RequestOK(t) ==
  LET r == tab[t] IN
  /\ r.stage \in {"reading", "spent", "creating", "enrolling", "made", "verified",
                  "found", "used", "issuing", "leaving"} => r.email \in Emails
  /\ r.stage = "reading" => r.link \in Links /\ link[r.link] # None
  /\ r.stage \in {"enrolling", "made", "verified", "found", "used", "issuing", "leaving"}
       => epoch[r.email] # None
  /\ r.stage \in {"made", "verified", "signed", "found", "used"} => r.cred \in Creds
  /\ r.stage \in {"made", "verified"} => maker[r.cred] = r.email
  /\ r.stage \in {"found", "used"} => r.row \in RowIds
  /\ r.stage = "issuing" => r.epoch \in Epochs /\ r.epoch <= epoch[r.email]

\* A session is of an account there is, and not ahead of it.
CookieOK(b) ==
  cookie[b] # None => /\ epoch[cookie[b].email] # None
                      /\ cookie[b].epoch <= epoch[cookie[b].email]

\* A ceremony is in the browser of the tab that started it, and while that tab is
\* enrolling, a registration is of the account its passkey is made for.
CeremonyOK(b) ==
  state[b] # None =>
    LET t == state[b].challenge IN
    /\ home[t] = b
    /\ state[b].kind = "reg" /\ tab[t].stage \in {"enrolling", "made"}
         => state[b].subject = tab[t].email

\* A passkey is filed under its maker, which is an account there is.
RowOK(i) ==
  row[i] # None => row[i].owner = maker[row[i].cred] /\ epoch[row[i].owner] # None

\* The inductive invariant.
Inv ==
  /\ TypeOK
  /\ \A l \in inbox : link[l] # None
  /\ \A t \in Tabs : RequestOK(t)
  /\ \A b \in Browsers : CookieOK(b) /\ CeremonyOK(b)
  /\ \A i \in RowIds : RowOK(i)

-----------------------------------------------------------------------------
(* Every step moves the database forward.                                  *)

LEMMA NoneFacts ==
  /\ None \notin Emails /\ None \notin Creds /\ None \notin Links /\ None \notin RowIds
  /\ None \notin Epochs /\ None \notin LinkRow /\ None \notin PasskeyRow
  /\ None \notin Session /\ None \notin CeremonyState
  BY NoneAssumption

LEMMA LinkRowFacts ==
  ASSUME NEW r \in LinkRow
  PROVE  /\ r.email \in Emails
         /\ [r EXCEPT !.used = TRUE] \in LinkRow /\ [r EXCEPT !.used = TRUE] # None
         /\ [r EXCEPT !.expired = TRUE] \in LinkRow /\ [r EXCEPT !.expired = TRUE] # None
<1>1. /\ [r EXCEPT !.used = TRUE] \in LinkRow /\ [r EXCEPT !.expired = TRUE] \in LinkRow
      /\ r.email \in Emails
  BY DEF LinkRow
<1> QED BY <1>1, NoneFacts

\* A new link takes an id that no link has.
LEMMA MintForward ==
  ASSUME TypeOK, NEW e \in Emails, Mint(e)
  PROVE  \A l \in Links : link[l] # None => link'[l] # None
  BY NoneAssumption DEF Mint, TypeOK, LinkRow

LEMMA StepForward ==
  ASSUME Inv, [Next]_vars
  PROVE  Forward
<1> USE NoneFacts, BoundsAssumption
<1> DEFINE Links_ == \A l \in Links : link[l] # None => link'[l] # None
<1>0. /\ TypeOK
      /\ epoch \in [Emails -> Epochs \cup {None}] /\ maker \in [Creds -> Emails \cup {None}]
      /\ link \in [Links -> LinkRow \cup {None}] /\ inbox \subseteq Links
  BY DEF Inv, TypeOK
<1>1. CASE UNCHANGED vars
  BY <1>1, <1>0 DEF Forward, vars, database, outside, Epochs
<1>2. ASSUME NEW e \in Emails, RequestLink(e) PROVE Forward
  <2>1. Links_
    BY <1>0, <1>2, MintForward DEF RequestLink
  <2> QED BY <1>2, <1>0, <2>1 DEF RequestLink, Forward, Epochs
<1>3. ASSUME NEW t \in Tabs, NEW l \in Links, ClickLink(t, l) PROVE Forward
  <2>1. CASE link[l].used \/ link[l].expired
    <3>1. link[l] \in LinkRow
      BY <1>3, <1>0 DEF ClickLink, Inv
    <3>2. link[l].email \in Emails
      BY <3>1, LinkRowFacts
    <3>3. Links_
      BY <1>0, <1>3, <2>1, <3>2, MintForward DEF ClickLink
    <3> QED BY <1>3, <1>0, <2>1, <3>3 DEF ClickLink, Forward, Epochs
  <2>2. CASE ~(link[l].used \/ link[l].expired)
    BY <1>3, <2>2, <1>0 DEF ClickLink, Forward, Epochs, database, outside
  <2> QED BY <2>1, <2>2
<1>4. ASSUME NEW t \in Tabs, SpendLink(t) PROVE Forward
  <2>1. Links_
    <3>1. CASE link' = link
      BY <3>1
    <3>2. CASE link' # link
      <4>1. /\ tab[t].link \in Links /\ link[tab[t].link] \in LinkRow
            /\ link' = [link EXCEPT ![tab[t].link] = [@ EXCEPT !.used = TRUE]]
        BY <1>4, <1>0, <3>2 DEF SpendLink, At, Inv, RequestOK
      <4> QED BY <4>1, <1>0, LinkRowFacts
    <3> QED BY <3>1, <3>2
  <2> QED BY <1>4, <1>0, <2>1 DEF SpendLink, Forward, Epochs, outside
<1>5. ASSUME NEW t \in Tabs, CreateUser(t) PROVE Forward
  BY <1>5, <1>0 DEF CreateUser, MayCreate, Forward, Epochs, outside
<1>6. ASSUME NEW t \in Tabs, BumpEpoch(t) PROVE Forward
  BY <1>6, <1>0 DEF BumpEpoch, Forward, Epochs, outside
<1>7. ASSUME NEW t \in Tabs, NEW c \in Creds, MakePasskey(t, c) PROVE Forward
  BY <1>7, <1>0 DEF MakePasskey, Forward, Epochs, database
<1>8. ASSUME NEW l \in Links, LinkExpires(l) PROVE Forward
  <2>1. link[l] \in LinkRow /\ link' = [link EXCEPT ![l] = [@ EXCEPT !.expired = TRUE]]
    BY <1>8, <1>0 DEF LinkExpires
  <2>2. Links_
    BY <2>1, <1>0, LinkRowFacts
  <2> QED BY <1>8, <1>0, <2>2 DEF LinkExpires, Forward, Epochs, outside
<1>9. ASSUME UNCHANGED <<epoch, link, outside>> PROVE Forward
  BY <1>9, <1>0 DEF Forward, Epochs, outside
<1>10. ASSUME NEW t \in Tabs,
              \/ FindUser(t) \/ IssueSession(t) \/ AskOutEverywhere(t)
              \/ RegisterStart(t) \/ RegisterFinish(t) \/ InsertPasskey(t)
              \/ \E c \in Creds : SignAssertion(t, c)
              \/ \E i \in RowIds : DeletePasskey(t, i)
              \/ \E e \in Emails \cup {None} : LoginStart(t, e)
              \/ LoginFinish(t) \/ UseRow(t) \/ LoadOwner(t) \/ Fail(t)
       PROVE  Forward
  <2>1. UNCHANGED <<epoch, link, outside>>
    BY <1>10 DEF FindUser, IssueSession, AskOutEverywhere, RegisterStart, RegisterFinish,
      InsertPasskey, SignAssertion, DeletePasskey, LoginStart, LoginFinish, UseRow, LoadOwner,
      Fail, database
  <2> QED BY <2>1, <1>9
<1>11. ASSUME NEW b \in Browsers, Logout(b) \/ CookieExpires(b) PROVE Forward
  BY <1>11, <1>9 DEF Logout, CookieExpires, database
<1> QED BY <1>1, <1>2, <1>3, <1>4, <1>5, <1>6, <1>7, <1>8, <1>10, <1>11 DEF Next

-----------------------------------------------------------------------------
(* Types.                                                                  *)

LEMMA IdleIsRequest == Idle \in Request
  BY DEF Idle, Request, Stages

LEMMA MintTypes ==
  ASSUME TypeOK, NEW e \in Emails, Mint(e)
  PROVE  /\ link' \in [Links -> LinkRow \cup {None}]
         /\ inbox' \subseteq Links /\ readers' \subseteq Tabs
<1>1. [email |-> e, used |-> FALSE, expired |-> FALSE] \in LinkRow
  BY DEF LinkRow
<1> QED BY <1>1 DEF Mint, Commits, TypeOK

\* A request moves on.
LEMMA TabTypes ==
  ASSUME TypeOK, NEW t \in Tabs, NEW r \in Request, Become(t, r)
  PROVE  tab' \in [Tabs -> Request]
  BY DEF TypeOK, Become

LEMMA InvInit == Init => Inv
<1> SUFFICES ASSUME Init PROVE Inv
  OBVIOUS
<1>1. TypeOK
  BY IdleIsRequest, HomeAssumption DEF Init, TypeOK
<1>2. \A t \in Tabs : RequestOK(t)
  BY DEF Init, RequestOK, Idle
<1> QED BY <1>1, <1>2 DEF Init, Inv, CookieOK, CeremonyOK, RowOK

LEMMA TypeStep ==
  ASSUME Inv, [Next]_vars
  PROVE  TypeOK'
<1> USE NoneFacts, IdleIsRequest
<1>0. TypeOK
  BY DEF Inv
<1>1. CASE UNCHANGED vars
  BY <1>1, <1>0 DEF TypeOK, vars, database, outside, cookies
<1>2. ASSUME NEW e \in Emails, RequestLink(e) PROVE TypeOK'
  BY <1>2, <1>0, MintTypes DEF RequestLink, TypeOK, cookies
<1>3. ASSUME NEW t \in Tabs, NEW l \in Links, ClickLink(t, l) PROVE TypeOK'
  <2>1. link[l] \in LinkRow /\ link[l].email \in Emails
    BY <1>3, <1>0, LinkRowFacts DEF ClickLink, Inv, TypeOK
  <2>2. CASE link[l].used \/ link[l].expired
    BY <1>3, <1>0, <2>1, <2>2, MintTypes DEF ClickLink, TypeOK, cookies
  <2>3. CASE ~(link[l].used \/ link[l].expired)
    <3>1. [Idle EXCEPT !.stage = "reading", !.link = l, !.email = link[l].email] \in Request
      BY <2>1 DEF Idle, Request, Stages
    <3>2. tab' \in [Tabs -> Request] /\ readers' = readers \cup {t}
      BY <1>3, <1>0, <2>3, <3>1, TabTypes DEF ClickLink
    <3>3. UNCHANGED <<database, outside, cookies>>
      BY <1>3, <2>3 DEF ClickLink
    <3> QED BY <1>0, <3>2, <3>3 DEF TypeOK, database, outside, cookies
  <2> QED BY <2>2, <2>3
<1>4. ASSUME NEW t \in Tabs, SpendLink(t) PROVE TypeOK'
  <2>1. [tab[t] EXCEPT !.stage = "spent"] \in Request
    BY <1>0 DEF TypeOK, Request, Stages
  <2>2. /\ tab[t].link \in Links /\ link[tab[t].link] \in LinkRow
        /\ [link[tab[t].link] EXCEPT !.used = TRUE] \in LinkRow
    BY <1>4, <1>0, LinkRowFacts DEF SpendLink, At, Inv, RequestOK, TypeOK
  <2>3. link' \in [Links -> LinkRow \cup {None}]
    BY <1>4, <1>0, <2>2 DEF SpendLink, TypeOK
  <2>4. tab' \in [Tabs -> Request]
    BY <1>4, <1>0, <2>1, TabTypes DEF SpendLink, End
  <2>5. readers' \subseteq Tabs /\ UNCHANGED <<epoch, row, outside, cookies>>
    BY <1>4, <1>0 DEF SpendLink, TypeOK, Leaves, Commits
  <2> QED BY <1>0, <2>3, <2>4, <2>5 DEF TypeOK, outside, cookies
<1>5. ASSUME NEW t \in Tabs, FindUser(t) PROVE TypeOK'
  <2>1. /\ [tab[t] EXCEPT !.stage = "issuing", !.epoch = epoch[tab[t].email]] \in Request
        /\ [tab[t] EXCEPT !.stage = "creating"] \in Request
    <3>1. tab[t] \in Request /\ epoch[tab[t].email] \in Epochs \cup {None}
      BY <1>5, <1>0 DEF FindUser, At, Inv, RequestOK, TypeOK
    <3>2. [tab[t] EXCEPT !.stage = "creating"] \in Request
      BY <3>1 DEF Request, Stages
    <3>3. [tab[t] EXCEPT !.stage = "issuing", !.epoch = epoch[tab[t].email]] \in Request
      BY <3>1 DEF Request, Stages
    <3> QED BY <3>2, <3>3
  <2>2. tab' \in [Tabs -> Request]
    BY <1>5, <1>0, <2>1, TabTypes DEF FindUser
  <2>3. readers' \subseteq Tabs /\ UNCHANGED <<database, outside, cookies>>
    BY <1>5, <1>0 DEF FindUser, TypeOK
  <2> QED BY <1>0, <2>2, <2>3 DEF TypeOK, database, outside, cookies
<1>6. ASSUME NEW t \in Tabs, CreateUser(t) PROVE TypeOK'
  <2>1. 0 \in Epochs
    BY BoundsAssumption DEF Epochs
  <2>2. [tab[t] EXCEPT !.stage = "issuing", !.epoch = 0] \in Request
    BY <1>0, <2>1 DEF TypeOK, Request, Stages
  <2>3. tab' \in [Tabs -> Request]
    BY <1>6, <1>0, <2>2, TabTypes DEF CreateUser, End
  <2>4. /\ epoch' \in [Emails -> Epochs \cup {None}] /\ readers' \subseteq Tabs
        /\ UNCHANGED <<link, row, outside, cookies>>
    BY <1>6, <1>0, <2>1 DEF CreateUser, TypeOK, Leaves, Commits
  <2> QED BY <1>0, <2>3, <2>4 DEF TypeOK, outside, cookies
<1>7. ASSUME NEW t \in Tabs, IssueSession(t) PROVE TypeOK'
  <2>1. [email |-> tab[t].email, epoch |-> tab[t].epoch] \in Session
    BY <1>7, <1>0 DEF IssueSession, At, Inv, RequestOK, Session
  <2>2. /\ cookie' \in [Browsers -> Session \cup {None}]
        /\ state' \in [Browsers -> CeremonyState \cup {None}]
    BY <1>7, <1>0, <2>1 DEF IssueSession, TypeOK, Answer, cookies
  <2>3. tab' \in [Tabs -> Request] /\ UNCHANGED <<database, outside, readers>>
    BY <1>7, <1>0, TabTypes DEF IssueSession, End
  <2> QED BY <1>0, <2>2, <2>3 DEF TypeOK, database, outside
<1>8. ASSUME NEW b \in Browsers, Logout(b) \/ CookieExpires(b) PROVE TypeOK'
  BY <1>8, <1>0 DEF Logout, CookieExpires, TypeOK, database, outside
<1>9. ASSUME NEW t \in Tabs, AskOutEverywhere(t) PROVE TypeOK'
  <2>1. [Idle EXCEPT !.stage = "leaving", !.email = Me(home[t])] \in Request
    <3>1. Me(home[t]) \in Emails
      BY <1>9, <1>0 DEF AskOutEverywhere, SignedIn, Me, TypeOK, Session
    <3> QED BY <3>1 DEF Request, Stages
  <2>2. tab' \in [Tabs -> Request] /\ UNCHANGED <<database, outside, readers, cookies>>
    BY <1>9, <1>0, <2>1, TabTypes DEF AskOutEverywhere
  <2> QED BY <1>0, <2>2 DEF TypeOK, database, outside, cookies
<1>10. ASSUME NEW t \in Tabs, BumpEpoch(t) PROVE TypeOK'
  <2>1. epoch' \in [Emails -> Epochs \cup {None}]
    BY <1>10, <1>0, BoundsAssumption DEF BumpEpoch, At, Inv, RequestOK, TypeOK, Epochs
  <2>2. cookie' \in [Browsers -> Session \cup {None}] /\ state' = state
    BY <1>10, <1>0 DEF BumpEpoch, TypeOK, Answer, cookies
  <2>3. /\ tab' \in [Tabs -> Request] /\ readers' \subseteq Tabs
        /\ UNCHANGED <<link, row, outside>>
    BY <1>10, <1>0, TabTypes DEF BumpEpoch, End, Commits
  <2> QED BY <1>0, <2>1, <2>2, <2>3 DEF TypeOK, outside
<1>11. ASSUME NEW t \in Tabs, RegisterStart(t) PROVE TypeOK'
  <2>1. /\ [kind |-> "reg", subject |-> Me(home[t]), challenge |-> t, allowed |-> {}]
              \in CeremonyState
        /\ [Idle EXCEPT !.stage = "enrolling", !.email = Me(home[t])] \in Request
    <3>1. Me(home[t]) \in Emails
      BY <1>11, <1>0 DEF RegisterStart, SignedIn, Me, TypeOK, Session
    <3> QED BY <3>1 DEF CeremonyState, Request, Stages
  <2>2. tab' \in [Tabs -> Request]
    BY <1>11, <1>0, <2>1, TabTypes DEF RegisterStart
  <2>3. /\ state' \in [Browsers -> CeremonyState \cup {None}]
        /\ UNCHANGED <<database, outside, readers, cookie>>
    BY <1>11, <1>0, <2>1 DEF RegisterStart, TypeOK
  <2> QED BY <1>0, <2>2, <2>3 DEF TypeOK, database, outside
<1>12. ASSUME NEW t \in Tabs, NEW c \in Creds, MakePasskey(t, c) PROVE TypeOK'
  <2>1. tab[t].email \in Emails
    BY <1>12 DEF MakePasskey, At, Inv, RequestOK
  <2>2. [tab[t] EXCEPT !.stage = "made", !.cred = c] \in Request
    BY <1>0 DEF TypeOK, Request, Stages
  <2>3. tab' \in [Tabs -> Request]
    BY <1>12, <1>0, <2>2, TabTypes DEF MakePasskey
  <2>4. /\ maker' \in [Creds -> Emails \cup {None}]
        /\ UNCHANGED <<database, home, inbox, readers, cookies>>
    BY <1>12, <1>0, <2>1 DEF MakePasskey, TypeOK
  <2> QED BY <1>0, <2>3, <2>4 DEF TypeOK, database, cookies
<1>13. ASSUME NEW t \in Tabs, RegisterFinish(t) PROVE TypeOK'
  <2>1. ASSUME SignedIn(home[t]) PROVE tab' \in [Tabs -> Request]
    <3>1. [tab[t] EXCEPT !.stage = "verified", !.email = Me(home[t])] \in Request
      <4>1. tab[t] \in Request /\ Me(home[t]) \in Emails
        BY <2>1, <1>0 DEF SignedIn, Me, TypeOK, Session
      <4> QED BY <4>1 DEF Request, Stages
    <3> QED BY <1>13, <1>0, <3>1, TabTypes DEF RegisterFinish, End
  <2>2. ASSUME ~SignedIn(home[t]) PROVE tab' \in [Tabs -> Request]
    BY <1>13, <1>0, <2>2, TabTypes DEF RegisterFinish, End
  <2>3. /\ state' \in [Browsers -> CeremonyState \cup {None}]
        /\ UNCHANGED <<database, outside, readers, cookie>>
    BY <1>13, <1>0 DEF RegisterFinish, TypeOK
  <2> QED BY <1>0, <2>1, <2>2, <2>3 DEF TypeOK, database, outside
<1>14. ASSUME NEW t \in Tabs, InsertPasskey(t) PROVE TypeOK'
  <2>1. [owner |-> tab[t].email, cred |-> tab[t].cred, passkey |-> tab[t].cred] \in PasskeyRow
    BY <1>14, <1>0 DEF InsertPasskey, At, Inv, RequestOK, PasskeyRow
  <2>2. row' \in [RowIds -> PasskeyRow \cup {None}] /\ readers' \subseteq Tabs
    BY <1>14, <1>0, <2>1 DEF InsertPasskey, TypeOK, Commits
  <2>3. cookie' = cookie /\ state' \in [Browsers -> CeremonyState \cup {None}]
    BY <1>14, <1>0 DEF InsertPasskey, TypeOK, Answer, cookies
  <2>4. tab' \in [Tabs -> Request] /\ UNCHANGED <<epoch, link, outside>>
    BY <1>14, <1>0, TabTypes DEF InsertPasskey, End
  <2> QED BY <1>0, <2>2, <2>3, <2>4 DEF TypeOK, outside
<1>15. ASSUME NEW t \in Tabs, NEW i \in RowIds, DeletePasskey(t, i) PROVE TypeOK'
  BY <1>15, <1>0 DEF DeletePasskey, TypeOK, Commits, outside, cookies
<1>16. ASSUME NEW t \in Tabs, NEW e \in Emails \cup {None}, LoginStart(t, e) PROVE TypeOK'
  <2>1. KeysOf(e) \subseteq Creds
    BY <1>0 DEF KeysOf, TypeOK, PasskeyRow
  <2>2. [Idle EXCEPT !.stage = "asserting", !.email = e] \in Request
    BY DEF Idle, Request, Stages
  <2>3. state' \in [Browsers -> CeremonyState \cup {None}]
    BY <1>16, <1>0, <2>1 DEF LoginStart, TypeOK, CeremonyState
  <2>4. tab' \in [Tabs -> Request] /\ UNCHANGED <<database, outside, readers, cookie>>
    BY <1>16, <1>0, <2>2, TabTypes DEF LoginStart
  <2> QED BY <1>0, <2>3, <2>4 DEF TypeOK, database, outside
<1>17. ASSUME NEW t \in Tabs, NEW c \in Creds, SignAssertion(t, c) PROVE TypeOK'
  <2>1. [tab[t] EXCEPT !.stage = "signed", !.cred = c] \in Request
    BY <1>0 DEF TypeOK, Request, Stages
  <2>2. tab' \in [Tabs -> Request] /\ UNCHANGED <<database, outside, readers, cookies>>
    BY <1>17, <1>0, <2>1, TabTypes DEF SignAssertion
  <2> QED BY <1>0, <2>2 DEF TypeOK, database, outside, cookies
<1>18. ASSUME NEW t \in Tabs, LoginFinish(t) PROVE TypeOK'
  <2>1. \A i \in RowIds : row[i] # None =>
          [tab[t] EXCEPT !.stage = "found", !.row = i, !.email = row[i].owner,
             !.cred = row[i].passkey] \in Request
    <3>1. tab[t] \in Request /\ \A i \in RowIds : row[i] # None => row[i] \in PasskeyRow
      BY <1>0 DEF TypeOK
    <3> QED BY <3>1, ZenonT(60) DEF PasskeyRow, Request, Stages
  <2>2. \/ End(t)
        \/ \E i \in RowIds :
             /\ row[i] # None
             /\ Become(t, [tab[t] EXCEPT !.stage = "found", !.row = i, !.email = row[i].owner,
                             !.cred = row[i].passkey])
    BY <1>18 DEF LoginFinish
  <2>3. tab' \in [Tabs -> Request]
    <3>1. PICK r \in Request : tab' = [tab EXCEPT ![t] = r]
      BY <2>1, <2>2, Zenon DEF End, Become
    <3> QED BY <1>0, <3>1 DEF TypeOK
  <2>4. state' \in [Browsers -> CeremonyState \cup {None}]
    BY <1>18, <1>0 DEF LoginFinish, TypeOK
  <2>5. UNCHANGED <<database, outside, readers, cookie>>
    BY <1>18 DEF LoginFinish
  <2> QED BY <1>0, <2>3, <2>4, <2>5 DEF TypeOK, database, outside
<1>19. ASSUME NEW t \in Tabs, UseRow(t) PROVE TypeOK'
  <2>1. [tab[t] EXCEPT !.stage = "used"] \in Request
    BY <1>0 DEF TypeOK, Request, Stages
  <2>2. tab[t].row \in RowIds /\ tab[t].cred \in Creds
    BY <1>19 DEF UseRow, At, Inv, RequestOK
  <2>3. row' \in [RowIds -> PasskeyRow \cup {None}]
    BY <1>19, <1>0, <2>2 DEF UseRow, TypeOK, PasskeyRow
  <2>4. readers' \subseteq Tabs /\ UNCHANGED <<epoch, link, outside, cookies>>
    BY <1>19, <1>0 DEF UseRow, TypeOK, Commits
  <2>5. tab' \in [Tabs -> Request]
    BY <1>19, <1>0, <2>1, TabTypes DEF UseRow
  <2> QED BY <1>0, <2>3, <2>4, <2>5 DEF TypeOK, outside, cookies
<1>20. ASSUME NEW t \in Tabs, LoadOwner(t) PROVE TypeOK'
  <2>1. [tab[t] EXCEPT !.stage = "issuing", !.epoch = epoch[tab[t].email]] \in Request
    <3>1. tab[t] \in Request /\ epoch[tab[t].email] \in Epochs \cup {None}
      BY <1>20, <1>0 DEF LoadOwner, At, Inv, RequestOK, TypeOK
    <3> QED BY <3>1 DEF Request, Stages
  <2>2. tab' \in [Tabs -> Request] /\ UNCHANGED <<database, outside, readers, cookies>>
    BY <1>20, <1>0, <2>1, TabTypes DEF LoadOwner
  <2> QED BY <1>0, <2>2 DEF TypeOK, database, outside, cookies
<1>21. ASSUME NEW t \in Tabs, Fail(t) PROVE TypeOK'
  <2>1. cookie' = cookie /\ state' \in [Browsers -> CeremonyState \cup {None}]
    BY <1>21, <1>0 DEF Fail, TypeOK, Answer, cookies
  <2>2. /\ tab' \in [Tabs -> Request] /\ readers' \subseteq Tabs
        /\ UNCHANGED <<database, outside>>
    BY <1>21, <1>0, TabTypes DEF Fail, End, Leaves, TypeOK
  <2> QED BY <1>0, <2>1, <2>2 DEF TypeOK, database, outside
<1>22. ASSUME NEW l \in Links, LinkExpires(l) PROVE TypeOK'
  <2>1. /\ link[l] \in LinkRow /\ [link[l] EXCEPT !.expired = TRUE] \in LinkRow
    BY <1>22, <1>0, LinkRowFacts DEF LinkExpires, TypeOK
  <2> QED BY <1>22, <1>0, <2>1 DEF LinkExpires, TypeOK, outside, cookies
<1> QED BY <1>1, <1>2, <1>3, <1>4, <1>5, <1>6, <1>7, <1>8, <1>9, <1>10, <1>11, <1>12,
       <1>13, <1>14, <1>15, <1>16, <1>17, <1>18, <1>19, <1>20, <1>21, <1>22 DEF Next

-----------------------------------------------------------------------------
(* What a tab carries.                                                     *)

LEMMA RequestKept ==
  ASSUME TypeOK, TypeOK', Forward, NEW t \in Tabs, RequestOK(t), tab'[t] = tab[t]
  PROVE  RequestOK(t)'
<1>1. /\ epoch \in [Emails -> Epochs \cup {None}] /\ epoch' \in [Emails -> Epochs \cup {None}]
      /\ maker \in [Creds -> Emails \cup {None}]
  BY DEF TypeOK
<1>2. tab[t].stage = "issuing" => tab[t].epoch <= epoch'[tab[t].email]
  BY <1>1, NoneFacts, BoundsAssumption DEF RequestOK, Forward, Epochs
<1>3. tab[t].stage \in {"made", "verified"} => maker'[tab[t].cred] = tab[t].email
  BY <1>1, NoneFacts DEF RequestOK, Forward
<1> QED BY <1>2, <1>3, NoneFacts DEF RequestOK, Forward

\* A step of one tab is answered for by what that tab carries then.
LEMMA OthersKept ==
  ASSUME Inv, TypeOK', Forward, NEW t \in Tabs, NEW r, tab' = [tab EXCEPT ![t] = r],
         RequestOK(t)'
  PROVE  \A u \in Tabs : RequestOK(u)'
<1> SUFFICES ASSUME NEW u \in Tabs, u # t PROVE RequestOK(u)'
  OBVIOUS
<1>1. TypeOK /\ RequestOK(u) /\ tab'[u] = tab[u]
  BY DEF Inv, TypeOK
<1> QED BY <1>1, RequestKept

LEMMA RequestsStep ==
  ASSUME Inv, [Next]_vars, TypeOK', Forward
  PROVE  \A u \in Tabs : RequestOK(u)'
<1> DEFINE Goal == \A u \in Tabs : RequestOK(u)'
<1>0. TypeOK
  BY DEF Inv
<1>1. ASSUME UNCHANGED tab PROVE Goal
  BY <1>1, <1>0, RequestKept DEF Inv
<1>2. ASSUME NEW t \in Tabs, End(t) PROVE Goal
  <2>1. RequestOK(t)'
    BY <1>2, <1>0 DEF End, Become, TypeOK, RequestOK, Idle
  <2> QED BY <1>2, <2>1, OthersKept DEF End, Become
<1>3. ASSUME NEW t \in Tabs, NEW l \in Links, ClickLink(t, l) PROVE Goal
  <2>1. CASE UNCHANGED tab
    BY <2>1, <1>1
  <2>2. CASE ~UNCHANGED tab
    <3>1. Become(t, [Idle EXCEPT !.stage = "reading", !.link = l, !.email = link[l].email])
      BY <1>3, <2>2 DEF ClickLink
    <3>2. link[l] # None /\ link[l].email \in Emails
      BY <1>3, <1>0, LinkRowFacts DEF ClickLink, Inv, TypeOK
    <3>3. RequestOK(t)'
      BY <1>0, <3>1, <3>2 DEF Become, TypeOK, RequestOK, Idle, Forward
    <3> QED BY <3>1, <3>3, OthersKept DEF Become
  <2> QED BY <2>1, <2>2
<1>4. ASSUME NEW t \in Tabs, SpendLink(t) PROVE Goal
  <2>1. End(t) \/ Become(t, [tab[t] EXCEPT !.stage = "spent"])
    BY <1>4 DEF SpendLink
  <2>2. CASE Become(t, [tab[t] EXCEPT !.stage = "spent"])
    <3>1. RequestOK(t)'
      BY <1>4, <1>0, <2>2 DEF SpendLink, At, Become, Inv, TypeOK, Request, RequestOK
    <3> QED BY <2>2, <3>1, OthersKept DEF Become
  <2> QED BY <2>1, <2>2, <1>2
<1>5. ASSUME NEW t \in Tabs, FindUser(t) PROVE Goal
  <2>1. CASE epoch[tab[t].email] # None
    <3>1. tab' = [tab EXCEPT ![t] = [tab[t] EXCEPT !.stage = "issuing",
                                       !.epoch = epoch[tab[t].email]]]
      BY <1>5, <2>1 DEF FindUser, Become
    <3>2. tab[t].email \in Emails /\ epoch[tab[t].email] \in Epochs /\ epoch' = epoch
      BY <1>5, <1>0, <2>1 DEF FindUser, At, Inv, RequestOK, TypeOK, database
    <3>3. RequestOK(t)'
      BY <1>0, <2>1, <3>1, <3>2, BoundsAssumption DEF TypeOK, Request, RequestOK, Epochs
    <3> QED BY <3>1, <3>3, OthersKept
  <2>2. CASE epoch[tab[t].email] = None
    <3>1. tab' = [tab EXCEPT ![t] = [tab[t] EXCEPT !.stage = "creating"]]
      BY <1>5, <2>2 DEF FindUser, Become
    <3>2. RequestOK(t)'
      BY <1>5, <1>0, <3>1 DEF FindUser, At, Inv, TypeOK, Request, RequestOK
    <3> QED BY <3>1, <3>2, OthersKept
  <2> QED BY <2>1, <2>2
<1>6. ASSUME NEW t \in Tabs, CreateUser(t) PROVE Goal
  <2>1. CASE MayCreate(t)
    <3>1. tab' = [tab EXCEPT ![t] = [tab[t] EXCEPT !.stage = "issuing", !.epoch = 0]]
      BY <1>6, <2>1 DEF CreateUser, Become
    <3>2. tab[t].email \in Emails /\ epoch'[tab[t].email] = 0 /\ 0 \in Epochs
      BY <1>6, <1>0, <2>1, BoundsAssumption
        DEF CreateUser, At, Inv, RequestOK, TypeOK, Epochs
    <3>3. RequestOK(t)'
      BY <1>0, <3>1, <3>2, NoneFacts DEF TypeOK, Request, RequestOK
    <3> QED BY <3>1, <3>3, OthersKept
  <2>2. CASE ~MayCreate(t)
    BY <1>6, <2>2, <1>2 DEF CreateUser
  <2> QED BY <2>1, <2>2
<1>7. ASSUME NEW t \in Tabs, AskOutEverywhere(t) \/ RegisterStart(t) PROVE Goal
  <2>1. PICK g \in {"leaving", "enrolling"} :
          tab' = [tab EXCEPT ![t] = [Idle EXCEPT !.stage = g, !.email = Me(home[t])]]
    BY <1>7 DEF AskOutEverywhere, RegisterStart, Become
  <2>2. Me(home[t]) \in Emails /\ epoch[Me(home[t])] # None
    BY <1>7, <1>0 DEF AskOutEverywhere, RegisterStart, SignedIn, Me, TypeOK, Session
  <2>3. epoch' = epoch
    BY <1>7 DEF AskOutEverywhere, RegisterStart, database
  <2>4. RequestOK(t)'
    BY <1>0, <2>1, <2>2, <2>3 DEF TypeOK, RequestOK, Idle
  <2> QED BY <2>1, <2>4, OthersKept
<1>8. ASSUME NEW t \in Tabs, NEW c \in Creds, MakePasskey(t, c) PROVE Goal
  <2>1. tab' = [tab EXCEPT ![t] = [tab[t] EXCEPT !.stage = "made", !.cred = c]]
    BY <1>8 DEF MakePasskey, Become
  <2>2. /\ tab[t].email \in Emails /\ epoch[tab[t].email] # None /\ epoch' = epoch
        /\ maker'[c] = tab[t].email
    BY <1>8, <1>0 DEF MakePasskey, At, Inv, RequestOK, TypeOK, database
  <2>3. RequestOK(t)'
    BY <1>0, <2>1, <2>2 DEF TypeOK, Request, RequestOK
  <2> QED BY <2>1, <2>3, OthersKept
<1>9. ASSUME NEW t \in Tabs, RegisterFinish(t) PROVE Goal
  <2>1. CASE End(t)
    BY <2>1, <1>2
  <2>2. CASE ~End(t)
    <3>1. /\ SignedIn(home[t]) /\ state[home[t]] # None /\ FinishesOwn(home[t], t)
          /\ tab' = [tab EXCEPT ![t] = [tab[t] EXCEPT !.stage = "verified",
                                           !.email = Me(home[t])]]
      BY <1>9, <2>2 DEF RegisterFinish, Become
    <3>2. /\ tab[t].stage = "made" /\ tab[t].cred \in Creds /\ maker[tab[t].cred] = tab[t].email
          /\ home[t] \in Browsers /\ epoch' = epoch /\ maker' = maker
      BY <1>9, <1>0 DEF RegisterFinish, At, Inv, RequestOK, TypeOK, database, outside
    <3>3. Me(home[t]) = tab[t].email
      BY <3>1, <3>2 DEF Inv, CeremonyOK, FinishesOwn
    <3>4. Me(home[t]) \in Emails /\ epoch[Me(home[t])] # None
      BY <1>0, <3>1, <3>2 DEF SignedIn, Me, TypeOK, Session
    <3>5. RequestOK(t)'
      BY <1>0, <3>1, <3>2, <3>3, <3>4 DEF TypeOK, Request, RequestOK
    <3> QED BY <3>1, <3>5, OthersKept
  <2> QED BY <2>1, <2>2
<1>10. ASSUME NEW t \in Tabs, NEW e \in Emails \cup {None}, LoginStart(t, e) PROVE Goal
  <2>1. tab' = [tab EXCEPT ![t] = [Idle EXCEPT !.stage = "asserting", !.email = e]]
    BY <1>10 DEF LoginStart, Become
  <2>2. RequestOK(t)'
    BY <1>0, <2>1 DEF TypeOK, RequestOK, Idle
  <2> QED BY <2>1, <2>2, OthersKept
<1>11. ASSUME NEW t \in Tabs, NEW c \in Creds, SignAssertion(t, c) PROVE Goal
  <2>1. tab' = [tab EXCEPT ![t] = [tab[t] EXCEPT !.stage = "signed", !.cred = c]]
    BY <1>11 DEF SignAssertion, Become
  <2>2. RequestOK(t)'
    BY <1>0, <2>1 DEF TypeOK, Request, RequestOK
  <2> QED BY <2>1, <2>2, OthersKept
<1>12. ASSUME NEW t \in Tabs, LoginFinish(t) PROVE Goal
  <2>1. CASE End(t)
    BY <2>1, <1>2
  <2>2. CASE ~End(t)
    <3>1. PICK i \in RowIds :
            /\ row[i] # None
            /\ tab' = [tab EXCEPT ![t] = [tab[t] EXCEPT !.stage = "found", !.row = i,
                                            !.email = row[i].owner, !.cred = row[i].passkey]]
      BY <1>12, <2>2 DEF LoginFinish, Become
    <3>2. /\ row[i].owner \in Emails /\ row[i].passkey \in Creds
          /\ epoch[row[i].owner] # None /\ epoch' = epoch
      BY <1>12, <1>0, <3>1 DEF LoginFinish, Inv, RowOK, TypeOK, PasskeyRow, database
    <3>3. RequestOK(t)'
      BY <1>0, <3>1, <3>2 DEF TypeOK, Request, RequestOK
    <3> QED BY <3>1, <3>3, OthersKept
  <2> QED BY <2>1, <2>2
<1>13. ASSUME NEW t \in Tabs, UseRow(t) PROVE Goal
  <2>1. tab' = [tab EXCEPT ![t] = [tab[t] EXCEPT !.stage = "used"]]
    BY <1>13 DEF UseRow, Become
  <2>2. RequestOK(t)'
    BY <1>13, <1>0, <2>1 DEF UseRow, At, Inv, TypeOK, Request, RequestOK, Forward
  <2> QED BY <2>1, <2>2, OthersKept
<1>14. ASSUME NEW t \in Tabs, LoadOwner(t) PROVE Goal
  <2>1. tab' = [tab EXCEPT ![t] = [tab[t] EXCEPT !.stage = "issuing",
                                     !.epoch = epoch[tab[t].email]]]
    BY <1>14 DEF LoadOwner, Become
  <2>2. /\ tab[t].email \in Emails /\ epoch[tab[t].email] \in Epochs /\ epoch' = epoch
        /\ epoch[tab[t].email] # None
    BY <1>14, <1>0 DEF LoadOwner, At, Inv, RequestOK, TypeOK, database
  <2>3. RequestOK(t)'
    BY <1>0, <2>1, <2>2, BoundsAssumption DEF TypeOK, Request, RequestOK, Epochs
  <2> QED BY <2>1, <2>3, OthersKept
<1>15. ASSUME NEW t \in Tabs, IssueSession(t) \/ BumpEpoch(t) \/ InsertPasskey(t) \/ Fail(t)
       PROVE  Goal
  BY <1>15, <1>2 DEF IssueSession, BumpEpoch, InsertPasskey, Fail
<1>16. ASSUME \/ UNCHANGED vars
              \/ \E e \in Emails : RequestLink(e)
              \/ \E t \in Tabs, i \in RowIds : DeletePasskey(t, i)
              \/ \E b \in Browsers : Logout(b) \/ CookieExpires(b)
              \/ \E l \in Links : LinkExpires(l)
       PROVE  Goal
  BY <1>16, <1>1 DEF vars, RequestLink, DeletePasskey, Logout, CookieExpires, LinkExpires
<1> QED BY <1>3, <1>4, <1>5, <1>6, <1>7, <1>8, <1>9, <1>10, <1>11, <1>12, <1>13, <1>14,
       <1>15, <1>16 DEF Next

-----------------------------------------------------------------------------
(* Mailboxes, cookies, ceremonies and passkeys.                            *)

LEMMA InboxStep ==
  ASSUME Inv, [Next]_vars, TypeOK', Forward
  PROVE  \A l \in inbox' : link'[l] # None
<1>0. TypeOK /\ inbox \subseteq Links /\ \A l \in inbox : link'[l] # None
  BY DEF Inv, TypeOK, Forward
<1>1. ASSUME NEW e \in Emails, Mint(e) PROVE \A l \in inbox' : link'[l] # None
  <2>1. [email |-> e, used |-> FALSE, expired |-> FALSE] \in LinkRow
    BY DEF LinkRow
  <2>2. PICK l \in Links : /\ link' = [link EXCEPT ![l] = [email |-> e, used |-> FALSE, expired |-> FALSE]]
                          /\ inbox' \in {inbox, inbox \cup {l}}
    BY <1>1 DEF Mint
  <2> QED BY <1>0, <2>1, <2>2, NoneFacts DEF TypeOK
<1>2. (\E e \in Emails : Mint(e)) \/ inbox' = inbox
  <2>1. CASE \E e \in Emails : RequestLink(e)
    BY <2>1 DEF RequestLink
  <2>2. CASE \E t \in Tabs, l \in Links : ClickLink(t, l)
    <3>1. PICK t \in Tabs, l \in Links : ClickLink(t, l)
      BY <2>2
    <3>2. link[l].email \in Emails
      BY <1>0, <3>1, LinkRowFacts DEF ClickLink, Inv, TypeOK
    <3> QED BY <3>1, <3>2 DEF ClickLink, outside
  <2>3. CASE ~(\E e \in Emails : RequestLink(e)) /\ ~(\E t \in Tabs, l \in Links : ClickLink(t, l))
    BY <2>3, ZenonT(60) DEF Next, vars, SpendLink, FindUser, CreateUser, IssueSession, AskOutEverywhere,
      BumpEpoch, RegisterStart, MakePasskey, RegisterFinish, InsertPasskey, DeletePasskey,
      LoginStart, SignAssertion, LoginFinish, UseRow, LoadOwner, Fail, Logout, CookieExpires,
      LinkExpires, outside
  <2> QED BY <2>1, <2>2, <2>3
<1> QED BY <1>0, <1>1, <1>2

\* An older session of an account that is there stays one.
LEMMA CookieKept ==
  ASSUME TypeOK, TypeOK', Forward, NEW b \in Browsers, CookieOK(b),
         cookie'[b] \in {cookie[b], None}
  PROVE  CookieOK(b)'
<1>1. CASE cookie'[b] = None
  BY <1>1 DEF CookieOK
<1>2. CASE cookie'[b] # None
  <2>1. /\ cookie[b] \in Session /\ cookie'[b] = cookie[b]
        /\ epoch \in [Emails -> Epochs \cup {None}] /\ epoch' \in [Emails -> Epochs \cup {None}]
    BY <1>2 DEF TypeOK
  <2> QED BY <1>2, <2>1, NoneFacts, BoundsAssumption DEF CookieOK, Forward, Session, Epochs
<1> QED BY <1>1, <1>2

LEMMA CookiesStep ==
  ASSUME Inv, [Next]_vars, TypeOK', Forward
  PROVE  \A b \in Browsers : CookieOK(b)'
<1> SUFFICES ASSUME NEW b \in Browsers PROVE CookieOK(b)'
  OBVIOUS
<1>0. TypeOK /\ CookieOK(b) /\ cookie \in [Browsers -> Session \cup {None}]
  BY DEF Inv, TypeOK
<1>1. ASSUME NEW t \in Tabs, IssueSession(t) PROVE CookieOK(b)'
  <2>1. CASE cookie'[b] = [email |-> tab[t].email, epoch |-> tab[t].epoch]
    BY <1>1, <2>1 DEF IssueSession, At, Inv, RequestOK, CookieOK, database
  <2>2. CASE cookie'[b] = cookie[b]
    BY <2>2, <1>0, CookieKept
  <2> QED BY <1>0, <1>1, <2>1, <2>2 DEF IssueSession, Answer, cookies
<1>2. ASSUME \/ \E t \in Tabs : BumpEpoch(t)
             \/ \E c \in Browsers : Logout(c) \/ CookieExpires(c)
      PROVE  CookieOK(b)'
  <2>1. cookie'[b] \in {cookie[b], None}
    BY <1>0, <1>2 DEF BumpEpoch, Logout, CookieExpires, Answer, cookies
  <2> QED BY <1>0, <2>1, CookieKept
<1>3. ASSUME cookie' = cookie PROVE CookieOK(b)'
  BY <1>0, <1>3, CookieKept
<1>4. \/ \E t \in Tabs : IssueSession(t) \/ BumpEpoch(t)
      \/ \E c \in Browsers : Logout(c) \/ CookieExpires(c)
      \/ cookie' = cookie
  BY ZenonT(60) DEF Next, vars, cookies, RequestLink, ClickLink, SpendLink, FindUser, CreateUser,
    AskOutEverywhere, RegisterStart, MakePasskey, RegisterFinish, InsertPasskey, DeletePasskey,
    LoginStart, SignAssertion, LoginFinish, UseRow, LoadOwner, Fail, LinkExpires, Answer
<1> QED BY <1>1, <1>2, <1>3, <1>4

\* A ceremony may end; its tab may end, or go on with the same account.
LEMMA CeremonyKept ==
  ASSUME Inv, TypeOK', Forward, NEW b \in Browsers, state'[b] \in {state[b], None},
         \A u \in Tabs : tab'[u].stage \in {"enrolling", "made"} =>
            tab[u].stage \in {"enrolling", "made"} /\ tab'[u].email = tab[u].email
  PROVE  CeremonyOK(b)'
<1>1. CASE state'[b] = None
  BY <1>1 DEF CeremonyOK
<1>2. CASE state'[b] # None
  <2>1. state'[b] = state[b] /\ state[b].challenge \in Tabs /\ CeremonyOK(b)
    BY <1>2 DEF Inv, TypeOK, CeremonyState
  <2> QED BY <1>2, <2>1 DEF CeremonyOK, Forward
<1> QED BY <1>1, <1>2

LEMMA CeremoniesStep ==
  ASSUME Inv, [Next]_vars, TypeOK', Forward
  PROVE  \A b \in Browsers : CeremonyOK(b)'
<1> SUFFICES ASSUME NEW b \in Browsers PROVE CeremonyOK(b)'
  OBVIOUS
<1> DEFINE Same(u) == tab'[u].stage \in {"enrolling", "made"} =>
             tab[u].stage \in {"enrolling", "made"} /\ tab'[u].email = tab[u].email
           Kept == state'[b] \in {state[b], None} /\ \A u \in Tabs : Same(u)
<1>0. /\ TypeOK /\ tab \in [Tabs -> Request] /\ home \in [Tabs -> Browsers]
      /\ state \in [Browsers -> CeremonyState \cup {None}]
  BY DEF Inv, TypeOK
<1>1. ASSUME Kept PROVE CeremonyOK(b)'
  BY <1>1, CeremonyKept
<1>2. ASSUME NEW t \in Tabs,
             \/ RegisterStart(t)
             \/ \E e \in Emails \cup {None} : LoginStart(t, e)
      PROVE  CeremonyOK(b)'
  <2>1. CASE b = home[t]
    <3>1. /\ state'[b] # None => state'[b].challenge = t
          /\ state'[b].kind = "reg" => state'[b].subject = Me(home[t]) /\ tab'[t].email = Me(home[t])
      <4>1. CASE RegisterStart(t)
        BY <1>0, <2>1, <4>1 DEF RegisterStart, Become, Idle
      <4>2. CASE \E e \in Emails \cup {None} : LoginStart(t, e)
        <5>1. state'[b].challenge = t /\ state'[b].kind \in {"discoverable", "auth"}
          BY <1>0, <2>1, <4>2 DEF LoginStart
        <5> QED BY <5>1
      <4> QED BY <1>2, <4>1, <4>2
    <3> QED BY <2>1, <3>1 DEF CeremonyOK, Forward
  <2>2. CASE b # home[t]
    <3>1. state'[b] = state[b] /\ \A u \in Tabs \ {t} : tab'[u] = tab[u]
      BY <1>0, <1>2, <2>2 DEF RegisterStart, LoginStart, Become
    <3>2. state[b] # None => state[b].challenge \in Tabs \ {t} /\ CeremonyOK(b)
      BY <1>0, <2>2 DEF Inv, CeremonyOK, CeremonyState
    <3> QED BY <3>1, <3>2 DEF CeremonyOK, Forward
  <2> QED BY <2>1, <2>2
<1>3. ASSUME NEW t \in Tabs, NEW c \in Creds, MakePasskey(t, c) PROVE Kept
  <2>1. tab[t].stage = "enrolling" /\ tab' = [tab EXCEPT ![t] = [tab[t] EXCEPT !.stage = "made", !.cred = c]]
    BY <1>3 DEF MakePasskey, At, Become
  <2>2. \A u \in Tabs : Same(u)
    BY <1>0, <2>1 DEF Request
  <2> QED BY <1>3, <2>2 DEF MakePasskey, cookies
<1>4. ASSUME NEW t \in Tabs, End(t) PROVE \A u \in Tabs : Same(u)
  BY <1>0, <1>4 DEF End, Become, Idle
<1>5. ASSUME NEW t \in Tabs,
             \/ \E l \in Links : ClickLink(t, l)
             \/ SpendLink(t) \/ FindUser(t) \/ CreateUser(t) \/ AskOutEverywhere(t)
             \/ RegisterFinish(t) \/ (\E c \in Creds : SignAssertion(t, c))
             \/ LoginFinish(t) \/ UseRow(t) \/ LoadOwner(t)
      PROVE  Kept
  <2>1. tab[t] \in Request
    BY <1>0
  <2>2. \A u \in Tabs : Same(u)
    <3>1. CASE (\E l \in Links : ClickLink(t, l)) \/ AskOutEverywhere(t)
      <4>1. \/ tab' = tab
            \/ tab'[t].stage \in {"reading", "leaving"} /\ \A u \in Tabs \ {t} : tab'[u] = tab[u]
        BY <1>0, <3>1, ZenonT(60) DEF ClickLink, AskOutEverywhere, Become, Idle
      <4> QED BY <4>1
    <3>2. CASE End(t)
      BY <3>2, <1>4
    <3>3. CASE \E g \in {"spent", "issuing", "creating", "verified", "signed", "found", "used"} :
                  tab'[t].stage = g /\ \A u \in Tabs \ {t} : tab'[u] = tab[u]
      BY <3>3
    <3>4. CASE SpendLink(t)
      BY <1>0, <3>2, <3>3, <3>4 DEF SpendLink, Become, Request
    <3>5. CASE FindUser(t)
      BY <1>0, <3>3, <3>5 DEF FindUser, Become, Request
    <3>6. CASE CreateUser(t)
      BY <1>0, <3>2, <3>3, <3>6 DEF CreateUser, Become, Request
    <3>7. CASE UseRow(t)
      BY <1>0, <3>2, <3>3, <3>7 DEF UseRow, Become, Request
    <3>8. CASE LoadOwner(t)
      BY <1>0, <3>2, <3>3, <3>8 DEF LoadOwner, Become, Request
    <3>9. CASE RegisterFinish(t)
      BY <1>0, <3>2, <3>3, <3>9 DEF RegisterFinish, Become, Request
    <3>10. CASE \E c \in Creds : SignAssertion(t, c)
      BY <1>0, <3>2, <3>3, <3>10 DEF SignAssertion, Become, Request
    <3>11. CASE LoginFinish(t)
      <4>1. CASE ~End(t)
        <5>1. PICK i \in RowIds :
                Become(t, [tab[t] EXCEPT !.stage = "found", !.row = i,
                             !.email = row[i].owner, !.cred = row[i].passkey])
          BY <3>11, <4>1 DEF LoginFinish
        <5> QED BY <1>0, <2>1, <3>3, <5>1 DEF Become, Request
      <4> QED BY <3>2, <4>1
    <3> QED BY <1>5, <3>1, <3>4, <3>5, <3>6, <3>7, <3>8, <3>9, <3>10, <3>11
  <2>3. state'[b] \in {state[b], None}
    BY <1>0, <1>5 DEF ClickLink, SpendLink, FindUser, CreateUser, AskOutEverywhere,
      RegisterFinish, SignAssertion, LoginFinish, UseRow, LoadOwner, cookies
  <2> QED BY <2>2, <2>3
<1>6. ASSUME NEW t \in Tabs, IssueSession(t) \/ BumpEpoch(t) \/ InsertPasskey(t) \/ Fail(t)
      PROVE  Kept
  <2>1. state'[b] \in {state[b], None}
    BY <1>0, <1>6 DEF IssueSession, BumpEpoch, InsertPasskey, Fail, Answer, cookies
  <2> QED BY <1>4, <1>6, <2>1 DEF IssueSession, BumpEpoch, InsertPasskey, Fail
<1>7. ASSUME \/ UNCHANGED vars
             \/ \E e \in Emails : RequestLink(e)
             \/ \E t \in Tabs, i \in RowIds : DeletePasskey(t, i)
             \/ \E c \in Browsers : Logout(c) \/ CookieExpires(c)
             \/ \E l \in Links : LinkExpires(l)
      PROVE  Kept
  BY <1>0, <1>7 DEF vars, RequestLink, DeletePasskey, Logout, CookieExpires, LinkExpires, cookies
<1> QED BY <1>1, <1>2, <1>3, <1>5, <1>6, <1>7 DEF Next

LEMMA RowKept ==
  ASSUME TypeOK, Forward, NEW i \in RowIds, RowOK(i),
         row'[i] # None => /\ row[i] # None /\ row'[i].owner = row[i].owner
                           /\ row'[i].cred = row[i].cred
  PROVE  RowOK(i)'
<1>1. row[i] # None => row[i].owner \in Emails /\ row[i].cred \in Creds
  BY DEF TypeOK, PasskeyRow
<1> QED BY <1>1, NoneFacts DEF RowOK, Forward

LEMMA RowsStep ==
  ASSUME Inv, [Next]_vars, TypeOK', Forward
  PROVE  \A i \in RowIds : RowOK(i)'
<1> SUFFICES ASSUME NEW i \in RowIds PROVE RowOK(i)'
  OBVIOUS
<1>0. TypeOK /\ RowOK(i) /\ row \in [RowIds -> PasskeyRow \cup {None}]
  BY DEF Inv, TypeOK
<1>1. ASSUME row'[i] = row[i] PROVE RowOK(i)'
  BY <1>0, <1>1, RowKept
<1>2. ASSUME NEW t \in Tabs, InsertPasskey(t) PROVE RowOK(i)'
  <2>1. CASE row'[i] = [owner |-> tab[t].email, cred |-> tab[t].cred, passkey |-> tab[t].cred]
    BY <1>2, <2>1 DEF InsertPasskey, At, Inv, RequestOK, RowOK, outside
  <2> QED BY <1>0, <1>1, <1>2, <2>1 DEF InsertPasskey
<1>3. ASSUME NEW t \in Tabs, NEW j \in RowIds, DeletePasskey(t, j) PROVE RowOK(i)'
  BY <1>0, <1>1, <1>3 DEF DeletePasskey, RowOK
<1>4. ASSUME NEW t \in Tabs, UseRow(t) PROVE RowOK(i)'
  <2>1. row'[i] # None => /\ row[i] # None /\ row'[i].owner = row[i].owner
                          /\ row'[i].cred = row[i].cred
    BY <1>0, <1>4 DEF UseRow, PasskeyRow
  <2> QED BY <1>0, <2>1, RowKept
<1>5. \/ \E t \in Tabs : \/ InsertPasskey(t) \/ UseRow(t)
                       \/ \E j \in RowIds : DeletePasskey(t, j)
      \/ row' = row
  BY ZenonT(60) DEF Next, vars, database, RequestLink, ClickLink, SpendLink, FindUser, CreateUser,
    IssueSession, AskOutEverywhere, BumpEpoch, RegisterStart, MakePasskey, RegisterFinish,
    LoginStart, SignAssertion, LoginFinish, LoadOwner, Fail, Logout, CookieExpires, LinkExpires
<1> QED BY <1>1, <1>2, <1>3, <1>4, <1>5

-----------------------------------------------------------------------------
(* The sessions the server promises.                                       *)

\* The epochs of the accounts there are stay what they are.
EpochsStay == \A e \in Emails : epoch[e] # None => epoch'[e] = epoch[e]

\* What Sessions sees of a tab, and of a browser, is what it saw before.
AnswerStays(u) == Granted'[u] = Granted[u] /\ (u \in Standing' <=> u \in Standing)
SessionStays(b) == Holder'[b] = Holder[b] /\ (b \in Honoured' <=> b \in Honoured)

LEMMA AnswerKept ==
  ASSUME Inv, EpochsStay, NEW u \in Tabs,
         tab'[u] = tab[u] \/ (tab[u].stage # "issuing" /\ tab'[u].stage # "issuing")
  PROVE  AnswerStays(u)
<1>1. CASE tab[u].stage # "issuing"
  BY <1>1 DEF AnswerStays, Granted, Standing, At
<1>2. CASE tab[u].stage = "issuing"
  <2>1. tab'[u] = tab[u] /\ tab[u].email \in Emails /\ epoch'[tab[u].email] = epoch[tab[u].email]
    BY <1>2 DEF Inv, RequestOK, EpochsStay
  <2> QED BY <2>1 DEF AnswerStays, Granted, Standing, At
<1> QED BY <1>1, <1>2

LEMMA SessionKept ==
  ASSUME Inv, EpochsStay, NEW b \in Browsers, cookie'[b] = cookie[b]
  PROVE  SessionStays(b)
<1>1. CASE cookie[b] = None
  BY <1>1 DEF SessionStays, Holder, Honoured, SignedIn
<1>2. CASE cookie[b] # None
  <2>1. epoch'[cookie[b].email] = epoch[cookie[b].email]
    BY <1>2 DEF Inv, TypeOK, Session, CookieOK, EpochsStay
  <2> QED BY <1>2, <2>1 DEF SessionStays, Holder, Honoured, SignedIn, Me
<1> QED BY <1>1, <1>2

LEMMA AllStay ==
  /\ (\A u \in Tabs : AnswerStays(u)) => Granted' = Granted /\ Standing' = Standing
  /\ (\A b \in Browsers : SessionStays(b)) => Holder' = Holder /\ Honoured' = Honoured
<1>1. ASSUME \A u \in Tabs : AnswerStays(u) PROVE Granted' = Granted /\ Standing' = Standing
  BY <1>1 DEF AnswerStays, Granted, Standing
<1>2. ASSUME \A b \in Browsers : SessionStays(b) PROVE Holder' = Holder /\ Honoured' = Honoured
  BY <1>2 DEF SessionStays, Holder, Honoured
<1> QED BY <1>1, <1>2

\* What Sessions sees may change at one tab only, or at one browser.
LEMMA GrantedAt ==
  ASSUME NEW t \in Tabs, \A u \in Tabs \ {t} : Granted'[u] = Granted[u]
  PROVE  Granted' = [Granted EXCEPT ![t] = Granted'[t]]
<1>1. Granted = [u \in Tabs |-> Granted[u]] /\ Granted' = [u \in Tabs |-> Granted'[u]]
  BY DEF Granted
<1> QED BY <1>1

LEMMA HolderAt ==
  ASSUME NEW b \in Browsers, \A c \in Browsers \ {b} : Holder'[c] = Holder[c]
  PROVE  Holder' = [Holder EXCEPT ![b] = Holder'[b]]
<1>1. Holder = [c \in Browsers |-> Holder[c]] /\ Holder' = [c \in Browsers |-> Holder'[c]]
  BY DEF Holder
<1> QED BY <1>1

\* A tab is let in, with the epoch of now.
LEMMA LetIn ==
  ASSUME Inv, EpochsStay, home' = home, cookie' = cookie, NEW t \in Tabs, NEW r,
         tab' = [tab EXCEPT ![t] = r], tab[t].stage # "issuing",
         r.stage = "issuing", r.email \in Emails, r.epoch = epoch'[r.email]
  PROVE  Promised!Grant(t, r.email)
<1>0. tab'[t] = r /\ \A u \in Tabs \ {t} : tab'[u] = tab[u]
  BY DEF Inv, TypeOK
<1>1. \A u \in Tabs \ {t} : AnswerStays(u)
  BY <1>0, AnswerKept
<1>2. Granted[t] = None /\ Granted'[t] = r.email
  BY <1>0 DEF Granted, At
<1>3. Granted' = [Granted EXCEPT ![t] = r.email]
  BY <1>1, <1>2, GrantedAt DEF AnswerStays
<1>4. Standing' = Standing \cup {t}
  BY <1>0, <1>1 DEF AnswerStays, Standing, At
<1>5. Holder' = Holder /\ Honoured' = Honoured
  BY SessionKept, AllStay
<1> QED BY <1>2, <1>3, <1>4, <1>5 DEF Promised!Grant, Promised!sessions

\* An answer is no longer on its way.
LEMMA NoLonger ==
  ASSUME Inv, EpochsStay, NEW t \in Tabs, End(t), tab[t].stage = "issuing"
  PROVE  Promised!Forget(t)
<1>0. tab'[t] = Idle /\ \A u \in Tabs \ {t} : tab'[u] = tab[u]
  BY DEF Inv, TypeOK, End, Become
<1>1. \A u \in Tabs \ {t} : AnswerStays(u)
  BY <1>0, AnswerKept
<1>2. Granted[t] # None /\ Granted'[t] = None
  BY <1>0, NoneFacts DEF Granted, At, Inv, RequestOK, Idle
<1>3. Granted' = [Granted EXCEPT ![t] = None]
  BY <1>1, <1>2, GrantedAt DEF AnswerStays
<1>4. Standing' = Standing \ {t}
  BY <1>0, <1>1 DEF AnswerStays, Standing, At, Idle
<1> QED BY <1>2, <1>3, <1>4 DEF Promised!Forget

LEMMA Answered ==
  ASSUME Inv, NEW t \in Tabs, IssueSession(t)
  PROVE  Promised!Deliver(t) \/ Promised!Lose(t)
<1> DEFINE b == home[t]
           s == [email |-> tab[t].email, epoch |-> tab[t].epoch]
<1>0. /\ EpochsStay /\ home' = home /\ b \in Browsers /\ cookie \in [Browsers -> Session \cup {None}]
      /\ tab[t].stage = "issuing" /\ End(t) /\ epoch' = epoch
  BY DEF IssueSession, Inv, TypeOK, EpochsStay, database, outside, At
<1>1. Promised!Forget(t)
  BY <1>0, NoLonger
<1>2. CASE cookie' = cookie
  <2>1. Holder' = Holder /\ Honoured' = Honoured
    BY <1>0, <1>2, SessionKept, AllStay
  <2> QED BY <1>0, <1>1, <2>1 DEF Promised!Lose, Promised!sessions
<1>3. CASE cookie' = [cookie EXCEPT ![b] = s]
  <2>1. \A c \in Browsers \ {b} : SessionStays(c)
    BY <1>0, <1>3, SessionKept
  <2>2. cookie'[b] = s /\ s # None
    BY <1>0, <1>3, NoneFacts DEF Inv, RequestOK, Session
  <2>3. Granted[t] = tab[t].email
    BY <1>0 DEF Granted, At
  <2>4. Holder' = [Holder EXCEPT ![b] = Granted[t]]
    <3>1. Holder'[b] = Granted[t]
      BY <1>0, <2>2, <2>3 DEF Holder, Me
    <3> QED BY <1>0, <2>1, <3>1, HolderAt DEF SessionStays
  <2>5. b \in Honoured' <=> t \in Standing
    BY <1>0, <2>2, NoneFacts DEF Honoured, Standing, SignedIn, At, Inv, RequestOK
  <2>6. Honoured' = IF t \in Standing THEN Honoured \cup {b} ELSE Honoured \ {b}
    BY <1>0, <2>1, <2>5 DEF SessionStays, Honoured
  <2> QED BY <1>0, <1>1, <2>4, <2>6 DEF Promised!Deliver
<1> QED BY <1>2, <1>3 DEF IssueSession, Answer, cookies

LEMMA CookieCleared ==
  ASSUME Inv, EpochsStay, home' = home, tab' = tab, NEW b \in Browsers,
         cookie[b] # None, cookie' = [cookie EXCEPT ![b] = None]
  PROVE  Promised!SignOut(b)
<1>1. cookie'[b] = None /\ \A c \in Browsers \ {b} : SessionStays(c)
  BY SessionKept DEF Inv, TypeOK
<1>2. Granted' = Granted /\ Standing' = Standing
  <2>1. \A u \in Tabs : tab'[u] = tab[u]
    OBVIOUS
  <2> QED BY <2>1, AnswerKept, AllStay
<1>3. Holder[b] # None /\ Holder' = [Holder EXCEPT ![b] = None]
  <2>1. Holder[b] # None /\ Holder'[b] = None
    BY <1>1, NoneFacts DEF Holder, Me, Inv, TypeOK, Session
  <2> QED BY <1>1, <2>1, HolderAt DEF SessionStays
<1>4. Honoured' = Honoured \ {b}
  BY <1>1 DEF SessionStays, Honoured, SignedIn
<1> QED BY <1>2, <1>3, <1>4 DEF Promised!SignOut, Promised!answers

\* The account's epoch leaves behind every session and every answer of the account.
LEMMA LeftBehind ==
  ASSUME Inv, NEW t \in Tabs, BumpEpoch(t)
  PROVE  Promised!OutEverywhere(tab[t].email, home[t])
<1> DEFINE e == tab[t].email
           b == home[t]
<1>0. /\ e \in Emails /\ epoch[e] \in Epochs /\ epoch'[e] = epoch[e] + 1 /\ b \in Browsers
      /\ \A f \in Emails \ {e} : epoch'[f] = epoch[f]
      /\ tab[t].stage = "leaving" /\ tab'[t] = Idle /\ \A u \in Tabs \ {t} : tab'[u] = tab[u]
      /\ cookie \in [Browsers -> Session \cup {None}] /\ home' = home
  BY DEF BumpEpoch, End, Become, At, Inv, RequestOK, TypeOK, outside
<1>1. \A u \in Tabs : tab[u].stage = "issuing" =>
        /\ tab[u].email \in Emails /\ tab[u].epoch \in Epochs
        /\ tab[u].email = e => tab[u].epoch # epoch'[e]
  BY <1>0, BoundsAssumption DEF Inv, RequestOK, Epochs
<1>2. \A c \in Browsers : cookie[c] # None =>
        /\ cookie[c].email \in Emails
        /\ cookie[c].email = e => cookie[c].epoch # epoch'[e]
  BY <1>0, BoundsAssumption DEF Inv, CookieOK, Session, Epochs
<1>3. Granted' = Granted
  BY <1>0 DEF Granted, At, Idle
<1>4. Standing' = {u \in Standing : Granted[u] # e}
  BY <1>0, <1>1 DEF Standing, Granted, At, Idle
<1>5. CASE cookie' = cookie
  <2>1. Holder' = Holder
    BY <1>5 DEF Holder, Me
  <2>2. Honoured' = {c \in Honoured : Holder[c] # e}
    BY <1>0, <1>2, <1>5 DEF Honoured, Holder, SignedIn, Me
  <2> QED BY <1>0, <1>3, <1>4, <2>1, <2>2 DEF Promised!OutEverywhere
<1>6. CASE cookie' = [cookie EXCEPT ![b] = None]
  <2>1. cookie'[b] = None /\ \A c \in Browsers \ {b} : cookie'[c] = cookie[c]
    BY <1>0, <1>6
  <2>2. Holder' = [Holder EXCEPT ![b] = None]
    BY <1>0, <2>1 DEF Holder, Me
  <2>3. Honoured' = {c \in Honoured : Holder[c] # e /\ c # b}
    BY <1>0, <1>2, <2>1 DEF Honoured, Holder, SignedIn, Me
  <2> QED BY <1>0, <1>3, <1>4, <2>2, <2>3 DEF Promised!OutEverywhere
<1> QED BY <1>5, <1>6 DEF BumpEpoch, Answer, cookies

\* A step that neither lets a tab in nor answers it is not seen.
LEMMA Unseen ==
  ASSUME Inv, EpochsStay, home' = home, cookie' = cookie,
         \A u \in Tabs : tab'[u] = tab[u] \/ (tab[u].stage # "issuing" /\ tab'[u].stage # "issuing")
  PROVE  UNCHANGED <<home, Granted, Standing, Holder, Honoured>>
<1>1. Granted' = Granted /\ Standing' = Standing
  BY AnswerKept, AllStay
<1>2. Holder' = Holder /\ Honoured' = Honoured
  BY SessionKept, AllStay
<1> QED BY <1>1, <1>2

LEMMA PromiseStep ==
  ASSUME Inv, [Next]_vars
  PROVE  Promised!Next \/ UNCHANGED <<home, Granted, Standing, Holder, Honoured>>
<1> DEFINE Stutter == UNCHANGED <<home, Granted, Standing, Holder, Honoured>>
           Goal == Promised!Next \/ Stutter
           Still(t) == /\ UNCHANGED <<home, epoch, cookie>>
                       /\ tab[t].stage # "issuing" /\ tab'[t].stage # "issuing"
                       /\ \A u \in Tabs \ {t} : tab'[u] = tab[u]
<1>0. /\ tab \in [Tabs -> Request] /\ home \in [Tabs -> Browsers]
      /\ cookie \in [Browsers -> Session \cup {None}] /\ epoch \in [Emails -> Epochs \cup {None}]
  BY DEF Inv, TypeOK
<1>1. ASSUME UNCHANGED <<home, epoch, cookie, tab>> PROVE Goal
  <2>1. EpochsStay /\ \A u \in Tabs : tab'[u] = tab[u]
    BY <1>1 DEF EpochsStay
  <2> QED BY <1>1, <2>1, Unseen
<1>2. ASSUME NEW t \in Tabs, Still(t) PROVE Goal
  <2>1. /\ EpochsStay /\ home' = home /\ cookie' = cookie
        /\ \A u \in Tabs : tab'[u] = tab[u] \/ (tab[u].stage # "issuing" /\ tab'[u].stage # "issuing")
    BY <1>2 DEF EpochsStay
  <2> QED BY <2>1, Unseen
<1>3. ASSUME NEW t \in Tabs, IssueSession(t) PROVE Goal
  BY <1>3, Answered DEF Promised!Next
<1>4. ASSUME NEW t \in Tabs, BumpEpoch(t) PROVE Goal
  <2>1. tab[t].email \in Emails /\ home[t] \in Browsers
    BY <1>0, <1>4 DEF BumpEpoch, At, Inv, RequestOK
  <2> QED BY <1>4, <2>1, LeftBehind DEF Promised!Next
<1>5. ASSUME NEW b \in Browsers, Logout(b) \/ CookieExpires(b) PROVE Goal
  <2>1. CASE cookie' = cookie
    BY <1>1, <1>5, <2>1 DEF Logout, CookieExpires, database, outside
  <2>2. CASE cookie' # cookie
    <3>1. /\ cookie[b] # None /\ cookie' = [cookie EXCEPT ![b] = None]
          /\ UNCHANGED <<home, epoch, tab>>
      BY <1>5, <2>2 DEF Logout, CookieExpires, database, outside
    <3> QED BY <3>1, CookieCleared DEF EpochsStay, Promised!Next
  <2> QED BY <2>1, <2>2
<1>6. ASSUME NEW t \in Tabs, FindUser(t) PROVE Goal
  <2>1. /\ tab[t] \in Request /\ tab[t].stage = "spent" /\ tab[t].email \in Emails
        /\ UNCHANGED <<home, epoch, cookie>>
    BY <1>0, <1>6 DEF FindUser, At, Inv, RequestOK, database, outside, cookies
  <2>2. CASE epoch[tab[t].email] # None
    <3> DEFINE r == [tab[t] EXCEPT !.stage = "issuing", !.epoch = epoch[tab[t].email]]
    <3>1. tab' = [tab EXCEPT ![t] = r]
      BY <1>6, <2>2 DEF FindUser, Become
    <3>2. r.stage = "issuing" /\ r.email = tab[t].email /\ r.epoch = epoch[tab[t].email]
      BY <2>1 DEF Request
    <3> HIDE DEF r
    <3> QED BY <2>1, <3>1, <3>2, LetIn DEF EpochsStay, Promised!Next
  <2>3. CASE epoch[tab[t].email] = None
    <3>1. tab' = [tab EXCEPT ![t] = [tab[t] EXCEPT !.stage = "creating"]]
      BY <1>6, <2>3 DEF FindUser, Become
    <3> QED BY <1>0, <1>2, <2>1, <3>1 DEF Request
  <2> QED BY <2>2, <2>3
<1>7. ASSUME NEW t \in Tabs, CreateUser(t) PROVE Goal
  <2>1. /\ tab[t] \in Request /\ tab[t].stage = "creating" /\ tab[t].email \in Emails
        /\ UNCHANGED <<home, cookie>>
    BY <1>0, <1>7 DEF CreateUser, At, Inv, RequestOK, outside, cookies
  <2>2. CASE MayCreate(t)
    <3> DEFINE r == [tab[t] EXCEPT !.stage = "issuing", !.epoch = 0]
    <3>1. tab' = [tab EXCEPT ![t] = r] /\ epoch' = [epoch EXCEPT ![tab[t].email] = 0]
      BY <1>7, <2>2 DEF CreateUser, Become
    <3>2. r.stage = "issuing" /\ r.email = tab[t].email /\ r.epoch = 0
      BY <2>1 DEF Request
    <3>3. EpochsStay /\ epoch'[tab[t].email] = 0
      BY <1>0, <2>1, <2>2, <3>1 DEF MayCreate, EpochsStay
    <3> HIDE DEF r
    <3> QED BY <2>1, <3>1, <3>2, <3>3, LetIn DEF Promised!Next
  <2>3. CASE ~MayCreate(t)
    <3>1. tab' = [tab EXCEPT ![t] = Idle] /\ epoch' = epoch
      BY <1>7, <2>3 DEF CreateUser, End, Become
    <3> QED BY <1>0, <1>2, <2>1, <3>1 DEF Idle
  <2> QED BY <2>2, <2>3
<1>8. ASSUME NEW t \in Tabs, LoadOwner(t) PROVE Goal
  <2>1. /\ tab[t] \in Request /\ tab[t].stage = "used" /\ tab[t].email \in Emails
        /\ UNCHANGED <<home, epoch, cookie>>
    BY <1>0, <1>8 DEF LoadOwner, At, Inv, RequestOK, database, outside, cookies
  <2> DEFINE r == [tab[t] EXCEPT !.stage = "issuing", !.epoch = epoch[tab[t].email]]
  <2>2. tab' = [tab EXCEPT ![t] = r]
    BY <1>8 DEF LoadOwner, Become
  <2>3. r.stage = "issuing" /\ r.email = tab[t].email /\ r.epoch = epoch[tab[t].email]
    BY <2>1 DEF Request
  <2> HIDE DEF r
  <2> QED BY <2>1, <2>2, <2>3, LetIn DEF EpochsStay, Promised!Next
<1>9. ASSUME NEW t \in Tabs, End(t), UNCHANGED <<home, epoch, cookie>> PROVE Goal
  <2>1. CASE tab[t].stage = "issuing"
    <3>1. Promised!Forget(t) /\ Holder' = Holder /\ Honoured' = Honoured
      BY <1>9, <2>1, NoLonger, SessionKept, AllStay DEF EpochsStay
    <3> QED BY <1>9, <3>1 DEF Promised!Next, Promised!Lose, Promised!sessions
  <2>2. CASE tab[t].stage # "issuing"
    BY <1>0, <1>2, <1>9, <2>2 DEF End, Become, Idle
  <2> QED BY <2>1, <2>2
<1>10. ASSUME NEW t \in Tabs, NEW l \in Links, ClickLink(t, l) PROVE Goal
  <2>1. UNCHANGED <<home, epoch, cookie>> /\ tab[t].stage # "issuing"
    BY <1>10 DEF ClickLink, Idle, database, outside, cookies
  <2>2. \/ tab' = tab
        \/ tab' = [tab EXCEPT ![t] = [Idle EXCEPT !.stage = "reading", !.link = l,
                                        !.email = link[l].email]]
    BY <1>10 DEF ClickLink, Become
  <2> QED BY <1>0, <1>1, <1>2, <2>1, <2>2 DEF Idle
<1>11. ASSUME NEW t \in Tabs, SpendLink(t) PROVE Goal
  <2>1. UNCHANGED <<home, epoch, cookie>> /\ tab[t].stage # "issuing" /\ tab[t] \in Request
    BY <1>0, <1>11 DEF SpendLink, At, outside, cookies
  <2>2. End(t) \/ tab' = [tab EXCEPT ![t] = [tab[t] EXCEPT !.stage = "spent"]]
    BY <1>11 DEF SpendLink, Become
  <2> QED BY <1>0, <1>2, <1>9, <2>1, <2>2 DEF Request
<1>12. ASSUME NEW t \in Tabs,
              \/ AskOutEverywhere(t) \/ RegisterStart(t)
              \/ \E e \in Emails \cup {None} : LoginStart(t, e)
       PROVE  Goal
  <2>1. UNCHANGED <<home, epoch, cookie>> /\ tab[t] = Idle
    BY <1>12 DEF AskOutEverywhere, RegisterStart, LoginStart, database, outside, cookies
  <2>2. PICK g \in {"leaving", "enrolling", "asserting"}, e \in Emails \cup {None} :
          tab' = [tab EXCEPT ![t] = [Idle EXCEPT !.stage = g, !.email = e]]
    <3>1. SignedIn(home[t]) => Me(home[t]) \in Emails
      BY <1>0 DEF SignedIn, Me, Session
    <3> QED BY <1>12, <3>1 DEF AskOutEverywhere, RegisterStart, LoginStart, Become
  <2> QED BY <1>0, <1>2, <2>1, <2>2 DEF Idle
<1>13. ASSUME NEW t \in Tabs,
              \E c \in Creds : MakePasskey(t, c) \/ SignAssertion(t, c)
       PROVE  Goal
  <2>1. UNCHANGED <<home, epoch, cookie>> /\ tab[t].stage # "issuing" /\ tab[t] \in Request
    BY <1>0, <1>13 DEF MakePasskey, SignAssertion, At, database, outside, cookies
  <2>2. PICK g \in {"made", "signed"}, c \in Creds :
          tab' = [tab EXCEPT ![t] = [tab[t] EXCEPT !.stage = g, !.cred = c]]
    BY <1>13 DEF MakePasskey, SignAssertion, Become
  <2> QED BY <1>0, <1>2, <2>1, <2>2 DEF Request
<1>14. ASSUME NEW t \in Tabs, RegisterFinish(t) PROVE Goal
  <2>1. UNCHANGED <<home, epoch, cookie>> /\ tab[t].stage # "issuing" /\ tab[t] \in Request
    BY <1>0, <1>14 DEF RegisterFinish, At, database, outside
  <2>2. End(t) \/ tab' = [tab EXCEPT ![t] = [tab[t] EXCEPT !.stage = "verified",
                                               !.email = Me(home[t])]]
    BY <1>14 DEF RegisterFinish, Become
  <2>3. CASE End(t)
    BY <1>9, <2>1, <2>3
  <2>4. CASE ~End(t)
    <3>1. tab' = [tab EXCEPT ![t] = [tab[t] EXCEPT !.stage = "verified", !.email = Me(home[t])]]
      BY <2>2, <2>4
    <3> QED BY <1>0, <1>2, <2>1, <3>1 DEF Request
  <2> QED BY <2>3, <2>4
<1>15. ASSUME NEW t \in Tabs, LoginFinish(t) PROVE Goal
  <2>1. UNCHANGED <<home, epoch, cookie>> /\ tab[t].stage # "issuing" /\ tab[t] \in Request
    BY <1>0, <1>15 DEF LoginFinish, At, database, outside
  <2>2. End(t) \/ \E i \in RowIds :
          tab' = [tab EXCEPT ![t] = [tab[t] EXCEPT !.stage = "found", !.row = i,
                                       !.email = row[i].owner, !.cred = row[i].passkey]]
    BY <1>15 DEF LoginFinish, Become
  <2>3. CASE End(t)
    BY <1>9, <2>1, <2>3
  <2>4. CASE ~End(t)
    <3>1. PICK i \in RowIds :
            tab' = [tab EXCEPT ![t] = [tab[t] EXCEPT !.stage = "found", !.row = i,
                                         !.email = row[i].owner, !.cred = row[i].passkey]]
      BY <2>2, <2>4
    <3> QED BY <1>0, <1>2, <2>1, <3>1 DEF Request
  <2> QED BY <2>3, <2>4
<1>16. ASSUME NEW t \in Tabs, UseRow(t) PROVE Goal
  <2>1. UNCHANGED <<home, epoch, cookie>> /\ tab[t].stage # "issuing" /\ tab[t] \in Request
    BY <1>0, <1>16 DEF UseRow, At, outside, cookies
  <2>2. tab' = [tab EXCEPT ![t] = [tab[t] EXCEPT !.stage = "used"]]
    BY <1>16 DEF UseRow, Become
  <2> QED BY <1>0, <1>2, <2>1, <2>2 DEF Request
<1>17. ASSUME NEW t \in Tabs, InsertPasskey(t) \/ Fail(t) PROVE Goal
  <2>1. End(t) /\ UNCHANGED <<home, epoch, cookie>>
    BY <1>17 DEF InsertPasskey, Fail, Answer, database, outside, cookies
  <2> QED BY <1>9, <2>1
<1>18. ASSUME \/ UNCHANGED vars
              \/ \E e \in Emails : RequestLink(e)
              \/ \E t \in Tabs, i \in RowIds : DeletePasskey(t, i)
              \/ \E l \in Links : LinkExpires(l)
       PROVE  Goal
  BY <1>1, <1>18 DEF vars, RequestLink, DeletePasskey, LinkExpires, database, outside, cookies
<1> QED BY <1>3, <1>4, <1>5, <1>6, <1>7, <1>8, <1>10, <1>11, <1>12, <1>13, <1>14, <1>15, <1>16,
       <1>17, <1>18 DEF Next

-----------------------------------------------------------------------------
(* The theorems.                                                           *)

LEMMA InvStep ==
  ASSUME Inv, [Next]_vars
  PROVE  Inv'
<1>1. TypeOK'
  BY TypeStep
<1>2. Forward
  BY StepForward
<1> QED BY <1>1, <1>2, RequestsStep, InboxStep, CookiesStep, CeremoniesStep, RowsStep DEF Inv

\* The inductive invariant holds: no cookie and no answer on its way is ahead of
\* its account, and what a tab carries is still about the account it was read for.
THEOREM SignInInv == Spec => []Inv
  BY InvInit, InvStep, PTL DEF Spec

\* Every variable has its type.
THEOREM SignInTypes == Spec => []TypeOK
<1>1. Inv => TypeOK
  BY DEF Inv
<1> QED BY <1>1, SignInInv, PTL

\* However tabs and browsers interleave, passkey_register_finish files a passkey
\* under the account it was made for.
THEOREM PasskeysFiledUnderTheirMaker == Spec => []FiledUnderItsMaker
<1>1. Inv => FiledUnderItsMaker
  BY DEF Inv, RowOK, FiledUnderItsMaker
<1> QED BY <1>1, SignInInv, PTL

\* A session that was revoked, or whose account it ran out of, never comes back:
\* an epoch only grows, and no session is ahead of it.
THEOREM RevocationIsForGood == Spec => RevokedForGood
<1>1. Inv /\ [Next]_vars =>
        \A b \in Browsers : cookie[b] # None /\ ~SignedIn(b) /\ cookie'[b] = cookie[b]
          => ~SignedIn(b)'
  <2> SUFFICES ASSUME Inv, [Next]_vars, NEW b \in Browsers,
                      cookie[b] # None, ~SignedIn(b), cookie'[b] = cookie[b]
               PROVE  ~SignedIn(b)'
    OBVIOUS
  <2>1. /\ cookie[b] \in Session /\ cookie[b].email \in Emails /\ cookie[b].epoch \in Epochs
        /\ epoch[cookie[b].email] \in Epochs \cup {None}
        /\ epoch'[cookie[b].email] \in Epochs \cup {None}
    BY TypeStep DEF Inv, TypeOK, Session
  <2>2. /\ epoch[cookie[b].email] \in Epochs
        /\ cookie[b].epoch < epoch[cookie[b].email]
    BY <2>1, NoneFacts, BoundsAssumption DEF Inv, CookieOK, SignedIn, Epochs
  <2>3. epoch'[cookie[b].email] \in Epochs /\ epoch[cookie[b].email] <= epoch'[cookie[b].email]
    BY <2>1, <2>2, StepForward, NoneFacts DEF Forward
  <2> QED BY <2>1, <2>2, <2>3, BoundsAssumption DEF SignedIn, Epochs
<1> QED BY <1>1, SignInInv, PTL DEF Spec, RevokedForGood

\* sign_out_everywhere ends every session its account has at that moment, in a browser or on
\* its way to one: each is of an epoch the account had, and has left now.
THEOREM SignedOutEverywhere == Spec => OutEverywhereIsEverywhere
<1>1. Inv /\ [Next]_vars =>
        \A e \in Emails : epoch[e] # None /\ epoch'[e] # epoch[e] =>
          /\ \A b \in Browsers : Holder'[b] = e => b \notin Honoured'
          /\ \A t \in Tabs : Granted'[t] = e => t \notin Standing'
  <2> SUFFICES ASSUME Inv, [Next]_vars, NEW e \in Emails, epoch[e] # None, epoch'[e] # epoch[e]
               PROVE  /\ \A b \in Browsers : Holder'[b] = e => b \notin Honoured'
                      /\ \A t \in Tabs : Granted'[t] = e => t \notin Standing'
    OBVIOUS
  <2>1. PICK t \in Tabs : BumpEpoch(t)
    <3>1. \A u \in Tabs : CreateUser(u) => epoch'[e] = epoch[e]
      <4>1. epoch \in [Emails -> Epochs \cup {None}]
        BY DEF Inv, TypeOK
      <4> QED BY <4>1 DEF CreateUser, MayCreate
    <3> QED BY <3>1, ZenonT(60) DEF Next, vars, database, RequestLink, ClickLink, SpendLink, FindUser,
          IssueSession, AskOutEverywhere, RegisterStart, MakePasskey, RegisterFinish,
          InsertPasskey, DeletePasskey, LoginStart, SignAssertion, LoginFinish, UseRow,
          LoadOwner, Fail, Logout, CookieExpires, LinkExpires
  <2>2. tab[t].email = e /\ home[t] \in Browsers
    BY <2>1 DEF BumpEpoch, Inv, TypeOK
  <2>3. Promised!OutEverywhere(e, home[t])
    BY <2>1, <2>2, LeftBehind
  <2>4. ASSUME NEW u \in Tabs, Granted'[u] = e PROVE u \notin Standing'
    BY <2>3, <2>4 DEF Promised!OutEverywhere
  <2>5. ASSUME NEW b \in Browsers, Holder'[b] = e PROVE b \notin Honoured'
    <3>1. e # None /\ Holder'[b] # None
      BY <2>5, NoneFacts
    <3>2. CASE Holder' = Holder /\ Honoured' = {c \in Honoured : Holder[c] # e}
      BY <2>5, <3>2
    <3>3. CASE /\ Holder' = [Holder EXCEPT ![home[t]] = None]
               /\ Honoured' = {c \in Honoured : Holder[c] # e /\ c # home[t]}
      <4>1. b # home[t]
        BY <2>2, <3>1, <3>3 DEF Holder
      <4>2. Holder'[b] = Holder[b]
        BY <2>2, <3>3, <4>1 DEF Holder
      <4> QED BY <2>5, <3>3, <4>2
    <3> QED BY <2>3, <3>2, <3>3 DEF Promised!OutEverywhere
  <2> QED BY <2>4, <2>5
<1> QED BY <1>1, SignInInv, PTL DEF Spec, OutEverywhereIsEverywhere

\* Whatever races, a click gets past consume only when the link is not spent.
THEOREM LinkSignsInOnce == Spec => OneSignInPerLink
<1>1. Inv /\ [Next]_vars =>
        \A t \in Tabs : At(t, "reading") /\ tab'[t].stage = "spent" => ~link[tab[t].link].used
  <2> SUFFICES ASSUME Inv, [Next]_vars, NEW t \in Tabs, tab[t].stage = "reading",
                      tab'[t].stage = "spent"
               PROVE  ~link[tab[t].link].used
    BY DEF At
  <2>0. tab \in [Tabs -> Request] /\ tab'[t] # tab[t]
    BY DEF Inv, TypeOK
  <2>1. CASE \E u \in Tabs : SpendLink(u)
    BY <2>0, <2>1 DEF SpendLink, MaySpend, Become, End, Idle
  <2>2. CASE ~\E u \in Tabs : SpendLink(u)
    <3>1. \A u \in Tabs : ~End(u)
      BY <2>0 DEF End, Become, Idle
    <3>2. \A u \in Tabs : \A r : tab' = [tab EXCEPT ![u] = r] => u = t /\ r.stage = "spent"
      BY <2>0
    <3>3. tab[t] # Idle
      BY DEF Idle
    <3>4. \A u \in Tabs : ~(\/ FindUser(u) \/ CreateUser(u) \/ AskOutEverywhere(u)
                            \/ RegisterStart(u) \/ RegisterFinish(u) \/ UseRow(u)
                            \/ LoadOwner(u) \/ LoginFinish(u))
      BY <2>0, <3>1, <3>2, <3>3 DEF FindUser, CreateUser, AskOutEverywhere, RegisterStart,
        RegisterFinish, UseRow, LoadOwner, LoginFinish, At, Become
    <3>5. \A u \in Tabs : /\ \A c \in Creds : ~MakePasskey(u, c) /\ ~SignAssertion(u, c)
                          /\ \A e \in Emails \cup {None} : ~LoginStart(u, e)
                          /\ \A l \in Links : ~ClickLink(u, l)
      BY <2>0, <3>2, <3>3 DEF MakePasskey, SignAssertion, LoginStart, ClickLink, At, Become
    <3> QED BY <2>0, <2>2, <3>1, <3>4, <3>5 DEF Next, vars, RequestLink, IssueSession, BumpEpoch,
          InsertPasskey, DeletePasskey, Fail, Logout, CookieExpires, LinkExpires
  <2> QED BY <2>1, <2>2
<1> QED BY <1>1, SignInInv, PTL DEF Spec, OneSignInPerLink

\* Comparing one number per account is enough to keep every session apart: whoever is signed
\* in was let in by their own browser's request and has not been signed out since, and an
\* answer signs in exactly when its account has not signed out everywhere while it was on its
\* way (middleware::attach, sign_in_response, sign_out_everywhere).
THEOREM SessionsImplemented == Spec => SessionsAreKept
<1>1. Init => Promised!Init
  <2> SUFFICES ASSUME Init PROVE Promised!Init
    OBVIOUS
  <2>1. home \in [Tabs -> Browsers]
    BY HomeAssumption DEF Init
  <2>2. Granted = [t \in Tabs |-> None] /\ Standing = {}
    BY DEF Init, Granted, Standing, At, Idle
  <2>3. Holder = [b \in Browsers |-> None] /\ Honoured = {}
    BY DEF Init, Holder, Honoured, SignedIn
  <2> QED BY <2>1, <2>2, <2>3 DEF Promised!Init
<1>2. Inv /\ [Next]_vars =>
        [Promised!Next]_<<home, Promised!answers, Promised!sessions>>
  BY PromiseStep DEF Promised!answers, Promised!sessions
<1> QED BY <1>1, <1>2, SignInInv, PTL DEF Spec, SessionsAreKept, Promised!Spec

=============================================================================
