--------------------------------- MODULE SignIn ---------------------------------
(***************************************************************************)
(* Signing in and out: the rows of user, magic_link_token and              *)
(* passkey_credential, the two cookies of a browser - its session and the  *)
(* state of its passkey ceremony - and the requests of its tabs, which     *)
(* run at once on several connections of the server.                       *)
(*                                                                         *)
(* The database is SQLite in WAL mode and a transaction of the server is a *)
(* deferred one: it reads from a snapshot, and its first write is refused  *)
(* when anybody has written since.                                         *)
(*                                                                         *)
(* Time is not counted: a link, a cookie or a ceremony may expire at any   *)
(* moment.  The quotas are RateLimit's: a refused call changes nothing.    *)
(***************************************************************************)
EXTENDS Integers, FiniteSets

CONSTANTS
  Emails,
  Browsers,
  Tabs,
  Home,      \* the set of ways the tabs may be spread over the browsers
  Creds,     \* bound: the passkeys the authenticators ever make
  MaxLinks,  \* bound: the magic links ever minted
  MaxRowId,  \* bound: the ids of passkey rows
  MaxEpoch,  \* bound: sign-outs everywhere of an account
  None

ASSUME HomeAssumption == Home \subseteq [Tabs -> Browsers]
ASSUME BoundsAssumption == {MaxLinks, MaxRowId, MaxEpoch} \subseteq Nat

Links == 1..MaxLinks
RowIds == 1..MaxRowId
Epochs == 0..MaxEpoch

LinkRow == [email: Emails, used: BOOLEAN, expired: BOOLEAN]
PasskeyRow == [owner: Emails,   \* user_id
               cred: Creds,     \* credential_id
               passkey: Creds]  \* the credential the blob holds the key of
Session == [email: Emails, epoch: Epochs]

\* PasskeyState: the challenge is the one of the tab that started the ceremony.
CeremonyState == [kind: {"reg", "auth", "discoverable"},
                  subject: Emails \cup {None},
                  challenge: Tabs,
                  allowed: SUBSET Creds]

ASSUME NoneAssumption ==
  None \notin Emails \cup Creds \cup Links \cup RowIds \cup Epochs
                \cup LinkRow \cup PasskeyRow \cup Session \cup CeremonyState

\* What a tab is waiting for.
Stages == {"idle",
           "reading", "spent", "creating",    \* a click on a link
           "enrolling", "made", "verified",   \* a registration
           "asserting", "signed", "found", "used",  \* a sign-in with a passkey
           "issuing",                         \* the answer with a session cookie
           "leaving"}                         \* a sign-out everywhere

Request == [stage: Stages,
            link: Links \cup {None},
            email: Emails \cup {None},  \* whose account it is about
            epoch: Epochs \cup {None},  \* the epoch that was read
            cred: Creds \cup {None},    \* the passkey that answered
            row: RowIds \cup {None}]    \* the id of its row

Idle == [stage |-> "idle", link |-> None, email |-> None, epoch |-> None,
         cred |-> None, row |-> None]

VARIABLES
  home,     \* home[t]: the browser a tab is in
  epoch,    \* epoch[e]: session_epoch of e's user row; None: there is no row
  link,     \* magic_link_token; None: not minted
  inbox,    \* the links that reached their mailbox
  row,      \* passkey_credential by id; None: no such row
  maker,    \* maker[c]: the account the authenticator made c for
  readers,  \* the tabs in a transaction whose snapshot is still the newest
  cookie,   \* tt_session of each browser
  state,    \* __pk_state of each browser
  tab       \* what each tab is waiting for

database == <<epoch, link, row>>
outside == <<home, inbox, maker>>
cookies == <<cookie, state>>
vars == <<database, outside, readers, cookies, tab>>

TypeOK ==
  /\ home \in [Tabs -> Browsers]
  /\ epoch \in [Emails -> Epochs \cup {None}]
  /\ link \in [Links -> LinkRow \cup {None}]
  /\ inbox \subseteq Links
  /\ row \in [RowIds -> PasskeyRow \cup {None}]
  /\ maker \in [Creds -> Emails \cup {None}]
  /\ readers \subseteq Tabs
  /\ cookie \in [Browsers -> Session \cup {None}]
  /\ state \in [Browsers -> CeremonyState \cup {None}]
  /\ tab \in [Tabs -> Request]

Init ==
  /\ home \in Home
  /\ epoch = [e \in Emails |-> None]
  /\ link = [l \in Links |-> None] /\ inbox = {}
  /\ row = [i \in RowIds |-> None]
  /\ maker = [c \in Creds |-> None]
  /\ readers = {}
  /\ cookie = [b \in Browsers |-> None] /\ state = [b \in Browsers |-> None]
  /\ tab = [t \in Tabs |-> Idle]

-----------------------------------------------------------------------------
(* Building blocks.                                                        *)

At(t, stage) == tab[t].stage = stage
Become(t, r) == tab' = [tab EXCEPT ![t] = r]
End(t) == Become(t, Idle)

\* A commit: every snapshot taken before it is old.
Commits == readers' = {}
\* A transaction of t ends without a write, or t had none.
Leaves(t) == readers' = readers \ {t}

\* A Set-Cookie of an answer, if the answer arrives.
Answer(cookie1, state1) ==
  \/ cookie' = cookie1 /\ state' = state1
  \/ UNCHANGED cookies

\* Seeded fault: an older epoch is good enough.
SignedIn_AtMost(b) ==
  /\ cookie[b] # None
  /\ epoch[cookie[b].email] # None
  /\ cookie[b].epoch <= epoch[cookie[b].email]

\* middleware::attach and require_user.
SignedIn(b) ==
  /\ cookie[b] # None
  /\ epoch[cookie[b].email] # None
  /\ cookie[b].epoch = epoch[cookie[b].email]

Me(b) == cookie[b].email

\* mint: a row of its own for every request, mailed by a task of its own.
Mint(e) ==
  \E l \in Links :
    /\ link[l] = None /\ \A k \in 1..(l - 1) : link[k] # None
    /\ link' = [link EXCEPT ![l] = [email |-> e, used |-> FALSE, expired |-> FALSE]]
    /\ inbox' \in {inbox, inbox \cup {l}}
    /\ Commits

-----------------------------------------------------------------------------
(* Magic links.                                                            *)

\* request_magic_link, within its quotas.
RequestLink(e) ==
  /\ Mint(e)
  /\ UNCHANGED <<epoch, row, home, maker, cookies, tab>>

\* consume's SELECT.  A link that is spent or has expired is reissued, unless a
\* quota or the database refuses.
ClickLink(t, l) ==
  /\ tab[t] = Idle
  /\ l \in inbox
  /\ IF link[l].used \/ link[l].expired
       THEN /\ Mint(link[l].email)
            /\ UNCHANGED <<epoch, row, home, maker, cookies, tab>>
       ELSE /\ Become(t, [Idle EXCEPT !.stage = "reading", !.link = l,
                            !.email = link[l].email])
            /\ readers' = readers \cup {t}
            /\ UNCHANGED <<database, outside, cookies>>

\* Seeded fault: the read and the write are not in one transaction, and the write
\* does not ask again whether the link is spent.
MaySpend_Unguarded(t) == TRUE

\* What consume's UPDATE asks of the row and SQLite of the transaction.
MaySpend(t) == t \in readers /\ ~link[tab[t].link].used

\* consume's UPDATE and its commit; a refusal is answered with an error.
SpendLink(t) ==
  /\ At(t, "reading")
  /\ IF MaySpend(t)
       THEN /\ link' = [link EXCEPT ![tab[t].link].used = TRUE]
            /\ Become(t, [tab[t] EXCEPT !.stage = "spent"])
            /\ Commits
       ELSE /\ End(t) /\ Leaves(t)
            /\ UNCHANGED link
  /\ UNCHANGED <<epoch, row, outside, cookies>>

\* Seeded fault: a returning user's session starts with the epoch of a new account.
FindUser_AsNew(t) ==
  /\ At(t, "spent")
  /\ IF epoch[tab[t].email] # None
       THEN Become(t, [tab[t] EXCEPT !.stage = "issuing", !.epoch = 0]) /\ UNCHANGED readers
       ELSE Become(t, [tab[t] EXCEPT !.stage = "creating"]) /\ readers' = readers \cup {t}
  /\ UNCHANGED <<database, outside, cookies>>

\* find_or_create's SELECT.
FindUser(t) ==
  /\ At(t, "spent")
  /\ LET e == tab[t].email IN
       IF epoch[e] # None
         THEN /\ Become(t, [tab[t] EXCEPT !.stage = "issuing", !.epoch = epoch[e]])
              /\ UNCHANGED readers
         ELSE /\ Become(t, [tab[t] EXCEPT !.stage = "creating"])
              /\ readers' = readers \cup {t}
  /\ UNCHANGED <<database, outside, cookies>>

\* Seeded fault: the row is written over whatever is there by now.
MayCreate_Upsert(t) == TRUE

\* What SQLite and the unique index ask of find_or_create's INSERT.
MayCreate(t) == t \in readers /\ epoch[tab[t].email] = None

\* find_or_create's INSERT; when it is refused the link is spent all the same.
CreateUser(t) ==
  /\ At(t, "creating")
  /\ IF MayCreate(t)
       THEN /\ epoch' = [epoch EXCEPT ![tab[t].email] = 0]
            /\ Become(t, [tab[t] EXCEPT !.stage = "issuing", !.epoch = 0])
            /\ Commits
       ELSE /\ End(t) /\ Leaves(t)
            /\ UNCHANGED epoch
  /\ UNCHANGED <<link, row, outside, cookies>>

\* sign_in_response, and the end of passkey_login_finish: there insert_header puts the
\* session cookie in the place of the one that was to clear the ceremony, which stays.
IssueSession(t) ==
  /\ At(t, "issuing")
  /\ Answer([cookie EXCEPT ![home[t]] = [email |-> tab[t].email, epoch |-> tab[t].epoch]],
            state)
  /\ End(t)
  /\ UNCHANGED <<database, outside, readers>>

-----------------------------------------------------------------------------
(* Signing out.                                                            *)

\* logout: this browser's cookie, and nothing at the server.
Logout(b) ==
  /\ cookie[b] # None
  /\ cookie' = [cookie EXCEPT ![b] = None]
  /\ UNCHANGED <<database, outside, readers, state, tab>>

\* sign_out_everywhere: who is asking, and then the UPDATE.
AskOutEverywhere(t) ==
  /\ tab[t] = Idle
  /\ SignedIn(home[t])
  /\ Become(t, [Idle EXCEPT !.stage = "leaving", !.email = Me(home[t])])
  /\ UNCHANGED <<database, outside, readers, cookies>>

BumpEpoch(t) ==
  /\ At(t, "leaving")
  /\ LET e == tab[t].email IN
       /\ epoch[e] < MaxEpoch
       /\ epoch' = [epoch EXCEPT ![e] = @ + 1]
  /\ Commits
  /\ Answer([cookie EXCEPT ![home[t]] = None], state)
  /\ End(t)
  /\ UNCHANGED <<link, row, outside>>

-----------------------------------------------------------------------------
(* Enrolling a passkey.                                                    *)

\* passkey_register_start.
RegisterStart(t) ==
  /\ tab[t] = Idle
  /\ LET b == home[t] IN
       /\ SignedIn(b)
       /\ state' = [state EXCEPT ![b] = [kind |-> "reg", subject |-> Me(b),
                                           challenge |-> t, allowed |-> {}]]
       /\ Become(t, [Idle EXCEPT !.stage = "enrolling", !.email = Me(b)])
  /\ UNCHANGED <<database, outside, readers, cookie>>

\* The authenticator makes a passkey for the account the options name.
MakePasskey(t, c) ==
  /\ At(t, "enrolling")
  /\ maker[c] = None
  /\ maker' = [maker EXCEPT ![c] = tab[t].email]
  /\ Become(t, [tab[t] EXCEPT !.stage = "made", !.cred = c])
  /\ UNCHANGED <<database, home, inbox, readers, cookies>>

\* Seeded fault: the ceremony is not bound to the session that finishes it.
FinishesOwn_AnySession(b, t) == state[b].kind = "reg"

\* passkey_register_finish: the ceremony is a registration, of the account whose
\* session this is by now, and (webauthn-rs) its challenge is the one signed.
FinishesOwn(b, t) ==
  /\ state[b].kind = "reg"
  /\ state[b].subject = Me(b)
  /\ state[b].challenge = t

RegisterFinish(t) ==
  /\ At(t, "made")
  /\ LET b == home[t] IN
       IF SignedIn(b) /\ state[b] # None
         THEN IF FinishesOwn(b, t)
                THEN /\ Become(t, [tab[t] EXCEPT !.stage = "verified", !.email = Me(b)])
                     /\ UNCHANGED state
                ELSE End(t) /\ state' = [state EXCEPT ![b] = None]
         ELSE End(t) /\ UNCHANGED state
  /\ UNCHANGED <<database, outside, readers, cookie>>

\* The id SQLite gives a row: one more than the highest there is.
NextRowId == CHOOSE i \in 1..(MaxRowId + 1) :
  /\ \A k \in RowIds : k >= i => row[k] = None
  /\ i = 1 \/ row[i - 1] # None

\* store::insert, which the unique index refuses for a passkey it has.
InsertPasskey(t) ==
  /\ At(t, "verified")
  /\ LET c == tab[t].cred IN
       /\ NextRowId <= MaxRowId
       /\ IF \A i \in RowIds : row[i] = None \/ row[i].cred # c
            THEN /\ row' = [row EXCEPT ![NextRowId] = [owner |-> tab[t].email, cred |-> c,
                                                        passkey |-> c]]
                 /\ Commits
            ELSE UNCHANGED <<row, readers>>
  /\ Answer(cookie, [state EXCEPT ![home[t]] = None])
  /\ End(t)
  /\ UNCHANGED <<epoch, link, outside>>

\* passkey_delete, when it is not the last way in.
DeletePasskey(t, i) ==
  /\ tab[t] = Idle
  /\ SignedIn(home[t])
  /\ row[i] # None /\ row[i].owner = Me(home[t])
  /\ row' = [row EXCEPT ![i] = None]
  /\ Commits
  /\ UNCHANGED <<epoch, link, outside, cookies, tab>>

-----------------------------------------------------------------------------
(* Signing in with a passkey.                                              *)

KeysOf(e) == {row[i].passkey : i \in {j \in RowIds : row[j] # None /\ row[j].owner = e}}

\* passkey_login_start, for an account by name or for whichever passkey answers.
LoginStart(t, e) ==
  /\ tab[t] = Idle
  /\ e # None => epoch[e] # None /\ KeysOf(e) # {}
  /\ LET kind == IF e = None THEN "discoverable" ELSE "auth"
         keys == IF e = None THEN {} ELSE KeysOf(e)
     IN state' = [state EXCEPT ![home[t]] = [kind |-> kind, subject |-> e, challenge |-> t,
                                              allowed |-> keys]]
  /\ Become(t, [Idle EXCEPT !.stage = "asserting", !.email = e])
  /\ UNCHANGED <<database, outside, readers, cookie>>

\* An authenticator signs: one of the keys it was asked for, or any it has.
SignAssertion(t, c) ==
  /\ At(t, "asserting")
  /\ maker[c] # None
  /\ LET s == state[home[t]] IN
       s # None /\ s.challenge = t /\ s.kind = "auth" => c \in s.allowed
  /\ Become(t, [tab[t] EXCEPT !.stage = "signed", !.cred = c])
  /\ UNCHANGED <<database, outside, readers, cookies>>

\* passkey_login_finish on the row of the passkey: the assertion answers this very
\* ceremony; when that names an account, the passkey is one it allowed and the row
\* is the account's; when it names none, the key on file is the one that signed.
Answers(s, t, i) ==
  /\ s.kind # "reg"
  /\ s.challenge = t
  /\ IF s.kind = "auth"
       THEN tab[t].cred \in s.allowed /\ row[i].owner = s.subject
       ELSE row[i].passkey = tab[t].cred

LoginFinish(t) ==
  /\ At(t, "signed")
  /\ LET b == home[t]
         s == state[b]
         its == {i \in RowIds : row[i] # None /\ row[i].cred = tab[t].cred}
     IN IF s = None
          THEN End(t) /\ UNCHANGED state
          ELSE \/ \E i \in its :
                    /\ Answers(s, t, i)
                    /\ Become(t, [tab[t] EXCEPT !.stage = "found", !.row = i,
                                    !.email = row[i].owner, !.cred = row[i].passkey])
                    /\ UNCHANGED state
               \/ /\ ~\E i \in its : Answers(s, t, i)
                  /\ End(t) /\ state' = [state EXCEPT ![b] = None]
  /\ UNCHANGED <<database, outside, readers, cookie>>

\* update_after_use: by the id, whatever the row of that id is now; none is no error.
UseRow(t) ==
  /\ At(t, "found")
  /\ LET i == tab[t].row IN
       IF row[i] # None
         THEN row' = [row EXCEPT ![i].passkey = tab[t].cred] /\ Commits
         ELSE UNCHANGED <<row, readers>>
  /\ Become(t, [tab[t] EXCEPT !.stage = "used"])
  /\ UNCHANGED <<epoch, link, outside, cookies>>

\* The owner is loaded: the epoch is the one of now.
LoadOwner(t) ==
  /\ At(t, "used")
  /\ Become(t, [tab[t] EXCEPT !.stage = "issuing", !.epoch = epoch[tab[t].email]])
  /\ UNCHANGED <<database, outside, readers, cookies>>

-----------------------------------------------------------------------------
(* Failure and time.                                                       *)

\* The database fails a request, or the user gives a ceremony up.  The answer of a
\* failed finish clears the ceremony, whichever tab's it is by now.
Finishing == {"made", "verified", "signed", "found", "used"}

Fail(t) ==
  /\ tab[t] # Idle
  /\ End(t) /\ Leaves(t)
  /\ \/ UNCHANGED cookies
     \/ tab[t].stage \in Finishing /\ Answer(cookie, [state EXCEPT ![home[t]] = None])
  /\ UNCHANGED <<database, outside>>

LinkExpires(l) ==
  /\ link[l] # None /\ ~link[l].expired
  /\ link' = [link EXCEPT ![l].expired = TRUE]
  /\ UNCHANGED <<epoch, row, outside, readers, cookies, tab>>

\* Both cookies go when their time is up.
CookieExpires(b) ==
  /\ \/ cookie[b] # None /\ cookie' = [cookie EXCEPT ![b] = None] /\ UNCHANGED state
     \/ state[b] # None /\ state' = [state EXCEPT ![b] = None] /\ UNCHANGED cookie
  /\ UNCHANGED <<database, outside, readers, tab>>

Next ==
  \/ \E e \in Emails : RequestLink(e)
  \/ \E t \in Tabs :
       \/ \E l \in Links : ClickLink(t, l)
       \/ SpendLink(t) \/ FindUser(t) \/ CreateUser(t) \/ IssueSession(t)
       \/ AskOutEverywhere(t) \/ BumpEpoch(t)
       \/ RegisterStart(t) \/ RegisterFinish(t) \/ InsertPasskey(t)
       \/ \E c \in Creds : MakePasskey(t, c) \/ SignAssertion(t, c)
       \/ \E i \in RowIds : DeletePasskey(t, i)
       \/ \E e \in Emails \cup {None} : LoginStart(t, e)
       \/ LoginFinish(t) \/ UseRow(t) \/ LoadOwner(t)
       \/ Fail(t)
  \/ \E b \in Browsers : Logout(b) \/ CookieExpires(b)
  \/ \E l \in Links : LinkExpires(l)

Spec == Init /\ [][Next]_vars

-----------------------------------------------------------------------------
(* What holds.                                                             *)

\* A link signs in once: of clicks that race only one gets as far as a session
\* (magic_link::consume).
OneSignInPerLink ==
  [][\A t \in Tabs : At(t, "reading") /\ tab'[t].stage = "spent"
       => ~link[tab[t].link].used]_vars

\* Whom the answer on its way to a tab will sign in, and which of them are of the epoch of
\* now; whose session a browser has, and which of those are honoured.
Granted == [t \in Tabs |-> IF At(t, "issuing") THEN tab[t].email ELSE None]
Standing == {t \in Tabs : At(t, "issuing") /\ tab[t].epoch = epoch[tab[t].email]}

Holder == [b \in Browsers |-> IF cookie[b] = None THEN None ELSE Me(b)]
Honoured == {b \in Browsers : SignedIn(b)}

\* A sign-out everywhere ends every session its account has: those of all browsers, and
\* those on their way to a tab, from a sign-in by link or by passkey that had read the epoch
\* already (sign_out_everywhere).  A sign-in that has yet to read it comes after and is let in.
OutEverywhereIsEverywhere ==
  [][\A e \in Emails : epoch[e] # None /\ epoch'[e] # epoch[e] =>
       /\ \A b \in Browsers : Holder'[b] = e => b \notin Honoured'
       /\ \A t \in Tabs : Granted'[t] = e => t \notin Standing']_vars

\* A session that was revoked is revoked for good: no later sign-in, first sign-in
\* or sign-out gives its epoch back to the account.
RevokedForGood ==
  [][\A b \in Browsers : cookie[b] # None /\ ~SignedIn(b) /\ cookie'[b] = cookie[b]
       => ~SignedIn(b)']_vars

Promised == INSTANCE Sessions WITH
  Accounts <- Emails, granted <- Granted, standing <- Standing, holder <- Holder,
  honoured <- Honoured

\* Comparing an epoch keeps the promise of Sessions: nobody is signed in but by an answer to
\* their own tab, every answer that no sign-out everywhere has outrun signs in, and nobody is
\* signed out but by their browser or by a sign-out everywhere of their own account (a deleted
\* passkey, another's sign-in, a first sign-in of the account do neither).
SessionsAreKept == Promised!Spec

\* A passkey is filed under the account its authenticator made it for, though the
\* browser changes account, or another tab starts a ceremony, while it is made.
FiledUnderItsMaker ==
  \A i \in RowIds : row[i] # None => row[i].owner = maker[row[i].cred]

=============================================================================
