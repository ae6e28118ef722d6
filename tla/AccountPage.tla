------------------------------- MODULE AccountPage -------------------------------
(***************************************************************************)
(* The account page of one account, who stays signed in: the encryption    *)
(* panel with its cards, the list of passkeys above it, the rows they show *)
(* at the server, and what another device of the account does to these.    *)
(*                                                                         *)
(* What a ceremony does with keys is KeyWraps'; how the phase comes about  *)
(* is EncryptionCtx's.  Here it is what the page shows and says, and when. *)
(* A load of the panel that is outranked publishes nothing (Generation):   *)
(* only the newest is kept.                                                *)
(*                                                                         *)
(* The panel's ceremonies are numbered as they start, and the encryption   *)
(* key a ceremony mints has its number.                                    *)
(***************************************************************************)
EXTENDS Integers, FiniteSets

CONSTANTS
  Creds,          \* the passkeys the authenticators ever make
  Capable,        \* those that can derive an unlock key
  MaxRowId,       \* bound: the ids of passkey rows
  MaxStarted,     \* bound: what is begun, by the panel, the list or another device
  None

ASSUME CapableAssumption == Capable \subseteq Creds
ASSUME BoundsAssumption == {MaxRowId, MaxStarted} \subseteq Nat

RowIds == 1..MaxRowId
Ceremonies == 1..MaxStarted
Elsewhere == 0     \* the key another device minted
Keys == Ceremonies \cup {Elsewhere}

Phases == {"Checking", "Unreachable", "Off", "Locked", "Unlocked"}
EnableRoutes == {"PasskeyAndEncryptionKey", "EncryptionKeyOnly"}
Sources == {"Passkey", "EncryptionKey"}   \* KeySource

\* Fetched, and what load_overview fetches: the passkeys, those of them with a wrap, and
\* whether there is a wrap for an encryption key.
Fetched == {o \in [is: {"Pending", "Failed", "Loaded"}, rows: SUBSET Creds, can: SUBSET Creds, key: BOOLEAN] :
              o.can \subseteq o.rows}
NoOverview == [is |-> "Pending", rows |-> {}, can |-> {}, key |-> FALSE]
NoAnswer == [NoOverview EXCEPT !.is = "Failed"]

Mode == [kind: {"Idle", "NewKey", "ReissuedKey", "GiveKey", "Reissue"},
         key: Keys \cup {None}, route: EnableRoutes \cup {None}, cred: Creds \cup {None}]
Idle == [kind |-> "Idle", key |-> None, route |-> None, cred |-> None]

Pending == [key: Keys, cred: Creds \cup {None}]

\* A load: the kind of phase it is for, and the passkeys once they are read.
Fetch == [encrypted: BOOLEAN, rows: (SUBSET Creds) \cup {None}]

ASSUME NoneAssumption ==
  /\ None \notin Creds \cup Keys \cup Pending \cup Fetch
  /\ \A rows \in SUBSET Creds : None # rows

\* A ceremony under way; not `here`: the panel that started it is gone.
Task == [op: {"enable", "commit", "lock", "reissue", "give"}, n: Ceremonies,
         route: EnableRoutes \cup {None}, cred: Creds \cup {None}, source: Sources \cup {None},
         stage: {"sent", "stored", "refused"}, here: BOOLEAN]

\* What the panel says: that a request to turn encryption on was refused, or anything else
\* (that it went unanswered too), which may be nothing.
Status == [kind: {"Other", "Refused"}, key: Keys \cup {None}]
Other == [kind |-> "Other", key |-> None]

\* A request of the passkey list.
SectionTask == [op: {"remove", "rename", "add"}, id: RowIds \cup {None}, cred: Creds \cup {None},
                encrypted: BOOLEAN, stage: {"sent", "stored", "keying", "keyed"}, here: BOOLEAN]

VARIABLES
  row,         \* row[i]: the passkey in the row of that id, or None
  wrapped,     \* the passkeys with a wrap
  keyOn,       \* whose encryption key is on file; None: the account is not encrypted
  adrift,      \* requests to turn encryption on whose page has given up on them
  phase,       \* Phase::of the page's EncryptionState
  mode, busy, status,
  pending,     \* pending_enable
  tasks,       \* the ceremonies of the panel
  overview,    \* Fetched
  fetch,       \* the newest load, while it is under way
  section,     \* the requests of the passkey list
  started,     \* what was begun so far
  saved,       \* history: the keys minted to turn encryption on that the user confirmed
  owed,        \* history: the keys handed to the panel to be shown, and not confirmed
  missed       \* history: the server changed since the newest load began, and not by
               \* a request whose answer will tell this page

server == <<row, wrapped, keyOn, adrift>>
cards == <<mode, busy, status, pending, tasks>>
keys == <<started, saved, owed>>
fetching == <<overview, fetch, missed>>
vars == <<server, phase, cards, fetching, section, keys>>

TypeOK ==
  /\ row \in [RowIds -> Creds \cup {None}]
  /\ wrapped \subseteq Creds /\ keyOn \in Keys \cup {None} /\ adrift \subseteq Pending
  /\ phase \in Phases
  /\ mode \in Mode /\ busy \in BOOLEAN /\ status \in Status
  /\ pending \in Pending \cup {None} /\ tasks \subseteq Task
  /\ overview \in Fetched
  /\ fetch \in Fetch \cup {None}
  /\ section \subseteq SectionTask
  /\ started \in 0..MaxStarted
  /\ saved \subseteq Keys /\ owed \subseteq Keys
  /\ missed \in BOOLEAN

-----------------------------------------------------------------------------
(* What the server holds.                                                  *)

Enrolled == {row[i] : i \in RowIds} \ {None}
Encrypted == keyOn # None

\* The id SQLite gives a row: one more than the highest there is.
NextRowId == CHOOSE i \in 1..(MaxRowId + 1) :
  /\ \A k \in RowIds : k >= i => row[k] = None
  /\ i = 1 \/ row[i - 1] # None

\* passkey_register_finish.
Enrol(c) ==
  /\ c \notin Enrolled /\ NextRowId <= MaxRowId
  /\ row' = [row EXCEPT ![NextRowId] = c]

\* passkey_delete: the last wrap of an encrypted account stays.
MayDelete(i) ==
  /\ row[i] # None
  /\ ~(Encrypted /\ row[i] \in wrapped /\ Cardinality(wrapped) <= 1)
Delete(i) ==
  /\ row' = [row EXCEPT ![i] = None]
  /\ wrapped' = wrapped \ {row[i]}

\* encryption_enable.
MayEnable(p) == ~Encrypted /\ p.cred \notin wrapped
Enable(p) ==
  /\ keyOn' = p.key
  /\ wrapped' = wrapped \cup ({p.cred} \ {None})

\* add_passkey_key, whose opener is a passkey with a wrap or the encryption key.
HasOpener(source) ==
  IF source = "Passkey" THEN Enrolled \cap wrapped # {} ELSE Encrypted
MayGive(c, source) == Encrypted /\ c \in Enrolled \ wrapped /\ HasOpener(source)

-----------------------------------------------------------------------------
(* What the panel makes of its overview.                                   *)

Loaded == overview.is = "Loaded"

\* classify.
RouteStatus(o, c) ==
  CASE c \in o.can -> "CanUnlock"
    [] c \notin o.can /\ c \in Capable -> "NoKeyYet"
    [] OTHER -> "NeverCapable"

\* KeyOnlyReason::of and EnableRoute::of.
EnableRoute(o) ==
  IF \E c \in o.rows : RouteStatus(o, c) # "NeverCapable"
    THEN "PasskeyAndEncryptionKey" ELSE "EncryptionKeyOnly"

\* Openers::of.
Openers(o) ==
  {s \in Sources : IF s = "Passkey" THEN \E c \in o.rows : RouteStatus(o, c) = "CanUnlock"
                   ELSE o.key}

\* load_overview, from the passkeys it read before and the wraps it reads now.
Overview(rows, encrypted) ==
  [is |-> "Loaded", rows |-> rows, can |-> IF encrypted THEN rows \cap wrapped ELSE {},
   key |-> encrypted /\ Encrypted]

\* Seeded fault: the phase decides before the card does.
Screen_PhaseFirst ==
  CASE phase = "Locked" -> "Manage"
    [] phase = "Unlocked" -> "Manage"
    [] OTHER -> IF mode.kind # "Idle" THEN mode.kind ELSE phase

\* Screen::of: a card the panel put up outranks the phase of the account.
Screen ==
  IF mode.kind # "Idle" THEN mode.kind
  ELSE IF phase \in {"Locked", "Unlocked"} THEN "Manage" ELSE phase

\* The effect of the panel, which runs when the phase or `reload` has changed.
Load(phase1) ==
  LET wants == phase1 \in {"Off", "Locked", "Unlocked"} IN
    /\ fetch' = IF wants THEN [encrypted |-> phase1 # "Off", rows |-> None] ELSE None
    /\ overview' = IF wants THEN overview ELSE NoOverview
    /\ missed' = FALSE

\* The phase is phase1 from now on.
Phase(phase1) ==
  /\ phase' = phase1
  /\ IF phase1 # phase THEN Load(phase1) ELSE UNCHANGED fetching

\* `reload` is counted up: both halves of the page fetch again.
Refresh == Load(phase)

\* The answers to a load.  An answer that fails fails the load.
PasskeysRead ==
  /\ fetch # None /\ fetch.rows = None
  /\ IF fetch.encrypted
       THEN fetch' = [fetch EXCEPT !.rows = Enrolled] /\ UNCHANGED overview
       ELSE fetch' = None /\ overview' = Overview(Enrolled, FALSE)
  /\ UNCHANGED <<server, phase, cards, missed, section, keys>>

WrapsRead ==
  /\ fetch # None /\ fetch.rows # None
  /\ fetch' = None
  /\ overview' = Overview(fetch.rows, TRUE)
  /\ UNCHANGED <<server, phase, cards, missed, section, keys>>

LoadFails ==
  /\ fetch # None
  /\ fetch' = None /\ overview' = NoAnswer
  /\ UNCHANGED <<server, phase, cards, missed, section, keys>>

-----------------------------------------------------------------------------
(* The ceremonies of the panel.  One that is no longer `here` writes to    *)
(* signals that are gone.                                                  *)

\* What a ceremony changed at the server, the page will not hear of if its panel is gone.
Missed(t) == missed' = (missed \/ ~t.here)

Begin == started < MaxStarted /\ started' = started + 1

Start(op, route, cred, source, key) ==
  /\ Begin
  /\ tasks' = tasks \cup {[op |-> op, n |-> key, route |-> route, cred |-> cred,
                           source |-> source, stage |-> "sent", here |-> TRUE]}
  /\ busy' = TRUE

Settle(t, mode1, status1) ==
  /\ tasks' = tasks \ {t}
  /\ IF t.here THEN busy' = FALSE /\ mode' = mode1 /\ status' = status1
     ELSE UNCHANGED <<busy, mode, status>>

Stage(t, stage) == tasks' = (tasks \ {t}) \cup {[t EXCEPT !.stage = stage]}

\* turn_on, by the route whose words are on the screen.  The user may tick `understood`
\* under any of them, so the tick holds nothing back.
BeginEnable ==
  /\ Screen = "Off" /\ Loaded
  /\ Start("enable", EnableRoute(overview), None, None, started + 1)
  /\ status' = Other
  /\ UNCHANGED <<server, phase, mode, pending, fetching, section, saved, owed>>

\* Seeded fault: the button is not held while a ceremony runs.
TurnOn_NotBusy == BeginEnable

TurnOn == ~busy /\ BeginEnable

\* Seeded fault: the server hears of the key before it is saved.
Minted_Sent(t, c) ==
  /\ pending' = [key |-> t.n, cred |-> c]
  /\ Settle(t, [kind |-> "NewKey", key |-> t.n, route |-> t.route, cred |-> None], status)
  /\ owed' = owed \cup {t.n}
  /\ adrift' = adrift \cup {[key |-> t.n, cred |-> c]}

\* What begin_enable leaves: a key on the screen, and nothing sent.
Minted(t, c) ==
  /\ pending' = [key |-> t.n, cred |-> c]
  /\ Settle(t, [kind |-> "NewKey", key |-> t.n, route |-> t.route, cred |-> None], status)
  /\ owed' = owed \cup {t.n}
  /\ UNCHANGED adrift

EnableReady(t) ==
  /\ t.op = "enable"
  /\ \E c \in IF t.route = "EncryptionKeyOnly" THEN {None} ELSE Enrolled \cap Capable :
       Minted(t, c)
  /\ UNCHANGED <<row, wrapped, keyOn, phase, fetching, section, started, saved>>

\* confirm_new_key.
ConfirmNewKey ==
  /\ Screen = "NewKey" /\ ~busy /\ pending # None
  /\ tasks' = tasks \cup {[op |-> "commit", n |-> pending.key, route |-> None, cred |-> pending.cred,
                           source |-> None, stage |-> "sent", here |-> TRUE]}
  /\ busy' = TRUE /\ pending' = None /\ status' = Other
  /\ saved' = saved \cup {pending.key} /\ owed' = owed \ {pending.key}
  /\ UNCHANGED <<server, phase, mode, fetching, section, started>>

Request(t) == [key |-> t.n, cred |-> t.cred]

ServerEnables(t) ==
  /\ t.op = "commit" /\ t.stage = "sent"
  /\ IF MayEnable(Request(t)) THEN Enable(Request(t)) /\ Stage(t, "stored")
     ELSE Stage(t, "refused") /\ UNCHANGED <<keyOn, wrapped>>
  /\ UNCHANGED <<row, adrift, phase, mode, busy, status, pending, fetching, section, keys>>

\* Seeded fault: any failure is taken for a refusal.
EnableFailed_AnyIsRefusal(t, answered) == [kind |-> "Refused", key |-> t.n]

\* enable_failed.
EnableFailed(t, answered) ==
  IF answered THEN [kind |-> "Refused", key |-> t.n] ELSE Other

\* The answer: the key is the page's from here on, or the panel says why not.
CommitTold(t) ==
  /\ t.op = "commit" /\ t.stage \in {"stored", "refused"}
  /\ IF t.stage = "stored"
       THEN Settle(t, Idle, Other) /\ Phase("Unlocked")
       ELSE Settle(t, Idle, EnableFailed(t, TRUE)) /\ UNCHANGED <<phase, fetching>>
  /\ UNCHANGED <<server, pending, section, keys>>

\* No answer comes: the request may have been served, be on its way or be lost.
CommitLost(t) ==
  /\ t.op = "commit"
  /\ Settle(t, Idle, EnableFailed(t, FALSE))
  /\ adrift' \in IF t.stage = "sent" THEN {adrift, adrift \cup {Request(t)}} ELSE {adrift}
  /\ missed' = (missed \/ t.stage = "stored")
  /\ UNCHANGED <<row, wrapped, keyOn, phase, pending, overview, fetch, section, keys>>

ServedLate(p) ==
  /\ adrift' = adrift \ {p}
  /\ IF MayEnable(p) THEN Enable(p) ELSE UNCHANGED <<keyOn, wrapped>>
  /\ missed' = TRUE
  /\ UNCHANGED <<row, phase, cards, overview, fetch, section, keys>>

\* lock_now, with EncryptionCtx::lock, which locks the page at once.
LockNow ==
  /\ Screen = "Manage" /\ phase = "Unlocked" /\ ~busy
  /\ Start("lock", None, None, None, started + 1)
  /\ status' = Other
  /\ Phase("Locked")
  /\ UNCHANGED <<server, mode, pending, section, saved, owed>>

LockTold(t) ==
  /\ t.op = "lock"
  /\ Settle(t, mode, Other)
  /\ UNCHANGED <<server, phase, pending, fetching, section, keys>>

\* start_reissue and start_give_key: the card with the choice of opener.
OpenCard(kind, c) ==
  /\ Screen = "Manage" /\ ~busy
  /\ mode' = [Idle EXCEPT !.kind = kind, !.cred = c]
  /\ status' = Other
  /\ UNCHANGED <<server, phase, busy, pending, tasks, fetching, section, keys>>
StartReissue == OpenCard("Reissue", None)
StartGive(c) == Loaded /\ c \in overview.rows /\ RouteStatus(overview, c) = "NoKeyYet" /\ OpenCard("GiveKey", c)

\* new_encryption_key and give_key.
Open(kind, op, source) ==
  /\ Screen = kind /\ ~busy /\ Loaded /\ source \in Openers(overview)
  /\ Start(op, None, mode.cred, source, started + 1)
  /\ status' = Other
  /\ UNCHANGED <<server, phase, mode, pending, fetching, section, saved, owed>>
OpenReissue(source) == Open("Reissue", "reissue", source)
OpenGive(source) == Open("GiveKey", "give", source)

ServerReissues(t) ==
  /\ t.op = "reissue" /\ t.stage = "sent" /\ Encrypted /\ HasOpener(t.source)
  /\ keyOn' = t.n
  /\ Stage(t, "stored") /\ Missed(t)
  /\ UNCHANGED <<row, wrapped, adrift, phase, mode, busy, status, pending, overview, fetch, section, keys>>

ReissueTold(t) ==
  /\ t.op = "reissue" /\ t.stage = "stored"
  /\ Settle(t, [Idle EXCEPT !.kind = "ReissuedKey", !.key = t.n], status)
  /\ owed' = IF t.here THEN owed \cup {t.n} ELSE owed
  /\ UNCHANGED <<server, phase, pending, fetching, section, started, saved>>

ServerGives(t) ==
  /\ t.op = "give" /\ t.stage = "sent" /\ t.cred \in Capable /\ MayGive(t.cred, t.source)
  /\ wrapped' = wrapped \cup {t.cred}
  /\ Stage(t, "stored") /\ Missed(t)
  /\ UNCHANGED <<row, keyOn, adrift, phase, mode, busy, status, pending, overview, fetch, section, keys>>

\* Seeded fault: `reload` is left as it is.
GiveTold_NoReload(t) ==
  /\ t.op = "give" /\ t.stage = "stored"
  /\ Settle(t, Idle, Other)
  /\ UNCHANGED <<server, phase, pending, fetching, section, keys>>

GiveTold(t) ==
  /\ t.op = "give" /\ t.stage = "stored"
  /\ Settle(t, Idle, Other)
  /\ IF t.here THEN Refresh ELSE UNCHANGED fetching
  /\ UNCHANGED <<server, phase, pending, section, keys>>

\* The ceremony fails, or no answer comes to what it sent: the card stays.
Fails(t) ==
  /\ t.op \in {"enable", "reissue", "give"}
  /\ Settle(t, mode, Other)
  /\ missed' = (missed \/ t.stage = "stored")
  /\ UNCHANGED <<server, phase, pending, overview, fetch, section, keys>>

\* close_card: Cancel on a choice of opener, "I've saved it" under a re-issued key.
CloseCard ==
  /\ Screen \in {"Reissue", "GiveKey", "ReissuedKey"} /\ ~busy
  /\ mode' = Idle /\ status' = Other
  /\ owed' = owed \ {mode.key}
  /\ UNCHANGED <<server, phase, busy, pending, tasks, fetching, section, started, saved>>

RetryProbe ==
  /\ Screen = "Unreachable"
  /\ status' = Other
  /\ Phase("Checking")
  /\ UNCHANGED <<server, mode, busy, pending, tasks, section, keys>>

\* The probe of the page answers, or fails.
Probe ==
  /\ phase = "Checking"
  /\ \E phase1 \in {"Unreachable"} \cup (IF Encrypted THEN {"Locked", "Unlocked"} ELSE {"Off"}) :
       Phase(phase1)
  /\ UNCHANGED <<server, cards, section, keys>>

-----------------------------------------------------------------------------
(* The list of passkeys, whose buttons are never held.                     *)

\* A request by the id of a row on the screen, which may be long gone, or for a new passkey.
Ask(op, id, c) ==
  /\ Begin
  /\ section' = section \cup {[op |-> op, id |-> id, cred |-> c, encrypted |-> phase \in {"Locked", "Unlocked"},
                               stage |-> "sent", here |-> TRUE]}
  /\ UNCHANGED <<server, phase, cards, fetching, saved, owed>>
Remove(i) == Ask("remove", i, None)
Rename == Ask("rename", None, None)
Add(c) == Ask("add", None, c)

Answer(r, stage) == section' = (section \ {r}) \cup {[r EXCEPT !.stage = stage]}

ServerRemoves(r) ==
  /\ r.op = "remove" /\ r.stage = "sent" /\ MayDelete(r.id)
  /\ Delete(r.id) /\ Answer(r, "stored") /\ Missed(r)
  /\ UNCHANGED <<keyOn, adrift, phase, cards, overview, fetch, keys>>

ServerRenames(r) ==
  /\ r.op = "rename" /\ r.stage = "sent"
  /\ Answer(r, "stored")
  /\ UNCHANGED <<server, phase, cards, fetching, keys>>

\* run_registration, up to the answer of passkey_register_finish.
ServerEnrols(r) ==
  /\ r.op = "add" /\ r.stage = "sent"
  /\ Enrol(r.cred)
  /\ Answer(r, IF r.encrypted THEN "keying" ELSE "stored") /\ Missed(r)
  /\ UNCHANGED <<wrapped, keyOn, adrift, phase, cards, overview, fetch, keys>>

\* finish_added_passkey: the new passkey is given a key by another one, or stays without.
ServerKeys(r) ==
  /\ r.stage = "keying"
  /\ \/ /\ r.cred \in Capable /\ MayGive(r.cred, "Passkey")
        /\ wrapped' = wrapped \cup {r.cred} /\ Missed(r)
     \/ UNCHANGED <<wrapped, missed>>
  /\ Answer(r, "keyed")
  /\ UNCHANGED <<row, keyOn, adrift, phase, cards, overview, fetch, keys>>

Told(r) ==
  /\ r.stage \in {"stored", "keyed"}
  /\ section' = section \ {r}
  /\ IF r.here THEN Refresh ELSE UNCHANGED fetching
  /\ UNCHANGED <<server, phase, cards, keys>>

\* A refusal, a failure, or no answer: nothing is fetched again.
SectionFails(r) ==
  /\ r.stage \in {"sent", "stored", "keying"}
  /\ section' = section \ {r}
  /\ missed' = (missed \/ r.stage # "sent")
  /\ UNCHANGED <<server, phase, cards, overview, fetch, keys>>

-----------------------------------------------------------------------------
(* The page is left and come back to, or loaded again.                     *)

\* A page that mounts, with the encryption state phase1.
Mount(phase1) ==
  /\ phase' = phase1
  /\ overview' = NoOverview /\ missed' = FALSE
  /\ fetch' = IF phase1 \in {"Off", "Locked", "Unlocked"}
                THEN [encrypted |-> phase1 # "Off", rows |-> None] ELSE None
  /\ mode' = Idle /\ busy' = FALSE /\ status' = Other /\ pending' = None
  /\ owed' = {}
  /\ UNCHANGED <<row, wrapped, keyOn, started, saved>>

\* To another page and back.  The setup gate asks again where setup is owed
\* (SetupGate), and the other page may unlock.  What can still change something goes on.
Leave ==
  /\ \E phase1 \in {phase} \cup (IF phase \in {"Off", "Unreachable"} THEN {"Checking"} ELSE {})
                   \cup (IF phase = "Locked" THEN {"Unlocked"} ELSE {}) :
       Mount(phase1)
  /\ tasks' = {[t EXCEPT !.here = FALSE] :
                 t \in {u \in tasks : u.op = "commit" \/ (u.op \in {"reissue", "give"} /\ u.stage = "sent")}}
  /\ section' = {[r EXCEPT !.here = FALSE] :
                   r \in {q \in section : q.op # "rename" /\ q.stage \in {"sent", "keying"}}}
  /\ UNCHANGED adrift

\* Of the requests that are out, the one that turns encryption on may come through late.
ReloadPage ==
  /\ Mount("Checking")
  /\ adrift' = adrift \cup {Request(t) : t \in {u \in tasks : u.op = "commit" /\ u.stage = "sent"}}
  /\ tasks' = {} /\ section' = {}

-----------------------------------------------------------------------------
(* Another device of the account.                                          *)

AnotherDevice ==
  /\ Begin
  /\ \/ \E c \in Creds : Enrol(c) /\ UNCHANGED <<wrapped, keyOn>>
     \/ \E i \in RowIds : MayDelete(i) /\ Delete(i) /\ UNCHANGED keyOn
     \/ \E c \in (Enrolled \cap Capable) \cup {None} :
          /\ MayEnable([key |-> Elsewhere, cred |-> c]) /\ Enable([key |-> Elsewhere, cred |-> c])
          /\ UNCHANGED row
     \/ Encrypted /\ keyOn' = Elsewhere /\ UNCHANGED <<row, wrapped>>
     \/ \E c \in Capable : \E s \in Sources :
          MayGive(c, s) /\ wrapped' = wrapped \cup {c} /\ UNCHANGED <<row, keyOn>>
  /\ missed' = TRUE
  /\ UNCHANGED <<adrift, phase, cards, overview, fetch, section, saved, owed>>

-----------------------------------------------------------------------------
Init ==
  /\ row \in {[i \in RowIds |-> IF i = 1 THEN c ELSE None] : c \in Creds \cup {None}}
  /\ wrapped = {} /\ keyOn \in {None, Elsewhere}
  /\ adrift = {} /\ phase = "Checking"
  /\ mode = Idle /\ busy = FALSE /\ status = Other
  /\ pending = None /\ tasks = {} /\ overview = NoOverview /\ fetch = None
  /\ section = {}
  /\ started = 0 /\ saved = {} /\ owed = {} /\ missed = FALSE

Next ==
  \/ TurnOn \/ ConfirmNewKey \/ LockNow \/ StartReissue \/ CloseCard \/ RetryProbe \/ Rename
  \/ \E c \in Creds : StartGive(c) \/ Add(c)
  \/ \E s \in Sources : OpenReissue(s) \/ OpenGive(s)
  \/ \E t \in tasks :
       \/ EnableReady(t) \/ ServerEnables(t) \/ CommitTold(t) \/ CommitLost(t) \/ LockTold(t)
       \/ ServerReissues(t) \/ ReissueTold(t) \/ ServerGives(t) \/ GiveTold(t) \/ Fails(t)
  \/ \E p \in adrift : ServedLate(p)
  \/ PasskeysRead \/ WrapsRead \/ LoadFails \/ Probe
  \/ \E i \in RowIds : Remove(i)
  \/ \E r \in section :
       ServerRemoves(r) \/ ServerRenames(r) \/ ServerEnrols(r) \/ ServerKeys(r) \/ Told(r) \/ SectionFails(r)
  \/ Leave \/ ReloadPage \/ AnotherDevice

Spec == Init /\ [][Next]_vars

-----------------------------------------------------------------------------
\* The controls of the panel are held exactly while a ceremony of this panel runs, and
\* there is never a second: `busy` is one flag that nine handlers set and clear, and two
\* enables that overlap would each mint a key of which one opens nothing.
OneCeremony ==
  /\ busy <=> \E t \in tasks : t.here
  /\ Cardinality({t \in tasks : t.here}) <= 1

\* A key that is shown once is shown until the user says they have it: no phase the account
\* comes to meanwhile, no answer to another request and no second ceremony takes the card
\* down or puts another key on it, and what confirming it will send is that key.
OwedKeyIsUp ==
  /\ owed # {} => Screen \in {"NewKey", "ReissuedKey"} /\ owed = {mode.key}
  /\ pending # None => mode.kind = "NewKey" /\ pending.key = mode.key /\ pending.key \in owed

\* Encryption is turned on by this page only with a key the user has confirmed, whichever of
\* its requests the server serves, and however late.
EnabledKeyWasSaved == [][keyOn = None /\ keyOn' \in Ceremonies => keyOn' \in saved]_vars

\* While the panel says that nothing was changed and that the saved key is not the account's,
\* that key is not on file, and no request that is still out can put it there.
RefusalIsTrue ==
  status.kind = "Refused" =>
    /\ keyOn # status.key
    /\ \A p \in adrift : p.key # status.key
    /\ \A t \in tasks : t.op = "commit" => t.n # status.key

\* An overview at rest is the server's: unless another device, a request of a page that is
\* gone or an answer that never came changed it, what the panel shows of the passkeys, of
\* those that can unlock and of the encryption key is what is on file.
OverviewIsCurrent ==
  /\ Loaded /\ fetch = None /\ ~missed
  /\ (phase = "Off") <=> ~Encrypted
  /\ \A t \in tasks : t.stage # "stored"
  /\ \A r \in section : r.stage = "sent"
  => overview = Overview(Enrolled, Encrypted)
=============================================================================
