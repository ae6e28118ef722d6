----------------------------- MODULE DayEditor -----------------------------
(***************************************************************************)
(* The day view of one tab: the Persistent hook that reads a day into the  *)
(* page and writes every keystroke through, the storage seam that picks    *)
(* the backend and refuses what must not be written, localStorage, and the *)
(* entries the server keeps for the account of the session cookie.         *)
(*                                                                         *)
(* Two modules stand behind this one.  EncryptionCtx says how the state of *)
(* the page comes about; here a probe in flight is the state Unknown, and  *)
(* Unlocked means the key of the page's user (its KeyIsOfPageUser).        *)
(* Generation says that only the newest load of a view may publish; here   *)
(* that load is the one marked `current`.                                  *)
(*                                                                         *)
(* An effect runs in the microtask after the signal it reads has changed,  *)
(* before the next event and the next answer: it is part of the step.      *)
(***************************************************************************)
EXTENDS Naturals, Sequences, SequencesExt

CONSTANTS
  Accounts,      \* the accounts of this browser's users
  Days,          \* the days the user looks at
  OldDays,       \* the days that may hold text before the tab opens
  MaxActs,       \* bound: what the user, other tabs and other devices do
  MaxFlight,     \* bound: storage operations on their way at once
  RequestsFail,  \* whether storage and the network can fail
  CookieMoves,   \* whether other tabs sign in and out
  Damaged,       \* the key of a row that opens under no key
  None           \* no account, no row, no day, not loaded

ASSUME DaysAssumption == OldDays \subseteq Days
ASSUME BoundsAssumption == MaxActs \in Nat /\ MaxFlight \in Nat \ {0}
ASSUME SwitchesAssumption == RequestsFail \in BOOLEAN /\ CookieMoves \in BOOLEAN
ASSUME NoneAssumption ==
  /\ None \notin Accounts \cup Days \cup {Damaged}
  /\ Damaged \notin Accounts

VARIABLES
  cookie,    \* the account the server sees in this browser's requests
  enabled,   \* the accounts with encrypted_at set
  rows,      \* time_entry: a sealed body, or None, for each account and day
  local,     \* localStorage: a body, or None, for each day
  user,      \* AuthCtx::user, which picks the backend
  session,   \* EncryptionCtx::state
  reprobed,  \* the page load has spent its one re-probe
  day,       \* the day on screen, or None on another page
  shown,     \* Persistent::value: None, or a text and where it is from
  flight,    \* the loads and saves on their way, oldest first
  acts,      \* how much the user and the others have done
  amiss      \* a request has failed, overtaken another or met another account

vars == <<cookie, enabled, rows, local, user, session, reprobed, day, shown,
          flight, acts, amiss>>

\* "" is also what a day without a row reads as.
Empty == 0
Old == MaxActs + 1
Texts == 0 .. Old

Somebody == Accounts \cup {None}
Sessions == {"Unknown", "Unreachable", "Disabled", "Locked", "Unlocked"}
Answers == {"waiting", "text", "failed", "sealed", "unopenable"}

\* A load, or a save.  The store is the backend as Persistent captured it: the
\* account shown, or None for localStorage.  `keyed`: with the session's key.
Operation ==
  [kind : {"load", "save"}, day : Days, store : Somebody, keyed : BOOLEAN,
   current : BOOLEAN, answer : Answers, text : Texts]

\* What is on screen, the day and the store it belongs to, and whether the user
\* typed it.
Shown == [text : Texts, day : Days, store : Somebody, typed : BOOLEAN]

Row == [text : Texts, key : Accounts \cup {Damaged}]

\* Nothing shown, no row and no body are none of these either.
ASSUME AbsentAssumption == None \notin Shown /\ None \notin Row /\ None \notin Texts

TypeOK ==
  /\ cookie \in Somebody /\ user \in Somebody
  /\ enabled \in SUBSET Accounts
  /\ rows \in [Accounts -> [Days -> Row \cup {None}]]
  /\ local \in [Days -> Texts \cup {None}]
  /\ session \in Sessions
  /\ reprobed \in BOOLEAN /\ amiss \in BOOLEAN
  /\ day \in Days \cup {None}
  /\ shown \in Shown \cup {None}
  /\ flight \in Seq(Operation) /\ Len(flight) <= MaxFlight
  /\ \A i, j \in DOMAIN flight : flight[i].current /\ flight[j].current => i = j
  /\ acts \in 0 .. MaxActs

-----------------------------------------------------------------------------
(* The session, as the storage seam reads it.                              *)

\* Seeded fault: only a missing key refuses.
Writes_UnknownAccepted(s, u) ==
  IF s = "Locked" THEN "Refused"
  ELSE IF u # None /\ s = "Disabled" THEN "SetupRequired" ELSE "Accepted"

\* EncryptionState::writes: would a save made now be stored?
Writes(s, u) ==
  IF s \in {"Unknown", "Unreachable", "Locked"} THEN "Refused"
  ELSE IF u # None /\ s = "Disabled" THEN "SetupRequired" ELSE "Accepted"

\* write_target: the refusals of the seam, made on the same pair.
WriteTarget(s, u) ==
  IF s \in {"Unknown", "Unreachable", "Locked"} THEN "Refused"
  ELSE IF u = None THEN "Local"
  ELSE IF s = "Unlocked" THEN "Remote" ELSE "Refused"

\* SetupGate is mounted in place of the entry area; its effect is next.
Gated == day # None /\ Writes(session, user) = "SetupRequired"

\* The entry area is mounted and its box is not read-only.
Editable == day # None /\ Writes(session, user) = "Accepted"

-----------------------------------------------------------------------------
(* The hook.                                                               *)

Load(d, u, s) ==
  [kind |-> "load", day |-> d, store |-> u, keyed |-> s = "Unlocked",
   current |-> TRUE, answer |-> "waiting", text |-> Empty]

Save(d, u, s, t) ==
  [kind |-> "save", day |-> d, store |-> u, keyed |-> s = "Unlocked",
   current |-> FALSE, answer |-> "waiting", text |-> t]

\* Seeded fault: the token is taken, and the counter does not move.
Outranked_SameToken(ops) == ops

\* begin_operation, or the Generation is disposed: no load in flight publishes.
Outranked(ops) == [i \in DOMAIN ops |-> [ops[i] EXCEPT !.current = FALSE]]

\* The effect of use_persistent: outrank, blank, read again.
Reload(d, u, s, ops) ==
  /\ shown' = None
  /\ flight' = IF d = None THEN Outranked(ops)
                           ELSE Append(Outranked(ops), Load(d, u, s))

\* Seeded fault: the load does not depend on the key.
Publish_NoIdentity(s, ops) ==
  /\ session' = s
  /\ flight' = ops
  /\ UNCHANGED shown

\* publish, and the effect on session_identity: a key that comes, goes or is
\* published again re-runs the load, a keyless state after another does not.
Publish(s, ops) ==
  /\ session' = s
  /\ IF "Unlocked" \in {s, session}
       THEN Reload(day, user, s, ops)
       ELSE flight' = ops /\ UNCHANGED shown

Act == acts < MaxActs /\ acts' = acts + 1 /\ ~Gated
Room == Len(flight) < MaxFlight

server == <<cookie, enabled, rows>>
page == <<user, session, reprobed, day>>

-----------------------------------------------------------------------------
(* The user.                                                               *)

\* Another day is opened: DayView is built anew, with a hook of its own.
Navigate(d) ==
  /\ Act /\ Room
  /\ d # day
  /\ day' = d
  /\ Reload(d, user, session, flight)
  /\ UNCHANGED <<server, local, user, session, reprobed, amiss>>

\* Seeded fault: a keystroke does not outrank the load in flight.
Keystroke_NoToken(t) ==
  /\ Act /\ Room
  /\ Editable
  /\ shown' = [text |-> t, day |-> day, store |-> user, typed |-> TRUE]
  /\ flight' = IF WriteTarget(session, user) = "Refused" THEN flight
               ELSE Append(flight, Save(day, user, session, t))
  /\ UNCHANGED <<server, local, page, amiss>>

\* Persistent::set, or clear for the empty text: outrank, show, and save with the
\* day, the backend and the key of this moment.
Keystroke(t) ==
  /\ Act /\ Room
  /\ Editable
  /\ shown' = [text |-> t, day |-> day, store |-> user, typed |-> TRUE]
  /\ flight' = IF WriteTarget(session, user) = "Refused" THEN Outranked(flight)
               ELSE Append(Outranked(flight), Save(day, user, session, t))
  /\ UNCHANGED <<server, local, page, amiss>>

\* An unlock ceremony ends, or turning encryption on does.
Unlock ==
  /\ Act /\ Room
  /\ user # None
  /\ session \in {"Locked"} \cup IF user \in enabled THEN {"Disabled"} ELSE {}
  /\ Publish("Unlocked", flight)
  /\ UNCHANGED <<server, local, user, reprobed, day, amiss>>

LockNow ==
  /\ Act /\ Room
  /\ session = "Unlocked"
  /\ Publish("Locked", flight)
  /\ UNCHANGED <<server, local, user, reprobed, day, amiss>>

\* The button of an Unreachable page.
Retry ==
  /\ Act
  /\ session = "Unreachable"
  /\ Publish("Unknown", flight)
  /\ UNCHANGED <<server, local, user, reprobed, day, amiss>>

\* sign_out: logout has emptied the cookie, and its answer clears AuthCtx::user.
\* The backend flips in place; the probe's effect publishes Disabled.
SignOutTold ==
  /\ Act /\ Room
  /\ user # None /\ cookie = None
  /\ user' = None
  /\ session' = "Disabled"
  /\ Reload(day, None, "Disabled", flight)
  /\ UNCHANGED <<server, local, reprobed, day, amiss>>

\* A document is loaded: a reload, a magic link, the end of a passkey sign-in.
\* A load of the old one publishes nowhere; a save already sent goes on.
PageLoad ==
  /\ Act /\ Room
  /\ user' = cookie
  /\ session' = IF cookie = None THEN "Disabled" ELSE "Unknown"
  /\ reprobed' = FALSE
  /\ Reload(day, cookie, "Unknown", flight)
  /\ UNCHANGED <<server, local, day, amiss>>

-----------------------------------------------------------------------------
(* Effects and answers.                                                    *)

\* SetupGate: probe again, and leave for /account.
SetupGate ==
  /\ Gated
  /\ day' = None
  /\ session' = "Unknown"
  /\ Reload(None, user, "Unknown", flight)
  /\ UNCHANGED <<server, local, user, reprobed, acts, amiss>>

\* The newest probe publishes what it found: another account or no answer; an
\* account without encryption; a key in the key store, or none.
ProbeAnswers ==
  /\ Room
  /\ session = "Unknown"
  /\ \/ /\ cookie # user \/ RequestsFail
        /\ Publish("Unreachable", flight)
     \/ /\ cookie = user /\ user \notin enabled
        /\ Publish("Disabled", flight)
     \/ /\ cookie = user /\ user \in enabled
        /\ \E s \in {"Locked", "Unlocked"} : Publish(s, flight)
  /\ UNCHANGED <<server, local, user, reprobed, day, acts, amiss>>

\* The i-th operation has the backend's attention.  Two tasks on localStorage
\* run in the order they were spawned, two requests in any order.
Waiting(i) == flight[i].answer = "waiting"
Overtakes(i) ==
  \E j \in 1 .. i - 1 : Waiting(j) /\ (flight[j].store = None <=> flight[i].store = None)
Served(i) == Waiting(i) /\ (flight[i].store = None => ~Overtakes(i))

\* The server acts for the cookie's account, not the one the tab shows.
Strays(i) == flight[i].store # None /\ (Overtakes(i) \/ flight[i].store # cookie)

\* A save is done: localStorage holds a plain body, the server a sealed one, if
\* there is a session and its account is encrypted (entry_save).
ServeSave(i) ==
  /\ flight[i].kind = "save" /\ Served(i)
  /\ LET o == flight[i] IN
       \/ /\ o.store = None
          /\ local' = [local EXCEPT ![o.day] = o.text]
          /\ UNCHANGED rows
       \/ /\ o.store # None /\ cookie \in enabled
          /\ rows' = [rows EXCEPT ![cookie][o.day] = [text |-> o.text, key |-> o.store]]
          /\ UNCHANGED local
       \/ /\ o.store # None /\ cookie \notin enabled
          /\ UNCHANGED <<rows, local>>
  /\ flight' = RemoveAt(flight, i)
  /\ amiss' = (amiss \/ Strays(i))
  /\ UNCHANGED <<cookie, enabled, page, shown, acts>>

\* decide_row and open_row, with the key the load captured.
ReadRow(o, row) ==
  IF row = None THEN [o EXCEPT !.answer = "text"]
  ELSE IF ~o.keyed THEN [o EXCEPT !.answer = "sealed"]
  ELSE IF row.key # o.store THEN [o EXCEPT !.answer = "unopenable"]
  ELSE [o EXCEPT !.answer = "text", !.text = row.text]

\* A load is read, and its answer is on the way.
ServeLoad(i) ==
  /\ flight[i].kind = "load" /\ Served(i)
  /\ LET o == flight[i]
         text == IF local[o.day] = None THEN Empty ELSE local[o.day]
     IN flight' = [flight EXCEPT ![i] =
          IF o.store = None THEN [o EXCEPT !.answer = "text", !.text = text]
          ELSE IF cookie = None THEN [o EXCEPT !.answer = "failed"]
          ELSE ReadRow(o, rows[cookie][o.day])]
  /\ amiss' = (amiss \/ Strays(i))
  /\ UNCHANGED <<server, local, page, shown, acts>>

\* An operation fails.  Of a save nothing is left but a line in the console.
Fail(i) ==
  /\ RequestsFail /\ Served(i)
  /\ flight' = IF flight[i].kind = "save" THEN RemoveAt(flight, i)
               ELSE [flight EXCEPT ![i].answer = "failed"]
  /\ amiss' = TRUE
  /\ UNCHANGED <<server, local, page, shown, acts>>

ShowLoaded(o) ==
  shown' = [text |-> o.text, day |-> o.day, store |-> o.store, typed |-> FALSE]

\* Seeded fault: the latch of claim_reprobe is not there.
UnopenableRowSeen_Always(o, rest) ==
  IF session = "Unlocked"
    THEN reprobed' = TRUE /\ Publish("Unknown", rest)
    ELSE ShowLoaded(o) /\ flight' = rest /\ UNCHANGED <<session, reprobed>>

\* unopenable_row_seen: the page load's one re-probe; a day that cannot have it
\* is shown as empty.
UnopenableRowSeen(o, rest) ==
  IF session = "Unlocked" /\ ~reprobed
    THEN reprobed' = TRUE /\ Publish("Unknown", rest)
    ELSE ShowLoaded(o) /\ flight' = rest /\ UNCHANGED <<session, reprobed>>

\* Seeded fault: is_current is not asked.
Arrive_Anyway(i) ==
  /\ flight[i].answer # "waiting" /\ ~Gated
  /\ LET o == flight[i]
         rest == RemoveAt(flight, i)
     IN \/ /\ o.answer = "unopenable"
           /\ UnopenableRowSeen(o, rest)
        \/ /\ o.answer \in {"text", "failed"}
           /\ ShowLoaded(o) /\ flight' = rest /\ UNCHANGED <<session, reprobed>>
        \/ /\ o.answer = "sealed"
           /\ flight' = rest /\ UNCHANGED <<shown, session, reprobed>>
  /\ UNCHANGED <<server, local, user, day, acts, amiss>>

\* The load resolves.  A failure is shown as an empty day; a sealed row leaves
\* the day blank (sealed_row_seen acts in Disabled only, where SetupGate has
\* disposed of the load).
Arrive(i) ==
  /\ flight[i].answer # "waiting" /\ ~Gated
  /\ LET o == flight[i]
         rest == RemoveAt(flight, i)
     IN \/ /\ o.current /\ o.answer = "unopenable"
           /\ UnopenableRowSeen(o, rest)
        \/ /\ o.current /\ o.answer \in {"text", "failed"}
           /\ ShowLoaded(o) /\ flight' = rest /\ UNCHANGED <<session, reprobed>>
        \/ /\ ~o.current \/ o.answer = "sealed"
           /\ flight' = rest /\ UNCHANGED <<shown, session, reprobed>>
  /\ UNCHANGED <<server, local, user, day, acts, amiss>>

-----------------------------------------------------------------------------
(* Other tabs and other devices.                                           *)

\* Another tab signs in or out; so does this tab, before it is told.
CookieMovesTo(c) ==
  /\ Act
  /\ c # cookie
  /\ CookieMoves \/ cookie = None \/ c = None
  /\ cookie' = c
  /\ UNCHANGED <<enabled, rows, local, page, shown, flight, amiss>>

Encrypted(a) ==
  /\ Act
  /\ a \notin enabled
  /\ enabled' = enabled \cup {a}
  /\ UNCHANGED <<cookie, rows, local, page, shown, flight, amiss>>

Init ==
  /\ cookie \in Somebody
  /\ enabled \in SUBSET Accounts
  /\ rows \in [Accounts -> [Days -> {None} \cup [text : {Old}, key : Accounts \cup {Damaged}]]]
  /\ \A a \in Accounts, d \in Days : rows[a][d] # None =>
       a \in enabled /\ d \in OldDays /\ rows[a][d].key \in {a, Damaged}
  /\ local \in [Days -> {None, Old}]
  /\ \A d \in Days : local[d] # None => d \in OldDays
  /\ user = cookie
  /\ session = IF cookie = None THEN "Disabled" ELSE "Unknown"
  /\ reprobed = FALSE
  /\ day \in Days
  /\ shown = None
  /\ flight = <<Load(day, cookie, "Unknown")>>
  /\ acts = 0
  /\ amiss = FALSE

\* What the browser and the server do by themselves once they have been asked.
Answered ==
  \/ SetupGate \/ ProbeAnswers
  \/ \E i \in DOMAIN flight : ServeSave(i) \/ ServeLoad(i) \/ Fail(i) \/ Arrive(i)

Next ==
  \/ Answered
  \/ \E d \in Days : Navigate(d)
  \/ \E t \in {Empty, acts + 1} : Keystroke(t)
  \/ Unlock \/ LockNow \/ Retry \/ SignOutTold \/ PageLoad
  \/ \E c \in Somebody : CookieMovesTo(c)
  \/ \E a \in Accounts : Encrypted(a)

Spec == Init /\ [][Next]_vars

\* Requests end in an answer or an error, and effects run.
FairSpec == Spec /\ WF_vars(Answered)

-----------------------------------------------------------------------------
(* What holds.                                                             *)

\* The text on screen is of the day and the store on screen, whatever the loads
\* of other days and of another account still bring (the tokens, the fresh hook
\* of each day, and the blanking; invariant I2).
ShownIsThisDays == shown # None => shown.day = day /\ shown.store = user

\* What the user has typed stays on screen until they type again or the day is
\* blanked to be read anew: no load already on its way publishes over it (the
\* token that Persistent::set takes).
TypedStands ==
  [][shown # None /\ shown.typed /\ shown' # shown =>
       \/ shown' # None /\ shown'.typed
       \/ shown' = None /\ (day' = None \/ Last(flight').current)]_vars

Pending == \E i \in DOMAIN flight : flight[i].kind = "save" \/ flight[i].current

Stored ==
  LET row == rows[user][day] IN
  IF user = None THEN IF local[day] = None THEN Empty ELSE local[day]
  ELSE IF row = None THEN Empty ELSE IF row.key = user THEN row.text ELSE Empty

\* Once nothing is on its way, the screen shows what is stored, if no request has
\* failed, overtaken another or met another account's cookie: every keystroke the
\* box takes is stored (Writes and write_target agree), and no load brings back
\* an older text.
ScreenIsStored == shown # None /\ ~Pending /\ ~amiss => shown.text = Stored

Session == INSTANCE PageSession WITH state <- session

\* The day view's session moves as the one of EncryptionCtx may: a day that it cannot open
\* is doubted once in a page load, and signed out the page is Disabled until it is loaded
\* again.
DayKeepsSession == Session!Spec

\* A day that can be typed into and shows nothing is being read: a load of this day, from
\* this store, is on its way, and what it brings will be shown (a load without the key,
\* which may bring a sealed row and show nothing, is not left to be the newest).
DayIsRead ==
  Editable /\ shown = None =>
    \E i \in DOMAIN flight :
      /\ flight[i].kind = "load" /\ flight[i].current
      /\ flight[i].day = day /\ flight[i].store = user
      /\ flight[i].answer # "sealed"

\* A day that can be typed into does not stay blank: the load is run again when
\* a key comes, a failed one shows an empty day, and an unopenable row is looked
\* at twice and no more.
DaySettles == <>[](Editable => shown # None)

-----------------------------------------------------------------------------
(* What the repository says and the code does not do; see the README.      *)

\* hook.rs, set: the value is written through to storage; screen and store are
\* not left disagreeing.  Of two saves of one day the older can arrive last.
TypedIsStored == shown # None /\ ~Pending /\ user = cookie /\ shown.typed => shown.text = Stored

\* encryption_ctx.rs, unopenable_row_seen: the re-probe keeps a tab from sealing
\* somebody else's day under a key that account will never have.
RowsOpenForTheirAccount ==
  \A a \in Accounts, d \in Days : rows[a][d] # None => rows[a][d].key \in {a, Damaged}

\* hook.rs: a day that says "nothing saved" has nothing saved.
EmptyMeansEmpty ==
  shown # None /\ shown.text = Empty /\ ~shown.typed /\ ~Pending /\ user = cookie
    => Stored = Empty

=============================================================================
