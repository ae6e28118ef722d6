------------------------------ MODULE WeekView ------------------------------
(***************************************************************************)
(* One WeekBody: the read-only week of /week/{date}, from its mount until  *)
(* the user leaves it.  It composes Generation, whose counter its range    *)
(* reads share and whose signal is the week's totals, with the range read  *)
(* of the storage seam and with the session of the page.                   *)
(*                                                                         *)
(* Two modules stand behind the session.  EncryptionCtx says how its state *)
(* comes about: a probe in flight is the state Unknown here, and Unlocked  *)
(* is the key of the page's user.  DayEditor has the writing half of the   *)
(* same seam.                                                              *)
(***************************************************************************)
EXTENDS Generation

CONSTANTS
  Accounts,      \* the accounts of this browser's users
  Days,          \* days of the week, numbers in their order
  OldWeeks,      \* the weeks a store may hold before: what each day's row is
  MaxActs,       \* bound: what the user, other tabs and other devices do
  RequestsFail,  \* whether storage and the network can fail
  None           \* no account; not yet; not answered

ASSUME LoadsExist == Loads # {}
ASSUME DaysAssumption == Days \subseteq Nat
ASSUME ActsAssumption == MaxActs \in Nat
ASSUME SwitchAssumption == RequestsFail \in BOOLEAN
ASSUME NoneAssumption == None \notin Accounts

VARIABLES
  cookie,    \* the account the server sees in this browser's requests
  enabled,   \* the accounts with encrypted_at set
  rows,      \* time_entry: what the row of an account and a day holds
  local,     \* localStorage, the same for its days
  user,      \* AuthCtx::user, which picks the backend
  session,   \* EncryptionCtx::state
  reprobed,  \* the page load has spent its one re-probe
  seen,      \* the backend and the key the effect last ran with
  asked,     \* asked[l]: the backend and the key range read l captured
  answer,    \* answer[l]: the RangeRead it came back with, or None
  acts,      \* how much the user and the others have done
  amiss      \* a request failed, met another account, or was outdated by a save

weekVars == <<vars, cookie, enabled, rows, local, user, session, reprobed, seen,
              asked, answer, acts, amiss>>

server == <<cookie, enabled, rows, local>>
page == <<user, session, reprobed>>
reads == <<seen, asked, answer>>

Somebody == Accounts \cup {None}
Sessions == {"Unknown", "Unreachable", "Disabled", "Locked", "Unlocked"}

\* A row: no row; a body with work in it; a body without; a sealed body that
\* opens under no key; an envelope that does not parse.
Kinds == {"none", "work", "idle", "damaged", "garbled"}

ASSUME OldWeeksAssumption == OldWeeks \subseteq [Days -> Kinds]

\* RangeRead once its rows are aggregated.  `closed` are the days left out
\* because their rows would not open.
Answer == [days : SUBSET Days, sealed : BOOLEAN, unopenable : BOOLEAN, closed : SUBSET Days]

\* What the load subscribes to: the backend, and which key, None for none.
Input == [store : Somebody, keyed : BOOLEAN]

WeekTypeOK ==
  /\ TypeOK
  /\ cookie \in Somebody /\ user \in Somebody
  /\ enabled \in SUBSET Accounts
  /\ rows \in [Accounts -> [Days -> Kinds]]
  /\ local \in [Days -> Kinds]
  /\ session \in Sessions
  /\ reprobed \in BOOLEAN /\ amiss \in BOOLEAN
  /\ seen \in Input \cup {None}
  /\ asked \in [Loads -> Input]
  /\ answer \in [Loads -> Answer \cup {None}]
  /\ acts \in 0 .. MaxActs

-----------------------------------------------------------------------------
(* The range read.                                                         *)

\* decide_rows without a key: what keep_row drops, and whether a row was sealed.
\* Sealed rows are the server's; localStorage is never encrypted.
Parsed(table) == {d \in Days : table[d] \notin {"none", "garbled"}}

\* Seeded fault: the flag of a row replaces the flag of the rows before it.
SomeClosed_Last(closed, opened) ==
  \E d \in closed : \A e \in opened : e < d

\* open_rows: unopenable |= the row would not open.
SomeClosed(closed, opened) == closed # {}

\* aggregate: a day that was saved and then emptied is not in the table.
Aggregate(table, opened) == {d \in opened : table[d] = "work"}

\* bodies_in_range with what the read captured, on the rows of `owner`.
RangeRead(i, owner, table) ==
  LET sealed == IF i.store = None \/ i.keyed THEN {} ELSE Parsed(table)
      closed == {d \in Parsed(table) \ sealed :
                   i.store # None /\ (table[d] = "damaged" \/ owner # i.store)}
      opened == Parsed(table) \ (sealed \cup closed)
  IN [days |-> Aggregate(table, opened), sealed |-> sealed # {},
      unopenable |-> SomeClosed(closed, opened), closed |-> closed]

\* loaded_rows: a read that failed is an empty week, and says nothing of a key.
Failed == [days |-> {}, sealed |-> FALSE, unopenable |-> FALSE, closed |-> {}]

-----------------------------------------------------------------------------
(* The component.                                                          *)

\* EncryptionState::writes.
SetupRequired == user # None /\ session = "Disabled"

\* Seeded fault: the load does not depend on the key.
Inputs_BackendOnly == [store |-> user, keyed |-> FALSE]

\* backend.get() and session_identity.
Inputs == [store |-> user, keyed |-> session = "Unlocked"]

\* An effect is due, this component's or the one of the gate on its place.  It
\* runs in a microtask, before the next event or answer.
Due == ~disposed /\ (seen # Inputs \/ SetupRequired)

\* One more read can be started: the bound on what is in flight.
Room == Loads \ running # {}

Act == ~disposed /\ ~Due /\ Room /\ acts < MaxActs /\ acts' = acts + 1

\* The effect of WeekBody: take a token, and unless the gate is up blank the
\* totals and read.
Effect ==
  /\ ~disposed /\ seen # Inputs
  /\ seen' = Inputs
  /\ \/ /\ SetupRequired
        /\ Outrank /\ UNCHANGED shown
        /\ UNCHANGED <<asked, answer>>
     \/ /\ ~SetupRequired
        /\ LET l == CHOOSE m \in Loads : m \notin running IN
             /\ Begin(l) /\ shown' = Parked
             /\ asked' = [asked EXCEPT ![l] = [store |-> user, keyed |-> session = "Unlocked"]]
             /\ answer' = [answer EXCEPT ![l] = None]
  /\ UNCHANGED <<server, page, acts, amiss>>

\* SetupGate, mounted in place of the week: probe again and leave for /account.
SetupGate ==
  /\ seen = Inputs /\ SetupRequired
  /\ Dispose
  /\ session' = "Unknown"
  /\ UNCHANGED <<server, user, reprobed, reads, acts, amiss>>

\* Another week, or another page.
Leave ==
  /\ ~Due
  /\ Dispose
  /\ UNCHANGED <<server, page, reads, acts, amiss>>

\* What the week's place on the page holds.
Screen ==
  IF SetupRequired THEN "gate"
  ELSE IF session \in {"Locked", "Unreachable"} THEN "prompt"
  ELSE IF shown = Parked THEN "blank" ELSE "week"

-----------------------------------------------------------------------------
(* The answers.                                                            *)

\* A range read is served: by localStorage, or for the account of the cookie.
Serve(l) ==
  /\ ~Due
  /\ l \in running /\ answer[l] = None
  /\ LET i == asked[l] IN
       /\ answer' = [answer EXCEPT ![l] =
            IF i.store = None THEN RangeRead(i, None, local)
            ELSE IF cookie = None THEN Failed ELSE RangeRead(i, cookie, rows[cookie])]
       /\ amiss' = (amiss \/ i.store \notin {None, cookie})
  /\ UNCHANGED <<vars, server, page, seen, asked, acts>>

\* Seeded fault: a read that fails ends there, and totals are never set.
Fail_SetsNothing(l) ==
  /\ ~Due /\ RequestsFail
  /\ l \in running /\ answer[l] = None
  /\ running' = running \ {l} /\ amiss' = TRUE
  /\ UNCHANGED <<counter, disposed, shown, token, server, page, reads, acts>>

\* bodies_in_range is an error.
Fail(l) ==
  /\ ~Due /\ RequestsFail
  /\ l \in running /\ answer[l] = None
  /\ answer' = [answer EXCEPT ![l] = Failed]
  /\ amiss' = TRUE
  /\ UNCHANGED <<vars, server, page, seen, asked, acts>>

\* Seeded fault: the latch of claim_reprobe is not there.
MayReprobe_Always == TRUE

\* claim_reprobe: one re-probe for each page load.
MayReprobe == ~reprobed

\* The rows contradict the session: an Unlocked page meets one its key does not
\* open (unopenable_row_seen), a Disabled one meets a sealed one (sealed_row_seen).
Doubted(l) == IsCurrent(l) /\ answer[l].unopenable /\ session = "Unlocked" /\ MayReprobe
Contradicted(l) == IsCurrent(l) /\ answer[l].sealed /\ session = "Disabled" /\ user # None

\* The read resolves: totals.set(Some(..)) unless it has been outranked, then the
\* report, which starts a probe parked at Unknown or at Locked.
Arrive(l) ==
  /\ ~Due
  /\ answer[l] # None
  /\ Finish(l)
  /\ session' = IF Doubted(l) THEN "Unknown" ELSE IF Contradicted(l) THEN "Locked" ELSE session
  /\ reprobed' = (reprobed \/ Doubted(l))
  /\ UNCHANGED <<server, user, reads, acts, amiss>>

\* The newest probe publishes what it found: another account or no answer; an
\* account without encryption; a key in the key store, or none.
ProbeAnswers ==
  /\ ~Due /\ Room
  /\ session = "Unknown"
  /\ session' \in IF cookie # user THEN {"Unreachable"}
                  ELSE (IF RequestsFail THEN {"Unreachable"} ELSE {})
                       \cup IF user \in enabled THEN {"Locked", "Unlocked"} ELSE {"Disabled"}
  /\ UNCHANGED <<vars, server, user, reprobed, reads, acts, amiss>>

-----------------------------------------------------------------------------
(* The user, other tabs and other devices.                                 *)

\* The prompt's unlock, and its retry.
Unlock ==
  /\ Act
  /\ session = "Locked"
  /\ session' = "Unlocked"
  /\ UNCHANGED <<vars, server, user, reprobed, reads, amiss>>

Retry ==
  /\ Act
  /\ session = "Unreachable"
  /\ session' = "Unknown"
  /\ UNCHANGED <<vars, server, user, reprobed, reads, amiss>>

\* sign_out: logout has emptied the cookie, its answer clears AuthCtx::user, and
\* the backend flips in place; the probe's effect publishes Disabled.
SignOutTold ==
  /\ Act
  /\ user # None /\ cookie = None
  /\ user' = None
  /\ session' = "Disabled"
  /\ UNCHANGED <<vars, server, reprobed, reads, amiss>>

\* Another tab signs in or out; so does this tab, before it is told.
CookieMovesTo(c) ==
  /\ Act
  /\ c # cookie
  /\ cookie' = c
  /\ UNCHANGED <<vars, enabled, rows, local, page, reads, amiss>>

\* Another device turns encryption on and saves a day, or saves one.
SavedElsewhere(a, d, k) ==
  /\ Act
  /\ enabled' = enabled \cup {a}
  /\ rows' = [rows EXCEPT ![a][d] = k]
  /\ amiss' = (amiss \/ a = user)
  /\ UNCHANGED <<vars, cookie, local, page, reads>>

\* The page was loaded earlier, as whoever the cookie was: the effect has not run
\* yet, and Unlocked, Locked or a failure may be known from another view.
WeekInit ==
  /\ Init
  /\ cookie \in Somebody /\ user = cookie
  /\ enabled \in SUBSET Accounts
  /\ rows \in [Accounts -> OldWeeks]
  /\ \A a \in Accounts \ enabled, d \in Days : rows[a][d] = "none"
  /\ local \in {w \in OldWeeks : \A d \in Days : w[d] # "damaged"}
  /\ session \in IF user = None THEN {"Disabled"}
                 ELSE {"Unknown", "Unreachable"}
                      \cup IF user \in enabled THEN {"Locked", "Unlocked"} ELSE {"Disabled"}
  /\ reprobed \in BOOLEAN
  /\ seen = None
  /\ asked = [l \in Loads |-> [store |-> None, keyed |-> FALSE]]
  /\ answer = [l \in Loads |-> None]
  /\ acts = 0
  /\ amiss = FALSE

\* What the browser and the server do by themselves once they have been asked.
Answered ==
  \/ Effect \/ SetupGate \/ ProbeAnswers
  \/ \E l \in Loads : Serve(l) \/ Fail(l) \/ Arrive(l)

WeekNext ==
  \/ Answered
  \/ Leave \/ Unlock \/ Retry \/ SignOutTold
  \/ \E c \in Somebody : CookieMovesTo(c)
  \/ \E a \in Accounts, d \in Days, k \in {"work", "idle"} : SavedElsewhere(a, d, k)

WeekSpec == WeekInit /\ [][WeekNext]_weekVars

\* The event loop runs what is due, and every request is answered or fails.
FairWeekSpec == WeekSpec /\ WF_weekVars(Answered)

-----------------------------------------------------------------------------
\* The days with work in the store the page shows.
WorkDays == LET table == IF user = None THEN local ELSE rows[user]
            IN {d \in Days : table[d] = "work"}

\* A week on screen that nothing has disturbed is the week that is stored: not a
\* week read before the unlock or before the sign-out, not an emptied day.  (The
\* state Unknown is excepted: it shows a week read without a key as empty.)
TotalsAreStored ==
  Screen = "week" /\ ~Due /\ ~disposed /\ ~amiss /\ session # "Unknown"
    => answer[shown].days = WorkDays

\* An Unlocked page never shows a week that leaves out a row its key did not open
\* without having asked once in this page load whose session it is.
LightWeekIsDoubted ==
  Screen = "week" /\ ~Due /\ session = "Unlocked" /\ answer[shown].closed # {} => reprobed

Session == INSTANCE PageSession WITH state <- session

\* The week's session moves as the one of EncryptionCtx may: whatever its reads report, it
\* doubts a key once in a page load and never turns a signed-out page from Disabled.
WeekKeepsSession == Session!Spec

\* Once the effect has run, the week is blank exactly while the read that will fill it is on
\* its way: a token is not left outranked with nothing read in its place.
BlankIsReading ==
  ~disposed /\ ~Due /\ seen # None => (shown = Parked <=> Newest # {})

\* Once the others stop, the week's place ends up with something to read or to do;
\* a row that never opens does not keep the page probing and reading for ever.
WeekSettles == <>[](disposed \/ Screen # "blank")

\* No read ever finds a sealed row on a page that says Disabled: SetupGate has
\* taken the week away (the doc of sealed_row_seen calls the report dormant).
SealedReportIsDormant == [][~(session = "Disabled" /\ session' = "Locked")]_weekVars

=============================================================================
