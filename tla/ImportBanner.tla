------------------------------ MODULE ImportBanner ------------------------------
(***************************************************************************)
(* The entries of a browser nobody was signed in on, and the banner that   *)
(* offers to copy them into the account somebody signs in to.              *)
(*                                                                         *)
(* On the device: the days with a key of their own, and the undated blob   *)
(* of an older version, which stands in for today.  The days are those of  *)
(* the year the banner looks back over, and a few to come.  What a text    *)
(* says does not matter here, only whose it is: a row of an account holds  *)
(* what was written there, or what an import copied over it.  What a row   *)
(* is sealed under is DayEditor's.                                         *)
(***************************************************************************)
EXTENDS Integers, FiniteSets, FiniteSetsExt

CONSTANTS
  Users,
  MaxDay,      \* bound: the days, 1..MaxDay
  MaxRuns,     \* bound: the runs of the banner's effect
  MaxImports,  \* bound: the clicks on Import
  None

ASSUME BoundsAssumption == MaxDay \in Nat \ {0, 1} /\ {MaxRuns, MaxImports} \subseteq Nat
ASSUME NoneAssumption == None \notin Users

Days == 1..MaxDay

VARIABLES
  today,
  dated,      \* the days with a key time_entry:<date> in localStorage
  legacy,     \* whether the blob under LEGACY_KEY is there
  done,       \* DONE_FLAG_KEY
  cookie,     \* whose session cookie the browser holds
  encrypted,  \* the accounts with encryption on
  row,        \* row[u][d]: "none", "written" in the account, or "imported"
  user,       \* auth.user of the page
  keyed,      \* whether the page's session can seal
  run,        \* the token of the newest run of the effect
  scans,      \* the runs that wait for the account's days
  offer,      \* candidates, and what the account was said to hold then
  imports,    \* the imports under way
  clicks,     \* the imports so far
  settled     \* history: the days of the device that setting DONE_FLAG_KEY gave up on, and
              \* whether a scan had found them, but for those the user turned down

device == <<today, dated, legacy>>
account == <<cookie, encrypted, row>>
session == <<user, keyed>>
banner == <<run, scans, offer, imports, clicks>>
vars == <<device, account, session, banner, done, settled>>

\* The answer to the list of days: whose they are; `had` is empty when it is an error.
Answer == [of: Users \cup {None}, had: SUBSET Days]
Offer == [days: SUBSET Days, list: Answer]
NoOffer == [days |-> {}, list |-> [of |-> None, had |-> {}]]
Scan == [run: 1..MaxRuns, local: SUBSET Days]
\* `here`: the banner that began it is still mounted.
Import == [n: 1..MaxImports, offer: Offer, left: SUBSET Days, copied: 0..MaxDay,
           keyed: BOOLEAN, here: BOOLEAN]

TypeOK ==
  /\ today \in Days /\ dated \subseteq Days /\ legacy \in BOOLEAN /\ done \in BOOLEAN
  /\ cookie \in Users \cup {None} /\ encrypted \subseteq Users
  /\ row \in [Users -> [Days -> {"none", "written", "imported"}]]
  /\ user \in Users \cup {None} /\ keyed \in BOOLEAN
  /\ run \in 0..MaxRuns /\ scans \subseteq Scan /\ offer \in Offer
  /\ imports \subseteq Import /\ clicks \in 0..MaxImports
  /\ \A i \in imports : i.left \subseteq i.offer.days /\ i.copied + Cardinality(i.left) <= Cardinality(i.offer.days)
  /\ settled \subseteq Days \X {"found", "unread"}

-----------------------------------------------------------------------------
(* localStorage.                                                           *)

\* legacy_stands_in_for.
LegacyStandsInFor(d) == legacy /\ d = today /\ d \notin dated

\* dates_on_device, over from..to.
DatesOnDevice(from, to) ==
  {d \in dated : d \in from..to} \cup
  IF today \in from..to /\ LegacyStandsInFor(today) THEN {today} ELSE {}

\* store: a write to today supersedes the blob.
Store(d) ==
  /\ dated' = dated \cup {d}
  /\ legacy' = (legacy /\ d # today)

-----------------------------------------------------------------------------
(* The banner.                                                             *)

\* Seeded fault: the days the account holds are offered too.
Importable_All(local, remote) == local

\* importable.
Importable(local, remote) == local \ remote

\* What becomes of a scan: nothing to offer settles the device, and gives up on `gone`.
Publish(days, list, gone) ==
  /\ offer' = [days |-> days, list |-> list]
  /\ done' = (done \/ days = {})
  /\ settled' = IF days = {} THEN settled \cup gone ELSE settled

\* The effect of a new banner, when the page's user is user1: its scan of the device may
\* fail, which reads as a device that holds nothing.
Effect(user1) ==
  /\ run < MaxRuns /\ run' = run + 1
  /\ IF user1 = None \/ done
       THEN offer' = NoOffer /\ scans' = {} /\ UNCHANGED <<done, settled>>
       ELSE \E local \in {{}, DatesOnDevice(1, today)} :
              IF local = {}
                THEN /\ Publish({}, NoOffer.list, DatesOnDevice(1, today) \X {"unread"})
                     /\ scans' = {}
                ELSE /\ scans' = {[run |-> run + 1, local |-> local]}
                     /\ offer' = NoOffer /\ UNCHANGED <<done, settled>>

\* Seeded fault: any answer is taken, whatever happened since it was asked for.
IsCurrent_Always(s) == TRUE

IsCurrent(s) == s.run = run

\* The account's days arrive, or an error that is read as none.
Listed(s) ==
  /\ scans' = scans \ {s}
  /\ \E list \in {[of |-> None, had |-> {}]} \cup
       (IF cookie = None THEN {} ELSE {[of |-> cookie, had |-> {d \in 1..today : row[cookie][d] # "none"}]}) :
         IF IsCurrent(s) THEN Publish(Importable(s.local, list.had), list, s.local \X {"found"})
         ELSE UNCHANGED <<offer, done, settled>>
  /\ UNCHANGED <<device, account, session, run, imports, clicks>>

\* "No thanks".
Dismiss ==
  /\ offer.days # {}
  /\ done' = TRUE /\ offer' = NoOffer
  /\ UNCHANGED <<device, account, session, run, scans, imports, clicks, settled>>

\* The bodies of an import: those of the range of the offer that were offered.
Bodies(days) == DatesOnDevice(Min(days), Max(days)) \cap days

\* "Import", which stays live while an import runs: the bodies are read at once, and the
\* session is the one of the click.
ClickImport ==
  /\ offer.days # {} /\ clicks < MaxImports /\ clicks' = clicks + 1
  /\ imports' = imports \cup
       {[n |-> clicks + 1, offer |-> offer,
         left |-> Bodies(offer.days), copied |-> 0, keyed |-> keyed, here |-> TRUE]}
  /\ UNCHANGED <<device, account, session, run, scans, offer, done, settled>>

\* The next body is saved for the account of the cookie, or is not; an answer may be lost.
\* A session that cannot seal asks nobody.
SaveRow(i) ==
  /\ i.left # {}
  /\ LET d == Min(i.left)
         served == i.keyed /\ cookie \in encrypted
     IN \E ok \in BOOLEAN :
          /\ ok => served
          /\ \/ served /\ row' = [row EXCEPT ![cookie][d] = "imported"]
             \/ ~ok /\ UNCHANGED row
          /\ imports' = (imports \ {i}) \cup
               {[i EXCEPT !.left = @ \ {d}, !.copied = IF ok THEN @ + 1 ELSE @]}
  /\ UNCHANGED <<device, cookie, encrypted, session, run, scans, offer, clicks, done, settled>>

\* Seeded fault: an import that copied something settles the device.
FullySucceeded_Some(i) == i.copied > 0

\* import_outcome, which compares numbers.
FullySucceeded(i) == i.copied = Cardinality(i.offer.days)

\* The end of an import.
Imported(i) ==
  /\ i.left = {}
  /\ imports' = imports \ {i}
  /\ done' = (done \/ FullySucceeded(i))
  /\ settled' = IF FullySucceeded(i) THEN settled \cup (i.offer.days \X {"found"}) ELSE settled
  /\ offer' = IF i.here THEN NoOffer ELSE offer
  /\ UNCHANGED <<device, account, session, run, scans, clicks>>

-----------------------------------------------------------------------------
(* Around the banner.                                                      *)

\* A document is loaded, for the cookie's user: a reload, the redirect of a link, the reload
\* that ends a passkey's sign-in.
PageLoad(u) ==
  /\ user' = u /\ cookie' = u /\ keyed' = FALSE
  /\ Effect(u)
  /\ imports' = {}
  /\ UNCHANGED <<device, encrypted, row, clicks>>

\* The user signs out: the page stays, and its banner's effect runs again.
SignOut ==
  /\ user # None
  /\ user' = None /\ cookie' = None /\ keyed' = FALSE
  /\ run < MaxRuns /\ run' = run + 1
  /\ offer' = NoOffer
  /\ UNCHANGED <<device, encrypted, row, scans, imports, clicks, done, settled>>

\* The day view of another day, with a banner of its own.
Navigate ==
  /\ Effect(user)
  /\ imports' = {[i EXCEPT !.here = FALSE] : i \in imports}
  /\ UNCHANGED <<device, account, session, clicks>>

\* An account turns encryption on: in another tab, on another device, or on this page's
\* /account, which has no banner and to which SetupGate takes a page that could not save.
TurnOn(u) ==
  /\ u \notin encrypted /\ encrypted' = encrypted \cup {u}
  /\ UNCHANGED <<device, cookie, row, session, banner, done, settled>>

\* The session of the page unlocks, and the banner stays; Lock now.
Unlock ==
  /\ user \in encrypted /\ keyed' = ~keyed
  /\ UNCHANGED <<device, account, user, banner, done, settled>>

\* Signed out, the day view stores on the device.
TypeOnDevice(d) ==
  /\ user = None
  /\ Store(d)
  /\ UNCHANGED <<today, account, session, banner, done, settled>>

\* clear on the device: the key of the day goes, and nothing else.
ClearOnDevice(d) ==
  /\ user = None /\ d \in dated
  /\ dated' = dated \ {d}
  /\ UNCHANGED <<today, legacy, account, session, banner, done, settled>>

\* Somebody writes in an account: the day view of this page, or another device.
Write(u, d) ==
  /\ u \in encrypted /\ row' = [row EXCEPT ![u][d] = "written"]
  /\ UNCHANGED <<device, cookie, encrypted, session, banner, done, settled>>

\* Another tab of the browser signs in or out.
OtherTab(c) ==
  /\ c # cookie /\ cookie' = c
  /\ UNCHANGED <<device, encrypted, row, session, banner, done, settled>>

Midnight ==
  /\ today + 1 \in Days /\ today' = today + 1
  /\ UNCHANGED <<dated, legacy, account, session, banner, done, settled>>

Init ==
  /\ today = MaxDay - 1 /\ dated = {} /\ legacy \in BOOLEAN /\ done = FALSE
  /\ cookie = None /\ encrypted = {} /\ row = [u \in Users |-> [d \in Days |-> "none"]]
  /\ user = None /\ keyed = FALSE
  /\ run = 0 /\ scans = {} /\ offer = NoOffer /\ imports = {} /\ clicks = 0
  /\ settled = {}

Next ==
  \/ \E s \in scans : Listed(s)
  \/ Dismiss \/ ClickImport
  \/ \E i \in imports : SaveRow(i) \/ Imported(i)
  \/ \E u \in Users \cup {None} : OtherTab(u)
  \/ \E u \in Users \cup {cookie} : PageLoad(u)
  \/ SignOut \/ Navigate \/ Unlock \/ Midnight
  \/ \E d \in Days : TypeOnDevice(d) \/ ClearOnDevice(d)
  \/ \E u \in Users : TurnOn(u) \/ \E d \in Days : Write(u, d)

Spec == Init /\ [][Next]_vars

-----------------------------------------------------------------------------
\* Days are offered to nobody but the user the page was signed in as when it asked for them:
\* an answer that outlives a sign-out, or a change of user, offers nothing.
OfferIsForItsUser == offer.days # {} => user # None /\ ~\E s \in scans : s.run = run

\* Of the days its scan found, the banner gives up on none that is not in an account or was
\* turned down: neither a save that failed, of one import or of two at once, nor an answer
\* that came too late settles the device over it.  Of a scan of the device that failed it says
\* nothing: the days on the device then are in `settled` as "unread".
SettledIsSafe ==
  \A d \in Days : <<d, "found">> \in settled => \E u \in Users : row[u][d] # "none"

\* What the feature is for (import_outcome): no day is stranded on the device.  A scan that
\* failed settles the device all the same, and strands them.
NoDayIsStranded ==
  \A s \in settled : \E u \in Users : row[u][s[1]] # "none"

\* The blob goes with a write to the day that shows it and not before (should_clear_legacy).
\* A text typed ahead hides it when its day comes, and the next one removes it unseen.
UnseenBlobStays ==
  [][legacy /\ ~legacy' => LegacyStandsInFor(today)]_vars

\* An import replaces nothing that the account was said to hold when the offer was made.
ListedRowsStay ==
  [][\A u \in Users, d \in Days :
       row[u][d] = "written" /\ row'[u][d] = "imported" =>
         \E i \in imports : i.left # {} /\ d = Min(i.left) /\ ~(i.offer.list.of = u /\ d \in i.offer.list.had)]_vars

\* Invariant I9 as import_banner.rs puts it: an import whose offer was made from the days of
\* an account cannot clobber what was written in it.
NoClobber ==
  [][\A u \in Users, d \in Days :
       row[u][d] = "written" /\ row'[u][d] = "imported" =>
         \E i \in imports : i.left # {} /\ d = Min(i.left) /\ i.offer.list.of # u]_vars
=============================================================================
