-------------------------------- MODULE KeyWraps --------------------------------
(***************************************************************************)
(* The ways into an account's data key, as the server stores them - the    *)
(* rows of entry_key_wrap, passkey_credential and user.encrypted_at - and  *)
(* the ceremonies of the browser's tabs that change them: turning          *)
(* encryption on, giving a passkey a key, re-issuing the encryption key.   *)
(*                                                                         *)
(* What the user knows is part of the state: the encryption keys they were *)
(* ever shown, and the one they were last told to rely on.  A key that     *)
(* opens nothing is no loss until somebody relies on it.                   *)
(*                                                                         *)
(* Encryption keys and data keys are numbered as ceremonies mint them; the *)
(* ceremony that turns encryption on mints one of each, with one number.   *)
(***************************************************************************)
EXTENDS Integers, FiniteSets

CONSTANTS
  Accounts,
  PasskeysPerAccount,  \* bound: the passkeys an account ever enrols
  Tabs,                \* the tabs of one browser, which share its session cookie
  MaxKeys,             \* bound: the encryption keys ever minted
  None,
  RequestsGetLost,     \* whether a request, or its answer, can be lost
  RequestsLinger,      \* whether a request its sender gave up on can still arrive
  CookieMoves          \* whether another tab signs somebody else in

ASSUME BoundsAssumption == PasskeysPerAccount \in Nat /\ MaxKeys \in Nat
ASSUME FailuresAssumption ==
  {RequestsGetLost, RequestsLinger, CookieMoves} \subseteq BOOLEAN

Creds == Accounts \X (1..PasskeysPerAccount)
Owner(c) == c[1]
NoKey == 0
Keys == 1..MaxKeys

\* The one encryption-key wrap: the key that opens it, and what it opens.
KeyWrap == [key: Keys, opens: Keys]

ASSUME NoneAssumption ==
  None \notin Accounts /\ None \notin Creds /\ None \notin KeyWrap

Kinds == {"none", "enable", "give", "panel", "prompt"}
Stages == {"idle",
           "shown",            \* enable: the key is on screen
           "opened",           \* give: an existing route is open
           "signed",           \* give: the target passkey has answered
           "owned", "keyless", \* give: the server is between its reads
           "offered",          \* prompt: a new key is offered
           "first", "second",  \* re-issue: the attempts at replace_key_wrap
           "stored"}           \* re-issue: an attempt was answered

Ceremonies == [kind: Kinds, stage: Stages,
               target: Creds \cup {None},  \* the passkey it is for
               me: Accounts \cup {None},   \* require_user's answer
               key: Keys \cup {NoKey},     \* the encryption key it minted
               opens: Keys \cup {NoKey}]   \* the data key its open route yields

Idle == [kind |-> "none", stage |-> "idle", target |-> None, me |-> None,
         key |-> NoKey, opens |-> NoKey]

VARIABLES
  encrypted,  \* user.encrypted_at
  passkeys,   \* passkey_credential
  unused,     \* the credential ids never enrolled
  wraps,      \* wraps[a][c]: what the passkey wrap of c, filed under a, opens
  keyWrap,    \* keyWrap[a]: the encryption-key wrap filed under a
  lingering,  \* replace requests on their way though their sender gave up
  cookie,     \* whose session cookie the browser holds
  page,       \* page[t]: AuthCtx::user of the tab
  plain,      \* plain[t]: whether the tab believes the account is not encrypted
  ceremony,   \* ceremony[t]: the ceremony the tab is in
  minted,     \* how many keys were minted so far
  known,      \* known[a]: the encryption keys a's owner has been shown
  held,       \* held[a]: the one they were last told opens their entries
  kept        \* kept[a]: the one they were told to keep if encryption is on

server == <<encrypted, passkeys, unused, wraps, keyWrap, lingering>>
browser == <<cookie, page, plain>>
owner == <<minted, known, held, kept>>
vars == <<server, browser, ceremony, owner>>

TypeOK ==
  /\ encrypted \subseteq Accounts
  /\ passkeys \subseteq Creds /\ unused \subseteq Creds
  /\ wraps \in [Accounts -> [Creds -> Keys \cup {NoKey}]]
  /\ keyWrap \in [Accounts -> KeyWrap \cup {None}]
  /\ lingering \subseteq [to: Accounts, wrap: KeyWrap]
  /\ cookie \in Accounts
  /\ page \in [Tabs -> Accounts]
  /\ plain \in [Tabs -> BOOLEAN]
  /\ ceremony \in [Tabs -> Ceremonies]
  /\ minted \in 0..MaxKeys
  /\ known \in [Accounts -> SUBSET Keys]
  /\ held \in [Accounts -> Keys \cup {NoKey}]
  /\ kept \in [Accounts -> Keys \cup {NoKey}]

Init ==
  /\ encrypted = {} /\ passkeys = {} /\ unused = Creds
  /\ wraps = [a \in Accounts |-> [c \in Creds |-> NoKey]]
  /\ keyWrap = [a \in Accounts |-> None]
  /\ lingering = {}
  /\ cookie \in Accounts
  /\ page = [t \in Tabs |-> cookie]
  /\ plain = [t \in Tabs |-> TRUE]
  /\ ceremony = [t \in Tabs |-> Idle]
  /\ minted = 0
  /\ known = [a \in Accounts |-> {}]
  /\ held = [a \in Accounts |-> NoKey]
  /\ kept = [a \in Accounts |-> NoKey]

-----------------------------------------------------------------------------
(* Building blocks.                                                        *)

At(t, kinds, stage) == ceremony[t].kind \in kinds /\ ceremony[t].stage = stage

Become(t, r) == ceremony' = [ceremony EXCEPT ![t] = r]
End(t) == Become(t, Idle)

NewKey == minted + 1
Mint == minted < MaxKeys /\ minted' = minted + 1

\* The passkeys whose wrap is filed under a, deleted ones included.
Wrapped(a) == {c \in Creds : wraps[a][c] # NoKey}

\* assert_with_prf, finished: the passkey is one of the page's account, on file,
\* and the session cookie is issued anew, for that account.
Signs(t, c) ==
  /\ c \in passkeys
  /\ Owner(c) = page[t]
  /\ cookie' = page[t]

\* open_existing_route and the unwrap, on the wraps of the cookie's account: with
\* the encryption key the page's user types, or with one of their passkeys.
KeyRoute(t, opens) ==
  /\ keyWrap[cookie] # None
  /\ keyWrap[cookie].key \in known[page[t]]
  /\ opens = keyWrap[cookie].opens
  /\ UNCHANGED cookie

PasskeyRoute(t, opens) ==
  \E c \in Wrapped(cookie) : Signs(t, c) /\ opens = wraps[cookie][c]

-----------------------------------------------------------------------------
(* Passkeys.                                                               *)

\* passkey_register_finish.
Register(c) ==
  /\ c \in unused
  /\ Owner(c) = cookie
  /\ passkeys' = passkeys \cup {c}
  /\ unused' = unused \ {c}
  /\ UNCHANGED <<encrypted, wraps, keyWrap, lingering, browser, ceremony, owner>>

\* Seeded fault: the limit is off by one.
IsLastWrap_OffByOne(a, c) ==
  a \in encrypted /\ wraps[a][c] # NoKey /\ Cardinality(Wrapped(a)) < 1

\* passkey_delete's refusal: it counts wrap rows.
IsLastWrap(a, c) ==
  a \in encrypted /\ wraps[a][c] # NoKey /\ Cardinality(Wrapped(a)) <= 1

\* passkey_delete: one transaction, on the account of the cookie.
DeletePasskey(c) ==
  /\ c \in passkeys
  /\ Owner(c) = cookie
  /\ ~IsLastWrap(cookie, c)
  /\ passkeys' = passkeys \ {c}
  /\ wraps' = [wraps EXCEPT ![cookie][c] = NoKey]
  /\ UNCHANGED <<encrypted, unused, keyWrap, lingering, browser, ceremony, owner>>

-----------------------------------------------------------------------------
(* Turning encryption on.                                                  *)

\* begin_enable, with a passkey or without: the keys are minted and shown, and
\* the server knows nothing yet.
BeginEnable(t, c) ==
  /\ ceremony[t] = Idle
  /\ plain[t]
  /\ IF c = None THEN UNCHANGED cookie ELSE Signs(t, c)
  /\ Mint
  /\ Become(t, [Idle EXCEPT !.kind = "enable", !.stage = "shown", !.target = c,
                  !.key = NewKey, !.opens = NewKey])
  /\ UNCHANGED <<server, page, plain, known, held, kept>>

\* Seeded fault: encrypted_at is not looked at, and the wraps are upserted.
CanEnable_Upsert(a, c) == TRUE

\* What encryption_enable refuses, and what a unique index would roll back.  The
\* passkey is not looked up.
CanEnable(a, c) ==
  /\ a \notin encrypted
  /\ c = None \/ wraps[a][c] = NoKey
  /\ keyWrap[a] = None

\* encryption_enable's transaction.
Enable(a, c, w) ==
  /\ encrypted' = encrypted \cup {a}
  /\ wraps' = IF c = None THEN wraps ELSE [wraps EXCEPT ![a][c] = w.opens]
  /\ keyWrap' = [keyWrap EXCEPT ![a] = w]

\* confirm_new_key and commit_enable.  enable_failed tells a user who gets no answer
\* to keep the key if the panel then says encryption is on, and a user who is
\* refused that the key is worth nothing.
ConfirmEnable(t) ==
  /\ At(t, {"enable"}, "shown")
  /\ LET r == ceremony[t]
         w == [key |-> r.key, opens |-> r.opens]
         a == page[t]
     IN \E arrives, answered \in BOOLEAN :
          /\ (arrives /\ answered) \/ RequestsGetLost
          /\ answered => arrives
          /\ IF arrives /\ CanEnable(cookie, r.target)
               THEN Enable(cookie, r.target, w)
               ELSE UNCHANGED <<encrypted, wraps, keyWrap>>
          /\ known' = [known EXCEPT ![a] = @ \cup {r.key}]
          /\ LET done == answered /\ CanEnable(cookie, r.target) IN
               /\ held' = IF done THEN [held EXCEPT ![a] = r.key] ELSE held
               /\ plain' = IF done THEN [plain EXCEPT ![t] = FALSE] ELSE plain
          /\ kept' = IF answered THEN kept ELSE [kept EXCEPT ![a] = r.key]
  /\ End(t)
  /\ UNCHANGED <<passkeys, unused, lingering, cookie, page, minted>>

-----------------------------------------------------------------------------
(* Giving a passkey a key.                                                 *)

\* add_passkey_key up to the open route: the wraps of the cookie's account do
\* not have the target yet, and another route opens.
BeginGive(t, c) ==
  /\ ceremony[t] = Idle
  /\ ~plain[t]
  /\ Owner(c) = page[t] /\ c \in passkeys
  /\ wraps[cookie][c] = NoKey
  /\ \E opens \in Keys :
       /\ KeyRoute(t, opens) \/ PasskeyRoute(t, opens)
       /\ Become(t, [Idle EXCEPT !.kind = "give", !.stage = "opened",
                       !.target = c, !.opens = opens])
  /\ UNCHANGED <<server, page, plain, owner>>

\* must_be_target: the target itself answers.
TargetSigns(t) ==
  /\ At(t, {"give"}, "opened")
  /\ Signs(t, ceremony[t].target)
  /\ Become(t, [ceremony[t] EXCEPT !.stage = "signed"])
  /\ UNCHANGED <<server, page, plain, owner>>

\* encryption_add_passkey_wrap, which has no transaction.  First, whose passkey
\* it is.
AddWrapFindsOwner(t) ==
  /\ At(t, {"give"}, "signed")
  /\ IF ceremony[t].target \in passkeys /\ Owner(ceremony[t].target) = cookie
       THEN Become(t, [ceremony[t] EXCEPT !.stage = "owned", !.me = cookie])
       ELSE End(t)
  /\ UNCHANGED <<server, browser, owner>>

\* Then whether the account is encrypted, and the passkey still has no wrap.
AddWrapFindsNone(t) ==
  /\ At(t, {"give"}, "owned")
  /\ LET r == ceremony[t] IN
       IF r.me \in encrypted /\ wraps[r.me][r.target] = NoKey
         THEN Become(t, [r EXCEPT !.stage = "keyless"])
         ELSE End(t)
  /\ UNCHANGED <<server, browser, owner>>

\* Then the insert, which a unique index refuses for a passkey that has a wrap.
AddWrapInserts(t) ==
  /\ At(t, {"give"}, "keyless")
  /\ LET r == ceremony[t] IN
       IF wraps[r.me][r.target] = NoKey
         THEN wraps' = [wraps EXCEPT ![r.me][r.target] = r.opens]
         ELSE UNCHANGED wraps
  /\ End(t)
  /\ UNCHANGED <<encrypted, passkeys, unused, keyWrap, lingering, browser, owner>>

-----------------------------------------------------------------------------
(* Re-issuing the encryption key.                                          *)

StartAttempt(t, kind, opens) ==
  /\ Mint
  /\ Become(t, [Idle EXCEPT !.kind = kind, !.stage = "first", !.key = NewKey,
                  !.opens = opens])

\* reissue_with, from the account page.
BeginReissue(t) ==
  /\ ceremony[t] = Idle
  /\ ~plain[t]
  /\ \E opens \in Keys :
       /\ KeyRoute(t, opens) \/ PasskeyRoute(t, opens)
       /\ StartAttempt(t, "panel", opens)
  /\ UNCHANGED <<server, page, plain, known, held, kept>>

\* unlock_with_typed_key: the prompt keeps the key and the wrap it opened.
BeginPrompt(t) ==
  /\ ceremony[t] = Idle
  /\ ~plain[t]
  /\ \E opens \in Keys :
       /\ KeyRoute(t, opens)
       /\ Become(t, [Idle EXCEPT !.kind = "prompt", !.stage = "offered", !.opens = opens])
  /\ UNCHANGED <<server, page, plain, owner>>

\* generate_new_key, on the route the prompt kept.
AcceptOffer(t) ==
  /\ At(t, {"prompt"}, "offered")
  /\ StartAttempt(t, "prompt", ceremony[t].opens)
  /\ UNCHANGED <<server, browser, known, held, kept>>

\* replace_encryption_key_wrap: one transaction, the same for an account that is
\* not encrypted; sending the stored wrap again changes nothing.
ReplaceKeyWrap(a, w) == keyWrap' = [keyWrap EXCEPT ![a] = w]

Sent(t) == [key |-> ceremony[t].key, opens |-> ceremony[t].opens]

\* An attempt at encryption_replace_key_wrap that is answered.
AttemptAnswered(t) ==
  /\ \/ At(t, {"panel", "prompt"}, "first")
     \/ At(t, {"panel", "prompt"}, "second")
  /\ ReplaceKeyWrap(cookie, Sent(t))
  /\ Become(t, [ceremony[t] EXCEPT !.stage = "stored"])
  /\ UNCHANGED <<encrypted, passkeys, unused, wraps, lingering, browser, owner>>

\* What becomes of a request that is not answered.
Unanswered(t) ==
  /\ RequestsGetLost
  /\ \/ UNCHANGED <<keyWrap, lingering>>
     \/ ReplaceKeyWrap(cookie, Sent(t)) /\ UNCHANGED lingering
     \/ /\ RequestsLinger
        /\ lingering' = lingering \cup {[to |-> cookie, wrap |-> Sent(t)]}
        /\ UNCHANGED keyWrap

\* store_encryption_key_wrap tries once more, with the same bytes.
FirstUnanswered(t) ==
  /\ At(t, {"panel", "prompt"}, "first")
  /\ Unanswered(t)
  /\ Become(t, [ceremony[t] EXCEPT !.stage = "second"])
  /\ UNCHANGED <<encrypted, passkeys, unused, wraps, browser, owner>>

\* Seeded fault: the user is told that the old key still works.
Doubt_KeepOld(a) == UNCHANGED <<held, kept>>

\* REISSUE_UNCONFIRMED: rely on neither.
Doubt(a) ==
  /\ held' = [held EXCEPT ![a] = NoKey]
  /\ kept' = [kept EXCEPT ![a] = NoKey]

\* The card forgets the new key; the prompt can try again.
SecondUnanswered(t) ==
  /\ At(t, {"panel", "prompt"}, "second")
  /\ Unanswered(t)
  /\ Doubt(page[t])
  /\ IF ceremony[t].kind = "panel" THEN End(t)
     ELSE Become(t, [ceremony[t] EXCEPT !.stage = "offered", !.key = NoKey])
  /\ UNCHANGED <<encrypted, passkeys, unused, wraps, browser, minted, known>>

\* The new key is shown, and the old one said to be dead.
ShowNewKey(t) ==
  /\ At(t, {"panel", "prompt"}, "stored")
  /\ known' = [known EXCEPT ![page[t]] = @ \cup {ceremony[t].key}]
  /\ held' = [held EXCEPT ![page[t]] = ceremony[t].key]
  /\ kept' = [kept EXCEPT ![page[t]] = NoKey]
  /\ End(t)
  /\ UNCHANGED <<server, browser, minted>>

\* A request arrives after its sender gave up on it.
LateArrival(q) ==
  /\ q \in lingering
  /\ lingering' = lingering \ {q}
  /\ ReplaceKeyWrap(q.to, q.wrap)
  /\ UNCHANGED <<encrypted, passkeys, unused, wraps, browser, ceremony, owner>>

-----------------------------------------------------------------------------
(* Tabs.                                                                   *)

\* The user cancels, or an assertion fails, while nothing has been sent.
Abandon(t) ==
  /\ ceremony[t].stage \in {"shown", "opened", "signed", "offered"}
  /\ End(t)
  /\ UNCHANGED <<server, browser, owner>>

\* A tab is loaded again: the page is of the cookie's account, and its probe
\* says whether that is encrypted.
Load(t) ==
  /\ ceremony[t] = Idle
  /\ page' = [page EXCEPT ![t] = cookie]
  /\ plain' = [plain EXCEPT ![t] = cookie \notin encrypted]
  /\ UNCHANGED <<server, cookie, ceremony, owner>>

\* Another tab signs somebody in.
SignIn(a) ==
  /\ CookieMoves
  /\ cookie' = a
  /\ UNCHANGED <<server, page, plain, ceremony, owner>>

Next ==
  \/ \E c \in Creds : Register(c) \/ DeletePasskey(c)
  \/ \E t \in Tabs :
       \/ \E c \in Creds \cup {None} : BeginEnable(t, c)
       \/ \E c \in Creds : BeginGive(t, c)
       \/ ConfirmEnable(t)
       \/ TargetSigns(t) \/ AddWrapFindsOwner(t) \/ AddWrapFindsNone(t) \/ AddWrapInserts(t)
       \/ BeginReissue(t) \/ BeginPrompt(t) \/ AcceptOffer(t)
       \/ AttemptAnswered(t) \/ FirstUnanswered(t) \/ SecondUnanswered(t) \/ ShowNewKey(t)
       \/ Abandon(t) \/ Load(t)
  \/ \E q \in lingering : LateArrival(q)
  \/ \E a \in Accounts : SignIn(a)

Spec == Init /\ [][Next]_vars

-----------------------------------------------------------------------------
(* What holds.                                                             *)

\* However deletions, enrolments and key ceremonies of several tabs interleave,
\* an account that has passkey wraps never loses its last one (the count inside
\* passkey_delete's transaction).
PasskeyWrapsNeverRunOut ==
  [][\A a \in encrypted : Wrapped(a) # {} => Wrapped(a)' # {}]_vars

\* What a's rows are sealed with: the data keys its wraps open.
DataKeys(a) ==
  {wraps[a][c] : c \in Wrapped(a)} \cup
  (IF keyWrap[a] = None THEN {} ELSE {keyWrap[a].opens})

\* Once an account is encrypted every way in leads to the same data key, for
\* ever: two tabs that both turn encryption on cannot replace it (the guard of
\* encryption_enable), and a new way in is always cut from an old one.
OneDataKeyForEver ==
  [][\A a \in encrypted : Cardinality(DataKeys(a)) = 1 /\ DataKeys(a)' = DataKeys(a)]_vars

\* Whether a tab waits for an answer about the encryption key of a's page.
Waiting(a) == \E t \in Tabs :
  page[t] = a /\ ceremony[t].stage \in {"first", "second", "stored"}

\* The encryption key a user was last told to rely on opens their account, even
\* when answers get lost: the retry sends the same bytes, and a user the program
\* cannot be sure about is told to rely on neither key.
HeldKeyOpens ==
  \A a \in encrypted : held[a] # NoKey /\ ~Waiting(a) => keyWrap[a].key = held[a]

-----------------------------------------------------------------------------
(* What the repository says and the code does not do; see the README.      *)

\* entry_key::store, replace_encryption_key_wrap: its idempotence is what makes
\* the client's retry safe (HeldKeyOpens, when the request a sender gave up on
\* may still arrive).
RetryIsSafe == HeldKeyOpens

\* flow.rs, store_encryption_key_wrap: either way the account ends up holding the
\* key the user is about to be shown.
ShownKeyIsTheAccounts ==
  [][\A t \in Tabs : At(t, {"panel", "prompt"}, "stored") /\ ceremony'[t] = Idle
       => keyWrap[page[t]].key = ceremony[t].key]_vars

\* flow.rs, reissue_with: a failed re-issue costs the user nothing: a passkey or
\* an encryption key they have seen still opens the account.
FailedReissueCostsNothing ==
  \A a \in encrypted : (\A t \in Tabs : page[t] = a => ceremony[t] = Idle) =>
    \/ keyWrap[a].key \in known[a]
    \/ Wrapped(a) \cap passkeys # {}

\* README.md: the last passkey that can unlock the entries is not removed.
LastPasskeyIsKept ==
  [][\A a \in encrypted : Wrapped(a) \cap passkeys # {} => (Wrapped(a) \cap passkeys)' # {}]_vars

\* encryption_panel.rs, enable_failed: if the panel says encryption is on, the key
\* just saved is the right one.
KeptKeyOpens ==
  \A t \in Tabs : LET a == page[t] IN
    kept[a] # NoKey /\ ~plain[t] /\ ~Waiting(a) => keyWrap[a].key = kept[a]

\* encryption.rs, encryption_add_passkey_wrap: an account that is not encrypted
\* has no wrap, a stranded blob that the next encryption_enable would trip over.
NoStrandedWrap == \A a \in Accounts \ encrypted : keyWrap[a] = None

=============================================================================
