# TLA+ models of the time tracker

The program keeps one text per day. A visitor who is signed out has it in
`localStorage`; an account has it on the server, sealed in the browser under a
data key the server never sees. Almost all that is hard about it follows from
that sentence: which account, which store and which key a keystroke is for is
decided in a tab whose cookie, key record and account can change at any await.

The models follow the code in `src/src/`. `PROJECT.json` maps each definition
to the lines it stands for.

## The system

| Component | State | Operations | Interacts through |
|---|---|---|---|
| `EncryptionCtx` (`encryption_ctx.rs`, `crypto/mod.rs`, `crypto/flow.rs`, `crypto/keystore.rs`, `components/unlock.rs`) | five-valued state with the key inside, a token counter, the re-probe latch; `Forgets`; one key record in IndexedDB | probe, retry, re-probe, unlock by passkey or typed key, enable, Lock now, sign out, sign in | the session cookie and the key record, shared by all tabs; `AuthCtx::user`, by effects |
| Key wraps (`server_fns/encryption.rs`, `entry_key/store.rs`, `server_fns/passkey.rs`, `passkey/store.rs`) | `entry_key_wrap`, `passkey_credential`, `user.encrypted_at` | enable, add a passkey wrap, replace the encryption-key wrap, register and delete passkeys | requests that carry the cookie; the ceremonies of `crypto/flow.rs` |
| `Persistent` and the storage seam (`storage/`) | the value on screen, a token counter; `localStorage` | load on a change of day, backend or key; save on each keystroke | spawned tasks; `EncryptionState::writes` |
| Entries on the server (`server_fns/entries.rs`, `entries/repo.rs`) | `time_entry` | load, save, dates and bodies of a range | requests; E9 reads `encrypted_at` in the save's transaction |
| Day and week (`app.rs`, `components/week_view.rs`) | the text or the totals on screen, a token counter each | navigation, the gate to set-up, the range read | signals and effects |
| Import banner (`components/import_banner.rs`, `storage/local.rs`) | what is offered; `localStorage` with the undated blob of an older version; the flag that the import is done | scan, offer, dismiss, import | the seam; the account's list of days |
| Account page (`components/encryption_panel.rs`, `components/account_page.rs`) | the card on screen, `busy`, the status line, `pending_enable`, the overview | turn on, confirm, lock, re-issue, give a key; add, remove, rename a passkey | `reload`, shared by its two halves; the page's state |
| Sessions (`session.rs`, `server_fns/session.rs`, `auth/middleware.rs`, `auth/user.rs`) | HMAC token with an epoch, `user.session_epoch` | issue, verify, log out, sign out everywhere | cookie |
| Magic links (`auth/magic_link.rs`, `auth/handler.rs`) | hashed one-time tokens | mint, consume, re-issue | email |
| Rate limiter (`rate_limit.rs`) | token buckets in memory | check by address of the caller and of the mail | the clock |
| Passkey ceremonies (`passkey/`, `server_fns/passkey.rs`) | state in a signed cookie; `passkey_credential` | start, finish, delete | cookie |

What is hard:

* **Interleaving at awaits.** A tab runs one thing at a time, but a probe, an
  unlock and a load are each several awaits long, and the user goes on clicking.
* **State the tabs share.** The cookie and the key record belong to the browser,
  the page to the account it was loaded for.
* **Requests.** They fail, their answers get lost after the commit, they arrive
  late, and two of them arrive in any order.
* **Transactions.** Most server operations are one; adding a wrap and signing in
  are not. A transaction that is one is deferred: it reads from a snapshot, and
  its first write is refused if somebody has written since.
* **Loops of effects.** A load that fails starts a probe whose answer starts a
  load.

What must hold, by component:

* the key of a page is of the account on the page; a page asked to forget its
  key forgets it; no page writes plaintext for an encrypted account; the state
  does not stay unknown (`EncryptionCtx`);
* only the newest of the overlapping loads of a view publishes (`Generation`);
* all ways into an account open one data key, for ever; the passkey wraps never
  run out; the key the user holds works (`KeyWraps`);
* the text on screen is of the day and store on screen, what was typed stays,
  the screen is what is stored, no day stays blank (`DayEditor`);
* the week on screen is the week in the store, and a row that does not open costs
  its day and one probe, no more (`WeekView`);
* an import gives up on no day it was offered before that day is in the account, and
  overwrites nothing the account was said to hold (`ImportBanner`);
* one ceremony at a time; a key that is shown once stays up until it is
  confirmed, encryption is turned on only with a key that was, and what the page
  says of the account is so (`AccountPage`);
* a link signs in once; a sign-out everywhere ends, for good, every session the account
  has at that moment, in a browser or in an answer on its way to one; a passkey is filed
  under the account it was made for (`SignIn`);
* nobody gets more mail, and no address more attempts, than a bucket yields
  (`RateLimit`).

## Modules

    LatestWins     abstract: of overlapping operations the newest may publish
    Generation     storage::Generation as its callers use it; implements it
    WeekView       the week view: a Generation, the range reads, the session
    PageSession    abstract: how the user, the state and the re-probe of a page move
    EncryptionCtx  the encryption state of the tabs of one browser; implements it
    KeyWraps       the ways into the data key, on the server and in ceremonies
    AccountPage    what /account shows and says of these, and when
    DayEditor      the day view: hook, seam, localStorage, entries
    ImportBanner   the entries of the device, and their copy into an account
    Sessions       abstract: whose session a browser has, and whether it is honoured
    SignIn         links, sessions, epochs, passkeys: database, cookies, requests;
                   implements it
    SessionToken   what the session's token says, and when it verifies
    RateLimit      the buckets in front of SignIn's operations, and the clock

`MC*` instantiate these for TLC. Each component's theorems are in a module of their
own, `WeekViewProofs` (which has `Generation`'s too), `EncryptionCtxProofs`,
`KeyWrapsProofs`, `AccountPageProofs`, `DayEditorProofs`, `ImportBannerProofs`,
`SignInProofs` and `RateLimitProofs`.

The modules meet at these seams. `WeekView` extends `Generation` and runs its actions as
part of its own: the week's totals are its signal, and the run of `WeekView` is where
the refinement is checked on a real caller. `EncryptionCtx`, `DayEditor`, `AccountPage`
and `ImportBanner` represent a token counter by *which operation holds the newest
token*; `ImplementsLatestWins` in `WeekViewProofs` is why that is enough. `DayEditor`
and `WeekView` represent the whole of `EncryptionCtx` by its five states, with Unknown
for "a probe is in flight" and Unlocked for "the key of the page's user";
`KeyOfPageUser` is why that key is that user's. `PageSession` is what the two sides have
in common: each page of `EncryptionCtx` implements it (`SessionsKept`), and the sessions
of `DayEditor` and `WeekView` take no step it does not have (`DaySessionKept`,
`WeekSessionKept`). They take fewer: a ceremony that ends in a page that says Unknown or
Unreachable, and the moment between a sign-out and its effect, are in `EncryptionCtx`
only. `EncryptionCtx` gives each account one data key for ever; `OneDataKey` in
`KeyWrapsProofs` is why. `EncryptionCtx`, `DayEditor` and the rest take the cookie to be
somebody's or nobody's: `SignIn` says whose, and which of them the server accepts, and
`Sessions` what that amounts to. `SignIn` leaves out the quotas, since a refused call
changes nothing; `RateLimit` counts what `SignIn` lets through.

The names ending in `_Something` next to an action (`Outranked_SameToken`) are
seeded faults: what the action would be with a plausible bug. Each property is
known to fail with one of them.

### EncryptionCtx

A page is a tab. A ceremony or probe of page `p` is a task in a slot
`task[p][t]`, and its `stage` is the await it is parked at; what the event loop
runs between two awaits is one action.

* `current[p]` is the task that holds the newest token of the page's
  `Generation`; `fresh` is `Forgets::still_current`.
* IndexedDB serves requests in any order (`ServeKeystore`), those of one page too: each
  call of `keystore` opens a connection first and its transaction after, and nothing
  orders a put against a delete (`encryption_ctx.rs:900-904`).
* A key is the account it is filed under *and* the account whose data it opens,
  so that a key in the wrong record is a state, not an impossibility.
* `effect[p]` says that `AuthCtx::user` has changed and the probe's effect has
  not run. The effect, and the first poll of a spawned future, come before the
  next click (`Settled`).

Left out: the expiry of cookies and the session epoch; more than one enable or
sign-in of one page at once (the forms are modal); `sealed_row_seen`, which the
gate makes dormant, as its own comment says and `SealedReportIsDormant` of
`WeekView` checks; `passkey_login_start`, folded into
the authenticator's answer. Requests that fail are requests whose answer is an
error.

### Generation and LatestWins

`Generation` has the counter, the token each operation captured, and the
disposal of the component, after which `try_update_value` yields 0, a token
never issued, and nothing is current. `LatestWins` has no numbers: a set of
running operations and the subset, at most one, that may publish.

### KeyWraps

The server's tables, the tabs of one browser, the requests whose sender has given up
on them (`lingering`), and what the users know: `known`, the encryption keys
shown to them; `held`, the one they were last told to rely on; `kept`, the one
they were told to keep if the page comes to say that encryption is on. Keys are
numbered as they are minted; turning encryption on mints an encryption key and a
data key with one number. Wrapping is exact: a wrap yields the data key it was
made of, to the key or passkey it was made for.

`encryption_add_passkey_wrap` is three steps (`AddWrapFindsOwner`,
`AddWrapFindsNone`, `AddWrapInserts`), since the code reads twice and writes
without a transaction; the operations that are one transaction are one step.
`reissue_with` is its two attempts, each of which may commit and lose its answer.
The fetch of the wraps and the opening of a route are one step; the lengths the
server checks and the PRF capability are not modelled.

### DayEditor

The variables are the world (`cookie`, `enabled`, `rows`, `local`), the page
(`user`, `session`, `reprobed`, `day`) and the hook (`shown`, `flight`).
`flight` holds the loads and saves on their way, with what they captured when
they were started: the day, the backend, the key. `current` marks the load that
may publish.

* `Reload` is the effect of `use_persistent`: outrank, blank, read. It runs when
  the day, the backend or the key's identity changes; `Publish` is where a
  change of state is one of identity and where it is not.
* `Keystroke` is `Persistent::set`: outrank, show, save with the day, backend
  and session of this moment. `Writes` decides whether the box takes it and
  `WriteTarget` whether it is stored: two functions in the code, and two here.
* Tasks on `localStorage` run in the order they were spawned; requests to the
  server have no order (`Served`).
* `Gated` holds from the moment `SetupGate` is mounted to its effect, which is
  next; other steps of the page wait for it.
* `amiss` remembers that a request has failed, has overtaken another, or has met
  another account's cookie. It is there for `ScreenIsStored` and guards nothing.

Left out: the undated legacy entry and midnight, which are `ImportBanner`'s; edits
of the same account in another tab, which nothing in the program reports to this
one. A body over the size limit is a save that fails.

### WeekView

One `WeekBody`, from its mount until it is left. `seen` is what the effect last ran
with, so `Due` says that it will run next; other steps of the page wait for it.
`Effect` is `Generation`'s `Begin` with the gate behind it: the token is taken
first, and a page that is asked to set encryption up reads nothing. `Serve` gives a
read what the rows and the captured key yield: a sealed row without a key is left
out and reported, a row that does not open is left out and reported differently,
an emptied day and one that does not parse are left out. `Arrive` publishes if the
token is the newest and acts on the two reports.

A row is one of five kinds; `garbled` is an envelope the codec refuses.
`amiss` excuses what the view cannot know: a failed request, a cookie of another
account, a save elsewhere after the read.

### SignIn

A request of a tab is the sequence of the accesses to the database that it makes
outside of one transaction, and `tab[t].stage` is the one it is about to make. A
transaction that reads and then writes is two steps: `readers` are the tabs whose
snapshot is still the newest, which `Commits` empties; the write of a tab that is
no longer in it is refused, as SQLite refuses it in WAL mode, and the request is
answered with an error. An answer may be lost (`Answer`): its cookies are not set.

The ceremony cookie is one per browser; `challenge` is the tab whose start it is
the answer to, which is what a WebAuthn challenge distinguishes. It is cleared by a
finish that fails and by a registration. A sign-in by passkey leaves it (`IssueSession`):
`set_cookie` inserts its header, so that of the two cookies that answer sets only the
session's is sent. A passkey is made by an authenticator for the account the tab asked
for (`maker`). Ids of passkey
rows are reused as SQLite does without AUTOINCREMENT: the largest plus one.
Everything that expires may do so at any moment.

`Sessions` knows neither epochs nor links nor passkeys. A request that is let in
(`Grant`) has an answer on its way; the answer arrives, and its browser has that
session (`Deliver`), or is lost; a session goes with its cookie (`SignOut`), or with
every other session and answer of its account (`OutEverywhere`). In `SignIn` an answer
on its way is a tab at `issuing`, and it and a cookie stand while their epoch is the
account's.

### RateLimit and SessionToken

Three limiters with a bucket per key. A bucket counts in ticks of the clock: a
tick of waiting is a tick of credit, a token costs what it takes to refill.
`StepBack` sets the clock back, `Restart` empties the maps, and a debug build
without `SESSION_KEY` then also makes a new key. `ReissueLink` is the click on a
spent link, which is charged under both addresses like a request; `SignIn` is the
anonymous ceremony, which shares the address bucket with the links; `StartCeremony`
is charged under its own only if the session is current.

### AccountPage

The two halves of `/account` and the server's rows. A ceremony of the panel is a
task: sent, then stored or refused, then told; `here` says that the panel that
started it is still mounted, because a spawned future runs on without it and its
signals are gone. `Screen` is the render match: a card is above the phase.
`fetch` is the newest load of the overview, in two reads. `AnotherDevice` is
everything another device of the account may do to the rows.
`saved`, `owed` and `missed` are history: the keys the user said they have, those
shown once and not yet confirmed, and whether something changed behind the page.

What a ceremony does with keys is `KeyWraps`'. Here a key is the number of the
ceremony that minted it.

### ImportBanner

The device is the days with a key of their own (`dated`) and the blob (`legacy`),
which stands in for today as long as today has none. The effect of the banner is a
run (`run`); a scan that is not of the newest run publishes nothing. `Listed` is
the account's list, for whoever the cookie is by then, or an error, which is read
as an empty list. A scan of the device may fail as well, and reads as a device that
holds nothing. An import reads its bodies at the click and saves them one by
one (`SaveRow`), each for the cookie of that moment; `Imported` settles the device
if the numbers agree. `settled` is history: the days of the device that setting the
flag gave up on, those turned down by the user excepted; "found" if a scan had found
them, "unread" if the scan had failed. `SettledIsSafe` speaks of the first,
`NoDayIsStranded`, which is violated, of both.

`TurnOn` is encryption turned on in another tab, on another device or on `/account`.
The page with the offer cannot do it in place: `SetupGate` takes it away. With the offer
up its session only unlocks and locks (`Unlock`), once its account is encrypted.

## Runs

| Run | Instance | Shows |
|---|---|---|
| `ctx_one_tab` | 2 accounts, 1 page, 2 tasks, fairness; sign-outs may be refused, the key store may fail | `TypeOK`; `LockedMeansEncrypted`: Locked is never claimed before the enabling transaction commits; `KeyIsOfPageUser`: whatever overlaps a change of account; `OnlyRefusalStrands`: no step but the refusal of a sign-out leaves "Checking this account" with nobody to answer it; `UnknownResolves`: it ends, unless that happens or the user reloads for ever; `PagesKeepSession`: the page implements `PageSession` |
| `ctx_two_tabs` | 2 accounts, one encrypted, 2 pages, 1 task each, pages symmetric; sign-outs may be refused, the key store may fail | `EncryptedAccountNeverDisabled` while the other tab replaces cookie and key record |
| `week_view` | 2 accounts, 2 days, 3 reads, 2 acts, failures, fairness | `OnlyTheNewestPublishes`: the week's counter implements `LatestWins`; `TotalsAreStored`; `LightWeekIsDoubted`; `SealedReportIsDormant`; `WeekSettles`; `WeekKeepsSession` |
| `wraps_two_tabs` | 1 account, 2 tabs, 2 passkeys, 3 keys, lost and late requests | `OneDataKeyForEver` |
| `wraps_two_accounts` | 2 accounts, 1 tab, 2 passkeys each, 2 keys, the cookie moves | `PasskeyWrapsNeverRunOut` |
| `wraps_reissue` | 1 account, 1 tab, 2 passkeys, 4 keys, lost answers | `HeldKeyOpens` |
| `day_editor` | 1 account, 2 days, 4 acts, 3 operations in flight, failures, the cookie moves, fairness | `TypeOK`, `ShownIsThisDays`, `TypedStands`, `ScreenIsStored`, `DaySettles`, `DayKeepsSession` |
| `sign_in` | 2 accounts, 2 tabs in one browser or in two, 2 links, 1 passkey, 1 sign-out everywhere per account | `OneSignInPerLink`; `OutEverywhereIsEverywhere`; `RevokedForGood`; `FiledUnderItsMaker`; `SessionsAreKept`: it implements `Sessions` |
| `rate_limit` | 2 addresses, 1 account, 1 session, times 0 to 3, 1 restart, the clock set back by 1 | `TypeOK`; `MailsBounded`; `GuessesBounded`; `QuotedWaitIsEnough` |
| `account_page` | 1 passkey that can derive a key, 1 that cannot, 2 row ids, 3 things begun | `OneCeremony`; `OwedKeyIsUp`; `EnabledKeyWasSaved`; `RefusalIsTrue`; `OverviewIsCurrent` |
| `import_banner` | 2 accounts, 2 days, 4 runs of the effect, 1 import, failing scans | `OfferIsForItsUser`; `SettledIsSafe`; `ListedRowsStay` |
| `import_clobbers` | the same, 3 runs | **violated**: `NoClobber` |

`SignIn`, `AccountPage`, `WeekView` and `ImportBanner` have type invariants too: no
run spends a property on them, they are proved. So are `OneMayPublish` and
`NoStaleOverwrite` of `Generation`, which say in numbers what `OnlyTheNewestPublishes`
says without. `NobodyStranded`, `DayIsRead` and `BlankIsReading`, the safety core of the
liveness properties, are proved and not run.

### Bounds

* `MaxTasks`, tasks of a page at once. The tokens, `Forgets` and the account checks each
  compare two moments of one task between which another acts, and two tasks are one of
  each kind against one of each. A third is another such pair: `KeyOfPageUser`,
  `OnlyRefusal` and `SessionsKept` hold for any number. Two accounts let the tab sign
  out of one and in to the other while a task of the first is on its way. With two pages
  one task each suffices for what passes through the cookie and the record.
* `MaxToken` 5 cuts nothing off in `week_view`: with 6 the states are the same, the
  counter gets no further than 5. Three reads are the one on screen, one outranked
  and the newest. Two acts are an unlock after a sign-in elsewhere, or a save and a
  sign-out; the probes and the reads that follow are not acts. The
  stored weeks hold each kind of row, a row that never opens before one that does.
* `MaxKeys` 3 is enable and two re-issues, or two enables that race and a
  re-issue; 4 lets both attempts of two re-issues fail. Two passkeys are the
  smallest number for which one can be the reason to let the other go.
* `MaxActs` counts what the user, the other tabs and other devices do in
  `DayEditor`; texts are numbered by it, so no two keystrokes type the same.
  Four is: unlock, type, leave, come back. What the server and the effects do
  is not bounded by it. `MaxFlight` 3 is a save, a load it outranked and the
  load that came after; both save and load reorderings happen within three. Two
  accounts with three acts were checked as well, with the same result.
* `OldDays` is one day, so that one day may hold text and another surely holds
  none.
* In `sign_in` two links race or one is spent in two tabs; a third tab would only
  be a second loser. One passkey and one row id are enough for two accounts to
  contend for both, and for an id to be used again. `MaxEpoch` 1 lets each account
  sign out everywhere once, which is what a sign-in under way can run into.
* In `rate_limit` a bucket of one token that takes two ticks has a partial refill,
  a full one and a cap within three ticks, and a session's token
  expires within them. The theorems hold for all these numbers.
* `MaxStarted` 3 in `account_page` counts what is *begun*, by the panel, the list or
  another device: an enable, one that comes through late, and what the other
  device does between them. Answers, failures, loads and probes are not counted.
* In `import_banner` the two days are today and tomorrow, so that midnight moves
  the blob. Four runs of the effect let a sign-out, a sign-in as somebody else and a
  navigation come between a scan and its list.

Deadlock is checked except in `day_editor` and `week_view`, where the user may
have done their `MaxActs` and everything has been answered.

### Fairness

`ctx_one_tab`: weak fairness of each page's effect and of each task's next step, which
may be an answer of IndexedDB. Effects are microtasks; IndexedDB and `fetch` call back
with a result or an error; a spawned future whose await has resolved is polled. The steps of a
user are outside of it: nobody is obliged to click, and a ceremony that waits for its
user (the authenticator, a key on screen) may wait for ever. `day_editor`: weak fairness
of `Answered`, the disjunction of what browser and server do by themselves. It is weaker
than fairness of each request: it only says that not everything stops at once; it is
enough because `flight` is bounded and `Answered` empties it. `week_view` has the same:
weak fairness of what the browser and the server do once they are asked.

`DaySettles` speaks of what becomes of the page when the user has stopped
acting, which they do after `MaxActs` acts; `WeekSettles` likewise. It
fails if a read that failed sets no totals, and if a row that does not open may
start a probe each time it is read (`MayReprobe_Always`): the latch `claim_reprobe`
is what ends that loop.

## Proofs

All theorems hold for arbitrary constants under the named assumptions of the modules:
`None` is not an account (nor a key, an answer or anything else it stands in for),
bounds are naturals, switches are Booleans, a week has some read to start and starts
from rows of the kinds there are, and the like, and bound the number of tasks, passkeys,
keys, days and requests by nothing. Five of them speak of one account only, because with
two they are false (the answer may be about the other): `LockedIsEncrypted`,
`OneDataKey`, `HeldKeyIsGood`, `ShownKeyIsGood` and `NothingStranded`. `HeldKeyIsGood`
and `ShownKeyIsGood` also assume one tab and no request that commits after its tab gave
it up, as the run of `HeldKeyOpens` does.

**EncryptionCtx.** `TypeCorrect` needs more than `TypeOK`: that a task at an
await carries what it needs for the step after it (`GoodTask`: a key wherever
one is stored, an account wherever one was asked for). `KeyOfPageUser` is not
inductive either: when the probe with the newest token resolves, it publishes
the key of *its* account. `KeyInv` adds that this probe was started for the
account now on the page, or the page has just signed out and the effect that
will outrank the probe is pending. It is a fact about one page, and `OtherPages` shows
once that a step of one page leaves the others alone.
`EncryptedNeverDisabled` adds `HonestInv`: what a probe
has been told about an account that was encrypted from the start is true, whichever
account it asked for (and an answer about another one is refused as such). `LockedIsEncrypted`
needs `ClaimInv`: before the first account is encrypted no task holds or waits for a
key, no answer says `on`, and no page speaks of encryption. `SessionsKept` is the
refinement of `PageSession`. Whether a step is one of its arrows depends on the state
the page is in when an answer arrives, and `ParkInv` says what that is: the holder of the
newest token has parked the page, a probe at Unknown, an unlock that waits for the key
store at Locked; a page that was just loaded has done nothing yet; and one that has
followed a sign-out is Disabled. Whatever takes a token parks the page anew or lets
go of it. `NobodyIsStranded` is the safety core of `UnknownResolves`: a signed-in page
that says "Checking this account" has its effect to run, a probe with the newest token,
or a sign-out under way, unless a sign-out was refused. `OnlyRefusal` says so of each
step, and that the refusal is the only exception: `signing_out` takes the token and
`logout`'s error publishes nothing (see `RefusedSignOutStrandsNobody` below). That step
is the one thing `OnlyRefusalStrands` and `UnknownResolves` excuse.

**Generation.** `GenInv`: tokens of running operations were issued and are
different. From it `AtMostOnePublishes`, `NothingStalePublished` (a finished
operation with the newest token has no younger one beside it) and
`ImplementsLatestWins`, by one step per action.

**WeekView.** `WeekIsGeneration`: every behaviour of the week is one of `Generation`, so
that what is proved there holds here (`WeekPublishesTheNewest`). A step of the week is
an action of `Generation` or leaves its variables alone; for the effect that needs
`RoomInv`, that when it is due one of the reads is free. `TotalsAreStored` and
`LightWeekIsDoubted` are read off `ReadInv`: what the read on screen, and the newest one
on its way, captured is what the effect last ran with (`SeenInv`), so that a key or a
store that changed since has the effect due; an answer is what its store held when it
was served, and still holds it unless `amiss` (`AnswerInv`); nobody but the user of the
page was read for (`OwnerInv`); and a row left out as unreadable was read with a key,
was reported, and is on screen only once the page has spent its re-probe (`ClosedInv`,
`ShownInv`). `BlankWeeksAreRead` is the safety core of `WeekSettles`: once the effect
has run, the week is blank exactly while the read with the newest token is on its way.
`SealedReportsAreDormant` is a fact about single steps and needs no invariant.

**KeyWraps.** `WrapsNeverRunOut` is a property of steps: every action but the
deletion keeps every wrap (`WrapsOnlyGrow`), and the deletion counts inside its
transaction (`DeletionKeepsOne`). It needs only types. `OneDataKey` is proved
for a browser in which nobody else signs in (`CookieMoves = FALSE`; with it set
the formula is false, see below). `OneKeyInv`: before the account is encrypted
there is no way in and no tab holds one; afterwards some `d` is what every wrap,
every request still on its way and every open route yields. `HeldKeyIsGood` adds
`HeldInv`: a key is relied on only of an encrypted account, and opens it unless an
attempt to replace it waits for its answer; an attempt that was answered is what the
server has. Between two attempts nothing may be held, which is why the panel takes
the promise back before it tries again.

Two formulas of the divergences below are proved where they do hold, which says what
each of them needs to go wrong. `ShownKeyIsGood`: with one account, one tab and no late
request, the key a re-issue shows is the account's (from `HeldInv`). `NothingStranded`:
with one account signed in, and any number of tabs, losses and late requests, no account
without encryption has an encryption-key wrap (from `OneKeyInv`, and the wraps of the
other accounts stay: `OthersKept`).

**AccountPage.** `TypeCorrect` needs that the key which is pending is one of the panel's
own ceremonies (`Types`). `CardInv` is why there is one ceremony and one card: `busy`
is up exactly while a ceremony of this panel runs, and the card on screen is that
ceremony's; while it runs nothing is owed, and what is owed or pending is on the card.
From it `OneCeremonyAtATime` and `OwedKeyStaysUp`. `NumInv` is about keys in flight: a
ceremony mints one key, which is at any time in one hand, the ceremony's, the
card's, or that of a request the page gave up on but the server may still serve. So a key
the server takes was saved before it was sent (`OnlySavedKeysAreEnabled`), and one
reported as refused is in nobody's hand and cannot come into force later
(`RefusalsStayTrue`). `ShownInv` says when the overview is current: unless a change was
`missed`, an answer is on its way that will make the page fetch again, or the page
takes encryption to be off when it is on, or the reverse. Its proof is one
trichotomy (`ShownStep`): a step fetches afresh, reads an answer, or leaves what was
fetched as good as it was.

**DayEditor.** `Hook` is the invariant the theorems share: at most one load
is current; it is of the day and the store on screen; and *while something is
shown no load is current*. The last conjunct is what `set`'s `begin_operation`
and the effect's blanking establish together, and it is why an arriving load
meets a blank day. `ShownBelongs` and `TypedTextStands` follow. For
`ScreenShowsStored`, `ScreenInv` says where the text on screen will be: in the newest
save of that day still on its way, or else in the storage (`WillHold`). It holds
because a load that has been read carries what is stored and has no save of its day
beside it (`Truthful`): saves older than the load have been served, or the load has
overtaken one and `amiss` says so; a younger one outranks it. That a box which can be
typed into sends what is typed (`Writes` and `write_target` agree) rests on the first
conjunct: only an account with encryption is ever unlocked. `DaySessionKept` needs types
and that a signed-out page is Disabled; so does `WeekSessionKept`. `BlankDaysAreRead` is
the safety core of `DaySettles`: a day that can be typed into and is blank has its
current load on its way, one that does not come back sealed. Whatever outranks a load
shows a text (`Keystroke`), leaves a day that cannot be read, or reads anew (`Coming`).

**ImportBanner.** `ScansInv`: at most one run of the effect waits for an answer,
and while the newest waits nothing is offered; a run that was outranked by another user's
publishes nothing (`OffersAreForTheirUser`). `OffersInv`: an offer, on the screen
or taken by an import, leaves out what its list had, which is `NoListedRowIsReplaced`. The code
compares numbers, `copied` and the size of the offer; `CountInv` says what the
number means: an import has counted no more saves than there are days of its offer
that it is done with and that have reached an account. A count that is full therefore
speaks of every day, and `SettledDaysAreSafe` follows by counting: of the days a scan
found. A scan that failed found none, and of the days it did not read the theorem says
nothing.

**RateLimit.** `Balance`, per bucket: what was handed out under the key, what is
left in the bucket and what the key would be credited if it were looked at now are
together at most one full bucket per start of the server and the time that passed,
the time the clock goes over again counted again. Charging a bucket moves credit
to the first term, `Tick` moves time to the third, `StepBack` takes from the third
what the second side is given, `Restart` adds a full bucket to the second side.
`MailsAreBounded` and `GuessesAreBounded` read off the first term;
`QuotedWaitSuffices` is the arithmetic of rounding up and needs types only.

**SignIn.** `Forward`: a step takes no user row, link or maker away and no epoch
back. What a request has read therefore stays true where it matters, and `Inv`
says what that is: no cookie, and no answer on its way, is ahead of its account's
epoch (`CookieOK`, `RequestOK`); a registration under way is of the account its
passkey is made for (`CeremonyOK`), and a row is filed under its passkey's maker
(`RowOK`). None of it asks that a ceremony cookie is gone when its ceremony is over.
`RevocationIsForGood` follows from the first with an epoch that only grows,
`PasskeysFiledUnderTheirMaker` from the last;
`LinkSignsInOnce` needs that no other step of a tab leads from reading to spent.
`SessionsImplemented` takes the same invariant to `Sessions`. An epoch read in an earlier
step is safe because nothing but a sign-out everywhere changes the epoch of an account
there is (`EpochsStay`); that one leaves behind every cookie and every answer of its
account, none of which is ahead of it (`LeftBehind`, which is `SignedOutEverywhere`;
a sign-in that reads the epoch afterwards is let in), and every other step leaves each
tab's answer and each browser's session as they were (`AnswerKept`, `SessionKept`), or is
one action of `Sessions` (`LetIn`, `Answered`, `CookieCleared`).

Only model-checked: liveness (`UnknownResolves`, `DaySettles`, `WeekSettles`), which is
out of the prover's reach. What each of them rests on is proved: nobody waits for
something that is not on its way. Every other property of a passing run is proved.

## Known divergences

One run records that the code does not do what the repository says; the finding
in `PROJECT.json` quotes the sentence.

* `import_clobbers`. The banner asks for the account's days once, when its effect
  runs. Another device writes a day after that; the import then saves this device's
  copy over it. With a list that failed to load, which is read as empty, every day
  of the account is offered.

The following formulas stand in the modules and are violated as well. To see the
trace, check the formula in the instance named.

* `RefusedSignOutStrandsNobody` (`EncryptionCtx`, 1 account, 1 page, 2 tasks,
  fairness, sign-out can fail). `signing_out` takes a token at the click, so a probe
  in flight no longer counts; if `logout` is then refused nothing starts another,
  and the page stays at "Checking this account". `encryption_ctx.rs:532-534` means
  to strand nobody.
* `LastPasskeyIsKept` (`KeyWraps`, 1 account, 2 tabs, 2 passkeys). A passkey is
  deleted between the reads and the insert of `encryption_add_passkey_wrap`. Its
  wrap stays, is counted by `passkey_delete`, and the last passkey that opens
  anything can be deleted. `README.md:248-250` of the repository says that the app
  refuses that.
* `TypedIsStored` (`DayEditor`, 1 account, 2 acts, no failures). Two keystrokes, two
  requests, no order: the older save can land last. The screen is right until the
  next load.
* `RowsOpenForTheirAccount` (`DayEditor`, 2 accounts, 3 acts, no failures). A tab
  whose day was loaded before another tab signed in as somebody else saves into the
  other account, under a key of its own. The re-probe that is meant to prevent it
  (`encryption_ctx.rs:708-712`) is triggered by a row that does not open, and no
  row is read.

* `SignedOutBrowserHoldsNoKey` (1 account, encrypted, 2 pages, 1 task). `Forgets`
  is per page: a ceremony of another tab puts its key after this tab's sign-out
  has cleared the store. With 1 page and 2 tasks it is violated too: an unlock begun
  between the clearing and the answer of `logout` stores its key, or one whose put was
  asked for before the forget is served after its delete, and the tab is loaded again
  before the unlock looks at the account (`encryption_ctx.rs:900-904`).
* `RecordOpensItsUsersRows` (2 accounts, encrypted, 2 pages, 1 task). The typed-key
  unlock fetches the wraps of the cookie's account and files what they open
  under the page's.
* `NoEncryptionClaimedThatIsNotThere` (2 accounts, 2 pages, 1 task).
  `encryption_enable` encrypts the cookie's account and answers with nothing;
  the page publishes Locked for its own. This is `LockedMeansEncrypted` with two
  accounts: it passes with one.
* `AssertionOnlyRefreshes` (1 account, encrypted, 2 tasks). An assertion finished
  after a sign-out signs the browser in again.
* `NoPlaintextWindowInEnable` (1 account, 1 task). Between commit and answer the
  page still says Disabled. `write_target` refuses what is typed then.
* `OutrankedCeremonyNeverUnlocks` (1 account, encrypted, 2 tasks). A ceremony that
  "Lock now" outranked before it reached `unlock` takes a new token there, and
  the page unlocks, though nothing is stored.
* `RetryIsSafe` (`KeyWraps`, 1 passkey, 3 keys, lost and lingering requests). A
  first attempt that arrives after a later re-issue restores the older wrap.
* `ShownKeyIsTheAccounts`, `NoStrandedWrap` (2 accounts, 1 passkey, 3 keys, the
  cookie moves). A replace request goes to the cookie's account: the page shows a
  key its account does not have, or an account without encryption gets a wrap
  that blocks a later enable. Neither happens while the cookie stays (`ShownKeyIsGood`,
  for one tab, and `NothingStranded`).
* `FailedReissueCostsNothing` (1 account, 1 passkey, 2 keys, lost answers). Both
  answers of a re-issue are lost after the commit: the new key was never shown
  and the old one opens nothing.
* `KeptKeyOpens` (1 account, 2 passkeys, 2 keys, lost answers). Enable is tried
  again on a page that does not know the first try committed; the advice then
  names the wrong key.
* `NoDayIsStranded` (`ImportBanner`, 1 account, 2 days). `dates_with_entries` fails for
  this device, which `unwrap_or_default` reads as no days (`import_banner.rs:137-139`);
  the empty offer marks the device done (`163-165`), and the days on it are never offered
  again. `import_banner.rs:60-66` says what that costs.
* `UnseenBlobStays` (`ImportBanner`, 2 days). Signed out, a text is typed ahead for
  tomorrow; after midnight it hides the blob (`legacy_stands_in_for`), and the next
  keystroke removes the blob, which nobody has seen on that day (`should_clear_legacy`).
  `local.rs:80-82` keeps it on other days so as not to "destroy data the user has not
  seen yet".
* `EmptyMeansEmpty` (`DayEditor`, 1 account, 2 acts, requests fail). A load that failed
  is shown as an empty day; `loaded_value` says so and gives its reason, and the
  module's claim is the reader's.

Read while modelling, and visible in the actions named:

* Sessions (`SpendLink`). `magic_link.rs:83-90` says that the loser of a race for a
  link reports `Stale`, which would send a new link. Its transaction is deferred and
  its snapshot is old by then, so SQLite refuses the write and the loser gets an
  error.
* Ceremony cookie (`IssueSession`). `passkey_login_finish` clears `__pk_state` and then
  sets the session with `insert_header` (`passkey.rs:11-19,284,372`), which replaces the
  first: the ceremony cookie stays until it expires or another ceremony starts.
* Passkeys (`InsertPasskey`, `UseRow`, `DeletePasskey`). Row ids are reused and
  `update_after_use` writes by id: an assertion found in one row may update the
  next passkey that got its id, and a list that is out of date removes or renames
  that one.
* Account page. The tick "I understand" survives a change of the words it stands
  beside, when the overview arrives and changes the route
  (`encryption_panel.rs:1158-1231`). The advice after an enable that was not
  answered, "nothing was changed and you can try again", is false when the request
  still comes through (`ServedLate`), and "the key you just saved is the right one"
  is false when another device has turned encryption on (`AnotherDevice`); the panel
  says neither of a request that was *refused*, which is `RefusalIsTrue`. The doc of
  `reload` says that the two halves of the page cannot disagree about the passkeys;
  they load separately, and one load may fail.
* Import (`Listed`, `SaveRow`, `Imported`). After a sign-out and a sign-in as
  somebody else in another tab, an offer made for one account is imported into the
  other. A failed import is offered again only when the banner is mounted again. The
  button stays live while an import runs, so a second click copies over what was
  typed since the first. The days offered end today and begin a year ago: others
  are never offered, and the device is marked done all the same.
* Legacy blob (`Store`, `Midnight`). The blob imported as one day is offered again
  as the next after a partial import and a midnight; a click after midnight imports
  none of the one it offered; a page that has loaded tomorrow and writes after
  midnight deletes a blob nobody has seen there; clearing today when there is only
  the blob changes nothing that lasts.
* Week (`Failed`, `Screen`, `MayReprobe`). A read that failed is an empty week, and
  a week read without a key while the state is Unknown looks empty. After the one
  re-probe of a page load, a second change of the cookie leaves a light week on
  screen.

## Not modelled

* WebCrypto, the wire formats, the encryption key's alphabet and checksum
  (`crypto/subtle.rs`, `crypto/wire.rs`, `crypto/encryption_key.rs`,
  `webauthn_browser.rs` but for how its refusals are reported): pure conversions
  without state. Wrapping and sealing are exact in the models.
* The parsing of a day's text into times and projects, its summary, formatting, the
  clipboard and the views that only render: functions of one text.
* Schema, transfer types, configuration, start-up, the mailer and the writing of
  cookies: I/O. A mail that is not delivered is a link that is in no inbox.
* The calendar: its load is `Generation`'s shape, its grid is layout.
* The map of buckets is never swept in the code; its memory is not counted.
* A link is spent before the account is found or made (`auth/handler.rs:28`): the
  model has the step and the failure between, and no property forbids it, since
  the code means it so.
