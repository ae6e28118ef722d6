---------------------------- MODULE EncryptionCtx ----------------------------
(***************************************************************************)
(* The encryption state of the open tabs of one browser: the probe, the    *)
(* unlock, enable and sign-in ceremonies, "Lock now" and sign-out, and     *)
(* what they share - the session cookie, the key record in IndexedDB and   *)
(* the account on the server.                                              *)
(*                                                                         *)
(* A tab is single-threaded, but every ceremony is several awaits long: a  *)
(* task of page p occupies a slot, and each of its stages is the await it  *)
(* is parked at.  What the event loop runs between two awaits is one       *)
(* action here.                                                            *)
(*                                                                         *)
(* Two counters of the code are modelled by what their comparisons can     *)
(* tell apart.  Generation: `current` is the slot of the task that holds   *)
(* the newest token, NoOne when no task in flight does (the module         *)
(* Generation proves this reading right).  Forgets: a task is `fresh`      *)
(* while its page has not been asked to forget its key since it began.     *)
(***************************************************************************)
EXTENDS Integers, Sequences, FiniteSets

CONSTANTS
  Users,             \* the accounts
  Pages,             \* the tabs of this browser that have the program open
  MaxTasks,          \* bound: ceremonies and probes one page has in flight
  None,              \* nobody, nothing
  EncryptedAlready,  \* the accounts encrypted before this browser came along
  SignOutCanFail,    \* whether a sign-out request can fail
  KeystoreCanFail    \* whether an IndexedDB request can fail

ASSUME UsersAssumption == None \notin Users /\ EncryptedAlready \subseteq Users
ASSUME TasksAssumption == MaxTasks \in Nat
ASSUME FailureAssumption == SignOutCanFail \in BOOLEAN /\ KeystoreCanFail \in BOOLEAN

Slots == 1..MaxTasks
NoOne == 0
Somebody == Users \cup {None}

EncryptionStates == {"Unknown", "Unreachable", "Disabled", "Locked", "Unlocked"}

\* A SessionKey: the account it is filed under, and the account whose data key
\* it really holds.  Every account has one data key for ever.
Keys == [user: Users, opens: Users]
ASSUME NoneAssumption == None \notin Keys

Kinds == {"none", "probe", "passkey", "typed", "enable", "signin", "signout", "lock"}
Stages == {"idle",                     \* the slot is free
           "asking", "told",           \* a server request, then its answer on the way
           "reading", "read",          \* keystore::get, then its answer
           "discarding", "discarded",  \* the delete inside keystore::get
           "asserting", "asserted",    \* the authenticator and passkey_login_finish
           "offered",                  \* the typed key worked; a new one is offered
           "showing",                  \* a new account's encryption key is on screen
           "storing", "stored",        \* keystore::put
           "leaving",                  \* sign-out clicked, its future not polled yet
           "clearing", "cleared"}      \* keystore::clear

Tasks == [kind: Kinds, stage: Stages,
          user: Somebody,     \* the account the page showed when the task began
          about: Somebody,    \* the account the server answered for
          on: BOOLEAN,        \* what it answered
          key: Keys \cup {None},
          fresh: BOOLEAN]     \* Forgets::still_current

Idle == [kind |-> "none", stage |-> "idle", user |-> None, about |-> None,
         on |-> FALSE, key |-> None, fresh |-> FALSE]

VARIABLES
  cookie,    \* whose session cookie the browser holds
  enabled,   \* the accounts whose encrypted_at is set
  record,    \* the record "dek" of the key store
  user,      \* AuthCtx::user
  state,     \* EncryptionCtx::state, and
  key,       \* the SessionKey inside Unlocked
  effect,    \* whether the effect on AuthCtx::user has yet to run
  reprobed,  \* whether the page load has spent its re-probe
  current,   \* the holder of the newest generation
  task       \* task[p][t]: what slot t of page p is doing

pageVars == <<user, state, key, effect, reprobed, current, task>>
vars == <<cookie, enabled, record, pageVars>>

TypeOK ==
  /\ cookie \in Somebody
  /\ enabled \subseteq Users
  /\ record \in Keys \cup {None}
  /\ user \in [Pages -> Somebody]
  /\ state \in [Pages -> EncryptionStates]
  /\ key \in [Pages -> Keys \cup {None}]
  /\ effect \in [Pages -> BOOLEAN]
  /\ reprobed \in [Pages -> BOOLEAN]
  /\ current \in [Pages -> Slots \cup {NoOne}]
  /\ task \in [Pages -> [Slots -> Tasks]]
  /\ \A p \in Pages : key[p] # None <=> state[p] = "Unlocked"

-----------------------------------------------------------------------------
(* Building blocks.                                                        *)

\* initial_state: a signed-out page needs no probe to know its answer.
InitialState(u) == IF u = None THEN "Disabled" ELSE "Unknown"

Init ==
  /\ cookie \in Somebody
  /\ enabled = EncryptedAlready
  /\ record = None
  /\ user = [p \in Pages |-> cookie]
  /\ state = [p \in Pages |-> InitialState(cookie)]
  /\ key = [p \in Pages |-> None]
  /\ effect = [p \in Pages |-> TRUE]
  /\ reprobed = [p \in Pages |-> FALSE]
  /\ current = [p \in Pages |-> NoOne]
  /\ task = [p \in Pages |-> [t \in Slots |-> Idle]]

\* A new task takes the lowest free slot.
Free(p, t) ==
  /\ task[p][t] = Idle
  /\ \A s \in Slots : s < t => task[p][s] # Idle

\* Effects run, and a spawned future is polled for the first time, before the
\* browser hands the page its next click.
Settled(p) == ~effect[p] /\ \A t \in Slots : task[p][t].stage # "leaving"

At(p, t, kinds, stage) == task[p][t].kind \in kinds /\ task[p][t].stage = stage

NewTask(kind, stage, u, fresh) ==
  [Idle EXCEPT !.kind = kind, !.stage = stage, !.user = u, !.fresh = fresh]

Become(p, t, r) == task' = [task EXCEPT ![p][t] = r]
Advance(p, t, stage) == Become(p, t, [task[p][t] EXCEPT !.stage = stage])

\* The future completes.  A token nobody holds any more is never presented.
End(p, t) ==
  /\ task' = [task EXCEPT ![p][t] = Idle]
  /\ current' = [current EXCEPT ![p] = IF @ = t THEN NoOne ELSE @]

\* Seeded fault: the key in a signal of its own, not reset with the state.
Publish_KeyBeside(p, s, k) ==
  /\ state' = [state EXCEPT ![p] = s]
  /\ key' = [key EXCEPT ![p] = IF k = None THEN @ ELSE k]

\* Every change of the state signal; the key rides in the variant.
Publish(p, s, k) ==
  /\ state' = [state EXCEPT ![p] = s]
  /\ key' = [key EXCEPT ![p] = k]

\* crypto::forget_device_key up to its await: Forgets::record, which outranks
\* every ceremony of this page, then the delete is asked for.
ForgetDeviceKey(p, t, r) ==
  /\ task' = [task EXCEPT ![p] = [s \in Slots |->
                IF s = t THEN [r EXCEPT !.stage = "clearing", !.fresh = FALSE]
                         ELSE [@[s] EXCEPT !.fresh = FALSE]]]

shared == <<cookie, enabled, record>>
publication == <<state, key>>
identity == <<user, effect, reprobed>>

-----------------------------------------------------------------------------
(* The probe.                                                              *)

\* Seeded fault: the token of the last request is kept.
StartProbe_NoToken(p, meanwhile) ==
  /\ Publish(p, IF user[p] = None THEN "Disabled" ELSE meanwhile, None)
  /\ \/ user[p] = None /\ UNCHANGED task
     \/ /\ user[p] # None
        /\ \E t \in Slots :
             Free(p, t) /\ Become(p, t, NewTask("probe", "asking", user[p], FALSE))
  /\ UNCHANGED current

\* start_probe: take a token, park the state, ask the server.
StartProbe(p, meanwhile) ==
  \/ /\ user[p] = None
     /\ current' = [current EXCEPT ![p] = NoOne]
     /\ Publish(p, "Disabled", None)
     /\ UNCHANGED task
  \/ /\ user[p] # None
     /\ \E t \in Slots :
          /\ Free(p, t)
          /\ current' = [current EXCEPT ![p] = t]
          /\ Become(p, t, NewTask("probe", "asking", user[p], FALSE))
     /\ Publish(p, meanwhile, None)

\* The effect on AuthCtx::user: once at mount, then whenever user is set.
RunEffect(p) ==
  /\ effect[p]
  /\ effect' = [effect EXCEPT ![p] = FALSE]
  /\ StartProbe(p, "Unknown")
  /\ UNCHANGED <<shared, user, reprobed>>

\* retry: the button an Unreachable page shows, and what SetupGate does on its
\* way to /account when the account looks unencrypted.
Retry(p) ==
  /\ Settled(p)
  /\ user[p] # None
  /\ state[p] \in {"Unreachable", "Disabled"}
  /\ StartProbe(p, "Unknown")
  /\ UNCHANGED <<shared, identity>>

\* unopenable_row_seen: a stored row this page's key does not open contradicts
\* Unlocked, and buys the one re-probe of a page load.
UnopenableRowSeen(p) ==
  /\ Settled(p)
  /\ user[p] # None
  /\ state[p] = "Unlocked"
  /\ ~reprobed[p]
  /\ reprobed' = [reprobed EXCEPT ![p] = TRUE]
  /\ StartProbe(p, "Unknown")
  /\ UNCHANGED <<shared, user, effect>>

\* The server reads an account for this page: the account of the session cookie,
\* whatever the page shows.  The request can fail on the way there or back.
ServerReads(p, t) ==
  /\ At(p, t, {"probe", "passkey", "typed", "signin"}, "asking")
  /\ \E answered \in BOOLEAN :
       Become(p, t, [task[p][t] EXCEPT !.stage = "told",
                       !.about = IF answered THEN cookie ELSE None,
                       !.on = answered /\ cookie \in enabled])
  /\ UNCHANGED <<shared, identity, publication, current>>

\* Seeded fault: an account that is not encrypted needs no further look.
ProbeAnswer_EnabledFirst(r) ==
  IF ~r.on /\ r.about # None THEN "NotEncrypted"
  ELSE IF r.about = r.user THEN "NeedsKey" ELSE "WrongAccount"

\* probe_answer: the account is compared before `enabled` is looked at.
ProbeAnswer(r) ==
  IF r.about # r.user THEN "WrongAccount"
  ELSE IF r.on THEN "NeedsKey" ELSE "NotEncrypted"

\* Seeded fault: is_current is not asked.
PublishIfCurrent_Anyway(p, t, s, k) == End(p, t) /\ Publish(p, s, k)

\* Only the newest request may publish.
PublishIfCurrent(p, t, s, k) ==
  /\ End(p, t)
  /\ IF current[p] = t THEN Publish(p, s, k) ELSE UNCHANGED publication

\* The status answer reaches the page.
ProbeTold(p, t) ==
  /\ At(p, t, {"probe"}, "told")
  /\ LET answer == ProbeAnswer(task[p][t]) IN
       \/ /\ answer = "WrongAccount"
          /\ PublishIfCurrent(p, t, "Unreachable", None)
       \/ /\ answer = "NotEncrypted"
          /\ PublishIfCurrent(p, t, "Disabled", None)
       \/ /\ answer = "NeedsKey"
          /\ Advance(p, t, "reading")
          /\ UNCHANGED <<publication, current>>
  /\ UNCHANGED <<shared, identity>>

\* Seeded fault: keystore::get hands out whatever record it finds.
ProbeRestored_AnyRecord(p, t) ==
  /\ At(p, t, {"probe"}, "read")
  /\ LET k == task[p][t].key IN
       PublishIfCurrent(p, t, IF k = None THEN "Locked" ELSE "Unlocked", k)
  /\ UNCHANGED <<shared, identity>>

\* SessionKey::restore returns, unless the record is another account's: then
\* keystore::get deletes it before it answers.
ProbeRestored(p, t) ==
  /\ \/ /\ At(p, t, {"probe"}, "read")
        /\ LET k == task[p][t].key IN
             \/ /\ k = None
                /\ PublishIfCurrent(p, t, "Locked", None)
             \/ /\ k # None /\ k.user = task[p][t].user
                /\ PublishIfCurrent(p, t, "Unlocked", k)
             \/ /\ k # None /\ k.user # task[p][t].user
                /\ Become(p, t, [task[p][t] EXCEPT !.stage = "discarding", !.key = None])
                /\ UNCHANGED <<publication, current>>
     \/ /\ At(p, t, {"probe"}, "discarded")
        /\ PublishIfCurrent(p, t, "Locked", None)
  /\ UNCHANGED <<shared, identity>>

-----------------------------------------------------------------------------
(* EncryptionCtx::unlock, which every in-page ceremony ends in.            *)

\* What is left of unlock once the account has been compared.
UnlockStores(p, t, k) ==
  /\ current' = [current EXCEPT ![p] = t]
  /\ Publish(p, "Locked", None)
  /\ Become(p, t, [task[p][t] EXCEPT !.stage = "storing", !.key = k])

UnlockUnremembered(p, t, k) ==
  /\ current' = [current EXCEPT ![p] = NoOne]
  /\ Publish(p, "Unlocked", k)
  /\ Become(p, t, Idle)

\* Up to its await.  A key of an account that has left is dropped.  Otherwise
\* the page is Locked while the key store is written; a ceremony outranked by a
\* forget writes nothing, does not wait, and still unlocks the page.
Unlock(p, t, k) ==
  \/ /\ k.user # user[p]
     /\ End(p, t)
     /\ UNCHANGED publication
  \/ k.user = user[p] /\ task[p][t].fresh /\ UnlockStores(p, t, k)
  \/ k.user = user[p] /\ ~task[p][t].fresh /\ UnlockUnremembered(p, t, k)

InPage == {"passkey", "typed", "enable"}

\* After its await: the account is compared again, and then the token.
UnlockStored(p, t) ==
  /\ At(p, t, InPage, "stored")
  /\ LET k == task[p][t].key IN
       \/ /\ k.user # user[p]
          /\ ForgetDeviceKey(p, t, [task[p][t] EXCEPT !.key = None])
          /\ UNCHANGED <<publication, current>>
       \/ /\ k.user = user[p]
          /\ PublishIfCurrent(p, t, "Unlocked", k)
  /\ UNCHANGED <<shared, identity>>

-----------------------------------------------------------------------------
(* The unlock prompt: a passkey, or the typed encryption key.              *)

StartUnlock(p, kind) ==
  /\ Settled(p)
  /\ user[p] # None
  /\ state[p] = "Locked"
  /\ \E t \in Slots : Free(p, t) /\ Become(p, t, NewTask(kind, "asking", user[p], TRUE))
  /\ UNCHANGED <<shared, identity, publication, current>>

\* The wraps arrive, and the authenticator is asked for the page's account.
PasskeyTold(p, t) ==
  /\ At(p, t, {"passkey"}, "told")
  /\ \/ task[p][t].about = None /\ End(p, t)
     \/ task[p][t].about # None /\ Advance(p, t, "asserting") /\ UNCHANGED current
  /\ UNCHANGED <<shared, identity, publication>>

\* The user's gesture, and passkey_login_finish: the server verifies the
\* assertion and issues a session cookie for the account of the passkey.
AuthenticatorSigns(p, t) ==
  /\ At(p, t, {"passkey", "enable", "signin"}, "asserting")
  /\ cookie' = task[p][t].user
  /\ IF task[p][t].kind = "signin"
       THEN Become(p, t, [task[p][t] EXCEPT !.stage = "asking", !.fresh = TRUE])
       ELSE Advance(p, t, "asserted")
  /\ UNCHANGED <<enabled, record, identity, publication, current>>

\* choose_route and the unwrap: the passkey's secret opens the wrap of its own
\* credential only, when it gave a secret and the wraps include one.
PasskeyOpens(p, t) ==
  /\ At(p, t, {"passkey"}, "asserted")
  /\ LET u == task[p][t].user IN
       \/ End(p, t) /\ UNCHANGED publication
       \/ /\ task[p][t].on /\ task[p][t].about = u
          /\ Unlock(p, t, [user |-> u, opens |-> u])
  /\ UNCHANGED <<shared, identity>>

\* The typed key opens the wrap the server sent, whoever's it is; the key is
\* filed under the page's account, and waits for the user's answer to the offer.
\* The prompt keeps one such key: another submission replaces it.
TypedKeyOpens(p, t) ==
  /\ At(p, t, {"typed"}, "told")
  /\ \/ End(p, t)
     \/ /\ task[p][t].on
        /\ LET r == task[p][t]
               k == [user |-> r.user, opens |-> r.about]
           IN  task' = [task EXCEPT ![p] = [s \in Slots |->
                 IF s = t THEN [r EXCEPT !.stage = "offered", !.about = None,
                                  !.on = FALSE, !.key = k]
                 ELSE IF @[s].stage = "offered" THEN Idle ELSE @[s]]]
        /\ UNCHANGED current
  /\ UNCHANGED <<shared, identity, publication>>

\* skip_reissue, or "I've saved it" on the re-issued key.
OfferAnswered(p, t) ==
  /\ Settled(p)
  /\ At(p, t, {"typed"}, "offered")
  /\ state[p] = "Locked"
  /\ Unlock(p, t, task[p][t].key)
  /\ UNCHANGED <<shared, identity>>

-----------------------------------------------------------------------------
(* Turning encryption on.                                                  *)

\* turn_on, by the route with a passkey or the one without.
StartEnable(p, first) ==
  /\ Settled(p)
  /\ user[p] # None
  /\ state[p] = "Disabled"
  /\ \A t \in Slots : task[p][t].kind # "enable"
  /\ \E t \in Slots : Free(p, t) /\ Become(p, t, NewTask("enable", first, user[p], TRUE))
  /\ UNCHANGED <<shared, identity, publication, current>>

EnableKeyShown(p, t) ==
  /\ At(p, t, {"enable"}, "asserted")
  /\ Advance(p, t, "showing")
  /\ UNCHANGED <<shared, identity, publication, current>>

\* confirm_new_key, up to the request.
ConfirmNewKey(p, t) ==
  /\ Settled(p)
  /\ At(p, t, {"enable"}, "showing")
  /\ Advance(p, t, "asking")
  /\ UNCHANGED <<shared, identity, publication, current>>

\* encryption_enable: one transaction, on the account of the cookie.  The answer
\* can be lost after it has committed.
ServerEnables(p, t) ==
  /\ At(p, t, {"enable"}, "asking")
  /\ \/ /\ cookie \in Users \ enabled
        /\ enabled' = enabled \cup {cookie}
        /\ \E delivered \in BOOLEAN :
             Become(p, t, [task[p][t] EXCEPT !.stage = "told", !.about = cookie,
                             !.on = delivered])
     \/ Advance(p, t, "told") /\ UNCHANGED enabled
  /\ UNCHANGED <<cookie, record, identity, publication, current>>

\* Seeded fault: the key is published before the answer is looked at.
EnableTold_BeforeAnswer(p, t) ==
  /\ At(p, t, {"enable"}, "told")
  /\ LET u == task[p][t].user IN Unlock(p, t, [user |-> u, opens |-> u])
  /\ UNCHANGED <<shared, identity>>

\* The data key the ceremony made is the one the server's account now has.
EnableTold(p, t) ==
  /\ At(p, t, {"enable"}, "told")
  /\ LET r == task[p][t] IN
       \/ ~r.on /\ End(p, t) /\ UNCHANGED publication
       \/ r.on /\ Unlock(p, t, [user |-> r.user, opens |-> r.about])
  /\ UNCHANGED <<shared, identity>>

-----------------------------------------------------------------------------
(* Forgetting the key: "Lock now" and sign-out.                            *)

\* lock, up to its await; offered in Unlocked only.
LockNow(p) ==
  /\ Settled(p)
  /\ user[p] # None
  /\ state[p] = "Unlocked"
  /\ current' = [current EXCEPT ![p] = NoOne]
  /\ Publish(p, "Locked", None)
  /\ \E t \in Slots : /\ Free(p, t)
                      /\ ForgetDeviceKey(p, t, NewTask("lock", "clearing", user[p], FALSE))
  /\ UNCHANGED <<shared, identity>>

\* sign_out at the click: signing_out takes a token and publishes nothing.
SignOut(p) ==
  /\ Settled(p)
  /\ user[p] # None
  /\ current' = [current EXCEPT ![p] = NoOne]
  /\ \E t \in Slots : Free(p, t) /\ Become(p, t, NewTask("signout", "leaving", user[p], FALSE))
  /\ UNCHANGED <<shared, identity, publication>>

\* The future of sign_out is polled for the first time.
SignOutForgets(p, t) ==
  /\ At(p, t, {"signout"}, "leaving")
  /\ ForgetDeviceKey(p, t, task[p][t])
  /\ UNCHANGED <<shared, identity, publication, current>>

\* Seeded fault: a sign-out that could not forget the key gives up.
Cleared_GivesUp(p, t) ==
  /\ At(p, t, Kinds, "cleared")
  /\ End(p, t)
  /\ UNCHANGED <<shared, identity, publication>>

\* forget_device_key returns; for sign-out, logout() is next, whatever became
\* of the key.
Cleared(p, t) ==
  /\ At(p, t, Kinds, "cleared")
  /\ IF task[p][t].kind = "signout"
       THEN Advance(p, t, "asking") /\ UNCHANGED current
       ELSE End(p, t)
  /\ UNCHANGED <<shared, identity, publication>>

\* logout answers with the empty cookie, or the request fails.
ServerEndsSession(p, t) ==
  /\ At(p, t, {"signout"}, "asking")
  /\ \/ /\ cookie' = None
        /\ Become(p, t, [task[p][t] EXCEPT !.stage = "told", !.on = TRUE])
     \/ /\ SignOutCanFail
        /\ Advance(p, t, "told")
        /\ UNCHANGED cookie
  /\ UNCHANGED <<enabled, record, identity, publication, current>>

\* auth.user.set(None), which unmounts the prompt and the panel; or the error
\* is shown and the page stays as it is.
SignOutTold(p, t) ==
  /\ At(p, t, {"signout"}, "told")
  /\ IF task[p][t].on
       THEN /\ user' = [user EXCEPT ![p] = None]
            /\ effect' = [effect EXCEPT ![p] = TRUE]
            /\ task' = [task EXCEPT ![p] = [s \in Slots |->
                 IF s = t \/ @[s].stage \in {"offered", "showing"} THEN Idle ELSE @[s]]]
       ELSE Become(p, t, Idle) /\ UNCHANGED <<user, effect>>
  /\ UNCHANGED <<shared, reprobed, publication, current>>

-----------------------------------------------------------------------------
(* Loading a page, signing in, and the rest of the world.                  *)

\* A navigation ends every task of the page; the new document carries the
\* address of the cookie.
Load(p, u) ==
  /\ user' = [user EXCEPT ![p] = u]
  /\ Publish(p, InitialState(u), None)
  /\ effect' = [effect EXCEPT ![p] = TRUE]
  /\ reprobed' = [reprobed EXCEPT ![p] = FALSE]
  /\ current' = [current EXCEPT ![p] = NoOne]
  /\ task' = [task EXCEPT ![p] = [t \in Slots |-> Idle]]

Reload(p) == Load(p, cookie) /\ UNCHANGED shared

\* A magic link is followed in this tab.
SignInByLink(p, u) ==
  /\ cookie' = u
  /\ Load(p, u)
  /\ UNCHANGED <<enabled, record>>

\* run_passkey_login, with a passkey of u; from a signed-out page.
StartSignIn(p, u) ==
  /\ Settled(p)
  /\ user[p] = None
  /\ \A t \in Slots : task[p][t].kind # "signin"
  /\ \E t \in Slots : Free(p, t) /\ Become(p, t, NewTask("signin", "asserting", u, FALSE))
  /\ UNCHANGED <<shared, identity, publication, current>>

\* unlock_after_sign_in: the account is the server's view of the cookie, and the
\* passkey's secret opens its own account's wrap only; then the page reloads.
SignInTold(p, t) ==
  /\ At(p, t, {"signin"}, "told")
  /\ UNCHANGED shared
  /\ LET r == task[p][t] IN
       \/ Load(p, cookie)
       \/ /\ r.on /\ r.about = r.user /\ r.fresh
          /\ Become(p, t, [r EXCEPT !.stage = "storing",
                             !.key = [user |-> r.about, opens |-> r.user]])
          /\ UNCHANGED <<identity, publication, current>>

SignInStored(p, t) ==
  /\ At(p, t, {"signin"}, "stored")
  /\ Reload(p)

\* The user dismisses the authenticator's prompt, or leaves the screen with the
\* key on it.
Abandon(p, t) ==
  /\ Settled(p)
  /\ task[p][t].stage \in {"asserting", "offered", "showing"}
  /\ End(p, t)
  /\ UNCHANGED <<shared, identity, publication>>

\* A task at one of these stages waits for IndexedDB.
Requesting == {"storing", "reading", "clearing", "discarding"}

\* IndexedDB serves what the tasks wait for in any order: keystore opens a connection
\* first and its transaction after, and nothing orders the puts, reads and deletes of one
\* page or of two.  A read that fails is a read that finds nothing.
ServeKeystore(p, t) ==
  \E served \in BOOLEAN :
    /\ served \/ KeystoreCanFail
    /\ \/ /\ task[p][t].stage = "storing"
          /\ record' = IF served THEN task[p][t].key ELSE record
          /\ Advance(p, t, "stored")
       \/ /\ task[p][t].stage = "reading"
          /\ Become(p, t, [task[p][t] EXCEPT !.stage = "read",
                             !.key = IF served THEN record ELSE None])
          /\ UNCHANGED record
       \/ /\ task[p][t].stage \in {"clearing", "discarding"}
          /\ record' = IF served THEN None ELSE record
          /\ Advance(p, t, IF task[p][t].stage = "clearing" THEN "cleared"
                                                             ELSE "discarded")
    /\ UNCHANGED <<cookie, enabled, identity, publication, current>>

\* Another device of the same user turns encryption on.
EnabledElsewhere(u) ==
  /\ enabled' = enabled \cup {u}
  /\ UNCHANGED <<cookie, record, pageVars>>

-----------------------------------------------------------------------------
\* What program, browser and server do by themselves once they have been asked.
TaskStep(p, t) ==
  \/ ServeKeystore(p, t)
  \/ ServerReads(p, t) \/ ServerEnables(p, t) \/ ServerEndsSession(p, t)
  \/ ProbeTold(p, t) \/ ProbeRestored(p, t)
  \/ PasskeyTold(p, t) \/ PasskeyOpens(p, t) \/ TypedKeyOpens(p, t)
  \/ EnableKeyShown(p, t) \/ EnableTold(p, t) \/ UnlockStored(p, t)
  \/ SignOutForgets(p, t) \/ Cleared(p, t) \/ SignOutTold(p, t)
  \/ SignInTold(p, t) \/ SignInStored(p, t)

\* What the user does.
UserStep(p) ==
  \/ Reload(p) \/ Retry(p) \/ LockNow(p) \/ SignOut(p)
  \/ StartUnlock(p, "passkey") \/ StartUnlock(p, "typed")
  \/ StartEnable(p, "asserting") \/ StartEnable(p, "showing")
  \/ \E u \in Users : SignInByLink(p, u) \/ StartSignIn(p, u)
  \/ \E t \in Slots : \/ AuthenticatorSigns(p, t) \/ OfferAnswered(p, t)
                      \/ ConfirmNewKey(p, t) \/ Abandon(p, t)

Next ==
  \/ \E p \in Pages : \/ RunEffect(p) \/ UnopenableRowSeen(p) \/ UserStep(p)
                      \/ \E t \in Slots : TaskStep(p, t)
  \/ \E u \in Users : EnabledElsewhere(u)

Spec == Init /\ [][Next]_vars

\* Effects run, IndexedDB serves each request, calls of the server end in an answer or an
\* error; users and other devices owe nothing.
Fairness ==
  \A p \in Pages : /\ WF_vars(RunEffect(p))
                   /\ \A t \in Slots : WF_vars(TaskStep(p, t))

FairSpec == Spec /\ Fairness

-----------------------------------------------------------------------------
(* What holds.                                                             *)

\* A page never uses a key filed under an account it does not show, however its
\* ceremonies, probes and sign-outs overlap (the account checks of
\* EncryptionCtx::unlock and keystore::get, and the tokens).  Between
\* auth.user.set(None) and the effect it triggers the old key is still there.
KeyIsOfPageUser ==
  \A p \in Pages : state[p] = "Unlocked" =>
    \/ key[p].user = user[p]
    \/ user[p] = None /\ effect[p]

\* A page of an account that was encrypted before it was opened never offers to
\* write plaintext, even when another tab has replaced the cookie (the order of
\* the comparisons in probe_answer, and the Locked that unlock parks at).
EncryptedAccountNeverDisabled ==
  \A p \in Pages : user[p] \in EncryptedAlready => state[p] # "Disabled"

\* Locked and Unlocked are claims about the server: with one account, or one tab, no page
\* makes them before the transaction that encrypts the account has committed.
LockedMeansEncrypted ==
  \A p \in Pages : state[p] \in {"Locked", "Unlocked"} /\ user[p] # None
                    => user[p] \in enabled

Session(p) == INSTANCE PageSession WITH
  Accounts <- Users, user <- user[p], state <- state[p], reprobed <- reprobed[p]

\* Every page keeps what PageSession promises its views: once it has followed a sign-out it
\* is Disabled and stays so until it is loaded again, whatever is still on its way; it falls
\* back to Disabled or Unreachable only by asking; and a key is doubted once in a page load.
PagesKeepSession ==
  /\ \A p \in Pages : Session(p)!Init
  /\ [][\A p \in Pages : Session(p)!Next \/ UNCHANGED <<user[p], state[p], reprobed[p]>>]_vars

\* The ceremonies that owe a page at "Checking this account" its answer: the probe with the
\* newest token, and a sign-out, which ends the session or is refused.
Answering(p, t) ==
  \/ task[p][t].kind = "probe" /\ current[p] = t
  \/ task[p][t].kind = "signout"

Stranded(p) ==
  /\ user[p] # None /\ state[p] = "Unknown" /\ ~effect[p]
  /\ \A t \in Slots : ~Answering(p, t)

\* A page is left at "Checking this account" by a refused sign-out alone: every other step
\* that takes the token away from a probe answers in its stead (start_probe, unlock, lock,
\* signing_out).
OnlyRefusalStrands ==
  [][\A p \in Pages : Stranded(p)' /\ ~Stranded(p) =>
       \E t \in Slots : SignOutTold(p, t) /\ ~task[p][t].on]_vars

\* So nobody is stranded where sign-out cannot be refused.
NobodyStranded == SignOutCanFail \/ \A p \in Pages : ~Stranded(p)

\* The user of page p loads it again for ever.
ReloadsForEver(p) == []<><<Reload(p) \/ \E u \in Users : SignInByLink(p, u)>>_vars

Refused(p) == \E t \in Slots : At(p, t, {"signout"}, "told") /\ ~task[p][t].on

\* "Checking this account" ends, unless a sign-out is refused meanwhile or the user keeps
\* reloading; a page that a refusal has stranded already is left out, and OnlyRefusalStrands
\* says that there is no other way to get there (start_probe, and whatever outranks it).
UnknownResolves ==
  \A p \in Pages :
    \/ ReloadsForEver(p)
    \/ (state[p] = "Unknown" /\ ~Stranded(p)) ~> (state[p] # "Unknown" \/ Refused(p))

-----------------------------------------------------------------------------
(* What the repository says and the code does not do; see the README.      *)

\* encryption_ctx.rs, signing_out: a refused sign-out strands no session on a value that
\* nothing re-runs to correct.
RefusedSignOutStrandsNobody ==
  \A p \in Pages : ReloadsForEver(p) \/ (state[p] = "Unknown") ~> (state[p] # "Unknown")

\* auth_ctx.rs, sign_out: a browser that is signed out holds no usable data key.
SignedOutBrowserHoldsNoKey ==
  (/\ cookie = None
   /\ \A p \in Pages : user[p] = None /\ \A t \in Slots : task[p][t] = Idle)
  => record = None

\* keystore.rs, get_from: the key stored for one account is never handed to
\* another, so the record must open the rows of the account it is filed under.
RecordOpensItsUsersRows == record # None => record.user = record.opens

\* encryption_ctx.rs, lock: Locked is not published for an account that is not
\* encrypted (LockedMeansEncrypted of two accounts in two tabs).
NoEncryptionClaimedThatIsNotThere == LockedMeansEncrypted

\* flow.rs, assert_with_prf: finishing an unlock or enable assertion only
\* refreshes the session.
AssertionOnlyRefreshes ==
  [][\A p \in Pages, t \in Slots :
       At(p, t, InPage, "asserting") /\ At(p, t, InPage, "asserted")' => cookie' = cookie]_vars

\* encryption_panel.rs, confirm_new_key: there is no stretch of time in which the
\* server considers the account encrypted while the page still says Disabled.
NoPlaintextWindowInEnable ==
  \A p \in Pages, t \in Slots :
    At(p, t, {"enable"}, "told") /\ task[p][t].about = user[p] => state[p] # "Disabled"

\* encryption_ctx.rs, unlock: a ceremony that "Lock now" or sign-out outranked
\* does not unlock the page a moment later.
OutrankedCeremonyNeverUnlocks ==
  [][\A p \in Pages, t \in Slots :
       task[p][t].kind \in InPage /\ task'[p][t] = Idle
       /\ state[p] # "Unlocked" /\ state'[p] = "Unlocked" => task[p][t].fresh]_vars

=============================================================================
