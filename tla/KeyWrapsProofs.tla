---------------------------- MODULE KeyWrapsProofs ----------------------------
(***************************************************************************)
(* Proofs about KeyWraps: its types, that passkey wraps never run out, and *)
(* for one account in the browser that every way into it leads to one data *)
(* key for ever, that the encryption key its owner holds is good, and that *)
(* no wrap is sent astray.                                                 *)
(***************************************************************************)
EXTENDS KeyWraps, FiniteSetTheorems, TLAPS

\* The parts of TypeOK.
ServerOK ==
  /\ encrypted \subseteq Accounts
  /\ passkeys \subseteq Creds /\ unused \subseteq Creds
  /\ wraps \in [Accounts -> [Creds -> Keys \cup {NoKey}]]
  /\ keyWrap \in [Accounts -> KeyWrap \cup {None}]
  /\ lingering \subseteq [to: Accounts, wrap: KeyWrap]

BrowserOK ==
  /\ cookie \in Accounts
  /\ page \in [Tabs -> Accounts]
  /\ plain \in [Tabs -> BOOLEAN]

CeremoniesOK == ceremony \in [Tabs -> Ceremonies]

OwnerOK ==
  /\ minted \in 0..MaxKeys
  /\ known \in [Accounts -> SUBSET Keys]
  /\ held \in [Accounts -> Keys \cup {NoKey}]
  /\ kept \in [Accounts -> Keys \cup {NoKey}]

\* Past "shown", a ceremony of a kind that carries an open route has one; a
\* ceremony that sends a wrap has minted its key.
Carries(r) ==
  /\ r.kind # "none" => r.opens \in Keys
  /\ r.kind = "enable" \/ r.stage \in {"first", "second", "stored"} => r.key \in Keys
  /\ r.kind = "give" => r.target \in Creds
  /\ r.stage \in {"owned", "keyless"} => r.kind = "give" /\ r.me \in Accounts
  /\ r.kind = "none" => r = Idle

CarriesOK == \A t \in Tabs : Carries(ceremony[t])

TypeInv == ServerOK /\ BrowserOK /\ CeremoniesOK /\ OwnerOK /\ CarriesOK

LEMMA TypeInvTypes == TypeInv => TypeOK
  BY DEF TypeInv, TypeOK, ServerOK, BrowserOK, CeremoniesOK, OwnerOK

-----------------------------------------------------------------------------
(* Ceremonies.                                                             *)

LEMMA IdleOK == Idle \in Ceremonies /\ Carries(Idle)
<1>1. Idle \in Ceremonies
  BY DEF Idle, Ceremonies, Kinds, Stages
<1>2. Carries(Idle)
  BY DEF Idle, Carries
<1> QED
  BY <1>1, <1>2

\* Putting a well-formed ceremony into a tab keeps them all well-formed.
LEMMA BecomeOK ==
  ASSUME TypeInv, NEW t \in Tabs, NEW r \in Ceremonies, Carries(r), Become(t, r)
  PROVE  CeremoniesOK' /\ CarriesOK'
<1>1. CeremoniesOK'
  BY DEF TypeInv, CeremoniesOK, Become
<1>2. \A u \in Tabs : ceremony'[u] = IF u = t THEN r ELSE ceremony[u]
  BY DEF TypeInv, CeremoniesOK, Become
<1>3. CarriesOK'
  BY <1>2 DEF TypeInv, CarriesOK, Carries
<1> QED
  BY <1>1, <1>3

LEMMA EndOK ==
  ASSUME TypeInv, NEW t \in Tabs, End(t)
  PROVE  CeremoniesOK' /\ CarriesOK'
  BY BecomeOK, IdleOK DEF End

\* A ceremony that moves on keeps what it carries.
LEMMA AdvanceOK ==
  ASSUME TypeInv, NEW t \in Tabs, NEW s \in Stages, ceremony[t] # Idle,
         s \in {"owned", "keyless"} => ceremony[t].kind = "give" /\ ceremony[t].me \in Accounts,
         s \in {"first", "second", "stored"} => ceremony[t].key \in Keys,
         Become(t, [ceremony[t] EXCEPT !.stage = s])
  PROVE  CeremoniesOK' /\ CarriesOK'
<1> DEFINE r == [ceremony[t] EXCEPT !.stage = s]
<1>0. ceremony[t] \in Ceremonies /\ Carries(ceremony[t])
  BY DEF TypeInv, CeremoniesOK, CarriesOK
<1>1. r \in Ceremonies
  BY <1>0 DEF Ceremonies
<1>2. /\ r.kind = ceremony[t].kind /\ r.opens = ceremony[t].opens
      /\ r.key = ceremony[t].key /\ r.target = ceremony[t].target
      /\ r.me = ceremony[t].me /\ r.stage = s
  BY <1>0 DEF Ceremonies
<1>3. Carries(r)
  BY <1>0, <1>2 DEF Carries
<1> QED
  BY <1>1, <1>3, BecomeOK

LEMMA SentOK ==
  ASSUME TypeInv, NEW t \in Tabs, ceremony[t].stage \in {"first", "second"},
         ceremony[t].kind # "none"
  PROVE  Sent(t) \in KeyWrap
<1>1. ceremony[t].key \in Keys /\ ceremony[t].opens \in Keys
  BY DEF TypeInv, CarriesOK, Carries
<1> QED
  BY <1>1 DEF Sent, KeyWrap

\* The state parts depend on nothing but their own variables.
LEMMA Frames ==
  /\ ServerOK /\ UNCHANGED server => ServerOK'
  /\ BrowserOK /\ UNCHANGED browser => BrowserOK'
  /\ OwnerOK /\ UNCHANGED owner => OwnerOK'
  /\ CeremoniesOK /\ CarriesOK /\ UNCHANGED ceremony => CeremoniesOK' /\ CarriesOK'
  BY DEF ServerOK, BrowserOK, OwnerOK, CeremoniesOK, CarriesOK, Carries, server, browser, owner

LEMMA TypeInvPrime ==
  ASSUME ServerOK', BrowserOK', OwnerOK', CeremoniesOK' /\ CarriesOK'
  PROVE  TypeInv'
  BY DEF TypeInv

\* An assertion leaves a cookie of an account.
LEMMA SignsOK ==
  ASSUME TypeInv, NEW t \in Tabs, cookie' \in {cookie, page[t]}, UNCHANGED <<page, plain>>
  PROVE  BrowserOK'
  BY DEF TypeInv, BrowserOK

\* The keys a ceremony can mint.
LEMMA MintOK ==
  ASSUME TypeInv, Mint
  PROVE  NewKey \in Keys /\ minted' \in 0..MaxKeys
  BY BoundsAssumption DEF TypeInv, OwnerOK, Mint, NewKey, Keys

-----------------------------------------------------------------------------
(* The types, action by action.                                            *)

LEMMA InitTypeInv == Init => TypeInv
<1> SUFFICES ASSUME Init
             PROVE  TypeInv
  OBVIOUS
<1>1. ServerOK /\ BrowserOK
  BY DEF Init, ServerOK, BrowserOK
<1>2. OwnerOK
  BY BoundsAssumption DEF Init, OwnerOK
<1>3. CeremoniesOK /\ CarriesOK
  BY IdleOK DEF Init, CeremoniesOK, CarriesOK
<1> QED
  BY <1>1, <1>2, <1>3 DEF TypeInv

\* What the server does on its own, or for a passkey.
LEMMA PasskeysTypeInv ==
  ASSUME TypeInv, NEW c \in Creds, Register(c) \/ DeletePasskey(c)
  PROVE  TypeInv'
<1>1. ServerOK'
  <2>1. CASE Register(c)
    BY <2>1 DEF TypeInv, ServerOK, Register
  <2>2. CASE DeletePasskey(c)
    BY <2>2 DEF TypeInv, ServerOK, BrowserOK, DeletePasskey, browser
  <2> QED
    BY <2>1, <2>2
<1>2. UNCHANGED <<browser, ceremony, owner>>
  BY DEF Register, DeletePasskey
<1> QED
  BY <1>1, <1>2, Frames, TypeInvPrime DEF TypeInv

LEMMA LateArrivalTypeInv ==
  ASSUME TypeInv, NEW q \in lingering, LateArrival(q)
  PROVE  TypeInv'
<1>1. q.to \in Accounts /\ q.wrap \in KeyWrap
  BY DEF TypeInv, ServerOK
<1>2. ServerOK'
  BY <1>1 DEF TypeInv, ServerOK, LateArrival, ReplaceKeyWrap
<1>3. UNCHANGED <<browser, ceremony, owner>>
  BY DEF LateArrival
<1> QED
  BY <1>2, <1>3, Frames, TypeInvPrime DEF TypeInv

LEMMA TabsTypeInv ==
  ASSUME TypeInv, (\E t \in Tabs : Load(t)) \/ (\E a \in Accounts : SignIn(a))
  PROVE  TypeInv'
<1>1. BrowserOK'
  BY DEF TypeInv, BrowserOK, Load, SignIn
<1>2. UNCHANGED <<server, ceremony, owner>>
  BY DEF Load, SignIn
<1> QED
  BY <1>1, <1>2, Frames, TypeInvPrime DEF TypeInv

LEMMA EnableTypeInv ==
  ASSUME TypeInv, NEW t \in Tabs, ConfirmEnable(t)
  PROVE  TypeInv'
<1> DEFINE r == ceremony[t]
           w == [key |-> r.key, opens |-> r.opens]
<1>0. r.key \in Keys /\ r.opens \in Keys /\ w \in KeyWrap /\ r.target \in Creds \cup {None}
  BY DEF TypeInv, CeremoniesOK, CarriesOK, Carries, Ceremonies, ConfirmEnable, At, KeyWrap
<1>1. ServerOK'
  <2>1. UNCHANGED <<passkeys, unused, lingering>>
    BY DEF ConfirmEnable
  <2>2. CASE UNCHANGED <<encrypted, wraps, keyWrap>>
    BY <2>1, <2>2 DEF TypeInv, ServerOK
  <2>3. CASE Enable(cookie, r.target, w)
    <3>1. encrypted' \subseteq Accounts
      BY <2>3 DEF TypeInv, ServerOK, BrowserOK, Enable
    <3>2. wraps' \in [Accounts -> [Creds -> Keys \cup {NoKey}]]
      BY <1>0, <2>3 DEF TypeInv, ServerOK, BrowserOK, Enable
    <3>3. keyWrap' \in [Accounts -> KeyWrap \cup {None}]
      BY <1>0, <2>3 DEF TypeInv, ServerOK, BrowserOK, Enable
    <3> QED
      BY <2>1, <3>1, <3>2, <3>3 DEF TypeInv, ServerOK
  <2> QED
    BY <2>2, <2>3 DEF ConfirmEnable
<1>2. BrowserOK'
  <2>1. UNCHANGED <<cookie, page>>
    BY DEF ConfirmEnable
  <2>2. plain' = plain \/ plain' = [plain EXCEPT ![t] = FALSE]
    BY DEF ConfirmEnable
  <2> QED
    BY <2>1, <2>2 DEF TypeInv, BrowserOK
<1>3. OwnerOK'
  <2>1. page[t] \in Accounts
    BY DEF TypeInv, BrowserOK
  <2>2. UNCHANGED minted /\ known' = [known EXCEPT ![page[t]] = @ \cup {r.key}]
    BY DEF ConfirmEnable
  <2>3. held' = held \/ held' = [held EXCEPT ![page[t]] = r.key]
    BY DEF ConfirmEnable
  <2>4. kept' = kept \/ kept' = [kept EXCEPT ![page[t]] = r.key]
    BY DEF ConfirmEnable
  <2>5. known' \in [Accounts -> SUBSET Keys]
    BY <1>0, <2>1, <2>2 DEF TypeInv, OwnerOK
  <2>6. held' \in [Accounts -> Keys \cup {NoKey}] /\ kept' \in [Accounts -> Keys \cup {NoKey}]
    BY <1>0, <2>1, <2>3, <2>4 DEF TypeInv, OwnerOK
  <2> QED
    BY <2>2, <2>5, <2>6 DEF TypeInv, OwnerOK
<1>4. CeremoniesOK' /\ CarriesOK'
  BY EndOK DEF ConfirmEnable
<1> QED
  BY <1>1, <1>2, <1>3, <1>4, TypeInvPrime

\* The ceremonies' first steps: nothing but the cookie, the counter and the
\* ceremony itself changes.
LEMMA FirstStepsTypeInv ==
  ASSUME TypeInv, NEW t \in Tabs,
         \/ \E c \in Creds \cup {None} : BeginEnable(t, c)
         \/ \E c \in Creds : BeginGive(t, c)
         \/ BeginReissue(t) \/ BeginPrompt(t) \/ AcceptOffer(t)
  PROVE  TypeInv'
<1>1. ServerOK' /\ UNCHANGED <<page, plain, known, held, kept>>
  BY Frames, ZenonT(60) DEF TypeInv, BeginEnable, BeginGive, BeginReissue, BeginPrompt,
                            AcceptOffer, browser, owner
<1>2. cookie' \in {cookie, page[t]}
  BY DEF BeginEnable, BeginGive, BeginReissue, BeginPrompt, AcceptOffer, browser,
         KeyRoute, PasskeyRoute, Signs
<1>3. BrowserOK'
  BY <1>1, <1>2, SignsOK
<1>4. OwnerOK'
  <2>1. UNCHANGED minted \/ Mint
    BY DEF BeginEnable, BeginGive, BeginReissue, BeginPrompt, AcceptOffer, StartAttempt, owner
  <2>2. minted' \in 0..MaxKeys
    BY <2>1, MintOK DEF TypeInv, OwnerOK
  <2> QED
    BY <1>1, <2>2 DEF TypeInv, OwnerOK
<1>5. CeremoniesOK' /\ CarriesOK'
  <2>1. CASE \E c \in Creds \cup {None} : BeginEnable(t, c)
    <3>1. PICK c \in Creds \cup {None} : BeginEnable(t, c)
      BY <2>1
    <3> DEFINE r == [Idle EXCEPT !.kind = "enable", !.stage = "shown", !.target = c,
                       !.key = NewKey, !.opens = NewKey]
    <3>2. NewKey \in Keys
      BY <3>1, MintOK DEF BeginEnable
    <3>3. r \in Ceremonies /\ Carries(r)
      BY <3>2 DEF Idle, Ceremonies, Kinds, Stages, Carries
    <3> QED
      BY <3>1, <3>3, BecomeOK DEF BeginEnable
  <2>2. CASE \E c \in Creds : BeginGive(t, c)
    <3>1. PICK c \in Creds, opens \in Keys :
            Become(t, [Idle EXCEPT !.kind = "give", !.stage = "opened", !.target = c,
                         !.opens = opens])
      BY <2>2 DEF BeginGive
    <3> DEFINE r == [Idle EXCEPT !.kind = "give", !.stage = "opened", !.target = c,
                       !.opens = opens]
    <3>2. r \in Ceremonies /\ Carries(r)
      BY DEF Idle, Ceremonies, Kinds, Stages, Carries
    <3> QED
      BY <3>1, <3>2, BecomeOK
  <2>3. CASE BeginPrompt(t)
    <3>1. PICK opens \in Keys :
            Become(t, [Idle EXCEPT !.kind = "prompt", !.stage = "offered", !.opens = opens])
      BY <2>3 DEF BeginPrompt
    <3> DEFINE r == [Idle EXCEPT !.kind = "prompt", !.stage = "offered", !.opens = opens]
    <3>2. r \in Ceremonies /\ Carries(r)
      BY DEF Idle, Ceremonies, Kinds, Stages, Carries
    <3> QED
      BY <3>1, <3>2, BecomeOK
  <2>4. ASSUME NEW kind \in {"panel", "prompt"}, NEW opens \in Keys,
               StartAttempt(t, kind, opens)
        PROVE  CeremoniesOK' /\ CarriesOK'
    <3> DEFINE r == [Idle EXCEPT !.kind = kind, !.stage = "first", !.key = NewKey,
                       !.opens = opens]
    <3>1. NewKey \in Keys
      BY <2>4, MintOK DEF StartAttempt
    <3>2. r \in Ceremonies /\ Carries(r)
      BY <3>1 DEF Idle, Ceremonies, Kinds, Stages, Carries
    <3> QED
      BY <2>4, <3>2, BecomeOK DEF StartAttempt
  <2>5. CASE BeginReissue(t)
    BY <2>4, <2>5 DEF BeginReissue
  <2>6. CASE AcceptOffer(t)
    <3>1. ceremony[t].opens \in Keys
      BY <2>6 DEF TypeInv, CarriesOK, Carries, AcceptOffer, At
    <3> QED
      BY <2>4, <2>6, <3>1 DEF AcceptOffer
  <2> QED
    BY <2>1, <2>2, <2>3, <2>5, <2>6
<1> QED
  BY <1>1, <1>3, <1>4, <1>5, TypeInvPrime

LEMMA GiveTypeInv ==
  ASSUME TypeInv, NEW t \in Tabs,
         TargetSigns(t) \/ AddWrapFindsOwner(t) \/ AddWrapFindsNone(t) \/ AddWrapInserts(t)
  PROVE  TypeInv'
<1> DEFINE r == ceremony[t]
<1>0. /\ r \in Ceremonies /\ Carries(r) /\ r # Idle /\ r.kind = "give"
      /\ r.opens \in Keys /\ r.target \in Creds
  BY DEF TypeInv, CeremoniesOK, CarriesOK, Carries, Idle, At, TargetSigns,
         AddWrapFindsOwner, AddWrapFindsNone, AddWrapInserts
<1>1. OwnerOK'
  BY Frames DEF TypeInv, TargetSigns, AddWrapFindsOwner, AddWrapFindsNone, AddWrapInserts
<1>2. BrowserOK'
  <2>1. cookie' \in {cookie, page[t]} /\ UNCHANGED <<page, plain>>
    BY DEF TargetSigns, AddWrapFindsOwner, AddWrapFindsNone, AddWrapInserts, Signs, browser
  <2> QED
    BY <2>1, SignsOK
<1>3. ServerOK'
  <2>1. CASE UNCHANGED server
    BY <2>1, Frames DEF TypeInv
  <2>2. CASE AddWrapInserts(t)
    <3>1. r.me \in Accounts
      BY <1>0, <2>2 DEF Carries, AddWrapInserts, At
    <3>2. wraps' \in [Accounts -> [Creds -> Keys \cup {NoKey}]]
      BY <1>0, <2>2, <3>1 DEF AddWrapInserts, TypeInv, ServerOK
    <3> QED
      BY <2>2, <3>2 DEF AddWrapInserts, TypeInv, ServerOK
  <2> QED
    BY <2>1, <2>2 DEF TargetSigns, AddWrapFindsOwner, AddWrapFindsNone
<1>4. CeremoniesOK' /\ CarriesOK'
  <2>1. CASE End(t)
    BY <2>1, EndOK
  <2>2. CASE TargetSigns(t)
    BY <1>0, <2>2, AdvanceOK DEF TargetSigns, Stages
  <2>3. CASE AddWrapFindsOwner(t) /\ ~End(t)
    <3> DEFINE n == [r EXCEPT !.stage = "owned", !.me = cookie]
    <3>1. cookie \in Accounts
      BY DEF TypeInv, BrowserOK
    <3>2. /\ n.kind = r.kind /\ n.opens = r.opens /\ n.key = r.key /\ n.target = r.target
          /\ n.me = cookie /\ n.stage = "owned"
      BY <1>0 DEF Ceremonies
    <3>3. n \in Ceremonies /\ Carries(n)
      BY <1>0, <3>1, <3>2 DEF Ceremonies, Carries, Stages
    <3> QED
      BY <2>3, <3>3, BecomeOK DEF AddWrapFindsOwner
  <2>4. CASE AddWrapFindsNone(t) /\ ~End(t)
    <3>1. r.me \in Accounts
      BY <1>0, <2>4 DEF Carries, AddWrapFindsNone, At
    <3> QED
      BY <1>0, <2>4, <3>1, AdvanceOK DEF AddWrapFindsNone, Stages
  <2> QED
    BY <2>1, <2>2, <2>3, <2>4 DEF AddWrapInserts
<1> QED
  BY <1>1, <1>2, <1>3, <1>4, TypeInvPrime

LEMMA AttemptsTypeInv ==
  ASSUME TypeInv, NEW t \in Tabs,
         AttemptAnswered(t) \/ FirstUnanswered(t) \/ SecondUnanswered(t)
  PROVE  TypeInv'
<1> DEFINE r == ceremony[t]
<1>0. /\ r \in Ceremonies /\ Carries(r) /\ r # Idle /\ r.kind \in {"panel", "prompt"}
      /\ r.stage \in {"first", "second"} /\ r.key \in Keys /\ r.opens \in Keys
  BY DEF TypeInv, CeremoniesOK, CarriesOK, Carries, Idle, At, AttemptAnswered,
         FirstUnanswered, SecondUnanswered
<1>1. cookie \in Accounts /\ page[t] \in Accounts /\ Sent(t) \in KeyWrap
  BY <1>0 DEF TypeInv, BrowserOK, Sent, KeyWrap
<1>2. BrowserOK'
  BY Frames DEF TypeInv, AttemptAnswered, FirstUnanswered, SecondUnanswered
<1>3. ServerOK'
  <2>1. UNCHANGED <<encrypted, passkeys, unused, wraps>>
    BY DEF AttemptAnswered, FirstUnanswered, SecondUnanswered
  <2>2. keyWrap' = keyWrap \/ keyWrap' = [keyWrap EXCEPT ![cookie] = Sent(t)]
    BY DEF AttemptAnswered, FirstUnanswered, SecondUnanswered, Unanswered, ReplaceKeyWrap
  <2>3. lingering' = lingering \/ lingering' = lingering \cup {[to |-> cookie, wrap |-> Sent(t)]}
    BY DEF AttemptAnswered, FirstUnanswered, SecondUnanswered, Unanswered
  <2>4. keyWrap' \in [Accounts -> KeyWrap \cup {None}]
    BY <1>1, <2>2 DEF TypeInv, ServerOK
  <2>5. lingering' \subseteq [to: Accounts, wrap: KeyWrap]
    BY <1>1, <2>3 DEF TypeInv, ServerOK
  <2> QED
    BY <2>1, <2>4, <2>5 DEF TypeInv, ServerOK
<1>4. OwnerOK'
  <2>1. UNCHANGED <<minted, known>>
    BY DEF AttemptAnswered, FirstUnanswered, SecondUnanswered, owner
  <2>2. /\ held' = held \/ held' = [held EXCEPT ![page[t]] = NoKey]
        /\ kept' = kept \/ kept' = [kept EXCEPT ![page[t]] = NoKey]
    BY DEF AttemptAnswered, FirstUnanswered, SecondUnanswered, Doubt, owner
  <2>3. held' \in [Accounts -> Keys \cup {NoKey}] /\ kept' \in [Accounts -> Keys \cup {NoKey}]
    BY <1>1, <2>2 DEF TypeInv, OwnerOK
  <2> QED
    BY <2>1, <2>3 DEF TypeInv, OwnerOK
<1>5. CeremoniesOK' /\ CarriesOK'
  <2>1. CASE AttemptAnswered(t)
    BY <1>0, <2>1, AdvanceOK DEF AttemptAnswered, Stages
  <2>2. CASE FirstUnanswered(t)
    BY <1>0, <2>2, AdvanceOK DEF FirstUnanswered, Stages
  <2>3. CASE SecondUnanswered(t)
    <3>1. CASE End(t)
      BY <3>1, EndOK
    <3>2. CASE Become(t, [r EXCEPT !.stage = "offered", !.key = NoKey])
      <4> DEFINE n == [r EXCEPT !.stage = "offered", !.key = NoKey]
      <4>1. /\ n.kind = r.kind /\ n.opens = r.opens /\ n.key = NoKey /\ n.target = r.target
            /\ n.me = r.me /\ n.stage = "offered"
        BY <1>0 DEF Ceremonies
      <4>2. n \in Ceremonies /\ Carries(n)
        BY <1>0, <4>1 DEF Ceremonies, Carries, Stages
      <4> QED
        BY <3>2, <4>2, BecomeOK
    <3> QED
      BY <2>3, <3>1, <3>2 DEF SecondUnanswered
  <2> QED
    BY <2>1, <2>2, <2>3
<1> QED
  BY <1>2, <1>3, <1>4, <1>5, TypeInvPrime

LEMMA LastStepsTypeInv ==
  ASSUME TypeInv, NEW t \in Tabs, ShowNewKey(t) \/ Abandon(t)
  PROVE  TypeInv'
<1>1. ServerOK' /\ BrowserOK'
  BY Frames DEF TypeInv, ShowNewKey, Abandon
<1>2. CeremoniesOK' /\ CarriesOK'
  BY EndOK DEF ShowNewKey, Abandon
<1>3. OwnerOK'
  <2>1. CASE Abandon(t)
    BY <2>1, Frames DEF TypeInv, Abandon
  <2>2. CASE ShowNewKey(t)
    <3>1. ceremony[t].key \in Keys /\ page[t] \in Accounts
      BY <2>2 DEF TypeInv, BrowserOK, CarriesOK, Carries, ShowNewKey, At
    <3>2. /\ known' \in [Accounts -> SUBSET Keys]
          /\ held' \in [Accounts -> Keys \cup {NoKey}]
          /\ kept' \in [Accounts -> Keys \cup {NoKey}]
      BY <2>2, <3>1 DEF TypeInv, OwnerOK, ShowNewKey
    <3> QED
      BY <2>2, <3>2 DEF TypeInv, OwnerOK, ShowNewKey
  <2> QED
    BY <2>1, <2>2
<1> QED
  BY <1>1, <1>2, <1>3, TypeInvPrime

LEMMA NextTypeInv == TypeInv /\ [Next]_vars => TypeInv'
<1> SUFFICES ASSUME TypeInv, [Next]_vars
             PROVE  TypeInv'
  OBVIOUS
<1>1. CASE UNCHANGED vars
  BY <1>1, Frames, TypeInvPrime DEF TypeInv, vars
<1>2. CASE Next
  BY <1>2, PasskeysTypeInv, LateArrivalTypeInv, TabsTypeInv, EnableTypeInv, FirstStepsTypeInv,
     GiveTypeInv, AttemptsTypeInv, LastStepsTypeInv DEF Next
<1> QED
  BY <1>1, <1>2

LEMMA TypeInvAlways == Spec => []TypeInv
  BY InitTypeInv, NextTypeInv, PTL DEF Spec

\* Every variable has its type in every reachable state.
THEOREM TypeCorrect == Spec => []TypeOK
  BY TypeInvAlways, TypeInvTypes, PTL

-----------------------------------------------------------------------------
(* Passkey wraps.                                                          *)

\* A step of an account that is encrypted either is the deletion of one of its
\* passkeys, or takes none of its wraps away.
LEMMA WrapsOnlyGrow ==
  ASSUME TypeInv, Next, NEW a \in encrypted, NEW c \in Wrapped(a),
         ~ \E d \in Creds : DeletePasskey(d)
  PROVE  c \in Wrapped(a)'
<1>0. a \in Accounts /\ c \in Creds /\ wraps[a][c] # NoKey
  BY DEF TypeInv, ServerOK, Wrapped
<1> SUFFICES wraps'[a][c] # NoKey
  BY <1>0 DEF Wrapped
<1>1. CASE UNCHANGED wraps
  BY <1>0, <1>1
<1>2. CASE \E t \in Tabs : ConfirmEnable(t)
  <2>1. PICK t \in Tabs : ConfirmEnable(t)
    BY <1>2
  <2>2. CASE CanEnable(cookie, ceremony[t].target)
                /\ Enable(cookie, ceremony[t].target,
                          [key |-> ceremony[t].key, opens |-> ceremony[t].opens])
    <3>1. a # cookie
      BY <2>2 DEF CanEnable
    <3> QED
      BY <1>0, <2>2, <3>1 DEF Enable, TypeInv, ServerOK
  <2> QED
    BY <1>1, <2>1, <2>2 DEF ConfirmEnable
<1>3. CASE \E t \in Tabs : AddWrapInserts(t)
  <2>1. PICK t \in Tabs : AddWrapInserts(t)
    BY <1>3
  <2>2. ceremony[t].opens \in Keys
    BY <2>1 DEF TypeInv, CarriesOK, Carries, AddWrapInserts, At
  <2>3. CASE wraps' = [wraps EXCEPT ![ceremony[t].me][ceremony[t].target] = ceremony[t].opens]
    BY <1>0, <2>2, <2>3 DEF TypeInv, ServerOK, Keys, NoKey
  <2> QED
    BY <1>1, <2>1, <2>3 DEF AddWrapInserts
<1>4. (\E t \in Tabs : ConfirmEnable(t)) \/ (\E t \in Tabs : AddWrapInserts(t)) \/ UNCHANGED wraps
  BY DEF Next, Register, BeginEnable, BeginGive, TargetSigns, AddWrapFindsOwner,
         AddWrapFindsNone, BeginReissue, BeginPrompt, AcceptOffer, AttemptAnswered,
         FirstUnanswered, SecondUnanswered, ShowNewKey, Abandon, Load, LateArrival, SignIn, server
<1> QED
  BY <1>1, <1>2, <1>3, <1>4

LEMMA DeletionKeepsOne ==
  ASSUME TypeInv, NEW a \in encrypted, Wrapped(a) # {}, NEW d \in Creds, DeletePasskey(d)
  PROVE  Wrapped(a)' # {}
<1>0. a \in Accounts /\ cookie \in Accounts
  BY DEF TypeInv, ServerOK, BrowserOK
<1>1. \A c \in Creds : c # d \/ a # cookie => wraps'[a][c] = wraps[a][c]
  BY <1>0 DEF DeletePasskey, TypeInv, ServerOK
<1>2. CASE \E c \in Wrapped(a) : c # d \/ a # cookie
  BY <1>1, <1>2 DEF Wrapped
<1>3. CASE a = cookie /\ Wrapped(a) = {d}
  <2>1. Cardinality(Wrapped(a)) = 1
    BY <1>3, FS_Singleton
  <2>2. wraps[a][d] # NoKey
    BY <1>3 DEF Wrapped
  <2> QED
    BY <1>3, <2>1, <2>2 DEF DeletePasskey, IsLastWrap
<1> QED
  BY <1>2, <1>3

\* However deletions, enrolments and ceremonies interleave, an encrypted account that
\* has passkey wraps keeps one: passkey_delete counts inside its transaction, and
\* nothing else takes a wrap away.
THEOREM WrapsNeverRunOut == Spec => PasskeyWrapsNeverRunOut
<1>1. TypeInv /\ [Next]_vars =>
        [\A a \in encrypted : Wrapped(a) # {} => Wrapped(a)' # {}]_vars
  <2> SUFFICES ASSUME TypeInv, Next, NEW a \in encrypted, Wrapped(a) # {}
               PROVE  Wrapped(a)' # {}
    OBVIOUS
  <2>1. CASE \E d \in Creds : DeletePasskey(d)
    BY <2>1, DeletionKeepsOne
  <2>2. CASE ~ \E d \in Creds : DeletePasskey(d)
    BY <2>2, WrapsOnlyGrow
  <2> QED
    BY <2>1, <2>2
<1> QED
  BY <1>1, TypeInvAlways, PTL DEF Spec, PasskeyWrapsNeverRunOut

-----------------------------------------------------------------------------
(* With one account in the browser, every way into it leads to one data    *)
(* key for ever, however many tabs, losses and late requests there are.    *)
(*                                                                         *)
(* Every way in is cut from an open route, and a route is only found on    *)
(* the account the cookie names; so the data key a tab carries, and the    *)
(* one a late request carries, are the account's as long as the cookie     *)
(* stays where it is.                                                      *)
(*                                                                         *)
(* With one tab, and requests that come at once or never, the encryption   *)
(* key the user was told to rely on is the one that opens the account.     *)

\* The whole browser is about one account.
OneAccount ==
  /\ \A t \in Tabs : page[t] = cookie
  /\ \A t \in Tabs : ceremony[t].stage \in {"owned", "keyless"} => ceremony[t].me = cookie
  /\ \A q \in lingering : q.to = cookie
  /\ encrypted \subseteq {cookie}

Routed == {"give", "panel", "prompt"}

\* Before that account is encrypted there is no way in, and no tab has found one.
NoWayIn ==
  /\ keyWrap[cookie] = None
  /\ \A c \in Creds : wraps[cookie][c] = NoKey
  /\ lingering = {}
  /\ \A t \in Tabs : ceremony[t].kind \notin Routed

\* Afterwards every way in, and every way in that is being cut, opens d.
AllOpen(d) ==
  /\ keyWrap[cookie] # None /\ keyWrap[cookie].opens = d
  /\ \A c \in Creds : wraps[cookie][c] \in {NoKey, d}
  /\ \A q \in lingering : q.wrap.opens = d
  /\ \A t \in Tabs : ceremony[t].kind \in Routed => ceremony[t].opens = d

OneKeyInv ==
  /\ TypeInv
  /\ OneAccount
  /\ cookie \notin encrypted => NoWayIn
  /\ cookie \in encrypted => \E d \in Keys : AllOpen(d)

LEMMA OneKeyInit == Init => OneKeyInv
<1> SUFFICES ASSUME Init
             PROVE  OneKeyInv
  OBVIOUS
<1>1. TypeInv
  BY InitTypeInv
<1>2. OneAccount
  BY <1>1 DEF Init, OneAccount, Idle, TypeInv, BrowserOK
<1>3. Idle.kind \notin Routed
  BY DEF Idle, Routed
<1>4. cookie \in Accounts /\ \A t \in Tabs : ceremony[t] = Idle
  BY DEF Init
<1>5. cookie \notin encrypted /\ NoWayIn
  BY <1>3, <1>4 DEF Init, NoWayIn
<1> QED
  BY <1>1, <1>2, <1>5 DEF OneKeyInv

\* Only a tab's load changes the account it shows.
LEMMA PageStays ==
  ASSUME Next, ~(\E t \in Tabs : Load(t))
  PROVE  UNCHANGED page
<1>1. ASSUME NEW c \in Creds, Register(c) \/ DeletePasskey(c)
      PROVE  UNCHANGED page
  BY <1>1 DEF Register, DeletePasskey, browser
<1>2. ASSUME NEW t \in Tabs,
             \/ \E c \in Creds \cup {None} : BeginEnable(t, c)
             \/ \E c \in Creds : BeginGive(t, c)
             \/ BeginReissue(t) \/ BeginPrompt(t)
      PROVE  UNCHANGED page
  BY <1>2 DEF BeginEnable, BeginGive, BeginReissue, BeginPrompt
<1>3. ASSUME NEW t \in Tabs,
             \/ ConfirmEnable(t) \/ TargetSigns(t) \/ AddWrapFindsOwner(t)
             \/ AddWrapFindsNone(t) \/ AddWrapInserts(t) \/ AcceptOffer(t)
      PROVE  UNCHANGED page
  BY <1>3 DEF ConfirmEnable, TargetSigns, AddWrapFindsOwner, AddWrapFindsNone, AddWrapInserts,
       AcceptOffer, browser
<1>4. ASSUME NEW t \in Tabs,
             \/ AttemptAnswered(t) \/ FirstUnanswered(t) \/ SecondUnanswered(t)
             \/ ShowNewKey(t) \/ Abandon(t)
      PROVE  UNCHANGED page
  BY <1>4 DEF AttemptAnswered, FirstUnanswered, SecondUnanswered, ShowNewKey, Abandon, browser
<1>5. ASSUME (\E q \in lingering : LateArrival(q)) \/ (\E a \in Accounts : SignIn(a))
      PROVE  UNCHANGED page
  BY <1>5 DEF LateArrival, SignIn, browser
<1> QED
  BY <1>1, <1>2, <1>3, <1>4, <1>5 DEF Next

\* Only another tab's sign-in would move the cookie to another account.
LEMMA CookieStays ==
  ASSUME CookieMoves = FALSE, OneAccount, Next
  PROVE  cookie' = cookie
<1>1. ASSUME NEW t \in Tabs,
             \/ \E c \in Creds : Signs(t, c)
             \/ \E opens : KeyRoute(t, opens) \/ PasskeyRoute(t, opens)
      PROVE  cookie' = cookie
  BY <1>1 DEF KeyRoute, PasskeyRoute, Signs, OneAccount
<1>2. ASSUME NEW t \in Tabs, NEW c \in Creds \cup {None}, BeginEnable(t, c)
      PROVE  cookie' = cookie
  BY <1>1, <1>2 DEF BeginEnable
<1>3. ASSUME NEW t \in Tabs,
             \/ \E c \in Creds : BeginGive(t, c)
             \/ BeginReissue(t) \/ BeginPrompt(t)
      PROVE  cookie' = cookie
  BY <1>1, <1>3 DEF BeginGive, BeginReissue, BeginPrompt
<1>4. ASSUME NEW t \in Tabs, TargetSigns(t)
      PROVE  cookie' = cookie
  BY <1>4 DEF TargetSigns, Signs, OneAccount
<1>5. ASSUME NEW t \in Tabs,
             \/ ConfirmEnable(t) \/ AddWrapFindsOwner(t) \/ AddWrapFindsNone(t)
             \/ AddWrapInserts(t) \/ AcceptOffer(t)
      PROVE  cookie' = cookie
  BY <1>5 DEF ConfirmEnable, AddWrapFindsOwner, AddWrapFindsNone, AddWrapInserts, AcceptOffer,
              browser
<1>6. ASSUME NEW t \in Tabs,
             \/ AttemptAnswered(t) \/ FirstUnanswered(t) \/ SecondUnanswered(t)
             \/ ShowNewKey(t) \/ Abandon(t) \/ Load(t)
      PROVE  cookie' = cookie
  BY <1>6 DEF AttemptAnswered, FirstUnanswered, SecondUnanswered, ShowNewKey, Abandon, Load,
              browser
<1>7. ASSUME NEW c \in Creds, Register(c) \/ DeletePasskey(c)
      PROVE  cookie' = cookie
  BY <1>7 DEF Register, DeletePasskey, browser
<1>8. ASSUME NEW q \in lingering, LateArrival(q)
      PROVE  cookie' = cookie
  BY <1>8 DEF LateArrival, browser
<1>9. \A a \in Accounts : ~SignIn(a)
  BY DEF SignIn
<1> QED
  BY <1>2, <1>3, <1>4, <1>5, <1>6, <1>7, <1>8, <1>9 DEF Next

-----------------------------------------------------------------------------
(* Where a data key can come from.                                         *)

\* A data key that some way in already opens, or that a tab or a request carries.
Reachable ==
  {wraps[cookie][c] : c \in Wrapped(cookie)}
    \cup {keyWrap[a].opens : a \in {b \in {cookie} : keyWrap[b] # None}}
    \cup {q.wrap.opens : q \in lingering}
    \cup {ceremony[t].opens : t \in {u \in Tabs : ceremony[u].kind \in Routed}}

\* The step that encrypts the account.
TurnsOn ==
  \E t \in Tabs :
    /\ ConfirmEnable(t)
    /\ CanEnable(cookie, ceremony[t].target)
    /\ Enable(cookie, ceremony[t].target,
              [key |-> ceremony[t].key, opens |-> ceremony[t].opens])

LEMMA RouteIsReachable ==
  ASSUME NEW t, NEW opens, KeyRoute(t, opens) \/ PasskeyRoute(t, opens)
  PROVE  opens \in Reachable
  BY DEF KeyRoute, PasskeyRoute, Reachable

\* A tab's new ceremony: it was not routed, kept its route, or found one.
LEMMA CeremonyStep ==
  ASSUME TypeInv, OneAccount, Next, NEW t \in Tabs
  PROVE  /\ ceremony'[t].kind \in Routed => ceremony'[t].opens \in Reachable
         /\ ceremony'[t].stage \in {"owned", "keyless"} => ceremony'[t].me = cookie
<1> DEFINE Fine(r) == /\ r.kind \in Routed => r.opens \in Reachable
                      /\ r.stage \in {"owned", "keyless"} => r.me = cookie
<1>1. \A u \in Tabs : ceremony[u] \in Ceremonies /\ Fine(ceremony[u])
  BY DEF TypeInv, CeremoniesOK, OneAccount, Reachable
<1>2. ASSUME NEW u \in Tabs, NEW r, Fine(r), Become(u, r)
      PROVE  Fine(ceremony'[t])
  BY <1>1, <1>2 DEF Become, TypeInv, CeremoniesOK
<1>3. Fine(Idle)
  BY DEF Idle, Routed
<1>4. ASSUME NEW u \in Tabs, NEW s \in {"signed", "second", "stored"},
             Become(u, [ceremony[u] EXCEPT !.stage = s])
      PROVE  Fine(ceremony'[t])
  <2> DEFINE r == [ceremony[u] EXCEPT !.stage = s]
  <2>1. r.kind = ceremony[u].kind /\ r.opens = ceremony[u].opens /\ r.stage = s
    BY <1>1 DEF Ceremonies
  <2>2. Fine(r)
    BY <1>1, <2>1
  <2> QED
    BY <1>2, <1>4, <2>2
<1>5. ASSUME NEW u \in Tabs, NEW kind, NEW opens \in Reachable, StartAttempt(u, kind, opens)
      PROVE  Fine(ceremony'[t])
  <2> DEFINE r == [Idle EXCEPT !.kind = kind, !.stage = "first", !.key = NewKey, !.opens = opens]
  <2>1. r.stage = "first" /\ r.opens = opens
    BY DEF Idle
  <2> QED
    BY <1>2, <1>5, <2>1 DEF StartAttempt
<1>6. CASE UNCHANGED ceremony
  BY <1>1, <1>6
<1>7. CASE \E u \in Tabs : End(u)
  BY <1>2, <1>3, <1>7 DEF End
<1>8. CASE \E u \in Tabs, c \in Creds \cup {None} : BeginEnable(u, c)
  <2>1. PICK u \in Tabs, c \in Creds \cup {None} : BeginEnable(u, c)
    BY <1>8
  <2> DEFINE r == [Idle EXCEPT !.kind = "enable", !.stage = "shown", !.target = c,
                     !.key = NewKey, !.opens = NewKey]
  <2>2. r.kind = "enable" /\ r.stage = "shown"
    BY DEF Idle
  <2>3. Become(u, r)
    BY <2>1 DEF BeginEnable
  <2>4. Fine(r)
    BY <2>2 DEF Routed
  <2> HIDE DEF r
  <2> QED
    BY <1>2, <2>3, <2>4
<1>9. CASE \E u \in Tabs, c \in Creds : BeginGive(u, c)
  <2>1. PICK u \in Tabs, c \in Creds, opens \in Keys :
          /\ KeyRoute(u, opens) \/ PasskeyRoute(u, opens)
          /\ Become(u, [Idle EXCEPT !.kind = "give", !.stage = "opened", !.target = c,
                          !.opens = opens])
    BY <1>9 DEF BeginGive
  <2> DEFINE r == [Idle EXCEPT !.kind = "give", !.stage = "opened", !.target = c,
                     !.opens = opens]
  <2>2. r.stage = "opened" /\ r.opens = opens
    BY DEF Idle
  <2>3. Become(u, r) /\ opens \in Reachable
    BY <2>1, RouteIsReachable
  <2>4. Fine(r)
    BY <2>2, <2>3
  <2> HIDE DEF r
  <2> QED
    BY <1>2, <2>3, <2>4
<1>10. CASE \E u \in Tabs : BeginPrompt(u)
  <2>1. PICK u \in Tabs, opens \in Keys :
          /\ KeyRoute(u, opens)
          /\ Become(u, [Idle EXCEPT !.kind = "prompt", !.stage = "offered", !.opens = opens])
    BY <1>10 DEF BeginPrompt
  <2> DEFINE r == [Idle EXCEPT !.kind = "prompt", !.stage = "offered", !.opens = opens]
  <2>2. r.stage = "offered" /\ r.opens = opens
    BY DEF Idle
  <2>3. Become(u, r) /\ opens \in Reachable
    BY <2>1, RouteIsReachable
  <2>4. Fine(r)
    BY <2>2, <2>3
  <2> HIDE DEF r
  <2> QED
    BY <1>2, <2>3, <2>4
<1>11. CASE \E u \in Tabs : BeginReissue(u)
  BY <1>5, <1>11, RouteIsReachable DEF BeginReissue
<1>12. CASE \E u \in Tabs : AcceptOffer(u)
  <2>1. PICK u \in Tabs : AcceptOffer(u)
    BY <1>12
  <2>2. ceremony[u].opens \in Reachable
    BY <1>1, <2>1 DEF AcceptOffer, At, Routed
  <2> QED
    BY <1>5, <2>1, <2>2 DEF AcceptOffer
<1>13. CASE \E u \in Tabs : TargetSigns(u) \/ AttemptAnswered(u) \/ FirstUnanswered(u)
  BY <1>4, <1>13 DEF TargetSigns, AttemptAnswered, FirstUnanswered
<1>14. CASE \E u \in Tabs : AddWrapFindsOwner(u)
  <2>1. PICK u \in Tabs : AddWrapFindsOwner(u)
    BY <1>14
  <2> DEFINE r == [ceremony[u] EXCEPT !.stage = "owned", !.me = cookie]
  <2>2. r.kind = ceremony[u].kind /\ r.opens = ceremony[u].opens /\ r.me = cookie
    BY <1>1 DEF Ceremonies
  <2>3. Fine(r)
    BY <1>1, <2>2
  <2> QED
    BY <1>2, <1>7, <2>1, <2>3 DEF AddWrapFindsOwner
<1>15. CASE \E u \in Tabs : AddWrapFindsNone(u)
  <2>1. PICK u \in Tabs : AddWrapFindsNone(u)
    BY <1>15
  <2> DEFINE r == [ceremony[u] EXCEPT !.stage = "keyless"]
  <2>2. r.kind = ceremony[u].kind /\ r.opens = ceremony[u].opens /\ r.me = ceremony[u].me
    BY <1>1 DEF Ceremonies
  <2>3. Fine(r)
    BY <1>1, <2>1, <2>2 DEF AddWrapFindsNone, At
  <2> QED
    BY <1>2, <1>7, <2>1, <2>3 DEF AddWrapFindsNone
<1>16. CASE \E u \in Tabs : SecondUnanswered(u)
  <2>1. PICK u \in Tabs : SecondUnanswered(u)
    BY <1>16
  <2> DEFINE r == [ceremony[u] EXCEPT !.stage = "offered", !.key = NoKey]
  <2>2. r.kind = ceremony[u].kind /\ r.opens = ceremony[u].opens /\ r.stage = "offered"
    BY <1>1 DEF Ceremonies
  <2>3. Fine(r)
    BY <1>1, <2>2
  <2> QED
    BY <1>2, <1>7, <2>1, <2>3 DEF SecondUnanswered
<1>17. \/ UNCHANGED ceremony \/ (\E u \in Tabs : End(u))
       \/ (\E u \in Tabs, c \in Creds \cup {None} : BeginEnable(u, c))
       \/ (\E u \in Tabs, c \in Creds : BeginGive(u, c))
       \/ (\E u \in Tabs : \/ BeginPrompt(u) \/ BeginReissue(u) \/ AcceptOffer(u)
                            \/ TargetSigns(u) \/ AttemptAnswered(u) \/ FirstUnanswered(u)
                            \/ AddWrapFindsOwner(u) \/ AddWrapFindsNone(u) \/ SecondUnanswered(u))
  BY DEF Next, Register, DeletePasskey, ConfirmEnable, AddWrapInserts, ShowNewKey, Abandon, Load,
         LateArrival, SignIn
<1> QED
  BY <1>6, <1>7, <1>8, <1>9, <1>10, <1>11, <1>12, <1>13, <1>14, <1>15, <1>16, <1>17

\* The server's rows, unless the step encrypts the account: a new wrap opens a data
\* key that could be reached before.
LEMMA ServerStep ==
  ASSUME TypeInv, OneAccount, Next, ~TurnsOn
  PROVE  /\ encrypted' = encrypted
         /\ \A c \in Creds : wraps'[cookie][c] \in {NoKey} \cup Reachable
         /\ \/ keyWrap'[cookie] = keyWrap[cookie]
            \/ keyWrap'[cookie] # None /\ keyWrap'[cookie].opens \in Reachable
         /\ \A q \in lingering' : q.to = cookie /\ q.wrap.opens \in Reachable
<1>0. cookie \in Accounts
  BY DEF TypeInv, BrowserOK
<1>1. /\ \A c \in Creds : wraps[cookie][c] \in {NoKey} \cup Reachable
      /\ \A q \in lingering : q.to = cookie /\ q.wrap.opens \in Reachable
  BY DEF Reachable, Wrapped, OneAccount
<1>2. CASE UNCHANGED server
  BY <1>1, <1>2 DEF server
<1>3. CASE \E c \in Creds : Register(c)
  BY <1>1, <1>3 DEF Register
<1>4. CASE \E c \in Creds : DeletePasskey(c)
  <2>1. \A c \in Creds : wraps'[cookie][c] \in {NoKey, wraps[cookie][c]}
    BY <1>0, <1>4 DEF DeletePasskey, TypeInv, ServerOK
  <2> QED
    BY <1>1, <1>4, <2>1 DEF DeletePasskey
<1>5. CASE \E t \in Tabs : ConfirmEnable(t)
  <2>1. UNCHANGED <<encrypted, wraps, keyWrap, lingering>>
    BY <1>5 DEF ConfirmEnable, TurnsOn
  <2> QED
    BY <1>1, <2>1
<1>6. CASE \E t \in Tabs : AddWrapInserts(t)
  <2>1. PICK t \in Tabs : AddWrapInserts(t)
    BY <1>6
  <2> DEFINE r == ceremony[t]
  <2>2. r.kind = "give" /\ r.stage = "keyless" /\ r.me = cookie
    BY <2>1 DEF AddWrapInserts, At, OneAccount
  <2>3. r.opens \in Reachable
    BY <2>2 DEF Reachable, Routed
  <2>4. wraps' = wraps \/ wraps' = [wraps EXCEPT ![cookie][r.target] = r.opens]
    BY <2>1, <2>2 DEF AddWrapInserts
  <2>5. \A c \in Creds : wraps'[cookie][c] \in {wraps[cookie][c], r.opens}
    BY <1>0, <2>4 DEF TypeInv, ServerOK
  <2>6. UNCHANGED <<encrypted, keyWrap, lingering>>
    BY <2>1 DEF AddWrapInserts
  <2> QED
    BY <1>1, <2>3, <2>5, <2>6
<1>7. CASE \E t \in Tabs : AttemptAnswered(t) \/ FirstUnanswered(t) \/ SecondUnanswered(t)
  <2>1. PICK t \in Tabs : AttemptAnswered(t) \/ FirstUnanswered(t) \/ SecondUnanswered(t)
    BY <1>7
  <2>2. ceremony[t].kind \in {"panel", "prompt"}
    BY <2>1 DEF AttemptAnswered, FirstUnanswered, SecondUnanswered, At
  <2>3. Sent(t).opens = ceremony[t].opens /\ ceremony[t].opens \in Reachable
    BY <2>2 DEF Sent, Reachable, Routed
  <2>4. Sent(t) # None
    <3>1. Sent(t) \in KeyWrap
      BY <2>1, <2>2, SentOK DEF AttemptAnswered, FirstUnanswered, SecondUnanswered, At
    <3> QED
      BY <3>1, NoneAssumption
  <2>5. UNCHANGED <<encrypted, wraps>>
    BY <2>1 DEF AttemptAnswered, FirstUnanswered, SecondUnanswered
  <2>6. keyWrap' = keyWrap \/ keyWrap' = [keyWrap EXCEPT ![cookie] = Sent(t)]
    BY <2>1 DEF AttemptAnswered, FirstUnanswered, SecondUnanswered, Unanswered, ReplaceKeyWrap
  <2>7. keyWrap'[cookie] \in {keyWrap[cookie], Sent(t)}
    BY <1>0, <2>6 DEF TypeInv, ServerOK
  <2>8. lingering' = lingering \/ lingering' = lingering \cup {[to |-> cookie, wrap |-> Sent(t)]}
    BY <2>1 DEF AttemptAnswered, FirstUnanswered, SecondUnanswered, Unanswered
  <2>9. \A q \in lingering' : q.to = cookie /\ q.wrap.opens \in Reachable
    BY <1>1, <2>3, <2>8
  <2> QED
    BY <1>1, <2>3, <2>4, <2>5, <2>7, <2>9
<1>8. CASE \E q \in lingering : LateArrival(q)
  <2>1. PICK q \in lingering : LateArrival(q)
    BY <1>8
  <2>2. q.to = cookie /\ q.wrap.opens \in Reachable /\ q.wrap # None
    BY <1>1, NoneAssumption DEF TypeInv, ServerOK
  <2>3. keyWrap'[cookie] = q.wrap
    BY <1>0, <2>1, <2>2 DEF LateArrival, ReplaceKeyWrap, TypeInv, ServerOK
  <2> QED
    BY <1>1, <2>1, <2>2, <2>3 DEF LateArrival
<1> QED
  BY <1>2, <1>3, <1>4, <1>5, <1>6, <1>7, <1>8
     DEF Next, BeginEnable, BeginGive, TargetSigns, AddWrapFindsOwner, AddWrapFindsNone,
         BeginReissue, BeginPrompt, AcceptOffer, ShowNewKey, Abandon, Load, SignIn

\* The step that encrypts the account starts from no way in, and leaves the one it
\* minted; no other tab has a route yet.
LEMMA FirstKey ==
  ASSUME TypeInv, OneAccount, NoWayIn, TurnsOn, cookie' = cookie
  PROVE  /\ encrypted' = encrypted \cup {cookie}
         /\ \E d \in Keys : AllOpen(d)'
         /\ lingering' = {}
         /\ \A t \in Tabs : ceremony'[t].stage \notin {"owned", "keyless"}
                           \/ ceremony'[t].me = cookie
<1>1. PICK t \in Tabs :
        /\ ConfirmEnable(t)
        /\ Enable(cookie, ceremony[t].target,
                  [key |-> ceremony[t].key, opens |-> ceremony[t].opens])
  BY DEF TurnsOn
<1>0. PICK d \in Keys, w \in KeyWrap :
       d = ceremony[t].opens /\ w = [key |-> ceremony[t].key, opens |-> d]
  BY <1>1 DEF TypeInv, CarriesOK, Carries, ConfirmEnable, At, KeyWrap
<1>2. w.opens = d /\ cookie \in Accounts
  BY <1>0 DEF TypeInv, BrowserOK
<1>3. keyWrap'[cookie] = w
  BY <1>0, <1>1, <1>2 DEF Enable, TypeInv, ServerOK
<1>4. \A c \in Creds : wraps'[cookie][c] \in {NoKey, d}
  BY <1>0, <1>1, <1>2 DEF Enable, TypeInv, ServerOK, NoWayIn
<1>5. lingering' = {}
  BY <1>1 DEF ConfirmEnable, NoWayIn
<1>6. \A u \in Tabs : ceremony'[u] = IF u = t THEN Idle ELSE ceremony[u]
  BY <1>1 DEF ConfirmEnable, End, Become, TypeInv, CeremoniesOK
<1>7. \A u \in Tabs : ceremony'[u].kind \notin Routed
  BY <1>6 DEF Idle, Routed, NoWayIn
<1>8. AllOpen(d)'
  <2>1. keyWrap'[cookie] # None /\ keyWrap'[cookie].opens = d
    BY <1>2, <1>3, NoneAssumption
  <2> QED
    BY <1>4, <1>5, <1>7, <2>1, cookie' = cookie DEF AllOpen
<1>9. \A u \in Tabs : ceremony'[u].stage \notin {"owned", "keyless"} \/ ceremony'[u].me = cookie
  BY <1>6 DEF Idle, OneAccount
<1>10. encrypted' = encrypted \cup {cookie}
  BY <1>1 DEF Enable
<1> QED
  BY <1>2, <1>5, <1>8, <1>9, <1>10

\* The data keys that can be reached.
LEMMA ReachableKeys ==
  /\ NoWayIn => Reachable = {}
  /\ \A d \in Keys : AllOpen(d) => Reachable \subseteq {d}
  BY DEF NoWayIn, AllOpen, Reachable, Wrapped

LEMMA OneKeyStep ==
  ASSUME CookieMoves = FALSE, OneKeyInv, Next
  PROVE  /\ OneKeyInv'
         /\ cookie' = cookie
         /\ \A d \in Keys : cookie \in encrypted /\ AllOpen(d) => AllOpen(d)'
<1>0. OneAccount
  BY DEF OneKeyInv
<1>1. TypeInv' /\ TypeInv /\ OneAccount
  BY NextTypeInv DEF OneKeyInv
<1>2. cookie' = cookie
  BY <1>0, CookieStays, ZenonT(60)
<1>3. \A t \in Tabs : page'[t] = cookie
  <2>1. UNCHANGED page \/ \E t \in Tabs : Load(t)
    BY PageStays
  <2> QED
    BY <1>1, <2>1 DEF Load, OneAccount, TypeInv, BrowserOK
<1>4. CASE TurnsOn
  <2>1. cookie \notin encrypted /\ NoWayIn
    BY <1>4 DEF TurnsOn, CanEnable, OneKeyInv
  <2>2. OneAccount'
    BY <1>1, <1>2, <1>3, <1>4, <2>1, FirstKey DEF OneAccount
  <2> QED
    BY <1>1, <1>2, <1>4, <2>1, <2>2, FirstKey DEF OneKeyInv
<1>5. CASE ~TurnsOn
  <2>1. OneAccount'
    BY <1>1, <1>2, <1>3, <1>5, ServerStep, CeremonyStep DEF OneAccount
  <2>2. encrypted' = encrypted
    BY <1>1, <1>5, ServerStep
  <2>3. ASSUME NEW d \in Keys, AllOpen(d)
        PROVE  AllOpen(d)'
    <3>1. Reachable \subseteq {d}
      BY <2>3, ReachableKeys
    <3>2. keyWrap'[cookie] # None /\ keyWrap'[cookie].opens = d
      BY <1>1, <1>5, <2>3, <3>1, ServerStep DEF AllOpen
    <3>3. \A c \in Creds : wraps'[cookie][c] \in {NoKey, d}
      BY <1>1, <1>5, <3>1, ServerStep
    <3>4. \A q \in lingering' : q.wrap.opens = d
      BY <1>1, <1>5, <3>1, ServerStep
    <3>5. \A t \in Tabs : ceremony'[t].kind \in Routed => ceremony'[t].opens = d
      BY <1>1, <3>1, CeremonyStep
    <3> QED
      BY <1>2, <3>2, <3>3, <3>4, <3>5 DEF AllOpen
  <2>4. ASSUME NoWayIn
        PROVE  NoWayIn'
    <3>1. Reachable = {}
      BY <2>4, ReachableKeys
    <3>2. keyWrap'[cookie] = None
      BY <1>1, <1>5, <2>4, <3>1, ServerStep DEF NoWayIn
    <3>3. \A c \in Creds : wraps'[cookie][c] = NoKey
      BY <1>1, <1>5, <3>1, ServerStep
    <3>4. lingering' = {}
      BY <1>1, <1>5, <3>1, ServerStep
    <3>5. \A t \in Tabs : ceremony'[t].kind \notin Routed
      BY <1>1, <3>1, CeremonyStep
    <3> QED
      BY <1>2, <3>2, <3>3, <3>4, <3>5 DEF NoWayIn
  <2> QED
    BY <1>1, <1>2, <2>1, <2>2, <2>3, <2>4 DEF OneKeyInv
<1> QED
  BY <1>4, <1>5

\* No step, and no stutter, leaves it.
LEMMA OneKeyNext ==
  ASSUME CookieMoves = FALSE, OneKeyInv, [Next]_vars
  PROVE  OneKeyInv'
<1>1. CASE UNCHANGED vars
  <2>1. TypeInv'
    BY <1>1, NextTypeInv DEF OneKeyInv
  <2> QED
    BY <1>1, <2>1 DEF OneKeyInv, vars, server, browser, owner, OneAccount, NoWayIn, AllOpen
<1> QED
  BY <1>1, OneKeyStep

\* An encrypted account's data keys are the one its ways in open.
LEMMA DataKeysOf ==
  ASSUME NEW d \in Keys, AllOpen(d)
  PROVE  DataKeys(cookie) = {d}
<1>1. \A c \in Wrapped(cookie) : wraps[cookie][c] = d
  BY DEF AllOpen, Wrapped
<1> QED
  BY <1>1 DEF DataKeys, AllOpen

LEMMA DataKeysOfPrime ==
  ASSUME NEW d \in Keys, AllOpen(d)', cookie' = cookie
  PROVE  DataKeys(cookie)' = {d}
<1>1. \A c \in Wrapped(cookie)' : wraps'[cookie][c] = d
  BY DEF AllOpen, Wrapped
<1> QED
  BY <1>1 DEF DataKeys, AllOpen

\* With one account signed in, however many tabs turn encryption on, give passkeys keys
\* and re-issue the encryption key, and whichever answers are lost or requests late,
\* every way into an encrypted account opens one data key, for ever.
THEOREM OneDataKey == CookieMoves = FALSE => (Spec => OneDataKeyForEver)
<1> SUFFICES ASSUME CookieMoves = FALSE
             PROVE  Spec => OneDataKeyForEver
  OBVIOUS
<1>1. OneKeyInv /\ [Next]_vars => OneKeyInv'
  BY OneKeyNext
<1>2. OneKeyInv /\ [Next]_vars =>
        [\A a \in encrypted : Cardinality(DataKeys(a)) = 1 /\ DataKeys(a)' = DataKeys(a)]_vars
  <2> SUFFICES ASSUME OneKeyInv, Next, NEW a \in encrypted
               PROVE  Cardinality(DataKeys(a)) = 1 /\ DataKeys(a)' = DataKeys(a)
    OBVIOUS
  <2>1. a = cookie
    BY DEF OneKeyInv, OneAccount
  <2>2. PICK d \in Keys : AllOpen(d)
    BY <2>1 DEF OneKeyInv
  <2>3. DataKeys(cookie) = {d}
    BY <2>2, DataKeysOf
  <2>4. cookie' = cookie /\ AllOpen(d)'
    BY <2>1, <2>2, OneKeyStep
  <2>5. DataKeys(cookie)' = {d}
    BY <2>4, DataKeysOfPrime
  <2>6. Cardinality({d}) = 1
    BY FS_Singleton
  <2> QED
    BY <2>1, <2>3, <2>4, <2>5, <2>6
<1> QED
  BY <1>1, <1>2, OneKeyInit, PTL DEF Spec, OneDataKeyForEver

-----------------------------------------------------------------------------
(* The encryption key the user was told to rely on, in a browser of one    *)
(* tab and one account whose requests do not arrive late.                  *)

Awaiting == {"first", "second", "stored"}

\* A key is relied on only of an encrypted account, and opens it unless another
\* one is on its way; an answered attempt is what the server has.
HeldInv ==
  /\ lingering = {}
  /\ held[cookie] # NoKey => cookie \in encrypted
  /\ \A t \in Tabs : ceremony[t].stage = "stored" => keyWrap[cookie].key = ceremony[t].key
  /\ held[cookie] # NoKey /\ (\A t \in Tabs : ceremony[t].stage \notin Awaiting)
       => keyWrap[cookie].key = held[cookie]

LEMMA HeldInit == Init => HeldInv
<1> SUFFICES ASSUME Init PROVE HeldInv  OBVIOUS
<1>1. cookie \in Accounts  BY DEF Init
<1> QED BY <1>1 DEF Init, HeldInv, Idle

LEMMA BecomeOne ==
  ASSUME TypeInv, NEW t \in Tabs, \A u \in Tabs : u = t, NEW r, Become(t, r)
  PROVE  \A u \in Tabs : ceremony'[u] = r
BY DEF TypeInv, CeremoniesOK, Become

\* Steps that send nothing: the tab was not waiting, and has no answer after.
LEMMA HeldKept ==
  ASSUME TypeInv, HeldInv, UNCHANGED <<cookie, encrypted, keyWrap, lingering, held>>,
         NEW t \in Tabs, \A u \in Tabs : u = t, ceremony[t].stage \notin Awaiting,
         NEW r, r.stage # "stored", Become(t, r)
  PROVE  HeldInv'
<1>1. \A u \in Tabs : ceremony'[u] = r  BY BecomeOne
<1> QED BY <1>1 DEF HeldInv

\* Each re-issue: while it waits it may replace the wrap, and it ends with the
\* new key in the user's hands, or with none.
LEMMA ReissueHeld ==
  ASSUME RequestsLinger = FALSE, OneKeyInv, HeldInv, cookie' = cookie,
         NEW t \in Tabs, \A u \in Tabs : u = t,
         AttemptAnswered(t) \/ FirstUnanswered(t) \/ SecondUnanswered(t) \/ ShowNewKey(t)
  PROVE  HeldInv'
<1> DEFINE r == ceremony[t]
<1>0. /\ TypeInv /\ page[t] = cookie /\ cookie \in Accounts /\ r \in Ceremonies
      /\ r.kind \in {"panel", "prompt"}
  BY DEF OneKeyInv, OneAccount, TypeInv, BrowserOK, CeremoniesOK, At, AttemptAnswered,
         FirstUnanswered, SecondUnanswered, ShowNewKey
<1>1. cookie \in encrypted  BY <1>0 DEF OneKeyInv, NoWayIn, Routed
<1>2. UNCHANGED encrypted
  BY DEF AttemptAnswered, FirstUnanswered, SecondUnanswered, ShowNewKey, server
<1>3. lingering' = {}
  BY DEF HeldInv, AttemptAnswered, FirstUnanswered, SecondUnanswered, Unanswered, ShowNewKey,
         server
<1>4. CASE AttemptAnswered(t)
  <2> DEFINE n == [r EXCEPT !.stage = "stored"]
  <2>1. keyWrap'[cookie] = Sent(t)
    BY <1>0, <1>4 DEF AttemptAnswered, ReplaceKeyWrap, TypeInv, ServerOK
  <2>2. n.stage = "stored" /\ n.key = r.key  BY <1>0 DEF Ceremonies
  <2>3. \A u \in Tabs : ceremony'[u] = n  BY <1>0, <1>4, BecomeOne DEF AttemptAnswered
  <2>4. keyWrap'[cookie].key = r.key  BY <2>1 DEF Sent
  <2> QED BY <1>1, <1>2, <1>3, <2>2, <2>3, <2>4 DEF HeldInv, Awaiting
<1>5. CASE FirstUnanswered(t)
  <2> DEFINE n == [r EXCEPT !.stage = "second"]
  <2>1. n.stage = "second"  BY <1>0 DEF Ceremonies
  <2>2. \A u \in Tabs : ceremony'[u] = n  BY <1>0, <1>5, BecomeOne DEF FirstUnanswered
  <2> QED BY <1>1, <1>2, <1>3, <2>1, <2>2 DEF HeldInv, Awaiting
<1>6. CASE SecondUnanswered(t)
  <2> DEFINE n == [r EXCEPT !.stage = "offered", !.key = NoKey]
  <2>1. held'[cookie] = NoKey
    BY <1>0, <1>6 DEF SecondUnanswered, Doubt, TypeInv, OwnerOK
  <2>2. n.stage = "offered" /\ Idle.stage = "idle"  BY <1>0 DEF Ceremonies, Idle
  <2>3. Become(t, Idle) \/ Become(t, n)  BY <1>6 DEF SecondUnanswered, End
  <2> HIDE DEF n
  <2>4. \A u \in Tabs : ceremony'[u].stage # "stored"  BY <1>0, <2>2, <2>3, BecomeOne
  <2> QED BY <1>3, <2>1, <2>4 DEF HeldInv
<1>7. CASE ShowNewKey(t)
  <2>1. r.stage = "stored" /\ UNCHANGED keyWrap  BY <1>7 DEF ShowNewKey, At, server
  <2>2. held'[cookie] = r.key  BY <1>0, <1>7 DEF ShowNewKey, TypeInv, OwnerOK
  <2>3. keyWrap[cookie].key = r.key  BY <2>1 DEF HeldInv
  <2>4. \A u \in Tabs : ceremony'[u] = Idle  BY <1>0, <1>7, BecomeOne DEF ShowNewKey, End
  <2> QED BY <1>1, <1>2, <1>3, <2>1, <2>2, <2>3, <2>4 DEF HeldInv, Idle
<1> QED BY <1>4, <1>5, <1>6, <1>7

\* Turning encryption on: the server takes the key only if there was none.
LEMMA EnableHeld ==
  ASSUME OneKeyInv, HeldInv, cookie' = cookie,
         NEW t \in Tabs, \A u \in Tabs : u = t, ConfirmEnable(t)
  PROVE  HeldInv'
<1> DEFINE r == ceremony[t]
           w == [key |-> r.key, opens |-> r.opens]
<1>0. /\ TypeInv /\ page[t] = cookie /\ cookie \in Accounts /\ r.stage = "shown"
      /\ lingering' = {}
  BY DEF OneKeyInv, OneAccount, TypeInv, BrowserOK, ConfirmEnable, At, HeldInv
<1>1. \A u \in Tabs : ceremony'[u] = Idle  BY <1>0, BecomeOne DEF ConfirmEnable, End
<1>2. \A u \in Tabs : ceremony[u].stage \notin Awaiting  BY <1>0 DEF Awaiting
<1>3. PICK arrives, answered \in BOOLEAN :
        /\ answered => arrives
        /\ IF arrives /\ CanEnable(cookie, r.target)
             THEN Enable(cookie, r.target, w)
             ELSE UNCHANGED <<encrypted, wraps, keyWrap>>
        /\ held' = IF answered /\ CanEnable(cookie, r.target)
                     THEN [held EXCEPT ![cookie] = r.key] ELSE held
  BY <1>0 DEF ConfirmEnable
<1>4. CASE arrives /\ CanEnable(cookie, r.target)
  <2>1. held[cookie] = NoKey  BY <1>4 DEF HeldInv, CanEnable
  <2>2. held'[cookie] \in {NoKey, r.key}  BY <1>0, <1>3, <2>1 DEF TypeInv, OwnerOK
  <2>3. cookie \in encrypted' /\ keyWrap'[cookie] = w
    BY <1>0, <1>3, <1>4 DEF Enable, TypeInv, ServerOK
  <2>4. keyWrap'[cookie].key = r.key  BY <2>3
  <2> QED BY <1>0, <1>1, <2>2, <2>3, <2>4 DEF HeldInv, Idle
<1>5. CASE ~(arrives /\ CanEnable(cookie, r.target))
  <2>1. UNCHANGED <<encrypted, keyWrap, held>>  BY <1>3, <1>5
  <2> QED BY <1>0, <1>1, <1>2, <2>1 DEF HeldInv, Idle
<1> QED BY <1>4, <1>5

\* The ceremonies' other steps.
LEMMA OtherHeld ==
  ASSUME TypeInv, HeldInv, cookie' = cookie, NEW t \in Tabs, \A u \in Tabs : u = t,
         \/ \E c \in Creds \cup {None} : BeginEnable(t, c)
         \/ \E c \in Creds : BeginGive(t, c)
         \/ TargetSigns(t) \/ AddWrapFindsOwner(t) \/ AddWrapFindsNone(t) \/ AddWrapInserts(t)
         \/ BeginReissue(t) \/ BeginPrompt(t) \/ AcceptOffer(t) \/ Abandon(t)
  PROVE  HeldInv'
<1>0. ceremony[t] \in Ceremonies  BY DEF TypeInv, CeremoniesOK
<1>1. UNCHANGED <<encrypted, keyWrap, lingering, held>>
  BY ZenonT(60) DEF BeginEnable, BeginGive, TargetSigns, AddWrapFindsOwner, AddWrapFindsNone,
                    AddWrapInserts, BeginReissue, BeginPrompt, AcceptOffer, Abandon, server,
                    owner
<1>2. ceremony[t].stage \notin Awaiting
  <2>1. \/ ceremony[t] = Idle
        \/ ceremony[t].stage \in {"shown", "opened", "signed", "owned", "keyless", "offered"}
    BY ZenonT(60) DEF BeginEnable, BeginGive, TargetSigns, AddWrapFindsOwner,
                      AddWrapFindsNone,
                      AddWrapInserts, BeginReissue, BeginPrompt, AcceptOffer, Abandon, At
  <2>2. Idle.stage = "idle"  BY DEF Idle
  <2> QED BY <2>1, <2>2 DEF Awaiting
<1>3. \E r : r.stage # "stored" /\ Become(t, r)
  <2>1. Idle.stage # "stored"  BY DEF Idle
  <2>2. CASE End(t)  BY <2>1, <2>2 DEF End
  <2>3. ASSUME NEW c \in Creds \cup {None}, BeginEnable(t, c)
        PROVE  \E r : r.stage # "stored" /\ Become(t, r)
    <3> DEFINE r == [Idle EXCEPT !.kind = "enable", !.stage = "shown", !.target = c,
                       !.key = NewKey, !.opens = NewKey]
    <3>1. r.stage = "shown" /\ Become(t, r)  BY <2>3 DEF BeginEnable, Idle
    <3> QED BY <3>1
  <2>4. ASSUME NEW c \in Creds, BeginGive(t, c)
        PROVE  \E r : r.stage # "stored" /\ Become(t, r)
    <3>1. PICK d \in Keys :
            Become(t, [Idle EXCEPT !.kind = "give", !.stage = "opened", !.target = c,
                         !.opens = d])
      BY <2>4 DEF BeginGive
    <3>2. [Idle EXCEPT !.kind = "give", !.stage = "opened", !.target = c, !.opens = d].stage
            = "opened"
      BY DEF Idle
    <3> QED BY <3>1, <3>2
  <2>5. ASSUME BeginPrompt(t)
        PROVE  \E r : r.stage # "stored" /\ Become(t, r)
    <3>1. PICK d \in Keys :
            Become(t, [Idle EXCEPT !.kind = "prompt", !.stage = "offered", !.opens = d])
      BY <2>5 DEF BeginPrompt
    <3>2. [Idle EXCEPT !.kind = "prompt", !.stage = "offered", !.opens = d].stage = "offered"
      BY DEF Idle
    <3> QED BY <3>1, <3>2
  <2>6. ASSUME NEW kind, NEW d, StartAttempt(t, kind, d)
        PROVE  \E r : r.stage # "stored" /\ Become(t, r)
    <3> DEFINE r == [Idle EXCEPT !.kind = kind, !.stage = "first", !.key = NewKey,
                       !.opens = d]
    <3>1. r.stage = "first" /\ Become(t, r)  BY <2>6 DEF StartAttempt, Idle
    <3> QED BY <3>1
  <2>7. ASSUME NEW s \in {"signed", "keyless"},
               Become(t, [ceremony[t] EXCEPT !.stage = s])
        PROVE  \E r : r.stage # "stored" /\ Become(t, r)
    <3>1. [ceremony[t] EXCEPT !.stage = s].stage = s  BY <1>0 DEF Ceremonies
    <3> QED BY <2>7, <3>1
  <2>8. ASSUME Become(t, [ceremony[t] EXCEPT !.stage = "owned", !.me = cookie])
        PROVE  \E r : r.stage # "stored" /\ Become(t, r)
    <3>1. [ceremony[t] EXCEPT !.stage = "owned", !.me = cookie].stage = "owned"
      BY <1>0 DEF Ceremonies
    <3> QED BY <2>8, <3>1
  <2> QED BY <2>2, <2>3, <2>4, <2>5, <2>6, <2>7, <2>8
          DEF TargetSigns, AddWrapFindsOwner, AddWrapFindsNone, AddWrapInserts,
              BeginReissue, AcceptOffer, Abandon
<1> QED BY <1>1, <1>2, <1>3, HeldKept

LEMMA HeldStep ==
  ASSUME CookieMoves = FALSE, RequestsLinger = FALSE, \A t, u \in Tabs : t = u,
         OneKeyInv, HeldInv, [Next]_vars
  PROVE  HeldInv'
<1>1. CASE UNCHANGED vars
  BY <1>1 DEF vars, server, browser, owner, HeldInv
<1>2. CASE Next
  <2>1. cookie' = cookie /\ TypeInv  BY <1>2, OneKeyStep DEF OneKeyInv
  <2>2. CASE UNCHANGED <<ceremony, encrypted, keyWrap, lingering, held>>
    BY <2>1, <2>2 DEF HeldInv
  <2>3. \A c \in Creds : Register(c) \/ DeletePasskey(c) =>
          UNCHANGED <<ceremony, encrypted, keyWrap, lingering, held>>
    BY DEF Register, DeletePasskey, owner
  <2>4. \A t \in Tabs : Load(t) => UNCHANGED <<ceremony, encrypted, keyWrap, lingering, held>>
    BY DEF Load, server, owner
  <2>5. (\A q \in lingering : ~LateArrival(q)) /\ \A a \in Accounts : ~SignIn(a)
    BY DEF HeldInv, SignIn
  <2> QED BY <1>2, <2>1, <2>2, <2>3, <2>4, <2>5, ReissueHeld, EnableHeld, OtherHeld DEF Next
<1> QED BY <1>1, <1>2

\* In a browser of one account and one tab, whatever requests and answers get lost,
\* the encryption key the user was last told to rely on opens the account once no
\* re-issue is waiting (store_encryption_key_wrap sends the same bytes again, and
\* REISSUE_UNCONFIRMED takes the old key's promise back), as long as a request its
\* sender gave up on does not arrive.
THEOREM HeldKeyIsGood ==
  ASSUME CookieMoves = FALSE, RequestsLinger = FALSE, \A t, u \in Tabs : t = u
  PROVE  Spec => []HeldKeyOpens
<1>1. Init => OneKeyInv /\ HeldInv
  BY OneKeyInit, HeldInit
<1>2. OneKeyInv /\ HeldInv /\ [Next]_vars => (OneKeyInv /\ HeldInv)'
  BY OneKeyNext, HeldStep
<1>3. OneKeyInv /\ HeldInv => HeldKeyOpens
  <2> SUFFICES ASSUME OneKeyInv, HeldInv, NEW a \in encrypted, held[a] # NoKey, ~Waiting(a)
               PROVE  keyWrap[a].key = held[a]
    BY DEF HeldKeyOpens
  <2>1. a = cookie /\ \A t \in Tabs : page[t] = cookie  BY DEF OneKeyInv, OneAccount
  <2>2. \A t \in Tabs : ceremony[t].stage \notin Awaiting  BY <2>1 DEF Waiting, Awaiting
  <2> QED BY <2>1, <2>2 DEF HeldInv
<1> QED BY <1>1, <1>2, <1>3, PTL DEF Spec

\* There too, when a re-issue ends by showing the new key, that key is the account's
\* (what store_encryption_key_wrap's comment claims of every browser): whichever of its
\* requests and answers were lost, the attempt that was answered is what the server has.
THEOREM ShownKeyIsGood ==
  ASSUME CookieMoves = FALSE, RequestsLinger = FALSE, \A t, u \in Tabs : t = u
  PROVE  Spec => ShownKeyIsTheAccounts
<1>1. Init => OneKeyInv /\ HeldInv
  BY OneKeyInit, HeldInit
<1>2. OneKeyInv /\ HeldInv /\ [Next]_vars => (OneKeyInv /\ HeldInv)'
  BY OneKeyNext, HeldStep
<1>3. OneKeyInv /\ HeldInv /\ [Next]_vars =>
        [\A t \in Tabs : At(t, {"panel", "prompt"}, "stored") /\ ceremony'[t] = Idle
           => keyWrap[page[t]].key = ceremony[t].key]_vars
  BY DEF OneKeyInv, OneAccount, HeldInv, At
<1> QED BY <1>1, <1>2, <1>3, PTL DEF Spec, ShownKeyIsTheAccounts

-----------------------------------------------------------------------------
(* With one account in the browser, the wraps are the account's own, and   *)
(* as long as no answer is lost there is a way in that its owner knows.    *)

\* What a wrap is filed under is the cookie's account, so the others' stay.
LEMMA OthersKept ==
  ASSUME TypeInv, OneAccount, Next, NEW a \in Accounts, a # cookie
  PROVE  keyWrap'[a] = keyWrap[a]
<1>1. CASE \E t \in Tabs : ConfirmEnable(t)
  BY <1>1 DEF ConfirmEnable, Enable, TypeInv, ServerOK
<1>2. CASE \E t \in Tabs : AttemptAnswered(t) \/ FirstUnanswered(t) \/ SecondUnanswered(t)
  BY <1>2 DEF AttemptAnswered, FirstUnanswered, SecondUnanswered, Unanswered, ReplaceKeyWrap,
              TypeInv, ServerOK
<1>3. CASE \E q \in lingering : LateArrival(q)
  BY <1>3 DEF LateArrival, ReplaceKeyWrap, TypeInv, ServerOK, OneAccount
<1> QED
  BY <1>1, <1>2, <1>3
     DEF Next, Register, DeletePasskey, BeginEnable, BeginGive, TargetSigns, AddWrapFindsOwner,
         AddWrapFindsNone, AddWrapInserts, BeginReissue, BeginPrompt, AcceptOffer, ShowNewKey,
         Abandon, Load, SignIn, server

\* With one account signed in, no account that is not encrypted has an encryption-key
\* wrap, a stranded one that encryption_enable would refuse on, however many tabs there
\* are and whatever is lost or late: a tab has a wrap to send only once it found a route.
THEOREM NothingStranded == CookieMoves = FALSE => (Spec => []NoStrandedWrap)
<1> SUFFICES ASSUME CookieMoves = FALSE
             PROVE  Spec => []NoStrandedWrap
  OBVIOUS
<1> DEFINE OthersHaveNone == \A a \in Accounts : a # cookie => keyWrap[a] = None
<1>1. Init => OneKeyInv /\ OthersHaveNone
  BY OneKeyInit DEF Init
<1>2. OneKeyInv /\ OthersHaveNone /\ [Next]_vars => (OneKeyInv /\ OthersHaveNone)'
  <2> SUFFICES ASSUME OneKeyInv, OthersHaveNone, [Next]_vars
               PROVE  OthersHaveNone'
    BY OneKeyNext
  <2>1. CASE UNCHANGED vars
    BY <2>1 DEF vars, server, browser
  <2>2. CASE Next
    <3>1. cookie' = cookie /\ TypeInv /\ OneAccount
      BY <2>2, OneKeyStep DEF OneKeyInv
    <3> QED
      BY <2>2, <3>1, OthersKept
  <2> QED
    BY <2>1, <2>2
<1>3. OneKeyInv /\ OthersHaveNone => NoStrandedWrap
  BY DEF OneKeyInv, NoWayIn, NoStrandedWrap
<1> QED
  BY <1>1, <1>2, <1>3, PTL DEF Spec

=============================================================================
