---------------------------- MODULE AccountPageProofs ----------------------------
(***************************************************************************)
(* Proofs about AccountPage: its types, that the panel runs one ceremony   *)
(* at a time, that a key shown once stays shown, that no key is enabled    *)
(* before it is saved, that a refusal stays true, and that an overview at  *)
(* rest is the server's.                                                   *)
(***************************************************************************)
EXTENDS AccountPage, FiniteSetTheorems, TLAPS

-----------------------------------------------------------------------------
(* Which steps touch what.                                                 *)

\* The handlers of the panel and its ceremonies.
PanelStep ==
  \/ TurnOn \/ ConfirmNewKey \/ LockNow \/ StartReissue \/ CloseCard \/ RetryProbe
  \/ \E c \in Creds : StartGive(c)
  \/ \E s \in Sources : OpenReissue(s) \/ OpenGive(s)
  \/ \E t \in tasks :
       \/ EnableReady(t) \/ ServerEnables(t) \/ CommitTold(t) \/ CommitLost(t) \/ LockTold(t)
       \/ ServerReissues(t) \/ ReissueTold(t) \/ ServerGives(t) \/ GiveTold(t) \/ Fails(t)
  \/ Leave \/ ReloadPage

\* The rest leaves the panel's cards and keys as they are.
LEMMA PanelFrame ==
  ASSUME [Next]_vars
  PROVE  \/ PanelStep
         \/ UNCHANGED <<cards, saved, owed>>
<1> USE DEF cards, keys
<1>1. ASSUME NEW c \in Creds, Add(c) PROVE UNCHANGED <<cards, saved, owed>>
  BY <1>1 DEF Add, Ask, Begin
<1>2. ASSUME NEW i \in RowIds, Remove(i) PROVE UNCHANGED <<cards, saved, owed>>
  BY <1>2 DEF Remove, Ask, Begin
<1>3. CASE Rename
  BY <1>3 DEF Rename, Ask, Begin
<1>4. ASSUME NEW p \in adrift, ServedLate(p) PROVE UNCHANGED <<cards, keys>>
  BY <1>4 DEF ServedLate
<1>5. CASE PasskeysRead \/ WrapsRead \/ LoadFails \/ Probe
  BY <1>5 DEF PasskeysRead, WrapsRead, LoadFails, Probe
<1>6. ASSUME NEW r \in section,
             ServerRemoves(r) \/ ServerRenames(r) \/ ServerEnrols(r) \/ ServerKeys(r) \/ Told(r) \/ SectionFails(r)
      PROVE  UNCHANGED <<cards, keys>>
  BY <1>6 DEF ServerRemoves, ServerRenames, ServerEnrols, ServerKeys, Told, SectionFails
<1>7. CASE AnotherDevice
  BY <1>7 DEF AnotherDevice, Begin
<1>8. CASE UNCHANGED vars
  BY <1>8 DEF vars
<1> QED
  BY <1>1, <1>2, <1>3, <1>4, <1>5, <1>6, <1>7, <1>8, Zenon DEF Next, PanelStep

\* What changes the rows at the server, or sends what the page gave up on.
ServerStep ==
  \/ \E t \in tasks : ServerEnables(t) \/ CommitLost(t) \/ ServerReissues(t) \/ ServerGives(t)
  \/ \E p \in adrift : ServedLate(p)
  \/ \E r \in section : ServerRemoves(r) \/ ServerEnrols(r) \/ ServerKeys(r)
  \/ ReloadPage \/ AnotherDevice

LEMMA ServerFrame ==
  ASSUME [Next]_vars
  PROVE  ServerStep \/ UNCHANGED server
<1> USE DEF server
<1>1. CASE TurnOn \/ ConfirmNewKey \/ LockNow \/ StartReissue \/ CloseCard \/ RetryProbe \/ Rename
  BY <1>1 DEF TurnOn, BeginEnable, ConfirmNewKey, LockNow, StartReissue, OpenCard, CloseCard, RetryProbe, Rename, Ask
<1>2. ASSUME NEW c \in Creds, StartGive(c) \/ Add(c) PROVE UNCHANGED server
  BY <1>2 DEF StartGive, OpenCard, Add, Ask
<1>3. ASSUME NEW s \in Sources, OpenReissue(s) \/ OpenGive(s) PROVE UNCHANGED server
  BY <1>3 DEF OpenReissue, OpenGive, Open
<1>4. ASSUME NEW t \in tasks,
             EnableReady(t) \/ CommitTold(t) \/ LockTold(t) \/ ReissueTold(t) \/ GiveTold(t) \/ Fails(t)
      PROVE  UNCHANGED server
  BY <1>4 DEF EnableReady, Minted, CommitTold, LockTold, ReissueTold, GiveTold, Fails
<1>5. CASE PasskeysRead \/ WrapsRead \/ LoadFails \/ Probe \/ Leave
  BY <1>5 DEF PasskeysRead, WrapsRead, LoadFails, Probe, Leave, Mount
<1>6. ASSUME NEW i \in RowIds, Remove(i) PROVE UNCHANGED server
  BY <1>6 DEF Remove, Ask
<1>7. ASSUME NEW r \in section, ServerRenames(r) \/ Told(r) \/ SectionFails(r) PROVE UNCHANGED server
  BY <1>7 DEF ServerRenames, Told, SectionFails
<1>8. CASE UNCHANGED vars
  BY <1>8 DEF vars
<1> QED
  BY <1>1, <1>2, <1>3, <1>4, <1>5, <1>6, <1>7, <1>8, Zenon DEF Next, ServerStep

-----------------------------------------------------------------------------
(* Types.  A commit carries the number of the key on the screen, so what   *)
(* is on the screen has to be a key of the panel's own.                    *)

ServerTypes ==
  /\ row \in [RowIds -> Creds \cup {None}]
  /\ wrapped \subseteq Creds /\ keyOn \in Keys \cup {None} /\ adrift \subseteq Pending

PanelTypes ==
  /\ mode \in Mode /\ busy \in BOOLEAN /\ status \in Status
  /\ pending \in [key: Ceremonies, cred: Creds \cup {None}] \cup {None}
  /\ tasks \subseteq Task
  /\ saved \subseteq Keys /\ owed \subseteq Keys

PageTypes ==
  /\ phase \in Phases
  /\ overview \in Fetched /\ fetch \in Fetch \cup {None} /\ missed \in BOOLEAN
  /\ section \subseteq SectionTask
  /\ started \in 0..MaxStarted

Types == ServerTypes /\ PanelTypes /\ PageTypes

LEMMA TypesSuffice == Types => TypeOK
<1>1. Ceremonies \subseteq Keys
  BY DEF Keys
<1>2. [key: Ceremonies, cred: Creds \cup {None}] \subseteq Pending
  BY <1>1 DEF Pending
<1> QED
  BY <1>2, Zenon DEF Types, ServerTypes, PanelTypes, PageTypes, TypeOK

LEMMA Constants ==
  /\ Ceremonies \subseteq Keys /\ 0 \in Keys /\ Elsewhere \in Keys /\ Elsewhere \notin Ceremonies
  /\ None \notin Keys /\ None \notin Creds /\ None \notin SUBSET Creds
  /\ None \notin Pending /\ None \notin Fetch
  /\ MaxStarted \in Nat
<1>1. None \notin Keys /\ None \notin Creds /\ None \notin SUBSET Creds /\ None \notin Pending /\ None \notin Fetch
  BY NoneAssumption, Zenon
<1>2. MaxStarted \in Nat
  BY BoundsAssumption, Zenon
<1> QED
  BY <1>1, <1>2 DEF Keys, Ceremonies, Elsewhere

LEMMA EnrolledAreCreds ==
  ASSUME ServerTypes
  PROVE  Enrolled \subseteq Creds
  BY DEF ServerTypes, Enrolled

\* A request to turn encryption on is one the server can be asked.
LEMMA RequestIsPending ==
  ASSUME NEW t \in Task
  PROVE  Request(t) \in Pending /\ Request(t).key = t.n /\ Request(t).cred = t.cred
  BY Constants DEF Task, Request, Pending

LEMMA EnableTypes ==
  ASSUME ServerTypes, NEW p \in Pending, Enable(p)
  PROVE  wrapped' \subseteq Creds /\ keyOn' \in Keys
  BY DEF ServerTypes, Enable, Pending

LEMMA ServerTypesStep ==
  ASSUME Types, [Next]_vars
  PROVE  ServerTypes'
<1>0. ServerTypes /\ tasks \subseteq Task /\ section \subseteq SectionTask
  BY DEF Types, PanelTypes, PageTypes
<1>a. Enrolled \subseteq Creds
  BY <1>0, EnrolledAreCreds
<1> USE DEF ServerTypes
<1>1. ASSUME NEW t \in tasks, ServerEnables(t) PROVE ServerTypes'
  <2>1. Request(t) \in Pending
    BY <1>0, RequestIsPending
  <2>2. wrapped' \subseteq Creds /\ keyOn' \in Keys \cup {None}
    BY <1>0, <1>1, <2>1, EnableTypes DEF ServerEnables
  <2> QED
    BY <1>0, <1>1, <2>2 DEF ServerEnables
<1>2. ASSUME NEW t \in tasks, CommitLost(t) PROVE ServerTypes'
  <2>1. Request(t) \in Pending
    BY <1>0, RequestIsPending
  <2> QED
    BY <1>0, <1>2, <2>1 DEF CommitLost
<1>3. ASSUME NEW t \in tasks, ServerReissues(t) PROVE ServerTypes'
  <2>1. t.n \in Keys
    BY <1>0, Constants DEF Task
  <2> QED
    BY <1>0, <1>3, <2>1 DEF ServerReissues
<1>4. ASSUME NEW t \in tasks, ServerGives(t) PROVE ServerTypes'
  BY <1>0, <1>4, <1>a DEF ServerGives, MayGive
<1>5. ASSUME NEW p \in adrift, ServedLate(p) PROVE ServerTypes'
  <2>1. wrapped' \subseteq Creds /\ keyOn' \in Keys \cup {None}
    BY <1>0, <1>5, EnableTypes DEF ServedLate
  <2> QED
    BY <1>0, <1>5, <2>1 DEF ServedLate
<1>6. ASSUME NEW r \in section, ServerRemoves(r) PROVE ServerTypes'
  BY <1>0, <1>6 DEF ServerRemoves, Delete
<1>7. ASSUME NEW r \in section, ServerEnrols(r) PROVE ServerTypes'
  <2>1. r.cred \in Creds \cup {None}
    BY <1>0 DEF SectionTask
  <2> QED
    BY <1>0, <1>7, <2>1 DEF ServerEnrols, Enrol
<1>8. ASSUME NEW r \in section, ServerKeys(r) PROVE ServerTypes'
  BY <1>0, <1>8, <1>a DEF ServerKeys, MayGive
<1>9. CASE ReloadPage
  <2>1. \A t \in tasks : Request(t) \in Pending
    BY <1>0, RequestIsPending
  <2> QED
    BY <1>0, <1>9, <2>1 DEF ReloadPage, Mount
<1>10. CASE AnotherDevice
  <2>0. UNCHANGED adrift
    BY <1>10 DEF AnotherDevice
  <2>1. ASSUME NEW c \in Creds, Enrol(c), UNCHANGED <<wrapped, keyOn>> PROVE ServerTypes'
    BY <1>0, <2>0, <2>1 DEF Enrol
  <2>2. ASSUME NEW i \in RowIds, Delete(i), UNCHANGED keyOn PROVE ServerTypes'
    BY <1>0, <2>0, <2>2 DEF Delete
  <2>3. ASSUME NEW c \in (Enrolled \cap Capable) \cup {None}, Enable([key |-> Elsewhere, cred |-> c]), UNCHANGED row
        PROVE  ServerTypes'
    <3>1. [key |-> Elsewhere, cred |-> c] \in Pending
      BY <1>a, <2>3, Constants DEF Pending
    <3> QED
      BY <1>0, <2>0, <2>3, <3>1, EnableTypes
  <2>4. ASSUME keyOn' = Elsewhere, UNCHANGED <<row, wrapped>> PROVE ServerTypes'
    BY <1>0, <2>0, <2>4, Constants
  <2>5. ASSUME NEW c \in Capable, NEW s \in Sources,
               MayGive(c, s), wrapped' = wrapped \cup {c}, UNCHANGED <<row, keyOn>>
        PROVE  ServerTypes'
    BY <1>0, <1>a, <2>0, <2>5 DEF MayGive
  <2> QED
    BY <1>10, <2>1, <2>2, <2>3, <2>4, <2>5 DEF AnotherDevice
<1>11. CASE UNCHANGED server
  BY <1>0, <1>11 DEF server
<1> QED
  BY <1>1, <1>2, <1>3, <1>4, <1>5, <1>6, <1>7, <1>8, <1>9, <1>10, <1>11, ServerFrame, Zenon DEF ServerStep

LEMMA PanelConstants ==
  /\ Other \in Status /\ Idle \in Mode
  /\ \A k \in Keys : [kind |-> "Refused", key |-> k] \in Status
  BY DEF Other, Status, Idle, Mode

LEMMA StartTypes ==
  ASSUME Types, NEW op \in {"enable", "lock", "reissue", "give"}, NEW route \in EnableRoutes \cup {None},
         NEW cred \in Creds \cup {None}, NEW source \in Sources \cup {None},
         Start(op, route, cred, source, started + 1)
  PROVE  tasks' \subseteq Task /\ busy' \in BOOLEAN
<1>1. started + 1 \in Ceremonies
  BY Constants DEF Start, Begin, Types, PageTypes, Ceremonies
<1>2. [op |-> op, n |-> started + 1, route |-> route, cred |-> cred,
       source |-> source, stage |-> "sent", here |-> TRUE] \in Task
  BY <1>1 DEF Task
<1>3. tasks \subseteq Task
  BY DEF Types, PanelTypes
<1>4. busy' \in BOOLEAN
  BY Zenon DEF Start
<1> QED
  BY <1>2, <1>3, <1>4 DEF Start

LEMMA SettleTypes ==
  ASSUME Types, NEW t \in tasks, NEW mode1 \in Mode, NEW status1 \in Status, Settle(t, mode1, status1)
  PROVE  tasks' \subseteq Task /\ busy' \in BOOLEAN /\ mode' \in Mode /\ status' \in Status
<1>1. tasks \subseteq Task /\ mode \in Mode /\ status \in Status
  BY DEF Types, PanelTypes
<1>2. busy' \in BOOLEAN
  BY Zenon DEF Settle, Types, PanelTypes
<1> QED
  BY <1>1, <1>2 DEF Settle

LEMMA StageTypes ==
  ASSUME Types, NEW t \in tasks, NEW stage \in {"sent", "stored", "refused"}, Stage(t, stage)
  PROVE  tasks' \subseteq Task
<1>1. tasks \subseteq Task
  BY DEF Types, PanelTypes
<1>2. [t EXCEPT !.stage = stage] \in Task
  BY <1>1 DEF Task
<1> QED
  BY <1>1, <1>2 DEF Stage

LEMMA PanelTypesStep ==
  ASSUME Types, [Next]_vars
  PROVE  PanelTypes'
<1>0. PanelTypes /\ Enrolled \subseteq Creds /\ started \in 0..MaxStarted
  BY EnrolledAreCreds DEF Types, PageTypes
<1>a. Other \in Status /\ Idle \in Mode
  BY PanelConstants
<1>b. \A t \in tasks : t \in Task /\ t.n \in Ceremonies /\ t.n \in Keys
  BY <1>0, Constants DEF PanelTypes, Task
<1>c. \A t \in tasks : t.cred \in Creds \cup {None} /\ t.route \in EnableRoutes \cup {None}
  BY <1>0 DEF PanelTypes, Task
<1>d. UNCHANGED busy => busy' \in BOOLEAN
  BY <1>0, Zenon DEF PanelTypes
<1> USE DEF PanelTypes
<1>1. CASE TurnOn
  <2>1. EnableRoute(overview) \in EnableRoutes \cup {None}
    BY DEF EnableRoute, EnableRoutes
  <2>2. tasks' \subseteq Task /\ busy' \in BOOLEAN
    BY <1>1, <2>1, StartTypes DEF TurnOn, BeginEnable
  <2> QED
    BY <1>0, <1>a, <1>1, <2>2 DEF TurnOn, BeginEnable
<1>2. CASE ConfirmNewKey
  <2>1. pending \in [key: Ceremonies, cred: Creds \cup {None}]
    BY <1>0, <1>2 DEF ConfirmNewKey
  <2>2. [op |-> "commit", n |-> pending.key, route |-> None, cred |-> pending.cred,
         source |-> None, stage |-> "sent", here |-> TRUE] \in Task
    BY <2>1 DEF Task
  <2>3. pending.key \in Keys
    BY <2>1, Constants
  <2>4. busy' \in BOOLEAN
    BY <1>2, Zenon DEF ConfirmNewKey
  <2> QED
    BY <1>0, <1>a, <1>2, <2>2, <2>3, <2>4 DEF ConfirmNewKey
<1>3. CASE LockNow
  <2>1. tasks' \subseteq Task /\ busy' \in BOOLEAN
    BY <1>3, StartTypes DEF LockNow
  <2> QED
    BY <1>0, <1>a, <1>3, <2>1 DEF LockNow
<1>4. ASSUME NEW kind \in {"Reissue", "GiveKey"}, NEW c \in Creds \cup {None}, OpenCard(kind, c) PROVE PanelTypes'
  <2>1. [Idle EXCEPT !.kind = kind, !.cred = c] \in Mode
    BY DEF Idle, Mode
  <2>2. busy' \in BOOLEAN
    BY <1>0, <1>4, Zenon DEF OpenCard
  <2>3. UNCHANGED <<pending, tasks, saved, owed>> /\ mode' \in Mode /\ status' \in Status
    BY <1>a, <1>4, <2>1 DEF OpenCard, keys
  <2> QED
    BY <1>0, <2>2, <2>3
<1>5. CASE CloseCard
  <2>1. busy' \in BOOLEAN
    BY <1>0, <1>5, Zenon DEF CloseCard
  <2>2. UNCHANGED <<pending, tasks, saved>> /\ owed' \subseteq owed /\ mode' \in Mode /\ status' \in Status
    BY <1>a, <1>5 DEF CloseCard
  <2> QED
    BY <1>0, <2>1, <2>2
<1>6. CASE RetryProbe
  <2>1. UNCHANGED <<mode, pending, tasks, saved, owed>> /\ status' \in Status
    BY <1>a, <1>6 DEF RetryProbe, keys
  <2>2. busy' \in BOOLEAN
    BY <1>0, <1>6, Zenon DEF RetryProbe
  <2> QED
    BY <1>0, <2>1, <2>2
<1>7. ASSUME NEW kind, NEW op \in {"reissue", "give"}, NEW source \in Sources, Open(kind, op, source) PROVE PanelTypes'
  <2>1. mode.cred \in Creds \cup {None}
    BY <1>0 DEF Mode
  <2>2. tasks' \subseteq Task /\ busy' \in BOOLEAN
    BY <1>7, <2>1, StartTypes DEF Open
  <2> QED
    BY <1>0, <1>a, <1>7, <2>2 DEF Open
<1>8. ASSUME NEW t \in tasks, EnableReady(t) PROVE PanelTypes'
  <2>1. PICK c \in Creds \cup {None} : Minted(t, c)
    BY <1>0, <1>8 DEF EnableReady
  <2>2. [kind |-> "NewKey", key |-> t.n, route |-> t.route, cred |-> None] \in Mode
    BY <1>b, <1>c DEF Mode
  <2>3. /\ tasks' \subseteq Task /\ busy' \in BOOLEAN /\ mode' \in Mode /\ status' \in Status
    BY <1>0, <2>1, <2>2, SettleTypes DEF Minted
  <2>4. pending' \in [key: Ceremonies, cred: Creds \cup {None}]
    BY <1>b, <2>1 DEF Minted
  <2>5. owed' \subseteq Keys /\ saved' \subseteq Keys
    BY <1>0, <1>b, <1>8, <2>1 DEF Minted, EnableReady
  <2> QED
    BY <2>3, <2>4, <2>5
<1>9. ASSUME NEW t \in tasks, ServerEnables(t) PROVE PanelTypes'
  <2>1. tasks' \subseteq Task
    BY <1>9, StageTypes DEF ServerEnables
  <2> QED
    BY <1>0, <1>d, <1>9, <2>1 DEF ServerEnables, keys
<1>10. ASSUME NEW t \in tasks, CommitTold(t) PROVE PanelTypes'
  <2>1. EnableFailed(t, TRUE) \in Status
    BY <1>b, PanelConstants DEF EnableFailed
  <2>2. /\ tasks' \subseteq Task /\ busy' \in BOOLEAN /\ mode' \in Mode /\ status' \in Status
    BY <1>a, <1>10, <2>1, SettleTypes DEF CommitTold
  <2> QED
    BY <1>0, <1>10, <2>2 DEF CommitTold, keys
<1>11. ASSUME NEW t \in tasks, CommitLost(t) PROVE PanelTypes'
  <2>1. EnableFailed(t, FALSE) \in Status
    BY <1>a DEF EnableFailed
  <2>2. /\ tasks' \subseteq Task /\ busy' \in BOOLEAN /\ mode' \in Mode /\ status' \in Status
    BY <1>a, <1>11, <2>1, SettleTypes DEF CommitLost
  <2> QED
    BY <1>0, <1>11, <2>2 DEF CommitLost, keys
<1>12. ASSUME NEW t \in tasks, LockTold(t) \/ Fails(t) PROVE PanelTypes'
  <2>1. /\ tasks' \subseteq Task /\ busy' \in BOOLEAN /\ mode' \in Mode /\ status' \in Status
    BY <1>0, <1>a, <1>12, SettleTypes DEF LockTold, Fails
  <2> QED
    BY <1>0, <1>12, <2>1 DEF LockTold, Fails, keys
<1>13. ASSUME NEW t \in tasks, ServerReissues(t) \/ ServerGives(t) PROVE PanelTypes'
  <2>1. tasks' \subseteq Task
    BY <1>13, StageTypes DEF ServerReissues, ServerGives
  <2> QED
    BY <1>0, <1>d, <1>13, <2>1 DEF ServerReissues, ServerGives, keys
<1>14. ASSUME NEW t \in tasks, ReissueTold(t) PROVE PanelTypes'
  <2>1. [Idle EXCEPT !.kind = "ReissuedKey", !.key = t.n] \in Mode
    BY <1>b DEF Idle, Mode
  <2>2. /\ tasks' \subseteq Task /\ busy' \in BOOLEAN /\ mode' \in Mode /\ status' \in Status
    BY <1>0, <1>14, <2>1, SettleTypes DEF ReissueTold
  <2> QED
    BY <1>0, <1>b, <1>14, <2>2 DEF ReissueTold
<1>15. ASSUME NEW t \in tasks, GiveTold(t) PROVE PanelTypes'
  <2>1. /\ tasks' \subseteq Task /\ busy' \in BOOLEAN /\ mode' \in Mode /\ status' \in Status
    BY <1>a, <1>15, SettleTypes DEF GiveTold
  <2> QED
    BY <1>0, <1>15, <2>1 DEF GiveTold, keys
<1>16. ASSUME NEW phase1, Mount(phase1), tasks' \subseteq Task PROVE PanelTypes'
  <2>1. busy' \in BOOLEAN
    BY <1>16, Zenon DEF Mount
  <2> QED
    BY <1>0, <1>a, <1>16, <2>1 DEF Mount
<1>17. CASE Leave
  <2>1. \A t \in Task : [t EXCEPT !.here = FALSE] \in Task
    BY DEF Task
  <2>2. tasks' \subseteq Task
    BY <1>b, <1>17, <2>1 DEF Leave
  <2> QED
    BY <1>16, <1>17, <2>2 DEF Leave
<1>18. CASE ReloadPage
  BY <1>16, <1>18 DEF ReloadPage
<1>19. CASE UNCHANGED <<cards, saved, owed>>
  BY <1>0, <1>d, <1>19 DEF cards
<1> QED
  <2>1. CASE StartReissue \/ \E c \in Creds : StartGive(c)
    BY <1>4, <2>1 DEF StartReissue, StartGive
  <2>2. CASE \E s \in Sources : OpenReissue(s) \/ OpenGive(s)
    BY <1>7, <2>2 DEF OpenReissue, OpenGive
  <2> QED
    BY <1>1, <1>2, <1>3, <1>5, <1>6, <1>8, <1>9, <1>10, <1>11, <1>12, <1>13, <1>14,
       <1>15, <1>17, <1>18, <1>19, <2>1, <2>2, PanelFrame, Zenon DEF PanelStep

\* A load for a phase, or none.
LEMMA LoadTypes ==
  ASSUME overview \in Fetched, NEW phase1, Load(phase1)
  PROVE  overview' \in Fetched /\ fetch' \in Fetch \cup {None} /\ missed' \in BOOLEAN
<1>1. NoOverview \in Fetched
  BY DEF NoOverview, Fetched
<1>2. [encrypted |-> phase1 # "Off", rows |-> None] \in Fetch
  BY DEF Fetch
<1>3. missed' \in BOOLEAN
  BY Zenon DEF Load
<1> QED
  BY <1>1, <1>2, <1>3 DEF Load

\* What load_overview makes of passkeys it has read.
LEMMA OverviewTypes ==
  ASSUME NEW rows \in SUBSET Creds, NEW encrypted \in BOOLEAN
  PROVE  Overview(rows, encrypted) \in Fetched
  BY DEF Overview, Fetched, Encrypted

\* A page that mounts.
LEMMA MountTypes ==
  ASSUME NEW phase1, Mount(phase1)
  PROVE  overview' \in Fetched /\ fetch' \in Fetch \cup {None} /\ missed' \in BOOLEAN
<1>1. NoOverview \in Fetched
  BY DEF NoOverview, Fetched
<1>2. [encrypted |-> phase1 # "Off", rows |-> None] \in Fetch
  BY DEF Fetch
<1>3. missed' \in BOOLEAN
  BY Zenon DEF Mount
<1> QED
  BY <1>1, <1>2, <1>3 DEF Mount

\* What fetches, or changes what the page says of the account.
LEMMA FetchingStep ==
  ASSUME missed \in BOOLEAN, [Next]_vars
  PROVE  \/ UNCHANGED <<phase, overview, fetch>> /\ missed' \in BOOLEAN /\ (missed => missed')
         \/ UNCHANGED phase /\ Refresh
         \/ \E phase1 \in Phases : Phase(phase1) /\ UNCHANGED <<server, section>>
         \/ PasskeysRead \/ WrapsRead \/ LoadFails
         \/ \E phase1 \in Phases \cup {phase} : Mount(phase1)
<1> USE DEF fetching, Phases
<1>1. CASE TurnOn \/ ConfirmNewKey \/ StartReissue \/ CloseCard \/ Rename
  BY <1>1 DEF TurnOn, BeginEnable, ConfirmNewKey, StartReissue, OpenCard, CloseCard, Rename, Ask
<1>2. CASE LockNow
  BY <1>2 DEF LockNow
<1>3. CASE RetryProbe
  BY <1>3 DEF RetryProbe
<1>4. ASSUME NEW c \in Creds, StartGive(c) \/ Add(c) PROVE UNCHANGED <<phase, fetching>>
  BY <1>4 DEF StartGive, OpenCard, Add, Ask
<1>5. ASSUME NEW s \in Sources, OpenReissue(s) \/ OpenGive(s) PROVE UNCHANGED <<phase, fetching>>
  BY <1>5 DEF OpenReissue, OpenGive, Open
<1>6. ASSUME NEW t \in tasks, EnableReady(t) \/ ServerEnables(t) \/ LockTold(t) \/ ReissueTold(t)
      PROVE  UNCHANGED <<phase, fetching>>
  BY <1>6 DEF EnableReady, ServerEnables, LockTold, ReissueTold
<1>7. ASSUME NEW t \in tasks, CommitTold(t)
      PROVE  UNCHANGED <<phase, fetching>> \/ (Phase("Unlocked") /\ UNCHANGED <<server, section>>)
  BY <1>7 DEF CommitTold
<1>8. ASSUME NEW t \in tasks, CommitLost(t) \/ Fails(t)
      PROVE  UNCHANGED <<phase, overview, fetch>> /\ missed' \in BOOLEAN /\ (missed => missed')
  <2>1. UNCHANGED <<phase, overview, fetch>> /\ missed' = (missed \/ t.stage = "stored")
    BY <1>8 DEF CommitLost, Fails
  <2>2. missed' \in BOOLEAN /\ (missed => missed')
    BY <2>1, Zenon
  <2> QED
    BY <2>1, <2>2
<1>9. ASSUME NEW t \in tasks, ServerReissues(t) \/ ServerGives(t)
      PROVE  UNCHANGED <<phase, overview, fetch>> /\ missed' \in BOOLEAN /\ (missed => missed')
  <2>1. UNCHANGED <<phase, overview, fetch>> /\ missed' = (missed \/ ~t.here)
    BY <1>9 DEF ServerReissues, ServerGives, Missed
  <2>2. missed' \in BOOLEAN /\ (missed => missed')
    BY <2>1, Zenon
  <2> QED
    BY <2>1, <2>2
<1>10. ASSUME NEW t \in tasks, GiveTold(t) PROVE UNCHANGED phase /\ (Refresh \/ UNCHANGED fetching)
  BY <1>10 DEF GiveTold
<1>11. ASSUME NEW p \in adrift, ServedLate(p) PROVE UNCHANGED <<phase, overview, fetch>> /\ missed' \in BOOLEAN /\ (missed => missed')
  <2>1. UNCHANGED <<phase, overview, fetch>>
    BY <1>11 DEF ServedLate
  <2>2. missed' \in BOOLEAN /\ (missed => missed')
    BY <1>11, Zenon DEF ServedLate
  <2> QED
    BY <2>1, <2>2
<1>12. CASE Probe
  BY <1>12 DEF Probe
<1>13. ASSUME NEW i \in RowIds, Remove(i) PROVE UNCHANGED <<phase, fetching>>
  BY <1>13 DEF Remove, Ask
<1>14. ASSUME NEW r \in section, ServerRemoves(r) \/ ServerEnrols(r) \/ ServerKeys(r)
       PROVE  UNCHANGED <<phase, overview, fetch>> /\ missed' \in BOOLEAN /\ (missed => missed')
  <2>1. UNCHANGED <<phase, overview, fetch>> /\ (missed' = (missed \/ ~r.here) \/ UNCHANGED missed)
    BY <1>14 DEF ServerRemoves, ServerEnrols, ServerKeys, Missed
  <2>2. missed' \in BOOLEAN /\ (missed => missed')
    BY <2>1, Zenon
  <2> QED
    BY <2>1, <2>2
<1>15. ASSUME NEW r \in section, ServerRenames(r) PROVE UNCHANGED <<phase, fetching>>
  BY <1>15 DEF ServerRenames
<1>16. ASSUME NEW r \in section, Told(r) PROVE UNCHANGED phase /\ (Refresh \/ UNCHANGED fetching)
  BY <1>16 DEF Told
<1>17. ASSUME NEW r \in section, SectionFails(r)
       PROVE  UNCHANGED <<phase, overview, fetch>> /\ missed' \in BOOLEAN /\ (missed => missed')
  <2>1. UNCHANGED <<phase, overview, fetch>> /\ missed' = (missed \/ r.stage # "sent")
    BY <1>17 DEF SectionFails
  <2>2. missed' \in BOOLEAN /\ (missed => missed')
    BY <2>1, Zenon
  <2> QED
    BY <2>1, <2>2
<1>18. CASE Leave
  BY <1>18 DEF Leave
<1>19. CASE ReloadPage
  BY <1>19 DEF ReloadPage
<1>20. CASE AnotherDevice
  <2>1. UNCHANGED <<phase, overview, fetch>>
    BY <1>20 DEF AnotherDevice
  <2>2. missed' \in BOOLEAN /\ (missed => missed')
    BY <1>20, Zenon DEF AnotherDevice
  <2> QED
    BY <2>1, <2>2
<1>21. CASE UNCHANGED vars
  BY <1>21 DEF vars
<1> QED
  BY <1>1, <1>2, <1>3, <1>4, <1>5, <1>6, <1>7, <1>8, <1>9, <1>10, <1>11, <1>12, <1>13, <1>14,
     <1>15, <1>16, <1>17, <1>18, <1>19, <1>20, <1>21 DEF Next

LEMMA FetchTypesStep ==
  ASSUME Types, [Next]_vars
  PROVE  phase' \in Phases /\ overview' \in Fetched /\ fetch' \in Fetch \cup {None} /\ missed' \in BOOLEAN
<1> DEFINE Goal == phase' \in Phases /\ overview' \in Fetched /\ fetch' \in Fetch \cup {None} /\ missed' \in BOOLEAN
<1>0. phase \in Phases /\ overview \in Fetched /\ fetch \in Fetch \cup {None} /\ missed \in BOOLEAN
  BY DEF Types, PageTypes
<1>a. Enrolled \subseteq Creds
  BY EnrolledAreCreds DEF Types
<1>1. CASE UNCHANGED <<phase, overview, fetch>> /\ missed' \in BOOLEAN
  BY <1>0, <1>1
<1>2. CASE UNCHANGED phase /\ Refresh
  BY <1>0, <1>2, LoadTypes DEF Refresh
<1>3. ASSUME NEW phase1 \in Phases, Phase(phase1) PROVE Goal
  <2>1. CASE phase1 # phase
    BY <1>0, <1>3, <2>1, LoadTypes DEF Phase
  <2>2. CASE phase1 = phase
    BY <1>0, <1>3, <2>2 DEF Phase, fetching
  <2> QED
    BY <2>1, <2>2
<1>4. CASE PasskeysRead
  <2>0. fetch \in Fetch /\ UNCHANGED <<phase, missed>>
    BY <1>0, <1>4 DEF PasskeysRead
  <2>1. CASE fetch.encrypted
    <3>1. [fetch EXCEPT !.rows = Enrolled] \in Fetch
      BY <1>a, <2>0 DEF Fetch
    <3> QED
      BY <1>0, <1>4, <2>0, <2>1, <3>1 DEF PasskeysRead
  <2>2. CASE ~fetch.encrypted
    <3>1. Overview(Enrolled, FALSE) \in Fetched
      BY <1>a, OverviewTypes
    <3> QED
      BY <1>0, <1>4, <2>0, <2>2, <3>1 DEF PasskeysRead
  <2> QED
    BY <2>1, <2>2
<1>5. CASE WrapsRead
  <2>0. fetch \in Fetch /\ fetch.rows \in SUBSET Creds /\ UNCHANGED <<phase, missed>>
    BY <1>0, <1>5 DEF WrapsRead, Fetch
  <2>1. Overview(fetch.rows, TRUE) \in Fetched
    BY <2>0, OverviewTypes
  <2> QED
    BY <1>0, <1>5, <2>0, <2>1 DEF WrapsRead
<1>6. CASE LoadFails
  <2>1. NoAnswer \in Fetched
    BY DEF NoAnswer, NoOverview, Fetched
  <2> QED
    BY <1>0, <1>6, <2>1 DEF LoadFails
<1>7. ASSUME NEW phase1 \in Phases \cup {phase}, Mount(phase1) PROVE Goal
  BY <1>0, <1>7, MountTypes DEF Mount
<1> QED
  BY <1>0, <1>1, <1>2, <1>3, <1>4, <1>5, <1>6, <1>7, FetchingStep

\* The requests of the list are begun, answered and dropped.
LEMMA SectionStep ==
  ASSUME [Next]_vars
  PROVE  \/ section' \subseteq section
         \/ \E op \in {"remove", "rename", "add"} : \E i \in RowIds \cup {None} : \E c \in Creds \cup {None} : Ask(op, i, c)
         \/ \E r \in section : \E stage \in {"stored", "keying", "keyed"} : Answer(r, stage)
         \/ section' = {[r EXCEPT !.here = FALSE] :
                          r \in {q \in section : q.op # "rename" /\ q.stage \in {"sent", "keying"}}}
<1>1. CASE TurnOn \/ ConfirmNewKey \/ LockNow \/ StartReissue \/ CloseCard \/ RetryProbe
  BY <1>1 DEF TurnOn, BeginEnable, ConfirmNewKey, LockNow, StartReissue, OpenCard, CloseCard, RetryProbe
<1>2. CASE Rename
  BY <1>2 DEF Rename
<1>3. ASSUME NEW c \in Creds, Add(c)
      PROVE  \E op \in {"remove", "rename", "add"} : \E i \in RowIds \cup {None} : \E d \in Creds \cup {None} : Ask(op, i, d)
  BY <1>3 DEF Add
<1>4. ASSUME NEW c \in Creds, StartGive(c) PROVE UNCHANGED section
  BY <1>4 DEF StartGive, OpenCard
<1>5. ASSUME NEW s \in Sources, OpenReissue(s) \/ OpenGive(s) PROVE UNCHANGED section
  BY <1>5 DEF OpenReissue, OpenGive, Open
<1>6. ASSUME NEW t \in tasks,
             \/ EnableReady(t) \/ ServerEnables(t) \/ CommitTold(t) \/ CommitLost(t) \/ LockTold(t)
             \/ ServerReissues(t) \/ ReissueTold(t) \/ ServerGives(t) \/ GiveTold(t) \/ Fails(t)
      PROVE  UNCHANGED section
  BY <1>6 DEF EnableReady, ServerEnables, CommitTold, CommitLost, LockTold,
              ServerReissues, ReissueTold, ServerGives, GiveTold, Fails
<1>7. ASSUME NEW p \in adrift, ServedLate(p) PROVE UNCHANGED section
  BY <1>7 DEF ServedLate
<1>8. CASE PasskeysRead \/ WrapsRead \/ LoadFails \/ Probe \/ AnotherDevice
  BY <1>8 DEF PasskeysRead, WrapsRead, LoadFails, Probe, AnotherDevice
<1>9. ASSUME NEW i \in RowIds, Remove(i)
      PROVE  \E op \in {"remove", "rename", "add"} : \E j \in RowIds \cup {None} : \E d \in Creds \cup {None} : Ask(op, j, d)
  BY <1>9 DEF Remove
<1>10. ASSUME NEW r \in section, ServerRemoves(r) \/ ServerRenames(r) \/ ServerEnrols(r) \/ ServerKeys(r)
       PROVE  \E stage \in {"stored", "keying", "keyed"} : Answer(r, stage)
  BY <1>10 DEF ServerRemoves, ServerRenames, ServerEnrols, ServerKeys
<1>11. ASSUME NEW r \in section, Told(r) \/ SectionFails(r) PROVE section' \subseteq section
  BY <1>11 DEF Told, SectionFails
<1>12. CASE Leave
  BY <1>12 DEF Leave
<1>13. CASE ReloadPage
  BY <1>13 DEF ReloadPage
<1>14. CASE UNCHANGED vars
  BY <1>14 DEF vars
<1> QED
  BY <1>1, <1>2, <1>3, <1>4, <1>5, <1>6, <1>7, <1>8, <1>9, <1>10, <1>11, <1>12, <1>13, <1>14 DEF Next

LEMMA SectionTypesStep ==
  ASSUME Types, [Next]_vars
  PROVE  section' \subseteq SectionTask
<1>0. section \subseteq SectionTask
  BY DEF Types, PageTypes
<1>1. CASE section' \subseteq section
  BY <1>0, <1>1
<1>2. ASSUME NEW op \in {"remove", "rename", "add"}, NEW i \in RowIds \cup {None}, NEW c \in Creds \cup {None}, Ask(op, i, c)
      PROVE  section' \subseteq SectionTask
  <2>1. [op |-> op, id |-> i, cred |-> c, encrypted |-> phase \in {"Locked", "Unlocked"},
         stage |-> "sent", here |-> TRUE] \in SectionTask
    BY DEF SectionTask
  <2> QED
    BY <1>0, <1>2, <2>1 DEF Ask
<1>3. ASSUME NEW r \in section, NEW stage \in {"stored", "keying", "keyed"}, Answer(r, stage)
      PROVE  section' \subseteq SectionTask
  <2>1. [r EXCEPT !.stage = stage] \in SectionTask
    BY <1>0 DEF SectionTask
  <2> QED
    BY <1>0, <1>3, <2>1 DEF Answer
<1>4. CASE section' = {[r EXCEPT !.here = FALSE] :
                          r \in {q \in section : q.op # "rename" /\ q.stage \in {"sent", "keying"}}}
  <2>1. \A r \in section : [r EXCEPT !.here = FALSE] \in SectionTask
    BY <1>0 DEF SectionTask
  <2> QED
    BY <1>4, <2>1
<1> QED
  BY <1>1, <1>2, <1>3, <1>4, SectionStep

\* Nothing is begun without being counted, and the count stays in its bound.
LEMMA StartedStep ==
  ASSUME Types, [Next]_vars
  PROVE  started' \in 0..MaxStarted /\ started <= started'
<1>0. started \in 0..MaxStarted
  BY DEF Types, PageTypes
<1> DEFINE Goal == started' \in 0..MaxStarted /\ started <= started'
<1>1. CASE started' = started
  BY <1>0, <1>1, Constants
<1>2. CASE Begin
  BY <1>0, <1>2, Constants DEF Begin
<1>3. CASE TurnOn \/ LockNow \/ Rename \/ AnotherDevice
  BY <1>2, <1>3 DEF TurnOn, BeginEnable, LockNow, Start, Rename, Ask, AnotherDevice
<1>4. CASE ConfirmNewKey \/ StartReissue \/ CloseCard \/ RetryProbe
  BY <1>1, <1>4 DEF ConfirmNewKey, StartReissue, OpenCard, CloseCard, RetryProbe, keys
<1>5. ASSUME NEW c \in Creds, StartGive(c) \/ Add(c) PROVE Goal
  BY <1>1, <1>2, <1>5 DEF StartGive, OpenCard, Add, Ask, keys
<1>6. ASSUME NEW s \in Sources, OpenReissue(s) \/ OpenGive(s) PROVE Goal
  BY <1>2, <1>6 DEF OpenReissue, OpenGive, Open, Start
<1>7. ASSUME NEW t \in tasks,
             \/ EnableReady(t) \/ ServerEnables(t) \/ CommitTold(t) \/ CommitLost(t) \/ LockTold(t)
             \/ ServerReissues(t) \/ ReissueTold(t) \/ ServerGives(t) \/ GiveTold(t) \/ Fails(t)
      PROVE  started' = started
  BY <1>7 DEF EnableReady, ServerEnables, CommitTold, CommitLost, LockTold,
              ServerReissues, ReissueTold, ServerGives, GiveTold, Fails, keys
<1>8. ASSUME NEW p \in adrift, ServedLate(p) PROVE started' = started
  BY <1>8 DEF ServedLate, keys
<1>9. CASE PasskeysRead \/ WrapsRead \/ LoadFails \/ Probe \/ Leave \/ ReloadPage
  BY <1>1, <1>9 DEF PasskeysRead, WrapsRead, LoadFails, Probe, Leave, ReloadPage, Mount, keys
<1>10. ASSUME NEW i \in RowIds, Remove(i) PROVE Goal
  BY <1>2, <1>10 DEF Remove, Ask
<1>11. ASSUME NEW r \in section,
              \/ ServerRemoves(r) \/ ServerRenames(r) \/ ServerEnrols(r) \/ ServerKeys(r) \/ Told(r) \/ SectionFails(r)
       PROVE  started' = started
  BY <1>11 DEF ServerRemoves, ServerRenames, ServerEnrols, ServerKeys, Told, SectionFails, keys
<1>12. CASE UNCHANGED vars
  BY <1>1, <1>12 DEF vars, keys
<1> QED
  BY <1>1, <1>3, <1>4, <1>5, <1>6, <1>7, <1>8, <1>9, <1>10, <1>11, <1>12 DEF Next

LEMMA TypeStep == Types /\ [Next]_vars => Types'
<1> SUFFICES ASSUME Types, [Next]_vars PROVE Types'
  OBVIOUS
<1>1. PageTypes'
  BY FetchTypesStep, SectionTypesStep, StartedStep DEF PageTypes
<1> QED
  BY <1>1, ServerTypesStep, PanelTypesStep DEF Types

LEMMA TypeInit == Init => Types
<1> SUFFICES ASSUME Init PROVE Types
  OBVIOUS
<1>1. busy \in BOOLEAN /\ missed \in BOOLEAN
  BY Zenon DEF Init
<1>2. ServerTypes
  <2>1. PICK c \in Creds \cup {None} : row = [i \in RowIds |-> IF i = 1 THEN c ELSE None]
    BY DEF Init
  <2>2. row \in [RowIds -> Creds \cup {None}]
    BY <2>1
  <2>3. wrapped = {} /\ adrift = {} /\ keyOn \in Keys \cup {None}
    BY Constants DEF Init
  <2> QED
    BY <2>2, <2>3 DEF ServerTypes
<1>3. PanelTypes
  <2>1. mode \in Mode /\ status \in Status /\ pending = None /\ tasks = {} /\ saved = {} /\ owed = {}
    BY PanelConstants DEF Init
  <2> QED
    BY <1>1, <2>1 DEF PanelTypes
<1>4. PageTypes
  <2>1. phase \in Phases /\ fetch = None /\ section = {}
    BY DEF Init, Phases
  <2>2. overview \in Fetched
    BY DEF Init, NoOverview, Fetched
  <2>3. started \in 0..MaxStarted
    BY Constants DEF Init
  <2> QED
    BY <1>1, <2>1, <2>2, <2>3 DEF PageTypes
<1> QED
  BY <1>2, <1>3, <1>4 DEF Types

LEMMA TypesAlways == Spec => []Types
  BY TypeInit, TypeStep, PTL DEF Spec

\* Types hold in every reachable state, for every set of passkeys and every bound.  The key
\* a commit carries is a key of the panel's own: what is pending was never taken from
\* another device.
THEOREM TypeCorrect == Spec => []TypeOK
  BY TypesAlways, TypesSuffice, PTL

-----------------------------------------------------------------------------
(* One ceremony, one card.                                                 *)

\* The card a ceremony of this panel runs under.
Under(t, kind) ==
  \/ t.op \in {"enable", "lock"} /\ kind = "Idle"
  \/ t.op = "commit" /\ kind = "NewKey"
  \/ t.op = "reissue" /\ kind = "Reissue"
  \/ t.op = "give" /\ kind = "GiveKey"

\* `busy` is up exactly while one ceremony of this panel runs, and that is the one its card
\* is for; what a page that is gone left running is none that mints a key or locks.
TasksInv ==
  /\ \A t \in tasks : t.op \in {"enable", "lock"} => t.here /\ t.stage = "sent"
  /\ busy <=> \E t \in tasks : t.here
  /\ \A s, t \in tasks : s.here /\ t.here => s = t
  /\ \A t \in tasks : t.here => Under(t, mode.kind)

\* Nothing is owed while a ceremony runs; what is owed is on the card, and what is pending is
\* owed.
OwedInv ==
  /\ busy => owed = {} /\ pending = None
  /\ owed # {} => mode.kind \in {"NewKey", "ReissuedKey"} /\ owed = {mode.key}
  /\ pending # None => mode.kind = "NewKey" /\ pending.key = mode.key /\ owed = {pending.key}

CardInv == TasksInv /\ OwedInv

LEMMA ScreenIs ==
  ASSUME Types
  PROVE  /\ Screen \in {"Off", "Manage", "Unreachable", "Checking"} => mode.kind = "Idle"
         /\ \A k \in {"NewKey", "ReissuedKey", "GiveKey", "Reissue"} : Screen = k => mode.kind = k
<1>1. phase \in Phases /\ mode.kind \in {"Idle", "NewKey", "ReissuedKey", "GiveKey", "Reissue"}
  BY DEF Types, PanelTypes, PageTypes, Mode
<1> QED
  BY <1>1 DEF Screen, Phases

\* A ceremony starts only when none of this panel runs, under the card it is for.
LEMMA StartCard ==
  ASSUME Types, CardInv, ~busy, NEW op, NEW route, NEW cred, NEW source, NEW n,
         tasks' = tasks \cup {[op |-> op, n |-> n, route |-> route, cred |-> cred,
                               source |-> source, stage |-> "sent", here |-> TRUE]},
         busy' = TRUE, mode' = mode,
         \/ op \in {"enable", "lock"} /\ mode.kind = "Idle"
         \/ op = "commit" /\ mode.kind = "NewKey"
         \/ op = "reissue" /\ mode.kind = "Reissue"
         \/ op = "give" /\ mode.kind = "GiveKey"
  PROVE  TasksInv'
<1> DEFINE u == [op |-> op, n |-> n, route |-> route, cred |-> cred,
                 source |-> source, stage |-> "sent", here |-> TRUE]
<1>1. u.op = op /\ u.stage = "sent" /\ u.here
  OBVIOUS
<1>2. tasks' = tasks \cup {u}
  OBVIOUS
<1>3. \A t \in tasks : ~t.here
  BY DEF CardInv, TasksInv
<1>4. Under(u, mode.kind)
  BY <1>1 DEF Under
<1>5. busy' /\ \E t \in tasks' : t.here
  BY <1>1, <1>2
<1> HIDE DEF u
<1> QED
  BY <1>1, <1>2, <1>3, <1>4, <1>5 DEF CardInv, TasksInv, Under

\* A ceremony of this panel that settles leaves the buttons free; another leaves them alone.
LEMMA SettleCard ==
  ASSUME Types, CardInv, NEW t \in tasks, NEW mode1, NEW status1, Settle(t, mode1, status1)
  PROVE  /\ TasksInv'
         /\ t.here => ~busy' /\ mode' = mode1
         /\ ~t.here => UNCHANGED <<busy, mode>>
<1>1. CASE t.here
  <2>1. tasks' = tasks \ {t} /\ busy' = FALSE /\ mode' = mode1
    BY <1>1 DEF Settle
  <2>2. \A s \in tasks' : ~s.here
    BY <1>1, <2>1 DEF CardInv, TasksInv
  <2> QED
    BY <1>1, <2>1, <2>2 DEF CardInv, TasksInv, Under
<1>2. CASE ~t.here
  <2>1. tasks' = tasks \ {t} /\ UNCHANGED <<busy, mode>>
    BY <1>2 DEF Settle
  <2>2. (\E s \in tasks' : s.here) <=> (\E s \in tasks : s.here)
    BY <1>2, <2>1
  <2>3. busy' <=> \E s \in tasks' : s.here
    BY <2>1, <2>2 DEF CardInv, TasksInv
  <2> QED
    BY <1>2, <2>1, <2>3 DEF CardInv, TasksInv, Under
<1> QED
  BY <1>1, <1>2

\* An answer leaves the ceremony running.
LEMMA StageCard ==
  ASSUME Types, CardInv, NEW t \in tasks, t.op \notin {"enable", "lock"}, NEW stage, Stage(t, stage),
         UNCHANGED <<busy, mode>>
  PROVE  TasksInv'
<1> DEFINE u == [t EXCEPT !.stage = stage]
<1>1. t \in Task
  BY DEF Types, PanelTypes
<1>2. u.op = t.op /\ u.here = t.here
  BY <1>1 DEF Task
<1>3. tasks' = (tasks \ {t}) \cup {u}
  BY DEF Stage
<1> HIDE DEF u
<1>4. (\E s \in tasks' : s.here) <=> (\E s \in tasks : s.here)
  BY <1>2, <1>3
<1>5. busy' <=> \E s \in tasks' : s.here
  BY <1>4 DEF CardInv, TasksInv
<1> QED
  BY <1>2, <1>3, <1>5 DEF CardInv, TasksInv, Under

LEMMA CardInvStep ==
  ASSUME Types, CardInv, [Next]_vars
  PROVE  CardInv'
<1>0. OwedInv /\ TasksInv
  BY DEF CardInv
<1>a. \A t \in tasks : t.here => busy /\ Under(t, mode.kind)
  BY DEF CardInv, TasksInv
<1>b. mode.kind = "Idle" => owed = {} /\ pending = None
  BY <1>0 DEF OwedInv
<1>c. None \notin Keys /\ tasks \subseteq Task
  BY Constants DEF Types, PanelTypes
<1>1. CASE TurnOn \/ LockNow
  <2>1. mode.kind = "Idle" /\ ~busy
    BY <1>1, ScreenIs DEF TurnOn, BeginEnable, LockNow
  <2>2. /\ \E op \in {"enable", "lock"} : \E route : \E n :
             tasks' = tasks \cup {[op |-> op, n |-> n, route |-> route, cred |-> None,
                                   source |-> None, stage |-> "sent", here |-> TRUE]}
        /\ busy' = TRUE /\ UNCHANGED <<mode, pending, owed>>
    BY <1>1 DEF TurnOn, BeginEnable, LockNow, Start
  <2>3. TasksInv'
    BY <2>1, <2>2, StartCard
  <2> QED
    BY <1>b, <2>1, <2>2, <2>3 DEF CardInv, OwedInv
<1>2. CASE ConfirmNewKey
  <2>1. mode.kind = "NewKey" /\ ~busy
    BY <1>2, ScreenIs DEF ConfirmNewKey
  <2>2. /\ busy' = TRUE /\ pending' = None /\ UNCHANGED mode
        /\ pending # None /\ owed' = owed \ {pending.key}
    BY <1>2 DEF ConfirmNewKey
  <2>3. owed' = {}
    BY <1>0, <2>2 DEF OwedInv
  <2>4. TasksInv'
    BY <1>2, <2>1, StartCard DEF ConfirmNewKey
  <2> QED
    BY <2>2, <2>3, <2>4 DEF CardInv, OwedInv
<1>3. ASSUME NEW kind \in {"Reissue", "GiveKey"}, NEW c, OpenCard(kind, c) PROVE CardInv'
  <2>1. mode.kind = "Idle" /\ ~busy /\ UNCHANGED <<busy, pending, tasks, owed>>
    BY <1>3, ScreenIs DEF OpenCard, keys
  <2>2. OwedInv'
    BY <1>b, <2>1 DEF OwedInv
  <2>3. \A t \in tasks : ~t.here
    BY <1>a, <2>1
  <2>4. TasksInv'
    BY <1>0, <2>1, <2>3 DEF TasksInv
  <2> QED
    BY <2>2, <2>4 DEF CardInv
<1>4. CASE CloseCard
  <2>1. /\ mode.kind \in {"Reissue", "GiveKey", "ReissuedKey"} /\ ~busy
        /\ UNCHANGED <<busy, pending, tasks>> /\ owed' = owed \ {mode.key}
    BY <1>4, ScreenIs DEF CloseCard
  <2>2. owed' = {} /\ pending = None
    BY <1>0, <2>1 DEF OwedInv
  <2>3. OwedInv'
    BY <2>1, <2>2 DEF OwedInv
  <2>4. \A t \in tasks : ~t.here
    BY <1>a, <2>1
  <2>5. TasksInv'
    BY <1>0, <2>1, <2>4 DEF TasksInv
  <2> QED
    BY <2>3, <2>5 DEF CardInv
<1>5. ASSUME UNCHANGED <<mode, busy, pending, tasks, owed>> PROVE CardInv'
  BY <1>5 DEF CardInv, TasksInv, OwedInv
<1>6. CASE RetryProbe
  BY <1>5, <1>6 DEF RetryProbe, keys
<1>7. ASSUME NEW kind, NEW op, NEW source, Open(kind, op, source),
             <<kind, op>> \in {<<"Reissue", "reissue">>, <<"GiveKey", "give">>}
      PROVE  CardInv'
  <2>1. mode.kind = kind /\ ~busy
    BY <1>7, ScreenIs DEF Open
  <2>2. busy' = TRUE /\ UNCHANGED <<mode, pending, owed>>
    BY <1>7 DEF Open, Start
  <2>3. TasksInv'
    BY <1>7, <2>1, <2>2, StartCard DEF Open, Start
  <2>4. owed = {} /\ pending = None
    BY <1>0, <1>7, <2>1 DEF OwedInv
  <2> QED
    BY <2>2, <2>3, <2>4 DEF CardInv, OwedInv
<1>8. ASSUME NEW t \in tasks, EnableReady(t) PROVE CardInv'
  <2>1. PICK c : Minted(t, c)
    BY <1>8 DEF EnableReady
  <2> DEFINE mode1 == [kind |-> "NewKey", key |-> t.n, route |-> t.route, cred |-> None]
  <2>2. t.here /\ busy
    BY <1>0, <1>a, <1>8 DEF EnableReady, TasksInv
  <2>3. TasksInv' /\ ~busy' /\ mode' = mode1
    BY <2>1, <2>2, SettleCard DEF Minted
  <2>4. owed = {} /\ owed' = {t.n} /\ pending'.key = t.n
    BY <1>0, <2>1, <2>2 DEF OwedInv, Minted
  <2> QED
    BY <2>3, <2>4 DEF CardInv, OwedInv
<1>9. ASSUME NEW t \in tasks, NEW mode1, NEW status1, Settle(t, mode1, status1),
             mode1 = mode \/ mode1.kind = "Idle", UNCHANGED <<pending, owed>>
      PROVE  CardInv'
  <2>1. TasksInv'
    BY <1>9, SettleCard
  <2>2. CASE t.here
    <3>1. owed = {} /\ pending = None
      BY <1>0, <1>a, <2>2 DEF OwedInv
    <3> QED
      BY <1>9, <2>1, <3>1 DEF CardInv, OwedInv
  <2>3. CASE ~t.here
    <3>1. UNCHANGED <<busy, mode>>
      BY <1>9, <2>3, SettleCard
    <3> QED
      BY <1>0, <1>9, <2>1, <3>1 DEF CardInv, OwedInv
  <2> QED
    BY <2>2, <2>3
<1>10. Idle.kind = "Idle"
  BY DEF Idle
<1>11. ASSUME NEW t \in tasks, CommitTold(t) \/ CommitLost(t) \/ GiveTold(t) PROVE CardInv'
  <2>1. \E status1 : Settle(t, Idle, status1) /\ UNCHANGED <<pending, owed>>
    BY <1>11 DEF CommitTold, CommitLost, GiveTold, keys
  <2> QED
    BY <1>9, <1>10, <2>1
<1>12. ASSUME NEW t \in tasks, LockTold(t) \/ Fails(t) PROVE CardInv'
  <2>1. \E status1 : Settle(t, mode, status1) /\ UNCHANGED <<pending, owed>>
    BY <1>12 DEF LockTold, Fails, keys
  <2> QED
    BY <1>9, <2>1
<1>13. ASSUME NEW t \in tasks, ReissueTold(t) PROVE CardInv'
  <2> DEFINE mode1 == [Idle EXCEPT !.kind = "ReissuedKey", !.key = t.n]
  <2>1. mode1.kind = "ReissuedKey" /\ mode1.key = t.n
    BY DEF Idle
  <2>2. Settle(t, mode1, status) /\ UNCHANGED pending /\ owed' = IF t.here THEN owed \cup {t.n} ELSE owed
    BY <1>13 DEF ReissueTold
  <2> HIDE DEF mode1
  <2>3. TasksInv'
    BY <2>2, SettleCard
  <2>4. CASE t.here
    <3>1. owed = {} /\ pending = None
      BY <1>0, <1>a, <2>4 DEF OwedInv
    <3>2. ~busy' /\ mode' = mode1
      BY <2>2, <2>4, SettleCard
    <3> QED
      BY <2>1, <2>2, <2>3, <2>4, <3>1, <3>2 DEF CardInv, OwedInv
  <2>5. CASE ~t.here
    <3>1. UNCHANGED <<busy, mode>>
      BY <2>2, <2>5, SettleCard
    <3> QED
      BY <1>0, <2>2, <2>3, <2>5, <3>1 DEF CardInv, OwedInv
  <2> QED
    BY <2>4, <2>5
<1>14. ASSUME NEW t \in tasks, ServerEnables(t) \/ ServerReissues(t) \/ ServerGives(t) PROVE CardInv'
  <2>1. /\ t.op \notin {"enable", "lock"} /\ \E stage : Stage(t, stage)
        /\ UNCHANGED <<busy, mode, pending, owed>>
    BY <1>14 DEF ServerEnables, ServerReissues, ServerGives, keys
  <2>2. TasksInv'
    BY <2>1, StageCard
  <2> QED
    BY <1>0, <2>1, <2>2 DEF CardInv, OwedInv
<1>15. ASSUME NEW phase1, Mount(phase1), \A t \in tasks' : ~t.here /\ t.op \notin {"enable", "lock"}
       PROVE  CardInv'
  <2>1. ~busy' /\ owed' = {} /\ pending' = None
    BY <1>15 DEF Mount
  <2>2. TasksInv'
    BY <1>15, <2>1 DEF TasksInv
  <2> QED
    BY <2>1, <2>2 DEF CardInv, OwedInv
<1>16. CASE Leave
  <2>1. \A t \in tasks : [t EXCEPT !.here = FALSE].here = FALSE /\ [t EXCEPT !.here = FALSE].op = t.op
    BY <1>c DEF Task
  <2>2. \A t \in tasks' : ~t.here /\ t.op \notin {"enable", "lock"}
    BY <1>16, <2>1 DEF Leave
  <2> QED
    BY <1>15, <1>16, <2>2 DEF Leave
<1>17. CASE ReloadPage
  BY <1>15, <1>17 DEF ReloadPage
<1>18. CASE UNCHANGED <<cards, saved, owed>>
  BY <1>5, <1>18 DEF cards
<1> QED
  <2>1. CASE StartReissue \/ \E c \in Creds : StartGive(c)
    BY <1>3, <2>1 DEF StartReissue, StartGive
  <2>2. CASE \E s \in Sources : OpenReissue(s) \/ OpenGive(s)
    BY <1>7, <2>2 DEF OpenReissue, OpenGive
  <2> QED
    BY <1>1, <1>2, <1>4, <1>6, <1>8, <1>11, <1>12, <1>13, <1>14, <1>16, <1>17, <1>18,
       <2>1, <2>2, PanelFrame, Zenon DEF PanelStep

LEMMA CardInvAlways == Spec => [](Types /\ CardInv)
<1>1. Init => CardInv
  BY DEF Init, CardInv, TasksInv, OwedInv
<1>2. Types /\ CardInv /\ [Next]_vars => CardInv'
  BY CardInvStep
<1> QED
  BY <1>1, <1>2, TypeInit, TypeStep, PTL DEF Spec

\* The panel's controls are held exactly while a ceremony of this panel runs, and there is
\* never a second.
THEOREM OneCeremonyAtATime == Spec => []OneCeremony
<1>1. CardInv => OneCeremony
  <2> SUFFICES ASSUME CardInv PROVE OneCeremony
    OBVIOUS
  <2> DEFINE H == {t \in tasks : t.here}
  <2>1. \A s, t \in H : s = t
    BY DEF CardInv, TasksInv
  <2>2. Cardinality(H) <= 1
    <3>1. CASE H = {}
      BY <3>1, FS_EmptySet
    <3>2. ASSUME NEW t \in H PROVE Cardinality(H) <= 1
      <4>1. H = {t}
        BY <2>1, <3>2
      <4>2. Cardinality({t}) = 1
        BY FS_Singleton
      <4> QED
        BY <4>1, <4>2
    <3> QED
      BY <3>1, <3>2
  <2> QED
    BY <2>2 DEF CardInv, TasksInv, OneCeremony
<1> QED
  BY <1>1, CardInvAlways, PTL

\* A key that is shown once is shown until the user says they have it, and what confirming
\* it will send is that key.
THEOREM OwedKeyStaysUp == Spec => []OwedKeyIsUp
<1>1. CardInv => OwedKeyIsUp
  BY DEF CardInv, OwedInv, OwedKeyIsUp, Screen
<1> QED
  BY <1>1, CardInvAlways, PTL

-----------------------------------------------------------------------------
(* Whose number is whose.  The numbers of ceremonies are the keys they     *)
(* mint, and a number is in one hand at a time: of a ceremony, of the key  *)
(* on the screen, or of a request the page gave up on.                     *)

TaskNums ==
  /\ keyOn \in Ceremonies => keyOn <= started
  /\ \A t \in tasks : t.n <= started
  /\ \A s, t \in tasks : s.n = t.n => s = t
  /\ \A t \in tasks : t.stage # "stored" => keyOn # t.n
  /\ \A t \in tasks : t.op = "commit" => t.n \in saved

PendingNums ==
  pending # None =>
    /\ pending.key <= started /\ keyOn # pending.key
    /\ \A t \in tasks : t.n # pending.key

AdriftNums ==
  \A p \in adrift :
    /\ p.key \in Ceremonies /\ p.key <= started /\ p.key \in saved
    /\ pending # None => pending.key # p.key
    /\ \A t \in tasks : t.n # p.key

\* What was refused is in nobody's hand.
RefusedNums ==
  status.kind = "Refused" =>
    /\ status.key \in Ceremonies /\ status.key <= started /\ keyOn # status.key
    /\ pending # None => pending.key # status.key
    /\ \A t \in tasks : t.n # status.key
    /\ \A p \in adrift : p.key # status.key

NumInv == TaskNums /\ PendingNums /\ AdriftNums /\ RefusedNums

LEMMA Numbers ==
  ASSUME Types
  PROVE  /\ started \in Nat
         /\ \A n \in Ceremonies : n \in Nat
         /\ \A t \in tasks : t \in Task /\ t.n \in Ceremonies
         /\ pending # None => pending.key \in Ceremonies
         /\ Other.kind # "Refused"
         /\ None \notin Ceremonies /\ Elsewhere \notin Ceremonies
<1>1. started \in Nat /\ \A n \in Ceremonies : n \in Nat
  BY Constants DEF Types, PageTypes, Ceremonies
<1>2. \A t \in tasks : t \in Task /\ t.n \in Ceremonies
  BY DEF Types, PanelTypes, Task
<1>3. pending # None => pending.key \in Ceremonies
  BY DEF Types, PanelTypes
<1> QED
  BY <1>1, <1>2, <1>3, Constants DEF Other

\* A ceremony that starts has a number of its own.
LEMMA StartNums ==
  ASSUME Types, NumInv, NEW op \in {"enable", "lock", "reissue", "give"}, NEW route, NEW cred, NEW source,
         Start(op, route, cred, source, started + 1), status' = Other,
         UNCHANGED <<pending, adrift, keyOn, saved>>
  PROVE  NumInv'
<1> DEFINE u == [op |-> op, n |-> started + 1, route |-> route, cred |-> cred,
                 source |-> source, stage |-> "sent", here |-> TRUE]
<1>0. TaskNums /\ PendingNums /\ AdriftNums
  BY DEF NumInv
<1>1. u.n = started + 1 /\ u.op # "commit"
  OBVIOUS
<1>2. /\ tasks' = tasks \cup {u} /\ started' = started + 1 /\ started + 1 <= MaxStarted
      /\ pending' = pending /\ adrift' = adrift /\ keyOn' = keyOn /\ saved' = saved
  BY Constants DEF Start, Begin, Types, PageTypes
<1> HIDE DEF u
<1>3. started \in Nat /\ started + 1 \in Ceremonies
  BY <1>2, Numbers, Constants DEF Ceremonies
<1>4. keyOn # started + 1
  BY <1>0, <1>3 DEF TaskNums
<1>5. \A t \in tasks : t.n \in Nat /\ t.n <= started
  BY <1>0, Numbers DEF TaskNums
<1>6. \A p \in adrift : p.key \in Nat /\ p.key <= started
  BY <1>0, Numbers DEF AdriftNums
<1>7. pending # None => pending.key \in Nat /\ pending.key <= started
  BY <1>0, Numbers DEF PendingNums
<1>8. \A n \in Nat : n <= started => n <= started + 1 /\ n # started + 1
  BY <1>3
<1>9. \A n \in Ceremonies : n \in Nat
  BY Numbers
<1>10. TaskNums'
  <2>1. keyOn' \in Ceremonies => keyOn' <= started'
    BY <1>0, <1>2, <1>8, <1>9 DEF TaskNums
  <2>2. \A t \in tasks' : t.n <= started' /\ (t.n = started + 1 => t = u)
    BY <1>1, <1>2, <1>3, <1>5, <1>8
  <2>3. \A t, v \in tasks' : t.n = v.n => t = v
    BY <1>0, <1>1, <1>2, <2>2 DEF TaskNums
  <2>4. \A t \in tasks' : (t.stage # "stored" => keyOn' # t.n) /\ (t.op = "commit" => t.n \in saved')
    BY <1>0, <1>1, <1>2, <1>4 DEF TaskNums
  <2> QED
    BY <2>1, <2>2, <2>3, <2>4 DEF TaskNums
<1>11. PendingNums'
  BY <1>0, <1>1, <1>2, <1>7, <1>8 DEF PendingNums
<1>12. AdriftNums'
  BY <1>0, <1>1, <1>2, <1>6, <1>8 DEF AdriftNums
<1>13. RefusedNums'
  BY Numbers DEF RefusedNums
<1> QED
  BY <1>10, <1>11, <1>12, <1>13 DEF NumInv

\* What is let go of disturbs no number.
LEMMA LessNums ==
  ASSUME Types, NumInv, started' \in Nat, started <= started',
         tasks' \subseteq tasks, adrift' \subseteq adrift, saved' = saved,
         pending' \in {pending, None}, status' \in {status, Other},
         keyOn' = keyOn \/ keyOn' = Elsewhere
  PROVE  NumInv'
<1>0. TaskNums /\ PendingNums /\ AdriftNums /\ RefusedNums
  BY DEF NumInv
<1>1. started \in Nat /\ \A n \in Ceremonies : n \in Nat
  BY Numbers
<1>2. \A n \in Ceremonies : n <= started => n <= started'
  BY <1>1
<1>3. keyOn' \in Ceremonies => keyOn' = keyOn
  BY Numbers
<1>4. \A t \in tasks : t.n \in Ceremonies
  BY Numbers
<1>5. pending' # None => pending' = pending /\ pending.key \in Ceremonies
  BY Numbers
<1>6. TaskNums'
  BY <1>0, <1>2, <1>3, <1>4 DEF TaskNums
<1>7. PendingNums'
  BY <1>0, <1>2, <1>3, <1>5 DEF PendingNums
<1>8. AdriftNums'
  BY <1>0, <1>2, <1>5 DEF AdriftNums
<1>9. RefusedNums'
  BY <1>0, <1>2, <1>3, <1>5, Numbers DEF RefusedNums
<1> QED
  BY <1>6, <1>7, <1>8, <1>9 DEF NumInv

\* An answer leaves its number with the ceremony, and may put it on file.
LEMMA StageNums ==
  ASSUME Types, NumInv, NEW t \in tasks, NEW stage, Stage(t, stage), t.stage # "stored",
         UNCHANGED <<adrift, saved, started, pending, status>>,
         keyOn' = keyOn \/ (keyOn' = t.n /\ stage = "stored")
  PROVE  NumInv'
<1> DEFINE u == [t EXCEPT !.stage = stage]
<1>0. TaskNums /\ PendingNums /\ AdriftNums /\ RefusedNums
  BY DEF NumInv
<1>1. t \in Task /\ t.n \in Ceremonies
  BY Numbers
<1>2. u.op = t.op /\ u.n = t.n /\ u.stage = stage
  BY <1>1 DEF Task
<1>3. tasks' = (tasks \ {t}) \cup {u}
  BY DEF Stage
<1> HIDE DEF u
<1>4. TaskNums'
  BY <1>0, <1>1, <1>2, <1>3 DEF TaskNums
<1>5. PendingNums'
  BY <1>0, <1>2, <1>3 DEF PendingNums
<1>6. AdriftNums'
  BY <1>0, <1>2, <1>3 DEF AdriftNums
<1>7. RefusedNums'
  BY <1>0, <1>2, <1>3 DEF RefusedNums
<1> QED
  BY <1>4, <1>5, <1>6, <1>7 DEF NumInv

\* The number of a request the page gives up on goes with it.
LEMMA AdriftNum ==
  ASSUME Types, NumInv, NEW gone \in SUBSET tasks, \A t \in gone : t.op = "commit",
         tasks' \subseteq tasks \ gone, adrift' = adrift \cup {Request(t) : t \in gone},
         pending' \in {pending, None}, status' \in {status, Other},
         UNCHANGED <<keyOn, saved, started>>,
         \A t \in gone : status'.kind = "Refused" => t.n # status'.key
  PROVE  NumInv'
<1>0. TaskNums /\ PendingNums /\ AdriftNums /\ RefusedNums
  BY DEF NumInv
<1>1. \A t \in tasks : t \in Task /\ t.n \in Ceremonies
  BY Numbers
<1>2. \A t \in gone : Request(t).key = t.n
  BY DEF Request
<1>3. TaskNums'
  BY <1>0 DEF TaskNums
<1>4. PendingNums'
  BY <1>0 DEF PendingNums
<1>5. AdriftNums'
  <2>1. ASSUME NEW p \in adrift' PROVE
          /\ p.key \in Ceremonies /\ p.key <= started /\ p.key \in saved
          /\ pending' # None => pending'.key # p.key
          /\ \A t \in tasks' : t.n # p.key
    <3>1. CASE p \in adrift
      BY <1>0, <3>1 DEF AdriftNums
    <3>2. ASSUME NEW t \in gone, p = Request(t)
          PROVE  /\ p.key \in Ceremonies /\ p.key <= started /\ p.key \in saved
                 /\ pending' # None => pending'.key # p.key
                 /\ \A v \in tasks' : v.n # p.key
      <4>1. p.key = t.n /\ t \in tasks /\ t.op = "commit"
        BY <1>2, <3>2
      <4>2. \A v \in tasks' : v \in tasks /\ v # t
        BY <3>2
      <4> QED
        BY <1>0, <1>1, <4>1, <4>2 DEF TaskNums, PendingNums
    <3> QED
      BY <3>1, <3>2
  <2> QED
    BY <2>1 DEF AdriftNums
<1>6. RefusedNums'
  BY <1>0, <1>2, Numbers DEF RefusedNums
<1> QED
  BY <1>3, <1>4, <1>5, <1>6 DEF NumInv

\* The number of a ceremony that minted its key is the one on the screen.
LEMMA MintedNums ==
  ASSUME Types, CardInv, NumInv, NEW t \in tasks, EnableReady(t)
  PROVE  NumInv'
<1>0. TaskNums /\ PendingNums /\ AdriftNums /\ RefusedNums
  BY DEF NumInv
<1>1. PICK c : Minted(t, c)
  BY DEF EnableReady
<1>2. t.here /\ t.stage = "sent" /\ t.n \in Ceremonies
  BY Numbers DEF EnableReady, CardInv, TasksInv
<1>3. /\ tasks' = tasks \ {t} /\ pending'.key = t.n /\ status' = status
      /\ adrift' = adrift /\ keyOn' = keyOn /\ saved' = saved /\ started' = started
  BY <1>1, <1>2 DEF Minted, Settle, EnableReady
<1>4. TaskNums'
  BY <1>0, <1>3 DEF TaskNums
<1>5. PendingNums'
  BY <1>0, <1>2, <1>3 DEF TaskNums, PendingNums
<1>6. AdriftNums'
  BY <1>0, <1>3 DEF AdriftNums
<1>7. RefusedNums'
  BY <1>0, <1>3 DEF RefusedNums
<1> QED
  BY <1>4, <1>5, <1>6, <1>7 DEF NumInv

\* The number on the screen becomes the commit's, and is saved.
LEMMA ConfirmedNums ==
  ASSUME Types, NumInv, ConfirmNewKey
  PROVE  NumInv'
<1> DEFINE u == [op |-> "commit", n |-> pending.key, route |-> None, cred |-> pending.cred,
                 source |-> None, stage |-> "sent", here |-> TRUE]
<1>0. TaskNums /\ PendingNums /\ AdriftNums
  BY DEF NumInv
<1>1. u.n = pending.key
  OBVIOUS
<1>2. /\ tasks' = tasks \cup {u} /\ pending # None /\ pending' = None /\ saved' = saved \cup {pending.key}
      /\ adrift' = adrift /\ keyOn' = keyOn /\ started' = started /\ status' = Other
  BY DEF ConfirmNewKey, server
<1> HIDE DEF u
<1>3. TaskNums'
  BY <1>0, <1>1, <1>2 DEF TaskNums, PendingNums
<1>4. PendingNums'
  BY <1>2 DEF PendingNums
<1>5. AdriftNums'
  BY <1>0, <1>1, <1>2 DEF AdriftNums
<1>6. RefusedNums'
  BY <1>2, Numbers DEF RefusedNums
<1> QED
  BY <1>3, <1>4, <1>5, <1>6 DEF NumInv

\* The number of a commit that was refused is nobody's.
LEMMA ToldNums ==
  ASSUME Types, NumInv, NEW t \in tasks, CommitTold(t)
  PROVE  NumInv'
<1>0. TaskNums /\ PendingNums /\ AdriftNums /\ RefusedNums
  BY DEF NumInv
<1>1. /\ tasks' = tasks \ {t} /\ UNCHANGED <<pending, adrift, keyOn, saved, started>>
      /\ started \in Nat
  BY Numbers DEF CommitTold, Settle, server, keys
<1>2. CASE status' \in {status, Other}
  BY <1>1, <1>2, LessNums
<1>3. CASE status' \notin {status, Other}
  <2>1. t.stage = "refused" /\ status' = [kind |-> "Refused", key |-> t.n]
    BY <1>3 DEF CommitTold, Settle, EnableFailed
  <2>2. t.n \in Ceremonies /\ t.n <= started /\ keyOn # t.n
    BY <1>0, <2>1, Numbers DEF TaskNums
  <2>3. RefusedNums'
    BY <1>0, <1>1, <2>1, <2>2 DEF RefusedNums, TaskNums, PendingNums, AdriftNums
  <2>4. TaskNums' /\ PendingNums' /\ AdriftNums'
    BY <1>0, <1>1 DEF TaskNums, PendingNums, AdriftNums
  <2> QED
    BY <2>3, <2>4 DEF NumInv
<1> QED
  BY <1>2, <1>3

LEMMA LostNums ==
  ASSUME Types, NumInv, NEW t \in tasks, CommitLost(t)
  PROVE  NumInv'
<1>1. /\ tasks' = tasks \ {t} /\ status' \in {status, Other} /\ t.op = "commit"
      /\ UNCHANGED <<pending, keyOn, saved, started>> /\ started \in Nat
  BY Numbers DEF CommitLost, Settle, EnableFailed, keys
<1>2. CASE adrift' = adrift
  BY <1>1, <1>2, LessNums
<1>3. CASE adrift' = adrift \cup {Request(t)}
  <2> DEFINE gone == {t}
  <2>1. adrift' = adrift \cup {Request(v) : v \in gone}
    BY <1>3
  <2>2. status'.kind = "Refused" => t.n # status'.key
    BY <1>1, Numbers DEF NumInv, RefusedNums
  <2>3. /\ gone \in SUBSET tasks /\ tasks' \subseteq tasks \ gone
        /\ \A v \in gone : v.op = "commit" /\ (status'.kind = "Refused" => v.n # status'.key)
    BY <1>1, <2>2
  <2> HIDE DEF gone
  <2>4. \A v \in gone : v.op = "commit"
    BY <2>3
  <2>5. pending' \in {pending, None}
    BY <1>1
  <2> QED
    BY <1>1, <2>1, <2>3, <2>4, <2>5, AdriftNum
<1> QED
  BY <1>2, <1>3 DEF CommitLost

\* A request that is served late puts a number on file that nobody holds any more.
LEMMA LateNums ==
  ASSUME Types, NumInv, NEW p \in adrift, ServedLate(p)
  PROVE  NumInv'
<1>0. TaskNums /\ PendingNums /\ AdriftNums /\ RefusedNums
  BY DEF NumInv
<1>1. /\ adrift' = adrift \ {p} /\ UNCHANGED <<tasks, pending, status, saved, started>>
      /\ started \in Nat /\ keyOn' \in {keyOn, p.key}
  BY Numbers DEF ServedLate, Enable, cards, keys
<1>2. CASE keyOn' = keyOn
  BY <1>1, <1>2, LessNums
<1>3. CASE keyOn' = p.key
  <2>1. TaskNums'
    BY <1>0, <1>1, <1>3 DEF TaskNums, AdriftNums
  <2>2. PendingNums'
    BY <1>0, <1>1, <1>3 DEF PendingNums, AdriftNums
  <2>3. AdriftNums'
    BY <1>0, <1>1 DEF AdriftNums
  <2>4. RefusedNums'
    BY <1>0, <1>1, <1>3 DEF RefusedNums
  <2> QED
    BY <2>1, <2>2, <2>3, <2>4 DEF NumInv
<1> QED
  BY <1>1, <1>2, <1>3

\* What goes on after its page is gone keeps its number.
LEMMA LeaveNums ==
  ASSUME Types, NumInv, Leave
  PROVE  NumInv'
<1>0. TaskNums /\ AdriftNums
  BY DEF NumInv
<1>1. /\ tasks' = {[t EXCEPT !.here = FALSE] :
                     t \in {u \in tasks : u.op = "commit" \/ (u.op \in {"reissue", "give"} /\ u.stage = "sent")}}
      /\ pending' = None /\ status' = Other /\ UNCHANGED <<adrift, keyOn, saved, started>>
  BY DEF Leave, Mount
<1>2. \A t \in tasks : /\ [t EXCEPT !.here = FALSE].n = t.n /\ [t EXCEPT !.here = FALSE].op = t.op
                       /\ [t EXCEPT !.here = FALSE].stage = t.stage
  BY Numbers DEF Task
<1>3. \A v \in tasks' : \E t \in tasks :
        v = [t EXCEPT !.here = FALSE] /\ v.n = t.n /\ v.op = t.op /\ v.stage = t.stage
  <2>1. \A v \in tasks' : \E t \in tasks : v = [t EXCEPT !.here = FALSE]
    BY <1>1, ZenonT(60)
  <2> QED BY <1>2, <2>1, ZenonT(60)
<1>4. TaskNums'
  <2>1. ASSUME NEW v \in tasks', NEW w \in tasks', v.n = w.n PROVE v = w
    <3>1. PICK t \in tasks : v = [t EXCEPT !.here = FALSE] /\ v.n = t.n
      BY <1>3
    <3>2. PICK u \in tasks : w = [u EXCEPT !.here = FALSE] /\ w.n = u.n
      BY <1>3
    <3>3. t = u
      BY <1>0, <2>1, <3>1, <3>2 DEF TaskNums
    <3> QED
      BY <3>1, <3>2, <3>3
  <2>2. \A v \in tasks' : /\ v.n <= started /\ (v.stage # "stored" => keyOn # v.n)
                          /\ (v.op = "commit" => v.n \in saved)
    BY <1>0, <1>3 DEF TaskNums
  <2> QED
    BY <1>0, <1>1, <2>1, <2>2 DEF TaskNums
<1>5. PendingNums'
  BY <1>1 DEF PendingNums
<1>6. AdriftNums'
  BY <1>0, <1>1, <1>3 DEF AdriftNums
<1>7. RefusedNums'
  BY <1>1, Numbers DEF RefusedNums
<1> QED
  BY <1>4, <1>5, <1>6, <1>7 DEF NumInv

LEMMA NumInvStep ==
  ASSUME Types, CardInv, NumInv, [Next]_vars
  PROVE  NumInv'
<1>0. started \in Nat /\ started' \in Nat /\ started <= started'
  BY StartedStep, Numbers
<1> USE DEF server, keys
<1>1. CASE TurnOn \/ LockNow
  BY <1>1, StartNums DEF TurnOn, BeginEnable, LockNow
<1>2. ASSUME NEW kind, NEW op \in {"reissue", "give"}, NEW source, Open(kind, op, source) PROVE NumInv'
  BY <1>2, StartNums DEF Open
<1>3. ASSUME NEW kind, NEW c, OpenCard(kind, c) PROVE NumInv'
  BY <1>0, <1>3, LessNums DEF OpenCard
<1>4. CASE CloseCard \/ RetryProbe
  BY <1>0, <1>4, LessNums DEF CloseCard, RetryProbe
<1>5. ASSUME NEW t \in tasks, LockTold(t) \/ ReissueTold(t) \/ GiveTold(t) \/ Fails(t) PROVE NumInv'
  <2>1. tasks' = tasks \ {t} /\ status' \in {status, Other} /\ UNCHANGED <<adrift, saved, pending, keyOn>>
    BY <1>5 DEF LockTold, ReissueTold, GiveTold, Fails, Settle
  <2> QED
    BY <1>0, <2>1, LessNums
<1>6. ASSUME NEW t \in tasks, ServerEnables(t) PROVE NumInv'
  <2>1. \E stage : /\ Stage(t, stage) /\ t.stage # "stored"
                   /\ keyOn' = keyOn \/ (keyOn' = t.n /\ stage = "stored")
                   /\ UNCHANGED <<adrift, saved, started, pending, status>>
    BY <1>6 DEF ServerEnables, Enable, Request
  <2> QED
    BY <2>1, StageNums
<1>7. ASSUME NEW t \in tasks, ServerReissues(t) \/ ServerGives(t) PROVE NumInv'
  <2>1. /\ Stage(t, "stored") /\ t.stage # "stored" /\ keyOn' \in {keyOn, t.n}
        /\ UNCHANGED <<adrift, saved, started, pending, status>>
    BY <1>7 DEF ServerReissues, ServerGives
  <2> QED
    BY <2>1, StageNums
<1>8. CASE ReloadPage
  <2> DEFINE gone == {u \in tasks : u.op = "commit" /\ u.stage = "sent"}
  <2>1. /\ adrift' = adrift \cup {Request(t) : t \in gone} /\ tasks' = {} /\ pending' = None
        /\ status' = Other /\ UNCHANGED <<keyOn, saved, started>>
    BY <1>8 DEF ReloadPage, Mount
  <2>2. gone \in SUBSET tasks /\ \A t \in gone : t.op = "commit"
    OBVIOUS
  <2> HIDE DEF gone
  <2> QED
    BY <2>1, <2>2, Numbers, AdriftNum
<1>9. ASSUME UNCHANGED <<cards, saved, owed>>, ~PanelStep, ~\E p \in adrift : ServedLate(p) PROVE NumInv'
  <2>1. ASSUME NEW r \in section, ServerRemoves(r) \/ ServerEnrols(r) \/ ServerKeys(r)
        PROVE  UNCHANGED <<adrift, keyOn>>
    BY <2>1 DEF ServerRemoves, ServerEnrols, ServerKeys
  <2>2. ASSUME AnotherDevice PROVE adrift' = adrift /\ (keyOn' = keyOn \/ keyOn' = Elsewhere)
    BY <2>2 DEF AnotherDevice, Enable
  <2>3. ASSUME UNCHANGED server PROVE adrift' = adrift /\ keyOn' = keyOn
    BY <2>3
  <2>4. ServerStep => AnotherDevice \/ UNCHANGED <<adrift, keyOn>>
    BY <1>9, <2>1, Zenon DEF ServerStep, PanelStep
  <2>5. adrift' = adrift /\ (keyOn' = keyOn \/ keyOn' = Elsewhere)
    BY <2>2, <2>3, <2>4, ServerFrame
  <2> QED
    BY <1>0, <1>9, <2>5, LessNums DEF cards
<1> QED
  <2>1. CASE StartReissue \/ \E c \in Creds : StartGive(c)
    BY <1>3, <2>1 DEF StartReissue, StartGive
  <2>2. CASE \E s \in Sources : OpenReissue(s) \/ OpenGive(s)
    BY <1>2, <2>2 DEF OpenReissue, OpenGive
  <2> QED
    BY <1>1, <1>4, <1>5, <1>6, <1>7, <1>8, <1>9, <2>1, <2>2, MintedNums, ConfirmedNums, ToldNums,
       LostNums, LateNums, LeaveNums, PanelFrame, Zenon DEF PanelStep

LEMMA NumInvAlways == Spec => [](Types /\ NumInv)
<1>1. Init => NumInv
  BY Constants DEF Init, NumInv, TaskNums, PendingNums, AdriftNums, RefusedNums, Other
<1>2. Types /\ CardInv /\ NumInv /\ [Next]_vars => NumInv'
  BY NumInvStep
<1> QED
  BY <1>1, <1>2, CardInvAlways, PTL DEF Spec

\* While the panel says that the saved key is not the account's, that key is not on file, and
\* no request that is still out can put it there.
THEOREM RefusalsStayTrue == Spec => []RefusalIsTrue
<1>1. NumInv => RefusalIsTrue
  BY DEF NumInv, RefusedNums, RefusalIsTrue
<1> QED
  BY <1>1, NumInvAlways, PTL

\* Encryption is turned on by this page only with a key the user has confirmed: a commit that
\* is out carries a number that is saved, and so does what the page gave up on.
THEOREM OnlySavedKeysAreEnabled == Spec => EnabledKeyWasSaved
<1>1. ASSUME Types, NumInv, [Next]_vars, keyOn = None, keyOn' \in Ceremonies
      PROVE  keyOn' \in saved
  <2>0. TaskNums /\ AdriftNums /\ keyOn' # keyOn /\ keyOn' # Elsewhere
    BY <1>1, Numbers DEF NumInv
  <2>1. ASSUME NEW t \in tasks, ServerEnables(t) PROVE keyOn' \in saved
    <3>1. t.op = "commit" /\ keyOn' = t.n
      BY <2>0, <2>1 DEF ServerEnables, Enable, Request
    <3> QED
      BY <2>0, <3>1 DEF TaskNums
  <2>2. ASSUME NEW t \in tasks, CommitLost(t) \/ ServerReissues(t) \/ ServerGives(t) PROVE FALSE
    BY <1>1, <2>0, <2>2 DEF CommitLost, ServerReissues, ServerGives, Encrypted
  <2>3. ASSUME NEW p \in adrift, ServedLate(p) PROVE keyOn' \in saved
    <3>1. keyOn' = p.key
      BY <2>0, <2>3 DEF ServedLate, Enable
    <3> QED
      BY <2>0, <3>1 DEF AdriftNums
  <2>4. ASSUME NEW r \in section, ServerRemoves(r) \/ ServerEnrols(r) \/ ServerKeys(r) PROVE FALSE
    BY <2>0, <2>4 DEF ServerRemoves, ServerEnrols, ServerKeys
  <2>5. ~ReloadPage
    BY <2>0 DEF ReloadPage, Mount
  <2>6. ~AnotherDevice
    BY <2>0 DEF AnotherDevice, Enable
  <2>7. ~UNCHANGED server
    BY <2>0 DEF server
  <2> QED
    BY <1>1, <2>1, <2>2, <2>3, <2>4, <2>5, <2>6, <2>7, ServerFrame, Zenon DEF ServerStep
<1>2. Types /\ NumInv /\ [Next]_vars => [keyOn = None /\ keyOn' \in Ceremonies => keyOn' \in saved]_vars
  BY <1>1
<1> QED
  BY <1>2, NumInvAlways, PTL DEF Spec, EnabledKeyWasSaved

-----------------------------------------------------------------------------
(* What the page shows.  A load has read what the server holds, until      *)
(* something there changes; then an answer is on its way that has the page *)
(* fetch again, or the page has missed it.                                 *)

\* A commit that was served found the account encrypted, and left it so.
StoredInv == \A t \in tasks : t.op = "commit" /\ t.stage = "stored" => Encrypted

PhaseInv ==
  /\ phase \in {"Checking", "Unreachable"} => fetch = None /\ ~Loaded
  /\ phase \in {"Locked", "Unlocked"} => Encrypted
  /\ fetch # None => (fetch.encrypted <=> phase # "Off") /\ (~fetch.encrypted => fetch.rows = None)

\* No answer is on its way that will have the page fetch again.
Quiet ==
  /\ \A t \in tasks : ~(t.op = "give" /\ t.here /\ t.stage = "stored")
  /\ \A r \in section : r.here => r.stage = "sent"

PhaseIsRight == phase = "Off" <=> ~Encrypted

Current ==
  /\ fetch # None => fetch.rows = None \/ fetch.rows = Enrolled
  /\ fetch = None /\ Loaded => overview = Overview(Enrolled, Encrypted)

CurInv == ~missed /\ Quiet /\ PhaseIsRight => Current

ShownInv == StoredInv /\ PhaseInv /\ CurInv

\* A load begins, or there is nothing to load.
Fresh ==
  /\ fetch' = IF phase' \in {"Off", "Locked", "Unlocked"}
                THEN [encrypted |-> phase' # "Off", rows |-> None] ELSE None
  /\ phase' \notin {"Off", "Locked", "Unlocked"} => overview' = NoOverview

\* What the page fetches is as it was, or the account is encrypted from now on.
Same == Enrolled' = Enrolled /\ wrapped' = wrapped /\ (Encrypted' <=> Encrypted)
TurnedOn == ~Encrypted /\ Encrypted'

\* The page knows of what has changed, or missed it.
Kept == missed' \/ ~Quiet' \/ (~missed /\ Quiet /\ (Same \/ TurnedOn))

LEMMA KeptWhen ==
  ASSUME missed => missed',
         \A t \in tasks : t.op = "give" /\ t.here /\ t.stage = "stored" => t \in tasks',
         \A r \in section : r.here /\ r.stage # "sent" => r \in section',
         Same \/ TurnedOn
  PROVE  Kept
<1>1. Quiet' => Quiet
  BY DEF Quiet
<1> QED
  BY <1>1, Zenon DEF Kept

LEMMA SameWhen ==
  ASSUME UNCHANGED <<row, wrapped>>, Encrypted' <=> Encrypted
  PROVE  Same
<1>1. Enrolled' = Enrolled
  BY DEF Enrolled
<1> QED
  BY <1>1, Zenon DEF Same

LEMMA SameServer ==
  ASSUME UNCHANGED server
  PROVE  Same
  BY SameWhen DEF server, Encrypted

\* A step at which the cards, the list and the server stay, but for what starts.
LEMMA KeptMore ==
  ASSUME UNCHANGED server, missed => missed', tasks \subseteq tasks', section \subseteq section'
  PROVE  Kept
  BY KeptWhen, SameServer

LEMMA MountIsFresh ==
  ASSUME NEW phase1, Mount(phase1)
  PROVE  Fresh
  BY DEF Mount, Fresh

LEMMA PhaseIsFresh ==
  ASSUME NEW phase1, Phase(phase1)
  PROVE  Fresh \/ UNCHANGED <<phase, fetching>>
  BY DEF Phase, Load, Fresh

LEMMA RefreshIsFresh ==
  ASSUME UNCHANGED phase, Refresh
  PROVE  Fresh
  BY DEF Refresh, Load, Fresh

Still == UNCHANGED <<phase, overview, fetch>> /\ Kept

LEMMA PanelStill ==
  ASSUME Types, CardInv, [Next]_vars
  PROVE  /\ TurnOn \/ ConfirmNewKey \/ StartReissue \/ CloseCard => Still
         /\ \A c \in Creds : StartGive(c) => Still
         /\ \A s \in Sources : OpenReissue(s) \/ OpenGive(s) => Still
         /\ LockNow \/ RetryProbe => Fresh \/ Still
<1> USE DEF Still, fetching
<1>1. ASSUME TurnOn PROVE Still
  BY <1>1, KeptMore DEF TurnOn, BeginEnable, Start
<1>2. ASSUME ConfirmNewKey PROVE Still
  BY <1>2, KeptMore DEF ConfirmNewKey
<1>3. ASSUME NEW kind, NEW c, OpenCard(kind, c) PROVE Still
  BY <1>3, KeptMore DEF OpenCard
<1>4. ASSUME CloseCard PROVE Still
  BY <1>4, KeptMore DEF CloseCard
<1>5. ASSUME NEW kind, NEW op, NEW source, Open(kind, op, source) PROVE Still
  BY <1>5, KeptMore DEF Open, Start
<1>6. ASSUME LockNow PROVE Fresh \/ Still
  <2>1. UNCHANGED <<server, section>> /\ tasks \subseteq tasks'
    BY <1>6 DEF LockNow, Start
  <2>2. Fresh \/ UNCHANGED <<phase, fetching>>
    BY <1>6, PhaseIsFresh DEF LockNow
  <2> QED
    BY <2>1, <2>2, KeptMore
<1>7. ASSUME RetryProbe PROVE Fresh \/ Still
  <2>1. UNCHANGED <<server, section, tasks>>
    BY <1>7 DEF RetryProbe
  <2>2. Fresh \/ UNCHANGED <<phase, fetching>>
    BY <1>7, PhaseIsFresh DEF RetryProbe
  <2> QED
    BY <2>1, <2>2, KeptMore
<1> QED
  BY <1>1, <1>2, <1>3, <1>4, <1>5, <1>6, <1>7 DEF StartReissue, StartGive, OpenReissue, OpenGive

\* A ceremony that is over, and gave no passkey a key that the page waits to hear of.
LEMMA KeptLess ==
  ASSUME NEW t \in tasks, tasks' = tasks \ {t}, UNCHANGED <<row, wrapped, keyOn, section>>, missed => missed',
         t.op # "give" \/ ~t.here \/ t.stage # "stored"
  PROVE  Kept
<1>1. Same
  BY SameWhen DEF Encrypted
<1> QED
  BY <1>1, KeptWhen

LEMMA TaskStill ==
  ASSUME Types, CardInv, [Next]_vars, NEW t \in tasks
  PROVE  \/ ~(\/ EnableReady(t) \/ ServerEnables(t) \/ CommitTold(t) \/ CommitLost(t) \/ LockTold(t)
              \/ ServerReissues(t) \/ ReissueTold(t) \/ ServerGives(t) \/ GiveTold(t) \/ Fails(t))
         \/ Fresh \/ Still
<1> USE DEF Still, fetching
<1>0. t \in Task
  BY Numbers
<1>1. CASE EnableReady(t)
  BY <1>1, KeptLess DEF EnableReady, Minted, Settle
<1>2. CASE ServerEnables(t)
  <2>1. UNCHANGED <<phase, fetching, row, section>> /\ t.op = "commit"
    BY <1>2 DEF ServerEnables
  <2>2. \A u \in tasks : u # t => u \in tasks'
    BY <1>2 DEF ServerEnables, Stage
  <2>3. Same \/ TurnedOn
    <3>1. CASE MayEnable(Request(t))
      <4>1. keyOn' = t.n /\ t.n # None
        BY <1>0, <1>2, <3>1, Numbers DEF ServerEnables, Enable, Request
      <4> QED
        BY <3>1, <4>1 DEF MayEnable, TurnedOn, Encrypted
    <3>2. CASE ~MayEnable(Request(t))
      BY <1>2, <2>1, <3>2, SameWhen DEF ServerEnables, Encrypted
    <3> QED
      BY <3>1, <3>2
  <2> QED
    BY <2>1, <2>2, <2>3, KeptWhen
<1>3. CASE CommitTold(t)
  <2>1. UNCHANGED <<row, wrapped, keyOn, section>> /\ tasks' = tasks \ {t} /\ t.op # "give"
    BY <1>3 DEF CommitTold, Settle, server
  <2>2. Fresh \/ UNCHANGED <<phase, fetching>>
    BY <1>3, PhaseIsFresh DEF CommitTold
  <2> QED
    BY <2>1, <2>2, KeptLess
<1>4. CASE CommitLost(t)
  <2>1. missed => missed'
    BY <1>4, Zenon DEF CommitLost
  <2> QED
    BY <1>4, <2>1, KeptLess DEF CommitLost, Settle
<1>5. CASE LockTold(t) \/ ReissueTold(t)
  BY <1>5, KeptLess DEF LockTold, ReissueTold, Settle, server
<1>6. CASE ServerReissues(t)
  <2>1. missed => missed'
    BY <1>6, Zenon DEF ServerReissues, Missed
  <2>2. keyOn' # None /\ keyOn # None
    BY <1>6, Numbers DEF ServerReissues, Encrypted
  <2>3. Same
    BY <1>6, <2>2, SameWhen DEF ServerReissues, Encrypted
  <2> QED
    BY <1>6, <2>1, <2>3, KeptWhen DEF ServerReissues, Stage
<1>7. CASE ServerGives(t)
  <2>1. CASE t.here
    <3> DEFINE u == [t EXCEPT !.stage = "stored"]
    <3>1. u.op = "give" /\ u.here /\ u.stage = "stored"
      BY <1>0, <1>7, <2>1 DEF Task, ServerGives
    <3>2. u \in tasks'
      BY <1>7 DEF ServerGives, Stage
    <3> HIDE DEF u
    <3>3. ~Quiet'
      BY <3>1, <3>2 DEF Quiet
    <3>4. Kept
      BY <3>3, Zenon DEF Kept
    <3> QED
      BY <1>7, <3>4 DEF ServerGives
  <2>2. CASE ~t.here
    <3>1. Kept
      BY <1>7, <2>2, Zenon DEF ServerGives, Missed, Kept
    <3> QED
      BY <1>7, <3>1 DEF ServerGives
  <2> QED
    BY <2>1, <2>2
<1>8. CASE GiveTold(t)
  <2>1. UNCHANGED <<row, wrapped, keyOn, section>> /\ tasks' = tasks \ {t}
    BY <1>8 DEF GiveTold, Settle, server
  <2>2. Fresh \/ (UNCHANGED <<phase, fetching>> /\ ~t.here)
    BY <1>8, RefreshIsFresh DEF GiveTold
  <2> QED
    BY <2>1, <2>2, KeptLess
<1>9. CASE Fails(t)
  <2>1. CASE t.stage = "stored"
    <3>1. Kept
      BY <1>9, <2>1, Zenon DEF Fails, Kept
    <3> QED
      BY <1>9, <3>1 DEF Fails
  <2>2. CASE t.stage # "stored"
    <3>1. missed => missed'
      BY <1>9, Zenon DEF Fails
    <3> QED
      BY <1>9, <2>2, <3>1, KeptLess DEF Fails, Settle, server
  <2> QED
    BY <2>1, <2>2
<1> QED
  BY <1>1, <1>2, <1>3, <1>4, <1>5, <1>6, <1>7, <1>8, <1>9

LEMMA SectionStill ==
  ASSUME Types, [Next]_vars, NEW r \in section
  PROVE  \/ ~(\/ ServerRemoves(r) \/ ServerRenames(r) \/ ServerEnrols(r) \/ ServerKeys(r)
              \/ Told(r) \/ SectionFails(r))
         \/ Fresh \/ Still
<1> USE DEF Still, fetching
<1>0. r \in SectionTask
  BY DEF Types, PageTypes
\* An answer on its way to this page keeps it from being quiet.
<1>a. ASSUME NEW stage \in {"stored", "keying", "keyed"}, Answer(r, stage), r.here
      PROVE  Kept
  <2> DEFINE q == [r EXCEPT !.stage = stage]
  <2>1. q.here /\ q.stage # "sent" /\ q \in section'
    BY <1>0, <1>a DEF SectionTask, Answer
  <2> HIDE DEF q
  <2>2. ~Quiet'
    BY <2>1 DEF Quiet
  <2> QED
    BY <2>2, Zenon DEF Kept
<1>1. CASE ServerRemoves(r) \/ ServerEnrols(r)
  <2>1. CASE r.here
    BY <1>1, <1>a, <2>1 DEF ServerRemoves, ServerEnrols
  <2>2. CASE ~r.here
    <3>1. Kept
      BY <1>1, <2>2, Zenon DEF ServerRemoves, ServerEnrols, Missed, Kept
    <3> QED
      BY <1>1, <3>1 DEF ServerRemoves, ServerEnrols
  <2> QED
    BY <2>1, <2>2
<1>2. CASE ServerRenames(r) \/ ServerKeys(r)
  <2>1. CASE r.here
    BY <1>2, <1>a, <2>1 DEF ServerRenames, ServerKeys
  <2>2. CASE ~r.here
    <3>1. UNCHANGED <<phase, overview, fetch>>
      BY <1>2 DEF ServerRenames, ServerKeys
    <3>2. CASE UNCHANGED <<row, wrapped, keyOn, missed>>
      <4>1. Same
        BY <3>2, SameWhen DEF Encrypted
      <4> QED
        BY <1>2, <2>2, <3>1, <3>2, <4>1, KeptWhen DEF ServerRenames, ServerKeys, Answer, cards
    <3>3. CASE Missed(r)
      BY <2>2, <3>1, <3>3, Zenon DEF Missed, Kept
    <3> QED
      BY <1>2, <3>2, <3>3 DEF ServerRenames, ServerKeys, server
  <2> QED
    BY <2>1, <2>2
<1>3. CASE Told(r)
  <2>1. CASE r.here
    BY <1>3, <2>1, RefreshIsFresh DEF Told
  <2>2. CASE ~r.here
    BY <1>3, <2>2, KeptWhen, SameServer DEF Told, cards
  <2> QED
    BY <2>1, <2>2
<1>4. CASE SectionFails(r)
  <2>1. CASE r.stage # "sent"
    <3>1. Kept
      BY <1>4, <2>1, Zenon DEF SectionFails, Kept
    <3> QED
      BY <1>4, <3>1 DEF SectionFails
  <2>2. CASE r.stage = "sent"
    <3>1. missed => missed'
      BY <1>4, Zenon DEF SectionFails
    <3> QED
      BY <1>4, <2>2, <3>1, KeptWhen, SameServer DEF SectionFails, cards
  <2> QED
    BY <2>1, <2>2
<1> QED
  BY <1>1, <1>2, <1>3, <1>4

\* Whatever happens, the page fetches again, it reads an answer, or what it has fetched is
\* as good as it was.
LEMMA ShownStep ==
  ASSUME Types, CardInv, [Next]_vars
  PROVE  Fresh \/ PasskeysRead \/ WrapsRead \/ LoadFails \/ Still
<1> USE DEF Still, fetching
<1>1. ASSUME NEW c \in Creds, Add(c) PROVE Still
  BY <1>1, KeptMore DEF Add, Ask, cards
<1>2. ASSUME NEW i \in RowIds, Remove(i) PROVE Still
  BY <1>2, KeptMore DEF Remove, Ask, cards
<1>3. CASE Rename
  BY <1>3, KeptMore DEF Rename, Ask, cards
<1>4. ASSUME NEW p \in adrift, ServedLate(p) PROVE Still
  <2>1. Kept
    BY <1>4, Zenon DEF ServedLate, Kept
  <2> QED
    BY <1>4, <2>1 DEF ServedLate
<1>5. CASE AnotherDevice
  <2>1. Kept
    BY <1>5, Zenon DEF AnotherDevice, Kept
  <2> QED
    BY <1>5, <2>1 DEF AnotherDevice
<1>6. CASE Probe
  <2>1. PICK phase1 : Phase(phase1)
    BY <1>6 DEF Probe
  <2>2. Fresh \/ UNCHANGED <<phase, fetching>>
    BY <2>1, PhaseIsFresh
  <2> QED
    BY <1>6, <2>2, KeptMore DEF Probe, cards
<1>7. CASE Leave \/ ReloadPage
  BY <1>7, MountIsFresh DEF Leave, ReloadPage
<1>8. CASE UNCHANGED vars
  BY <1>8, KeptMore DEF vars, cards
<1> QED
  BY <1>1, <1>2, <1>3, <1>4, <1>5, <1>6, <1>7, <1>8, PanelStill, TaskStill, SectionStill, Zenon DEF Next

\* No step decrypts an account.
LEMMA EncryptedStays ==
  ASSUME Types, Encrypted, [Next]_vars
  PROVE  Encrypted'
<1>1. keyOn # None
  BY DEF Encrypted
<1>2. ASSUME NEW t \in tasks, ServerEnables(t) \/ CommitLost(t) \/ ServerReissues(t) \/ ServerGives(t)
      PROVE  keyOn' # None
  BY <1>1, <1>2, Numbers DEF ServerEnables, MayEnable, Encrypted, CommitLost, ServerReissues, ServerGives
<1>3. ASSUME NEW p \in adrift, ServedLate(p) PROVE keyOn' # None
  BY <1>1, <1>3 DEF ServedLate, MayEnable, Encrypted
<1>4. ASSUME NEW r \in section, ServerRemoves(r) \/ ServerEnrols(r) \/ ServerKeys(r) PROVE keyOn' # None
  BY <1>1, <1>4 DEF ServerRemoves, ServerEnrols, ServerKeys
<1>5. ASSUME ReloadPage PROVE keyOn' # None
  BY <1>1, <1>5 DEF ReloadPage, Mount
<1>6. ASSUME AnotherDevice PROVE keyOn' # None
  BY <1>1, <1>6, Constants DEF AnotherDevice, MayEnable, Encrypted
<1>7. ASSUME UNCHANGED server PROVE keyOn' # None
  BY <1>1, <1>7 DEF server
<1> QED
  BY <1>2, <1>3, <1>4, <1>5, <1>6, <1>7, ServerFrame, Zenon DEF ServerStep, Encrypted

LEMMA StoredInvStep ==
  ASSUME Types, CardInv, StoredInv, [Next]_vars
  PROVE  StoredInv'
<1> SUFFICES ASSUME NEW u \in tasks', u.op = "commit", u.stage = "stored"
             PROVE  Encrypted'
  BY DEF StoredInv
<1>0. tasks \subseteq Task
  BY DEF Types, PanelTypes
<1>1. CASE Encrypted
  BY <1>1, EncryptedStays
<1>2. ASSUME ~Encrypted PROVE Encrypted'
  <2>0. u \notin tasks
    BY <1>2 DEF StoredInv
  <2>1. ASSUME NEW t \in tasks, NEW stage, Stage(t, stage), t.op # "commit" PROVE FALSE
    <3>1. [t EXCEPT !.stage = stage].op = t.op
      BY <1>0 DEF Task
    <3> QED
      BY <2>0, <2>1, <3>1 DEF Stage
  <2>2. ASSUME NEW t \in tasks, ServerReissues(t) \/ ServerGives(t) PROVE FALSE
    BY <2>1, <2>2 DEF ServerReissues, ServerGives
  <2>3. ASSUME NEW t \in tasks, ServerEnables(t) PROVE Encrypted'
    <3>1. CASE MayEnable(Request(t))
      BY <1>0, <2>3, <3>1, Numbers DEF ServerEnables, Enable, Request, Encrypted
    <3>2. CASE ~MayEnable(Request(t))
      <4>1. Stage(t, "refused")
        BY <2>3, <3>2 DEF ServerEnables
      <4>2. [t EXCEPT !.stage = "refused"].stage = "refused"
        BY <1>0 DEF Task
      <4> QED
        BY <2>0, <4>1, <4>2 DEF Stage
    <3> QED
      BY <3>1, <3>2
  <2>4. ASSUME NEW op, NEW route, NEW cred, NEW source, NEW key, Start(op, route, cred, source, key) PROVE FALSE
    BY <2>0, <2>4 DEF Start
  <2>5. ~TurnOn /\ ~LockNow
    BY <2>4, Zenon DEF TurnOn, BeginEnable, LockNow
  <2>6. ASSUME NEW kind, NEW op, NEW source, Open(kind, op, source) PROVE FALSE
    BY <2>4, <2>6, Zenon DEF Open
  <2>7. ~ConfirmNewKey
    BY <2>0 DEF ConfirmNewKey
  <2>8. ASSUME NEW t \in tasks, EnableReady(t) \/ CommitTold(t) \/ CommitLost(t) \/ LockTold(t) \/ ReissueTold(t)
                                \/ GiveTold(t) \/ Fails(t)
        PROVE  FALSE
    BY <2>0, <2>8 DEF EnableReady, Minted, CommitTold, CommitLost, LockTold, ReissueTold, GiveTold, Fails, Settle
  <2>9. ASSUME NEW kind, NEW c, OpenCard(kind, c) PROVE FALSE
    BY <2>0, <2>9 DEF OpenCard
  <2>10. ~CloseCard /\ ~RetryProbe /\ ~ReloadPage
    BY <2>0 DEF CloseCard, RetryProbe, ReloadPage
  <2>11. ~Leave
    <3>1. ASSUME NEW t \in tasks, u = [t EXCEPT !.here = FALSE] PROVE FALSE
      <4>1. u.op = t.op /\ u.stage = t.stage
        BY <1>0, <3>1 DEF Task
      <4> QED
        BY <1>2, <4>1 DEF StoredInv
    <3> QED
      BY <3>1 DEF Leave
  <2>12. ~UNCHANGED <<cards, saved, owed>>
    BY <2>0 DEF cards
  <2> QED
    BY <2>2, <2>3, <2>5, <2>6, <2>7, <2>8, <2>9, <2>10, <2>11, <2>12, PanelFrame, Zenon
       DEF PanelStep, StartReissue, StartGive, OpenReissue, OpenGive
<1> QED
  BY <1>1, <1>2

LEMMA PhaseFrame ==
  ASSUME [Next]_vars
  PROVE  \/ UNCHANGED phase
         \/ \E t \in tasks : CommitTold(t)
         \/ LockNow \/ RetryProbe \/ Probe \/ Leave \/ ReloadPage
<1>1. CASE TurnOn \/ ConfirmNewKey \/ StartReissue \/ CloseCard \/ Rename
  BY <1>1 DEF TurnOn, BeginEnable, ConfirmNewKey, StartReissue, OpenCard, CloseCard, Rename, Ask
<1>2. ASSUME NEW c \in Creds, StartGive(c) \/ Add(c) PROVE UNCHANGED phase
  BY <1>2 DEF StartGive, OpenCard, Add, Ask
<1>3. ASSUME NEW s \in Sources, OpenReissue(s) \/ OpenGive(s) PROVE UNCHANGED phase
  BY <1>3 DEF OpenReissue, OpenGive, Open
<1>4. ASSUME NEW t \in tasks,
             \/ EnableReady(t) \/ ServerEnables(t) \/ CommitLost(t) \/ LockTold(t) \/ ServerReissues(t)
             \/ ReissueTold(t) \/ ServerGives(t) \/ GiveTold(t) \/ Fails(t)
      PROVE  UNCHANGED phase
  BY <1>4 DEF EnableReady, ServerEnables, CommitLost, LockTold, ServerReissues, ReissueTold, ServerGives, GiveTold, Fails
<1>5. ASSUME NEW p \in adrift, ServedLate(p) PROVE UNCHANGED phase
  BY <1>5 DEF ServedLate
<1>6. CASE PasskeysRead \/ WrapsRead \/ LoadFails \/ AnotherDevice
  BY <1>6 DEF PasskeysRead, WrapsRead, LoadFails, AnotherDevice
<1>7. ASSUME NEW i \in RowIds, Remove(i) PROVE UNCHANGED phase
  BY <1>7 DEF Remove, Ask
<1>8. ASSUME NEW r \in section,
             ServerRemoves(r) \/ ServerRenames(r) \/ ServerEnrols(r) \/ ServerKeys(r) \/ Told(r) \/ SectionFails(r)
      PROVE  UNCHANGED phase
  BY <1>8 DEF ServerRemoves, ServerRenames, ServerEnrols, ServerKeys, Told, SectionFails
<1>9. CASE UNCHANGED vars
  BY <1>9 DEF vars
<1> QED
  BY <1>1, <1>2, <1>3, <1>4, <1>5, <1>6, <1>7, <1>8, <1>9, Zenon DEF Next

\* A page is locked or unlocked only of an account that is encrypted.
LEMMA LockedIsEncrypted ==
  ASSUME Types, StoredInv, PhaseInv, [Next]_vars, phase' \in {"Locked", "Unlocked"}
  PROVE  Encrypted
<1>1. phase \in {"Locked", "Unlocked"} => Encrypted
  BY DEF PhaseInv
<1>2. CASE UNCHANGED phase
  BY <1>1, <1>2
<1>3. ASSUME NEW t \in tasks, CommitTold(t) PROVE Encrypted
  BY <1>1, <1>3 DEF CommitTold, StoredInv
<1>4. CASE LockNow
  BY <1>1, <1>4 DEF LockNow
<1>5. CASE RetryProbe
  BY <1>1, <1>5 DEF RetryProbe, Phase
<1>6. CASE Probe
  BY <1>1, <1>6 DEF Probe, Phase
<1>7. CASE Leave \/ ReloadPage
  BY <1>1, <1>7 DEF Leave, ReloadPage, Mount
<1> QED
  BY <1>2, <1>3, <1>4, <1>5, <1>6, <1>7, PhaseFrame

LEMMA FreshLoad ==
  ASSUME Fresh
  PROVE  /\ phase' \in {"Checking", "Unreachable"} => fetch' = None
         /\ fetch' = None => ~Loaded'
         /\ fetch' # None => (fetch'.encrypted <=> phase' # "Off") /\ fetch'.rows = None
<1>1. CASE phase' \in {"Off", "Locked", "Unlocked"}
  <2>1. fetch' = [encrypted |-> phase' # "Off", rows |-> None]
    BY <1>1 DEF Fresh
  <2>2. fetch' # None
    <3>1. [encrypted |-> phase' # "Off", rows |-> None] \in Fetch
      BY DEF Fetch
    <3> QED
      BY <2>1, <3>1, Constants
  <2>3. fetch'.rows = None /\ fetch'.encrypted = (phase' # "Off")
    BY <2>1
  <2> QED
    BY <1>1, <2>2, <2>3
<1>2. CASE phase' \notin {"Off", "Locked", "Unlocked"}
  BY <1>2 DEF Fresh, NoOverview, Loaded
<1> QED
  BY <1>1, <1>2

LEMMA PhaseInvStep ==
  ASSUME Types, CardInv, StoredInv, PhaseInv, [Next]_vars
  PROVE  PhaseInv'
<1>1. phase' \in {"Locked", "Unlocked"} => Encrypted'
  BY LockedIsEncrypted, EncryptedStays
<1> DEFINE Idly == phase' \in {"Checking", "Unreachable"} => fetch' = None /\ ~Loaded'
           Kind == fetch' # None => (fetch'.encrypted <=> phase' # "Off") /\ (~fetch'.encrypted => fetch'.rows = None)
<1>2. ASSUME Fresh PROVE Idly /\ Kind
  BY <1>2, FreshLoad
<1>3. ASSUME PasskeysRead PROVE Idly /\ Kind
  <2>1. fetch # None /\ phase' = phase /\ phase \notin {"Checking", "Unreachable"}
    BY <1>3 DEF PasskeysRead, PhaseInv
  <2>2. CASE fetch.encrypted
    <3>1. fetch \in Fetch
      BY <2>1 DEF Types, PageTypes
    <3>2. fetch' = [fetch EXCEPT !.rows = Enrolled] /\ fetch'.encrypted = fetch.encrypted
      BY <1>3, <2>2, <3>1 DEF PasskeysRead, Fetch
    <3> QED
      BY <2>1, <2>2, <3>2 DEF PhaseInv
  <2>3. CASE ~fetch.encrypted
    BY <1>3, <2>1, <2>3 DEF PasskeysRead
  <2> QED
    BY <2>2, <2>3
<1>4. ASSUME WrapsRead \/ LoadFails PROVE Idly /\ Kind
  BY <1>4 DEF WrapsRead, LoadFails, PhaseInv
<1>5. ASSUME Still PROVE Idly /\ Kind
  BY <1>5 DEF Still, PhaseInv, Loaded
<1>6. Idly /\ Kind
  BY <1>2, <1>3, <1>4, <1>5, ShownStep
<1> QED
  BY <1>1, <1>6 DEF PhaseInv

LEMMA CurInvStep ==
  ASSUME Types, CardInv, StoredInv, PhaseInv, CurInv, [Next]_vars
  PROVE  CurInv'
<1> SUFFICES ASSUME ~missed', Quiet', PhaseIsRight'
             PROVE  Current'
  BY DEF CurInv
<1>0. overview \in Fetched /\ fetch \in Fetch \cup {None}
  BY DEF Types, PageTypes
<1>1. CASE Fresh
  BY <1>1, FreshLoad DEF Current
<1>2. CASE PasskeysRead
  <2>0. fetch # None /\ UNCHANGED <<row, wrapped, keyOn, phase>>
    BY <1>2 DEF PasskeysRead, server
  <2>1. Enrolled' = Enrolled /\ (Encrypted' <=> Encrypted)
    BY <2>0 DEF Enrolled, Encrypted
  <2>2. CASE fetch.encrypted
    <3>1. fetch' = [fetch EXCEPT !.rows = Enrolled] /\ fetch'.rows = Enrolled /\ fetch' # None
      <4>1. fetch \in Fetch
        BY <1>0, <2>0
      <4>2. fetch' = [fetch EXCEPT !.rows = Enrolled]
        BY <1>2, <2>2 DEF PasskeysRead
      <4>3. [fetch EXCEPT !.rows = Enrolled] \in Fetch
        BY <4>1, EnrolledAreCreds DEF Types, Fetch
      <4> QED
        BY <4>1, <4>2, <4>3, Constants DEF Fetch
    <3> QED
      BY <2>1, <3>1 DEF Current
  <2>3. CASE ~fetch.encrypted
    <3>1. phase = "Off" /\ ~Encrypted /\ ~Encrypted'
      BY <2>0, <2>1, <2>3 DEF PhaseInv, PhaseIsRight
    <3>2. fetch' = None /\ overview' = Overview(Enrolled, FALSE)
      BY <1>2, <2>3 DEF PasskeysRead
    <3>3. Overview(Enrolled, Encrypted)' = Overview(Enrolled, FALSE)
      BY <2>0, <2>1, <3>1 DEF Overview
    <3> QED
      BY <3>2, <3>3 DEF Current
  <2> QED
    BY <2>2, <2>3
<1>3. CASE WrapsRead
  <2>0. fetch # None /\ fetch.rows # None /\ UNCHANGED <<row, wrapped, keyOn, phase, missed, tasks, section>>
    BY <1>3 DEF WrapsRead, server, cards
  <2>1. Enrolled' = Enrolled /\ (Encrypted' <=> Encrypted) /\ (Quiet' <=> Quiet)
    BY <2>0 DEF Enrolled, Encrypted, Quiet
  <2>2. fetch.rows = Enrolled /\ Encrypted
    <3>1. phase # "Off"
      BY <2>0 DEF PhaseInv
    <3>2. Encrypted /\ PhaseIsRight
      BY <2>0, <2>1, <3>1 DEF PhaseIsRight
    <3> QED
      BY <2>0, <2>1, <3>2 DEF CurInv, Current
  <2>3. fetch' = None /\ overview' = Overview(Enrolled, TRUE)
    BY <1>3, <2>2 DEF WrapsRead
  <2>4. Overview(Enrolled, Encrypted)' = Overview(Enrolled, TRUE)
    BY <2>0, <2>1, <2>2 DEF Overview
  <2> QED
    BY <2>3, <2>4 DEF Current
<1>4. CASE LoadFails
  BY <1>4 DEF LoadFails, Current, Loaded, NoAnswer, NoOverview
<1>5. CASE Still
  <2>0. UNCHANGED <<phase, overview, fetch>> /\ ~missed /\ Quiet /\ (Same \/ TurnedOn)
    BY <1>5, Zenon DEF Still, Kept
  <2>1. CASE Same
    <3>1. Enrolled' = Enrolled /\ wrapped' = wrapped /\ (Encrypted' <=> Encrypted)
      BY <2>1, Zenon DEF Same
    <3>2. PhaseIsRight
      BY <2>0, <3>1 DEF PhaseIsRight
    <3>3. Current
      BY <2>0, <3>2 DEF CurInv
    <3>4. Overview(Enrolled, Encrypted)' = Overview(Enrolled, Encrypted)
      BY <3>1 DEF Overview
    <3> QED
      BY <2>0, <3>1, <3>3, <3>4 DEF Current, Loaded
  <2>2. CASE TurnedOn
    <3>1. ~Encrypted /\ Encrypted'
      BY <2>2, Zenon DEF TurnedOn
    <3>2. phase \in {"Checking", "Unreachable"}
      BY <2>0, <3>1 DEF PhaseInv, PhaseIsRight, Types, PageTypes, Phases
    <3> QED
      BY <2>0, <3>2 DEF PhaseInv, Current, Loaded
  <2> QED
    BY <2>0, <2>1, <2>2
<1> QED
  BY <1>1, <1>2, <1>3, <1>4, <1>5, ShownStep

LEMMA ShownInvAlways == Spec => []ShownInv
<1>1. Init => ShownInv
  <2> SUFFICES ASSUME Init PROVE ShownInv
    OBVIOUS
  <2>1. tasks = {} /\ fetch = None /\ phase = "Checking" /\ ~Loaded
    BY DEF Init, Loaded, NoOverview
  <2> QED
    BY <2>1 DEF ShownInv, StoredInv, PhaseInv, CurInv, Current
<1>2. Types /\ CardInv /\ ShownInv /\ [Next]_vars => ShownInv'
  BY StoredInvStep, PhaseInvStep, CurInvStep DEF ShownInv
<1> QED
  BY <1>1, <1>2, CardInvAlways, PTL DEF Spec

\* An overview at rest is the server's: unless the page missed a change, what the panel shows
\* of the passkeys, of those that can unlock and of the encryption key is what is on file.
THEOREM OverviewsAreCurrent == Spec => []OverviewIsCurrent
<1>1. ShownInv => OverviewIsCurrent
  BY DEF ShownInv, CurInv, Quiet, PhaseIsRight, Current, OverviewIsCurrent
<1> QED
  BY <1>1, ShownInvAlways, PTL
=============================================================================
