------------------------- MODULE EncryptionCtxProofs -------------------------
(***************************************************************************)
(* Theorems about EncryptionCtx, for any number of accounts, tabs and      *)
(* tasks: its types; the key a page uses is of the account it shows; a     *)
(* page of an encrypted account never says Disabled; Locked and Unlocked   *)
(* are claimed of encrypted accounts only; each page implements            *)
(* PageSession; and only a refused sign-out leaves a page with nobody to   *)
(* say what its account is.                                                *)
(* The safety theorems are facts about one page at a time, so that every   *)
(* step is first shown to leave the other pages alone.                     *)
(***************************************************************************)
EXTENDS EncryptionCtx, TLAPS

TaskTable == [Pages -> [Slots -> Tasks]]

-----------------------------------------------------------------------------
(* What the building blocks keep of the types.                             *)

\* A fresh slot is a task.
LEMMA IdleIsTask == Idle \in Tasks
BY DEF Idle, Tasks, Kinds, Stages, Somebody

\* So is a new task, of whatever kind, stage and account.
LEMMA NewTaskIsTask ==
  ASSUME NEW kind \in Kinds, NEW stage \in Stages, NEW u \in Somebody, NEW f \in BOOLEAN
  PROVE  NewTask(kind, stage, u, f) \in Tasks
BY IdleIsTask DEF NewTask, Idle, Tasks

\* A slot of the table holds a task.
LEMMA SlotIsTask ==
  ASSUME task \in TaskTable, NEW p \in Pages, NEW t \in Slots
  PROVE  task[p][t] \in Tasks
BY DEF TaskTable

\* Changing the fields of a task leaves a task.
LEMMA StageUpdate ==
  ASSUME NEW r \in Tasks, NEW s \in Stages
  PROVE  [r EXCEPT !.stage = s] \in Tasks
BY DEF Tasks

LEMMA FreshUpdate ==
  ASSUME NEW r \in Tasks, NEW f \in BOOLEAN
  PROVE  [r EXCEPT !.fresh = f] \in Tasks
BY DEF Tasks

LEMMA KeyUpdate ==
  ASSUME NEW r \in Tasks, NEW s \in Stages, NEW k \in Keys \cup {None}
  PROVE  [r EXCEPT !.stage = s, !.key = k] \in Tasks
BY DEF Tasks

LEMMA AnswerUpdate ==
  ASSUME NEW r \in Tasks, NEW s \in Stages, NEW a \in Somebody, NEW b \in BOOLEAN
  PROVE  [r EXCEPT !.stage = s, !.about = a, !.on = b] \in Tasks
BY DEF Tasks

\* Putting a task in a slot keeps the table a table.
LEMMA BecomeType ==
  ASSUME task \in TaskTable, NEW p \in Pages, NEW t \in Slots, NEW r \in Tasks,
         Become(p, t, r)
  PROVE  task' \in TaskTable
BY DEF Become, TaskTable

\* So does moving a task to another stage.
LEMMA AdvanceType ==
  ASSUME task \in TaskTable, NEW p \in Pages, NEW t \in Slots, NEW s \in Stages,
         Advance(p, t, s)
  PROVE  task' \in TaskTable
BY SlotIsTask, StageUpdate, BecomeType DEF Advance

\* The end of a task keeps the table, and the holder of the token a slot.
LEMMA EndType ==
  ASSUME task \in TaskTable, current \in [Pages -> Slots \cup {NoOne}],
         NEW p \in Pages, NEW t \in Slots, End(p, t)
  PROVE  /\ task' \in TaskTable
         /\ current' \in [Pages -> Slots \cup {NoOne}]
<1>1. task' \in TaskTable  BY IdleIsTask DEF End, TaskTable
<1>2. current' \in [Pages -> Slots \cup {NoOne}]  BY DEF End
<1> QED BY <1>1, <1>2

\* A forget keeps the table's type.
LEMMA ForgetType ==
  ASSUME task \in TaskTable,
         NEW p \in Pages, NEW t \in Slots, NEW r \in Tasks, ForgetDeviceKey(p, t, r)
  PROVE  task' \in TaskTable
<1>1. [r EXCEPT !.stage = "clearing", !.fresh = FALSE] \in Tasks
  BY DEF Tasks, Stages
<1>2. \A s \in Slots : [task[p][s] EXCEPT !.fresh = FALSE] \in Tasks
  BY SlotIsTask, FreshUpdate
<1> QED BY <1>1, <1>2 DEF ForgetDeviceKey, TaskTable

-----------------------------------------------------------------------------
(* Types are not inductive by themselves: unlock publishes the key its     *)
(* task carries, made for the account its task acts for.                   *)

\* A task acts for an account; it knows which account an answer was about; and
\* it carries a key where one is due.
Keyed(r) == r.stage \in {"offered", "storing", "stored"} => r.key \in Keys
Attributed(r) ==
  /\ r.kind # "none" => r.user \in Users
  /\ r.kind # "signout" /\ r.on => r.about \in Users
GoodTask(r) == Keyed(r) /\ Attributed(r)
KeyCarried == \A p \in Pages, t \in Slots : GoodTask(task[p][t])

TypeInv == TypeOK /\ KeyCarried

\* The parts of TypeOK that actions change together.
TasksOK == task \in TaskTable /\ KeyCarried
HolderOK == current \in [Pages -> Slots \cup {NoOne}]
PublicationOK ==
  /\ state \in [Pages -> EncryptionStates]
  /\ key \in [Pages -> Keys \cup {None}]
  /\ \A p \in Pages : key[p] # None <=> state[p] = "Unlocked"
IdentityOK ==
  /\ user \in [Pages -> Somebody]
  /\ effect \in [Pages -> BOOLEAN]
  /\ reprobed \in [Pages -> BOOLEAN]
SharedOK ==
  /\ cookie \in Somebody
  /\ enabled \subseteq Users
  /\ record \in Keys \cup {None}

LEMMA TypeInvParts ==
  TypeInv <=> /\ TasksOK /\ HolderOK
              /\ PublicationOK /\ IdentityOK /\ SharedOK
BY DEF TypeInv, TypeOK, TasksOK, HolderOK, PublicationOK, IdentityOK,
       SharedOK, TaskTable

\* The same, about the state an action leads to.
LEMMA TypeInvPrime ==
  ASSUME TasksOK', HolderOK', PublicationOK', IdentityOK', SharedOK'
  PROVE  TypeInv'
BY DEF TypeInv, TypeOK, TasksOK, HolderOK, PublicationOK, IdentityOK,
       SharedOK, TaskTable

\* What an action leaves alone keeps its type.
LEMMA Frames ==
  ASSUME TypeInv
  PROVE  /\ UNCHANGED shared => SharedOK'
         /\ UNCHANGED publication => PublicationOK'
         /\ UNCHANGED identity => IdentityOK'
         /\ UNCHANGED current => HolderOK'
         /\ UNCHANGED task => TasksOK'
<1> USE TypeInvParts
<1>1. UNCHANGED shared => SharedOK'  BY DEF shared, SharedOK
<1>2. UNCHANGED publication => PublicationOK'  BY DEF publication, PublicationOK
<1>3. UNCHANGED identity => IdentityOK'  BY DEF identity, IdentityOK
<1>4. UNCHANGED current => HolderOK'  BY DEF HolderOK
<1>5. UNCHANGED task => TasksOK'  BY DEF TasksOK, KeyCarried, TaskTable
<1> QED BY <1>1, <1>2, <1>3, <1>4, <1>5

LEMMA PublishType ==
  ASSUME TypeInv, NEW p \in Pages, NEW s \in EncryptionStates, NEW k \in Keys \cup {None},
         k # None <=> s = "Unlocked", Publish(p, s, k)
  PROVE  PublicationOK'
BY TypeInvParts DEF PublicationOK, Publish

LEMMA InSlot ==
  ASSUME TypeInv, NEW p \in Pages, NEW t \in Slots
  PROVE  task[p][t] \in Tasks /\ GoodTask(task[p][t])
BY SlotIsTask, TypeInvParts DEF TasksOK, KeyCarried

LEMMA IdleIsGood == GoodTask(Idle)
BY DEF GoodTask, Keyed, Attributed, Idle

\* A slot that gets a task with a key in it where one is due keeps the table.
LEMMA BecomeTasks ==
  ASSUME TypeInv, NEW p \in Pages, NEW t \in Slots, NEW r \in Tasks,
         GoodTask(r), Become(p, t, r)
  PROVE  TasksOK'
<1>1. task' = [task EXCEPT ![p] = [task[p] EXCEPT ![t] = r]]  BY DEF Become
<1>2. task \in TaskTable /\ KeyCarried  BY TypeInvParts DEF TasksOK
<1>3. \A q \in Pages, s \in Slots :
        task'[q][s] = IF q = p /\ s = t THEN r ELSE task[q][s]
  BY <1>1, <1>2 DEF TaskTable
<1>4. KeyCarried'  BY <1>2, <1>3 DEF KeyCarried
<1> QED BY <1>2, <1>4, BecomeType DEF TasksOK

LEMMA AdvanceTasks ==
  ASSUME TypeInv, NEW p \in Pages, NEW t \in Slots, NEW s \in Stages,
         s \in {"offered", "storing", "stored"} => task[p][t].key \in Keys,
         Advance(p, t, s)
  PROVE  TasksOK'
<1> DEFINE r == [task[p][t] EXCEPT !.stage = s]
<1>1. r \in Tasks  BY InSlot, StageUpdate
<1>2. GoodTask(r)  BY InSlot DEF Tasks, GoodTask, Keyed, Attributed
<1> QED BY <1>1, <1>2, BecomeTasks DEF Advance

LEMMA EndTasks ==
  ASSUME TypeInv, NEW p \in Pages, NEW t \in Slots, End(p, t)
  PROVE  TasksOK' /\ HolderOK'
<1>1. TasksOK'
  <2>1. Become(p, t, Idle)  BY DEF End, Become
  <2> QED BY <2>1, BecomeTasks, IdleIsTask, IdleIsGood
<1>2. HolderOK'  BY TypeInvParts DEF HolderOK, End
<1> QED BY <1>1, <1>2

LEMMA StartTasks ==
  ASSUME TypeInv, NEW p \in Pages, NEW t \in Slots, NEW kind \in Kinds, NEW u \in Users,
         NEW stage \in Stages \ {"offered", "storing", "stored"}, NEW f \in BOOLEAN,
         Become(p, t, NewTask(kind, stage, u, f))
  PROVE  TasksOK'
<1>1. NewTask(kind, stage, u, f) \in Tasks  BY NewTaskIsTask DEF Somebody
<1>2. GoodTask(NewTask(kind, stage, u, f))
  BY DEF NewTask, Idle, GoodTask, Keyed, Attributed
<1> QED BY <1>1, <1>2, BecomeTasks

\* A forget keeps the table, and what its tasks carry.
LEMMA ForgetTasks ==
  ASSUME TypeInv, NEW p \in Pages, NEW t \in Slots, NEW r \in Tasks, Attributed(r),
         ForgetDeviceKey(p, t, r)
  PROVE  TasksOK'
<1>1. task \in TaskTable /\ KeyCarried  BY TypeInvParts DEF TasksOK
<1>2. task' \in TaskTable
  BY <1>1, ForgetType
<1> DEFINE rr == [r EXCEPT !.stage = "clearing", !.fresh = FALSE]
<1>3. GoodTask(rr)  BY DEF Tasks, GoodTask, Keyed, Attributed
<1>4. \A q \in Pages, s \in Slots :
        task'[q][s] = IF q = p THEN IF s = t THEN rr ELSE [task[q][s] EXCEPT !.fresh = FALSE]
                               ELSE task[q][s]
  BY <1>1 DEF ForgetDeviceKey, TaskTable
<1>5. \A s \in Slots : GoodTask([task[p][s] EXCEPT !.fresh = FALSE])
  BY InSlot DEF Tasks, GoodTask, Keyed, Attributed
<1>6. KeyCarried'
  <2> SUFFICES ASSUME NEW q \in Pages, NEW s \in Slots PROVE GoodTask(task'[q][s])
    BY DEF KeyCarried, GoodTask, Keyed, Attributed
  <2> HIDE DEF rr
  <2>1. CASE q = p /\ s = t  BY <1>3, <1>4, <2>1
  <2>2. CASE q = p /\ s # t  BY <1>4, <1>5, <2>2
  <2>3. CASE q # p  BY <1>1, <1>4, <2>3 DEF KeyCarried
  <2> QED BY <2>1, <2>2, <2>3
<1> QED BY <1>2, <1>6 DEF TasksOK

\* A page whose slots all change at once keeps the table.
LEMMA RowTasks ==
  ASSUME TypeInv, NEW p \in Pages, NEW row \in [Slots -> Tasks],
         \A s \in Slots : GoodTask(row[s]), task' = [task EXCEPT ![p] = row]
  PROVE  TasksOK'
<1>1. task \in TaskTable /\ KeyCarried  BY TypeInvParts DEF TasksOK
<1>2. task' \in TaskTable  BY <1>1 DEF TaskTable
<1>3. \A q \in Pages : task'[q] = IF q = p THEN row ELSE task[q]  BY <1>1 DEF TaskTable
<1>4. KeyCarried'
  <2> SUFFICES ASSUME NEW q \in Pages, NEW s \in Slots PROVE GoodTask(task'[q][s])
    BY DEF KeyCarried, GoodTask, Keyed, Attributed
  <2> QED BY <1>1, <1>3 DEF KeyCarried
<1> QED BY <1>2, <1>4 DEF TasksOK

LEMMA StartProbeType ==
  ASSUME TypeInv, NEW p \in Pages, NEW m \in EncryptionStates \ {"Unlocked"},
         StartProbe(p, m)
  PROVE  TasksOK' /\ HolderOK' /\ PublicationOK'
<1>1. CASE user[p] = None
  <2>1. UNCHANGED task /\ Publish(p, "Disabled", None)
        /\ current' = [current EXCEPT ![p] = NoOne]
    BY <1>1 DEF StartProbe
  <2>2. TasksOK'  BY <2>1, Frames
  <2>3. PublicationOK'  BY <2>1, PublishType DEF EncryptionStates
  <2>4. HolderOK'  BY <2>1, TypeInvParts DEF HolderOK
  <2> QED BY <2>2, <2>3, <2>4
<1>2. CASE user[p] # None
  <2>1. PICK t \in Slots : /\ current' = [current EXCEPT ![p] = t]
                           /\ Become(p, t, NewTask("probe", "asking", user[p], FALSE))
    BY <1>2 DEF StartProbe
  <2>2. Publish(p, m, None)  BY <1>2 DEF StartProbe
  <2>3. user[p] \in Users  BY <1>2, TypeInvParts DEF IdentityOK, Somebody
  <2>4. TasksOK'  BY <2>1, <2>3, StartTasks DEF Kinds, Stages
  <2>5. PublicationOK'  BY <2>2, PublishType
  <2>6. HolderOK'  BY <2>1, TypeInvParts DEF HolderOK
  <2> QED BY <2>4, <2>5, <2>6
<1> QED BY <1>1, <1>2

LEMMA PublishIfCurrentType ==
  ASSUME TypeInv, NEW p \in Pages, NEW t \in Slots, NEW s \in EncryptionStates,
         NEW k \in Keys \cup {None}, k # None <=> s = "Unlocked",
         PublishIfCurrent(p, t, s, k)
  PROVE  TasksOK' /\ HolderOK' /\ PublicationOK'
<1>1. TasksOK' /\ HolderOK'  BY EndTasks DEF PublishIfCurrent
<1>2. PublicationOK'
  <2>1. CASE current[p] = t
    BY <2>1, PublishType DEF PublishIfCurrent
  <2>2. CASE current[p] # t
    BY <2>2, Frames DEF PublishIfCurrent
  <2> QED BY <2>1, <2>2
<1> QED BY <1>1, <1>2

LEMMA UnlockType ==
  ASSUME TypeInv, NEW p \in Pages, NEW t \in Slots, NEW k \in Keys, Unlock(p, t, k)
  PROVE  TasksOK' /\ HolderOK' /\ PublicationOK'
<1>1. CASE k.user # user[p]
  BY <1>1, EndTasks, Frames DEF Unlock
<1>2. CASE k.user = user[p] /\ task[p][t].fresh
  <2>1. UnlockStores(p, t, k)  BY <1>2 DEF Unlock
  <2> DEFINE r == [task[p][t] EXCEPT !.stage = "storing", !.key = k]
  <2>2. r \in Tasks  BY InSlot, KeyUpdate DEF Stages
  <2>3. GoodTask(r)  BY InSlot DEF Tasks, GoodTask, Keyed, Attributed
  <2>4. Become(p, t, r) /\ Publish(p, "Locked", None)
        /\ current' = [current EXCEPT ![p] = t]
    BY <2>1 DEF UnlockStores
  <2>5. TasksOK'  BY <2>2, <2>3, <2>4, BecomeTasks
  <2>6. PublicationOK'  BY <2>4, PublishType DEF EncryptionStates
  <2>7. HolderOK'  BY <2>4, TypeInvParts DEF HolderOK
  <2> QED BY <2>5, <2>6, <2>7
<1>3. CASE k.user = user[p] /\ ~task[p][t].fresh
  <2>1. UnlockUnremembered(p, t, k)  BY <1>3 DEF Unlock
  <2>2. /\ Become(p, t, Idle) /\ Publish(p, "Unlocked", k)
        /\ current' = [current EXCEPT ![p] = NoOne]
    BY <2>1 DEF UnlockUnremembered
  <2>3. TasksOK'  BY <2>2, BecomeTasks, IdleIsTask, IdleIsGood
  <2>4. PublicationOK'  BY <2>2, PublishType, NoneAssumption DEF EncryptionStates
  <2>5. HolderOK'  BY <2>2, TypeInvParts DEF HolderOK
  <2> QED BY <2>3, <2>4, <2>5
<1> QED BY <1>1, <1>2, <1>3 DEF Unlock

LEMMA LoadType ==
  ASSUME TypeInv, NEW p \in Pages, NEW u \in Somebody, Load(p, u)
  PROVE  TasksOK' /\ HolderOK' /\ PublicationOK' /\ IdentityOK'
<1>1. TasksOK'
  <2>1. task \in TaskTable /\ KeyCarried  BY TypeInvParts DEF TasksOK
  <2>2. task' = [task EXCEPT ![p] = [t \in Slots |-> Idle]]  BY DEF Load
  <2>3. task' \in TaskTable  BY <2>1, <2>2, IdleIsTask DEF TaskTable
  <2>4. \A q \in Pages, s \in Slots : task'[q][s] = IF q = p THEN Idle ELSE task[q][s]
    BY <2>1, <2>2 DEF TaskTable
  <2>5. KeyCarried'  BY <2>1, <2>4, IdleIsGood DEF KeyCarried
  <2> QED BY <2>3, <2>5 DEF TasksOK
<1>2. HolderOK'  BY TypeInvParts DEF Load, HolderOK
<1>3. PublicationOK'
  <2>1. Publish(p, InitialState(u), None)  BY DEF Load
  <2>2. InitialState(u) \in EncryptionStates \ {"Unlocked"}
    BY DEF InitialState, EncryptionStates
  <2> QED BY <2>1, <2>2, PublishType
<1>4. IdentityOK'  BY TypeInvParts DEF Load, IdentityOK
<1> QED BY <1>1, <1>2, <1>3, <1>4

-----------------------------------------------------------------------------
(* One action at a time.                                                   *)

\* The initial states have the types.
LEMMA InitType == Init => TypeInv
<1> SUFFICES ASSUME Init PROVE TypeInv  OBVIOUS
<1>1. TasksOK
  BY IdleIsTask, IdleIsGood DEF Init, TasksOK, TaskTable, KeyCarried
<1>2. HolderOK /\ SharedOK /\ IdentityOK
  BY UsersAssumption DEF Init, HolderOK, SharedOK, IdentityOK, Somebody
<1>3. PublicationOK  BY DEF Init, PublicationOK, InitialState, EncryptionStates
<1> QED BY <1>1, <1>2, <1>3, TypeInvParts

\* The actions of the probe.
LEMMA ProbeActionsType ==
  ASSUME TypeInv, NEW p \in Pages
  PROVE  /\ RunEffect(p) => TypeInv'
         /\ Retry(p) => TypeInv'
         /\ UnopenableRowSeen(p) => TypeInv'
         /\ \A t \in Slots : ProbeTold(p, t) => TypeInv'
         /\ \A t \in Slots : ProbeRestored(p, t) => TypeInv'
<1>1. ASSUME RunEffect(p) PROVE TypeInv'
  <2>1. TasksOK' /\ HolderOK' /\ PublicationOK'
    BY <1>1, StartProbeType DEF RunEffect, EncryptionStates
  <2>2. IdentityOK'  BY <1>1, TypeInvParts DEF RunEffect, IdentityOK
  <2>3. SharedOK'  BY <1>1, Frames DEF RunEffect
  <2> QED BY <2>1, <2>2, <2>3, TypeInvPrime
<1>2. ASSUME Retry(p) PROVE TypeInv'
  <2>1. TasksOK' /\ HolderOK' /\ PublicationOK'
    BY <1>2, StartProbeType DEF Retry, EncryptionStates
  <2>2. IdentityOK' /\ SharedOK'  BY <1>2, Frames DEF Retry
  <2> QED BY <2>1, <2>2, TypeInvPrime
<1>3. ASSUME UnopenableRowSeen(p) PROVE TypeInv'
  <2>1. TasksOK' /\ HolderOK' /\ PublicationOK'
    BY <1>3, StartProbeType DEF UnopenableRowSeen, EncryptionStates
  <2>2. IdentityOK'  BY <1>3, TypeInvParts DEF UnopenableRowSeen, IdentityOK
  <2>3. SharedOK'  BY <1>3, Frames DEF UnopenableRowSeen
  <2> QED BY <2>1, <2>2, <2>3, TypeInvPrime
<1>4. ASSUME NEW t \in Slots, ProbeTold(p, t) PROVE TypeInv'
  <2>1. SharedOK' /\ IdentityOK'  BY <1>4, Frames DEF ProbeTold
  <2>2. CASE PublishIfCurrent(p, t, "Unreachable", None)
    BY <2>1, <2>2, PublishIfCurrentType, Frames, TypeInvPrime DEF EncryptionStates
  <2>3. CASE PublishIfCurrent(p, t, "Disabled", None)
    BY <2>1, <2>3, PublishIfCurrentType, Frames, TypeInvPrime DEF EncryptionStates
  <2>4. CASE /\ Advance(p, t, "reading")
             /\ UNCHANGED <<publication, current>>
    <3>1. TasksOK'  BY <2>4, AdvanceTasks DEF Stages
    <3> QED BY <2>1, <2>4, <3>1, Frames, TypeInvPrime
  <2> QED BY <1>4, <2>2, <2>3, <2>4 DEF ProbeTold
<1>5. ASSUME NEW t \in Slots, ProbeRestored(p, t) PROVE TypeInv'
  <2>1. SharedOK' /\ IdentityOK'  BY <1>5, Frames DEF ProbeRestored
  <2>2. CASE PublishIfCurrent(p, t, "Locked", None)
    BY <2>1, <2>2, PublishIfCurrentType, Frames, TypeInvPrime DEF EncryptionStates
  <2> DEFINE k == task[p][t].key
  <2>3. k \in Keys \cup {None}  BY InSlot DEF Tasks
  <2>4. CASE k # None /\ PublishIfCurrent(p, t, "Unlocked", k)
    BY <2>1, <2>3, <2>4, PublishIfCurrentType, Frames, TypeInvPrime DEF EncryptionStates
  <2>5. CASE /\ Become(p, t, [task[p][t] EXCEPT !.stage = "discarding", !.key = None])
             /\ UNCHANGED <<publication, current>>
    <3> DEFINE r == [task[p][t] EXCEPT !.stage = "discarding", !.key = None]
    <3>1. r \in Tasks  BY InSlot, KeyUpdate DEF Stages
    <3>2. GoodTask(r)  BY InSlot DEF Tasks, GoodTask, Keyed, Attributed
    <3>3. TasksOK'  BY <2>5, <3>1, <3>2, BecomeTasks
    <3> QED BY <2>1, <2>5, <3>3, Frames, TypeInvPrime
  <2> QED BY <1>5, <2>2, <2>4, <2>5 DEF ProbeRestored
<1> QED BY <1>1, <1>2, <1>3, <1>4, <1>5

\* The actions of the server.
LEMMA ServerActionsType ==
  ASSUME TypeInv, NEW p \in Pages, NEW t \in Slots
  PROVE  /\ ServerReads(p, t) => TypeInv'
         /\ ServerEnables(p, t) => TypeInv'
         /\ ServerEndsSession(p, t) => TypeInv'
         /\ AuthenticatorSigns(p, t) => TypeInv'
<1>0. /\ cookie \in Somebody
      /\ task[p][t] \in Tasks
      /\ GoodTask(task[p][t])
      /\ enabled \subseteq Users
  BY InSlot, TypeInvParts DEF SharedOK
<1>1. ASSUME ServerReads(p, t) PROVE TypeInv'
  <2>1. PICK answered \in BOOLEAN :
          Become(p, t, [task[p][t] EXCEPT !.stage = "told",
                         !.about = IF answered THEN cookie ELSE None,
                         !.on = answered /\ cookie \in enabled])
    BY <1>1 DEF ServerReads
  <2> DEFINE r == [task[p][t] EXCEPT !.stage = "told",
                         !.about = IF answered THEN cookie ELSE None,
                         !.on = answered /\ cookie \in enabled]
  <2>2. /\ (IF answered THEN cookie ELSE None) \in Somebody
        /\ (answered /\ cookie \in enabled) \in BOOLEAN
    BY <1>0 DEF Somebody
  <2>3. r \in Tasks  BY <1>0, <2>2, AnswerUpdate DEF Stages
  <2>4. GoodTask(r)
    <3>1. r.on => r.about \in Users  BY <1>0, <2>2 DEF Tasks
    <3> QED BY <1>0, <2>2, <3>1 DEF Tasks, GoodTask, Keyed, Attributed
  <2>5. TasksOK'  BY <2>1, <2>3, <2>4, BecomeTasks
  <2> QED BY <1>1, <2>5, Frames, TypeInvPrime DEF ServerReads
<1>2. ASSUME ServerEnables(p, t) PROVE TypeInv'
  <2>1. /\ IdentityOK' /\ PublicationOK' /\ HolderOK'
        /\ UNCHANGED <<cookie, record>>
    BY <1>2, Frames DEF ServerEnables
  <2>2. CASE /\ cookie \in Users \ enabled
             /\ enabled' = enabled \cup {cookie}
             /\ \E delivered \in BOOLEAN :
                  Become(p, t, [task[p][t] EXCEPT !.stage = "told", !.about = cookie,
                                  !.on = delivered])
    <3>1. PICK delivered \in BOOLEAN :
            Become(p, t, [task[p][t] EXCEPT !.stage = "told", !.about = cookie,
                            !.on = delivered])
      BY <2>2
    <3> DEFINE r == [task[p][t] EXCEPT !.stage = "told", !.about = cookie, !.on = delivered]
    <3>2. r \in Tasks  BY <1>0, AnswerUpdate DEF Stages
    <3>3. GoodTask(r)  BY <1>0, <2>2 DEF Tasks, GoodTask, Keyed, Attributed
    <3>4. TasksOK'  BY <3>1, <3>2, <3>3, BecomeTasks
    <3>5. SharedOK'  BY <2>1, <2>2, TypeInvParts DEF SharedOK
    <3> QED BY <2>1, <3>4, <3>5, TypeInvPrime
  <2>3. CASE Advance(p, t, "told") /\ UNCHANGED enabled
    <3>1. TasksOK'  BY <2>3, AdvanceTasks DEF Stages
    <3>2. SharedOK'  BY <2>1, <2>3, TypeInvParts DEF SharedOK
    <3> QED BY <2>1, <3>1, <3>2, TypeInvPrime
  <2> QED BY <1>2, <2>2, <2>3 DEF ServerEnables
<1>3. ASSUME ServerEndsSession(p, t) PROVE TypeInv'
  <2>1. /\ IdentityOK' /\ PublicationOK' /\ HolderOK'
        /\ UNCHANGED <<enabled, record>>
    BY <1>3, Frames DEF ServerEndsSession
  <2>2. SharedOK'
    BY <1>3, <2>1, TypeInvParts DEF ServerEndsSession, SharedOK, Somebody
  <2> DEFINE r == [task[p][t] EXCEPT !.stage = "told", !.on = TRUE]
  <2>3. r \in Tasks  BY <1>0 DEF Tasks, Stages
  <2>6. task[p][t].kind = "signout"  BY <1>3 DEF ServerEndsSession, At
  <2>7. GoodTask(r)  BY <1>0, <2>6 DEF Tasks, GoodTask, Keyed, Attributed
  <2>4. Become(p, t, r) \/ Advance(p, t, "told")  BY <1>3 DEF ServerEndsSession
  <2>5. TasksOK'  BY <2>3, <2>4, <2>7, BecomeTasks, AdvanceTasks DEF Stages
  <2> QED BY <2>1, <2>2, <2>5, TypeInvPrime
<1>4. ASSUME AuthenticatorSigns(p, t) PROVE TypeInv'
  <2>1. /\ IdentityOK' /\ PublicationOK' /\ HolderOK'
        /\ UNCHANGED <<enabled, record>> /\ cookie' = task[p][t].user
    BY <1>4, Frames DEF AuthenticatorSigns
  <2>2. SharedOK'  BY <1>0, <2>1, TypeInvParts DEF SharedOK, Tasks
  <2> DEFINE r == [task[p][t] EXCEPT !.stage = "asking", !.fresh = TRUE]
  <2>3. r \in Tasks  BY <1>0 DEF Tasks, Stages
  <2>6. GoodTask(r)  BY <1>0 DEF Tasks, GoodTask, Keyed, Attributed
  <2>4. Become(p, t, r) \/ Advance(p, t, "asserted")  BY <1>4 DEF AuthenticatorSigns
  <2>5. TasksOK'  BY <2>3, <2>4, <2>6, BecomeTasks, AdvanceTasks DEF Stages
  <2> QED BY <2>1, <2>2, <2>5, TypeInvPrime
<1> QED BY <1>1, <1>2, <1>3, <1>4

LEMMA EnabledElsewhereType ==
  ASSUME TypeInv, NEW u \in Users, EnabledElsewhere(u)
  PROVE  TypeInv'
<1>1. SharedOK'  BY TypeInvParts DEF EnabledElsewhere, SharedOK
<1>2. UNCHANGED <<publication, identity, current, task>>
  BY DEF EnabledElsewhere, pageVars, publication, identity
<1> QED BY <1>1, <1>2, Frames, TypeInvPrime

\* The unlock prompt, and the awaited half of unlock.
LEMMA UnlockActionsType ==
  ASSUME TypeInv, NEW p \in Pages
  PROVE  /\ \A kind \in {"passkey", "typed"} : StartUnlock(p, kind) => TypeInv'
         /\ \A t \in Slots : PasskeyTold(p, t) => TypeInv'
         /\ \A t \in Slots : PasskeyOpens(p, t) => TypeInv'
         /\ \A t \in Slots : TypedKeyOpens(p, t) => TypeInv'
         /\ \A t \in Slots : OfferAnswered(p, t) => TypeInv'
         /\ \A t \in Slots : UnlockStored(p, t) => TypeInv'
<1>0. \A t \in Slots : task[p][t] \in Tasks /\ GoodTask(task[p][t])
  BY InSlot
<1>1. ASSUME NEW kind \in {"passkey", "typed"}, StartUnlock(p, kind) PROVE TypeInv'
  <2>1. PICK s \in Slots : Become(p, s, NewTask(kind, "asking", user[p], TRUE))
    BY <1>1 DEF StartUnlock
  <2>2. user[p] \in Users  BY <1>1, TypeInvParts DEF StartUnlock, IdentityOK, Somebody
  <2>3. TasksOK'  BY <2>1, <2>2, StartTasks DEF Kinds, Stages
  <2> QED BY <1>1, <2>3, Frames, TypeInvPrime DEF StartUnlock
<1>2. ASSUME NEW t \in Slots, PasskeyTold(p, t) PROVE TypeInv'
  <2>1. TasksOK' /\ HolderOK'
    BY <1>2, EndTasks, AdvanceTasks, Frames DEF PasskeyTold, Stages
  <2> QED BY <1>2, <2>1, Frames, TypeInvPrime DEF PasskeyTold
<1>3. ASSUME NEW t \in Slots, PasskeyOpens(p, t) PROVE TypeInv'
  <2> DEFINE u == task[p][t].user
  <2>1. SharedOK' /\ IdentityOK'  BY <1>3, Frames DEF PasskeyOpens
  <2>2. CASE End(p, t) /\ UNCHANGED publication
    BY <2>1, <2>2, EndTasks, Frames, TypeInvPrime
  <2>3. CASE Unlock(p, t, [user |-> u, opens |-> u])
    <3>1. u \in Users  BY <1>0, <1>3 DEF PasskeyOpens, At, GoodTask, Attributed
    <3>2. [user |-> u, opens |-> u] \in Keys  BY <3>1 DEF Keys
    <3> QED BY <2>1, <2>3, <3>2, UnlockType, TypeInvPrime
  <2> QED BY <1>3, <2>2, <2>3 DEF PasskeyOpens
<1>4. ASSUME NEW t \in Slots, TypedKeyOpens(p, t) PROVE TypeInv'
  <2>1. SharedOK' /\ IdentityOK' /\ PublicationOK'
    BY <1>4, Frames DEF TypedKeyOpens
  <2>2. CASE End(p, t)
    BY <2>1, <2>2, EndTasks, TypeInvPrime
  <2>3. CASE ~End(p, t)
    <3> DEFINE r == task[p][t]
               k == [user |-> r.user, opens |-> r.about]
               rr == [r EXCEPT !.stage = "offered", !.about = None, !.on = FALSE, !.key = k]
               row == [s \in Slots |-> IF s = t THEN rr
                         ELSE IF task[p][s].stage = "offered" THEN Idle ELSE task[p][s]]
    <3>1. r.kind = "typed" /\ r.on /\ UNCHANGED current
      BY <1>4, <2>3 DEF TypedKeyOpens, At
    <3>2. k \in Keys  BY <1>0, <3>1 DEF GoodTask, Attributed, Keys
    <3>3. rr \in Tasks /\ GoodTask(rr)
      BY <1>0, <3>2 DEF Tasks, Stages, Somebody, GoodTask, Keyed, Attributed
    <3>4. row \in [Slots -> Tasks] /\ \A s \in Slots : GoodTask(row[s])
      BY <3>3, InSlot, IdleIsTask, IdleIsGood
    <3>5. task' = [task EXCEPT ![p] = row]
      BY <1>4, <2>3 DEF TypedKeyOpens
    <3>6. TasksOK'  BY <3>4, <3>5, RowTasks
    <3> QED BY <2>1, <3>1, <3>6, Frames, TypeInvPrime
  <2> QED BY <2>2, <2>3
<1>5. ASSUME NEW t \in Slots, OfferAnswered(p, t) PROVE TypeInv'
  <2>1. task[p][t].key \in Keys
    BY <1>0, <1>5 DEF OfferAnswered, At, GoodTask, Keyed
  <2>2. TasksOK' /\ HolderOK' /\ PublicationOK'
    BY <1>5, <2>1, UnlockType DEF OfferAnswered
  <2> QED BY <1>5, <2>2, Frames, TypeInvPrime DEF OfferAnswered
<1>6. ASSUME NEW t \in Slots, UnlockStored(p, t) PROVE TypeInv'
  <2>1. SharedOK' /\ IdentityOK'  BY <1>6, Frames DEF UnlockStored
  <2>2. task[p][t].key \in Keys
    BY <1>0, <1>6 DEF UnlockStored, At, GoodTask, Keyed
  <2>3. CASE /\ ForgetDeviceKey(p, t, [task[p][t] EXCEPT !.key = None])
             /\ UNCHANGED <<publication, current>>
    <3> DEFINE r == [task[p][t] EXCEPT !.key = None]
    <3>1. r \in Tasks /\ Attributed(r)  BY <1>0 DEF Tasks, GoodTask, Attributed
    <3>2. TasksOK'  BY <2>3, <3>1, ForgetTasks
    <3> QED BY <2>1, <2>3, <3>2, Frames, TypeInvPrime
  <2>4. CASE PublishIfCurrent(p, t, "Unlocked", task[p][t].key)
    BY <2>1, <2>2, <2>4, PublishIfCurrentType, Frames, TypeInvPrime, NoneAssumption
       DEF EncryptionStates
  <2> QED BY <1>6, <2>3, <2>4 DEF UnlockStored
<1> QED BY <1>1, <1>2, <1>3, <1>4, <1>5, <1>6

\* Turning encryption on.
LEMMA EnableActionsType ==
  ASSUME TypeInv, NEW p \in Pages
  PROVE  /\ \A first \in {"asserting", "showing"} : StartEnable(p, first) => TypeInv'
         /\ \A t \in Slots : EnableKeyShown(p, t) => TypeInv'
         /\ \A t \in Slots : ConfirmNewKey(p, t) => TypeInv'
         /\ \A t \in Slots : EnableTold(p, t) => TypeInv'
<1>1. ASSUME NEW first \in {"asserting", "showing"}, StartEnable(p, first) PROVE TypeInv'
  <2>1. PICK s \in Slots : Become(p, s, NewTask("enable", first, user[p], TRUE))
    BY <1>1 DEF StartEnable
  <2>2. user[p] \in Users  BY <1>1, TypeInvParts DEF StartEnable, IdentityOK, Somebody
  <2>3. TasksOK'  BY <2>1, <2>2, StartTasks DEF Kinds, Stages
  <2> QED BY <1>1, <2>3, Frames, TypeInvPrime DEF StartEnable
<1>2. ASSUME NEW t \in Slots, EnableKeyShown(p, t) PROVE TypeInv'
  <2>1. TasksOK'  BY <1>2, AdvanceTasks DEF EnableKeyShown, Stages
  <2> QED BY <1>2, <2>1, Frames, TypeInvPrime DEF EnableKeyShown
<1>3. ASSUME NEW t \in Slots, ConfirmNewKey(p, t) PROVE TypeInv'
  <2>1. TasksOK'  BY <1>3, AdvanceTasks DEF ConfirmNewKey, Stages
  <2> QED BY <1>3, <2>1, Frames, TypeInvPrime DEF ConfirmNewKey
<1>4. ASSUME NEW t \in Slots, EnableTold(p, t) PROVE TypeInv'
  <2> DEFINE r == task[p][t]
  <2>1. SharedOK' /\ IdentityOK'  BY <1>4, Frames DEF EnableTold
  <2>2. CASE End(p, t) /\ UNCHANGED publication
    BY <2>1, <2>2, EndTasks, Frames, TypeInvPrime
  <2>3. CASE r.on /\ Unlock(p, t, [user |-> r.user, opens |-> r.about])
    <3>1. r.user \in Users /\ r.about \in Users
      BY <1>4, <2>3, InSlot DEF EnableTold, At, GoodTask, Attributed
    <3>2. [user |-> r.user, opens |-> r.about] \in Keys  BY <3>1 DEF Keys
    <3> QED BY <2>1, <2>3, <3>2, UnlockType, TypeInvPrime
  <2> QED BY <1>4, <2>2, <2>3 DEF EnableTold
<1> QED BY <1>1, <1>2, <1>3, <1>4

\* Forgetting the key.
LEMMA ForgetActionsType ==
  ASSUME TypeInv, NEW p \in Pages
  PROVE  /\ LockNow(p) => TypeInv'
         /\ SignOut(p) => TypeInv'
         /\ \A t \in Slots : SignOutForgets(p, t) => TypeInv'
         /\ \A t \in Slots : Cleared(p, t) => TypeInv'
         /\ \A t \in Slots : SignOutTold(p, t) => TypeInv'
<1>1. ASSUME LockNow(p) PROVE TypeInv'
  <2>1. PICK s \in Slots : ForgetDeviceKey(p, s, NewTask("lock", "clearing", user[p], FALSE))
    BY <1>1 DEF LockNow
  <2>2. user[p] \in Users  BY <1>1, TypeInvParts DEF LockNow, IdentityOK, Somebody
  <2> DEFINE r == NewTask("lock", "clearing", user[p], FALSE)
  <2>3. r \in Tasks  BY <2>2, NewTaskIsTask DEF Kinds, Stages, Somebody
  <2>4. Attributed(r)  BY <2>2 DEF NewTask, Idle, Attributed
  <2>5. TasksOK'  BY <2>1, <2>3, <2>4, ForgetTasks
  <2>6. Publish(p, "Locked", None)  BY <1>1 DEF LockNow
  <2>7. PublicationOK'  BY <2>6, PublishType DEF EncryptionStates
  <2>8. HolderOK'  BY <1>1, TypeInvParts DEF LockNow, HolderOK
  <2> QED BY <1>1, <2>5, <2>7, <2>8, Frames, TypeInvPrime DEF LockNow
<1>2. ASSUME SignOut(p) PROVE TypeInv'
  <2>1. PICK s \in Slots : Become(p, s, NewTask("signout", "leaving", user[p], FALSE))
    BY <1>2 DEF SignOut
  <2>2. user[p] \in Users  BY <1>2, TypeInvParts DEF SignOut, IdentityOK, Somebody
  <2>3. TasksOK'  BY <2>1, <2>2, StartTasks DEF Kinds, Stages
  <2>4. HolderOK'  BY <1>2, TypeInvParts DEF SignOut, HolderOK
  <2> QED BY <1>2, <2>3, <2>4, Frames, TypeInvPrime DEF SignOut
<1>3. ASSUME NEW t \in Slots, SignOutForgets(p, t) PROVE TypeInv'
  <2>1. TasksOK'
    BY <1>3, InSlot, ForgetTasks DEF SignOutForgets, GoodTask
  <2> QED BY <1>3, <2>1, Frames, TypeInvPrime DEF SignOutForgets
<1>4. ASSUME NEW t \in Slots, Cleared(p, t) PROVE TypeInv'
  <2>1. TasksOK' /\ HolderOK'
    BY <1>4, EndTasks, AdvanceTasks, Frames DEF Cleared, Stages
  <2> QED BY <1>4, <2>1, Frames, TypeInvPrime DEF Cleared
<1>5. ASSUME NEW t \in Slots, SignOutTold(p, t) PROVE TypeInv'
  <2>1. SharedOK' /\ PublicationOK' /\ HolderOK'
    BY <1>5, Frames DEF SignOutTold
  <2>2. CASE task[p][t].on
    <3> DEFINE row == [s \in Slots |->
                 IF s = t \/ task[p][s].stage \in {"offered", "showing"} THEN Idle
                                                                     ELSE task[p][s]]
    <3>1. task' = [task EXCEPT ![p] = row]  BY <1>5, <2>2 DEF SignOutTold
    <3>2. row \in [Slots -> Tasks] /\ \A s \in Slots : GoodTask(row[s])
      BY InSlot, IdleIsTask, IdleIsGood
    <3>3. TasksOK'  BY <3>1, <3>2, RowTasks
    <3>4. IdentityOK'
      BY <1>5, <2>2, TypeInvParts DEF SignOutTold, IdentityOK, Somebody
    <3> QED BY <2>1, <3>3, <3>4, TypeInvPrime
  <2>3. CASE ~task[p][t].on
    <3>1. TasksOK'
      BY <1>5, <2>3, BecomeTasks, IdleIsTask, IdleIsGood DEF SignOutTold
    <3>2. IdentityOK'  BY <1>5, <2>3, Frames DEF SignOutTold, identity
    <3> QED BY <2>1, <3>1, <3>2, TypeInvPrime
  <2> QED BY <2>2, <2>3
<1> QED BY <1>1, <1>2, <1>3, <1>4, <1>5

\* Loading a page, signing in, and IndexedDB.
LEMMA PageActionsType ==
  ASSUME TypeInv, NEW p \in Pages
  PROVE  /\ Reload(p) => TypeInv'
         /\ \A u \in Users : SignInByLink(p, u) => TypeInv'
         /\ \A u \in Users : StartSignIn(p, u) => TypeInv'
         /\ \A t \in Slots : SignInTold(p, t) => TypeInv'
         /\ \A t \in Slots : Abandon(p, t) => TypeInv'
         /\ \A t \in Slots : ServeKeystore(p, t) => TypeInv'
<1>0. cookie \in Somebody /\ record \in Keys \cup {None}
  BY TypeInvParts DEF SharedOK
<1>1. ASSUME Reload(p) PROVE TypeInv'
  BY <1>0, <1>1, LoadType, Frames, TypeInvPrime DEF Reload
<1>2. ASSUME NEW u \in Users, SignInByLink(p, u) PROVE TypeInv'
  <2>1. u \in Somebody /\ Load(p, u)  BY <1>2 DEF SignInByLink, Somebody
  <2>2. SharedOK'  BY <1>2, TypeInvParts DEF SignInByLink, SharedOK, Somebody
  <2> QED BY <2>1, <2>2, LoadType, TypeInvPrime
<1>3. ASSUME NEW u \in Users, StartSignIn(p, u) PROVE TypeInv'
  <2>1. PICK s \in Slots : Become(p, s, NewTask("signin", "asserting", u, FALSE))
    BY <1>3 DEF StartSignIn
  <2>2. TasksOK'  BY <2>1, StartTasks DEF Kinds, Stages
  <2> QED BY <1>3, <2>2, Frames, TypeInvPrime DEF StartSignIn
<1>4. ASSUME NEW t \in Slots, SignInTold(p, t) PROVE TypeInv'
  <2>1. SharedOK'  BY <1>4, Frames DEF SignInTold
  <2>2. CASE Load(p, cookie)
    BY <1>0, <2>1, <2>2, LoadType, TypeInvPrime
  <2>3. CASE ~Load(p, cookie)
    <3> DEFINE r == task[p][t]
               k == [user |-> r.about, opens |-> r.user]
               rr == [r EXCEPT !.stage = "storing", !.key = k]
    <3>1. /\ r.kind = "signin" /\ r.on /\ Become(p, t, rr)
          /\ UNCHANGED <<identity, publication, current>>
      BY <1>4, <2>3 DEF SignInTold, At
    <3>2. r \in Tasks /\ GoodTask(r)  BY InSlot
    <3>3. k \in Keys  BY <3>1, <3>2 DEF GoodTask, Attributed, Keys
    <3>4. rr \in Tasks  BY <3>2, <3>3, KeyUpdate DEF Stages
    <3>5. GoodTask(rr)  BY <3>2, <3>3 DEF Tasks, GoodTask, Keyed, Attributed
    <3>6. TasksOK'  BY <3>1, <3>4, <3>5, BecomeTasks
    <3> QED BY <2>1, <3>1, <3>6, Frames, TypeInvPrime
  <2> QED BY <2>2, <2>3
<1>5. ASSUME NEW t \in Slots, Abandon(p, t) PROVE TypeInv'
  BY <1>5, EndTasks, Frames, TypeInvPrime DEF Abandon
<1>6. ASSUME NEW s \in Slots, ServeKeystore(p, s) PROVE TypeInv'
  <2> DEFINE r == task[p][s]
  <2>1. r \in Tasks /\ GoodTask(r)  BY InSlot
  <2>2. HolderOK' /\ IdentityOK' /\ PublicationOK' /\ UNCHANGED <<cookie, enabled>>
    BY <1>6, Frames DEF ServeKeystore
  <2>3. PICK served \in BOOLEAN :
          \/ /\ r.stage = "storing"
             /\ record' = IF served THEN r.key ELSE record
             /\ Advance(p, s, "stored")
          \/ /\ r.stage = "reading"
             /\ Become(p, s, [r EXCEPT !.stage = "read",
                                !.key = IF served THEN record ELSE None])
             /\ UNCHANGED record
          \/ /\ r.stage \in {"clearing", "discarding"}
             /\ record' = IF served THEN None ELSE record
             /\ Advance(p, s, IF r.stage = "clearing" THEN "cleared" ELSE "discarded")
    BY <1>6 DEF ServeKeystore
  <2>4. CASE r.stage = "storing"
    <3>1. r.key \in Keys  BY <2>1, <2>4 DEF GoodTask, Keyed
    <3>2. record' = (IF served THEN r.key ELSE record) /\ Advance(p, s, "stored")
      BY <2>3, <2>4
    <3>3. SharedOK'  BY <1>0, <2>2, <3>1, <3>2, TypeInvParts DEF SharedOK
    <3>4. TasksOK'  BY <3>1, <3>2, AdvanceTasks DEF Stages
    <3> QED BY <2>2, <3>3, <3>4, TypeInvPrime
  <2>5. CASE r.stage = "reading"
    <3> DEFINE k == IF served THEN record ELSE None
               rr == [r EXCEPT !.stage = "read", !.key = k]
    <3>1. Become(p, s, rr) /\ UNCHANGED record  BY <2>3, <2>5
    <3>2. k \in Keys \cup {None}  BY <1>0
    <3>3. rr \in Tasks  BY <2>1, <3>2, KeyUpdate DEF Stages
    <3>4. GoodTask(rr)  BY <2>1, <3>2 DEF Tasks, GoodTask, Keyed, Attributed
    <3>5. TasksOK'  BY <3>1, <3>3, <3>4, BecomeTasks
    <3>6. SharedOK'  BY <2>2, <3>1, TypeInvParts DEF SharedOK
    <3> QED BY <2>2, <3>5, <3>6, TypeInvPrime
  <2>6. CASE r.stage \in {"clearing", "discarding"}
    <3> DEFINE g == IF r.stage = "clearing" THEN "cleared" ELSE "discarded"
    <3>1. record' = (IF served THEN None ELSE record) /\ Advance(p, s, g)
      BY <2>3, <2>6
    <3>2. g \in Stages \ {"offered", "storing", "stored"}  BY DEF Stages
    <3>3. TasksOK'  BY <3>1, <3>2, AdvanceTasks
    <3>4. SharedOK'  BY <1>0, <2>2, <3>1, TypeInvParts DEF SharedOK
    <3> QED BY <2>2, <3>3, <3>4, TypeInvPrime
  <2> QED BY <2>3, <2>4, <2>5, <2>6
<1> QED BY <1>1, <1>2, <1>3, <1>4, <1>5, <1>6

\* Every step keeps the types.
LEMMA NextType == TypeInv /\ [Next]_vars => TypeInv'
<1> SUFFICES ASSUME TypeInv, [Next]_vars PROVE TypeInv'  OBVIOUS
<1>1. CASE UNCHANGED vars
  <2>1. UNCHANGED <<shared, publication, identity, current, task>>
    BY <1>1 DEF vars, pageVars, shared, publication, identity
  <2> QED BY <2>1, Frames, TypeInvPrime
<1>2. ASSUME NEW p \in Pages,
             RunEffect(p) \/ UnopenableRowSeen(p)
      PROVE  TypeInv'
  BY <1>2, ProbeActionsType
<1>3. ASSUME NEW p \in Pages, UserStep(p) PROVE TypeInv'
  BY <1>3, ProbeActionsType, ServerActionsType, UnlockActionsType, EnableActionsType,
     ForgetActionsType, PageActionsType DEF UserStep
<1>4. ASSUME NEW p \in Pages, NEW t \in Slots, TaskStep(p, t) PROVE TypeInv'
  <2>1. SignInStored(p, t) => Reload(p)  BY DEF SignInStored
  <2> QED BY <1>4, <2>1, ProbeActionsType, ServerActionsType, UnlockActionsType,
             EnableActionsType, ForgetActionsType, PageActionsType DEF TaskStep
<1>5. ASSUME NEW u \in Users, EnabledElsewhere(u) PROVE TypeInv'
  BY <1>5, EnabledElsewhereType
<1> QED BY <1>1, <1>2, <1>3, <1>4, <1>5 DEF Next

\* Type correctness: in particular, a page that is Unlocked has a key and a page
\* that is not has none, whatever its ceremonies do (EncryptionState::Unlocked).
THEOREM TypeCorrect == Spec => []TypeOK
<1>1. TypeInv => TypeOK  BY DEF TypeInv
<1> QED BY <1>1, InitType, NextType, PTL DEF Spec

-----------------------------------------------------------------------------
(* The safety of one page.                                                 *)

\* What a page has of its own.
Row(q) == <<user[q], state[q], key[q], effect[q], current[q], task[q]>>

\* A probe whose token still counts was started for the account the page shows.
KeyInv(p) ==
  /\ state[p] = "Unlocked" => \/ key[p].user = user[p]
                              \/ user[p] = None /\ effect[p]
  /\ \A t \in Slots : current[p] = t /\ task[p][t].kind = "probe" =>
       \/ task[p][t].user = user[p]
       \/ user[p] = None /\ effect[p]

-----------------------------------------------------------------------------
(* A step of one page leaves the others alone.                             *)

PageStep(p) ==
  \/ RunEffect(p) \/ UnopenableRowSeen(p) \/ UserStep(p)
  \/ \E t \in Slots : TaskStep(p, t)

\* The variables of a page are functions of the page.
Functional ==
  /\ user = [x \in Pages |-> user[x]]
  /\ state = [x \in Pages |-> state[x]] /\ key = [x \in Pages |-> key[x]]
  /\ effect = [x \in Pages |-> effect[x]] /\ current = [x \in Pages |-> current[x]]
  /\ task = [x \in Pages |-> task[x]]

LEMMA IsFunctional == TypeInv => Functional
BY DEF TypeInv, TypeOK, Functional

LEMMA OtherPages ==
  ASSUME TypeInv, NEW p \in Pages, NEW q \in Pages, q # p, PageStep(p)
  PROVE  UNCHANGED Row(q)
<1> USE IsFunctional DEF Functional, Row, shared, publication, identity
<1>1. \A s, k : Publish(p, s, k) => state'[q] = state[q] /\ key'[q] = key[q]
  BY DEF Publish
<1>2. \A t, r : Become(p, t, r) => task'[q] = task[q]
  BY DEF Become
<1>3. \A t, g : Advance(p, t, g) => task'[q] = task[q]
  BY <1>2 DEF Advance
<1>4. \A t : End(p, t) => task'[q] = task[q] /\ current'[q] = current[q]
  BY DEF End
<1>5. \A t, r : ForgetDeviceKey(p, t, r) => task'[q] = task[q]
  BY DEF ForgetDeviceKey
<1>6. \A m : StartProbe(p, m) => /\ task'[q] = task[q] /\ current'[q] = current[q]
                                /\ state'[q] = state[q] /\ key'[q] = key[q]
  BY <1>1, <1>2 DEF StartProbe
<1>7. \A t, s, k : PublishIfCurrent(p, t, s, k) =>
        /\ task'[q] = task[q] /\ current'[q] = current[q]
        /\ state'[q] = state[q] /\ key'[q] = key[q]
  BY <1>1, <1>4 DEF PublishIfCurrent
<1>8. \A t, k : Unlock(p, t, k) =>
        /\ task'[q] = task[q] /\ current'[q] = current[q]
        /\ state'[q] = state[q] /\ key'[q] = key[q]
  BY <1>1, <1>2, <1>4 DEF Unlock, UnlockStores, UnlockUnremembered
<1>9. \A u : Load(p, u) => UNCHANGED Row(q)
  BY <1>1 DEF Load
<1>10. RunEffect(p) \/ Retry(p) \/ UnopenableRowSeen(p) => UNCHANGED Row(q)
  BY <1>6 DEF RunEffect, Retry, UnopenableRowSeen
<1>11. ASSUME NEW t \in Slots, ServeKeystore(p, t) PROVE UNCHANGED Row(q)
  BY <1>2, <1>3, <1>11 DEF ServeKeystore
<1>12. ASSUME NEW t \in Slots, ProbeTold(p, t) \/ ProbeRestored(p, t) PROVE UNCHANGED Row(q)
  BY <1>2, <1>3, <1>7, <1>12 DEF ProbeTold, ProbeRestored
<1>13. ASSUME NEW t \in Slots,
              \/ ServerReads(p, t) \/ ServerEnables(p, t) \/ ServerEndsSession(p, t)
              \/ AuthenticatorSigns(p, t) \/ PasskeyTold(p, t)
              \/ EnableKeyShown(p, t) \/ ConfirmNewKey(p, t) \/ Cleared(p, t)
       PROVE  UNCHANGED Row(q)
  <2>1. ASSUME ServerReads(p, t) \/ ServerEnables(p, t) \/ ServerEndsSession(p, t)
        PROVE  UNCHANGED Row(q)
    <3>1. (\E r : Become(p, t, r)) \/ Advance(p, t, "told")
      BY <2>1, Zenon DEF ServerReads, ServerEnables, ServerEndsSession
    <3>2. UNCHANGED <<identity, publication, current>>
      BY <2>1, Zenon DEF ServerReads, ServerEnables, ServerEndsSession
    <3> QED BY <1>2, <1>3, <3>1, <3>2
  <2>2. ASSUME AuthenticatorSigns(p, t) \/ PasskeyTold(p, t)
        PROVE  UNCHANGED Row(q)
    BY <1>2, <1>3, <1>4, <2>2 DEF AuthenticatorSigns, PasskeyTold
  <2>3. ASSUME EnableKeyShown(p, t) \/ ConfirmNewKey(p, t) \/ Cleared(p, t)
        PROVE  UNCHANGED Row(q)
    BY <1>3, <1>4, <2>3 DEF EnableKeyShown, ConfirmNewKey, Cleared
  <2> QED BY <1>13, <2>1, <2>2, <2>3
<1>14. ASSUME NEW t \in Slots,
              \/ PasskeyOpens(p, t) \/ OfferAnswered(p, t)
              \/ UnlockStored(p, t) \/ EnableTold(p, t) \/ SignOutForgets(p, t)
       PROVE  UNCHANGED Row(q)
  BY <1>4, <1>5, <1>7, <1>8, <1>14
     DEF PasskeyOpens, OfferAnswered, UnlockStored, EnableTold, SignOutForgets
<1>15. ASSUME NEW t \in Slots, TypedKeyOpens(p, t) \/ SignOutTold(p, t)
       PROVE  UNCHANGED Row(q)
  BY <1>2, <1>4, <1>15 DEF TypedKeyOpens, SignOutTold
<1>16. ASSUME NEW t \in Slots, SignInTold(p, t) \/ SignInStored(p, t) \/ Abandon(p, t)
       PROVE  UNCHANGED Row(q)
  BY <1>2, <1>4, <1>9, <1>16 DEF SignInTold, SignInStored, Reload, Abandon
<1>17. Reload(p) \/ LockNow(p) \/ SignOut(p) => UNCHANGED Row(q)
  BY <1>1, <1>2, <1>5, <1>9 DEF Reload, LockNow, SignOut
<1>18. ASSUME NEW k, StartUnlock(p, k) \/ StartEnable(p, k) PROVE UNCHANGED Row(q)
  BY <1>2, <1>18 DEF StartUnlock, StartEnable
<1>19. ASSUME NEW u \in Users, SignInByLink(p, u) \/ StartSignIn(p, u)
       PROVE  UNCHANGED Row(q)
  BY <1>2, <1>9, <1>19 DEF SignInByLink, StartSignIn
<1> QED
  BY <1>10, <1>11, <1>12, <1>13, <1>14, <1>15, <1>16, <1>17, <1>18, <1>19
     DEF PageStep, UserStep, TaskStep

-----------------------------------------------------------------------------
(* What the building blocks do to the slots of their page.                 *)

LEMMA BecomeSlots ==
  ASSUME TypeInv, NEW p \in Pages, NEW t \in Slots, NEW r, Become(p, t, r)
  PROVE  \A s \in Slots : task'[p][s] = IF s = t THEN r ELSE task[p][s]
BY TypeInvParts DEF TasksOK, TaskTable, Become

LEMMA AdvanceSlots ==
  ASSUME TypeInv, NEW p \in Pages, NEW t \in Slots, NEW g \in Stages, Advance(p, t, g)
  PROVE  \A s \in Slots : /\ s # t => task'[p][s] = task[p][s]
                          /\ task'[p][t] = [task[p][t] EXCEPT !.stage = g]
                          /\ task'[p][t].stage = g
                          /\ task'[p][t].kind = task[p][t].kind
                          /\ task'[p][t].user = task[p][t].user
                          /\ task'[p][t].fresh = task[p][t].fresh
<1>1. \A s \in Slots : task'[p][s] = IF s = t THEN [task[p][t] EXCEPT !.stage = g]
                                             ELSE task[p][s]
  BY BecomeSlots DEF Advance
<1> QED BY <1>1, InSlot DEF Tasks

LEMMA EndSlots ==
  ASSUME TypeInv, NEW p \in Pages, NEW t \in Slots, End(p, t)
  PROVE  /\ \A s \in Slots : task'[p][s] = IF s = t THEN Idle ELSE task[p][s]
         /\ current'[p] = IF current[p] = t THEN NoOne ELSE current[p]
<1>1. Become(p, t, Idle)  BY DEF End, Become
<1> QED BY <1>1, BecomeSlots, TypeInvParts DEF End, HolderOK

LEMMA ForgetSlots ==
  ASSUME TypeInv, NEW p \in Pages, NEW t \in Slots, NEW r \in Tasks,
         ForgetDeviceKey(p, t, r)
  PROVE  \A s \in Slots :
           /\ task'[p][s].kind = IF s = t THEN r.kind ELSE task[p][s].kind
           /\ task'[p][s].user = IF s = t THEN r.user ELSE task[p][s].user
           /\ task'[p][s].stage = IF s = t THEN "clearing" ELSE task[p][s].stage
           /\ ~task'[p][s].fresh
<1>1. \A s \in Slots : task'[p][s] = IF s = t THEN [r EXCEPT !.stage = "clearing", !.fresh = FALSE]
                                     ELSE [task[p][s] EXCEPT !.fresh = FALSE]
  BY TypeInvParts DEF TasksOK, TaskTable, ForgetDeviceKey
<1>2. ASSUME NEW q \in Tasks
      PROVE  LET x == [q EXCEPT !.fresh = FALSE] IN
               x.kind = q.kind /\ x.user = q.user /\ x.stage = q.stage /\ ~x.fresh
  BY DEF Tasks
<1>3. LET x == [r EXCEPT !.stage = "clearing", !.fresh = FALSE] IN
        x.kind = r.kind /\ x.user = r.user /\ x.stage = "clearing" /\ ~x.fresh
  BY DEF Tasks
<1> SUFFICES ASSUME NEW s \in Slots
    PROVE  /\ task'[p][s].kind = IF s = t THEN r.kind ELSE task[p][s].kind
           /\ task'[p][s].user = IF s = t THEN r.user ELSE task[p][s].user
           /\ task'[p][s].stage = IF s = t THEN "clearing" ELSE task[p][s].stage
           /\ ~task'[p][s].fresh
  OBVIOUS
<1>4. CASE s = t  BY <1>1, <1>3, <1>4
<1>5. CASE s # t
  <2>1. task[p][s] \in Tasks  BY InSlot
  <2>2. task'[p][s] = [task[p][s] EXCEPT !.fresh = FALSE]  BY <1>1, <1>5
  <2> QED BY <1>2, <1>5, <2>1, <2>2
<1> QED BY <1>4, <1>5

LEMMA Published ==
  ASSUME TypeInv, NEW p \in Pages, NEW s, NEW k, Publish(p, s, k)
  PROVE  state'[p] = s /\ key'[p] = k
BY TypeInvParts DEF PublicationOK, Publish

-----------------------------------------------------------------------------
(* The key of a page is of the account it shows.                           *)

\* Steps that leave the account alone.
LEMMA KeyKept ==
  ASSUME NEW p \in Pages, KeyInv(p), user'[p] = user[p], effect'[p] = effect[p],
         \/ state'[p] = state[p] /\ key'[p] = key[p]
         \/ state'[p] = "Unlocked" =>
              key'[p].user = user[p] \/ (user[p] = None /\ effect[p]),
         \A t \in Slots : current'[p] = t /\ task'[p][t].kind = "probe" =>
            /\ current[p] = t /\ task[p][t].kind = "probe"
            /\ task'[p][t].user = task[p][t].user
  PROVE  KeyInv(p)'
BY DEF KeyInv

\* A request outranks every other, for the account the page shows.
LEMMA StartProbeKey ==
  ASSUME TypeInv, NEW p \in Pages, NEW m \in EncryptionStates \ {"Unlocked"},
         StartProbe(p, m), user'[p] = user[p]
  PROVE  KeyInv(p)'
<1>1. CASE user[p] = None
  <2>1. state'[p] = "Disabled"  BY <1>1, Published DEF StartProbe
  <2>2. current'[p] = NoOne  BY <1>1, TypeInvParts DEF StartProbe, HolderOK
  <2> QED BY <2>1, <2>2, TasksAssumption DEF KeyInv, NoOne, Slots
<1>2. CASE user[p] # None
  <2>1. PICK t \in Slots : /\ current' = [current EXCEPT ![p] = t]
                           /\ Become(p, t, NewTask("probe", "asking", user[p], FALSE))
    BY <1>2 DEF StartProbe
  <2>2. state'[p] = m  BY <1>2, Published DEF StartProbe
  <2>3. current'[p] = t  BY <2>1, TypeInvParts DEF HolderOK
  <2>4. task'[p][t] = NewTask("probe", "asking", user[p], FALSE)
    <3> DEFINE r == NewTask("probe", "asking", user[p], FALSE)
    <3> HIDE DEF r
    <3>1. Become(p, t, r)  BY <2>1 DEF r
    <3>2. task'[p][t] = r  BY <3>1, BecomeSlots
    <3> QED BY <3>2 DEF r
  <2>5. task'[p][t].user = user[p]  BY <2>4 DEF NewTask, Idle
  <2> QED BY <2>2, <2>3, <2>5 DEF KeyInv
<1> QED BY <1>1, <1>2

\* Only the newest request publishes, and only the key of its own account.
LEMMA PublishIfCurrentKey ==
  ASSUME TypeInv, NEW p \in Pages, NEW t \in Slots, NEW s, NEW k, KeyInv(p),
         PublishIfCurrent(p, t, s, k), UNCHANGED identity,
         current[p] = t /\ s = "Unlocked" => k.user = user[p] \/ (user[p] = None /\ effect[p])
  PROVE  KeyInv(p)'
<1>1. End(p, t)  BY DEF PublishIfCurrent
<1>2. \/ state'[p] = state[p] /\ key'[p] = key[p]
      \/ state'[p] = "Unlocked" => key'[p].user = user[p] \/ (user[p] = None /\ effect[p])
  BY Published DEF PublishIfCurrent, publication
<1>3. \A x \in Slots : current'[p] = x /\ task'[p][x].kind = "probe" =>
         current[p] = x /\ task[p][x].kind = "probe" /\ task'[p][x].user = task[p][x].user
  BY <1>1, EndSlots, TasksAssumption DEF Idle, NoOne, Slots
<1> QED BY <1>2, <1>3, KeyKept DEF identity

\* unlock compares the account before it takes the token.
LEMMA UnlockKey ==
  ASSUME TypeInv, NEW p \in Pages, NEW t \in Slots, NEW k \in Keys, KeyInv(p),
         Unlock(p, t, k), UNCHANGED identity, task[p][t].kind # "probe"
  PROVE  KeyInv(p)'
<1>1. CASE End(p, t) /\ UNCHANGED publication
  <2>1. \A x \in Slots : current'[p] = x /\ task'[p][x].kind = "probe" =>
         current[p] = x /\ task[p][x].kind = "probe" /\ task'[p][x].user = task[p][x].user
    BY <1>1, EndSlots, TasksAssumption DEF Idle, NoOne, Slots
  <2> QED BY <1>1, <2>1, KeyKept DEF identity, publication
<1>2. CASE UnlockStores(p, t, k)
  <2>1. state'[p] = "Locked"  BY <1>2, Published DEF UnlockStores
  <2>2. current'[p] = t  BY <1>2, TypeInvParts DEF UnlockStores, HolderOK
  <2>3. task'[p][t] = [task[p][t] EXCEPT !.stage = "storing", !.key = k]
    BY <1>2, BecomeSlots DEF UnlockStores
  <2>4. task'[p][t].kind # "probe"  BY <2>3, InSlot DEF Tasks
  <2> QED BY <2>1, <2>2, <2>4 DEF KeyInv
<1>3. CASE k.user = user[p] /\ UnlockUnremembered(p, t, k)
  <2>1. key'[p] = k  BY <1>3, Published DEF UnlockUnremembered
  <2>2. current'[p] = NoOne  BY <1>3, TypeInvParts DEF UnlockUnremembered, HolderOK
  <2> QED BY <1>3, <2>1, <2>2, TasksAssumption DEF KeyInv, identity, NoOne, Slots
<1> QED BY <1>1, <1>2, <1>3 DEF Unlock

LEMMA LoadKey ==
  ASSUME TypeInv, NEW p \in Pages, NEW u, Load(p, u)
  PROVE  KeyInv(p)'
<1>1. state'[p] \in {"Disabled", "Unknown"}  BY Published DEF Load, InitialState
<1>2. current'[p] = NoOne  BY TypeInvParts DEF Load, HolderOK
<1> QED BY <1>1, <1>2, TasksAssumption DEF KeyInv, NoOne, Slots

\* Putting a task that is not a probe in a slot changes no probe.
LEMMA BecomeKey ==
  ASSUME TypeInv, NEW p \in Pages, NEW t \in Slots, NEW r, KeyInv(p), Become(p, t, r),
         r.kind = "probe" => task[p][t].kind = "probe" /\ r.user = task[p][t].user,
         user'[p] = user[p], effect'[p] = effect[p], state'[p] = state[p], key'[p] = key[p],
         current'[p] \in {current[p], NoOne}
  PROVE  KeyInv(p)'
<1>1. \A x \in Slots : current'[p] = x /\ task'[p][x].kind = "probe" =>
         current[p] = x /\ task[p][x].kind = "probe" /\ task'[p][x].user = task[p][x].user
  BY BecomeSlots, TasksAssumption DEF NoOne, Slots
<1> QED BY <1>1, KeyKept

\* The steps of the probe.
LEMMA ProbeStepsKey ==
  ASSUME TypeInv, NEW p \in Pages, KeyInv(p)
  PROVE  /\ RunEffect(p) => KeyInv(p)'
         /\ Retry(p) => KeyInv(p)'
         /\ UnopenableRowSeen(p) => KeyInv(p)'
         /\ \A t \in Slots : ProbeTold(p, t) => KeyInv(p)'
         /\ \A t \in Slots : ProbeRestored(p, t) => KeyInv(p)'
<1>1. RunEffect(p) => KeyInv(p)'
  BY StartProbeKey DEF RunEffect, EncryptionStates
<1>2. Retry(p) => KeyInv(p)'
  BY StartProbeKey DEF Retry, EncryptionStates, identity
<1>3. UnopenableRowSeen(p) => KeyInv(p)'
  BY StartProbeKey DEF UnopenableRowSeen, EncryptionStates
<1>4. ASSUME NEW t \in Slots, ProbeTold(p, t) PROVE KeyInv(p)'
  <2>1. CASE \/ PublishIfCurrent(p, t, "Unreachable", None)
             \/ PublishIfCurrent(p, t, "Disabled", None)
    BY <1>4, <2>1, PublishIfCurrentKey DEF ProbeTold
  <2>2. CASE Advance(p, t, "reading") /\ UNCHANGED <<publication, current>>
    <3> DEFINE r == [task[p][t] EXCEPT !.stage = "reading"]
    <3>1. r.kind = task[p][t].kind /\ r.user = task[p][t].user  BY InSlot DEF Tasks
    <3>2. Become(p, t, r)  BY <2>2 DEF Advance
    <3>3. UNCHANGED identity  BY <1>4 DEF ProbeTold
    <3> QED BY <2>2, <3>1, <3>2, <3>3, BecomeKey DEF publication, identity
  <2> QED BY <1>4, <2>1, <2>2 DEF ProbeTold
<1>5. ASSUME NEW t \in Slots, ProbeRestored(p, t) PROVE KeyInv(p)'
  <2> DEFINE k == task[p][t].key
  <2>0. UNCHANGED identity /\ task[p][t].kind = "probe"
    BY <1>5 DEF ProbeRestored, At
  <2>1. CASE PublishIfCurrent(p, t, "Locked", None)
    BY <2>0, <2>1, PublishIfCurrentKey
  <2>2. CASE k # None /\ k.user = task[p][t].user /\ PublishIfCurrent(p, t, "Unlocked", k)
    <3>1. ASSUME current[p] = t PROVE k.user = user[p] \/ (user[p] = None /\ effect[p])
      <4>1. task[p][t].user = user[p] \/ (user[p] = None /\ effect[p])
        BY <1>5, <2>0, <3>1 DEF KeyInv
      <4> QED BY <2>2, <4>1
    <3> QED BY <2>0, <2>2, <3>1, PublishIfCurrentKey
  <2>3. CASE /\ Become(p, t, [task[p][t] EXCEPT !.stage = "discarding", !.key = None])
             /\ UNCHANGED <<publication, current>>
    <3> DEFINE r == [task[p][t] EXCEPT !.stage = "discarding", !.key = None]
    <3>1. r.kind = task[p][t].kind /\ r.user = task[p][t].user  BY InSlot DEF Tasks
    <3> QED BY <2>0, <2>3, <3>1, BecomeKey DEF publication, identity
  <2> QED BY <1>5, <2>1, <2>2, <2>3 DEF ProbeRestored
<1> QED BY <1>1, <1>2, <1>3, <1>4, <1>5

\* The steps that only move a task on.
LEMMA MovesKey ==
  ASSUME TypeInv, NEW p \in Pages, KeyInv(p), NEW t \in Slots,
         UNCHANGED <<identity, publication>>, current' \in {current, [current EXCEPT ![p] = NoOne]},
         NEW r \in Tasks, r.kind = task[p][t].kind, r.user = task[p][t].user, Become(p, t, r)
  PROVE  KeyInv(p)'
<1>1. current'[p] \in {current[p], NoOne}  BY TypeInvParts DEF HolderOK
<1> QED BY <1>1, BecomeKey DEF identity, publication

LEMMA AdvanceKey ==
  ASSUME TypeInv, NEW p \in Pages, KeyInv(p), NEW t \in Slots, NEW g \in Stages,
         UNCHANGED <<identity, publication, current>>, Advance(p, t, g)
  PROVE  KeyInv(p)'
<1> DEFINE r == [task[p][t] EXCEPT !.stage = g]
<1>1. r \in Tasks /\ r.kind = task[p][t].kind /\ r.user = task[p][t].user
  BY InSlot DEF Tasks
<1> QED BY <1>1, MovesKey DEF Advance

LEMMA EndKey ==
  ASSUME TypeInv, NEW p \in Pages, KeyInv(p), NEW t \in Slots,
         UNCHANGED <<identity, publication>>, End(p, t)
  PROVE  KeyInv(p)'
<1>1. current'[p] \in {current[p], NoOne}  BY EndSlots
<1>2. Become(p, t, Idle)  BY DEF End, Become
<1> QED BY <1>1, <1>2, BecomeKey DEF identity, publication, Idle

LEMMA StartKey ==
  ASSUME TypeInv, NEW p \in Pages, KeyInv(p), NEW t \in Slots, NEW kind, kind # "probe",
         NEW g, NEW u, NEW f, Become(p, t, NewTask(kind, g, u, f)),
         UNCHANGED <<identity, publication>>, current' \in {current, [current EXCEPT ![p] = NoOne]}
  PROVE  KeyInv(p)'
<1>1. current'[p] \in {current[p], NoOne}  BY TypeInvParts DEF HolderOK
<1>2. NewTask(kind, g, u, f).kind = kind  BY DEF NewTask, Idle
<1> DEFINE r == NewTask(kind, g, u, f)
<1>3. r.kind # "probe" /\ Become(p, t, r)  BY <1>2
<1> HIDE DEF r
<1> QED BY <1>1, <1>3, BecomeKey DEF identity, publication

\* A forget changes no probe.
LEMMA ForgetKey ==
  ASSUME TypeInv, NEW p \in Pages, KeyInv(p), NEW t \in Slots, NEW r \in Tasks,
         ForgetDeviceKey(p, t, r), r.kind # "probe", UNCHANGED identity,
         UNCHANGED publication \/ state'[p] = "Locked",
         current' \in {current, [current EXCEPT ![p] = NoOne]}
  PROVE  KeyInv(p)'
<1>1. current'[p] \in {current[p], NoOne}  BY TypeInvParts DEF HolderOK
<1>2. \A x \in Slots : current'[p] = x /\ task'[p][x].kind = "probe" =>
         current[p] = x /\ task[p][x].kind = "probe" /\ task'[p][x].user = task[p][x].user
  BY <1>1, ForgetSlots, TasksAssumption DEF NoOne, Slots
<1> QED BY <1>2, KeyKept DEF identity, publication

\* The steps of the server, and of tasks that only wait for it.
LEMMA WaitingStepsKey ==
  ASSUME TypeInv, NEW p \in Pages, KeyInv(p), NEW t \in Slots
  PROVE  /\ ServerReads(p, t) => KeyInv(p)'
         /\ ServerEnables(p, t) => KeyInv(p)'
         /\ ServerEndsSession(p, t) => KeyInv(p)'
         /\ AuthenticatorSigns(p, t) => KeyInv(p)'
         /\ PasskeyTold(p, t) \/ EnableKeyShown(p, t) \/ ConfirmNewKey(p, t) => KeyInv(p)'
         /\ Cleared(p, t) \/ Abandon(p, t) => KeyInv(p)'
<1>0. task[p][t] \in Tasks /\ cookie \in Somebody
  BY InSlot, TypeInvParts DEF SharedOK
<1>1. ASSUME ServerReads(p, t) PROVE KeyInv(p)'
  <2>1. PICK answered \in BOOLEAN :
          Become(p, t, [task[p][t] EXCEPT !.stage = "told",
                         !.about = IF answered THEN cookie ELSE None,
                         !.on = answered /\ cookie \in enabled])
    BY <1>1 DEF ServerReads
  <2> DEFINE a == IF answered THEN cookie ELSE None
             b == answered /\ cookie \in enabled
             r == [task[p][t] EXCEPT !.stage = "told", !.about = a, !.on = b]
  <2>2. a \in Somebody /\ b \in BOOLEAN  BY <1>0 DEF Somebody
  <2>3. r \in Tasks  BY <1>0, <2>2, AnswerUpdate DEF Stages
  <2>4. r.kind = task[p][t].kind /\ r.user = task[p][t].user  BY <1>0 DEF Tasks
  <2>5. UNCHANGED <<identity, publication, current>>  BY <1>1 DEF ServerReads
  <2> QED BY <2>1, <2>3, <2>4, <2>5, MovesKey
<1>2. ASSUME ServerEnables(p, t) PROVE KeyInv(p)'
  <2>1. UNCHANGED <<identity, publication, current>>  BY <1>2 DEF ServerEnables
  <2>2. CASE Advance(p, t, "told")
    BY <2>1, <2>2, AdvanceKey DEF Stages
  <2>3. CASE \E delivered \in BOOLEAN :
               Become(p, t, [task[p][t] EXCEPT !.stage = "told", !.about = cookie,
                               !.on = delivered])
    <3>1. PICK delivered \in BOOLEAN :
            Become(p, t, [task[p][t] EXCEPT !.stage = "told", !.about = cookie,
                            !.on = delivered])
      BY <2>3
    <3> DEFINE r == [task[p][t] EXCEPT !.stage = "told", !.about = cookie, !.on = delivered]
    <3>2. r \in Tasks  BY <1>0, AnswerUpdate DEF Stages
    <3>3. r.kind = task[p][t].kind /\ r.user = task[p][t].user  BY <1>0 DEF Tasks
    <3> QED BY <2>1, <3>1, <3>2, <3>3, MovesKey
  <2> QED BY <1>2, <2>2, <2>3 DEF ServerEnables
<1>3. ASSUME ServerEndsSession(p, t) PROVE KeyInv(p)'
  <2>1. UNCHANGED <<identity, publication, current>>  BY <1>3 DEF ServerEndsSession
  <2> DEFINE r == [task[p][t] EXCEPT !.stage = "told", !.on = TRUE]
  <2>2. r \in Tasks /\ r.kind = task[p][t].kind /\ r.user = task[p][t].user
    BY <1>0 DEF Tasks, Stages
  <2>3. Become(p, t, r) \/ Advance(p, t, "told")  BY <1>3 DEF ServerEndsSession
  <2>4. "told" \in Stages  BY DEF Stages
  <2> QED BY <2>1, <2>2, <2>3, <2>4, MovesKey, AdvanceKey
<1>4. ASSUME AuthenticatorSigns(p, t) PROVE KeyInv(p)'
  <2>1. UNCHANGED <<identity, publication, current>>  BY <1>4 DEF AuthenticatorSigns
  <2> DEFINE r == [task[p][t] EXCEPT !.stage = "asking", !.fresh = TRUE]
  <2>2. r \in Tasks /\ r.kind = task[p][t].kind /\ r.user = task[p][t].user
    BY <1>0 DEF Tasks, Stages
  <2>3. Become(p, t, r) \/ Advance(p, t, "asserted")  BY <1>4 DEF AuthenticatorSigns
  <2>4. "asserted" \in Stages  BY DEF Stages
  <2> QED BY <2>1, <2>2, <2>3, <2>4, MovesKey, AdvanceKey
<1>5. ASSUME PasskeyTold(p, t) \/ EnableKeyShown(p, t) \/ ConfirmNewKey(p, t)
      PROVE  KeyInv(p)'
  <2>1. {"asserting", "showing", "asking"} \subseteq Stages  BY DEF Stages
  <2> QED BY <1>5, <2>1, AdvanceKey, EndKey DEF PasskeyTold, EnableKeyShown, ConfirmNewKey
<1>6. ASSUME Cleared(p, t) \/ Abandon(p, t) PROVE KeyInv(p)'
  <2>1. "asking" \in Stages  BY DEF Stages
  <2> QED BY <1>6, <2>1, AdvanceKey, EndKey DEF Cleared, Abandon
<1> QED BY <1>1, <1>2, <1>3, <1>4, <1>5, <1>6

\* The steps that end in unlock, or in its awaited half.
LEMMA UnlockStepsKey ==
  ASSUME TypeInv, NEW p \in Pages, KeyInv(p)
  PROVE  /\ \A kind \in {"passkey", "typed"} : StartUnlock(p, kind) => KeyInv(p)'
         /\ \A first \in {"asserting", "showing"} : StartEnable(p, first) => KeyInv(p)'
         /\ \A t \in Slots : PasskeyOpens(p, t) => KeyInv(p)'
         /\ \A t \in Slots : TypedKeyOpens(p, t) => KeyInv(p)'
         /\ \A t \in Slots : OfferAnswered(p, t) => KeyInv(p)'
         /\ \A t \in Slots : EnableTold(p, t) => KeyInv(p)'
         /\ \A t \in Slots : UnlockStored(p, t) => KeyInv(p)'
<1>0. \A t \in Slots : task[p][t] \in Tasks /\ GoodTask(task[p][t])  BY InSlot
<1>1. ASSUME NEW kind \in {"passkey", "typed"}, StartUnlock(p, kind) PROVE KeyInv(p)'
  BY <1>1, StartKey DEF StartUnlock
<1>2. ASSUME NEW first \in {"asserting", "showing"}, StartEnable(p, first) PROVE KeyInv(p)'
  BY <1>2, StartKey DEF StartEnable
<1>3. ASSUME NEW t \in Slots, PasskeyOpens(p, t) PROVE KeyInv(p)'
  <2> DEFINE u == task[p][t].user
             k == [user |-> u, opens |-> u]
  <2>1. UNCHANGED identity /\ task[p][t].kind = "passkey"  BY <1>3 DEF PasskeyOpens, At
  <2>2. k \in Keys  BY <1>0, <2>1 DEF GoodTask, Attributed, Keys
  <2>3. (End(p, t) /\ UNCHANGED publication) \/ Unlock(p, t, k)
    BY <1>3 DEF PasskeyOpens
  <2> QED BY <2>1, <2>2, <2>3, EndKey, UnlockKey
<1>4. ASSUME NEW t \in Slots, TypedKeyOpens(p, t) PROVE KeyInv(p)'
  <2>1. UNCHANGED <<identity, publication>> /\ task[p][t].kind = "typed"
    BY <1>4 DEF TypedKeyOpens, At
  <2>2. CASE End(p, t)  BY <2>1, <2>2, EndKey
  <2>3. CASE ~End(p, t)
    <3>1. UNCHANGED current  BY <1>4, <2>3 DEF TypedKeyOpens
    <3> DEFINE r == task[p][t]
               rr == [r EXCEPT !.stage = "offered", !.about = None, !.on = FALSE,
                               !.key = [user |-> r.user, opens |-> r.about]]
    <3>2. \A s \in Slots : task'[p][s] = IF s = t THEN rr
                         ELSE IF task[p][s].stage = "offered" THEN Idle ELSE task[p][s]
      BY <1>4, <2>3, TypeInvParts DEF TypedKeyOpens, TasksOK, TaskTable
    <3>3. rr.kind = "typed"  BY <1>0, <2>1 DEF Tasks
    <3>4. \A s \in Slots : task'[p][s].kind = "probe" => task'[p][s] = task[p][s]
      <4>1. Idle.kind # "probe"  BY DEF Idle
      <4> HIDE DEF rr
      <4> QED BY <3>2, <3>3, <4>1
    <3> QED BY <2>1, <3>1, <3>4, KeyKept DEF identity, publication
  <2> QED BY <2>2, <2>3
<1>5. ASSUME NEW t \in Slots, OfferAnswered(p, t) PROVE KeyInv(p)'
  <2>1. UNCHANGED identity /\ task[p][t].kind = "typed"  BY <1>5 DEF OfferAnswered, At
  <2>2. task[p][t].key \in Keys  BY <1>0, <1>5 DEF OfferAnswered, At, GoodTask, Keyed
  <2> QED BY <1>5, <2>1, <2>2, UnlockKey DEF OfferAnswered
<1>6. ASSUME NEW t \in Slots, EnableTold(p, t) PROVE KeyInv(p)'
  <2> DEFINE r == task[p][t]
             k == [user |-> r.user, opens |-> r.about]
  <2>1. UNCHANGED identity /\ r.kind = "enable"  BY <1>6 DEF EnableTold, At
  <2>2. (End(p, t) /\ UNCHANGED publication) \/ (r.on /\ Unlock(p, t, k))
    BY <1>6 DEF EnableTold
  <2>3. r.on => k \in Keys  BY <1>0, <2>1 DEF GoodTask, Attributed, Keys
  <2> QED BY <2>1, <2>2, <2>3, EndKey, UnlockKey
<1>7. ASSUME NEW t \in Slots, UnlockStored(p, t) PROVE KeyInv(p)'
  <2>1. UNCHANGED identity /\ task[p][t].kind # "probe"
    BY <1>7 DEF UnlockStored, At, InPage
  <2>2. CASE /\ ForgetDeviceKey(p, t, [task[p][t] EXCEPT !.key = None])
             /\ UNCHANGED <<publication, current>>
    <3> DEFINE r == [task[p][t] EXCEPT !.key = None]
    <3>1. r \in Tasks /\ r.kind # "probe"  BY <1>0, <2>1 DEF Tasks
    <3> QED BY <2>1, <2>2, <3>1, ForgetKey
  <2>3. CASE /\ task[p][t].key.user = user[p]
             /\ PublishIfCurrent(p, t, "Unlocked", task[p][t].key)
    BY <2>1, <2>3, PublishIfCurrentKey
  <2> QED BY <1>7, <2>2, <2>3 DEF UnlockStored
<1> QED BY <1>1, <1>2, <1>3, <1>4, <1>5, <1>6, <1>7

\* Forgetting the key, loading the page, signing in, and IndexedDB.
LEMMA PageStepsKey ==
  ASSUME TypeInv, NEW p \in Pages, KeyInv(p)
  PROVE  /\ LockNow(p) \/ SignOut(p) => KeyInv(p)'
         /\ \A t \in Slots : SignOutForgets(p, t) => KeyInv(p)'
         /\ \A t \in Slots : SignOutTold(p, t) => KeyInv(p)'
         /\ \A t \in Slots : SignInTold(p, t) => KeyInv(p)'
         /\ \A u \in Users : SignInByLink(p, u) \/ StartSignIn(p, u) => KeyInv(p)'
         /\ Reload(p) => KeyInv(p)'
         /\ \A t \in Slots : ServeKeystore(p, t) => KeyInv(p)'
<1>0. \A t \in Slots : task[p][t] \in Tasks /\ GoodTask(task[p][t])  BY InSlot
<1>1. ASSUME LockNow(p) PROVE KeyInv(p)'
  <2> DEFINE r == NewTask("lock", "clearing", user[p], FALSE)
  <2>1. PICK s \in Slots : ForgetDeviceKey(p, s, r)  BY <1>1 DEF LockNow
  <2>2. user[p] \in Somebody  BY TypeInvParts DEF IdentityOK
  <2>3. r \in Tasks  BY <2>2, NewTaskIsTask DEF Kinds, Stages
  <2>4. r.kind = "lock"  BY DEF NewTask, Idle
  <2>5. state'[p] = "Locked"  BY <1>1, Published DEF LockNow
  <2>6. UNCHANGED identity /\ current' = [current EXCEPT ![p] = NoOne]  BY <1>1 DEF LockNow
  <2> HIDE DEF r
  <2> QED BY <2>1, <2>3, <2>4, <2>5, <2>6, ForgetKey
<1>2. ASSUME SignOut(p) PROVE KeyInv(p)'
  BY <1>2, StartKey DEF SignOut
<1>3. ASSUME NEW t \in Slots, SignOutForgets(p, t) PROVE KeyInv(p)'
  BY <1>0, <1>3, ForgetKey DEF SignOutForgets, At
<1>4. ASSUME NEW t \in Slots, SignOutTold(p, t) PROVE KeyInv(p)'
  <2>1. UNCHANGED <<publication, current>>  BY <1>4 DEF SignOutTold
  <2>2. CASE task[p][t].on
    <3>1. user'[p] = None /\ effect'[p]
      BY <1>4, <2>2, TypeInvParts DEF SignOutTold, IdentityOK
    <3> QED BY <2>1, <3>1 DEF KeyInv, publication
  <2>3. CASE ~task[p][t].on
    <3>1. Become(p, t, Idle) /\ UNCHANGED identity
      BY <1>4, <2>3 DEF SignOutTold, identity
    <3> QED BY <2>1, <3>1, BecomeKey DEF Idle, identity, publication
  <2> QED BY <2>2, <2>3
<1>5. ASSUME NEW t \in Slots, SignInTold(p, t) PROVE KeyInv(p)'
  <2>1. CASE Load(p, cookie)  BY <2>1, LoadKey
  <2>2. CASE ~Load(p, cookie)
    <3> DEFINE r == task[p][t]
               rr == [r EXCEPT !.stage = "storing", !.key = [user |-> r.about, opens |-> r.user]]
    <3>1. /\ r.kind = "signin" /\ Become(p, t, rr)
          /\ UNCHANGED <<identity, publication, current>>
      BY <1>5, <2>2 DEF SignInTold, At
    <3>2. rr.kind = "signin"  BY <1>0, <3>1 DEF Tasks
    <3> HIDE DEF rr
    <3> QED BY <3>1, <3>2, BecomeKey DEF identity, publication
  <2> QED BY <2>1, <2>2
<1>6. ASSUME NEW u \in Users, SignInByLink(p, u) \/ StartSignIn(p, u) PROVE KeyInv(p)'
  BY <1>6, LoadKey, StartKey DEF SignInByLink, StartSignIn
<1>7. Reload(p) => KeyInv(p)'
  BY LoadKey DEF Reload
<1>8. ASSUME NEW s \in Slots, ServeKeystore(p, s) PROVE KeyInv(p)'
  <2> DEFINE r == task[p][s]
  <2>1. UNCHANGED <<identity, publication, current>>  BY <1>8 DEF ServeKeystore
  <2>2. record \in Keys \cup {None}  BY TypeInvParts DEF SharedOK
  <2>3. {"stored", "cleared", "discarded"} \subseteq Stages  BY DEF Stages
  <2>4. CASE \E g \in {"stored", "cleared", "discarded"} : Advance(p, s, g)
    BY <2>1, <2>3, <2>4, AdvanceKey
  <2>5. CASE \E k \in Keys \cup {None} :
               Become(p, s, [r EXCEPT !.stage = "read", !.key = k])
    <3>1. PICK k \in Keys \cup {None} :
            Become(p, s, [r EXCEPT !.stage = "read", !.key = k])
      BY <2>5
    <3> DEFINE rr == [r EXCEPT !.stage = "read", !.key = k]
    <3>2. r \in Tasks  BY <1>0
    <3>3. rr \in Tasks  BY <3>2, KeyUpdate DEF Stages
    <3>4. rr.kind = r.kind /\ rr.user = r.user  BY <3>2 DEF Tasks
    <3> QED BY <2>1, <3>1, <3>3, <3>4, MovesKey
  <2>6. PICK served \in BOOLEAN :
          \/ Advance(p, s, "stored")
          \/ Become(p, s, [r EXCEPT !.stage = "read", !.key = IF served THEN record ELSE None])
          \/ Advance(p, s, IF r.stage = "clearing" THEN "cleared" ELSE "discarded")
    BY <1>8 DEF ServeKeystore
  <2>7. (IF served THEN record ELSE None) \in Keys \cup {None}  BY <2>2
  <2> QED BY <2>4, <2>5, <2>6, <2>7
<1> QED BY <1>1, <1>2, <1>3, <1>4, <1>5, <1>6, <1>7, <1>8

\* Whatever the page does next.
LEMMA KeyStep ==
  ASSUME TypeInv, NEW p \in Pages, KeyInv(p), PageStep(p)
  PROVE  KeyInv(p)'
<1>1. ASSUME UserStep(p) PROVE KeyInv(p)'
  BY <1>1, ProbeStepsKey, WaitingStepsKey, UnlockStepsKey, PageStepsKey DEF UserStep
<1>2. ASSUME NEW t \in Slots, TaskStep(p, t) PROVE KeyInv(p)'
  <2>1. SignInStored(p, t) => Reload(p)  BY DEF SignInStored
  <2> QED BY <1>2, <2>1, ProbeStepsKey, WaitingStepsKey, UnlockStepsKey, PageStepsKey
             DEF TaskStep
<1> QED BY <1>1, <1>2, ProbeStepsKey, PageStepsKey DEF PageStep

\* A page never uses a key filed under an account it does not show (the account
\* checks of unlock and keystore::get, and the tokens of Generation): a probe
\* that still holds the newest token asked about the account on the page.
THEOREM KeyOfPageUser == Spec => []KeyIsOfPageUser
<1> DEFINE Inv == TypeInv /\ \A p \in Pages : KeyInv(p)
<1>1. Init => Inv
  <2> SUFFICES ASSUME Init PROVE \A p \in Pages : KeyInv(p)  BY InitType
  <2> QED BY TasksAssumption DEF Init, KeyInv, InitialState, NoOne, Slots
<1>2. Inv /\ [Next]_vars => Inv'
  <2> SUFFICES ASSUME Inv, [Next]_vars, NEW p \in Pages PROVE KeyInv(p)'
    BY NextType
  <2>1. CASE UNCHANGED Row(p)  BY <2>1 DEF Row, KeyInv
  <2>2. CASE PageStep(p)  BY <2>2, KeyStep
  <2>3. ASSUME NEW q \in Pages, q # p, PageStep(q) PROVE UNCHANGED Row(p)
    BY <2>3, OtherPages
  <2>4. \A u \in Users : EnabledElsewhere(u) => UNCHANGED Row(p)
    BY DEF EnabledElsewhere, pageVars, Row
  <2>5. UNCHANGED vars => UNCHANGED Row(p)  BY DEF vars, pageVars, Row
  <2> QED BY <2>1, <2>2, <2>3, <2>4, <2>5 DEF Next, PageStep
<1>3. Inv => KeyIsOfPageUser  BY DEF KeyInv, KeyIsOfPageUser
<1> QED BY <1>1, <1>2, <1>3, PTL DEF Spec

-----------------------------------------------------------------------------
(* Encryption is never undone.                                             *)

LEMMA EnabledGrows ==
  ASSUME [Next]_vars
  PROVE  enabled \subseteq enabled'
<1> USE DEF shared
<1>1. ASSUME NEW p \in Pages, UserStep(p) PROVE UNCHANGED enabled
  BY <1>1 DEF UserStep, Reload, Retry, LockNow, SignOut, StartUnlock, StartEnable,
              SignInByLink, StartSignIn, AuthenticatorSigns, OfferAnswered, ConfirmNewKey,
              Abandon
<1>2. ASSUME NEW p \in Pages, NEW t \in Slots, TaskStep(p, t) PROVE enabled \subseteq enabled'
  <2>1. CASE ServerEnables(p, t)  BY <2>1 DEF ServerEnables
  <2>2. CASE ~ServerEnables(p, t)
    BY <1>2, <2>2
       DEF TaskStep, ServerReads, ServerEndsSession, ProbeTold, ProbeRestored, PasskeyTold,
           PasskeyOpens, TypedKeyOpens, EnableKeyShown, EnableTold, UnlockStored,
           SignOutForgets, Cleared, SignOutTold, SignInTold, SignInStored, Reload,
           ServeKeystore
  <2> QED BY <2>1, <2>2
<1>3. ASSUME NEW p \in Pages, RunEffect(p) \/ UnopenableRowSeen(p)
      PROVE  UNCHANGED enabled
  BY <1>3, Zenon DEF RunEffect, UnopenableRowSeen
<1>4. ASSUME NEW u \in Users, EnabledElsewhere(u) PROVE enabled \subseteq enabled'
  BY <1>4 DEF EnabledElsewhere
<1>5. UNCHANGED vars => UNCHANGED enabled  BY DEF vars
<1> QED BY <1>1, <1>2, <1>3, <1>4, <1>5 DEF Next

-----------------------------------------------------------------------------
(* A page of an encrypted account never says Disabled.                     *)

\* An answer about an account that was encrypted from the start says so.
Informed(r) == r.kind = "probe" /\ r.stage = "told" /\ r.about \in EncryptedAlready => r.on

HonestInv(p) ==
  /\ user[p] \in EncryptedAlready => state[p] # "Disabled"
  /\ \A t \in Slots : Informed(task[p][t])

\* What a step may do to the page: leave the account or take it away, and say
\* Disabled of no encrypted account.
LEMMA HonestFrom ==
  ASSUME NEW p \in Pages, HonestInv(p), user'[p] \in {user[p], None},
         \/ state'[p] = state[p]
         \/ state'[p] # "Disabled"
         \/ user'[p] \notin EncryptedAlready,
         \A t \in Slots : Informed(task'[p][t])
  PROVE  HonestInv(p)'
BY UsersAssumption DEF HonestInv, Informed

LEMMA BecomeInformed ==
  ASSUME TypeInv, NEW p \in Pages, HonestInv(p), NEW t \in Slots, NEW r, Informed(r),
         Become(p, t, r)
  PROVE  \A s \in Slots : Informed(task'[p][s])
BY BecomeSlots DEF HonestInv

LEMMA AdvanceInformed ==
  ASSUME TypeInv, NEW p \in Pages, HonestInv(p), NEW t \in Slots, NEW g \in Stages,
         task[p][t].kind # "probe" \/ g # "told", Advance(p, t, g)
  PROVE  \A s \in Slots : Informed(task'[p][s])
<1> DEFINE r == [task[p][t] EXCEPT !.stage = g]
<1>1. r.kind = task[p][t].kind /\ r.stage = g  BY InSlot DEF Tasks
<1>2. Informed(r)  BY <1>1 DEF Informed
<1>3. Become(p, t, r)  BY DEF Advance
<1> HIDE DEF r
<1> QED BY <1>2, <1>3, BecomeInformed

LEMMA EndInformed ==
  ASSUME TypeInv, NEW p \in Pages, HonestInv(p), NEW t \in Slots, End(p, t)
  PROVE  \A s \in Slots : Informed(task'[p][s])
BY EndSlots DEF HonestInv, Informed, Idle

LEMMA StartInformed ==
  ASSUME TypeInv, NEW p \in Pages, HonestInv(p), NEW t \in Slots,
         NEW kind, NEW g, NEW u, NEW f, g # "told", Become(p, t, NewTask(kind, g, u, f))
  PROVE  \A s \in Slots : Informed(task'[p][s])
<1>1. NewTask(kind, g, u, f).stage = g  BY DEF NewTask, Idle
<1>2. Informed(NewTask(kind, g, u, f))  BY <1>1 DEF Informed
<1> QED BY <1>2, BecomeInformed

\* A forget changes what no task knows.
LEMMA ForgetInformed ==
  ASSUME TypeInv, NEW p \in Pages, HonestInv(p), NEW t \in Slots, NEW r \in Tasks,
         ForgetDeviceKey(p, t, r)
  PROVE  \A s \in Slots : Informed(task'[p][s])
<1> SUFFICES ASSUME NEW s \in Slots PROVE Informed(task'[p][s])  OBVIOUS
<1>1. CASE s = t
  <2>1. task'[p][s].stage = "clearing"  BY <1>1, ForgetSlots
  <2> QED BY <2>1 DEF Informed
<1>2. CASE s # t
  <2>1. task'[p][s] = [task[p][s] EXCEPT !.fresh = FALSE]
    BY <1>2, TypeInvParts DEF TasksOK, TaskTable, ForgetDeviceKey
  <2>2. task[p][s] \in Tasks /\ Informed(task[p][s])  BY InSlot DEF HonestInv
  <2> QED BY <2>1, <2>2 DEF Informed, Tasks
<1> QED BY <1>1, <1>2

LEMMA StartProbeHonest ==
  ASSUME TypeInv, NEW p \in Pages, HonestInv(p), StartProbe(p, "Unknown"),
         user'[p] = user[p]
  PROVE  HonestInv(p)'
<1>1. CASE user[p] = None
  <2>1. UNCHANGED task /\ user'[p] \notin EncryptedAlready
    BY <1>1, UsersAssumption DEF StartProbe
  <2> QED BY <2>1, HonestFrom DEF HonestInv
<1>2. CASE user[p] # None
  <2>1. PICK t \in Slots : Become(p, t, NewTask("probe", "asking", user[p], FALSE))
    BY <1>2 DEF StartProbe
  <2>2. Publish(p, "Unknown", None)  BY <1>2 DEF StartProbe
  <2>3. state'[p] # "Disabled"  BY <2>2, Published
  <2> QED BY <2>1, <2>3, StartInformed, HonestFrom
<1> QED BY <1>1, <1>2

LEMMA PublishIfCurrentHonest ==
  ASSUME TypeInv, NEW p \in Pages, HonestInv(p), NEW t \in Slots, NEW s, NEW k,
         PublishIfCurrent(p, t, s, k), user'[p] = user[p],
         current[p] = t /\ s = "Disabled" => user[p] \notin EncryptedAlready
  PROVE  HonestInv(p)'
<1>1. \A x \in Slots : Informed(task'[p][x])  BY EndInformed DEF PublishIfCurrent
<1>2. \/ state'[p] = state[p]
      \/ state'[p] # "Disabled"
      \/ user'[p] \notin EncryptedAlready
  BY Published DEF PublishIfCurrent, publication
<1> QED BY <1>1, <1>2, HonestFrom

LEMMA UnlockHonest ==
  ASSUME TypeInv, NEW p \in Pages, HonestInv(p), NEW t \in Slots, NEW k,
         Unlock(p, t, k), user'[p] = user[p]
  PROVE  HonestInv(p)'
<1>1. CASE End(p, t) /\ UNCHANGED publication
  BY <1>1, EndInformed, HonestFrom DEF publication
<1>2. CASE UnlockStores(p, t, k)
  <2> DEFINE r == [task[p][t] EXCEPT !.stage = "storing", !.key = k]
  <2>1. Become(p, t, r) /\ state'[p] # "Disabled"  BY <1>2, Published DEF UnlockStores
  <2>2. Informed(r)  BY InSlot DEF Tasks, Informed
  <2> HIDE DEF r
  <2> QED BY <2>1, <2>2, BecomeInformed, HonestFrom
<1>3. CASE UnlockUnremembered(p, t, k)
  <2>1. Become(p, t, Idle) /\ state'[p] # "Disabled"
    BY <1>3, Published DEF UnlockUnremembered
  <2>2. Informed(Idle)  BY DEF Informed, Idle
  <2> QED BY <2>1, <2>2, BecomeInformed, HonestFrom
<1> QED BY <1>1, <1>2, <1>3 DEF Unlock

\* A page of an account starts at Unknown, with nothing asked.
LEMMA LoadHonest ==
  ASSUME TypeInv, NEW p \in Pages, NEW u, Load(p, u)
  PROVE  HonestInv(p)'
<1>1. user'[p] = u /\ state'[p] = InitialState(u)
  BY Published, TypeInvParts DEF Load, IdentityOK
<1>2. \A s \in Slots : task'[p][s] = Idle
  BY TypeInvParts DEF Load, TasksOK, TaskTable
<1>3. Informed(Idle)  BY DEF Informed, Idle
<1>4. u \in EncryptedAlready => state'[p] # "Disabled"
  BY <1>1, UsersAssumption DEF InitialState
<1> QED BY <1>1, <1>2, <1>3, <1>4 DEF HonestInv, Informed

\* The steps of the user.
LEMMA UserStepHonest ==
  ASSUME TypeInv, NEW p \in Pages, HonestInv(p), UserStep(p)
  PROVE  HonestInv(p)'
<1> USE DEF identity, publication
<1>0. {"asking", "asserted"} \subseteq Stages
  BY DEF Stages
<1>1. CASE Reload(p)  BY <1>1, LoadHonest DEF Reload
<1>2. CASE Retry(p)  BY <1>2, StartProbeHonest DEF Retry
<1>3. CASE LockNow(p)
  <2> DEFINE r == NewTask("lock", "clearing", user[p], FALSE)
  <2>1. PICK t \in Slots : ForgetDeviceKey(p, t, r)  BY <1>3 DEF LockNow
  <2>2. user[p] \in Somebody  BY TypeInvParts DEF IdentityOK
  <2>3. r \in Tasks  BY <2>2, NewTaskIsTask DEF Kinds, Stages
  <2>4. state'[p] # "Disabled" /\ user'[p] = user[p]  BY <1>3, Published DEF LockNow
  <2> HIDE DEF r
  <2> QED BY <2>1, <2>3, <2>4, ForgetInformed, HonestFrom
<1>4. CASE SignOut(p)  BY <1>4, StartInformed, HonestFrom DEF SignOut
<1>5. CASE StartUnlock(p, "passkey") \/ StartUnlock(p, "typed")
  BY <1>5, StartInformed, HonestFrom DEF StartUnlock
<1>6. CASE StartEnable(p, "asserting") \/ StartEnable(p, "showing")
  BY <1>6, StartInformed, HonestFrom DEF StartEnable
<1>7. ASSUME NEW u \in Users, SignInByLink(p, u) \/ StartSignIn(p, u) PROVE HonestInv(p)'
  BY <1>7, LoadHonest, StartInformed, HonestFrom DEF SignInByLink, StartSignIn
<1>8. ASSUME NEW t \in Slots, AuthenticatorSigns(p, t) PROVE HonestInv(p)'
  <2> DEFINE r == [task[p][t] EXCEPT !.stage = "asking", !.fresh = TRUE]
  <2>1. Informed(r)  BY InSlot DEF Informed, Tasks
  <2>2. Become(p, t, r) \/ Advance(p, t, "asserted")  BY <1>8 DEF AuthenticatorSigns
  <2> HIDE DEF r
  <2>3. \A s \in Slots : Informed(task'[p][s])
    BY <1>0, <2>1, <2>2, BecomeInformed, AdvanceInformed
  <2> QED BY <1>8, <2>3, HonestFrom DEF AuthenticatorSigns
<1>9. ASSUME NEW t \in Slots, OfferAnswered(p, t) PROVE HonestInv(p)'
  BY <1>9, UnlockHonest DEF OfferAnswered
<1>10. ASSUME NEW t \in Slots, ConfirmNewKey(p, t) PROVE HonestInv(p)'
  BY <1>0, <1>10, AdvanceInformed, HonestFrom DEF ConfirmNewKey
<1>11. ASSUME NEW t \in Slots, Abandon(p, t) PROVE HonestInv(p)'
  BY <1>11, EndInformed, HonestFrom DEF Abandon
<1> QED BY <1>1, <1>2, <1>3, <1>4, <1>5, <1>6, <1>7, <1>8, <1>9, <1>10, <1>11 DEF UserStep

\* IndexedDB answers no probe about an account.
LEMMA ServeHonest ==
  ASSUME TypeInv, NEW p \in Pages, HonestInv(p), NEW t \in Slots, ServeKeystore(p, t)
  PROVE  HonestInv(p)'
<1>1. user'[p] = user[p] /\ state'[p] = state[p]  BY DEF ServeKeystore, identity, publication
<1>2. {"stored", "cleared", "discarded"} \subseteq Stages  BY DEF Stages
<1>3. task[p][t] \in Tasks  BY InSlot
<1>4. \/ \E g \in {"stored", "cleared", "discarded"} : Advance(p, t, g)
      \/ \E k : Become(p, t, [task[p][t] EXCEPT !.stage = "read", !.key = k])
  BY DEF ServeKeystore
<1>5. ASSUME NEW k PROVE Informed([task[p][t] EXCEPT !.stage = "read", !.key = k])
  BY <1>3 DEF Informed, Tasks
<1> QED BY <1>1, <1>2, <1>4, <1>5, AdvanceInformed, BecomeInformed, HonestFrom

\* The steps of the tasks: the answer about an encrypted account is true, and
\* Disabled is published only on an answer about the account of the page.
LEMMA TaskStepHonest ==
  ASSUME TypeInv, NEW p \in Pages, KeyInv(p), HonestInv(p), EncryptedAlready \subseteq enabled,
         NEW t \in Slots, TaskStep(p, t)
  PROVE  HonestInv(p)'
<1> USE DEF identity, publication
<1>0. task[p][t] \in Tasks /\ Informed(task[p][t])  BY InSlot DEF HonestInv
<1>a. {"told", "reading", "asserting", "showing", "asking"} \subseteq Stages  BY DEF Stages
<1>1. CASE ServerReads(p, t)
  <2>1. PICK answered \in BOOLEAN :
          Become(p, t, [task[p][t] EXCEPT !.stage = "told",
                         !.about = IF answered THEN cookie ELSE None,
                         !.on = answered /\ cookie \in enabled])
    BY <1>1 DEF ServerReads
  <2> DEFINE r == [task[p][t] EXCEPT !.stage = "told",
                     !.about = IF answered THEN cookie ELSE None,
                     !.on = answered /\ cookie \in enabled]
  <2>2. /\ r.about = IF answered THEN cookie ELSE None
        /\ r.on = (answered /\ cookie \in enabled)
    BY <1>0 DEF Tasks
  <2>3. Informed(r)  BY <2>2, UsersAssumption DEF Informed
  <2> HIDE DEF r
  <2>4. Become(p, t, r)  BY <2>1 DEF r
  <2> QED BY <1>1, <2>3, <2>4, BecomeInformed, HonestFrom DEF ServerReads
<1>2. CASE ServerEnables(p, t)
  <2>1. CASE Advance(p, t, "told")
    BY <1>2, <1>a, <2>1, AdvanceInformed, HonestFrom DEF ServerEnables, At
  <2>2. CASE ~Advance(p, t, "told")
    <3>1. PICK d \in BOOLEAN :
            Become(p, t, [task[p][t] EXCEPT !.stage = "told", !.about = cookie, !.on = d])
      BY <1>2, <2>2 DEF ServerEnables
    <3>2. Informed([task[p][t] EXCEPT !.stage = "told", !.about = cookie, !.on = d])
      BY <1>0, <1>2 DEF ServerEnables, At, Informed, Tasks
    <3> QED BY <1>2, <3>1, <3>2, BecomeInformed, HonestFrom DEF ServerEnables
  <2> QED BY <2>1, <2>2
<1>3. CASE ServerEndsSession(p, t)
  <2>1. task[p][t].kind = "signout"  BY <1>3 DEF ServerEndsSession, At
  <2> DEFINE r == [task[p][t] EXCEPT !.stage = "told", !.on = TRUE]
  <2>2. Informed(r)  BY <1>0, <2>1 DEF Informed, Tasks
  <2>3. Become(p, t, r) \/ Advance(p, t, "told")  BY <1>3 DEF ServerEndsSession
  <2> HIDE DEF r
  <2>4. \A s \in Slots : Informed(task'[p][s])
    BY <1>a, <2>1, <2>2, <2>3, BecomeInformed, AdvanceInformed
  <2> QED BY <1>3, <2>4, HonestFrom DEF ServerEndsSession
<1>4. CASE ProbeTold(p, t)
  <2>0. task[p][t].kind = "probe" /\ task[p][t].stage = "told" /\ user'[p] = user[p]
    BY <1>4 DEF ProbeTold, At
  <2>1. CASE PublishIfCurrent(p, t, "Unreachable", None)
    BY <2>0, <2>1, PublishIfCurrentHonest
  <2>2. CASE /\ ProbeAnswer(task[p][t]) = "NotEncrypted"
             /\ PublishIfCurrent(p, t, "Disabled", None)
    <3>1. task[p][t].about = task[p][t].user /\ ~task[p][t].on
      BY <2>2 DEF ProbeAnswer
    <3>2. task[p][t].user \notin EncryptedAlready  BY <1>0, <2>0, <3>1 DEF Informed
    <3>3. current[p] = t => user[p] \notin EncryptedAlready
      BY <2>0, <3>2, UsersAssumption DEF KeyInv
    <3> QED BY <2>0, <2>2, <3>3, PublishIfCurrentHonest
  <2>3. CASE Advance(p, t, "reading") /\ UNCHANGED publication
    BY <1>a, <2>0, <2>3, AdvanceInformed, HonestFrom
  <2> QED BY <1>4, <2>1, <2>2, <2>3 DEF ProbeTold
<1>5. CASE ProbeRestored(p, t)
  <2>0. user'[p] = user[p]  BY <1>5 DEF ProbeRestored
  <2>1. CASE \E s \in {"Locked", "Unlocked"}, k \in Keys \cup {None} : PublishIfCurrent(p, t, s, k)
    BY <2>0, <2>1, PublishIfCurrentHonest
  <2>2. CASE /\ Become(p, t, [task[p][t] EXCEPT !.stage = "discarding", !.key = None])
             /\ UNCHANGED publication
    <3>1. Informed([task[p][t] EXCEPT !.stage = "discarding", !.key = None])
      BY <1>0 DEF Informed, Tasks
    <3> QED BY <2>0, <2>2, <3>1, BecomeInformed, HonestFrom
  <2>3. task[p][t].key \in Keys \cup {None}  BY <1>0 DEF Tasks
  <2> QED BY <1>5, <2>1, <2>2, <2>3 DEF ProbeRestored
<1>6. CASE PasskeyTold(p, t)
  BY <1>6, <1>a, EndInformed, AdvanceInformed, HonestFrom DEF PasskeyTold
<1>7. CASE PasskeyOpens(p, t)
  BY <1>7, EndInformed, HonestFrom, UnlockHonest DEF PasskeyOpens
<1>8. CASE TypedKeyOpens(p, t)
  <2>1. CASE End(p, t)  BY <1>8, <2>1, EndInformed, HonestFrom DEF TypedKeyOpens
  <2>2. CASE ~End(p, t)
    <3> DEFINE r == task[p][t]
               rr == [r EXCEPT !.stage = "offered", !.about = None, !.on = FALSE,
                               !.key = [user |-> r.user, opens |-> r.about]]
    <3>1. \A s \in Slots : task'[p][s] = IF s = t THEN rr
                         ELSE IF task[p][s].stage = "offered" THEN Idle ELSE task[p][s]
      BY <1>8, <2>2, TypeInvParts DEF TypedKeyOpens, TasksOK, TaskTable
    <3>2. Informed(rr)  BY <1>0 DEF Informed, Tasks
    <3>3. Informed(Idle)  BY DEF Informed, Idle
    <3> HIDE DEF rr
    <3>4. \A s \in Slots : Informed(task'[p][s])  BY <3>1, <3>2, <3>3 DEF HonestInv
    <3> QED BY <1>8, <3>4, HonestFrom DEF TypedKeyOpens
  <2> QED BY <2>1, <2>2
<1>9. CASE EnableKeyShown(p, t)
  BY <1>9, <1>a, AdvanceInformed, HonestFrom DEF EnableKeyShown
<1>10. CASE EnableTold(p, t)
  BY <1>10, EndInformed, HonestFrom, UnlockHonest DEF EnableTold
<1>11. CASE UnlockStored(p, t)
  <2>0. user'[p] = user[p]  BY <1>11 DEF UnlockStored
  <2> DEFINE r == [task[p][t] EXCEPT !.key = None]
  <2>1. CASE ForgetDeviceKey(p, t, r) /\ UNCHANGED publication
    <3>1. r \in Tasks  BY <1>0 DEF Tasks
    <3> QED BY <2>0, <2>1, <3>1, ForgetInformed, HonestFrom
  <2>2. CASE PublishIfCurrent(p, t, "Unlocked", task[p][t].key)
    BY <2>0, <2>2, PublishIfCurrentHonest
  <2> QED BY <1>11, <2>1, <2>2 DEF UnlockStored
<1>12. CASE SignOutForgets(p, t)
  BY <1>0, <1>12, ForgetInformed, HonestFrom DEF SignOutForgets
<1>13. CASE Cleared(p, t)
  BY <1>13, <1>a, EndInformed, AdvanceInformed, HonestFrom DEF Cleared
<1>14. CASE SignOutTold(p, t)
  <2>1. Informed(Idle)  BY DEF Informed, Idle
  <2>2. CASE task[p][t].on
    <3>1. \A s \in Slots : task'[p][s] \in {Idle, task[p][s]}
      BY <1>14, <2>2, TypeInvParts DEF SignOutTold, TasksOK, TaskTable
    <3>2. \A s \in Slots : Informed(task'[p][s])  BY <2>1, <3>1 DEF HonestInv
    <3>3. user'[p] = None  BY <1>14, <2>2, TypeInvParts DEF SignOutTold, IdentityOK
    <3> QED BY <1>14, <3>2, <3>3, HonestFrom DEF SignOutTold
  <2>3. CASE ~task[p][t].on
    BY <1>14, <2>1, <2>3, BecomeInformed, HonestFrom DEF SignOutTold
  <2> QED BY <2>2, <2>3
<1>15. CASE SignInTold(p, t)
  <2>1. CASE Load(p, cookie)  BY <2>1, LoadHonest
  <2>2. CASE ~Load(p, cookie)
    <3> DEFINE r == [task[p][t] EXCEPT !.stage = "storing",
                       !.key = [user |-> task[p][t].about, opens |-> task[p][t].user]]
    <3>1. Informed(r)  BY <1>0 DEF Informed, Tasks
    <3>2. Become(p, t, r) /\ UNCHANGED <<user, state>>  BY <1>15, <2>2 DEF SignInTold
    <3> HIDE DEF r
    <3> QED BY <3>1, <3>2, BecomeInformed, HonestFrom
  <2> QED BY <2>1, <2>2
<1>16. CASE SignInStored(p, t)  BY <1>16, LoadHonest DEF SignInStored, Reload
<1> QED BY <1>1, <1>2, <1>3, <1>4, <1>5, <1>6, <1>7, <1>8, <1>9, <1>10, <1>11, <1>12, <1>13,
           <1>14, <1>15, <1>16, ServeHonest DEF TaskStep

\* A page of an account that was encrypted before it was opened never offers to
\* write plaintext (probe_answer compares the account before it looks at
\* `enabled`, unlock parks at Locked): the answers a probe carries about such an
\* account are true, and only the newest probe publishes, of the page's account.
THEOREM EncryptedNeverDisabled == Spec => []EncryptedAccountNeverDisabled
<1> DEFINE Inv == /\ TypeInv /\ EncryptedAlready \subseteq enabled
                  /\ \A p \in Pages : KeyInv(p) /\ HonestInv(p)
<1>1. Init => Inv
  <2> SUFFICES ASSUME Init PROVE \A p \in Pages : KeyInv(p) /\ HonestInv(p)
    BY InitType DEF Init
  <2>1. \A p \in Pages : KeyInv(p)
    BY TasksAssumption DEF Init, KeyInv, InitialState, NoOne, Slots
  <2>2. \A p \in Pages : HonestInv(p)
    BY UsersAssumption DEF Init, HonestInv, InitialState, Informed, Idle
  <2> QED BY <2>1, <2>2
<1>2. Inv /\ [Next]_vars => Inv'
  <2> SUFFICES ASSUME Inv, [Next]_vars
               PROVE  /\ (EncryptedAlready \subseteq enabled)'
                      /\ \A p \in Pages : KeyInv(p)' /\ HonestInv(p)'
    BY NextType
  <2>1. enabled \subseteq enabled'  BY EnabledGrows
  <2>2. ASSUME NEW p \in Pages PROVE KeyInv(p)' /\ HonestInv(p)'
    <3>1. CASE UNCHANGED Row(p)  BY <3>1 DEF Row, KeyInv, HonestInv, Informed
    <3>2. CASE PageStep(p)
      <4>1. KeyInv(p)'  BY <3>2, KeyStep
      <4>2. CASE RunEffect(p) \/ UnopenableRowSeen(p)
        BY <4>1, <4>2, StartProbeHonest DEF RunEffect, UnopenableRowSeen
      <4> QED BY <3>2, <4>1, <4>2, UserStepHonest, TaskStepHonest DEF PageStep
    <3>3. ASSUME NEW q \in Pages, q # p, PageStep(q) PROVE UNCHANGED Row(p)
      BY <3>3, OtherPages
    <3>4. \A u \in Users : EnabledElsewhere(u) => UNCHANGED Row(p)
      BY DEF EnabledElsewhere, pageVars, Row
    <3>5. UNCHANGED vars => UNCHANGED Row(p)  BY DEF vars, pageVars, Row
    <3> QED BY <3>1, <3>2, <3>3, <3>4, <3>5 DEF Next, PageStep
  <2> QED BY <2>1, <2>2
<1>3. Inv => EncryptedAccountNeverDisabled  BY DEF HonestInv, EncryptedAccountNeverDisabled
<1> QED BY <1>1, <1>2, <1>3, PTL DEF Spec

-----------------------------------------------------------------------------
(* Locked and Unlocked are claimed only once an account is encrypted.      *)

\* The stages a task reaches only after the server called an account encrypted.
Opening == {"reading", "read", "discarding", "discarded", "offered", "storing", "stored"}

Silent(r) == r.stage \notin Opening /\ (r.kind # "signout" => ~r.on)

SilentInv(p) ==
  /\ state[p] \notin {"Locked", "Unlocked"}
  /\ \A t \in Slots : Silent(task[p][t])

\* Nothing on any page speaks of encryption before the first account has it.
ClaimInv == enabled # {} \/ \A p \in Pages : SilentInv(p)

LEMMA SilentFrom ==
  ASSUME NEW p \in Pages, SilentInv(p),
         state'[p] = state[p] \/ state'[p] \notin {"Locked", "Unlocked"},
         \A t \in Slots : Silent(task'[p][t])
  PROVE  SilentInv(p)'
BY DEF SilentInv, Silent

LEMMA BecomeSilent ==
  ASSUME TypeInv, NEW p \in Pages, SilentInv(p), NEW t \in Slots, NEW r, Silent(r),
         Become(p, t, r)
  PROVE  \A s \in Slots : Silent(task'[p][s])
BY BecomeSlots DEF SilentInv

LEMMA AdvanceSilent ==
  ASSUME TypeInv, NEW p \in Pages, SilentInv(p), NEW t \in Slots, NEW g \in Stages \ Opening,
         Advance(p, t, g)
  PROVE  \A s \in Slots : Silent(task'[p][s])
<1> DEFINE r == [task[p][t] EXCEPT !.stage = g]
<1>1. r.kind = task[p][t].kind /\ r.stage = g /\ r.on = task[p][t].on  BY InSlot DEF Tasks
<1>2. Silent(r)  BY <1>1 DEF Silent, SilentInv
<1>3. Become(p, t, r)  BY DEF Advance
<1> HIDE DEF r
<1> QED BY <1>2, <1>3, BecomeSilent

LEMMA IdleIsSilent == Silent(Idle)
BY DEF Silent, Idle, Opening

LEMMA EndSilent ==
  ASSUME TypeInv, NEW p \in Pages, SilentInv(p), NEW t \in Slots, End(p, t)
  PROVE  \A s \in Slots : Silent(task'[p][s])
BY EndSlots, IdleIsSilent DEF SilentInv

LEMMA StartSilent ==
  ASSUME TypeInv, NEW p \in Pages, SilentInv(p), NEW t \in Slots,
         NEW kind, NEW g, NEW u, NEW f, g \notin Opening, Become(p, t, NewTask(kind, g, u, f))
  PROVE  \A s \in Slots : Silent(task'[p][s])
<1>1. NewTask(kind, g, u, f).stage = g /\ ~NewTask(kind, g, u, f).on  BY DEF NewTask, Idle
<1>2. Silent(NewTask(kind, g, u, f))  BY <1>1 DEF Silent
<1> QED BY <1>2, BecomeSilent

LEMMA StartProbeSilent ==
  ASSUME TypeInv, NEW p \in Pages, SilentInv(p), StartProbe(p, "Unknown")
  PROVE  SilentInv(p)'
<1>1. CASE UNCHANGED task /\ Publish(p, "Disabled", None)
  <2>1. state'[p] = "Disabled"  BY <1>1, Published
  <2> QED BY <1>1, <2>1, SilentFrom DEF SilentInv
<1>2. CASE /\ \E t \in Slots : Become(p, t, NewTask("probe", "asking", user[p], FALSE))
           /\ Publish(p, "Unknown", None)
  <2>1. state'[p] = "Unknown"  BY <1>2, Published
  <2> QED BY <1>2, <2>1, StartSilent, SilentFrom DEF Opening
<1> QED BY <1>1, <1>2 DEF StartProbe

LEMMA LoadSilent ==
  ASSUME TypeInv, NEW p \in Pages, NEW u, Load(p, u)
  PROVE  SilentInv(p)'
<1>1. state'[p] \in {"Disabled", "Unknown"}  BY Published DEF Load, InitialState
<1>2. \A s \in Slots : task'[p][s] = Idle
  BY TypeInvParts DEF Load, TasksOK, TaskTable
<1> QED BY <1>1, <1>2, IdleIsSilent DEF SilentInv, Silent

\* Of the user's steps, those that a silent page offers.
LEMMA UserStepSilent ==
  ASSUME TypeInv, NEW p \in Pages, SilentInv(p), UserStep(p)
  PROVE  SilentInv(p)'
<1> USE DEF publication
<1>0. state[p] \notin {"Locked", "Unlocked"}  BY DEF SilentInv
<1>1. CASE Reload(p)  BY <1>1, LoadSilent DEF Reload
<1>2. CASE Retry(p)  BY <1>2, StartProbeSilent DEF Retry
<1>3. CASE SignOut(p)  BY <1>3, StartSilent, SilentFrom DEF SignOut, Opening
<1>4. CASE StartEnable(p, "asserting") \/ StartEnable(p, "showing")
  BY <1>4, StartSilent, SilentFrom DEF StartEnable, Opening
<1>5. ASSUME NEW u \in Users, SignInByLink(p, u) \/ StartSignIn(p, u) PROVE SilentInv(p)'
  BY <1>5, LoadSilent, StartSilent, SilentFrom DEF SignInByLink, StartSignIn, Opening
<1>6. ASSUME NEW t \in Slots, AuthenticatorSigns(p, t) PROVE SilentInv(p)'
  <2> DEFINE r == [task[p][t] EXCEPT !.stage = "asking", !.fresh = TRUE]
  <2>1. Silent(r)  BY InSlot DEF Silent, SilentInv, Tasks, Opening
  <2>2. Become(p, t, r) \/ Advance(p, t, "asserted")  BY <1>6 DEF AuthenticatorSigns
  <2>3. "asserted" \in Stages \ Opening  BY DEF Stages, Opening
  <2> HIDE DEF r
  <2>4. \A s \in Slots : Silent(task'[p][s])
    BY <2>1, <2>2, <2>3, BecomeSilent, AdvanceSilent
  <2> QED BY <1>6, <2>4, SilentFrom DEF AuthenticatorSigns
<1>7. ASSUME NEW t \in Slots, ConfirmNewKey(p, t) PROVE SilentInv(p)'
  <2>1. "asking" \in Stages \ Opening  BY DEF Stages, Opening
  <2> QED BY <1>7, <2>1, AdvanceSilent, SilentFrom DEF ConfirmNewKey
<1>8. ASSUME NEW t \in Slots, Abandon(p, t) PROVE SilentInv(p)'
  BY <1>8, EndSilent, SilentFrom DEF Abandon
<1>9. ~LockNow(p) /\ ~StartUnlock(p, "passkey") /\ ~StartUnlock(p, "typed")
      /\ \A t \in Slots : ~OfferAnswered(p, t)
  BY <1>0 DEF LockNow, StartUnlock, OfferAnswered
<1> QED BY <1>1, <1>2, <1>3, <1>4, <1>5, <1>6, <1>7, <1>8, <1>9 DEF UserStep

\* Only deletes of a forget are waiting to be served.
LEMMA ServeSilent ==
  ASSUME TypeInv, NEW p \in Pages, SilentInv(p), NEW t \in Slots, ServeKeystore(p, t)
  PROVE  SilentInv(p)'
<1>1. task[p][t].stage \notin Opening  BY DEF SilentInv, Silent
<1>2. Advance(p, t, "cleared")  BY <1>1 DEF ServeKeystore, Opening
<1>3. state'[p] = state[p]  BY DEF ServeKeystore, publication
<1>4. "cleared" \in Stages \ Opening  BY DEF Stages, Opening
<1> QED BY <1>2, <1>3, <1>4, AdvanceSilent, SilentFrom

\* A task learns of encryption from the server only.
LEMMA TaskStepSilent ==
  ASSUME TypeInv, NEW p \in Pages, SilentInv(p), enabled = {}, enabled' = {},
         NEW t \in Slots, TaskStep(p, t)
  PROVE  SilentInv(p)'
<1> USE DEF publication
<1> DEFINE r == task[p][t]
<1>0. r \in Tasks /\ Silent(r)  BY InSlot DEF SilentInv
<1>a. {"told", "asserting", "showing", "asking"} \subseteq Stages \ Opening
  BY DEF Stages, Opening
<1>b. r.kind # "signout" => ~r.on  BY <1>0 DEF Silent
<1>c. r.stage \notin Opening  BY <1>0 DEF Silent
<1>1. CASE ServerReads(p, t)
  <2>1. PICK answered \in BOOLEAN :
          Become(p, t, [r EXCEPT !.stage = "told", !.about = IF answered THEN cookie ELSE None,
                                 !.on = answered /\ cookie \in enabled])
    BY <1>1 DEF ServerReads
  <2> DEFINE c == IF answered THEN cookie ELSE None
  <2>2. Become(p, t, [r EXCEPT !.stage = "told", !.about = c, !.on = FALSE])
    BY <2>1
  <2>3. Silent([r EXCEPT !.stage = "told", !.about = c, !.on = FALSE])
    BY <1>0 DEF Silent, Tasks, Opening
  <2> QED BY <1>1, <2>2, <2>3, BecomeSilent, SilentFrom DEF ServerReads
<1>2. CASE ServerEnables(p, t)
  <2>1. Advance(p, t, "told")  BY <1>2 DEF ServerEnables
  <2> QED BY <1>2, <1>a, <2>1, AdvanceSilent, SilentFrom DEF ServerEnables
<1>3. CASE ServerEndsSession(p, t)
  <2>1. r.kind = "signout"  BY <1>3 DEF ServerEndsSession, At
  <2> DEFINE rr == [r EXCEPT !.stage = "told", !.on = TRUE]
  <2>2. Silent(rr)  BY <1>0, <2>1 DEF Silent, Tasks, Opening
  <2>3. Become(p, t, rr) \/ Advance(p, t, "told")  BY <1>3 DEF ServerEndsSession
  <2> HIDE DEF rr
  <2>4. \A s \in Slots : Silent(task'[p][s])
    BY <1>a, <2>2, <2>3, BecomeSilent, AdvanceSilent
  <2> QED BY <1>3, <2>4, SilentFrom DEF ServerEndsSession
<1>4. CASE ProbeTold(p, t)
  <2>1. r.kind = "probe"  BY <1>4 DEF ProbeTold, At
  <2>2. ProbeAnswer(r) # "NeedsKey"  BY <1>b, <2>1 DEF ProbeAnswer
  <2>3. PICK s \in {"Unreachable", "Disabled"} : PublishIfCurrent(p, t, s, None)
    BY <1>4, <2>2 DEF ProbeTold
  <2>4. End(p, t) /\ (state'[p] = state[p] \/ state'[p] = s)
    BY <2>3, Published DEF PublishIfCurrent
  <2> QED BY <2>4, EndSilent, SilentFrom
<1>5. ~ProbeRestored(p, t) /\ ~UnlockStored(p, t) /\ ~SignInStored(p, t)
  BY <1>c DEF ProbeRestored, UnlockStored, SignInStored, At, Opening
<1>6. CASE PasskeyTold(p, t)
  BY <1>6, <1>a, EndSilent, AdvanceSilent, SilentFrom DEF PasskeyTold
<1>7. CASE PasskeyOpens(p, t) \/ TypedKeyOpens(p, t) \/ EnableTold(p, t)
  <2>1. ~r.on  BY <1>7, <1>b DEF PasskeyOpens, TypedKeyOpens, EnableTold, At
  <2>2. End(p, t) /\ UNCHANGED publication
    BY <1>7, <2>1 DEF PasskeyOpens, TypedKeyOpens, EnableTold
  <2> QED BY <2>2, EndSilent, SilentFrom
<1>8. CASE EnableKeyShown(p, t)
  BY <1>8, <1>a, AdvanceSilent, SilentFrom DEF EnableKeyShown
<1>9. CASE SignOutForgets(p, t)
  <2>1. \A s \in Slots : task'[p][s] =
          IF s = t THEN [r EXCEPT !.stage = "clearing", !.fresh = FALSE]
                   ELSE [task[p][s] EXCEPT !.fresh = FALSE]
    BY <1>9, TypeInvParts DEF SignOutForgets, TasksOK, TaskTable, ForgetDeviceKey
  <2>2. Silent([r EXCEPT !.stage = "clearing", !.fresh = FALSE])
    BY <1>0 DEF Silent, Tasks, Opening
  <2>3. ASSUME NEW s \in Slots PROVE Silent([task[p][s] EXCEPT !.fresh = FALSE])
    <3>1. task[p][s] \in Tasks /\ Silent(task[p][s])  BY InSlot DEF SilentInv
    <3> QED BY <3>1 DEF Silent, Tasks
  <2>4. \A s \in Slots : Silent(task'[p][s])  BY <2>1, <2>2, <2>3
  <2> QED BY <1>9, <2>4, SilentFrom DEF SignOutForgets
<1>10. CASE Cleared(p, t)
  BY <1>10, <1>a, EndSilent, AdvanceSilent, SilentFrom DEF Cleared
<1>11. CASE SignOutTold(p, t)
  <2>1. CASE r.on
    <3>1. \A s \in Slots : task'[p][s] \in {Idle, task[p][s]}
      BY <1>11, <2>1, TypeInvParts DEF SignOutTold, TasksOK, TaskTable
    <3>2. \A s \in Slots : Silent(task'[p][s])  BY <3>1, IdleIsSilent DEF SilentInv
    <3> QED BY <1>11, <3>2, SilentFrom DEF SignOutTold
  <2>2. CASE ~r.on
    BY <1>11, <2>2, IdleIsSilent, BecomeSilent, SilentFrom DEF SignOutTold
  <2> QED BY <2>1, <2>2
<1>12. CASE SignInTold(p, t)
  <2>1. Load(p, cookie)  BY <1>12, <1>b DEF SignInTold, At
  <2> QED BY <2>1, LoadSilent
<1> QED BY <1>1, <1>2, <1>3, <1>4, <1>5, <1>6, <1>7, <1>8, <1>9, <1>10, <1>11, <1>12,
           ServeSilent DEF TaskStep

\* No page says Locked or Unlocked while no account is encrypted: enabled only
\* grows, and until it does nothing a task holds leads to unlock.
LEMMA ClaimStep ==
  ASSUME TypeInv, ClaimInv, [Next]_vars
  PROVE  ClaimInv'
<1>1. CASE enabled' # {}  BY <1>1 DEF ClaimInv
<1>2. CASE enabled' = {}
  <2>1. enabled = {}  BY <1>2, EnabledGrows
  <2>2. ASSUME NEW p \in Pages PROVE SilentInv(p)'
    <3>0. SilentInv(p)  BY <2>1 DEF ClaimInv
    <3>1. CASE UNCHANGED Row(p)  BY <3>0, <3>1 DEF Row, SilentInv, Silent
    <3>2. CASE PageStep(p)
      <4>1. CASE RunEffect(p) \/ UnopenableRowSeen(p)
        BY <3>0, <4>1, StartProbeSilent DEF RunEffect, UnopenableRowSeen
      <4> QED BY <1>2, <2>1, <3>0, <3>2, <4>1, UserStepSilent, TaskStepSilent
              DEF PageStep
    <3>3. ASSUME NEW q \in Pages, q # p, PageStep(q) PROVE UNCHANGED Row(p)
      BY <3>3, OtherPages
    <3>4. \A u \in Users : EnabledElsewhere(u) => UNCHANGED Row(p)
      BY DEF EnabledElsewhere, pageVars, Row
    <3>5. UNCHANGED vars => UNCHANGED Row(p)  BY DEF vars, pageVars, Row
    <3> QED BY <3>1, <3>2, <3>3, <3>4, <3>5 DEF Next, PageStep
  <2> QED BY <2>2 DEF ClaimInv
<1> QED BY <1>1, <1>2

\* Locked and Unlocked are claims about the server: in a program with one account
\* no page makes them before the transaction that encrypts it has committed
\* (unlock parks at Locked only with a key a server's answer led to).  With two
\* accounts it is false: the answer may be about the other one.
THEOREM LockedIsEncrypted ==
  ASSUME \A u, v \in Users : u = v
  PROVE  Spec => []LockedMeansEncrypted
<1>1. Init => TypeInv /\ ClaimInv
  <2> SUFFICES ASSUME Init PROVE ClaimInv  BY InitType
  <2>1. \A p \in Pages : SilentInv(p)
    BY IdleIsSilent DEF Init, SilentInv, InitialState
  <2> QED BY <2>1 DEF ClaimInv
<1>2. TypeInv /\ ClaimInv /\ [Next]_vars => (TypeInv /\ ClaimInv)'
  BY NextType, ClaimStep
<1>3. TypeInv /\ ClaimInv => LockedMeansEncrypted
  <2> SUFFICES ASSUME TypeInv, ClaimInv, NEW p \in Pages, state[p] \in {"Locked", "Unlocked"},
                      user[p] # None
               PROVE  user[p] \in enabled
    BY DEF LockedMeansEncrypted
  <2>1. enabled # {} /\ enabled \subseteq Users
    BY TypeInvParts DEF ClaimInv, SilentInv, SharedOK
  <2>2. user[p] \in Users  BY TypeInvParts DEF IdentityOK, Somebody
  <2> QED BY <2>1, <2>2
<1> QED BY <1>1, <1>2, <1>3, PTL DEF Spec

-----------------------------------------------------------------------------
(* The session of a page.                                                  *)

\* The holder of the newest token has parked the page: a probe at Unknown, an unlock that
\* waits for the key store at Locked.
Probing == {"asking", "told", "reading", "read", "discarding", "discarded"}
Storing == {"storing", "stored", "clearing", "cleared"}
Parked(r, s) ==
  IF r.kind = "probe" THEN s = "Unknown" /\ r.stage \in Probing
  ELSE s = "Locked" /\ r.kind \in InPage /\ r.stage \in Storing

\* A page that was just loaded has done nothing yet; one that has followed a sign-out is
\* Disabled.
ParkInv(p) ==
  /\ \A t \in Slots : current[p] = t => Parked(task[p][t], state[p])
  /\ effect[p] /\ user[p] # None => state[p] = "Unknown" /\ \A t \in Slots : task[p][t] = Idle
  /\ user[p] = None /\ ~effect[p] => state[p] = "Disabled"

\* A step of the page is one of PageSession, or none.
Keeps(p) == Session(p)!Next \/ UNCHANGED <<user[p], state[p], reprobed[p]>>

Kept(p) == ParkInv(p)' /\ Keeps(p)

\* The page acts on a click, or goes on with something.
Awake(p) == Settled(p) \/ \E t \in Slots : task[p][t] # Idle

\* What an answer, a ceremony or a new request makes of the state, as PageSession has it.
LEMMA SessionAnswer ==
  ASSUME NEW p \in Pages, state[p] = "Unknown", state'[p] \in EncryptionStates,
         user'[p] = user[p], reprobed'[p] = reprobed[p]
  PROVE  Keeps(p)
<1>1. Session(p)!Answer
  BY DEF Session!Answer, EncryptionStates, Session!EncryptionStates
<1> QED
  BY <1>1 DEF Keeps, Session!Next

LEMMA SessionKey ==
  ASSUME NEW p \in Pages, user[p] # None, state'[p] \in {"Locked", "Unlocked"},
         user'[p] = user[p], reprobed'[p] = reprobed[p]
  PROVE  Keeps(p)
<1>1. Session(p)!KeyComesOrGoes
  BY DEF Session!KeyComesOrGoes
<1> QED
  BY <1>1 DEF Keeps, Session!Next

\* Steps that leave the session alone, and let go of the newest token or keep it parked.
LEMMA ParkKept ==
  ASSUME TypeInv, NEW p \in Pages, ParkInv(p), Awake(p), UNCHANGED <<identity, publication>>,
         \A t \in Slots : current'[p] = t =>
            current[p] = t /\ (Parked(task[p][t], state[p]) => Parked(task'[p][t], state[p]))
  PROVE  Kept(p)
<1>1. UNCHANGED <<user[p], effect[p], reprobed[p], state[p]>>
  BY DEF identity, publication
<1>2. ~(effect[p] /\ user[p] # None)
  BY DEF Awake, Settled, ParkInv
<1> QED
  BY <1>1, <1>2 DEF ParkInv, Kept, Keeps

LEMMA BecomeParked ==
  ASSUME TypeInv, NEW p \in Pages, ParkInv(p), Awake(p), UNCHANGED <<identity, publication>>,
         current' \in {current, [current EXCEPT ![p] = NoOne]},
         NEW t \in Slots, NEW r, Become(p, t, r),
         Parked(task[p][t], state[p]) => Parked(r, state[p])
  PROVE  Kept(p)
<1>1. current'[p] \in {current[p], NoOne}
  BY TypeInvParts DEF HolderOK
<1>2. \A s \in Slots : current'[p] = s => current[p] = s
  BY <1>1, TasksAssumption DEF NoOne, Slots
<1>3. \A s \in Slots : task'[p][s] = IF s = t THEN r ELSE task[p][s]
  BY BecomeSlots
<1> QED
  BY <1>2, <1>3, ParkKept

LEMMA AdvanceParked ==
  ASSUME TypeInv, NEW p \in Pages, ParkInv(p), UNCHANGED <<identity, publication, current>>,
         NEW t \in Slots, NEW g \in Stages, Advance(p, t, g), task[p][t] # Idle,
         IF task[p][t].kind = "probe" THEN g \in Probing
         ELSE task[p][t].kind \in InPage => task[p][t].stage \notin Storing \/ g \in Storing
  PROVE  Kept(p)
<1> DEFINE r == [task[p][t] EXCEPT !.stage = g]
<1>1. r.kind = task[p][t].kind /\ r.stage = g
  BY InSlot DEF Tasks
<1>2. Parked(task[p][t], state[p]) => Parked(r, state[p])
  BY <1>1 DEF Parked
<1>3. Become(p, t, r)
  BY DEF Advance
<1> HIDE DEF r
<1> QED
  BY <1>2, <1>3, BecomeParked DEF Awake

LEMMA EndParked ==
  ASSUME TypeInv, NEW p \in Pages, ParkInv(p), Awake(p), UNCHANGED <<identity, publication>>,
         NEW t \in Slots, End(p, t)
  PROVE  Kept(p)
<1>1. \A s \in Slots : current'[p] = s => current[p] = s /\ task'[p][s] = task[p][s]
  BY EndSlots, TasksAssumption DEF NoOne, Slots
<1> QED
  BY <1>1, ParkKept

\* A new task in a free slot has no token to hold.
LEMMA StartParked ==
  ASSUME TypeInv, NEW p \in Pages, ParkInv(p), Settled(p), UNCHANGED <<identity, publication>>,
         current' \in {current, [current EXCEPT ![p] = NoOne]},
         NEW t \in Slots, Free(p, t), NEW r, Become(p, t, r)
  PROVE  Kept(p)
<1>1. ~Parked(task[p][t], state[p])
  BY DEF Free, Parked, Idle, InPage
<1> QED
  BY <1>1, BecomeParked DEF Awake

LEMMA ForgetParked ==
  ASSUME TypeInv, NEW p \in Pages, ParkInv(p), NEW t \in Slots, NEW r \in Tasks,
         ForgetDeviceKey(p, t, r), task[p][t] # Idle,
         r.kind = task[p][t].kind, r.kind # "probe",
         UNCHANGED <<identity, publication, current>>
  PROVE  Kept(p)
<1>1. ASSUME NEW s \in Slots, Parked(task[p][s], state[p]) PROVE Parked(task'[p][s], state[p])
  <2>1. task'[p][s].kind = task[p][s].kind
    BY ForgetSlots
  <2>2. task'[p][s].stage = IF s = t THEN "clearing" ELSE task[p][s].stage
    BY ForgetSlots
  <2> QED
    BY <1>1, <2>1, <2>2 DEF Parked, Storing
<1> QED
  BY <1>1, ParkKept DEF Awake

\* Only the newest answer publishes, over the state it parked the page at.
LEMMA PublishParked ==
  ASSUME TypeInv, NEW p \in Pages, ParkInv(p), NEW t \in Slots, task[p][t] # Idle,
         NEW s \in EncryptionStates, NEW k, PublishIfCurrent(p, t, s, k), UNCHANGED identity,
         task[p][t].kind = "probe" \/ (user[p] # None /\ s = "Unlocked")
  PROVE  Kept(p)
<1>0. End(p, t) /\ UNCHANGED <<user[p], effect[p], reprobed[p]>>
  BY DEF PublishIfCurrent, identity
<1>1. CASE current[p] # t
  <2>1. UNCHANGED publication
    BY <1>1 DEF PublishIfCurrent
  <2> QED
    BY <1>0, <2>1, EndParked DEF Awake
<1>2. CASE current[p] = t
  <2>1. state'[p] = s
    BY <1>2, Published DEF PublishIfCurrent
  <2>2. \A x \in Slots : current'[p] # x
    BY <1>0, <1>2, EndSlots, TasksAssumption DEF NoOne, Slots
  <2>3. Parked(task[p][t], state[p])
    BY <1>2 DEF ParkInv
  <2>4. ~(effect[p] /\ user[p] # None) /\ ~(user[p] = None /\ ~effect[p])
    BY <2>3 DEF ParkInv, Parked
  <2>5. ParkInv(p)'
    BY <1>0, <2>2, <2>4 DEF ParkInv
  <2>6. CASE task[p][t].kind = "probe"
    BY <1>0, <2>1, <2>3, <2>5, <2>6, SessionAnswer DEF Parked, Kept
  <2>7. CASE user[p] # None /\ s = "Unlocked"
    BY <1>0, <2>1, <2>5, <2>7, SessionKey DEF Kept
  <2> QED
    BY <2>6, <2>7
<1> QED
  BY <1>1, <1>2

\* A ceremony parks the page at Locked and waits, or unlocks it; a key of an account that
\* has left changes nothing.
LEMMA UnlockParked ==
  ASSUME TypeInv, NEW p \in Pages, ParkInv(p), NEW t \in Slots, task[p][t].kind \in InPage,
         NEW k \in Keys, Unlock(p, t, k), UNCHANGED identity
  PROVE  Kept(p)
<1>0. task[p][t] # Idle /\ UNCHANGED <<user[p], effect[p], reprobed[p]>>
  BY DEF Idle, InPage, identity
<1>1. CASE k.user # user[p]
  <2>1. End(p, t) /\ UNCHANGED publication
    BY <1>1 DEF Unlock
  <2> QED
    BY <1>0, <2>1, EndParked DEF Awake
<1>2. CASE k.user = user[p]
  <2>1. user[p] # None
    BY <1>2, UsersAssumption DEF Keys
  <2>2. ~effect[p]
    BY <1>0, <2>1 DEF ParkInv
  <2>3. CASE UnlockStores(p, t, k)
    <3>1. state'[p] = "Locked"
      BY <2>3, Published DEF UnlockStores
    <3> DEFINE r == [task[p][t] EXCEPT !.stage = "storing", !.key = k]
    <3>2. r.kind = task[p][t].kind /\ r.stage = "storing"
      BY InSlot DEF Tasks
    <3>3. task'[p][t] = r
      BY <2>3, BecomeSlots DEF UnlockStores
    <3>4. Parked(task'[p][t], state'[p])
      BY <3>1, <3>2, <3>3 DEF Parked, InPage, Storing
    <3>5. current'[p] = t
      BY <2>3, TypeInvParts DEF UnlockStores, HolderOK
    <3>6. ~effect'[p] /\ user'[p] # None
      BY <1>0, <2>1, <2>2
    <3>7. ParkInv(p)'
      BY <3>4, <3>5, <3>6 DEF ParkInv
    <3> QED
      BY <1>0, <2>1, <3>1, <3>7, SessionKey DEF Kept
  <2>4. CASE UnlockUnremembered(p, t, k)
    <3>1. state'[p] = "Unlocked"
      BY <2>4, Published DEF UnlockUnremembered
    <3>2. \A x \in Slots : current'[p] # x
      BY <2>4, TypeInvParts, TasksAssumption DEF UnlockUnremembered, HolderOK, NoOne, Slots
    <3> QED
      BY <1>0, <2>1, <2>2, <3>1, <3>2, SessionKey DEF ParkInv, Kept
  <2> QED
    BY <1>2, <2>3, <2>4 DEF Unlock
<1> QED
  BY <1>1, <1>2

\* A request parks the page at Unknown, or finds nobody signed in.
LEMMA StartProbeParked ==
  ASSUME TypeInv, NEW p \in Pages, StartProbe(p, "Unknown"), user'[p] = user[p], ~effect'[p]
  PROVE  /\ ParkInv(p)'
         /\ state'[p] = IF user[p] = None THEN "Disabled" ELSE "Unknown"
<1>1. CASE user[p] = None
  <2>1. state'[p] = "Disabled"
    BY <1>1, Published DEF StartProbe
  <2>2. \A x \in Slots : current'[p] # x
    BY <1>1, TypeInvParts, TasksAssumption DEF StartProbe, HolderOK, NoOne, Slots
  <2> QED
    BY <1>1, <2>1, <2>2 DEF ParkInv
<1>2. CASE user[p] # None
  <2>1. PICK t \in Slots : /\ current' = [current EXCEPT ![p] = t]
                           /\ Become(p, t, NewTask("probe", "asking", user[p], FALSE))
    BY <1>2 DEF StartProbe
  <2>2. state'[p] = "Unknown"
    BY <1>2, Published DEF StartProbe
  <2>3. current'[p] = t
    BY <2>1, TypeInvParts DEF HolderOK
  <2> DEFINE r == NewTask("probe", "asking", user[p], FALSE)
  <2>4. r.kind = "probe" /\ r.stage = "asking" /\ Become(p, t, r)
    BY <2>1 DEF NewTask, Idle
  <2> HIDE DEF r
  <2>5. task'[p][t].kind = "probe" /\ task'[p][t].stage = "asking"
    BY <2>4, BecomeSlots
  <2> QED
    BY <1>2, <2>2, <2>3, <2>5 DEF ParkInv, Parked, Probing
<1> QED
  BY <1>1, <1>2

LEMMA LoadParked ==
  ASSUME TypeInv, NEW p \in Pages, NEW u \in Somebody, Load(p, u)
  PROVE  Kept(p)
<1>1. state'[p] = InitialState(u)
  BY Published DEF Load
<1>2. user'[p] = u /\ effect'[p] /\ reprobed'[p] = FALSE
  BY TypeInvParts DEF Load, IdentityOK
<1>3. \A x \in Slots : current'[p] # x
  BY TypeInvParts, TasksAssumption DEF Load, HolderOK, NoOne, Slots
<1>4. \A x \in Slots : task'[p][x] = Idle
  BY TypeInvParts DEF Load, TasksOK, TaskTable
<1>5. Session(p)!Load(u)
  BY <1>1, <1>2 DEF Session!Load, InitialState
<1>6. ParkInv(p)'
  BY <1>1, <1>2, <1>3, <1>4 DEF ParkInv, InitialState
<1> QED
  BY <1>5, <1>6 DEF Kept, Keeps, Session!Next, Session!Somebody, Somebody

-----------------------------------------------------------------------------

\* The effect, and the requests a page makes once more.
LEMMA ProbeStepsParked ==
  ASSUME TypeInv, NEW p \in Pages, ParkInv(p), RunEffect(p) \/ Retry(p) \/ UnopenableRowSeen(p)
  PROVE  Kept(p)
<1>1. CASE RunEffect(p)
  <2>1. StartProbe(p, "Unknown") /\ user'[p] = user[p] /\ reprobed'[p] = reprobed[p] /\ ~effect'[p]
    BY <1>1, TypeInvParts DEF RunEffect, IdentityOK
  <2>2. ParkInv(p)' /\ state'[p] = IF user[p] = None THEN "Disabled" ELSE "Unknown"
    BY <2>1, StartProbeParked
  <2>3. CASE user[p] = None
    <3>1. Session(p)!FollowSignOut
      BY <2>1, <2>2, <2>3 DEF Session!FollowSignOut
    <3> QED
      BY <2>2, <3>1 DEF Kept, Keeps, Session!Next
  <2>4. CASE user[p] # None
    <3>1. state[p] = "Unknown"
      BY <1>1, <2>4 DEF ParkInv, RunEffect
    <3> QED
      BY <2>1, <2>2, <2>4, <3>1 DEF Kept, Keeps
  <2> QED
    BY <2>3, <2>4
<1>2. CASE Retry(p)
  <2>1. StartProbe(p, "Unknown") /\ UNCHANGED <<user[p], reprobed[p]>> /\ ~effect'[p] /\ user[p] # None
    BY <1>2 DEF Retry, identity, Settled
  <2>2. ParkInv(p)' /\ state'[p] = "Unknown"
    BY <2>1, StartProbeParked
  <2>3. Session(p)!Retry
    BY <1>2, <2>1, <2>2 DEF Retry, Session!Retry
  <2> QED
    BY <2>2, <2>3 DEF Kept, Keeps, Session!Next
<1>3. CASE UnopenableRowSeen(p)
  <2>1. StartProbe(p, "Unknown") /\ user'[p] = user[p] /\ ~effect'[p] /\ user[p] # None /\ reprobed'[p]
    BY <1>3, TypeInvParts DEF UnopenableRowSeen, Settled, IdentityOK
  <2>2. ParkInv(p)' /\ state'[p] = "Unknown"
    BY <2>1, StartProbeParked
  <2>3. reprobed'[p] = TRUE
    BY <1>3, TypeInvParts DEF UnopenableRowSeen, IdentityOK
  <2>4. Session(p)!Reprobe
    BY <1>3, <2>1, <2>2, <2>3 DEF UnopenableRowSeen, Session!Reprobe
  <2> QED
    BY <2>2, <2>4 DEF Kept, Keeps, Session!Next
<1> QED
  BY <1>1, <1>2, <1>3

\* The probe's answers.
LEMMA ProbeAnswersParked ==
  ASSUME TypeInv, NEW p \in Pages, ParkInv(p), NEW t \in Slots, ProbeTold(p, t) \/ ProbeRestored(p, t)
  PROVE  Kept(p)
<1>1. task[p][t].kind = "probe" /\ task[p][t] # Idle /\ UNCHANGED identity
  BY DEF ProbeTold, ProbeRestored, At, Idle
<1>2. {"Unreachable", "Disabled", "Locked", "Unlocked"} \subseteq EncryptionStates /\ "reading" \in Stages
  BY DEF EncryptionStates, Stages
<1>3. ASSUME NEW s \in {"Unreachable", "Disabled", "Locked", "Unlocked"}, NEW k, PublishIfCurrent(p, t, s, k)
      PROVE  Kept(p)
  BY <1>1, <1>2, <1>3, PublishParked
<1>4. ASSUME Advance(p, t, "reading"), UNCHANGED <<publication, current>> PROVE Kept(p)
  BY <1>1, <1>2, <1>4, AdvanceParked DEF Probing
<1>5. ASSUME Become(p, t, [task[p][t] EXCEPT !.stage = "discarding", !.key = None]), UNCHANGED <<publication, current>>
      PROVE  Kept(p)
  <2> DEFINE r == [task[p][t] EXCEPT !.stage = "discarding", !.key = None]
  <2>1. r.kind = "probe" /\ r.stage = "discarding"
    BY <1>1, InSlot DEF Tasks
  <2>2. Parked(task[p][t], state[p]) => Parked(r, state[p])
    BY <1>1, <2>1 DEF Parked, Probing
  <2>3. Become(p, t, r)
    BY <1>5
  <2> HIDE DEF r
  <2> QED
    BY <1>1, <1>5, <2>2, <2>3, BecomeParked DEF Awake
<1>6. CASE ProbeTold(p, t)
  BY <1>3, <1>4, <1>6 DEF ProbeTold
<1>7. CASE ProbeRestored(p, t)
  BY <1>3, <1>5, <1>7 DEF ProbeRestored
<1> QED
  BY <1>6, <1>7
\* Tasks that ask the server, or wait for an answer or the authenticator.
LEMMA WaitingStepsParked ==
  ASSUME TypeInv, NEW p \in Pages, ParkInv(p), NEW t \in Slots
  PROVE  /\ ServerReads(p, t) => Kept(p)
         /\ ServerEnables(p, t) => Kept(p)
         /\ ServerEndsSession(p, t) => Kept(p)
         /\ AuthenticatorSigns(p, t) => Kept(p)
         /\ PasskeyTold(p, t) \/ EnableKeyShown(p, t) \/ ConfirmNewKey(p, t) => Kept(p)
         /\ Cleared(p, t) \/ Abandon(p, t) => Kept(p)
<1>0. /\ task[p][t] \in Tasks /\ Idle.stage = "idle" /\ Idle.kind = "none"
      /\ {"told", "asserting", "asserted", "showing", "asking"} \subseteq Stages
  BY InSlot DEF Idle, Stages
\* A task that does not wait for the key store has no token but a probe's.
<1>1. ASSUME NEW r, Become(p, t, r), UNCHANGED <<identity, publication, current>>,
             r.kind = task[p][t].kind,
             task[p][t].stage \notin Storing \cup {"idle"} \/ task[p][t].kind = "signout",
             task[p][t].kind = "probe" => r.stage \in Probing
      PROVE  Kept(p)
  <2>1. Parked(task[p][t], state[p]) => Parked(r, state[p])
    BY <1>1 DEF Parked, InPage
  <2>2. task[p][t] # Idle
    BY <1>0, <1>1
  <2> QED
    BY <1>1, <2>1, <2>2, BecomeParked DEF Awake
<1>2. ASSUME NEW g \in Stages, Advance(p, t, g), UNCHANGED <<identity, publication, current>>,
             task[p][t].kind # "probe",
             task[p][t].stage \notin Storing \cup {"idle"} \/ task[p][t].kind = "signout"
      PROVE  Kept(p)
  <2> DEFINE r == [task[p][t] EXCEPT !.stage = g]
  <2>1. r.kind = task[p][t].kind
    BY <1>0 DEF Tasks
  <2>2. Become(p, t, r)
    BY <1>2 DEF Advance
  <2> HIDE DEF r
  <2> QED
    BY <1>1, <1>2, <2>1, <2>2
<1>3. ASSUME ServerReads(p, t) PROVE Kept(p)
  <2>1. PICK answered \in BOOLEAN :
          Become(p, t, [task[p][t] EXCEPT !.stage = "told",
                         !.about = IF answered THEN cookie ELSE None,
                         !.on = answered /\ cookie \in enabled])
    BY <1>3, Zenon DEF ServerReads
  <2> DEFINE a == IF answered THEN cookie ELSE None
             b == answered /\ cookie \in enabled
             r == [task[p][t] EXCEPT !.stage = "told", !.about = a, !.on = b]
  <2>2. r.kind = task[p][t].kind /\ r.stage = "told"
    BY <1>0 DEF Tasks
  <2>3. UNCHANGED <<identity, publication, current>>
    BY <1>3 DEF ServerReads
  <2>4. task[p][t].stage = "asking"
    BY <1>3 DEF ServerReads, At
  <2>5. Become(p, t, r)
    BY <2>1
  <2> HIDE DEF r
  <2> QED
    BY <1>1, <2>2, <2>3, <2>4, <2>5 DEF Storing, Probing
<1>4. ASSUME ServerEnables(p, t) PROVE Kept(p)
  <2>1. UNCHANGED <<identity, publication, current>>
    BY <1>4, Zenon DEF ServerEnables
  <2>2. task[p][t].kind = "enable" /\ task[p][t].stage = "asking"
    BY <1>4, Zenon DEF ServerEnables, At
  <2>3. CASE Advance(p, t, "told")
    BY <1>0, <1>2, <2>1, <2>2, <2>3 DEF Storing
  <2>4. ASSUME NEW b \in BOOLEAN,
               Become(p, t, [task[p][t] EXCEPT !.stage = "told", !.about = cookie, !.on = b])
        PROVE  Kept(p)
    <3> DEFINE r == [task[p][t] EXCEPT !.stage = "told", !.about = cookie, !.on = b]
    <3>1. r.kind = task[p][t].kind
      BY <1>0 DEF Tasks
    <3>2. Become(p, t, r)
      BY <2>4
    <3> HIDE DEF r
    <3> QED
      BY <1>1, <2>1, <2>2, <3>1, <3>2 DEF Storing
  <2> QED
    BY <1>4, <2>3, <2>4, Zenon DEF ServerEnables
<1>5. ASSUME ServerEndsSession(p, t) PROVE Kept(p)
  <2>1. UNCHANGED <<identity, publication, current>>
    BY <1>5 DEF ServerEndsSession
  <2>2. task[p][t].kind = "signout" /\ task[p][t].stage = "asking"
    BY <1>5 DEF ServerEndsSession, At
  <2> DEFINE r == [task[p][t] EXCEPT !.stage = "told", !.on = TRUE]
  <2>3. r.kind = task[p][t].kind
    BY <1>0 DEF Tasks
  <2>4. Become(p, t, r) \/ Advance(p, t, "told")
    BY <1>5 DEF ServerEndsSession
  <2> HIDE DEF r
  <2> QED
    BY <1>0, <1>1, <1>2, <2>1, <2>2, <2>3, <2>4
<1>6. ASSUME AuthenticatorSigns(p, t) PROVE Kept(p)
  <2>1. UNCHANGED <<identity, publication, current>>
    BY <1>6 DEF AuthenticatorSigns
  <2>2. task[p][t].kind # "probe" /\ task[p][t].stage = "asserting"
    BY <1>6 DEF AuthenticatorSigns, At
  <2> DEFINE r == [task[p][t] EXCEPT !.stage = "asking", !.fresh = TRUE]
  <2>3. r.kind = task[p][t].kind
    BY <1>0 DEF Tasks
  <2>4. Become(p, t, r) \/ Advance(p, t, "asserted")
    BY <1>6 DEF AuthenticatorSigns
  <2> HIDE DEF r
  <2> QED
    BY <1>0, <1>1, <1>2, <2>1, <2>2, <2>3, <2>4 DEF Storing
<1>7. ASSUME PasskeyTold(p, t) \/ EnableKeyShown(p, t) \/ ConfirmNewKey(p, t) PROVE Kept(p)
  <2>1. UNCHANGED <<identity, publication>>
    BY <1>7 DEF PasskeyTold, EnableKeyShown, ConfirmNewKey
  <2>2. task[p][t].stage \in {"told", "asserted", "showing"} /\ task[p][t].kind # "probe"
    BY <1>7 DEF PasskeyTold, EnableKeyShown, ConfirmNewKey, At
  <2>3. \/ End(p, t)
        \/ UNCHANGED current /\ \E g \in {"asserting", "showing", "asking"} : Advance(p, t, g)
    BY <1>7 DEF PasskeyTold, EnableKeyShown, ConfirmNewKey
  <2>4. CASE End(p, t)
    BY <1>0, <2>1, <2>2, <2>4, EndParked DEF Awake
  <2>5. ASSUME NEW g \in {"asserting", "showing", "asking"}, Advance(p, t, g), UNCHANGED current
        PROVE  Kept(p)
    BY <1>0, <1>2, <2>1, <2>2, <2>5 DEF Storing
  <2> QED
    BY <2>3, <2>4, <2>5
<1>8. ASSUME Cleared(p, t) \/ Abandon(p, t) PROVE Kept(p)
  <2>1. UNCHANGED <<identity, publication>>
    BY <1>8 DEF Cleared, Abandon
  <2>2. task[p][t] # Idle
    BY <1>0, <1>8 DEF Cleared, Abandon, At
  <2>3. End(p, t) \/ (UNCHANGED current /\ Advance(p, t, "asking") /\ task[p][t].kind = "signout")
    BY <1>8 DEF Cleared, Abandon
  <2>4. CASE End(p, t)
    BY <2>1, <2>2, <2>4, EndParked DEF Awake
  <2> QED
    BY <1>0, <1>2, <2>1, <2>3, <2>4
<1> QED
  BY <1>3, <1>4, <1>5, <1>6, <1>7, <1>8

\* Ceremonies start, and end in unlock or in its awaited half.
LEMMA UnlockStepsParked ==
  ASSUME TypeInv, NEW p \in Pages, ParkInv(p)
  PROVE  /\ \A kind : StartUnlock(p, kind) \/ StartEnable(p, kind) => Kept(p)
         /\ \A u : StartSignIn(p, u) => Kept(p)
         /\ \A t \in Slots : PasskeyOpens(p, t) \/ TypedKeyOpens(p, t) => Kept(p)
         /\ \A t \in Slots : OfferAnswered(p, t) \/ EnableTold(p, t) => Kept(p)
         /\ \A t \in Slots : UnlockStored(p, t) => Kept(p)
<1>0. \A t \in Slots : task[p][t] \in Tasks /\ GoodTask(task[p][t])
  BY InSlot
<1>1. ASSUME NEW kind, StartUnlock(p, kind) \/ StartEnable(p, kind) PROVE Kept(p)
  <2>1. /\ Settled(p) /\ UNCHANGED <<identity, publication, current>>
        /\ \E t \in Slots : \E r : Free(p, t) /\ Become(p, t, r)
    BY <1>1 DEF StartUnlock, StartEnable
  <2> QED
    BY <2>1, StartParked
<1>2. ASSUME NEW u, StartSignIn(p, u) PROVE Kept(p)
  <2>1. /\ Settled(p) /\ UNCHANGED <<identity, publication, current>>
        /\ \E t \in Slots : \E r : Free(p, t) /\ Become(p, t, r)
    BY <1>2 DEF StartSignIn
  <2> QED
    BY <2>1, StartParked
<1>3. ASSUME NEW t \in Slots, PasskeyOpens(p, t) PROVE Kept(p)
  <2> DEFINE u == task[p][t].user
             k == [user |-> u, opens |-> u]
  <2>1. UNCHANGED identity /\ task[p][t].kind = "passkey" /\ task[p][t] # Idle
    BY <1>3 DEF PasskeyOpens, At, Idle
  <2>2. k \in Keys
    BY <1>0, <2>1 DEF GoodTask, Attributed, Keys
  <2>3. (End(p, t) /\ UNCHANGED publication) \/ Unlock(p, t, k)
    BY <1>3 DEF PasskeyOpens
  <2> QED
    BY <2>1, <2>2, <2>3, EndParked, UnlockParked DEF InPage, Awake
<1>4. ASSUME NEW t \in Slots, TypedKeyOpens(p, t) PROVE Kept(p)
  <2>1. /\ UNCHANGED <<identity, publication>> /\ task[p][t].kind = "typed"
        /\ task[p][t].stage = "told" /\ task[p][t] # Idle
    BY <1>4 DEF TypedKeyOpens, At, Idle
  <2>2. CASE End(p, t)
    BY <2>1, <2>2, EndParked DEF Awake
  <2>3. CASE ~End(p, t)
    <3>1. UNCHANGED current
      BY <1>4, <2>3 DEF TypedKeyOpens
    <3>2. \A s \in Slots : s = t \/ task[p][s].stage = "offered" \/ task'[p][s] = task[p][s]
      BY <1>4, <2>3, TypeInvParts DEF TypedKeyOpens, TasksOK, TaskTable
    <3>4. \A s \in Slots : Parked(task[p][s], state[p]) => task'[p][s] = task[p][s]
      BY <2>1, <3>2 DEF Parked, Probing, Storing
    <3> QED
      BY <2>1, <3>1, <3>4, ParkKept DEF Awake
  <2> QED
    BY <2>2, <2>3
<1>5. ASSUME NEW t \in Slots, OfferAnswered(p, t) PROVE Kept(p)
  <2>1. UNCHANGED identity /\ task[p][t].kind = "typed" /\ Unlock(p, t, task[p][t].key)
    BY <1>5 DEF OfferAnswered, At
  <2>2. task[p][t].key \in Keys
    BY <1>0, <1>5 DEF OfferAnswered, At, GoodTask, Keyed
  <2> QED
    BY <2>1, <2>2, UnlockParked DEF InPage
<1>6. ASSUME NEW t \in Slots, EnableTold(p, t) PROVE Kept(p)
  <2> DEFINE r == task[p][t]
             k == [user |-> r.user, opens |-> r.about]
  <2>1. UNCHANGED identity /\ r.kind = "enable" /\ r # Idle
    BY <1>6 DEF EnableTold, At, Idle
  <2>2. (End(p, t) /\ UNCHANGED publication) \/ (r.on /\ Unlock(p, t, k))
    BY <1>6 DEF EnableTold
  <2>3. r.on => k \in Keys
    BY <1>0, <2>1 DEF GoodTask, Attributed, Keys
  <2> QED
    BY <2>1, <2>2, <2>3, EndParked, UnlockParked DEF InPage, Awake
<1>7. ASSUME NEW t \in Slots, UnlockStored(p, t) PROVE Kept(p)
  <2>1. /\ UNCHANGED identity /\ task[p][t].kind \in InPage /\ task[p][t].stage = "stored"
        /\ task[p][t] # Idle /\ task[p][t].kind # "probe"
    BY <1>7 DEF UnlockStored, At, Idle, InPage
  <2>2. CASE /\ ForgetDeviceKey(p, t, [task[p][t] EXCEPT !.key = None])
             /\ UNCHANGED <<publication, current>>
    <3> DEFINE r == [task[p][t] EXCEPT !.key = None]
    <3>1. r \in Tasks /\ r.kind = task[p][t].kind
      BY <1>0 DEF Tasks
    <3> HIDE DEF r
    <3> QED
      BY <2>1, <2>2, <3>1, ForgetParked DEF r
  <2>3. CASE task[p][t].key.user = user[p] /\ PublishIfCurrent(p, t, "Unlocked", task[p][t].key)
    <3>1. user[p] # None
      BY <1>0, <2>1, <2>3, UsersAssumption DEF GoodTask, Keyed, Keys
    <3>2. "Unlocked" \in EncryptionStates
      BY DEF EncryptionStates
    <3> QED
      BY <2>1, <2>3, <3>1, <3>2, PublishParked
  <2> QED
    BY <1>7, <2>2, <2>3 DEF UnlockStored
<1> QED
  BY <1>1, <1>2, <1>3, <1>4, <1>5, <1>6, <1>7

\* Locking, signing out, signing in and reloading, and the key store's answers.
LEMMA PageStepsParked ==
  ASSUME TypeInv, NEW p \in Pages, ParkInv(p)
  PROVE  /\ LockNow(p) \/ SignOut(p) \/ Reload(p) => Kept(p)
         /\ \A u \in Users : SignInByLink(p, u) => Kept(p)
         /\ \A t \in Slots : SignOutForgets(p, t) \/ SignOutTold(p, t) => Kept(p)
         /\ \A t \in Slots : SignInTold(p, t) \/ ServeKeystore(p, t) => Kept(p)
<1>0. /\ \A t \in Slots : task[p][t] \in Tasks
      /\ Idle.stage = "idle" /\ Idle.kind = "none" /\ cookie \in Somebody
  BY InSlot, TypeInvParts DEF Idle, SharedOK
<1>1. ASSUME LockNow(p) PROVE Kept(p)
  <2>1. state'[p] = "Locked" /\ user[p] # None /\ ~effect[p]
    BY <1>1, Published DEF LockNow, Settled
  <2>2. UNCHANGED <<user[p], effect[p], reprobed[p]>>
    BY <1>1 DEF LockNow, identity
  <2>3. \A x \in Slots : current'[p] # x
    BY <1>1, TypeInvParts, TasksAssumption DEF LockNow, HolderOK, NoOne, Slots
  <2> QED
    BY <2>1, <2>2, <2>3, SessionKey DEF ParkInv, Kept
<1>2. ASSUME SignOut(p) PROVE Kept(p)
  <2>1. /\ Settled(p) /\ UNCHANGED <<identity, publication>>
        /\ current' = [current EXCEPT ![p] = NoOne]
        /\ \E t \in Slots : \E r : Free(p, t) /\ Become(p, t, r)
    BY <1>2 DEF SignOut
  <2> QED
    BY <2>1, StartParked
<1>3. Reload(p) => Kept(p)
  BY <1>0, LoadParked DEF Reload
<1>4. ASSUME NEW u \in Users, SignInByLink(p, u) PROVE Kept(p)
  BY <1>4, LoadParked DEF SignInByLink, Somebody
<1>5. ASSUME NEW t \in Slots, SignOutForgets(p, t) PROVE Kept(p)
  <2>1. task[p][t].kind = "signout" /\ ForgetDeviceKey(p, t, task[p][t])
        /\ UNCHANGED <<identity, publication, current>>
    BY <1>5 DEF SignOutForgets, At
  <2> QED
    BY <1>0, <2>1, ForgetParked
<1>6. ASSUME NEW t \in Slots, SignOutTold(p, t) PROVE Kept(p)
  <2>1. /\ task[p][t].kind = "signout" /\ task[p][t] # Idle
        /\ UNCHANGED <<publication, current>> /\ UNCHANGED <<state[p], current[p], reprobed[p]>>
    BY <1>0, <1>6 DEF SignOutTold, At, publication
  <2>2. ~Parked(task[p][t], state[p])
    BY <2>1 DEF Parked, InPage
  <2>3. CASE task[p][t].on
    <3>1. user'[p] = None /\ effect'[p]
      BY <1>6, <2>3, TypeInvParts DEF SignOutTold, IdentityOK
    <3>2. \A s \in Slots : task'[p][s] =
            IF s = t \/ task[p][s].stage \in {"offered", "showing"} THEN Idle ELSE task[p][s]
      BY <1>6, <2>3, TypeInvParts DEF SignOutTold, TasksOK, TaskTable
    <3>3. \A s \in Slots : s # t /\ Parked(task[p][s], state[p]) => task'[p][s] = task[p][s]
      BY <3>2 DEF Parked, Probing, Storing
    <3>4. ParkInv(p)'
      BY <2>1, <2>2, <3>1, <3>3 DEF ParkInv
    <3>5. CASE user[p] = None
      BY <2>1, <3>1, <3>4, <3>5 DEF Kept, Keeps
    <3>6. CASE user[p] # None
      <4>1. Session(p)!SignOut
        BY <2>1, <3>1, <3>6 DEF Session!SignOut
      <4> QED
        BY <3>4, <4>1 DEF Kept, Keeps, Session!Next
    <3> QED
      BY <3>5, <3>6
  <2>4. CASE ~task[p][t].on
    <3>1. Become(p, t, Idle) /\ UNCHANGED identity
      BY <1>6, <2>4 DEF SignOutTold, identity
    <3> QED
      BY <2>1, <2>2, <3>1, BecomeParked DEF Awake
  <2> QED
    BY <2>3, <2>4
<1>7. ASSUME NEW t \in Slots, SignInTold(p, t) PROVE Kept(p)
  <2>1. CASE Load(p, cookie)
    BY <1>0, <2>1, LoadParked
  <2>2. CASE ~Load(p, cookie)
    <3> DEFINE r == task[p][t]
               rr == [r EXCEPT !.stage = "storing", !.key = [user |-> r.about, opens |-> r.user]]
    <3>1. /\ r.kind = "signin" /\ Become(p, t, rr)
          /\ UNCHANGED <<identity, publication, current>>
      BY <1>7, <2>2 DEF SignInTold, At
    <3>2. r # Idle /\ ~Parked(r, state[p])
      BY <1>0, <3>1 DEF Parked, InPage
    <3> HIDE DEF rr
    <3> QED
      BY <3>1, <3>2, BecomeParked DEF Awake
  <2> QED
    BY <2>1, <2>2
<1>8. ASSUME NEW h \in Slots, ServeKeystore(p, h) PROVE Kept(p)
  <2> DEFINE r == task[p][h]
             Served(g) == [r EXCEPT !.stage = g]
  <2>1. UNCHANGED <<identity, publication, current>>
    BY <1>8 DEF ServeKeystore
  <2>2. r \in Tasks
    BY <1>0
\* A request that is served leaves its task waiting for the answer, parked as it was.
  <2>3. ASSUME NEW rr, Become(p, h, rr), rr.kind = r.kind,
               \/ r.stage = "storing" /\ rr.stage = "stored"
               \/ r.stage = "reading" /\ rr.stage = "read"
               \/ r.stage = "clearing" /\ rr.stage = "cleared"
               \/ r.stage = "discarding" /\ rr.stage = "discarded"
        PROVE  Kept(p)
    <3>1. Parked(r, state[p]) => Parked(rr, state[p])
      BY <2>3 DEF Parked, Probing, Storing
    <3>2. r # Idle
      BY <1>0, <2>3
    <3> QED
      BY <2>1, <2>3, <3>1, <3>2, BecomeParked DEF Awake
  <2>4. ASSUME NEW g, Advance(p, h, g),
               \/ r.stage = "storing" /\ g = "stored"
               \/ r.stage = "clearing" /\ g = "cleared"
               \/ r.stage = "discarding" /\ g = "discarded"
        PROVE  Kept(p)
    <3>1. Served(g).kind = r.kind /\ Served(g).stage = g
      BY <2>2 DEF Tasks
    <3>2. Become(p, h, Served(g))
      BY <2>4 DEF Advance
    <3> HIDE DEF Served
    <3> QED
      BY <2>3, <2>4, <3>1, <3>2
  <2>5. ASSUME NEW k, Become(p, h, [r EXCEPT !.stage = "read", !.key = k]), r.stage = "reading"
        PROVE  Kept(p)
    <3> DEFINE rr == [r EXCEPT !.stage = "read", !.key = k]
    <3>1. rr.kind = r.kind /\ rr.stage = "read"
      BY <2>2 DEF Tasks
    <3>2. Become(p, h, rr)
      BY <2>5
    <3> HIDE DEF rr
    <3> QED
      BY <2>3, <2>5, <3>1, <3>2
  <2>6. PICK served \in BOOLEAN :
          \/ r.stage = "storing" /\ Advance(p, h, "stored")
          \/ r.stage = "reading"
             /\ Become(p, h, [r EXCEPT !.stage = "read", !.key = IF served THEN record ELSE None])
          \/ r.stage \in {"clearing", "discarding"}
             /\ Advance(p, h, IF r.stage = "clearing" THEN "cleared" ELSE "discarded")
    BY <1>8, Zenon DEF ServeKeystore
  <2>7. CASE r.stage = "storing" /\ Advance(p, h, "stored")
    BY <2>4, <2>7
  <2>8. CASE r.stage = "reading"
             /\ Become(p, h, [r EXCEPT !.stage = "read", !.key = IF served THEN record ELSE None])
    BY <2>5, <2>8, Zenon
  <2>9. CASE r.stage \in {"clearing", "discarding"}
             /\ Advance(p, h, IF r.stage = "clearing" THEN "cleared" ELSE "discarded")
    BY <2>4, <2>9
  <2> QED
    BY <2>6, <2>7, <2>8, <2>9, Zenon
<1> QED
  BY <1>1, <1>2, <1>3, <1>4, <1>5, <1>6, <1>7, <1>8

\* Whatever the page does next.
LEMMA ParkStep ==
  ASSUME TypeInv, NEW p \in Pages, ParkInv(p), PageStep(p)
  PROVE  Kept(p)
<1>1. ASSUME UserStep(p) PROVE Kept(p)
  <2>1. ASSUME NEW t \in Slots, \/ AuthenticatorSigns(p, t) \/ OfferAnswered(p, t)
                               \/ ConfirmNewKey(p, t) \/ Abandon(p, t)
        PROVE  Kept(p)
    BY <2>1, WaitingStepsParked, UnlockStepsParked
  <2>2. \A u \in Users : SignInByLink(p, u) \/ StartSignIn(p, u) => Kept(p)
    BY UnlockStepsParked, PageStepsParked
  <2>3. Reload(p) \/ Retry(p) \/ LockNow(p) \/ SignOut(p) => Kept(p)
    BY ProbeStepsParked, PageStepsParked
  <2>4. \A kind : StartUnlock(p, kind) \/ StartEnable(p, kind) => Kept(p)
    BY UnlockStepsParked
  <2> QED
    BY <1>1, <2>1, <2>2, <2>3, <2>4 DEF UserStep
<1>2. ASSUME NEW t \in Slots, TaskStep(p, t) PROVE Kept(p)
  <2>1. ProbeTold(p, t) \/ ProbeRestored(p, t) => Kept(p)
    BY ProbeAnswersParked
  <2>2. ServerReads(p, t) \/ ServerEnables(p, t) \/ ServerEndsSession(p, t) => Kept(p)
    BY WaitingStepsParked
  <2>3. PasskeyTold(p, t) \/ EnableKeyShown(p, t) \/ Cleared(p, t) => Kept(p)
    BY WaitingStepsParked
  <2>4. PasskeyOpens(p, t) \/ TypedKeyOpens(p, t) \/ EnableTold(p, t) => Kept(p)
    BY UnlockStepsParked
  <2>5. UnlockStored(p, t) => Kept(p)
    BY UnlockStepsParked
  <2>6. SignOutForgets(p, t) \/ SignOutTold(p, t) \/ SignInTold(p, t) \/ ServeKeystore(p, t)
        => Kept(p)
    BY PageStepsParked
  <2>7. SignInStored(p, t) => Kept(p)
    BY PageStepsParked DEF SignInStored
  <2> QED
    BY <1>2, <2>1, <2>2, <2>3, <2>4, <2>5, <2>6, <2>7 DEF TaskStep
<1> QED
  BY <1>1, <1>2, ProbeStepsParked, PageStepsParked DEF PageStep

\* The re-probe of another page is its own.
LEMMA OtherLatches ==
  ASSUME TypeInv, NEW p \in Pages, NEW q \in Pages, q # p, PageStep(p)
  PROVE  reprobed'[q] = reprobed[q]
<1>1. reprobed = [x \in Pages |-> reprobed[x]]
  BY TypeInvParts DEF IdentityOK
<1>2. \A u : Load(p, u) => reprobed'[q] = reprobed[q]
  BY <1>1 DEF Load
<1>3. \A t \in Slots : ServeKeystore(p, t) => UNCHANGED identity
  BY DEF ServeKeystore
<1>4. UNCHANGED identity => UNCHANGED reprobed
  BY DEF identity
<1>5. RunEffect(p) \/ UnopenableRowSeen(p) => reprobed'[q] = reprobed[q]
  BY <1>1 DEF RunEffect, UnopenableRowSeen
<1>6. ASSUME NEW t \in Slots, TaskStep(p, t) PROVE reprobed'[q] = reprobed[q]
  <2>1. SignOutTold(p, t) => UNCHANGED reprobed
    BY DEF SignOutTold
  <2>2. SignInTold(p, t) \/ SignInStored(p, t) => (\E u : Load(p, u)) \/ UNCHANGED identity
    BY DEF SignInTold, SignInStored, Reload
  <2>3. ASSUME \/ ServerReads(p, t) \/ ServerEnables(p, t) \/ ServerEndsSession(p, t)
               \/ ProbeTold(p, t) \/ ProbeRestored(p, t) \/ PasskeyTold(p, t)
               \/ PasskeyOpens(p, t) \/ TypedKeyOpens(p, t) \/ EnableKeyShown(p, t)
               \/ EnableTold(p, t) \/ UnlockStored(p, t) \/ SignOutForgets(p, t)
               \/ Cleared(p, t)
        PROVE  UNCHANGED identity
    BY <2>3, Zenon
       DEF ServerReads, ServerEnables, ServerEndsSession, ProbeTold, ProbeRestored,
           PasskeyTold, PasskeyOpens, TypedKeyOpens, EnableKeyShown, EnableTold, UnlockStored,
           SignOutForgets, Cleared
  <2> QED
    BY <1>2, <1>3, <1>4, <1>6, <2>1, <2>2, <2>3 DEF TaskStep
<1>7. ASSUME UserStep(p) PROVE reprobed'[q] = reprobed[q]
  <2>1. \A u : SignInByLink(p, u) => Load(p, u)
    BY DEF SignInByLink
  <2>2. \A u : StartSignIn(p, u) => UNCHANGED identity
    BY DEF StartSignIn
  <2>3. \A kind : StartUnlock(p, kind) \/ StartEnable(p, kind) => UNCHANGED identity
    BY DEF StartUnlock, StartEnable
  <2>4. Retry(p) \/ LockNow(p) \/ SignOut(p) => UNCHANGED identity
    BY DEF Retry, LockNow, SignOut
  <2>5. ASSUME NEW t, \/ AuthenticatorSigns(p, t) \/ OfferAnswered(p, t)
                      \/ ConfirmNewKey(p, t) \/ Abandon(p, t)
        PROVE  UNCHANGED identity
    BY <2>5, Zenon DEF AuthenticatorSigns, OfferAnswered, ConfirmNewKey, Abandon
  <2>6. Reload(p) => Load(p, cookie)
    BY DEF Reload
  <2> QED
    BY <1>2, <1>4, <1>7, <2>1, <2>2, <2>3, <2>4, <2>5, <2>6 DEF UserStep
<1> QED
  BY <1>5, <1>6, <1>7 DEF PageStep

\* A page that has followed a sign-out stays Disabled until it is loaded again, whatever is
\* still on its way; it falls back to Disabled or Unreachable only by asking; and a key is
\* doubted once in a page load (the token every request and ceremony takes, the account checks
\* of unlock, and the latch of unopenable_row_seen): the page implements PageSession.
THEOREM SessionsKept == Spec => PagesKeepSession
<1> DEFINE Inv == TypeInv /\ \A p \in Pages : ParkInv(p)
           Same(p) == UNCHANGED <<user[p], state[p], reprobed[p]>>
<1>1. Init => Inv /\ \A p \in Pages : Session(p)!Init
  <2> SUFFICES ASSUME Init, NEW p \in Pages PROVE ParkInv(p) /\ Session(p)!Init
    BY InitType
  <2>1. /\ current[p] = NoOne /\ user[p] = cookie /\ effect[p] /\ reprobed[p] = FALSE
        /\ state[p] = InitialState(cookie) /\ \A t \in Slots : task[p][t] = Idle
        /\ cookie \in Somebody
    BY DEF Init
  <2>2. ParkInv(p)
    BY <2>1, TasksAssumption DEF ParkInv, InitialState, NoOne, Slots
  <2>3. Session(p)!Init
    BY <2>1 DEF Session!Init, Session!Somebody, Session!EncryptionStates, Somebody, InitialState
  <2> QED
    BY <2>2, <2>3
<1>2. Inv /\ [Next]_vars => Inv' /\ \A p \in Pages : Session(p)!Next \/ Same(p)
  <2> SUFFICES ASSUME Inv, [Next]_vars, NEW p \in Pages PROVE Kept(p)
    BY NextType DEF Kept, Keeps
  <2>1. ASSUME UNCHANGED Row(p), Same(p) PROVE Kept(p)
    BY <2>1 DEF Row, ParkInv, Kept, Keeps
  <2>2. CASE PageStep(p)
    BY <2>2, ParkStep
  <2>3. ASSUME NEW q \in Pages, q # p, PageStep(q) PROVE UNCHANGED Row(p) /\ Same(p)
    BY <2>3, OtherPages, OtherLatches DEF Row
  <2>4. \A u \in Users : EnabledElsewhere(u) => UNCHANGED Row(p) /\ Same(p)
    BY DEF EnabledElsewhere, pageVars, Row
  <2>5. UNCHANGED vars => UNCHANGED Row(p) /\ Same(p)
    BY DEF vars, pageVars, Row
  <2> QED
    BY <2>1, <2>2, <2>3, <2>4, <2>5 DEF Next, PageStep
<1> QED
  BY <1>1, <1>2, PTL DEF Spec, PagesKeepSession

-----------------------------------------------------------------------------
(* Nobody waits for an answer that is not coming.                          *)

\* A sign-out goes through its stages in order; one that was told "no" was refused.
Leaving(r) == r.kind = "signout" =>
  /\ r.stage \in {"leaving", "clearing", "cleared", "asking", "told"}
  /\ r.stage = "told" => r.on \/ SignOutCanFail
WaitInv(p) == \A t \in Slots : Leaving(task[p][t])

\* What a step of the page must show: the page is not stranded by it, or it was refused.
TurnedDown(p) == \E t \in Slots : SignOutTold(p, t) /\ ~task[p][t].on
Waits(p) == WaitInv(p)' /\ (Stranded(p)' => Stranded(p) \/ TurnedDown(p))

\* One task goes on; the others stay where they are.
LEMMA BecomeWaiting ==
  ASSUME TypeInv, NEW p \in Pages, WaitInv(p), NEW t \in Slots, NEW r, Become(p, t, r), Leaving(r)
  PROVE  WaitInv(p)'
<1>1. \A s \in Slots : task'[p][s] = IF s = t THEN r ELSE task[p][s]
  BY BecomeSlots
<1> QED
  BY <1>1 DEF WaitInv, Leaving

LEMMA EndWaiting ==
  ASSUME TypeInv, NEW p \in Pages, WaitInv(p), NEW t \in Slots, End(p, t)
  PROVE  WaitInv(p)'
<1>1. Become(p, t, Idle)
  BY DEF End, Become
<1>2. Leaving(Idle)
  BY DEF Leaving, Idle
<1> QED
  BY <1>1, <1>2, BecomeWaiting

\* The slots of a page all change at once: none of them starts a sign-out.
LEMMA RowWaiting ==
  ASSUME TypeInv, NEW p \in Pages, WaitInv(p),
         \A s \in Slots : task'[p][s] = task[p][s] \/ task'[p][s].kind # "signout"
  PROVE  WaitInv(p)'
BY DEF WaitInv, Leaving

\* A forget waits for its delete.
LEMMA ForgetWaiting ==
  ASSUME TypeInv, NEW p \in Pages, WaitInv(p), NEW t \in Slots, NEW r \in Tasks, ForgetDeviceKey(p, t, r)
  PROVE  WaitInv(p)'
<1>1. \A s \in Slots : s # t => task'[p][s] = [task[p][s] EXCEPT !.fresh = FALSE]
  BY TypeInvParts DEF TasksOK, TaskTable, ForgetDeviceKey
<1>2. task'[p][t].stage = "clearing"
  BY ForgetSlots
<1> SUFFICES ASSUME NEW s \in Slots PROVE Leaving(task'[p][s])
  BY DEF WaitInv, Leaving
<1>3. CASE s = t
  BY <1>2, <1>3 DEF Leaving
<1>4. CASE s # t
  <2> DEFINE x == [task[p][s] EXCEPT !.fresh = FALSE]
  <2>1. x.kind = task[p][s].kind /\ x.stage = task[p][s].stage /\ x.on = task[p][s].on
    BY InSlot DEF Tasks
  <2>2. task'[p][s] = x
    BY <1>1, <1>4
  <2> HIDE DEF x
  <2> QED
    BY <2>1, <2>2 DEF WaitInv, Leaving
<1> QED
  BY <1>3, <1>4

-----------------------------------------------------------------------------
(* A page waits for the ceremony that owes it an answer.                   *)

\* Whoever owed the page its answer still does.
LEMMA OwedWaits ==
  ASSUME NEW p \in Pages, WaitInv(p)', UNCHANGED <<identity, publication>>,
         \A s \in Slots : Answering(p, s) => Answering(p, s)'
  PROVE  Waits(p)
BY DEF Waits, Stranded, identity, publication

\* The page has its answer, or will ask.
LEMMA AnsweredWaits ==
  ASSUME NEW p \in Pages, WaitInv(p)', user'[p] = None \/ state'[p] # "Unknown" \/ effect'[p]
  PROVE  Waits(p)
BY DEF Waits, Stranded

LEMMA BecomeWaits ==
  ASSUME TypeInv, NEW p \in Pages, WaitInv(p), UNCHANGED <<identity, publication, current>>,
         NEW t \in Slots, NEW r, Become(p, t, r), Leaving(r),
         r.kind = task[p][t].kind \/ task[p][t].kind \notin {"probe", "signout"}
  PROVE  Waits(p)
<1>1. \A s \in Slots : task'[p][s] = IF s = t THEN r ELSE task[p][s]
  BY BecomeSlots
<1>2. \A s \in Slots : Answering(p, s) => Answering(p, s)'
  BY <1>1 DEF Answering
<1> QED
  BY <1>2, BecomeWaiting, OwedWaits

LEMMA AdvanceWaits ==
  ASSUME TypeInv, NEW p \in Pages, WaitInv(p), UNCHANGED <<identity, publication, current>>,
         NEW t \in Slots, NEW g \in Stages, Advance(p, t, g),
         task[p][t].kind = "signout" => g \in {"cleared", "asking"}
  PROVE  Waits(p)
<1> DEFINE r == [task[p][t] EXCEPT !.stage = g]
<1>1. r.kind = task[p][t].kind /\ r.stage = g
  BY InSlot DEF Tasks
<1>2. Leaving(r)
  BY <1>1 DEF Leaving
<1>3. Become(p, t, r)
  BY DEF Advance
<1> HIDE DEF r
<1> QED
  BY <1>1, <1>2, <1>3, BecomeWaits

LEMMA EndWaits ==
  ASSUME TypeInv, NEW p \in Pages, WaitInv(p), UNCHANGED <<identity, publication>>,
         NEW t \in Slots, End(p, t), ~Answering(p, t)
  PROVE  Waits(p)
<1>1. \A s \in Slots : current[p] = s /\ s # t => task'[p][s] = task[p][s] /\ current'[p] = s
  BY EndSlots
<1>2. \A s \in Slots : s # t => task'[p][s] = task[p][s]
  BY EndSlots
<1>3. \A s \in Slots : Answering(p, s) => Answering(p, s)'
  BY <1>1, <1>2 DEF Answering
<1> QED
  BY <1>3, EndWaiting, OwedWaits

\* A task in a free slot takes nobody's place.
LEMMA StartWaits ==
  ASSUME TypeInv, NEW p \in Pages, WaitInv(p), UNCHANGED <<identity, publication, current>>,
         NEW t \in Slots, Free(p, t), NEW r, Become(p, t, r), r.kind # "signout"
  PROVE  Waits(p)
<1>1. task[p][t].kind = "none"
  BY DEF Free, Idle
<1>2. Leaving(r)
  BY DEF Leaving
<1> QED
  BY <1>1, <1>2, BecomeWaits

LEMMA ForgetWaits ==
  ASSUME TypeInv, NEW p \in Pages, WaitInv(p), UNCHANGED <<identity, publication, current>>,
         NEW t \in Slots, NEW r \in Tasks, ForgetDeviceKey(p, t, r), r.kind = task[p][t].kind
  PROVE  Waits(p)
<1>1. \A s \in Slots : task'[p][s].kind = task[p][s].kind
  BY ForgetSlots
<1>2. \A s \in Slots : Answering(p, s) => Answering(p, s)'
  BY <1>1 DEF Answering
<1> QED
  BY <1>2, ForgetWaiting, OwedWaits

\* Only the holder of the newest token answers; whoever ends without it owes nothing.
LEMMA PublishWaits ==
  ASSUME TypeInv, NEW p \in Pages, WaitInv(p), UNCHANGED identity,
         NEW t \in Slots, task[p][t].kind # "signout",
         NEW s, s # "Unknown", NEW k, PublishIfCurrent(p, t, s, k)
  PROVE  Waits(p)
<1>0. End(p, t) /\ WaitInv(p)'
  BY EndWaiting DEF PublishIfCurrent
<1>1. CASE current[p] = t
  <2>1. state'[p] = s
    BY <1>1, Published DEF PublishIfCurrent
  <2> QED
    BY <1>0, <2>1, AnsweredWaits
<1>2. CASE current[p] # t
  <2>1. UNCHANGED publication /\ ~Answering(p, t)
    BY <1>2 DEF PublishIfCurrent, Answering
  <2> QED
    BY <1>0, <2>1, EndWaits
<1> QED
  BY <1>1, <1>2

LEMMA UnlockWaits ==
  ASSUME TypeInv, NEW p \in Pages, WaitInv(p), UNCHANGED identity,
         NEW t \in Slots, task[p][t].kind \in InPage, NEW k, Unlock(p, t, k)
  PROVE  Waits(p)
<1>0. task[p][t].kind \notin {"probe", "signout"}
  BY DEF InPage
<1>1. CASE k.user # user[p]
  <2>1. End(p, t) /\ UNCHANGED publication /\ ~Answering(p, t)
    BY <1>0, <1>1 DEF Unlock, Answering
  <2> QED
    BY <2>1, EndWaits
<1>2. CASE UnlockStores(p, t, k)
  <2> DEFINE r == [task[p][t] EXCEPT !.stage = "storing", !.key = k]
  <2>1. r.kind = task[p][t].kind
    BY InSlot DEF Tasks
  <2>2. Become(p, t, r) /\ Leaving(r)
    BY <1>0, <1>2, <2>1 DEF UnlockStores, Leaving
  <2> HIDE DEF r
  <2>3. WaitInv(p)'
    BY <2>2, BecomeWaiting
  <2>4. state'[p] = "Locked"
    BY <1>2, Published DEF UnlockStores
  <2> QED
    BY <2>3, <2>4, AnsweredWaits
<1>3. CASE UnlockUnremembered(p, t, k)
  <2>1. Become(p, t, Idle) /\ state'[p] = "Unlocked"
    BY <1>3, Published DEF UnlockUnremembered
  <2>2. Leaving(Idle)
    BY DEF Leaving, Idle
  <2> QED
    BY <2>1, <2>2, BecomeWaiting, AnsweredWaits
<1> QED
  BY <1>1, <1>2, <1>3 DEF Unlock

\* A request takes the newest token with it.
LEMMA StartProbeWaits ==
  ASSUME TypeInv, NEW p \in Pages, WaitInv(p), user'[p] = user[p],
         NEW m, StartProbe(p, m)
  PROVE  Waits(p)
<1>1. CASE user[p] = None
  <2>1. state'[p] = "Disabled" /\ UNCHANGED task
    BY <1>1, Published DEF StartProbe
  <2>2. WaitInv(p)'
    BY <2>1, RowWaiting
  <2> QED
    BY <2>1, <2>2, AnsweredWaits
<1>2. CASE user[p] # None
  <2> DEFINE r == NewTask("probe", "asking", user[p], FALSE)
  <2>1. PICK t \in Slots : current' = [current EXCEPT ![p] = t] /\ Become(p, t, r)
    BY <1>2 DEF StartProbe
  <2>2. r.kind = "probe" /\ r.stage = "asking"
    BY DEF NewTask, Idle
  <2> HIDE DEF r
  <2>3. WaitInv(p)'
    BY <2>1, <2>2, BecomeWaiting DEF Leaving
  <2>4. current'[p] = t /\ task'[p][t] = r
    BY <2>1, BecomeSlots, TypeInvParts DEF HolderOK
  <2>5. Answering(p, t)'
    BY <2>2, <2>4 DEF Answering
  <2> QED
    BY <2>3, <2>5 DEF Waits, Stranded
<1> QED
  BY <1>1, <1>2

LEMMA LoadWaits ==
  ASSUME TypeInv, NEW p \in Pages, NEW u, Load(p, u)
  PROVE  Waits(p)
<1>1. \A x \in Slots : task'[p][x] = Idle
  BY TypeInvParts DEF Load, TasksOK, TaskTable
<1>2. WaitInv(p)'
  BY <1>1 DEF WaitInv, Leaving, Idle
<1>3. effect'[p]
  BY TypeInvParts DEF Load, IdentityOK
<1> QED
  BY <1>2, <1>3, AnsweredWaits

-----------------------------------------------------------------------------

\* The effect, the requests, and what IndexedDB answers.
LEMMA ProbeStepsWait ==
  ASSUME TypeInv, NEW p \in Pages, WaitInv(p)
  PROVE  /\ RunEffect(p) \/ Retry(p) \/ UnopenableRowSeen(p) => Waits(p)
         /\ \A t \in Slots : ProbeTold(p, t) \/ ProbeRestored(p, t) => Waits(p)
<1>1. ASSUME RunEffect(p) \/ Retry(p) \/ UnopenableRowSeen(p) PROVE Waits(p)
  BY <1>1, StartProbeWaits DEF RunEffect, Retry, UnopenableRowSeen, identity
<1>2. ASSUME NEW t \in Slots, ProbeTold(p, t) \/ ProbeRestored(p, t) PROVE Waits(p)
  <2>1. task[p][t].kind = "probe" /\ UNCHANGED identity
    BY <1>2 DEF ProbeTold, ProbeRestored, At
  <2>2. ASSUME NEW s \in {"Unreachable", "Disabled", "Locked", "Unlocked"}, NEW k,
               PublishIfCurrent(p, t, s, k)
        PROVE  Waits(p)
    BY <2>1, <2>2, PublishWaits
  <2>3. ASSUME Advance(p, t, "reading"), UNCHANGED <<publication, current>>
        PROVE  Waits(p)
    BY <2>1, <2>3, AdvanceWaits DEF Stages
  <2>4. ASSUME Become(p, t, [task[p][t] EXCEPT !.stage = "discarding", !.key = None]),
               UNCHANGED <<publication, current>>
        PROVE  Waits(p)
    <3> DEFINE r == [task[p][t] EXCEPT !.stage = "discarding", !.key = None]
    <3>1. r.kind = "probe" /\ Become(p, t, r)
      BY <2>1, <2>4, InSlot DEF Tasks
    <3> HIDE DEF r
    <3> QED
      BY <2>1, <2>4, <3>1, BecomeWaits DEF Leaving
  <2>5. CASE ProbeTold(p, t)
    BY <2>2, <2>3, <2>5 DEF ProbeTold
  <2>6. CASE ProbeRestored(p, t)
    BY <2>2, <2>4, <2>6 DEF ProbeRestored
  <2> QED
    BY <1>2, <2>5, <2>6
<1> QED
  BY <1>1, <1>2

\* IndexedDB answers a task, which goes on.
LEMMA ServeWaits ==
  ASSUME TypeInv, NEW p \in Pages, WaitInv(p), NEW t \in Slots, ServeKeystore(p, t)
  PROVE  Waits(p)
<1> DEFINE adv(g) == [task[p][t] EXCEPT !.stage = g]
           got(k) == [task[p][t] EXCEPT !.stage = "read", !.key = k]
<1>0. task[p][t] \in Tasks
  BY InSlot
<1>1. \A g : adv(g).kind = task[p][t].kind /\ adv(g).stage = g
  BY <1>0 DEF Tasks
<1>2. \A k : got(k).kind = task[p][t].kind /\ got(k).stage = "read"
  BY <1>0 DEF Tasks
<1>3. \/ task[p][t].stage = "storing" /\ Become(p, t, adv("stored"))
      \/ task[p][t].stage = "reading" /\ \E k : Become(p, t, got(k))
      \/ /\ task[p][t].stage \in {"clearing", "discarding"}
         /\ Become(p, t, adv(IF task[p][t].stage = "clearing" THEN "cleared" ELSE "discarded"))
  BY Zenon DEF ServeKeystore, Advance
<1>4. UNCHANGED <<identity, publication, current>>
  BY DEF ServeKeystore
<1> HIDE DEF adv, got
<1>5. ASSUME NEW r, Become(p, t, r), r.kind = task[p][t].kind,
             \/ task[p][t].stage \in {"storing", "reading", "discarding"}
             \/ task[p][t].stage = "clearing" /\ r.stage = "cleared"
      PROVE  Waits(p)
  <2>1. Leaving(r)
    BY <1>5 DEF WaitInv, Leaving
  <2> QED
    BY <1>4, <1>5, <2>1, BecomeWaits
<1>6. CASE task[p][t].stage = "storing" /\ Become(p, t, adv("stored"))
  BY <1>1, <1>5, <1>6
<1>7. CASE task[p][t].stage = "reading" /\ \E k : Become(p, t, got(k))
  BY <1>2, <1>5, <1>7
<1>8. CASE task[p][t].stage = "clearing" /\ Become(p, t, adv("cleared"))
  BY <1>1, <1>5, <1>8
<1>9. CASE task[p][t].stage = "discarding" /\ Become(p, t, adv("discarded"))
  BY <1>1, <1>5, <1>9
<1> QED
  BY <1>3, <1>6, <1>7, <1>8, <1>9, Zenon

\* Tasks that ask the server, or wait for an answer or the authenticator.
LEMMA WaitingStepsWait ==
  ASSUME TypeInv, NEW p \in Pages, WaitInv(p), ParkInv(p), NEW t \in Slots
  PROVE  /\ ServerReads(p, t) \/ ServerEnables(p, t) => Waits(p)
         /\ ServerEndsSession(p, t) => Waits(p)
         /\ AuthenticatorSigns(p, t) => Waits(p)
         /\ PasskeyTold(p, t) \/ EnableKeyShown(p, t) \/ ConfirmNewKey(p, t) => Waits(p)
         /\ Cleared(p, t) \/ Abandon(p, t) => Waits(p)
<1>0. /\ task[p][t] \in Tasks
      /\ {"told", "asserting", "asserted", "showing", "asking"} \subseteq Stages
  BY InSlot DEF Stages
<1>1. ASSUME NEW r, Become(p, t, r), UNCHANGED <<identity, publication, current>>,
             r.kind = task[p][t].kind, r.stage \in {"told", "asserting", "asserted", "showing", "asking"},
             r.kind = "signout" => r.stage \in {"asking", "told"},
             r.kind = "signout" /\ r.stage = "told" => r.on \/ SignOutCanFail
      PROVE  Waits(p)
  BY <1>0, <1>1, BecomeWaits DEF Leaving
<1>2. ASSUME NEW g \in {"told", "asserting", "asserted", "showing", "asking"}, Advance(p, t, g),
             UNCHANGED <<identity, publication, current>>,
             task[p][t].kind # "signout" \/ g = "asking"
      PROVE  Waits(p)
  BY <1>0, <1>2, AdvanceWaits
<1>3. ASSUME ServerReads(p, t) \/ ServerEnables(p, t) PROVE Waits(p)
  <2>1. /\ UNCHANGED <<identity, publication, current>>
        /\ task[p][t].kind # "signout"
    BY <1>3, Zenon DEF ServerReads, ServerEnables, At
  <2> DEFINE r(a, b) == [task[p][t] EXCEPT !.stage = "told", !.about = a, !.on = b]
  <2>2. \A a, b : r(a, b).kind = task[p][t].kind /\ r(a, b).stage = "told"
    BY <1>0 DEF Tasks
  <2>3. (\E a, b : Become(p, t, r(a, b))) \/ Advance(p, t, "told")
    BY <1>3, Zenon DEF ServerReads, ServerEnables
  <2> HIDE DEF r
  <2> QED
    BY <1>1, <1>2, <2>1, <2>2, <2>3
<1>4. ASSUME ServerEndsSession(p, t) PROVE Waits(p)
  <2>1. /\ UNCHANGED <<identity, publication, current>>
        /\ task[p][t].kind = "signout"
    BY <1>4 DEF ServerEndsSession, At
  <2> DEFINE r == [task[p][t] EXCEPT !.stage = "told", !.on = TRUE]
             rr == [task[p][t] EXCEPT !.stage = "told"]
  <2>2. r.kind = "signout" /\ r.stage = "told" /\ r.on
    BY <1>0, <2>1 DEF Tasks
  <2>3. rr.kind = "signout" /\ rr.stage = "told"
    BY <1>0, <2>1 DEF Tasks
  <2>4. Become(p, t, r) \/ (SignOutCanFail /\ Become(p, t, rr))
    BY <1>4 DEF ServerEndsSession, Advance
  <2> HIDE DEF r, rr
  <2> QED
    BY <1>1, <2>1, <2>2, <2>3, <2>4
<1>5. ASSUME AuthenticatorSigns(p, t) PROVE Waits(p)
  <2>1. /\ UNCHANGED <<identity, publication, current>>
        /\ task[p][t].kind # "signout"
    BY <1>5 DEF AuthenticatorSigns, At
  <2> DEFINE r == [task[p][t] EXCEPT !.stage = "asking", !.fresh = TRUE]
  <2>2. r.kind = task[p][t].kind /\ r.stage = "asking"
    BY <1>0 DEF Tasks
  <2>3. Become(p, t, r) \/ Advance(p, t, "asserted")
    BY <1>5 DEF AuthenticatorSigns
  <2> HIDE DEF r
  <2> QED
    BY <1>1, <1>2, <2>1, <2>2, <2>3
<1>6. ASSUME PasskeyTold(p, t) \/ EnableKeyShown(p, t) \/ ConfirmNewKey(p, t) PROVE Waits(p)
  <2>1. /\ UNCHANGED <<identity, publication>>
        /\ task[p][t].kind \notin {"probe", "signout"}
    BY <1>6 DEF PasskeyTold, EnableKeyShown, ConfirmNewKey, At
  <2>2. \/ End(p, t)
        \/ UNCHANGED current /\ \E g \in {"asserting", "showing", "asking"} : Advance(p, t, g)
    BY <1>6 DEF PasskeyTold, EnableKeyShown, ConfirmNewKey
  <2> QED
    BY <1>2, <2>1, <2>2, EndWaits DEF Answering
<1>7. ASSUME Cleared(p, t) \/ Abandon(p, t) PROVE Waits(p)
  <2>1. UNCHANGED <<identity, publication>>
    BY <1>7 DEF Cleared, Abandon
  <2>2. CASE Advance(p, t, "asking") /\ UNCHANGED current
    BY <1>2, <2>1, <2>2
  <2>3. CASE End(p, t) /\ task[p][t].kind # "signout"
\* A probe at such a stage has no token.
    <3>1. task[p][t].stage \notin Probing
      BY <1>7 DEF Cleared, Abandon, At, Probing
    <3>2. ~Answering(p, t)
      BY <2>3, <3>1 DEF Answering, ParkInv, Parked
    <3> QED
      BY <2>1, <2>3, <3>2, EndWaits
  <2>4. ~(Abandon(p, t) /\ task[p][t].kind = "signout")
    BY DEF Abandon, WaitInv, Leaving
  <2>5. \/ Advance(p, t, "asking") /\ UNCHANGED current
        \/ End(p, t) /\ task[p][t].kind # "signout"
    BY <1>7, <2>4 DEF Cleared, Abandon
  <2> QED
    BY <2>2, <2>3, <2>5
<1> QED
  BY <1>3, <1>4, <1>5, <1>6, <1>7

\* Ceremonies start, and end in unlock or in its awaited half.
LEMMA UnlockStepsWait ==
  ASSUME TypeInv, NEW p \in Pages, WaitInv(p), ParkInv(p)
  PROVE  /\ StartUnlock(p, "passkey") \/ StartUnlock(p, "typed") => Waits(p)
         /\ StartEnable(p, "asserting") \/ StartEnable(p, "showing") => Waits(p)
         /\ \A u \in Users : StartSignIn(p, u) => Waits(p)
         /\ \A t \in Slots : PasskeyOpens(p, t) \/ EnableTold(p, t) \/ OfferAnswered(p, t) => Waits(p)
         /\ \A t \in Slots : TypedKeyOpens(p, t) \/ UnlockStored(p, t) => Waits(p)
<1>1. ASSUME NEW kind \in {"passkey", "typed", "enable", "signin"}, NEW g \in {"asking", "asserting", "showing"},
             NEW u, NEW f, NEW t \in Slots, Free(p, t), Become(p, t, NewTask(kind, g, u, f)),
             UNCHANGED <<identity, publication, current>>
      PROVE  Waits(p)
  <2> DEFINE r == NewTask(kind, g, u, f)
  <2>1. r.kind = kind /\ r.stage = g
    BY DEF NewTask, Idle
  <2>2. Become(p, t, r)
    BY <1>1
  <2> HIDE DEF r
  <2> QED
    BY <1>1, <2>1, <2>2, StartWaits
<1>2. StartUnlock(p, "passkey") \/ StartUnlock(p, "typed") => Waits(p)
  BY <1>1 DEF StartUnlock
<1>3. StartEnable(p, "asserting") \/ StartEnable(p, "showing") => Waits(p)
  BY <1>1 DEF StartEnable
<1>4. \A u \in Users : StartSignIn(p, u) => Waits(p)
  BY <1>1 DEF StartSignIn
<1>5. ASSUME NEW t \in Slots, PasskeyOpens(p, t) \/ EnableTold(p, t) \/ OfferAnswered(p, t) PROVE Waits(p)
  <2>1. task[p][t].kind \in InPage /\ UNCHANGED identity
    BY <1>5 DEF PasskeyOpens, EnableTold, OfferAnswered, At, InPage
  <2>2. ~Answering(p, t)
    BY <2>1 DEF Answering, InPage
  <2>3. (End(p, t) /\ UNCHANGED publication) \/ \E k : Unlock(p, t, k)
    BY <1>5 DEF PasskeyOpens, EnableTold, OfferAnswered
  <2> QED
    BY <2>1, <2>2, <2>3, EndWaits, UnlockWaits
<1>6. ASSUME NEW t \in Slots, TypedKeyOpens(p, t) PROVE Waits(p)
  <2>1. task[p][t].kind = "typed" /\ UNCHANGED <<identity, publication>>
    BY <1>6 DEF TypedKeyOpens, At
  <2>2. CASE End(p, t)
    BY <2>1, <2>2, EndWaits DEF Answering
  <2>3. CASE ~End(p, t)
    <3> DEFINE r == [task[p][t] EXCEPT !.stage = "offered", !.about = None, !.on = FALSE,
                                       !.key = [user |-> task[p][t].user, opens |-> task[p][t].about]]
    <3>1. r.kind = "typed" /\ r.stage = "offered"
      BY <2>1, InSlot DEF Tasks
    <3>2. /\ UNCHANGED current
          /\ task' = [task EXCEPT ![p] = [s \in Slots |-> IF s = t THEN r
                        ELSE IF task[p][s].stage = "offered" THEN Idle ELSE task[p][s]]]
      BY <1>6, <2>3, TypeInvParts DEF TypedKeyOpens, TasksOK, TaskTable
    <3> HIDE DEF r
    <3>3. \A s \in Slots : task'[p][s] = IF s = t THEN r
                        ELSE IF task[p][s].stage = "offered" THEN Idle ELSE task[p][s]
      BY <3>2, TypeInvParts DEF TasksOK, TaskTable
    <3>4. \A s \in Slots : task[p][s].stage = "offered" => ~Answering(p, s)
      BY DEF Answering, ParkInv, Parked, Probing, WaitInv, Leaving
    <3>5. \A s \in Slots : Answering(p, s) => Answering(p, s)'
      BY <2>1, <3>2, <3>3, <3>4 DEF Answering
    <3>6. Idle.kind # "signout"
      BY DEF Idle
    <3>7. WaitInv(p)'
      BY <2>1, <3>1, <3>3, <3>6, RowWaiting
    <3> QED
      BY <2>1, <3>5, <3>7, OwedWaits
  <2> QED
    BY <2>2, <2>3
<1>7. ASSUME NEW t \in Slots, UnlockStored(p, t) PROVE Waits(p)
  <2>1. task[p][t].kind \in InPage /\ task[p][t].kind # "signout" /\ UNCHANGED identity
    BY <1>7 DEF UnlockStored, At, InPage
  <2> DEFINE r == [task[p][t] EXCEPT !.key = None]
  <2>2. CASE ForgetDeviceKey(p, t, r) /\ UNCHANGED <<publication, current>>
    <3>1. r \in Tasks /\ r.kind = task[p][t].kind
      BY InSlot DEF Tasks
    <3> HIDE DEF r
    <3> QED
      BY <2>1, <2>2, <3>1, ForgetWaits
  <2>3. CASE PublishIfCurrent(p, t, "Unlocked", task[p][t].key)
    BY <2>1, <2>3, PublishWaits
  <2> QED
    BY <1>7, <2>2, <2>3 DEF UnlockStored
<1> QED
  BY <1>2, <1>3, <1>4, <1>5, <1>6, <1>7

\* Locking, leaving, and a page that loads.
LEMMA PageStepsWait ==
  ASSUME TypeInv, NEW p \in Pages, WaitInv(p), ParkInv(p)
  PROVE  /\ Reload(p) => Waits(p)
         /\ \A u : SignInByLink(p, u) => Waits(p)
         /\ LockNow(p) => Waits(p)
         /\ SignOut(p) => Waits(p)
         /\ \A t \in Slots : SignOutForgets(p, t) \/ SignOutTold(p, t) => Waits(p)
         /\ \A t \in Slots : SignInTold(p, t) \/ SignInStored(p, t) => Waits(p)
<1>1. Reload(p) => Waits(p)
  BY LoadWaits DEF Reload
<1>2. \A u : SignInByLink(p, u) => Waits(p)
  BY LoadWaits DEF SignInByLink
<1>3. ASSUME LockNow(p) PROVE Waits(p)
  <2> DEFINE r == NewTask("lock", "clearing", user[p], FALSE)
  <2>1. PICK t \in Slots : ForgetDeviceKey(p, t, r)
    BY <1>3 DEF LockNow
  <2>2. r \in Tasks
    BY TypeInvParts, NewTaskIsTask DEF IdentityOK, Kinds, Stages
  <2> HIDE DEF r
  <2>3. WaitInv(p)'
    BY <2>1, <2>2, ForgetWaiting
  <2>4. state'[p] = "Locked"
    BY <1>3, Published DEF LockNow
  <2> QED
    BY <2>3, <2>4, AnsweredWaits
<1>4. ASSUME SignOut(p) PROVE Waits(p)
  <2> DEFINE r == NewTask("signout", "leaving", user[p], FALSE)
  <2>1. PICK t \in Slots : Become(p, t, r)
    BY <1>4 DEF SignOut
  <2>2. r.kind = "signout" /\ r.stage = "leaving"
    BY DEF NewTask, Idle
  <2> HIDE DEF r
  <2>3. WaitInv(p)'
    BY <1>4, <2>1, <2>2, BecomeWaiting DEF SignOut, Leaving
  <2>4. Answering(p, t)'
    BY <2>1, <2>2, BecomeSlots DEF Answering
  <2> QED
    BY <2>3, <2>4 DEF Waits, Stranded
<1>5. ASSUME NEW t \in Slots, SignOutForgets(p, t) PROVE Waits(p)
  BY <1>5, InSlot, ForgetWaits DEF SignOutForgets
<1>6. ASSUME NEW t \in Slots, SignOutTold(p, t) PROVE Waits(p)
  <2>1. Idle.kind # "signout"
    BY DEF Idle
  <2>2. \A s \in Slots : task'[p][s] \in {task[p][s], Idle}
    BY <1>6, TypeInvParts DEF SignOutTold, Become, TasksOK, TaskTable
  <2>3. WaitInv(p)'
    BY <1>6, <2>1, <2>2, RowWaiting DEF SignOutTold
  <2>4. CASE task[p][t].on
    <3>1. effect'[p]
      BY <1>6, <2>4, TypeInvParts DEF SignOutTold, IdentityOK
    <3> QED
      BY <2>3, <3>1, AnsweredWaits
  <2>5. CASE ~task[p][t].on
    BY <1>6, <2>3, <2>5 DEF Waits, TurnedDown
  <2> QED
    BY <2>4, <2>5
<1>7. ASSUME NEW t \in Slots, SignInTold(p, t) PROVE Waits(p)
  <2> DEFINE r == [task[p][t] EXCEPT !.stage = "storing",
                     !.key = [user |-> task[p][t].about, opens |-> task[p][t].user]]
  <2>1. CASE Load(p, cookie)
    BY <2>1, LoadWaits
  <2>2. CASE Become(p, t, r) /\ UNCHANGED <<identity, publication, current>>
    <3>1. r.kind = task[p][t].kind /\ task[p][t].kind = "signin"
      BY <1>7, InSlot DEF SignInTold, At, Tasks
    <3> HIDE DEF r
    <3> QED
      BY <2>2, <3>1, BecomeWaits DEF Leaving
  <2> QED
    BY <1>7, <2>1, <2>2 DEF SignInTold
<1>8. \A t \in Slots : SignInStored(p, t) => Waits(p)
  BY LoadWaits DEF SignInStored, Reload
<1> QED
  BY <1>1, <1>2, <1>3, <1>4, <1>5, <1>6, <1>7, <1>8

\* Whatever the page does next.
LEMMA WaitStep ==
  ASSUME TypeInv, NEW p \in Pages, WaitInv(p), ParkInv(p), PageStep(p)
  PROVE  Waits(p)
<1>1. ASSUME UserStep(p) PROVE Waits(p)
  BY <1>1, ProbeStepsWait, WaitingStepsWait, UnlockStepsWait, PageStepsWait DEF UserStep
<1>2. ASSUME NEW t \in Slots, TaskStep(p, t) PROVE Waits(p)
  BY <1>2, ProbeStepsWait, ServeWaits, WaitingStepsWait, UnlockStepsWait, PageStepsWait
     DEF TaskStep
<1> QED
  BY <1>1, <1>2, ProbeStepsWait DEF PageStep

\* What every page keeps at once.
WaitingInv == TypeInv /\ \A p \in Pages : ParkInv(p) /\ WaitInv(p)

LEMMA WaitingInit == Init => WaitingInv /\ \A p \in Pages : ~Stranded(p)
<1> SUFFICES ASSUME Init, NEW p \in Pages
             PROVE  ParkInv(p) /\ WaitInv(p) /\ ~Stranded(p)
  BY InitType DEF WaitingInv
<1>1. /\ current[p] = NoOne /\ user[p] = cookie /\ effect[p]
      /\ state[p] = InitialState(cookie) /\ \A t \in Slots : task[p][t] = Idle
  BY DEF Init
<1>2. ParkInv(p)
  BY <1>1, TasksAssumption DEF ParkInv, InitialState, NoOne, Slots
<1>3. WaitInv(p)
  BY <1>1 DEF WaitInv, Leaving, Idle
<1> QED
  BY <1>1, <1>2, <1>3 DEF Stranded

LEMMA WaitingNext ==
  ASSUME WaitingInv, [Next]_vars
  PROVE  WaitingInv' /\ \A p \in Pages : Waits(p)
<1> USE DEF WaitingInv
<1> SUFFICES ASSUME NEW p \in Pages PROVE ParkInv(p)' /\ Waits(p)
  BY NextType DEF Waits
<1>1. ASSUME UNCHANGED Row(p) PROVE ParkInv(p)' /\ Waits(p)
  <2>1. ParkInv(p)'
    BY <1>1 DEF Row, ParkInv
  <2>2. WaitInv(p)'
    BY <1>1 DEF Row, WaitInv, Leaving
  <2>3. Stranded(p)' => Stranded(p)
    BY <1>1 DEF Row, Stranded, Answering
  <2> QED
    BY <2>1, <2>2, <2>3 DEF Waits
<1>2. CASE PageStep(p)
  BY <1>2, ParkStep, WaitStep DEF Kept
<1>3. ASSUME NEW q \in Pages, q # p, PageStep(q) PROVE UNCHANGED Row(p)
  BY <1>3, OtherPages
<1>4. \A u \in Users : EnabledElsewhere(u) => UNCHANGED Row(p)
  BY DEF EnabledElsewhere, pageVars, Row
<1>5. UNCHANGED vars => UNCHANGED Row(p)
  BY DEF vars, pageVars, Row
<1> QED
  BY <1>1, <1>2, <1>3, <1>4, <1>5 DEF Next, PageStep

\* However probes, ceremonies, Lock now, forgets and navigations overlap, one step alone can
\* leave a signed-in page at "Checking this account" with nobody to answer it: the refusal of
\* a sign-out, which took the token of the probe at the click and publishes nothing
\* (signing_out).  Every other step that outranks a probe answers in its stead.
THEOREM OnlyRefusal == Spec => OnlyRefusalStrands
<1>1. WaitingInv /\ [Next]_vars =>
        [\A p \in Pages : Stranded(p)' /\ ~Stranded(p) =>
           \E t \in Slots : SignOutTold(p, t) /\ ~task[p][t].on]_vars
  BY WaitingNext DEF Waits, TurnedDown
<1> QED
  BY <1>1, WaitingInit, WaitingNext, PTL DEF Spec, OnlyRefusalStrands

\* So where a sign-out always reaches the server, a page at "Checking this account" always has
\* its effect to run, a probe with the newest token or a sign-out under way: what liveness
\* needs and TLC checks under fairness (UnknownResolves).
THEOREM NobodyIsStranded == Spec => []NobodyStranded
<1> DEFINE Inv == WaitingInv /\ NobodyStranded
<1>1. Init => Inv
  BY WaitingInit DEF NobodyStranded
<1>2. Inv /\ [Next]_vars => Inv'
  <2> SUFFICES ASSUME Inv, [Next]_vars, ~SignOutCanFail, NEW p \in Pages PROVE ~Stranded(p)'
    BY WaitingNext DEF NobodyStranded
  <2>1. Waits(p) /\ ~Stranded(p) /\ WaitInv(p)
    BY WaitingNext DEF NobodyStranded, WaitingInv
  <2>2. ~TurnedDown(p)
    BY <2>1 DEF TurnedDown, WaitInv, Leaving, SignOutTold, At
  <2> QED
    BY <2>1, <2>2 DEF Waits
<1> QED
  BY <1>1, <1>2, PTL DEF Spec

=============================================================================
