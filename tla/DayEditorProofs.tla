-------------------------- MODULE DayEditorProofs --------------------------
(***************************************************************************)
(* Proofs about DayEditor: its types, that the text on screen is of the    *)
(* day and the store on screen, that typed text stands, that the screen    *)
(* shows what is stored, that a blank day is being read, and that its      *)
(* session is a PageSession.                                               *)
(*                                                                         *)
(* The invariant is about the loads in flight: at most one of them may     *)
(* publish, it is of the day and the store on screen, and there is none    *)
(* once the day shows anything.                                            *)
(***************************************************************************)
EXTENDS DayEditor, TLAPS

\* Of the operations in flight, at most one may publish.
OneCurrent(f) == \A i, j \in DOMAIN f : f[i].current /\ f[j].current => i = j

\* It is of the day d and the store u.
OfDay(f, d, u) == \A i \in DOMAIN f : f[i].current => f[i].day = d /\ f[i].store = u

\* None may.
NoneCurrent(f) == \A i \in DOMAIN f : ~f[i].current

\* What the steps keep of the hook.
Hook(f, d, u, s) ==
  /\ f \in Seq(Operation)
  /\ OneCurrent(f)
  /\ OfDay(f, d, u)
  /\ s \in Shown \cup {None}
  /\ s # None => s.day = d /\ s.store = u /\ NoneCurrent(f)

Rest ==
  /\ cookie \in Somebody /\ user \in Somebody
  /\ enabled \in SUBSET Accounts
  /\ rows \in [Accounts -> [Days -> Row \cup {None}]]
  /\ local \in [Days -> Texts \cup {None}]
  /\ session \in Sessions
  /\ reprobed \in BOOLEAN /\ amiss \in BOOLEAN
  /\ day \in Days \cup {None}
  /\ acts \in 0 .. MaxActs

HookInv == Hook(flight, day, user, shown) /\ Len(flight) <= MaxFlight

Inv == Rest /\ HookInv

-----------------------------------------------------------------------------
(* Sequences of operations.                                                *)

\* Outranking keeps the operations and leaves none that may publish.
LEMMA OutrankedFacts ==
  ASSUME NEW f \in Seq(Operation)
  PROVE  /\ Outranked(f) \in Seq(Operation)
         /\ Len(Outranked(f)) = Len(f)
         /\ NoneCurrent(Outranked(f))
<1>2. \A i \in DOMAIN f : f[i] \in Operation
  OBVIOUS
<1>1. \A i \in DOMAIN f : [f[i] EXCEPT !.current = FALSE] \in Operation
  <2>1. ASSUME NEW r \in Operation PROVE [r EXCEPT !.current = FALSE] \in Operation
    BY DEF Operation
  <2>. QED BY <1>2, <2>1
<1>3. Outranked(f) \in Seq(Operation) /\ Len(Outranked(f)) = Len(f) /\ DOMAIN Outranked(f) = DOMAIN f
  BY <1>1 DEF Outranked
<1>4. \A i \in DOMAIN f : Outranked(f)[i].current = FALSE
  BY <1>2 DEF Outranked, Operation
<1>. QED BY <1>3, <1>4 DEF NoneCurrent

\* A new operation is the last.
LEMMA AppendedTo ==
  ASSUME NEW f \in Seq(Operation), NEW o \in Operation
  PROVE  /\ DOMAIN f = 1 .. Len(f) /\ Len(f) \in Nat
         /\ Append(f, o) \in Seq(Operation) /\ DOMAIN Append(f, o) = 1 .. Len(f) + 1
         /\ \A i \in DOMAIN f : i \in DOMAIN Append(f, o) /\ Append(f, o)[i] = f[i]
         /\ Append(f, o)[Len(f) + 1] = o
         /\ \A i \in DOMAIN Append(f, o) : i \in DOMAIN f \/ i = Len(f) + 1
OBVIOUS

\* After an outranking, a new operation is the only one that can be current.
LEMMA AppendFacts ==
  ASSUME NEW f \in Seq(Operation), NoneCurrent(f), NEW o \in Operation
  PROVE  /\ Append(f, o) \in Seq(Operation)
         /\ Len(Append(f, o)) = Len(f) + 1
         /\ OneCurrent(Append(f, o))
         /\ OfDay(Append(f, o), o.day, o.store)
         /\ o.current = FALSE => NoneCurrent(Append(f, o))
         /\ Last(Append(f, o)) = o
<1>1. /\ Append(f, o) \in Seq(Operation)
      /\ Len(Append(f, o)) = Len(f) + 1
      /\ DOMAIN Append(f, o) = 1 .. Len(f) + 1
      /\ \A i \in 1 .. Len(f) : Append(f, o)[i] = f[i]
      /\ Append(f, o)[Len(f) + 1] = o
  OBVIOUS
<1>2. \A i \in 1 .. Len(f) + 1 : i \in 1 .. Len(f) \/ i = Len(f) + 1
  OBVIOUS
<1>3. \A i \in 1 .. Len(f) : ~Append(f, o)[i].current
  BY <1>1 DEF NoneCurrent
<1>. QED BY <1>1, <1>2, <1>3 DEF OneCurrent, OfDay, NoneCurrent, Last

\* Where the j-th operation was before the i-th was removed.
Was(i, j) == IF j < i THEN j ELSE j + 1

\* What is left keeps its order.
LEMMA RemovedFrom ==
  ASSUME NEW f \in Seq(Operation), NEW i \in DOMAIN f
  PROVE  /\ RemoveAt(f, i) \in Seq(Operation)
         /\ Len(RemoveAt(f, i)) = Len(f) - 1
         /\ \A j \in DOMAIN RemoveAt(f, i) :
              Was(i, j) \in DOMAIN f /\ Was(i, j) # i /\ RemoveAt(f, i)[j] = f[Was(i, j)]
         /\ \A j, k \in DOMAIN RemoveAt(f, i) : j < k <=> Was(i, j) < Was(i, k)
         /\ \A j, k \in DOMAIN RemoveAt(f, i) : Was(i, j) = Was(i, k) => j = k
         /\ \A k \in DOMAIN f : k # i => \E j \in DOMAIN RemoveAt(f, i) : Was(i, j) = k
<1> DEFINE g == RemoveAt(f, i)
<1>1. /\ g \in Seq(Operation)
      /\ Len(g) = Len(f) - 1
      /\ DOMAIN g = 1 .. Len(f) - 1
      /\ \A j \in 1 .. Len(f) - 1 : g[j] = f[Was(i, j)]
  <2> DEFINE a == SubSeq(f, 1, i - 1)
             b == SubSeq(f, i + 1, Len(f))
  <2>1. a \in Seq(Operation) /\ Len(a) = i - 1 /\ \A j \in 1 .. i - 1 : a[j] = f[j]
    OBVIOUS
  <2>2. /\ b \in Seq(Operation) /\ Len(b) = Len(f) - i
        /\ \A j \in 1 .. Len(f) - i : b[j] = f[i + j]
    OBVIOUS
  <2>3. g = a \o b
    BY DEF RemoveAt
  <2>. HIDE DEF a, b, g
  <2>4. g \in Seq(Operation) /\ Len(g) = Len(f) - 1 /\ DOMAIN g = 1 .. Len(f) - 1
    BY <2>1, <2>2, <2>3
  <2>5. \A j \in 1 .. Len(f) - 1 : g[j] = IF j < i THEN a[j] ELSE b[j - i + 1]
    BY <2>1, <2>2, <2>3
  <2>6. ASSUME NEW j \in 1 .. Len(f) - 1 PROVE g[j] = f[Was(i, j)]
    <3>1. CASE j < i
      BY <3>1, <2>1, <2>5 DEF Was
    <3>2. CASE ~(j < i)
      <4>1. j - i + 1 \in 1 .. Len(f) - i /\ i + (j - i + 1) = j + 1
        BY <3>2
      <4>2. g[j] = b[j - i + 1]
        BY <3>2, <2>5
      <4>3. b[j - i + 1] = f[i + (j - i + 1)]
        BY <4>1, <2>2
      <4>. QED BY <3>2, <4>1, <4>2, <4>3 DEF Was
    <3>. QED BY <3>1, <3>2
  <2>. QED BY <2>4, <2>6
<1>2. \A j \in DOMAIN g : Was(i, j) \in DOMAIN f /\ Was(i, j) # i /\ g[j] = f[Was(i, j)]
  BY <1>1 DEF Was
<1>3. \A j, k \in DOMAIN g : /\ j < k <=> Was(i, j) < Was(i, k)
                             /\ Was(i, j) = Was(i, k) => j = k
  BY <1>1 DEF Was
<1>4. ASSUME NEW k \in DOMAIN f, k # i PROVE \E j \in DOMAIN g : Was(i, j) = k
  <2>1. CASE k < i
    <3>1. k \in DOMAIN g /\ Was(i, k) = k
      BY <1>1, <2>1 DEF Was
    <3>. QED BY <3>1
  <2>2. CASE k > i
    <3>1. k - 1 \in DOMAIN g /\ Was(i, k - 1) = k
      BY <1>1, <2>2 DEF Was
    <3>. QED BY <3>1
  <2>. QED BY <1>4, <2>1, <2>2
<1>. QED BY <1>1, <1>2, <1>3, <1>4 DEF g

\* Removing an operation makes none current, and the last one that was none.
LEMMA RemoveFacts ==
  ASSUME NEW f \in Seq(Operation), NEW i \in DOMAIN f
  PROVE  /\ RemoveAt(f, i) \in Seq(Operation)
         /\ Len(RemoveAt(f, i)) = Len(f) - 1
         /\ OneCurrent(f) => OneCurrent(RemoveAt(f, i))
         /\ \A d, u : OfDay(f, d, u) => OfDay(RemoveAt(f, i), d, u)
         /\ NoneCurrent(f) => NoneCurrent(RemoveAt(f, i))
         /\ OneCurrent(f) /\ f[i].current => NoneCurrent(RemoveAt(f, i))
<1> DEFINE g == RemoveAt(f, i)
<1>1. g \in Seq(Operation) /\ Len(g) = Len(f) - 1
  BY RemovedFrom
<1>2. \A j \in DOMAIN g : Was(i, j) \in DOMAIN f /\ Was(i, j) # i /\ g[j] = f[Was(i, j)]
  BY RemovedFrom
<1>3. \A j, k \in DOMAIN g : Was(i, j) = Was(i, k) => j = k
  BY RemovedFrom
<1>. HIDE DEF g
<1>4. OneCurrent(f) => OneCurrent(g)
  BY <1>2, <1>3 DEF OneCurrent
<1>5. \A d, u : OfDay(f, d, u) => OfDay(g, d, u)
  BY <1>2 DEF OfDay
<1>6. NoneCurrent(f) => NoneCurrent(g)
  BY <1>2 DEF NoneCurrent
<1>7. OneCurrent(f) /\ f[i].current => NoneCurrent(g)
  BY <1>2 DEF OneCurrent, NoneCurrent
<1>. QED BY <1>1, <1>4, <1>5, <1>6, <1>7 DEF g

\* An answer changes neither which operation is current nor what it is of.
LEMMA AnswerFacts ==
  ASSUME NEW f \in Seq(Operation), NEW i \in DOMAIN f, NEW o \in Operation,
         o.current = f[i].current, o.day = f[i].day, o.store = f[i].store
  PROVE  /\ [f EXCEPT ![i] = o] \in Seq(Operation)
         /\ Len([f EXCEPT ![i] = o]) = Len(f)
         /\ OneCurrent(f) => OneCurrent([f EXCEPT ![i] = o])
         /\ \A d, u : OfDay(f, d, u) => OfDay([f EXCEPT ![i] = o], d, u)
         /\ NoneCurrent(f) => NoneCurrent([f EXCEPT ![i] = o])
<1> DEFINE g == [f EXCEPT ![i] = o]
<1>1. g \in Seq(Operation) /\ Len(g) = Len(f) /\ DOMAIN g = DOMAIN f
  OBVIOUS
<1>2. \A j \in DOMAIN f : /\ g[j].current = f[j].current
                          /\ g[j].day = f[j].day
                          /\ g[j].store = f[j].store
  <2>1. \A j \in DOMAIN f : g[j] = IF j = i THEN o ELSE f[j]
    OBVIOUS
  <2>. QED BY <2>1
<1>. HIDE DEF g
<1>3. OneCurrent(f) => OneCurrent(g)
  BY <1>1, <1>2 DEF OneCurrent
<1>4. \A d, u : OfDay(f, d, u) => OfDay(g, d, u)
  BY <1>1, <1>2 DEF OfDay
<1>5. NoneCurrent(f) => NoneCurrent(g)
  BY <1>1, <1>2 DEF NoneCurrent
<1>. QED BY <1>1, <1>3, <1>4, <1>5 DEF g

-----------------------------------------------------------------------------
(* What the parts of the steps do to the hook.                             *)

LEMMA LoadIsOperation ==
  ASSUME NEW d \in Days, NEW u \in Somebody, NEW s PROVE Load(d, u, s) \in Operation
<1>1. Empty \in Texts
  BY BoundsAssumption DEF Empty, Texts, Old
<1>2. (s = "Unlocked") \in BOOLEAN
  OBVIOUS
<1>. QED BY <1>1, <1>2 DEF Load, Operation, Answers

\* A re-run of the load leaves it the one current operation, over a blank day.
LEMMA ReloadFacts ==
  ASSUME NEW d \in Days \cup {None}, NEW u \in Somebody, NEW s, NEW ops \in Seq(Operation),
         Len(ops) < MaxFlight \/ (d = None /\ Len(ops) <= MaxFlight),
         Reload(d, u, s, ops)
  PROVE  /\ Hook(flight', d, u, shown') /\ Len(flight') <= MaxFlight
         /\ shown' = None
         /\ d = None \/ Last(flight').current
<1>0. MaxFlight \in Nat
  BY BoundsAssumption
<1>1. /\ Outranked(ops) \in Seq(Operation)
      /\ Len(Outranked(ops)) = Len(ops)
      /\ NoneCurrent(Outranked(ops))
  BY OutrankedFacts
<1>2. shown' = None
  BY DEF Reload
<1>3. CASE d = None
  <2>1. flight' = Outranked(ops)
    BY <1>3 DEF Reload
  <2>2. OneCurrent(flight') /\ OfDay(flight', d, u)
    BY <1>1, <2>1 DEF NoneCurrent, OneCurrent, OfDay
  <2>. QED BY <1>0, <1>1, <1>2, <1>3, <2>1, <2>2 DEF Hook
<1>4. CASE d # None
  <2>1. flight' = Append(Outranked(ops), Load(d, u, s))
    BY <1>4 DEF Reload
  <2>2. /\ Load(d, u, s) \in Operation
        /\ Load(d, u, s).day = d /\ Load(d, u, s).store = u /\ Load(d, u, s).current = TRUE
    BY <1>4, LoadIsOperation DEF Load
  <2>3. /\ flight' \in Seq(Operation) /\ Len(flight') = Len(ops) + 1
        /\ OneCurrent(flight') /\ OfDay(flight', d, u) /\ Last(flight') = Load(d, u, s)
    BY <1>1, <2>1, <2>2, AppendFacts
  <2>. QED BY <1>0, <1>2, <1>4, <2>2, <2>3 DEF Hook
<1>. QED BY <1>3, <1>4

\* A change of the session keeps the hook in order, re-run or not.
LEMMA PublishFacts ==
  ASSUME NEW s \in Sessions, NEW ops \in Seq(Operation), Len(ops) < MaxFlight,
         day \in Days \cup {None}, user \in Somebody,
         Hook(ops, day, user, shown), Publish(s, ops)
  PROVE  /\ Hook(flight', day, user, shown') /\ Len(flight') <= MaxFlight
         /\ session' \in Sessions
         /\ \/ shown' = shown
            \/ shown' = None /\ (day = None \/ Last(flight').current)
<1>0. MaxFlight \in Nat
  BY BoundsAssumption
<1>1. CASE "Unlocked" \in {s, session}
  <2>1. Reload(day, user, s, ops)
    BY <1>1 DEF Publish
  <2>. QED BY <2>1, ReloadFacts DEF Publish
<1>2. CASE "Unlocked" \notin {s, session}
  BY <1>0, <1>2 DEF Publish
<1>. QED BY <1>1, <1>2

\* An operation that is done leaves the hook in order.
LEMMA RemovalFacts ==
  ASSUME NEW i \in DOMAIN flight, HookInv
  PROVE  /\ RemoveAt(flight, i) \in Seq(Operation)
         /\ Hook(RemoveAt(flight, i), day, user, shown)
         /\ Len(RemoveAt(flight, i)) < MaxFlight
         /\ flight[i].current =>
              /\ NoneCurrent(RemoveAt(flight, i))
              /\ flight[i].day = day /\ flight[i].store = user /\ shown = None
<1>0. MaxFlight \in Nat
  BY BoundsAssumption
<1>1. flight \in Seq(Operation)
  BY DEF HookInv, Hook
<1>2. /\ RemoveAt(flight, i) \in Seq(Operation)
      /\ Len(RemoveAt(flight, i)) = Len(flight) - 1
      /\ OneCurrent(flight) => OneCurrent(RemoveAt(flight, i))
      /\ \A d, u : OfDay(flight, d, u) => OfDay(RemoveAt(flight, i), d, u)
      /\ NoneCurrent(flight) => NoneCurrent(RemoveAt(flight, i))
      /\ OneCurrent(flight) /\ flight[i].current => NoneCurrent(RemoveAt(flight, i))
  BY <1>1, RemoveFacts
<1>3. Hook(RemoveAt(flight, i), day, user, shown)
  BY <1>2 DEF HookInv, Hook
<1>4. Len(RemoveAt(flight, i)) < MaxFlight
  BY <1>0, <1>1, <1>2 DEF HookInv
<1>5. ASSUME flight[i].current
      PROVE  /\ NoneCurrent(RemoveAt(flight, i))
             /\ flight[i].day = day /\ flight[i].store = user /\ shown = None
  BY <1>2, <1>5 DEF HookInv, Hook, OfDay, NoneCurrent
<1>. QED BY <1>2, <1>3, <1>4, <1>5

\* So does an answer that comes back to a load.
LEMMA AnsweredFacts ==
  ASSUME NEW i \in DOMAIN flight, HookInv, NEW o \in Operation,
         o.current = flight[i].current, o.day = flight[i].day, o.store = flight[i].store
  PROVE  /\ Hook([flight EXCEPT ![i] = o], day, user, shown)
         /\ Len([flight EXCEPT ![i] = o]) <= MaxFlight
<1>1. flight \in Seq(Operation)
  BY DEF HookInv, Hook
<1>2. /\ [flight EXCEPT ![i] = o] \in Seq(Operation)
      /\ Len([flight EXCEPT ![i] = o]) = Len(flight)
      /\ OneCurrent(flight) => OneCurrent([flight EXCEPT ![i] = o])
      /\ \A d, u : OfDay(flight, d, u) => OfDay([flight EXCEPT ![i] = o], d, u)
      /\ NoneCurrent(flight) => NoneCurrent([flight EXCEPT ![i] = o])
  BY <1>1, AnswerFacts
<1>. QED BY <1>2 DEF HookInv, Hook

-----------------------------------------------------------------------------
(* The invariant.                                                          *)

LEMMA InvImpliesTypeOK == Inv => TypeOK
BY DEF Inv, Rest, HookInv, Hook, OneCurrent, TypeOK

LEMMA InvImpliesShown == Inv => ShownIsThisDays
BY DEF Inv, HookInv, Hook, ShownIsThisDays

\* The one load of a page that has just been opened.
LEMMA InitInv == Init => Inv
<1> SUFFICES ASSUME Init PROVE Inv
  OBVIOUS
<1>0. MaxActs \in Nat /\ MaxFlight \in Nat \ {0}
  BY BoundsAssumption
<1>1. Empty \in Texts /\ Old \in Texts
  BY <1>0 DEF Empty, Texts, Old
<1>2. Rest
  <2>1. rows \in [Accounts -> [Days -> Row \cup {None}]]
    <3>1. [text : {Old}, key : Accounts \cup {Damaged}] \subseteq Row
      BY <1>1 DEF Row
    <3>. QED BY <3>1 DEF Init
  <2>2. local \in [Days -> Texts \cup {None}]
    BY <1>1 DEF Init
  <2>3. cookie \in Somebody /\ user \in Somebody /\ enabled \in SUBSET Accounts
    BY DEF Init
  <2>4. session \in Sessions /\ day \in Days \cup {None} /\ acts \in 0 .. MaxActs
    BY <1>0 DEF Init, Sessions
  <2>5. reprobed \in BOOLEAN /\ amiss \in BOOLEAN
    BY DEF Init
  <2>. QED BY <2>1, <2>2, <2>3, <2>4, <2>5 DEF Rest
<1>3. flight \in Seq(Operation) /\ Len(flight) = 1
      /\ flight[1] = Load(day, cookie, "Unknown")
  <2>1. Load(day, cookie, "Unknown") \in Operation
    BY <1>1, Zenon DEF Init, Load, Operation, Answers, Somebody
  <2>. QED BY <2>1 DEF Init
<1>4. HookInv
  BY <1>0, <1>3 DEF Init, HookInv, Hook, OneCurrent, OfDay, Load
<1>. QED BY <1>2, <1>4 DEF Inv
-----------------------------------------------------------------------------
(* Each step keeps the invariant.                                          *)

\* What a step of the hook has to show.
LEMMA HookPrime ==
  ASSUME Hook(flight', day', user', shown'), Len(flight') <= MaxFlight
  PROVE  HookInv'
BY DEF HookInv

LEMMA NavigateKeeps == ASSUME Inv, NEW d \in Days, Navigate(d) PROVE Inv'
<1>1. Hook(flight', d, user, shown') /\ Len(flight') <= MaxFlight
  <2>1. flight \in Seq(Operation) /\ Len(flight) < MaxFlight /\ Reload(d, user, session, flight)
    BY DEF Inv, HookInv, Hook, Navigate, Room
  <2>2. d \in Days \cup {None} /\ user \in Somebody
    BY DEF Inv, Rest
  <2>. QED BY <2>1, <2>2, ReloadFacts
<1>2. HookInv'
  BY <1>1, HookPrime DEF Navigate
<1>3. acts' \in 0 .. MaxActs
  BY BoundsAssumption DEF Inv, Rest, Navigate, Act
<1>4. Rest'
  BY <1>3 DEF Inv, Rest, Navigate, server
<1>. QED BY <1>2, <1>4 DEF Inv

LEMMA KeystrokeKeeps == ASSUME Inv, NEW t \in {Empty, acts + 1}, Keystroke(t) PROVE Inv'
<1>0. MaxActs \in Nat /\ MaxFlight \in Nat \ {0}
  BY BoundsAssumption
<1>1. acts' \in 0 .. MaxActs /\ acts \in 0 .. MaxActs /\ acts < MaxActs
  BY <1>0 DEF Inv, Rest, Keystroke, Act
<1>2. t \in Texts
  BY <1>0, <1>1 DEF Empty, Texts, Old
<1>3. day \in Days /\ user \in Somebody
  BY DEF Inv, Rest, Keystroke, Editable
<1>4. flight \in Seq(Operation) /\ Len(flight) < MaxFlight /\ Len(flight) \in Nat
  BY DEF Inv, HookInv, Hook, Keystroke, Room
<1>5. shown' \in Shown /\ shown'.day = day /\ shown'.store = user
  <2>1. shown' = [text |-> t, day |-> day, store |-> user, typed |-> TRUE]
    BY DEF Keystroke
  <2>. QED BY <1>2, <1>3, <2>1 DEF Shown
<1>6. NoneCurrent(flight') /\ flight' \in Seq(Operation) /\ Len(flight') <= MaxFlight
  <2>1. /\ Outranked(flight) \in Seq(Operation)
        /\ Len(Outranked(flight)) = Len(flight)
        /\ NoneCurrent(Outranked(flight))
    BY <1>4, OutrankedFacts
  <2>2. CASE flight' = Outranked(flight)
    BY <1>0, <1>4, <2>1, <2>2
  <2>3. CASE flight' = Append(Outranked(flight), Save(day, user, session, t))
    <3>1. (session = "Unlocked") \in BOOLEAN
      OBVIOUS
    <3>2. Save(day, user, session, t) \in Operation
      BY <1>2, <1>3, <3>1 DEF Save, Operation, Answers
    <3>3. Save(day, user, session, t).current = FALSE
      BY DEF Save
    <3>4. /\ flight' \in Seq(Operation) /\ Len(flight') = Len(flight) + 1
          /\ NoneCurrent(flight')
      BY <2>1, <2>3, <3>2, <3>3, AppendFacts
    <3>. QED BY <1>0, <1>4, <3>4
  <2>. QED BY <2>2, <2>3 DEF Keystroke
<1>7. OneCurrent(flight') /\ OfDay(flight', day, user)
  BY <1>6 DEF NoneCurrent, OneCurrent, OfDay
<1>8. day' = day /\ user' = user
  BY DEF Keystroke, page
<1>9. HookInv'
  BY <1>5, <1>6, <1>7, <1>8, HookPrime DEF Hook
<1>10. Rest'
  BY <1>1 DEF Inv, Rest, Keystroke, server, page
<1>. QED BY <1>9, <1>10 DEF Inv

\* The steps that publish a session and leave the rest of the page alone.
LEMMA PublishingKeeps ==
  ASSUME Inv, NEW s \in Sessions, Room, Publish(s, flight),
         acts' \in 0 .. MaxActs, UNCHANGED <<server, local, user, reprobed, day, amiss>>
  PROVE  Inv'
<1>1. /\ flight \in Seq(Operation) /\ Len(flight) < MaxFlight
      /\ day \in Days \cup {None} /\ user \in Somebody
      /\ Hook(flight, day, user, shown)
  BY DEF Inv, Rest, HookInv, Hook, Room
<1>2. Hook(flight', day, user, shown') /\ Len(flight') <= MaxFlight /\ session' \in Sessions
  BY <1>1, PublishFacts
<1>3. HookInv'
  BY <1>2, HookPrime
<1>4. Rest'
  BY <1>2 DEF Inv, Rest, server
<1>. QED BY <1>3, <1>4 DEF Inv

\* Retry publishes one keyless state after another: nothing is read again.
LEMMA RetryKeeps == ASSUME Inv, Retry PROVE Inv'
<1>1. session' = "Unknown" /\ flight' = flight /\ shown' = shown
  BY DEF Retry, Publish
<1>2. acts' \in 0 .. MaxActs
  BY BoundsAssumption DEF Inv, Rest, Retry, Act
<1>3. HookInv'
  BY <1>1 DEF Inv, HookInv, Retry
<1>4. Rest'
  BY <1>1, <1>2 DEF Inv, Rest, Retry, Sessions, server
<1>. QED BY <1>3, <1>4 DEF Inv

\* A page load and a sign-out read the day again from another store.
LEMMA AnotherStoreKeeps ==
  ASSUME Inv, SignOutTold \/ PageLoad
  PROVE  Inv'
<1>1. user' \in Somebody /\ session' \in Sessions /\ reprobed' \in BOOLEAN /\ acts' \in 0 .. MaxActs
  <2>1. acts' \in 0 .. MaxActs
    BY BoundsAssumption DEF Inv, Rest, SignOutTold, PageLoad, Act
  <2>2. user' \in Somebody /\ session' \in Sessions
    BY DEF Inv, Rest, SignOutTold, PageLoad, Somebody, Sessions
  <2>3. reprobed' \in BOOLEAN
    BY DEF Inv, Rest, SignOutTold, PageLoad
  <2>. QED BY <2>1, <2>2, <2>3
<1>2. \E s : Reload(day, user', s, flight)
  BY DEF SignOutTold, PageLoad
<1>3. /\ flight \in Seq(Operation) /\ Len(flight) < MaxFlight /\ day \in Days \cup {None}
  BY DEF Inv, Rest, HookInv, Hook, SignOutTold, PageLoad, Room
<1>4. \E s : \E u \in Somebody : user' = u /\ Reload(day, u, s, flight)
  BY <1>1, <1>2
<1>5. Hook(flight', day, user', shown') /\ Len(flight') <= MaxFlight
  BY <1>3, <1>4, ReloadFacts
<1>6. HookInv'
  BY <1>5, HookPrime DEF SignOutTold, PageLoad
<1>7. Rest'
  BY <1>1 DEF Inv, Rest, SignOutTold, PageLoad, server
<1>. QED BY <1>6, <1>7 DEF Inv

LEMMA SetupGateKeeps == ASSUME Inv, SetupGate PROVE Inv'
<1>1. /\ flight \in Seq(Operation) /\ Len(flight) <= MaxFlight
      /\ None \in Days \cup {None} /\ user \in Somebody
      /\ Reload(None, user, "Unknown", flight)
  BY DEF Inv, Rest, HookInv, Hook, SetupGate
<1>2. Hook(flight', None, user, shown') /\ Len(flight') <= MaxFlight
  BY <1>1, ReloadFacts
<1>3. HookInv'
  BY <1>2, HookPrime DEF SetupGate
<1>4. Rest'
  BY DEF Inv, Rest, SetupGate, Sessions, server
<1>. QED BY <1>3, <1>4 DEF Inv
LEMMA ServeSaveKeeps == ASSUME Inv, NEW i \in DOMAIN flight, ServeSave(i) PROVE Inv'
<1>1. flight[i] \in Operation
  BY DEF Inv, HookInv, Hook
<1>2. HookInv'
  <2>1. Hook(RemoveAt(flight, i), day, user, shown) /\ Len(RemoveAt(flight, i)) < MaxFlight
    BY RemovalFacts DEF Inv
  <2>2. Len(RemoveAt(flight, i)) <= MaxFlight
    BY <2>1, BoundsAssumption DEF Hook
  <2>3. UNCHANGED <<day, user, shown>> /\ flight' = RemoveAt(flight, i)
    BY DEF ServeSave, page
  <2>. QED BY <2>1, <2>2, <2>3, HookPrime
<1>3. local' \in [Days -> Texts \cup {None}]
  BY <1>1 DEF Inv, Rest, ServeSave, Operation
<1>4. rows' \in [Accounts -> [Days -> Row \cup {None}]]
  <2>1. CASE rows' = rows
    BY <2>1 DEF Inv, Rest
  <2>2. CASE /\ flight[i].store # None /\ cookie \in enabled
             /\ rows' = [rows EXCEPT ![cookie][flight[i].day] =
                           [text |-> flight[i].text, key |-> flight[i].store]]
    <3>1. /\ cookie \in Accounts /\ flight[i].day \in Days
          /\ [text |-> flight[i].text, key |-> flight[i].store] \in Row
      BY <1>1, <2>2 DEF Inv, Rest, Operation, Row, Somebody
    <3>. QED BY <2>2, <3>1 DEF Inv, Rest
  <2>. QED BY <2>1, <2>2 DEF ServeSave
<1>5. amiss' \in BOOLEAN
  BY DEF ServeSave
<1>6. Rest'
  BY <1>3, <1>4, <1>5 DEF Inv, Rest, ServeSave, page
<1>. QED BY <1>2, <1>6 DEF Inv

LEMMA ServeLoadKeeps == ASSUME Inv, NEW i \in DOMAIN flight, ServeLoad(i) PROVE Inv'
<1> DEFINE o == flight[i]
<1>1. o \in Operation
  BY DEF Inv, HookInv, Hook
<1>2. PICK a \in Answers, t \in Texts : flight' = [flight EXCEPT ![i] = [o EXCEPT !.answer = a, !.text = t]]
  <2>0. Empty \in Texts
    BY BoundsAssumption DEF Empty, Texts, Old
  <2>1. /\ {"text", "failed", "sealed", "unopenable"} \subseteq Answers
        /\ o.text \in Texts /\ o.day \in Days
    BY <1>1 DEF Operation, Answers
  <2>2. CASE o.store = None
    <3>1. (IF local[o.day] = None THEN Empty ELSE local[o.day]) \in Texts
      BY <2>0, <2>1 DEF Inv, Rest
    <3>. QED BY <2>1, <2>2, <3>1 DEF ServeLoad
  <2>3. CASE o.store # None /\ cookie = None
    <3>1. flight' = [flight EXCEPT ![i] = [o EXCEPT !.answer = "failed"]]
      BY <2>3 DEF ServeLoad
    <3>2. [o EXCEPT !.answer = "failed"] = [o EXCEPT !.answer = "failed", !.text = o.text]
      BY <1>1 DEF Operation
    <3>. QED BY <2>1, <3>1, <3>2
  <2>4. CASE o.store # None /\ cookie # None
    <3>1. flight' = [flight EXCEPT ![i] = ReadRow(o, rows[cookie][o.day])]
      BY <2>4 DEF ServeLoad
    <3>2. rows[cookie][o.day] \in Row \cup {None}
      BY <2>1, <2>4 DEF Inv, Rest, Somebody
    <3>3. \A b \in Answers : [o EXCEPT !.answer = b] = [o EXCEPT !.answer = b, !.text = o.text]
      BY <1>1 DEF Operation
    <3>4. \E a \in Answers, t \in Texts :
            ReadRow(o, rows[cookie][o.day]) = [o EXCEPT !.answer = a, !.text = t]
      BY <2>1, <3>2, <3>3 DEF ReadRow, Row
    <3>. QED BY <3>1, <3>4
  <2>. QED BY <2>2, <2>3, <2>4
<1>3. /\ [o EXCEPT !.answer = a, !.text = t] \in Operation
      /\ [o EXCEPT !.answer = a, !.text = t].current = o.current
      /\ [o EXCEPT !.answer = a, !.text = t].day = o.day
      /\ [o EXCEPT !.answer = a, !.text = t].store = o.store
  BY <1>1, <1>2 DEF Operation
<1>4. Hook(flight', day, user, shown) /\ Len(flight') <= MaxFlight
  BY <1>2, <1>3, AnsweredFacts DEF Inv
<1>5. HookInv'
  BY <1>4, HookPrime DEF ServeLoad, page
<1>6. amiss' \in BOOLEAN
  BY DEF ServeLoad
<1>7. Rest'
  BY <1>6 DEF Inv, Rest, ServeLoad, server, page
<1>. QED BY <1>5, <1>7 DEF Inv

LEMMA FailKeeps == ASSUME Inv, NEW i \in DOMAIN flight, Fail(i) PROVE Inv'
<1> DEFINE o == [flight[i] EXCEPT !.answer = "failed"]
<1>1. Hook(flight', day, user, shown) /\ Len(flight') <= MaxFlight
  <2>1. CASE flight' = RemoveAt(flight, i)
    <3>1. Hook(RemoveAt(flight, i), day, user, shown) /\ Len(RemoveAt(flight, i)) < MaxFlight
      BY RemovalFacts DEF Inv
    <3>. QED BY <2>1, <3>1, BoundsAssumption DEF Hook
  <2>2. CASE flight' = [flight EXCEPT ![i].answer = "failed"]
    <3>1. flight[i] \in Operation
      BY DEF Inv, HookInv, Hook
    <3>2. o \in Operation /\ o.current = flight[i].current /\ o.day = flight[i].day
          /\ o.store = flight[i].store
      BY <3>1 DEF Operation, Answers
    <3>3. Hook([flight EXCEPT ![i] = o], day, user, shown)
          /\ Len([flight EXCEPT ![i] = o]) <= MaxFlight
      BY <3>2, AnsweredFacts DEF Inv
    <3>4. flight' = [flight EXCEPT ![i] = o]
      BY <2>2
    <3>. QED BY <3>3, <3>4
  <2>. QED BY <2>1, <2>2 DEF Fail
<1>2. HookInv'
  BY <1>1, HookPrime DEF Fail, page
<1>3. Rest'
  BY DEF Inv, Rest, Fail, server, page
<1>. QED BY <1>2, <1>3 DEF Inv

\* What arrives for the current load ends on screen, as that day's text, or
\* starts the load again; what arrives for another load ends nowhere.
LEMMA ArriveKeeps == ASSUME Inv, NEW i \in DOMAIN flight, Arrive(i) PROVE Inv'
<1> DEFINE o == flight[i]
           rest == RemoveAt(flight, i)
<1>1. o \in Operation
  BY DEF Inv, HookInv, Hook
<1>2. /\ rest \in Seq(Operation)
      /\ Hook(rest, day, user, shown)
      /\ Len(rest) < MaxFlight /\ Len(rest) <= MaxFlight
      /\ o.current =>
           NoneCurrent(rest) /\ o.day = day /\ o.store = user /\ shown = None
  <2>1. /\ rest \in Seq(Operation)
        /\ Hook(rest, day, user, shown)
        /\ Len(rest) < MaxFlight
        /\ o.current =>
             NoneCurrent(rest) /\ o.day = day /\ o.store = user /\ shown = None
    BY RemovalFacts DEF Inv
  <2>. QED BY <2>1, BoundsAssumption
<1>3. UNCHANGED <<day, user>>
  BY DEF Arrive
<1>. HIDE DEF rest
<1>4. ASSUME o.current, ShowLoaded(o), flight' = rest
      PROVE  Hook(flight', day, user, shown')
  <2>1. shown' = [text |-> o.text, day |-> o.day, store |-> o.store, typed |-> FALSE]
    BY <1>4 DEF ShowLoaded
  <2>2. shown' \in Shown /\ shown'.day = day /\ shown'.store = user
    BY <1>1, <1>2, <1>4, <2>1 DEF Shown, Operation
  <2>. QED BY <1>2, <1>4, <2>2 DEF Hook
<1>5. ASSUME Publish("Unknown", rest)
      PROVE  Hook(flight', day, user, shown') /\ Len(flight') <= MaxFlight /\ session' \in Sessions
  <2>1. "Unknown" \in Sessions /\ day \in Days \cup {None} /\ user \in Somebody
    BY DEF Inv, Rest, Sessions
  <2>. QED BY <1>2, <1>5, <2>1, PublishFacts
<1>6. /\ Hook(flight', day, user, shown') /\ Len(flight') <= MaxFlight
      /\ session' \in Sessions /\ reprobed' \in BOOLEAN
  <2>0. session \in Sessions /\ reprobed \in BOOLEAN
    BY DEF Inv, Rest
  <2>1. CASE o.current /\ o.answer = "unopenable" /\ UnopenableRowSeen(o, rest)
    <3>1. CASE reprobed' = TRUE /\ Publish("Unknown", rest)
      BY <1>5, <3>1
    <3>2. CASE ShowLoaded(o) /\ flight' = rest /\ UNCHANGED <<session, reprobed>>
      BY <1>2, <1>4, <2>0, <2>1, <3>2
    <3>. QED BY <2>1, <3>1, <3>2 DEF UnopenableRowSeen
  <2>2. CASE o.current /\ ShowLoaded(o) /\ flight' = rest /\ UNCHANGED <<session, reprobed>>
    BY <1>2, <1>4, <2>0, <2>2
  <2>3. CASE flight' = rest /\ UNCHANGED <<shown, session, reprobed>>
    BY <1>2, <2>0, <2>3
  <2>. QED BY <2>1, <2>2, <2>3 DEF Arrive, rest
<1>7. HookInv'
  BY <1>3, <1>6, HookPrime
<1>8. Rest'
  BY <1>6 DEF Inv, Rest, Arrive, server
<1>. QED BY <1>7, <1>8 DEF Inv

\* What other tabs and devices do is not about the hook.
LEMMA ElsewhereKeeps ==
  ASSUME Inv, \/ \E c \in Somebody : CookieMovesTo(c)
              \/ \E a \in Accounts : Encrypted(a)
  PROVE  Inv'
<1>1. HookInv'
  BY DEF Inv, HookInv, CookieMovesTo, Encrypted, page
<1>2. acts' \in 0 .. MaxActs
  BY BoundsAssumption DEF Inv, Rest, CookieMovesTo, Encrypted, Act
<1>3. cookie' \in Somebody /\ enabled' \in SUBSET Accounts
  BY DEF Inv, Rest, CookieMovesTo, Encrypted
<1>4. Rest'
  BY <1>2, <1>3 DEF Inv, Rest, CookieMovesTo, Encrypted, page
<1>. QED BY <1>1, <1>4 DEF Inv
LEMMA NextKeepsInv == Inv /\ [Next]_vars => Inv'
<1> SUFFICES ASSUME Inv, [Next]_vars PROVE Inv'
  OBVIOUS
<1>1. CASE SetupGate
  BY <1>1, SetupGateKeeps
<1>2. CASE ProbeAnswers
  <2>1. PICK s \in Sessions : Publish(s, flight)
    BY <1>2 DEF ProbeAnswers, Sessions
  <2>2. acts' \in 0 .. MaxActs
    BY <1>2 DEF ProbeAnswers, Inv, Rest
  <2>. QED BY <1>2, <2>1, <2>2, PublishingKeeps DEF ProbeAnswers
<1>3. ASSUME NEW i \in DOMAIN flight, ServeSave(i) \/ ServeLoad(i) \/ Fail(i) \/ Arrive(i)
      PROVE  Inv'
  BY <1>3, ServeSaveKeeps, ServeLoadKeeps, FailKeeps, ArriveKeeps
<1>4. ASSUME NEW d \in Days, Navigate(d) PROVE Inv'
  BY <1>4, NavigateKeeps
<1>5. ASSUME NEW t \in {Empty, acts + 1}, Keystroke(t) PROVE Inv'
  BY <1>5, KeystrokeKeeps
<1>6. CASE Unlock \/ LockNow
  <2>1. PICK s \in Sessions : Publish(s, flight)
    BY <1>6 DEF Unlock, LockNow, Sessions
  <2>2. acts' \in 0 .. MaxActs
    BY <1>6, BoundsAssumption DEF Unlock, LockNow, Act, Inv, Rest
  <2>. QED BY <1>6, <2>1, <2>2, PublishingKeeps DEF Unlock, LockNow
<1>7. CASE Retry
  BY <1>7, RetryKeeps
<1>8. CASE SignOutTold \/ PageLoad
  BY <1>8, AnotherStoreKeeps
<1>9. CASE \/ \E c \in Somebody : CookieMovesTo(c)
           \/ \E a \in Accounts : Encrypted(a)
  BY <1>9, ElsewhereKeeps
<1>10. CASE UNCHANGED vars
  BY <1>10 DEF vars, Inv, Rest, HookInv
<1>. QED
  BY <1>1, <1>2, <1>3, <1>4, <1>5, <1>6, <1>7, <1>8, <1>9, <1>10 DEF Next, Answered

LEMMA InvHolds == Spec => []Inv
<1>1. Init => Inv
  BY InitInv
<1>2. Inv /\ [Next]_vars => Inv'
  BY NextKeepsInv
<1>. QED BY <1>1, <1>2, PTL DEF Spec

-----------------------------------------------------------------------------
(* Theorems.                                                               *)

\* Every variable keeps its type, and no two loads may both publish.
THEOREM TypeCorrect == Spec => []TypeOK
BY InvHolds, InvImpliesTypeOK, PTL

\* For any number of accounts, days, operations in flight and steps of the others,
\* the text on screen is of the day and the store on screen: no load of another
\* day, of another account or of this browser's own storage publishes there.
THEOREM ShownBelongs == Spec => []ShownIsThisDays
BY InvHolds, InvImpliesShown, PTL

\* Once a day shows anything, no load in flight may publish; so what changes typed
\* text is another keystroke, or the blanking that goes with a new load.
LEMMA StepKeepsTyped ==
  ASSUME Inv, [Next]_vars, shown # None, shown.typed, shown' # shown
  PROVE  \/ shown' # None /\ shown'.typed
         \/ shown' = None /\ (day' = None \/ Last(flight').current)
<1> DEFINE Goal == \/ shown' # None /\ shown'.typed
                   \/ shown' = None /\ (day' = None \/ Last(flight').current)
<1>0. /\ flight \in Seq(Operation) /\ Len(flight) <= MaxFlight
      /\ day \in Days \cup {None} /\ user \in Somebody
      /\ Hook(flight, day, user, shown) /\ HookInv
      /\ Len(flight) < MaxFlight <=> Room
  BY DEF Inv, Rest, HookInv, Hook, Room
<1>1. CASE SetupGate
  BY <1>0, <1>1 DEF SetupGate, Reload
<1>2. ASSUME NEW s \in Sessions, Room, Publish(s, flight), day' = day
      PROVE  Goal
  BY <1>0, <1>2, PublishFacts
<1>3. CASE ProbeAnswers \/ Unlock \/ LockNow
  <2>1. \E s \in Sessions : Publish(s, flight)
    BY <1>3 DEF ProbeAnswers, Unlock, LockNow, Sessions
  <2>. QED BY <1>2, <1>3, <2>1 DEF ProbeAnswers, Unlock, LockNow
<1>4. ASSUME NEW i \in DOMAIN flight, Arrive(i) PROVE Goal
  <2>1. ~flight[i].current
    BY <1>0 DEF Hook, NoneCurrent
  <2>. QED BY <1>4, <2>1 DEF Arrive
<1>5. ASSUME NEW d \in Days, Navigate(d) PROVE Goal
  <2>1. Room /\ Reload(d, user, session, flight)
    BY <1>5 DEF Navigate
  <2>2. shown' = None /\ (d = None \/ Last(flight').current)
    BY <1>0, <2>1, ReloadFacts
  <2>. QED BY <1>5, <2>2 DEF Navigate
<1>6. ASSUME NEW t \in {Empty, acts + 1}, Keystroke(t) PROVE Goal
  <2>1. shown' = [text |-> t, day |-> day, store |-> user, typed |-> TRUE]
    BY <1>6 DEF Keystroke
  <2>2. shown' # None
    <3>1. day \in Days /\ user \in Somebody
      BY <1>0, <1>6 DEF Keystroke, Editable
    <3>2. t \in Texts
      BY <1>6, BoundsAssumption DEF Inv, Rest, Keystroke, Act, Empty, Texts, Old
    <3>3. shown' \in Shown
      BY <2>1, <3>1, <3>2 DEF Shown
    <3>. QED BY <3>3, AbsentAssumption
  <2>. QED BY <2>1, <2>2
<1>7. CASE SignOutTold \/ PageLoad
  <2>1. user' \in Somebody /\ day' = day
    BY <1>7 DEF Inv, Rest, SignOutTold, PageLoad, Somebody
  <2>2. \E s : \E u \in Somebody : Reload(day, u, s, flight)
    BY <1>7, <2>1 DEF SignOutTold, PageLoad
  <2>3. Len(flight) < MaxFlight
    BY <1>0, <1>7 DEF SignOutTold, PageLoad
  <2>4. shown' = None /\ (day = None \/ Last(flight').current)
    BY <1>0, <2>2, <2>3, ReloadFacts
  <2>. QED BY <2>1, <2>4
<1>8. CASE Retry
  BY <1>8 DEF Retry, Publish
<1>9. ASSUME NEW i \in DOMAIN flight, ServeSave(i) \/ ServeLoad(i) \/ Fail(i) PROVE Goal
  BY <1>9 DEF ServeSave, ServeLoad, Fail
<1>10. CASE \/ \E c \in Somebody : CookieMovesTo(c)
            \/ \E a \in Accounts : Encrypted(a)
  BY <1>10 DEF CookieMovesTo, Encrypted
<1>11. CASE UNCHANGED vars
  BY <1>11 DEF vars
<1>. QED
  BY <1>1, <1>3, <1>4, <1>5, <1>6, <1>7, <1>8, <1>9, <1>10, <1>11 DEF Next, Answered

\* For any constants, no load publishes over what the user has typed.
THEOREM TypedTextStands == Spec => TypedStands
<1>1. Inv /\ [Next]_vars =>
        [shown # None /\ shown.typed /\ shown' # shown =>
           \/ shown' # None /\ shown'.typed
           \/ shown' = None /\ (day' = None \/ Last(flight').current)]_vars
  BY StepKeepsTyped
<1>. QED BY <1>1, InvHolds, PTL DEF Spec, TypedStands

-----------------------------------------------------------------------------
(* The screen and the storage.                                             *)

\* The text of day d in the store u; r and l are what is kept there.  "" is also
\* the text of a row that does not open.
Content(r, l, d, u) ==
  IF u = None THEN IF l[d] = None THEN Empty ELSE l[d]
  ELSE IF r[u][d] = None THEN Empty
  ELSE IF r[u][d].key = u THEN r[u][d].text ELSE Empty

SaveOf(o, d, u) == o.kind = "save" /\ o.day = d /\ o.store = u

\* A save waits, was sent with the key of an encrypted account, and is older than
\* the load that may publish; nothing has been read into a load that waits.
Orderly(f, e) ==
  /\ \A i \in DOMAIN f : f[i].kind = "save" =>
       /\ f[i].answer = "waiting" /\ ~f[i].current
       /\ f[i].store # None => f[i].store \in e
  /\ \A i \in DOMAIN f : f[i].kind = "load" /\ f[i].answer = "waiting" => f[i].text = Empty
  /\ \A i, j \in DOMAIN f : f[i].current /\ f[j].kind = "save" => j < i

\* A load that may publish and has been read carries what is stored, and no save
\* on its way will change that.
Truthful(f, r, l) ==
  \A i \in DOMAIN f : f[i].current =>
    /\ f[i].answer # "failed"
    /\ f[i].answer \in {"text", "unopenable"} =>
         /\ \A j \in DOMAIN f : ~SaveOf(f[j], f[i].day, f[i].store)
         /\ f[i].text = Content(r, l, f[i].day, f[i].store)

\* The newest save of the day holds the text t; if none is on its way, the
\* storage does.
Newest(f, i, d, u) ==
  SaveOf(f[i], d, u) /\ \A j \in DOMAIN f : j > i => ~SaveOf(f[j], d, u)
WillHold(f, r, l, d, u, t) ==
  /\ \A i \in DOMAIN f : Newest(f, i, d, u) => f[i].text = t
  /\ (\A i \in DOMAIN f : ~SaveOf(f[i], d, u)) => Content(r, l, d, u) = t

Faithful(f, r, l, s) ==
  /\ Truthful(f, r, l)
  /\ s # None => WillHold(f, r, l, s.day, s.store, s.text)

ScreenInv ==
  /\ session \in {"Locked", "Unlocked"} => user \in enabled
  /\ Orderly(flight, enabled)
  /\ ~amiss => Faithful(flight, rows, local, shown)

\* On screen is what is stored, or will be.
LEMMA ScreenInvSuffices == Inv /\ ScreenInv => ScreenIsStored
<1> SUFFICES ASSUME Inv, ScreenInv, shown # None, ~Pending, ~amiss PROVE shown.text = Stored
  BY DEF ScreenIsStored
<1>1. shown.day = day /\ shown.store = user
  BY DEF Inv, HookInv, Hook
<1>2. WillHold(flight, rows, local, day, user, shown.text)
  BY <1>1 DEF ScreenInv, Faithful
<1>3. \A i \in DOMAIN flight : ~SaveOf(flight[i], day, user)
  BY DEF Pending, SaveOf
<1>. QED BY <1>2, <1>3 DEF WillHold, Content, Stored

LEMMA InitScreen == Init => ScreenInv
<1> SUFFICES ASSUME Init PROVE ScreenInv
  OBVIOUS
<1>1. /\ DOMAIN flight = {1} /\ flight[1] = Load(day, cookie, "Unknown")
      /\ shown = None /\ session \notin {"Locked", "Unlocked"}
  BY DEF Init
<1>2. /\ flight[1].kind = "load" /\ flight[1].answer = "waiting"
      /\ flight[1].text = Empty
  BY <1>1 DEF Load
<1>. QED BY <1>1, <1>2 DEF ScreenInv, Orderly, Faithful, Truthful

-----------------------------------------------------------------------------
(* What the parts of the steps do to it.                                   *)

\* Outranking changes nothing but what may publish.
LEMMA OutrankedKeeps ==
  ASSUME NEW f \in Seq(Operation), NEW e, Orderly(f, e)
  PROVE  /\ Orderly(Outranked(f), e)
         /\ \A r, l : Truthful(Outranked(f), r, l)
<1> DEFINE g == Outranked(f)
<1>1. \A i \in DOMAIN f : f[i] \in Operation
  OBVIOUS
<1>2. NoneCurrent(g)
  BY OutrankedFacts
<1>3. DOMAIN g = DOMAIN f
  BY DEF Outranked
<1>4. \A i \in DOMAIN f : /\ g[i].kind = f[i].kind /\ g[i].answer = f[i].answer
                          /\ g[i].store = f[i].store /\ g[i].text = f[i].text
  BY <1>1 DEF Outranked, Operation
<1>. HIDE DEF g
<1>5. Orderly(g, e)
  BY <1>2, <1>3, <1>4 DEF Orderly, NoneCurrent
<1>6. \A r, l : Truthful(g, r, l)
  BY <1>2 DEF Truthful, NoneCurrent
<1>. QED BY <1>5, <1>6 DEF g

\* A new load comes after every save, and has nothing to tell yet.
LEMMA ReloadScreen ==
  ASSUME NEW d \in Days \cup {None}, NEW u \in Somebody, NEW s, NEW ops \in Seq(Operation),
         NEW e, Orderly(ops, e), Reload(d, u, s, ops)
  PROVE  Orderly(flight', e) /\ \A r, l : Faithful(flight', r, l, shown')
<1> DEFINE g == Outranked(ops)
           o == Load(d, u, s)
<1>1. g \in Seq(Operation) /\ NoneCurrent(g) /\ Orderly(g, e) /\ \A r, l : Truthful(g, r, l)
  BY OutrankedFacts, OutrankedKeeps
<1>2. shown' = None
  BY DEF Reload
<1>3. CASE d = None
  BY <1>1, <1>2, <1>3 DEF Reload, Faithful
<1>4. CASE d # None
  <2>1. flight' = Append(g, o)
    BY <1>4 DEF Reload
  <2>2. o.kind = "load" /\ o.answer = "waiting" /\ o.text = Empty
    BY DEF Load
  <2>3. \A i \in DOMAIN flight' :
          \/ i \in DOMAIN g /\ flight'[i] = g[i]
          \/ i = Len(g) + 1 /\ flight'[i] = o
    <3>1. o \in Operation
      BY <1>4, LoadIsOperation
    <3>2. /\ \A i \in DOMAIN g : Append(g, o)[i] = g[i]
          /\ Append(g, o)[Len(g) + 1] = o
          /\ \A i \in DOMAIN Append(g, o) : i \in DOMAIN g \/ i = Len(g) + 1
      BY <1>1, <3>1, AppendedTo
    <3>. HIDE DEF g, o
    <3>. QED BY <2>1, <3>2
  <2>0. /\ Len(g) \in Nat /\ DOMAIN g = 1 .. Len(g)
    BY <1>1
  <2>. HIDE DEF g, o
  <2>4. Orderly(flight', e)
    <3>1. ASSUME NEW i \in DOMAIN flight', NEW j \in DOMAIN flight',
                 flight'[i].current, flight'[j].kind = "save"
          PROVE  j < i
      BY <1>1, <2>0, <2>2, <2>3, <3>1 DEF NoneCurrent
    <3>2. \A i \in DOMAIN flight' : flight'[i].kind = "save" =>
            /\ flight'[i].answer = "waiting" /\ ~flight'[i].current
            /\ flight'[i].store # None => flight'[i].store \in e
      BY <1>1, <2>2, <2>3 DEF Orderly
    <3>3. \A i \in DOMAIN flight' : flight'[i].kind = "load" /\ flight'[i].answer = "waiting" =>
            flight'[i].text = Empty
      BY <1>1, <2>2, <2>3 DEF Orderly
    <3>. QED BY <3>1, <3>2, <3>3 DEF Orderly
  <2>5. \A i \in DOMAIN flight' : flight'[i].current => flight'[i].answer = "waiting"
    BY <1>1, <2>2, <2>3 DEF NoneCurrent
  <2>6. \A r, l : Truthful(flight', r, l)
    BY <2>5 DEF Truthful
  <2>. QED BY <1>2, <2>4, <2>6 DEF Faithful
<1>. QED BY <1>3, <1>4

LEMMA PublishScreen ==
  ASSUME day \in Days \cup {None}, user \in Somebody, NEW s, NEW ops \in Seq(Operation),
         NEW e, Orderly(ops, e), Publish(s, ops)
  PROVE  /\ Orderly(flight', e)
         /\ \A r, l : Faithful(ops, r, l, shown) => Faithful(flight', r, l, shown')
<1>1. CASE Reload(day, user, s, ops)
  BY <1>1, ReloadScreen
<1>2. CASE flight' = ops /\ UNCHANGED shown
  BY <1>2
<1>. QED BY <1>1, <1>2 DEF Publish

\* What is done is gone; the newest save of a day stays so.
LEMMA RemoveScreen ==
  ASSUME NEW f \in Seq(Operation), NEW i \in DOMAIN f
  PROVE  /\ \A e : Orderly(f, e) => Orderly(RemoveAt(f, i), e)
         /\ \A r, l : Truthful(f, r, l) => Truthful(RemoveAt(f, i), r, l)
         /\ \A d, u, t, r, l : WillHold(f, r, l, d, u, t) /\ ~SaveOf(f[i], d, u) =>
              WillHold(RemoveAt(f, i), r, l, d, u, t)
<1> DEFINE g == RemoveAt(f, i)
<1>1. \A j \in DOMAIN g : Was(i, j) \in DOMAIN f /\ Was(i, j) # i /\ g[j] = f[Was(i, j)]
  BY RemovedFrom
<1>2. \A j, k \in DOMAIN g : j < k <=> Was(i, j) < Was(i, k)
  BY RemovedFrom
<1>3. \A k \in DOMAIN f : k # i => \E j \in DOMAIN g : Was(i, j) = k
  BY RemovedFrom
<1>. HIDE DEF g
<1>4. ASSUME NEW e, Orderly(f, e) PROVE Orderly(g, e)
  BY <1>1, <1>2, <1>4 DEF Orderly
<1>5. ASSUME NEW r, NEW l, Truthful(f, r, l) PROVE Truthful(g, r, l)
  BY <1>1, <1>5 DEF Truthful
<1>6. ASSUME NEW d, NEW u, NEW t, NEW r, NEW l, WillHold(f, r, l, d, u, t), ~SaveOf(f[i], d, u)
      PROVE  WillHold(g, r, l, d, u, t)
  <2>1. ASSUME NEW j \in DOMAIN g, Newest(g, j, d, u) PROVE g[j].text = t
    <3>1. ASSUME NEW k \in DOMAIN f, k > Was(i, j) PROVE ~SaveOf(f[k], d, u)
      <4>1. CASE k = i
        BY <1>6, <4>1
      <4>2. CASE k # i
        <5>1. PICK n \in DOMAIN g : Was(i, n) = k
          BY <1>3, <4>2
        <5>2. n > j
          BY <1>2, <3>1, <5>1
        <5>. QED BY <1>1, <2>1, <5>1, <5>2 DEF Newest
      <4>. QED BY <4>1, <4>2
    <3>2. Newest(f, Was(i, j), d, u)
      BY <1>1, <2>1, <3>1 DEF Newest
    <3>. QED BY <1>1, <1>6, <3>2 DEF WillHold
  <2>2. ASSUME \A j \in DOMAIN g : ~SaveOf(g[j], d, u) PROVE Content(r, l, d, u) = t
    <3>1. \A k \in DOMAIN f : ~SaveOf(f[k], d, u)
      BY <1>1, <1>3, <1>6, <2>2
    <3>. QED BY <1>6, <3>1 DEF WillHold
  <2>. QED BY <2>1, <2>2 DEF WillHold
<1>. QED BY <1>4, <1>5, <1>6 DEF g

\* The first save of a day is done: what it held is what is stored, unless a
\* newer one follows.
LEMMA FirstSaveRemoved ==
  ASSUME NEW f \in Seq(Operation), NEW i \in DOMAIN f, NEW d, NEW u, NEW t,
         NEW r, NEW l, NEW rr, NEW ll, WillHold(f, r, l, d, u, t),
         SaveOf(f[i], d, u), \A k \in DOMAIN f : k < i => ~SaveOf(f[k], d, u),
         Content(rr, ll, d, u) = f[i].text
  PROVE  WillHold(RemoveAt(f, i), rr, ll, d, u, t)
<1> DEFINE g == RemoveAt(f, i)
<1>1. \A j \in DOMAIN g : Was(i, j) \in DOMAIN f /\ Was(i, j) # i /\ g[j] = f[Was(i, j)]
  BY RemovedFrom
<1>2. \A j, k \in DOMAIN g : j < k <=> Was(i, j) < Was(i, k)
  BY RemovedFrom
<1>3. \A k \in DOMAIN f : k # i => \E j \in DOMAIN g : Was(i, j) = k
  BY RemovedFrom
<1>0. DOMAIN f \subseteq Nat
  OBVIOUS
<1>. HIDE DEF g
<1>4. ASSUME NEW j \in DOMAIN g, Newest(g, j, d, u) PROVE g[j].text = t
  <2>1. ASSUME NEW k \in DOMAIN f, k > Was(i, j) PROVE ~SaveOf(f[k], d, u)
    <3>1. k # i
      BY <1>0, <1>1, <1>4, <2>1 DEF Newest
    <3>2. PICK n \in DOMAIN g : Was(i, n) = k
      BY <1>3, <3>1
    <3>3. n > j
      BY <1>2, <2>1, <3>2
    <3>. QED BY <1>1, <1>4, <3>2, <3>3 DEF Newest
  <2>2. Newest(f, Was(i, j), d, u)
    BY <1>1, <1>4, <2>1 DEF Newest
  <2>. QED BY <1>1, <2>2 DEF WillHold
<1>5. ASSUME \A j \in DOMAIN g : ~SaveOf(g[j], d, u) PROVE f[i].text = t
  <2>1. \A k \in DOMAIN f : k # i => ~SaveOf(f[k], d, u)
    BY <1>1, <1>3, <1>5
  <2>2. Newest(f, i, d, u)
    BY <1>0, <2>1 DEF Newest
  <2>. QED BY <2>2 DEF WillHold
<1>. QED BY <1>4, <1>5 DEF WillHold, g

-----------------------------------------------------------------------------
(* Each step keeps it.                                                     *)

\* What is typed is sent, behind everything else.
LEMMA KeystrokeScreen ==
  ASSUME Inv, ScreenInv, NEW t \in {Empty, acts + 1}, Keystroke(t)
  PROVE  ScreenInv'
<1> DEFINE g == Outranked(flight)
           o == Save(day, user, session, t)
<1>1. /\ WriteTarget(session, user) # "Refused"
      /\ user # None => session = "Unlocked"
  BY DEF Inv, Rest, Sessions, Keystroke, Editable, Writes, WriteTarget
<1>2. flight' = Append(g, o)
  BY <1>1 DEF Keystroke
<1>3. /\ g \in Seq(Operation) /\ NoneCurrent(g) /\ Orderly(g, enabled)
  BY OutrankedFacts, OutrankedKeeps DEF Inv, HookInv, Hook, ScreenInv
<1>4. o \in Operation
  <2>1. t \in Texts
    BY BoundsAssumption DEF Inv, Rest, Keystroke, Act, Empty, Texts, Old
  <2>2. day \in Days /\ user \in Somebody
    BY DEF Inv, Rest, Keystroke, Editable
  <2>3. (session = "Unlocked") \in BOOLEAN
    OBVIOUS
  <2>. QED BY <2>1, <2>2, <2>3 DEF Save, Operation, Answers
<1>5. /\ o.kind = "save" /\ o.answer = "waiting" /\ ~o.current
      /\ o.day = day /\ o.store = user /\ o.text = t
      /\ o.store # None => o.store \in enabled
  BY <1>1 DEF Save, ScreenInv
<1>6. /\ DOMAIN g = 1 .. Len(g) /\ Len(g) \in Nat /\ DOMAIN flight' = 1 .. Len(g) + 1
      /\ flight'[Len(g) + 1] = o
      /\ \A i \in DOMAIN flight' :
           \/ i \in DOMAIN g /\ flight'[i] = g[i]
           \/ i = Len(g) + 1 /\ flight'[i] = o
  <2>1. /\ DOMAIN g = 1 .. Len(g) /\ Len(g) \in Nat
        /\ DOMAIN Append(g, o) = 1 .. Len(g) + 1
        /\ \A i \in DOMAIN g : Append(g, o)[i] = g[i]
        /\ Append(g, o)[Len(g) + 1] = o
        /\ \A i \in DOMAIN Append(g, o) : i \in DOMAIN g \/ i = Len(g) + 1
    BY <1>3, <1>4, AppendedTo
  <2>. HIDE DEF g, o
  <2>. QED BY <1>2, <2>1
<1>7. UNCHANGED <<user, session, enabled, rows, local, amiss>>
      /\ shown' = [text |-> t, day |-> day, store |-> user, typed |-> TRUE]
  BY DEF Keystroke, server, page
<1>. HIDE DEF g, o
<1>8. \A i \in DOMAIN flight' : ~flight'[i].current
  BY <1>3, <1>5, <1>6 DEF NoneCurrent
<1>9. Orderly(flight', enabled)
  BY <1>3, <1>5, <1>6, <1>8 DEF Orderly
<1>10. WillHold(flight', rows, local, day, user, t)
  <2>1. Len(g) + 1 \in DOMAIN flight' /\ SaveOf(flight'[Len(g) + 1], day, user)
    BY <1>5, <1>6 DEF SaveOf
  <2>2. ASSUME NEW i \in DOMAIN flight', Newest(flight', i, day, user)
        PROVE  flight'[i].text = t
    <3>1. i = Len(g) + 1
      BY <1>6, <2>1, <2>2 DEF Newest
    <3>. QED BY <1>5, <1>6, <3>1
  <2>. QED BY <2>1, <2>2 DEF WillHold
<1>11. Truthful(flight', rows, local)
  BY <1>8 DEF Truthful
<1>. QED BY <1>7, <1>9, <1>10, <1>11 DEF ScreenInv, Faithful

\* A save that does not stray is the oldest of its day and store, and is stored
\* there and nowhere else.
LEMMA ServeSaveScreen ==
  ASSUME Inv, ScreenInv, NEW i \in DOMAIN flight, ServeSave(i)
  PROVE  ScreenInv'
<1> DEFINE o == flight[i]
           rest == RemoveAt(flight, i)
<1>1. flight \in Seq(Operation) /\ o \in Operation
  BY DEF Inv, HookInv, Hook
<1>2. /\ flight' = rest /\ o.kind = "save" /\ Served(i)
      /\ amiss' = (amiss \/ Strays(i))
      /\ UNCHANGED <<enabled, user, session, shown>>
  BY DEF ServeSave, page
<1>3. Orderly(rest, enabled)
  BY <1>1, RemoveScreen DEF ScreenInv
<1>4. ASSUME ~amiss' PROVE Faithful(rest, rows', local', shown)
  <2>1. /\ ~amiss /\ ~Strays(i) /\ Faithful(flight, rows, local, shown)
    BY <1>2, <1>4 DEF ScreenInv
  <2>2. /\ ~Overtakes(i)
        /\ o.store # None => o.store = cookie /\ cookie \in enabled
    BY <1>1, <1>2, <2>1 DEF Served, Strays, ScreenInv, Orderly
  <2>3. \A k \in DOMAIN flight : k < i => ~SaveOf(flight[k], o.day, o.store)
    <3>1. ASSUME NEW k \in DOMAIN flight, k < i, SaveOf(flight[k], o.day, o.store)
          PROVE  FALSE
      <4>1. k \in 1 .. i - 1
        BY <1>1, <3>1
      <4>2. Waiting(k) /\ (flight[k].store = None <=> o.store = None)
        BY <3>1 DEF ScreenInv, Orderly, SaveOf, Waiting
      <4>. QED BY <2>2, <4>1, <4>2 DEF Overtakes
    <3>. QED BY <3>1
  <2>4. \/ /\ o.store = None
           /\ local' = [local EXCEPT ![o.day] = o.text]
           /\ rows' = rows
        \/ /\ o.store # None /\ o.store \in Accounts
           /\ rows' = [rows EXCEPT ![o.store][o.day] = [text |-> o.text, key |-> o.store]]
           /\ local' = local
    BY <2>2 DEF ServeSave, Inv, Rest
  <2>5. /\ rows \in [Accounts -> [Days -> Row \cup {None}]]
        /\ local \in [Days -> Texts \cup {None}]
        /\ o.day \in Days /\ o.text \in Texts /\ o.store \in Somebody
    BY <1>1 DEF Inv, Rest, Operation
  <2>6. /\ Content(rows', local', o.day, o.store) = o.text
        /\ \A d \in Days, u \in Somebody : d # o.day \/ u # o.store =>
             Content(rows', local', d, u) = Content(rows, local, d, u)
    <3>1. CASE o.store = None
      <4>1. /\ local'[o.day] = o.text /\ o.text # None /\ rows' = rows
            /\ \A d \in Days : d # o.day => local'[d] = local[d]
        BY <2>4, <2>5, <3>1, AbsentAssumption
      <4>. QED BY <3>1, <4>1 DEF Content
    <3>2. CASE o.store # None
      <4> DEFINE row == [text |-> o.text, key |-> o.store]
      <4>1. /\ o.store \in Accounts /\ local' = local
            /\ rows' = [rows EXCEPT ![o.store][o.day] = row]
        BY <2>4, <3>2
      <4>2. row # None
        BY <2>5, <4>1, AbsentAssumption DEF Row
      <4>3. row.text = o.text /\ row.key = o.store
        OBVIOUS
      <4>. HIDE DEF row
      <4>4. /\ rows'[o.store][o.day] = row
            /\ \A d \in Days, u \in Accounts : d # o.day \/ u # o.store => rows'[u][d] = rows[u][d]
        BY <2>5, <4>1
      <4>5. Content(rows', local', o.day, o.store) = o.text
        BY <3>2, <4>2, <4>3, <4>4 DEF Content
      <4>6. ASSUME NEW d \in Days, NEW u \in Somebody, d # o.day \/ u # o.store
            PROVE  Content(rows', local', d, u) = Content(rows, local, d, u)
        BY <4>1, <4>4, <4>6 DEF Content, Somebody
      <4>. QED BY <4>5, <4>6
    <3>. QED BY <3>1, <3>2
  <2>7. Truthful(flight, rows', local')
    <3>1. ASSUME NEW k \in DOMAIN flight, flight[k].current,
                 flight[k].answer \in {"text", "unopenable"}
          PROVE  /\ \A j \in DOMAIN flight : ~SaveOf(flight[j], flight[k].day, flight[k].store)
                 /\ flight[k].text = Content(rows', local', flight[k].day, flight[k].store)
      <4>1. /\ \A j \in DOMAIN flight : ~SaveOf(flight[j], flight[k].day, flight[k].store)
            /\ flight[k].text = Content(rows, local, flight[k].day, flight[k].store)
        BY <2>1, <3>1 DEF Faithful, Truthful
      <4>2. flight[k].day # o.day \/ flight[k].store # o.store
        BY <1>2, <4>1 DEF SaveOf
      <4>3. flight[k].day \in Days /\ flight[k].store \in Somebody
        <5>1. flight[k] \in Operation
          BY <1>1
        <5>. QED BY <5>1 DEF Operation
      <4>. QED BY <2>6, <4>1, <4>2, <4>3
    <3>. QED BY <2>1, <3>1 DEF Faithful, Truthful
  <2>8. ASSUME shown # None
        PROVE  WillHold(rest, rows', local', shown.day, shown.store, shown.text)
    <3>1. WillHold(flight, rows, local, shown.day, shown.store, shown.text)
      BY <2>1, <2>8 DEF Faithful
    <3>2. shown.day \in Days /\ shown.store \in Somebody
      BY <2>8 DEF Inv, HookInv, Hook, Shown
    <3>3. CASE shown.day = o.day /\ shown.store = o.store
      <4>1. SaveOf(o, shown.day, shown.store)
        BY <1>2, <3>3 DEF SaveOf
      <4>. QED BY <1>1, <2>3, <2>6, <3>1, <3>3, <4>1, FirstSaveRemoved
    <3>4. CASE shown.day # o.day \/ shown.store # o.store
      <4>1. WillHold(flight, rows', local', shown.day, shown.store, shown.text)
        BY <2>6, <3>1, <3>2, <3>4 DEF WillHold
      <4>2. ~SaveOf(o, shown.day, shown.store)
        BY <3>4 DEF SaveOf
      <4>. QED BY <1>1, <4>1, <4>2, RemoveScreen
    <3>. QED BY <3>3, <3>4
  <2>9. Truthful(rest, rows', local')
    BY <1>1, <2>7, RemoveScreen
  <2>. QED BY <2>8, <2>9 DEF Faithful
<1>. QED BY <1>2, <1>3, <1>4 DEF ScreenInv

\* An answer changes no save and no other load.
LEMMA AnswerScreen ==
  ASSUME NEW f \in Seq(Operation), NEW i \in DOMAIN f, NEW n \in Operation, NEW e,
         f[i].kind = "load", n.kind = "load", n.answer # "waiting",
         n.current = f[i].current, n.day = f[i].day, n.store = f[i].store, Orderly(f, e)
  PROVE  /\ Orderly([f EXCEPT ![i] = n], e)
         /\ \A d, u, t, r, l : WillHold(f, r, l, d, u, t) =>
              WillHold([f EXCEPT ![i] = n], r, l, d, u, t)
         /\ \A d, u : (\A j \in DOMAIN f : ~SaveOf(f[j], d, u)) =>
              \A j \in DOMAIN f : ~SaveOf([f EXCEPT ![i] = n][j], d, u)
<1> DEFINE g == [f EXCEPT ![i] = n]
<1>1. DOMAIN g = DOMAIN f /\ g[i] = n /\ \A j \in DOMAIN f : j # i => g[j] = f[j]
  OBVIOUS
<1>. HIDE DEF g
<1>2. \A j \in DOMAIN f : \A d, u : SaveOf(g[j], d, u) <=> SaveOf(f[j], d, u)
  BY <1>1 DEF SaveOf
<1>3. \A j \in DOMAIN f : \A d, u : SaveOf(f[j], d, u) => g[j].text = f[j].text
  BY <1>1 DEF SaveOf
<1>4. \A j \in DOMAIN f : g[j].kind = f[j].kind /\ g[j].current = f[j].current
  BY <1>1
<1>5. Orderly(g, e)
  BY <1>1, <1>4 DEF Orderly
<1>6. ASSUME NEW d, NEW u, NEW t, NEW r, NEW l, WillHold(f, r, l, d, u, t)
      PROVE  WillHold(g, r, l, d, u, t)
  BY <1>1, <1>2, <1>3, <1>6 DEF WillHold, Newest
<1>. QED BY <1>2, <1>5, <1>6 DEF g

\* A load that does not stray is read behind every save of its day.
LEMMA ServeLoadScreen ==
  ASSUME Inv, ScreenInv, NEW i \in DOMAIN flight, ServeLoad(i)
  PROVE  ScreenInv'
<1> DEFINE o == flight[i]
           text == IF local[o.day] = None THEN Empty ELSE local[o.day]
           n == IF o.store = None THEN [o EXCEPT !.answer = "text", !.text = text]
                ELSE IF cookie = None THEN [o EXCEPT !.answer = "failed"]
                ELSE ReadRow(o, rows[cookie][o.day])
<1>1. flight \in Seq(Operation) /\ o \in Operation
  BY DEF Inv, HookInv, Hook
<1>2. /\ flight' = [flight EXCEPT ![i] = n] /\ o.kind = "load" /\ Served(i)
      /\ amiss' = (amiss \/ Strays(i))
      /\ UNCHANGED <<enabled, rows, local, user, session, shown>>
  BY DEF ServeLoad, server, page
<1>3. o.day \in Days /\ o.store \in Somebody /\ o.text = Empty
  <2>1. o.answer = "waiting"
    BY <1>2 DEF Served, Waiting
  <2>. QED BY <1>1, <1>2, <2>1 DEF ScreenInv, Orderly, Operation
<1>4. Empty \in Texts /\ text \in Texts
  BY <1>3, BoundsAssumption DEF Inv, Rest, Empty, Texts, Old
<1>. HIDE DEF text
<1>5. /\ n \in Operation /\ n.kind = "load" /\ n.answer # "waiting"
      /\ n.current = o.current /\ n.day = o.day /\ n.store = o.store
  <2> DEFINE Good(r) == /\ r \in Operation /\ r.kind = "load" /\ r.answer # "waiting"
                        /\ r.current = o.current /\ r.day = o.day /\ r.store = o.store
             said == {"text", "failed", "sealed", "unopenable"}
  <2>1. \A a \in said, x \in Texts : Good([o EXCEPT !.answer = a, !.text = x])
    BY <1>1, <1>2 DEF Operation, Answers
  <2>2. \A a \in said : Good([o EXCEPT !.answer = a])
    BY <1>1, <1>2 DEF Operation, Answers
  <2>. HIDE DEF Good
  <2>3. CASE o.store = None
    <3>1. n = [o EXCEPT !.answer = "text", !.text = text]
      BY <2>3
    <3>. HIDE DEF n
    <3>. QED BY <1>4, <2>1, <3>1 DEF Good
  <2>4. CASE o.store # None /\ cookie = None
    <3>1. n = [o EXCEPT !.answer = "failed"]
      BY <2>4
    <3>. HIDE DEF n
    <3>. QED BY <2>2, <3>1 DEF Good
  <2>5. CASE o.store # None /\ cookie # None
    <3> DEFINE row == rows[cookie][o.day]
    <3>1. row \in Row \cup {None}
      BY <1>3, <2>5 DEF Inv, Rest, Somebody
    <3>2. n = ReadRow(o, row)
      BY <2>5
    <3>. HIDE DEF n, row
    <3>3. CASE row = None \/ ~o.keyed \/ row.key # o.store
      <4>1. \E a \in said : n = [o EXCEPT !.answer = a]
        BY <3>2, <3>3 DEF ReadRow
      <4>. QED BY <2>2, <4>1 DEF Good
    <3>4. CASE ~(row = None \/ ~o.keyed \/ row.key # o.store)
      <4>1. n = [o EXCEPT !.answer = "text", !.text = row.text] /\ row.text \in Texts
        BY <3>1, <3>2, <3>4 DEF ReadRow, Row
      <4>. QED BY <2>1, <4>1 DEF Good
    <3>. QED BY <3>3, <3>4
  <2>. QED BY <2>3, <2>4, <2>5
<1>6. ASSUME ~Strays(i), n.answer \in {"text", "unopenable", "failed"}
      PROVE  n.answer # "failed" /\ n.text = Content(rows, local, o.day, o.store)
  <2>1. CASE o.store = None
    BY <1>1, <2>1 DEF Content, text, Operation
  <2>2. CASE o.store # None
    <3>1. o.store = cookie /\ cookie # None /\ n = ReadRow(o, rows[cookie][o.day])
      BY <1>6, <2>2 DEF Strays
    <3>2. CASE rows[cookie][o.day] = None
      <4>1. n = [o EXCEPT !.answer = "text"]
        BY <3>1, <3>2 DEF ReadRow
      <4>2. n.answer = "text" /\ n.text = o.text
        BY <1>1, <4>1 DEF Operation
      <4>. QED BY <1>3, <2>2, <3>1, <3>2, <4>2 DEF Content
    <3>3. CASE rows[cookie][o.day] # None /\ o.keyed /\ rows[cookie][o.day].key # o.store
      <4>1. n = [o EXCEPT !.answer = "unopenable"]
        BY <3>1, <3>3 DEF ReadRow
      <4>2. n.answer = "unopenable" /\ n.text = o.text
        BY <1>1, <4>1 DEF Operation
      <4>. QED BY <1>3, <2>2, <3>1, <3>3, <4>2 DEF Content
    <3>4. CASE rows[cookie][o.day] # None /\ o.keyed /\ rows[cookie][o.day].key = o.store
      <4>1. n = [o EXCEPT !.answer = "text", !.text = rows[cookie][o.day].text]
        BY <3>1, <3>4 DEF ReadRow
      <4>2. n.answer = "text" /\ n.text = rows[cookie][o.day].text
        BY <1>1, <4>1 DEF Operation
      <4>. QED BY <2>2, <3>1, <3>4, <4>2 DEF Content
    <3>5. CASE rows[cookie][o.day] # None /\ ~o.keyed
      <4>1. n = [o EXCEPT !.answer = "sealed"]
        BY <3>1, <3>5 DEF ReadRow
      <4>2. n.answer = "sealed"
        BY <1>1, <4>1 DEF Operation
      <4>. QED BY <1>6, <4>2
    <3>. QED BY <3>2, <3>3, <3>4, <3>5
  <2>. QED BY <2>1, <2>2
<1>. HIDE DEF n
<1>7. Orderly(flight', enabled)
  BY <1>1, <1>2, <1>5, AnswerScreen DEF ScreenInv
<1>8. ASSUME ~amiss' PROVE Faithful(flight', rows, local, shown)
  <2>1. ~amiss /\ ~Strays(i) /\ Faithful(flight, rows, local, shown) /\ Orderly(flight, enabled)
    BY <1>2, <1>8 DEF ScreenInv
  <2>2. /\ \A d, u, t, r, l : WillHold(flight, r, l, d, u, t) => WillHold(flight', r, l, d, u, t)
        /\ \A d, u : (\A j \in DOMAIN flight : ~SaveOf(flight[j], d, u)) =>
             \A j \in DOMAIN flight : ~SaveOf(flight'[j], d, u)
    BY <1>1, <1>2, <1>5, <2>1, AnswerScreen
  <2>3. shown # None => WillHold(flight', rows, local, shown.day, shown.store, shown.text)
    BY <2>1, <2>2 DEF Faithful
  <2>4. DOMAIN flight' = DOMAIN flight /\ flight'[i] = n
        /\ \A j \in DOMAIN flight : j # i => flight'[j] = flight[j]
    BY <1>1, <1>2
  <2>5. ASSUME o.current PROVE \A j \in DOMAIN flight : ~SaveOf(flight[j], o.day, o.store)
    <3>1. ASSUME NEW j \in DOMAIN flight, SaveOf(flight[j], o.day, o.store) PROVE FALSE
      <4>1. j \in 1 .. i - 1
        BY <1>1, <2>1, <2>5, <3>1 DEF Orderly, SaveOf
      <4>2. Waiting(j) /\ (flight[j].store = None <=> o.store = None)
        BY <2>1, <3>1 DEF Orderly, SaveOf, Waiting
      <4>3. Overtakes(i)
        BY <4>1, <4>2 DEF Overtakes
      <4>. QED BY <1>2, <2>1, <4>3 DEF Served, Strays
    <3>. QED BY <3>1
  <2>6. ASSUME NEW k \in DOMAIN flight', flight'[k].current
        PROVE  /\ flight'[k].answer # "failed"
               /\ flight'[k].answer \in {"text", "unopenable"} =>
                    /\ \A j \in DOMAIN flight' : ~SaveOf(flight'[j], flight'[k].day, flight'[k].store)
                    /\ flight'[k].text = Content(rows, local, flight'[k].day, flight'[k].store)
    <3>1. CASE k = i
      BY <1>5, <1>6, <2>1, <2>2, <2>4, <2>5, <2>6, <3>1
    <3>2. CASE k # i
      <4>1. /\ flight[k].current /\ flight'[k] = flight[k] /\ k \in DOMAIN flight
            /\ flight[k].answer # "failed"
            /\ flight[k].answer \in {"text", "unopenable"} =>
                 /\ \A j \in DOMAIN flight : ~SaveOf(flight[j], flight[k].day, flight[k].store)
                 /\ flight[k].text = Content(rows, local, flight[k].day, flight[k].store)
        BY <2>1, <2>4, <2>6, <3>2 DEF Faithful, Truthful
      <4>. QED BY <2>2, <2>4, <4>1
    <3>. QED BY <3>1, <3>2
  <2>7. Truthful(flight', rows, local)
    BY <2>6 DEF Truthful
  <2>. QED BY <2>3, <2>7 DEF Faithful
<1>. QED BY <1>2, <1>7, <1>8 DEF ScreenInv

\* After a failure nothing is claimed of the screen.
LEMMA FailScreen ==
  ASSUME Inv, ScreenInv, NEW i \in DOMAIN flight, Fail(i)
  PROVE  ScreenInv'
<1>1. flight \in Seq(Operation) /\ flight[i] \in Operation
  BY DEF Inv, HookInv, Hook
<1>2. amiss' = TRUE /\ UNCHANGED <<enabled, user, session>>
  BY DEF Fail, server, page
<1>3. Orderly(flight', enabled)
  <2>1. CASE flight[i].kind = "save"
    <3>1. flight' = RemoveAt(flight, i)
      BY <2>1 DEF Fail
    <3>. QED BY <1>1, <3>1, RemoveScreen DEF ScreenInv
  <2>2. CASE flight[i].kind # "save"
    <3> DEFINE n == [flight[i] EXCEPT !.answer = "failed"]
    <3>1. flight' = [flight EXCEPT ![i] = n] /\ flight[i].kind = "load"
      BY <1>1, <2>2 DEF Fail, Operation
    <3>2. /\ n \in Operation /\ n.kind = "load" /\ n.answer # "waiting"
          /\ n.current = flight[i].current /\ n.day = flight[i].day /\ n.store = flight[i].store
      BY <1>1, <3>1 DEF Operation, Answers
    <3>. HIDE DEF n
    <3>. QED BY <1>1, <3>1, <3>2, AnswerScreen DEF ScreenInv
  <2>. QED BY <2>1, <2>2
<1>. QED BY <1>2, <1>3 DEF ScreenInv

\* What a current load brings is what is stored, and no save will change that.
LEMMA ArriveScreen ==
  ASSUME Inv, ScreenInv, NEW i \in DOMAIN flight, Arrive(i)
  PROVE  ScreenInv'
<1> DEFINE o == flight[i]
           rest == RemoveAt(flight, i)
<1>1. /\ flight \in Seq(Operation) /\ rest \in Seq(Operation)
      /\ day \in Days \cup {None} /\ user \in Somebody
  BY RemoveFacts DEF Inv, Rest, HookInv, Hook
<1>2. /\ o.answer # "waiting"
      /\ UNCHANGED <<enabled, rows, local, user, amiss>>
  BY DEF Arrive, server
<1>3. Orderly(rest, enabled)
  BY <1>1, RemoveScreen DEF ScreenInv
<1>4. ~amiss => Faithful(rest, rows, local, shown)
  <2>1. \A d, u : ~SaveOf(o, d, u)
    BY <1>2 DEF SaveOf, ScreenInv, Orderly
  <2>. QED BY <1>1, <2>1, RemoveScreen DEF ScreenInv, Faithful
<1>5. ASSUME o.current, o.answer \in {"text", "failed", "unopenable"}, ShowLoaded(o), ~amiss
      PROVE  Faithful(rest, rows, local, shown')
  <2>1. /\ \A j \in DOMAIN flight : ~SaveOf(flight[j], o.day, o.store)
        /\ o.text = Content(rows, local, o.day, o.store)
    BY <1>5 DEF ScreenInv, Faithful, Truthful
  <2>2. \A j \in DOMAIN rest : ~SaveOf(rest[j], o.day, o.store)
    BY <1>1, <2>1, RemovedFrom
  <2>3. WillHold(rest, rows, local, o.day, o.store, o.text)
    BY <2>1, <2>2 DEF WillHold, Newest
  <2>4. shown'.day = o.day /\ shown'.store = o.store /\ shown'.text = o.text
    BY <1>5 DEF ShowLoaded
  <2>. QED BY <1>4, <1>5, <2>3, <2>4 DEF Faithful
<1>. HIDE DEF rest, o
<1>6. CASE Publish("Unknown", rest)
  BY <1>1, <1>2, <1>3, <1>4, <1>6, PublishScreen DEF ScreenInv, Publish
<1>7. CASE /\ flight' = rest /\ UNCHANGED session
           /\ \/ UNCHANGED shown
              \/ o.current /\ o.answer \in {"text", "failed", "unopenable"} /\ ShowLoaded(o)
  BY <1>2, <1>3, <1>4, <1>5, <1>7 DEF ScreenInv
<1>. QED BY <1>6, <1>7 DEF Arrive, UnopenableRowSeen, o, rest

\* A change of the session: the day is read again, or stays.  Only an account
\* with encryption is locked or unlocked.
LEMMA PublishingScreen ==
  ASSUME Inv, ScreenInv, ProbeAnswers \/ Unlock \/ LockNow \/ Retry
  PROVE  ScreenInv'
<1>1. /\ flight \in Seq(Operation) /\ day \in Days \cup {None} /\ user \in Somebody
      /\ Orderly(flight, enabled)
  BY DEF Inv, Rest, HookInv, Hook, ScreenInv
<1>2. UNCHANGED <<enabled, rows, local, user, amiss>>
  BY DEF ProbeAnswers, Unlock, LockNow, Retry, server
<1>3. PICK s : Publish(s, flight)
  BY DEF ProbeAnswers, Unlock, LockNow, Retry
<1>4. /\ Orderly(flight', enabled)
      /\ \A r, l : Faithful(flight, r, l, shown) => Faithful(flight', r, l, shown')
  BY <1>1, <1>3, PublishScreen
<1>5. session' \in {"Locked", "Unlocked"} => user \in enabled
  BY DEF ProbeAnswers, Unlock, LockNow, Retry, Publish, ScreenInv
<1>. QED BY <1>2, <1>4, <1>5 DEF ScreenInv

\* Another day, another store, another page: read again.
LEMMA ReadAgainScreen ==
  ASSUME Inv, ScreenInv,
         (\E d \in Days : Navigate(d)) \/ SignOutTold \/ PageLoad \/ SetupGate
  PROVE  ScreenInv'
<1>1. /\ flight \in Seq(Operation) /\ day \in Days \cup {None} /\ user \in Somebody
      /\ cookie \in Somebody /\ None \in Somebody /\ Orderly(flight, enabled)
  BY DEF Inv, Rest, HookInv, Hook, ScreenInv, Somebody
<1>2. \E d \in Days \cup {None}, u \in Somebody : \E s : Reload(d, u, s, flight)
  BY <1>1 DEF Navigate, SignOutTold, PageLoad, SetupGate
<1>3. Orderly(flight', enabled) /\ \A r, l : Faithful(flight', r, l, shown')
  BY <1>1, <1>2, ReloadScreen
<1>4. UNCHANGED enabled
  BY DEF Navigate, SignOutTold, PageLoad, SetupGate, server
<1>5. session' \in {"Locked", "Unlocked"} => user' = user /\ session' = session
  BY DEF Navigate, SignOutTold, PageLoad, SetupGate
<1>. QED BY <1>3, <1>4, <1>5 DEF ScreenInv

LEMMA ElsewhereScreen ==
  ASSUME Inv, ScreenInv, \/ \E c \in Somebody : CookieMovesTo(c)
                         \/ \E a \in Accounts : Encrypted(a)
  PROVE  ScreenInv'
<1>1. UNCHANGED <<flight, rows, local, shown, user, session, amiss>> /\ enabled \subseteq enabled'
  BY DEF CookieMovesTo, Encrypted, page
<1>2. Orderly(flight, enabled')
  BY <1>1 DEF ScreenInv, Orderly
<1>. QED BY <1>1, <1>2 DEF ScreenInv

LEMMA NextKeepsScreen == Inv /\ ScreenInv /\ [Next]_vars => ScreenInv'
<1> SUFFICES ASSUME Inv, ScreenInv, [Next]_vars PROVE ScreenInv'
  OBVIOUS
<1>1. ASSUME NEW i \in DOMAIN flight, ServeSave(i) \/ ServeLoad(i) \/ Fail(i) \/ Arrive(i)
      PROVE  ScreenInv'
  BY <1>1, ServeSaveScreen, ServeLoadScreen, FailScreen, ArriveScreen
<1>2. ASSUME NEW t \in {Empty, acts + 1}, Keystroke(t) PROVE ScreenInv'
  BY <1>2, KeystrokeScreen
<1>3. CASE ProbeAnswers \/ Unlock \/ LockNow \/ Retry
  BY <1>3, PublishingScreen
<1>4. CASE (\E d \in Days : Navigate(d)) \/ SignOutTold \/ PageLoad \/ SetupGate
  BY <1>4, ReadAgainScreen
<1>5. CASE \/ \E c \in Somebody : CookieMovesTo(c)
           \/ \E a \in Accounts : Encrypted(a)
  BY <1>5, ElsewhereScreen
<1>6. CASE UNCHANGED vars
  BY <1>6 DEF vars, ScreenInv
<1>. QED BY <1>1, <1>2, <1>3, <1>4, <1>5, <1>6 DEF Next, Answered

\* For any constants, once nothing is on its way the screen shows what is stored,
\* if no request has failed, overtaken another or met another account: every
\* keystroke the box takes is stored, and no load brings back an older text.
THEOREM ScreenShowsStored == Spec => []ScreenIsStored
<1>1. Init => ScreenInv
  BY InitScreen
<1>2. Inv /\ ScreenInv /\ [Next]_vars => ScreenInv'
  BY NextKeepsScreen
<1>3. Inv /\ ScreenInv => ScreenIsStored
  BY ScreenInvSuffices
<1>. QED BY <1>1, <1>2, <1>3, InvHolds, PTL DEF Spec

-----------------------------------------------------------------------------
(* A blank day is being read.                                              *)

\* A save publishes nothing, and a load that needs no key, or has it, finds no sealed row.
Sound(o) ==
  /\ o.kind = "save" => ~o.current
  /\ o.store = None \/ o.keyed => o.answer # "sealed"
AllSound(f) == \A i \in DOMAIN f : Sound(f[i])

\* The day d of the store u can be read in the session s.
Readable(d, u, s) == d # None /\ (s = "Unlocked" \/ u = None)
Coming(f) == \E i \in DOMAIN f : f[i].current /\ (f[i].store = None \/ f[i].keyed)

ReadInv == AllSound(flight) /\ (Readable(day, user, session) /\ shown = None => Coming(flight))

LEMMA OutrankedSound ==
  ASSUME NEW f \in Seq(Operation), AllSound(f)
  PROVE  AllSound(Outranked(f))
<1>1. \A i \in DOMAIN f : f[i] \in Operation
  OBVIOUS
<1>2. \A i \in DOMAIN f : /\ Outranked(f)[i].kind = f[i].kind /\ Outranked(f)[i].answer = f[i].answer
                          /\ Outranked(f)[i].store = f[i].store /\ Outranked(f)[i].keyed = f[i].keyed
                          /\ Outranked(f)[i].current = FALSE
  BY <1>1 DEF Outranked, Operation
<1>3. DOMAIN Outranked(f) = DOMAIN f
  BY DEF Outranked
<1>. QED BY <1>2, <1>3 DEF AllSound, Sound

LEMMA AppendedSound ==
  ASSUME NEW f \in Seq(Operation), AllSound(f), NEW o \in Operation, Sound(o)
  PROVE  AllSound(Append(f, o))
BY AppendedTo DEF AllSound

\* A new load is the one that is wanted: it has the key of the session it is read in.
LEMMA ReloadReads ==
  ASSUME NEW d \in Days \cup {None}, NEW u \in Somebody, NEW s, NEW ops \in Seq(Operation),
         AllSound(ops), Reload(d, u, s, ops)
  PROVE  AllSound(flight') /\ (Readable(d, u, s) => Coming(flight'))
<1> DEFINE g == Outranked(ops)
           o == Load(d, u, s)
<1>1. g \in Seq(Operation) /\ AllSound(g)
  BY OutrankedFacts, OutrankedSound
<1>2. CASE d = None
  BY <1>1, <1>2 DEF Reload, Readable
<1>3. CASE d # None
  <2>1. flight' = Append(g, o)
    BY <1>3 DEF Reload
  <2>2. o.kind = "load" /\ o.answer = "waiting" /\ o.current /\ o.store = u /\ o.keyed = (s = "Unlocked")
    BY DEF Load
  <2>3. o \in Operation
    BY <1>3, LoadIsOperation
  <2>4. Sound(o)
    BY <2>2 DEF Sound
  <2>5. Readable(d, u, s) => o.current /\ (o.store = None \/ o.keyed)
    BY <2>2, Zenon DEF Readable
  <2>. HIDE DEF g, o
  <2>6. Len(g) + 1 \in DOMAIN flight' /\ flight'[Len(g) + 1] = o
    BY <1>1, <2>1, <2>3, AppendedTo
  <2>7. AllSound(flight')
    BY <1>1, <2>1, <2>3, <2>4, AppendedSound
  <2>. QED BY <2>5, <2>6, <2>7 DEF Coming
<1>. QED BY <1>2, <1>3

LEMMA PublishReads ==
  ASSUME day \in Days \cup {None}, user \in Somebody, NEW s, NEW ops \in Seq(Operation),
         AllSound(ops), Readable(day, user, session) /\ shown = None => Coming(ops), Publish(s, ops)
  PROVE  AllSound(flight') /\ (Readable(day, user, session') /\ shown' = None => Coming(flight'))
<1>0. session' = s
  BY DEF Publish
<1>1. CASE Reload(day, user, s, ops)
  BY <1>0, <1>1, ReloadReads
<1>2. CASE s # "Unlocked" /\ flight' = ops /\ UNCHANGED shown
  BY <1>0, <1>2 DEF Readable
<1>. QED BY <1>1, <1>2 DEF Publish

\* What is done is gone; what was coming is still coming.
LEMMA RemovedReads ==
  ASSUME NEW f \in Seq(Operation), NEW i \in DOMAIN f, AllSound(f)
  PROVE  /\ AllSound(RemoveAt(f, i))
         /\ ~f[i].current /\ Coming(f) => Coming(RemoveAt(f, i))
<1> DEFINE g == RemoveAt(f, i)
<1>1. \A j \in DOMAIN g : Was(i, j) \in DOMAIN f /\ g[j] = f[Was(i, j)]
  BY RemovedFrom
<1>2. \A k \in DOMAIN f : k # i => \E j \in DOMAIN g : Was(i, j) = k
  BY RemovedFrom
<1>. HIDE DEF g
<1>3. AllSound(g)
  BY <1>1 DEF AllSound
<1>4. ASSUME ~f[i].current, Coming(f) PROVE Coming(g)
  <2>1. PICK k \in DOMAIN f : f[k].current /\ (f[k].store = None \/ f[k].keyed)
    BY <1>4 DEF Coming
  <2>2. PICK j \in DOMAIN g : Was(i, j) = k
    BY <1>2, <1>4, <2>1
  <2>. QED BY <1>1, <2>1, <2>2 DEF Coming
<1>. QED BY <1>3, <1>4 DEF g

\* An answer to an operation leaves it as current, and as keyed, as it was.
LEMMA AnsweredReads ==
  ASSUME NEW f \in Seq(Operation), NEW i \in DOMAIN f, NEW o, AllSound(f), Sound(o),
         o.current = f[i].current, o.store = f[i].store, o.keyed = f[i].keyed
  PROVE  AllSound([f EXCEPT ![i] = o]) /\ (Coming(f) => Coming([f EXCEPT ![i] = o]))
<1> DEFINE g == [f EXCEPT ![i] = o]
<1>1. DOMAIN g = DOMAIN f /\ \A j \in DOMAIN f : g[j] = IF j = i THEN o ELSE f[j]
  OBVIOUS
<1>. HIDE DEF g
<1>2. AllSound(g)
  BY <1>1 DEF AllSound
<1>3. \A j \in DOMAIN f : g[j].current = f[j].current /\ g[j].store = f[j].store /\ g[j].keyed = f[j].keyed
  BY <1>1
<1>4. Coming(f) => Coming(g)
  BY <1>1, <1>3 DEF Coming
<1>. QED BY <1>2, <1>4 DEF g

\* What reading puts into a load leaves it the load it was; a sealed row is for want of a key.
SameLoad(o, q) == q.kind = o.kind /\ q.current = o.current /\ q.store = o.store /\ q.keyed = o.keyed

LEMMA AnsweredSame ==
  ASSUME NEW o \in Operation, NEW b, NEW q, q = [o EXCEPT !.answer = b]
  PROVE  SameLoad(o, q) /\ q.answer = b
BY DEF SameLoad, Operation

LEMMA AnsweredText ==
  ASSUME NEW o \in Operation, NEW t, NEW q, q = [o EXCEPT !.answer = "text", !.text = t]
  PROVE  SameLoad(o, q) /\ q.answer = "text"
BY DEF SameLoad, Operation

LEMMA ReadRowReads ==
  ASSUME NEW o \in Operation, NEW row, NEW q, q = ReadRow(o, row)
  PROVE  SameLoad(o, q) /\ (q.answer = "sealed" => ~o.keyed)
<1>1. CASE row = None
  <2>1. q = [o EXCEPT !.answer = "text"]
    BY <1>1 DEF ReadRow
  <2>2. SameLoad(o, q) /\ q.answer = "text"
    BY <2>1, AnsweredSame, Zenon
  <2>. QED BY <2>2
<1>2. CASE row # None /\ ~o.keyed
  <2>1. q = [o EXCEPT !.answer = "sealed"]
    BY <1>2 DEF ReadRow
  <2>2. SameLoad(o, q)
    BY <2>1, AnsweredSame, Zenon
  <2>. QED BY <1>2, <2>2
<1>3. CASE row # None /\ o.keyed /\ row.key # o.store
  <2>1. q = [o EXCEPT !.answer = "unopenable"]
    BY <1>3 DEF ReadRow
  <2>2. SameLoad(o, q) /\ q.answer = "unopenable"
    BY <2>1, AnsweredSame, Zenon
  <2>. QED BY <2>2
<1>4. CASE row # None /\ o.keyed /\ row.key = o.store
  <2>1. q = [o EXCEPT !.answer = "text", !.text = row.text]
    BY <1>4 DEF ReadRow
  <2>2. SameLoad(o, q) /\ q.answer = "text"
    BY <2>1, AnsweredText, Zenon
  <2>. QED BY <2>2
<1>. QED BY <1>1, <1>2, <1>3, <1>4

LEMMA ServeLoadReads ==
  ASSUME Inv, ReadInv, NEW i \in DOMAIN flight, ServeLoad(i)
  PROVE  ReadInv'
<1> DEFINE o == flight[i]
<1>1. flight \in Seq(Operation) /\ o \in Operation
  BY DEF Inv, HookInv, Hook
<1>2. \E q : /\ flight' = [flight EXCEPT ![i] = q] /\ SameLoad(o, q)
             /\ q.answer = "sealed" => o.store # None /\ ~o.keyed
  <2>1. CASE o.store = None
    <3> DEFINE text == IF local[o.day] = None THEN Empty ELSE local[o.day]
               q == [o EXCEPT !.answer = "text", !.text = text]
    <3>1. flight' = [flight EXCEPT ![i] = q]
      BY <2>1 DEF ServeLoad
    <3>2. SameLoad(o, q) /\ q.answer = "text"
      BY <1>1, AnsweredText, Zenon
    <3>. HIDE DEF o, q
    <3>. QED BY <3>1, <3>2
  <2>2. CASE o.store # None /\ cookie = None
    <3> DEFINE q == [o EXCEPT !.answer = "failed"]
    <3>1. flight' = [flight EXCEPT ![i] = q]
      BY <2>2 DEF ServeLoad
    <3>2. SameLoad(o, q) /\ q.answer = "failed"
      BY <1>1, AnsweredSame, Zenon
    <3>. HIDE DEF o, q
    <3>. QED BY <3>1, <3>2
  <2>3. CASE o.store # None /\ cookie # None
    <3> DEFINE q == ReadRow(o, rows[cookie][o.day])
    <3>1. flight' = [flight EXCEPT ![i] = q]
      BY <2>3 DEF ServeLoad
    <3>2. SameLoad(o, q) /\ (q.answer = "sealed" => ~o.keyed)
      BY <1>1, ReadRowReads, Zenon
    <3>. HIDE DEF o, q
    <3>. QED BY <2>3, <3>1, <3>2
  <2>. QED BY <2>1, <2>2, <2>3
<1>a. PICK q : /\ flight' = [flight EXCEPT ![i] = q] /\ SameLoad(o, q)
               /\ q.answer = "sealed" => o.store # None /\ ~o.keyed
  BY <1>2
<1>3. o.kind = "load" /\ UNCHANGED <<user, session, day, shown>>
  BY DEF ServeLoad, page
<1>4. Sound(q)
  BY <1>a, <1>3 DEF Sound, SameLoad
<1>5. AllSound([flight EXCEPT ![i] = q]) /\ (Coming(flight) => Coming([flight EXCEPT ![i] = q]))
  BY <1>1, <1>a, <1>4, AnsweredReads DEF ReadInv, SameLoad
<1>. QED BY <1>a, <1>3, <1>5 DEF ReadInv

LEMMA FailReads ==
  ASSUME Inv, ReadInv, NEW i \in DOMAIN flight, Fail(i) \/ ServeSave(i)
  PROVE  ReadInv'
<1>0. UNCHANGED <<user, session, day, shown>>
  BY DEF Fail, ServeSave, page
<1>1. flight \in Seq(Operation) /\ flight[i] \in Operation /\ Sound(flight[i]) /\ AllSound(flight)
  BY DEF Inv, HookInv, Hook, ReadInv, AllSound
<1>2. CASE flight[i].kind = "save" /\ flight' = RemoveAt(flight, i)
  <2>1. ~flight[i].current
    BY <1>1, <1>2 DEF Sound
  <2>2. AllSound(flight') /\ (Coming(flight) => Coming(flight'))
    BY <1>1, <1>2, <2>1, RemovedReads
  <2>. QED BY <1>0, <2>2 DEF ReadInv
<1>3. CASE flight' = [flight EXCEPT ![i].answer = "failed"]
  <2> DEFINE q == [flight[i] EXCEPT !.answer = "failed"]
  <2>1. /\ q.kind = flight[i].kind /\ q.current = flight[i].current
        /\ q.store = flight[i].store /\ q.keyed = flight[i].keyed /\ q.answer = "failed"
    BY <1>1 DEF Operation
  <2>2. flight' = [flight EXCEPT ![i] = q]
    BY <1>3
  <2>. HIDE DEF q
  <2>3. Sound(q)
    BY <1>1, <2>1 DEF Sound
  <2>4. AllSound(flight') /\ (Coming(flight) => Coming(flight'))
    BY <1>1, <2>1, <2>2, <2>3, AnsweredReads
  <2>. QED BY <1>0, <2>4 DEF ReadInv
<1>. QED BY <1>2, <1>3 DEF Fail, ServeSave

\* The load that was coming ends on screen, or has the day read again; another ends nowhere.
LEMMA ArriveReads ==
  ASSUME Inv, ReadInv, NEW i \in DOMAIN flight, Arrive(i)
  PROVE  ReadInv'
<1> DEFINE o == flight[i]
           rest == RemoveAt(flight, i)
<1>1. /\ flight \in Seq(Operation) /\ o \in Operation /\ Sound(o) /\ AllSound(flight)
      /\ OneCurrent(flight) /\ day \in Days \cup {None} /\ user \in Somebody
  BY DEF Inv, Rest, HookInv, Hook, ReadInv, AllSound
<1>2. rest \in Seq(Operation) /\ AllSound(rest) /\ (~o.current /\ Coming(flight) => Coming(rest))
  BY <1>1, RemovedReads, RemoveFacts
<1>3. UNCHANGED <<user, day>>
  BY DEF Arrive
<1>4. \/ ~o.current /\ flight' = rest /\ UNCHANGED <<shown, session>>
      \/ o.current /\ o.answer = "sealed" /\ flight' = rest /\ UNCHANGED <<shown, session>>
      \/ ShowLoaded(o) /\ flight' = rest
      \/ session = "Unlocked" /\ Publish("Unknown", rest)
  BY DEF Arrive, UnopenableRowSeen
<1>. HIDE DEF rest
<1>5. CASE ~o.current /\ flight' = rest /\ UNCHANGED <<shown, session>>
  BY <1>2, <1>3, <1>5 DEF ReadInv
<1>6. CASE o.current /\ o.answer = "sealed" /\ flight' = rest /\ UNCHANGED <<shown, session>>
  <2>1. ~Coming(flight)
    BY <1>1, <1>6 DEF Coming, OneCurrent, Sound
  <2>. QED BY <1>2, <1>3, <1>6, <2>1 DEF ReadInv
<1>7. CASE ShowLoaded(o) /\ flight' = rest
  <2>1. shown' = [text |-> o.text, day |-> o.day, store |-> o.store, typed |-> FALSE]
    BY <1>7 DEF ShowLoaded
  <2>2. shown' \in Shown
    BY <1>1, <2>1 DEF Shown, Operation
  <2>. QED BY <1>2, <1>7, <2>2, AbsentAssumption DEF ReadInv
<1>8. CASE session = "Unlocked" /\ Publish("Unknown", rest)
  <2>1. Reload(day, user, "Unknown", rest) /\ session' = "Unknown"
    BY <1>8 DEF Publish
  <2>2. AllSound(flight') /\ (Readable(day, user, "Unknown") => Coming(flight'))
    BY <1>1, <1>2, <2>1, ReloadReads
  <2>. QED BY <1>3, <2>1, <2>2 DEF ReadInv
<1>. QED BY <1>4, <1>5, <1>6, <1>7, <1>8

LEMMA KeystrokeReads ==
  ASSUME Inv, ReadInv, NEW t \in {Empty, acts + 1}, Keystroke(t)
  PROVE  ReadInv'
<1>1. /\ flight \in Seq(Operation) /\ AllSound(flight)
      /\ day \in Days /\ user \in Somebody
  BY DEF Inv, Rest, HookInv, Hook, ReadInv, Keystroke, Editable
<1>2. t \in Texts
  BY BoundsAssumption DEF Inv, Rest, Keystroke, Act, Empty, Texts, Old
<1>3. shown' \in Shown
  <2>1. shown' = [text |-> t, day |-> day, store |-> user, typed |-> TRUE]
    BY DEF Keystroke
  <2>. QED BY <1>1, <1>2, <2>1 DEF Shown
<1>4. Outranked(flight) \in Seq(Operation) /\ AllSound(Outranked(flight))
  BY <1>1, OutrankedFacts, OutrankedSound
<1>5. AllSound(Append(Outranked(flight), Save(day, user, session, t)))
  <2>1. (session = "Unlocked") \in BOOLEAN
    OBVIOUS
  <2>2. Save(day, user, session, t) \in Operation
    BY <1>1, <1>2, <2>1 DEF Save, Operation, Answers
  <2>3. Sound(Save(day, user, session, t))
    BY DEF Save, Sound
  <2>. QED BY <1>4, <2>2, <2>3, AppendedSound
<1>6. AllSound(flight')
  BY <1>4, <1>5 DEF Keystroke
<1>. QED BY <1>3, <1>6, AbsentAssumption DEF ReadInv

\* Another day, another store, another page: what is wanted then is read anew.
LEMMA ReadAgainReads ==
  ASSUME Inv, ReadInv,
         (\E d \in Days : Navigate(d)) \/ SignOutTold \/ PageLoad \/ SetupGate
  PROVE  ReadInv'
<1>1. /\ flight \in Seq(Operation) /\ AllSound(flight)
      /\ day \in Days \cup {None} /\ user \in Somebody /\ cookie \in Somebody /\ None \in Somebody
  BY DEF Inv, Rest, HookInv, Hook, ReadInv, Somebody
<1>2. \E d \in Days \cup {None}, u \in Somebody : \E s :
        /\ Reload(d, u, s, flight) /\ day' = d /\ user' = u
        /\ session' = s \/ session' # "Unlocked"
  BY <1>1 DEF Navigate, SignOutTold, PageLoad, SetupGate
<1>3. PICK d \in Days \cup {None}, u \in Somebody : \E s :
        /\ Reload(d, u, s, flight) /\ day' = d /\ user' = u
        /\ session' = s \/ session' # "Unlocked"
  BY <1>2
<1>4. PICK s : /\ Reload(d, u, s, flight) /\ day' = d /\ user' = u
               /\ session' = s \/ session' # "Unlocked"
  BY <1>3
<1>5. AllSound(flight') /\ (Readable(d, u, s) => Coming(flight'))
  BY <1>1, <1>4, ReloadReads
<1>. QED BY <1>4, <1>5 DEF ReadInv, Readable

LEMMA NextKeepsReads == Inv /\ ReadInv /\ [Next]_vars => ReadInv'
<1> SUFFICES ASSUME Inv, ReadInv, [Next]_vars PROVE ReadInv'
  OBVIOUS
<1>1. ASSUME NEW i \in DOMAIN flight, ServeSave(i) \/ ServeLoad(i) \/ Fail(i) \/ Arrive(i)
      PROVE  ReadInv'
  BY <1>1, ServeLoadReads, FailReads, ArriveReads
<1>2. ASSUME NEW t \in {Empty, acts + 1}, Keystroke(t) PROVE ReadInv'
  BY <1>2, KeystrokeReads
<1>3. CASE ProbeAnswers \/ Unlock \/ LockNow \/ Retry
  <2>1. PICK s : Publish(s, flight)
    BY <1>3 DEF ProbeAnswers, Unlock, LockNow, Retry
  <2>2. UNCHANGED <<user, day>>
    BY <1>3 DEF ProbeAnswers, Unlock, LockNow, Retry
  <2>3. flight \in Seq(Operation) /\ day \in Days \cup {None} /\ user \in Somebody
    BY DEF Inv, Rest, HookInv, Hook
  <2>4. AllSound(flight') /\ (Readable(day, user, session') /\ shown' = None => Coming(flight'))
    BY <2>1, <2>3, PublishReads DEF ReadInv
  <2>. QED BY <2>2, <2>4 DEF ReadInv
<1>4. CASE (\E d \in Days : Navigate(d)) \/ SignOutTold \/ PageLoad \/ SetupGate
  BY <1>4, ReadAgainReads
<1>5. CASE \/ \E c \in Somebody : CookieMovesTo(c)
           \/ \E a \in Accounts : Encrypted(a)
  BY <1>5 DEF CookieMovesTo, Encrypted, page, ReadInv
<1>6. CASE UNCHANGED vars
  BY <1>6 DEF vars, ReadInv
<1>. QED BY <1>1, <1>2, <1>3, <1>4, <1>5, <1>6 DEF Next, Answered

\* For any constants, a day that can be typed into and shows nothing has a load of its own on
\* the way, and what that load brings will be shown.
THEOREM BlankDaysAreRead == Spec => []DayIsRead
<1>1. Init => ReadInv
  <2> SUFFICES ASSUME Init PROVE ReadInv
    OBVIOUS
  <2>1. /\ DOMAIN flight = {1} /\ flight[1] = Load(day, cookie, "Unknown")
        /\ user = cookie /\ session # "Unlocked"
    BY DEF Init
  <2>2. /\ flight[1].kind = "load" /\ flight[1].answer = "waiting" /\ flight[1].current
        /\ flight[1].store = user
    BY <2>1 DEF Load
  <2>. QED BY <2>1, <2>2 DEF ReadInv, AllSound, Sound, Readable, Coming
<1>2. Inv /\ ReadInv /\ [Next]_vars => ReadInv'
  BY NextKeepsReads
<1>3. Inv /\ ReadInv => DayIsRead
  <2> SUFFICES ASSUME Inv, ReadInv, Editable, shown = None
               PROVE  \E i \in DOMAIN flight :
                        /\ flight[i].kind = "load" /\ flight[i].current
                        /\ flight[i].day = day /\ flight[i].store = user
                        /\ flight[i].answer # "sealed"
    BY DEF DayIsRead
  <2>0. session \in Sessions
    BY DEF Inv, Rest
  <2>1. Readable(day, user, session)
    BY <2>0 DEF Editable, Writes, Readable, Sessions
  <2>2. PICK i \in DOMAIN flight : flight[i].current /\ (flight[i].store = None \/ flight[i].keyed)
    BY <2>1 DEF ReadInv, Coming
  <2>3. Sound(flight[i]) /\ flight[i].kind \in {"load", "save"}
    <3>1. flight[i] \in Operation
      BY DEF Inv, HookInv, Hook
    <3>. QED BY <3>1 DEF ReadInv, AllSound, Operation
  <2>4. flight[i].day = day /\ flight[i].store = user
    BY <2>2 DEF Inv, HookInv, Hook, OfDay
  <2>. QED BY <2>2, <2>3, <2>4 DEF Sound
<1>. QED BY <1>1, <1>2, <1>3, InvHolds, PTL DEF Spec

-----------------------------------------------------------------------------
(* The session of the day's page.                                          *)

SignedOutInv == user = None => session = "Disabled"

LEMMA SessionStep ==
  ASSUME Inv, SignedOutInv, [Next]_vars
  PROVE  SignedOutInv' /\ (Session!Next \/ UNCHANGED <<user, session, reprobed>>)
<1> DEFINE Goal == SignedOutInv' /\ (Session!Next \/ UNCHANGED <<user, session, reprobed>>)
<1>0. session \in Sessions /\ reprobed \in BOOLEAN /\ cookie \in Somebody
  BY DEF Inv, Rest
<1>1. UNCHANGED <<user, session, reprobed>> => Goal
  BY DEF SignedOutInv
<1>2. UNCHANGED page => Goal
  BY <1>1 DEF page
<1>3. CASE SetupGate
  <2>1. Session!Retry
    BY <1>3 DEF SetupGate, Gated, Writes, Session!Retry
  <2>. QED BY <2>1 DEF SignedOutInv, Session!Retry, Session!Next
<1>4. CASE ProbeAnswers
  <2>1. Session!Answer
    BY <1>4 DEF ProbeAnswers, Publish, Session!Answer, Session!EncryptionStates
  <2>2. user' = user /\ user # None
    BY <1>4 DEF ProbeAnswers, SignedOutInv
  <2>. QED BY <2>1, <2>2 DEF SignedOutInv, Session!Next
<1>5. ASSUME NEW i \in DOMAIN flight, ServeSave(i) \/ ServeLoad(i) \/ Fail(i)
      PROVE  UNCHANGED page
  BY <1>5 DEF ServeSave, ServeLoad, Fail
<1>6. ASSUME NEW i \in DOMAIN flight, Arrive(i) PROVE Goal
  <2>1. CASE UNCHANGED <<session, reprobed>>
    BY <1>1, <1>6, <2>1 DEF Arrive
  <2>2. CASE ~UNCHANGED <<session, reprobed>>
    <3>1. UnopenableRowSeen(flight[i], RemoveAt(flight, i)) /\ user' = user
      BY <1>6, <2>2 DEF Arrive
    <3>2. Session!Reprobe
      BY <1>0, <2>2, <3>1 DEF UnopenableRowSeen, Publish, SignedOutInv, Session!Reprobe
    <3>. QED BY <3>2 DEF SignedOutInv, Session!Reprobe, Session!Next
  <2>. QED BY <2>1, <2>2
<1>7. CASE Unlock \/ LockNow
  <2>1. Session!KeyComesOrGoes
    BY <1>7 DEF Unlock, LockNow, Publish, SignedOutInv, Session!KeyComesOrGoes
  <2>. QED BY <2>1 DEF SignedOutInv, Session!KeyComesOrGoes, Session!Next
<1>8. CASE Retry
  <2>1. Session!Retry
    BY <1>8 DEF Retry, Publish, SignedOutInv, Session!Retry
  <2>. QED BY <2>1 DEF SignedOutInv, Session!Retry, Session!Next
<1>9. CASE SignOutTold
  <2>1. Session!SignOut
    BY <1>9 DEF SignOutTold, Session!SignOut
  <2>. QED BY <1>9, <2>1 DEF SignOutTold, SignedOutInv, Session!Next
<1>10. CASE PageLoad
  <2>1. Session!Load(cookie) /\ cookie \in Session!Somebody
    BY <1>0, <1>10 DEF PageLoad, Session!Load, Session!Somebody, Somebody
  <2>. QED BY <1>10, <2>1 DEF PageLoad, SignedOutInv, Session!Next
<1>11. ASSUME NEW d \in Days, Navigate(d) PROVE UNCHANGED <<user, session, reprobed>>
  BY <1>11 DEF Navigate
<1>12. ASSUME NEW t, Keystroke(t) PROVE UNCHANGED page
  BY <1>12 DEF Keystroke
<1>13. ASSUME NEW c, CookieMovesTo(c) \/ Encrypted(c) PROVE UNCHANGED page
  BY <1>13 DEF CookieMovesTo, Encrypted
<1>14. UNCHANGED vars => UNCHANGED page
  BY DEF vars, page
<1>15. CASE Answered
  BY <1>2, <1>3, <1>4, <1>5, <1>6, <1>15 DEF Answered
<1>16. CASE Next /\ ~Answered
  BY <1>1, <1>2, <1>7, <1>8, <1>9, <1>10, <1>11, <1>12, <1>13, <1>16 DEF Next
<1>. QED BY <1>2, <1>14, <1>15, <1>16

\* Whatever its loads report, a day doubts a key once in a page load, and a signed-out page
\* stays Disabled (claim_reprobe, and the guards of unlock and of the probe).
THEOREM DaySessionKept == Spec => DayKeepsSession
<1>1. Init => SignedOutInv /\ Session!Init
  BY DEF Init, SignedOutInv, Session!Init, Session!Somebody, Session!EncryptionStates, Somebody
<1>2. Inv /\ SignedOutInv /\ [Next]_vars
        => SignedOutInv' /\ [Session!Next]_<<user, session, reprobed>>
  BY SessionStep
<1>. QED BY <1>1, <1>2, InvHolds, PTL DEF Spec, DayKeepsSession, Session!Spec

=============================================================================
