--------------------------- MODULE ImportBannerProofs ---------------------------
(***************************************************************************)
(* Proofs about ImportBanner: its types, that an offer is for the user it  *)
(* was asked for, that a listed row stays, and that a day which a scan has *)
(* found is given up on only when it is in an account.                     *)
(***************************************************************************)
EXTENDS ImportBanner, FiniteSetTheorems, WellFoundedInduction, TLAPS

USE BoundsAssumption, NoneAssumption

-----------------------------------------------------------------------------
(* Days.                                                                   *)

\* The least of some days is one of them.
LEMMA MinIsMember ==
  ASSUME NEW S \in SUBSET Days, S # {}
  PROVE  Min(S) \in S
<1>1. S \subseteq Nat
  BY DEF Days
<1>2. \E x \in S : \A y \in S : ~(<<y, x>> \in OpToRel(<, Nat))
  BY <1>1, NatLessThanWellFounded, WFMin, Zenon
<1>3. PICK x \in S : \A y \in S : ~(<<y, x>> \in OpToRel(<, Nat))
  BY <1>2
<1>4. \A y \in S : ~(y < x)
  BY <1>1, <1>3, Zenon DEF OpToRel
<1>5. \A y \in S : x <= y
  BY <1>1, <1>4
<1> QED
  BY <1>5 DEF Min

\* Any set of days is finite, and its parts are no more than it has.
LEMMA DaysAreFinite ==
  ASSUME NEW S \in SUBSET Days
  PROVE  IsFiniteSet(S) /\ Cardinality(S) \in Nat
<1>1. IsFiniteSet(Days)
  BY FS_Interval DEF Days
<1>2. IsFiniteSet(S)
  BY <1>1, FS_Subset
<1> QED
  BY <1>2, FS_CardinalityType

LEMMA PartsOfDays ==
  ASSUME NEW S \in SUBSET Days, NEW T \in SUBSET S
  PROVE  /\ Cardinality(T) <= Cardinality(S)
         /\ Cardinality(T) = Cardinality(S) => T = S
  BY DaysAreFinite, FS_Subset

LEMMA WithoutDay ==
  ASSUME NEW S \in SUBSET Days, NEW d \in S
  PROVE  Cardinality(S \ {d}) = Cardinality(S) - 1
  BY DaysAreFinite, FS_RemoveElement

LEMMA WithDay ==
  ASSUME NEW S \in SUBSET Days, NEW d \in Days \ S
  PROVE  Cardinality(S \cup {d}) = Cardinality(S) + 1
  BY DaysAreFinite, FS_AddElement

LEMMA DisjointDays ==
  ASSUME NEW S \in SUBSET Days, NEW T \in SUBSET S
  PROVE  Cardinality(S \ T) + Cardinality(T) = Cardinality(S)
<1>1. IsFiniteSet(S \ T) /\ IsFiniteSet(T)
  BY DaysAreFinite
<1>2. Cardinality((S \ T) \cup T) =
        Cardinality(S \ T) + Cardinality(T) - Cardinality((S \ T) \cap T)
  BY <1>1, FS_Union
<1>3. (S \ T) \cup T = S /\ (S \ T) \cap T = {}
  OBVIOUS
<1>4. Cardinality({}) = 0
  BY FS_EmptySet
<1>5. Cardinality(S \ T) \in Nat /\ Cardinality(T) \in Nat /\ Cardinality(S) \in Nat
  BY DaysAreFinite
<1>6. /\ Cardinality((S \ T) \cup T) = Cardinality(S)
      /\ Cardinality((S \ T) \cap T) = 0
  BY <1>3, <1>4, Zenon
<1> QED
  BY <1>2, <1>5, <1>6

\* What the scan of the device finds is days.
LEMMA ScanIsDays ==
  ASSUME TypeOK
  PROVE  \A from, to : DatesOnDevice(from, to) \subseteq Days
  BY DEF TypeOK, DatesOnDevice

-----------------------------------------------------------------------------
(* Types.                                                                  *)

AccountTypes ==
  /\ today \in Days /\ dated \subseteq Days /\ legacy \in BOOLEAN
  /\ cookie \in Users \cup {None} /\ encrypted \subseteq Users
  /\ row \in [Users -> [Days -> {"none", "written", "imported"}]]
  /\ user \in Users \cup {None} /\ keyed \in BOOLEAN

BannerTypes ==
  /\ run \in 0..MaxRuns /\ scans \subseteq Scan /\ offer \in Offer
  /\ done \in BOOLEAN /\ settled \subseteq Days \X {"found", "unread"}

ImportTypes ==
  /\ clicks \in 0..MaxImports
  /\ imports \subseteq Import
  /\ \A i \in imports : i.left \subseteq i.offer.days /\ i.copied + Cardinality(i.left) <= Cardinality(i.offer.days)

LEMMA TypeParts == TypeOK <=> AccountTypes /\ BannerTypes /\ ImportTypes
  BY Zenon DEF TypeOK, AccountTypes, BannerTypes, ImportTypes

\* A copied body is one less to copy, and the day it was of was one of them.
LEMMA SavedOne ==
  ASSUME TypeOK, NEW i \in imports, SaveRow(i)
  PROVE  /\ Min(i.left) \in i.left /\ Min(i.left) \in Days
         /\ \/ row' = row
            \/ /\ cookie \in Users
               /\ row' = [row EXCEPT ![cookie][Min(i.left)] = "imported"]
<1>1. i \in Import
  BY DEF TypeOK
<1>2. i.left \in SUBSET Days /\ i.left # {}
  BY <1>1 DEF Import, SaveRow
<1>3. Min(i.left) \in i.left
  BY <1>2, MinIsMember
<1>4. encrypted \subseteq Users
  BY DEF TypeOK
<1> QED
  BY <1>2, <1>3, <1>4 DEF SaveRow

LEMMA AccountTypesStep ==
  ASSUME TypeOK, [Next]_vars
  PROVE  AccountTypes'
<1>0. AccountTypes
  BY TypeParts
<1> USE DEF AccountTypes, device, account, session
<1>1. ASSUME NEW s \in scans, Listed(s) PROVE AccountTypes'
  BY <1>0, <1>1 DEF Listed
<1>2. CASE Dismiss
  BY <1>0, <1>2 DEF Dismiss
<1>3. CASE ClickImport
  BY <1>0, <1>3 DEF ClickImport
<1>4. ASSUME NEW i \in imports, SaveRow(i) PROVE AccountTypes'
  <2>1. row' \in [Users -> [Days -> {"none", "written", "imported"}]]
    BY <1>0, <1>4, SavedOne
  <2> QED
    BY <1>0, <1>4, <2>1 DEF SaveRow
<1>5. ASSUME NEW i \in imports, Imported(i) PROVE AccountTypes'
  BY <1>0, <1>5 DEF Imported
<1>6. ASSUME NEW c \in Users \cup {None}, OtherTab(c) PROVE AccountTypes'
  BY <1>0, <1>6 DEF OtherTab
<1>7. ASSUME NEW u \in Users \cup {cookie}, PageLoad(u) PROVE AccountTypes'
  BY <1>0, <1>7 DEF PageLoad
<1>8. CASE SignOut
  BY <1>0, <1>8 DEF SignOut
<1>9. CASE Navigate
  BY <1>0, <1>9 DEF Navigate
<1>10. CASE Unlock \/ \E u \in Users : TurnOn(u)
  BY <1>0, <1>10 DEF Unlock, TurnOn
<1>11. CASE Midnight
  BY <1>0, <1>11 DEF Midnight
<1>12. ASSUME NEW d \in Days, TypeOnDevice(d) PROVE AccountTypes'
  BY <1>0, <1>12 DEF TypeOnDevice, Store
<1>13. ASSUME NEW d \in Days, ClearOnDevice(d) PROVE AccountTypes'
  BY <1>0, <1>13 DEF ClearOnDevice
<1>14. ASSUME NEW u \in Users, NEW d \in Days, Write(u, d) PROVE AccountTypes'
  BY <1>0, <1>14 DEF Write
<1>15. CASE UNCHANGED vars
  BY <1>0, <1>15 DEF vars
<1> QED
  BY <1>1, <1>2, <1>3, <1>4, <1>5, <1>6, <1>7, <1>8, <1>9, <1>10, <1>11, <1>12,
     <1>13, <1>14, <1>15 DEF Next

\* Days with what they were settled as are part of the history.
LEMMA GoneIsHistory ==
  ASSUME NEW S \in SUBSET Days, NEW how \in {"found", "unread"}
  PROVE  S \X {how} \subseteq Days \X {"found", "unread"}
  OBVIOUS

LEMMA PublishTypes ==
  ASSUME BannerTypes, NEW days \in SUBSET Days, NEW list \in Answer,
         NEW gone \in SUBSET (Days \X {"found", "unread"}), Publish(days, list, gone)
  PROVE  offer' \in Offer /\ done' \in BOOLEAN /\ settled' \subseteq Days \X {"found", "unread"}
<1>1. offer' \in Offer
  BY DEF Publish, Offer
<1>2. done' \in BOOLEAN
  BY DEF Publish, BannerTypes
<1>3. settled' \subseteq Days \X {"found", "unread"}
  BY Zenon DEF Publish, BannerTypes
<1> QED
  BY <1>1, <1>2, <1>3

LEMMA EffectTypes ==
  ASSUME TypeOK, NEW user1, Effect(user1)
  PROVE  BannerTypes'
<1>0. BannerTypes
  BY TypeParts
<1>1. NoOffer \in Offer
  BY DEF NoOffer, Offer, Answer
<1>2. run' \in 1..MaxRuns /\ run' = run + 1
  BY <1>0 DEF Effect, BannerTypes
<1>3. CASE user1 = None \/ done
  BY <1>0, <1>1, <1>2, <1>3 DEF Effect, BannerTypes
<1>4. CASE ~(user1 = None \/ done)
  <2>1. PICK local \in {{}, DatesOnDevice(1, today)} :
              IF local = {}
                THEN /\ Publish({}, NoOffer.list, DatesOnDevice(1, today) \X {"unread"})
                     /\ scans' = {}
                ELSE /\ scans' = {[run |-> run + 1, local |-> local]}
                     /\ offer' = NoOffer /\ UNCHANGED <<done, settled>>
    BY <1>4 DEF Effect
  <2>2. CASE local = {}
    <3>1. NoOffer.list \in Answer
      BY DEF NoOffer, Answer
    <3>2. DatesOnDevice(1, today) \X {"unread"} \in SUBSET (Days \X {"found", "unread"})
      BY ScanIsDays, GoneIsHistory
    <3>3. offer' \in Offer /\ done' \in BOOLEAN /\ settled' \subseteq Days \X {"found", "unread"}
      BY <1>0, <2>1, <2>2, <3>1, <3>2, PublishTypes
    <3> QED
      BY <1>2, <2>1, <2>2, <3>3 DEF BannerTypes
  <2>3. CASE local # {}
    <3>1. local \in SUBSET Days
      BY <2>1, <2>3, ScanIsDays
    <3>2. scans' \subseteq Scan
      BY <1>2, <2>1, <2>3, <3>1 DEF Scan
    <3> QED
      BY <1>0, <1>1, <1>2, <2>1, <2>3, <3>2 DEF BannerTypes
  <2> QED
    BY <2>2, <2>3
<1> QED
  BY <1>3, <1>4

\* What an answer can be.
LEMMA AnswerIs ==
  ASSUME TypeOK, NEW s \in scans, Listed(s)
  PROVE  \E list \in Answer :
           /\ \/ list.had = {}
              \/ list.of = cookie /\ cookie # None /\ list.had = {d \in 1..today : row[cookie][d] # "none"}
           /\ IF IsCurrent(s) THEN Publish(Importable(s.local, list.had), list, s.local \X {"found"})
              ELSE UNCHANGED <<offer, done, settled>>
<1>1. PICK list \in {[of |-> None, had |-> {}]} \cup
       (IF cookie = None THEN {} ELSE {[of |-> cookie, had |-> {d \in 1..today : row[cookie][d] # "none"}]}) :
         IF IsCurrent(s) THEN Publish(Importable(s.local, list.had), list, s.local \X {"found"})
         ELSE UNCHANGED <<offer, done, settled>>
  BY Zenon DEF Listed
<1>2. {d \in 1..today : row[cookie][d] # "none"} \subseteq Days
  BY DEF TypeOK, Days
<1>3. CASE list = [of |-> None, had |-> {}]
  <2>1. list \in Answer /\ list.had = {}
    BY <1>3 DEF Answer
  <2> QED
    BY <1>1, <2>1
<1>4. CASE cookie # None /\ list = [of |-> cookie, had |-> {d \in 1..today : row[cookie][d] # "none"}]
  <2>1. list \in Answer /\ list.of = cookie /\ list.had = {d \in 1..today : row[cookie][d] # "none"}
    BY <1>2, <1>4 DEF Answer, TypeOK
  <2> QED
    BY <1>1, <1>4, <2>1
<1> QED
  BY <1>1, <1>3, <1>4

LEMMA BannerTypesStep ==
  ASSUME TypeOK, [Next]_vars
  PROVE  BannerTypes'
<1>0. BannerTypes
  BY TypeParts
<1>a. NoOffer \in Offer
  BY DEF NoOffer, Offer, Answer
<1> USE DEF BannerTypes, banner
<1>1. ASSUME NEW s \in scans, Listed(s) PROVE BannerTypes'
  <2>1. PICK list \in Answer :
           IF IsCurrent(s) THEN Publish(Importable(s.local, list.had), list, s.local \X {"found"})
           ELSE UNCHANGED <<offer, done, settled>>
    BY <1>1, AnswerIs
  <2>2. s.local \in SUBSET Days
    BY <1>0, <1>1 DEF Scan
  <2>3. /\ Importable(s.local, list.had) \in SUBSET Days
        /\ s.local \X {"found"} \in SUBSET (Days \X {"found", "unread"})
    BY <2>2, GoneIsHistory DEF Importable
  <2>4. offer' \in Offer /\ done' \in BOOLEAN /\ settled' \subseteq Days \X {"found", "unread"}
    <3>1. CASE IsCurrent(s)
      BY <1>0, <2>1, <2>3, <3>1, PublishTypes
    <3>2. CASE ~IsCurrent(s)
      BY <1>0, <2>1, <3>2
    <3> QED
      BY <3>1, <3>2
  <2> QED
    BY <1>0, <1>1, <2>4 DEF Listed
<1>2. CASE Dismiss
  BY <1>0, <1>a, <1>2 DEF Dismiss
<1>3. CASE ClickImport
  BY <1>0, <1>3 DEF ClickImport
<1>4. ASSUME NEW i \in imports, SaveRow(i) PROVE BannerTypes'
  BY <1>0, <1>4 DEF SaveRow
<1>5. ASSUME NEW i \in imports, Imported(i) PROVE BannerTypes'
  <2>1. i.offer.days \subseteq Days
    BY DEF TypeOK, Import, Offer
  <2>2. done' \in BOOLEAN
    BY <1>0, <1>5 DEF Imported, FullySucceeded
  <2> QED
    BY <1>0, <1>a, <1>5, <2>1, <2>2 DEF Imported
<1>6. ASSUME NEW c \in Users \cup {None}, OtherTab(c) PROVE BannerTypes'
  BY <1>0, <1>6 DEF OtherTab
<1>7. ASSUME NEW u \in Users \cup {cookie}, PageLoad(u) PROVE BannerTypes'
  BY <1>7, EffectTypes DEF PageLoad
<1>8. CASE SignOut
  BY <1>0, <1>a, <1>8 DEF SignOut
<1>9. CASE Navigate
  BY <1>9, EffectTypes DEF Navigate
<1>10. CASE Unlock \/ \E u \in Users : TurnOn(u)
  BY <1>0, <1>10 DEF Unlock, TurnOn
<1>11. CASE Midnight
  BY <1>0, <1>11 DEF Midnight
<1>12. ASSUME NEW d \in Days, TypeOnDevice(d) PROVE BannerTypes'
  BY <1>0, <1>12 DEF TypeOnDevice
<1>13. ASSUME NEW d \in Days, ClearOnDevice(d) PROVE BannerTypes'
  BY <1>0, <1>13 DEF ClearOnDevice
<1>14. ASSUME NEW u \in Users, NEW d \in Days, Write(u, d) PROVE BannerTypes'
  BY <1>0, <1>14 DEF Write
<1>15. CASE UNCHANGED vars
  BY <1>0, <1>15 DEF vars
<1> QED
  BY <1>1, <1>2, <1>3, <1>4, <1>5, <1>6, <1>7, <1>8, <1>9, <1>10, <1>11, <1>12,
     <1>13, <1>14, <1>15 DEF Next

\* What is left of a save.
LEMMA ImportAfterSave ==
  ASSUME TypeOK, NEW i \in imports, SaveRow(i)
  PROVE  \E j \in Import :
           /\ imports' = (imports \ {i}) \cup {j}
           /\ j.offer = i.offer /\ j.left = i.left \ {Min(i.left)}
           /\ \/ j.copied = i.copied
              \/ /\ j.copied = i.copied + 1
                 /\ cookie \in Users /\ row' = [row EXCEPT ![cookie][Min(i.left)] = "imported"]
           /\ j.left \subseteq j.offer.days
           /\ j.copied + Cardinality(j.left) <= Cardinality(j.offer.days)
<1> DEFINE d == Min(i.left)
<1>1. i \in Import /\ d \in i.left
  BY SavedOne DEF TypeOK
<1>2. /\ i.left \in SUBSET Days /\ i.offer.days \in SUBSET Days /\ i.copied \in 0..MaxDay
      /\ i.left \subseteq i.offer.days /\ i.copied + Cardinality(i.left) <= Cardinality(i.offer.days)
  BY <1>1 DEF TypeOK, Import, Offer
<1>3. PICK ok \in BOOLEAN :
        /\ ok => i.keyed /\ cookie \in encrypted
        /\ \/ i.keyed /\ cookie \in encrypted /\ row' = [row EXCEPT ![cookie][d] = "imported"]
           \/ ~ok /\ UNCHANGED row
        /\ imports' = (imports \ {i}) \cup {[i EXCEPT !.left = @ \ {d}, !.copied = IF ok THEN @ + 1 ELSE @]}
  BY Zenon DEF SaveRow
<1> DEFINE j == [i EXCEPT !.left = @ \ {d}, !.copied = IF ok THEN @ + 1 ELSE @]
<1>4. /\ Cardinality(i.left \ {d}) = Cardinality(i.left) - 1
      /\ Cardinality(i.left) \in Nat /\ Cardinality(i.left \ {d}) \in Nat
  BY <1>1, <1>2, WithoutDay, DaysAreFinite
<1>5. Cardinality(i.offer.days) \in 0..MaxDay
  <2>1. Cardinality(Days) = MaxDay
    BY FS_Interval DEF Days
  <2> QED
    BY <1>2, <2>1, PartsOfDays, DaysAreFinite
<1> HIDE DEF d
<1>6. /\ j.offer = i.offer /\ j.left = i.left \ {d}
      /\ j.copied = IF ok THEN i.copied + 1 ELSE i.copied
  BY <1>1 DEF Import
<1>7. (IF ok THEN i.copied + 1 ELSE i.copied) \in 0..MaxDay
  BY <1>2, <1>4, <1>5
<1>8. j \in Import
  <2>1. i.left \ {d} \in SUBSET Days
    BY <1>2
  <2>2. ASSUME NEW c \in 0..MaxDay, NEW left \in SUBSET Days
        PROVE  [i EXCEPT !.left = left, !.copied = c] \in Import
    BY <1>1 DEF Import
  <2> QED
    BY <1>7, <2>1, <2>2
<1>9. j.copied + Cardinality(j.left) <= Cardinality(j.offer.days)
  BY <1>2, <1>4, <1>5, <1>6
<1>10. encrypted \subseteq Users
  BY DEF TypeOK
<1>11. /\ imports' = (imports \ {i}) \cup {j}
       /\ j.left \subseteq j.offer.days
  BY <1>2, <1>3, <1>6
<1>12. \/ j.copied = i.copied
       \/ /\ j.copied = i.copied + 1
          /\ cookie \in Users /\ row' = [row EXCEPT ![cookie][d] = "imported"]
  BY <1>3, <1>6, <1>10
<1> QED
  BY <1>6, <1>8, <1>9, <1>11, <1>12 DEF d

\* An import that begins has all it found yet to copy.
LEMMA ImportBegun ==
  ASSUME TypeOK, ClickImport
  PROVE  \E j \in Import :
           /\ imports' = imports \cup {j}
           /\ j.offer = offer /\ j.copied = 0
           /\ j.left \subseteq j.offer.days
           /\ j.copied + Cardinality(j.left) <= Cardinality(j.offer.days)
<1> DEFINE left == Bodies(offer.days)
           j == [n |-> clicks + 1, offer |-> offer, left |-> left,
                 copied |-> 0, keyed |-> keyed, here |-> TRUE]
<1>1. offer \in Offer /\ offer.days \in SUBSET Days /\ clicks \in 0..MaxImports /\ keyed \in BOOLEAN
  BY DEF TypeOK, Offer
<1>2. left \in SUBSET offer.days
  BY DEF Bodies
<1>3. Cardinality(left) <= Cardinality(offer.days) /\ Cardinality(left) \in Nat
  BY <1>1, <1>2, PartsOfDays, DaysAreFinite
<1>4. imports' = imports \cup {j}
  BY DEF ClickImport
<1>5. clicks + 1 \in 1..MaxImports
  BY <1>1 DEF ClickImport
<1> HIDE DEF left
<1>6. j \in Import
  BY <1>1, <1>2, <1>5 DEF Import
<1>7. j.offer = offer /\ j.copied = 0 /\ j.left = left
  OBVIOUS
<1> HIDE DEF j
<1> QED
  BY <1>2, <1>3, <1>4, <1>6, <1>7

LEMMA ImportTypesStep ==
  ASSUME TypeOK, [Next]_vars
  PROVE  ImportTypes'
<1>0. ImportTypes
  BY TypeParts
<1> USE DEF ImportTypes, banner
<1>1. ASSUME NEW s \in scans, Listed(s) PROVE ImportTypes'
  BY <1>0, <1>1 DEF Listed
<1>2. CASE Dismiss
  BY <1>0, <1>2 DEF Dismiss
<1>3. CASE ClickImport
  <2>1. PICK j \in Import :
           /\ imports' = imports \cup {j}
           /\ j.left \subseteq j.offer.days
           /\ j.copied + Cardinality(j.left) <= Cardinality(j.offer.days)
    BY <1>3, ImportBegun
  <2>2. clicks' \in 0..MaxImports
    BY <1>0, <1>3 DEF ClickImport
  <2> QED
    BY <1>0, <2>1, <2>2
<1>4. ASSUME NEW i \in imports, SaveRow(i) PROVE ImportTypes'
  <2>1. PICK j \in Import :
           /\ imports' = (imports \ {i}) \cup {j}
           /\ j.left \subseteq j.offer.days
           /\ j.copied + Cardinality(j.left) <= Cardinality(j.offer.days)
    BY <1>4, ImportAfterSave
  <2>2. clicks' = clicks
    BY <1>4 DEF SaveRow
  <2> QED
    BY <1>0, <2>1, <2>2
<1>5. ASSUME NEW i \in imports, Imported(i) PROVE ImportTypes'
  BY <1>0, <1>5 DEF Imported
<1>6. ASSUME NEW c \in Users \cup {None}, OtherTab(c) PROVE ImportTypes'
  BY <1>0, <1>6 DEF OtherTab
<1>7. ASSUME NEW u \in Users \cup {cookie}, PageLoad(u) PROVE ImportTypes'
  BY <1>0, <1>7 DEF PageLoad
<1>8. CASE SignOut
  BY <1>0, <1>8 DEF SignOut
<1>9. CASE Navigate
  <2>1. \A j \in imports' : \E i \in imports : j = [i EXCEPT !.here = FALSE]
    BY <1>9 DEF Navigate
  <2>2. ASSUME NEW i \in imports
        PROVE  /\ [i EXCEPT !.here = FALSE] \in Import
               /\ [i EXCEPT !.here = FALSE].left = i.left
               /\ [i EXCEPT !.here = FALSE].copied = i.copied
               /\ [i EXCEPT !.here = FALSE].offer = i.offer
    BY <1>0 DEF Import
  <2>3. clicks' = clicks
    BY <1>9 DEF Navigate
  <2>4. ASSUME NEW j \in imports'
        PROVE  /\ j \in Import /\ j.left \subseteq j.offer.days
               /\ j.copied + Cardinality(j.left) <= Cardinality(j.offer.days)
    <3>1. PICK i \in imports : j = [i EXCEPT !.here = FALSE]
      BY <2>1
    <3>2. j \in Import /\ j.left = i.left /\ j.copied = i.copied /\ j.offer = i.offer
      BY <2>2, <3>1
    <3> QED
      BY <1>0, <3>2
  <2> QED
    BY <1>0, <2>3, <2>4
<1>10. CASE Unlock \/ \E u \in Users : TurnOn(u)
  BY <1>0, <1>10 DEF Unlock, TurnOn
<1>11. CASE Midnight
  BY <1>0, <1>11 DEF Midnight
<1>12. ASSUME NEW d \in Days, TypeOnDevice(d) PROVE ImportTypes'
  BY <1>0, <1>12 DEF TypeOnDevice
<1>13. ASSUME NEW d \in Days, ClearOnDevice(d) PROVE ImportTypes'
  BY <1>0, <1>13 DEF ClearOnDevice
<1>14. ASSUME NEW u \in Users, NEW d \in Days, Write(u, d) PROVE ImportTypes'
  BY <1>0, <1>14 DEF Write
<1>15. CASE UNCHANGED vars
  BY <1>0, <1>15 DEF vars
<1> QED
  BY <1>1, <1>2, <1>3, <1>4, <1>5, <1>6, <1>7, <1>8, <1>9, <1>10, <1>11, <1>12,
     <1>13, <1>14, <1>15 DEF Next

LEMMA TypeStep == TypeOK /\ [Next]_vars => TypeOK'
<1> SUFFICES ASSUME TypeOK, [Next]_vars PROVE TypeOK'
  OBVIOUS
<1>1. AccountTypes' /\ BannerTypes' /\ ImportTypes'
  BY AccountTypesStep, BannerTypesStep, ImportTypesStep
<1> QED
  BY <1>1, Zenon DEF TypeOK, AccountTypes, BannerTypes, ImportTypes

LEMMA TypeInit == Init => TypeOK
<1> SUFFICES ASSUME Init PROVE TypeOK
  OBVIOUS
<1>0. MaxRuns \in Nat /\ MaxImports \in Nat
  BY Zenon
<1>b. keyed \in BOOLEAN /\ done \in BOOLEAN /\ legacy \in BOOLEAN
  BY Zenon DEF Init
<1>1. AccountTypes
  <2>1. today \in Days
    BY DEF Init, Days
  <2>2. row \in [Users -> [Days -> {"none", "written", "imported"}]]
    BY DEF Init
  <2>3. dated \subseteq Days /\ encrypted \subseteq Users /\ cookie = None /\ user = None
    BY DEF Init
  <2> QED
    BY <1>b, <2>1, <2>2, <2>3 DEF AccountTypes
<1>2. NoOffer \in Offer
  BY DEF NoOffer, Offer, Answer
<1>3. BannerTypes
  <2>1. run \in 0..MaxRuns /\ scans \subseteq Scan /\ offer \in Offer /\ settled \subseteq Days \X {"found", "unread"}
    BY <1>0, <1>2 DEF Init
  <2> QED
    BY <1>b, <2>1 DEF BannerTypes
<1>4. ImportTypes
  BY <1>0 DEF Init, ImportTypes
<1> QED
  BY <1>1, <1>3, <1>4, TypeParts

\* Types hold in every reachable state, for every set of users and every bound on the
\* days, the runs of the effect and the imports.  That an import never counts more saves
\* than the offer has days left for is part of them.
THEOREM TypeCorrect == Spec => []TypeOK
  BY TypeInit, TypeStep, PTL DEF Spec

-----------------------------------------------------------------------------
(* Whose offer it is.                                                      *)

\* One run of the effect waits for an answer at most, the newest or one that nothing hears
\* any more; while the newest waits nothing is offered, and it waits for somebody.
ScansInv ==
  /\ \A s \in scans : s.run <= run
  /\ \A s, t \in scans : s = t
  /\ (\E s \in scans : s.run = run) => user # None /\ offer.days = {}
  /\ offer.days # {} => user # None

LEMMA EffectScans ==
  ASSUME TypeOK, NEW user1, user' = user1, Effect(user1)
  PROVE  ScansInv'
<1>0. run \in Nat
  BY DEF TypeOK
<1>1. CASE user1 = None \/ done
  BY <1>1 DEF Effect, ScansInv, NoOffer
<1>2. CASE ~(user1 = None \/ done)
  <2>1. PICK local \in {{}, DatesOnDevice(1, today)} :
              IF local = {}
                THEN /\ Publish({}, NoOffer.list, DatesOnDevice(1, today) \X {"unread"})
                     /\ scans' = {}
                ELSE /\ scans' = {[run |-> run + 1, local |-> local]}
                     /\ offer' = NoOffer /\ UNCHANGED <<done, settled>>
    BY <1>2 DEF Effect
  <2>2. run' = run + 1 /\ offer'.days = {} /\ user' # None
    BY <1>2, <2>1 DEF Effect, Publish, NoOffer
  <2>3. \A s \in scans' : s = [run |-> run + 1, local |-> local]
    BY <2>1
  <2> QED
    BY <1>0, <2>2, <2>3 DEF ScansInv
<1> QED
  BY <1>1, <1>2

LEMMA ScansInvStep ==
  ASSUME TypeOK, ScansInv, [Next]_vars
  PROVE  ScansInv'
<1> USE DEF ScansInv, banner, session
<1>1. ASSUME NEW s \in scans, Listed(s) PROVE ScansInv'
  <2>1. scans' = {} /\ UNCHANGED <<run, user>>
    BY <1>1 DEF Listed
  <2>2. offer'.days # {} => user # None
    <3>1. PICK list \in Answer :
             IF IsCurrent(s) THEN Publish(Importable(s.local, list.had), list, s.local \X {"found"})
             ELSE UNCHANGED <<offer, done, settled>>
      BY <1>1, AnswerIs
    <3>2. CASE IsCurrent(s)
      BY <1>1, <3>2 DEF IsCurrent
    <3>3. CASE ~IsCurrent(s)
      BY <3>1, <3>3
    <3> QED
      BY <3>2, <3>3
  <2> QED
    BY <2>1, <2>2
<1>2. CASE Dismiss
  BY <1>2 DEF Dismiss, NoOffer
<1>3. CASE ClickImport
  BY <1>3 DEF ClickImport
<1>4. ASSUME NEW i \in imports, SaveRow(i) PROVE ScansInv'
  BY <1>4 DEF SaveRow
<1>5. ASSUME NEW i \in imports, Imported(i) PROVE ScansInv'
  BY <1>5 DEF Imported, NoOffer
<1>6. ASSUME NEW c \in Users \cup {None}, OtherTab(c) PROVE ScansInv'
  BY <1>6 DEF OtherTab
<1>7. ASSUME NEW u \in Users \cup {cookie}, PageLoad(u) PROVE ScansInv'
  BY <1>7, EffectScans DEF PageLoad
<1>8. CASE SignOut
  BY <1>8 DEF SignOut, TypeOK, Scan, NoOffer
<1>9. CASE Navigate
  BY <1>9, EffectScans DEF Navigate
<1>10. CASE Unlock \/ \E u \in Users : TurnOn(u)
  BY <1>10 DEF Unlock, TurnOn
<1>11. CASE Midnight
  BY <1>11 DEF Midnight
<1>12. ASSUME NEW d \in Days, TypeOnDevice(d) PROVE ScansInv'
  BY <1>12 DEF TypeOnDevice
<1>13. ASSUME NEW d \in Days, ClearOnDevice(d) PROVE ScansInv'
  BY <1>13 DEF ClearOnDevice
<1>14. ASSUME NEW u \in Users, NEW d \in Days, Write(u, d) PROVE ScansInv'
  BY <1>14 DEF Write
<1>15. CASE UNCHANGED vars
  BY <1>15 DEF vars
<1> QED
  BY <1>1, <1>2, <1>3, <1>4, <1>5, <1>6, <1>7, <1>8, <1>9, <1>10, <1>11, <1>12,
     <1>13, <1>14, <1>15 DEF Next

\* Days are offered only to the user they were asked for: an answer that outlives a sign-out
\* or a change of user offers nothing.
THEOREM OffersAreForTheirUser == Spec => []OfferIsForItsUser
<1>1. Init => ScansInv
  BY DEF Init, ScansInv, NoOffer
<1>2. TypeOK /\ ScansInv /\ [Next]_vars => ScansInv'
  BY ScansInvStep
<1>3. ScansInv => OfferIsForItsUser
  BY DEF ScansInv, OfferIsForItsUser
<1> QED
  BY <1>1, <1>2, <1>3, TypeCorrect, PTL DEF Spec

-----------------------------------------------------------------------------
(* What an offer leaves out.                                               *)

Excludes(o) == o.days \cap o.list.had = {}

\* An offer, on the screen or taken, is of days the account was not said to hold.
OffersInv == Excludes(offer) /\ \A i \in imports : Excludes(i.offer)

LEMMA OffersInvStep ==
  ASSUME TypeOK, OffersInv, [Next]_vars
  PROVE  OffersInv'
<1>0. Excludes(NoOffer)
  BY DEF Excludes, NoOffer
<1> USE DEF OffersInv, banner
<1>1. ASSUME NEW s \in scans, Listed(s) PROVE OffersInv'
  <2>1. PICK list \in Answer :
           IF IsCurrent(s) THEN Publish(Importable(s.local, list.had), list, s.local \X {"found"})
           ELSE UNCHANGED <<offer, done, settled>>
    BY <1>1, AnswerIs
  <2>2. Excludes(offer')
    BY <2>1 DEF Publish, Importable, Excludes
  <2> QED
    BY <1>1, <2>2 DEF Listed
<1>2. CASE Dismiss
  BY <1>0, <1>2 DEF Dismiss
<1>3. CASE ClickImport
  <2>1. PICK j \in Import : imports' = imports \cup {j} /\ j.offer = offer
    BY <1>3, ImportBegun
  <2> QED
    BY <1>3, <2>1 DEF ClickImport
<1>4. ASSUME NEW i \in imports, SaveRow(i) PROVE OffersInv'
  <2>1. PICK j \in Import : imports' = (imports \ {i}) \cup {j} /\ j.offer = i.offer
    BY <1>4, ImportAfterSave
  <2> QED
    BY <1>4, <2>1 DEF SaveRow
<1>5. ASSUME NEW i \in imports, Imported(i) PROVE OffersInv'
  BY <1>0, <1>5 DEF Imported
<1>6. ASSUME NEW c \in Users \cup {None}, OtherTab(c) PROVE OffersInv'
  BY <1>6 DEF OtherTab
<1>7. ASSUME NEW user1, Effect(user1) PROVE Excludes(offer')
  <2>1. offer' = NoOffer \/ \E list : offer' = [days |-> {}, list |-> list]
    BY <1>7 DEF Effect, Publish
  <2> QED
    BY <1>0, <2>1 DEF Excludes
<1>8. ASSUME NEW u \in Users \cup {cookie}, PageLoad(u) PROVE OffersInv'
  BY <1>7, <1>8 DEF PageLoad
<1>9. CASE SignOut
  BY <1>0, <1>9 DEF SignOut
<1>10. CASE Navigate
  <2>1. \A j \in imports' : \E i \in imports : j = [i EXCEPT !.here = FALSE]
    BY <1>10 DEF Navigate
  <2>2. \A i \in imports : [i EXCEPT !.here = FALSE].offer = i.offer
    BY DEF TypeOK, Import
  <2>3. \A j \in imports' : Excludes(j.offer)
    BY <2>1, <2>2
  <2> QED
    BY <1>7, <1>10, <2>3 DEF Navigate
<1>11. CASE Unlock \/ \E u \in Users : TurnOn(u)
  BY <1>11 DEF Unlock, TurnOn
<1>12. CASE Midnight
  BY <1>12 DEF Midnight
<1>13. ASSUME NEW d \in Days, TypeOnDevice(d) PROVE OffersInv'
  BY <1>13 DEF TypeOnDevice
<1>14. ASSUME NEW d \in Days, ClearOnDevice(d) PROVE OffersInv'
  BY <1>14 DEF ClearOnDevice
<1>15. ASSUME NEW u \in Users, NEW d \in Days, Write(u, d) PROVE OffersInv'
  BY <1>15 DEF Write
<1>16. CASE UNCHANGED vars
  BY <1>16 DEF vars
<1> QED
  BY <1>1, <1>2, <1>3, <1>4, <1>5, <1>6, <1>8, <1>9, <1>10, <1>11, <1>12,
     <1>13, <1>14, <1>15, <1>16 DEF Next

\* What a step does to the rows: it copies over one, or somebody writes one.
LEMMA RowStep ==
  ASSUME TypeOK, [Next]_vars
  PROVE  \/ row' = row
         \/ \E i \in imports :
              /\ SaveRow(i) /\ cookie \in Users
              /\ row' = [row EXCEPT ![cookie][Min(i.left)] = "imported"]
         \/ \E u \in Users : \E d \in Days : row' = [row EXCEPT ![u][d] = "written"]
<1> USE DEF account
<1>1. ASSUME NEW s \in scans, Listed(s) PROVE row' = row
  BY <1>1 DEF Listed
<1>2. CASE Dismiss \/ ClickImport
  BY <1>2 DEF Dismiss, ClickImport
<1>3. ASSUME NEW i \in imports, Imported(i) PROVE row' = row
  BY <1>3 DEF Imported
<1>4. CASE SignOut \/ Navigate \/ Unlock \/ Midnight \/ \E u \in Users : TurnOn(u)
  BY <1>4 DEF SignOut, Navigate, Unlock, Midnight, TurnOn
<1>5. ASSUME NEW u, PageLoad(u) \/ OtherTab(u) PROVE row' = row
  BY <1>5 DEF PageLoad, OtherTab
<1>6. ASSUME NEW d, TypeOnDevice(d) \/ ClearOnDevice(d) PROVE row' = row
  BY <1>6 DEF TypeOnDevice, ClearOnDevice
<1>7. ASSUME NEW i \in imports, SaveRow(i)
      PROVE  row' = row \/ (cookie \in Users /\ row' = [row EXCEPT ![cookie][Min(i.left)] = "imported"])
  BY <1>7, SavedOne
<1>8. CASE UNCHANGED vars
  BY <1>8 DEF vars
<1> QED
  BY <1>1, <1>2, <1>3, <1>4, <1>5, <1>6, <1>7, <1>8 DEF Next, Write

\* An import replaces nothing that the account was said to hold when the offer was made.
THEOREM NoListedRowIsReplaced == Spec => ListedRowsStay
<1> DEFINE Stays ==
      \A u \in Users, d \in Days :
        row[u][d] = "written" /\ row'[u][d] = "imported" =>
          \E i \in imports : i.left # {} /\ d = Min(i.left) /\ ~(i.offer.list.of = u /\ d \in i.offer.list.had)
<1>1. TypeOK /\ OffersInv /\ [Next]_vars => [Stays]_vars
  <2> SUFFICES ASSUME TypeOK, OffersInv, [Next]_vars,
                      NEW u \in Users, NEW d \in Days,
                      row[u][d] = "written", row'[u][d] = "imported"
               PROVE  \E i \in imports : i.left # {} /\ d = Min(i.left) /\ ~(i.offer.list.of = u /\ d \in i.offer.list.had)
    BY Zenon
  <2>0. row \in [Users -> [Days -> {"none", "written", "imported"}]]
    BY DEF TypeOK
  <2>1. ~\E v \in Users : \E e \in Days : row' = [row EXCEPT ![v][e] = "written"]
    BY <2>0
  <2>2. PICK i \in imports :
          /\ SaveRow(i) /\ cookie \in Users
          /\ row' = [row EXCEPT ![cookie][Min(i.left)] = "imported"]
    BY <2>1, RowStep
  <2>3. Min(i.left) \in i.left /\ Min(i.left) \in Days
    BY <2>2, SavedOne
  <2>4. d = Min(i.left)
    BY <2>0, <2>2, <2>3
  <2>5. d \in i.offer.days
    BY <2>3, <2>4 DEF TypeOK
  <2>6. d \notin i.offer.list.had
    BY <2>5 DEF OffersInv, Excludes
  <2> QED
    BY <2>3, <2>4, <2>6
<1>2. Init => OffersInv
  BY DEF Init, OffersInv, Excludes, NoOffer
<1>3. TypeOK /\ OffersInv /\ [Next]_vars => OffersInv'
  BY OffersInvStep
<1>4. ListedRowsStay <=> [][Stays]_vars
  BY DEF ListedRowsStay
<1> QED
  BY <1>1, <1>2, <1>3, <1>4, TypeCorrect, PTL DEF Spec

-----------------------------------------------------------------------------
(* What settling the device gives up on.                                   *)

\* The day is in an account.
Held(d) == \E u \in Users : row[u][d] # "none"

\* The days an import is done with that are in an account.
Arrived(i) == {d \in i.offer.days \ i.left : Held(d)}

\* import_outcome compares numbers: an import has counted no more saves than days of its
\* offer have reached an account, so a count that is full speaks of every day.
CountInv == \A i \in imports : i.copied <= Cardinality(Arrived(i))

\* A day that is in an account stays in one.
LEMMA HeldStays ==
  ASSUME TypeOK, [Next]_vars, NEW d \in Days, Held(d)
  PROVE  Held(d)'
<1>1. PICK u \in Users : row[u][d] # "none"
  BY DEF Held
<1>2. row \in [Users -> [Days -> {"none", "written", "imported"}]]
  BY DEF TypeOK
<1>3. ASSUME NEW v \in Users, NEW e \in Days, NEW k \in {"written", "imported"},
             row' = [row EXCEPT ![v][e] = k]
      PROVE  row'[u][d] # "none"
  BY <1>1, <1>2, <1>3
<1>4. row'[u][d] # "none"
  <2>1. CASE row' = row
    BY <1>1, <2>1
  <2>2. ASSUME NEW i \in imports, SaveRow(i), cookie \in Users,
               row' = [row EXCEPT ![cookie][Min(i.left)] = "imported"]
        PROVE  row'[u][d] # "none"
    BY <1>3, <2>2, SavedOne
  <2> QED
    BY <1>3, <2>1, <2>2, RowStep
<1> QED
  BY <1>4 DEF Held

\* With no more left to copy, no fewer days of the offer have arrived.
LEMMA ArrivedGrows ==
  ASSUME TypeOK, [Next]_vars, NEW i \in Import, NEW j \in Import,
         j.offer = i.offer, j.left \subseteq i.left
  PROVE  Cardinality(Arrived(i)) <= Cardinality(Arrived(j)')
<1>1. i.offer.days \in SUBSET Days
  BY DEF Import, Offer
<1>2. \A d \in Days : Held(d) => Held(d)'
  BY HeldStays
<1>3. Arrived(j)' \in SUBSET Days
  BY <1>1 DEF Arrived
<1>4. Arrived(i) \in SUBSET (Arrived(j)')
  BY <1>1, <1>2 DEF Arrived
<1> QED
  BY <1>3, <1>4, PartsOfDays

\* A save that is counted brings a day of the offer into an account.
LEMMA SaveArrives ==
  ASSUME TypeOK, [Next]_vars, NEW i \in imports, NEW j \in Import, SaveRow(i),
         j.offer = i.offer, j.left = i.left \ {Min(i.left)},
         cookie \in Users, row' = [row EXCEPT ![cookie][Min(i.left)] = "imported"]
  PROVE  Cardinality(Arrived(i)) + 1 <= Cardinality(Arrived(j)')
<1> DEFINE d == Min(i.left)
<1>1. i.offer.days \in SUBSET Days /\ i.left \subseteq i.offer.days /\ d \in i.left /\ d \in Days
  BY SavedOne DEF TypeOK, Import, Offer
<1>2. row \in [Users -> [Days -> {"none", "written", "imported"}]]
  BY DEF TypeOK
<1> HIDE DEF d
<1>3. row'[cookie][d] = "imported"
  BY <1>1, <1>2 DEF d
<1>4. Held(d)'
  BY <1>3 DEF Held
<1>5. \A e \in Days : Held(e) => Held(e)'
  BY HeldStays
<1>6. Arrived(i) \in SUBSET Days /\ d \in Days \ Arrived(i)
  BY <1>1 DEF Arrived
<1>7. Arrived(j)' \in SUBSET Days
  BY <1>1 DEF Arrived
<1>8. Arrived(i) \cup {d} \in SUBSET (Arrived(j)')
  BY <1>1, <1>4, <1>5 DEF Arrived, d
<1>9. Cardinality(Arrived(i) \cup {d}) = Cardinality(Arrived(i)) + 1
  BY <1>6, WithDay
<1> QED
  BY <1>7, <1>8, <1>9, PartsOfDays

LEMMA CountInvStep ==
  ASSUME TypeOK, CountInv, [Next]_vars
  PROVE  CountInv'
<1>0. /\ imports \subseteq Import
      /\ \A i \in Import : i.copied \in Nat /\ Arrived(i) \in SUBSET Days /\ Arrived(i)' \in SUBSET Days
  BY DEF TypeOK, Import, Offer, Arrived
<1>a. \A i \in Import : Cardinality(Arrived(i)) \in Nat /\ Cardinality(Arrived(i)') \in Nat
  BY <1>0, DaysAreFinite
<1>b. ASSUME imports' \subseteq imports PROVE CountInv'
  <2>1. \A i \in imports : Cardinality(Arrived(i)) <= Cardinality(Arrived(i)')
    BY <1>0, ArrivedGrows
  <2>2. ASSUME NEW i \in imports' PROVE i.copied <= Cardinality(Arrived(i)')
    <3>1. i \in imports
      BY <1>b
    <3>2. i.copied <= Cardinality(Arrived(i)) /\ Cardinality(Arrived(i)) <= Cardinality(Arrived(i)')
      BY <2>1, <3>1 DEF CountInv
    <3> QED
      BY <1>0, <1>a, <3>1, <3>2
  <2> QED
    BY <2>2 DEF CountInv
<1> USE DEF banner
<1>1. ASSUME NEW s \in scans, Listed(s) PROVE CountInv'
  BY <1>b, <1>1 DEF Listed
<1>2. CASE Dismiss
  BY <1>b, <1>2 DEF Dismiss
<1>3. CASE ClickImport
  <2>1. PICK j \in Import : imports' = imports \cup {j} /\ j.copied = 0
    BY <1>3, ImportBegun
  <2>2. ASSUME NEW i \in imports PROVE i.copied <= Cardinality(Arrived(i)')
    <3>1. Cardinality(Arrived(i)) <= Cardinality(Arrived(i)')
      BY <1>0, ArrivedGrows
    <3> QED
      BY <1>0, <1>a, <3>1 DEF CountInv
  <2>3. j.copied <= Cardinality(Arrived(j)')
    BY <1>a, <2>1
  <2> QED
    BY <2>1, <2>2, <2>3 DEF CountInv
<1>4. ASSUME NEW i \in imports, SaveRow(i) PROVE CountInv'
  <2>1. PICK j \in Import :
           /\ imports' = (imports \ {i}) \cup {j}
           /\ j.offer = i.offer /\ j.left = i.left \ {Min(i.left)}
           /\ \/ j.copied = i.copied
              \/ /\ j.copied = i.copied + 1
                 /\ cookie \in Users /\ row' = [row EXCEPT ![cookie][Min(i.left)] = "imported"]
    BY <1>4, ImportAfterSave
  <2>2. ASSUME NEW k \in imports PROVE k.copied <= Cardinality(Arrived(k)')
    <3>1. Cardinality(Arrived(k)) <= Cardinality(Arrived(k)')
      BY <1>0, ArrivedGrows
    <3> QED
      BY <1>0, <1>a, <3>1 DEF CountInv
  <2>3. i \in Import /\ i.copied <= Cardinality(Arrived(i))
    BY <1>0 DEF CountInv
  <2>4. CASE j.copied = i.copied
    <3>1. Cardinality(Arrived(i)) <= Cardinality(Arrived(j)')
      BY <2>1, <2>3, ArrivedGrows
    <3>2. j.copied <= Cardinality(Arrived(j)')
      BY <1>0, <1>a, <2>3, <2>4, <3>1
    <3> QED
      BY <2>1, <2>2, <3>2 DEF CountInv
  <2>5. CASE /\ j.copied = i.copied + 1
             /\ cookie \in Users /\ row' = [row EXCEPT ![cookie][Min(i.left)] = "imported"]
    <3>1. Cardinality(Arrived(i)) + 1 <= Cardinality(Arrived(j)')
      BY <1>4, <2>1, <2>5, SaveArrives
    <3>2. j.copied <= Cardinality(Arrived(j)')
      BY <1>0, <1>a, <2>3, <2>5, <3>1
    <3> QED
      BY <2>1, <2>2, <3>2 DEF CountInv
  <2> QED
    BY <2>1, <2>4, <2>5
<1>5. ASSUME NEW i \in imports, Imported(i) PROVE CountInv'
  BY <1>b, <1>5 DEF Imported
<1>6. ASSUME NEW c \in Users \cup {None}, OtherTab(c) PROVE CountInv'
  BY <1>b, <1>6 DEF OtherTab
<1>7. ASSUME NEW u \in Users \cup {cookie}, PageLoad(u) PROVE CountInv'
  BY <1>b, <1>7 DEF PageLoad
<1>8. CASE SignOut
  BY <1>b, <1>8 DEF SignOut
<1>9. CASE Navigate
  <2>1. \A j \in imports' : \E i \in imports : j = [i EXCEPT !.here = FALSE]
    BY <1>9 DEF Navigate
  <2>2. ASSUME NEW i \in imports
        PROVE  /\ [i EXCEPT !.here = FALSE] \in Import
               /\ [i EXCEPT !.here = FALSE].left = i.left
               /\ [i EXCEPT !.here = FALSE].copied = i.copied
               /\ [i EXCEPT !.here = FALSE].offer = i.offer
    BY <1>0 DEF Import
  <2>3. ASSUME NEW j \in imports' PROVE j.copied <= Cardinality(Arrived(j)')
    <3>1. PICK i \in imports : j = [i EXCEPT !.here = FALSE]
      BY <2>1
    <3>2. j \in Import /\ j.left = i.left /\ j.copied = i.copied /\ j.offer = i.offer
      BY <2>2, <3>1
    <3>3. Cardinality(Arrived(i)) <= Cardinality(Arrived(j)')
      BY <1>0, <3>2, ArrivedGrows
    <3>4. i.copied <= Cardinality(Arrived(i))
      BY DEF CountInv
    <3> QED
      BY <1>0, <1>a, <3>2, <3>3, <3>4
  <2> QED
    BY <2>3 DEF CountInv
<1>10. CASE Unlock \/ \E u \in Users : TurnOn(u)
  BY <1>b, <1>10 DEF Unlock, TurnOn
<1>11. CASE Midnight
  BY <1>b, <1>11 DEF Midnight
<1>12. ASSUME NEW d \in Days, TypeOnDevice(d) PROVE CountInv'
  BY <1>b, <1>12 DEF TypeOnDevice
<1>13. ASSUME NEW d \in Days, ClearOnDevice(d) PROVE CountInv'
  BY <1>b, <1>13 DEF ClearOnDevice
<1>14. ASSUME NEW u \in Users, NEW d \in Days, Write(u, d) PROVE CountInv'
  BY <1>b, <1>14 DEF Write
<1>15. CASE UNCHANGED vars
  BY <1>b, <1>15 DEF vars
<1> QED
  BY <1>1, <1>2, <1>3, <1>4, <1>5, <1>6, <1>7, <1>8, <1>9, <1>10, <1>11, <1>12,
     <1>13, <1>14, <1>15 DEF Next

\* An import that fully succeeded has every day of its offer in an account.
LEMMA FullCount ==
  ASSUME TypeOK, CountInv, NEW i \in imports, FullySucceeded(i)
  PROVE  \A d \in i.offer.days : Held(d)
<1>1. i.offer.days \in SUBSET Days /\ i.copied <= Cardinality(Arrived(i))
  BY DEF TypeOK, Import, Offer, CountInv
<1>2. Arrived(i) \in SUBSET i.offer.days
  BY DEF Arrived
<1>3. Arrived(i) \in SUBSET Days
  BY <1>1, <1>2
<1>4. /\ Cardinality(Arrived(i)) <= Cardinality(i.offer.days)
      /\ Cardinality(Arrived(i)) = Cardinality(i.offer.days) => Arrived(i) = i.offer.days
  BY <1>1, <1>2, PartsOfDays
<1>5. Cardinality(Arrived(i)) \in Nat /\ Cardinality(i.offer.days) \in Nat
  BY <1>1, <1>3, DaysAreFinite
<1>6. Arrived(i) = i.offer.days
  BY <1>1, <1>4, <1>5 DEF FullySucceeded
<1> QED
  BY <1>6 DEF Arrived

\* What a step settles of the days that were found is in an account when it does.
LEMMA SettledStep ==
  ASSUME TypeOK, CountInv, [Next]_vars, NEW d \in Days,
         <<d, "found">> \in settled', <<d, "found">> \notin settled
  PROVE  Held(d)
<1> USE DEF banner
<1>1. ASSUME NEW s \in scans, Listed(s) PROVE Held(d)
  <2>1. PICK list \in Answer :
           /\ \/ list.had = {}
              \/ list.of = cookie /\ cookie # None /\ list.had = {e \in 1..today : row[cookie][e] # "none"}
           /\ IF IsCurrent(s) THEN Publish(Importable(s.local, list.had), list, s.local \X {"found"})
              ELSE UNCHANGED <<offer, done, settled>>
    BY <1>1, AnswerIs
  <2>2. Importable(s.local, list.had) = {} /\ d \in s.local
    BY <1>1, <2>1 DEF Publish
  <2>3. d \in list.had
    BY <2>2 DEF Importable
  <2>4. cookie \in Users /\ row[cookie][d] # "none"
    BY <2>1, <2>3 DEF TypeOK
  <2> QED
    BY <2>4 DEF Held
<1>2. ASSUME NEW user1, Effect(user1) PROVE FALSE
  <2>1. "found" # "unread"
    OBVIOUS
  <2> QED
    BY <1>2, <2>1 DEF Effect, Publish
<1>3. ASSUME NEW i \in imports, Imported(i) PROVE Held(d)
  BY <1>3, FullCount DEF Imported
<1>4. ASSUME NEW i \in imports, SaveRow(i) PROVE settled' = settled
  BY <1>4 DEF SaveRow
<1>5. ASSUME NEW u, PageLoad(u) PROVE FALSE
  BY <1>2, <1>5 DEF PageLoad
<1>6. CASE Navigate
  BY <1>2, <1>6 DEF Navigate
<1>7. ASSUME Dismiss \/ ClickImport \/ SignOut \/ Unlock \/ Midnight PROVE settled' = settled
  BY <1>7 DEF Dismiss, ClickImport, SignOut, Unlock, Midnight
<1>8. ASSUME NEW u, TurnOn(u) \/ OtherTab(u) \/ TypeOnDevice(u) \/ ClearOnDevice(u)
      PROVE  settled' = settled
  BY <1>8 DEF TurnOn, OtherTab, TypeOnDevice, ClearOnDevice
<1>9. ASSUME NEW u, NEW e, Write(u, e) PROVE settled' = settled
  BY <1>9 DEF Write
<1>10. CASE UNCHANGED vars
  BY <1>10 DEF vars
<1> QED
  BY <1>1, <1>3, <1>4, <1>5, <1>6, <1>7, <1>8, <1>9, <1>10 DEF Next

\* Of the days the banner found on the device it gives up on none that is not in an account,
\* unless the user turned it down, for every number of users, days and imports: an import
\* whose saves failed on the way settles nothing.  Scans that failed found no days.
THEOREM SettledDaysAreSafe == Spec => []SettledIsSafe
<1>1. Init => CountInv /\ SettledIsSafe
  BY DEF Init, CountInv, SettledIsSafe
<1>2. TypeOK /\ CountInv /\ SettledIsSafe /\ [Next]_vars => CountInv' /\ SettledIsSafe'
  <2> SUFFICES ASSUME TypeOK, CountInv, SettledIsSafe, [Next]_vars
               PROVE  CountInv' /\ SettledIsSafe'
    OBVIOUS
  <2>1. ASSUME NEW d \in Days, <<d, "found">> \in settled' PROVE Held(d)'
    <3>1. Held(d)
      BY <2>1, SettledStep DEF SettledIsSafe, Held
    <3> QED
      BY <3>1, HeldStays
  <2>2. SettledIsSafe'
    BY <2>1 DEF SettledIsSafe, Held
  <2> QED
    BY <2>2, CountInvStep
<1> QED
  BY <1>1, <1>2, TypeCorrect, PTL DEF Spec

=============================================================================
