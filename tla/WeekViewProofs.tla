----------------------------- MODULE WeekViewProofs -----------------------------
(***************************************************************************)
(* Proofs about Generation: its types, that two operations never share a   *)
(* token, and that it implements LatestWins.  Then about WeekView, which   *)
(* uses it: its types, that each of its steps is one of Generation, that   *)
(* a week on screen is the week that is stored or was doubted, that no     *)
(* sealed row is met by a page that says Disabled, that a blank week is    *)
(* being read, and that its session is a PageSession.                      *)
(***************************************************************************)
EXTENDS WeekView, TLAPS

\* Types are preserved by every step.
LEMMA TypeStep == TypeOK /\ [Next]_vars => TypeOK'
<1> SUFFICES ASSUME TypeOK, [Next]_vars PROVE TypeOK'
  OBVIOUS
<1> USE MaxTokenAssumption
<1>1. disposed' \in BOOLEAN
  BY Zenon DEF TypeOK, Next, vars, Outrank, Dispose, Begin, BeginUnmounted, Finish
<1>2. /\ counter' \in 0..MaxToken
      /\ running' \subseteq Loads
      /\ token' \in [Loads -> 0..MaxToken]
      /\ shown' \in Loads \cup {Parked}
  <2>0. /\ counter \in 0..MaxToken
        /\ running \subseteq Loads
        /\ token \in [Loads -> 0..MaxToken]
        /\ shown \in Loads \cup {Parked}
    BY DEF TypeOK
  <2>1. CASE Outrank
    BY <2>0, <2>1 DEF Outrank, NextToken
  <2>2. CASE Dispose
    BY <2>0, <2>2 DEF Dispose
  <2>3. ASSUME NEW l \in Loads, Begin(l) PROVE <1>2!:
    BY <2>0, <2>3 DEF Begin, NextToken
  <2>4. ASSUME NEW l \in Loads, BeginUnmounted(l) PROVE <1>2!:
    BY <2>0, <2>4 DEF BeginUnmounted
  <2>5. ASSUME NEW l \in Loads, Finish(l) PROVE <1>2!:
    BY <2>0, <2>5 DEF Finish
  <2>6. CASE UNCHANGED vars
    BY <2>0, <2>6 DEF vars
  <2> QED
    BY <2>1, <2>2, <2>3, <2>4, <2>5, <2>6 DEF Next
<1> QED
  BY <1>1, <1>2 DEF TypeOK

LEMMA TypeInit == Init => TypeOK
<1> SUFFICES ASSUME Init PROVE TypeOK
  OBVIOUS
<1>1. disposed \in BOOLEAN
  BY DEF Init
<1>2. counter \in 0..MaxToken /\ token \in [Loads -> 0..MaxToken]
  BY MaxTokenAssumption DEF Init
<1>3. running \subseteq Loads /\ shown \in Loads \cup {Parked}
  BY DEF Init
<1> QED
  BY <1>1, <1>2, <1>3 DEF TypeOK

\* Types hold in every reachable state, for every set of operations and every
\* bound on the tokens.
THEOREM TypeCorrect == Spec => []TypeOK
  BY TypeInit, TypeStep, PTL DEF Spec

-----------------------------------------------------------------------------
\* While the component lives, a token in flight was issued, and to one operation
\* only.
TokensDistinct ==
  ~disposed =>
    /\ \A l \in running : token[l] \in 1..counter
    /\ \A l, m \in running : token[l] = token[m] => l = m

GenInv == TypeOK /\ TokensDistinct

LEMMA GenInvStep == GenInv /\ [Next]_vars => GenInv'
<1> SUFFICES ASSUME GenInv, [Next]_vars PROVE TokensDistinct'
  BY TypeStep DEF GenInv
<1> USE DEF GenInv, TypeOK, TokensDistinct
<1>1. CASE Outrank
  BY <1>1 DEF Outrank, NextToken
<1>2. CASE Dispose
  BY <1>2 DEF Dispose
<1>3. ASSUME NEW l \in Loads, Begin(l) PROVE TokensDistinct'
  <2>1. counter' = counter + 1 /\ counter \in Nat /\ ~disposed
    BY <1>3, MaxTokenAssumption DEF Begin, NextToken
  <2>2. \A m \in running' : token'[m] = IF m = l THEN counter + 1 ELSE token[m]
    BY <1>3, <2>1 DEF Begin
  <2>3. \A m \in running' : m # l => m \in running
    BY <1>3 DEF Begin
  <2> QED
    BY <2>1, <2>2, <2>3
<1>4. ASSUME NEW l \in Loads, BeginUnmounted(l) PROVE TokensDistinct'
  BY <1>4 DEF BeginUnmounted
<1>5. ASSUME NEW l \in Loads, Finish(l) PROVE TokensDistinct'
  BY <1>5 DEF Finish
<1>6. CASE UNCHANGED vars
  BY <1>6 DEF vars
<1> QED
  BY <1>1, <1>2, <1>3, <1>4, <1>5, <1>6 DEF Next

LEMMA GenInvAlways == Spec => []GenInv
<1>1. Init => TokensDistinct
  BY DEF Init, TokensDistinct
<1>2. Init => GenInv
  BY <1>1, TypeInit DEF GenInv
<1> QED
  BY <1>2, GenInvStep, PTL DEF Spec

\* No two operations in flight can both publish.
THEOREM AtMostOnePublishes == Spec => []OneMayPublish
<1>1. GenInv => OneMayPublish
  BY DEF GenInv, TokensDistinct, OneMayPublish, Newest, IsCurrent
<1> QED
  BY <1>1, GenInvAlways, PTL

-----------------------------------------------------------------------------
\* A published result is never older than an operation still in flight.
THEOREM NothingStalePublished == Spec => NoStaleOverwrite
<1> DEFINE NotStale ==
      \A l \in Loads :
        l \in running /\ l \notin running' /\ shown' = l /\ shown # l
          => \A m \in running : token[m] <= token[l]
<1>1. GenInv /\ [Next]_vars => [NotStale]_vars
  <2> SUFFICES ASSUME GenInv, Next,
                      NEW l \in Loads, l \in running, l \notin running',
                      shown' = l, shown # l,
                      NEW m \in running
               PROVE  token[m] <= token[l]
    OBVIOUS
  <2>1. PICK k \in Loads : Finish(k)
    BY DEF Next, Outrank, Dispose, Begin, BeginUnmounted
  <2>2. k = l /\ IsCurrent(l)
    BY <2>1 DEF Finish
  <2>3. token[m] \in 1..counter /\ token[l] = counter
    BY <2>2 DEF GenInv, TokensDistinct, IsCurrent
  <2> QED
    BY <2>3, MaxTokenAssumption DEF GenInv, TypeOK
<1>2. NoStaleOverwrite <=> [][NotStale]_vars
  BY DEF NoStaleOverwrite
<1> QED
  BY <1>1, <1>2, GenInvAlways, PTL DEF Spec

-----------------------------------------------------------------------------
\* The counter implements LatestWins: a step of one is a step of the other.
THEOREM ImplementsLatestWins == Spec => OnlyTheNewestPublishes
<1>1. Init => Latest!Init
  BY DEF Init, Latest!Init, Newest
<1>2. GenInv /\ [Next]_vars => [Latest!Next]_<<running, Newest, shown>>
  <2> SUFFICES ASSUME GenInv, [Next]_vars
               PROVE  Latest!Next \/ UNCHANGED <<running, Newest, shown>>
    OBVIOUS
  <2>0. counter \in Nat /\ \A l \in running : ~disposed => token[l] \in 1..counter
    BY MaxTokenAssumption DEF GenInv, TypeOK, TokensDistinct
  <2>1. CASE Outrank
    <3>1. Newest' = {}
      BY <2>0, <2>1 DEF Outrank, NextToken, Newest, IsCurrent
    <3> QED
      BY <2>1, <3>1 DEF Outrank, Latest!Next, Latest!Outrank
  <2>2. CASE Dispose
    <3>1. Newest' = {}
      BY <2>2 DEF Dispose, Newest, IsCurrent
    <3> QED
      BY <2>2, <3>1 DEF Dispose, Latest!Next, Latest!Outrank
  <2>3. ASSUME NEW l \in Loads, Begin(l) PROVE Latest!Next
    <3>1. counter' = counter + 1 /\ ~disposed /\ ~disposed'
      BY <2>3 DEF Begin, NextToken
    <3>2. \A m \in running' : token'[m] = IF m = l THEN counter + 1 ELSE token[m]
      BY <2>3, <3>1 DEF Begin, GenInv, TypeOK
    <3>3. running' = running \cup {l}
      BY <2>3 DEF Begin
    <3>4. Newest' = {l}
      BY <2>0, <3>1, <3>2, <3>3 DEF Newest, IsCurrent
    <3> QED
      BY <2>3, <3>4 DEF Begin, Latest!Next, Latest!Begin
  <2>4. ASSUME NEW l \in Loads, BeginUnmounted(l) PROVE Latest!Next
    <3>1. Newest = {} /\ Newest' = {}
      BY <2>4 DEF BeginUnmounted, Newest, IsCurrent
    <3> QED
      BY <2>4, <3>1 DEF BeginUnmounted, Latest!Next, Latest!BeginUnmounted
  <2>5. ASSUME NEW l \in Loads, Finish(l) PROVE Latest!Next
    <3>1. Newest' = Newest \ {l}
      BY <2>5 DEF Finish, Newest, IsCurrent
    <3>2. l \in Newest <=> IsCurrent(l)
      BY <2>5 DEF Finish, Newest
    <3> QED
      BY <2>5, <3>1, <3>2 DEF Finish, Latest!Next, Latest!Finish
  <2>6. CASE UNCHANGED vars
    BY <2>6 DEF vars, Newest, IsCurrent
  <2> QED
    BY <2>1, <2>2, <2>3, <2>4, <2>5, <2>6 DEF Next
<1> QED
  BY <1>1, <1>2, GenInvAlways, PTL DEF Spec, OnlyTheNewestPublishes, Latest!Spec

-----------------------------------------------------------------------------
(* A week uses its counter as Generation says.                             *)

\* An effect that is due finds a read it can start.
RoomInv == Due => Room

LEMMA RoomInit == WeekInit => RoomInv
<1>1. Init => Room
  BY LoadsExist DEF Init, Room
<1> QED
  BY <1>1 DEF WeekInit, RoomInv

LEMMA EffectReads ==
  ASSUME RoomInv, Effect, ~SetupRequired
  PROVE  \E l \in Loads :
           /\ l \notin running /\ Begin(l) /\ shown' = Parked
           /\ asked' = [asked EXCEPT ![l] = Inputs]
           /\ answer' = [answer EXCEPT ![l] = None]
<1>1. Room
  BY DEF Effect, Due, RoomInv
<1> DEFINE free == CHOOSE m \in Loads : m \notin running
<1>2. free \in Loads /\ free \notin running
  BY <1>1 DEF Room
<1>3. /\ Begin(free) /\ shown' = Parked
      /\ asked' = [asked EXCEPT ![free] = Inputs] /\ answer' = [answer EXCEPT ![free] = None]
  BY DEF Effect, Inputs
<1> HIDE DEF free
<1> QED
  BY <1>2, <1>3

LEMMA EffectHolds ==
  ASSUME RoomInv, Effect, SetupRequired
  PROVE  Outrank /\ UNCHANGED <<shown, asked, answer>>
  BY DEF Effect

\* A step of the week is a step of its counter, or leaves it.
LEMMA WeekStep ==
  ASSUME RoomInv, [WeekNext]_weekVars
  PROVE  [Next]_vars
<1>1. CASE Effect
  BY <1>1, EffectReads, EffectHolds DEF Next
<1>2. CASE SetupGate \/ Leave
  BY <1>2 DEF SetupGate, Leave, Next
<1>3. ASSUME NEW l \in Loads, Serve(l) \/ Fail(l) PROVE UNCHANGED vars
  BY <1>3 DEF Serve, Fail
<1>4. ASSUME NEW l \in Loads, Arrive(l) PROVE Next
  BY <1>4 DEF Arrive, Next
<1>5. CASE ProbeAnswers \/ Unlock \/ Retry \/ SignOutTold
  BY <1>5 DEF ProbeAnswers, Unlock, Retry, SignOutTold
<1>6. ASSUME NEW c \in Somebody, CookieMovesTo(c) PROVE UNCHANGED vars
  BY <1>6 DEF CookieMovesTo
<1>7. ASSUME NEW a \in Accounts, NEW d \in Days, NEW k, SavedElsewhere(a, d, k) PROVE UNCHANGED vars
  BY <1>7 DEF SavedElsewhere
<1>8. CASE UNCHANGED weekVars
  BY <1>8 DEF weekVars
<1> QED
  BY <1>1, <1>2, <1>3, <1>4, <1>5, <1>6, <1>7, <1>8 DEF WeekNext, Answered

LEMMA RoomStep == RoomInv /\ [WeekNext]_weekVars => RoomInv'
<1> SUFFICES ASSUME RoomInv, [WeekNext]_weekVars, Due' PROVE Room'
  BY DEF RoomInv
<1> USE DEF Room, Due, vars, page, reads
<1>1. CASE Effect
  <2>1. Inputs' = Inputs /\ (SetupRequired' <=> SetupRequired) /\ seen' = Inputs /\ Due
    BY <1>1 DEF Effect, Inputs, SetupRequired
  <2>2. SetupRequired
    BY <2>1
  <2> QED
    BY <1>1, <2>1, <2>2, EffectHolds DEF RoomInv, Outrank
<1>2. CASE SetupGate \/ Leave
  BY <1>2 DEF SetupGate, Leave, Dispose
<1>3. ASSUME NEW l \in Loads, Serve(l) \/ Fail(l) PROVE Room'
  <2>1. UNCHANGED <<page, seen, disposed>> /\ ~Due
    BY <1>3 DEF Serve, Fail
  <2> QED
    BY <2>1 DEF Inputs, SetupRequired
<1>4. ASSUME NEW l \in Loads, Arrive(l) PROVE Room'
  BY <1>4 DEF Arrive, Finish
<1>5. CASE ProbeAnswers \/ Unlock \/ Retry \/ SignOutTold
  BY <1>5 DEF ProbeAnswers, Unlock, Retry, SignOutTold, Act
<1>6. ASSUME NEW c \in Somebody, CookieMovesTo(c) PROVE Room'
  BY <1>6 DEF CookieMovesTo, Act
<1>7. ASSUME NEW a \in Accounts, NEW d \in Days, NEW k, SavedElsewhere(a, d, k) PROVE Room'
  BY <1>7 DEF SavedElsewhere, Act
<1>8. CASE UNCHANGED weekVars
  BY <1>8 DEF weekVars, RoomInv, Inputs, SetupRequired
<1> QED
  BY <1>1, <1>2, <1>3, <1>4, <1>5, <1>6, <1>7, <1>8 DEF WeekNext, Answered

\* What is proved of Generation holds of every week: its range reads take their tokens and
\* publish as Generation's operations do.
THEOREM WeekIsGeneration == WeekSpec => Spec
<1>1. WeekInit => Init
  BY DEF WeekInit
<1>2. RoomInv /\ [WeekNext]_weekVars => [Next]_vars
  BY WeekStep
<1> QED
  BY <1>1, <1>2, RoomInit, RoomStep, PTL DEF WeekSpec, Spec

\* So of the reads of a week only the newest is ever shown, and never after a younger one.
THEOREM WeekPublishesTheNewest == WeekSpec => []OneMayPublish /\ NoStaleOverwrite /\ OnlyTheNewestPublishes
<1> QED
  BY WeekIsGeneration, AtMostOnePublishes, NothingStalePublished, ImplementsLatestWins

-----------------------------------------------------------------------------
\* No week finds a sealed row on a page that says Disabled: the gate has taken the week's
\* place before an answer can arrive.
THEOREM SealedReportsAreDormant == WeekSpec => SealedReportIsDormant
<1>1. ASSUME [WeekNext]_weekVars, session = "Disabled" PROVE session' # "Locked"
  <2>1. ASSUME Effect \/ Leave PROVE session' = session
    BY <2>1 DEF Effect, Leave, page
  <2>2. ~SetupGate \/ session' = "Unknown"
    BY DEF SetupGate
  <2>3. ASSUME NEW l \in Loads, Serve(l) \/ Fail(l) PROVE session' = session
    BY <2>3 DEF Serve, Fail, page
  <2>4. ASSUME NEW l \in Loads, Arrive(l) PROVE session' # "Locked"
    BY <1>1, <2>4 DEF Arrive, Contradicted, IsCurrent, Due, SetupRequired
  <2>5. ASSUME ProbeAnswers \/ Unlock \/ Retry \/ SignOutTold PROVE session' # "Locked"
    BY <1>1, <2>5 DEF ProbeAnswers, Unlock, Retry, SignOutTold
  <2>6. ASSUME NEW c \in Somebody, CookieMovesTo(c) PROVE session' = session
    BY <2>6 DEF CookieMovesTo, page
  <2>7. ASSUME NEW a \in Accounts, NEW d \in Days, NEW k, SavedElsewhere(a, d, k) PROVE session' = session
    BY <2>7 DEF SavedElsewhere, page
  <2>8. CASE UNCHANGED weekVars
    BY <1>1, <2>8 DEF weekVars
  <2> QED
    BY <1>1, <2>1, <2>2, <2>3, <2>4, <2>5, <2>6, <2>7, <2>8 DEF WeekNext, Answered
<1>2. [WeekNext]_weekVars => [~(session = "Disabled" /\ session' = "Locked")]_weekVars
  BY <1>1
<1> QED
  BY <1>2, PTL DEF WeekSpec, SealedReportIsDormant

-----------------------------------------------------------------------------
(* Types.                                                                  *)

PageTypes ==
  /\ cookie \in Somebody /\ user \in Somebody /\ enabled \in SUBSET Accounts
  /\ session \in Sessions
  /\ reprobed \in BOOLEAN /\ amiss \in BOOLEAN
  /\ acts \in 0 .. MaxActs

RowTypes == rows \in [Accounts -> [Days -> Kinds]] /\ local \in [Days -> Kinds]

ReadTypes ==
  /\ seen \in Input \cup {None}
  /\ asked \in [Loads -> Input]
  /\ answer \in [Loads -> Answer \cup {None}]

WeekTypes == TypeOK /\ PageTypes /\ RowTypes /\ ReadTypes

LEMMA InputsAreInput ==
  ASSUME PageTypes
  PROVE  Inputs \in Input
  BY DEF PageTypes, Inputs, Input

LEMMA AnswerTypes ==
  ASSUME NEW i \in Input, NEW owner, NEW table
  PROVE  RangeRead(i, owner, table) \in Answer /\ Failed \in Answer
  BY DEF RangeRead, Aggregate, SomeClosed, Parsed, Failed, Answer

LEMMA WeekTypesInit == WeekInit => WeekTypes
<1> SUFFICES ASSUME WeekInit PROVE WeekTypes
  OBVIOUS
<1>1. TypeOK
  BY TypeInit DEF WeekInit
<1>2. reprobed \in BOOLEAN /\ amiss \in BOOLEAN
  BY Zenon DEF WeekInit
<1>3. cookie \in Somebody /\ user \in Somebody /\ enabled \in SUBSET Accounts /\ acts \in 0 .. MaxActs
  BY ActsAssumption DEF WeekInit
<1>4. session \in Sessions
  BY DEF WeekInit, Sessions
<1>5. RowTypes
  BY OldWeeksAssumption DEF WeekInit, RowTypes
<1>6. ReadTypes
  BY DEF WeekInit, ReadTypes, Input, Somebody
<1> QED
  BY <1>1, <1>2, <1>3, <1>4, <1>5, <1>6 DEF WeekTypes, PageTypes

LEMMA PageTypesStep ==
  ASSUME PageTypes, [WeekNext]_weekVars
  PROVE  PageTypes'
<1>a. reprobed' \in BOOLEAN /\ amiss' \in BOOLEAN
  <2>1. reprobed \in BOOLEAN /\ amiss \in BOOLEAN
    BY Zenon DEF PageTypes
  <2>2. UNCHANGED reprobed \/ \E l \in Loads : reprobed' = (reprobed \/ Doubted(l))
    BY DEF WeekNext, Answered, Effect, SetupGate, Leave, Serve, Fail, Arrive, ProbeAnswers, Unlock, Retry,
           SignOutTold, CookieMovesTo, SavedElsewhere, page, weekVars
  <2>3. UNCHANGED amiss \/ amiss' = TRUE \/ \E A \in BOOLEAN : amiss' = (amiss \/ A)
    <3>1. ASSUME NEW l \in Loads, Serve(l) PROVE \E A \in BOOLEAN : amiss' = (amiss \/ A)
      BY <3>1 DEF Serve
    <3>2. ASSUME NEW a \in Accounts, NEW d \in Days, NEW k, SavedElsewhere(a, d, k)
          PROVE  \E A \in BOOLEAN : amiss' = (amiss \/ A)
      BY <3>2 DEF SavedElsewhere
    <3> QED
      BY <3>1, <3>2 DEF WeekNext, Answered, Effect, SetupGate, Leave, Fail, Arrive, ProbeAnswers, Unlock, Retry,
           SignOutTold, CookieMovesTo, weekVars
  <2> QED
    BY <2>1, <2>2, <2>3, Zenon
<1>b. /\ cookie \in Somebody /\ user \in Somebody /\ enabled \in SUBSET Accounts
      /\ session \in Sessions /\ acts \in 0 .. MaxActs
  BY DEF PageTypes
<1> DEFINE Goal == /\ cookie' \in Somebody /\ user' \in Somebody /\ enabled' \in SUBSET Accounts
                   /\ session' \in Sessions /\ acts' \in 0 .. MaxActs
<1> USE DEF server, page
<1>1. CASE Effect \/ SetupGate \/ Leave
  <2>1. Goal
    BY <1>b, <1>1 DEF Effect, SetupGate, Leave, Sessions
  <2> QED
    BY <1>a, <2>1 DEF PageTypes
<1>2. ASSUME NEW l \in Loads, Serve(l) \/ Fail(l) PROVE Goal
  BY <1>b, <1>2 DEF Serve, Fail
<1>3. ASSUME NEW l \in Loads, Arrive(l) PROVE Goal
  BY <1>b, <1>3 DEF Arrive, Sessions
<1>4. ASSUME ProbeAnswers PROVE Goal
  <2>1. session' \in Sessions
    BY <1>4 DEF ProbeAnswers, Sessions
  <2> QED
    BY <1>b, <1>4, <2>1 DEF ProbeAnswers
<1>c. Act => acts' \in 0 .. MaxActs
  BY <1>b, ActsAssumption DEF Act
<1>5. ASSUME Unlock \/ Retry \/ SignOutTold PROVE Goal
  BY <1>b, <1>c, <1>5 DEF Unlock, Retry, SignOutTold, Sessions, Somebody
<1>6. ASSUME NEW c \in Somebody, CookieMovesTo(c) PROVE Goal
  BY <1>b, <1>c, <1>6 DEF CookieMovesTo
<1>7. ASSUME NEW a \in Accounts, NEW d \in Days, NEW k, SavedElsewhere(a, d, k) PROVE Goal
  BY <1>b, <1>c, <1>7 DEF SavedElsewhere
<1>8. UNCHANGED weekVars => Goal
  BY <1>b DEF weekVars
<1>9. Effect \/ SetupGate \/ Leave => Goal
  BY <1>1 DEF PageTypes
<1>10. Goal
  BY <1>2, <1>3, <1>4, <1>5, <1>6, <1>7, <1>8, <1>9 DEF WeekNext, Answered
<1> QED
  BY <1>a, <1>10 DEF PageTypes

LEMMA RowTypesStep ==
  ASSUME RowTypes, [WeekNext]_weekVars
  PROVE  RowTypes'
<1> USE DEF RowTypes, server
<1>1. CASE Effect \/ SetupGate \/ Leave \/ ProbeAnswers \/ Unlock \/ Retry \/ SignOutTold
  BY <1>1 DEF Effect, SetupGate, Leave, ProbeAnswers, Unlock, Retry, SignOutTold
<1>2. ASSUME NEW l \in Loads, Serve(l) \/ Fail(l) \/ Arrive(l) PROVE RowTypes'
  BY <1>2 DEF Serve, Fail, Arrive
<1>3. ASSUME NEW c \in Somebody, CookieMovesTo(c) PROVE RowTypes'
  BY <1>3 DEF CookieMovesTo
<1>4. ASSUME NEW a \in Accounts, NEW d \in Days, NEW k \in {"work", "idle"}, SavedElsewhere(a, d, k) PROVE RowTypes'
  <2>1. k \in Kinds
    BY DEF Kinds
  <2> QED
    BY <1>4, <2>1 DEF SavedElsewhere
<1>5. CASE UNCHANGED weekVars
  BY <1>5 DEF weekVars
<1> QED
  BY <1>1, <1>2, <1>3, <1>4, <1>5 DEF WeekNext, Answered

LEMMA ReadTypesStep ==
  ASSUME PageTypes, ReadTypes, RoomInv, [WeekNext]_weekVars
  PROVE  ReadTypes'
<1>0. Inputs \in Input
  BY InputsAreInput
<1> USE DEF ReadTypes, reads
<1>1. CASE Effect
  <2>1. seen' = Inputs
    BY <1>1 DEF Effect
  <2>2. CASE SetupRequired
    BY <1>0, <1>1, <2>1, <2>2, EffectHolds
  <2>3. CASE ~SetupRequired
    BY <1>0, <1>1, <2>1, <2>3, EffectReads
  <2> QED
    BY <2>2, <2>3
<1>2. CASE SetupGate \/ Leave \/ ProbeAnswers \/ Unlock \/ Retry \/ SignOutTold
  BY <1>2 DEF SetupGate, Leave, ProbeAnswers, Unlock, Retry, SignOutTold
<1>3. ASSUME NEW l \in Loads, Serve(l) PROVE ReadTypes'
  <2>1. PICK v : answer' = [answer EXCEPT ![l] = v] /\ v \in Answer
    BY <1>3, AnswerTypes DEF Serve
  <2> QED
    BY <1>3, <2>1 DEF Serve
<1>4. ASSUME NEW l \in Loads, Fail(l) PROVE ReadTypes'
  <2>1. Failed \in Answer
    BY DEF Failed, Answer
  <2> QED
    BY <1>4, <2>1 DEF Fail
<1>5. ASSUME NEW l \in Loads, Arrive(l) PROVE ReadTypes'
  BY <1>5 DEF Arrive
<1>6. ASSUME NEW c \in Somebody, CookieMovesTo(c) PROVE ReadTypes'
  BY <1>6 DEF CookieMovesTo
<1>7. ASSUME NEW a \in Accounts, NEW d \in Days, NEW k, SavedElsewhere(a, d, k) PROVE ReadTypes'
  BY <1>7 DEF SavedElsewhere
<1>8. CASE UNCHANGED weekVars
  BY <1>8 DEF weekVars
<1> QED
  BY <1>1, <1>2, <1>3, <1>4, <1>5, <1>6, <1>7, <1>8 DEF WeekNext, Answered

LEMMA WeekTypesAlways == WeekSpec => [](GenInv /\ WeekTypes /\ RoomInv)
<1>1. WeekInit => GenInv
  BY TypeInit DEF WeekInit, GenInv, Init, TokensDistinct
<1>2. GenInv /\ WeekTypes /\ RoomInv /\ [WeekNext]_weekVars => (GenInv /\ WeekTypes /\ RoomInv)'
  <2> SUFFICES ASSUME GenInv, WeekTypes, RoomInv, [WeekNext]_weekVars
               PROVE  GenInv' /\ WeekTypes' /\ RoomInv'
    OBVIOUS
  <2>1. GenInv'
    BY WeekStep, GenInvStep
  <2> QED
    BY <2>1, PageTypesStep, RowTypesStep, ReadTypesStep, RoomStep DEF WeekTypes, GenInv
<1> QED
  BY <1>1, <1>2, WeekTypesInit, RoomInit, PTL DEF WeekSpec

\* Types hold in every reachable state of every week.
THEOREM WeekTypesCorrect == WeekSpec => []WeekTypeOK
<1>1. WeekTypes => WeekTypeOK
  BY Zenon DEF WeekTypes, PageTypes, RowTypes, ReadTypes, WeekTypeOK
<1> QED
  BY <1>1, WeekTypesAlways, PTL

-----------------------------------------------------------------------------
(* What the week shows.  A read on screen captured what the effect ran     *)
(* with last, so a key or a backend that has changed since then has the    *)
(* effect due; and its answer is what that store held.                     *)

Table(a) == IF a = None THEN local ELSE rows[a]

\* Nobody but the page's user has been read for, until they sign out.
OwnerInv ==
  user # None => \A l \in Loads : answer[l] # None \/ l \in running => asked[l].store = user

\* What a read of the page's store came back with, if nothing has disturbed it.
AnswerInv ==
  ~amiss => \A l \in Loads :
    answer[l] # None /\ asked[l].store = user => answer[l] = RangeRead(asked[l], user, Table(user))

\* A row that would not open was read with a key, and flagged.
ClosedInv ==
  \A l \in Loads : answer[l] # None /\ answer[l].closed # {} => asked[l].keyed /\ answer[l].unopenable

\* The read on screen, and the one that may still come to it, captured what the effect saw.
SeenInv ==
  ~disposed /\ ~SetupRequired =>
    /\ \A l \in running : token[l] = counter => asked[l] = seen
    /\ shown # Parked => asked[shown] = seen

ShownInv ==
  shown # Parked => /\ answer[shown] # None
                    /\ answer[shown].closed # {} => reprobed

ReadInv == OwnerInv /\ AnswerInv /\ ClosedInv /\ SeenInv /\ ShownInv

\* A row is left out as closed only by a read that has a key, and is flagged.
LEMMA ClosedRead ==
  ASSUME NEW i, NEW owner, NEW table, RangeRead(i, owner, table).closed # {}
  PROVE  i.keyed /\ RangeRead(i, owner, table).unopenable
<1> DEFINE sealed == IF i.store = None \/ i.keyed THEN {} ELSE Parsed(table)
           closed == {d \in Parsed(table) \ sealed : i.store # None /\ (table[d] = "damaged" \/ owner # i.store)}
<1>1. RangeRead(i, owner, table).closed = closed /\ RangeRead(i, owner, table).unopenable = SomeClosed(closed, Parsed(table) \ (sealed \cup closed))
  BY DEF RangeRead
<1>2. closed # {}
  BY <1>1
<1>3. SomeClosed(closed, Parsed(table) \ (sealed \cup closed))
  BY <1>2 DEF SomeClosed
<1>4. i.keyed
  <2>1. PICK d \in Parsed(table) \ sealed : i.store # None
    BY <1>2
  <2> QED
    BY <2>1, Zenon
<1> QED
  BY <1>1, <1>3, <1>4, Zenon

\* A read by the owner of the rows, with a key where it takes one, finds the days with work.
LEMMA OwnRead ==
  ASSUME NEW i, NEW table, i.store = None \/ i.keyed
  PROVE  RangeRead(i, i.store, table).days = {d \in Days : table[d] = "work"}
<1> DEFINE closed == {d \in Parsed(table) \ {} : i.store # None /\ (table[d] = "damaged" \/ i.store # i.store)}
<1>1. RangeRead(i, i.store, table).days = Aggregate(table, Parsed(table) \ ({} \cup closed))
  BY DEF RangeRead
<1> QED
  BY <1>1 DEF Aggregate, Parsed

\* A step that is neither the effect's nor an answer's leaves what was read.
Elsewise ==
  /\ UNCHANGED <<seen, asked, answer, shown, running, counter, token>>
  /\ user' \in {user, None} /\ reprobed' = reprobed
  /\ disposed' \/ (~Due /\ disposed' = disposed)

LEMMA ReadFrame ==
  ASSUME [WeekNext]_weekVars
  PROVE  \/ Effect
         \/ \E l \in Loads : Serve(l) \/ Fail(l) \/ Arrive(l)
         \/ Elsewise
         \/ UNCHANGED weekVars
<1> USE DEF Elsewise, reads, page, vars
<1>1. ASSUME SetupGate \/ Leave PROVE Elsewise
  BY <1>1 DEF SetupGate, Leave, Dispose
<1>2. ASSUME ProbeAnswers \/ Unlock \/ Retry \/ SignOutTold PROVE Elsewise
  BY <1>2 DEF ProbeAnswers, Unlock, Retry, SignOutTold, Act
<1>3. ASSUME NEW c \in Somebody, CookieMovesTo(c) PROVE Elsewise
  BY <1>3 DEF CookieMovesTo, Act
<1>4. ASSUME NEW a \in Accounts, NEW d \in Days, NEW k, SavedElsewhere(a, d, k) PROVE Elsewise
  BY <1>4 DEF SavedElsewhere, Act
<1> QED
  BY <1>1, <1>2, <1>3, <1>4 DEF WeekNext, Answered

\* An answer, whatever it is, is the only thing that changes then.
LEMMA ServedRead ==
  ASSUME ReadTypes, NEW l \in Loads, Serve(l) \/ Fail(l)
  PROVE  /\ answer[l] = None /\ l \in running /\ ~Due
         /\ \A m \in Loads : m # l => answer'[m] = answer[m]
         /\ UNCHANGED <<vars, server, page, seen, asked>>
  BY DEF Serve, Fail, ReadTypes

LEMMA EffectFrame ==
  ASSUME Effect
  PROVE  /\ ~disposed /\ ~disposed' /\ seen' = Inputs /\ Inputs' = Inputs
         /\ (SetupRequired' <=> SetupRequired)
         /\ UNCHANGED <<server, page, amiss>>
  BY DEF Effect, Outrank, Begin, Inputs, SetupRequired, page

LEMMA OwnerStep ==
  ASSUME WeekTypes, RoomInv, OwnerInv, [WeekNext]_weekVars
  PROVE  OwnerInv'
<1>0. ReadTypes
  BY DEF WeekTypes
<1>1. CASE Effect
  <2>0. user' = user
    BY <1>1, EffectFrame DEF page
  <2>1. CASE SetupRequired
    BY <1>1, <2>0, <2>1, EffectHolds DEF OwnerInv, Outrank
  <2>2. CASE ~SetupRequired
    <3>1. PICK l \in Loads : /\ Begin(l) /\ asked' = [asked EXCEPT ![l] = Inputs]
                            /\ answer' = [answer EXCEPT ![l] = None]
      BY <1>1, <2>2, EffectReads
    <3>2. asked'[l].store = user
      BY <1>0, <3>1 DEF ReadTypes, Inputs
    <3>3. \A m \in Loads : m # l => asked'[m] = asked[m] /\ answer'[m] = answer[m] /\ (m \in running' => m \in running)
      BY <1>0, <3>1 DEF ReadTypes, Begin
    <3> QED
      BY <2>0, <3>2, <3>3 DEF OwnerInv
  <2> QED
    BY <2>1, <2>2
<1>2. ASSUME NEW l \in Loads, Serve(l) \/ Fail(l) PROVE OwnerInv'
  BY <1>0, <1>2, ServedRead DEF OwnerInv, vars, page
<1>3. ASSUME NEW l \in Loads, Arrive(l) PROVE OwnerInv'
  BY <1>3 DEF OwnerInv, Arrive, Finish, reads
<1>4. CASE Elsewise
  BY <1>4 DEF Elsewise, OwnerInv
<1>5. CASE UNCHANGED weekVars
  BY <1>5 DEF weekVars, vars, OwnerInv
<1> QED
  BY <1>1, <1>2, <1>3, <1>4, <1>5, ReadFrame

LEMMA ClosedStep ==
  ASSUME WeekTypes, RoomInv, ClosedInv, [WeekNext]_weekVars
  PROVE  ClosedInv'
<1>0. ReadTypes
  BY DEF WeekTypes
<1>1. CASE Effect
  <2>1. CASE SetupRequired
    BY <1>1, <2>1, EffectHolds DEF ClosedInv
  <2>2. CASE ~SetupRequired
    <3>1. PICK l \in Loads : asked' = [asked EXCEPT ![l] = Inputs] /\ answer' = [answer EXCEPT ![l] = None]
      BY <1>1, <2>2, EffectReads
    <3>2. answer'[l] = None /\ \A m \in Loads : m # l => asked'[m] = asked[m] /\ answer'[m] = answer[m]
      BY <1>0, <3>1 DEF ReadTypes
    <3> QED
      BY <3>2 DEF ClosedInv
  <2> QED
    BY <2>1, <2>2
<1>2. ASSUME NEW l \in Loads, Serve(l) \/ Fail(l) PROVE ClosedInv'
  <2>0. \A m \in Loads : m # l => answer'[m] = answer[m] /\ asked'[m] = asked[m]
    BY <1>0, <1>2, ServedRead
  <2>a. asked' = asked
    BY <1>0, <1>2, ServedRead
  <2>1. ASSUME NEW owner, NEW table, answer'[l] = RangeRead(asked[l], owner, table), answer'[l].closed # {}
        PROVE  asked[l].keyed /\ answer'[l].unopenable
    BY <2>1, ClosedRead
  <2>2. answer'[l] = Failed => answer'[l].closed = {}
    BY DEF Failed
  <2>3. answer'[l] = Failed \/ \E owner, table : answer'[l] = RangeRead(asked[l], owner, table)
    BY <1>0, <1>2 DEF Serve, Fail, ReadTypes
  <2> QED
    BY <2>0, <2>a, <2>1, <2>2, <2>3 DEF ClosedInv
<1>3. ASSUME NEW l \in Loads, Arrive(l) PROVE ClosedInv'
  BY <1>3 DEF ClosedInv, Arrive, reads
<1>4. CASE Elsewise
  BY <1>4 DEF Elsewise, ClosedInv
<1>5. CASE UNCHANGED weekVars
  BY <1>5 DEF weekVars, ClosedInv
<1> QED
  BY <1>1, <1>2, <1>3, <1>4, <1>5, ReadFrame

LEMMA SeenStep ==
  ASSUME GenInv, WeekTypes, RoomInv, SeenInv, [WeekNext]_weekVars
  PROVE  SeenInv'
<1>0. ReadTypes
  BY DEF WeekTypes
<1> SUFFICES ASSUME ~disposed', ~SetupRequired'
             PROVE  /\ \A l \in running' : token'[l] = counter' => asked'[l] = seen'
                    /\ shown' # Parked => asked'[shown'] = seen'
  BY DEF SeenInv
<1>1. CASE Effect
  <2>1. ~SetupRequired /\ seen' = Inputs
    BY <1>1, EffectFrame
  <2>2. PICK l \in Loads : Begin(l) /\ shown' = Parked /\ asked' = [asked EXCEPT ![l] = Inputs]
    BY <1>1, <2>1, EffectReads
  <2>3. asked'[l] = seen'
    BY <1>0, <2>1, <2>2 DEF ReadTypes
  <2>4. ASSUME NEW m \in running', m # l PROVE token'[m] # counter'
    <3>1. counter \in Nat /\ counter' = counter + 1 /\ m \in running /\ m \in Loads /\ ~disposed
      BY <2>2, <2>4, MaxTokenAssumption DEF Begin, NextToken, GenInv, TypeOK
    <3>2. token'[m] = token[m]
      BY <2>2, <2>4, <3>1 DEF Begin, GenInv, TypeOK
    <3>3. token[m] \in 1..counter
      BY <3>1 DEF GenInv, TokensDistinct
    <3> QED
      BY <3>1, <3>2, <3>3
  <2> QED
    BY <2>2, <2>3, <2>4
<1>2. ASSUME NEW l \in Loads, Serve(l) \/ Fail(l) PROVE SeenInv'
  <2>1. UNCHANGED <<vars, page, seen, asked>>
    BY <1>0, <1>2, ServedRead
  <2> QED
    BY <2>1 DEF SeenInv, SetupRequired, vars, page
<1>3. ASSUME NEW l \in Loads, Arrive(l) PROVE SeenInv'
  <2>1. ~disposed /\ ~SetupRequired
    BY <1>3 DEF Arrive, Finish, Due
  <2>2. UNCHANGED <<counter, token, asked, seen>> /\ running' \subseteq running
    BY <1>3 DEF Arrive, Finish, reads
  <2>3. shown' = shown \/ (shown' = l /\ l \in running /\ token[l] = counter)
    BY <1>3 DEF Arrive, Finish, IsCurrent
  <2> QED
    BY <2>1, <2>2, <2>3 DEF SeenInv
<1>4. CASE Elsewise
  <2>1. ~disposed /\ ~SetupRequired
    BY <1>4 DEF Elsewise, Due
  <2> QED
    BY <1>4, <2>1 DEF Elsewise, SeenInv
<1>5. CASE UNCHANGED weekVars
  BY <1>5 DEF weekVars, vars, SeenInv, SetupRequired
<1> QED
  BY <1>1, <1>2, <1>3, <1>4, <1>5, ReadFrame DEF SeenInv

LEMMA ShownStep ==
  ASSUME GenInv, WeekTypes, RoomInv, ClosedInv, SeenInv, ShownInv, [WeekNext]_weekVars
  PROVE  ShownInv'
<1>0. ReadTypes /\ shown \in Loads \cup {Parked}
  BY DEF WeekTypes, TypeOK
<1>1. CASE Effect
  <2>0. reprobed' = reprobed
    BY <1>1, EffectFrame DEF page
  <2>1. CASE SetupRequired
    BY <1>1, <2>0, <2>1, EffectHolds DEF ShownInv
  <2>2. CASE ~SetupRequired
    BY <1>1, <2>2, EffectReads DEF ShownInv
  <2> QED
    BY <2>1, <2>2
<1>2. ASSUME NEW l \in Loads, Serve(l) \/ Fail(l) PROVE ShownInv'
  <2>1. UNCHANGED <<shown, reprobed>> /\ answer[l] = None
    BY <1>0, <1>2, ServedRead DEF vars, page
  <2>2. shown # Parked => shown # l /\ answer'[shown] = answer[shown]
    BY <1>0, <1>2, <2>1, ServedRead DEF ShownInv
  <2> QED
    BY <2>1, <2>2 DEF ShownInv
<1>3. ASSUME NEW l \in Loads, Arrive(l) PROVE ShownInv'
  <2>0. UNCHANGED <<answer, asked>> /\ answer[l] # None
    BY <1>3 DEF Arrive, reads
  <2>1. reprobed => reprobed'
    BY <1>3, Zenon DEF Arrive
  <2>2. CASE ~IsCurrent(l)
    BY <1>3, <2>0, <2>1, <2>2 DEF Arrive, Finish, ShownInv
  <2>3. CASE IsCurrent(l)
    <3>1. shown' = l /\ l \in running
      BY <1>3, <2>3 DEF Arrive, Finish
    <3>2. ASSUME answer[l].closed # {} PROVE reprobed'
      <4>1. asked[l].keyed /\ answer[l].unopenable
        BY <2>0, <3>2 DEF ClosedInv
      <4>2. asked[l] = Inputs
        BY <1>3, <2>3, <3>1 DEF Arrive, Due, IsCurrent, SeenInv
      <4>3. session = "Unlocked"
        <5>1. Inputs.keyed = (session = "Unlocked")
          BY DEF Inputs
        <5> QED
          BY <4>1, <4>2, <5>1, Zenon
      <4>4. reprobed \/ Doubted(l)
        BY <2>3, <4>1, <4>3 DEF Doubted, MayReprobe
      <4> QED
        BY <1>3, <4>4, Zenon DEF Arrive
    <3> QED
      BY <2>0, <3>1, <3>2 DEF ShownInv
  <2> QED
    BY <2>2, <2>3
<1>4. CASE Elsewise
  BY <1>4 DEF Elsewise, ShownInv
<1>5. CASE UNCHANGED weekVars
  BY <1>5 DEF weekVars, vars, ShownInv
<1> QED
  BY <1>1, <1>2, <1>3, <1>4, <1>5, ReadFrame

LEMMA AnswerStep ==
  ASSUME WeekTypes, RoomInv, OwnerInv, AnswerInv, [WeekNext]_weekVars
  PROVE  AnswerInv'
<1>0. ReadTypes /\ RowTypes /\ user \in Somebody
  BY DEF WeekTypes, PageTypes
<1> SUFFICES ASSUME ~amiss', NEW l \in Loads, answer'[l] # None, asked'[l].store = user'
             PROVE  answer'[l] = RangeRead(asked'[l], user', Table(user)')
  BY DEF AnswerInv, Table
<1> DEFINE Goal == answer'[l] = RangeRead(asked'[l], user', Table(user)')
<1>a. ASSUME ~amiss, answer'[l] = answer[l], asked'[l] = asked[l], user' = user, Table(user)' = Table(user)
      PROVE  Goal
  BY <1>a DEF AnswerInv
<1> USE DEF server, page, reads
<1>1. CASE Effect
  <2>0. UNCHANGED <<user, rows, local, amiss>>
    BY <1>1, EffectFrame
  <2>1. Table(user)' = Table(user)
    BY <2>0 DEF Table
  <2>2. CASE SetupRequired
    BY <1>1, <1>a, <2>0, <2>1, <2>2, EffectHolds
  <2>3. CASE ~SetupRequired
    <3>1. PICK m \in Loads : asked' = [asked EXCEPT ![m] = Inputs] /\ answer' = [answer EXCEPT ![m] = None]
      BY <1>1, <2>3, EffectReads
    <3>2. m # l
      BY <1>0, <3>1 DEF ReadTypes
    <3>3. answer'[l] = answer[l] /\ asked'[l] = asked[l]
      BY <1>0, <3>1, <3>2 DEF ReadTypes
    <3> QED
      BY <1>a, <2>0, <2>1, <3>3
  <2> QED
    BY <2>2, <2>3
<1>2. ASSUME NEW m \in Loads, Serve(m) PROVE Goal
  <2>0. UNCHANGED <<user, rows, local, asked>> /\ ~amiss /\ asked[m].store \in {None, cookie}
    <3>1. amiss' = (amiss \/ asked[m].store \notin {None, cookie})
      BY <1>2 DEF Serve
    <3>2. ~amiss /\ asked[m].store \in {None, cookie}
      BY <3>1, Zenon
    <3> QED
      BY <1>2, <3>2 DEF Serve
  <2>1. Table(user)' = Table(user)
    BY <2>0 DEF Table
  <2>2. CASE m # l
    <3>1. answer'[l] = answer[l]
      BY <1>0, <1>2, <2>2 DEF Serve, ReadTypes
    <3> QED
      BY <1>a, <2>0, <2>1, <3>1
  <2>3. CASE m = l
    <3>1. asked[l].store = user
      BY <2>0
    <3>2. CASE user = None
      BY <1>0, <1>2, <2>0, <2>3, <3>1, <3>2 DEF Serve, ReadTypes, Table
    <3>3. CASE user # None
      BY <1>0, <1>2, <2>0, <2>3, <3>1, <3>3 DEF Serve, ReadTypes, Table
    <3> QED
      BY <3>2, <3>3
  <2> QED
    BY <2>2, <2>3
<1>3. ASSUME NEW m \in Loads, Fail(m) PROVE FALSE
  BY <1>3, Zenon DEF Fail
<1>4. ASSUME NEW m \in Loads, Arrive(m) PROVE Goal
  <2>1. UNCHANGED <<user, rows, local, asked, answer, amiss>>
    BY <1>4 DEF Arrive
  <2> QED
    BY <1>a, <2>1 DEF Table
<1>5. ASSUME SetupGate \/ Leave \/ ProbeAnswers \/ Unlock \/ Retry PROVE Goal
  <2>1. UNCHANGED <<user, rows, local, asked, answer, amiss>>
    BY <1>5 DEF SetupGate, Leave, ProbeAnswers, Unlock, Retry
  <2> QED
    BY <1>a, <2>1 DEF Table
<1>6. ASSUME SignOutTold PROVE FALSE
  BY <1>6 DEF SignOutTold, OwnerInv
<1>7. ASSUME NEW c \in Somebody, CookieMovesTo(c) PROVE Goal
  <2>1. UNCHANGED <<user, rows, local, asked, answer, amiss>>
    BY <1>7 DEF CookieMovesTo
  <2> QED
    BY <1>a, <2>1 DEF Table
<1>8. ASSUME NEW a \in Accounts, NEW d \in Days, NEW k, SavedElsewhere(a, d, k) PROVE Goal
  <2>1. amiss' = (amiss \/ a = user)
    BY <1>8 DEF SavedElsewhere
  <2>2. ~amiss /\ a # user
    BY <2>1, Zenon
  <2>3. UNCHANGED <<user, local, asked, answer>> /\ (user # None => rows'[user] = rows[user])
    BY <1>0, <1>8, <2>2 DEF SavedElsewhere, RowTypes, Somebody
  <2>4. Table(user)' = Table(user)
    BY <2>3 DEF Table
  <2> QED
    BY <1>a, <2>2, <2>3, <2>4
<1>9. ASSUME UNCHANGED weekVars PROVE Goal
  <2>1. UNCHANGED <<user, rows, local, asked, answer, amiss>>
    BY <1>9 DEF weekVars
  <2> QED
    BY <1>a, <2>1 DEF Table
<1> QED
  BY <1>1, <1>2, <1>3, <1>4, <1>5, <1>6, <1>7, <1>8, <1>9 DEF WeekNext, Answered

LEMMA ReadInvAlways == WeekSpec => [](WeekTypes /\ ReadInv)
<1>1. WeekInit => ReadInv
  <2> SUFFICES ASSUME WeekInit PROVE ReadInv
    OBVIOUS
  <2>1. running = {} /\ shown = Parked /\ \A l \in Loads : answer[l] = None
    BY DEF WeekInit, Init
  <2> QED
    BY <2>1 DEF ReadInv, OwnerInv, AnswerInv, ClosedInv, SeenInv, ShownInv
<1>2. GenInv /\ WeekTypes /\ RoomInv /\ ReadInv /\ [WeekNext]_weekVars => ReadInv'
  BY OwnerStep, AnswerStep, ClosedStep, SeenStep, ShownStep DEF ReadInv
<1> QED
  BY <1>1, <1>2, WeekTypesAlways, PTL DEF WeekSpec

\* A week on screen that nothing has disturbed is the week that is stored: a read without the
\* key, or of the store of before the sign-out, is not there once no effect is due.
THEOREM TotalsAlwaysStored == WeekSpec => []TotalsAreStored
<1>1. ASSUME WeekTypes, ReadInv, Screen = "week", ~Due, ~disposed, ~amiss, session # "Unknown"
      PROVE  answer[shown].days = WorkDays
  <2>1. ~SetupRequired /\ shown # Parked /\ shown \in Loads /\ session \in {"Disabled", "Unlocked"}
    BY <1>1 DEF Screen, WeekTypes, TypeOK, PageTypes, Sessions
  <2>2. answer[shown] # None /\ asked[shown] = Inputs
    BY <1>1, <2>1 DEF ReadInv, ShownInv, SeenInv, Due
  <2>3. asked[shown].store = user
    BY <2>2 DEF Inputs
  <2>4. answer[shown] = RangeRead(asked[shown], asked[shown].store, Table(user))
    BY <1>1, <2>1, <2>2, <2>3 DEF ReadInv, AnswerInv
  <2>5. asked[shown].store = None \/ asked[shown].keyed
    <3>1. user = None \/ session = "Unlocked"
      BY <2>1 DEF SetupRequired
    <3>2. Inputs.keyed = (session = "Unlocked")
      BY DEF Inputs
    <3> QED
      BY <2>2, <2>3, <3>1, <3>2, Zenon
  <2>6. answer[shown].days = {d \in Days : Table(user)[d] = "work"}
    <3> DEFINE i == asked[shown]
    <3>1. RangeRead(i, i.store, Table(user)).days = {d \in Days : Table(user)[d] = "work"}
      <4>1. i.store = None \/ i.keyed
        BY <2>5
      <4> HIDE DEF i
      <4> QED
        BY <4>1, OwnRead
    <3> QED
      BY <2>4, <3>1
  <2> QED
    BY <2>6 DEF WorkDays, Table
<1>2. WeekTypes /\ ReadInv => TotalsAreStored
  BY <1>1 DEF TotalsAreStored
<1> QED
  BY <1>2, ReadInvAlways, PTL

\* An Unlocked page never shows a week that leaves out a row its key did not open without
\* having asked once whose session it is.
THEOREM LightWeeksAreDoubted == WeekSpec => []LightWeekIsDoubted
<1>1. ReadInv => LightWeekIsDoubted
  BY DEF ReadInv, ShownInv, LightWeekIsDoubted, Screen
<1> QED
  BY <1>1, ReadInvAlways, PTL

-----------------------------------------------------------------------------
(* A blank week is being read.                                             *)

\* Under the gate the newest read has been outranked, and the gate takes the week away.
BlankInv ==
  ~disposed /\ ~SetupRequired /\ seen # None => (shown = Parked <=> Newest # {})

LEMMA BlankStep ==
  ASSUME GenInv, WeekTypes, RoomInv, BlankInv, [WeekNext]_weekVars
  PROVE  BlankInv'
<1>0. ReadTypes
  BY DEF WeekTypes
<1> SUFFICES ASSUME ~disposed', ~SetupRequired', seen' # None
             PROVE  shown' = Parked <=> Newest' # {}
  BY DEF BlankInv
<1>1. CASE Effect
  <2>1. ~SetupRequired
    BY <1>1, EffectFrame
  <2>2. PICK l \in Loads : Begin(l) /\ shown' = Parked
    BY <1>1, <2>1, EffectReads
  <2>3. l \in running' /\ token'[l] = counter' /\ ~disposed'
    BY <2>2 DEF Begin, GenInv, TypeOK
  <2> QED
    BY <2>2, <2>3 DEF Newest, IsCurrent
<1>2. ASSUME NEW l \in Loads, Serve(l) \/ Fail(l) PROVE BlankInv'
  <2>1. UNCHANGED <<vars, page, seen>>
    BY <1>0, <1>2, ServedRead
  <2> QED
    BY <2>1 DEF BlankInv, SetupRequired, Newest, IsCurrent, vars, page
<1>3. ASSUME NEW l \in Loads, Arrive(l) PROVE BlankInv'
  <2>1. ~disposed /\ ~SetupRequired /\ seen' = seen
    BY <1>3 DEF Arrive, Finish, Due, reads
  <2>2. shown = Parked <=> Newest # {}
    BY <2>1 DEF BlankInv
  <2>3. Newest' = Newest \ {l}
    BY <1>3 DEF Arrive, Finish, Newest, IsCurrent
  <2>4. CASE IsCurrent(l)
    <3>1. shown' = l /\ l \in running /\ l # Parked
      BY <1>3, <2>4, LoadsAssumption DEF Arrive, Finish
    <3>2. \A m \in Newest : m = l
      BY <2>1, <2>4, <3>1 DEF Newest, IsCurrent, GenInv, TokensDistinct
    <3> QED
      BY <2>3, <3>1, <3>2 DEF BlankInv
  <2>5. CASE ~IsCurrent(l)
    <3>1. shown' = shown /\ l \notin Newest
      BY <1>3, <2>5 DEF Arrive, Finish, Newest
    <3> QED
      BY <2>2, <2>3, <3>1 DEF BlankInv
  <2> QED
    BY <2>4, <2>5
<1>4. CASE Elsewise
  <2>1. ~disposed /\ ~SetupRequired
    BY <1>4 DEF Elsewise, Due
  <2> QED
    BY <1>4, <2>1 DEF Elsewise, BlankInv, Newest, IsCurrent
<1>5. CASE UNCHANGED weekVars
  BY <1>5 DEF weekVars, vars, page, reads, BlankInv, SetupRequired, Newest, IsCurrent
<1> QED
  BY <1>1, <1>2, <1>3, <1>4, <1>5, ReadFrame DEF BlankInv

\* Once the effect has run, the week is blank exactly while the read that will fill it is on
\* its way: no step outranks it and reads nothing in its place.
THEOREM BlankWeeksAreRead == WeekSpec => []BlankIsReading
<1>1. WeekInit => BlankInv
  BY DEF WeekInit, BlankInv
<1>2. GenInv /\ WeekTypes /\ RoomInv /\ BlankInv /\ [WeekNext]_weekVars => BlankInv'
  BY BlankStep
<1>3. BlankInv => BlankIsReading
  BY DEF BlankInv, BlankIsReading, Due
<1> QED
  BY <1>1, <1>2, <1>3, WeekTypesAlways, PTL DEF WeekSpec

-----------------------------------------------------------------------------
(* The session of the week's page.                                         *)

SignedOutInv == user = None => session = "Disabled"

LEMMA SessionStep ==
  ASSUME WeekTypes, SignedOutInv, [WeekNext]_weekVars
  PROVE  SignedOutInv' /\ (Session!Next \/ UNCHANGED <<user, session, reprobed>>)
<1>0. session \in Sessions /\ reprobed \in BOOLEAN
  BY DEF WeekTypes, PageTypes
<1>1. ASSUME UNCHANGED page
      PROVE  SignedOutInv' /\ UNCHANGED <<user, session, reprobed>>
  BY <1>1 DEF page, SignedOutInv
<1>2. CASE Effect \/ Leave
  BY <1>1, <1>2 DEF Effect, Leave
<1>3. CASE SetupGate
  <2>1. Session!Retry
    BY <1>3 DEF SetupGate, SetupRequired, Session!Retry
  <2> QED
    BY <1>3, <2>1 DEF SetupGate, SetupRequired, SignedOutInv, Session!Next
<1>4. CASE ProbeAnswers
  <2>1. Session!Answer
    BY <1>4 DEF ProbeAnswers, Session!Answer, Session!EncryptionStates
  <2> QED
    BY <1>4, <2>1 DEF ProbeAnswers, SignedOutInv, Session!Next
<1>5. ASSUME NEW l \in Loads, Serve(l) \/ Fail(l)
      PROVE  UNCHANGED page
  BY <1>5 DEF Serve, Fail
<1>6. ASSUME NEW l \in Loads, Arrive(l)
      PROVE  SignedOutInv' /\ (Session!Next \/ UNCHANGED <<user, session, reprobed>>)
  <2>1. CASE Doubted(l)
    <3>1. Session!Reprobe
      BY <1>0, <1>6, <2>1 DEF Arrive, Doubted, MayReprobe, SignedOutInv, Session!Reprobe
    <3> QED
      BY <1>6, <2>1, <3>1 DEF Arrive, Doubted, SignedOutInv, Session!Next
  <2>2. CASE ~Doubted(l) /\ Contradicted(l)
    <3>1. Session!KeyComesOrGoes
      BY <1>0, <1>6, <2>2 DEF Arrive, Contradicted, Session!KeyComesOrGoes
    <3> QED
      BY <1>6, <2>2, <3>1 DEF Arrive, Contradicted, SignedOutInv, Session!Next
  <2>3. CASE ~Doubted(l) /\ ~Contradicted(l)
    BY <1>0, <1>6, <2>3 DEF Arrive, SignedOutInv
  <2> QED
    BY <2>1, <2>2, <2>3
<1>7. CASE Unlock
  <2>1. Session!KeyComesOrGoes
    BY <1>7 DEF Unlock, SignedOutInv, Session!KeyComesOrGoes
  <2> QED
    BY <1>7, <2>1 DEF Unlock, SignedOutInv, Session!Next
<1>8. CASE Retry
  <2>1. Session!Retry
    BY <1>8 DEF Retry, SignedOutInv, Session!Retry
  <2> QED
    BY <1>8, <2>1 DEF Retry, SignedOutInv, Session!Next
<1>9. CASE SignOutTold
  <2>1. Session!SignOut
    BY <1>9 DEF SignOutTold, Session!SignOut
  <2> QED
    BY <1>9, <2>1 DEF SignOutTold, SignedOutInv, Session!Next
<1>10. ASSUME NEW c \in Somebody, CookieMovesTo(c) PROVE UNCHANGED page
  BY <1>10 DEF CookieMovesTo
<1>11. ASSUME NEW a \in Accounts, NEW d \in Days, NEW k, SavedElsewhere(a, d, k)
       PROVE  UNCHANGED page
  BY <1>11 DEF SavedElsewhere
<1>12. UNCHANGED weekVars => UNCHANGED page
  BY DEF weekVars, page
<1> QED
  BY <1>1, <1>2, <1>3, <1>4, <1>5, <1>6, <1>7, <1>8, <1>9, <1>10, <1>11, <1>12
     DEF WeekNext, Answered

\* Whatever its reads report, the week doubts a key once in a page load, and a signed-out page
\* stays Disabled (claim_reprobe, and the account check of sealed_row_seen).
THEOREM WeekSessionKept == WeekSpec => WeekKeepsSession
<1>1. WeekInit => SignedOutInv /\ Session!Init
  BY DEF WeekInit, SignedOutInv, Session!Init, Session!Somebody, Session!EncryptionStates, Somebody
<1>2. WeekTypes /\ SignedOutInv /\ [WeekNext]_weekVars
        => SignedOutInv' /\ [Session!Next]_<<user, session, reprobed>>
  BY SessionStep
<1> QED
  BY <1>1, <1>2, WeekTypesAlways, PTL DEF WeekSpec, WeekKeepsSession, Session!Spec

=============================================================================
