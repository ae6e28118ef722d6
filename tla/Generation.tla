------------------------------ MODULE Generation ------------------------------
(***************************************************************************)
(* storage::Generation and the dance its callers do around an await: take  *)
(* the next token before it, compare the token with the counter after it.  *)
(* The counter lives in a StoredValue of the component; an operation       *)
(* outlives the component it was started by.                               *)
(***************************************************************************)
EXTENDS Integers

CONSTANTS
  Loads,    \* the operations that can be in flight
  Parked,   \* what a signal shows that no operation has published
  MaxToken  \* bound: the tokens taken; the code counts in a u64

ASSUME LoadsAssumption == Parked \notin Loads
ASSUME MaxTokenAssumption == MaxToken \in Nat

VARIABLES
  counter,   \* Generation.0
  disposed,  \* whether the component, and its StoredValue, are gone
  running,   \* the operations in flight
  token,     \* token[l]: what l captured before its await
  shown      \* what the signal shows: an operation's result, or Parked

vars == <<counter, disposed, running, token, shown>>

TypeOK ==
  /\ counter \in 0..MaxToken
  /\ disposed \in BOOLEAN
  /\ running \subseteq Loads
  /\ token \in [Loads -> 0..MaxToken]
  /\ shown \in Loads \cup {Parked}

Init ==
  /\ counter = 0
  /\ disposed = FALSE
  /\ running = {}
  /\ token = [l \in Loads |-> 0]
  /\ shown = Parked

\* Seeded fault: the increment is forgotten.
NextToken_Kept == UNCHANGED counter

\* Generation::next.
NextToken == counter' = counter + 1

\* try_update_value(Generation::next).unwrap_or_default(), before the spawn.
Begin(l) ==
  /\ ~disposed
  /\ counter < MaxToken
  /\ NextToken
  /\ token' = [token EXCEPT ![l] = counter']
  /\ running' = running \cup {l}
  /\ shown' \in {shown, Parked}
  /\ UNCHANGED disposed

\* The same, by a caller that starts nothing or will not ask again: a keystroke,
\* "Lock now", a sign-out, an effect that returns early.
Outrank ==
  /\ ~disposed
  /\ counter < MaxToken
  /\ NextToken
  /\ shown' \in {shown, Parked}
  /\ UNCHANGED <<disposed, running, token>>

\* The same once the component is gone: the token is the fallback 0.
BeginUnmounted(l) ==
  /\ disposed
  /\ token' = [token EXCEPT ![l] = 0]
  /\ running' = running \cup {l}
  /\ UNCHANGED <<counter, disposed, shown>>

Dispose ==
  /\ ~disposed
  /\ disposed' = TRUE
  /\ UNCHANGED <<counter, running, token, shown>>

\* Seeded fault: the counter outlives the component it belongs to.
IsCurrent_Kept(l) == token[l] = counter

\* try_with_value(|g| g.is_current(token)).unwrap_or(false), after the await.
IsCurrent(l) == ~disposed /\ token[l] = counter

Finish(l) ==
  /\ l \in running
  /\ running' = running \ {l}
  /\ shown' = IF IsCurrent(l) THEN l ELSE shown
  /\ UNCHANGED <<counter, disposed, token>>

Next ==
  \/ Outrank
  \/ Dispose
  \/ \E l \in Loads : Begin(l) \/ BeginUnmounted(l) \/ Finish(l)

Spec == Init /\ [][Next]_vars

-----------------------------------------------------------------------------
\* Who may publish now.
Newest == {l \in running : IsCurrent(l)}

Latest == INSTANCE LatestWins WITH newest <- Newest

\* The counter keeps the promise: comparing a captured token with the counter is
\* the same as being the operation that was started last.
OnlyTheNewestPublishes == Latest!Spec

\* No two operations in flight can both publish.
OneMayPublish == \A l, m \in Newest : l = m

\* What is shown is never replaced by the result of an operation that was
\* started before another one that is still in flight.
NoStaleOverwrite ==
  [][\A l \in Loads :
       l \in running /\ l \notin running' /\ shown' = l /\ shown # l
         => \A m \in running : token[m] <= token[l]]_vars

=============================================================================
