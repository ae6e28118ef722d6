------------------------------ MODULE LatestWins ------------------------------
(***************************************************************************)
(* What storage::Generation promises the six places that use it (the probe *)
(* of EncryptionCtx, the day, the week, the calendar, the import banner    *)
(* and the encryption panel): however many asynchronous operations         *)
(* overlap, only the newest may publish its result.                        *)
(***************************************************************************)
CONSTANTS
  Loads,   \* the operations that can be in flight
  Parked   \* what a signal shows that no operation has published

VARIABLES
  running,  \* the operations in flight
  newest,   \* the one that may publish: a set of at most one
  shown     \* what the signal shows: an operation's result, or Parked

Init ==
  /\ running = {}
  /\ newest = {}
  /\ shown = Parked

\* An operation starts, or goes on as the newest; its caller blanks the signal
\* first or leaves it.
Begin(l) ==
  /\ running' = running \cup {l}
  /\ newest' = {l}
  /\ shown' \in {shown, Parked}

\* The caller outranks whatever is in flight and waits for nothing itself.
Outrank ==
  /\ newest' = {}
  /\ shown' \in {shown, Parked}
  /\ UNCHANGED running

\* An operation that starts after its component is gone never publishes.
BeginUnmounted(l) ==
  /\ running' = running \cup {l}
  /\ newest' = newest \ {l}
  /\ UNCHANGED shown

Finish(l) ==
  /\ l \in running
  /\ running' = running \ {l}
  /\ newest' = newest \ {l}
  /\ shown' = IF l \in newest THEN l ELSE shown

Next == Outrank \/ \E l \in Loads : Begin(l) \/ BeginUnmounted(l) \/ Finish(l)

Spec == Init /\ [][Next]_<<running, newest, shown>>

=============================================================================
