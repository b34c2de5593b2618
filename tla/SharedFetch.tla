---------------------------- MODULE SharedFetch -----------------------------
(***************************************************************************)
(* What de-duplicating requests promises those who ask for an item.        *)
(*                                                                         *)
(* Each item is fetched by one caller at a time.  Who asks for it while it *)
(* is fetched joins, and is told when that fetch is over and not before.   *)
(* Without a fetch under way a caller fetches the item itself, unless it   *)
(* is complete by the time it asks, or a fetch of it has ever failed:      *)
(* then callers may be told that all is well although nothing was fetched. *)
(***************************************************************************)
CONSTANTS Callers, Items

VARIABLES
  doing,     \* what a caller does: nothing, <<>>, or <<step, item>>
  complete,  \* the items that are there
  broken     \* the items of which a fetch has failed

vars == <<doing, complete, broken>>

Does(c, s, i) == doing[c] = <<s, i>>
Free(c) == doing[c] = <<>> \/ \E i \in Items : Does(c, "ok", i) \/ Does(c, "error", i)
Turn(c, s, i) == doing' = [doing EXCEPT ![c] = <<s, i>>]

\* The fetch of c is over: those who joined it are told.
End(c, s, i) ==
  doing' = [d \in Callers |-> IF d = c THEN <<s, i>>
                              ELSE IF Does(d, "joined", i) THEN <<"told", i>> ELSE doing[d]]

----------------------------------------------------------------------------
Init ==
  /\ doing = [c \in Callers |-> <<>>]
  /\ complete = {}
  /\ broken = {}

\* A caller turns to something else.
Leave(c) ==
  /\ Free(c)
  /\ doing' = [doing EXCEPT ![c] = <<>>]
  /\ UNCHANGED <<complete, broken>>

Find(c, i) ==
  /\ Free(c) /\ i \in complete
  /\ Turn(c, "ok", i)
  /\ UNCHANGED <<complete, broken>>

Ask(c, i) ==
  /\ Free(c) /\ i \notin complete
  /\ Turn(c, "asking", i)
  /\ UNCHANGED <<complete, broken>>

Fetch(c, i) ==
  /\ Does(c, "asking", i)
  /\ \A d \in Callers : ~Does(d, "fetching", i) /\ ~Does(d, "fetched", i)
  /\ Turn(c, "fetching", i)
  /\ UNCHANGED <<complete, broken>>

Join(c, i) ==
  /\ Does(c, "asking", i)
  /\ \E d \in Callers : Does(d, "fetching", i)
  /\ Turn(c, "joined", i)
  /\ UNCHANGED <<complete, broken>>

\* Another has just fetched the item, or the caller is turned away.
JoinLate(c, i) ==
  /\ Does(c, "asking", i)
  /\ i \in broken \/ \E d \in Callers : Does(d, "fetched", i)
  /\ Turn(c, "told", i)
  /\ UNCHANGED <<complete, broken>>

Complete(c, i) ==
  /\ Does(c, "fetching", i)
  /\ End(c, "fetched", i)
  /\ complete' = complete \cup {i}
  /\ UNCHANGED broken

Fail(c, i) ==
  /\ Does(c, "fetching", i)
  /\ End(c, "error", i)
  /\ broken' = broken \cup {i}
  /\ UNCHANGED complete

Return(c, i) ==
  /\ Does(c, "fetched", i) \/ Does(c, "told", i)
  /\ Turn(c, "ok", i)
  /\ UNCHANGED <<complete, broken>>

\* The item changes behind the callers' backs.
Lose(i) ==
  /\ complete' = complete \ {i}
  /\ UNCHANGED <<doing, broken>>

Next ==
  \/ \E c \in Callers : Leave(c)
  \/ \E c \in Callers, i \in Items :
       \/ Find(c, i) \/ Ask(c, i) \/ Fetch(c, i) \/ Join(c, i) \/ JoinLate(c, i)
       \/ Complete(c, i) \/ Fail(c, i) \/ Return(c, i)
  \/ \E i \in Items : Lose(i)

Spec == Init /\ [][Next]_vars
============================================================================
