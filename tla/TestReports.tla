---------------------------- MODULE TestReports ----------------------------
(***************************************************************************)
(* What a remote run owes pytest, without requests, frames and responses:  *)
(* while it runs, single results of the host may become reports; then each *)
(* item that was not marked as reported gets, in collection order, all the *)
(* host's results or one error.                                            *)
(***************************************************************************)
EXTENDS Naturals, Sequences

CONSTANTS
  N,       \* number of items
  Said,    \* the report of each result the host may record
  Error,   \* the report of an item without results
  Red,     \* the reports that pytest counts as failures
  MayStop  \* whether failures may end the run early

VARIABLES
  recorded, \* the host's results for each item
  reports,  \* the reports of each item
  marked,   \* items reported while the run was on
  red,      \* whether pytest has counted a failure
  next,     \* the item to be settled next
  phase     \* "running", "settling" or "over"

vars == <<recorded, reports, marked, red, next, phase>>
Items == 1..N

Init ==
  /\ recorded = [i \in Items |-> <<>>] /\ reports = [i \in Items |-> <<>>]
  /\ marked = {} /\ red = FALSE
  /\ next = 1 /\ phase = "running"

Record(i, r) ==
  /\ recorded' = [recorded EXCEPT ![i] = Append(@, r)]
  /\ UNCHANGED <<reports, marked, red, next, phase>>

\* One or more reports of an item; a red one is never forgotten.
Tell(i, new) ==
  /\ reports' = [reports EXCEPT ![i] = @ \o new]
  /\ red' = (red \/ \E n \in DOMAIN new : new[n] \in Red)

\* A result that the host has recorded after all those reported so far.
Stream(i) ==
  /\ phase = "running"
  /\ \E n \in DOMAIN recorded[i] :
       /\ \A k \in DOMAIN reports[i], m \in DOMAIN recorded[i] :
            reports[i][k] = Said[recorded[i][m]] => m < n
       /\ Tell(i, <<Said[recorded[i][n]]>>)
  /\ marked' \in {marked, marked \cup {i}}
  /\ UNCHANGED <<recorded, next, phase>>

\* An answer may come with collection errors; with the last one the run ends.
Answer ==
  /\ phase = "running"
  /\ phase' \in {"running", "settling"} /\ red' \in {red, TRUE}
  /\ UNCHANGED <<recorded, reports, marked, next>>

All(i) == [n \in DOMAIN recorded[i] |-> Said[recorded[i][n]]]

Settle ==
  /\ phase = "settling" /\ next <= N
  /\ IF next \in marked
       THEN UNCHANGED <<reports, red>>
       ELSE \E new \in {<<Error>>, All(next)} \ {<<>>} : Tell(next, new)
  /\ next' = next + 1
  /\ UNCHANGED <<recorded, marked, phase>>

End ==
  /\ phase = "settling" /\ (next > N \/ (MayStop /\ red))
  /\ phase' = "over"
  /\ UNCHANGED <<recorded, reports, marked, red, next>>

Next ==
  \/ \E i \in Items, r \in DOMAIN Said : Record(i, r)
  \/ \E i \in Items : Stream(i)
  \/ Answer \/ Settle \/ End

Spec == Init /\ [][Next]_vars
=============================================================================
