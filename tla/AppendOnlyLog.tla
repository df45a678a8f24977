---------------------------- MODULE AppendOnlyLog ----------------------------
(***************************************************************************)
(* What the synchronized event tables promise: every aggregate has one log *)
(* that only grows at its end, until it is removed as a whole, and an      *)
(* event is in one place of one log.                                       *)
(***************************************************************************)
EXTENDS Integers

CONSTANTS Aggregate, EventId

VARIABLES
  last,  \* the last place of each log that is taken, -1 when there is none
  log    \* the event at each of the places 0, 1, ..., last

vars == <<last, log>>

Logged(id) == \E a \in Aggregate : \E n \in 0..last[a] : log[a][n] = id

Init ==
  /\ last = [a \in Aggregate |-> -1]
  /\ log = [a \in Aggregate |-> [n \in 0..-1 |-> n]]

Append(a, id) ==
  /\ ~Logged(id)
  /\ last' = [last EXCEPT ![a] = @ + 1]
  /\ log' = [log EXCEPT ![a] = [n \in 0..(last[a] + 1) |->
                                  IF n = last[a] + 1 THEN id ELSE log[a][n]]]

Remove(a) ==
  /\ last' = [last EXCEPT ![a] = -1]
  /\ log' = [log EXCEPT ![a] = [n \in 0..-1 |-> n]]

Next == \E a \in Aggregate : Remove(a) \/ \E id \in EventId : Append(a, id)

Spec == Init /\ [][Next]_vars

=============================================================================
