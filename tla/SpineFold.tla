------------------------------ MODULE SpineFold ------------------------------
(***************************************************************************)
(* What consolidation promises for each life of the process: an event of   *)
(* the spine is folded into the graph at most once, and only after it was  *)
(* recorded; an event without hints is shown to the language model at most *)
(* once, and only after the deterministic fold was done with it, so that   *)
(* the two tiers never both write for one event.  A restart may begin anew.*)
(***************************************************************************)
EXTENDS Naturals

CONSTANTS Event, Unhinted

VARIABLES
  spine,    \* events recorded
  folded,   \* how often the deterministic tier consumed each event, in this life
  shown     \* how often each event was shown to the language model, in this life

vars == <<spine, folded, shown>>

Never == [e \in Event |-> 0]

Init == spine = {} /\ folded = Never /\ shown = Never

Record(e) ==
  /\ e \notin spine
  /\ spine' = spine \cup {e}
  /\ UNCHANGED <<folded, shown>>

Fold(e) ==
  /\ e \in spine /\ folded[e] = 0
  /\ folded' = [folded EXCEPT ![e] = 1]
  /\ UNCHANGED <<spine, shown>>

Show(S) ==
  /\ \A e \in S : e \in Unhinted /\ folded[e] = 1 /\ shown[e] = 0
  /\ shown' = [e \in Event |-> IF e \in S THEN 1 ELSE shown[e]]
  /\ UNCHANGED <<spine, folded>>

Restart == folded' = Never /\ shown' = Never /\ UNCHANGED spine

Next ==
  \/ \E e \in Event : Record(e) \/ Fold(e)
  \/ \E S \in SUBSET Event : Show(S)
  \/ Restart

Spec == Init /\ [][Next]_vars

=============================================================================
