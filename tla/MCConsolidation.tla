--------------------------- MODULE MCConsolidation ---------------------------
(* Instances of Consolidation for TLC. *)
EXTENDS Consolidation

\* Two events may share a timestamp.
StampsWithTie == [e \in Event |-> IF e <= 2 THEN e ELSE e - 1]

\* Every event has a timestamp of its own.
DistinctStamps == [e \in Event |-> e]

\* The first event has a hint, the others are for the language model.
FirstHints == [e \in Event |-> IF e = 1 THEN "topic" ELSE NoTopic]

\* All events speak of one topic.
OneTopic == [e \in Event |-> "topic"]

=============================================================================
