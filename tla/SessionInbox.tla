----------------------------- MODULE SessionInbox -----------------------------
(***************************************************************************)
(* The table of prompts of one session (session/input.ts).  A prompt is    *)
(* admitted once, with the number of its event, and promoted once, when a  *)
(* drain takes it up and it becomes a message.  Steering prompts are taken *)
(* between turns; queued prompts one at a time, when all else is done.     *)
(***************************************************************************)
EXTENDS Integers

CONSTANTS Prompt   \* identifiers that clients give to prompts

Delivery == {"steer", "queue"}

\* seq is 0 before the prompt is admitted; the event that created the session
\* has number 0.  promoted is 0 until the prompt is promoted.
Entry == [seq : Nat, delivery : Delivery, promoted : Nat]

Inbox == [Prompt -> Entry]

EmptyInbox == [p \in Prompt |-> [seq |-> 0, delivery |-> "steer", promoted |-> 0]]

IsAdmitted(inbox, p) == inbox[p].seq > 0

IsPending(inbox, p) == IsAdmitted(inbox, p) /\ inbox[p].promoted = 0

PendingOf(inbox, d) == {p \in Prompt : IsPending(inbox, p) /\ inbox[p].delivery = d}

HasPending(inbox, d) == PendingOf(inbox, d) # {}

\* A prompt that is there already is returned as it is.
AdmitResult(inbox, p, d, n) ==
  IF IsAdmitted(inbox, p) THEN inbox
  ELSE [inbox EXCEPT ![p] = [seq |-> n, delivery |-> d, promoted |-> 0]]

\* Mutant of IsFirst: the rows are not ordered.
IsAny(inbox, p, d, cutoff) == p \in PendingOf(inbox, d) /\ inbox[p].seq <= cutoff

\* The prompts of one delivery up to a cutoff, oldest first.
IsFirst(inbox, p, d, cutoff) ==
  /\ p \in PendingOf(inbox, d) /\ inbox[p].seq <= cutoff
  /\ \A q \in PendingOf(inbox, d) : inbox[p].seq <= inbox[q].seq

PromoteResult(inbox, p, n) == [inbox EXCEPT ![p].promoted = n]

===============================================================================
