----------------------------- MODULE ApprovalGate -----------------------------
(***************************************************************************)
(* What the approval gate promises to a hand that asks before a            *)
(* destructive action, and to the people who answer: whatever happens to   *)
(* jobs, requests and processes in between, a question gets at most one    *)
(* answer, the answer never changes, and "allow" is only ever given after  *)
(* a person granted that very question.  A timeout may deny a question     *)
(* that is being granted: a grant does not oblige the gate to allow.       *)
(***************************************************************************)
CONSTANT Approval

VARIABLES
  asked,     \* the questions put to the user
  granted,   \* the questions a person has answered with yes
  answer     \* what the hand that asked was told: "none", "allow" or "deny"

vars == <<asked, granted, answer>>

Init ==
  /\ asked = {}
  /\ granted = {}
  /\ answer = [a \in Approval |-> "none"]

Ask(a) ==
  /\ a \notin asked
  /\ asked' = asked \cup {a}
  /\ UNCHANGED <<granted, answer>>

Grant(a) ==
  /\ a \in asked
  /\ granted' = granted \cup {a}
  /\ UNCHANGED <<asked, answer>>

Allow(a) ==
  /\ a \in granted
  /\ answer[a] = "none"
  /\ answer' = [answer EXCEPT ![a] = "allow"]
  /\ UNCHANGED <<asked, granted>>

Deny(a) ==
  /\ a \in asked
  /\ answer[a] = "none"
  /\ answer' = [answer EXCEPT ![a] = "deny"]
  /\ UNCHANGED <<asked, granted>>

Next == \E a \in Approval : Ask(a) \/ Grant(a) \/ Allow(a) \/ Deny(a)

Spec == Init /\ [][Next]_vars

=============================================================================
