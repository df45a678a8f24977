------------------------- MODULE MCPermissionService -------------------------
(* Three requests of two sessions.  An "always" to r2 saves a pattern that *)
(* covers r1; one to r1 saves a pattern that covers r2 in part, and the    *)
(* file of r3, which the second session's agent denies.                    *)
EXTENDS PermissionService, TLC

Users == Permutations(User)

Requests == {"r1", "r2", "r3"}
Sessions == {"s1", "s2"}
Files == {"a", "b", "secret"}
SessionOfRequest == [r \in Requests |-> IF r = "r3" THEN "s2" ELSE "s1"]
FilesOf == [r1 |-> {"a"}, r2 |-> {"a", "b"}, r3 |-> {"secret"}]
Saves == [r1 |-> {{"a", "secret"}}, r2 |-> {{"a", "b"}}, r3 |-> {}]
Rules == [s1 |-> <<>>, s2 |-> <<[matches |-> {"secret"}, effect |-> "deny"]>>]
==============================================================================
