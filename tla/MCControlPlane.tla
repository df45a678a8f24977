---------------------------- MODULE MCControlPlane ----------------------------
(* Instances of ControlPlane for TLC. *)
EXTENDS ControlPlane, TLC

\* Tasks and requests are interchangeable; jobs and approvals are numbered.
Symmetry == Permutations(Task) \cup Permutations(Req)

=============================================================================
