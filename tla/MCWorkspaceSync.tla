---------------------------- MODULE MCWorkspaceSync ----------------------------
(* The instance of WorkspaceSync for TLC: the workspaces are interchangeable. *)
EXTENDS WorkspaceSync, TLC

CONSTANTS c, s, p, w1, w2

MCWorkspace == {w1, w2}
MCOwner == {w1, w2, p}
Workspaces == Permutations(MCWorkspace)

===============================================================================
