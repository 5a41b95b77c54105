----------------------------- MODULE MCWorkspace -----------------------------
(* An instance of Workspace: the vault and a repository the agent added,   *)
(* two calls, one edit; two branches, whose sessions share one file, two   *)
(* calls of the dev tools, one change.                                     *)
EXTENDS Workspace, TLC

CONSTANTS v, r1, t1, t2, e1, b1, b2, d1, d2, x1, o1

MCRepos == {v, r1}
MCDeclared == {v}
MCCalls == {t1, t2}
MCEdits == {e1}
MCBranches == {b1, b2}
MCOwners == {o1}
MCDevCalls == {d1, d2}
MCChanges == {x1}
MCSymmetry == Permutations(MCCalls) \cup Permutations(MCDevCalls)
=============================================================================
