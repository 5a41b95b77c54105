------------------------------ MODULE Workspace ------------------------------
(***************************************************************************)
(* The repositories and the development sessions of one user together:     *)
(* they share the process, which ends under both at once.                  *)
(***************************************************************************)
EXTENDS DevSessions

allVars == <<vars, devVars, devHistory>>

WorkspaceInit == Init /\ DevInit

\* Sessions leave the repositories alone; they count against the same bounds.
reposKept ==
    UNCHANGED <<repoVars, reported, shallow, granted, overreached, straddled, excused>>

WorkspaceNext ==
    \/ RepoSteps /\ UNCHANGED <<devVars, devHistory>>
    \/ Restarts /\ DevRestarts
    \/ DevBegins /\ reposKept /\ UNCHANGED faults
    \/ DevFails /\ reposKept /\ UNCHANGED begun
    \/ DevSteps /\ reposKept /\ UNCHANGED <<begun, faults>>

WorkspaceSpec == WorkspaceInit /\ [][WorkspaceNext]_allVars
=============================================================================
