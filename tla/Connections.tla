----------------------------- MODULE Connections -----------------------------
(***************************************************************************)
(* The two kinds of outside service a user connects, remote MCP servers    *)
(* and the OAuth packages' credential sets, as they share the callback     *)
(* server, its reaper and the process.                                     *)
(***************************************************************************)
EXTENDS RemoteMCP, Credentials

\* A flow belongs to one of the two.
ASSUME ConnectionsAssumption == SignIns \cap 1..MaxAdds = {}

connectionVars == <<callbackVars, budget, faults, remoteVars, credentialVars>>

ConnectionsInit == CallbackInit /\ RemoteInit /\ CredentialsInit

FlowsAge ==
    /\ \/ \E f \in Flows : FlowAges(f) \/ ReaperSees(f)
       \/ ReaperFails
    /\ UNCHANGED <<budget, faults, remoteVars, credentialVars>>

\* The process ends, for whatever reason or because the reaper closed a
\* flow's channel a second time, and starts again.
Restarts ==
    /\ \/ lapses /\ CallbackLost
       \/ ReaperPanics /\ faults' = MaxFaults
    /\ RemoteRestart
    /\ CredentialsRestart
    /\ UNCHANGED budget

ConnectionsNext ==
    \/ RemoteNext /\ UNCHANGED credentialVars
    \/ CredentialsNext /\ UNCHANGED remoteVars
    \/ FlowsAge
    \/ Restarts

ConnectionsSpec == ConnectionsInit /\ [][ConnectionsNext]_connectionVars

(* What may be used once is used once: an authorization is answered, and a *)
(* refresh token presented, a single time.                                 *)
UsedOnce == AnsweredOnce /\ RefreshedOnce

(* A registered remote server is one server under one list of channels,    *)
(* and the agent is told when either changes.                              *)
RegistrationHolds == LocksOK /\ OneServer /\ NeverEverywhere /\ ChangeIsAnnounced

(* The tokens of a credential set live exactly as long as the set: no      *)
(* refresh spoils them and no removal leaves them behind.                  *)
GrantFollowsSet == GrantSurvives /\ NoOrphanGrant

=============================================================================
