---------------------------- MODULE MCServices ----------------------------
(***************************************************************************)
(* The parts of the control plane around a run that share no state with    *)
(* each other: plans and their compilation, accounts, the documents and    *)
(* their stores, and the WebSocket hub.  In a behaviour one of them moves; *)
(* a step of another would commute with every step of it.                  *)
(***************************************************************************)
EXTENDS MCPlans, Accounts, Workspace, WsHub, TLC

CONSTANTS c1, c2   \* callers

VARIABLE part

MCAlone == {{"UpdateUser", "DeleteUser"}, {"Setup", "Login", "ChangePassword", "UpdateUser"}}
Symmetry == Permutations({c1, c2})

NoJob == [kind |-> "none"]

MCInit ==
  /\ part \in {"plans", "accounts", "workspace", "hub"}
  /\ IF part = "plans" THEN Init ELSE job = NoJob /\ Unmade
  /\ AccountsInit /\ WorkspaceInit /\ WsInit

MCNext ==
  \/ part = "plans" /\ Next /\ UNCHANGED <<part, accountVars, workspaceVars, wsVars>>
  \/ part = "accounts" /\ AccountsNext /\ UNCHANGED <<part, vars, workspaceVars, wsVars>>
  \/ part = "workspace" /\ WorkspaceNext /\ UNCHANGED <<part, vars, accountVars, wsVars>>
  \/ part = "hub" /\ WsNext /\ UNCHANGED <<part, vars, accountVars, workspaceVars>>

MCSpec == MCInit /\ [][MCNext]_<<part, vars, accountVars, workspaceVars, wsVars>>

\* The type invariants of the parts.
ServicesTypeOK == TypeOK /\ AccountsTypeOK /\ WorkspaceTypeOK /\ WsTypeOK
=============================================================================
