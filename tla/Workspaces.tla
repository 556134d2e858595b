------------------------------ MODULE Workspaces ------------------------------
(* The active workspace (workspaces/manager.py, workspaces/utils.py): a marker  *)
(* in a file, which every program reads at each access to what it stores.       *)
CONSTANTS
    Programs,       \* places for programs to run
    Workspaces,
    NoWorkspace

VARIABLE active     \* workspaces/.active

(* What is stored is stored for a workspace, or for none.                       *)
Scopes == Workspaces \cup {NoWorkspace}

WorkspacesInit == active = NoWorkspace

(* /workspace NAME and `pentestagent workspace NAME`.                           *)
SetActive(w) == w # active /\ active' = w

(* /workspace clear and `pentestagent workspace clear`.                         *)
ClearActive == active # NoWorkspace /\ active' = NoWorkspace

SwitchWorkspace == ClearActive \/ \E w \in Workspaces : SetActive(w)
===============================================================================
