SPECIFICATION WorkspaceSpec
CONSTANTS
  Programs = {p1}
  Workspaces = {w1}
  NoWorkspace = NoWorkspace
  Interfaces = {p1}
  Names = {n1}
  Networks <- MCNetworks
  NoTarget = NoTarget
  MaxMessages = 2
  Documents = {d1}
INVARIANT AgentIsToldItsTarget
CHECK_DEADLOCK FALSE
