SPECIFICATION McpSpec
CONSTANTS
    Children = {c1, c2, c3}
    Despawns = {d1}
    NoChild = none
    Servers = {s1, s2}
    ServerTasks = {t1, t2}
    Editors = {e1}
    Connections = {k1, k2, k3}
    NoServer = NoServer
    NoConnection = NoConnection
INVARIANT ChildrenHaveTheirOwnNames
CHECK_DEADLOCK FALSE
