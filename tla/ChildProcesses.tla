---------------------------- MODULE ChildProcesses ----------------------------
(* How a parent agent starts and ends child agents (tools/mcp_agent.py), and    *)
(* what its MCP manager keeps of them (mcp/manager.py).  The calls of one       *)
(* response run at the same time, and each stops at every await.  A child is    *)
(* known by the call that spawns it.                                            *)
EXTENDS Naturals, FiniteSets

CONSTANTS
    Children,       \* calls of spawn_mcp_agent and /spawn
    Despawns,       \* calls of despawn_mcp_agent and /despawn
    NoChild

VARIABLES
    spawns,         \* what each spawn is at, and server_name
    despawns,       \* what each despawn is at, its server and its process
    servers,        \* manager.servers: the child that is connected under a name
    childProcesses, \* manager._child_processes
    watchers,       \* manager._notification_watchers
    tools,          \* tools of the agent: of which name, from which child
    running,        \* processes of children that run
    fifos,          \* children whose pipes and directory exist
    terminals       \* panels in the interface: a name and the child it shows

spawnVars == <<spawns, fifos>>
managerVars == <<servers, childProcesses, watchers>>
childVars == <<spawns, despawns, managerVars, tools, running, fifos, terminals>>

Names == 1 .. Cardinality(Children)     \* child_agent_N
NoSpawn == [step |-> "no", name |-> 0]
NoDespawn == [step |-> "no", name |-> 0, server |-> NoChild, process |-> NoChild]

ChildrenInit ==
    /\ spawns = [c \in Children |-> NoSpawn]
    /\ despawns = [d \in Despawns |-> NoDespawn]
    /\ servers = [n \in Names |-> NoChild]
    /\ childProcesses = servers /\ watchers = servers
    /\ tools = {} /\ running = {} /\ fifos = {} /\ terminals = {}

SpawnMoves(c, step) == spawns' = [spawns EXCEPT ![c].step = step]
DespawnMoves(d, step) == despawns' = [despawns EXCEPT ![d].step = step]

-------------------------------------------------------------------------------
(* spawn_child_agent.                                                           *)

(* One more than there are, and on to the first that is free.                   *)
NextName ==
    LET taken == {n \in Names : servers[n] # NoChild}
        free == {n \in Names : n > Cardinality(taken) /\ n \notin taken}
    IN  CHOOSE n \in free : \A m \in free : n <= m

Spawn(c) ==
    /\ spawns[c].step = "no"
    /\ spawns' = [spawns EXCEPT ![c] = [step |-> "launching", name |-> NextName]]
    /\ fifos' = fifos \cup {c}
    /\ UNCHANGED <<despawns, managerVars, tools, running, terminals>>

Launched(c) ==
    /\ spawns[c].step = "launching"
    /\ running' = running \cup {c}
    /\ childProcesses' = [childProcesses EXCEPT ![spawns[c].name] = c]
    /\ terminals' = terminals \cup {<<spawns[c].name, c>>}
    /\ SpawnMoves(c, "connecting")
    /\ UNCHANGED <<despawns, servers, watchers, tools, fifos>>

LaunchFails(c) ==
    /\ spawns[c].step = "launching"
    /\ fifos' = fifos \ {c}
    /\ SpawnMoves(c, "failed")
    /\ UNCHANGED <<despawns, managerVars, tools, running, terminals>>

(* The handshake is over; the rest has no await.                                *)
Connected(c) ==
    /\ spawns[c].step = "connecting" /\ c \in running
    /\ LET n == spawns[c].name
       IN  /\ servers' = [servers EXCEPT ![n] = c]
           /\ watchers' = [watchers EXCEPT ![n] = c]
           /\ tools' = tools \cup {<<n, c>>}
    /\ SpawnMoves(c, "spawned")
    /\ UNCHANGED <<despawns, childProcesses, running, fifos, terminals>>

(* It takes too long, the child is gone, or the operator cancels the agent.     *)
ConnectFails(c) ==
    /\ spawns[c].step = "connecting"
    /\ SpawnMoves(c, "failed")
    /\ UNCHANGED <<despawns, managerVars, tools, running, fifos, terminals>>

-------------------------------------------------------------------------------
(* despawn_child_agent.                                                         *)

Despawn(d, n) ==
    /\ despawns[d].step = "no"
    /\ servers[n] # NoChild
    /\ tools' = {t \in tools : t[1] # n}
    /\ despawns' = [despawns EXCEPT ![d] =
         [step |-> "terminating", name |-> n, server |-> servers[n], process |-> childProcesses[n]]]
    /\ childProcesses' = [childProcesses EXCEPT ![n] = NoChild]
    /\ UNCHANGED <<spawnVars, servers, watchers, running, terminals>>

(* The process has ended, by itself or killed, and the watcher is cancelled.    *)
Terminated(d) ==
    /\ despawns[d].step = "terminating"
    /\ running' = running \ {despawns[d].process}
    /\ watchers' = [watchers EXCEPT ![despawns[d].name] = NoChild]
    /\ DespawnMoves(d, "disconnecting")
    /\ UNCHANGED <<spawnVars, servers, childProcesses, tools, terminals>>

(* The end of the call: the pipes of the server that was found at its start go, *)
(* and the first panel of that name.                                            *)
CleanUp(d) ==
    LET panels == {t \in terminals : t[1] = despawns[d].name}
    IN  /\ fifos' = fifos \ {despawns[d].server}
        /\ IF panels = {} THEN UNCHANGED terminals
                          ELSE \E t \in panels : terminals' = terminals \ {t}
        /\ DespawnMoves(d, "despawned")

(* disconnect_server closes the server that has the name by now ...             *)
Disconnect(d) ==
    /\ despawns[d].step = "disconnecting"
    /\ IF servers[despawns[d].name] = NoChild
         THEN CleanUp(d)
         ELSE DespawnMoves(d, "closing") /\ UNCHANGED <<fifos, terminals>>
    /\ UNCHANGED <<spawns, managerVars, tools, running>>

(* ... and deletes the name, which raises if that is gone in the meantime.      *)
Disconnected(d) ==
    /\ despawns[d].step = "closing"
    /\ IF servers[despawns[d].name] = NoChild
         THEN DespawnMoves(d, "failed") /\ UNCHANGED <<servers, fifos, terminals>>
         ELSE /\ servers' = [servers EXCEPT ![despawns[d].name] = NoChild]
              /\ CleanUp(d)
    /\ UNCHANGED <<spawns, childProcesses, watchers, tools, running>>

(* The operator cancels the agent.                                              *)
DespawnCancelled(d) ==
    /\ despawns[d].step \in {"terminating", "disconnecting", "closing"}
    /\ DespawnMoves(d, "cancelled")
    /\ UNCHANGED <<spawnVars, managerVars, tools, running, terminals>>

(* The child ends by itself.                                                    *)
ChildEnds(c) ==
    /\ running' = running \ {c}
    /\ UNCHANGED <<spawnVars, despawns, managerVars, tools, terminals>>

ChildrenNext ==
    \/ \E c \in Children :
         \/ Spawn(c) \/ Launched(c) \/ LaunchFails(c)
         \/ Connected(c) \/ ConnectFails(c) \/ ChildEnds(c)
    \/ \E d \in Despawns :
         \/ \E n \in Names : Despawn(d, n)
         \/ Terminated(d) \/ Disconnect(d) \/ Disconnected(d)
         \/ DespawnCancelled(d)

-------------------------------------------------------------------------------
(* README.md:247-259: "spawn two isolated child agents", two calls of one turn, *)
(* after which there are child_agent_1 and child_agent_2.  Children that are    *)
(* spawned and have not been given up have names of their own.                  *)
ChildrenHaveTheirOwnNames ==
    \A c, d \in running :
        spawns[c].step = "spawned" /\ spawns[d].step = "spawned"
            /\ spawns[c].name = spawns[d].name => c = d
===============================================================================
