------------------------------ MODULE McpServers ------------------------------
(* The servers of the MCP manager (mcp/manager.py): those of mcp_servers.json,   *)
(* which programs read and write whole, and those of child agents. Tasks of the  *)
(* interface connect and disconnect them, and stop at every await.               *)
EXTENDS ChildProcesses

CONSTANTS
    Servers,        \* names in the configuration
    ServerTasks,    \* tasks of the interface that connect or disconnect
    Editors,        \* programs that change the configuration, and /mcp add
    Connections,    \* transports: a process or a stream each
    NoServer, NoConnection

VARIABLES
    config,         \* mcp_servers.json, and whether it can be read
    edits,          \* the change each editor is in
    entries,        \* manager.servers, of the configuration: an object each
    objects,        \* of MCPServer: its transport, connected, config.enabled
    connections,    \* the transports that were made, of which server
    serverTasks,    \* what each task is at
    offered,        \* servers whose tools the agent has
    added           \* history: servers that were added and not removed

configVars == <<config, edits, added>>
connectionVars == <<entries, objects, connections, serverTasks, offered>>
\* What a reconnection leaves alone of the children: all but their servers.
otherChildVars == <<spawnVars, despawns, childProcesses, watchers, tools, running, terminals>>
mcpVars == <<childVars, configVars, connectionVars>>

NoServers == [s \in Servers |-> "absent"]
NoEdit == [step |-> "no", servers |-> NoServers, of |-> NoServer]
\* An object is known by the transport that was tried for it first.
NoObject == [connection |-> NoConnection, connected |-> FALSE, enabled |-> FALSE]
NoTask == [step |-> "no", kind |-> "none", closing |-> {}, left |-> {}, server |-> NoServer,
           object |-> NoConnection, connection |-> NoConnection, gathered |-> {}]

\* The interface starts with some servers configured, some of them disabled.
McpInit ==
    /\ ChildrenInit
    /\ config \in [whole : {TRUE}, servers : [Servers -> {"absent", "on", "off"}]]
    /\ added = {s \in Servers : config.servers[s] # "absent"}
    /\ edits = [e \in Editors |-> NoEdit]
    /\ entries = [s \in Servers |-> NoConnection]
    /\ objects = [k \in Connections |-> NoObject]
    /\ connections = [k \in Connections |-> [server |-> NoServer, state |-> "unused"]]
    /\ serverTasks = [t \in ServerTasks |-> NoTask]
    /\ offered = {}

-------------------------------------------------------------------------------
(* The configuration.                                                           *)

(* _load_config: one that cannot be read has no servers.                        *)
Configured == IF config.whole THEN config.servers ELSE NoServers
Enabled == {s \in Servers : Configured[s] = "on"}

(* add_stdio_server, add_sse_server and remove_server: read, change, write.      *)
ChangeConfig(e, s, state) ==
    edits' = [edits EXCEPT ![e] =
        [step |-> "writes", servers |-> [Configured EXCEPT ![s] = state], of |-> s]]

AddServer(e, s) ==
    /\ edits[e].step = "no"
    /\ ChangeConfig(e, s, "on")
    /\ UNCHANGED <<config, added, connectionVars, childVars>>

RemoveServer(e, s) ==
    /\ edits[e].step = "no"
    /\ Configured[s] # "absent"
    /\ ChangeConfig(e, s, "absent")
    /\ UNCHANGED <<config, added, connectionVars, childVars>>

(* _save_config empties the file and fills it. A kill may come in between.      *)
EmptiesConfig(e) ==
    /\ edits[e].step = "writes"
    /\ config' = [config EXCEPT !.whole = FALSE]
    /\ edits' = [edits EXCEPT ![e].step = "fills"]
    /\ UNCHANGED <<added, connectionVars, childVars>>

FillsConfig(e) ==
    /\ edits[e].step = "fills"
    /\ config' = [whole |-> TRUE, servers |-> edits[e].servers]
    /\ edits' = [edits EXCEPT ![e] = NoEdit]
    /\ LET s == edits[e].of
       IN  added' = IF edits[e].servers[s] = "absent" THEN added \ {s} ELSE added \cup {s}
    /\ UNCHANGED <<connectionVars, childVars>>

EditorKilled(e) ==
    /\ edits[e].step # "no"
    /\ edits' = [edits EXCEPT ![e] = NoEdit]
    /\ UNCHANGED <<config, added, connectionVars, childVars>>

-------------------------------------------------------------------------------
(* Tasks of the interface.                                                      *)

Task(t, new) == serverTasks' = [serverTasks EXCEPT ![t] = new]
Toggling == \E t \in ServerTasks :
    serverTasks[t].kind \in {"enable", "disable"} /\ serverTasks[t].step # "over"

(* A task with servers to connect, or none.                                     *)
Connects(task) == [task EXCEPT !.step = IF task.left = {} THEN "over" ELSE "connects"]

(* _load_mcp, at the start of the interface: the configuration is read once.     *)
Load(t) ==
    /\ \A u \in ServerTasks : serverTasks[u].kind # "load"
    /\ serverTasks[t].step = "no"
    /\ Task(t, Connects([NoTask EXCEPT !.kind = "load", !.left = Enabled]))
    /\ UNCHANGED <<entries, objects, connections, offered, configVars, childVars>>

(* /mcp add, after AddServer has written: connect_server reads it again, and      *)
(* connects the server whether it was connected before or not.                   *)
ConnectAdded(t, s) ==
    /\ serverTasks[t].step = "no"
    /\ s \in Enabled
    /\ Task(t, [NoTask EXCEPT !.step = "connects", !.kind = "add", !.left = {s}])
    /\ UNCHANGED <<entries, objects, connections, offered, configVars, childVars>>

(* The button of the MCP screen, whose presses are handled in turn. The screen    *)
(* shows what a server was when it opened, enabled or not.                       *)
Enable(t, s) ==
    /\ serverTasks[t].step = "no" /\ ~Toggling
    /\ entries[s] # NoConnection
    /\ objects' = [objects EXCEPT ![entries[s]].enabled = TRUE]
    /\ Task(t, [NoTask EXCEPT !.step = "connects", !.kind = "enable", !.left = {s}])
    /\ UNCHANGED <<entries, connections, offered, configVars, childVars>>

(* MCPServer.disconnect, of an object that is connected.                         *)
Closing(t, task, o) ==
    /\ objects[o].connected
    /\ connections' = [connections EXCEPT ![objects[o].connection].state = "closing"]
    /\ Task(t, [task EXCEPT !.step = "closes", !.closing = @ \ {o}, !.object = o,
                            !.connection = objects[o].connection])

Disable(t, s) ==
    /\ serverTasks[t].step = "no" /\ ~Toggling
    /\ entries[s] # NoConnection
    /\ offered' = offered \ {s}
    /\ \/ Closing(t, [NoTask EXCEPT !.kind = "disable"], entries[s]) /\ UNCHANGED objects
       \/ /\ ~objects[entries[s]].connected
          /\ objects' = [objects EXCEPT ![entries[s]].enabled = FALSE]
          /\ Task(t, [NoTask EXCEPT !.step = "over", !.kind = "disable"])
          /\ UNCHANGED connections
    /\ UNCHANGED <<entries, configVars, childVars>>

(* reconnect_all, after Stop. disconnect_all closes the objects it found at its    *)
(* start, then drops all that are there by now, and connect_all reads the         *)
(* configuration; where nothing is awaited, that is one step.                    *)
GoesOn(t, task) ==
    \/ \E o \in task.closing : Closing(t, task, o) /\ UNCHANGED <<entries, servers>>
    \/ /\ \A o \in task.closing : ~objects[o].connected
       /\ entries' = [s \in Servers |-> NoConnection]
       /\ servers' = [n \in Names |-> NoChild]
       /\ Task(t, Connects([task EXCEPT !.closing = {}, !.left = Enabled]))
       /\ UNCHANGED connections

Reconnect(t) ==
    /\ serverTasks[t].step = "no"
    /\ GoesOn(t, [NoTask EXCEPT !.kind = "reconnect",
                    !.closing = {entries[s] : s \in Servers} \ {NoConnection}])
    /\ UNCHANGED <<objects, offered, configVars, otherChildVars>>

(* The transport has closed: the object is not connected, and disabled if that    *)
(* was asked.                                                                    *)
Closed(t) ==
    /\ serverTasks[t].step = "closes"
    /\ LET task == serverTasks[t]
           disables == task.kind = "disable"
       IN  /\ connections' = [connections EXCEPT ![task.connection].state = "closed"]
           /\ objects' = [objects EXCEPT ![task.object].connected = FALSE,
                                         ![task.object].enabled = @ /\ ~disables]
           /\ Task(t, [task EXCEPT !.step = IF disables THEN "over" ELSE "disconnects"])
    /\ UNCHANGED <<entries, offered, configVars, childVars>>

Disconnects(t) ==
    /\ serverTasks[t].step = "disconnects"
    /\ GoesOn(t, serverTasks[t])
    /\ UNCHANGED <<objects, offered, configVars, otherChildVars>>

(* _connect_server: the transport, the handshake and the list of tools.          *)
Opens(t, s, k) ==
    /\ serverTasks[t].step = "connects" /\ s \in serverTasks[t].left
    /\ connections[k].state = "unused"
    /\ connections' = [connections EXCEPT ![k] = [server |-> s, state |-> "opening"]]
    /\ Task(t, [serverTasks[t] EXCEPT !.step = "opens", !.left = @ \ {s}, !.server = s,
                                      !.connection = k])
    /\ UNCHANGED <<entries, objects, offered, configVars, childVars>>

(* What becomes of a server that was connected, or failed to be. To enable one    *)
(* overwrites the object that has its name by now; if none has, it is a KeyError. *)
Keep(t, connected) ==
    LET s == serverTasks[t].server
        k == serverTasks[t].connection
        new == [connection |-> IF connected THEN k ELSE NoConnection,
                connected |-> connected, enabled |-> TRUE]
    IN  IF serverTasks[t].kind = "enable"
          THEN /\ objects' = IF entries[s] # NoConnection THEN [objects EXCEPT ![entries[s]] = new]
                                                        ELSE objects
               /\ UNCHANGED entries
          ELSE objects' = [objects EXCEPT ![k] = new] /\ entries' = [entries EXCEPT ![s] = k]

(* The tools of the loaded servers are added when all are loaded, those of one    *)
(* that was added or enabled now, and those of a reconnected one never.           *)
Opened(t) ==
    /\ serverTasks[t].step = "opens"
    /\ connections' = [connections EXCEPT ![serverTasks[t].connection].state = "open"]
    /\ Keep(t, TRUE)
    /\ LET task == [serverTasks[t] EXCEPT !.gathered = @ \cup {serverTasks[t].server}]
           adds == \/ task.kind = "add"
                   \/ task.kind = "enable" /\ entries[task.server] # NoConnection
                   \/ task.kind = "load" /\ task.left = {}
       IN  /\ offered' = IF adds THEN offered \cup task.gathered ELSE offered
           /\ Task(t, Connects(task))
    /\ UNCHANGED <<configVars, childVars>>

OpenFails(t) ==
    /\ serverTasks[t].step = "opens"
    /\ connections' = [connections EXCEPT ![serverTasks[t].connection].state = "closed"]
    /\ Keep(t, FALSE)
    /\ offered' = IF serverTasks[t].kind = "load" /\ serverTasks[t].left = {}
                    THEN offered \cup serverTasks[t].gathered ELSE offered
    /\ Task(t, Connects(serverTasks[t]))
    /\ UNCHANGED <<configVars, childVars>>

ConfigStep(e) ==
    \/ EmptiesConfig(e) \/ FillsConfig(e) \/ EditorKilled(e)
    \/ \E s \in Servers : AddServer(e, s) \/ RemoveServer(e, s)

ServerStep(t) ==
    \/ Load(t) \/ Reconnect(t) \/ Disconnects(t) \/ Closed(t) \/ Opened(t) \/ OpenFails(t)
    \/ \E s \in Servers : ConnectAdded(t, s) \/ Enable(t, s) \/ Disable(t, s)
    \/ \E s \in Servers, k \in Connections : Opens(t, s, k)

ChildStep == ChildrenNext /\ UNCHANGED <<configVars, connectionVars>>

McpNext ==
    \/ \E e \in Editors : ConfigStep(e)
    \/ \E t \in ServerTasks : ServerStep(t)
    \/ ChildStep

McpSpec == McpInit /\ [][McpNext]_mcpVars

-------------------------------------------------------------------------------
(* mcp/manager.py:400: "Response routing issues". A call of a tool goes by the   *)
(* name of its server: what is connected under a name was opened for it, is not  *)
(* open under another, and is open until somebody closes it.                     *)
CallsReachTheirServer ==
    \A s \in Servers : LET o == entries[s] IN
        o # NoConnection /\ objects[o].connected =>
            /\ objects[o].connection \in Connections
            /\ connections[objects[o].connection].server = s
            /\ connections[objects[o].connection].state \in {"open", "closing"}

(* mcp/manager.py:431: "Useful after cancellation leaves servers in a bad state".*)
(* What is open is known to the manager, which alone can close it, or to a task   *)
(* that is about to.                                                             *)
OpenAreKnown ==
    LET known == {entries[s] : s \in Servers} \cup UNION {serverTasks[t].closing : t \in ServerTasks}
    IN  \A k \in Connections :
            connections[k].state = "open"
                => \E o \in known \ {NoConnection} : objects[o].connection = k

(* `pentestagent mcp add' "Added MCP server": it is there until it is removed.   *)
AddedAreConfigured ==
    (\A e \in Editors : edits[e].step = "no")
        => \A s \in added : Configured[s] # "absent"
===============================================================================
