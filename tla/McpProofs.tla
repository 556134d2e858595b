------------------------------- MODULE McpProofs ------------------------------
(* Proofs about the MCP client and its servers.  First McpServers: what is     *)
(* connected under the name of a server was opened for that server, whatever   *)
(* tasks of the interface connect, close and drop at the same time.  Then      *)
(* ChildAgent: types, answers, cancelled tasks, and the promise of Delegation. *)
(* Last TaskServer: answers over standard output.                              *)
EXTENDS ChildAgent, McpServers, FiniteSetTheorems, SequenceTheorems, TLAPS

(* The null transport is none of the transports.                              *)
McpAssumption == NoConnection \notin Connections

ServerTask ==
    [step : {"no", "connects", "opens", "closes", "disconnects", "over"},
     kind : {"none", "load", "add", "enable", "disable", "reconnect"},
     closing : SUBSET Connections, left : SUBSET Servers,
     server : Servers \cup {NoServer}, object : Connections \cup {NoConnection},
     connection : Connections \cup {NoConnection}, gathered : SUBSET Servers]

McpTypes ==
    /\ entries \in [Servers -> Connections \cup {NoConnection}]
    /\ objects \in [Connections -> [connection : Connections \cup {NoConnection},
                                    connected : BOOLEAN, enabled : BOOLEAN]]
    /\ connections \in [Connections -> [server : Servers \cup {NoServer},
                            state : {"unused", "opening", "open", "closing", "closed"}]]
    /\ serverTasks \in [ServerTasks -> ServerTask]

(* A transport that is being opened has one task, and that task its server.    *)
OpeningHaveATask ==
    /\ \A t \in ServerTasks : serverTasks[t].step = "opens" =>
            /\ serverTasks[t].connection \in Connections
            /\ serverTasks[t].server \in Servers
            /\ connections[serverTasks[t].connection].server = serverTasks[t].server
            /\ connections[serverTasks[t].connection].state = "opening"
    /\ \A t, u \in ServerTasks :
            /\ serverTasks[t].step = "opens" /\ serverTasks[u].step = "opens"
            /\ serverTasks[t].connection = serverTasks[u].connection
            => t = u

(* An entry is an object that was made for its server.                         *)
EntriesOfTheirServer ==
    \A s \in Servers : entries[s] # NoConnection =>
        /\ connections[entries[s]].server = s
        /\ connections[entries[s]].state # "unused"

(* A connected object has a transport to the server it was made for, and no     *)
(* other connected object has it.                                              *)
ConnectedHaveATransport ==
    /\ \A o \in Connections : objects[o].connected =>
            /\ objects[o].connection \in Connections
            /\ connections[objects[o].connection].state \in {"open", "closing"}
            /\ connections[o].state # "unused"
            /\ connections[objects[o].connection].server = connections[o].server
    /\ \A o, p \in Connections :
            /\ objects[o].connected /\ objects[p].connected
            /\ objects[o].connection = objects[p].connection
            => o = p

(* A transport that a task closes is of no connected object but the task's.     *)
ClosingHaveTheirObject ==
    \A t \in ServerTasks : serverTasks[t].step = "closes" =>
        /\ serverTasks[t].object \in Connections
        /\ serverTasks[t].connection \in Connections
        /\ connections[serverTasks[t].connection].state \in {"open", "closing", "closed"}
        /\ \A o \in Connections :
                objects[o].connected /\ objects[o].connection = serverTasks[t].connection
                    => o = serverTasks[t].object

McpInv ==
    /\ McpTypes
    /\ OpeningHaveATask
    /\ EntriesOfTheirServer
    /\ ConnectedHaveATransport
    /\ ClosingHaveTheirObject

-------------------------------------------------------------------------------
LEMMA InitMcp == McpAssumption /\ McpInit => McpInv
<1> SUFFICES ASSUME McpAssumption, McpInit PROVE McpInv
  OBVIOUS
<1> USE DEF McpInit, NoTask, NoObject
<1>1. McpTypes
  BY DEF McpTypes, ServerTask
<1>2. OpeningHaveATask /\ EntriesOfTheirServer /\ ClosingHaveTheirObject
  BY DEF OpeningHaveATask, EntriesOfTheirServer, ClosingHaveTheirObject
<1>3. ConnectedHaveATransport
  BY DEF ConnectedHaveATransport
<1> QED
  BY <1>1, <1>2, <1>3 DEF McpInv

(* A task that neither opens nor closes a transport can be at any step.         *)
LEMMA OtherTask ==
    ASSUME McpInv, NEW t \in ServerTasks, NEW task \in ServerTask,
           task.step \notin {"opens", "closes"}, Task(t, task),
           entries' \in [Servers -> Connections \cup {NoConnection}],
           \A s \in Servers : entries'[s] \in {entries[s], NoConnection},
           UNCHANGED <<objects, connections>>
    PROVE  McpInv'
<1>1. McpTypes'
  BY DEF McpInv, McpTypes, Task
<1>2. \A u \in ServerTasks : serverTasks'[u] = IF u = t THEN task ELSE serverTasks[u]
  BY DEF McpInv, McpTypes, Task
<1>3. OpeningHaveATask'
  BY <1>2 DEF McpInv, OpeningHaveATask
<1>4. EntriesOfTheirServer'
  BY DEF McpInv, EntriesOfTheirServer
<1>5. ConnectedHaveATransport'
  BY DEF McpInv, ConnectedHaveATransport
<1>6. ClosingHaveTheirObject'
  BY <1>2 DEF McpInv, ClosingHaveTheirObject
<1> QED
  BY <1>1, <1>3, <1>4, <1>5, <1>6 DEF McpInv

(* Enabling or disabling an object says nothing of its transport.               *)
LEMMA OtherEnabled ==
    ASSUME McpInv, NEW t \in ServerTasks, NEW task \in ServerTask,
           task.step \notin {"opens", "closes"}, Task(t, task),
           NEW o \in Connections, NEW enabled \in BOOLEAN,
           objects' = [objects EXCEPT ![o].enabled = enabled],
           UNCHANGED <<entries, connections>>
    PROVE  McpInv'
<1>1. McpTypes'
  BY DEF McpInv, McpTypes, Task
<1>2. /\ \A u \in ServerTasks : serverTasks'[u] = IF u = t THEN task ELSE serverTasks[u]
      /\ \A p \in Connections : /\ objects'[p].connected = objects[p].connected
                                /\ objects'[p].connection = objects[p].connection
  BY DEF McpInv, McpTypes, Task
<1>3. OpeningHaveATask'
  BY <1>2 DEF McpInv, OpeningHaveATask
<1>4. EntriesOfTheirServer'
  BY DEF McpInv, EntriesOfTheirServer
<1>5. ConnectedHaveATransport'
  BY <1>2 DEF McpInv, ConnectedHaveATransport
<1>6. ClosingHaveTheirObject'
  BY <1>2 DEF McpInv, ClosingHaveTheirObject
<1> QED
  BY <1>1, <1>3, <1>4, <1>5, <1>6 DEF McpInv

(* The transport of a connected object begins to close.                         *)
LEMMA ClosingKeeps ==
    ASSUME McpInv, NEW t \in ServerTasks, NEW task \in ServerTask, NEW o \in Connections,
           Closing(t, task, o), UNCHANGED <<entries, objects>>
    PROVE  McpInv'
<1> DEFINE k == objects[o].connection
           new == [task EXCEPT !.step = "closes", !.closing = @ \ {o}, !.object = o,
                               !.connection = k]
<1>1. /\ objects[o].connected
      /\ connections' = [connections EXCEPT ![k].state = "closing"]
      /\ serverTasks' = [serverTasks EXCEPT ![t] = new]
  BY DEF Closing, Task
<1>2. k \in Connections /\ connections[k].state \in {"open", "closing"}
  BY <1>1 DEF McpInv, ConnectedHaveATransport
<1>3. new \in ServerTask /\ new.step = "closes" /\ new.object = o /\ new.connection = k
  BY <1>2 DEF ServerTask
<1> HIDE DEF new
<1>4. McpTypes'
  BY <1>1, <1>2, <1>3 DEF McpInv, McpTypes
<1>5. /\ \A u \in ServerTasks : serverTasks'[u] = IF u = t THEN new ELSE serverTasks[u]
      /\ \A c \in Connections : /\ connections'[c].server = connections[c].server
                                /\ c # k => connections'[c].state = connections[c].state
      /\ connections'[k].state = "closing"
  BY <1>1, <1>2 DEF McpInv, McpTypes
<1> HIDE DEF k
<1>6. OpeningHaveATask'
  BY <1>2, <1>3, <1>5 DEF McpInv, OpeningHaveATask
<1>7. EntriesOfTheirServer'
  BY <1>2, <1>5 DEF McpInv, McpTypes, EntriesOfTheirServer
<1>8. ConnectedHaveATransport'
  BY <1>2, <1>5 DEF McpInv, ConnectedHaveATransport
<1>9. ClosingHaveTheirObject'
  <2> SUFFICES ASSUME NEW u \in ServerTasks, serverTasks'[u].step = "closes"
               PROVE  /\ serverTasks'[u].object \in Connections
                      /\ serverTasks'[u].connection \in Connections
                      /\ connections'[serverTasks'[u].connection].state
                            \in {"open", "closing", "closed"}
                      /\ \A p \in Connections :
                            objects[p].connected
                              /\ objects[p].connection = serverTasks'[u].connection
                              => p = serverTasks'[u].object
    BY DEF ClosingHaveTheirObject
  <2>1. CASE u = t
    BY <2>1, <1>1, <1>2, <1>3, <1>5 DEF McpInv, ConnectedHaveATransport, k
  <2>2. CASE u # t
    BY <2>2, <1>2, <1>5 DEF McpInv, ClosingHaveTheirObject
  <2> QED
    BY <2>1, <2>2
<1> QED
  BY <1>4, <1>6, <1>7, <1>8, <1>9 DEF McpInv

(* disconnect_all closes one object, or drops all the entries.                  *)
LEMMA GoesOnKeeps ==
    ASSUME McpInv, NEW t \in ServerTasks, NEW task \in ServerTask, GoesOn(t, task),
           UNCHANGED objects
    PROVE  McpInv'
<1>1. CASE \E o \in task.closing : Closing(t, task, o) /\ UNCHANGED <<entries, servers>>
  <2>1. PICK o \in task.closing : Closing(t, task, o) /\ UNCHANGED <<entries, servers>>
    BY <1>1
  <2>2. o \in Connections
    BY DEF ServerTask
  <2> QED
    BY <2>1, <2>2, ClosingKeeps
<1>2. CASE /\ entries' = [s \in Servers |-> NoConnection]
           /\ Task(t, Connects([task EXCEPT !.closing = {}, !.left = Enabled]))
           /\ UNCHANGED connections
  <2> DEFINE new == Connects([task EXCEPT !.closing = {}, !.left = Enabled])
  <2>1. Enabled \subseteq Servers
    BY DEF Enabled
  <2>2. new \in ServerTask /\ new.step \notin {"opens", "closes"}
    BY <2>1 DEF ServerTask, Connects
  <2> QED
    BY <1>2, <2>2, OtherTask
<1> QED
  BY <1>1, <1>2 DEF GoesOn

-------------------------------------------------------------------------------
(* A task begins.                                                              *)
LEMMA NoTaskType == NoTask \in ServerTask
  BY DEF NoTask, ServerTask

LEMMA BeginsKeeps ==
    ASSUME McpAssumption, McpInv, NEW t \in ServerTasks,
           \/ Load(t) \/ Reconnect(t)
           \/ \E s \in Servers : ConnectAdded(t, s) \/ Enable(t, s) \/ Disable(t, s)
    PROVE  McpInv'
<1>1. CASE Load(t)
  <2> DEFINE new == Connects([NoTask EXCEPT !.kind = "load", !.left = Enabled])
  <2>1. new \in ServerTask /\ new.step \notin {"opens", "closes"}
    BY DEF Connects, NoTask, ServerTask, Enabled
  <2> QED
    BY <1>1, <2>1, OtherTask DEF Load, McpInv, McpTypes
<1>2. CASE Reconnect(t)
  <2> DEFINE task == [NoTask EXCEPT !.kind = "reconnect",
                          !.closing = {entries[s] : s \in Servers} \ {NoConnection}]
  <2>1. {entries[s] : s \in Servers} \ {NoConnection} \subseteq Connections
    BY DEF McpInv, McpTypes
  <2>2. task \in ServerTask
    BY <2>1 DEF NoTask, ServerTask
  <2> QED
    BY <1>2, <2>2, GoesOnKeeps DEF Reconnect
<1>3. ASSUME NEW s \in Servers, ConnectAdded(t, s) PROVE McpInv'
  <2> DEFINE new == [NoTask EXCEPT !.step = "connects", !.kind = "add", !.left = {s}]
  <2>1. new \in ServerTask /\ new.step \notin {"opens", "closes"}
    BY DEF NoTask, ServerTask
  <2> QED
    BY <1>3, <2>1, OtherTask DEF ConnectAdded, McpInv, McpTypes
<1>4. ASSUME NEW s \in Servers, Enable(t, s) PROVE McpInv'
  <2> DEFINE new == [NoTask EXCEPT !.step = "connects", !.kind = "enable", !.left = {s}]
  <2>1. new \in ServerTask /\ new.step \notin {"opens", "closes"}
    BY DEF NoTask, ServerTask
  <2>2. entries[s] \in Connections
    BY <1>4 DEF Enable, McpInv, McpTypes
  <2> QED
    BY <1>4, <2>1, <2>2, OtherEnabled DEF Enable
<1>5. ASSUME NEW s \in Servers, Disable(t, s) PROVE McpInv'
  <2>1. entries[s] \in Connections
    BY <1>5 DEF Disable, McpInv, McpTypes
  <2>2. CASE Closing(t, [NoTask EXCEPT !.kind = "disable"], entries[s]) /\ UNCHANGED objects
    <3>1. [NoTask EXCEPT !.kind = "disable"] \in ServerTask
      BY DEF NoTask, ServerTask
    <3> QED
      BY <1>5, <2>1, <2>2, <3>1, ClosingKeeps DEF Disable
  <2>3. CASE /\ objects' = [objects EXCEPT ![entries[s]].enabled = FALSE]
             /\ Task(t, [NoTask EXCEPT !.step = "over", !.kind = "disable"])
             /\ UNCHANGED connections
    <3> DEFINE new == [NoTask EXCEPT !.step = "over", !.kind = "disable"]
    <3>1. new \in ServerTask /\ new.step \notin {"opens", "closes"}
      BY DEF NoTask, ServerTask
    <3> QED
      BY <1>5, <2>1, <2>3, <3>1, OtherEnabled DEF Disable
  <2> QED
    BY <1>5, <2>2, <2>3 DEF Disable
<1> QED
  BY <1>1, <1>2, <1>3, <1>4, <1>5

(* A transport has closed. The object of the task, if it still has that         *)
(* transport or has another by now, is not connected any more.                  *)
LEMMA ClosedKeeps ==
    ASSUME McpInv, NEW t \in ServerTasks, Closed(t)
    PROVE  McpInv'
<1> DEFINE task == serverTasks[t]
           disables == task.kind = "disable"
           k == task.connection
           new == [task EXCEPT !.step = IF disables THEN "over" ELSE "disconnects"]
<1>1. /\ task.step = "closes"
      /\ connections' = [connections EXCEPT ![k].state = "closed"]
      /\ objects' = [objects EXCEPT ![task.object].connected = FALSE,
                                    ![task.object].enabled = @ /\ ~disables]
      /\ serverTasks' = [serverTasks EXCEPT ![t] = new]
      /\ entries' = entries
  BY DEF Closed, Task
<1>2. /\ task \in ServerTask /\ task.object \in Connections /\ k \in Connections
      /\ connections[k].state \in {"open", "closing", "closed"}
      /\ \A o \in Connections : objects[o].connected /\ objects[o].connection = k
                                    => o = task.object
  BY <1>1 DEF McpInv, McpTypes, ClosingHaveTheirObject
<1>3. new \in ServerTask /\ new.step \notin {"opens", "closes"}
  BY <1>2 DEF ServerTask
<1>4. \A u \in ServerTasks : serverTasks'[u] = IF u = t THEN new ELSE serverTasks[u]
  BY <1>1 DEF McpInv, McpTypes
<1> HIDE DEF new
<1>5. /\ \A c \in Connections : /\ connections'[c].server = connections[c].server
                                /\ c # k => connections'[c].state = connections[c].state
      /\ connections'[k].state = "closed"
  BY <1>1, <1>2 DEF McpInv, McpTypes
<1> HIDE DEF k
<1>6. /\ \A o \in Connections : /\ objects'[o].connection = objects[o].connection
                                /\ objects'[o].connected => objects[o].connected
      /\ ~objects'[task.object].connected
  BY <1>1, <1>2 DEF McpInv, McpTypes
<1>7. McpTypes'
  <2>1. connections' \in [Connections -> [server : Servers \cup {NoServer},
                              state : {"unused", "opening", "open", "closing", "closed"}]]
    BY <1>1 DEF McpInv, McpTypes
  <2>2. objects' \in [Connections -> [connection : Connections \cup {NoConnection},
                                      connected : BOOLEAN, enabled : BOOLEAN]]
    <3> DEFINE stays == ~disables
    <3>1. stays \in BOOLEAN
      OBVIOUS
    <3>2. objects' = [objects EXCEPT ![task.object].connected = FALSE,
                                     ![task.object].enabled = @ /\ stays]
      BY <1>1
    <3> HIDE DEF stays
    <3>3. objects \in [Connections -> [connection : Connections \cup {NoConnection},
                                       connected : BOOLEAN, enabled : BOOLEAN]]
      BY DEF McpInv, McpTypes
    <3> QED
      BY <3>1, <3>2, <3>3
  <2>3. serverTasks' \in [ServerTasks -> ServerTask]
    BY <1>1, <1>3 DEF McpInv, McpTypes
  <2> QED
    BY <1>1, <2>1, <2>2, <2>3 DEF McpInv, McpTypes
<1> HIDE DEF task
<1>8. OpeningHaveATask'
  BY <1>2, <1>3, <1>4, <1>5 DEF McpInv, OpeningHaveATask
<1>9. EntriesOfTheirServer'
  BY <1>1, <1>2, <1>5 DEF McpInv, McpTypes, EntriesOfTheirServer
<1>10. ConnectedHaveATransport'
  BY <1>2, <1>5, <1>6 DEF McpInv, ConnectedHaveATransport
<1>11. ClosingHaveTheirObject'
  BY <1>2, <1>3, <1>4, <1>5, <1>6 DEF McpInv, ClosingHaveTheirObject
<1> QED
  BY <1>7, <1>8, <1>9, <1>10, <1>11 DEF McpInv

(* A transport that nobody had is opened for one task.                          *)
LEMMA OpensKeeps ==
    ASSUME McpInv, NEW t \in ServerTasks, NEW s \in Servers, NEW k \in Connections,
           Opens(t, s, k)
    PROVE  McpInv'
<1> DEFINE new == [serverTasks[t] EXCEPT !.step = "opens", !.left = @ \ {s}, !.server = s,
                                         !.connection = k]
<1>1. /\ connections[k].state = "unused"
      /\ connections' = [connections EXCEPT ![k] = [server |-> s, state |-> "opening"]]
      /\ serverTasks' = [serverTasks EXCEPT ![t] = new]
      /\ UNCHANGED <<entries, objects>>
  BY DEF Opens, Task
<1>2. new \in ServerTask /\ new.step = "opens" /\ new.server = s /\ new.connection = k
  BY DEF McpInv, McpTypes, ServerTask
<1> HIDE DEF new
<1>3. McpTypes'
  BY <1>1, <1>2 DEF McpInv, McpTypes
<1>4. /\ \A u \in ServerTasks : serverTasks'[u] = IF u = t THEN new ELSE serverTasks[u]
      /\ \A c \in Connections : c # k => connections'[c] = connections[c]
      /\ connections'[k].server = s /\ connections'[k].state = "opening"
  BY <1>1 DEF McpInv, McpTypes
<1>5. OpeningHaveATask'
  BY <1>1, <1>2, <1>4 DEF McpInv, OpeningHaveATask
<1>6. EntriesOfTheirServer'
  BY <1>1, <1>4 DEF McpInv, McpTypes, EntriesOfTheirServer
<1>7. ConnectedHaveATransport'
  BY <1>1, <1>4 DEF McpInv, ConnectedHaveATransport
<1>8. ClosingHaveTheirObject'
  BY <1>1, <1>2, <1>4 DEF McpInv, ClosingHaveTheirObject
<1> QED
  BY <1>3, <1>5, <1>6, <1>7, <1>8 DEF McpInv

(* The object that Keep writes has a transport nobody else has, to the server    *)
(* it was made for, or is not connected.                                        *)
LEMMA KeepKeeps ==
    ASSUME McpAssumption, McpInv, NEW t \in ServerTasks, NEW connected \in BOOLEAN,
           NEW task \in ServerTask, task.step \notin {"opens", "closes"}, Task(t, task),
           serverTasks[t].step = "opens", Keep(t, connected),
           connections' = [connections EXCEPT ![serverTasks[t].connection].state =
                              IF connected THEN "open" ELSE "closed"]
    PROVE  McpInv'
<1> DEFINE s == serverTasks[t].server
           k == serverTasks[t].connection
           new == [connection |-> IF connected THEN k ELSE NoConnection,
                   connected |-> connected, enabled |-> TRUE]
<1>1. /\ s \in Servers /\ k \in Connections
      /\ connections[k].server = s /\ connections[k].state = "opening"
  BY DEF McpInv, OpeningHaveATask
<1>2. /\ \A u \in ServerTasks : serverTasks'[u] = IF u = t THEN task ELSE serverTasks[u]
      /\ \A c \in Connections : /\ connections'[c].server = connections[c].server
                                /\ c # k => connections'[c].state = connections[c].state
      /\ connections'[k].state = IF connected THEN "open" ELSE "closed"
      /\ serverTasks' \in [ServerTasks -> ServerTask]
      /\ connections' \in [Connections -> [server : Servers \cup {NoServer},
                              state : {"unused", "opening", "open", "closing", "closed"}]]
  BY <1>1 DEF McpInv, McpTypes, Task
<1>3. /\ new \in [connection : Connections \cup {NoConnection},
                  connected : BOOLEAN, enabled : BOOLEAN]
      /\ new.connected = connected /\ (connected => new.connection = k)
  BY <1>1
<1> HIDE DEF new
<1>4. OpeningHaveATask'
  BY <1>1, <1>2 DEF McpInv, OpeningHaveATask
<1>5. \/ objects' = objects /\ entries' = entries
      \/ \E x \in Connections :
            /\ objects' = [objects EXCEPT ![x] = new]
            /\ connections[x].server = s /\ connections[x].state # "unused"
            /\ entries' \in [Servers -> Connections \cup {NoConnection}]
            /\ \A r \in Servers : entries'[r] = entries[r] \/ (r = s /\ entries'[r] = x)
  <2>1. CASE serverTasks[t].kind = "enable" /\ entries[s] # NoConnection
    <3>1. /\ objects' = [objects EXCEPT ![entries[s]] = new]
          /\ entries' = entries
      BY <2>1 DEF Keep, new
    <3>2. /\ entries[s] \in Connections
          /\ connections[entries[s]].server = s
          /\ connections[entries[s]].state # "unused"
      BY <1>1, <2>1 DEF McpInv, McpTypes, EntriesOfTheirServer
    <3> QED
      BY <3>1, <3>2 DEF McpInv, McpTypes
  <2>2. CASE serverTasks[t].kind = "enable" /\ entries[s] = NoConnection
    BY <2>2 DEF Keep
  <2>3. CASE serverTasks[t].kind # "enable"
    <3>1. objects' = [objects EXCEPT ![k] = new] /\ entries' = [entries EXCEPT ![s] = k]
      BY <2>3 DEF Keep, new
    <3> QED
      BY <1>1, <3>1 DEF McpInv, McpTypes
  <2> QED
    BY <2>1, <2>2, <2>3
<1> HIDE DEF k, s
<1>6. CASE objects' = objects /\ entries' = entries
  <2>1. McpTypes' /\ EntriesOfTheirServer'
    BY <1>1, <1>2, <1>6 DEF McpInv, McpTypes, EntriesOfTheirServer
  <2>2. ConnectedHaveATransport' /\ ClosingHaveTheirObject'
    BY <1>1, <1>2, <1>6 DEF McpInv, ConnectedHaveATransport, ClosingHaveTheirObject
  <2> QED
    BY <1>4, <2>1, <2>2 DEF McpInv
<1>7. ASSUME NEW x \in Connections, objects' = [objects EXCEPT ![x] = new],
             connections[x].server = s, connections[x].state # "unused",
             entries' \in [Servers -> Connections \cup {NoConnection}],
             \A r \in Servers : entries'[r] = entries[r] \/ (r = s /\ entries'[r] = x)
      PROVE  McpInv'
  <2>1. McpTypes'
    BY <1>2, <1>3, <1>7 DEF McpInv, McpTypes
  <2>2. /\ \A o \in Connections : o # x => objects'[o] = objects[o]
        /\ objects'[x] = new
        /\ \A c \in Connections : connections[c].state # "unused"
                                    => connections'[c].state # "unused"
    BY <1>1, <1>2, <1>7 DEF McpInv, McpTypes
  <2>3. EntriesOfTheirServer'
    BY <1>1, <1>2, <1>7, <2>2 DEF McpInv, McpTypes, EntriesOfTheirServer
  <2>4. ConnectedHaveATransport'
    BY <1>1, <1>2, <1>3, <1>7, <2>2 DEF McpInv, ConnectedHaveATransport
  <2>5. ClosingHaveTheirObject'
    BY <1>1, <1>2, <1>3, <1>7, <2>2 DEF McpInv, ClosingHaveTheirObject
  <2> QED
    BY <1>4, <2>1, <2>3, <2>4, <2>5 DEF McpInv
<1> QED
  BY <1>5, <1>6, <1>7

LEMMA EndsOpeningKeeps ==
    ASSUME McpAssumption, McpInv, NEW t \in ServerTasks, Opened(t) \/ OpenFails(t)
    PROVE  McpInv'
<1>1. /\ serverTasks[t] \in ServerTask
      /\ serverTasks[t].step = "opens" => serverTasks[t].server \in Servers
  BY DEF McpInv, McpTypes, OpeningHaveATask
<1>2. CASE Opened(t)
  <2> DEFINE new == Connects([serverTasks[t] EXCEPT !.gathered = @ \cup {serverTasks[t].server}])
  <2>1. new \in ServerTask /\ new.step \notin {"opens", "closes"}
    BY <1>1, <1>2 DEF Connects, ServerTask, Opened
  <2>2. /\ serverTasks[t].step = "opens" /\ Keep(t, TRUE) /\ Task(t, new)
        /\ connections' = [connections EXCEPT ![serverTasks[t].connection].state = "open"]
    BY <1>2 DEF Opened
  <2> QED
    BY <2>1, <2>2, KeepKeeps
<1>3. CASE OpenFails(t)
  <2> DEFINE new == Connects(serverTasks[t])
  <2>1. new \in ServerTask /\ new.step \notin {"opens", "closes"}
    BY <1>1 DEF Connects, ServerTask
  <2>2. /\ serverTasks[t].step = "opens" /\ Keep(t, FALSE) /\ Task(t, new)
        /\ connections' = [connections EXCEPT ![serverTasks[t].connection].state = "closed"]
    BY <1>3 DEF OpenFails
  <2> QED
    BY <2>1, <2>2, KeepKeeps
<1> QED
  BY <1>2, <1>3

-------------------------------------------------------------------------------
LEMMA UnchangedKeeps ==
    McpInv /\ UNCHANGED connectionVars => McpInv'
  BY DEF connectionVars, McpInv, McpTypes, OpeningHaveATask, EntriesOfTheirServer,
         ConnectedHaveATransport, ClosingHaveTheirObject

LEMMA NextMcp == McpAssumption /\ McpInv /\ [McpNext]_mcpVars => McpInv'
<1> SUFFICES ASSUME McpAssumption, McpInv, [McpNext]_mcpVars PROVE McpInv'
  OBVIOUS
<1>1. ASSUME NEW e \in Editors, ConfigStep(e) PROVE McpInv'
  <2>1. UNCHANGED connectionVars
    BY <1>1 DEF ConfigStep, EmptiesConfig, FillsConfig, EditorKilled, AddServer, RemoveServer,
                connectionVars
  <2> QED
    BY <2>1, UnchangedKeeps
<1>2. ASSUME NEW t \in ServerTasks, ServerStep(t) PROVE McpInv'
  <2>1. ASSUME Disconnects(t) PROVE McpInv'
    BY <2>1, GoesOnKeeps DEF Disconnects, McpInv, McpTypes
  <2>2. ASSUME NEW s \in Servers, NEW k \in Connections, Opens(t, s, k) PROVE McpInv'
    BY <2>2, OpensKeeps
  <2> QED
    BY <1>2, <2>1, <2>2, BeginsKeeps, ClosedKeeps, EndsOpeningKeeps DEF ServerStep
<1>3. CASE ChildStep
  BY <1>3, UnchangedKeeps DEF ChildStep
<1>4. CASE UNCHANGED mcpVars
  BY <1>4, UnchangedKeeps DEF mcpVars
<1> QED
  BY <1>1, <1>2, <1>3, <1>4 DEF McpNext

(* mcp/manager.py:399, call_tool: a call by the name of a server goes to a        *)
(* transport that was opened for it and that no task has closed, with tasks of    *)
(* the interface connecting, enabling, disabling and reconnecting at once.        *)
THEOREM CallsGoByName == McpAssumption => (McpSpec => []CallsReachTheirServer)
<1> SUFFICES ASSUME McpAssumption PROVE McpSpec => []CallsReachTheirServer
  OBVIOUS
<1>1. McpInit => McpInv
  BY InitMcp
<1>2. McpInv /\ [McpNext]_mcpVars => McpInv'
  BY NextMcp
<1>3. McpInv => CallsReachTheirServer
  BY DEF McpInv, McpTypes, EntriesOfTheirServer, ConnectedHaveATransport, CallsReachTheirServer
<1> QED
  BY <1>1, <1>2, <1>3, PTL DEF McpSpec

-------------------------------------------------------------------------------
(* A child and its parent (ChildAgent).                                        *)

(* Where a task is and what is said of it: a task that was cancelled before it *)
(* is over is still at its loop, and its status says so to the end.            *)
StatusOfPlace ==
    \A t \in Tasks :
        /\ place[t] \in {"none", "starts"} => status[t] = "none"
        /\ place[t] = "new" => status[t] = "pending"
        /\ place[t] \in {"llm", "tools", "summary"} => status[t] \in {"running", "cancelled"}
        /\ place[t] = "notes" => status[t] = "done"
        /\ place[t] = "done" => status[t] \in Final \cup {"none"}

(* The server is at nothing, or at a request for a new task.                   *)
ServesATask == serving = NotServing \/ (serving.id \in Ids /\ serving.task \in Tasks)

(* A future has the answer of its id.                                          *)
FuturesMatch == \A f \in resolved : f.id = f.answer

ChildInv == TypeOK /\ StatusOfPlace /\ ServesATask /\ FuturesMatch /\ AnswersMatch

(* TypeOK in parts: the tasks, the calls, the lines and the watcher.           *)
TasksOK ==
    /\ status \in [Tasks -> Statuses] /\ place \in [Tasks -> Places]
    /\ round \in [Tasks -> 0..MaxIterations] /\ outgoing \in Seq(Notice)

CallsOK ==
    /\ lastId \in 0..MaxCalls /\ lock \in Callers \cup {0}
    /\ waiting \in [Callers -> 0..MaxCalls] /\ pending \in SUBSET Ids
    /\ resolved \in SUBSET [id : Ids, answer : Ids]
    /\ got \in [id : 0..MaxCalls, answer : 0..MaxCalls]

Lines == [id : Ids] \cup [id : {0}, notice : Notice]
Calls == [id : Ids, request : Requests]

LinesOK ==
    /\ toServer \in Seq(Calls) /\ toParent \in Seq(Lines) /\ inbox \in Seq(Notice)
    /\ reading \in BOOLEAN /\ open \in BOOLEAN

ServerOK == serving \in [id : 0..MaxCalls, task : 0..MaxTasks] /\ reports \in Seq(Notice)

LEMMA TypesInParts == TypeOK <=> TasksOK /\ CallsOK /\ LinesOK /\ ServerOK
  BY DEF TypeOK, TasksOK, CallsOK, LinesOK, ServerOK, Lines, Calls

LEMMA TypesInPartsNext == TypeOK' <=> TasksOK' /\ CallsOK' /\ LinesOK' /\ ServerOK'
  BY DEF TypeOK, TasksOK, CallsOK, LinesOK, ServerOK, Lines, Calls

LEMMA Numbers ==
    /\ MaxCalls \in Nat /\ MaxTasks \in Nat /\ MaxIterations \in Nat \ {0}
    /\ Tasks \subseteq Nat \ {0} /\ Tasks \subseteq 0..MaxTasks
    /\ Ids \subseteq 0..MaxCalls /\ 0 \notin Ids /\ 0 \in 0..MaxCalls /\ 0 \in 0..MaxTasks
    /\ 0..MaxCalls = Ids \cup {0}
  BY McpTasksAssumption, McpLinkAssumption DEF Tasks, Ids

-------------------------------------------------------------------------------
(* The tasks of the child.                                                     *)

(* A task takes one of these steps at a time, and says where it is.            *)
LEMMA TaskMoves ==
    ASSUME TasksOK, StatusOfPlace, NEW t \in Tasks,
           NEW s \in Statuses, NEW p \in Places, NEW n \in 0..MaxIterations,
           status' = [status EXCEPT ![t] = s],
           place' = [place EXCEPT ![t] = p],
           round' = [round EXCEPT ![t] = n],
           outgoing' \in Seq(Notice),
           p \in {"none", "starts"} => s = "none",
           p = "new" => s = "pending",
           p \in {"llm", "tools", "summary"} => s \in {"running", "cancelled"},
           p = "notes" => s = "done",
           p = "done" => s \in Final \cup {"none"}
    PROVE  TasksOK' /\ StatusOfPlace'
  <1>1. TasksOK'
    BY DEF TasksOK
  <1>2. ASSUME NEW u \in Tasks
        PROVE  /\ place'[u] \in {"none", "starts"} => status'[u] = "none"
               /\ place'[u] = "new" => status'[u] = "pending"
               /\ place'[u] \in {"llm", "tools", "summary"} =>
                     status'[u] \in {"running", "cancelled"}
               /\ place'[u] = "notes" => status'[u] = "done"
               /\ place'[u] = "done" => status'[u] \in Final \cup {"none"}
    <2>1. CASE u = t
      <3>1. status'[u] = s /\ place'[u] = p
        BY <2>1 DEF TasksOK
      <3> QED BY <3>1
    <2>2. CASE u # t
      <3>1. status'[u] = status[u] /\ place'[u] = place[u]
        BY <2>2 DEF TasksOK
      <3> QED BY <3>1 DEF StatusOfPlace
    <2> QED BY <2>1, <2>2
  <1> QED BY <1>1, <1>2 DEF StatusOfPlace

(* A function is itself where it is not changed.                               *)
LEMMA Same ==
    ASSUME NEW S, NEW T, NEW f \in [S -> T], NEW x \in S
    PROVE  f = [f EXCEPT ![x] = f[x]]
  OBVIOUS

(* What a step of a task changes: its place, and its status, its round or the  *)
(* queue of outcomes.                                                          *)
LEMMA EndsKeeps ==
    ASSUME TasksOK, StatusOfPlace, NEW t \in Tasks, NEW s \in Final, Ends(t, s)
    PROVE  TasksOK' /\ StatusOfPlace'
  <1>1. [task |-> t, status |-> s] \in Notice
    BY DEF Notice, Statuses
  <1>2. outgoing' \in Seq(Notice)
    BY <1>1, AppendProperties DEF Ends, TasksOK
  <1>3. round' = [round EXCEPT ![t] = round[t]] /\ round[t] \in 0..MaxIterations
    BY Same DEF Ends, TasksOK
  <1> QED BY <1>2, <1>3, TaskMoves DEF Ends, Places, Statuses

LEMMA GoesKeeps ==
    ASSUME TasksOK, StatusOfPlace, NEW t \in Tasks, NEW p \in {"tools", "summary"}, Goes(t, p),
           place[t] \in {"llm", "tools"}
    PROVE  TasksOK' /\ StatusOfPlace'
  <1>1. /\ round' = [round EXCEPT ![t] = round[t]] /\ round[t] \in 0..MaxIterations
        /\ status' = [status EXCEPT ![t] = status[t]] /\ status[t] \in Statuses
        /\ outgoing' \in Seq(Notice) /\ status[t] \in {"running", "cancelled"}
    BY Same DEF Goes, TasksOK, StatusOfPlace
  <1> QED BY <1>1, TaskMoves DEF Goes, Places

LEMMA CompletesKeeps ==
    ASSUME TasksOK, StatusOfPlace, NEW t \in Tasks, Completes(t)
    PROVE  TasksOK' /\ StatusOfPlace'
  <1>1. CASE IsCancelled(t)
    BY <1>1, EndsKeeps DEF Completes, Final
  <1>2. CASE ~IsCancelled(t)
    <2>1. /\ round' = [round EXCEPT ![t] = round[t]] /\ round[t] \in 0..MaxIterations
          /\ outgoing' \in Seq(Notice)
          /\ status' = [status EXCEPT ![t] = "done"] /\ place' = [place EXCEPT ![t] = "notes"]
      BY <1>2, Same DEF Completes, TasksOK
    <2> QED BY <2>1, TaskMoves DEF Places, Statuses, Final
  <1> QED BY <1>1, <1>2

LEMMA DriveKeeps ==
    ASSUME TasksOK, StatusOfPlace, NEW t \in Tasks, Drive(t)
    PROVE  TasksOK' /\ StatusOfPlace'
  <1>0. status[t] \in Statuses /\ round[t] \in 0..MaxIterations
    BY DEF TasksOK
  <1>1. CASE Begin(t)
    <2>1. 1 \in 0..MaxIterations
      BY Numbers
    <2> QED BY <1>1, <2>1, TaskMoves DEF Begin, TasksOK, Places, Statuses
  <1>2. CASE LlmAnswers(t)
    BY <1>2, GoesKeeps, CompletesKeeps DEF LlmAnswers
  <1>3. CASE RequestFails(t)
    BY <1>3, EndsKeeps DEF RequestFails, Final
  <1>4. CASE ToolsReturn(t)
    <2>1. CASE IsCancelled(t) /\ Ends(t, "cancelled")
      BY <2>1, EndsKeeps DEF Final
    <2>2. CASE Goes(t, "summary")
      BY <1>4, <2>2, GoesKeeps DEF ToolsReturn
    <2>3. CASE /\ round[t] < MaxIterations
               /\ round' = [round EXCEPT ![t] = @ + 1]
               /\ place' = [place EXCEPT ![t] = "llm"]
               /\ UNCHANGED <<status, outgoing>>
      <3>1. round[t] + 1 \in 0..MaxIterations
        BY <1>0, <2>3, Numbers
      <3>2. /\ status' = [status EXCEPT ![t] = status[t]]
            /\ status[t] \in {"running", "cancelled"} /\ outgoing' \in Seq(Notice)
        BY <1>4, <2>3, Same DEF ToolsReturn, TasksOK, StatusOfPlace
      <3> QED BY <1>0, <2>3, <3>1, <3>2, TaskMoves DEF Places
    <2> QED BY <1>4, <2>1, <2>2, <2>3 DEF ToolsReturn
  <1>5. CASE SummaryReturns(t)
    BY <1>5, CompletesKeeps DEF SummaryReturns
  <1>6. CASE NotesReturn(t)
    BY <1>6, EndsKeeps DEF NotesReturn, StatusOfPlace, Final
  <1> QED BY <1>1, <1>2, <1>3, <1>4, <1>5, <1>6, <1>0 DEF Drive

(* The handlers of requests.                                                   *)
LEMMA HandlersKeep ==
    ASSUME TasksOK, StatusOfPlace, NEW t \in Tasks,
           RunTaskAsync(t) \/ AgentNotMade(t) \/ CreateTask(t)
    PROVE  TasksOK' /\ StatusOfPlace'
  <1>1. /\ round = [round EXCEPT ![t] = round[t]] /\ round[t] \in 0..MaxIterations
        /\ status = [status EXCEPT ![t] = status[t]] /\ status[t] \in Statuses
        /\ outgoing \in Seq(Notice)
    BY Same DEF TasksOK
  <1>2. CASE RunTaskAsync(t)
    BY <1>1, <1>2, TaskMoves DEF RunTaskAsync, StatusOfPlace, Places
  <1>3. CASE AgentNotMade(t)
    BY <1>1, <1>3, TaskMoves DEF AgentNotMade, StatusOfPlace, Places
  <1>4. CASE CreateTask(t)
    BY <1>1, <1>4, TaskMoves DEF CreateTask, StatusOfPlace, Places, Statuses
  <1> QED BY <1>2, <1>3, <1>4

(* A task that is cancelled is not new, for a new one runs before the server   *)
(* reads the next request.                                                     *)
LEMMA CancelKeeps ==
    ASSUME TasksOK, StatusOfPlace, NEW t \in Tasks, CancelTask(t), place[t] # "new"
    PROVE  TasksOK' /\ StatusOfPlace'
  <1>1. /\ round = [round EXCEPT ![t] = round[t]] /\ round[t] \in 0..MaxIterations
        /\ place = [place EXCEPT ![t] = place[t]] /\ place[t] \in Places
        /\ status[t] \in Statuses /\ outgoing \in Seq(Notice)
    BY Same DEF TasksOK
  <1>2. CASE status[t] \in Final
    <2>1. status' = [status EXCEPT ![t] = status[t]]
      BY <1>2 DEF CancelTask
    <2>2. UNCHANGED <<place, round, outgoing>>
      BY DEF CancelTask
    <2> QED BY <1>1, <2>1, <2>2, TaskMoves DEF StatusOfPlace
  <1>3. CASE status[t] \notin Final
    <2>1. status' = [status EXCEPT ![t] = "cancelled"] /\ UNCHANGED <<place, round, outgoing>>
      BY <1>3 DEF CancelTask
    <2>2. place[t] \in {"llm", "tools", "summary"}
      BY <1>1, <1>3 DEF StatusOfPlace, CancelTask, Places, Final
    <2> QED BY <1>1, <2>1, <2>2, TaskMoves DEF Statuses, Final
  <1> QED BY <1>2, <1>3

-------------------------------------------------------------------------------
(* The calls and the lines.                                                    *)

LEMMA LeavesKeeps ==
    ASSUME CallsOK, FuturesMatch, NEW c \in Callers, Leaves(c), UNCHANGED lastId,
           got' \in resolved \cup {got}, AnswersMatch
    PROVE  CallsOK' /\ FuturesMatch' /\ AnswersMatch'
  <1>1. lock' \in Callers \cup {0} /\ waiting' \in [Callers -> 0..MaxCalls]
    BY Numbers DEF Leaves, CallsOK
  <1>2. pending' \in SUBSET Ids /\ resolved' \subseteq resolved
    BY DEF Leaves, CallsOK
  <1>3. got' \in [id : 0..MaxCalls, answer : 0..MaxCalls] /\ got'.id = got'.answer
    BY Numbers DEF CallsOK, FuturesMatch, AnswersMatch
  <1> QED BY <1>1, <1>2, <1>3 DEF CallsOK, FuturesMatch, AnswersMatch

(* A line that is read has a type of line.                                     *)
LEMMA HeadLine ==
    ASSUME LinesOK, toParent # <<>>
    PROVE  /\ Tail(toParent) \in Seq(Lines) /\ Head(toParent) \in Lines
           /\ Head(toParent).id = 0 => Head(toParent).notice \in Notice
           /\ Head(toParent).id # 0 => Head(toParent).id \in Ids
  <1>1. Tail(toParent) \in Seq(Lines) /\ Head(toParent) \in Lines
    BY HeadTailProperties DEF LinesOK
  <1>2. ASSUME NEW line \in Lines
        PROVE  /\ line.id = 0 => line.notice \in Notice
               /\ line.id # 0 => line.id \in Ids
    BY Numbers DEF Lines
  <1> QED BY <1>1, <1>2

(* The parent's steps.                                                         *)
LEMMA AsksKeeps ==
    ASSUME ChildInv, NEW c \in Callers, Asks(c)
    PROVE  CallsOK' /\ LinesOK' /\ FuturesMatch' /\ AnswersMatch'
  <1>0. CallsOK /\ LinesOK /\ FuturesMatch /\ AnswersMatch
    BY TypesInParts DEF ChildInv
  <1>1. PICK request \in Requests : Call(c, request)
    BY DEF Asks
  <1>2. lastId' \in Ids /\ lastId' \in 0..MaxCalls
    BY <1>0, <1>1, McpLinkAssumption DEF Call, CallsOK, Ids
  <1>3. Fifo /\ UNCHANGED <<resolved, got, toParent, inbox, reading, open>>
    BY <1>1, ChildAgentAssumption DEF Call
  <1>4. CASE open
    <2>1. /\ lock' = c /\ waiting' = [waiting EXCEPT ![c] = lastId']
          /\ pending' = pending \cup {lastId'}
          /\ toServer' = Append(toServer, [id |-> lastId', request |-> request])
      BY <1>1, <1>3, <1>4 DEF Call
    <2>2. [id |-> lastId', request |-> request] \in Calls
      BY <1>2 DEF Calls
    <2>3. toServer' \in Seq(Calls)
      BY <1>0, <2>1, <2>2, AppendProperties DEF LinesOK
    <2>4. CallsOK'
      BY <1>0, <1>2, <1>3, <2>1 DEF CallsOK
    <2> QED BY <1>0, <1>3, <2>3, <2>4 DEF LinesOK, FuturesMatch, AnswersMatch
  <1>5. CASE ~open
    <2>1. UNCHANGED <<lock, waiting, pending, toServer>>
      BY <1>1, <1>5 DEF Call
    <2> QED BY <1>0, <1>2, <1>3, <2>1 DEF CallsOK, LinesOK, FuturesMatch, AnswersMatch
  <1> QED BY <1>4, <1>5

LEMMA ReturnsKeep ==
    ASSUME ChildInv, NEW c \in Callers, Hears(c) \/ Abandons(c) \/ Fails(c)
    PROVE  CallsOK' /\ LinesOK' /\ FuturesMatch' /\ AnswersMatch'
  <1>0. CallsOK /\ LinesOK /\ FuturesMatch /\ AnswersMatch
    BY TypesInParts DEF ChildInv
  <1>1. /\ Leaves(c) /\ UNCHANGED lastId /\ got' \in resolved \cup {got}
        /\ UNCHANGED <<toServer, toParent, inbox, reading, open>>
    BY DEF Hears, Abandons, Fails, FutureReturns, GivesUp, FailsAtEnd
  <1> QED BY <1>0, <1>1, LeavesKeeps DEF LinesOK

LEMMA ReadsKeeps ==
    ASSUME ChildInv, Reads
    PROVE  CallsOK' /\ LinesOK' /\ FuturesMatch' /\ AnswersMatch'
  <1>0. CallsOK /\ LinesOK /\ FuturesMatch /\ AnswersMatch
    BY TypesInParts DEF ChildInv
  <1>1. CASE ReaderEnds
    BY <1>0, <1>1 DEF ReaderEnds, callVars, CallsOK, LinesOK, FuturesMatch, AnswersMatch
  <1>2. CASE ReadLine
    <2>1. /\ UNCHANGED <<lastId, lock, waiting, got, pending, toServer, reading, open>>
          /\ toParent # <<>> /\ toParent' = Tail(toParent)
      BY <1>2 DEF ReadLine, callVars
    <2>2. toParent' \in Seq(Lines)
      BY <1>0, <2>1, HeadLine
    <2>3. CASE Head(toParent).id = 0
      <3>1. UNCHANGED resolved /\ inbox' = Append(inbox, Head(toParent).notice)
        BY <1>2, <2>3 DEF ReadLine
      <3>2. inbox' \in Seq(Notice)
        BY <1>0, <2>1, <2>3, <3>1, HeadLine, AppendProperties DEF LinesOK
      <3> QED BY <1>0, <2>1, <2>2, <3>1, <3>2 DEF CallsOK, LinesOK, FuturesMatch, AnswersMatch
    <2>4. CASE Head(toParent).id # 0
      <3>1. UNCHANGED inbox /\ resolved' = resolved \cup FuturesFor(Head(toParent).id)
        BY <1>2, <2>4 DEF ReadLine
      <3>2. \A f \in FuturesFor(Head(toParent).id) :
               f \in [id : Ids, answer : Ids] /\ f.id = f.answer
        BY <1>0 DEF FuturesFor, CallsOK
      <3>3. resolved' \in SUBSET [id : Ids, answer : Ids] /\ FuturesMatch'
        BY <1>0, <3>1, <3>2 DEF FuturesMatch, CallsOK
      <3> QED BY <1>0, <2>1, <2>2, <3>1, <3>3 DEF CallsOK, LinesOK, AnswersMatch
    <2> QED BY <2>3, <2>4
  <1> QED BY <1>1, <1>2 DEF Reads

(* A notification that was forwarded, and one that the watcher takes.          *)
LEMMA NoticesKeep ==
    ASSUME ChildInv, Watch \/ Forward
    PROVE  LinesOK' /\ reports' \in Seq(Notice) /\ outgoing' \in Seq(Notice)
  <1>0. TasksOK /\ LinesOK /\ ServerOK
    BY TypesInParts DEF ChildInv
  <1>1. CASE Watch
    <2>1. Head(inbox) \in Notice /\ Tail(inbox) \in Seq(Notice)
      BY <1>0, <1>1, HeadTailProperties DEF Watch, LinesOK
    <2>2. Append(reports, Head(inbox)) \in Seq(Notice)
      BY <1>0, <2>1, AppendProperties DEF ServerOK
    <2> QED BY <1>0, <1>1, <2>1, <2>2 DEF Watch, LinesOK, TasksOK, taskVars
  <1>2. CASE Forward
    <2>1. Head(outgoing) \in Notice /\ Tail(outgoing) \in Seq(Notice)
      BY <1>0, <1>2, HeadTailProperties DEF Forward, TasksOK
    <2>2. Notification(Head(outgoing)) \in Lines
      BY <2>1 DEF Notification, Lines
    <2>3. Append(toParent, Notification(Head(outgoing))) \in Seq(Lines)
      BY <1>0, <2>2, AppendProperties DEF LinesOK
    <2> QED BY <1>0, <1>2, <2>1, <2>3 DEF Forward, LinesOK, ServerOK
  <1> QED BY <1>1, <1>2

LEMMA RepliesKeeps ==
    ASSUME LinesOK, NEW id \in Ids, Replies(id)
    PROVE  toParent' \in Seq(Lines)
  <1>1. AnswerTo(id) \in Lines
    BY DEF AnswerTo, Lines
  <1> QED BY <1>1, AppendProperties DEF Replies, LinesOK

(* The server takes a request, and answers or begins a task.                   *)
LEMMA ServeKeeps ==
    ASSUME ChildInv, Serve
    PROVE  TasksOK' /\ StatusOfPlace' /\ LinesOK' /\ ServerOK' /\ ServesATask'
  <1>0. TasksOK /\ StatusOfPlace /\ LinesOK /\ ServerOK /\ ServesATask
    BY TypesInParts DEF ChildInv
  <1>1. /\ UNCHANGED <<lastId, lock, waiting, got, pending, resolved>>
        /\ UNCHANGED <<inbox, reading, open, reports>>
        /\ toServer # <<>> /\ toServer' = Tail(toServer)
        /\ \A t \in Tasks : place[t] # "new"
    BY DEF Serve, Takes, callVars, futureVars
  <1> DEFINE line == Head(toServer)
  <1>2. line \in Calls /\ toServer' \in Seq(Calls)
    BY <1>0, <1>1, HeadTailProperties DEF LinesOK
  <1> HIDE DEF line
  <1>3. /\ line.id \in Ids
        /\ line.request.kind # "run_task_async" => line.request.task \in Tasks
    BY <1>2 DEF Calls, Requests
  <1>4. CASE /\ \E new \in Tasks : RunTaskAsync(new) /\ serving' = [id |-> line.id, task |-> new]
             /\ UNCHANGED toParent
    <2>1. PICK new \in Tasks : RunTaskAsync(new) /\ serving' = [id |-> line.id, task |-> new]
      BY <1>4
    <2>2. TasksOK' /\ StatusOfPlace'
      BY <1>0, <2>1, HandlersKeep
    <2>3. ServesATask' /\ ServerOK'
      BY <1>0, <1>1, <1>3, <2>1, Numbers DEF ServesATask, ServerOK
    <2> QED BY <1>0, <1>1, <1>2, <1>4, <2>2, <2>3 DEF LinesOK
  <1>5. CASE Replies(line.id) /\ UNCHANGED <<taskVars, serving>>
    <2>1. toParent' \in Seq(Lines)
      BY <1>0, <1>3, <1>5, RepliesKeeps
    <2> QED BY <1>0, <1>1, <1>2, <1>5, <2>1
            DEF taskVars, TasksOK, StatusOfPlace, LinesOK, ServerOK, ServesATask
  <1>6. CASE /\ line.request.kind = "cancel_task" /\ CancelTask(line.request.task)
             /\ Replies(line.id) /\ UNCHANGED serving
    <2>1. line.request.task \in Tasks /\ toParent' \in Seq(Lines)
      BY <1>0, <1>3, <1>6, RepliesKeeps
    <2>2. TasksOK' /\ StatusOfPlace'
      BY <1>0, <1>1, <1>6, <2>1, CancelKeeps
    <2> QED BY <1>0, <1>1, <1>2, <1>6, <2>1, <2>2 DEF LinesOK, ServerOK, ServesATask
  <1> QED BY <1>4, <1>5, <1>6 DEF Serve, GetTaskResult, line

LEMMA StartedKeeps ==
    ASSUME ChildInv, Started
    PROVE  TasksOK' /\ StatusOfPlace' /\ LinesOK' /\ ServerOK' /\ ServesATask'
  <1>0. TasksOK /\ StatusOfPlace /\ LinesOK /\ ServerOK /\ ServesATask
    BY TypesInParts DEF ChildInv
  <1>1. serving.id \in Ids /\ serving.task \in Tasks
    BY <1>0 DEF Started, ServesATask
  <1>2. TasksOK' /\ StatusOfPlace'
    BY <1>0, <1>1, HandlersKeep DEF Started
  <1>3. toParent' \in Seq(Lines)
    BY <1>0, <1>1, RepliesKeeps DEF Started
  <1>4. serving' = NotServing /\ NotServing \in [id : 0..MaxCalls, task : 0..MaxTasks]
    BY Numbers DEF Started, NotServing
  <1>5. UNCHANGED <<toServer, inbox, reading, open, reports>>
    BY DEF Started
  <1> QED BY <1>0, <1>2, <1>3, <1>4, <1>5 DEF LinesOK, ServerOK, ServesATask

LEMMA ChildInit == Init => ChildInv
  <1> SUFFICES ASSUME Init PROVE ChildInv
    OBVIOUS
  <1>1. TasksOK /\ StatusOfPlace
    BY Numbers DEF Init, TasksInit, TasksOK, StatusOfPlace, Statuses, Places
  <1>2. CallsOK /\ FuturesMatch /\ AnswersMatch
    BY Numbers DEF Init, LinkInit, CallsOK, FuturesMatch, AnswersMatch
  <1>3. LinesOK
    BY McpLinkAssumption DEF Init, LinkInit, LinesOK
  <1>4. ServerOK /\ ServesATask
    BY Numbers DEF Init, NotServing, ServerOK, ServesATask
  <1> QED BY <1>1, <1>2, <1>3, <1>4, TypesInParts DEF ChildInv

LEMMA ChildStepKeeps == ChildInv /\ [Next]_vars => ChildInv'
  <1> SUFFICES ASSUME ChildInv, [Next]_vars PROVE ChildInv'
    OBVIOUS
  <1>0. /\ TasksOK /\ StatusOfPlace /\ CallsOK /\ LinesOK /\ ServerOK /\ ServesATask
        /\ FuturesMatch /\ AnswersMatch
    BY TypesInParts DEF ChildInv
  <1> SUFFICES /\ TasksOK' /\ StatusOfPlace' /\ CallsOK' /\ LinesOK' /\ ServerOK'
               /\ ServesATask' /\ FuturesMatch' /\ AnswersMatch'
    BY TypesInPartsNext DEF ChildInv
  <1>1. ASSUME UNCHANGED <<taskVars, serving, reports>>
        PROVE  TasksOK' /\ StatusOfPlace' /\ ServerOK' /\ ServesATask'
    BY <1>0, <1>1 DEF taskVars, TasksOK, StatusOfPlace, ServerOK, ServesATask
  <1>2. ASSUME UNCHANGED <<callVars, futureVars>>
        PROVE  CallsOK' /\ FuturesMatch' /\ AnswersMatch'
    BY <1>0, <1>2 DEF callVars, futureVars, CallsOK, FuturesMatch, AnswersMatch
  <1>3. CASE \E c \in Callers : Asks(c)
    BY <1>1, <1>3, AsksKeeps DEF Asks
  <1>4. CASE \E c \in Callers : Hears(c) \/ Abandons(c) \/ Fails(c)
    BY <1>1, <1>4, ReturnsKeep DEF Hears, Abandons, Fails
  <1>5. CASE Reads
    BY <1>1, <1>5, ReadsKeeps DEF Reads
  <1>6. CASE Watch
    <2>1. LinesOK' /\ reports' \in Seq(Notice) /\ CallsOK' /\ FuturesMatch' /\ AnswersMatch'
      BY <1>2, <1>6, NoticesKeep DEF Watch
    <2>2. UNCHANGED <<status, place, round, outgoing, serving>>
      BY <1>6 DEF Watch, taskVars
    <2> QED BY <1>0, <2>1, <2>2 DEF TasksOK, StatusOfPlace, ServerOK, ServesATask
  <1>7. CASE Serve
    BY <1>2, <1>7, ServeKeeps DEF Serve
  <1>8. CASE Started
    BY <1>2, <1>8, StartedKeeps DEF Started
  <1>9. CASE \E t \in Tasks : Runs(t)
    <2>1. /\ UNCHANGED <<callVars, futureVars, toServer, toParent, inbox, reading, open>>
          /\ UNCHANGED <<serving, reports>> /\ \E t \in Tasks : Drive(t)
      BY <1>9 DEF Runs, linkVars
    <2> QED BY <1>0, <1>2, <2>1, DriveKeeps DEF LinesOK, ServerOK, ServesATask
  <1>10. CASE Forward
    <2>1. LinesOK' /\ outgoing' \in Seq(Notice) /\ CallsOK' /\ FuturesMatch' /\ AnswersMatch'
      BY <1>2, <1>10, NoticesKeep DEF Forward
    <2>2. UNCHANGED <<status, place, round, serving, reports>>
      BY <1>10 DEF Forward
    <2> QED BY <1>0, <2>1, <2>2 DEF TasksOK, StatusOfPlace, ServerOK, ServesATask
  <1>11. CASE Dies
    <2>1. /\ UNCHANGED <<callVars, futureVars, toParent, inbox, reading>>
          /\ toServer' = <<>> /\ open' = FALSE
      BY <1>11 DEF Dies, ServerEnds
    <2>2. toServer' \in Seq(Calls)
      BY <2>1, EmptySeq
    <2> QED BY <1>0, <1>1, <1>2, <1>11, <2>1, <2>2 DEF Dies, LinesOK
  <1>12. CASE UNCHANGED vars
    BY <1>0, <1>1, <1>2, <1>12 DEF vars, linkVars, LinesOK
  <1> QED BY <1>3, <1>4, <1>5, <1>6, <1>7, <1>8, <1>9, <1>10, <1>11, <1>12 DEF Next

THEOREM ChildInvariant == Spec => []ChildInv
  BY ChildInit, ChildStepKeeps, PTL DEF Spec

(* Every variable of a child and of its parent has its type, for any number of *)
(* callers, calls and tasks.                                                   *)
THEOREM ChildTypeCorrect == Spec => []TypeOK
  <1>1. ChildInv => TypeOK
    BY DEF ChildInv
  <1> QED BY <1>1, ChildInvariant, PTL

(* Over FIFOs no call returns with the answer to another (mcp/transport.py,    *)
(* _background_reader): late answers, to calls that were given up, are dropped.*)
THEOREM CallsGetTheirAnswers == Spec => []AnswersMatch
  <1>1. ChildInv => AnswersMatch
    BY DEF ChildInv
  <1> QED BY <1>1, ChildInvariant, PTL

(* A task that is over stays so, and one that was cancelled makes no round.    *)
THEOREM CancelledTasksStop == Spec => CancelIsHeard
  <1> DEFINE Heard == \A t \in Tasks :
                         /\ status[t] \in {"done", "error"} => status'[t] = status[t]
                         /\ status[t] = "cancelled" => round'[t] = round[t]
  <1>1. ASSUME ChildInv, [Next]_vars PROVE [Heard]_vars
    <2>0. TasksOK /\ StatusOfPlace
      BY <1>1, TypesInParts DEF ChildInv
    <2>1. ASSUME NEW t \in Tasks, Drive(t) PROVE Heard
      <3> SUFFICES ASSUME NEW u \in Tasks
                   PROVE  /\ status[u] \in {"done", "error"} => status'[u] = status[u]
                          /\ status[u] = "cancelled" => round'[u] = round[u]
        OBVIOUS
      <3>1. CASE u # t
        BY <2>0, <2>1, <3>1
           DEF Drive, Begin, LlmAnswers, RequestFails, ToolsReturn, SummaryReturns, NotesReturn,
               Goes, Completes, Ends, TasksOK
      <3>2. CASE u = t /\ Begin(t)
        BY <2>0, <3>2 DEF Begin, TasksOK, StatusOfPlace
      <3>3. CASE u = t /\ NotesReturn(t)
        BY <2>0, <3>3 DEF NotesReturn, Ends, TasksOK
      <3>4. CASE /\ u = t
                 /\ LlmAnswers(t) \/ RequestFails(t) \/ ToolsReturn(t) \/ SummaryReturns(t)
        <4>1. status[t] \in {"running", "cancelled"}
          BY <2>0, <3>4 DEF LlmAnswers, RequestFails, ToolsReturn, SummaryReturns, StatusOfPlace
        <4>2. status[t] = "cancelled" => UNCHANGED round
          BY <3>4 DEF LlmAnswers, RequestFails, ToolsReturn, SummaryReturns, Goes, Completes,
                      Ends, IsCancelled
        <4> QED BY <3>4, <4>1, <4>2
      <3> QED BY <2>1, <3>1, <3>2, <3>3, <3>4 DEF Drive
    <2>2. ASSUME NEW t \in Tasks, RunTaskAsync(t) \/ AgentNotMade(t) PROVE Heard
      BY <2>2 DEF RunTaskAsync, AgentNotMade
    <2>3. ASSUME NEW t \in Tasks, CreateTask(t) PROVE Heard
      BY <2>0, <2>3 DEF CreateTask, TasksOK, StatusOfPlace
    <2>4. ASSUME NEW t, CancelTask(t) PROVE Heard
      BY <2>0, <2>4 DEF CancelTask, TasksOK, Final
    <2>5. ASSUME UNCHANGED <<status, round>> PROVE Heard
      BY <2>5
    <2>6. CASE Serve
      BY <2>2, <2>4, <2>5, <2>6 DEF Serve, GetTaskResult, taskVars
    <2>7. CASE Started
      <3>1. serving.task \in Tasks
        BY <1>1, <2>7 DEF ChildInv, ServesATask, Started
      <3> QED BY <2>2, <2>3, <2>7, <3>1 DEF Started
    <2>8. CASE \E c \in Callers : Asks(c) \/ Hears(c) \/ Abandons(c) \/ Fails(c)
      BY <2>5, <2>8 DEF Asks, Hears, Abandons, Fails, taskVars
    <2>9. CASE Reads \/ Watch \/ Forward \/ Dies
      BY <2>5, <2>9 DEF Reads, Watch, Forward, Dies, taskVars
    <2>10. CASE \E t \in Tasks : Runs(t)
      BY <2>1, <2>10 DEF Runs
    <2> HIDE DEF Heard
    <2> QED BY <1>1, <2>6, <2>7, <2>8, <2>9, <2>10 DEF Next
  <1> QED BY <1>1, ChildInvariant, PTL DEF Spec, CancelIsHeard

-------------------------------------------------------------------------------
(* The notifications in the pipe are a subsequence of its lines, which a       *)
(* numbering of their positions gives: each step has one that follows from     *)
(* that of the step before.                                                    *)

NoticesOf(lines) == {i \in DOMAIN lines : lines[i].id = 0}

Numbers1To(m, f, S) ==
    /\ m \in Nat /\ f \in [1..m -> S]
    /\ \A k, l \in 1..m : k < l => f[k] < f[l]
    /\ \A i \in S : \E k \in 1..m : f[k] = i

Numbered(lines) == \E m, f : Numbers1To(m, f, NoticesOf(lines))

Notified(lines) ==
    [k \in DOMAIN Picked(lines, NoticesOf(lines)) |-> Picked(lines, NoticesOf(lines))[k].notice]

(* A set that is numbered in order is picked in that order.                    *)
LEMMA NumberedPicked ==
    ASSUME NEW S, S \subseteq Nat, NEW m, NEW f, Numbers1To(m, f, S), NEW s
    PROVE  Picked(s, S) = [k \in 1..m |-> s[f[k]]]
  <1>0. /\ m \in Nat /\ f \in [1..m -> S] /\ \A k \in 1..m : f[k] \in S /\ f[k] \in Nat
        /\ \A k, l \in 1..m : k < l => f[k] < f[l]
        /\ \A i \in S : \E k \in 1..m : f[k] = i
    BY DEF Numbers1To
  <1>1. \A k, l \in 1..m : f[k] = f[l] => k = l
    <2> SUFFICES ASSUME NEW k \in 1..m, NEW l \in 1..m, f[k] = f[l], k # l PROVE FALSE
      OBVIOUS
    <2>1. k < l \/ l < k
      BY <1>0
    <2> QED BY <1>0, <2>1
  <1>2. ASSUME NEW k \in 1..m PROVE Rank(f[k], S) = k
    <2> DEFINE upTo == {j \in S : j <= f[k]}
               g == [l \in 1..k |-> f[l]]
    <2>1. k \in Nat /\ 1..k \subseteq 1..m
      BY <1>0, <1>2
    <2>2. \A l \in 1..k : f[l] \in upTo
      <3> SUFFICES ASSUME NEW l \in 1..k PROVE f[l] <= f[k]
        BY <1>0, <2>1
      <3>1. l = k \/ l < k
        BY <2>1
      <3> QED BY <1>0, <2>1, <3>1
    <2>3. \A j \in upTo : \E l \in 1..k : f[l] = j
      <3> SUFFICES ASSUME NEW j \in upTo PROVE \E l \in 1..k : f[l] = j
        OBVIOUS
      <3>1. PICK l \in 1..m : f[l] = j
        BY <1>0
      <3>2. ~(k < l)
        BY <1>0, <1>2, <3>1
      <3> QED BY <1>0, <2>1, <3>1, <3>2
    <2>4. g \in [1..k -> upTo]
      BY <2>2
    <2>5. g \in Bijection(1..k, upTo)
      <3>1. \A a, b \in 1..k : g[a] = g[b] => a = b
        BY <1>1, <2>1
      <3>2. \A j \in upTo : \E l \in 1..k : g[l] = j
        BY <2>3
      <3> HIDE DEF g, upTo
      <3> QED BY <2>4, <3>1, <3>2 DEF Bijection, Injection, Surjection, IsInjective
    <2> HIDE DEF g
    <2>6. Cardinality(upTo) = k
      BY <2>1, <2>5, FS_CountingElements DEF ExistsBijection
    <2> QED BY <2>6 DEF Rank
  <1>3. Cardinality(S) = m
    <2>1. f \in Bijection(1..m, S)
      BY <1>0, <1>1 DEF Bijection, Injection, Surjection, IsInjective
    <2> QED BY <1>0, <2>1, FS_CountingElements DEF ExistsBijection
  <1>4. ASSUME NEW k \in 1..m PROVE (CHOOSE i \in S : Rank(i, S) = k) = f[k]
    <2>1. f[k] \in S /\ Rank(f[k], S) = k
      BY <1>0, <1>2
    <2>2. \A i \in S : Rank(i, S) = k => i = f[k]
      <3> SUFFICES ASSUME NEW i \in S, Rank(i, S) = k PROVE i = f[k]
        OBVIOUS
      <3>1. PICK l \in 1..m : f[l] = i
        BY <1>0
      <3> QED BY <1>2, <3>1
    <2> QED BY <2>1, <2>2
  <1>5. \A k \in 1..m : s[CHOOSE i \in S : Rank(i, S) = k] = s[f[k]]
    BY <1>4
  <1> QED BY <1>3, <1>5 DEF Picked

LEMMA NumberedNotified ==
    ASSUME NEW lines \in Seq(Lines), NEW m, NEW f, Numbers1To(m, f, NoticesOf(lines))
    PROVE  /\ Notified(lines) = [k \in 1..m |-> lines[f[k]].notice]
           /\ Notified(lines) \in Seq(Notice) /\ Len(Notified(lines)) = m /\ m \in Nat
           /\ \A k \in 1..m : f[k] \in 1..Len(lines) /\ lines[f[k]].id = 0
           /\ DOMAIN lines = 1..Len(lines) /\ Len(lines) \in Nat
  <1>1. /\ DOMAIN lines = 1..Len(lines) /\ Len(lines) \in Nat
        /\ \A i \in 1..Len(lines) : lines[i] \in Lines
    BY LenProperties
  <1>2. NoticesOf(lines) \subseteq Nat
    BY <1>1 DEF NoticesOf
  <1>3. Picked(lines, NoticesOf(lines)) = [k \in 1..m |-> lines[f[k]]]
    <2> DEFINE S == NoticesOf(lines)
    <2>1. S \subseteq Nat /\ Numbers1To(m, f, S)
      BY <1>2
    <2> HIDE DEF S
    <2>2. Picked(lines, S) = [k \in 1..m |-> lines[f[k]]]
      BY <2>1, NumberedPicked
    <2> QED BY <2>2 DEF S
  <1>4. Notified(lines) = [k \in 1..m |-> lines[f[k]].notice]
    BY <1>3 DEF Notified
  <1>5. m \in Nat /\ \A k \in 1..m : f[k] \in 1..Len(lines) /\ lines[f[k]].id = 0
    BY <1>1 DEF Numbers1To, NoticesOf
  <1>6. \A k \in 1..m : lines[f[k]].notice \in Notice
    <2> SUFFICES ASSUME NEW k \in 1..m PROVE lines[f[k]].notice \in Notice
      OBVIOUS
    <2>1. lines[f[k]] \in Lines /\ lines[f[k]].id = 0
      BY <1>1, <1>5
    <2> QED BY <2>1, Numbers DEF Lines
  <1>7. [k \in 1..m |-> lines[f[k]].notice] \in [1..m -> Notice]
    BY <1>6
  <1>8. Notified(lines) \in Seq(Notice) /\ Len(Notified(lines)) = m
    BY <1>4, <1>5, <1>7, SeqDef
  <1> QED BY <1>1, <1>4, <1>5, <1>8

(* What is written to the pipe, and read from it.                              *)
LEMMA AnswerWritten ==
    ASSUME NEW lines \in Seq(Lines), Numbered(lines), NEW line \in Lines, line.id # 0
    PROVE  /\ Numbered(Append(lines, line))
           /\ Notified(Append(lines, line)) = Notified(lines)
  <1>1. PICK m, f : Numbers1To(m, f, NoticesOf(lines))
    BY DEF Numbered
  <1> DEFINE longer == Append(lines, line)
  <1>2. /\ longer \in Seq(Lines) /\ DOMAIN longer = 1..Len(lines) + 1
        /\ DOMAIN lines = 1..Len(lines) /\ Len(lines) \in Nat
        /\ \A i \in 1..Len(lines) : longer[i] = lines[i]
        /\ longer[Len(lines) + 1] = line
    BY AppendProperties, LenProperties
  <1> HIDE DEF longer
  <1>3. NoticesOf(longer) = NoticesOf(lines)
    BY <1>2 DEF NoticesOf
  <1>4. Numbers1To(m, f, NoticesOf(longer))
    BY <1>1, <1>3
  <1>5. /\ Notified(longer) = [k \in 1..m |-> longer[f[k]].notice]
        /\ Notified(lines) = [k \in 1..m |-> lines[f[k]].notice]
        /\ \A k \in 1..m : f[k] \in 1..Len(lines)
    BY <1>1, <1>2, <1>4, NumberedNotified
  <1>6. Notified(longer) = Notified(lines)
    BY <1>2, <1>5
  <1> QED BY <1>4, <1>6 DEF Numbered, longer

LEMMA NoticeWritten ==
    ASSUME NEW lines \in Seq(Lines), Numbered(lines), NEW n \in Notice
    PROVE  /\ Numbered(Append(lines, Notification(n)))
           /\ Notified(Append(lines, Notification(n))) = Append(Notified(lines), n)
  <1>1. PICK m, f : Numbers1To(m, f, NoticesOf(lines))
    BY DEF Numbered
  <1> DEFINE longer == Append(lines, Notification(n))
             last == Len(lines) + 1
             g == [k \in 1..m + 1 |-> IF k = m + 1 THEN last ELSE f[k]]
  <1>2. Notification(n) \in Lines /\ Notification(n).id = 0 /\ Notification(n).notice = n
    BY DEF Notification, Lines
  <1>3. /\ longer \in Seq(Lines) /\ DOMAIN longer = 1..last
        /\ DOMAIN lines = 1..Len(lines) /\ Len(lines) \in Nat
        /\ \A i \in 1..Len(lines) : longer[i] = lines[i]
        /\ longer[last] = Notification(n)
    BY <1>2, AppendProperties, LenProperties
  <1>4. /\ Notified(lines) = [k \in 1..m |-> lines[f[k]].notice]
        /\ Notified(lines) \in Seq(Notice) /\ Len(Notified(lines)) = m /\ m \in Nat
        /\ \A k \in 1..m : f[k] \in 1..Len(lines)
        /\ \A k, l \in 1..m : k < l => f[k] < f[l]
        /\ \A i \in NoticesOf(lines) : \E k \in 1..m : f[k] = i
        /\ \A k \in 1..m : f[k] \in NoticesOf(lines)
    <2>1. /\ Notified(lines) = [k \in 1..m |-> lines[f[k]].notice]
          /\ Notified(lines) \in Seq(Notice) /\ Len(Notified(lines)) = m /\ m \in Nat
          /\ \A k \in 1..m : f[k] \in 1..Len(lines)
      BY <1>1, NumberedNotified
    <2>2. /\ \A k, l \in 1..m : k < l => f[k] < f[l]
          /\ \A i \in NoticesOf(lines) : \E k \in 1..m : f[k] = i
          /\ \A k \in 1..m : f[k] \in NoticesOf(lines)
      BY <1>1 DEF Numbers1To
    <2> QED BY <2>1, <2>2
  <1> HIDE DEF longer
  <1>5. NoticesOf(longer) = NoticesOf(lines) \cup {last}
    BY <1>2, <1>3 DEF NoticesOf
  <1>6. \A k \in 1..m + 1 : k = m + 1 \/ k \in 1..m
    BY <1>4
  <1>7. \A k \in 1..m : g[k] = f[k] /\ g[m + 1] = last /\ k # m + 1
    BY <1>4
  <1>8. g[m + 1] = last /\ g \in [1..m + 1 -> NoticesOf(longer)]
    BY <1>4, <1>5, <1>6
  <1> HIDE DEF g
  <1>9. ASSUME NEW k \in 1..m + 1, NEW l \in 1..m + 1, k < l PROVE g[k] < g[l]
    <2>1. k \in 1..m
      BY <1>4, <1>9
    <2>2. CASE l \in 1..m
      BY <1>4, <1>7, <1>9, <2>1, <2>2
    <2>3. CASE l = m + 1
      <3>1. f[k] < last
        BY <1>3, <1>4, <2>1
      <3> QED BY <1>7, <1>8, <2>1, <2>3, <3>1
    <2> QED BY <1>6, <2>2, <2>3
  <1>10. ASSUME NEW i \in NoticesOf(longer) PROVE \E k \in 1..m + 1 : g[k] = i
    <2>1. m + 1 \in 1..m + 1 /\ 1..m \subseteq 1..m + 1
      BY <1>4
    <2> QED BY <1>4, <1>5, <1>7, <1>8, <1>10, <2>1
  <1>11. Numbers1To(m + 1, g, NoticesOf(longer))
    <2>1. m + 1 \in Nat
      BY <1>4
    <2> QED BY <1>8, <1>9, <1>10, <2>1 DEF Numbers1To
  <1>12. /\ Notified(longer) = [k \in 1..m + 1 |-> longer[g[k]].notice]
         /\ Notified(longer) \in Seq(Notice) /\ Len(Notified(longer)) = m + 1
    BY <1>3, <1>11, NumberedNotified
  <1>13. /\ Append(Notified(lines), n) \in Seq(Notice)
         /\ Len(Append(Notified(lines), n)) = m + 1
         /\ \A k \in 1..m : Append(Notified(lines), n)[k] = Notified(lines)[k]
         /\ Append(Notified(lines), n)[m + 1] = n
    BY <1>4, AppendProperties
  <1>14. \A k \in 1..m + 1 : Notified(longer)[k] = Append(Notified(lines), n)[k]
    <2> SUFFICES ASSUME NEW k \in 1..m + 1
                 PROVE  longer[g[k]].notice = Append(Notified(lines), n)[k]
      BY <1>12
    <2>1. CASE k = m + 1
      BY <1>2, <1>3, <1>8, <1>13, <2>1
    <2>2. CASE k \in 1..m
      BY <1>3, <1>4, <1>7, <1>13, <2>2
    <2> QED BY <1>6, <2>1, <2>2
  <1>15. Notified(longer) = Append(Notified(lines), n)
    BY <1>12, <1>13, <1>14, SeqEqual
  <1> QED BY <1>11, <1>15 DEF Numbered, longer

LEMMA LineRead ==
    ASSUME NEW lines \in Seq(Lines), Numbered(lines), lines # <<>>
    PROVE  /\ Numbered(Tail(lines))
           /\ Head(lines).id # 0 => Notified(Tail(lines)) = Notified(lines)
           /\ Head(lines).id = 0 => /\ Notified(lines) # <<>>
                                    /\ Head(Notified(lines)) = Head(lines).notice
                                    /\ Notified(Tail(lines)) = Tail(Notified(lines))
  <1>1. PICK m, f : Numbers1To(m, f, NoticesOf(lines))
    BY DEF Numbered
  <1> DEFINE rest == Tail(lines)
  <1>2. /\ rest \in Seq(Lines) /\ DOMAIN rest = 1..Len(lines) - 1
        /\ DOMAIN lines = 1..Len(lines) /\ Len(lines) \in Nat /\ Len(lines) # 0
        /\ \A i \in 1..Len(lines) - 1 : rest[i] = lines[i + 1]
        /\ Head(lines) = lines[1]
    BY HeadTailProperties, LenProperties, EmptySeq
  <1>3. /\ Notified(lines) = [k \in 1..m |-> lines[f[k]].notice]
        /\ Notified(lines) \in Seq(Notice) /\ Len(Notified(lines)) = m /\ m \in Nat
        /\ \A k \in 1..m : f[k] \in 1..Len(lines) /\ lines[f[k]].id = 0
        /\ \A k, l \in 1..m : k < l => f[k] < f[l]
        /\ \A i \in NoticesOf(lines) : \E k \in 1..m : f[k] = i
    <2>1. /\ Notified(lines) = [k \in 1..m |-> lines[f[k]].notice]
          /\ Notified(lines) \in Seq(Notice) /\ Len(Notified(lines)) = m /\ m \in Nat
          /\ \A k \in 1..m : f[k] \in 1..Len(lines) /\ lines[f[k]].id = 0
      BY <1>1, NumberedNotified
    <2>2. /\ \A k, l \in 1..m : k < l => f[k] < f[l]
          /\ \A i \in NoticesOf(lines) : \E k \in 1..m : f[k] = i
      BY <1>1 DEF Numbers1To
    <2> QED BY <2>1, <2>2
  <1> HIDE DEF rest
  <1>4. \A i \in NoticesOf(rest) : i + 1 \in NoticesOf(lines) /\ i \in Nat
    BY <1>2 DEF NoticesOf
  <1>5. ASSUME NEW i \in 2..Len(lines), lines[i].id = 0 PROVE i - 1 \in NoticesOf(rest)
    <2>1. i - 1 \in 1..Len(lines) - 1 /\ (i - 1) + 1 = i
      BY <1>2
    <2> QED BY <1>2, <1>5, <2>1 DEF NoticesOf
  <1>6. CASE Head(lines).id # 0
    <2> DEFINE g == [k \in 1..m |-> f[k] - 1]
    <2>1. \A k \in 1..m : f[k] \in 2..Len(lines)
      BY <1>2, <1>3, <1>6
    <2>2. g \in [1..m -> NoticesOf(rest)]
      BY <1>3, <1>5, <2>1
    <2>3. \A k, l \in 1..m : k < l => g[k] < g[l]
      BY <1>3, <2>1
    <2>4. ASSUME NEW i \in NoticesOf(rest) PROVE \E k \in 1..m : g[k] = i
      <3>1. PICK k \in 1..m : f[k] = i + 1
        BY <1>3, <1>4, <2>4
      <3>2. f[k] - 1 = i
        BY <1>4, <2>4, <3>1
      <3> QED BY <3>2
    <2>5. Numbers1To(m, g, NoticesOf(rest))
      BY <1>3, <2>2, <2>3, <2>4 DEF Numbers1To
    <2>6. Notified(rest) = [k \in 1..m |-> rest[g[k]].notice]
      <3> HIDE DEF g
      <3> QED BY <1>2, <2>5, NumberedNotified
    <2>7. \A k \in 1..m : rest[g[k]] = lines[f[k]]
      BY <1>2, <2>1
    <2> HIDE DEF g
    <2>8. Notified(rest) = Notified(lines)
      BY <1>3, <2>6, <2>7
    <2> QED BY <1>6, <2>5, <2>8 DEF Numbered, rest
  <1>7. CASE Head(lines).id = 0
    <2>1. 1 \in NoticesOf(lines)
      BY <1>2, <1>7 DEF NoticesOf
    <2>2. PICK first \in 1..m : f[first] = 1
      BY <1>3, <2>1
    <2>3. m >= 1 /\ 1 \in 1..m /\ f[1] = 1
      <3>1. m >= 1 /\ 1 \in 1..m
        BY <1>3, <2>2
      <3>2. first = 1 \/ 1 < first
        BY <1>3, <2>2
      <3>3. 1 < first => f[1] < 1
        BY <1>3, <2>2, <3>1
      <3>4. ~(f[1] < 1)
        BY <1>2, <1>3, <3>1
      <3> QED BY <2>2, <3>1, <3>2, <3>3, <3>4
    <2> DEFINE g == [k \in 1..m - 1 |-> f[k + 1] - 1]
    <2>4. \A k \in 1..m - 1 : k + 1 \in 1..m /\ f[k + 1] \in 2..Len(lines)
      <3> SUFFICES ASSUME NEW k \in 1..m - 1 PROVE k + 1 \in 1..m /\ f[k + 1] \in 2..Len(lines)
        OBVIOUS
      <3>1. k + 1 \in 1..m /\ 1 < k + 1
        BY <1>3
      <3>2. f[1] < f[k + 1] /\ f[k + 1] \in 1..Len(lines)
        BY <1>3, <2>3, <3>1
      <3> QED BY <1>2, <2>3, <3>1, <3>2
    <2>5. g \in [1..m - 1 -> NoticesOf(rest)]
      BY <1>3, <1>5, <2>4
    <2>6. ASSUME NEW k \in 1..m - 1, NEW l \in 1..m - 1, k < l PROVE g[k] < g[l]
      <3>1. k + 1 \in 1..m /\ l + 1 \in 1..m /\ k + 1 < l + 1
        BY <1>3, <2>6
      <3>2. f[k + 1] < f[l + 1]
        BY <1>3, <3>1
      <3> QED BY <2>4, <2>6, <3>2
    <2>7. ASSUME NEW i \in NoticesOf(rest) PROVE \E k \in 1..m - 1 : g[k] = i
      <3>1. PICK k \in 1..m : f[k] = i + 1
        BY <1>3, <1>4, <2>7
      <3>2. i \in 1..Len(lines) - 1 /\ i \in Nat /\ i # 0
        BY <1>2, <2>7 DEF NoticesOf
      <3>3. k # 1
        BY <2>3, <3>1, <3>2
      <3>4. k - 1 \in 1..m - 1 /\ (k - 1) + 1 = k
        BY <1>3, <3>3
      <3>5. g[k - 1] = i
        BY <3>1, <3>2, <3>4
      <3> QED BY <3>4, <3>5
    <2>8. Numbers1To(m - 1, g, NoticesOf(rest))
      <3>1. m - 1 \in Nat
        BY <1>3, <2>3
      <3> HIDE DEF g
      <3> QED BY <2>5, <2>6, <2>7, <3>1 DEF Numbers1To
    <2>9. \A k \in 1..m - 1 : rest[g[k]] = lines[f[k + 1]]
      BY <1>2, <2>4
    <2> HIDE DEF g
    <2>10. /\ Notified(rest) = [k \in 1..m - 1 |-> rest[g[k]].notice]
           /\ Notified(rest) \in Seq(Notice) /\ Len(Notified(rest)) = m - 1
      BY <1>2, <2>8, NumberedNotified
    <2>11. Notified(lines) # <<>>
      <3> SUFFICES ASSUME Notified(lines) = <<>> PROVE FALSE
        OBVIOUS
      <3>1. Len(Notified(lines)) = m
        BY <1>3
      <3> HIDE DEF Notified
      <3>2. Len(Notified(lines)) = 0
        BY EmptySeq
      <3> QED BY <2>3, <3>1, <3>2
    <2>12. Head(Notified(lines)) = Notified(lines)[1]
      BY <1>3, <2>11
    <2>13. Head(Notified(lines)) = Head(lines).notice
      BY <1>2, <1>3, <2>3, <2>12
    <2>14. /\ Tail(Notified(lines)) \in Seq(Notice) /\ Len(Tail(Notified(lines))) = m - 1
           /\ \A k \in 1..m - 1 : Tail(Notified(lines))[k] = Notified(lines)[k + 1]
      BY <1>3, <2>11, HeadTailProperties
    <2>15. \A k \in 1..m - 1 : Notified(rest)[k] = Tail(Notified(lines))[k]
      BY <1>3, <2>4, <2>9, <2>10, <2>14
    <2>16. Notified(rest) = Tail(Notified(lines))
      BY <2>10, <2>14, <2>15, SeqEqual
    <2> QED BY <1>7, <2>8, <2>11, <2>13, <2>16 DEF Numbered, rest
  <1> QED BY <1>6, <1>7

-------------------------------------------------------------------------------
(* The child keeps the promise (Delegation).                                   *)

(* A queue whose end is the start of another.                                  *)
LEMMA AppendLater ==
    ASSUME NEW S, NEW a \in Seq(S), NEW b \in Seq(S), NEW n \in S
    PROVE  a \o Append(b, n) = Append(a \o b, n)
  <1>1. <<n>> \in Seq(S) /\ Append(b, n) = b \o <<n>>
    BY AppendIsConcat
  <1>2. a \o b \in Seq(S)
    BY ConcatProperties
  <1>3. Append(a \o b, n) = (a \o b) \o <<n>>
    BY <1>2, AppendIsConcat
  <1> QED BY <1>1, <1>3, ConcatAssociative

LEMMA HeadMoves ==
    ASSUME NEW S, NEW a \in Seq(S), NEW b \in Seq(S), b # <<>>
    PROVE  Append(a, Head(b)) \o Tail(b) = a \o b
  <1>1. /\ Head(b) \in S /\ Tail(b) \in Seq(S) /\ Len(Tail(b)) = Len(b) - 1
        /\ \A i \in 1..Len(Tail(b)) : Tail(b)[i] = b[i + 1]
        /\ Head(b) = b[1] /\ Len(a) \in Nat /\ Len(b) \in Nat
    BY HeadTailProperties, LenProperties
  <1> DEFINE longer == Append(a, Head(b))
  <1>2. /\ longer \in Seq(S) /\ Len(longer) = Len(a) + 1
        /\ \A i \in 1..Len(a) : longer[i] = a[i]
        /\ longer[Len(a) + 1] = b[1]
    BY <1>1, AppendProperties
  <1> HIDE DEF longer
  <1>3. /\ longer \o Tail(b) \in Seq(S) /\ Len(longer \o Tail(b)) = Len(a) + Len(b)
        /\ \A i \in 1..Len(a) + Len(b) :
              (longer \o Tail(b))[i] = IF i <= Len(a) + 1 THEN longer[i]
                                       ELSE Tail(b)[i - (Len(a) + 1)]
    <2>1. /\ longer \o Tail(b) \in Seq(S)
          /\ Len(longer \o Tail(b)) = Len(longer) + Len(Tail(b))
          /\ \A i \in 1..Len(longer) + Len(Tail(b)) :
                (longer \o Tail(b))[i] = IF i <= Len(longer) THEN longer[i]
                                         ELSE Tail(b)[i - Len(longer)]
      BY <1>1, <1>2, ConcatProperties
    <2>2. Len(longer) + Len(Tail(b)) = Len(a) + Len(b)
      BY <1>1, <1>2
    <2> QED BY <1>2, <2>1, <2>2
  <1>4. /\ a \o b \in Seq(S) /\ Len(a \o b) = Len(a) + Len(b)
        /\ \A i \in 1..Len(a) + Len(b) : (a \o b)[i] = IF i <= Len(a) THEN a[i] ELSE b[i - Len(a)]
    BY ConcatProperties
  <1>5. ASSUME NEW i \in 1..Len(a) + Len(b) PROVE (longer \o Tail(b))[i] = (a \o b)[i]
    <2>1. CASE i <= Len(a)
      BY <1>1, <1>2, <1>3, <1>4, <2>1
    <2>2. CASE i = Len(a) + 1
      <3>1. i - Len(a) = 1 /\ ~(i <= Len(a)) /\ i <= Len(a) + 1
        BY <1>1, <2>2
      <3> QED BY <1>2, <1>3, <1>4, <2>2, <3>1
    <2>3. CASE i > Len(a) + 1
      <3>1. /\ i - (Len(a) + 1) \in 1..Len(Tail(b)) /\ ~(i <= Len(a)) /\ ~(i <= Len(a) + 1)
            /\ (i - (Len(a) + 1)) + 1 = i - Len(a)
        BY <1>1, <2>3
      <3>2. Tail(b)[i - (Len(a) + 1)] = b[i - Len(a)]
        BY <1>1, <3>1
      <3> QED BY <1>3, <1>4, <3>1, <3>2
    <2>4. i <= Len(a) \/ i = Len(a) + 1 \/ i > Len(a) + 1
      <3>1. Len(a) \in Int /\ i \in Int
        BY <1>1
      <3> QED BY <3>1
    <2> QED BY <2>1, <2>2, <2>3, <2>4
  <1>6. longer \o Tail(b) = a \o b
    BY <1>3, <1>4, <1>5, SeqEqual
  <1> QED BY <1>6 DEF longer

(* The tasks that wait for an outcome.                                         *)
Awaited == {t \in Tasks : status[t] # "none" /\ place[t] # "done"}

PromiseInv == ChildInv /\ Numbered(toParent) /\ ReportedAreFinal

QueuesOK ==
    /\ reports \in Seq(Notice) /\ inbox \in Seq(Notice)
    /\ InPipe \in Seq(Notice) /\ outgoing \in Seq(Notice)

LEMMA InPipeIsNotified == InPipe = Notified(toParent) /\ InPipe' = Notified(toParent')
  BY DEF InPipe, Notified, NoticesOf

LEMMA Queues ==
    ASSUME PromiseInv
    PROVE  /\ QueuesOK /\ toParent \in Seq(Lines) /\ Numbered(toParent)
           /\ reports \o inbox \in Seq(Notice) /\ reports \o inbox \o InPipe \in Seq(Notice)
           /\ Settled \in Seq(Notice) /\ Len(Settled) \in Nat /\ Len(reports) \in Nat
           /\ DOMAIN Settled = 1..Len(Settled)
           /\ Len(Settled) = Len(reports) + Len(inbox) + Len(InPipe) + Len(outgoing)
           /\ Len(inbox) \in Nat /\ Len(InPipe) \in Nat /\ Len(outgoing) \in Nat
  <1>1. /\ reports \in Seq(Notice) /\ inbox \in Seq(Notice) /\ outgoing \in Seq(Notice)
        /\ toParent \in Seq(Lines) /\ Numbered(toParent)
    BY TypesInParts DEF PromiseInv, ChildInv, TasksOK, LinesOK, ServerOK
  <1>2. InPipe \in Seq(Notice)
    BY <1>1, InPipeIsNotified, NumberedNotified DEF Numbered
  <1> HIDE DEF InPipe, Notice
  <1>3. /\ reports \o inbox \in Seq(Notice)
        /\ Len(reports \o inbox) = Len(reports) + Len(inbox)
    BY <1>1, ConcatProperties
  <1>4. /\ reports \o inbox \o InPipe \in Seq(Notice)
        /\ Len(reports \o inbox \o InPipe) = Len(reports \o inbox) + Len(InPipe)
    BY <1>2, <1>3, ConcatProperties
  <1>5. /\ Settled \in Seq(Notice)
        /\ Len(Settled) = Len(reports \o inbox \o InPipe) + Len(outgoing)
    BY <1>1, <1>4, ConcatProperties DEF Settled
  <1>6. /\ Len(Settled) \in Nat /\ DOMAIN Settled = 1..Len(Settled)
        /\ Len(reports) \in Nat /\ Len(inbox) \in Nat /\ Len(InPipe) \in Nat
        /\ Len(outgoing) \in Nat
    BY <1>1, <1>2, <1>5, LenProperties
  <1> QED BY <1>1, <1>2, <1>3, <1>4, <1>5, <1>6 DEF QueuesOK

(* An outcome that moves on is still on its way.                               *)
LEMMA ReadsMove ==
    ASSUME PromiseInv, Reads
    PROVE  Settled' = Settled /\ Numbered(toParent')
  <1>0. UNCHANGED <<reports, outgoing>>
    BY DEF Reads, taskVars
  <1>1. CASE ReaderEnds
    <2>1. UNCHANGED <<toParent, inbox>>
      BY <1>1 DEF ReaderEnds
    <2>2. InPipe' = InPipe
      BY <2>1, InPipeIsNotified
    <2> QED BY <1>0, <2>1, <2>2 DEF PromiseInv, Settled
  <1>2. CASE ReadLine
    <2>1. toParent # <<>> /\ toParent' = Tail(toParent)
      BY <1>2 DEF ReadLine
    <2>2. /\ Numbered(toParent')
          /\ Head(toParent).id # 0 => Notified(toParent') = Notified(toParent)
          /\ Head(toParent).id = 0 => /\ Notified(toParent) # <<>>
                                      /\ Head(Notified(toParent)) = Head(toParent).notice
                                      /\ Notified(toParent') = Tail(Notified(toParent))
      BY <2>1, Queues, LineRead
    <2>3. CASE Head(toParent).id # 0
      <3>1. InPipe' = InPipe /\ inbox' = inbox
        BY <1>2, <2>2, <2>3, InPipeIsNotified DEF ReadLine
      <3> QED BY <1>0, <2>2, <3>1 DEF Settled
    <2>4. CASE Head(toParent).id = 0
      <3>1. InPipe # <<>> /\ InPipe' = Tail(InPipe) /\ inbox' = Append(inbox, Head(InPipe))
        BY <1>2, <2>2, <2>4, InPipeIsNotified DEF ReadLine
      <3>2. Head(InPipe) \in Notice
        BY <3>1, Queues, HeadTailProperties DEF QueuesOK
      <3> HIDE DEF InPipe, Notice
      <3>3. reports \o inbox' = Append(reports \o inbox, Head(InPipe))
        BY <3>1, <3>2, Queues, AppendLater DEF QueuesOK
      <3>4. reports \o inbox' \o InPipe' = reports \o inbox \o InPipe
        BY <3>1, <3>3, Queues, HeadMoves DEF QueuesOK
      <3> QED BY <1>0, <2>2, <3>4 DEF Settled
    <2> QED BY <2>3, <2>4
  <1> QED BY <1>1, <1>2 DEF Reads

LEMMA ForwardMoves ==
    ASSUME PromiseInv, Forward
    PROVE  Settled' = Settled /\ Numbered(toParent')
  <1>0. /\ UNCHANGED <<reports, inbox>> /\ outgoing # <<>> /\ outgoing' = Tail(outgoing)
        /\ toParent' = Append(toParent, Notification(Head(outgoing)))
    BY DEF Forward
  <1>1. Head(outgoing) \in Notice
    BY <1>0, Queues, HeadTailProperties DEF QueuesOK
  <1>2. Numbered(toParent') /\ InPipe' = Append(InPipe, Head(outgoing))
    BY <1>0, <1>1, Queues, NoticeWritten, InPipeIsNotified
  <1> HIDE DEF InPipe, Notice
  <1>3. reports \o inbox \o InPipe' = Append(reports \o inbox \o InPipe, Head(outgoing))
    BY <1>1, <1>2, Queues, AppendLater DEF QueuesOK
  <1>4. reports \o inbox \o InPipe' \o outgoing' = reports \o inbox \o InPipe \o outgoing
    BY <1>0, <1>3, Queues, HeadMoves DEF QueuesOK
  <1> QED BY <1>0, <1>2, <1>4 DEF Settled

LEMMA WatchMoves ==
    ASSUME PromiseInv, Watch
    PROVE  /\ Settled' = Settled /\ Numbered(toParent')
           /\ Len(reports') = Len(reports) + 1 /\ Len(reports) < Len(Settled)
  <1>0. /\ UNCHANGED <<toParent, outgoing>> /\ inbox # <<>> /\ inbox' = Tail(inbox)
        /\ reports' = Append(reports, Head(inbox))
    BY DEF Watch, taskVars
  <1>1. Head(inbox) \in Notice
    BY <1>0, Queues, HeadTailProperties DEF QueuesOK
  <1>2. InPipe' = InPipe /\ Numbered(toParent')
    BY <1>0, InPipeIsNotified DEF PromiseInv
  <1> HIDE DEF InPipe, Notice
  <1>3. reports' \o inbox' = reports \o inbox
    BY <1>0, Queues, HeadMoves DEF QueuesOK
  <1>4. Settled' = Settled
    BY <1>0, <1>2, <1>3 DEF Settled
  <1>5. Len(reports') = Len(reports) + 1
    BY <1>0, <1>1, Queues, AppendProperties DEF QueuesOK
  <1>6. Len(inbox) # 0
    BY <1>0, Queues, EmptySeq DEF QueuesOK
  <1> QED BY <1>2, <1>4, <1>5, <1>6, Queues

(* An answer is no outcome.                                                    *)
LEMMA AnswersMoveNone ==
    ASSUME PromiseInv, UNCHANGED <<reports, inbox, outgoing>>,
           toParent' = toParent \/ \E id \in Ids : Replies(id)
    PROVE  Settled' = Settled /\ Numbered(toParent')
  <1>1. CASE toParent' = toParent
    <2>1. InPipe' = InPipe
      BY <1>1, InPipeIsNotified
    <2> QED BY <1>1, <2>1 DEF Settled, PromiseInv
  <1>2. ASSUME NEW id \in Ids, Replies(id) PROVE Settled' = Settled /\ Numbered(toParent')
    <2>1. AnswerTo(id) \in Lines /\ AnswerTo(id).id # 0
      BY Numbers DEF AnswerTo, Lines
    <2>2. Numbered(toParent') /\ InPipe' = InPipe
      BY <1>2, <2>1, Queues, AnswerWritten, InPipeIsNotified DEF Replies
    <2> QED BY <2>2 DEF Settled
  <1> QED BY <1>1, <1>2

(* A task that is done stays where it is, with the outcome it came to.         *)
LEMMA DoneStays ==
    ASSUME ChildInv, Next, NEW t \in Tasks, place[t] = "done"
    PROVE  place'[t] = "done" /\ status'[t] = status[t]
  <1>0. TasksOK /\ StatusOfPlace
    BY TypesInParts DEF ChildInv
  <1>1. ASSUME NEW u \in Tasks, Drive(u) PROVE place'[t] = "done" /\ status'[t] = status[t]
    <2>1. /\ t # u /\ place' = [place EXCEPT ![u] = place'[u]]
          /\ UNCHANGED status \/ \E s : status' = [status EXCEPT ![u] = s]
      BY <1>0, <1>1 DEF Drive, Begin, LlmAnswers, RequestFails, ToolsReturn, SummaryReturns,
                        NotesReturn, Goes, Completes, Ends, TasksOK
    <2> QED BY <1>0, <2>1 DEF TasksOK
  <1>2. ASSUME NEW u, RunTaskAsync(u) \/ AgentNotMade(u) \/ CreateTask(u)
        PROVE  place'[t] = "done" /\ status'[t] = status[t]
    BY <1>0, <1>2 DEF RunTaskAsync, AgentNotMade, CreateTask, TasksOK
  <1>3. ASSUME NEW u, CancelTask(u) PROVE place'[t] = "done" /\ status'[t] = status[t]
    <2>1. status[t] \in Final \cup {"none"} /\ UNCHANGED place
      BY <1>0, <1>3 DEF StatusOfPlace, CancelTask
    <2> QED BY <1>0, <1>3, <2>1 DEF CancelTask, TasksOK
  <1>4. CASE Serve
    BY <1>2, <1>3, <1>4 DEF Serve, GetTaskResult, taskVars
  <1>5. CASE Started
    BY <1>2, <1>5 DEF Started
  <1>6. CASE \E u \in Tasks : Runs(u)
    BY <1>1, <1>6 DEF Runs
  <1>7. CASE UNCHANGED <<place, status>>
    BY <1>7
  <1> QED BY <1>4, <1>5, <1>6, <1>7
          DEF Next, Asks, Hears, Abandons, Fails, Reads, Watch, Forward, Dies, taskVars

LEMMA LastWordStays ==
    ASSUME PromiseInv, Next, NEW i \in DOMAIN Settled
    PROVE  place'[Settled[i].task] = "done" /\ status'[Settled[i].task] = Settled[i].status
  <1>1. Settled[i] \in Notice
    BY Queues, ElementOfSeq
  <1>2. Settled[i].task \in Tasks /\ LastWord(Settled[i])
    BY <1>1 DEF Notice, PromiseInv, ReportedAreFinal
  <1> QED BY <1>1, <1>2, DoneStays DEF PromiseInv, LastWord

LEMMA StillDone ==
    ASSUME PromiseInv, Next, Settled' = Settled
    PROVE  ReportedAreFinal'
  BY LastWordStays DEF ReportedAreFinal, LastWord

LEMMA NothingHappens ==
    ASSUME Settled' = Settled, Awaited' = Awaited, UNCHANGED <<reports, open>>
    PROVE  UNCHANGED Promise!vars
  BY DEF Promise!vars, Settled, Awaited

(* A step of a task that makes no outcome leaves it awaited.                   *)
LEMMA DriveSettles ==
    ASSUME TasksOK, StatusOfPlace, NEW t \in Tasks, Drive(t)
    PROVE  \/ t \in Awaited /\ \E s \in Final : Ends(t, s)
           \/ UNCHANGED outgoing /\ Awaited' = Awaited
  <1>1. t \in Awaited /\ status[t] \in Statuses
    BY DEF Drive, Begin, LlmAnswers, RequestFails, ToolsReturn, SummaryReturns, NotesReturn,
           Awaited, StatusOfPlace, TasksOK
  <1>2. ASSUME NEW s, NEW p, s # "none", p # "done",
               status' = [status EXCEPT ![t] = s], place' = [place EXCEPT ![t] = p]
        PROVE  Awaited' = Awaited
    <2>1. ASSUME NEW u \in Tasks PROVE u \in Awaited' <=> u \in Awaited
      <3>1. CASE u = t
        BY <1>1, <1>2, <3>1 DEF Awaited, TasksOK
      <3>2. CASE u # t
        BY <1>2, <3>2 DEF Awaited, TasksOK
      <3> QED BY <3>1, <3>2
    <2> QED BY <2>1 DEF Awaited
  <1>3. ASSUME NEW p, p # "done", place' = [place EXCEPT ![t] = p], UNCHANGED status
        PROVE  Awaited' = Awaited
    <2>1. status' = [status EXCEPT ![t] = status[t]] /\ status[t] # "none"
      BY <1>1, <1>3, Same DEF TasksOK, Awaited
    <2> QED BY <1>2, <1>3, <2>1
  <1>4. ASSUME Completes(t)
        PROVE  (\E s \in Final : Ends(t, s)) \/ (UNCHANGED outgoing /\ Awaited' = Awaited)
    BY <1>2, <1>4 DEF Completes, Final
  <1>5. CASE Begin(t)
    BY <1>2, <1>5 DEF Begin
  <1>6. CASE LlmAnswers(t) \/ SummaryReturns(t)
    BY <1>1, <1>3, <1>4, <1>6 DEF LlmAnswers, SummaryReturns, Goes
  <1>7. CASE RequestFails(t)
    BY <1>1, <1>7 DEF RequestFails, Final
  <1>8. CASE ToolsReturn(t)
    BY <1>1, <1>3, <1>8 DEF ToolsReturn, Goes, Final
  <1>9. CASE NotesReturn(t)
    BY <1>1, <1>9 DEF NotesReturn, StatusOfPlace, Final
  <1> QED BY <1>5, <1>6, <1>7, <1>8, <1>9 DEF Drive

(* An outcome is settled.                                                      *)
LEMMA RunsKeepThePromise ==
    ASSUME PromiseInv, Next, NEW t \in Tasks, Runs(t)
    PROVE  [Promise!Next]_(Promise!vars) /\ Numbered(toParent') /\ ReportedAreFinal'
  <1>0. TasksOK /\ StatusOfPlace /\ ChildInv
    BY TypesInParts DEF PromiseInv, ChildInv
  <1>1. open /\ Drive(t) /\ UNCHANGED <<toParent, inbox, reports, open>>
    BY DEF Runs, linkVars
  <1>2. CASE UNCHANGED outgoing /\ Awaited' = Awaited
    <2>1. Settled' = Settled /\ Numbered(toParent')
      BY <1>1, <1>2, AnswersMoveNone
    <2> QED BY <1>1, <1>2, <2>1, StillDone, NothingHappens
  <1>3. ASSUME NEW s \in Final, Ends(t, s), t \in Awaited
        PROVE  [Promise!Next]_(Promise!vars) /\ Numbered(toParent') /\ ReportedAreFinal'
    <2> DEFINE n == [task |-> t, status |-> s]
    <2>1. /\ n \in Notice /\ outgoing' = Append(outgoing, n)
          /\ place'[t] = "done" /\ status'[t] = s
      BY <1>0, <1>3 DEF Ends, Notice, Statuses, TasksOK
    <2>2. InPipe' = InPipe /\ Numbered(toParent')
      BY <1>1, InPipeIsNotified DEF PromiseInv
    <2> HIDE DEF n
    <2>3. Settled' = Append(Settled, n)
      <3> DEFINE before == reports \o inbox \o InPipe
      <3>1. before \in Seq(Notice) /\ outgoing \in Seq(Notice) /\ before' = before
        BY <1>1, <2>2, Queues DEF QueuesOK
      <3>2. Settled = before \o outgoing /\ Settled' = before' \o outgoing'
        BY DEF Settled
      <3> HIDE DEF before, InPipe, Notice
      <3>3. before \o Append(outgoing, n) = Append(before \o outgoing, n)
        BY <2>1, <3>1, AppendLater
      <3> QED BY <2>1, <3>1, <3>2, <3>3
    <2>4. Awaited' = Awaited \ {t}
      <3>1. ASSUME NEW u \in Tasks PROVE u \in Awaited' <=> u \in Awaited /\ u # t
        <4>1. CASE u = t
          BY <2>1, <4>1 DEF Awaited
        <4>2. CASE u # t
          BY <1>0, <1>3, <4>2 DEF Ends, Awaited, TasksOK
        <4> QED BY <4>1, <4>2
      <3> QED BY <3>1 DEF Awaited
    <2>5. Promise!Settle(t, s)
      BY <1>1, <1>3, <2>3, <2>4 DEF Promise!Settle, Settled, Awaited, n
    <2>6. ReportedAreFinal'
      <3>1. /\ DOMAIN Settled' = 1..Len(Settled) + 1 /\ DOMAIN Settled = 1..Len(Settled)
            /\ Settled'[Len(Settled) + 1] = n /\ Len(Settled) \in Nat
            /\ \A i \in 1..Len(Settled) : Settled'[i] = Settled[i]
        <4> HIDE DEF Notice, Settled
        <4>1. Append(Settled, n) \in Seq(Notice) /\ Len(Append(Settled, n)) = Len(Settled) + 1
          BY <2>1, Queues, AppendProperties
        <4> QED BY <2>1, <2>3, <4>1, Queues, AppendProperties, LenProperties
      <3>2. n.task = t /\ n.status = s
        BY DEF n
      <3>3. ASSUME NEW i \in 1..Len(Settled)
            PROVE  place'[Settled[i].task] = "done" /\ status'[Settled[i].task] = Settled[i].status
        BY <3>1, LastWordStays
      <3>4. \A i \in 1..Len(Settled) + 1 : i = Len(Settled) + 1 \/ i \in 1..Len(Settled)
        BY <3>1
      <3>5. ASSUME NEW i \in 1..Len(Settled) + 1 PROVE LastWord(Settled[i])'
        BY <2>1, <3>1, <3>2, <3>3, <3>4 DEF LastWord
      <3> QED BY <3>1, <3>5 DEF ReportedAreFinal
    <2> QED BY <2>2, <2>5, <2>6 DEF Promise!Next
  <1> QED BY <1>0, <1>1, <1>2, <1>3, DriveSettles

LEMMA ServeKeepsThePromise ==
    ASSUME PromiseInv, Next, Serve
    PROVE  [Promise!Next]_(Promise!vars) /\ Numbered(toParent') /\ ReportedAreFinal'
  <1>0. TasksOK /\ StatusOfPlace /\ LinesOK
    BY TypesInParts DEF PromiseInv, ChildInv
  <1> DEFINE line == Head(toServer)
  <1>1. UNCHANGED <<inbox, open, reports>> /\ line \in Calls
    BY <1>0, HeadTailProperties DEF Serve, Takes, LinesOK
  <1> HIDE DEF line
  <1>2. /\ line.id \in Ids
        /\ line.request.kind # "run_task_async" => line.request.task \in Tasks
    BY <1>1 DEF Calls, Requests
  <1>3. toParent' = toParent \/ \E id \in Ids : Replies(id)
    BY <1>2 DEF Serve, GetTaskResult, line
  <1>4. UNCHANGED outgoing /\ Awaited' = Awaited
    <2>1. CASE UNCHANGED taskVars
      BY <2>1 DEF taskVars, Awaited
    <2>2. ASSUME NEW new \in Tasks, RunTaskAsync(new) PROVE UNCHANGED outgoing /\ Awaited' = Awaited
      <3>1. status[new] = "none" /\ UNCHANGED <<status, outgoing>>
        BY <1>0, <2>2 DEF RunTaskAsync, StatusOfPlace
      <3>2. \A u \in Tasks : u # new => place'[u] = place[u]
        BY <1>0, <2>2 DEF RunTaskAsync, TasksOK
      <3> QED BY <3>1, <3>2 DEF Awaited
    <2>3. CASE CancelTask(line.request.task)
      <3> DEFINE t == line.request.task
      <3>1. UNCHANGED <<place, outgoing>> /\ status[t] # "none"
        BY <2>3 DEF CancelTask
      <3>2. \A u \in Tasks : status'[u] = "none" <=> status[u] = "none"
        BY <1>0, <2>3 DEF CancelTask, TasksOK
      <3> QED BY <3>1, <3>2 DEF Awaited
    <2> QED BY <2>1, <2>2, <2>3 DEF Serve, GetTaskResult, line
  <1>5. Settled' = Settled /\ Numbered(toParent')
    BY <1>1, <1>3, <1>4, AnswersMoveNone
  <1> QED BY <1>1, <1>4, <1>5, StillDone, NothingHappens

(* A task that was accepted is awaited.                                        *)
LEMMA StartedKeepsThePromise ==
    ASSUME PromiseInv, Next, Started
    PROVE  [Promise!Next]_(Promise!vars) /\ Numbered(toParent') /\ ReportedAreFinal'
  <1>0. TasksOK /\ StatusOfPlace /\ ServesATask
    BY TypesInParts DEF PromiseInv, ChildInv
  <1>1. PICK t \in Tasks : t = serving.task /\ serving.id \in Ids
    BY <1>0 DEF Started, ServesATask
  <1>2. /\ open /\ UNCHANGED <<inbox, open, reports, outgoing>> /\ Replies(serving.id)
        /\ CreateTask(t) \/ AgentNotMade(t)
    BY <1>1 DEF Started, CreateTask, AgentNotMade
  <1>3. Settled' = Settled /\ Numbered(toParent')
    BY <1>1, <1>2, AnswersMoveNone
  <1>4. ReportedAreFinal'
    BY <1>3, StillDone
  <1>5. status[t] = "none" /\ place[t] = "starts"
    BY <1>0, <1>1, <1>2 DEF CreateTask, AgentNotMade, StatusOfPlace
  <1>6. CASE CreateTask(t)
    <2>1. Awaited' = Awaited \cup {t}
      <3>1. ASSUME NEW u \in Tasks PROVE u \in Awaited' <=> u \in Awaited \/ u = t
        <4>1. CASE u = t
          BY <1>0, <1>6, <4>1 DEF CreateTask, Awaited, TasksOK
        <4>2. CASE u # t
          BY <1>0, <1>6, <4>2 DEF CreateTask, Awaited, TasksOK
        <4> QED BY <4>1, <4>2
      <3> QED BY <1>1, <3>1 DEF Awaited
    <2>2. t \notin Awaited
      BY <1>5 DEF Awaited
    <2>3. ~Promise!IsSettled(t)
      BY <1>5 DEF Promise!IsSettled, PromiseInv, ReportedAreFinal, LastWord
    <2>4. Promise!Accept(t)
      BY <1>2, <1>3, <2>1, <2>2, <2>3 DEF Promise!Accept, Settled, Awaited
    <2> QED BY <1>1, <1>3, <1>4, <2>4 DEF Promise!Next
  <1>7. CASE AgentNotMade(t)
    <2>1. ASSUME NEW u \in Tasks PROVE u \in Awaited' <=> u \in Awaited
      <3>1. CASE u = t
        BY <1>5, <1>7, <3>1 DEF AgentNotMade, Awaited
      <3>2. CASE u # t
        BY <1>0, <1>7, <3>2 DEF AgentNotMade, Awaited, TasksOK
      <3> QED BY <3>1, <3>2
    <2>2. Awaited' = Awaited
      BY <2>1 DEF Awaited
    <2> QED BY <1>2, <1>3, <1>4, <2>2, NothingHappens
  <1> QED BY <1>2, <1>6, <1>7

LEMMA PromiseStep ==
    ASSUME PromiseInv, [Next]_vars
    PROVE  [Promise!Next]_(Promise!vars) /\ Numbered(toParent') /\ ReportedAreFinal'
  <1>1. ASSUME UNCHANGED <<taskVars, reports, open>>, Settled' = Settled
        PROVE  UNCHANGED Promise!vars
    BY <1>1, NothingHappens DEF Awaited, taskVars
  <1>2. ASSUME UNCHANGED <<taskVars, reports, open, inbox, toParent>>
        PROVE  UNCHANGED Promise!vars /\ Settled' = Settled /\ Numbered(toParent')
    BY <1>1, <1>2, AnswersMoveNone DEF taskVars
  <1>3. CASE UNCHANGED vars
    <2>1. UNCHANGED Promise!vars /\ Settled' = Settled /\ Numbered(toParent')
      BY <1>2, <1>3 DEF vars, linkVars
    <2>2. UNCHANGED <<place, status>>
      BY <1>3 DEF vars, taskVars
    <2> QED BY <2>1, <2>2 DEF ReportedAreFinal, LastWord, PromiseInv
  <1> SUFFICES ASSUME Next
               PROVE  [Promise!Next]_(Promise!vars) /\ Numbered(toParent') /\ ReportedAreFinal'
    BY <1>3
  <1>4. CASE \E c \in Callers : Asks(c) \/ Hears(c) \/ Abandons(c) \/ Fails(c)
    <2>1. UNCHANGED <<taskVars, reports, open, inbox, toParent>>
      BY <1>4 DEF Asks, Hears, Abandons, Fails, Call, FutureReturns, GivesUp, FailsAtEnd
    <2> QED BY <1>2, <2>1, StillDone
  <1>5. CASE Reads
    <2>1. UNCHANGED <<taskVars, reports, open>>
      BY <1>5 DEF Reads, ReadLine, ReaderEnds
    <2> QED BY <1>1, <1>5, <2>1, ReadsMove, StillDone
  <1>6. CASE Forward
    <2>1. Awaited' = Awaited /\ UNCHANGED <<reports, open>>
      BY <1>6 DEF Forward, Awaited
    <2> QED BY <1>6, <2>1, ForwardMoves, StillDone, NothingHappens
  <1>7. CASE Watch
    <2>1. UNCHANGED <<taskVars, open>>
      BY <1>7 DEF Watch
    <2>2. Promise!Report
      BY <1>7, <2>1, WatchMoves DEF Promise!Report, Settled, taskVars
    <2> QED BY <1>7, <2>2, WatchMoves, StillDone DEF Promise!Next
  <1>8. CASE Dies
    <2>1. UNCHANGED <<taskVars, reports, inbox, toParent>> /\ ~open'
      BY <1>8 DEF Dies, ServerEnds
    <2>2. Settled' = Settled /\ Numbered(toParent')
      BY <2>1, AnswersMoveNone DEF taskVars
    <2>3. Promise!Lose
      BY <2>1, <2>2 DEF Promise!Lose, Settled, taskVars
    <2> QED BY <2>2, <2>3, StillDone DEF Promise!Next
  <1> QED BY <1>4, <1>5, <1>6, <1>7, <1>8, RunsKeepThePromise, ServeKeepsThePromise,
             StartedKeepsThePromise DEF Next

LEMMA PromiseInit == Init => PromiseInv /\ Promise!Init
  <1> SUFFICES ASSUME Init PROVE PromiseInv /\ Promise!Init
    OBVIOUS
  <1>1. toParent = <<>> /\ reports = <<>> /\ inbox = <<>> /\ outgoing = <<>> /\ open
    BY DEF Init, TasksInit, LinkInit
  <1>2. Numbers1To(0, [k \in 1..0 |-> 0], NoticesOf(toParent))
    <2>1. NoticesOf(toParent) = {}
      BY <1>1 DEF NoticesOf
    <2> QED BY <2>1 DEF Numbers1To
  <1>3. Numbered(toParent)
    BY <1>2 DEF Numbered
  <1>4. toParent \in Seq(Lines)
    BY <1>1, EmptySeq
  <1>5. Notified(toParent) \in Seq(Notice) /\ Len(Notified(toParent)) = 0
    BY <1>2, <1>4, NumberedNotified
  <1>6. InPipe = <<>>
    BY <1>5, EmptySeq, SeqEqual, InPipeIsNotified
  <1>7. Settled = <<>>
    BY <1>1, <1>6 DEF Settled
  <1>8. ReportedAreFinal
    BY <1>7 DEF ReportedAreFinal
  <1>9. Promise!Init
    BY <1>1, <1>7 DEF Promise!Init, Settled, Init, TasksInit
  <1> QED BY <1>3, <1>8, <1>9, ChildInit DEF PromiseInv

(* Every outcome comes to the parent once, as it stands and in order, unless   *)
(* the child is lost: a child over FIFOs implements Delegation.                *)
THEOREM PromiseKept == Spec => KeepsPromise
  <1>1. PromiseInv /\ [Next]_vars => PromiseInv'
    BY PromiseStep, ChildStepKeeps DEF PromiseInv
  <1>2. Spec => []PromiseInv
    BY <1>1, PromiseInit, PTL DEF Spec
  <1>3. PromiseInv /\ [Next]_vars => [Promise!Next]_(Promise!vars)
    BY PromiseStep
  <1> QED BY <1>2, <1>3, PromiseInit, PTL DEF KeepsPromise, Promise!Spec, Spec

(* What the parent is told of a task is its last word: the task is over, with  *)
(* its notes, and its status stays, whatever is asked and cancelled since.     *)
THEOREM WhatIsReportedStands == Spec => []ReportedAreFinal
  <1>1. PromiseInv /\ [Next]_vars => PromiseInv'
    BY PromiseStep, ChildStepKeeps DEF PromiseInv
  <1> QED BY <1>1, PromiseInit, PTL DEF Spec, PromiseInv

-------------------------------------------------------------------------------
(* The same tasks and the same link in a server on its standard output         *)
(* (TaskServer): with its own variables, beside those of the tasks and the link. *)
CONSTANTS Configs, ToolNames, Keys
VARIABLES atRequest, settings, given, enabled, toolsOffered, prompted, memory

Stdio == INSTANCE TaskServer WITH
    serving <- atRequest, config <- settings, offered <- toolsOffered

(* No call is given up while the server is there to answer it.                 *)
PatientSpec ==
    Stdio!Init /\ [][Stdio!Next /\ \A c \in Callers : Stdio!GivesUp(c) => ~open]_(Stdio!vars)

One(x) == <<x>>

(* What is under way is of the call that holds the lock: its line, or the      *)
(* request the server is at, or the answer.                                    *)
LockHolder ==
    /\ lastId \in Nat
    /\ DOMAIN waiting = Callers
    /\ \A c \in Callers : waiting[c] # 0 => lock = c
    /\ open /\ lock # 0 => lock \in Callers /\ waiting[lock] # 0

OneUnderWay ==
    /\ toServer = <<>> \/ \E line : toServer = One(line)
    /\ toParent = <<>> \/ \E line : toParent = One(line)
    /\ toServer # <<>> => /\ open /\ lock # 0 /\ toParent = <<>> /\ atRequest = Stdio!NotServing
                          /\ Head(toServer).id = waiting[lock]
    /\ open /\ atRequest # Stdio!NotServing =>
           lock # 0 /\ toParent = <<>> /\ atRequest.id = waiting[lock]
    /\ open /\ toParent # <<>> => lock # 0
    /\ toParent # <<>> => \A c \in Callers : waiting[c] # 0 => Head(toParent).id = waiting[c]

StdioInv == LockHolder /\ OneUnderWay /\ AnswersMatch

LEMMA OneLine ==
    ASSUME NEW x
    PROVE  /\ One(x) # <<>> /\ Head(One(x)) = x /\ Tail(One(x)) = <<>>
           /\ Append(<<>>, x) = One(x)
  BY DEF One

LEMMA StdioStarts == Stdio!Init => StdioInv
  BY DEF Stdio!Init, Stdio!LinkInit, LinkInit, StdioInv, LockHolder, OneUnderWay, AnswersMatch,
         Stdio!NotServing

(* A call leaves: it has its answer, or the server has gone.                   *)
LEMMA StdioLeaves ==
    ASSUME StdioInv, NEW c \in Callers, waiting[c] # 0,
           lock' = 0, waiting' = [waiting EXCEPT ![c] = 0],
           UNCHANGED <<lastId, toServer, open, atRequest>>,
           got'.id = got'.answer,
           \/ toParent # <<>> /\ toParent' = Tail(toParent)
           \/ ~open /\ UNCHANGED toParent
    PROVE  StdioInv'
  <1>0. LockHolder /\ OneUnderWay
    BY DEF StdioInv
  <1>1. /\ DOMAIN waiting' = Callers
        /\ \A d \in Callers : waiting'[d] = 0
    BY <1>0 DEF LockHolder
  <1>2. toServer = <<>>
    BY <1>0 DEF OneUnderWay
  <1>3. \A line : toParent = One(line) => Tail(toParent) = <<>>
    BY OneLine
  <1>4. LockHolder'
    BY <1>0, <1>1 DEF LockHolder
  <1>5. open => atRequest = Stdio!NotServing
    BY <1>0 DEF OneUnderWay
  <1>6. toParent' = <<>> \/ (~open /\ UNCHANGED toParent)
    BY <1>0, <1>3 DEF OneUnderWay
  <1>7. Stdio!NotServing' = Stdio!NotServing
    BY DEF Stdio!NotServing
  <1>8. OneUnderWay'
    BY <1>0, <1>1, <1>2, <1>5, <1>6, <1>7 DEF OneUnderWay
  <1> QED BY <1>4, <1>8 DEF StdioInv, AnswersMatch

LEMMA StdioAsks ==
    ASSUME StdioInv, NEW c \in Callers, Stdio!Asks(c), UNCHANGED atRequest
    PROVE  StdioInv'
  <1>0. LockHolder /\ OneUnderWay /\ AnswersMatch
    BY DEF StdioInv
  <1>1. PICK request : Stdio!Call(c, request)
    BY DEF Stdio!Asks
  <1>2. /\ lock = 0 /\ lastId' = lastId + 1 /\ UNCHANGED <<got, toParent, open, atRequest>>
        /\ IF open
             THEN /\ lock' = c
                  /\ waiting' = [waiting EXCEPT ![c] = lastId']
                  /\ toServer' = Append(toServer, [id |-> lastId', request |-> request])
             ELSE UNCHANGED <<lock, waiting, toServer>>
    BY <1>1 DEF Stdio!Call
  <1>3. lastId' \in Nat /\ lastId' # 0
    BY <1>0, <1>2 DEF LockHolder
  <1>4. Stdio!NotServing' = Stdio!NotServing /\ \A d \in Callers : waiting[d] # 0 => d = lock
    BY <1>0 DEF Stdio!NotServing, LockHolder
  <1>5. CASE open
    <2>1. toServer = <<>> /\ toParent = <<>> /\ atRequest = Stdio!NotServing
      BY <1>0, <1>2, <1>5 DEF OneUnderWay
    <2>2. PICK line : line = [id |-> lastId', request |-> request]
      OBVIOUS
    <2>3. toServer' = One(line) /\ Head(toServer') = line /\ line.id = lastId'
      BY <1>2, <1>5, <2>1, <2>2, OneLine
    <2>4. lock' = c /\ waiting'[c] = lastId' /\ DOMAIN waiting' = Callers
          /\ \A d \in Callers : d # c => waiting'[d] = waiting[d]
      BY <1>0, <1>2, <1>5 DEF LockHolder
    <2>5. \A d \in Callers : waiting[d] # 0 => d = 0
      BY <1>2, <1>4
    <2>6. LockHolder'
      BY <1>0, <1>2, <1>3, <1>5, <2>4, <2>5, McpLinkAssumption DEF LockHolder
    <2>7. OneUnderWay'
      BY <1>2, <1>3, <1>4, <1>5, <2>1, <2>3, <2>4, McpLinkAssumption DEF OneUnderWay
    <2> QED BY <1>0, <1>2, <2>6, <2>7 DEF StdioInv, AnswersMatch
  <1>6. CASE ~open
    <2>1. LockHolder'
      BY <1>0, <1>2, <1>3, <1>6 DEF LockHolder
    <2>2. OneUnderWay'
      BY <1>0, <1>2, <1>4, <1>6 DEF OneUnderWay
    <2> QED BY <1>0, <1>2, <2>1, <2>2 DEF StdioInv, AnswersMatch
  <1> QED BY <1>5, <1>6

(* The parent's steps, and the end of the server.                              *)
LEMMA StdioClient ==
    ASSUME StdioInv, Stdio!Client, \A c \in Callers : Stdio!GivesUp(c) => ~open
    PROVE  StdioInv'
  <1>0. LockHolder /\ OneUnderWay /\ AnswersMatch /\ UNCHANGED atRequest
    BY DEF StdioInv, Stdio!Client, Stdio!serverVars
  <1>1. ASSUME NEW c \in Callers, Stdio!LineReturns(c) PROVE StdioInv'
    <2>1. /\ waiting[c] # 0 /\ toParent # <<>> /\ toParent' = Tail(toParent)
          /\ lock' = 0 /\ waiting' = [waiting EXCEPT ![c] = 0]
          /\ UNCHANGED <<lastId, toServer, open>>
          /\ got' = [id |-> waiting[c], answer |-> Head(toParent).id]
      BY <1>1 DEF Stdio!LineReturns, Stdio!Leaves
    <2>2. got'.id = got'.answer
      BY <1>0, <2>1 DEF OneUnderWay
    <2> QED BY <1>0, <2>1, <2>2, StdioLeaves
  <1>2. ASSUME NEW c \in Callers, Stdio!GivesUp(c) \/ Stdio!FailsAtEnd(c) PROVE StdioInv'
    <2>1. /\ waiting[c] # 0 /\ ~open /\ lock' = 0 /\ waiting' = [waiting EXCEPT ![c] = 0]
          /\ UNCHANGED <<lastId, got, toServer, toParent, open>>
      BY <1>2 DEF Stdio!GivesUp, Stdio!FailsAtEnd, Stdio!Leaves
    <2> QED BY <1>0, <2>1, StdioLeaves DEF AnswersMatch
  <1>3. CASE Stdio!ServerEnds
    <2>1. /\ ~open' /\ toServer' = <<>>
          /\ UNCHANGED <<lastId, lock, waiting, got, toParent>>
      BY <1>3 DEF Stdio!ServerEnds, Stdio!callVars
    <2>2. LockHolder' /\ AnswersMatch'
      BY <1>0, <2>1 DEF LockHolder, AnswersMatch
    <2>3. OneUnderWay'
      BY <1>0, <2>1 DEF OneUnderWay
    <2> QED BY <2>2, <2>3 DEF StdioInv
  <1> QED BY <1>0, <1>1, <1>2, <1>3, StdioAsks DEF Stdio!Client

(* The server answers the request it is at.                                    *)
LEMMA StdioAnswers ==
    ASSUME StdioInv, open, atRequest # Stdio!NotServing,
           toParent' = Append(toParent, [id |-> atRequest.id]),
           atRequest' = Stdio!NotServing,
           UNCHANGED <<lastId, lock, waiting, got, toServer, open>>
    PROVE  StdioInv'
  <1>0. LockHolder /\ OneUnderWay /\ AnswersMatch
    BY DEF StdioInv
  <1>1. /\ lock # 0 /\ toParent = <<>> /\ toServer = <<>> /\ atRequest.id = waiting[lock]
    BY <1>0 DEF OneUnderWay
  <1>2. PICK line : line = [id |-> atRequest.id]
    OBVIOUS
  <1>3. toParent' = One(line) /\ Head(toParent') = line /\ line.id = waiting[lock]
    BY <1>1, <1>2, OneLine
  <1>4. LockHolder' /\ AnswersMatch' /\ Stdio!NotServing' = Stdio!NotServing
    BY <1>0 DEF LockHolder, AnswersMatch, Stdio!NotServing
  <1>5. OneUnderWay'
    BY <1>0, <1>1, <1>3, <1>4 DEF OneUnderWay, LockHolder
  <1> QED BY <1>4, <1>5 DEF StdioInv

(* It takes a line: an answer to it goes back at once, or it is at the request. *)
LEMMA StdioServes ==
    ASSUME StdioInv, Stdio!Serve
    PROVE  StdioInv'
  <1>0. LockHolder /\ OneUnderWay /\ AnswersMatch
    BY DEF StdioInv
  <1> DEFINE line == Head(toServer)
  <1>1. /\ open /\ toServer # <<>> /\ toServer' = Tail(toServer) /\ atRequest = Stdio!NotServing
        /\ UNCHANGED <<lastId, lock, waiting, got, open>>
    BY DEF Stdio!Serve, Stdio!Takes, Stdio!callVars
  <1>2. /\ toServer' = <<>> /\ toParent = <<>> /\ lock # 0 /\ line.id = waiting[lock]
    BY <1>0, <1>1, OneLine DEF OneUnderWay
  <1>3. lock \in Callers /\ waiting[lock] # 0
    BY <1>0, <1>1, <1>2 DEF LockHolder
  <1>4. LockHolder' /\ AnswersMatch' /\ Stdio!NotServing' = Stdio!NotServing
    BY <1>0, <1>1 DEF LockHolder, AnswersMatch, Stdio!NotServing
  <1>5. \/ atRequest'.id = line.id /\ UNCHANGED toParent
        \/ UNCHANGED atRequest /\ toParent' = Append(toParent, [id |-> line.id])
    BY DEF Stdio!Serve, Stdio!Submits, Stdio!Awaits, Stdio!Replies, Stdio!AnswerTo
  <1>6. CASE atRequest'.id = line.id /\ UNCHANGED toParent
    BY <1>1, <1>2, <1>4, <1>6 DEF OneUnderWay, StdioInv
  <1>7. CASE UNCHANGED atRequest /\ toParent' = Append(toParent, [id |-> line.id])
    <2>1. PICK answer : answer = [id |-> line.id]
      OBVIOUS
    <2>2. toParent' = One(answer) /\ Head(toParent') = answer /\ answer.id = waiting[lock]
      BY <1>2, <1>7, <2>1, OneLine
    <2>3. OneUnderWay'
      BY <1>0, <1>1, <1>2, <1>4, <1>7, <2>2 DEF OneUnderWay, LockHolder
    <2> QED BY <1>4, <2>3 DEF StdioInv
  <1> QED BY <1>5, <1>6, <1>7

LEMMA StdioStep ==
    ASSUME StdioInv,
           [Stdio!Next /\ \A c \in Callers : Stdio!GivesUp(c) => ~open]_(Stdio!vars)
    PROVE  StdioInv'
  <1>1. ASSUME UNCHANGED <<lastId, lock, waiting, got, toServer, toParent, open, atRequest>>
        PROVE  StdioInv'
    <2>1. Stdio!NotServing' = Stdio!NotServing
      BY DEF Stdio!NotServing
    <2> QED BY <1>1, <2>1 DEF StdioInv, LockHolder, OneUnderWay, AnswersMatch
  <1>2. CASE Stdio!Started
    <2>1. /\ open /\ atRequest.tasks # {}
          /\ UNCHANGED <<lastId, lock, waiting, got, toServer, open>>
          /\ \/ UNCHANGED <<atRequest, toParent>>
             \/ /\ toParent' = Append(toParent, [id |-> atRequest.id])
                /\ atRequest' = Stdio!NotServing
      BY <1>2 DEF Stdio!Started, Stdio!callVars, Stdio!Replies, Stdio!AnswerTo
    <2>2. atRequest # Stdio!NotServing
      BY <2>1 DEF Stdio!NotServing
    <2> QED BY <1>1, <2>1, <2>2, StdioAnswers
  <1>3. CASE Stdio!RunTaskReturns \/ \E ended \in BOOLEAN : Stdio!AwaitReturns(ended)
    <2>1. /\ open /\ atRequest.kind \in {"run_task", "await_tasks"}
          /\ UNCHANGED <<lastId, lock, waiting, got, toServer, open>>
          /\ toParent' = Append(toParent, [id |-> atRequest.id])
          /\ atRequest' = Stdio!NotServing
      BY <1>3 DEF Stdio!RunTaskReturns, Stdio!AwaitReturns, Stdio!callVars, Stdio!Replies,
                  Stdio!AnswerTo
    <2>2. atRequest # Stdio!NotServing
      BY <2>1 DEF Stdio!NotServing
    <2> QED BY <2>1, <2>2, StdioAnswers
  <1>4. ASSUME NEW t \in Stdio!Tasks, Stdio!Runs(t) PROVE StdioInv'
    BY <1>1, <1>4 DEF Stdio!Runs, Stdio!linkVars, Stdio!callVars
  <1>5. CASE UNCHANGED Stdio!vars
    BY <1>1, <1>5 DEF Stdio!vars, Stdio!linkVars, Stdio!callVars, Stdio!serverVars
  <1> QED BY <1>2, <1>3, <1>4, <1>5, StdioClient, StdioServes DEF Stdio!Next

(* mcp/manager.py:401: over standard input and output, calls that are serialised *)
(* by the lock of the server have each their own answer, for any number of      *)
(* callers, calls and tasks, also when the server ends; unless one is given up. *)
THEOREM SerialCallsMatch == PatientSpec => []AnswersMatch
  <1>1. StdioInv /\ [Stdio!Next /\ \A c \in Callers : Stdio!GivesUp(c) => ~open]_(Stdio!vars)
            => StdioInv'
    BY StdioStep
  <1>2. StdioInv => AnswersMatch
    BY DEF StdioInv
  <1> QED BY <1>1, <1>2, StdioStarts, PTL DEF PatientSpec
===============================================================================
