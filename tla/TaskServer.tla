------------------------------ MODULE TaskServer ------------------------------
(* This program as an MCP server on its own standard input and output          *)
(* (run_stdio), the child of a client that reaches it as a StdioTransport.     *)
(* One request is handled after another, also those that block until a task or *)
(* several have come to an end; the tasks run beside it.  Nothing takes what   *)
(* tasks put into _outgoing_queue.                                             *)
EXTENDS McpTasks, McpLink

CONSTANTS
    Configs,    \* target, scope and max_iterations of the primary agent
    ToolNames,  \* tools of the primary agent
    Keys        \* keys of the memory

VARIABLES
    serving,    \* the request that is handled, as [id, kind, tasks]; id 0 if none
    config,     \* what tasks inherit from the primary agent
    given,      \* the configuration of each task
    enabled,    \* tools whose flag is set: all agents have the same tools
    offered,    \* tools the requests of each task offer to the model
    prompted,   \* tasks whose history has the prompt of the task
    memory      \* keys of _memory

serverVars == <<serving, config, given, enabled, offered, prompted, memory>>
vars == <<taskVars, linkVars, serverVars>>

Blocking == {"run_task", "await_tasks"}

(* update_config may change any of the settings, clear_memory one key or all.  *)
Requests ==
    [kind : {"run_task", "run_task_async", "look"}]
        \cup [kind : {"cancel_task", "reset_conversation"}, task : Tasks]
        \cup [kind : {"await_tasks"}, tasks : SUBSET Tasks \ {{}}]
        \cup [kind : {"update_config"}, config : Configs]
        \cup [kind : {"enable_tool", "disable_tool"}, tool : ToolNames]
        \cup [kind : {"store_memory", "clear_memory"}, key : Keys]
        \cup [kind : {"wipe_memory"}]

NotServing == [id |-> 0, kind |-> "none", tasks |-> {}]

(* bootstrap: the primary agent is only a source of configuration.             *)
Init ==
    /\ TasksInit
    /\ LinkInit
    /\ serving = NotServing
    /\ config \in Configs
    /\ given = [t \in Tasks |-> config]
    /\ enabled = ToolNames
    /\ offered = [t \in Tasks |-> {}]
    /\ prompted = {}
    /\ memory = {}

-------------------------------------------------------------------------------
(* Handlers that answer at once.                                               *)
UpdateConfig(request) ==
    /\ request.kind = "update_config"
    /\ config' = request.config
    /\ UNCHANGED <<taskVars, given, enabled, offered, prompted, memory>>

SetTool(request) ==
    /\ request.kind \in {"enable_tool", "disable_tool"}
    /\ enabled' = IF request.kind = "enable_tool" THEN enabled \cup {request.tool}
                                                  ELSE enabled \ {request.tool}
    /\ UNCHANGED <<taskVars, config, given, offered, prompted, memory>>

(* The history of a task is cleared, whether or not it is running.             *)
ResetConversation(request) ==
    /\ request.kind = "reset_conversation"
    /\ prompted' = prompted \ {request.task}
    /\ UNCHANGED <<taskVars, config, given, enabled, offered, memory>>

StoreMemory(request) ==
    /\ request.kind = "store_memory"
    /\ memory' = memory \cup {request.key}
    /\ UNCHANGED <<taskVars, config, given, enabled, offered, prompted>>

ClearMemory(request) ==
    /\ \/ request.kind = "clear_memory" /\ memory' = memory \ {request.key}
       \/ request.kind = "wipe_memory" /\ memory' = {}
    /\ UNCHANGED <<taskVars, config, given, enabled, offered, prompted>>

Cancel(request) ==
    /\ request.kind = "cancel_task"
    /\ IF status[request.task] = "none" THEN UNCHANGED taskVars ELSE CancelTask(request.task)
    /\ UNCHANGED <<config, given, enabled, offered, prompted, memory>>

(* Handlers that only look at the state.                                       *)
Looks(request) ==
    /\ request.kind = "look"
    /\ UNCHANGED <<taskVars, config, given, enabled, offered, prompted, memory>>

-------------------------------------------------------------------------------
(* Handlers that await: the loop reads no other request meanwhile.             *)

(* run_task, run_task_async: the settings are resolved, then the runtime of    *)
(* the new agent starts.                                                       *)
Submits(line) ==
    /\ line.request.kind \in {"run_task", "run_task_async"}
    /\ \E new \in Tasks :
         /\ RunTaskAsync(new)
         /\ given' = [given EXCEPT ![new] = config]
         /\ serving' = [id |-> line.id, kind |-> line.request.kind, tasks |-> {new}]
    /\ UNCHANGED <<toParent, config, enabled, offered, prompted, memory>>

Started ==
    /\ open
    /\ \E t \in serving.tasks :
         \/ /\ CreateTask(t)
            /\ IF serving.kind = "run_task" THEN UNCHANGED <<serving, toParent>>
               ELSE Replies(serving.id) /\ serving' = NotServing
         \/ AgentNotMade(t) /\ Replies(serving.id) /\ serving' = NotServing
    /\ UNCHANGED <<callVars, futureVars, toServer, inbox, reading, open,
                   config, given, enabled, offered, prompted, memory>>

(* run_task has driven its task to the end.                                    *)
RunTaskReturns ==
    /\ open /\ serving.kind = "run_task"
    /\ \A t \in serving.tasks : status[t] # "none" /\ place[t] = "done"
    /\ Replies(serving.id)
    /\ serving' = NotServing
    /\ UNCHANGED <<taskVars, callVars, futureVars, toServer, inbox, reading, open,
                   config, given, enabled, offered, prompted, memory>>

Awaits(line) ==
    /\ line.request.kind = "await_tasks"
    /\ serving' = [id |-> line.id, kind |-> "await_tasks", tasks |-> line.request.tasks]
    /\ UNCHANGED <<taskVars, toParent, config, given, enabled, offered, prompted, memory>>

AllEnded == \A t \in serving.tasks : status[t] \in Final

(* It has looked, every half second: all have ended, or the time is over.      *)
AwaitReturns(ended) ==
    /\ open /\ serving.kind = "await_tasks"
    /\ ended => AllEnded
    /\ Replies(serving.id)
    /\ serving' = NotServing
    /\ UNCHANGED <<taskVars, callVars, futureVars, toServer, inbox, reading, open,
                   config, given, enabled, offered, prompted, memory>>

(* run_stdio: a task that was just created runs before a line is read.         *)
Serve ==
    /\ serving = NotServing /\ Takes
    /\ \A t \in Tasks : place[t] # "new"
    /\ LET line == Head(toServer)
           request == line.request
       IN  \/ Submits(line)
           \/ Awaits(line)
           \/ /\ \/ UpdateConfig(request) \/ SetTool(request) \/ ResetConversation(request)
                 \/ StoreMemory(request) \/ ClearMemory(request) \/ Cancel(request)
                 \/ Looks(request)
              /\ Replies(line.id)
              /\ UNCHANGED serving
    /\ UNCHANGED <<callVars, futureVars, inbox, reading, open>>

(* run_mcp begins: it resets the agent, adds the prompt, and has a list of the *)
(* enabled tools it keeps to the end.                                          *)
Begins(t) ==
    /\ Begin(t)
    /\ offered' = [offered EXCEPT ![t] = enabled]
    /\ prompted' = prompted \cup {t}

GoesOn(t) == Drive(t) /\ ~Begin(t) /\ UNCHANGED <<offered, prompted>>

Runs(t) ==
    /\ open
    /\ Begins(t) \/ GoesOn(t)
    /\ UNCHANGED <<linkVars, serving, config, given, enabled, memory>>

-------------------------------------------------------------------------------
(* The client, which knows the tasks there are.                                *)
Asks(c) ==
    \E request \in Requests :
        /\ "task" \in DOMAIN request => status[request.task] # "none"
        /\ "tasks" \in DOMAIN request => \A t \in request.tasks : status[t] # "none"
        /\ request.kind \in {"run_task", "run_task_async"} => \E t \in Tasks : place[t] = "none"
        /\ Call(c, request)

Client ==
    /\ \/ \E c \in Callers : Asks(c) \/ LineReturns(c) \/ GivesUp(c) \/ FailsAtEnd(c)
       \/ ServerEnds
    /\ UNCHANGED <<taskVars, serverVars>>

Next ==
    \/ Client
    \/ Serve \/ Started \/ RunTaskReturns
    \/ \E ended \in BOOLEAN : AwaitReturns(ended)
    \/ \E t \in Tasks : Runs(t)

Spec == Init /\ [][Next]_vars

-------------------------------------------------------------------------------
(* Properties.                                                                 *)

(* mcp/manager.py: calls of one server are serialised "to prevent: message ID  *)
(* collisions, transport write interleaving, response routing issues".  A call *)
(* that returns has the answer to its own request.                             *)
AnswersMatch == got.id = got.answer

(* await_tasks: "Block until ALL given task_ids have finished (done / error /  *)
(* cancelled)".  When it says that all have ended, none is running.  A task    *)
(* that was cancelled runs on until its loop yields.                           *)
AwaitedHaveFinished ==
    [][AwaitReturns(TRUE) => \A t \in serving.tasks : place[t] = "done"]_vars

(* get_server_status, get_metrics: the tasks they count as active.             *)
Active == {t \in Tasks : status[t] \in {"pending", "running"}}

(* A task that is between its first and its last step is counted as active.    *)
ActiveAreAll == \A t \in Tasks : place[t] \in {"llm", "tools", "summary"} => t \in Active

(* _make_agent: "no shared mutable state between runs".  The tools a running   *)
(* task was offered stay the tools it can use.                                 *)
KeepsItsTools == \A t \in Tasks : place[t] \in {"llm", "tools"} => offered[t] \subseteq enabled

(* The requests a running task makes have its prompt.                          *)
KeepsItsPrompt == \A t \in Tasks : place[t] \in {"llm", "tools"} => t \in prompted
===============================================================================
