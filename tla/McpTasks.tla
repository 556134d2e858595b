------------------------------- MODULE McpTasks -------------------------------
(* The tasks of a child agent (mcp/server/mcp_tools.py) and the loop that runs *)
(* each (BaseAgent.run_mcp): one asyncio task per task, which looks at the     *)
(* status that cancel_task sets whenever the loop yields a message.            *)
EXTENDS Integers, Sequences, FiniteSets

CONSTANTS
    MaxTasks,       \* bound: tasks that are submitted; they are 1, 2, ...
    MaxIterations   \* max_iterations of an agent

ASSUME McpTasksAssumption == MaxTasks \in Nat /\ MaxIterations \in Nat \ {0}

Tasks == 1..MaxTasks

VARIABLES
    status,     \* TaskEntry.status; "none" before there is an entry
    place,      \* where _drive_task is
    round,      \* iteration of its run_mcp
    outgoing    \* _outgoing_queue

taskVars == <<status, place, round, outgoing>>

(* "starts" is the start of the agent's runtime, "notes" the snapshot.         *)
Places == {"none", "starts", "new", "llm", "tools", "summary", "notes", "done"}
Final == {"done", "error", "cancelled"}
Statuses == {"none", "pending", "running"} \cup Final
Notice == [task : Tasks, status : Statuses]

TasksInit ==
    /\ status = [t \in Tasks |-> "none"]
    /\ place = [t \in Tasks |-> "none"]
    /\ round = [t \in Tasks |-> 0]
    /\ outgoing = <<>>

-------------------------------------------------------------------------------
(* The handlers of requests.                                                   *)

(* run_task_async awaits the start of the runtime of a new agent.              *)
RunTaskAsync(t) ==
    /\ place[t] = "none"
    /\ \A u \in Tasks : u < t => place[u] # "none"
    /\ place' = [place EXCEPT ![t] = "starts"]
    /\ UNCHANGED <<status, round, outgoing>>

(* _make_agent raises: there is no entry.                                      *)
AgentNotMade(t) ==
    /\ place[t] = "starts"
    /\ place' = [place EXCEPT ![t] = "done"]
    /\ UNCHANGED <<status, round, outgoing>>

CreateTask(t) ==
    /\ place[t] = "starts"
    /\ status' = [status EXCEPT ![t] = "pending"]
    /\ place' = [place EXCEPT ![t] = "new"]
    /\ UNCHANGED <<round, outgoing>>

(* Mutant: cancels whatever there is an entry of.                              *)
CancelAnyTask(t) ==
    /\ status[t] # "none"
    /\ status' = [status EXCEPT ![t] = "cancelled"]
    /\ UNCHANGED <<place, round, outgoing>>

(* cancel_task: refused with a message if the task has come to an end.         *)
CancelTask(t) ==
    /\ status[t] # "none"
    /\ status' = [status EXCEPT ![t] = IF @ \in Final THEN @ ELSE "cancelled"]
    /\ UNCHANGED <<place, round, outgoing>>

-------------------------------------------------------------------------------
(* _drive_task.                                                                *)

Goes(t, to) ==
    /\ place' = [place EXCEPT ![t] = to]
    /\ UNCHANGED <<status, round, outgoing>>

(* Mutant: only tasks that are done are reported.                              *)
EndsIfDone(t, s) ==
    /\ status' = [status EXCEPT ![t] = s]
    /\ place' = [place EXCEPT ![t] = "done"]
    /\ outgoing' = IF s = "error" THEN outgoing
                   ELSE Append(outgoing, [task |-> t, status |-> s])
    /\ UNCHANGED round

(* The finally clause, after the status was set.                               *)
Ends(t, s) ==
    /\ status' = [status EXCEPT ![t] = s]
    /\ place' = [place EXCEPT ![t] = "done"]
    /\ outgoing' = Append(outgoing, [task |-> t, status |-> s])
    /\ UNCHANGED round

IsCancelled(t) == status[t] = "cancelled"

(* Mutant: the parent is told when the task is done, before its notes are.     *)
CompletesTold(t) ==
    IF IsCancelled(t) THEN Ends(t, "cancelled")
    ELSE /\ status' = [status EXCEPT ![t] = "done"]
         /\ place' = [place EXCEPT ![t] = "notes"]
         /\ outgoing' = Append(outgoing, [task |-> t, status |-> "done"])
         /\ UNCHANGED round

(* The loop is over: the task is done, and its notes are being captured.       *)
Completes(t) ==
    IF IsCancelled(t) THEN Ends(t, "cancelled")
    ELSE /\ status' = [status EXCEPT ![t] = "done"]
         /\ place' = [place EXCEPT ![t] = "notes"]
         /\ UNCHANGED <<round, outgoing>>

Begin(t) ==
    /\ place[t] = "new"
    /\ status' = [status EXCEPT ![t] = "running"]
    /\ place' = [place EXCEPT ![t] = "llm"]
    /\ round' = [round EXCEPT ![t] = 1]
    /\ UNCHANGED outgoing

(* run_mcp, after a request: the context is full, or a last text, or tools.  A *)
(* text beside the tools is yielded before they execute: a cancelled task ends *)
(* there as at a last text, without one it executes them.                      *)
LlmAnswers(t) ==
    /\ place[t] = "llm"
    /\ Goes(t, "summary") \/ Completes(t) \/ Goes(t, "tools")

(* The except clause: the request raises.                                      *)
RequestFails(t) == place[t] = "llm" /\ Ends(t, "error")

(* Mutant: the results of tools are recorded without a look at the status.     *)
ToolsReturnUnseen(t) ==
    /\ place[t] = "tools"
    /\ \/ /\ round[t] < MaxIterations
          /\ round' = [round EXCEPT ![t] = @ + 1]
          /\ place' = [place EXCEPT ![t] = "llm"]
          /\ UNCHANGED <<status, outgoing>>
       \/ round[t] = MaxIterations /\ Goes(t, "summary")

(* Mutant: one round more than max_iterations.                                 *)
ToolsReturnAgain(t) ==
    /\ place[t] = "tools"
    /\ \/ IsCancelled(t) /\ Ends(t, "cancelled")
       \/ /\ ~IsCancelled(t)
          /\ round' = [round EXCEPT ![t] = @ + 1]
          /\ place' = [place EXCEPT ![t] = IF round[t] <= MaxIterations THEN "llm" ELSE "summary"]
          /\ UNCHANGED <<status, outgoing>>

(* The results are yielded; then another round, or a summary of what there is. *)
ToolsReturn(t) ==
    /\ place[t] = "tools"
    /\ \/ IsCancelled(t) /\ Ends(t, "cancelled")
       \/ /\ ~IsCancelled(t) /\ round[t] < MaxIterations
          /\ round' = [round EXCEPT ![t] = @ + 1]
          /\ place' = [place EXCEPT ![t] = "llm"]
          /\ UNCHANGED <<status, outgoing>>
       \/ ~IsCancelled(t) /\ round[t] = MaxIterations /\ Goes(t, "summary")

(* A summary that fails is a fixed text.                                       *)
SummaryReturns(t) == place[t] = "summary" /\ Completes(t)

(* _capture_notes_snapshot, which raises nothing.                              *)
NotesReturn(t) == place[t] = "notes" /\ Ends(t, status[t])

Drive(t) ==
    \/ Begin(t) \/ LlmAnswers(t) \/ RequestFails(t)
    \/ ToolsReturn(t) \/ SummaryReturns(t) \/ NotesReturn(t)
===============================================================================
