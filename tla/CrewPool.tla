------------------------------- MODULE CrewPool -------------------------------
(* agents/crew: the WorkerPool, the CrewOrchestrator that drives it, and the   *)
(* operator's Stop (interface/tui.py).                                         *)
(*                                                                             *)
(* Everything is a task of one asyncio loop; an action is what one task does   *)
(* between two awaits.  Cancellation is asyncio's: Task.cancel on a task that  *)
(* awaits another task is passed on to that task, and comes back, if at all,   *)
(* when that task has ended.  Only a task that awaits something else gets the  *)
(* CancelledError itself, at its next step.                                    *)
(*                                                                             *)
(* An LLM response with several tool calls is modelled as several responses    *)
(* with one call each.                                                         *)
EXTENDS Integers, Sequences, FiniteSetsExt

CONSTANTS
    MaxWorkers,     \* bound: workers of a crew run; their ids are 1, 2, ...
    Dependencies,   \* the depends_on lists the LLM may give each worker
    MaxIterations,  \* ORCHESTRATOR_MAX_ITERATIONS
    MaxSteps,       \* bound: commands a worker executes (AGENT_MAX_ITERATIONS)
    Outcomes        \* ways an agent's loop can end, as statuses

Workers == 1..MaxWorkers

(* No two workers wait for each other.  A worker that names itself is let by.  *)
ASSUME CrewPoolAssumption ==
    /\ MaxWorkers \in Nat /\ MaxIterations \in Nat /\ MaxSteps \in Nat
    /\ Outcomes \subseteq {"complete", "warning", "failed", "error"}
    /\ Dependencies \in [Workers -> SUBSET Seq(Workers)]
    /\ \E rank \in [Workers -> Workers] :
         \A w \in Workers : \A list \in Dependencies[w] : \A i \in DOMAIN list :
             list[i] # w => rank[list[i]] < rank[w]

VARIABLES
    spawned,        \* WorkerPool._next_id: workers 1..spawned exist
    deps,           \* AgentWorker.depends_on
    status,         \* AgentWorker.status
    task,           \* where the worker's asyncio task is
    at,             \* index of the dependency it awaits
    must,           \* a CancelledError is due at its next step
    steps,          \* commands it has executed
    orch,           \* where the orchestrator is
    purpose,        \* what it waits and synthesises for
    waiting,        \* ids it still has to await, in order; the least is awaited
    iteration,      \* LLM responses so far
    crew,           \* CrewOrchestrator.state
    stopped,        \* the operator pressed Stop (_should_stop)
    canceller       \* where the task of _cancel_crew is

workerVars == <<spawned, deps, status, task, at, must, steps>>
orchVars == <<orch, purpose, waiting, iteration, crew>>
stopVars == <<stopped, canceller>>
vars == <<workerVars, orchVars, stopVars>>

(* AgentStatus; "none" for an id that is not spawned.                          *)
Statuses == {"none", "pending", "running", "cancelled"} \cup Outcomes

(* "new" before the task's first step; "waits" for a dependency; "thinks" for  *)
(* any await of the agent that lets a CancelledError through; "executes" a     *)
(* command by itself, which does not (LocalRuntime.execute_command); "done".   *)
Tasks == {"none", "new", "waits", "thinks", "executes", "done"}

Spawned == 1..spawned
Done(w) == task[w] = "done"
AllDone == \A w \in Spawned : Done(w)
Undone(S) == {w \in S : ~Done(w)}

-------------------------------------------------------------------------------
(* asyncio.                                                                    *)

Awaited(w) == deps[w][at[w]]

(* w is suspended on another worker's task that has not ended.                 *)
Blocked(w) == task[w] = "waits" /\ Awaited(w) # w /\ ~Done(Awaited(w))

(* The task that a cancellation of w ends up at.                               *)
Holder[w \in Workers] == IF Blocked(w) THEN Holder[Awaited(w)] ELSE w

CancelTask(w) == must' = [must EXCEPT ![Holder[w]] = TRUE]

(* cancel_all for these workers, up to its gather: each task that has not      *)
(* ended is cancelled, so the error is due in each of them that is not blocked.*)
CancelThese(S) ==
    must' = [w \in Workers |-> must[w] \/ (w \in Undone(S) /\ ~Blocked(w))]

CancelAll == CancelThese(Spawned)

-------------------------------------------------------------------------------
Init ==
    /\ spawned = 0
    /\ deps = [w \in Workers |-> <<>>]
    /\ status = [w \in Workers |-> "none"]
    /\ task = [w \in Workers |-> "none"]
    /\ at = [w \in Workers |-> 0]
    /\ must = [w \in Workers |-> FALSE]
    /\ steps = [w \in Workers |-> 0]
    /\ orch = "thinks"
    /\ purpose = "results"
    /\ waiting = {}
    /\ iteration = 1
    /\ crew = "running"
    /\ stopped = FALSE
    /\ canceller = "none"

-------------------------------------------------------------------------------
(* A worker: WorkerPool._run_worker.                                           *)

Ends(w, outcome) ==
    /\ task' = [task EXCEPT ![w] = "done"]
    /\ status' = [status EXCEPT ![w] = outcome]
    /\ must' = [must EXCEPT ![w] = FALSE]
    /\ steps' = [steps EXCEPT ![w] = 0]
    /\ UNCHANGED <<spawned, deps, at>>

(* Mutant: a dependency that has been cancelled ends the wait for all others.  *)
StallsUnlessCancelled(w, from) ==
    {i \in from..Len(deps[w]) :
        /\ deps[w][i] \in Spawned
        /\ deps[w][i] = w \/ ~Done(deps[w][i])
        /\ ~\E j \in 1..(i - 1) : status[deps[w][j]] = "cancelled"}

(* Mutant: an id that is not spawned yet is awaited too.                       *)
StallsOnUnknown(w, from) ==
    {i \in from..Len(deps[w]) : ~Done(deps[w][i])}

(* Dependencies, from index from on, at which the task suspends: an id that is *)
(* not spawned is passed over, and a task that has ended is not waited for.    *)
(* The task's own id suspends it for one step only (RuntimeError, swallowed).  *)
Stalls(w, from) ==
    {i \in from..Len(deps[w]) :
        deps[w][i] \in Spawned /\ (deps[w][i] = w \/ ~Done(deps[w][i]))}

(* _wait_for_dependencies from index from on, and what follows it: the worker  *)
(* is running, and its agent makes its first call to the LLM.                  *)
Proceeds(w, from) ==
    /\ must' = [must EXCEPT ![w] = FALSE]
    /\ \/ /\ Stalls(w, from) = {}
          /\ task' = [task EXCEPT ![w] = "thinks"]
          /\ status' = [status EXCEPT ![w] = "running"]
          /\ at' = [at EXCEPT ![w] = 0]
       \/ \E i \in Stalls(w, from) :
          /\ \A j \in Stalls(w, from) : i <= j
          /\ task' = [task EXCEPT ![w] = "waits"]
          /\ at' = [at EXCEPT ![w] = i]
          /\ UNCHANGED status
    /\ UNCHANGED <<spawned, deps, steps>>

(* The first step of the task; a task cancelled before it never enters the     *)
(* coroutine, and no handler reports the status.                               *)
Begin(w) ==
    /\ task[w] = "new"
    /\ IF must[w] THEN Ends(w, status[w]) ELSE Proceeds(w, 1)
    /\ UNCHANGED <<orchVars, stopVars>>

(* The awaited dependency has ended, or a CancelledError is due: the except    *)
(* clause takes either, and the worker goes on to its next dependency.         *)
Resume(w) ==
    /\ task[w] = "waits" /\ ~Blocked(w)
    /\ Proceeds(w, at[w] + 1)
    /\ UNCHANGED <<orchVars, stopVars>>

(* Mutant: the limit is checked after the command, not before it.              *)
ExecuteOnceMore(w) ==
    /\ task[w] = "thinks" /\ ~must[w]
    /\ steps[w] <= MaxSteps
    /\ task' = [task EXCEPT ![w] = "executes"]
    /\ steps' = [steps EXCEPT ![w] = @ + 1]
    /\ UNCHANGED <<spawned, deps, status, at, must, orchVars, stopVars>>

(* The agent asks for a single command.                                        *)
Execute(w) ==
    /\ task[w] = "thinks" /\ ~must[w]
    /\ steps[w] < MaxSteps
    /\ task' = [task EXCEPT ![w] = "executes"]
    /\ steps' = [steps EXCEPT ![w] = @ + 1]
    /\ UNCHANGED <<spawned, deps, status, at, must, orchVars, stopVars>>

(* The command ends, or is killed by a cancellation: in both cases it returns  *)
(* a result, and the agent goes on.                                            *)
CommandEnds(w) ==
    /\ task[w] = "executes"
    /\ task' = [task EXCEPT ![w] = "thinks"]
    /\ must' = [must EXCEPT ![w] = FALSE]
    /\ UNCHANGED <<spawned, deps, status, at, steps, orchVars, stopVars>>

(* The agent's loop ends: done, out of iterations, infeasible, or an exception.*)
AgentEnds(w) ==
    /\ task[w] = "thinks" /\ ~must[w]
    /\ \E outcome \in Outcomes : Ends(w, outcome)
    /\ UNCHANGED <<orchVars, stopVars>>

AgentCancelled(w) ==
    /\ task[w] = "thinks" /\ must[w]
    /\ Ends(w, "cancelled")
    /\ UNCHANGED <<orchVars, stopVars>>

WorkerStep(w) ==
    Begin(w) \/ Resume(w) \/ Execute(w) \/ CommandEnds(w) \/ AgentEnds(w) \/ AgentCancelled(w)

-------------------------------------------------------------------------------
(* The orchestrator: CrewOrchestrator.run and the tools it calls.  Before each *)
(* tool call, and after each result, run yields to the screen, which stops the *)
(* crew there if the operator pressed Stop.                                    *)

WaitIsOver == waiting' = {} /\ purpose' = "results"

(* The loop is left, with this state: the finally clause cancels the workers,  *)
(* and waits for them.                                                         *)
Close(state) ==
    /\ orch' = "closing"
    /\ crew' = state
    /\ CancelAll
    /\ WaitIsOver
    /\ UNCHANGED <<spawned, deps, status, task, at, steps, iteration>>

NextRound ==
    IF iteration < MaxIterations
    THEN /\ orch' = "thinks"
         /\ iteration' = iteration + 1
         /\ WaitIsOver
         /\ UNCHANGED <<workerVars, crew>>
    ELSE Close("complete")

(* Mutant: the wait is over when one of the agents has ended.                  *)
WaitsForFirst(S, why, Then) ==
    IF Undone(S) = {}
    THEN Then
    ELSE /\ orch' = "waits"
         /\ waiting' = {Min(Undone(S))}
         /\ purpose' = why
         /\ UNCHANGED <<workerVars, iteration, crew>>

(* wait_for, from the ids in S on: suspend at the first that has not ended, or *)
(* go on as Then.                                                              *)
WaitsFor(S, why, Then) ==
    IF Undone(S) = {}
    THEN Then
    ELSE /\ orch' = "waits"
         /\ waiting' = Undone(S)
         /\ purpose' = why
         /\ UNCHANGED <<workerVars, iteration, crew>>

(* finish_fn, after its wait: the LLM synthesises the results, if there are    *)
(* any; without a worker or a result there is a fixed text.                    *)
Synthesises(why) ==
    IF \E w \in Spawned : status[w] \in Outcomes
    THEN /\ orch' = "synthesises"
         /\ purpose' = why
         /\ waiting' = {}
         /\ UNCHANGED <<workerVars, iteration, crew>>
    ELSE Close("complete")

(* The LLM answers with a call of the tool spawn_agent: WorkerPool.spawn.      *)
Spawn(list) ==
    LET w == spawned + 1
    IN  /\ orch = "thinks" /\ ~stopped
        /\ spawned < MaxWorkers
        /\ list \in Dependencies[w]
        /\ spawned' = w
        /\ deps' = [deps EXCEPT ![w] = list]
        /\ status' = [status EXCEPT ![w] = "pending"]
        /\ task' = [task EXCEPT ![w] = "new"]
        /\ IF iteration < MaxIterations
             THEN iteration' = iteration + 1 /\ UNCHANGED <<must, orch, crew>>
             ELSE /\ orch' = "closing" /\ crew' = "complete"
                  /\ CancelThese(Spawned \cup {w})
                  /\ UNCHANGED iteration
        /\ UNCHANGED <<at, steps, purpose, waiting, stopVars>>

(* Any other tool of the crew, and a tool call that fails.                     *)
OtherTool ==
    /\ orch = "thinks" /\ ~stopped
    /\ NextRound
    /\ UNCHANGED stopVars

(* wait_for_agents, for some agents or for all.                                *)
WaitForAgents(S) ==
    /\ orch = "thinks" /\ ~stopped
    /\ WaitsFor(S, "results", NextRound)
    /\ UNCHANGED stopVars

(* finish, called by the LLM ("finish"), or by run when the LLM calls no tool  *)
(* and there are workers ("answer").                                           *)
Finish(why) ==
    /\ orch = "thinks" /\ ~stopped
    /\ why = "answer" => Spawned # {}
    /\ WaitsFor(Spawned, why, Synthesises(why))
    /\ UNCHANGED stopVars

(* The LLM calls no tool, and there are no workers; or it fails.               *)
Answer ==
    /\ orch = "thinks" /\ ~stopped
    /\ \/ Spawned = {} /\ Close("complete")
       \/ Close("error")
    /\ UNCHANGED stopVars

(* cancel_agent.                                                               *)
CancelAgent(w) ==
    /\ orch = "thinks" /\ ~stopped
    /\ IF Done(w)
         THEN NextRound
         ELSE /\ CancelTask(w)
              /\ orch' = "cancels"
              /\ waiting' = {w}
              /\ UNCHANGED <<spawned, deps, status, task, at, steps, purpose, iteration, crew>>
    /\ UNCHANGED stopVars

(* The awaited worker has ended.  If a CancelledError came with that, wait_for *)
(* swallows it and goes on to the next one all the same.                       *)
WaitReturns ==
    /\ orch = "waits" /\ Done(Min(waiting))
    /\ WaitsFor(waiting, purpose,
          IF purpose # "results" THEN Synthesises(purpose)
          ELSE IF stopped THEN Close(crew) ELSE NextRound)
    /\ UNCHANGED stopVars

(* pool.cancel returns True: "Cancelled" and the id.                           *)
CancelReturns ==
    /\ orch = "cancels" /\ Done(Min(waiting))
    /\ IF stopped THEN Close(crew) ELSE NextRound
    /\ UNCHANGED stopVars

(* The synthesis ends the run; when finish was called by the LLM, an empty one *)
(* or a failure does not.                                                      *)
Synthesised ==
    /\ orch = "synthesises" /\ ~stopped
    /\ Close("complete") \/ (purpose = "finish" /\ NextRound)
    /\ UNCHANGED stopVars

(* Stop reaches the orchestrator while it awaits the LLM, or at its next yield.*)
StopsAtLLM ==
    /\ orch \in {"thinks", "synthesises"} /\ stopped
    /\ Close(crew)
    /\ UNCHANGED stopVars

(* Mutant: cancel_all does not wait for the tasks it cancels.                  *)
ClosedAtOnce ==
    /\ orch = "closing"
    /\ orch' = "done"
    /\ crew' = (IF stopped THEN "idle" ELSE crew)
    /\ UNCHANGED <<workerVars, purpose, waiting, iteration, stopVars>>

(* Mutant: the screen leaves the state to the task of _cancel_crew.            *)
ClosedKeepsState ==
    /\ orch = "closing" /\ AllDone
    /\ orch' = "done"
    /\ UNCHANGED <<workerVars, crew, purpose, waiting, iteration, stopVars>>

(* cancel_all returns.  After a Stop the screen then cancels the crew itself.  *)
Closed ==
    /\ orch = "closing" /\ AllDone
    /\ orch' = "done"
    /\ crew' = (IF stopped THEN "idle" ELSE crew)
    /\ UNCHANGED <<workerVars, purpose, waiting, iteration, stopVars>>

OrchestratorStep ==
    \/ \E w \in Workers : \E list \in Dependencies[w] : w = spawned + 1 /\ Spawn(list)
    \/ \E S \in (SUBSET Spawned) \ {{}} : WaitForAgents(S)
    \/ \E why \in {"finish", "answer"} : Finish(why)
    \/ OtherTool \/ Answer
    \/ \E w \in Spawned : CancelAgent(w)
    \/ WaitReturns \/ CancelReturns \/ Synthesised \/ StopsAtLLM \/ Closed

-------------------------------------------------------------------------------
(* Stop: action_stop_agent and _cancel_crew.                                   *)

(* The orchestrator's task is cancelled, and another task is to cancel the     *)
(* crew.  An await of a worker passes the cancellation on to the worker, and   *)
(* the gather of cancel_all to all of them.                                    *)
Stop ==
    /\ ~stopped /\ orch # "done"
    /\ stopped' = TRUE
    /\ canceller' = "new"
    /\ CASE orch \in {"waits", "cancels"} /\ ~Done(Min(waiting)) -> CancelTask(Min(waiting))
         [] orch = "closing" -> CancelAll
         [] OTHER -> UNCHANGED must
    /\ UNCHANGED <<spawned, deps, status, task, at, steps, orchVars>>

(* CrewOrchestrator.cancel; nothing if the run has already ended.              *)
CancelCrew ==
    /\ canceller = "new"
    /\ IF orch = "done"
         THEN canceller' = "done" /\ UNCHANGED must
         ELSE canceller' = "gathers" /\ CancelAll
    /\ UNCHANGED <<spawned, deps, status, task, at, steps, orchVars, stopped>>

(* Mutant: cancel does not wait for the tasks it cancels.                      *)
CrewCancelledAtOnce ==
    /\ canceller = "gathers"
    /\ canceller' = "done"
    /\ crew' = "idle"
    /\ UNCHANGED <<workerVars, orch, purpose, waiting, iteration, stopped>>

(* cancel_all returns; the crew is set idle.                                   *)
CrewCancelled ==
    /\ canceller = "gathers" /\ AllDone
    /\ canceller' = "done"
    /\ crew' = "idle"
    /\ UNCHANGED <<workerVars, orch, purpose, waiting, iteration, stopped>>

Next ==
    \/ \E w \in Workers : WorkerStep(w)
    \/ OrchestratorStep
    \/ Stop
    \/ CancelCrew \/ CrewCancelled

(* The loop runs every task that is ready; the LLM and the commands answer or  *)
(* time out.  Nobody has to press Stop.                                        *)
Fairness ==
    /\ \A w \in Workers : WF_vars(WorkerStep(w))
    /\ WF_vars(OrchestratorStep)
    /\ WF_vars(CancelCrew \/ CrewCancelled)

Spec == Init /\ [][Next]_vars /\ Fairness

-------------------------------------------------------------------------------
(* Properties.                                                                 *)

(* Every variable has its type.                                                *)
TypeOK ==
    /\ spawned \in 0..MaxWorkers
    /\ deps \in [Workers -> Seq(Workers)]
    /\ status \in [Workers -> Statuses]
    /\ task \in [Workers -> Tasks]
    /\ at \in [Workers -> Nat]
    /\ must \in [Workers -> BOOLEAN]
    /\ steps \in [Workers -> 0..MaxSteps]
    /\ orch \in {"thinks", "waits", "cancels", "synthesises", "closing", "done"}
    /\ purpose \in {"results", "finish", "answer"}
    /\ waiting \in SUBSET Workers
    /\ iteration \in Nat
    /\ crew \in {"idle", "running", "complete", "error"}
    /\ stopped \in BOOLEAN
    /\ canceller \in {"none", "new", "gathers", "done"}

(* depends_on: an agent that runs, or has run, started after every agent it    *)
(* names that was spawned before it had ended, no matter how many of these     *)
(* failed or were cancelled, or how often it was cancelled while it waited.    *)
DependenciesFirst ==
    \A w \in Spawned : status[w] # "pending" =>
        \A i \in DOMAIN deps[w] : deps[w][i] < w => Done(deps[w][i])

(* finish ("wait for agents, synthesize results") never synthesises while an   *)
(* agent is still at work: no agent it waited for is dropped, and none is      *)
(* added behind it.                                                            *)
SynthesisIsComplete == orch = "synthesises" => AllDone

(* The run never ends with an agent left behind, whichever way it ends: with a *)
(* report, out of iterations, with an error, or stopped.                       *)
NoOrphans == orch = "done" => AllDone

(* Once the task of Stop is done, every agent has ended for good, and once the *)
(* run is over too, no write of the run has overtaken that of the cancel.      *)
QuietAfterStop ==
    /\ canceller = "done" => AllDone
    /\ stopped /\ orch = "done" => crew = "idle"

(* No two tasks wait for each other: every agent comes to an end.              *)
AgentsEnd == \A w \in Workers : status[w] = "pending" ~> Done(w)

(* The run ends, whatever the LLM answers.                                     *)
CrewEnds == <>(orch = "done")

(* A Stop gets through, if late: the run ends, the agents end, the crew idles. *)
StopEnds == stopped ~> (canceller = "done" /\ orch = "done" /\ crew = "idle")

-------------------------------------------------------------------------------
(* What the texts of the program say, and it does not do.                      *)

(* interface/tui.py, _cancel_crew: "Cancel crew orchestrator and all workers." *)
(* After that call no agent starts.                                            *)
CancelledCrewStartsNothing ==
    [][\A w \in Workers :
          canceller # "none" /\ canceller # "new" /\ status[w] = "pending"
             => status'[w] # "running"]_vars

(* agents/crew/tools.py, cancel_agent: "Cancelled" and the agent's id.  The    *)
(* agent so reported has not ended its work in some other way.                 *)
CancelReportIsTrue ==
    [][orch = "cancels" /\ orch' # "cancels" => status[Min(waiting)] \notin Outcomes]_vars

(* agents/crew/worker_pool.py, spawn: "depends_on: List of agent IDs that must *)
(* complete first", whenever they are spawned.                                 *)
NamedAgentsFirst ==
    \A w \in Spawned : status[w] \notin {"pending", "cancelled"} =>
        \A i \in DOMAIN deps[w] : deps[w][i] # w => status[deps[w][i]] \notin {"pending", "running"}
===============================================================================
