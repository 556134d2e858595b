----------------------------- MODULE AgentSession -----------------------------
(* The loops of an agent (agents/base_agent.py), its state machine             *)
(* (agents/state.py), the watcher that puts a child agent's message into its   *)
(* history (tools/mcp_agent.py), and the screen that runs, wakes, stops and    *)
(* rewinds it (interface/tui.py).                                              *)
(*                                                                             *)
(* All are tasks of one asyncio loop; an action is what one task does between  *)
(* two awaits, the messages it yields to the screen on the way included.       *)
EXTENDS Integers, Sequences, FiniteSets

CONSTANTS
    Modes,          \* modes the operator uses: "assist", "interact", "agent"
    MaxRuns,        \* bound: runs the screen starts; they are 1, 2, ...
    MaxIterations,  \* max_iterations; bound: rounds of an interactive run
    MaxNotes        \* bound: messages of child agents

ASSUME AgentSessionAssumption ==
    /\ Modes \subseteq {"assist", "interact", "agent"}
    /\ MaxRuns \in Nat /\ MaxIterations \in Nat \ {0} /\ MaxNotes \in Nat

Runs == 1..MaxRuns

VARIABLES
    history,        \* BaseAgent.conversation_history
    state,          \* AgentStateManager.current_state
    planned,        \* the task plan has steps
    runs,           \* runs started so far
    mode,           \* the mode of each run
    woken,          \* it is a _run_wake_up_mode
    pc,             \* where its task is
    must,           \* a CancelledError is due at its next step
    iteration,      \* requests of its loop to the model
    isRunning,      \* _is_running
    shouldStop,     \* _should_stop
    current,        \* _current_worker; 0 for None
    widgets,        \* the user messages on the screen, by their run
    wakes,          \* ChildAgentWakeUpMessages that are posted
    children,       \* the agent has had a chance to give a child a task
    notes,          \* messages of child agents so far
    owed,           \* one of them came after the loop had finished
    stopped         \* the run that Stop has cancelled, until another one begins

agentVars == <<history, state, planned>>
runVars == <<mode, woken, pc, must, iteration>>
screenVars == <<runs, shouldStop, current, widgets, wakes>>
childVars == <<notes, owed>>
vars == <<agentVars, runVars, screenVars, childVars, isRunning, children, stopped>>

(* A message of the history and the run it belongs to; run 0 is the watcher.   *)
Kinds == {"user", "calls", "results", "text"}
Msg(kind, r) == [kind |-> kind, run |-> r]
Messages == [kind : Kinds, run : 0..MaxRuns]

States == {"idle", "thinking", "executing", "complete"}

(* "tool" for tools that let a CancelledError through, "executes" for a single *)
(* command, which swallows it (LocalRuntime.execute_command); "lingers" for    *)
(* the second an agent run sleeps after its task.                              *)
Tools == {"tool", "executes"}
Asking == {"plan", "llm", "replan", "summary"}
Places == {"none", "new", "lingers", "done"} \cup Tools \cup Asking

(* VALID_TRANSITIONS, for the states that are used.                            *)
ValidTransitions ==
    [idle |-> {"thinking"}, thinking |-> {"executing", "complete"},
     executing |-> {"thinking", "complete"}, complete |-> {"idle"}]

(* transition_to: refused without a word when it is not valid.                 *)
Moved(from, to) == IF to \in ValidTransitions[from] THEN to ELSE from

-------------------------------------------------------------------------------
Init ==
    /\ history = <<>>
    /\ state = "idle"
    /\ planned = FALSE
    /\ runs = 0
    /\ mode = [r \in Runs |-> "assist"]
    /\ woken = [r \in Runs |-> FALSE]
    /\ pc = [r \in Runs |-> "none"]
    /\ must = [r \in Runs |-> FALSE]
    /\ iteration = [r \in Runs |-> 0]
    /\ isRunning = FALSE
    /\ shouldStop = FALSE
    /\ current = 0
    /\ widgets = <<>>
    /\ wakes = 0
    /\ children = FALSE
    /\ notes = 0
    /\ owed = FALSE
    /\ stopped = {}

-------------------------------------------------------------------------------
(* A run: the screen's _run_assist, _run_interact, _run_agent_mode or          *)
(* _run_wake_up_mode, and the agent's loop it consumes.                        *)

Ready(r, place) == pc[r] = place /\ ~must[r]

(* The task is at this place now, in this round of its loop.                   *)
At(r, place, round) ==
    /\ pc' = [pc EXCEPT ![r] = place]
    /\ must' = [must EXCEPT ![r] = FALSE]
    /\ iteration' = [iteration EXCEPT ![r] = round]

(* Mutant: a run that was cancelled leaves the flag to the screen.             *)
EndsIfNotCancelled(r) ==
    /\ At(r, "done", 0)
    /\ isRunning' = (isRunning /\ must[r])
    /\ UNCHANGED children

(* The finally clause of the run.                                              *)
Ends(r) ==
    /\ At(r, "done", 0)
    /\ isRunning' = FALSE
    /\ UNCHANGED children

(* The loop, or the screen that consumes it, is left with this history and     *)
(* state.  A run of an agent task announces that and sleeps for a second.      *)
Leaves(r, h, s) ==
    /\ history' = h
    /\ state' = s
    /\ IF mode[r] = "agent" /\ ~woken[r]
         THEN At(r, "lingers", 0) /\ UNCHANGED <<isRunning, children>>
         ELSE Ends(r)

(* The loop goes on to its next await.                                         *)
GoesOn(r, h, s, place) ==
    /\ history' = h
    /\ state' = s
    /\ At(r, place, iteration[r])
    /\ children' = (children \/ place \in Tools)
    /\ UNCHANGED isRunning

ExecutesTools(r, h, s) == \E place \in Tools : GoesOn(r, h, s, place)

(* Mutant: the screen takes note of a Stop only when the agent is at rest.     *)
GoesOnShowingWhenBusy(r, s) ==
    /\ ~(shouldStop /\ s # "executing")
    /\ ~(mode[r] = "agent" /\ s = "complete")

(* _display_responses takes the next message after one that was yielded in     *)
(* this state: not after a Stop, and in agent mode not of a complete agent.    *)
GoesOnShowing(r, s) ==
    /\ ~shouldStop
    /\ ~(mode[r] = "agent" /\ s = "complete")

(* The loop yields its last message, is complete, and returns.                 *)
Finishes(r, h, s) ==
    Leaves(r, h, IF GoesOnShowing(r, s) THEN Moved(s, "complete") ELSE s)

(* Mutant: one round more than max_iterations.                                 *)
NextRoundAndOneMore(r, h, s) ==
    IF iteration[r] <= MaxIterations
    THEN /\ history' = h
         /\ state' = s
         /\ At(r, "llm", iteration[r] + 1)
         /\ UNCHANGED <<isRunning, children>>
    ELSE Finishes(r, Append(h, Msg("text", r)), s)

(* The next round of an autonomous loop, or the warning that it was the last.  *)
NextRound(r, h, s) ==
    IF iteration[r] < MaxIterations
    THEN /\ history' = h
         /\ state' = s
         /\ At(r, "llm", iteration[r] + 1)
         /\ UNCHANGED <<isRunning, children>>
    ELSE Finishes(r, Append(h, Msg("text", r)), s)

(* The first step: the run takes the flags, and its loop appends the request   *)
(* and goes to its first request to the model.  An agent task starts from an   *)
(* empty history, an idle agent and no plan.  asyncio runs the first steps in  *)
(* the order of their creation.                                                *)
Begin(r) ==
    /\ Ready(r, "new")
    /\ \A q \in Runs : q < r => pc[q] # "new"
    /\ isRunning' = TRUE
    /\ shouldStop' = FALSE
    /\ stopped' = {}
    /\ owed' = FALSE
    /\ IF mode[r] = "agent" /\ ~woken[r]
         THEN /\ history' = <<Msg("user", r)>>
              /\ state' = Moved("idle", "thinking")
              /\ planned' = FALSE
         ELSE /\ history' = (IF woken[r] THEN history ELSE Append(history, Msg("user", r)))
              /\ state' = Moved(state, "thinking")
              /\ UNCHANGED planned
    /\ At(r, IF /\ mode[r] = "agent" /\ ~planned'
                /\ \E i \in DOMAIN history' : history'[i].kind = "user"
             THEN "plan" ELSE "llm", 1)
    /\ UNCHANGED <<runs, mode, woken, current, widgets, wakes, children, notes>>

(* What a step of a run after its first leaves alone.                          *)
Others == UNCHANGED <<mode, woken, screenVars, childVars, stopped>>

(* _auto_generate_plan returns: a plan, or a fallback if the request failed.   *)
Plan(r) ==
    /\ Ready(r, "plan")
    /\ planned' = TRUE
    /\ LET said == Append(history, Msg("text", r))
       IN  IF GoesOnShowing(r, state) THEN GoesOn(r, said, state, "llm")
           ELSE Leaves(r, said, state)
    /\ Others

(* _run_loop: the model answers nothing at all, or a text, or calls of tools,  *)
(* whose text, if any, is shown before they execute.                           *)
AgentAnswer(r) ==
    /\ Ready(r, "llm") /\ mode[r] = "agent"
    /\ LET said == Append(history, Msg("text", r))
           busy == Moved(state, "executing")
       IN  \/ Finishes(r, said, state)
           \/ IF GoesOnShowing(r, state) THEN NextRound(r, said, state)
              ELSE Leaves(r, said, state)
           \/ ExecutesTools(r, history, busy)
           \/ ~GoesOnShowing(r, busy) /\ Leaves(r, history, busy)
    /\ UNCHANGED planned
    /\ Others

(* _assist_loop: a text, or calls of tools.                                    *)
AssistAnswer(r) ==
    /\ Ready(r, "llm") /\ mode[r] = "assist"
    /\ \/ Finishes(r, Append(history, Msg("text", r)), state)
       \/ ExecutesTools(r, history, Moved(state, "executing"))
       \/ shouldStop /\ Leaves(r, history, state)
    /\ UNCHANGED planned
    /\ Others

(* _interact_loop, after an answer and its tools: the finish_reason ends the   *)
(* loop or not.                                                                *)
RepeatsOrEnds(r, h) ==
    \/ Leaves(r, h, Moved(state, "complete"))
    \/ NextRound(r, h, state) /\ iteration[r] < MaxIterations

(* _interact_loop: the calls are appended before they are executed.            *)
InteractAnswer(r) ==
    /\ Ready(r, "llm") /\ mode[r] = "interact"
    /\ LET said == Append(history, Msg("text", r))
           called == Append(history, Msg("calls", r))
       IN  IF shouldStop
           THEN \E h \in {said, called} : Leaves(r, h, state)
           ELSE \/ RepeatsOrEnds(r, said)
                \/ ExecutesTools(r, called, Moved(state, "executing"))
    /\ UNCHANGED planned
    /\ Others

(* The tools are done, also when a command has swallowed a CancelledError.     *)
ToolsReturn(r) == Ready(r, "tool") \/ pc[r] = "executes"

(* Mutant: the results of a stopped run are not recorded, only its calls.      *)
RecordsWhatIsShown(r) ==
    IF shouldStop THEN Append(history, Msg("calls", r))
    ELSE history \o <<Msg("calls", r), Msg("results", r)>>

(* assistant_msg and tool_result_msg.                                          *)
Recorded(r) == history \o <<Msg("calls", r), Msg("results", r)>>

(* _run_loop: a failed step of the plan asks for another plan, a complete plan *)
(* for a summary.                                                              *)
AgentTools(r) ==
    /\ ToolsReturn(r) /\ mode[r] = "agent"
    /\ IF GoesOnShowing(r, state)
         THEN \/ planned /\ GoesOn(r, Recorded(r), state, "replan")
              \/ GoesOn(r, Recorded(r), state, "summary")
              \/ planned /\ NextRound(r, Recorded(r), Moved(state, "thinking"))
         ELSE Leaves(r, Recorded(r), state)
    /\ UNCHANGED planned
    /\ Others

(* _replan returns: no steps, a plan or a failure, or that there is none.      *)
Replan(r) ==
    /\ Ready(r, "replan")
    /\ LET said == Append(history, Msg("text", r))
       IN  \/ NextRound(r, history, Moved(state, "thinking"))
           \/ IF GoesOnShowing(r, state) THEN NextRound(r, said, state)
              ELSE Leaves(r, said, state)
           \/ Finishes(r, said, state)
    /\ UNCHANGED planned
    /\ Others

Summary(r) ==
    /\ Ready(r, "summary")
    /\ Finishes(r, Append(history, Msg("text", r)), state)
    /\ UNCHANGED planned
    /\ Others

(* _assist_loop: the results are told once more as a text.                     *)
AssistTools(r) ==
    /\ ToolsReturn(r) /\ mode[r] = "assist"
    /\ IF shouldStop
         THEN Leaves(r, Recorded(r), state)
         ELSE Finishes(r, Append(Recorded(r), Msg("text", r)), state)
    /\ UNCHANGED planned
    /\ Others

(* _interact_loop: the results are shown before they are appended.             *)
InteractTools(r) ==
    /\ ToolsReturn(r) /\ mode[r] = "interact"
    /\ IF shouldStop
         THEN Leaves(r, history, state)
         ELSE RepeatsOrEnds(r, Append(history, Msg("results", r)))
    /\ UNCHANGED planned
    /\ Others

(* A request to the model raises: the except clause of the run.                *)
RequestFails(r) ==
    /\ Ready(r, "llm") \/ Ready(r, "summary")
    /\ Ends(r)
    /\ UNCHANGED agentVars
    /\ Others

(* The CancelledError arrives; a task that has not begun never does.           *)
Cancelled(r) ==
    /\ must[r] /\ pc[r] \notin {"none", "done", "executes"}
    /\ IF pc[r] = "new" THEN At(r, "done", 0) /\ UNCHANGED <<isRunning, children>> ELSE Ends(r)
    /\ UNCHANGED agentVars
    /\ Others

Rested(r) ==
    /\ Ready(r, "lingers")
    /\ Ends(r)
    /\ UNCHANGED agentVars
    /\ Others

RunStep(r) ==
    \/ Begin(r) \/ Plan(r)
    \/ AgentAnswer(r) \/ AssistAnswer(r) \/ InteractAnswer(r)
    \/ AgentTools(r) \/ AssistTools(r) \/ InteractTools(r)
    \/ Replan(r) \/ Summary(r)
    \/ RequestFails(r) \/ Cancelled(r) \/ Rested(r)

-------------------------------------------------------------------------------
(* The screen's handlers.                                                      *)

Starts(m, isWake) ==
    LET r == runs + 1
    IN  /\ r \in Runs
        /\ runs' = r
        /\ mode' = [mode EXCEPT ![r] = m]
        /\ woken' = [woken EXCEPT ![r] = isWake]
        /\ pc' = [pc EXCEPT ![r] = "new"]
        /\ current' = r
        /\ UNCHANGED <<must, iteration>>

(* on_input_submitted, in the mode the screen is in; "/agent task".  A wake-up *)
(* may have started a run whose first step is still to come; the operator does *)
(* not submit twice within one turn of the event loop.                         *)
Submit(m) ==
    /\ ~isRunning
    /\ \A r \in Runs : pc[r] = "new" => woken[r]
    /\ Starts(m, FALSE)
    /\ widgets' = Append(widgets, runs')
    /\ UNCHANGED <<agentVars, shouldStop, wakes, childVars, isRunning, children, stopped>>

(* on_child_agent_wake_up_message: dropped while a run is on.  The run takes   *)
(* the mode the screen is in.                                                  *)
WakeUp(m) ==
    /\ wakes > 0
    /\ wakes' = wakes - 1
    /\ IF isRunning THEN UNCHANGED <<runVars, runs, current>> ELSE Starts(m, TRUE)
    /\ UNCHANGED <<agentVars, shouldStop, widgets, childVars, isRunning, children, stopped>>

(* Worker.cancel, which does nothing to a task that is done.                   *)
CancelCurrent ==
    must' = [r \in Runs |-> must[r] \/ (r = current /\ pc[r] # "done")]

(* cleanup_after_cancel: the calls at the end of the history go, and the       *)
(* user's message before them, if there is one; results (whose role is         *)
(* "tool_result") do not.  k is where the calls at the end begin.              *)
CleansUp ==
    /\ \E k \in 0..Len(history) :
         /\ \A i \in (k + 1)..Len(history) : history[i].kind = "calls"
         /\ k > 0 => history[k].kind # "calls"
         /\ history' = SubSeq(history, 1,
                          IF k > 0 /\ history[k].kind = "user" THEN k - 1 ELSE k)
    /\ state' = Moved(state, "idle")

(* action_stop_agent.                                                          *)
Stop ==
    /\ isRunning
    /\ shouldStop' = TRUE
    /\ stopped' = {current} \cap Runs
    /\ CancelCurrent
    /\ CleansUp
    /\ UNCHANGED <<planned, mode, woken, pc, iteration, runs, current, widgets, wakes,
                   childVars, isRunning, children>>

(* _truncate_to_user_message, for the i-th user message on the screen: the      *)
(* running task is cancelled and forgotten, and the history is cut before its  *)
(* i-th user message, whoever that is from; nothing is cut if it has fewer.    *)
Rewind(i) ==
    /\ CancelCurrent
    /\ current' = 0
    /\ isRunning' = FALSE
    /\ LET IsTheOne(k) ==
             /\ history[k].kind = "user"
             /\ Cardinality({j \in 1..k : history[j].kind = "user"}) = i
       IN  \/ \E k \in DOMAIN history :
                /\ IsTheOne(k)
                /\ history' = SubSeq(history, 1, k - 1)
                /\ widgets' = SubSeq(widgets, 1, i - 1)
           \/ /\ \A k \in DOMAIN history : ~IsTheOne(k)
              /\ UNCHANGED <<history, widgets>>
    /\ owed' = FALSE
    /\ UNCHANGED <<state, planned, runs, mode, woken, pc, iteration, shouldStop, wakes,
                   notes, children, stopped>>

(* _watch_child_notifications: the message goes to the end of the history, and *)
(* an agent that is idle or complete at that moment is woken.                  *)
AtWork(r) == pc[r] \in {"new"} \cup Tools \cup Asking

Notify ==
    /\ children /\ notes < MaxNotes
    /\ notes' = notes + 1
    /\ history' = Append(history, Msg("user", 0))
    /\ wakes' = (IF state \in {"idle", "complete"} THEN wakes + 1 ELSE wakes)
    /\ owed' = (owed \/ ~\E r \in Runs : AtWork(r))
    /\ UNCHANGED <<state, planned, runVars, runs, shouldStop, current, widgets, isRunning,
                   children, stopped>>

Next ==
    \/ \E r \in Runs : RunStep(r)
    \/ \E m \in Modes : Submit(m) \/ WakeUp(m)
    \/ Stop
    \/ \E i \in DOMAIN widgets : Rewind(i)
    \/ Notify

Spec == Init /\ [][Next]_vars

-------------------------------------------------------------------------------
(* Properties.                                                                 *)

(* Every variable has its type.                                                *)
TypeOK ==
    /\ history \in Seq(Messages)
    /\ state \in States
    /\ planned \in BOOLEAN
    /\ runs \in 0..MaxRuns
    /\ mode \in [Runs -> {"assist", "interact", "agent"}]
    /\ woken \in [Runs -> BOOLEAN]
    /\ pc \in [Runs -> Places]
    /\ must \in [Runs -> BOOLEAN]
    /\ iteration \in [Runs -> 0..MaxIterations]
    /\ isRunning \in BOOLEAN
    /\ shouldStop \in BOOLEAN
    /\ current \in 0..MaxRuns
    /\ widgets \in Seq(Runs)
    /\ wakes \in Nat
    /\ children \in BOOLEAN
    /\ notes \in 0..MaxNotes
    /\ owed \in BOOLEAN
    /\ stopped \in SUBSET Runs

(* What assist and agent runs put into the history stays a valid conversation: *)
(* the calls of tools are followed at once by their results, and results come  *)
(* at once after their calls, however messages of child agents, a Stop, a      *)
(* rewind or another run come between the steps of the run.                    *)
Quiet(r) == r \in Runs /\ mode[r] # "interact"
FollowedAtOnce(h, i) == i < Len(h) /\ h[i + 1] = Msg("results", h[i].run)
AfterItsCalls(h, i) == i > 1 /\ h[i - 1] = Msg("calls", h[i].run)

PairedIn(h) ==
    \A i \in DOMAIN h : Quiet(h[i].run) =>
        /\ h[i].kind = "calls" => FollowedAtOnce(h, i)
        /\ h[i].kind = "results" => AfterItsCalls(h, i)

Paired == PairedIn(history)

(* action_stop_agent: the run it cancels asks the model nothing more, also if  *)
(* a command swallows the CancelledError, until another run takes the flags.   *)
StopIsHeard ==
    [][\A r \in stopped : pc'[r] \in Asking =>
          pc'[r] = pc[r] /\ iteration'[r] = iteration[r]]_vars

(* Input that is blocked is so by a run that is still under way and will take  *)
(* the flag back: no order of ends, failures, cancellations, rewinds and late  *)
(* first steps leaves the screen blocked for good.                             *)
InputComesBack ==
    isRunning => \E r \in Runs : pc[r] \in {"lingers"} \cup Tools \cup Asking

-------------------------------------------------------------------------------
(* What the texts of the program say, and it does not do.                      *)

(* tools/mcp_agent.py: "If the agent loop finished while waiting for the       *)
(* child, wake it up."  A message that came with no loop at work has a run     *)
(* that is about to take it, or a wake-up under way.                           *)
WakesWhenFinished == owed => wakes > 0 \/ \E r \in Runs : pc[r] = "new"

(* README.md: rewind truncates "the conversation back to just before that      *)
(* message - both in the UI and in the agent's in-memory history".             *)
RewindsToItsMessage ==
    [][\A i \in DOMAIN widgets : \A k \in DOMAIN history :
          Rewind(i) /\ history[k] = Msg("user", widgets[i])
             => history' = SubSeq(history, 1, k - 1)]_vars
===============================================================================
