------------------------------ MODULE PlanContext ------------------------------
(* Plans: the autonomous loop makes one and ends when it is complete             *)
(* (agents/base_agent.py:315), the tool finish marks its steps through           *)
(* runtime.plan (tools/finish), and runtime.plan is a ContextVar of the runtime  *)
(* that all agents share (runtime/policy.py:735). A context belongs to a task    *)
(* and is copied when a task starts another.                                     *)
EXTENDS Naturals, Sequences

CONSTANTS
    Agents,
    Mains,          \* those the interface builds in one task and runs in others
    Tasks, App,     \* asyncio tasks; App is the message loop of the interface
    NoAgent, NoTask,
    MaxSteps,       \* bound: steps of a plan
    MaxIterations   \* max_iterations

\* What the theorems assume of the constants.
PlanAssumption ==
    /\ Mains \subseteq Agents /\ NoAgent \notin Agents
    /\ App \in Tasks /\ NoTask \notin Tasks
    /\ MaxSteps \in Nat /\ MaxIterations \in Nat \ {0}

VARIABLES
    context,        \* the agent whose plan the ContextVar has, in each task
    free,           \* tasks that have not been started
    home,           \* the task an agent runs in
    loop,           \* where its loop is: step, iteration, how the run ended
    plan,           \* _task_plan of each agent: the status of each step
    marked          \* history: steps its model completed or skipped, with finish

vars == <<context, free, home, loop, plan, marked>>

Statuses == {"pending", "complete", "skip", "fail"}
Ends == {"complete", "limit", "empty", "impossible", "stopped"}
Plans == UNION {[1 .. n -> Statuses] : n \in 0 .. MaxSteps}
Fresh(n) == [i \in 1 .. n |-> "pending"]
HasFailure(p) == \E i \in DOMAIN p : p[i] = "fail"
IsComplete(p) == \A i \in DOMAIN p : p[i] \in {"complete", "skip"}

Init ==
    /\ context = [t \in Tasks |-> NoAgent]
    /\ free = Tasks \ {App}
    /\ home = [a \in Agents |-> NoTask]
    /\ loop = [a \in Agents |-> [step |-> "none", iteration |-> 0, ended |-> "no"]]
    /\ plan = [a \in Agents |-> <<>>]
    /\ marked = [a \in Agents |-> {}]

At(a, step) == loop[a].step = step
Moves(a, step) == loop' = [loop EXCEPT ![a].step = step]
Over(a, how) == loop' = [loop EXCEPT ![a] = [step |-> "over", iteration |-> 0, ended |-> how]]

\* The next round of the loop, or its end.
NextRound(a) ==
    IF loop[a].iteration = MaxIterations
      THEN Over(a, "limit")
      ELSE loop' = [loop EXCEPT ![a].step = "asks", ![a].iteration = @ + 1]

(* Tasks. *)

\* _initialize_agent: a task of its own builds the agent, and ends.
BuildMain(a, t) ==
    /\ a \in Mains /\ At(a, "none") /\ t \in free
    /\ free' = free \ {t}
    /\ context' = [context EXCEPT ![t] = a]
    /\ Moves(a, "built")
    /\ UNCHANGED <<home, plan, marked>>

\* _run_agent_mode: agent_loop in a new task of the interface.
RunMain(a, t) ==
    /\ a \in Mains /\ loop[a].step \in {"built", "over"} /\ t \in free
    /\ free' = free \ {t}
    /\ context' = [context EXCEPT ![t] = context[App]]
    /\ home' = [home EXCEPT ![a] = t]
    /\ loop' = [loop EXCEPT ![a] = [step |-> "plans", iteration |-> 1, ended |-> "no"]]
    /\ plan' = [plan EXCEPT ![a] = <<>>]
    /\ marked' = [marked EXCEPT ![a] = {}]

\* _run_wake_up_mode in agent mode: the plan stays, and another is made only if
\* there is none.
WakeUp(a, t) ==
    /\ a \in Mains /\ loop[a].step \in {"built", "over"} /\ t \in free
    /\ free' = free \ {t}
    /\ context' = [context EXCEPT ![t] = context[App]]
    /\ home' = [home EXCEPT ![a] = t]
    /\ loop' = [loop EXCEPT ![a] = [step |-> IF plan[a] = <<>> THEN "plans" ELSE "asks",
                                    iteration |-> 1, ended |-> "no"]]
    /\ UNCHANGED <<plan, marked>>

\* A worker of a crew, and the agent of the command line: built and run in one task.
RunInOneTask(a, t) ==
    /\ a \notin Mains /\ At(a, "none") /\ t \in free
    /\ free' = free \ {t}
    /\ context' = [context EXCEPT ![t] = a]
    /\ home' = [home EXCEPT ![a] = t]
    /\ loop' = [loop EXCEPT ![a] = [step |-> "plans", iteration |-> 1, ended |-> "no"]]
    /\ UNCHANGED <<plan, marked>>

(* The loop. *)

\* _auto_generate_plan, which falls back to a plan of one step.
MakePlan(a) ==
    /\ At(a, "plans")
    /\ \E n \in 1 .. MaxSteps : plan' = [plan EXCEPT ![a] = Fresh(n)]
    /\ marked' = [marked EXCEPT ![a] = {}]
    /\ Moves(a, "asks")
    /\ UNCHANGED <<context, free, home>>

EmptyAnswer(a) ==
    /\ At(a, "asks")
    /\ Over(a, "empty")
    /\ UNCHANGED <<context, free, home, plan, marked>>

Thinks(a) ==
    /\ At(a, "asks")
    /\ NextRound(a)
    /\ UNCHANGED <<context, free, home, plan, marked>>

CallsTools(a) ==
    /\ At(a, "asks")
    /\ Moves(a, "acts")
    /\ UNCHANGED <<context, free, home, plan, marked>>

\* finish marks a step of the plan that the context of its task has.
Finish(a, i, status) ==
    LET owner == context[home[a]]
    IN  /\ At(a, "acts") /\ i \in DOMAIN plan[a]
        /\ plan' = IF owner # NoAgent /\ i \in DOMAIN plan[owner]
                     THEN [plan EXCEPT ![owner] = [@ EXCEPT ![i] = status]]
                     ELSE plan
        /\ marked' = [marked EXCEPT ![a] = IF status = "fail" THEN @ \ {i} ELSE @ \cup {i}]
        /\ UNCHANGED <<context, free, home, loop>>

ToolsReturned(a) ==
    /\ At(a, "acts")
    /\ IF HasFailure(plan[a]) THEN Moves(a, "replans")
       ELSE IF IsComplete(plan[a]) THEN Moves(a, "summarizes")
       ELSE NextRound(a)
    /\ UNCHANGED <<context, free, home, plan, marked>>

\* _replan: a new plan, none (the failed one stays), or the end of the run.
Replan(a) ==
    /\ At(a, "replans")
    /\ \/ /\ \E n \in 1 .. MaxSteps : plan' = [plan EXCEPT ![a] = Fresh(n)]
          /\ marked' = [marked EXCEPT ![a] = {}]
          /\ NextRound(a)
       \/ NextRound(a) /\ UNCHANGED <<plan, marked>>
       \/ Over(a, "impossible") /\ UNCHANGED <<plan, marked>>
    /\ UNCHANGED <<context, free, home>>

Summarize(a) ==
    /\ At(a, "summarizes")
    /\ Over(a, "complete")
    /\ UNCHANGED <<context, free, home, plan, marked>>

\* A request that fails, or a Stop.
Stopped(a) ==
    /\ loop[a].step \in {"plans", "asks", "acts", "replans", "summarizes"}
    /\ Over(a, "stopped")
    /\ UNCHANGED <<context, free, home, plan, marked>>

Step(a) ==
    \/ MakePlan(a) \/ EmptyAnswer(a) \/ Thinks(a) \/ CallsTools(a)
    \/ \E i \in 1 .. MaxSteps, s \in Statuses \ {"pending"} : Finish(a, i, s)
    \/ ToolsReturned(a) \/ Replan(a) \/ Summarize(a) \/ Stopped(a)

Starts(a, t) == BuildMain(a, t) \/ RunMain(a, t) \/ WakeUp(a, t) \/ RunInOneTask(a, t)

Next ==
    \E a \in Agents :
        \/ \E t \in Tasks : Starts(a, t)
        \/ Step(a)

Spec == Init /\ [][Next]_vars

TypeOK ==
    /\ context \in [Tasks -> Agents \cup {NoAgent}]
    /\ free \subseteq Tasks \ {App}
    /\ home \in [Agents -> Tasks \cup {NoTask}]
    /\ loop \in [Agents -> [step : {"none", "built", "plans", "asks", "acts", "replans",
                                    "summarizes", "over"},
                            iteration : 0 .. MaxIterations, ended : Ends \cup {"no"}]]
    /\ plan \in [Agents -> Plans]
    /\ marked \in [Agents -> SUBSET (1 .. MaxSteps)]

\* worker_pool.py:107-110: "The runtime stores task plans in a ContextVar so
\* concurrent workers still receive isolated plans". No step but its own changes
\* the plan of an agent.
PlansAreIsolated == [][\A a \in Agents : plan'[a] # plan[a] => \E t \in Tasks : Starts(a, t) \/ Step(a)]_vars

\* base_agent.py:321: "finish tool is called AND plan complete -> clean exit with
\* summary". A run does not end at its limit when its model finished every step.
FinishedPlansEnd ==
    \A a \in Agents : loop[a].ended = "limit" => \E i \in DOMAIN plan[a] : i \notin marked[a]

\* The same of the agents that are built in the task that runs them.
FinishedPlansOfWorkersEnd ==
    \A a \in Agents \ Mains :
        loop[a].ended = "limit" => \E i \in DOMAIN plan[a] : i \notin marked[a]
===============================================================================
