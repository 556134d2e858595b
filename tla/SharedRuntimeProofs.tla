-------------------------- MODULE SharedRuntimeProofs --------------------------
(* For any agents, tasks, commands and browsers: what holds of the plans and of   *)
(* the commands by themselves holds when the agents of a program run both, and a *)
(* command that returned has no shell that runs.  A plan is changed by its own   *)
(* agent alone, and an agent that runs where it was built never reaches its limit *)
(* with a plan its model finished; the interface's agents are exempt from the     *)
(* second alone.                                                                 *)
EXTENDS SharedRuntime, TLAPS

\* The task of an agent was started, and its context has the plan of that agent, or
\* none if the interface built the agent elsewhere.
Homes ==
    /\ context[App] = NoAgent
    /\ \A a \in Agents : home[a] # NoTask =>
         /\ home[a] \in Tasks \ {App} /\ home[a] \notin free
         /\ context[home[a]] \in {a, NoAgent}
         /\ a \notin Mains => context[home[a]] = a
    /\ \A a \in Agents : loop[a].step \notin {"none", "built", "over"} => home[a] # NoTask

Unfinished(a) == \E i \in DOMAIN plan[a] : i \notin marked[a]

\* What its model finished is finished in the plan, and the loop goes on, or ended
\* at its limit, only while something is not.
Marks ==
    \A a \in Agents \ Mains :
        /\ \A i \in DOMAIN plan[a] : i \in marked[a] => plan[a][i] \in {"complete", "skip"}
        /\ loop[a].step = "asks" => Unfinished(a)
        /\ loop[a].step = "replans" => HasFailure(plan[a])
        /\ loop[a].ended = "limit" => Unfinished(a) /\ loop[a].step = "over"

IInv == TypeOK /\ Homes /\ Marks

LEMMA FreshIsPlan ==
    ASSUME PlanAssumption, NEW n \in 1 .. MaxSteps
    PROVE  Fresh(n) \in Plans /\ DOMAIN Fresh(n) = 1 .. n /\ 1 \in DOMAIN Fresh(n)
BY DEF PlanAssumption, Fresh, Plans, Statuses

LEMMA PlanDomain ==
    ASSUME PlanAssumption, NEW p \in Plans
    PROVE  DOMAIN p \subseteq 1 .. MaxSteps /\ \A i \in DOMAIN p : p[i] \in Statuses
BY DEF PlanAssumption, Plans

\* A mark stays in the plans.
LEMMA MarkedIsPlan ==
    ASSUME NEW p \in Plans, NEW i \in DOMAIN p, NEW s \in Statuses
    PROVE  /\ [p EXCEPT ![i] = s] \in Plans
           /\ DOMAIN [p EXCEPT ![i] = s] = DOMAIN p
BY DEF Plans

THEOREM InitInv == PlanAssumption /\ Init => IInv
<1> SUFFICES ASSUME PlanAssumption, Init PROVE IInv OBVIOUS
<1>1. <<>> \in Plans
  BY DEF PlanAssumption, Plans
<1>2. TypeOK BY <1>1 DEF PlanAssumption, Init, TypeOK, Ends
<1>3. Homes BY DEF PlanAssumption, Init, Homes
<1>4. Marks BY DEF Init, Marks
<1> QED BY <1>2, <1>3, <1>4 DEF IInv

\* What a step of the loop does to where the agent is: it was running, and either goes
\* on, at an iteration within the bound, or is over.
LEMMA NextRoundType ==
    ASSUME PlanAssumption, TypeOK, NEW a \in Agents, NextRound(a)
    PROVE  /\ loop' \in [Agents -> [step : {"none", "built", "plans", "asks", "acts",
                                            "replans", "summarizes", "over"},
                                    iteration : 0 .. MaxIterations, ended : Ends \cup {"no"}]]
           /\ loop'[a].step \in {"asks", "over"}
           /\ loop'[a].ended \in {"limit", loop[a].ended}
           /\ \A b \in Agents \ {a} : loop'[b] = loop[b]
<1>1. loop[a].iteration \in 0 .. MaxIterations BY DEF TypeOK
<1>2. CASE loop[a].iteration = MaxIterations
  BY <1>2 DEF PlanAssumption, NextRound, Over, TypeOK, Ends
<1>3. CASE loop[a].iteration # MaxIterations
  <2>1. loop[a].iteration + 1 \in 0 .. MaxIterations BY <1>1, <1>3 DEF PlanAssumption
  <2> QED BY <1>3, <2>1 DEF NextRound, TypeOK, Ends
<1> QED BY <1>2, <1>3

LEMMA TypeStep == PlanAssumption /\ TypeOK /\ Homes /\ [Next]_vars => TypeOK'
<1> SUFFICES ASSUME PlanAssumption, TypeOK, Homes, [Next]_vars PROVE TypeOK' OBVIOUS
<1> USE DEF PlanAssumption
<1>0. <<>> \in Plans BY DEF Plans
<1>1. ASSUME NEW a \in Agents, NEW t \in Tasks, BuildMain(a, t) PROVE TypeOK'
  BY <1>1 DEF BuildMain, TypeOK, Moves
<1>2. ASSUME NEW a \in Agents, NEW t \in Tasks, RunMain(a, t) PROVE TypeOK'
  BY <1>2, <1>0 DEF RunMain, TypeOK
<1>3. ASSUME NEW a \in Agents, NEW t \in Tasks, WakeUp(a, t) PROVE TypeOK'
  BY <1>3 DEF WakeUp, TypeOK
<1>4. ASSUME NEW a \in Agents, NEW t \in Tasks, RunInOneTask(a, t) PROVE TypeOK'
  BY <1>4 DEF RunInOneTask, TypeOK
<1>5. ASSUME NEW a \in Agents, MakePlan(a) PROVE TypeOK'
  <2>1. PICK n \in 1 .. MaxSteps : plan' = [plan EXCEPT ![a] = Fresh(n)]
    BY <1>5 DEF MakePlan
  <2>2. plan' \in [Agents -> Plans] BY <2>1, FreshIsPlan DEF TypeOK
  <2> QED BY <1>5, <2>2 DEF MakePlan, TypeOK, Moves
<1>6. ASSUME NEW a \in Agents, EmptyAnswer(a) PROVE TypeOK'
  BY <1>6 DEF EmptyAnswer, TypeOK, Over, Ends
<1>7. ASSUME NEW a \in Agents, Thinks(a) PROVE TypeOK'
  BY <1>7, NextRoundType DEF Thinks, TypeOK
<1>8. ASSUME NEW a \in Agents, CallsTools(a) PROVE TypeOK'
  BY <1>8 DEF CallsTools, TypeOK, Moves
<1>9. ASSUME NEW a \in Agents, NEW i \in 1 .. MaxSteps, NEW s \in Statuses \ {"pending"},
             Finish(a, i, s)
      PROVE  TypeOK'
  <2> DEFINE owner == context[home[a]]
  <2>1. home[a] \in Tasks /\ owner \in Agents \cup {NoAgent}
    BY <1>9 DEF Finish, At, Homes, TypeOK
  <2>2. plan' \in [Agents -> Plans]
    <3>1. CASE owner # NoAgent /\ i \in DOMAIN plan[owner]
      <4>1. plan[owner] \in Plans BY <2>1, <3>1 DEF TypeOK
      <4>2. [plan[owner] EXCEPT ![i] = s] \in Plans BY <3>1, <4>1, MarkedIsPlan
      <4> QED BY <1>9, <2>1, <3>1, <4>2 DEF Finish, TypeOK
    <3>2. CASE ~(owner # NoAgent /\ i \in DOMAIN plan[owner])
      BY <1>9, <3>2 DEF Finish, TypeOK
    <3> QED BY <3>1, <3>2
  <2>3. marked' \in [Agents -> SUBSET (1 .. MaxSteps)] BY <1>9 DEF Finish, TypeOK
  <2> QED BY <1>9, <2>2, <2>3 DEF Finish, TypeOK
<1>10. ASSUME NEW a \in Agents, ToolsReturned(a) PROVE TypeOK'
  <2>1. loop' \in [Agents -> [step : {"none", "built", "plans", "asks", "acts", "replans",
                                     "summarizes", "over"},
                             iteration : 0 .. MaxIterations, ended : Ends \cup {"no"}]]
    BY <1>10, NextRoundType DEF ToolsReturned, TypeOK, Moves
  <2> QED BY <1>10, <2>1 DEF ToolsReturned, TypeOK
<1>11. ASSUME NEW a \in Agents, Replan(a) PROVE TypeOK'
  <2>1. plan' \in [Agents -> Plans] /\ marked' \in [Agents -> SUBSET (1 .. MaxSteps)]
    <3>1. ASSUME NEW n \in 1 .. MaxSteps, plan' = [plan EXCEPT ![a] = Fresh(n)],
                 marked' = [marked EXCEPT ![a] = {}]
          PROVE  plan' \in [Agents -> Plans] /\ marked' \in [Agents -> SUBSET (1 .. MaxSteps)]
      BY <3>1, FreshIsPlan DEF TypeOK
    <3> QED BY <1>11, <3>1 DEF Replan, TypeOK
  <2>2. loop' \in [Agents -> [step : {"none", "built", "plans", "asks", "acts", "replans",
                                     "summarizes", "over"},
                             iteration : 0 .. MaxIterations, ended : Ends \cup {"no"}]]
    BY <1>11, NextRoundType DEF Replan, TypeOK, Over, Ends
  <2> QED BY <1>11, <2>1, <2>2 DEF Replan, TypeOK
<1>12. ASSUME NEW a \in Agents, Summarize(a) PROVE TypeOK'
  BY <1>12 DEF Summarize, TypeOK, Over, Ends
<1>13. ASSUME NEW a \in Agents, Stopped(a) PROVE TypeOK'
  BY <1>13 DEF Stopped, TypeOK, Over, Ends
<1>14. CASE UNCHANGED vars
  BY <1>14 DEF vars, TypeOK
<1> QED BY <1>1, <1>2, <1>3, <1>4, <1>5, <1>6, <1>7, <1>8, <1>9, <1>10, <1>11, <1>12, <1>13, <1>14
        DEF Next, Starts, Step

\* The tasks that run agents are fixed: only a task that has not started is started.
LEMMA HomesStep == PlanAssumption /\ TypeOK /\ Homes /\ [Next]_vars => Homes'
<1> SUFFICES ASSUME PlanAssumption, TypeOK, Homes, [Next]_vars PROVE Homes' OBVIOUS
<1> USE DEF PlanAssumption
<1>1. ASSUME NEW a \in Agents, NEW t \in Tasks, BuildMain(a, t) PROVE Homes'
  BY <1>1 DEF BuildMain, TypeOK, Homes, Moves, At
<1>2. ASSUME NEW a \in Agents, NEW t \in Tasks, RunMain(a, t) PROVE Homes'
  BY <1>2 DEF RunMain, TypeOK, Homes
<1>3. ASSUME NEW a \in Agents, NEW t \in Tasks, WakeUp(a, t) PROVE Homes'
  BY <1>3 DEF WakeUp, TypeOK, Homes
<1>4. ASSUME NEW a \in Agents, NEW t \in Tasks, RunInOneTask(a, t) PROVE Homes'
  BY <1>4 DEF RunInOneTask, TypeOK, Homes
<1>5. ASSUME NEW a \in Agents, Step(a) PROVE Homes'
  <2>1. UNCHANGED <<context, free, home>>
    BY <1>5 DEF Step, MakePlan, EmptyAnswer, Thinks, CallsTools, Finish, ToolsReturned, Replan,
                Summarize, Stopped
  <2>2. loop[a].step \notin {"none", "built", "over"}
    BY <1>5 DEF Step, MakePlan, EmptyAnswer, Thinks, CallsTools, Finish, ToolsReturned, Replan,
                Summarize, Stopped, At
  <2>3. \A b \in Agents \ {a} : loop'[b] = loop[b]
    BY <1>5 DEF Step, MakePlan, EmptyAnswer, Thinks, CallsTools, Finish, ToolsReturned, Replan,
                Summarize, Stopped, Moves, Over, NextRound, TypeOK
  <2> QED BY <2>1, <2>2, <2>3 DEF Homes
<1>6. CASE UNCHANGED vars
  BY <1>6 DEF vars, Homes
<1> QED BY <1>1, <1>2, <1>3, <1>4, <1>5, <1>6 DEF Next, Starts

\* finish reaches the plan of its own agent or none: the context of a task that runs
\* an agent never has the plan of another.
LEMMA FinishIsOwn ==
    ASSUME PlanAssumption, TypeOK, Homes, NEW a \in Agents, NEW i \in 1 .. MaxSteps,
           NEW s \in Statuses \ {"pending"}, Finish(a, i, s)
    PROVE  /\ home[a] \in Tasks /\ context[home[a]] \in {a, NoAgent}
           /\ plan' \in {plan, [plan EXCEPT ![a] = [@ EXCEPT ![i] = s]]}
           /\ a \notin Mains => plan' = [plan EXCEPT ![a] = [@ EXCEPT ![i] = s]]
<1>1. home[a] \in Tasks /\ context[home[a]] \in {a, NoAgent}
      /\ (a \notin Mains => context[home[a]] = a)
  BY DEF Finish, At, Homes
<1> QED BY <1>1 DEF PlanAssumption, Finish

\* The step of one agent does not touch what Marks says of another.
LEMMA StepIsOwn ==
    ASSUME PlanAssumption, TypeOK, Homes, NEW a \in Agents, Step(a)
    PROVE  \A b \in Agents \ {a} :
             plan'[b] = plan[b] /\ marked'[b] = marked[b] /\ loop'[b] = loop[b]
<1>1. CASE MakePlan(a) BY <1>1 DEF MakePlan, Moves, TypeOK
<1>2. CASE \E i \in 1 .. MaxSteps, s \in Statuses \ {"pending"} : Finish(a, i, s)
  <2>1. PICK i \in 1 .. MaxSteps, s \in Statuses \ {"pending"} : Finish(a, i, s) BY <1>2
  <2>2. plan' \in {plan, [plan EXCEPT ![a] = [@ EXCEPT ![i] = s]]} BY <2>1, FinishIsOwn
  <2> QED BY <2>1, <2>2 DEF Finish, TypeOK
<1>3. CASE Replan(a)
  BY <1>3 DEF Replan, NextRound, Over, TypeOK
<1>4. CASE EmptyAnswer(a) \/ Thinks(a) \/ CallsTools(a) \/ ToolsReturned(a) \/ Summarize(a)
           \/ Stopped(a)
  BY <1>4 DEF EmptyAnswer, Thinks, CallsTools, ToolsReturned, Summarize, Stopped, Moves, Over,
              NextRound, TypeOK
<1> QED BY <1>1, <1>2, <1>3, <1>4 DEF Step

LEMMA MarksStep == PlanAssumption /\ IInv /\ [Next]_vars => Marks'
<1> SUFFICES ASSUME PlanAssumption, IInv, [Next]_vars PROVE Marks' OBVIOUS
<1> USE DEF PlanAssumption
<1>0. TypeOK /\ Homes /\ Marks BY DEF IInv
<1> DEFINE M(a) ==
      /\ \A i \in DOMAIN plan[a] : i \in marked[a] => plan[a][i] \in {"complete", "skip"}
      /\ loop[a].step = "asks" => Unfinished(a)
      /\ loop[a].step = "replans" => HasFailure(plan[a])
      /\ loop[a].ended = "limit" => Unfinished(a) /\ loop[a].step = "over"
<1>1. ASSUME NEW a \in Agents, NEW t \in Tasks, Starts(a, t) PROVE Marks'
  <2>1. CASE a \in Mains
    <3>1. \A b \in Agents \ {a} :
            plan'[b] = plan[b] /\ marked'[b] = marked[b] /\ loop'[b] = loop[b]
      BY <1>0, <1>1, <2>1 DEF Starts, BuildMain, RunMain, WakeUp, RunInOneTask, Moves, TypeOK
    <3> QED BY <1>0, <2>1, <3>1 DEF Marks, Unfinished, HasFailure
  <2>2. CASE a \notin Mains
    <3>1. RunInOneTask(a, t) BY <1>1, <2>2 DEF Starts, BuildMain, RunMain, WakeUp
    <3>2. \A b \in Agents \ {a} : loop'[b] = loop[b]
      BY <1>0, <3>1 DEF RunInOneTask, TypeOK
    <3>3. loop'[a].step = "plans" /\ loop'[a].ended = "no" /\ UNCHANGED <<plan, marked>>
      BY <1>0, <3>1 DEF RunInOneTask, TypeOK
    <3> QED BY <1>0, <3>2, <3>3 DEF Marks, Unfinished, HasFailure
  <2> QED BY <2>1, <2>2
<1>2. ASSUME NEW a \in Agents, Step(a) PROVE Marks'
  <2>1. \A b \in Agents \ {a} :
          plan'[b] = plan[b] /\ marked'[b] = marked[b] /\ loop'[b] = loop[b]
    BY <1>0, <1>2, StepIsOwn
  <2>2. ASSUME a \notin Mains PROVE M(a)'
    <3> USE <2>2
    <3>0. M(a) BY <1>0 DEF Marks
    <3>t. plan[a] \in Plans /\ DOMAIN plan[a] \subseteq 1 .. MaxSteps
          /\ \A i \in DOMAIN plan[a] : plan[a][i] \in Statuses
      BY <1>0, PlanDomain DEF TypeOK
    <3>f. ASSUME NEW n \in 1 .. MaxSteps, plan' = [plan EXCEPT ![a] = Fresh(n)],
                 marked' = [marked EXCEPT ![a] = {}]
          PROVE  marked'[a] = {} /\ Unfinished(a)'
      BY <1>0, <3>f, FreshIsPlan DEF Unfinished, TypeOK
    <3>1. CASE MakePlan(a)
      <4>1. PICK n \in 1 .. MaxSteps : plan' = [plan EXCEPT ![a] = Fresh(n)]
        BY <3>1 DEF MakePlan
      <4>2. marked'[a] = {} /\ Unfinished(a)' BY <3>1, <3>f, <4>1 DEF MakePlan
      <4>3. loop'[a].step = "asks" /\ loop'[a].ended = loop[a].ended
        BY <1>0, <3>1 DEF MakePlan, Moves, TypeOK
      <4>4. loop[a].ended # "limit" BY <3>0, <3>1 DEF MakePlan, At
      <4>5. loop'[a].step # "replans" /\ loop'[a].ended # "limit" BY <4>3, <4>4
      <4> QED BY <4>2, <4>5
    <3>2. ASSUME NEW i \in 1 .. MaxSteps, NEW s \in Statuses \ {"pending"}, Finish(a, i, s)
          PROVE  M(a)'
      <4>0. i \in DOMAIN plan[a] BY <3>2 DEF Finish
      <4>1. plan' = [plan EXCEPT ![a] = [@ EXCEPT ![i] = s]] /\ i \in DOMAIN plan[a]
        BY <1>0, <2>2, <3>2, <4>0, FinishIsOwn
      <4>2. plan'[a] = [plan[a] EXCEPT ![i] = s] /\ DOMAIN plan'[a] = DOMAIN plan[a]
        BY <1>0, <3>t, <4>1, MarkedIsPlan DEF TypeOK
      <4>3. marked'[a] = IF s = "fail" THEN marked[a] \ {i} ELSE marked[a] \cup {i}
        BY <1>0, <3>2 DEF Finish, TypeOK
      <4>4. \A j \in DOMAIN plan'[a] : j \in marked'[a] => plan'[a][j] \in {"complete", "skip"}
        <5> SUFFICES ASSUME NEW j \in DOMAIN plan'[a], j \in marked'[a]
                     PROVE  plan'[a][j] \in {"complete", "skip"}
          OBVIOUS
        <5>1. CASE j = i
          <6>1. s # "fail" BY <4>3, <5>1
          <6> QED BY <4>1, <4>2, <5>1, <6>1, <3>t DEF Statuses, Plans
        <5>2. CASE j # i
          <6>1. j \in marked[a] /\ j \in DOMAIN plan[a] BY <4>2, <4>3, <5>2
          <6>2. plan'[a][j] = plan[a][j] BY <4>2, <5>2, <6>1, <3>t DEF Plans
          <6> QED BY <3>0, <6>1, <6>2
        <5> QED BY <5>1, <5>2
      <4>5. loop' = loop /\ loop[a].step = "acts" /\ loop[a].ended # "limit"
        BY <3>0, <3>2 DEF Finish, At
      <4> QED BY <4>4, <4>5
    <3>3. CASE ToolsReturned(a)
      <4>0. UNCHANGED <<plan, marked>> /\ loop[a].step = "acts" /\ loop[a].ended # "limit"
        BY <3>0, <3>3 DEF ToolsReturned, At
      <4>1. CASE HasFailure(plan[a])
        <5>1. loop'[a].step = "replans" /\ loop'[a].ended = loop[a].ended
          BY <1>0, <3>3, <4>1 DEF ToolsReturned, Moves, TypeOK
        <5> QED BY <3>0, <4>0, <4>1, <5>1 DEF HasFailure
      <4>2. CASE ~HasFailure(plan[a]) /\ IsComplete(plan[a])
        <5>1. loop'[a].step = "summarizes" /\ loop'[a].ended = loop[a].ended
          BY <1>0, <3>3, <4>2 DEF ToolsReturned, Moves, TypeOK
        <5> QED BY <3>0, <4>0, <5>1
      <4>3. CASE ~HasFailure(plan[a]) /\ ~IsComplete(plan[a])
        <5>1. Unfinished(a) BY <3>0, <4>3 DEF IsComplete, Unfinished
        <5>2. Unfinished(a)' BY <4>0, <5>1 DEF Unfinished
        <5>3. NextRound(a) BY <3>3, <4>3 DEF ToolsReturned
        <5>4. loop'[a].step \in {"asks", "over"} /\ (loop'[a].ended = "limit" => loop'[a].step = "over")
          BY <1>0, <4>0, <5>3 DEF NextRound, Over, TypeOK
        <5> QED BY <3>0, <4>0, <5>2, <5>4
      <4> QED BY <4>1, <4>2, <4>3
    <3>4. CASE Replan(a)
      <4>0. loop[a].step = "replans" /\ loop[a].ended # "limit" BY <3>0, <3>4 DEF Replan, At
      <4>1. ASSUME NEW n \in 1 .. MaxSteps, plan' = [plan EXCEPT ![a] = Fresh(n)],
                   marked' = [marked EXCEPT ![a] = {}], NextRound(a)
            PROVE  M(a)'
        <5>1. marked'[a] = {} /\ Unfinished(a)' BY <3>f, <4>1
        <5>2. loop'[a].step \in {"asks", "over"} /\ (loop'[a].ended = "limit" => loop'[a].step = "over")
          BY <1>0, <4>0, <4>1 DEF NextRound, Over, TypeOK
        <5> QED BY <5>1, <5>2
      <4>2. CASE NextRound(a) /\ UNCHANGED <<plan, marked>>
        <5>1. PICK i \in DOMAIN plan[a] : plan[a][i] = "fail"
          BY <3>0, <4>0 DEF HasFailure
        <5>2. Unfinished(a)' BY <3>0, <4>2, <5>1 DEF Unfinished
        <5>3. loop'[a].step \in {"asks", "over"} /\ (loop'[a].ended = "limit" => loop'[a].step = "over")
          BY <1>0, <4>0, <4>2 DEF NextRound, Over, TypeOK
        <5> QED BY <3>0, <4>2, <5>2, <5>3
      <4>3. CASE Over(a, "impossible") /\ UNCHANGED <<plan, marked>>
        <5>1. loop'[a].step = "over" /\ loop'[a].ended = "impossible"
          BY <1>0, <4>3 DEF Over, TypeOK
        <5> QED BY <3>0, <4>3, <5>1
      <4> QED BY <3>4, <4>1, <4>2, <4>3 DEF Replan
    <3>5. CASE Thinks(a)
      <4>1. UNCHANGED <<plan, marked>> /\ Unfinished(a)
        BY <3>0, <3>5 DEF Thinks, At
      <4>2. Unfinished(a)' BY <4>1 DEF Unfinished
      <4>3. loop[a].ended # "limit" BY <3>0, <3>5 DEF Thinks, At
      <4>4. loop'[a].step \in {"asks", "over"} /\ (loop'[a].ended = "limit" => loop'[a].step = "over")
        BY <1>0, <3>5, <4>3 DEF Thinks, NextRound, Over, TypeOK
      <4> QED BY <3>0, <4>1, <4>2, <4>4
    <3>6. CASE EmptyAnswer(a) \/ CallsTools(a) \/ Summarize(a) \/ Stopped(a)
      <4>1. UNCHANGED <<plan, marked>> /\ loop[a].ended # "limit"
        BY <3>0, <3>6 DEF EmptyAnswer, CallsTools, Summarize, Stopped, At
      <4>2. loop'[a].step \in {"acts", "over"} /\ loop'[a].ended # "limit"
        BY <1>0, <3>6, <4>1 DEF EmptyAnswer, CallsTools, Summarize, Stopped, Moves, Over, TypeOK
      <4> QED BY <3>0, <4>1, <4>2
    <3> QED BY <1>2, <3>1, <3>2, <3>3, <3>4, <3>5, <3>6 DEF Step
  <2> QED BY <1>0, <2>1, <2>2 DEF Marks, Unfinished, HasFailure
<1>3. CASE UNCHANGED vars
  BY <1>0, <1>3 DEF vars, Marks, Unfinished, HasFailure
<1> QED BY <1>1, <1>2, <1>3 DEF Next

THEOREM NextInv == PlanAssumption /\ IInv /\ [Next]_vars => IInv'
BY TypeStep, HomesStep, MarksStep DEF IInv

THEOREM Invariant == PlanAssumption => (Spec => []IInv)
<1> SUFFICES ASSUME PlanAssumption PROVE Spec => []IInv OBVIOUS
<1>1. Init => IInv BY InitInv
<1>2. IInv /\ [Next]_vars => IInv' BY NextInv
<1> QED BY <1>1, <1>2, PTL DEF Spec

\* Type correctness.
THEOREM TypeCorrect == PlanAssumption => (Spec => []TypeOK)
<1>1. IInv => TypeOK BY DEF IInv
<1> QED BY <1>1, Invariant, PTL

\* The plans of agents that share a runtime are isolated: no step but its own changes
\* the plan of an agent, whatever the tasks do.
THEOREM Isolation == PlanAssumption => (Spec => PlansAreIsolated)
<1> SUFFICES ASSUME PlanAssumption PROVE Spec => PlansAreIsolated OBVIOUS
<1>1. IInv /\ [Next]_vars =>
        [\A a \in Agents : plan'[a] # plan[a] => \E t \in Tasks : Starts(a, t) \/ Step(a)]_vars
  <2> SUFFICES ASSUME IInv, Next, NEW a \in Agents, plan'[a] # plan[a]
               PROVE  \E t \in Tasks : Starts(a, t) \/ Step(a)
    OBVIOUS
  <2>0. TypeOK /\ Homes BY DEF IInv
  <2>1. App \in Tasks BY DEF PlanAssumption
  <2>2. PICK b \in Agents : (\E t \in Tasks : Starts(b, t)) \/ Step(b) BY DEF Next
  <2>3. CASE b = a BY <2>1, <2>2, <2>3
  <2>4. CASE b # a
    <3>1. CASE Step(b) BY <2>0, <2>4, <3>1, StepIsOwn
    <3>2. ASSUME NEW t \in Tasks, Starts(b, t) PROVE FALSE
      BY <2>0, <2>4, <3>2 DEF Starts, BuildMain, RunMain, WakeUp, RunInOneTask, TypeOK
    <3> QED BY <2>2, <3>1, <3>2
  <2> QED BY <2>3, <2>4
<1>2. Spec => []IInv BY Invariant
<1> QED BY <1>1, <1>2, PTL DEF Spec, PlansAreIsolated

\* An agent that runs in the task that built it ends when its model has finished its
\* plan: it never reaches its limit with every step marked.
THEOREM WorkersFinish == PlanAssumption => (Spec => []FinishedPlansOfWorkersEnd)
<1>1. IInv => FinishedPlansOfWorkersEnd
  BY DEF IInv, Marks, FinishedPlansOfWorkersEnd, Unfinished
<1> QED BY <1>1, Invariant, PTL

-------------------------------------------------------------------------------
(* The agents of a program with the commands they run.                          *)

\* Where the calls and their processes are.
CommandTypes ==
    /\ commands \in [Commands -> {"no", "starts", "waits", "killsLate", "killsCancelled"}
                                 \cup CommandEnds]
    /\ processes \in [Commands -> {"none", "runs", "background", "over"}]

\* A call that returned, or waits for what it killed, has no shell that runs.
Ended ==
    \A c \in Commands :
        commands[c] \in {"done", "timeout", "cancelled", "killsLate", "killsCancelled"}
            => processes[c] # "runs"

CInv == CommandTypes /\ Ended

LEMMA CommandsInit == RuntimeInit => CInv
BY DEF RuntimeInit, CInv, CommandTypes, Ended

\* The calls of execute_command.
LEMMA CommandStep ==
    ASSUME CInv, NEW c \in Commands, Command(c)
    PROVE  CInv'
<1> USE DEF CInv, CommandTypes, Ended, CommandEnds, CommandMoves
<1>1. CASE Execute(c) BY <1>1 DEF Execute
<1>2. CASE Created(c) BY <1>2 DEF Created
<1>3. CASE ShellExits(c) BY <1>3 DEF ShellExits
<1>4. CASE BackgroundEnds(c) BY <1>4 DEF BackgroundEnds
<1>5. CASE Communicated(c) BY <1>5 DEF Communicated
<1>6. CASE TimesOut(c) BY <1>6 DEF TimesOut, GivesUp
<1>7. CASE CommandCancelled(c) BY <1>7 DEF CommandCancelled, GivesUp
<1>8. CASE Killed(c) BY <1>8 DEF Killed
<1>9. CASE RaisesInHandler(c) BY <1>9 DEF RaisesInHandler
<1>10. CASE CommandFails(c) BY <1>10 DEF CommandFails
<1> QED BY <1>1, <1>2, <1>3, <1>4, <1>5, <1>6, <1>7, <1>8, <1>9, <1>10 DEF Command

LEMMA RuntimeStep == CInv /\ [RuntimeNext]_runtimeVars => CInv'
<1> SUFFICES ASSUME CInv, [RuntimeNext]_runtimeVars PROVE CInv' OBVIOUS
<1>1. ASSUME NEW c \in Commands, Command(c) PROVE CInv' BY <1>1, CommandStep
<1>2. ASSUME NEW a \in Callers, Browse(a) PROVE CInv'
  <2>1. UNCHANGED commandVars
    BY <1>2 DEF Browse, BrowserAction, BrowserLaunched, PageOpened, Went, Acted, ActionFails
  <2> QED BY <2>1 DEF CInv, CommandTypes, Ended, commandVars
<1>3. CASE Stop
  <2>1. CASE StopReaps
    <3>1. commands' = commands BY <2>1 DEF StopReaps
    <3>2. processes' \in [Commands -> {"none", "runs", "background", "over"}]
      BY <2>1 DEF StopReaps, CInv, CommandTypes
    <3>3. \A c \in Commands : processes'[c] = "runs" => processes[c] = "runs"
      BY <2>1 DEF StopReaps, CInv, CommandTypes
    <3> QED BY <3>1, <3>2, <3>3 DEF CInv, CommandTypes, Ended
  <2>2. CASE ~StopReaps
    <3>1. UNCHANGED <<commands, processes>>
      BY <1>3, <2>2 DEF Stop, StopBegins, StopNext, StopClears, ClosesPage, ClosesBrowser,
                        commandVars
    <3> QED BY <3>1 DEF CInv, CommandTypes, Ended
  <2> QED BY <2>1, <2>2
<1>4. CASE UNCHANGED runtimeVars
  BY <1>4 DEF runtimeVars, commandVars, CInv, CommandTypes, Ended
<1> QED BY <1>1, <1>2, <1>3, <1>4 DEF RuntimeNext

\* A command that returned at its end, its timeout or a cancellation has no shell that
\* runs, whatever happened between its steps.
THEOREM CommandsEnd == RuntimeSpec => []ReturnedCommandsEnded
<1>1. CInv => ReturnedCommandsEnded BY DEF CInv, Ended, ReturnedCommandsEnded
<1> QED BY <1>1, CommandsInit, RuntimeStep, PTL DEF RuntimeSpec

\* By its composition every step of the agents of a program is one of their loops, or
\* leaves these alone ...
LEMMA SharedPlans == SharedSpec => Spec
<1>1. SharedInit => Init BY DEF SharedInit
<1>2. [SharedNext]_sharedVars => [Next]_vars
  <2> SUFFICES ASSUME SharedNext PROVE [Next]_vars
    BY DEF sharedVars, vars
  <2>1. ASSUME NEW a \in Agents, LoopStep(a) PROVE Next BY <2>1 DEF LoopStep, Next
  <2>2. ASSUME NEW a \in Agents, AgentStarts(a) PROVE Next BY <2>2 DEF AgentStarts, Next
  <2>3. ASSUME NEW a \in Agents, Browses(a) PROVE UNCHANGED vars BY <2>3 DEF Browses
  <2>4. ASSUME NEW a \in Agents, NEW c \in Commands, RunsCommand(a, c) PROVE UNCHANGED vars
    BY <2>4 DEF RunsCommand
  <2>5. ASSUME NEW c \in Commands, CommandGoesOn(c) PROVE UNCHANGED vars
    BY <2>5 DEF CommandGoesOn
  <2>6. CASE RuntimeStops BY <2>6 DEF RuntimeStops
  <2> QED BY <2>1, <2>2, <2>3, <2>4, <2>5, <2>6 DEF SharedNext
<1> QED BY <1>1, <1>2, PTL DEF SharedSpec, Spec

\* ... and the same of the runtime, so that what was proved of the parts is carried over.
LEMMA SharedCommands == Agents \subseteq Callers => (SharedSpec => RuntimeSpec)
<1> SUFFICES ASSUME Agents \subseteq Callers PROVE SharedSpec => RuntimeSpec OBVIOUS
<1>1. SharedInit => RuntimeInit BY DEF SharedInit
<1>2. [SharedNext]_sharedVars => [RuntimeNext]_runtimeVars
  <2> SUFFICES ASSUME SharedNext PROVE [RuntimeNext]_runtimeVars
    BY DEF sharedVars
  <2>1. ASSUME NEW a \in Agents, LoopStep(a) PROVE UNCHANGED runtimeVars BY <2>1 DEF LoopStep
  <2>2. ASSUME NEW a \in Agents, AgentStarts(a) PROVE UNCHANGED runtimeVars
    BY <2>2 DEF AgentStarts
  <2>3. ASSUME NEW a \in Agents, Browses(a) PROVE RuntimeNext BY <2>3 DEF Browses, RuntimeNext
  <2>4. ASSUME NEW a \in Agents, NEW c \in Commands, RunsCommand(a, c) PROVE RuntimeNext
    BY <2>4 DEF RunsCommand, RuntimeNext, Command
  <2>5. ASSUME NEW c \in Commands, CommandGoesOn(c) PROVE RuntimeNext
    BY <2>5 DEF CommandGoesOn, RuntimeNext
  <2>6. CASE RuntimeStops BY <2>6 DEF RuntimeStops, RuntimeNext
  <2> QED BY <2>1, <2>2, <2>3, <2>4, <2>5, <2>6 DEF SharedNext
<1> QED BY <1>1, <1>2, PTL DEF SharedSpec, RuntimeSpec

\* So on a shared runtime, too, an agent that runs where it was built does not run into
\* its limit with a finished plan, and no agent changes the plan of another.
THEOREM SharedAgents ==
    PlanAssumption => (SharedSpec => []FinishedPlansOfWorkersEnd /\ PlansAreIsolated)
BY SharedPlans, WorkersFinish, Isolation, PTL

\* And a command that returned has ended, whichever agent made it.
THEOREM SharedCommandsEnd ==
    Agents \subseteq Callers => (SharedSpec => []ReturnedCommandsEnded)
BY SharedCommands, CommandsEnd, PTL
===============================================================================
