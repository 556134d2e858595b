----------------------------- MODULE SharedRuntime ----------------------------
(* The agents of one program on its one runtime: their loops (PlanContext) and   *)
(* the commands and browser actions their tools make there (LocalRuntime). The   *)
(* tools of one response run at the same time, unless the browser is among them, *)
(* and the loop goes on, or is stopped, when all of them have returned.          *)
EXTENDS PlanContext, LocalRuntime

VARIABLE caller     \* the agent whose tool made each call of execute_command

sharedVars == <<vars, runtimeVars, caller>>

SharedInit ==
    /\ Init /\ RuntimeInit
    /\ caller = [c \in Commands |-> NoAgent]

InCommand(a) == \E c \in Commands : caller[c] = a /\ commands[c] \notin CommandEnds
Browsing(a) == actions[a].step # "idle"
ToolsRun(a) == InCommand(a) \/ Browsing(a)

\* While tools of it run, another of them can be finish; the loop waits.
LoopStep(a) ==
    /\ Step(a)
    /\ ToolsRun(a) => UNCHANGED loop
    /\ UNCHANGED <<runtimeVars, caller>>

AgentStarts(a) ==
    /\ \E t \in Tasks : Starts(a, t)
    /\ UNCHANGED <<runtimeVars, caller>>

RunsCommand(a, c) ==
    /\ At(a, "acts") /\ ~Browsing(a)
    /\ Execute(c)
    /\ caller' = [caller EXCEPT ![c] = a]
    /\ UNCHANGED vars

CommandGoesOn(c) ==
    /\ Command(c) /\ ~Execute(c)
    /\ UNCHANGED <<vars, caller>>

Browses(a) ==
    /\ Browsing(a) \/ (At(a, "acts") /\ ~InCommand(a))
    /\ Browse(a)
    /\ UNCHANGED <<vars, caller>>

RuntimeStops ==
    /\ Stop
    /\ UNCHANGED <<vars, caller>>

SharedNext ==
    \/ \E a \in Agents :
         \/ LoopStep(a) \/ AgentStarts(a) \/ Browses(a)
         \/ \E c \in Commands : RunsCommand(a, c)
    \/ \E c \in Commands : CommandGoesOn(c)
    \/ RuntimeStops

SharedSpec == SharedInit /\ [][SharedNext]_sharedVars

SharedTypeOK == TypeOK /\ RuntimeTypeOK /\ caller \in [Commands -> Agents \cup {NoAgent}]
===============================================================================
