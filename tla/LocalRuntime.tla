----------------------------- MODULE LocalRuntime -----------------------------
(* LocalRuntime of runtime/runtime.py: shell commands with a timeout, a browser  *)
(* made on first use, and stop. One runtime serves the main agent and every      *)
(* worker of a crew (agents/crew/worker_pool.py:107), so calls overlap at every  *)
(* await. What a command prints and what a page contains are left out; a page is *)
(* the agent that took the browser to it.                                        *)
EXTENDS Naturals, Sequences, SequencesExt

CONSTANTS
    Commands,       \* calls of execute_command
    Callers,        \* agents, each with one browser_action at a time
    Blank,          \* the page of a new browser
    MaxBrowsers     \* bound: browsers that are launched

VARIABLES
    commands,       \* where each call is, and its outcome
    processes,      \* the process group of each call
    active,         \* _active_processes
    stopper,        \* stop: where it is, the next index of its loop, what it waits for
    actions,        \* where the action of each agent is
    launched,       \* browsers launched so far, 1 .. launched
    open,           \* those that still run
    browser, page,  \* _browser and the browser of _page, 0 for None
    shown,          \* whose page each browser shows
    visited         \* history: agents that went to a page of their own

commandVars == <<commands, processes, active>>
browserVars == <<actions, launched, open, browser, page, shown, visited>>
runtimeVars == <<commandVars, stopper, browserVars>>

Browsers == 1 .. MaxBrowsers
CommandEnds == {"done", "failed", "timeout", "cancelled", "raised"}

RuntimeInit ==
    /\ commands = [c \in Commands |-> "no"]
    /\ processes = [c \in Commands |-> "none"]
    /\ active = <<>>
    /\ stopper = [step |-> "no", at |-> 1, process |-> {}]
    /\ actions = [a \in Callers |-> [step |-> "idle", opens |-> FALSE, browser |-> 0]]
    /\ launched = 0 /\ open = {} /\ browser = 0 /\ page = 0
    /\ shown = [b \in Browsers |-> Blank]
    /\ visited = {}

(* execute_command *)

CommandMoves(c, step) == commands' = [commands EXCEPT ![c] = step]
Untrack(c) == active' = Remove(active, c)

Execute(c) ==
    /\ commands[c] = "no"
    /\ CommandMoves(c, "starts")
    /\ UNCHANGED <<processes, active, stopper, browserVars>>

Created(c) ==
    /\ commands[c] = "starts"
    /\ CommandMoves(c, "waits")
    /\ processes' = [processes EXCEPT ![c] = "runs"]
    /\ active' = Append(active, c)
    /\ UNCHANGED <<stopper, browserVars>>

\* The shell exits. What it left in the background holds its pipes, and
\* communicate waits for them.
ShellExits(c) ==
    /\ processes[c] = "runs"
    /\ \E left \in {"over", "background"} : processes' = [processes EXCEPT ![c] = left]
    /\ UNCHANGED <<commands, active, stopper, browserVars>>

BackgroundEnds(c) ==
    /\ processes[c] = "background"
    /\ processes' = [processes EXCEPT ![c] = "over"]
    /\ UNCHANGED <<commands, active, stopper, browserVars>>

Communicated(c) ==
    /\ commands[c] = "waits" /\ processes[c] = "over"
    /\ CommandMoves(c, "done")
    /\ Untrack(c)
    /\ UNCHANGED <<processes, stopper, browserVars>>

\* The timeout and a cancellation: the group is killed if the shell still runs,
\* and the call waits for its end. The error itself is swallowed.
GivesUp(c, result) ==
    /\ commands[c] = "waits"
    /\ Untrack(c)
    /\ IF processes[c] = "runs"
         THEN /\ processes' = [processes EXCEPT ![c] = "over"]
              /\ CommandMoves(c, IF result = "timeout" THEN "killsLate" ELSE "killsCancelled")
         ELSE CommandMoves(c, result) /\ UNCHANGED processes
    /\ UNCHANGED <<stopper, browserVars>>

TimesOut(c) == GivesUp(c, "timeout")
CommandCancelled(c) == GivesUp(c, "cancelled")

Killed(c) ==
    /\ \/ commands[c] = "killsLate" /\ CommandMoves(c, "timeout")
       \/ commands[c] = "killsCancelled" /\ CommandMoves(c, "cancelled")
    /\ UNCHANGED <<processes, active, stopper, browserVars>>

\* Cancelled before there is a process, or again while it waits for the killed
\* one, the handler itself raises. asyncio ends a process it was starting.
RaisesInHandler(c) ==
    /\ commands[c] \in {"starts", "killsLate", "killsCancelled"}
    /\ CommandMoves(c, "raised")
    /\ UNCHANGED <<processes, active, stopper, browserVars>>

\* Any other exception: the process is no longer tracked, and not killed.
CommandFails(c) ==
    /\ commands[c] \in {"starts", "waits"}
    /\ CommandMoves(c, "failed")
    /\ Untrack(c)
    /\ UNCHANGED <<processes, stopper, browserVars>>

(* browser_action *)

Acts(a, step) == actions' = [actions EXCEPT ![a].step = step]

\* What follows _ensure_browser: the action goes to a page first, or not.
Proceeds(a, opens, p) ==
    actions' = [actions EXCEPT ![a] = [step |-> IF opens THEN "goes" ELSE "acts",
                                       opens |-> opens, browser |-> p]]

BrowserAction(a, opens) ==
    /\ actions[a].step = "idle"
    /\ IF page # 0
         THEN Proceeds(a, opens, page)
         ELSE actions' = [actions EXCEPT ![a] = [step |-> "launches", opens |-> opens,
                                                 browser |-> 0]]
    /\ UNCHANGED <<commandVars, stopper, launched, open, browser, page, shown, visited>>

BrowserLaunched(a) ==
    /\ actions[a].step = "launches" /\ launched < MaxBrowsers
    /\ launched' = launched + 1
    /\ open' = open \cup {launched'}
    /\ browser' = launched'
    /\ actions' = [actions EXCEPT ![a].step = "opensPage", ![a].browser = launched']
    /\ UNCHANGED <<commandVars, stopper, page, shown, visited>>

PageOpened(a) ==
    /\ actions[a].step = "opensPage" /\ actions[a].browser \in open
    /\ page' = actions[a].browser
    /\ Proceeds(a, actions[a].opens, actions[a].browser)
    /\ UNCHANGED <<commandVars, stopper, launched, open, browser, shown, visited>>

\* goto is called on _page as it was then; what follows is called on _page as it is.
Went(a) ==
    /\ actions[a].step = "goes" /\ actions[a].browser \in open
    /\ shown' = [shown EXCEPT ![actions[a].browser] = a]
    /\ visited' = visited \cup {a}
    /\ IF page = 0
         THEN Acts(a, "idle")
         ELSE actions' = [actions EXCEPT ![a].step = "acts", ![a].browser = page]
    /\ UNCHANGED <<commandVars, stopper, launched, open, browser, page>>

Acted(a) ==
    /\ actions[a].step = "acts" /\ actions[a].browser \in open
    /\ Acts(a, "idle")
    /\ UNCHANGED <<commandVars, stopper, launched, open, browser, page, shown, visited>>

\* Any exception, the timeout of the whole action, or a cancellation.
ActionFails(a) ==
    /\ actions[a].step # "idle"
    /\ Acts(a, "idle")
    /\ UNCHANGED <<commandVars, stopper, launched, open, browser, page, shown, visited>>

(* stop *)

StopBegins ==
    /\ stopper.step = "no"
    /\ stopper' = [stopper EXCEPT !.step = "commands"]
    /\ UNCHANGED <<commandVars, browserVars>>

\* The loop goes over the list itself, by index.
StopNext ==
    /\ stopper.step = "commands" /\ stopper.at <= Len(active)
    /\ LET c == active[stopper.at]
       IN  stopper' = [stopper EXCEPT !.at = @ + 1,
                          !.step = IF processes[c] = "runs" THEN "waits" ELSE @,
                          !.process = IF processes[c] = "runs" THEN {c} ELSE {}]
    /\ UNCHANGED <<commandVars, browserVars>>

\* The process ends on SIGTERM, or is killed after five seconds.
StopReaps ==
    /\ stopper.step = "waits"
    /\ processes' = [c \in Commands |->
                       IF c \in stopper.process /\ processes[c] = "runs" THEN "over"
                                                                         ELSE processes[c]]
    /\ stopper' = [stopper EXCEPT !.step = "commands", !.process = {}]
    /\ UNCHANGED <<commands, active, browserVars>>

StopClears ==
    /\ stopper.step = "commands" /\ stopper.at > Len(active)
    /\ active' = <<>>
    /\ stopper' = [stopper EXCEPT !.step = IF page = 0 THEN "browser" ELSE "page"]
    /\ UNCHANGED <<commands, processes, browserVars>>

ClosesPage ==
    /\ stopper.step = "page"
    /\ page' = 0
    /\ stopper' = [stopper EXCEPT !.step = "browser"]
    /\ UNCHANGED <<commandVars, actions, launched, open, browser, shown, visited>>

ClosesBrowser ==
    /\ stopper.step = "browser"
    /\ open' = open \ {browser}
    /\ browser' = 0
    /\ stopper' = [stopper EXCEPT !.step = "stopped"]
    /\ UNCHANGED <<commandVars, actions, launched, page, shown, visited>>

Command(c) ==
    \/ Execute(c) \/ Created(c) \/ ShellExits(c) \/ BackgroundEnds(c) \/ Communicated(c)
    \/ TimesOut(c) \/ CommandCancelled(c) \/ Killed(c) \/ RaisesInHandler(c) \/ CommandFails(c)

Browse(a) ==
    \/ \E opens \in BOOLEAN : BrowserAction(a, opens)
    \/ BrowserLaunched(a) \/ PageOpened(a) \/ Went(a) \/ Acted(a) \/ ActionFails(a)

Stop == StopBegins \/ StopNext \/ StopReaps \/ StopClears \/ ClosesPage \/ ClosesBrowser

RuntimeNext ==
    \/ \E c \in Commands : Command(c)
    \/ \E a \in Callers : Browse(a)
    \/ Stop

RuntimeSpec == RuntimeInit /\ [][RuntimeNext]_runtimeVars

RuntimeTypeOK ==
    /\ commands \in [Commands -> {"no", "starts", "waits", "killsLate", "killsCancelled"} \cup CommandEnds]
    /\ processes \in [Commands -> {"none", "runs", "background", "over"}]
    /\ stopper.step \in {"no", "commands", "waits", "page", "browser", "stopped"}
    /\ actions \in [Callers -> [step : {"idle", "launches", "opensPage", "goes", "acts"},
                               opens : BOOLEAN, browser : 0 .. MaxBrowsers]]
    /\ launched \in 0 .. MaxBrowsers /\ open \subseteq 1 .. launched
    /\ browser \in 0 .. MaxBrowsers /\ page \in 0 .. MaxBrowsers
    /\ shown \in [Browsers -> Callers \cup {Blank}]
    /\ visited \subseteq Callers

\* A command that returned, at its end, at its timeout or cancelled, has no shell
\* that still runs, whatever came between its steps (runtime.py:653, 668, 679).
ReturnedCommandsEnded ==
    \A c \in Commands : commands[c] \in {"done", "timeout", "cancelled"} => processes[c] # "runs"

\* An agent acts on the page it went to: the target it declares for an action, which
\* policy and audit take for that of the action, is the one of its page.
ActsOnItsPage ==
    [][\A a \in Callers : Acted(a) /\ a \in visited => shown[actions[a].browser] = a]_runtimeVars

===============================================================================
