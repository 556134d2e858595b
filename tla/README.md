# PentestAgent (memorycreep): a verification project

TLA+ models of PentestAgent, the TLC runs that check them and the proofs that
extend what matters most to every size of the system. Paths are relative to the
repository; `policy.py:688` and the like are lines of `src/pentestagent/...`.

    tlc -workers 2 -config MCPolicyGate.cfg MCPolicyGate     # one run
    tlapm PolicyGateProofs.tla                               # the proofs of one module

## 1. The system

PentestAgent runs LLM agents that use tools (a shell, a browser, notes, other
agents) inside an isolated machine, under a policy a host operator set.
Everything inside the machine is tasks of one asyncio loop, driven by a terminal
interface; the broker, the MCP children and the host commands are processes of
their own.

| part | state it keeps | operations | what is hard | what makes it correct |
|---|---|---|---|---|
| policy gate (`runtime/policy.py`) | approval requests and grants, hash-chained audit file | `execute_tool`, approve, deny, append, load | several tasks share it, appends fail, the process dies in the middle of a line | a grant admits one body, of its own action; no body without a record; no verified log with a hole |
| crew (`agents/crew/`) | workers, their tasks and statuses, the orchestrator's state | spawn, wait, cancel, finish, run, Stop | asyncio cancellation that is swallowed, passed on, or late; two cleanups at once | dependencies first, a complete report, no orphans, a Stop that gets through |
| broker accounting (`broker.py`) | request times, day and cost per provider; the state file | `_reserve`, save, load | failed saves, crashes, restarts, a wall clock that is set back | budget and rate hold over restarts; the broker starts on its own state |
| agent loop (`agents/base_agent.py`, `state.py`) | conversation history, agent state | autonomous, assist, interact and MCP loops, cleanup | a Stop or a watcher's message between a tool call and its result | calls and results stay paired; an agent that has finished is woken |
| terminal interface (`interface/tui.py`) | mode, running and stop flags, current task | run a mode, Stop, `/approvals`, wake-up | flags read by tasks that are already cancelled | a Stop ends the run; input comes back |
| child agents (`tools/mcp_agent.py`) | children, their names, watchers | spawn, delegate, watch, despawn | spawns side by side; children answer, end or die at any time | every outcome is seen once; each child has its own name |
| MCP client (`mcp/transport.py`, `manager.py`) | `mcp_servers.json`, servers, pending requests, the pipe | connect, enable, send, reconnect | late answers, the end of the pipe, tasks that connect side by side | an answer goes to its request; a call reaches the server it names |
| MCP server (`mcp/server/`) | table of tasks, tools, configuration | run, await, cancel, configure | cancellation by a flag; requests that block; settings changed under a task | a cancelled task stays cancelled; what was awaited has finished |
| runtimes (`runtime/runtime.py`) | processes, one browser and page | execute, browse, stop | shared by all agents; timeouts; stop beside calls | a command that returned runs no more; an agent reads its own page |
| plan and finish tool (`agents/base_agent.py`, `tools/finish`) | a plan per agent | create, complete, skip, replan | the plan is looked up in a ContextVar | each agent marks its own plan, and a finished plan ends its run |
| notes, conversations (`tools/notes`, `interface/conversation_store.py`) | JSON files, an index | load, save, restore, prune | writes that are not atomic, several programs, no lock | nothing saved is lost silently; the list is what is on disk |
| conversation memory (`llm/memory.py`) | one summary and what it covers | summarise, truncate, retry | state set after an await, several histories | the summary covers the messages it replaces |
| workspaces (`workspaces/`) | a marker, a `meta.yaml` each | activate, set targets, export, import | read-modify-write by several programs | the scope is what the operator gave; the agent is told its target |
| knowledge base (`knowledge/rag.py`) | an index in memory, one on disk | index, store, load, search | indexing beside a switch of the workspace | a search finds sources of its own workspace |
| host sessions (`host_cli.py` and the root helpers) | files in `/run` and `/var/lib`, nftables, units | start, stop, export | kills, failed steps and undos that fail, a reboot | whatever runs is of the session on file; what is exported is what was confirmed |
| everything else | | command line, container runtime, WASM sandbox, web search, guests, Nix files | sequential or I/O | not modelled, see section 8 |

They interact through calls and shared objects: every agent and every crew worker
holds the same `PolicyRuntime`, hence the same approvals and the same audit log;
the interface starts and cancels the task an agent or a crew runs in; model
requests go through the broker, which charges them first. Tasks that connect MCP
servers and tasks that spawn children change one table of the same manager. Programs
of one operator (interface, command line, MCP server, child agents) share the files
of the active workspace, and nothing locks them.

## 2. Plan

Most important first; each module is written to be checked and to be proved about
(CONSTANTS with a named assumption, an action per operation, no RECURSIVE).

1. `PolicyRules`, `AuditChain`, `PolicyGate`, refined to `OneUseApproval` - done, proved.
2. `CrewPool` - done, safety proved.
3. `BrokerUsage` - done, safety proved.
4. `AgentSession`: the agent loops, the history, Stop, the child watcher and the
   interface's runs - done, safety proved.
5. `McpTasks`, `McpLink`, composed into `ChildAgent`, refined to `Delegation`; the
   same tasks and links in `TaskServer` - done, safety and refinement of the former
   proved, and what holds of the latter.
6. `HostSession` - done, safety proved for one command at a time.
7. `Workspaces`, `NotesFile`, `Conversations`, composed into `OperatorStore` - done,
   proved. `ConversationMemory` - done, proved for one conversation that only grows.
8. `PlanContext` and `LocalRuntime`, composed into `SharedRuntime`, which implements
   both - done, proved.
9. `ChildProcesses`, beside the servers of the configuration in `McpServers` - done,
   one invariant proved.
10. `WorkspaceMeta` and `Knowledge`, composed into `ActiveWorkspace` - done, proved.

Left: two `pta start` at the same moment (they lock nothing); a server over HTTP,
which answers requests side by side; the command line's own loop; the container
runtime.

## 3. The modules

### PolicyRules, AuditChain, PolicyGate, OneUseApproval

`PolicyGate` is composed of two libraries of operators and adds the state.

* `PolicyRules` is `SessionPolicy.evaluate` up to the approval check: a pure
  function of the session and of a call. A call is a record whose fields are what
  the regular expressions and parsers find in its arguments: the class of the first
  high-risk pattern, whether it is opaque, the words of its command with the target
  each names, and the directories its inputs and outputs resolve to. What the code
  computes from them (the class of risk, the targets of a command, whether a path is
  under a root or in the store) is computed. `Refusals` lists the early returns in
  their order.
* `AuditChain` is `AuditLog` on the lines of its file. A hash is the position of
  its line. An append that raises leaves nothing, a line, a line without its
  newline or a part of one (`Leftovers`). A line without its newline parses only
  while it is the last one: the next record is glued to it.
* `PolicyGate` has a step for each of the four ways through
  `execute_tool` up to the first await (`ExecuteRefused`, `ExecuteFreely`,
  `ExecuteApproved`, `ExecuteUnapproved`), for the end of a body (with the record
  of its outcome, which can fail and is then tried again by the except clause, or
  cancelled without any), for `/approvals approve` and `deny`, for a crash and for
  a restart on the same file. evaluate, audit and the start of the body are one
  step because nothing in them awaits; bodies of several callers overlap.
* `OneUseApproval` is what the documentation promises of approvals
  (`docs/nixos-workstation.md`: "a one-use approval bound to the exact tool, risk,
  targets, and argument digest"), in twenty lines. `PolicyGate` implements it: a
  live grant is one in `_approved`, a spent one admitted a body.

`requests`, `approved`, `file`, `head` are `_requests`, `_approved`, the audit file
and `_previous_hash`. `ticket`, `given`, `grants`, `grantOf`, `executed`, `faults`
and `epoch` are history: no guard of the code's own reads them.

Abstractions: a call stands for its fingerprint and its request id (no
collisions); `_events`, an in-memory copy, is left out; the threads of the store's
lock do not exist in the program, which calls it from one loop.

### CrewPool

A worker's asyncio task is `new`, `waits` for a dependency, `thinks` (an await that
lets a CancelledError through), `executes` a single command (which does not:
`runtime.py:683` swallows it and returns a result), or is `done`. The orchestrator
thinks, waits, cancels one worker, synthesises, closes (the finally clause's
`cancel_all`) or is done. Stop cancels the orchestrator's task and starts another
one that cancels the crew.

Cancellation is asyncio's own: `Task.cancel` on a task that awaits a task is passed
on to that task (`Holder`), and `cancel_all` reaches every task. An error that is
due is a flag (`must`) the task finds at its next step.

Abstractions: an LLM response with several calls is several responses with one
call each; `wait_for` awaits its ids in ascending order; the agent's
constructor, which runs before the try, does not raise; a worker that names itself
is let by after one step (the RuntimeError is swallowed); a worker cancelled before
its first step keeps the status pending, as in the code. `reset` is never called.
Dependency lists are acyclic: with a cycle the code waits for ever, and only the
LLM's choice avoids one. A list may name an agent that is spawned later; the code
does not wait for it, and `DependenciesFirst` is about those spawned before.

### BrokerUsage

`usage` is `_usage`, `disk` the state file (a missing file loads as one that has
counted nothing), `now` the wall clock. `_reserve` is one step because it holds the
lock and awaits nothing; its outcomes are `RateLimited` (429), `BudgetSpent` (402),
`Admit`, `SaveFails` (503, before or after the file was replaced) and
`CrashInSave`. `Start` loads, or refuses to. The clock ticks and may be set back.
Static checks of a request change nothing and are left out; money and time are
small integers. The times that are kept of a list are picked by their positions, with
`Subsequence`, the library of one idea that `ChildAgent` uses too: `SelectSeq` is
recursive, and nothing can be proved of it.

### AgentSession

The agent, the watcher of its children and the screen are tasks of one loop; an
action is what one of them does between two awaits. A run (1, 2, ...) is one task
the screen starts (`_run_assist`, `_run_interact`, `_run_agent_mode` or, `woken`,
`_run_wake_up_mode`) together with the generator of the agent it consumes. `pc` is
the await it is at:

| `pc` | the run | a CancelledError there |
|---|---|---|
| `new` | is created, its first step is to come | ends it before its try |
| `plan`, `llm`, `replan`, `summary` | waits for the model | ends it |
| `tool` | executes tools | ends it |
| `executes` | executes a single command | is swallowed (`runtime.py:683`); the run goes on |
| `lingers` | sleeps for a second after an agent task | ends it |

`history` is `conversation_history`, with a message as its kind and the run that
appended it (0 is the watcher); `state` is the state machine, whose refused
transitions change nothing (`Moved`); `isRunning`, `shouldStop`, `current` are the
screen's flags and its last task; `widgets` its user messages. `owed` and `stopped`
are history, read by properties only.

A run's steps are `Begin`, the model's answers in each of the three loops, the end
of the tools in each of them, planning, replanning and the summary, a failed
request, a cancellation, and the end of the second's sleep. Messages an agent yields are
taken by the screen at once: `GoesOnShowing` is whether it asks for another one.
The screen has `Submit`, `WakeUp`, `Stop` and `Rewind`; the watcher has `Notify`.
`Stop` is all of `action_stop_agent`: it sets the flag, cancels the task and cleans
the history up before the CancelledError arrives.

Abstractions: of the plan only whether it has steps; which step failed and whether
the plan is complete is any possibility. A batch of tools is one stay at `tool`. A
wake-up runs in any mode (the operator may have changed it). The first steps of
tasks come in the order of their creation, and the operator does not submit twice
within one turn of the loop; a wake-up may be there first. The interactive loop,
which has no bound in the code, ends by `MaxIterations`. `Rewind` stands for the
confirmed dialog. Left out: `/clear`, fork, restoring a conversation, the runs of
`/spawn` and of reports, and the crew's run, which is `CrewPool`.

### Delegation, McpTasks, McpLink, ChildAgent

A child agent is this program as an MCP server, on a pair of FIFOs its parent made.

* `McpTasks` is the server's table of tasks and what each does: `run_task_async` with
  its early returns, `cancel_task`, the loop of `BaseAgent.run_mcp`, and the driver
  that consumes it, which looks for a cancellation whenever the loop yields, and
  queues the outcome. `place` is the await of a task.
* `McpLink` is `MCPManager.call_tool` with its lock and timeout, over either
  transport. `StdioTransport` takes the next line for its answer; `FifoTransport`
  (`Fifo`) has a reader that finds a call's future by the id. A call can time out or
  be cancelled at any moment (`GivesUp`), its answer can be on its way then, and the
  reader can meet the end of the pipe.
* `ChildAgent` composes them: the server's loop (`Reads`, `Serve`), its forwarder of
  notifications, the parent's watcher, and the death of the child at any moment.
* `Delegation` is what a parent is promised: a task that was accepted comes to one
  outcome, reported once, in order. `ChildAgent` implements it (`KeepsPromise`): the
  settled tasks are the reports, followed by what is in the parent's queue, in the
  pipe and in the child's queue.

### TaskServer

The same tasks and links, with the server on standard input. There, one request is
handled after another and two tools block (`run_task`, `await_tasks`), so the answer
of a call that has been given up is the ordinary case. All tools that change state are
here: the settings of the primary agent that later tasks inherit, the flags of tools,
`reset_conversation` (of a task or of the primary agent) and the key-value memory. No
property is about the settings: a task is given them once, by the request that makes it.

### ChildProcesses, McpServers

`ChildProcesses` has spawn and despawn of children, several at a time, each stopping at
every await, with failures and cancellations: what is launched, and what `servers`,
`_child_processes` and the watchers then say. `McpServers` puts beside it the servers
of the configuration: the file (read and written whole by several programs), the entry
objects and transports behind them, and the tasks that load, add, enable, disable and
reconnect. An object can outlive its entry, so the two are told apart.

### HostSession

`pta start`, `stop` and `export` with the root helpers they run: a command is a
process at a step of its own (`command[p].at`), and can be killed between two of them
and inside those that are not atomic. `files` is `/run/pentestagent`, the other
variables are nftables, the microVM and its overlay, the laboratory with its tap and
directories, the volume, results and exports. Failures of a start run the undo, whose
steps can fail too; a reboot empties what is in `/run` and in the kernel.
The launchers that run in the guests are not there: a guest writes results and ends.

### Workspaces, NotesFile, Conversations, OperatorStore

`Workspaces` is the marker of the active workspace, which every access reads anew.
`NotesFile` and `Conversations` are libraries of operators on one file each, and on the
index and the reloaded session; a write empties its file first, so that a kill or a
failure leaves it empty or cut. `OperatorStore` lets programs of two kinds use them:
with an interface (conversations and notes) and without (notes only, the command line
and the MCP server). Saving a conversation is a sequence of steps (write, prune, index)
between which other programs act. Of a conversation only its identity counts:
`owner` is the conversation an id was made for; `recorded` the notes the program has
acknowledged; `damaged` the files a failure has spoilt. All three are history.

### ConversationMemory

`get_messages_with_summary` and the call of the model around it, for several
conversations on one client, as crew workers have. The summary is kept after an await
(`Summarized`), and a call that fails asks again (`Retries`) with what is kept then.
A message is one token; its identity is that of its conversation and place.

### PlanContext, LocalRuntime, SharedRuntime

`PlanContext` is the autonomous loop as far as its plan goes, and the ContextVar by
which the tool `finish` finds it: a task has a context (`context`), copied when it
starts another. Workers of a crew are built in the task that runs them; the
interface's agent is built in one task and run in others. `LocalRuntime` is
`execute_command` step by step (timeouts, cancellations and processes that a shell
leaves behind), the browser and the page that all agents share, and `stop`.
`SharedRuntime` composes them: the calls of a response run side by side, and the loop
goes on when all have returned. It implements both of its parts, which is proved.

### WorkspaceMeta, Knowledge, ActiveWorkspace

`WorkspaceMeta` is `meta.yaml` (scope, last target), read and written whole without a
lock, by the commands of an interface and of the command line, and what the agent of
an interface has been told of its target. `Knowledge` is the RAG engine of each program
and the stored index of each workspace; indexing reads, embeds and saves in steps.
`ActiveWorkspace` composes them: both are in a workspace's directory and go with it
into an archive, or away with it. `granted` and `been` (what the operator gave, what
was ever among the sources) are history.

## 4. The runs

| run | size | states | question |
|---|---|---|---|
| `policy_gate` | 2 callers (symmetric), 4 calls, 3 tickets, 2 grants, 2 failed appends, 1 crash | 1.0 million | are approvals one-use, bodies recorded and in policy, logs complete or rejected |
| `crew` | 3 agents, 4 rounds, 1 command each, lists of up to two | 157 000 | what holds in every interleaving with cancel and Stop, and does everything end |
| `agent_session` | 2 runs in any mode, 2 rounds, 1 message of a child | 1.05 million | are calls and results paired, does Stop get through, does input come back |
| `child_agent` | 2 callers, 3 calls, 2 tasks of 2 rounds | 195 000 | does a call get its own answer, is every outcome reported once and as the last word on its task, does a cancellation hold |
| `broker_usage` | 2 providers, 2 failures, 1 set-back, days of 3 ticks, window of 1 | 740 000 | budget, rate and restart |
| `host_session` | 1 operator, 3 sessions, 2 results | 2.4 million | does what runs belong to the session on file, through kills and a reboot; are results exported as confirmed, and kept until then |
| `operator_store` | 1 place for programs, 1 workspace and none, 2 notes (symmetric), 2 conversation ids, 1 kept | 1.0 million | is what was saved there, and what is listed saved |
| `stdio_late_answer` | 2 callers, 2 calls, 1 task | | does a call over standard input get its own answer |
| `foreign_summary` | 2 conversations, 4 messages, 1 retry | | is a summary that of the messages it replaces |
| `child_spawns` | 3 spawns, 1 despawn, 2 configured servers, 2 tasks, 3 transports | | do children have names of their own |
| `finish_without_plan` | the interface's agent and a worker, 2 steps, 2 rounds, 1 command | | does a run end with its plan |
| `stale_target_message` | 1 interface, 1 workspace and none, 1 name, 2 networks | | is the agent told its target |

The last five are expected to fail: section 7.

The bounds are the smallest at which each hazard happens. In `policy_gate`, two
tickets suffice for a grant used twice, the third for a record behind a partial line;
one crash separates grants of two processes. Two failed appends give the retry in the
except clause that fails too. With three agents one waits for two others, one of which
waits itself, so cancellations are passed along a chain; a list may name the agent that
is spawned next, or its own agent. Two runs of an agent are one that was stopped or
forgotten by a rewind and is still under way, and its successor; two rounds put a
history behind the first one, so that a message of a child falls between calls and
results, before them and at the end. The broker needs two providers because a save
writes all accounts, two days and a window that ends inside a day.

In `child_agent` two callers queue at the lock while the answer of a call given up by
the first is on its way; the third call is one after that; two tasks put outcomes in
another order than submissions. In `host_session` three sessions are one that was left
by a kill, one whose start found it, and one that reuses its names; two writes let
results change between listing and copying, or between the copy and the removal. In `operator_store` programs follow each
other, or one is killed in the middle of a save and the next one finds its files; with
one kept conversation and two ids each save prunes. `FewNotes`, a constraint of that
run, allows two notes before the first conversation, one beside one and none beside two:
notes and conversations share the active workspace only.

Deadlock is checked in `host_session`, where a command always has a next step or an
end, and nowhere else: the other runs end where their bounds are used up, a crew run
when it is over.

Calls of `MCPolicyGate`: a scan in scope, an opaque local shell command, a browser
script (both need approval), and a scan whose command names another host than its
declaration.

## 5. Fairness

* `CrewPool`: each worker, the orchestrator and the canceller take steps weakly fairly:
  the event loop runs what is ready, a command has a timeout, and requests to the
  model do too. No fairness is assumed of Stop, which nobody has to press, nor of any
  particular answer of the LLM: the number of rounds is bounded by the code
  (`ORCHESTRATOR_MAX_ITERATIONS`), and so is an agent's.
* `ChildAgent`: whatever task of the two event loops can go on does (`Hears`, `Fails`,
  `Reads`, `Watch` of the parent; `Serve`, `Started`, `Forward` and each task of the
  child). The parent need not call, nor give a call up; the child need not die.
  `CallsReturn` therefore holds without the help of the timeout, and also when the
  child dies: the reader fails what is pending at the end of the pipe.

Weak fairness is enough because a step that is enabled stays so until it is taken, or
until the child is lost: of each such task there is one, and what others append to its
queue does not disable it.

## 6. What is proved

For every value of the constants that satisfies the named assumptions.

* **PolicyGate** (`PolicyGateProofs`, assumption `PolicyGateAssumption`). The
  inductive invariant `GateInv` adds to the types that the store's tables agree
  (`StoreAgrees`: needed to know that consuming removes the only copy), that a
  grant in the store is the last one of its action, of this process, and not
  spent, that spent grants are distinct, that every body has its whole line in the
  file, and how the file can look: lines up to the head form a chain, whatever is
  behind the head claims to chain to the head, and once something follows a
  leftover the file does not verify. From it: all seven invariants, the action
  property `DenialStands`, and the refinement `ImplementsOneUse` (Grant, Lose or
  Run for the steps that change grants, stuttering for all others).
* **CrewPool** (`CrewPoolProofs`, `CrewPoolAssumption`). `CrewInv` adds `Known`
  (exactly the workers up to `spawned` exist), `Waited` (a worker that waits at
  index i has seen every earlier dependency end), `WaitsForAll` (an orchestrator
  that waits in order to finish still has every unfinished worker on its list) and
  `StopOrder` (where the canceller can be). From it the five safety properties.
* **BrokerUsage** (`BrokerUsageProofs`, `BrokerUsageAssumption`). `BudgetInv` says
  that what was charged on a day is covered by the account in memory and by the
  one on disk if that is their day, plus a full budget for each time the clock was
  set back; and that without a set-back no account is of a later day than today.
  From it `DailyBudget` and `ChargesAreDurable`. `RateInv` says that the times of an
  account, in memory and on disk, have a place for each request admitted in the window
  that ends now (`Covers`: an injection, since two requests can have one time), that the
  history is in the order of the clock between two set-backs, and that without one no
  time is of the future. From it `RateBound`, `OwnStateLoads` and `TypeOK`: a save that
  fails or a crash in one can keep a request too many, never lose one.
* **AgentSession** (`AgentSessionProofs`, `AgentSessionAssumption`). `SessionInv`
  adds to the types, `Paired` and `InputComesBack` that no message or task belongs
  to a run that does not exist (`Fit`, `Known`: a new run is a stranger to the
  history), and that a run Stop has cancelled finds `_should_stop` set and either
  its CancelledError due or itself past its loop (`Heard`). The lemmas say what
  appending a message, appending calls with their results, cutting at a user's
  message and cleaning up preserve. From it `TypeOK`, `Paired`, `InputComesBack` and
  the action property `StopIsHeard`, for any number of runs, rounds and messages.
* **ChildAgent** (`McpProofs`; `McpTasksAssumption`, `McpLinkAssumption`, and
  `ChildAgentAssumption`: the pipe is a FIFO). `ChildInv` adds to the types what a
  task's status can be at each of its awaits (`StatusOfPlace`: a task that was
  cancelled says so to its end) and that a future has the answer of its own id
  (`FuturesMatch`, which a transport that takes the next line does not keep). From it
  `TypeOK`, `AnswersMatch` and the action property `CancelIsHeard`.
* **ChildAgent implements Delegation** (`PromiseKept`). The abstract reports are
  picked out of a pipe in which answers and notices are mixed, so the proof needs what
  appending to the pipe and reading from it do to what is picked: the positions of the
  notices are always numbered in order (`Numbered`, `Notified`). `ReportedAreFinal` says
  that a notice is of a task that is over, notes and all, and says its status. With them
  each step is an acceptance, the end of a task, a report, the loss of the child or a
  stutter of `Delegation`. `ReportedAreFinal` is itself a property of the run: the parent
  that is told of a task and fetches its result has the whole of it
  (`WhatIsReportedStands`).
* **HostSession** (`HostSessionProofs`, `HostSessionAssumption`). `HostInv` adds to the
  types and the three invariants of the run that the command at work is about the session on file,
  what each of its steps has written and undone, that a machine has the overlay of its
  session, and that what an export has listed and copied is what was confirmed while the
  laboratory is off, and is in the export whole when the results are removed. From it
  the invariants, and of the steps that write results the action property
  `ResultsAreKept`. They are proved under `OneOperator`, that no two commands run at the
  same time, and for any number of sessions, results, failures and kills. The hypothesis
  is needed: `pta` takes no lock, and two starts that each find no session both
  write one (`host_cli.py:293`). The types hold without it.
* **PlanContext** (`SharedRuntimeProofs`, `PlanAssumption`). The inductive invariant adds
  to the types `Homes` (an agent that works has a task of its own, whose context names
  that agent, or none if the interface built it) and `Marks` (for workers: what the
  model finished is finished in the plan, and a loop that goes on has a step left).
  From it `PlansAreIsolated`, for all agents, and `FinishedPlansOfWorkersEnd`. The
  same of the interface's agent does not hold: `finish_without_plan`.
* **SharedRuntime** (`SharedRuntimeProofs`). The composition implements `PlanContext`
  and `LocalRuntime` by the way it is composed (the lemmas `SharedPlans`, `SharedCommands`:
  every step is one of the part, or leaves it alone), so what is proved of either holds
  of it; `Ended`, that a call on its
  way out has no shell, gives `ReturnedCommandsEnded`.
* **OperatorStore** (`WorkspacesProofs`, `ConversationsAssumption`, `NotesFileAssumption`),
  for any number of programs at once, while the run has one place for them. `NotesInv`:
  while interfaces take turns there is one program, what is recorded in the active
  workspace is in its memory but for the change it is writing, and what is recorded
  elsewhere is in the file. `StoreInv`: ids are given in order, so that the next one has
  no owner (`IdsInOrder`, which holds because an id that was given is never taken back);
  what is listed, or will be, has an owner and is there once; what a program shows and
  what it saves is of its id; and at each step of a save how the entries it will
  write, the index and the files differ (`SaveAgrees`), provided that it is the only save
  in its scope: when another one begins, the whole scope counts as damaged. From them
  `TypeOK`, `NotesPersistInTurn`, `SavedUnderItsOwnId` and `ListedAreSaved`. The lemmas
  say what putting an entry in front of an index and cutting it off preserve.
* **ActiveWorkspace** (`WorkspacesProofs`, no assumption). `MInv`: every version of
  a `meta.yaml`, that of the file, the archive, and the one a command is about to
  write, has only targets that were given to its workspace; an update can be lost, but
  none is invented. `KInv`: the same of an engine, an index and a source. From them
  `OnlyGrantedInScope` and `KnowledgeOfItsScope`.
* **McpServers** (`McpProofs`, `McpAssumption`). `McpInv` adds to the types that
  a transport being opened has one task, that an entry has an object of its own server,
  that a connected object has its transport, and that what is being closed is still
  its object's. From it `CallsReachTheirServer`, whatever tasks connect and close at once.
* **TaskServer** (`McpProofs`, `McpTasksAssumption`, `McpLinkAssumption`), beside the
  violation `stdio_late_answer`. `StdioInv` says that one thing is under way at most,
  a line, the request the server is at, or an answer, and that it is of the call that holds
  the lock. From it `SerialCallsMatch`: as long as no call is given up while the server
  is there, each call gets its own answer, also when the server ends.
* **ConversationMemory** (`CrewPoolProofs`, of whose agents it is the memory), beside
  the violation `foreign_summary`. `MemoryInv` says that a history is all that was said,
  that a call has it, and that the summary is of the first messages, as many as its number
  says. From it `OneGrowingHistory`: `OlderAreSummarized` with one conversation
  (`OneConversation`) that is neither rewound nor cleared (`GrowingSpec`). Each of these is needed:
  with two conversations, or after a rewind of the only one, TLC finds a violation.

With these, every invariant and action property that a passing run checks is a theorem.
The types of `HostSession` and `OperatorStore` are proved, and no run checks them.
Only model-checked: the liveness properties (`AgentsEnd`, `CrewEnds`, `StopEnds`,
`EveryTaskIsReported`, `CallsReturn`), whose fairness is beyond the prover, and the five
violations.

## 7. Where the program differs from its texts

Each run is the shortest behaviour TLC finds of a property that states the text.

* `stdio_late_answer`: a `StdioTransport` never compares ids: after a call that timed
  out, each call gets the answer of the one before (`transport.py:135`).
* `foreign_summary`: the one summary of a client is taken for any conversation with
  enough messages (`memory.py:151`); nothing calls `clear_memory`.
* `child_spawns`: a child's name is chosen before the awaits that create it and taken
  after them (`mcp_agent.py:150`): two spawns of one response are both
  `child_agent_1`, and the first process can never be despawned.
* `finish_without_plan`: the interface builds its agent in one task and runs it in
  others, whose context has no plan: `finish` finds none, and a run whose steps are all
  finished goes on to the limit of iterations (`policy.py:735`).
* `stale_target_message`: activating a workspace changes the target of the agent, whose
  history still says the old one (`tui.py:4168`).

Other properties are stated in the modules, beside the text they are from, and do not
hold, without a run of their own:

| property | what happens |
|---|---|
| `CrewPool!CancelledCrewStartsNothing` | cancelling the crew starts an agent that was waiting for a dependency (`worker_pool.py:262` swallows the CancelledError); it makes a model request before it can be stopped |
| `CrewPool!CancelReportIsTrue` | `cancel_agent` says "Cancelled" of an agent that swallowed it and completed |
| `CrewPool!NamedAgentsFirst` | a dependency that is spawned later is not waited for |
| `AgentSession!WakesWhenFinished` | after the Stop of a run at work the agent is not idle (IDLE is not reachable from THINKING or EXECUTING, `state.py:41`), and a child that ends then wakes nobody |
| `AgentSession!RewindsToItsMessage` | the n-th user message of the screen is not the n-th of the history after a Stop, an agent task or a message of a child |
| `TaskServer!AwaitedHaveFinished`, `ActiveAreAll` | a cancelled task counts as finished and runs on until its loop yields |
| `TaskServer!KeepsItsTools`, `KeepsItsPrompt` | `disable_tool` and `reset_conversation` reach into a task that runs: its tools, or its prompt, are gone. |
| `McpServers!OpenAreKnown`, `AddedAreConfigured` | two tasks that connect one server leave the transport of the first open and unknown to the manager; a kill inside a write leaves an empty file, and every server that was added is gone |
| `LocalRuntime!ActsOnItsPage` | agents share one page: one acts on the page another went to |
| `Knowledge!SearchesItsWorkspace` | an engine is built once and keeps the workspace it was built for |
| `OperatorStore!NotesPersist` | a program without an interface does not read the notes before it writes its own; two programs, or one whose workspace is switched, overwrite each other's |
| `HostSession!StopRemovesSample` | a start killed between the making of the laboratory's directory and the link to it leaves a directory that no stop removes: a stop removes what the link names |

What the models show besides, with no text that says otherwise:

* An interactive run appends its calls before the tools and its results after them, so a
  Stop, a rewind or a message of a child leaves calls without results (`Paired` is about
  the other modes for that reason); a Stop while a message of a child is last in the
  history removes that message instead of the request; and a rewind frees the input
  while the run it cancelled is still inside a command that swallows the cancellation.
* A volume whose start was killed between the image and its file system is accepted as
  it is by every later start; a laboratory's scratch survives a reboot; an undo that
  fails to stop a guest leaves it on without a session. `SessionOwnsAll` excepts those guests
  (`abandoned`).
* Switching to a workspace without a target leaves the old one. A failed connection in
  spawn leaves a process without a name; after a Stop, `reconnect_all` drops children
  whose processes and watchers stay. An unreadable `mcp_servers.json` counts as empty, and the
  next add overwrites it. A stored index is never refreshed.
* `LocalRuntime.stop` iterates over a set that calls which end meanwhile change, and a
  command whose shell has exited before its timeout leaves what it put in the background.

## 8. Not modelled

* The WASM sandbox (a wrapper around a library's limits), web search, token tracker,
  configuration and playbooks, guest setup and Nix files: sequential, text or I/O.
* The bodies of tools: one function each; what they may do is the gate's.
* The container runtime, whose commands are one `docker exec` each, and `proxy_action`.
* HTTP and websocket transports, the HTTP server, and the log for `get_logs`.
* The command line's own loop (`interface/cli.py`): one run from its start to its end,
  with the agents, the crew and the runtime modelled elsewhere. The layout of reports.
* The streamed form of a model request, the graph of notes, similarity and chunking,
  prompts and rendering, the launchers in the guests.
* Power loss after a failed fsync of a directory; request ids that collide.
