------------------------------ MODULE ChildAgent ------------------------------
(* A child agent and its parent: the server's loop over a pair of FIFOs        *)
(* (mcp/server/mcp_transport_stdio.py), which reads a request, has the router  *)
(* handle it and writes the answer; the task that forwards notifications; and  *)
(* the parent's watcher of them (tools/mcp_agent.py).  Tasks are McpTasks, the *)
(* pipes and the parent's calls are McpLink.                                   *)
EXTENDS McpTasks, McpLink, Subsequence

ASSUME ChildAgentAssumption == Fifo

VARIABLES
    serving,    \* the request the server is at, as [id, task]; id 0 if none
    reports     \* the messages the watcher has put into the parent's history

vars == <<taskVars, linkVars, serving, reports>>

(* Tools of a child the parent may call; run_task and await_tasks are not      *)
(* among them (_BLOCKED_SUFFIXES).                                             *)
Requests ==
    [kind : {"run_task_async"}, task : {0}]
        \cup [kind : {"cancel_task", "get_task_result"}, task : Tasks]

NotServing == [id |-> 0, task |-> 0]

Init ==
    /\ TasksInit
    /\ LinkInit
    /\ serving = NotServing
    /\ reports = <<>>

-------------------------------------------------------------------------------
(* The parent.  It knows the tasks it was told of.                             *)
Asks(c) ==
    /\ \E request \in Requests :
         /\ request.kind # "run_task_async" => status[request.task] # "none"
         /\ Call(c, request)
    /\ UNCHANGED <<taskVars, serving, reports>>

Hears(c) == FutureReturns(c) /\ UNCHANGED <<taskVars, serving, reports>>
Abandons(c) == GivesUp(c) /\ UNCHANGED <<taskVars, serving, reports>>
Fails(c) == FailsAtEnd(c) /\ UNCHANGED <<taskVars, serving, reports>>
Reads == (ReadLine \/ ReaderEnds) /\ UNCHANGED <<taskVars, serving, reports>>

(* _watch_child_notifications, which ends with the parent, not with the child. *)
Watch ==
    /\ inbox # <<>>
    /\ reports' = Append(reports, Head(inbox))
    /\ inbox' = Tail(inbox)
    /\ UNCHANGED <<callVars, futureVars, toServer, toParent, reading, open, taskVars, serving>>

-------------------------------------------------------------------------------
(* The child.                                                                  *)

(* list_tasks, get_task_status and get_task_result only look at tasks.         *)
GetTaskResult(id) ==
    /\ Replies(id)
    /\ UNCHANGED <<taskVars, serving>>

(* _serve_requests and the router, until the handler awaits or the answer is   *)
(* on its way.  A task that was just created runs its first step before the    *)
(* next request is read.  A task beyond MaxTasks is not made.                  *)
Serve ==
    /\ serving = NotServing /\ Takes
    /\ \A t \in Tasks : place[t] # "new"
    /\ LET line == Head(toServer)
           t == line.request.task
       IN  \/ /\ line.request.kind = "run_task_async"
              /\ \E new \in Tasks :
                   /\ RunTaskAsync(new)
                   /\ serving' = [id |-> line.id, task |-> new]
              /\ UNCHANGED toParent
           \/ /\ line.request.kind = "run_task_async"
              /\ \A old \in Tasks : place[old] # "none"
              /\ Replies(line.id)
              /\ UNCHANGED <<taskVars, serving>>
           \/ /\ line.request.kind = "cancel_task"
              /\ CancelTask(t)
              /\ Replies(line.id)
              /\ UNCHANGED serving
           \/ /\ line.request.kind = "get_task_result"
              /\ GetTaskResult(line.id)
    /\ UNCHANGED <<callVars, futureVars, inbox, reading, open, reports>>

(* The runtime of the new agent has started, or could not.                     *)
Started ==
    /\ open /\ serving # NotServing
    /\ CreateTask(serving.task) \/ AgentNotMade(serving.task)
    /\ Replies(serving.id)
    /\ serving' = NotServing
    /\ UNCHANGED <<callVars, futureVars, toServer, inbox, reading, open, reports>>

Runs(t) ==
    /\ open /\ Drive(t)
    /\ UNCHANGED <<linkVars, serving, reports>>

(* Mutant: the last notification is forwarded first.                           *)
ForwardLast ==
    /\ open /\ outgoing # <<>>
    /\ toParent' = Append(toParent, Notification(outgoing[Len(outgoing)]))
    /\ outgoing' = SubSeq(outgoing, 1, Len(outgoing) - 1)
    /\ UNCHANGED <<status, place, round, callVars, futureVars, toServer, inbox, reading, open,
                   serving, reports>>

(* _drain_outgoing.                                                            *)
Forward ==
    /\ open /\ outgoing # <<>>
    /\ toParent' = Append(toParent, Notification(Head(outgoing)))
    /\ outgoing' = Tail(outgoing)
    /\ UNCHANGED <<status, place, round, callVars, futureVars, toServer, inbox, reading, open,
                   serving, reports>>

(* The child is despawned, or crashes.                                         *)
Dies == ServerEnds /\ UNCHANGED <<taskVars, serving, reports>>

Next ==
    \/ \E c \in Callers : Asks(c) \/ Hears(c) \/ Abandons(c) \/ Fails(c)
    \/ Reads
    \/ Watch
    \/ Serve
    \/ Started
    \/ \E t \in Tasks : Runs(t)
    \/ Forward
    \/ Dies

(* Each task of either event loop that can go on does.  The parent need not    *)
(* call, give up or lose its child.                                            *)
Fairness ==
    /\ \A c \in Callers : WF_vars(Hears(c)) /\ WF_vars(Fails(c))
    /\ WF_vars(Reads) /\ WF_vars(Watch)
    /\ WF_vars(Serve) /\ WF_vars(Started) /\ WF_vars(Forward)
    /\ \A t \in Tasks : WF_vars(Runs(t))

Spec == Init /\ [][Next]_vars /\ Fairness

-------------------------------------------------------------------------------
(* Properties.                                                                 *)

(* Every variable has its type.                                                *)
TypeOK ==
    /\ status \in [Tasks -> Statuses]
    /\ place \in [Tasks -> Places]
    /\ round \in [Tasks -> 0..MaxIterations]
    /\ outgoing \in Seq(Notice)
    /\ lastId \in 0..MaxCalls
    /\ lock \in Callers \cup {0}
    /\ waiting \in [Callers -> 0..MaxCalls]
    /\ pending \in SUBSET Ids
    /\ resolved \in SUBSET [id : Ids, answer : Ids]
    /\ got \in [id : 0..MaxCalls, answer : 0..MaxCalls]
    /\ toServer \in Seq([id : Ids, request : Requests])
    /\ toParent \in Seq([id : Ids] \cup [id : {0}, notice : Notice])
    /\ inbox \in Seq(Notice)
    /\ reading \in BOOLEAN
    /\ open \in BOOLEAN
    /\ serving \in [id : 0..MaxCalls, task : 0..MaxTasks]
    /\ reports \in Seq(Notice)

(* A call that returns has the answer to its own request, whichever calls were *)
(* given up before it and are answered late.                                   *)
AnswersMatch == got.id = got.answer

(* A task that is done or has failed stays so, and a task that was cancelled   *)
(* makes no further round, only a summary of what there is.                    *)
CancelIsHeard ==
    [][\A t \in Tasks :
          /\ status[t] \in {"done", "error"} => status'[t] = status[t]
          /\ status[t] = "cancelled" => round'[t] = round[t]]_vars

(* What the parent is promised of its tasks: every outcome comes once, is the  *)
(* one that stands, and is reported in order.  Outcomes on their way are those *)
(* in the queues of both sides and in the pipe.                                *)
InPipe ==
    LET notices == Picked(toParent, {i \in DOMAIN toParent : toParent[i].id = 0})
    IN  [k \in DOMAIN notices |-> notices[k].notice]

Settled == reports \o inbox \o InPipe \o outgoing

Promise == INSTANCE Delegation WITH
    Outcomes <- Final,
    open <- {t \in Tasks : status[t] # "none" /\ place[t] # "done"},
    settled <- Settled,
    reported <- Len(reports),
    lost <- ~open

KeepsPromise == Promise!Spec

(* The parent is told to call get_task_result "to retrieve the full result"    *)
(* (tools/mcp_agent.py:65).  Whatever is said of a task, in a queue, the pipe  *)
(* or the history, is its last word: its notes, which are captured after its   *)
(* status is done, are in the result by then, and no cancellation changes it.  *)
LastWord(notice) == place[notice.task] = "done" /\ status[notice.task] = notice.status
ReportedAreFinal == \A i \in DOMAIN Settled : LastWord(Settled[i])

(* Every task is reported to the parent, unless the child is lost: no order of *)
(* calls, answers and notifications keeps an outcome back.                     *)
IsReported(t) == \E i \in DOMAIN reports : reports[i].task = t
EveryTaskIsReported ==
    \A t \in Tasks : status[t] # "none" ~> IsReported(t) \/ ~open

(* transport.py: pending futures are failed "so send() callers don't hang".    *)
(* Without the help of its timeout a call comes back, also when the child dies *)
(* in the middle of it.                                                        *)
CallsReturn == \A c \in Callers : waiting[c] # 0 ~> waiting[c] = 0
===============================================================================
