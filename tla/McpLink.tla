-------------------------------- MODULE McpLink -------------------------------
(* A parent's link to one MCP server: MCPManager.call_tool (mcp/manager.py)    *)
(* and the two transports that are pipes (mcp/transport.py).  StdioTransport   *)
(* takes the next line for its answer; FifoTransport has a reader that finds   *)
(* the call an answer belongs to by its id, and queues notifications.          *)
EXTENDS Integers, Sequences, FiniteSets

CONSTANTS
    Callers,    \* tasks of the parent that call tools
    MaxCalls,   \* bound: calls that are made
    Fifo        \* the transport is a FifoTransport, or else a StdioTransport

ASSUME McpLinkAssumption == MaxCalls \in Nat /\ Fifo \in BOOLEAN /\ 0 \notin Callers

Ids == 1..MaxCalls

VARIABLES
    lastId,     \* MCPManager._message_id
    lock,       \* the caller that holds MCPServer._lock; 0 if none does
    waiting,    \* the id of the call each caller awaits; 0 if none
    pending,    \* FifoTransport._pending
    resolved,   \* futures that have a result, as records [id, answer]
    got,        \* the last call that returned, as a record [id, answer]
    toServer,   \* lines on their way to the server, as records [id, request]
    toParent,   \* lines on their way back: [id] of an answer or a notification
    inbox,      \* FifoTransport.notification_queue
    reading,    \* _background_reader is running
    open        \* the process of the server is

callVars == <<lastId, lock, waiting, got>>
futureVars == <<pending, resolved>>
linkVars == <<callVars, futureVars, toServer, toParent, inbox, reading, open>>

AnswerTo(id) == [id |-> id]
Notification(n) == [id |-> 0, notice |-> n]

LinkInit ==
    /\ lastId = 0
    /\ lock = 0
    /\ waiting = [c \in Callers |-> 0]
    /\ pending = {}
    /\ resolved = {}
    /\ got = [id |-> 0, answer |-> 0]
    /\ toServer = <<>>
    /\ toParent = <<>>
    /\ inbox = <<>>
    /\ reading = Fifo
    /\ open = TRUE

-------------------------------------------------------------------------------
(* send, under the lock of the server: a write to a pipe without a reader      *)
(* raises.                                                                     *)
Call(c, request) ==
    /\ lock = 0 /\ waiting[c] = 0
    /\ lastId < MaxCalls
    /\ lastId' = lastId + 1
    /\ IF open
         THEN /\ lock' = c
              /\ waiting' = [waiting EXCEPT ![c] = lastId']
              /\ pending' = IF Fifo THEN pending \cup {lastId'} ELSE pending
              /\ toServer' = Append(toServer, [id |-> lastId', request |-> request])
         ELSE UNCHANGED <<lock, waiting, pending, toServer>>
    /\ UNCHANGED <<resolved, got, toParent, inbox, reading, open>>

(* The call returns or raises: its future is forgotten, the lock is free.      *)
Leaves(c) ==
    /\ lock' = 0
    /\ waiting' = [waiting EXCEPT ![c] = 0]
    /\ pending' = pending \ {waiting[c]}
    /\ resolved' = {f \in resolved : f.id # waiting[c]}

(* FifoTransport: the future has a result.                                     *)
FutureReturns(c) ==
    /\ \E f \in resolved :
         /\ f.id = waiting[c]
         /\ got' = f
    /\ Leaves(c)
    /\ UNCHANGED <<lastId, toServer, toParent, inbox, reading, open>>

(* StdioTransport: the next line, whichever it is.                             *)
LineReturns(c) ==
    /\ ~Fifo /\ waiting[c] # 0 /\ toParent # <<>>
    /\ got' = [id |-> waiting[c], answer |-> Head(toParent).id]
    /\ toParent' = Tail(toParent)
    /\ Leaves(c)
    /\ UNCHANGED <<lastId, toServer, inbox, reading, open>>

(* The timeout has passed, or the caller is cancelled.                         *)
GivesUp(c) ==
    /\ waiting[c] # 0
    /\ Leaves(c)
    /\ UNCHANGED <<lastId, got, toServer, toParent, inbox, reading, open>>

(* The reader has cancelled the future, or the pipe has ended.                 *)
FailsAtEnd(c) ==
    /\ waiting[c] # 0 /\ ~open
    /\ IF Fifo THEN waiting[c] \notin pending /\ \A f \in resolved : f.id # waiting[c]
               ELSE toParent = <<>>
    /\ Leaves(c)
    /\ UNCHANGED <<lastId, got, toServer, toParent, inbox, reading, open>>

(* Mutant: the answer goes to the call that is waiting.                        *)
FuturesForAny(id) == {[id |-> p, answer |-> id] : p \in pending}

(* The future an answer with this id resolves, if it is still awaited.         *)
FuturesFor(id) == {[id |-> p, answer |-> id] : p \in pending \cap {id}}

(* _background_reader: one line.                                               *)
ReadLine ==
    /\ reading /\ toParent # <<>>
    /\ toParent' = Tail(toParent)
    /\ IF Head(toParent).id = 0
         THEN /\ inbox' = Append(inbox, Head(toParent).notice)
              /\ UNCHANGED resolved
         ELSE /\ resolved' = resolved \cup FuturesFor(Head(toParent).id)
              /\ UNCHANGED inbox
    /\ UNCHANGED <<callVars, pending, toServer, reading, open>>

(* Mutant: the end of the reader leaves futures as they are.                   *)
ReaderStops ==
    /\ reading /\ ~open /\ toParent = <<>>
    /\ reading' = FALSE
    /\ UNCHANGED <<callVars, pending, resolved, toServer, toParent, inbox, open>>

(* Its end: futures that have no result are cancelled.                         *)
ReaderEnds ==
    /\ reading /\ ~open /\ toParent = <<>>
    /\ reading' = FALSE
    /\ pending' = {}
    /\ UNCHANGED <<callVars, resolved, toServer, toParent, inbox, open>>

(* The server's side of the pipes.                                             *)
Takes == open /\ toServer # <<>> /\ toServer' = Tail(toServer)
Replies(id) == toParent' = Append(toParent, AnswerTo(id))

(* The process of the server ends; what it has written can still be read.      *)
ServerEnds ==
    /\ open
    /\ open' = FALSE
    /\ toServer' = <<>>
    /\ UNCHANGED <<callVars, futureVars, toParent, inbox, reading>>
===============================================================================
