------------------------------ MODULE PolicyGate ------------------------------
(* runtime/policy.py: the gate every tool call of a session goes through.      *)
(* The primary agent and the crew workers share one SessionPolicy, hence one   *)
(* ApprovalStore and one AuditLog; each of them is a Caller here.              *)
(*                                                                             *)
(* Everything runs on one asyncio loop: evaluate, audit and the start of the   *)
(* tool's body are one step, because nothing in them awaits.  The body itself  *)
(* awaits, and other callers, the operator and a crash come in between.        *)
(*                                                                             *)
(* A call stands for its own fingerprint (tool, risk, targets and argument     *)
(* digest), and the fingerprint for the request id made of its first 12 hex    *)
(* digits: two calls of the model never collide.                               *)
EXTENDS PolicyRules, AuditChain

CONSTANTS
    Callers,        \* tasks that execute tools through the shared policy
    Calls,          \* the tool calls they make
    None,           \* "no call"
    MaxTickets,     \* bound: tool calls admitted to the gate
    MaxGrants,      \* bound: approvals the operator gives
    MaxFaults,      \* bound: audit appends that fail
    MaxCrashes      \* bound: times the process dies

ASSUME PolicyGateAssumption ==
    /\ None \notin Calls
    /\ \A call \in Calls : call.pattern \in ApprovalRequired \cup {NoRisk}
    /\ MaxTickets \in Nat /\ MaxGrants \in Nat
    /\ MaxFaults \in Nat /\ MaxCrashes \in Nat

VARIABLES
    up,             \* "up"; "down" after a crash; "refused" if the log did not load
    requests,       \* ApprovalStore._requests: the status kept for each fingerprint
    approved,       \* ApprovalStore._approved
    file,           \* lines of the audit file
    head,           \* AuditLog._previous_hash
    running,        \* the call whose body a caller is executing, or None
    ticket,         \* history: number of calls evaluated so far
    given,          \* history: number of approvals given so far
    grants,         \* history: those approvals, as records [id, action, epoch]
    grantOf,        \* history: id of the last approval of each fingerprint
    executed,       \* history: bodies started, as records [ticket, call, grant, epoch]
    faults,         \* history: appends that failed
    epoch           \* history: crashes so far

store == <<requests, approved>>
log == <<file, head, faults>>
grantLog == <<given, grants, grantOf>>
vars == <<up, requests, approved, file, head, running, ticket, given, grants, grantOf,
          executed, faults, epoch>>

Statuses == {"none", "pending", "approved", "denied", "consumed"}

(* What a line of the log says.  Only the record that allows a body names its  *)
(* ticket: no property tells the other records of a kind apart.                *)
Allowed(n) == [kind |-> "allowed", ticket |-> n]
Refused == [kind |-> "refused", ticket |-> 0]
Outcome == [kind |-> "outcome", ticket |-> 0]
Operator == [kind |-> "operator-approval", ticket |-> 0]

-------------------------------------------------------------------------------
(* AuditLog.append: it returns, or it raises.                                  *)

AuditOK(event) ==
    /\ file' = Written(file, head, event)
    /\ head' = LoadedHead(file')
    /\ UNCHANGED faults

(* Mutant: the head moves before the write, so a failed append keeps it moved. *)
AuditFailsMovesHead(event) ==
    /\ faults < MaxFaults
    /\ faults' = faults + 1
    /\ file' \in Leftovers(file, head, event)
    /\ head' = Len(file) + 1

AuditFails(event) ==
    /\ faults < MaxFaults
    /\ faults' = faults + 1
    /\ file' \in Leftovers(file, head, event)
    /\ UNCHANGED head

-------------------------------------------------------------------------------
(* ApprovalStore.  All three are called with no await in between.              *)

(* Mutant: an approval is looked up and left in place.                         *)
ConsumeKeeps(call) ==
    /\ requests' = [requests EXCEPT ![call] = "consumed"]
    /\ UNCHANGED approved

(* consume: the approval goes, and its request is marked.                      *)
Consume(call) ==
    /\ approved' = approved \ {call}
    /\ requests' = [requests EXCEPT ![call] = "consumed"]

(* request: a pending request is kept, anything else is replaced by a new one. *)
Request(call) ==
    /\ requests' = [requests EXCEPT ![call] = "pending"]
    /\ UNCHANGED approved

(* approve, when it returns True.                                              *)
ApprovePending(call) ==
    /\ requests[call] = "pending"
    /\ requests' = [requests EXCEPT ![call] = "approved"]
    /\ approved' = approved \cup {call}

(* Mutant: deny does not look at the status of the request.                    *)
DenyAny(call) ==
    /\ requests[call] # "none"
    /\ requests' = [requests EXCEPT ![call] = "denied"]
    /\ UNCHANGED approved

(* deny, when it returns True.                                                 *)
DenyPending(call) ==
    /\ requests[call] = "pending"
    /\ requests' = [requests EXCEPT ![call] = "denied"]
    /\ UNCHANGED approved

-------------------------------------------------------------------------------
Init ==
    /\ up = "up"
    /\ requests = [call \in Calls |-> "none"]
    /\ approved = {}
    /\ file = <<>>
    /\ head = Genesis
    /\ running = [c \in Callers |-> None]
    /\ ticket = 0
    /\ given = 0
    /\ grants = {}
    /\ grantOf = [call \in Calls |-> 0]
    /\ executed = {}
    /\ faults = 0
    /\ epoch = 0

Free(c) == up = "up" /\ running[c] = None

(* A new call of c is evaluated, under the next ticket.                        *)
Evaluates(c) ==
    /\ Free(c)
    /\ ticket < MaxTickets
    /\ ticket' = ticket + 1
    /\ UNCHANGED <<up, grantLog, epoch>>

(* The body of call starts: the decision is recorded before it runs.           *)
Starts(c, call, grant) ==
    /\ running' = [running EXCEPT ![c] = call]
    /\ executed' = executed \cup
         {[ticket |-> ticket', call |-> call, grant |-> grant, epoch |-> epoch]}

(* Mutant: a decision that cannot be recorded does not stop the call.          *)
RecordsAndStartsAnyway(c, call, grant) ==
    \/ AuditOK(Allowed(ticket')) /\ Starts(c, call, grant)
    \/ AuditFails(Allowed(ticket')) /\ Starts(c, call, grant)

(* execute_tool for an allowed decision: recorded, then run; an append that    *)
(* raises leaves execute_tool before the body.                                 *)
RecordsAndStarts(c, call, grant) ==
    \/ AuditOK(Allowed(ticket')) /\ Starts(c, call, grant)
    \/ AuditFails(Allowed(ticket')) /\ UNCHANGED <<running, executed>>

(* execute_tool for a refusal: recorded or not, it raises.                     *)
RecordsRefusal ==
    /\ AuditOK(Refused) \/ AuditFails(Refused)
    /\ UNCHANGED <<running, executed>>

ExecuteRefused(c, call) ==
    /\ Evaluates(c)
    /\ StaticCode(call) # "pass"
    /\ RecordsRefusal
    /\ UNCHANGED store

ExecuteFreely(c, call) ==
    /\ Evaluates(c)
    /\ StaticCode(call) = "pass" /\ ~NeedsApproval(call)
    /\ RecordsAndStarts(c, call, 0)
    /\ UNCHANGED store

(* An approval is waiting: it is consumed before the decision is recorded.     *)
ExecuteApproved(c, call) ==
    /\ Evaluates(c)
    /\ StaticCode(call) = "pass" /\ NeedsApproval(call)
    /\ call \in approved
    /\ Consume(call)
    /\ RecordsAndStarts(c, call, grantOf[call])

(* None is: the call is refused with approval-required, and a request waits.   *)
ExecuteUnapproved(c, call) ==
    /\ Evaluates(c)
    /\ StaticCode(call) = "pass" /\ NeedsApproval(call)
    /\ call \notin approved
    /\ Request(call)
    /\ RecordsRefusal

(* A completed body whose outcome cannot be recorded falls into the except     *)
(* clause, which records a failure instead, if it can.                         *)
AuditFailsThenRetries(first, second) ==
    /\ faults < MaxFaults
    /\ \E left \in Leftovers(file, head, first) :
         \/ /\ faults' = faults + 1
            /\ file' = Written(left, head, second)
            /\ head' = LoadedHead(file')
         \/ /\ faults + 1 < MaxFaults
            /\ faults' = faults + 2
            /\ file' \in Leftovers(left, head, second)
            /\ UNCHANGED head

(* The body ends, completed or with an exception.                              *)
BodyEnds(c) ==
    /\ up = "up" /\ running[c] # None
    /\ \/ AuditOK(Outcome) \/ AuditFails(Outcome)
       \/ AuditFailsThenRetries(Outcome, Outcome)
    /\ running' = [running EXCEPT ![c] = None]
    /\ UNCHANGED <<up, store, ticket, grantLog, executed, epoch>>

(* The body is cancelled: CancelledError passes the except clause by, and the  *)
(* finally clause records nothing.                                             *)
BodyCancelled(c) ==
    /\ up = "up" /\ running[c] # None
    /\ running' = [running EXCEPT ![c] = None]
    /\ UNCHANGED <<up, store, log, ticket, grantLog, executed, epoch>>

(* /approvals approve: the store first, then the record of it.                 *)
OperatorApproves(call) ==
    /\ up = "up"
    /\ given < MaxGrants
    /\ ApprovePending(call)
    /\ given' = given + 1
    /\ grants' = grants \cup {[id |-> given', action |-> call, epoch |-> epoch]}
    /\ grantOf' = [grantOf EXCEPT ![call] = given']
    /\ AuditOK(Operator) \/ AuditFails(Operator)
    /\ UNCHANGED <<up, running, ticket, executed, epoch>>

(* /approvals deny.                                                            *)
OperatorDenies(call) ==
    /\ up = "up"
    /\ DenyPending(call)
    /\ AuditOK(Operator) \/ AuditFails(Operator)
    /\ UNCHANGED <<up, running, ticket, grantLog, executed, epoch>>

(* The process dies, between two steps or inside an append.                    *)
Crash ==
    /\ up = "up"
    /\ epoch < MaxCrashes
    /\ epoch' = epoch + 1
    /\ up' = "down"
    /\ \/ UNCHANGED log
       \/ AuditFails(Outcome)
    /\ UNCHANGED <<store, running, ticket, grantLog, executed>>

(* Mutant: approvals outlive the process.                                      *)
FreshStoreKept == UNCHANGED store

FreshStore ==
    /\ requests' = [call \in Calls |-> "none"]
    /\ approved' = {}

(* A new session on the same audit file: factory.py builds a new store and     *)
(* loads the log, which must verify.                                           *)
Restart ==
    /\ up = "down"
    /\ FreshStore
    /\ running' = [c \in Callers |-> None]
    /\ IF Verifies(file)
         THEN up' = "up" /\ head' = LoadedHead(file)
         ELSE up' = "refused" /\ head' = head
    /\ UNCHANGED <<file, ticket, grantLog, executed, faults, epoch>>

Next ==
    \/ \E c \in Callers, call \in Calls :
          \/ ExecuteRefused(c, call) \/ ExecuteFreely(c, call)
          \/ ExecuteApproved(c, call) \/ ExecuteUnapproved(c, call)
    \/ \E c \in Callers : BodyEnds(c) \/ BodyCancelled(c)
    \/ \E call \in Calls : OperatorApproves(call) \/ OperatorDenies(call)
    \/ Crash
    \/ Restart

Spec == Init /\ [][Next]_vars

-------------------------------------------------------------------------------
(* Properties.                                                                 *)

(* Every variable has its type; the head is never ahead of the file.           *)
Events == [kind : {"allowed", "refused", "outcome", "operator-approval"}, ticket : Nat]
Lines == [event : Events, previous : Nat, hash : Nat, form : Forms]
Grants == [id : 1..MaxGrants, action : Calls, epoch : 0..MaxCrashes]
Executions == [ticket : 1..MaxTickets, call : Calls, grant : 0..MaxGrants,
               epoch : 0..MaxCrashes]

TypeOK ==
    /\ up \in {"up", "down", "refused"}
    /\ requests \in [Calls -> Statuses]
    /\ approved \in SUBSET Calls
    /\ file \in Seq(Lines)
    /\ \A i \in 1..Len(file) : file[i].hash = i
    /\ head \in 0..Len(file)
    /\ running \in [Callers -> Calls \cup {None}]
    /\ ticket \in 0..MaxTickets
    /\ given \in 0..MaxGrants
    /\ grants \in SUBSET Grants
    /\ grantOf \in [Calls -> 0..MaxGrants]
    /\ executed \in SUBSET Executions
    /\ faults \in 0..MaxFaults
    /\ epoch \in 0..MaxCrashes

(* A risky body runs only under a grant of the same process for that very      *)
(* action, and no grant admits two bodies (ApprovalStore: "one-shot").         *)
OneUse ==
    \A e \in executed : NeedsApproval(e.call) =>
        /\ \E g \in grants : g.id = e.grant /\ g.action = e.call /\ g.epoch = e.epoch
        /\ \A other \in executed :
              NeedsApproval(other.call) /\ other.grant = e.grant => other = e

(* The approved set and the request records, two tables kept by hand, agree:   *)
(* what the operator sees as settled is what the gate acts on.                 *)
StoreAgrees ==
    \A call \in Calls : call \in approved <=> requests[call] = "approved"

(* No body starts before the record that allows it is on disk.                 *)
AuditedFirst ==
    \A e \in executed : \E i \in DOMAIN file :
        file[i].form = "whole" /\ file[i].event = Allowed(e.ticket)

(* A log that verifies has lost nothing: at most its last line is one the      *)
(* process does not know to be written.  Every other leftover breaks the chain *)
(* as soon as the next record follows it.                                      *)
VerifiedLogIsComplete ==
    up = "up" /\ Verifies(file) => head \in {Len(file), Len(file) - 1}

(* If no append ever failed, every restart finds a log that verifies: the log  *)
(* the program writes is one it accepts.                                       *)
CleanLogResumes == faults = 0 => up # "refused" /\ Verifies(file)

(* A body that runs is inside the host's scope and the session's profile, with *)
(* the targets found in its command counted, not only those declared; and an   *)
(* opaque shell command runs under a grant, whatever risk it declares.         *)
RunsWithinPolicy ==
    \A e \in executed :
        /\ e.call.targets \cup (IF e.call.tool = "terminal" THEN CommandTargets(e.call) ELSE {})
              \subseteq Scope
        /\ e.call.tool = "terminal" => ShellAllowed
        /\ e.call.tool = "terminal" /\ e.call.opaque => e.grant # 0

(* "A denial never reaches the runtime": while the last word on an action is a *)
(* denial, no body of it starts.                                               *)
DenialStands ==
    [][\A call \in Calls : requests[call] = "denied" =>
          {e \in executed' : e.call = call} = {e \in executed : e.call = call}]_vars

(* The gate implements OneUseApproval: a live grant is one still in the store, *)
(* a spent one admitted a body.                                                *)
RiskyCalls == {call \in Calls : NeedsApproval(call)}

Approvals == INSTANCE OneUseApproval WITH
    Ids <- 1..MaxGrants,
    Actions <- Calls,
    live <- {[id |-> grantOf[call], action |-> call] : call \in approved},
    spent <- {[id |-> e.grant, action |-> e.call] :
                 e \in {x \in executed : NeedsApproval(x.call)}}

ImplementsOneUse == Approvals!Spec
===============================================================================
