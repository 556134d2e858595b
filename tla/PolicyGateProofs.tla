--------------------------- MODULE PolicyGateProofs ---------------------------
(* Proofs about PolicyGate, for every value of its constants: the type         *)
(* invariant, the one-use rule for approvals, the order of record and run, and *)
(* what a failed append may do to the audit log.                               *)
EXTENDS PolicyGate, TLAPS

-------------------------------------------------------------------------------
(* The audit log by itself.                                                    *)

(* A file of well-formed lines; those after the head h, which the process does *)
(* not know to be written, all chain to the head.                              *)
GoodLog(f, h) ==
    /\ f \in Seq(Lines)
    /\ \A i \in 1..Len(f) : f[i].hash = i
    /\ h \in 0..Len(f)
    /\ \A i \in 1..Len(f) : i > h => f[i].previous = h

(* The new file f2 keeps every line of f.                                      *)
Extends(f, f2) == Len(f) <= Len(f2) /\ \A i \in 1..Len(f) : f2[i] = f[i]

CleanLog ==
    faults = 0 => /\ head = Len(file) /\ Verifies(file)
                  /\ \A i \in 1..Len(file) : file[i].form = "whole"

LogInv == GoodLog(file, head) /\ faults \in 0..MaxFaults /\ CleanLog

(* What an append does to the lines, whole or torn.                            *)
LEMMA LineAppended ==
    ASSUME NEW f, NEW h, GoodLog(f, h), NEW event \in Events, NEW form \in Forms
    PROVE  /\ GoodLog(Append(f, Line(f, h, event, form)), h)
           /\ Extends(f, Append(f, Line(f, h, event, form)))
           /\ Len(Append(f, Line(f, h, event, form))) = Len(f) + 1
           /\ Append(f, Line(f, h, event, form))[Len(f) + 1] = Line(f, h, event, form)
  <1> DEFINE line == Line(f, h, event, form)
             f2 == Append(f, line)
  <1>1. f \in Seq(Lines) /\ h \in 0..Len(f)
    BY DEF GoodLog
  <1>2. line \in Lines /\ line.hash = Len(f) + 1 /\ line.previous = h
    BY <1>1 DEF Line, Lines
  <1> HIDE DEF line
  <1>3. /\ f2 \in Seq(Lines) /\ Len(f2) = Len(f) + 1
        /\ \A i \in 1..Len(f) : f2[i] = f[i]
        /\ f2[Len(f) + 1] = line
    BY <1>1, <1>2
  <1> HIDE DEF f2
  <1>4. GoodLog(f2, h)
    BY <1>1, <1>2, <1>3 DEF GoodLog
  <1>5. Extends(f, f2)
    BY <1>1, <1>3 DEF Extends
  <1> QED
    BY <1>3, <1>4, <1>5 DEF f2, line

(* A successful append moves the head to the last line.                        *)
LEMMA WrittenGood ==
    ASSUME NEW f, NEW h, GoodLog(f, h), NEW event \in Events
    PROVE  /\ GoodLog(Written(f, h, event), LoadedHead(Written(f, h, event)))
           /\ Extends(f, Written(f, h, event))
           /\ Len(Written(f, h, event)) = Len(f) + 1
           /\ LoadedHead(Written(f, h, event)) = Len(f) + 1
           /\ Written(f, h, event)[Len(f) + 1] = Line(f, h, event, "whole")
  <1> DEFINE f2 == Written(f, h, event)
  <1>1. /\ GoodLog(f2, h) /\ Extends(f, f2) /\ Len(f2) = Len(f) + 1
        /\ f2[Len(f) + 1] = Line(f, h, event, "whole")
    BY LineAppended DEF Written, Forms
  <1>2. f \in Seq(Lines) /\ Len(f) \in Nat
    BY DEF GoodLog
  <1> HIDE DEF f2
  <1>3. f2 # <<>> /\ f2[Len(f2)].hash = Len(f2)
    BY <1>1, <1>2 DEF GoodLog
  <1>4. LoadedHead(f2) = Len(f) + 1
    BY <1>1, <1>3 DEF LoadedHead
  <1>5. GoodLog(f2, LoadedHead(f2))
    BY <1>1, <1>2, <1>4 DEF GoodLog
  <1> QED
    BY <1>1, <1>4, <1>5 DEF f2

(* A failed append leaves the head, and at most one line after the others.     *)
LEMMA LeftoverGood ==
    ASSUME NEW f, NEW h, GoodLog(f, h), NEW event \in Events,
           NEW left \in Leftovers(f, h, event)
    PROVE  GoodLog(left, h) /\ Extends(f, left)
  <1>1. CASE left = f
    BY <1>1 DEF Extends, GoodLog
  <1>2. CASE \E form \in Forms : left = Append(f, Line(f, h, event, form))
    BY <1>2, LineAppended
  <1> QED
    BY <1>1, <1>2 DEF Leftovers

(* Each way AuditLog.append can end preserves the log's invariant and keeps    *)
(* every line; a successful one adds the event it was asked to record.         *)
LEMMA AuditOKStep ==
    ASSUME LogInv, NEW event \in Events, AuditOK(event)
    PROVE  /\ LogInv' /\ Extends(file, file')
           /\ Len(file') \in 1..Len(file')
           /\ file'[Len(file')].event = event /\ file'[Len(file')].form = "whole"
  <1>1. GoodLog(file, head) /\ file \in Seq(Lines) /\ Len(file) \in Nat
    BY DEF LogInv, GoodLog
  <1>2. /\ GoodLog(file', head') /\ Extends(file, file')
        /\ Len(file') = Len(file) + 1 /\ head' = Len(file) + 1
        /\ file'[Len(file) + 1] = Line(file, head, event, "whole")
    BY <1>1, WrittenGood DEF AuditOK
  <1>3. CleanLog'
    <2> SUFFICES ASSUME faults' = 0
                 PROVE  Verifies(file') /\ \A i \in 1..Len(file') : file'[i].form = "whole"
      BY <1>1, <1>2 DEF CleanLog
    <2>1. /\ head = Len(file) /\ Verifies(file)
          /\ \A i \in 1..Len(file) : file[i].form = "whole"
      BY DEF LogInv, CleanLog, AuditOK
    <2>2. \A i \in 1..Len(file') : file'[i].form = "whole"
      BY <1>1, <1>2, <2>1 DEF Extends, Line
    <2>3. ASSUME NEW i \in 1..Len(file')
          PROVE  file'[i].previous = (IF i = 1 THEN Genesis ELSE file'[i - 1].hash)
      <3>1. CASE i = Len(file')
        BY <3>1, <1>1, <1>2, <2>1 DEF Line, Genesis, GoodLog
      <3>2. CASE i # Len(file')
        BY <3>2, <1>1, <1>2, <2>1 DEF Extends, Verifies
      <3> QED
        BY <3>1, <3>2
    <2> QED
      BY <1>1, <1>2, <2>2, <2>3 DEF Verifies, GoodLog
  <1> QED
    BY <1>1, <1>2, <1>3 DEF LogInv, Line, AuditOK

(* An append that fails leaves the file a prefix of the new one, and the chain *)
(* as the log's invariant has it.                                              *)
LEMMA AuditFailsStep ==
    ASSUME LogInv, NEW event \in Events, AuditFails(event), MaxFaults \in Nat
    PROVE  LogInv' /\ Extends(file, file')
  <1>1. GoodLog(file', head') /\ Extends(file, file')
    BY LeftoverGood DEF AuditFails, LogInv
  <1>2. faults' \in 0..MaxFaults /\ faults' # 0
    BY DEF AuditFails, LogInv
  <1> QED
    BY <1>1, <1>2 DEF LogInv, CleanLog

(* Extensions of a file compose.                                               *)
LEMMA ExtendsTwice ==
    ASSUME NEW f \in Seq(Lines), NEW g \in Seq(Lines), NEW h \in Seq(Lines),
           Extends(f, g), Extends(g, h)
    PROVE  Extends(f, h)
  BY DEF Extends

(* A failed append and the one that follows it extend the file and keep the    *)
(* log's invariant.                                                            *)
LEMMA AuditRetryStep ==
    ASSUME LogInv, NEW first \in Events, NEW second \in Events,
           AuditFailsThenRetries(first, second), MaxFaults \in Nat
    PROVE  LogInv' /\ Extends(file, file')
  <1>1. PICK left \in Leftovers(file, head, first) :
          \/ /\ faults' = faults + 1
             /\ file' = Written(left, head, second)
             /\ head' = LoadedHead(file')
          \/ /\ faults + 1 < MaxFaults
             /\ faults' = faults + 2
             /\ file' \in Leftovers(left, head, second)
             /\ UNCHANGED head
    BY DEF AuditFailsThenRetries
  <1>2. GoodLog(left, head) /\ Extends(file, left)
    BY LeftoverGood DEF LogInv
  <1>3. GoodLog(file', head') /\ Extends(left, file')
    <2>1. CASE file' = Written(left, head, second) /\ head' = LoadedHead(file')
      BY <2>1, <1>2, WrittenGood
    <2>2. CASE file' \in Leftovers(left, head, second) /\ head' = head
      BY <2>2, <1>2, LeftoverGood
    <2> QED
      BY <1>1, <2>1, <2>2
  <1>4. faults' \in 0..MaxFaults /\ faults' # 0
    BY <1>1 DEF AuditFailsThenRetries, LogInv
  <1>5. Extends(file, file')
    BY <1>2, <1>3, ExtendsTwice DEF GoodLog, LogInv
  <1> QED
    BY <1>3, <1>4, <1>5 DEF LogInv, CleanLog

(* A new session takes over the log of the last one.                           *)
LEMMA LogRestartStep ==
    ASSUME LogInv, Restart
    PROVE  LogInv' /\ Extends(file, file')
  <1>1. GoodLog(file, head) /\ file \in Seq(Lines) /\ Len(file) \in Nat
    BY DEF LogInv, GoodLog
  <1>2. file' = file /\ faults' = faults /\ head' \in {head, LoadedHead(file)}
    BY DEF Restart
  <1>3. LoadedHead(file) = Len(file)
    BY <1>1 DEF LoadedHead, GoodLog, Genesis
  <1>4. GoodLog(file, head')
    BY <1>1, <1>2, <1>3 DEF GoodLog
  <1>5. CleanLog'
    BY <1>2, <1>3 DEF CleanLog, LogInv, Verifies
  <1> QED
    BY <1>1, <1>2, <1>4, <1>5 DEF LogInv, Extends

(* The events that the actions record are events.                              *)
LEMMA EventsTyped ==
    ASSUME NEW n \in Nat
    PROVE  Allowed(n) \in Events /\ {Refused, Outcome, Operator} \subseteq Events
  BY DEF Allowed, Refused, Outcome, Operator, Events

(* Every step extends the file and keeps the log's invariant.                  *)
LEMMA LogStep ==
    ASSUME TypeOK, LogInv, [Next]_vars
    PROVE  LogInv' /\ Extends(file, file')
  <1> USE PolicyGateAssumption
  <1>1. CASE UNCHANGED log
    BY <1>1 DEF log, LogInv, GoodLog, CleanLog, Verifies, Extends
  <1>2. ASSUME NEW event \in Events, AuditOK(event) \/ AuditFails(event)
        PROVE  LogInv' /\ Extends(file, file')
    BY <1>2, AuditOKStep, AuditFailsStep
  <1>3. ASSUME NEW c \in Callers, NEW call \in Calls,
               \/ ExecuteRefused(c, call) \/ ExecuteFreely(c, call)
               \/ ExecuteApproved(c, call) \/ ExecuteUnapproved(c, call)
        PROVE  LogInv' /\ Extends(file, file')
    <2>1. ticket' \in Nat
      BY <1>3 DEF TypeOK, Evaluates, ExecuteRefused, ExecuteFreely, ExecuteApproved,
                  ExecuteUnapproved
    <2>2. \E event \in {Allowed(ticket'), Refused} : AuditOK(event) \/ AuditFails(event)
      BY <1>3 DEF ExecuteRefused, ExecuteFreely, ExecuteApproved, ExecuteUnapproved,
                  RecordsAndStarts, RecordsRefusal
    <2> QED
      BY <2>1, <2>2, <1>2, EventsTyped
  <1>4. ASSUME NEW c \in Callers, BodyEnds(c)
        PROVE  LogInv' /\ Extends(file, file')
    BY <1>4, <1>2, AuditRetryStep, EventsTyped DEF BodyEnds
  <1>5. ASSUME NEW call \in Calls, OperatorApproves(call) \/ OperatorDenies(call)
        PROVE  LogInv' /\ Extends(file, file')
    BY <1>5, <1>2, EventsTyped DEF OperatorApproves, OperatorDenies
  <1>6. CASE Crash
    BY <1>6, <1>1, <1>2, EventsTyped DEF Crash
  <1>7. CASE Restart
    BY <1>7, LogRestartStep
  <1>8. CASE UNCHANGED vars \/ \E c \in Callers : BodyCancelled(c)
    BY <1>8, <1>1 DEF vars, log, BodyCancelled
  <1> QED
    BY <1>3, <1>4, <1>5, <1>6, <1>7, <1>8 DEF Next

-------------------------------------------------------------------------------
(* The approval store.                                                         *)

(* A grant that is still usable: the one the store's entry for call stands for.*)
Usable(g, call) == g.id = grantOf[call] /\ g.action = call /\ g.epoch = epoch

(* Ids of grants are given out in order, so the next one is new.               *)
GrantsFresh ==
    /\ \A g \in grants : g.id <= given
    /\ \A e \in executed : e.grant <= given

(* An approval in the store stands for a grant of this process that no other   *)
(* approval stands for and that admitted no body yet.                          *)
ApprovedUnused ==
    \A call \in approved :
        /\ grantOf[call] \in 1..given
        /\ up = "up" => \E g \in grants : Usable(g, call)
        /\ \A other \in approved : grantOf[other] = grantOf[call] => other = call
        /\ \A e \in executed : NeedsApproval(e.call) => e.grant # grantOf[call]

(* Requests are made for risky calls only.                                     *)
RiskyRequested == \A call \in Calls : requests[call] # "none" => NeedsApproval(call)

StoreInv == StoreAgrees /\ RiskyRequested /\ GrantsFresh /\ ApprovedUnused /\ OneUse

GateInv ==
    /\ TypeOK /\ LogInv /\ StoreInv /\ AuditedFirst
    /\ faults = 0 => up # "refused"

(* A new session satisfies the invariant.                                      *)
LEMMA GateInit == Init => GateInv
  <1> SUFFICES ASSUME Init PROVE GateInv
    OBVIOUS
  <1> USE PolicyGateAssumption DEF Init
  <1>1. TypeOK
    BY DEF TypeOK, Statuses, Genesis
  <1>2. LogInv
    BY DEF LogInv, GoodLog, CleanLog, Verifies, Genesis
  <1>3. StoreInv /\ AuditedFirst
    BY DEF StoreInv, StoreAgrees, RiskyRequested, GrantsFresh, ApprovedUnused, OneUse, AuditedFirst
  <1> QED
    BY <1>1, <1>2, <1>3 DEF GateInv

(* Every step keeps the types; those of the file come with the log's           *)
(* invariant.                                                                  *)
LEMMA TypeStep ==
    ASSUME TypeOK, LogInv', [Next]_vars
    PROVE  TypeOK'
  <1> USE PolicyGateAssumption
  <1>0. /\ file' \in Seq(Lines) /\ \A i \in 1..Len(file') : file'[i].hash = i
        /\ head' \in 0..Len(file') /\ faults' \in 0..MaxFaults
    BY DEF LogInv, GoodLog
  <1>1. ASSUME NEW c \in Callers, NEW call \in Calls,
               \/ ExecuteRefused(c, call) \/ ExecuteFreely(c, call)
               \/ ExecuteApproved(c, call) \/ ExecuteUnapproved(c, call)
        PROVE  TypeOK'
    <2>1. /\ ticket' \in 1..MaxTickets /\ up' = up /\ given' = given /\ grants' = grants
          /\ grantOf' = grantOf /\ epoch' = epoch
      BY <1>1 DEF ExecuteRefused, ExecuteFreely, ExecuteApproved, ExecuteUnapproved,
                  Evaluates, TypeOK, grantLog
    <2>2. requests' \in [Calls -> Statuses] /\ approved' \in SUBSET Calls
      BY <1>1 DEF ExecuteRefused, ExecuteFreely, ExecuteApproved, ExecuteUnapproved,
                  store, Consume, Request, Statuses, TypeOK
    <2>3. \/ UNCHANGED <<running, executed>>
          \/ \E grant \in 0..MaxGrants : Starts(c, call, grant)
      BY <1>1 DEF ExecuteRefused, ExecuteFreely, ExecuteApproved, ExecuteUnapproved,
                  RecordsAndStarts, RecordsRefusal, TypeOK
    <2>4. running' \in [Callers -> Calls \cup {None}] /\ executed' \in SUBSET Executions
      <3>1. CASE UNCHANGED <<running, executed>>
        BY <3>1 DEF TypeOK
      <3>2. ASSUME NEW grant \in 0..MaxGrants, Starts(c, call, grant)
            PROVE  running' \in [Callers -> Calls \cup {None}] /\ executed' \in SUBSET Executions
        <4>1. [ticket |-> ticket', call |-> call, grant |-> grant, epoch |-> epoch] \in Executions
          BY <2>1 DEF TypeOK, Executions
        <4> QED
          BY <3>2, <4>1 DEF Starts, TypeOK
      <3> QED
        BY <2>3, <3>1, <3>2
    <2> QED
      BY <1>0, <2>1, <2>2, <2>4 DEF TypeOK
  <1>2. ASSUME NEW c \in Callers, BodyEnds(c) \/ BodyCancelled(c)
        PROVE  TypeOK'
    BY <1>0, <1>2 DEF BodyEnds, BodyCancelled, store, grantLog, TypeOK
  <1>3. ASSUME NEW call \in Calls, OperatorApproves(call)
        PROVE  TypeOK'
    BY <1>0, <1>3 DEF OperatorApproves, ApprovePending, TypeOK, Grants, Statuses
  <1>4. ASSUME NEW call \in Calls, OperatorDenies(call)
        PROVE  TypeOK'
    BY <1>0, <1>4 DEF OperatorDenies, DenyPending, grantLog, TypeOK, Statuses
  <1>5. CASE Crash
    <2>1. /\ up' = "down" /\ epoch' \in 0..MaxCrashes
          /\ UNCHANGED <<requests, approved, running, ticket, given, grants, grantOf, executed>>
      BY <1>5 DEF Crash, store, grantLog, TypeOK
    <2> QED
      BY <1>0, <2>1 DEF TypeOK
  <1>6. CASE Restart
    BY <1>0, <1>6 DEF Restart, FreshStore, grantLog, TypeOK, Statuses
  <1>7. CASE UNCHANGED vars
    BY <1>7 DEF vars, TypeOK
  <1> QED
    BY <1>1, <1>2, <1>3, <1>4, <1>5, <1>6, <1>7 DEF Next

(* A step starts a body only in execute_tool, and only with its record.        *)
LEMMA StartOrNot ==
    ASSUME TypeOK, [Next]_vars
    PROVE  \/ executed' = executed
           \/ \E c \in Callers, call \in Calls, grant \in 0..MaxGrants :
                 /\ Starts(c, call, grant) /\ AuditOK(Allowed(ticket'))
                 /\ ticket' \in 1..MaxTickets /\ UNCHANGED <<up, given, grants, grantOf, epoch>>
                 /\ up = "up" /\ StaticCode(call) = "pass"
                 /\ \/ /\ ~NeedsApproval(call) /\ UNCHANGED store
                    \/ /\ NeedsApproval(call) /\ call \in approved
                       /\ Consume(call) /\ grant = grantOf[call]
  <1> USE PolicyGateAssumption
  <1>1. ASSUME NEW c \in Callers, NEW call \in Calls,
               ExecuteRefused(c, call) \/ ExecuteUnapproved(c, call)
        PROVE  executed' = executed
    BY <1>1 DEF ExecuteRefused, ExecuteUnapproved, RecordsRefusal
  <1>2. ASSUME NEW c \in Callers, NEW call \in Calls,
               ExecuteFreely(c, call), executed' # executed
        PROVE  /\ Starts(c, call, 0) /\ AuditOK(Allowed(ticket')) /\ ~NeedsApproval(call)
               /\ UNCHANGED store /\ Evaluates(c) /\ StaticCode(call) = "pass"
    BY <1>2 DEF ExecuteFreely, RecordsAndStarts
  <1>3. ASSUME NEW c \in Callers, NEW call \in Calls,
               ExecuteApproved(c, call), executed' # executed
        PROVE  /\ Starts(c, call, grantOf[call]) /\ AuditOK(Allowed(ticket'))
               /\ NeedsApproval(call) /\ call \in approved /\ Consume(call) /\ Evaluates(c)
               /\ StaticCode(call) = "pass"
    BY <1>3 DEF ExecuteApproved, RecordsAndStarts
  <1>4. ASSUME NEW c \in Callers, Evaluates(c)
        PROVE  /\ ticket' \in 1..MaxTickets /\ UNCHANGED <<up, given, grants, grantOf, epoch>>
               /\ up = "up"
    BY <1>4 DEF Evaluates, Free, TypeOK, grantLog
  <1>5. ASSUME NEW call \in Calls PROVE grantOf[call] \in 0..MaxGrants
    BY DEF TypeOK
  <1>6. CASE (\E c \in Callers : BodyEnds(c) \/ BodyCancelled(c)) \/ Crash \/ Restart
             \/ UNCHANGED vars
             \/ \E call \in Calls : OperatorApproves(call) \/ OperatorDenies(call)
    BY <1>6 DEF BodyEnds, BodyCancelled, Crash, Restart, OperatorApproves, OperatorDenies, vars
  <1>7. CASE \E c \in Callers, call \in Calls : ExecuteFreely(c, call)
    <2> SUFFICES ASSUME NEW c \in Callers, NEW call \in Calls, ExecuteFreely(c, call),
                        executed' # executed
                 PROVE  /\ Starts(c, call, 0) /\ AuditOK(Allowed(ticket'))
                        /\ ticket' \in 1..MaxTickets
                        /\ UNCHANGED <<up, given, grants, grantOf, epoch>> /\ up = "up"
                        /\ ~NeedsApproval(call) /\ UNCHANGED store
                        /\ StaticCode(call) = "pass"
      BY <1>7
    <2> QED
      BY <1>2, <1>4
  <1>8. CASE \E c \in Callers, call \in Calls : ExecuteApproved(c, call)
    <2> SUFFICES ASSUME NEW c \in Callers, NEW call \in Calls, ExecuteApproved(c, call),
                        executed' # executed
                 PROVE  /\ Starts(c, call, grantOf[call]) /\ AuditOK(Allowed(ticket'))
                        /\ ticket' \in 1..MaxTickets
                        /\ UNCHANGED <<up, given, grants, grantOf, epoch>> /\ up = "up"
                        /\ NeedsApproval(call) /\ call \in approved /\ Consume(call)
                        /\ StaticCode(call) = "pass"
      BY <1>5, <1>8
    <2> QED
      BY <1>3, <1>4
  <1> QED
    BY <1>1, <1>6, <1>7, <1>8 DEF Next

(* Every step keeps the record of each body that started: the file only grows. *)
LEMMA AuditedFirstStep ==
    ASSUME TypeOK, LogInv, AuditedFirst, [Next]_vars
    PROVE  AuditedFirst'
  <1>1. LogInv' /\ Extends(file, file') /\ Len(file) \in Nat /\ Len(file') \in Nat
    BY LogStep DEF LogInv, GoodLog
  <1>2. ASSUME NEW e \in executed
        PROVE  \E i \in DOMAIN file' :
                  file'[i].form = "whole" /\ file'[i].event = Allowed(e.ticket)
    <2>1. PICK i \in 1..Len(file) :
             file[i].form = "whole" /\ file[i].event = Allowed(e.ticket)
      BY DEF AuditedFirst, TypeOK
    <2>2. i \in 1..Len(file') /\ file'[i] = file[i]
      BY <1>1, <2>1 DEF Extends
    <2> QED
      BY <1>1, <2>1, <2>2 DEF LogInv, GoodLog
  <1>3. ASSUME NEW c \in Callers, NEW call \in Calls, NEW grant,
               Starts(c, call, grant), AuditOK(Allowed(ticket')), ticket' \in 1..MaxTickets
        PROVE  AuditedFirst'
    <2> DEFINE new == [ticket |-> ticket', call |-> call, grant |-> grant, epoch |-> epoch]
    <2>1. executed' = executed \cup {new} /\ new.ticket = ticket'
      BY <1>3 DEF Starts
    <2>2. Allowed(ticket') \in Events
      BY <1>3, EventsTyped
    <2>3. /\ Len(file') \in 1..Len(file')
          /\ file'[Len(file')].event = Allowed(ticket') /\ file'[Len(file')].form = "whole"
      BY <1>3, <2>2, AuditOKStep
    <2>4. Len(file') \in DOMAIN file'
      BY <1>1, <2>3 DEF LogInv, GoodLog
    <2> HIDE DEF new
    <2> QED
      BY <1>2, <2>1, <2>3, <2>4 DEF AuditedFirst
  <1>4. CASE executed' = executed
    BY <1>2, <1>4 DEF AuditedFirst
  <1> QED
    BY <1>3, <1>4, StartOrNot

(* The ways a step can change the store and the histories of its use.          *)
LEMMA StoreUnchanged ==
    ASSUME StoreInv,
           UNCHANGED <<requests, approved, grantOf, grants, given, executed>>,
           up' = "up" => up = "up" /\ epoch' = epoch
    PROVE  StoreInv'
  BY DEF StoreInv, StoreAgrees, RiskyRequested, GrantsFresh, ApprovedUnused, OneUse, Usable

(* A body that needs no approval does not touch the books of the approvals.    *)
LEMMA StoreStartsFreely ==
    ASSUME TypeOK, StoreInv, NEW c \in Callers, NEW call \in Calls, NEW grant \in 0..MaxGrants,
           Starts(c, call, grant), ~NeedsApproval(call), grant = 0,
           UNCHANGED <<up, requests, approved, grantOf, grants, given, epoch>>
    PROVE  StoreInv'
  <1> DEFINE new == [ticket |-> ticket', call |-> call, grant |-> grant, epoch |-> epoch]
  <1>1. executed' = executed \cup {new} /\ new.grant = 0 /\ new.call = call
    BY DEF Starts
  <1> HIDE DEF new
  <1>2. StoreAgrees' /\ RiskyRequested' /\ GrantsFresh'
    BY <1>1 DEF StoreInv, StoreAgrees, RiskyRequested, GrantsFresh, TypeOK
  <1>3. ApprovedUnused'
    BY <1>1 DEF StoreInv, ApprovedUnused, Usable
  <1>4. OneUse'
    BY <1>1 DEF StoreInv, OneUse
  <1> QED
    BY <1>2, <1>3, <1>4 DEF StoreInv

(* A consumed approval leaves the store, and its grant is free to be used.     *)
LEMMA StoreConsumes ==
    ASSUME TypeOK, StoreInv, NEW call \in Calls, call \in approved, Consume(call),
           UNCHANGED <<up, grantOf, grants, given, executed, epoch>>
    PROVE  StoreInv'
  <1>1. requests' = [requests EXCEPT ![call] = "consumed"] /\ approved' = approved \ {call}
    BY DEF Consume
  <1>2. StoreAgrees' /\ RiskyRequested'
    BY <1>1 DEF StoreInv, StoreAgrees, RiskyRequested, TypeOK
  <1>3. GrantsFresh' /\ ApprovedUnused' /\ OneUse'
    BY <1>1 DEF StoreInv, GrantsFresh, ApprovedUnused, OneUse, Usable
  <1> QED
    BY <1>2, <1>3 DEF StoreInv

(* A body that starts under an approval uses a grant that no other body used.  *)
LEMMA StoreStartsApproved ==
    ASSUME TypeOK, StoreInv, up = "up", NEW c \in Callers, NEW call \in Calls,
           call \in approved, Consume(call), Starts(c, call, grantOf[call]),
           NeedsApproval(call), UNCHANGED <<up, grantOf, grants, given, epoch>>
    PROVE  StoreInv'
  <1> DEFINE new == [ticket |-> ticket', call |-> call, grant |-> grantOf[call],
                     epoch |-> epoch]
  <1>1. /\ executed' = executed \cup {new} /\ new.grant = grantOf[call]
        /\ new.call = call /\ new.epoch = epoch
    BY DEF Starts
  <1> HIDE DEF new
  <1>2. requests' = [requests EXCEPT ![call] = "consumed"] /\ approved' = approved \ {call}
    BY DEF Consume
  <1>3. /\ grantOf[call] \in 1..given
        /\ \E g \in grants : g.id = grantOf[call] /\ g.action = call /\ g.epoch = epoch
        /\ \A other \in approved : grantOf[other] = grantOf[call] => other = call
        /\ \A e \in executed : NeedsApproval(e.call) => e.grant # grantOf[call]
    BY DEF StoreInv, ApprovedUnused, Usable
  <1>4. StoreAgrees' /\ RiskyRequested'
    BY <1>2 DEF StoreInv, StoreAgrees, RiskyRequested, TypeOK
  <1>5. GrantsFresh'
    BY <1>1, <1>3 DEF StoreInv, GrantsFresh, TypeOK
  <1>6. ApprovedUnused'
    BY <1>1, <1>2, <1>3 DEF StoreInv, ApprovedUnused, Usable
  <1>7. OneUse'
    BY <1>1, <1>3 DEF StoreInv, OneUse
  <1> QED
    BY <1>4, <1>5, <1>6, <1>7 DEF StoreInv

(* An approval is a new grant, which no body has used.                         *)
LEMMA StoreApproves ==
    ASSUME TypeOK, StoreInv, NEW call \in Calls, OperatorApproves(call)
    PROVE  StoreInv'
  <1>1. /\ requests' = [requests EXCEPT ![call] = "approved"]
        /\ approved' = approved \cup {call} /\ requests[call] = "pending"
        /\ given' = given + 1 /\ grantOf' = [grantOf EXCEPT ![call] = given']
        /\ grants' = grants \cup {[id |-> given', action |-> call, epoch |-> epoch]}
        /\ UNCHANGED <<up, executed, epoch>>
    BY DEF OperatorApproves, ApprovePending
  <1>2. given \in Nat /\ grantOf \in [Calls -> 0..MaxGrants] /\ call \notin approved
    BY <1>1 DEF TypeOK, StoreInv, StoreAgrees
  <1>3. StoreAgrees' /\ RiskyRequested'
    BY <1>1 DEF StoreInv, StoreAgrees, RiskyRequested, TypeOK
  <1> DEFINE g0 == [id |-> given', action |-> call, epoch |-> epoch]
  <1>4. grants' = grants \cup {g0} /\ g0.id = given' /\ g0.action = call /\ g0.epoch = epoch
    BY <1>1
  <1> HIDE DEF g0
  <1>5. GrantsFresh'
    BY <1>1, <1>2, <1>4 DEF StoreInv, GrantsFresh, TypeOK, Grants, Executions
  <1>6. OneUse'
    BY <1>1 DEF StoreInv, OneUse
  <1>7. grantOf'[call] = given + 1 /\ \A other \in approved : grantOf'[other] = grantOf[other]
    BY <1>1, <1>2 DEF TypeOK
  <1>8. \A e \in executed' : e.grant # given + 1
    BY <1>1, <1>2 DEF StoreInv, GrantsFresh, TypeOK, Executions
  <1>9. ApprovedUnused'
    <2> SUFFICES ASSUME NEW a \in approved'
                 PROVE  /\ grantOf'[a] \in 1..given'
                        /\ up' = "up" => \E g \in grants' : Usable(g, a)'
                        /\ \A other \in approved' : grantOf'[other] = grantOf'[a] => other = a
                        /\ \A e \in executed' : NeedsApproval(e.call) => e.grant # grantOf'[a]
      BY DEF ApprovedUnused
    <2>1. CASE a = call
      <3>1. \A other \in approved : grantOf[other] \in 1..given
        BY DEF StoreInv, ApprovedUnused
      <3> QED
        BY <2>1, <3>1, <1>1, <1>2, <1>4, <1>7, <1>8 DEF Usable
    <2>2. CASE a \in approved
      <3>1. /\ grantOf[a] \in 1..given
            /\ up = "up" => \E g \in grants : Usable(g, a)
            /\ \A other \in approved : grantOf[other] = grantOf[a] => other = a
            /\ \A e \in executed : NeedsApproval(e.call) => e.grant # grantOf[a]
        BY <2>2 DEF StoreInv, ApprovedUnused
      <3> QED
        BY <2>2, <3>1, <1>1, <1>2, <1>4, <1>7 DEF Usable
    <2> QED
      BY <2>1, <2>2, <1>1
  <1> QED
    BY <1>3, <1>5, <1>6, <1>9 DEF StoreInv

(* A restart empties the store, and every grant given so far is a past one.    *)
LEMMA StoreRestarts ==
    ASSUME TypeOK, StoreInv, Restart
    PROVE  StoreInv'
  <1>1. /\ requests' = [call \in Calls |-> "none"] /\ approved' = {}
        /\ UNCHANGED <<given, grants, grantOf, executed>>
    BY DEF Restart, FreshStore, grantLog
  <1> QED
    BY <1>1 DEF StoreInv, StoreAgrees, RiskyRequested, GrantsFresh, ApprovedUnused, OneUse

(* A request or a denial takes no approval back that the set holds.            *)
LEMMA StoreRequestsOrDenies ==
    ASSUME TypeOK, StoreInv, NEW call \in Calls,
           \/ Request(call) /\ call \notin approved /\ NeedsApproval(call)
           \/ DenyPending(call),
           UNCHANGED <<up, grantOf, grants, given, executed, epoch>>
    PROVE  StoreInv'
  <1>1. /\ call \notin approved /\ approved' = approved
        /\ \E status \in {"pending", "denied"} : requests' = [requests EXCEPT ![call] = status]
        /\ NeedsApproval(call)
    BY DEF Request, DenyPending, StoreInv, StoreAgrees, RiskyRequested
  <1>2. StoreAgrees' /\ RiskyRequested'
    BY <1>1 DEF StoreInv, StoreAgrees, RiskyRequested, TypeOK
  <1>3. GrantsFresh' /\ ApprovedUnused' /\ OneUse'
    BY <1>1 DEF StoreInv, GrantsFresh, ApprovedUnused, OneUse, Usable
  <1> QED
    BY <1>2, <1>3 DEF StoreInv

(* Every step keeps the books of the approvals.                                *)
LEMMA StoreStep ==
    ASSUME TypeOK, StoreInv, [Next]_vars
    PROVE  StoreInv'
  <1> USE PolicyGateAssumption
  <1>1. ASSUME NEW c \in Callers, NEW call \in Calls, ExecuteRefused(c, call)
        PROVE  StoreInv'
    BY <1>1, StoreUnchanged DEF ExecuteRefused, Evaluates, RecordsRefusal, store, grantLog
  <1>2. ASSUME NEW c \in Callers, NEW call \in Calls, ExecuteFreely(c, call)
        PROVE  StoreInv'
    <2>1. /\ UNCHANGED <<up, requests, approved, grantOf, grants, given, epoch>>
          /\ ~NeedsApproval(call)
          /\ executed' = executed \/ Starts(c, call, 0)
      BY <1>2 DEF ExecuteFreely, Evaluates, RecordsAndStarts, store, grantLog
    <2> QED
      BY <2>1, StoreUnchanged, StoreStartsFreely
  <1>3. ASSUME NEW c \in Callers, NEW call \in Calls, ExecuteApproved(c, call)
        PROVE  StoreInv'
    <2>1. /\ UNCHANGED <<up, grantOf, grants, given, epoch>>
          /\ NeedsApproval(call) /\ call \in approved /\ Consume(call) /\ up = "up"
          /\ executed' = executed \/ Starts(c, call, grantOf[call])
      BY <1>3 DEF ExecuteApproved, Evaluates, Free, RecordsAndStarts, grantLog
    <2> QED
      BY <2>1, StoreConsumes, StoreStartsApproved
  <1>4. ASSUME NEW c \in Callers, NEW call \in Calls, ExecuteUnapproved(c, call)
        PROVE  StoreInv'
    BY <1>4, StoreRequestsOrDenies DEF ExecuteUnapproved, Evaluates, RecordsRefusal, grantLog
  <1>5. ASSUME NEW c \in Callers, BodyEnds(c) \/ BodyCancelled(c)
        PROVE  StoreInv'
    BY <1>5, StoreUnchanged DEF BodyEnds, BodyCancelled, store, grantLog
  <1>6. ASSUME NEW call \in Calls, OperatorDenies(call)
        PROVE  StoreInv'
    BY <1>6, StoreRequestsOrDenies DEF OperatorDenies, grantLog
  <1>7. CASE Crash
    BY <1>7, StoreUnchanged DEF Crash, store, grantLog
  <1>8. CASE UNCHANGED vars
    BY <1>8, StoreUnchanged DEF vars
  <1> QED
    BY <1>1, <1>2, <1>3, <1>4, <1>5, <1>6, <1>7, <1>8, StoreApproves, StoreRestarts DEF Next

-------------------------------------------------------------------------------
(* The theorems.                                                               *)

(* Every step keeps the invariant.                                             *)
LEMMA GateStep == GateInv /\ [Next]_vars => GateInv'
  <1> SUFFICES ASSUME GateInv, [Next]_vars PROVE GateInv'
    OBVIOUS
  <1>1. LogInv' /\ TypeOK'
    BY LogStep, TypeStep DEF GateInv
  <1>2. StoreInv' /\ AuditedFirst'
    BY StoreStep, AuditedFirstStep DEF GateInv
  <1>3. faults' = 0 => up' # "refused"
    <2> SUFFICES ASSUME faults' = 0, up' = "refused" PROVE FALSE
      OBVIOUS
    <2>1. CASE Restart
      BY <2>1 DEF Restart, GateInv, LogInv, CleanLog
    <2>2. CASE ~Restart
      <3>1. up' = up \/ Crash
        BY <2>2 DEF Next, vars, ExecuteRefused, ExecuteFreely, ExecuteApproved,
             ExecuteUnapproved, Evaluates, BodyEnds, BodyCancelled, OperatorApproves,
             OperatorDenies
      <3>2. up = "refused" /\ faults # 0
        BY <3>1 DEF Crash, GateInv
      <3>3. faults' = faults \/ faults' = faults + 1 \/ faults' = faults + 2
        BY <2>2 DEF Next, vars, ExecuteRefused, ExecuteFreely, ExecuteApproved,
             ExecuteUnapproved, RecordsAndStarts, RecordsRefusal, BodyEnds, BodyCancelled,
             OperatorApproves, OperatorDenies, Crash, AuditOK, AuditFails,
             AuditFailsThenRetries, log
      <3> QED
        BY <3>2, <3>3 DEF GateInv, TypeOK
    <2> QED
      BY <2>1, <2>2
  <1> QED
    BY <1>1, <1>2, <1>3 DEF GateInv

(* The invariant holds: the types, the log's invariant, the books of the       *)
(* approvals, and that every body was recorded first.                          *)
THEOREM GateInvariant == Spec => []GateInv
  BY GateInit, GateStep, PTL DEF Spec

(* Every variable keeps its type.                                              *)
THEOREM TypeCorrect == Spec => []TypeOK
  BY GateInvariant, PTL DEF GateInv

(* ApprovalStore: an approval admits at most one body, of the action it was    *)
(* given for and in the process it was given in.                               *)
THEOREM ApprovalsAreOneUse == Spec => []OneUse
  BY GateInvariant, PTL DEF GateInv, StoreInv

(* The approved set and the request records never disagree.                    *)
THEOREM StoreTablesAgree == Spec => []StoreAgrees
  BY GateInvariant, PTL DEF GateInv, StoreInv

(* execute_tool: no body without its record on disk.                           *)
THEOREM BodiesAreAudited == Spec => []AuditedFirst
  BY GateInvariant, PTL DEF GateInv

(* AuditLog.append: whatever failed before, a log that still verifies holds at *)
(* most one record the process does not know to be written.                    *)
THEOREM LogCompleteOrRejected == Spec => []VerifiedLogIsComplete
  <1>1. GateInv => VerifiedLogIsComplete
    <2> SUFFICES ASSUME GateInv, Verifies(file), head \notin {Len(file), Len(file) - 1}
                 PROVE  FALSE
      BY DEF VerifiedLogIsComplete
    <2>1. GoodLog(file, head) /\ Len(file) \in Nat
      BY DEF GateInv, LogInv, GoodLog
    <2>2. head + 2 \in 1..Len(file) /\ head + 1 \in 1..Len(file)
      BY <2>1 DEF GoodLog
    <2>3. file[head + 2].previous = head /\ file[head + 1].hash = head + 1
      BY <2>1, <2>2 DEF GoodLog
    <2>4. file[head + 2].previous = file[head + 1].hash
      BY <2>1, <2>2 DEF Verifies, GoodLog
    <2> QED
      BY <2>1, <2>3, <2>4 DEF GoodLog
  <1> QED
    BY <1>1, GateInvariant, PTL

(* Without a failed append, the next session always accepts the log.           *)
THEOREM CleanLogIsAccepted == Spec => []CleanLogResumes
  <1>1. GateInv => CleanLogResumes
    BY DEF GateInv, LogInv, CleanLog, CleanLogResumes
  <1> QED
    BY <1>1, GateInvariant, PTL

(* "A denial never reaches the runtime."                                       *)
THEOREM DenialsStand == Spec => DenialStands
  <1>1. GateInv /\ [Next]_vars =>
          \A call \in Calls : requests[call] = "denied" =>
             {e \in executed' : e.call = call} = {e \in executed : e.call = call}
    <2> SUFFICES ASSUME GateInv, [Next]_vars, NEW denied \in Calls,
                        requests[denied] = "denied",
                        NEW c \in Callers, NEW call \in Calls, NEW grant \in 0..MaxGrants,
                        Starts(c, call, grant),
                        NeedsApproval(call) => call \in approved
                 PROVE  {e \in executed' : e.call = denied} = {e \in executed : e.call = denied}
      BY StartOrNot DEF GateInv
    <2> QED
      BY DEF Starts, GateInv, StoreInv, StoreAgrees, RiskyRequested
  <1> QED
    BY <1>1, GateInvariant, PTL DEF Spec, DenialStands

-------------------------------------------------------------------------------
(* PolicyGate implements OneUseApproval.                                       *)

Live == {[id |-> grantOf[call], action |-> call] : call \in approved}
Spent == {[id |-> e.grant, action |-> e.call] : e \in {x \in executed : NeedsApproval(x.call)}}

(* Steps that neither give nor use an approval lose some, or none.             *)
LEMMA LoseOrStutter ==
    ASSUME UNCHANGED <<executed, grantOf>>, approved' \subseteq approved
    PROVE  Live' \in SUBSET Live /\ Spent' = Spent
  <1>1. Live' \in SUBSET Live
    BY DEF Live
  <1>2. Spent' = Spent
    BY DEF Spent
  <1> QED
    BY <1>1, <1>2

(* A body that needs no approval is a stutter of OneUseApproval.               *)
LEMMA StartsFreelyStutters ==
    ASSUME NEW c, NEW call, NEW grant, Starts(c, call, grant), ~NeedsApproval(call),
           UNCHANGED <<approved, grantOf>>
    PROVE  Live' = Live /\ Spent' = Spent
  <1>1. Live' = Live
    BY DEF Live
  <1>2. {x \in executed' : NeedsApproval(x.call)} = {x \in executed : NeedsApproval(x.call)}
    BY DEF Starts
  <1> QED
    BY <1>1, <1>2 DEF Spent

(* A body that starts under an approval is a Run of OneUseApproval.            *)
LEMMA StartsApprovedRuns ==
    ASSUME NEW c, NEW call, Starts(c, call, grantOf[call]), NeedsApproval(call),
           call \in approved, approved' = approved \ {call}, UNCHANGED grantOf
    PROVE  LET g == [id |-> grantOf[call], action |-> call]
           IN  g \in Live /\ Live' = Live \ {g} /\ Spent' = Spent \cup {g}
  <1> DEFINE g == [id |-> grantOf[call], action |-> call]
             new == [ticket |-> ticket', call |-> call, grant |-> grantOf[call],
                     epoch |-> epoch]
  <1>1. g \in Live /\ Live' = Live \ {g}
    BY DEF Live
  <1>2. {x \in executed' : NeedsApproval(x.call)}
          = {x \in executed : NeedsApproval(x.call)} \cup {new}
    BY DEF Starts
  <1>3. [id |-> new.grant, action |-> new.call] = g
    OBVIOUS
  <1> HIDE DEF new, g
  <1>4. Spent' = Spent \cup {g}
    BY <1>2, <1>3 DEF Spent
  <1> QED
    BY <1>1, <1>4 DEF g

(* An approval is a Grant of OneUseApproval.                                   *)
LEMMA ApproveGrants ==
    ASSUME GateInv, NEW call \in Calls, OperatorApproves(call)
    PROVE  LET g == [id |-> given', action |-> call]
           IN  /\ \A h \in Live \cup Spent : h.id # given'
               /\ Live' = Live \cup {g} /\ Spent' = Spent
  <1>1. /\ approved' = approved \cup {call} /\ call \notin approved
        /\ given' = given + 1 /\ grantOf' = [grantOf EXCEPT ![call] = given']
        /\ UNCHANGED executed
    BY DEF OperatorApproves, ApprovePending, GateInv, StoreInv, StoreAgrees
  <1>2. given \in Nat /\ grantOf \in [Calls -> 0..MaxGrants] /\ approved \subseteq Calls
    BY PolicyGateAssumption DEF GateInv, TypeOK
  <1>3. /\ \A a \in approved : grantOf[a] \in 1..given
        /\ \A e \in executed : e.grant <= given /\ e.grant \in Nat
    BY PolicyGateAssumption
    DEF GateInv, StoreInv, ApprovedUnused, GrantsFresh, TypeOK, Executions
  <1>4. \A h \in Live \cup Spent : h.id # given'
    BY <1>1, <1>2, <1>3 DEF Live, Spent
  <1>5. grantOf'[call] = given' /\ \A a \in approved : grantOf'[a] = grantOf[a]
    BY <1>1, <1>2
  <1>6. Live' = Live \cup {[id |-> given', action |-> call]}
    BY <1>1, <1>5 DEF Live
  <1>7. Spent' = Spent
    BY <1>1 DEF Spent
  <1> QED
    BY <1>4, <1>6, <1>7

(* Every step of the gate is a step of OneUseApproval or a stutter.            *)
LEMMA StepImplements ==
    ASSUME GateInv, [Next]_vars
    PROVE  [Approvals!Next]_(Approvals!vars)
  <1> DEFINE AbsLose == Live' \in SUBSET Live /\ Spent' = Spent
             AbsRun == \E g \in Live : Live' = Live \ {g} /\ Spent' = Spent \cup {g}
             AbsGrant == \E id \in 1..MaxGrants, action \in Calls :
                            /\ \A g \in Live \cup Spent : g.id # id
                            /\ Live' = Live \cup {[id |-> id, action |-> action]}
                            /\ Spent' = Spent
  <1>1. AbsLose \/ AbsRun \/ AbsGrant
    <2>1. CASE \E call \in Calls : OperatorApproves(call)
      <3> SUFFICES ASSUME NEW call \in Calls, OperatorApproves(call) PROVE AbsGrant
        BY <2>1
      <3>1. given' \in 1..MaxGrants
        BY PolicyGateAssumption DEF OperatorApproves, GateInv, TypeOK
      <3> QED
        BY <3>1, ApproveGrants
    <2>2. CASE executed' = executed /\ ~\E call \in Calls : OperatorApproves(call)
      <3>1. UNCHANGED <<executed, grantOf>> /\ approved' \subseteq approved
        BY <2>2 DEF Next, vars, store, grantLog, ExecuteRefused, ExecuteFreely, ExecuteApproved,
             ExecuteUnapproved, Evaluates, BodyEnds, BodyCancelled, OperatorDenies, Crash,
             Restart, FreshStore, Consume, Request, DenyPending
      <3> QED
        BY <3>1, LoseOrStutter
    <2>3. CASE executed' # executed
      <3>1. PICK c \in Callers, call \in Calls, grant \in 0..MaxGrants :
              /\ Starts(c, call, grant) /\ UNCHANGED grantOf
              /\ \/ ~NeedsApproval(call) /\ UNCHANGED approved
                 \/ /\ NeedsApproval(call) /\ call \in approved
                    /\ Consume(call) /\ grant = grantOf[call]
        BY <2>3, StartOrNot DEF GateInv, store
      <3> QED
        BY <3>1, StartsFreelyStutters, StartsApprovedRuns DEF Consume
    <2> QED
      BY <2>1, <2>2, <2>3
  <1> QED
    BY <1>1 DEF Live, Spent, Approvals!Next, Approvals!Grant, Approvals!Lose, Approvals!Run,
         Approvals!vars

(* The gate is an implementation of one-use approvals: whatever callers, the   *)
(* operator, failed appends and crashes do, each of its steps grants, loses or *)
(* uses an approval, or none of these.                                         *)
THEOREM GateImplementsOneUse == Spec => ImplementsOneUse
  <1>1. Init => Approvals!Init
    BY DEF Init, Approvals!Init
  <1>2. Spec => [][Approvals!Next]_(Approvals!vars)
    BY StepImplements, GateInvariant, PTL DEF Spec
  <1> QED
    BY <1>1, <1>2, PTL DEF ImplementsOneUse, Approvals!Spec, Spec

-------------------------------------------------------------------------------
(* What evaluate lets through.                                                 *)

(* No refusal applies to a call that reaches the approval check.               *)
LEMMA PassMeansNoRefusal ==
    ASSUME NEW call, StaticCode(call) = "pass"
    PROVE  /\ call.tool = "terminal" => ShellAllowed
           /\ TargetsOf(call) \subseteq Scope
  <1> DEFINE refusals == Refusals(call)
             hits == {i \in DOMAIN refusals : refusals[i].refused}
  <1>1. DOMAIN refusals = 1..7
    BY DEF Refusals
  <1>2. \A i \in 1..7 : refusals[i].code # "pass"
    BY DEF Refusals
  <1>3. hits = {}
    <2> SUFFICES ASSUME hits # {} PROVE FALSE
      OBVIOUS
    <2>1. \E i \in hits : \A j \in hits : i <= j
      <3> HIDE DEF refusals
      <3> QED
        BY <1>1
    <2>2. (CHOOSE i \in hits : \A j \in hits : i <= j) \in 1..7
      BY <1>1, <2>1
    <2>3. StaticCode(call) = refusals[CHOOSE i \in hits : \A j \in hits : i <= j].code
      BY DEF StaticCode
    <2> QED
      BY <1>2, <2>2, <2>3
  <1>4. ~refusals[3].refused /\ ~refusals[6].refused
    BY <1>1, <1>3
  <1> QED
    BY <1>4 DEF Refusals

Passed == \A e \in executed : StaticCode(e.call) = "pass"

(* What a pattern or the opaque-shell rule finds outranks the declaration.     *)
LEMMA OpaqueNeedsApproval ==
    ASSUME NEW call \in Calls, call.tool = "terminal", call.opaque
    PROVE  NeedsApproval(call)
  <1>1. EffectiveTerminalRisk(call) \in ApprovalRequired
    BY PolicyGateAssumption DEF EffectiveTerminalRisk, ApprovalRequired, NoRisk
  <1> QED
    BY <1>1 DEF NeedsApproval, Risk

(* evaluate: a body that runs is inside the scope and the profile of the       *)
(* session, its command's own targets counted, and never an unapproved opaque  *)
(* shell command.                                                              *)
THEOREM BodiesRunWithinPolicy == Spec => []RunsWithinPolicy
  <1>1. Init => Passed
    BY DEF Init, Passed
  <1>2. GateInv /\ Passed /\ [Next]_vars => Passed'
    <2> SUFFICES ASSUME GateInv, Passed, [Next]_vars PROVE Passed'
      OBVIOUS
    <2>1. CASE executed' = executed
      BY <2>1 DEF Passed
    <2>2. ASSUME NEW c, NEW call, NEW grant, Starts(c, call, grant), StaticCode(call) = "pass"
          PROVE  Passed'
      <3> DEFINE new == [ticket |-> ticket', call |-> call, grant |-> grant, epoch |-> epoch]
      <3>1. executed' = executed \cup {new} /\ new.call = call
        BY <2>2 DEF Starts
      <3> HIDE DEF new
      <3> QED
        BY <2>2, <3>1 DEF Passed
    <2> QED
      BY <2>1, <2>2, StartOrNot DEF GateInv
  <1>3. GateInv /\ Passed => RunsWithinPolicy
    <2> SUFFICES ASSUME GateInv, NEW e \in executed, StaticCode(e.call) = "pass"
                 PROVE  /\ TargetsOf(e.call) \subseteq Scope
                        /\ e.call.tool = "terminal" => ShellAllowed
                        /\ e.call.tool = "terminal" /\ e.call.opaque => e.grant # 0
      BY DEF Passed, RunsWithinPolicy, TargetsOf
    <2>1. e.call \in Calls
      BY DEF GateInv, TypeOK, Executions
    <2>2. NeedsApproval(e.call) => e.grant # 0
      BY DEF GateInv, StoreInv, OneUse, TypeOK, Grants
    <2> QED
      BY <2>1, <2>2, PassMeansNoRefusal, OpaqueNeedsApproval
  <1> QED
    BY <1>1, <1>2, <1>3, GateInvariant, PTL DEF Spec
===============================================================================
