------------------------------ MODULE Delegation ------------------------------
(* What a parent agent is promised of the tasks it gives to a child            *)
(* (tools/mcp_agent.py: "a push notification is delivered automatically when   *)
(* the task finishes"): a task that was accepted comes to one outcome, which   *)
(* is reported once, and in the order in which tasks come to their outcomes,   *)
(* unless the child is lost.                                                   *)
EXTENDS Naturals, Sequences

CONSTANTS Tasks, Outcomes

VARIABLES
    open,       \* accepted tasks that have no outcome
    settled,    \* outcomes, as records [task, status], in their order
    reported,   \* how many of them were reported
    lost        \* the child has ended

vars == <<open, settled, reported, lost>>

Init == open = {} /\ settled = <<>> /\ reported = 0 /\ lost = FALSE

IsSettled(t) == \E i \in DOMAIN settled : settled[i].task = t

Accept(t) ==
    /\ ~lost /\ t \notin open /\ ~IsSettled(t)
    /\ open' = open \cup {t}
    /\ UNCHANGED <<settled, reported, lost>>

Settle(t, s) ==
    /\ ~lost /\ t \in open
    /\ open' = open \ {t}
    /\ settled' = Append(settled, [task |-> t, status |-> s])
    /\ UNCHANGED <<reported, lost>>

(* Also after the child has ended: a report may be under way.                  *)
Report ==
    /\ reported < Len(settled)
    /\ reported' = reported + 1
    /\ UNCHANGED <<open, settled, lost>>

Lose == lost' = TRUE /\ UNCHANGED <<open, settled, reported>>

Next ==
    \/ \E t \in Tasks : Accept(t) \/ \E s \in Outcomes : Settle(t, s)
    \/ Report
    \/ Lose

Spec == Init /\ [][Next]_vars
===============================================================================
