--------------------------- MODULE OneUseApproval ----------------------------
(* What the approval gate promises (docs/nixos-workstation.md: "a one-use      *)
(* approval bound to the exact tool, risk, targets, and argument digest"):     *)
(* an operator's grant admits at most one run, of the very action it was given *)
(* for.  Grants may be lost (a crash, a failed audit record); they are never   *)
(* used twice, never transferred, and a run never happens without one.         *)
CONSTANTS
    Ids,        \* grant ids
    Actions     \* fingerprints of actions

VARIABLES
    live,       \* grants not used yet, as records [id, action]
    spent       \* grants that admitted a run

vars == <<live, spent>>

Init == live = {} /\ spent = {}

(* The operator grants an action; an id is never given out again.              *)
Grant(id, action) ==
    /\ \A g \in live \cup spent : g.id # id
    /\ live' = live \cup {[id |-> id, action |-> action]}
    /\ UNCHANGED spent

(* Some grants are lost without having admitted anything.                      *)
Lose == live' \in SUBSET live /\ UNCHANGED spent

(* A grant admits one run and is gone.                                         *)
Run(g) ==
    /\ g \in live
    /\ live' = live \ {g}
    /\ spent' = spent \cup {g}

Next == \/ \E id \in Ids, action \in Actions : Grant(id, action)
        \/ Lose
        \/ \E g \in live : Run(g)

Spec == Init /\ [][Next]_vars
=============================================================================
