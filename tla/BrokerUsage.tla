------------------------------ MODULE BrokerUsage ------------------------------
(* broker.py: what the CloudKeyBroker counts.  Each request for a cloud model  *)
(* is charged by _reserve before it goes upstream: against a rate limit and a  *)
(* daily budget per provider, which a restart must not reset.                  *)
(*                                                                             *)
(* _reserve holds the lock of the broker, and awaits nothing while it does;    *)
(* the lock is therefore always free and _reserve is one step.  Its sizes and  *)
(* token limits are checked before, and change nothing.  The clock is the wall *)
(* clock (time.time): it can be set back.  Money is counted in whole units.    *)
EXTENDS Integers, SequencesExt, Subsequence

CONSTANTS
    Providers,          \* names of the configured providers
    RequestsPerMinute,  \* limits.requests_per_minute
    DailyCost,          \* limits.daily_cost_usd
    Costs,              \* estimated costs a request may have
    Window,             \* the 60 seconds of the rate limit, in ticks
    Skew,               \* the 5 seconds a saved time may be ahead
    DayLength,          \* ticks of a day
    MaxTime,            \* bound: the clock
    MaxRewinds,         \* bound: times the clock is set back
    MaxFaults           \* bound: saves that fail, and crashes

ASSUME BrokerUsageAssumption ==
    /\ RequestsPerMinute \in [Providers -> Nat \ {0}]
    /\ DailyCost \in [Providers -> Nat \ {0}]
    /\ Costs \subseteq Nat
    /\ Window \in Nat /\ Skew \in Nat /\ DayLength \in Nat \ {0}
    /\ MaxTime \in Nat /\ MaxRewinds \in Nat /\ MaxFaults \in Nat

VARIABLES
    up,             \* "up"; "down" after a crash; "refused" if the state did not load
    usage,          \* CloudKeyBroker._usage: for each provider its times, day and cost
    disk,           \* the same, as last saved in usage_state_file
    now,            \* time.time()
    admitted,       \* history: requests let through, as records [time, era], in order
    charged,        \* history: their cost, by provider and day
    rewinds,        \* history: times the clock was set back
    faults          \* history: failed saves and crashes

history == <<admitted, charged>>
vars == <<up, usage, disk, now, admitted, charged, rewinds, faults>>

Days == 1..(MaxTime + 1)
NoDay == 0          \* ""
DayOf(t) == t \div DayLength + 1
Today == DayOf(now)

Account(times, day, cost) == [times |-> times, day |-> day, cost |-> cost]

Fresh == [p \in Providers |-> Account(<<>>, NoDay, 0)]

-------------------------------------------------------------------------------
(* A file that does not exist loads like one that has counted nothing.         *)
Init ==
    /\ up = "up"
    /\ usage = Fresh
    /\ disk = Fresh
    /\ now = 0
    /\ admitted = [p \in Providers |-> <<>>]
    /\ charged = [p \in Providers |-> [d \in Days |-> 0]]
    /\ rewinds = 0
    /\ faults = 0

(* Mutant: a request leaves the window one tick early.                         *)
PrunedEarly(times) == SelectSeq(times, LAMBDA t : t > now - Window)

(* The times at the head of the deque that are out of the window go; one that  *)
(* is still in it keeps all those behind it.                                   *)
Pruned(times) ==
    LET recent == {i \in DOMAIN times : times[i] >= now - Window}
    IN  IF recent = {} THEN <<>>
        ELSE SubSeq(times, CHOOSE i \in recent : \A j \in recent : i <= j, Len(times))

RateReached(p) == Len(Pruned(usage[p].times)) >= RequestsPerMinute[p]

(* The cost on today's account; another day starts from nothing.               *)
CostToday(p) == IF usage[p].day = Today THEN usage[p].cost ELSE 0

OverBudget(p, cost) == CostToday(p) + cost > DailyCost[p]

(* Refused with 429: nothing but the pruning is kept.                          *)
RateLimited(p) ==
    /\ up = "up"
    /\ RateReached(p)
    /\ usage' = [usage EXCEPT ![p] = Account(Pruned(@.times), @.day, @.cost)]
    /\ UNCHANGED <<up, disk, now, history, rewinds, faults>>

(* Refused with 402: the account of a new day is opened, and not saved.        *)
BudgetSpent(p, cost) ==
    /\ up = "up"
    /\ ~RateReached(p)
    /\ OverBudget(p, cost)
    /\ usage' = [usage EXCEPT ![p] = Account(Pruned(@.times), Today, CostToday(p))]
    /\ UNCHANGED <<up, disk, now, history, rewinds, faults>>

Reserves(p, cost) ==
    /\ up = "up"
    /\ ~RateReached(p)
    /\ ~OverBudget(p, cost)
    /\ usage' = [usage EXCEPT ![p] =
                    Account(Append(Pruned(@.times), now), Today, CostToday(p) + cost)]
    /\ UNCHANGED <<now, rewinds>>

(* The request goes upstream.                                                  *)
Admits(p, cost) ==
    /\ admitted' = [admitted EXCEPT ![p] = Append(@, [time |-> now, era |-> rewinds])]
    /\ charged' = [charged EXCEPT ![p][Today] = @ + cost]

(* Mutant: the counters are saved before this request is counted.              *)
AdmitSavesFirst(p, cost) ==
    /\ Reserves(p, cost)
    /\ disk' = usage
    /\ Admits(p, cost)
    /\ UNCHANGED <<up, faults>>

(* _reserve returns: the counters of all providers are saved.                  *)
Admit(p, cost) ==
    /\ Reserves(p, cost)
    /\ disk' = usage'
    /\ Admits(p, cost)
    /\ UNCHANGED <<up, faults>>

(* Mutant: a request that could not be saved is refunded before it is charged.  *)
SaveFailsRefunds(p, cost) ==
    /\ up = "up" /\ ~RateReached(p) /\ ~OverBudget(p, cost)
    /\ faults < MaxFaults
    /\ faults' = faults + 1
    /\ usage' = [usage EXCEPT ![p] = Account(Pruned(@.times), Today, CostToday(p) - cost)]
    /\ disk' \in {disk, usage'}
    /\ UNCHANGED <<up, now, history, rewinds>>

(* Refused with 503: the save fails, before the file is replaced or after it.  *)
(* The request stays counted.                                                  *)
SaveFails(p, cost) ==
    /\ faults < MaxFaults
    /\ faults' = faults + 1
    /\ Reserves(p, cost)
    /\ disk' \in {disk, usage'}
    /\ UNCHANGED <<up, history>>

-------------------------------------------------------------------------------
(* The process dies, and may have just replaced the file.                      *)
Crash ==
    /\ up = "up"
    /\ faults < MaxFaults
    /\ faults' = faults + 1
    /\ up' = "down"
    /\ UNCHANGED <<usage, disk, now, history, rewinds>>

CrashInSave(p, cost) ==
    /\ faults < MaxFaults
    /\ faults' = faults + 1
    /\ Reserves(p, cost)
    /\ up' = "down"
    /\ disk' \in {disk, usage'}
    /\ UNCHANGED history

(* Mutant: the loader takes only times in the past.                            *)
LoadsPastOnly(saved) ==
    \A p \in Providers : \A i \in DOMAIN saved[p].times : saved[p].times[i] < now

(* _load_usage_state accepts the file: no time is too far ahead.               *)
Loads(saved) ==
    \A p \in Providers : \A i \in DOMAIN saved[p].times : saved[p].times[i] <= now + Skew

(* The saved times that are in the window now.                                 *)
Recent(times) == Picked(times, {i \in DOMAIN times : times[i] >= now - Window})

(* Mutant: only the times are restored.                                        *)
RestoredTimes(saved) ==
    [p \in Providers |-> Account(Recent(saved[p].times), NoDay, 0)]

(* What it restores: the recent times, and the account as it was saved.        *)
Restored(saved) ==
    [p \in Providers |-> Account(Recent(saved[p].times), saved[p].day, saved[p].cost)]

(* A new process, after a crash or after one that refused to start.            *)
Start ==
    /\ up # "up"
    /\ IF Loads(disk)
         THEN up' = "up" /\ usage' = Restored(disk)
         ELSE up' = "refused" /\ UNCHANGED usage
    /\ UNCHANGED <<disk, now, history, rewinds, faults>>

-------------------------------------------------------------------------------
(* The clock: it runs, and may be set back.                                    *)

Tick ==
    /\ now < MaxTime
    /\ now' = now + 1
    /\ UNCHANGED <<up, usage, disk, history, rewinds, faults>>

SetBack(t) ==
    /\ rewinds < MaxRewinds
    /\ t < now
    /\ now' = t
    /\ rewinds' = rewinds + 1
    /\ UNCHANGED <<up, usage, disk, history, faults>>

Next ==
    \/ \E p \in Providers : RateLimited(p)
    \/ \E p \in Providers, cost \in Costs :
          \/ BudgetSpent(p, cost) \/ Admit(p, cost)
          \/ SaveFails(p, cost) \/ CrashInSave(p, cost)
    \/ Crash
    \/ Start
    \/ Tick
    \/ \E t \in 0..MaxTime : SetBack(t)

Spec == Init /\ [][Next]_vars

-------------------------------------------------------------------------------
(* Properties.                                                                 *)

(* Every variable has its type.                                                *)
Accounts == [times : Seq(0..MaxTime), day : Days \cup {NoDay}, cost : Nat]

TypeOK ==
    /\ up \in {"up", "down", "refused"}
    /\ usage \in [Providers -> Accounts]
    /\ disk \in [Providers -> Accounts]
    /\ now \in 0..MaxTime
    /\ admitted \in [Providers -> Seq([time : 0..MaxTime, era : 0..MaxRewinds])]
    /\ charged \in [Providers -> [Days -> Nat]]
    /\ rewinds \in 0..MaxRewinds
    /\ faults \in 0..MaxFaults

(* What is admitted on a day costs no more than the daily budget, whatever     *)
(* crashes, failed saves and restarts there were ("the broker cannot reset a   *)
(* daily budget").  Each time the clock is set back can add one more budget,   *)
(* because a day may then be entered again.                                    *)
DailyBudget ==
    \A p \in Providers, d \in Days : charged[p][d] <= (1 + rewinds) * DailyCost[p]

(* At every moment, the file knows of all that was admitted today.             *)
ChargesAreDurable ==
    rewinds = 0 =>
        \A p \in Providers :
            charged[p][Today] > 0 => disk[p].day = Today /\ disk[p].cost >= charged[p][Today]

(* No window of a minute, restarts included, has more admitted requests than   *)
(* the rate limit: the request that comes this many places after another comes *)
(* more than a minute later, or after the clock was set back.                  *)
RateBound ==
    \A p \in Providers : \A i \in DOMAIN admitted[p] :
        LET j == i + RequestsPerMinute[p]
        IN  j \in DOMAIN admitted[p] =>
                \/ admitted[p][j].time - admitted[p][i].time > Window
                \/ admitted[p][j].era # admitted[p][i].era

(* The broker never locks itself out: unless the clock was set back, it starts *)
(* on any state file it wrote.                                                 *)
OwnStateLoads == rewinds = 0 => up # "refused" /\ Loads(disk)
===============================================================================
