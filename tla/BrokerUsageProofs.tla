--------------------------- MODULE BrokerUsageProofs ---------------------------
(* The daily budget and the rate limit of BrokerUsage hold for all limits,      *)
(* costs and clocks, and the broker starts on the files it wrote.               *)
(*                                                                              *)
(* The argument for the budget is an account of what each record of the usage,  *)
(* in memory and on disk, must know.  Of what was admitted on a day, all but    *)
(* one budget for each time the clock was set back is on the record if the day  *)
(* is today, and on no record if the day is still to come.                      *)
EXTENDS BrokerUsage, FiniteSetTheorems, SequenceTheorems, TLAPS

(* The amount a record shows for today.                                         *)
Shown(u) == IF u.day = Today THEN u.cost ELSE 0

IsAccount(u, p) == u.day \in Int /\ u.cost \in 0..DailyCost[p]

(* The types the argument needs: that of the saved times plays no part in it.   *)
Kinds ==
    /\ now \in 0..MaxTime
    /\ rewinds \in Nat
    /\ charged \in [Providers -> [Days -> Nat]]
    /\ DOMAIN usage = Providers /\ usage = [p \in Providers |-> usage[p]]
    /\ \A p \in Providers : IsAccount(usage[p], p) /\ IsAccount(disk[p], p)

(* Nothing but old budgets is charged to the days to come, and nothing that a   *)
(* record does not show to this one.                                            *)
Known(u, p) ==
    /\ \A d \in Days : d > Today => charged[p][d] <= rewinds * DailyCost[p]
    /\ charged[p][Today] <= rewinds * DailyCost[p] + Shown(u)

BudgetInv ==
    /\ Kinds
    /\ \A p \in Providers : Known(usage[p], p) /\ Known(disk[p], p)
    /\ DailyBudget

(* The assumptions on the constants that the arithmetic uses.                   *)
LEMMA Constants ==
    /\ MaxTime \in Nat /\ DayLength \in Nat \ {0}
    /\ Costs \subseteq Nat
    /\ \A p \in Providers : DailyCost[p] \in Nat
  BY BrokerUsageAssumption

(* Quotients: a larger dividend has no smaller one, and none exceeds it.        *)
LEMMA Quotients ==
    ASSUME NEW a \in Nat, NEW b \in Nat, a <= b, NEW n \in Nat \ {0}
    PROVE  a \div n \in Nat /\ a \div n <= b \div n /\ b \div n <= b
  <1>1. a \div n \in Nat /\ b \div n \in Nat
    OBVIOUS
  <1>2. PICK q \in Nat : q = a \div n
    BY <1>1
  <1>3. PICK r \in Nat : r = b \div n
    BY <1>1
  <1>4. n * q <= a /\ a < n * (q + 1) /\ n * r <= b /\ b < n * (r + 1)
    BY <1>2, <1>3
  <1>5. ASSUME q >= r + 1 PROVE FALSE
    BY <1>4, <1>5
  <1>6. r <= n * r
    OBVIOUS
  <1> QED BY <1>2, <1>3, <1>4, <1>5, <1>6

(* One budget more.                                                             *)
LEMMA OneMore ==
    ASSUME NEW n \in Nat, NEW budget \in Nat
    PROVE  (1 + n) * budget = n * budget + budget /\ n * budget \in Nat
  OBVIOUS

(* Days follow the clock.                                                       *)
LEMMA DaysInOrder ==
    ASSUME NEW a \in 0..MaxTime, NEW b \in 0..MaxTime, a <= b
    PROVE  DayOf(a) \in Days /\ DayOf(a) <= DayOf(b)
  <1>1. a \div DayLength \in Nat /\ a \div DayLength <= b \div DayLength
    BY Constants, Quotients
  <1>2. a \div DayLength <= a /\ b \div DayLength \in Nat
    BY Constants, Quotients
  <1> QED BY <1>1, <1>2, Constants DEF DayOf, Days

(* A broker that has counted nothing knows of everything it admitted.          *)
LEMMA InitBudget == Init => BudgetInv
  <1> SUFFICES ASSUME Init PROVE BudgetInv
    OBVIOUS
  <1>1. 0 \in 0..MaxTime /\ DayOf(0) \in Days
    BY Constants, DaysInOrder
  <1>2. Kinds
    BY <1>1, Constants DEF Init, Kinds, IsAccount, Fresh, Account, NoDay
  <1>3. \A p \in Providers : \A d \in Days : charged[p][d] = 0
    BY DEF Init
  <1>4. rewinds = 0 /\ Today \in Days
    BY <1>1 DEF Init, Today
  <1>5. \A p \in Providers : Shown(usage[p]) = 0 /\ Shown(disk[p]) = 0
    BY DEF Init, Fresh, Account, Shown
  <1>6. \A p \in Providers : Known(usage[p], p) /\ Known(disk[p], p)
    BY <1>3, <1>4, <1>5, Constants DEF Known
  <1>7. DailyBudget
    BY <1>3, <1>4, Constants DEF DailyBudget
  <1> QED BY <1>2, <1>6, <1>7 DEF BudgetInv

(* A record of p that shows as much of today as another knows as much.         *)
LEMMA KnownMore ==
    ASSUME NEW u, NEW v, NEW p \in Providers, BudgetInv, Known(u, p),
           Shown(u) \in Int, Shown(v) \in Int, Shown(u) <= Shown(v)
    PROVE  Known(v, p)
  <1>1. rewinds * DailyCost[p] \in Int /\ charged[p][Today] \in Int
    BY Constants, DaysInOrder DEF BudgetInv, Kinds, Today
  <1> QED BY <1>1 DEF Known

(* A reservation opens today's account or adds to it, and stays in the budget. *)
LEMMA ReservesAccount ==
    ASSUME BudgetInv, NEW p \in Providers, NEW cost \in Costs, Reserves(p, cost)
    PROVE  /\ DOMAIN usage' = Providers /\ usage' = [q \in Providers |-> usage'[q]]
           /\ \A q \in Providers : q # p => usage'[q] = usage[q]
           /\ usage'[p].day = Today /\ Today \in Days
           /\ usage'[p].cost = Shown(usage[p]) + cost
           /\ IsAccount(usage'[p], p)
           /\ Shown(usage[p]) \in Nat /\ cost \in Nat
  <1>1. Today \in Days
    BY DaysInOrder DEF BudgetInv, Kinds, Today
  <1>2. /\ usage = [q \in Providers |-> usage[q]]
        /\ usage[p].cost \in 0..DailyCost[p]
        /\ DailyCost[p] \in Nat /\ cost \in Nat
    BY Constants DEF BudgetInv, Kinds, IsAccount
  <1>3. Shown(usage[p]) = CostToday(p) /\ CostToday(p) \in Nat
    BY <1>2 DEF Shown, CostToday
  <1> DEFINE new == Account(Append(Pruned(usage[p].times), now), Today, CostToday(p) + cost)
  <1>4. usage' = [usage EXCEPT ![p] = new]
    BY DEF Reserves
  <1>5. new.day = Today /\ new.cost = CostToday(p) + cost
    BY DEF Account
  <1> HIDE DEF new
  <1>6. usage'[p] = new /\ \A q \in Providers : q # p => usage'[q] = usage[q]
    BY <1>2, <1>4
  <1>7. DOMAIN usage' = Providers /\ usage' = [q \in Providers |-> usage'[q]]
    BY <1>2, <1>4
  <1>8. CostToday(p) + cost <= DailyCost[p]
    BY <1>2, <1>3 DEF Reserves, OverBudget
  <1>9. IsAccount(new, p)
    BY <1>1, <1>2, <1>3, <1>5, <1>8, Constants DEF IsAccount, Days
  <1> QED BY <1>1, <1>2, <1>3, <1>5, <1>6, <1>7, <1>9

(* A reservation that is not admitted, whether or not it is saved.             *)
LEMMA ReservesKeepsInv ==
    ASSUME BudgetInv, NEW p \in Providers, NEW cost \in Costs, Reserves(p, cost),
           disk' \in {disk, usage'}, UNCHANGED history
    PROVE  BudgetInv'
  <1>1. UNCHANGED <<now, rewinds, charged>>
    BY DEF Reserves, history
  <1>2. Today' = Today
    BY <1>1 DEF Today, DayOf
  <1>3. \A q \in Providers : IsAccount(usage'[q], q)
    BY ReservesAccount DEF BudgetInv, Kinds
  <1>4. \A q \in Providers : IsAccount(disk'[q], q)
    BY <1>3 DEF BudgetInv, Kinds
  <1>5. Kinds'
    BY <1>1, <1>3, <1>4, ReservesAccount DEF BudgetInv, Kinds, IsAccount
  <1>6. \A q \in Providers : Known(usage'[q], q)
    <2> SUFFICES ASSUME NEW q \in Providers PROVE Known(usage'[q], q)
      OBVIOUS
    <2>1. Shown(usage[q]) \in Int /\ Shown(usage'[q]) \in Int
      BY <1>3, Constants DEF BudgetInv, Kinds, Shown, IsAccount
    <2>2. Shown(usage[q]) <= Shown(usage'[q])
      BY <2>1, ReservesAccount DEF Shown
    <2> QED BY <2>1, <2>2, KnownMore DEF BudgetInv
  <1>7. \A q \in Providers : Known(disk'[q], q)
    BY <1>6 DEF BudgetInv
  <1>8. \A q \in Providers : Known(usage[q], q)' /\ Known(disk[q], q)'
    BY <1>1, <1>2, <1>6, <1>7 DEF Known, Shown
  <1>9. DailyBudget'
    BY <1>1 DEF BudgetInv, DailyBudget
  <1> QED BY <1>5, <1>8, <1>9 DEF BudgetInv

(* An admitted request is on the records before it is charged to the history.  *)
LEMMA AdmitKeepsInv ==
    ASSUME BudgetInv, NEW p \in Providers, NEW cost \in Costs, Admit(p, cost)
    PROVE  BudgetInv'
  <1>1. /\ UNCHANGED <<now, rewinds>> /\ disk' = usage' /\ Reserves(p, cost)
        /\ charged' = [charged EXCEPT ![p][Today] = @ + cost]
    BY DEF Admit, Admits, Reserves
  <1>2. Today' = Today /\ Today \in Days /\ cost \in Nat
    BY <1>1, ReservesAccount DEF Today, DayOf
  <1>3. /\ charged' \in [Providers -> [Days -> Nat]]
        /\ charged'[p][Today] = charged[p][Today] + cost
        /\ \A q \in Providers, d \in Days :
              q # p \/ d # Today => charged'[q][d] = charged[q][d]
    BY <1>1, <1>2 DEF BudgetInv, Kinds
  <1>4. \A q \in Providers : IsAccount(usage'[q], q)
    BY <1>1, ReservesAccount DEF BudgetInv, Kinds
  <1>5. Kinds'
    BY <1>1, <1>3, <1>4, ReservesAccount DEF BudgetInv, Kinds, IsAccount
  <1>6. \A q \in Providers : Known(usage[q], q)'
    <2> SUFFICES ASSUME NEW q \in Providers PROVE Known(usage[q], q)'
      OBVIOUS
    <2>1. Known(usage[q], q) /\ rewinds * DailyCost[q] \in Int
      BY Constants DEF BudgetInv, Kinds
    <2>2. ASSUME NEW d \in Days, d > Today PROVE charged'[q][d] <= rewinds * DailyCost[q]
      BY <1>2, <1>3, <2>1, <2>2 DEF Known, Days
    <2>3. charged'[q][Today] <= rewinds * DailyCost[q] + Shown(usage'[q])
      <3>1. CASE q = p
        <4>1. Shown(usage'[p]) = Shown(usage[p]) + cost /\ Shown(usage[p]) \in Nat
          BY <1>1, ReservesAccount DEF Shown
        <4>2. charged[p][Today] \in Nat
          BY <1>2 DEF BudgetInv, Kinds
        <4> QED BY <1>2, <1>3, <2>1, <3>1, <4>1, <4>2 DEF Known
      <3>2. CASE q # p
        <4>1. usage'[q] = usage[q] /\ charged'[q][Today] = charged[q][Today]
          BY <1>1, <1>2, <1>3, <3>2, ReservesAccount
        <4> QED BY <2>1, <4>1 DEF Known
      <3> QED BY <3>1, <3>2
    <2> QED BY <1>1, <1>2, <2>2, <2>3 DEF Known, Shown
  <1>7. \A q \in Providers : Known(disk[q], q)' /\ Known(usage[q], q)'
    BY <1>1, <1>6
  <1>8. DailyBudget'
    <2> SUFFICES ASSUME NEW q \in Providers, NEW d \in Days
                 PROVE  charged'[q][d] <= (1 + rewinds) * DailyCost[q]
      BY <1>1 DEF DailyBudget
    <2>1. CASE q = p /\ d = Today
      <3>1. Shown(usage'[p]) = usage'[p].cost /\ usage'[p].cost \in 0..DailyCost[p]
        BY <1>1, <1>4, ReservesAccount DEF Shown, IsAccount
      <3>2. charged'[p][Today] <= rewinds * DailyCost[p] + Shown(usage'[p])
        BY <1>1, <1>2, <1>6 DEF Known, Shown
      <3>3. DailyCost[p] \in Nat /\ rewinds \in Nat /\ charged'[p][Today] \in Nat
        BY <1>2, <1>3, Constants DEF BudgetInv, Kinds
      <3>4. /\ (1 + rewinds) * DailyCost[p] = rewinds * DailyCost[p] + DailyCost[p]
            /\ rewinds * DailyCost[p] \in Nat
        BY <3>3, OneMore
      <3> QED BY <2>1, <3>1, <3>2, <3>3, <3>4
    <2>2. CASE ~(q = p /\ d = Today)
      BY <1>3, <2>2 DEF BudgetInv, DailyBudget
    <2> QED BY <2>1, <2>2
  <1> QED BY <1>5, <1>7, <1>8 DEF BudgetInv

(* A change of the records, of which each shows no less than some record did.  *)
LEMMA RecordsKeepInv ==
    ASSUME BudgetInv, UNCHANGED <<now, rewinds, charged>>,
           DOMAIN usage' = Providers /\ usage' = [p \in Providers |-> usage'[p]],
           \A p \in Providers :
              /\ IsAccount(usage'[p], p) /\ IsAccount(disk'[p], p)
              /\ \E u \in {usage[p], disk[p]} : Shown(u) <= Shown(usage'[p])
              /\ \E u \in {usage[p], disk[p]} : Shown(u) <= Shown(disk'[p])
    PROVE  BudgetInv'
  <1>1. Today' = Today
    BY DEF Today, DayOf
  <1>2. Kinds'
    BY DEF BudgetInv, Kinds, IsAccount
  <1>3. \A p \in Providers : Known(usage'[p], p) /\ Known(disk'[p], p)
    <2> SUFFICES ASSUME NEW p \in Providers PROVE Known(usage'[p], p) /\ Known(disk'[p], p)
      OBVIOUS
    <2>1. /\ Shown(usage[p]) \in Int /\ Shown(usage'[p]) \in Int
          /\ Shown(disk[p]) \in Int /\ Shown(disk'[p]) \in Int
      BY Constants DEF BudgetInv, Kinds, Shown, IsAccount
    <2> QED BY <2>1, KnownMore DEF BudgetInv
  <1>4. \A p \in Providers : Known(usage[p], p)' /\ Known(disk[p], p)'
    BY <1>1, <1>3 DEF Known, Shown
  <1>5. DailyBudget'
    BY DEF BudgetInv, DailyBudget
  <1> QED BY <1>2, <1>4, <1>5 DEF BudgetInv

(* A refusal changes one record and what it shows not at all.                  *)
LEMMA RefusalKeepsInv ==
    ASSUME BudgetInv, NEW p \in Providers, NEW times, NEW day, NEW cost,
           usage' = [usage EXCEPT ![p] = Account(times, day, cost)],
           IsAccount(Account(times, day, cost), p),
           Shown(usage[p]) = Shown(Account(times, day, cost)),
           UNCHANGED <<disk, now, rewinds, charged>>
    PROVE  BudgetInv'
  <1>1. /\ usage' = [q \in Providers |-> usage'[q]] /\ DOMAIN usage' = Providers
        /\ usage'[p] = Account(times, day, cost)
        /\ \A q \in Providers : q # p => usage'[q] = usage[q]
    BY DEF BudgetInv, Kinds
  <1>2. \A q \in Providers : IsAccount(usage'[q], q) /\ IsAccount(disk'[q], q)
    BY <1>1 DEF BudgetInv, Kinds
  <1>3. \A q \in Providers : /\ Shown(usage[q]) \in Int /\ Shown(disk[q]) \in Int
                             /\ Shown(usage'[q]) \in Int
    BY <1>2, Constants DEF BudgetInv, Kinds, Shown, IsAccount
  <1>4. \A q \in Providers : /\ Shown(usage[q]) <= Shown(usage'[q])
                             /\ Shown(disk[q]) <= Shown(disk'[q])
    BY <1>1, <1>3
  <1> QED BY <1>1, <1>2, <1>4, RecordsKeepInv

(* A restart copies the account of the file, whose times do not matter.        *)
LEMMA StartKeepsInv == ASSUME BudgetInv, Start PROVE BudgetInv'
  <1>1. UNCHANGED <<disk, now, rewinds, charged>>
    BY DEF Start, history
  <1>2. CASE UNCHANGED usage
    <2>1. \A p \in Providers : Shown(usage[p]) \in Int /\ Shown(disk[p]) \in Int
      BY Constants DEF BudgetInv, Kinds, Shown, IsAccount
    <2> QED BY <1>1, <1>2, <2>1, RecordsKeepInv DEF BudgetInv, Kinds
  <1>3. CASE usage' = Restored(disk)
    <2>1. \A p \in Providers : usage'[p].day = disk[p].day /\ usage'[p].cost = disk[p].cost
      BY <1>3 DEF Restored, Account
    <2>2. DOMAIN usage' = Providers /\ usage' = [p \in Providers |-> usage'[p]]
      BY <1>3 DEF Restored
    <2>3. \A p \in Providers : /\ IsAccount(usage'[p], p) /\ IsAccount(disk'[p], p)
                               /\ Shown(usage'[p]) = Shown(disk[p])
                               /\ Shown(disk[p]) \in Int
      BY <1>1, <2>1, Constants DEF BudgetInv, Kinds, Shown, IsAccount
    <2>4. \A p \in Providers : /\ Shown(disk[p]) <= Shown(usage'[p])
                               /\ Shown(disk[p]) <= Shown(disk'[p])
      BY <1>1, <2>3
    <2> QED BY <1>1, <2>2, <2>3, <2>4, RecordsKeepInv
  <1> QED BY <1>2, <1>3 DEF Start

(* A day that begins was still to come.                                        *)
LEMMA TickKeepsInv == ASSUME BudgetInv, Tick PROVE BudgetInv'
  <1>1. /\ UNCHANGED <<usage, disk, charged, rewinds>> /\ now \in 0..MaxTime
        /\ now' \in 0..MaxTime /\ now <= now'
    BY Constants DEF Tick, history, BudgetInv, Kinds
  <1>2. Today \in Days /\ Today' \in Days /\ Today <= Today'
    BY <1>1, DaysInOrder DEF Today
  <1>3. Days \subseteq Int
    BY Constants DEF Days
  <1>4. Kinds'
    BY <1>1 DEF BudgetInv, Kinds, IsAccount
  <1>5. ASSUME NEW p \in Providers, NEW u, Known(u, p), IsAccount(u, p)
        PROVE  /\ \A d \in Days : d > Today' => charged'[p][d] <= rewinds' * DailyCost[p]
               /\ charged'[p][Today'] <= rewinds' * DailyCost[p]
                                           + (IF u.day = Today' THEN u.cost ELSE 0)
    <2>1. rewinds * DailyCost[p] \in Int /\ charged[p] \in [Days -> Nat]
      BY Constants DEF BudgetInv, Kinds
    <2>2. \A d \in Days : d > Today => charged[p][d] <= rewinds * DailyCost[p]
      BY <1>5 DEF Known
    <2>3. u.cost \in Nat
      BY <1>5, Constants DEF IsAccount
    <2>4. \A d \in Days : d > Today' => d > Today
      BY <1>2, <1>3
    <2>5. CASE Today' = Today
      BY <1>1, <1>5, <2>2, <2>5 DEF Known, Shown
    <2>6. CASE Today' # Today
      <3>1. Today' > Today
        BY <1>2, <1>3, <2>6
      <3>2. charged[p][Today'] <= rewinds * DailyCost[p] /\ charged[p][Today'] \in Nat
        BY <1>2, <2>1, <2>2, <3>1
      <3>3. charged'[p][Today'] <= rewinds' * DailyCost[p]
                                     + (IF u.day = Today' THEN u.cost ELSE 0)
        BY <1>1, <2>1, <2>3, <3>2
      <3> QED BY <1>1, <2>2, <2>4, <3>3
    <2> QED BY <2>5, <2>6
  <1>6. \A p \in Providers : Known(usage[p], p)' /\ Known(disk[p], p)'
    BY <1>1, <1>5 DEF BudgetInv, Kinds, Known, Shown
  <1>7. DailyBudget'
    BY <1>1 DEF BudgetInv, DailyBudget
  <1> QED BY <1>4, <1>6, <1>7 DEF BudgetInv

(* A clock set back makes room for one more budget on every day.               *)
LEMMA SetBackKeepsInv ==
    ASSUME BudgetInv, NEW t \in 0..MaxTime, SetBack(t) PROVE BudgetInv'
  <1>1. /\ UNCHANGED <<usage, disk, charged>> /\ now' \in 0..MaxTime
        /\ rewinds \in Nat /\ rewinds' = rewinds + 1
    BY DEF SetBack, history, BudgetInv, Kinds
  <1>2. Today' \in Days
    BY <1>1, DaysInOrder DEF Today, DayOf
  <1>3. Kinds'
    BY <1>1 DEF BudgetInv, Kinds, IsAccount
  <1>4. ASSUME NEW p \in Providers
        PROVE  /\ rewinds' * DailyCost[p] = (1 + rewinds) * DailyCost[p]
               /\ rewinds' * DailyCost[p] \in Nat
               /\ rewinds' * DailyCost[p] <= (1 + rewinds') * DailyCost[p]
    <2>1. DailyCost[p] \in Nat /\ rewinds' \in Nat /\ rewinds' = 1 + rewinds
      BY <1>1, Constants
    <2> QED BY <2>1, OneMore
  <1>5. \A p \in Providers, d \in Days : charged'[p][d] <= rewinds' * DailyCost[p]
    BY <1>1, <1>4 DEF BudgetInv, DailyBudget
  <1>6. \A p \in Providers, d \in Days : charged'[p][d] \in Nat
    BY <1>1 DEF BudgetInv, Kinds
  <1>7. ASSUME NEW p \in Providers PROVE Known(usage[p], p)' /\ Known(disk[p], p)'
    <2>1. Shown(usage[p])' \in Nat /\ Shown(disk[p])' \in Nat
      BY <1>1, Constants DEF BudgetInv, Kinds, Shown, IsAccount
    <2> QED BY <1>2, <1>4, <1>5, <1>6, <2>1 DEF Known
  <1>8. DailyBudget'
    <2> SUFFICES ASSUME NEW p \in Providers, NEW d \in Days
                 PROVE  charged'[p][d] <= (1 + rewinds') * DailyCost[p]
      BY DEF DailyBudget
    <2>1. DailyCost[p] \in Nat /\ rewinds' \in Nat
      BY <1>1, Constants
    <2>2. (1 + rewinds') * DailyCost[p] \in Nat
      BY <2>1, OneMore
    <2> QED BY <1>4, <1>5, <1>6, <2>2
  <1> QED BY <1>3, <1>7, <1>8 DEF BudgetInv

(* Every step of the broker, its faults and its clock keeps the account.       *)
LEMMA BudgetStep == BudgetInv /\ [Next]_vars => BudgetInv'
  <1> SUFFICES ASSUME BudgetInv, [Next]_vars PROVE BudgetInv'
    OBVIOUS
  <1>1. ASSUME NEW p \in Providers, RateLimited(p) PROVE BudgetInv'
    <2>1. usage' = [usage EXCEPT ![p] =
                      Account(Pruned(usage[p].times), usage[p].day, usage[p].cost)]
      BY <1>1 DEF RateLimited
    <2>2. /\ IsAccount(Account(Pruned(usage[p].times), usage[p].day, usage[p].cost), p)
          /\ Shown(usage[p]) =
               Shown(Account(Pruned(usage[p].times), usage[p].day, usage[p].cost))
      BY DEF BudgetInv, Kinds, IsAccount, Account, Shown
    <2> QED BY <1>1, <2>1, <2>2, RefusalKeepsInv DEF RateLimited, history
  <1>2. ASSUME NEW p \in Providers, NEW cost \in Costs, BudgetSpent(p, cost) PROVE BudgetInv'
    <2>1. usage' = [usage EXCEPT ![p] =
                      Account(Pruned(usage[p].times), Today, CostToday(p))]
      BY <1>2 DEF BudgetSpent
    <2>2. Today \in Int
      BY DaysInOrder DEF BudgetInv, Kinds, Today, Days
    <2>3. /\ IsAccount(Account(Pruned(usage[p].times), Today, CostToday(p)), p)
          /\ Shown(usage[p]) = Shown(Account(Pruned(usage[p].times), Today, CostToday(p)))
      BY <2>2, Constants DEF BudgetInv, Kinds, IsAccount, Account, Shown, CostToday
    <2> QED BY <1>2, <2>1, <2>3, RefusalKeepsInv DEF BudgetSpent, history
  <1>3. ASSUME NEW p \in Providers, NEW cost \in Costs, Admit(p, cost) PROVE BudgetInv'
    BY <1>3, AdmitKeepsInv
  <1>4. ASSUME NEW p \in Providers, NEW cost \in Costs,
               SaveFails(p, cost) \/ CrashInSave(p, cost)
        PROVE  BudgetInv'
    BY <1>4, ReservesKeepsInv DEF SaveFails, CrashInSave
  <1>5. CASE Crash
    BY <1>5 DEF Crash, history, BudgetInv, Kinds, IsAccount, Known, Shown, Today, DayOf, DailyBudget
  <1>6. CASE Start
    BY <1>6, StartKeepsInv
  <1>7. CASE Tick
    BY <1>7, TickKeepsInv
  <1>8. ASSUME NEW t \in 0..MaxTime, SetBack(t) PROVE BudgetInv'
    BY <1>8, SetBackKeepsInv
  <1>9. CASE UNCHANGED vars
    BY <1>9 DEF vars, history, BudgetInv, Kinds, IsAccount, Known, Shown, Today, DayOf, DailyBudget
  <1> QED BY <1>1, <1>2, <1>3, <1>4, <1>5, <1>6, <1>7, <1>8, <1>9 DEF Next

(* The account always holds.                                                   *)
THEOREM BudgetInvariant == Spec => []BudgetInv
  BY InitBudget, BudgetStep, PTL DEF Spec

(* The daily budget survives crashes, failed saves and restarts (broker.py,    *)
(* _reserve and _load_usage_state), for every limit and number of providers.   *)
THEOREM BudgetIsKept == Spec => []DailyBudget
  <1>1. BudgetInv => DailyBudget
    BY DEF BudgetInv
  <1> QED BY <1>1, BudgetInvariant, PTL

(* The usage file always covers what was admitted today.                       *)
THEOREM ChargesReachDisk == Spec => []ChargesAreDurable
  <1>1. BudgetInv => ChargesAreDurable
    <2> SUFFICES ASSUME BudgetInv, rewinds = 0, NEW p \in Providers, charged[p][Today] > 0
                 PROVE  disk[p].day = Today /\ disk[p].cost >= charged[p][Today]
      BY DEF ChargesAreDurable
    <2>1. /\ charged[p][Today] \in Nat /\ DailyCost[p] \in Nat
          /\ charged[p][Today] <= rewinds * DailyCost[p] + Shown(disk[p])
      BY DaysInOrder, Constants DEF BudgetInv, Kinds, Today, Known
    <2>2. rewinds * DailyCost[p] = 0
      BY <2>1
    <2>3. disk[p].cost \in Nat
      BY Constants DEF BudgetInv, Kinds, IsAccount
    <2> QED BY <2>1, <2>2, <2>3 DEF Shown
  <1> QED BY <1>1, BudgetInvariant, PTL

-------------------------------------------------------------------------------
(* Subsequences by their positions (Subsequence), and least elements.           *)

(* The positions of a finite set have the places 1, 2, ... in order.            *)
LEMMA Ranks ==
    ASSUME NEW S, IsFiniteSet(S), S \subseteq Nat
    PROVE  /\ Cardinality(S) \in Nat
           /\ \A i \in S : Rank(i, S) \in 1..Cardinality(S)
           /\ \A i, j \in S : i < j => Rank(i, S) < Rank(j, S)
  <1> DEFINE UpTo(i) == {j \in S : j <= i}
  <1>1. \A i \in S : IsFiniteSet(UpTo(i)) /\ Cardinality(UpTo(i)) <= Cardinality(S)
    BY FS_Subset
  <1>2. \A i \in S : Cardinality(UpTo(i)) \in Nat /\ Cardinality(UpTo(i)) # 0
    <2>1. \A i \in S : UpTo(i) # {}
      OBVIOUS
    <2> QED BY <1>1, <2>1, FS_CardinalityType, FS_EmptySet
  <1>3. Cardinality(S) \in Nat
    BY FS_CardinalityType
  <1>4. ASSUME NEW i \in S, NEW j \in S, i < j
        PROVE  Cardinality(UpTo(i)) < Cardinality(UpTo(j))
    <2>1. \A k \in S : k \in Nat
      OBVIOUS
    <2>2. \A k \in S : k <= i => k <= j
      BY <1>4, <2>1
    <2>3. j <= j /\ ~(j <= i)
      BY <1>4, <2>1
    <2>4. UpTo(i) \in SUBSET UpTo(j)
      BY <2>2
    <2>5. UpTo(i) # UpTo(j)
      BY <2>3
    <2> HIDE DEF UpTo
    <2>6. /\ Cardinality(UpTo(i)) <= Cardinality(UpTo(j))
          /\ Cardinality(UpTo(i)) # Cardinality(UpTo(j))
      BY <1>1, <2>4, <2>5, FS_Subset
    <2> QED BY <1>2, <2>6
  <1> QED BY <1>1, <1>2, <1>3, <1>4 DEF Rank

(* Each place is the place of one position.                                     *)
LEMMA Places ==
    ASSUME NEW S, IsFiniteSet(S), S \subseteq Nat
    PROVE  /\ \A i \in S : (CHOOSE j \in S : Rank(j, S) = Rank(i, S)) = i
           /\ \A k \in 1..Cardinality(S) : \E i \in S : Rank(i, S) = k
  <1> DEFINE place == [i \in S |-> Rank(i, S)]
  <1>1. \A i, j \in S : Rank(i, S) = Rank(j, S) => i = j
    <2> SUFFICES ASSUME NEW i \in S, NEW j \in S, Rank(i, S) = Rank(j, S), i # j
                 PROVE  FALSE
      OBVIOUS
    <2>1. i \in Nat /\ j \in Nat
      OBVIOUS
    <2>2. i < j \/ j < i
      BY <2>1
    <2>3. Rank(i, S) \in 1..Cardinality(S) /\ Rank(j, S) \in 1..Cardinality(S)
      BY Ranks
    <2>4. Rank(i, S) < Rank(j, S) \/ Rank(j, S) < Rank(i, S)
      BY <2>2, Ranks
    <2>5. Cardinality(S) \in Nat
      BY Ranks
    <2> HIDE DEF Rank
    <2> QED BY <2>3, <2>4, <2>5
  <1>2. place \in Injection(S, 1..Cardinality(S))
    <2>1. place \in [S -> 1..Cardinality(S)]
      BY Ranks
    <2>2. \A i, j \in S : place[i] = place[j] => i = j
      BY <1>1
    <2> QED BY <2>1, <2>2 DEF Injection, IsInjective
  <1>3. /\ IsFiniteSet(1..Cardinality(S))
        /\ Cardinality(1..Cardinality(S)) = Cardinality(S)
    <2>1. Cardinality(S) \in Nat
      BY Ranks
    <2>2. 1 \in Int /\ Cardinality(S) \in Int
      BY <2>1
    <2>3. /\ IsFiniteSet(1..Cardinality(S))
          /\ Cardinality(1..Cardinality(S)) =
                IF 1 > Cardinality(S) THEN 0 ELSE Cardinality(S) - 1 + 1
      BY <2>2, FS_Interval
    <2> QED BY <2>1, <2>3
  <1>4. place \in Surjection(S, 1..Cardinality(S))
    <2> HIDE DEF place
    <2> QED BY <1>2, <1>3, FS_Injection
  <1>5. \A k \in 1..Cardinality(S) : \E i \in S : Rank(i, S) = k
    BY <1>4 DEF Surjection
  <1>6. ASSUME NEW i \in S PROVE (CHOOSE j \in S : Rank(j, S) = Rank(i, S)) = i
    <2>1. \A j \in S : Rank(j, S) = Rank(i, S) => j = i
      BY <1>1
    <2> QED BY <2>1
  <1> QED BY <1>5, <1>6

(* A subsequence has the elements at its positions and no others.               *)
LEMMA PickedElements ==
    ASSUME NEW s, NEW S, IsFiniteSet(S), S \subseteq Nat
    PROVE  /\ DOMAIN Picked(s, S) = 1..Cardinality(S) /\ Cardinality(S) \in Nat
           /\ Picked(s, S) = [k \in 1..Cardinality(S) |-> Picked(s, S)[k]]
           /\ \A i \in S : Picked(s, S)[Rank(i, S)] = s[i]
           /\ \A k \in 1..Cardinality(S) :
                 \E i \in S : Rank(i, S) = k /\ Picked(s, S)[k] = s[i]
  <1>1. Cardinality(S) \in Nat /\ \A i \in S : Rank(i, S) \in 1..Cardinality(S)
    BY Ranks
  <1>2. \A i \in S : Picked(s, S)[Rank(i, S)] = s[i]
    BY <1>1, Places DEF Picked
  <1>3. \A k \in 1..Cardinality(S) : \E i \in S : Rank(i, S) = k /\ Picked(s, S)[k] = s[i]
    <2>1. \A k \in 1..Cardinality(S) : \E i \in S : Rank(i, S) = k
      BY Places
    <2> QED BY <1>2, <2>1
  <1> QED BY <1>1, <1>2, <1>3 DEF Picked

(* A set of naturals that is not empty has a least element.                     *)
LEMMA Least ==
    ASSUME NEW S, S \subseteq Nat, S # {}
    PROVE  \E i \in S : \A j \in S : i <= j
  <1>1. PICK i \in S : \A j \in S : ~(<<j, i>> \in OpToRel(<, Nat))
    BY NatLessThanWellFounded, WFMin
  <1>2. \A j \in S : ~(j < i)
    BY <1>1 DEF OpToRel
  <1> QED BY <1>2

-------------------------------------------------------------------------------
(* The rate limit.  A record of the usage must have the time of every request   *)
(* that was admitted in the last window, each in a place of its own: then a     *)
(* window with as many requests as the limit lets no other in.  Once the clock  *)
(* is set back, only what was admitted since can be told from the times.        *)

(* The requests to p in the window that ends now.                               *)
InWindow(p) ==
    {k \in DOMAIN admitted[p] : /\ admitted[p][k].era = rewinds
                                /\ admitted[p][k].time >= now - Window}

(* Each request of W among those of a has a place of its own in times.          *)
Covers(times, W, a) ==
    \E g \in [W -> DOMAIN times] :
        /\ \A k, l \in W : g[k] = g[l] => k = l
        /\ \A k \in W : times[g[k]] = a[k].time

(* What holds of the times of a record of p, in memory or on disk.              *)
Remembers(times, p) ==
    /\ Covers(times, InWindow(p), admitted[p])
    /\ rewinds = 0 => \A i \in DOMAIN times : times[i] <= now

(* The history is in the order of the clock, from one setting to the next.      *)
InOrder(p) ==
    \A j \in DOMAIN admitted[p] :
        /\ admitted[p][j].era <= rewinds
        /\ admitted[p][j].era = rewinds => admitted[p][j].time <= now
        /\ \A i \in DOMAIN admitted[p] :
              i <= j => /\ admitted[p][i].era <= admitted[p][j].era
                        /\ admitted[p][i].era = admitted[p][j].era =>
                              admitted[p][i].time <= admitted[p][j].time

RateInv ==
    /\ TypeOK
    /\ \A p \in Providers : /\ Remembers(usage[p].times, p)
                            /\ Remembers(disk[p].times, p)
                            /\ InOrder(p)
    /\ rewinds = 0 => up # "refused"
    /\ RateBound

(* The assumptions on the constants that the argument uses.                     *)
LEMMA RateConstants ==
    /\ MaxTime \in Nat /\ Window \in Nat /\ Skew \in Nat /\ Costs \subseteq Nat
    /\ MaxRewinds \in Nat /\ MaxFaults \in Nat
    /\ \A p \in Providers : RequestsPerMinute[p] \in Nat /\ RequestsPerMinute[p] >= 1
  BY BrokerUsageAssumption

(* What is pruned from the head of the times is out of the window.              *)
LEMMA PrunedTimes ==
    ASSUME NEW T, NEW times \in Seq(T)
    PROVE  /\ Pruned(times) \in Seq(T)
           /\ \E d \in Nat : /\ Len(Pruned(times)) = Len(times) - d
                             /\ \A m \in 1..Len(Pruned(times)) : Pruned(times)[m] = times[m + d]
                             /\ \A i \in DOMAIN times : times[i] >= now - Window => i > d
  <1> DEFINE recent == {i \in DOMAIN times : times[i] >= now - Window}
  <1> DEFINE first == CHOOSE i \in recent : \A j \in recent : i <= j
  <1>1. CASE recent = {}
    <2>1. Pruned(times) = <<>>
      BY <1>1 DEF Pruned
    <2>2. \A i \in DOMAIN times : ~(times[i] >= now - Window)
      BY <1>1
    <2>3. Len(times) \in Nat
      OBVIOUS
    <2> QED BY <2>1, <2>2, <2>3
  <1>2. CASE recent # {}
    <2>1. recent \subseteq Nat
      OBVIOUS
    <2>2. \E i \in recent : \A j \in recent : i <= j
      <3> HIDE DEF recent
      <3> QED BY <1>2, <2>1, Least
    <2>3. first \in recent /\ \A j \in recent : first <= j
      BY <2>2
    <2>4. Pruned(times) = SubSeq(times, first, Len(times))
      BY <1>2 DEF Pruned
    <2>5. first \in 1..Len(times) /\ \A i \in DOMAIN times : times[i] >= now - Window => first <= i
      BY <2>3
    <2> HIDE DEF first, recent
    <2>6. /\ Pruned(times) \in Seq(T)
          /\ Len(Pruned(times)) = Len(times) - (first - 1)
          /\ \A m \in 1..Len(Pruned(times)) : Pruned(times)[m] = times[m + (first - 1)]
      <3>1. /\ Len(times) \in Int /\ first \in Int /\ first <= Len(times)
            /\ \A i \in first..Len(times) : times[i] \in T
        BY <2>5, LenProperties, ElementOfSeq
      <3>2. /\ Pruned(times) \in Seq(T)
            /\ Len(Pruned(times)) = IF first <= Len(times) THEN Len(times) - first + 1 ELSE 0
            /\ \A i \in 1..Len(times) - first + 1 : Pruned(times)[i] = times[first + i - 1]
        BY <2>4, <3>1, SubSeqProperties
      <3>3. Len(Pruned(times)) = Len(times) - first + 1
        BY <3>1, <3>2
      <3>4. \A m \in 1..Len(Pruned(times)) : m + (first - 1) = first + m - 1
        BY <3>1, <3>3
      <3> QED BY <3>1, <3>2, <3>3, <3>4
    <2>7. /\ first - 1 \in Nat
          /\ \A i \in DOMAIN times : times[i] >= now - Window => i > first - 1
      BY <2>5
    <2> QED BY <2>6, <2>7
  <1> QED BY <1>1, <1>2

(* The times a restart keeps are those in the window.                           *)
LEMMA RecentTimes ==
    ASSUME NEW T, NEW times \in Seq(T)
    PROVE  /\ Recent(times) \in Seq(T)
           /\ \A m \in DOMAIN Recent(times) : \E i \in DOMAIN times : Recent(times)[m] = times[i]
           /\ \E g \in [{i \in DOMAIN times : times[i] >= now - Window} -> DOMAIN Recent(times)] :
                 /\ \A i, j \in {k \in DOMAIN times : times[k] >= now - Window} :
                       g[i] = g[j] => i = j
                 /\ \A i \in {k \in DOMAIN times : times[k] >= now - Window} :
                       Recent(times)[g[i]] = times[i]
  <1> DEFINE kept == {i \in DOMAIN times : times[i] >= now - Window}
  <1>1. IsFiniteSet(kept) /\ kept \subseteq Nat
    <2>1. Len(times) \in Int /\ 1 \in Int
      BY LenProperties
    <2>2. IsFiniteSet(1..Len(times))
      BY <2>1, FS_Interval
    <2>3. kept \in SUBSET (1..Len(times))
      BY LenProperties
    <2> QED BY <2>2, <2>3, FS_Subset
  <1>2. kept \subseteq DOMAIN times
    OBVIOUS
  <1>3. Recent(times) = Picked(times, kept)
    BY DEF Recent
  <1> SUFFICES
        /\ Recent(times) \in Seq(T)
        /\ \A m \in DOMAIN Recent(times) : \E i \in DOMAIN times : Recent(times)[m] = times[i]
        /\ \E g \in [kept -> DOMAIN Recent(times)] :
              /\ \A i, j \in kept : g[i] = g[j] => i = j
              /\ \A i \in kept : Recent(times)[g[i]] = times[i]
    OBVIOUS
  <1> HIDE DEF kept
  <1>4. /\ DOMAIN Recent(times) = 1..Cardinality(kept) /\ Cardinality(kept) \in Nat
        /\ Recent(times) = [k \in 1..Cardinality(kept) |-> Recent(times)[k]]
        /\ \A i \in kept : Recent(times)[Rank(i, kept)] = times[i]
        /\ \A k \in 1..Cardinality(kept) : \E i \in kept : Recent(times)[k] = times[i]
    BY <1>1, <1>3, PickedElements
  <1>5. \A m \in DOMAIN Recent(times) : \E i \in DOMAIN times : Recent(times)[m] = times[i]
    BY <1>2, <1>4
  <1>6. \A m \in 1..Cardinality(kept) : Recent(times)[m] \in T
    <2>1. \A i \in DOMAIN times : times[i] \in T
      BY LenProperties
    <2> QED BY <1>4, <1>5, <2>1
  <1>7. Recent(times) \in Seq(T)
    <2>1. Recent(times) \in [1..Cardinality(kept) -> T]
      BY <1>4, <1>6
    <2> QED BY <1>4, <2>1, SeqDef
  <1> DEFINE place == [i \in kept |-> Rank(i, kept)]
  <1>8. \A i \in kept : Rank(i, kept) \in 1..Cardinality(kept)
    BY <1>1, Ranks
  <1>9. \A i, j \in kept : Rank(i, kept) = Rank(j, kept) => i = j
    <2> SUFFICES ASSUME NEW i \in kept, NEW j \in kept, Rank(i, kept) = Rank(j, kept)
                 PROVE  i = j
      OBVIOUS
    <2>1. /\ (CHOOSE l \in kept : Rank(l, kept) = Rank(i, kept)) = i
          /\ (CHOOSE l \in kept : Rank(l, kept) = Rank(j, kept)) = j
      BY <1>1, Places
    <2> QED BY <2>1
  <1>10. /\ place \in [kept -> DOMAIN Recent(times)]
         /\ \A i, j \in kept : place[i] = place[j] => i = j
         /\ \A i \in kept : Recent(times)[place[i]] = times[i]
    BY <1>4, <1>8, <1>9
  <1> QED BY <1>5, <1>7, <1>10

(* No time in the window is pruned, so what is covered stays covered.           *)
LEMMA PrunedCovers ==
    ASSUME NEW T, NEW times \in Seq(T), NEW W, NEW a, Covers(times, W, a),
           \A k \in W : a[k].time >= now - Window
    PROVE  Covers(Pruned(times), W, a)
  <1>1. PICK g \in [W -> DOMAIN times] :
           /\ \A k, l \in W : g[k] = g[l] => k = l
           /\ \A k \in W : times[g[k]] = a[k].time
    BY DEF Covers
  <1>2. PICK d \in Nat :
           /\ Len(Pruned(times)) = Len(times) - d
           /\ \A m \in 1..Len(Pruned(times)) : Pruned(times)[m] = times[m + d]
           /\ \A i \in DOMAIN times : times[i] >= now - Window => i > d
    BY PrunedTimes
  <1>3. /\ DOMAIN times = 1..Len(times) /\ Len(times) \in Nat
        /\ DOMAIN Pruned(times) = 1..Len(Pruned(times))
    BY PrunedTimes, LenProperties
  <1>4. \A k \in W : g[k] \in 1..Len(times) /\ g[k] > d
    BY <1>1, <1>2, <1>3
  <1> DEFINE h == [k \in W |-> g[k] - d]
  <1>5. \A k \in W : g[k] - d \in DOMAIN Pruned(times)
    BY <1>2, <1>3, <1>4
  <1>6. h \in [W -> DOMAIN Pruned(times)]
    BY <1>5
  <1>7. \A k, l \in W : h[k] = h[l] => k = l
    BY <1>1, <1>4
  <1>8. \A k \in W : Pruned(times)[h[k]] = a[k].time
    <2> SUFFICES ASSUME NEW k \in W PROVE Pruned(times)[g[k] - d] = a[k].time
      OBVIOUS
    <2>1. g[k] - d \in 1..Len(Pruned(times)) /\ (g[k] - d) + d = g[k]
      BY <1>3, <1>4, <1>5
    <2> QED BY <1>1, <1>2, <2>1
  <1> QED BY <1>6, <1>7, <1>8 DEF Covers

(* Nor does a restart drop one.                                                 *)
LEMMA RecentCovers ==
    ASSUME NEW T, NEW times \in Seq(T), NEW W, NEW a, Covers(times, W, a),
           \A k \in W : a[k].time >= now - Window
    PROVE  Covers(Recent(times), W, a)
  <1> DEFINE kept == {i \in DOMAIN times : times[i] >= now - Window}
  <1>1. PICK g \in [W -> DOMAIN times] :
           /\ \A k, l \in W : g[k] = g[l] => k = l
           /\ \A k \in W : times[g[k]] = a[k].time
    BY DEF Covers
  <1>2. PICK place \in [kept -> DOMAIN Recent(times)] :
           /\ \A i, j \in kept : place[i] = place[j] => i = j
           /\ \A i \in kept : Recent(times)[place[i]] = times[i]
    BY RecentTimes
  <1>3. \A k \in W : g[k] \in kept
    BY <1>1
  <1> HIDE DEF kept
  <1> DEFINE h == [k \in W |-> place[g[k]]]
  <1>4. h \in [W -> DOMAIN Recent(times)]
    BY <1>2, <1>3
  <1>5. \A k, l \in W : h[k] = h[l] => k = l
    BY <1>1, <1>2, <1>3
  <1>6. \A k \in W : Recent(times)[h[k]] = a[k].time
    BY <1>1, <1>2, <1>3
  <1> QED BY <1>4, <1>5, <1>6 DEF Covers

(* A longer record covers no less, and the new time covers one request more.    *)
LEMMA AppendCovers ==
    ASSUME NEW T, NEW times \in Seq(T), NEW W, NEW a, Covers(times, W, a), NEW t \in T
    PROVE  /\ Covers(Append(times, t), W, a)
           /\ \A new : new \notin W /\ a[new].time = t =>
                 Covers(Append(times, t), W \cup {new}, a)
  <1>1. PICK g \in [W -> DOMAIN times] :
           /\ \A k, l \in W : g[k] = g[l] => k = l
           /\ \A k \in W : times[g[k]] = a[k].time
    BY DEF Covers
  <1> DEFINE longer == Append(times, t)
  <1>2. /\ Len(times) \in Nat /\ DOMAIN times = 1..Len(times)
        /\ DOMAIN longer = 1..Len(times) + 1
        /\ \A i \in 1..Len(times) : longer[i] = times[i]
        /\ longer[Len(times) + 1] = t
    BY AppendProperties, LenProperties
  <1> HIDE DEF longer
  <1>3. DOMAIN times \subseteq DOMAIN longer /\ Len(times) + 1 \in DOMAIN longer
    BY <1>2
  <1>4. \A k \in W : g[k] \in DOMAIN longer /\ longer[g[k]] = a[k].time
    BY <1>1, <1>2, <1>3
  <1>5. Covers(longer, W, a)
    <2>1. g \in [W -> DOMAIN longer]
      BY <1>4
    <2> QED BY <1>1, <1>4, <2>1 DEF Covers
  <1>6. ASSUME NEW new, new \notin W, a[new].time = t
        PROVE  Covers(longer, W \cup {new}, a)
    <2> DEFINE h == [k \in W \cup {new} |-> IF k = new THEN Len(times) + 1 ELSE g[k]]
    <2>1. h \in [W \cup {new} -> DOMAIN longer]
      BY <1>3, <1>4
    <2>2. \A k \in W : g[k] # Len(times) + 1
      <3>1. \A i \in DOMAIN times : i # Len(times) + 1
        BY <1>2
      <3> QED BY <1>1, <3>1
    <2>3. \A k, l \in W \cup {new} : h[k] = h[l] => k = l
      BY <1>1, <2>2
    <2>4. \A k \in W \cup {new} : longer[h[k]] = a[k].time
      BY <1>2, <1>4, <1>6
    <2> QED BY <2>1, <2>3, <2>4 DEF Covers
  <1> QED BY <1>5, <1>6 DEF longer

(* What is covered of a history is covered of one that agrees with it there.    *)
LEMMA FewerCovers ==
    ASSUME NEW times, NEW W, NEW a, Covers(times, W, a), NEW V, V \subseteq W,
           NEW b, \A k \in V : b[k].time = a[k].time
    PROVE  Covers(times, V, b)
  <1>1. PICK g \in [W -> DOMAIN times] :
           /\ \A k, l \in W : g[k] = g[l] => k = l
           /\ \A k \in W : times[g[k]] = a[k].time
    BY DEF Covers
  <1> DEFINE h == [k \in V |-> g[k]]
  <1>2. /\ h \in [V -> DOMAIN times]
        /\ \A k, l \in V : h[k] = h[l] => k = l
        /\ \A k \in V : times[h[k]] = b[k].time
    BY <1>1
  <1> QED BY <1>2 DEF Covers

(* A record that covers all of an interval has no fewer times.                  *)
LEMMA CoversCount ==
    ASSUME NEW T, NEW times \in Seq(T), NEW W, NEW a, Covers(times, W, a),
           NEW i \in Nat, NEW j \in Nat, i <= j, i..j \subseteq W
    PROVE  j - i + 1 <= Len(times)
  <1>1. PICK g \in [W -> DOMAIN times] : \A k, l \in W : g[k] = g[l] => k = l
    BY DEF Covers
  <1> DEFINE h == [k \in i..j |-> g[k]]
  <1>2. DOMAIN times = 1..Len(times) /\ Len(times) \in Nat
    BY LenProperties
  <1>3. h \in Injection(i..j, 1..Len(times))
    <2>1. h \in [i..j -> 1..Len(times)]
      BY <1>1, <1>2
    <2>2. \A k, l \in i..j : h[k] = h[l] => k = l
      BY <1>1
    <2> QED BY <2>1, <2>2 DEF Injection, IsInjective
  <1> HIDE DEF h
  <1>4. i \in Int /\ j \in Int /\ 1 \in Int /\ Len(times) \in Int
    BY <1>2
  <1>5. /\ IsFiniteSet(1..Len(times))
        /\ Cardinality(1..Len(times)) = IF 1 > Len(times) THEN 0 ELSE Len(times) - 1 + 1
        /\ Cardinality(i..j) = IF i > j THEN 0 ELSE j - i + 1
    BY <1>4, FS_Interval
  <1>6. Cardinality(i..j) <= Cardinality(1..Len(times))
    BY <1>3, <1>5, FS_Injection
  <1> QED BY <1>2, <1>5, <1>6

(* The times of each record, and what the requests in the window are.           *)
LEMMA RecordedTimes ==
    ASSUME TypeOK, NEW p \in Providers
    PROVE  /\ usage[p].times \in Seq(0..MaxTime) /\ disk[p].times \in Seq(0..MaxTime)
           /\ admitted[p] \in Seq([time : 0..MaxTime, era : 0..MaxRewinds])
           /\ now \in 0..MaxTime /\ rewinds \in 0..MaxRewinds
           /\ \A k \in InWindow(p) : admitted[p][k].time >= now - Window
  BY DEF TypeOK, Accounts, InWindow

(* A refusal or a reservation replaces one record by one of its type.           *)
LEMMA OneRecord ==
    ASSUME TypeOK, NEW p \in Providers, NEW times \in Seq(0..MaxTime),
           NEW day \in Days \cup {NoDay}, NEW cost \in Nat,
           usage' = [usage EXCEPT ![p] = Account(times, day, cost)]
    PROVE  /\ usage' \in [Providers -> Accounts]
           /\ usage'[p].times = times
           /\ \A q \in Providers : q # p => usage'[q] = usage[q]
  <1>1. Account(times, day, cost) \in Accounts /\ Account(times, day, cost).times = times
    BY DEF Account, Accounts
  <1> QED BY <1>1 DEF TypeOK

LEMMA TodayIsADay == ASSUME TypeOK PROVE Today \in Days /\ Today \in Days \cup {NoDay}
  BY DaysInOrder DEF TypeOK, Today

(* A reservation prunes the times of one provider and adds the present one.     *)
LEMMA ReservedRecord ==
    ASSUME TypeOK, NEW p \in Providers, NEW cost \in Costs, Reserves(p, cost)
    PROVE  /\ usage' \in [Providers -> Accounts]
           /\ usage'[p].times = Append(Pruned(usage[p].times), now)
           /\ Pruned(usage[p].times) \in Seq(0..MaxTime)
           /\ \A q \in Providers : q # p => usage'[q] = usage[q]
           /\ up = "up" /\ UNCHANGED <<now, rewinds>>
  <1>1. Pruned(usage[p].times) \in Seq(0..MaxTime)
    BY RecordedTimes, PrunedTimes
  <1>2. Append(Pruned(usage[p].times), now) \in Seq(0..MaxTime)
    BY <1>1, RecordedTimes, AppendProperties
  <1>3. CostToday(p) + cost \in Nat
    BY RateConstants DEF TypeOK, Accounts, CostToday
  <1> QED BY <1>1, <1>2, <1>3, TodayIsADay, OneRecord DEF Reserves

(* The times of the past stay so when they are pruned or restored.              *)
LEMMA PrunedRemembers ==
    ASSUME TypeOK, NEW p \in Providers, Remembers(usage[p].times, p)
    PROVE  /\ Remembers(Pruned(usage[p].times), p)
           /\ Remembers(Append(Pruned(usage[p].times), now), p)
  <1> DEFINE kept == Pruned(usage[p].times)
  <1>1. kept \in Seq(0..MaxTime)
    BY RecordedTimes, PrunedTimes
  <1>2. Covers(kept, InWindow(p), admitted[p])
    BY RecordedTimes, PrunedCovers DEF Remembers
  <1>3. Covers(Append(kept, now), InWindow(p), admitted[p])
    BY <1>1, <1>2, RecordedTimes, AppendCovers
  <1>4. ASSUME rewinds = 0, NEW i \in DOMAIN kept PROVE kept[i] <= now
    <2>1. PICK d \in Nat : /\ Len(kept) = Len(usage[p].times) - d
                           /\ \A m \in 1..Len(kept) : kept[m] = usage[p].times[m + d]
      BY RecordedTimes, PrunedTimes
    <2>2. i \in 1..Len(kept) /\ Len(kept) \in Nat /\ Len(usage[p].times) \in Nat
      BY <1>1, <1>4, RecordedTimes, LenProperties
    <2>3. i + d \in DOMAIN usage[p].times
      BY <2>1, <2>2, RecordedTimes, LenProperties
    <2> QED BY <1>4, <2>1, <2>2, <2>3 DEF Remembers
  <1> HIDE DEF kept
  <1>5. ASSUME rewinds = 0, NEW i \in DOMAIN Append(kept, now) PROVE Append(kept, now)[i] <= now
    <2>1. /\ Len(kept) \in Nat /\ i \in 1..Len(kept) + 1
          /\ \A k \in 1..Len(kept) : Append(kept, now)[k] = kept[k]
          /\ Append(kept, now)[Len(kept) + 1] = now
      BY <1>1, <1>5, RecordedTimes, AppendProperties, LenProperties
    <2>2. CASE i = Len(kept) + 1
      BY <2>1, <2>2, RecordedTimes, RateConstants
    <2>3. CASE i # Len(kept) + 1
      <3>1. i \in 1..Len(kept)
        BY <2>1, <2>3
      <3> QED BY <1>1, <1>4, <1>5, <2>1, <3>1, LenProperties
    <2> QED BY <2>2, <2>3
  <1> QED BY <1>2, <1>3, <1>4, <1>5 DEF Remembers, kept

LEMMA RestoredRemembers ==
    ASSUME TypeOK, NEW p \in Providers, Remembers(disk[p].times, p)
    PROVE  Recent(disk[p].times) \in Seq(0..MaxTime) /\ Remembers(Recent(disk[p].times), p)
  <1>1. /\ Recent(disk[p].times) \in Seq(0..MaxTime)
        /\ \A m \in DOMAIN Recent(disk[p].times) :
              \E i \in DOMAIN disk[p].times : Recent(disk[p].times)[m] = disk[p].times[i]
    BY RecordedTimes, RecentTimes
  <1>2. Covers(Recent(disk[p].times), InWindow(p), admitted[p])
    BY RecordedTimes, RecentCovers DEF Remembers
  <1> QED BY <1>1, <1>2 DEF Remembers

(* A broker that has admitted nothing has nothing to remember.                  *)
LEMMA InitRate == Init => RateInv
  <1> SUFFICES ASSUME Init PROVE RateInv
    OBVIOUS
  <1>1. 0 \in 0..MaxTime /\ 0 \in 0..MaxRewinds /\ 0 \in 0..MaxFaults
    BY RateConstants
  <1>2. Account(<<>>, NoDay, 0) \in Accounts
    BY EmptySeq DEF Account, Accounts
  <1>3. \A p \in Providers : usage[p].times = <<>> /\ disk[p].times = <<>> /\ admitted[p] = <<>>
    BY DEF Init, Fresh, Account
  <1>4. TypeOK
    <2>1. admitted \in [Providers -> Seq([time : 0..MaxTime, era : 0..MaxRewinds])]
      BY EmptySeq DEF Init
    <2> QED BY <1>1, <1>2, <2>1 DEF Init, TypeOK, Fresh
  <1>5. DOMAIN <<>> = {}
    OBVIOUS
  <1>6. \A p \in Providers : DOMAIN admitted[p] = {} /\ InWindow(p) = {}
    BY <1>3, <1>5 DEF InWindow
  <1>7. \A times, a : Covers(times, {}, a)
    <2> SUFFICES ASSUME NEW times, NEW a PROVE Covers(times, {}, a)
      OBVIOUS
    <2> DEFINE g == [k \in {} |-> 0]
    <2>1. g \in [{} -> DOMAIN times]
      OBVIOUS
    <2> QED BY <2>1 DEF Covers
  <1>8. \A p \in Providers : /\ Remembers(usage[p].times, p) /\ Remembers(disk[p].times, p)
                             /\ InOrder(p)
    BY <1>3, <1>5, <1>6, <1>7 DEF Remembers, InOrder
  <1>9. up # "refused" /\ RateBound
    BY <1>6 DEF Init, RateBound
  <1> QED BY <1>4, <1>8, <1>9 DEF RateInv

(* A step that admits nothing and leaves the clock only has to keep the records. *)
LEMMA RecordsKeepRate ==
    ASSUME RateInv, TypeOK', UNCHANGED <<now, rewinds, admitted>>,
           \A p \in Providers : /\ Remembers(usage'[p].times, p)
                                /\ Remembers(disk'[p].times, p),
           rewinds = 0 => up' # "refused"
    PROVE  RateInv'
  <1>1. \A p \in Providers : InWindow(p)' = InWindow(p)
    BY DEF InWindow
  <1>2. \A p \in Providers : Remembers(usage[p].times, p)' /\ Remembers(disk[p].times, p)'
    BY <1>1 DEF Remembers, Covers
  <1>3. \A p \in Providers : InOrder(p)'
    BY DEF RateInv, InOrder
  <1>4. RateBound'
    BY DEF RateInv, RateBound
  <1> QED BY <1>2, <1>3, <1>4 DEF RateInv

(* What an admitted request changes in the histories.                           *)
LEMMA AdmittedHistory ==
    ASSUME TypeOK, NEW p \in Providers, NEW cost \in Costs, Admit(p, cost)
    PROVE  /\ admitted' \in [Providers -> Seq([time : 0..MaxTime, era : 0..MaxRewinds])]
           /\ charged' \in [Providers -> [Days -> Nat]]
           /\ Len(admitted[p]) \in Nat
           /\ DOMAIN admitted[p] = 1..Len(admitted[p])
           /\ DOMAIN admitted'[p] = 1..Len(admitted[p]) + 1
           /\ \A k \in 1..Len(admitted[p]) : admitted'[p][k] = admitted[p][k]
           /\ admitted'[p][Len(admitted[p]) + 1].time = now
           /\ admitted'[p][Len(admitted[p]) + 1].era = rewinds
           /\ \A q \in Providers : q # p => admitted'[q] = admitted[q]
  <1> DEFINE new == [time |-> now, era |-> rewinds]
             Entries == [time : 0..MaxTime, era : 0..MaxRewinds]
  <1>1. /\ admitted' = [admitted EXCEPT ![p] = Append(admitted[p], new)]
        /\ charged' = [charged EXCEPT ![p][Today] = @ + cost]
    BY DEF Admit, Admits
  <1>2. /\ new \in Entries /\ new.time = now /\ new.era = rewinds
        /\ admitted \in [Providers -> Seq(Entries)] /\ admitted[p] \in Seq(Entries)
    BY DEF TypeOK
  <1> HIDE DEF new, Entries
  <1>3. /\ Append(admitted[p], new) \in Seq(Entries)
        /\ Len(Append(admitted[p], new)) = Len(admitted[p]) + 1
        /\ \A k \in 1..Len(admitted[p]) : Append(admitted[p], new)[k] = admitted[p][k]
        /\ Append(admitted[p], new)[Len(admitted[p]) + 1] = new
    BY <1>2, AppendProperties
  <1>4. /\ admitted'[p] = Append(admitted[p], new)
        /\ \A q \in Providers : q # p => admitted'[q] = admitted[q]
        /\ admitted' \in [Providers -> Seq(Entries)]
    BY <1>1, <1>2, <1>3
  <1>5. /\ Len(admitted[p]) \in Nat
        /\ DOMAIN admitted[p] = 1..Len(admitted[p])
        /\ DOMAIN Append(admitted[p], new) = 1..Len(Append(admitted[p], new))
    BY <1>2, <1>3, LenProperties
  <1>6. charged' \in [Providers -> [Days -> Nat]]
    <2>1. charged \in [Providers -> [Days -> Nat]] /\ Today \in Days /\ cost \in Nat
      BY TodayIsADay, RateConstants DEF TypeOK
    <2>2. [charged[p] EXCEPT ![Today] = @ + cost] \in [Days -> Nat]
      BY <2>1
    <2> QED BY <1>1, <2>1, <2>2
  <1> QED BY <1>2, <1>3, <1>4, <1>5, <1>6 DEF Entries

(* The limit: if the request that many places before were in the window, so     *)
(* were all since, and each would have its place in the times that are left.    *)
LEMMA AdmitKeepsBound ==
    ASSUME RateInv, NEW p \in Providers, NEW cost \in Costs, Admit(p, cost)
    PROVE  RateBound'
  <1>1. TypeOK /\ RateBound /\ InOrder(p) /\ Remembers(Pruned(usage[p].times), p)
    BY PrunedRemembers DEF RateInv
  <1> DEFINE n == Len(admitted[p])
             R == RequestsPerMinute[p]
             kept == Pruned(usage[p].times)
  <1>2. /\ n \in Nat /\ R \in Nat /\ R >= 1 /\ now \in Nat /\ Window \in Nat
        /\ kept \in Seq(0..MaxTime) /\ Len(kept) \in Nat /\ Len(kept) < R
    <2>1. kept \in Seq(0..MaxTime) /\ ~(Len(kept) >= R) /\ R \in Nat /\ R >= 1
      BY <1>1, RecordedTimes, PrunedTimes, RateConstants DEF Admit, Reserves, RateReached
    <2>2. Len(kept) \in Nat /\ n \in Nat
      BY <1>1, <2>1, LenProperties, AdmittedHistory
    <2>3. now \in Nat /\ Window \in Nat
      BY <1>1, RateConstants DEF TypeOK
    <2> HIDE DEF n, R, kept
    <2> QED BY <2>1, <2>2, <2>3
  <1>3. \A k \in DOMAIN admitted[p] : admitted[p][k].time \in Nat /\ admitted[p][k].era \in Nat
    <2>1. \A k \in DOMAIN admitted[p] :
             admitted[p][k] \in [time : 0..MaxTime, era : 0..MaxRewinds]
      BY <1>1, RecordedTimes, LenProperties
    <2> QED BY <2>1
  <1>4. ASSUME NEW i \in DOMAIN admitted[p], n + 1 - i >= R,
               admitted[p][i].era = rewinds, admitted[p][i].time >= now - Window
        PROVE  FALSE
    <2>1. i \in 1..n /\ DOMAIN admitted[p] = 1..n /\ rewinds \in Nat
      BY <1>1, AdmittedHistory DEF TypeOK
    <2>2. ASSUME NEW k \in i..n PROVE k \in InWindow(p)
      <3>1. k \in DOMAIN admitted[p] /\ i <= k
        BY <1>2, <2>1, <2>2
      <3>2. /\ admitted[p][k].era <= rewinds /\ admitted[p][i].era <= admitted[p][k].era
            /\ admitted[p][i].era = admitted[p][k].era =>
                  admitted[p][i].time <= admitted[p][k].time
        BY <1>1, <3>1 DEF InOrder
      <3>3. admitted[p][k].era = rewinds
        BY <1>3, <1>4, <2>1, <3>1, <3>2
      <3>4. admitted[p][k].time >= now - Window
        BY <1>2, <1>3, <1>4, <3>1, <3>2, <3>3
      <3> QED BY <3>1, <3>3, <3>4 DEF InWindow
    <2>3. i \in Nat /\ i <= n /\ i..n \subseteq InWindow(p)
      BY <1>2, <2>1, <2>2
    <2>4. Covers(kept, InWindow(p), admitted[p])
      BY <1>1 DEF Remembers
    <2> HIDE DEF n, R, kept
    <2>5. n - i + 1 <= Len(kept)
      BY <1>2, <2>3, <2>4, CoversCount
    <2> QED BY <1>2, <1>4, <2>3, <2>5
  <1>5. ASSUME NEW i \in DOMAIN admitted'[p], i + R \in DOMAIN admitted'[p]
        PROVE  \/ admitted'[p][i + R].time - admitted'[p][i].time > Window
               \/ admitted'[p][i + R].era # admitted'[p][i].era
    <2>1. /\ i \in 1..n + 1 /\ i + R \in 1..n + 1 /\ DOMAIN admitted[p] = 1..n
          /\ \A k \in 1..n : admitted'[p][k] = admitted[p][k]
          /\ admitted'[p][n + 1].time = now /\ admitted'[p][n + 1].era = rewinds
      BY <1>1, <1>5, AdmittedHistory
    <2>2. i \in DOMAIN admitted[p] /\ i \in 1..n
      BY <1>2, <2>1
    <2>3. CASE i + R = n + 1
      <3>1. n + 1 - i >= R
        BY <1>2, <2>1, <2>3
      <3>2. \/ admitted[p][i].era # rewinds
            \/ ~(admitted[p][i].time >= now - Window)
        BY <1>4, <2>2, <3>1
      <3>3. admitted[p][i].time \in Nat
        BY <1>3, <2>2
      <3>4. \/ now - admitted[p][i].time > Window
            \/ rewinds # admitted[p][i].era
        BY <1>2, <3>2, <3>3
      <3> QED BY <2>1, <2>2, <2>3, <3>4
    <2>4. CASE i + R # n + 1
      <3>1. i + R \in 1..n
        BY <1>2, <2>1, <2>4
      <3>2. \/ admitted[p][i + R].time - admitted[p][i].time > Window
            \/ admitted[p][i + R].era # admitted[p][i].era
        BY <1>1, <2>1, <2>2, <3>1 DEF RateBound
      <3> QED BY <2>1, <2>2, <3>1, <3>2
    <2> QED BY <2>3, <2>4
  <1>6. ASSUME NEW q \in Providers, q # p, NEW i \in DOMAIN admitted'[q],
               i + RequestsPerMinute[q] \in DOMAIN admitted'[q]
        PROVE  \/ admitted'[q][i + RequestsPerMinute[q]].time - admitted'[q][i].time > Window
               \/ admitted'[q][i + RequestsPerMinute[q]].era # admitted'[q][i].era
    <2>1. admitted'[q] = admitted[q]
      BY <1>1, <1>6, AdmittedHistory
    <2>2. \/ admitted[q][i + RequestsPerMinute[q]].time - admitted[q][i].time > Window
          \/ admitted[q][i + RequestsPerMinute[q]].era # admitted[q][i].era
      BY <1>1, <1>6, <2>1 DEF RateBound
    <2> QED BY <2>1, <2>2
  <1> QED BY <1>5, <1>6 DEF RateBound

(* The new request is the latest.                                               *)
LEMMA AdmitKeepsOrder ==
    ASSUME RateInv, NEW p \in Providers, NEW cost \in Costs, Admit(p, cost)
    PROVE  InOrder(p)'
  <1> DEFINE n == Len(admitted[p])
  <1>1. /\ TypeOK /\ n \in Nat /\ DOMAIN admitted[p] = 1..n /\ DOMAIN admitted'[p] = 1..n + 1
        /\ \A k \in 1..n : admitted'[p][k] = admitted[p][k]
        /\ admitted'[p][n + 1].time = now /\ admitted'[p][n + 1].era = rewinds
    BY AdmittedHistory DEF RateInv
  <1>2. /\ UNCHANGED <<now, rewinds>> /\ now \in Nat /\ rewinds \in Nat
    BY <1>1 DEF Admit, Reserves, TypeOK
  <1>3. \A j \in 1..n :
           /\ admitted[p][j].era <= rewinds
           /\ admitted[p][j].era = rewinds => admitted[p][j].time <= now
           /\ \A i \in 1..n :
                 i <= j => /\ admitted[p][i].era <= admitted[p][j].era
                           /\ admitted[p][i].era = admitted[p][j].era =>
                                 admitted[p][i].time <= admitted[p][j].time
    BY <1>1 DEF RateInv, InOrder
  <1> HIDE DEF n
  <1>4. ASSUME NEW j \in 1..n + 1
        PROVE  /\ admitted'[p][j].era <= rewinds
               /\ admitted'[p][j].era = rewinds => admitted'[p][j].time <= now
               /\ \A i \in 1..n + 1 :
                     i <= j => /\ admitted'[p][i].era <= admitted'[p][j].era
                               /\ admitted'[p][i].era = admitted'[p][j].era =>
                                     admitted'[p][i].time <= admitted'[p][j].time
    <2>1. CASE j \in 1..n
      <3>1. \A i \in 1..n + 1 : i <= j => i \in 1..n
        BY <1>1, <2>1
      <3> QED BY <1>1, <1>3, <2>1, <3>1
    <2>2. CASE j = n + 1
      <3>1. \A i \in 1..n + 1 : i \in 1..n \/ i = n + 1
        BY <1>1
      <3>2. now <= now /\ rewinds <= rewinds
        BY <1>2
      <3> QED BY <1>1, <1>3, <2>2, <3>1, <3>2
    <2> QED BY <1>1, <2>1, <2>2
  <1> QED BY <1>1, <1>2, <1>4 DEF InOrder

(* The admitted request is in memory and on disk before it goes upstream.       *)
LEMMA AdmitKeepsRate ==
    ASSUME RateInv, NEW p \in Providers, NEW cost \in Costs, Admit(p, cost)
    PROVE  RateInv'
  <1>1. TypeOK /\ Reserves(p, cost)
    BY DEF RateInv, Admit
  <1>2. TypeOK'
    BY <1>1, ReservedRecord, AdmittedHistory DEF Admit, Reserves, TypeOK
  <1>3. UNCHANGED <<now, rewinds, up>> /\ disk' = usage'
    BY DEF Admit, Reserves
  <1> DEFINE kept == Pruned(usage[p].times)
             n == Len(admitted[p])
  <1>4. /\ kept \in Seq(0..MaxTime) /\ Covers(kept, InWindow(p), admitted[p])
        /\ Remembers(Append(kept, now), p) /\ now \in 0..MaxTime
    BY <1>1, ReservedRecord, PrunedRemembers, RecordedTimes DEF RateInv, Remembers
  <1>5. /\ n \in Nat /\ DOMAIN admitted[p] = 1..n /\ DOMAIN admitted'[p] = 1..n + 1
        /\ \A k \in 1..n : admitted'[p][k] = admitted[p][k]
        /\ admitted'[p][n + 1].time = now
        /\ \A q \in Providers : q # p => admitted'[q] = admitted[q]
    BY <1>1, AdmittedHistory
  <1> HIDE DEF kept, n
  <1>6. InWindow(p) \subseteq 1..n /\ n + 1 \notin InWindow(p)
    <2>1. InWindow(p) \subseteq 1..n
      BY <1>5 DEF InWindow
    <2>2. n + 1 \notin 1..n
      BY <1>5
    <2> QED BY <2>1, <2>2
  <1>7. InWindow(p)' \subseteq InWindow(p) \cup {n + 1}
    <2>1. 1..n + 1 \subseteq (1..n) \cup {n + 1}
      BY <1>5
    <2> QED BY <1>3, <1>5, <2>1 DEF InWindow
  <1>8. Covers(kept, InWindow(p), admitted'[p])
    BY <1>4, <1>5, <1>6, FewerCovers
  <1>9. Covers(Append(kept, now), InWindow(p) \cup {n + 1}, admitted'[p])
    BY <1>4, <1>5, <1>6, <1>8, AppendCovers
  <1>10. Covers(Append(kept, now), InWindow(p)', admitted'[p])
    <2>1. \A k \in InWindow(p)' : admitted'[p][k].time = admitted'[p][k].time
      OBVIOUS
    <2> QED BY <1>7, <1>9, <2>1, FewerCovers
  <1>11. usage'[p].times = Append(kept, now) /\ \A q \in Providers : q # p => usage'[q] = usage[q]
    BY <1>1, ReservedRecord DEF kept
  <1>12. Remembers(usage[p].times, p)'
    <2>1. Covers(usage'[p].times, InWindow(p)', admitted'[p])
      BY <1>10, <1>11
    <2>2. rewinds' = 0 => \A i \in DOMAIN usage'[p].times : usage'[p].times[i] <= now'
      BY <1>3, <1>4, <1>11 DEF Remembers
    <2> QED BY <2>1, <2>2 DEF Remembers, Covers
  <1>13. ASSUME NEW q \in Providers, q # p
         PROVE  Remembers(usage[q].times, q)' /\ InOrder(q)'
    <2>1. InWindow(q)' = InWindow(q)
      BY <1>3, <1>5, <1>13 DEF InWindow
    <2>2. Remembers(usage[q].times, q) /\ InOrder(q)
      BY DEF RateInv
    <2> QED BY <1>3, <1>5, <1>11, <1>13, <2>1, <2>2 DEF Remembers, Covers, InOrder
  <1>14. \A q \in Providers : /\ Remembers(usage[q].times, q)' /\ Remembers(disk[q].times, q)'
                              /\ InOrder(q)'
    BY <1>3, <1>12, <1>13, AdmitKeepsOrder DEF Remembers, Covers
  <1> QED BY <1>2, <1>3, <1>14, AdmitKeepsBound DEF RateInv

(* Time moves requests out of the window, and none into it.                     *)
LEMMA TickKeepsRate == ASSUME RateInv, Tick PROVE RateInv'
  <1>1. /\ UNCHANGED <<up, usage, disk, admitted, charged, rewinds, faults>>
        /\ now' = now + 1 /\ now < MaxTime /\ TypeOK
    BY DEF Tick, history, RateInv
  <1>2. now \in Nat /\ now' \in 0..MaxTime /\ Window \in Nat
    BY <1>1, RateConstants DEF TypeOK
  <1>3. TypeOK'
    BY <1>1, <1>2 DEF TypeOK, Today, DayOf
  <1>4. ASSUME NEW p \in Providers PROVE InWindow(p)' \subseteq InWindow(p)
    <2>1. \A k \in DOMAIN admitted[p] : admitted[p][k].time \in Nat
      <3>1. \A k \in DOMAIN admitted[p] :
               admitted[p][k] \in [time : 0..MaxTime, era : 0..MaxRewinds]
        BY <1>1, RecordedTimes, LenProperties
      <3> QED BY <3>1
    <2> QED BY <1>1, <1>2, <2>1 DEF InWindow
  <1>5. ASSUME NEW p \in Providers, NEW times \in Seq(0..MaxTime), Remembers(times, p)
        PROVE  /\ Covers(times, InWindow(p)', admitted'[p])
               /\ rewinds' = 0 => \A i \in DOMAIN times : times[i] <= now'
    <2>1. \A k \in InWindow(p)' : admitted'[p][k].time = admitted[p][k].time
      BY <1>1
    <2>2. Covers(times, InWindow(p)', admitted'[p])
      BY <1>4, <1>5, <2>1, FewerCovers DEF Remembers
    <2>3. \A i \in DOMAIN times : times[i] \in 0..MaxTime
      BY LenProperties
    <2>4. ASSUME NEW i \in DOMAIN times, times[i] <= now PROVE times[i] <= now + 1
      BY <1>2, <2>3, <2>4
    <2> QED BY <1>1, <1>5, <2>2, <2>4 DEF Remembers
  <1>6. ASSUME NEW p \in Providers
        PROVE  Remembers(usage[p].times, p)' /\ Remembers(disk[p].times, p)'
    <2>1. /\ usage[p].times \in Seq(0..MaxTime) /\ disk[p].times \in Seq(0..MaxTime)
          /\ Remembers(usage[p].times, p) /\ Remembers(disk[p].times, p)
      BY <1>1, RecordedTimes DEF RateInv
    <2>2. /\ Covers(usage[p].times, InWindow(p)', admitted'[p])
          /\ rewinds' = 0 => \A i \in DOMAIN usage[p].times : usage[p].times[i] <= now'
      BY <1>5, <2>1
    <2>3. /\ Covers(disk[p].times, InWindow(p)', admitted'[p])
          /\ rewinds' = 0 => \A i \in DOMAIN disk[p].times : disk[p].times[i] <= now'
      BY <1>5, <2>1
    <2> QED BY <1>1, <2>2, <2>3 DEF Remembers, Covers
  <1>7. ASSUME NEW p \in Providers PROVE InOrder(p)'
    <2>1. \A k \in DOMAIN admitted[p] : admitted[p][k].time \in Nat
      <3>1. \A k \in DOMAIN admitted[p] :
               admitted[p][k] \in [time : 0..MaxTime, era : 0..MaxRewinds]
        BY <1>1, RecordedTimes, LenProperties
      <3> QED BY <3>1
    <2>2. \A k \in DOMAIN admitted[p] : admitted[p][k].time <= now => admitted[p][k].time <= now'
      BY <1>1, <1>2, <2>1
    <2> QED BY <1>1, <2>2 DEF RateInv, InOrder
  <1>8. RateBound'
    BY <1>1 DEF RateInv, RateBound
  <1> QED BY <1>1, <1>3, <1>6, <1>7, <1>8 DEF RateInv

(* A clock that is set back starts an era in which nothing was admitted.        *)
LEMMA SetBackKeepsRate == ASSUME RateInv, NEW t \in 0..MaxTime, SetBack(t) PROVE RateInv'
  <1>1. /\ UNCHANGED <<up, usage, disk, admitted, charged, faults>>
        /\ rewinds' = rewinds + 1 /\ rewinds < MaxRewinds /\ now' = t /\ TypeOK
    BY DEF SetBack, history, RateInv
  <1>2. TypeOK' /\ rewinds \in Nat
    <2>1. rewinds \in Nat /\ rewinds' \in 0..MaxRewinds
      BY <1>1, RateConstants DEF TypeOK
    <2> QED BY <1>1, <2>1 DEF TypeOK
  <1>3. ASSUME NEW p \in Providers, NEW k \in DOMAIN admitted[p]
        PROVE  admitted[p][k].era <= rewinds' /\ admitted[p][k].era # rewinds'
    <2>1. admitted[p][k] \in [time : 0..MaxTime, era : 0..MaxRewinds]
      BY <1>1, RecordedTimes, LenProperties
    <2>2. admitted[p][k].era \in Nat /\ admitted[p][k].era <= rewinds
      BY <2>1 DEF RateInv, InOrder
    <2> QED BY <1>1, <1>2, <2>2
  <1>4. ASSUME NEW p \in Providers PROVE InWindow(p)' = {}
    BY <1>1, <1>3 DEF InWindow
  <1>5. ASSUME NEW p \in Providers, NEW times, Remembers(times, p)
        PROVE  Covers(times, InWindow(p)', admitted'[p])
    BY <1>4, <1>5, FewerCovers DEF Remembers
  <1>6. rewinds' # 0
    BY <1>1, <1>2
  <1>7. ASSUME NEW p \in Providers
        PROVE  Remembers(usage[p].times, p)' /\ Remembers(disk[p].times, p)'
    <2>1. /\ Covers(usage[p].times, InWindow(p)', admitted'[p])
          /\ Covers(disk[p].times, InWindow(p)', admitted'[p])
      BY <1>5 DEF RateInv
    <2> QED BY <1>1, <1>6, <2>1 DEF Remembers, Covers
  <1>8. ASSUME NEW p \in Providers PROVE InOrder(p)'
    BY <1>1, <1>3 DEF RateInv, InOrder
  <1>9. RateBound'
    BY <1>1 DEF RateInv, RateBound
  <1> QED BY <1>2, <1>6, <1>7, <1>8, <1>9 DEF RateInv

(* A restart takes the times in the window from the file, and the file loads.   *)
LEMMA StartKeepsRate == ASSUME RateInv, Start PROVE RateInv'
  <1>1. UNCHANGED <<disk, now, admitted, charged, rewinds, faults>> /\ TypeOK
    BY DEF Start, history, RateInv
  <1>2. \A p \in Providers : /\ usage[p] \in Accounts /\ disk[p] \in Accounts
                             /\ Remembers(usage[p].times, p) /\ Remembers(disk[p].times, p)
    BY DEF RateInv, TypeOK
  <1>3. CASE Loads(disk)
    <2>1. up' = "up" /\ usage' = Restored(disk)
      BY <1>3 DEF Start
    <2>2. ASSUME NEW p \in Providers
          PROVE  /\ usage'[p] \in Accounts
                 /\ usage'[p].times = Recent(disk[p].times)
                 /\ Remembers(usage'[p].times, p)
      <3>1. usage'[p] = Account(Recent(disk[p].times), disk[p].day, disk[p].cost)
        BY <2>1 DEF Restored
      <3>2. Recent(disk[p].times) \in Seq(0..MaxTime) /\ Remembers(Recent(disk[p].times), p)
        BY <1>1, <1>2, RestoredRemembers
      <3> QED BY <1>2, <3>1, <3>2 DEF Account, Accounts
    <2>3. usage' \in [Providers -> Accounts]
      BY <2>1, <2>2 DEF Restored
    <2>4. TypeOK'
      BY <1>1, <2>1, <2>3 DEF TypeOK
    <2> QED BY <1>1, <1>2, <2>1, <2>2, <2>4, RecordsKeepRate
  <1>4. CASE ~Loads(disk)
    <2>1. up' = "refused" /\ UNCHANGED usage
      BY <1>4 DEF Start
    <2>2. TypeOK'
      BY <1>1, <2>1 DEF TypeOK
    <2>3. rewinds # 0
      <3> SUFFICES ASSUME rewinds = 0 PROVE Loads(disk)
        BY <1>4
      <3>1. ASSUME NEW p \in Providers, NEW i \in DOMAIN disk[p].times
            PROVE  disk[p].times[i] <= now + Skew
        <4>1. disk[p].times[i] <= now
          BY <1>2, <3>1 DEF Remembers
        <4>2. disk[p].times[i] \in 0..MaxTime
          BY <1>1, <3>1, RecordedTimes, LenProperties
        <4> QED BY <1>1, <4>1, <4>2, RateConstants DEF TypeOK
      <3> QED BY <3>1 DEF Loads
    <2> QED BY <1>1, <1>2, <2>1, <2>2, <2>3, RecordsKeepRate
  <1> QED BY <1>3, <1>4

(* A refused request is pruned all the same.                                    *)
LEMMA RefusalKeepsRate ==
    ASSUME RateInv, NEW p \in Providers, NEW day \in Days \cup {NoDay}, NEW cost \in Nat,
           usage' = [usage EXCEPT ![p] = Account(Pruned(usage[p].times), day, cost)],
           UNCHANGED <<up, disk, now, admitted, charged, rewinds, faults>>
    PROVE  RateInv'
  <1>1. TypeOK /\ \A q \in Providers : Remembers(usage[q].times, q) /\ Remembers(disk[q].times, q)
    BY DEF RateInv
  <1>2. Pruned(usage[p].times) \in Seq(0..MaxTime)
    BY <1>1, RecordedTimes, PrunedTimes
  <1>3. /\ usage' \in [Providers -> Accounts]
        /\ usage'[p].times = Pruned(usage[p].times)
        /\ \A q \in Providers : q # p => usage'[q] = usage[q]
    BY <1>1, <1>2, OneRecord
  <1>4. TypeOK'
    BY <1>1, <1>3 DEF TypeOK
  <1>5. \A q \in Providers : Remembers(usage'[q].times, q)
    BY <1>1, <1>3, PrunedRemembers
  <1> QED BY <1>1, <1>4, <1>5, RecordsKeepRate DEF RateInv

(* A request that is counted and not admitted takes room, and forgets nothing.  *)
LEMMA ReservesKeepsRate ==
    ASSUME RateInv, NEW p \in Providers, NEW cost \in Costs, Reserves(p, cost),
           disk' \in {disk, usage'}, UNCHANGED <<admitted, charged>>,
           faults' \in 0..MaxFaults, up' \in {"up", "down"}
    PROVE  RateInv'
  <1>1. TypeOK /\ \A q \in Providers : Remembers(usage[q].times, q) /\ Remembers(disk[q].times, q)
    BY DEF RateInv
  <1>2. /\ usage' \in [Providers -> Accounts]
        /\ usage'[p].times = Append(Pruned(usage[p].times), now)
        /\ \A q \in Providers : q # p => usage'[q] = usage[q]
        /\ UNCHANGED <<now, rewinds>>
    BY <1>1, ReservedRecord
  <1>3. TypeOK'
    BY <1>1, <1>2 DEF TypeOK
  <1>4. \A q \in Providers : Remembers(usage'[q].times, q)
    BY <1>1, <1>2, PrunedRemembers
  <1>5. \A q \in Providers : Remembers(disk'[q].times, q)
    BY <1>1, <1>4
  <1> QED BY <1>2, <1>3, <1>4, <1>5, RecordsKeepRate

LEMMA RateStep == RateInv /\ [Next]_vars => RateInv'
  <1> SUFFICES ASSUME RateInv, [Next]_vars PROVE RateInv'
    OBVIOUS
  <1>1. TypeOK
    BY DEF RateInv
  <1>2. ASSUME NEW p \in Providers, RateLimited(p) PROVE RateInv'
    <2>1. usage[p].day \in Days \cup {NoDay} /\ usage[p].cost \in Nat
      BY <1>1 DEF TypeOK, Accounts
    <2>2. /\ usage' = [usage EXCEPT ![p] =
                         Account(Pruned(usage[p].times), usage[p].day, usage[p].cost)]
          /\ UNCHANGED <<up, disk, now, admitted, charged, rewinds, faults>>
      BY <1>2 DEF RateLimited, history
    <2> QED BY <2>1, <2>2, RefusalKeepsRate
  <1>3. ASSUME NEW p \in Providers, NEW cost \in Costs, BudgetSpent(p, cost) PROVE RateInv'
    <2>1. Today \in Days \cup {NoDay} /\ CostToday(p) \in Nat
      BY <1>1, TodayIsADay DEF TypeOK, Accounts, CostToday
    <2>2. /\ usage' = [usage EXCEPT ![p] =
                         Account(Pruned(usage[p].times), Today, CostToday(p))]
          /\ UNCHANGED <<up, disk, now, admitted, charged, rewinds, faults>>
      BY <1>3 DEF BudgetSpent, history
    <2> QED BY <2>1, <2>2, RefusalKeepsRate
  <1>4. ASSUME NEW p \in Providers, NEW cost \in Costs, Admit(p, cost) PROVE RateInv'
    BY <1>4, AdmitKeepsRate
  <1>5. ASSUME faults < MaxFaults, faults' = faults + 1 PROVE faults' \in 0..MaxFaults
    BY <1>1, <1>5, RateConstants DEF TypeOK
  <1>6. ASSUME NEW p \in Providers, NEW cost \in Costs,
               SaveFails(p, cost) \/ CrashInSave(p, cost)
        PROVE  RateInv'
    <2>1. /\ Reserves(p, cost) /\ disk' \in {disk, usage'} /\ UNCHANGED <<admitted, charged>>
          /\ faults < MaxFaults /\ faults' = faults + 1 /\ up' \in {"up", "down"}
      BY <1>6 DEF SaveFails, CrashInSave, Reserves, history
    <2> QED BY <1>5, <2>1, ReservesKeepsRate
  <1>7. CASE Crash
    <2>1. /\ UNCHANGED <<usage, disk, now, admitted, charged, rewinds>>
          /\ up' = "down" /\ faults < MaxFaults /\ faults' = faults + 1
      BY <1>7 DEF Crash, history
    <2>2. TypeOK'
      BY <1>1, <1>5, <2>1 DEF TypeOK
    <2> QED BY <2>1, <2>2, RecordsKeepRate DEF RateInv
  <1>8. CASE Start
    BY <1>8, StartKeepsRate
  <1>9. CASE Tick
    BY <1>9, TickKeepsRate
  <1>10. ASSUME NEW t \in 0..MaxTime, SetBack(t) PROVE RateInv'
    BY <1>10, SetBackKeepsRate
  <1>11. CASE UNCHANGED vars
    <2>1. UNCHANGED <<up, usage, disk, now, admitted, charged, rewinds, faults>>
      BY <1>11 DEF vars
    <2>2. TypeOK'
      BY <1>1, <2>1 DEF TypeOK
    <2> QED BY <2>1, <2>2, RecordsKeepRate DEF RateInv
  <1> QED BY <1>2, <1>3, <1>4, <1>6, <1>7, <1>8, <1>9, <1>10, <1>11 DEF Next

THEOREM RateInvariant == Spec => []RateInv
  BY InitRate, RateStep, PTL DEF Spec

(* Every variable of the broker has its type.                                   *)
THEOREM BrokerTypeCorrect == Spec => []TypeOK
  <1>1. RateInv => TypeOK
    BY DEF RateInv
  <1> QED BY <1>1, RateInvariant, PTL

(* No window of a minute lets more requests through than the limit of the       *)
(* provider, whatever crashes, failed saves and restarts fall into it           *)
(* (broker.py, _reserve and _load_usage_state): for every limit and clock.      *)
THEOREM RateIsBounded == Spec => []RateBound
  <1>1. RateInv => RateBound
    BY DEF RateInv
  <1> QED BY <1>1, RateInvariant, PTL

(* Unless the clock is set back, the broker starts on the file it wrote         *)
(* (broker.py, _load_usage_state): no restart locks it out.                     *)
THEOREM OwnFileLoads == Spec => []OwnStateLoads
  <1>1. RateInv => OwnStateLoads
    <2> SUFFICES ASSUME RateInv, rewinds = 0,
                        NEW p \in Providers, NEW i \in DOMAIN disk[p].times
                 PROVE  up # "refused" /\ disk[p].times[i] <= now + Skew
      BY DEF OwnStateLoads, Loads, RateInv
    <2>1. disk[p].times[i] <= now /\ TypeOK /\ up # "refused"
      BY DEF RateInv, Remembers
    <2>2. disk[p].times[i] \in 0..MaxTime
      BY <2>1, RecordedTimes, LenProperties
    <2> QED BY <2>1, <2>2, RateConstants DEF TypeOK
  <1> QED BY <1>1, RateInvariant, PTL
===============================================================================
