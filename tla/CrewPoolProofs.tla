---------------------------- MODULE CrewPoolProofs ----------------------------
(* Proofs about CrewPool, for every value of its constants: dependencies end   *)
(* before their dependants start, and no agent outlives the run or its Stop.   *)
(* And about the memory of the client that its agents ask through.             *)
EXTENDS CrewPool, ConversationMemory, SequenceTheorems, TLAPS

(* A worker exists in all tables or in none; it is pending until it runs.      *)
Known ==
    \A w \in Workers :
        /\ task[w] = "none" <=> w > spawned
        /\ task[w] \in {"new", "waits"} => status[w] = "pending"
        /\ task[w] \in {"thinks", "executes"} => status[w] = "running"
        /\ status[w] = "none" => w > spawned

(* A worker that waits for a dependency has seen the earlier ones end.         *)
Waited ==
    \A w \in Workers : task[w] = "waits" =>
        /\ at[w] \in 1..Len(deps[w])
        /\ \A i \in 1..(at[w] - 1) : deps[w][i] < w => Done(deps[w][i])

(* finish waits for every agent that has not ended.                            *)
WaitsForAll ==
    orch = "waits" /\ purpose # "results" => Undone(Spawned) \subseteq waiting

StopOrder ==
    /\ canceller # "none" => stopped
    /\ QuietAfterStop

CrewInv ==
    /\ TypeOK /\ Known /\ Waited /\ DependenciesFirst
    /\ WaitsForAll /\ SynthesisIsComplete /\ NoOrphans /\ StopOrder

(* The bounds by themselves.                                                   *)
LEMMA Bounds == MaxWorkers \in Nat /\ MaxIterations \in Nat /\ MaxSteps \in Nat
  BY CrewPoolAssumption

(* The initial state.                                                          *)
LEMMA CrewInit == Init => CrewInv
  <1> SUFFICES ASSUME Init PROVE CrewInv
    OBVIOUS
  <1> USE Bounds DEF Init
  <1>1. TypeOK
    <2>1. deps \in [Workers -> Seq(Workers)]
      OBVIOUS
    <2>2. status \in [Workers -> Statuses] /\ task \in [Workers -> Tasks]
      BY DEF Statuses, Tasks
    <2>3. must \in [Workers -> BOOLEAN] /\ at \in [Workers -> Nat]
          /\ steps \in [Workers -> 0..MaxSteps]
      OBVIOUS
    <2>4. /\ spawned \in 0..MaxWorkers /\ waiting \in SUBSET Workers /\ iteration \in Nat
      OBVIOUS
    <2>5. stopped \in BOOLEAN
      OBVIOUS
    <2>6. /\ canceller \in {"none", "new", "gathers", "done"}
          /\ orch \in {"thinks", "waits", "cancels", "synthesises", "closing", "done"}
          /\ purpose \in {"results", "finish", "answer"}
          /\ crew \in {"idle", "running", "complete", "error"}
      OBVIOUS
    <2> HIDE DEF Init
    <2> QED
      BY <2>1, <2>2, <2>3, <2>4, <2>5, <2>6 DEF TypeOK
  <1>2. Known /\ Waited /\ DependenciesFirst
    BY DEF Known, Waited, DependenciesFirst, Workers, Spawned
  <1>3. WaitsForAll /\ SynthesisIsComplete /\ NoOrphans /\ StopOrder
    BY DEF WaitsForAll, SynthesisIsComplete, NoOrphans, StopOrder, QuietAfterStop
  <1> QED
    BY <1>1, <1>2, <1>3 DEF CrewInv

(* Neither the orchestrator nor a Stop touches the workers, but for the        *)
(* cancellations that become due.                                              *)
WorkersStay ==
    /\ UNCHANGED <<spawned, deps, status, task, at, steps>>
    /\ must' \in [Workers -> BOOLEAN]

(* A cancellation marks a worker that exists, so the marks keep their type.    *)
LEMMA CancelsTyped ==
    ASSUME TypeOK
    PROVE  /\ \A S : CancelThese(S) => must' \in [Workers -> BOOLEAN]
           /\ \A w : CancelTask(w) => must' \in [Workers -> BOOLEAN]
  BY DEF TypeOK, CancelThese, CancelTask

(* What the rounds of the orchestrator do to it.                               *)
LEMMA CloseStep ==
    ASSUME TypeOK, NEW state, Close(state)
    PROVE  WorkersStay /\ orch' = "closing" /\ crew' = state /\ waiting' = {}
           /\ purpose' = "results" /\ iteration' = iteration
  BY CancelsTyped DEF Close, WorkersStay, WaitIsOver, CancelAll

(* What NextRound leaves alone, and where it takes the orchestrator.           *)
LEMMA NextRoundStep ==
    ASSUME TypeOK, NextRound
    PROVE  /\ WorkersStay /\ orch' \in {"thinks", "closing"} /\ crew' \in {crew, "complete"}
           /\ waiting' = {} /\ purpose' = "results" /\ iteration' \in Nat
  <1>1. iteration \in Nat /\ must \in [Workers -> BOOLEAN]
    BY DEF TypeOK
  <1>2. CASE iteration < MaxIterations
    BY <1>1, <1>2 DEF NextRound, WorkersStay, WaitIsOver, workerVars
  <1>3. CASE ~(iteration < MaxIterations)
    BY <1>1, <1>3, CloseStep DEF NextRound
  <1> QED
    BY <1>2, <1>3

(* What Synthesises leaves alone, and where it takes the orchestrator.         *)
LEMMA SynthesisesStep ==
    ASSUME TypeOK, NEW why \in {"finish", "answer"}, Synthesises(why)
    PROVE  /\ WorkersStay /\ orch' \in {"synthesises", "closing"} /\ crew' \in {crew, "complete"}
           /\ waiting' = {} /\ purpose' \in {why, "results"} /\ iteration' \in Nat
  BY CloseStep DEF Synthesises, WorkersStay, workerVars, TypeOK

(* A step of w moves its task to t and its status to r.                        *)
Moves(w, t, r) ==
    /\ UNCHANGED <<spawned, deps>>
    /\ task' = [task EXCEPT ![w] = t] /\ status' = [status EXCEPT ![w] = r]
    /\ at' \in [Workers -> Nat] /\ must' \in [Workers -> BOOLEAN]
    /\ steps' \in [Workers -> 0..MaxSteps]
    /\ \A v \in Workers \ {w} : at'[v] = at[v]

(* A worker that ends is done; no other worker moves.                          *)
LEMMA EndsMoves ==
    ASSUME TypeOK, NEW w \in Workers, NEW r, Ends(w, r)
    PROVE  Moves(w, "done", r)
  BY Bounds DEF Ends, Moves, TypeOK

(* A worker that proceeds waits for a dependency or runs; no other worker      *)
(* moves.                                                                      *)
LEMMA ProceedsMoves ==
    ASSUME TypeOK, NEW w \in Workers, NEW from \in Nat, Proceeds(w, from)
    PROVE  Moves(w, "thinks", "running") \/ Moves(w, "waits", status[w])
  <1>1. must' \in [Workers -> BOOLEAN]
    BY DEF Proceeds, TypeOK
  <1>2. CASE at' = [at EXCEPT ![w] = 0] /\ task' = [task EXCEPT ![w] = "thinks"]
             /\ status' = [status EXCEPT ![w] = "running"]
    BY <1>1, <1>2 DEF Proceeds, Moves, TypeOK
  <1>3. ASSUME NEW i \in Stalls(w, from), at' = [at EXCEPT ![w] = i],
               task' = [task EXCEPT ![w] = "waits"], status' = status
        PROVE  Moves(w, "waits", status[w])
    <2>1. Len(deps[w]) \in Nat
      BY DEF TypeOK
    <2>2. i \in Nat
      BY <1>3, <2>1 DEF Stalls
    <2>3. at' \in [Workers -> Nat] /\ status' = [status EXCEPT ![w] = status[w]]
      BY <1>3, <2>2 DEF TypeOK
    <2> QED
      BY <1>1, <1>3, <2>3 DEF Proceeds, Moves, TypeOK
  <1> QED
    BY <1>2, <1>3 DEF Proceeds

(* What a step of a worker can do to it.                                       *)
LEMMA WorkerMoves ==
    ASSUME TypeOK, Known, NEW w \in Workers, WorkerStep(w)
    PROVE  /\ UNCHANGED <<orchVars, stopVars>> /\ w <= spawned /\ ~Done(w)
           /\ \/ \E r \in Statuses \ {"none"} : Moves(w, "done", r)
              \/ Moves(w, "waits", "pending")
              \/ \E t \in {"thinks", "executes"} : Moves(w, t, "running")
  <1>1. /\ UNCHANGED <<orchVars, stopVars>>
        /\ task[w] \in {"new", "waits", "thinks", "executes"}
    BY DEF WorkerStep, Begin, Resume, Execute, CommandEnds, AgentEnds, AgentCancelled
  <1>2. /\ w <= spawned /\ ~Done(w) /\ status[w] \in Statuses \ {"none"}
        /\ task[w] \in {"new", "waits"} => status[w] = "pending"
        /\ task[w] \in {"thinks", "executes"} => status[w] = "running"
    BY <1>1 DEF Known, Done, TypeOK, Workers
  <1>3. CASE Begin(w) \/ Resume(w)
    <2>1. task[w] \in {"new", "waits"} /\ at[w] + 1 \in Nat
      BY <1>3 DEF Begin, Resume, TypeOK
    <2>2. Ends(w, status[w]) \/ Proceeds(w, 1) \/ Proceeds(w, at[w] + 1)
      BY <1>3 DEF Begin, Resume
    <2> QED
      BY <1>1, <1>2, <2>1, <2>2, EndsMoves, ProceedsMoves
  <1>4. CASE Execute(w)
    <2>1. steps' \in [Workers -> 0..MaxSteps]
      BY <1>4, Bounds DEF Execute, TypeOK
    <2>2. status' = [status EXCEPT ![w] = "running"]
      BY <1>2, <1>4 DEF Execute, TypeOK
    <2> QED
      BY <1>1, <1>2, <1>4, <2>1, <2>2 DEF Execute, Moves, TypeOK
  <1>5. CASE CommandEnds(w)
    <2>1. status' = [status EXCEPT ![w] = "running"]
      BY <1>2, <1>5 DEF CommandEnds, TypeOK
    <2> QED
      BY <1>1, <1>2, <1>5, <2>1 DEF CommandEnds, Moves, TypeOK
  <1>6. CASE AgentEnds(w) \/ AgentCancelled(w)
    <2>1. \E r \in Outcomes \cup {"cancelled"} : Ends(w, r)
      BY <1>6 DEF AgentEnds, AgentCancelled
    <2>2. Outcomes \cup {"cancelled"} \subseteq Statuses \ {"none"}
      BY CrewPoolAssumption DEF Statuses
    <2> QED
      BY <1>1, <1>2, <2>1, <2>2, EndsMoves
  <1> QED
    BY <1>3, <1>4, <1>5, <1>6 DEF WorkerStep

(* A worker's step keeps the types.                                            *)
LEMMA WorkerTypes ==
    ASSUME TypeOK, Known, NEW w \in Workers, WorkerStep(w)
    PROVE  TypeOK' /\ Known'
  <1>1. PICK t \in Tasks, r \in Statuses :
          /\ Moves(w, t, r) /\ t \notin {"none", "new"} /\ r # "none"
          /\ t = "waits" => r = "pending"
          /\ t \in {"thinks", "executes"} => r = "running"
    BY WorkerMoves DEF Tasks, Statuses
  <1>2. UNCHANGED <<orchVars, stopVars>> /\ w <= spawned
    BY WorkerMoves
  <1>3. TypeOK'
    BY <1>1, <1>2 DEF TypeOK, Moves, orchVars, stopVars
  <1>4. Known'
    BY <1>1, <1>2, Bounds DEF Known, TypeOK, Moves, Workers
  <1> QED
    BY <1>3, <1>4

(* A task that has ended has ended for good.                                   *)
LEMMA DoneStays ==
    ASSUME TypeOK, Known, NEW w \in Workers, WorkerStep(w)
    PROVE  \A v \in Workers : Done(v) => task'[v] = "done" /\ status'[v] = status[v]
  BY WorkerMoves DEF Moves, Done, TypeOK

(* The wait for dependencies, from index from on, all earlier ones having      *)
(* ended.                                                                      *)
LEMMA ProceedsInOrder ==
    ASSUME TypeOK, Known, NEW w \in Workers, task[w] \in {"new", "waits"},
           NEW from \in Nat \ {0}, Proceeds(w, from),
           \A i \in 1..(from - 1) : i <= Len(deps[w]) /\ deps[w][i] < w => Done(deps[w][i])
    PROVE  \/ /\ task'[w] = "thinks"
              /\ \A i \in DOMAIN deps[w] : deps[w][i] < w => Done(deps[w][i])
           \/ /\ task'[w] = "waits" /\ at'[w] \in 1..Len(deps[w])
              /\ \A i \in 1..(at'[w] - 1) : deps[w][i] < w => Done(deps[w][i])
  <1>1. deps[w] \in Seq(Workers) /\ w <= spawned /\ spawned \in 0..MaxWorkers
    BY Bounds DEF TypeOK, Known, Workers
  <1>2. \A i \in from..Len(deps[w]) :
          deps[w][i] < w /\ ~Done(deps[w][i]) => i \in Stalls(w, from)
    BY <1>1, Bounds DEF Stalls, Spawned, Workers
  <1>3. CASE Stalls(w, from) = {} /\ task' = [task EXCEPT ![w] = "thinks"]
    <2>1. ASSUME NEW i \in 1..Len(deps[w]), deps[w][i] < w
          PROVE  Done(deps[w][i])
      BY <1>1, <1>2, <1>3, <2>1
    <2>2. DOMAIN deps[w] = 1..Len(deps[w]) /\ task'[w] = "thinks"
      BY <1>1, <1>3 DEF TypeOK
    <2> QED
      BY <2>1, <2>2
  <1>4. ASSUME NEW i \in Stalls(w, from), \A j \in Stalls(w, from) : i <= j,
               task' = [task EXCEPT ![w] = "waits"], at' = [at EXCEPT ![w] = i]
        PROVE  /\ task'[w] = "waits" /\ at'[w] \in 1..Len(deps[w])
               /\ \A k \in 1..(at'[w] - 1) : deps[w][k] < w => Done(deps[w][k])
    <2>1. i \in from..Len(deps[w]) /\ at'[w] = i /\ task'[w] = "waits"
      BY <1>4 DEF Stalls, TypeOK
    <2>2. Len(deps[w]) \in Nat
      BY <1>1
    <2>3. ASSUME NEW k \in 1..(i - 1), deps[w][k] < w
          PROVE  Done(deps[w][k])
      <3>1. CASE k < from
        BY <3>1, <2>1, <2>2, <2>3
      <3>2. CASE k >= from
        <4>1. k \in from..Len(deps[w]) /\ k \notin Stalls(w, from)
          BY <3>2, <2>1, <2>2, <1>4
        <4> QED
          BY <4>1, <1>2, <2>3
      <3> QED
        BY <3>1, <3>2, <2>1
    <2> QED
      BY <2>1, <2>2, <2>3
  <1> QED
    BY <1>3, <1>4 DEF Proceeds

(* A worker's step keeps the order of the dependencies: a worker that starts   *)
(* to run has passed over none that had not ended.                             *)
LEMMA WorkerOrder ==
    ASSUME TypeOK, Known, Waited, DependenciesFirst, NEW w \in Workers, WorkerStep(w)
    PROVE  Waited' /\ DependenciesFirst'
  <1>1. /\ spawned' = spawned /\ deps' = deps /\ w <= spawned
        /\ \A v \in Workers \ {w} :
              task'[v] = task[v] /\ status'[v] = status[v] /\ at'[v] = at[v]
    BY WorkerMoves DEF Moves, TypeOK
  <1>2. deps \in [Workers -> Seq(Workers)] /\ spawned \in 0..MaxWorkers /\ w <= spawned
    BY <1>1 DEF TypeOK
  <1> DEFINE Before(v, n) == \A i \in 1..n : deps[v][i] < v => Done(deps[v][i])
  <1>3. \/ task'[w] # "waits" /\ (status'[w] = "pending" \/ Before(w, Len(deps[w])))
        \/ task'[w] = "waits" /\ at'[w] \in 1..Len(deps[w]) /\ Before(w, at'[w] - 1)
           /\ status'[w] = "pending"
    <2>1. CASE Begin(w)
      <3>1. CASE must[w]
        BY <2>1, <3>1 DEF Begin, Ends, TypeOK, Known
      <3>2. CASE ~must[w]
        <4>1. Proceeds(w, 1) /\ task[w] = "new" /\ status[w] = "pending"
          BY <2>1, <3>2 DEF Begin, Known
        <4>2. \/ task'[w] = "thinks" /\ \A i \in DOMAIN deps[w] : deps[w][i] < w => Done(deps[w][i])
              \/ task'[w] = "waits" /\ at'[w] \in 1..Len(deps[w]) /\ Before(w, at'[w] - 1)
          BY <4>1, ProceedsInOrder
        <4>3. task'[w] = "waits" => status'[w] = "pending"
          BY <4>1 DEF Proceeds, TypeOK
        <4> QED
          BY <4>2, <4>3, <1>2
      <3> QED
        BY <3>1, <3>2
    <2>2. CASE Resume(w)
      <3>1. task[w] = "waits" /\ ~Blocked(w) /\ Proceeds(w, at[w] + 1) /\ status[w] = "pending"
        BY <2>2 DEF Resume, Known
      <3>2. at[w] \in 1..Len(deps[w]) /\ Before(w, at[w] - 1)
        BY <3>1 DEF Waited
      <3>3. deps[w][at[w]] < w => Done(deps[w][at[w]])
        BY <3>1, <1>2, <3>2 DEF Blocked, Awaited, Workers
      <3>4. Before(w, at[w])
        BY <3>2, <3>3
      <3>5. PICK from \in Nat \ {0} : from = at[w] + 1
        BY <3>2, <1>2
      <3>6. /\ Proceeds(w, from)
            /\ \A i \in 1..(from - 1) : i <= Len(deps[w]) /\ deps[w][i] < w => Done(deps[w][i])
        BY <3>1, <3>2, <3>4, <3>5, <1>2
      <3>7. \/ task'[w] = "thinks" /\ \A i \in DOMAIN deps[w] : deps[w][i] < w => Done(deps[w][i])
            \/ task'[w] = "waits" /\ at'[w] \in 1..Len(deps[w]) /\ Before(w, at'[w] - 1)
        BY <3>1, <3>6, ProceedsInOrder
      <3>8. task'[w] = "waits" => status'[w] = "pending"
        BY <3>1 DEF Proceeds, TypeOK
      <3> QED
        BY <3>7, <3>8, <1>2
    <2>3. CASE Execute(w) \/ CommandEnds(w) \/ AgentEnds(w) \/ AgentCancelled(w)
      <3>1. task[w] \in {"thinks", "executes"} /\ task'[w] # "waits"
        BY <2>3 DEF Execute, CommandEnds, AgentEnds, AgentCancelled, Ends, TypeOK
      <3>2. status[w] # "pending" /\ w \in Spawned
        BY <3>1, <1>2 DEF Known, Spawned, Workers
      <3>3. Before(w, Len(deps[w]))
        BY <3>2, <1>2 DEF DependenciesFirst
      <3> QED
        BY <3>1, <3>3
    <2> QED
      BY <2>1, <2>2, <2>3 DEF WorkerStep
  <1>4. \A v \in Workers : Done(v) => task'[v] = "done"
    BY DoneStays
  <1>5. Waited'
    <2> SUFFICES ASSUME NEW v \in Workers, task'[v] = "waits"
                 PROVE  /\ at'[v] \in 1..Len(deps[v])
                        /\ \A i \in 1..(at'[v] - 1) : deps[v][i] < v => task'[deps[v][i]] = "done"
      BY <1>1 DEF Waited, Done
    <2>1. at'[v] \in 1..Len(deps[v]) /\ Before(v, at'[v] - 1)
      BY <1>1, <1>3 DEF Waited
    <2>2. \A i \in 1..(at'[v] - 1) : deps[v][i] \in Workers
      BY <1>2, <2>1
    <2> QED
      BY <2>1, <2>2, <1>4
  <1>6. DependenciesFirst'
    <2> SUFFICES ASSUME NEW v \in Spawned, status'[v] # "pending",
                        NEW i \in DOMAIN deps[v], deps[v][i] < v
                 PROVE  task'[deps[v][i]] = "done"
      BY <1>1 DEF DependenciesFirst, Done, Spawned
    <2>1. v \in Workers /\ deps[v][i] \in Workers /\ DOMAIN deps[v] = 1..Len(deps[v])
      BY <1>2, Bounds DEF Spawned, Workers
    <2>2. Done(deps[v][i])
      BY <1>1, <1>3, <2>1 DEF DependenciesFirst
    <2> QED
      BY <2>1, <2>2, <1>4
  <1> QED
    BY <1>5, <1>6

(* A worker's step keeps the invariant.                                        *)
LEMMA WorkerKeepsInv ==
    ASSUME CrewInv, NEW w \in Workers, WorkerStep(w)
    PROVE  CrewInv'
  <1> USE DEF CrewInv
  <1>1. TypeOK' /\ Known' /\ Waited' /\ DependenciesFirst'
    BY WorkerTypes, WorkerOrder
  <1>2. UNCHANGED <<orchVars, stopVars>> /\ spawned' = spawned
    BY WorkerMoves DEF Moves
  <1>3. Spawned \subseteq Workers
    BY Bounds DEF TypeOK, Spawned, Workers
  <1>4. Undone(Spawned)' \subseteq Undone(Spawned) /\ (AllDone => AllDone')
    BY <1>2, <1>3, DoneStays DEF Undone, AllDone, Done, Spawned
  <1>5. WaitsForAll' /\ SynthesisIsComplete' /\ NoOrphans' /\ StopOrder'
    BY <1>2, <1>4 DEF WaitsForAll, SynthesisIsComplete, NoOrphans, StopOrder, QuietAfterStop,
       orchVars, stopVars
  <1> QED
    BY <1>1, <1>5

(* Spawn adds a worker; nobody waits for it yet, and no Stop is under way.     *)
LEMMA SpawnKeepsInv ==
    ASSUME CrewInv, NEW list, list \in Dependencies[spawned + 1], spawned + 1 \in Workers,
           Spawn(list)
    PROVE  CrewInv'
  <1> DEFINE new == spawned + 1
  <1> USE DEF CrewInv
  <1>1. /\ orch = "thinks" /\ ~stopped /\ orch' \in {"thinks", "closing"}
        /\ spawned' = new /\ deps' = [deps EXCEPT ![new] = list]
        /\ status' = [status EXCEPT ![new] = "pending"]
        /\ task' = [task EXCEPT ![new] = "new"] /\ UNCHANGED <<at, steps, purpose, waiting, stopVars>>
        /\ crew' \in {crew, "complete"}
    BY DEF Spawn
  <1>2. list \in Seq(Workers) /\ spawned \in Nat /\ new \in 1..MaxWorkers
    BY CrewPoolAssumption, Bounds DEF TypeOK, Workers
  <1>3. must' \in [Workers -> BOOLEAN] /\ iteration' \in Nat
    BY CancelsTyped, Bounds DEF Spawn, TypeOK
  <1> HIDE DEF new
  <1>4. TypeOK'
    <2>1. status' \in [Workers -> Statuses] /\ task' \in [Workers -> Tasks]
          /\ deps' \in [Workers -> Seq(Workers)]
      BY <1>1, <1>2 DEF TypeOK, Statuses, Tasks
    <2>2. spawned' \in 0..MaxWorkers
      BY <1>1, <1>2
    <2> QED
      BY <1>1, <1>3, <2>1, <2>2 DEF TypeOK, stopVars
  <1>5. \A v \in Workers \ {new} :
          task'[v] = task[v] /\ status'[v] = status[v] /\ deps'[v] = deps[v] /\ at'[v] = at[v]
    BY <1>1 DEF TypeOK
  <1>6. /\ task'[new] = "new" /\ status'[new] = "pending"
        /\ task[new] = "none" /\ new \in Workers
    BY <1>1, <1>2 DEF TypeOK, Known, Workers, new
  <1>7. Known'
    BY <1>1, <1>2, <1>5, <1>6, Bounds DEF Known, Workers, new
  <1>8. \A v \in Workers : Done(v) => task'[v] = "done"
    BY <1>5, <1>6 DEF Done
  <1>9. Waited'
    <2> SUFFICES ASSUME NEW v \in Workers, task'[v] = "waits"
                 PROVE  /\ at'[v] \in 1..Len(deps'[v])
                        /\ \A i \in 1..(at'[v] - 1) : deps'[v][i] < v => task'[deps'[v][i]] = "done"
      BY DEF Waited, Done
    <2>1. v # new /\ task[v] = "waits" /\ deps[v] \in Seq(Workers)
      BY <1>5, <1>6 DEF TypeOK
    <2>2. /\ at[v] \in 1..Len(deps[v])
          /\ \A i \in 1..(at[v] - 1) : deps[v][i] < v => Done(deps[v][i])
      BY <2>1 DEF Waited
    <2>3. \A i \in 1..(at[v] - 1) : deps[v][i] \in Workers
      BY <2>1, <2>2
    <2> QED
      BY <2>1, <2>2, <2>3, <1>5, <1>8
  <1>10. DependenciesFirst'
    <2> SUFFICES ASSUME NEW v \in Spawned', status'[v] # "pending",
                        NEW i \in DOMAIN deps'[v], deps'[v][i] < v
                 PROVE  task'[deps'[v][i]] = "done"
      BY DEF DependenciesFirst, Done
    <2>0. v \in 1..new /\ v # new
      BY <1>1, <1>6 DEF Spawned
    <2>1. v \in Spawned /\ v \in Workers /\ v # new
      BY <1>2, <2>0, Bounds DEF Spawned, Workers, new
    <2>2. deps'[v] = deps[v] /\ status[v] # "pending" /\ deps[v] \in Seq(Workers)
      BY <2>1, <1>5 DEF TypeOK
    <2>3. Done(deps[v][i]) /\ deps[v][i] \in Workers
      BY <2>1, <2>2 DEF DependenciesFirst
    <2> QED
      BY <2>2, <2>3, <1>8
  <1>11. WaitsForAll' /\ SynthesisIsComplete' /\ NoOrphans' /\ StopOrder'
    BY <1>1 DEF WaitsForAll, SynthesisIsComplete, NoOrphans, StopOrder, QuietAfterStop, stopVars
  <1> QED
    BY <1>4, <1>7, <1>9, <1>10, <1>11

(* What holds of the workers holds after a step that leaves them alone.        *)
LEMMA WorkersStayInv ==
    ASSUME CrewInv, WorkersStay
    PROVE  Known' /\ Waited' /\ DependenciesFirst' /\ AllDone' = AllDone
           /\ Undone(Spawned)' = Undone(Spawned)
  BY DEF CrewInv, WorkersStay, Known, Waited, DependenciesFirst, AllDone, Undone, Spawned, Done

(* The rounds of the orchestrator that await no agents in order to synthesise. *)
LEMMA RoundKeepsInv ==
    ASSUME CrewInv, WorkersStay, UNCHANGED stopVars,
           \/ orch' \in {"thinks", "closing", "cancels"}
           \/ orch' = "waits" /\ purpose' = "results"
           \/ orch' = "waits" /\ Undone(Spawned) \subseteq waiting'
           \/ orch' = "synthesises" /\ AllDone,
           purpose' \in {"results", "finish", "answer"}, waiting' \subseteq Workers,
           iteration' \in Nat, crew' \in {"idle", "running", "complete", "error"}
    PROVE  CrewInv'
  <1>1. TypeOK'
    BY DEF CrewInv, TypeOK, WorkersStay, stopVars
  <1>2. WaitsForAll' /\ SynthesisIsComplete' /\ NoOrphans' /\ StopOrder'
    BY WorkersStayInv DEF CrewInv, WaitsForAll, SynthesisIsComplete, NoOrphans, StopOrder,
       QuietAfterStop, stopVars
  <1> QED
    BY <1>1, <1>2, WorkersStayInv DEF CrewInv

(* An orchestrator's step keeps the invariant.                                 *)
LEMMA OrchestratorKeepsInv ==
    ASSUME CrewInv, OrchestratorStep
    PROVE  CrewInv'
  <1> USE DEF CrewInv
  <1>0. /\ Spawned \subseteq Workers /\ iteration \in Nat /\ waiting \subseteq Workers
        /\ crew \in {"idle", "running", "complete", "error"}
        /\ purpose \in {"results", "finish", "answer"}
    BY Bounds DEF TypeOK, Spawned, Workers
  <1>1. ASSUME NEW state \in {"idle", "running", "complete", "error"}, Close(state),
               UNCHANGED stopVars
        PROVE  CrewInv'
    BY <1>0, <1>1, CloseStep, RoundKeepsInv
  <1>2. ASSUME NextRound, UNCHANGED stopVars
        PROVE  CrewInv'
    BY <1>0, <1>2, NextRoundStep, RoundKeepsInv
  <1>3. ASSUME NEW why \in {"finish", "answer"}, Synthesises(why), AllDone, UNCHANGED stopVars
        PROVE  CrewInv'
    BY <1>0, <1>3, SynthesisesStep, RoundKeepsInv
  <1>4. ASSUME NEW S \in SUBSET Workers, NEW why \in {"results", "finish", "answer"},
               orch' = "waits", waiting' = Undone(S), purpose' = why,
               UNCHANGED <<workerVars, iteration, crew>>, UNCHANGED stopVars,
               why # "results" => Undone(Spawned) \subseteq Undone(S)
        PROVE  CrewInv'
    <2>1. WorkersStay
      BY <1>4 DEF WorkersStay, workerVars, TypeOK
    <2>2. waiting' \subseteq Workers
      BY <1>4 DEF Undone
    <2> QED
      BY <1>0, <1>4, <2>1, <2>2, RoundKeepsInv
  <1>5. CASE \E w \in Workers : \E list \in Dependencies[w] : w = spawned + 1 /\ Spawn(list)
    BY <1>5, SpawnKeepsInv
  <1>6. ASSUME NEW S \in (SUBSET Spawned) \ {{}}, WaitForAgents(S)
        PROVE  CrewInv'
    BY <1>0, <1>2, <1>4, <1>6 DEF WaitForAgents, WaitsFor
  <1>7. ASSUME NEW why \in {"finish", "answer"}, Finish(why)
        PROVE  CrewInv'
    <2>1. Undone(Spawned) = {} => AllDone
      BY DEF Undone, AllDone
    <2> QED
      BY <1>0, <1>3, <1>4, <1>7, <2>1 DEF Finish, WaitsFor
  <1>8. CASE OtherTool \/ Answer
    BY <1>1, <1>2, <1>8 DEF OtherTool, Answer
  <1>9. ASSUME NEW w \in Spawned, CancelAgent(w)
        PROVE  CrewInv'
    <2>1. CASE Done(w)
      BY <1>2, <1>9, <2>1 DEF CancelAgent
    <2>2. CASE ~Done(w)
      <3>1. WorkersStay
        BY <1>9, <2>2, CancelsTyped DEF CancelAgent, WorkersStay
      <3> QED
        BY <1>0, <1>9, <2>2, <3>1, RoundKeepsInv DEF CancelAgent
    <2> QED
      BY <2>1, <2>2
  <1>10. CASE WaitReturns
    <2>1. CASE Undone(waiting) # {}
      <3>1. purpose # "results" => Undone(Spawned) \subseteq Undone(waiting)
        BY <1>10 DEF WaitReturns, WaitsForAll, Undone
      <3> QED
        BY <1>0, <1>4, <1>10, <2>1, <3>1 DEF WaitReturns, WaitsFor
    <2>2. CASE Undone(waiting) = {} /\ purpose # "results"
      <3>1. AllDone
        BY <1>10, <2>2 DEF WaitReturns, WaitsForAll, Undone, AllDone
      <3> QED
        BY <1>0, <1>3, <1>10, <2>2, <3>1 DEF WaitReturns, WaitsFor
    <2>3. CASE Undone(waiting) = {} /\ purpose = "results"
      BY <1>0, <1>1, <1>2, <1>10, <2>3 DEF WaitReturns, WaitsFor
    <2> QED
      BY <2>1, <2>2, <2>3
  <1>11. CASE CancelReturns \/ Synthesised \/ StopsAtLLM
    BY <1>0, <1>1, <1>2, <1>11 DEF CancelReturns, Synthesised, StopsAtLLM
  <1>12. CASE Closed
    <2>1. WorkersStay /\ AllDone /\ UNCHANGED stopVars
      BY <1>12 DEF Closed, WorkersStay, workerVars, TypeOK
    <2>2. TypeOK'
      <3>1. crew' \in {"idle", "running", "complete", "error"} /\ orch' = "done"
            /\ UNCHANGED <<purpose, waiting, iteration>>
        <4>1. crew' = crew \/ crew' = "idle"
          BY <1>12 DEF Closed
        <4> QED
          BY <1>0, <1>12, <4>1 DEF Closed
      <3> QED
        BY <1>0, <2>1, <3>1 DEF TypeOK, WorkersStay, stopVars
    <2>3. WaitsForAll' /\ SynthesisIsComplete' /\ NoOrphans' /\ StopOrder'
      <3>1. orch' = "done" /\ AllDone' /\ stopped' = stopped /\ canceller' = canceller
        BY <1>12, <2>1, WorkersStayInv DEF Closed, stopVars
      <3>2. stopped => crew' = "idle"
        BY <1>12 DEF Closed
      <3> QED
        BY <3>1, <3>2 DEF WaitsForAll, SynthesisIsComplete, NoOrphans, StopOrder, QuietAfterStop
    <2> QED
      BY <2>1, <2>2, <2>3, WorkersStayInv
  <1> QED
    BY <1>5, <1>6, <1>7, <1>8, <1>9, <1>10, <1>11, <1>12 DEF OrchestratorStep

(* Stop, and the task that cancels the crew.                                   *)
LEMMA StopKeepsInv ==
    ASSUME CrewInv, Stop \/ CancelCrew \/ CrewCancelled
    PROVE  CrewInv'
  <1> USE DEF CrewInv
  <1>1. WorkersStay
    BY CancelsTyped DEF Stop, CancelCrew, CrewCancelled, CancelAll, WorkersStay, workerVars, TypeOK
  <1>2. /\ UNCHANGED <<orch, purpose, waiting, iteration>> /\ crew' \in {crew, "idle"}
        /\ stopped' \in BOOLEAN /\ canceller' \in {"new", "gathers", "done"}
    BY DEF Stop, CancelCrew, CrewCancelled, orchVars, TypeOK
  <1>3. TypeOK'
    BY <1>1, <1>2 DEF TypeOK, WorkersStay
  <1>4. WaitsForAll' /\ SynthesisIsComplete' /\ NoOrphans'
    BY <1>1, <1>2, WorkersStayInv DEF WaitsForAll, SynthesisIsComplete, NoOrphans
  <1>5. StopOrder'
    BY <1>1, WorkersStayInv
    DEF Stop, CancelCrew, CrewCancelled, StopOrder, QuietAfterStop, NoOrphans, orchVars
  <1> QED
    BY <1>1, <1>3, <1>4, <1>5, WorkersStayInv

(* The invariant holds: the types, what is known of the ids, the waits and the *)
(* order of a Stop, and the safety properties that rest on them.               *)
THEOREM CrewInvariant == Spec => []CrewInv
  <1>1. CrewInv /\ [Next]_vars => CrewInv'
    <2> SUFFICES ASSUME CrewInv, [Next]_vars PROVE CrewInv'
      OBVIOUS
    <2>1. CASE UNCHANGED vars
      <3>1. WorkersStay /\ UNCHANGED <<orchVars, stopVars>>
        BY <2>1 DEF vars, workerVars, WorkersStay, CrewInv, TypeOK
      <3>2. TypeOK' /\ WaitsForAll' /\ SynthesisIsComplete' /\ NoOrphans' /\ StopOrder'
        BY <3>1, WorkersStayInv DEF CrewInv, WorkersStay, orchVars, stopVars, TypeOK, WaitsForAll,
           SynthesisIsComplete, NoOrphans, StopOrder, QuietAfterStop
      <3> QED
        BY <3>1, <3>2, WorkersStayInv DEF CrewInv
    <2> QED
      BY <2>1, WorkerKeepsInv, OrchestratorKeepsInv, StopKeepsInv DEF Next
  <1> QED
    BY <1>1, CrewInit, PTL DEF Spec

(* Type correctness.                                                           *)
THEOREM CrewTypeCorrect == Spec => []TypeOK
  <1>1. CrewInv => TypeOK
    BY DEF CrewInv
  <1> QED
    BY <1>1, CrewInvariant, PTL

(* depends_on: an agent never starts before the agents it names that were      *)
(* spawned before it have ended, whatever is cancelled meanwhile.              *)
THEOREM DependenciesEndFirst == Spec => []DependenciesFirst
  <1>1. CrewInv => DependenciesFirst
    BY DEF CrewInv
  <1> QED
    BY <1>1, CrewInvariant, PTL

(* finish synthesises only once every agent has ended.                         *)
THEOREM SynthesisSeesAll == Spec => []SynthesisIsComplete
  <1>1. CrewInv => SynthesisIsComplete
    BY DEF CrewInv
  <1> QED
    BY <1>1, CrewInvariant, PTL

(* However the run ends, no agent is left behind.                              *)
THEOREM RunLeavesNoOrphans == Spec => []NoOrphans
  <1>1. CrewInv => NoOrphans
    BY DEF CrewInv
  <1> QED
    BY <1>1, CrewInvariant, PTL

(* Once the task of Stop is done, all agents have ended for good; once the run *)
(* is over too, the crew is idle.                                              *)
THEOREM StopIsFinal == Spec => []QuietAfterStop
  <1>1. CrewInv => QuietAfterStop
    BY DEF CrewInv, StopOrder
  <1> QED
    BY <1>1, CrewInvariant, PTL

-------------------------------------------------------------------------------
(* The memory of the client that the agents of a crew ask through              *)
(* (ConversationMemory).  With several conversations, or after a rewind, a     *)
(* summary can be of other messages than those it replaces; as long as there is *)
(* one conversation that only grows, it is theirs.                             *)
MemoryAssumption == recent_to_keep \in Nat
OneConversation == \A c, d \in Conversations : c = d
GrowingSpec ==
    MemoryInit /\ [][MemoryNext /\ ~\E c \in Conversations : Forget(c)]_memoryVars

Messages == Conversations \X Nat
CallRecords == [step : {"idle", "asking", "summarizing"}, messages : Seq(Messages), attempt : Nat]
FirstSaid(c, n) == [i \in 1..n |-> <<c, i>>]

MemoryTypes ==
    /\ said \in [Conversations -> Nat]
    /\ history \in [Conversations -> Seq(Messages)]
    /\ calls \in [Conversations -> CallRecords]
    /\ DOMAIN prompts = Conversations
    /\ summarized_count \in Nat

(* A history is all that was said, and a call has it.                          *)
AllThatWasSaid ==
    \A c \in Conversations :
        /\ history[c] = FirstSaid(c, said[c])
        /\ ~Idle(c) => calls[c].messages = history[c]
        /\ calls[c].step = "summarizing" => Len(history[c]) > recent_to_keep

(* The summary is of the first messages, as many as its number says.           *)
SummaryOfFirst ==
    cached_summary # {} =>
        \A c \in Conversations : cached_summary = ToSet(FirstSaid(c, summarized_count))

MemoryInv == MemoryTypes /\ AllThatWasSaid /\ SummaryOfFirst /\ OlderAreSummarized

LEMMA FirstSaidIsSequence ==
    ASSUME NEW c \in Conversations, NEW n \in Nat
    PROVE  /\ FirstSaid(c, n) \in Seq(Messages) /\ Len(FirstSaid(c, n)) = n
           /\ ToSet(FirstSaid(c, n)) = {<<c, i>> : i \in 1..n}
           /\ Append(FirstSaid(c, n), <<c, n + 1>>) = FirstSaid(c, n + 1)
  <1>1. \A i \in 1..n + 1 : <<c, i>> \in Messages
    BY DEF Messages
  <1>2. 1..n \subseteq 1..n + 1
    OBVIOUS
  <1>3. FirstSaid(c, n) \in [1..n -> Messages] /\ FirstSaid(c, n + 1) \in [1..n + 1 -> Messages]
    BY <1>1, <1>2 DEF FirstSaid
  <1>4. FirstSaid(c, n) \in Seq(Messages) /\ FirstSaid(c, n + 1) \in Seq(Messages)
    BY <1>3, SeqDef
  <1>5. Len(FirstSaid(c, n)) = n /\ DOMAIN FirstSaid(c, n) = 1..n
    BY <1>3, <1>4, LenProperties DEF FirstSaid
  <1>6. ToSet(FirstSaid(c, n)) = {<<c, i>> : i \in 1..n}
    BY <1>5 DEF ToSet, FirstSaid
  <1>7. Append(FirstSaid(c, n), <<c, n + 1>>) = FirstSaid(c, n + 1)
    <2> DEFINE s == FirstSaid(c, n)
               m == <<c, n + 1>>
    <2>1. m \in Messages
      BY <1>1
    <2>2. /\ Append(s, m) \in Seq(Messages) /\ Len(Append(s, m)) = n + 1
          /\ \A i \in 1..n : Append(s, m)[i] = s[i]
          /\ Append(s, m)[n + 1] = m
      <3> HIDE DEF s, m
      <3> QED BY <1>4, <1>5, <2>1, AppendProperties DEF s
    <2>3. Len(FirstSaid(c, n + 1)) = n + 1
      BY <1>3, <1>4, LenProperties DEF FirstSaid
    <2>4. \A i \in 1..n + 1 : Append(s, m)[i] = FirstSaid(c, n + 1)[i]
      <3> SUFFICES ASSUME NEW i \in 1..n + 1 PROVE Append(s, m)[i] = <<c, i>>
        BY DEF FirstSaid
      <3>1. i \in 1..n \/ i = n + 1
        OBVIOUS
      <3>2. i \in 1..n => s[i] = <<c, i>>
        BY DEF FirstSaid
      <3> HIDE DEF s
      <3> QED BY <2>2, <3>1, <3>2
    <2> HIDE DEF s, m
    <2>5. Append(s, m) = FirstSaid(c, n + 1)
      BY <1>4, <2>2, <2>3, <2>4, SeqEqual
    <2> QED BY <2>5 DEF s, m
  <1> QED BY <1>4, <1>5, <1>6, <1>7

(* What is summarized of all that was said, and that nothing is lost between    *)
(* the older messages and the recent ones.                                     *)
LEMMA OlderAndRecent ==
    ASSUME MemoryAssumption, NEW c \in Conversations, NEW n \in Nat, recent_to_keep < n
    PROVE  LET m == FirstSaid(c, n)
           IN  /\ SplitPoint(m) \in 1..n
               /\ Older(m) = FirstSaid(c, SplitPoint(m))
               /\ \A k \in Nat : SplitPoint(m) <= k =>
                     ToSet(m) \subseteq ToSet(FirstSaid(c, k)) \cup ToSet(Recent(m))
  <1> DEFINE m == FirstSaid(c, n)
             k0 == n - recent_to_keep
  <1>1. m \in Seq(Messages) /\ Len(m) = n /\ \A i \in 1..n : m[i] = <<c, i>>
    BY FirstSaidIsSequence DEF FirstSaid
  <1>2. /\ SplitPoint(m) = k0 /\ k0 \in 1..n /\ k0 \in Nat /\ 1..k0 \subseteq 1..n
        /\ recent_to_keep \in Nat
    BY <1>1 DEF SplitPoint, MemoryAssumption
  <1> HIDE DEF m
  <1>3. Older(m) = [i \in 1..k0 |-> m[i]]
    BY <1>1, <1>2 DEF Older
  <1>4. Older(m) = FirstSaid(c, k0)
    BY <1>1, <1>2, <1>3 DEF FirstSaid
  <1>5. Recent(m) = [i \in 1..n - k0 |-> m[k0 + i]]
    <2>1. Recent(m) = [i \in 1..(n - (k0 + 1) + 1) |-> m[(k0 + 1) + i - 1]]
      BY <1>1, <1>2 DEF Recent
    <2>2. n - (k0 + 1) + 1 = n - k0 /\ \A i \in 1..n - k0 : (k0 + 1) + i - 1 = k0 + i
      BY <1>2
    <2> QED BY <2>1, <2>2
  <1>6. ASSUME NEW k \in Nat, k0 <= k, NEW x \in ToSet(m)
        PROVE  x \in ToSet(FirstSaid(c, k)) \cup ToSet(Recent(m))
    <2>1. PICK i \in 1..n : x = <<c, i>>
      BY <1>1, FirstSaidIsSequence DEF m
    <2>2. CASE i <= k0
      <3>1. i \in 1..k
        BY <1>2, <1>6, <2>2
      <3> QED BY <2>1, <3>1, FirstSaidIsSequence
    <2>3. CASE ~(i <= k0)
      <3>1. i - k0 \in 1..n - k0 /\ k0 + (i - k0) = i
        BY <1>2, <2>3
      <3>2. Recent(m)[i - k0] = x /\ i - k0 \in DOMAIN Recent(m)
        BY <1>1, <1>5, <2>1, <3>1
      <3> QED BY <3>2 DEF ToSet
    <2> QED BY <2>2, <2>3
  <1> QED BY <1>2, <1>4, <1>6 DEF m

LEMMA MemoryStarts == MemoryInit => MemoryInv
  <1> SUFFICES ASSUME MemoryInit PROVE MemoryInv
    OBVIOUS
  <1>1. NoCall \in CallRecords /\ <<>> \in Seq(Messages) /\ NoCall.step = "idle"
    BY EmptySeq DEF NoCall, CallRecords
  <1>2. MemoryTypes
    BY <1>1 DEF MemoryInit, MemoryTypes
  <1>3. \A c \in Conversations : FirstSaid(c, 0) = <<>>
    BY DEF FirstSaid
  <1>4. AllThatWasSaid /\ SummaryOfFirst /\ OlderAreSummarized
    BY <1>1, <1>3 DEF MemoryInit, AllThatWasSaid, SummaryOfFirst, OlderAreSummarized, Idle
  <1> QED BY <1>2, <1>4 DEF MemoryInv

(* A message of the user, or of the model.                                     *)
LEMMA SayingKeeps ==
    ASSUME MemoryInv, NEW c \in Conversations, Say(c) \/ Answered(c)
    PROVE  MemoryInv'
  <1>0. MemoryTypes /\ AllThatWasSaid /\ NoCall \in CallRecords /\ NoCall.step = "idle"
    BY EmptySeq DEF MemoryInv, NoCall, CallRecords
  <1>1. /\ said' = [said EXCEPT ![c] = @ + 1]
        /\ history' = [history EXCEPT ![c] = Append(@, <<c, said[c] + 1>>)]
        /\ UNCHANGED cacheVars
        /\ \/ Idle(c) /\ UNCHANGED <<calls, prompts>>
           \/ calls' = [calls EXCEPT ![c] = NoCall] /\ prompts' = [prompts EXCEPT ![c] = NoPrompt]
    BY DEF Say, Answered
  <1>2. /\ said'[c] = said[c] + 1 /\ said[c] \in Nat
        /\ history'[c] = FirstSaid(c, said[c] + 1) /\ history'[c] \in Seq(Messages)
        /\ \A d \in Conversations : d # c => said'[d] = said[d] /\ history'[d] = history[d]
    <2>1. said[c] \in Nat /\ said[c] + 1 \in Nat /\ history[c] = FirstSaid(c, said[c])
      BY <1>0 DEF MemoryTypes, AllThatWasSaid
    <2>2. Append(history[c], <<c, said[c] + 1>>) = FirstSaid(c, said[c] + 1)
      BY <2>1, FirstSaidIsSequence
    <2>3. FirstSaid(c, said[c] + 1) \in Seq(Messages)
      BY <2>1, FirstSaidIsSequence
    <2> QED BY <1>0, <1>1, <2>1, <2>2, <2>3 DEF MemoryTypes
  <1>3. /\ calls'[c].step = "idle" /\ calls' \in [Conversations -> CallRecords]
        /\ \A d \in Conversations : d # c => calls'[d] = calls[d] /\ prompts'[d] = prompts[d]
        /\ DOMAIN prompts' = Conversations
    BY <1>0, <1>1 DEF MemoryTypes, Idle
  <1>4. MemoryTypes'
    <2>1. said' \in [Conversations -> Nat] /\ history' \in [Conversations -> Seq(Messages)]
      BY <1>0, <1>1, <1>2 DEF MemoryTypes
    <2> QED BY <1>0, <1>1, <1>3, <2>1 DEF MemoryTypes, cacheVars
  <1>5. AllThatWasSaid'
    BY <1>0, <1>2, <1>3 DEF AllThatWasSaid, Idle
  <1>6. SummaryOfFirst'
    BY <1>1 DEF MemoryInv, SummaryOfFirst, cacheVars
  <1>7. OlderAreSummarized'
    BY <1>3 DEF MemoryInv, OlderAreSummarized
  <1> QED BY <1>4, <1>5, <1>6, <1>7 DEF MemoryInv

(* A call begins, goes on or ends.                                             *)
LEMMA CallKeeps ==
    ASSUME MemoryInv, NEW c \in Conversations, NEW r \in CallRecords,
           calls' = [calls EXCEPT ![c] = r], UNCHANGED <<history, said>>,
           r.step # "idle" => r.messages = history[c],
           r.step = "summarizing" => Len(history[c]) > recent_to_keep,
           DOMAIN prompts' = Conversations,
           \A d \in Conversations : d # c => prompts'[d] = prompts[d],
           summarized_count' \in Nat, SummaryOfFirst',
           r.step = "asking" /\ prompts'[c].summary # {} =>
               ToSet(history[c]) \subseteq prompts'[c].summary \cup ToSet(prompts'[c].messages)
    PROVE  MemoryInv'
  <1>0. MemoryTypes /\ AllThatWasSaid
    BY DEF MemoryInv
  <1>1. /\ calls' \in [Conversations -> CallRecords] /\ calls'[c] = r
        /\ \A d \in Conversations : d # c => calls'[d] = calls[d]
    BY <1>0 DEF MemoryTypes
  <1>2. MemoryTypes'
    BY <1>0, <1>1 DEF MemoryTypes
  <1>3. AllThatWasSaid'
    BY <1>0, <1>1 DEF AllThatWasSaid, Idle
  <1>4. OlderAreSummarized'
    <2> SUFFICES ASSUME NEW d \in Conversations, calls'[d].step = "asking", prompts'[d].summary # {}
                 PROVE  ToSet(calls'[d].messages) \subseteq
                            prompts'[d].summary \cup ToSet(prompts'[d].messages)
      BY DEF OlderAreSummarized
    <2>1. CASE d = c
      BY <1>1, <2>1
    <2>2. CASE d # c
      BY <1>1, <2>2 DEF MemoryInv, OlderAreSummarized
    <2> QED BY <2>1, <2>2
  <1> QED BY <1>2, <1>3, <1>4 DEF MemoryInv

LEMMA MemoryStep ==
    ASSUME MemoryAssumption, OneConversation, MemoryInv,
           [MemoryNext /\ ~\E c \in Conversations : Forget(c)]_memoryVars
    PROVE  MemoryInv'
  <1>0. MemoryTypes /\ AllThatWasSaid /\ SummaryOfFirst
    BY DEF MemoryInv
  <1>1. ASSUME NEW c \in Conversations, Generate(c) PROVE MemoryInv'
    <2> DEFINE m == history[c]
    <2>1. /\ said[c] \in Nat /\ m = FirstSaid(c, said[c]) /\ m \in Seq(Messages)
          /\ Len(m) = said[c]
      BY <1>0, FirstSaidIsSequence DEF MemoryTypes, AllThatWasSaid
    <2>2. UNCHANGED <<history, said, cacheVars>>
      BY <1>1 DEF Generate
    <2>3. summarized_count' \in Nat /\ SummaryOfFirst'
      BY <1>0, <2>2 DEF MemoryTypes, SummaryOfFirst, cacheVars
    <2>4. ASSUME NEW s, NEW shown, Ask(c, s, shown),
                 s # {} => ToSet(m) \subseteq s \cup ToSet(shown)
          PROVE  MemoryInv'
      <3>1. PICK r \in CallRecords : r = [step |-> "asking", messages |-> m, attempt |-> 0]
        BY <2>1 DEF CallRecords
      <3>2. calls' = [calls EXCEPT ![c] = r] /\ r.step = "asking" /\ r.messages = m
        BY <2>4, <3>1 DEF Ask
      <3>3. /\ DOMAIN prompts' = Conversations
            /\ prompts'[c].summary = s /\ prompts'[c].messages = shown
            /\ \A d \in Conversations : d # c => prompts'[d] = prompts[d]
        BY <1>0, <2>4 DEF Ask, MemoryTypes
      <3> QED BY <2>2, <2>3, <2>4, <3>2, <3>3, CallKeeps
    <2>5. CASE \E shown : Ask(c, {}, shown)
      BY <2>4, <2>5
    <2>6. CASE /\ Len(m) > recent_to_keep /\ SplitPoint(m) <= summarized_count
               /\ cached_summary # {} /\ Ask(c, cached_summary, Recent(m))
      <3>1. recent_to_keep < said[c]
        BY <2>1, <2>6 DEF MemoryAssumption
      <3>2. ToSet(m) \subseteq ToSet(FirstSaid(c, summarized_count)) \cup ToSet(Recent(m))
        BY <1>0, <2>1, <2>6, <3>1, OlderAndRecent DEF MemoryTypes
      <3>3. cached_summary = ToSet(FirstSaid(c, summarized_count))
        BY <1>0, <2>6 DEF SummaryOfFirst
      <3> QED BY <2>4, <2>6, <3>2, <3>3
    <2>7. CASE /\ Len(m) > recent_to_keep /\ UNCHANGED prompts
               /\ calls' = [calls EXCEPT ![c] =
                              [step |-> "summarizing", messages |-> m, attempt |-> 0]]
      <3>1. PICK r \in CallRecords : r = [step |-> "summarizing", messages |-> m, attempt |-> 0]
        BY <2>1 DEF CallRecords
      <3>2. calls' = [calls EXCEPT ![c] = r] /\ r.step = "summarizing" /\ r.messages = m
        BY <2>7, <3>1
      <3> QED BY <1>0, <2>2, <2>3, <2>7, <3>2, CallKeeps DEF MemoryTypes
    <2> QED BY <1>1, <2>5, <2>6, <2>7 DEF Generate
  <1>2. ASSUME NEW c \in Conversations, Summarized(c) PROVE MemoryInv'
    <2> DEFINE m == history[c]
    <2>1. /\ said[c] \in Nat /\ m = FirstSaid(c, said[c]) /\ m \in Seq(Messages)
          /\ Len(m) = said[c] /\ calls[c].messages = m /\ recent_to_keep < said[c]
      <3>1. calls[c].step = "summarizing" /\ ~Idle(c)
        BY <1>2 DEF Summarized, Idle
      <3>2. said[c] \in Nat /\ m = FirstSaid(c, said[c]) /\ calls[c].messages = m /\ Len(m) > recent_to_keep
        BY <1>0, <3>1 DEF MemoryTypes, AllThatWasSaid
      <3>3. m \in Seq(Messages) /\ Len(m) = said[c]
        BY <3>2, FirstSaidIsSequence
      <3> QED BY <3>2, <3>3 DEF MemoryAssumption
    <2>2. /\ SplitPoint(m) \in Nat /\ Older(m) = FirstSaid(c, SplitPoint(m))
          /\ ToSet(m) \subseteq ToSet(FirstSaid(c, SplitPoint(m))) \cup ToSet(Recent(m))
      <3>1. SplitPoint(m) \in 1..said[c] /\ Older(m) = FirstSaid(c, SplitPoint(m))
        BY <2>1, OlderAndRecent
      <3>2. SplitPoint(m) \in Nat /\ SplitPoint(m) <= SplitPoint(m)
        BY <2>1, <3>1
      <3> QED BY <2>1, <3>1, <3>2, OlderAndRecent
    <2>3. /\ cached_summary' = ToSet(Older(m)) /\ summarized_count' = SplitPoint(m)
          /\ calls' = [calls EXCEPT ![c] = [step |-> "asking", messages |-> m, attempt |-> 0]]
          /\ prompts' = [prompts EXCEPT ![c] = [summary |-> ToSet(Older(m)), messages |-> Recent(m)]]
          /\ UNCHANGED <<history, said>>
      BY <1>2, <2>1 DEF Summarized, Ask
    <2>4. PICK r \in CallRecords : r = [step |-> "asking", messages |-> m, attempt |-> 0]
      BY <2>1 DEF CallRecords
    <2>5. calls' = [calls EXCEPT ![c] = r] /\ r.step = "asking" /\ r.messages = m
      BY <2>3, <2>4
    <2>6. /\ DOMAIN prompts' = Conversations
          /\ prompts'[c].summary = ToSet(Older(m)) /\ prompts'[c].messages = Recent(m)
          /\ \A d \in Conversations : d # c => prompts'[d] = prompts[d]
      BY <1>0, <2>3 DEF MemoryTypes
    <2>7. SummaryOfFirst'
      <3>1. \A d \in Conversations : d = c
        BY DEF OneConversation
      <3>2. cached_summary' = ToSet(FirstSaid(c, summarized_count'))
        BY <2>2, <2>3
      <3> HIDE DEF m
      <3>3. \A d \in Conversations : cached_summary' = ToSet(FirstSaid(d, summarized_count'))
        <4> TAKE d \in Conversations
        <4>1. d = c
          BY <3>1
        <4>2. FirstSaid(d, summarized_count') = FirstSaid(c, summarized_count')
          BY <4>1
        <4> QED BY <3>2, <4>2
      <3> QED BY <3>3 DEF SummaryOfFirst
    <2>8. ToSet(history[c]) \subseteq prompts'[c].summary \cup ToSet(prompts'[c].messages)
      BY <2>2, <2>6
    <2>9. r.messages = history[c] /\ summarized_count' \in Nat /\ DOMAIN prompts' = Conversations
      BY <2>2, <2>3, <2>5, <2>6
    <2> HIDE DEF m
    <2> QED BY <2>3, <2>5, <2>6, <2>7, <2>8, <2>9, CallKeeps
  <1>3. ASSUME NEW c \in Conversations, Retries(c) PROVE MemoryInv'
    <2>1. calls[c].step = "asking" /\ ~Idle(c) /\ UNCHANGED <<history, said, cacheVars, prompts>>
      BY <1>3 DEF Retries, Idle
    <2>2. PICK r \in CallRecords : r = [calls[c] EXCEPT !.attempt = @ + 1]
      <3>1. calls[c] \in CallRecords /\ calls[c].attempt \in Nat
        BY <1>0 DEF MemoryTypes, CallRecords
      <3>2. PICK n \in Nat : n = calls[c].attempt + 1
        BY <3>1
      <3>3. [calls[c] EXCEPT !.attempt = n] \in CallRecords
        BY <3>1 DEF CallRecords
      <3> QED BY <3>2, <3>3
    <2>3. /\ calls' = [calls EXCEPT ![c] = r] /\ r.step = "asking"
          /\ r.messages = calls[c].messages /\ r.messages = history[c]
      BY <1>0, <1>3, <2>1, <2>2 DEF Retries, MemoryTypes, CallRecords, AllThatWasSaid
    <2>4. SummaryOfFirst' /\ summarized_count' \in Nat /\ DOMAIN prompts' = Conversations
      BY <1>0, <2>1 DEF MemoryTypes, SummaryOfFirst, cacheVars
    <2>5. prompts'[c].summary # {} =>
               ToSet(history[c]) \subseteq prompts'[c].summary \cup ToSet(prompts'[c].messages)
      BY <2>1, <2>3 DEF MemoryInv, OlderAreSummarized
    <2> QED BY <2>1, <2>3, <2>4, <2>5, CallKeeps
  <1>4. ASSUME NEW c \in Conversations, Cancelled(c) PROVE MemoryInv'
    <2>1. /\ calls' = [calls EXCEPT ![c] = NoCall] /\ prompts' = [prompts EXCEPT ![c] = NoPrompt]
          /\ UNCHANGED <<history, said, cacheVars>>
      BY <1>4 DEF Cancelled
    <2>2. NoCall \in CallRecords /\ NoCall.step = "idle"
      BY EmptySeq DEF NoCall, CallRecords
    <2>3. SummaryOfFirst' /\ summarized_count' \in Nat /\ DOMAIN prompts' = Conversations
          /\ \A d \in Conversations : d # c => prompts'[d] = prompts[d]
      BY <1>0, <2>1 DEF MemoryTypes, SummaryOfFirst, cacheVars
    <2> QED BY <2>1, <2>2, <2>3, CallKeeps
  <1>5. CASE UNCHANGED memoryVars
    BY <1>5 DEF memoryVars, MemoryInv, MemoryTypes, AllThatWasSaid, SummaryOfFirst,
                OlderAreSummarized, Idle
  <1> QED BY <1>1, <1>2, <1>3, <1>4, <1>5, SayingKeeps DEF MemoryNext

(* llm/memory.py:129, "Messages with older ones summarized if over threshold": *)
(* holds of one conversation that is neither rewound nor cleared, through      *)
(* rate limits and cancellations, whatever the budget and the threshold.       *)
THEOREM OneGrowingHistory ==
    MemoryAssumption /\ OneConversation => (GrowingSpec => []OlderAreSummarized)
  <1> SUFFICES ASSUME MemoryAssumption, OneConversation PROVE GrowingSpec => []OlderAreSummarized
    OBVIOUS
  <1>1. MemoryInv /\ [MemoryNext /\ ~\E c \in Conversations : Forget(c)]_memoryVars => MemoryInv'
    BY MemoryStep
  <1>2. MemoryInv => OlderAreSummarized
    BY DEF MemoryInv
  <1> QED BY <1>1, <1>2, MemoryStarts, PTL DEF GrowingSpec
===============================================================================
