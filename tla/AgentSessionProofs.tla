-------------------------- MODULE AgentSessionProofs --------------------------
(* Proofs about AgentSession, for any number of runs, rounds and messages of   *)
(* child agents.                                                               *)
EXTENDS AgentSession, TLAPS

(* A history of the runs that exist, with its calls and results in order.      *)
Fit(h) ==
    /\ h \in Seq(Messages)
    /\ PairedIn(h)
    /\ \A i \in DOMAIN h : h[i].run <= runs

(* Runs are started in order, and only those that were are at any place.       *)
Known ==
    /\ \A r \in Runs : r > runs => pc[r] = "none"
    /\ current <= runs
    /\ \A r \in stopped : r <= runs

(* A run that Stop cancelled finds _should_stop set, and its CancelledError    *)
(* due, or is past its loop.                                                   *)
Heard(r) == shouldStop /\ (must[r] \/ pc[r] \in {"lingers", "done"})

SessionInv ==
    /\ TypeOK
    /\ Fit(history)
    /\ Known
    /\ InputComesBack
    /\ \A r \in stopped : Heard(r)

-------------------------------------------------------------------------------
(* What the operations on the history preserve.                                *)

(* A text, a user's message, and anything an interactive run says.             *)
LEMMA AppendFit ==
    ASSUME TypeOK, NEW h, Fit(h), NEW m \in Messages, m.run <= runs,
           Quiet(m.run) => m.kind \notin {"calls", "results"}
    PROVE  Fit(Append(h, m))
<1> DEFINE g == Append(h, m)
<1>1. h \in Seq(Messages)  BY DEF Fit
<1>2. /\ g \in Seq(Messages)
      /\ Len(g) = Len(h) + 1
      /\ DOMAIN g = 1..(Len(h) + 1)
      /\ \A i \in 1..Len(h) : g[i] = h[i]
      /\ g[Len(h) + 1] = m
  BY <1>1
<1>3. Len(h) \in Nat /\ DOMAIN h = 1..Len(h)  BY <1>1
<1>4. ASSUME NEW i \in DOMAIN g, Quiet(g[i].run)
      PROVE  /\ g[i].kind = "calls" => FollowedAtOnce(g, i)
             /\ g[i].kind = "results" => AfterItsCalls(g, i)
  <2>1. CASE i = Len(h) + 1  BY <1>2, <1>4, <2>1
  <2>2. CASE i \in 1..Len(h)
    <3>1. g[i] = h[i] /\ Quiet(h[i].run)  BY <1>2, <1>4, <2>2
    <3>2. /\ h[i].kind = "calls" => FollowedAtOnce(h, i)
          /\ h[i].kind = "results" => AfterItsCalls(h, i)
      BY <3>1, <2>2, <1>3 DEF Fit, PairedIn
    <3>3. h[i].kind = "calls" => FollowedAtOnce(g, i)
      BY <3>1, <3>2, <2>2, <1>2, <1>3 DEF FollowedAtOnce
    <3>4. h[i].kind = "results" => AfterItsCalls(g, i)
      BY <3>1, <3>2, <2>2, <1>2, <1>3 DEF AfterItsCalls
    <3> QED  BY <3>1, <3>3, <3>4
  <2> QED  BY <2>1, <2>2, <1>2, <1>3
<1>5. \A i \in DOMAIN g : g[i].run <= runs
  BY <1>2, <1>3 DEF Fit
<1> QED  BY <1>2, <1>4, <1>5 DEF Fit, PairedIn

LEMMA RecordedFit ==
    ASSUME TypeOK, AgentSessionAssumption, Fit(history), NEW r \in Runs, r <= runs
    PROVE  Fit(Recorded(r))
<1> DEFINE h == history  g == Recorded(r)
<1>1. h \in Seq(Messages)  BY DEF Fit
<1>2. Msg("calls", r) \in Messages /\ Msg("results", r) \in Messages
  BY DEF Msg, Messages, Kinds, Runs, AgentSessionAssumption
<1>3. /\ g \in Seq(Messages)
      /\ Len(g) = Len(h) + 2
      /\ DOMAIN g = 1..(Len(h) + 2)
      /\ \A i \in 1..Len(h) : g[i] = h[i]
      /\ g[Len(h) + 1] = Msg("calls", r)
      /\ g[Len(h) + 2] = Msg("results", r)
  BY <1>1, <1>2 DEF Recorded
<1>4. Len(h) \in Nat /\ DOMAIN h = 1..Len(h)  BY <1>1
<1>5. Msg("calls", r).run = r /\ Msg("results", r).run = r
      /\ Msg("calls", r).kind = "calls" /\ Msg("results", r).kind = "results"
  BY DEF Msg
<1>6. ASSUME NEW i \in DOMAIN g, Quiet(g[i].run)
      PROVE  /\ g[i].kind = "calls" => FollowedAtOnce(g, i)
             /\ g[i].kind = "results" => AfterItsCalls(g, i)
  <2>1. CASE i = Len(h) + 1  BY <1>3, <1>4, <1>5, <2>1 DEF FollowedAtOnce
  <2>2. CASE i = Len(h) + 2  BY <1>3, <1>4, <1>5, <2>2 DEF AfterItsCalls
  <2>3. CASE i \in 1..Len(h)
    <3>1. g[i] = h[i] /\ Quiet(h[i].run)  BY <1>3, <1>6, <2>3
    <3>2. /\ h[i].kind = "calls" => FollowedAtOnce(h, i)
          /\ h[i].kind = "results" => AfterItsCalls(h, i)
      BY <3>1, <2>3, <1>4 DEF Fit, PairedIn
    <3>3. h[i].kind = "calls" => FollowedAtOnce(g, i)
      BY <3>1, <3>2, <2>3, <1>3, <1>4 DEF FollowedAtOnce
    <3>4. h[i].kind = "results" => AfterItsCalls(g, i)
      BY <3>1, <3>2, <2>3, <1>3, <1>4 DEF AfterItsCalls
    <3> QED  BY <3>1, <3>3, <3>4
  <2> QED  BY <2>1, <2>2, <2>3, <1>3, <1>4
<1>7. \A i \in DOMAIN g : g[i].run <= runs
  BY <1>3, <1>4, <1>5 DEF Fit
<1> QED  BY <1>3, <1>6, <1>7 DEF Fit, PairedIn

(* A history may be cut before anything but results.                           *)
LEMMA CutFit ==
    ASSUME NEW h, Fit(h), NEW k \in 0..Len(h),
           k < Len(h) => h[k + 1].kind # "results"
    PROVE  Fit(SubSeq(h, 1, k))
<1> DEFINE g == SubSeq(h, 1, k)
<1>1. h \in Seq(Messages)  BY DEF Fit
<1>2. Len(h) \in Nat /\ DOMAIN h = 1..Len(h)  BY <1>1
<1>3. /\ g \in Seq(Messages)
      /\ Len(g) = k
      /\ DOMAIN g = 1..k
      /\ \A i \in 1..k : g[i] = h[i]
  BY <1>1, <1>2
<1>4. ASSUME NEW i \in DOMAIN g, Quiet(g[i].run)
      PROVE  /\ g[i].kind = "calls" => FollowedAtOnce(g, i)
             /\ g[i].kind = "results" => AfterItsCalls(g, i)
  <2>1. i \in 1..Len(h) /\ g[i] = h[i] /\ Quiet(h[i].run)  BY <1>2, <1>3, <1>4
  <2>2. /\ h[i].kind = "calls" => FollowedAtOnce(h, i)
        /\ h[i].kind = "results" => AfterItsCalls(h, i)
    BY <2>1, <1>2 DEF Fit, PairedIn
  <2>3. h[i].kind = "calls" => FollowedAtOnce(g, i)
    <3>1. SUFFICES ASSUME h[i].kind = "calls"
                   PROVE  FollowedAtOnce(g, i)
      OBVIOUS
    <3>2. h[i + 1] = Msg("results", h[i].run) /\ h[i + 1].kind = "results" /\ i < Len(h)
      BY <3>1, <2>2 DEF FollowedAtOnce, Msg
    <3>3. i < k  BY <3>2, <1>2, <1>3
    <3> QED  BY <3>2, <3>3, <2>1, <1>3 DEF FollowedAtOnce
  <2>4. h[i].kind = "results" => AfterItsCalls(g, i)
    BY <2>1, <2>2, <1>2, <1>3 DEF AfterItsCalls
  <2> QED  BY <2>1, <2>3, <2>4
<1>5. \A i \in DOMAIN g : g[i].run <= runs
  BY <1>2, <1>3 DEF Fit
<1> QED  BY <1>3, <1>4, <1>5 DEF Fit, PairedIn

-------------------------------------------------------------------------------
(* What a step of a run after its first does.                                  *)

Effect(r) ==
    /\ Fit(history')
    /\ state' \in States
    /\ isRunning' \in BOOLEAN /\ children' \in BOOLEAN
    /\ \E place \in Places \ {"none", "new"}, round \in 0..MaxIterations :
         /\ At(r, place, round)
         /\ isRunning' = (IF place = "done" THEN FALSE ELSE isRunning)

(* It is past its loop.                                                        *)
Over(r) == pc'[r] \in {"lingers", "done"}

LEMMA MovedState ==
    ASSUME NEW from \in States, NEW to \in States
    PROVE  Moved(from, to) \in States
BY DEF Moved, States

LEMMA EndsEffect ==
    ASSUME TypeOK, AgentSessionAssumption, NEW r \in Runs,
           Fit(history'), state' \in States, Ends(r)
    PROVE  Effect(r) /\ Over(r)
<1>1. "done" \in Places \ {"none", "new"} /\ 0 \in 0..MaxIterations
  BY DEF Places, AgentSessionAssumption
<1>2. At(r, "done", 0) /\ isRunning' = FALSE /\ children' = children
  BY DEF Ends
<1>3. Over(r)  BY <1>2 DEF Over, At, TypeOK
<1> QED  BY <1>1, <1>2, <1>3 DEF Effect, TypeOK

LEMMA LeavesEffect ==
    ASSUME TypeOK, AgentSessionAssumption, NEW r \in Runs, NEW h, Fit(h),
           NEW s \in States, Leaves(r, h, s), UNCHANGED runs, UNCHANGED mode
    PROVE  Effect(r) /\ Over(r)
<1>1. history' = h /\ state' = s  BY DEF Leaves
<1>2. Fit(history') /\ state' \in States  BY <1>1
<1>3. CASE Ends(r)  BY <1>2, <1>3, EndsEffect
<1>4. CASE At(r, "lingers", 0) /\ UNCHANGED <<isRunning, children>>
  <2>1. "lingers" \in Places \ {"none", "new"} /\ 0 \in 0..MaxIterations
    BY DEF Places, AgentSessionAssumption
  <2>2. Over(r)  BY <1>4 DEF Over, At, TypeOK
  <2> QED  BY <1>2, <1>4, <2>1, <2>2 DEF Effect, TypeOK
<1> QED  BY <1>3, <1>4 DEF Leaves

LEMMA GoesOnEffect ==
    ASSUME TypeOK, NEW r \in Runs, NEW h, Fit(h), NEW s \in States,
           NEW place \in Tools \cup Asking, GoesOn(r, h, s, place)
    PROVE  Effect(r)
<1>1. history' = h /\ state' = s /\ At(r, place, iteration[r]) /\ isRunning' = isRunning
      /\ children' \in BOOLEAN
  BY DEF GoesOn
<1>2. place \in Places \ {"none", "new"} /\ place # "done"
  BY DEF Places, Tools, Asking
<1>3. iteration[r] \in 0..MaxIterations  BY DEF TypeOK
<1>4. Fit(history') /\ state' \in States /\ isRunning' \in BOOLEAN
  BY <1>1 DEF TypeOK
<1> QED  BY <1>1, <1>2, <1>3, <1>4 DEF Effect

LEMMA FinishesEffect ==
    ASSUME TypeOK, AgentSessionAssumption, NEW r \in Runs, NEW h, Fit(h),
           NEW s \in States, Finishes(r, h, s), UNCHANGED runs, UNCHANGED mode
    PROVE  Effect(r) /\ Over(r)
<1> DEFINE t == IF GoesOnShowing(r, s) THEN Moved(s, "complete") ELSE s
<1>1. Leaves(r, h, t)  BY DEF Finishes
<1>2. "complete" \in States  BY DEF States
<1>3. t \in States  BY <1>2, MovedState
<1> QED  BY <1>1, <1>3, LeavesEffect

LEMMA TextFit ==
    ASSUME TypeOK, AgentSessionAssumption, NEW h, Fit(h), NEW r \in Runs, r <= runs
    PROVE  Fit(Append(h, Msg("text", r)))
<1>1. Msg("text", r) \in Messages /\ Msg("text", r).run = r /\ Msg("text", r).kind = "text"
  BY DEF Msg, Messages, Kinds, Runs, AgentSessionAssumption
<1> QED  BY <1>1, AppendFit

LEMMA NextRoundEffect ==
    ASSUME TypeOK, AgentSessionAssumption, NEW r \in Runs, r <= runs, NEW h, Fit(h),
           NEW s \in States, NextRound(r, h, s), UNCHANGED runs, UNCHANGED mode
    PROVE  Effect(r)
<1>1. CASE iteration[r] < MaxIterations
  <2>1. /\ history' = h /\ state' = s /\ At(r, "llm", iteration[r] + 1)
        /\ UNCHANGED <<isRunning, children>>
    BY <1>1 DEF NextRound
  <2>2. "llm" \in Places \ {"none", "new"}  BY DEF Places, Asking
  <2>3. iteration[r] + 1 \in 0..MaxIterations
    BY <1>1 DEF TypeOK, AgentSessionAssumption
  <2>4. Fit(history') /\ state' \in States /\ isRunning' \in BOOLEAN /\ children' \in BOOLEAN
    BY <2>1 DEF TypeOK
  <2>5. isRunning' = (IF "llm" = "done" THEN FALSE ELSE isRunning)  BY <2>1
  <2> QED  BY <2>1, <2>2, <2>3, <2>4, <2>5 DEF Effect
<1>2. CASE ~(iteration[r] < MaxIterations)
  <2>1. Finishes(r, Append(h, Msg("text", r)), s)  BY <1>2 DEF NextRound
  <2>2. Fit(Append(h, Msg("text", r)))  BY TextFit
  <2> QED  BY <2>1, <2>2, FinishesEffect
<1> QED  BY <1>1, <1>2

-------------------------------------------------------------------------------
(* Each step of a run after its first has that effect, and is the last one of  *)
(* its loop if Stop has cancelled the run.                                     *)

Inner(r) ==
    /\ Effect(r)
    /\ planned' \in BOOLEAN
    /\ Others
    /\ r \in stopped => Over(r)

(* A run that is ready for anything but its end was not cancelled by Stop.     *)
LEMMA ReadyNotStopped ==
    ASSUME SessionInv, NEW r \in Runs, NEW place, Ready(r, place), place \notin {"lingers", "done"}
    PROVE  r \notin stopped
BY DEF SessionInv, Heard, Ready

(* A run that is anywhere has been started.                                    *)
LEMMA Started ==
    ASSUME SessionInv, NEW r \in Runs, pc[r] # "none"
    PROVE  r <= runs
BY DEF SessionInv, Known, TypeOK, Runs, AgentSessionAssumption

LEMMA PlanInner ==
    ASSUME SessionInv, AgentSessionAssumption, NEW r \in Runs, Plan(r)
    PROVE  Inner(r)
<1> DEFINE said == Append(history, Msg("text", r))
<1>1. r <= runs  BY Started DEF Plan, Ready
<1>2. TypeOK /\ Fit(history) /\ state \in States  BY DEF SessionInv, TypeOK
<1>3. Fit(said)  BY <1>1, <1>2, TextFit
<1>4. r \notin stopped  BY ReadyNotStopped DEF Plan
<1>5. UNCHANGED runs /\ UNCHANGED mode /\ Others /\ planned' \in BOOLEAN
  BY DEF Plan, Others, screenVars
<1>6. GoesOn(r, said, state, "llm") \/ Leaves(r, said, state)  BY DEF Plan
<1>7. "llm" \in Tools \cup Asking  BY DEF Asking
<1>8. Effect(r)
  <2>1. CASE GoesOn(r, said, state, "llm")  BY <1>2, <1>3, <1>7, <2>1, GoesOnEffect
  <2>2. CASE Leaves(r, said, state)  BY <1>2, <1>3, <1>5, <2>2, LeavesEffect
  <2> QED  BY <1>6, <2>1, <2>2
<1> QED  BY <1>4, <1>5, <1>8 DEF Inner

LEMMA ExecutesToolsEffect ==
    ASSUME TypeOK, NEW r \in Runs, NEW h, Fit(h), NEW s \in States, ExecutesTools(r, h, s)
    PROVE  Effect(r)
<1>1. PICK place \in Tools : GoesOn(r, h, s, place)  BY DEF ExecutesTools
<1> QED  BY <1>1, GoesOnEffect

LEMMA RepeatsOrEndsEffect ==
    ASSUME TypeOK, AgentSessionAssumption, NEW r \in Runs, r <= runs, NEW h, Fit(h),
           RepeatsOrEnds(r, h), UNCHANGED runs, UNCHANGED mode
    PROVE  Effect(r)
<1>1. state \in States /\ "complete" \in States  BY DEF TypeOK, States
<1>2. CASE Leaves(r, h, Moved(state, "complete"))
  BY <1>1, <1>2, MovedState, LeavesEffect
<1>3. CASE NextRound(r, h, state)  BY <1>1, <1>3, NextRoundEffect
<1> QED  BY <1>2, <1>3 DEF RepeatsOrEnds

LEMMA AgentAnswerInner ==
    ASSUME SessionInv, AgentSessionAssumption, NEW r \in Runs, AgentAnswer(r)
    PROVE  Inner(r)
<1> DEFINE said == Append(history, Msg("text", r))
           busy == Moved(state, "executing")
<1>1. r <= runs  BY Started DEF AgentAnswer, Ready
<1>2. TypeOK /\ Fit(history) /\ state \in States  BY DEF SessionInv, TypeOK
<1>3. Fit(said)  BY <1>1, <1>2, TextFit
<1>4. r \notin stopped  BY ReadyNotStopped DEF AgentAnswer
<1>5. UNCHANGED runs /\ UNCHANGED mode /\ Others /\ planned' \in BOOLEAN
  BY DEF AgentAnswer, Others, screenVars, SessionInv, TypeOK
<1>6. busy \in States
  <2>1. "executing" \in States  BY DEF States
  <2> QED  BY <1>2, <2>1, MovedState
<1>7. \/ Finishes(r, said, state) \/ NextRound(r, said, state) \/ Leaves(r, said, state)
      \/ ExecutesTools(r, history, busy) \/ Leaves(r, history, busy)
  BY DEF AgentAnswer
<1>8. Effect(r)
  <2>1. CASE Finishes(r, said, state)  BY <1>2, <1>3, <1>5, <2>1, FinishesEffect
  <2>2. CASE NextRound(r, said, state)  BY <1>1, <1>2, <1>3, <1>5, <2>2, NextRoundEffect
  <2>3. CASE Leaves(r, said, state)  BY <1>2, <1>3, <1>5, <2>3, LeavesEffect
  <2>4. CASE ExecutesTools(r, history, busy)  BY <1>2, <1>6, <2>4, ExecutesToolsEffect
  <2>5. CASE Leaves(r, history, busy)  BY <1>2, <1>5, <1>6, <2>5, LeavesEffect
  <2> QED  BY <1>7, <2>1, <2>2, <2>3, <2>4, <2>5
<1> QED  BY <1>4, <1>5, <1>8 DEF Inner

LEMMA AssistAnswerInner ==
    ASSUME SessionInv, AgentSessionAssumption, NEW r \in Runs, AssistAnswer(r)
    PROVE  Inner(r)
<1> DEFINE said == Append(history, Msg("text", r))
           busy == Moved(state, "executing")
<1>1. r <= runs  BY Started DEF AssistAnswer, Ready
<1>2. TypeOK /\ Fit(history) /\ state \in States  BY DEF SessionInv, TypeOK
<1>3. Fit(said)  BY <1>1, <1>2, TextFit
<1>4. r \notin stopped  BY ReadyNotStopped DEF AssistAnswer
<1>5. UNCHANGED runs /\ UNCHANGED mode /\ Others /\ planned' \in BOOLEAN
  BY DEF AssistAnswer, Others, screenVars, SessionInv, TypeOK
<1>6. busy \in States
  <2>1. "executing" \in States  BY DEF States
  <2> QED  BY <1>2, <2>1, MovedState
<1>7. \/ Finishes(r, said, state) \/ ExecutesTools(r, history, busy)
      \/ Leaves(r, history, state)
  BY DEF AssistAnswer
<1>8. Effect(r)
  <2>1. CASE Finishes(r, said, state)  BY <1>2, <1>3, <1>5, <2>1, FinishesEffect
  <2>2. CASE ExecutesTools(r, history, busy)  BY <1>2, <1>6, <2>2, ExecutesToolsEffect
  <2>3. CASE Leaves(r, history, state)  BY <1>2, <1>5, <2>3, LeavesEffect
  <2> QED  BY <1>7, <2>1, <2>2, <2>3
<1> QED  BY <1>4, <1>5, <1>8 DEF Inner

(* An interactive run may append its calls and its results one at a time: it   *)
(* promises nothing about them.                                                *)
LEMMA InteractFit ==
    ASSUME TypeOK, AgentSessionAssumption, Fit(history), NEW r \in Runs, r <= runs,
           mode[r] = "interact", NEW kind \in Kinds
    PROVE  Fit(Append(history, Msg(kind, r)))
<1>1. Msg(kind, r) \in Messages /\ Msg(kind, r).run = r
  BY DEF Msg, Messages, Runs, AgentSessionAssumption
<1>2. ~Quiet(r)  BY DEF Quiet
<1> QED  BY <1>1, <1>2, AppendFit

LEMMA InteractAnswerInner ==
    ASSUME SessionInv, AgentSessionAssumption, NEW r \in Runs, InteractAnswer(r)
    PROVE  Inner(r)
<1> DEFINE said == Append(history, Msg("text", r))
           called == Append(history, Msg("calls", r))
           busy == Moved(state, "executing")
<1>1. r <= runs /\ mode[r] = "interact"  BY Started DEF InteractAnswer, Ready
<1>2. TypeOK /\ Fit(history) /\ state \in States  BY DEF SessionInv, TypeOK
<1>3. Fit(said) /\ Fit(called)  BY <1>1, <1>2, InteractFit DEF Kinds
<1>4. r \notin stopped  BY ReadyNotStopped DEF InteractAnswer
<1>5. UNCHANGED runs /\ UNCHANGED mode /\ Others /\ planned' \in BOOLEAN
  BY DEF InteractAnswer, Others, screenVars, SessionInv, TypeOK
<1>6. busy \in States
  <2>1. "executing" \in States  BY DEF States
  <2> QED  BY <1>2, <2>1, MovedState
<1>7. \/ Leaves(r, said, state) \/ Leaves(r, called, state)
      \/ RepeatsOrEnds(r, said) \/ ExecutesTools(r, called, busy)
  BY DEF InteractAnswer
<1>8. Effect(r)
  <2>1. CASE Leaves(r, said, state)  BY <1>2, <1>3, <1>5, <2>1, LeavesEffect
  <2>2. CASE Leaves(r, called, state)  BY <1>2, <1>3, <1>5, <2>2, LeavesEffect
  <2>3. CASE RepeatsOrEnds(r, said)
    BY <1>1, <1>2, <1>3, <1>5, <2>3, RepeatsOrEndsEffect
  <2>4. CASE ExecutesTools(r, called, busy)
    BY <1>2, <1>3, <1>6, <2>4, ExecutesToolsEffect
  <2> QED  BY <1>7, <2>1, <2>2, <2>3, <2>4
<1> QED  BY <1>4, <1>5, <1>8 DEF Inner

(* The tools of a run that Stop has cancelled: a command that swallowed the    *)
(* CancelledError finds _should_stop.                                          *)
LEMMA AgentToolsInner ==
    ASSUME SessionInv, AgentSessionAssumption, NEW r \in Runs, AgentTools(r)
    PROVE  Inner(r)
<1> DEFINE told == Recorded(r)
           next == Moved(state, "thinking")
<1>1. r <= runs  BY Started DEF AgentTools, ToolsReturn, Ready
<1>2. TypeOK /\ Fit(history) /\ state \in States /\ "thinking" \in States
  BY DEF SessionInv, TypeOK, States
<1>3. Fit(told)  BY <1>1, <1>2, RecordedFit
<1>4. next \in States  BY <1>2, MovedState
<1>5. UNCHANGED runs /\ UNCHANGED mode /\ Others /\ planned' \in BOOLEAN
  BY DEF AgentTools, Others, screenVars, SessionInv, TypeOK
<1>6. CASE GoesOnShowing(r, state)
  <2>1. r \notin stopped  BY <1>6 DEF GoesOnShowing, SessionInv, Heard
  <2>2. \/ GoesOn(r, told, state, "replan") \/ GoesOn(r, told, state, "summary")
        \/ NextRound(r, told, next)
    BY <1>6 DEF AgentTools
  <2>3. "replan" \in Tools \cup Asking /\ "summary" \in Tools \cup Asking  BY DEF Asking
  <2>4. Effect(r)
    <3>1. CASE GoesOn(r, told, state, "replan")
      BY <1>2, <1>3, <2>3, <3>1, GoesOnEffect
    <3>2. CASE GoesOn(r, told, state, "summary")
      BY <1>2, <1>3, <2>3, <3>2, GoesOnEffect
    <3>3. CASE NextRound(r, told, next)
      BY <1>1, <1>2, <1>3, <1>4, <1>5, <3>3, NextRoundEffect
    <3> QED  BY <2>2, <3>1, <3>2, <3>3
  <2> QED  BY <2>1, <2>4, <1>5 DEF Inner
<1>7. CASE ~GoesOnShowing(r, state)
  <2>1. Leaves(r, told, state)  BY <1>7 DEF AgentTools
  <2>2. Effect(r) /\ Over(r)  BY <1>2, <1>3, <1>5, <2>1, LeavesEffect
  <2> QED  BY <2>2, <1>5 DEF Inner
<1> QED  BY <1>6, <1>7

LEMMA AssistToolsInner ==
    ASSUME SessionInv, AgentSessionAssumption, NEW r \in Runs, AssistTools(r)
    PROVE  Inner(r)
<1> DEFINE told == Append(Recorded(r), Msg("text", r))
<1>1. r <= runs  BY Started DEF AssistTools, ToolsReturn, Ready
<1>2. TypeOK /\ Fit(history) /\ state \in States  BY DEF SessionInv, TypeOK
<1>3. Fit(Recorded(r))  BY <1>1, <1>2, RecordedFit
<1>4. Fit(told)  BY <1>1, <1>2, <1>3, TextFit
<1>5. UNCHANGED runs /\ UNCHANGED mode /\ Others /\ planned' \in BOOLEAN
  BY DEF AssistTools, Others, screenVars, SessionInv, TypeOK
<1>6. Leaves(r, Recorded(r), state) \/ Finishes(r, told, state)  BY DEF AssistTools
<1>7. Effect(r) /\ Over(r)
  <2>1. CASE Leaves(r, Recorded(r), state)  BY <1>2, <1>3, <1>5, <2>1, LeavesEffect
  <2>2. CASE Finishes(r, told, state)  BY <1>2, <1>4, <1>5, <2>2, FinishesEffect
  <2> QED  BY <1>6, <2>1, <2>2
<1> QED  BY <1>5, <1>7 DEF Inner

LEMMA InteractToolsInner ==
    ASSUME SessionInv, AgentSessionAssumption, NEW r \in Runs, InteractTools(r)
    PROVE  Inner(r)
<1> DEFINE told == Append(history, Msg("results", r))
<1>1. r <= runs /\ mode[r] = "interact"
  BY Started DEF InteractTools, ToolsReturn, Ready
<1>2. TypeOK /\ Fit(history) /\ state \in States  BY DEF SessionInv, TypeOK
<1>3. Fit(told)  BY <1>1, <1>2, InteractFit DEF Kinds
<1>4. UNCHANGED runs /\ UNCHANGED mode /\ Others /\ planned' \in BOOLEAN
  BY DEF InteractTools, Others, screenVars, SessionInv, TypeOK
<1>5. CASE shouldStop
  <2>1. Leaves(r, history, state)  BY <1>5 DEF InteractTools
  <2>2. Effect(r) /\ Over(r)  BY <1>2, <1>4, <2>1, LeavesEffect
  <2> QED  BY <2>2, <1>4 DEF Inner
<1>6. CASE ~shouldStop
  <2>1. RepeatsOrEnds(r, told)  BY <1>6 DEF InteractTools
  <2>2. Effect(r)  BY <1>1, <1>2, <1>3, <1>4, <2>1, RepeatsOrEndsEffect
  <2>3. r \notin stopped  BY <1>6 DEF SessionInv, Heard
  <2> QED  BY <2>2, <2>3, <1>4 DEF Inner
<1> QED  BY <1>5, <1>6

LEMMA ReplanInner ==
    ASSUME SessionInv, AgentSessionAssumption, NEW r \in Runs, Replan(r)
    PROVE  Inner(r)
<1> DEFINE said == Append(history, Msg("text", r))
<1>1. r <= runs  BY Started DEF Replan, Ready
<1>2. TypeOK /\ Fit(history) /\ state \in States /\ "thinking" \in States
  BY DEF SessionInv, TypeOK, States
<1>3. Fit(said)  BY <1>1, <1>2, TextFit
<1>4. r \notin stopped  BY ReadyNotStopped DEF Replan
<1>5. UNCHANGED runs /\ UNCHANGED mode /\ Others /\ planned' \in BOOLEAN
  BY DEF Replan, Others, screenVars, SessionInv, TypeOK
<1>6. Moved(state, "thinking") \in States  BY <1>2, MovedState
<1>7. \/ NextRound(r, history, Moved(state, "thinking")) \/ NextRound(r, said, state)
      \/ Leaves(r, said, state) \/ Finishes(r, said, state)
  BY DEF Replan
<1>8. Effect(r)
  <2>1. CASE NextRound(r, history, Moved(state, "thinking"))
    BY <1>1, <1>2, <1>5, <1>6, <2>1, NextRoundEffect
  <2>2. CASE NextRound(r, said, state)  BY <1>1, <1>2, <1>3, <1>5, <2>2, NextRoundEffect
  <2>3. CASE Leaves(r, said, state)  BY <1>2, <1>3, <1>5, <2>3, LeavesEffect
  <2>4. CASE Finishes(r, said, state)  BY <1>2, <1>3, <1>5, <2>4, FinishesEffect
  <2> QED  BY <1>7, <2>1, <2>2, <2>3, <2>4
<1> QED  BY <1>4, <1>5, <1>8 DEF Inner

LEMMA SummaryInner ==
    ASSUME SessionInv, AgentSessionAssumption, NEW r \in Runs, Summary(r)
    PROVE  Inner(r)
<1> DEFINE said == Append(history, Msg("text", r))
<1>1. r <= runs  BY Started DEF Summary, Ready
<1>2. TypeOK /\ Fit(history) /\ state \in States  BY DEF SessionInv, TypeOK
<1>3. Fit(said)  BY <1>1, <1>2, TextFit
<1>4. UNCHANGED runs /\ UNCHANGED mode /\ Others /\ planned' \in BOOLEAN
  BY DEF Summary, Others, screenVars, SessionInv, TypeOK
<1>5. Finishes(r, said, state)  BY DEF Summary
<1>6. Effect(r) /\ Over(r)  BY <1>2, <1>3, <1>4, <1>5, FinishesEffect
<1> QED  BY <1>4, <1>6 DEF Inner

(* A failed request, a cancellation, or the end of the rest.                   *)
LEMMA EndsInner ==
    ASSUME SessionInv, AgentSessionAssumption, NEW r \in Runs, Ends(r),
           UNCHANGED agentVars, Others
    PROVE  Inner(r)
<1>1. TypeOK /\ Fit(history) /\ state \in States  BY DEF SessionInv, TypeOK
<1>2. history' = history /\ state' = state /\ planned' = planned  BY DEF agentVars
<1>3. planned' \in BOOLEAN  BY <1>2 DEF SessionInv, TypeOK
<1>4. Fit(history') /\ state' \in States  BY <1>1, <1>2
<1>5. Effect(r) /\ Over(r)  BY <1>1, <1>4, EndsEffect
<1> QED  BY <1>3, <1>5 DEF Inner

-------------------------------------------------------------------------------
(* Every step preserves SessionInv.                                            *)

(* The history of the next state, seen from it, when no run is started.        *)
LEMMA FitNext ==
    ASSUME Fit(history'), UNCHANGED runs, UNCHANGED mode
    PROVE  Fit(history)'
BY DEF Fit, PairedIn, Quiet, FollowedAtOnce, AfterItsCalls

LEMMA InnerKeeps ==
    ASSUME SessionInv, AgentSessionAssumption, NEW r \in Runs, pc[r] # "none", Inner(r)
    PROVE  SessionInv'
<1>1. TypeOK /\ Known /\ InputComesBack /\ \A q \in stopped : Heard(q)
  BY DEF SessionInv
<1>2. /\ Fit(history') /\ state' \in States
      /\ isRunning' \in BOOLEAN /\ children' \in BOOLEAN /\ planned' \in BOOLEAN
  BY DEF Inner, Effect
<1>3. PICK place \in Places \ {"none", "new"}, round \in 0..MaxIterations :
        /\ At(r, place, round)
        /\ isRunning' = (IF place = "done" THEN FALSE ELSE isRunning)
  BY DEF Inner, Effect
<1>4. /\ pc' = [pc EXCEPT ![r] = place] /\ must' = [must EXCEPT ![r] = FALSE]
      /\ iteration' = [iteration EXCEPT ![r] = round]
  BY <1>3 DEF At
<1>5. UNCHANGED <<mode, woken, runs, shouldStop, current, widgets, wakes, notes, owed, stopped>>
  BY DEF Inner, Others, screenVars, childVars
<1>6. r <= runs  BY Started
<1>7. TypeOK'
  BY <1>1, <1>2, <1>3, <1>4, <1>5 DEF TypeOK, Fit
<1>8. Fit(history)'  BY <1>2, <1>5, FitNext
<1>9. Known'  BY <1>1, <1>4, <1>5, <1>6 DEF Known, TypeOK
<1>10. InputComesBack'
  <2>1. CASE place = "done"  BY <1>3, <2>1 DEF InputComesBack
  <2>2. CASE place # "done"
    <3>1. pc'[r] \in {"lingers"} \cup Tools \cup Asking
      BY <1>1, <1>3, <1>4, <2>2 DEF TypeOK, Places
    <3> QED  BY <3>1 DEF InputComesBack
  <2> QED  BY <2>1, <2>2
<1>11. ASSUME NEW q \in stopped'
       PROVE  Heard(q)'
  <2>1. q \in stopped /\ q \in Runs /\ Heard(q)  BY <1>1, <1>5, <1>11 DEF TypeOK
  <2>2. shouldStop'  BY <1>5, <2>1 DEF Heard
  <2>3. CASE q = r
    <3>1. Over(r)  BY <2>1, <2>3 DEF Inner
    <3> QED  BY <2>2, <2>3, <3>1 DEF Heard, Over
  <2>4. CASE q # r
    <3>1. must'[q] = must[q] /\ pc'[q] = pc[q]  BY <1>1, <1>4, <2>1, <2>4 DEF TypeOK
    <3> QED  BY <2>1, <2>2, <3>1 DEF Heard
  <2> QED  BY <2>3, <2>4
<1> QED  BY <1>7, <1>8, <1>9, <1>10, <1>11 DEF SessionInv

(* A task that is cancelled before its first step just ends.                   *)
CancelledNew(r) == pc[r] = "new" /\ Cancelled(r)

LEMMA StepInner ==
    ASSUME SessionInv, AgentSessionAssumption, NEW r \in Runs, RunStep(r)
    PROVE  Begin(r) \/ CancelledNew(r) \/ (Inner(r) /\ pc[r] # "none")
<1>1. CASE Plan(r)  BY <1>1, PlanInner DEF Plan, Ready
<1>2. CASE AgentAnswer(r)  BY <1>2, AgentAnswerInner DEF AgentAnswer, Ready
<1>3. CASE AssistAnswer(r)  BY <1>3, AssistAnswerInner DEF AssistAnswer, Ready
<1>4. CASE InteractAnswer(r)  BY <1>4, InteractAnswerInner DEF InteractAnswer, Ready
<1>5. CASE AgentTools(r)  BY <1>5, AgentToolsInner DEF AgentTools, ToolsReturn, Ready
<1>6. CASE AssistTools(r)  BY <1>6, AssistToolsInner DEF AssistTools, ToolsReturn, Ready
<1>7. CASE InteractTools(r)  BY <1>7, InteractToolsInner DEF InteractTools, ToolsReturn, Ready
<1>8. CASE Replan(r)  BY <1>8, ReplanInner DEF Replan, Ready
<1>9. CASE Summary(r)  BY <1>9, SummaryInner DEF Summary, Ready
<1>10. CASE RequestFails(r)  BY <1>10, EndsInner DEF RequestFails, Ready
<1>11. CASE Rested(r)  BY <1>11, EndsInner DEF Rested, Ready
<1>12. CASE Cancelled(r)
  <2>1. CASE pc[r] = "new"  BY <1>12, <2>1 DEF CancelledNew
  <2>2. CASE pc[r] # "new"  BY <1>12, <2>2, EndsInner DEF Cancelled
  <2> QED  BY <2>1, <2>2
<1> QED
  BY <1>1, <1>2, <1>3, <1>4, <1>5, <1>6, <1>7, <1>8, <1>9, <1>10, <1>11, <1>12 DEF RunStep

LEMMA CancelledNewKeeps ==
    ASSUME SessionInv, AgentSessionAssumption, NEW r \in Runs, CancelledNew(r)
    PROVE  SessionInv'
<1>1. TypeOK /\ Fit(history) /\ Known /\ InputComesBack /\ \A q \in stopped : Heard(q)
  BY DEF SessionInv
<1>2. pc[r] = "new" /\ At(r, "done", 0)
  BY DEF CancelledNew, Cancelled
<1>3. /\ pc' = [pc EXCEPT ![r] = "done"] /\ must' = [must EXCEPT ![r] = FALSE]
      /\ iteration' = [iteration EXCEPT ![r] = 0]
  BY <1>2 DEF At
<1>4. UNCHANGED <<history, state, planned, mode, woken, runs, isRunning, shouldStop, current,
                  widgets, wakes, children, notes, owed, stopped>>
  BY <1>2 DEF CancelledNew, Cancelled, Others, screenVars, childVars, agentVars
<1>5. TypeOK'
  BY <1>1, <1>3, <1>4 DEF TypeOK, Places, AgentSessionAssumption
<1>6. Fit(history)'
  <2>1. Fit(history')  BY <1>1, <1>4
  <2> QED  BY <2>1, <1>4, FitNext
<1>7. Known'  BY <1>1, <1>2, <1>3, <1>4, Started DEF Known, TypeOK
<1>8. InputComesBack'
  <2>1. SUFFICES ASSUME isRunning
                 PROVE  \E q \in Runs : pc'[q] \in {"lingers"} \cup Tools \cup Asking
    BY <1>4 DEF InputComesBack
  <2>2. PICK q \in Runs : pc[q] \in {"lingers"} \cup Tools \cup Asking
    BY <1>1, <2>1 DEF InputComesBack
  <2>3. q # r  BY <1>2, <2>2 DEF Tools, Asking
  <2> QED  BY <1>1, <1>3, <2>2, <2>3 DEF TypeOK
<1>9. ASSUME NEW q \in stopped'
      PROVE  Heard(q)'
  <2>1. q \in Runs /\ Heard(q)  BY <1>1, <1>4, <1>9 DEF TypeOK
  <2>2. q = r => pc'[q] = "done"  BY <1>1, <1>3, <2>1 DEF TypeOK
  <2>3. q # r => must'[q] = must[q] /\ pc'[q] = pc[q]  BY <1>1, <1>3, <2>1 DEF TypeOK
  <2> QED  BY <1>4, <2>1, <2>2, <2>3 DEF Heard
<1> QED  BY <1>5, <1>6, <1>7, <1>8, <1>9 DEF SessionInv

LEMMA BeginKeeps ==
    ASSUME SessionInv, AgentSessionAssumption, NEW r \in Runs, Begin(r)
    PROVE  SessionInv'
<1> DEFINE m == Msg("user", r)
<1>1. TypeOK /\ Fit(history) /\ Known  BY DEF SessionInv
<1>2. r <= runs  BY Started DEF Begin, Ready
<1>3. UNCHANGED <<runs, mode, woken, current, widgets, wakes, children, notes>>
  BY DEF Begin
<1>4. isRunning' = TRUE /\ shouldStop' = FALSE /\ stopped' = {} /\ owed' = FALSE
  BY DEF Begin
<1>5. m \in Messages /\ m.run = r /\ m.kind = "user"
  BY DEF Msg, Messages, Kinds, Runs, AgentSessionAssumption
<1>6. Fit(history')
  <2>1. history' \in {<<m>>, history, Append(history, m)}  BY DEF Begin
  <2>2. Fit(Append(history, m))  BY <1>1, <1>2, <1>5, AppendFit
  <2>3. Fit(<<m>>)
    <3>1. <<m>> \in Seq(Messages) /\ DOMAIN <<m>> = {1} /\ <<m>>[1] = m  BY <1>5
    <3> QED  BY <1>2, <1>5, <3>1 DEF Fit, PairedIn
  <2> QED  BY <1>1, <2>1, <2>2, <2>3
<1>7. state' \in States /\ planned' \in BOOLEAN
  <2>1. "idle" \in States /\ "thinking" \in States /\ state \in States /\ planned \in BOOLEAN
    BY <1>1 DEF States, TypeOK
  <2>2. Moved("idle", "thinking") \in States /\ Moved(state, "thinking") \in States
    BY <2>1, MovedState
  <2> QED  BY <2>1, <2>2 DEF Begin
<1>8. PICK place \in {"plan", "llm"} : At(r, place, 1)
  BY DEF Begin
<1>9. /\ pc' = [pc EXCEPT ![r] = place] /\ must' = [must EXCEPT ![r] = FALSE]
      /\ iteration' = [iteration EXCEPT ![r] = 1]
  BY <1>8 DEF At
<1>10. place \in Places /\ 1 \in 0..MaxIterations
  BY <1>8 DEF Places, Asking, AgentSessionAssumption
<1>11. TypeOK'
  BY <1>1, <1>3, <1>4, <1>6, <1>7, <1>9, <1>10 DEF TypeOK, Fit
<1>12. Fit(history)'  BY <1>3, <1>6, FitNext
<1>13. Known'
  <2>1. ASSUME NEW q \in Runs, q > runs
        PROVE  pc'[q] = "none"
    <3>1. q # r  BY <1>1, <1>2, <2>1 DEF Runs, TypeOK, AgentSessionAssumption
    <3> QED  BY <1>1, <1>9, <2>1, <3>1 DEF Known, TypeOK
  <2> QED  BY <1>1, <1>3, <1>4, <2>1 DEF Known
<1>14. InputComesBack'
  <2>1. pc'[r] \in {"lingers"} \cup Tools \cup Asking
    BY <1>1, <1>8, <1>9 DEF TypeOK, Asking
  <2> QED  BY <2>1 DEF InputComesBack
<1>15. \A q \in stopped' : Heard(q)'  BY <1>4
<1> QED  BY <1>11, <1>12, <1>13, <1>14, <1>15 DEF SessionInv

(* A handler that starts a run.                                                *)
LEMMA StartsKeeps ==
    ASSUME SessionInv, AgentSessionAssumption,
           NEW m \in Modes, NEW isWake \in BOOLEAN, Starts(m, isWake),
           UNCHANGED <<agentVars, shouldStop, childVars, isRunning, children, stopped>>,
           widgets' \in Seq(Runs), wakes' \in Nat
    PROVE  SessionInv'
<1> DEFINE r == runs + 1
<1>1. TypeOK /\ Fit(history) /\ Known /\ InputComesBack /\ \A q \in stopped : Heard(q)
  BY DEF SessionInv
<1>2. /\ r \in Runs /\ runs' = r /\ current' = r
      /\ mode' = [mode EXCEPT ![r] = m] /\ woken' = [woken EXCEPT ![r] = isWake]
      /\ pc' = [pc EXCEPT ![r] = "new"] /\ UNCHANGED <<must, iteration>>
  BY DEF Starts
<1>3. UNCHANGED <<history, state, planned, shouldStop, notes, owed, isRunning, children, stopped>>
  BY DEF agentVars, childVars
<1>4. runs \in Nat /\ r > runs  BY <1>1 DEF TypeOK, AgentSessionAssumption
<1>5. pc[r] = "none"  BY <1>1, <1>2, <1>4 DEF Known
<1>6. m \in {"assist", "interact", "agent"} /\ "new" \in Places
  BY DEF AgentSessionAssumption, Places
<1>7. r \in 0..MaxRuns  BY <1>2, <1>4 DEF Runs
<1>8. TypeOK'
  BY <1>1, <1>2, <1>3, <1>6, <1>7 DEF TypeOK
<1>9. Fit(history)'
  <2>1. \A i \in DOMAIN history : history[i].run \in 0..MaxRuns /\ history[i].run <= runs
    <3>1. \A i \in DOMAIN history : history[i] \in Messages  BY <1>1 DEF Fit
    <3> QED  BY <1>1, <3>1 DEF Fit, Messages
  <2>2. \A i \in DOMAIN history : history[i].run # r  BY <2>1, <1>4
  <2>3. \A i \in DOMAIN history : Quiet(history[i].run)' => Quiet(history[i].run)
    BY <1>1, <1>2, <1>3, <2>2 DEF Quiet, TypeOK
  <2>4. PairedIn(history)'
    BY <1>1, <1>3, <2>3 DEF Fit, PairedIn, FollowedAtOnce, AfterItsCalls
  <2>5. \A i \in DOMAIN history : history[i].run <= r
    BY <2>1, <1>4, AgentSessionAssumption DEF AgentSessionAssumption
  <2> QED  BY <1>1, <1>2, <1>3, <2>4, <2>5 DEF Fit
<1>10. Known'
  <2>1. ASSUME NEW q \in Runs, q > r
        PROVE  pc'[q] = "none"
    <3>1. q # r /\ q > runs  BY <1>4, <2>1 DEF Runs
    <3> QED  BY <1>1, <1>2, <2>1, <3>1 DEF Known, TypeOK
  <2>2. \A q \in stopped : q <= r
    BY <1>1, <1>4, AgentSessionAssumption DEF Known, TypeOK, Runs, AgentSessionAssumption
  <2> QED  BY <1>2, <1>3, <1>4, <2>1, <2>2 DEF Known
<1>11. InputComesBack'
  <2>1. SUFFICES ASSUME isRunning
                 PROVE  \E q \in Runs : pc'[q] \in {"lingers"} \cup Tools \cup Asking
    BY <1>3 DEF InputComesBack
  <2>2. PICK q \in Runs : pc[q] \in {"lingers"} \cup Tools \cup Asking
    BY <1>1, <2>1 DEF InputComesBack
  <2>3. q # r  BY <1>5, <2>2 DEF Tools, Asking
  <2> QED  BY <1>1, <1>2, <2>2, <2>3 DEF TypeOK
<1>12. ASSUME NEW q \in stopped'
       PROVE  Heard(q)'
  <2>1. q \in Runs /\ Heard(q) /\ q <= runs  BY <1>1, <1>3, <1>12 DEF TypeOK, Known
  <2>2. q # r  BY <1>4, <2>1 DEF Runs
  <2>3. pc'[q] = pc[q] /\ must'[q] = must[q]  BY <1>1, <1>2, <2>1, <2>2 DEF TypeOK
  <2> QED  BY <1>3, <2>1, <2>3 DEF Heard
<1> QED  BY <1>8, <1>9, <1>10, <1>11, <1>12 DEF SessionInv

LEMMA SubmitKeeps ==
    ASSUME SessionInv, AgentSessionAssumption, NEW m \in Modes, Submit(m)
    PROVE  SessionInv'
<1>1. widgets \in Seq(Runs) /\ wakes \in Nat  BY DEF SessionInv, TypeOK
<1>2. Starts(m, FALSE) /\ runs' \in Runs  BY DEF Submit, Starts
<1>3. /\ UNCHANGED <<agentVars, shouldStop, childVars, isRunning, children, stopped>>
      /\ wakes' = wakes /\ widgets' = Append(widgets, runs')
  BY DEF Submit
<1>4. widgets' \in Seq(Runs) /\ wakes' \in Nat  BY <1>1, <1>2, <1>3
<1> QED  BY <1>2, <1>3, <1>4, StartsKeeps

(* A wake-up starts a run, or is dropped.                                      *)
LEMMA WakeUpKeeps ==
    ASSUME SessionInv, AgentSessionAssumption, NEW m \in Modes, WakeUp(m)
    PROVE  SessionInv'
<1>1. TypeOK /\ Fit(history) /\ Known /\ InputComesBack /\ \A q \in stopped : Heard(q)
  BY DEF SessionInv
<1>2. /\ UNCHANGED <<agentVars, shouldStop, childVars, isRunning, children, stopped>>
      /\ widgets' = widgets /\ wakes' = wakes - 1 /\ wakes > 0
  BY DEF WakeUp
<1>3. widgets' \in Seq(Runs) /\ wakes' \in Nat  BY <1>1, <1>2 DEF TypeOK
<1>4. CASE Starts(m, TRUE)  BY <1>2, <1>3, <1>4, StartsKeeps
<1>5. CASE UNCHANGED <<runVars, runs, current>>
  <2>1. /\ UNCHANGED <<history, state, planned, runs, mode, woken, pc, must, iteration>>
        /\ UNCHANGED <<isRunning, shouldStop, current, children, notes, owed, stopped>>
    BY <1>2, <1>5 DEF runVars, agentVars, childVars
  <2>2. TypeOK'  BY <1>1, <1>3, <2>1 DEF TypeOK
  <2>3. Fit(history')  BY <1>1, <2>1
  <2>4. Fit(history)'  BY <2>1, <2>3, FitNext
  <2>5. Known' /\ InputComesBack'  BY <1>1, <2>1 DEF Known, InputComesBack
  <2>6. \A q \in stopped' : Heard(q)'  BY <1>1, <2>1 DEF Heard
  <2> QED  BY <2>2, <2>4, <2>5, <2>6 DEF SessionInv
<1> QED  BY <1>4, <1>5 DEF WakeUp

LEMMA CleansUpFit ==
    ASSUME SessionInv, CleansUp
    PROVE  Fit(history') /\ state' \in States
<1>1. Fit(history) /\ history \in Seq(Messages) /\ Len(history) \in Nat
  BY DEF SessionInv, Fit
<1>2. PICK k \in 0..Len(history) :
        /\ \A i \in (k + 1)..Len(history) : history[i].kind = "calls"
        /\ k > 0 => history[k].kind # "calls"
        /\ history' = SubSeq(history, 1,
                         IF k > 0 /\ history[k].kind = "user" THEN k - 1 ELSE k)
  BY DEF CleansUp
<1>3. Fit(history')
  <2>1. CASE k > 0 /\ history[k].kind = "user"
    <3>1. k - 1 \in 0..Len(history) /\ (k - 1) + 1 = k  BY <1>1, <2>1
    <3>2. Fit(SubSeq(history, 1, k - 1))  BY <1>1, <2>1, <3>1, CutFit
    <3> QED  BY <1>2, <2>1, <3>2
  <2>2. CASE ~(k > 0 /\ history[k].kind = "user")
    <3>1. k < Len(history) => history[k + 1].kind # "results"
      <4>1. k < Len(history) => k + 1 \in (k + 1)..Len(history)  BY <1>1
      <4> QED  BY <1>2, <4>1
    <3>2. Fit(SubSeq(history, 1, k))  BY <1>1, <3>1, CutFit
    <3> QED  BY <1>2, <2>2, <3>2
  <2> QED  BY <2>1, <2>2
<1>4. state' \in States
  <2>1. state' = Moved(state, "idle")  BY DEF CleansUp
  <2>2. state \in States /\ "idle" \in States  BY DEF SessionInv, TypeOK, States
  <2> QED  BY <2>1, <2>2, MovedState
<1> QED  BY <1>3, <1>4

LEMMA StopKeeps ==
    ASSUME SessionInv, AgentSessionAssumption, Stop
    PROVE  SessionInv'
<1>1. TypeOK /\ Known /\ InputComesBack  BY DEF SessionInv
<1>2. shouldStop' = TRUE /\ stopped' = {current} \cap Runs
      /\ must' = [r \in Runs |-> must[r] \/ (r = current /\ pc[r] # "done")]
  BY DEF Stop, CancelCurrent
<1>3. UNCHANGED <<planned, mode, woken, pc, iteration, runs, current, widgets, wakes,
                  notes, owed, isRunning, children>>
  BY DEF Stop, childVars
<1>4. Fit(history') /\ state' \in States  BY CleansUpFit DEF Stop
<1>5. must' \in [Runs -> BOOLEAN]  BY <1>1, <1>2 DEF TypeOK
<1>6. TypeOK'  BY <1>1, <1>2, <1>3, <1>4, <1>5 DEF TypeOK, Fit
<1>7. Fit(history)'  BY <1>3, <1>4, FitNext
<1>8. Known'  BY <1>1, <1>2, <1>3 DEF Known
<1>9. InputComesBack'  BY <1>1, <1>3 DEF InputComesBack
<1>10. \A q \in stopped' : Heard(q)'
  BY <1>1, <1>2, <1>3 DEF Heard, TypeOK
<1> QED  BY <1>6, <1>7, <1>8, <1>9, <1>10 DEF SessionInv

LEMMA RewindKeeps ==
    ASSUME SessionInv, AgentSessionAssumption, NEW i \in DOMAIN widgets, Rewind(i)
    PROVE  SessionInv'
<1>1. TypeOK /\ Fit(history) /\ Known /\ \A q \in stopped : Heard(q)  BY DEF SessionInv
<1>2. must' = [r \in Runs |-> must[r] \/ (r = current /\ pc[r] # "done")]
      /\ current' = 0 /\ isRunning' = FALSE /\ owed' = FALSE
  BY DEF Rewind, CancelCurrent
<1>3. UNCHANGED <<state, planned, runs, mode, woken, pc, iteration, shouldStop, wakes,
                  notes, children, stopped>>
  BY DEF Rewind
<1>4. \/ \E k \in DOMAIN history : /\ history[k].kind = "user"
                                   /\ history' = SubSeq(history, 1, k - 1)
                                   /\ widgets' = SubSeq(widgets, 1, i - 1)
      \/ UNCHANGED <<history, widgets>>
  BY DEF Rewind
<1>5. widgets \in Seq(Runs) /\ i \in 1..Len(widgets)  BY <1>1 DEF TypeOK
<1>6. Fit(history') /\ widgets' \in Seq(Runs)
  <2>1. CASE UNCHANGED <<history, widgets>>  BY <1>1, <1>5, <2>1
  <2>2. CASE \E k \in DOMAIN history : /\ history[k].kind = "user"
                                       /\ history' = SubSeq(history, 1, k - 1)
                                       /\ widgets' = SubSeq(widgets, 1, i - 1)
    <3>1. PICK k \in DOMAIN history : /\ history[k].kind = "user"
                                      /\ history' = SubSeq(history, 1, k - 1)
                                      /\ widgets' = SubSeq(widgets, 1, i - 1)
      BY <2>2
    <3>2. history \in Seq(Messages)  BY <1>1 DEF Fit
    <3>3. k - 1 \in 0..Len(history) /\ (k - 1) + 1 = k  BY <3>2
    <3>4. Fit(SubSeq(history, 1, k - 1))  BY <1>1, <3>1, <3>3, CutFit
    <3>5. SubSeq(widgets, 1, i - 1) \in Seq(Runs)  BY <1>5
    <3> QED  BY <3>1, <3>4, <3>5
  <2> QED  BY <1>4, <2>1, <2>2
<1>7. must' \in [Runs -> BOOLEAN] /\ 0 \in 0..MaxRuns
  BY <1>1, <1>2 DEF TypeOK, AgentSessionAssumption
<1>8. TypeOK'  BY <1>1, <1>2, <1>3, <1>6, <1>7 DEF TypeOK, Fit
<1>9. Fit(history)'  BY <1>3, <1>6, FitNext
<1>10. Known'
  <2>1. 0 <= runs  BY <1>1 DEF TypeOK, AgentSessionAssumption
  <2> QED  BY <1>1, <1>2, <1>3, <2>1 DEF Known
<1>11. InputComesBack'  BY <1>2 DEF InputComesBack
<1>12. \A q \in stopped' : Heard(q)'  BY <1>1, <1>2, <1>3 DEF Heard, TypeOK
<1> QED  BY <1>8, <1>9, <1>10, <1>11, <1>12 DEF SessionInv

LEMMA NotifyKeeps ==
    ASSUME SessionInv, AgentSessionAssumption, Notify
    PROVE  SessionInv'
<1> DEFINE m == Msg("user", 0)
<1>1. TypeOK /\ Fit(history) /\ Known /\ InputComesBack /\ \A q \in stopped : Heard(q)
  BY DEF SessionInv
<1>2. /\ notes < MaxNotes /\ notes' = notes + 1
      /\ history' = Append(history, m)
      /\ wakes' \in {wakes, wakes + 1} /\ owed' \in BOOLEAN
  BY DEF Notify
<1>3. UNCHANGED <<state, planned, mode, woken, pc, must, iteration, runs, shouldStop, current,
                  widgets, isRunning, children, stopped>>
  BY DEF Notify, runVars
<1>4. m \in Messages /\ m.run = 0 /\ m.kind = "user" /\ 0 <= runs
  BY <1>1 DEF Msg, Messages, Kinds, TypeOK, AgentSessionAssumption
<1>5. Fit(history')  BY <1>1, <1>2, <1>4, AppendFit
<1>6. notes' \in 0..MaxNotes /\ wakes' \in Nat
  BY <1>1, <1>2 DEF TypeOK, AgentSessionAssumption
<1>7. TypeOK'  BY <1>1, <1>2, <1>3, <1>5, <1>6 DEF TypeOK, Fit
<1>8. Fit(history)'  BY <1>3, <1>5, FitNext
<1>9. Known' /\ InputComesBack'  BY <1>1, <1>3 DEF Known, InputComesBack
<1>10. \A q \in stopped' : Heard(q)'  BY <1>1, <1>3 DEF Heard
<1> QED  BY <1>7, <1>8, <1>9, <1>10 DEF SessionInv

-------------------------------------------------------------------------------
(* The theorems.                                                               *)

(* SessionInv holds at the start,                                              *)
THEOREM InitInv == ASSUME AgentSessionAssumption, Init PROVE SessionInv
<1>1. TypeOK
  <2>1. "none" \in Places /\ "idle" \in States /\ 0 \in 0..MaxIterations
        /\ 0 \in 0..MaxRuns /\ 0 \in 0..MaxNotes
    BY DEF Places, States, AgentSessionAssumption
  <2>2. history \in Seq(Messages) /\ widgets \in Seq(Runs)  BY DEF Init
  <2>3. /\ mode \in [Runs -> {"assist", "interact", "agent"}]
        /\ pc \in [Runs -> Places] /\ iteration \in [Runs -> 0..MaxIterations]
    BY <2>1 DEF Init
  <2>4. woken \in [Runs -> BOOLEAN] /\ must \in [Runs -> BOOLEAN]  BY DEF Init
  <2>5. /\ runs \in 0..MaxRuns /\ current \in 0..MaxRuns /\ notes \in 0..MaxNotes
        /\ wakes \in Nat /\ stopped \in SUBSET Runs /\ state \in States
    BY <2>1 DEF Init
  <2>6. /\ planned \in BOOLEAN /\ isRunning \in BOOLEAN /\ shouldStop \in BOOLEAN
        /\ children \in BOOLEAN /\ owed \in BOOLEAN
    BY DEF Init
  <2> QED  BY <2>2, <2>3, <2>4, <2>5, <2>6 DEF TypeOK
<1>2. Fit(history)  BY DEF Init, Fit, PairedIn
<1>3. Known /\ InputComesBack /\ \A q \in stopped : Heard(q)
  BY DEF Init, Known, InputComesBack, Runs, AgentSessionAssumption
<1> QED  BY <1>1, <1>2, <1>3 DEF SessionInv

(* and every step of the runs, the screen and the watcher preserves it.        *)
THEOREM NextInv == ASSUME AgentSessionAssumption, SessionInv, [Next]_vars PROVE SessionInv'
<1>1. ASSUME NEW r \in Runs, RunStep(r)
      PROVE  SessionInv'
  BY <1>1, StepInner, BeginKeeps, CancelledNewKeeps, InnerKeeps
<1>2. ASSUME NEW m \in Modes, Submit(m) \/ WakeUp(m)
      PROVE  SessionInv'
  BY <1>2, SubmitKeeps, WakeUpKeeps
<1>3. CASE Stop  BY <1>3, StopKeeps
<1>4. ASSUME NEW i \in DOMAIN widgets, Rewind(i)
      PROVE  SessionInv'
  BY <1>4, RewindKeeps
<1>5. CASE Notify  BY <1>5, NotifyKeeps
<1>6. CASE UNCHANGED vars
  <2>1. /\ UNCHANGED <<history, state, planned, runs, mode, woken, pc, must, iteration>>
        /\ UNCHANGED <<isRunning, shouldStop, current, widgets, wakes, children, notes, owed, stopped>>
    BY <1>6 DEF vars, agentVars, runVars, screenVars, childVars
  <2>2. TypeOK'  BY <2>1 DEF SessionInv, TypeOK
  <2>3. Fit(history')  BY <2>1 DEF SessionInv
  <2>4. Fit(history)'  BY <2>1, <2>3, FitNext
  <2>5. Known' /\ InputComesBack'  BY <2>1 DEF SessionInv, Known, InputComesBack
  <2>6. \A q \in stopped' : Heard(q)'  BY <2>1 DEF SessionInv, Heard
  <2> QED  BY <2>2, <2>4, <2>5, <2>6 DEF SessionInv
<1> QED  BY <1>1, <1>2, <1>3, <1>4, <1>5, <1>6 DEF Next

(* Every reachable state satisfies it.                                         *)
THEOREM InvHolds == Spec => []SessionInv
BY InitInv, NextInv, AgentSessionAssumption, PTL DEF Spec

(* Every variable has its type.                                                *)
THEOREM TypeCorrect == Spec => []TypeOK
<1>1. SessionInv => TypeOK  BY DEF SessionInv
<1> QED  BY <1>1, InvHolds, PTL

(* Calls and results of assist and agent runs stay together in the history,    *)
(* for any number of runs, rounds, messages of children, Stops and rewinds.    *)
THEOREM PairedHolds == Spec => []Paired
<1>1. SessionInv => Paired  BY DEF SessionInv, Fit, Paired
<1> QED  BY <1>1, InvHolds, PTL

(* Blocked input is blocked by a run that is under way.                        *)
THEOREM InputComesBackHolds == Spec => []InputComesBack
<1>1. SessionInv => InputComesBack  BY DEF SessionInv
<1> QED  BY <1>1, InvHolds, PTL

(* A run that Stop cancelled asks the model nothing more, in any state.        *)
LEMMA StepHeard ==
    ASSUME AgentSessionAssumption, SessionInv, [Next]_vars, NEW q \in stopped
    PROVE  pc'[q] \in Asking => pc'[q] = pc[q] /\ iteration'[q] = iteration[q]
<1>1. q \in Runs /\ q <= runs /\ Heard(q) /\ TypeOK
  BY DEF SessionInv, TypeOK, Known
<1>2. ASSUME NEW r \in Runs, RunStep(r)
      PROVE  pc'[q] \in Asking => pc'[q] = pc[q] /\ iteration'[q] = iteration[q]
  <2>1. CASE q # r
    <3>1. \E place, round : At(r, place, round)
      BY <1>2, StepInner DEF Begin, CancelledNew, Cancelled, Inner, Effect
    <3> QED  BY <1>1, <2>1, <3>1 DEF At, TypeOK
  <2>2. CASE q = r
    <3>1. ~Begin(r)  BY <1>1, <2>2 DEF Begin, Ready, Heard
    <3>2. CASE CancelledNew(r)
      BY <1>1, <2>2, <3>2 DEF CancelledNew, Cancelled, At, TypeOK, Asking
    <3>3. CASE Inner(r)  BY <2>2, <3>3 DEF Inner, Over, Asking
    <3> QED  BY <1>2, <3>1, <3>2, <3>3, StepInner
  <2> QED  BY <2>1, <2>2
<1>3. ASSUME NEW m \in Modes, Submit(m) \/ WakeUp(m)
      PROVE  pc'[q] \in Asking => pc'[q] = pc[q] /\ iteration'[q] = iteration[q]
  <2>1. \/ UNCHANGED <<pc, iteration>>
        \/ pc' = [pc EXCEPT ![runs + 1] = "new"] /\ UNCHANGED iteration
    BY <1>3 DEF Submit, WakeUp, Starts, runVars
  <2>2. q # runs + 1  BY <1>1 DEF TypeOK, Runs
  <2> QED  BY <1>1, <2>1, <2>2 DEF TypeOK
<1>4. CASE Stop  BY <1>4 DEF Stop
<1>5. ASSUME NEW i \in DOMAIN widgets, Rewind(i)
      PROVE  pc'[q] \in Asking => pc'[q] = pc[q] /\ iteration'[q] = iteration[q]
  BY <1>5 DEF Rewind
<1>6. CASE Notify  BY <1>6 DEF Notify, runVars
<1>7. CASE UNCHANGED vars  BY <1>7 DEF vars, runVars
<1> QED  BY <1>2, <1>3, <1>4, <1>5, <1>6, <1>7 DEF Next

THEOREM StopIsHeardHolds == Spec => StopIsHeard
<1> DEFINE Quiets == \A r \in stopped : pc'[r] \in Asking =>
                        pc'[r] = pc[r] /\ iteration'[r] = iteration[r]
<1>1. SessionInv /\ [Next]_vars => [Quiets]_vars
  BY StepHeard, AgentSessionAssumption
<1> HIDE DEF Quiets
<1>2. Spec => [][Quiets]_vars  BY <1>1, InvHolds, PTL DEF Spec
<1> QED  BY <1>2 DEF Quiets, StopIsHeard
===============================================================================
