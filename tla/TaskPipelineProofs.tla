------------------------- MODULE TaskPipelineProofs -------------------------
(***************************************************************************)
(* For any number of pages, processes, faults, tokens and versions: the    *)
(* types of TaskPipeline, and, while invocations do not overlap, that the  *)
(* status tells which work is on disk and moves along VALID_TRANSITIONS.   *)
(*                                                                         *)
(* StatusMatchesFiles is not inductive: Update writes the status that was  *)
(* decided on when the stage began.  Sound ties what an invocation holds   *)
(* to what is on disk: the status is still the one its stage starts from,  *)
(* the model was given the present inputs, a stage whose transition is     *)
(* under way has its output, and a transition that changes to a failure    *)
(* or back from one changes nothing in what counts as done.                *)
(***************************************************************************)
EXTENDS TaskPipeline, FiniteSetTheorems, TLAPS

Working == {"agent", "evidence", "asking"}

\* A process in a stage knows which.
Fit(q) ==
    /\ q \in Run
    /\ q.pc \in Working \/ (q.pc \in {"check", "update"} /\ q.kind = "stage") => q.stage \in Stage

Typed == TypeOK /\ \A r \in Runners : Fit(run[r])

\* The output of a stage is on disk, made from what it reads as it is now.
Made(s) ==
    IF s = "collect" THEN collected # {} /\ collected \subseteq Evidence
    ELSE file[s].version # 0 /\ file[s].from = Inputs(s)

Failed == {FailureState[s] : s \in Stage}

Moves(r, k) == run[r].pc \in {"check", "update"} /\ run[r].kind = k

Sound(r) ==
    /\ run[r].pc = "loop" => run[r].seen \in {status, "completed"}
    /\ run[r].pc \in Working => status = Before[run[r].stage]
    /\ run[r].pc = "evidence" =>
          /\ run[r].stage = "collect"
          /\ run[r].matches \in Matches /\ run[r].at \in DOMAIN run[r].matches
          /\ \A i \in 1..(run[r].at - 1) : evidence[<<i, run[r].matches[i]>>] # 0
    /\ run[r].pc = "asking" =>
          run[r].stage # "collect" /\ run[r].input = Inputs(run[r].stage)
    /\ Moves(r, "stage") =>
          /\ status = Before[run[r].stage] /\ run[r].target = After[run[r].stage]
          /\ Made(run[r].stage)
    /\ Moves(r, "retry") => Rollback(status, run[r].target)
    /\ Moves(r, "abort") => run[r].target \in Failed
    /\ run[r].pc \in {"check", "update"} => run[r].kind # "none"
    /\ run[r].pc = "update" => run[r].target \in ValidTransitions[status]

IInv == StatusMatchesFiles /\ \A r \in Runners : Sound(r)

\* One invocation of the task at a time.
OneAtATime ==
    \A r, x \in Runners : run[r].pc # "idle" /\ run[x].pc # "idle" => r = x

-----------------------------------------------------------------------------
(* Types *)

LEMMA Pick == ASSUME NEW m \in Matches, NEW i \in DOMAIN m PROVE <<i, m[i]>> \in Names
<1>1. Cardinality(Pages) \in Nat
  BY ConstantsAssumption, FS_CardinalityType
<1>2. PICK n \in 1..Cardinality(Pages) : m \in [1..n -> Pages]
  BY DEF Matches
<1>3. i \in 1..n /\ m[i] \in Pages
  BY <1>2
<1>4. i \in 1..Cardinality(Pages)
  BY <1>1, <1>3
<1> QED  BY <1>3, <1>4 DEF Names

LEMMA IdleFits == Fit(Idle) /\ Idle.pc = "idle"
<1>1. Idle \in Run
  BY DEF Idle, Run, Status
<1> QED  BY <1>1 DEF Fit, Idle, Working

LEMMA InitTyped == Init => Typed
<1> SUFFICES ASSUME Init PROVE Typed
  OBVIOUS
<1>1. run \in [Runners -> Run] /\ \A r \in Runners : Fit(run[r])
  BY IdleFits DEF Init, Fit
<1> QED  BY <1>1 DEF Init, Typed, TypeOK, Status

\* A step of one process.
LEMMA Step ==
  ASSUME Typed, NEW r \in Runners, NEW q, Fit(q), Become(r, q)
  PROVE  /\ run' \in [Runners -> Run] /\ \A x \in Runners : Fit(run'[x])
         /\ run'[r] = q /\ \A x \in Runners : x # r => run'[x] = run[x]
BY DEF Typed, TypeOK, Fit, Become

\* It leaves the files alone.
LEMMA StepTyped ==
  ASSUME Typed, NEW r \in Runners, NEW q, Fit(q), Become(r, q),
         status' \in Status, faults' \in Nat, UNCHANGED files
  PROVE  Typed'
<1>1. run' \in [Runners -> Run] /\ \A x \in Runners : Fit(run'[x])
  BY Step
<1> QED  BY <1>1 DEF Typed, TypeOK, files, Fit

LEMMA AbortFits ==
  ASSUME Typed, NEW r \in Runners, run[r].stage \in Stage
  PROVE  LET q == [run[r] EXCEPT !.pc = "check", !.kind = "abort",
                                 !.target = FailureState[run[r].stage]]
         IN  /\ Fit(q) /\ q.pc = "check" /\ q.kind = "abort" /\ q.target \in Failed
<1> DEFINE t == FailureState[run[r].stage]
           q == [run[r] EXCEPT !.pc = "check", !.kind = "abort", !.target = t]
<1>1. run[r] \in Run
  BY DEF Typed, TypeOK
<1>2. t \in Failed
  BY DEF Failed
<1>3. t \in Status
  BY DEF FailureState, Stage, Status
<1> HIDE DEF t
<1>4. q \in Run /\ q.pc = "check" /\ q.kind = "abort" /\ q.target = t
  BY <1>1, <1>3 DEF Run
<1>5. Fit(q)
  BY <1>4 DEF Fit, Working
<1> QED  BY <1>2, <1>4, <1>5 DEF t

\* An error: the invocation ends, or it records the abort.
LEMMA StopTyped ==
  ASSUME Typed, NEW r \in Runners, Return(r) \/ (run[r].stage \in Stage /\ Abort(r)),
         status' \in Status, faults' \in Nat, UNCHANGED files
  PROVE  Typed'
BY IdleFits, AbortFits, StepTyped DEF Return, Abort

LEMMA InputsType == ASSUME Typed, NEW s \in Stage \ {"collect"} PROVE Inputs(s) \subseteq Nat
<1>1. Evidence \subseteq Nat
  BY DEF Evidence, Typed, TypeOK
<1>2. CASE s = "summarize"
  BY <1>1, <1>2 DEF Inputs
<1>3. CASE s # "summarize"
  <2>1. Reads[s] \subseteq Stage
    BY <1>3 DEF Reads, Stage
  <2> QED  BY <1>3, <2>1 DEF Inputs, Typed, TypeOK
<1> QED  BY <1>2, <1>3

LEMMA InvokeTyped == ASSUME Typed, NEW r \in Runners, Invoke(r) PROVE Typed'
<1>1. UNCHANGED <<status, files, faults>> /\ status \in Status /\ faults \in Nat
  BY DEF Invoke, Typed, TypeOK
<1>2. Idle \in Run
  BY IdleFits DEF Fit
<1>3. CASE Become(r, [Idle EXCEPT !.pc = "loop", !.seen = status])
  <2> DEFINE q == [Idle EXCEPT !.pc = "loop", !.seen = status]
  <2>1. q \in Run /\ q.pc = "loop"
    BY <1>1, <1>2 DEF Run
  <2>2. Fit(q)
    BY <2>1 DEF Fit, Working
  <2> QED  BY <1>1, <1>3, <2>2, StepTyped
<1>4. ASSUME NEW t \in Status,
             Become(r, [Idle EXCEPT !.pc = "check", !.seen = status, !.kind = "retry", !.target = t])
      PROVE  Typed'
  <2> DEFINE q == [Idle EXCEPT !.pc = "check", !.seen = status, !.kind = "retry", !.target = t]
  <2>1. q \in Run /\ q.pc = "check" /\ q.kind = "retry"
    BY <1>1, <1>2 DEF Run
  <2>2. Fit(q)
    BY <2>1 DEF Fit, Working
  <2> QED  BY <1>1, <1>4, <2>2, StepTyped
<1> QED  BY <1>3, <1>4 DEF Invoke

LEMMA LoopTyped == ASSUME Typed, NEW r \in Runners, Loop(r) \/ Pause(r) PROVE Typed'
<1>1. UNCHANGED <<status, files, faults>> /\ status \in Status /\ faults \in Nat /\ run[r] \in Run
  BY DEF Loop, Pause, Typed, TypeOK
<1>2. CASE Return(r)
  BY <1>1, <1>2, StopTyped
<1>3. ASSUME NEW s \in Stage, Become(r, [run[r] EXCEPT !.pc = "agent", !.stage = s])
      PROVE  Typed'
  <2> DEFINE q == [run[r] EXCEPT !.pc = "agent", !.stage = s]
  <2>1. q \in Run /\ q.stage = s
    BY <1>1 DEF Run
  <2>2. Fit(q)
    BY <2>1 DEF Fit
  <2> QED  BY <1>1, <1>3, <2>2, StepTyped
<1> QED  BY <1>2, <1>3 DEF Loop, Pause

LEMMA AgentTyped ==
  ASSUME Typed, NEW r \in Runners, Collect(r) \/ \E s \in Stage \ {"collect"} : Asks(r, s)
  PROVE  Typed'
<1>1. UNCHANGED <<status, files, faults>> /\ status \in Status /\ faults \in Nat
  BY DEF Collect, Asks, Typed, TypeOK
<1>2. run[r] \in Run /\ run[r].stage \in Stage
  BY DEF Collect, Asks, Typed, TypeOK, Fit, Working, Stage
<1>3. CASE Abort(r)
  BY <1>1, <1>2, <1>3, StopTyped
<1>4. ASSUME NEW m \in Matches,
             Become(r, [run[r] EXCEPT !.pc = "evidence", !.matches = m, !.at = 1])
      PROVE  Typed'
  <2> DEFINE q == [run[r] EXCEPT !.pc = "evidence", !.matches = m, !.at = 1]
  <2>1. q \in Run /\ q.stage = run[r].stage
    BY <1>2 DEF Run
  <2>2. Fit(q)
    BY <1>2, <2>1 DEF Fit
  <2> QED  BY <1>1, <1>4, <2>2, StepTyped
<1>5. ASSUME NEW s \in Stage \ {"collect"},
             Become(r, [run[r] EXCEPT !.pc = "asking", !.input = Inputs(s)])
      PROVE  Typed'
  <2> DEFINE in == Inputs(s)
             q == [run[r] EXCEPT !.pc = "asking", !.input = in]
  <2>1. in \in SUBSET Nat
    BY InputsType
  <2>2. Become(r, q)
    BY <1>5
  <2> HIDE DEF in
  <2>3. q \in Run /\ q.stage = run[r].stage
    BY <1>2, <2>1 DEF Run
  <2>4. Fit(q)
    BY <1>2, <2>3 DEF Fit
  <2> QED  BY <1>1, <2>2, <2>4, StepTyped
<1> QED  BY <1>3, <1>4, <1>5 DEF Collect, Asks

LEMMA WriteEvidenceTyped == ASSUME Typed, NEW r \in Runners, WriteEvidence(r) PROVE Typed'
<1> DEFINE m == run[r].matches
           at == run[r].at
<1>1. UNCHANGED <<status, file, faults>>
  BY DEF WriteEvidence
<1>2. run[r] \in Run /\ run[r].stage \in Stage
  BY DEF WriteEvidence, Typed, TypeOK, Fit, Working
<1>3. versions' \in Nat /\ evidence' \in [Names -> Nat]
  <2>1. versions' = versions + 1 /\ evidence' = [evidence EXCEPT ![<<at, m[at]>>] = versions + 1]
    BY DEF WriteEvidence
  <2> HIDE DEF at, m
  <2>2. versions \in Nat /\ evidence \in [Names -> Nat]
    BY DEF Typed, TypeOK
  <2>3. versions' \in Nat
    BY <2>1, <2>2
  <2>4. PICK n : evidence' = [evidence EXCEPT ![n] = versions']
    BY <2>1
  <2>5. evidence' \in [Names -> Nat]
    BY <2>2, <2>3, <2>4
  <2> QED  BY <2>3, <2>5
<1>4. CASE Become(r, [run[r] EXCEPT !.at = at + 1]) /\ UNCHANGED collected
  <2> DEFINE q == [run[r] EXCEPT !.at = at + 1]
  <2>1. q \in Run /\ q.stage = run[r].stage
    BY <1>2 DEF Run
  <2>2. Fit(q)
    BY <1>2, <2>1 DEF Fit
  <2>3. run' \in [Runners -> Run] /\ \A x \in Runners : Fit(run'[x])
    BY <1>4, <2>2, Step
  <2> QED  BY <1>1, <1>3, <1>4, <2>3 DEF Typed, TypeOK
<1>5. CASE /\ Become(r, [run[r] EXCEPT !.pc = "check", !.kind = "stage",
                                      !.target = "collecting", !.cost = 0])
           /\ collected' = {evidence'[<<i, m[i]>>] : i \in DOMAIN m}
  <2> DEFINE q == [run[r] EXCEPT !.pc = "check", !.kind = "stage",
                                 !.target = "collecting", !.cost = 0]
  <2>1. q \in Run /\ q.stage = run[r].stage
    BY <1>2 DEF Run, Status
  <2>2. Fit(q)
    BY <1>2, <2>1 DEF Fit
  <2>3. run' \in [Runners -> Run] /\ \A x \in Runners : Fit(run'[x])
    BY <1>5, <2>2, Step
  <2>4. m \in Matches \/ m = <<>>
    BY <1>2 DEF Run
  <2>5. \A i \in DOMAIN m : evidence'[<<i, m[i]>>] \in Nat
    <3>1. CASE m \in Matches
      BY <1>3, <3>1, Pick
    <3>2. CASE m = <<>>
      BY <3>2
    <3> QED  BY <2>4, <3>1, <3>2
  <2>6. collected' \subseteq Nat
    BY <1>5, <2>5
  <2> QED  BY <1>1, <1>3, <2>3, <2>6 DEF Typed, TypeOK
<1> QED  BY <1>4, <1>5 DEF WriteEvidence

LEMMA AnsweredTyped ==
  ASSUME Typed, NEW r \in Runners, NEW s \in Stage \ {"collect"}, Answered(r, s)
  PROVE  Typed'
<1>1. UNCHANGED <<status, evidence, collected, faults>>
  BY DEF Answered
<1>2. run[r] \in Run /\ run[r].stage \in Stage
  BY DEF Answered, Typed, TypeOK, Fit, Working
<1>3. versions' \in Nat /\ run[r].input \in SUBSET Nat
  BY <1>2 DEF Answered, Typed, TypeOK, Run
<1>4. file' \in [Stage -> [version : Nat, from : SUBSET Nat, blank : BOOLEAN]]
  <2>1. PICK blank \in BOOLEAN :
           file' = Replaced(s, [version |-> versions + 1, from |-> run[r].input,
                                blank |-> blank])
    BY DEF Answered
  <2>2. versions + 1 \in Nat
    BY <1>3 DEF Answered
  <2> QED  BY <1>3, <2>1, <2>2 DEF Replaced, Typed, TypeOK
<1>5. PICK cost \in 0..MaxCost :
          Become(r, [run[r] EXCEPT !.pc = "check", !.kind = "stage",
                                   !.target = After[s], !.cost = cost])
  BY DEF Answered
<1> DEFINE t == After[s]
           q == [run[r] EXCEPT !.pc = "check", !.kind = "stage", !.target = t, !.cost = cost]
<1>6. t \in Status /\ cost \in Nat
  BY ConstantsAssumption DEF After, Stage, Status
<1>7. Become(r, q)
  BY <1>5
<1> HIDE DEF t
<1>8. q \in Run /\ q.stage = run[r].stage
  BY <1>2, <1>6 DEF Run
<1>9. Fit(q)
  BY <1>2, <1>8 DEF Fit
<1>10. run' \in [Runners -> Run] /\ \A x \in Runners : Fit(run'[x])
  BY <1>7, <1>9, Step
<1> QED  BY <1>1, <1>3, <1>4, <1>10 DEF Typed, TypeOK

LEMMA RereadTyped == ASSUME Typed, NEW r \in Runners, Reread(r) PROVE Typed'
<1>1. UNCHANGED <<status, files, faults>> /\ status \in Status /\ faults \in Nat /\ run[r] \in Run
  BY DEF Reread, Typed, TypeOK
<1>2. CASE Return(r)
  BY <1>1, <1>2, StopTyped
<1>3. CASE Become(r, [run[r] EXCEPT !.pc = "loop", !.seen = status,
                                   !.tokens = @ + run[r].cost, !.stages = @ + 1])
  <2> DEFINE q == [run[r] EXCEPT !.pc = "loop", !.seen = status,
                                 !.tokens = @ + run[r].cost, !.stages = @ + 1]
  <2>1. run[r].tokens + run[r].cost \in Nat /\ run[r].stages + 1 \in Nat
    BY <1>1 DEF Run
  <2>2. q \in Run /\ q.pc = "loop"
    BY <1>1, <2>1 DEF Run
  <2>3. Fit(q)
    BY <2>2 DEF Fit, Working
  <2> QED  BY <1>1, <1>3, <2>3, StepTyped
<1> QED  BY <1>2, <1>3 DEF Reread

LEMMA TransitionTyped ==
  ASSUME Typed, NEW r \in Runners, Check(r) \/ Update(r) \/ UpdateUntraced(r)
  PROVE  Typed'
<1>1. run[r] \in Run /\ Fit(run[r])
  BY DEF Typed, TypeOK
<1>2. status' \in Status /\ faults' \in Nat /\ UNCHANGED files
  BY <1>1 DEF Check, Update, UpdateUntraced, Typed, TypeOK, Run, files
<1>3. CASE TransitionFails(r)
  <2>1. run[r].kind = "stage" => run[r].stage \in Stage
    BY <1>1 DEF Fit, Check, Update, UpdateUntraced
  <2> QED  BY <1>2, <1>3, <2>1, StopTyped DEF TransitionFails
<1>4. CASE Become(r, [run[r] EXCEPT !.pc = "update"]) /\ Check(r)
  <2> DEFINE q == [run[r] EXCEPT !.pc = "update"]
  <2>1. q \in Run /\ q.stage = run[r].stage /\ q.kind = run[r].kind /\ q.pc = "update"
    BY <1>1 DEF Run
  <2>2. Fit(q)
    BY <1>1, <1>4, <2>1 DEF Fit, Working, Check
  <2> QED  BY <1>2, <1>4, <2>2, StepTyped
<1>5. CASE Become(r, [Idle EXCEPT !.pc = "loop", !.seen = run[r].target])
  <2> DEFINE q == [Idle EXCEPT !.pc = "loop", !.seen = run[r].target]
  <2>1. q \in Run /\ q.pc = "loop"
    BY <1>1, IdleFits DEF Run, Fit
  <2>2. Fit(q)
    BY <2>1 DEF Fit, Working
  <2> QED  BY <1>2, <1>5, <2>2, StepTyped
<1>6. CASE Become(r, [run[r] EXCEPT !.pc = "reread"])
  <2> DEFINE q == [run[r] EXCEPT !.pc = "reread"]
  <2>1. q \in Run /\ q.pc = "reread"
    BY <1>1 DEF Run
  <2>2. Fit(q)
    BY <2>1 DEF Fit, Working
  <2> QED  BY <1>2, <1>6, <2>2, StepTyped
<1>7. CASE Return(r)
  BY <1>2, <1>7, StopTyped
<1> QED  BY <1>3, <1>4, <1>5, <1>6, <1>7 DEF Check, Update, UpdateUntraced

LEMMA FailsTyped == ASSUME Typed, NEW r \in Runners, StageFails(r) \/ Die(r) PROVE Typed'
<1>1. UNCHANGED <<status, files>> /\ status' \in Status /\ faults' \in Nat
  BY DEF StageFails, Die, Typed, TypeOK
<1>2. CASE StageFails(r)
  <2>1. run[r].stage \in Stage
    BY <1>2 DEF StageFails, Typed, Fit, Working
  <2> QED  BY <1>1, <1>2, <2>1, StopTyped DEF StageFails
<1>3. CASE Die(r)
  BY <1>1, <1>3, StopTyped DEF Die
<1> QED  BY <1>2, <1>3

\* The stages that ask the model.
LEMMA Stages ==
  ASSUME NEW r \in Runners
  PROVE  /\ Summarize(r) \/ Critique(r) \/ Integrate(r) \/ Render(r)
              => \E s \in Stage \ {"collect"} : Asks(r, s)
         /\ WriteNotes(r) \/ WriteCritique(r) \/ WriteFinal(r) \/ WriteReport(r)
              => \E s \in Stage \ {"collect"} : Answered(r, s)
BY DEF Summarize, Critique, Integrate, Render, WriteNotes, WriteCritique, WriteFinal, WriteReport,
       Stage

LEMMA NextTyped == Typed /\ [Next]_vars => Typed'
<1> SUFFICES ASSUME Typed, [Next]_vars PROVE Typed'
  OBVIOUS
<1>1. ASSUME NEW r \in Runners, Invoke(r) PROVE Typed'
  BY <1>1, InvokeTyped
<1>2. ASSUME NEW r \in Runners, RunnerStep(r) PROVE Typed'
  <2>1. CASE Loop(r)
    BY <2>1, LoopTyped
  <2>2. CASE Collect(r) \/ Summarize(r) \/ Critique(r) \/ Integrate(r) \/ Render(r)
    BY <2>2, Stages, AgentTyped
  <2>3. CASE WriteEvidence(r)
    BY <2>3, WriteEvidenceTyped
  <2>4. CASE WriteNotes(r) \/ WriteCritique(r) \/ WriteFinal(r) \/ WriteReport(r)
    BY <2>4, Stages, AnsweredTyped
  <2>5. CASE Reread(r)
    BY <2>5, RereadTyped
  <2>6. CASE Check(r) \/ Update(r)
    BY <2>6, TransitionTyped
  <2> QED  BY <1>2, <2>1, <2>2, <2>3, <2>4, <2>5, <2>6 DEF RunnerStep
<1>3. ASSUME NEW r \in Runners, Pause(r) PROVE Typed'
  BY <1>3, LoopTyped
<1>4. ASSUME NEW r \in Runners, StageFails(r) \/ Die(r) PROVE Typed'
  BY <1>4, FailsTyped
<1>5. ASSUME NEW r \in Runners, UpdateUntraced(r) PROVE Typed'
  BY <1>5, TransitionTyped
<1>6. CASE Archive
  BY <1>6 DEF Archive, Typed, TypeOK, Status, files
<1>7. CASE UNCHANGED vars
  BY <1>7 DEF vars, Typed, TypeOK
<1> QED  BY <1>1, <1>2, <1>3, <1>4, <1>5, <1>6, <1>7 DEF Next

LEMMA TypedAlways == Spec => []Typed
BY InitTyped, NextTyped, PTL DEF Spec

\* The variables keep their types, for any number of processes.
THEOREM TypeCorrect == Spec => []TypeOK
<1>1. Typed => TypeOK
  BY DEF Typed
<1> QED  BY <1>1, TypedAlways, PTL

-----------------------------------------------------------------------------
(* Work and status *)

LEMMA DoneSteps ==
  /\ \A s \in Stage : Done(After[s]) \subseteq Done(Before[s]) \cup {s}
  /\ \A st, t \in Status :
        Rollback(st, t) \/ (t \in Failed /\ t \in ValidTransitions[st]) => Done(t) \subseteq Done(st)
<1>1. \A s \in Stage : Done(After[s]) \subseteq Done(Before[s]) \cup {s}
  BY DEF Stage, After, Before, Done
<1>2. ASSUME NEW st \in Status, NEW t \in Status, Rollback(st, t)
      PROVE  Done(t) \subseteq Done(st)
  BY <1>2 DEF Rollback, Done
<1>3. ASSUME NEW st \in Status, NEW t \in Failed, t \in ValidTransitions[st]
      PROVE  Done(t) \subseteq Done(st)
  <2>1. t \in {"failed_collecting", "failed_synthesizing", "failed_critiquing", "failed_rendering"}
    BY DEF Failed, FailureState, Stage
  <2>2. \/ st = "created" /\ t = "failed_collecting"
        \/ st = "collecting" /\ t = "failed_synthesizing"
        \/ st = "synthesizing" /\ t = "failed_critiquing"
        \/ st = "critiquing" /\ t = "failed_rendering"
    BY <1>3, <2>1 DEF Status, ValidTransitions
  <2> QED  BY <2>2 DEF Done
<1> QED  BY <1>1, <1>2, <1>3

\* No stage reads its own output, nor a later one's.
LEMMA Acyclic ==
  ASSUME NEW s \in Stage \ {"collect"}
  PROVE  /\ s \notin Done(Before[s])
         /\ \A d \in (Done(Before[s]) \cup {s}) \ {"collect", "summarize"} :
               d \in Stage /\ Reads[d] \subseteq Stage \ {s}
<1>1. CASE s = "summarize"
  BY <1>1 DEF Before, Done, Stage
<1>2. CASE s = "critique"
  BY <1>2 DEF Before, Done, Stage, Reads
<1>3. CASE s = "integrate"
  BY <1>3 DEF Before, Done, Stage, Reads
<1>4. CASE s = "render"
  BY <1>4 DEF Before, Done, Stage, Reads
<1> QED  BY <1>1, <1>2, <1>3, <1>4 DEF Stage

\* The status never runs ahead of the work.
LEMMA Behind == StatusMatchesFiles <=> \A s \in Done(status) : Made(s)
BY DEF StatusMatchesFiles, Made

LEMMA BehindNext == StatusMatchesFiles' <=> \A s \in Done(status') : Made(s)'
BY DEF StatusMatchesFiles, Made

LEMMA SameFiles ==
  ASSUME UNCHANGED files
  PROVE  /\ Evidence' = Evidence
         /\ \A s : Inputs(s)' = Inputs(s) /\ (Made(s)' <=> Made(s))
<1>1. Evidence' = Evidence
  BY DEF files, Evidence
<1>2. \A s : Inputs(s)' = Inputs(s)
  BY <1>1 DEF files, Inputs
<1> QED  BY <1>1, <1>2 DEF files, Made

LEMMA SameStatus ==
  ASSUME StatusMatchesFiles, UNCHANGED <<status, files>>
  PROVE  StatusMatchesFiles'
BY SameFiles, Behind, BehindNext

LEMMA Quiet == ASSUME NEW r, run[r].pc = "idle" PROVE Sound(r)
BY DEF Sound, Moves, Working

LEMMA QuietNext == ASSUME NEW r, run'[r].pc = "idle" PROVE Sound(r)'
BY DEF Sound, Moves, Working

\* While r moves the others are idle.
LEMMA Alone ==
  ASSUME Typed, OneAtATime, OneAtATime', NEW r \in Runners, NEW q, Fit(q), Become(r, q),
         run[r].pc # "idle" \/ q.pc # "idle"
  PROVE  \A x \in Runners : x # r => Sound(x)'
<1>1. run'[r] = q /\ \A x \in Runners : x # r => run'[x] = run[x]
  BY Step
<1>2. \A x \in Runners : x # r => run'[x].pc = "idle"
  BY <1>1 DEF OneAtATime
<1> QED  BY <1>2, QuietNext

\* The invocation of r is over, for now or with an abort to record.
LEMMA StopSound ==
  ASSUME Typed, OneAtATime, OneAtATime', NEW r \in Runners, run[r].pc # "idle",
         Return(r) \/ (run[r].stage \in Stage /\ Abort(r))
  PROVE  \A x \in Runners : Sound(x)'
<1>1. CASE Return(r)
  <2>1. Fit(Idle) /\ Become(r, Idle)
    BY <1>1, IdleFits DEF Return
  <2>2. \A x \in Runners : x # r => Sound(x)'
    BY <2>1, Alone
  <2>3. run'[r].pc = "idle"
    BY <2>1, Step, IdleFits
  <2> QED  BY <2>2, <2>3, QuietNext
<1>2. CASE run[r].stage \in Stage /\ Abort(r)
  <2> DEFINE q == [run[r] EXCEPT !.pc = "check", !.kind = "abort",
                                 !.target = FailureState[run[r].stage]]
  <2>1. Fit(q) /\ q.pc = "check" /\ q.kind = "abort" /\ q.target \in Failed /\ Become(r, q)
    BY <1>2, AbortFits DEF Abort
  <2> HIDE DEF q
  <2>2. \A x \in Runners : x # r => Sound(x)'
    BY <2>1, Alone
  <2>3. run'[r] = q
    BY <2>1, Step
  <2>4. Sound(r)'
    BY <2>1, <2>3 DEF Sound, Moves, Working
  <2> QED  BY <2>2, <2>4
<1> QED  BY <1>1, <1>2

LEMMA InvokeSound ==
  ASSUME Typed, IInv, OneAtATime, OneAtATime', NEW r \in Runners, Invoke(r)
  PROVE  IInv'
<1>1. UNCHANGED <<status, files>> /\ status \in Status
  BY DEF Invoke, Typed, TypeOK
<1>2. StatusMatchesFiles'
  BY <1>1, SameStatus DEF IInv
<1>3. Idle \in Run
  BY IdleFits DEF Fit
<1>4. CASE Become(r, [Idle EXCEPT !.pc = "loop", !.seen = status])
  <2> DEFINE q == [Idle EXCEPT !.pc = "loop", !.seen = status]
  <2>1. q \in Run /\ q.pc = "loop" /\ q.seen = status
    BY <1>1, <1>3 DEF Run
  <2>2. Fit(q) /\ Become(r, q)
    BY <1>4, <2>1 DEF Fit, Working
  <2> HIDE DEF q
  <2>3. run'[r] = q /\ \A x \in Runners : x # r => Sound(x)'
    BY <2>1, <2>2, Step, Alone
  <2>4. Sound(r)'
    BY <1>1, <2>1, <2>3 DEF Sound, Moves, Working
  <2> QED  BY <1>2, <2>3, <2>4 DEF IInv
<1>5. ASSUME NEW t \in Status, Rollback(status, t),
             Become(r, [Idle EXCEPT !.pc = "check", !.seen = status, !.kind = "retry", !.target = t])
      PROVE  IInv'
  <2> DEFINE q == [Idle EXCEPT !.pc = "check", !.seen = status, !.kind = "retry", !.target = t]
  <2>1. q \in Run /\ q.pc = "check" /\ q.kind = "retry" /\ q.target = t
    BY <1>1, <1>3 DEF Run
  <2>2. Fit(q) /\ Become(r, q)
    BY <1>5, <2>1 DEF Fit, Working
  <2> HIDE DEF q
  <2>3. run'[r] = q /\ \A x \in Runners : x # r => Sound(x)'
    BY <2>1, <2>2, Step, Alone
  <2>4. Sound(r)'
    BY <1>1, <1>5, <2>1, <2>3 DEF Sound, Moves, Working
  <2> QED  BY <1>2, <2>3, <2>4 DEF IInv
<1> QED  BY <1>4, <1>5 DEF Invoke

LEMMA LoopSound ==
  ASSUME Typed, IInv, OneAtATime, OneAtATime', NEW r \in Runners, Loop(r) \/ Pause(r)
  PROVE  IInv'
<1>1. UNCHANGED <<status, files>> /\ run[r] \in Run /\ run[r].pc = "loop"
  BY DEF Loop, Pause, Typed, TypeOK
<1>2. StatusMatchesFiles' /\ run[r].seen \in {status, "completed"}
  BY <1>1, SameStatus DEF IInv, Sound
<1>3. CASE Return(r)
  BY <1>1, <1>2, <1>3, StopSound DEF IInv
<1>4. ASSUME NEW s \in Stage, run[r].seen = Before[s],
             Become(r, [run[r] EXCEPT !.pc = "agent", !.stage = s])
      PROVE  IInv'
  <2> DEFINE q == [run[r] EXCEPT !.pc = "agent", !.stage = s]
  <2>1. q \in Run /\ q.pc = "agent" /\ q.stage = s
    BY <1>1 DEF Run
  <2>2. Fit(q) /\ Become(r, q)
    BY <1>4, <2>1 DEF Fit
  <2> HIDE DEF q
  <2>3. run'[r] = q /\ \A x \in Runners : x # r => Sound(x)'
    BY <2>1, <2>2, Step, Alone
  <2>4. status = Before[s]
    BY <1>2, <1>4 DEF Before, Stage
  <2>5. Sound(r)'
    BY <1>1, <2>1, <2>3, <2>4 DEF Sound, Moves, Working
  <2> QED  BY <1>2, <2>3, <2>5 DEF IInv
<1> QED  BY <1>3, <1>4 DEF Loop, Pause

LEMMA AgentSound ==
  ASSUME Typed, IInv, OneAtATime, OneAtATime', NEW r \in Runners,
         Collect(r) \/ \E s \in Stage \ {"collect"} : Asks(r, s)
  PROVE  IInv'
<1>1. UNCHANGED <<status, files>> /\ run[r] \in Run /\ run[r].pc = "agent"
  BY DEF Collect, Asks, Typed, TypeOK
<1>2. run[r].stage \in Stage /\ status = Before[run[r].stage]
  BY <1>1 DEF Typed, Fit, Working, IInv, Sound
<1>3. StatusMatchesFiles'
  BY <1>1, SameStatus DEF IInv
<1>4. CASE Abort(r)
  BY <1>1, <1>2, <1>3, <1>4, StopSound DEF IInv
<1>5. ASSUME NEW m \in Matches, Collect(r),
             Become(r, [run[r] EXCEPT !.pc = "evidence", !.matches = m, !.at = 1])
      PROVE  IInv'
  <2> DEFINE q == [run[r] EXCEPT !.pc = "evidence", !.matches = m, !.at = 1]
  <2>1. q \in Run /\ q.pc = "evidence" /\ q.stage = run[r].stage /\ q.matches = m /\ q.at = 1
    BY <1>1 DEF Run
  <2>2. Fit(q) /\ Become(r, q)
    BY <1>2, <1>5, <2>1 DEF Fit
  <2> HIDE DEF q
  <2>3. run'[r] = q /\ \A x \in Runners : x # r => Sound(x)'
    BY <2>1, <2>2, Step, Alone
  <2>4. 1 \in DOMAIN m
    BY ConstantsAssumption, FS_CardinalityType DEF Matches
  <2>5. run[r].stage = "collect"
    BY <1>5 DEF Collect
  <2>6. \A i \in 1..(1 - 1) : FALSE
    OBVIOUS
  <2>7. Sound(r)'
    BY <1>1, <1>2, <2>1, <2>3, <2>4, <2>5, <2>6 DEF Sound, Moves, Working
  <2> QED  BY <1>3, <2>3, <2>7 DEF IInv
<1>6. ASSUME NEW s \in Stage \ {"collect"}, run[r].stage = s,
             Become(r, [run[r] EXCEPT !.pc = "asking", !.input = Inputs(s)])
      PROVE  IInv'
  <2> DEFINE in == Inputs(s)
             q == [run[r] EXCEPT !.pc = "asking", !.input = in]
  <2>1. in \in SUBSET Nat
    BY InputsType
  <2>2. Become(r, q)
    BY <1>6
  <2>3. in = Inputs(s)'
    BY <1>1, SameFiles
  <2> HIDE DEF in
  <2>4. q \in Run /\ q.pc = "asking" /\ q.stage = s /\ q.input = in
    BY <1>1, <1>6, <2>1 DEF Run
  <2>5. Fit(q)
    BY <2>4 DEF Fit
  <2> HIDE DEF q
  <2>6. run'[r] = q /\ \A x \in Runners : x # r => Sound(x)'
    BY <2>2, <2>4, <2>5, Step, Alone
  <2>7. Sound(r)'
    BY <1>1, <1>2, <1>6, <2>1, <2>3, <2>4, <2>6 DEF Sound, Moves, Working
  <2> QED  BY <1>3, <2>6, <2>7 DEF IInv
<1> QED  BY <1>4, <1>5, <1>6 DEF Collect, Asks

LEMMA RereadSound ==
  ASSUME Typed, IInv, OneAtATime, OneAtATime', NEW r \in Runners, Reread(r)
  PROVE  IInv'
<1>1. UNCHANGED <<status, files>> /\ run[r] \in Run /\ run[r].pc = "reread" /\ status \in Status
  BY DEF Reread, Typed, TypeOK
<1>2. StatusMatchesFiles'
  BY <1>1, SameStatus DEF IInv
<1>3. CASE Return(r)
  BY <1>1, <1>2, <1>3, StopSound DEF IInv
<1>4. CASE Become(r, [run[r] EXCEPT !.pc = "loop", !.seen = status,
                                   !.tokens = @ + run[r].cost, !.stages = @ + 1])
  <2> DEFINE q == [run[r] EXCEPT !.pc = "loop", !.seen = status,
                                 !.tokens = @ + run[r].cost, !.stages = @ + 1]
  <2>1. run[r].tokens + run[r].cost \in Nat /\ run[r].stages + 1 \in Nat
    BY <1>1 DEF Run
  <2>2. q \in Run /\ q.pc = "loop" /\ q.seen = status
    BY <1>1, <2>1 DEF Run
  <2>3. Fit(q) /\ Become(r, q)
    BY <1>4, <2>2 DEF Fit, Working
  <2> HIDE DEF q
  <2>4. run'[r] = q /\ \A x \in Runners : x # r => Sound(x)'
    BY <2>2, <2>3, Step, Alone
  <2>5. Sound(r)'
    BY <1>1, <2>2, <2>4 DEF Sound, Moves, Working
  <2> QED  BY <1>2, <2>4, <2>5 DEF IInv
<1> QED  BY <1>3, <1>4 DEF Reread

LEMMA FailsSound ==
  ASSUME Typed, IInv, OneAtATime, OneAtATime', NEW r \in Runners, StageFails(r) \/ Die(r)
  PROVE  IInv'
<1>1. UNCHANGED <<status, files>> /\ run[r].pc # "idle"
  BY DEF StageFails, Die
<1>2. StatusMatchesFiles'
  BY <1>1, SameStatus DEF IInv
<1>3. StageFails(r) => run[r].stage \in Stage
  BY DEF StageFails, Typed, Fit, Working
<1> QED  BY <1>1, <1>2, <1>3, StopSound DEF StageFails, Die, IInv

LEMMA CheckSound ==
  ASSUME Typed, IInv, OneAtATime, OneAtATime', NEW r \in Runners, Check(r)
  PROVE  IInv'
<1>1. UNCHANGED <<status, files>> /\ run[r] \in Run /\ run[r].pc = "check" /\ Fit(run[r])
  BY DEF Check, Typed, TypeOK
<1>2. StatusMatchesFiles'
  BY <1>1, SameStatus DEF IInv
<1>3. CASE TransitionFails(r)
  <2>1. run[r].kind = "stage" => run[r].stage \in Stage
    BY <1>1 DEF Fit
  <2> QED  BY <1>1, <1>2, <1>3, <2>1, StopSound DEF TransitionFails, IInv
<1>4. CASE run[r].target \in ValidTransitions[status] /\ Become(r, [run[r] EXCEPT !.pc = "update"])
  <2> DEFINE q == [run[r] EXCEPT !.pc = "update"]
  <2>1. q \in Run /\ q.pc = "update" /\ q.kind = run[r].kind /\ q.target = run[r].target
        /\ q.stage = run[r].stage
    BY <1>1 DEF Run
  <2>2. Fit(q) /\ Become(r, q)
    BY <1>1, <1>4, <2>1 DEF Fit, Working
  <2> HIDE DEF q
  <2>3. run'[r] = q /\ \A x \in Runners : x # r => Sound(x)'
    BY <2>1, <2>2, Step, Alone
  <2>4. Sound(r) /\ \A s : Made(s)' <=> Made(s)
    BY <1>1, SameFiles DEF IInv
  <2>5. Sound(r)'
    BY <1>1, <1>4, <2>1, <2>3, <2>4 DEF Sound, Moves, Working
  <2> QED  BY <1>2, <2>3, <2>5 DEF IInv
<1> QED  BY <1>3, <1>4 DEF Check

\* What is written changes neither the stages that are done nor what they read.
LEMMA WriteEvidenceSound ==
  ASSUME Typed, IInv, OneAtATime, OneAtATime', NEW r \in Runners, WriteEvidence(r)
  PROVE  IInv'
<1> DEFINE m == run[r].matches
           at == run[r].at
<1>1. run[r].pc = "evidence" /\ run[r] \in Run /\ UNCHANGED <<status, file>>
  BY DEF WriteEvidence, Typed, TypeOK
<1>2. /\ run[r].stage = "collect" /\ status = Before["collect"] /\ m \in Matches /\ at \in DOMAIN m
      /\ \A i \in 1..(at - 1) : evidence[<<i, m[i]>>] # 0
  BY <1>1 DEF IInv, Sound, Working
<1>3. StatusMatchesFiles'
  BY <1>1, <1>2, BehindNext DEF Before, Done
<1>4. /\ versions' = versions + 1 /\ evidence' = [evidence EXCEPT ![<<at, m[at]>>] = versions']
      /\ versions \in Nat /\ evidence \in [Names -> Nat]
  BY DEF WriteEvidence, Typed, TypeOK
<1>5. PICK n \in Nat : DOMAIN m = 1..n /\ Len(m) = n
  BY <1>2, ConstantsAssumption, FS_CardinalityType DEF Matches
<1> HIDE DEF m, at
<1>6. at \in Nat /\ at \in 1..n
  BY <1>2, <1>5
<1>7. <<at, m[at]>> \in Names
  BY <1>2, Pick
<1>8. \A i \in 1..at : <<i, m[i]>> \in Names /\ evidence'[<<i, m[i]>>] # 0
  <2> SUFFICES ASSUME NEW i \in 1..at PROVE <<i, m[i]>> \in Names /\ evidence'[<<i, m[i]>>] # 0
    OBVIOUS
  <2>1. <<i, m[i]>> \in Names
    BY <1>2, <1>5, <1>6, Pick
  <2>2. CASE i = at
    BY <1>4, <1>7, <2>2
  <2>3. CASE i # at
    <3>1. i \in 1..(at - 1)
      BY <1>6, <2>3
    <3>2. evidence'[<<i, m[i]>>] = evidence[<<i, m[i]>>]
      BY <1>4, <2>1, <2>3
    <3> QED  BY <1>2, <2>1, <3>1, <3>2
  <2> QED  BY <2>2, <2>3
<1>9. CASE at < Len(m) /\ Become(r, [run[r] EXCEPT !.at = at + 1])
  <2> DEFINE q == [run[r] EXCEPT !.at = at + 1]
  <2>1. q \in Run /\ q.pc = "evidence" /\ q.stage = "collect" /\ q.matches = m /\ q.at = at + 1
    BY <1>1, <1>2, <1>6, SMTT(30) DEF Run, m
  <2>2. Fit(q) /\ Become(r, q)
    BY <1>9, <2>1 DEF Fit, Stage
  <2> HIDE DEF q
  <2>3. run'[r] = q /\ \A x \in Runners : x # r => Sound(x)'
    BY <2>1, <2>2, Step, Alone
  <2>4. at + 1 \in DOMAIN m /\ (at + 1) - 1 = at
    BY <1>5, <1>6, <1>9
  <2>5. Sound(r)'
    BY <1>1, <1>2, <1>8, <2>1, <2>3, <2>4 DEF Sound, Moves, Working
  <2> QED  BY <1>3, <2>3, <2>5 DEF IInv
<1>10. CASE /\ ~(at < Len(m))
            /\ Become(r, [run[r] EXCEPT !.pc = "check", !.kind = "stage",
                                        !.target = "collecting", !.cost = 0])
            /\ collected' = {evidence'[<<i, m[i]>>] : i \in DOMAIN m}
  <2> DEFINE q == [run[r] EXCEPT !.pc = "check", !.kind = "stage",
                                 !.target = "collecting", !.cost = 0]
  <2>1. /\ q \in Run /\ q.pc = "check" /\ q.stage = "collect" /\ q.kind = "stage"
        /\ q.target = "collecting"
    BY <1>1, <1>2 DEF Run, Status
  <2>2. Fit(q) /\ Become(r, q)
    BY <1>10, <2>1 DEF Fit, Stage
  <2> HIDE DEF q
  <2>3. run'[r] = q /\ \A x \in Runners : x # r => Sound(x)'
    BY <2>1, <2>2, Step, Alone
  <2>4. DOMAIN m = 1..at
    BY <1>5, <1>6, <1>10
  <2>5. collected' # {} /\ collected' \subseteq Evidence'
    <3>1. collected' = {evidence'[<<i, m[i]>>] : i \in 1..at} /\ 1 \in 1..at
      BY <1>6, <1>10, <2>4
    <3>2. Evidence' = {evidence'[k] : k \in {x \in Names : evidence'[x] # 0}}
      BY DEF Evidence
    <3> QED  BY <1>8, <3>1, <3>2
  <2>6. Made("collect")'
    BY <2>5 DEF Made
  <2>7. Sound(r)'
    BY <1>1, <1>2, <2>1, <2>3, <2>6 DEF Sound, Moves, Working, After
  <2> QED  BY <1>3, <2>3, <2>7 DEF IInv
<1> QED  BY <1>9, <1>10 DEF WriteEvidence, m, at

LEMMA AnsweredSound ==
  ASSUME Typed, IInv, OneAtATime, OneAtATime', NEW r \in Runners,
         NEW s \in Stage \ {"collect"}, Answered(r, s)
  PROVE  IInv'
<1>1. /\ UNCHANGED <<status, evidence, collected>>
      /\ run[r].pc = "asking" /\ run[r].stage = s /\ run[r] \in Run
  BY DEF Answered, Typed, TypeOK
<1>2. run[r].input = Inputs(s) /\ status = Before[s]
  BY <1>1 DEF IInv, Sound, Working
<1>3. versions \in Nat /\ file \in [Stage -> [version : Nat, from : SUBSET Nat, blank : BOOLEAN]]
  BY DEF Typed, TypeOK
<1>4. PICK blank \in BOOLEAN :
         file' = [file EXCEPT ![s] = [version |-> versions + 1, from |-> run[r].input,
                                      blank |-> blank]]
  BY DEF Answered, Replaced
<1>5. file'[s].version # 0 /\ file'[s].from = Inputs(s) /\ \A d \in Stage \ {s} : file'[d] = file[d]
  BY <1>2, <1>3, <1>4
<1>6. Evidence' = Evidence
  BY <1>1 DEF Evidence
<1>7. \A d \in (Done(Before[s]) \cup {s}) \ {"collect"} : Inputs(d)' = Inputs(d)
  <2> SUFFICES ASSUME NEW d \in (Done(Before[s]) \cup {s}) \ {"collect"}
               PROVE  Inputs(d)' = Inputs(d)
    OBVIOUS
  <2>1. CASE d = "summarize"
    BY <1>6, <2>1 DEF Inputs
  <2>2. CASE d # "summarize"
    <3>1. Reads[d] \subseteq Stage \ {s}
      BY <2>2, Acyclic
    <3>2. \A i \in Reads[d] : file'[i] = file[i]
      BY <1>5, <3>1
    <3> QED  BY <2>2, <3>2 DEF Inputs
  <2> QED  BY <2>1, <2>2
<1>8. Made(s)'
  BY <1>5, <1>7 DEF Made
<1>9. \A d \in Done(Before[s]) : d \in Stage /\ d # s
  BY Acyclic DEF Done, Stage
<1>10. \A d \in Done(status) : Made(d)
  BY Behind DEF IInv
<1>11. \A d \in Done(Before[s]) : Made(d)'
  BY <1>1, <1>2, <1>5, <1>6, <1>7, <1>9, <1>10 DEF Made
<1>12. StatusMatchesFiles'
  BY <1>1, <1>2, <1>11, BehindNext
<1>13. PICK cost \in 0..MaxCost :
          Become(r, [run[r] EXCEPT !.pc = "check", !.kind = "stage",
                                   !.target = After[s], !.cost = cost])
  BY DEF Answered
<1> DEFINE t == After[s]
           q == [run[r] EXCEPT !.pc = "check", !.kind = "stage", !.target = t, !.cost = cost]
<1>14. t \in Status /\ cost \in Nat
  BY ConstantsAssumption DEF After, Stage, Status
<1>15. Become(r, q)
  BY <1>13
<1> HIDE DEF t
<1>16. q \in Run /\ q.pc = "check" /\ q.stage = s /\ q.kind = "stage" /\ q.target = t
  BY <1>1, <1>14 DEF Run
<1>17. Fit(q)
  BY <1>16 DEF Fit
<1> HIDE DEF q
<1>18. run'[r] = q /\ \A x \in Runners : x # r => Sound(x)'
  BY <1>15, <1>16, <1>17, Step, Alone
<1>19. Sound(r)'
  BY <1>1, <1>2, <1>8, <1>16, <1>18 DEF Sound, Moves, Working, t
<1> QED  BY <1>12, <1>18, <1>19 DEF IInv

\* What counts as done after the UPDATE is on disk already.
LEMMA UpdateMatches ==
  ASSUME Typed, IInv, NEW r \in Runners, run[r].pc = "update", status' = run[r].target,
         UNCHANGED files
  PROVE  StatusMatchesFiles'
<1>1. run[r] \in Run /\ run[r].target \in Status /\ status \in Status
  BY DEF Typed, TypeOK, Run
<1>2. Sound(r) /\ Moves(r, run[r].kind) /\ run[r].kind \in {"retry", "stage", "abort"}
  BY <1>1 DEF IInv, Sound, Moves, Run
<1>3. \A d \in Done(status) : Made(d)
  BY Behind DEF IInv
<1>4. \A d \in Done(run[r].target) : Made(d)
  <2>1. CASE run[r].kind = "stage"
    <3>1. run[r].stage \in Stage
      BY <2>1 DEF Typed, Fit
    <3> QED  BY <1>2, <1>3, <2>1, <3>1, DoneSteps DEF Sound
  <2>2. CASE run[r].kind = "retry"
    BY <1>1, <1>2, <1>3, <2>2, DoneSteps DEF Sound
  <2>3. CASE run[r].kind = "abort"
    BY <1>1, <1>2, <1>3, <2>3, DoneSteps DEF Sound
  <2> QED  BY <1>2, <2>1, <2>2, <2>3
<1> QED  BY <1>4, SameFiles, BehindNext

LEMMA UpdateSound ==
  ASSUME Typed, IInv, OneAtATime, OneAtATime', NEW r \in Runners, Update(r) \/ UpdateUntraced(r)
  PROVE  IInv'
<1>1. /\ UNCHANGED files /\ run[r] \in Run /\ run[r].pc = "update" /\ Fit(run[r])
      /\ status' = run[r].target
  BY DEF Update, UpdateUntraced, Typed, TypeOK
<1>2. StatusMatchesFiles'
  BY <1>1, UpdateMatches
<1>3. CASE TransitionFails(r) \/ Return(r)
  <2>1. run[r].kind = "stage" => run[r].stage \in Stage
    BY <1>1 DEF Fit
  <2> QED  BY <1>1, <1>2, <1>3, <2>1, StopSound DEF TransitionFails, IInv
<1>4. CASE Become(r, [Idle EXCEPT !.pc = "loop", !.seen = run[r].target])
  <2> DEFINE q == [Idle EXCEPT !.pc = "loop", !.seen = run[r].target]
  <2>1. q \in Run /\ q.pc = "loop" /\ q.seen = run[r].target
    BY <1>1, IdleFits DEF Run, Fit
  <2>2. Fit(q) /\ Become(r, q)
    BY <1>4, <2>1 DEF Fit, Working
  <2> HIDE DEF q
  <2>3. run'[r] = q /\ \A x \in Runners : x # r => Sound(x)'
    BY <2>1, <2>2, Step, Alone
  <2>4. Sound(r)'
    BY <1>1, <2>1, <2>3 DEF Sound, Moves, Working
  <2> QED  BY <1>2, <2>3, <2>4 DEF IInv
<1>5. CASE Become(r, [run[r] EXCEPT !.pc = "reread"])
  <2> DEFINE q == [run[r] EXCEPT !.pc = "reread"]
  <2>1. q \in Run /\ q.pc = "reread"
    BY <1>1 DEF Run
  <2>2. Fit(q) /\ Become(r, q)
    BY <1>5, <2>1 DEF Fit, Working
  <2> HIDE DEF q
  <2>3. run'[r] = q /\ \A x \in Runners : x # r => Sound(x)'
    BY <2>1, <2>2, Step, Alone
  <2>4. Sound(r)'
    BY <2>1, <2>3 DEF Sound, Moves, Working
  <2> QED  BY <1>2, <2>3, <2>4 DEF IInv
<1> QED  BY <1>3, <1>4, <1>5 DEF Update, UpdateUntraced

LEMMA ArchiveSound == ASSUME Typed, IInv, Archive PROVE IInv'
<1>1. status = "completed" /\ status' = "archived" /\ UNCHANGED <<files, run>>
  BY DEF Archive
<1>2. StatusMatchesFiles'
  BY <1>1, SameFiles, Behind, BehindNext DEF IInv, Done
<1>3. ASSUME NEW r \in Runners PROVE Sound(r)'
  <2>1. Sound(r) /\ Fit(run[r]) /\ run[r] \in Run /\ run'[r] = run[r]
    BY <1>1 DEF IInv, Typed, TypeOK
  <2>2. \A s \in Stage : status # Before[s]
    BY <1>1 DEF Before, Stage
  <2>3. run[r].pc \notin Working /\ ~Moves(r, "stage")
    BY <2>1, <2>2 DEF Sound, Fit, Moves
  <2>4. ~Moves(r, "retry")
    BY <1>1, <2>1 DEF Sound, Rollback
  <2>5. run[r].pc # "update"
    <3>1. "archived" \notin Failed
      BY DEF Failed, FailureState, Stage
    <3>2. ValidTransitions[status] = {"archived"}
      BY <1>1 DEF ValidTransitions
    <3> QED  BY <2>1, <2>3, <2>4, <3>1, <3>2 DEF Sound, Moves, Run
  <2> QED  BY <1>1, <2>1, <2>3, <2>4, <2>5 DEF Sound, Moves, Working
<1> QED  BY <1>2, <1>3 DEF IInv

LEMMA InitSound == Init => IInv
<1> SUFFICES ASSUME Init PROVE IInv
  OBVIOUS
<1>1. StatusMatchesFiles
  BY DEF Init, StatusMatchesFiles, Done
<1>2. \A r \in Runners : run[r].pc = "idle"
  BY IdleFits DEF Init
<1> QED  BY <1>1, <1>2, Quiet DEF IInv

LEMMA NextSound ==
  Typed /\ IInv /\ OneAtATime /\ OneAtATime' /\ [Next]_vars => IInv'
<1> SUFFICES ASSUME Typed, IInv, OneAtATime, OneAtATime', [Next]_vars PROVE IInv'
  OBVIOUS
<1>1. ASSUME NEW r \in Runners, Invoke(r) PROVE IInv'
  BY <1>1, InvokeSound
<1>2. ASSUME NEW r \in Runners, RunnerStep(r) PROVE IInv'
  <2>1. CASE Loop(r)
    BY <2>1, LoopSound
  <2>2. CASE Collect(r) \/ Summarize(r) \/ Critique(r) \/ Integrate(r) \/ Render(r)
    BY <2>2, Stages, AgentSound
  <2>3. CASE WriteEvidence(r)
    BY <2>3, WriteEvidenceSound
  <2>4. CASE WriteNotes(r) \/ WriteCritique(r) \/ WriteFinal(r) \/ WriteReport(r)
    BY <2>4, Stages, AnsweredSound
  <2>5. CASE Reread(r)
    BY <2>5, RereadSound
  <2>6. CASE Check(r)
    BY <2>6, CheckSound
  <2>7. CASE Update(r)
    BY <2>7, UpdateSound
  <2> QED  BY <1>2, <2>1, <2>2, <2>3, <2>4, <2>5, <2>6, <2>7 DEF RunnerStep
<1>3. ASSUME NEW r \in Runners, Pause(r) PROVE IInv'
  BY <1>3, LoopSound
<1>4. ASSUME NEW r \in Runners, StageFails(r) \/ Die(r) PROVE IInv'
  BY <1>4, FailsSound
<1>5. ASSUME NEW r \in Runners, UpdateUntraced(r) PROVE IInv'
  BY <1>5, UpdateSound
<1>6. CASE Archive
  BY <1>6, ArchiveSound
<1>7. CASE UNCHANGED vars
  <2>1. UNCHANGED <<status, files, run>>
    BY <1>7 DEF vars, files
  <2>2. \A r \in Runners : Sound(r)'
    BY <2>1, SameFiles DEF IInv, Sound, Moves, files
  <2> QED  BY <2>1, <2>2, SameStatus DEF IInv
<1> QED  BY <1>1, <1>2, <1>3, <1>4, <1>5, <1>6, <1>7 DEF Next

\* While no two invocations overlap, whichever processes make them and however
\* they fail, die and are retried, each stage that the status says is done
\* has its output, made from the present outputs of the stages it reads.
THEOREM StatusTellsWork == Spec /\ []OneAtATime => []StatusMatchesFiles
<1>1. IInv => StatusMatchesFiles
  BY DEF IInv
<1> QED  BY <1>1, InitSound, NextSound, TypedAlways, PTL DEF Spec

\* While no two invocations overlap, every UPDATE of the status is one that
\* VALID_TRANSITIONS has: the SELECT it was checked with is never stale.
THEOREM StatusMovesValidly ==
  Spec /\ []OneAtATime => [][status' # status => status' \in ValidTransitions[status]]_vars
<1>1. Typed /\ IInv /\ [Next]_vars => [status' # status => status' \in ValidTransitions[status]]_vars
  <2> SUFFICES ASSUME Typed, IInv, Next, status' # status
               PROVE  status' \in ValidTransitions[status]
    OBVIOUS
  <2>1. ASSUME NEW r \in Runners, Update(r) \/ UpdateUntraced(r)
        PROVE  status' \in ValidTransitions[status]
    BY <2>1 DEF IInv, Sound, Update, UpdateUntraced
  <2>2. CASE Archive
    BY <2>2, SMTT(30) DEF Archive, ValidTransitions
  <2>3. ASSUME NEW r \in Runners, RunnerStep(r) \/ Invoke(r) \/ Pause(r) \/ StageFails(r) \/ Die(r)
        PROVE  Update(r)
    BY <2>3, Stages DEF RunnerStep, Invoke, Pause, StageFails, Die, Loop, Collect, WriteEvidence,
           Asks, Answered, Reread, Check
  <2> QED  BY <2>1, <2>2, <2>3 DEF Next
<1> QED  BY <1>1, InitSound, NextSound, TypedAlways, PTL DEF Spec
=============================================================================
