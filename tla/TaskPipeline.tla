---------------------------- MODULE TaskPipeline ----------------------------
(***************************************************************************)
(* One research task: the status machine of transitionTask                 *)
(* (kernel/src/tasks.ts), the invocations of executeResearch that drive it *)
(* (compiler/src/agents/orchestrator.ts), the four agents and the render   *)
(* stage, and archiveTask (kernel/src/archive.ts).                         *)
(*                                                                         *)
(* A stage checks the status, reads its input files, waits for the model,  *)
(* writes its output file, and moves the status forward with a SELECT, a   *)
(* check against VALID_TRANSITIONS and an UPDATE.  An invocation can fail  *)
(* or die anywhere and is resumed from the status alone.  A file is the    *)
(* version number of its content, with the versions it was made from and   *)
(* whether its body is blank; a file of evidence is named after its place  *)
(* among the matches and its page, so that another collection may write    *)
(* others beside it.                                                       *)
(***************************************************************************)
EXTENDS Naturals, FiniteSets, Sequences

CONSTANTS
    Pages,        \* wiki pages that may match the brief
    Runners,      \* processes that invoke executeResearch on the task
    Budget,       \* maxTokens of every invocation
    MaxCost,      \* bound: tokens one stage can cost
    MaxFaults,    \* bound: number of failures and of deaths
    TraceFaults,  \* TRUE: writeTrace can fail after the UPDATE of a transition
    None          \* no stage

ASSUME ConstantsAssumption ==
    /\ IsFiniteSet(Pages)
    /\ Budget \in Nat \ {0}
    /\ MaxCost \in Nat
    /\ MaxFaults \in Nat
    /\ TraceFaults \in BOOLEAN
    /\ None \notin STRING

Stage == {"collect", "summarize", "critique", "integrate", "render"}
Status == {"created", "collecting", "synthesizing", "critiquing", "rendering", "completed",
           "archived", "failed_collecting", "failed_synthesizing", "failed_critiquing",
           "failed_rendering"}

ValidTransitions == [
    created             |-> {"collecting", "failed_collecting"},
    collecting          |-> {"synthesizing", "failed_synthesizing"},
    synthesizing        |-> {"critiquing", "failed_critiquing"},
    critiquing          |-> {"rendering", "failed_rendering"},
    rendering           |-> {"completed"},
    completed           |-> {"archived"},
    archived            |-> {},
    failed_collecting   |-> {"created"},
    failed_synthesizing |-> {"collecting"},
    failed_critiquing   |-> {"synthesizing"},
    failed_rendering    |-> {"critiquing"}]

(* The status a stage starts from (its key in NEXT_STAGE), the one it      *)
(* writes, and the one it fails to.                                        *)
Before == [collect |-> "created", summarize |-> "collecting", critique |-> "synthesizing",
           integrate |-> "critiquing", render |-> "rendering"]
After == [collect |-> "collecting", summarize |-> "synthesizing", critique |-> "critiquing",
          integrate |-> "rendering", render |-> "completed"]
FailureState == [collect |-> "failed_collecting", summarize |-> "failed_synthesizing",
                 critique |-> "failed_critiquing", integrate |-> "failed_rendering",
                 render |-> "failed_rendering"]

(* Slip: a failed critique resumes after the critique. *)
RollbackAhead(s, t) ==
    \/ s = "failed_collecting"   /\ t = "created"
    \/ s = "failed_synthesizing" /\ t = "collecting"
    \/ s = "failed_critiquing"   /\ t = "critiquing"
    \/ s = "failed_rendering"    /\ t = "critiquing"

(* FAILURE_ROLLBACK. *)
Rollback(s, t) ==
    \/ s = "failed_collecting"   /\ t = "created"
    \/ s = "failed_synthesizing" /\ t = "collecting"
    \/ s = "failed_critiquing"   /\ t = "synthesizing"
    \/ s = "failed_rendering"    /\ t = "critiquing"

(* The stages whose output a stage reads. *)
Reads == [critique |-> {"summarize"}, integrate |-> {"summarize", "critique"},
          render |-> {"integrate"}]

(* evidence/NN-<slug>.md. *)
Names == (1..Cardinality(Pages)) \X Pages

(* What a search may find: pages, best first. *)
Matches == {m \in UNION {[1..n -> Pages] : n \in 1..Cardinality(Pages)} :
                \A i, j \in DOMAIN m : m[i] = m[j] => i = j}

VARIABLES
    status,    \* tasks.status
    evidence,  \* version of each file of evidence; 0 is no file
    collected, \* history: versions the last collection that got through wrote
    file,      \* the output of each other stage; version 0 is no file
    run,       \* the invocation each process is in
    versions,  \* number of versions so far
    faults     \* number of faults so far

vars == <<status, evidence, collected, file, run, versions, faults>>
files == <<evidence, collected, file, versions>>

Idle == [pc |-> "idle", seen |-> "created", stage |-> None, input |-> {}, cost |-> 0,
         tokens |-> 0, stages |-> 0, kind |-> "none", target |-> "created",
         matches |-> <<>>, at |-> 1]

Init ==
    /\ status = "created"
    /\ evidence = [n \in Names |-> 0] /\ collected = {}
    /\ file = [s \in Stage |-> [version |-> 0, from |-> {}, blank |-> FALSE]]
    /\ run = [r \in Runners |-> Idle]
    /\ versions = 0
    /\ faults = 0

Run == [pc : {"idle", "loop", "agent", "evidence", "asking", "check", "update", "reread"},
        seen : Status,                         \* task.status as last read
        stage : Stage \cup {None},
        input : SUBSET Nat,                    \* versions the stage has read
        cost : Nat, tokens : Nat, stages : Nat,
        kind : {"none", "retry", "stage", "abort"},  \* whose transition this is
        target : Status,
        matches : Matches \cup {<<>>}, at : Nat]

Become(r, q) == run' = [run EXCEPT ![r] = q]

Return(r) == Become(r, Idle)

(* recordAbort, then return err. *)
Abort(r) ==
    Become(r, [run[r] EXCEPT !.pc = "check", !.kind = "abort",
                             !.target = FailureState[run[r].stage]])

-----------------------------------------------------------------------------
(* executeResearch *)

(* A failed task is rolled back first, if the operator said retry. *)
Invoke(r) ==
    /\ run[r].pc = "idle"
    /\ \/ /\ \E s \in Stage : status = Before[s]
          /\ Become(r, [Idle EXCEPT !.pc = "loop", !.seen = status])
       \/ \E t \in Status :
          /\ Rollback(status, t)
          /\ Become(r, [Idle EXCEPT !.pc = "check", !.seen = status, !.kind = "retry",
                                    !.target = t])
    /\ UNCHANGED <<status, files, faults>>

(* The next stage, by the status last read; none: the invocation is over. *)
Loop(r) ==
    /\ run[r].pc = "loop"
    /\ IF \E s \in Stage : run[r].seen = Before[s]
       THEN \E s \in Stage :
              /\ run[r].seen = Before[s]
              /\ Become(r, [run[r] EXCEPT !.pc = "agent", !.stage = s])
       ELSE Return(r)
    /\ UNCHANGED <<status, files, faults>>

(* Step mode: the operator stops before any stage but the first. *)
Pause(r) ==
    /\ run[r].pc = "loop"
    /\ run[r].stages > 0
    /\ Return(r)
    /\ UNCHANGED <<status, files, faults>>

(* Collector: the search, then one file after the other. *)
Collect(r) ==
    /\ run[r].pc = "agent" /\ run[r].stage = "collect"
    /\ IF status = "created"
       THEN \E m \in Matches :
              Become(r, [run[r] EXCEPT !.pc = "evidence", !.matches = m, !.at = 1])
       ELSE Abort(r)
    /\ UNCHANGED <<status, files, faults>>

WriteEvidence(r) ==
    LET found == run[r].matches
        at == run[r].at
    IN  /\ run[r].pc = "evidence"
        /\ versions' = versions + 1
        /\ evidence' = [evidence EXCEPT ![<<at, found[at]>>] = versions + 1]
        /\ IF at < Len(found)
           THEN Become(r, [run[r] EXCEPT !.at = at + 1]) /\ UNCHANGED collected
           ELSE /\ Become(r, [run[r] EXCEPT !.pc = "check", !.kind = "stage",
                                            !.target = "collecting", !.cost = 0])
                /\ collected' = {evidence'[<<i, found[i]>>] : i \in DOMAIN found}
        /\ UNCHANGED <<status, file, faults>>

(* Every file of evidence there is, or the outputs a stage reads. *)
Evidence == {evidence[n] : n \in {m \in Names : evidence[m] # 0}}
Inputs(s) == IF s = "summarize" THEN Evidence ELSE {file[i].version : i \in Reads[s]}

(* The skeptic and the integrator refuse an input with a blank body. *)
Refuses(s) == s \in {"critique", "integrate"} /\ \E i \in Reads[s] : file[i].blank

(* The agent reads the status (the render stage does not) and its inputs. *)
Asks(r, s) ==
    /\ run[r].pc = "agent" /\ run[r].stage = s
    /\ IF /\ s # "render" => status = Before[s]
          /\ Inputs(s) # {} /\ 0 \notin Inputs(s) /\ ~Refuses(s)
       THEN Become(r, [run[r] EXCEPT !.pc = "asking", !.input = Inputs(s)])
       ELSE Abort(r)
    /\ UNCHANGED <<status, files, faults>>

(* Slip: the output stays in its .tmp. *)
SlipReplaced(s, made) == file

(* tmp and rename. *)
Replaced(s, made) == [file EXCEPT ![s] = made]

(* The model has answered, if with nothing; the output file is replaced    *)
(* and traced.                                                             *)
Answered(r, s) ==
    /\ run[r].pc = "asking" /\ run[r].stage = s
    /\ versions' = versions + 1
    /\ \E blank \in BOOLEAN :
          file' = Replaced(s, [version |-> versions + 1, from |-> run[r].input,
                               blank |-> blank])
    /\ \E cost \in 0..MaxCost :
          Become(r, [run[r] EXCEPT !.pc = "check", !.kind = "stage",
                                   !.target = After[s], !.cost = cost])
    /\ UNCHANGED <<status, evidence, collected, faults>>

(* Summarizer: notes/synthesis.md; skeptic: critique/critique.md;          *)
(* integrator: output/final.md; render stage: the report.                  *)
Summarize(r) == Asks(r, "summarize")
WriteNotes(r) == Answered(r, "summarize")
Critique(r) == Asks(r, "critique")
WriteCritique(r) == Answered(r, "critique")
Integrate(r) == Asks(r, "integrate")
WriteFinal(r) == Answered(r, "integrate")
Render(r) == Asks(r, "render")
WriteReport(r) == Answered(r, "render")

(* The stage returns err: no match, unreadable input, no answer, a failed write. *)
StageFails(r) ==
    /\ \/ run[r].pc \in {"agent", "evidence", "asking"}
       \/ run[r].pc = "check" /\ run[r].kind = "stage"
    /\ faults < MaxFaults
    /\ faults' = faults + 1
    /\ Abort(r)
    /\ UNCHANGED <<status, files>>

(* Slip: what is left of the budget is kept instead of what was used. *)
RereadRemaining(r) ==
    /\ run[r].pc = "reread"
    /\ Become(r, [run[r] EXCEPT !.pc = "loop", !.seen = status,
                                !.tokens = @ - run[r].cost, !.stages = @ + 1])
    /\ UNCHANGED <<status, files, faults>>

(* The task is read again, the tokens are counted, the budget is checked. *)
Reread(r) ==
    /\ run[r].pc = "reread"
    /\ IF run[r].tokens + run[r].cost > Budget
       THEN Return(r)
       ELSE Become(r, [run[r] EXCEPT !.pc = "loop", !.seen = status,
                                     !.tokens = @ + run[r].cost, !.stages = @ + 1])
    /\ UNCHANGED <<status, files, faults>>

(* A trace between two stages fails, or the process is killed. *)
Die(r) ==
    /\ run[r].pc # "idle"
    /\ faults < MaxFaults
    /\ faults' = faults + 1
    /\ Return(r)
    /\ UNCHANGED <<status, files>>

-----------------------------------------------------------------------------
(* transitionTask *)

(* What the caller of transitionTask does with an error. *)
TransitionFails(r) ==
    \/ run[r].kind \in {"retry", "abort"} /\ Return(r)
    \/ run[r].kind = "stage" /\ Abort(r)

(* SELECT, and the check against VALID_TRANSITIONS. *)
Check(r) ==
    /\ run[r].pc = "check"
    /\ IF run[r].target \in ValidTransitions[status]
       THEN Become(r, [run[r] EXCEPT !.pc = "update"])
       ELSE TransitionFails(r)
    /\ UNCHANGED <<status, files, faults>>

(* UPDATE tasks SET status = ? WHERE id = ?, and its trace. *)
Update(r) ==
    /\ run[r].pc = "update"
    /\ status' = run[r].target
    /\ \/ /\ run[r].kind = "retry"
          /\ Become(r, [Idle EXCEPT !.pc = "loop", !.seen = run[r].target])
       \/ run[r].kind = "stage" /\ Become(r, [run[r] EXCEPT !.pc = "reread"])
       \/ run[r].kind = "abort" /\ Return(r)
    /\ UNCHANGED <<files, faults>>

(* The UPDATE is done, its trace fails: transitionTask returns err. *)
UpdateUntraced(r) ==
    /\ TraceFaults
    /\ run[r].pc = "update"
    /\ faults < MaxFaults
    /\ faults' = faults + 1
    /\ status' = run[r].target
    /\ TransitionFails(r)
    /\ UNCHANGED files

(* archiveTask: only a completed task. *)
Archive ==
    /\ status = "completed"
    /\ status' = "archived"
    /\ UNCHANGED <<files, run, faults>>

-----------------------------------------------------------------------------
RunnerStep(r) ==
    \/ Loop(r) \/ Collect(r) \/ WriteEvidence(r)
    \/ Summarize(r) \/ WriteNotes(r) \/ Critique(r) \/ WriteCritique(r)
    \/ Integrate(r) \/ WriteFinal(r) \/ Render(r) \/ WriteReport(r)
    \/ Reread(r) \/ Check(r) \/ Update(r)

Next ==
    \/ \E r \in Runners :
         \/ Invoke(r) \/ RunnerStep(r) \/ Pause(r)
         \/ StageFails(r) \/ UpdateUntraced(r) \/ Die(r)
    \/ Archive

Spec == Init /\ [][Next]_vars

(* The model answers or fails, and the operator comes back (with retry)    *)
(* until the task is completed.                                            *)
FairSpec == Spec /\ \A r \in Runners : WF_vars(RunnerStep(r)) /\ WF_vars(Invoke(r))

-----------------------------------------------------------------------------
(* Properties *)

(* The variables keep their types. *)
TypeOK ==
    /\ status \in Status
    /\ evidence \in [Names -> Nat] /\ collected \subseteq Nat
    /\ file \in [Stage -> [version : Nat, from : SUBSET Nat, blank : BOOLEAN]]
    /\ run \in [Runners -> Run]
    /\ versions \in Nat
    /\ faults \in Nat

(* The stages that a task in status s has behind it. *)
Done(s) ==
    IF s \in {"created", "failed_collecting"} THEN {}
    ELSE IF s \in {"collecting", "failed_synthesizing"} THEN {"collect"}
    ELSE IF s \in {"synthesizing", "failed_critiquing"} THEN {"collect", "summarize"}
    ELSE IF s \in {"critiquing", "failed_rendering"} THEN {"collect", "summarize", "critique"}
    ELSE IF s = "rendering" THEN Stage \ {"render"}
    ELSE Stage

(* The status tells which work is on disk: with one invocation at a time,  *)
(* however it failed or died and was retried, every stage that the status  *)
(* says is done has its output, made from the present outputs of the       *)
(* stages it reads; and what the last collection wrote is still there,     *)
(* beside what earlier ones left.                                          *)
StatusMatchesFiles ==
    /\ \A s \in Done(status) \ {"collect"} :
          file[s].version # 0 /\ file[s].from = Inputs(s)
    /\ "collect" \in Done(status) => collected # {} /\ collected \subseteq Evidence

(* A stage that is behind the task left a blank file: no rollback makes it *)
(* again, and the next stage refuses it each time.                         *)
Starved == \E s \in Done(status) \cap {"summarize", "critique"} : file[s].blank

(* However often invocations fail, die, pause or run out of budget, an     *)
(* operator who comes back gets the task completed; only a blank answer of *)
(* the summarizer or the skeptic that was taken for done stops it.         *)
Completes == <>(status \in {"completed", "archived"} \/ Starved)
=============================================================================
