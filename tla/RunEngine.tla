------------------------------- MODULE RunEngine -------------------------------
(***************************************************************************)
(* src/workflow-engine.ts: what the two loops of a coordinator do with the *)
(* commands of one run.                                                    *)
(*                                                                         *)
(* The coordinator is one JavaScript thread.  A loop keeps the thread from *)
(* one await to the next, so the other loop and the HTTP handlers run only *)
(* while it awaits; a crash can fall between any two database statements.  *)
(* Each action below is therefore one database statement (or transaction)  *)
(* with the synchronous code around it, and At says which loop may take it.*)
(*                                                                         *)
(* The workflow steps are numbered 1..LastStep.  A step is abstracted to   *)
(* the number of requests and gates it has issued: it answers an event     *)
(* with any transition, and every request and gate it issues is a new one  *)
(* (agentRequest, actionId and gate ids are built from such counters).     *)
(* The provision-environment step, which issues the same action and gate   *)
(* keys again, is not one of them: see Provision.                          *)
(*                                                                         *)
(* Of Coordinator, the steps that add nothing here are left out: with      *)
(* MayLapse = {} a loop that ends its command always holds its lease (no   *)
(* Renew, no LeaseLost), and a stop is a crash between two commands.       *)
(***************************************************************************)
EXTENDS Integers, Sequences, FiniteSets

CONSTANTS
    TheRun,         \* the run
    LastStep,       \* number of workflow steps
    ContainerSteps, \* steps that need the run container: implement, validate, publish
    MaxOrdinal,     \* bound: requests and gates one step issues
    Operator,       \* kinds of command the operator sends
    Tag,            \* idempotency tags of operator commands
    RoleOf,         \* the agent that the request of an ordinal is made to: its first such ordinal
    Fault,          \* what may go wrong
    Owner, NoOwner

ASSUME EngineAssumption ==
    /\ LastStep \in Nat \ {0}
    /\ MaxOrdinal \in Nat \ {0}
    /\ ContainerSteps \subseteq 1..LastStep
    /\ RoleOf \in [0..MaxOrdinal -> 0..MaxOrdinal]
    /\ Operator \subseteq {"submit-answers", "retry-turn", "cancel-run", "publish-run"}
    /\ Fault \subseteq {"start", "worktree", "agent", "deadline", "schema", "command",
                        "artifact", "destroy", "recovery", "answer"}

VARIABLES
    commands, runLease, proc, loop,     \* see Coordinator
    run,        \* status, revision and current step of the runs row
    rec,        \* step_states: transition, step counter, whether output is set
    gate,       \* gates
    ext,        \* turns and actions: the external calls and their results
    act,        \* where each loop is in engine.process, and its local variables
    api         \* the POST /api/runs handler is between its two statements

Steps == 1..LastStep
Ordinal == 0..MaxOrdinal
Gate == Steps \X Ordinal

EngineKey ==
    [run : {TheRun}, kind : {"start-run"}]
    \cup [run : {TheRun}, kind : {"continue"}, step : Steps, rev : Nat]
    \cup [run : {TheRun}, kind : {"retry-turn", "cancel-run", "publish-run"}, tag : Tag]
    \cup [run : {TheRun}, kind : {"submit-answers"}, gate : Gate, tag : Tag]

INSTANCE Coordinator WITH Run <- {TheRun}, Key <- EngineKey,
                          Overlap <- FALSE, MayLapse <- {}

engineVars == <<run, rec, gate, ext, act, api>>
vars == <<commands, runLease, proc, loop, run, rec, gate, ext, act, api>>

RunStatus == {"absent", "queued", "working", "awaiting_user", "stalled", "blocked",
              "cancelled", "completed"}

Transition ==
    [type : {"none", "invoke-agent", "run-command", "await-user", "complete", "blocked"},
     ord : Ordinal,     \* which request or gate of the step
     corr : BOOLEAN]    \* a correction of that request

Tr(type, ord) == [type |-> type, ord |-> ord, corr |-> FALSE]
NoTr == Tr("none", 0)

CallKey == [kind : {"agent", "correction", "command"}, step : Steps, ord : Ordinal]

(* The stored result of a call.  A row without one (a turn that was started *)
(* or failed) is never read by the engine and is left out.                 *)
Result == [stored : BOOLEAN,
           valid : BOOLEAN]     \* it matches the output schema
NoResult == [stored |-> FALSE, valid |-> FALSE]

(* Points of engine.process.  At the awaiting ones the thread is free:     *)
(* createWorktree, containers.destroy, writeArtifact and, as "call", the   *)
(* awaits of invokeAgent and runCommand.                                   *)
Awaiting == {"worktree", "destroy", "call", "artifact"}
Synchronous == {"dispatch", "answered", "retried", "result", "gate", "queue"}

Activation == [at : Awaiting \cup Synchronous \cup {"none"},
               rev : Nat, step : Steps, tr : Transition]
NoAct == [at |-> "none", rev |-> 0, step |-> 1, tr |-> NoTr]

EngineTypeOK ==
    /\ CoordinatorTypeOK
    /\ run \in [status : RunStatus, rev : Nat, step : Steps]
    /\ rec \in [Steps -> [tr : Transition, ord : Ordinal, output : BOOLEAN]]
    /\ gate \in [Gate -> {"none", "open", "answered"}]
    /\ ext \in [CallKey -> Result]
    /\ act \in [Owner -> [Loop -> Activation]]
    /\ api \in [Owner -> BOOLEAN]

Init ==
    /\ CoordinatorInit
    /\ run = [status |-> "absent", rev |-> 0, step |-> 1]
    /\ rec = [s \in Steps |-> [tr |-> NoTr, ord |-> 0, output |-> FALSE]]
    /\ gate = [g \in Gate |-> "none"]
    /\ ext = [k \in CallKey |-> NoResult]
    /\ act = [o \in Owner |-> [l \in Loop |-> NoAct]]
    /\ api = [o \in Owner |-> FALSE]

-------------------------------------------------------------------------------
(* The thread. *)
HasThread(o, l) == act[o][l].at \in Synchronous \/ loop[o][l].pc \in {"returned", "threw"}

ThreadFree(o) == ~api[o] /\ \A l \in Loop : ~HasThread(o, l)

At(o, l, point) ==
    /\ act[o][l].at = point
    /\ ~api[o] /\ \A m \in Loop \ {l} : ~HasThread(o, m)

Command(o, l) == commands[loop[o][l].job].key

(* Faulty: a blocked run is taken to be over. *)
OverOrBlocked == run.status \in {"cancelled", "completed", "blocked"}

Over == run.status \in {"cancelled", "completed"}

(* The loop goes on inside engine.process ...                              *)
Goes(o, l, activation) ==
    /\ act' = [act EXCEPT ![o][l] = activation]
    /\ UNCHANGED <<commands, runLease, proc, loop, api>>

(* ... or leaves it; finishCommand follows without giving up the thread.   *)
Leaves(o, l, how) ==
    /\ WorkEnds(o, l, how)
    /\ act' = [act EXCEPT ![o][l] = NoAct]
    /\ UNCHANGED api

(* Statements of the store on the runs, step_states and gates rows.        *)

(* Faulty: without revision = revision + 1. *)
SetRunStatusOnly(status) == run' = [run EXCEPT !.status = status]

SetRunStatus(status) == run' = [run EXCEPT !.status = status, !.rev = @ + 1]

(* Faulty: the name of the transition as the status of the run. *)
TypeAsStatus(tr) == IF tr.type \in {"await-user", "blocked"} THEN tr.type ELSE "working"

StatusOf(tr) ==
    CASE tr.type = "await-user" -> "awaiting_user"
      [] tr.type = "blocked" -> "blocked"
      [] OTHER -> "working"

(* "blocked" and "complete" carry no state: the step keeps the one it had. *)
SaveTransition(s, tr) ==
    /\ rec' = [rec EXCEPT ![s].tr = tr,
                          ![s].ord = IF tr.type \in {"complete", "blocked"} THEN @ ELSE tr.ord]
    /\ SetRunStatus(StatusOf(tr))

(* Faulty: the output is not stored with the step. *)
CompleteStepOnly(s) ==
    /\ rec' = [rec EXCEPT ![s].tr = Tr("complete", 0)]
    /\ run' = [run EXCEPT !.step = IF s < LastStep THEN s + 1 ELSE s,
                          !.status = IF s < LastStep THEN "queued" ELSE "completed",
                          !.rev = @ + 1]

CompleteStep(s) ==
    /\ rec' = [rec EXCEPT ![s].tr = Tr("complete", 0), ![s].output = TRUE]
    /\ run' = [run EXCEPT !.step = IF s < LastStep THEN s + 1 ELSE s,
                          !.status = IF s < LastStep THEN "queued" ELSE "completed",
                          !.rev = @ + 1]

(* Faulty: the gate need not be open. *)
CloseAnyGate(g) == gate' = [gate EXCEPT ![g] = "answered"]

CloseGate(g) ==
    /\ gate[g] = "open"
    /\ gate' = [gate EXCEPT ![g] = "answered"]

OpenGate(g) == gate' = [gate EXCEPT ![g] = "open"]

(* Faulty: one wakeup per step. *)
ContinueKeyOfStep(s, rev) == [run |-> TheRun, kind |-> "continue", step |-> s, rev |-> 0]

ContinueKey(s, rev) == [run |-> TheRun, kind |-> "continue", step |-> s, rev |-> rev]

(* Faulty: the ordinal is lost from the key of every turn. *)
CallOfRole(s, tr) ==
    [kind |-> IF tr.type = "run-command" THEN "command"
              ELSE IF tr.corr THEN "correction" ELSE "agent",
     step |-> s,
     ord |-> IF tr.type = "run-command" THEN tr.ord ELSE 1]

(* The action key of a request: that of a correction names its role only,  *)
(* since the turn of every correction ends in "-correction-1".             *)
CallOf(s, tr) ==
    [kind |-> IF tr.type = "run-command" THEN "command"
              ELSE IF tr.corr THEN "correction" ELSE "agent",
     step |-> s,
     ord |-> IF tr.corr THEN RoleOf[tr.ord] ELSE tr.ord]

(* What a workflow step may answer, of the given types.                    *)
Outcomes(s, types) ==
    {Tr(type, rec[s].ord + 1) :
        type \in {x \in types \cap {"invoke-agent", "run-command", "await-user"} :
                      rec[s].ord < MaxOrdinal}}
    \cup {Tr(type, 0) : type \in types \cap {"complete", "blocked"}}

-------------------------------------------------------------------------------
(* The HTTP API. *)

(* POST /api/runs: createRun, then enqueueCommand as a second statement.   *)
CreateRun(o) ==
    /\ proc[o] = "up" /\ ThreadFree(o)
    /\ run.status = "absent"
    /\ run' = [run EXCEPT !.status = "queued"]
    /\ api' = [api EXCEPT ![o] = TRUE]
    /\ UNCHANGED <<commands, runLease, proc, loop, rec, gate, ext, act>>

EnqueueStart(o) ==
    /\ api[o]
    /\ Submit([run |-> TheRun, kind |-> "start-run"])
    /\ api' = [api EXCEPT ![o] = FALSE]
    /\ UNCHANGED <<run, rec, gate, ext, act>>

(* POST /api/runs/:id/commands, whatever the status of the run.  Answers   *)
(* are for a gate the operator has seen.                                   *)
OperatorCommand(o, kind, tag) ==
    /\ proc[o] = "up" /\ ThreadFree(o)
    /\ run.status # "absent"
    /\ IF kind = "submit-answers"
       THEN \E g \in {x \in Gate : gate[x] # "none"} :
                Submit([run |-> TheRun, kind |-> kind, gate |-> g, tag |-> tag])
       ELSE Submit([run |-> TheRun, kind |-> kind, tag |-> tag])
    /\ UNCHANGED engineVars

-------------------------------------------------------------------------------
(* Coordinator life cycle. *)

(* start: every unfinished run in a container step gets its container      *)
(* back, or is set blocked; then the loops start.                          *)
Recovers ==
    \/ UNCHANGED run
    \/ /\ "recovery" \in Fault
       /\ run.status # "absent" /\ ~Over
       /\ run.step \in ContainerSteps
       /\ SetRunStatus("blocked")

EngineStart(o) == Start(o) /\ Recovers /\ UNCHANGED <<rec, gate, ext, act, api>>

EngineCrash(o) ==
    /\ Crash(o)
    /\ act' = [act EXCEPT ![o] = [l \in Loop |-> NoAct]]
    /\ api' = [api EXCEPT ![o] = FALSE]
    /\ UNCHANGED <<run, rec, gate, ext>>

EngineLease(o, l, i) ==
    /\ ThreadFree(o)
    /\ \/ l = "main" /\ LeaseMain(o, i)
       \/ l = "cancel" /\ LeaseCancel(o, i)
    /\ act' = [act EXCEPT ![o][l].at = "dispatch"]
    /\ UNCHANGED <<run, rec, gate, ext, api>>

EngineFinish(o, l) == Finish(o, l) /\ UNCHANGED engineVars

EngineLapse(i) == Lapse(i) /\ UNCHANGED engineVars

-------------------------------------------------------------------------------
(* process: start-run, cancel-run, submit-answers and retry-turn.          *)

Dispatches(o, l, kinds) == At(o, l, "dispatch") /\ ~Over /\ Command(o, l).kind \in kinds

(* startRun up to "await createWorktree": the run is read before it.       *)
BeginStart(o, l) ==
    /\ Dispatches(o, l, {"start-run"})
    /\ Goes(o, l, [at |-> "worktree", rev |-> run.rev, step |-> run.step, tr |-> NoTr])
    /\ UNCHANGED <<run, rec, gate, ext>>

WorktreeReady(o, l) ==
    /\ At(o, l, "worktree")
    /\ SetRunStatus("queued")
    /\ Goes(o, l, [act[o][l] EXCEPT !.at = "queue", !.rev = @ + 1])
    /\ UNCHANGED <<rec, gate, ext>>

BeginCancel(o, l) ==
    /\ Dispatches(o, l, {"cancel-run"})
    /\ Goes(o, l, [NoAct EXCEPT !.at = "destroy"])
    /\ UNCHANGED <<run, rec, gate, ext>>

(* cancelRun after "await destroy". *)
Cancelled(o, l) ==
    /\ At(o, l, "destroy")
    /\ SetRunStatus("cancelled")
    /\ Leaves(o, l, "returned")
    /\ UNCHANGED <<rec, gate, ext>>

(* answerGate, and the step's onUser, which throws when an answer is not    *)
(* what it expects: a number where it trims a text.                        *)
AnswerGate(o, l) ==
    LET g == Command(o, l).gate
    IN  /\ Dispatches(o, l, {"submit-answers"})
        /\ rec[run.step].tr # NoTr
        /\ CloseGate(g)
        /\ \/ \E tr \in Outcomes(run.step, {"invoke-agent", "run-command", "complete", "blocked"}) :
                 Goes(o, l, [at |-> "answered", rev |-> run.rev + 1, step |-> run.step, tr |-> tr])
           \/ "answer" \in Fault /\ Leaves(o, l, "threw")
        /\ UNCHANGED <<run, rec, ext>>

(* persist; queueContinue follows whatever the transition. *)
PersistAnswer(o, l) ==
    /\ At(o, l, "answered")
    /\ SaveTransition(act[o][l].step, act[o][l].tr)
    /\ Goes(o, l, [act[o][l] EXCEPT !.at = "queue"])
    /\ UNCHANGED <<gate, ext>>

BeginRetry(o, l) ==
    /\ Dispatches(o, l, {"retry-turn"})
    /\ SetRunStatus("queued")
    /\ Goes(o, l, [at |-> "retried", rev |-> run.rev, step |-> run.step, tr |-> NoTr])
    /\ UNCHANGED <<rec, gate, ext>>

-------------------------------------------------------------------------------
(* process: the current step of a continue, publish-run or retry-turn      *)
(* command.  The revision was read when the command was dispatched.        *)

Ready(o, l) ==
    \/ Dispatches(o, l, {"continue", "publish-run"})
    \/ At(o, l, "retried")

RevisionRead(o, l) == IF act[o][l].at = "retried" THEN act[o][l].rev ELSE run.rev

(* persist and afterPureTransition: what a transition of step s that was   *)
(* saved under revision rev goes on with, on the same turn of the thread.  *)
Follows(o, l, s, tr, rev) ==
    IF tr.type = "blocked"
    THEN Leaves(o, l, "returned")
    ELSE Goes(o, l, [at |-> CASE tr.type = "await-user" -> "gate"
                              [] tr.type = "complete" -> "artifact"
                              [] OTHER -> "queue",
                     rev |-> rev, step |-> s, tr |-> tr])

StartStep(o, l) ==
    /\ Ready(o, l)
    /\ rec[run.step].tr = NoTr
    /\ \E tr \in Outcomes(run.step, {"invoke-agent", "run-command", "blocked"}) :
          /\ SaveTransition(run.step, tr)
          /\ Follows(o, l, run.step, tr, RevisionRead(o, l) + 1)
    /\ UNCHANGED <<gate, ext>>

(* Faulty: the results of commands are not looked up. *)
HasTurnResult(k) == ext[k].stored /\ k.kind # "command"

HasResult(k) == ext[k].stored

(* executeTransition.  A stored result is used again.                      *)
BeginCall(o, l) ==
    LET s == run.step
        tr == rec[s].tr
    IN  /\ Ready(o, l)
        /\ tr.type \in {"invoke-agent", "run-command"}
        /\ Goes(o, l, [at |-> IF HasResult(CallOf(s, tr)) THEN "result" ELSE "call",
                       rev |-> 0, step |-> s, tr |-> tr])
        /\ UNCHANGED <<run, rec, gate, ext>>

BeginComplete(o, l) ==
    /\ Ready(o, l)
    /\ rec[run.step].tr.type = "complete"
    /\ Goes(o, l, [NoAct EXCEPT !.at = "artifact", !.step = run.step])
    /\ UNCHANGED <<run, rec, gate, ext>>

(* finishTurn, finishAction: the result is stored before it is looked at.  *)
CallReturns(o, l) ==
    LET tr == act[o][l].tr
    IN  /\ At(o, l, "call")
        /\ \E valid \in BOOLEAN :
              /\ ~valid => "schema" \in Fault /\ tr.type = "invoke-agent"
              /\ ext' = [ext EXCEPT ![CallOf(act[o][l].step, tr)] =
                            [stored |-> TRUE, valid |-> valid]]
        /\ Goes(o, l, [act[o][l] EXCEPT !.at = "result"])
        /\ UNCHANGED <<run, rec, gate>>

(* The catch block of executeTransition. *)
CallFails(o, l) ==
    LET Stops(status) == IF run.status = "cancelled" THEN UNCHANGED run ELSE SetRunStatus(status)
    IN  /\ At(o, l, "call")
        /\ IF act[o][l].tr.type = "invoke-agent"
           THEN \/ "deadline" \in Fault /\ Stops("stalled")
                \/ "agent" \in Fault /\ Stops("blocked")
           ELSE "command" \in Fault /\ Stops("blocked")
        /\ Leaves(o, l, "threw")
        /\ UNCHANGED <<rec, gate, ext>>

Invalid(o, l) ==
    /\ act[o][l].tr.type = "invoke-agent"
    /\ ~ext[CallOf(act[o][l].step, act[o][l].tr)].valid

(* scheduleCorrection: one correction, then the step is blocked. *)
ScheduleCorrection(o, l) ==
    LET s == act[o][l].step
        tr == IF act[o][l].tr.corr THEN Tr("blocked", 0) ELSE [act[o][l].tr EXCEPT !.corr = TRUE]
    IN  /\ At(o, l, "result")
        /\ Invalid(o, l)
        /\ SaveTransition(s, tr)
        /\ Follows(o, l, s, tr, run.rev + 1)
        /\ UNCHANGED <<gate, ext>>

(* onAgent or onCommand. *)
ApplyResult(o, l) ==
    LET s == act[o][l].step
    IN  /\ At(o, l, "result")
        /\ ~Invalid(o, l)
        /\ \E tr \in Outcomes(s, {"invoke-agent", "run-command", "await-user", "complete", "blocked"}) :
              SaveTransition(s, tr) /\ Follows(o, l, s, tr, run.rev + 1)
        /\ UNCHANGED <<gate, ext>>

(* persist stores the gate after the transition, as a second statement.    *)
SaveGate(o, l) ==
    /\ At(o, l, "gate")
    /\ OpenGate(<<act[o][l].step, act[o][l].tr.ord>>)
    /\ Leaves(o, l, "returned")
    /\ UNCHANGED <<run, rec, ext>>

(* complete after its artifacts are written. *)
ArtifactWritten(o, l) ==
    LET s == act[o][l].step
    IN  /\ At(o, l, "artifact")
        /\ CompleteStep(s)
        /\ IF s = LastStep
           THEN Leaves(o, l, "returned")
           ELSE Goes(o, l, [at |-> "queue", rev |-> run.rev + 1, step |-> s + 1, tr |-> NoTr])
        /\ UNCHANGED <<gate, ext>>

QueueContinue(o, l) ==
    /\ At(o, l, "queue")
    /\ Enqueue(ContinueKey(act[o][l].step, act[o][l].rev))
    /\ ProcessEnds(o, l, "returned")
    /\ act' = [act EXCEPT ![o][l] = NoAct]
    /\ UNCHANGED <<run, rec, gate, ext, api>>

(* The run is over, or its step waits for the operator.                    *)
NothingToDo(o, l) ==
    /\ \/ At(o, l, "dispatch") /\ Over
       \/ Ready(o, l) /\ rec[run.step].tr.type \in {"await-user", "blocked"}
    /\ Leaves(o, l, "returned")
    /\ UNCHANGED <<run, rec, gate, ext>>

(* "Cannot answer before the step starts" and "Gate is not open"; a step   *)
(* whose start throws; and rejections outside any try block of the engine  *)
(* ("return this.complete(...)" is not awaited in one).                    *)
Throws(o, l) ==
    /\ \/ /\ Dispatches(o, l, {"submit-answers"})
          /\ rec[run.step].tr = NoTr \/ gate[Command(o, l).gate] # "open"
       \/ Ready(o, l) /\ rec[run.step].tr = NoTr /\ "start" \in Fault
       \/ \E point \in Fault \cap {"worktree", "artifact", "destroy"} : At(o, l, point)
    /\ Leaves(o, l, "threw")
    /\ UNCHANGED <<run, rec, gate, ext>>

-------------------------------------------------------------------------------
Process(o, l) ==
    \/ BeginStart(o, l) \/ WorktreeReady(o, l) \/ BeginCancel(o, l) \/ Cancelled(o, l)
    \/ AnswerGate(o, l) \/ PersistAnswer(o, l) \/ BeginRetry(o, l)
    \/ StartStep(o, l) \/ BeginCall(o, l) \/ BeginComplete(o, l)
    \/ CallReturns(o, l) \/ CallFails(o, l) \/ ScheduleCorrection(o, l) \/ ApplyResult(o, l)
    \/ SaveGate(o, l) \/ ArtifactWritten(o, l) \/ QueueContinue(o, l)
    \/ NothingToDo(o, l) \/ Throws(o, l)

EngineLoopStep(o, l) ==
    \/ \E i \in DOMAIN commands : EngineLease(o, l, i)
    \/ Process(o, l)
    \/ EngineFinish(o, l)

Next ==
    \/ \E o \in Owner :
          \/ CreateRun(o) \/ EnqueueStart(o)
          \/ \E kind \in Operator, tag \in Tag : OperatorCommand(o, kind, tag)
          \/ EngineStart(o) \/ EngineCrash(o)
          \/ \E l \in Loop : EngineLoopStep(o, l)
    \/ \E i \in DOMAIN commands : EngineLapse(i)

(* As in Coordinator: what a live process has begun goes on, leases run    *)
(* out, and a coordinator that is gone is started again.  The operator     *)
(* owes nothing.                                                           *)
Fairness ==
    /\ WF_vars((\A p \in Owner : ~Running(p)) /\ \E o \in Owner : EngineStart(o))
    /\ \A o \in Owner :
          /\ WF_vars(EnqueueStart(o))
          /\ \A l \in Loop : WF_vars(EngineLoopStep(o, l))
    /\ WF_vars(\E i \in DOMAIN commands : EngineLapse(i))

Spec == Init /\ [][Next]_vars /\ Fairness
===============================================================================
