----------------------------- MODULE StepContract -----------------------------
(***************************************************************************)
(* What the six workflow steps have in common: the WorkflowStep contract   *)
(* of src/types.ts, as the engine drives it for one run.                   *)
(*                                                                         *)
(* A step answers each event with a transition.  The engine stores it with *)
(* the state of the step; a request it holds is performed and its result   *)
(* stored under the key of the request, and the stored result is handed to *)
(* the step.  Who leases which command, crashes between these statements   *)
(* and the status of the run are RunEngine's matter: here a request whose  *)
(* result got lost, or whose call threw, simply stays pending.             *)
(*                                                                         *)
(* Keys carry the id of their step, so no step reads a result of another:  *)
(* results holds those of the current step only.                           *)
(***************************************************************************)
EXTENDS Integers, Sequences, FiniteSets

VARIABLES
    step,       \* runs.current_step, or "completed"
    tr,         \* the stored transition of the step
    st,         \* the stored state of the step
    results     \* turns and actions: the results stored, by key

contractVars == <<step, tr, st, results>>

Order == <<"clarify", "specify", "provision-environment", "implement", "validate", "publish">>

NextStep == IF step = "publish" THEN "completed"
            ELSE Order[1 + CHOOSE i \in DOMAIN Order : Order[i] = step]

(* run/step/kind/ordinal: kind is the role of an agent or the first word   *)
(* of an action id, id and n are the numbers in it.                        *)
Key(kind, id, n) == [step |-> step, kind |-> kind, id |-> id, n |-> n]

(* The turn of a correction is "<turn>-correction-1", and the key takes    *)
(* the ordinal of a turn from its end: role:correction/1, whichever turn   *)
(* of the role is corrected.  No other turn has an id.                     *)
CorrectionKey(role) == Key(role, 1, 0)

Transition(type, key) == [type |-> type, key |-> key]

NoKey == [step |-> "none", kind |-> "none", id |-> 0, n |-> 0]

NoTransition == Transition("none", NoKey)
AwaitUser == Transition("await-user", NoKey)
Blocked == Transition("blocked", NoKey)
AgentRequest(role, ordinal) == Transition("invoke-agent", Key(role, 0, ordinal))
CorrectionRequest(role) == Transition("invoke-agent", CorrectionKey(role))
RunCommand(kind, id, n) == Transition("run-command", Key(kind, id, n))

NoState == [stage |-> "none"]

(* A result is good or not: an approval, an exit code 0.  "of" is what it  *)
(* is about, where that matters.  An output that is not what the schema of *)
(* the request asks for is stored like any other.                          *)
Results == [valid : BOOLEAN, ok : BOOLEAN, of : Nat]
Result(ok, of) == [valid |-> TRUE, ok |-> ok, of |-> of]
Invalid(of) == [valid |-> FALSE, ok |-> FALSE, of |-> of]

ContractInit(first) ==
    /\ step = first
    /\ tr = NoTransition
    /\ st = NoState
    /\ results = <<>>

ContractTypeOK ==
    /\ step \in {Order[i] : i \in DOMAIN Order} \cup {"completed"}
    /\ tr.type \in {"none", "invoke-agent", "run-command", "await-user", "blocked"}
    /\ \A k \in DOMAIN results : k.step = step /\ results[k] \in Results

-------------------------------------------------------------------------------
Starts(s) == step = s /\ tr.type = "none"

Pending(kind) == tr.type \in {"invoke-agent", "run-command"} /\ tr.key.kind = kind

HasResult == tr.key \in DOMAIN results

(* The step is told: the result of a command, or an output of an agent     *)
(* that validateJsonSchema has nothing against.                            *)
Replied(kind) == Pending(kind) /\ HasResult /\ results[tr.key].valid

Awaits(stage) == tr.type = "await-user" /\ st.stage = stage

(* finishTurn, finishAction. *)
Stores(result) ==
    /\ results' = [k \in DOMAIN results \cup {tr.key} |->
                      IF k = tr.key THEN result ELSE results[k]]
    /\ UNCHANGED <<step, tr, st>>

(* persist *)
Answers(state, transition) ==
    /\ st' = state
    /\ tr' = transition
    /\ UNCHANGED <<step, results>>

(* "blocked" carries no state: the step keeps the one it had.              *)
Blocks == Answers(st, Blocked)

(* complete *)
Completes ==
    /\ step' = NextStep
    /\ tr' = NoTransition
    /\ st' = NoState
    /\ results' = <<>>

(* A turn in the neutral runner: it leaves no trace but its result.        *)
AgentTurn(roles, Subject) ==
    /\ \E role \in roles : Pending(role)
    /\ ~HasResult
    /\ \/ \E of \in Subject : Stores(Result(TRUE, of))
       \/ Stores(Result(FALSE, 0))
       \/ Stores(Invalid(0))

(* An invalid output is corrected once, with the state of the step as it   *)
(* is.  A correction that has a result gets it again without being asked.  *)
ScheduleCorrection ==
    /\ tr.type = "invoke-agent" /\ HasResult /\ ~results[tr.key].valid
    /\ IF tr = CorrectionRequest(tr.key.kind)
       THEN Blocks
       ELSE Answers(st, CorrectionRequest(tr.key.kind))
===============================================================================
