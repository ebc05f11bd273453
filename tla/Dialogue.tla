-------------------------------- MODULE Dialogue --------------------------------
(***************************************************************************)
(* src/workflows/clarify.ts and specify.ts: the two steps that talk to the *)
(* operator.  What is said is left out; the kind of each answer is kept.   *)
(***************************************************************************)
EXTENDS StepContract

CONSTANT MaxRounds      \* bound: question batches, and revisions of the specification

ASSUME RoundsAssumption == MaxRounds \in Nat \ {0}

Talk(stage, ordinal) == [stage |-> stage, ordinal |-> ordinal]

DialogueTypeOK ==
    step \in {"clarify", "specify"} /\ tr.type # "none" /\ st # NoState =>
        /\ st.stage \in {"reflect", "brief-gate", "grill", "questions", "draft", "approval", "revise"}
        /\ st.ordinal \in 0..MaxRounds

(* An idea, or none: "An idea or ticket is required". *)
StartClarify ==
    /\ Starts("clarify")
    /\ Blocks \/ Answers(Talk("reflect", 0), AgentRequest("reflector", 0))

DialogueTurn == AgentTurn({"reflector", "griller", "specifier"}, {0})

(* The answer of the reflector can be coerced, or not. *)
Reflected ==
    /\ Replied("reflector")
    /\ IF results[tr.key].ok THEN Answers(Talk("brief-gate", 1), AwaitUser) ELSE Blocks

ConfirmBrief ==
    /\ step = "clarify" /\ Awaits("brief-gate")
    /\ Blocks \/ Answers([st EXCEPT !.stage = "grill"], AgentRequest("griller", st.ordinal))

(* Resolved, a batch of questions, or something else. *)
Grilled ==
    /\ Replied("griller")
    /\ IF results[tr.key].ok
       THEN Completes
       ELSE Blocks \/ Answers([st EXCEPT !.stage = "questions"], AwaitUser)

NextRound == st.ordinal + 1

AnswerQuestions ==
    /\ step = "clarify" /\ Awaits("questions")
    /\ st.ordinal < MaxRounds
    /\ Answers(Talk("grill", NextRound), AgentRequest("griller", NextRound))

StartSpecify ==
    /\ Starts("specify")
    /\ Answers(Talk("draft", 0), AgentRequest("specifier", 0))

Specified ==
    /\ Replied("specifier")
    /\ IF results[tr.key].ok THEN Answers([st EXCEPT !.stage = "approval"], AwaitUser) ELSE Blocks

(* Approve, request changes, or say nothing. *)
DecideSpecification ==
    /\ step = "specify" /\ Awaits("approval")
    /\ \/ Completes
       \/ Blocks
       \/ /\ st.ordinal < MaxRounds
          /\ Answers(Talk("revise", NextRound), AgentRequest("specifier", NextRound))

DialogueNext ==
    \/ StartClarify \/ DialogueTurn \/ Reflected \/ ConfirmBrief \/ Grilled \/ AnswerQuestions
    \/ StartSpecify \/ Specified \/ DecideSpecification
===============================================================================
