----------------------------- MODULE WorkflowProofs -----------------------------
(***************************************************************************)
(* Proofs about Workflow, for any EnvironmentSpecs, any tasks, attempts,   *)
(* repairs, validation commands, and a worktree of any number of versions. *)
(*                                                                         *)
(* What a step asks for follows from its stage, and what it has asked for  *)
(* is bounded by its counters.  So each step has an invariant of its own,  *)
(* which holds from its first answer to its completion.                    *)
(***************************************************************************)
EXTENDS Workflow, FiniteSetTheorems, TLAPS

Steps == {"clarify", "specify", "provision-environment", "implement", "validate", "publish",
          "completed"}

(* The step has not been started.                                          *)
Idle == tr = NoTransition /\ st = NoState /\ results = <<>>

Keys == DOMAIN results

(* What an agent was asked at first, without the correction. *)
Turns(kind) == {k \in Keys : k.kind = kind /\ k.id = 0}

(* Stored, and good. *)
Succeeded(key) == key \in Keys /\ results[key].ok

(* An invalid output is not good. *)
Storable == {r \in Results : r.ok => r.valid}

(* An agent is asked, or asked to correct its answer. *)
Asks(role, ordinal) == tr = AgentRequest(role, ordinal) \/ tr = CorrectionRequest(role)

Corrects(role) == tr = CorrectionRequest(role)

-------------------------------------------------------------------------------
(* The two steps that talk. *)

TalkState(stages) ==
    /\ st = Talk(st.stage, st.ordinal)
    /\ st.stage \in stages /\ st.ordinal \in 0..MaxRounds

ClarifyAsks ==
    \/ tr = Blocked
    \/ st.stage = "reflect" /\ Asks("reflector", 0)
    \/ st.stage = "brief-gate" /\ tr = AwaitUser
    \/ st.stage = "grill" /\ Asks("griller", st.ordinal)
    \/ st.stage = "questions" /\ tr = AwaitUser

ClarifyInv ==
    \/ tr = Blocked /\ st = NoState /\ results = <<>>
    \/ /\ TalkState({"reflect", "brief-gate", "grill", "questions"})
       /\ ClarifyAsks
       /\ \A k \in Keys : \/ k.kind = "reflector"
                          \/ /\ k.kind = "griller" /\ k.n <= st.ordinal
                             /\ st.stage \in {"grill", "questions"}

SpecifyAsks ==
    \/ tr = Blocked
    \/ st.stage \in {"draft", "revise"} /\ Asks("specifier", st.ordinal)
    \/ st.stage = "approval" /\ tr = AwaitUser

SpecifyInv ==
    /\ TalkState({"draft", "approval", "revise"})
    /\ SpecifyAsks
    /\ \A k \in Keys : k.kind = "specifier" /\ k.n <= st.ordinal

-------------------------------------------------------------------------------
(* Provisioning. *)

ProvisionStates ==
    [stage : {"plan", "build", "setup", "health", "environment-gate"},
     spec : Plan \cup {None}, image : Plan \cup {None}, index : Nat, ordinal : Nat,
     retryStage : {"build", "setup", "health"}]

ProvisionAsks ==
    \/ st.stage \in {"plan", "environment-gate"} /\ tr = Blocked
    \/ st.stage = "plan" /\ Asks("environment-planner", st.ordinal)
    \/ st.stage = "build" /\ tr = RunCommand("build", 0, 0)
    \/ st.stage = "setup" /\ tr = RunCommand("setup", 0, st.index)
    \/ st.stage = "health" /\ tr = RunCommand("health", 0, st.index)
    \/ st.stage = "environment-gate" /\ tr = AwaitUser

(* What the environment gate interrupted, or what is going on.             *)
Phase == IF st.stage = "environment-gate" THEN st.retryStage ELSE st.stage

BuildKey == Key("build", 0, 0)
SetupKey(i) == Key("setup", 0, i)

ProvisionKeys ==
    \A k \in Keys :
        /\ k.kind \in {"environment-planner", "build", "setup", "health"}
        /\ k.kind = "environment-planner" =>
              k.n <= st.ordinal /\ (results[k].ok => results[k].of \in Plan)
        /\ k.kind = "build" => k = BuildKey /\ results[k].ok /\ results[k].of \in Plan
        /\ k.kind \in {"setup", "health"} => BuildKey \in Keys

ProvisionPhase ==
    /\ st.stage # "plan" => st.spec \in Plan
    /\ Phase \in {"setup", "health"} => BuildKey \in Keys /\ st.image \in Plan
    /\ Phase = "setup" => st.index < Setup[st.spec] /\ \A i \in 0..st.index - 1 : Succeeded(SetupKey(i))
    /\ Phase = "health" => /\ st.index < Health[st.spec]
                           /\ \A i \in 0..Setup[st.spec] - 1 : Succeeded(SetupKey(i))

(* Until the spec is revised, all of it is about one spec.                 *)
OneSpec ==
    st.ordinal = 0 =>
        /\ container.by = "build" => container.image = st.spec /\ st.stage # "plan"
        /\ BuildKey \in Keys => st.stage # "plan"
        /\ \A i \in Nat : Succeeded(SetupKey(i)) /\ container.by = "build"
                            => <<st.spec, i>> \in container.ran

ProvisionInv ==
    /\ st \in ProvisionStates
    /\ ProvisionAsks
    /\ ProvisionKeys
    /\ ProvisionPhase
    /\ OneSpec

-------------------------------------------------------------------------------
(* Implementing. *)

ImplementStates ==
    [stage : {"slice", "implement", "verify", "review", "commit"}, tasks : Slices \cup {<<>>},
     index : Nat \ {0}, attempt : 0..AttemptLimit - 1, ordinal : Nat]

ImplementAsks ==
    \/ st.stage # "commit" /\ tr = Blocked
    \/ st.stage = "slice" /\ Asks("task-slicer", 0)
    \/ st.stage = "implement" /\ Asks("implementer", st.ordinal)
    \/ st.stage = "verify" /\ tr = Verification
    \/ st.stage = "review" /\ Asks("task-reviewer", st.ordinal)
    \/ st.stage = "commit" /\ tr = RunCommand("commit", Task, 0)

(* No task before the current one has its id, and with it its keys.        *)
NewTask == \A i \in 1..st.index - 1 : st.tasks[i] # Task

(* Verifications and commits are of the tasks up to the current one, of    *)
(* which only the attempts up to the current one are verified.             *)
ImplementKeys ==
    \A k \in Keys :
        /\ k.kind \in {"task-slicer", "implementer", "task-reviewer", "verify", "commit"}
        /\ k.kind # "task-slicer" => st.stage # "slice"
        /\ k.kind \in {"implementer", "task-reviewer"} => k.n <= st.ordinal
        /\ k.kind \in {"verify", "commit"} => \E i \in 1..st.index : k.id = st.tasks[i]
        /\ NewTask => /\ k.kind = "verify" /\ k.id = Task =>
                             k.n <= st.attempt /\ (st.stage = "implement" => k.n < st.attempt)
                      /\ k.kind = "commit" /\ k.id = Task => st.stage = "commit"

(* The tasks before the current one are committed.                         *)
ImplementDone ==
    st.stage # "slice" => \A i \in 1..st.index - 1 : Key("commit", st.tasks[i], 0) \in Keys

TaskCorrection == CorrectionKey("task-reviewer")

(* The review of the change as it is approves it, or is invalid and to be  *)
(* corrected.                                                              *)
ImplementResults ==
    NewTask =>
        /\ st.stage \in {"verify", "review"} /\ tr # Blocked /\ ~Corrects("task-reviewer") /\ HasResult =>
              results[tr.key].of = tree.version
        /\ st.stage \in {"review", "commit"} => Passed(VerifyKey)
        /\ st.stage = "review" /\ Corrects("task-reviewer") => Garbled(ReviewKey)
        /\ st.stage = "commit" => \/ Passed(ReviewKey)
                                  \/ Garbled(ReviewKey) /\ Good(TaskCorrection)
        /\ st.stage = "commit" /\ HasResult => Clean

(* The one correction by which a change is approved is of the worktree as  *)
(* it is until that is committed, and of an earlier commit from then on.   *)
ApprovedByCorrection ==
    LET approved == results[TaskCorrection].of
    IN  DistinctTasks /\ Good(TaskCorrection) =>
            \/ st.index > 1 /\ approved <= tree.head
            \/ /\ approved = tree.version
               /\ st.stage = "commit" \/ (st.stage = "review" /\ Corrects("task-reviewer"))

(* The turns of an implementer so far, when all tasks before the current   *)
(* one took as many as they could.                                         *)
ImplementTurns ==
    LET before == (st.index - 1) * AttemptLimit + st.attempt
    IN  IF st.stage = "slice" THEN 0
        ELSE IF st.stage = "implement" /\ Key("implementer", 0, st.ordinal) \notin Keys THEN before
        ELSE before + 1

ImplementInv ==
    /\ st \in ImplementStates
    /\ st.stage # "slice" => st.tasks \in Slices /\ st.index \in DOMAIN st.tasks
    /\ st.stage = "slice" => st.tasks = <<>> /\ st.index = 1 /\ st.attempt = 0
    /\ ImplementAsks
    /\ ImplementKeys
    /\ ImplementDone
    /\ ImplementResults
    /\ ApprovedByCorrection
    /\ Cardinality(Turns("implementer")) <= ImplementTurns

-------------------------------------------------------------------------------
(* Validating. *)

ValidateStates ==
    [stage : {"commands", "review", "repair"}, index : 0..CommandCount, repair : 0..RepairLimit,
     ordinal : Nat]

ValidateAsks ==
    \/ tr = Blocked
    \/ st.stage = "commands" /\ st.index < CommandCount /\ tr = ValidationCommand(st)
    \/ st.stage = "review" /\ st.index = CommandCount /\ Asks("final-reviewer", st.ordinal)
    \/ st.stage = "repair" /\ Asks("final-repairer", st.ordinal)

ValidateKeys ==
    \A k \in Keys :
        /\ k.kind \in {"command", "final-reviewer", "final-repairer"}
        /\ k.kind = "command" =>
              /\ k.n <= st.repair
              /\ k.n = st.repair => k.id <= st.index /\ st.stage # "repair"
        /\ k.kind # "command" => k.n <= st.ordinal
        /\ k.kind = "final-reviewer" /\ k.id = 0 /\ st.stage = "commands" => k.n < st.ordinal

CommandKey(i) == Key("command", i, st.repair)

FinalCorrection == CorrectionKey("final-reviewer")

ValidateResults ==
    /\ st.stage # "repair" =>
          /\ tr # Blocked /\ ~Corrects("final-reviewer") /\ HasResult => results[tr.key].of = tree.version
          /\ \A i \in 0..st.index - 1 : Passed(CommandKey(i))
    /\ st.stage = "review" /\ Corrects("final-reviewer") => Garbled(FinalReviewKey)

(* A correction that approves the change is the last thing of the step.    *)
FinallyCorrected ==
    Good(FinalCorrection) => /\ st.stage = "review" /\ Corrects("final-reviewer")
                             /\ results[FinalCorrection].of = tree.version

ValidateTurns ==
    IF st.stage = "repair" /\ Key("final-repairer", 0, st.ordinal) \notin Keys
    THEN st.repair - 1 ELSE st.repair

ValidateInv ==
    /\ st \in ValidateStates
    /\ ValidateAsks
    /\ ValidateKeys
    /\ ValidateResults
    /\ FinallyCorrected
    /\ Cardinality(Turns("final-repairer")) <= ValidateTurns

-------------------------------------------------------------------------------
(* Publishing. *)

PublishInv ==
    /\ st \in [stage : {"draft", "gate", "publish"}, ordinal : {0}]
    /\ \/ st.stage \in {"draft", "gate"} /\ tr = Blocked
       \/ st.stage = "gate" /\ tr = AwaitUser
       \/ st.stage = "draft" /\ Asks("publication-writer", 0)
       \/ st.stage = "publish" /\ tr = RunCommand("git", 0, 0)
    /\ \A k \in Keys : k.kind = "publication-writer" \/ (k.kind = "git" /\ st.stage = "publish")

-------------------------------------------------------------------------------
(* All of them, and what the steps share. *)

StepsInv ==
    \/ Idle
    \/ step = "clarify" /\ ClarifyInv
    \/ step = "specify" /\ SpecifyInv
    \/ step = "provision-environment" /\ ProvisionInv
    \/ step = "implement" /\ ImplementInv
    \/ step = "validate" /\ ValidateInv
    \/ step = "publish" /\ PublishInv

TypedKey(k) == k = Key(k.kind, k.id, k.n) /\ k.id \in Nat /\ k.n \in Nat

ResultsInv ==
    /\ IsFiniteSet(Keys)
    /\ \A k \in Keys : TypedKey(k) /\ results[k] \in Storable

SharedInv ==
    /\ container \in [image : Plan \cup {None}, ran : SUBSET (Plan \X Nat),
                      by : {"build", "recovery", "nobody"}]
    /\ ready \in [spec : Plan \cup {None}, image : Plan \cup {None}, revisions : Nat]
    /\ tree \in [version : Nat, head : Nat] /\ tree.head <= tree.version
    /\ remote \in [branch : Nat, pullRequest : BOOLEAN]

(* What the steps have done so far: before the environment is ready there  *)
(* is none, and a pull request shows the worktree, which stays as it is.   *)
ProgressInv ==
    /\ step \in {"clarify", "specify", "provision-environment"} => ready = NotReady
    /\ step \in {"clarify", "specify"} \/ (step = "provision-environment" /\ Idle) => container = NoContainer
    /\ remote.pullRequest => /\ step \in {"publish", "completed"}
                             /\ Clean /\ remote.branch = tree.head

WorkflowInv ==
    /\ step \in Steps
    /\ StepsInv
    /\ ResultsInv
    /\ SharedInv
    /\ ProgressInv
    /\ SetUpUnlessRevised
    /\ DistinctTasks => ImplementedIsCommitted

-------------------------------------------------------------------------------
(* What the statements of the engine do to the rows. *)

LEMMA NoResults == DOMAIN <<>> = {} /\ IsFiniteSet({}) /\ Cardinality({}) = 0
<1>1. DOMAIN <<>> = {}
    BY SMT
<1> QED
    BY <1>1, FS_EmptySet

LEMMA Stored ==
    ASSUME NEW r, Stores(r)
    PROVE  /\ step' = step /\ tr' = tr /\ st' = st
           /\ Keys' = Keys \cup {tr.key}
           /\ results'[tr.key] = r
           /\ \A k \in Keys : k # tr.key => results'[k] = results[k]
    BY DEF Stores, Keys

LEMMA Outcomes ==
    /\ \A ok \in BOOLEAN, of \in Nat : /\ Result(ok, of) \in Storable
                                       /\ Result(ok, of).ok = ok /\ Result(ok, of).of = of
    /\ \A of \in Nat : /\ Invalid(of) \in Storable
                       /\ Invalid(of).ok = FALSE /\ Invalid(of).of = of
    BY DEF Storable, Results, Result, Invalid

(* A good result is a valid one.                                           *)
LEMMA Passes ==
    ASSUME ResultsInv, NEW key \in Keys, results[key].ok
    PROVE  /\ Good(key)
           /\ results[key].of = tree.version => Passed(key)
    BY DEF ResultsInv, Storable, Good, Current, Passed, Keys

LEMMA StoredResults ==
    ASSUME ResultsInv, NEW r \in Storable, Stores(r),
           TypedKey(tr.key)
    PROVE  ResultsInv'
<1>1. IsFiniteSet(Keys')
    BY Stored, FS_AddElement DEF ResultsInv
<1>2. \A k \in Keys' : TypedKey(k)' /\ results'[k] \in Storable
    BY Stored DEF ResultsInv, TypedKey, Key
<1> QED
    BY <1>1, <1>2 DEF ResultsInv

LEMMA AnsweredResults ==
    ASSUME ResultsInv, results' = results, step' = step
    PROVE  ResultsInv' /\ Keys' = Keys
    BY DEF ResultsInv, Keys, TypedKey, Key

LEMMA CompletedResults ==
    ASSUME Completes
    PROVE  Idle' /\ ResultsInv' /\ step' = NextStep
    BY NoResults DEF Completes, Idle, ResultsInv, Keys

LEMMA NextSteps ==
    /\ step = "clarify" => NextStep = "specify"
    /\ step = "specify" => NextStep = "provision-environment"
    /\ step = "provision-environment" => NextStep = "implement"
    /\ step = "implement" => NextStep = "validate"
    /\ step = "validate" => NextStep = "publish"
    /\ step = "publish" => NextStep = "completed"
<1>1. /\ DOMAIN Order = 1..6
      /\ Order[1] = "clarify" /\ Order[2] = "specify" /\ Order[3] = "provision-environment"
      /\ Order[4] = "implement" /\ Order[5] = "validate" /\ Order[6] = "publish"
    BY DEF Order
<1>2. ASSUME NEW i \in 1..5, Order[i] = step
      PROVE  NextStep = Order[1 + i]
    <2>1. step # "publish"
        BY <1>1, <1>2
    <2>2. \A j \in DOMAIN Order : Order[j] = step <=> j = i
        BY <1>1, <1>2
    <2>3. i = CHOOSE j \in DOMAIN Order : Order[j] = step
        BY <1>1, <2>2
    <2> QED
        BY <2>1, <2>3 DEF NextStep
<1>3. step = "publish" => NextStep = "completed"
    BY DEF NextStep
<1> QED
    BY <1>1, <1>2, <1>3

-------------------------------------------------------------------------------
(* A request tells which step and stage the run is in. *)

LEMMA IdleAsks == Idle => tr.type = "none" /\ \A kind : ~Pending(kind)
    BY DEF Idle, NoTransition, Transition, Pending

LEMMA ClarifyPending ==
    ASSUME ClarifyInv
    PROVE  /\ tr.type # "none" /\ \A kind : Pending(kind) => kind \in {"reflector", "griller"}
           /\ Pending("reflector") => st.stage = "reflect" /\ Asks("reflector", 0)
           /\ Pending("griller") => st.stage = "grill" /\ Asks("griller", st.ordinal)
    BY DEF ClarifyInv, ClarifyAsks, Pending, Blocked, AwaitUser, AgentRequest, Transition, Key, Asks, CorrectionRequest, CorrectionKey

LEMMA SpecifyPending ==
    ASSUME SpecifyInv
    PROVE  /\ tr.type # "none" /\ \A kind : Pending(kind) => kind = "specifier"
           /\ Pending("specifier") => /\ st.stage \in {"draft", "revise"}
                                      /\ Asks("specifier", st.ordinal)
    BY DEF SpecifyInv, SpecifyAsks, Pending, Blocked, AwaitUser, AgentRequest, Transition, Key, Asks, CorrectionRequest, CorrectionKey

LEMMA ProvisionPending ==
    ASSUME ProvisionInv
    PROVE  /\ tr.type # "none"
           /\ \A kind : Pending(kind) => kind \in {"environment-planner", "build", "setup", "health"}
           /\ Pending("environment-planner") => /\ st.stage = "plan"
                                                /\ Asks("environment-planner", st.ordinal)
           /\ Pending("build") => st.stage = "build" /\ tr = RunCommand("build", 0, 0)
           /\ Pending("setup") => st.stage = "setup" /\ tr = RunCommand("setup", 0, st.index)
           /\ Pending("health") => st.stage = "health" /\ tr = RunCommand("health", 0, st.index)
    BY DEF ProvisionInv, ProvisionAsks, Pending, Blocked, AwaitUser, AgentRequest, RunCommand,
           Transition, Key, Asks, CorrectionRequest, CorrectionKey

LEMMA ImplementPending ==
    ASSUME ImplementInv
    PROVE  /\ tr.type # "none"
           /\ \A kind : Pending(kind) => kind \in {"task-slicer", "implementer", "verify",
                                                   "task-reviewer", "commit"}
           /\ Pending("task-slicer") => st.stage = "slice" /\ Asks("task-slicer", 0)
           /\ Pending("implementer") => /\ st.stage = "implement"
                                        /\ Asks("implementer", st.ordinal)
           /\ Pending("verify") => st.stage = "verify" /\ tr = Verification
           /\ Pending("task-reviewer") => /\ st.stage = "review"
                                          /\ Asks("task-reviewer", st.ordinal)
           /\ Pending("commit") => st.stage = "commit" /\ tr = RunCommand("commit", Task, 0)
    BY DEF ImplementInv, ImplementAsks, Pending, Blocked, AwaitUser, AgentRequest, RunCommand,
           Verification, Transition, Key, Asks, CorrectionRequest, CorrectionKey

LEMMA ValidatePending ==
    ASSUME ValidateInv
    PROVE  /\ tr.type # "none"
           /\ \A kind : Pending(kind) => kind \in {"command", "final-reviewer", "final-repairer"}
           /\ Pending("command") => /\ st.stage = "commands" /\ st.index < CommandCount
                                    /\ tr = ValidationCommand(st)
           /\ Pending("final-reviewer") => /\ st.stage = "review" /\ st.index = CommandCount
                                           /\ Asks("final-reviewer", st.ordinal)
           /\ Pending("final-repairer") => /\ st.stage = "repair"
                                           /\ Asks("final-repairer", st.ordinal)
    BY DEF ValidateInv, ValidateAsks, Pending, Blocked, AwaitUser, AgentRequest, RunCommand,
           ValidationCommand, Transition, Key, Asks, CorrectionRequest, CorrectionKey

LEMMA PublishPending ==
    ASSUME PublishInv
    PROVE  /\ tr.type # "none" /\ \A kind : Pending(kind) => kind \in {"publication-writer", "git"}
           /\ Pending("publication-writer") => /\ st.stage = "draft"
                                               /\ Asks("publication-writer", 0)
           /\ Pending("git") => st.stage = "publish" /\ tr = RunCommand("git", 0, 0)
    BY DEF PublishInv, Pending, Blocked, AwaitUser, AgentRequest, RunCommand, Transition, Key, Asks, CorrectionRequest, CorrectionKey

LEMMA Home ==
    ASSUME StepsInv
    PROVE  /\ Pending("reflector") \/ Pending("griller") => step = "clarify" /\ ClarifyInv
           /\ Pending("specifier") => step = "specify" /\ SpecifyInv
           /\ Pending("environment-planner") \/ Pending("build") \/ Pending("setup") \/ Pending("health")
                => step = "provision-environment" /\ ProvisionInv
           /\ Pending("task-slicer") \/ Pending("implementer") \/ Pending("verify")
              \/ Pending("task-reviewer") \/ Pending("commit")
                => step = "implement" /\ ImplementInv
           /\ Pending("command") \/ Pending("final-reviewer") \/ Pending("final-repairer")
                => step = "validate" /\ ValidateInv
           /\ Pending("publication-writer") \/ Pending("git") => step = "publish" /\ PublishInv
<1>1. CASE Idle
    BY <1>1, IdleAsks
<1>2. CASE step = "clarify" /\ ClarifyInv
    BY <1>2, ClarifyPending
<1>3. CASE step = "specify" /\ SpecifyInv
    BY <1>3, SpecifyPending
<1>4. CASE step = "provision-environment" /\ ProvisionInv
    BY <1>4, ProvisionPending
<1>5. CASE step = "implement" /\ ImplementInv
    BY <1>5, ImplementPending
<1>6. CASE step = "validate" /\ ValidateInv
    BY <1>6, ValidatePending
<1>7. CASE step = "publish" /\ PublishInv
    BY <1>7, PublishPending
<1> QED
    BY <1>1, <1>2, <1>3, <1>4, <1>5, <1>6, <1>7 DEF StepsInv

LEMMA StartsIdle ==
    ASSUME StepsInv, NEW s, Starts(s)
    PROVE  step = s /\ Idle
    BY ClarifyPending, SpecifyPending, ProvisionPending, ImplementPending, ValidatePending,
       PublishPending DEF StepsInv, Starts

LEMMA ImplementTyped ==
    ASSUME ImplementInv, st.stage # "slice"
    PROVE  /\ st.tasks \in Slices /\ st.tasks \in Seq(Nat) /\ st.tasks # <<>>
           /\ st.index \in 1..Len(st.tasks) /\ Task \in Nat
           /\ st.attempt \in Nat /\ st.attempt + 1 <= AttemptLimit /\ st.ordinal \in Nat
<1>1. st.tasks \in Slices /\ st.index \in DOMAIN st.tasks /\ st \in ImplementStates
    BY DEF ImplementInv
<1>2. st.tasks \in Seq(Nat) /\ st.tasks # <<>>
    BY <1>1, DeliveryAssumption
<1>3. st.index \in 1..Len(st.tasks) /\ Task \in Nat
    BY <1>1, <1>2 DEF Task
<1>4. st.attempt \in 0..AttemptLimit - 1 /\ st.ordinal \in Nat
    BY <1>1 DEF ImplementStates
<1> QED
    BY <1>1, <1>2, <1>3, <1>4, DeliveryAssumption

(* An agent is asked under an ordinal; a correction has a key of its own.  *)
LEMMA AskedKey ==
    ASSUME NEW role, NEW ordinal \in Nat, Asks(role, ordinal)
    PROVE  /\ tr.type = "invoke-agent" /\ tr.key.kind = role
           /\ tr.key.n \in Nat /\ tr.key.n <= ordinal /\ tr.key.id \in {0, 1}
           /\ tr.key.id = 0 => tr = AgentRequest(role, ordinal) /\ tr.key = Key(role, 0, ordinal)
           /\ tr.key.id # 0 => Corrects(role) /\ tr.key = CorrectionKey(role)
           /\ tr.key \in {Key(role, 0, ordinal), Key(role, 1, 0)}
    BY DEF Asks, Corrects, AgentRequest, CorrectionRequest, CorrectionKey, Transition, Key

LEMMA RequestTyped ==
    ASSUME StepsInv, NEW role, Pending(role)
    PROVE  \E id, n \in Nat : tr.key = Key(role, id, n)
<1>a. ASSUME NEW ordinal \in Nat, Asks(role, ordinal)
      PROVE  \E id, n \in Nat : tr.key = Key(role, id, n)
    BY <1>a, AskedKey
<1> USE DEF RunCommand, Transition
<1>1. CASE Idle
    BY <1>1, IdleAsks
<1>2. CASE step = "clarify" /\ ClarifyInv
    <2>1. CASE role = "reflector"
        BY <1>2, <1>a, <2>1, ClarifyPending
    <2>2. CASE role = "griller"
        <3>1. st.ordinal \in Nat
            BY <1>2, <2>2, ClarifyPending, RoundsAssumption DEF ClarifyInv, TalkState, NoState
        <3> QED
            BY <1>2, <1>a, <2>2, <3>1, ClarifyPending
    <2> QED
        BY <1>2, <2>1, <2>2, ClarifyPending
<1>3. CASE step = "specify" /\ SpecifyInv
    <2>1. st.ordinal \in Nat
        BY <1>3, RoundsAssumption DEF SpecifyInv, TalkState
    <2>2. role = "specifier"
        BY <1>3, SpecifyPending
    <2> QED
        BY <1>3, <1>a, <2>1, <2>2, SpecifyPending
<1>4. CASE step = "provision-environment" /\ ProvisionInv
    <2>1. st.ordinal \in Nat /\ st.index \in Nat
        BY <1>4 DEF ProvisionInv, ProvisionStates
    <2>2. \/ role = "environment-planner" /\ Asks("environment-planner", st.ordinal)
          \/ role = "build" /\ tr.key = Key("build", 0, 0)
          \/ role = "setup" /\ tr.key = Key("setup", 0, st.index)
          \/ role = "health" /\ tr.key = Key("health", 0, st.index)
        BY <1>4, ProvisionPending
    <2> QED
        BY <1>a, <2>1, <2>2
<1>5. CASE step = "implement" /\ ImplementInv
    <2>1. st.stage # "slice" => Task \in Nat /\ st.attempt \in Nat /\ st.ordinal \in Nat
        BY <1>5, ImplementTyped
    <2>2. \/ role = "task-slicer" /\ Asks("task-slicer", 0)
          \/ role = "implementer" /\ Asks("implementer", st.ordinal) /\ st.stage # "slice"
          \/ role = "verify" /\ tr.key = Key("verify", Task, st.attempt) /\ st.stage # "slice"
          \/ role = "task-reviewer" /\ Asks("task-reviewer", st.ordinal) /\ st.stage # "slice"
          \/ role = "commit" /\ tr.key = Key("commit", Task, 0) /\ st.stage # "slice"
        BY <1>5, ImplementPending DEF Verification
    <2> QED
        BY <1>a, <2>1, <2>2
<1>6. CASE step = "validate" /\ ValidateInv
    <2>1. st.ordinal \in Nat /\ st.index \in Nat /\ st.repair \in Nat
        BY <1>6, DeliveryAssumption DEF ValidateInv, ValidateStates
    <2>2. \/ role = "command" /\ tr.key = Key("command", st.index, st.repair)
          \/ role = "final-reviewer" /\ Asks("final-reviewer", st.ordinal)
          \/ role = "final-repairer" /\ Asks("final-repairer", st.ordinal)
        BY <1>6, ValidatePending DEF ValidationCommand
    <2> QED
        BY <1>a, <2>1, <2>2
<1>7. CASE step = "publish" /\ PublishInv
    <2>1. \/ role = "publication-writer" /\ Asks("publication-writer", 0)
          \/ role = "git" /\ tr.key = Key("git", 0, 0)
        BY <1>7, PublishPending
    <2> QED
        BY <1>a, <2>1
<1> QED
    BY <1>1, <1>2, <1>3, <1>4, <1>5, <1>6, <1>7 DEF StepsInv

LEMMA RequestKey ==
    ASSUME StepsInv, NEW role, Pending(role)
    PROVE  TypedKey(tr.key) /\ tr.key.kind = role
<1>1. PICK id \in Nat, n \in Nat : tr.key = Key(role, id, n)
    BY RequestTyped
<1>2. tr.key.kind = role /\ tr.key.id = id /\ tr.key.n = n
    BY <1>1 DEF Key
<1> QED
    BY <1>1, <1>2 DEF TypedKey

-------------------------------------------------------------------------------
(* Clarify and specify. *)

StateInv == step \in Steps /\ StepsInv /\ ResultsInv

LEMMA Answered ==
    ASSUME StateInv, NEW s, NEW t, Answers(s, t)
    PROVE  /\ step' = step /\ step' \in Steps /\ st' = s /\ tr' = t
           /\ ResultsInv' /\ Keys' = Keys /\ results' = results
    BY AnsweredResults DEF StateInv, Answers

LEMMA Started ==
    ASSUME StateInv, NEW s, Starts(s)
    PROVE  step = s /\ Idle /\ Keys = {}
    BY StartsIdle, NoResults DEF StateInv, Idle, Keys

LEMMA CompletedState ==
    ASSUME step \in Steps, step # "completed", Completes
    PROVE  StateInv'
    BY CompletedResults, NextSteps DEF StateInv, StepsInv, Steps

LEMMA ClarifyAnswered ==
    ASSUME StateInv, step = "clarify", NEW s, NEW t, Answers(s, t), ClarifyInv'
    PROVE  StateInv'
    BY Answered DEF StateInv, StepsInv

LEMMA SpecifyAnswered ==
    ASSUME StateInv, step = "specify", NEW s, NEW t, Answers(s, t), SpecifyInv'
    PROVE  StateInv'
    BY Answered DEF StateInv, StepsInv

LEMMA TalkTyped ==
    ASSUME ClarifyInv \/ SpecifyInv, st # NoState
    PROVE  /\ st.ordinal \in 0..MaxRounds /\ st.ordinal \in Nat
           /\ \A stage : [st EXCEPT !.stage = stage] = Talk(stage, st.ordinal)
    BY RoundsAssumption DEF ClarifyInv, SpecifyInv, TalkState, Talk

LEMMA StartClarifyState ==
    ASSUME StateInv, StartClarify
    PROVE  StateInv'
<1>1. step = "clarify" /\ Idle /\ Keys = {}
    BY Started DEF StartClarify
<1>2. CASE Blocks
    <2>1. ClarifyInv'
        BY <1>1, <1>2, Answered DEF Blocks, ClarifyInv, Idle
    <2> QED
        BY <1>1, <1>2, <2>1, ClarifyAnswered DEF Blocks
<1>3. CASE Answers(Talk("reflect", 0), AgentRequest("reflector", 0))
    <2>1. st' = Talk("reflect", 0) /\ tr' = AgentRequest("reflector", 0)' /\ Keys' = {}
        BY <1>1, <1>3, Answered DEF AgentRequest, Key
    <2>2. ClarifyInv'
        BY <2>1, RoundsAssumption DEF ClarifyInv, ClarifyAsks, TalkState, Talk, Asks
    <2> QED
        BY <1>1, <1>3, <2>2, ClarifyAnswered
<1> QED
    BY <1>2, <1>3 DEF StartClarify

LEMMA ReflectedState ==
    ASSUME StateInv, Reflected
    PROVE  StateInv'
<1>1. step = "clarify" /\ ClarifyInv /\ st.stage = "reflect" /\ st # NoState
    BY Home, ClarifyPending DEF StateInv, Reflected, Replied, NoState
<1>2. \A k \in Keys : k.kind = "reflector"
    BY <1>1 DEF ClarifyInv, NoState, Keys
<1>3. CASE Answers(Talk("brief-gate", 1), AwaitUser)
    <2>1. st' = Talk("brief-gate", 1) /\ tr' = AwaitUser /\ Keys' = Keys
        BY <1>3, Answered
    <2>2. ClarifyInv'
        BY <1>2, <2>1, RoundsAssumption DEF ClarifyInv, ClarifyAsks, TalkState, Talk, Asks
    <2> QED
        BY <1>1, <1>3, <2>2, ClarifyAnswered
<1>4. CASE Blocks
    <2>1. ClarifyInv'
        BY <1>1, <1>4, Answered DEF Blocks, ClarifyInv, ClarifyAsks, TalkState, Asks
    <2> QED
        BY <1>1, <1>4, <2>1, ClarifyAnswered DEF Blocks
<1> QED
    BY <1>3, <1>4 DEF Reflected

LEMMA ConfirmBriefState ==
    ASSUME StateInv, ConfirmBrief
    PROVE  StateInv'
<1>1. step = "clarify" /\ tr.type = "await-user" /\ st.stage = "brief-gate" /\ ~Idle
    BY DEF ConfirmBrief, Awaits, Idle, NoTransition, Transition
<1>2. ClarifyInv /\ st # NoState
    BY <1>1 DEF StateInv, StepsInv, NoState
<1>3. \A k \in Keys : k.kind = "reflector"
    BY <1>1, <1>2 DEF ClarifyInv, NoState, Keys
<1>4. CASE Blocks
    <2>1. ClarifyInv'
        BY <1>1, <1>2, <1>4, Answered DEF Blocks, ClarifyInv, ClarifyAsks, TalkState, Asks
    <2> QED
        BY <1>1, <1>4, <2>1, ClarifyAnswered DEF Blocks
<1>5. CASE Answers([st EXCEPT !.stage = "grill"], AgentRequest("griller", st.ordinal))
    <2>1. /\ st' = Talk("grill", st.ordinal) /\ Keys' = Keys
          /\ tr' = AgentRequest("griller", st.ordinal)
        BY <1>2, <1>5, Answered, TalkTyped
    <2>2. st'.stage = "grill" /\ st'.ordinal = st.ordinal /\ step' = step
        BY <1>5, <2>1, Answered DEF Talk
    <2>3. tr' = AgentRequest("griller", st.ordinal)'
        BY <2>1, <2>2 DEF AgentRequest, Key
    <2>4. ClarifyInv'
        BY <1>2, <1>3, <2>1, <2>2, <2>3, TalkTyped DEF ClarifyInv, ClarifyAsks, TalkState, Talk, Asks
    <2> QED
        BY <1>1, <1>5, <2>4, ClarifyAnswered
<1> QED
    BY <1>4, <1>5 DEF ConfirmBrief

LEMMA GrilledState ==
    ASSUME StateInv, Grilled
    PROVE  StateInv'
<1>1. step = "clarify" /\ ClarifyInv /\ st.stage = "grill" /\ st # NoState
    BY Home, ClarifyPending DEF StateInv, Grilled, Replied, NoState
<1>2. CASE Completes
    BY <1>1, <1>2, CompletedState DEF StateInv
<1>3. CASE Blocks
    <2>1. ClarifyInv'
        BY <1>1, <1>3, Answered DEF Blocks, ClarifyInv, ClarifyAsks, TalkState, Asks
    <2> QED
        BY <1>1, <1>3, <2>1, ClarifyAnswered DEF Blocks
<1>4. CASE Answers([st EXCEPT !.stage = "questions"], AwaitUser)
    <2>1. st' = Talk("questions", st.ordinal) /\ tr' = AwaitUser /\ Keys' = Keys
        BY <1>1, <1>4, Answered, TalkTyped
    <2>2. \A k \in Keys : k.kind = "reflector" \/ (k.kind = "griller" /\ k.n <= st.ordinal)
        BY <1>1 DEF ClarifyInv, NoState, Keys
    <2>3. ClarifyInv'
        BY <1>1, <2>1, <2>2, TalkTyped DEF ClarifyInv, ClarifyAsks, TalkState, Talk, Asks
    <2> QED
        BY <1>1, <1>4, <2>3, ClarifyAnswered
<1> QED
    BY <1>2, <1>3, <1>4 DEF Grilled

LEMMA AnswerQuestionsState ==
    ASSUME StateInv, AnswerQuestions
    PROVE  StateInv'
<1>1. /\ step = "clarify" /\ tr.type = "await-user" /\ st.stage = "questions" /\ ~Idle
      /\ st.ordinal < MaxRounds /\ Answers(Talk("grill", NextRound), AgentRequest("griller", NextRound))
    BY DEF AnswerQuestions, Awaits, Idle, NoTransition, Transition
<1>2. ClarifyInv /\ st # NoState
    BY <1>1 DEF StateInv, StepsInv, NoState
<1>3. \A k \in Keys : k.kind = "reflector" \/ (k.kind = "griller" /\ k.n <= st.ordinal)
    BY <1>1, <1>2 DEF ClarifyInv, NoState, Keys
<1>4. NextRound \in 0..MaxRounds /\ NextRound = st.ordinal + 1 /\ st.ordinal \in Nat
    BY <1>1, <1>2, TalkTyped, RoundsAssumption DEF NextRound
<1>5. /\ st' = Talk("grill", NextRound) /\ Keys' = Keys
      /\ tr' = AgentRequest("griller", NextRound) /\ step' = step
    BY <1>1, Answered
<1>6. st'.stage = "grill" /\ st'.ordinal = NextRound
    BY <1>5 DEF Talk
<1>7. tr' = AgentRequest("griller", st.ordinal)'
    BY <1>5, <1>6 DEF AgentRequest, Key
<1>8. \A k \in Keys : k.n \in Nat
    BY DEF StateInv, ResultsInv, TypedKey
<1>9. \A k \in Keys : k.kind = "reflector" \/ (k.kind = "griller" /\ k.n <= NextRound)
    BY <1>3, <1>4, <1>8
<1>10. ClarifyInv'
    BY <1>4, <1>5, <1>6, <1>7, <1>9 DEF ClarifyInv, ClarifyAsks, TalkState, Talk, Asks
<1> QED
    BY <1>1, <1>10, ClarifyAnswered

LEMMA StartSpecifyState ==
    ASSUME StateInv, StartSpecify
    PROVE  StateInv'
<1>1. step = "specify" /\ Idle /\ Keys = {} /\ Answers(Talk("draft", 0), AgentRequest("specifier", 0))
    BY Started DEF StartSpecify
<1>2. st' = Talk("draft", 0) /\ tr' = AgentRequest("specifier", 0)' /\ Keys' = {}
    BY <1>1, Answered DEF AgentRequest, Key
<1>3. SpecifyInv'
    BY <1>2, RoundsAssumption DEF SpecifyInv, SpecifyAsks, TalkState, Talk, Asks
<1> QED
    BY <1>1, <1>3, SpecifyAnswered

LEMMA SpecifyBlocks ==
    ASSUME StateInv, step = "specify", SpecifyInv, Blocks
    PROVE  StateInv'
<1>1. SpecifyInv'
    BY Answered DEF Blocks, SpecifyInv, SpecifyAsks, TalkState, Asks
<1> QED
    BY <1>1, SpecifyAnswered DEF Blocks

LEMMA SpecifiedState ==
    ASSUME StateInv, Specified
    PROVE  StateInv'
<1>1. step = "specify" /\ SpecifyInv /\ st # NoState
    BY Home DEF StateInv, Specified, Replied, NoState, SpecifyInv, TalkState
<1>2. CASE Answers([st EXCEPT !.stage = "approval"], AwaitUser)
    <2>1. st' = Talk("approval", st.ordinal) /\ tr' = AwaitUser /\ Keys' = Keys
        BY <1>1, <1>2, Answered, TalkTyped
    <2>2. SpecifyInv'
        BY <1>1, <2>1, TalkTyped DEF SpecifyInv, SpecifyAsks, TalkState, Talk, Asks
    <2> QED
        BY <1>1, <1>2, <2>2, SpecifyAnswered
<1> QED
    BY <1>1, <1>2, SpecifyBlocks DEF Specified

LEMMA DecideSpecificationState ==
    ASSUME StateInv, DecideSpecification
    PROVE  StateInv'
<1>1. step = "specify" /\ tr.type = "await-user" /\ st.stage = "approval" /\ ~Idle
    BY DEF DecideSpecification, Awaits, Idle, NoTransition, Transition
<1>2. SpecifyInv /\ st # NoState
    BY <1>1 DEF StateInv, StepsInv, NoState, SpecifyInv, TalkState
<1>3. CASE Completes
    BY <1>1, <1>3, CompletedState DEF StateInv
<1>4. CASE /\ st.ordinal < MaxRounds
           /\ Answers(Talk("revise", NextRound), AgentRequest("specifier", NextRound))
    <2>1. NextRound \in 0..MaxRounds /\ NextRound = st.ordinal + 1 /\ st.ordinal \in Nat
        BY <1>2, <1>4, TalkTyped, RoundsAssumption DEF NextRound
    <2>2. /\ st' = Talk("revise", NextRound) /\ Keys' = Keys
          /\ tr' = AgentRequest("specifier", NextRound) /\ step' = step
        BY <1>4, Answered
    <2>3. st'.stage = "revise" /\ st'.ordinal = NextRound
        BY <2>2 DEF Talk
    <2>4. tr' = AgentRequest("specifier", st.ordinal)'
        BY <2>2, <2>3 DEF AgentRequest, Key
    <2>5. \A k \in Keys : k.n \in Nat
        BY DEF StateInv, ResultsInv, TypedKey
    <2>6. \A k \in Keys : k.kind = "specifier" /\ k.n <= NextRound
        BY <1>2, <2>1, <2>5 DEF SpecifyInv
    <2>7. SpecifyInv'
        BY <2>1, <2>2, <2>3, <2>4, <2>6 DEF SpecifyInv, SpecifyAsks, TalkState, Talk, Asks
    <2> QED
        BY <1>1, <1>4, <2>7, SpecifyAnswered
<1> QED
    BY <1>1, <1>2, <1>3, <1>4, SpecifyBlocks DEF DecideSpecification

(* A turn of one of the two steps: its result is stored under the request. *)
LEMMA DialogueTurnState ==
    ASSUME StateInv, DialogueTurn
    PROVE  StateInv'
<1>1. PICK role \in {"reflector", "griller", "specifier"}, r \in Storable :
          Pending(role) /\ Stores(r)
    BY Outcomes DEF DialogueTurn, AgentTurn
<1>2. /\ step' = step /\ tr' = tr /\ st' = st /\ Keys' = Keys \cup {tr.key}
      /\ tr.key.kind = role /\ ResultsInv'
    BY <1>1, RequestKey, Stored, StoredResults DEF StateInv
<1>3. CASE role # "specifier"
    <2>1. step = "clarify" /\ ClarifyInv
        BY <1>1, <1>3, Home DEF StateInv
    <2>2. st # NoState /\ st.stage \in {"reflect", "grill"}
        BY <1>1, <1>3, <2>1, ClarifyPending DEF NoState
    <2>4. st.ordinal \in Nat
        BY <2>1, <2>2, TalkTyped
    <2>3. role = "griller" => st.stage = "grill" /\ tr.key.n <= st.ordinal
        BY <1>1, <2>1, <2>4, ClarifyPending, AskedKey
    <2>5. ClarifyAsks' <=> ClarifyAsks
        BY <1>2 DEF ClarifyAsks, Asks, AgentRequest, CorrectionRequest, CorrectionKey, Key
    <2>6. ClarifyInv'
        BY <1>2, <1>3, <2>1, <2>2, <2>3, <2>4, <2>5 DEF ClarifyInv, TalkState
    <2> QED
        BY <1>2, <2>1, <2>6 DEF StateInv, StepsInv
<1>4. CASE role = "specifier"
    <2>1. step = "specify" /\ SpecifyInv
        BY <1>1, <1>4, Home DEF StateInv
    <2>2. tr.key.n <= st.ordinal /\ st.ordinal \in Nat
        <3>1. st.ordinal \in Nat
            BY <2>1, RoundsAssumption DEF SpecifyInv, TalkState
        <3> QED
            BY <1>1, <1>4, <2>1, <3>1, SpecifyPending, AskedKey
    <2>3. SpecifyAsks' <=> SpecifyAsks
        BY <1>2 DEF SpecifyAsks, Asks, AgentRequest, CorrectionRequest, CorrectionKey, Key
    <2>4. SpecifyInv'
        BY <1>2, <1>4, <2>1, <2>2, <2>3 DEF SpecifyInv, TalkState
    <2> QED
        BY <1>2, <2>1, <2>4 DEF StateInv, StepsInv
<1> QED
    BY <1>3, <1>4

LEMMA DialogueState == ASSUME StateInv, DialogueNext PROVE StateInv'
    BY StartClarifyState, ReflectedState, ConfirmBriefState, GrilledState, AnswerQuestionsState,
       StartSpecifyState, SpecifiedState, DecideSpecificationState, DialogueTurnState
       DEF DialogueNext

-------------------------------------------------------------------------------
(* Provisioning. *)

LEMMA ProvisionAnswered ==
    ASSUME StateInv, step = "provision-environment", NEW s, NEW t, Answers(s, t), ProvisionInv'
    PROVE  StateInv'
    BY Answered DEF StateInv, StepsInv

LEMMA ProvisionStored ==
    ASSUME StateInv, step = "provision-environment", ResultsInv', step' = step, ProvisionInv'
    PROVE  StateInv'
    BY DEF StateInv, StepsInv

(* What is kept under keys does not change with an answer. *)
LEMMA SameResults ==
    ASSUME Keys' = Keys, results' = results, step' = step
    PROVE  /\ BuildKey' = BuildKey
           /\ \A i : SetupKey(i)' = SetupKey(i)
           /\ \A i : Succeeded(SetupKey(i))' <=> Succeeded(SetupKey(i))
    BY DEF BuildKey, SetupKey, Succeeded, Key

LEMMA ProvisionFields ==
    ASSUME st \in ProvisionStates
    PROVE  /\ st.stage \in {"plan", "build", "setup", "health", "environment-gate"}
           /\ st.spec \in Plan \cup {None} /\ st.image \in Plan \cup {None}
           /\ st.index \in Nat /\ st.ordinal \in Nat /\ st.retryStage \in {"build", "setup", "health"}
    BY DEF ProvisionStates

LEMMA Commands ==
    ASSUME NEW spec \in Plan
    PROVE  Setup[spec] \in Nat /\ Health[spec] \in Nat /\ spec \in Nat /\ spec # None
    BY PlanAssumption DEF None

(* The image is built for a spec: the one the run has, or its first one.   *)
LEMMA BuildState ==
    ASSUME StateInv, step = "provision-environment", container' = container,
           NEW spec \in Plan, NEW s \in ProvisionStates, Build(spec, s),
           \A k \in Keys :
               /\ k.kind \in {"environment-planner", "build", "setup", "health"}
               /\ k.kind = "environment-planner" =>
                     k.n <= s.ordinal /\ (results[k].ok => results[k].of \in Plan)
               /\ k.kind = "build" => k = BuildKey /\ results[k].ok /\ results[k].of \in Plan
               /\ k.kind \in {"setup", "health"} => BuildKey \in Keys,
           s.ordinal = 0 /\ container.by = "build" =>
               /\ container.image = spec
               /\ \A i \in Nat : Succeeded(SetupKey(i)) => <<spec, i>> \in container.ran
    PROVE  StateInv'
<1>1. /\ st' = [s EXCEPT !.stage = "build", !.spec = spec] /\ tr' = RunCommand("build", 0, 0)
      /\ step' = step /\ Keys' = Keys /\ results' = results
      /\ Answers([s EXCEPT !.stage = "build", !.spec = spec], RunCommand("build", 0, 0))
    BY Answered DEF Build
<1>2. /\ st' \in ProvisionStates /\ st'.stage = "build" /\ st'.spec = spec
      /\ st'.ordinal = s.ordinal
    BY <1>1 DEF ProvisionStates
<1>3. ProvisionAsks'
    BY <1>1, <1>2 DEF ProvisionAsks, RunCommand, Key, Asks
<1>4. ProvisionKeys'
    BY <1>1, <1>2, SameResults DEF ProvisionKeys
<1>5. ProvisionPhase'
    BY <1>2 DEF ProvisionPhase, Phase
<1>6. OneSpec'
    BY <1>1, <1>2, SameResults DEF OneSpec
<1>7. ProvisionInv'
    BY <1>2, <1>3, <1>4, <1>5, <1>6 DEF ProvisionInv
<1> QED
    BY <1>1, <1>7, ProvisionAnswered

LEMMA StartProvisionState ==
    ASSUME StateInv, ProgressInv, StartProvision
    PROVE  StateInv'
<1>1. step = "provision-environment" /\ Idle /\ Keys = {} /\ container = NoContainer
    BY Started DEF StartProvision, ProgressInv
<1>2. container' = container /\ container.by = "nobody"
    BY <1>1 DEF StartProvision, NoContainer
<1> DEFINE s == ProvisionState("plan")
<1>3. s \in ProvisionStates /\ s.ordinal = 0 /\ s.stage = "plan"
    BY DEF ProvisionState, ProvisionStates
<1>4. ASSUME NEW spec \in Plan, Build(spec, s)
      PROVE  StateInv'
    BY <1>1, <1>2, <1>3, <1>4, BuildState
<1>5. ASSUME Answers(s, AgentRequest("environment-planner", 0))
      PROVE  StateInv'
    <2>1. /\ st' = s /\ tr' = AgentRequest("environment-planner", 0) /\ step' = step
          /\ Keys' = Keys /\ results' = results
        BY <1>5, Answered
    <2>2. st' \in ProvisionStates /\ st'.stage = "plan" /\ st'.ordinal = 0
        BY <1>3, <2>1
    <2>3. ProvisionAsks'
        BY <2>1, <2>2 DEF ProvisionAsks, AgentRequest, Key, Asks
    <2>4. ProvisionKeys' /\ ProvisionPhase'
        BY <1>1, <2>1, <2>2 DEF ProvisionKeys, ProvisionPhase, Phase
    <2>5. OneSpec'
        BY <1>1, <1>2, <2>1 DEF OneSpec
    <2>6. ProvisionInv'
        BY <2>2, <2>3, <2>4, <2>5 DEF ProvisionInv
    <2> QED
        BY <1>1, <1>5, <2>6, ProvisionAnswered
<1> QED
    BY <1>4, <1>5 DEF StartProvision

LEMMA PlannerTurnState ==
    ASSUME StateInv, PlannerTurn
    PROVE  StateInv'
<1>1. PICK r \in Storable : /\ Pending("environment-planner") /\ Stores(r)
                            /\ r.ok => r.of \in Plan
    <2>1. \A of \in Plan : of \in Nat
        BY Commands
    <2> QED
        BY <2>1, Outcomes DEF PlannerTurn, AgentTurn
<1>2. step = "provision-environment" /\ ProvisionInv /\ container' = container
    BY <1>1, Home DEF StateInv, PlannerTurn
<1>3. st.stage = "plan" /\ Asks("environment-planner", st.ordinal) /\ st.ordinal \in Nat
    BY <1>1, <1>2, ProvisionPending, ProvisionFields DEF ProvisionInv
<1>5. /\ step' = step /\ tr' = tr /\ st' = st /\ Keys' = Keys \cup {tr.key}
      /\ tr.key.kind = "environment-planner" /\ ResultsInv'
    BY <1>1, RequestKey, Stored, StoredResults DEF StateInv
<1>6. tr.key.n <= st.ordinal
    BY <1>3, AskedKey
<1>7. results'[tr.key] = r /\ \A k \in Keys : k # tr.key => results'[k] = results[k]
    BY <1>1, Stored
<1>8. BuildKey' = BuildKey /\ tr.key # BuildKey /\ \A i : SetupKey(i)' = SetupKey(i) /\ tr.key # SetupKey(i)
    BY <1>5 DEF BuildKey, SetupKey, Key
<1>9. ProvisionAsks'
    BY <1>2, <1>5 DEF ProvisionInv, ProvisionAsks, AgentRequest, RunCommand, Key, Asks, CorrectionRequest, CorrectionKey
<1>10. ProvisionKeys'
    BY <1>1, <1>2, <1>3, <1>5, <1>6, <1>7, <1>8 DEF ProvisionInv, ProvisionKeys
<1>11. ProvisionPhase'
    BY <1>2, <1>3, <1>5 DEF ProvisionInv, ProvisionPhase, Phase
<1>12. OneSpec'
    BY <1>2, <1>5, <1>7, <1>8 DEF ProvisionInv, OneSpec, Succeeded
<1>13. ProvisionInv'
    BY <1>2, <1>5, <1>9, <1>10, <1>11, <1>12 DEF ProvisionInv
<1> QED
    BY <1>2, <1>5, <1>13, ProvisionStored

(* The step waits for nothing any more, in the stage it was in.            *)
LEMMA ProvisionBlocks ==
    ASSUME StateInv, step = "provision-environment", ProvisionInv, Blocks, container' = container,
           st.stage \in {"plan", "environment-gate"}
    PROVE  StateInv'
<1>1. st' = st /\ tr' = Blocked /\ step' = step /\ Keys' = Keys /\ results' = results
    BY Answered DEF Blocks
<1>2. ProvisionInv'
    BY <1>1, SameResults DEF ProvisionInv, ProvisionAsks, ProvisionKeys, ProvisionPhase, Phase, OneSpec, Asks
<1> QED
    BY <1>2, ProvisionAnswered DEF Blocks

LEMMA PlannedState ==
    ASSUME StateInv, Planned
    PROVE  StateInv'
<1>1. step = "provision-environment" /\ ProvisionInv /\ container' = container
    BY Home DEF StateInv, Planned, Replied
<1>2. st.stage = "plan"
    BY <1>1, ProvisionPending DEF Planned, Replied
<1>3. CASE Blocks
    BY <1>1, <1>2, <1>3, ProvisionBlocks
<1>4. CASE results[tr.key].ok /\ Build(results[tr.key].of, st)
    <2>1. tr.key \in Keys /\ tr.key.kind = "environment-planner"
        BY RequestKey DEF StateInv, Planned, Replied, HasResult, Keys
    <2>2. results[tr.key].of \in Plan /\ st \in ProvisionStates
        BY <1>1, <1>4, <2>1 DEF ProvisionInv, ProvisionKeys
    <2>3. st.ordinal = 0 => container.by # "build"
        BY <1>1, <1>2 DEF ProvisionInv, OneSpec
    <2> QED
        BY <1>1, <1>4, <2>2, <2>3, BuildState DEF ProvisionInv, ProvisionKeys
<1> QED
    BY <1>3, <1>4 DEF Planned

(* The next setup command or health check, or the end of the step.         *)
LEMMA NextCommandState ==
    ASSUME StateInv, step = "provision-environment", ProvisionInv, container' = container,
           NEW s \in ProvisionStates, NextEnvironmentCommand(s),
           s.spec = st.spec, s.spec \in Plan, s.image \in Plan, s.ordinal = st.ordinal,
           st.stage # "plan", BuildKey \in Keys,
           s.stage \in {"setup", "health"},
           s.stage = "setup" => /\ s.index <= Setup[s.spec]
                                /\ \A i \in 0..s.index - 1 : Succeeded(SetupKey(i)),
           s.stage = "health" => \A i \in 0..Setup[s.spec] - 1 : Succeeded(SetupKey(i))
    PROVE  /\ StateInv'
           /\ ready' # ready => SetUpUnlessRevised' /\ ready'.spec \in Plan /\ ready'.image \in Plan
                                /\ ready' = [spec |-> ready'.spec, image |-> ready'.image,
                                             revisions |-> ready'.revisions]
                                /\ ready'.revisions \in Nat
<1> DEFINE now == IF s.stage = "setup" /\ SetupDone(s)
                  THEN [s EXCEPT !.stage = "health", !.index = 0] ELSE s
<1>1. /\ now \in ProvisionStates /\ now.stage \in {"setup", "health"} /\ now.spec = s.spec
      /\ now.image = s.image /\ now.ordinal = s.ordinal
    BY DEF ProvisionStates
<1>2. s.index \in Nat /\ Setup[s.spec] \in Nat /\ Health[s.spec] \in Nat
    BY Commands DEF ProvisionStates
<1>3. now.stage = "setup" => now = s /\ s.index < Setup[s.spec]
    BY <1>2 DEF SetupDone, ProvisionStates
<1>4. now.stage = "health" => \A i \in 0..Setup[s.spec] - 1 : Succeeded(SetupKey(i))
    <2>1. CASE s.stage = "setup" /\ SetupDone(s)
        BY <1>2, <2>1 DEF SetupDone
    <2> QED
        BY <2>1
<1>5. CASE now.stage = "setup" \/ now.index < Health[now.spec]
    <2>1. Answers(now, RunCommand(now.stage, 0, now.index)) /\ ready' = ready
        BY <1>5 DEF NextEnvironmentCommand
    <2>2. /\ st' = now /\ tr' = RunCommand(now.stage, 0, now.index) /\ step' = step
          /\ Keys' = Keys /\ results' = results
        BY <2>1, Answered
    <2> HIDE DEF now
    <2>3. ProvisionAsks'
        BY <1>1, <2>2 DEF ProvisionAsks, RunCommand, Key, Asks
    <2>4. ProvisionKeys'
        BY <1>1, <2>2, SameResults DEF ProvisionInv, ProvisionKeys
    <2>5. ProvisionPhase'
        <3>1. Phase' = now.stage
            BY <1>1, <2>2 DEF Phase
        <3>2. now.stage = "setup" => now.index < Setup[now.spec] /\ \A i \in 0..now.index - 1 : Succeeded(SetupKey(i))
            BY <1>1, <1>3
        <3>3. now.stage = "health" => now.index < Health[now.spec]
            BY <1>1, <1>5
        <3> QED
            BY <1>1, <1>4, <2>2, <3>1, <3>2, <3>3, SameResults DEF ProvisionPhase
    <2>6. OneSpec'
        BY <1>1, <2>2, SameResults DEF ProvisionInv, OneSpec
    <2>7. ProvisionInv'
        BY <1>1, <2>2, <2>3, <2>4, <2>5, <2>6 DEF ProvisionInv
    <2> QED
        BY <2>1, <2>7, ProvisionAnswered
<1>6. CASE ~(now.stage = "setup" \/ now.index < Health[now.spec])
    <2>1. /\ Completes
          /\ ready' = [spec |-> now.spec, image |-> now.image, revisions |-> now.ordinal]
        BY <1>6 DEF NextEnvironmentCommand
    <2> HIDE DEF now
    <2>2. StateInv'
        BY <2>1, CompletedState DEF StateInv
    <2>3. now.stage = "health" /\ now.ordinal \in Nat
        BY <1>1, <1>6 DEF ProvisionStates
    <2>4. st.ordinal = 0 /\ container.by = "build" =>
              /\ container.image = st.spec
              /\ \A i \in Nat : Succeeded(SetupKey(i)) => <<st.spec, i>> \in container.ran
        BY DEF ProvisionInv, OneSpec
    <2>5. SetUpUnlessRevised'
        BY <1>1, <1>2, <1>4, <2>1, <2>3, <2>4 DEF SetUpUnlessRevised
    <2> QED
        BY <1>1, <2>1, <2>2, <2>3, <2>5
<1> QED
    BY <1>5, <1>6

LEMMA BuildEnvironmentState ==
    ASSUME StateInv, BuildEnvironment
    PROVE  StateInv'
<1>1. /\ step = "provision-environment" /\ ProvisionInv
      /\ st.stage = "build" /\ tr = RunCommand("build", 0, 0)
    BY Home, ProvisionPending DEF StateInv, BuildEnvironment
<1>2. tr.key = BuildKey
    BY <1>1 DEF RunCommand, Transition, BuildKey
<1>3. BuildKey \notin Keys
    BY <1>1, <1>2 DEF BuildEnvironment, Usable, HasResult, Keys, ProvisionInv, ProvisionKeys,
        BuildKey, Key
<1>4. \A k \in Keys : k.kind = "environment-planner"
    BY <1>1, <1>3 DEF ProvisionInv, ProvisionKeys
<1>5. \A i : SetupKey(i) \notin Keys /\ SetupKey(i) # BuildKey
    BY <1>4 DEF SetupKey, BuildKey, Key
<1>6. st.spec \in Plan /\ st.spec \in Nat
    BY <1>1, Commands DEF ProvisionInv, ProvisionPhase
<1>7. \/ container'.by = "nobody"
      \/ container'.by = "build" /\ container'.image = st.spec
    BY DEF BuildEnvironment, NoContainer, FreshContainer, Result
<1>8. CASE UNCHANGED contractVars
    <2>1. Keys' = Keys /\ step' = step /\ st' = st /\ tr' = tr /\ results' = results
        BY <1>8 DEF contractVars, Keys
    <2>2. ResultsInv'
        BY <2>1, AnsweredResults DEF StateInv
    <2>3. OneSpec'
        BY <1>1, <1>5, <1>7, <2>1, SameResults DEF OneSpec, Succeeded, ProvisionInv
    <2>4. ProvisionInv'
        BY <1>1, <2>1, <2>3, SameResults DEF ProvisionInv, ProvisionAsks, ProvisionKeys,
            ProvisionPhase, Phase,
           AgentRequest, RunCommand, Key, Asks, CorrectionRequest, CorrectionKey
    <2> QED
        BY <1>1, <2>1, <2>2, <2>4, ProvisionStored
<1>9. CASE Stores(Result(TRUE, st.spec))
    <2>1. Result(TRUE, st.spec) \in Storable /\ Pending("build")
        BY <1>6, Outcomes DEF BuildEnvironment
    <2>2. /\ step' = step /\ tr' = tr /\ st' = st /\ Keys' = Keys \cup {tr.key} /\ ResultsInv'
        BY <1>9, <2>1, RequestKey, Stored, StoredResults DEF StateInv
    <2>3. /\ results'[tr.key].of = st.spec /\ results'[tr.key].ok
          /\ \A k \in Keys : k # tr.key => results'[k] = results[k]
        BY <1>9, Stored DEF Result
    <2>4. BuildKey' = BuildKey /\ \A i : SetupKey(i)' = SetupKey(i)
        BY <2>2 DEF BuildKey, SetupKey, Key
    <2>5. ProvisionAsks'
        BY <1>1, <2>2 DEF ProvisionInv, ProvisionAsks, RunCommand, Key, Asks
    <2>6. ProvisionKeys'
        BY <1>1, <1>2, <1>4, <1>6, <2>2, <2>3, <2>4 DEF ProvisionInv, ProvisionKeys, BuildKey, Key
    <2>7. ProvisionPhase'
        BY <1>1, <1>6, <2>2 DEF ProvisionPhase, Phase
    <2>8. OneSpec'
        BY <1>1, <1>2, <1>5, <1>7, <2>2, <2>4 DEF OneSpec, Succeeded
    <2>9. ProvisionInv'
        BY <1>1, <2>2, <2>5, <2>6, <2>7, <2>8 DEF ProvisionInv
    <2> QED
        BY <1>1, <2>2, <2>9, ProvisionStored
<1> QED
    BY <1>8, <1>9 DEF BuildEnvironment

LEMMA EnvironmentCommandState ==
    ASSUME StateInv, SharedInv, EnvironmentCommand
    PROVE  StateInv'
<1>1. PICK role \in {"setup", "health"} : Pending(role)
    BY DEF EnvironmentCommand
<1>2. PICK ok \in BOOLEAN, stored \in BOOLEAN :
          /\ IF stored THEN Stores(Result(ok, st.spec)) ELSE UNCHANGED contractVars
          /\ container' = IF ok /\ st.stage = "setup"
                          THEN [container EXCEPT !.ran = @ \cup {<<st.spec, st.index>>}]
                          ELSE container
    BY DEF EnvironmentCommand
<1>3. /\ step = "provision-environment" /\ ProvisionInv
      /\ st.stage = role /\ tr.key = Key(role, 0, st.index)
    BY <1>1, Home, ProvisionPending DEF StateInv, RunCommand, Transition
<1>4. st.spec \in Plan /\ st.spec \in Nat /\ BuildKey \in Keys /\ st.index \in Nat
    BY <1>1, <1>3, Commands, ProvisionFields DEF ProvisionInv, ProvisionPhase, Phase
<1>5. /\ container'.by = container.by /\ container'.image = container.image
      /\ container.ran \subseteq container'.ran
      /\ ok /\ st.stage = "setup" => <<st.spec, st.index>> \in container'.ran
    BY <1>2 DEF SharedInv

<1>6. CASE ~stored
    <2>1. Keys' = Keys /\ step' = step /\ st' = st /\ tr' = tr /\ results' = results
        BY <1>2, <1>6 DEF contractVars, Keys
    <2>2. ResultsInv'
        BY <2>1, AnsweredResults DEF StateInv
    <2>3. OneSpec'
        BY <1>3, <1>5, <2>1, SameResults DEF OneSpec, ProvisionInv
    <2>4. ProvisionInv'
        BY <1>3, <2>1, <2>3, SameResults DEF ProvisionInv, ProvisionAsks, ProvisionKeys,
            ProvisionPhase, Phase,
           AgentRequest, RunCommand, Key, Asks, CorrectionRequest, CorrectionKey
    <2> QED
        BY <1>3, <2>1, <2>2, <2>4, ProvisionStored
<1>7. CASE stored
    <2>1. Result(ok, st.spec) \in Storable /\ Stores(Result(ok, st.spec))
        BY <1>2, <1>4, <1>7, Outcomes
    <2>2. /\ step' = step /\ tr' = tr /\ st' = st /\ Keys' = Keys \cup {tr.key} /\ ResultsInv'
        BY <1>1, <2>1, RequestKey, Stored, StoredResults DEF StateInv
    <2>3. /\ results'[tr.key].ok = ok
          /\ \A k \in Keys : k # tr.key => results'[k] = results[k]
        BY <1>4, <2>1, Stored, Outcomes
    <2>4. BuildKey' = BuildKey /\ \A i : SetupKey(i)' = SetupKey(i)
        BY <2>2 DEF BuildKey, SetupKey, Key
    <2>5. BuildKey # tr.key /\ tr.key.kind = role
        BY <1>3 DEF BuildKey, Key
    <2>6. ProvisionAsks'
        BY <1>3, <2>2 DEF ProvisionInv, ProvisionAsks, AgentRequest, RunCommand, Key, Asks, CorrectionRequest, CorrectionKey
    <2>7. ProvisionKeys'
        BY <1>3, <1>4, <2>2, <2>3, <2>4, <2>5 DEF ProvisionInv, ProvisionKeys
    <2>8. \A i \in Nat : SetupKey(i) = tr.key => st.stage = "setup" /\ i = st.index
        BY <1>3 DEF SetupKey, Key
    <2>9. \A i \in Nat : i # st.index => (Succeeded(SetupKey(i))' <=> Succeeded(SetupKey(i)))
        BY <2>2, <2>3, <2>4, <2>8 DEF Succeeded
    <2>10. role = "health" => \A i \in Nat : Succeeded(SetupKey(i))' <=> Succeeded(SetupKey(i))
        BY <1>3, <2>2, <2>3, <2>4, <2>8 DEF Succeeded
    <2>11. \A i \in Nat : role = "setup" /\ i = st.index /\ Succeeded(SetupKey(i))' => ok
        <3>1. \A i \in Nat : role = "setup" /\ i = st.index => SetupKey(i) = tr.key
            BY <1>3 DEF SetupKey
        <3> QED
            BY <2>3, <2>4, <3>1 DEF Succeeded
    <2>12. ProvisionPhase'
        <3>1. Phase' = Phase /\ Phase = role /\ Setup[st.spec] \in Nat
            BY <1>1, <1>3, <1>4, <2>2, Commands DEF Phase
        <3>2. \A i \in 0..st.index - 1 : i \in Nat /\ i # st.index
            BY <1>4
        <3>3. role = "setup" => \A i \in 0..st.index - 1 : Succeeded(SetupKey(i))'
            BY <1>3, <2>9, <3>1, <3>2 DEF ProvisionInv, ProvisionPhase
        <3>4. role = "health" => \A i \in 0..Setup[st.spec] - 1 : Succeeded(SetupKey(i))'
            BY <1>3, <2>10, <3>1 DEF ProvisionInv, ProvisionPhase
        <3> QED
            BY <1>3, <2>2, <2>4, <3>1, <3>3, <3>4 DEF ProvisionInv, ProvisionPhase
    <2>13. OneSpec'
        <3>1. ASSUME NEW i \in Nat, st.ordinal = 0, Succeeded(SetupKey(i))', container.by = "build"
              PROVE  <<st.spec, i>> \in container'.ran
            <4>1. CASE Succeeded(SetupKey(i))
                BY <1>3, <1>5, <3>1, <4>1 DEF ProvisionInv, OneSpec
            <4>2. CASE ~Succeeded(SetupKey(i))
                BY <1>3, <1>5, <2>9, <2>10, <2>11, <3>1, <4>2
            <4> QED
                BY <4>1, <4>2
        <3> QED
            BY <1>1, <1>3, <1>5, <2>2, <2>4, <3>1 DEF ProvisionInv, OneSpec
    <2>14. ProvisionInv'
        BY <1>3, <2>2, <2>6, <2>7, <2>12, <2>13 DEF ProvisionInv
    <2> QED
        BY <1>3, <2>2, <2>14, ProvisionStored
<1> QED
    BY <1>6, <1>7

LEMMA EnvironmentCommandDoneState ==
    ASSUME StateInv, EnvironmentCommandDone
    PROVE  /\ StateInv'
           /\ ready' # ready => SetUpUnlessRevised' /\ ready'.spec \in Plan /\ ready'.image \in Plan
                                /\ ready' = [spec |-> ready'.spec, image |-> ready'.image,
                                             revisions |-> ready'.revisions]
                                /\ ready'.revisions \in Nat
<1>1. PICK role \in {"build", "setup", "health"} : Pending(role)
    BY DEF EnvironmentCommandDone
<1>2. /\ step = "provision-environment" /\ ProvisionInv /\ container' = container
      /\ st.stage = role /\ tr.key = Key(role, 0, IF role = "build" THEN 0 ELSE st.index)
    BY <1>1, Home, ProvisionPending DEF StateInv, RunCommand, Transition, EnvironmentCommandDone
<1>3. /\ tr.key \in Keys /\ tr.key.kind = role /\ tr.key.n = IF role = "build" THEN 0 ELSE st.index
    BY <1>2 DEF EnvironmentCommandDone, HasResult, Keys, Key
<1>4. /\ st \in ProvisionStates /\ st.spec \in Plan /\ BuildKey \in Keys /\ st.index \in Nat
      /\ Setup[st.spec] \in Nat /\ Health[st.spec] \in Nat
    BY <1>1, <1>2, <1>3, Commands, ProvisionFields DEF ProvisionInv, ProvisionPhase, Phase, BuildKey
<1>5. CASE ~results[tr.key].ok
    <2>1. /\ Answers([st EXCEPT !.stage = "environment-gate", !.retryStage = st.stage], AwaitUser)
          /\ ready' = ready
        BY <1>5 DEF EnvironmentCommandDone
    <2>2. /\ st' = [st EXCEPT !.stage = "environment-gate", !.retryStage = st.stage] /\ tr' = AwaitUser
          /\ step' = step /\ Keys' = Keys /\ results' = results
        BY <2>1, Answered
    <2>3. /\ st' \in ProvisionStates /\ st'.stage = "environment-gate" /\ st'.retryStage = st.stage
          /\ st'.spec = st.spec /\ st'.image = st.image /\ st'.index = st.index /\ st'.ordinal = st.ordinal
        BY <1>1, <1>2, <1>4, <2>2 DEF ProvisionStates
    <2>4. Phase' = Phase /\ st.stage # "plan" /\ st.stage # "environment-gate"
        BY <1>1, <1>2, <2>3 DEF Phase
    <2>5. ProvisionAsks'
        BY <2>2, <2>3 DEF ProvisionAsks, Asks
    <2>6. ProvisionKeys' /\ OneSpec'
        BY <1>2, <2>2, <2>3, <2>4, SameResults DEF ProvisionInv, ProvisionKeys, OneSpec
    <2>7. ProvisionPhase'
        BY <1>2, <2>2, <2>3, <2>4, SameResults DEF ProvisionInv, ProvisionPhase
    <2>8. ProvisionInv'
        BY <2>3, <2>5, <2>6, <2>7 DEF ProvisionInv
    <2> QED
        BY <1>2, <2>1, <2>8, ProvisionAnswered
<1>6. CASE results[tr.key].ok /\ role = "build"
    <2> DEFINE s == [st EXCEPT !.stage = "setup", !.index = 0, !.image = results[tr.key].of]
    <2>1. results[tr.key].of \in Plan
        BY <1>2, <1>3, <1>6 DEF ProvisionInv, ProvisionKeys
    <2>2. /\ s \in ProvisionStates /\ s.stage = "setup" /\ s.index = 0 /\ s.image \in Plan
          /\ s.spec = st.spec /\ s.ordinal = st.ordinal
        BY <1>4, <2>1 DEF ProvisionStates
    <2>3. NextEnvironmentCommand(s)
        BY <1>2, <1>6 DEF EnvironmentCommandDone
    <2> HIDE DEF s
    <2>4. \A i \in 0..s.index - 1 : Succeeded(SetupKey(i))
        BY <2>2
    <2> QED
        BY <1>2, <1>4, <1>6, <2>2, <2>3, <2>4, NextCommandState
<1>7. CASE results[tr.key].ok /\ role # "build"
    <2> DEFINE s == [st EXCEPT !.index = @ + 1]
    <2>1. /\ s \in ProvisionStates /\ s.stage = role /\ s.index = st.index + 1 /\ s.image = st.image
          /\ s.spec = st.spec /\ s.ordinal = st.ordinal
        BY <1>2, <1>4 DEF ProvisionStates
    <2>2. NextEnvironmentCommand(s)
        BY <1>2, <1>7 DEF EnvironmentCommandDone
    <2> HIDE DEF s
    <2>3. st.image \in Plan /\ Phase = role
        BY <1>1, <1>2, <1>7 DEF ProvisionInv, ProvisionPhase, Phase
    <2>4. role = "setup" => Succeeded(SetupKey(st.index))
        BY <1>2, <1>3, <1>7 DEF Succeeded, SetupKey
    <2>5. role = "setup" => /\ s.index <= Setup[s.spec]
                            /\ \A i \in 0..s.index - 1 : Succeeded(SetupKey(i))
        <3>1. role = "setup" => st.index < Setup[st.spec] /\ \A i \in 0..st.index - 1 : Succeeded(SetupKey(i))
            BY <1>2, <2>3 DEF ProvisionInv, ProvisionPhase
        <3>2. \A i \in 0..s.index - 1 : i = st.index \/ i \in 0..st.index - 1
            BY <1>4, <2>1
        <3> QED
            BY <1>4, <2>1, <2>4, <3>1, <3>2
    <2>6. role = "health" => \A i \in 0..Setup[s.spec] - 1 : Succeeded(SetupKey(i))
        BY <1>2, <2>1, <2>3 DEF ProvisionInv, ProvisionPhase
    <2> QED
        BY <1>1, <1>2, <1>4, <1>7, <2>1, <2>2, <2>3, <2>5, <2>6, NextCommandState
<1> QED
    BY <1>5, <1>6, <1>7

LEMMA RetryEnvironmentState ==
    ASSUME StateInv, RetryEnvironment
    PROVE  /\ StateInv'
           /\ ready' # ready => SetUpUnlessRevised' /\ ready'.spec \in Plan /\ ready'.image \in Plan
                                /\ ready' = [spec |-> ready'.spec, image |-> ready'.image,
                                             revisions |-> ready'.revisions]
                                /\ ready'.revisions \in Nat
<1>1. /\ tr.type = "await-user" /\ st.stage = "environment-gate" /\ ~Idle /\ container' = container
    BY DEF RetryEnvironment, Awaits, Idle, NoTransition, Transition
<1>2. step = "provision-environment" /\ ProvisionInv
    BY <1>1 DEF StateInv, StepsInv, ClarifyInv, SpecifyInv, TalkState, ImplementInv, ImplementStates,
       ValidateInv, ValidateStates, PublishInv, Blocked, Transition
<1>3. st \in ProvisionStates /\ st.spec \in Plan
    BY <1>1, <1>2 DEF ProvisionInv, ProvisionPhase
<1>4. CASE st.image # None /\ st.retryStage # "build"
    <2> DEFINE s == [st EXCEPT !.stage = st.retryStage]
    <2>1. /\ s \in ProvisionStates /\ s.stage = st.retryStage /\ s.index = st.index
          /\ s.spec = st.spec /\ s.image = st.image /\ s.ordinal = st.ordinal
          /\ s.stage \in {"setup", "health"} /\ s.index \in Nat /\ s.image \in Plan
        BY <1>3, <1>4 DEF ProvisionStates
    <2>2. NextEnvironmentCommand(s)
        BY <1>4 DEF RetryEnvironment
    <2> HIDE DEF s
    <2>3. Phase = s.stage /\ BuildKey \in Keys
        BY <1>1, <1>2, <2>1 DEF ProvisionInv, ProvisionPhase, Phase
    <2>4. s.stage = "setup" => /\ s.index < Setup[s.spec]
                               /\ \A i \in 0..s.index - 1 : Succeeded(SetupKey(i))
        BY <1>2, <2>1, <2>3 DEF ProvisionInv, ProvisionPhase
    <2>5. s.stage = "setup" => s.index <= Setup[s.spec]
        BY <1>3, <2>1, <2>4, Commands
    <2>6. s.stage = "health" => \A i \in 0..Setup[s.spec] - 1 : Succeeded(SetupKey(i))
        BY <1>2, <2>1, <2>3 DEF ProvisionInv, ProvisionPhase
    <2>7. st.stage # "plan" /\ s.spec \in Plan
        BY <1>1, <1>3, <2>1
    <2> QED
        BY <1>1, <1>2, <2>1, <2>2, <2>3, <2>4, <2>5, <2>6, <2>7, NextCommandState
<1>5. CASE ~(st.image # None /\ st.retryStage # "build")
    <2>1. Build(st.spec, st) /\ ready' = ready
        BY <1>5 DEF RetryEnvironment
    <2> QED
        BY <1>1, <1>2, <1>3, <2>1, BuildState DEF ProvisionInv, ProvisionKeys, OneSpec
<1> QED
    BY <1>4, <1>5

LEMMA ReviseEnvironmentState ==
    ASSUME StateInv, ReviseEnvironment
    PROVE  StateInv'
<1>1. /\ tr.type = "await-user" /\ st.stage = "environment-gate" /\ ~Idle /\ container' = container
    BY DEF ReviseEnvironment, Awaits, Idle, NoTransition, Transition
<1>2. step = "provision-environment" /\ ProvisionInv /\ st \in ProvisionStates
    BY <1>1 DEF StateInv, StepsInv, ClarifyInv, SpecifyInv, TalkState, ImplementInv, ImplementStates,
       ValidateInv, ValidateStates, PublishInv, Blocked, Transition, ProvisionInv
<1>3. CASE Blocks
    BY <1>1, <1>2, <1>3, ProvisionBlocks
<1>4. CASE Answers([st EXCEPT !.stage = "plan", !.ordinal = @ + 1],
                   AgentRequest("environment-planner", st.ordinal + 1))
    <2>1. /\ st' = [st EXCEPT !.stage = "plan", !.ordinal = @ + 1]
          /\ tr' = AgentRequest("environment-planner", st.ordinal + 1)
          /\ step' = step /\ Keys' = Keys /\ results' = results
        BY <1>4, Answered
    <2>2. /\ st' \in ProvisionStates /\ st'.stage = "plan" /\ st'.ordinal = st.ordinal + 1
          /\ st.ordinal \in Nat /\ st'.ordinal # 0
        <3>1. st.ordinal \in Nat /\ st.ordinal + 1 \in Nat /\ st.ordinal + 1 # 0
            BY <1>2, ProvisionFields
        <3> QED
            BY <1>2, <2>1, <3>1 DEF ProvisionStates
    <2>3. ProvisionAsks'
        BY <2>1, <2>2 DEF ProvisionAsks, AgentRequest, Key, Asks
    <2>4. \A k \in Keys : k.n \in Nat
        BY DEF StateInv, ResultsInv, TypedKey
    <2>5. \A k \in Keys : k.n <= st.ordinal => k.n <= st'.ordinal
        BY <2>2, <2>4
    <2>6. ProvisionKeys'
        BY <1>2, <2>1, <2>5, SameResults DEF ProvisionInv, ProvisionKeys
    <2>7. ProvisionPhase' /\ OneSpec'
        BY <2>2 DEF ProvisionPhase, Phase, OneSpec
    <2>8. ProvisionInv'
        BY <2>2, <2>3, <2>6, <2>7 DEF ProvisionInv
    <2> QED
        BY <1>2, <1>4, <2>8, ProvisionAnswered
<1> QED
    BY <1>3, <1>4 DEF ReviseEnvironment

-------------------------------------------------------------------------------
(* What leaves the rows alone keeps their invariant, unless it touches the *)
(* worktree or builds a container.                                         *)

LEMMA SameStep ==
    ASSUME UNCHANGED contractVars
    PROVE  /\ Idle' <=> Idle
           /\ ClarifyInv' <=> ClarifyInv
           /\ SpecifyInv' <=> SpecifyInv
           /\ PublishInv' <=> PublishInv
           /\ Keys' = Keys
<1> USE DEF contractVars, Keys
<1>1. Keys' = Keys
    OBVIOUS
<1>2. ClarifyInv' <=> ClarifyInv
    BY DEF ClarifyInv, ClarifyAsks, TalkState, AgentRequest, Key, Asks, CorrectionRequest, CorrectionKey
<1>3. SpecifyInv' <=> SpecifyInv
    BY DEF SpecifyInv, SpecifyAsks, TalkState, AgentRequest, Key, Asks, CorrectionRequest, CorrectionKey
<1>4. PublishInv' <=> PublishInv
    BY DEF PublishInv, AgentRequest, RunCommand, Key, Asks, CorrectionRequest, CorrectionKey
<1>5. Idle' <=> Idle
    BY DEF Idle
<1> QED
    BY <1>1, <1>2, <1>3, <1>4, <1>5

LEMMA SameProvision ==
    ASSUME UNCHANGED contractVars, ProvisionInv, container' = container \/ container'.by # "build"
    PROVE  ProvisionInv'
<1>1. /\ step' = step /\ tr' = tr /\ st' = st /\ results' = results /\ Keys' = Keys
    BY DEF contractVars, Keys
<1>2. OneSpec'
    BY <1>1, SameResults DEF ProvisionInv, OneSpec
<1> QED
    BY <1>1, <1>2, SameResults DEF ProvisionInv, ProvisionAsks, ProvisionKeys, ProvisionPhase, Phase,
       AgentRequest, RunCommand, Key, Asks, CorrectionRequest, CorrectionKey

(* What has been committed stays behind HEAD. *)
HeadGoesOn == \A version \in Nat : version <= tree.head => version <= tree'.head

LEMMA SameDelivery ==
    ASSUME UNCHANGED contractVars, tree'.version = tree.version, Clean => Clean', HeadGoesOn, ResultsInv
    PROVE  /\ ImplementInv => ImplementInv'
           /\ ValidateInv' <=> ValidateInv
<1>1. /\ step' = step /\ tr' = tr /\ st' = st /\ results' = results /\ Keys' = Keys
    BY DEF contractVars, Keys
<1>2. /\ ImplementAsks' <=> ImplementAsks
      /\ ImplementKeys' <=> ImplementKeys
      /\ ImplementDone' <=> ImplementDone
      /\ NewTask' <=> NewTask
      /\ ValidateAsks' <=> ValidateAsks
      /\ ValidateKeys' <=> ValidateKeys
    BY <1>1 DEF ImplementAsks, ImplementKeys, ImplementDone, NewTask, ValidateAsks, ValidateKeys,
       AgentRequest, RunCommand, Verification, ValidationCommand, Task, Key, Asks, CorrectionRequest, CorrectionKey
<1>3. \A key : /\ Passed(key)' <=> Passed(key)
               /\ Good(key)' <=> Good(key)
               /\ Garbled(key)' <=> Garbled(key)
    BY <1>1 DEF Passed, Good, Current, Garbled
<1>4. /\ VerifyKey' = VerifyKey /\ ReviewKey' = ReviewKey /\ FinalReviewKey' = FinalReviewKey
      /\ TaskCorrection' = TaskCorrection /\ FinalCorrection' = FinalCorrection
      /\ \A role : Corrects(role)' <=> Corrects(role)
      /\ \A i : CommandKey(i)' = CommandKey(i)
    BY <1>1 DEF VerifyKey, ReviewKey, FinalReviewKey, CommandKey, TaskCorrection, FinalCorrection,
       Corrects, CorrectionRequest, CorrectionKey, Task, Key
<1>5. /\ ImplementResults => ImplementResults'
      /\ ValidateResults' <=> ValidateResults
      /\ FinallyCorrected' <=> FinallyCorrected
    BY <1>1, <1>2, <1>3, <1>4 DEF ImplementResults, ValidateResults, FinallyCorrected, HasResult
<1>7. ApprovedByCorrection => ApprovedByCorrection'
    <2>1. Good(TaskCorrection) => results[TaskCorrection].of \in Nat
        BY DEF Good, ResultsInv, Keys, Storable, Results
    <2> QED
        BY <1>1, <1>3, <1>4, <2>1 DEF ApprovedByCorrection, HeadGoesOn
<1>6. /\ Turns("implementer")' = Turns("implementer")
      /\ Turns("final-repairer")' = Turns("final-repairer")
      /\ ImplementTurns' = ImplementTurns
      /\ ValidateTurns' = ValidateTurns
    BY <1>1 DEF Turns, ImplementTurns, ValidateTurns, Key
<1> QED
    BY <1>1, <1>2, <1>5, <1>6, <1>7 DEF ImplementInv, ValidateInv

LEMMA SameState ==
    ASSUME StateInv, UNCHANGED contractVars, tree'.version = tree.version, Clean => Clean', HeadGoesOn,
           container' = container \/ container'.by # "build"
    PROVE  StateInv'
<1>1. step' = step /\ results' = results
    BY DEF contractVars
<1>2. ResultsInv'
    BY <1>1, AnsweredResults DEF StateInv
<1>3. StepsInv'
    BY <1>1, SameStep, SameProvision, SameDelivery DEF StateInv, StepsInv
<1> QED
    BY <1>1, <1>2, <1>3 DEF StateInv

LEMMA ContainerLostState == ASSUME StateInv, ContainerLost, tree' = tree PROVE StateInv'
    BY SameState DEF ContainerLost, NoContainer, Clean, HeadGoesOn

LEMMA EnsureContainerState == ASSUME StateInv, EnsureContainer, tree' = tree PROVE StateInv'
    BY SameState DEF EnsureContainer, FreshContainer, Clean, HeadGoesOn

LEMMA ProvisionStep ==
    ASSUME StateInv, SharedInv, ProgressInv, ProvisionNext, tree' = tree
    PROVE  StateInv'
    BY StartProvisionState, PlannerTurnState, PlannedState, BuildEnvironmentState,
       EnvironmentCommandState, EnvironmentCommandDoneState, RetryEnvironmentState,
       ReviseEnvironmentState, ContainerLostState, EnsureContainerState DEF ProvisionNext

-------------------------------------------------------------------------------
(* Counting. *)

LEMMA TurnsCounted ==
    ASSUME ResultsInv, NEW role
    PROVE  IsFiniteSet(Turns(role)) /\ Cardinality(Turns(role)) \in Nat
    BY FS_Subset, FS_CardinalityType DEF Turns, ResultsInv

LEMMA NoTurns ==
    ASSUME NEW role, \A k \in Keys : k.kind # role
    PROVE  Cardinality(Turns(role)) = 0
<1>1. Turns(role) = {}
    BY DEF Turns
<1> QED
    BY <1>1, FS_EmptySet

LEMMA TurnsKept ==
    ASSUME Keys' = Keys, NEW role
    PROVE  Turns(role)' = Turns(role) /\ Cardinality(Turns(role))' = Cardinality(Turns(role))
    BY DEF Turns

LEMMA TurnsGrow ==
    ASSUME ResultsInv, NEW key, Keys' = Keys \cup {key}, NEW role
    PROVE  /\ key.kind # role \/ key.id # 0 => Cardinality(Turns(role))' = Cardinality(Turns(role))
           /\ Cardinality(Turns(role))' <= Cardinality(Turns(role)) + 1
<1>1. key.kind # role \/ key.id # 0 => Turns(role)' = Turns(role)
    BY DEF Turns
<1>2. key.kind = role /\ key.id = 0 => Turns(role)' = Turns(role) \cup {key}
    BY DEF Turns
<1>3. /\ IsFiniteSet(Turns(role)) /\ Cardinality(Turns(role)) \in Nat
      /\ Cardinality(Turns(role) \cup {key}) \in {Cardinality(Turns(role)), Cardinality(Turns(role)) + 1}
    BY TurnsCounted, FS_AddElement
<1>4. Cardinality(Turns(role))' = Cardinality(Turns(role)')
    OBVIOUS
<1> QED
    BY <1>1, <1>2, <1>3, <1>4

-------------------------------------------------------------------------------
(* Implementing. *)

LEMMA ImplementAnswered ==
    ASSUME StateInv, step = "implement", NEW s, NEW t, Answers(s, t), ImplementInv'
    PROVE  StateInv'
    BY Answered DEF StateInv, StepsInv

LEMMA SliceTyped ==
    ASSUME NEW tasks \in Slices
    PROVE  /\ tasks \in Seq(Nat) /\ Len(tasks) \in Nat \ {0} /\ DOMAIN tasks = 1..Len(tasks)
<1>1. tasks \in Seq(Nat) /\ tasks # <<>>
    BY DeliveryAssumption
<1> QED
    BY <1>1

LEMMA TaskIsNew ==
    ASSUME DistinctTasks, ImplementInv, st.stage # "slice"
    PROVE  NewTask
<1>1. st.tasks \in Slices /\ st.index \in DOMAIN st.tasks
    BY DEF ImplementInv
<1>2. DOMAIN st.tasks = 1..Len(st.tasks) /\ Len(st.tasks) \in Nat
    BY <1>1, SliceTyped
<1>3. \A i \in 1..st.index - 1 : i \in DOMAIN st.tasks /\ i # st.index
    BY <1>1, <1>2
<1> QED
    BY <1>1, <1>3 DEF DistinctTasks, NewTask, Task

(* The implementer is asked under a number that is new; if the task is new,*)
(* for an attempt not yet verified and a task not yet committed.           *)
LEMMA InvokedState ==
    ASSUME StateInv, step = "implement", NEW s \in ImplementStates, InvokeImplementer(s),
           s.tasks \in Slices, s.index \in DOMAIN s.tasks,
           \A k \in Keys :
               /\ k.kind \in {"task-slicer", "implementer", "task-reviewer", "verify", "commit"}
               /\ k.kind \in {"implementer", "task-reviewer"} => k.n < s.ordinal
               /\ k.kind \in {"verify", "commit"} => \E i \in 1..s.index : k.id = s.tasks[i],
           (\A i \in 1..s.index - 1 : s.tasks[i] # s.tasks[s.index]) =>
               \A k \in Keys : /\ k.kind = "verify" /\ k.id = s.tasks[s.index] => k.n < s.attempt
                               /\ k.kind = "commit" => k.id # s.tasks[s.index],
           \A i \in 1..s.index - 1 : Key("commit", s.tasks[i], 0) \in Keys,
           DistinctTasks /\ Good(TaskCorrection) =>
               s.index > 1 /\ results[TaskCorrection].of <= tree.head,
           tree' = tree,
           Cardinality(Turns("implementer")) <= (s.index - 1) * AttemptLimit + s.attempt
    PROVE  /\ StateInv'
           /\ tr'.type = "invoke-agent" /\ tr'.key.kind = "implementer" /\ tr'.key \notin Keys
<1>1. /\ st' = [s EXCEPT !.stage = "implement"] /\ tr' = AgentRequest("implementer", s.ordinal)
      /\ step' = step /\ Keys' = Keys /\ results' = results
      /\ Answers([s EXCEPT !.stage = "implement"], AgentRequest("implementer", s.ordinal))
    BY Answered DEF InvokeImplementer
<1>2. /\ st' \in ImplementStates /\ st'.stage = "implement" /\ st'.tasks = s.tasks /\ st'.index = s.index
      /\ st'.attempt = s.attempt /\ st'.ordinal = s.ordinal
    BY <1>1 DEF ImplementStates
<1>3. s.ordinal \in Nat /\ s.attempt \in 0..AttemptLimit - 1
    BY DEF ImplementStates
<1>4. \A k \in Keys : k.n \in Nat
    BY DEF StateInv, ResultsInv, TypedKey
<1>5. /\ tr'.type = "invoke-agent" /\ tr'.key.kind = "implementer" /\ tr'.key.n = s.ordinal
    BY <1>1 DEF AgentRequest, Transition, Key
<1>6. tr'.key \notin Keys
    BY <1>3, <1>4, <1>5
<1>7. ImplementAsks'
    BY <1>1, <1>2 DEF ImplementAsks, AgentRequest, Key, Asks
<1>8. ImplementKeys'
    <2>1. Task' = s.tasks[s.index]
        BY <1>2 DEF Task
    <2>2. \A k \in Keys : /\ k.n < s.ordinal => k.n <= s.ordinal
                          /\ k.n < s.attempt => k.n <= s.attempt
        BY <1>3, <1>4, DeliveryAssumption
    <2>3. NewTask' => \A i \in 1..s.index - 1 : s.tasks[i] # s.tasks[s.index]
        BY <1>2, <2>1 DEF NewTask
    <2> QED
        BY <1>1, <1>2, <2>1, <2>2, <2>3 DEF ImplementKeys
<1>9. ImplementDone' /\ ImplementResults'
    BY <1>1, <1>2 DEF ImplementDone, ImplementResults, Key
<1>10. Cardinality(Turns("implementer"))' <= ImplementTurns'
    <2>1. Key("implementer", 0, s.ordinal)' \notin Keys'
        BY <1>1, <1>6 DEF AgentRequest, Transition, Key
    <2>2. ImplementTurns' = (s.index - 1) * AttemptLimit + s.attempt
        BY <1>2, <2>1 DEF ImplementTurns, Key
    <2> QED
        BY <1>1, <2>2, TurnsKept
<1>12. ApprovedByCorrection'
    <2>1. TaskCorrection' = TaskCorrection /\ (Good(TaskCorrection)' <=> Good(TaskCorrection))
        BY <1>1 DEF TaskCorrection, CorrectionKey, Key, Good
    <2> QED
        BY <1>1, <1>2, <2>1 DEF ApprovedByCorrection
<1>11. ImplementInv'
    BY <1>2, <1>7, <1>8, <1>9, <1>10, <1>12 DEF ImplementInv
<1> QED
    BY <1>1, <1>5, <1>6, <1>11, ImplementAnswered

LEMMA ImplementBlocks ==
    ASSUME StateInv, step = "implement", ImplementInv, Blocks, st.stage # "commit", tree' = tree,
           Corrects("task-reviewer") => ~Good(TaskCorrection)
    PROVE  StateInv'
<1>1. st' = st /\ tr' = Blocked /\ step' = step /\ Keys' = Keys /\ results' = results
    BY Answered DEF Blocks
<1>2. ImplementAsks' /\ ImplementKeys' /\ ImplementDone'
    BY <1>1 DEF ImplementInv, ImplementAsks, ImplementKeys, ImplementDone, NewTask, Task, Key, Asks
<1>3. ImplementResults' /\ ApprovedByCorrection'
    <2>1. /\ VerifyKey' = VerifyKey /\ NewTask' = NewTask /\ TaskCorrection' = TaskCorrection
          /\ Passed(VerifyKey)' <=> Passed(VerifyKey)
          /\ Good(TaskCorrection)' <=> Good(TaskCorrection)
        BY <1>1 DEF VerifyKey, NewTask, TaskCorrection, CorrectionKey, Passed, Good, Current, Key, Task
    <2>2. ~Corrects("task-reviewer")'
        BY <1>1 DEF Corrects, CorrectionRequest, Blocked, Transition
    <2> QED
        BY <1>1, <2>1, <2>2 DEF ImplementInv, ImplementResults, ApprovedByCorrection
<1>4. ImplementTurns' = ImplementTurns
    BY <1>1 DEF ImplementTurns, Key
<1>5. Cardinality(Turns("implementer"))' = Cardinality(Turns("implementer"))
    BY <1>1, TurnsKept
<1>6. ImplementInv'
    BY <1>1, <1>2, <1>3, <1>4, <1>5 DEF ImplementInv
<1> QED
    BY <1>6, ImplementAnswered DEF Blocks

LEMMA StartImplementState ==
    ASSUME StateInv, StartImplement
    PROVE  StateInv'
<1> DEFINE s == [stage |-> "slice", tasks |-> <<>>, index |-> 1, attempt |-> 0, ordinal |-> 0]
<1>1. step = "implement" /\ Idle /\ Keys = {} /\ Answers(s, AgentRequest("task-slicer", 0))
    BY Started DEF StartImplement
<1>2. /\ st' = s /\ tr' = AgentRequest("task-slicer", 0) /\ step' = step /\ Keys' = {}
    BY <1>1, Answered
<1>3. s \in ImplementStates
    BY DeliveryAssumption DEF ImplementStates
<1>4. /\ ImplementAsks' /\ ImplementKeys' /\ ImplementDone' /\ ImplementResults'
      /\ ApprovedByCorrection'
    BY <1>2 DEF ImplementAsks, Asks, ImplementKeys, ImplementDone, ImplementResults,
       ApprovedByCorrection, Good, AgentRequest, Key, Keys
<1>5. ImplementTurns' = 0
    BY <1>2 DEF ImplementTurns
<1>6. Cardinality(Turns("implementer"))' = 0
    <2>1. Turns("implementer")' = {}
        BY <1>2 DEF Turns
    <2> QED
        BY <2>1, FS_EmptySet
<1>7. ImplementInv'
    BY <1>2, <1>3, <1>4, <1>5, <1>6 DEF ImplementInv
<1> QED
    BY <1>1, <1>7, ImplementAnswered

LEMMA SlicedState ==
    ASSUME StateInv, Sliced
    PROVE  /\ StateInv'
           /\ tr' = Blocked \/ tr'.key \notin Keys
<1>5. /\ Replied("task-slicer") /\ UNCHANGED elsewhere
      /\ Blocks \/ \E tasks \in Slices : InvokeImplementer([st EXCEPT !.tasks = tasks, !.ordinal = 1])
    BY Zenon DEF Sliced
<1>1. step = "implement" /\ ImplementInv /\ st.stage = "slice" /\ tree' = tree
    <2>1. Pending("task-slicer") /\ tree' = tree
        BY <1>5, Zenon DEF Replied, elsewhere
    <2> QED
        BY <2>1, Home, ImplementPending DEF StateInv
<1>4. ~Good(TaskCorrection)
    BY <1>1 DEF ImplementInv, ImplementKeys, Good, TaskCorrection, CorrectionKey, Key, Keys
<1>2. CASE Blocks
    BY <1>1, <1>2, <1>4, ImplementBlocks, Answered DEF Blocks
<1>3. ASSUME NEW tasks \in Slices, InvokeImplementer([st EXCEPT !.tasks = tasks, !.ordinal = 1])
      PROVE  StateInv' /\ tr'.key \notin Keys
    <2> DEFINE s == [st EXCEPT !.tasks = tasks, !.ordinal = 1]
    <2>1. st \in ImplementStates /\ st.index = 1 /\ st.attempt = 0
        BY <1>1 DEF ImplementInv
    <2>2. s \in ImplementStates /\ s.tasks = tasks /\ s.index = 1 /\ s.attempt = 0 /\ s.ordinal = 1
        BY <2>1 DEF ImplementStates
    <2>3. 1 \in DOMAIN tasks
        BY SliceTyped
    <2>4. \A k \in Keys : k.kind = "task-slicer"
        BY <1>1 DEF ImplementInv, ImplementKeys
    <2>5. (s.index - 1) * AttemptLimit + s.attempt = 0
        BY <2>2, DeliveryAssumption
    <2>6. Cardinality(Turns("implementer")) = 0
        BY <2>4, NoTurns
    <2>7. InvokeImplementer(s)
        BY <1>3
    <2> HIDE DEF s
    <2>8. \A i \in 1..s.index - 1 : FALSE
        BY <2>2
    <2> QED
        BY <1>1, <1>4, <2>2, <2>3, <2>4, <2>5, <2>6, <2>7, <2>8, InvokedState
<1> QED
    BY <1>2, <1>3, <1>5, Zenon

LEMMA ImplementFields ==
    ASSUME st \in ImplementStates
    PROVE  /\ st.stage \in {"slice", "implement", "verify", "review", "commit"}
           /\ st.index \in Nat /\ st.index >= 1 /\ st.attempt \in Nat /\ st.attempt <= AttemptLimit - 1
           /\ st.ordinal \in Nat /\ AttemptLimit \in Nat
    BY DeliveryAssumption DEF ImplementStates

(* Another attempt, if there is one left. *)
LEMMA RepairTaskState ==
    ASSUME StateInv, step = "implement", ImplementInv, tree' = tree,
           st.stage \in {"verify", "review"}, Corrects("task-reviewer") => ~Good(TaskCorrection),
           RepairTask
    PROVE  /\ StateInv'
           /\ tr' = Blocked \/ tr'.key \notin Keys
<1>1. CASE Blocks
    BY <1>1, ImplementBlocks, Answered DEF Blocks
<1>2. CASE /\ ~(st.attempt + 1 >= AttemptLimit)
           /\ InvokeImplementer([st EXCEPT !.attempt = @ + 1, !.ordinal = @ + 1])
    <2> DEFINE s == [st EXCEPT !.attempt = @ + 1, !.ordinal = @ + 1]
    <2>1. st \in ImplementStates /\ st.tasks \in Slices /\ st.index \in DOMAIN st.tasks
        BY DEF ImplementInv
    <2>2. /\ st.attempt + 1 \in 0..AttemptLimit - 1 /\ st.ordinal + 1 \in Nat
          /\ st.attempt \in Nat /\ st.ordinal \in Nat
        BY <1>2, <2>1, ImplementFields
    <2>3. /\ s \in ImplementStates /\ s.tasks = st.tasks /\ s.index = st.index
          /\ s.attempt = st.attempt + 1 /\ s.ordinal = st.ordinal + 1
        BY <2>1, <2>2 DEF ImplementStates
    <2>4. InvokeImplementer(s)
        BY <1>2
    <2> HIDE DEF s
    <2>5. \A k \in Keys : k.n \in Nat
        BY DEF StateInv, ResultsInv, TypedKey
    <2>6. \A k \in Keys : /\ k.n <= st.ordinal => k.n < s.ordinal
                          /\ k.n <= st.attempt => k.n < s.attempt
        BY <2>2, <2>3, <2>5
    <2>7. \A k \in Keys :
              /\ k.kind \in {"task-slicer", "implementer", "task-reviewer", "verify", "commit"}
              /\ k.kind \in {"implementer", "task-reviewer"} => k.n < s.ordinal
              /\ k.kind \in {"verify", "commit"} => \E i \in 1..s.index : k.id = s.tasks[i]
        BY <2>3, <2>6 DEF ImplementInv, ImplementKeys
    <2>9. ASSUME \A i \in 1..s.index - 1 : s.tasks[i] # s.tasks[s.index]
          PROVE  \A k \in Keys : /\ k.kind = "verify" /\ k.id = s.tasks[s.index] => k.n < s.attempt
                                 /\ k.kind = "commit" => k.id # s.tasks[s.index]
        <3>1. NewTask /\ Task = s.tasks[s.index]
            BY <2>3, <2>9 DEF NewTask, Task
        <3> QED
            BY <2>6, <3>1 DEF ImplementInv, ImplementKeys
    <2>10. \A i \in 1..s.index - 1 : Key("commit", s.tasks[i], 0) \in Keys
        BY <2>3 DEF ImplementInv, ImplementDone
    <2>8. Cardinality(Turns("implementer")) <= (s.index - 1) * AttemptLimit + s.attempt
        <3>1. ImplementTurns = ((st.index - 1) * AttemptLimit + st.attempt) + 1
            BY DEF ImplementTurns
        <3>2. (st.index - 1) * AttemptLimit \in Int
            BY <2>1, ImplementFields
        <3>3. (s.index - 1) * AttemptLimit = (st.index - 1) * AttemptLimit
            BY <2>3
        <3>4. Cardinality(Turns("implementer")) <= ImplementTurns
            BY DEF ImplementInv
        <3> QED
            BY <2>2, <2>3, <3>1, <3>2, <3>3, <3>4
    <2>11. DistinctTasks /\ Good(TaskCorrection) =>
               s.index > 1 /\ results[TaskCorrection].of <= tree.head
        BY <2>3 DEF ImplementInv, ApprovedByCorrection
    <2> QED
        BY <2>1, <2>3, <2>4, <2>7, <2>8, <2>9, <2>10, <2>11, InvokedState
<1> QED
    BY <1>1, <1>2 DEF RepairTask

(* The rest of the step, answered with another request or its end.         *)
LEMMA ImplementedState ==
    ASSUME StateInv, Implemented
    PROVE  /\ StateInv'
           /\ step = "implement" /\ ImplementInv /\ st.stage = "implement"
           /\ NewTask => tr'.key \notin Keys
<1>1. /\ step = "implement" /\ ImplementInv /\ st.stage = "implement" /\ tree' = tree
      /\ Answers([st EXCEPT !.stage = "verify"], Verification) /\ HasResult
    BY Home, ImplementPending DEF StateInv, Implemented, Replied, elsewhere
<1>2. st \in ImplementStates /\ st.tasks \in Slices /\ st.index \in DOMAIN st.tasks
    BY <1>1 DEF ImplementInv
<1>3. /\ st' = [st EXCEPT !.stage = "verify"] /\ tr' = Verification
      /\ step' = step /\ Keys' = Keys /\ results' = results
    BY <1>1, Answered
<1>4. /\ st' \in ImplementStates /\ st'.stage = "verify" /\ st'.tasks = st.tasks
      /\ st'.index = st.index /\ st'.attempt = st.attempt /\ st'.ordinal = st.ordinal
    BY <1>2, <1>3 DEF ImplementStates
<1>5. Task' = Task /\ NewTask' = NewTask
    BY <1>4 DEF Task, NewTask
<1>6. ImplementAsks'
    BY <1>3, <1>4, <1>5 DEF ImplementAsks, Verification, RunCommand, Key, Asks
<1>7. ImplementKeys' /\ ImplementDone'
    BY <1>1, <1>3, <1>4, <1>5 DEF ImplementInv, ImplementKeys, ImplementDone, Key
<1>8. tr'.key = Key("verify", Task, st.attempt)
    BY <1>3 DEF Verification, RunCommand, Transition
<1>9. ASSUME NewTask PROVE tr'.key \notin Keys
    <2>1. tr'.key.kind = "verify" /\ tr'.key.id = Task /\ tr'.key.n = st.attempt
        BY <1>8 DEF Key
    <2>2. st.attempt \in Nat
        BY <1>2, ImplementFields
    <2> QED
        BY <1>1, <1>9, <2>1, <2>2 DEF ImplementInv, ImplementKeys
<1>10. ImplementResults'
    BY <1>3, <1>4, <1>5, <1>9 DEF ImplementResults, HasResult, Keys
<1>13. ApprovedByCorrection'
    <2>1. TaskCorrection' = TaskCorrection /\ (Good(TaskCorrection)' <=> Good(TaskCorrection))
        BY <1>3 DEF TaskCorrection, CorrectionKey, Key, Good
    <2> QED
        BY <1>1, <1>3, <1>4, <2>1 DEF ImplementInv, ApprovedByCorrection
<1>11. Cardinality(Turns("implementer"))' <= ImplementTurns'
    <2> DEFINE before == (st.index - 1) * AttemptLimit + st.attempt
    <2>1. before \in Int /\ ImplementTurns \in {before, before + 1} /\ ImplementTurns' = before + 1
        BY <1>1, <1>2, <1>4, ImplementFields DEF ImplementTurns
    <2>2. Cardinality(Turns("implementer")) \in Nat /\ Cardinality(Turns("implementer")) <= ImplementTurns
        BY <1>1, TurnsCounted DEF StateInv, ImplementInv
    <2> HIDE DEF before
    <2>3. Cardinality(Turns("implementer")) <= ImplementTurns'
        BY <2>1, <2>2
    <2> QED
        BY <1>3, <2>3, TurnsKept
<1>12. ImplementInv'
    BY <1>1, <1>2, <1>3, <1>4, <1>6, <1>7, <1>10, <1>11, <1>13 DEF ImplementInv
<1> QED
    BY <1>1, <1>9, <1>12, ImplementAnswered

LEMMA VerifiedState ==
    ASSUME StateInv, Verified
    PROVE  /\ StateInv'
           /\ tr' = Blocked \/ tr'.key \notin Keys
<1>1. /\ step = "implement" /\ ImplementInv /\ st.stage = "verify" /\ tree' = tree
      /\ tr = Verification /\ tr.key \in Keys /\ HasResult
    BY Home, ImplementPending DEF StateInv, Verified, elsewhere, HasResult, Keys
<1>4. ~Corrects("task-reviewer")
    BY <1>1 DEF Corrects, CorrectionRequest, Verification, RunCommand, Transition
<1>2. CASE RepairTask
    BY <1>1, <1>2, <1>4, RepairTaskState
<1>3. CASE /\ results[tr.key].ok
           /\ Answers([st EXCEPT !.stage = "review", !.ordinal = @ + 1],
                      AgentRequest("task-reviewer", st.ordinal + 1))
    <2>1. st \in ImplementStates /\ st.tasks \in Slices /\ st.index \in DOMAIN st.tasks
        BY <1>1 DEF ImplementInv
    <2>2. st.ordinal \in Nat /\ st.ordinal + 1 \in Nat
        BY <2>1, ImplementFields
    <2>3. /\ st' = [st EXCEPT !.stage = "review", !.ordinal = @ + 1]
          /\ tr' = AgentRequest("task-reviewer", st.ordinal + 1)
          /\ step' = step /\ Keys' = Keys /\ results' = results
        BY <1>3, Answered
    <2>4. /\ st' \in ImplementStates /\ st'.stage = "review" /\ st'.tasks = st.tasks
          /\ st'.index = st.index /\ st'.attempt = st.attempt /\ st'.ordinal = st.ordinal + 1
        BY <2>1, <2>2, <2>3 DEF ImplementStates
    <2>5. Task' = Task /\ NewTask' = NewTask
        BY <2>4 DEF Task, NewTask
    <2>6. ImplementAsks'
        BY <2>3, <2>4 DEF ImplementAsks, AgentRequest, Key, Asks
    <2>7. \A k \in Keys : k.n \in Nat
        BY DEF StateInv, ResultsInv, TypedKey
    <2>8. \A k \in Keys : k.n <= st.ordinal => k.n <= st.ordinal + 1 /\ k.n # st.ordinal + 1
        BY <2>2, <2>7
    <2>9. ImplementKeys' /\ ImplementDone'
        BY <1>1, <2>3, <2>4, <2>5, <2>8 DEF ImplementInv, ImplementKeys, ImplementDone, Key
    <2>10. tr'.key \notin Keys
        <3>1. tr'.key.kind = "task-reviewer" /\ tr'.key.n = st.ordinal + 1
            BY <2>3 DEF AgentRequest, Transition, Key
        <3> QED
            BY <1>1, <2>8, <3>1 DEF ImplementInv, ImplementKeys
    <2>11. ASSUME NewTask PROVE Passed(VerifyKey)
        <3>1. tr.key = VerifyKey /\ tr # Blocked
            BY <1>1 DEF Verification, RunCommand, Transition, VerifyKey, Blocked
        <3>2. results[tr.key].of = tree.version
            BY <1>1, <1>4, <2>11, <3>1 DEF ImplementInv, ImplementResults
        <3> QED
            BY <1>1, <1>3, <3>1, <3>2, Passes DEF StateInv
    <2>12. VerifyKey' = VerifyKey
        BY <2>3, <2>4, <2>5 DEF VerifyKey, Key
    <2>16. ~Corrects("task-reviewer")'
        BY <2>3 DEF Corrects, CorrectionRequest, CorrectionKey, AgentRequest, Transition, Key
    <2>13. ImplementResults'
        BY <1>1, <2>3, <2>4, <2>5, <2>10, <2>11, <2>12, <2>16
           DEF ImplementResults, HasResult, Keys, Passed, Good, Current
    <2>17. ApprovedByCorrection'
        <3>1. TaskCorrection' = TaskCorrection /\ (Good(TaskCorrection)' <=> Good(TaskCorrection))
            BY <2>3 DEF TaskCorrection, CorrectionKey, Key, Good
        <3> QED
            BY <1>1, <2>3, <2>4, <3>1 DEF ImplementInv, ApprovedByCorrection
    <2>14. ImplementTurns' = ImplementTurns /\ Cardinality(Turns("implementer"))' = Cardinality(Turns("implementer"))
        BY <1>1, <2>3, <2>4, TurnsKept DEF ImplementTurns
    <2>15. ImplementInv'
        BY <1>1, <2>1, <2>3, <2>4, <2>6, <2>9, <2>13, <2>14, <2>17 DEF ImplementInv
    <2> QED
        BY <1>1, <1>3, <2>10, <2>15, ImplementAnswered
<1> QED
    BY <1>2, <1>3 DEF Verified

LEMMA ReviewedState ==
    ASSUME StateInv, Reviewed
    PROVE  /\ StateInv'
           /\ step = "implement" /\ ImplementInv /\ st.stage = "review"
           /\ NewTask => tr' = Blocked \/ tr'.key \notin Keys
<1>1. /\ step = "implement" /\ ImplementInv /\ st.stage = "review" /\ tree' = tree
      /\ Asks("task-reviewer", st.ordinal) /\ tr.key \in Keys /\ HasResult
    BY Home, ImplementPending DEF StateInv, Reviewed, Replied, elsewhere, HasResult, Keys
<1>4. /\ ~Corrects("task-reviewer") => tr.key = ReviewKey
      /\ Corrects("task-reviewer") => tr.key = TaskCorrection
    BY <1>1 DEF Asks, Corrects, AgentRequest, CorrectionRequest, Transition, ReviewKey, TaskCorrection
<1>2. CASE ~results[tr.key].ok /\ RepairTask
    BY <1>1, <1>2, <1>4, RepairTaskState DEF Good
<1>3. CASE /\ results[tr.key].ok
           /\ Answers([st EXCEPT !.stage = "commit"], CommitRequest)
    <2>1. st \in ImplementStates /\ st.tasks \in Slices /\ st.index \in DOMAIN st.tasks
        BY <1>1 DEF ImplementInv
    <2>2. /\ st' = [st EXCEPT !.stage = "commit"] /\ tr' = RunCommand("commit", Task, 0)
          /\ step' = step /\ Keys' = Keys /\ results' = results
        BY <1>3, Answered DEF CommitRequest
    <2>3. /\ st' \in ImplementStates /\ st'.stage = "commit" /\ st'.tasks = st.tasks
          /\ st'.index = st.index /\ st'.attempt = st.attempt /\ st'.ordinal = st.ordinal
        BY <2>1, <2>2 DEF ImplementStates
    <2>4. Task' = Task /\ NewTask' = NewTask
        BY <2>3 DEF Task, NewTask
    <2>5. ImplementAsks'
        BY <2>2, <2>3, <2>4 DEF ImplementAsks, RunCommand, Key, Asks
    <2>6. ImplementKeys' /\ ImplementDone'
        BY <1>1, <2>2, <2>3, <2>4 DEF ImplementInv, ImplementKeys, ImplementDone, Key
    <2>7. ASSUME NewTask PROVE tr'.key \notin Keys
        <3>1. tr'.key.kind = "commit" /\ tr'.key.id = Task
            BY <2>2 DEF RunCommand, Transition, Key
        <3> QED
            BY <1>1, <2>7, <3>1 DEF ImplementInv, ImplementKeys
    <2>8. ASSUME NewTask PROVE Passed(ReviewKey) \/ (Garbled(ReviewKey) /\ Good(TaskCorrection))
        <3>1. CASE Corrects("task-reviewer")
            <4>1. Garbled(ReviewKey)
                BY <1>1, <2>8, <3>1 DEF ImplementInv, ImplementResults
            <4> QED
                BY <1>1, <1>3, <1>4, <3>1, <4>1, Passes DEF StateInv
        <3>2. CASE ~Corrects("task-reviewer")
            <4>1. results[tr.key].of = tree.version
                BY <1>1, <2>8, <3>2 DEF ImplementInv, ImplementResults, Replied, Pending, Reviewed,
                   Blocked, Transition
            <4> QED
                BY <1>1, <1>3, <1>4, <3>2, <4>1, Passes DEF StateInv
        <3> QED
            BY <3>1, <3>2
    <2>9. NewTask => Passed(VerifyKey)
        BY <1>1 DEF ImplementInv, ImplementResults
    <2>10. /\ VerifyKey' = VerifyKey /\ ReviewKey' = ReviewKey /\ TaskCorrection' = TaskCorrection
           /\ \A key : /\ Passed(key)' <=> Passed(key)
                       /\ Good(key)' <=> Good(key)
                       /\ Garbled(key)' <=> Garbled(key)
        BY <1>1, <2>2, <2>3, <2>4 DEF VerifyKey, ReviewKey, TaskCorrection, CorrectionKey, Key,
           Passed, Good, Current, Garbled
    <2>11. ImplementResults'
        BY <2>2, <2>3, <2>4, <2>7, <2>8, <2>9, <2>10 DEF ImplementResults, HasResult, Keys
    <2>14. ApprovedByCorrection'
        BY <1>1, <2>2, <2>3, <2>10 DEF ImplementInv, ApprovedByCorrection
    <2>12. ImplementTurns' = ImplementTurns /\ Cardinality(Turns("implementer"))' = Cardinality(Turns("implementer"))
        BY <1>1, <2>2, <2>3, TurnsKept DEF ImplementTurns
    <2>13. ImplementInv'
        BY <1>1, <2>1, <2>2, <2>3, <2>5, <2>6, <2>11, <2>12, <2>14 DEF ImplementInv
    <2> QED
        BY <1>1, <1>3, <2>7, <2>13, ImplementAnswered
<1> QED
    BY <1>2, <1>3 DEF Reviewed

LEMMA CommittedState ==
    ASSUME StateInv, Committed
    PROVE  /\ StateInv'
           /\ tr' = NoTransition \/ tr'.key \notin Keys
<1>1. step = "implement" /\ ImplementInv /\ st.stage = "commit" /\ tree' = tree /\ HasResult
    BY Home, ImplementPending DEF StateInv, Committed, elsewhere
<1>2. CASE Completes
    BY <1>1, <1>2, CompletedState DEF StateInv, Completes
<1>3. CASE /\ ~LastTask
           /\ InvokeImplementer([st EXCEPT !.index = @ + 1, !.attempt = 0, !.ordinal = @ + 1])
    <2> DEFINE s == [st EXCEPT !.index = @ + 1, !.attempt = 0, !.ordinal = @ + 1]
    <2>1. st \in ImplementStates /\ st.tasks \in Slices /\ st.index \in DOMAIN st.tasks
        BY <1>1 DEF ImplementInv
    <2>2. /\ st.index \in Nat /\ st.attempt \in Nat /\ st.ordinal \in Nat /\ AttemptLimit \in Nat \ {0}
          /\ st.attempt <= AttemptLimit - 1 /\ st.index + 1 \in Nat \ {0} /\ st.ordinal + 1 \in Nat
        BY <2>1, ImplementFields, DeliveryAssumption
    <2>3. st.index \in 1..Len(st.tasks) /\ st.index + 1 \in DOMAIN st.tasks
        <3>1. DOMAIN st.tasks = 1..Len(st.tasks) /\ Len(st.tasks) \in Nat
            BY <2>1, SliceTyped
        <3>2. st.index < Len(st.tasks)
            BY <1>3, <2>2, <3>1 DEF LastTask
        <3> QED
            BY <2>1, <2>2, <3>1, <3>2
    <2>4. 0 \in 0..AttemptLimit - 1
        BY <2>2
    <2>5. /\ s \in ImplementStates /\ s.tasks = st.tasks /\ s.index = st.index + 1
          /\ s.attempt = 0 /\ s.ordinal = st.ordinal + 1
        BY <2>1, <2>2, <2>4 DEF ImplementStates
    <2>6. InvokeImplementer(s)
        BY <1>3
    <2> HIDE DEF s
    <2>7. \A k \in Keys : k.n \in Nat
        BY DEF StateInv, ResultsInv, TypedKey
    <2>8. \A k \in Keys : k.n <= st.ordinal => k.n < s.ordinal
        BY <2>2, <2>5, <2>7
    <2>9. \A i \in 1..st.index : i \in 1..s.index /\ i \in 1..s.index - 1
        BY <2>1, <2>2, <2>3, <2>5
    <2>10. \A k \in Keys :
               /\ k.kind \in {"task-slicer", "implementer", "task-reviewer", "verify", "commit"}
               /\ k.kind \in {"implementer", "task-reviewer"} => k.n < s.ordinal
               /\ k.kind \in {"verify", "commit"} => \E i \in 1..st.index : k.id = s.tasks[i]
        BY <1>1, <2>5, <2>8 DEF ImplementInv, ImplementKeys
    <2>11. /\ \A k \in Keys : k.kind \in {"verify", "commit"} => \E i \in 1..s.index : k.id = s.tasks[i]
           /\ (\A i \in 1..s.index - 1 : s.tasks[i] # s.tasks[s.index]) =>
                  \A k \in Keys : k.kind \in {"verify", "commit"} => k.id # s.tasks[s.index]
        BY <2>9, <2>10
    <2>13. \A i \in 1..s.index - 1 : Key("commit", s.tasks[i], 0) \in Keys
        <3>1. tr = RunCommand("commit", Task, 0)
            BY <1>1 DEF ImplementInv, ImplementAsks, Asks
        <3>2. Key("commit", Task, 0) \in Keys /\ Task = s.tasks[st.index]
            BY <2>5, <3>1 DEF Committed, HasResult, Keys, RunCommand, Transition, Task
        <3>3. \A i \in 1..st.index - 1 : Key("commit", s.tasks[i], 0) \in Keys
            BY <1>1, <2>5 DEF ImplementInv, ImplementDone
        <3>4. \A i \in 1..s.index - 1 : i = st.index \/ i \in 1..st.index - 1
            BY <2>2, <2>5
        <3> QED
            BY <3>2, <3>3, <3>4
    <2>12. Cardinality(Turns("implementer")) <= (s.index - 1) * AttemptLimit + s.attempt
        <3>1. ImplementTurns = ((st.index - 1) * AttemptLimit + st.attempt) + 1
            BY <1>1 DEF ImplementTurns
        <3>2. /\ (st.index - 1) * AttemptLimit \in Int
              /\ s.index - 1 = st.index
              /\ st.index * AttemptLimit = (st.index - 1) * AttemptLimit + AttemptLimit
            BY <2>2, <2>5
        <3>3. Cardinality(Turns("implementer")) <= ImplementTurns
            BY <1>1 DEF ImplementInv
        <3>4. Cardinality(Turns("implementer")) \in Nat
            BY TurnsCounted DEF StateInv
        <3> QED
            BY <2>2, <2>5, <3>1, <3>2, <3>3, <3>4
    <2>14. DistinctTasks /\ Good(TaskCorrection) =>
               s.index > 1 /\ results[TaskCorrection].of <= tree.head
        <3>1. DistinctTasks => Clean
            BY <1>1, TaskIsNew DEF ImplementInv, ImplementResults
        <3>2. Good(TaskCorrection) => results[TaskCorrection].of \in Nat
            BY DEF StateInv, ResultsInv, Good, Keys, Storable, Results
        <3>3. s.index > 1
            BY <2>2, <2>3, <2>5
        <3> QED
            BY <1>1, <3>1, <3>2, <3>3 DEF ImplementInv, ApprovedByCorrection, Clean
    <2> QED
        BY <1>1, <2>1, <2>3, <2>5, <2>6, <2>10, <2>11, <2>12, <2>13, <2>14, InvokedState
<1> QED
    BY <1>2, <1>3 DEF Committed

(* A result is stored: that of the implementer, of any version; every      *)
(* other one of the worktree as it is and stays.                           *)
LEMMA ImplementStoredState ==
    ASSUME StateInv, step = "implement", ImplementInv, ~HasResult,
           NEW role, Pending(role), NEW r \in Storable, Stores(r),
           role = "implementer" \/ (tree'.version = tree.version /\ r.of = tree.version),
           role = "commit" => Clean',
           HeadGoesOn
    PROVE  StateInv'
<1>1. /\ step' = step /\ tr' = tr /\ st' = st /\ Keys' = Keys \cup {tr.key}
      /\ tr.key.kind = role /\ TypedKey(tr.key) /\ ResultsInv'
    BY RequestKey, Stored, StoredResults DEF StateInv
<1>2. results'[tr.key] = r /\ \A k \in Keys : k # tr.key => results'[k] = results[k]
    BY Stored
<1>3. tr.key \notin Keys
    BY DEF HasResult, Keys
<1>4. /\ role \in {"task-slicer", "implementer", "verify", "task-reviewer", "commit"}
      /\ role # "task-slicer" => st.stage # "slice"
      /\ st.stage = CASE role = "task-slicer" -> "slice" [] role = "implementer" -> "implement"
                      [] role = "verify" -> "verify" [] role = "task-reviewer" -> "review"
                      [] OTHER -> "commit"
    BY ImplementPending
<1>5. ImplementAsks'
    BY <1>1 DEF ImplementInv, ImplementAsks, AgentRequest, RunCommand, Verification, Task, Key, Asks, CorrectionRequest, CorrectionKey
<1>6. ImplementKeys'
    <2>1. Task' = Task /\ NewTask' = NewTask
        BY <1>1 DEF Task, NewTask
    <2>2. role \in {"implementer", "task-reviewer"} => tr.key.n <= st.ordinal
        <3>1. st.ordinal \in Nat
            BY ImplementFields DEF ImplementInv
        <3> QED
            BY <3>1, ImplementPending, AskedKey
    <2>3. role = "verify" => tr.key.id = Task /\ tr.key.n = st.attempt
        BY ImplementPending DEF Verification, RunCommand, Transition, Key
    <2>4. role = "commit" => tr.key.id = Task
        BY ImplementPending DEF RunCommand, Transition, Key
    <2>5. st.stage # "slice" => st.index \in 1..st.index /\ Task = st.tasks[st.index]
        BY ImplementFields DEF ImplementInv, Task
    <2>6. st.attempt \in Nat /\ st.ordinal \in Nat
        BY ImplementFields DEF ImplementInv
    <2>7. \A k \in Keys :
              /\ k.kind \in {"task-slicer", "implementer", "task-reviewer", "verify", "commit"}
              /\ k.kind # "task-slicer" => st.stage # "slice"
              /\ k.kind \in {"implementer", "task-reviewer"} => k.n <= st.ordinal
              /\ k.kind \in {"verify", "commit"} => \E i \in 1..st.index : k.id = st.tasks[i]
              /\ NewTask => /\ k.kind = "verify" /\ k.id = Task =>
                                   k.n <= st.attempt /\ (st.stage = "implement" => k.n < st.attempt)
                            /\ k.kind = "commit" /\ k.id = Task => st.stage = "commit"
        BY DEF ImplementInv, ImplementKeys
    <2>8. /\ tr.key.kind \in {"task-slicer", "implementer", "task-reviewer", "verify", "commit"}
          /\ tr.key.kind # "task-slicer" => st.stage # "slice"
          /\ tr.key.kind \in {"implementer", "task-reviewer"} => tr.key.n <= st.ordinal
          /\ tr.key.kind \in {"verify", "commit"} => \E i \in 1..st.index : tr.key.id = st.tasks[i]
          /\ tr.key.kind = "verify" /\ tr.key.id = Task =>
                tr.key.n <= st.attempt /\ (st.stage = "implement" => tr.key.n < st.attempt)
          /\ tr.key.kind = "commit" /\ tr.key.id = Task => st.stage = "commit"
        BY <1>1, <1>4, <2>2, <2>3, <2>4, <2>5, <2>6
    <2> QED
        BY <1>1, <2>1, <2>7, <2>8 DEF ImplementKeys
<1>7. ImplementDone' /\ ImplementResults'
    <2>3. ImplementDone' /\ NewTask' = NewTask
        BY <1>1 DEF ImplementInv, ImplementDone, NewTask, Task, Key
    <2>1. CASE role \in {"task-slicer", "implementer"}
        BY <1>1, <1>4, <2>1, <2>3 DEF ImplementResults
    <2>2. CASE role \notin {"task-slicer", "implementer"}
        <3>1. tree'.version = tree.version /\ r.of = tree.version
            BY <2>2
        <3>2. \A key \in Keys : /\ Passed(key) => Passed(key)'
                                /\ Good(key) => Good(key)'
                                /\ Garbled(key) => Garbled(key)'
            BY <1>1, <1>2, <1>3, <3>1 DEF Passed, Good, Current, Garbled, Keys
        <3>3. /\ \A key : Passed(key) \/ Good(key) \/ Garbled(key) => key \in Keys
              /\ VerifyKey' = VerifyKey /\ ReviewKey' = ReviewKey /\ TaskCorrection' = TaskCorrection
              /\ Corrects("task-reviewer")' <=> Corrects("task-reviewer")
            BY <1>1 DEF Passed, Good, Current, Garbled, Keys, VerifyKey, ReviewKey, TaskCorrection,
               Corrects, CorrectionRequest, CorrectionKey, Key, Task
        <3>4. NewTask => /\ st.stage \in {"review", "commit"} => Passed(VerifyKey)'
                         /\ st.stage = "review" /\ Corrects("task-reviewer") => Garbled(ReviewKey)'
                         /\ st.stage = "commit" => \/ Passed(ReviewKey)'
                                                   \/ Garbled(ReviewKey)' /\ Good(TaskCorrection)'
            BY <3>2, <3>3 DEF ImplementInv, ImplementResults
        <3>5. st.stage = "commit" => Clean'
            BY <1>4
        <3>6. ImplementResults'
            BY <1>1, <1>2, <2>3, <3>1, <3>3, <3>4, <3>5 DEF ImplementResults
        <3> QED
            BY <2>3, <3>6
    <2> QED
        BY <2>1, <2>2, <2>3
<1>10. ApprovedByCorrection'
    <2>1. TaskCorrection' = TaskCorrection /\ (Corrects("task-reviewer")' <=> Corrects("task-reviewer"))
        BY <1>1 DEF TaskCorrection, Corrects, CorrectionRequest, CorrectionKey, Key
    <2>2. CASE tr.key = TaskCorrection
        <3>1. role = "task-reviewer"
            BY <1>1, <2>2 DEF TaskCorrection, CorrectionKey, Key
        <3>2. Corrects("task-reviewer") /\ st.stage = "review"
            BY <2>2, <3>1, ImplementPending
               DEF Asks, Corrects, TaskCorrection, CorrectionKey, AgentRequest, Transition, Key
        <3> QED
            BY <1>1, <1>2, <2>1, <2>2, <3>1, <3>2 DEF ApprovedByCorrection
    <2>3. CASE tr.key # TaskCorrection
        <3>1. Good(TaskCorrection)' => /\ Good(TaskCorrection)
                                       /\ results'[TaskCorrection] = results[TaskCorrection]
            BY <1>1, <1>2, <2>1, <2>3 DEF Good, Keys
        <3>2. Good(TaskCorrection) => results[TaskCorrection].of \in Nat
            BY DEF StateInv, ResultsInv, Good, Keys, Storable, Results
        <3>3. role = "implementer" => st.stage = "implement"
            BY <1>4
        <3> QED
            BY <1>1, <2>1, <3>1, <3>2, <3>3 DEF ImplementInv, ApprovedByCorrection, HeadGoesOn
    <2> QED
        BY <2>2, <2>3
<1>8. Cardinality(Turns("implementer"))' <= ImplementTurns'
    <2>1. Cardinality(Turns("implementer")) \in Nat /\ Cardinality(Turns("implementer")) <= ImplementTurns
        BY TurnsCounted DEF StateInv, ImplementInv
    <2>2. /\ role # "implementer" \/ tr.key.id # 0
                => Cardinality(Turns("implementer"))' = Cardinality(Turns("implementer"))
          /\ Cardinality(Turns("implementer"))' <= Cardinality(Turns("implementer")) + 1
        BY <1>1, TurnsGrow DEF StateInv
    <2>3. /\ Key("implementer", 0, st.ordinal)' = Key("implementer", 0, st.ordinal)
          /\ role = "implementer" /\ tr.key.id = 0 => tr.key = Key("implementer", 0, st.ordinal)
          /\ role # "implementer" \/ tr.key.id # 0 => tr.key # Key("implementer", 0, st.ordinal)
        <3>1. st.ordinal \in Nat
            BY ImplementFields DEF ImplementInv
        <3> QED
            BY <1>1, <3>1, ImplementPending, AskedKey DEF Key
    <2>4. role = "implementer" /\ tr.key.id = 0 =>
                                  /\ ImplementTurns = (st.index - 1) * AttemptLimit + st.attempt
                                  /\ ImplementTurns' = ((st.index - 1) * AttemptLimit + st.attempt) + 1
        BY <1>1, <1>3, <1>4, <2>3 DEF ImplementTurns
    <2>5. role # "implementer" \/ tr.key.id # 0 => ImplementTurns' = ImplementTurns
        BY <1>1, <2>3 DEF ImplementTurns
    <2>6. (st.index - 1) * AttemptLimit + st.attempt \in Int
        BY ImplementFields DEF ImplementInv
    <2>7. Cardinality(Turns("implementer"))' \in Nat
        <3>1. IsFiniteSet(Turns("implementer")')
            BY <1>1, FS_Subset DEF ResultsInv, Turns
        <3> QED
            BY <3>1, FS_CardinalityType
    <2> QED
        BY <2>1, <2>2, <2>4, <2>5, <2>6, <2>7
<1>9. ImplementInv'
    BY <1>1, <1>5, <1>6, <1>7, <1>8, <1>10 DEF ImplementInv
<1> QED
    BY <1>1, <1>9 DEF StateInv, StepsInv

(* Before a turn of the implementer is stored the worktree is anybody's.   *)
LEMMA ImplementWrittenState ==
    ASSUME StateInv, step = "implement", ImplementInv, Pending("implementer"), UNCHANGED contractVars,
           HeadGoesOn
    PROVE  StateInv'
<1>1. /\ step' = step /\ tr' = tr /\ st' = st /\ results' = results /\ Keys' = Keys
    BY DEF contractVars, Keys
<1>2. st.stage = "implement"
    BY ImplementPending
<1>3. ImplementAsks' /\ ImplementKeys' /\ ImplementDone'
    BY <1>1 DEF ImplementInv, ImplementAsks, ImplementKeys, ImplementDone, NewTask, AgentRequest,
        RunCommand, Verification, Task, Key, Asks, CorrectionRequest, CorrectionKey
<1>4. ImplementResults'
    BY <1>1, <1>2 DEF ImplementResults
<1>8. ApprovedByCorrection'
    <2>1. TaskCorrection' = TaskCorrection /\ (Good(TaskCorrection)' <=> Good(TaskCorrection))
        BY <1>1 DEF TaskCorrection, CorrectionKey, Key, Good
    <2>2. Good(TaskCorrection) => results[TaskCorrection].of \in Nat
        BY DEF StateInv, ResultsInv, Good, Keys, Storable, Results
    <2> QED
        BY <1>1, <1>2, <2>1, <2>2 DEF ImplementInv, ApprovedByCorrection, HeadGoesOn
<1>5. Turns("implementer")' = Turns("implementer") /\ ImplementTurns' = ImplementTurns
    BY <1>1 DEF Turns, ImplementTurns, Key
<1>6. ImplementInv'
    BY <1>1, <1>3, <1>4, <1>5, <1>8 DEF ImplementInv
<1>7. ResultsInv'
    BY <1>1, AnsweredResults DEF StateInv
<1> QED
    BY <1>1, <1>6, <1>7 DEF StateInv, StepsInv

-------------------------------------------------------------------------------
(* Validating. *)

LEMMA ValidateAnswered ==
    ASSUME StateInv, step = "validate", NEW s, NEW t, Answers(s, t), ValidateInv'
    PROVE  StateInv'
    BY Answered DEF StateInv, StepsInv

LEMMA ValidateFields ==
    ASSUME NEW s \in ValidateStates
    PROVE  /\ s.stage \in {"commands", "review", "repair"}
           /\ s.index \in Nat /\ s.index <= CommandCount /\ CommandCount \in Nat
           /\ s.repair \in Nat /\ s.repair <= RepairLimit /\ RepairLimit \in Nat /\ s.ordinal \in Nat
    BY DeliveryAssumption DEF ValidateStates

(* The next command, or the review when there is none: its number is new,  *)
(* and the commands before it passed.                                      *)
LEMMA NextValidationState ==
    ASSUME StateInv, step = "validate", tree' = tree, NEW s \in ValidateStates,
           NextCommandOrReview(s), s.stage = "commands",
           \A k \in Keys :
               /\ k.kind \in {"command", "final-reviewer", "final-repairer"}
               /\ k.kind = "command" => /\ k.n <= s.repair
                                        /\ k.n = s.repair => k.id < s.index
               /\ k.kind # "command" => k.n <= s.ordinal
               /\ k.kind = "final-reviewer" /\ k.id = 0 => k.n < s.ordinal,
           ~Good(FinalCorrection),
           \A i \in 0..s.index - 1 : Passed(Key("command", i, s.repair)),
           Cardinality(Turns("final-repairer")) <= s.repair
    PROVE  StateInv' /\ tr'.key \notin Keys
<1>1. s.index \in Nat /\ CommandCount \in Nat /\ s.repair \in Nat /\ s.ordinal \in Nat /\ s.index <= CommandCount
    BY ValidateFields
<1>2. \A k \in Keys : k.n \in Nat /\ k.id \in Nat
    BY DEF StateInv, ResultsInv, TypedKey
<1>3. \A k \in Keys : /\ k.n < s.ordinal => k.n <= s.ordinal
                      /\ k.id < s.index => k.id <= s.index
    BY <1>1, <1>2
<1>6. Keys' = Keys /\ results' = results /\ step' = step => FinallyCorrected'
    BY DEF FinallyCorrected, FinalCorrection, CorrectionKey, Key, Good
<1>4. CASE s.index < CommandCount
    <2>1. Answers(s, ValidationCommand(s))
        BY <1>4 DEF NextCommandOrReview
    <2>2. /\ st' = s /\ tr' = ValidationCommand(s) /\ step' = step /\ Keys' = Keys /\ results' = results
        BY <2>1, Answered
    <2>3. ValidateAsks'
        BY <1>4, <2>2 DEF ValidateAsks, ValidationCommand, RunCommand, Key, Asks
    <2>4. ValidateKeys'
        BY <1>3, <2>2 DEF ValidateKeys
    <2>5. tr'.key.kind = "command" /\ tr'.key.id = s.index /\ tr'.key.n = s.repair
        BY <2>2 DEF ValidationCommand, RunCommand, Transition, Key
    <2>6. tr'.key \notin Keys
        BY <1>1, <1>2, <2>5
    <2>7. \A i : CommandKey(i)' = Key("command", i, s.repair)
        BY <2>2 DEF CommandKey, Key
    <2>8. \A key : Passed(key)' <=> Passed(key)
        BY <2>2 DEF Passed, Good, Current
    <2>9. ValidateResults'
        BY <2>2, <2>6, <2>7, <2>8 DEF ValidateResults, HasResult, Keys
    <2>10. ValidateTurns' = s.repair
        BY <2>2 DEF ValidateTurns
    <2>11. ValidateInv'
        BY <1>6, <2>2, <2>3, <2>4, <2>9, <2>10, TurnsKept DEF ValidateInv
    <2> QED
        BY <2>1, <2>6, <2>11, ValidateAnswered
<1>5. CASE ~(s.index < CommandCount)
    <2>1. Answers([s EXCEPT !.stage = "review"], AgentRequest("final-reviewer", s.ordinal))
        BY <1>5 DEF NextCommandOrReview
    <2>2. /\ st' = [s EXCEPT !.stage = "review"] /\ tr' = AgentRequest("final-reviewer", s.ordinal)
          /\ step' = step /\ Keys' = Keys /\ results' = results
        BY <2>1, Answered
    <2>3. /\ st' \in ValidateStates /\ st'.stage = "review" /\ st'.index = s.index
          /\ st'.repair = s.repair /\ st'.ordinal = s.ordinal
        BY <2>2 DEF ValidateStates
    <2>4. ValidateAsks'
        BY <1>1, <1>5, <2>2, <2>3 DEF ValidateAsks, AgentRequest, Key, Asks
    <2>5. ValidateKeys'
        BY <1>3, <2>2, <2>3 DEF ValidateKeys
    <2>6. /\ tr'.key.kind = "final-reviewer" /\ tr'.key.id = 0 /\ tr'.key.n = s.ordinal
          /\ ~Corrects("final-reviewer")'
        BY <2>2 DEF Corrects, CorrectionRequest, CorrectionKey, AgentRequest, Transition, Key
    <2>7. tr'.key \notin Keys
        BY <1>1, <1>2, <2>6
    <2>8. \A i : CommandKey(i)' = Key("command", i, s.repair)
        BY <2>2, <2>3 DEF CommandKey, Key
    <2>9. \A key : Passed(key)' <=> Passed(key)
        BY <2>2 DEF Passed, Good, Current
    <2>10. ValidateResults'
        BY <2>2, <2>3, <2>6, <2>7, <2>8, <2>9 DEF ValidateResults, HasResult, Keys
    <2>11. ValidateTurns' = s.repair
        BY <2>3 DEF ValidateTurns
    <2>12. ValidateInv'
        BY <1>6, <2>2, <2>3, <2>4, <2>5, <2>10, <2>11, TurnsKept DEF ValidateInv
    <2> QED
        BY <2>1, <2>7, <2>12, ValidateAnswered
<1> QED
    BY <1>4, <1>5

LEMMA StartValidateState ==
    ASSUME StateInv, StartValidate
    PROVE  StateInv' /\ tr'.key \notin Keys
<1> DEFINE s == [stage |-> "commands", index |-> 0, repair |-> 0, ordinal |-> 0]
<1>1. step = "validate" /\ Idle /\ Keys = {} /\ tree' = tree /\ NextCommandOrReview(s)
    BY Started DEF StartValidate, elsewhere
<1>2. s \in ValidateStates /\ s.stage = "commands" /\ s.index = 0 /\ s.repair = 0 /\ s.ordinal = 0
    BY DeliveryAssumption DEF ValidateStates
<1> HIDE DEF s
<1>5. ~Good(FinalCorrection)
    BY <1>1 DEF Good, Keys
<1>3. Cardinality(Turns("final-repairer")) <= s.repair
    BY <1>1, <1>2, NoTurns
<1>4. \A i \in 0..s.index - 1 : Passed(Key("command", i, s.repair))
    BY <1>2
<1> QED
    BY <1>1, <1>2, <1>3, <1>4, <1>5, NextValidationState

LEMMA ValidateBlocks ==
    ASSUME StateInv, step = "validate", ValidateInv, tree' = tree, Blocks, ~Good(FinalCorrection)
    PROVE  StateInv' /\ tr' = Blocked
<1>1. st' = st /\ tr' = Blocked /\ step' = step /\ Keys' = Keys /\ results' = results
    BY Answered DEF Blocks
<1>2. ValidateAsks' /\ ValidateKeys'
    BY <1>1 DEF ValidateInv, ValidateAsks, ValidateKeys
<1>3. ValidateResults' /\ FinallyCorrected'
    <2>1. ~Corrects("final-reviewer")'
        BY <1>1 DEF Corrects, CorrectionRequest, Blocked, Transition
    <2> QED
        BY <1>1, <2>1 DEF ValidateInv, ValidateResults, FinallyCorrected, FinalCorrection,
           CorrectionKey, Passed, Good, Current, CommandKey, Key
<1>4. ValidateTurns' = ValidateTurns /\ Cardinality(Turns("final-repairer"))' = Cardinality(Turns("final-repairer"))
    BY <1>1, TurnsKept DEF ValidateTurns, Key
<1>5. ValidateInv'
    BY <1>1, <1>2, <1>3, <1>4 DEF ValidateInv
<1> QED
    BY <1>1, <1>5, ValidateAnswered DEF Blocks

(* A repair, if there is one left. *)
LEMMA InvokeRepairState ==
    ASSUME StateInv, step = "validate", ValidateInv, tree' = tree,
           st.stage \in {"commands", "review"}, ~Good(FinalCorrection), InvokeRepair
    PROVE  /\ StateInv'
           /\ tr' = Blocked \/ tr'.key \notin Keys
<1>1. st \in ValidateStates
    BY DEF ValidateInv
<1>2. CASE Blocks
    BY <1>2, ValidateBlocks
<1>3. CASE /\ ~(st.repair + 1 > RepairLimit)
           /\ Answers([st EXCEPT !.stage = "repair", !.repair = @ + 1, !.ordinal = @ + 1],
                      AgentRequest("final-repairer", st.ordinal + 1))
    <2>1. /\ st' = [st EXCEPT !.stage = "repair", !.repair = @ + 1, !.ordinal = @ + 1]
          /\ tr' = AgentRequest("final-repairer", st.ordinal + 1)
          /\ step' = step /\ Keys' = Keys /\ results' = results
        BY <1>3, Answered
    <2>2. /\ st.repair \in Nat /\ st.ordinal \in Nat /\ RepairLimit \in Nat
          /\ st.repair + 1 \in 0..RepairLimit /\ st.ordinal + 1 \in Nat
        BY <1>1, <1>3, ValidateFields
    <2>3. /\ st' \in ValidateStates /\ st'.stage = "repair" /\ st'.index = st.index
          /\ st'.repair = st.repair + 1 /\ st'.ordinal = st.ordinal + 1
        BY <1>1, <2>1, <2>2 DEF ValidateStates
    <2>4. ValidateAsks'
        BY <2>1, <2>3 DEF ValidateAsks, AgentRequest, Key, Asks
    <2>5. \A k \in Keys : k.n \in Nat
        BY DEF StateInv, ResultsInv, TypedKey
    <2>6. \A k \in Keys : /\ k.n <= st.ordinal => k.n <= st'.ordinal /\ k.n # st'.ordinal
                          /\ k.n <= st.repair => k.n <= st'.repair /\ k.n # st'.repair
        BY <2>2, <2>3, <2>5
    <2>7. ValidateKeys'
        BY <2>1, <2>3, <2>6 DEF ValidateInv, ValidateKeys
    <2>8. tr'.key.kind = "final-repairer" /\ tr'.key.n = st'.ordinal
        BY <2>1, <2>3 DEF AgentRequest, Transition, Key
    <2>9. tr'.key \notin Keys
        BY <2>6, <2>8 DEF ValidateInv, ValidateKeys
    <2>10. ValidateResults' /\ FinallyCorrected'
        BY <2>1, <2>3 DEF ValidateResults, FinallyCorrected, FinalCorrection, CorrectionKey, Key, Good
    <2>11. Cardinality(Turns("final-repairer"))' <= ValidateTurns'
        <3>1. Key("final-repairer", 0, st.ordinal)' \notin Keys'
            BY <2>1, <2>3, <2>9 DEF AgentRequest, Transition, Key
        <3>2. ValidateTurns = st.repair /\ ValidateTurns' = (st.repair + 1) - 1
            BY <2>3, <3>1 DEF ValidateTurns
        <3>3. Cardinality(Turns("final-repairer")) <= ValidateTurns
            BY DEF ValidateInv
        <3> QED
            BY <2>1, <2>2, <3>2, <3>3, TurnsKept
    <2>12. ValidateInv'
        BY <2>3, <2>4, <2>7, <2>10, <2>11 DEF ValidateInv
    <2> QED
        BY <1>3, <2>9, <2>12, ValidateAnswered
<1> QED
    BY <1>2, <1>3 DEF InvokeRepair

LEMMA CommandValidatedState ==
    ASSUME StateInv, CommandValidated
    PROVE  /\ StateInv'
           /\ tr' = Blocked \/ tr'.key \notin Keys
<1>1. /\ step = "validate" /\ ValidateInv /\ st.stage = "commands" /\ tree' = tree
      /\ st.index < CommandCount /\ tr = ValidationCommand(st) /\ tr.key \in Keys /\ HasResult
    BY Home, ValidatePending DEF StateInv, CommandValidated, elsewhere, HasResult, Keys
<1>4. ~Good(FinalCorrection) /\ ~Corrects("final-reviewer")
    BY <1>1 DEF ValidateInv, FinallyCorrected, Corrects, CorrectionRequest, ValidationCommand,
       RunCommand, Transition
<1>2. CASE InvokeRepair
    BY <1>1, <1>2, <1>4, InvokeRepairState
<1>3. CASE results[tr.key].ok /\ NextCommandOrReview([st EXCEPT !.index = @ + 1])
    <2> DEFINE s == [st EXCEPT !.index = @ + 1]
    <2>1. st \in ValidateStates
        BY <1>1 DEF ValidateInv
    <2>2. st.index \in Nat /\ st.index + 1 \in 0..CommandCount /\ st.ordinal \in Nat
        BY <1>1, <2>1, ValidateFields
    <2>3. /\ s \in ValidateStates /\ s.stage = "commands" /\ s.index = st.index + 1
          /\ s.repair = st.repair /\ s.ordinal = st.ordinal
        BY <1>1, <2>1, <2>2 DEF ValidateStates
    <2>4. NextCommandOrReview(s)
        BY <1>3
    <2> HIDE DEF s
    <2>5. \A k \in Keys : k.id \in Nat /\ k.n \in Nat
        BY DEF StateInv, ResultsInv, TypedKey
    <2>6. \A k \in Keys : k.id <= st.index => k.id < s.index
        BY <2>2, <2>3, <2>5
    <2>7. \A k \in Keys :
              /\ k.kind \in {"command", "final-reviewer", "final-repairer"}
              /\ k.kind = "command" => /\ k.n <= s.repair
                                       /\ k.n = s.repair => k.id < s.index
              /\ k.kind # "command" => k.n <= s.ordinal
              /\ k.kind = "final-reviewer" /\ k.id = 0 => k.n < s.ordinal
        BY <1>1, <2>3, <2>6 DEF ValidateInv, ValidateKeys
    <2>8. Passed(Key("command", st.index, s.repair))
        <3>1. tr.key = Key("command", st.index, s.repair) /\ tr # Blocked
            BY <1>1, <2>3 DEF ValidationCommand, RunCommand, Transition, Blocked
        <3>2. results[tr.key].of = tree.version
            BY <1>1, <1>4, <3>1 DEF ValidateInv, ValidateResults
        <3> QED
            BY <1>1, <1>3, <3>1, <3>2, Passes DEF StateInv
    <2>9. \A i \in 0..st.index - 1 : Passed(Key("command", i, s.repair))
        BY <1>1, <2>3 DEF ValidateInv, ValidateResults, CommandKey
    <2>10. \A i \in 0..s.index - 1 : i = st.index \/ i \in 0..st.index - 1
        BY <2>2, <2>3
    <2>11. \A i \in 0..s.index - 1 : Passed(Key("command", i, s.repair))
        BY <2>8, <2>9, <2>10
    <2>12. Cardinality(Turns("final-repairer")) <= s.repair
        BY <1>1, <2>3 DEF ValidateInv, ValidateTurns
    <2> QED
        BY <1>1, <1>4, <2>3, <2>4, <2>7, <2>11, <2>12, NextValidationState
<1> QED
    BY <1>2, <1>3 DEF CommandValidated

(* A change that completes the step has passed everything as it is.        *)
LEMMA FinallyReviewedState ==
    ASSUME StateInv, FinallyReviewed
    PROVE  /\ StateInv'
           /\ tr' = Blocked \/ tr' = NoTransition \/ tr'.key \notin Keys
           /\ step' # step => /\ \A i \in 0..CommandCount - 1 : Passed(Key("command", i, st.repair))
                              /\ \/ Passed(FinalReviewKey)
                                 \/ Garbled(FinalReviewKey) /\ Passed(FinalCorrection)
<1>1. /\ step = "validate" /\ ValidateInv /\ st.stage = "review" /\ tree' = tree
      /\ st.index = CommandCount /\ Asks("final-reviewer", st.ordinal)
      /\ tr.key \in Keys /\ HasResult
    BY Home, ValidatePending DEF StateInv, FinallyReviewed, Replied, elsewhere, HasResult, Keys
<1>4. /\ ~Corrects("final-reviewer") => tr.key = FinalReviewKey
      /\ Corrects("final-reviewer") => tr.key = FinalCorrection
    BY <1>1 DEF Asks, Corrects, AgentRequest, CorrectionRequest, Transition, FinalReviewKey, FinalCorrection
<1>2. CASE ~results[tr.key].ok /\ InvokeRepair
    <2>1. step' = step
        BY <1>2 DEF InvokeRepair, Blocks, Answers
    <2>2. ~Good(FinalCorrection)
        BY <1>1, <1>2, <1>4 DEF ValidateInv, FinallyCorrected, Good
    <2> QED
        BY <1>1, <1>2, <2>1, <2>2, InvokeRepairState
<1>3. CASE results[tr.key].ok /\ Completes
    <2>1. StateInv' /\ tr' = NoTransition
        BY <1>1, <1>3, CompletedState DEF StateInv, Completes
    <2>2. \A i \in 0..CommandCount - 1 : Passed(Key("command", i, st.repair))
        BY <1>1 DEF ValidateInv, ValidateResults, CommandKey
    <2>3. CASE Corrects("final-reviewer")
        <3>1. Garbled(FinalReviewKey)
            BY <1>1, <2>3 DEF ValidateInv, ValidateResults
        <3>2. Good(FinalCorrection) /\ FinalCorrection \in Keys
            BY <1>1, <1>3, <1>4, <2>3, Passes DEF StateInv
        <3>3. Passed(FinalCorrection)
            BY <1>1, <3>2 DEF ValidateInv, FinallyCorrected, Passed, Current, Keys
        <3> QED
            BY <2>1, <2>2, <3>1, <3>3
    <2>4. CASE ~Corrects("final-reviewer")
        <3>1. results[tr.key].of = tree.version
            BY <1>1, <2>4 DEF ValidateInv, ValidateResults, Replied, Pending, FinallyReviewed,
               Blocked, Transition
        <3> QED
            BY <1>1, <1>3, <1>4, <2>1, <2>2, <2>4, <3>1, Passes DEF StateInv
    <2> QED
        BY <2>3, <2>4
<1> QED
    BY <1>2, <1>3 DEF FinallyReviewed

LEMMA FinallyRepairedState ==
    ASSUME StateInv, FinallyRepaired
    PROVE  StateInv' /\ tr'.key \notin Keys
<1>1. /\ step = "validate" /\ ValidateInv /\ st.stage = "repair" /\ tree' = tree /\ HasResult
      /\ NextCommandOrReview([st EXCEPT !.stage = "commands", !.index = 0, !.ordinal = @ + 1])
    BY Home, ValidatePending DEF StateInv, FinallyRepaired, Replied, elsewhere
<1> DEFINE s == [st EXCEPT !.stage = "commands", !.index = 0, !.ordinal = @ + 1]
<1>2. st \in ValidateStates
    BY <1>1 DEF ValidateInv
<1>3. 0 \in 0..CommandCount /\ st.ordinal \in Nat /\ st.ordinal + 1 \in Nat
    BY <1>2, ValidateFields
<1>4. /\ s \in ValidateStates /\ s.stage = "commands" /\ s.index = 0
      /\ s.repair = st.repair /\ s.ordinal = st.ordinal + 1
    BY <1>2, <1>3 DEF ValidateStates
<1>5. NextCommandOrReview(s)
    BY <1>1
<1> HIDE DEF s
<1>6. \A k \in Keys : k.n \in Nat
    BY DEF StateInv, ResultsInv, TypedKey
<1>7. \A k \in Keys : k.n <= st.ordinal => k.n < s.ordinal /\ k.n <= s.ordinal
    BY <1>3, <1>4, <1>6
<1>8. \A k \in Keys :
          /\ k.kind \in {"command", "final-reviewer", "final-repairer"}
          /\ k.kind = "command" => /\ k.n <= s.repair
                                   /\ k.n = s.repair => k.id < s.index
          /\ k.kind # "command" => k.n <= s.ordinal
          /\ k.kind = "final-reviewer" /\ k.id = 0 => k.n < s.ordinal
    BY <1>1, <1>4, <1>7 DEF ValidateInv, ValidateKeys
<1>9. \A i \in 0..s.index - 1 : Passed(Key("command", i, s.repair))
    BY <1>4
<1>10. Cardinality(Turns("final-repairer")) <= s.repair
    <2>1. Cardinality(Turns("final-repairer")) \in Nat /\ st.repair \in Nat
        BY <1>2, TurnsCounted, ValidateFields DEF StateInv
    <2>2. Cardinality(Turns("final-repairer")) <= ValidateTurns /\ ValidateTurns \in {st.repair - 1, st.repair}
        BY <1>1 DEF ValidateInv, ValidateTurns
    <2> QED
        BY <1>4, <2>1, <2>2
<1>11. ~Good(FinalCorrection)
    BY <1>1 DEF ValidateInv, FinallyCorrected
<1> QED
    BY <1>1, <1>4, <1>5, <1>8, <1>9, <1>10, <1>11, NextValidationState

LEMMA ValidateStoredState ==
    ASSUME StateInv, step = "validate", ValidateInv, ~HasResult,
           NEW role, Pending(role), NEW r \in Storable, Stores(r),
           role = "final-repairer" \/ (tree'.version = tree.version /\ r.of = tree.version)
    PROVE  StateInv'
<1>1. /\ step' = step /\ tr' = tr /\ st' = st /\ Keys' = Keys \cup {tr.key}
      /\ tr.key.kind = role /\ TypedKey(tr.key) /\ ResultsInv'
    BY RequestKey, Stored, StoredResults DEF StateInv
<1>2. results'[tr.key] = r /\ \A k \in Keys : k # tr.key => results'[k] = results[k]
    BY Stored
<1>3. tr.key \notin Keys
    BY DEF HasResult, Keys
<1>4. /\ role \in {"command", "final-reviewer", "final-repairer"}
      /\ role = "command" => st.stage = "commands" /\ tr.key.id = st.index /\ tr.key.n = st.repair
      /\ role = "final-reviewer" => st.stage = "review" /\ tr.key.n <= st.ordinal
      /\ role = "final-repairer" => st.stage = "repair" /\ tr.key.n <= st.ordinal
    <2>1. st.ordinal \in Nat
        BY ValidateFields DEF ValidateInv
    <2>2. role = "command" => st.stage = "commands" /\ tr.key.id = st.index /\ tr.key.n = st.repair
        BY ValidatePending DEF ValidationCommand, RunCommand, Transition, Key
    <2> QED
        BY <2>1, <2>2, ValidatePending, AskedKey
<1>5. ValidateAsks'
    BY <1>1 DEF ValidateInv, ValidateAsks, AgentRequest, RunCommand, ValidationCommand, Key, Asks, CorrectionRequest, CorrectionKey
<1>6. st.index \in Nat /\ st.repair \in Nat /\ st.ordinal \in Nat
    BY ValidateFields DEF ValidateInv
<1>7. ValidateKeys'
    BY <1>1, <1>4, <1>6 DEF ValidateInv, ValidateKeys
<1>8. ValidateResults'
    <2>1. CASE role = "final-repairer"
        BY <1>1, <1>4, <2>1 DEF ValidateResults
    <2>2. CASE role # "final-repairer"
        <3>1. tree'.version = tree.version /\ r.of = tree.version /\ st.stage # "repair"
            BY <1>4, <2>2
        <3>2. \A key \in Keys : /\ Passed(key) => Passed(key)'
                                /\ Garbled(key) => Garbled(key)'
            BY <1>1, <1>2, <1>3, <3>1 DEF Passed, Good, Current, Garbled, Keys
        <3>3. \A i : CommandKey(i)' = CommandKey(i)
            BY <1>1 DEF CommandKey, Key
        <3>4. \A i \in 0..st.index - 1 : Passed(CommandKey(i))'
            <4>1. \A i \in 0..st.index - 1 : Passed(CommandKey(i)) /\ CommandKey(i) \in Keys
                BY <3>1 DEF ValidateInv, ValidateResults, Passed, Good, Keys
            <4> QED
                BY <3>2, <3>3, <4>1
        <3>5. /\ Corrects("final-reviewer")' <=> Corrects("final-reviewer")
              /\ FinalReviewKey' = FinalReviewKey
              /\ Garbled(FinalReviewKey) => FinalReviewKey \in Keys
            BY <1>1 DEF Corrects, CorrectionRequest, CorrectionKey, FinalReviewKey, Garbled, Current, Keys, Key
        <3> QED
            BY <1>1, <1>2, <3>1, <3>2, <3>4, <3>5 DEF ValidateInv, ValidateResults
    <2> QED
        BY <2>1, <2>2
<1>11. FinallyCorrected'
    <2>1. FinalCorrection' = FinalCorrection /\ (Corrects("final-reviewer")' <=> Corrects("final-reviewer"))
        BY <1>1 DEF FinalCorrection, Corrects, CorrectionRequest, CorrectionKey, Key
    <2>2. Corrects("final-reviewer") => tr.key = FinalCorrection
        BY DEF Corrects, CorrectionRequest, FinalCorrection, Transition
    <2>3. ~Good(FinalCorrection)
        BY <1>3, <2>2 DEF ValidateInv, FinallyCorrected, Good, Keys
    <2>4. CASE tr.key = FinalCorrection
        <3>1. role = "final-reviewer" /\ st.stage = "review"
            BY <1>1, <1>4, <2>4 DEF FinalCorrection, CorrectionKey, Key
        <3>2. Corrects("final-reviewer")
            BY <2>4, <3>1, ValidatePending
               DEF Asks, Corrects, FinalCorrection, CorrectionKey, AgentRequest, Transition, Key
        <3> QED
            BY <1>1, <1>2, <2>1, <2>4, <3>1, <3>2 DEF FinallyCorrected
    <2>5. CASE tr.key # FinalCorrection
        BY <1>1, <1>2, <2>1, <2>3, <2>5 DEF FinallyCorrected, Good, Keys
    <2> QED
        BY <2>4, <2>5
<1>9. Cardinality(Turns("final-repairer"))' <= ValidateTurns'
    <2>1. Cardinality(Turns("final-repairer")) \in Nat /\ Cardinality(Turns("final-repairer")) <= ValidateTurns
        BY TurnsCounted DEF StateInv, ValidateInv
    <2>2. /\ role # "final-repairer" \/ tr.key.id # 0 => Cardinality(Turns("final-repairer"))' = Cardinality(Turns("final-repairer"))
          /\ Cardinality(Turns("final-repairer"))' <= Cardinality(Turns("final-repairer")) + 1
        BY <1>1, TurnsGrow DEF StateInv
    <2>3. /\ Key("final-repairer", 0, st.ordinal)' = Key("final-repairer", 0, st.ordinal)
          /\ role = "final-repairer" /\ tr.key.id = 0 => tr.key = Key("final-repairer", 0, st.ordinal)
          /\ role # "final-repairer" \/ tr.key.id # 0 => tr.key # Key("final-repairer", 0, st.ordinal)
        BY <1>1, <1>6, ValidatePending, AskedKey DEF Key
    <2>4. role = "final-repairer" /\ tr.key.id = 0 =>
              ValidateTurns = st.repair - 1 /\ ValidateTurns' = st.repair
        BY <1>1, <1>3, <1>4, <2>3 DEF ValidateTurns
    <2>5. /\ role # "final-repairer" \/ tr.key.id # 0 => ValidateTurns' = ValidateTurns
          /\ ValidateTurns \in {st.repair - 1, st.repair}
        BY <1>1, <2>3 DEF ValidateTurns
    <2>6. Cardinality(Turns("final-repairer"))' \in Nat
        <3>1. IsFiniteSet(Turns("final-repairer")')
            BY <1>1, FS_Subset DEF ResultsInv, Turns
        <3> QED
            BY <3>1, FS_CardinalityType
    <2> QED
        BY <1>6, <2>1, <2>2, <2>4, <2>5, <2>6
<1>10. ValidateInv'
    BY <1>1, <1>5, <1>7, <1>8, <1>9, <1>11 DEF ValidateInv
<1> QED
    BY <1>1, <1>10 DEF StateInv, StepsInv

LEMMA ValidateWrittenState ==
    ASSUME StateInv, step = "validate", ValidateInv, Pending("final-repairer"), UNCHANGED contractVars
    PROVE  StateInv'
<1>1. /\ step' = step /\ tr' = tr /\ st' = st /\ results' = results /\ Keys' = Keys
    BY DEF contractVars, Keys
<1>2. st.stage = "repair"
    BY ValidatePending
<1>3. ValidateAsks' /\ ValidateKeys'
    BY <1>1 DEF ValidateInv, ValidateAsks, ValidateKeys, AgentRequest, RunCommand,
        ValidationCommand, Key, Asks, CorrectionRequest, CorrectionKey
<1>4. ValidateResults' /\ FinallyCorrected'
    BY <1>1, <1>2 DEF ValidateInv, ValidateResults, FinallyCorrected, FinalCorrection, CorrectionKey, Key, Good
<1>5. Turns("final-repairer")' = Turns("final-repairer") /\ ValidateTurns' = ValidateTurns
    BY <1>1 DEF Turns, ValidateTurns, Key
<1>6. ValidateInv'
    BY <1>1, <1>3, <1>4, <1>5 DEF ValidateInv
<1>7. ResultsInv'
    BY <1>1, AnsweredResults DEF StateInv
<1> QED
    BY <1>1, <1>6, <1>7 DEF StateInv, StepsInv

-------------------------------------------------------------------------------
(* Publishing. *)

LEMMA PublishAnswered ==
    ASSUME StateInv, step = "publish", NEW s, NEW t, Answers(s, t), PublishInv'
    PROVE  StateInv'
    BY Answered DEF StateInv, StepsInv

LEMMA StartPublishState ==
    ASSUME StateInv, StartPublish
    PROVE  StateInv' /\ tr'.key \notin Keys
<1>1. /\ step = "publish" /\ Idle /\ Keys = {}
      /\ Answers([stage |-> "draft", ordinal |-> 0], AgentRequest("publication-writer", 0))
    BY Started DEF StartPublish
<1>2. /\ st' = [stage |-> "draft", ordinal |-> 0] /\ tr' = AgentRequest("publication-writer", 0)'
      /\ Keys' = {}
    BY <1>1, Answered DEF AgentRequest, Key
<1>3. PublishInv'
    BY <1>2 DEF PublishInv, Asks
<1> QED
    BY <1>1, <1>3, PublishAnswered

LEMMA DraftedState ==
    ASSUME StateInv, Drafted
    PROVE  StateInv' /\ tr' = AwaitUser
<1>1. step = "publish" /\ PublishInv /\ st.stage = "draft" /\ Answers([st EXCEPT !.stage = "gate"], AwaitUser)
    BY Home, PublishPending DEF StateInv, Drafted, Replied
<1>2. st' = [st EXCEPT !.stage = "gate"] /\ tr' = AwaitUser /\ Keys' = Keys
    BY <1>1, Answered
<1>3. PublishInv'
    BY <1>1, <1>2 DEF PublishInv
<1> QED
    BY <1>1, <1>2, <1>3, PublishAnswered

LEMMA ApprovePublicationState ==
    ASSUME StateInv, ApprovePublication
    PROVE  /\ StateInv'
           /\ tr' = Blocked \/ tr'.key \notin Keys
<1>1. step = "publish" /\ tr.type = "await-user" /\ st.stage = "gate" /\ ~Idle
    BY DEF ApprovePublication, Awaits, Idle, NoTransition, Transition
<1>2. PublishInv
    BY <1>1 DEF StateInv, StepsInv
<1>3. CASE Blocks
    <2>1. st' = st /\ tr' = Blocked /\ Keys' = Keys
        BY <1>3, Answered DEF Blocks
    <2>2. PublishInv'
        BY <1>1, <1>2, <2>1 DEF PublishInv
    <2> QED
        BY <1>1, <1>3, <2>1, <2>2, PublishAnswered DEF Blocks
<1>4. CASE Answers([st EXCEPT !.stage = "publish"], RunCommand("git", 0, 0))
    <2>1. /\ st' = [st EXCEPT !.stage = "publish"] /\ tr' = RunCommand("git", 0, 0)
          /\ Keys' = Keys /\ step' = step
        BY <1>4, Answered
    <2>2. tr' = RunCommand("git", 0, 0)'
        BY <2>1 DEF RunCommand, Key
    <2>3. PublishInv'
        BY <1>1, <1>2, <2>1, <2>2 DEF PublishInv
    <2>4. tr'.key.kind = "git"
        BY <2>1 DEF RunCommand, Transition, Key
    <2>5. tr'.key \notin Keys
        BY <1>1, <1>2, <2>4 DEF PublishInv
    <2> QED
        BY <1>1, <1>4, <2>3, <2>5, PublishAnswered
<1> QED
    BY <1>3, <1>4 DEF ApprovePublication

LEMMA PublishStoredState ==
    ASSUME StateInv, step = "publish", PublishInv,
           NEW role, Pending(role), NEW r \in Storable, Stores(r)
    PROVE  StateInv'
<1>1. /\ step' = step /\ tr' = tr /\ st' = st /\ Keys' = Keys \cup {tr.key}
      /\ tr.key.kind = role /\ ResultsInv'
    BY RequestKey, Stored, StoredResults DEF StateInv
<1>2. role = "publication-writer" \/ (role = "git" /\ st.stage = "publish")
    BY PublishPending
<1>3. PublishInv'
    BY <1>1, <1>2 DEF PublishInv, AgentRequest, RunCommand, Key, Asks, CorrectionRequest, CorrectionKey
<1> QED
    BY <1>1, <1>3 DEF StateInv, StepsInv

LEMMA PublishedState ==
    ASSUME StateInv, Published
    PROVE  StateInv' /\ tr' = NoTransition /\ step = "publish"
<1>1. step = "publish" /\ Completes
    BY Home DEF StateInv, Published
<1> QED
    BY <1>1, CompletedState DEF StateInv, Completes

-------------------------------------------------------------------------------
(* The calls of the last three steps. *)

LEMMA WritingTurnState ==
    ASSUME StateInv, SharedInv, WritingTurn
    PROVE  StateInv' /\ step \in {"implement", "validate"}
<1>1. PICK role \in {"implementer", "final-repairer"} : Pending(role)
    BY DEF WritingTurn
<1>2. \/ step = "implement" /\ ImplementInv /\ role = "implementer"
      \/ step = "validate" /\ ValidateInv /\ role = "final-repairer"
    BY <1>1, Home DEF StateInv
<1>4. HeadGoesOn
    BY DEF WritingTurn, SharedInv, HeadGoesOn
<1>5. ASSUME NEW r \in Storable, Stores(r) PROVE StateInv'
    <2>1. ~HasResult
        BY DEF WritingTurn
    <2> QED
        BY <1>1, <1>2, <1>4, <1>5, <2>1, ImplementStoredState, ValidateStoredState
<1>6. Result(TRUE, tree.version + 1) \in Storable /\ Invalid(tree.version + 1) \in Storable
    <2>1. tree.version + 1 \in Nat
        BY DEF SharedInv
    <2> QED
        BY <2>1, Outcomes
<1>7. StateInv'
    BY <1>1, <1>2, <1>4, <1>5, <1>6, ImplementWrittenState, ValidateWrittenState DEF WritingTurn
<1> QED
    BY <1>2, <1>7

LEMMA ReadingCallState ==
    ASSUME StateInv, SharedInv, ReadingCall
    PROVE  StateInv'
<1>1. PICK role \in {"task-slicer", "task-reviewer", "final-reviewer", "publication-writer",
                     "verify", "command"} : Pending(role)
    BY DEF ReadingCall
<1>2. \/ step = "implement" /\ ImplementInv
      \/ step = "validate" /\ ValidateInv
      \/ step = "publish" /\ PublishInv
    BY <1>1, Home DEF StateInv
<1>3. PICK r \in Storable : Stores(r) /\ r.of = tree.version
    <2>1. tree.version \in Nat
        BY DEF SharedInv
    <2> QED
        BY <2>1, Outcomes DEF ReadingCall
<1>4. ~HasResult /\ tree' = tree
    BY DEF ReadingCall, elsewhere
<1>5. HeadGoesOn
    BY <1>4 DEF HeadGoesOn
<1> QED
    BY <1>1, <1>2, <1>3, <1>4, <1>5, ImplementStoredState, ValidateStoredState, PublishStoredState

LEMMA CommitState ==
    ASSUME StateInv, SharedInv, Commit
    PROVE  StateInv' /\ step = "implement"
<1>1. step = "implement" /\ ImplementInv /\ Pending("commit") /\ ~HasResult
    BY Home DEF StateInv, Commit
<1>2. tree'.version = tree.version /\ Clean'
    BY DEF Commit, SharedInv, Clean
<1>5. HeadGoesOn
    BY DEF Commit, SharedInv, HeadGoesOn
<1>3. CASE UNCHANGED contractVars
    BY <1>1, <1>2, <1>3, <1>5, SameState DEF Commit
<1>4. CASE Stores(Result(TRUE, tree.version))
    <2>1. PICK r \in Storable : Stores(r) /\ r.of = tree.version
        BY <1>4, Outcomes DEF SharedInv
    <2> QED
        BY <1>1, <1>2, <1>5, <2>1, ImplementStoredState
<1> QED
    BY <1>1, <1>3, <1>4 DEF Commit

LEMMA PublishingState ==
    ASSUME StateInv, SharedInv, Push \/ OpenPullRequest \/ DestroyContainer
    PROVE  StateInv' /\ step = "publish" /\ step' = step
<1>1. step = "publish" /\ PublishInv /\ Pending("git") /\ tree' = tree
    BY Home DEF StateInv, Push, OpenPullRequest, DestroyContainer, Publishes
<1>2. CASE UNCHANGED contractVars
    <2>1. container' = container \/ container'.by # "build"
        <3>1. Push \/ OpenPullRequest => container' = container
            BY DEF Push, OpenPullRequest
        <3>2. DestroyContainer => container' = NoContainer
            BY Zenon DEF DestroyContainer
        <3> QED
            BY <3>1, <3>2 DEF NoContainer
    <2> QED
        BY <1>1, <1>2, <2>1, SameState DEF contractVars, Clean, HeadGoesOn
<1>3. CASE Stores(Result(TRUE, tree.head))
    <2>1. Result(TRUE, tree.head) \in Storable
        BY Outcomes DEF SharedInv
    <2> QED
        BY <1>1, <1>3, <2>1, PublishStoredState, Stored
<1> QED
    BY <1>1, <1>2, <1>3 DEF Push, OpenPullRequest, DestroyContainer

LEMMA DeliveryStep ==
    ASSUME StateInv, SharedInv, DeliveryNext
    PROVE  StateInv'
    BY WritingTurnState, ReadingCallState, CommitState, StartImplementState, SlicedState,
       ImplementedState, VerifiedState, ReviewedState, CommittedState, StartValidateState,
       CommandValidatedState, FinallyReviewedState, FinallyRepairedState, StartPublishState,
       DraftedState, ApprovePublicationState, PublishingState, PublishedState DEF DeliveryNext

-------------------------------------------------------------------------------
(* Corrections: the step stays as it is.  A review that is invalid is of   *)
(* the worktree as it is when its correction is asked for.                 *)

LEMMA CorrectionAsked ==
    ASSUME StateInv, ScheduleCorrection
    PROVE  /\ Pending(tr.key.kind) /\ tr.type = "invoke-agent" /\ tr.key \in Keys
           /\ ~results[tr.key].valid /\ ~Good(tr.key)
           /\ step' = step /\ st' = st /\ Keys' = Keys /\ results' = results
           /\ \/ Corrects(tr.key.kind) /\ Blocks /\ tr' = Blocked
              \/ /\ ~Corrects(tr.key.kind) /\ tr' = CorrectionRequest(tr.key.kind)
                 /\ Answers(st, CorrectionRequest(tr.key.kind))
<1>1. /\ Pending(tr.key.kind) /\ tr.type = "invoke-agent" /\ tr.key \in Keys
      /\ ~results[tr.key].valid /\ ~Good(tr.key)
    BY DEF ScheduleCorrection, Pending, HasResult, Keys, Good
<1>2. \/ Corrects(tr.key.kind) /\ Blocks
      \/ ~Corrects(tr.key.kind) /\ Answers(st, CorrectionRequest(tr.key.kind))
    BY DEF ScheduleCorrection, Corrects
<1> QED
    BY <1>1, <1>2, Answered DEF Blocks

LEMMA ImplementCorrected ==
    ASSUME StateInv, step = "implement", ImplementInv, ScheduleCorrection, tree' = tree
    PROVE  StateInv'
<1>1. /\ tr.type = "invoke-agent" /\ tr.key \in Keys /\ HasResult
      /\ ~results[tr.key].valid /\ ~Good(tr.key)
      /\ step' = step /\ st' = st /\ Keys' = Keys /\ results' = results
    BY CorrectionAsked DEF HasResult, Keys
<1>2. \/ tr.key.kind = "task-slicer" /\ st.stage = "slice"
      \/ tr.key.kind = "implementer" /\ st.stage = "implement"
      \/ tr.key.kind = "task-reviewer" /\ st.stage = "review" /\ Asks("task-reviewer", st.ordinal)
    BY <1>1, CorrectionAsked, ImplementPending DEF Verification, RunCommand, Transition
<1>3. \A role : Corrects(role) => tr.key = CorrectionKey(role) /\ tr.key.kind = role
    BY DEF Corrects, CorrectionRequest, CorrectionKey, Transition, Key
<1>4. CASE Blocks
    BY <1>1, <1>2, <1>3, <1>4, ImplementBlocks DEF TaskCorrection
<1>5. CASE /\ ~Corrects(tr.key.kind) /\ tr' = CorrectionRequest(tr.key.kind)
           /\ Answers(st, CorrectionRequest(tr.key.kind))
    <2>1. ImplementAsks'
        BY <1>1, <1>2, <1>5 DEF ImplementAsks, Asks, CorrectionRequest, CorrectionKey, Key
    <2>2. ImplementKeys' /\ ImplementDone' /\ NewTask' = NewTask
        BY <1>1 DEF ImplementInv, ImplementKeys, ImplementDone, NewTask, Task, Key
    <2>3. /\ VerifyKey' = VerifyKey /\ ReviewKey' = ReviewKey /\ TaskCorrection' = TaskCorrection
          /\ \A key : /\ Passed(key)' <=> Passed(key)
                      /\ Good(key)' <=> Good(key)
                      /\ Garbled(key)' <=> Garbled(key)
        BY <1>1 DEF VerifyKey, ReviewKey, TaskCorrection, CorrectionKey, Task, Key, Passed, Good, Current, Garbled
    <2>4. ImplementResults' /\ ApprovedByCorrection'
        <3>1. CASE st.stage = "review"
            <4>1. /\ ~Corrects("task-reviewer") /\ Corrects("task-reviewer")'
                  /\ tr.key = ReviewKey /\ tr # Blocked
                BY <1>1, <1>2, <1>5, <3>1
                   DEF Asks, Corrects, AgentRequest, CorrectionRequest, CorrectionKey, Blocked, Transition, ReviewKey, Key
            <4>2. NewTask => Garbled(ReviewKey)
                BY <1>1, <3>1, <4>1 DEF ImplementInv, ImplementResults, Garbled, Current, Keys
            <4> QED
                BY <1>1, <2>2, <2>3, <3>1, <4>1, <4>2 DEF ImplementInv, ImplementResults, ApprovedByCorrection
        <3>2. CASE st.stage \in {"slice", "implement"}
            BY <1>1, <2>2, <2>3, <3>2 DEF ImplementInv, ImplementResults, ApprovedByCorrection
        <3> QED
            BY <1>2, <3>1, <3>2
    <2>6. ImplementTurns' = ImplementTurns
        BY <1>1 DEF ImplementTurns, Key
    <2>7. ImplementInv'
        BY <1>1, <2>1, <2>2, <2>4, <2>6, TurnsKept DEF ImplementInv
    <2> QED
        BY <1>5, <2>7, ImplementAnswered
<1> QED
    BY <1>4, <1>5, CorrectionAsked

LEMMA ValidateCorrected ==
    ASSUME StateInv, step = "validate", ValidateInv, ScheduleCorrection, tree' = tree
    PROVE  StateInv'
<1>1. /\ tr.type = "invoke-agent" /\ tr.key \in Keys /\ HasResult
      /\ ~results[tr.key].valid /\ ~Good(tr.key)
      /\ step' = step /\ st' = st /\ Keys' = Keys /\ results' = results
    BY CorrectionAsked DEF HasResult, Keys
<1>2. \/ tr.key.kind = "final-repairer" /\ st.stage = "repair"
      \/ tr.key.kind = "final-reviewer" /\ st.stage = "review" /\ Asks("final-reviewer", st.ordinal)
         /\ st.index = CommandCount
    BY <1>1, CorrectionAsked, ValidatePending DEF ValidationCommand, RunCommand, Transition
<1>3. \A role : Corrects(role) => tr.key = CorrectionKey(role) /\ tr.key.kind = role
    BY DEF Corrects, CorrectionRequest, CorrectionKey, Transition, Key
<1>4. ~Good(FinalCorrection)
    BY <1>1, <1>3 DEF ValidateInv, FinallyCorrected, FinalCorrection
<1>5. CASE Blocks
    BY <1>4, <1>5, ValidateBlocks
<1>6. CASE /\ ~Corrects(tr.key.kind) /\ tr' = CorrectionRequest(tr.key.kind)
           /\ Answers(st, CorrectionRequest(tr.key.kind))
    <2>1. ValidateAsks' /\ ValidateKeys'
        BY <1>1, <1>2, <1>6 DEF ValidateInv, ValidateAsks, ValidateKeys, Asks, CorrectionRequest, CorrectionKey, Key
    <2>2. /\ FinalReviewKey' = FinalReviewKey /\ FinalCorrection' = FinalCorrection
          /\ \A i : CommandKey(i)' = CommandKey(i)
          /\ \A key : /\ Passed(key)' <=> Passed(key)
                      /\ Good(key)' <=> Good(key)
                      /\ Garbled(key)' <=> Garbled(key)
        BY <1>1 DEF FinalReviewKey, FinalCorrection, CorrectionKey, CommandKey, Key, Passed, Good, Current, Garbled
    <2>3. FinallyCorrected'
        BY <1>4, <2>2 DEF FinallyCorrected
    <2>4. ValidateResults'
        <3>1. CASE st.stage = "review"
            <4>1. /\ ~Corrects("final-reviewer") /\ Corrects("final-reviewer")'
                  /\ tr.key = FinalReviewKey /\ tr # Blocked
                BY <1>1, <1>2, <1>6, <3>1
                   DEF Asks, Corrects, AgentRequest, CorrectionRequest, CorrectionKey, Blocked, Transition, FinalReviewKey, Key
            <4>2. Garbled(FinalReviewKey)
                BY <1>1, <3>1, <4>1 DEF ValidateInv, ValidateResults, Garbled, Current, Keys
            <4> QED
                BY <1>1, <2>2, <3>1, <4>1, <4>2 DEF ValidateInv, ValidateResults
        <3>2. CASE st.stage = "repair"
            BY <1>1, <3>2 DEF ValidateResults
        <3> QED
            BY <1>2, <3>1, <3>2
    <2>6. ValidateTurns' = ValidateTurns
        BY <1>1 DEF ValidateTurns, Key
    <2>7. ValidateInv'
        BY <1>1, <2>1, <2>3, <2>4, <2>6, TurnsKept DEF ValidateInv
    <2> QED
        BY <1>6, <2>7, ValidateAnswered
<1> QED
    BY <1>5, <1>6, CorrectionAsked

LEMMA ProvisionCorrected ==
    ASSUME StateInv, step = "provision-environment", ProvisionInv, ScheduleCorrection,
           container' = container
    PROVE  StateInv'
<1>1. /\ step' = step /\ st' = st /\ Keys' = Keys /\ results' = results
      /\ tr.key.kind = "environment-planner" /\ st.stage = "plan"
    BY CorrectionAsked, ProvisionPending DEF RunCommand, Transition
<1>2. CASE Blocks
    BY <1>1, <1>2, ProvisionBlocks
<1>3. CASE tr' = CorrectionRequest(tr.key.kind) /\ Answers(st, CorrectionRequest(tr.key.kind))
    <2>1. ProvisionAsks'
        BY <1>1, <1>3 DEF ProvisionAsks, Asks, CorrectionRequest, CorrectionKey, Key
    <2>2. OneSpec'
        BY <1>1, SameResults DEF ProvisionInv, OneSpec
    <2>3. ProvisionInv'
        BY <1>1, <2>1, <2>2, SameResults DEF ProvisionInv, ProvisionKeys, ProvisionPhase, Phase
    <2> QED
        BY <1>3, <2>3, ProvisionAnswered
<1> QED
    BY <1>2, <1>3, CorrectionAsked

LEMMA ScheduleCorrectionState ==
    ASSUME StateInv, ScheduleCorrection, UNCHANGED elsewhere
    PROVE  StateInv'
<1>1. /\ step' = step /\ st' = st /\ Keys' = Keys /\ results' = results
      /\ tr' = Blocked \/ tr' = CorrectionRequest(tr.key.kind)
      /\ Pending(tr.key.kind)
    BY CorrectionAsked
<1>2. ResultsInv' /\ container' = container /\ tree' = tree
    BY <1>1, AnsweredResults DEF StateInv, elsewhere
<1>3. CASE Idle
    BY <1>1, <1>3, IdleAsks
<1>4. CASE step = "clarify" /\ ClarifyInv
    <2>1. \/ tr.key.kind = "reflector" /\ st.stage = "reflect"
          \/ tr.key.kind = "griller" /\ st.stage = "grill"
        BY <1>1, <1>4, ClarifyPending
    <2>2. ClarifyAsks'
        BY <1>1, <2>1 DEF ClarifyAsks, Asks, CorrectionRequest, CorrectionKey, Key
    <2>3. st # NoState
        BY <2>1 DEF NoState
    <2>4. ClarifyInv'
        BY <1>1, <1>4, <2>2, <2>3 DEF ClarifyInv, TalkState
    <2> QED
        BY <1>1, <1>2, <1>4, <2>4 DEF StateInv, StepsInv
<1>5. CASE step = "specify" /\ SpecifyInv
    <2>1. SpecifyInv'
        BY <1>1, <1>5, SpecifyPending DEF SpecifyInv, SpecifyAsks, TalkState, Asks,
           CorrectionRequest, CorrectionKey, Key
    <2> QED
        BY <1>1, <1>2, <1>5, <2>1 DEF StateInv, StepsInv
<1>6. CASE step = "publish" /\ PublishInv
    <2>1. tr.key.kind = "publication-writer" /\ st.stage = "draft"
        BY <1>6, CorrectionAsked, PublishPending DEF RunCommand, Transition
    <2>2. PublishInv'
        BY <1>1, <1>6, <2>1 DEF PublishInv, Asks, CorrectionRequest, CorrectionKey, Key
    <2> QED
        BY <1>1, <1>2, <1>6, <2>2 DEF StateInv, StepsInv
<1> QED
    BY <1>2, <1>3, <1>4, <1>5, <1>6, ProvisionCorrected, ImplementCorrected, ValidateCorrected
       DEF StateInv, StepsInv

LEMMA StateStep ==
    ASSUME StateInv, SharedInv, ProgressInv, Next
    PROVE  StateInv'
    BY ScheduleCorrectionState, DialogueState, ProvisionStep, DeliveryStep DEF Next

-------------------------------------------------------------------------------
(* What the steps share: where it changes, and when a step ends. *)

LEMMA CorrectionWhere ==
    ASSUME ScheduleCorrection
    PROVE  /\ step' = step /\ tr'.type \in {"blocked", "invoke-agent"} /\ ~Idle'
           /\ tr' = Blocked \/ tr' = CorrectionRequest(tr.key.kind)
<1>1. step' = step /\ (tr' = Blocked \/ tr' = CorrectionRequest(tr.key.kind))
    BY DEF ScheduleCorrection, Blocks, Answers
<1>2. tr'.type \in {"blocked", "invoke-agent"}
    BY <1>1 DEF Blocked, CorrectionRequest, Transition
<1> QED
    BY <1>1, <1>2 DEF Idle, NoTransition, Transition

LEMMA DialogueWhere ==
    ASSUME StateInv, DialogueNext
    PROVE  step \in {"clarify", "specify"} /\ step' \in {"clarify", "specify", "provision-environment"}
<1>1. step \in {"clarify", "specify"}
    BY Home DEF StateInv, DialogueNext, StartClarify, DialogueTurn, AgentTurn, Reflected, Replied,
        ConfirmBrief, Grilled,
       AnswerQuestions, StartSpecify, Specified, DecideSpecification, Starts
<1>2. step' = step \/ step' = NextStep
    <2>1. DialogueTurn => step' = step
        BY DEF DialogueTurn, AgentTurn, Stores
    <2> QED
        BY <2>1 DEF DialogueNext, StartClarify, Reflected, ConfirmBrief, Grilled,
            AnswerQuestions, StartSpecify,
           Specified, DecideSpecification, Answers, Blocks, Completes
<1> QED
    BY <1>1, <1>2, NextSteps

LEMMA BuildWhere ==
    ASSUME NEW spec, NEW s, Build(spec, s)
    PROVE  step' = step /\ ~Idle'
    BY DEF Build, Answers, RunCommand, Transition, Idle, NoTransition

LEMMA NextCommandWhere ==
    ASSUME step = "provision-environment", NEW s, NextEnvironmentCommand(s)
    PROVE  \/ step' = step /\ ~Idle' /\ ready' = ready
           \/ step' = "implement"
<1> DEFINE now == IF s.stage = "setup" /\ SetupDone(s)
                  THEN [s EXCEPT !.stage = "health", !.index = 0] ELSE s
<1>1. \/ Answers(now, RunCommand(now.stage, 0, now.index)) /\ ready' = ready
      \/ Completes
    BY DEF NextEnvironmentCommand
<1> HIDE DEF now
<1>2. ASSUME Answers(now, RunCommand(now.stage, 0, now.index)) PROVE step' = step /\ ~Idle'
    BY <1>2 DEF Answers, RunCommand, Transition, Idle, NoTransition
<1> QED
    BY <1>1, <1>2, NextSteps DEF Completes

(* Provisioning starts once, and is ready when it ends. *)
LEMMA ProvisionWhere ==
    ASSUME StateInv, ProvisionNext
    PROVE  \/ ContainerLost
           \/ EnsureContainer
           \/ step = "provision-environment" /\ step' = step /\ ~Idle' /\ ready' = ready
           \/ step = "provision-environment" /\ step' = "implement"
<1> USE DEF Answers, Blocks, AgentRequest, AwaitUser, Blocked, Transition, Idle, NoTransition
<1>1. CASE StartProvision
    BY <1>1, BuildWhere DEF StartProvision, Starts
<1>2. CASE PlannerTurn \/ BuildEnvironment \/ EnvironmentCommand
    <2>1. step = "provision-environment" /\ ProvisionInv
        BY <1>2, Home DEF StateInv, PlannerTurn, AgentTurn, BuildEnvironment, EnvironmentCommand
    <2>2. step' = step /\ tr' = tr /\ ready' = ready
        BY <1>2 DEF PlannerTurn, AgentTurn, BuildEnvironment, EnvironmentCommand, Stores, contractVars
    <2>3. tr.type # "none"
        BY <2>1, ProvisionPending
    <2> QED
        BY <2>1, <2>2, <2>3
<1>3. CASE Planned
    <2>1. step = "provision-environment" /\ ready' = ready
        BY <1>3, Home DEF StateInv, Planned, Replied
    <2>2. Build(results[tr.key].of, st) \/ Blocks
        BY <1>3 DEF Planned
    <2> QED
        BY <2>1, <2>2, BuildWhere
<1>4. CASE EnvironmentCommandDone
    <2>1. step = "provision-environment"
        BY <1>4, Home DEF StateInv, EnvironmentCommandDone
    <2>2. \/ Answers([st EXCEPT !.stage = "environment-gate", !.retryStage = st.stage], AwaitUser) /\ ready' = ready
          \/ NextEnvironmentCommand([st EXCEPT !.stage = "setup", !.index = 0, !.image = results[tr.key].of])
          \/ NextEnvironmentCommand([st EXCEPT !.index = @ + 1])
        BY <1>4 DEF EnvironmentCommandDone
    <2> QED
        BY <2>1, <2>2, NextCommandWhere
<1>5. CASE RetryEnvironment
    <2>1. step = "provision-environment"
        BY <1>5 DEF StateInv, StepsInv, ClarifyInv, SpecifyInv, TalkState, ImplementInv,
            ImplementStates,
           ValidateInv, ValidateStates, PublishInv, Awaits, RetryEnvironment
    <2>2. \/ NextEnvironmentCommand([st EXCEPT !.stage = st.retryStage])
          \/ Build(st.spec, st) /\ ready' = ready
        BY <1>5 DEF RetryEnvironment
    <2> QED
        BY <2>1, <2>2, NextCommandWhere, BuildWhere
<1>6. CASE ReviseEnvironment
    <2>1. step = "provision-environment"
        BY <1>6 DEF StateInv, StepsInv, ClarifyInv, SpecifyInv, TalkState, ImplementInv,
            ImplementStates,
           ValidateInv, ValidateStates, PublishInv, Awaits, ReviseEnvironment
    <2> QED
        BY <1>6, <2>1 DEF ReviseEnvironment
<1> QED
    BY <1>1, <1>2, <1>3, <1>4, <1>5, <1>6 DEF ProvisionNext

LEMMA SlicedWhere ==
    ASSUME Sliced
    PROVE  /\ Pending("task-slicer") /\ step' = step /\ tr'.type \in {"blocked", "invoke-agent"}
           /\ UNCHANGED elsewhere
<1>1. Pending("task-slicer") /\ UNCHANGED elsewhere
    BY Zenon DEF Sliced, Replied
<1>2. \/ Blocks
      \/ \E s : InvokeImplementer(s)
    BY Zenon DEF Sliced
<1> QED
    BY <1>1, <1>2 DEF Blocks, InvokeImplementer, Answers, Blocked, AgentRequest, Transition

LEMMA DeliveryWhere ==
    ASSUME StateInv, SharedInv, DeliveryNext
    PROVE  /\ step \in {"implement", "validate", "publish"}
           /\ step' = step \/ step' = NextStep
           /\ step' # step /\ step = "validate" => FinallyReviewed
           /\ container' = container \/ container' = NoContainer
           /\ ready' = ready
           /\ step \in {"implement", "validate"} => remote' = remote
           /\ step = "publish" => tree' = tree
<1>1. CASE WritingTurn \/ Commit
    <2>1. step \in {"implement", "validate"}
        BY <1>1, WritingTurnState, CommitState
    <2>2. step' = step
        BY <1>1 DEF WritingTurn, Commit, Stores, contractVars
    <2> QED
        BY <1>1, <2>1, <2>2 DEF WritingTurn, Commit
<1>2. CASE ReadingCall
    BY <1>2, Home DEF StateInv, ReadingCall, Stores, elsewhere
<1>3. CASE StartImplement \/ Sliced \/ Implemented \/ Verified \/ Reviewed \/ Committed
    <2>1. step = "implement"
        BY <1>3, Home, SlicedWhere DEF StateInv, StartImplement, Replied, Implemented, Verified, Reviewed,
            Committed, Starts
    <2>2. step' = step \/ step' = NextStep
        BY <1>3, SlicedWhere DEF StartImplement, Implemented, Verified, Reviewed, Committed, RepairTask,
           InvokeImplementer, Answers, Blocks, Completes
    <2>3. UNCHANGED elsewhere
        BY <1>3, SlicedWhere DEF StartImplement, Implemented, Verified, Reviewed, Committed
    <2> QED
        BY <2>1, <2>2, <2>3 DEF elsewhere
<1>4. CASE StartValidate \/ CommandValidated \/ FinallyRepaired
    <2>1. step = "validate"
        BY <1>4, Home DEF StateInv, StartValidate, CommandValidated, FinallyRepaired, Replied, Starts
    <2>2. ASSUME NEW s, NextCommandOrReview(s) PROVE step' = step
        BY <2>2 DEF NextCommandOrReview, Answers
    <2>3. InvokeRepair => step' = step
        BY DEF InvokeRepair, Answers, Blocks
    <2>4. step' = step
        BY <1>4, <2>2, <2>3 DEF StartValidate, CommandValidated, FinallyRepaired
    <2>5. UNCHANGED elsewhere
        BY <1>4 DEF StartValidate, CommandValidated, FinallyRepaired
    <2> QED
        BY <2>1, <2>4, <2>5 DEF elsewhere
<1>5. CASE FinallyReviewed
    <2>1. step = "validate"
        BY <1>5, Home DEF StateInv, FinallyReviewed, Replied
    <2>2. step' = step \/ step' = NextStep
        BY <1>5 DEF FinallyReviewed, InvokeRepair, Answers, Blocks, Completes
    <2> QED
        BY <1>5, <2>1, <2>2 DEF FinallyReviewed, elsewhere
<1>6. CASE StartPublish \/ Drafted \/ ApprovePublication \/ Published
    <2>1. step = "publish"
        BY <1>6, Home DEF StateInv, StartPublish, Drafted, Replied, ApprovePublication, Published, Starts
    <2>2. step' = step \/ step' = NextStep
        BY <1>6 DEF StartPublish, Drafted, ApprovePublication, Published, Answers, Blocks, Completes
    <2>3. UNCHANGED elsewhere
        BY <1>6 DEF StartPublish, Drafted, ApprovePublication, Published
    <2> QED
        BY <2>1, <2>2, <2>3 DEF elsewhere
<1>7. CASE Push \/ OpenPullRequest \/ DestroyContainer
    <2>1. step = "publish" /\ step' = step
        BY <1>7, PublishingState
    <2> QED
        BY <1>7, <2>1 DEF Push, OpenPullRequest, DestroyContainer
<1> QED
    BY <1>1, <1>2, <1>3, <1>4, <1>5, <1>6, <1>7 DEF DeliveryNext

LEMMA ProgressStep ==
    ASSUME StateInv, SharedInv, ProgressInv, Next
    PROVE  ProgressInv'
<1>1. CASE DialogueNext /\ UNCHANGED elsewhere
    <2>1. /\ step \in {"clarify", "specify"} /\ step' \in {"clarify", "specify", "provision-environment"}
          /\ container' = NoContainer /\ ready' = NotReady /\ ~remote'.pullRequest
        BY <1>1, DialogueWhere DEF ProgressInv, elsewhere
    <2> QED
        BY <2>1 DEF ProgressInv
<1>2. CASE ProvisionNext /\ UNCHANGED <<tree, remote>>
    <2>1. CASE ContainerLost \/ EnsureContainer
        <3>1. /\ step' = step /\ tr' = tr /\ st' = st /\ results' = results /\ ready' = ready
              /\ container # NoContainer \/ step \notin {"clarify", "specify", "provision-environment"}
            BY <2>1 DEF ContainerLost, EnsureContainer, contractVars
        <3> QED
            BY <1>2, <3>1 DEF ProgressInv, Idle, Clean
    <2>2. CASE step = "provision-environment" /\ ready' = ready /\ step' = step /\ ~Idle'
        BY <1>2, <2>2 DEF ProgressInv
    <2>3. CASE step = "provision-environment" /\ step' = "implement"
        BY <1>2, <2>3 DEF ProgressInv
    <2> QED
        BY <1>2, <2>1, <2>2, <2>3, ProvisionWhere
<1>3. CASE DeliveryNext
    <2>1. step \in {"implement", "validate", "publish"} /\ (step' = step \/ step' = NextStep)
        BY <1>3, DeliveryWhere
    <2>2. /\ step' \in {"implement", "validate", "publish", "completed"}
          /\ step = "publish" => step' \in {"publish", "completed"}
        BY <2>1, NextSteps
    <2>3. step # "publish" => ~remote'.pullRequest
        BY <1>3, <2>1, DeliveryWhere DEF ProgressInv
    <2>4. ASSUME step = "publish", remote'.pullRequest
          PROVE  Clean' /\ remote'.branch = tree'.head
        <3>1. tree' = tree
            BY <1>3, <2>4, DeliveryWhere
        <3>2. CASE Push \/ OpenPullRequest
            BY <2>4, <3>1, <3>2 DEF Push, OpenPullRequest, Publishes, ProgressInv, Clean, SharedInv
        <3>3. CASE remote' = remote
            BY <2>4, <3>1, <3>3 DEF ProgressInv, Clean
        <3>4. Push \/ OpenPullRequest \/ remote' = remote
            BY <1>3, SlicedWhere DEF DeliveryNext, WritingTurn, ReadingCall, Commit, StartImplement,
                Implemented,
               Verified, Reviewed, Committed, StartValidate, CommandValidated, FinallyReviewed,
               FinallyRepaired, StartPublish, Drafted, ApprovePublication, DestroyContainer, Published, elsewhere
        <3> QED
            BY <3>2, <3>3, <3>4
    <2> QED
        BY <2>2, <2>3, <2>4 DEF ProgressInv
<1>4. CASE ScheduleCorrection /\ UNCHANGED elsewhere
    <2>1. step' = step /\ ~Idle
        BY <1>4, CorrectionWhere DEF ScheduleCorrection, Idle, NoTransition, Transition
    <2> QED
        BY <1>4, <2>1, CorrectionWhere DEF ProgressInv, Clean, elsewhere
<1> QED
    BY <1>1, <1>2, <1>3, <1>4 DEF Next

(* What provisioning hands on, when it does. *)
LEMMA ReadyStep ==
    ASSUME StateInv, ProvisionNext
    PROVE  ready' # ready => SetUpUnlessRevised' /\ ready'.spec \in Plan /\ ready'.image \in Plan
                             /\ ready' = [spec |-> ready'.spec, image |-> ready'.image,
                                          revisions |-> ready'.revisions]
                             /\ ready'.revisions \in Nat
<1>1. CASE EnvironmentCommandDone
    BY <1>1, EnvironmentCommandDoneState
<1>2. CASE RetryEnvironment
    BY <1>2, RetryEnvironmentState
<1>3. CASE ~EnvironmentCommandDone /\ ~RetryEnvironment
    <2>1. ready' = ready
        BY <1>3 DEF ProvisionNext, StartProvision, PlannerTurn, Planned, BuildEnvironment,
            EnvironmentCommand,
           ReviseEnvironment, ContainerLost, EnsureContainer
    <2> QED
        BY <2>1
<1> QED
    BY <1>1, <1>2, <1>3

LEMMA SetUpStep ==
    ASSUME StateInv, SharedInv, ProgressInv, SetUpUnlessRevised, Next
    PROVE  SetUpUnlessRevised'
<1>1. CASE UNCHANGED <<container, ready>>
    BY <1>1 DEF SetUpUnlessRevised
<1>2. CASE container'.by # "build"
    BY <1>2 DEF SetUpUnlessRevised
<1>3. CASE ready' = NotReady
    BY <1>3 DEF SetUpUnlessRevised
<1>4. CASE ProvisionNext
    <2>1. CASE ready' # ready
        BY <1>4, <2>1, ReadyStep
    <2>2. CASE ready' = ready
        <3>1. \/ ContainerLost \/ EnsureContainer
              \/ step = "provision-environment"
            BY <1>4, ProvisionWhere
        <3>2. step = "provision-environment" => ready' = NotReady
            BY <2>2 DEF ProgressInv
        <3>3. ContainerLost \/ EnsureContainer => container'.by # "build"
            BY DEF ContainerLost, EnsureContainer, NoContainer, FreshContainer
        <3> QED
            BY <1>2, <1>3, <3>1, <3>2, <3>3
    <2> QED
        BY <2>1, <2>2
<1>5. CASE DeliveryNext
    BY <1>1, <1>2, <1>5, DeliveryWhere DEF NoContainer
<1> QED
    BY <1>1, <1>4, <1>5 DEF Next, elsewhere

LEMMA SharedStep ==
    ASSUME StateInv, SharedInv, Next
    PROVE  SharedInv'
<1>1. CASE UNCHANGED elsewhere
    BY <1>1 DEF SharedInv, elsewhere
<1>2. CASE ProvisionNext /\ UNCHANGED <<tree, remote>>
    <2>1. ready' \in [spec : Plan \cup {None}, image : Plan \cup {None}, revisions : Nat]
        <3>1. CASE ready' = ready
            BY <3>1 DEF SharedInv
        <3>2. CASE ready' # ready
            <4>1. /\ ready'.spec \in Plan /\ ready'.image \in Plan /\ ready'.revisions \in Nat
                  /\ ready' = [spec |-> ready'.spec, image |-> ready'.image, revisions |-> ready'.revisions]
                BY <1>2, <3>2, ReadyStep
            <4> QED
                BY <4>1
        <3> QED
            BY <3>1, <3>2
    <2>2. container' \in [image : Plan \cup {None}, ran : SUBSET (Plan \X Nat),
                          by : {"build", "recovery", "nobody"}]
        <3>1. \A image \in Plan \cup {None}, by \in {"build", "recovery", "nobody"} :
                  [image |-> image, ran |-> {}, by |-> by]
                      \in [image : Plan \cup {None}, ran : SUBSET (Plan \X Nat),
                           by : {"build", "recovery", "nobody"}]
            OBVIOUS
        <3>2. CASE BuildEnvironment
            <4>1. st.spec \in Plan
                <5>1. ProvisionInv /\ st.stage = "build"
                    BY <3>2, Home, ProvisionPending DEF StateInv, BuildEnvironment
                <5> QED
                    BY <5>1 DEF ProvisionInv, ProvisionPhase
            <4> QED
                BY <3>1, <3>2, <4>1 DEF BuildEnvironment, NoContainer, FreshContainer
        <3>3. CASE EnvironmentCommand
            <4>1. ProvisionInv /\ st.stage \in {"setup", "health"}
                BY <3>3, Home, ProvisionPending DEF StateInv, EnvironmentCommand
            <4>2. <<st.spec, st.index>> \in Plan \X Nat
                BY <4>1, ProvisionFields DEF ProvisionInv, ProvisionPhase
            <4>3. \/ container' = [container EXCEPT !.ran = @ \cup {<<st.spec, st.index>>}]
                  \/ container' = container
                BY <3>3 DEF EnvironmentCommand
            <4> QED
                BY <4>2, <4>3 DEF SharedInv
        <3>4. CASE EnsureContainer
            BY <3>1, <3>4 DEF EnsureContainer, FreshContainer, SharedInv
        <3>5. CASE ContainerLost
            BY <3>1, <3>5 DEF ContainerLost, NoContainer
        <3>6. CASE container' = container
            BY <3>6 DEF SharedInv
        <3>7. BuildEnvironment \/ EnvironmentCommand \/ EnsureContainer \/ ContainerLost \/ container' = container
            BY <1>2 DEF ProvisionNext, StartProvision, PlannerTurn, Planned, EnvironmentCommandDone,
               RetryEnvironment, ReviseEnvironment
        <3> QED
            BY <3>2, <3>3, <3>4, <3>5, <3>6, <3>7
    <2> QED
        BY <1>2, <2>1, <2>2 DEF SharedInv
<1>3. CASE DeliveryNext
    <2>1. /\ tree' = tree \/ tree' = [tree EXCEPT !.version = @ + 1] \/ tree' = [tree EXCEPT !.head = tree.version]
          /\ \/ remote' = remote
             \/ remote' = [remote EXCEPT !.branch = tree.head]
             \/ remote' = [remote EXCEPT !.pullRequest = TRUE]
        BY <1>3, SlicedWhere DEF DeliveryNext, WritingTurn, ReadingCall, Commit, StartImplement, Implemented,
           Verified, Reviewed, Committed, StartValidate, CommandValidated, FinallyReviewed, FinallyRepaired,
           StartPublish, Drafted, ApprovePublication, Push, OpenPullRequest, DestroyContainer, Published, elsewhere
    <2>2. tree' \in [version : Nat, head : Nat] /\ tree'.head <= tree'.version
        BY <2>1 DEF SharedInv
    <2>3. remote' \in [branch : Nat, pullRequest : BOOLEAN]
        BY <2>1 DEF SharedInv
    <2>4. container' \in [image : Plan \cup {None}, ran : SUBSET (Plan \X Nat),
                          by : {"build", "recovery", "nobody"}] /\ ready' = ready
        BY <1>3, DeliveryWhere DEF SharedInv, NoContainer
    <2> QED
        BY <2>2, <2>3, <2>4 DEF SharedInv
<1> QED
    BY <1>1, <1>2, <1>3 DEF Next

(* The last commit is of the worktree as it is, and the next writing turn  *)
(* is one of the validation.                                               *)
LEMMA CommittedStep ==
    ASSUME StateInv, SharedInv, DistinctTasks, ImplementedIsCommitted, Next
    PROVE  ImplementedIsCommitted'
<1> SUFFICES ASSUME step' = "validate", tr' = NoTransition
             PROVE  Clean'
    BY DEF ImplementedIsCommitted
<1>1. tr'.type = "none"
    BY DEF NoTransition, Transition
<1>2. CASE step' = step /\ tr' = tr /\ tree' = tree
    BY <1>2 DEF ImplementedIsCommitted, Clean
<1>3. CASE Committed
    <2>1. ImplementInv /\ st.stage = "commit" /\ tree' = tree /\ HasResult
        BY <1>3, Home, ImplementPending DEF StateInv, Committed, elsewhere
    <2> QED
        BY <2>1, TaskIsNew DEF ImplementInv, ImplementResults, Clean
<1>4. ~DialogueNext /\ ~ScheduleCorrection
    BY <1>1, DialogueWhere, CorrectionWhere
<1>5. CASE ProvisionNext /\ UNCHANGED <<tree, remote>>
    BY <1>2, <1>5, ProvisionWhere DEF ContainerLost, EnsureContainer, contractVars
<1>6. CASE DeliveryNext /\ ~Committed
    <2>1. ~(WritingTurn \/ ReadingCall \/ Commit \/ Push \/ OpenPullRequest \/ DestroyContainer)
        BY <1>1 DEF WritingTurn, ReadingCall, Commit, Push, OpenPullRequest, DestroyContainer,
           Publishes, Pending, Stores, contractVars
    <2> USE DEF Answers, Blocks, AgentRequest, RunCommand, AwaitUser, Blocked, Transition
    <2>2. ~Blocks /\ (\A s : ~InvokeImplementer(s)) /\ ~RepairTask /\ ~InvokeRepair
        BY <1>1 DEF InvokeImplementer, RepairTask, InvokeRepair
    <2>3. \A s : ~NextCommandOrReview(s)
        BY <1>1 DEF NextCommandOrReview, ValidationCommand
    <2>4. ~(StartImplement \/ Sliced \/ Implemented \/ Verified \/ Reviewed)
        <3>5. ~StartImplement
            BY <1>1 DEF StartImplement
        <3> HIDE DEF Blocks, Answers
        <3>1. ~Sliced
            BY <1>1, SlicedWhere
        <3>2. ~Implemented
            BY <1>1 DEF Implemented, Verification, Answers
        <3>3. ~Verified
            BY <1>1, <2>2 DEF Verified, Answers
        <3>4. ~Reviewed
            BY <1>1, <2>2 DEF Reviewed, CommitRequest, Answers
        <3> QED
            BY <3>1, <3>2, <3>3, <3>4, <3>5
    <2>5. ~(StartValidate \/ CommandValidated \/ FinallyRepaired)
        BY <2>2, <2>3 DEF StartValidate, CommandValidated, FinallyRepaired
    <2>6. ~FinallyReviewed
        <3>1. FinallyReviewed => step = "validate" /\ Completes
            BY <2>2, Home DEF StateInv, FinallyReviewed, Replied
        <3> QED
            BY <3>1, NextSteps DEF Completes
    <2>7. ~(StartPublish \/ Drafted \/ ApprovePublication)
        BY <1>1, <2>2 DEF StartPublish, Drafted, ApprovePublication
    <2>8. ~Published
        BY PublishedState, NextSteps DEF Published, Completes
    <2> QED
        BY <1>6, <2>1, <2>4, <2>5, <2>6, <2>7, <2>8 DEF DeliveryNext
<1> QED
    BY <1>3, <1>4, <1>5, <1>6 DEF Next

-------------------------------------------------------------------------------
(* The invariant. *)

LEMMA InitWorkflowInv == Init => WorkflowInv
<1> SUFFICES ASSUME Init PROVE WorkflowInv
    OBVIOUS
<1> USE DEF Init, ContractInit, ProvisionInit, DeliveryInit
<1>1. step \in Steps /\ StepsInv /\ ResultsInv
    BY NoResults DEF Steps, StepsInv, Idle, ResultsInv, Keys
<1>2. SharedInv
    BY DEF SharedInv, NoContainer, NotReady, None
<1>3. ProgressInv /\ SetUpUnlessRevised /\ ImplementedIsCommitted
    BY DEF ProgressInv, SetUpUnlessRevised, ImplementedIsCommitted
<1> QED
    BY <1>1, <1>2, <1>3 DEF WorkflowInv

LEMMA WorkflowStep == WorkflowInv /\ [Next]_vars => WorkflowInv'
<1> SUFFICES ASSUME WorkflowInv, [Next]_vars PROVE WorkflowInv'
    OBVIOUS
<1>1. CASE Next
    BY <1>1, StateStep, SharedStep, ProgressStep, SetUpStep, CommittedStep DEF WorkflowInv, StateInv
<1>2. CASE UNCHANGED vars
    <2>1. UNCHANGED contractVars /\ container' = container /\ ready' = ready /\ tree' = tree /\ remote' = remote
        BY <1>2 DEF vars, contractVars
    <2>2. StateInv'
        BY <2>1, SameState DEF WorkflowInv, StateInv, Clean, HeadGoesOn
    <2>3. SharedInv' /\ ProgressInv' /\ SetUpUnlessRevised'
        BY <2>1 DEF WorkflowInv, SharedInv, ProgressInv, SetUpUnlessRevised, Clean, Idle, contractVars
    <2>4. DistinctTasks => ImplementedIsCommitted'
        BY <2>1 DEF WorkflowInv, ImplementedIsCommitted, Clean, contractVars
    <2> QED
        BY <2>2, <2>3, <2>4 DEF WorkflowInv, StateInv
<1> QED
    BY <1>1, <1>2

LEMMA AlwaysWorkflowInv == Spec => []WorkflowInv
    BY InitWorkflowInv, WorkflowStep, PTL DEF Spec

-------------------------------------------------------------------------------
(* What it says of the properties. *)

LEMMA TypesFollow == WorkflowInv => WorkflowTypeOK
<1> SUFFICES ASSUME WorkflowInv PROVE WorkflowTypeOK
    OBVIOUS
<1>1. ContractTypeOK
    <2>1. step \in {Order[i] : i \in DOMAIN Order} \cup {"completed"}
        <3>1. \A s \in Steps : s # "completed" => \E i \in DOMAIN Order : Order[i] = s
            BY DEF Steps, Order
        <3> QED
            BY <3>1 DEF WorkflowInv
    <2>2. tr.type \in {"none", "invoke-agent", "run-command", "await-user", "blocked"}
        <3> USE DEF NoTransition, AwaitUser, Blocked, AgentRequest, CorrectionRequest, RunCommand, Transition
        <3>1. Idle \/ ClarifyInv \/ SpecifyInv => tr.type \in {"none", "invoke-agent", "await-user", "blocked"}
            BY DEF Idle, ClarifyInv, ClarifyAsks, SpecifyInv, SpecifyAsks, Asks
        <3>2. ProvisionInv \/ ImplementInv \/ ValidateInv \/ PublishInv =>
                  tr.type \in {"invoke-agent", "run-command", "await-user", "blocked"}
            BY DEF ProvisionInv, ProvisionAsks, ImplementInv, ImplementAsks, ValidateInv, ValidateAsks,
               PublishInv, Verification, ValidationCommand, Asks
        <3> QED
            BY <3>1, <3>2 DEF WorkflowInv, StepsInv
    <2>3. \A k \in DOMAIN results : k.step = step /\ results[k] \in Results
        BY DEF WorkflowInv, ResultsInv, Keys, TypedKey, Key, Storable
    <2> QED
        BY <2>1, <2>2, <2>3 DEF ContractTypeOK
<1>2. DialogueTypeOK
    <2>1. step \in {"clarify", "specify"} /\ tr.type # "none" /\ st # NoState => ClarifyInv \/ SpecifyInv
        BY DEF WorkflowInv, StepsInv, Idle
    <2> QED
        BY <2>1 DEF DialogueTypeOK, ClarifyInv, SpecifyInv, TalkState
<1>3. ProvisionTypeOK
    <2>1. step = "provision-environment" /\ st # NoState => ProvisionInv
        BY DEF WorkflowInv, StepsInv, Idle
    <2>2. container.image \in Plan \cup {None} /\ container.ran \subseteq Plan \X Nat
          /\ container.by \in {"build", "recovery", "nobody"}
        BY DEF WorkflowInv, SharedInv
    <2> QED
        BY <2>1, <2>2, ProvisionFields DEF ProvisionTypeOK, ProvisionInv, ProvisionPhase, Phase,
            WorkflowInv, SharedInv
<1>4. DeliveryTypeOK
    <2>1. /\ step = "implement" /\ st # NoState => ImplementInv
          /\ step = "validate" /\ st # NoState => ValidateInv
          /\ step = "publish" /\ st # NoState => PublishInv
        BY DEF WorkflowInv, StepsInv, Idle
    <2>2. tree.version \in Nat /\ tree.head \in 0..tree.version /\ remote \in [branch : Nat, pullRequest : BOOLEAN]
        BY DEF WorkflowInv, SharedInv
    <2>3. ImplementInv => /\ st.stage \in {"slice", "implement", "verify", "review", "commit"}
                          /\ st.stage # "slice" => st.index \in DOMAIN st.tasks
                          /\ st.attempt \in 0..AttemptLimit - 1
        BY DEF ImplementInv, ImplementStates
    <2>4. ValidateInv => /\ st.stage \in {"commands", "review", "repair"}
                         /\ st.index \in 0..CommandCount /\ st.repair \in 0..RepairLimit
        BY DEF ValidateInv, ValidateStates
    <2>5. PublishInv => st.stage \in {"draft", "gate", "publish"}
        BY DEF PublishInv
    <2> QED
        BY <2>1, <2>2, <2>3, <2>4, <2>5 DEF DeliveryTypeOK
<1> QED
    BY <1>1, <1>2, <1>3, <1>4 DEF WorkflowTypeOK

LEMMA CommitFollows == ASSUME DistinctTasks PROVE WorkflowInv => CommitIsVerified
<1> SUFFICES ASSUME WorkflowInv, Pending("commit"), ~HasResult
             PROVE  CommitIsVerified
    BY DEF CommitIsVerified
<1>1. ImplementInv /\ st.stage = "commit"
    BY Home, ImplementPending DEF WorkflowInv
<1>2. NewTask
    BY <1>1, TaskIsNew
<1>3. Passed(VerifyKey) /\ (Passed(ReviewKey) \/ (Garbled(ReviewKey) /\ Good(TaskCorrection)))
    BY <1>1, <1>2 DEF ImplementInv, ImplementResults
<1>4. Good(TaskCorrection) => \/ results[TaskCorrection].of = tree.version
                              \/ st.index > 1 /\ results[TaskCorrection].of <= tree.head
    BY <1>1 DEF ImplementInv, ApprovedByCorrection
<1> QED
    BY <1>3, <1>4 DEF CommitIsVerified, TaskCorrection

LEMMA PublishedFollows == WorkflowInv => PublishedIsValidated
    BY DEF WorkflowInv, ProgressInv, PublishedIsValidated, Clean

LEMMA NoRepairsElsewhere ==
    ASSUME WorkflowInv, ~ValidateInv \/ step # "validate"
    PROVE  Cardinality(Turns("final-repairer")) = 0
<1>1. \A k \in Keys : k.kind # "final-repairer"
    <2>1. CASE Idle
        BY <2>1, NoResults DEF Idle, Keys
    <2>2. CASE ClarifyInv
        BY <2>2, NoResults DEF ClarifyInv, Keys
    <2>3. CASE SpecifyInv
        BY <2>3 DEF SpecifyInv
    <2>4. CASE ProvisionInv
        BY <2>4 DEF ProvisionInv, ProvisionKeys
    <2>5. CASE ImplementInv
        BY <2>5 DEF ImplementInv, ImplementKeys
    <2>6. CASE PublishInv
        BY <2>6 DEF PublishInv
    <2> QED
        BY <2>1, <2>2, <2>3, <2>4, <2>5, <2>6 DEF WorkflowInv, StepsInv
<1> QED
    BY <1>1, NoTurns

(* Whatever task it is, its last attempt is within the bound.              *)
LEMMA Spent ==
    ASSUME NEW limit \in Nat, NEW tasks \in Nat, NEW index \in 1..tasks, NEW attempt \in Nat,
           attempt + 1 <= limit
    PROVE  (index - 1) * limit + attempt + 1 <= limit * tasks
<1>1. (index - 1) * limit + limit = limit * index
    OBVIOUS
<1>2. limit * index <= limit * tasks
    OBVIOUS
<1>3. (index - 1) * limit \in Int /\ limit * index \in Int /\ limit * tasks \in Int
    OBVIOUS
<1> QED
    BY <1>1, <1>2, <1>3

LEMMA AttemptsFollow == WorkflowInv => AttemptsBounded
<1> SUFFICES ASSUME WorkflowInv PROVE AttemptsBounded
    OBVIOUS
<1>1. ASSUME step = "implement", st.stage # "none"
      PROVE  Cardinality(Turns("implementer")) <= AttemptLimit * Len(st.tasks)
    <2>1. ImplementInv
        BY <1>1 DEF WorkflowInv, StepsInv, Idle, NoState
    <2>2. Cardinality(Turns("implementer")) <= ImplementTurns
        BY <2>1 DEF ImplementInv
    <2>3. Cardinality(Turns("implementer")) \in Nat
        BY TurnsCounted DEF WorkflowInv
    <2>4. CASE st.stage = "slice"
        <3>1. Len(st.tasks) = 0 /\ ImplementTurns = 0
            BY <2>1, <2>4 DEF ImplementInv, ImplementTurns
        <3>2. AttemptLimit * 0 = 0
            BY DeliveryAssumption
        <3> QED
            BY <2>2, <3>1, <3>2
    <2>5. CASE st.stage # "slice"
        <3>1. /\ st.tasks \in Slices /\ st.index \in DOMAIN st.tasks /\ st \in ImplementStates
            BY <2>1, <2>5 DEF ImplementInv
        <3>2. /\ Len(st.tasks) \in Nat /\ st.index \in 1..Len(st.tasks)
            BY <3>1, SliceTyped
        <3>3. st.attempt \in Nat /\ st.attempt + 1 <= AttemptLimit /\ AttemptLimit \in Nat /\ st.index \in Nat
            BY <3>1, ImplementFields
        <3> DEFINE before == (st.index - 1) * AttemptLimit + st.attempt
                   all == AttemptLimit * Len(st.tasks)
        <3>4. before + 1 <= all
            BY <3>2, <3>3, Spent
        <3>5. before \in Int /\ all \in Int
            BY <3>2, <3>3
        <3>6. ImplementTurns = before \/ ImplementTurns = before + 1
            BY <2>5 DEF ImplementTurns
        <3> HIDE DEF before, all
        <3>7. Cardinality(Turns("implementer")) <= all
            BY <2>2, <2>3, <3>4, <3>5, <3>6
        <3> QED
            BY <3>7 DEF all
    <2> QED
        BY <2>4, <2>5
<1>2. Cardinality(Turns("final-repairer")) <= RepairLimit
    <2>1. CASE step = "validate" /\ ValidateInv
        <3>1. /\ Cardinality(Turns("final-repairer")) <= ValidateTurns
              /\ ValidateTurns \in {st.repair - 1, st.repair} /\ st \in ValidateStates
            BY <2>1 DEF ValidateInv, ValidateTurns
        <3>2. Cardinality(Turns("final-repairer")) \in Nat
            BY TurnsCounted DEF WorkflowInv
        <3>3. st.repair \in Nat /\ st.repair <= RepairLimit /\ RepairLimit \in Nat
            BY <3>1, ValidateFields
        <3> QED
            BY <3>1, <3>2, <3>3
    <2>2. CASE ~(step = "validate" /\ ValidateInv)
        BY <2>2, NoRepairsElsewhere, DeliveryAssumption
    <2> QED
        BY <2>1, <2>2
<1> QED
    BY <1>1, <1>2 DEF AttemptsBounded, Turns, Keys

-------------------------------------------------------------------------------
(* Requests are new. *)

Asked ==
    \/ tr' = tr \/ tr'.type \notin {"invoke-agent", "run-command"}
    \/ tr'.key.kind \in {"build", "setup", "health"}
    \/ tr' = CorrectionRequest(tr.key.kind)
    \/ tr'.key \notin DOMAIN results

LEMMA DialogueAsks ==
    ASSUME StateInv, DialogueNext
    PROVE  Asked
<1> USE DEF Keys
<1>1. CASE StartClarify \/ StartSpecify
    BY <1>1, Started DEF StartClarify, StartSpecify, Blocks, Answers, Asked
<1>2. CASE DialogueTurn
    BY <1>2 DEF DialogueTurn, AgentTurn, Stores, Asked
<1>3. CASE Reflected \/ Grilled \/ Specified
    BY <1>3 DEF Reflected, Grilled, Specified, Blocks, Answers, Completes, AwaitUser, Blocked,
        NoTransition,
       Transition, Asked
<1>4. CASE ConfirmBrief
    <2>1. ClarifyInv /\ st # NoState /\ st.stage = "brief-gate"
        BY <1>4 DEF ConfirmBrief, Awaits, StateInv, StepsInv, NoState, Idle
    <2>2. \A k \in Keys : k.kind = "reflector"
        BY <2>1 DEF ClarifyInv
    <2>3. tr' = Blocked \/ tr' = AgentRequest("griller", st.ordinal)
        BY <1>4 DEF ConfirmBrief, Blocks, Answers
    <2> QED
        BY <2>2, <2>3 DEF Blocked, AgentRequest, Transition, Key, Asked
<1>5. CASE AnswerQuestions
    <2>1. ClarifyInv /\ st # NoState /\ st.stage = "questions"
        BY <1>5 DEF AnswerQuestions, Awaits, StateInv, StepsInv, NoState, Idle
    <2>2. \A k \in Keys : k.kind = "griller" => k.n <= st.ordinal
        BY <2>1 DEF ClarifyInv
    <2>3. tr' = AgentRequest("griller", st.ordinal + 1)
        BY <1>5 DEF AnswerQuestions, Answers, NextRound
    <2>4. tr'.key.kind = "griller" /\ tr'.key.n = st.ordinal + 1
        BY <2>3 DEF AgentRequest, Transition, Key
    <2>5. st.ordinal \in Nat
        BY <2>1, TalkTyped
    <2> QED
        BY <2>2, <2>4, <2>5 DEF Asked
<1>6. CASE DecideSpecification
    <2>1. step = "specify" /\ ~Idle
        BY <1>6 DEF DecideSpecification, Awaits, Idle, NoTransition, Transition
    <2>2. SpecifyInv /\ st # NoState
        BY <2>1 DEF StateInv, StepsInv, SpecifyInv, TalkState, NoState
    <2>3. \A k \in Keys : k.n <= st.ordinal
        BY <2>2 DEF SpecifyInv
    <2>4. tr' \in {NoTransition, Blocked, AgentRequest("specifier", st.ordinal + 1)}
        BY <1>6 DEF DecideSpecification, Blocks, Answers, Completes, NextRound
    <2>5. st.ordinal \in Nat
        BY <2>2, TalkTyped
    <2>6. CASE tr' = AgentRequest("specifier", st.ordinal + 1)
        <3>1. tr'.key.n = st.ordinal + 1
            BY <2>6 DEF AgentRequest, Transition, Key
        <3> QED
            BY <2>3, <2>5, <3>1 DEF Asked
    <2> QED
        BY <2>4, <2>6 DEF NoTransition, Blocked, Transition, Asked
<1> QED
    BY <1>1, <1>2, <1>3, <1>4, <1>5, <1>6 DEF DialogueNext

LEMMA BuildAsks ==
    ASSUME NEW spec, NEW s, Build(spec, s)
    PROVE  Asked
    BY DEF Build, Answers, RunCommand, Transition, Key, Asked

LEMMA NextCommandAsks ==
    ASSUME NEW s \in ProvisionStates, s.stage \in {"setup", "health"}, NextEnvironmentCommand(s)
    PROVE  Asked
<1> DEFINE now == IF s.stage = "setup" /\ SetupDone(s)
                  THEN [s EXCEPT !.stage = "health", !.index = 0] ELSE s
<1>1. now.stage \in {"setup", "health"}
    BY DEF ProvisionStates
<1>2. \/ Answers(now, RunCommand(now.stage, 0, now.index))
      \/ Completes
    BY DEF NextEnvironmentCommand
<1> HIDE DEF now
<1>3. ASSUME Answers(now, RunCommand(now.stage, 0, now.index)) PROVE Asked
    <2>1. tr'.key.kind = now.stage
        BY <1>3 DEF Answers, RunCommand, Transition, Key
    <2> QED
        BY <1>1, <2>1 DEF Asked
<1> QED
    BY <1>2, <1>3 DEF Completes, NoTransition, Transition, Asked

LEMMA EnvironmentAsks ==
    ASSUME StateInv, ProvisionNext
    PROVE  Asked
<1> USE DEF Keys
<1>1. CASE StartProvision
    <2>1. Keys = {}
        BY <1>1, Started DEF StartProvision
    <2> QED
        BY <1>1, <2>1, BuildAsks DEF StartProvision, Answers, Asked
<1>2. CASE PlannerTurn \/ BuildEnvironment \/ EnvironmentCommand \/ ContainerLost \/ EnsureContainer
    BY <1>2 DEF PlannerTurn, AgentTurn, BuildEnvironment, EnvironmentCommand, ContainerLost,
        EnsureContainer,
       Stores, contractVars, Asked
<1>3. CASE Planned
    BY <1>3, BuildAsks DEF Planned, Blocks, Answers, Blocked, Transition, Asked
<1>4. CASE EnvironmentCommandDone
    <2>1. ProvisionInv /\ tr.key \in Keys /\ st.stage \in {"build", "setup", "health"}
        BY <1>4, Home, ProvisionPending DEF StateInv, EnvironmentCommandDone, HasResult
    <2>2. st \in ProvisionStates /\ st.index + 1 \in Nat
        BY <2>1, ProvisionFields DEF ProvisionInv
    <2>3. CASE ~results[tr.key].ok
        BY <1>4, <2>3 DEF EnvironmentCommandDone, Answers, AwaitUser, Transition, Asked
    <2>4. CASE results[tr.key].ok /\ st.stage = "build"
        <3> DEFINE s == [st EXCEPT !.stage = "setup", !.index = 0, !.image = results[tr.key].of]
        <3>1. tr.key.kind = "build"
            BY <1>4, <2>1, <2>4, ProvisionPending DEF EnvironmentCommandDone, RunCommand,
                Transition, Key
        <3>2. results[tr.key].of \in Plan
            BY <2>1, <3>1 DEF ProvisionInv, ProvisionKeys
        <3>3. s \in ProvisionStates /\ s.stage = "setup"
            BY <2>2, <3>2 DEF ProvisionStates
        <3>4. NextEnvironmentCommand(s)
            BY <1>4, <2>4 DEF EnvironmentCommandDone
        <3> HIDE DEF s
        <3> QED
            BY <3>3, <3>4, NextCommandAsks
    <2>5. CASE results[tr.key].ok /\ st.stage # "build"
        <3> DEFINE s == [st EXCEPT !.index = @ + 1]
        <3>1. s \in ProvisionStates /\ s.stage \in {"setup", "health"}
            BY <2>1, <2>2, <2>5 DEF ProvisionStates
        <3>2. NextEnvironmentCommand(s)
            BY <1>4, <2>5 DEF EnvironmentCommandDone
        <3> HIDE DEF s
        <3> QED
            BY <3>1, <3>2, NextCommandAsks
    <2> QED
        BY <2>3, <2>4, <2>5
<1>5. CASE RetryEnvironment
    <2>1. CASE st.image # None /\ st.retryStage # "build"
        <3> DEFINE s == [st EXCEPT !.stage = st.retryStage]
        <3>1. tr.type = "await-user" /\ st.stage = "environment-gate"
            BY <1>5 DEF RetryEnvironment, Awaits
        <3>2. st \in ProvisionStates
            BY <3>1 DEF StateInv, StepsInv, Idle, NoState, ClarifyInv, SpecifyInv, TalkState,
                ImplementInv,
               ImplementStates, ValidateInv, ValidateStates, PublishInv, ProvisionInv
        <3>3. s \in ProvisionStates /\ s.stage \in {"setup", "health"}
            BY <2>1, <3>2 DEF ProvisionStates
        <3>4. NextEnvironmentCommand(s)
            BY <1>5, <2>1 DEF RetryEnvironment
        <3> HIDE DEF s
        <3> QED
            BY <3>3, <3>4, NextCommandAsks
    <2>2. CASE ~(st.image # None /\ st.retryStage # "build")
        BY <1>5, <2>2, BuildAsks DEF RetryEnvironment
    <2> QED
        BY <2>1, <2>2
<1>6. CASE ReviseEnvironment
    <2>1. tr.type = "await-user" /\ st.stage = "environment-gate"
        BY <1>6 DEF ReviseEnvironment, Awaits
    <2>2. ProvisionInv /\ st.ordinal \in Nat
        BY <2>1, ProvisionFields DEF StateInv, StepsInv, Idle, NoState, ClarifyInv, SpecifyInv,
            TalkState,
           ImplementInv, ImplementStates, ValidateInv, ValidateStates, PublishInv, ProvisionInv
    <2>3. \A k \in Keys : k.kind = "environment-planner" => k.n <= st.ordinal
        BY <2>2 DEF ProvisionInv, ProvisionKeys
    <2>4. CASE Blocks
        BY <2>4 DEF Blocks, Answers, Blocked, Transition, Asked
    <2>5. CASE tr' = AgentRequest("environment-planner", st.ordinal + 1)
        <3>1. tr'.key.kind = "environment-planner" /\ tr'.key.n = st.ordinal + 1
            BY <2>5 DEF AgentRequest, Transition, Key
        <3> QED
            BY <2>2, <2>3, <3>1 DEF Asked
    <2> QED
        BY <1>6, <2>4, <2>5 DEF ReviseEnvironment, Answers
<1> QED
    BY <1>1, <1>2, <1>3, <1>4, <1>5, <1>6 DEF ProvisionNext

LEMMA DeliveryAsks ==
    ASSUME DistinctTasks, StateInv, SharedInv, DeliveryNext
    PROVE  Asked
<1> USE DEF Keys
<1>1. tr' = Blocked \/ tr' = NoTransition \/ tr' = AwaitUser \/ tr' = tr => Asked
    BY DEF Blocked, NoTransition, AwaitUser, Transition, Asked
<1>2. tr'.key \notin Keys => Asked
    BY DEF Asked
<1>3. CASE WritingTurn \/ ReadingCall \/ Commit \/ Push \/ OpenPullRequest \/ DestroyContainer
    BY <1>1, <1>3 DEF WritingTurn, ReadingCall, Commit, Push, OpenPullRequest, DestroyContainer,
        Stores, contractVars
<1>4. CASE StartImplement \/ StartPublish
    BY <1>2, <1>4, Started DEF StartImplement, StartPublish
<1>5. CASE Implemented \/ Reviewed
    BY <1>1, <1>2, <1>5, ImplementedState, ReviewedState, TaskIsNew
<1> QED
    BY <1>1, <1>2, <1>3, <1>4, <1>5, SlicedState, VerifiedState,
        CommittedState,
       StartValidateState, CommandValidatedState, FinallyReviewedState, FinallyRepairedState, DraftedState,
       ApprovePublicationState, PublishedState DEF DeliveryNext

LEMMA FreshStep == ASSUME DistinctTasks PROVE WorkflowInv /\ [Next]_vars => Asked
<1>1. ASSUME WorkflowInv, Next PROVE Asked
    <2>1. ScheduleCorrection => Asked
        BY CorrectionWhere DEF Blocked, Transition, Asked
    <2> QED
        BY <1>1, <2>1, DialogueAsks, EnvironmentAsks, DeliveryAsks DEF WorkflowInv, StateInv, Next
<1>2. UNCHANGED vars => Asked
    BY DEF vars, Asked
<1> QED
    BY <1>1, <1>2

LEMMA ValidatedStep ==
    WorkflowInv /\ [Next]_vars =>
        (step = "validate" /\ step' = "publish" =>
            /\ \A i \in 0..CommandCount - 1 : Passed(Key("command", i, st.repair))
            /\ \/ Passed(FinalReviewKey)
               \/ Garbled(FinalReviewKey) /\ Passed(FinalCorrection))
<1> SUFFICES ASSUME WorkflowInv, [Next]_vars, step = "validate", step' = "publish"
             PROVE  /\ \A i \in 0..CommandCount - 1 : Passed(Key("command", i, st.repair))
                    /\ \/ Passed(FinalReviewKey)
                       \/ Garbled(FinalReviewKey) /\ Passed(FinalCorrection)
    OBVIOUS
<1>1. Next
    BY DEF vars
<1>2. StateInv /\ SharedInv
    BY DEF WorkflowInv, StateInv
<1>3. ~DialogueNext /\ ~ScheduleCorrection
    BY <1>2, DialogueWhere, CorrectionWhere
<1>4. ~ProvisionNext
    BY <1>2, ProvisionWhere DEF ContainerLost, EnsureContainer, contractVars
<1>5. FinallyReviewed
    BY <1>1, <1>2, <1>3, <1>4, DeliveryWhere DEF Next
<1> QED
    BY <1>2, <1>5, FinallyReviewedState

-------------------------------------------------------------------------------
(* The theorems. *)

(* What a step keeps has its shape, and its indexes point at what there is: *)
(* a task, a setup command, a health check (the State types of the steps). *)
THEOREM WorkflowTypes == Spec => []WorkflowTypeOK
    BY AlwaysWorkflowInv, TypesFollow, PTL

(* If the slicer gives its tasks different ids, no request but those of    *)
(* provisioning, and the corrections of invalid outputs, is issued under a *)
(* key that has a result, whatever was repaired, revised or asked again:   *)
(* the ordinals of the steps are enough to keep one answer from being      *)
(* taken for another.                                                      *)
THEOREM RequestsAreFresh ==
    ASSUME DistinctTasks
    PROVE  Spec => FreshRequest
<1>1. WorkflowInv /\ [Next]_vars =>
          [\/ tr' = tr \/ tr'.type \notin {"invoke-agent", "run-command"}
           \/ tr'.key.kind \in {"build", "setup", "health"}
           \/ tr' = CorrectionRequest(tr.key.kind)
           \/ tr'.key \notin DOMAIN results]_vars
    BY FreshStep DEF Asked
<1> QED
    BY <1>1, AlwaysWorkflowInv, PTL DEF Spec, FreshRequest

(* If the slicer gives its tasks different ids, what implement.ts commits   *)
(* was verified in its very version, and its reviewer was asked about that *)
(* version, for any number of tasks, attempts, corrections and turns cut   *)
(* short.  It was approved in that version, or else the reviewer gave an   *)
(* invalid answer for which the engine stored a correction once, with      *)
(* which it approved the change of an earlier task that is committed: the  *)
(* one way in which a change goes in that no reviewer approved.            *)
THEOREM CommitsAreVerified ==
    ASSUME DistinctTasks
    PROVE  Spec => []CommitIsVerified
<1>1. WorkflowInv => CommitIsVerified
    BY CommitFollows
<1> QED
    BY <1>1, AlwaysWorkflowInv, PTL

(* If the slicer gives its tasks different ids, implement.ts leaves nothing *)
(* uncommitted behind.                                                     *)
THEOREM TasksAreCommitted ==
    ASSUME DistinctTasks
    PROVE  Spec => []ImplementedIsCommitted
<1>1. WorkflowInv => ImplementedIsCommitted
    BY DEF WorkflowInv
<1> QED
    BY <1>1, AlwaysWorkflowInv, PTL

(* What leaves validate.ts passed every command in its last version, and   *)
(* the final review, or the correction of an invalid one, whatever was     *)
(* repaired in between.                                                    *)
THEOREM ChangesAreValidated == Spec => ValidatedAsItIs
<1>1. WorkflowInv /\ [Next]_vars =>
          [step = "validate" /\ step' = "publish" =>
              /\ \A i \in 0..CommandCount - 1 : Passed(Key("command", i, st.repair))
              /\ \/ Passed(FinalReviewKey)
                 \/ /\ Garbled(FinalReviewKey)
                    /\ Passed(CorrectionKey("final-reviewer"))]_vars
    BY ValidatedStep DEF FinalCorrection
<1> QED
    BY <1>1, AlwaysWorkflowInv, PTL DEF Spec, ValidatedAsItIs

(* The attempt limits of implement.ts and validate.ts hold for every       *)
(* number of tasks, over all repairs, reviews and repeated calls.          *)
THEOREM AttemptsAreBounded == Spec => []AttemptsBounded
    BY AlwaysWorkflowInv, AttemptsFollow, PTL

(* A pull request opened by git-runtime.ts shows the worktree that was     *)
(* validated, all of it, and goes on doing so.                             *)
THEOREM PublicationsAreValidated == Spec => []PublishedIsValidated
    BY AlwaysWorkflowInv, PublishedFollows, PTL

(* Without a revision of its spec, a container built for a run has all its *)
(* setup behind it when the run goes on, whatever was retried or lost.     *)
THEOREM ContainersAreSetUp == Spec => []SetUpUnlessRevised
<1>1. WorkflowInv => SetUpUnlessRevised
    BY DEF WorkflowInv
<1> QED
    BY <1>1, AlwaysWorkflowInv, PTL
===============================================================================
