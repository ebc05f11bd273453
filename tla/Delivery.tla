-------------------------------- MODULE Delivery --------------------------------
(***************************************************************************)
(* src/workflows/implement.ts, validate.ts and publish.ts with             *)
(* src/git-runtime.ts: tasks are implemented, verified, reviewed and       *)
(* committed one after the other; the whole change is validated; and a     *)
(* pull request is opened for it.                                          *)
(*                                                                         *)
(* The worktree is a version number, which every turn that may write to it *)
(* raises, and the version last committed.  A result is stored with the    *)
(* version it was obtained on.                                             *)
(***************************************************************************)
EXTENDS Provision

CONSTANTS
    Slices,         \* what the slicer may answer: sequences of task ids
    AttemptLimit,   \* implementationAttemptLimit
    RepairLimit,    \* finalRepairAttemptLimit
    CommandCount,   \* scenario, project and coverage commands of validate
    MaxVersion      \* bound: versions of the worktree

ASSUME DeliveryAssumption ==
    /\ \A tasks \in Slices : tasks \in Seq(Nat) /\ tasks # <<>>
    /\ AttemptLimit \in Nat \ {0} /\ RepairLimit \in Nat
    /\ CommandCount \in Nat /\ MaxVersion \in Nat

(* The slicer is asked for tasks with an id each, which the code checks;   *)
(* that they differ it does not check.                                     *)
DistinctTasks ==
    \A tasks \in Slices : \A i, j \in DOMAIN tasks : tasks[i] = tasks[j] => i = j

VARIABLES
    tree,       \* the worktree: its version, and the version of HEAD
    remote      \* the version of the delivery branch, and its pull request

DeliveryInit ==
    /\ tree = [version |-> 0, head |-> 0]
    /\ remote = [branch |-> None, pullRequest |-> FALSE]

Clean == tree.head = tree.version

DeliveryTypeOK ==
    /\ tree.version \in Nat /\ tree.head \in 0..tree.version
    /\ remote \in [branch : Nat, pullRequest : BOOLEAN]
    /\ step = "implement" /\ st # NoState =>
          /\ st.stage \in {"slice", "implement", "verify", "review", "commit"}
          /\ st.stage # "slice" => st.index \in DOMAIN st.tasks
          /\ st.attempt \in 0..AttemptLimit - 1
    /\ step = "validate" /\ st # NoState =>
          /\ st.stage \in {"commands", "review", "repair"}
          /\ st.index \in 0..CommandCount /\ st.repair \in 0..RepairLimit
    /\ step = "publish" /\ st # NoState => st.stage \in {"draft", "gate", "publish"}

elsewhere == <<container, ready, tree, remote>>

-------------------------------------------------------------------------------
(* Calls. *)

(* A turn of an agent that writes to the worktree, in the run container.   *)
(* It may be cut short by its deadline or by the end of the process: what  *)
(* it wrote stays, its result does not.                                    *)
WritingTurn ==
    /\ Pending("implementer") \/ Pending("final-repairer")
    /\ ~HasResult
    /\ container # NoContainer
    /\ tree.version < MaxVersion
    /\ tree' = [tree EXCEPT !.version = @ + 1]
    /\ \/ Stores(Result(TRUE, tree.version + 1))
       \/ Stores(Invalid(tree.version + 1))
       \/ UNCHANGED contractVars
    /\ UNCHANGED <<container, ready, remote>>

(* Those that only read it, and verification commands.                     *)
ReadingCall ==
    /\ \E kind \in {"task-slicer", "task-reviewer", "final-reviewer", "publication-writer",
                    "verify", "command"} : Pending(kind)
    /\ ~HasResult
    /\ container # NoContainer
    /\ \/ \E ok \in BOOLEAN : Stores(Result(ok, tree.version))
       \/ tr.type = "invoke-agent" /\ Stores(Invalid(tree.version))
    /\ UNCHANGED elsewhere

(* GitRuntime.commit: nothing to commit is a success.  The process may die *)
(* before the result is stored.                                            *)
Commit ==
    /\ Pending("commit") /\ ~HasResult
    /\ tree' = [tree EXCEPT !.head = tree.version]
    /\ Stores(Result(TRUE, tree.version)) \/ UNCHANGED contractVars
    /\ UNCHANGED <<container, ready, remote>>

-------------------------------------------------------------------------------
(* implement *)
Task == st.tasks[st.index]

InvokeImplementer(state) ==
    Answers([state EXCEPT !.stage = "implement"], AgentRequest("implementer", state.ordinal))

(* Faulty: the number of the request stays. *)
RepairTaskAgain ==
    IF st.attempt + 1 >= AttemptLimit THEN Blocks
    ELSE InvokeImplementer([st EXCEPT !.attempt = @ + 1])

(* Faulty: one attempt too many. *)
RepairTaskOnceMore ==
    IF st.attempt + 1 > AttemptLimit THEN Blocks
    ELSE InvokeImplementer([st EXCEPT !.attempt = @ + 1, !.ordinal = @ + 1])

(* repair *)
RepairTask ==
    IF st.attempt + 1 >= AttemptLimit THEN Blocks
    ELSE InvokeImplementer([st EXCEPT !.attempt = @ + 1, !.ordinal = @ + 1])

StartImplement ==
    /\ Starts("implement")
    /\ Answers([stage |-> "slice", tasks |-> <<>>, index |-> 1, attempt |-> 0, ordinal |-> 0],
               AgentRequest("task-slicer", 0))
    /\ UNCHANGED elsewhere

Sliced ==
    /\ Replied("task-slicer")
    /\ \/ ~results[tr.key].ok /\ Blocks
       \/ /\ results[tr.key].ok
          /\ \E tasks \in Slices : InvokeImplementer([st EXCEPT !.tasks = tasks, !.ordinal = 1])
    /\ UNCHANGED elsewhere

(* Faulty: one verification for all attempts. *)
VerificationOnce == RunCommand("verify", Task, 0)

Verification == RunCommand("verify", Task, st.attempt)

Implemented ==
    /\ Replied("implementer")
    /\ Answers([st EXCEPT !.stage = "verify"], Verification)
    /\ UNCHANGED elsewhere

Verified ==
    /\ Pending("verify") /\ HasResult
    /\ IF results[tr.key].ok
       THEN Answers([st EXCEPT !.stage = "review", !.ordinal = @ + 1],
                    AgentRequest("task-reviewer", st.ordinal + 1))
       ELSE RepairTask
    /\ UNCHANGED elsewhere

(* Faulty: one commit for all tasks. *)
CommitOnce == RunCommand("commit", 0, 0)

CommitRequest == RunCommand("commit", Task, 0)

Reviewed ==
    /\ Replied("task-reviewer")
    /\ IF results[tr.key].ok
       THEN Answers([st EXCEPT !.stage = "commit"], CommitRequest)
       ELSE RepairTask
    /\ UNCHANGED elsewhere

(* Faulty: > where >= is meant. *)
PastLastTask == st.index > Len(st.tasks)

LastTask == st.index >= Len(st.tasks)

Committed ==
    /\ Pending("commit") /\ HasResult
    /\ IF LastTask
       THEN Completes
       ELSE InvokeImplementer([st EXCEPT !.index = @ + 1, !.attempt = 0, !.ordinal = @ + 1])
    /\ UNCHANGED elsewhere

-------------------------------------------------------------------------------
(* validate *)

(* Faulty: the results of the round before count. *)
CommandKeyOfFirst(state) == RunCommand("command", state.index, 0)

ValidationCommand(state) == RunCommand("command", state.index, state.repair)

(* nextCommandOrReview *)
NextCommandOrReview(state) ==
    IF state.index < CommandCount
    THEN Answers(state, ValidationCommand(state))
    ELSE Answers([state EXCEPT !.stage = "review"], AgentRequest("final-reviewer", state.ordinal))

(* invokeRepair *)
InvokeRepair ==
    IF st.repair + 1 > RepairLimit THEN Blocks
    ELSE Answers([st EXCEPT !.stage = "repair", !.repair = @ + 1, !.ordinal = @ + 1],
                 AgentRequest("final-repairer", st.ordinal + 1))

StartValidate ==
    /\ Starts("validate")
    /\ NextCommandOrReview([stage |-> "commands", index |-> 0, repair |-> 0, ordinal |-> 0])
    /\ UNCHANGED elsewhere

CommandValidated ==
    /\ Pending("command") /\ HasResult
    /\ IF results[tr.key].ok THEN NextCommandOrReview([st EXCEPT !.index = @ + 1])
                             ELSE InvokeRepair
    /\ UNCHANGED elsewhere

FinallyReviewed ==
    /\ Replied("final-reviewer")
    /\ IF results[tr.key].ok THEN Completes ELSE InvokeRepair
    /\ UNCHANGED elsewhere

FinallyRepaired ==
    /\ Replied("final-repairer")
    /\ NextCommandOrReview([st EXCEPT !.stage = "commands", !.index = 0, !.ordinal = @ + 1])
    /\ UNCHANGED elsewhere

-------------------------------------------------------------------------------
(* publish *)
StartPublish ==
    /\ Starts("publish")
    /\ Answers([stage |-> "draft", ordinal |-> 0], AgentRequest("publication-writer", 0))
    /\ UNCHANGED elsewhere

Drafted ==
    /\ Replied("publication-writer")
    /\ Answers([st EXCEPT !.stage = "gate"], AwaitUser)
    /\ UNCHANGED elsewhere

(* Title and body, or nothing. *)
ApprovePublication ==
    /\ step = "publish" /\ Awaits("gate")
    /\ Blocks \/ Answers([st EXCEPT !.stage = "publish"], RunCommand("git", 0, 0))
    /\ UNCHANGED elsewhere

(* Faulty: a worktree with changes is taken as well. *)
PublishesAny == Pending("git") /\ ~HasResult

(* GitRuntime.publish looks at the worktree, the remote branch and the     *)
(* pull request each time, and goes on from what it finds: its statements  *)
(* are actions, and the process may die between any two.                   *)
Publishes == Pending("git") /\ ~HasResult /\ Clean

Push ==
    /\ Publishes
    /\ remote.branch # tree.head
    /\ remote' = [remote EXCEPT !.branch = tree.head]
    /\ UNCHANGED <<contractVars, container, ready, tree>>

OpenPullRequest ==
    /\ Publishes
    /\ remote.branch = tree.head /\ ~remote.pullRequest
    /\ remote' = [remote EXCEPT !.pullRequest = TRUE]
    /\ UNCHANGED <<contractVars, container, ready, tree>>

(* The container is destroyed, and then the result stored. *)
DestroyContainer ==
    /\ Publishes
    /\ remote.branch = tree.head /\ remote.pullRequest
    /\ container' = NoContainer
    /\ Stores(Result(TRUE, tree.head)) \/ UNCHANGED contractVars
    /\ UNCHANGED <<ready, tree, remote>>

Published ==
    /\ Pending("git") /\ HasResult
    /\ Completes
    /\ UNCHANGED elsewhere

DeliveryNext ==
    \/ WritingTurn \/ ReadingCall \/ Commit
    \/ StartImplement \/ Sliced \/ Implemented \/ Verified \/ Reviewed \/ Committed
    \/ StartValidate \/ CommandValidated \/ FinallyReviewed \/ FinallyRepaired
    \/ StartPublish \/ Drafted \/ ApprovePublication
    \/ Push \/ OpenPullRequest \/ DestroyContainer \/ Published
===============================================================================
