-------------------------------- MODULE Workflow --------------------------------
(***************************************************************************)
(* The "complete" workflow: clarify, specify, provision-environment,       *)
(* implement, validate, publish, one step after the other, with the       *)
(* worktree and the container they share, and what they guarantee together.*)
(***************************************************************************)
EXTENDS Dialogue, Delivery

vars == <<step, tr, st, results, container, ready, tree, remote>>

Init ==
    /\ ContractInit("clarify")
    /\ ProvisionInit
    /\ DeliveryInit

Next ==
    \/ ScheduleCorrection /\ UNCHANGED elsewhere
    \/ DialogueNext /\ UNCHANGED elsewhere
    \/ ProvisionNext /\ UNCHANGED <<tree, remote>>
    \/ DeliveryNext

Spec == Init /\ [][Next]_vars

(* The state of a step has its shape, and its indexes point at what there  *)
(* is: a task, a setup command, a health check.                            *)
WorkflowTypeOK == ContractTypeOK /\ DialogueTypeOK /\ ProvisionTypeOK /\ DeliveryTypeOK

-------------------------------------------------------------------------------
(* Outside the provisioning step, which repeats its commands on purpose, a *)
(* request of a step is never issued under a key that has a result: the    *)
(* engine would hand the step the answer to another question.  That is     *)
(* what it does with the corrections of a role, which share one key: they  *)
(* are left out here, and CommitIsReviewed shows what comes of it.         *)
FreshRequest ==
    [][\/ tr' = tr \/ tr'.type \notin {"invoke-agent", "run-command"}
       \/ tr'.key.kind \in {"build", "setup", "health"}
       \/ tr' = CorrectionRequest(tr.key.kind)
       \/ tr'.key \notin DOMAIN results]_vars

(* A stored result that is good; one that is both that and obtained on the *)
(* worktree as it is; and an invalid one obtained on it as it is.          *)
Good(key) == key \in DOMAIN results /\ results[key].valid /\ results[key].ok
Current(key) == key \in DOMAIN results /\ results[key].of = tree.version
Passed(key) == Good(key) /\ Current(key)
Garbled(key) == Current(key) /\ ~results[key].valid

VerifyKey == Key("verify", Task, st.attempt)
ReviewKey == Key("task-reviewer", 0, st.ordinal)
FinalReviewKey == Key("final-reviewer", 0, st.ordinal)

(* What is committed for a task was verified as it is, and its reviewer    *)
(* was asked about it as it is: no repair, retry or crash slips a change   *)
(* in between.  The reviewer approved it, in its first answer or in the    *)
(* correction of one that was invalid; or its answer was invalid, and the  *)
(* stored correction by which the change of an earlier task was approved,  *)
(* and then committed, was taken for its correction.                       *)
CommitIsVerified ==
    Pending("commit") /\ ~HasResult =>
        /\ Passed(VerifyKey)
        /\ \/ Passed(ReviewKey)
           \/ /\ Garbled(ReviewKey)
              /\ Good(CorrectionKey("task-reviewer"))
              /\ LET approved == results[CorrectionKey("task-reviewer")].of
                 IN  approved = tree.version \/ (st.index > 1 /\ approved <= tree.head)

(* "Commit an approved task using host Git; move to the next task": what   *)
(* implement.ts leaves to validate.ts has all been committed.              *)
ImplementedIsCommitted == step = "validate" /\ tr = NoTransition => Clean

(* A change that leaves validate passed every command and the final review *)
(* in its last version: in the answer to that review, or in the correction *)
(* of an invalid one.  A correction of an earlier round cannot have        *)
(* approved, since that ends the step.                                     *)
ValidatedAsItIs ==
    [][step = "validate" /\ step' = "publish" =>
        /\ \A i \in 0..CommandCount - 1 : Passed(Key("command", i, st.repair))
        /\ \/ Passed(FinalReviewKey)
           \/ /\ Garbled(FinalReviewKey)
              /\ Passed(CorrectionKey("final-reviewer"))]_vars

(* Across all repairs, reviews and commits the implement step asks its     *)
(* implementer for at most AttemptLimit implementations per task it has,   *)
(* and validate its repairer for RepairLimit repairs.  The one correction  *)
(* of the role that each step may ask for comes on top.                    *)
AttemptsBounded ==
    LET Turns(role) == Cardinality({k \in DOMAIN results : k.kind = role /\ k.id = 0})
    IN  /\ step = "implement" /\ st.stage # "none" => Turns("implementer") <= AttemptLimit * Len(st.tasks)
        /\ Turns("final-repairer") <= RepairLimit

(* A pull request shows the validated worktree, all of it.                 *)
PublishedIsValidated ==
    remote.pullRequest => remote.branch = tree.version

(* If the EnvironmentSpec was never revised, a container that was built    *)
(* for it has its image and has run all its setup commands before any task *)
(* is implemented in it.                                                   *)
SetUpUnlessRevised ==
    ready # NotReady /\ ready.revisions = 0 /\ container.by = "build" =>
        /\ container.image = ready.spec
        /\ \A i \in 0..Setup[ready.spec] - 1 : <<ready.spec, i>> \in container.ran

-------------------------------------------------------------------------------
(* What the documentation says and the code does not do. *)

(* "A run becomes executable only after container creation, setup, and     *)
(* every health check succeeds": of the EnvironmentSpec it has.            *)
ExecutableIsSetUp ==
    ready # NotReady /\ container.by = "build" =>
        /\ container.image = ready.spec
        /\ \A i \in 0..Setup[ready.spec] - 1 : <<ready.spec, i>> \in container.ran

(* "Commit an approved task": the one that is committed, as it is.         *)
CommitIsReviewed ==
    Pending("commit") /\ ~HasResult =>
        Passed(ReviewKey) \/ Passed(CorrectionKey("task-reviewer"))

(* Publish requires "a clean worktree and successful ValidatedChange": a   *)
(* validated change comes with a clean worktree.                           *)
ValidatedIsClean == step = "publish" => Clean
===============================================================================
