------------------------------ MODULE RunContainer ------------------------------
(***************************************************************************)
(* The life of a run container: created by the build and by the recovery,  *)
(* removed by publication and cancellation (src/container-runtime.ts,      *)
(* src/environment-manager.ts, src/workflow-engine.ts), each a sequence of *)
(* docker commands between which the other loop runs and the process may   *)
(* die.                                                                    *)
(*                                                                         *)
(* The main loop may take up a run that is not over at any moment, because *)
(* the operator may send a retry at any moment; the queue is Coordinator.  *)
(* One process at a time; a docker command under way at a crash has either *)
(* taken effect by then or does not.                                       *)
(***************************************************************************)
EXTENDS Naturals

VARIABLES
    container,  \* what docker has under the name of the run
    run,        \* status, step and stored transition
    stored,     \* which actions have a stored result
    proc,       \* the process: down, recovering containers, or up
    main,       \* what the main loop, or the recovery before it, is doing
    cancel,     \* what the cancellation loop is doing
    wanted,     \* a cancel-run command is waiting or leased
    late,       \* history: the container was created for a run that was
                \* cancelled, being cancelled, or published
    kept        \* history: docker has failed to remove the container

vars == <<container, run, stored, proc, main, cancel, wanted, late, kept>>

Idle == [task |-> "none", at |-> "none"]

Doing(task, at) == main = [task |-> task, at |-> at]

Goes(task, at) == main' = [task |-> task, at |-> at]

Over == run.status \in {"cancelled", "completed"}

ContainerSteps == {"implement", "publish"}  \* validate is as implement

Init ==
    /\ container = "none"
    /\ run = [status |-> "active", step |-> "provision-environment", tr |-> "build"]
    /\ stored = {}
    /\ proc = "up" /\ main = Idle /\ cancel = "none"
    /\ wanted = FALSE /\ late = FALSE /\ kept = FALSE

-------------------------------------------------------------------------------
(* container-runtime.ts *)

(* Faulty: a container of that name is not expected. *)
CreateDirectly(task) == Goes(task, "create")

(* createRunContainer removes what has the name, creates, and starts.      *)
CreateRunContainer(task) == Goes(task, "remove")

(* docker rm --force.  Its exit code and its timeout are not looked at.    *)
Removes ==
    \/ container' = "none" /\ kept' = FALSE
    \/ container # "none" /\ kept' = TRUE /\ UNCHANGED container

Remove ==
    /\ main.at = "remove"
    /\ Removes
    /\ Goes(main.task, IF main.task = "publication" THEN "remove-agent" ELSE "create")
    /\ UNCHANGED <<run, stored, proc, cancel, wanted, late>>

Create ==
    /\ main.at = "create" /\ container = "none"
    /\ container' = "created"
    /\ late' = (run.status = "cancelled" \/ cancel = "remove-agent"
                \/ "publication" \in stored)
    /\ Goes(main.task, "start")
    /\ UNCHANGED <<run, stored, proc, cancel, wanted, kept>>

StartContainer ==
    /\ main.at = "start" /\ container = "created"
    /\ container' = "running"
    /\ IF main.task = "recovery" THEN proc' = "up" /\ main' = Idle
                                 ELSE Goes(main.task, "artifacts") /\ UNCHANGED proc
    /\ UNCHANGED <<run, stored, cancel, wanted, late, kept>>

(* docker is restarted, or the container stopped or removed by hand. *)
ContainerLost ==
    /\ container # "none"
    /\ container' \in {"none", "created"}
    /\ UNCHANGED <<run, stored, proc, main, cancel, wanted, late, kept>>

-------------------------------------------------------------------------------
(* workflow-engine.ts: the main loop *)

(* persist, which does not look at the status. *)
Persist(tr) == run' = [run EXCEPT !.status = "active", !.tr = tr]

(* process takes the run up, and executes its stored transition; an action *)
(* with a stored result is not done again.                                 *)
TakesUp == proc = "up" /\ main = Idle /\ ~Over

BeginBuild ==
    /\ TakesUp /\ run.tr = "build"
    /\ IF "build" \in stored THEN Persist("command") /\ UNCHANGED main
                             ELSE Goes("build", "image") /\ UNCHANGED run
    /\ UNCHANGED <<container, stored, proc, cancel, wanted, late, kept>>

BeginCommand ==
    /\ TakesUp /\ run.tr = "command"
    /\ Goes("command", IF run.step \in ContainerSteps THEN "inspect" ELSE "exec")
    /\ UNCHANGED <<container, run, stored, proc, cancel, wanted, late, kept>>

BeginPublication ==
    /\ TakesUp /\ run.tr = "publication"
    /\ IF "publication" \in stored
       THEN Persist("complete") /\ Goes("complete", "artifacts")
       ELSE Goes("publication", "git") /\ UNCHANGED run
    /\ UNCHANGED <<container, stored, proc, cancel, wanted, late, kept>>

BeginComplete ==
    /\ TakesUp /\ run.tr = "complete"
    /\ Goes("complete", "artifacts")
    /\ UNCHANGED <<container, run, stored, proc, cancel, wanted, late, kept>>

(* environments.execute, up to and after createRunContainer.               *)
ImageBuilt ==
    /\ Doing("build", "image")
    /\ CreateRunContainer("build")
    /\ UNCHANGED <<container, run, stored, proc, cancel, wanted, late, kept>>

BuildStored ==
    /\ Doing("build", "artifacts")
    /\ stored' = stored \union {"build"}
    /\ Persist("command")
    /\ main' = Idle
    /\ UNCHANGED <<container, proc, cancel, wanted, late, kept>>

Inspected ==
    /\ Doing("command", "inspect") /\ container = "running"
    /\ Goes("command", "exec")
    /\ UNCHANGED <<container, run, stored, proc, cancel, wanted, late, kept>>

(* A command that fails in a container that is gone has a result as well.  *)
(* A step goes on with another command, or is complete, or (while          *)
(* provisioning) is asked to build again.                                  *)
Executed ==
    /\ Doing("command", "exec")
    /\ \/ Persist("command") /\ main' = Idle
       \/ run.step = "provision-environment" /\ Persist("build") /\ main' = Idle
       \/ container = "running" /\ Persist("complete")
             /\ Goes("complete", "artifacts")
    /\ UNCHANGED <<container, stored, proc, cancel, wanted, late, kept>>

(* git.publish, then destroy, then finishAction. *)
Pushed ==
    /\ Doing("publication", "git")
    /\ Goes("publication", "remove")
    /\ UNCHANGED <<container, run, stored, proc, cancel, wanted, late, kept>>

Published ==
    /\ Doing("publication", "remove-agent")
    /\ stored' = stored \union {"publication"}
    /\ Persist("complete")
    /\ Goes("complete", "artifacts")
    /\ UNCHANGED <<container, proc, cancel, wanted, late, kept>>

CompleteStep ==
    /\ Doing("complete", "artifacts")
    /\ run' = CASE run.step = "provision-environment" ->
                     [status |-> "active", step |-> "implement", tr |-> "command"]
                [] run.step = "implement" ->
                     [status |-> "active", step |-> "publish", tr |-> "publication"]
                [] run.step = "publish" -> [run EXCEPT !.status = "completed"]
    /\ main' = Idle
    /\ UNCHANGED <<container, stored, proc, cancel, wanted, late, kept>>

(* What is awaited throws: the run is blocked, if it is not cancelled, or  *)
(* its recovery failed.                                                    *)
Throws ==
    /\ main # Idle
    /\ main' = Idle
    /\ proc' = "up"
    /\ UNCHANGED <<container, run, stored, cancel, wanted, late, kept>>

-------------------------------------------------------------------------------
(* cancelRun, in the cancellation loop *)

RequestCancel ==
    /\ proc = "up"
    /\ wanted' = TRUE
    /\ UNCHANGED <<container, run, stored, proc, main, cancel, late, kept>>

(* Faulty: the run is marked before its container is removed. *)
BeginCancelMarked ==
    /\ proc = "up" /\ wanted /\ cancel = "none"
    /\ IF Over THEN wanted' = FALSE /\ UNCHANGED <<cancel, run>>
               ELSE cancel' = "remove" /\ run' = [run EXCEPT !.status = "cancelled"] /\ UNCHANGED wanted
    /\ UNCHANGED <<container, stored, proc, main, late, kept>>

BeginCancel ==
    /\ proc = "up" /\ wanted /\ cancel = "none"
    /\ IF Over THEN wanted' = FALSE /\ UNCHANGED cancel
               ELSE cancel' = "remove" /\ UNCHANGED wanted
    /\ UNCHANGED <<container, run, stored, proc, main, late, kept>>

CancelRemoves ==
    /\ cancel = "remove"
    /\ Removes
    /\ cancel' = "remove-agent"
    /\ UNCHANGED <<run, stored, proc, main, wanted, late>>

MarkCancelled ==
    /\ cancel = "remove-agent"
    /\ run' = [run EXCEPT !.status = "cancelled"]
    /\ cancel' = "none" /\ wanted' = FALSE
    /\ UNCHANGED <<container, stored, proc, main, late, kept>>

-------------------------------------------------------------------------------
(* coordinator.ts *)

Crash ==
    /\ proc # "down"
    /\ proc' = "down" /\ main' = Idle /\ cancel' = "none"
    /\ UNCHANGED <<container, run, stored, wanted, late, kept>>

Start ==
    /\ proc = "down"
    /\ IF ~Over /\ run.step \in ContainerSteps
       THEN proc' = "recovering" /\ Goes("recovery", "look")
       ELSE proc' = "up" /\ UNCHANGED main
    /\ UNCHANGED <<container, run, stored, cancel, wanted, late, kept>>

(* ensureContainer; in these steps the image is known. *)
EnsureContainer ==
    /\ Doing("recovery", "look")
    /\ IF container = "running" THEN proc' = "up" /\ main' = Idle
                                ELSE CreateRunContainer("recovery") /\ UNCHANGED proc
    /\ UNCHANGED <<container, run, stored, cancel, wanted, late, kept>>

Next ==
    \/ Remove \/ Create \/ StartContainer \/ ContainerLost
    \/ BeginBuild \/ BeginCommand \/ BeginPublication \/ BeginComplete
    \/ ImageBuilt \/ BuildStored \/ Inspected \/ Executed
    \/ Pushed \/ Published \/ CompleteStep \/ Throws
    \/ RequestCancel \/ BeginCancel \/ CancelRemoves \/ MarkCancelled
    \/ Crash \/ Start \/ EnsureContainer

Spec == Init /\ [][Next]_vars

-------------------------------------------------------------------------------
AtRest == proc = "up" /\ main = Idle /\ cancel = "none"

(* docker create finds its name free, although a crash, a stop or the      *)
(* build before it may have left a container there: it fails only where a  *)
(* removal has failed.                                                     *)
NameIsFree == main.at = "create" => container = "none" \/ kept

(* The removals of publication and cancellation are enough: a run that is  *)
(* over has a container only if docker failed to remove it, or if it was   *)
(* created for a run already cancelled, in the middle of a cancellation,   *)
(* or after the publication.                                               *)
OnlyLateOnesStay == AtRest /\ Over => container = "none" \/ late \/ kept
===============================================================================
