------------------------------- MODULE Provision -------------------------------
(***************************************************************************)
(* src/workflows/provision.ts with src/environment-manager.ts: the step    *)
(* that builds the project image, starts the run container, runs the setup *)
(* commands and the health checks in it, and revises the EnvironmentSpec   *)
(* when one of them fails; and the recovery of the container when the      *)
(* coordinator starts.                                                     *)
(*                                                                         *)
(* An EnvironmentSpec is a number with as many setup commands and health   *)
(* checks as Setup and Health say.  An image is the spec it is built from. *)
(***************************************************************************)
EXTENDS StepContract

CONSTANTS
    Plan,           \* EnvironmentSpecs
    Setup, Health,  \* their numbers of commands
    MaxRevisions    \* bound: revisions of the spec

ASSUME PlanAssumption ==
    /\ Plan \subseteq Nat \ {0}
    /\ Setup \in [Plan -> Nat] /\ Health \in [Plan -> Nat]
    /\ MaxRevisions \in Nat

VARIABLES
    container,  \* the run container
    ready       \* output of the step, and the number of revisions it took

None == 0

NoContainer == [image |-> None, ran |-> {}, by |-> "nobody"]

NotReady == [spec |-> None, image |-> None, revisions |-> 0]

(* Created from an image by "build" or by "recovery"; no setup command has *)
(* run in it yet.                                                          *)
FreshContainer(image, by) == [image |-> image, ran |-> {}, by |-> by]

ProvisionInit == container = NoContainer /\ ready = NotReady

ProvisionTypeOK ==
    /\ container.image \in Plan \cup {None}
    /\ container.ran \subseteq Plan \X Nat
    /\ container.by \in {"build", "recovery", "nobody"}
    /\ ready \in [spec : Plan \cup {None}, image : Plan \cup {None}, revisions : Nat]
    /\ step = "provision-environment" /\ st # NoState =>
          /\ st.stage \in {"plan", "build", "setup", "health", "environment-gate"}
          /\ st.spec \in Plan \cup {None} /\ st.image \in Plan \cup {None}
          /\ st.stage = "setup" => st.index < Setup[st.spec]
          /\ st.stage = "health" => st.index < Health[st.spec]

-------------------------------------------------------------------------------
(* build *)
Build(spec, state) ==
    Answers([state EXCEPT !.stage = "build", !.spec = spec], RunCommand("build", 0, 0))

(* Faulty: the last setup command is skipped. *)
SetupNearlyDone(state) == state.index + 1 >= Setup[state.spec]

SetupDone(state) == state.index >= Setup[state.spec]

(* nextEnvironmentCommand *)
NextEnvironmentCommand(state) ==
    LET now == IF state.stage = "setup" /\ SetupDone(state)
               THEN [state EXCEPT !.stage = "health", !.index = 0] ELSE state
    IN  IF now.stage = "setup" \/ now.index < Health[now.spec]
        THEN Answers(now, RunCommand(now.stage, 0, now.index)) /\ UNCHANGED ready
        ELSE /\ Completes
             /\ ready' = [spec |-> now.spec, image |-> now.image, revisions |-> now.ordinal]

ProvisionState(stage) ==
    [stage |-> stage, spec |-> None, image |-> None, index |-> 0, ordinal |-> 0,
     retryStage |-> "build"]

(* With an explicit EnvironmentSpec in the configuration, or a planner.    *)
StartProvision ==
    /\ Starts("provision-environment")
    /\ \/ \E spec \in Plan : Build(spec, ProvisionState("plan"))
       \/ Answers(ProvisionState("plan"), AgentRequest("environment-planner", 0))
    /\ UNCHANGED <<container, ready>>

PlannerTurn == AgentTurn({"environment-planner"}, Plan) /\ UNCHANGED <<container, ready>>

Planned ==
    /\ Replied("environment-planner")
    /\ IF results[tr.key].ok THEN Build(results[tr.key].of, st) ELSE Blocks
    /\ UNCHANGED <<container, ready>>

-------------------------------------------------------------------------------
(* EnvironmentManager.execute.  A result is used again when its exit code  *)
(* was 0, whatever spec the request carries.                               *)

Usable == HasResult /\ results[tr.key].ok

(* buildEnvironment and createRunContainer, which removes the container it *)
(* replaces first.  The process may die, or docker fail, on the way; a     *)
(* failure is thrown, so that only a success is ever stored.               *)
BuildEnvironment ==
    /\ Pending("build") /\ ~Usable
    /\ \/ container' = NoContainer /\ UNCHANGED contractVars
       \/ container' = FreshContainer(st.spec, "build") /\ UNCHANGED contractVars
       \/ /\ container' = FreshContainer(st.spec, "build")
          /\ Stores(Result(TRUE, st.spec))
    /\ UNCHANGED ready

(* A setup command or a health check in the container, if there is one.    *)
(* The process may die before the result is stored.                        *)
EnvironmentCommand ==
    /\ Pending("setup") \/ Pending("health")
    /\ ~Usable
    /\ \E ok, stored \in BOOLEAN :
          /\ ok => container # NoContainer
          /\ IF stored THEN Stores(Result(ok, st.spec)) ELSE UNCHANGED contractVars
          /\ container' = IF ok /\ st.stage = "setup"
                          THEN [container EXCEPT !.ran = @ \cup {<<st.spec, st.index>>}]
                          ELSE container
    /\ UNCHANGED ready

(* onCommand *)
EnvironmentCommandDone ==
    /\ Pending("build") \/ Pending("setup") \/ Pending("health")
    /\ HasResult
    /\ IF ~results[tr.key].ok
       THEN /\ Answers([st EXCEPT !.stage = "environment-gate", !.retryStage = st.stage], AwaitUser)
            /\ UNCHANGED ready
       ELSE IF st.stage = "build"
       THEN NextEnvironmentCommand([st EXCEPT !.stage = "setup", !.index = 0,
                                              !.image = results[tr.key].of])
       ELSE NextEnvironmentCommand([st EXCEPT !.index = @ + 1])
    /\ UNCHANGED container

(* onUser: retry, describe a change, or say nothing. *)
RetryEnvironment ==
    /\ Awaits("environment-gate")
    /\ IF st.image # None /\ st.retryStage # "build"
       THEN NextEnvironmentCommand([st EXCEPT !.stage = st.retryStage])
       ELSE Build(st.spec, st) /\ UNCHANGED ready
    /\ UNCHANGED container

ReviseEnvironment ==
    /\ Awaits("environment-gate")
    /\ \/ Blocks
       \/ /\ st.ordinal < MaxRevisions
          /\ Answers([st EXCEPT !.stage = "plan", !.ordinal = @ + 1],
                     AgentRequest("environment-planner", st.ordinal + 1))
    /\ UNCHANGED <<container, ready>>

-------------------------------------------------------------------------------
(* The container is lost: docker or the machine is restarted, or it is     *)
(* removed by hand.                                                        *)
ContainerLost ==
    /\ container # NoContainer
    /\ container' = NoContainer
    /\ UNCHANGED <<contractVars, ready>>

(* Coordinator.start, ensureContainer. *)
EnsureContainer ==
    /\ step \in {"implement", "validate", "publish"}
    /\ container = NoContainer
    /\ ready # NotReady
    /\ container' = FreshContainer(ready.image, "recovery")
    /\ UNCHANGED <<contractVars, ready>>

ProvisionNext ==
    \/ StartProvision \/ PlannerTurn \/ Planned
    \/ BuildEnvironment \/ EnvironmentCommand \/ EnvironmentCommandDone
    \/ RetryEnvironment \/ ReviseEnvironment
    \/ ContainerLost \/ EnsureContainer
===============================================================================
