------------------------------- MODULE SetupPage -------------------------------
(***************************************************************************)
(* The setup panel of ui/app.js and what it talks to: GET /api/setup and   *)
(* POST /api/setup/runner of src/api-server.ts, setupStatus and            *)
(* installRunner of src/container-runtime.ts.                              *)
(*                                                                         *)
(* A status is made in two steps: docker is probed by child processes, and *)
(* the state of the build is read when they have ended.                    *)
(***************************************************************************)
EXTENDS PageStream

CONSTANT MaxProbes      \* bound: requests of this part under way

VARIABLES
    docker,     \* daemon answers; the runner image is there
    build,      \* ApiServer.runnerBuild.status
    builds,     \* docker builds of the runner image that are running
    setup,      \* the panel, setupReady, setupPolling, and the disabled buttons
    probes      \* requests under way

setupVars == <<docker, build, builds, setup, probes>>

BuildStatus == {"idle", "building", "succeeded", "failed"}
Ready == docker.daemon /\ docker.image /\ build # "building"
Probed == [docker EXCEPT !.image = docker.daemon /\ docker.image]

SetupInit ==
    /\ docker \in [daemon : BOOLEAN, image : BOOLEAN]
    /\ build = "idle" /\ builds = 0
    /\ setup = [docker |-> Probed, build |-> build, ready |-> Ready, failed |-> FALSE,
                polling |-> FALSE, pressed |-> FALSE, startOff |-> ~Ready]
    /\ probes = <<>>

ProbeRequest(kind) ==
    [kind |-> kind, stage |-> 1, docker |-> Probed, build |-> build]

LoadSetup ==
    /\ Len(probes) < MaxProbes
    /\ probes' = Append(probes, ProbeRequest("setup"))

RefreshSetup ==
    /\ Spend("setup")
    /\ LoadSetup
    /\ UNCHANGED <<docker, build, builds, setup, ordered, log, cursor>>

PollSetup ==
    /\ setup.polling
    /\ LoadSetup
    /\ UNCHANGED <<docker, build, builds, setup, streamVars>>

(* The cli answers "no image" also when its daemon does not run. *)
ProbeDocker(i) ==
    /\ Moves(probes, i, 1) /\ probes[i].kind = "setup"
    /\ probes' = [probes EXCEPT ![i].stage = 2, ![i].docker = Probed]
    /\ UNCHANGED <<docker, build, builds, setup, streamVars>>

SetupStatus(i) ==
    /\ Moves(probes, i, 2)
    /\ probes' = [probes EXCEPT ![i].stage = 3, ![i].build = build]
    /\ UNCHANGED <<docker, build, builds, setup, streamVars>>

(* Faulty: any image will do. *)
IsReadyDaemon(reply) == reply.docker.daemon /\ reply.build # "building"

IsReady(reply) == reply.docker.daemon /\ reply.docker.image /\ reply.build # "building"

(* Faulty: the page leaves it to the events to tell of the build. *)
ShowSetupOnce(reply) ==
    setup' = [docker |-> reply.docker, build |-> reply.build, ready |-> IsReady(reply),
              failed |-> FALSE, polling |-> FALSE, pressed |-> FALSE,
              startOff |-> ~IsReady(reply)]

(* setupReady, renderSetup, updateStartAvailability, and the interval that *)
(* polls while a build is shown.                                           *)
ShowSetup(reply) ==
    setup' = [docker |-> reply.docker, build |-> reply.build, ready |-> IsReady(reply),
              failed |-> FALSE, polling |-> reply.build = "building",
              pressed |-> FALSE, startOff |-> ~IsReady(reply)]

ReceiveSetup(i) ==
    /\ Moves(probes, i, 3) /\ probes[i].kind = "setup"
    /\ ShowSetup(probes[i])
    /\ probes' = RemoveAt(probes, i)
    /\ UNCHANGED <<docker, build, builds, streamVars>>

BuildOffered == setup.docker.daemon /\ setup.build # "building" /\ ~setup.pressed

PressBuild ==
    /\ Spend("setup")
    /\ BuildOffered
    /\ Len(probes) < MaxProbes
    /\ probes' = Append(probes, ProbeRequest("build"))
    /\ setup' = [setup EXCEPT !.pressed = TRUE]
    /\ UNCHANGED <<docker, build, builds, ordered, log, cursor>>

(* Faulty: the button is trusted to be disabled. *)
MayBuildAgain == TRUE

MayBuild == build # "building"

StartRunnerBuild ==
    /\ build' = "building"
    /\ builds' = builds + 1
    /\ AppendEvent(NoRun)

ServeBuild(i) ==
    /\ Moves(probes, i, 1) /\ probes[i].kind = "build"
    /\ IF MayBuild THEN StartRunnerBuild ELSE UNCHANGED <<build, builds, log>>
    /\ probes' = [probes EXCEPT ![i].stage = 3]
    /\ UNCHANGED <<docker, setup, left, ordered, cursor>>

(* The button awaits its request, and then loadSetup. *)
ReceiveBuild(i) ==
    /\ Moves(probes, i, 3) /\ probes[i].kind = "build"
    /\ probes' = Append(RemoveAt(probes, i), ProbeRequest("setup"))
    /\ UNCHANGED <<docker, build, builds, setup, streamVars>>

(* A failing build leaves the image of an earlier one. *)
RunnerBuildEnds ==
    /\ builds > 0
    /\ builds' = builds - 1
    /\ \/ build' = "succeeded" /\ docker' = [docker EXCEPT !.image = TRUE]
       \/ build' = "failed" /\ docker' = docker
    /\ AppendEvent(NoRun)
    /\ UNCHANGED <<setup, probes, left, ordered, cursor>>

(* The operator starts or stops Docker. *)
DockerChanges ==
    /\ Spend("setup")
    /\ builds = 0
    /\ docker' = [docker EXCEPT !.daemon = ~@]
    /\ UNCHANGED <<build, builds, setup, probes, ordered, log, cursor>>

(* A server that starts again knows of no build. *)
SetupCallsFail ==
    /\ \/ build' = "idle" /\ builds' = 0
       \/ UNCHANGED <<build, builds>>
    /\ probes' = <<>>
    /\ UNCHANGED docker

(* renderSetupError leaves the interval alone. *)
FailedSetup ==
    IF probes = <<>> THEN setup
    ELSE [setup EXCEPT !.ready = FALSE, !.failed = TRUE, !.startOff = TRUE]

SetupPageNext ==
    \/ RefreshSetup \/ PollSetup \/ PressBuild \/ RunnerBuildEnds \/ DockerChanges
    \/ \E i \in DOMAIN probes : \/ ProbeDocker(i) \/ SetupStatus(i) \/ ReceiveSetup(i)
                                \/ ServeBuild(i) \/ ReceiveBuild(i)
===============================================================================
