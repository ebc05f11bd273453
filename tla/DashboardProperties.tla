--------------------------- MODULE DashboardProperties ---------------------------
(***************************************************************************)
(* What the dashboard promises the operator who works with it.             *)
(***************************************************************************)
EXTENDS Dashboard

(* Every part of the page and of the server stays within its values.       *)
Sources == [run : Runs \cup {NoRun}, gate : Nat, typed : BOOLEAN]
Gates == [r \in Runs |-> 0..Len(Script[r])]
RunStatus == {"absent", "queued", "working", "awaiting_user", "blocked", "cancelled", "completed"}

DashboardTypeOK ==
    /\ \A r \in Runs : run[r].status \in RunStatus /\ run[r].gate \in Gates[r]
    /\ \A r \in Runs : \A g \in DOMAIN recorded[r] :
          g \in Gates[r] /\ \A q \in DOMAIN recorded[r][g] : recorded[r][g][q] \in Sources
    /\ selected \in Runs \cup {NoRun} /\ shown.run \in Runs \cup {NoRun}
    /\ cursor \in 0..Len(log)
    /\ DOMAIN form = IF panel.holds = "gate" THEN Asked(shown) ELSE DOMAIN form
    /\ setup \in [docker : [daemon : BOOLEAN, image : BOOLEAN], build : BuildStatus,
                  ready : BOOLEAN, failed : BOOLEAN, polling : BOOLEAN, pressed : BOOLEAN,
                  startOff : BOOLEAN]
    /\ start.enabled => start.branch \in start.list
    /\ DOMAIN file \in SUBSET (Fields("runtime") \cup Roles)
    /\ guidance.open => guidance.doc.role \in Roles

AtRest == calls = <<>> /\ ~Undelivered

(* When replies come in order, every event is handled and nothing is under *)
(* way, the page shows the runs, and the selected one, as they are: no     *)
(* change is without its event, and none is overtaken by an older view.    *)
SettledPage ==
    ordered /\ AtRest =>
        /\ listed = Statuses
        /\ selected # NoRun => shown = View(selected)

(* Whatever order replies come in, a text the operator typed for one run,  *)
(* or that was proposed there, is not recorded as an answer of another.    *)
AnswerOfItsRun ==
    \A r \in Runs : \A g \in DOMAIN recorded[r] :
        \A q \in DOMAIN recorded[r][g] : recorded[r][g][q].run \in {r, NoRun}

(* The forms that are rendered anew with each event keep what was typed:   *)
(* of gates whose inputs are synchronised with the draft, the form holds   *)
(* the text typed for the question, in every order of replies.             *)
TypedStays ==
    panel.holds = "gate" /\ Synced(shown) =>
        \A q \in Asked(shown) :
            /\ <<shown.run, shown.gate, q>> \in typed
            /\ q \notin Clarified(drafts[shown.run], shown)
            => form[q].typed

(* The runner image is never built twice at the same time, however often   *)
(* the button is pressed on a page that does not know yet.                 *)
OneBuild == builds <= 1

(* A page that shows a build stops showing it: the interval asks until the *)
(* build is over, though its events or the replies are lost.               *)
BuildIsSeenToEnd == setup.build = "building" ~> setup.build # "building"

(* When the setup is at rest on a page that could load it, the page shows  *)
(* the build as it is and offers to start runs when the server is ready.   *)
SettledSetup ==
    ordered /\ probes = <<>> /\ ~Undelivered /\ ~setup.polling /\ ~setup.failed =>
        /\ setup.build = build \/ build = "idle"
        /\ setup.docker.daemon = docker.daemon => setup.ready = Ready

(* A run is started from a branch of the project it is started for, unless *)
(* the operator changed the project while a list of branches was loading.  *)
BranchOfProject ==
    ~start.rushed =>
        \A r \in Runs : origin[r] = NoOrigin \/ origin[r].branch \in Branches[origin[r].project]

(* What the page said is saved is in the configuration, unless the         *)
(* operator went on before it was said: saving one form does not bring     *)
(* back old values of what was saved from the other.                       *)
SavesTakeEffect ==
    ordered /\ ~hurried /\ (\A i \in DOMAIN saves : saves[i].kind = "get") =>
        \A f \in DOMAIN told : f \in DOMAIN file /\ file[f] = told[f]

(* Guidance stored for a role is guidance of that role, unless the         *)
(* operator turned to a role while a reply was on its way.                 *)
GuidanceForItsRole ==
    ~hasty => \A role \in Roles : \A scope \in DOMAIN override[role] :
                  override[role][scope].role = role
===============================================================================
