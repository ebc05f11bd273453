------------------------------- MODULE StartForm -------------------------------
(***************************************************************************)
(* The form that starts a run (ui/app.js), with the list of branches of    *)
(* the chosen project, and POST /api/runs and GET /api/projects/:id/       *)
(* branches of src/api-server.ts.  Projects are registered beforehand.     *)
(***************************************************************************)
EXTENDS RunPage, SetupPage

CONSTANTS
    Projects,
    Branches    \* Branches[p]: the local branches git lists for p

ASSUME StartAssumption == \A p \in Projects : Branches[p] # {}

VARIABLES
    start,      \* project select, branch select and the branch picked in it; rushed is
                \* history: the project was changed while a list was loading
    origin,     \* what each run was started with
    forms       \* requests under way

startVars == <<start, origin, forms>>

NoOrigin == [project |-> NoRun, branch |-> NoRun]

StartInit ==
    /\ \E p \in Projects : \E b \in Branches[p] :
        start = [project |-> p, list |-> Branches[p], branch |-> b, enabled |-> TRUE,
                 rushed |-> FALSE]
    /\ origin = [r \in Runs |-> NoOrigin]
    /\ forms = <<>>

FormRequest(kind, p) ==
    [kind |-> kind, stage |-> 1, project |-> p, list |-> {}, branch |-> NoRun,
     ready |-> FALSE, run |-> NoRun]

(* Faulty: the select keeps the branches it has until the new ones come. *)
BranchesKept(p) ==
    start' = [start EXCEPT !.project = p,
                           !.rushed = @ \/ \E i \in DOMAIN forms : forms[i].kind = "branches"]

(* The select of the branches is disabled and empty until they are loaded; *)
(* which of them the operator picks is chosen then.                        *)
BranchesLoading(p) ==
    start' = [project |-> p, list |-> {}, branch |-> NoRun, enabled |-> FALSE,
              rushed |-> start.rushed \/ \E i \in DOMAIN forms : forms[i].kind = "branches"]

LoadProjectBranches(p) ==
    /\ Spend("start")
    /\ p # start.project
    /\ BranchesLoading(p)
    /\ forms' = Append(forms, FormRequest("branches", p))
    /\ UNCHANGED <<origin, runPageVars, setupVars, ordered, log, cursor>>

ListLocalBranches(i) ==
    /\ Moves(forms, i, 1) /\ forms[i].kind = "branches"
    /\ forms' = [forms EXCEPT ![i].stage = 3, ![i].list = Branches[forms[i].project]]
    /\ UNCHANGED <<start, origin, runPageVars, setupVars, streamVars>>

(* Faulty: the select is enabled without a choice. *)
ReceiveBranchesUnchosen(i) ==
    /\ Moves(forms, i, 3) /\ forms[i].kind = "branches"
    /\ start' = [start EXCEPT !.list = forms[i].list, !.enabled = TRUE]
    /\ forms' = RemoveAt(forms, i)
    /\ UNCHANGED <<origin, runPageVars, setupVars, streamVars>>

(* Preferred, base or current branch, or the first of the list. *)
ReceiveBranches(i) ==
    /\ Moves(forms, i, 3) /\ forms[i].kind = "branches"
    /\ \E b \in forms[i].list :
        start' = [start EXCEPT !.list = forms[i].list, !.branch = b, !.enabled = TRUE]
    /\ forms' = RemoveAt(forms, i)
    /\ UNCHANGED <<origin, runPageVars, setupVars, streamVars>>

(* A disabled select is not part of the form's data. *)
HasBranch == start.enabled

SubmitStart ==
    /\ Spend("start")
    /\ ~setup.startOff
    /\ HasBranch
    /\ forms' = Append(forms, [FormRequest("start", start.project) EXCEPT !.branch = start.branch])
    /\ setup' = [setup EXCEPT !.startOff = TRUE]
    /\ UNCHANGED <<start, origin, runPageVars, docker, build, builds, probes, ordered, log, cursor>>

(* The setup is checked, then the body and the configuration are awaited. *)
CheckStart(i) ==
    /\ Moves(forms, i, 1) /\ forms[i].kind = "start"
    /\ forms' = [forms EXCEPT ![i].stage = 2, ![i].ready = Ready]
    /\ UNCHANGED <<start, origin, runPageVars, setupVars, streamVars>>

CreateRun(i, r) ==
    /\ run[r].status = "absent"
    /\ SetRun(r, "queued", 0)
    /\ origin' = [origin EXCEPT ![r] = [project |-> forms[i].project, branch |-> forms[i].branch]]
    /\ forms' = [forms EXCEPT ![i].stage = 3, ![i].run = r]

ServeStart(i) ==
    /\ Moves(forms, i, 2)
    /\ \/ forms[i].ready /\ \E r \in Runs : CreateRun(i, r)
       \/ /\ ~forms[i].ready
          /\ forms' = [forms EXCEPT ![i].stage = 3]
          /\ UNCHANGED <<run, origin, log>>
    /\ UNCHANGED <<start, queue, accepted, recorded, selected, viewVars, calls, setupVars,
                   left, ordered, cursor>>

(* The page selects the run it has started.  The button then follows the   *)
(* setup again, here without waiting until the run is shown.               *)
ReceiveStart(i) ==
    /\ Moves(forms, i, 3) /\ forms[i].kind = "start"
    /\ IF forms[i].run # NoRun THEN SelectRun(forms[i].run) ELSE UNCHANGED <<selected, calls>>
    /\ setup' = [setup EXCEPT !.startOff = ~setup.ready]
    /\ forms' = RemoveAt(forms, i)
    /\ UNCHANGED <<start, origin, serverRunVars, viewVars, docker, build, builds, probes,
                   streamVars>>

(* A failing list is shown as an error in the disabled select. *)
StartCallsFail ==
    /\ forms' = <<>>
    /\ setup' = IF \E i \in DOMAIN forms : forms[i].kind = "start"
                THEN [FailedSetup EXCEPT !.startOff = ~FailedSetup.ready] ELSE FailedSetup
    /\ UNCHANGED <<start, origin>>

StartFormNext ==
    \/ \E p \in Projects : LoadProjectBranches(p)
    \/ SubmitStart
    \/ \E i \in DOMAIN forms : \/ ListLocalBranches(i) \/ ReceiveBranches(i)
                               \/ CheckStart(i) \/ ServeStart(i) \/ ReceiveStart(i)
===============================================================================
