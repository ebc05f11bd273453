------------------------------- MODULE Dashboard -------------------------------
(***************************************************************************)
(* The dashboard of ui/app.js and the API server it is a client of: the    *)
(* parts of the page on the one stream of events that moves them all.      *)
(*                                                                         *)
(* Nothing is persisted but what the server keeps in the database and in   *)
(* the files of its home; the page is never opened a second time.          *)
(***************************************************************************)
EXTENDS GuidancePage

vars == <<streamVars, runPageVars, setupVars, startVars, settingsVars, guidanceVars>>

(* The page is loaded, and has seen the event of each run that exists.     *)
Init ==
    /\ StreamInit
    /\ log = SetToSeq(Runs \ NewRuns)
    /\ cursor = Len(log)
    /\ RunPageInit /\ SetupInit /\ StartInit /\ SettingsInit /\ GuidanceInit

(* onmessage: an event of no run reloads the setup too. *)
Deliver ==
    \E r \in Runs \cup {NoRun} :
        /\ NextEvent(r)
        /\ HandleRunEvent(r)
        /\ IF r = NoRun
           THEN LoadSetup /\ UNCHANGED <<docker, build, builds, setup>>
           ELSE UNCHANGED setupVars
        /\ UNCHANGED <<serverRunVars, viewVars, startVars, settingsVars, guidanceVars,
                       left, ordered, log>>

(* The server is restarted or the connection lost: what is under way       *)
(* fails, and the stream is opened again.                                  *)
Interrupted ==
    /\ Spend("network")
    /\ RunCallsFail /\ SetupCallsFail /\ StartCallsFail /\ SettingsCallsFail /\ GuidanceCallsFail
    /\ Reconnect
    /\ UNCHANGED <<ordered, log>>

Next ==
    \/ Deliver
    \/ Interrupted
    \/ RunPageNext /\ UNCHANGED <<setupVars, startVars, settingsVars, guidanceVars>>
    \/ SetupPageNext /\ UNCHANGED <<runPageVars, startVars, settingsVars, guidanceVars>>
    \/ StartFormNext /\ UNCHANGED <<settingsVars, guidanceVars>>
    \/ SettingsPageNext /\ UNCHANGED <<runPageVars, startVars, guidanceVars>>
    \/ GuidancePageNext /\ UNCHANGED <<runPageVars, setupVars, startVars, settingsVars>>

(* The interval ticks, requests are answered, docker ends; nobody need     *)
(* press a button, and no event need arrive.                               *)
SetupAlone(action) == action /\ UNCHANGED <<runPageVars, startVars, settingsVars, guidanceVars>>

Fairness ==
    /\ WF_vars(SetupAlone(PollSetup))
    /\ WF_vars(SetupAlone(RunnerBuildEnds))
    /\ \A i \in 1..MaxProbes :
        WF_vars(i \in DOMAIN probes
                /\ SetupAlone(\/ ProbeDocker(i) \/ SetupStatus(i) \/ ReceiveSetup(i)
                              \/ ServeBuild(i) \/ ReceiveBuild(i)))

Spec == Init /\ [][Next]_vars /\ Fairness
===============================================================================
